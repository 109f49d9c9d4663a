# Optiflow in TLA+

TLA+ models of Optiflow, the TLC instances that check them, and TLAPS proofs about them. Source
paths are relative to `src/backend/` unless they start with `frontend/`.

| module | what it is | about |
|---|---|---|
| `Processing` | the media pipeline: `complete`, the asynq queue, both workers, a rename, a delete | crashes, deadlines, retries, stale Saves |
| `FileLifecycle` | what the pipeline promises of one upload; `Processing` is checked to implement it, its safety half proved | abstract specification |
| `Lineage` | version history: `presignVersion`, `restoreFileVersion`, `deleteFile`, whole-row Saves | READ COMMITTED transactions that overlap |
| `VersionHistory` | the history a user is promised of each file; `Lineage` is proved to implement it | abstract specification |
| `FolderTree` | folders and the files in them: create, move with its cycle check, recursive delete | multi-statement handlers that overlap |
| `FileSystem` | folders and files in places, as users are promised them; `FolderTree` is proved to implement it | abstract specification |
| `Session` | a tab's tokens: next-auth's cookie and session, the bridge, the token store, the interceptors | silent refresh, sign-out, reload |
| `Feed` | notify-svc, Redis, the WebSocket, the cached list and its optimistic marks | lost pushes, reconnects, late answers, rollbacks |
| `Shares` | public links: owner, visitors, `api-svc` and `upload-svc` | check-then-count, dead links, invalidation |
| `Accounts` | sign-up, password reset, profile, and the pages that call them | read-then-write handlers, spent links, stale answers |
| `Listing` | the files page: query cache, polls, dialogs, mutations, uploads | invalidations and refetches that race |
| `MC*` | constants of the TLC instances | |
| `*Proofs` | theorems and proofs (all but the three abstract specifications) | |

## The system

A user's files are rows in Postgres and objects in MinIO. Four HTTP services and two workers share the
database; Redis carries the task queue and the notification channel. A Next.js frontend keeps copies
of all that in caches, a session and sockets.

| component | state it keeps | operations that change it | what makes it correct | module |
|---|---|---|---|---|
| presigned uploads (`cmd/upload-svc/handlers.go`) | `files` rows | `presign` inserts a pending row; `complete` reads it, stats the object, Saves the row as processing or ready, enqueues a task | an accepted upload is processed and settles | `Processing`, `FolderTree`, `Lineage` |
| tus uploads (`cmd/upload-svc/tus.go`) | staging files, `files` rows | `tusPreCreate` checks folder and quota; `finishTusUpload` stores the bytes, inserts the row, enqueues | the row appears in the folder, and in the list | `FolderTree`, `Listing` (partly) |
| task queue (`internal/queue`, asynq) | tasks, retry counts, leases | enqueue, dequeue, retry, archive, recover | a task runs until it is done or archived | `Processing` |
| image-worker, video-worker | goroutines; thumbnail and HLS objects; status and key columns | the task handler, `handleTaskError`, `notifyUser` | a ready row has its objects, a failed one had its attempts | `Processing` |
| files (`cmd/api-svc/handlers_file.go`) | `files` rows, objects | `updateFile` reads and Saves the whole row; `deleteFile` removes a lineage, then its objects | an edit undoes nothing else; a delete is final | `Processing`, `Lineage`, `FolderTree`, `Listing` |
| versions (`handlers_versions.go` of both services) | `parent_id`, `version`, `is_current` | `presignVersion`, `restoreFileVersion` | one current version, distinct numbers, one root | `Lineage` |
| folders (`cmd/api-svc/handlers_folder.go`) | `folders` rows | `createFolder`, `updateFolder`, `deleteFolder` | the folders are a tree, nothing hangs from a folder that is gone | `FolderTree` |
| shares (`handlers_share.go` of both services; share dialog, page of links, public page) | `shares` rows; two cached lists; the visitor's page | create, revoke, resolve, sign, count | limit, expiry and revocation hold; lists follow the owner's changes | `Shares` |
| accounts (`cmd/auth-svc`; sign-up, reset and profile pages) | the user's row, reset tokens; cached profile, session name | `signup`, `login`, `requestPasswordReset`, `confirmPasswordReset`, `updateMe` | a spent token resets nothing; a reset stays; the page shows the name it saved | `Accounts` |
| tokens and sessions (`internal/auth`, `internal/middleware`, `frontend/lib/api/{token,http}.ts`, `session-bridge.tsx`, `lib/auth.ts`) | cookie, session, token store, refresh promise | sign in, refresh, bridge, sign out, page load | cookie, session and store agree; nobody is signed out without cause | `Session` |
| notify-svc (`cmd/notify-svc`) | notifications, connections | insert and publish, subscribe, push, list, mark read | stored before pushed | `Feed` (partly) |
| notification feed (`frontend/lib/api/ws.ts`, `lib/hooks/use-notifications.ts`) | query cache, socket, timer | fetch, push, optimistic mark, reconnect | one live socket; the list converges to the database | `Feed` |
| files page (`frontend/app/dashboard/files`, `lib/hooks`) | query cache, dialogs, uploads | navigate, mutate, invalidate, poll, refetch | what is shown is what is stored | `Listing` (partly) |

They interact through shared rows more than through calls: `updateFile`, `complete`, `updateFolder`
and `updateMe` write back *every* column of a row they read a moment earlier (gorm `Save`, which also
inserts the row again when it is gone), while workers, restores, resets and deletes update the same
rows in place. That, at-least-once tasks, multi-statement handlers without a serializable
transaction, and a browser that copies tokens, names and lists between a cookie, a session, a store
and a cache are where the hard behaviours are. `PROJECT.json` lists them as hazards, each at its line,
with the properties that would catch them.

## How the models correspond to the code

A handler is a record with a program counter and the values it has read. Each database statement,
each storage call and each queue operation is a step of its own, so calls interleave between them as
they do in the services; what happens between two of those is local and part of the step before or
after. In the browser a step is one callback: an answer that arrives, an effect, a timer, a click.
`PROJECT.json` maps every definition to the lines it models.

A row is a record with the columns the properties tell apart. `Save` is an assignment of the whole
record that was read (`Saved`, `RewriteSave`, `MoveSave`, `PutSave`), an `UPDATE` of named columns an
`EXCEPT` that ignores a missing row (`ReadyRow`, `FailedRow`, `MadeCurrent`, `Count`).

**Processing.** `row` is the `files` table, `objects` what MinIO holds for each file, `req`, `ren`
and `deletion` the HTTP calls, `task` the Redis side of asynq, `slot` the goroutine pairs of the
workers, `pushed` what notify-svc accepted. A slot is a processor goroutine (`proc`) and the handler
goroutine it started (`handler`), two fields because a deadline parts them: the processor goes on to
the ErrorHandler and the next task state, the handler keeps running with a cancelled context and may
still write the row. Objects are stored one after the other; `Store` leaves any prefix. `Budgets` is
a set of budgets, one of which holds in a behaviour: how often each fault happens (a crash, a passed
deadline, a failed piece of work, storage error, row update, mark, enqueue or push). asynq is external
and modelled from the options the code sets: at-least-once, archive after `SkipRetry` or `MaxRetry`,
the recoverer that takes back a task whose lease nobody extends without calling the ErrorHandler.

**Lineage.** `row` is the part of the `files` table that makes history. A Postgres transaction at
READ COMMITTED is two steps: `Begin` fixes the rows its first statement selects, the commit writes
those that still exist; a row inserted in between is not seen. Two transactions that write the same
rows wait for each other in Postgres; here the last commit simply writes later, which reaches the
same tables. `updateFile` and `complete` are one kind of call, `Rewrite`: for the history both read
a row and Save it. `VersionHistory` has a set of numbered versions and a shown one per file, and three
operations that happen at once; `History` maps the rows to it (`Entries`, `Shown`).

**FolderTree.** `folder` and `file` are the two tables (a file stands for a whole lineage, at the
folder of its current version). `isDescendant` climbs one query a step (`MoveWalk`). `deleteFolder`
carries the stack of its recursion in `levels`; each query of `deleteFolderTree` is a step that sees
what is committed minus what its own transaction has removed; `DropCommit` makes it all happen at
once, `DropRollback` nothing of it. Rows a transaction has deleted are locked until then
(`LockedFolder`, `LockedFile`). A presigned upload and a tus upload are one kind of call, `Arrive`:
a folder check, and a row inserted some time later. `FileSystem` has the place of each folder and file there
is, and the ids not yet used; `Fs` reads them off the rows that exist and the calls that have not inserted.

**Session.** Access tokens are numbered as auth-svc issues them, and a refresh token travels with its
access token, so a token in `cookie` or `session` stands for both, while `store` (token.ts) has two
fields: the bridge sets both, a refresh only one. `poll` and `update` are the calls to next-auth in
flight with the cookie they carry; next-auth is external, and modelled as what `useSession()` and
`update()` do: the answer sets the cookie again, `update()` is a no-op while loading or busy. `request`
is a page's request through the interceptors of http.ts: sent with the store's token, on a 401 joined
to the one refresh (`Joined`), sent once more when it succeeds. `RejectedBare` is the 401 that finds no
refresh token. `Load` is a full page load: everything but the cookie is forgotten, and a call in flight
may still set that. `cause` remembers why the user was signed out first.

**Feed.** Notifications are numbered as they are inserted. A call of `internalNotify` inserts the row
(`InternalNotify`) and publishes it in a later step (`Publish`), or fails to: `posted` holds the rows that
are still to be published, and calls that overlap publish them in any order. `bus` is what Redis has yet to
hand to the hub; `DeliverLocal` takes
the next and writes it to the connections there are, so a tab without one misses it. A `socket` is one
NotificationSocket: its flag `alive` (not `closedByCaller`), the token it will connect with, its reconnect
timer and the state of its WebSocket; the hook owns one per session token (`current`), and closed ones
can still see a late close event or a timer. `cache` is the list in React Query, `fetch` the GET in
flight; `MarkRead` is the optimistic update with the snapshot `prev` that `MarkFails` brings back.

**Shares.** `row` is the `shares` table, `given` a history variable that counts signed URLs. A download
is four steps, as in `shareDownloadURL`: resolve the link and check the password, read the file and sign,
count, and show the URL. The visitor's page is a query of its own with what it shows while it asks again. It has `retry: false`, so a
request that is lost and a query of the handler that fails (`LoadFails`) show "Link not found" as a dead link
does; `failed` tells the two apart, and the page can be opened again. `DownloadFails` is the same of a download.
The owner has two lists of links (dialog and page), each with its cache and fetch, a creation and a
revocation per link. The token's text and the password's hash are what they let through.

**Accounts.** `user` is the row, `token` the reset tokens, `chosen` a history variable. `tab`
is the page a tab shows with its one call; `confirmPasswordReset` is a read and a transaction
(`CheckToken`, `ConfirmReset`), `updateMe` a read and a Save (`ReadMe`, `SaveMe`). `late` remembers
that a reset was confirmed when its link was spent. A profile's name is in the row and in the cached
`GET /me` (the session's copy is shown only where there is no profile, and is left out). When a save has
been answered (`SaveAnswered`) its button is free again, while `update()` gives the session the name
(`naming`, until `SessionNamed` closes the field): a second save may be clicked meanwhile, whose own
`update()` is then the no-op of a loading session (`muted`).

**Listing.** A handler is one step here, since how handlers overlap is the subject of the modules
above. `cache` and `fetch` are React Query's by key (`files` or `folders` of a folder); `Active` says
which keys the page observes; `Invalidated` asks those again, in place of a request in flight but for
one that loads its list first; `Poll` is the `refetchInterval` of `useFiles`. `dialog` and `call` are
the open dialog and the pending mutation of each hook. `upload` is the resumable upload: success in the
browser, the row some time later in `finishTusUpload`, and the two delayed refetches in between.

React Query (v5) is external in all four frontend modules: an invalidation refetches active queries and
replaces a request in flight, except an initial fetch without data, which it joins; a query that is mounted
always fetches or joins the request in flight; an error keeps the data.

**Disciplines.** Several promises hold only when a client does not overlap some of its own calls. A
variable that never changes says, from the first state on, which discipline a behaviour keeps, and runs
explore several; a property names in its hypothesis what it needs, and nothing else is assumed.

| module | variable | what it means |
|---|---|---|
| `Lineage` | `alone` | the kinds of calls that run while no other call does |
| `FolderTree` | `apart` | moves, or deletes, do not overlap with each other, or with anything |
| `Session` | `careful` | one tab, whose user and pages wait for the session before they act |
| `Feed` | `calm` | what is kept apart: "fetch", nothing is inserted or on its way during a fetch; "notify", calls of `internalNotify` do not overlap; "mark", marks do not |
| `Shares` | `patient` | the owner waits for a list to load, and for calls to end before leaving |
| `Accounts` | `calm` | resets and profile saves do not overlap |
| `Listing` | `calm` | the user waits for first loads and for calls; upload-svc finishes before the last refetch |

Without its hypothesis each of those properties is false in the model. Where documentation promises it
without one, three violation runs show the disagreement (a task lost on the shared queue, two current
versions, a sign-out at a page load). Others are only stated under *Observations*, and no run of their own
shows them: the reset token that is not single-use, the cycle of two folder moves, the exceeded download limit.

## What the runs check

| run | instance | checked |
|---|---|---|
| `pipeline_shared` | an image and a video, both workers on the one queue, one `complete` each, a rename, a delete; each of crash, passed deadline, lost enqueue, failed mark, failed push once, or one storage error | `ReadyIsServable` (a ready row has its keys), `KeysAreBacked` (a key names stored objects) |
| `pipeline_lifecycle` | two videos, one unreadable, a document, two goroutine pairs; a failed work, read and row update, or a crash, or a passed deadline | `ProcessingIsQueued` (a file in processing is owed an attempt), `FailedMeansSpent` (a good file fails only with its retries spent), `ImplementsLifecycle`, `Settles` |
| `drop_shared_queue` | an image and a video on the shared queue, no fault | **violates** `ProcessingIsQueued` |
| `lineage_calls` | two files, two new versions, two restores, a rewrite, a delete, three disciplines | `OneCurrent`, `NeverHidden`, `ParentsAreRoots`, `FollowsHistory` (the rows implement `VersionHistory`) |
| `lineage_overlap` | two overlapping `presignVersion` calls | **violates** `ExactlyOneCurrent` |
| `folder_tree` | a folder in a folder, a create, two moves, a delete, an upload, a file update, three disciplines | `MovesKeepTree`, `NothingOrphaned`, `EveryCallAnswered`, `FollowsFileSystem` (the rows implement `FileSystem`) |
| `session` | one tab, two requests, any three of seven events, each once | `Agreement`, `NoUndeservedSignOut`, `SilentRefresh`, `EveryRequestSettles` |
| `session_reload` | a page load with a cookie, one request, no event | **violates** `StaysSignedIn` |
| `feed` | two notifications, a list of one, a mark, two socket objects, any two of five events, three disciplines | `OneLiveSocket`, `ReadIsTrue`, `FeedInOrder`, `FreshSocket`, `Converges` |
| `shares` | one link of any of three kinds, two visitors, one of eight events | `Overshoot`, `ErrorIsFinal`, `NoLateUrl`, `ListCurrent` |
| `accounts` | two tabs, passwords and names, one reset token, one of four events | `ResetStands`, `LateResetRefused`, `OwnNameShown` |
| `listing` | a file with an old version, a folder, an upload, and any one of eleven events, or two chosen pairs | `ShownIsStored`, `StatusCatchesUp` |

All but `pipeline_shared`, whose types the proofs cover, check a type invariant as well.

### Findings

* `drop_shared_queue`: both workers consume one queue, each knows one task type; foreign deliveries
  use up the retries and the ErrorHandler of the wrong worker ignores the last one. The file stays
  processing (`cmd/image-worker/main.go:75`; `plan.md:198` "no silent-forever-retry, no silent-drop").
* `lineage_overlap`: two new versions at once leave two current rows
  (`cmd/upload-svc/handlers_versions.go:111`; `internal/models/file.go:41` "exactly one true row per
  lineage at a time").
* `session_reload`: a request that leaves before the bridge has copied the session has no token, and
  its 401 finds no refresh token, so a user whose cookie is good is signed out
  (`frontend/lib/api/token.ts:47`; `frontend/lib/auth.ts:109-110` "so the new token survives a page
  reload", `plan.md:114` "silent refresh-and-retry on 401").

### Observations

These were met while modelling. The models contain the behaviour unless it says otherwise; the
properties set it aside in their hypotheses.

* `updateFile` writes back the status and keys it read: a rename that overlaps the end of processing
  puts a ready file back to processing for good (`cmd/api-svc/handlers_file.go:121`).
* asynq's recoverer archives a task whose worker died in the last attempt without calling the
  ErrorHandler: the file stays processing (`cmd/image-worker/main.go:76`).
* A storage error surfaces while the image is decoded, is taken for a corrupt image and skips all
  retries (`cmd/image-worker/handlers.go:76`, against the distinction of `README.md:212-213`).
* Two folder moves that overlap pass each other's check and close a cycle
  (`cmd/api-svc/handlers_folder.go:197`; `README.md:188` "rejects moving a folder into itself or a
  descendant"); deleting a folder of a cycle then never returns.
* `MaxRetry(5)` is six attempts where `internal/queue/tasks.go:20` says five.
* "Processing failed" is pushed with the context of the attempt: one that ended by its deadline tells
  nobody (`cmd/video-worker/handlers.go:242`).
* A notification inserted while a fetch is under way can appear twice, or out of order, until the next
  fetch; so can two whose `internalNotify` calls overlap be out of order, since each publishes some time
  after it has inserted (`cmd/notify-svc/handlers.go:141,147`); a rollback of a failed mark drops what was pushed since its snapshot
  (`frontend/lib/hooks/use-notifications.ts:31,51`).
* A download limit of n can be exceeded by as many downloads as overlap, less one (`Overshoot`), and
  by one for each failed count, which is only logged (`cmd/upload-svc/handlers_share.go:89`; the doc of
  `share.go:10-13` and `plan.md:124` name a limit without that margin).
* A lost request, a 500, or any failed query of the file (`cmd/api-svc/handlers_share.go:237-246`) shows "Link
  not found" for a link that works, since the page does not retry; it can outlast the fault until the page is
  focused or opened again.
* Two confirmations of one reset token that overlap both succeed: the token is read and checked outside
  the transaction that marks it (`cmd/auth-svc/handlers_password_reset.go:117-137`), against
  `internal/models/password_reset_token.go:9` "short-lived, single-use token". `LateResetRefused` is what is left.
* A profile save that overlaps a reset writes the old password back (`cmd/auth-svc/handlers.go:208`).
* The rename dialog opened on a row that a new version supersedes meanwhile renames the old row.
* A version upload that fails after presign leaves a pending row that the list shows only at its next
  fetch: `onError` invalidates nothing.
* The delayed refetches miss an upload that is finalised more than four seconds after its last byte
  (`frontend/lib/hooks/use-upload.ts:55-66`).
* Not modelled: a tus upload takes its token when a request starts and never refreshes it, so a long
  one may carry an expired token (`frontend/lib/hooks/use-upload.ts`).

### Bounds, and why they are enough

* *Budgets.* Every module gives each environment event (a fault, an expiry, a focus, a closed tab) a
  budget, here one each; `Mix` (or `Together`, or `Budgets`) bounds how many *different* events meet in
  one behaviour. Everything the programs do of themselves is unbounded but for the counts below. Each
  event can happen at any moment, so an instance covers each event against every interleaving, and
  combinations up to `Mix`.
* `Processing`: `MaxRetry` is 1, not 5 and 2: one attempt with a retry left and one without are the two
  cases the code tells apart. A document takes the branch without a worker. Two goroutine pairs and a
  deadline let an attempt run beside the late one it retries: in `pipeline_lifecycle`, that is.
  `pipeline_shared` has one pair per worker, so there a retry waits for the late goroutine, and that
  rows and keys are good with the two side by side is covered by the proofs alone. The race of two `complete` calls on one file, which
  does not fit beside the faults, is covered by the proofs.
* `Lineage`: two uploads and two restores give every pair of writers, a rewrite and a delete meet each
  of them; two roots let a call concern the wrong file. Uploads, restores and roots are symmetric; the
  three disciplines are those the properties name.
* `FolderTree`: three folders (two and one created) allow a cycle of two with a bystander and a
  subtree of depth three. `MaxDepth` (9) is far over any depth a delete needs, revisits included;
  a recursion that reaches it counts as one that never returns (`lost`).
* `Session`: two requests are one that starts a refresh and one that joins or follows it. `Mix` 3 lets
  an expiry, a sign-in and a lost call or reload meet. Tokens are as many as the events can issue.
* `Feed`: two notifications and `Limit` 1 make a list that is shorter than the table; two sockets are
  the old and the new one of a session update (which of the closed ones is taken makes no difference). One mark suffices where
  marks do not overlap, which is all `ReadIsTrue` is about.
* `Shares`: a limit of one with two visitors is the smallest overshoot; `MaxGiven` 2 stops a visitor
  from starting more once a link has given two URLs. The three `Forms` are a limit, a lock with an
  expiry, and the zero that the field lets through and the server refuses.
* `Accounts`: two tabs are the two calls that overlap; two passwords and names tell old from new.
* `Listing`: two folders (one of them created in the run), a file with an old version, its new version
  and an uploaded file; each kind of call once, alone or against a lost call, and a rename against a delete.
* Deadlock is off in every run: when all calls have been answered and all events are spent, the
  system rests.

### Fairness

All of it is weak fairness of steps the programs take of themselves; nothing obliges a user to act and
no fault ever has to happen.

* `Processing!FairSpec`: a `complete` call goes on, some free worker takes a pending task, the goroutines
  of a slot run, the recoverer visits every task. A Go handler runs until it returns, asynq's processors
  poll the queue and its recoverer is a periodic loop.
* `FolderTree!FairSpec`: a call that has started takes its next step. It lets a transaction wait for
  another's locks, and a roll back is always possible to it.
* `Session!FairSpec`: calls are answered or aborted (axios and fetch reject when a connection ends), and
  React runs effects.
* `Feed!FairSpec`: calls are answered, the hub's loop delivers, sockets connect or close, timers fire,
  effects run. `Converges` has a hypothesis instead of an obligation to fetch: *if* the list is fetched again and again.
* `Listing!FairSpec`: requests are answered, the poll and refetch timers fire, a worker ends with every
  file. React Query pauses a poll while its tab is hidden, so this is about a visible tab; that workers
  end is `Settles` of `Processing`.

`Lineage`, `Shares` and `Accounts` state only safety.

## What is proved

`tlapm` checks every proof; nothing is assumed but the named assumptions on constants, and those
hold for every number of files, calls, goroutines, tabs, visitors, retries and events, `Mix` and
budgets included.

| theorems | of |
|---|---|
| `TypeCorrect`, `RowsCorrect`, `KeysCorrect`, `NothingDropped`, `FailuresAreSpent`, `PipelineFollowsLifecycle` | `Processing` |
| `LineageTypeCorrect`, `RootsCorrect`, `HistoryCorrect`, `NumbersAreDistinct`, `NoFileIsHidden`, `DeleteIsFinal`, `RowsFollowHistory`, `LineageImplementsHistory` | `Lineage` |
| `TreeTypeCorrect`, `TreeKept`, `DeleteTakesAll`, `RowsFollowFileSystem`, `FolderTreeImplementsFileSystem` | `FolderTree` |
| `SessionTypeCorrect`, `SignOutsAreDeserved`, `TokensAgree`, `RefreshesAreSilent` | `Session` |
| `FeedTypeCorrect`, `OneSocketAtATime`, `ListsStayInOrder`, `MarksAreTrue` | `Feed` |
| `SharesTypeCorrect`, `OvershootBounded`, `ErrorsAreFinal`, `LateGetsNothing`, `ListsAreCurrent` | `Shares` |
| `AccountsTypeCorrect`, `ResetIsKept`, `LateResetsFail`, `NameIsOwn` | `Accounts` |
| `ListingTypeCorrect`, `PageShowsWhatIsStored` | `Listing` |

In most modules `TypeOK` is not inductive as it stands; `TypeInv` adds what a step relies on (a form
that was sent is filled in, a mark was made in a loaded list, a link about to be inserted has a number).

**Processing.** `TypeCorrect` is inductive once one adds that a goroutine that is not idle has a
task (`SlotsHaveTasks`). `RowsCorrect` (`ReadyIsServable` and `KeysAreBacked`) needs more than the
rows: a Save writes a snapshot, so every snapshot in a call must be good too, and a handler about to
write the keys must already have stored the objects. `RowInv` says it: rows and snapshots are good
(`RowsGood`), handlers at `update` have stored all (`SlotsStored`). `NothingDropped`
(`ProcessingIsQueued`) holds under `Sheltered`: no rename, no lost enqueue, no failed mark, workers
that are only given their own task type, and either no worker that dies or no more faults in all than
a task has retries, and no video deleted; the findings and observations show why. Its invariant
follows a file from the call that will enqueue, to the task, to the processor that has it: `Carried`
(a file in processing has a call, a task that is due or abandoned, or a promising attempt that carries
it), `OneProcessor` (a task has at most one processor goroutine) and `EnqueuedOnce`. That the recoverer
gives an abandoned task back, and does not archive it, is arithmetic: every retry that was used, or is
as good as used (`Charged`), was paid for by a fault, so the retries left are at least the faults left
(`RetriesCover`).
`FailuresAreSpent`: a failed status, in a row or in a snapshot a Save may still write, belongs to a
file with a task that is spent, which no other step undoes (`SpentStays`). A worker that dies leaves a
late goroutine or none, and a task that is `Abandoned`; the proof allows it where `SkipsAreFinal`: then
only corrupt files make a worker give up early (`OnlyCorruptSkips`, which rests on `OriginalsKept`, an
accepted upload keeps its object until it is deleted).
`PipelineFollowsLifecycle` is the safety half of `ImplementsLifecycle`, under `Orderly`: no rename, one
`complete` per file, no deadline that leaves a goroutine behind, and a worker that dies only where no
other fault lets an attempt of its file fail. `LifeInv` adds that a row is pending until its call saves
it, that tasks come after that (`CallsPrecedeTasks`), that a processor waits for every handler
(`HandlersAwaited`), and why no attempt settles a file otherwise than it is settled: its task is over
(`UndisturbedOutcomes`), or the file's bytes alone decide every attempt (`RepeatableOutcomes`).

**Lineage.** `LineageTypeCorrect` needs that `MaxVersion` exists: the numbers ever read or written
are bounded (`NumbersBounded`), and a bounded non-empty set of naturals has a largest element
(`MaxExists`, by well-foundedness of `<`). `RootsCorrect` holds however calls overlap; `RootsInv`
adds that roots have no parent and that a call's root is a root. `HistoryCorrect` and `DeleteIsFinal`
hold under `SerialWriters`. `SerialInv` is `Exclusive` (a writer in flight is the only call in
flight), `CallGood` (what a call has read still describes its lineage: the rows its transaction
selected cover what is left of it, a restore's target is there or the whole lineage is gone, the
number to insert is above every other) and `LineageGood` (one current row, distinct numbers).
`DeleteIsFinal` is a property of steps, from the same invariant. `NoFileIsHidden` lets uploads and restores
race: no row goes away or is overwritten while one of them is in flight (`KeptInv`), so a restore's target is
still there when it is promoted, and a transaction that makes rows old makes another of the lineage current.
`LineageImplementsHistory` is the refinement of `VersionHistory`, and `RowsFollowHistory` the same step by
step where only some clients keep the discipline. Each commit has a lemma that says what it does to the history
(`UploadEffect`, `RestoreEffect`, `DeleteEffect`), every other step leaves it alone, a `Rewrite` because what it
Saves is what it read (`RewriteWritesNothing`). A new version is the *next* one because the number a call
has computed is one more than that of some version still there, and above all others (`CallGood`,
`MaxVersionIsTaken`).

**FolderTree.** `TreeTypeCorrect` needs that a climb is at a folder and that a delete removing a
folder still has a level on its stack (`Placed`, `DropsHaveFolders`). `TreeKept` (`MovesKeepTree`)
rests on `UnbornInv`, a folder not yet inserted is named by no row and no move, and on `TreeInv`.
Call a set of folders closed but for `i` when each of its members but `i` exists and its parent is in
the set: a cycle is a closed set, and saving `i` under `p` makes a cycle out of a set that holds `p`
and is closed but for `i`. While `isDescendant` climbs, every such set also holds the place it has
reached (`AllWaysAhead`), and at the top level there is none (`NoWayRound`), whatever creates and
deletes do meanwhile. A create adds a row no set can use, a delete only makes such sets fewer.
`DeleteTakesAll` (`NothingOrphaned`) is about a delete that no call overlaps. `DeleteInv` says that
every row hangs from something that exists, so does what a call in flight is about to write, and
(`DropGood`) that what the transaction has removed is closed downwards, while what hangs from a
folder of its stack is removed, still to visit, or the next folder of the stack. At the commit the
stack is empty, and the removed set leaves nothing behind.
`FolderTreeImplementsFileSystem`, and step by step `RowsFollowFileSystem`, put the two together. `ExactInv`
adds that what a delete has removed, selected or stacked is below its folder, that the folder is at the
bottom of its stack or removed, and that the rows a move or an update is about are still there. So a
commit takes what is below the folder, all of it (`DeleteInv`) and no more (`ExactInv`); and a move
never goes below what it moves, because what is below a folder is a set closed but for that folder
(`BelowClimbs`), which `NoWayRound` excludes. A folder that comes back after its delete, or a row under
a used id, would be a step `FileSystem` does not have.

**Session.** `SignOutsAreDeserved` needs the whole life of a careful tab (`CarefulInv`): loaded with one
call for the session under way, it asks only once the store holds what that call brought (`AskingInv`:
whoever has a request or a refresh in flight has a refresh token), and the session never falls back to
loading or none short of a page load (`PollsInv`, `FormInv`, `StoreInv`). `TokensAgree` adds that every
token that travels was issued (`IssuedInv`), so a refresh brings one that neither the session nor the
bridge has seen, and that a refresh whose `update()` was dropped leaves the store ahead only until the
busy call has answered (`AgreeInv`). `RefreshesAreSilent` adds, for one expiry, that a request is sent
again only after a token has expired, with a token that no other expiry can reach (`SpentInv`, `RetryInv`).

**Feed.** `OneSocketAtATime` rests on one fact about every socket but the mounted page's: it is `Quiet`,
closed by its caller, with no timer and no connection, so that neither a late close event nor a
timer brings it back. `ListsStayInOrder` needs an order across the whole path (`OrderInv`), where `Newer`
means another notification and, if calls of `internalNotify` do not overlap, a later one: the list, every snapshot
a rollback may restore and the answer in flight are descending, what Redis still holds is ascending and newer than
all of them, what is still to be published is newer than that, and during a fetch there is nothing on the way.
`MarksAreTrue` (`ReadInv`): with one mark at a time, its snapshot shows as read only what is read in the database,
so rolling back is safe; what the list shows beyond that is the mark in flight.

**Shares.** `OvershootBounded` is a counting argument. `Counted`: a URL that was signed is in the count of
the link's row, or about to be (a visitor in `Signed`), or its update failed. `Bounded`: a visitor whose call
has passed the check (`Resolved`) holds one URL more; when it passed, the count was below the limit and
those about to be counted were at most the other visitors. Hence n + N - 1 and one per failed count.
`ErrorsAreFinal` and `LateGetsNothing` rest on `PageInv`: a link that is dead stays dead (`DeadForGood`,
a lemma about every step), so what an answer said of it is still true when it arrives, a page that shows an
error has that from such an answer or from a request that `failed`, and a late
click can still be resolved only while its file is gone. `ListsAreCurrent` (`ListInv`): a list, or an
answer on its way, that differs from the rows is `Followed` by a call whose success will invalidate it (`Outstanding`),
and a patient owner has such calls only with a loaded list in view, where an invalidation is not lost.

**Accounts.** `ResetIsKept` (`StandInv`): where the calls that write the row do not overlap there is at most
one, so the row a save has read is the row it writes back. `LateResetsFail` (`LateInv`): a token that is used or has
expired stays so (`SpentForGood`, a lemma about every step), so the check of a late confirmation, however much
later it runs, finds it so. It says nothing of confirmations that pass the check together. `NameIsOwn` (`NameInv`): a profile page that nothing disturbs is `UpToDate`: what
it has read is the name in the row, or a save of its own will invalidate it; the profile is loaded before
it can be saved, so the invalidation replaces any request that might still bring the old name.

**Listing.** `ListingTypeCorrect` needs that dialogs and calls are about things of their kind and that one row of the
lineage is current (`OneLineage`), or `presignVersion` would have none to succeed. `PageShowsWhatIsStored`
rests on `ViewInv`, for a calm user who has lost no request: before a call or an upload starts, every list
in view is loaded (`DialogReady`, `CallsReady`, `UploadReady`), so an invalidation replaces a request in
flight and never joins it. Then each list in view is `Fresh`, what was read of it is what is stored, or
`Pending`, a call that was served or a refetch will invalidate it (`UpToDate`). A step that changes rows
makes every list it changes pending: what a call does not invalidate it does not change (`InvalidatesEnough`).

Only model-checked: liveness (`Settles`, `EveryCallAnswered`, `EveryRequestSettles`, `FreshSocket`,
`Converges`, `StatusCatchesUp`) and the liveness half of `ImplementsLifecycle`.
Every invariant a passing run checks is proved, most under the hypotheses its own statement carries, two under
more: `ProcessingIsQueued` where `Sheltered` holds, `FailedMeansSpent` where `SkipsAreFinal` does. The instance
of `pipeline_lifecycle` satisfies both, and but for its passed deadline `Orderly`: no hypothesis of a theorem is
empty, and with the deadline the run goes further than `PipelineFollowsLifecycle`.

## What is not modelled, and why

* `getX`, downloads, HLS streaming (`handlers_hls.go`), statistics: they read and change nothing.
* Renditions and playlists (`ffmpeg.go`, `hls.go`): pure functions to ffmpeg arguments and text. Their
  outputs enter `Processing` as objects that are stored or missing.
* The tus protocol (the tusd library), its staging directory and the quota sum: a crash between the last
  byte and the row loses the upload and nothing recovers it; overlapping uploads may pass `checkQuota`
  together, and nothing promises otherwise.
* Version history and folder tree in one table: a version that moves between folders, or is restored
  into one that is gone, needs both models at once and is out of TLC's reach.
* notify-svc's loop over the connections of many users, and its reconnect to Redis beyond the lost publish.
* Token signing, claims and password hashes: stateless functions of their input and the clock.
* Google sign-in, the search box, view modes, the list in the versions dialog, the video player, the
  dashboard overview, the landing page and `components/ui`: rendering, or state no other part depends on.
* Several users: every query is scoped by `user_id`, so users share no rows.
* A statement that fails in the middle of an HTTP handler ends it with a 500 where the model lets
  the call stop or be lost, except in the pipeline, where each failure is a fault of its own.
* Names, sizes, keys and payloads as text; deployment files.

## Plan

In the order of what matters most. Done: the pipeline and its abstract specification, version history,
folders, session, notifications, shares, accounts, the files page, each with its runs and proofs. Left:

1. *Library*: `Lineage` and `FolderTree` over one `files` table, at least for proof: versions that change
   folder, a restore into a folder that is gone. Abstract specification: logical files and folders that
   appear, move and vanish in single steps, which the composition implements for clients that keep
   their calls apart.
2. *Quota and tus*: `checkQuota` against presign, presignVersion and tus, with a crash at every step
   between the staging file and the row.
3. *Hub*: several users and replicas, a stalled connection, a subscriber that reconnects.
4. *Renditions*: ladder, even widths, bandwidths as operators against a reference definition.
