----------------------------- MODULE Processing -----------------------------
(***************************************************************************)
(* The media processing pipeline: what happens to a files row between      *)
(* POST /uploads/{id}/complete and the moment it is ready or failed.       *)
(*                                                                         *)
(*   upload-svc    complete: read the row, stat the object, Save the whole *)
(*                 row, enqueue a task                                     *)
(*   api-svc       updateFile: read the row, Save the whole row;           *)
(*                 deleteFile: delete the row, then remove the objects     *)
(*   asynq         (external) the one "default" queue both workers consume *)
(*   image-worker, video-worker   the task handlers and their ErrorHandler *)
(*                                                                         *)
(* A worker slot is one asynq processor goroutine and the handler goroutine *)
(* it started: when the task's deadline passes the processor gives up on   *)
(* the attempt while the handler goroutine keeps running.                  *)
(*                                                                         *)
(* Not here: versions (each file is its own lineage), folders, quota, and  *)
(* tus uploads; names, sizes and rendition contents.                       *)
(***************************************************************************)
EXTENDS Naturals, FiniteSets

CONSTANTS
    Image, Video, Other,   \* the files, by the class of their MIME type
    Corrupt,               \* the files whose bytes neither decoder can read
    Request,               \* complete calls; also the ids of the tasks they enqueue
    Rename,                \* PATCH /files/{id} calls
    FileOf,                \* the file each call is about
    Deletable,             \* the files their owner may delete
    ImageSlot, VideoSlot,  \* goroutine pairs of each worker
    MaxRetry,              \* [kind of task -> asynq.MaxRetry]
    Budgets,               \* how often each environment fault may happen: a run has one of these
    NoTask

File == Image \cup Video \cup Other
Slot == ImageSlot \cup VideoSlot
TaskKind == {"image", "video"}
Fault == {"crash", "timeout", "work", "read", "db", "mark", "enqueue", "push"}

ASSUME FilesAssumption ==
    /\ Image \cap Video = {} /\ Image \cap Other = {} /\ Video \cap Other = {}
    /\ Corrupt \subseteq File /\ Deletable \subseteq File
ASSUME CallsAssumption ==
    /\ FileOf \in [Request \cup Rename -> File]
    /\ Request \cap Rename = {} /\ NoTask \notin Request
ASSUME WorkersAssumption ==
    /\ ImageSlot \cap VideoSlot = {}
    /\ MaxRetry \in [TaskKind -> Nat] /\ Budgets \subseteq [Fault -> Nat]

VARIABLES
    row,       \* Postgres: the files row
    objects,   \* MinIO: the objects stored for a file
    req,       \* the complete calls in flight in upload-svc
    ren,       \* the updateFile calls in flight in api-svc
    deletion,  \* the deleteFile call of a file
    task,      \* Redis: the asynq tasks
    slot,      \* the workers' goroutines
    pushed,    \* the notifications notify-svc accepted about a file
    left       \* what remains of the fault budget

vars == <<row, objects, req, ren, deletion, task, slot, pushed, left>>

-----------------------------------------------------------------------------
Status == {"pending", "processing", "ready", "failed"}

\* preview is "thumbnail_key is not null", playlist is "playlist_key is not null".
Row == [exists: BOOLEAN, status: Status, preview: BOOLEAN, playlist: BOOLEAN]

\* preview: thumbnails/{id}.jpg or hls/{id}/poster.jpg; segments: every variant
\* playlist and .ts file; master: hls/{id}/master.m3u8.
Object == {"original", "preview", "segments", "master"}

KindOf(f) == IF f \in Image THEN "image" ELSE IF f \in Video THEN "video" ELSE "other"
ServedBy(s) == IF s \in ImageSlot THEN "image" ELSE "video"

\* The derived objects of a file in the order the handler stores them: the sets
\* a handler that stops early may leave behind.
StoredPrefixes(f) ==
    IF f \in Image THEN {{}, {"preview"}}
    ELSE {{}, {"preview"}, {"preview", "segments"}, {"preview", "segments", "master"}}
Assets(f) == IF f \in Image THEN {"preview"} ELSE {"preview", "segments", "master"}

\* Mutant: upload errors are logged and the handler goes on.
StoredAnyway(f, stored) == TRUE

StoredAll(f, stored) == stored = Assets(f)

NewRow == [exists |-> TRUE, status |-> "pending", preview |-> FALSE, playlist |-> FALSE]
FreeSlot == [task |-> NoTask, handler |-> "idle", proc |-> "none", err |-> "none"]

CompleteCall == [pc: {"idle", "stat", "save", "enqueue", "done"}, snap: Row]
UpdateCall == [pc: {"idle", "save", "done"}, snap: Row]
DeleteCall == [pc: {"none", "cleanup", "done"}, keys: SUBSET Object]
Task == [state: {"none", "pending", "active", "archived", "done"}, retried: Nat]
HandlerResult == {"ok", "error", "skip"}
Goroutines ==
    [task: Request \cup {NoTask},
     handler: {"idle", "fetch", "store", "update", "notify"} \cup HandlerResult,
     proc: {"none", "wait", "failing", "settling"},
     err: {"none", "error", "skip", "timeout"}]

TypeOK ==
    /\ row \in [File -> Row]
    /\ objects \in [File -> SUBSET Object]
    /\ req \in [Request -> CompleteCall]
    /\ ren \in [Rename -> UpdateCall]
    /\ deletion \in [File -> DeleteCall]
    /\ task \in [Request -> Task]
    /\ slot \in [Slot -> Goroutines]
    /\ pushed \in [File -> SUBSET {"ready", "failed"}]
    /\ left \in [Fault -> Nat]

\* presign left a pending row for every file; nothing has been uploaded.
Init ==
    /\ row = [f \in File |-> NewRow]
    /\ objects = [f \in File |-> {}]
    /\ req = [r \in Request |-> [pc |-> "idle", snap |-> NewRow]]
    /\ ren = [u \in Rename |-> [pc |-> "idle", snap |-> NewRow]]
    /\ deletion = [f \in File |-> [pc |-> "none", keys |-> {}]]
    /\ task = [r \in Request |-> [state |-> "none", retried |-> 0]]
    /\ slot = [s \in Slot |-> FreeSlot]
    /\ pushed = [f \in File |-> {}]
    /\ left \in Budgets

Spend(fault) == left[fault] > 0 /\ left' = [left EXCEPT ![fault] = @ - 1]

-----------------------------------------------------------------------------
(* The client and the HTTP handlers.                                       *)

\* The client PUTs the bytes to the presigned URL, which outlives a delete.
PresignedPut(f) ==
    /\ "original" \notin objects[f]
    /\ objects' = [objects EXCEPT ![f] = @ \cup {"original"}]
    /\ UNCHANGED <<row, req, ren, deletion, task, slot, pushed, left>>

\* complete: a missing row (404) or a status past pending (409) ends the call.
CompleteRead(r) ==
    /\ req[r].pc = "idle"
    /\ row[FileOf[r]].exists /\ row[FileOf[r]].status = "pending"
    /\ req' = [req EXCEPT ![r] = [pc |-> "stat", snap |-> row[FileOf[r]]]]
    /\ UNCHANGED <<row, objects, ren, deletion, task, slot, pushed, left>>

CompleteStat(r) ==
    /\ req[r].pc = "stat"
    /\ req' = [req EXCEPT ![r].pc =
                  IF "original" \in objects[FileOf[r]] THEN "save" ELSE "done"]
    /\ UNCHANGED <<row, objects, ren, deletion, task, slot, pushed, left>>

\* gorm Save writes every column, and inserts the row again if it is gone.
Saved(f, snap) == [row EXCEPT ![f] = snap]

\* Mutant: a status outside the enum.
CompletedRowMisspelt(r) == [req[r].snap EXCEPT !.status = "completed"]

CompletedRow(r) ==
    [req[r].snap EXCEPT !.status = IF FileOf[r] \in Other THEN "ready" ELSE "processing"]

CompleteSave(r) ==
    /\ req[r].pc = "save"
    /\ row' = Saved(FileOf[r], CompletedRow(r))
    /\ req' = [req EXCEPT ![r].pc = IF FileOf[r] \in Other THEN "done" ELSE "enqueue"]
    /\ UNCHANGED <<objects, ren, deletion, task, slot, pushed, left>>

CompleteEnqueue(r) ==
    /\ req[r].pc = "enqueue"
    /\ task' = [task EXCEPT ![r] = [state |-> "pending", retried |-> 0]]
    /\ req' = [req EXCEPT ![r].pc = "done"]
    /\ UNCHANGED <<row, objects, ren, deletion, slot, pushed, left>>

\* Redis refuses the task (enqueueOrLog only logs it), or upload-svc dies here.
CompleteEnqueueFails(r) ==
    /\ req[r].pc = "enqueue"
    /\ Spend("enqueue")
    /\ req' = [req EXCEPT ![r].pc = "done"]
    /\ UNCHANGED <<row, objects, ren, deletion, task, slot, pushed>>

UpdateFileRead(u) ==
    /\ ren[u].pc = "idle"
    /\ row[FileOf[u]].exists
    /\ ren' = [ren EXCEPT ![u] = [pc |-> "save", snap |-> row[FileOf[u]]]]
    /\ UNCHANGED <<row, objects, req, deletion, task, slot, pushed, left>>

UpdateFileSave(u) ==
    /\ ren[u].pc = "save"
    /\ row' = Saved(FileOf[u], ren[u].snap)
    /\ ren' = [ren EXCEPT ![u].pc = "done"]
    /\ UNCHANGED <<objects, req, deletion, task, slot, pushed, left>>

\* The keys cleanupFileObjects will remove for the row the transaction read.
\* Listing hls/{id}/ happens only when the row had a playlist key.
KeysToRemove(f) ==
    {"original"} \cup (IF row[f].preview THEN {"preview"} ELSE {})
                 \cup (IF row[f].playlist THEN Assets(f) ELSE {})

DeleteRows(f) ==
    /\ f \in Deletable /\ deletion[f].pc = "none" /\ row[f].exists
    /\ deletion' = [deletion EXCEPT ![f] = [pc |-> "cleanup", keys |-> KeysToRemove(f)]]
    /\ row' = [row EXCEPT ![f].exists = FALSE]
    /\ UNCHANGED <<objects, req, ren, task, slot, pushed, left>>

\* Best effort: a key whose removal fails is logged and stays.
CleanupObjects(f) ==
    /\ deletion[f].pc = "cleanup"
    /\ \E failed \in SUBSET deletion[f].keys :
          objects' = [objects EXCEPT ![f] = @ \ (deletion[f].keys \ failed)]
    /\ deletion' = [deletion EXCEPT ![f].pc = "done"]
    /\ UNCHANGED <<row, req, ren, task, slot, pushed, left>>

-----------------------------------------------------------------------------
(* asynq.  A retried task waits out its backoff and is pending again; the  *)
(* two states are one here.                                                *)

Busy(s) == slot[s].handler # "idle" \/ slot[s].proc # "none"
TaskFile(s) == FileOf[slot[s].task]
OwnType(s) == KindOf(TaskFile(s)) = ServedBy(s)

\* The attempt's deadline has passed: its context is cancelled.
Late(s) == slot[s].proc # "wait"

\* Both workers consume the "default" queue; the mux of one answers the other's
\* task type with "handler not found", an ordinary error.
Dequeue(s, t) ==
    /\ ~Busy(s) /\ task[t].state = "pending"
    /\ task' = [task EXCEPT ![t].state = "active"]
    /\ slot' = [slot EXCEPT ![s] =
                  [task |-> t, proc |-> "wait", err |-> "none",
                   handler |-> IF KindOf(FileOf[t]) = ServedBy(s) THEN "fetch" ELSE "error"]]
    /\ UNCHANGED <<row, objects, req, ren, deletion, pushed, left>>

\* The handler goroutine ends; nobody reads its result once the deadline passed.
Returned(s, result) ==
    IF ~Late(s) THEN [slot EXCEPT ![s].handler = result]
    ELSE IF slot[s].proc = "none" THEN [slot EXCEPT ![s] = FreeSlot]
    ELSE [slot EXCEPT ![s].handler = "idle"]

Readable(s) == "original" \in objects[TaskFile(s)] /\ ~Late(s)

\* image-worker decodes straight from the object, which is fetched lazily: a
\* storage error surfaces inside the decoder, and the handler takes it for a
\* corrupt file like any other decoding error.
Decode(s) ==
    /\ slot[s].handler = "fetch" /\ TaskFile(s) \in Image
    /\ \/ /\ Readable(s) /\ TaskFile(s) \notin Corrupt
          /\ slot' = [slot EXCEPT ![s].handler = "store"]
          /\ UNCHANGED left
       \/ /\ ~Readable(s) \/ TaskFile(s) \in Corrupt
          /\ slot' = Returned(s, "skip")
          /\ UNCHANGED left
       \/ /\ Readable(s)
          /\ slot' = Returned(s, "skip")
          /\ Spend("read")
    /\ UNCHANGED <<row, objects, req, ren, deletion, task, pushed>>

\* video-worker downloads first, where a storage error is retried, and only then
\* probes, where an error is final.
Download(s) ==
    /\ slot[s].handler = "fetch" /\ TaskFile(s) \in Video
    /\ \/ /\ Readable(s) /\ TaskFile(s) \notin Corrupt
          /\ slot' = [slot EXCEPT ![s].handler = "store"]
          /\ UNCHANGED left
       \/ /\ Readable(s) /\ TaskFile(s) \in Corrupt
          /\ slot' = Returned(s, "skip")
          /\ UNCHANGED left
       \/ /\ ~Readable(s)
          /\ slot' = Returned(s, "error")
          /\ UNCHANGED left
       \/ /\ Readable(s)
          /\ slot' = Returned(s, "error")
          /\ Spend("read")
    /\ UNCHANGED <<row, objects, req, ren, deletion, task, pushed>>

\* Encode or transcode, then store the derived objects one after the other; a
\* failure on the way leaves the ones already stored.
Store(s) ==
    /\ slot[s].handler = "store"
    /\ \E stored \in StoredPrefixes(TaskFile(s)) :
          /\ objects' = [objects EXCEPT ![TaskFile(s)] = @ \cup stored]
          /\ IF StoredAll(TaskFile(s), stored) /\ ~Late(s)
             THEN /\ slot' = [slot EXCEPT ![s].handler = "update"]
                  /\ UNCHANGED left
             ELSE /\ slot' = Returned(s, "error")
                  /\ IF Late(s) THEN UNCHANGED left ELSE Spend("work")
    /\ UNCHANGED <<row, req, ren, deletion, task, pushed>>

\* Updates(...) touches only these columns, and no row if the file is gone; it
\* takes no context, so it goes through after the deadline too.
\* Mutants: the keys, or the status, are left out of the Updates map.
ReadyRowWithoutKeys(f) ==
    IF ~row[f].exists THEN row[f] ELSE [row[f] EXCEPT !.status = "ready"]
ReadyRowWithoutStatus(f) ==
    IF ~row[f].exists THEN row[f]
    ELSE [row[f] EXCEPT !.preview = TRUE, !.playlist = f \in Video]

ReadyRow(f) ==
    IF ~row[f].exists THEN row[f]
    ELSE [row[f] EXCEPT !.status = "ready", !.preview = TRUE,
                        !.playlist = IF f \in Video THEN TRUE ELSE @]

Update(s) ==
    /\ slot[s].handler = "update"
    /\ \/ /\ row' = [row EXCEPT ![TaskFile(s)] = ReadyRow(TaskFile(s))]
          /\ slot' = [slot EXCEPT ![s].handler = "notify"]
          /\ UNCHANGED left
       \/ /\ Spend("db")
          /\ slot' = Returned(s, "error")
          /\ UNCHANGED row
    /\ UNCHANGED <<objects, req, ren, deletion, task, pushed>>

\* notifyUser: needs the row for the owner's id and a live context for the POST.
Pushed(f, notice, live) ==
    IF row[f].exists /\ live THEN [pushed EXCEPT ![f] = @ \cup {notice}] ELSE pushed

Notify(s) ==
    /\ slot[s].handler = "notify"
    /\ \/ pushed' = Pushed(TaskFile(s), "ready", ~Late(s)) /\ UNCHANGED left
       \/ pushed' = pushed /\ Spend("push")
    /\ slot' = Returned(s, "ok")
    /\ UNCHANGED <<row, objects, req, ren, deletion, task>>

-----------------------------------------------------------------------------
(* The processor goroutine.                                                *)

Succeed(s) ==
    /\ slot[s].proc = "wait" /\ slot[s].handler = "ok"
    /\ task' = [task EXCEPT ![slot[s].task].state = "done"]
    /\ slot' = [slot EXCEPT ![s] = FreeSlot]
    /\ UNCHANGED <<row, objects, req, ren, deletion, pushed, left>>

Fail(s) ==
    /\ slot[s].proc = "wait" /\ slot[s].handler \in {"error", "skip"}
    /\ slot' = [slot EXCEPT ![s] = [@ EXCEPT !.proc = "failing", !.err = slot[s].handler,
                                             !.handler = "idle"]]
    /\ UNCHANGED <<row, objects, req, ren, deletion, task, pushed, left>>

\* asynq.Timeout: the processor stops waiting, the handler goroutine does not stop.
Timeout(s) ==
    /\ slot[s].proc = "wait"
    /\ Spend("timeout")
    /\ slot' = [slot EXCEPT ![s] =
                  [@ EXCEPT !.proc = "failing", !.err = "timeout",
                            !.handler = IF slot[s].handler \in HandlerResult
                                        THEN "idle" ELSE slot[s].handler]]
    /\ UNCHANGED <<row, objects, req, ren, deletion, task, pushed>>

\* asynq's own rule: archive after SkipRetry or once the retries are used up.
Archives(s) ==
    \/ slot[s].err = "skip"
    \/ task[slot[s].task].retried >= MaxRetry[KindOf(TaskFile(s))]

\* handleTaskError works the same out again from the task's context.
\* Mutants: every error is terminal; the retry count is compared one too far.
TerminalAlways(s) == TRUE
TerminalTooLate(s) ==
    \/ slot[s].err = "skip"
    \/ task[slot[s].task].retried > MaxRetry[KindOf(TaskFile(s))]

Terminal(s) ==
    \/ slot[s].err = "skip"
    \/ task[slot[s].task].retried >= MaxRetry[KindOf(TaskFile(s))]

\* handleTaskError: only a terminal error of the worker's own task type marks the
\* row, by an UPDATE that a deleted row ignores.
MarksFailed(s) == Terminal(s) /\ OwnType(s)

FailedRow(f) == IF row[f].exists THEN [row[f] EXCEPT !.status = "failed"] ELSE row[f]

HandleTaskError(s) ==
    /\ slot[s].proc = "failing"
    /\ slot' = [slot EXCEPT ![s].proc = "settling"]
    /\ \/ /\ ~MarksFailed(s)
          /\ UNCHANGED <<row, pushed, left>>
       \/ /\ MarksFailed(s)
          /\ \/ row' = [row EXCEPT ![TaskFile(s)] = FailedRow(TaskFile(s))] /\ UNCHANGED left
             \/ UNCHANGED row /\ Spend("mark")
          /\ pushed' = Pushed(TaskFile(s), "failed", slot[s].err # "timeout")
       \/ /\ MarksFailed(s)
          /\ row' = [row EXCEPT ![TaskFile(s)] = FailedRow(TaskFile(s))]
          /\ UNCHANGED pushed /\ Spend("push")
    /\ UNCHANGED <<objects, req, ren, deletion, task>>

\* archive or retry, after the ErrorHandler returned.
Settle(s) ==
    /\ slot[s].proc = "settling"
    /\ task' = [task EXCEPT ![slot[s].task] =
                  IF Archives(s) THEN [@ EXCEPT !.state = "archived"]
                  ELSE [state |-> "pending", retried |-> @.retried + 1]]
    /\ slot' = [slot EXCEPT ![s] = IF @.handler = "idle" THEN FreeSlot
                                   ELSE [@ EXCEPT !.proc = "none"]]
    /\ UNCHANGED <<row, objects, req, ren, deletion, pushed, left>>

\* A worker process dies with every goroutine it had.
Crash(worker) ==
    /\ Spend("crash")
    /\ slot' = [s \in Slot |-> IF ServedBy(s) = worker THEN FreeSlot ELSE slot[s]]
    /\ UNCHANGED <<row, objects, req, ren, deletion, task, pushed>>

RecoverArchives(t) == task[t].retried >= MaxRetry[KindOf(FileOf[t])]

\* Nobody extends the lease of the task any more.
Abandoned(t) ==
    /\ task[t].state = "active"
    /\ \A s \in Slot : ~(slot[s].task = t /\ slot[s].proc # "none")

\* asynq's recoverer finds the task.  It archives or retries it without calling
\* the ErrorHandler.
Recover(t) ==
    /\ Abandoned(t)
    /\ task' = [task EXCEPT ![t] =
                  IF RecoverArchives(t) THEN [@ EXCEPT !.state = "archived"]
                  ELSE [state |-> "pending", retried |-> @.retried + 1]]
    /\ UNCHANGED <<row, objects, req, ren, deletion, slot, pushed, left>>

-----------------------------------------------------------------------------
CompleteStep(r) ==
    CompleteStat(r) \/ CompleteSave(r) \/ CompleteEnqueue(r)

SlotStep(s) ==
    \/ Decode(s) \/ Download(s) \/ Store(s) \/ Update(s) \/ Notify(s)
    \/ Succeed(s) \/ Fail(s) \/ HandleTaskError(s) \/ Settle(s)

DequeueSome == \E s \in Slot, t \in Request : Dequeue(s, t)

Next ==
    \/ \E f \in File : PresignedPut(f) \/ DeleteRows(f) \/ CleanupObjects(f)
    \/ \E r \in Request : CompleteRead(r) \/ CompleteStep(r) \/ CompleteEnqueueFails(r)
    \/ \E u \in Rename : UpdateFileRead(u) \/ UpdateFileSave(u)
    \/ DequeueSome
    \/ \E s \in Slot : SlotStep(s) \/ Timeout(s)
    \/ \E w \in TaskKind : Crash(w)
    \/ \E t \in Request : Recover(t)

Spec == Init /\ [][Next]_vars

\* A call upload-svc started goes on, a free worker takes a task, its goroutines
\* run, and asynq's recoverer visits every task; nothing else is owed.
FairSpec ==
    /\ Spec
    /\ \A r \in Request : WF_vars(CompleteStep(r)) /\ WF_vars(Recover(r))
    /\ WF_vars(DequeueSome)
    /\ \A s \in Slot : WF_vars(SlotStep(s))

-----------------------------------------------------------------------------
(* Properties.                                                             *)

\* A file shown as ready has the keys its preview and player need: neither the
\* workers' column updates nor a whole-row Save written from an old read ever
\* combine into a ready row without them.
ReadyIsServable ==
    \A f \in File : row[f].exists /\ row[f].status = "ready" =>
        /\ f \in Image \cup Video => row[f].preview
        /\ f \in Video => row[f].playlist

\* As long as the owner has not deleted the file, a key in its row names objects
\* that are stored: a handler stores every derived object before it writes the
\* keys, whatever attempt, late goroutine or stale Save wrote the row last.
KeysAreBacked ==
    \A f \in File : deletion[f].pc = "none" =>
        /\ row[f].preview => "preview" \in objects[f]
        /\ row[f].playlist => {"segments", "master"} \subseteq objects[f]

\* No silent drop: a file in processing is on its way to a worker; either the
\* call that accepted it is about to enqueue, or asynq still owes it an attempt.
Owed(f) ==
    \E r \in Request :
        /\ FileOf[r] = f
        /\ req[r].pc = "enqueue" \/ task[r].state \in {"pending", "active"}

ProcessingIsQueued ==
    \A f \in File : row[f].exists /\ row[f].status = "processing" => Owed(f)

\* A file its worker can read is marked failed only once one of its tasks has no
\* attempt left: the task is in the archive, or the processor is about to put it
\* there, or died before it could and leaves that to the recoverer.  (A file it
\* cannot read fails at its first attempt, and again after a worker that died
\* between marking the row and archiving the task.)
Spent(t) ==
    \/ task[t].state = "archived"
    \/ \E s \in Slot : slot[s].task = t /\ slot[s].proc = "settling" /\ Archives(s)
    \/ Abandoned(t) /\ RecoverArchives(t)

FailedMeansSpent ==
    \A f \in File \ Corrupt : row[f].exists /\ row[f].status = "failed" =>
        \E t \in Request : FileOf[t] = f /\ Spent(t)

\* Every accepted upload ends up ready or failed (or deleted).
Settles ==
    \A f \in File : (row[f].exists /\ row[f].status = "processing")
                        ~> (~row[f].exists \/ row[f].status \in {"ready", "failed"})

\* The pipeline implements the lifecycle its users are promised.
Lifecycle == INSTANCE FileLifecycle WITH
    Media <- Image \cup Video, status <- [f \in File |-> row[f].status]
ImplementsLifecycle == Lifecycle!Spec
=============================================================================
