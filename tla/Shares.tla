------------------------------- MODULE Shares -------------------------------
(***************************************************************************)
(* Public share links of one file: the owner who creates, lists and revokes *)
(* them (the dialog of the files page and the page of all links, api-svc),  *)
(* and the visitors who open one and download the file (the public page,    *)
(* api-svc for what it shows, upload-svc for the presigned URL).            *)
(*                                                                         *)
(* Links are numbered in the order their rows are inserted.  A list of      *)
(* links is the set of those in it: nothing depends on its order.           *)
(***************************************************************************)
EXTENDS Naturals, Sequences, FiniteSets

CONSTANTS
    Visitor,   \* tabs that open share links: each has one download at a time
    MaxShares, \* bound: links ever created
    MaxGiven,  \* bound: a visitor starts no download of a link that gave this many URLs
    NoLimit,   \* no maximum of downloads
    Form,      \* what the owner may type into the dialog
    Budget,    \* how often each Event may happen
    Mix        \* bound: different events in one behaviour

Event == {"uncounted", "expiry", "remove", "reprocess", "net", "fault", "focus", "away"}
Share == 1..MaxShares
NoForm == [limit |-> NoLimit, locked |-> FALSE, expires |-> FALSE]

ASSUME SharesAssumption ==
    /\ IsFiniteSet(Visitor) /\ Visitor # {}
    /\ MaxShares \in Nat /\ MaxGiven \in Nat /\ NoLimit \notin Nat /\ Mix \in Nat
    /\ Form \subseteq [limit: Nat \cup {NoLimit}, locked: BOOLEAN, expires: BOOLEAN]
    /\ Budget \in [Event -> Nat]

VARIABLES
    file,     \* Postgres: the file's status; "gone" once its row is deleted
    made,     \* how many links were created
    row,      \* Postgres: the link's row; there is FALSE once it is deleted
    given,    \* how many URLs were signed for each link
    visit,    \* the visitors: their page, what it loads, and their download
    view,     \* the list the owner looks at: the file's links, all links, or none
    creation, \* the owner's POST /files/{id}/shares
    revoke,   \* the owner's DELETE /shares/{id} of each link
    cache,    \* React Query: the list of each view
    fetch,    \* React Query: the GET in flight of each view
    patient,  \* the owner waits for a list to load, and for calls to end before leaving
    left      \* what remains of the budget

vars == <<file, made, row, given, visit, view, creation, revoke, cache, fetch,
          patient, left>>
server == <<file, made, row, given>>
owner == <<view, creation, revoke, cache, fetch, patient>>

-----------------------------------------------------------------------------
List == {"file", "all"}

NoRow == [limit |-> NoLimit, locked |-> FALSE, expires |-> FALSE, past |-> FALSE,
          count |-> 0, there |-> FALSE]
NoVisit == [share |-> 0, page |-> "none", seen |-> FALSE, load |-> "idle", failed |-> FALSE,
            call |-> "idle", late |-> FALSE]
NoCreation == [st |-> "idle", form |-> NoForm]
NoCache == [loaded |-> FALSE, list |-> {}]
NoFetch == [st |-> "none", list |-> {}]

TypeOK ==
    /\ file \in {"ready", "processing", "gone"} /\ made \in 0..MaxShares
    /\ row \in [Share -> [limit: (Nat \ {0}) \cup {NoLimit}, locked: BOOLEAN, expires: BOOLEAN,
                          past: BOOLEAN, count: Nat, there: BOOLEAN]]
    /\ \A s \in Share : row[s].there => s <= made
    /\ given \in [Share -> Nat]
    /\ visit \in [Visitor -> [share: Share \cup {0}, page: {"none", "loading", "found", "error"},
                              seen: BOOLEAN, load: {"idle", "sent", "ok", "no", "lost"}, failed: BOOLEAN,
                              call: {"idle", "sent", "resolved", "signed", "given", "refused"},
                              late: BOOLEAN]]
    /\ view \in List \cup {"none"}
    /\ creation \in [st: {"idle", "sent", "checked", "done", "refused"}, form: Form \cup {NoForm}]
    /\ revoke \in [Share -> {"idle", "sent", "done", "missing"}]
    /\ cache \in [List -> [loaded: BOOLEAN, list: SUBSET Share]]
    /\ fetch \in [List -> [st: {"none", "sent", "answered"}, list: SUBSET Share]]
    /\ patient \in BOOLEAN /\ left \in [Event -> Nat]

Init ==
    /\ file = "ready" /\ made = 0 /\ row = [s \in Share |-> NoRow]
    /\ given = [s \in Share |-> 0]
    /\ visit = [v \in Visitor |-> NoVisit]
    /\ view = "none" /\ creation = NoCreation
    /\ revoke = [s \in Share |-> "idle"]
    /\ cache = [l \in List |-> NoCache] /\ fetch = [l \in List |-> NoFetch]
    /\ patient \in BOOLEAN /\ left = Budget

Happened == {e \in Event : left[e] < Budget[e]}
Spend(event) ==
    /\ left[event] > 0 /\ Cardinality(Happened \cup {event}) <= Mix
    /\ left' = [left EXCEPT ![event] = @ - 1]

-----------------------------------------------------------------------------
(* What happens to the file and to the links from elsewhere.               *)

Expire(s) ==
    /\ row[s].expires /\ ~row[s].past /\ Spend("expiry")
    /\ row' = [row EXCEPT ![s].past = TRUE]
    /\ UNCHANGED <<file, made, given, visit, owner>>

\* deleteFile in another tab: the links go with the file, in one transaction.
RemoveFile ==
    /\ file # "gone" /\ Spend("remove") /\ file' = "gone"
    /\ row' = [s \in Share |-> [row[s] EXCEPT !.there = FALSE]]
    /\ UNCHANGED <<made, given, visit, owner>>

\* A complete call that overlapped another marks the file as processing once more,
\* until its task has run.
Reprocess ==
    /\ \/ file = "ready" /\ Spend("reprocess") /\ file' = "processing"
       \/ file = "processing" /\ file' = "ready" /\ UNCHANGED left
    /\ UNCHANGED <<made, row, given, visit, owner>>

-----------------------------------------------------------------------------
(* The visitor.                                                            *)

\* Mutant: one download too many.
ActiveOnceMore(s) ==
    /\ row[s].there /\ ~row[s].past
    /\ row[s].limit = NoLimit \/ row[s].count <= row[s].limit

\* Mutant: one download too few.
ActiveOnceLess(s) ==
    /\ row[s].there /\ ~row[s].past
    /\ row[s].limit = NoLimit \/ row[s].count + 1 < row[s].limit

\* Mutant: an expired link resolves.
ActiveForever(s) == row[s].there /\ (row[s].limit = NoLimit \/ row[s].count < row[s].limit)

\* resolveActiveShare, of both services.
Active(s) ==
    /\ row[s].there /\ ~row[s].past
    /\ row[s].limit = NoLimit \/ row[s].count < row[s].limit

\* No download of the link may start any more.
Dead(s) ==
    \/ file = "gone" \/ ~row[s].there \/ row[s].past
    \/ row[s].limit # NoLimit /\ row[s].count >= row[s].limit

\* The page of a link is opened, or opened anew after an error, and asks for what it is.
Visit(v) ==
    /\ visit[v].page \in {"none", "error"} /\ visit[v].load = "idle" /\ visit[v].call = "idle"
    /\ \E s \in 1..made :
          visit' = [visit EXCEPT ![v] = [NoVisit EXCEPT !.share = s, !.page = "loading", !.load = "sent"]]
    /\ UNCHANGED <<server, owner, left>>

\* The window gets the focus: a page that has shown the file keeps showing it meanwhile.
Focus(v) ==
    /\ visit[v].page \in {"found", "error"} /\ visit[v].load = "idle" /\ Spend("focus")
    /\ visit' = [visit EXCEPT ![v].load = "sent",
                              ![v].page = IF visit[v].seen THEN @ ELSE "loading"]
    /\ UNCHANGED <<server, owner>>

\* getPublicShare
GetPublicShare(v) ==
    /\ visit[v].load = "sent"
    /\ visit' = [visit EXCEPT ![v].load = IF Active(visit[v].share) /\ file # "gone" THEN "ok" ELSE "no"]
    /\ UNCHANGED <<server, owner, left>>

\* The request is lost, or a query of the handler fails: whatever the status it answers
\* with, the page does not ask again by itself.
LoadFails(v) ==
    /\ visit[v].load = "sent" /\ Spend("fault")
    /\ visit' = [visit EXCEPT ![v].load = "lost"]
    /\ UNCHANGED <<server, owner>>

\* "Link not found" is what any error looks like.  failed: the latest request failed.
Loaded(v) ==
    /\ visit[v].load \in {"ok", "no", "lost"}
    /\ visit' = [visit EXCEPT ![v].load = "idle", ![v].seen = @ \/ visit[v].load = "ok",
                              ![v].failed = (visit[v].load = "lost"),
                              ![v].page = IF visit[v].load = "ok" THEN "found" ELSE "error"]
    /\ UNCHANGED <<server, owner, left>>

\* handleDownload: the button of a page that shows the file, with whatever password
\* was typed.  late: the link was dead when it was clicked.
Download(v) ==
    /\ visit[v].page = "found" /\ visit[v].call = "idle" /\ given[visit[v].share] < MaxGiven
    /\ visit' = [visit EXCEPT ![v].call = "sent",
                              ![v].late = Dead(visit[v].share)]
    /\ UNCHANGED <<server, owner, left>>

\* shareDownloadURL reads the row and checks the password of a locked link.
Resolve(v) ==
    LET s == visit[v].share IN
    /\ visit[v].call = "sent"
    /\ \E right \in BOOLEAN : visit' = [visit EXCEPT ![v].call =
           IF Active(s) /\ (row[s].locked => right) THEN "resolved" ELSE "refused"]
    /\ UNCHANGED <<server, owner, left>>

\* It reads the file, and signs a URL when the file is ready.
Sign(v) ==
    /\ visit[v].call = "resolved"
    /\ IF file = "ready"
       THEN /\ visit' = [visit EXCEPT ![v].call = "signed"]
            /\ given' = [given EXCEPT ![visit[v].share] = @ + 1]
       ELSE visit' = [visit EXCEPT ![v].call = "refused"] /\ given' = given
    /\ UNCHANGED <<file, made, row, owner, left>>

\* Then it counts.  An update that fails is logged, one of a deleted row finds none.
Count(v) ==
    LET s == visit[v].share IN
    /\ visit[v].call = "signed" /\ visit' = [visit EXCEPT ![v].call = "given"]
    /\ \/ /\ row' = IF row[s].there THEN [row EXCEPT ![s].count = @ + 1] ELSE row
          /\ UNCHANGED left
       \/ row' = row /\ Spend("uncounted")
    /\ UNCHANGED <<file, made, given, owner>>

\* The call is lost before it is resolved, or a query or the signing fails.
DownloadFails(v) ==
    /\ visit[v].call \in {"sent", "resolved"} /\ Spend("fault")
    /\ visit' = [visit EXCEPT ![v].call = "refused"]
    /\ UNCHANGED <<server, owner>>

\* The URL is opened, or the error shown; the button is enabled again.
Downloaded(v) ==
    /\ visit[v].call \in {"given", "refused"}
    /\ visit' = [visit EXCEPT ![v].call = "idle", ![v].late = FALSE]
    /\ UNCHANGED <<server, owner, left>>

-----------------------------------------------------------------------------
(* The owner.                                                              *)

InFlight(l) == fetch[l].st # "none"
Requested == [NoFetch EXCEPT !.st = "sent"]

\* A query that is mounted always fetches; it joins a request in flight.
MountedList(l) == IF InFlight(l) THEN fetch ELSE [fetch EXCEPT ![l] = Requested]

\* The share dialog is opened on the file: offered once the file is ready.
OpenDialog ==
    /\ view = "none" /\ file = "ready" /\ view' = "file" /\ fetch' = MountedList("file")
    /\ UNCHANGED <<server, visit, creation, revoke, cache, patient, left>>

\* The page of all links, in place of the files page.
OpenAllLinks ==
    /\ view = "none" /\ Spend("away")
    /\ patient => creation.st = "idle"
    /\ view' = "all" /\ fetch' = MountedList("all")
    /\ UNCHANGED <<server, visit, creation, revoke, cache, patient>>

Close ==
    /\ view # "none" /\ view' = "none"
    /\ patient => creation.st = "idle" /\ (\A s \in Share : revoke[s] = "idle") /\ ~InFlight(view)
    /\ UNCHANGED <<server, visit, creation, revoke, cache, fetch, patient, left>>

\* Create link, with what the fields hold: enabled while no creation is pending, also
\* before the list is loaded.
HandleCreate ==
    /\ view = "file" /\ creation.st = "idle" /\ made < MaxShares
    /\ patient => cache["file"].loaded
    /\ \E f \in Form : creation' = [st |-> "sent", form |-> f]
    /\ UNCHANGED <<server, visit, view, revoke, cache, fetch, patient, left>>

\* Mutant: a maximum of zero is let through.
CreateRefusedBelowZero(f) == file = "gone"

\* createShare refuses a file that is not there and a maximum that is not positive.
CreateRefused(f) == file = "gone" \/ f.limit = 0

CreateShare ==
    /\ creation.st = "sent"
    /\ creation' = [creation EXCEPT !.st = IF CreateRefused(creation.form) THEN "refused" ELSE "checked"]
    /\ UNCHANGED <<server, visit, view, revoke, cache, fetch, patient, left>>

\* The row is inserted, whatever became of the file meanwhile.
InsertShare ==
    LET f == creation.form IN
    /\ creation.st = "checked" /\ made' = made + 1
    /\ row' = [row EXCEPT ![made + 1] = [NoRow EXCEPT !.limit = f.limit, !.locked = f.locked,
                                                      !.expires = f.expires, !.there = TRUE]]
    /\ creation' = [creation EXCEPT !.st = "done"]
    /\ UNCHANGED <<file, given, visit, view, revoke, cache, fetch, patient, left>>

\* Mutant: only the file's list is invalidated.
InvalidatedFileList ==
    [fetch EXCEPT !["file"] = IF view = "file" /\ (InFlight("file") => cache["file"].loaded)
                              THEN Requested ELSE @]

\* invalidateQueries(["shares"]): the list that is shown is requested again, in place of
\* a request in flight, but for the one that loads it first.
Invalidated ==
    [l \in List |-> IF view = l /\ (InFlight(l) => cache[l].loaded) THEN Requested ELSE fetch[l]]

Created ==
    /\ creation.st = "done" /\ creation' = NoCreation
    /\ fetch' = Invalidated
    /\ UNCHANGED <<server, visit, view, revoke, cache, patient, left>>

\* An error is only shown; the answer of a creation that was done may be lost too.
CreateFailed ==
    /\ \/ creation.st = "refused" /\ UNCHANGED left
       \/ creation.st \in {"sent", "done"} /\ Spend("net")
    /\ creation' = NoCreation
    /\ UNCHANGED <<server, visit, view, revoke, cache, fetch, patient>>

\* The button of a listed link is never disabled.
HandleRevoke(s) ==
    /\ view # "none" /\ s \in cache[view].list /\ revoke[s] = "idle"
    /\ revoke' = [revoke EXCEPT ![s] = "sent"]
    /\ UNCHANGED <<server, visit, view, creation, cache, fetch, patient, left>>

DeleteShare(s) ==
    /\ revoke[s] = "sent"
    /\ revoke' = [revoke EXCEPT ![s] = IF row[s].there THEN "done" ELSE "missing"]
    /\ row' = [row EXCEPT ![s].there = FALSE]
    /\ UNCHANGED <<file, made, given, visit, view, creation, cache, fetch, patient, left>>

Revoked(s) ==
    /\ revoke[s] \in {"done", "missing"} /\ revoke' = [revoke EXCEPT ![s] = "idle"]
    /\ fetch' = IF revoke[s] = "done" THEN Invalidated ELSE fetch
    /\ UNCHANGED <<server, visit, view, creation, cache, patient, left>>

\* listFileShares answers 404 without the file: the list stays as it was.
ListShares(l) ==
    /\ fetch[l].st = "sent"
    /\ fetch' = [fetch EXCEPT ![l] =
                    IF l = "file" /\ file = "gone" THEN NoFetch
                    ELSE [st |-> "answered", list |-> {s \in Share : row[s].there}]]
    /\ UNCHANGED <<server, visit, view, creation, revoke, cache, patient, left>>

Listed(l) ==
    /\ fetch[l].st = "answered" /\ fetch' = [fetch EXCEPT ![l] = NoFetch]
    /\ cache' = [cache EXCEPT ![l] = [loaded |-> TRUE, list |-> fetch[l].list]]
    /\ UNCHANGED <<server, visit, view, creation, revoke, patient, left>>

-----------------------------------------------------------------------------
VisitorNext(v) ==
    \/ Visit(v) \/ Focus(v) \/ GetPublicShare(v) \/ LoadFails(v) \/ Loaded(v)
    \/ Download(v) \/ Resolve(v) \/ Sign(v) \/ Count(v) \/ DownloadFails(v) \/ Downloaded(v)

OwnerNext ==
    \/ OpenDialog \/ OpenAllLinks \/ Close
    \/ HandleCreate \/ CreateShare \/ InsertShare \/ Created \/ CreateFailed
    \/ \E s \in Share : HandleRevoke(s) \/ DeleteShare(s) \/ Revoked(s)
    \/ \E l \in List : ListShares(l) \/ Listed(l)

Next ==
    \/ \E s \in Share : Expire(s)
    \/ RemoveFile \/ Reprocess \/ OwnerNext
    \/ \E v \in Visitor : VisitorNext(v)

Spec == Init /\ [][Next]_vars

-----------------------------------------------------------------------------
(* Properties.                                                             *)

Uncounted == Budget["uncounted"] - left["uncounted"]

\* The limit is read before the URL is signed and the count is raised after it: of a
\* link for n downloads, N visitors at once get at most n + N - 1 URLs, and one more
\* for each count that failed, however their calls, a revocation and an expiry interleave.
Overshoot ==
    \A s \in Share : row[s].limit # NoLimit =>
        given[s] <= row[s].limit + Uncounted + Cardinality(Visitor) - 1

\* "Link not found" is shown for a link only if the link is dead, and it then stays so, or
\* while the latest request for it that ended is one that failed: no answer that arrives
\* late and no earlier failure says it of a link that works.
ErrorIsFinal ==
    \A v \in Visitor :
        visit[v].load = "no" \/ (visit[v].page = "error" /\ ~visit[v].failed) => Dead(visit[v].share)

\* A download that is clicked after its link was revoked, expired, was used up or lost
\* its file gets no URL, though the page still shows the file.
NoLateUrl == \A v \in Visitor : visit[v].late => visit[v].call \notin {"signed", "given"}

\* The owner who waits for the list to load, and for calls to end before leaving,
\* sees the links there are once no call is in flight, whatever was created, revoked,
\* closed and opened again before.
ListCurrent ==
    (/\ patient /\ view # "none" /\ cache[view].loaded /\ ~InFlight(view)
     /\ creation.st = "idle" /\ \A s \in Share : revoke[s] = "idle"
     /\ file # "gone" /\ left["net"] = Budget["net"])
        => cache[view].list = {s \in Share : row[s].there}
=============================================================================
