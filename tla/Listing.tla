------------------------------ MODULE Listing ------------------------------
(***************************************************************************)
(* The files page: the folder it shows, the lists React Query caches and    *)
(* fetches for it, its dialogs and the calls they make, the uploads it      *)
(* starts, and the rows of api-svc and upload-svc they read and change.     *)
(*                                                                         *)
(* A handler is one step here.  How handlers overlap, and what processing    *)
(* does, is the subject of Lineage, FolderTree and Processing.              *)
(***************************************************************************)
EXTENDS Naturals

CONSTANTS
    File,       \* rows of files: NewFile, and the versions of one other file
    Folder,     \* folders
    NewFile,    \* the file that is uploaded
    NewVersion, \* the version that is uploaded
    OldVersion, \* an old version
    NewFolder,  \* the folder that is created
    Root,       \* the top level
    Budget,     \* how often each Event may happen
    Together,   \* bound: the sets of events that may happen in one behaviour
    Opened,     \* bound: the folders the user opens
    None

Kind == {"createFolder", "renameFolder", "moveFolder", "deleteFolder",
         "renameFile", "deleteFile", "restore", "version"}
Event == Kind \cup {"upload", "net", "focus"}
Loc == Folder \cup {Root}

ASSUME ListingAssumption ==
    /\ NewFile \in File /\ NewVersion \in File \ {NewFile}
    /\ OldVersion \in File \ {NewFile, NewVersion} /\ NewFolder \in Folder
    /\ File \ {NewFile, NewVersion, OldVersion} # {}
    /\ Root \notin Folder \cup File /\ None \notin Loc \cup File
    /\ Budget \in [Event -> Nat] /\ Together \subseteq SUBSET Event /\ Opened \subseteq Folder
    /\ Budget["createFolder"] <= 1  \* there is one NewFolder

VARIABLES
    file,   \* Postgres: the rows of files
    folder, \* Postgres: the folders; at None: there is none
    at,     \* the folder the page shows
    cache,  \* React Query: the lists by key
    fetch,  \* React Query: the GET in flight of each key
    dialog, \* the dialog that is open, and what it is about
    call,   \* the call of each mutation hook
    upload, \* the resumable upload, its finish in upload-svc, and its refetches to come
    calm,   \* the user waits for first loads and for calls, upload-svc finishes in time
    left    \* what remains of the budget

vars == <<file, folder, at, cache, fetch, dialog, call, upload, calm, left>>
rows == <<file, folder>>
query == <<cache, fetch>>

-----------------------------------------------------------------------------
Key == {"files", "folders"} \X Loc
Hook == {"createFolder", "updateFolder", "deleteFolder", "updateFile", "deleteFile",
         "restore", "version"}

\* Ready or failed is the same to the lists: a worker is done with the file.
Status == {"pending", "processing", "done"}

\* Renaming and moving a folder share one hook.
HookOf(kind) ==
    CASE kind \in {"renameFolder", "moveFolder"} -> "updateFolder"
      [] kind = "renameFile" -> "updateFile"
      [] OTHER -> kind

NoCache == [loaded |-> FALSE, list |-> {}]
NoFetch == [st |-> "none", list |-> {}]
NoDialog == [kind |-> "none", id |-> None]
NoCall == [st |-> "idle", kind |-> "none", id |-> None, to |-> None]
NoUpload == [st |-> "none", at |-> None, stored |-> FALSE, again |-> 0]

Entry == [id: File, renamed: BOOLEAN, status: Status] \cup [id: Folder, renamed: BOOLEAN]

TypeOK ==
    /\ file \in [File -> [row: {"none", "old", "current"}, at: Loc, status: Status, renamed: BOOLEAN]]
    /\ folder \in [Folder -> [at: Loc \cup {None}, renamed: BOOLEAN]]
    /\ at \in Loc
    /\ cache \in [Key -> [loaded: BOOLEAN, list: SUBSET Entry]]
    /\ fetch \in [Key -> [st: {"none", "sent", "answered"}, list: SUBSET Entry]]
    /\ dialog \in [kind: Kind \cup {"versions", "none"}, id: File \cup Folder \cup {None}]
    /\ call \in [Hook -> [st: {"idle", "sent", "put", "complete", "ok", "no"},
                          kind: Kind \cup {"none"}, id: File \cup Folder \cup {None},
                          to: Loc \cup {None}]]
    /\ upload \in [st: {"none", "sending", "sent"}, at: Loc \cup {None}, stored: BOOLEAN,
                   again: 0..2]
    /\ calm \in BOOLEAN /\ left \in [Event -> Nat]

\* One file, with an old version, and every folder but the new one, at the top level.
Init ==
    /\ file = [f \in File |-> [row |-> CASE f \in {NewFile, NewVersion} -> "none"
                                         [] f = OldVersion -> "old" [] OTHER -> "current",
                               at |-> Root, renamed |-> FALSE,
                               status |-> IF f = OldVersion THEN "done" ELSE "processing"]]
    /\ folder = [d \in Folder |-> [at |-> IF d = NewFolder THEN None ELSE Root, renamed |-> FALSE]]
    /\ at = Root
    /\ cache = [k \in Key |-> NoCache]
    /\ fetch = [k \in Key |-> IF k[2] = Root THEN [NoFetch EXCEPT !.st = "sent"] ELSE NoFetch]
    /\ dialog = NoDialog /\ call = [h \in Hook |-> NoCall] /\ upload = NoUpload
    /\ calm \in BOOLEAN /\ left = Budget

Happened == {e \in Event : left[e] < Budget[e]}
MayHappen(event) == left[event] > 0 /\ \E events \in Together : Happened \cup {event} \subseteq events
Spend(event) == MayHappen(event) /\ left' = [left EXCEPT ![event] = @ - 1]

-----------------------------------------------------------------------------
(* Queries.                                                                *)

\* useFiles and useFolders of the folder, and the top level for the move dialog.
Active(l) == {<<"files", l>>, <<"folders", l>>, <<"folders", Root>>}
InFlight(k) == fetch[k].st # "none"
Requested == [NoFetch EXCEPT !.st = "sent"]

\* isLoading of either list: the page shows nothing else.
Loading(l) == \E k \in {<<"files", l>>, <<"folders", l>>} : ~cache[k].loaded /\ InFlight(k)

\* invalidateQueries: the active ones are asked again, in place of a request in flight
\* but for one that loads the list first.
Invalidated(keys) ==
    [k \in Key |-> IF k \in keys \cap Active(at) /\ (InFlight(k) => cache[k].loaded)
                   THEN Requested ELSE fetch[k]]

\* listFiles of api-svc: the current files of a folder; listFolders: its folders.
Listed(k) ==
    IF k[1] = "files"
    THEN {[id |-> f, renamed |-> file[f].renamed, status |-> file[f].status] :
             f \in {f \in File : file[f].row = "current" /\ file[f].at = k[2]}}
    ELSE {[id |-> d, renamed |-> folder[d].renamed] : d \in {d \in Folder : folder[d].at = k[2]}}

Answer(k) ==
    /\ fetch[k].st = "sent" /\ fetch' = [fetch EXCEPT ![k] = [st |-> "answered", list |-> Listed(k)]]
    /\ UNCHANGED <<rows, at, cache, dialog, call, upload, calm, left>>

Receive(k) ==
    /\ fetch[k].st = "answered" /\ fetch' = [fetch EXCEPT ![k] = NoFetch]
    /\ cache' = [cache EXCEPT ![k] = [loaded |-> TRUE, list |-> fetch[k].list]]
    /\ UNCHANGED <<rows, at, dialog, call, upload, calm, left>>

\* The retries of a GET fail too: the page shows what it has, which may be nothing.
FetchFails(k) ==
    /\ fetch[k].st = "sent" /\ Spend("net") /\ fetch' = [fetch EXCEPT ![k] = NoFetch]
    /\ UNCHANGED <<rows, at, cache, dialog, call, upload, calm>>

\* Mutant: only files that are being processed are polled for.
PolledProcessing(list) == \E e \in list : e.status = "processing"

\* refetchInterval of useFiles.
Polled(list) == \E e \in list : e.status \in {"pending", "processing"}

Poll ==
    LET k == <<"files", at>> IN
    /\ ~InFlight(k) /\ Polled(cache[k].list) /\ fetch' = [fetch EXCEPT ![k] = Requested]
    /\ UNCHANGED <<rows, at, cache, dialog, call, upload, calm, left>>

\* The window gets the focus.
Focus ==
    /\ Spend("focus")
    /\ fetch' = [k \in Key |-> IF k \in Active(at) /\ ~InFlight(k) THEN Requested ELSE fetch[k]]
    /\ UNCHANGED <<rows, at, cache, dialog, call, upload, calm>>

Shown(k) == {e.id : e \in cache[k].list}

\* A listed folder is opened, or the page goes back.  The lists of the new folder are
\* asked for; a request that is in flight is joined.
Navigate ==
    /\ dialog = NoDialog
    /\ calm => \A k \in Key, h \in Hook : ~InFlight(k) /\ call[h].st = "idle"
    /\ \/ ~Loading(at) /\ at' \in Shown(<<"folders", at>>) \cap Opened
       \/ at # Root /\ at' = Root
    /\ fetch' = [k \in Key |-> IF k \in Active(at') \ Active(at) /\ ~InFlight(k)
                               THEN Requested ELSE fetch[k]]
    /\ UNCHANGED <<rows, cache, dialog, call, upload, calm, left>>

-----------------------------------------------------------------------------
(* Dialogs and their calls.                                                *)

\* What the menus of the page offer.
Offered(kind, id) ==
    CASE kind = "createFolder" -> id = None
      [] kind \in {"renameFolder", "moveFolder", "deleteFolder"} ->
            ~Loading(at) /\ id \in Shown(<<"folders", at>>)
      [] kind \in {"renameFile", "deleteFile", "versions"} ->
            ~Loading(at) /\ id \in Shown(<<"files", at>>)
      [] OTHER -> FALSE

\* The calls a dialog starts: the versions dialog restores a version or uploads a new one.
Starts(kind) == IF kind = "versions" THEN {"restore", "version"} ELSE {kind}

OpenDialog ==
    /\ dialog = NoDialog
    /\ \E kind \in Kind \cup {"versions"}, id \in File \cup Folder \cup {None} :
          /\ Offered(kind, id) /\ dialog' = [kind |-> kind, id |-> id]
          /\ \E event \in Starts(kind) : MayHappen(event)
    /\ UNCHANGED <<rows, at, query, call, upload, calm, left>>

CloseDialog ==
    /\ dialog # NoDialog /\ dialog' = NoDialog
    /\ calm => \A h \in Hook : call[h].st = "idle"
    /\ UNCHANGED <<rows, at, query, call, upload, calm, left>>

\* The select of the move dialog: the top level, and the other folders there.
MoveTargets(id) == {Root} \cup (Shown(<<"folders", Root>>) \ {id})

\* lineageFiles: the versions of the file a row belongs to.
Lineage(f) == {g \in File : (g = NewFile <=> f = NewFile) /\ file[g].row # "none"}

\* The versions dialog offers the old versions to restore.
Subjects(kind) == IF kind = "restore" THEN {f \in Lineage(dialog.id) : file[f].row = "old"} ELSE {dialog.id}

\* The button of a dialog is disabled while a call of its hook is pending.
Submit ==
    /\ dialog # NoDialog
    /\ \E kind \in Starts(dialog.kind) :
          /\ call[HookOf(kind)].st = "idle" /\ Spend(kind)
          /\ (calm /\ kind = "createFolder") => ~Loading(at)
          /\ \E id \in Subjects(kind), to \in IF kind = "moveFolder" THEN MoveTargets(dialog.id) ELSE {at} :
                call' = [call EXCEPT ![HookOf(kind)] = [st |-> "sent", kind |-> kind, id |-> id, to |-> to]]
    /\ UNCHANGED <<rows, at, query, dialog, upload, calm>>

Below(d) == {e \in Folder : folder[e].at = d}
Beneath(d) == {d} \cup Below(d) \cup UNION {Below(e) : e \in Below(d)}

Exists(l) == l \in {Root} \cup {d \in Folder : folder[d].at # None}

\* When the handler of a call accepts it.
Accepted(c) ==
    CASE c.kind = "createFolder" -> Exists(c.to)
      [] c.kind = "moveFolder" ->
            folder[c.id].at # None /\ Exists(c.to) /\ c.to \notin Beneath(c.id)
      [] c.kind \in {"renameFolder", "deleteFolder"} -> folder[c.id].at # None
      [] c.kind \in {"renameFile", "deleteFile", "restore"} -> file[c.id].row # "none"
      [] c.kind = "version" -> file[c.id].row # "none" /\ c.id # NewFile
      [] OTHER -> FALSE

\* The folders after it ...
FoldersAfter(c) ==
    CASE c.kind = "createFolder" -> [folder EXCEPT ![NewFolder].at = c.to]
      [] c.kind = "renameFolder" -> [folder EXCEPT ![c.id].renamed = TRUE]
      [] c.kind = "moveFolder" -> [folder EXCEPT ![c.id].at = c.to]
      [] c.kind = "deleteFolder" ->
            [d \in Folder |-> IF d \in Beneath(c.id) THEN [folder[d] EXCEPT !.at = None] ELSE folder[d]]
      [] OTHER -> folder

\* The row of a lineage that is current from then on; the others are old.
Promoted(f) == [g \in File |-> IF g \in Lineage(f) THEN [file[g] EXCEPT !.row = IF g = f THEN "current" ELSE "old"]
                               ELSE file[g]]
Removed(gone) == [g \in File |-> IF g \in gone THEN [file[g] EXCEPT !.row = "none"] ELSE file[g]]
CurrentOf(f) == CHOOSE g \in Lineage(f) : file[g].row = "current"

\* ... and the files: a rename is of one row, deleting is of every version, a new version
\* takes the name and the folder of the current one, and a folder goes with what it holds.
FilesAfter(c) ==
    CASE c.kind = "renameFile" -> [file EXCEPT ![c.id].renamed = TRUE]
      [] c.kind = "deleteFile" -> Removed(Lineage(c.id))
      [] c.kind = "restore" -> Promoted(c.id)
      [] c.kind = "version" ->
            [Removed({}) EXCEPT ![CurrentOf(c.id)].row = "old",
                ![NewVersion] = [file[CurrentOf(c.id)] EXCEPT !.row = "current", !.status = "pending"]]
      [] c.kind = "deleteFolder" -> Removed({f \in File : file[f].at \in Beneath(c.id)})
      [] OTHER -> file

\* The upload of a new version goes on with its PUT.
Serve(h) ==
    LET c == call[h] IN
    /\ c.st = "sent"
    /\ IF Accepted(c) THEN folder' = FoldersAfter(c) /\ file' = FilesAfter(c) ELSE UNCHANGED rows
    /\ call' = [call EXCEPT ![h].st = IF ~Accepted(c) THEN "no" ELSE IF h = "version" THEN "put" ELSE "ok"]
    /\ UNCHANGED <<at, query, dialog, upload, calm, left>>

\* PUT to storage, then POST complete: the row waits for its worker.
PutVersion ==
    /\ call["version"].st = "put" /\ call' = [call EXCEPT !["version"].st = "complete"]
    /\ UNCHANGED <<rows, at, query, dialog, upload, calm, left>>

CompleteVersion ==
    LET c == call["version"] IN
    /\ c.st = "complete"
    /\ IF file[NewVersion].row # "none" /\ file[NewVersion].status = "pending"
       THEN /\ file' = [file EXCEPT ![NewVersion].status = "processing"]
            /\ call' = [call EXCEPT !["version"].st = "ok"]
       ELSE file' = file /\ call' = [call EXCEPT !["version"].st = "no"]
    /\ UNCHANGED <<folder, at, query, dialog, upload, calm, left>>

KeysOf(which) == {which} \X Loc

\* onSuccess of the hooks: which lists are invalidated.
Invalidates(c) ==
    CASE c.kind = "createFolder" -> {<<"folders", c.to>>}
      [] c.kind \in {"renameFolder", "moveFolder"} -> KeysOf("folders")
      [] c.kind = "deleteFolder" -> Key
      [] OTHER -> KeysOf("files")

\* onSuccess of the page: the dialog of the call's kind is closed, whatever it is about.
Closes(c) == dialog.kind = c.kind

Succeed(h) ==
    /\ call[h].st = "ok" /\ call' = [call EXCEPT ![h] = NoCall]
    /\ fetch' = Invalidated(Invalidates(call[h]))
    /\ dialog' = IF Closes(call[h]) THEN NoDialog ELSE dialog
    /\ UNCHANGED <<rows, at, cache, upload, calm, left>>

\* An error is shown.  The call may also have been lost, or its answer.
Fail(h) ==
    /\ \/ call[h].st = "no" /\ UNCHANGED left
       \/ call[h].st \in {"sent", "put", "complete", "ok"} /\ Spend("net")
    /\ call' = [call EXCEPT ![h] = NoCall]
    /\ UNCHANGED <<rows, at, query, dialog, upload, calm>>

-----------------------------------------------------------------------------
(* Uploads and processing.                                                 *)

\* startUpload keeps the folder the page shows.
Started(l) == [NoUpload EXCEPT !.st = "sending", !.at = l]

\* Files are chosen or dropped; tusPreCreate checks that the folder is there.
StartUpload ==
    /\ upload.st = "none" /\ Spend("upload") /\ Exists(at) /\ (calm => ~Loading(at))
    /\ upload' = Started(at)
    /\ UNCHANGED <<rows, at, query, dialog, call, calm>>

\* Mutant: one refetch, at once.
RefetchesOnce == 0

\* Mutant: one refetch a second.
RefetchesOften == 4

\* onSuccess refetches at once, and then after 1.5 and after 4 seconds.
Refetches == 2

\* The bytes are there: tus reports success, upload-svc has the rest to do.
UploadSucceeds ==
    /\ upload.st = "sending"
    /\ upload' = [upload EXCEPT !.st = "sent", !.again = Refetches]
    /\ fetch' = Invalidated({<<"files", upload.at>>})
    /\ UNCHANGED <<rows, at, cache, dialog, call, calm, left>>

\* finishTusUpload: the row is created in the folder the upload was started in, though
\* that may be gone.
FinishTusUpload ==
    /\ upload.st = "sent" /\ ~upload.stored /\ upload' = [upload EXCEPT !.stored = TRUE]
    /\ file' = [file EXCEPT ![NewFile].row = "current", ![NewFile].at = upload.at]
    /\ UNCHANGED <<folder, at, query, dialog, call, calm, left>>

RefetchTimer ==
    /\ upload.again > 0
    /\ (calm /\ upload.again = 1) => upload.stored
    /\ upload' = [upload EXCEPT !.again = @ - 1]
    /\ fetch' = Invalidated({<<"files", upload.at>>})
    /\ UNCHANGED <<rows, at, cache, dialog, call, calm, left>>

Process(f) ==
    /\ file[f].row # "none" /\ file[f].status = "processing"
    /\ file' = [file EXCEPT ![f].status = "done"]
    /\ UNCHANGED <<folder, at, query, dialog, call, upload, calm, left>>

-----------------------------------------------------------------------------
UserNext == Focus \/ Navigate \/ OpenDialog \/ CloseDialog \/ Submit \/ StartUpload

Next ==
    \/ UserNext \/ Poll \/ PutVersion \/ CompleteVersion
    \/ \E k \in Key : Answer(k) \/ Receive(k) \/ FetchFails(k)
    \/ \E h \in Hook : Serve(h) \/ Succeed(h) \/ Fail(h)
    \/ UploadSucceeds \/ FinishTusUpload \/ RefetchTimer
    \/ \E f \in File : Process(f)

Spec == Init /\ [][Next]_vars

\* Requests are answered, the poll's timer fires, and a worker ends with every file.
FairSpec ==
    /\ Spec /\ WF_vars(Poll) /\ WF_vars(RefetchTimer) /\ WF_vars(FinishTusUpload)
    /\ \A k \in Key : WF_vars(Answer(k)) /\ WF_vars(Receive(k))
    /\ \A f \in File : WF_vars(Process(f))

-----------------------------------------------------------------------------
(* Properties.                                                             *)

\* What the page of a calm user shows, apart from the status of files, is what is stored:
\* once no call, fetch or refetch is outstanding, whatever calls overlapped with polls,
\* with each other and with a refetch, and whatever folder was opened before.
ShownIsStored ==
    LET Names(list) == {[id |-> e.id, renamed |-> e.renamed] : e \in list} IN
    (/\ calm /\ left["net"] = Budget["net"]
     /\ \A h \in Hook : call[h].st = "idle"
     /\ upload.st = "sent" => (upload.stored /\ upload.again = 0))
        => \A k \in Active(at) : (cache[k].loaded /\ ~InFlight(k)) => Names(cache[k].list) = Names(Listed(k))

\* A file that stays listed, in the folder that stays shown, ends up with the status it
\* has: polling goes on until then, whatever fetches fail and calls are made meanwhile.
StatusCatchesUp ==
    \A f \in File, l \in {Root} \cup Opened :
        LET Settled == at = l /\ f \in {e.id : e \in Listed(<<"files", l>>)} /\ file[f].status = "done" IN
        (<>[](Settled /\ f \in Shown(<<"files", l>>)))
            => <>[](\A e \in cache[<<"files", l>>].list : e.id = f => e.status = file[f].status)
=============================================================================
