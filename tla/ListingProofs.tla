--------------------------- MODULE ListingProofs ---------------------------
(***************************************************************************)
(* Theorems about Listing for any files, folders, budgets and events.      *)
(***************************************************************************)
EXTENDS Listing, TLAPS

-----------------------------------------------------------------------------
(* Types.                                                                  *)

FileRow == [row: {"none", "old", "current"}, at: Loc, status: Status, renamed: BOOLEAN]
FolderRow == [at: Loc \cup {None}, renamed: BOOLEAN]

FolderKind == {"renameFolder", "moveFolder", "deleteFolder"}
FileKind == {"renameFile", "deleteFile", "restore", "version"}

\* A dialog and a call are about something of the right sort.
About(kind, id) ==
    /\ kind \in FolderKind => id \in Folder
    /\ kind \in FileKind \cup {"versions"} => id \in File

OfItsKind(k, list) == \A e \in list : IF k[1] = "files" THEN e.id \in File ELSE e.id \in Folder

\* The files but NewFile are the versions of one file at the top level, and one of
\* those there are is current.
OneLineage(files) ==
    /\ \A f \in File \ {NewFile} : files[f].at = Root
    /\ (\E f \in File \ {NewFile} : files[f].row # "none") =>
          \E f \in File \ {NewFile} : files[f].row = "current"

CallTyped(h) ==
    call[h].st # "idle" =>
        /\ call[h].kind \in Kind /\ HookOf(call[h].kind) = h /\ call[h].to \in Loc
        /\ About(call[h].kind, call[h].id)
        /\ call[h].st \in {"put", "complete"} => h = "version"

RowsOK == file \in [File -> FileRow] /\ folder \in [Folder -> FolderRow] /\ OneLineage(file)
QueriesOK ==
    /\ cache \in [Key -> [loaded: BOOLEAN, list: SUBSET Entry]]
    /\ fetch \in [Key -> [st: {"none", "sent", "answered"}, list: SUBSET Entry]]
    /\ \A k \in Key : OfItsKind(k, cache[k].list) /\ OfItsKind(k, fetch[k].list)
DialogOK ==
    /\ dialog \in [kind: Kind \cup {"versions", "none"}, id: File \cup Folder \cup {None}]
    /\ About(dialog.kind, dialog.id)
    /\ dialog.kind = "none" => dialog = NoDialog
MutationCall ==
    [st: {"idle", "sent", "put", "complete", "ok", "no"}, kind: Kind \cup {"none"},
     id: File \cup Folder \cup {None}, to: Loc \cup {None}]
CallsOK ==
    /\ call \in [Hook -> MutationCall]
    /\ \A h \in Hook : CallTyped(h)
UploadOK ==
    /\ upload \in [st: {"none", "sending", "sent"}, at: Loc \cup {None}, stored: BOOLEAN,
                   again: 0..2]
    /\ upload.st # "none" => upload.at \in Loc
RestOK == at \in Loc /\ calm \in BOOLEAN /\ left \in [Event -> Nat]

TypeInv == RowsOK /\ QueriesOK /\ DialogOK /\ CallsOK /\ UploadOK /\ RestOK

LEMMA Keys ==
    /\ \A l \in Loc : Active(l) \subseteq Key
    /\ \A l \in Loc : <<"files", l>> \in Key /\ <<"folders", l>> \in Key
    /\ \A k \in Key : k = <<k[1], k[2]>> /\ k[1] \in {"files", "folders"} /\ k[2] \in Loc
    /\ Root \in Loc /\ Kind \subseteq Event
  BY DEF Active, Key, Loc, Event

LEMMA Starters ==
    /\ NoCache \in [loaded: BOOLEAN, list: SUBSET Entry]
    /\ NoFetch \in [st: {"none", "sent", "answered"}, list: SUBSET Entry]
    /\ Requested \in [st: {"none", "sent", "answered"}, list: SUBSET Entry]
    /\ NoCache.list = {} /\ NoFetch.list = {} /\ Requested.list = {}
    /\ NoFetch.st = "none" /\ Requested.st = "sent"
  BY DEF NoCache, NoFetch, Requested

\* A folder is under itself or another folder, the top level under none.
LEMMA BeneathIsFolders == ASSUME NEW d \in Folder PROVE Beneath(d) \subseteq Folder /\ Root \notin Beneath(d)
  BY ListingAssumption DEF Beneath, Below

LEMMA ListedTyped ==
    ASSUME TypeInv, NEW k \in Key
    PROVE  Listed(k) \subseteq Entry /\ OfItsKind(k, Listed(k))
<1>1. CASE k[1] = "files"
  BY <1>1 DEF Listed, Entry, OfItsKind, TypeInv, RowsOK, FileRow, FolderRow
<1>2. CASE k[1] # "files"
  BY <1>2 DEF Listed, Entry, OfItsKind, TypeInv, RowsOK, FileRow, FolderRow
<1> QED
  BY <1>1, <1>2

\* The version presign makes the new one's predecessor.
LEMMA CurrentIsThere ==
    ASSUME TypeInv, NEW f \in File, f # NewFile, file[f].row # "none"
    PROVE  /\ CurrentOf(f) \in File \ {NewFile} /\ file[CurrentOf(f)].row = "current"
           /\ CurrentOf(f) \in Lineage(f)
<1>1. \E g \in Lineage(f) : file[g].row = "current"
  BY DEF TypeInv, RowsOK, OneLineage, Lineage
<1>2. CurrentOf(f) \in Lineage(f) /\ file[CurrentOf(f)].row = "current"
  BY <1>1 DEF CurrentOf
<1> QED
  BY <1>2 DEF Lineage

-----------------------------------------------------------------------------
(* What the handler of a call makes of the rows.                           *)

LEMMA FoldersTyped ==
    ASSUME TypeInv, NEW h \in Hook, call[h].st = "sent"
    PROVE  FoldersAfter(call[h]) \in [Folder -> FolderRow]
<1>1. /\ call[h].kind \in Kind /\ call[h].to \in Loc /\ About(call[h].kind, call[h].id)
      /\ folder \in [Folder -> FolderRow]
  BY DEF TypeInv, RowsOK, CallsOK, CallTyped
<1>2. CASE call[h].kind = "createFolder"
  BY <1>1, <1>2, ListingAssumption DEF FoldersAfter, FolderRow
<1>3. CASE call[h].kind = "renameFolder"
  BY <1>1, <1>3 DEF FoldersAfter, FolderRow
<1>4. CASE call[h].kind = "moveFolder"
  BY <1>1, <1>4 DEF FoldersAfter, FolderRow
<1>5. CASE call[h].kind = "deleteFolder"
  BY <1>1, <1>5 DEF FoldersAfter, FolderRow
<1>6. CASE call[h].kind \in FileKind
  BY <1>1, <1>6 DEF FoldersAfter, FolderRow, FileKind
<1> QED
  BY <1>1, <1>2, <1>3, <1>4, <1>5, <1>6 DEF Kind, FileKind

LEMMA FilesTyped ==
    ASSUME TypeInv, NEW h \in Hook, call[h].st = "sent", Accepted(call[h])
    PROVE  /\ FilesAfter(call[h]) \in [File -> FileRow]
           /\ OneLineage(FilesAfter(call[h]))
           /\ file[NewFile].row = "none" => FilesAfter(call[h])[NewFile].row = "none"
<1> DEFINE c == call[h]
           after == FilesAfter(c)
           Goal == /\ after \in [File -> FileRow] /\ OneLineage(after)
                   /\ file[NewFile].row = "none" => after[NewFile].row = "none"
<1> SUFFICES Goal
  OBVIOUS
<1>1. /\ c.kind \in Kind /\ c.to \in Loc /\ About(c.kind, c.id)
      /\ file \in [File -> FileRow] /\ OneLineage(file)
  BY DEF TypeInv, RowsOK, CallsOK, CallTyped
<1>2. CASE c.kind \in {"createFolder", "renameFolder", "moveFolder"}
  BY <1>1, <1>2 DEF FilesAfter
<1>3. CASE c.kind = "renameFile"
  <2>1. after = [file EXCEPT ![c.id].renamed = TRUE] /\ c.id \in File
    BY <1>1, <1>3 DEF FilesAfter, About, FileKind
  <2> HIDE DEF after
  <2>2. /\ after \in [File -> FileRow]
        /\ \A f \in File : after[f].row = file[f].row /\ after[f].at = file[f].at
    <3> DEFINE id == c.id
    <3>1. id \in File /\ after = [file EXCEPT ![id].renamed = TRUE]
      BY <2>1
    <3> HIDE DEF id
    <3> QED
      BY <1>1, <3>1 DEF FileRow
  <2> QED
    BY <1>1, <2>2, ListingAssumption DEF OneLineage
<1>4. ASSUME NEW gone, after = Removed(gone),
             gone \cap (File \ {NewFile}) = {} \/ File \ {NewFile} \subseteq gone
             \/ \A f \in File \ {NewFile} : file[f].row # "none" => f \in gone
      PROVE  Goal
  <2>1. /\ after \in [File -> FileRow]
        /\ \A f \in File : /\ after[f].row = IF f \in gone THEN "none" ELSE file[f].row
                           /\ after[f].at = file[f].at
    BY <1>1, <1>4 DEF FileRow, Removed
  <2> QED
    BY <1>1, <1>4, <2>1, ListingAssumption DEF OneLineage
<1>5. CASE c.kind = "deleteFile"
  <2>1. after = Removed(Lineage(c.id)) /\ c.id \in File
    BY <1>1, <1>5 DEF FilesAfter, About, FileKind
  <2>2. CASE c.id = NewFile
    BY <1>4, <2>1, <2>2 DEF Lineage
  <2>3. CASE c.id # NewFile
    BY <1>4, <2>1, <2>3 DEF Lineage
  <2> QED
    BY <2>2, <2>3
<1>6. CASE c.kind = "deleteFolder"
  <2>1. /\ after = Removed({f \in File : file[f].at \in Beneath(c.id)}) /\ c.id \in Folder
    BY <1>1, <1>6 DEF FilesAfter, About, FolderKind
  <2>2. \A f \in File \ {NewFile} : file[f].at \notin Beneath(c.id)
    BY <1>1, <2>1, BeneathIsFolders DEF OneLineage
  <2> QED
    BY <1>4, <2>1, <2>2
<1>7. CASE c.kind = "restore"
  <2>1. after = Promoted(c.id) /\ c.id \in File /\ file[c.id].row # "none"
    BY <1>1, <1>7 DEF FilesAfter, About, FileKind, Accepted
  <2>2. /\ after \in [File -> FileRow]
        /\ \A f \in File : /\ after[f].at = file[f].at
                           /\ after[f].row = IF f \in Lineage(c.id)
                                             THEN IF f = c.id THEN "current" ELSE "old"
                                             ELSE file[f].row
    BY <1>1, <2>1 DEF Promoted, FileRow
  <2>3. OneLineage(after)
    <3>1. CASE c.id = NewFile
      BY <1>1, <2>1, <2>2, <3>1 DEF OneLineage, Lineage
    <3>2. CASE c.id # NewFile
      <4>1. after[c.id].row = "current"
        BY <2>1, <2>2, <3>2 DEF Lineage
      <4> QED
        BY <1>1, <2>1, <2>2, <3>2, <4>1 DEF OneLineage
    <3> QED
      BY <3>1, <3>2
  <2> QED
    BY <2>2, <2>3, ListingAssumption DEF Lineage
<1>8. CASE c.kind = "version"
  <2>1. /\ after = [Removed({}) EXCEPT ![CurrentOf(c.id)].row = "old",
                       ![NewVersion] = [file[CurrentOf(c.id)] EXCEPT !.row = "current", !.status = "pending"]]
        /\ c.id \in File /\ c.id # NewFile /\ file[c.id].row # "none"
    BY <1>1, <1>8 DEF FilesAfter, About, FileKind, Accepted
  <2>2. PICK g \in File \ {NewFile} : g = CurrentOf(c.id)
    BY <2>1, CurrentIsThere
  <2>3. Removed({}) = file
    BY <1>1 DEF Removed
  <2>4. /\ after \in [File -> FileRow]
        /\ \A f \in File : f # NewVersion => after[f].at = file[f].at
        /\ after[NewVersion].at = file[g].at /\ after[NewVersion].row = "current"
        /\ \A f \in File : f # NewVersion /\ f # g => after[f].row = file[f].row
    <3> HIDE DEF after
    <3>1. after = [file EXCEPT ![g].row = "old",
                       ![NewVersion] = [file[g] EXCEPT !.row = "current", !.status = "pending"]]
      BY <2>1, <2>2, <2>3
    <3> DEFINE new == [file[g] EXCEPT !.row = "current", !.status = "pending"]
               old == [file EXCEPT ![g].row = "old"]
    <3>2. new \in FileRow /\ new.at = file[g].at /\ new.row = "current"
      BY <1>1 DEF FileRow, Status
    <3>3. /\ old \in [File -> FileRow]
          /\ \A f \in File : old[f].at = file[f].at /\ (f # g => old[f].row = file[f].row)
      BY <1>1 DEF FileRow
    <3>4. after = [old EXCEPT ![NewVersion] = new]
      BY <3>1
    <3> HIDE DEF new, old
    <3> QED
      BY <3>2, <3>3, <3>4, ListingAssumption
  <2> HIDE DEF after
  <2>5. NewVersion \in File \ {NewFile} /\ NewFile \in File
    BY ListingAssumption
  <2>6. \A f \in File \ {NewFile} : after[f].at = Root
    BY <1>1, <2>4 DEF OneLineage
  <2>7. OneLineage(after)
    BY <2>4, <2>5, <2>6 DEF OneLineage
  <2> QED
    BY <2>2, <2>4, <2>5, <2>7
<1> HIDE DEF Goal
<1> QED
  BY <1>1, <1>2, <1>3, <1>5, <1>6, <1>7, <1>8 DEF Goal, Kind

-----------------------------------------------------------------------------
LEMMA SpendTyped ==
    ASSUME TypeInv, NEW event \in Event, Spend(event)
    PROVE  left' \in [Event -> Nat] /\ left'[event] = left[event] - 1
           /\ left[event] > 0 /\ \A e \in Event : left'[e] <= left[e]
  BY DEF TypeInv, RestOK, Spend, MayHappen

LEMMA RequestsTyped ==
    ASSUME TypeInv, fetch' = [k \in Key |-> fetch'[k]],
           \A k \in Key : fetch'[k] \in {fetch[k], Requested}, cache' = cache
    PROVE  QueriesOK'
<1>1. \A k \in Key : fetch'[k] \in [st: {"none", "sent", "answered"}, list: SUBSET Entry]
  BY Starters DEF TypeInv, QueriesOK
<1>2. \A k \in Key : OfItsKind(k, fetch'[k].list)
  BY Starters DEF TypeInv, QueriesOK, OfItsKind
<1> QED
  BY <1>1, <1>2 DEF TypeInv, QueriesOK

LEMMA InvalidatedTyped ==
    ASSUME TypeInv, NEW keys, fetch' = Invalidated(keys), cache' = cache
    PROVE  QueriesOK'
  BY RequestsTyped DEF Invalidated

LEMMA AnotherCall ==
    ASSUME TypeInv, NEW h \in Hook,
           NEW c \in MutationCall,
           call' = [call EXCEPT ![h] = c],
           c.st # "idle" =>
              /\ c.kind \in Kind /\ HookOf(c.kind) = h /\ c.to \in Loc
              /\ About(c.kind, c.id)
              /\ c.st \in {"put", "complete"} => h = "version"
    PROVE  CallsOK'
  BY DEF TypeInv, CallsOK, CallTyped

\* The same call, further on.
LEMMA CallGoesOn ==
    ASSUME TypeInv, NEW h \in Hook, NEW st \in {"sent", "put", "complete", "ok", "no"},
           call[h].st # "idle", call' = [call EXCEPT ![h].st = st],
           st \in {"put", "complete"} => h = "version"
    PROVE  CallsOK'
<1> DEFINE c == [call[h] EXCEPT !.st = st]
<1>1. /\ call[h] \in MutationCall
      /\ CallTyped(h)
  BY DEF TypeInv, CallsOK
<1>2. /\ c \in MutationCall
      /\ c.st = st /\ c.kind = call[h].kind /\ c.id = call[h].id /\ c.to = call[h].to
  BY <1>1 DEF MutationCall
<1>3. call' = [call EXCEPT ![h] = c]
  OBVIOUS
<1> HIDE DEF c
<1>4. /\ c.kind \in Kind /\ HookOf(c.kind) = h /\ c.to \in Loc /\ About(c.kind, c.id)
      /\ c.st \in {"put", "complete"} => h = "version"
  BY <1>1, <1>2 DEF CallTyped
<1> QED
  BY <1>2, <1>3, <1>4, AnotherCall

LEMMA CallEnds ==
    ASSUME TypeInv, NEW h \in Hook, call' = [call EXCEPT ![h] = NoCall]
    PROVE  CallsOK'
  BY AnotherCall DEF NoCall, MutationCall

LEMMA TypeInvariant == Spec => []TypeInv
<1>1. Init => TypeInv
  <2> SUFFICES ASSUME Init PROVE TypeInv
    OBVIOUS
  <2>1. RowsOK
    <3>1. PICK f \in File : f \notin {NewFile, NewVersion, OldVersion}
      BY ListingAssumption
    <3>2. file[f].row = "current" /\ f # NewFile
      BY <3>1 DEF Init
    <3>3. file \in [File -> FileRow] /\ \A g \in File : file[g].at = Root
      BY Keys DEF Init, FileRow, Status
    <3>4. folder \in [Folder -> FolderRow]
      BY Keys DEF Init, FolderRow
    <3> QED
      BY <3>2, <3>3, <3>4 DEF RowsOK, OneLineage
  <2>2. QueriesOK
    <3>1. \A k \in Key : cache[k] = NoCache /\ fetch[k] \in {NoFetch, Requested}
      BY DEF Init, Requested
    <3>2. cache \in [Key -> {NoCache}] /\ fetch \in [Key -> {NoFetch, Requested}]
      BY DEF Init, Requested
    <3> QED
      BY <3>1, <3>2, Starters DEF QueriesOK, OfItsKind
  <2>3. DialogOK /\ CallsOK /\ UploadOK /\ RestOK
    BY ListingAssumption, Keys DEF Init, DialogOK, CallsOK, UploadOK, RestOK, NoDialog, NoCall,
       NoUpload, MutationCall, CallTyped, About, FolderKind, FileKind
  <2> QED
    BY <2>1, <2>2, <2>3 DEF TypeInv
<1>2. TypeInv /\ [Next]_vars => TypeInv'
  <2> SUFFICES ASSUME TypeInv, [Next]_vars PROVE TypeInv'
    OBVIOUS
  <2> USE DEF TypeInv
  <2>0. /\ UNCHANGED rows => RowsOK'
        /\ UNCHANGED query => QueriesOK'
        /\ UNCHANGED dialog => DialogOK'
        /\ UNCHANGED call => CallsOK'
        /\ UNCHANGED upload => UploadOK'
        /\ UNCHANGED <<at, calm, left>> => RestOK'
        /\ \A event \in Event : UNCHANGED <<at, calm>> /\ Spend(event) => RestOK'
    BY SpendTyped DEF rows, query, RowsOK, QueriesOK, DialogOK, CallsOK, CallTyped, UploadOK, RestOK
  <2>1. ASSUME NEW k \in Key, Answer(k) PROVE TypeInv'
    <3>1. QueriesOK'
      BY <2>1, ListedTyped DEF Answer, QueriesOK, OfItsKind
    <3> QED
      BY <2>0, <2>1, <3>1 DEF Answer, rows
  <2>2. ASSUME NEW k \in Key, Receive(k) PROVE TypeInv'
    <3>1. QueriesOK'
      BY <2>2, Starters DEF Receive, QueriesOK, OfItsKind
    <3> QED
      BY <2>0, <2>2, <3>1 DEF Receive, rows
  <2>3. ASSUME NEW k \in Key, FetchFails(k) PROVE TypeInv'
    <3>1. QueriesOK'
      BY <2>3, Starters DEF FetchFails, QueriesOK, OfItsKind
    <3> QED
      BY <2>0, <2>3, <3>1 DEF FetchFails, rows, Event
  <2>4. CASE Poll
    <3>1. /\ <<"files", at>> \in Key /\ cache' = cache
          /\ fetch' = [fetch EXCEPT ![<<"files", at>>] = Requested]
      BY <2>4, Keys DEF Poll, RestOK
    <3>2. fetch' = [k \in Key |-> IF k = <<"files", at>> THEN Requested ELSE fetch[k]]
      BY <3>1 DEF QueriesOK
    <3>3. QueriesOK'
      BY <3>1, <3>2, RequestsTyped
    <3> QED
      BY <2>0, <2>4, <3>3 DEF Poll, rows
  <2>5. CASE Focus
    <3>1. QueriesOK'
      BY <2>5, RequestsTyped DEF Focus
    <3> QED
      BY <2>0, <2>5, <3>1 DEF Focus, rows, Event
  <2>6. CASE Navigate
    <3>1. QueriesOK'
      BY <2>6, RequestsTyped DEF Navigate
    <3>2. at' \in Loc
      BY <2>6, ListingAssumption DEF Navigate, Loc
    <3> QED
      BY <2>0, <2>6, <3>1, <3>2 DEF Navigate, rows, RestOK
  <2>7. CASE OpenDialog
    <3>1. PICK kind \in Kind \cup {"versions"}, id \in File \cup Folder \cup {None} :
             Offered(kind, id) /\ dialog' = [kind |-> kind, id |-> id]
      BY <2>7 DEF OpenDialog
    <3>2. \A l \in Loc : Shown(<<"folders", l>>) \subseteq Folder /\ Shown(<<"files", l>>) \subseteq File
      <4>1. ASSUME NEW l \in Loc PROVE OfItsKind(<<"folders", l>>, cache[<<"folders", l>>].list)
                                        /\ OfItsKind(<<"files", l>>, cache[<<"files", l>>].list)
        BY Keys DEF QueriesOK
      <4> QED
        BY <4>1 DEF Shown, OfItsKind
    <3>3. About(kind, id)
      BY <3>1, <3>2 DEF Offered, About, FolderKind, FileKind, RestOK
    <3>4. DialogOK'
      BY <3>1, <3>3 DEF DialogOK, Kind
    <3> QED
      BY <2>0, <2>7, <3>4 DEF OpenDialog, rows, query
  <2>8. CASE CloseDialog
    <3>1. DialogOK'
      BY <2>8 DEF CloseDialog, NoDialog, DialogOK, About, FolderKind, FileKind
    <3> QED
      BY <2>0, <2>8, <3>1 DEF CloseDialog, rows, query
  <2>9. CASE Submit
    <3>1. PICK kind \in Starts(dialog.kind) :
             /\ dialog # NoDialog /\ Spend(kind)
             /\ \E id \in Subjects(kind),
                   to \in IF kind = "moveFolder" THEN MoveTargets(dialog.id) ELSE {at} :
                   call' = [call EXCEPT ![HookOf(kind)] =
                              [st |-> "sent", kind |-> kind, id |-> id, to |-> to]]
      BY <2>9 DEF Submit
    <3>2. PICK id \in Subjects(kind),
               to \in IF kind = "moveFolder" THEN MoveTargets(dialog.id) ELSE {at} :
             call' = [call EXCEPT ![HookOf(kind)] =
                        [st |-> "sent", kind |-> kind, id |-> id, to |-> to]]
      BY <3>1
    <3>3. kind \in Kind /\ kind \in Event
      <4>1. dialog.kind \in Kind \cup {"versions"}
        BY <3>1 DEF DialogOK
      <4> QED
        BY <4>1, Keys DEF Starts, Kind
    <3>4. About(kind, id) /\ id \in File \cup Folder \cup {None}
      <4>1. CASE kind = "restore"
        BY <3>2, <4>1 DEF Subjects, Lineage, About, FolderKind, FileKind
      <4>2. CASE kind # "restore"
        BY <3>2, <4>2 DEF Subjects, Lineage, Starts, About, FolderKind, FileKind, DialogOK
      <4> QED
        BY <4>1, <4>2
    <3>5. to \in Loc
      <4>1. OfItsKind(<<"folders", Root>>, cache[<<"folders", Root>>].list)
        BY Keys DEF QueriesOK
      <4> QED
        BY <3>2, <4>1, Keys DEF MoveTargets, Shown, OfItsKind, RestOK, Loc
    <3>6. HookOf(kind) \in Hook
      BY <3>3 DEF HookOf, Kind, Hook
    <3>7. CallsOK'
      <4> DEFINE c == [st |-> "sent", kind |-> kind, id |-> id, to |-> to]
      <4>1. c \in MutationCall
        BY <3>3, <3>4, <3>5 DEF MutationCall
      <4> QED
        BY <3>2, <3>3, <3>4, <3>5, <3>6, <4>1, AnotherCall
    <3> QED
      BY <2>0, <2>9, <3>1, <3>3, <3>7 DEF Submit, rows, query
  <2>10. ASSUME NEW h \in Hook, Serve(h) PROVE TypeInv'
    <3>1. /\ call[h].st = "sent" /\ UNCHANGED <<at, query, dialog, upload, calm, left>>
          /\ call' = [call EXCEPT ![h].st = IF ~Accepted(call[h]) THEN "no"
                                            ELSE IF h = "version" THEN "put" ELSE "ok"]
          /\ IF Accepted(call[h])
             THEN folder' = FoldersAfter(call[h]) /\ file' = FilesAfter(call[h])
             ELSE UNCHANGED rows
      BY <2>10 DEF Serve
    <3>2. CallsOK'
      BY <3>1, CallGoesOn
    <3>3. RowsOK'
      <4>1. CASE Accepted(call[h])
        BY <3>1, <4>1, FoldersTyped, FilesTyped DEF RowsOK
      <4>2. CASE ~Accepted(call[h])
        BY <2>0, <3>1, <4>2
      <4> QED
        BY <4>1, <4>2
    <3> QED
      BY <2>0, <3>1, <3>2, <3>3 DEF query
  <2>11. CASE PutVersion
    <3>1. CallsOK'
      BY <2>11, CallGoesOn DEF PutVersion, Hook
    <3> QED
      BY <2>0, <2>11, <3>1 DEF PutVersion, rows, query
  <2>12. CASE CompleteVersion
    <3>1. CallsOK'
      BY <2>12, CallGoesOn DEF CompleteVersion, Hook
    <3>2. RowsOK'
      <4>1. CASE file' = [file EXCEPT ![NewVersion].status = "processing"]
        <5>1. file' \in [File -> FileRow] /\ \A f \in File : file'[f].row = file[f].row
                                                           /\ file'[f].at = file[f].at
          BY <4>1 DEF RowsOK, FileRow, Status
        <5> QED
          BY <2>12, <5>1 DEF CompleteVersion, RowsOK, OneLineage
      <4> QED
        BY <2>0, <2>12, <4>1 DEF CompleteVersion, rows
    <3> QED
      BY <2>0, <2>12, <3>1, <3>2 DEF CompleteVersion, query
  <2>13. ASSUME NEW h \in Hook, Succeed(h) PROVE TypeInv'
    <3>1. CallsOK' /\ QueriesOK'
      BY <2>13, CallEnds, InvalidatedTyped DEF Succeed
    <3>2. DialogOK'
      BY <2>0, <2>13 DEF Succeed, NoDialog, DialogOK, About, FolderKind, FileKind
    <3> QED
      BY <2>0, <2>13, <3>1, <3>2 DEF Succeed, rows
  <2>14. ASSUME NEW h \in Hook, Fail(h) PROVE TypeInv'
    <3>1. CallsOK'
      BY <2>14, CallEnds DEF Fail
    <3> QED
      BY <2>0, <2>14, <3>1 DEF Fail, rows, query, Event
  <2>15. CASE StartUpload
    <3>1. UploadOK'
      <4>1. upload' = [st |-> "sending", at |-> at, stored |-> FALSE, again |-> 0]
        BY <2>15 DEF StartUpload, Started, NoUpload
      <4> QED
        BY <4>1 DEF UploadOK, RestOK
    <3> QED
      BY <2>0, <2>15, <3>1 DEF StartUpload, rows, query, Event
  <2>16. CASE UploadSucceeds
    <3>1. UploadOK'
      <4>1. upload' = [upload EXCEPT !.st = "sent", !.again = 2] /\ upload.st # "none"
        BY <2>16 DEF UploadSucceeds, Refetches
      <4>2. upload.at \in Loc /\ upload.stored \in BOOLEAN /\ 2 \in 0..2
        BY <4>1 DEF UploadOK
      <4>3. upload' = [st |-> "sent", at |-> upload.at, stored |-> upload.stored, again |-> 2]
        BY <4>1 DEF UploadOK
      <4> QED
        BY <4>2, <4>3 DEF UploadOK
    <3>2. QueriesOK'
      BY <2>16, InvalidatedTyped DEF UploadSucceeds
    <3> QED
      BY <2>0, <2>16, <3>1, <3>2 DEF UploadSucceeds, rows
  <2>17. CASE FinishTusUpload
    <3>1. UploadOK'
      BY <2>17 DEF FinishTusUpload, UploadOK
    <3>2. /\ file' = [file EXCEPT ![NewFile].row = "current", ![NewFile].at = upload.at]
          /\ folder' = folder /\ upload.at \in Loc
      BY <2>17 DEF FinishTusUpload, UploadOK
    <3>3. file' \in [File -> FileRow] /\ \A f \in File \ {NewFile} : file'[f] = file[f]
      BY <3>2 DEF RowsOK, FileRow
    <3>4. RowsOK'
      BY <3>2, <3>3 DEF RowsOK, OneLineage
    <3> QED
      BY <2>0, <2>17, <3>1, <3>4 DEF FinishTusUpload, query
  <2>18. CASE RefetchTimer
    <3>1. UploadOK'
      BY <2>18 DEF RefetchTimer, UploadOK
    <3>2. QueriesOK'
      BY <2>18, InvalidatedTyped DEF RefetchTimer
    <3> QED
      BY <2>0, <2>18, <3>1, <3>2 DEF RefetchTimer, rows
  <2>19. ASSUME NEW f \in File, Process(f) PROVE TypeInv'
    <3>1. file' \in [File -> FileRow] /\ \A g \in File : file'[g].row = file[g].row
                                                       /\ file'[g].at = file[g].at
      BY <2>19 DEF Process, RowsOK, FileRow, Status
    <3>2. RowsOK'
      BY <2>19, <3>1 DEF Process, RowsOK, OneLineage
    <3> QED
      BY <2>0, <2>19, <3>2 DEF Process, query
  <2>20. CASE UNCHANGED vars
    BY <2>0, <2>20 DEF vars, rows, query
  <2> HIDE DEF TypeInv
  <2> QED
    BY <2>1, <2>2, <2>3, <2>4, <2>5, <2>6, <2>7, <2>8, <2>9, <2>10, <2>11, <2>12, <2>13, <2>14,
       <2>15, <2>16, <2>17, <2>18, <2>19, <2>20 DEF Next, UserNext
<1> QED
  BY <1>1, <1>2, PTL DEF Spec

\* Every row, list, request, dialog and call of the page keeps its type, whatever
\* overlaps.
THEOREM ListingTypeCorrect == Spec => []TypeOK
<1>1. TypeInv => TypeOK
  BY DEF TypeInv, RowsOK, QueriesOK, DialogOK, CallsOK, UploadOK, RestOK, TypeOK, FileRow, FolderRow, MutationCall
<1> QED
  BY <1>1, TypeInvariant, PTL

-----------------------------------------------------------------------------
(* What the page of a calm user shows.                                     *)

NamesOf(list) == {[id |-> e.id, renamed |-> e.renamed] : e \in list}

\* What is read of a list, apart from the status of its files, changes only with these
\* columns of the rows it selects.
Selected(k) == IF k[1] = "files" THEN {f \in File : file[f].row = "current" /\ file[f].at = k[2]}
               ELSE {d \in Folder : folder[d].at = k[2]}
Renamed(k, id) == IF k[1] = "files" THEN file[id].renamed ELSE folder[id].renamed

LEMMA NamesOfFiles ==
    ASSUME NEW S, NEW g
    PROVE  NamesOf({[id |-> f, renamed |-> g[f].renamed, status |-> g[f].status] : f \in S})
             = {[id |-> f, renamed |-> g[f].renamed] : f \in S}
<1> DEFINE list == {[id |-> f, renamed |-> g[f].renamed, status |-> g[f].status] : f \in S}
           names == {[id |-> f, renamed |-> g[f].renamed] : f \in S}
<1>1. ASSUME NEW n \in NamesOf(list) PROVE n \in names
  <2>1. PICK e \in list : n = [id |-> e.id, renamed |-> e.renamed]
    BY <1>1 DEF NamesOf
  <2>2. PICK f \in S : e = [id |-> f, renamed |-> g[f].renamed, status |-> g[f].status]
    BY <2>1
  <2> QED
    BY <2>1, <2>2
<1>2. ASSUME NEW n \in names PROVE n \in NamesOf(list)
  <2>1. PICK f \in S : n = [id |-> f, renamed |-> g[f].renamed]
    BY <1>2
  <2>2. [id |-> f, renamed |-> g[f].renamed, status |-> g[f].status] \in list
    BY <2>1
  <2> HIDE DEF list
  <2> QED
    BY <2>1, <2>2 DEF NamesOf
<1> QED
  BY <1>1, <1>2

LEMMA SameNames ==
    ASSUME NEW k, Selected(k)' = Selected(k),
           \A id \in Selected(k) : Renamed(k, id)' = Renamed(k, id)
    PROVE  NamesOf(Listed(k))' = NamesOf(Listed(k))
<1>1. CASE k[1] = "files"
  <2> DEFINE S == {f \in File : file[f].row = "current" /\ file[f].at = k[2]}
  <2>1. S' = S /\ \A f \in S : file'[f].renamed = file[f].renamed
    BY <1>1 DEF Selected, Renamed
  <2>2. /\ Listed(k) = {[id |-> f, renamed |-> file[f].renamed, status |-> file[f].status] : f \in S}
        /\ Listed(k)' = {[id |-> f, renamed |-> file'[f].renamed, status |-> file'[f].status] : f \in S'}
    BY <1>1 DEF Listed
  <2> HIDE DEF S
  <2>3. /\ NamesOf(Listed(k)) = {[id |-> f, renamed |-> file[f].renamed] : f \in S}
        /\ NamesOf(Listed(k))' = {[id |-> f, renamed |-> file'[f].renamed] : f \in S'}
    BY <2>2, NamesOfFiles
  <2> QED
    BY <2>1, <2>3
<1>2. CASE k[1] # "files"
  <2> DEFINE S == {d \in Folder : folder[d].at = k[2]}
  <2>1. S' = S /\ \A d \in S : folder'[d].renamed = folder[d].renamed
    BY <1>2 DEF Selected, Renamed
  <2>2. /\ Listed(k) = {[id |-> d, renamed |-> folder[d].renamed] : d \in S}
        /\ Listed(k)' = {[id |-> d, renamed |-> folder'[d].renamed] : d \in S'}
    BY <1>2 DEF Listed
  <2> HIDE DEF S
  <2>3. Listed(k)' = Listed(k)
    BY <2>1, <2>2
  <2> QED
    BY <2>3 DEF NamesOf
<1> QED
  BY <1>1, <1>2

LEMMA SameColumns ==
    ASSUME NEW k \in Key, folder' = folder,
           \A f \in File : /\ file'[f].row = file[f].row /\ file'[f].at = file[f].at
                           /\ file'[f].renamed = file[f].renamed
    PROVE  NamesOf(Listed(k))' = NamesOf(Listed(k))
  BY SameNames DEF Selected, Renamed

-----------------------------------------------------------------------------
(* Facts about the rows, whoever the user is.                              *)

CountInv ==
    /\ \A event \in Event : left[event] <= Budget[event]
    /\ call["createFolder"].st # "idle" => left["createFolder"] = 0
    /\ folder[NewFolder].at # None =>
          left["createFolder"] = 0 /\ call["createFolder"].st # "sent"
    /\ upload.st # "sent" => ~upload.stored
    /\ ~upload.stored => file[NewFile].row = "none"

\* The lists a call does not invalidate are not affected by it.
LEMMA InvalidatesEnough ==
    ASSUME TypeInv, CountInv, NEW h \in Hook, call[h].st = "sent", Accepted(call[h]),
           folder' = FoldersAfter(call[h]), file' = FilesAfter(call[h]),
           NEW k \in Key, k \notin Invalidates(call[h])
    PROVE  NamesOf(Listed(k))' = NamesOf(Listed(k))
<1>1. call[h].kind \in Kind /\ About(call[h].kind, call[h].id) /\ HookOf(call[h].kind) = h
      /\ call[h].to \in Loc
  BY DEF TypeInv, CallsOK, CallTyped
<1>2. k = <<k[1], k[2]>> /\ k[1] \in {"files", "folders"} /\ k[2] \in Loc
  BY Keys
<1>3. CASE call[h].kind = "createFolder"
  <2>1. /\ file' = file /\ folder' = [folder EXCEPT ![NewFolder].at = call[h].to]
        /\ k # <<"folders", call[h].to>> /\ h = "createFolder"
    BY <1>1, <1>3 DEF FilesAfter, FoldersAfter, Invalidates, HookOf
  <2>2. folder[NewFolder].at = None /\ None \notin Loc /\ NewFolder \in Folder
    BY <2>1, ListingAssumption DEF CountInv
  <2>3. /\ \A d \in Folder : folder'[d].renamed = folder[d].renamed
        /\ folder'[NewFolder].at = call[h].to
        /\ \A d \in Folder \ {NewFolder} : folder'[d].at = folder[d].at
    BY <2>1, <2>2 DEF TypeInv, RowsOK, FolderRow
  <2>4. k[1] = "files" \/ k[2] # call[h].to
    BY <1>2, <2>1
  <2>5. CASE k[1] = "files"
    <3>1. file' = file
      BY <2>1
    <3> QED
      BY <2>5, <3>1, SameNames DEF Selected, Renamed
  <2>6. CASE k[1] # "files" /\ k[2] # call[h].to
    <3>1. NewFolder \notin Selected(k) /\ NewFolder \notin Selected(k)'
      BY <1>2, <2>2, <2>3, <2>6 DEF Selected
    <3>2. Selected(k)' = Selected(k) /\ \A d \in Selected(k) : Renamed(k, d)' = Renamed(k, d)
      BY <2>3, <2>6, <3>1 DEF Selected, Renamed
    <3> QED
      BY <3>2, SameNames
  <2> QED
    BY <2>4, <2>5, <2>6
<1>4. CASE call[h].kind \in {"renameFolder", "moveFolder"}
  <2>1. file' = file /\ k[1] = "files"
    BY <1>2, <1>4 DEF FilesAfter, Invalidates, KeysOf
  <2> QED
    BY <2>1, SameNames DEF Selected, Renamed
<1>5. CASE call[h].kind = "deleteFolder"
  BY <1>5 DEF Invalidates
<1>6. CASE call[h].kind \in FileKind
  <2>1. folder' = folder /\ k[1] = "folders"
    BY <1>2, <1>6 DEF FoldersAfter, Invalidates, KeysOf, FileKind
  <2> QED
    BY <2>1, SameNames DEF Selected, Renamed
<1> QED
  BY <1>1, <1>3, <1>4, <1>5, <1>6 DEF Kind, FileKind

LEMMA CountInvariant == Spec => []CountInv
<1>1. Init => CountInv
  BY ListingAssumption DEF Init, CountInv, NoCall, NoUpload, Hook
<1>2. TypeInv /\ CountInv /\ [Next]_vars => CountInv'
  <2> SUFFICES ASSUME TypeInv, CountInv, [Next]_vars PROVE CountInv'
    OBVIOUS
  <2>0. /\ call \in [Hook -> MutationCall] /\ "createFolder" \in Hook /\ NewFolder \in Folder
        /\ NewFile \in File /\ file \in [File -> FileRow] /\ folder \in [Folder -> FolderRow]
        /\ left \in [Event -> Nat] /\ Budget \in [Event -> Nat] /\ Budget["createFolder"] <= 1
        /\ "createFolder" \in Event /\ {"net", "focus", "upload"} \subseteq Event
    BY ListingAssumption DEF TypeInv, CallsOK, RowsOK, RestOK, Hook, Event, Kind
  <2>a. ASSUME NEW event \in Event, Spend(event)
        PROVE  /\ \A e \in Event : left'[e] <= left[e] /\ left'[e] <= Budget[e]
               /\ left["createFolder"] = 0 => left'["createFolder"] = 0
    <3>1. left' \in [Event -> Nat] /\ \A e \in Event : left'[e] <= left[e]
      BY <2>a, SpendTyped
    <3> QED
      BY <2>0, <3>1 DEF CountInv
  <2>1. ASSUME UNCHANGED <<rows, upload>>,
               left' = left \/ \E event \in Event : Spend(event),
               call' = call \/ call'["createFolder"].st = "idle"
               \/ call'["createFolder"] = call["createFolder"]
        PROVE  CountInv'
    BY <2>0, <2>1, <2>a DEF CountInv, rows
  <2>2. CASE \/ Focus \/ Navigate \/ OpenDialog \/ CloseDialog \/ Poll
             \/ \E k \in Key : Answer(k) \/ Receive(k) \/ FetchFails(k)
    BY <2>0, <2>1, <2>2 DEF Focus, Navigate, OpenDialog, CloseDialog, Poll, Answer, Receive, FetchFails, rows
  <2>3. CASE PutVersion
    <3>1. call'["createFolder"] = call["createFolder"]
      BY <2>0, <2>3 DEF PutVersion
    <3> QED
      BY <2>1, <2>3, <3>1 DEF PutVersion
  <2>4. ASSUME NEW h \in Hook, Succeed(h) \/ Fail(h) PROVE CountInv'
    <3>1. \/ call'["createFolder"].st = "idle" \/ call'["createFolder"] = call["createFolder"]
      BY <2>0, <2>4 DEF Succeed, Fail, NoCall
    <3> QED
      BY <2>0, <2>1, <2>4, <3>1 DEF Succeed, Fail
  <2>5. CASE Submit
    <3>1. PICK kind \in Starts(dialog.kind) :
             /\ dialog # NoDialog /\ Spend(kind)
             /\ \E id \in Subjects(kind),
                   to \in IF kind = "moveFolder" THEN MoveTargets(dialog.id) ELSE {at} :
                   call' = [call EXCEPT ![HookOf(kind)] =
                              [st |-> "sent", kind |-> kind, id |-> id, to |-> to]]
      BY <2>5 DEF Submit
    <3>2. kind \in Kind /\ kind \in Event
      <4>1. dialog.kind \in Kind \cup {"versions"}
        BY <3>1 DEF TypeInv, DialogOK
      <4> QED
        BY <4>1, Keys DEF Starts, Kind
    <3>3. CASE kind = "createFolder"
      <4>1. left["createFolder"] > 0 /\ left'["createFolder"] = left["createFolder"] - 1
        BY <3>1, <3>2, <3>3, SpendTyped
      <4>2. left'["createFolder"] = 0 /\ folder[NewFolder].at = None
        BY <2>0, <4>1 DEF CountInv
      <4> QED
        BY <2>5, <2>a, <3>1, <3>2, <4>2 DEF Submit, CountInv, rows
    <3>4. CASE kind # "createFolder"
      <4>1. HookOf(kind) # "createFolder"
        BY <3>2, <3>4 DEF HookOf, Kind
      <4>2. call'["createFolder"] = call["createFolder"]
        BY <2>0, <3>1, <4>1
      <4> QED
        BY <2>1, <2>5, <3>1, <3>2, <4>2 DEF Submit
    <3> QED
      BY <3>3, <3>4
  <2>6. ASSUME NEW h \in Hook, Serve(h) PROVE CountInv'
    <3>1. /\ call[h].st = "sent" /\ UNCHANGED <<upload, left>>
          /\ IF Accepted(call[h])
             THEN folder' = FoldersAfter(call[h]) /\ file' = FilesAfter(call[h])
             ELSE UNCHANGED rows
          /\ call'[h].st \in {"no", "put", "ok"} /\ \A g \in Hook \ {h} : call'[g] = call[g]
      BY <2>0, <2>6 DEF Serve, MutationCall
    <3>2. file[NewFile].row = "none" => file'[NewFile].row = "none"
      BY <3>1, FilesTyped DEF rows
    <3>3. folder'[NewFolder].at # None =>
             left["createFolder"] = 0 /\ call'["createFolder"].st # "sent"
      <4>1. CASE h = "createFolder"
        BY <3>1, <4>1 DEF CountInv
      <4>2. CASE h # "createFolder"
        <5>1. /\ call[h].kind \in Kind \ {"createFolder"} /\ About(call[h].kind, call[h].id)
          BY <3>1, <4>2 DEF TypeInv, CallsOK, CallTyped, HookOf
        <5>2. folder[NewFolder].at = None => folder'[NewFolder].at = None
          <6>1. CASE Accepted(call[h]) /\ call[h].kind = "moveFolder"
            BY <2>0, <3>1, <5>1, <6>1 DEF Accepted, FoldersAfter, About, FolderKind
          <6>2. CASE Accepted(call[h]) /\ call[h].kind = "renameFolder"
            <7>1. folder' = [folder EXCEPT ![call[h].id].renamed = TRUE]
              BY <3>1, <6>2 DEF FoldersAfter
            <7> QED
              BY <2>0, <7>1 DEF FolderRow
          <6>3. CASE Accepted(call[h]) /\ call[h].kind = "deleteFolder"
            BY <2>0, <3>1, <6>3 DEF FoldersAfter, FolderRow
          <6>4. CASE Accepted(call[h]) /\ call[h].kind \in FileKind
            BY <3>1, <6>4 DEF FoldersAfter, FileKind
          <6> QED
            BY <3>1, <5>1, <6>1, <6>2, <6>3, <6>4 DEF Kind, FileKind, rows
        <5> QED
          BY <2>0, <3>1, <4>2, <5>2 DEF CountInv
      <4> QED
        BY <4>1, <4>2
    <3>4. call'["createFolder"].st # "idle" => left["createFolder"] = 0
      BY <2>0, <3>1 DEF CountInv
    <3> QED
      BY <3>1, <3>2, <3>3, <3>4 DEF CountInv
  <2>7. ASSUME UNCHANGED <<folder, left, upload>>, file'[NewFile].row = file[NewFile].row,
               call'["createFolder"] = call["createFolder"]
        PROVE  CountInv'
    BY <2>7 DEF CountInv
  <2>8. CASE CompleteVersion
    <3>1. /\ UNCHANGED <<folder, left, upload>>
          /\ file' = file \/ file' = [file EXCEPT ![NewVersion].status = "processing"]
          /\ call'["createFolder"] = call["createFolder"]
      BY <2>0, <2>8 DEF CompleteVersion
    <3>2. file'[NewFile].row = file[NewFile].row
      BY <2>0, <3>1 DEF FileRow
    <3> QED
      BY <2>7, <3>1, <3>2
  <2>9. ASSUME NEW f \in File, Process(f) PROVE CountInv'
    <3>1. file'[NewFile].row = file[NewFile].row
      BY <2>0, <2>9 DEF Process, FileRow
    <3> QED
      BY <2>7, <2>9, <3>1 DEF Process
  <2>10. CASE StartUpload
    <3>1. upload.st = "none" /\ upload'.st = "sending" /\ upload'.stored = FALSE
          /\ UNCHANGED <<rows, call>> /\ Spend("upload")
      BY <2>10 DEF StartUpload, Started, NoUpload
    <3> QED
      BY <2>0, <2>a, <3>1 DEF CountInv, rows
  <2>11. CASE UploadSucceeds \/ RefetchTimer
    <3>1. /\ upload'.stored = upload.stored
          /\ upload'.st # "sent" => upload.st # "sent"
      BY <2>11 DEF UploadSucceeds, RefetchTimer, TypeInv, UploadOK
    <3>2. UNCHANGED <<rows, call, left>>
      BY <2>11 DEF UploadSucceeds, RefetchTimer
    <3> QED
      BY <3>1, <3>2 DEF CountInv, rows
  <2>12. CASE FinishTusUpload
    <3>1. upload'.stored /\ upload'.st = "sent" /\ UNCHANGED <<folder, call, left>>
      BY <2>12 DEF FinishTusUpload, TypeInv, UploadOK
    <3> QED
      BY <3>1 DEF CountInv
  <2>13. CASE UNCHANGED vars
    BY <2>13 DEF vars, rows, CountInv
  <2> QED
    BY <2>2, <2>3, <2>4, <2>5, <2>6, <2>8, <2>9, <2>10, <2>11, <2>12, <2>13 DEF Next, UserNext
<1> QED
  BY <1>1, <1>2, TypeInvariant, PTL DEF Spec

-----------------------------------------------------------------------------
(* The page of a calm user, as long as no request is lost.                 *)

Quiet == calm /\ left["net"] = Budget["net"]

\* Every list in view is loaded.
Ready == \A k \in Active(at) : cache[k].loaded

Begun ==
    /\ \A k \in Active(at) : cache[k].loaded \/ InFlight(k)
    /\ at # Root => cache[<<"folders", Root>>].loaded

DialogReady == dialog.kind \notin {"none", "createFolder"} => Ready

CallsReady == \A h \in Hook : call[h].st # "idle" => Ready /\ call[h].kind \in Starts(dialog.kind)

UploadReady ==
    /\ upload.st # "none" => cache[<<"files", upload.at>>].loaded
    /\ upload.st = "sent" /\ ~upload.stored => upload.again > 0
    /\ upload.again > 0 => upload.st = "sent"

VersionWaits ==
    call["version"].st \in {"put", "complete"} =>
        file[NewVersion].row # "none" /\ file[NewVersion].status = "pending"

\* What has been read of a list, and will be shown, is what is stored ...
Fresh(k) ==
    /\ fetch[k].st = "answered" => NamesOf(fetch[k].list) = NamesOf(Listed(k))
    /\ cache[k].loaded /\ ~InFlight(k) => NamesOf(cache[k].list) = NamesOf(Listed(k))

\* ... or it will be invalidated.
Pending(k) ==
    \/ \E h \in Hook : call[h].st \in {"put", "complete", "ok"} /\ k \in Invalidates(call[h])
    \/ upload.st = "sent" /\ upload.again > 0 /\ k = <<"files", upload.at>>

UpToDate == \A k \in Active(at) : Fresh(k) \/ Pending(k)

ViewInv ==
    Quiet => Begun /\ DialogReady /\ CallsReady /\ UploadReady /\ VersionWaits /\ UpToDate

LEMMA QuietBefore ==
    ASSUME TypeInv, CountInv, calm' = calm, Quiet',
           left' = left \/ \E event \in Event : Spend(event)
    PROVE  Quiet /\ ~Spend("net")
<1>1. /\ "net" \in Event /\ left \in [Event -> Nat] /\ Budget \in [Event -> Nat]
      /\ left["net"] <= Budget["net"]
  BY ListingAssumption DEF TypeInv, RestOK, Event, CountInv
<1>2. left' \in [Event -> Nat] /\ left'["net"] <= left["net"]
  BY <1>1, SpendTyped
<1>3. ~Spend("net")
  BY <1>1, SpendTyped DEF Quiet
<1> QED
  BY <1>1, <1>2, <1>3 DEF Quiet

LEMMA StaysFresh ==
    ASSUME NEW k, Fresh(k), NamesOf(Listed(k))' = NamesOf(Listed(k)),
           fetch'[k] \in {fetch[k], Requested}, cache' = cache
    PROVE  Fresh(k)'
<1>1. CASE fetch'[k] = Requested
  BY <1>1, Starters DEF Fresh, InFlight
<1>2. CASE fetch'[k] = fetch[k]
  BY <1>2 DEF Fresh, InFlight
<1> QED
  BY <1>1, <1>2

LEMMA ListedStays == ASSUME UNCHANGED rows, NEW k PROVE Listed(k)' = Listed(k)
  BY DEF Listed, rows

\* A step of the queries.
LEMMA QueryStep ==
    ASSUME TypeInv, ViewInv, Quiet, UNCHANGED <<rows, at, dialog, call, upload, calm>>,
           \A k \in Key : cache[k].loaded => cache'[k].loaded,
           \A k \in Active(at) : cache'[k].loaded \/ InFlight(k)',
           \A k \in Active(at) : Fresh(k) => Fresh(k)'
    PROVE  ViewInv'
<1>1. /\ Begun /\ DialogReady /\ CallsReady /\ UploadReady /\ VersionWaits /\ UpToDate
      /\ at \in Loc /\ (upload.st # "none" => upload.at \in Loc)
  BY DEF ViewInv, TypeInv, RestOK, UploadOK
<1>2. Ready => Ready'
  BY <1>1, Keys DEF Ready, Active
<1>3. Begun' /\ DialogReady' /\ CallsReady'
  BY <1>1, <1>2, Keys DEF Begun, DialogReady, CallsReady, Active
<1>4. UploadReady' /\ VersionWaits'
  BY <1>1, Keys DEF UploadReady, VersionWaits, rows
<1>5. UpToDate'
  BY <1>1 DEF UpToDate, Pending, Active
<1> QED
  BY <1>3, <1>4, <1>5 DEF ViewInv

LEMMA LoadedAtRest ==
    ASSUME TypeInv, ViewInv, Quiet, ~Loading(at)
    PROVE  Ready
<1>1. at \in Loc /\ Begun
  BY DEF TypeInv, RestOK, ViewInv
<1>2. cache[<<"files", at>>].loaded /\ cache[<<"folders", at>>].loaded
  BY <1>1 DEF Loading, Begun, Active
<1> QED
  BY <1>1, <1>2 DEF Ready, Begun, Active

\* A list is asked for again when it is invalidated and in view.
LEMMA AskedAgain ==
    ASSUME TypeInv, ViewInv, Quiet, NEW keys, UNCHANGED <<rows, at, cache>>,
           fetch' = Invalidated(keys)
    PROVE  /\ \A k \in Active(at) : Fresh(k) => Fresh(k)'
           /\ \A k \in Active(at) : cache'[k].loaded \/ InFlight(k)'
           /\ \A k \in Active(at) \cap keys : cache[k].loaded => Fresh(k)'
<1>1. Active(at) \subseteq Key /\ Begun
  BY Keys DEF TypeInv, RestOK, ViewInv
<1>2. \A k \in Active(at) : /\ fetch'[k] \in {fetch[k], Requested}
                            /\ k \in keys /\ cache[k].loaded => fetch'[k] = Requested
  BY <1>1 DEF Invalidated
<1>3. \A k \in Active(at) : Fresh(k) => Fresh(k)'
  BY <1>2, StaysFresh, ListedStays DEF NamesOf
<1>4. \A k \in Active(at) : fetch'[k] = Requested => Fresh(k)' /\ InFlight(k)'
  BY <1>2, Starters DEF Fresh, InFlight
<1> QED
  BY <1>1, <1>2, <1>3, <1>4 DEF Begun, InFlight

-----------------------------------------------------------------------------
LEMMA QuietStep ==
    ASSUME TypeInv, CountInv, [Next]_vars, Quiet'
    PROVE  Quiet /\ ~Spend("net")
<1>0. {"net", "focus", "upload"} \subseteq Event
  BY DEF Event
<1>1. CASE Submit
  <2>1. PICK kind \in Starts(dialog.kind) : Spend(kind)
    BY <1>1 DEF Submit
  <2>2. kind \in Event /\ calm' = calm
    <3>1. dialog.kind \in Kind \cup {"versions"}
      BY <1>1 DEF Submit, TypeInv, DialogOK
    <3> QED
      BY <1>1, <3>1, Keys DEF Submit, Starts, Kind
  <2> QED
    BY <2>1, <2>2, QuietBefore
<1>2. CASE UserNext /\ ~Submit
  BY <1>0, <1>2, QuietBefore DEF UserNext, Focus, Navigate, OpenDialog, CloseDialog, StartUpload
<1>3. CASE \/ Poll \/ PutVersion \/ CompleteVersion
           \/ \E k \in Key : Answer(k) \/ Receive(k) \/ FetchFails(k)
  BY <1>0, <1>3, QuietBefore DEF Poll, PutVersion, CompleteVersion, Answer, Receive, FetchFails
<1>4. CASE \E h \in Hook : Serve(h) \/ Succeed(h) \/ Fail(h)
  BY <1>0, <1>4, QuietBefore DEF Serve, Succeed, Fail
<1>5. CASE \/ UploadSucceeds \/ FinishTusUpload \/ RefetchTimer
           \/ \E f \in File : Process(f)
  BY <1>5, QuietBefore DEF UploadSucceeds, FinishTusUpload, RefetchTimer, Process
<1>6. CASE UNCHANGED vars
  BY <1>6, QuietBefore DEF vars
<1> QED
  BY <1>1, <1>2, <1>3, <1>4, <1>5, <1>6 DEF Next

\* Nobody's call is in flight while no dialog is open.
LEMMA NoCallWithoutDialog ==
    ASSUME TypeInv, ViewInv, Quiet, dialog = NoDialog
    PROVE  \A h \in Hook : call[h].st = "idle"
  BY DEF ViewInv, CallsReady, TypeInv, CallsOK, CallTyped, NoDialog, Starts, Kind

\* The queries.
LEMMA ViewOfQueries ==
    ASSUME TypeInv, ViewInv, Quiet, ~Spend("net"),
           Poll \/ Focus \/ \E k \in Key : Answer(k) \/ Receive(k) \/ FetchFails(k)
    PROVE  ViewInv'
<1>0. /\ Begun /\ at \in Loc /\ Active(at) \subseteq Key /\ <<"files", at>> \in Key
      /\ fetch \in [Key -> [st: {"none", "sent", "answered"}, list: SUBSET Entry]]
      /\ cache \in [Key -> [loaded: BOOLEAN, list: SUBSET Entry]]
  BY Keys DEF ViewInv, TypeInv, RestOK, QueriesOK
<1>1. ASSUME UNCHANGED <<rows, at, cache, dialog, call, upload, calm>>,
             \A k \in Key : fetch'[k] \in {fetch[k], Requested}
      PROVE  ViewInv'
  <2>1. \A k \in Active(at) : Fresh(k) => Fresh(k)'
    <3> SUFFICES ASSUME NEW k \in Active(at), Fresh(k) PROVE Fresh(k)'
      OBVIOUS
    <3>1. Listed(k)' = Listed(k)
      BY <1>1, ListedStays
    <3>2. NamesOf(Listed(k))' = NamesOf(Listed(k))
      BY <3>1 DEF NamesOf
    <3> QED
      BY <1>0, <1>1, <3>2, StaysFresh
  <2>2. \A k \in Active(at) : cache'[k].loaded \/ InFlight(k)'
    BY <1>0, <1>1, Starters DEF Begun, InFlight
  <2> QED
    BY <1>1, <2>1, <2>2, QueryStep
<1>2. CASE Poll
  BY <1>0, <1>1, <1>2 DEF Poll
<1>3. CASE Focus
  BY <1>0, <1>1, <1>3 DEF Focus
<1>4. ASSUME NEW q \in Key, Answer(q) PROVE ViewInv'
  <2>1. /\ fetch[q].st = "sent" /\ UNCHANGED <<rows, at, cache, dialog, call, upload, calm>>
        /\ fetch'[q].st = "answered" /\ fetch'[q].list = Listed(q)
        /\ \A k \in Key \ {q} : fetch'[k] = fetch[k]
    BY <1>0, <1>4 DEF Answer
  <2>2. \A k \in Key : NamesOf(Listed(k))' = NamesOf(Listed(k)) /\ Listed(k)' = Listed(k)
    BY <2>1, ListedStays DEF NamesOf
  <2>3. \A k \in Active(at) : Fresh(k) => Fresh(k)'
    BY <1>0, <2>1, <2>2 DEF Fresh, InFlight, NamesOf
  <2>4. \A k \in Active(at) : cache'[k].loaded \/ InFlight(k)'
    BY <1>0, <2>1 DEF Begun, InFlight
  <2> QED
    BY <2>1, <2>3, <2>4, QueryStep
<1>5. ASSUME NEW q \in Key, Receive(q) PROVE ViewInv'
  <2>1. /\ fetch[q].st = "answered" /\ UNCHANGED <<rows, at, dialog, call, upload, calm>>
        /\ fetch'[q] = NoFetch /\ cache'[q].loaded /\ cache'[q].list = fetch[q].list
        /\ \A k \in Key \ {q} : fetch'[k] = fetch[k] /\ cache'[k] = cache[k]
    BY <1>0, <1>5 DEF Receive
  <2>2. \A k \in Key : NamesOf(Listed(k))' = NamesOf(Listed(k))
    BY <2>1, ListedStays DEF NamesOf
  <2>3. \A k \in Active(at) : Fresh(k) => Fresh(k)'
    BY <1>0, <2>1, <2>2, Starters DEF Fresh, InFlight, NamesOf
  <2>4. \A k \in Active(at) : cache'[k].loaded \/ InFlight(k)'
    BY <1>0, <2>1 DEF Begun, InFlight
  <2>5. \A k \in Key : cache[k].loaded => cache'[k].loaded
    BY <2>1
  <2> QED
    BY <2>1, <2>3, <2>4, <2>5, QueryStep
<1> QED
  BY <1>2, <1>3, <1>4, <1>5 DEF FetchFails

\* Another folder is shown.
LEMMA ViewOfNavigate ==
    ASSUME TypeInv, TypeInv', ViewInv, Quiet, Navigate
    PROVE  ViewInv'
<1>1. /\ Begun /\ UploadReady /\ VersionWaits /\ UpToDate
      /\ at \in Loc /\ at' \in Loc /\ (upload.st # "none" => upload.at \in Loc)
      /\ fetch \in [Key -> [st: {"none", "sent", "answered"}, list: SUBSET Entry]]
  BY DEF ViewInv, TypeInv, RestOK, UploadOK, QueriesOK
<1>2. /\ \A k \in Key, h \in Hook : ~InFlight(k) /\ call[h].st = "idle"
      /\ dialog = NoDialog /\ UNCHANGED <<rows, cache, dialog, call, upload, calm, left>>
      /\ fetch' = [k \in Key |-> IF k \in Active(at') \ Active(at) /\ ~InFlight(k)
                                 THEN Requested ELSE fetch[k]]
    BY DEF Navigate, Quiet
<1>3. Active(at) \subseteq Key /\ Active(at') \subseteq Key /\ "restore" \in Hook
  BY <1>1, Keys DEF Hook
<1>4. \A k \in Active(at) : cache[k].loaded
  BY <1>1, <1>2, <1>3 DEF Begun
<1>5. \A k \in Active(at') : IF k \in Active(at) THEN fetch'[k] = fetch[k] ELSE fetch'[k] = Requested
  BY <1>2, <1>3
<1>6. Begun'
  <2>1. \A k \in Active(at') : cache'[k].loaded \/ InFlight(k)'
    BY <1>2, <1>4, <1>5, Starters DEF InFlight
  <2>2. cache'[<<"folders", Root>>].loaded
    BY <1>2, <1>4 DEF Active
  <2> QED
    BY <2>1, <2>2 DEF Begun, Active
<1>7. DialogReady' /\ CallsReady'
  <2>1. \A h \in Hook : call[h].st = "idle"
    BY <1>2, Keys
  <2> QED
    BY <1>2, <2>1 DEF DialogReady, CallsReady, NoDialog
<1>8. UploadReady' /\ VersionWaits'
  BY <1>1, <1>2 DEF UploadReady, VersionWaits, rows
<1>9. UpToDate'
  <2> SUFFICES ASSUME NEW k \in Active(at') PROVE Fresh(k)' \/ Pending(k)'
    BY DEF UpToDate, Active
  <2>1. CASE k \notin Active(at)
    BY <1>5, <2>1, Starters DEF Fresh, InFlight
  <2>2. CASE k \in Active(at)
    <3>1. Fresh(k) \/ Pending(k)
      BY <1>1, <2>2 DEF UpToDate
    <3>2. NamesOf(Listed(k))' = NamesOf(Listed(k))
      BY <1>2, ListedStays DEF NamesOf
    <3>3. Fresh(k) => Fresh(k)'
      BY <1>2, <1>5, <2>2, <3>2, StaysFresh
    <3>4. Pending(k) => Pending(k)'
      BY <1>2 DEF Pending
    <3> QED
      BY <3>1, <3>3, <3>4
  <2> QED
    BY <2>1, <2>2
<1> QED
  BY <1>6, <1>7, <1>8, <1>9 DEF ViewInv

\* The dialogs, and the calls they start.
LEMMA ViewOfDialogs ==
    ASSUME TypeInv, TypeInv', ViewInv, Quiet, OpenDialog \/ CloseDialog \/ Submit
    PROVE  ViewInv'
<1>0. /\ Begun /\ DialogReady /\ CallsReady /\ UploadReady /\ VersionWaits /\ UpToDate
      /\ at \in Loc
      /\ call \in [Hook -> MutationCall]
  BY DEF ViewInv, TypeInv, RestOK, CallsOK
<1>1. ASSUME UNCHANGED <<rows, at, query, upload, calm>>,
             \A h \in Hook : \/ call'[h] = call[h]
                             \/ call[h].st = "idle" /\ call'[h].st = "sent",
             DialogReady', CallsReady'
      PROVE  ViewInv'
  <2>1. Begun' /\ UploadReady' /\ VersionWaits'
    BY <1>0, <1>1 DEF Begun, UploadReady, VersionWaits, rows, query, InFlight, Active, Hook
  <2>2. ASSUME NEW k \in Active(at) PROVE Fresh(k)' \/ Pending(k)'
    <3>1. Fresh(k) \/ Pending(k)
      BY <1>0, <2>2 DEF UpToDate
    <3>2. NamesOf(Listed(k))' = NamesOf(Listed(k))
      BY <1>1, ListedStays DEF NamesOf
    <3>3. Fresh(k) => Fresh(k)'
      BY <1>1, <3>2, StaysFresh DEF query
    <3>4. ASSUME NEW h \in Hook, call[h].st \in {"put", "complete", "ok"}, k \in Invalidates(call[h])
          PROVE  Pending(k)'
      <4>1. call'[h] = call[h]
        BY <1>1, <3>4
      <4>2. Invalidates(call[h])' = Invalidates(call[h])
        BY <4>1 DEF Invalidates
      <4> QED
        BY <3>4, <4>1, <4>2 DEF Pending
    <3>5. Pending(k) => Pending(k)'
      BY <1>1, <3>4 DEF Pending
    <3> QED
      BY <3>1, <3>3, <3>5
  <2>3. UpToDate'
    BY <1>1, <2>2 DEF UpToDate, Active
  <2> QED
    BY <1>1, <2>1, <2>3 DEF ViewInv
<1>2. Ready /\ UNCHANGED <<at, query>> => Ready'
  BY DEF Ready, Active, query
<1>3. CASE OpenDialog
  <2>1. PICK kind \in Kind \cup {"versions"}, id \in File \cup Folder \cup {None} :
           Offered(kind, id) /\ dialog' = [kind |-> kind, id |-> id]
    BY <1>3 DEF OpenDialog
  <2>2. dialog = NoDialog /\ UNCHANGED <<rows, at, query, call, upload, calm>>
    BY <1>3 DEF OpenDialog
  <2>3. DialogReady'
    <3>1. kind # "createFolder" => Ready
      BY <2>1, LoadedAtRest DEF Offered
    <3> QED
      BY <1>2, <2>1, <2>2, <3>1 DEF DialogReady
  <2>4. CallsReady'
    BY <2>2, NoCallWithoutDialog DEF CallsReady
  <2> QED
    BY <1>1, <2>2, <2>3, <2>4
<1>4. CASE CloseDialog
  <2>1. /\ \A h \in Hook : call[h].st = "idle"
        /\ dialog' = NoDialog /\ UNCHANGED <<rows, at, query, call, upload, calm>>
    BY <1>4 DEF CloseDialog, Quiet
  <2>2. DialogReady' /\ CallsReady'
    BY <2>1 DEF DialogReady, CallsReady, NoDialog
  <2> QED
    BY <1>1, <2>1, <2>2
<1>5. CASE Submit
  <2>1. PICK kind \in Starts(dialog.kind) :
           /\ call[HookOf(kind)].st = "idle"
           /\ (calm /\ kind = "createFolder") => ~Loading(at)
           /\ \E id \in Subjects(kind),
                 to \in IF kind = "moveFolder" THEN MoveTargets(dialog.id) ELSE {at} :
                 call' = [call EXCEPT ![HookOf(kind)] =
                            [st |-> "sent", kind |-> kind, id |-> id, to |-> to]]
    BY <1>5 DEF Submit
  <2>2. dialog # NoDialog /\ UNCHANGED <<rows, at, query, dialog, upload, calm>>
    BY <1>5 DEF Submit
  <2>3. dialog.kind # "none" /\ (dialog.kind = "createFolder" => kind = "createFolder")
    BY <2>1, <2>2 DEF TypeInv, DialogOK, Starts
  <2>4. Ready
    <3>1. CASE kind = "createFolder"
      BY <2>1, <3>1, LoadedAtRest DEF Quiet
    <3>2. CASE kind # "createFolder"
      BY <1>0, <2>3, <3>2 DEF DialogReady
    <3> QED
      BY <3>1, <3>2
  <2>5. Ready'
    BY <1>2, <2>2, <2>4
  <2>6. \A h \in Hook : IF h = HookOf(kind) THEN call'[h].st = "sent" /\ call'[h].kind = kind
                        ELSE call'[h] = call[h]
    BY <1>0, <2>1
  <2>7. CallsReady'
    BY <1>0, <2>1, <2>2, <2>5, <2>6 DEF CallsReady
  <2>8. DialogReady'
    BY <2>5 DEF DialogReady
  <2> QED
    BY <1>1, <2>1, <2>2, <2>6, <2>7, <2>8
<1> QED
  BY <1>3, <1>4, <1>5

-----------------------------------------------------------------------------
\* What a call invalidates is known from when it is made.
LEMMA SameInvalidated ==
    ASSUME NEW h \in Hook, call'[h].kind = call[h].kind, call'[h].to = call[h].to
    PROVE  Invalidates(call'[h]) = Invalidates(call[h])
  BY DEF Invalidates

\* A call goes on.
LEMMA ViewOfServer ==
    ASSUME TypeInv, CountInv, ViewInv, Quiet,
           PutVersion \/ CompleteVersion \/ \E h \in Hook : Serve(h)
    PROVE  ViewInv'
<1>0. /\ Begun /\ DialogReady /\ CallsReady /\ UploadReady /\ VersionWaits /\ UpToDate
      /\ call \in [Hook -> MutationCall] /\ "version" \in Hook /\ Active(at) \subseteq Key
      /\ file \in [File -> FileRow]
      /\ \A h \in Hook : CallTyped(h)
      /\ NewVersion \in File
  BY ListingAssumption, Keys DEF ViewInv, TypeInv, RestOK, CallsOK, RowsOK, Hook
<1>1. ASSUME NEW h \in Hook, call[h].st # "idle", NEW st \in {"no", "put", "complete", "ok"},
             call' = [call EXCEPT ![h].st = st],
             UNCHANGED <<at, query, dialog, upload, calm>>,
             VersionWaits',
             call[h].st \in {"put", "complete", "ok"} => st \in {"put", "complete", "ok"},
             \A k \in Active(at) : \/ NamesOf(Listed(k))' = NamesOf(Listed(k))
                                   \/ st # "no" /\ k \in Invalidates(call[h])
      PROVE  ViewInv'
  <2>1. /\ call'[h].st = st /\ call'[h].kind = call[h].kind /\ call'[h].to = call[h].to
        /\ \A g \in Hook \ {h} : call'[g] = call[g]
    BY <1>0, <1>1 DEF MutationCall
  <2>2. Begun' /\ DialogReady' /\ UploadReady'
    BY <1>0, <1>1 DEF Begun, DialogReady, UploadReady, Ready, query, InFlight, Active
  <2>3. Ready => Ready'
    BY <1>1 DEF Ready, Active, query
  <2>4. CallsReady'
    BY <1>0, <1>1, <2>1, <2>3 DEF CallsReady
  <2>5. ASSUME NEW k \in Active(at) PROVE Fresh(k)' \/ Pending(k)'
    <3>1. \A g \in Hook : Invalidates(call'[g]) = Invalidates(call[g])
      BY <2>1, SameInvalidated
    <3>2. CASE st # "no" /\ k \in Invalidates(call[h])
      BY <1>1, <2>1, <3>1, <3>2 DEF Pending
    <3>3. CASE NamesOf(Listed(k))' = NamesOf(Listed(k))
      <4>1. Fresh(k) => Fresh(k)'
        BY <1>1, <3>3, StaysFresh DEF query
      <4>2. Pending(k) => Pending(k)'
        BY <1>1, <2>1, <3>1 DEF Pending
      <4> QED
        BY <1>0, <2>5, <4>1, <4>2 DEF UpToDate
    <3> QED
      BY <1>1, <2>5, <3>2, <3>3
  <2>6. UpToDate'
    BY <1>1, <2>5 DEF UpToDate, Active
  <2> QED
    BY <1>1, <2>2, <2>4, <2>6 DEF ViewInv
<1>2. CASE PutVersion
  <2>1. /\ call["version"].st = "put" /\ call' = [call EXCEPT !["version"].st = "complete"]
        /\ UNCHANGED <<rows, at, query, dialog, upload, calm>>
    BY <1>2 DEF PutVersion
  <2>2. VersionWaits'
    BY <1>0, <2>1 DEF VersionWaits, rows
  <2>3. \A k \in Active(at) : NamesOf(Listed(k))' = NamesOf(Listed(k))
    BY <2>1, ListedStays DEF NamesOf
  <2> QED
    BY <1>0, <1>1, <2>1, <2>2, <2>3
<1>3. CASE CompleteVersion
  <2>1. /\ call["version"].st = "complete" /\ call' = [call EXCEPT !["version"].st = "ok"]
        /\ file' = [file EXCEPT ![NewVersion].status = "processing"]
        /\ UNCHANGED <<folder, at, query, dialog, upload, calm>>
    BY <1>0, <1>3 DEF CompleteVersion, VersionWaits
  <2>2. call'["version"].st = "ok"
    BY <1>0, <2>1 DEF MutationCall
  <2>3. VersionWaits'
    BY <2>2 DEF VersionWaits
  <2>4. \A f \in File : /\ file'[f].row = file[f].row /\ file'[f].at = file[f].at
                        /\ file'[f].renamed = file[f].renamed
    BY <1>0, <2>1 DEF FileRow
  <2>5. \A k \in Active(at) : NamesOf(Listed(k))' = NamesOf(Listed(k))
    BY <1>0, <2>1, <2>4, SameColumns
  <2> QED
    BY <1>0, <1>1, <2>1, <2>3, <2>5
<1>4. ASSUME NEW h \in Hook, Serve(h) PROVE ViewInv'
  <2> DEFINE st == IF ~Accepted(call[h]) THEN "no" ELSE IF h = "version" THEN "put" ELSE "ok"
  <2>1. /\ call[h].st = "sent" /\ UNCHANGED <<at, query, dialog, upload, calm>>
        /\ call' = [call EXCEPT ![h].st = st] /\ st \in {"no", "put", "complete", "ok"}
        /\ IF Accepted(call[h])
           THEN folder' = FoldersAfter(call[h]) /\ file' = FilesAfter(call[h])
           ELSE UNCHANGED rows
        /\ st = "no" <=> ~Accepted(call[h])
    BY <1>4 DEF Serve
  <2>2. /\ call[h].kind \in Kind /\ HookOf(call[h].kind) = h /\ About(call[h].kind, call[h].id)
        /\ call[h].kind \in Starts(dialog.kind)
    BY <1>0, <2>1 DEF CallTyped, CallsReady
  <2>3. \A k \in Active(at) : \/ NamesOf(Listed(k))' = NamesOf(Listed(k))
                              \/ st # "no" /\ k \in Invalidates(call[h])
    <3> SUFFICES ASSUME NEW k \in Active(at), ~(st # "no" /\ k \in Invalidates(call[h]))
                 PROVE  NamesOf(Listed(k))' = NamesOf(Listed(k))
      OBVIOUS
    <3>1. CASE Accepted(call[h])
      BY <1>0, <2>1, <3>1, InvalidatesEnough
    <3>2. CASE ~Accepted(call[h])
      BY <2>1, <3>2, ListedStays DEF NamesOf
    <3> QED
      BY <3>1, <3>2
  <2>4. VersionWaits'
    <3>1. /\ call'[h].st = st /\ \A g \in Hook \ {h} : call'[g] = call[g]
      BY <1>0, <2>1 DEF MutationCall
    <3>2. CASE ~Accepted(call[h])
      BY <1>0, <2>1, <3>1, <3>2 DEF VersionWaits, rows
    <3>3. CASE Accepted(call[h]) /\ h = "version"
      <4>1. call[h].kind = "version"
        BY <2>2, <3>3 DEF HookOf, Kind
      <4>2. /\ call[h].id \in File /\ call[h].id # NewFile /\ file[call[h].id].row # "none"
        BY <2>2, <3>3, <4>1 DEF Accepted, About, FileKind
      <4>3. PICK g \in File \ {NewFile} : g = CurrentOf(call[h].id)
        BY <4>2, CurrentIsThere
      <4> DEFINE new == [file[g] EXCEPT !.row = "current", !.status = "pending"]
                 old == [Removed({}) EXCEPT ![g].row = "old"]
      <4>4. new.row = "current" /\ new.status = "pending"
        BY <1>0 DEF FileRow
      <4>5. old = [f \in File |-> old[f]]
        BY DEF Removed
      <4>6. file' = [old EXCEPT ![NewVersion] = new]
        BY <2>1, <3>3, <4>1, <4>3 DEF FilesAfter
      <4> HIDE DEF new, old
      <4>7. file'[NewVersion] = new
        BY <1>0, <4>5, <4>6
      <4> QED
        BY <4>4, <4>7 DEF VersionWaits
    <3>4. CASE Accepted(call[h]) /\ h # "version"
      <4> SUFFICES ASSUME call["version"].st \in {"put", "complete"}
                   PROVE  file'[NewVersion].row # "none" /\ file'[NewVersion].status = "pending"
        BY <1>0, <3>1, <3>4 DEF VersionWaits
      <4>1. file[NewVersion].row # "none" /\ file[NewVersion].status = "pending"
        BY <1>0 DEF VersionWaits
      <4>2. call["version"].kind = "version" /\ call["version"].kind \in Starts(dialog.kind)
        BY <1>0 DEF CallTyped, CallsReady, HookOf, Kind
      <4>3. call[h].kind = "restore"
        BY <2>2, <3>4, <4>2 DEF Starts, HookOf
      <4>4. file' = Promoted(call[h].id)
        BY <2>1, <3>4, <4>3 DEF FilesAfter
      <4> QED
        BY <1>0, <4>1, <4>4 DEF Promoted, FileRow
    <3> QED
      BY <3>2, <3>3, <3>4
  <2> HIDE DEF st
  <2> QED
    BY <1>1, <2>1, <2>3, <2>4
<1> QED
  BY <1>2, <1>3, <1>4

\* A call ends.
LEMMA ViewOfEnds ==
    ASSUME TypeInv, TypeInv', ViewInv, Quiet, ~Spend("net"),
           NEW h \in Hook, Succeed(h) \/ Fail(h)
    PROVE  ViewInv'
<1>0. /\ Begun /\ DialogReady /\ CallsReady /\ UploadReady /\ VersionWaits /\ UpToDate
      /\ call \in [Hook -> MutationCall] /\ Active(at) \subseteq Key /\ CallTyped(h)
      /\ \A g \in Hook : CallTyped(g)
  BY Keys DEF ViewInv, TypeInv, RestOK, CallsOK
<1>1. /\ call[h].st \in {"ok", "no"} /\ UNCHANGED <<rows, at, cache, upload, calm>>
      /\ call'[h].st = "idle" /\ \A g \in Hook \ {h} : call'[g] = call[g]
  BY <1>0 DEF Succeed, Fail, NoCall, query
<1>2. Ready /\ Ready' /\ call[h].kind \in Starts(dialog.kind) /\ HookOf(call[h].kind) = h
      /\ call[h].kind \in Kind
  BY <1>0, <1>1 DEF CallsReady, Ready, Active, CallTyped
<1>3. DialogReady' /\ VersionWaits'
  <2>1. "version" \in Hook
    BY DEF Hook
  <2> QED
    BY <1>0, <1>1, <1>2, <2>1 DEF DialogReady, VersionWaits, rows
<1>4. UploadReady'
  BY <1>0, <1>1 DEF UploadReady
<1>5. CallsReady'
  <2>1. CASE dialog' = dialog
    BY <1>0, <1>1, <1>2, <2>1 DEF CallsReady
  <2>2. CASE dialog' # dialog
    <3>1. dialog.kind = call[h].kind
      BY <2>2 DEF Succeed, Fail, Closes
    <3>2. Starts(dialog.kind) = {call[h].kind}
      BY <1>2, <3>1 DEF Starts, Kind
    <3>3. \A g \in Hook : call[g].st # "idle" => g = h
      BY <1>0, <1>2, <3>2 DEF CallsReady, CallTyped
    <3> QED
      BY <1>1, <3>3 DEF CallsReady
  <2> QED
    BY <2>1, <2>2
<1>6. Begun'
  BY <1>1, <1>2 DEF Begun, Ready, Active
<1>7. ASSUME NEW k \in Active(at) PROVE Fresh(k)' \/ Pending(k)'
  <2>1. Fresh(k) \/ Pending(k)
    BY <1>0, <1>7 DEF UpToDate
  <2>2. Fresh(k) => Fresh(k)'
    <3>1. CASE Succeed(h)
      <4>1. fetch' = Invalidated(Invalidates(call[h]))
        BY <3>1 DEF Succeed
      <4> QED
        BY <1>1, <1>7, <4>1, AskedAgain
    <3>2. CASE Fail(h)
      <4>1. UNCHANGED <<fetch, cache>>
        BY <3>2 DEF Fail, query
      <4>2. NamesOf(Listed(k))' = NamesOf(Listed(k))
        BY <1>1, ListedStays DEF NamesOf
      <4> QED
        BY <4>1, <4>2, StaysFresh
    <3> QED
      BY <3>1, <3>2
  <2>3. ASSUME call[h].st = "ok", k \in Invalidates(call[h]) PROVE Fresh(k)'
    <3>1. fetch' = Invalidated(Invalidates(call[h]))
      BY <2>3 DEF Succeed, Fail
    <3>2. cache[k].loaded
      BY <1>2, <1>7 DEF Ready
    <3> QED
      BY <1>1, <1>7, <2>3, <3>1, <3>2, AskedAgain
  <2>4. ASSUME NEW g \in Hook \ {h}, call[g].st \in {"put", "complete", "ok"},
               k \in Invalidates(call[g])
        PROVE  Pending(k)'
    <3>1. call'[g] = call[g] /\ Invalidates(call'[g]) = Invalidates(call[g])
      BY <1>1, <2>4
    <3> QED
      BY <2>4, <3>1 DEF Pending
  <2>5. ASSUME upload.st = "sent", upload.again > 0, k = <<"files", upload.at>>
        PROVE  Pending(k)'
    BY <1>1, <2>5 DEF Pending
  <2> QED
    BY <1>1, <2>1, <2>2, <2>3, <2>4, <2>5 DEF Pending
<1>8. UpToDate'
  BY <1>1, <1>7 DEF UpToDate, Active
<1> QED
  BY <1>3, <1>4, <1>5, <1>6, <1>8 DEF ViewInv

\* The upload, and processing.
LEMMA ViewOfUpload ==
    ASSUME TypeInv, TypeInv', CountInv, ViewInv, Quiet,
           \/ StartUpload \/ UploadSucceeds \/ FinishTusUpload \/ RefetchTimer
           \/ \E f \in File : Process(f)
    PROVE  ViewInv'
<1>0. /\ Begun /\ DialogReady /\ CallsReady /\ UploadReady /\ VersionWaits /\ UpToDate
      /\ Active(at) \subseteq Key /\ at \in Loc /\ file \in [File -> FileRow]
      /\ upload.st # "none" => upload.at \in Loc
  BY Keys DEF ViewInv, TypeInv, RestOK, RowsOK, UploadOK
<1>1. ASSUME UNCHANGED <<at, cache, dialog, call, calm>>
      PROVE  /\ CallsReady' /\ DialogReady'
             /\ at # Root => cache'[<<"folders", Root>>].loaded
             /\ \A k : (\E h \in Hook : call[h].st \in {"put", "complete", "ok"} /\ k \in Invalidates(call[h]))
                          => Pending(k)'
  <2>1. Ready => Ready'
    BY <1>1 DEF Ready, Active
  <2>2. CallsReady' /\ DialogReady'
    BY <1>0, <1>1, <2>1 DEF CallsReady, DialogReady
  <2> QED
    BY <1>0, <1>1, <2>2 DEF Begun, Pending, Invalidates
<1>2. ASSUME UNCHANGED <<at, cache, fetch, dialog, call, calm>>, UploadReady', VersionWaits',
             \A k \in Active(at) : NamesOf(Listed(k))' = NamesOf(Listed(k)) \/ Pending(k)',
             upload.st = "sent" /\ upload.again > 0 => upload' = upload \/ upload' = [upload EXCEPT !.stored = TRUE]
      PROVE  ViewInv'
  <2>1. Begun' /\ CallsReady' /\ DialogReady'
    BY <1>0, <1>1, <1>2 DEF Begun, InFlight, Active
  <2>2. ASSUME NEW k \in Active(at) PROVE Fresh(k)' \/ Pending(k)'
    <3>1. CASE Pending(k)
      <4>1. CASE upload.st = "sent" /\ upload.again > 0 /\ k = <<"files", upload.at>>
        <5>1. upload'.st = upload.st /\ upload'.again = upload.again /\ upload'.at = upload.at
          BY <1>2, <4>1 DEF TypeInv, UploadOK
        <5> QED
          BY <4>1, <5>1 DEF Pending
      <4> QED
        BY <1>1, <1>2, <3>1, <4>1 DEF Pending
    <3>2. CASE Fresh(k) /\ NamesOf(Listed(k))' = NamesOf(Listed(k))
      BY <1>2, <3>2, StaysFresh
    <3> QED
      BY <1>0, <1>2, <2>2, <3>1, <3>2 DEF UpToDate
  <2>3. UpToDate'
    BY <1>2, <2>2 DEF UpToDate, Active
  <2> QED
    BY <1>2, <2>1, <2>3 DEF ViewInv
<1>3. ASSUME UNCHANGED <<rows, at, cache, dialog, call, calm>>, upload.st # "none",
             fetch' = Invalidated({<<"files", upload.at>>}), UploadReady'
      PROVE  ViewInv'
  <2>1. /\ \A k \in Active(at) : Fresh(k) => Fresh(k)'
        /\ \A k \in Active(at) : cache'[k].loaded \/ InFlight(k)'
        /\ \A k \in Active(at) \cap {<<"files", upload.at>>} : cache[k].loaded => Fresh(k)'
    BY <1>3, AskedAgain
  <2>2. Begun' /\ CallsReady' /\ DialogReady' /\ VersionWaits'
    BY <1>0, <1>1, <1>3, <2>1 DEF Begun, Active, VersionWaits, rows
  <2>3. ASSUME NEW k \in Active(at) PROVE Fresh(k)' \/ Pending(k)'
    <3>1. CASE k = <<"files", upload.at>>
      BY <1>0, <1>3, <2>1, <2>3, <3>1 DEF UploadReady
    <3>2. CASE k # <<"files", upload.at>>
      <4>1. Fresh(k) \/ Pending(k)
        BY <1>0, <2>3 DEF UpToDate
      <4> QED
        BY <1>1, <1>3, <2>1, <2>3, <3>2, <4>1 DEF Pending
    <3> QED
      BY <3>1, <3>2
  <2>4. UpToDate'
    BY <1>3, <2>3 DEF UpToDate, Active
  <2> QED
    BY <2>2, <2>4, <1>3 DEF ViewInv
<1>4. CASE StartUpload
  <2>1. /\ upload.st = "none" /\ upload'.st = "sending" /\ upload'.at = at /\ upload'.again = 0
        /\ UNCHANGED <<rows, at, cache, fetch, dialog, call, calm>> /\ ~Loading(at)
    BY <1>4 DEF StartUpload, Started, NoUpload, query, Quiet
  <2>2. cache[<<"files", at>>].loaded
    BY <2>1, LoadedAtRest DEF Ready, Active
  <2>3. UploadReady' /\ VersionWaits'
    BY <1>0, <2>1, <2>2 DEF UploadReady, VersionWaits, rows
  <2>4. \A k \in Active(at) : NamesOf(Listed(k))' = NamesOf(Listed(k))
    BY <2>1, ListedStays DEF NamesOf
  <2> QED
    BY <1>2, <2>1, <2>3, <2>4
<1>5. CASE UploadSucceeds
  <2>1. /\ upload.st = "sending" /\ upload'.st = "sent" /\ upload'.again > 0
        /\ upload'.at = upload.at
        /\ UNCHANGED <<rows, at, cache, dialog, call, calm>>
        /\ fetch' = Invalidated({<<"files", upload.at>>})
    BY <1>5 DEF UploadSucceeds, Refetches, TypeInv, UploadOK
  <2>2. UploadReady'
    BY <1>0, <2>1 DEF UploadReady
  <2> QED
    BY <1>3, <2>1, <2>2
<1>6. CASE RefetchTimer
  <2>1. /\ upload.again \in {1, 2} /\ upload'.again = upload.again - 1
        /\ upload'.st = upload.st /\ upload'.at = upload.at /\ upload'.stored = upload.stored
        /\ upload.again = 1 => upload.stored
        /\ UNCHANGED <<rows, at, cache, dialog, call, calm>>
        /\ fetch' = Invalidated({<<"files", upload.at>>})
        /\ upload.st = "sent"
    BY <1>0, <1>6 DEF RefetchTimer, TypeInv, UploadOK, Quiet, UploadReady
  <2>2. UploadReady'
    BY <1>0, <2>1 DEF UploadReady
  <2> QED
    BY <1>3, <2>1, <2>2
<1>7. CASE FinishTusUpload
  <2>1. /\ upload.st = "sent" /\ ~upload.stored /\ upload' = [upload EXCEPT !.stored = TRUE]
        /\ upload'.stored /\ upload'.st = "sent" /\ upload'.at = upload.at
        /\ upload'.again = upload.again /\ upload.again > 0
        /\ UNCHANGED <<folder, at, cache, fetch, dialog, call, calm>>
        /\ file' = [file EXCEPT ![NewFile].row = "current", ![NewFile].at = upload.at]
    BY <1>0, <1>7 DEF FinishTusUpload, TypeInv, UploadOK, query, UploadReady
  <2>2. /\ file[NewFile].row = "none" /\ file'[NewFile].at = upload.at
        /\ \A f \in File \ {NewFile} : file'[f] = file[f]
    BY <1>0, <2>1, ListingAssumption DEF CountInv, FileRow
  <2>3. UploadReady'
    BY <1>0, <2>1 DEF UploadReady
  <2>4. VersionWaits'
    BY <1>0, <2>1, <2>2, ListingAssumption DEF VersionWaits
  <2>5. ASSUME NEW k \in Active(at)
        PROVE  NamesOf(Listed(k))' = NamesOf(Listed(k)) \/ Pending(k)'
    <3>1. CASE k = <<"files", upload.at>>
      BY <2>1, <3>1 DEF Pending
    <3>2. CASE k[1] # "files"
      BY <2>1, <3>2, SameNames DEF Selected, Renamed
    <3>3. CASE k[1] = "files" /\ k[2] # upload.at
      <4>1. NewFile \notin Selected(k) /\ NewFile \notin Selected(k)'
        BY <2>2, <3>3 DEF Selected
      <4>2. Selected(k)' = Selected(k) /\ \A f \in Selected(k) : Renamed(k, f)' = Renamed(k, f)
        BY <2>2, <3>3, <4>1 DEF Selected, Renamed
      <4> QED
        BY <4>2, SameNames
    <3>4. k = <<k[1], k[2]>>
      BY <1>0, Keys
    <3> QED
      BY <3>1, <3>2, <3>3, <3>4
  <2> QED
    BY <1>2, <2>1, <2>3, <2>4, <2>5
<1>8. ASSUME NEW f \in File, Process(f) PROVE ViewInv'
  <2>1. /\ file[f].status = "processing" /\ file' = [file EXCEPT ![f].status = "done"]
        /\ UNCHANGED <<folder, at, cache, fetch, dialog, call, upload, calm>>
    BY <1>8 DEF Process, query
  <2>2. \A g \in File : /\ file'[g].row = file[g].row /\ file'[g].at = file[g].at
                        /\ file'[g].renamed = file[g].renamed
                        /\ g # f => file'[g] = file[g]
    BY <1>0, <2>1 DEF FileRow
  <2>3. VersionWaits'
    BY <1>0, <2>1, <2>2, ListingAssumption DEF VersionWaits
  <2>4. \A k \in Active(at) : NamesOf(Listed(k))' = NamesOf(Listed(k))
    BY <1>0, <2>1, <2>2, SameColumns
  <2>5. UploadReady'
    BY <1>0, <2>1 DEF UploadReady
  <2> QED
    BY <1>2, <2>1, <2>3, <2>4, <2>5
<1> QED
  BY <1>4, <1>5, <1>6, <1>7, <1>8

LEMMA ViewInvariant == Spec => []ViewInv
<1>1. Init => ViewInv
  <2> SUFFICES ASSUME Init PROVE ViewInv
    OBVIOUS
  <2>1. \A k \in Active(Root) : fetch[k].st = "sent" /\ ~cache[k].loaded
    BY Keys DEF Init, Active, NoFetch, NoCache
  <2>2. at = Root /\ dialog = NoDialog /\ upload = NoUpload /\ \A h \in Hook : call[h].st = "idle"
    BY DEF Init, NoCall
  <2>3. "version" \in Hook
    BY DEF Hook
  <2> QED
    BY <2>1, <2>2, <2>3 DEF ViewInv, Begun, DialogReady, CallsReady, UploadReady, VersionWaits,
       UpToDate, Fresh, InFlight, NoDialog, NoUpload
<1>2. TypeInv /\ TypeInv' /\ CountInv /\ ViewInv /\ [Next]_vars => ViewInv'
  <2> SUFFICES ASSUME TypeInv, TypeInv', CountInv, ViewInv, [Next]_vars, Quiet' PROVE ViewInv'
    BY DEF ViewInv
  <2>1. Quiet /\ ~Spend("net")
    BY QuietStep
  <2>2. CASE Poll \/ Focus \/ \E k \in Key : Answer(k) \/ Receive(k) \/ FetchFails(k)
    BY <2>1, <2>2, ViewOfQueries
  <2>3. CASE Navigate
    BY <2>1, <2>3, ViewOfNavigate
  <2>4. CASE OpenDialog \/ CloseDialog \/ Submit
    BY <2>1, <2>4, ViewOfDialogs
  <2>5. CASE PutVersion \/ CompleteVersion \/ \E h \in Hook : Serve(h)
    BY <2>1, <2>5, ViewOfServer
  <2>6. CASE \E h \in Hook : Succeed(h) \/ Fail(h)
    BY <2>1, <2>6, ViewOfEnds
  <2>7. CASE \/ StartUpload \/ UploadSucceeds \/ FinishTusUpload \/ RefetchTimer
             \/ \E f \in File : Process(f)
    BY <2>1, <2>7, ViewOfUpload
  <2>8. CASE UNCHANGED vars
    <3>1. UNCHANGED <<rows, at, dialog, call, upload, calm, cache, fetch>>
      BY <2>8 DEF vars, rows
    <3>2. \A k : NamesOf(Listed(k))' = NamesOf(Listed(k))
      BY <3>1, ListedStays DEF NamesOf
    <3>3. \A k \in Active(at) : Fresh(k) => Fresh(k)'
      BY <3>1, <3>2, StaysFresh
    <3>4. \A k \in Active(at) : cache'[k].loaded \/ InFlight(k)'
      BY <2>1, <3>1 DEF ViewInv, Begun, InFlight
    <3> QED
      BY <2>1, <3>1, <3>3, <3>4, QueryStep
  <2> QED
    BY <2>2, <2>3, <2>4, <2>5, <2>6, <2>7, <2>8 DEF Next, UserNext
<1> QED
  BY <1>1, <1>2, TypeInvariant, CountInvariant, PTL DEF Spec

\* Whatever calls of a calm user overlap, and whatever folder is shown, once none is
\* outstanding the page shows the names of what api-svc stores, as long as no request
\* is lost.
THEOREM PageShowsWhatIsStored == Spec => []ShownIsStored
<1>1. ViewInv => ShownIsStored
  <2> SUFFICES ASSUME ViewInv, calm, left["net"] = Budget["net"],
                      \A h \in Hook : call[h].st = "idle",
                      upload.st = "sent" => upload.stored /\ upload.again = 0,
                      NEW k \in Active(at), cache[k].loaded, ~InFlight(k)
               PROVE  NamesOf(cache[k].list) = NamesOf(Listed(k))
    BY DEF ShownIsStored, NamesOf
  <2>1. Fresh(k) \/ Pending(k)
    BY DEF ViewInv, Quiet, UpToDate
  <2>2. ~Pending(k)
    BY DEF Pending
  <2> QED
    BY <2>1, <2>2 DEF Fresh
<1> QED
  BY <1>1, ViewInvariant, PTL
=============================================================================
