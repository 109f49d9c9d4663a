---------------------------- MODULE FolderTree ----------------------------
(***************************************************************************)
(* The folder tree of one user and the files in it.                        *)
(*                                                                         *)
(*   api-svc      createFolder, updateFolder with its isDescendant walk,   *)
(*                deleteFolder with its recursive transaction, and         *)
(*                updateFile when it moves a file                          *)
(*   upload-svc   the uploads that put a new file in a folder: presign, or *)
(*                tusPreCreate and, once the bytes are in, finishTusUpload *)
(*                                                                         *)
(* folders.parent_id and files.folder_id are plain columns: no foreign key *)
(* keeps them pointing at a row. Each query sees what is committed. A      *)
(* deleting transaction locks the rows it removed until it commits, and a  *)
(* Save of such a row waits, then inserts it again.                        *)
(*                                                                         *)
(* A file here is a whole lineage, by the folder of its current version.   *)
(***************************************************************************)
EXTENDS Naturals, Sequences, FiniteSets

CONSTANTS
    Seed,         \* the folders there are at first
    SeedParent,   \* [Seed -> Seed \cup {Home}]
    SeedFile,     \* the files there are at first
    SeedFolder,   \* [SeedFile -> Seed \cup {Home}]
    Create,       \* createFolder calls; also the ids of the folders they create
    Move,         \* updateFolder calls
    Drop,         \* deleteFolder calls
    Arrive,       \* uploads; also the ids of the files they create
    Put,          \* updateFile calls
    MaxDepth,     \* levels of recursion no tree of these folders can need
    Disciplines,  \* which pairs of calls a client may keep from overlapping
    Home          \* no folder: parent_id or folder_id is null

Folder == Seed \cup Create
File == SeedFile \cup Arrive
Call == Create \cup Move \cup Drop \cup Arrive \cup Put

ASSUME CallsAssumption ==
    /\ Create \cap Move = {} /\ Create \cap Drop = {} /\ Create \cap Arrive = {}
    /\ Create \cap Put = {} /\ Move \cap Drop = {} /\ Move \cap Arrive = {}
    /\ Move \cap Put = {} /\ Drop \cap Arrive = {} /\ Drop \cap Put = {}
    /\ Arrive \cap Put = {} /\ Seed \cap Create = {} /\ SeedFile \cap Arrive = {}
    /\ Home \notin Folder
ASSUME DepthAssumption == MaxDepth \in Nat \ {0}
ASSUME DisciplinesAssumption == Disciplines \subseteq SUBSET (Call \X Call)
ASSUME SeedAssumption ==
    /\ SeedParent \in [Seed -> Seed \cup {Home}]
    /\ SeedFolder \in [SeedFile -> Seed \cup {Home}]
    /\ \A S \in SUBSET Seed : S # {} => \E x \in S : SeedParent[x] \notin S

VARIABLES
    folder,  \* Postgres: the folders rows
    file,    \* Postgres: the files rows
    call,    \* the handlers in flight and the values they have read
    apart    \* the pairs of calls the client never overlaps

vars == <<folder, file, call, apart>>

-----------------------------------------------------------------------------
FolderRow == [exists: BOOLEAN, parent: Folder \cup {Home}]
FileRow == [exists: BOOLEAN, folder: Folder \cup {Home}]
NoFolderRow == [exists |-> FALSE, parent |-> Home]
NoFileRow == [exists |-> FALSE, folder |-> Home]

\* A level of deleteFolderTree's recursion: a folder and its children still to visit.
Level == [folder: Folder, left: SUBSET Folder]

Handler ==
    [pc: {"idle", "resolved", "walking", "saving", "deleting", "removing", "lost", "done"},
     item: Folder \cup File \cup {Home},  \* the row it is about
     into: Folder \cup {Home},            \* where it goes
     at: Folder \cup {Home},              \* how far isDescendant has climbed
     levels: Seq(Level),                  \* deleteFolderTree's stack, innermost first
     found: SUBSET File,                  \* the files it has selected at this level
     gone: SUBSET Folder,                 \* the folders its transaction has deleted
     trash: SUBSET File]                  \* the files its transaction has deleted
IdleHandler == [pc |-> "idle", item |-> Home, into |-> Home, at |-> Home, levels |-> <<>>,
                found |-> {}, gone |-> {}, trash |-> {}]

TypeOK ==
    /\ folder \in [Folder -> FolderRow]
    /\ file \in [File -> FileRow]
    /\ call \in [Call -> Handler]
    /\ apart \in SUBSET (Call \X Call)

Init ==
    /\ folder = [x \in Folder |-> IF x \in Seed
                                  THEN [exists |-> TRUE, parent |-> SeedParent[x]]
                                  ELSE NoFolderRow]
    /\ file = [x \in File |-> IF x \in SeedFile
                              THEN [exists |-> TRUE, folder |-> SeedFolder[x]]
                              ELSE NoFileRow]
    /\ call = [c \in Call |-> IdleHandler]
    /\ apart \in Disciplines

Exists(x) == folder[x].exists
InFlight(c) == call[c].pc \notin {"idle", "done"}
Answer(c) == call' = [call EXCEPT ![c] = [IdleHandler EXCEPT !.pc = "done"]]

MayStart(c) ==
    /\ call[c].pc = "idle"
    /\ \A other \in Call : InFlight(other) => <<c, other>> \notin apart

\* The rows a deleting transaction other than c has locked.
LockedFolder(c, x) == \E d \in Drop \ {c} : x \in call[d].gone
LockedFile(c, x) == \E d \in Drop \ {c} : x \in call[d].trash

\* Where a row may go: the top level, or a folder that exists now. A call that is
\* refused (400, 404) before it wrote anything is a call that was not made.
Target(p) == p = Home \/ (p \in Folder /\ Exists(p))

-----------------------------------------------------------------------------
(* createFolder, presign and tus: look the folder up, later insert a row.  *)

Check(c) ==
    /\ MayStart(c)
    /\ \E p \in Folder \cup {Home} :
        /\ Target(p)
        /\ call' = [call EXCEPT ![c] = [IdleHandler EXCEPT !.pc = "saving", !.into = p]]
    /\ UNCHANGED <<folder, file, apart>>

InsertFolder(c) ==
    /\ call[c].pc = "saving"
    /\ folder' = [folder EXCEPT ![c] = [exists |-> TRUE, parent |-> call[c].into]]
    /\ Answer(c)
    /\ UNCHANGED <<file, apart>>

InsertFile(c) ==
    /\ call[c].pc = "saving"
    /\ file' = [file EXCEPT ![c] = [exists |-> TRUE, folder |-> call[c].into]]
    /\ Answer(c)
    /\ UNCHANGED <<folder, apart>>

-----------------------------------------------------------------------------
(* updateFolder and updateFile: read a row, choose a place, Save the row.  *)

MoveRead(c) ==
    /\ MayStart(c)
    /\ \E x \in Folder :
        /\ Exists(x)
        /\ call' = [call EXCEPT ![c] =
                [IdleHandler EXCEPT !.pc = "resolved", !.item = x, !.into = folder[x].parent]]
    /\ UNCHANGED <<folder, file, apart>>

PutRead(c) ==
    /\ MayStart(c)
    /\ \E x \in File :
        /\ file[x].exists
        /\ call' = [call EXCEPT ![c] =
                [IdleHandler EXCEPT !.pc = "resolved", !.item = x, !.into = file[x].folder]]
    /\ UNCHANGED <<folder, file, apart>>

\* A rename keeps the parent that was read; parent_id "" means the top level.
KeepPlace(c) ==
    /\ call[c].pc = "resolved"
    /\ \/ call' = [call EXCEPT ![c].pc = "saving"]
       \/ call' = [call EXCEPT ![c].pc = "saving", ![c].into = Home]
    /\ UNCHANGED <<folder, file, apart>>

MoveUnder(c) ==
    /\ call[c].pc = "resolved"
    /\ \E p \in Folder :
        /\ Exists(p)
        /\ call' = [call EXCEPT ![c].pc = "walking", ![c].into = p, ![c].at = p]
    /\ UNCHANGED <<folder, file, apart>>

PutUnder(c) ==
    /\ call[c].pc = "resolved"
    /\ \E p \in Folder : Exists(p) /\ call' = [call EXCEPT ![c].pc = "saving", ![c].into = p]
    /\ UNCHANGED <<folder, file, apart>>

\* Mutants: only the new parent itself is compared with the folder; a missing row
\* is not taken for the end; the row is taken for its parent_id.
NoClimb(x) == Home
ClimbPastMissing(x) == IF Exists(x) THEN folder[x].parent ELSE x
ClimbToRow(x) == folder[x]

\* isDescendant, one query an iteration: a missing row ends the climb like the top.
Climb(x) == IF Exists(x) THEN folder[x].parent ELSE Home

MoveWalk(c) ==
    /\ call[c].pc = "walking"
    /\ IF call[c].at = call[c].item THEN Answer(c)
       ELSE LET next == Climb(call[c].at) IN
            call' = [call EXCEPT ![c].at = next, ![c].pc = IF next = Home THEN "saving" ELSE @]
    /\ UNCHANGED <<folder, file, apart>>

MoveSave(c) ==
    /\ call[c].pc = "saving" /\ ~LockedFolder(c, call[c].item)
    /\ folder' = [folder EXCEPT ![call[c].item] = [exists |-> TRUE, parent |-> call[c].into]]
    /\ Answer(c)
    /\ UNCHANGED <<file, apart>>

PutSave(c) ==
    /\ call[c].pc = "saving" /\ ~LockedFile(c, call[c].item)
    /\ file' = [file EXCEPT ![call[c].item] = [exists |-> TRUE, folder |-> call[c].into]]
    /\ Answer(c)
    /\ UNCHANGED <<folder, apart>>

-----------------------------------------------------------------------------
(* deleteFolder: deleteFolderTree visits the children, then selects and    *)
(* deletes the files of the folder, then deletes the folder; one commit.   *)

Children(c, x) == {y \in Folder \ call[c].gone : Exists(y) /\ folder[y].parent = x}

\* Mutants: the files of subfolders are left where they are; the query forgets folder_id.
OnlyTopFiles(c, x) ==
    {y \in File \ call[c].trash : file[y].exists /\ file[y].folder = x /\ Len(call[c].levels) = 1}
FilesAnywhere(c, x) == {y \in File \ call[c].trash : file[y].exists}

FilesIn(c, x) == {y \in File \ call[c].trash : file[y].exists /\ file[y].folder = x}

DropRead(c) ==
    /\ MayStart(c)
    /\ \E x \in Folder :
        /\ Exists(x)
        /\ call' = [call EXCEPT ![c] = [IdleHandler EXCEPT !.pc = "resolved", !.item = x]]
    /\ UNCHANGED <<folder, file, apart>>

DropBegin(c) ==
    /\ call[c].pc = "resolved"
    /\ LET x == call[c].item IN
       call' = [call EXCEPT ![c].pc = "deleting",
                            ![c].levels = <<[folder |-> x, left |-> Children(c, x)]>>]
    /\ UNCHANGED <<folder, file, apart>>

\* A recursion deeper than MaxDepth never returns.
DropDescend(c) ==
    /\ call[c].pc = "deleting" /\ call[c].levels # <<>>
    /\ \E x \in call[c].levels[1].left :
        LET top == [call[c].levels[1] EXCEPT !.left = @ \ {x}]
        IN  call' = IF Len(call[c].levels) = MaxDepth
                    THEN [call EXCEPT ![c] = [IdleHandler EXCEPT !.pc = "lost"]]
                    ELSE [call EXCEPT ![c].levels =
                            <<[folder |-> x, left |-> Children(c, x)], top>> \o Tail(@)]
    /\ UNCHANGED <<folder, file, apart>>

DropSelect(c) ==
    /\ call[c].pc = "deleting" /\ call[c].levels # <<>> /\ call[c].levels[1].left = {}
    /\ call' = [call EXCEPT ![c].pc = "removing",
                            ![c].found = FilesIn(c, call[c].levels[1].folder)]
    /\ UNCHANGED <<folder, file, apart>>

DropRemove(c) ==
    /\ call[c].pc = "removing"
    /\ LET x == call[c].levels[1].folder IN
        /\ ~LockedFolder(c, x) /\ \A y \in call[c].found : ~LockedFile(c, y)
        /\ call' = [call EXCEPT ![c].pc = "deleting", ![c].levels = Tail(@), ![c].found = {},
                                ![c].gone = @ \cup {x}, ![c].trash = @ \cup call[c].found]
    /\ UNCHANGED <<folder, file, apart>>

DropCommit(c) ==
    /\ call[c].pc = "deleting" /\ call[c].levels = <<>>
    /\ folder' = [x \in Folder |-> IF x \in call[c].gone THEN [folder[x] EXCEPT !.exists = FALSE]
                                   ELSE folder[x]]
    /\ file' = [x \in File |-> IF x \in call[c].trash THEN [file[x] EXCEPT !.exists = FALSE]
                               ELSE file[x]]
    /\ Answer(c)
    /\ UNCHANGED apart

\* A statement fails, or Postgres breaks a deadlock: 500 and nothing is deleted.
DropRollback(c) ==
    /\ call[c].pc \in {"deleting", "removing"}
    /\ Answer(c)
    /\ UNCHANGED <<folder, file, apart>>

-----------------------------------------------------------------------------
CreateStep(c) == Check(c) \/ InsertFolder(c)
ArriveStep(c) == Check(c) \/ InsertFile(c)
MoveStep(c) == MoveRead(c) \/ KeepPlace(c) \/ MoveUnder(c) \/ MoveWalk(c) \/ MoveSave(c)
PutStep(c) == PutRead(c) \/ KeepPlace(c) \/ PutUnder(c) \/ PutSave(c)
DropStep(c) ==
    \/ DropRead(c) \/ DropBegin(c) \/ DropDescend(c) \/ DropSelect(c)
    \/ DropRemove(c) \/ DropCommit(c) \/ DropRollback(c)

Next ==
    \/ \E c \in Create : CreateStep(c)
    \/ \E c \in Move : MoveStep(c)
    \/ \E c \in Drop : DropStep(c)
    \/ \E c \in Arrive : ArriveStep(c)
    \/ \E c \in Put : PutStep(c)

Spec == Init /\ [][Next]_vars

\* A request the server has read is worked on until it is answered; nothing makes
\* a client send one.
FairSpec ==
    /\ Spec
    /\ \A c \in Create : WF_vars(InFlight(c) /\ CreateStep(c))
    /\ \A c \in Move : WF_vars(InFlight(c) /\ MoveStep(c))
    /\ \A c \in Drop : WF_vars(InFlight(c) /\ DropStep(c))
    /\ \A c \in Arrive : WF_vars(InFlight(c) /\ ArriveStep(c))
    /\ \A c \in Put : WF_vars(InFlight(c) /\ PutStep(c))

-----------------------------------------------------------------------------
(* Properties.                                                             *)

\* README.md:188: PATCH /folders/{id} "rejects moving a folder into itself or a
\* descendant". No set of folders has all its parents in itself.
NoCycle ==
    \A S \in SUBSET {x \in Folder : Exists(x)} : S # {} => \E x \in S : folder[x].parent \notin S

\* The walk that climbs one query at a time is enough when no two updateFolder
\* calls overlap, although folders are created and deleted while it climbs.
MovesKeepTree == Move \X Move \subseteq apart => NoCycle

\* When no call overlaps a deleteFolder, a delete takes the whole subtree: every
\* folder and file that is left hangs from the top level or from a folder that exists.
NothingOrphaned ==
    Drop \X Call \cup Call \X Drop \subseteq apart =>
        /\ \A x \in Folder : Exists(x) => Target(folder[x].parent)
        /\ \A x \in File : file[x].exists => Target(file[x].folder)

\* When no two updateFolder calls overlap, every call is answered, so again and
\* again nothing is in flight: neither the climb of isDescendant nor the recursion of
\* deleteFolderTree can go round, whatever the others do to the tree meanwhile.
EveryCallAnswered == []<>(Move \X Move \subseteq apart => \A c \in Call : ~InFlight(c))
-----------------------------------------------------------------------------
(* The file system the rows stand for.                                     *)

Folders == {x \in Folder : Exists(x)}
Files == {x \in File : file[x].exists}
Unused == {c \in Create \cup Arrive : call[c].pc # "done"}

Fs == INSTANCE FileSystem WITH
    parent <- [x \in Folders |-> folder[x].parent],
    place <- [x \in Files |-> file[x].folder],
    fresh <- Unused

\* When no call overlaps a deleteFolder and no two updateFolder calls overlap, the rows
\* are the file system users are promised: each step puts one new thing in its place,
\* moves one, deletes a folder with all that is below it and no more, or changes nothing.
FollowsFileSystem ==
    /\ Fs!Init
    /\ [][/\ Drop \X Call \cup Call \X Drop \subseteq apart
          /\ Move \X Move \subseteq apart
          => [Fs!Next]_(Fs!vars)]_vars
=============================================================================
