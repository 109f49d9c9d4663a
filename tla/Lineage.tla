------------------------------ MODULE Lineage ------------------------------
(***************************************************************************)
(* Version history: the files rows that are versions of one logical file.  *)
(*                                                                         *)
(*   upload-svc   presignVersion: five statements, the last two in one     *)
(*                transaction; complete: reads a row, Saves the whole row  *)
(*   api-svc      restoreFileVersion and deleteFile: reads, then one       *)
(*                transaction; updateFile: reads a row, Saves the whole row *)
(*                                                                         *)
(* Postgres runs each statement of a transaction at READ COMMITTED: it     *)
(* sees the rows committed when it starts, waits for the locks of the rows *)
(* it writes, and never sees a row inserted meanwhile. A transaction is    *)
(* two steps here: its first statement fixes the rows it will write, and   *)
(* the commit writes those that still exist.                               *)
(*                                                                         *)
(* One user. Not here: bytes, quota, names, folders, status and shares.    *)
(***************************************************************************)
EXTENDS Naturals, FiniteSets

CONSTANTS
    Root,         \* the files uploaded by presign: the first version of each
    Upload,       \* presignVersion calls; also the ids of the rows they create
    Restore,      \* restoreFileVersion calls
    Rewrite,      \* updateFile and complete calls
    Delete,       \* deleteFile calls
    Disciplines,  \* which sets of calls a client may keep from overlapping others
    NoFile

Version == Root \cup Upload
Call == Upload \cup Restore \cup Rewrite \cup Delete

ASSUME CallsAssumption ==
    /\ Upload \cap Restore = {} /\ Upload \cap Rewrite = {} /\ Upload \cap Delete = {}
    /\ Restore \cap Rewrite = {} /\ Restore \cap Delete = {} /\ Rewrite \cap Delete = {}
    /\ Root \cap Call = {} /\ NoFile \notin Version
ASSUME DisciplinesAssumption == Disciplines \subseteq SUBSET Call

VARIABLES
    row,    \* Postgres: the files rows
    call,   \* the handlers in flight and the values they have read
    alone   \* the calls the client never lets overlap another call

vars == <<row, call, alone>>

-----------------------------------------------------------------------------
Row == [exists: BOOLEAN, parent: Version \cup {NoFile}, version: Nat, current: BOOLEAN]
NoRow == [exists |-> FALSE, parent |-> NoFile, version |-> 0, current |-> FALSE]
FirstVersion == [exists |-> TRUE, parent |-> NoFile, version |-> 1, current |-> TRUE]

Handler ==
    [pc: {"idle", "resolved", "checked", "numbered", "writing", "done"},
     file: Version \cup {NoFile},   \* the row it will Save, or restore
     seen: Row,                     \* that row as it was read
     root: Version \cup {NoFile},   \* the lineage it is about
     number: Nat,                   \* the version number it will insert
     snap: SUBSET Version]          \* the rows its transaction will write
IdleHandler == [pc |-> "idle", file |-> NoFile, root |-> NoFile, snap |-> {},
                seen |-> NoRow, number |-> 0]

TypeOK ==
    /\ row \in [Version -> Row]
    /\ call \in [Call -> Handler]
    /\ alone \in SUBSET Call

\* lineageRootID. Mutant: the parent_id is forgotten.
RootOfItself(v) == v

RootOf(v) == IF row[v].parent = NoFile THEN v ELSE row[v].parent

Exists(v) == row[v].exists
Versions(root) == {v \in Version : Exists(v) /\ (v = root \/ row[v].parent = root)}

Current(root) == {v \in Versions(root) : row[v].current}
InFlight(c) == call[c].pc \notin {"idle", "done"}

\* COALESCE(MAX(version), 0); the row inserted takes the number after it.
Numbers(root) == {row[v].version : v \in Versions(root)} \cup {0}
MaxVersion(root) == CHOOSE n \in Numbers(root) : \A m \in Numbers(root) : m <= n

NextNumber(root) == MaxVersion(root) + 1

Init ==
    /\ row = [v \in Version |-> IF v \in Root THEN FirstVersion ELSE NoRow]
    /\ call = [c \in Call |-> IdleHandler]
    /\ alone \in Disciplines

Answer(c) == call' = [call EXCEPT ![c] = [IdleHandler EXCEPT !.pc = "done"]]

-----------------------------------------------------------------------------
(* Every handler first resolves the id in its URL; 404 changes nothing.    *)

MayStart(c) ==
    /\ call[c].pc = "idle"
    /\ \A other \in Call : InFlight(other) => c \notin alone /\ other \notin alone

Resolve(c) ==
    /\ MayStart(c)
    /\ \E v \in Version :
        /\ Exists(v)
        /\ call' = [call EXCEPT ![c] =
            IF c \in Rewrite
            THEN [IdleHandler EXCEPT !.pc = "resolved", !.file = v, !.seen = row[v]]
            ELSE [IdleHandler EXCEPT !.pc = "resolved", !.root = RootOf(v)]]
    /\ UNCHANGED <<row, alone>>

\* The first statement of a transaction selects the rows it will write.
Begin(c) ==
    /\ call' = [call EXCEPT ![c].pc = "writing", ![c].snap = Versions(call[c].root)]
    /\ UNCHANGED <<row, alone>>

-----------------------------------------------------------------------------
(* presignVersion: a lineage with no current version ends the call (500).  *)

UploadCurrent(u) ==
    /\ call[u].pc = "resolved"
    /\ IF Current(call[u].root) = {} THEN Answer(u)
       ELSE call' = [call EXCEPT ![u].pc = "checked"]
    /\ UNCHANGED <<row, alone>>

UploadNumber(u) ==
    /\ call[u].pc = "checked"
    /\ call' = [call EXCEPT ![u].pc = "numbered", ![u].number = NextNumber(call[u].root)]
    /\ UNCHANGED <<row, alone>>

UploadBegin(u) == call[u].pc = "numbered" /\ Begin(u)

\* Mutant: nothing is superseded.
KeptCurrent(c) == row

\* UPDATE ... SET is_current = false for the rows the transaction selected.
Superseded(c) == [v \in Version |-> IF v \in call[c].snap THEN [row[v] EXCEPT !.current = FALSE]
                                    ELSE row[v]]
UploadCommit(u) ==
    /\ call[u].pc = "writing"
    /\ row' = [Superseded(u) EXCEPT ![u] = [exists |-> TRUE, parent |-> call[u].root,
                                            version |-> call[u].number, current |-> TRUE]]
    /\ Answer(u)
    /\ UNCHANGED alone

-----------------------------------------------------------------------------
(* restoreFileVersion: the target is any row of the same lineage, or 400;  *)
(* the second UPDATE matches no row when the target is gone by then.       *)

RestoreTarget(c) ==
    /\ call[c].pc = "resolved"
    /\ \/ \E v \in Version :
            /\ Exists(v) /\ RootOf(v) = call[c].root
            /\ call' = [call EXCEPT ![c].pc = "checked", ![c].file = v]
       \/ Answer(c)
    /\ UNCHANGED <<row, alone>>

RestoreBegin(c) == call[c].pc = "checked" /\ Begin(c)

\* Mutants: the version is not made current; it is written
\* with Save, which inserts a row that is gone; the flag takes the id.
MadeNotCurrent(v) == [row[v] EXCEPT !.current = FALSE]
SavedCurrent(v) == [row[v] EXCEPT !.exists = TRUE, !.current = TRUE]
IdAsCurrent(v) == [row[v] EXCEPT !.current = v]

MadeCurrent(v) == [row[v] EXCEPT !.current = Exists(v)]

RestoreCommit(c) ==
    /\ call[c].pc = "writing"
    /\ row' = [Superseded(c) EXCEPT ![call[c].file] = MadeCurrent(call[c].file)]
    /\ Answer(c)
    /\ UNCHANGED alone

-----------------------------------------------------------------------------
(* updateFile and complete: Save writes every column of the row it read. A *)
(* row that is gone is inserted again, and then is_current takes the       *)
(* column's default for FALSE.                                             *)

RewriteSave(c) ==
    /\ call[c].pc = "resolved"
    /\ LET v == call[c].file
       IN  row' = [row EXCEPT ![v] = [call[c].seen EXCEPT !.current = @ \/ ~Exists(v)]]
    /\ Answer(c)
    /\ UNCHANGED alone

-----------------------------------------------------------------------------
(* deleteFile: the transaction reads the lineage, then deletes those ids.  *)

DeleteBegin(c) == call[c].pc = "resolved" /\ Begin(c)

Removed(c) == call[c].snap

DeleteCommit(c) ==
    /\ call[c].pc = "writing"
    /\ row' = [v \in Version |-> IF v \in Removed(c) THEN [row[v] EXCEPT !.exists = FALSE]
                                 ELSE row[v]]
    /\ Answer(c)
    /\ UNCHANGED alone

-----------------------------------------------------------------------------
UploadStep(u) == UploadCurrent(u) \/ UploadNumber(u) \/ UploadBegin(u) \/ UploadCommit(u)
RestoreStep(c) == RestoreTarget(c) \/ RestoreBegin(c) \/ RestoreCommit(c)
DeleteStep(c) == DeleteBegin(c) \/ DeleteCommit(c)

Next ==
    \/ \E c \in Call : Resolve(c)
    \/ \E u \in Upload : UploadStep(u)
    \/ \E c \in Restore : RestoreStep(c)
    \/ \E c \in Rewrite : RewriteSave(c)
    \/ \E c \in Delete : DeleteStep(c)

Spec == Init /\ [][Next]_vars

-----------------------------------------------------------------------------
(* Properties.                                                             *)

\* The discipline under which the history is exact: presignVersion, updateFile and
\* complete never overlap another call. Restores and deletes may.
SerialWriters == Upload \cup Rewrite \subseteq alone

\* models/file.go:40-43: "exactly one true row per lineage at a time". Said of
\* the rows as they are, whatever calls overlap.
ExactlyOneCurrent ==
    \A r \in Root : Versions(r) # {} => Cardinality(Current(r)) = 1

\* When presignVersion, updateFile and complete never overlap another call,
\* every lineage has exactly one current version, however many restores and
\* deletes race each other.
OneCurrent == SerialWriters => ExactlyOneCurrent

\* When updateFile, complete and deleteFile never overlap another call, uploads
\* and restores may race and leave two current versions but never none: the
\* file stays in the listings, which show current rows only.
NeverHidden ==
    Rewrite \cup Delete \subseteq alone =>
        \A r \in Root : Versions(r) # {} => Current(r) # {}

\* When presignVersion, updateFile and complete never overlap another call, no
\* two versions of a file have the same number: the history order is total.
NumbersDistinct ==
    SerialWriters =>
        \A r \in Root : \A v, w \in Versions(r) :
            v # w => row[v].version # row[w].version

\* However calls overlap, every version hangs directly from a first version,
\* so one (id = root OR parent_id = root) query finds the whole history.
ParentsAreRoots == \A v \in Version : Exists(v) /\ v \notin Root => row[v].parent \in Root

\* When presignVersion, updateFile and complete never overlap another call,
\* deleting a file is final: no step makes a row of a deleted lineage appear.
DeletedForGood ==
    [][SerialWriters =>
        \A r \in Root : Versions(r) = {} => Versions(r)' = {}]_vars

-----------------------------------------------------------------------------
(* The history the rows stand for.                                         *)

Entries(r) == {<<v, row[v].version>> : v \in Versions(r)}
Shown(r) == IF Current(r) = {} THEN NoFile ELSE CHOOSE v \in Current(r) : TRUE

History == INSTANCE VersionHistory WITH
    history <- [r \in Root |-> Entries(r)],
    shown <- [r \in Root |-> Shown(r)]

\* When presignVersion, updateFile and complete never overlap another call, the rows
\* are the history its users are promised, however many restores and deletes race:
\* each step adds the next version and shows it, shows another, takes them all, or
\* changes nothing a user sees.
FollowsHistory ==
    /\ History!Init
    /\ [][SerialWriters => [History!Next]_(History!vars)]_vars
=============================================================================
