--------------------------- MODULE LineageProofs ---------------------------
(***************************************************************************)
(* Theorems about Lineage for any number of files, calls and disciplines.  *)
(***************************************************************************)
EXTENDS Lineage, TLAPS, FiniteSetTheorems, WellFoundedInduction

-----------------------------------------------------------------------------
(* The largest version number. Numbers are bounded at every moment, and a  *)
(* bounded set of naturals has a largest element.                          *)

LEMMA MaxExists ==
    ASSUME NEW S \in SUBSET Nat, S # {}, NEW b \in Nat, \A n \in S : n <= b
    PROVE  \E m \in S : \A n \in S : n <= m
<1> DEFINE Less == OpToRel(<, Nat)
           Bounds == {k \in Nat : \A n \in S : n <= k}
<1>1. \A k, n \in Nat : k < n => <<k, n>> \in Less
  BY DEF OpToRel
<1>2. IsWellFoundedOn(Less, Nat)
  BY NatLessThanWellFounded
<1>3. PICK k \in Bounds : \A n \in Bounds : <<n, k>> \notin Less
  <2> HIDE DEF Less
  <2> QED
    BY <1>2, WFMin, Bounds # {}, Bounds \subseteq Nat
<1>4. k \in S
  <2> HIDE DEF Less
  <2> SUFFICES ASSUME k \notin S PROVE FALSE
    OBVIOUS
  <2>1. \A n \in S : n < k
    OBVIOUS
  <2>2. k \in Nat /\ k - 1 \in Nat
    <3>1. PICK n \in S : n < k
      BY <2>1
    <3> QED
      BY <3>1
  <2>3. k - 1 \in Bounds /\ k - 1 < k
    BY <2>1, <2>2
  <2> QED
    BY <1>1, <1>3, <2>3
<1> QED
  BY <1>4

NumbersBounded ==
    \E b \in Nat : /\ \A v \in Version : row[v].version <= b
                   /\ \A c \in Call : call[c].number <= b /\ call[c].seen.version <= b

TypeInv == TypeOK /\ NumbersBounded

LEMMA MaxVersionExists ==
    ASSUME TypeInv, NEW root
    PROVE  MaxVersion(root) \in Numbers(root) /\ \A n \in Numbers(root) : n <= MaxVersion(root)
<1>1. PICK b \in Nat : \A v \in Version : row[v].version <= b
  BY DEF TypeInv, NumbersBounded
<1>2. Numbers(root) \in SUBSET Nat /\ Numbers(root) # {} /\ \A n \in Numbers(root) : n <= b
  BY <1>1 DEF TypeInv, TypeOK, Numbers, Versions, Row
<1>3. \E m \in Numbers(root) : \A n \in Numbers(root) : n <= m
  BY <1>2, MaxExists
<1> QED
  BY <1>3 DEF MaxVersion

LEMMA MaxVersionIsLargest ==
    ASSUME TypeInv, NEW root
    PROVE  /\ MaxVersion(root) \in Nat
           /\ \A v \in Versions(root) : row[v].version <= MaxVersion(root)
           /\ \A b \in Nat : (\A v \in Version : row[v].version <= b) => MaxVersion(root) <= b
<1>1. Numbers(root) \in SUBSET Nat
  BY DEF TypeInv, TypeOK, Numbers, Versions, Row
<1> QED
  BY <1>1, MaxVersionExists DEF Numbers, Versions

LEMMA MaxVersionIsTaken ==
    ASSUME TypeInv, NEW root, Versions(root) # {}
    PROVE  \E v \in Versions(root) : MaxVersion(root) = row[v].version
<1>1. \A v \in Versions(root) : row[v].version \in Nat
  BY DEF TypeInv, TypeOK, Versions, Row
<1>2. MaxVersion(root) \in Numbers(root)
  BY MaxVersionExists
<1>3. CASE MaxVersion(root) = 0
  BY <1>1, <1>3, MaxVersionIsLargest
<1> QED
  BY <1>2, <1>3 DEF Numbers

-----------------------------------------------------------------------------
(* Types.                                                                  *)

LEMMA RecordTypes ==
    /\ NoRow \in Row /\ FirstVersion \in Row /\ IdleHandler \in Handler
    /\ NoRow.version = 0 /\ FirstVersion.version = 1
    /\ IdleHandler.seen = NoRow /\ IdleHandler.number = 0
    /\ Upload \subseteq Call /\ Restore \subseteq Call
    /\ Rewrite \subseteq Call /\ Delete \subseteq Call
  BY DEF NoRow, FirstVersion, IdleHandler, Row, Handler, Call

LEMMA HandlerFields ==
    ASSUME NEW h \in Handler, NEW number \in Nat, NEW snap \in SUBSET Version
    PROVE  /\ [h EXCEPT !.pc = "numbered", !.number = number] \in Handler
           /\ [h EXCEPT !.pc = "writing", !.snap = snap] \in Handler
  BY DEF Handler

LEMMA RowFields ==
    ASSUME NEW r \in Row, NEW current \in BOOLEAN
    PROVE  /\ [r EXCEPT !.current = current] \in Row
           /\ [r EXCEPT !.current = current].exists = r.exists
           /\ [r EXCEPT !.current = current].parent = r.parent
           /\ [r EXCEPT !.current = current].version = r.version
           /\ [r EXCEPT !.current = current].current = current
  BY DEF Row

LEMMA TypeInvariant == Spec => []TypeInv
<1>1. Init => TypeInv
  <2> SUFFICES ASSUME Init PROVE TypeInv
    OBVIOUS
  <2>1. TypeOK
    BY RecordTypes, DisciplinesAssumption DEF Init, TypeOK
  <2>2. /\ \A v \in Version : row[v].version <= 1
        /\ \A c \in Call : call[c].number <= 1 /\ call[c].seen.version <= 1
    BY RecordTypes DEF Init
  <2> QED
    BY <2>1, <2>2 DEF TypeInv, NumbersBounded
<1>2. TypeInv /\ [Next]_vars => TypeInv'
  <2> SUFFICES ASSUME TypeInv, [Next]_vars PROVE TypeInv'
    OBVIOUS
  <2>0. PICK b \in Nat : /\ \A v \in Version : row[v].version <= b
                         /\ \A c \in Call : /\ call[c].number <= b
                                            /\ call[c].seen.version <= b
    BY DEF TypeInv, NumbersBounded
  <2>a. ASSUME NEW c \in Call, Answer(c)
        PROVE  call' \in [Call -> Handler] /\ \A d \in Call : /\ call'[d].number <= b
                                                              /\ call'[d].seen.version <= b
    BY <2>0, <2>a, RecordTypes DEF Answer, TypeInv, TypeOK, IdleHandler, Handler
  <2>b. ASSUME NEW c \in Call, Begin(c) PROVE TypeInv'
    <3>0. /\ call' = [call EXCEPT ![c] = [call[c] EXCEPT
                            !.pc = "writing", !.snap = Versions(call[c].root)]]
          /\ call[c] \in Handler /\ Versions(call[c].root) \in SUBSET Version
      BY <2>b DEF Begin, Versions, TypeInv, TypeOK
    <3>1. call' \in [Call -> Handler]
      BY <3>0, HandlerFields DEF TypeInv, TypeOK
    <3> QED
      BY <2>0, <2>b, <3>1 DEF Begin, TypeInv, TypeOK, NumbersBounded
  <2>1. ASSUME NEW c \in Call, Resolve(c) PROVE TypeInv'
    <3>1. PICK v \in Version : call' = [call EXCEPT ![c] =
            IF c \in Rewrite
            THEN [IdleHandler EXCEPT !.pc = "resolved", !.file = v, !.seen = row[v]]
            ELSE [IdleHandler EXCEPT !.pc = "resolved", !.root = RootOf(v)]]
      BY <2>1 DEF Resolve
    <3>2. RootOf(v) \in Version \cup {NoFile} /\ row[v] \in Row
      BY DEF RootOf, TypeInv, TypeOK, Row
    <3>3. call' \in [Call -> Handler]
      BY <3>1, <3>2 DEF TypeInv, TypeOK, IdleHandler, NoRow, Row, Handler
    <3>4. \A d \in Call : call'[d].number <= b /\ call'[d].seen.version <= b
      BY <2>0, <3>1 DEF IdleHandler, NoRow, TypeInv, TypeOK
    <3> QED
      BY <2>0, <2>1, <3>3, <3>4 DEF Resolve, TypeInv, TypeOK, NumbersBounded
  <2>2. ASSUME NEW u \in Upload, UploadCurrent(u) PROVE TypeInv'
    <3>1. CASE Answer(u)
      BY <2>0, <2>2, <2>a, <3>1, RecordTypes
         DEF UploadCurrent, TypeInv, TypeOK, NumbersBounded
    <3>2. CASE call' = [call EXCEPT ![u].pc = "checked"]
      BY <2>0, <2>2, <3>2, RecordTypes
         DEF UploadCurrent, TypeInv, TypeOK, NumbersBounded, Handler
    <3> QED
      BY <2>2, <3>1, <3>2 DEF UploadCurrent
  <2>3. ASSUME NEW u \in Upload, UploadNumber(u) PROVE TypeInv'
    <3>1. NextNumber(call[u].root) \in Nat /\ NextNumber(call[u].root) <= b + 1
      BY <2>0, MaxVersionIsLargest DEF NextNumber
    <3>a. /\ call' = [call EXCEPT ![u] = [call[u] EXCEPT
                            !.pc = "numbered", !.number = NextNumber(call[u].root)]]
          /\ call[u] \in Handler
      BY <2>3, RecordTypes DEF UploadNumber, TypeInv, TypeOK
    <3>2. call' \in [Call -> Handler]
      BY <3>a, <3>1, HandlerFields DEF TypeInv, TypeOK
    <3>3. \A d \in Call : call'[d].number <= b + 1 /\ call'[d].seen.version <= b + 1
      BY <2>0, <2>3, <3>1 DEF UploadNumber, TypeInv, TypeOK, Handler, Row
    <3>4. \A v \in Version : row'[v].version <= b + 1
      BY <2>0, <2>3 DEF UploadNumber, TypeInv, TypeOK, Row
    <3> QED
      BY <2>3, <3>2, <3>3, <3>4 DEF UploadNumber, TypeInv, TypeOK, NumbersBounded
  <2>4. ASSUME NEW u \in Upload, UploadCommit(u) PROVE TypeInv'
    <3>1. row' \in [Version -> Row] /\ \A v \in Version : row'[v].version <= b
      BY <2>0, <2>4, RecordTypes
         DEF UploadCommit, Superseded, TypeInv, TypeOK, Handler, Row, Version
    <3> QED
      BY <2>4, <2>a, <3>1, RecordTypes DEF UploadCommit, TypeInv, TypeOK, NumbersBounded
  <2>5. ASSUME NEW c \in Restore, RestoreTarget(c) PROVE TypeInv'
    <3>1. CASE Answer(c)
      BY <2>0, <2>5, <2>a, <3>1, RecordTypes
         DEF RestoreTarget, TypeInv, TypeOK, NumbersBounded
    <3>2. ASSUME NEW v \in Version, call' = [call EXCEPT ![c].pc = "checked", ![c].file = v]
          PROVE  TypeInv'
      BY <2>0, <2>5, <3>2, RecordTypes
         DEF RestoreTarget, TypeInv, TypeOK, NumbersBounded, Handler
    <3> QED
      BY <2>5, <3>1, <3>2 DEF RestoreTarget
  <2>6. ASSUME NEW c \in Restore, RestoreCommit(c) PROVE TypeInv'
    <3>1. row' \in [Version -> Row] /\ \A v \in Version : row'[v].version <= b
      <4> DEFINE file == call[c].file
      <4>1. Superseded(c) \in [Version -> Row]
            /\ \A v \in Version : Superseded(c)[v].version <= b
        BY <2>0 DEF Superseded, TypeInv, TypeOK, Row
      <4>2. CASE file \in Version
        <5>1. MadeCurrent(file) \in Row /\ MadeCurrent(file).version <= b
          BY <2>0, <4>2, RowFields DEF MadeCurrent, Exists, TypeInv, TypeOK, Row
        <5> QED
          BY <2>6, <4>1, <4>2, <5>1 DEF RestoreCommit
      <4>3. CASE file \notin Version
        BY <2>6, <4>1, <4>3 DEF RestoreCommit, Superseded
      <4> QED
        BY <4>2, <4>3
    <3> QED
      BY <2>6, <2>a, <3>1, RecordTypes DEF RestoreCommit, TypeInv, TypeOK, NumbersBounded
  <2>7. ASSUME NEW c \in Rewrite, RewriteSave(c) PROVE TypeInv'
    <3>1. row' \in [Version -> Row] /\ \A v \in Version : row'[v].version <= b
      <4> DEFINE file == call[c].file
                 saved == [call[c].seen EXCEPT !.current = @ \/ ~Exists(file)]
      <4>1. call[c].seen \in Row /\ call[c].seen.version <= b
        BY <2>0, RecordTypes DEF TypeInv, TypeOK, Handler
      <4>2. saved \in Row /\ saved.version <= b
        BY <4>1, RowFields
      <4>3. row' = [row EXCEPT ![file] = saved]
        BY <2>7 DEF RewriteSave
      <4> HIDE DEF saved, file
      <4> QED
        BY <2>0, <4>2, <4>3 DEF TypeInv, TypeOK
    <3> QED
      BY <2>7, <2>a, <3>1, RecordTypes DEF RewriteSave, TypeInv, TypeOK, NumbersBounded
  <2>8. ASSUME NEW c \in Delete, DeleteCommit(c) PROVE TypeInv'
    <3>1. row' \in [Version -> Row] /\ \A v \in Version : row'[v].version <= b
      BY <2>0, <2>8, RecordTypes DEF DeleteCommit, Removed, TypeInv, TypeOK, Row
    <3> QED
      BY <2>8, <2>a, <3>1, RecordTypes DEF DeleteCommit, TypeInv, TypeOK, NumbersBounded
  <2>9. CASE UNCHANGED vars
    BY <2>9 DEF vars, TypeInv, TypeOK, NumbersBounded
  <2> QED
    BY <2>b, <2>1, <2>2, <2>3, <2>4, <2>5, <2>6, <2>7, <2>8, <2>9, RecordTypes
       DEF Next, UploadStep, RestoreStep, DeleteStep, UploadBegin, RestoreBegin, DeleteBegin
<1> QED
  BY <1>1, <1>2, PTL DEF Spec

\* Every row, and every value a handler carries between its statements, keeps
\* its type whatever calls overlap.
THEOREM LineageTypeCorrect == Spec => []TypeOK
<1>1. TypeInv => TypeOK
  BY DEF TypeInv
<1> QED
  BY <1>1, TypeInvariant, PTL

-----------------------------------------------------------------------------
(* Every lineage has one level below its first version.                    *)

\* What a row holds of its own place in a lineage.
Placed(v, r) == /\ v \in Root => r.parent = NoFile
                /\ v \in Upload /\ r.exists => r.parent \in Root

RootsInv ==
    /\ \A v \in Version : Placed(v, row[v])
    /\ \A c \in Rewrite : call[c].pc = "resolved" =>
          /\ call[c].file \in Version /\ call[c].seen.exists
          /\ Placed(call[c].file, call[c].seen)
    /\ \A c \in Call \ Rewrite : InFlight(c) => call[c].root \in Root

LEMMA RootOfIsRoot ==
    ASSUME RootsInv, NEW v \in Version, Exists(v)
    PROVE  RootOf(v) \in Root /\ v \in Versions(RootOf(v))
  BY CallsAssumption DEF RootsInv, Placed, RootOf, Exists, Versions, Version, Call

\* What a step leaves of the handlers it is not a step of.
LEMMA Answered ==
    ASSUME TypeInv, NEW c \in Call, Answer(c)
    PROVE  /\ call'[c].pc = "done" /\ ~InFlight(c)'
           /\ \A d \in Call : d # c => call'[d] = call[d]
  BY RecordTypes DEF Answer, TypeInv, TypeOK, IdleHandler, InFlight

LEMMA Resolved ==
    ASSUME TypeInv, NEW c \in Call, Resolve(c)
    PROVE  \E v \in Version :
             /\ Exists(v)
             /\ call'[c] = IF c \in Rewrite
                           THEN [IdleHandler EXCEPT !.pc = "resolved", !.file = v, !.seen = row[v]]
                           ELSE [IdleHandler EXCEPT !.pc = "resolved", !.root = RootOf(v)]
             /\ \A d \in Call : d # c => call'[d] = call[d]
  BY DEF Resolve, TypeInv, TypeOK

LEMMA Began ==
    ASSUME TypeInv, NEW c \in Call, Begin(c)
    PROVE  /\ call'[c] = [call[c] EXCEPT !.pc = "writing", !.snap = Versions(call[c].root)]
           /\ call'[c].pc = "writing" /\ call'[c].snap = Versions(call[c].root)
           /\ call'[c].root = call[c].root /\ call'[c].file = call[c].file
           /\ call'[c].number = call[c].number
           /\ \A d \in Call : d # c => call'[d] = call[d]
  BY DEF Begin, TypeInv, TypeOK, Handler

LEMMA RootsInvariant == Spec => []RootsInv
<1>1. Init => RootsInv
  BY CallsAssumption, RecordTypes
     DEF Init, RootsInv, Placed, FirstVersion, NoRow, IdleHandler, InFlight, Version
<1>2. TypeInv /\ RootsInv /\ [Next]_vars => RootsInv'
  <2> SUFFICES ASSUME TypeInv, RootsInv, [Next]_vars PROVE RootsInv'
    OBVIOUS
  <2> USE RecordTypes
  <2>a. ASSUME NEW c \in Call, Answer(c), \A v \in Version : Placed(v, row'[v])
        PROVE  RootsInv'
    BY <2>a, Answered DEF RootsInv, InFlight
  <2>b. ASSUME NEW c \in Call \ Rewrite, InFlight(c), row' = row,
               call'[c].root = call[c].root,
               \A d \in Call : d # c => call'[d] = call[d]
        PROVE  RootsInv'
    BY <2>b DEF RootsInv, InFlight
  <2>c. ASSUME NEW c \in Call \ Rewrite, call[c].pc = "resolved" \/ call[c].pc = "checked"
                                          \/ call[c].pc = "numbered",
               Begin(c), row' = row
        PROVE  RootsInv'
    BY <2>b, <2>c, Began DEF InFlight
  <2>1. ASSUME NEW c \in Call, Resolve(c) PROVE RootsInv'
    <3>1. PICK v \in Version :
             /\ Exists(v)
             /\ call'[c] = IF c \in Rewrite
                           THEN [IdleHandler EXCEPT !.pc = "resolved", !.file = v, !.seen = row[v]]
                           ELSE [IdleHandler EXCEPT !.pc = "resolved", !.root = RootOf(v)]
             /\ \A d \in Call : d # c => call'[d] = call[d]
      BY <2>1, Resolved
    <3>2. row' = row
      BY <2>1 DEF Resolve
    <3>3. RootOf(v) \in Root
      BY <3>1, RootOfIsRoot
    <3>4. \A u \in Version : Placed(u, row'[u])
      BY <3>2 DEF RootsInv
    <3>5. CASE c \in Rewrite
      <4>1. call'[c].pc = "resolved" /\ call'[c].file = v /\ call'[c].seen = row[v]
        BY <3>1, <3>5 DEF IdleHandler
      <4> QED
        BY <3>1, <3>4, <3>5, <4>1 DEF RootsInv, Exists, InFlight
    <3>6. CASE c \notin Rewrite
      <4>1. call'[c].root = RootOf(v)
        BY <3>1, <3>6 DEF IdleHandler
      <4> QED
        BY <3>1, <3>3, <3>4, <3>6, <4>1 DEF RootsInv, InFlight
    <3> QED
      BY <3>5, <3>6
  <2>2. ASSUME NEW u \in Upload, UploadCurrent(u) PROVE RootsInv'
    <3>1. u \in Call \ Rewrite /\ row' = row
      BY <2>2, CallsAssumption DEF UploadCurrent
    <3>2. CASE Answer(u)
      BY <2>a, <3>1, <3>2 DEF RootsInv
    <3>3. CASE call' = [call EXCEPT ![u].pc = "checked"]
      BY <2>2, <2>b, <3>1, <3>3 DEF UploadCurrent, InFlight, TypeInv, TypeOK, Handler
    <3> QED
      BY <2>2, <3>2, <3>3 DEF UploadCurrent
  <2>3. ASSUME NEW u \in Upload, UploadNumber(u) PROVE RootsInv'
    <3>1. u \in Call \ Rewrite
      BY CallsAssumption
    <3> QED
      BY <2>3, <2>b, <3>1 DEF UploadNumber, InFlight, TypeInv, TypeOK, Handler
  <2>4. ASSUME NEW u \in Upload, UploadCommit(u) PROVE RootsInv'
    <3>1. u \in Call \ Rewrite /\ u \in Version /\ u \notin Root
      BY CallsAssumption DEF Version
    <3>2. call[u].root \in Root
      BY <2>4, <3>1 DEF UploadCommit, RootsInv, InFlight
    <3>3. \A v \in Version : Placed(v, row'[v])
      BY <2>4, <3>1, <3>2 DEF UploadCommit, Superseded, RootsInv, Placed, TypeInv, TypeOK, Row
    <3> QED
      BY <2>4, <2>a, <3>1, <3>3 DEF UploadCommit
  <2>5. ASSUME NEW c \in Restore, RestoreTarget(c) PROVE RootsInv'
    <3>1. c \in Call \ Rewrite /\ row' = row /\ InFlight(c)
      BY <2>5, CallsAssumption DEF RestoreTarget, InFlight
    <3>2. CASE Answer(c)
      BY <2>a, <3>1, <3>2 DEF RootsInv
    <3>3. ASSUME NEW v \in Version, call' = [call EXCEPT ![c].pc = "checked", ![c].file = v]
          PROVE  RootsInv'
      BY <2>b, <3>1, <3>3 DEF TypeInv, TypeOK, Handler
    <3> QED
      BY <2>5, <3>2, <3>3 DEF RestoreTarget
  <2>6. ASSUME NEW c \in Restore, RestoreCommit(c) PROVE RootsInv'
    <3>1. \A v \in Version : /\ row'[v].exists = row[v].exists
                             /\ row'[v].parent = row[v].parent
      BY <2>6 DEF RestoreCommit, Superseded, MadeCurrent, TypeInv, TypeOK, Row
    <3>2. \A v \in Version : Placed(v, row'[v])
      BY <3>1 DEF RootsInv, Placed
    <3> QED
      BY <2>6, <2>a, <3>2 DEF RestoreCommit
  <2>7. ASSUME NEW c \in Rewrite, RewriteSave(c) PROVE RootsInv'
    <3> DEFINE file == call[c].file
               saved == [call[c].seen EXCEPT !.current = @ \/ ~Exists(file)]
    <3>1. call[c].seen \in Row /\ file \in Version /\ call[c].seen.exists
          /\ Placed(file, call[c].seen)
      BY <2>7 DEF RewriteSave, RootsInv, TypeInv, TypeOK, Handler
    <3>2. saved.exists = call[c].seen.exists /\ saved.parent = call[c].seen.parent
      BY <3>1 DEF Row
    <3>3. row' = [row EXCEPT ![file] = saved]
      BY <2>7 DEF RewriteSave
    <3>4. \A v \in Version : Placed(v, row'[v])
      <4> HIDE DEF saved, file
      <4>1. Placed(file, saved)
        BY <3>1, <3>2 DEF Placed
      <4> QED
        BY <3>1, <3>3, <4>1 DEF RootsInv, TypeInv, TypeOK
    <3> QED
      BY <2>7, <2>a, <3>4 DEF RewriteSave
  <2>8. ASSUME NEW c \in Delete, DeleteCommit(c) PROVE RootsInv'
    <3>1. \A v \in Version : Placed(v, row'[v])
      BY <2>8 DEF DeleteCommit, RootsInv, Placed, TypeInv, TypeOK, Row
    <3> QED
      BY <2>8, <2>a, <3>1 DEF DeleteCommit
  <2>9. ASSUME NEW c \in Upload \cup Restore \cup Delete,
               UploadBegin(c) \/ RestoreBegin(c) \/ DeleteBegin(c)
        PROVE  RootsInv'
    <3>1. c \in Call \ Rewrite
      BY CallsAssumption
    <3> QED
      BY <2>9, <2>c, <3>1 DEF UploadBegin, RestoreBegin, DeleteBegin, Begin
  <2>10. CASE UNCHANGED vars
    BY <2>10 DEF vars, RootsInv, InFlight
  <2> QED
    BY <2>1, <2>2, <2>3, <2>4, <2>5, <2>6, <2>7, <2>8, <2>9, <2>10
       DEF Next, UploadStep, RestoreStep, DeleteStep
<1> QED
  BY <1>1, <1>2, TypeInvariant, PTL DEF Spec

\* Whatever calls overlap, every row that is not a first version names one as
\* its parent: presignVersion takes the root from parent_id, a whole-row Save
\* writes back a parent_id that is still right.
THEOREM RootsCorrect == Spec => []ParentsAreRoots
<1>1. RootsInv => ParentsAreRoots
  BY DEF RootsInv, Placed, ParentsAreRoots, Exists, Version
<1> QED
  BY <1>1, RootsInvariant, PTL

-----------------------------------------------------------------------------
(* The discipline SerialWriters. While a restore or a delete is in flight  *)
(* rows can only disappear, whole lineages at a time, so the rows a        *)
(* transaction selected still cover its lineage when it commits.           *)

Exclusive ==
    \A c \in Upload \cup Rewrite : \A d \in Call : c # d /\ InFlight(c) => ~InFlight(d)

SelectsItsLineage(c) ==
    /\ Versions(call[c].root) \subseteq call[c].snap
    /\ \A v \in call[c].snap : RootOf(v) = call[c].root

TargetOfItsLineage(c) ==
    /\ call[c].file \in Version /\ RootOf(call[c].file) = call[c].root
    /\ Exists(call[c].file) \/ Versions(call[c].root) = {}

CallGood(c) ==
    /\ c \notin Rewrite /\ call[c].pc = "writing" => SelectsItsLineage(c)
    /\ c \in Restore /\ call[c].pc \in {"checked", "writing"} => TargetOfItsLineage(c)
    /\ c \in Rewrite /\ call[c].pc = "resolved" => call[c].seen = row[call[c].file]
    /\ c \in Upload /\ call[c].pc # "done" => ~Exists(c)
    /\ c \in Upload /\ InFlight(c) => Versions(call[c].root) # {}
    /\ c \in Upload /\ call[c].pc \in {"numbered", "writing"} =>
          /\ \A v \in Versions(call[c].root) : row[v].version < call[c].number
          /\ \E v \in Versions(call[c].root) : call[c].number = row[v].version + 1

LineageGood(r) ==
    /\ Versions(r) # {} => \E v \in Version : Current(r) = {v}
    /\ \A v, w \in Versions(r) : v # w => row[v].version # row[w].version

SerialInv ==
    SerialWriters => /\ Exclusive
                     /\ \A c \in Call : CallGood(c)
                     /\ \A r \in Root : LineageGood(r)

LEMMA VersionsByRoot ==
    ASSUME RootsInv, NEW r \in Root
    PROVE  Versions(r) = {v \in Version : Exists(v) /\ RootOf(v) = r}
  BY CallsAssumption DEF RootsInv, Placed, RootOf, Exists, Versions, Version, Call

\* A step of c that writes no row.
LEMMA QuietStep ==
    ASSUME TypeInv, SerialInv, row' = row, alone' = alone, NEW c \in Call,
           \A d \in Call : d # c => call'[d] = call[d],
           SerialWriters => CallGood(c)' /\ Exclusive'
    PROVE  SerialInv'
<1> SUFFICES ASSUME SerialWriters PROVE SerialInv'
  BY DEF SerialInv, SerialWriters
<1>1. \A r \in Root : LineageGood(r)'
  BY DEF SerialInv, LineageGood, Versions, Current, Exists
<1>2. ASSUME NEW d \in Call, d # c PROVE CallGood(d)'
  <2>1. CallGood(d) /\ call'[d] = call[d]
    BY <1>2 DEF SerialInv
  <2> QED
    BY <2>1 DEF CallGood, SelectsItsLineage, TargetOfItsLineage, InFlight, Versions, RootOf, Exists
<1> QED
  BY <1>1, <1>2 DEF SerialInv

\* A call that is in flight before and after a step of its own starts nothing.
LEMMA StaysExclusive ==
    ASSUME Exclusive, NEW c \in Call, InFlight(c) \/ ~InFlight(c)',
           \A d \in Call : d # c => call'[d] = call[d]
    PROVE  Exclusive'
  BY RecordTypes DEF Exclusive, InFlight

LEMMA QuietAnswer ==
    ASSUME TypeInv, SerialInv, row' = row, alone' = alone, NEW c \in Call, Answer(c)
    PROVE  SerialInv'
<1>1. /\ call'[c].pc = "done" /\ ~InFlight(c)'
      /\ \A d \in Call : d # c => call'[d] = call[d]
  BY Answered
<1>2. CallGood(c)'
  BY <1>1 DEF CallGood
<1> QED
  BY <1>1, <1>2, QuietStep, StaysExclusive DEF SerialInv

LEMMA SerialBegin ==
    ASSUME TypeInv, RootsInv, SerialInv, NEW c \in Call \ Rewrite, InFlight(c),
           Begin(c), call[c].pc # "writing",
           c \in Upload => call[c].pc = "numbered",
           c \in Restore => call[c].pc = "checked"
    PROVE  SerialInv'
<1>1. /\ call'[c].pc = "writing" /\ call'[c].snap = Versions(call[c].root)
      /\ call'[c].root = call[c].root /\ call'[c].file = call[c].file
      /\ call'[c].number = call[c].number
      /\ \A d \in Call : d # c => call'[d] = call[d]
  BY Began
<1>2. row' = row /\ alone' = alone
  BY DEF Begin
<1>3. call[c].root \in Root
  BY DEF RootsInv
<1>4. SerialWriters => CallGood(c)'
  <2> SUFFICES ASSUME SerialWriters PROVE CallGood(c)'
    OBVIOUS
  <2>1. CallGood(c)
    BY DEF SerialInv
  <2>2. SelectsItsLineage(c)'
    BY <1>1, <1>2, <1>3, VersionsByRoot DEF SelectsItsLineage, Versions, RootOf, Exists
  <2> QED
    BY <1>1, <1>2, <2>1, <2>2 DEF CallGood, TargetOfItsLineage, Versions, RootOf, Exists, InFlight
<1> QED
  BY <1>1, <1>2, <1>4, QuietStep, StaysExclusive DEF SerialInv

LEMMA SerialResolve ==
    ASSUME TypeInv, RootsInv, SerialInv, NEW c \in Call, Resolve(c)
    PROVE  SerialInv'
<1>1. PICK v \in Version :
         /\ Exists(v)
         /\ call'[c] = IF c \in Rewrite
                       THEN [IdleHandler EXCEPT !.pc = "resolved", !.file = v, !.seen = row[v]]
                       ELSE [IdleHandler EXCEPT !.pc = "resolved", !.root = RootOf(v)]
         /\ \A d \in Call : d # c => call'[d] = call[d]
  BY Resolved
<1>2. row' = row /\ alone' = alone /\ call[c].pc = "idle"
  BY DEF Resolve, MayStart
<1>3. call'[c].pc = "resolved"
  BY <1>1 DEF IdleHandler
<1>4. SerialWriters => Exclusive'
  BY <1>1, <1>2, RecordTypes DEF Resolve, MayStart, SerialInv, SerialWriters, Exclusive, InFlight
<1>5. SerialWriters => CallGood(c)'
  <2> SUFFICES ASSUME SerialWriters PROVE CallGood(c)'
    OBVIOUS
  <2>1. CASE c \in Rewrite
    <3>1. call'[c].seen = row[v] /\ call'[c].file = v
      BY <1>1, <2>1 DEF IdleHandler
    <3> QED
      BY <1>2, <1>3, <2>1, <3>1, CallsAssumption DEF CallGood
  <2>2. CASE c \notin Rewrite
    <3>1. call'[c].root = RootOf(v)
      BY <1>1, <2>2 DEF IdleHandler
    <3>2. (Versions(call[c].root) # {})'
      <4>1. v \in Versions(RootOf(v))
        BY <1>1, RootOfIsRoot
      <4> QED
        BY <1>2, <3>1, <4>1 DEF Versions, Exists
    <3>3. c \in Upload => ~Exists(c)'
      BY <1>2 DEF SerialInv, CallGood, Exists
    <3> QED
      BY <1>3, <2>2, <3>2, <3>3 DEF CallGood, Versions, Exists
  <2> QED
    BY <2>1, <2>2
<1> QED
  BY <1>1, <1>2, <1>4, <1>5, QuietStep

\* A commit that changes no more than is_current leaves every lineage its rows.
LEMMA SameLineages ==
    ASSUME \A v \in Version : /\ row'[v].exists = row[v].exists
                              /\ row'[v].parent = row[v].parent
    PROVE  /\ \A v \in Version : Exists(v)' = Exists(v) /\ RootOf(v)' = RootOf(v)
           /\ \A r : Versions(r)' = Versions(r)
  BY DEF Exists, RootOf, Versions

\* What the commit of a restore does to the lineages.
LEMMA RestoreEffect ==
    ASSUME TypeInv, RootsInv, SerialInv, SerialWriters, NEW c \in Restore, RestoreCommit(c),
           NEW root, root = call[c].root, NEW file, file = call[c].file
    PROVE  /\ root \in Root
           /\ Versions(root) # {} => file \in Versions(root)
           /\ \A v \in Version : Exists(v)' = Exists(v) /\ RootOf(v)' = RootOf(v)
           /\ \A r : Versions(r)' = Versions(r)
           /\ \A v \in Version : row'[v].version = row[v].version
           /\ Versions(root) # {} => Current(root)' = {file}
           /\ \A r \in Root : r # root \/ Versions(r) = {} => Current(r)' = Current(r)
<1>1. c \in Call /\ c \notin Rewrite /\ call[c].pc = "writing" /\ InFlight(c)
  BY CallsAssumption, RecordTypes DEF RestoreCommit, InFlight
<1>2. SelectsItsLineage(c) /\ TargetOfItsLineage(c) /\ root \in Root
  BY <1>1 DEF SerialInv, CallGood, RootsInv
<1>3. \A v \in Version :
         /\ row'[v].exists = row[v].exists /\ row'[v].parent = row[v].parent
         /\ row'[v].version = row[v].version
         /\ v = file => row'[v].current = Exists(v)
         /\ v # file => row'[v].current = IF v \in call[c].snap THEN FALSE ELSE row[v].current
  BY <1>2 DEF RestoreCommit, Superseded, MadeCurrent, TypeInv, TypeOK, Row, TargetOfItsLineage
<1>4. /\ \A v \in Version : Exists(v)' = Exists(v) /\ RootOf(v)' = RootOf(v)
      /\ \A r : Versions(r)' = Versions(r)
  BY <1>3, SameLineages
<1>5. Versions(root) # {} => file \in Versions(root)
  BY <1>2, VersionsByRoot DEF TargetOfItsLineage
<1>6. \A r : Versions(r) \subseteq Version /\ Current(r)' = {v \in Versions(r) : row'[v].current}
  BY <1>4 DEF Current, Versions
<1>7. ASSUME Versions(root) # {} PROVE Current(root)' = {file}
  <2>1. \A v \in Versions(root) : row'[v].current <=> v = file
    BY <1>2, <1>3, <1>5, <1>6, <1>7 DEF SelectsItsLineage, Versions, Exists
  <2> QED
    BY <1>5, <1>6, <1>7, <2>1
<1>8. ASSUME NEW r \in Root, r # root \/ Versions(r) = {} PROVE Current(r)' = Current(r)
  <2>1. \A v \in Versions(r) : v \in Version /\ v \notin call[c].snap /\ v # file
    BY <1>2, <1>8, VersionsByRoot DEF SelectsItsLineage, TargetOfItsLineage
  <2> QED
    BY <1>3, <1>6, <2>1 DEF Current
<1> QED
  BY <1>2, <1>3, <1>4, <1>5, <1>7, <1>8

LEMMA SerialRestore ==
    ASSUME TypeInv, RootsInv, SerialInv, NEW c \in Restore, RestoreCommit(c)
    PROVE  SerialInv'
<1> SUFFICES ASSUME SerialWriters PROVE SerialInv'
  BY DEF SerialInv, SerialWriters, RestoreCommit
<1>0. PICK root, file : root = call[c].root /\ file = call[c].file
  OBVIOUS
<1>1. /\ c \in Call /\ InFlight(c) /\ alone' = alone
      /\ call'[c].pc = "done" /\ ~InFlight(c)'
      /\ \A d \in Call : d # c => call'[d] = call[d]
  BY Answered, CallsAssumption, RecordTypes DEF RestoreCommit, InFlight
<1>2. Exclusive /\ (\A r \in Root : LineageGood(r)) /\ c \notin Rewrite \cup Upload
  BY CallsAssumption DEF SerialInv
<1>3. /\ root \in Root
      /\ Versions(root) # {} => file \in Versions(root)
      /\ \A v \in Version : row'[v].version = row[v].version
      /\ Versions(root) # {} => Current(root)' = {file}
      /\ \A r \in Root : r # root \/ Versions(r) = {} => Current(r)' = Current(r)
  BY <1>0, RestoreEffect
<1>4. /\ \A v \in Version : Exists(v)' = Exists(v) /\ RootOf(v)' = RootOf(v)
      /\ \A r : Versions(r)' = Versions(r)
  BY <1>0, RestoreEffect
<1>5. ASSUME NEW d \in Call PROVE CallGood(d)'
  <2>1. CASE d = c
    BY <1>1, <2>1 DEF CallGood
  <2>2. CASE d # c
    <3>1. CallGood(d) /\ call'[d] = call[d]
      BY <1>1, <2>2 DEF SerialInv
    <3>2. d \in Rewrite => call[d].pc # "resolved"
      BY <1>1, <1>2, <2>2 DEF Exclusive, InFlight
    <3>3. d \in Upload => ~InFlight(d)
      BY <1>1, <1>2, <2>2 DEF Exclusive
    <3>4. d \notin Rewrite /\ call[d].pc = "writing" => SelectsItsLineage(d)'
      BY <1>4, <3>1 DEF CallGood, SelectsItsLineage, TypeInv, TypeOK, Handler
    <3>5. d \in Restore /\ call[d].pc \in {"checked", "writing"} => TargetOfItsLineage(d)'
      BY <1>4, <3>1 DEF CallGood, TargetOfItsLineage
    <3>6. d \in Upload => d \in Version
      BY DEF Version
    <3> QED
      BY <1>4, <3>1, <3>2, <3>3, <3>4, <3>5, <3>6, CallsAssumption DEF CallGood, InFlight
  <2> QED
    BY <2>1, <2>2
<1>6. ASSUME NEW r \in Root PROVE LineageGood(r)'
  <2>1. Versions(r)' = Versions(r) /\ Versions(r) \subseteq Version /\ LineageGood(r)
    BY <1>2, <1>4 DEF Versions
  <2>2. \A v, w \in Versions(r)' : v # w => row'[v].version # row'[w].version
    <3>1. \A v \in Versions(r) : row'[v].version = row[v].version
      BY <1>3, <2>1
    <3> QED
      BY <2>1, <3>1 DEF LineageGood
  <2>3. Versions(r) # {} => \E v \in Version : Current(r)' = {v}
    BY <1>3, <2>1 DEF LineageGood
  <2> QED
    BY <2>1, <2>2, <2>3 DEF LineageGood
<1> QED
  BY <1>1, <1>2, <1>5, <1>6, StaysExclusive DEF SerialInv

\* What the commit of a delete does to the lineages.
LEMMA DeleteEffect ==
    ASSUME TypeInv, RootsInv, SerialInv, SerialWriters, NEW c \in Delete, DeleteCommit(c),
           NEW root, root = call[c].root, NEW snap, snap = call[c].snap
    PROVE  /\ root \in Root /\ Versions(root)' = {}
           /\ \A v \in Version : /\ RootOf(v)' = RootOf(v)
                                 /\ Exists(v)' = (Exists(v) /\ v \notin snap)
                                 /\ row'[v].version = row[v].version
           /\ \A r : Versions(r)' = Versions(r) \ snap
           /\ \A r \in Root : r # root =>
                 Versions(r)' = Versions(r) /\ Current(r)' = Current(r)
<1>1. c \in Call /\ c \notin Rewrite /\ call[c].pc = "writing" /\ InFlight(c)
  BY CallsAssumption, RecordTypes DEF DeleteCommit, InFlight
<1>2. SelectsItsLineage(c) /\ root \in Root
  BY <1>1 DEF SerialInv, CallGood, RootsInv
<1>3. \A v \in Version :
         /\ row'[v].exists = (row[v].exists /\ v \notin snap)
         /\ row'[v].parent = row[v].parent
         /\ row'[v].version = row[v].version /\ row'[v].current = row[v].current
  BY DEF DeleteCommit, Removed, TypeInv, TypeOK, Row
<1>4. \A v \in Version : /\ RootOf(v)' = RootOf(v)
                         /\ Exists(v)' = (Exists(v) /\ v \notin snap)
  BY <1>3 DEF RootOf, Exists
<1>5. \A r : Versions(r)' = Versions(r) \ snap
  BY <1>3 DEF Versions, Exists
<1>6. /\ Versions(root)' = {}
      /\ \A r \in Root : r # root => Versions(r)' = Versions(r)
  BY <1>2, <1>5, VersionsByRoot DEF SelectsItsLineage
<1>7. ASSUME NEW r \in Root, r # root PROVE Current(r)' = Current(r)
  <2>1. Versions(r)' = Versions(r) /\ Versions(r) \subseteq Version
    BY <1>6, <1>7 DEF Versions
  <2> QED
    BY <1>3, <2>1 DEF Current
<1> QED
  BY <1>2, <1>3, <1>4, <1>5, <1>6, <1>7

LEMMA SerialDelete ==
    ASSUME TypeInv, RootsInv, SerialInv, NEW c \in Delete, DeleteCommit(c)
    PROVE  SerialInv'
<1> SUFFICES ASSUME SerialWriters PROVE SerialInv'
  BY DEF SerialInv, SerialWriters, DeleteCommit
<1>0. PICK root, snap : root = call[c].root /\ snap = call[c].snap
  OBVIOUS
<1>1. /\ c \in Call /\ c \notin Rewrite /\ c \notin Upload
      /\ call[c].pc = "writing" /\ InFlight(c) /\ alone' = alone
      /\ call'[c].pc = "done" /\ ~InFlight(c)'
      /\ \A d \in Call : d # c => call'[d] = call[d]
  BY Answered, CallsAssumption, RecordTypes DEF DeleteCommit, InFlight
<1>2. Exclusive /\ SelectsItsLineage(c)
  BY <1>1 DEF SerialInv, CallGood
<1>3. /\ root \in Root /\ Versions(root)' = {}
      /\ \A v \in Version : row'[v].version = row[v].version
      /\ \A r \in Root : r # root => Versions(r)' = Versions(r) /\ Current(r)' = Current(r)
  BY <1>0, DeleteEffect
<1>4. \A v \in Version : /\ RootOf(v)' = RootOf(v)
                         /\ Exists(v)' = (Exists(v) /\ v \notin snap)
  BY <1>0, DeleteEffect
<1>5. \A r : Versions(r)' = Versions(r) \ snap
  BY <1>0, DeleteEffect
<1>6. ASSUME NEW d \in Call PROVE CallGood(d)'
  <2>1. CASE d = c
    BY <1>1, <2>1 DEF CallGood
  <2>2. CASE d # c
    <3>1. CallGood(d) /\ call'[d] = call[d]
      BY <1>1, <2>2 DEF SerialInv
    <3>2. d \in Rewrite \cup Upload => ~InFlight(d)
      BY <1>1, <1>2, <2>2 DEF Exclusive
    <3>3. d \notin Rewrite /\ call[d].pc = "writing" => SelectsItsLineage(d)'
      <4> SUFFICES ASSUME d \notin Rewrite, call[d].pc = "writing"
                   PROVE  SelectsItsLineage(d)'
        OBVIOUS
      <4>1. SelectsItsLineage(d) /\ call[d].snap \subseteq Version
        BY <3>1 DEF CallGood, TypeInv, TypeOK, Handler
      <4> QED
        BY <1>4, <1>5, <3>1, <4>1 DEF SelectsItsLineage
    <3>4. d \in Restore /\ call[d].pc \in {"checked", "writing"} => TargetOfItsLineage(d)'
      <4> SUFFICES ASSUME d \in Restore, call[d].pc \in {"checked", "writing"}
                   PROVE  TargetOfItsLineage(d)'
        OBVIOUS
      <4>1. TargetOfItsLineage(d)
        BY <3>1 DEF CallGood
      <4>2. call[d].file \in snap => call[d].root = root
        BY <1>0, <1>2, <4>1 DEF SelectsItsLineage, TargetOfItsLineage
      <4>3. Exists(call[d].file)' \/ (Versions(call[d].root)') = {}
        <5>1. CASE call[d].file \in snap
          BY <1>3, <3>1, <4>2, <5>1
        <5>2. CASE call[d].file \notin snap
          BY <1>4, <1>5, <3>1, <4>1, <5>2 DEF TargetOfItsLineage
        <5> QED
          BY <5>1, <5>2
      <4> QED
        BY <1>4, <3>1, <4>1, <4>3 DEF TargetOfItsLineage
    <3>5. d \in Upload => d \in Version
      BY DEF Version
    <3> QED
      BY <1>4, <3>1, <3>2, <3>3, <3>4, <3>5, CallsAssumption DEF CallGood, InFlight
  <2> QED
    BY <2>1, <2>2
<1>7. ASSUME NEW r \in Root PROVE LineageGood(r)'
  <2>1. CASE r = root
    BY <1>3, <2>1 DEF LineageGood
  <2>2. CASE r # root
    <3>1. Versions(r)' = Versions(r) /\ Versions(r) \subseteq Version /\ LineageGood(r)
      BY <1>3, <2>2 DEF Versions, SerialInv
    <3>2. Current(r)' = Current(r)
      BY <1>3, <2>2
    <3> QED
      BY <1>3, <3>1, <3>2 DEF LineageGood
  <2> QED
    BY <2>1, <2>2
<1> QED
  BY <1>1, <1>2, <1>6, <1>7, StaysExclusive DEF SerialInv

\* What the commit of an upload does to the lineages.
LEMMA UploadEffect ==
    ASSUME TypeInv, RootsInv, SerialInv, SerialWriters, NEW u \in Upload, UploadCommit(u),
           NEW root, root = call[u].root
    PROVE  /\ root \in Root
           /\ \A r \in Root : Versions(r) \subseteq Version \ {u}
           /\ Versions(root)' = Versions(root) \cup {u} /\ Current(root)' = {u}
           /\ \A r \in Root : r # root => Versions(r)' = Versions(r) /\ Current(r)' = Current(r)
           /\ row'[u].version = call[u].number
           /\ \A v \in Version \ {u} : /\ row'[v].version = row[v].version
                                       /\ row'[v].exists = row[v].exists
<1>0. PICK snap : snap = call[u].snap
  OBVIOUS
<1>1. /\ u \in Call /\ u \notin Rewrite /\ u \in Version /\ u \notin Root
      /\ call[u].pc = "writing" /\ InFlight(u)
  BY CallsAssumption, RecordTypes DEF UploadCommit, InFlight, Version
<1>2. SelectsItsLineage(u) /\ root \in Root /\ ~Exists(u)
  BY <1>1 DEF SerialInv, CallGood, RootsInv
<1>3. /\ row'[u] = [exists |-> TRUE, parent |-> root, version |-> call[u].number, current |-> TRUE]
      /\ \A v \in Version \ {u} :
            /\ row'[v].exists = row[v].exists /\ row'[v].parent = row[v].parent
            /\ row'[v].version = row[v].version
            /\ row'[v].current = IF v \in snap THEN FALSE ELSE row[v].current
  BY <1>0, <1>1 DEF UploadCommit, Superseded, TypeInv, TypeOK, Row
<1>4. ASSUME NEW r \in Root
      PROVE  /\ Versions(r)' = IF r = root THEN Versions(r) \cup {u} ELSE Versions(r)
             /\ Versions(r) \subseteq Version \ {u}
  <2>1. u \notin Versions(r) /\ Versions(r) \subseteq Version
    BY <1>2 DEF Versions
  <2>2. \A v \in Version \ {u} : v \in Versions(r)' <=> v \in Versions(r)
    BY <1>3 DEF Versions, Exists
  <2>3. Versions(r)' \subseteq Version /\ (u \in Versions(r)' <=> r = root)
    BY <1>1, <1>3 DEF Versions, Exists
  <2> QED
    BY <1>1, <2>1, <2>2, <2>3
<1>5. Versions(root) \subseteq snap
      /\ \A r \in Root : r # root => Versions(r) \cap snap = {}
  BY <1>0, <1>2, VersionsByRoot DEF SelectsItsLineage
<1>6. Current(root)' = {u}
  <2>1. Current(root)' = {v \in Versions(root) \cup {u} : row'[v].current}
    BY <1>2, <1>4 DEF Current
  <2>2. \A v \in Versions(root) : ~row'[v].current
    BY <1>2, <1>3, <1>4, <1>5
  <2> QED
    BY <1>3, <2>1, <2>2
<1>7. ASSUME NEW r \in Root, r # root PROVE Current(r)' = Current(r)
  <2>1. Versions(r)' = Versions(r)
    BY <1>4, <1>7
  <2>2. \A v \in Versions(r) : v \in Version \ {u} /\ v \notin snap
    BY <1>4, <1>5, <1>7
  <2>3. \A v \in Versions(r) : row'[v].current = row[v].current
    BY <1>3, <2>2
  <2> QED
    BY <2>1, <2>3 DEF Current
<1>8. /\ Versions(root)' = Versions(root) \cup {u}
      /\ \A r \in Root : Versions(r) \subseteq Version \ {u}
      /\ \A r \in Root : r # root => Versions(r)' = Versions(r)
  BY <1>2, <1>4
<1>9. row'[u].version = call[u].number
  BY <1>3
<1> QED
  BY <1>2, <1>3, <1>6, <1>7, <1>8, <1>9

LEMMA SerialUpload ==
    ASSUME TypeInv, RootsInv, SerialInv, NEW u \in Upload, UploadCommit(u)
    PROVE  SerialInv'
<1> SUFFICES ASSUME SerialWriters PROVE SerialInv'
  BY DEF SerialInv, SerialWriters, UploadCommit
<1>0. PICK root : root = call[u].root
  OBVIOUS
<1>1. /\ u \in Call /\ u \notin Rewrite /\ u \in Version
      /\ call[u].pc = "writing" /\ InFlight(u) /\ alone' = alone
      /\ call'[u].pc = "done" /\ ~InFlight(u)'
      /\ \A d \in Call : d # u => call'[d] = call[d]
  BY Answered, CallsAssumption, RecordTypes DEF UploadCommit, InFlight, Version
<1>2. Exclusive /\ \A v \in Versions(root) : row[v].version < call[u].number
  BY <1>0, <1>1 DEF SerialInv, CallGood
<1>3. /\ \A r \in Root : Versions(r) \subseteq Version \ {u}
      /\ Versions(root)' = Versions(root) \cup {u} /\ Current(root)' = {u}
      /\ \A r \in Root : r # root => Versions(r)' = Versions(r) /\ Current(r)' = Current(r)
      /\ row'[u].version = call[u].number
      /\ \A v \in Version \ {u} : /\ row'[v].version = row[v].version
                                  /\ row'[v].exists = row[v].exists
  BY <1>0, UploadEffect
<1>4. ASSUME NEW d \in Call PROVE CallGood(d)'
  <2>1. CASE d = u
    BY <1>1, <2>1 DEF CallGood
  <2>2. CASE d # u
    <3>1. call'[d] = call[d] /\ ~InFlight(d)
      BY <1>1, <1>2, <2>2 DEF Exclusive
    <3>2. d \in Upload => Exists(d)' = Exists(d)
      BY <1>3, <2>2 DEF Exists, Version
    <3> QED
      BY <3>1, <3>2 DEF CallGood, InFlight, SerialInv
  <2> QED
    BY <2>1, <2>2
<1>5. ASSUME NEW r \in Root PROVE LineageGood(r)'
  <2>0. LineageGood(r)
    BY DEF SerialInv
  <2>1. CASE r = root
    <3>1. \A v, w \in Versions(r) : v # w => row'[v].version # row'[w].version
      BY <1>3, <2>0 DEF LineageGood
    <3>2. \A v \in Versions(r) : row'[v].version # row'[u].version
      <4>1. \A v \in Versions(r) : row'[v].version = row[v].version /\ row[v].version \in Nat
        BY <1>3 DEF TypeInv, TypeOK, Row
      <4>2. call[u].number \in Nat
        BY <1>1 DEF TypeInv, TypeOK, Handler
      <4> QED
        BY <1>2, <1>3, <2>1, <4>1, <4>2
    <3> QED
      BY <1>1, <1>3, <2>1, <3>1, <3>2 DEF LineageGood
  <2>2. CASE r # root
    <3>1. \A v, w \in Versions(r) : v # w => row'[v].version # row'[w].version
      BY <1>3, <2>0 DEF LineageGood
    <3> QED
      BY <1>3, <2>0, <2>2, <3>1 DEF LineageGood
  <2> QED
    BY <2>1, <2>2
<1> QED
  BY <1>1, <1>2, <1>4, <1>5, StaysExclusive DEF SerialInv

\* A Save that overlaps no other call writes what it has read.
LEMMA RewriteWritesNothing ==
    ASSUME TypeInv, RootsInv, SerialInv, SerialWriters, NEW c \in Rewrite, RewriteSave(c)
    PROVE  row' = row
<1> DEFINE file == call[c].file
           saved == [call[c].seen EXCEPT !.current = @ \/ ~Exists(file)]
<1>1. c \in Call /\ call[c].pc = "resolved"
  BY RecordTypes DEF RewriteSave
<1>2. file \in Version /\ call[c].seen.exists /\ call[c].seen = row[file]
  BY <1>1 DEF RootsInv, SerialInv, CallGood
<1>3. saved = row[file]
  <2>1. Exists(file) /\ row[file] \in Row
    BY <1>2 DEF Exists, TypeInv, TypeOK
  <2>2. (call[c].seen.current \/ ~Exists(file)) = row[file].current
    BY <1>2, <2>1 DEF Row
  <2> QED
    BY <1>2, <2>1, <2>2 DEF Row
<1>4. row' = [row EXCEPT ![file] = saved]
  BY DEF RewriteSave
<1> HIDE DEF file, saved
<1> QED
  BY <1>3, <1>4 DEF TypeInv, TypeOK

LEMMA SerialRewrite ==
    ASSUME TypeInv, RootsInv, SerialInv, NEW c \in Rewrite, RewriteSave(c)
    PROVE  SerialInv'
<1> SUFFICES ASSUME SerialWriters PROVE SerialInv'
  BY DEF SerialInv, SerialWriters, RewriteSave
<1>1. c \in Call /\ alone' = alone /\ Answer(c)
  BY RecordTypes DEF RewriteSave
<1> QED
  BY <1>1, RewriteWritesNothing, QuietAnswer

LEMMA SerialInvariant == Spec => []SerialInv
<1>1. Init => SerialInv
  <2> SUFFICES ASSUME Init PROVE SerialInv
    OBVIOUS
  <2>1. \A c \in Call : call[c].pc = "idle" /\ ~InFlight(c)
    BY DEF Init, IdleHandler, InFlight
  <2>2. \A v \in Version : Exists(v) <=> v \in Root
    BY DEF Init, Exists, FirstVersion, NoRow
  <2>3. \A r \in Root : Versions(r) = {r} /\ Current(r) = {r}
    BY CallsAssumption DEF Init, Versions, Current, Exists, FirstVersion, NoRow, Version
  <2>4. \A c \in Call : CallGood(c)
    BY <2>1, <2>2, CallsAssumption DEF CallGood, Version
  <2> QED
    BY <2>1, <2>3, <2>4 DEF SerialInv, Exclusive, LineageGood, Version, Call
<1>2. TypeInv /\ RootsInv /\ SerialInv /\ [Next]_vars => SerialInv'
  <2> SUFFICES ASSUME TypeInv, RootsInv, SerialInv, [Next]_vars PROVE SerialInv'
    OBVIOUS
  <2> USE RecordTypes
  <2>1. ASSUME NEW c \in Call, Resolve(c) PROVE SerialInv'
    BY <2>1, SerialResolve
  <2>2. ASSUME NEW u \in Upload, UploadCurrent(u) PROVE SerialInv'
    <3>1. row' = row /\ alone' = alone /\ u \in Call /\ u \notin Rewrite /\ u \notin Restore
      BY <2>2, CallsAssumption DEF UploadCurrent
    <3>2. CASE Answer(u)
      BY <3>1, <3>2, QuietAnswer
    <3>3. CASE call' = [call EXCEPT ![u].pc = "checked"]
      <4>1. /\ call[u].pc = "resolved" /\ call'[u].pc = "checked" /\ call'[u].root = call[u].root
            /\ \A d \in Call : d # u => call'[d] = call[d]
        BY <2>2, <3>1, <3>3 DEF UploadCurrent, TypeInv, TypeOK, Handler
      <4>2. SerialWriters => CallGood(u)'
        BY <3>1, <4>1 DEF SerialInv, CallGood, InFlight, Versions, Exists
      <4> QED
        BY <3>1, <4>1, <4>2, QuietStep, StaysExclusive DEF SerialInv, InFlight
    <3> QED
      BY <2>2, <3>2, <3>3 DEF UploadCurrent
  <2>3. ASSUME NEW u \in Upload, UploadNumber(u) PROVE SerialInv'
    <3>1. row' = row /\ alone' = alone /\ u \in Call /\ u \notin Rewrite /\ u \notin Restore
      BY <2>3, CallsAssumption DEF UploadNumber
    <3>2. /\ call[u].pc = "checked" /\ call'[u].pc = "numbered" /\ call'[u].root = call[u].root
          /\ call'[u].number = NextNumber(call[u].root)
          /\ \A d \in Call : d # u => call'[d] = call[d]
      BY <2>3, <3>1 DEF UploadNumber, TypeInv, TypeOK, Handler
    <3>3. \A v \in Versions(call[u].root) : row[v].version < call'[u].number
      <4>1. \A v \in Versions(call[u].root) : row[v].version \in Nat
        BY DEF Versions, TypeInv, TypeOK, Row
      <4> QED
        BY <3>2, <4>1, MaxVersionIsLargest DEF NextNumber
    <3>4. Versions(call[u].root) # {} =>
             \E v \in Versions(call[u].root) : call'[u].number = row[v].version + 1
      BY <3>2, MaxVersionIsTaken DEF NextNumber
    <3>5. SerialWriters => CallGood(u)'
      <4> SUFFICES ASSUME SerialWriters PROVE CallGood(u)'
        OBVIOUS
      <4>1. CallGood(u) /\ Versions(call[u].root) # {}
        BY <3>1, <3>2 DEF SerialInv, CallGood, InFlight
      <4>2. \A r : Versions(r)' = Versions(r)
        BY <3>1 DEF Versions, Exists
      <4> QED
        BY <3>1, <3>2, <3>3, <3>4, <4>1, <4>2 DEF CallGood, InFlight, Exists
    <3> QED
      BY <3>1, <3>2, <3>5, QuietStep, StaysExclusive DEF SerialInv, InFlight
  <2>4. ASSUME NEW u \in Upload, UploadCommit(u) PROVE SerialInv'
    BY <2>4, SerialUpload
  <2>5. ASSUME NEW c \in Restore, RestoreTarget(c) PROVE SerialInv'
    <3>1. row' = row /\ alone' = alone /\ c \in Call /\ c \notin Rewrite /\ c \notin Upload
      BY <2>5, CallsAssumption DEF RestoreTarget
    <3>2. CASE Answer(c)
      BY <3>1, <3>2, QuietAnswer
    <3>3. ASSUME NEW v \in Version, Exists(v), RootOf(v) = call[c].root,
                 call' = [call EXCEPT ![c].pc = "checked", ![c].file = v]
          PROVE  SerialInv'
      <4>1. /\ call[c].pc = "resolved" /\ call'[c].pc = "checked"
            /\ call'[c].root = call[c].root /\ call'[c].file = v
            /\ \A d \in Call : d # c => call'[d] = call[d]
        BY <2>5, <3>1, <3>3 DEF RestoreTarget, TypeInv, TypeOK, Handler
      <4>2. CallGood(c)'
        BY <3>1, <3>3, <4>1 DEF CallGood, TargetOfItsLineage, Exists, RootOf
      <4> QED
        BY <3>1, <4>1, <4>2, QuietStep, StaysExclusive DEF SerialInv, InFlight
    <3> QED
      BY <2>5, <3>2, <3>3 DEF RestoreTarget
  <2>6. ASSUME NEW c \in Restore, RestoreCommit(c) PROVE SerialInv'
    BY <2>6, SerialRestore
  <2>7. ASSUME NEW c \in Rewrite, RewriteSave(c) PROVE SerialInv'
    BY <2>7, SerialRewrite
  <2>8. ASSUME NEW c \in Delete, DeleteCommit(c) PROVE SerialInv'
    BY <2>8, SerialDelete
  <2>9. ASSUME NEW c \in Upload, UploadBegin(c) PROVE SerialInv'
    BY <2>9, SerialBegin, CallsAssumption DEF UploadBegin, InFlight
  <2>10. ASSUME NEW c \in Restore, RestoreBegin(c) PROVE SerialInv'
    BY <2>10, SerialBegin, CallsAssumption DEF RestoreBegin, InFlight
  <2>11. ASSUME NEW c \in Delete, DeleteBegin(c) PROVE SerialInv'
    BY <2>11, SerialBegin, CallsAssumption DEF DeleteBegin, InFlight
  <2>12. CASE UNCHANGED vars
    BY <2>12 DEF vars, SerialInv, SerialWriters, Exclusive, CallGood, LineageGood, InFlight,
       SelectsItsLineage, TargetOfItsLineage, Versions, Current, RootOf, Exists
  <2> QED
    BY <2>1, <2>2, <2>3, <2>4, <2>5, <2>6, <2>7, <2>8, <2>9, <2>10, <2>11, <2>12
       DEF Next, UploadStep, RestoreStep, DeleteStep
<1> QED
  BY <1>1, <1>2, TypeInvariant, RootsInvariant, PTL DEF Spec

\* As long as presignVersion, updateFile and complete never overlap another call,
\* every file has exactly one current version and no two versions of it share a
\* number, however many restores and deletes run at once.
THEOREM HistoryCorrect == Spec => [](OneCurrent /\ NumbersDistinct)
<1>1. SerialInv => OneCurrent /\ NumbersDistinct
  <2> SUFFICES ASSUME SerialInv, SerialWriters, NEW r \in Root, Versions(r) # {}
               PROVE  /\ Cardinality(Current(r)) = 1
                      /\ \A v, w \in Versions(r) : v # w => row[v].version # row[w].version
    BY DEF OneCurrent, NumbersDistinct, ExactlyOneCurrent
  <2>1. LineageGood(r)
    BY DEF SerialInv
  <2>2. PICK v \in Version : Current(r) = {v}
    BY <2>1 DEF LineageGood
  <2> QED
    BY <2>1, <2>2, FS_Singleton DEF LineageGood
<1> QED
  BY <1>1, SerialInvariant, PTL

\* Under the same discipline deleteFile is final: once a lineage has no row left,
\* no step brings one back.
THEOREM DeleteIsFinal == Spec => DeletedForGood
<1>1. TypeInv /\ RootsInv /\ SerialInv /\ [Next]_vars =>
        [SerialWriters => \A r \in Root : Versions(r) = {} => Versions(r)' = {}]_vars
  <2> SUFFICES ASSUME TypeInv, RootsInv, SerialInv, [Next]_vars, SerialWriters,
                      NEW r \in Root, Versions(r) = {}
               PROVE  Versions(r)' = {}
    OBVIOUS
  <2>1. CASE row' = row
    BY <2>1 DEF Versions, Exists
  <2>2. ASSUME NEW u \in Upload, UploadCommit(u) PROVE Versions(r)' = {}
    <3>1. /\ u \in Call /\ u \in Version /\ u \notin Root /\ call[u].root # r
      BY <2>2, CallsAssumption DEF UploadCommit, SerialInv, CallGood, InFlight, Version, Call
    <3>2. /\ \A v \in Version \ {u} : row'[v].exists = row[v].exists /\ row'[v].parent = row[v].parent
          /\ row'[u].parent = call[u].root
      BY <2>2, <3>1 DEF UploadCommit, Superseded, TypeInv, TypeOK, Row
    <3> QED
      BY <3>1, <3>2 DEF Versions, Exists
  <2>3. ASSUME NEW c \in Restore, RestoreCommit(c) PROVE Versions(r)' = {}
    <3>1. \A v \in Version : /\ row'[v].exists = row[v].exists
                             /\ row'[v].parent = row[v].parent
      BY <2>3 DEF RestoreCommit, Superseded, MadeCurrent, TypeInv, TypeOK, Row
    <3> QED
      BY <3>1 DEF Versions, Exists
  <2>4. ASSUME NEW c \in Delete, DeleteCommit(c) PROVE Versions(r)' = {}
    BY <2>4 DEF DeleteCommit, Versions, Exists, TypeInv, TypeOK, Row
  <2>5. ASSUME NEW c \in Rewrite, RewriteSave(c) PROVE Versions(r)' = {}
    <3>1. /\ call[c].file \in Version /\ row[call[c].file].exists
          /\ call[c].seen.parent = row[call[c].file].parent
      BY <2>5, RecordTypes DEF RewriteSave, RootsInv, SerialInv, CallGood
    <3>2. \A v \in Version : row'[v].exists = row[v].exists /\ row'[v].parent = row[v].parent
      BY <2>5, <3>1, RecordTypes DEF RewriteSave, RootsInv, TypeInv, TypeOK, Handler, Row
    <3> QED
      BY <3>2 DEF Versions, Exists
  <2> QED
    BY <2>1, <2>2, <2>3, <2>4, <2>5
       DEF Next, UploadStep, RestoreStep, DeleteStep, Resolve, Begin, UploadCurrent, UploadNumber,
           UploadBegin, RestoreTarget, RestoreBegin, DeleteBegin, vars
<1> QED
  BY <1>1, TypeInvariant, RootsInvariant, SerialInvariant, PTL DEF Spec, DeletedForGood

\* Two versions of a file never have the same number, as long as calls on it do not
\* overlap.
THEOREM NumbersAreDistinct == Spec => []NumbersDistinct
<1> QED
  BY HistoryCorrect, PTL

-----------------------------------------------------------------------------
(* The rows implement VersionHistory.                                      *)

LEMMA ShownIsCurrent == ASSUME NEW r, NEW v, Current(r) = {v} PROVE Shown(r) = v
  BY DEF Shown

LEMMA SameShown == ASSUME NEW r, Current(r)' = Current(r) PROVE Shown(r)' = Shown(r)
  BY DEF Shown

\* A step that changes what is to be seen of one file only.
LEMMA OneFileChanges ==
    ASSUME NEW root \in Root,
           \A r \in Root : r # root => Entries(r)' = Entries(r) /\ Shown(r)' = Shown(r)
    PROVE  /\ [r \in Root |-> Entries(r)]' =
                 [[r \in Root |-> Entries(r)] EXCEPT ![root] = Entries(root)']
           /\ [r \in Root |-> Shown(r)]' =
                 [[r \in Root |-> Shown(r)] EXCEPT ![root] = Shown(root)']
  OBVIOUS

\* A step that leaves every file its versions, their numbers and the current one.
LEMMA NothingToSee ==
    ASSUME \A r \in Root : Entries(r)' = Entries(r) /\ Shown(r)' = Shown(r)
    PROVE  UNCHANGED History!vars
  BY DEF History!vars

LEMMA UploadFollows ==
    ASSUME TypeInv, RootsInv, SerialInv, SerialInv', SerialWriters, NEW u \in Upload, UploadCommit(u)
    PROVE  \E r \in Root, v \in Version : History!Add(r, v)
<1>0. PICK root : root = call[u].root
  OBVIOUS
<1>1. /\ root \in Root
      /\ \A r \in Root : Versions(r) \subseteq Version \ {u}
      /\ Versions(root)' = Versions(root) \cup {u} /\ Current(root)' = {u}
      /\ \A r \in Root : r # root => Versions(r)' = Versions(r) /\ Current(r)' = Current(r)
      /\ row'[u].version = call[u].number
      /\ \A v \in Version \ {u} : row'[v].version = row[v].version
  BY <1>0, UploadEffect
<1>2. u \in Version /\ u \in Call /\ call[u].pc = "writing" /\ InFlight(u)
  BY DEF UploadCommit, InFlight, Version, Call
<1>3. /\ \A v \in Versions(root) : row[v].version < call[u].number
      /\ \E v \in Versions(root) : call[u].number = row[v].version + 1
  BY <1>0, <1>2 DEF SerialInv, CallGood
<1>4. ASSUME NEW r \in Root, r # root PROVE Entries(r)' = Entries(r) /\ Shown(r)' = Shown(r)
  <2>1. \A v \in Versions(r) : row'[v].version = row[v].version
    BY <1>1
  <2>2. Entries(r)' = Entries(r)
    BY <1>1, <1>4, <2>1 DEF Entries
  <2> QED
    BY <1>1, <1>4, <2>2, SameShown
<1>5. Entries(root)' = Entries(root) \cup {<<u, call[u].number>>}
  BY <1>1 DEF Entries
<1>6. Shown(root)' = u
  BY <1>1 DEF Shown
<1>7. PICK w \in Versions(root) : call[u].number = row[w].version + 1
  BY <1>3
<1>8. \A v \in Versions(root) : row[v].version \in Nat
  BY DEF Versions, TypeInv, TypeOK, Row
<1>9. \A entry \in Entries(root) : entry[2] <= row[w].version
  BY <1>3, <1>7, <1>8 DEF Entries
<1>10. History!IsNew(u)
  BY <1>1 DEF History!IsNew, Entries
<1>11. \E last \in Entries(root) :
          /\ \A entry \in Entries(root) : entry[2] <= last[2]
          /\ Entries(root)' = Entries(root) \cup {<<u, last[2] + 1>>}
  <2>1. <<w, row[w].version>> \in Entries(root)
    BY <1>7 DEF Entries
  <2> QED
    BY <1>5, <1>7, <1>9, <2>1
<1>12. History!Add(root, u)
  BY <1>1, <1>4, <1>6, <1>10, <1>11, OneFileChanges DEF History!Add
<1> QED
  BY <1>1, <1>2, <1>12

LEMMA RestoreFollows ==
    ASSUME TypeInv, RootsInv, SerialInv, SerialWriters, NEW c \in Restore, RestoreCommit(c)
    PROVE  (\E r \in Root, v \in Version : History!Show(r, v)) \/ UNCHANGED History!vars
<1>0. PICK root, file : root = call[c].root /\ file = call[c].file
  OBVIOUS
<1>1. /\ root \in Root
      /\ Versions(root) # {} => file \in Versions(root)
      /\ \A r : Versions(r)' = Versions(r)
      /\ \A v \in Version : row'[v].version = row[v].version
      /\ Versions(root) # {} => Current(root)' = {file}
      /\ \A r \in Root : r # root \/ Versions(r) = {} => Current(r)' = Current(r)
  BY <1>0, RestoreEffect
<1>2. \A r \in Root : Entries(r)' = Entries(r)
  <2>1. \A r : Versions(r) \subseteq Version
    BY DEF Versions
  <2> QED
    BY <1>1, <2>1 DEF Entries
<1>3. \A r \in Root : r # root \/ Versions(r) = {} => Shown(r)' = Shown(r)
  BY <1>1, SameShown
<1>4. CASE Versions(root) = {}
  BY <1>2, <1>3, <1>4, NothingToSee
<1>5. CASE Versions(root) # {}
  <2>1. Shown(root)' = file /\ file \in Version
    BY <1>1, <1>5 DEF Shown, Versions
  <2>2. \E entry \in Entries(root) : entry[1] = file
    <3>1. <<file, row[file].version>> \in Entries(root)
      BY <1>1, <1>5 DEF Entries
    <3> QED
      BY <3>1
  <2>3. History!Show(root, file)
    BY <1>1, <1>2, <1>3, <2>1, <2>2, OneFileChanges DEF History!Show
  <2> QED
    BY <1>1, <2>1, <2>3
<1> QED
  BY <1>4, <1>5

LEMMA DeleteFollows ==
    ASSUME TypeInv, RootsInv, SerialInv, SerialWriters, NEW c \in Delete, DeleteCommit(c)
    PROVE  \E r \in Root : History!Remove(r)
<1>0. PICK root, snap : root = call[c].root /\ snap = call[c].snap
  OBVIOUS
<1>1. /\ root \in Root /\ Versions(root)' = {}
      /\ \A v \in Version : row'[v].version = row[v].version
      /\ \A r \in Root : r # root => Versions(r)' = Versions(r) /\ Current(r)' = Current(r)
  BY <1>0, DeleteEffect
<1>2. Entries(root)' = {} /\ Shown(root)' = NoFile
  BY <1>1 DEF Entries, Shown, Current
<1>3. ASSUME NEW r \in Root, r # root PROVE Entries(r)' = Entries(r) /\ Shown(r)' = Shown(r)
  <2>1. Versions(r) \subseteq Version
    BY DEF Versions
  <2>2. Entries(r)' = Entries(r)
    BY <1>1, <1>3, <2>1 DEF Entries
  <2> QED
    BY <1>1, <1>3, <2>2, SameShown
<1>4. History!Remove(root)
  BY <1>1, <1>2, <1>3, OneFileChanges DEF History!Remove
<1> QED
  BY <1>1, <1>4

LEMMA StepFollows ==
    ASSUME TypeInv, RootsInv, SerialInv, SerialInv', SerialWriters, [Next]_vars
    PROVE  History!Next \/ UNCHANGED History!vars
<1>1. CASE row' = row
  BY <1>1, NothingToSee DEF Entries, Shown, Current, Versions, Exists
<1>2. ASSUME NEW u \in Upload, UploadCommit(u) PROVE History!Next
  BY <1>2, UploadFollows DEF History!Next
<1>3. ASSUME NEW c \in Restore, RestoreCommit(c) PROVE History!Next \/ UNCHANGED History!vars
  BY <1>3, RestoreFollows DEF History!Next
<1>4. ASSUME NEW c \in Delete, DeleteCommit(c) PROVE History!Next
  BY <1>4, DeleteFollows DEF History!Next
\* A Save that overlaps nothing writes what it has read.
<1>5. ASSUME NEW c \in Rewrite, RewriteSave(c) PROVE row' = row
  BY <1>5, RewriteWritesNothing
<1> QED
  BY <1>1, <1>2, <1>3, <1>4, <1>5
     DEF Next, UploadStep, RestoreStep, DeleteStep, Resolve, Begin, UploadCurrent, UploadNumber,
         UploadBegin, RestoreTarget, RestoreBegin, DeleteBegin, vars

LEMMA HistoryStarts == Init => History!Init
<1> SUFFICES ASSUME Init PROVE History!Init
  OBVIOUS
<1>1. ASSUME NEW r \in Root PROVE Entries(r) = {<<r, 1>>} /\ Shown(r) = r
  <2>1. Versions(r) = {r} /\ Current(r) = {r} /\ row[r].version = 1
    BY CallsAssumption DEF Init, Versions, Current, Exists, FirstVersion, NoRow, Version
  <2> QED
    BY <2>1, ShownIsCurrent DEF Entries
<1> QED
  BY <1>1 DEF History!Init

\* As long as presignVersion, updateFile and complete never overlap another call, the
\* rows behave as a version history whose uploads, restores and deletes each happen at
\* once, for any number of restores and deletes that race.
THEOREM RowsFollowHistory == Spec => FollowsHistory
<1>1. TypeInv /\ RootsInv /\ SerialInv /\ SerialInv' /\ [Next]_vars =>
         [SerialWriters => [History!Next]_(History!vars)]_vars
  BY StepFollows
<1> QED
  BY <1>1, HistoryStarts, TypeInvariant, RootsInvariant, SerialInvariant, PTL
     DEF Spec, FollowsHistory

\* For clients that all keep to that discipline, Lineage implements VersionHistory.
THEOREM LineageImplementsHistory ==
    ASSUME \A alone_ \in Disciplines : Upload \cup Rewrite \subseteq alone_
    PROVE  Spec => History!Spec
<1>1. Init => SerialWriters
  BY DEF Init, SerialWriters
<1>2. SerialWriters /\ [Next]_vars => SerialWriters'
  BY DEF Next, UploadStep, RestoreStep, DeleteStep, Resolve, Begin, UploadCurrent, UploadNumber,
     UploadBegin, UploadCommit, RestoreTarget, RestoreBegin, RestoreCommit, RewriteSave,
     DeleteBegin, DeleteCommit, vars, SerialWriters
<1>3. TypeInv /\ RootsInv /\ SerialInv /\ SerialInv' /\ SerialWriters /\ [Next]_vars =>
         [History!Next]_(History!vars)
  BY StepFollows
<1> QED
  BY <1>1, <1>2, <1>3, HistoryStarts, TypeInvariant, RootsInvariant, SerialInvariant, PTL
     DEF Spec, History!Spec

-----------------------------------------------------------------------------
(* The discipline of NeverHidden. No row goes away or is written over while*)
(* an upload or a restore is in flight, so the row a restore has found is   *)
(* there when it is made current, and a commit clears its own lineage only. *)

KeepsRows == Rewrite \cup Delete \subseteq alone

Undisturbed ==
    \A c \in Rewrite \cup Delete : \A d \in Call : c # d /\ InFlight(c) => ~InFlight(d)

CallKept(c) ==
    /\ c \notin Rewrite /\ call[c].pc = "writing" =>
          \A v \in call[c].snap : Exists(v) /\ RootOf(v) = call[c].root
    /\ c \in Delete /\ call[c].pc = "writing" => Versions(call[c].root) \subseteq call[c].snap
    /\ c \in Restore /\ call[c].pc \in {"checked", "writing"} =>
          /\ call[c].file \in Version /\ Exists(call[c].file)
          /\ RootOf(call[c].file) = call[c].root
    /\ c \in Rewrite /\ call[c].pc = "resolved" => call[c].seen = row[call[c].file]
    /\ c \in Upload /\ call[c].pc # "done" => ~Exists(c)

KeptInv ==
    KeepsRows => /\ Undisturbed
                 /\ \A c \in Call : CallKept(c)
                 /\ \A r \in Root : Versions(r) # {} => Current(r) # {}

\* A step of c that writes no row.
LEMMA KeptQuietly ==
    ASSUME TypeInv, KeptInv, row' = row, alone' = alone, NEW c \in Call,
           \A d \in Call : d # c => call'[d] = call[d],
           KeepsRows => CallKept(c)',
           (InFlight(c) \/ ~InFlight(c)') \/ (KeepsRows => Undisturbed')
    PROVE  KeptInv'
<1> SUFFICES ASSUME KeepsRows PROVE KeptInv'
  BY DEF KeptInv, KeepsRows
<1>1. \A r \in Root : Versions(r)' # {} => Current(r)' # {}
  BY DEF KeptInv, Versions, Current, Exists
<1>2. ASSUME NEW d \in Call, d # c PROVE CallKept(d)'
  <2>1. CallKept(d) /\ call'[d] = call[d]
    BY <1>2 DEF KeptInv
  <2> QED
    BY <2>1 DEF CallKept, Versions, RootOf, Exists
<1>3. Undisturbed'
  BY RecordTypes DEF KeptInv, Undisturbed, InFlight
<1> QED
  BY <1>1, <1>2, <1>3 DEF KeptInv

LEMMA KeptAnswer ==
    ASSUME TypeInv, KeptInv, row' = row, alone' = alone, NEW c \in Call, Answer(c)
    PROVE  KeptInv'
<1>1. /\ call'[c].pc = "done" /\ ~InFlight(c)'
      /\ \A d \in Call : d # c => call'[d] = call[d]
  BY Answered
<1>2. CallKept(c)'
  BY <1>1 DEF CallKept
<1> QED
  BY <1>1, <1>2, KeptQuietly

LEMMA KeptBegin ==
    ASSUME TypeInv, RootsInv, KeptInv, NEW c \in Call \ Rewrite, InFlight(c), Begin(c),
           call[c].pc # "done", c \in Restore => call[c].pc = "checked"
    PROVE  KeptInv'
<1>1. /\ call'[c].pc = "writing" /\ call'[c].snap = Versions(call[c].root)
      /\ call'[c].root = call[c].root /\ call'[c].file = call[c].file
      /\ \A d \in Call : d # c => call'[d] = call[d]
  BY Began
<1>2. row' = row /\ alone' = alone /\ call[c].root \in Root
  BY DEF Begin, RootsInv
<1>3. \A v \in Versions(call[c].root) : Exists(v) /\ RootOf(v) = call[c].root
  BY <1>2, VersionsByRoot
<1>4. KeepsRows => CallKept(c)'
  BY <1>1, <1>2, <1>3 DEF KeptInv, CallKept, Versions, RootOf, Exists
<1> QED
  BY <1>1, <1>2, <1>4, KeptQuietly

LEMMA KeptResolve ==
    ASSUME TypeInv, RootsInv, KeptInv, NEW c \in Call, Resolve(c)
    PROVE  KeptInv'
<1>1. PICK v \in Version :
         /\ Exists(v)
         /\ call'[c] = IF c \in Rewrite
                       THEN [IdleHandler EXCEPT !.pc = "resolved", !.file = v, !.seen = row[v]]
                       ELSE [IdleHandler EXCEPT !.pc = "resolved", !.root = RootOf(v)]
         /\ \A d \in Call : d # c => call'[d] = call[d]
  BY Resolved
<1>2. row' = row /\ alone' = alone /\ call[c].pc = "idle"
  BY DEF Resolve, MayStart
<1>3. call'[c].pc = "resolved"
  BY <1>1 DEF IdleHandler
<1>4. KeepsRows => Undisturbed'
  BY <1>1, <1>2, RecordTypes DEF Resolve, MayStart, KeptInv, KeepsRows, Undisturbed, InFlight
<1>5. KeepsRows => CallKept(c)'
  <2>1. c \in Rewrite => call'[c].seen = row[v] /\ call'[c].file = v
    BY <1>1 DEF IdleHandler
  <2> QED
    BY <1>2, <1>3, <2>1 DEF KeptInv, CallKept, Exists
<1> QED
  BY <1>1, <1>2, <1>4, <1>5, KeptQuietly

\* A commit that leaves every row there and in its place leaves the other calls right.
LEMMA OthersKept ==
    ASSUME TypeInv, NEW c \in Call, NEW d \in Call, d # c, CallKept(d), call'[d] = call[d],
           d \notin Rewrite \cup Delete \/ ~InFlight(d),
           \A v \in Version : Exists(v) => Exists(v)' /\ RootOf(v)' = RootOf(v),
           d \in Upload => Exists(d)' = Exists(d)
    PROVE  CallKept(d)'
<1>1. call[d].snap \subseteq Version
  BY DEF TypeInv, TypeOK, Handler
<1> QED
  BY <1>1 DEF CallKept, InFlight

LEMMA KeptUpload ==
    ASSUME TypeInv, RootsInv, KeptInv, NEW u \in Upload, UploadCommit(u)
    PROVE  KeptInv'
<1> SUFFICES ASSUME KeepsRows PROVE KeptInv'
  BY DEF KeptInv, KeepsRows, UploadCommit
<1>0. PICK root, snap : root = call[u].root /\ snap = call[u].snap
  OBVIOUS
<1>1. /\ u \in Call /\ u \notin Rewrite /\ u \notin Delete /\ u \in Version /\ u \notin Root
      /\ call[u].pc = "writing" /\ InFlight(u) /\ alone' = alone
      /\ call'[u].pc = "done" /\ ~InFlight(u)'
      /\ \A d \in Call : d # u => call'[d] = call[d]
  BY Answered, CallsAssumption, RecordTypes DEF UploadCommit, InFlight, Version
<1>2. /\ Undisturbed /\ root \in Root /\ ~Exists(u)
      /\ \A v \in snap : Exists(v) /\ RootOf(v) = root
  BY <1>0, <1>1 DEF KeptInv, CallKept, RootsInv
<1>3. /\ row'[u] = [exists |-> TRUE, parent |-> root, version |-> call[u].number, current |-> TRUE]
      /\ \A v \in Version \ {u} :
            /\ row'[v].exists = row[v].exists /\ row'[v].parent = row[v].parent
            /\ row'[v].current = IF v \in snap THEN FALSE ELSE row[v].current
  BY <1>0, <1>1 DEF UploadCommit, Superseded, TypeInv, TypeOK, Row
<1>4. \A v \in Version \ {u} : Exists(v)' = Exists(v) /\ RootOf(v)' = RootOf(v)
  BY <1>3 DEF Exists, RootOf
<1>5. ASSUME NEW d \in Call PROVE CallKept(d)'
  <2>1. CASE d = u
    BY <1>1, <2>1 DEF CallKept
  <2>2. CASE d # u
    <3>1. CallKept(d) /\ call'[d] = call[d] /\ (d \in Upload => d \in Version)
      BY <1>1, <2>2 DEF KeptInv, Version
    <3>2. d \notin Rewrite \cup Delete \/ ~InFlight(d)
      BY <1>1, <1>2, <2>2 DEF Undisturbed
    <3> QED
      BY <1>1, <1>2, <1>4, <2>2, <3>1, <3>2, OthersKept
  <2> QED
    BY <2>1, <2>2
<1>6. ASSUME NEW r \in Root, Versions(r)' # {} PROVE Current(r)' # {}
  <2>1. CASE r = root
    <3>1. u \in Versions(r)' /\ row'[u].current
      BY <1>1, <1>3, <2>1 DEF Versions, Exists
    <3> QED
      BY <3>1 DEF Current
  <2>2. CASE r # root
    <3>1. u \notin Versions(r)'
      BY <1>1, <1>3, <2>2 DEF Versions, Exists
    <3>2. \A v \in Version \ {u} : v \in Versions(r)' <=> v \in Versions(r)
      BY <1>3 DEF Versions, Exists
    <3>3. PICK v \in Versions(r) : row[v].current
      BY <1>6, <3>1, <3>2 DEF KeptInv, Current, Versions
    <3>4. v \in Version /\ v # u /\ v \notin snap
      BY <1>2, <2>2, <3>3, VersionsByRoot
    <3> QED
      BY <1>3, <3>2, <3>3, <3>4 DEF Current
  <2> QED
    BY <2>1, <2>2
<1>7. Undisturbed'
  BY <1>1, <1>2, RecordTypes DEF Undisturbed, InFlight
<1> QED
  BY <1>5, <1>6, <1>7 DEF KeptInv

LEMMA KeptRestore ==
    ASSUME TypeInv, RootsInv, KeptInv, NEW c \in Restore, RestoreCommit(c)
    PROVE  KeptInv'
<1> SUFFICES ASSUME KeepsRows PROVE KeptInv'
  BY DEF KeptInv, KeepsRows, RestoreCommit
<1>0. PICK root, snap, file :
         root = call[c].root /\ snap = call[c].snap /\ file = call[c].file
  OBVIOUS
<1>1. /\ c \in Call /\ c \notin Rewrite /\ c \notin Delete
      /\ call[c].pc = "writing" /\ InFlight(c) /\ alone' = alone
      /\ call'[c].pc = "done" /\ ~InFlight(c)'
      /\ \A d \in Call : d # c => call'[d] = call[d]
  BY Answered, CallsAssumption, RecordTypes DEF RestoreCommit, InFlight
<1>2. /\ Undisturbed /\ root \in Root
      /\ file \in Version /\ Exists(file) /\ RootOf(file) = root
      /\ \A v \in snap : Exists(v) /\ RootOf(v) = root
  BY <1>0, <1>1 DEF KeptInv, CallKept, RootsInv
<1>3. \A v \in Version :
         /\ row'[v].exists = row[v].exists /\ row'[v].parent = row[v].parent
         /\ v = file => row'[v].current
         /\ v # file => row'[v].current = IF v \in snap THEN FALSE ELSE row[v].current
  BY <1>0, <1>2 DEF RestoreCommit, Superseded, MadeCurrent, Exists, TypeInv, TypeOK, Row
<1>4. /\ \A v \in Version : Exists(v)' = Exists(v) /\ RootOf(v)' = RootOf(v)
      /\ \A r : Versions(r)' = Versions(r)
  BY <1>3, SameLineages
<1>5. ASSUME NEW d \in Call PROVE CallKept(d)'
  <2>1. CASE d = c
    BY <1>1, <2>1 DEF CallKept
  <2>2. CASE d # c
    <3>1. CallKept(d) /\ call'[d] = call[d] /\ (d \in Upload => d \in Version)
      BY <1>1, <2>2 DEF KeptInv, Version
    <3>2. d \notin Rewrite \cup Delete \/ ~InFlight(d)
      BY <1>1, <1>2, <2>2 DEF Undisturbed
    <3> QED
      BY <1>1, <1>4, <2>2, <3>1, <3>2, OthersKept
  <2> QED
    BY <2>1, <2>2
<1>6. ASSUME NEW r \in Root, Versions(r)' # {} PROVE Current(r)' # {}
  <2>1. CASE r = root
    <3>1. file \in Versions(r)'
      BY <1>2, <1>4, <2>1, VersionsByRoot
    <3> QED
      BY <1>2, <1>3, <3>1 DEF Current
  <2>2. CASE r # root
    <3>1. PICK v \in Versions(r) : row[v].current
      BY <1>4, <1>6 DEF KeptInv, Current
    <3>2. v \in Version /\ v # file /\ v \notin snap
      BY <1>2, <2>2, <3>1, VersionsByRoot
    <3> QED
      BY <1>3, <1>4, <3>1, <3>2 DEF Current
  <2> QED
    BY <2>1, <2>2
<1>7. Undisturbed'
  BY <1>1, <1>2, RecordTypes DEF Undisturbed, InFlight
<1> QED
  BY <1>5, <1>6, <1>7 DEF KeptInv

LEMMA KeptDelete ==
    ASSUME TypeInv, RootsInv, KeptInv, NEW c \in Delete, DeleteCommit(c)
    PROVE  KeptInv'
<1> SUFFICES ASSUME KeepsRows PROVE KeptInv'
  BY DEF KeptInv, KeepsRows, DeleteCommit
<1>0. PICK root, snap : root = call[c].root /\ snap = call[c].snap
  OBVIOUS
<1>1. /\ c \in Call /\ c \notin Rewrite /\ c \notin Upload
      /\ call[c].pc = "writing" /\ InFlight(c) /\ alone' = alone
      /\ call'[c].pc = "done" /\ ~InFlight(c)'
      /\ \A d \in Call : d # c => call'[d] = call[d]
  BY Answered, CallsAssumption, RecordTypes DEF DeleteCommit, InFlight
<1>2. /\ Undisturbed /\ root \in Root /\ Versions(root) \subseteq snap
      /\ \A v \in snap : RootOf(v) = root
  BY <1>0, <1>1 DEF KeptInv, CallKept, RootsInv
<1>3. \A v \in Version :
         /\ row'[v].exists = (row[v].exists /\ v \notin snap)
         /\ row'[v].parent = row[v].parent /\ row'[v].current = row[v].current
  BY <1>0 DEF DeleteCommit, Removed, TypeInv, TypeOK, Row
<1>4. \A r : Versions(r)' = Versions(r) \ snap
  BY <1>3 DEF Versions, Exists
<1>5. ASSUME NEW d \in Call PROVE CallKept(d)'
  <2>1. CASE d = c
    BY <1>1, <2>1 DEF CallKept
  <2>2. CASE d # c
    <3>1. CallKept(d) /\ call'[d] = call[d] /\ ~InFlight(d)
      BY <1>1, <1>2, <2>2 DEF KeptInv, Undisturbed
    <3>2. d \in Upload => (Exists(d)' => Exists(d))
      BY <1>3 DEF Exists, Version
    <3> QED
      BY <3>1, <3>2 DEF CallKept, InFlight
  <2> QED
    BY <2>1, <2>2
<1>6. ASSUME NEW r \in Root, Versions(r)' # {} PROVE Current(r)' # {}
  <2>1. r # root /\ Versions(r) # {}
    BY <1>2, <1>4, <1>6
  <2>2. PICK v \in Versions(r) : row[v].current
    BY <2>1 DEF KeptInv, Current
  <2>3. v \in Version /\ v \notin snap
    BY <1>2, <2>1, <2>2, VersionsByRoot
  <2> QED
    BY <1>3, <1>4, <2>2, <2>3 DEF Current
<1>7. Undisturbed'
  BY <1>1, <1>2, RecordTypes DEF Undisturbed, InFlight
<1> QED
  BY <1>5, <1>6, <1>7 DEF KeptInv

LEMMA KeptRewrite ==
    ASSUME TypeInv, RootsInv, KeptInv, NEW c \in Rewrite, RewriteSave(c)
    PROVE  KeptInv'
<1> SUFFICES ASSUME KeepsRows PROVE KeptInv'
  BY DEF KeptInv, KeepsRows, RewriteSave
<1> DEFINE file == call[c].file
           saved == [call[c].seen EXCEPT !.current = @ \/ ~Exists(file)]
<1>1. c \in Call /\ call[c].pc = "resolved" /\ alone' = alone /\ Answer(c)
  BY RecordTypes DEF RewriteSave
<1>2. file \in Version /\ call[c].seen.exists /\ call[c].seen = row[file]
  BY <1>1 DEF RootsInv, KeptInv, CallKept
<1>3. saved = row[file]
  <2>1. Exists(file) /\ row[file] \in Row
    BY <1>2 DEF Exists, TypeInv, TypeOK
  <2>2. (call[c].seen.current \/ ~Exists(file)) = row[file].current
    BY <1>2, <2>1 DEF Row
  <2> QED
    BY <1>2, <2>1, <2>2 DEF Row
<1>4. row' = row
  <2>1. row' = [row EXCEPT ![file] = saved]
    BY DEF RewriteSave
  <2> HIDE DEF file, saved
  <2> QED
    BY <1>3, <2>1 DEF TypeInv, TypeOK
<1> QED
  BY <1>1, <1>4, KeptAnswer

LEMMA KeptInvariant == Spec => []KeptInv
<1>1. Init => KeptInv
  <2> SUFFICES ASSUME Init PROVE KeptInv
    OBVIOUS
  <2>1. \A c \in Call : call[c].pc = "idle" /\ ~InFlight(c)
    BY DEF Init, IdleHandler, InFlight
  <2>2. \A v \in Version : Exists(v) <=> v \in Root
    BY DEF Init, Exists, FirstVersion, NoRow
  <2>3. \A r \in Root : Current(r) = {r}
    BY CallsAssumption DEF Init, Versions, Current, Exists, FirstVersion, NoRow, Version
  <2>4. \A c \in Call : CallKept(c)
    BY <2>1, <2>2, CallsAssumption DEF CallKept, Version
  <2> QED
    BY <2>1, <2>3, <2>4, RecordTypes DEF KeptInv, Undisturbed
<1>2. TypeInv /\ RootsInv /\ KeptInv /\ [Next]_vars => KeptInv'
  <2> SUFFICES ASSUME TypeInv, RootsInv, KeptInv, [Next]_vars PROVE KeptInv'
    OBVIOUS
  <2> USE RecordTypes
  <2>1. ASSUME NEW c \in Call, Resolve(c) PROVE KeptInv'
    BY <2>1, KeptResolve
  <2>2. ASSUME NEW u \in Upload, UploadCurrent(u) \/ UploadNumber(u) PROVE KeptInv'
    <3>1. row' = row /\ alone' = alone /\ u \in Call /\ u \notin Rewrite /\ u \notin Restore
          /\ InFlight(u) /\ u \notin Delete
      BY <2>2, CallsAssumption DEF UploadCurrent, UploadNumber, InFlight
    <3>2. CASE Answer(u)
      BY <3>1, <3>2, KeptAnswer
    <3>3. CASE ~Answer(u)
      <4>1. /\ call[u].pc # "done" /\ call'[u].pc # "writing"
            /\ \A d \in Call : d # u => call'[d] = call[d]
        BY <2>2, <3>1, <3>3 DEF UploadCurrent, UploadNumber, TypeInv, TypeOK, Handler
      <4>2. KeepsRows => CallKept(u)'
        BY <3>1, <4>1 DEF KeptInv, CallKept, Exists
      <4> QED
        BY <3>1, <4>1, <4>2, KeptQuietly
    <3> QED
      BY <3>2, <3>3
  <2>3. ASSUME NEW u \in Upload, UploadCommit(u) PROVE KeptInv'
    BY <2>3, KeptUpload
  <2>4. ASSUME NEW c \in Restore, RestoreTarget(c) PROVE KeptInv'
    <3>1. row' = row /\ alone' = alone /\ c \in Call /\ c \notin Rewrite /\ c \notin Upload
          /\ c \notin Delete /\ InFlight(c)
      BY <2>4, CallsAssumption DEF RestoreTarget, InFlight
    <3>2. CASE Answer(c)
      BY <3>1, <3>2, KeptAnswer
    <3>3. ASSUME NEW v \in Version, Exists(v), RootOf(v) = call[c].root,
                 call' = [call EXCEPT ![c].pc = "checked", ![c].file = v]
          PROVE  KeptInv'
      <4>1. /\ call'[c].pc = "checked" /\ call'[c].root = call[c].root /\ call'[c].file = v
            /\ \A d \in Call : d # c => call'[d] = call[d]
        BY <3>1, <3>3 DEF TypeInv, TypeOK, Handler
      <4>2. CallKept(c)'
        BY <3>1, <3>3, <4>1 DEF CallKept, Exists, RootOf
      <4> QED
        BY <3>1, <4>1, <4>2, KeptQuietly
    <3> QED
      BY <2>4, <3>2, <3>3 DEF RestoreTarget
  <2>5. ASSUME NEW c \in Restore, RestoreCommit(c) PROVE KeptInv'
    BY <2>5, KeptRestore
  <2>6. ASSUME NEW c \in Rewrite, RewriteSave(c) PROVE KeptInv'
    BY <2>6, KeptRewrite
  <2>7. ASSUME NEW c \in Delete, DeleteCommit(c) PROVE KeptInv'
    BY <2>7, KeptDelete
  <2>8. ASSUME NEW c \in Upload, UploadBegin(c) PROVE KeptInv'
    BY <2>8, KeptBegin, CallsAssumption DEF UploadBegin, InFlight
  <2>9. ASSUME NEW c \in Restore, RestoreBegin(c) PROVE KeptInv'
    BY <2>9, KeptBegin, CallsAssumption DEF RestoreBegin, InFlight
  <2>10. ASSUME NEW c \in Delete, DeleteBegin(c) PROVE KeptInv'
    BY <2>10, KeptBegin, CallsAssumption DEF DeleteBegin, InFlight
  <2>11. CASE UNCHANGED vars
    BY <2>11 DEF vars, KeptInv, KeepsRows, Undisturbed, CallKept, InFlight,
       Versions, Current, RootOf, Exists
  <2> QED
    BY <2>1, <2>2, <2>3, <2>4, <2>5, <2>6, <2>7, <2>8, <2>9, <2>10, <2>11
       DEF Next, UploadStep, RestoreStep, DeleteStep
<1> QED
  BY <1>1, <1>2, TypeInvariant, RootsInvariant, PTL DEF Spec

\* As long as updateFile, complete and deleteFile never overlap another call, a file
\* that still has versions is in the listings, however many uploads and restores race.
THEOREM NoFileIsHidden == Spec => []NeverHidden
<1>1. KeptInv => NeverHidden
  BY DEF KeptInv, KeepsRows, NeverHidden
<1> QED
  BY <1>1, KeptInvariant, PTL
=============================================================================
