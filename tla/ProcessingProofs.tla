-------------------------- MODULE ProcessingProofs --------------------------
(***************************************************************************)
(* Theorems about Processing for every set of files, calls and goroutines, *)
(* every retry limit and every number of faults.                           *)
(***************************************************************************)
EXTENDS Processing, TLAPS

\* A goroutine pair that is doing something does it for a task.
SlotsHaveTasks == \A s \in Slot : Busy(s) => slot[s].task \in Request

TypeInv == TypeOK /\ SlotsHaveTasks

\* What the assumptions on the constants say of the helpers.
LEMMA HelperTypes ==
    /\ \A f \in File : /\ StoredPrefixes(f) \subseteq SUBSET Object
                       /\ Assets(f) \subseteq Object
    /\ \A t \in Request : FileOf[t] \in File
    /\ \A u \in Rename : FileOf[u] \in File
    /\ NewRow \in Row
    /\ NoTask \notin Request
    /\ Budgets \subseteq [Fault -> Nat]
  BY FilesAssumption, CallsAssumption, WorkersAssumption
     DEF StoredPrefixes, Assets, Object, NewRow, Row, Status

LEMMA SpendType ==
    ASSUME left \in [Fault -> Nat], NEW k \in Fault, Spend(k)
    PROVE  left' \in [Fault -> Nat]
  BY DEF Spend

\* A record of one goroutine pair put in place of another keeps the slots typed.
LEMMA SlotUpdate ==
    ASSUME TypeInv, NEW s \in Slot, NEW rec \in Goroutines,
           rec.handler # "idle" \/ rec.proc # "none" => rec.task \in Request,
           slot' = [slot EXCEPT ![s] = rec]
    PROVE  slot' \in [Slot -> Goroutines] /\ SlotsHaveTasks'
  BY DEF TypeInv, TypeOK, SlotsHaveTasks, Busy

LEMMA GoroutineFields ==
    ASSUME NEW g \in Goroutines
    PROVE  /\ FreeSlot \in Goroutines
           /\ \A h \in {"idle", "fetch", "store", "update", "notify"} \cup HandlerResult :
                 /\ [g EXCEPT !.handler = h] \in Goroutines
                 /\ [g EXCEPT !.handler = h].handler = h
                 /\ [g EXCEPT !.handler = h].task = g.task
                 /\ [g EXCEPT !.handler = h].proc = g.proc
           /\ \A p \in {"none", "wait", "failing", "settling"} :
                 /\ [g EXCEPT !.proc = p] \in Goroutines
                 /\ [g EXCEPT !.proc = p].task = g.task
                 /\ [g EXCEPT !.proc = p].handler = g.handler
                 /\ [g EXCEPT !.proc = p].proc = p
  BY DEF Goroutines, FreeSlot, HandlerResult

LEMMA HandlerMoves ==
    ASSUME TypeInv, NEW s \in Slot, Busy(s),
           NEW h \in {"idle", "store", "update", "notify"} \cup HandlerResult,
           slot' = [slot EXCEPT ![s].handler = h]
    PROVE  slot' \in [Slot -> Goroutines] /\ SlotsHaveTasks'
<1> DEFINE rec == [slot[s] EXCEPT !.handler = h]
<1>1. slot[s] \in Goroutines /\ slot[s].task \in Request
  BY DEF TypeInv, TypeOK, SlotsHaveTasks
<1>2. slot' = [slot EXCEPT ![s] = rec]
  OBVIOUS
<1>3. rec \in Goroutines /\ rec.task \in Request
  BY <1>1 DEF Goroutines, HandlerResult
<1> HIDE DEF rec
<1> QED
  BY <1>2, <1>3, SlotUpdate

LEMMA SlotFreed ==
    ASSUME TypeInv, NEW s \in Slot, slot' = [slot EXCEPT ![s] = FreeSlot]
    PROVE  slot' \in [Slot -> Goroutines] /\ SlotsHaveTasks'
  BY SlotUpdate DEF FreeSlot, Goroutines, TypeInv, TypeOK, SlotsHaveTasks, Busy

LEMMA ReturnedType ==
    ASSUME TypeInv, NEW s \in Slot, Busy(s), NEW result \in HandlerResult,
           slot' = Returned(s, result)
    PROVE  slot' \in [Slot -> Goroutines] /\ SlotsHaveTasks'
<1>1. CASE ~Late(s)
  BY <1>1, HandlerMoves DEF Returned
<1>2. CASE Late(s) /\ slot[s].proc = "none"
  BY <1>2, SlotFreed DEF Returned
<1>3. CASE Late(s) /\ slot[s].proc # "none"
  BY <1>3, HandlerMoves DEF Returned
<1> QED
  BY <1>1, <1>2, <1>3

LEMMA TypeInvariant == Spec => []TypeInv
<1>1. Init => TypeInv
  BY HelperTypes DEF Init, TypeInv, TypeOK, SlotsHaveTasks, FreeSlot, Busy,
     CompleteCall, UpdateCall, DeleteCall, Task, Goroutines
<1>2. TypeInv /\ [Next]_vars => TypeInv'
  <2> SUFFICES ASSUME TypeInv, [Next]_vars PROVE TypeInv'
    OBVIOUS
  <2>0. /\ TypeOK /\ SlotsHaveTasks
        /\ \A s \in Slot : Busy(s) =>
              slot[s].task \in Request /\ TaskFile(s) \in File /\ row[TaskFile(s)] \in Row
    BY HelperTypes DEF TypeInv, TypeOK, SlotsHaveTasks, TaskFile
  <2>1. ASSUME NEW f \in File, PresignedPut(f) PROVE TypeInv'
    BY <2>0, <2>1 DEF PresignedPut, TypeInv, TypeOK, SlotsHaveTasks, Busy, Object
  <2>2. ASSUME NEW f \in File, DeleteRows(f) PROVE TypeInv'
    <3>1. KeysToRemove(f) \in SUBSET Object
      BY HelperTypes DEF KeysToRemove, Object
    <3>2. deletion' \in [File -> DeleteCall]
      BY <2>0, <2>2, <3>1 DEF DeleteRows, TypeOK, DeleteCall
    <3>3. row' \in [File -> Row]
      BY <2>0, <2>2 DEF DeleteRows, TypeOK, Row
    <3> QED
      BY <2>0, <2>2, <3>2, <3>3 DEF DeleteRows, TypeInv, TypeOK, SlotsHaveTasks, Busy
  <2>3. ASSUME NEW f \in File, CleanupObjects(f) PROVE TypeInv'
    BY <2>0, <2>3 DEF CleanupObjects, TypeInv, TypeOK, DeleteCall, SlotsHaveTasks, Busy
  <2>4. ASSUME NEW r \in Request, CompleteRead(r) PROVE TypeInv'
    BY <2>0, <2>4, HelperTypes
       DEF CompleteRead, TypeInv, TypeOK, CompleteCall, SlotsHaveTasks, Busy
  <2>5. ASSUME NEW r \in Request, CompleteStat(r) PROVE TypeInv'
    BY <2>0, <2>5 DEF CompleteStat, TypeInv, TypeOK, CompleteCall, SlotsHaveTasks, Busy
  <2>6. ASSUME NEW r \in Request, CompleteSave(r) PROVE TypeInv'
    <3>1. CompletedRow(r) \in Row
      BY <2>0 DEF CompletedRow, TypeOK, CompleteCall, Row, Status
    <3>2. row' \in [File -> Row]
      BY <2>0, <2>6, <3>1, HelperTypes DEF CompleteSave, Saved, TypeOK
    <3>3. req' \in [Request -> CompleteCall]
      BY <2>0, <2>6 DEF CompleteSave, TypeOK, CompleteCall
    <3> QED
      BY <2>0, <2>6, <3>2, <3>3 DEF CompleteSave, TypeInv, TypeOK, SlotsHaveTasks, Busy
  <2>7. ASSUME NEW r \in Request, CompleteEnqueue(r) PROVE TypeInv'
    BY <2>0, <2>7 DEF CompleteEnqueue, TypeInv, TypeOK, CompleteCall, Task,
       SlotsHaveTasks, Busy
  <2>8. ASSUME NEW r \in Request, CompleteEnqueueFails(r) PROVE TypeInv'
    BY <2>0, <2>8, SpendType DEF CompleteEnqueueFails, TypeInv, TypeOK, CompleteCall,
       SlotsHaveTasks, Busy, Fault
  <2>9. ASSUME NEW u \in Rename, UpdateFileRead(u) PROVE TypeInv'
    BY <2>0, <2>9, HelperTypes
       DEF UpdateFileRead, TypeInv, TypeOK, UpdateCall, SlotsHaveTasks, Busy
  <2>10. ASSUME NEW u \in Rename, UpdateFileSave(u) PROVE TypeInv'
    BY <2>0, <2>10, HelperTypes
       DEF UpdateFileSave, Saved, TypeInv, TypeOK, UpdateCall, SlotsHaveTasks, Busy
  <2>11. ASSUME NEW s \in Slot, NEW t \in Request, Dequeue(s, t) PROVE TypeInv'
    <3> DEFINE rec == [task |-> t, proc |-> "wait", err |-> "none",
                       handler |-> IF KindOf(FileOf[t]) = ServedBy(s)
                                   THEN "fetch" ELSE "error"]
    <3>1. rec \in Goroutines /\ rec.task \in Request
      BY DEF Goroutines, HandlerResult
    <3>2. slot' = [slot EXCEPT ![s] = rec]
      BY <2>11 DEF Dequeue
    <3> HIDE DEF rec
    <3>3. slot' \in [Slot -> Goroutines] /\ SlotsHaveTasks'
      BY <3>1, <3>2, SlotUpdate
    <3>4. task' \in [Request -> Task]
      BY <2>0, <2>11 DEF Dequeue, TypeOK, Task
    <3> QED
      BY <2>0, <2>11, <3>3, <3>4 DEF Dequeue, TypeInv, TypeOK
  <2>12. ASSUME NEW s \in Slot, Decode(s) \/ Download(s) PROVE TypeInv'
    <3>1. Busy(s) /\ UNCHANGED <<row, objects, req, ren, deletion, task, pushed>>
      BY <2>12 DEF Decode, Download, Busy
    <3>2. \/ slot' = [slot EXCEPT ![s].handler = "store"]
          \/ \E result \in HandlerResult : slot' = Returned(s, result)
      BY <2>12 DEF Decode, Download, HandlerResult
    <3>3. left' \in [Fault -> Nat]
      BY <2>0, <2>12, SpendType DEF Decode, Download, TypeOK, Fault
    <3>4. slot' \in [Slot -> Goroutines] /\ SlotsHaveTasks'
      BY <3>1, <3>2, HandlerMoves, ReturnedType
    <3> QED
      BY <2>0, <3>1, <3>3, <3>4 DEF TypeInv, TypeOK
  <2>13. ASSUME NEW s \in Slot, Store(s) PROVE TypeInv'
    <3>1. Busy(s) /\ UNCHANGED <<row, req, ren, deletion, task, pushed>>
      BY <2>13 DEF Store, Busy
    <3>2. \/ slot' = [slot EXCEPT ![s].handler = "update"]
          \/ slot' = Returned(s, "error")
      BY <2>13 DEF Store
    <3>3. left' \in [Fault -> Nat]
      BY <2>0, <2>13, SpendType DEF Store, TypeOK, Fault
    <3>4. slot' \in [Slot -> Goroutines] /\ SlotsHaveTasks'
      BY <3>1, <3>2, HandlerMoves, ReturnedType DEF HandlerResult
    <3>5. objects' \in [File -> SUBSET Object]
      <4>1. PICK stored \in StoredPrefixes(TaskFile(s)) :
               objects' = [objects EXCEPT ![TaskFile(s)] = @ \cup stored]
        BY <2>13 DEF Store
      <4>2. stored \subseteq Object /\ TaskFile(s) \in File
        BY <2>0, <3>1, HelperTypes
      <4> QED
        BY <2>0, <4>1, <4>2 DEF TypeOK
    <3> QED
      BY <2>0, <3>1, <3>3, <3>4, <3>5 DEF TypeInv, TypeOK
  <2>14. ASSUME NEW s \in Slot, Update(s) PROVE TypeInv'
    <3>1. Busy(s) /\ UNCHANGED <<objects, req, ren, deletion, task, pushed>>
      BY <2>14 DEF Update, Busy
    <3>2. \/ slot' = [slot EXCEPT ![s].handler = "notify"]
          \/ slot' = Returned(s, "error")
      BY <2>14 DEF Update
    <3>3. left' \in [Fault -> Nat]
      BY <2>0, <2>14, SpendType DEF Update, TypeOK, Fault
    <3>4. slot' \in [Slot -> Goroutines] /\ SlotsHaveTasks'
      BY <3>1, <3>2, HandlerMoves, ReturnedType DEF HandlerResult
    <3>5. ReadyRow(TaskFile(s)) \in Row
      BY <2>0, <3>1 DEF ReadyRow, Row, Status
    <3>6. row' \in [File -> Row]
      BY <2>0, <2>14, <3>1, <3>5 DEF Update, TypeOK
    <3> QED
      BY <2>0, <3>1, <3>3, <3>4, <3>6 DEF TypeInv, TypeOK
  <2>15. ASSUME NEW s \in Slot, Notify(s) PROVE TypeInv'
    <3>1. Busy(s) /\ UNCHANGED <<row, objects, req, ren, deletion, task>>
      BY <2>15 DEF Notify, Busy
    <3>2. left' \in [Fault -> Nat]
      BY <2>0, <2>15, SpendType DEF Notify, TypeOK, Fault
    <3>3. slot' \in [Slot -> Goroutines] /\ SlotsHaveTasks'
      BY <2>15, <3>1, ReturnedType DEF Notify, HandlerResult
    <3>4. pushed' \in [File -> SUBSET {"ready", "failed"}]
      BY <2>0, <2>15, <3>1 DEF Notify, Pushed, TypeOK
    <3> QED
      BY <2>0, <3>1, <3>2, <3>3, <3>4 DEF TypeInv, TypeOK
  <2>16. ASSUME NEW s \in Slot, Succeed(s) PROVE TypeInv'
    <3>1. slot' \in [Slot -> Goroutines] /\ SlotsHaveTasks'
      BY <2>0, <2>16, SlotUpdate, GoroutineFields DEF Succeed, FreeSlot, TypeOK
    <3>2. task' \in [Request -> Task]
      BY <2>0, <2>16 DEF Succeed, Busy, TypeOK, Task
    <3> QED
      BY <2>0, <2>16, <3>1, <3>2 DEF Succeed, TypeInv, TypeOK
  <2>17. ASSUME NEW s \in Slot, Fail(s) PROVE TypeInv'
    <3> DEFINE rec == [slot[s] EXCEPT !.proc = "failing", !.err = slot[s].handler,
                                      !.handler = "idle"]
    <3>1. rec \in Goroutines /\ rec.task \in Request
      BY <2>0, <2>17 DEF Fail, Busy, TypeOK, Goroutines, HandlerResult
    <3>2. slot' = [slot EXCEPT ![s] = rec]
      BY <2>17 DEF Fail
    <3> HIDE DEF rec
    <3>3. slot' \in [Slot -> Goroutines] /\ SlotsHaveTasks'
      BY <3>1, <3>2, SlotUpdate
    <3> QED
      BY <2>0, <2>17, <3>3 DEF Fail, TypeInv, TypeOK
  <2>18. ASSUME NEW s \in Slot, Timeout(s) PROVE TypeInv'
    <3> DEFINE rec == [slot[s] EXCEPT !.proc = "failing", !.err = "timeout",
                          !.handler = IF slot[s].handler \in HandlerResult
                                      THEN "idle" ELSE slot[s].handler]
    <3>1. rec \in Goroutines /\ rec.task \in Request
      BY <2>0, <2>18 DEF Timeout, Busy, TypeOK, Goroutines, HandlerResult
    <3>2. slot' = [slot EXCEPT ![s] = rec]
      BY <2>18 DEF Timeout
    <3> HIDE DEF rec
    <3>3. slot' \in [Slot -> Goroutines] /\ SlotsHaveTasks'
      BY <3>1, <3>2, SlotUpdate
    <3>4. left' \in [Fault -> Nat]
      BY <2>0, <2>18, SpendType DEF Timeout, TypeOK, Fault
    <3> QED
      BY <2>0, <2>18, <3>3, <3>4 DEF Timeout, TypeInv, TypeOK
  <2>19. ASSUME NEW s \in Slot, HandleTaskError(s) PROVE TypeInv'
    <3>1. slot[s] \in Goroutines /\ slot[s].task \in Request /\ TaskFile(s) \in File
      BY <2>0, <2>19 DEF HandleTaskError, Busy, TypeOK
    <3>2. slot' = [slot EXCEPT ![s] = [slot[s] EXCEPT !.proc = "settling"]]
      BY <2>19 DEF HandleTaskError
    <3>3. slot' \in [Slot -> Goroutines] /\ SlotsHaveTasks'
      BY <3>1, <3>2, SlotUpdate, GoroutineFields
    <3>4. left' \in [Fault -> Nat]
      BY <2>0, <2>19, SpendType DEF HandleTaskError, TypeOK, Fault
    <3>5. FailedRow(TaskFile(s)) \in Row
      BY <2>0, <3>1 DEF FailedRow, TypeOK, Row, Status
    <3>6. row' \in [File -> Row]
      BY <2>0, <2>19, <3>1, <3>5 DEF HandleTaskError, TypeOK
    <3>7. pushed' \in [File -> SUBSET {"ready", "failed"}]
      BY <2>0, <2>19, <3>1 DEF HandleTaskError, Pushed, TypeOK
    <3> QED
      BY <2>0, <2>19, <3>3, <3>4, <3>6, <3>7 DEF HandleTaskError, TypeInv, TypeOK
  <2>20. ASSUME NEW s \in Slot, Settle(s) PROVE TypeInv'
    <3>1. slot[s] \in Goroutines /\ slot[s].task \in Request
      BY <2>0, <2>20 DEF Settle, Busy, TypeOK
    <3> DEFINE rec == [slot[s] EXCEPT !.proc = "none"]
    <3>2. \/ slot' = [slot EXCEPT ![s] = FreeSlot]
          \/ slot' = [slot EXCEPT ![s] = rec]
      BY <2>20 DEF Settle
    <3>5. rec \in Goroutines /\ rec.task \in Request
      BY <3>1, GoroutineFields
    <3> HIDE DEF rec
    <3>3. slot' \in [Slot -> Goroutines] /\ SlotsHaveTasks'
      BY <3>2, <3>5, SlotUpdate, SlotFreed
    <3>4. task' \in [Request -> Task]
      BY <2>0, <2>20, <3>1 DEF Settle, TypeOK, Task
    <3> QED
      BY <2>0, <2>20, <3>3, <3>4 DEF Settle, TypeInv, TypeOK
  <2>21. ASSUME NEW w \in TaskKind, Crash(w) PROVE TypeInv'
    <3>1. slot' \in [Slot -> Goroutines] /\ SlotsHaveTasks'
      BY <2>0, <2>21, GoroutineFields DEF Crash, TypeOK, SlotsHaveTasks, Busy, FreeSlot
    <3>2. left' \in [Fault -> Nat]
      BY <2>0, <2>21, SpendType DEF Crash, TypeOK, Fault
    <3> QED
      BY <2>0, <2>21, <3>1, <3>2 DEF Crash, TypeInv, TypeOK
  <2>22. ASSUME NEW t \in Request, Recover(t) PROVE TypeInv'
    BY <2>0, <2>22 DEF Recover, Abandoned, TypeInv, TypeOK, Task, SlotsHaveTasks, Busy
  <2>23. CASE UNCHANGED vars
    BY <2>23 DEF vars, TypeInv, TypeOK, SlotsHaveTasks, Busy
  <2> QED
    BY <2>1, <2>2, <2>3, <2>4, <2>5, <2>6, <2>7, <2>8, <2>9, <2>10, <2>11, <2>12,
       <2>13, <2>14, <2>15, <2>16, <2>17, <2>18, <2>19, <2>20, <2>21, <2>22, <2>23
       DEF Next, CompleteStep, SlotStep, DequeueSome
<1> QED
  BY <1>1, <1>2, PTL DEF Spec

\* Every state of the pipeline is well typed; in particular no row ever holds a
\* status outside the enum of models/file.go, and no handler goroutine runs
\* without the task it was started for.
THEOREM TypeCorrect == Spec => [](TypeOK /\ SlotsHaveTasks)
  BY TypeInvariant, PTL DEF TypeInv

-----------------------------------------------------------------------------
\* What makes a row, or a copy of it a call still holds, good to write: a ready
\* one has its keys, and until a delete its keys name stored objects.
GoodRow(f, x, stored, deleted) ==
    /\ x.status = "ready" => (f \in Image \cup Video => x.preview) /\ (f \in Video => x.playlist)
    /\ deleted = "none" => /\ x.preview => "preview" \in stored
                           /\ x.playlist => {"segments", "master"} \subseteq stored

RowsGood ==
    /\ \A f \in File : GoodRow(f, row[f], objects[f], deletion[f].pc)
    /\ \A r \in Request :
          GoodRow(FileOf[r], req[r].snap, objects[FileOf[r]], deletion[FileOf[r]].pc)
    /\ \A u \in Rename :
          GoodRow(FileOf[u], ren[u].snap, objects[FileOf[u]], deletion[FileOf[u]].pc)

\* A handler about to write the keys has stored what they name.
SlotsStored ==
    \A s \in Slot : slot[s].handler = "update" /\ deletion[TaskFile(s)].pc = "none" =>
        Assets(TaskFile(s)) \subseteq objects[TaskFile(s)]

RowInv == TypeInv /\ RowsGood /\ SlotsStored

\* Objects are added, and removed only once the rows were deleted.
ObjectsKept ==
    \A f \in File : deletion'[f].pc = "none" =>
        deletion[f].pc = "none" /\ objects[f] \subseteq objects'[f]

NoNewUpdate ==
    \A s \in Slot : slot'[s].handler = "update" =>
        slot[s].handler = "update" /\ slot'[s].task = slot[s].task

LEMMA GoodRowKept ==
    ASSUME NEW f, NEW x, NEW S, NEW T, NEW d, NEW e, GoodRow(f, x, S, d),
           e = "none" => d = "none" /\ S \subseteq T
    PROVE  GoodRow(f, x, T, e)
  BY DEF GoodRow

LEMMA SlotsStoredKept ==
    ASSUME TypeInv, SlotsStored, ObjectsKept, NoNewUpdate
    PROVE  SlotsStored'
  BY HelperTypes DEF SlotsStored, ObjectsKept, NoNewUpdate, TaskFile, TypeInv, TypeOK,
     SlotsHaveTasks, Busy

\* The rows and their copies stay good when a step leaves them alone.
LEMMA RowsGoodKept ==
    ASSUME TypeInv, RowsGood, ObjectsKept,
           \A f \in File : row'[f] = row[f],
           \A r \in Request : req'[r].snap = req[r].snap,
           \A u \in Rename : ren'[u].snap = ren[u].snap
    PROVE  RowsGood'
<1>1. \A f \in File : GoodRow(f, row'[f], objects'[f], deletion'[f].pc)
  BY GoodRowKept DEF RowsGood, ObjectsKept
<1>2. \A r \in Request :
         GoodRow(FileOf[r], req'[r].snap, objects'[FileOf[r]], deletion'[FileOf[r]].pc)
  BY GoodRowKept, HelperTypes DEF RowsGood, ObjectsKept
<1>3. \A u \in Rename :
         GoodRow(FileOf[u], ren'[u].snap, objects'[FileOf[u]], deletion'[FileOf[u]].pc)
  BY GoodRowKept, HelperTypes DEF RowsGood, ObjectsKept
<1> QED
  BY <1>1, <1>2, <1>3 DEF RowsGood

\* The same when one row is written, with a good one.
LEMMA RowsGoodWritten ==
    ASSUME TypeInv, RowsGood, UNCHANGED <<objects, deletion>>,
           NEW g \in File, NEW x,
           GoodRow(g, x, objects[g], deletion[g].pc),
           row' = [row EXCEPT ![g] = x],
           \A r \in Request : req'[r].snap = req[r].snap,
           \A u \in Rename : ren'[u].snap = ren[u].snap
    PROVE  RowsGood'
  BY HelperTypes DEF RowsGood, TypeInv, TypeOK

\* A handler that returns does not begin to write.
LEMMA ReturnedWritesNothing ==
    ASSUME TypeInv, NEW s \in Slot, NEW result \in HandlerResult, slot' = Returned(s, result)
    PROVE  NoNewUpdate
  BY DEF TypeInv, TypeOK, Returned, FreeSlot, NoNewUpdate, HandlerResult, Goroutines

\* A ready file always has its keys, and its keys always name stored objects
\* until the owner deletes it: whatever attempts, late goroutines, crashes, stale
\* Saves and faults there are.
THEOREM RowsCorrect == Spec => [](ReadyIsServable /\ KeysAreBacked)
<1>1. Init => RowInv
  <2> SUFFICES ASSUME Init PROVE RowInv
    OBVIOUS
  <2>1. TypeInv
    BY HelperTypes DEF Init, TypeInv, TypeOK, SlotsHaveTasks, FreeSlot, Busy,
       CompleteCall, UpdateCall, DeleteCall, Task, Goroutines
  <2>2. RowsGood
    BY HelperTypes DEF Init, RowsGood, GoodRow, NewRow
  <2>3. SlotsStored
    BY DEF Init, SlotsStored, FreeSlot
  <2> QED
    BY <2>1, <2>2, <2>3 DEF RowInv
<1>2. RowInv /\ TypeInv' /\ [Next]_vars => RowInv'
  <2> SUFFICES ASSUME RowInv, TypeInv', [Next]_vars PROVE RowsGood' /\ SlotsStored'
    BY DEF RowInv
  <2>0. /\ TypeInv /\ TypeOK /\ RowsGood /\ SlotsStored
        /\ \A s \in Slot : Busy(s) => TaskFile(s) \in File /\ row[TaskFile(s)] \in Row
    BY HelperTypes DEF RowInv, TypeInv, TypeOK, SlotsHaveTasks, TaskFile
  <2>1. ASSUME NEW f \in File, PresignedPut(f) PROVE RowsGood' /\ SlotsStored'
    BY <2>0, <2>1, RowsGoodKept, SlotsStoredKept
       DEF PresignedPut, ObjectsKept, NoNewUpdate, TypeOK
  <2>2. ASSUME NEW f \in File, DeleteRows(f) PROVE RowsGood' /\ SlotsStored'
    <3>1. ObjectsKept /\ NoNewUpdate
      BY <2>0, <2>2 DEF DeleteRows, ObjectsKept, NoNewUpdate, TypeOK, DeleteCall
    <3>2. SlotsStored'
      BY <2>0, <3>1, SlotsStoredKept
    <3>3. \A g \in File : GoodRow(g, row'[g], objects'[g], deletion'[g].pc)
      <4> SUFFICES ASSUME NEW g \in File
                   PROVE  GoodRow(g, row'[g], objects'[g], deletion'[g].pc)
        OBVIOUS
      <4>1. /\ row'[g].status = row[g].status /\ row'[g].preview = row[g].preview
            /\ row'[g].playlist = row[g].playlist
        BY <2>0, <2>2 DEF DeleteRows, TypeOK, Row
      <4> QED
        BY <2>0, <3>1, <4>1 DEF RowsGood, GoodRow, ObjectsKept
    <3>4. \A r \in Request :
             GoodRow(FileOf[r], req'[r].snap, objects'[FileOf[r]], deletion'[FileOf[r]].pc)
      BY <2>0, <2>2, <3>1, GoodRowKept, HelperTypes DEF DeleteRows, RowsGood, ObjectsKept
    <3>5. \A u \in Rename :
             GoodRow(FileOf[u], ren'[u].snap, objects'[FileOf[u]], deletion'[FileOf[u]].pc)
      BY <2>0, <2>2, <3>1, GoodRowKept, HelperTypes DEF DeleteRows, RowsGood, ObjectsKept
    <3> QED
      BY <3>2, <3>3, <3>4, <3>5 DEF RowsGood
  <2>3. ASSUME NEW f \in File, CleanupObjects(f) PROVE RowsGood' /\ SlotsStored'
    <3>1. ObjectsKept
      BY <2>0, <2>3 DEF CleanupObjects, ObjectsKept, TypeOK, DeleteCall
    <3> QED
      BY <2>0, <2>3, <3>1, RowsGoodKept, SlotsStoredKept DEF CleanupObjects, NoNewUpdate
  <2>4. ASSUME NEW r \in Request, CompleteRead(r) PROVE RowsGood' /\ SlotsStored'
    <3>1. RowsGood'
      BY <2>0, <2>4, HelperTypes DEF CompleteRead, RowsGood, TypeOK, CompleteCall
    <3> QED
      BY <2>0, <2>4, <3>1, SlotsStoredKept DEF CompleteRead, ObjectsKept, NoNewUpdate
  <2>5. ASSUME NEW r \in Request, CompleteStat(r) PROVE RowsGood' /\ SlotsStored'
    BY <2>0, <2>5, RowsGoodKept, SlotsStoredKept
       DEF CompleteStat, ObjectsKept, NoNewUpdate, TypeOK, CompleteCall
  <2>6. ASSUME NEW r \in Request, CompleteSave(r) PROVE RowsGood' /\ SlotsStored'
    <3>1. GoodRow(FileOf[r], CompletedRow(r), objects[FileOf[r]], deletion[FileOf[r]].pc)
      BY <2>0, FilesAssumption DEF RowsGood, GoodRow, CompletedRow, TypeOK, CompleteCall, Row
    <3>2. RowsGood'
      BY <2>0, <2>6, <3>1, RowsGoodWritten, HelperTypes
         DEF CompleteSave, Saved, TypeOK, CompleteCall
    <3> QED
      BY <2>0, <2>6, <3>2, SlotsStoredKept DEF CompleteSave, ObjectsKept, NoNewUpdate
  <2>7. ASSUME NEW r \in Request, CompleteEnqueue(r) PROVE RowsGood' /\ SlotsStored'
    BY <2>0, <2>7, RowsGoodKept, SlotsStoredKept
       DEF CompleteEnqueue, ObjectsKept, NoNewUpdate, TypeOK, CompleteCall
  <2>8. ASSUME NEW r \in Request, CompleteEnqueueFails(r) PROVE RowsGood' /\ SlotsStored'
    BY <2>0, <2>8, RowsGoodKept, SlotsStoredKept
       DEF CompleteEnqueueFails, ObjectsKept, NoNewUpdate, TypeOK, CompleteCall
  <2>9. ASSUME NEW u \in Rename, UpdateFileRead(u) PROVE RowsGood' /\ SlotsStored'
    <3>1. RowsGood'
      BY <2>0, <2>9, HelperTypes DEF UpdateFileRead, RowsGood, TypeOK, UpdateCall
    <3> QED
      BY <2>0, <2>9, <3>1, SlotsStoredKept DEF UpdateFileRead, ObjectsKept, NoNewUpdate
  <2>10. ASSUME NEW u \in Rename, UpdateFileSave(u) PROVE RowsGood' /\ SlotsStored'
    <3>1. GoodRow(FileOf[u], ren[u].snap, objects[FileOf[u]], deletion[FileOf[u]].pc)
      BY <2>0 DEF RowsGood
    <3>2. RowsGood'
      BY <2>0, <2>10, <3>1, RowsGoodWritten, HelperTypes
         DEF UpdateFileSave, Saved, TypeOK, UpdateCall
    <3> QED
      BY <2>0, <2>10, <3>2, SlotsStoredKept DEF UpdateFileSave, ObjectsKept, NoNewUpdate
  <2>11. ASSUME NEW s \in Slot, NEW t \in Request, Dequeue(s, t)
         PROVE  RowsGood' /\ SlotsStored'
    <3>1. NoNewUpdate
      BY <2>0, <2>11 DEF Dequeue, NoNewUpdate, TypeOK
    <3> QED
      BY <2>0, <2>11, <3>1, RowsGoodKept, SlotsStoredKept DEF Dequeue, ObjectsKept
  <2>12. ASSUME NEW s \in Slot, Decode(s) \/ Download(s) PROVE RowsGood' /\ SlotsStored'
    <3>1. \/ slot' = [slot EXCEPT ![s].handler = "store"]
          \/ \E result \in HandlerResult : slot' = Returned(s, result)
      BY <2>12 DEF Decode, Download, HandlerResult
    <3>2. NoNewUpdate
      BY <2>0, <3>1, ReturnedWritesNothing DEF NoNewUpdate, TypeOK, Goroutines
    <3> QED
      BY <2>0, <2>12, <3>2, RowsGoodKept, SlotsStoredKept DEF Decode, Download, ObjectsKept
  <2>13. ASSUME NEW s \in Slot, Store(s) PROVE RowsGood' /\ SlotsStored'
    <3>1. Busy(s) /\ UNCHANGED <<row, req, ren, deletion>>
      BY <2>13 DEF Store, Busy
    <3>2. PICK stored \in StoredPrefixes(TaskFile(s)) :
             /\ objects' = [objects EXCEPT ![TaskFile(s)] = @ \cup stored]
             /\ \/ /\ stored = Assets(TaskFile(s))
                   /\ slot' = [slot EXCEPT ![s].handler = "update"]
                \/ slot' = Returned(s, "error")
      BY <2>13 DEF Store, StoredAll
    <3>3. ObjectsKept
      BY <2>0, <3>1, <3>2 DEF ObjectsKept, TypeOK
    <3>4. RowsGood'
      BY <2>0, <3>1, <3>3, RowsGoodKept
    <3>5. CASE slot' = Returned(s, "error")
      BY <2>0, <3>3, <3>4, <3>5, ReturnedWritesNothing, SlotsStoredKept DEF HandlerResult
    <3>6. CASE /\ stored = Assets(TaskFile(s))
               /\ slot' = [slot EXCEPT ![s].handler = "update"]
      <4> SUFFICES ASSUME NEW x \in Slot, slot'[x].handler = "update",
                          deletion'[TaskFile(x)'].pc = "none"
                   PROVE  Assets(TaskFile(x)') \subseteq objects'[TaskFile(x)']
        BY <3>4 DEF SlotsStored
      <4>1. TaskFile(x)' = TaskFile(x)
        BY <2>0, <3>6 DEF TaskFile, TypeOK, Goroutines
      <4>2. CASE x = s
        BY <2>0, <3>1, <3>2, <3>6, <4>1, <4>2 DEF TypeOK
      <4>3. CASE x # s
        <5>1. slot[x].handler = "update" /\ Busy(x)
          BY <2>0, <3>6, <4>3 DEF TypeOK, Busy
        <5> QED
          BY <2>0, <3>1, <3>3, <4>1, <5>1 DEF SlotsStored, ObjectsKept
      <4> QED
        BY <4>2, <4>3
    <3> QED
      BY <3>2, <3>5, <3>6
  <2>14. ASSUME NEW s \in Slot, Update(s) PROVE RowsGood' /\ SlotsStored'
    <3>1. /\ Busy(s) /\ slot[s].handler = "update"
          /\ UNCHANGED <<objects, req, ren, deletion>>
      BY <2>14 DEF Update, Busy
    <3>2. \/ slot' = [slot EXCEPT ![s].handler = "notify"]
          \/ slot' = Returned(s, "error")
      BY <2>14 DEF Update
    <3>3. NoNewUpdate
      BY <2>0, <3>2, ReturnedWritesNothing DEF NoNewUpdate, TypeOK, Goroutines, HandlerResult
    <3>4. SlotsStored'
      BY <2>0, <3>1, <3>3, SlotsStoredKept DEF ObjectsKept
    <3>5. LET f == TaskFile(s) IN GoodRow(f, ReadyRow(f), objects[f], deletion[f].pc)
      <4> DEFINE f == TaskFile(s)
      <4>1. f \in File /\ row[f] \in Row /\ GoodRow(f, row[f], objects[f], deletion[f].pc)
        BY <2>0, <3>1 DEF RowsGood
      <4>2. deletion[f].pc = "none" => Assets(f) \subseteq objects[f]
        BY <2>0, <3>1 DEF SlotsStored
      <4>3. CASE ~row[f].exists
        BY <4>1, <4>3 DEF ReadyRow
      <4>4. CASE row[f].exists
        <5>1. /\ ReadyRow(f).status = "ready" /\ ReadyRow(f).preview = TRUE
              /\ ReadyRow(f).playlist = IF f \in Video THEN TRUE ELSE row[f].playlist
          BY <4>1, <4>4 DEF ReadyRow, Row
        <5>2. deletion[f].pc = "none" => "preview" \in objects[f]
          BY <4>2 DEF Assets
        <5>3. deletion[f].pc = "none" /\ f \in Video => {"segments", "master"} \subseteq objects[f]
          BY <4>2, FilesAssumption DEF Assets
        <5> QED
          BY <4>1, <5>1, <5>2, <5>3 DEF GoodRow
      <4> QED
        BY <4>3, <4>4
    <3>6. CASE row' = [row EXCEPT ![TaskFile(s)] = ReadyRow(TaskFile(s))]
      BY <2>0, <3>1, <3>4, <3>5, <3>6, RowsGoodWritten
    <3>7. CASE UNCHANGED row
      BY <2>0, <3>1, <3>4, <3>7, RowsGoodKept DEF ObjectsKept
    <3> QED
      BY <2>14, <3>6, <3>7 DEF Update
  <2>15. ASSUME NEW s \in Slot, Notify(s) PROVE RowsGood' /\ SlotsStored'
    <3>1. slot' = Returned(s, "ok") /\ UNCHANGED <<row, objects, req, ren, deletion>>
      BY <2>15 DEF Notify
    <3> QED
      BY <2>0, <3>1, ReturnedWritesNothing, RowsGoodKept, SlotsStoredKept
         DEF HandlerResult, ObjectsKept
  <2>16. ASSUME NEW s \in Slot, Succeed(s) \/ Fail(s) \/ Settle(s) \/ Timeout(s)
         PROVE  RowsGood' /\ SlotsStored'
    <3>1. UNCHANGED <<row, objects, req, ren, deletion>>
      BY <2>16 DEF Succeed, Fail, Settle, Timeout
    <3>2. /\ \A x \in Slot \ {s} : slot'[x] = slot[x]
          /\ slot'[s].handler = "update" =>
                slot[s].handler = "update" /\ slot'[s].task = slot[s].task
      <4>1. CASE Succeed(s)
        BY <2>0, <4>1 DEF Succeed, FreeSlot, TypeOK
      <4>2. CASE Fail(s)
        BY <2>0, <4>2 DEF Fail, TypeOK, Goroutines
      <4>3. CASE Settle(s)
        BY <2>0, <4>3 DEF Settle, FreeSlot, TypeOK, Goroutines
      <4>4. CASE Timeout(s)
        BY <2>0, <4>4 DEF Timeout, TypeOK, Goroutines
      <4> QED
        BY <2>16, <4>1, <4>2, <4>3, <4>4
    <3>3. NoNewUpdate
      BY <3>2 DEF NoNewUpdate
    <3> QED
      BY <2>0, <3>1, <3>3, RowsGoodKept, SlotsStoredKept DEF ObjectsKept
  <2>17. ASSUME NEW s \in Slot, HandleTaskError(s) PROVE RowsGood' /\ SlotsStored'
    <3>1. Busy(s) /\ UNCHANGED <<objects, req, ren, deletion>>
      BY <2>17 DEF HandleTaskError, Busy
    <3>2. NoNewUpdate
      BY <2>0, <2>17 DEF HandleTaskError, NoNewUpdate, TypeOK, Goroutines
    <3>3. SlotsStored'
      BY <2>0, <3>1, <3>2, SlotsStoredKept DEF ObjectsKept
    <3>4. LET f == TaskFile(s) IN GoodRow(f, FailedRow(f), objects[f], deletion[f].pc)
      BY <2>0, <3>1 DEF RowsGood, GoodRow, FailedRow, Row
    <3>5. CASE row' = [row EXCEPT ![TaskFile(s)] = FailedRow(TaskFile(s))]
      BY <2>0, <3>1, <3>3, <3>4, <3>5, RowsGoodWritten
    <3>6. CASE UNCHANGED row
      BY <2>0, <3>1, <3>3, <3>6, RowsGoodKept DEF ObjectsKept
    <3> QED
      BY <2>17, <3>5, <3>6 DEF HandleTaskError
  <2>18. ASSUME NEW w \in TaskKind, Crash(w) PROVE RowsGood' /\ SlotsStored'
    <3>1. NoNewUpdate
      BY <2>0, <2>18 DEF Crash, NoNewUpdate, FreeSlot
    <3> QED
      BY <2>0, <2>18, <3>1, RowsGoodKept, SlotsStoredKept DEF Crash, ObjectsKept
  <2>19. ASSUME NEW t \in Request, Recover(t) PROVE RowsGood' /\ SlotsStored'
    BY <2>0, <2>19, RowsGoodKept, SlotsStoredKept DEF Recover, Abandoned, ObjectsKept, NoNewUpdate
  <2>20. CASE UNCHANGED vars
    BY <2>0, <2>20, RowsGoodKept, SlotsStoredKept DEF vars, ObjectsKept, NoNewUpdate
  <2> QED
    BY <2>1, <2>2, <2>3, <2>4, <2>5, <2>6, <2>7, <2>8, <2>9, <2>10, <2>11, <2>12,
       <2>13, <2>14, <2>15, <2>16, <2>17, <2>18, <2>19, <2>20
       DEF Next, CompleteStep, SlotStep, DequeueSome
<1>3. RowInv => ReadyIsServable /\ KeysAreBacked
  BY DEF RowInv, RowsGood, GoodRow, ReadyIsServable, KeysAreBacked
<1> QED
  BY <1>1, <1>2, <1>3, TypeInvariant, PTL DEF Spec

\* The keys of a file that was not deleted name stored objects, ready or not.
THEOREM KeysCorrect == Spec => []KeysAreBacked
<1> QED
  BY RowsCorrect, PTL

-----------------------------------------------------------------------------
(* Tasks and the processors that hold them, whatever faults happen.        *)

\* asynq hands an attempt to one processor, which holds the task until it settles.
OneProcessor ==
    /\ \A s \in Slot : slot[s].proc # "none" => task[slot[s].task].state = "active"
    /\ \A s, x \in Slot :
          slot[s].proc # "none" /\ slot[x].proc # "none" /\ slot[s].task = slot[x].task => s = x

\* Only images and videos are enqueued, and once per call.
EnqueuedOnce ==
    \A r \in Request :
        /\ req[r].pc # "done" => task[r].state = "none"
        /\ req[r].pc = "enqueue" \/ task[r].state # "none" => FileOf[r] \notin Other

LEMMA TasksInvariant == Spec => [](OneProcessor /\ EnqueuedOnce)
<1>1. Init => OneProcessor /\ EnqueuedOnce
  BY DEF Init, OneProcessor, EnqueuedOnce, FreeSlot
<1>2. TypeInv /\ OneProcessor /\ EnqueuedOnce /\ [Next]_vars => OneProcessor' /\ EnqueuedOnce'
  <2> DEFINE Goal == OneProcessor' /\ EnqueuedOnce'
  <2> SUFFICES ASSUME TypeInv, OneProcessor, EnqueuedOnce, [Next]_vars PROVE Goal
    OBVIOUS
  <2>0. /\ TypeOK
        /\ \A s \in Slot : slot[s].proc # "none" =>
              slot[s].task \in Request /\ task[slot[s].task].state = "active"
        /\ \A s \in Slot : slot[s] \in Goroutines
    BY DEF TypeInv, TypeOK, SlotsHaveTasks, Busy, OneProcessor
  \* No goroutine pair gets a task, and no task in a processor's hands changes.
  <2>a. ASSUME \A s \in Slot : slot'[s].proc # "none" =>
                  slot[s].proc # "none" /\ slot'[s].task = slot[s].task,
               \A s \in Slot : slot'[s].proc # "none" => task'[slot[s].task] = task[slot[s].task],
               EnqueuedOnce'
        PROVE  Goal
    BY <2>0, <2>a DEF OneProcessor
  <2>1. ASSUME UNCHANGED <<req, task, slot>> PROVE Goal
    BY <2>1 DEF OneProcessor, EnqueuedOnce
  <2>2. ASSUME NEW r \in Request, CompleteRead(r) \/ CompleteStep(r) \/ CompleteEnqueueFails(r)
        PROVE  Goal
    <3>1. /\ UNCHANGED slot
          /\ \A q \in Request \ {r} : req'[q] = req[q] /\ task'[q] = task[q]
          /\ task' = task \/ (req[r].pc = "enqueue" /\ req'[r].pc = "done")
          /\ req[r].pc # "done"
          /\ req'[r].pc = "enqueue" => FileOf[r] \notin Other
      BY <2>0, <2>2 DEF CompleteRead, CompleteStep, CompleteStat, CompleteSave, CompleteEnqueue,
         CompleteEnqueueFails, TypeOK, CompleteCall
    <3>2. task[r].state = "none" /\ (req[r].pc = "enqueue" => FileOf[r] \notin Other)
      BY <3>1 DEF EnqueuedOnce
    <3>3. EnqueuedOnce'
      BY <3>1, <3>2 DEF EnqueuedOnce
    <3>4. \A s \in Slot : slot[s].proc # "none" => slot[s].task # r
      BY <2>0, <3>2
    <3> QED
      BY <2>0, <2>a, <3>1, <3>3, <3>4
  <2>3. ASSUME NEW s \in Slot, NEW t \in Request, Dequeue(s, t) PROVE Goal
    <3>1. /\ UNCHANGED req /\ task[t].state = "pending" /\ slot[s].proc = "none"
          /\ \A x \in Slot \ {s} : slot'[x] = slot[x]
          /\ slot'[s].task = t /\ slot'[s].proc = "wait"
          /\ \A q \in Request \ {t} : task'[q] = task[q]
          /\ task'[t].state = "active"
      BY <2>0, <2>3 DEF Dequeue, Busy, TypeOK, Task
    <3>2. \A x \in Slot : slot[x].proc # "none" => slot[x].task \in Request \ {t} /\ x # s
      BY <2>0, <3>1
    <3>3. \A x \in Slot \ {s} : slot'[x].proc # "none" =>
             task'[slot'[x].task].state = "active" /\ slot'[x].task # t
      BY <2>0, <3>1, <3>2
    <3>4. \A x, y \in Slot : slot'[x].proc # "none" /\ slot'[y].proc # "none"
             /\ slot'[x].task = slot'[y].task => x = y
      BY <3>1, <3>3 DEF OneProcessor
    <3>5. EnqueuedOnce'
      BY <3>1 DEF EnqueuedOnce
    <3> QED
      BY <3>1, <3>3, <3>4, <3>5 DEF OneProcessor
  <2>b. ASSUME NEW s \in Slot, UNCHANGED <<req, task>>,
               \A x \in Slot \ {s} : slot'[x] = slot[x],
               slot'[s].proc # "none" => slot[s].proc # "none" /\ slot'[s].task = slot[s].task
        PROVE  Goal
    BY <2>a, <2>b DEF EnqueuedOnce
  <2>c. ASSUME NEW s \in Slot, NEW result, UNCHANGED <<req, task>>, slot' = Returned(s, result)
        PROVE  Goal
    <3>1. /\ \A x \in Slot \ {s} : slot'[x] = slot[x]
          /\ slot'[s].proc # "none" => slot[s].proc # "none" /\ slot'[s].task = slot[s].task
      BY <2>0, <2>c DEF Returned, Late, FreeSlot, Goroutines, TypeOK
    <3> QED
      BY <2>b, <2>c, <3>1
  <2>4. ASSUME NEW s \in Slot, Decode(s) \/ Download(s) \/ Store(s) \/ Update(s) \/ Notify(s)
        PROVE  Goal
    <3>1. UNCHANGED <<req, task>>
      BY <2>4 DEF Decode, Download, Store, Update, Notify
    <3>2. CASE \E result \in HandlerResult : slot' = Returned(s, result)
      BY <2>c, <3>1, <3>2
    <3>3. CASE \E h \in {"store", "update", "notify"} : slot' = [slot EXCEPT ![s].handler = h]
      <4>1. /\ \A x \in Slot \ {s} : slot'[x] = slot[x]
            /\ slot'[s].proc = slot[s].proc /\ slot'[s].task = slot[s].task
        BY <2>0, <3>3 DEF Goroutines, TypeOK
      <4> QED
        BY <2>b, <3>1, <4>1
    <3> QED
      BY <2>4, <3>2, <3>3 DEF Decode, Download, Store, Update, Notify, HandlerResult
  <2>5. ASSUME NEW s \in Slot, Fail(s) \/ Timeout(s) \/ HandleTaskError(s) PROVE Goal
    <3>1. /\ UNCHANGED <<req, task>>
          /\ \A x \in Slot \ {s} : slot'[x] = slot[x]
          /\ slot[s].proc # "none" /\ slot'[s].task = slot[s].task
      <4>1. CASE Fail(s)
        BY <2>0, <4>1 DEF Fail, Goroutines, TypeOK
      <4>2. CASE Timeout(s)
        BY <2>0, <4>2 DEF Timeout, Goroutines, TypeOK
      <4>3. CASE HandleTaskError(s)
        BY <2>0, <4>3 DEF HandleTaskError, Goroutines, TypeOK
      <4> QED
        BY <2>5, <4>1, <4>2, <4>3
    <3> QED
      BY <2>b, <3>1
  <2>6. ASSUME NEW s \in Slot, Succeed(s) \/ Settle(s) PROVE Goal
    <3>1. /\ UNCHANGED req /\ slot[s].proc # "none"
          /\ \A x \in Slot \ {s} : slot'[x] = slot[x]
          /\ slot'[s].proc = "none"
          /\ \A q \in Request : q # slot[s].task => task'[q] = task[q]
      BY <2>0, <2>6 DEF Succeed, Settle, FreeSlot, Goroutines, TypeOK
    <3>2. task[slot[s].task].state = "active" /\ slot[s].task \in Request
      BY <2>0, <3>1
    <3>3. EnqueuedOnce'
      BY <3>1, <3>2 DEF EnqueuedOnce
    <3>4. \A x \in Slot \ {s} : slot[x].proc # "none" => slot[x].task # slot[s].task
      BY <3>1 DEF OneProcessor
    <3> QED
      BY <2>0, <2>a, <3>1, <3>3, <3>4
  <2>7. ASSUME NEW w \in TaskKind, Crash(w) PROVE Goal
    <3>1. /\ UNCHANGED <<req, task>>
          /\ \A s \in Slot : slot'[s].proc # "none" => slot'[s] = slot[s]
      BY <2>7 DEF Crash, FreeSlot
    <3> QED
      BY <2>a, <3>1 DEF EnqueuedOnce
  <2>8. ASSUME NEW t \in Request, Recover(t) PROVE Goal
    <3>1. /\ UNCHANGED <<req, slot>> /\ task[t].state = "active"
          /\ \A s \in Slot : slot[s].proc # "none" => slot[s].task # t
          /\ \A q \in Request \ {t} : task'[q] = task[q]
      BY <2>0, <2>8 DEF Recover, Abandoned, TypeOK
    <3>2. EnqueuedOnce'
      BY <3>1 DEF EnqueuedOnce
    <3> QED
      BY <2>0, <2>a, <3>1, <3>2
  <2>9. CASE UNCHANGED vars
    BY <2>1, <2>9 DEF vars
  <2>10. ASSUME NEW f \in File, PresignedPut(f) \/ DeleteRows(f) \/ CleanupObjects(f) PROVE Goal
    BY <2>1, <2>10 DEF PresignedPut, DeleteRows, CleanupObjects
  <2>11. ASSUME NEW u \in Rename, UpdateFileRead(u) \/ UpdateFileSave(u) PROVE Goal
    BY <2>1, <2>11 DEF UpdateFileRead, UpdateFileSave
  <2> HIDE DEF Goal
  <2> QED
    BY <2>2, <2>3, <2>4, <2>5, <2>6, <2>7, <2>8, <2>9, <2>10, <2>11
       DEF Next, SlotStep, DequeueSome
<1> QED
  BY <1>1, <1>2, TypeInvariant, PTL DEF Spec

\* A step uses at most one fault, and one that is used up does not happen again.
LEMMA FaultSteps == ASSUME [Next]_vars PROVE left' = left \/ \E k \in Fault : Spend(k)
  BY DEF Next, CompleteStep, SlotStep, DequeueSome, PresignedPut, DeleteRows, CleanupObjects,
     CompleteRead, CompleteStat, CompleteSave, CompleteEnqueue, CompleteEnqueueFails,
     UpdateFileRead, UpdateFileSave, Dequeue, Decode, Download, Store, Update, Notify,
     Succeed, Fail, HandleTaskError, Settle, Timeout, Crash, Recover, vars, Fault

LEMMA FaultsOnlySpent ==
    ASSUME TypeInv, [Next]_vars, NEW fault \in Fault, left[fault] = 0
    PROVE  left'[fault] = 0
  BY FaultSteps DEF Spend, TypeInv, TypeOK

\* The original of a file stays, once complete has seen it, unless the owner may
\* delete the file.
OriginalsKept ==
    /\ \A f \in File : deletion[f].pc # "none" => f \in Deletable
    /\ \A r \in Request :
          /\ FileOf[r] \notin Deletable
          /\ req[r].pc \in {"save", "enqueue"} \/ task[r].state # "none"
          => "original" \in objects[FileOf[r]]

LEMMA OriginalsInvariant == Spec => []OriginalsKept
<1>1. Init => OriginalsKept
  BY DEF Init, OriginalsKept
<1>2. TypeInv /\ OneProcessor /\ OriginalsKept /\ [Next]_vars => OriginalsKept'
  <2> SUFFICES ASSUME TypeInv, OneProcessor, OriginalsKept, [Next]_vars PROVE OriginalsKept'
    OBVIOUS
  <2>0. TypeOK /\ \A s \in Slot : slot[s].proc # "none" =>
           slot[s].task \in Request /\ task[slot[s].task].state = "active"
    BY DEF TypeInv, TypeOK, SlotsHaveTasks, Busy, OneProcessor
  \* Objects are only added, and no call or task gets further.
  <2>a. ASSUME UNCHANGED <<req, deletion>>,
               \A f \in File : "original" \in objects[f] => "original" \in objects'[f],
               \A r \in Request : task'[r].state # "none" => task[r].state # "none"
        PROVE  OriginalsKept'
    BY <2>a, HelperTypes DEF OriginalsKept
  <2>1. ASSUME NEW f \in File, PresignedPut(f) PROVE OriginalsKept'
    BY <2>0, <2>1, <2>a DEF PresignedPut, TypeOK
  <2>2. ASSUME NEW f \in File, DeleteRows(f) PROVE OriginalsKept'
    BY <2>0, <2>2 DEF DeleteRows, OriginalsKept, TypeOK, DeleteCall
  <2>3. ASSUME NEW f \in File, CleanupObjects(f) PROVE OriginalsKept'
    <3>1. f \in Deletable
      BY <2>3 DEF CleanupObjects, OriginalsKept
    <3>2. UNCHANGED <<req, task>> /\ \A g \in File : g # f => objects'[g] = objects[g]
      BY <2>0, <2>3 DEF CleanupObjects, TypeOK
    <3>3. \A g \in File : deletion'[g].pc # "none" => deletion[g].pc # "none"
      BY <2>0, <2>3 DEF CleanupObjects, TypeOK, DeleteCall
    <3> QED
      BY <3>1, <3>2, <3>3, HelperTypes DEF OriginalsKept
  <2>4. ASSUME NEW r \in Request, CompleteRead(r) \/ CompleteStep(r) \/ CompleteEnqueueFails(r)
        PROVE  OriginalsKept'
    <3>1. /\ UNCHANGED <<objects, deletion>>
          /\ \A q \in Request \ {r} : req'[q] = req[q] /\ task'[q] = task[q]
          /\ \/ task' = task /\ req'[r].pc \notin {"save", "enqueue"}
             \/ task' = task /\ req'[r].pc = "save" /\ "original" \in objects[FileOf[r]]
             \/ req[r].pc \in {"save", "enqueue"}
      BY <2>0, <2>4 DEF CompleteRead, CompleteStep, CompleteStat, CompleteSave, CompleteEnqueue,
         CompleteEnqueueFails, TypeOK, CompleteCall
    <3> QED
      BY <3>1 DEF OriginalsKept
  <2>5. ASSUME NEW u \in Rename, UpdateFileRead(u) \/ UpdateFileSave(u) PROVE OriginalsKept'
    BY <2>5, <2>a DEF UpdateFileRead, UpdateFileSave
  <2>6. ASSUME NEW s \in Slot, NEW t \in Request, Dequeue(s, t) PROVE OriginalsKept'
    BY <2>0, <2>6, <2>a DEF Dequeue, TypeOK, Task
  <2>7. ASSUME NEW s \in Slot, Decode(s) \/ Download(s) \/ Update(s) \/ Notify(s) \/ Fail(s)
                               \/ Timeout(s) \/ HandleTaskError(s)
        PROVE  OriginalsKept'
    BY <2>7, <2>a DEF Decode, Download, Update, Notify, Fail, Timeout, HandleTaskError
  <2>8. ASSUME NEW s \in Slot, Store(s) PROVE OriginalsKept'
    <3>1. PICK stored \in StoredPrefixes(TaskFile(s)) :
             objects' = [objects EXCEPT ![TaskFile(s)] = @ \cup stored]
      BY <2>8 DEF Store
    <3>2. \A f \in File : "original" \in objects[f] => "original" \in objects'[f]
      BY <2>0, <3>1 DEF TypeOK
    <3> QED
      BY <2>8, <2>a, <3>2 DEF Store
  <2>9. ASSUME NEW s \in Slot, Succeed(s) \/ Settle(s) PROVE OriginalsKept'
    <3>1. /\ UNCHANGED <<req, deletion, objects>> /\ slot[s].proc # "none"
          /\ \A q \in Request : q # slot[s].task => task'[q] = task[q]
      BY <2>0, <2>9 DEF Succeed, Settle, TypeOK
    <3>2. task[slot[s].task].state = "active"
      BY <2>0, <3>1
    <3> QED
      BY <2>a, <3>1, <3>2
  <2>10. ASSUME NEW w \in TaskKind, Crash(w) PROVE OriginalsKept'
    BY <2>10, <2>a DEF Crash
  <2>11. ASSUME NEW t \in Request, Recover(t) PROVE OriginalsKept'
    BY <2>0, <2>11, <2>a DEF Recover, Abandoned, TypeOK
  <2>12. CASE UNCHANGED vars
    BY <2>12, <2>a DEF vars
  <2> QED
    BY <2>1, <2>2, <2>3, <2>4, <2>5, <2>6, <2>7, <2>8, <2>9, <2>10, <2>11, <2>12
       DEF Next, SlotStep, DequeueSome
<1> QED
  BY <1>1, <1>2, TypeInvariant, TasksInvariant, PTL DEF Spec

-----------------------------------------------------------------------------
\* What fails an attempt, or ends it with its worker.
FaultsLeft == left["crash"] + left["timeout"] + left["work"] + left["read"] + left["db"]

\* The deployments in which nothing is dropped: no call Saves a stale row but complete
\* itself, Redis takes every task, the row of an exhausted task can be marked, and a
\* worker is only given its own task type.  Either no worker dies, or all the faults
\* together are no more than the retries of a task.
Sheltered ==
    /\ Rename = {}
    /\ \A b \in Budgets : b["enqueue"] = 0 /\ b["mark"] = 0
    /\ \A s \in Slot, r \in Request : FileOf[r] \in Other \/ KindOf(FileOf[r]) = ServedBy(s)
    /\ \A b \in Budgets :
          \/ b["crash"] = 0
          \/ /\ Video \cap Deletable = {}
             /\ \A k \in TaskKind :
                   b["crash"] + b["timeout"] + b["work"] + b["read"] + b["db"] <= MaxRetry[k]

\* A retry of the task is as good as used: its attempt failed, or was abandoned.
Charged(r) ==
    \/ Abandoned(r)
    \/ \E s \in Slot :
          /\ slot[s].task = r
          /\ \/ slot[s].proc = "wait" /\ slot[s].handler = "error"
             \/ slot[s].proc \in {"failing", "settling"} /\ slot[s].err # "skip"

RetriesUsedUp(r) == IF Charged(r) THEN task[r].retried + 1 ELSE task[r].retried

\* Every retry is paid for with a fault, and there are retries for all that are left.
RetriesCover ==
    /\ Video \cap Deletable = {}
    /\ \A k \in TaskKind : FaultsLeft <= MaxRetry[k]
    /\ \A r \in Request : task[r].state # "none" =>
          RetriesUsedUp(r) + FaultsLeft <= MaxRetry[KindOf(FileOf[r])]

LEMMA FaultsLeftStep ==
    ASSUME TypeInv, [Next]_vars
    PROVE  /\ FaultsLeft \in Nat /\ FaultsLeft' \in Nat /\ FaultsLeft' <= FaultsLeft
           /\ \A k \in {"crash", "timeout", "work", "read", "db"} :
                 Spend(k) => FaultsLeft' + 1 = FaultsLeft
<1>1. left' = left \/ \E k \in Fault : Spend(k)
  BY FaultSteps
<1>2. \A k \in Fault : left[k] \in Nat
  BY DEF TypeInv, TypeOK
<1>3. ASSUME NEW k \in Fault, Spend(k)
      PROVE  /\ left[k] > 0 /\ left'[k] = left[k] - 1
             /\ \A j \in Fault : j # k => left'[j] = left[j]
  BY <1>3 DEF Spend, TypeInv, TypeOK
<1>4. CASE left' = left
  <2>1. ~\E k \in Fault : Spend(k)
    <3> SUFFICES ASSUME NEW k \in Fault, Spend(k) PROVE FALSE
      OBVIOUS
    <3>1. left[k] = left[k] - 1
      BY <1>3, <1>4
    <3> QED
      BY <1>2, <3>1
  <2> QED
    BY <1>2, <1>4, <2>1 DEF FaultsLeft, Fault
<1>5. ASSUME NEW k \in Fault, Spend(k)
      PROVE  /\ FaultsLeft \in Nat /\ FaultsLeft' \in Nat /\ FaultsLeft' <= FaultsLeft
             /\ k \in {"crash", "timeout", "work", "read", "db"} => FaultsLeft' + 1 = FaultsLeft
  BY <1>2, <1>3, <1>5 DEF FaultsLeft, Fault
<1> QED
  BY <1>1, <1>4, <1>5 DEF Fault

LEMMA RetriesCoverStep ==
    ASSUME Sheltered, TypeInv, OneProcessor, EnqueuedOnce, OriginalsKept, RetriesCover, [Next]_vars
    PROVE  RetriesCover'
<1>0. /\ TypeOK
      /\ \A s \in Slot : slot[s].proc # "none" =>
            slot[s].task \in Request /\ task[slot[s].task].state = "active"
      /\ \A s \in Slot : slot[s] \in Goroutines
      /\ \A r \in Request : task[r].retried \in Nat
  BY DEF TypeInv, TypeOK, SlotsHaveTasks, Busy, OneProcessor, Task
<1>1. /\ FaultsLeft \in Nat /\ FaultsLeft' \in Nat /\ FaultsLeft' <= FaultsLeft
      /\ \A k \in {"crash", "timeout", "work", "read", "db"} :
            Spend(k) => FaultsLeft' + 1 = FaultsLeft
  BY FaultsLeftStep
<1>2. \A r \in Request : task[r].state # "none" => MaxRetry[KindOf(FileOf[r])] \in Nat
  BY HelperTypes, WorkersAssumption DEF EnqueuedOnce, KindOf, TaskKind, File
<1>3. \A k \in TaskKind : MaxRetry[k] \in Nat
  BY WorkersAssumption
<1> DEFINE Covered(r) == task'[r].state # "none" =>
                RetriesUsedUp(r)' + FaultsLeft' <= MaxRetry[KindOf(FileOf[r])]
<1>a. ASSUME \A r \in Request : Covered(r) PROVE RetriesCover'
  BY <1>1, <1>3, <1>a DEF RetriesCover
\* No retry is used, or one is and paid for.
<1>b. ASSUME NEW r \in Request, task'[r] = task[r], Charged(r)' => Charged(r) PROVE Covered(r)
  BY <1>0, <1>1, <1>2, <1>b DEF RetriesCover, RetriesUsedUp
<1>c. ASSUME NEW r \in Request, task'[r] = task[r], NEW k \in {"crash", "timeout", "work", "read", "db"},
             Spend(k)
      PROVE  Covered(r)
  <2>1. FaultsLeft' + 1 = FaultsLeft
    BY <1>1, <1>c
  <2>2. /\ RetriesUsedUp(r) \in Nat /\ RetriesUsedUp(r)' \in Nat
        /\ RetriesUsedUp(r)' <= RetriesUsedUp(r) + 1
    BY <1>0, <1>c DEF RetriesUsedUp
  <2>3. task[r].state # "none" => RetriesUsedUp(r) + FaultsLeft <= MaxRetry[KindOf(FileOf[r])]
    BY DEF RetriesCover
  <2>4. task'[r].state = task[r].state
    BY <1>c
  <2>5. task[r].state # "none" => MaxRetry[KindOf(FileOf[r])] \in Nat
    BY <1>2
  <2>6. \A a, b, m, n, p \in Nat : a + n <= m /\ b <= a + 1 /\ p + 1 = n => b + p <= m
    OBVIOUS
  <2> QED
    BY <1>1, <2>1, <2>2, <2>3, <2>4, <2>5, <2>6
<1>d. ASSUME UNCHANGED <<task, slot>> PROVE \A r \in Request : Covered(r)
  BY <1>b, <1>d DEF Charged, Abandoned
\* One goroutine pair moves, and keeps the task if a processor holds it.
<1>e. ASSUME NEW s \in Slot, UNCHANGED task, \A x \in Slot \ {s} : slot'[x] = slot[x],
             slot'[s].task = slot[s].task,
             slot[s].proc # "none" => slot'[s].proc # "none",
             \/ slot'[s].proc = "wait" /\ slot'[s].handler = "error"
             \/ slot'[s].proc \in {"failing", "settling"} /\ slot'[s].err # "skip"
             => \/ slot[s].proc = "wait" /\ slot[s].handler = "error"
                \/ slot[s].proc \in {"failing", "settling"} /\ slot[s].err # "skip"
      PROVE  \A r \in Request : Covered(r)
  <2> SUFFICES ASSUME NEW r \in Request, Charged(r)' PROVE Charged(r)
    BY <1>b, <1>e
  <2>1. Abandoned(r)' => Abandoned(r)
    BY <1>e DEF Abandoned
  <2> QED
    BY <1>e, <2>1 DEF Charged
<1>4. ASSUME NEW f \in File, PresignedPut(f) \/ DeleteRows(f) \/ CleanupObjects(f)
      PROVE  \A r \in Request : Covered(r)
  BY <1>4, <1>d DEF PresignedPut, DeleteRows, CleanupObjects
<1>5. ASSUME NEW r \in Request, CompleteRead(r) \/ CompleteStat(r) \/ CompleteSave(r)
                                \/ CompleteEnqueueFails(r)
      PROVE  \A q \in Request : Covered(q)
  BY <1>5, <1>d DEF CompleteRead, CompleteStat, CompleteSave, CompleteEnqueueFails
<1>6. ASSUME NEW r \in Request, CompleteEnqueue(r) PROVE \A q \in Request : Covered(q)
  <2>1. /\ UNCHANGED slot /\ req[r].pc = "enqueue"
        /\ \A q \in Request \ {r} : task'[q] = task[q]
        /\ task'[r].state = "pending" /\ task'[r].retried = 0
    BY <1>0, <1>6 DEF CompleteEnqueue, TypeOK
  <2>2. task[r].state = "none" /\ KindOf(FileOf[r]) \in TaskKind
    BY <2>1, HelperTypes DEF EnqueuedOnce, KindOf, TaskKind, File
  <2>3. ~Charged(r)'
    BY <1>0, <2>1, <2>2 DEF Charged, Abandoned
  <2>4. Covered(r)
    BY <1>1, <1>3, <2>1, <2>2, <2>3 DEF RetriesCover, RetriesUsedUp
  <2>5. ASSUME NEW q \in Request \ {r} PROVE Covered(q)
    BY <1>b, <2>1 DEF Charged, Abandoned
  <2> QED
    BY <2>4, <2>5
<1>7. ASSUME NEW u \in Rename PROVE ~UpdateFileRead(u) /\ ~UpdateFileSave(u)
  BY DEF Sheltered
<1>8. ASSUME NEW s \in Slot, NEW t \in Request, Dequeue(s, t) PROVE \A q \in Request : Covered(q)
  <2>1. /\ task[t].state = "pending" /\ slot[s].proc = "none"
        /\ \A x \in Slot \ {s} : slot'[x] = slot[x]
        /\ slot'[s].task = t /\ slot'[s].proc = "wait"
        /\ slot'[s].handler = IF KindOf(FileOf[t]) = ServedBy(s) THEN "fetch" ELSE "error"
        /\ \A q \in Request \ {t} : task'[q] = task[q]
        /\ task'[t].state = "active" /\ task'[t].retried = task[t].retried
    BY <1>0, <1>8 DEF Dequeue, Busy, TypeOK, Task
  <2>2. slot'[s].handler = "fetch"
    BY <2>1 DEF EnqueuedOnce, Sheltered
  <2>3. \A x \in Slot : slot[x].proc # "none" => slot[x].task # t
    BY <1>0, <2>1
  <2>4. ~Charged(t)' /\ ~Charged(t)
    BY <1>0, <2>1, <2>2, <2>3 DEF Charged, Abandoned
  <2>5. Covered(t)
    BY <1>0, <1>1, <1>2, <2>1, <2>4 DEF RetriesCover, RetriesUsedUp
  <2>6. ASSUME NEW q \in Request \ {t} PROVE Covered(q)
    <3>1. Charged(q)' => Charged(q)
      BY <2>1, <2>2 DEF Charged, Abandoned
    <3> QED
      BY <1>b, <2>1, <3>1
  <2> QED
    BY <2>5, <2>6
\* A handler goes on, or its result is "skip" or not waited for.
<1>f. ASSUME NEW s \in Slot, UNCHANGED task,
             \/ \E h \in {"store", "update", "notify"} : slot' = [slot EXCEPT ![s].handler = h]
             \/ \E result \in {"skip", "ok"} : slot' = Returned(s, result)
             \/ Late(s) /\ slot' = Returned(s, "error")
      PROVE  \A q \in Request : Covered(q)
  <2>1. CASE \E h \in {"store", "update", "notify", "skip", "ok"} : slot' = [slot EXCEPT ![s].handler = h]
    <3>1. /\ \A x \in Slot \ {s} : slot'[x] = slot[x]
          /\ slot'[s].task = slot[s].task /\ slot'[s].proc = slot[s].proc
          /\ slot'[s].err = slot[s].err /\ slot'[s].handler # "error"
      BY <1>0, <2>1 DEF Goroutines, TypeOK
    <3> QED
      BY <1>e, <1>f, <3>1
  <2>2. CASE slot[s].proc = "none" /\ slot' = [slot EXCEPT ![s] = FreeSlot]
    <3>1. /\ \A x \in Slot \ {s} : slot'[x] = slot[x]
          /\ slot'[s].proc = "none" /\ slot'[s].task = NoTask
      BY <1>0, <2>2 DEF FreeSlot, TypeOK
    <3>2. \A q \in Request : Charged(q)' => Charged(q)
      BY <1>f, <2>2, <3>1 DEF Charged, Abandoned
    <3> QED
      BY <1>b, <1>f, <3>2
  <2>3. CASE Late(s) /\ slot[s].proc # "none" /\ slot' = [slot EXCEPT ![s].handler = "idle"]
    <3>1. /\ \A x \in Slot \ {s} : slot'[x] = slot[x]
          /\ slot'[s].task = slot[s].task /\ slot'[s].proc = slot[s].proc
          /\ slot'[s].err = slot[s].err /\ slot'[s].proc # "wait"
      BY <1>0, <2>3 DEF Late, Goroutines, TypeOK
    <3> QED
      BY <1>e, <1>f, <3>1
  <2> QED
    BY <1>f, <2>1, <2>2, <2>3 DEF Returned
<1>9. ASSUME NEW s \in Slot, Decode(s) PROVE \A q \in Request : Covered(q)
  BY <1>9, <1>f DEF Decode
<1>10. ASSUME NEW s \in Slot, Download(s) PROVE \A q \in Request : Covered(q)
  <2>1. UNCHANGED task /\ TaskFile(s) \in Video
    BY <1>10 DEF Download
  <2>2. CASE Spend("read")
    BY <1>c, <2>1, <2>2
  <2>3. CASE ~Readable(s) /\ ~Late(s)
    <3>1. slot[s].task \in Request /\ task[slot[s].task].state = "active"
      BY <1>0, <2>3 DEF Late
    <3> QED
      BY <2>1, <2>3, <3>1 DEF OriginalsKept, RetriesCover, Readable, TaskFile
  <2>4. CASE \/ Late(s) /\ slot' = Returned(s, "error")
             \/ slot' = [slot EXCEPT ![s].handler = "store"]
             \/ slot' = Returned(s, "skip")
    BY <1>f, <2>1, <2>4
  <2> QED
    BY <1>10, <2>2, <2>3, <2>4 DEF Download
<1>11. ASSUME NEW s \in Slot, Store(s) \/ Update(s) \/ Notify(s) PROVE \A q \in Request : Covered(q)
  <2>1. /\ UNCHANGED task
        /\ \/ Spend("work") \/ Spend("db")
           \/ \E h \in {"update", "notify"} : slot' = [slot EXCEPT ![s].handler = h]
           \/ Late(s) /\ slot' = Returned(s, "error")
           \/ slot' = Returned(s, "ok")
    BY <1>11 DEF Store, Update, Notify
  <2> QED
    BY <1>c, <1>f, <2>1
<1>12. ASSUME NEW s \in Slot, Fail(s) \/ HandleTaskError(s) PROVE \A q \in Request : Covered(q)
  <2>1. CASE Fail(s)
    <3>1. /\ UNCHANGED task /\ \A x \in Slot \ {s} : slot'[x] = slot[x]
          /\ slot[s].proc = "wait" /\ slot[s].handler \in {"error", "skip"}
          /\ slot'[s].task = slot[s].task /\ slot'[s].proc = "failing"
          /\ slot'[s].err = slot[s].handler
      BY <1>0, <2>1 DEF Fail, Goroutines, TypeOK
    <3> QED
      BY <1>e, <3>1
  <2>2. CASE HandleTaskError(s)
    <3>1. /\ UNCHANGED task /\ \A x \in Slot \ {s} : slot'[x] = slot[x]
          /\ slot[s].proc = "failing" /\ slot'[s].proc = "settling"
          /\ slot'[s].task = slot[s].task /\ slot'[s].err = slot[s].err
      BY <1>0, <2>2 DEF HandleTaskError, Goroutines, TypeOK
    <3> QED
      BY <1>e, <3>1
  <2> QED
    BY <1>12, <2>1, <2>2
<1>13. ASSUME NEW s \in Slot, Timeout(s) PROVE \A q \in Request : Covered(q)
  BY <1>13, <1>c DEF Timeout
<1>14. ASSUME NEW s \in Slot, Succeed(s) \/ Settle(s) PROVE \A q \in Request : Covered(q)
  <2>0. PICK t \in Request : t = slot[s].task
    BY <1>0, <1>14 DEF Succeed, Settle
  <2>1. /\ task[t].state = "active" /\ slot[s].proc # "none"
        /\ \A x \in Slot \ {s} : slot'[x] = slot[x]
        /\ slot'[s].proc = "none"
        /\ \A q \in Request \ {t} : task'[q] = task[q]
    BY <1>0, <1>14, <2>0 DEF Succeed, Settle, FreeSlot, Goroutines, TypeOK
  <2>2. /\ task'[t].state # "active"
        /\ \/ task'[t].retried = task[t].retried
           \/ /\ task'[t].retried = task[t].retried + 1
              /\ slot[s].proc = "settling" /\ slot[s].err # "skip"
    <3>1. CASE Succeed(s)
      BY <1>0, <2>0, <2>1, <3>1 DEF Succeed, TypeOK, Task
    <3>2. CASE Settle(s)
      BY <1>0, <2>0, <2>1, <3>2 DEF Settle, Archives, TypeOK, Task
    <3> QED
      BY <1>14, <3>1, <3>2
  <2>3. ~Charged(t)'
    BY <1>0, <2>0, <2>1, <2>2 DEF Charged, Abandoned, OneProcessor
  <2>4. slot[s].proc = "settling" /\ slot[s].err # "skip" => Charged(t)
    BY <2>0 DEF Charged
  <2>5. Covered(t)
    <3>1. RetriesUsedUp(t)' <= RetriesUsedUp(t)
      BY <1>0, <2>1, <2>2, <2>3, <2>4 DEF RetriesUsedUp
    <3>2. RetriesUsedUp(t) \in Nat /\ RetriesUsedUp(t)' \in Nat
      BY <1>0, <2>1, <2>2, <2>3 DEF RetriesUsedUp
    <3> QED
      BY <1>1, <1>2, <2>1, <3>1, <3>2 DEF RetriesCover
  <2>6. ASSUME NEW q \in Request \ {t} PROVE Covered(q)
    <3>1. Charged(q)' => Charged(q)
      BY <2>0, <2>1 DEF Charged, Abandoned
    <3> QED
      BY <1>b, <2>1, <3>1
  <2> QED
    BY <2>5, <2>6
<1>15. ASSUME NEW w \in TaskKind, Crash(w) PROVE \A q \in Request : Covered(q)
  BY <1>15, <1>c DEF Crash
<1>16. ASSUME NEW t \in Request, Recover(t) PROVE \A q \in Request : Covered(q)
  <2>1. /\ UNCHANGED slot /\ Abandoned(t)
        /\ \A q \in Request \ {t} : task'[q] = task[q]
        /\ task'[t].state # "active"
        /\ task'[t].retried \in {task[t].retried, task[t].retried + 1}
    BY <1>0, <1>16 DEF Recover, TypeOK, Task
  <2>2. Charged(t) /\ ~Charged(t)' /\ task[t].state # "none"
    BY <2>1 DEF Charged, Abandoned
  <2>3. Covered(t)
    BY <1>0, <1>1, <1>2, <2>1, <2>2 DEF RetriesCover, RetriesUsedUp
  <2>4. ASSUME NEW q \in Request \ {t} PROVE Covered(q)
    <3>1. Charged(q)' => Charged(q)
      BY <2>1 DEF Charged, Abandoned
    <3> QED
      BY <1>b, <2>1, <3>1
  <2> QED
    BY <2>3, <2>4
<1>17. CASE UNCHANGED vars
  BY <1>17, <1>a, <1>d DEF vars
<1> HIDE DEF Covered
<1> QED
  BY <1>a, <1>4, <1>5, <1>6, <1>7, <1>8, <1>9, <1>10, <1>11, <1>12, <1>13, <1>14, <1>15, <1>16,
     <1>17 DEF Next, CompleteStep, SlotStep, DequeueSome

\* The attempt can still make its file ready, fail it, or be retried.
Promising(s) ==
    \/ slot[s].proc = "wait" /\ slot[s].handler \notin {"notify", "ok"}
    \/ slot[s].proc = "failing"
    \/ slot[s].proc = "settling" /\ ~Archives(s)

\* Call r, or the task it enqueued, is what file f waits for.
Carries(r, f) ==
    /\ FileOf[r] = f
    /\ \/ req[r].pc = "enqueue"
       \/ task[r].state = "pending"
       \/ \E s \in Slot : slot[s].task = r /\ Promising(s)
       \/ Abandoned(r) /\ ~RecoverArchives(r)

Carried ==
    \A f \in File : row[f].exists /\ row[f].status = "processing" =>
        \E r \in Request : Carries(r, f)

\* What Sheltered grants of the faults that are left.
Shelter ==
    /\ left["enqueue"] = 0 /\ left["mark"] = 0
    /\ left["crash"] = 0 \/ RetriesCover

\* A step of one goroutine pair that keeps its promise, or settles its file.
SlotMove(s) ==
    /\ \A x \in Slot \ {s} : slot'[x] = slot[x]
    /\ slot'[s].proc # "none" => slot[s].proc # "none" /\ slot'[s].task = slot[s].task
    /\ Promising(s) /\ row'[TaskFile(s)].exists /\ row'[TaskFile(s)].status = "processing"
          => slot'[s].task = slot[s].task /\ Promising(s)'

\* A step that puts no file in processing.
NoNewProcessing ==
    \A f \in File : row'[f].exists /\ row'[f].status = "processing" =>
        row[f].exists /\ row[f].status = "processing"

LEMMA SlotMoveKeeps ==
    ASSUME TypeInv, Carried, NEW s \in Slot, SlotMove(s), NoNewProcessing,
           UNCHANGED <<req, task>>
    PROVE  Carried'
<1> SUFFICES ASSUME NEW f \in File, row'[f].exists, row'[f].status = "processing"
             PROVE  \E r \in Request : Carries(r, f)'
  BY DEF Carried
<1>1. PICK r \in Request : Carries(r, f)
  BY DEF Carried, NoNewProcessing
<1>2. CASE req[r].pc = "enqueue" \/ task[r].state = "pending"
  BY <1>1, <1>2 DEF Carries
<1>3. CASE \E x \in Slot : slot[x].task = r /\ Promising(x)
  <2>1. PICK x \in Slot : slot[x].task = r /\ Promising(x)
    BY <1>3
  <2>2. CASE x = s
    <3>1. TaskFile(s) = f
      BY <1>1, <2>1, <2>2 DEF Carries, TaskFile
    <3> QED
      BY <1>1, <2>1, <2>2, <3>1 DEF SlotMove, Carries
  <2>3. CASE x # s
    <3>1. slot'[x] = slot[x]
      BY <2>3 DEF SlotMove
    <3>2. Promising(x)'
      BY <2>1, <3>1 DEF Promising, Archives, TaskFile
    <3> QED
      BY <1>1, <2>1, <3>1, <3>2 DEF Carries
  <2> QED
    BY <2>2, <2>3
<1>4. CASE Abandoned(r) /\ ~RecoverArchives(r)
  <2>1. Abandoned(r)'
    BY <1>4 DEF Abandoned, SlotMove
  <2> QED
    BY <1>1, <1>4, <2>1 DEF Carries, RecoverArchives
<1> QED
  BY <1>1, <1>2, <1>3, <1>4 DEF Carries

\* A step that leaves the goroutines alone, and no call or task worse off.
LEMMA CallStepKeeps ==
    ASSUME TypeInv, Carried, UNCHANGED slot,
           NEW r \in Request,
           \A q \in Request \ {r} : req'[q].pc = req[q].pc /\ task'[q] = task[q],
           task'[r] # task[r] =>
               /\ \A x \in Slot : slot[x].proc # "none" => slot[x].task # r
               /\ task[r].state = "pending" => task'[r].state = "pending"
               /\ Abandoned(r) => RecoverArchives(r) \/ task'[r].state = "pending",
           req[r].pc = "enqueue" => req'[r].pc = "enqueue" \/ task'[r].state = "pending",
           \A f \in File : row'[f].exists /\ row'[f].status = "processing" =>
               \/ row[f].exists /\ row[f].status = "processing"
               \/ FileOf[r] = f /\ req'[r].pc = "enqueue"
    PROVE  Carried'
<1> SUFFICES ASSUME NEW f \in File, row'[f].exists, row'[f].status = "processing"
             PROVE  \E q \in Request : Carries(q, f)'
  BY DEF Carried
<1>1. CASE FileOf[r] = f /\ req'[r].pc = "enqueue"
  BY <1>1 DEF Carries
<1>2. CASE row[f].exists /\ row[f].status = "processing"
  <2>1. PICK q \in Request : Carries(q, f)
    BY <1>2 DEF Carried
  <2>2. CASE req[q].pc = "enqueue" \/ task[q].state = "pending"
    BY <2>1, <2>2 DEF Carries
  <2>3. CASE \E x \in Slot : slot[x].task = q /\ Promising(x)
    <3>1. PICK x \in Slot : slot[x].task = q /\ Promising(x)
      BY <2>3
    <3>2. slot[x].proc # "none"
      BY <3>1 DEF Promising
    <3>3. task'[q] = task[q]
      BY <3>1, <3>2
    <3>4. Promising(x)'
      BY <3>1, <3>3 DEF Promising, Archives, TaskFile
    <3> QED
      BY <2>1, <3>1, <3>4 DEF Carries
  <2>4. CASE Abandoned(q) /\ ~RecoverArchives(q)
    <3>1. CASE task'[q] = task[q]
      BY <2>1, <2>4, <3>1 DEF Carries, Abandoned, RecoverArchives
    <3>2. CASE task'[q] # task[q]
      BY <2>1, <2>4, <3>2 DEF Carries
    <3> QED
      BY <3>1, <3>2
  <2> QED
    BY <2>1, <2>2, <2>3, <2>4 DEF Carries
<1> QED
  BY <1>1, <1>2

\* The tasks of a worker that dies are abandoned, and there is a retry for each.
LEMMA CrashKeeps ==
    ASSUME TypeInv, OneProcessor, EnqueuedOnce, Carried, Shelter,
           NEW worker \in TaskKind, Crash(worker)
    PROVE  Carried'
<1>0. UNCHANGED <<row, req, task>> /\ left["crash"] > 0 /\ Spend("crash")
  BY DEF Crash, Spend
<1>1. FaultsLeft > 0 /\ FaultsLeft \in Nat
  <2>1. \A k \in Fault : left[k] \in Nat
    BY DEF TypeInv, TypeOK
  <2> QED
    BY <1>0, <2>1 DEF FaultsLeft, Fault
<1>2. \A s \in Slot : slot'[s] = slot[s] \/ slot'[s].proc = "none"
  BY DEF Crash, FreeSlot
<1>3. ASSUME NEW r \in Request, task[r].state = "active"
      PROVE  ~RecoverArchives(r)
  <2>1. KindOf(FileOf[r]) \in TaskKind
    BY <1>3, HelperTypes DEF EnqueuedOnce, KindOf, TaskKind, File
  <2>2. MaxRetry[KindOf(FileOf[r])] \in Nat /\ task[r].retried \in Nat
    BY <2>1, WorkersAssumption DEF TypeInv, TypeOK, Task
  <2>3. RetriesUsedUp(r) + FaultsLeft <= MaxRetry[KindOf(FileOf[r])]
    BY <1>0, <1>3 DEF Shelter, RetriesCover
  <2>4. RetriesUsedUp(r) \in Nat /\ task[r].retried <= RetriesUsedUp(r)
    BY <2>2 DEF RetriesUsedUp
  <2>5. \A a, b, m, n \in Nat : a <= b /\ b + n <= m /\ n > 0 => ~(a >= m)
    OBVIOUS
  <2> QED
    BY <1>1, <2>2, <2>3, <2>4, <2>5 DEF RecoverArchives
<1> SUFFICES ASSUME NEW f \in File, row[f].exists, row[f].status = "processing"
             PROVE  \E r \in Request : Carries(r, f)'
  BY <1>0 DEF Carried
<1>4. PICK r \in Request : Carries(r, f)
  BY DEF Carried
<1>5. CASE req[r].pc = "enqueue" \/ task[r].state = "pending"
  BY <1>0, <1>4, <1>5 DEF Carries
<1>6. CASE \E s \in Slot : slot[s].task = r /\ Promising(s)
  <2>1. PICK s \in Slot : slot[s].task = r /\ Promising(s)
    BY <1>6
  <2>2. slot[s].proc # "none" /\ task[r].state = "active"
    BY <2>1 DEF Promising, OneProcessor
  <2>3. CASE slot'[s] = slot[s]
    <3>1. Promising(s)'
      BY <1>0, <2>1, <2>3 DEF Promising, Archives, TaskFile
    <3> QED
      BY <1>4, <2>1, <2>3, <3>1 DEF Carries
  <2>4. CASE slot'[s].proc = "none"
    <3>1. \A x \in Slot : slot[x].proc # "none" /\ slot[x].task = r => x = s
      BY <2>1, <2>2 DEF OneProcessor
    <3>2. Abandoned(r)'
      BY <1>0, <1>2, <2>2, <2>4, <3>1 DEF Abandoned
    <3> QED
      BY <1>0, <1>3, <1>4, <2>2, <3>2 DEF Carries, RecoverArchives
  <2> QED
    BY <1>2, <2>3, <2>4
<1>7. CASE Abandoned(r) /\ ~RecoverArchives(r)
  <2>1. Abandoned(r)'
    BY <1>0, <1>2, <1>7 DEF Abandoned
  <2> QED
    BY <1>0, <1>4, <1>7, <2>1 DEF Carries, RecoverArchives
<1> QED
  BY <1>4, <1>5, <1>6, <1>7 DEF Carries

LEMMA CarriedStep ==
    ASSUME Sheltered, TypeInv, OneProcessor, EnqueuedOnce, Shelter, Carried, [Next]_vars
    PROVE  Carried'
<1>0. /\ TypeOK
      /\ \A s \in Slot : Busy(s) =>
            slot[s].task \in Request /\ TaskFile(s) \in File /\ row[TaskFile(s)] \in Row
      /\ \A s \in Slot : slot[s] \in Goroutines
  BY HelperTypes DEF TypeInv, TypeOK, SlotsHaveTasks, TaskFile
<1>1. ASSUME NEW f \in File, PresignedPut(f) \/ CleanupObjects(f) PROVE Carried'
  <2>1. UNCHANGED <<row, req, task, slot>>
    BY <1>1 DEF PresignedPut, CleanupObjects
  <2> QED
    BY <2>1 DEF Carried, Carries, Promising, Archives, TaskFile, Abandoned, RecoverArchives
<1>2. ASSUME NEW f \in File, DeleteRows(f) PROVE Carried'
  <2>1. UNCHANGED <<req, task, slot>> /\ NoNewProcessing
    BY <1>0, <1>2 DEF DeleteRows, NoNewProcessing, TypeOK, Row
  <2> QED
    BY <2>1 DEF NoNewProcessing, Carried, Carries, Promising, Archives, TaskFile, Abandoned,
       RecoverArchives
<1>3. ASSUME NEW r \in Request, CompleteRead(r) \/ CompleteStat(r) PROVE Carried'
  <2>1. /\ UNCHANGED <<row, task, slot>>
        /\ \A q \in Request \ {r} : req'[q] = req[q]
        /\ req[r].pc \in {"idle", "stat"}
    BY <1>0, <1>3 DEF CompleteRead, CompleteStat, TypeOK, CompleteCall
  <2> QED
    BY <2>1, CallStepKeeps
<1>4. ASSUME NEW r \in Request, CompleteSave(r) PROVE Carried'
  <2>1. /\ UNCHANGED <<task, slot>> /\ req[r].pc = "save"
        /\ row' = [row EXCEPT ![FileOf[r]] = CompletedRow(r)]
        /\ \A q \in Request \ {r} : req'[q] = req[q]
        /\ req'[r].pc = IF FileOf[r] \in Other THEN "done" ELSE "enqueue"
    BY <1>0, <1>4 DEF CompleteSave, Saved, TypeOK, CompleteCall
  <2>2. FileOf[r] \in Other => CompletedRow(r).status = "ready"
    BY <1>0 DEF CompletedRow, TypeOK, CompleteCall, Row
  <2>3. \A f \in File : row'[f].exists /\ row'[f].status = "processing" =>
           \/ row[f].exists /\ row[f].status = "processing"
           \/ FileOf[r] = f /\ req'[r].pc = "enqueue"
    BY <1>0, <2>1, <2>2 DEF TypeOK
  <2> QED
    BY <2>1, <2>3, CallStepKeeps
<1>5. ASSUME NEW r \in Request, CompleteEnqueue(r) PROVE Carried'
  <2>1. /\ UNCHANGED <<row, slot>> /\ req[r].pc = "enqueue"
        /\ \A q \in Request \ {r} : req'[q] = req[q] /\ task'[q] = task[q]
        /\ task'[r].state = "pending"
    BY <1>0, <1>5 DEF CompleteEnqueue, TypeOK
  <2>2. \A x \in Slot : slot[x].proc # "none" => slot[x].task # r
    BY <2>1 DEF EnqueuedOnce, OneProcessor
  <2> QED
    BY <2>1, <2>2, CallStepKeeps
<1>6. ASSUME NEW r \in Request PROVE ~CompleteEnqueueFails(r)
  BY DEF CompleteEnqueueFails, Spend, Shelter
<1>7. ASSUME NEW u \in Rename PROVE ~UpdateFileRead(u) /\ ~UpdateFileSave(u)
  BY DEF Sheltered
<1>8. ASSUME NEW s \in Slot, NEW t \in Request, Dequeue(s, t) PROVE Carried'
  <2>1. /\ UNCHANGED <<row, req>> /\ task[t].state = "pending" /\ ~Busy(s)
        /\ \A x \in Slot \ {s} : slot'[x] = slot[x]
        /\ slot'[s].task = t /\ slot'[s].proc = "wait"
        /\ slot'[s].handler \in {"fetch", "error"}
        /\ \A q \in Request \ {t} : task'[q] = task[q]
    BY <1>0, <1>8 DEF Dequeue, TypeOK, Task
  <2>2. \A x \in Slot : slot[x].proc # "none" => slot[x].task # t /\ x # s
    BY <2>1 DEF OneProcessor, Busy
  <2> SUFFICES ASSUME NEW f \in File, row[f].exists, row[f].status = "processing"
               PROVE  \E q \in Request : Carries(q, f)'
    BY <2>1 DEF Carried
  <2>3. PICK q \in Request : Carries(q, f)
    BY DEF Carried
  <2>4. CASE q = t
    BY <2>1, <2>3, <2>4 DEF Carries, Promising
  <2>5. CASE q # t /\ (req[q].pc = "enqueue" \/ task[q].state = "pending")
    BY <2>1, <2>3, <2>5 DEF Carries
  <2>6. CASE q # t /\ \E x \in Slot : slot[x].task = q /\ Promising(x)
    <3>1. PICK x \in Slot : slot[x].task = q /\ Promising(x)
      BY <2>6
    <3>2. slot'[x] = slot[x] /\ task'[q] = task[q]
      BY <2>1, <2>2, <2>6, <3>1 DEF Promising
    <3>3. Promising(x)'
      BY <3>1, <3>2 DEF Promising, Archives, TaskFile
    <3> QED
      BY <2>3, <3>1, <3>2, <3>3 DEF Carries
  <2>7. CASE q # t /\ Abandoned(q) /\ ~RecoverArchives(q)
    <3>1. Abandoned(q)' /\ task'[q] = task[q]
      BY <2>1, <2>7 DEF Abandoned
    <3> QED
      BY <2>3, <2>7, <3>1 DEF Carries, RecoverArchives
  <2> QED
    BY <2>3, <2>4, <2>5, <2>6, <2>7 DEF Carries
\* A handler that returned keeps the promise, unless it returned "ok" in time.
<1>9. ASSUME NEW s \in Slot, NEW result \in HandlerResult, UNCHANGED task,
             slot' = Returned(s, result), result # "ok" \/ ~Promising(s) \/ Late(s)
      PROVE  SlotMove(s)
  <2>1. CASE ~Late(s)
    BY <1>0, <1>9, <2>1 DEF Returned, Late, SlotMove, Promising, HandlerResult, Goroutines,
       TypeOK, TaskFile
  <2>2. CASE Late(s) /\ slot[s].proc = "none"
    BY <1>0, <1>9, <2>2 DEF Returned, Late, SlotMove, Promising, FreeSlot, TypeOK
  <2>3. CASE Late(s) /\ slot[s].proc # "none"
    <3>1. slot' = [slot EXCEPT ![s].handler = "idle"] /\ slot[s].proc \in {"failing", "settling"}
      BY <1>0, <1>9, <2>3 DEF Returned, Late, Goroutines
    <3>2. /\ slot'[s].task = slot[s].task /\ slot'[s].err = slot[s].err
          /\ slot'[s].proc = slot[s].proc /\ \A x \in Slot \ {s} : slot'[x] = slot[x]
      BY <1>0, <3>1 DEF Goroutines, TypeOK
    <3>3. Promising(s) => Promising(s)'
      BY <1>9, <3>1, <3>2 DEF Promising, Archives, TaskFile
    <3> QED
      BY <3>1, <3>2, <3>3 DEF SlotMove
  <2> QED
    BY <2>1, <2>2, <2>3
<1>10. ASSUME NEW s \in Slot, Decode(s) \/ Download(s) \/ Store(s) PROVE Carried'
  <2>1. UNCHANGED <<row, req, task>>
    BY <1>10 DEF Decode, Download, Store
  <2>2. \/ slot' = [slot EXCEPT ![s].handler = "store"]
        \/ slot' = [slot EXCEPT ![s].handler = "update"]
        \/ \E result \in {"error", "skip"} : slot' = Returned(s, result)
    BY <1>10 DEF Decode, Download, Store
  <2>3. ASSUME NEW h \in {"store", "update"}, slot' = [slot EXCEPT ![s].handler = h]
        PROVE  SlotMove(s)
    BY <1>0, <2>1, <2>3 DEF SlotMove, Promising, Archives, TaskFile, Goroutines, TypeOK
  <2>4. SlotMove(s)
    BY <1>9, <2>1, <2>2, <2>3 DEF HandlerResult
  <2> QED
    BY <2>1, <2>4, SlotMoveKeeps DEF NoNewProcessing
<1>11. ASSUME NEW s \in Slot, Update(s) PROVE Carried'
  <2>1. UNCHANGED <<req, task>> /\ Busy(s)
    BY <1>11 DEF Update, Busy
  <2>2. CASE /\ row' = [row EXCEPT ![TaskFile(s)] = ReadyRow(TaskFile(s))]
             /\ slot' = [slot EXCEPT ![s].handler = "notify"]
    <3>1. /\ row'[TaskFile(s)].exists => row'[TaskFile(s)].status = "ready"
          /\ NoNewProcessing
      BY <1>0, <2>1, <2>2 DEF ReadyRow, NoNewProcessing, TypeOK, Row
    <3>2. SlotMove(s)
      BY <1>0, <2>2, <3>1 DEF SlotMove, Goroutines, TypeOK
    <3> QED
      BY <2>1, <3>1, <3>2, SlotMoveKeeps
  <2>3. CASE UNCHANGED row /\ slot' = Returned(s, "error")
    <3>1. SlotMove(s) /\ NoNewProcessing
      BY <1>9, <2>1, <2>3 DEF HandlerResult, NoNewProcessing
    <3> QED
      BY <2>1, <3>1, SlotMoveKeeps
  <2> QED
    BY <1>11, <2>2, <2>3 DEF Update
<1>12. ASSUME NEW s \in Slot, Notify(s) PROVE Carried'
  <2>1. /\ UNCHANGED <<row, req, task>> /\ slot[s].handler = "notify"
        /\ slot' = Returned(s, "ok")
    BY <1>12 DEF Notify
  <2>2. SlotMove(s) /\ NoNewProcessing
    BY <1>9, <2>1 DEF HandlerResult, NoNewProcessing, Promising, Late
  <2> QED
    BY <2>1, <2>2, SlotMoveKeeps
<1>13. ASSUME NEW s \in Slot, Fail(s) \/ Timeout(s) PROVE Carried'
  <2>1. UNCHANGED <<row, req, task>> /\ NoNewProcessing
    BY <1>13 DEF Fail, Timeout, NoNewProcessing
  <2>2. SlotMove(s)
    <3>1. CASE Fail(s)
      BY <1>0, <3>1 DEF Fail, SlotMove, Promising, TypeOK, Goroutines
    <3>2. CASE Timeout(s)
      BY <1>0, <3>2 DEF Timeout, SlotMove, Promising, TypeOK, Goroutines
    <3> QED
      BY <1>13, <3>1, <3>2
  <2> QED
    BY <2>1, <2>2, SlotMoveKeeps
<1>14. ASSUME NEW s \in Slot, HandleTaskError(s) PROVE Carried'
  <2>1. /\ UNCHANGED <<req, task>> /\ slot[s].proc = "failing" /\ Busy(s)
        /\ slot' = [slot EXCEPT ![s].proc = "settling"]
    BY <1>14 DEF HandleTaskError, Busy
  <2>2. ~Spend("mark")
    BY DEF Spend, Shelter
  <2>3. OwnType(s)
    <3>1. task[slot[s].task].state = "active" /\ slot[s].task \in Request
      BY <1>0, <2>1 DEF OneProcessor
    <3>2. FileOf[slot[s].task] \notin Other
      BY <3>1 DEF EnqueuedOnce
    <3> QED
      BY <3>1, <3>2 DEF Sheltered, OwnType, TaskFile
  <2>4. CASE Terminal(s)
    <3>1. row' = [row EXCEPT ![TaskFile(s)] = FailedRow(TaskFile(s))]
      BY <1>14, <2>2, <2>3, <2>4 DEF HandleTaskError, MarksFailed
    <3>2. /\ row'[TaskFile(s)].exists => row'[TaskFile(s)].status = "failed"
          /\ NoNewProcessing
      BY <1>0, <2>1, <3>1 DEF FailedRow, NoNewProcessing, TypeOK, Row
    <3>3. SlotMove(s)
      BY <1>0, <2>1, <3>2 DEF SlotMove, Goroutines, TypeOK
    <3> QED
      BY <2>1, <3>2, <3>3, SlotMoveKeeps
  <2>5. CASE ~Terminal(s)
    <3>1. UNCHANGED row /\ ~Archives(s) /\ NoNewProcessing
      BY <1>14, <2>5 DEF HandleTaskError, MarksFailed, Terminal, Archives, NoNewProcessing
    <3>2. /\ slot'[s].task = slot[s].task /\ slot'[s].err = slot[s].err
          /\ slot'[s].proc = "settling" /\ \A x \in Slot \ {s} : slot'[x] = slot[x]
      BY <1>0, <2>1 DEF Goroutines, TypeOK
    <3>3. Promising(s)'
      BY <2>1, <3>1, <3>2 DEF Promising, Archives, TaskFile
    <3>4. SlotMove(s)
      BY <2>1, <3>2, <3>3 DEF SlotMove
    <3> QED
      BY <2>1, <3>1, <3>4, SlotMoveKeeps
  <2> QED
    BY <2>4, <2>5
<1>15. ASSUME NEW s \in Slot, Succeed(s) \/ Settle(s) PROVE Carried'
  <2>0. PICK t \in Request : t = slot[s].task
    BY <1>0, <1>15 DEF Succeed, Settle, Busy
  <2>1. /\ UNCHANGED <<row, req>> /\ slot[s].proc # "none"
        /\ \A x \in Slot \ {s} : slot'[x] = slot[x]
        /\ slot'[s].proc = "none"
        /\ \A q \in Request \ {t} : task'[q] = task[q]
        /\ Promising(s) => task'[t].state = "pending"
    <3>1. CASE Succeed(s)
      BY <1>0, <2>0, <3>1 DEF Succeed, Busy, Promising, FreeSlot, TypeOK
    <3>2. CASE Settle(s)
      BY <1>0, <2>0, <3>2 DEF Settle, Busy, Promising, FreeSlot, TypeOK, Goroutines
    <3> QED
      BY <1>15, <3>1, <3>2
  <2>2. task[t].state = "active" /\ ~Abandoned(t)
    BY <2>0, <2>1 DEF OneProcessor, Abandoned
  <2>3. \A x \in Slot \ {s} : slot[x].proc # "none" => slot[x].task \in Request \ {t}
    BY <1>0, <2>0, <2>1 DEF OneProcessor, Busy
  <2> SUFFICES ASSUME NEW f \in File, row[f].exists, row[f].status = "processing"
               PROVE  \E q \in Request : Carries(q, f)'
    BY <2>1 DEF Carried
  <2>4. PICK q \in Request : Carries(q, f)
    BY DEF Carried
  <2>5. CASE req[q].pc = "enqueue" \/ task[q].state = "pending"
    BY <2>1, <2>2, <2>4, <2>5 DEF Carries
  <2>6. CASE \E x \in Slot : slot[x].task = q /\ Promising(x)
    <3>1. PICK x \in Slot : slot[x].task = q /\ Promising(x)
      BY <2>6
    <3>2. CASE x = s
      BY <2>0, <2>1, <2>4, <3>1, <3>2 DEF Carries
    <3>3. CASE x # s
      <4>1. slot'[x] = slot[x] /\ task'[q] = task[q]
        BY <2>1, <2>3, <3>1, <3>3 DEF Promising
      <4>2. Promising(x)'
        BY <3>1, <4>1 DEF Promising, Archives, TaskFile
      <4> QED
        BY <2>4, <3>1, <4>1, <4>2 DEF Carries
    <3> QED
      BY <3>2, <3>3
  <2>7. CASE Abandoned(q) /\ ~RecoverArchives(q)
    <3>1. task'[q] = task[q]
      BY <2>1, <2>2, <2>7
    <3>2. Abandoned(q)'
      BY <2>1, <2>7, <3>1 DEF Abandoned
    <3> QED
      BY <2>4, <2>7, <3>1, <3>2 DEF Carries, RecoverArchives
  <2> QED
    BY <2>4, <2>5, <2>6, <2>7 DEF Carries
<1>16. ASSUME NEW w \in TaskKind, Crash(w) PROVE Carried'
  BY <1>16, CrashKeeps
<1>17. ASSUME NEW t \in Request, Recover(t) PROVE Carried'
  <2>1. /\ UNCHANGED <<row, req, slot>> /\ task[t].state = "active"
        /\ \A x \in Slot : slot[x].proc # "none" => slot[x].task # t
        /\ \A q \in Request \ {t} : task'[q] = task[q]
        /\ RecoverArchives(t) \/ task'[t].state = "pending"
    BY <1>0, <1>17 DEF Recover, Abandoned, TypeOK
  <2>2. req[t].pc # "enqueue"
    BY <2>1 DEF EnqueuedOnce
  <2> QED
    BY <2>1, <2>2, CallStepKeeps
<1>18. CASE UNCHANGED vars
  BY <1>18 DEF vars, Carried, Carries, Promising, Archives, TaskFile, Abandoned,
     RecoverArchives
<1> QED
  BY <1>1, <1>2, <1>3, <1>4, <1>5, <1>6, <1>7, <1>8, <1>10, <1>11, <1>12, <1>13, <1>14,
     <1>15, <1>16, <1>17, <1>18 DEF Next, CompleteStep, SlotStep, DequeueSome

\* Nothing is dropped where the deployment is sheltered from the faults above: for
\* every number of racing complete calls, deletes, failed attempts, passed deadlines,
\* and workers that die while there are retries for it, a file in processing is
\* always owed an attempt.
THEOREM NothingDropped == ASSUME Sheltered PROVE Spec => []ProcessingIsQueued
<1> DEFINE Inv == Shelter /\ Carried
<1>1. Init => Inv
  <2> SUFFICES ASSUME Init PROVE Inv
    OBVIOUS
  <2>1. Carried
    BY DEF Init, Carried, NewRow
  <2>2. \A r \in Request : task[r].state = "none"
    BY DEF Init
  <2>3. Shelter
    BY <2>2 DEF Init, Shelter, Sheltered, RetriesCover, FaultsLeft
  <2> QED
    BY <2>1, <2>3
<1>2. TypeInv /\ OneProcessor /\ EnqueuedOnce /\ OriginalsKept /\ Inv /\ [Next]_vars => Inv'
  <2> SUFFICES ASSUME TypeInv, OneProcessor, EnqueuedOnce, OriginalsKept, Inv, [Next]_vars
               PROVE  Inv'
    OBVIOUS
  <2>1. left'["enqueue"] = 0 /\ left'["mark"] = 0
    BY FaultsOnlySpent DEF Shelter, Fault
  <2>2. left["crash"] = 0 => left'["crash"] = 0
    BY FaultsOnlySpent DEF Fault
  <2>3. RetriesCover => RetriesCover'
    BY RetriesCoverStep
  <2>4. Carried'
    BY CarriedStep
  <2> QED
    BY <2>1, <2>2, <2>3, <2>4 DEF Shelter
<1>3. OneProcessor /\ Inv => ProcessingIsQueued
  <2> SUFFICES ASSUME OneProcessor, Inv,
                      NEW f \in File, row[f].exists, row[f].status = "processing"
               PROVE  Owed(f)
    BY DEF ProcessingIsQueued
  <2>1. PICK r \in Request : Carries(r, f)
    BY DEF Carried
  <2>2. (\E s \in Slot : slot[s].task = r /\ Promising(s)) => task[r].state = "active"
    BY DEF OneProcessor, Promising
  <2> QED
    BY <2>1, <2>2 DEF Carries, Owed, Abandoned
<1> HIDE DEF Inv
<1> QED
  BY <1>1, <1>2, <1>3, TypeInvariant, TasksInvariant, OriginalsInvariant, PTL DEF Spec
SpentFor(f) == \E t \in Request : FileOf[t] = f /\ Spent(t)

\* A failed status of a file of F, in its row or in what a call has read of it, is
\* no news.
SpentIn(F) ==
    /\ \A f \in F : row[f].status = "failed" => SpentFor(f)
    /\ \A r \in Request : req[r].snap.status # "failed"
    /\ \A u \in Rename : FileOf[u] \in F /\ ren[u].snap.status = "failed" => SpentFor(FileOf[u])

\* A processor about to archive a task of F does so because its retries are used up.
RetriesUsed(F) ==
    \A s \in Slot : slot[s].proc = "settling" /\ slot[s].err = "skip" => TaskFile(s) \notin F

\* What a spent task rests on stays as it is.
KeepsSpent ==
    /\ \A s \in Slot : slot[s].proc = "settling" =>
          slot'[s].proc = "settling" /\ slot'[s].task = slot[s].task /\ slot'[s].err = slot[s].err
    /\ \A s \in Slot : slot'[s].proc # "none" =>
          \/ slot[s].proc # "none" /\ slot'[s].task = slot[s].task
          \/ slot'[s].task \in Request /\ task[slot'[s].task].state = "pending"
    /\ \A t \in Request : task[t].state \in {"active", "archived"} => task'[t] = task[t]

LEMMA SpentStays ==
    ASSUME TypeInv, OneProcessor, KeepsSpent, NEW t \in Request, Spent(t)
    PROVE  Spent(t)'
<1>1. CASE task[t].state = "archived"
  BY <1>1 DEF KeepsSpent, Spent
<1>2. ASSUME NEW s \in Slot, slot[s].task = t, slot[s].proc = "settling", Archives(s)
      PROVE  Spent(t)'
  <2>1. task[t].state = "active"
    BY <1>2 DEF OneProcessor
  <2>2. task'[t] = task[t] /\ slot'[s].task = t /\ slot'[s].proc = "settling"
        /\ slot'[s].err = slot[s].err
    BY <1>2, <2>1 DEF KeepsSpent
  <2>3. Archives(s)'
    BY <1>2, <2>2 DEF Archives, TaskFile
  <2> QED
    BY <2>2, <2>3 DEF Spent
<1>3. CASE Abandoned(t) /\ RecoverArchives(t)
  <2>1. task'[t] = task[t] /\ task[t].state = "active"
    BY <1>3 DEF Abandoned, KeepsSpent
  <2>2. Abandoned(t)'
    BY <1>3, <2>1 DEF Abandoned, KeepsSpent
  <2> QED
    BY <1>3, <2>1, <2>2 DEF RecoverArchives, Spent
<1> QED
  BY <1>1, <1>2, <1>3 DEF Spent

\* A step with which the task of a file is spent for good.
LEMMA SpentStep ==
    ASSUME TypeInv, OneProcessor, EnqueuedOnce, NEW F \in SUBSET File, SpentIn(F),
           left["crash"] = 0 \/ RetriesUsed(F), [Next]_vars
    PROVE  SpentIn(F)'
<1>0. /\ TypeOK
      /\ \A s \in Slot : Busy(s) =>
            slot[s].task \in Request /\ TaskFile(s) \in File /\ row[TaskFile(s)] \in Row
      /\ \A s \in Slot : slot[s].proc # "none" => Busy(s) /\ task[slot[s].task].state = "active"
      /\ \A s \in Slot : slot[s] \in Goroutines
  BY HelperTypes DEF TypeInv, TypeOK, SlotsHaveTasks, Busy, OneProcessor, TaskFile
<1>k. ASSUME KeepsSpent PROVE \A f \in File : SpentFor(f) => SpentFor(f)'
  BY <1>k, SpentStays DEF SpentFor
<1>a. ASSUME KeepsSpent, UNCHANGED <<req, ren>>,
             \A f \in File : row'[f].status = "failed" => row[f].status = "failed"
      PROVE  SpentIn(F)'
  BY <1>a, <1>k, HelperTypes DEF SpentIn
<1>1. ASSUME NEW f \in File, PresignedPut(f) \/ DeleteRows(f) \/ CleanupObjects(f)
      PROVE  SpentIn(F)'
  <2>1. UNCHANGED <<req, ren, task, slot, left>>
    BY <1>1 DEF PresignedPut, DeleteRows, CleanupObjects
  <2>2. \A g \in File : row'[g].status = row[g].status
    BY <1>0, <1>1 DEF PresignedPut, DeleteRows, CleanupObjects, TypeOK, Row
  <2> QED
    BY <1>a, <2>1, <2>2 DEF KeepsSpent, SpentIn
<1>2. ASSUME NEW r \in Request, CompleteRead(r) \/ CompleteStep(r) \/ CompleteEnqueueFails(r)
      PROVE  SpentIn(F)'
  <2>1. /\ UNCHANGED <<slot, ren>>
        /\ \A q \in Request \ {r} : task'[q] = task[q]
        /\ task' = task \/ req[r].pc = "enqueue"
    BY <1>0, <1>2 DEF CompleteRead, CompleteStep, CompleteStat, CompleteSave, CompleteEnqueue,
       CompleteEnqueueFails, TypeOK
  <2>2. KeepsSpent
    BY <2>1 DEF EnqueuedOnce, KeepsSpent
  <2>3. \A q \in Request : req'[q].snap.status # "failed"
    <3>1. \/ req'[r].snap = req[r].snap
          \/ req'[r].snap = row[FileOf[r]] /\ row[FileOf[r]].status = "pending"
      BY <1>0, <1>2 DEF CompleteRead, CompleteStep, CompleteStat, CompleteSave, CompleteEnqueue,
         CompleteEnqueueFails, TypeOK, CompleteCall
    <3>2. \A q \in Request \ {r} : req'[q] = req[q]
      BY <1>0, <1>2 DEF CompleteRead, CompleteStep, CompleteStat, CompleteSave, CompleteEnqueue,
         CompleteEnqueueFails, TypeOK
    <3> QED
      BY <3>1, <3>2 DEF SpentIn
  <2>4. \A f \in File : row'[f].status = "failed" => row[f].status = "failed"
    <3>1. CASE CompleteSave(r)
      <4>1. CompletedRow(r).status # "failed"
        BY <1>0 DEF CompletedRow, TypeOK, CompleteCall, Row
      <4> QED
        BY <1>0, <3>1, <4>1 DEF CompleteSave, Saved, TypeOK
    <3>2. CASE ~CompleteSave(r)
      BY <1>2, <3>2 DEF CompleteRead, CompleteStep, CompleteStat, CompleteEnqueue,
         CompleteEnqueueFails
    <3> QED
      BY <3>1, <3>2
  <2> QED
    BY <1>k, <2>1, <2>2, <2>3, <2>4, HelperTypes DEF SpentIn
<1>3. ASSUME NEW u \in Rename, UpdateFileRead(u) \/ UpdateFileSave(u) PROVE SpentIn(F)'
  <2>1. /\ UNCHANGED <<req, task, slot, left>> /\ FileOf[u] \in File
        /\ \A v \in Rename \ {u} : ren'[v] = ren[v]
    BY <1>0, <1>3, HelperTypes DEF UpdateFileRead, UpdateFileSave, TypeOK
  <2>2. KeepsSpent
    BY <2>1 DEF KeepsSpent
  <2>3. CASE UpdateFileRead(u)
    <3>1. row' = row /\ ren'[u].snap = row[FileOf[u]]
      BY <1>0, <2>3 DEF UpdateFileRead, TypeOK
    <3> QED
      BY <1>k, <2>1, <2>2, <3>1, HelperTypes DEF SpentIn
  <2>4. CASE UpdateFileSave(u)
    <3>1. /\ ren'[u].snap = ren[u].snap /\ row'[FileOf[u]] = ren[u].snap
          /\ \A f \in File : f # FileOf[u] => row'[f] = row[f]
      BY <1>0, <2>1, <2>4 DEF UpdateFileSave, Saved, TypeOK, UpdateCall
    <3> QED
      BY <1>k, <2>1, <2>2, <3>1, HelperTypes DEF SpentIn
  <2> QED
    BY <1>3, <2>3, <2>4
<1>4. ASSUME NEW s \in Slot, NEW t \in Request, Dequeue(s, t) PROVE SpentIn(F)'
  <2>1. /\ UNCHANGED <<row, req, ren>> /\ task[t].state = "pending"
        /\ slot[s].proc = "none" /\ \A x \in Slot \ {s} : slot'[x] = slot[x]
        /\ slot'[s].task = t
        /\ \A q \in Request \ {t} : task'[q] = task[q]
    BY <1>0, <1>4 DEF Dequeue, Busy, TypeOK
  <2> QED
    BY <1>a, <2>1 DEF KeepsSpent, SpentIn
<1>b. ASSUME NEW s \in Slot, UNCHANGED task, \A x \in Slot \ {s} : slot'[x] = slot[x],
             slot[s].proc = "settling" =>
                slot'[s].proc = "settling" /\ slot'[s].task = slot[s].task
                /\ slot'[s].err = slot[s].err,
             slot'[s].proc # "none" => slot[s].proc # "none" /\ slot'[s].task = slot[s].task
      PROVE  KeepsSpent
  BY <1>b DEF KeepsSpent
<1>c. ASSUME NEW s \in Slot, NEW result, UNCHANGED task, slot' = Returned(s, result)
      PROVE  KeepsSpent
  <2>1. /\ \A x \in Slot \ {s} : slot'[x] = slot[x]
        /\ slot[s].proc = "settling" =>
              slot'[s].proc = "settling" /\ slot'[s].task = slot[s].task
              /\ slot'[s].err = slot[s].err
        /\ slot'[s].proc # "none" => slot[s].proc # "none" /\ slot'[s].task = slot[s].task
    BY <1>0, <1>c DEF Returned, Late, FreeSlot, Goroutines, TypeOK
  <2> QED
    BY <1>b, <1>c, <2>1
<1>5. ASSUME NEW s \in Slot, Decode(s) \/ Download(s) \/ Store(s) \/ Update(s) \/ Notify(s)
      PROVE  SpentIn(F)'
  <2>1. UNCHANGED <<req, ren, task>> /\ Busy(s)
    BY <1>5 DEF Decode, Download, Store, Update, Notify, Busy
  <2>2. KeepsSpent
    <3>1. CASE \E result \in HandlerResult : slot' = Returned(s, result)
      BY <1>c, <2>1, <3>1
    <3>2. CASE \E h \in {"store", "update", "notify"} : slot' = [slot EXCEPT ![s].handler = h]
      <4>1. /\ \A x \in Slot \ {s} : slot'[x] = slot[x]
            /\ slot'[s].proc = slot[s].proc /\ slot'[s].task = slot[s].task
            /\ slot'[s].err = slot[s].err
        BY <1>0, <3>2 DEF Goroutines, TypeOK
      <4> QED
        BY <1>b, <2>1, <4>1
    <3> QED
      BY <1>5, <3>1, <3>2 DEF Decode, Download, Store, Update, Notify, HandlerResult
  <2>3. \A f \in File : row'[f].status = "failed" => row[f].status = "failed"
    <3>1. UNCHANGED row \/ row' = [row EXCEPT ![TaskFile(s)] = ReadyRow(TaskFile(s))]
      BY <1>5 DEF Decode, Download, Store, Update, Notify
    <3>2. ReadyRow(TaskFile(s)).status = "failed" => row[TaskFile(s)].status = "failed"
      BY <1>0, <2>1 DEF ReadyRow, Row
    <3> QED
      BY <1>0, <2>1, <3>1, <3>2 DEF TypeOK
  <2> QED
    BY <1>a, <2>1, <2>2, <2>3
<1>6. ASSUME NEW s \in Slot, Fail(s) \/ Timeout(s) PROVE SpentIn(F)'
  <2>1. /\ UNCHANGED <<row, req, ren, task>>
        /\ slot[s].proc = "wait" /\ \A x \in Slot \ {s} : slot'[x] = slot[x]
        /\ slot'[s].task = slot[s].task
    <3>1. CASE Fail(s)
      BY <1>0, <3>1 DEF Fail, Goroutines, TypeOK
    <3>2. CASE Timeout(s)
      BY <1>0, <3>2 DEF Timeout, Goroutines, TypeOK
    <3> QED
      BY <1>6, <3>1, <3>2
  <2> QED
    BY <1>a, <1>b, <2>1
<1>7. ASSUME NEW s \in Slot, HandleTaskError(s) PROVE SpentIn(F)'
  <2>1. /\ UNCHANGED <<req, ren, task>> /\ slot[s].proc = "failing" /\ Busy(s)
        /\ \A x \in Slot \ {s} : slot'[x] = slot[x]
        /\ slot'[s].proc = "settling" /\ slot'[s].task = slot[s].task
        /\ slot'[s].err = slot[s].err
    BY <1>0, <1>7 DEF HandleTaskError, Busy, Goroutines, TypeOK
  <2>2. KeepsSpent
    BY <1>b, <2>1
  <2>3. CASE row' = row
    BY <1>a, <2>1, <2>2, <2>3
  <2>4. CASE MarksFailed(s) /\ row' = [row EXCEPT ![TaskFile(s)] = FailedRow(TaskFile(s))]
    <3>1. Archives(s)'
      BY <2>1, <2>4 DEF MarksFailed, Terminal, Archives, TaskFile
    <3>2. ASSUME NEW f \in File, f = TaskFile(s) PROVE SpentFor(f)'
      BY <1>0, <2>1, <3>1, <3>2 DEF SpentFor, Spent, TaskFile
    <3>3. \A f \in File : f # TaskFile(s) => row'[f] = row[f]
      BY <1>0, <2>4 DEF TypeOK
    <3> QED
      BY <1>k, <2>1, <2>2, <3>2, <3>3, HelperTypes DEF SpentIn
  <2> QED
    BY <1>7, <2>3, <2>4 DEF HandleTaskError
<1>8. ASSUME NEW s \in Slot, Succeed(s) \/ Settle(s) PROVE SpentIn(F)'
  <2>1. /\ UNCHANGED <<row, req, ren>> /\ slot[s].proc # "none"
        /\ \A x \in Slot \ {s} : slot'[x] = slot[x]
        /\ slot'[s].proc = "none"
        /\ \A q \in Request : q # slot[s].task => task'[q] = task[q]
    BY <1>0, <1>8 DEF Succeed, Settle, FreeSlot, Goroutines, TypeOK
  <2>2. slot[s].task \in Request /\ task[slot[s].task].state = "active"
    BY <1>0, <2>1
  <2>3. ASSUME NEW t \in Request, Spent(t) PROVE Spent(t)'
    <3>1. CASE task[t].state = "archived"
      BY <2>1, <2>2, <3>1 DEF Spent
    <3>2. ASSUME NEW x \in Slot, slot[x].task = t, slot[x].proc = "settling", Archives(x)
          PROVE  Spent(t)'
      <4>1. CASE x = s
        <5>1. Settle(s)
          BY <1>8, <3>2, <4>1 DEF Succeed
        <5>2. task'[t].state = "archived"
          BY <1>0, <3>2, <4>1, <5>1 DEF Settle, TypeOK, Task
        <5> QED
          BY <5>2 DEF Spent
      <4>2. CASE x # s
        <5>1. t # slot[s].task
          BY <2>1, <3>2, <4>2 DEF OneProcessor
        <5>2. slot'[x] = slot[x] /\ task'[t] = task[t]
          BY <2>1, <4>2, <5>1
        <5>3. Archives(x)'
          BY <3>2, <5>2 DEF Archives, TaskFile
        <5> QED
          BY <3>2, <5>2, <5>3 DEF Spent
      <4> QED
        BY <4>1, <4>2
    <3>3. CASE Abandoned(t) /\ RecoverArchives(t)
      <4>1. t # slot[s].task
        BY <2>1, <3>3 DEF Abandoned
      <4> QED
        BY <2>1, <3>3, <4>1 DEF Abandoned, RecoverArchives, Spent
    <3> QED
      BY <2>3, <3>1, <3>2, <3>3 DEF Spent
  <2>4. \A f \in File : SpentFor(f) => SpentFor(f)'
    BY <2>3 DEF SpentFor
  <2> QED
    BY <2>1, <2>4, HelperTypes DEF SpentIn
<1>9. ASSUME NEW w \in TaskKind, Crash(w) PROVE SpentIn(F)'
  <2>1. /\ UNCHANGED <<row, req, ren, task>> /\ RetriesUsed(F)
        /\ \A s \in Slot : slot'[s] = slot[s] \/ slot'[s] = FreeSlot
    BY <1>9 DEF Crash, Spend
  <2>2. \A s \in Slot : slot'[s].proc # "none" => slot'[s] = slot[s]
    BY <2>1 DEF FreeSlot
  <2>3. ASSUME NEW t \in Request, FileOf[t] \in F, Spent(t) PROVE Spent(t)'
    <3>1. CASE task[t].state = "archived"
      BY <2>1, <3>1 DEF Spent
    <3>2. ASSUME NEW x \in Slot, slot[x].task = t, slot[x].proc = "settling", Archives(x)
          PROVE  Spent(t)'
      <4>1. CASE slot'[x] = slot[x]
        <5>1. Archives(x)'
          BY <2>1, <3>2, <4>1 DEF Archives, TaskFile
        <5> QED
          BY <3>2, <4>1, <5>1 DEF Spent
      <4>2. CASE slot'[x] # slot[x]
        <5>1. task[t].state = "active" /\ RecoverArchives(t)
          BY <1>0, <2>1, <2>3, <3>2 DEF RetriesUsed, Archives, RecoverArchives, TaskFile
        <5>2. \A s \in Slot : slot'[s].proc # "none" => slot'[s].task # t
          BY <2>2, <3>2, <4>2 DEF OneProcessor
        <5> QED
          BY <2>1, <5>1, <5>2 DEF Abandoned, RecoverArchives, Spent
      <4> QED
        BY <4>1, <4>2
    <3>3. CASE Abandoned(t) /\ RecoverArchives(t)
      BY <2>1, <2>2, <3>3 DEF Abandoned, RecoverArchives, Spent
    <3> QED
      BY <2>3, <3>1, <3>2, <3>3 DEF Spent
  <2>4. \A f \in F : SpentFor(f) => SpentFor(f)'
    BY <2>3 DEF SpentFor
  <2> QED
    BY <2>1, <2>4 DEF SpentIn
<1>10. ASSUME NEW t \in Request, Recover(t) PROVE SpentIn(F)'
  <2>1. /\ UNCHANGED <<row, req, ren, slot>> /\ task[t].state = "active"
        /\ \A s \in Slot : slot[s].proc # "none" => slot[s].task # t
        /\ \A q \in Request \ {t} : task'[q] = task[q]
        /\ RecoverArchives(t) => task'[t].state = "archived"
    BY <1>0, <1>10 DEF Recover, Abandoned, TypeOK, Task
  <2>2. ASSUME NEW q \in Request, Spent(q) PROVE Spent(q)'
    <3>1. CASE q = t
      BY <2>1, <2>2, <3>1 DEF Spent
    <3>2. CASE q # t
      <4>1. task'[q] = task[q]
        BY <2>1, <3>2
      <4>2. \A s \in Slot : slot[s].task = q /\ Archives(s) => Archives(s)'
        BY <2>1, <4>1 DEF Archives, TaskFile
      <4> QED
        BY <2>1, <2>2, <4>1, <4>2 DEF Abandoned, RecoverArchives, Spent
    <3> QED
      BY <3>1, <3>2
  <2>3. \A f \in File : SpentFor(f) => SpentFor(f)'
    BY <2>2 DEF SpentFor
  <2> QED
    BY <2>1, <2>3 DEF SpentIn
<1>11. CASE UNCHANGED vars
  BY <1>a, <1>11 DEF vars, KeepsSpent, SpentIn
<1> QED
  BY <1>1, <1>2, <1>3, <1>4, <1>5, <1>6, <1>7, <1>8, <1>9, <1>10, <1>11
     DEF Next, SlotStep, DequeueSome

\* Deployments where a worker may die and a failed file still has a spent task: there,
\* only a file's own bytes make a worker give up before the retries are used.
SkipsAreFinal ==
    \A b \in Budgets :
        \/ b["crash"] = 0
        \/ Image = {}
        \/ Image \cap Deletable = {} /\ b["read"] = 0

\* The attempt has given up, or is giving up, with SkipRetry.
Skips(s) ==
    \/ slot[s].proc = "wait" /\ slot[s].handler = "skip"
    \/ slot[s].proc \in {"failing", "settling"} /\ slot[s].err = "skip"

OnlyCorruptSkips ==
    /\ Image = {} \/ (Image \cap Deletable = {} /\ left["read"] = 0)
    /\ \A s \in Slot : Skips(s) => TaskFile(s) \in Corrupt

LEMMA OnlyCorruptSkipsStep ==
    ASSUME TypeInv, OneProcessor, OriginalsKept, OnlyCorruptSkips, [Next]_vars
    PROVE  OnlyCorruptSkips'
<1>0. /\ TypeOK
      /\ \A s \in Slot : Busy(s) => slot[s].task \in Request
      /\ \A s \in Slot : slot[s].proc # "none" =>
            slot[s].task \in Request /\ task[slot[s].task].state = "active"
      /\ \A s \in Slot : slot[s] \in Goroutines
  BY DEF TypeInv, TypeOK, SlotsHaveTasks, Busy, OneProcessor
<1> DEFINE NoMoreSkips == \A s \in Slot : Skips(s)' =>
                \/ Skips(s) /\ slot'[s].task = slot[s].task
                \/ TaskFile(s)' \in Corrupt
<1>a. ASSUME NoMoreSkips PROVE OnlyCorruptSkips'
  BY <1>a, FaultsOnlySpent DEF OnlyCorruptSkips, TaskFile, Fault
<1>1. ASSUME UNCHANGED slot PROVE NoMoreSkips
  BY <1>1 DEF Skips
<1>2. ASSUME NEW s \in Slot, \A x \in Slot \ {s} : slot'[x] = slot[x],
             Skips(s)' => \/ Skips(s) /\ slot'[s].task = slot[s].task
                          \/ TaskFile(s)' \in Corrupt
      PROVE  NoMoreSkips
  BY <1>2 DEF Skips
<1>3. ASSUME NEW f \in File, PresignedPut(f) \/ DeleteRows(f) \/ CleanupObjects(f)
      PROVE  NoMoreSkips
  BY <1>1, <1>3 DEF PresignedPut, DeleteRows, CleanupObjects
<1>4. ASSUME NEW r \in Request, CompleteRead(r) \/ CompleteStep(r) \/ CompleteEnqueueFails(r)
      PROVE  NoMoreSkips
  BY <1>1, <1>4 DEF CompleteRead, CompleteStep, CompleteStat, CompleteSave,
     CompleteEnqueue, CompleteEnqueueFails
<1>5. ASSUME NEW u \in Rename, UpdateFileRead(u) \/ UpdateFileSave(u)
      PROVE  NoMoreSkips
  BY <1>1, <1>5 DEF UpdateFileRead, UpdateFileSave
<1>6. ASSUME NEW s \in Slot, NEW t \in Request, Dequeue(s, t) PROVE NoMoreSkips
  <2>1. /\ \A x \in Slot \ {s} : slot'[x] = slot[x]
        /\ slot'[s].proc = "wait" /\ slot'[s].handler \in {"fetch", "error"}
    BY <1>0, <1>6 DEF Dequeue, TypeOK
  <2> QED
    BY <1>2, <2>1 DEF Skips
<1>c. ASSUME NEW s \in Slot, NEW result, slot' = Returned(s, result),
             result = "skip" /\ ~Late(s) => TaskFile(s) \in Corrupt
      PROVE  NoMoreSkips
  <2>1. \A x \in Slot \ {s} : slot'[x] = slot[x]
    BY <1>0, <1>c DEF Returned, TypeOK
  <2>2. CASE ~Late(s)
    BY <1>0, <1>2, <1>c, <2>1, <2>2 DEF Returned, Late, Skips, TaskFile, Goroutines, TypeOK
  <2>3. CASE Late(s)
    BY <1>0, <1>2, <1>c, <2>1, <2>3 DEF Returned, Late, Skips, FreeSlot, Goroutines, TypeOK
  <2> QED
    BY <2>2, <2>3
<1>d. ASSUME NEW s \in Slot, NEW h \in {"store", "update", "notify"},
             slot' = [slot EXCEPT ![s].handler = h]
      PROVE  NoMoreSkips
  <2>1. /\ \A x \in Slot \ {s} : slot'[x] = slot[x]
        /\ slot'[s].proc = slot[s].proc /\ slot'[s].task = slot[s].task
        /\ slot'[s].err = slot[s].err /\ slot'[s].handler # "skip"
    BY <1>0, <1>d DEF Goroutines, TypeOK
  <2> QED
    BY <1>2, <2>1 DEF Skips
<1>7. ASSUME NEW s \in Slot, Decode(s) PROVE NoMoreSkips
  <2>1. slot[s].handler = "fetch" /\ TaskFile(s) \in Image /\ left["read"] = 0
        /\ Image \cap Deletable = {}
    BY <1>7 DEF Decode, OnlyCorruptSkips
  <2>2. ~Spend("read")
    BY <2>1 DEF Spend
  <2>3. CASE slot' = Returned(s, "skip")
    <3>1. ~Readable(s) \/ TaskFile(s) \in Corrupt \/ slot' = [slot EXCEPT ![s].handler = "store"]
      BY <1>7, <2>2 DEF Decode
    <3>2. ~Late(s) => "original" \in objects[TaskFile(s)]
      <4> SUFFICES ASSUME ~Late(s) PROVE "original" \in objects[TaskFile(s)]
        OBVIOUS
      <4>1. slot[s].task \in Request /\ task[slot[s].task].state = "active"
        BY <1>0 DEF Late
      <4> QED
        BY <2>1, <4>1 DEF OriginalsKept, TaskFile
    <3> QED
      BY <1>7, <1>c, <1>d, <2>2, <2>3, <3>1, <3>2 DEF Decode, Readable
  <2> QED
    BY <1>7, <1>d, <2>2, <2>3 DEF Decode
<1>8. ASSUME NEW s \in Slot, Download(s) PROVE NoMoreSkips
  <2>1. \/ slot' = [slot EXCEPT ![s].handler = "store"]
        \/ slot' = Returned(s, "skip") /\ TaskFile(s) \in Corrupt
        \/ slot' = Returned(s, "error")
    BY <1>8 DEF Download
  <2> QED
    BY <1>c, <1>d, <2>1
<1>9. ASSUME NEW s \in Slot, Store(s) \/ Update(s) \/ Notify(s) PROVE NoMoreSkips
  <2>1. \/ \E h \in {"update", "notify"} : slot' = [slot EXCEPT ![s].handler = h]
        \/ \E result \in {"error", "ok"} : slot' = Returned(s, result)
    BY <1>9 DEF Store, Update, Notify
  <2> QED
    BY <1>c, <1>d, <2>1
<1>10. ASSUME NEW s \in Slot, Fail(s) \/ Timeout(s) \/ HandleTaskError(s) \/ Succeed(s) \/ Settle(s)
       PROVE  NoMoreSkips
  <2>1. CASE Fail(s)
    <3>1. /\ \A x \in Slot \ {s} : slot'[x] = slot[x]
          /\ slot'[s].err = slot[s].handler /\ slot'[s].task = slot[s].task
          /\ slot'[s].proc = "failing" /\ slot[s].proc = "wait"
      BY <1>0, <2>1 DEF Fail, Goroutines, TypeOK
    <3> QED
      BY <1>2, <3>1 DEF Skips
  <2>2. CASE Timeout(s)
    <3>1. /\ \A x \in Slot \ {s} : slot'[x] = slot[x]
          /\ slot'[s].err = "timeout" /\ slot'[s].proc = "failing"
      BY <1>0, <2>2 DEF Timeout, Goroutines, TypeOK
    <3> QED
      BY <1>2, <3>1 DEF Skips
  <2>3. CASE HandleTaskError(s)
    <3>1. /\ \A x \in Slot \ {s} : slot'[x] = slot[x]
          /\ slot'[s].err = slot[s].err /\ slot'[s].task = slot[s].task
          /\ slot[s].proc = "failing" /\ slot'[s].proc = "settling"
      BY <1>0, <2>3 DEF HandleTaskError, Goroutines, TypeOK
    <3> QED
      BY <1>2, <3>1 DEF Skips
  <2>4. CASE Succeed(s) \/ Settle(s)
    <3>1. /\ \A x \in Slot \ {s} : slot'[x] = slot[x]
          /\ slot'[s].proc = "none"
      BY <1>0, <2>4 DEF Succeed, Settle, FreeSlot, Goroutines, TypeOK
    <3> QED
      BY <1>2, <3>1 DEF Skips
  <2> QED
    BY <1>10, <2>1, <2>2, <2>3, <2>4
<1>11. ASSUME NEW w \in TaskKind, Crash(w) PROVE NoMoreSkips
  <2>1. \A s \in Slot : slot'[s] = slot[s] \/ slot'[s] = FreeSlot
    BY <1>11 DEF Crash
  <2> QED
    BY <2>1 DEF FreeSlot, Skips
<1>12. ASSUME NEW t \in Request, Recover(t) PROVE NoMoreSkips
  BY <1>1, <1>12 DEF Recover
<1>13. CASE UNCHANGED vars
  BY <1>1, <1>13, <1>a DEF vars
<1> HIDE DEF NoMoreSkips
<1> QED
  BY <1>3, <1>4, <1>5, <1>6, <1>7, <1>8, <1>9, <1>10, <1>11, <1>12, <1>13, <1>a
     DEF Next, SlotStep, DequeueSome

\* A file its worker can read is marked failed only once a task of it has no attempt
\* left, for every number of complete calls, renames from old reads, late goroutines,
\* retries and failures, and of workers that die with a task in their hands.
THEOREM FailuresAreSpent == ASSUME SkipsAreFinal PROVE Spec => []FailedMeansSpent
<1> DEFINE Inv == SpentIn(File \ Corrupt) /\ (left["crash"] = 0 \/ OnlyCorruptSkips)
<1>1. Init => Inv
  <2> SUFFICES ASSUME Init PROVE Inv
    OBVIOUS
  <2>1. SpentIn(File \ Corrupt) /\ \A s \in Slot : ~Skips(s)
    BY DEF Init, SpentIn, NewRow, FreeSlot, Skips
  <2>2. left \in Budgets
    BY DEF Init
  <2> QED
    BY <2>1, <2>2 DEF SkipsAreFinal, OnlyCorruptSkips
<1>2. /\ TypeInv /\ OneProcessor /\ EnqueuedOnce /\ OriginalsKept /\ Inv /\ [Next]_vars
      => Inv'
  <2> SUFFICES ASSUME TypeInv, OneProcessor, EnqueuedOnce, OriginalsKept, Inv, [Next]_vars
               PROVE  Inv'
    OBVIOUS
  <2>1. left["crash"] = 0 \/ RetriesUsed(File \ Corrupt)
    BY DEF OnlyCorruptSkips, Skips, RetriesUsed
  <2>2. SpentIn(File \ Corrupt)'
    BY <2>1, SpentStep
  <2>3. CASE left["crash"] = 0
    BY <2>2, <2>3, FaultsOnlySpent DEF Fault
  <2>4. CASE OnlyCorruptSkips
    BY <2>2, <2>4, OnlyCorruptSkipsStep
  <2> QED
    BY <2>3, <2>4
<1>3. Inv => FailedMeansSpent
  BY DEF SpentIn, SpentFor, FailedMeansSpent
<1> QED
  BY <1>1, <1>2, <1>3, TypeInvariant, TasksInvariant, OriginalsInvariant, PTL DEF Spec

-----------------------------------------------------------------------------
\* The deployments in which an upload follows the lifecycle: one complete call per
\* file, no Save of an old read, no attempt outlives its deadline, and a worker may
\* die only where nothing can fail the attempt that repeats its work.
Orderly ==
    /\ Rename = {}
    /\ \A q, r \in Request : FileOf[q] = FileOf[r] => q = r
    /\ \A b \in Budgets :
          /\ b["timeout"] = 0
          /\ \/ b["crash"] = 0
             \/ Deletable = {} /\ b["work"] = 0 /\ b["read"] = 0 /\ b["db"] = 0

\* Nobody writes the row before its complete call, and its task comes after the Save.
CallsPrecedeTasks ==
    \A r \in Request :
        /\ req[r].pc \in {"idle", "stat", "save"} => row[FileOf[r]].status = "pending"
        /\ req[r].pc = "enqueue" \/ task[r].state # "none" => row[FileOf[r]].status # "pending"

\* Without deadlines a handler goroutine has a processor that waits for it, and one
\* that got past the mux serves its own task type.
HandlersAwaited ==
    \A s \in Slot :
        /\ slot[s].handler # "idle" => slot[s].proc = "wait"
        /\ slot[s].handler \in {"fetch", "store", "update", "notify", "ok"} => OwnType(s)

\* No worker dies: a failed file has a task with no attempt left, and a ready one has
\* a task that is done, or whose processor is about to say so.
Finished(f) ==
    \E t \in Request :
        /\ FileOf[t] = f
        /\ \/ task[t].state = "done"
           \/ \E s \in Slot : slot[s].task = t /\ slot[s].handler \in {"notify", "ok"}

UndisturbedOutcomes ==
    /\ left["crash"] = 0
    /\ SpentIn(File)
    /\ \A f \in File \ Other : row[f].status = "ready" => Finished(f)

\* Workers die, but an attempt only fails on a file that no worker can read, however
\* often it is repeated.
GivesUp(s) ==
    \/ slot[s].handler \in {"error", "skip"}
    \/ slot[s].proc \in {"failing", "settling"}

RepeatableOutcomes ==
    /\ Deletable = {} /\ left["work"] = 0 /\ left["read"] = 0 /\ left["db"] = 0
    /\ \A f \in File : row[f].status = "failed" => f \in Corrupt
    /\ \A f \in File \ Other : row[f].status = "ready" => f \notin Corrupt
    /\ \A s \in Slot : slot[s].handler \in {"store", "update", "notify", "ok"} =>
          TaskFile(s) \notin Corrupt
    /\ \A s \in Slot : GivesUp(s) /\ OwnType(s) => TaskFile(s) \in Corrupt

LifeInv ==
    /\ left["timeout"] = 0 /\ CallsPrecedeTasks /\ HandlersAwaited
    /\ UndisturbedOutcomes \/ RepeatableOutcomes

LEMMA OneCallPerFile ==
    ASSUME Orderly, NEW s \in Slot, slot[s].task \in Request,
           NEW r \in Request, FileOf[r] = TaskFile(s)
    PROVE  r = slot[s].task
  BY DEF Orderly, TaskFile

\* A handler that goes on, or returns to the processor that waits for it.
LEMMA AwaitedHandlerMoves ==
    ASSUME TypeInv, HandlersAwaited, NEW s \in Slot, slot[s].handler # "idle", NEW h,
           slot' = [slot EXCEPT ![s].handler = h] \/ slot' = Returned(s, h)
    PROVE  /\ slot[s].proc = "wait" /\ slot[s].task \in Request /\ slot[s] \in Goroutines
           /\ slot'[s].proc = "wait" /\ slot'[s].handler = h
           /\ slot'[s].task = slot[s].task /\ slot'[s].err = slot[s].err
           /\ \A x \in Slot \ {s} : slot'[x] = slot[x]
<1>1. slot[s].proc = "wait" /\ slot[s].task \in Request /\ slot[s] \in Goroutines
  BY DEF HandlersAwaited, TypeInv, TypeOK, SlotsHaveTasks, Busy
<1>2. slot' = [slot EXCEPT ![s].handler = h]
  BY <1>1 DEF Returned, Late
<1> QED
  BY <1>1, <1>2 DEF TypeInv, TypeOK, Goroutines

LEMMA OrderlyStep ==
    ASSUME Orderly, TypeInv, OneProcessor, EnqueuedOnce,
           left["timeout"] = 0, CallsPrecedeTasks, HandlersAwaited, [Next]_vars
    PROVE  left'["timeout"] = 0 /\ CallsPrecedeTasks' /\ HandlersAwaited'
<1> DEFINE Goal == left'["timeout"] = 0 /\ CallsPrecedeTasks' /\ HandlersAwaited'
<1> SUFFICES Goal
  OBVIOUS
<1>0. /\ TypeOK
      /\ \A s \in Slot : Busy(s) =>
            slot[s].task \in Request /\ TaskFile(s) \in File /\ row[TaskFile(s)] \in Row
      /\ \A s \in Slot : slot[s].proc # "none" => Busy(s) /\ task[slot[s].task].state = "active"
      /\ \A s \in Slot : slot[s] \in Goroutines
  BY HelperTypes DEF TypeInv, TypeOK, SlotsHaveTasks, Busy, OneProcessor, TaskFile
<1>r. row \in [File -> Row]
  BY DEF TypeInv, TypeOK
<1>s. ASSUME NEW fault \in Fault, Spend(fault)
      PROVE  left'["timeout"] = 0 /\ fault # "timeout"
  BY <1>0, <1>s DEF Spend, TypeOK
\* The calls keep their order when no call moves and a row leaves no status for pending.
<1>c. ASSUME UNCHANGED req,
             \A r \in Request : task[r].state # "none" <=> task'[r].state # "none",
             \A f \in File : row'[f].status = row[f].status
                \/ /\ \E r \in Request : FileOf[r] = f /\ task[r].state # "none"
                   /\ row'[f].status # "pending"
      PROVE  CallsPrecedeTasks'
  <2> SUFFICES ASSUME NEW r \in Request
               PROVE  /\ req[r].pc \in {"idle", "stat", "save"} =>
                            row'[FileOf[r]].status = "pending"
                      /\ req[r].pc = "enqueue" \/ task[r].state # "none" =>
                            row'[FileOf[r]].status # "pending"
    BY <1>c DEF CallsPrecedeTasks
  <2>1. FileOf[r] \in File
    BY HelperTypes
  <2>2. CASE row'[FileOf[r]].status = row[FileOf[r]].status
    BY <2>2 DEF CallsPrecedeTasks
  <2>3. ASSUME row'[FileOf[r]].status # "pending",
               NEW q \in Request, FileOf[q] = FileOf[r], task[q].state # "none"
        PROVE  req[r].pc \notin {"idle", "stat", "save"}
    BY <2>3 DEF Orderly, EnqueuedOnce
  <2> QED
    BY <1>c, <2>1, <2>2, <2>3
<1>1. ASSUME NEW f \in File, PresignedPut(f) \/ DeleteRows(f) \/ CleanupObjects(f) PROVE Goal
  <2>1. UNCHANGED <<req, task, slot, left>>
    BY <1>1 DEF PresignedPut, DeleteRows, CleanupObjects
  <2>2. \A g \in File : row'[g].status = row[g].status
    BY <1>0, <1>1 DEF PresignedPut, DeleteRows, CleanupObjects, TypeOK, Row
  <2> QED
    BY <1>c, <2>1, <2>2 DEF HandlersAwaited, OwnType, TaskFile
<1>2. ASSUME NEW r \in Request, CompleteRead(r) \/ CompleteStat(r) PROVE Goal
  <2>1. /\ UNCHANGED <<row, task, slot, left>>
        /\ \A q \in Request \ {r} : req'[q] = req[q]
        /\ req[r].pc \in {"idle", "stat"} /\ req'[r].pc \in {"stat", "save", "done"}
    BY <1>0, <1>2 DEF CompleteRead, CompleteStat, TypeOK, CompleteCall
  <2>2. task[r].state = "none"
    BY <2>1 DEF EnqueuedOnce
  <2> QED
    BY <2>1, <2>2 DEF CallsPrecedeTasks, HandlersAwaited, OwnType, TaskFile
<1>3. ASSUME NEW r \in Request, CompleteSave(r) PROVE Goal
  <2>1. /\ UNCHANGED <<task, slot, left>> /\ req[r].pc = "save"
        /\ \A q \in Request \ {r} : req'[q] = req[q]
        /\ row'[FileOf[r]] = CompletedRow(r)
        /\ \A f \in File : f # FileOf[r] => row'[f] = row[f]
        /\ req'[r].pc \in {"done", "enqueue"}
    BY <1>0, <1>3, HelperTypes DEF CompleteSave, Saved, TypeOK, CompleteCall
  <2>2. CompletedRow(r).status # "pending"
    BY <1>0 DEF CompletedRow, TypeOK, CompleteCall, Row
  <2>3. \A q \in Request \ {r} : FileOf[q] # FileOf[r] /\ FileOf[q] \in File
    BY HelperTypes DEF Orderly
  <2>4. CallsPrecedeTasks'
    BY <2>1, <2>2, <2>3 DEF CallsPrecedeTasks
  <2> QED
    BY <2>1, <2>4 DEF HandlersAwaited, OwnType, TaskFile
<1>4. ASSUME NEW r \in Request, CompleteEnqueue(r) \/ CompleteEnqueueFails(r) PROVE Goal
  <2>1. /\ UNCHANGED <<row, slot>> /\ req[r].pc = "enqueue" /\ req'[r].pc = "done"
        /\ left' = left \/ Spend("enqueue")
        /\ \A q \in Request \ {r} : req'[q] = req[q] /\ task'[q] = task[q]
    BY <1>0, <1>4 DEF CompleteEnqueue, CompleteEnqueueFails, TypeOK, CompleteCall
  <2> QED
    BY <1>s, <2>1 DEF CallsPrecedeTasks, HandlersAwaited, OwnType, TaskFile, Fault
<1>5. ASSUME NEW u \in Rename PROVE ~UpdateFileRead(u) /\ ~UpdateFileSave(u)
  BY DEF Orderly
<1>6. ASSUME NEW s \in Slot, NEW t \in Request, Dequeue(s, t) PROVE Goal
  <2>1. /\ UNCHANGED <<row, req, left>> /\ task[t].state = "pending"
        /\ \A x \in Slot \ {s} : slot'[x] = slot[x]
        /\ slot'[s].task = t /\ slot'[s].proc = "wait"
        /\ slot'[s].handler = IF KindOf(FileOf[t]) = ServedBy(s) THEN "fetch" ELSE "error"
        /\ \A q \in Request \ {t} : task'[q] = task[q]
        /\ task'[t].state = "active"
    BY <1>0, <1>6 DEF Dequeue, TypeOK, Task
  <2>2. CallsPrecedeTasks'
    BY <1>c, <2>1
  <2>3. HandlersAwaited'
    BY <2>1 DEF HandlersAwaited, OwnType, TaskFile
  <2> QED
    BY <2>1, <2>2, <2>3
<1>7. ASSUME NEW s \in Slot, Decode(s) \/ Download(s) \/ Store(s) \/ Update(s) \/ Notify(s)
      PROVE  Goal
  <2>1. /\ UNCHANGED <<req, task>> /\ slot[s].handler # "idle" /\ Busy(s)
        /\ slot[s].handler \in {"fetch", "store", "update", "notify"}
        /\ left' = left \/ \E fault \in {"read", "work", "db", "push"} : Spend(fault)
    BY <1>7 DEF Decode, Download, Store, Update, Notify, Busy
  <2>2. PICK h \in {"store", "update", "notify"} \cup HandlerResult :
           slot' = [slot EXCEPT ![s].handler = h] \/ slot' = Returned(s, h)
    BY <1>7 DEF Decode, Download, Store, Update, Notify, HandlerResult
  <2>3. /\ slot[s].proc = "wait" /\ slot'[s].proc = "wait" /\ slot'[s].task = slot[s].task
        /\ \A x \in Slot \ {s} : slot'[x] = slot[x]
    BY <2>1, <2>2, AwaitedHandlerMoves
  <2>4. HandlersAwaited'
    BY <2>1, <2>3 DEF HandlersAwaited, OwnType, TaskFile
  <2>5. \A f \in File : row'[f].status = row[f].status
           \/ (f = TaskFile(s) /\ row'[f].status # "pending")
    <3> DEFINE new == ReadyRow(TaskFile(s))
    <3>0. UNCHANGED row \/ row' = [row EXCEPT ![TaskFile(s)] = new]
      BY <1>7 DEF Decode, Download, Store, Update, Notify
    <3>1. \A f \in File : row'[f] = row[f] \/ (f = TaskFile(s) /\ row'[f] = new)
      <4> HIDE DEF new
      <4> QED
        BY <1>r, <3>0
    <3>2. \/ ReadyRow(TaskFile(s)) = row[TaskFile(s)]
          \/ ReadyRow(TaskFile(s)).status = "ready"
      BY <1>0, <2>1 DEF ReadyRow, Row
    <3> QED
      BY <3>1, <3>2
  <2>6. slot[s].task \in Request /\ task[slot[s].task].state = "active"
    BY <1>0, <2>3
  <2>7. CallsPrecedeTasks'
    BY <1>c, <2>1, <2>5, <2>6 DEF TaskFile
  <2> QED
    BY <1>s, <2>1, <2>4, <2>7 DEF Fault
<1>8. ASSUME NEW s \in Slot, HandleTaskError(s) PROVE Goal
  <2>1. /\ UNCHANGED <<req, task>> /\ slot[s].proc = "failing" /\ Busy(s)
        /\ left' = left \/ Spend("mark") \/ Spend("push")
        /\ \A x \in Slot \ {s} : slot'[x] = slot[x]
        /\ slot'[s].handler = slot[s].handler /\ slot'[s].task = slot[s].task
    BY <1>0, <1>8 DEF HandleTaskError, Busy, Goroutines, TypeOK
  <2>2. slot[s].handler = "idle"
    BY <2>1 DEF HandlersAwaited
  <2>3. HandlersAwaited'
    BY <2>1, <2>2 DEF HandlersAwaited, OwnType, TaskFile
  <2>4. \A f \in File : row'[f].status = row[f].status
           \/ (f = TaskFile(s) /\ row'[f].status # "pending")
    <3> DEFINE new == FailedRow(TaskFile(s))
    <3>0. UNCHANGED row \/ row' = [row EXCEPT ![TaskFile(s)] = new]
      BY <1>8 DEF HandleTaskError
    <3>1. \A f \in File : row'[f] = row[f] \/ (f = TaskFile(s) /\ row'[f] = new)
      <4> HIDE DEF new
      <4> QED
        BY <1>r, <3>0
    <3>2. \/ FailedRow(TaskFile(s)) = row[TaskFile(s)]
          \/ FailedRow(TaskFile(s)).status = "failed"
      BY <1>0, <2>1 DEF FailedRow, Row
    <3> QED
      BY <3>1, <3>2
  <2>5. slot[s].task \in Request /\ task[slot[s].task].state = "active"
    BY <1>0, <2>1
  <2>6. CallsPrecedeTasks'
    BY <1>c, <2>1, <2>4, <2>5 DEF TaskFile
  <2> QED
    BY <1>s, <2>1, <2>3, <2>6 DEF Fault
<1>9. ASSUME NEW s \in Slot, Succeed(s) \/ Fail(s) \/ Settle(s) PROVE Goal
  <2>1. /\ UNCHANGED <<row, req, left>> /\ slot[s].proc # "none"
        /\ \A x \in Slot \ {s} : slot'[x] = slot[x]
        /\ \A q \in Request : q # slot[s].task => task'[q] = task[q]
        /\ task'[slot[s].task].state # "none"
    BY <1>0, <1>9 DEF Succeed, Fail, Settle, TypeOK, Task
  <2>2. slot'[s].handler = "idle"
    <3>1. CASE Succeed(s)
      BY <1>0, <3>1 DEF Succeed, FreeSlot, TypeOK
    <3>2. CASE Fail(s)
      BY <1>0, <3>2 DEF Fail, TypeOK, Goroutines
    <3>3. CASE Settle(s)
      <4>1. slot[s].handler = "idle"
        BY <3>3 DEF Settle, HandlersAwaited
      <4> QED
        BY <1>0, <3>3, <4>1 DEF Settle, FreeSlot, TypeOK
    <3> QED
      BY <1>9, <3>1, <3>2, <3>3
  <2>3. HandlersAwaited'
    BY <2>1, <2>2 DEF HandlersAwaited, OwnType, TaskFile
  <2>4. task[slot[s].task].state # "none"
    BY <1>0, <2>1
  <2>5. CallsPrecedeTasks'
    BY <1>c, <2>1, <2>4
  <2> QED
    BY <2>1, <2>3, <2>5
<1>10. ASSUME NEW s \in Slot PROVE ~Timeout(s)
  BY DEF Timeout, Spend
<1>11. ASSUME NEW w \in TaskKind, Crash(w) PROVE Goal
  <2>1. /\ UNCHANGED <<row, req, task>> /\ Spend("crash")
        /\ \A s \in Slot : slot'[s] = slot[s] \/ slot'[s] = FreeSlot
    BY <1>11 DEF Crash
  <2>2. CallsPrecedeTasks'
    BY <1>c, <2>1
  <2>3. HandlersAwaited'
    BY <2>1 DEF HandlersAwaited, FreeSlot, OwnType, TaskFile
  <2> QED
    BY <1>s, <2>1, <2>2, <2>3 DEF Fault
<1>12. ASSUME NEW t \in Request, Recover(t) PROVE Goal
  <2>1. /\ UNCHANGED <<row, req, slot, left>> /\ task[t].state = "active"
        /\ \A q \in Request \ {t} : task'[q] = task[q]
        /\ task'[t].state # "none"
    BY <1>0, <1>12 DEF Recover, Abandoned, TypeOK, Task
  <2>2. CallsPrecedeTasks'
    BY <1>c, <2>1
  <2> QED
    BY <2>1, <2>2 DEF HandlersAwaited, OwnType, TaskFile
<1>13. CASE UNCHANGED vars
  BY <1>13 DEF vars, CallsPrecedeTasks, HandlersAwaited, OwnType, TaskFile
<1> HIDE DEF Goal
<1> QED
  BY <1>1, <1>2, <1>3, <1>4, <1>5, <1>6, <1>7, <1>8, <1>9, <1>10, <1>11, <1>12, <1>13
     DEF Next, CompleteStep, SlotStep, DequeueSome

\* Where no worker dies, a file that is ready keeps the task that made it so.
LEMMA FinishedStays ==
    ASSUME TypeInv, OneProcessor, EnqueuedOnce, HandlersAwaited,
           left["crash"] = 0, left["timeout"] = 0, [Next]_vars, NEW f \in File, Finished(f)
    PROVE  Finished(f)'
<1>0. /\ TypeOK
      /\ \A s \in Slot : slot[s].proc # "none" =>
            slot[s].task \in Request /\ task[slot[s].task].state = "active"
      /\ \A s \in Slot : slot[s] \in Goroutines
  BY DEF TypeInv, TypeOK, SlotsHaveTasks, Busy, OneProcessor
<1>1. PICK t \in Request :
         /\ FileOf[t] = f
         /\ \/ task[t].state = "done"
            \/ \E s \in Slot : slot[s].task = t /\ slot[s].handler \in {"notify", "ok"}
  BY DEF Finished
<1>2. task[t].state = "done" => task'[t].state = "done"
  <2> SUFFICES ASSUME task[t].state = "done" PROVE task'[t] = task[t]
    OBVIOUS
  <2>1. ASSUME NEW q \in Request, task[q].state # "done",
               \A r \in Request \ {q} : task'[r] = task[r]
        PROVE  task'[t] = task[t]
    BY <2>1
  <2>2. ASSUME NEW r \in Request, CompleteEnqueue(r) PROVE task'[t] = task[t]
    <3>1. task[r].state = "none"
      BY <2>2 DEF CompleteEnqueue, EnqueuedOnce
    <3> QED
      BY <1>0, <2>1, <2>2, <3>1 DEF CompleteEnqueue, TypeOK
  <2>3. ASSUME NEW s \in Slot, NEW q \in Request, Dequeue(s, q) PROVE task'[t] = task[t]
    BY <1>0, <2>1, <2>3 DEF Dequeue, TypeOK
  <2>4. ASSUME NEW s \in Slot, Succeed(s) \/ Settle(s) PROVE task'[t] = task[t]
    <3>1. /\ slot[s].proc # "none"
          /\ \A q \in Request : q # slot[s].task => task'[q] = task[q]
      BY <1>0, <2>4 DEF Succeed, Settle, TypeOK
    <3> QED
      BY <1>0, <2>1, <3>1
  <2>5. ASSUME NEW q \in Request, Recover(q) PROVE task'[t] = task[t]
    BY <1>0, <2>1, <2>5 DEF Recover, Abandoned, TypeOK
  <2>6. CASE UNCHANGED task
    BY <2>6
  <2> QED
    BY <2>2, <2>3, <2>4, <2>5, <2>6
       DEF Next, CompleteStep, SlotStep, DequeueSome, PresignedPut, DeleteRows, CleanupObjects,
       CompleteRead, CompleteStat, CompleteSave, CompleteEnqueueFails, UpdateFileRead,
       UpdateFileSave, Decode, Download, Store, Update, Notify, Fail, HandleTaskError,
       Timeout, Crash, vars
<1>3. ASSUME NEW s \in Slot, slot[s].task = t, slot[s].handler \in {"notify", "ok"}
      PROVE  Finished(f)'
  <2>1. slot[s].proc = "wait"
    BY <1>3 DEF HandlersAwaited
  <2>2. CASE slot'[s].task = t /\ slot'[s].handler \in {"notify", "ok"}
    BY <1>1, <2>2 DEF Finished
  <2>3. CASE Notify(s)
    <3>1. slot'[s].handler = "ok" /\ slot'[s].task = t
      BY <1>3, <2>3, AwaitedHandlerMoves DEF Notify
    <3> QED
      BY <2>2, <3>1
  <2>4. CASE Succeed(s)
    <3>1. task'[t].state = "done"
      BY <1>0, <1>3, <2>4 DEF Succeed, TypeOK, Task
    <3> QED
      BY <1>1, <3>1 DEF Finished
  <2>5. CASE slot'[s] = slot[s]
    BY <1>3, <2>2, <2>5
  <2>6. ~Timeout(s) /\ \A w \in TaskKind : ~Crash(w)
    BY DEF Timeout, Crash, Spend
  <2>7. ~Decode(s) /\ ~Download(s) /\ ~Store(s) /\ ~Update(s)
    BY <1>3 DEF Decode, Download, Store, Update
  <2>8. ~Fail(s) /\ ~HandleTaskError(s) /\ ~Settle(s)
    BY <1>3, <2>1 DEF Fail, HandleTaskError, Settle
  <2>9. ASSUME NEW x \in Slot, x # s, SlotStep(x) \/ Timeout(x) \/ \E q \in Request : Dequeue(x, q)
        PROVE  slot'[s] = slot[s]
    BY <1>0, <2>9 DEF SlotStep, Decode, Download, Store, Update, Notify, Succeed, Fail,
       HandleTaskError, Settle, Timeout, Dequeue, Returned, TypeOK
  <2>10. \A q \in Request : ~Dequeue(s, q)
    BY <2>1 DEF Dequeue, Busy
  <2> QED
    BY <2>3, <2>4, <2>5, <2>6, <2>7, <2>8, <2>9, <2>10
       DEF Next, CompleteStep, SlotStep, DequeueSome, PresignedPut, DeleteRows, CleanupObjects,
       CompleteRead, CompleteStat, CompleteSave, CompleteEnqueue, CompleteEnqueueFails,
       UpdateFileRead, UpdateFileSave, Recover, vars
<1> QED
  BY <1>1, <1>2, <1>3 DEF Finished

LEMMA UndisturbedStep ==
    ASSUME TypeInv, OneProcessor, EnqueuedOnce, HandlersAwaited, left["timeout"] = 0,
           UndisturbedOutcomes, [Next]_vars, Rename = {}
    PROVE  UndisturbedOutcomes'
<1>0. /\ TypeOK
      /\ \A s \in Slot : Busy(s) =>
            slot[s].task \in Request /\ TaskFile(s) \in File /\ row[TaskFile(s)] \in Row
      /\ \A s \in Slot : slot[s] \in Goroutines
  BY HelperTypes DEF TypeInv, TypeOK, SlotsHaveTasks, Busy, TaskFile
<1>1. left'["crash"] = 0
  BY FaultsOnlySpent DEF UndisturbedOutcomes, Fault
<1>2. SpentIn(File)'
  BY SpentStep DEF UndisturbedOutcomes
<1>3. ASSUME NEW f \in File \ Other, row'[f].status = "ready" PROVE Finished(f)'
  <2>1. CASE row[f].status = "ready"
    BY <2>1, FinishedStays DEF UndisturbedOutcomes
  <2>2. CASE row[f].status # "ready"
    <3>1. ASSUME NEW s \in Slot, Update(s) PROVE Finished(f)'
      <4>1. slot[s].handler = "update" /\ Busy(s)
        BY <3>1 DEF Update, Busy
      <4>2. CASE f = TaskFile(s) /\ slot' = [slot EXCEPT ![s].handler = "notify"]
        <5>1. slot'[s].handler = "notify" /\ slot'[s].task = slot[s].task
          BY <1>0, <4>2 DEF Goroutines, TypeOK
        <5> QED
          BY <1>0, <4>1, <4>2, <5>1 DEF Finished, TaskFile
      <4>3. CASE UNCHANGED row
        BY <1>3, <2>2, <4>3
      <4>4. CASE f # TaskFile(s) /\ row' = [row EXCEPT ![TaskFile(s)] = ReadyRow(TaskFile(s))]
        BY <1>0, <1>3, <2>2, <4>4 DEF TypeOK
      <4> QED
        BY <3>1, <4>2, <4>3, <4>4 DEF Update
    <3>2. ASSUME NEW s \in Slot, HandleTaskError(s) PROVE FALSE
      <4>1. Busy(s) /\ (UNCHANGED row \/ row' = [row EXCEPT ![TaskFile(s)] = FailedRow(TaskFile(s))])
        BY <3>2 DEF HandleTaskError, Busy
      <4>2. FailedRow(TaskFile(s)).status = "ready" => row[TaskFile(s)].status = "ready"
        BY <1>0, <4>1 DEF FailedRow, Row
      <4> QED
        BY <1>0, <1>3, <2>2, <4>1, <4>2 DEF TypeOK
    <3>3. ASSUME NEW r \in Request, CompleteSave(r) PROVE FALSE
      <4>1. FileOf[r] \notin Other => CompletedRow(r).status # "ready"
        BY <1>0 DEF CompletedRow, TypeOK, CompleteCall, Row
      <4> QED
        BY <1>0, <1>3, <2>2, <3>3, <4>1 DEF CompleteSave, Saved, TypeOK
    <3>4. ASSUME NEW g \in File, DeleteRows(g) PROVE FALSE
      BY <1>0, <1>3, <2>2, <3>4 DEF DeleteRows, TypeOK, Row
    <3>5. ~UNCHANGED row
      BY <1>3, <2>2
    <3> QED
      BY <3>1, <3>2, <3>3, <3>4, <3>5
         DEF Next, CompleteStep, SlotStep, DequeueSome, PresignedPut, CleanupObjects,
         CompleteRead, CompleteStat, CompleteEnqueue, CompleteEnqueueFails, Dequeue, Decode,
         Download, Store, Notify, Succeed, Fail, Settle, Timeout, Crash, Recover, vars
  <2> QED
    BY <2>1, <2>2
<1> QED
  BY <1>1, <1>2, <1>3 DEF UndisturbedOutcomes

LEMMA RepeatableStep ==
    ASSUME TypeInv, OneProcessor, OriginalsKept, HandlersAwaited, left["timeout"] = 0,
           RepeatableOutcomes, [Next]_vars, Rename = {}
    PROVE  RepeatableOutcomes'
<1>0. /\ TypeOK
      /\ \A s \in Slot : Busy(s) =>
            slot[s].task \in Request /\ TaskFile(s) \in File /\ row[TaskFile(s)] \in Row
      /\ \A s \in Slot : slot[s].proc # "none" =>
            slot[s].task \in Request /\ task[slot[s].task].state = "active"
      /\ \A s \in Slot : slot[s] \in Goroutines
  BY HelperTypes DEF TypeInv, TypeOK, SlotsHaveTasks, Busy, OneProcessor, TaskFile
<1>r. row \in [File -> Row]
  BY DEF TypeInv, TypeOK
<1> DEFINE
      Stored(s) == slot[s].handler \in {"store", "update", "notify", "ok"} =>
                      TaskFile(s) \notin Corrupt
      Given(s) == GivesUp(s) /\ OwnType(s) => TaskFile(s) \in Corrupt
      RowsKept == \A f \in File : row'[f].status = row[f].status
      SlotsKept == \A s \in Slot : (Stored(s) /\ Given(s))'
<1>1. /\ Deletable = {} /\ left'["work"] = 0 /\ left'["read"] = 0 /\ left'["db"] = 0
      /\ \A s \in Slot : Stored(s) /\ Given(s)
  BY FaultsOnlySpent DEF RepeatableOutcomes, Fault
<1>2. ASSUME RowsKept, SlotsKept PROVE RepeatableOutcomes'
  BY <1>1, <1>2 DEF RepeatableOutcomes
<1>3. ~Spend("work") /\ ~Spend("read") /\ ~Spend("db") /\ ~Spend("timeout")
  BY DEF Spend, RepeatableOutcomes
\* One goroutine pair moves.
<1>a. ASSUME NEW s \in Slot, \A x \in Slot \ {s} : slot'[x] = slot[x], (Stored(s) /\ Given(s))'
      PROVE  SlotsKept
  BY <1>1, <1>a DEF GivesUp, OwnType, TaskFile
<1>b. ASSUME NEW s \in Slot, slot[s].handler # "idle", NEW h \in {"store", "update", "notify", "ok"},
             slot' = [slot EXCEPT ![s].handler = h] \/ slot' = Returned(s, h),
             TaskFile(s) \notin Corrupt
      PROVE  SlotsKept
  <2>1. /\ slot'[s].proc = "wait" /\ slot'[s].handler = h /\ slot'[s].task = slot[s].task
        /\ \A x \in Slot \ {s} : slot'[x] = slot[x]
    BY <1>b, AwaitedHandlerMoves
  <2>2. (Stored(s) /\ Given(s))'
    BY <1>b, <2>1 DEF GivesUp, TaskFile
  <2> QED
    BY <1>a, <2>1, <2>2
<1>c. ASSUME NEW s \in Slot, slot[s].handler # "idle", NEW result \in {"error", "skip"},
             slot' = Returned(s, result), TaskFile(s) \in Corrupt
      PROVE  SlotsKept
  <2>1. /\ slot'[s].handler = result /\ slot'[s].task = slot[s].task
        /\ \A x \in Slot \ {s} : slot'[x] = slot[x]
    BY <1>c, AwaitedHandlerMoves
  <2>2. (Stored(s) /\ Given(s))'
    BY <1>c, <2>1 DEF TaskFile
  <2> QED
    BY <1>a, <2>1, <2>2
<1>4. ASSUME NEW f \in File, PresignedPut(f) \/ DeleteRows(f) \/ CleanupObjects(f)
      PROVE  RowsKept /\ SlotsKept
  <2>1. RowsKept /\ UNCHANGED slot
    BY <1>0, <1>4 DEF PresignedPut, DeleteRows, CleanupObjects, TypeOK, Row
  <2> QED
    BY <1>1, <2>1 DEF GivesUp, OwnType, TaskFile
<1>5. ASSUME NEW r \in Request,
             CompleteRead(r) \/ CompleteStat(r) \/ CompleteEnqueue(r) \/ CompleteEnqueueFails(r)
      PROVE  RowsKept /\ SlotsKept
  BY <1>1, <1>5 DEF CompleteRead, CompleteStat, CompleteEnqueue, CompleteEnqueueFails,
     GivesUp, OwnType, TaskFile
<1>6. ASSUME NEW r \in Request, CompleteSave(r) PROVE RepeatableOutcomes'
  <2>1. /\ CompletedRow(r).status # "failed"
        /\ FileOf[r] \notin Other => CompletedRow(r).status # "ready"
    BY <1>0 DEF CompletedRow, TypeOK, CompleteCall, Row
  <2>2. \A f \in File : row'[f] = row[f] \/ (f = FileOf[r] /\ row'[f] = CompletedRow(r))
    BY <1>0, <1>6 DEF CompleteSave, Saved, TypeOK
  <2>3. SlotsKept
    BY <1>1, <1>6 DEF CompleteSave, GivesUp, OwnType, TaskFile
  <2> QED
    BY <1>1, <2>1, <2>2, <2>3 DEF RepeatableOutcomes
<1>7. ASSUME NEW s \in Slot, NEW t \in Request, Dequeue(s, t) PROVE RowsKept /\ SlotsKept
  <2>1. /\ UNCHANGED row /\ \A x \in Slot \ {s} : slot'[x] = slot[x]
        /\ slot'[s].task = t /\ slot'[s].proc = "wait"
        /\ slot'[s].handler = IF KindOf(FileOf[t]) = ServedBy(s) THEN "fetch" ELSE "error"
    BY <1>0, <1>7 DEF Dequeue, TypeOK
  <2>2. (Stored(s) /\ Given(s))'
    BY <2>1 DEF GivesUp, OwnType, TaskFile
  <2> QED
    BY <1>a, <2>1, <2>2
\* The original is there, and what is read of it is what the file holds.
<1>8. ASSUME NEW s \in Slot, slot[s].handler = "fetch" PROVE Readable(s)
  <2>1. slot[s].proc = "wait"
    BY <1>8 DEF HandlersAwaited
  <2> QED
    BY <1>0, <1>1, <2>1 DEF OriginalsKept, Readable, Late, TaskFile
<1>9. ASSUME NEW s \in Slot, Decode(s) \/ Download(s) PROVE RowsKept /\ SlotsKept
  <2>1. UNCHANGED row /\ slot[s].handler = "fetch" /\ slot[s].handler # "idle"
    BY <1>9 DEF Decode, Download
  <2>2. \/ TaskFile(s) \notin Corrupt /\ slot' = [slot EXCEPT ![s].handler = "store"]
        \/ TaskFile(s) \in Corrupt /\ slot' = Returned(s, "skip")
    BY <1>3, <1>8, <1>9, <2>1 DEF Decode, Download
  <2> QED
    BY <1>b, <1>c, <2>1, <2>2
<1>10. ASSUME NEW s \in Slot, Store(s) \/ Notify(s) PROVE RowsKept /\ SlotsKept
  <2>1. UNCHANGED row /\ slot[s].handler \in {"store", "notify"} /\ ~Late(s)
    BY <1>10 DEF Store, Notify, HandlersAwaited, Late
  <2>2. slot' = [slot EXCEPT ![s].handler = "update"] \/ slot' = Returned(s, "ok")
    BY <1>3, <1>10, <2>1 DEF Store, Notify
  <2> QED
    BY <1>1, <1>b, <2>1, <2>2
<1>11. ASSUME NEW s \in Slot, Update(s) PROVE RepeatableOutcomes'
  <2>1. /\ slot[s].handler = "update" /\ Busy(s)
        /\ row' = [row EXCEPT ![TaskFile(s)] = ReadyRow(TaskFile(s))]
        /\ slot' = [slot EXCEPT ![s].handler = "notify"]
    BY <1>3, <1>11 DEF Update, Busy
  <2>2. TaskFile(s) \notin Corrupt
    BY <1>1, <2>1
  <2>3. SlotsKept
    BY <1>b, <2>1, <2>2
  <2>4. \A f \in File : \/ row'[f].status = row[f].status
                        \/ f \notin Corrupt /\ row'[f].status = "ready"
    <3> DEFINE new == ReadyRow(TaskFile(s))
    <3>1. new.status = row[TaskFile(s)].status \/ new.status = "ready"
      BY <1>0, <2>1 DEF ReadyRow, Row
    <3>2. \A f \in File : row'[f] = row[f] \/ (f = TaskFile(s) /\ row'[f] = new)
      <4>1. row' = [row EXCEPT ![TaskFile(s)] = new]
        BY <2>1
      <4> HIDE DEF new
      <4> QED
        BY <1>r, <4>1
    <3> QED
      BY <2>2, <3>1, <3>2
  <2> QED
    BY <1>1, <2>3, <2>4 DEF RepeatableOutcomes
<1>12. ASSUME NEW s \in Slot, HandleTaskError(s) PROVE RepeatableOutcomes'
  <2>1. /\ slot[s].proc = "failing" /\ Busy(s) /\ GivesUp(s) /\ slot[s].handler = "idle"
        /\ \A x \in Slot \ {s} : slot'[x] = slot[x]
        /\ slot'[s].handler = slot[s].handler /\ slot'[s].task = slot[s].task
    BY <1>0, <1>12 DEF HandleTaskError, HandlersAwaited, Busy, GivesUp, Goroutines, TypeOK
  <2>2. SlotsKept
    <3>1. (Stored(s) /\ Given(s))'
      BY <1>1, <2>1 DEF OwnType, TaskFile
    <3> QED
      BY <1>a, <2>1, <3>1
  <2>3. \A f \in File : \/ row'[f].status = row[f].status
                        \/ f \in Corrupt /\ row'[f].status = "failed"
    <3> DEFINE new == FailedRow(TaskFile(s))
    <3>1. new.status = row[TaskFile(s)].status \/ new.status = "failed"
      BY <1>0, <2>1 DEF FailedRow, Row
    <3>2. row' = row \/ (OwnType(s) /\ row' = [row EXCEPT ![TaskFile(s)] = new])
      BY <1>12 DEF HandleTaskError, MarksFailed
    <3>3. \A f \in File : row'[f] = row[f] \/ (OwnType(s) /\ f = TaskFile(s) /\ row'[f] = new)
      <4> HIDE DEF new
      <4> QED
        BY <1>r, <3>2
    <3> QED
      BY <1>1, <2>1, <3>1, <3>3
  <2> QED
    BY <1>1, <2>2, <2>3 DEF RepeatableOutcomes
<1>13. ASSUME NEW s \in Slot, Fail(s) PROVE RowsKept /\ SlotsKept
  <2>1. /\ UNCHANGED row /\ \A x \in Slot \ {s} : slot'[x] = slot[x]
        /\ slot'[s].handler = "idle" /\ slot'[s].task = slot[s].task /\ GivesUp(s)
    BY <1>0, <1>13 DEF Fail, GivesUp, Goroutines, TypeOK
  <2>2. (Stored(s) /\ Given(s))'
    BY <1>1, <2>1 DEF OwnType, TaskFile
  <2> QED
    BY <1>a, <2>1, <2>2
<1>14. ASSUME NEW s \in Slot, Succeed(s) \/ Settle(s) PROVE RowsKept /\ SlotsKept
  <2>1. /\ UNCHANGED row /\ \A x \in Slot \ {s} : slot'[x] = slot[x]
        /\ slot'[s].handler = "idle" /\ slot'[s].proc = "none"
    BY <1>0, <1>14 DEF Succeed, Settle, HandlersAwaited, FreeSlot, TypeOK
  <2>2. (Stored(s) /\ Given(s))'
    BY <2>1 DEF GivesUp
  <2> QED
    BY <1>a, <2>1, <2>2
<1>15. ASSUME NEW w \in TaskKind, Crash(w) PROVE RowsKept /\ SlotsKept
  <2>1. UNCHANGED row /\ \A s \in Slot : slot'[s] = slot[s] \/ slot'[s] = FreeSlot
    BY <1>15 DEF Crash
  <2> QED
    BY <1>1, <2>1 DEF FreeSlot, GivesUp, OwnType, TaskFile
<1>16. ASSUME NEW t \in Request, Recover(t) PROVE RowsKept /\ SlotsKept
  BY <1>1, <1>16 DEF Recover, GivesUp, OwnType, TaskFile
<1>17. CASE UNCHANGED vars
  BY <1>1, <1>2, <1>17 DEF vars, GivesUp, OwnType, TaskFile
<1>18. \A s \in Slot : ~Timeout(s)
  BY <1>3 DEF Timeout
<1> HIDE DEF RowsKept, SlotsKept
<1> QED
  BY <1>2, <1>4, <1>5, <1>6, <1>7, <1>9, <1>10, <1>11, <1>12, <1>13, <1>14, <1>15, <1>16,
     <1>17, <1>18 DEF Next, CompleteStep, SlotStep, DequeueSome

\* A step that keeps the promise of LifeInv changes a status only as the lifecycle does.
LEMMA LifecycleStep ==
    ASSUME Orderly, TypeInv, OneProcessor, EnqueuedOnce, LifeInv, [Next]_vars
    PROVE  [Lifecycle!Next]_([f \in File |-> row[f].status])
<1> DEFINE status == [f \in File |-> row[f].status]
<1>0. /\ TypeOK
      /\ \A s \in Slot : Busy(s) =>
            slot[s].task \in Request /\ TaskFile(s) \in File /\ row[TaskFile(s)] \in Row
      /\ \A s \in Slot : slot[s].proc # "none" => Busy(s) /\ task[slot[s].task].state = "active"
      /\ \A s \in Slot : slot[s] \in Goroutines
  BY HelperTypes DEF TypeInv, TypeOK, SlotsHaveTasks, Busy, OneProcessor, TaskFile
<1>1. ASSUME \A f \in File : row'[f].status = row[f].status PROVE status' = status
  BY <1>1
<1>2. ASSUME NEW g \in File, NEW v, row'[g].status = v,
             \A f \in File : f # g => row'[f].status = row[f].status
      PROVE  status' = [status EXCEPT ![g] = v]
  BY <1>2
<1> HIDE DEF status
<1>3. status = [f \in File |-> row[f].status]
  BY DEF status
<1>4. ASSUME NEW r \in Request, CompleteSave(r) PROVE Lifecycle!Accept(FileOf[r])
  <2>1. FileOf[r] \in File /\ status[FileOf[r]] = "pending"
    BY <1>3, <1>4, HelperTypes DEF CompleteSave, LifeInv, CallsPrecedeTasks
  <2>2. CompletedRow(r).status = IF FileOf[r] \in Image \cup Video THEN "processing" ELSE "ready"
    BY <1>0, <2>1, FilesAssumption DEF CompletedRow, TypeOK, CompleteCall, Row, File
  <2>3. row' = [row EXCEPT ![FileOf[r]] = CompletedRow(r)]
    BY <1>4 DEF CompleteSave, Saved
  <2>4. status' = [status EXCEPT ![FileOf[r]] =
                      IF FileOf[r] \in Image \cup Video THEN "processing" ELSE "ready"]
    BY <1>0, <1>2, <2>1, <2>2, <2>3 DEF TypeOK
  <2> QED
    BY <1>3, <2>1, <2>4 DEF Lifecycle!Accept, status
<1>5. ASSUME NEW s \in Slot, Busy(s), slot[s].proc # "none", NEW v \in {"ready", "failed"},
             row[TaskFile(s)].status \in {"processing", v}, NEW x, x.status = v,
             row' = [row EXCEPT ![TaskFile(s)] = x]
      PROVE  status' = status \/ Lifecycle!Finish(TaskFile(s))
  <2>1. status' = [status EXCEPT ![TaskFile(s)] = v]
    BY <1>0, <1>2, <1>5 DEF TypeOK
  <2>2. status[TaskFile(s)] \in {"processing", v} /\ TaskFile(s) \in File
    BY <1>0, <1>3, <1>5
  <2>3. CASE status[TaskFile(s)] = v
    BY <1>3, <2>1, <2>2, <2>3
  <2>4. CASE status[TaskFile(s)] = "processing"
    BY <1>5, <2>1, <2>4 DEF Lifecycle!Finish, status
  <2> QED
    BY <2>2, <2>3, <2>4
\* A task that a processor holds is not spent, and its file is not finished.
<1>6. ASSUME NEW s \in Slot, slot[s].proc # "none" PROVE row[TaskFile(s)].status # "pending"
  BY <1>0, <1>6 DEF LifeInv, CallsPrecedeTasks, TaskFile
<1>7. ASSUME NEW s \in Slot, Update(s) PROVE status' = status \/ Lifecycle!Finish(TaskFile(s))
  <2>1. slot[s].handler = "update" /\ slot[s].proc = "wait" /\ Busy(s)
    BY <1>7 DEF Update, LifeInv, HandlersAwaited, Busy
  <2>2. CASE UNCHANGED row
    BY <1>1, <2>2
  <2>3. CASE row' = [row EXCEPT ![TaskFile(s)] = ReadyRow(TaskFile(s))]
    <3>1. row[TaskFile(s)].status # "failed"
      <4>1. CASE UndisturbedOutcomes
        <5>1. ASSUME NEW t \in Request, FileOf[t] = TaskFile(s), Spent(t) PROVE FALSE
          <6>1. t = slot[s].task
            BY <1>0, <2>1, <5>1, OneCallPerFile
          <6>2. task[t].state = "active"
            BY <1>0, <2>1, <6>1
          <6> QED
            BY <2>1, <5>1, <6>1, <6>2 DEF Spent, Abandoned, OneProcessor
        <5> QED
          BY <1>0, <2>1, <4>1, <5>1 DEF UndisturbedOutcomes, SpentIn, SpentFor
      <4>2. CASE RepeatableOutcomes
        BY <1>0, <2>1, <4>2 DEF RepeatableOutcomes
      <4> QED
        BY <4>1, <4>2 DEF LifeInv
    <3>2. CASE ~row[TaskFile(s)].exists
      <4>1. row' = row
        BY <1>0, <2>1, <2>3, <3>2 DEF ReadyRow, TypeOK
      <4> QED
        BY <1>1, <4>1
    <3>3. CASE row[TaskFile(s)].exists
      <4>1. ReadyRow(TaskFile(s)).status = "ready"
        BY <1>0, <2>1, <3>3 DEF ReadyRow, Row
      <4>2. row[TaskFile(s)].status \in {"processing", "ready"}
        BY <1>0, <1>6, <2>1, <3>1 DEF Row, Status
      <4> QED
        BY <1>5, <2>1, <2>3, <4>1, <4>2
    <3> QED
      BY <3>2, <3>3
  <2> QED
    BY <1>7, <2>2, <2>3 DEF Update
<1>8. ASSUME NEW s \in Slot, HandleTaskError(s)
      PROVE  status' = status \/ Lifecycle!Finish(TaskFile(s))
  <2>1. slot[s].proc = "failing" /\ Busy(s)
    BY <1>8 DEF HandleTaskError, Busy
  <2>2. CASE UNCHANGED row
    BY <1>1, <2>2
  <2>3. CASE OwnType(s) /\ row' = [row EXCEPT ![TaskFile(s)] = FailedRow(TaskFile(s))]
    <3>1. row[TaskFile(s)].status # "ready"
      <4>1. CASE UndisturbedOutcomes
        <5>1. ASSUME Finished(TaskFile(s)) PROVE FALSE
          <6>1. PICK t \in Request :
                   /\ FileOf[t] = TaskFile(s)
                   /\ \/ task[t].state = "done"
                      \/ \E x \in Slot : slot[x].task = t /\ slot[x].handler \in {"notify", "ok"}
            BY <5>1 DEF Finished
          <6>2. t = slot[s].task /\ task[t].state = "active"
            BY <1>0, <2>1, <6>1, OneCallPerFile
          <6>3. ASSUME NEW x \in Slot, slot[x].task = t, slot[x].handler \in {"notify", "ok"}
                PROVE  FALSE
            BY <2>1, <6>2, <6>3 DEF LifeInv, HandlersAwaited, OneProcessor
          <6> QED
            BY <6>1, <6>2, <6>3
        <5>2. TaskFile(s) \notin Other
          BY <1>0, <2>1 DEF EnqueuedOnce, TaskFile
        <5> QED
          BY <1>0, <2>1, <4>1, <5>1, <5>2 DEF UndisturbedOutcomes
      <4>2. CASE RepeatableOutcomes
        <5>1. TaskFile(s) \in Corrupt
          BY <2>1, <2>3, <4>2 DEF RepeatableOutcomes, GivesUp
        <5>2. TaskFile(s) \notin Other
          BY <1>0, <2>1 DEF EnqueuedOnce, TaskFile
        <5> QED
          BY <1>0, <2>1, <4>2, <5>1, <5>2 DEF RepeatableOutcomes
      <4> QED
        BY <4>1, <4>2 DEF LifeInv
    <3>2. CASE ~row[TaskFile(s)].exists
      <4>1. row' = row
        BY <1>0, <2>1, <2>3, <3>2 DEF FailedRow, TypeOK
      <4> QED
        BY <1>1, <4>1
    <3>3. CASE row[TaskFile(s)].exists
      <4>1. FailedRow(TaskFile(s)).status = "failed"
        BY <1>0, <2>1, <3>3 DEF FailedRow, Row
      <4>2. row[TaskFile(s)].status \in {"processing", "failed"}
        BY <1>0, <1>6, <2>1, <3>1 DEF Row, Status
      <4> QED
        BY <1>5, <2>1, <2>3, <4>1, <4>2
    <3> QED
      BY <3>2, <3>3
  <2> QED
    BY <1>8, <2>2, <2>3 DEF HandleTaskError, MarksFailed
<1>9. ASSUME NEW f \in File, DeleteRows(f) PROVE status' = status
  <2>1. \A g \in File : row'[g].status = row[g].status
    BY <1>0, <1>9 DEF DeleteRows, TypeOK, Row
  <2> QED
    BY <1>1, <2>1
<1>10. UNCHANGED row => status' = status
  BY <1>1
<1>11. \/ \E g \in File : Lifecycle!Accept(g) \/ Lifecycle!Finish(g)
       \/ status' = status
  <2>1. \A r \in Request : FileOf[r] \in File
    BY HelperTypes
  <2>2. \A s \in Slot : Update(s) \/ HandleTaskError(s) => TaskFile(s) \in File
    BY <1>0 DEF Update, HandleTaskError, Busy
  <2>3. CASE UNCHANGED row
    BY <1>10, <2>3
  <2>4. CASE ~UNCHANGED row
    <3>1. \/ \E r \in Request : CompleteSave(r)
          \/ \E s \in Slot : Update(s) \/ HandleTaskError(s)
          \/ \E f \in File : DeleteRows(f)
      BY <2>4 DEF Orderly,
         Next, CompleteStep, SlotStep, DequeueSome, PresignedPut, CleanupObjects,
         CompleteRead, CompleteStat, CompleteEnqueue, CompleteEnqueueFails, Dequeue, Decode,
         Download, Store, Notify, Succeed, Fail, Settle, Timeout, Crash, Recover, vars
    <3>2. ASSUME NEW r \in Request, CompleteSave(r)
          PROVE  \E g \in File : Lifecycle!Accept(g)
      BY <1>4, <2>1, <3>2
    <3>3. ASSUME NEW s \in Slot, Update(s) \/ HandleTaskError(s)
          PROVE  status' = status \/ \E g \in File : Lifecycle!Finish(g)
      <4>1. TaskFile(s) \in File /\ (status' = status \/ Lifecycle!Finish(TaskFile(s)))
        BY <1>7, <1>8, <2>2, <3>3
      <4>2. Lifecycle!Finish(TaskFile(s)) => \E g \in File : Lifecycle!Finish(g)
        BY <4>1 DEF Lifecycle!Finish
      <4> QED
        BY <4>1, <4>2
    <3> QED
      BY <1>9, <3>1, <3>2, <3>3
  <2> QED
    BY <2>3, <2>4
<1> QED
  BY <1>11 DEF Lifecycle!Next, status

\* The pipeline implements the lifecycle its users are promised, as far as what may
\* happen goes: an upload is accepted once and finished once, and its outcome never
\* changes, however attempts fail and workers race, and whichever worker dies.
THEOREM PipelineFollowsLifecycle == ASSUME Orderly PROVE Spec => Lifecycle!SafeSpec
<1>1. Init => Lifecycle!Init
  BY DEF Init, NewRow, Lifecycle!Init
<1>2. Init => LifeInv
  <2> SUFFICES ASSUME Init PROVE LifeInv
    OBVIOUS
  <2>1. /\ CallsPrecedeTasks /\ HandlersAwaited /\ SpentIn(File)
        /\ \A f \in File : row[f].status = "pending"
        /\ \A s \in Slot : slot[s] = FreeSlot
    BY HelperTypes DEF Init, NewRow, FreeSlot, CallsPrecedeTasks, HandlersAwaited, SpentIn
  <2>2. left["timeout"] = 0 /\
           \/ left["crash"] = 0
           \/ Deletable = {} /\ left["work"] = 0 /\ left["read"] = 0 /\ left["db"] = 0
    BY DEF Init, Orderly
  <2>3. CASE left["crash"] = 0
    BY <2>1, <2>2, <2>3 DEF LifeInv, UndisturbedOutcomes
  <2>4. CASE Deletable = {} /\ left["work"] = 0 /\ left["read"] = 0 /\ left["db"] = 0
    BY <2>1, <2>2, <2>4 DEF LifeInv, RepeatableOutcomes, GivesUp, FreeSlot
  <2> QED
    BY <2>2, <2>3, <2>4
<1>3. /\ TypeInv /\ OneProcessor /\ EnqueuedOnce /\ OriginalsKept /\ LifeInv /\ [Next]_vars
      => LifeInv'
  <2> SUFFICES ASSUME TypeInv, OneProcessor, EnqueuedOnce, OriginalsKept, LifeInv, [Next]_vars
               PROVE  LifeInv'
    OBVIOUS
  <2>1. left'["timeout"] = 0 /\ CallsPrecedeTasks' /\ HandlersAwaited'
    BY OrderlyStep DEF LifeInv
  <2>2. CASE UndisturbedOutcomes
    BY <2>1, <2>2, UndisturbedStep DEF LifeInv, Orderly
  <2>3. CASE RepeatableOutcomes
    BY <2>1, <2>3, RepeatableStep DEF LifeInv, Orderly
  <2> QED
    BY <2>2, <2>3 DEF LifeInv
<1>4. /\ TypeInv /\ OneProcessor /\ EnqueuedOnce /\ LifeInv /\ [Next]_vars
      => [Lifecycle!Next]_([f \in File |-> row[f].status])
  BY LifecycleStep
<1> QED
  BY <1>1, <1>2, <1>3, <1>4, TypeInvariant, TasksInvariant, OriginalsInvariant,
     PTL DEF Spec, Lifecycle!SafeSpec
=============================================================================
