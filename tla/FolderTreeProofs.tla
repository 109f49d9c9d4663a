-------------------------- MODULE FolderTreeProofs --------------------------
(***************************************************************************)
(* Theorems about FolderTree for any number of folders, files and calls.   *)
(***************************************************************************)
EXTENDS FolderTree, TLAPS, SequenceTheorems

-----------------------------------------------------------------------------
(* Types. A climb is at a folder; a deleteFolder call is about a folder,   *)
(* and removes one only while its stack has a level.                       *)

Placed == {h \in Handler : h.pc = "walking" => h.at \in Folder}

DropsHaveFolders ==
    \A c \in Drop : /\ call[c].pc = "resolved" => call[c].item \in Folder
                    /\ call[c].pc = "removing" => call[c].levels # <<>>

TypeInv == TypeOK /\ call \in [Call -> Placed] /\ DropsHaveFolders

\* Every record a handler is replaced by is a handler.
LEMMA HandlerFields ==
    ASSUME NEW h \in Placed
    PROVE  /\ IdleHandler \in Placed
           /\ [IdleHandler EXCEPT !.pc = "done"] \in Placed
           /\ [IdleHandler EXCEPT !.pc = "lost"] \in Placed
           /\ \A x \in Folder \cup File, p \in Folder \cup {Home} :
                 [IdleHandler EXCEPT !.pc = "resolved", !.item = x, !.into = p] \in Placed
           /\ \A x \in Folder : [IdleHandler EXCEPT !.pc = "resolved", !.item = x] \in Placed
           /\ \A p \in Folder \cup {Home} :
                 /\ [IdleHandler EXCEPT !.pc = "saving", !.into = p] \in Placed
                 /\ [h EXCEPT !.pc = "saving", !.into = p] \in Placed
           /\ \A p \in Folder : [h EXCEPT !.pc = "walking", !.into = p, !.at = p] \in Placed
           /\ [h EXCEPT !.pc = "saving"] \in Placed
           /\ \A p \in Folder \cup {Home}, pc \in {"walking", "saving"} :
                 (pc = "walking" => p \in Folder) => [h EXCEPT !.at = p, !.pc = pc] \in Placed
<1>1. IdleHandler \in Placed
  BY EmptySeq DEF Placed, Handler, IdleHandler
<1>2. \A g \in Placed :
        /\ [g EXCEPT !.pc = "done"] \in Placed
        /\ [g EXCEPT !.pc = "lost"] \in Placed
        /\ [g EXCEPT !.pc = "saving"] \in Placed
  BY DEF Placed, Handler
<1>3. \A g \in Placed, x \in Folder \cup File, p \in Folder \cup {Home} :
        [g EXCEPT !.pc = "resolved", !.item = x, !.into = p] \in Placed
  BY DEF Placed, Handler
<1>4. \A g \in Placed, x \in Folder : [g EXCEPT !.pc = "resolved", !.item = x] \in Placed
  BY DEF Placed, Handler
<1>5. \A g \in Placed, p \in Folder \cup {Home} :
        [g EXCEPT !.pc = "saving", !.into = p] \in Placed
  BY DEF Placed, Handler
<1>6. \A p \in Folder : [h EXCEPT !.pc = "walking", !.into = p, !.at = p] \in Placed
  BY DEF Placed, Handler
<1>7. \A p \in Folder \cup {Home}, pc \in {"walking", "saving"} :
        (pc = "walking" => p \in Folder) => [h EXCEPT !.at = p, !.pc = pc] \in Placed
  BY DEF Placed, Handler
<1> QED
  BY <1>1, <1>2, <1>3, <1>4, <1>5, <1>6, <1>7

\* What a move on its way says of the folder and of where it goes.
LEMMA MovedFields ==
    ASSUME NEW h \in Placed
    PROVE  /\ h.into \in Folder \cup {Home}
           /\ [h EXCEPT !.pc = "saving"].into = h.into
           /\ [h EXCEPT !.pc = "saving"].item = h.item
           /\ \A p : /\ [h EXCEPT !.pc = "saving", !.into = p].into = p
                     /\ [h EXCEPT !.pc = "saving", !.into = p].item = h.item
                     /\ [h EXCEPT !.pc = "walking", !.into = p, !.at = p].into = p
                     /\ [h EXCEPT !.pc = "walking", !.into = p, !.at = p].item = h.item
  BY DEF Placed, Handler

LEMMA DropFields ==
    ASSUME NEW h \in Placed, NEW levels \in Seq(Level)
    PROVE  /\ [h EXCEPT !.levels = levels] \in Placed
           /\ [h EXCEPT !.pc = "deleting", !.levels = levels] \in Placed
           /\ \A found \in SUBSET File : [h EXCEPT !.pc = "removing", !.found = found] \in Placed
           /\ \A gone \in SUBSET Folder, trash \in SUBSET File :
                 [h EXCEPT !.pc = "deleting", !.levels = levels, !.found = {},
                           !.gone = gone, !.trash = trash] \in Placed
  BY DEF Placed, Handler

LEMMA CallKept ==
    ASSUME TypeInv, NEW c \in Call, NEW h \in Placed, call' = [call EXCEPT ![c] = h]
    PROVE  call' \in [Call -> Placed]
  BY DEF TypeInv

\* A call that is no deleteFolder moves on; any call is answered.
LEMMA OtherCallKept ==
    ASSUME TypeInv, NEW c \in Call \ Drop, NEW h \in Placed, call' = [call EXCEPT ![c] = h]
    PROVE  call' \in [Call -> Placed] /\ DropsHaveFolders'
  BY DEF TypeInv, DropsHaveFolders, Call

LEMMA AnswerKeeps ==
    ASSUME TypeInv, NEW c \in Call, Answer(c)
    PROVE  call' \in [Call -> Placed] /\ DropsHaveFolders'
<1> DEFINE h == [IdleHandler EXCEPT !.pc = "done"]
<1>1. call[c] \in Placed
  BY DEF TypeInv
<1>2. h \in Placed /\ h.pc = "done"
  BY <1>1, HandlerFields DEF IdleHandler
<1>3. call' = [call EXCEPT ![c] = h]
  BY DEF Answer
<1> HIDE DEF h
<1> QED
  BY <1>2, <1>3 DEF TypeInv, DropsHaveFolders, Call

LEMMA NoDrops ==
    /\ Create \cup Move \cup Arrive \cup Put \subseteq Call \ Drop
    /\ Create \subseteq Folder /\ Arrive \subseteq File /\ Drop \subseteq Call
  BY CallsAssumption DEF Call, Folder, File

\* The innermost level of a stack, what is left below it, and a push.
LEMMA StackTypes ==
    ASSUME NEW s \in Seq(Level), s # <<>>
    PROVE  /\ s[1] \in Level /\ s[1].folder \in Folder
           /\ Tail(s) \in Seq(Level)
           /\ \A x \in Folder, S \in SUBSET Folder, R \in SUBSET Folder :
                 <<[folder |-> x, left |-> S], [s[1] EXCEPT !.left = R]>> \o Tail(s)
                     \in Seq(Level)
<1>1. Len(s) \in Nat /\ Len(s) >= 1 /\ s[1] \in Level
  BY EmptySeq
<1>2. Tail(s) \in Seq(Level)
  BY <1>1
<1>3. ASSUME NEW x \in Folder, NEW S \in SUBSET Folder, NEW R \in SUBSET Folder
      PROVE  <<[folder |-> x, left |-> S], [s[1] EXCEPT !.left = R]>> \in Seq(Level)
  <2>1. [folder |-> x, left |-> S] \in Level /\ [s[1] EXCEPT !.left = R] \in Level
    BY <1>1 DEF Level
  <2> QED
    BY <2>1
<1> QED
  BY <1>1, <1>2, <1>3, ConcatProperties DEF Level

LEMMA ClimbType ==
    ASSUME TypeInv, NEW c \in Move, call[c].pc = "walking"
    PROVE  call[c].at \in Folder /\ Climb(call[c].at) \in Folder \cup {Home}
<1>1. call[c].at \in Folder /\ folder \in [Folder -> FolderRow]
  BY NoDrops DEF TypeInv, TypeOK, Placed
<1> QED
  BY <1>1 DEF Climb, FolderRow

LEMMA TypeInvariant == Spec => []TypeInv
<1>1. Init => TypeInv
  <2> SUFFICES ASSUME Init PROVE TypeInv
    OBVIOUS
  <2>1. folder \in [Folder -> FolderRow]
    BY SeedAssumption DEF Init, FolderRow, NoFolderRow, Folder
  <2>2. file \in [File -> FileRow]
    BY SeedAssumption DEF Init, FileRow, NoFileRow, Folder
  <2>3. IdleHandler \in Placed /\ IdleHandler.pc = "idle"
    BY EmptySeq DEF Placed, Handler, IdleHandler
  <2>4. call \in [Call -> Placed] /\ call \in [Call -> Handler] /\ DropsHaveFolders
    BY <2>3 DEF Init, Placed, DropsHaveFolders, Call
  <2> QED
    BY <2>1, <2>2, <2>4, DisciplinesAssumption DEF Init, TypeInv, TypeOK
<1>2. TypeInv /\ [Next]_vars => TypeInv'
  <2> SUFFICES ASSUME TypeInv, [Next]_vars PROVE TypeInv'
    OBVIOUS
  <2>0. /\ folder \in [Folder -> FolderRow] /\ file \in [File -> FileRow]
        /\ call \in [Call -> Placed] /\ apart \in SUBSET (Call \X Call)
        /\ \A c \in Call : call[c] \in Placed
        /\ \A calls \in [Call -> Placed] : calls \in [Call -> Handler]
    BY DEF TypeInv, TypeOK, Placed
  <2>1. ASSUME NEW c \in Create \cup Arrive, Check(c) PROVE TypeInv'
    <3>1. PICK p \in Folder \cup {Home} :
              call' = [call EXCEPT ![c] = [IdleHandler EXCEPT !.pc = "saving", !.into = p]]
      BY <2>1 DEF Check
    <3>2. call' \in [Call -> Placed] /\ DropsHaveFolders'
      BY <2>0, <3>1, OtherCallKept, NoDrops, HandlerFields
    <3> QED
      BY <2>0, <2>1, <3>2 DEF Check, TypeInv, TypeOK
  <2>2. ASSUME NEW c \in Create, InsertFolder(c) PROVE TypeInv'
    <3>1. [exists |-> TRUE, parent |-> call[c].into] \in FolderRow /\ c \in Folder /\ c \in Call
      BY <2>0, NoDrops DEF FolderRow, Placed, Handler
    <3>2. call' \in [Call -> Placed] /\ DropsHaveFolders'
      BY <2>2, <3>1, AnswerKeeps DEF InsertFolder
    <3> QED
      BY <2>0, <2>2, <3>1, <3>2 DEF InsertFolder, TypeInv, TypeOK
  <2>3. ASSUME NEW c \in Arrive, InsertFile(c) PROVE TypeInv'
    <3>1. [exists |-> TRUE, folder |-> call[c].into] \in FileRow /\ c \in File /\ c \in Call
      BY <2>0, NoDrops DEF FileRow, Placed, Handler
    <3>2. call' \in [Call -> Placed] /\ DropsHaveFolders'
      BY <2>3, <3>1, AnswerKeeps DEF InsertFile
    <3> QED
      BY <2>0, <2>3, <3>1, <3>2 DEF InsertFile, TypeInv, TypeOK
  <2>4. ASSUME NEW c \in Move, MoveRead(c) PROVE TypeInv'
    <3>1. PICK x \in Folder : call' = [call EXCEPT ![c] =
              [IdleHandler EXCEPT !.pc = "resolved", !.item = x, !.into = folder[x].parent]]
      BY <2>4 DEF MoveRead
    <3>2. folder[x].parent \in Folder \cup {Home}
      BY <2>0 DEF FolderRow
    <3>3. call' \in [Call -> Placed] /\ DropsHaveFolders'
      BY <2>0, <3>1, <3>2, OtherCallKept, NoDrops, HandlerFields
    <3> QED
      BY <2>0, <2>4, <3>3 DEF MoveRead, TypeInv, TypeOK
  <2>5. ASSUME NEW c \in Put, PutRead(c) PROVE TypeInv'
    <3>1. PICK x \in File : call' = [call EXCEPT ![c] =
              [IdleHandler EXCEPT !.pc = "resolved", !.item = x, !.into = file[x].folder]]
      BY <2>5 DEF PutRead
    <3>2. file[x].folder \in Folder \cup {Home}
      BY <2>0 DEF FileRow
    <3>3. call' \in [Call -> Placed] /\ DropsHaveFolders'
      BY <2>0, <3>1, <3>2, OtherCallKept, NoDrops, HandlerFields
    <3> QED
      BY <2>0, <2>5, <3>3 DEF PutRead, TypeInv, TypeOK
  <2>6. ASSUME NEW c \in Move \cup Put, KeepPlace(c) PROVE TypeInv'
    <3>1. c \in Call \ Drop /\ call[c] \in Placed
      BY <2>0, NoDrops
    <3>2. \/ call' = [call EXCEPT ![c] = [call[c] EXCEPT !.pc = "saving"]]
          \/ call' = [call EXCEPT ![c] = [call[c] EXCEPT !.pc = "saving", !.into = Home]]
      BY <2>6 DEF KeepPlace
    <3>3. call' \in [Call -> Placed] /\ DropsHaveFolders'
      BY <3>1, <3>2, OtherCallKept, HandlerFields
    <3> QED
      BY <2>0, <2>6, <3>3 DEF KeepPlace, TypeInv, TypeOK
  <2>7. ASSUME NEW c \in Move, MoveUnder(c) PROVE TypeInv'
    <3>1. c \in Call \ Drop /\ call[c] \in Placed
      BY <2>0, NoDrops
    <3>2. PICK p \in Folder :
              call' = [call EXCEPT ![c] = [call[c] EXCEPT !.pc = "walking", !.into = p, !.at = p]]
      BY <2>7 DEF MoveUnder
    <3>3. call' \in [Call -> Placed] /\ DropsHaveFolders'
      BY <3>1, <3>2, OtherCallKept, HandlerFields
    <3> QED
      BY <2>0, <2>7, <3>3 DEF MoveUnder, TypeInv, TypeOK
  <2>8. ASSUME NEW c \in Put, PutUnder(c) PROVE TypeInv'
    <3>1. c \in Call \ Drop /\ call[c] \in Placed
      BY <2>0, NoDrops
    <3>2. PICK p \in Folder :
              call' = [call EXCEPT ![c] = [call[c] EXCEPT !.pc = "saving", !.into = p]]
      BY <2>8 DEF PutUnder
    <3>3. call' \in [Call -> Placed] /\ DropsHaveFolders'
      BY <3>1, <3>2, OtherCallKept, HandlerFields
    <3> QED
      BY <2>0, <2>8, <3>3 DEF PutUnder, TypeInv, TypeOK
  <2>9. ASSUME NEW c \in Move, MoveWalk(c) PROVE TypeInv'
    <3>1. c \in Call \ Drop /\ call[c] \in Placed
      BY <2>0, NoDrops
    <3>2. CASE Answer(c)
      BY <2>0, <2>9, <3>1, <3>2, AnswerKeeps DEF MoveWalk, TypeInv, TypeOK
    <3>3. CASE ~Answer(c)
      <4> DEFINE next == Climb(call[c].at)
                 pc == IF next = Home THEN "saving" ELSE call[c].pc
      <4>1. call[c].pc = "walking" /\ call[c].at \in Folder
        BY <2>9, <3>1 DEF MoveWalk, Placed
      <4>2. next \in Folder \cup {Home}
        BY <2>0, <4>1 DEF Climb, FolderRow
      <4>3. call' = [call EXCEPT ![c] = [call[c] EXCEPT !.at = next, !.pc = pc]]
        BY <2>9, <3>3 DEF MoveWalk
      <4>4. pc \in {"walking", "saving"} /\ (pc = "walking" => next \in Folder)
        BY <4>1, <4>2
      <4> HIDE DEF next, pc
      <4>5. call' \in [Call -> Placed] /\ DropsHaveFolders'
        BY <3>1, <4>2, <4>3, <4>4, OtherCallKept, HandlerFields
      <4> QED
        BY <2>0, <2>9, <4>5 DEF MoveWalk, TypeInv, TypeOK
    <3> QED
      BY <3>2, <3>3
  <2>10. ASSUME NEW c \in Move, MoveSave(c) PROVE TypeInv'
    <3>1. [exists |-> TRUE, parent |-> call[c].into] \in FolderRow /\ c \in Call
      BY <2>0, NoDrops DEF FolderRow, Placed, Handler
    <3>2. call' \in [Call -> Placed] /\ DropsHaveFolders'
      BY <2>10, <3>1, AnswerKeeps DEF MoveSave
    <3> QED
      BY <2>0, <2>10, <3>1, <3>2 DEF MoveSave, TypeInv, TypeOK
  <2>11. ASSUME NEW c \in Put, PutSave(c) PROVE TypeInv'
    <3>1. [exists |-> TRUE, folder |-> call[c].into] \in FileRow /\ c \in Call
      BY <2>0, NoDrops DEF FileRow, Placed, Handler
    <3>2. call' \in [Call -> Placed] /\ DropsHaveFolders'
      BY <2>11, <3>1, AnswerKeeps DEF PutSave
    <3> QED
      BY <2>0, <2>11, <3>1, <3>2 DEF PutSave, TypeInv, TypeOK
  <2>12. ASSUME NEW c \in Drop, DropRead(c) PROVE TypeInv'
    <3>1. PICK x \in Folder :
              call' = [call EXCEPT ![c] = [IdleHandler EXCEPT !.pc = "resolved", !.item = x]]
      BY <2>12 DEF DropRead
    <3>2. call' \in [Call -> Placed]
      BY <2>0, <3>1, CallKept, HandlerFields DEF Call
    <3>3. DropsHaveFolders'
      BY <2>0, <3>1 DEF TypeInv, DropsHaveFolders, Call, IdleHandler
    <3> QED
      BY <2>0, <2>12, <3>2, <3>3 DEF DropRead, TypeInv, TypeOK
  <2>13. ASSUME NEW c \in Drop, DropBegin(c) PROVE TypeInv'
    <3>1. c \in Call /\ call[c] \in Placed /\ call[c].item \in Folder
      BY <2>0, <2>13 DEF Call, TypeInv, DropsHaveFolders, DropBegin
    <3> DEFINE levels == <<[folder |-> call[c].item, left |-> Children(c, call[c].item)]>>
    <3>2. levels \in Seq(Level)
      BY <3>1 DEF Level, Children
    <3>3. call' = [call EXCEPT ![c] = [call[c] EXCEPT !.pc = "deleting", !.levels = levels]]
      BY <2>13 DEF DropBegin
    <3> HIDE DEF levels
    <3>4. call' \in [Call -> Placed]
      BY <2>0, <3>1, <3>2, <3>3, CallKept, DropFields
    <3>5. DropsHaveFolders'
      BY <2>0, <3>1, <3>3 DEF TypeInv, DropsHaveFolders, Call, Placed, Handler
    <3> QED
      BY <2>0, <2>13, <3>4, <3>5 DEF DropBegin, TypeInv, TypeOK
  <2>14. ASSUME NEW c \in Drop, DropDescend(c) PROVE TypeInv'
    <3>1. c \in Call /\ call[c] \in Placed /\ call[c].levels \in Seq(Level)
      BY <2>0 DEF Call, Placed, Handler
    <3>2. PICK x \in call[c].levels[1].left :
            LET top == [call[c].levels[1] EXCEPT !.left = @ \ {x}]
            IN  call' = IF Len(call[c].levels) = MaxDepth
                        THEN [call EXCEPT ![c] = [IdleHandler EXCEPT !.pc = "lost"]]
                        ELSE [call EXCEPT ![c].levels =
                                <<[folder |-> x, left |-> Children(c, x)], top>> \o Tail(@)]
      BY <2>14 DEF DropDescend
    <3>3. CASE call' = [call EXCEPT ![c] = [IdleHandler EXCEPT !.pc = "lost"]]
      <4>1. call' \in [Call -> Placed]
        BY <2>0, <3>1, <3>3, CallKept, HandlerFields
      <4>2. DropsHaveFolders'
        BY <2>0, <3>1, <3>3 DEF TypeInv, DropsHaveFolders, Call, IdleHandler
      <4> QED
        BY <2>0, <2>14, <4>1, <4>2 DEF DropDescend, TypeInv, TypeOK
    <3>4. CASE Len(call[c].levels) # MaxDepth
      <4> DEFINE left == call[c].levels[1].left \ {x}
                 levels == <<[folder |-> x, left |-> Children(c, x)],
                             [call[c].levels[1] EXCEPT !.left = left]>> \o Tail(call[c].levels)
      <4>1. call[c].levels # <<>> /\ call[c].pc = "deleting"
        BY <2>14 DEF DropDescend
      <4>2. call[c].levels[1] \in Level
        BY <3>1, <4>1, StackTypes
      <4>3. x \in Folder /\ left \in SUBSET Folder /\ Children(c, x) \in SUBSET Folder
        BY <4>2 DEF Level, Children
      <4>4. levels \in Seq(Level)
        BY <3>1, <4>1, <4>3, StackTypes
      <4>5. call' = [call EXCEPT ![c] = [call[c] EXCEPT !.levels = levels]]
        BY <3>2, <3>4
      <4> HIDE DEF levels
      <4>6. call' \in [Call -> Placed]
        BY <2>0, <3>1, <4>4, <4>5, CallKept, DropFields
      <4>7. DropsHaveFolders'
        BY <2>0, <3>1, <4>1, <4>5 DEF TypeInv, DropsHaveFolders, Call, Placed, Handler
      <4> QED
        BY <2>0, <2>14, <4>6, <4>7 DEF DropDescend, TypeInv, TypeOK
    <3> QED
      BY <3>2, <3>3, <3>4
  <2>15. ASSUME NEW c \in Drop, DropSelect(c) PROVE TypeInv'
    <3>1. c \in Call /\ call[c] \in Placed /\ call[c].levels # <<>>
      BY <2>0, <2>15 DEF Call, DropSelect
    <3> DEFINE found == FilesIn(c, call[c].levels[1].folder)
    <3>2. found \in SUBSET File
      BY DEF FilesIn
    <3>3. call' = [call EXCEPT ![c] = [call[c] EXCEPT !.pc = "removing", !.found = found]]
      BY <2>15 DEF DropSelect
    <3> HIDE DEF found
    <3>4. call' \in [Call -> Placed]
      <4>1. call[c].levels \in Seq(Level)
        BY <3>1 DEF Placed, Handler
      <4> QED
        BY <2>0, <3>1, <3>2, <3>3, <4>1, CallKept, DropFields
    <3>5. DropsHaveFolders'
      BY <2>0, <3>1, <3>3 DEF TypeInv, DropsHaveFolders, Call, Placed, Handler
    <3> QED
      BY <2>0, <2>15, <3>4, <3>5 DEF DropSelect, TypeInv, TypeOK
  <2>16. ASSUME NEW c \in Drop, DropRemove(c) PROVE TypeInv'
    <3>1. c \in Call /\ call[c] \in Placed /\ call[c].levels \in Seq(Level)
      BY <2>0 DEF Call, Placed, Handler
    <3>2. call[c].levels # <<>>
      BY <2>16 DEF TypeInv, DropsHaveFolders, DropRemove
    <3> DEFINE levels == Tail(call[c].levels)
               gone == call[c].gone \cup {call[c].levels[1].folder}
               trash == call[c].trash \cup call[c].found
    <3>3. levels \in Seq(Level) /\ gone \in SUBSET Folder /\ trash \in SUBSET File
      <4>1. levels \in Seq(Level) /\ call[c].levels[1].folder \in Folder
        BY <3>1, <3>2, StackTypes
      <4> QED
        BY <3>1, <4>1 DEF Placed, Handler
    <3>4. call' = [call EXCEPT ![c] = [call[c] EXCEPT !.pc = "deleting", !.levels = levels,
                                          !.found = {}, !.gone = gone, !.trash = trash]]
      BY <2>16 DEF DropRemove
    <3> HIDE DEF levels, gone, trash
    <3>5. call' \in [Call -> Placed]
      BY <2>0, <3>1, <3>3, <3>4, CallKept, DropFields
    <3>6. DropsHaveFolders'
      BY <2>0, <3>1, <3>4 DEF TypeInv, DropsHaveFolders, Call, Placed, Handler
    <3> QED
      BY <2>0, <2>16, <3>5, <3>6 DEF DropRemove, TypeInv, TypeOK
  <2>17. ASSUME NEW c \in Drop, DropCommit(c) PROVE TypeInv'
    <3>1. c \in Call
      BY DEF Call
    <3>2. folder' \in [Folder -> FolderRow]
      BY <2>0, <2>17 DEF DropCommit, FolderRow
    <3>3. file' \in [File -> FileRow]
      BY <2>0, <2>17 DEF DropCommit, FileRow
    <3> QED
      BY <2>0, <2>17, <3>1, <3>2, <3>3, AnswerKeeps DEF DropCommit, TypeInv, TypeOK
  <2>18. ASSUME NEW c \in Drop, DropRollback(c) PROVE TypeInv'
    BY <2>0, <2>18, AnswerKeeps DEF DropRollback, Call, TypeInv, TypeOK
  <2>19. CASE UNCHANGED vars
    BY <2>0, <2>19 DEF vars, TypeInv, TypeOK, DropsHaveFolders
  <2> QED
    BY <2>1, <2>2, <2>3, <2>4, <2>5, <2>6, <2>7, <2>8, <2>9, <2>10, <2>11, <2>12, <2>13,
       <2>14, <2>15, <2>16, <2>17, <2>18, <2>19
       DEF Next, CreateStep, ArriveStep, MoveStep, PutStep, DropStep
<1> QED
  BY <1>1, <1>2, PTL DEF Spec

\* The rows and the handlers are always well formed, for every set of folders,
\* files and calls, whatever the client overlaps.
THEOREM TreeTypeCorrect == Spec => []TypeOK
<1>1. TypeInv => TypeOK
  BY DEF TypeInv
<1> QED
  BY <1>1, TypeInvariant, PTL
-----------------------------------------------------------------------------
(* A folder that has not been inserted yet is known to nobody: its id is   *)
(* generated when the row is.                                              *)

UnbornInv ==
    \A n \in Create : call[n].pc # "done" =>
        /\ ~Exists(n)
        /\ \A x \in Folder : folder[x].parent # n
        /\ \A c \in Create \cup Move : call[c].into # n
        /\ \A c \in Move : call[c].item # n

\* What a call takes from the rows is not an unborn folder.
LEMMA RowsAreBorn ==
    ASSUME TypeInv, UnbornInv, NEW n \in Create, call[n].pc # "done"
    PROVE  /\ \A x \in Folder : Exists(x) => x # n
           /\ \A x \in Folder : folder[x].parent # n
           /\ Home # n
  BY CallsAssumption, NoDrops DEF UnbornInv

\* A call moves on while the folders stay as they are.
LEMMA UnbornKept ==
    ASSUME TypeInv, UnbornInv, NEW c \in Call, NEW h \in Placed,
           call' = [call EXCEPT ![c] = h], UNCHANGED folder, call[c].pc # "done",
           \A n \in Create : call[n].pc # "done" =>
               /\ c \in Create \cup Move => h.into # n
               /\ c \in Move => h.item # n
    PROVE  UnbornInv'
  BY NoDrops DEF UnbornInv, TypeInv, TypeOK, Exists

LEMMA UnbornInvariant == Spec => []UnbornInv
<1>1. Init => UnbornInv
  <2> SUFFICES ASSUME Init, NEW n \in Create
               PROVE  /\ ~Exists(n)
                      /\ \A x \in Folder : folder[x].parent # n
                      /\ \A c \in Create \cup Move : call[c].into # n
                      /\ \A c \in Move : call[c].item # n
    BY DEF UnbornInv
  <2>1. n \notin Seed /\ n \in Folder /\ n # Home
    BY CallsAssumption DEF Folder
  <2>2. ~Exists(n) /\ \A x \in Folder : folder[x].parent # n
    BY <2>1, SeedAssumption DEF Init, Exists, NoFolderRow, Folder
  <2> QED
    BY <2>1, <2>2, NoDrops DEF Init, IdleHandler
<1>2. TypeInv /\ UnbornInv /\ [Next]_vars => UnbornInv'
  <2> SUFFICES ASSUME TypeInv, UnbornInv, [Next]_vars PROVE UnbornInv'
    OBVIOUS
  <2>0. /\ call \in [Call -> Placed] /\ folder \in [Folder -> FolderRow]
        /\ \A c \in Call : call[c] \in Placed
    BY DEF TypeInv, TypeOK
  <2>1. ASSUME NEW c \in Call, call[c].pc # "done", Answer(c), UNCHANGED folder PROVE UnbornInv'
    <3> DEFINE h == [IdleHandler EXCEPT !.pc = "done"]
    <3>1. h \in Placed
      BY <2>0, HandlerFields
    <3>2. h.into = Home /\ h.item = Home
      BY DEF IdleHandler
    <3>3. call' = [call EXCEPT ![c] = h]
      BY <2>1 DEF Answer
    <3> HIDE DEF h
    <3> QED
      BY <2>1, <3>1, <3>2, <3>3, RowsAreBorn, UnbornKept
  <2>2. ASSUME NEW c \in Create \cup Arrive, Check(c) PROVE UnbornInv'
    <3>1. PICK p \in Folder \cup {Home} :
            /\ Target(p)
            /\ call' = [call EXCEPT ![c] = [IdleHandler EXCEPT !.pc = "saving", !.into = p]]
      BY <2>2 DEF Check
    <3> DEFINE h == [IdleHandler EXCEPT !.pc = "saving", !.into = p]
    <3>2. h \in Placed
      BY <2>0, NoDrops, HandlerFields
    <3>3. h.into = p
      BY DEF IdleHandler
    <3>4. c \notin Move
      BY CallsAssumption
    <3>5. call[c].pc # "done" /\ UNCHANGED folder
      BY <2>2 DEF Check, MayStart
    <3>6. \A n \in Create : call[n].pc # "done" => p # n
      BY <3>1, RowsAreBorn DEF Target
    <3>7. call' = [call EXCEPT ![c] = h]
      BY <3>1
    <3> HIDE DEF h
    <3> QED
      BY <3>2, <3>3, <3>4, <3>5, <3>6, <3>7, NoDrops, UnbornKept
  <2>3. ASSUME NEW c \in Create, InsertFolder(c) PROVE UnbornInv'
    <3>1. call[c].pc = "saving" /\ c \in Call /\ c \in Folder
      BY <2>3, NoDrops DEF InsertFolder
    <3>2. /\ folder' = [folder EXCEPT ![c] = [exists |-> TRUE, parent |-> call[c].into]]
          /\ call' = [call EXCEPT ![c] = [IdleHandler EXCEPT !.pc = "done"]]
      BY <2>3 DEF InsertFolder, Answer
    <3>3. /\ [IdleHandler EXCEPT !.pc = "done"].pc = "done"
          /\ [IdleHandler EXCEPT !.pc = "done"].into = Home
          /\ [IdleHandler EXCEPT !.pc = "done"].item = Home
      BY DEF IdleHandler
    <3>4. SUFFICES ASSUME NEW n \in Create, call'[n].pc # "done"
                   PROVE  /\ ~folder'[n].exists
                          /\ \A x \in Folder : folder'[x].parent # n
                          /\ \A d \in Create \cup Move : call'[d].into # n
                          /\ \A d \in Move : call'[d].item # n
      BY DEF UnbornInv, Exists
    <3>5. n # c /\ call[n].pc # "done" /\ n \in Call /\ n \in Folder /\ Home # n
      <4>1. n \in Call /\ n \in Folder
        BY NoDrops
      <4>2. n # c /\ call'[n] = call[n]
        BY <2>0, <3>1, <3>2, <3>3, <3>4, <4>1
      <4> QED
        BY <3>4, <4>1, <4>2, RowsAreBorn
    <3>6. /\ ~folder[n].exists
          /\ \A x \in Folder : folder[x].parent # n
          /\ \A d \in Create \cup Move : call[d].into # n
          /\ \A d \in Move : call[d].item # n
      BY <3>5 DEF UnbornInv, Exists
    <3>7. ~folder'[n].exists /\ \A x \in Folder : folder'[x].parent # n
      BY <2>0, <3>1, <3>2, <3>5, <3>6
    <3>8. \A d \in Create \cup Move : call'[d].into # n
      BY <2>0, <3>1, <3>2, <3>3, <3>5, <3>6, NoDrops
    <3>9. \A d \in Move : call'[d].item # n
      BY <2>0, <3>1, <3>2, <3>3, <3>5, <3>6, NoDrops
    <3> QED
      BY <3>7, <3>8, <3>9
  <2>4. ASSUME NEW c \in Arrive, InsertFile(c) PROVE UnbornInv'
    BY <2>1, <2>4, NoDrops DEF InsertFile
  <2>5. ASSUME NEW c \in Move, MoveRead(c) PROVE UnbornInv'
    <3>1. PICK x \in Folder :
            /\ Exists(x)
            /\ call' = [call EXCEPT ![c] =
                 [IdleHandler EXCEPT !.pc = "resolved", !.item = x, !.into = folder[x].parent]]
      BY <2>5 DEF MoveRead
    <3> DEFINE h == [IdleHandler EXCEPT !.pc = "resolved", !.item = x, !.into = folder[x].parent]
    <3>2. h \in Placed
      <4>1. folder[x].parent \in Folder \cup {Home}
        BY <2>0 DEF FolderRow
      <4> QED
        BY <2>0, <4>1, NoDrops, HandlerFields
    <3>3. h.into = folder[x].parent /\ h.item = x
      BY DEF IdleHandler
    <3>4. call[c].pc # "done" /\ UNCHANGED folder
      BY <2>5 DEF MoveRead, MayStart
    <3>5. \A n \in Create : call[n].pc # "done" => x # n /\ folder[x].parent # n
      BY <3>1, RowsAreBorn
    <3>6. call' = [call EXCEPT ![c] = h]
      BY <3>1
    <3> HIDE DEF h
    <3> QED
      BY <3>2, <3>3, <3>4, <3>5, <3>6, NoDrops, UnbornKept
  <2>6. ASSUME NEW c \in Move, NEW p \in Folder \cup {Home}, NEW h \in Placed,
               Target(p) \/ p = call[c].into, call[c].pc # "done",
               h.into = p, h.item = call[c].item,
               call' = [call EXCEPT ![c] = h], UNCHANGED folder
        PROVE  UnbornInv'
    <3>1. \A n \in Create : call[n].pc # "done" => h.into # n /\ h.item # n
      BY <2>6, RowsAreBorn DEF Target, UnbornInv
    <3> QED
      BY <2>6, <3>1, NoDrops, UnbornKept
  <2>7. ASSUME NEW c \in Move, KeepPlace(c) PROVE UnbornInv'
    <3>1. call[c] \in Placed /\ call[c].pc = "resolved" /\ UNCHANGED folder
      BY <2>0, <2>7, NoDrops DEF KeepPlace
    <3>2. ASSUME call' = [call EXCEPT ![c] = [call[c] EXCEPT !.pc = "saving"]] PROVE UnbornInv'
      <4>1. /\ [call[c] EXCEPT !.pc = "saving"] \in Placed
            /\ [call[c] EXCEPT !.pc = "saving"].into = call[c].into
            /\ [call[c] EXCEPT !.pc = "saving"].item = call[c].item
            /\ call[c].into \in Folder \cup {Home}
        BY <3>1, HandlerFields, MovedFields
      <4> QED
        BY <2>6, <3>1, <3>2, <4>1
    <3>3. ASSUME call' = [call EXCEPT ![c] = [call[c] EXCEPT !.pc = "saving", !.into = Home]]
          PROVE  UnbornInv'
      <4>1. /\ [call[c] EXCEPT !.pc = "saving", !.into = Home] \in Placed
            /\ [call[c] EXCEPT !.pc = "saving", !.into = Home].into = Home
            /\ [call[c] EXCEPT !.pc = "saving", !.into = Home].item = call[c].item
        BY <3>1, HandlerFields, MovedFields
      <4> QED
        BY <2>6, <3>1, <3>3, <4>1 DEF Target
    <3> QED
      BY <2>7, <3>2, <3>3 DEF KeepPlace
  <2>8. ASSUME NEW c \in Move, MoveUnder(c) PROVE UnbornInv'
    <3>1. call[c] \in Placed /\ call[c].pc = "resolved" /\ UNCHANGED folder
      BY <2>0, <2>8, NoDrops DEF MoveUnder
    <3>2. PICK p \in Folder :
            /\ Exists(p)
            /\ call' = [call EXCEPT ![c] = [call[c] EXCEPT !.pc = "walking", !.into = p, !.at = p]]
      BY <2>8 DEF MoveUnder
    <3>3. /\ [call[c] EXCEPT !.pc = "walking", !.into = p, !.at = p] \in Placed
          /\ [call[c] EXCEPT !.pc = "walking", !.into = p, !.at = p].into = p
          /\ [call[c] EXCEPT !.pc = "walking", !.into = p, !.at = p].item = call[c].item
      BY <3>1, HandlerFields, MovedFields
    <3> QED
      BY <2>6, <3>1, <3>2, <3>3 DEF Target
  <2>9. ASSUME NEW c \in Move, MoveWalk(c) PROVE UnbornInv'
    <3>1. call[c] \in Placed /\ call[c].pc = "walking" /\ UNCHANGED folder /\ c \in Call
      BY <2>0, <2>9, NoDrops DEF MoveWalk
    <3>2. CASE Answer(c)
      BY <2>1, <3>1, <3>2
    <3>3. CASE ~Answer(c)
      <4> DEFINE h == [call[c] EXCEPT !.at = Climb(call[c].at),
                          !.pc = IF Climb(call[c].at) = Home THEN "saving" ELSE call[c].pc]
      <4>1. call' = [call EXCEPT ![c] = h]
        BY <2>9, <3>3 DEF MoveWalk
      <4>2. /\ h.into = call[c].into /\ h.item = call[c].item
            /\ call[c].into \in Folder \cup {Home}
        BY <3>1 DEF Placed, Handler
      <4>3. h \in Placed
        BY <2>0, <3>1, ClimbType, HandlerFields
      <4> HIDE DEF h
      <4> QED
        BY <2>6, <3>1, <4>1, <4>2, <4>3
    <3> QED
      BY <3>2, <3>3
  <2>10. ASSUME NEW c \in Move, MoveSave(c) PROVE UnbornInv'
    <3>1. call[c].pc = "saving" /\ c \in Call /\ c \notin Create
      BY <2>10, NoDrops, CallsAssumption DEF MoveSave
    <3>2. /\ folder' = [folder EXCEPT ![call[c].item] = [exists |-> TRUE, parent |-> call[c].into]]
          /\ call' = [call EXCEPT ![c] = [IdleHandler EXCEPT !.pc = "done"]]
      BY <2>10 DEF MoveSave, Answer
    <3>3. /\ [IdleHandler EXCEPT !.pc = "done"].into = Home
          /\ [IdleHandler EXCEPT !.pc = "done"].item = Home
      BY DEF IdleHandler
    <3>4. SUFFICES ASSUME NEW n \in Create, call'[n].pc # "done"
                   PROVE  /\ ~folder'[n].exists
                          /\ \A x \in Folder : folder'[x].parent # n
                          /\ \A d \in Create \cup Move : call'[d].into # n
                          /\ \A d \in Move : call'[d].item # n
      BY DEF UnbornInv, Exists
    <3>5. n # c /\ call[n].pc # "done" /\ n \in Call /\ n \in Folder /\ Home # n
      <4>1. n \in Call /\ n \in Folder /\ n # c
        BY <3>1, NoDrops
      <4>2. call'[n] = call[n]
        BY <2>0, <3>1, <3>2, <4>1
      <4> QED
        BY <3>4, <4>1, <4>2, RowsAreBorn
    <3>6. /\ ~folder[n].exists
          /\ \A x \in Folder : folder[x].parent # n
          /\ \A d \in Create \cup Move : call[d].into # n
          /\ \A d \in Move : call[d].item # n
      BY <3>5 DEF UnbornInv, Exists
    <3>7. ~folder'[n].exists /\ \A x \in Folder : folder'[x].parent # n
      BY <2>0, <3>1, <3>2, <3>5, <3>6
    <3>8. \A d \in Create \cup Move : call'[d].into # n
      BY <2>0, <3>1, <3>2, <3>3, <3>5, <3>6, NoDrops
    <3>9. \A d \in Move : call'[d].item # n
      BY <2>0, <3>1, <3>2, <3>3, <3>5, <3>6, NoDrops
    <3> QED
      BY <3>7, <3>8, <3>9
  <2>11. ASSUME NEW c \in Put, PutStep(c) PROVE UnbornInv'
    <3>1. c \in Call /\ c \notin Create \cup Move
      BY CallsAssumption, NoDrops
    <3>2. UNCHANGED folder /\ \A d \in Call \ {c} : call'[d] = call[d]
      BY <2>0, <2>11 DEF PutStep, PutRead, KeepPlace, PutUnder, PutSave, Answer
    <3> QED
      BY <3>1, <3>2, NoDrops DEF UnbornInv, Exists
  <2>12. ASSUME NEW c \in Drop, DropStep(c) PROVE UnbornInv'
    <3>1. c \in Call /\ c \notin Create \cup Move
      BY NoDrops
    <3>2. \A d \in Call \ {c} : call'[d] = call[d]
      BY <2>0, <2>12 DEF DropStep, DropRead, DropBegin, DropDescend, DropSelect, DropRemove,
                         DropCommit, DropRollback, Answer
    <3>3. \A x \in Folder : /\ folder'[x].parent = folder[x].parent
                            /\ folder'[x].exists => folder[x].exists
      <4>1. CASE DropCommit(c)
        BY <2>0, <4>1 DEF DropCommit, FolderRow
      <4>2. CASE ~DropCommit(c)
        BY <2>12, <4>2 DEF DropStep, DropRead, DropBegin, DropDescend, DropSelect, DropRemove,
                           DropRollback
      <4> QED
        BY <4>1, <4>2
    <3> QED
      BY <3>1, <3>2, <3>3, NoDrops DEF UnbornInv, Exists
  <2>13. CASE UNCHANGED vars
    BY <2>13 DEF vars, UnbornInv, Exists
  <2> QED
    BY <2>2, <2>3, <2>4, <2>5, <2>7, <2>8, <2>9, <2>10, <2>11, <2>12, <2>13
       DEF Next, CreateStep, ArriveStep, MoveStep
<1> QED
  BY <1>1, <1>2, TypeInvariant, PTL DEF Spec
-----------------------------------------------------------------------------
(* The tree. A set of folders is closed but for i when every one of its    *)
(* folders other than i exists and hangs from a folder of the set: a cycle *)
(* is a closed set, and saving i under p makes one out of a set that is    *)
(* closed but for i and has p. So a move may save when there is no such    *)
(* set, and as long as it climbs, what it will still see is in all of them. *)

Closed(S, i) == \A x \in S \ {i} : Exists(x) /\ folder[x].parent \in S

NoWayRound(i, p) == \A S \in SUBSET Folder : p \in S => ~Closed(S, i)

AllWaysAhead(i, p, at) == \A S \in SUBSET Folder : p \in S /\ Closed(S, i) => at \in S

MoveGood(h) ==
    /\ h.pc \in {"resolved", "saving"} => NoWayRound(h.item, h.into)
    /\ h.pc = "walking" => AllWaysAhead(h.item, h.into, h.at)

OneMove == \A m, k \in Move : InFlight(m) /\ InFlight(k) => m = k

TreeInv ==
    Move \X Move \subseteq apart =>
        /\ OneMove
        /\ NoCycle
        /\ \A m \in Move : MoveGood(call[m])

LEMMA NoCycleIsNoClosedSet ==
    /\ NoCycle <=> \A S \in SUBSET Folder : S # {} => ~Closed(S, Home)
    /\ NoCycle' <=> \A S \in SUBSET Folder : S # {} => ~Closed(S, Home)'
  BY CallsAssumption DEF NoCycle, Closed

\* Closed sets only get fewer when folders disappear and none is moved.
LEMMA TreeShrinks ==
    ASSUME TreeInv, UNCHANGED apart, \A m \in Move : call'[m] = call[m],
           \A x \in Folder : /\ folder'[x].parent = folder[x].parent
                             /\ folder'[x].exists => folder[x].exists
    PROVE  TreeInv'
<1>1. \A i : \A S \in SUBSET Folder : Closed(S, i)' => Closed(S, i)
  BY DEF Closed, Exists
<1>2. SUFFICES ASSUME Move \X Move \subseteq apart PROVE OneMove' /\ NoCycle' /\ \A m \in Move : MoveGood(call[m])'
  BY DEF TreeInv
<1>3. NoCycle'
  BY <1>1, <1>2, NoCycleIsNoClosedSet DEF TreeInv
<1>4. OneMove'
  BY <1>2 DEF TreeInv, OneMove, InFlight
<1>5. ASSUME NEW m \in Move PROVE MoveGood(call[m])'
  BY <1>1, <1>2 DEF TreeInv, MoveGood, NoWayRound, AllWaysAhead
<1> QED
  BY <1>3, <1>4, <1>5

\* A new folder is in no cycle, and on no way round: nothing hangs from it.
LEMMA TreeGrows ==
    ASSUME TypeInv, UnbornInv, TreeInv, NEW c \in Create, InsertFolder(c)
    PROVE  TreeInv'
<1>1. /\ call[c].pc = "saving" /\ c \in Folder /\ c \in Call /\ c \notin Move
      /\ folder' = [folder EXCEPT ![c] = [exists |-> TRUE, parent |-> call[c].into]]
      /\ UNCHANGED apart
  BY CallsAssumption, NoDrops DEF InsertFolder
<1>2. \A m \in Move : call'[m] = call[m]
  BY <1>1, NoDrops DEF InsertFolder, Answer, TypeInv
<1>3. /\ \A x \in Folder : folder[x].parent # c
      /\ call[c].into # c
      /\ \A m \in Move : call[m].into # c /\ call[m].item # c
  BY <1>1 DEF UnbornInv
<1>4. ASSUME NEW S \in SUBSET Folder, NEW i, i # c, Closed(S, i)'
      PROVE  /\ Closed(S \ {c}, i)
             /\ c \in S => call[c].into \in S \ {c}
  <2>1. \A x \in S \ {i} : folder'[x].exists /\ folder'[x].parent \in S
    BY <1>4 DEF Closed, Exists
  <2>2. folder \in [Folder -> FolderRow]
    BY DEF TypeInv, TypeOK
  <2>3. \A x \in S \ {i, c} : folder[x].exists /\ folder[x].parent \in S \ {c}
    BY <1>1, <1>3, <2>1, <2>2
  <2>4. c \in S => call[c].into \in S
    BY <1>1, <1>4, <2>1, <2>2
  <2> QED
    BY <1>3, <2>3, <2>4 DEF Closed, Exists
<1>5. SUFFICES ASSUME Move \X Move \subseteq apart PROVE OneMove' /\ NoCycle' /\ \A m \in Move : MoveGood(call[m])'
  BY <1>1 DEF TreeInv
<1>6. OneMove /\ NoCycle /\ \A m \in Move : MoveGood(call[m])
  BY <1>5 DEF TreeInv
<1>7. NoCycle'
  <2>1. \A S \in SUBSET Folder : S # {} => ~Closed(S, Home)'
    <3>1. SUFFICES ASSUME NEW S \in SUBSET Folder, S # {}, Closed(S, Home)' PROVE FALSE
      OBVIOUS
    <3>2. Closed(S \ {c}, Home) /\ (c \in S => call[c].into \in S \ {c})
      BY <1>1, <1>4, <3>1, CallsAssumption
    <3>3. S \ {c} # {} /\ S \ {c} \in SUBSET Folder
      BY <3>1, <3>2
    <3> QED
      BY <1>6, <3>2, <3>3, NoCycleIsNoClosedSet
  <2> QED
    BY <2>1, NoCycleIsNoClosedSet
<1>8. OneMove'
  BY <1>2, <1>6 DEF OneMove, InFlight
<1>9. ASSUME NEW m \in Move PROVE MoveGood(call[m])'
  <2>1. call'[m] = call[m] /\ call[m].item # c /\ call[m].into # c /\ MoveGood(call[m])
    BY <1>2, <1>3, <1>6
  <2>2. ASSUME NEW S \in SUBSET Folder, call[m].into \in S, Closed(S, call[m].item)'
        PROVE  /\ S \ {c} \in SUBSET Folder
               /\ call[m].into \in S \ {c}
               /\ Closed(S \ {c}, call[m].item)
    BY <1>4, <2>1, <2>2
  <2> QED
    BY <2>1, <2>2 DEF MoveGood, NoWayRound, AllWaysAhead
<1> QED
  BY <1>7, <1>8, <1>9

\* A move that goes on, alone among the moves, in a tree that stays as it is.
LEMMA MoveGoesOn ==
    ASSUME TypeInv, TreeInv, NEW m \in Move, NEW h,
           call' = [call EXCEPT ![m] = h], UNCHANGED <<folder, apart>>,
           Move \X Move \subseteq apart =>
               /\ \A k \in Move \ {m} : ~InFlight(k)
               /\ MoveGood(h)
    PROVE  TreeInv'
<1>1. call' = [call EXCEPT ![m] = h] /\ call \in [Call -> Placed] /\ m \in Call
  BY NoDrops DEF TypeInv
<1>2. call'[m] = h /\ \A k \in Move \ {m} : call'[k] = call[k]
  BY <1>1, NoDrops
<1>3. SUFFICES ASSUME Move \X Move \subseteq apart PROVE OneMove' /\ NoCycle' /\ \A k \in Move : MoveGood(call[k])'
  BY DEF TreeInv
<1>4. /\ \A k \in Move \ {m} : call'[k].pc \in {"idle", "done"}
      /\ MoveGood(h) /\ NoCycle
  BY <1>2, <1>3 DEF TreeInv, InFlight
<1>5. NoCycle'
  BY <1>4 DEF NoCycle, Exists
<1>6. OneMove'
  BY <1>4 DEF OneMove, InFlight
<1>7. \A k \in Move : MoveGood(call[k])'
  <2>1. MoveGood(call[m])'
    BY <1>2, <1>4 DEF MoveGood, NoWayRound, AllWaysAhead, Closed, Exists
  <2>2. \A k \in Move \ {m} : MoveGood(call[k])'
    BY <1>4 DEF MoveGood
  <2> QED
    BY <2>1, <2>2
<1> QED
  BY <1>5, <1>6, <1>7

LEMMA TreeInvariant == Spec => []TreeInv
<1>1. Init => TreeInv
  <2> SUFFICES ASSUME Init PROVE TreeInv
    OBVIOUS
  <2>1. \A m \in Move : call[m].pc = "idle"
    BY NoDrops DEF Init, IdleHandler
  <2>2. NoCycle
    <3>1. \A x \in Folder : Exists(x) => x \in Seed /\ folder[x].parent = SeedParent[x]
      BY DEF Init, Exists, NoFolderRow
    <3> QED
      BY <3>1, SeedAssumption DEF NoCycle
  <2> QED
    BY <2>1, <2>2 DEF TreeInv, OneMove, InFlight, MoveGood
<1>2. TypeInv /\ UnbornInv /\ TreeInv /\ [Next]_vars => TreeInv'
  <2> SUFFICES ASSUME TypeInv, UnbornInv, TreeInv, [Next]_vars PROVE TreeInv'
    OBVIOUS
  <2>0. /\ call \in [Call -> Placed] /\ folder \in [Folder -> FolderRow]
        /\ \A c \in Call : call[c] \in Placed
    BY DEF TypeInv, TypeOK
  <2>1. ASSUME NEW c \in Call \ Move, UNCHANGED apart,
               \A d \in Call \ {c} : call'[d] = call[d],
               \A x \in Folder : /\ folder'[x].parent = folder[x].parent
                                 /\ folder'[x].exists => folder[x].exists
        PROVE  TreeInv'
    BY <2>1, NoDrops, TreeShrinks
  <2>2. ASSUME NEW c \in Create \cup Arrive, Check(c) PROVE TreeInv'
    BY <2>0, <2>1, <2>2, NoDrops, CallsAssumption DEF Check
  <2>3. ASSUME NEW c \in Create, InsertFolder(c) PROVE TreeInv'
    BY <2>3, TreeGrows
  <2>4. ASSUME NEW c \in Arrive, InsertFile(c) PROVE TreeInv'
    BY <2>0, <2>1, <2>4, NoDrops, CallsAssumption DEF InsertFile, Answer
  <2>5. ASSUME NEW c \in Put, PutStep(c) PROVE TreeInv'
    BY <2>0, <2>1, <2>5, NoDrops, CallsAssumption
       DEF PutStep, PutRead, KeepPlace, PutUnder, PutSave, Answer
  <2>6. ASSUME NEW c \in Drop, DropStep(c) PROVE TreeInv'
    <3>1. c \in Call \ Move
      BY CallsAssumption, NoDrops
    <3>2. UNCHANGED apart /\ \A d \in Call \ {c} : call'[d] = call[d]
      BY <2>0, <2>6 DEF DropStep, DropRead, DropBegin, DropDescend, DropSelect, DropRemove,
                        DropCommit, DropRollback, Answer
    <3>3. \A x \in Folder : /\ folder'[x].parent = folder[x].parent
                            /\ folder'[x].exists => folder[x].exists
      <4>1. CASE DropCommit(c)
        BY <2>0, <4>1 DEF DropCommit, FolderRow
      <4>2. CASE ~DropCommit(c)
        BY <2>6, <4>2 DEF DropStep, DropRead, DropBegin, DropDescend, DropSelect, DropRemove,
                          DropRollback
      <4> QED
        BY <4>1, <4>2
    <3> QED
      BY <2>1, <3>1, <3>2, <3>3
  <2>7. ASSUME NEW m \in Move, InFlight(m), Move \X Move \subseteq apart
        PROVE  /\ \A k \in Move \ {m} : ~InFlight(k)
               /\ MoveGood(call[m]) /\ NoCycle
    BY <2>7 DEF TreeInv, OneMove
  <2>8. ASSUME NEW m \in Move, MoveRead(m) PROVE TreeInv'
    <3>1. PICK x \in Folder :
            /\ Exists(x)
            /\ call' = [call EXCEPT ![m] =
                 [IdleHandler EXCEPT !.pc = "resolved", !.item = x, !.into = folder[x].parent]]
      BY <2>8 DEF MoveRead
    <3> DEFINE h == [IdleHandler EXCEPT !.pc = "resolved", !.item = x, !.into = folder[x].parent]
    <3>2. h.pc = "resolved" /\ h.item = x /\ h.into = folder[x].parent
      BY DEF IdleHandler
    <3>3. call' = [call EXCEPT ![m] = h]
      BY <3>1
    <3> HIDE DEF h
    <3>4. ASSUME Move \X Move \subseteq apart
          PROVE  (\A k \in Move \ {m} : ~InFlight(k)) /\ MoveGood(h)
      <4>1. \A k \in Move : ~InFlight(k)
        BY <2>8, <3>4, NoDrops DEF MoveRead, MayStart
      <4>2. ASSUME NEW S \in SUBSET Folder, folder[x].parent \in S, Closed(S, x) PROVE FALSE
        <5>1. Closed(S, Home) /\ S # {}
          BY <3>1, <4>2 DEF Closed
        <5> QED
          BY <3>4, <5>1, NoCycleIsNoClosedSet DEF TreeInv
      <4> QED
        BY <3>2, <4>1, <4>2 DEF MoveGood, NoWayRound
    <3> QED
      BY <2>8, <3>3, <3>4, MoveGoesOn DEF MoveRead
  <2>9. ASSUME NEW m \in Move, KeepPlace(m) PROVE TreeInv'
    <3>1. call[m] \in Placed /\ call[m].pc = "resolved" /\ UNCHANGED <<folder, apart>>
      BY <2>0, <2>9, NoDrops DEF KeepPlace
    <3>2. PICK p \in {call[m].into, Home} :
              call' = [call EXCEPT ![m] = [call[m] EXCEPT !.pc = "saving", !.into = p]]
      <4>1. [call[m] EXCEPT !.pc = "saving"]
                = [call[m] EXCEPT !.pc = "saving", !.into = call[m].into]
        BY <3>1 DEF Placed, Handler
      <4> QED
        BY <2>9, <4>1 DEF KeepPlace
    <3> DEFINE h == [call[m] EXCEPT !.pc = "saving", !.into = p]
    <3>3. h.pc = "saving" /\ h.item = call[m].item /\ h.into = p
      BY <3>1 DEF Placed, Handler
    <3>4. call' = [call EXCEPT ![m] = h]
      BY <3>2
    <3> HIDE DEF h
    <3>5. ASSUME Move \X Move \subseteq apart
          PROVE  (\A k \in Move \ {m} : ~InFlight(k)) /\ MoveGood(h)
      BY <2>7, <3>1, <3>2, <3>3, <3>5, CallsAssumption DEF MoveGood, NoWayRound, InFlight
    <3> QED
      BY <3>1, <3>4, <3>5, MoveGoesOn
  <2>10. ASSUME NEW m \in Move, MoveUnder(m) PROVE TreeInv'
    <3>1. call[m] \in Placed /\ call[m].pc = "resolved" /\ UNCHANGED <<folder, apart>>
      BY <2>0, <2>10, NoDrops DEF MoveUnder
    <3>2. PICK p \in Folder :
              call' = [call EXCEPT ![m] = [call[m] EXCEPT !.pc = "walking", !.into = p, !.at = p]]
      BY <2>10 DEF MoveUnder
    <3> DEFINE h == [call[m] EXCEPT !.pc = "walking", !.into = p, !.at = p]
    <3>3. h.pc = "walking" /\ h.into = p /\ h.at = p
      BY <3>1 DEF Placed, Handler
    <3>4. call' = [call EXCEPT ![m] = h]
      BY <3>2
    <3> HIDE DEF h
    <3>5. MoveGood(h)
      BY <3>3 DEF MoveGood, AllWaysAhead
    <3> QED
      BY <2>7, <3>1, <3>4, <3>5, MoveGoesOn DEF InFlight
  <2>11. ASSUME NEW m \in Move, MoveWalk(m) PROVE TreeInv'
    <3>1. call[m] \in Placed /\ call[m].pc = "walking" /\ UNCHANGED <<folder, apart>>
      BY <2>0, <2>11, NoDrops DEF MoveWalk
    <3>2. CASE Answer(m)
      <4> DEFINE h == [IdleHandler EXCEPT !.pc = "done"]
      <4>1. call' = [call EXCEPT ![m] = h]
        BY <3>2 DEF Answer
      <4>2. h.pc = "done"
        BY DEF IdleHandler
      <4> HIDE DEF h
      <4>3. MoveGood(h)
        BY <4>2 DEF MoveGood
      <4> QED
        BY <2>7, <3>1, <4>1, <4>3, MoveGoesOn DEF InFlight
    <3>3. CASE ~Answer(m)
      <4> DEFINE next == Climb(call[m].at)
                 h == [call[m] EXCEPT !.at = next,
                                      !.pc = IF next = Home THEN "saving" ELSE call[m].pc]
      <4>1. call[m].at # call[m].item /\ call' = [call EXCEPT ![m] = h]
        BY <2>11, <3>3 DEF MoveWalk
      <4>2. /\ h.item = call[m].item /\ h.into = call[m].into /\ h.at = next
            /\ h.pc = IF next = Home THEN "saving" ELSE "walking"
        BY <3>1 DEF Placed, Handler
      <4> HIDE DEF h
      <4>3. ASSUME Move \X Move \subseteq apart PROVE MoveGood(h)
        <5>1. AllWaysAhead(call[m].item, call[m].into, call[m].at)
          BY <2>7, <3>1, <4>3 DEF MoveGood, InFlight
        <5>2. ASSUME NEW S \in SUBSET Folder, call[m].into \in S, Closed(S, call[m].item)
              PROVE  next \in S
          BY <4>1, <5>1, <5>2 DEF AllWaysAhead, Closed, Climb
        <5>3. next = Home => NoWayRound(call[m].item, call[m].into)
          BY <5>2, CallsAssumption DEF NoWayRound
        <5> QED
          BY <4>2, <5>2, <5>3 DEF MoveGood, AllWaysAhead
      <4> QED
        BY <2>7, <3>1, <4>1, <4>3, MoveGoesOn DEF InFlight
    <3> QED
      BY <3>2, <3>3
  <2>12. ASSUME NEW m \in Move, MoveSave(m) PROVE TreeInv'
    <3>1. /\ call[m].pc = "saving" /\ m \in Call
          /\ folder' = [folder EXCEPT ![call[m].item] = [exists |-> TRUE, parent |-> call[m].into]]
          /\ call' = [call EXCEPT ![m] = [IdleHandler EXCEPT !.pc = "done"]]
          /\ UNCHANGED apart
      BY <2>12, NoDrops DEF MoveSave, Answer
    <3>2. SUFFICES ASSUME Move \X Move \subseteq apart
                   PROVE  OneMove' /\ NoCycle' /\ \A k \in Move : MoveGood(call[k])'
      BY <3>1 DEF TreeInv
    <3>3. /\ \A k \in Move \ {m} : call[k].pc \in {"idle", "done"}
          /\ NoWayRound(call[m].item, call[m].into) /\ NoCycle
      BY <2>7, <3>1, <3>2 DEF InFlight, MoveGood
    <3>4. \A k \in Move : call'[k].pc \in {"idle", "done"}
      BY <2>0, <3>1, <3>3, NoDrops DEF IdleHandler
    <3>5. NoCycle'
      <4>1. SUFFICES ASSUME NEW S \in SUBSET Folder, S # {}, Closed(S, Home)' PROVE FALSE
        BY NoCycleIsNoClosedSet
      <4>2. \A x \in S : folder'[x].exists /\ folder'[x].parent \in S
        BY <4>1, CallsAssumption DEF Closed, Exists
      <4>3. Closed(S, call[m].item)
        BY <2>0, <3>1, <4>2 DEF Closed, Exists
      <4>4. CASE call[m].item \in S
        <5>1. call[m].into \in S
          BY <2>0, <3>1, <4>2, <4>4
        <5> QED
          BY <3>3, <4>3, <5>1 DEF NoWayRound
      <4>5. CASE call[m].item \notin S
        BY <3>3, <4>1, <4>3, <4>5, NoCycleIsNoClosedSet DEF Closed
      <4> QED
        BY <4>4, <4>5
    <3> QED
      BY <3>4, <3>5 DEF OneMove, InFlight, MoveGood
  <2>13. CASE UNCHANGED vars
    BY <2>13, TreeShrinks DEF vars
  <2> QED
    BY <2>2, <2>3, <2>4, <2>5, <2>6, <2>8, <2>9, <2>10, <2>11, <2>12, <2>13
       DEF Next, CreateStep, ArriveStep, MoveStep
<1> QED
  BY <1>1, <1>2, TypeInvariant, UnbornInvariant, PTL DEF Spec

\* When no two updateFolder calls overlap the folders are a tree, for any number
\* of them and whatever creates and deletes happen while isDescendant climbs.
THEOREM TreeKept == Spec => []MovesKeepTree
<1>1. TreeInv => MovesKeepTree
  BY DEF TreeInv, MovesKeepTree
<1> QED
  BY <1>1, TreeInvariant, PTL
-----------------------------------------------------------------------------
(* A delete that no call overlaps. What its transaction has removed is     *)
(* closed downwards, and what hangs from a folder of its stack is removed, *)
(* still to visit, or the next folder of the stack.                        *)

DeletesAlone == Drop \X Call \cup Call \X Drop \subseteq apart

Alone == \A d \in Drop, c \in Call : InFlight(d) /\ InFlight(c) => c = d

Rooted ==
    /\ \A x \in Folder : Exists(x) => Target(folder[x].parent)
    /\ \A x \in File : file[x].exists => Target(file[x].folder)

\* The folders and the files in folder x are all in the sets given.
Within(x, folders, files) ==
    /\ \A y \in Folder : Exists(y) /\ folder[y].parent = x => y \in folders
    /\ \A y \in File : file[y].exists /\ file[y].folder = x => y \in files

\* What a deleteFolder call will still remove of folder k of its stack.
Ahead(levels, k) == levels[k].left \cup IF k = 1 THEN {} ELSE {levels[k - 1].folder}

DropGood(h) ==
    /\ h.pc = "resolved" => h.gone = {}
    /\ h.pc \in {"deleting", "removing"} =>
          /\ \A x \in h.gone : Within(x, h.gone, h.trash)
          /\ \A k \in 1 .. Len(h.levels) :
                Within(h.levels[k].folder, h.gone \cup Ahead(h.levels, k), File)
    /\ h.pc = "removing" =>
          /\ h.levels[1].left = {}
          /\ Within(h.levels[1].folder, Folder, h.trash \cup h.found)

DeleteInv ==
    DeletesAlone =>
        /\ Alone
        /\ Rooted
        /\ \A c \in Call \ Drop : InFlight(c) => Target(call[c].into)
        /\ \A d \in Drop : DropGood(call[d])

\* A call starts while no deleteFolder is in flight, a deleteFolder alone.
LEMMA LoneStart ==
    ASSUME DeletesAlone, NEW c \in Call, MayStart(c)
    PROVE  /\ \A d \in Drop : ~InFlight(d)
           /\ c \in Drop => \A other \in Call : ~InFlight(other)
  BY NoDrops DEF DeletesAlone, MayStart

\* A call that is no deleteFolder goes on; rows may appear, none disappears.
LEMMA OtherGoesOn ==
    ASSUME TypeInv, DeleteInv, NEW c \in Call \ Drop, NEW h, UNCHANGED apart,
           call' = [call EXCEPT ![c] = h],
           \A x \in Folder : Exists(x) => Exists(x)',
           DeletesAlone =>
               /\ MayStart(c) \/ InFlight(c)
               /\ Rooted'
               /\ h.pc \notin {"idle", "done"} => Target(h.into)'
    PROVE  DeleteInv'
<1>1. call'[c] = h /\ \A d \in Call \ {c} : call'[d] = call[d]
  BY DEF TypeInv
<1>2. SUFFICES ASSUME DeletesAlone
               PROVE  /\ Alone' /\ Rooted'
                      /\ \A d \in Call \ Drop : (InFlight(d) => Target(call[d].into))'
                      /\ \A d \in Drop : DropGood(call[d])'
  BY DEF DeleteInv, DeletesAlone
<1>3. Alone /\ \A d \in Call \ Drop : InFlight(d) => Target(call[d].into)
  BY <1>2 DEF DeleteInv
<1>4. \A d \in Drop : call'[d].pc \in {"idle", "done"}
  BY <1>1, <1>2, <1>3, LoneStart, NoDrops DEF Alone, InFlight
<1>5. Alone'
  BY <1>4 DEF Alone, InFlight
<1>6. ASSUME NEW d \in Call \ Drop, InFlight(d)' PROVE Target(call[d].into)'
  <2>1. CASE d = c
    BY <1>1, <1>2, <1>6, <2>1 DEF InFlight
  <2>2. CASE d # c
    BY <1>1, <1>3, <1>6, <2>2 DEF InFlight, Target
  <2> QED
    BY <2>1, <2>2
<1>7. \A d \in Drop : DropGood(call[d])'
  BY <1>4 DEF DropGood
<1> QED
  BY <1>2, <1>5, <1>6, <1>7

\* A deleteFolder goes on, and the rows stay as they are until it commits.
LEMMA DropGoesOn ==
    ASSUME TypeInv, DeleteInv, NEW c \in Drop, NEW h, UNCHANGED apart,
           call' = [call EXCEPT ![c] = h],
           MayStart(c) \/ InFlight(c),
           DeletesAlone => Rooted' /\ DropGood(h)'
    PROVE  DeleteInv'
<1>1. c \in Call /\ call'[c] = h /\ \A d \in Call \ {c} : call'[d] = call[d]
  BY NoDrops DEF TypeInv
<1>2. SUFFICES ASSUME DeletesAlone
               PROVE  /\ Alone' /\ Rooted'
                      /\ \A d \in Call \ Drop : (InFlight(d) => Target(call[d].into))'
                      /\ \A d \in Drop : DropGood(call[d])'
  BY DEF DeleteInv, DeletesAlone
<1>3. \A d \in Call \ {c} : call'[d].pc \in {"idle", "done"}
  <2>1. \A d \in Call \ {c} : ~InFlight(d)
    BY <1>1, <1>2, LoneStart DEF DeleteInv, Alone
  <2> QED
    BY <1>1, <2>1 DEF InFlight
<1>4. Alone'
  BY <1>3, NoDrops DEF Alone, InFlight
<1>5. \A d \in Call \ Drop : (InFlight(d) => Target(call[d].into))'
  BY <1>3 DEF InFlight
<1>6. ASSUME NEW d \in Drop PROVE DropGood(call[d])'
  <2>1. CASE d = c
    <3>1. call'[d] = h
      BY <1>1, <2>1
    <3> QED
      BY <1>2, <3>1 DEF DropGood
  <2>2. CASE d # c
    BY <1>3, <2>2, NoDrops DEF DropGood
  <2> QED
    BY <2>1, <2>2
<1> QED
  BY <1>2, <1>4, <1>5, <1>6

\* A push and a pop of deleteFolderTree's stack, level by level.
LEMMA Pushed ==
    ASSUME NEW s \in Seq(Level), s # <<>>, NEW lev \in Level, NEW top \in Level,
           NEW t, t = <<lev, top>> \o Tail(s)
    PROVE  /\ Len(t) = Len(s) + 1 /\ t[1] = lev /\ t[2] = top
           /\ \A k \in 3 .. Len(t) : t[k] = s[k - 1]
<1>1. Len(s) \in Nat /\ Len(s) >= 1
  BY EmptySeq
<1>2. Tail(s) \in Seq(Level) /\ Len(Tail(s)) = Len(s) - 1
      /\ \A k \in 1 .. Len(s) - 1 : Tail(s)[k] = s[k + 1]
  BY <1>1
<1>3. <<lev, top>> \in Seq(Level) /\ Len(<<lev, top>>) = 2
  OBVIOUS
<1> QED
  BY <1>1, <1>2, <1>3, ConcatProperties

LEMMA Popped ==
    ASSUME NEW s \in Seq(Level), s # <<>>
    PROVE  /\ Len(Tail(s)) = Len(s) - 1 /\ Len(s) \in Nat /\ Len(s) >= 1
           /\ \A k \in 1 .. Len(s) - 1 : Tail(s)[k] = s[k + 1]
<1>1. Len(s) \in Nat /\ Len(s) >= 1
  BY EmptySeq
<1> QED
  BY <1>1

\* Rows that stay as they are stay rooted; so they do when one is written that is.
LEMMA RootedKept ==
    ASSUME Rooted, UNCHANGED <<folder, file>>
    PROVE  Rooted' /\ \A x \in Folder : Exists(x) => Exists(x)'
  BY DEF Rooted, Target, Exists

LEMMA RootedFolder ==
    ASSUME TypeInv, NEW x, NEW p, Target(p), UNCHANGED file,
           folder' = [folder EXCEPT ![x] = [exists |-> TRUE, parent |-> p]]
    PROVE  /\ \A y \in Folder : Exists(y) => Exists(y)'
           /\ Rooted => Rooted'
<1>1. folder \in [Folder -> FolderRow]
  BY DEF TypeInv, TypeOK
<1>2. \A y \in Folder : Exists(y) => Exists(y)'
  BY <1>1 DEF Exists
<1>3. \A q : Target(q) => Target(q)'
  BY <1>2 DEF Target
<1> QED
  BY <1>1, <1>2, <1>3 DEF Rooted, Exists

LEMMA RootedFile ==
    ASSUME TypeInv, NEW x, NEW p, Target(p), UNCHANGED folder,
           file' = [file EXCEPT ![x] = [exists |-> TRUE, folder |-> p]]
    PROVE  /\ \A y \in Folder : Exists(y) => Exists(y)'
           /\ Rooted => Rooted'
<1>1. file \in [File -> FileRow]
  BY DEF TypeInv, TypeOK
<1>2. \A y \in Folder : Exists(y) => Exists(y)'
  BY DEF Exists
<1>3. \A q : Target(q) => Target(q)'
  BY <1>2 DEF Target
<1> QED
  BY <1>1, <1>3 DEF Rooted, Exists

\* The steps that change no row, of a call that is no deleteFolder.
LEMMA LoneQuiet ==
    ASSUME TypeInv, DeleteInv, NEW c \in Call \ Drop, NEW h, UNCHANGED <<folder, file, apart>>,
           call' = [call EXCEPT ![c] = h], MayStart(c) \/ InFlight(c),
           DeletesAlone /\ h.pc \notin {"idle", "done"} => Target(h.into)
    PROVE  DeleteInv'
<1>1. \A x \in Folder : Exists(x) => Exists(x)'
  BY DEF Exists
<1>2. ASSUME DeletesAlone PROVE Rooted' /\ (h.pc \notin {"idle", "done"} => Target(h.into)')
  BY <1>2, RootedKept DEF DeleteInv, Target, Exists
<1> QED
  BY <1>1, <1>2, OtherGoesOn

LEMMA LoneAnswer ==
    ASSUME TypeInv, DeleteInv, NEW c \in Call \ Drop, InFlight(c), Answer(c), UNCHANGED apart,
           \A x \in Folder : Exists(x) => Exists(x)', DeletesAlone => Rooted'
    PROVE  DeleteInv'
<1>1. PICK h : h = [IdleHandler EXCEPT !.pc = "done"]
  OBVIOUS
<1>2. h.pc = "done" /\ call' = [call EXCEPT ![c] = h]
  BY <1>1 DEF Answer, IdleHandler
<1> QED
  BY <1>2, OtherGoesOn

LEMMA DeleteInvariant == Spec => []DeleteInv
<1>1. Init => DeleteInv
  <2> SUFFICES ASSUME Init PROVE DeleteInv
    OBVIOUS
  <2>1. \A c \in Call : call[c].pc = "idle"
    BY DEF Init, IdleHandler
  <2>2. Rooted
    BY SeedAssumption DEF Init, Rooted, Target, Exists, NoFolderRow, NoFileRow, Folder
  <2> QED
    BY <2>1, <2>2, NoDrops DEF DeleteInv, Alone, InFlight, DropGood
<1>2. TypeInv /\ DeleteInv /\ [Next]_vars => DeleteInv'
  <2> SUFFICES ASSUME TypeInv, DeleteInv, [Next]_vars PROVE DeleteInv'
    OBVIOUS
  <2>0. /\ call \in [Call -> Placed] /\ folder \in [Folder -> FolderRow]
        /\ file \in [File -> FileRow] /\ \A c \in Call : call[c] \in Placed
    BY DEF TypeInv, TypeOK
  <2>1. ASSUME NEW c \in Create \cup Arrive, Check(c) PROVE DeleteInv'
    <3>1. PICK p \in Folder \cup {Home} :
            /\ Target(p)
            /\ call' = [call EXCEPT ![c] = [IdleHandler EXCEPT !.pc = "saving", !.into = p]]
      BY <2>1 DEF Check
    <3>2. PICK h : h = [IdleHandler EXCEPT !.pc = "saving", !.into = p]
      OBVIOUS
    <3>3. h.into = p
      BY <3>2 DEF IdleHandler
    <3> QED
      BY <2>1, <3>1, <3>2, <3>3, NoDrops, LoneQuiet DEF Check
  <2>2. ASSUME NEW c \in Call \ Drop, InFlight(c), DeletesAlone PROVE Target(call[c].into)
    BY <2>2 DEF DeleteInv
  <2>3. ASSUME NEW c \in Create, InsertFolder(c) PROVE DeleteInv'
    <3>1. /\ c \in Call \ Drop /\ InFlight(c) /\ Answer(c) /\ UNCHANGED <<file, apart>>
          /\ folder' = [folder EXCEPT ![c] = [exists |-> TRUE, parent |-> call[c].into]]
      BY <2>3, NoDrops DEF InsertFolder, InFlight
    <3>2. \A x \in Folder : Exists(x) => Exists(x)'
      BY <2>0, <3>1 DEF Exists
    <3>3. DeletesAlone => Rooted'
      BY <2>2, <3>1, RootedFolder DEF DeleteInv
    <3> QED
      BY <3>1, <3>2, <3>3, LoneAnswer
  <2>4. ASSUME NEW c \in Arrive, InsertFile(c) PROVE DeleteInv'
    <3>1. /\ c \in Call \ Drop /\ InFlight(c) /\ Answer(c) /\ UNCHANGED <<folder, apart>>
          /\ file' = [file EXCEPT ![c] = [exists |-> TRUE, folder |-> call[c].into]]
      BY <2>4, NoDrops DEF InsertFile, InFlight
    <3>2. DeletesAlone => Rooted'
      BY <2>2, <3>1, RootedFile DEF DeleteInv
    <3> QED
      BY <3>1, <3>2, LoneAnswer DEF Exists
  <2>5. ASSUME NEW c \in Move, MoveRead(c) PROVE DeleteInv'
    <3>1. PICK x \in Folder :
            /\ Exists(x)
            /\ call' = [call EXCEPT ![c] =
                 [IdleHandler EXCEPT !.pc = "resolved", !.item = x, !.into = folder[x].parent]]
      BY <2>5 DEF MoveRead
    <3>2. PICK h : h = [IdleHandler EXCEPT !.pc = "resolved", !.item = x, !.into = folder[x].parent]
      OBVIOUS
    <3>3. h.into = folder[x].parent
      BY <3>2 DEF IdleHandler
    <3>4. DeletesAlone => Target(folder[x].parent)
      BY <3>1 DEF DeleteInv, Rooted
    <3> QED
      BY <2>5, <3>1, <3>2, <3>3, <3>4, NoDrops, LoneQuiet DEF MoveRead
  <2>6. ASSUME NEW c \in Put, PutRead(c) PROVE DeleteInv'
    <3>1. PICK x \in File :
            /\ file[x].exists
            /\ call' = [call EXCEPT ![c] =
                 [IdleHandler EXCEPT !.pc = "resolved", !.item = x, !.into = file[x].folder]]
      BY <2>6 DEF PutRead
    <3>2. PICK h : h = [IdleHandler EXCEPT !.pc = "resolved", !.item = x, !.into = file[x].folder]
      OBVIOUS
    <3>3. h.into = file[x].folder
      BY <3>2 DEF IdleHandler
    <3>4. DeletesAlone => Target(file[x].folder)
      BY <3>1 DEF DeleteInv, Rooted
    <3> QED
      BY <2>6, <3>1, <3>2, <3>3, <3>4, NoDrops, LoneQuiet DEF PutRead
  <2>7. ASSUME NEW c \in Call \ Drop, InFlight(c), UNCHANGED <<folder, file, apart>>,
               NEW h, call' = [call EXCEPT ![c] = h], h.into = call[c].into \/ Target(h.into)
        PROVE  DeleteInv'
    BY <2>2, <2>7, LoneQuiet
  <2>8. ASSUME NEW c \in Move \cup Put, KeepPlace(c) PROVE DeleteInv'
    <3>1. c \in Call \ Drop /\ call[c] \in Placed /\ InFlight(c) /\ UNCHANGED <<folder, file, apart>>
      BY <2>0, <2>8, NoDrops DEF KeepPlace, InFlight
    <3>2. PICK h : /\ h \in {[call[c] EXCEPT !.pc = "saving"],
                             [call[c] EXCEPT !.pc = "saving", !.into = Home]}
                   /\ call' = [call EXCEPT ![c] = h]
      BY <2>8 DEF KeepPlace
    <3>3. h.into = call[c].into \/ h.into = Home
      <4>1. /\ [call[c] EXCEPT !.pc = "saving"].into = call[c].into
            /\ [call[c] EXCEPT !.pc = "saving", !.into = Home].into = Home
        BY <3>1, MovedFields
      <4> QED
        BY <3>2, <4>1
    <3> QED
      BY <2>7, <3>1, <3>2, <3>3 DEF Target
  <2>9. ASSUME NEW c \in Move, MoveUnder(c) PROVE DeleteInv'
    <3>1. c \in Call \ Drop /\ call[c] \in Placed /\ InFlight(c) /\ UNCHANGED <<folder, file, apart>>
      BY <2>0, <2>9, NoDrops DEF MoveUnder, InFlight
    <3>2. PICK p \in Folder :
            /\ Exists(p)
            /\ call' = [call EXCEPT ![c] = [call[c] EXCEPT !.pc = "walking", !.into = p, !.at = p]]
      BY <2>9 DEF MoveUnder
    <3>3. PICK h : h = [call[c] EXCEPT !.pc = "walking", !.into = p, !.at = p]
      OBVIOUS
    <3>4. h.into = p
      BY <3>1, <3>3, MovedFields
    <3> QED
      BY <2>7, <3>1, <3>2, <3>3, <3>4 DEF Target
  <2>10. ASSUME NEW c \in Put, PutUnder(c) PROVE DeleteInv'
    <3>1. c \in Call \ Drop /\ call[c] \in Placed /\ InFlight(c) /\ UNCHANGED <<folder, file, apart>>
      BY <2>0, <2>10, NoDrops DEF PutUnder, InFlight
    <3>2. PICK p \in Folder :
            /\ Exists(p)
            /\ call' = [call EXCEPT ![c] = [call[c] EXCEPT !.pc = "saving", !.into = p]]
      BY <2>10 DEF PutUnder
    <3>3. PICK h : h = [call[c] EXCEPT !.pc = "saving", !.into = p]
      OBVIOUS
    <3>4. h.into = p
      BY <3>1, <3>3, MovedFields
    <3> QED
      BY <2>7, <3>1, <3>2, <3>3, <3>4 DEF Target
  <2>11. ASSUME NEW c \in Move, MoveWalk(c) PROVE DeleteInv'
    <3>1. c \in Call \ Drop /\ call[c] \in Placed /\ InFlight(c) /\ UNCHANGED <<folder, file, apart>>
      BY <2>0, <2>11, NoDrops DEF MoveWalk, InFlight
    <3>2. CASE Answer(c)
      BY <3>1, <3>2, LoneAnswer, RootedKept DEF DeleteInv, Exists
    <3>3. CASE ~Answer(c)
      <4>1. PICK h : h = [call[c] EXCEPT !.at = Climb(call[c].at),
                          !.pc = IF Climb(call[c].at) = Home THEN "saving" ELSE call[c].pc]
        OBVIOUS
      <4>2. call' = [call EXCEPT ![c] = h]
        BY <2>11, <3>3, <4>1 DEF MoveWalk
      <4>3. h.into = call[c].into
        BY <3>1, <4>1 DEF Placed, Handler
      <4> QED
        BY <2>7, <3>1, <4>2, <4>3
    <3> QED
      BY <3>2, <3>3
  <2>12. ASSUME NEW c \in Move, MoveSave(c) PROVE DeleteInv'
    <3>1. /\ c \in Call \ Drop /\ InFlight(c) /\ Answer(c) /\ UNCHANGED <<file, apart>>
          /\ folder' = [folder EXCEPT ![call[c].item] = [exists |-> TRUE, parent |-> call[c].into]]
      BY <2>12, NoDrops DEF MoveSave, InFlight
    <3>2. \A x \in Folder : Exists(x) => Exists(x)'
      BY <2>0, <3>1 DEF Exists
    <3>3. DeletesAlone => Rooted'
      BY <2>2, <3>1, RootedFolder DEF DeleteInv
    <3> QED
      BY <3>1, <3>2, <3>3, LoneAnswer
  <2>13. ASSUME NEW c \in Put, PutSave(c) PROVE DeleteInv'
    <3>1. /\ c \in Call \ Drop /\ InFlight(c) /\ Answer(c) /\ UNCHANGED <<folder, apart>>
          /\ file' = [file EXCEPT ![call[c].item] = [exists |-> TRUE, folder |-> call[c].into]]
      BY <2>13, NoDrops DEF PutSave, InFlight
    <3>2. DeletesAlone => Rooted'
      BY <2>2, <3>1, RootedFile DEF DeleteInv
    <3> QED
      BY <3>1, <3>2, LoneAnswer DEF Exists
  <2>14. ASSUME NEW c \in Drop, MayStart(c) \/ InFlight(c), UNCHANGED <<folder, file, apart>>,
                NEW h, call' = [call EXCEPT ![c] = h], DeletesAlone => DropGood(h)
         PROVE  DeleteInv'
    <3>1. DeletesAlone => Rooted'
      BY <2>14, RootedKept DEF DeleteInv
    <3>2. DeletesAlone => DropGood(h)'
      BY <2>14 DEF DropGood, Within, Exists, Ahead
    <3> QED
      BY <2>14, <3>1, <3>2, DropGoesOn
  <2>15. ASSUME NEW c \in Drop, DropRead(c) PROVE DeleteInv'
    <3>1. PICK x \in Folder :
              call' = [call EXCEPT ![c] = [IdleHandler EXCEPT !.pc = "resolved", !.item = x]]
      BY <2>15 DEF DropRead
    <3>2. PICK h : h = [IdleHandler EXCEPT !.pc = "resolved", !.item = x]
      OBVIOUS
    <3>3. h.pc = "resolved" /\ h.gone = {}
      BY <3>2 DEF IdleHandler
    <3> QED
      BY <2>14, <2>15, <3>1, <3>2, <3>3 DEF DropRead, DropGood
  <2>16. ASSUME NEW c \in Drop, DropBegin(c) PROVE DeleteInv'
    <3>1. /\ call[c] \in Placed /\ call[c].pc = "resolved" /\ InFlight(c) /\ call[c].item \in Folder
          /\ UNCHANGED <<folder, file, apart>>
      BY <2>0, <2>16, NoDrops DEF DropBegin, InFlight, TypeInv, DropsHaveFolders
    <3>2. PICK levels :
              levels = <<[folder |-> call[c].item, left |-> Children(c, call[c].item)]>>
      OBVIOUS
    <3>3. PICK h : h = [call[c] EXCEPT !.pc = "deleting", !.levels = levels]
      OBVIOUS
    <3>4. h.pc = "deleting" /\ h.levels = levels /\ h.gone = call[c].gone /\ h.trash = call[c].trash
      BY <3>1, <3>3 DEF Placed, Handler
    <3>5. call' = [call EXCEPT ![c] = h]
      BY <2>16, <3>2, <3>3 DEF DropBegin
    <3>6. ASSUME DeletesAlone PROVE DropGood(h)
      <4>1. call[c].gone = {}
        BY <3>1, <3>6 DEF DeleteInv, DropGood
      <4>2. /\ Len(levels) = 1 /\ levels[1].folder = call[c].item
            /\ levels[1].left = Children(c, call[c].item)
        BY <3>2
      <4> QED
        BY <3>4, <4>1, <4>2 DEF DropGood, Within, Ahead, Children
    <3> QED
      BY <2>14, <3>1, <3>5, <3>6
  <2>17. ASSUME NEW c \in Drop, DropDescend(c) PROVE DeleteInv'
    <3>1. /\ call[c] \in Placed /\ call[c].levels \in Seq(Level) /\ call[c].levels # <<>>
          /\ call[c].pc = "deleting" /\ InFlight(c) /\ UNCHANGED <<folder, file, apart>>
      BY <2>0, <2>17, NoDrops DEF DropDescend, InFlight, Placed, Handler
    <3>2. PICK x \in call[c].levels[1].left :
            LET top == [call[c].levels[1] EXCEPT !.left = @ \ {x}]
            IN  call' = IF Len(call[c].levels) = MaxDepth
                        THEN [call EXCEPT ![c] = [IdleHandler EXCEPT !.pc = "lost"]]
                        ELSE [call EXCEPT ![c].levels =
                                <<[folder |-> x, left |-> Children(c, x)], top>> \o Tail(@)]
      BY <2>17 DEF DropDescend
    <3>3. CASE call' = [call EXCEPT ![c] = [IdleHandler EXCEPT !.pc = "lost"]]
      <4>1. PICK h : h = [IdleHandler EXCEPT !.pc = "lost"]
        OBVIOUS
      <4>2. h.pc = "lost"
        BY <4>1 DEF IdleHandler
      <4>3. call' = [call EXCEPT ![c] = h]
        BY <3>3, <4>1
      <4>4. DropGood(h)
        BY <4>2 DEF DropGood
      <4> QED
        BY <2>14, <3>1, <4>3, <4>4
    <3>4. CASE Len(call[c].levels) # MaxDepth
      <4>1. PICK lev, top : /\ lev = [folder |-> x, left |-> Children(c, x)]
                            /\ top = [call[c].levels[1] EXCEPT !.left = @ \ {x}]
        OBVIOUS
      <4>2. PICK levels : levels = <<lev, top>> \o Tail(call[c].levels)
        OBVIOUS
      <4>3. PICK h : h = [call[c] EXCEPT !.levels = levels]
        OBVIOUS
      <4>4. /\ h.pc = "deleting" /\ h.levels = levels
            /\ h.gone = call[c].gone /\ h.trash = call[c].trash
        BY <3>1, <4>3 DEF Placed, Handler
      <4>5. call' = [call EXCEPT ![c] = h]
        BY <3>2, <3>4, <4>1, <4>2, <4>3
      <4>6. /\ lev \in Level /\ top \in Level /\ x \in Folder
            /\ lev.folder = x /\ lev.left = Children(c, x)
            /\ top.folder = call[c].levels[1].folder /\ top.left = call[c].levels[1].left \ {x}
        <5>1. call[c].levels[1] \in Level
          BY <3>1, StackTypes
        <5> QED
          BY <4>1, <5>1 DEF Level, Children
      <4>7. /\ Len(levels) = Len(call[c].levels) + 1 /\ levels[1] = lev /\ levels[2] = top
            /\ \A k \in 3 .. Len(levels) : levels[k] = call[c].levels[k - 1]
            /\ Len(call[c].levels) \in Nat /\ Len(call[c].levels) >= 1
        BY <3>1, <4>2, <4>6, Pushed, Popped
      <4>8. ASSUME DeletesAlone PROVE DropGood(h)
        <5>1. /\ \A y \in call[c].gone : Within(y, call[c].gone, call[c].trash)
              /\ \A k \in 1 .. Len(call[c].levels) :
                   Within(call[c].levels[k].folder, call[c].gone \cup Ahead(call[c].levels, k), File)
          BY <3>1, <4>8 DEF DeleteInv, DropGood
        <5>2. ASSUME NEW k \in 1 .. Len(levels)
              PROVE  Within(levels[k].folder, h.gone \cup Ahead(levels, k), File)
          <6>1. CASE k = 1
            BY <4>4, <4>6, <4>7, <6>1 DEF Within, Ahead, Children
          <6>2. CASE k = 2
            <7>1. Within(top.folder, call[c].gone \cup call[c].levels[1].left, File)
              <8>1. 1 \in 1 .. Len(call[c].levels)
                BY <4>7
              <8>2. Ahead(call[c].levels, 1) = call[c].levels[1].left
                BY DEF Ahead
              <8>3. Within(call[c].levels[1].folder,
                           call[c].gone \cup Ahead(call[c].levels, 1), File)
                BY <5>1, <8>1
              <8> QED
                BY <4>6, <8>2, <8>3
            <7>2. Ahead(levels, 2) = top.left \cup {x}
              BY <4>6, <4>7 DEF Ahead
            <7> QED
              BY <4>4, <4>6, <4>7, <6>2, <7>1, <7>2 DEF Within
          <6>3. CASE k \in 3 .. Len(levels)
            <7>1. k - 1 \in 1 .. Len(call[c].levels) /\ k - 1 # 1 /\ k # 1
              BY <4>7, <6>3
            <7>2. levels[k] = call[c].levels[k - 1]
              BY <4>7, <6>3
            <7>3. levels[k - 1].folder = call[c].levels[k - 1 - 1].folder
              <8>1. CASE k = 3
                BY <4>6, <4>7, <8>1
              <8>2. CASE k # 3
                BY <4>7, <6>3, <8>2
              <8> QED
                BY <8>1, <8>2
            <7>4. Ahead(levels, k) = Ahead(call[c].levels, k - 1)
              BY <7>1, <7>2, <7>3 DEF Ahead
            <7> QED
              BY <4>4, <5>1, <7>1, <7>2, <7>4
          <6> QED
            BY <4>7, <6>1, <6>2, <6>3
        <5> QED
          BY <4>4, <5>1, <5>2 DEF DropGood
      <4> QED
        BY <2>14, <3>1, <4>5, <4>8
    <3> QED
      BY <3>2, <3>3, <3>4
  <2>18. ASSUME NEW c \in Drop, DropSelect(c) PROVE DeleteInv'
    <3>1. /\ call[c] \in Placed /\ call[c].pc = "deleting" /\ call[c].levels[1].left = {}
          /\ InFlight(c) /\ UNCHANGED <<folder, file, apart>>
      BY <2>0, <2>18, NoDrops DEF DropSelect, InFlight
    <3>2. PICK h : h = [call[c] EXCEPT !.pc = "removing",
                                       !.found = FilesIn(c, call[c].levels[1].folder)]
      OBVIOUS
    <3>3. /\ h.pc = "removing" /\ h.levels = call[c].levels /\ h.gone = call[c].gone
          /\ h.trash = call[c].trash /\ h.found = FilesIn(c, call[c].levels[1].folder)
      BY <3>1, <3>2 DEF Placed, Handler
    <3>4. call' = [call EXCEPT ![c] = h]
      BY <2>18, <3>2 DEF DropSelect
    <3>5. ASSUME DeletesAlone PROVE DropGood(h)
      <4>1. DropGood(call[c])
        BY <3>5 DEF DeleteInv
      <4>2. Within(h.levels[1].folder, Folder, h.trash \cup h.found)
        BY <3>3 DEF Within, FilesIn
      <4> QED
        BY <3>1, <3>3, <4>1, <4>2 DEF DropGood
    <3> QED
      BY <2>14, <3>1, <3>4, <3>5
  <2>19. ASSUME NEW c \in Drop, DropRemove(c) PROVE DeleteInv'
    <3>1. /\ call[c] \in Placed /\ call[c].levels \in Seq(Level) /\ call[c].levels # <<>>
          /\ call[c].pc = "removing" /\ InFlight(c) /\ UNCHANGED <<folder, file, apart>>
      BY <2>0, <2>19, NoDrops
         DEF DropRemove, InFlight, Placed, Handler, TypeInv, DropsHaveFolders
    <3>2. PICK x, levels : x = call[c].levels[1].folder /\ levels = Tail(call[c].levels)
      OBVIOUS
    <3>3. PICK h : h = [call[c] EXCEPT !.pc = "deleting", !.levels = levels, !.found = {},
                            !.gone = call[c].gone \cup {x}, !.trash = call[c].trash \cup call[c].found]
      OBVIOUS
    <3>4. /\ h.pc = "deleting" /\ h.levels = levels
          /\ h.gone = call[c].gone \cup {x} /\ h.trash = call[c].trash \cup call[c].found
      BY <3>1, <3>3 DEF Placed, Handler
    <3>5. call' = [call EXCEPT ![c] = h]
      BY <2>19, <3>2, <3>3 DEF DropRemove
    <3>6. /\ Len(levels) = Len(call[c].levels) - 1
          /\ Len(call[c].levels) \in Nat /\ Len(call[c].levels) >= 1
          /\ \A k \in 1 .. Len(levels) : levels[k] = call[c].levels[k + 1]
      BY <3>1, <3>2, Popped
    <3>7. ASSUME DeletesAlone PROVE DropGood(h)
      <4>1. /\ \A y \in call[c].gone : Within(y, call[c].gone, call[c].trash)
            /\ \A k \in 1 .. Len(call[c].levels) :
                 Within(call[c].levels[k].folder, call[c].gone \cup Ahead(call[c].levels, k), File)
            /\ call[c].levels[1].left = {}
            /\ Within(x, Folder, call[c].trash \cup call[c].found)
        BY <3>1, <3>2, <3>7 DEF DeleteInv, DropGood
      <4>2. Within(x, call[c].gone, File)
        <5>1. 1 \in 1 .. Len(call[c].levels)
          BY <3>6
        <5>2. Ahead(call[c].levels, 1) = {}
          BY <4>1 DEF Ahead
        <5>3. Within(call[c].levels[1].folder,
                     call[c].gone \cup Ahead(call[c].levels, 1), File)
          BY <4>1, <5>1
        <5> QED
          BY <3>2, <5>2, <5>3 DEF Within
      <4>3. \A y \in h.gone : Within(y, h.gone, h.trash)
        BY <3>4, <4>1, <4>2 DEF Within
      <4>4. ASSUME NEW k \in 1 .. Len(levels)
            PROVE  Within(levels[k].folder, h.gone \cup Ahead(levels, k), File)
        <5>1. k + 1 \in 1 .. Len(call[c].levels) /\ k + 1 # 1
          BY <3>6
        <5>2. Ahead(call[c].levels, k + 1) = levels[k].left \cup {call[c].levels[k].folder}
          BY <3>6, <5>1 DEF Ahead
        <5>3. {call[c].levels[k].folder} \subseteq {x} \cup Ahead(levels, k)
          <6>1. CASE k = 1
            BY <3>2, <6>1
          <6>2. CASE k # 1
            BY <3>6, <6>2 DEF Ahead
          <6> QED
            BY <6>1, <6>2
        <5>4. levels[k].left \subseteq Ahead(levels, k)
          BY DEF Ahead
        <5>5. Within(levels[k].folder, call[c].gone \cup Ahead(call[c].levels, k + 1), File)
          BY <3>6, <4>1, <5>1
        <5> QED
          BY <3>4, <5>2, <5>3, <5>4, <5>5 DEF Within
      <4> QED
        BY <3>4, <4>3, <4>4 DEF DropGood
    <3> QED
      BY <2>14, <3>1, <3>5, <3>7
  <2>20. ASSUME NEW c \in Drop, DropCommit(c) PROVE DeleteInv'
    <3>1. PICK h : h = [IdleHandler EXCEPT !.pc = "done"]
      OBVIOUS
    <3>2. h.pc = "done"
      BY <3>1 DEF IdleHandler
    <3>3. /\ call' = [call EXCEPT ![c] = h] /\ UNCHANGED apart
          /\ call[c].pc = "deleting" /\ InFlight(c)
      BY <2>20, <3>1 DEF DropCommit, Answer, InFlight
    <3>4. /\ folder' = [x \in Folder |-> IF x \in call[c].gone
                           THEN [folder[x] EXCEPT !.exists = FALSE] ELSE folder[x]]
          /\ file' = [x \in File |-> IF x \in call[c].trash
                           THEN [file[x] EXCEPT !.exists = FALSE] ELSE file[x]]
      BY <2>20 DEF DropCommit
    <3>5. ASSUME DeletesAlone PROVE Rooted'
      <4>1. Rooted /\ \A x \in call[c].gone : Within(x, call[c].gone, call[c].trash)
        BY <3>3, <3>5 DEF DeleteInv, DropGood
      <4>2. ASSUME NEW p, Target(p), p \notin call[c].gone PROVE Target(p)'
        BY <3>4, <4>2 DEF Target, Exists
      <4>3. ASSUME NEW x \in Folder, Exists(x)' PROVE Target(folder[x].parent)'
        <5>1. x \notin call[c].gone /\ folder'[x] = folder[x] /\ Exists(x)
          BY <2>0, <3>4, <4>3 DEF Exists, FolderRow
        <5>2. folder[x].parent \notin call[c].gone /\ Target(folder[x].parent)
          BY <4>1, <5>1 DEF Within, Rooted
        <5> QED
          BY <4>2, <5>1, <5>2
      <4>4. ASSUME NEW x \in File, file'[x].exists PROVE Target(file[x].folder)'
        <5>1. x \notin call[c].trash /\ file'[x] = file[x] /\ file[x].exists
          BY <2>0, <3>4, <4>4 DEF FileRow
        <5>2. file[x].folder \notin call[c].gone /\ Target(file[x].folder)
          BY <4>1, <5>1 DEF Within, Rooted
        <5> QED
          BY <4>2, <5>1, <5>2
      <4> QED
        BY <4>3, <4>4 DEF Rooted
    <3>6. DropGood(h)'
      BY <3>2 DEF DropGood
    <3> QED
      BY <3>3, <3>5, <3>6, DropGoesOn
  <2>21. ASSUME NEW c \in Drop, DropRollback(c) PROVE DeleteInv'
    <3>1. PICK h : h = [IdleHandler EXCEPT !.pc = "done"]
      OBVIOUS
    <3>2. h.pc = "done"
      BY <3>1 DEF IdleHandler
    <3>3. InFlight(c) /\ UNCHANGED <<folder, file, apart>>
      BY <2>21 DEF DropRollback, InFlight
    <3>4. call' = [call EXCEPT ![c] = h]
      BY <2>21, <3>1 DEF DropRollback, Answer
    <3>5. DropGood(h)
      BY <3>2 DEF DropGood
    <3> QED
      BY <2>14, <3>3, <3>4, <3>5
  <2>22. CASE UNCHANGED vars
    BY <2>22 DEF vars, DeleteInv, DeletesAlone, Alone, Rooted, InFlight, Target, DropGood, Within,
                 Ahead, Exists
  <2> QED
    BY <2>1, <2>3, <2>4, <2>5, <2>6, <2>8, <2>9, <2>10, <2>11, <2>12, <2>13, <2>15, <2>16,
       <2>17, <2>18, <2>19, <2>20, <2>21, <2>22
       DEF Next, CreateStep, ArriveStep, MoveStep, PutStep, DropStep
<1> QED
  BY <1>1, <1>2, TypeInvariant, PTL DEF Spec

\* When no call overlaps a deleteFolder, deleting a folder takes everything in it:
\* no folder and no file is ever left in a folder that is gone, for any tree.
THEOREM DeleteTakesAll == Spec => []NothingOrphaned
<1>1. DeleteInv => NothingOrphaned
  BY DEF DeleteInv, DeletesAlone, Rooted, NothingOrphaned
<1> QED
  BY <1>1, DeleteInvariant, PTL
-----------------------------------------------------------------------------
(* The file system the rows stand for. What a delete removes is exactly    *)
(* what is below the folder it is about: all of it, as what it has removed *)
(* is closed downwards, and nothing else, as it only ever comes to what is *)
(* below a folder it has come to.                                          *)

LEMMA BelowIsLeast ==
    ASSUME NEW x \in Folders
    PROVE  /\ x \in Fs!Below(x) /\ Fs!Below(x) \subseteq Folders
           /\ \A y \in Folders : folder[y].parent \in Fs!Below(x) => y \in Fs!Below(x)
           /\ \A S \in SUBSET Folders :
                 x \in S /\ (\A y \in Folders : folder[y].parent \in S => y \in S)
                     => Fs!Below(x) \subseteq S
<1>1. Fs!Below(x) = {y \in Folders : \A S \in SUBSET Folders :
          x \in S /\ (\A z \in Folders : folder[z].parent \in S => z \in S) => y \in S}
  BY DEF Fs!Below, Fs!HoldsChildren
<1> QED
  BY <1>1

\* Whoever climbs from below a folder passes through what is below it.
LEMMA BelowClimbs ==
    ASSUME NEW x \in Folders, NEW y \in Fs!Below(x), y # x
    PROVE  folder[y].parent \in Fs!Below(x)
<1> DEFINE S == {z \in Fs!Below(x) : z = x \/ folder[z].parent \in Fs!Below(x)}
<1>1. S \in SUBSET Folders /\ x \in S
  BY BelowIsLeast
<1>2. \A z \in Folders : folder[z].parent \in S => z \in S
  BY BelowIsLeast
<1>3. Fs!Below(x) \subseteq S
  <2> HIDE DEF S
  <2> QED
    BY <1>1, <1>2, BelowIsLeast
<1> QED
  BY <1>3

LEMMA BelowStays ==
    ASSUME UNCHANGED folder, NEW x
    PROVE  Fs!Below(x)' = Fs!Below(x)
  BY DEF Fs!Below, Fs!HoldsChildren, Folders, Exists

\* What a climb has found of a move: it goes nowhere below the folder that moves.
LEMMA MovesOutside ==
    ASSUME NEW x \in Folders, NEW p, NoWayRound(x, p)
    PROVE  p \notin Fs!Below(x)
<1>1. Fs!Below(x) \in SUBSET Folder
  BY BelowIsLeast DEF Folders
<1>2. Closed(Fs!Below(x), x)
  BY BelowIsLeast, BelowClimbs DEF Closed, Folders
<1> QED
  BY <1>1, <1>2 DEF NoWayRound

\* The rows that moves and updates are about are there.
ItemsExist ==
    /\ \A c \in Move : InFlight(c) => call[c].item \in Folders
    /\ \A c \in Put : InFlight(c) => call[c].item \in Files

DropExact(h) ==
    /\ h.pc \in {"resolved", "deleting", "removing"} =>
          /\ h.item \in Folders
          /\ h.gone \subseteq Fs!Below(h.item)
          /\ \A y \in h.trash \cup h.found :
                y \in Files /\ file[y].folder \in Fs!Below(h.item)
    /\ h.pc \in {"deleting", "removing"} =>
          /\ \A k \in 1 .. Len(h.levels) :
                /\ h.levels[k].folder \in Fs!Below(h.item)
                /\ h.levels[k].left \subseteq Fs!Below(h.item)
          /\ h.levels = <<>> => h.item \in h.gone
          /\ h.levels # <<>> => h.levels[Len(h.levels)].folder = h.item

ExactInv == DeletesAlone => ItemsExist /\ \A d \in Drop : DropExact(call[d])

OtherStep(c) ==
    \/ c \in Create /\ CreateStep(c)
    \/ c \in Arrive /\ ArriveStep(c)
    \/ c \in Move /\ MoveStep(c)
    \/ c \in Put /\ PutStep(c)

\* A call that is no deleteFolder takes no row away, and is about a row that is there.
LEMMA OthersOnlyAdd ==
    ASSUME TypeInv, NEW c \in Call, OtherStep(c)
    PROVE  /\ c \in Call \ Drop /\ UNCHANGED apart /\ (MayStart(c) \/ InFlight(c))
           /\ \A d \in Call \ {c} : call'[d] = call[d]
           /\ Folders \subseteq Folders' /\ Files \subseteq Files'
           /\ c \in Move /\ InFlight(c)' => \/ call'[c].item \in Folders
                                            \/ InFlight(c) /\ call'[c].item = call[c].item
           /\ c \in Put /\ InFlight(c)' => \/ call'[c].item \in Files
                                           \/ InFlight(c) /\ call'[c].item = call[c].item
<1>0. /\ folder \in [Folder -> FolderRow] /\ file \in [File -> FileRow]
      /\ call \in [Call -> Placed] /\ call[c] \in Placed
  BY DEF TypeInv, TypeOK
<1> DEFINE Adds == /\ UNCHANGED apart /\ (MayStart(c) \/ InFlight(c))
                   /\ \A d \in Call \ {c} : call'[d] = call[d]
                   /\ Folders \subseteq Folders' /\ Files \subseteq Files'
           Keeps(rows) == InFlight(c)' => \/ call'[c].item \in rows
                                          \/ InFlight(c) /\ call'[c].item = call[c].item
<1>1. ASSUME Check(c) PROVE Adds
  BY <1>0, <1>1 DEF Check, Folders, Files, Exists
<1>2. ASSUME InsertFolder(c) PROVE Adds
  BY <1>0, <1>2 DEF InsertFolder, Answer, InFlight, Folders, Files, Exists
<1>3. ASSUME InsertFile(c) PROVE Adds
  BY <1>0, <1>3 DEF InsertFile, Answer, InFlight, Folders, Files, Exists
<1>4. ASSUME MoveRead(c) PROVE Adds /\ Keeps(Folders)
  <2>1. Adds
    BY <1>0, <1>4 DEF MoveRead, Folders, Files, Exists
  <2>2. PICK x \in Folder :
          /\ Exists(x)
          /\ call'[c] = [IdleHandler EXCEPT !.pc = "resolved", !.item = x,
                                            !.into = folder[x].parent]
    BY <1>0, <1>4 DEF MoveRead
  <2>3. call'[c].item = x
    BY <2>2 DEF IdleHandler
  <2> QED
    BY <2>1, <2>2, <2>3 DEF Folders
<1>5. ASSUME PutRead(c) PROVE Adds /\ Keeps(Files)
  <2>1. Adds
    BY <1>0, <1>5 DEF PutRead, Folders, Files, Exists
  <2>2. PICK x \in File :
          /\ file[x].exists
          /\ call'[c] = [IdleHandler EXCEPT !.pc = "resolved", !.item = x,
                                            !.into = file[x].folder]
    BY <1>0, <1>5 DEF PutRead
  <2>3. call'[c].item = x
    BY <2>2 DEF IdleHandler
  <2> QED
    BY <2>1, <2>2, <2>3 DEF Files
<1>6. ASSUME KeepPlace(c) \/ MoveUnder(c) \/ PutUnder(c) \/ MoveWalk(c),
             NEW rows
      PROVE  Adds /\ Keeps(rows)
  <2>1. InFlight(c) /\ UNCHANGED <<folder, file, apart>>
    BY <1>6 DEF KeepPlace, MoveUnder, PutUnder, MoveWalk, InFlight
  <2>2. \A d \in Call \ {c} : call'[d] = call[d]
    BY <1>0, <1>6 DEF KeepPlace, MoveUnder, PutUnder, MoveWalk, Answer
  <2>3. InFlight(c)' => call'[c].item = call[c].item
    <3>1. CASE KeepPlace(c)
      BY <1>0, <3>1 DEF KeepPlace, Placed, Handler
    <3>2. CASE MoveUnder(c)
      BY <1>0, <3>2 DEF MoveUnder, Placed, Handler
    <3>3. CASE PutUnder(c)
      BY <1>0, <3>3 DEF PutUnder, Placed, Handler
    <3>4. CASE MoveWalk(c)
      BY <1>0, <3>4 DEF MoveWalk, Placed, Handler, Answer, InFlight, IdleHandler
    <3> QED
      BY <1>6, <3>1, <3>2, <3>3, <3>4
  <2> QED
    BY <2>1, <2>2, <2>3 DEF Folders, Files, Exists
<1>7. ASSUME MoveSave(c) \/ PutSave(c), NEW rows PROVE Adds /\ Keeps(rows)
  <2>1. InFlight(c) /\ Answer(c) /\ UNCHANGED apart
    BY <1>7 DEF MoveSave, PutSave, InFlight
  <2>2. ~InFlight(c)' /\ \A d \in Call \ {c} : call'[d] = call[d]
    BY <1>0, <2>1 DEF Answer, InFlight, IdleHandler
  <2>3. Folders \subseteq Folders' /\ Files \subseteq Files'
    BY <1>0, <1>7 DEF MoveSave, PutSave, Folders, Files, Exists
  <2> QED
    BY <2>1, <2>2, <2>3
<1> QED
  BY <1>1, <1>2, <1>3, <1>4, <1>5, <1>6, <1>7, NoDrops, CallsAssumption
     DEF OtherStep, CreateStep, ArriveStep, MoveStep, PutStep

\* A deleteFolder takes its next step; no other call is in flight.
LEMMA DropStaysExact ==
    ASSUME TypeInv, DeleteInv, NEW c \in Drop, NEW h, UNCHANGED apart,
           call' = [call EXCEPT ![c] = h],
           MayStart(c) \/ InFlight(c),
           DeletesAlone => DropExact(h)'
    PROVE  ExactInv'
<1>1. c \in Call /\ call'[c] = h /\ \A d \in Call \ {c} : call'[d] = call[d]
  BY NoDrops DEF TypeInv
<1>2. SUFFICES ASSUME DeletesAlone
               PROVE  ItemsExist' /\ \A d \in Drop : DropExact(call[d])'
  BY DEF ExactInv, DeletesAlone
<1>3. \A d \in Call \ {c} : ~InFlight(d)' /\ call'[d].pc \in {"idle", "done"}
  <2>1. \A d \in Call \ {c} : ~InFlight(d)
    BY <1>1, <1>2, LoneStart DEF DeleteInv, Alone
  <2> QED
    BY <1>1, <2>1 DEF InFlight
<1>4. ItemsExist'
  BY <1>3, NoDrops DEF ItemsExist
<1>5. ASSUME NEW d \in Drop PROVE DropExact(call[d])'
  <2>1. CASE d = c
    <3>1. call'[d] = h
      BY <1>1, <2>1
    <3> QED
      BY <1>2, <3>1 DEF DropExact
  <2>2. CASE d # c
    BY <1>3, <2>2, NoDrops DEF DropExact
  <2> QED
    BY <2>1, <2>2
<1> QED
  BY <1>2, <1>4, <1>5

LEMMA OthersStayExact ==
    ASSUME TypeInv, DeleteInv, ExactInv, NEW c \in Call, OtherStep(c)
    PROVE  ExactInv'
<1>1. /\ c \in Call \ Drop /\ UNCHANGED apart /\ (MayStart(c) \/ InFlight(c))
      /\ \A d \in Call \ {c} : call'[d] = call[d]
      /\ Folders \subseteq Folders' /\ Files \subseteq Files'
      /\ c \in Move /\ InFlight(c)' => \/ call'[c].item \in Folders
                                       \/ InFlight(c) /\ call'[c].item = call[c].item
      /\ c \in Put /\ InFlight(c)' => \/ call'[c].item \in Files
                                      \/ InFlight(c) /\ call'[c].item = call[c].item
  BY OthersOnlyAdd
<1>2. SUFFICES ASSUME DeletesAlone
               PROVE  ItemsExist' /\ \A d \in Drop : DropExact(call[d])'
  BY <1>1 DEF ExactInv, DeletesAlone
<1>3. ItemsExist /\ Alone
  BY <1>2 DEF ExactInv, DeleteInv
<1>4. ItemsExist'
  <2>1. ASSUME NEW d \in Move, InFlight(d)' PROVE call'[d].item \in Folders'
    BY <1>1, <1>3, <2>1, NoDrops DEF ItemsExist, InFlight
  <2>2. ASSUME NEW d \in Put, InFlight(d)' PROVE call'[d].item \in Files'
    BY <1>1, <1>3, <2>2, NoDrops DEF ItemsExist, InFlight
  <2> QED
    BY <2>1, <2>2 DEF ItemsExist
<1>5. ASSUME NEW d \in Drop PROVE DropExact(call[d])'
  <2>1. ~InFlight(d) /\ call'[d] = call[d]
    BY <1>1, <1>2, <1>3, LoneStart, NoDrops DEF Alone
  <2> QED
    BY <2>1 DEF DropExact, InFlight
<1> QED
  BY <1>4, <1>5

\* A step of a delete that has not committed leaves the rows as they are.
LEMMA DropMovesOn ==
    ASSUME TypeInv, DeleteInv, NEW c \in Drop, NEW h, UNCHANGED <<folder, file, apart>>,
           call' = [call EXCEPT ![c] = h],
           MayStart(c) \/ InFlight(c),
           DeletesAlone => DropExact(h)
    PROVE  ExactInv'
<1>1. ASSUME DropExact(h) PROVE DropExact(h)'
  BY <1>1, BelowStays DEF DropExact, Folders, Files, Exists
<1> QED
  BY <1>1, DropStaysExact

LEMMA ExactInvariant == Spec => []ExactInv
<1>1. Init => ExactInv
  <2> SUFFICES ASSUME Init PROVE ExactInv
    OBVIOUS
  <2>1. \A c \in Call : call[c].pc = "idle"
    BY DEF Init, IdleHandler
  <2> QED
    BY <2>1, NoDrops DEF ExactInv, ItemsExist, InFlight, DropExact
<1>2. TypeInv /\ DeleteInv /\ ExactInv /\ [Next]_vars => ExactInv'
  <2> SUFFICES ASSUME TypeInv, DeleteInv, ExactInv, [Next]_vars PROVE ExactInv'
    OBVIOUS
  <2>0. call \in [Call -> Placed] /\ \A c \in Call : call[c] \in Placed
    BY DEF TypeInv
  <2>1. ASSUME NEW c \in Call, OtherStep(c) PROVE ExactInv'
    BY <2>1, OthersStayExact
  <2>2. ASSUME NEW c \in Drop, DropRead(c) PROVE ExactInv'
    <3>1. PICK x \in Folder :
            /\ Exists(x)
            /\ call' = [call EXCEPT ![c] = [IdleHandler EXCEPT !.pc = "resolved", !.item = x]]
      BY <2>2 DEF DropRead
    <3>2. PICK h : h = [IdleHandler EXCEPT !.pc = "resolved", !.item = x]
      OBVIOUS
    <3>3. /\ h.pc = "resolved" /\ h.item = x
          /\ h.gone = {} /\ h.trash = {} /\ h.found = {}
      BY <3>2 DEF IdleHandler
    <3>4. DropExact(h)
      BY <3>1, <3>3 DEF DropExact, Folders
    <3> QED
      BY <2>2, <3>1, <3>2, <3>4, DropMovesOn DEF DropRead
  <2>3. ASSUME NEW c \in Drop, DropBegin(c) PROVE ExactInv'
    <3>1. /\ call[c] \in Placed /\ call[c].pc = "resolved" /\ InFlight(c)
          /\ UNCHANGED <<folder, file, apart>>
      BY <2>0, <2>3, NoDrops DEF DropBegin, InFlight
    <3>2. PICK levels :
              levels = <<[folder |-> call[c].item, left |-> Children(c, call[c].item)]>>
      OBVIOUS
    <3>3. PICK h : h = [call[c] EXCEPT !.pc = "deleting", !.levels = levels]
      OBVIOUS
    <3>4. /\ h.pc = "deleting" /\ h.levels = levels /\ h.item = call[c].item
          /\ h.gone = call[c].gone /\ h.trash = call[c].trash /\ h.found = call[c].found
      BY <3>1, <3>3 DEF Placed, Handler
    <3>5. call' = [call EXCEPT ![c] = h]
      BY <2>3, <3>2, <3>3 DEF DropBegin
    <3>6. ASSUME DeletesAlone PROVE DropExact(h)
      <4>1. DropExact(call[c]) /\ call[c].item \in Folders
        BY <3>1, <3>6 DEF ExactInv, DropExact
      <4>2. /\ Len(levels) = 1 /\ levels # <<>> /\ levels[1].folder = call[c].item
            /\ levels[1].left = Children(c, call[c].item)
        BY <3>2
      <4>3. Children(c, call[c].item) \subseteq Fs!Below(call[c].item)
        BY <4>1, BelowIsLeast DEF Children, Folders
      <4>4. call[c].item \in Fs!Below(call[c].item)
        BY <4>1, BelowIsLeast
      <4> QED
        BY <3>1, <3>4, <4>1, <4>2, <4>3, <4>4 DEF DropExact
    <3> QED
      BY <2>3, <3>1, <3>5, <3>6, DropMovesOn
  <2>4. ASSUME NEW c \in Drop, DropDescend(c) PROVE ExactInv'
    <3>1. /\ call[c] \in Placed /\ call[c].levels \in Seq(Level) /\ call[c].levels # <<>>
          /\ call[c].pc = "deleting" /\ InFlight(c) /\ UNCHANGED <<folder, file, apart>>
      BY <2>0, <2>4, NoDrops DEF DropDescend, InFlight, Placed, Handler
    <3>2. PICK x \in call[c].levels[1].left :
            LET top == [call[c].levels[1] EXCEPT !.left = @ \ {x}]
            IN  call' = IF Len(call[c].levels) = MaxDepth
                        THEN [call EXCEPT ![c] = [IdleHandler EXCEPT !.pc = "lost"]]
                        ELSE [call EXCEPT ![c].levels =
                                <<[folder |-> x, left |-> Children(c, x)], top>> \o Tail(@)]
      BY <2>4 DEF DropDescend
    <3>3. CASE call' = [call EXCEPT ![c] = [IdleHandler EXCEPT !.pc = "lost"]]
      <4>1. PICK h : h = [IdleHandler EXCEPT !.pc = "lost"]
        OBVIOUS
      <4>2. h.pc = "lost"
        BY <4>1 DEF IdleHandler
      <4>3. call' = [call EXCEPT ![c] = h]
        BY <3>3, <4>1
      <4>4. DropExact(h)
        BY <4>2 DEF DropExact
      <4> QED
        BY <3>1, <4>3, <4>4, DropMovesOn
    <3>4. CASE Len(call[c].levels) # MaxDepth
      <4>1. PICK lev, top : /\ lev = [folder |-> x, left |-> Children(c, x)]
                            /\ top = [call[c].levels[1] EXCEPT !.left = @ \ {x}]
        OBVIOUS
      <4>2. PICK levels : levels = <<lev, top>> \o Tail(call[c].levels)
        OBVIOUS
      <4>3. PICK h : h = [call[c] EXCEPT !.levels = levels]
        OBVIOUS
      <4>4. /\ h.pc = "deleting" /\ h.levels = levels /\ h.item = call[c].item
            /\ h.gone = call[c].gone /\ h.trash = call[c].trash /\ h.found = call[c].found
        BY <3>1, <4>3 DEF Placed, Handler
      <4>5. call' = [call EXCEPT ![c] = h]
        BY <3>2, <3>4, <4>1, <4>2, <4>3
      <4>6. /\ lev \in Level /\ top \in Level /\ x \in Folder
            /\ lev.folder = x /\ lev.left = Children(c, x)
            /\ top.folder = call[c].levels[1].folder /\ top.left = call[c].levels[1].left \ {x}
        <5>1. call[c].levels[1] \in Level
          BY <3>1, StackTypes
        <5> QED
          BY <4>1, <5>1 DEF Level, Children
      <4>7. /\ Len(levels) = Len(call[c].levels) + 1 /\ levels[1] = lev /\ levels[2] = top
            /\ \A k \in 3 .. Len(levels) : levels[k] = call[c].levels[k - 1]
            /\ Len(call[c].levels) \in Nat /\ Len(call[c].levels) >= 1
        BY <3>1, <4>2, <4>6, Pushed, Popped
      <4>8. ASSUME DeletesAlone PROVE DropExact(h)
        <5>1. PICK below : below = Fs!Below(call[c].item)
          OBVIOUS
        <5>2. /\ call[c].item \in Folders /\ call[c].gone \subseteq below
              /\ \A y \in call[c].trash \cup call[c].found :
                    y \in Files /\ file[y].folder \in below
              /\ \A k \in 1 .. Len(call[c].levels) :
                    /\ call[c].levels[k].folder \in below
                    /\ call[c].levels[k].left \subseteq below
              /\ call[c].levels[Len(call[c].levels)].folder = call[c].item
          BY <3>1, <4>8, <5>1 DEF ExactInv, DropExact
        <5>3. 1 \in 1 .. Len(call[c].levels)
          BY <4>7
        <5>4. x \in below /\ lev.left \subseteq below
          BY <4>6, <5>1, <5>2, <5>3, BelowIsLeast DEF Children, Folders
        <5>5. ASSUME NEW k \in 1 .. Len(levels)
              PROVE  levels[k].folder \in below /\ levels[k].left \subseteq below
          <6>1. CASE k \in {1, 2}
            BY <4>6, <4>7, <5>2, <5>3, <5>4, <6>1
          <6>2. CASE k \in 3 .. Len(levels)
            <7>1. k - 1 \in 1 .. Len(call[c].levels)
              BY <4>7, <6>2
            <7>2. levels[k] = call[c].levels[k - 1]
              BY <4>7, <6>2
            <7> QED
              BY <5>2, <7>1, <7>2
          <6> QED
            BY <4>7, <6>1, <6>2
        <5>6. levels # <<>> /\ levels[Len(levels)].folder = call[c].item
          <6>1. CASE Len(call[c].levels) = 1
            BY <4>6, <4>7, <5>2, <6>1
          <6>2. CASE Len(call[c].levels) >= 2
            <7>1. PICK n : n = Len(call[c].levels)
              OBVIOUS
            <7>2. n \in Nat /\ n >= 2 /\ Len(levels) = n + 1
              BY <4>7, <6>2, <7>1
            <7>3. n + 1 \in 3 .. n + 1 /\ n + 1 - 1 = n
              BY <7>2
            <7>4. levels[n + 1] = call[c].levels[n]
              BY <4>7, <7>2, <7>3
            <7> QED
              BY <4>7, <5>2, <7>1, <7>2, <7>4
          <6>3. PICK n : n = Len(call[c].levels)
            OBVIOUS
          <6>4. n \in Nat /\ n >= 1
            BY <4>7, <6>3
          <6>5. n = 1 \/ n >= 2
            BY <6>4
          <6> QED
            BY <6>1, <6>2, <6>3, <6>5
        <5> QED
          BY <4>4, <5>1, <5>2, <5>5, <5>6 DEF DropExact
      <4> QED
        BY <3>1, <4>5, <4>8, DropMovesOn
    <3> QED
      BY <3>2, <3>3, <3>4
  <2>5. ASSUME NEW c \in Drop, DropSelect(c) PROVE ExactInv'
    <3>1. /\ call[c] \in Placed /\ call[c].levels \in Seq(Level) /\ call[c].levels # <<>>
          /\ call[c].pc = "deleting" /\ InFlight(c) /\ UNCHANGED <<folder, file, apart>>
      BY <2>0, <2>5, NoDrops DEF DropSelect, InFlight, Placed, Handler
    <3>2. PICK h : h = [call[c] EXCEPT !.pc = "removing",
                                       !.found = FilesIn(c, call[c].levels[1].folder)]
      OBVIOUS
    <3>3. /\ h.pc = "removing" /\ h.levels = call[c].levels /\ h.item = call[c].item
          /\ h.gone = call[c].gone /\ h.trash = call[c].trash
          /\ h.found = FilesIn(c, call[c].levels[1].folder)
      BY <3>1, <3>2 DEF Placed, Handler
    <3>4. call' = [call EXCEPT ![c] = h]
      BY <2>5, <3>2 DEF DropSelect
    <3>5. ASSUME DeletesAlone PROVE DropExact(h)
      <4>1. DropExact(call[c])
        BY <3>5 DEF ExactInv
      <4>2. 1 \in 1 .. Len(call[c].levels)
        BY <3>1, Popped
      <4>3. call[c].levels[1].folder \in Fs!Below(call[c].item)
        BY <3>1, <4>1, <4>2 DEF DropExact
      <4>4. \A y \in h.found : y \in Files /\ file[y].folder \in Fs!Below(call[c].item)
        BY <3>3, <4>3 DEF FilesIn, Files
      <4> QED
        BY <3>1, <3>3, <4>1, <4>4 DEF DropExact
    <3> QED
      BY <3>1, <3>4, <3>5, DropMovesOn
  <2>6. ASSUME NEW c \in Drop, DropRemove(c) PROVE ExactInv'
    <3>1. /\ call[c] \in Placed /\ call[c].levels \in Seq(Level) /\ call[c].levels # <<>>
          /\ call[c].pc = "removing" /\ InFlight(c) /\ UNCHANGED <<folder, file, apart>>
      BY <2>0, <2>6, NoDrops
         DEF DropRemove, InFlight, Placed, Handler, TypeInv, DropsHaveFolders
    <3>2. PICK x, levels : x = call[c].levels[1].folder /\ levels = Tail(call[c].levels)
      OBVIOUS
    <3>3. PICK h : h = [call[c] EXCEPT !.pc = "deleting", !.levels = levels, !.found = {},
                            !.gone = call[c].gone \cup {x}, !.trash = call[c].trash \cup call[c].found]
      OBVIOUS
    <3>4. /\ h.pc = "deleting" /\ h.levels = levels /\ h.item = call[c].item /\ h.found = {}
          /\ h.gone = call[c].gone \cup {x} /\ h.trash = call[c].trash \cup call[c].found
      BY <3>1, <3>3 DEF Placed, Handler
    <3>5. call' = [call EXCEPT ![c] = h]
      BY <2>6, <3>2, <3>3 DEF DropRemove
    <3>6. /\ Len(levels) = Len(call[c].levels) - 1
          /\ Len(call[c].levels) \in Nat /\ Len(call[c].levels) >= 1
          /\ \A k \in 1 .. Len(levels) : levels[k] = call[c].levels[k + 1]
      BY <3>1, <3>2, Popped
    <3>7. ASSUME DeletesAlone PROVE DropExact(h)
      <4>1. PICK below : below = Fs!Below(call[c].item)
        OBVIOUS
      <4>2. /\ call[c].item \in Folders /\ call[c].gone \subseteq below
            /\ \A y \in call[c].trash \cup call[c].found :
                  y \in Files /\ file[y].folder \in below
            /\ \A k \in 1 .. Len(call[c].levels) :
                  /\ call[c].levels[k].folder \in below
                  /\ call[c].levels[k].left \subseteq below
            /\ call[c].levels[Len(call[c].levels)].folder = call[c].item
        BY <3>1, <3>7, <4>1 DEF ExactInv, DropExact
      <4>3. x \in below
        BY <3>2, <3>6, <4>2
      <4>4. ASSUME NEW k \in 1 .. Len(levels)
            PROVE  levels[k].folder \in below /\ levels[k].left \subseteq below
        BY <3>6, <4>2
      <4>5. ASSUME levels = <<>> PROVE call[c].item \in h.gone
        <5>1. Len(call[c].levels) = 1
          BY <3>6, <4>5
        <5> QED
          BY <3>2, <3>4, <4>2, <5>1
      <4>6. ASSUME levels # <<>> PROVE levels[Len(levels)].folder = call[c].item
        <5>1. levels \in Seq(Level)
          BY <3>1, <3>2
        <5>2. Len(levels) \in 1 .. Len(levels) /\ Len(levels) + 1 = Len(call[c].levels)
          BY <3>6, <4>6, <5>1, EmptySeq
        <5> QED
          BY <3>6, <4>2, <5>2
      <4> QED
        BY <3>4, <4>1, <4>2, <4>3, <4>4, <4>5, <4>6 DEF DropExact
    <3> QED
      BY <3>1, <3>5, <3>7, DropMovesOn
  <2>7. ASSUME NEW c \in Drop, DropCommit(c) \/ DropRollback(c) PROVE ExactInv'
    <3>1. PICK h : h = [IdleHandler EXCEPT !.pc = "done"]
      OBVIOUS
    <3>2. h.pc = "done"
      BY <3>1 DEF IdleHandler
    <3>3. InFlight(c) /\ UNCHANGED apart /\ call' = [call EXCEPT ![c] = h]
      BY <2>7, <3>1 DEF DropCommit, DropRollback, InFlight, Answer
    <3>4. DropExact(h)'
      BY <3>2 DEF DropExact
    <3> QED
      BY <3>3, <3>4, DropStaysExact
  <2>8. CASE UNCHANGED vars
    BY <2>8, BelowStays DEF vars, ExactInv, DeletesAlone, ItemsExist, InFlight, DropExact,
       Folders, Files, Exists
  <2> QED
    BY <2>1, <2>2, <2>3, <2>4, <2>5, <2>6, <2>7, <2>8, NoDrops
       DEF Next, OtherStep, DropStep
<1> QED
  BY <1>1, <1>2, TypeInvariant, DeleteInvariant, PTL DEF Spec

\* A folder or a file is put in a place; the folders a delete is to take go.
LEMMA FolderPlaced ==
    ASSUME TypeInv, NEW x \in Folder, NEW p, UNCHANGED file,
           folder' = [folder EXCEPT ![x] = [exists |-> TRUE, parent |-> p]]
    PROVE  /\ [y \in Folders' |-> folder'[y].parent]
                  = Fs!With([y \in Folders |-> folder[y].parent], x, p)
           /\ [y \in Files' |-> file'[y].folder] = [y \in Files |-> file[y].folder]
<1>1. folder \in [Folder -> FolderRow]
  BY DEF TypeInv, TypeOK
<1>2. Folders' = Folders \cup {x}
  BY <1>1 DEF Folders, Exists
<1>3. \A y \in Folders' : folder'[y].parent = IF y = x THEN p ELSE folder[y].parent
  BY <1>1, <1>2 DEF Folders
<1>4. DOMAIN [y \in Folders |-> folder[y].parent] = Folders
  OBVIOUS
<1>5. Fs!With([y \in Folders |-> folder[y].parent], x, p)
          = [y \in Folders \cup {x} |-> IF y = x THEN p ELSE folder[y].parent]
  BY <1>4 DEF Fs!With
<1> QED
  BY <1>2, <1>3, <1>5 DEF Files

LEMMA FilePlaced ==
    ASSUME TypeInv, NEW x \in File, NEW p, UNCHANGED folder,
           file' = [file EXCEPT ![x] = [exists |-> TRUE, folder |-> p]]
    PROVE  /\ [y \in Files' |-> file'[y].folder]
                  = Fs!With([y \in Files |-> file[y].folder], x, p)
           /\ [y \in Folders' |-> folder'[y].parent] = [y \in Folders |-> folder[y].parent]
<1>1. file \in [File -> FileRow]
  BY DEF TypeInv, TypeOK
<1>2. Files' = Files \cup {x}
  BY <1>1 DEF Files
<1>3. \A y \in Files' : file'[y].folder = IF y = x THEN p ELSE file[y].folder
  BY <1>1, <1>2 DEF Files
<1>4. DOMAIN [y \in Files |-> file[y].folder] = Files
  OBVIOUS
<1>5. Fs!With([y \in Files |-> file[y].folder], x, p)
          = [y \in Files \cup {x} |-> IF y = x THEN p ELSE file[y].folder]
  BY <1>4 DEF Fs!With
<1> QED
  BY <1>2, <1>3, <1>5 DEF Folders, Exists

\* A call that is not the one to insert an id, or has not come to it, uses none up.
LEMMA NothingUsed ==
    ASSUME TypeInv, NEW c \in Call, NEW h, call' = [call EXCEPT ![c] = h],
           c \in Create \cup Arrive => call[c].pc # "done" /\ h.pc # "done"
    PROVE  UNCHANGED Unused
<1>1. call'[c] = h /\ \A d \in Call \ {c} : call'[d] = call[d]
  BY DEF TypeInv
<1> QED
  BY <1>1, NoDrops DEF Unused

LEMMA OneUsed ==
    ASSUME TypeInv, NEW c \in Create \cup Arrive, call[c].pc # "done", Answer(c)
    PROVE  c \in Unused /\ Unused' = Unused \ {c}
<1>1. c \in Call /\ call'[c].pc = "done" /\ \A d \in Call \ {c} : call'[d] = call[d]
  BY NoDrops DEF TypeInv, Answer, IdleHandler
<1> QED
  BY <1>1, NoDrops DEF Unused

LEMMA NothingSeen ==
    ASSUME UNCHANGED <<folder, file, Unused>>
    PROVE  UNCHANGED Fs!vars
  BY DEF Fs!vars, Folders, Files, Exists

\* The steps by which a file system sees a call: an insert, a Save, a commit.
LEMMA InsertFolderFollows ==
    ASSUME TypeInv, DeleteInv, DeletesAlone, NEW c \in Create, InsertFolder(c)
    PROVE  \E x \in Folder, p \in Folder \cup {Home} : Fs!NewFolder(x, p)
<1>1. /\ c \in Call \ Drop /\ c \in Folder /\ call[c] \in Placed /\ InFlight(c)
      /\ call[c].pc # "done"
  BY NoDrops DEF TypeInv, InsertFolder, InFlight
<1>2. Target(call[c].into) /\ call[c].into \in Folder \cup {Home}
  BY <1>1 DEF DeleteInv, Placed, Handler
<1>3. Fs!Target(call[c].into)
  BY <1>2 DEF Fs!Target, Target, Folders
<1>4. c \in Unused /\ Unused' = Unused \ {c}
  BY <1>1, OneUsed DEF InsertFolder
<1>5. /\ [y \in Folders' |-> folder'[y].parent]
             = Fs!With([y \in Folders |-> folder[y].parent], c, call[c].into)
      /\ [y \in Files' |-> file'[y].folder] = [y \in Files |-> file[y].folder]
  BY <1>1, FolderPlaced DEF InsertFolder
<1>6. PICK p : p = call[c].into
  OBVIOUS
<1>7. Fs!NewFolder(c, p)
  BY <1>2, <1>3, <1>4, <1>5, <1>6 DEF Fs!NewFolder
<1> QED
  BY <1>1, <1>2, <1>6, <1>7

LEMMA InsertFileFollows ==
    ASSUME TypeInv, DeleteInv, DeletesAlone, NEW c \in Arrive, InsertFile(c)
    PROVE  \E x \in File, p \in Folder \cup {Home} : Fs!NewFile(x, p)
<1>1. /\ c \in Call \ Drop /\ c \in File /\ call[c] \in Placed /\ InFlight(c)
      /\ call[c].pc # "done"
  BY NoDrops DEF TypeInv, InsertFile, InFlight
<1>2. Target(call[c].into) /\ call[c].into \in Folder \cup {Home}
  BY <1>1 DEF DeleteInv, Placed, Handler
<1>3. Fs!Target(call[c].into)
  BY <1>2 DEF Fs!Target, Target, Folders
<1>4. c \in Unused /\ Unused' = Unused \ {c}
  BY <1>1, OneUsed DEF InsertFile
<1>5. /\ [y \in Files' |-> file'[y].folder]
             = Fs!With([y \in Files |-> file[y].folder], c, call[c].into)
      /\ [y \in Folders' |-> folder'[y].parent] = [y \in Folders |-> folder[y].parent]
  BY <1>1, FilePlaced DEF InsertFile
<1>6. PICK p : p = call[c].into
  OBVIOUS
<1>7. Fs!NewFile(c, p)
  BY <1>2, <1>3, <1>4, <1>5, <1>6 DEF Fs!NewFile
<1> QED
  BY <1>1, <1>2, <1>6, <1>7

LEMMA MoveFollows ==
    ASSUME TypeInv, DeleteInv, TreeInv, ExactInv, DeletesAlone, Move \X Move \subseteq apart,
           NEW c \in Move, MoveSave(c)
    PROVE  \E x \in Folder, p \in Folder \cup {Home} : Fs!MoveFolder(x, p)
<1>1. /\ c \in Call \ Drop /\ call[c] \in Placed /\ InFlight(c) /\ call[c].pc = "saving"
      /\ Answer(c)
  BY NoDrops DEF TypeInv, MoveSave, InFlight
<1>2. Target(call[c].into) /\ call[c].into \in Folder \cup {Home}
  BY <1>1 DEF DeleteInv, Placed, Handler
<1>3. call[c].item \in Folders /\ call[c].item \in Folder
  BY <1>1 DEF ExactInv, ItemsExist, Folders
<1>4. call[c].into \notin Fs!Below(call[c].item)
  BY <1>1, <1>3, MovesOutside DEF TreeInv, MoveGood
<1>5. Fs!Target(call[c].into)
  BY <1>2 DEF Fs!Target, Target, Folders
<1>6. UNCHANGED Unused
  BY <1>1, NoDrops, NothingUsed, CallsAssumption DEF Answer
<1>7. /\ [y \in Folders' |-> folder'[y].parent]
             = Fs!With([y \in Folders |-> folder[y].parent], call[c].item, call[c].into)
      /\ [y \in Files' |-> file'[y].folder] = [y \in Files |-> file[y].folder]
  BY <1>3, FolderPlaced DEF MoveSave
<1>8. call[c].item \in DOMAIN [y \in Folders |-> folder[y].parent]
  BY <1>3
<1>9. PICK x, p : x = call[c].item /\ p = call[c].into
  OBVIOUS
<1>10. Fs!MoveFolder(x, p)
  BY <1>2, <1>3, <1>4, <1>5, <1>6, <1>7, <1>8, <1>9 DEF Fs!MoveFolder
<1> QED
  BY <1>2, <1>3, <1>9, <1>10

LEMMA PutFollows ==
    ASSUME TypeInv, DeleteInv, ExactInv, DeletesAlone, NEW c \in Put, PutSave(c)
    PROVE  \E x \in File, p \in Folder \cup {Home} : Fs!MoveFile(x, p)
<1>1. c \in Call \ Drop /\ call[c] \in Placed /\ InFlight(c) /\ Answer(c)
  BY NoDrops DEF TypeInv, PutSave, InFlight
<1>2. Target(call[c].into) /\ call[c].into \in Folder \cup {Home}
  BY <1>1 DEF DeleteInv, Placed, Handler
<1>3. call[c].item \in Files /\ call[c].item \in File
  BY <1>1 DEF ExactInv, ItemsExist, Files
<1>4. Fs!Target(call[c].into)
  BY <1>2 DEF Fs!Target, Target, Folders
<1>5. UNCHANGED Unused
  BY <1>1, NoDrops, NothingUsed, CallsAssumption DEF Answer
<1>6. /\ [y \in Files' |-> file'[y].folder]
             = Fs!With([y \in Files |-> file[y].folder], call[c].item, call[c].into)
      /\ [y \in Folders' |-> folder'[y].parent] = [y \in Folders |-> folder[y].parent]
  BY <1>3, FilePlaced DEF PutSave
<1>7. call[c].item \in DOMAIN [y \in Files |-> file[y].folder]
  BY <1>3
<1>8. PICK x, p : x = call[c].item /\ p = call[c].into
  OBVIOUS
<1>9. Fs!MoveFile(x, p)
  BY <1>2, <1>3, <1>4, <1>5, <1>6, <1>7, <1>8 DEF Fs!MoveFile
<1> QED
  BY <1>2, <1>3, <1>8, <1>9

\* A commit takes what is below the folder, and what is in it, and nothing else.
LEMMA CommitFollows ==
    ASSUME TypeInv, DeleteInv, ExactInv, DeletesAlone, NEW c \in Drop, DropCommit(c)
    PROVE  \E x \in Folder : Fs!Delete(x)
<1>1. PICK below : below = Fs!Below(call[c].item)
  OBVIOUS
<1>2. /\ folder \in [Folder -> FolderRow] /\ file \in [File -> FileRow]
      /\ call[c].pc = "deleting" /\ call[c].levels = <<>> /\ Answer(c)
  BY DEF TypeInv, TypeOK, DropCommit
<1>3. /\ call[c].item \in Folders /\ call[c].gone \subseteq below /\ call[c].item \in call[c].gone
      /\ \A y \in call[c].trash : y \in Files /\ file[y].folder \in below
      /\ \A x \in call[c].gone : Within(x, call[c].gone, call[c].trash)
  BY <1>1, <1>2 DEF ExactInv, DropExact, DeleteInv, DropGood
<1>4. call[c].gone = below
  <2>1. below \subseteq Folders
    BY <1>1, <1>3, BelowIsLeast
  <2>2. \A y \in Folders : folder[y].parent \in call[c].gone => y \in call[c].gone
    BY <1>3 DEF Within, Folders
  <2>3. call[c].gone \in SUBSET Folders
    BY <1>3, <2>1
  <2>4. below \subseteq call[c].gone
    BY <1>1, <1>3, <2>2, <2>3, BelowIsLeast
  <2> QED
    BY <1>3, <2>4
<1>5. \A y \in Files : y \in call[c].trash <=> file[y].folder \in below
  BY <1>3, <1>4 DEF Within, Files
<1>6. Folders' = Folders \ below /\ \A y \in Folders' : folder'[y].parent = folder[y].parent
  BY <1>2, <1>4 DEF DropCommit, Folders, Exists, FolderRow
<1>7. /\ Files' = {y \in Files : file[y].folder \notin below}
      /\ \A y \in Files' : file'[y].folder = file[y].folder
  <2>1. \A y \in File : file'[y] = IF y \in call[c].trash THEN [file[y] EXCEPT !.exists = FALSE]
                                   ELSE file[y]
    BY DEF DropCommit
  <2>2. \A y \in File : /\ file'[y].folder = file[y].folder
                        /\ file'[y].exists <=> file[y].exists /\ y \notin call[c].trash
    BY <1>2, <2>1 DEF FileRow
  <2> QED
    BY <1>5, <2>2 DEF Files
<1>8. UNCHANGED Unused
  BY <1>2, NoDrops, NothingUsed, CallsAssumption DEF Answer
<1> DEFINE parents == [y \in Folders |-> folder[y].parent]
           places == [y \in Files |-> file[y].folder]
<1>9. /\ DOMAIN parents = Folders /\ DOMAIN places = Files
      /\ \A y \in Files : places[y] = file[y].folder
      /\ \A y \in Folders : parents[y] = folder[y].parent
  OBVIOUS
<1>10. [y \in Folders' |-> folder'[y].parent] = [y \in DOMAIN parents \ below |-> parents[y]]
  BY <1>6, <1>9
<1>11. [y \in Files' |-> file'[y].folder]
           = [y \in {z \in DOMAIN places : places[z] \notin below} |-> places[y]]
  BY <1>7, <1>9
<1>12. call[c].item \in DOMAIN parents /\ call[c].item \in Folder
  BY <1>3 DEF Folders
<1>13. PICK x : x = call[c].item
  OBVIOUS
<1>14. Fs!Delete(x)
  BY <1>1, <1>8, <1>10, <1>11, <1>12, <1>13 DEF Fs!Delete
<1> QED
  BY <1>12, <1>13, <1>14

\* Every other step of a call changes nothing a file system has.
LEMMA OthersUnseen ==
    ASSUME TypeInv, NEW c \in Call, OtherStep(c)
    PROVE  \/ UNCHANGED Fs!vars
           \/ c \in Create /\ InsertFolder(c)
           \/ c \in Arrive /\ InsertFile(c)
           \/ c \in Move /\ MoveSave(c)
           \/ c \in Put /\ PutSave(c)
<1>0. call \in [Call -> Placed] /\ call[c] \in Placed
  BY DEF TypeInv
<1>1. ASSUME Check(c) PROVE UNCHANGED Fs!vars
  <2>1. PICK p : call' = [call EXCEPT ![c] = [IdleHandler EXCEPT !.pc = "saving", !.into = p]]
    BY <1>1 DEF Check
  <2>2. PICK h : h = [IdleHandler EXCEPT !.pc = "saving", !.into = p]
    OBVIOUS
  <2>3. h.pc = "saving" /\ call' = [call EXCEPT ![c] = h] /\ call[c].pc = "idle"
    BY <1>1, <2>1, <2>2 DEF IdleHandler, Check, MayStart
  <2>4. UNCHANGED Unused
    BY <2>3, NothingUsed
  <2> QED
    BY <1>1, <2>4, NothingSeen DEF Check
<1>2. ASSUME c \in Move \cup Put,
             MoveRead(c) \/ PutRead(c) \/ KeepPlace(c) \/ MoveUnder(c) \/ PutUnder(c) \/ MoveWalk(c)
      PROVE  UNCHANGED Fs!vars
  <2>1. \A d \in Call \ {c} : call'[d] = call[d]
    BY <1>0, <1>2 DEF MoveRead, PutRead, KeepPlace, MoveUnder, PutUnder, MoveWalk, Answer
  <2>2. UNCHANGED <<folder, file>>
    BY <1>2 DEF MoveRead, PutRead, KeepPlace, MoveUnder, PutUnder, MoveWalk
  <2>3. UNCHANGED Unused
    BY <1>2, <2>1, NoDrops, CallsAssumption DEF Unused
  <2> QED
    BY <2>2, <2>3, NothingSeen
<1> QED
  BY <1>1, <1>2 DEF OtherStep, CreateStep, ArriveStep, MoveStep, PutStep

LEMMA DropsUnseen ==
    ASSUME TypeInv, NEW c \in Drop, DropStep(c), ~DropCommit(c)
    PROVE  UNCHANGED Fs!vars
<1>0. call \in [Call -> Placed]
  BY DEF TypeInv
<1>1. \A d \in Call \ {c} : call'[d] = call[d]
  <2>1. CASE DropDescend(c)
    BY <1>0, <2>1 DEF DropDescend
  <2>2. CASE ~DropDescend(c)
    BY <1>0, <2>2 DEF DropStep, DropRead, DropBegin, DropSelect, DropRemove, DropRollback, Answer
  <2> QED
    BY <2>1, <2>2
<1>2. UNCHANGED <<folder, file>>
  BY DEF DropStep, DropRead, DropBegin, DropDescend, DropSelect, DropRemove, DropRollback
<1>3. UNCHANGED Unused
  BY <1>1, NoDrops, CallsAssumption DEF Unused
<1> QED
  BY <1>2, <1>3, NothingSeen

LEMMA StepFollowsFileSystem ==
    ASSUME TypeInv, DeleteInv, TreeInv, ExactInv, DeletesAlone, Move \X Move \subseteq apart,
           [Next]_vars
    PROVE  [Fs!Next]_(Fs!vars)
<1>1. ASSUME NEW c \in Create, CreateStep(c) PROVE [Fs!Next]_(Fs!vars)
  <2>1. CASE InsertFolder(c)
    BY <2>1, InsertFolderFollows DEF Fs!Next
  <2>2. CASE ~InsertFolder(c)
    <3>1. c \in Call /\ OtherStep(c) /\ c \notin Arrive \cup Move \cup Put
      BY <1>1, CallsAssumption DEF OtherStep, Call
    <3> QED
      BY <2>2, <3>1, OthersUnseen
  <2> QED
    BY <2>1, <2>2
<1>2. ASSUME NEW c \in Arrive, ArriveStep(c) PROVE [Fs!Next]_(Fs!vars)
  <2>1. CASE InsertFile(c)
    BY <2>1, InsertFileFollows DEF Fs!Next
  <2>2. CASE ~InsertFile(c)
    <3>1. c \in Call /\ OtherStep(c) /\ c \notin Create \cup Move \cup Put
      BY <1>2, CallsAssumption DEF OtherStep, Call
    <3> QED
      BY <2>2, <3>1, OthersUnseen
  <2> QED
    BY <2>1, <2>2
<1>3. ASSUME NEW c \in Move, MoveStep(c) PROVE [Fs!Next]_(Fs!vars)
  <2>1. CASE MoveSave(c)
    BY <2>1, MoveFollows DEF Fs!Next
  <2>2. CASE ~MoveSave(c)
    <3>1. c \in Call /\ OtherStep(c) /\ c \notin Create \cup Arrive \cup Put
      BY <1>3, CallsAssumption DEF OtherStep, Call
    <3> QED
      BY <2>2, <3>1, OthersUnseen
  <2> QED
    BY <2>1, <2>2
<1>4. ASSUME NEW c \in Put, PutStep(c) PROVE [Fs!Next]_(Fs!vars)
  <2>1. CASE PutSave(c)
    BY <2>1, PutFollows DEF Fs!Next
  <2>2. CASE ~PutSave(c)
    <3>1. c \in Call /\ OtherStep(c) /\ c \notin Create \cup Arrive \cup Move
      BY <1>4, CallsAssumption DEF OtherStep, Call
    <3> QED
      BY <2>2, <3>1, OthersUnseen
  <2> QED
    BY <2>1, <2>2
<1>5. ASSUME NEW c \in Drop, DropStep(c) PROVE [Fs!Next]_(Fs!vars)
  <2>1. CASE DropCommit(c)
    BY <2>1, CommitFollows DEF Fs!Next
  <2> QED
    BY <1>5, <2>1, DropsUnseen
<1>6. CASE UNCHANGED vars
  BY <1>6, NothingSeen DEF vars, Unused
<1> QED
  BY <1>1, <1>2, <1>3, <1>4, <1>5, <1>6 DEF Next

LEMMA FileSystemStarts ==
    ASSUME Init
    PROVE  Fs!Init
<1>1. Folders = Seed /\ \A x \in Seed : folder[x].parent = SeedParent[x]
  BY DEF Init, Folders, Exists, Folder, NoFolderRow
<1>2. Files = SeedFile /\ \A x \in SeedFile : file[x].folder = SeedFolder[x]
  BY DEF Init, Files, File, NoFileRow
<1>3. Unused = Create \cup Arrive
  BY NoDrops DEF Init, Unused, IdleHandler
<1> QED
  BY <1>1, <1>2, <1>3, SeedAssumption DEF Fs!Init

\* However the calls of its clients interleave otherwise, a delete that is alone takes
\* exactly what is below its folder, and a move that meets no other move never leads below
\* the folder it moves: where both are kept, every step is one of a file system.
THEOREM RowsFollowFileSystem == Spec => FollowsFileSystem
<1>1. Init => Fs!Init
  BY FileSystemStarts
<1> DEFINE Kept == /\ Drop \X Call \cup Call \X Drop \subseteq apart
                   /\ Move \X Move \subseteq apart
<1>2. TypeInv /\ DeleteInv /\ TreeInv /\ ExactInv /\ [Next]_vars
          => [Kept => [Fs!Next]_(Fs!vars)]_vars
  BY StepFollowsFileSystem DEF DeletesAlone
<1>3. Spec => Fs!Init /\ [][Kept => [Fs!Next]_(Fs!vars)]_vars
  BY <1>1, <1>2, TypeInvariant, DeleteInvariant, TreeInvariant, ExactInvariant, PTL DEF Spec
<1> QED
  BY <1>3 DEF FollowsFileSystem

\* For clients that keep moves apart and deletes alone, FolderTree implements FileSystem.
THEOREM FolderTreeImplementsFileSystem ==
    ASSUME \A apart_ \in Disciplines : /\ Drop \X Call \cup Call \X Drop \subseteq apart_
                                       /\ Move \X Move \subseteq apart_
    PROVE  Spec => Fs!Spec
<1> DEFINE Kept == DeletesAlone /\ Move \X Move \subseteq apart
<1>1. Init => Fs!Init /\ Kept
  BY FileSystemStarts DEF Init, DeletesAlone
<1>2. [Next]_vars => UNCHANGED apart
  BY DEF vars, Next, CreateStep, ArriveStep, MoveStep, PutStep, DropStep, Check, InsertFolder,
     InsertFile, MoveRead, PutRead, KeepPlace, MoveUnder, PutUnder, MoveWalk, MoveSave, PutSave,
     DropRead, DropBegin, DropDescend, DropSelect, DropRemove, DropCommit, DropRollback
<1>3. Kept /\ [Next]_vars => Kept'
  BY <1>2 DEF DeletesAlone
<1>4. TypeInv /\ DeleteInv /\ TreeInv /\ ExactInv /\ Kept /\ [Next]_vars => [Fs!Next]_(Fs!vars)
  BY StepFollowsFileSystem
<1>5. Spec => Fs!Init /\ [][Fs!Next]_(Fs!vars)
  BY <1>1, <1>3, <1>4, TypeInvariant, DeleteInvariant, TreeInvariant, ExactInvariant, PTL
     DEF Spec
<1> QED
  BY <1>5 DEF Fs!Spec
=============================================================================
