-------------------------- MODULE HdcSessionProofs --------------------------
(***************************************************************************)
(* Proofs that the safety properties of HdcSession hold for any number of  *)
(* sessions, any size of the thread pool and of the cache of deleted ids.  *)
(* The argument is the inductive invariant IInv of HdcSession.             *)
(***************************************************************************)
EXTENDS HdcSession, FiniteSetTheorems, SequenceTheorems, TLAPS

USE DEF MainIdle

-----------------------------------------------------------------------------
(* Sequences and small sets *)

LEMMA ElemsAppend ==
    ASSUME NEW S, NEW q \in Seq(S), NEW e \in S
    PROVE  /\ Append(q, e) \in Seq(S)
           /\ Len(Append(q, e)) = Len(q) + 1
           /\ Elems(Append(q, e)) = Elems(q) \cup {e}
  <1>1. Append(q, e) \in Seq(S) /\ Len(Append(q, e)) = Len(q) + 1
    OBVIOUS
  <1>2. \A i \in 1..Len(q) : Append(q, e)[i] = q[i]
    OBVIOUS
  <1>3. Append(q, e)[Len(q) + 1] = e
    OBVIOUS
  <1>4. 1..(Len(q) + 1) = (1..Len(q)) \cup {Len(q) + 1}
    BY LenProperties
  <1> QED BY <1>1, <1>2, <1>3, <1>4 DEF Elems

LEMMA ElemsTail ==
    ASSUME NEW S, NEW q \in Seq(S), q # <<>>
    PROVE  /\ Head(q) \in S /\ Head(q) \in Elems(q)
           /\ Tail(q) \in Seq(S)
           /\ Len(Tail(q)) = Len(q) - 1
           /\ Elems(Tail(q)) \subseteq Elems(q)
  <1>1. /\ Head(q) \in S
        /\ Tail(q) \in Seq(S)
        /\ Len(Tail(q)) = Len(q) - 1
        /\ \A i \in 1..Len(Tail(q)) : Tail(q)[i] = q[i + 1]
    BY HeadTailProperties
  <1>2. Len(q) \in Nat \ {0}
    BY EmptySeq
  <1>3. Head(q) = q[1]
    BY <1>2
  <1> QED BY <1>1, <1>2, <1>3 DEF Elems

LEMMA ElemsType ==
    ASSUME NEW S
    PROVE  /\ <<>> \in Seq(S) /\ Len(<<>>) = 0 /\ Elems(<<>>) = {}
           /\ \A q \in Seq(S) : Elems(q) \subseteq S
  <1>1. <<>> \in Seq(S) /\ Len(<<>>) = 0
    BY EmptySeq
  <1>2. \A q \in Seq(S) : Elems(q) \subseteq S
    BY ElementOfSeq DEF Elems
  <1> QED BY <1>1, <1>2 DEF Elems

Has(S, x) == IF x \in S THEN 1 ELSE 0

\* The cardinality of a subset of three elements, element by element.
LEMMA CountOfThree ==
    \A a, b, c, S :
        a # b /\ b # c /\ a # c /\ S \subseteq {a, b, c} =>
            Cardinality(S) = Has(S, a) + Has(S, b) + Has(S, c)
  <1> SUFFICES ASSUME NEW a, NEW b, NEW c, NEW S,
                      a # b, b # c, a # c, S \subseteq {a, b, c}
               PROVE  Cardinality(S) = Has(S, a) + Has(S, b) + Has(S, c)
    OBVIOUS
  <1> DEFINE A == IF a \in S THEN {a} ELSE {}
             AB == IF b \in S THEN A \cup {b} ELSE A
             ABC == IF c \in S THEN AB \cup {c} ELSE AB
  <1>1. S = ABC
    OBVIOUS
  <1>2. IsFiniteSet(A) /\ Cardinality(A) = Has(S, a)
    BY FS_EmptySet, FS_Singleton DEF Has
  <1>3. b \notin A /\ c \notin AB
    OBVIOUS
  <1> HIDE DEF A
  <1>4. IsFiniteSet(AB) /\ Cardinality(AB) = Cardinality(A) + Has(S, b)
    <2>1. CASE b \in S
      BY <1>2, <1>3, <2>1, FS_AddElement DEF Has
    <2>2. CASE b \notin S
      BY <1>2, <2>2, FS_CardinalityType DEF Has
    <2> QED BY <2>1, <2>2
  <1> HIDE DEF AB
  <1>5. Cardinality(ABC) = Cardinality(AB) + Has(S, c)
    <2>1. CASE c \in S
      BY <1>3, <1>4, <2>1, FS_AddElement DEF Has
    <2>2. CASE c \notin S
      BY <1>4, <2>2, FS_CardinalityType DEF Has
    <2> QED BY <2>1, <2>2
  <1>6. Cardinality(A) \in Nat /\ Cardinality(AB) \in Nat
    BY <1>2, <1>4, FS_CardinalityType
  <1> QED BY <1>1, <1>2, <1>4, <1>5, <1>6 DEF Has

\* How many of the session's handles on each loop a condition selects.
LEMMA MainCount ==
    ASSUME NEW S \in SUBSET MainHandles
    PROVE  Cardinality(S) =
               Has(S, "pollMain") + Has(S, "pipeMain") + Has(S, "workTCP")
  <1>1. /\ "pollMain" # "pipeMain" /\ "pipeMain" # "workTCP" /\ "pollMain" # "workTCP"
        /\ S \subseteq {"pollMain", "pipeMain", "workTCP"}
    BY DEF MainHandles
  <1> QED BY <1>1, CountOfThree DEF Has, MainHandles

LEMMA ChildCount ==
    ASSUME NEW S \in SUBSET ChildHandles
    PROVE  Cardinality(S) =
               Has(S, "childTCP") + Has(S, "pollWork") + Has(S, "pipeWork")
  <1>1. /\ "childTCP" # "pollWork" /\ "pollWork" # "pipeWork" /\ "childTCP" # "pipeWork"
        /\ S \subseteq {"childTCP", "pollWork", "pipeWork"}
    BY DEF ChildHandles
  <1> QED BY <1>1, CountOfThree DEF Has, ChildHandles

LEMMA HandlesFinite == IsFiniteSet(MainHandles) /\ IsFiniteSet(ChildHandles)
  <1>1. /\ IsFiniteSet({"pollMain", "pipeMain"} \cup {"workTCP"})
        /\ IsFiniteSet({"childTCP", "pollWork"} \cup {"pipeWork"})
    <2>1. /\ IsFiniteSet({"pollMain"} \cup {"pipeMain"})
          /\ IsFiniteSet({"childTCP"} \cup {"pollWork"})
      BY FS_Singleton, FS_AddElement
    <2>2. /\ {"pollMain"} \cup {"pipeMain"} = {"pollMain", "pipeMain"}
          /\ {"childTCP"} \cup {"pollWork"} = {"childTCP", "pollWork"}
      OBVIOUS
    <2> QED BY <2>1, <2>2, FS_AddElement
  <1>2. /\ MainHandles = {"pollMain", "pipeMain"} \cup {"workTCP"}
        /\ ChildHandles = {"childTCP", "pollWork"} \cup {"pipeWork"}
    BY DEF MainHandles, ChildHandles
  <1> QED BY <1>1, <1>2

-----------------------------------------------------------------------------
(* Types *)

LEMMA TypeInit == Init => TypeOK
  <1> SUFFICES ASSUME Init PROVE TypeOK
    OBVIOUS
  <1>1. /\ mapSession \subseteq Sessions /\ freed \subseteq Sessions
        /\ isDead \in [Sessions -> BOOLEAN]
        /\ pollGarbage \in [Sessions -> BOOLEAN]
        /\ conn \in [Sessions -> {"none", "pending", "done"}]
        /\ mainHandle \in [Sessions -> [MainHandles -> MainStates]]
        /\ uvHandleRef \in [Sessions -> Int]
        /\ stage \in [Sessions -> Stages]
    BY DEF Init, MainStates, Stages
  <1>2. /\ mainWait \in Sessions \cup {NoSession}
        /\ lstMainThreadOP \in Seq(Sessions)
        /\ asyncPending \in BOOLEAN
        /\ idleOps \subseteq Sessions
        /\ deletedIds \in Seq(Sessions) /\ Len(deletedIds) <= MaxDeleted
    <2>1. <<>> \in Seq(Sessions) /\ Len(<<>>) = 0
      BY EmptySeq
    <2>2. 0 <= MaxDeleted
      BY MaxDeletedAssumption
    <2>3. deletedIds \in Seq(Sessions) /\ Len(deletedIds) <= MaxDeleted
      BY <2>1, <2>2 DEF Init
    <2> QED BY <2>1, <2>3 DEF Init
  <1>3. /\ worker \in [Sessions -> WorkerStates]
        /\ ctrl \in [Sessions -> Seq(Commands)]
        /\ batch \in [Sessions -> Seq(Commands)]
        /\ childHandle \in [Sessions -> [ChildHandles -> ChildStates]]
        /\ uvChildRef \in [Sessions -> Int]
        /\ stopChild \in [Sessions -> BOOLEAN]
        /\ pushing \in [Sessions -> BOOLEAN]
        /\ childCleared \in [Sessions -> BOOLEAN]
    <2>1. <<>> \in Seq(Commands)
      BY EmptySeq
    <2>2. /\ ctrl \in [Sessions -> Seq(Commands)]
          /\ batch \in [Sessions -> Seq(Commands)]
      BY <2>1 DEF Init
    <2> QED BY <2>2 DEF Init, WorkerStates, ChildStates
  <1> QED BY <1>1, <1>2, <1>3 DEF TypeOK

\* The cache keeps its bound, and every id in it was there or is the new one.
LEMMA AddDeletedSessionIdType ==
    ASSUME TypeOK, NEW s \in Sessions, AddDeletedSessionId(s)
    PROVE  /\ deletedIds' \in Seq(Sessions)
           /\ Len(deletedIds') <= MaxDeleted
           /\ Elems(deletedIds') \subseteq Elems(deletedIds) \cup {s}
  <1>1. deletedIds \in Seq(Sessions) /\ Len(deletedIds) <= MaxDeleted
    BY DEF TypeOK
  <1>2. CASE deletedIds' = deletedIds
    BY <1>1, <1>2
  <1>3. CASE /\ Len(deletedIds) < MaxDeleted
             /\ deletedIds' = Append(deletedIds, s)
    BY <1>1, <1>3, ElemsAppend, MaxDeletedAssumption, LenProperties
  <1>4. CASE /\ ~(Len(deletedIds) < MaxDeleted)
             /\ deletedIds' = Append(Tail(deletedIds), s)
    <2> DEFINE rest == Tail(deletedIds)
    <2>1. Len(deletedIds) = MaxDeleted /\ deletedIds # <<>>
      BY <1>1, <1>4, MaxDeletedAssumption, EmptySeq, LenProperties
    <2>2. /\ rest \in Seq(Sessions)
          /\ Len(rest) = Len(deletedIds) - 1
          /\ Elems(rest) \subseteq Elems(deletedIds)
      BY <1>1, <2>1, ElemsTail
    <2>3. deletedIds' = Append(rest, s)
      BY <1>4
    <2> HIDE DEF rest
    <2>4. /\ deletedIds' \in Seq(Sessions)
          /\ Len(deletedIds') = Len(rest) + 1
          /\ Elems(deletedIds') = Elems(rest) \cup {s}
      BY <2>2, <2>3, ElemsAppend
    <2>5. Len(deletedIds') <= MaxDeleted
      BY <2>1, <2>2, <2>4, MaxDeletedAssumption
    <2> QED BY <2>2, <2>4, <2>5
  <1> QED BY <1>2, <1>3, <1>4 DEF AddDeletedSessionId

LEMMA FreeSessionType ==
    ASSUME TypeOK, NEW s \in Sessions, FreeSession(s)
    PROVE  /\ isDead' \in [Sessions -> BOOLEAN]
           /\ stage' \in [Sessions -> Stages]
           /\ deletedIds' \in Seq(Sessions)
           /\ Len(deletedIds') <= MaxDeleted
  <1>1. deletedIds' \in Seq(Sessions) /\ Len(deletedIds') <= MaxDeleted
    BY AddDeletedSessionIdType DEF FreeSession
  <1>2. isDead' \in [Sessions -> BOOLEAN] /\ stage' \in [Sessions -> Stages]
    BY DEF TypeOK, FreeSession, Stages
  <1> QED BY <1>1, <1>2

LEMMA SkippedMain ==
    ASSUME NEW hs \in [MainHandles -> MainStates]
    PROVE  /\ CloseAll(hs) \in [MainHandles -> MainStates]
           /\ Skipped(hs) \in Int
           /\ (\A h \in MainHandles : hs[h] = "open") => Skipped(hs) = 0
  <1>1. CloseAll(hs) \in [MainHandles -> MainStates]
    BY DEF CloseAll, MainStates
  <1> DEFINE S == {h \in MainHandles : hs[h] \notin {"open", "inert"}}
  <1>2. Skipped(hs) = Cardinality(S)
    BY DEF Skipped
  <1>3. Cardinality(S) \in Int
    BY MainCount DEF Has
  <1>4. (\A h \in MainHandles : hs[h] = "open") => S = {}
    OBVIOUS
  <1> QED BY <1>1, <1>2, <1>3, <1>4, FS_EmptySet

LEMMA FreeSessionContinueType ==
    ASSUME TypeOK, NEW s \in Sessions, FreeSessionContinue(s)
    PROVE  /\ mainHandle' \in [Sessions -> [MainHandles -> MainStates]]
           /\ uvHandleRef' \in [Sessions -> Int]
           /\ stage' \in [Sessions -> Stages]
  <1>1. mainHandle[s] \in [MainHandles -> MainStates]
    BY DEF TypeOK
  <1>2. /\ CloseAll(mainHandle[s]) \in [MainHandles -> MainStates]
        /\ Skipped(mainHandle[s]) \in Int
    BY <1>1, SkippedMain
  <1> QED BY <1>2 DEF TypeOK, FreeSessionContinue, Stages

\* SP_STOP_SESSION leaves a handle of the child loop alone or starts its close.
LEMMA StopSessionType ==
    ASSUME TypeOK, NEW s \in Sessions, StopSession(s)
    PROVE  /\ childHandle' \in [Sessions -> [ChildHandles -> ChildStates]]
           /\ uvChildRef' \in [Sessions -> Int]
           /\ uvChildRef' = [uvChildRef EXCEPT ![s] = ChildRefLeft(s)]
           /\ \A t \in Sessions : t # s => childHandle'[t] = childHandle[t]
           /\ \A h \in ChildHandles :
                  childHandle'[s][h] =
                      IF h \in StopHandles(s) /\ childHandle[s][h] \in {"open", "inert"}
                      THEN "closingCb" ELSE childHandle[s][h]
  <1> DEFINE closing == [h \in StopHandles(s) |-> childHandle[s][h]]
             S == {h \in StopHandles(s) : childHandle[s][h] \notin {"open", "inert"}}
             new == [h \in ChildHandles |-> IF h \in StopHandles(s)
                                            THEN CloseAll(closing)[h]
                                            ELSE childHandle[s][h]]
  <1>1. StopHandles(s) \subseteq ChildHandles /\ S \subseteq ChildHandles
    BY DEF StopHandles, ChildHandles
  <1>2. Skipped(closing) = Cardinality(S)
    BY DEF Skipped
  <1>3. Cardinality(S) \in Int /\ Cardinality(StopHandles(s)) \in Int
    BY <1>1, ChildCount DEF Has
  <1>4. ChildRefLeft(s) \in Int
    BY <1>2, <1>3 DEF ChildRefLeft, TypeOK
  <1>5. uvChildRef' = [uvChildRef EXCEPT ![s] = ChildRefLeft(s)]
    BY DEF StopSession
  <1>6. childHandle' = [childHandle EXCEPT ![s] = new]
    BY DEF StopSession
  <1>7. \A h \in ChildHandles :
            new[h] = IF h \in StopHandles(s) /\ childHandle[s][h] \in {"open", "inert"}
                     THEN "closingCb" ELSE childHandle[s][h]
    BY <1>1 DEF CloseAll
  <1>8. new \in [ChildHandles -> ChildStates]
    <2>1. \A h \in ChildHandles : childHandle[s][h] \in ChildStates
      BY DEF TypeOK
    <2> QED BY <1>7, <2>1 DEF ChildStates
  <1> HIDE DEF new
  <1> QED BY <1>4, <1>5, <1>6, <1>7, <1>8 DEF TypeOK

\* Every step keeps the types.
LEMMA TypeStep == TypeOK /\ [Next]_vars => TypeOK'
  <1> SUFFICES ASSUME TypeOK, [Next]_vars PROVE TypeOK'
    OBVIOUS
  <1> USE DEF TypeOK, Stages, WorkerStates, MainStates, ChildStates,
              mainVars, loopVars, workVars
  <1>1. CASE MainAsyncCallback
    <2>1. <<>> \in Seq(Sessions) /\ Elems(lstMainThreadOP) \subseteq Sessions
      BY ElemsType
    <2> QED BY <1>1, <2>1 DEF MainAsyncCallback
  <1>2. ASSUME NEW s \in Sessions, ConnectDaemon(s) PROVE TypeOK'
    BY <1>2, MallocNoiseAssumption DEF ConnectDaemon
  <1>3. ASSUME NEW s \in Sessions, ConnectFail(s) PROVE TypeOK'
    BY <1>3, FreeSessionType DEF ConnectFail
  <1>4. ASSUME NEW s \in Sessions, ConnectOk(s) PROVE TypeOK'
    BY <1>4 DEF ConnectOk
  <1>5. ASSUME NEW s \in Sessions, RemoveSession(s) PROVE TypeOK'
    BY <1>5, FreeSessionType DEF RemoveSession
  <1>6. ASSUME NEW s \in Sessions, ReadStreamFail(s) PROVE TypeOK'
    <2>1. Append(lstMainThreadOP, s) \in Seq(Sessions)
      BY ElemsAppend
    <2>2. AddDeletedSessionId(s)
      BY <1>6 DEF ReadStreamFail
    <2>3. deletedIds' \in Seq(Sessions) /\ Len(deletedIds') <= MaxDeleted
      BY <2>2, AddDeletedSessionIdType
    <2>4. childHandle' \in [Sessions -> [ChildHandles -> ChildStates]]
      BY <1>6 DEF ReadStreamFail
    <2> QED BY <1>6, <2>1, <2>3, <2>4 DEF ReadStreamFail
  <1>7. ASSUME NEW s \in Sessions, ConnectThreadUp(s) PROVE TypeOK'
    BY <1>7 DEF ConnectThreadUp, Commands
  <1>8. ASSUME NEW s \in Sessions, AsyncMainLoopTask(s) PROVE TypeOK'
    BY <1>8, FreeSessionType DEF AsyncMainLoopTask
  <1>9. ASSUME NEW s \in Sessions, FreeSessionOpeate(s) PROVE TypeOK'
    <2>1. CASE PollLoopSet(s)
      <3>1. Append(ctrl[s], "SP_STOP_SESSION") \in Seq(Commands)
        BY ElemsAppend DEF Commands
      <3>2. ctrl' = [ctrl EXCEPT ![s] = Append(ctrl[s], "SP_STOP_SESSION")]
        BY <1>9, <2>1 DEF FreeSessionOpeate
      <3>3. ctrl' \in [Sessions -> Seq(Commands)]
        BY <3>1, <3>2
      <3>4. stage' = [stage EXCEPT ![s] = "waitChild"]
        BY <1>9, <2>1, Zenon DEF FreeSessionOpeate
      <3>5. "waitChild" \in Stages
        BY DEF Stages
      <3>6. stage' \in [Sessions -> Stages]
        BY <3>4, <3>5, Zenon DEF TypeOK
      <3> QED BY <1>9, <2>1, <3>3, <3>6 DEF FreeSessionOpeate
    <2>2. CASE ~PollLoopSet(s)
      BY <1>9, <2>2, FreeSessionContinueType DEF FreeSessionOpeate
    <2> QED BY <2>1, <2>2
  <1>10. ASSUME NEW s \in Sessions, CheckFreeSessionContinue(s) PROVE TypeOK'
    BY <1>10, FreeSessionContinueType DEF CheckFreeSessionContinue
  <1>11. ASSUME NEW s \in Sessions, NEW h \in MainHandles, CloseMainHandle(s, h)
        PROVE  TypeOK'
    <2>1. conn' = conn \/ conn' = [conn EXCEPT ![s] = "done"]
      BY <1>11 DEF CloseMainHandle
    <2>2. conn' \in [Sessions -> {"none", "pending", "done"}]
      BY <2>1
    <2>3. uvHandleRef' \in [Sessions -> Int]
      BY <1>11 DEF CloseMainHandle
    <2>4. mainHandle' \in [Sessions -> [MainHandles -> MainStates]]
      BY <1>11 DEF CloseMainHandle
    <2>5. /\ isDead' \in [Sessions -> BOOLEAN] /\ stage' \in [Sessions -> Stages]
          /\ deletedIds' \in Seq(Sessions) /\ Len(deletedIds') <= MaxDeleted
      BY <1>11, FreeSessionType DEF CloseMainHandle
    <2> QED BY <1>11, <2>2, <2>3, <2>4, <2>5 DEF CloseMainHandle
  <1>12. ASSUME NEW s \in Sessions, FreeSessionFinally(s) PROVE TypeOK'
    BY <1>12 DEF FreeSessionFinally
  <1>13. ASSUME NEW s \in Sessions, SessionWorkThread(s) PROVE TypeOK'
    BY <1>13 DEF SessionWorkThread
  <1>14. ASSUME NEW s \in Sessions, ReadCtrlFromMain(s) PROVE TypeOK'
    <2>1. <<>> \in Seq(Commands)
      BY EmptySeq
    <2> QED BY <1>14, <2>1 DEF ReadCtrlFromMain
  <1>15. ASSUME NEW s \in Sessions, StartSessionOk(s) PROVE TypeOK'
    <2>1. Tail(batch[s]) \in Seq(Commands)
      BY <1>15, HeadTailProperties DEF StartSessionOk, Dispatching
    <2> QED BY <1>15, <2>1 DEF StartSessionOk, Dispatching
  <1>16. ASSUME NEW s \in Sessions, StartSessionFail(s) PROVE TypeOK'
    <2>1. <<>> \in Seq(Commands)
      BY EmptySeq
    <2> QED BY <1>16, <2>1 DEF StartSessionFail, Dispatching
  <1>17. ASSUME NEW s \in Sessions, StopSession(s) PROVE TypeOK'
    <2>1. Tail(batch[s]) \in Seq(Commands)
      BY <1>17, HeadTailProperties DEF StopSession, Dispatching
    <2> QED BY <1>17, <2>1, StopSessionType DEF StopSession, Dispatching
  <1>18. ASSUME NEW s \in Sessions, NEW h \in ChildHandles, CloseChildHandle(s, h)
        PROVE  TypeOK'
    <2>1. childHandle' \in [Sessions -> [ChildHandles -> ChildStates]]
      BY <1>18 DEF CloseChildHandle
    <2>2. uvChildRef' \in [Sessions -> Int]
      BY <1>18 DEF CloseChildHandle
    <2>3. stopChild' \in [Sessions -> BOOLEAN]
      BY <1>18 DEF CloseChildHandle
    <2> QED BY <1>18, <2>1, <2>2, <2>3 DEF CloseChildHandle
  <1>19. ASSUME NEW s \in Sessions, AsyncSend(s) PROVE TypeOK'
    BY <1>19 DEF AsyncSend
  <1>20. ASSUME NEW s \in Sessions, LeaveChildLoop(s) PROVE TypeOK'
    BY <1>20 DEF LeaveChildLoop
  <1>21. ASSUME NEW s \in Sessions, ReChildLoopForSessionClear(s) PROVE TypeOK'
    BY <1>21 DEF ReChildLoopForSessionClear
  <1>22. ASSUME NEW s \in Sessions, SessionWorkThreadEnd(s) PROVE TypeOK'
    BY <1>22 DEF SessionWorkThreadEnd
  <1>23. CASE UNCHANGED vars
    BY <1>23 DEF vars
  <1> QED
    BY <1>1, <1>2, <1>3, <1>4, <1>5, <1>6, <1>7, <1>8, <1>9, <1>10, <1>11,
       <1>12, <1>13, <1>14, <1>15, <1>16, <1>17, <1>18, <1>19, <1>20, <1>21,
       <1>22, <1>23
       DEF Next, MainStep, WorkerStep, Environment

\* The type invariant of HdcSession.
THEOREM TypeCorrect == Spec => []TypeOK
  BY TypeInit, TypeStep, PTL DEF Spec

-----------------------------------------------------------------------------
(* Which steps change what *)

\* The steps that touch the session object.
MainChange(s) ==
    \/ ConnectDaemon(s)
    \/ ConnectFail(s)
    \/ ConnectOk(s)
    \/ RemoveSession(s)
    \/ AsyncMainLoopTask(s)
    \/ FreeSessionOpeate(s)
    \/ CheckFreeSessionContinue(s)
    \/ \E h \in MainHandles : CloseMainHandle(s, h)
    \/ FreeSessionFinally(s)

LEMMA MainCases ==
    ASSUME [Next]_vars
    PROVE  UNCHANGED mainVars \/ \E s \in Sessions : MainChange(s)
  <1>1. CASE MainAsyncCallback
    BY <1>1 DEF MainAsyncCallback
  <1>2. CASE UNCHANGED vars
    BY <1>2 DEF vars
  <1>3. ASSUME NEW s \in Sessions, WorkerStep(s) PROVE UNCHANGED mainVars
    BY <1>3 DEF WorkerStep, SessionWorkThread, ReadCtrlFromMain, StartSessionOk,
                StartSessionFail, StopSession, CloseChildHandle, AsyncSend,
                LeaveChildLoop, ReChildLoopForSessionClear, SessionWorkThreadEnd
  <1>4. ASSUME NEW s \in Sessions, ConnectThreadUp(s) \/ ReadStreamFail(s)
        PROVE  UNCHANGED mainVars
    BY <1>4 DEF ConnectThreadUp, ReadStreamFail
  <1> QED
    BY <1>1, <1>2, <1>3, <1>4 DEF Next, MainStep, Environment, MainChange

\* The steps that touch what belongs to the worker.
WorkChange(s) ==
    \/ ConnectOk(s)
    \/ ConnectThreadUp(s)
    \/ FreeSessionOpeate(s)
    \/ WorkerStep(s)
    \/ ReadStreamFail(s)

LEMMA WorkCases ==
    ASSUME [Next]_vars
    PROVE  UNCHANGED workVars \/ \E s \in Sessions : WorkChange(s)
  <1>1. CASE MainAsyncCallback
    BY <1>1 DEF MainAsyncCallback
  <1>2. CASE UNCHANGED vars
    BY <1>2 DEF vars
  <1>3. ASSUME NEW s \in Sessions,
               \/ ConnectDaemon(s) \/ ConnectFail(s) \/ RemoveSession(s)
               \/ AsyncMainLoopTask(s) \/ CheckFreeSessionContinue(s)
               \/ \E h \in MainHandles : CloseMainHandle(s, h)
               \/ FreeSessionFinally(s)
        PROVE  UNCHANGED workVars
    BY <1>3 DEF ConnectDaemon, ConnectFail, RemoveSession, AsyncMainLoopTask,
                CheckFreeSessionContinue, CloseMainHandle, FreeSessionFinally
  <1> QED
    BY <1>1, <1>2, <1>3 DEF Next, MainStep, Environment, WorkChange

\* FreeSession: nothing, or a live session is declared dead.
LEMMA FreeSessionEffect ==
    ASSUME TypeOK, NEW s \in Sessions, FreeSession(s)
    PROVE  \/ isDead' = isDead /\ stage' = stage /\ (isDead[s] \/ s \notin mapSession)
           \/ /\ s \in mapSession /\ ~isDead[s]
              /\ isDead'[s] /\ stage'[s] = "opeate"
              /\ \A t \in Sessions : t # s => isDead'[t] = isDead[t] /\ stage'[t] = stage[t]
  BY DEF TypeOK, FreeSession

\* FreeSessionContinue: all handles of loopMain are open, so none is skipped.
LEMMA FreeSessionContinueEffect ==
    ASSUME TypeOK, NEW s \in Sessions, FreeSessionContinue(s),
           \A h \in MainHandles : mainHandle[s][h] = "open"
    PROVE  /\ \A h \in MainHandles : mainHandle'[s][h] = "closingCb"
           /\ uvHandleRef' = uvHandleRef
           /\ stage'[s] = "finally"
           /\ \A t \in Sessions : t # s => /\ mainHandle'[t] = mainHandle[t]
                                           /\ stage'[t] = stage[t]
  <1>1. mainHandle[s] \in [MainHandles -> MainStates]
    BY DEF TypeOK
  <1>2. Skipped(mainHandle[s]) = 0
    BY <1>1, SkippedMain
  <1>3. uvHandleRef' = uvHandleRef
    BY <1>2 DEF FreeSessionContinue, TypeOK
  <1>4. CloseAll(mainHandle[s]) = [h \in MainHandles |-> "closingCb"]
    BY <1>1 DEF CloseAll
  <1> QED BY <1>3, <1>4 DEF FreeSessionContinue, TypeOK

\* A step of one session does not touch another one.
LEMMA MainFrame ==
    ASSUME TypeOK, NEW s \in Sessions, MainChange(s), NEW t \in Sessions, t # s
    PROVE  /\ t \in mapSession' <=> t \in mapSession
           /\ t \in freed' <=> t \in freed
           /\ isDead'[t] = isDead[t] /\ stage'[t] = stage[t] /\ conn'[t] = conn[t]
           /\ mainHandle'[t] = mainHandle[t] /\ uvHandleRef'[t] = uvHandleRef[t]
  <1> USE DEF TypeOK
  <1>1. CASE \/ ConnectFail(s) \/ RemoveSession(s) \/ AsyncMainLoopTask(s)
    BY <1>1 DEF ConnectFail, RemoveSession, AsyncMainLoopTask, FreeSession
  <1>2. CASE ConnectDaemon(s)
    BY <1>2 DEF ConnectDaemon
  <1>3. CASE ConnectOk(s)
    BY <1>3 DEF ConnectOk
  <1>4. CASE FreeSessionOpeate(s)
    BY <1>4 DEF FreeSessionOpeate, FreeSessionContinue
  <1>5. CASE CheckFreeSessionContinue(s)
    BY <1>5 DEF CheckFreeSessionContinue, FreeSessionContinue
  <1>6. ASSUME NEW h \in MainHandles, CloseMainHandle(s, h)
        PROVE  /\ t \in mapSession' <=> t \in mapSession
               /\ t \in freed' <=> t \in freed
               /\ isDead'[t] = isDead[t] /\ stage'[t] = stage[t]
               /\ conn'[t] = conn[t]
               /\ mainHandle'[t] = mainHandle[t] /\ uvHandleRef'[t] = uvHandleRef[t]
    BY <1>6 DEF CloseMainHandle, FreeSession
  <1>7. CASE FreeSessionFinally(s)
    BY <1>7 DEF FreeSessionFinally
  <1> QED BY <1>1, <1>2, <1>3, <1>4, <1>5, <1>6, <1>7 DEF MainChange

LEMMA WorkFrame ==
    ASSUME TypeOK, NEW s \in Sessions, WorkChange(s), NEW t \in Sessions, t # s
    PROVE  /\ worker'[t] = worker[t] /\ childHandle'[t] = childHandle[t]
           /\ ctrl'[t] = ctrl[t] /\ batch'[t] = batch[t]
           /\ uvChildRef'[t] = uvChildRef[t] /\ stopChild'[t] = stopChild[t]
           /\ pushing'[t] = pushing[t] /\ childCleared'[t] = childCleared[t]
  <1> USE DEF TypeOK
  <1>1. CASE ConnectOk(s) \/ ConnectThreadUp(s) \/ ReadStreamFail(s)
    BY <1>1 DEF ConnectOk, ConnectThreadUp, ReadStreamFail
  <1>2. CASE FreeSessionOpeate(s)
    BY <1>2 DEF FreeSessionOpeate
  <1>3. CASE SessionWorkThread(s) \/ ReadCtrlFromMain(s)
    BY <1>3 DEF SessionWorkThread, ReadCtrlFromMain
  <1>4. CASE StartSessionOk(s) \/ StartSessionFail(s) \/ StopSession(s)
    BY <1>4 DEF StartSessionOk, StartSessionFail, StopSession
  <1>5. CASE \E h \in ChildHandles : CloseChildHandle(s, h)
    BY <1>5 DEF CloseChildHandle
  <1>6. CASE AsyncSend(s) \/ LeaveChildLoop(s)
    BY <1>6 DEF AsyncSend, LeaveChildLoop
  <1>7. CASE ReChildLoopForSessionClear(s) \/ SessionWorkThreadEnd(s)
    BY <1>7 DEF ReChildLoopForSessionClear, SessionWorkThreadEnd
  <1> QED
    BY <1>1, <1>2, <1>3, <1>4, <1>5, <1>6, <1>7 DEF WorkChange, WorkerStep

-----------------------------------------------------------------------------
(* The inductive invariant, conjunct by conjunct *)

LEMMA LifeStep ==
    ASSUME IInv, [Next]_vars, NEW t \in Sessions
    PROVE  LifeInv(t)'
  <1> USE DEF IInv, LifeInv, TypeOK
  <1>1. CASE UNCHANGED mainVars
    BY <1>1 DEF mainVars
  <1>2. ASSUME NEW s \in Sessions, MainChange(s), s # t PROVE LifeInv(t)'
    BY <1>2, MainFrame
  <1>3. CASE ConnectDaemon(t)
    BY <1>3 DEF ConnectDaemon
  <1>4. CASE ConnectFail(t)
    BY <1>4, FreeSessionEffect DEF ConnectFail
  <1>5. CASE ConnectOk(t)
    BY <1>5 DEF ConnectOk
  <1>6. CASE RemoveSession(t)
    BY <1>6, FreeSessionEffect DEF RemoveSession
  <1>7. CASE AsyncMainLoopTask(t)
    BY <1>7, FreeSessionEffect DEF AsyncMainLoopTask
  <1>8. CASE FreeSessionOpeate(t)
    BY <1>8 DEF FreeSessionOpeate, FreeSessionContinue
  <1>9. CASE CheckFreeSessionContinue(t)
    BY <1>9 DEF CheckFreeSessionContinue, FreeSessionContinue
  <1>10. ASSUME NEW h \in MainHandles, CloseMainHandle(t, h) PROVE LifeInv(t)'
    BY <1>10, FreeSessionEffect DEF CloseMainHandle
  <1>11. CASE FreeSessionFinally(t)
    BY <1>11 DEF FreeSessionFinally
  <1> QED
    BY <1>1, <1>2, <1>3, <1>4, <1>5, <1>6, <1>7, <1>8, <1>9, <1>10, <1>11,
       MainCases DEF MainChange

\* A counter that counts nothing leaves no callback to come.
LEMMA RefZero ==
    ASSUME TypeOK, RefsCountCallbacks, NEW s \in Sessions, uvHandleRef[s] <= 0
    PROVE  \A h \in MainHandles : mainHandle[s][h] \notin {"open", "closingCb"}
  <1> DEFINE S == {h \in MainHandles : mainHandle[s][h] \in {"open", "closingCb"}}
  <1>1. S \subseteq MainHandles /\ IsFiniteSet(MainHandles)
    BY HandlesFinite
  <1>2. IsFiniteSet(S)
    BY <1>1, FS_Subset
  <1>3. uvHandleRef[s] = Cardinality(S)
    BY DEF RefsCountCallbacks
  <1>4. Cardinality(S) \in Nat
    BY <1>2, FS_CardinalityType
  <1>5. Cardinality(S) = 0
    BY <1>3, <1>4
  <1>6. S = {}
    BY <1>2, <1>5, FS_EmptySet
  <1> QED BY <1>6

LEMMA ChildRefZero ==
    ASSUME TypeOK, RefsCountCallbacks, NEW s \in Sessions, uvChildRef[s] = 0
    PROVE  \A h \in ChildHandles : childHandle[s][h] # "closingCb"
  <1> DEFINE S == {h \in ChildHandles : childHandle[s][h] = "closingCb"}
  <1>1. IsFiniteSet(S)
    BY HandlesFinite, FS_Subset
  <1>2. Cardinality(S) = 0
    BY DEF RefsCountCallbacks
  <1>3. S = {}
    BY <1>1, <1>2, FS_EmptySet
  <1> QED BY <1>3

LEMMA MainHandleStep ==
    ASSUME IInv, [Next]_vars, NEW t \in Sessions
    PROVE  MainHandleInv(t)'
  <1> USE DEF IInv, LifeInv, MainHandleInv, TypeOK
  <1>1. CASE UNCHANGED mainVars
    BY <1>1 DEF mainVars
  <1>2. ASSUME NEW s \in Sessions, MainChange(s), s # t PROVE MainHandleInv(t)'
    BY <1>2, MainFrame
  <1>3. CASE ConnectDaemon(t)
    <2>1. stage[t] = "none" /\ "workTCP" \in MainHandles
      BY <1>3 DEF ConnectDaemon, MainHandles
    <2>2. mainHandle'[t] = [h \in MainHandles |-> "open"] /\ conn'[t] = "pending"
      BY <1>3 DEF ConnectDaemon
    <2>3. stage'[t] = "none"
      BY <1>3, <2>1 DEF ConnectDaemon
    <2> QED BY <2>1, <2>2, <2>3
  <1>4. ASSUME FreeSession(t), t \in mapSession, mainHandle'[t] = mainHandle[t],
               conn'[t] # "none", conn[t] = "done" => conn'[t] = "done"
        PROVE  MainHandleInv(t)'
    <2>1. conn[t] # "none"
      BY <1>4
    <2>2. CASE stage'[t] = stage[t]
      BY <1>4, <2>1, <2>2
    <2>3. CASE stage[t] = "none" /\ stage'[t] = "opeate"
      BY <1>4, <2>1, <2>3
    <2> QED BY <1>4, <2>2, <2>3, FreeSessionEffect
  <1>5. CASE ConnectFail(t)
    <2>1. t \in mapSession
      BY <1>5 DEF ConnectFail, MainHandles
    <2>2. FreeSession(t) /\ mainHandle'[t] = mainHandle[t] /\ conn'[t] = "done"
      BY <1>5 DEF ConnectFail
    <2> QED BY <1>4, <2>1, <2>2
  <1>6. CASE ConnectOk(t)
    BY <1>6 DEF ConnectOk
  <1>7. CASE RemoveSession(t)
    BY <1>4, <1>7 DEF RemoveSession
  <1>8. CASE AsyncMainLoopTask(t)
    BY <1>8, FreeSessionEffect DEF AsyncMainLoopTask
  <1>9. ASSUME FreeSessionContinue(t), stage[t] \in {"opeate", "waitChild"},
               conn' = conn
        PROVE  MainHandleInv(t)'
    <2>1. \A h \in MainHandles : mainHandle[t][h] = "open"
      BY <1>9
    <2>2. /\ \A h \in MainHandles : mainHandle'[t][h] = "closingCb"
          /\ stage'[t] = "finally"
      BY <1>9, <2>1, FreeSessionContinueEffect
    <2>3. "workTCP" \in MainHandles
      BY DEF MainHandles
    <2> QED BY <1>9, <2>2, <2>3
  <1>10. CASE FreeSessionOpeate(t)
    <2>1. CASE PollLoopSet(t)
      BY <1>10, <2>1 DEF FreeSessionOpeate
    <2>2. CASE ~PollLoopSet(t)
      BY <1>9, <1>10, <2>2 DEF FreeSessionOpeate
    <2> QED BY <2>1, <2>2
  <1>11. CASE CheckFreeSessionContinue(t)
    BY <1>9, <1>11 DEF CheckFreeSessionContinue
  <1>12. ASSUME NEW h \in MainHandles, CloseMainHandle(t, h) PROVE MainHandleInv(t)'
    <2>1. stage[t] \in {"finally", "done"} /\ isDead[t]
      BY <1>12 DEF CloseMainHandle, Stages
    <2>2. stage' = stage
      BY <1>12, <2>1, FreeSessionEffect DEF CloseMainHandle
    <2>3. conn'[t] = IF h = "workTCP" THEN "done" ELSE conn[t]
      BY <1>12, <2>1 DEF CloseMainHandle
    <2> QED BY <1>12, <2>1, <2>2, <2>3 DEF CloseMainHandle
  <1>13. CASE FreeSessionFinally(t)
    <2>1. \A h \in MainHandles : mainHandle[t][h] \notin {"open", "closingCb"}
      BY <1>13, RefZero DEF FreeSessionFinally
    <2> QED BY <1>13, <2>1 DEF FreeSessionFinally
  <1> HIDE DEF IInv, LifeInv, MainHandleInv, TypeOK
  <1> QED
    BY <1>1, <1>2, <1>3, <1>5, <1>6, <1>7, <1>8, <1>10, <1>11, <1>12, <1>13,
       MainCases DEF MainChange

\* No step takes a finished connection back, or ends a teardown that has begun.
LEMMA MainMonotone ==
    ASSUME IInv, [Next]_vars, NEW t \in Sessions
    PROVE  /\ conn[t] = "done" => conn'[t] = "done"
           /\ isDead[t] => isDead'[t]
  <1> USE DEF IInv, LifeInv, TypeOK
  <1>1. CASE UNCHANGED mainVars
    BY <1>1 DEF mainVars
  <1>2. CASE \E s \in Sessions : MainChange(s) /\ s # t
    BY <1>2, MainFrame
  <1>3. CASE \/ ConnectDaemon(t) \/ ConnectFail(t) \/ ConnectOk(t)
             \/ RemoveSession(t) \/ AsyncMainLoopTask(t)
    BY <1>3, FreeSessionEffect
       DEF ConnectDaemon, ConnectFail, ConnectOk, RemoveSession, AsyncMainLoopTask
  <1>4. CASE \/ FreeSessionOpeate(t) \/ CheckFreeSessionContinue(t)
             \/ FreeSessionFinally(t)
    BY <1>4
       DEF FreeSessionOpeate, CheckFreeSessionContinue, FreeSessionFinally
  <1>5. ASSUME NEW h \in MainHandles, CloseMainHandle(t, h)
        PROVE  /\ conn[t] = "done" => conn'[t] = "done"
               /\ isDead[t] => isDead'[t]
    BY <1>5, FreeSessionEffect DEF CloseMainHandle
  <1> HIDE DEF IInv, LifeInv, TypeOK
  <1> QED BY <1>1, <1>2, <1>3, <1>4, <1>5, MainCases DEF MainChange

\* Connect takes the main thread, and gives it back.
LEMMA WaitCases ==
    ASSUME [Next]_vars
    PROVE  \/ mainWait' = mainWait
           \/ \E s \in Sessions : ConnectOk(s) \/ ConnectThreadUp(s)
  BY DEF Next, MainStep, WorkerStep, Environment, vars, loopVars,
         MainAsyncCallback, AsyncMainLoopTask, FreeSessionOpeate,
         CheckFreeSessionContinue, CloseMainHandle, FreeSessionFinally,
         SessionWorkThread, ReadCtrlFromMain, StartSessionOk, StartSessionFail,
         StopSession, CloseChildHandle, AsyncSend, LeaveChildLoop,
         ReChildLoopForSessionClear, SessionWorkThreadEnd, ConnectDaemon,
         ConnectFail, RemoveSession, ReadStreamFail

\* The only step that queues a worker is Connect, which then waits for it.
LEMMA QueuedStep ==
    ASSUME IInv, [Next]_vars, NEW t \in Sessions, worker'[t] = "queued"
    PROVE  mainWait' = t
  <1> USE DEF IInv, WorkerInv, TypeOK
  <1>1. ASSUME NEW s \in Sessions, ConnectOk(s) PROVE mainWait' = t
    BY <1>1, NoSessionAssumption DEF ConnectOk
  <1>2. ASSUME NEW s \in Sessions, ConnectThreadUp(s) PROVE mainWait' = t
    <2>1. worker[t] = "queued" /\ s = t
      BY <1>2 DEF ConnectThreadUp
    <2>2. ~ChildActive(t)
      BY <2>1 DEF ChildActive
    <2> QED BY <1>2, <2>1, <2>2 DEF ConnectThreadUp
  <1>3. ASSUME NEW s \in Sessions, FreeSessionOpeate(s) \/ ReadStreamFail(s)
        PROVE  worker[t] = "queued"
    BY <1>3 DEF FreeSessionOpeate, ReadStreamFail
  <1>4. ASSUME NEW s \in Sessions, WorkerStep(s) PROVE worker[t] = "queued"
    BY <1>4 DEF WorkerStep, SessionWorkThread, ReadCtrlFromMain, StartSessionOk,
                StartSessionFail, StopSession, CloseChildHandle, AsyncSend,
                LeaveChildLoop, ReChildLoopForSessionClear, SessionWorkThreadEnd
  <1>5. ASSUME UNCHANGED workVars PROVE worker[t] = "queued"
    BY <1>5 DEF workVars
  <1>6. worker[t] = "queued" => mainWait = t
    OBVIOUS
  <1> HIDE DEF IInv, WorkerInv, TypeOK
  <1>7. CASE \E s \in Sessions : ConnectOk(s) \/ ConnectThreadUp(s)
    BY <1>1, <1>2, <1>7
  <1>8. CASE ~\E s \in Sessions : ConnectOk(s) \/ ConnectThreadUp(s)
    <2>1. worker[t] = "queued"
      BY <1>3, <1>4, <1>5, <1>8, WorkCases DEF WorkChange
    <2> QED BY <1>6, <1>8, <2>1, WaitCases
  <1> QED BY <1>7, <1>8

LEMMA WorkerInvStep ==
    ASSUME IInv, [Next]_vars, NEW t \in Sessions
    PROVE  WorkerInv(t)'
  <1> USE DEF IInv, WorkerInv, TypeOK, WorkerStates, ChildStates
  <1>1. worker'[t] = "queued" => mainWait' = t
    BY QueuedStep
  <1>2. conn[t] = "done" => conn'[t] = "done"
    BY MainMonotone
  <1>3. CASE UNCHANGED workVars
    BY <1>1, <1>2, <1>3 DEF workVars
  <1>4. ASSUME NEW s \in Sessions, WorkChange(s), s # t PROVE WorkerInv(t)'
    BY <1>1, <1>2, <1>4, WorkFrame
  <1>5. CASE ConnectOk(t)
    <2>1. worker[t] = "none" /\ ~childCleared[t] /\ ~pushing[t]
      BY <1>5 DEF ConnectOk
    <2>2. /\ worker'[t] = "queued" /\ conn'[t] = "done"
          /\ childHandle' = childHandle
      BY <1>5 DEF ConnectOk
    <2>3. childCleared' = childCleared /\ pushing' = pushing
      BY <1>5 DEF ConnectOk
    <2> QED BY <1>1, <2>1, <2>2, <2>3
  <1>6. CASE ConnectThreadUp(t)
    BY <1>1, <1>2, <1>6 DEF ConnectThreadUp
  <1>7. CASE FreeSessionOpeate(t)
    BY <1>1, <1>2, <1>7 DEF FreeSessionOpeate
  <1>8. ASSUME worker[t] \in {"queued", "run", "reclear"},
               worker'[t] \in {"run", "reclear"},
               childHandle'[t]["pollWork"] # "none", childCleared' = childCleared
        PROVE  WorkerInv(t)'
    <2>1. conn'[t] = "done" /\ ~childCleared'[t]
      BY <1>2, <1>8
    <2> QED BY <1>8, <2>1
  <1>9. CASE SessionWorkThread(t)
    BY <1>8, <1>9 DEF SessionWorkThread, ChildHandles
  <1>10. CASE ReadCtrlFromMain(t)
    BY <1>8, <1>10 DEF ReadCtrlFromMain
  <1>11. CASE StartSessionOk(t) \/ StartSessionFail(t)
    <2>1. childHandle[t]["pollWork"] # "none" /\ worker[t] = "run"
      BY <1>11 DEF StartSessionOk, StartSessionFail, Dispatching
    <2>2. childHandle'[t]["pollWork"] = childHandle[t]["pollWork"]
      BY <1>11 DEF StartSessionOk, StartSessionFail, ChildHandles
    <2>3. worker' = worker /\ childCleared' = childCleared
      BY <1>11 DEF StartSessionOk, StartSessionFail
    <2> QED BY <1>8, <2>1, <2>2, <2>3
  <1>12. CASE StopSession(t)
    <2>1. childHandle[t]["pollWork"] # "none" /\ "pollWork" \in ChildHandles
      BY <1>12 DEF StopSession, Dispatching, ChildHandles
    <2>2. \A h \in ChildHandles :
              childHandle'[t][h] =
                  IF h \in StopHandles(t) /\ childHandle[t][h] \in {"open", "inert"}
                  THEN "closingCb" ELSE childHandle[t][h]
      BY <1>12, StopSessionType
    <2>3. childHandle'[t]["pollWork"] # "none"
      BY <2>1, <2>2
    <2> QED BY <1>8, <1>12, <2>3 DEF StopSession, Dispatching
  <1>13. ASSUME NEW h \in ChildHandles, CloseChildHandle(t, h) PROVE WorkerInv(t)'
    <2>1. worker[t] \in {"run", "reclear"} /\ childHandle[t]["pollWork"] # "none"
      BY <1>13 DEF CloseChildHandle
    <2>2. childHandle'[t] = [childHandle[t] EXCEPT ![h] = "closed"]
      BY <1>13 DEF CloseChildHandle
    <2>3. childHandle'[t]["pollWork"] # "none"
      BY <2>1, <2>2 DEF ChildHandles
    <2>4. worker' = worker /\ childCleared' = childCleared
      BY <1>13 DEF CloseChildHandle
    <2> QED BY <1>8, <2>1, <2>3, <2>4
  <1>14. CASE AsyncSend(t)
    BY <1>1, <1>2, <1>14 DEF AsyncSend
  <1>15. CASE LeaveChildLoop(t)
    <2>1. worker[t] = "run" /\ worker'[t] = "reclear"
      BY <1>15 DEF LeaveChildLoop
    <2>2. childHandle' = childHandle /\ childCleared' = childCleared
      BY <1>15 DEF LeaveChildLoop
    <2> QED BY <1>8, <2>1, <2>2
  <1>16. CASE ReChildLoopForSessionClear(t)
    <2>1. ~pushing[t] /\ conn[t] = "done" /\ childHandle[t]["pollWork"] # "none"
      BY <1>16 DEF ReChildLoopForSessionClear, WorkerIdle
    <2>2. /\ worker'[t] = "cleared"
          /\ \A h \in ChildHandles : childHandle'[t][h] \in {"none", "closed"}
          /\ childHandle'[t]["pollWork"] # "none"
      BY <1>16, <2>1 DEF ReChildLoopForSessionClear, ChildHandles
    <2>3. childCleared'[t] /\ pushing' = pushing
      BY <1>16 DEF ReChildLoopForSessionClear
    <2> QED BY <1>2, <2>1, <2>2, <2>3
  <1>17. CASE SessionWorkThreadEnd(t)
    <2>1. worker[t] = "cleared" /\ childCleared[t] /\ ~pushing[t]
      BY <1>17 DEF SessionWorkThreadEnd
    <2>2. worker'[t] = "exited" /\ childHandle' = childHandle
      BY <1>17 DEF SessionWorkThreadEnd
    <2>3. childCleared' = childCleared /\ pushing' = pushing
      BY <1>17 DEF SessionWorkThreadEnd
    <2> QED BY <1>2, <2>1, <2>2, <2>3
  <1>18. CASE ReadStreamFail(t)
    BY <1>8, <1>18 DEF ReadStreamFail, ChildHandles
  <1> HIDE DEF IInv, WorkerInv, TypeOK, WorkerStates, ChildStates
  <1> QED
    BY <1>3, <1>4, <1>5, <1>6, <1>7, <1>9, <1>10, <1>11, <1>12, <1>13, <1>14,
       <1>15, <1>16, <1>17, <1>18, WorkCases DEF WorkChange, WorkerStep

\* What a step leaves alone that is not a step of this session.
LEMMA MainSame ==
    ASSUME IInv, [Next]_vars, NEW t \in Sessions, ~MainChange(t)
    PROVE  /\ isDead'[t] = isDead[t] /\ stage'[t] = stage[t] /\ conn'[t] = conn[t]
           /\ mainHandle'[t] = mainHandle[t] /\ uvHandleRef'[t] = uvHandleRef[t]
  <1>1. CASE UNCHANGED mainVars
    BY <1>1 DEF mainVars
  <1>2. CASE \E s \in Sessions : MainChange(s) /\ s # t
    BY <1>2, MainFrame DEF IInv
  <1> QED BY <1>1, <1>2, MainCases

LEMMA WorkSame ==
    ASSUME IInv, [Next]_vars, NEW t \in Sessions, ~WorkChange(t)
    PROVE  /\ worker'[t] = worker[t] /\ childHandle'[t] = childHandle[t]
           /\ ctrl'[t] = ctrl[t] /\ batch'[t] = batch[t]
           /\ uvChildRef'[t] = uvChildRef[t] /\ stopChild'[t] = stopChild[t]
           /\ pushing'[t] = pushing[t] /\ childCleared'[t] = childCleared[t]
  <1>1. CASE UNCHANGED workVars
    BY <1>1 DEF workVars
  <1>2. CASE \E s \in Sessions : WorkChange(s) /\ s # t
    BY <1>2, WorkFrame DEF IInv
  <1> QED BY <1>1, <1>2, WorkCases

LEMMA WaitSame ==
    ASSUME [Next]_vars, NEW t \in Sessions, ~ConnectOk(t), mainWait' = t
    PROVE  mainWait = t
  <1>1. ASSUME NEW s \in Sessions, ConnectOk(s) PROVE mainWait = t
    BY <1>1 DEF ConnectOk
  <1>2. ASSUME NEW s \in Sessions, ConnectThreadUp(s) PROVE mainWait = t
    BY <1>2, NoSessionAssumption DEF ConnectThreadUp
  <1> QED BY <1>1, <1>2, WaitCases

LEMMA TeardownStep ==
    ASSUME IInv, [Next]_vars, NEW t \in Sessions
    PROVE  TeardownInv(t)'
  <1> USE DEF IInv, TeardownInv
  <1>1. CASE ~MainChange(t) /\ ~WorkChange(t)
    <2>1. stage'[t] = stage[t] /\ worker'[t] = worker[t]
      BY <1>1, MainSame, WorkSame
    <2>2. mainWait' = t => mainWait = t
      BY <1>1, WaitSame DEF MainChange
    <2> QED BY <2>1, <2>2
  <1>2. CASE ConnectOk(t)
    <2>1. stage[t] \notin {"finally", "done"}
      BY <1>2 DEF ConnectOk, MainHandleInv, MainHandles
    <2>2. stage' = stage /\ worker'[t] = "queued"
      BY <1>2 DEF ConnectOk, TypeOK
    <2> QED BY <2>1, <2>2
  <1>3. CASE FreeSessionOpeate(t)
    <2>1. mainWait' = mainWait /\ mainWait # t /\ worker' = worker
      BY <1>3, NoSessionAssumption DEF FreeSessionOpeate, loopVars
    <2>2. CASE PollLoopSet(t)
      <3>1. stage'[t] = "waitChild"
        BY <1>3, <2>2 DEF FreeSessionOpeate, TypeOK
      <3> QED BY <2>1, <3>1
    <2>3. CASE ~PollLoopSet(t)
      <3>1. worker[t] \in {"none", "queued"}
        BY <2>3 DEF PollLoopSet, WorkerInv
      <3>2. worker[t] = "none"
        BY <2>1, <3>1 DEF WorkerInv
      <3> QED BY <2>1, <3>2
    <2> QED BY <2>2, <2>3
  <1>4. CASE CheckFreeSessionContinue(t)
    <2>1. mainWait' = mainWait /\ mainWait # t /\ worker' = worker
      BY <1>4, NoSessionAssumption
         DEF CheckFreeSessionContinue, loopVars, workVars
    <2>2. worker[t] \in {"cleared", "exited"}
      BY <1>4 DEF CheckFreeSessionContinue, WorkerInv
    <2> QED BY <2>1, <2>2
  <1>5. CASE \/ ConnectDaemon(t) \/ ConnectFail(t) \/ RemoveSession(t)
             \/ AsyncMainLoopTask(t) \/ \E h \in MainHandles : CloseMainHandle(t, h)
             \/ FreeSessionFinally(t)
    <2>1. mainWait' = mainWait /\ mainWait # t /\ worker' = worker
      BY <1>5, NoSessionAssumption
         DEF ConnectDaemon, ConnectFail, RemoveSession, AsyncMainLoopTask,
             CloseMainHandle, FreeSessionFinally, loopVars, workVars
    <2>2. CASE FreeSessionFinally(t)
      <3>1. stage[t] = "finally"
        BY <2>2 DEF FreeSessionFinally
      <3> QED BY <2>1, <3>1
    <2>3. CASE ~FreeSessionFinally(t)
      <3>1. stage'[t] = stage[t] \/ stage'[t] = "opeate"
        BY <1>5, <2>3
           DEF ConnectDaemon, ConnectFail, RemoveSession, AsyncMainLoopTask,
               CloseMainHandle, FreeSession, TypeOK
      <3> QED BY <2>1, <3>1
    <2> QED BY <2>2, <2>3
  <1>6. CASE WorkerStep(t) \/ ReadStreamFail(t) \/ ConnectThreadUp(t)
    <2>1. stage' = stage /\ (mainWait' = t => mainWait = t)
      BY <1>6, NoSessionAssumption
         DEF WorkerStep, SessionWorkThread, ReadCtrlFromMain, StartSessionOk,
             StartSessionFail, StopSession, CloseChildHandle, AsyncSend,
             LeaveChildLoop, ReChildLoopForSessionClear, SessionWorkThreadEnd,
             ReadStreamFail, ConnectThreadUp, mainVars, loopVars
    <2>2. /\ worker[t] \in {"none", "cleared", "exited"} =>
                 worker'[t] \in {"none", "cleared", "exited"}
          /\ worker[t] # "none" => worker'[t] # "none"
      BY <1>6
         DEF WorkerStep, SessionWorkThread, ReadCtrlFromMain, StartSessionOk,
             StartSessionFail, StopSession, CloseChildHandle, AsyncSend,
             LeaveChildLoop, ReChildLoopForSessionClear, SessionWorkThreadEnd,
             ReadStreamFail, ConnectThreadUp, TypeOK
    <2> QED BY <2>1, <2>2
  <1> HIDE DEF IInv, TeardownInv
  <1> QED BY <1>1, <1>2, <1>3, <1>4, <1>5, <1>6 DEF MainChange, WorkChange

\* What can happen to the two queues of commands.
LEMMA QueueCases ==
    ASSUME IInv, [Next]_vars, NEW t \in Sessions
    PROVE  \/ ctrl'[t] = ctrl[t] /\ batch'[t] = batch[t]
           \/ /\ ConnectThreadUp(t)
              /\ ctrl'[t] = Append(ctrl[t], "SP_START_SESSION") /\ batch'[t] = batch[t]
           \/ /\ FreeSessionOpeate(t)
              /\ ctrl'[t] = Append(ctrl[t], "SP_STOP_SESSION") /\ batch'[t] = batch[t]
           \/ ctrl'[t] = <<>> /\ batch[t] = <<>> /\ batch'[t] = ctrl[t]
           \/ ctrl'[t] = ctrl[t] /\ batch[t] # <<>> /\ batch'[t] = Tail(batch[t])
           \/ ctrl'[t] = ctrl[t] /\ batch'[t] = <<>>
  <1> USE DEF TypeOK
  <1>0. TypeOK
    BY DEF IInv
  <1>1. CASE ~WorkChange(t)
    BY <1>1, WorkSame
  <1>2. CASE ConnectThreadUp(t)
    BY <1>0, <1>2 DEF ConnectThreadUp
  <1>3. CASE FreeSessionOpeate(t)
    BY <1>0, <1>3 DEF FreeSessionOpeate
  <1>4. CASE ReadCtrlFromMain(t)
    BY <1>0, <1>4 DEF ReadCtrlFromMain, WorkerIdle
  <1>5. CASE StartSessionOk(t) \/ StartSessionFail(t) \/ StopSession(t)
    BY <1>0, <1>5 DEF StartSessionOk, StartSessionFail, StopSession, Dispatching
  <1>6. CASE \/ ConnectOk(t) \/ ReadStreamFail(t) \/ SessionWorkThread(t)
             \/ \E h \in ChildHandles : CloseChildHandle(t, h)
             \/ AsyncSend(t) \/ LeaveChildLoop(t)
             \/ ReChildLoopForSessionClear(t) \/ SessionWorkThreadEnd(t)
    BY <1>6 DEF ConnectOk, ReadStreamFail, SessionWorkThread, CloseChildHandle,
                AsyncSend, LeaveChildLoop, ReChildLoopForSessionClear,
                SessionWorkThreadEnd
  <1> QED
    BY <1>1, <1>2, <1>3, <1>4, <1>5, <1>6 DEF WorkChange, WorkerStep

\* The commands in the queues: old ones, and at most one new one.
LEMMA QueueElems ==
    ASSUME IInv, [Next]_vars, NEW t \in Sessions
    PROVE  /\ Elems(ctrl'[t]) \cup Elems(batch'[t])
                \subseteq Elems(ctrl[t]) \cup Elems(batch[t])
                          \cup {"SP_START_SESSION", "SP_STOP_SESSION"}
           /\ ~ConnectThreadUp(t) /\ "SP_START_SESSION" \in Elems(ctrl'[t]) \cup Elems(batch'[t])
                => "SP_START_SESSION" \in Elems(ctrl[t]) \cup Elems(batch[t])
           /\ ~FreeSessionOpeate(t) /\ "SP_STOP_SESSION" \in Elems(ctrl'[t]) \cup Elems(batch'[t])
                => "SP_STOP_SESSION" \in Elems(ctrl[t]) \cup Elems(batch[t])
  <1>1. ctrl[t] \in Seq(Commands) /\ batch[t] \in Seq(Commands)
    BY DEF IInv, TypeOK
  <1>2. /\ Elems(<<>>) = {}
        /\ batch[t] # <<>> => Elems(Tail(batch[t])) \subseteq Elems(batch[t])
    BY <1>1, ElemsType, ElemsTail
  <1>3. \A c \in Commands : Elems(Append(ctrl[t], c)) = Elems(ctrl[t]) \cup {c}
    BY <1>1, ElemsAppend
  <1>4. Commands = {"SP_START_SESSION", "SP_STOP_SESSION"}
    BY DEF Commands
  <1> QED BY <1>2, <1>3, <1>4, QueueCases

LEMMA StopStep ==
    ASSUME IInv, [Next]_vars, NEW t \in Sessions
    PROVE  StopInv(t)'
  <1>1. isDead[t] => isDead'[t]
    BY MainMonotone
  <1>2. "SP_STOP_SESSION" \in Elems(ctrl'[t]) \cup Elems(batch'[t]) => isDead[t]
    <2>1. FreeSessionOpeate(t) => isDead[t]
      BY DEF FreeSessionOpeate, IInv, LifeInv
    <2>2. "SP_STOP_SESSION" \in Elems(ctrl[t]) \cup Elems(batch[t]) => isDead[t]
      BY DEF IInv, StopInv
    <2> QED BY <2>1, <2>2, QueueElems
  <1>3. (uvChildRef'[t] # 0 \/ stopChild'[t]) => isDead[t]
    <2>1. (uvChildRef[t] # 0 \/ stopChild[t]) => isDead[t]
      BY DEF IInv, StopInv
    <2>2. CASE StopSession(t)
      <3>1. "SP_STOP_SESSION" \in Elems(batch[t])
        BY <2>2, ElemsTail DEF StopSession, Dispatching, IInv, TypeOK
      <3> QED BY <3>1 DEF IInv, StopInv
    <2>3. ASSUME NEW h \in ChildHandles, CloseChildHandle(t, h)
          PROVE  (uvChildRef'[t] # 0 \/ stopChild'[t]) => isDead[t]
      <3>1. CASE uvChildRef[t] = 0
        <4>1. childHandle[t][h] # "closingCb"
          BY <2>3, <3>1, ChildRefZero DEF IInv
        <4> QED BY <2>1, <2>3, <4>1 DEF CloseChildHandle
      <3>2. CASE uvChildRef[t] # 0
        BY <2>1, <3>2
      <3> QED BY <3>1, <3>2
    <2>4. CASE WorkChange(t) /\ ~StopSession(t)
                /\ ~\E h \in ChildHandles : CloseChildHandle(t, h)
      <3>1. /\ uvChildRef'[t] = uvChildRef[t]
            /\ stopChild'[t] => stopChild[t]
        BY <2>4
           DEF WorkChange, WorkerStep, SessionWorkThread, ReadCtrlFromMain,
               StartSessionOk, StartSessionFail, AsyncSend, LeaveChildLoop,
               ReChildLoopForSessionClear, SessionWorkThreadEnd, ReadStreamFail,
               ConnectOk, ConnectThreadUp, FreeSessionOpeate, IInv, TypeOK
      <3> QED BY <2>1, <3>1
    <2>5. CASE ~WorkChange(t)
      BY <2>1, <2>5, WorkSame
    <2> QED BY <2>2, <2>3, <2>4, <2>5
  <1>4. worker'[t] \in {"reclear", "cleared", "exited"} => isDead[t]
    <2>1. CASE ~WorkChange(t)
      BY <2>1, WorkSame DEF IInv, StopInv
    <2>2. CASE LeaveChildLoop(t)
      BY <2>2 DEF LeaveChildLoop, IInv, StopInv
    <2>3. CASE WorkChange(t) /\ ~LeaveChildLoop(t)
      <3>1. worker'[t] \in {"reclear", "cleared", "exited"} =>
                worker[t] \in {"reclear", "cleared", "exited"}
        BY <2>3
           DEF WorkChange, WorkerStep, SessionWorkThread, ReadCtrlFromMain,
               StartSessionOk, StartSessionFail, StopSession, CloseChildHandle,
               AsyncSend, ReChildLoopForSessionClear, SessionWorkThreadEnd,
               ReadStreamFail, ConnectOk, ConnectThreadUp, FreeSessionOpeate,
               IInv, TypeOK
      <3> QED BY <3>1 DEF IInv, StopInv
    <2> QED BY <2>1, <2>2, <2>3
  <1> QED BY <1>1, <1>2, <1>3, <1>4 DEF StopInv

LEMMA OneStartAppend ==
    ASSUME NEW q \in Seq(Commands), NEW c \in Commands, OneStart(q),
           c # "SP_START_SESSION" \/ "SP_START_SESSION" \notin Elems(q)
    PROVE  OneStart(Append(q, c))
  <1>1. Len(Append(q, c)) = Len(q) + 1 /\ Len(q) \in Nat
    BY LenProperties
  <1>2. \A i \in 1..Len(q) : Append(q, c)[i] = q[i]
    OBVIOUS
  <1>3. Append(q, c)[Len(q) + 1] = c
    OBVIOUS
  <1>4. c = "SP_START_SESSION" => \A i \in 1..Len(q) : q[i] # c
    BY DEF Elems
  <1>5. \A i \in 1..(Len(q) + 1) : i \in 1..Len(q) \/ i = Len(q) + 1
    BY <1>1
  <1> QED BY <1>1, <1>2, <1>3, <1>4, <1>5 DEF OneStart

LEMMA OneStartTail ==
    ASSUME NEW q \in Seq(Commands), q # <<>>, OneStart(q)
    PROVE  /\ OneStart(Tail(q))
           /\ Head(q) = "SP_START_SESSION" => "SP_START_SESSION" \notin Elems(Tail(q))
  <1>1. /\ Len(Tail(q)) = Len(q) - 1 /\ Len(q) \in Nat \ {0}
        /\ \A i \in 1..Len(Tail(q)) : Tail(q)[i] = q[i + 1]
        /\ Head(q) = q[1]
    BY HeadTailProperties, EmptySeq
  <1>2. \A i \in 1..Len(Tail(q)) : i + 1 \in 1..Len(q) /\ i + 1 # 1
    BY <1>1
  <1>3. OneStart(Tail(q))
    BY <1>1, <1>2 DEF OneStart
  <1>4. ASSUME Head(q) = "SP_START_SESSION", "SP_START_SESSION" \in Elems(Tail(q))
        PROVE  FALSE
    <2>1. PICK i \in 1..Len(Tail(q)) : Tail(q)[i] = "SP_START_SESSION"
      BY <1>4 DEF Elems
    <2>2. q[1] = "SP_START_SESSION" /\ q[i + 1] = "SP_START_SESSION"
      BY <1>1, <1>4, <2>1
    <2>3. 1 \in 1..Len(q) /\ i + 1 \in 1..Len(q) /\ i + 1 # 1
      BY <1>1, <1>2
    <2> QED BY <2>2, <2>3 DEF OneStart
  <1> QED BY <1>3, <1>4

LEMMA OneStartStep ==
    ASSUME IInv, [Next]_vars, NEW t \in Sessions
    PROVE  /\ OneStart(ctrl'[t]) /\ OneStart(batch'[t])
           /\ "SP_START_SESSION" \notin Elems(ctrl'[t]) \cap Elems(batch'[t])
  <1>1. ctrl[t] \in Seq(Commands) /\ batch[t] \in Seq(Commands)
    BY DEF IInv, TypeOK
  <1>2. /\ OneStart(ctrl[t]) /\ OneStart(batch[t])
        /\ "SP_START_SESSION" \notin Elems(ctrl[t]) \cap Elems(batch[t])
    BY DEF IInv, StartInv
  <1>3. OneStart(<<>>) /\ Elems(<<>>) = {}
    BY ElemsType DEF OneStart
  <1>4. CASE /\ ConnectThreadUp(t)
             /\ ctrl'[t] = Append(ctrl[t], "SP_START_SESSION") /\ batch'[t] = batch[t]
    <2>1. "SP_START_SESSION" \notin Elems(ctrl[t]) \cup Elems(batch[t])
      BY <1>4 DEF ConnectThreadUp, IInv, StartInv
    <2>2. "SP_START_SESSION" \in Commands
      BY DEF Commands
    <2> QED BY <1>1, <1>2, <1>4, <2>1, <2>2, OneStartAppend
  <1>5. CASE ctrl'[t] = Append(ctrl[t], "SP_STOP_SESSION") /\ batch'[t] = batch[t]
    <2>1. "SP_STOP_SESSION" \in Commands
      BY DEF Commands
    <2>2. Elems(ctrl'[t]) = Elems(ctrl[t]) \cup {"SP_STOP_SESSION"}
      BY <1>1, <1>5, <2>1, ElemsAppend
    <2> QED BY <1>1, <1>2, <1>5, <2>1, <2>2, OneStartAppend
  <1>6. CASE ctrl'[t] = <<>> /\ batch[t] = <<>> /\ batch'[t] = ctrl[t]
    BY <1>2, <1>3, <1>6
  <1>7. CASE ctrl'[t] = ctrl[t] /\ batch[t] # <<>> /\ batch'[t] = Tail(batch[t])
    <2>1. OneStart(Tail(batch[t])) /\ Elems(Tail(batch[t])) \subseteq Elems(batch[t])
      BY <1>1, <1>2, <1>7, OneStartTail, ElemsTail
    <2> QED BY <1>2, <1>7, <2>1
  <1>8. CASE ctrl'[t] = ctrl[t] /\ batch'[t] = <<>>
    BY <1>2, <1>3, <1>8
  <1>9. CASE ctrl'[t] = ctrl[t] /\ batch'[t] = batch[t]
    BY <1>2, <1>9
  <1> QED BY <1>4, <1>5, <1>6, <1>7, <1>8, <1>9, QueueCases

LEMMA StartStep ==
    ASSUME IInv, [Next]_vars, NEW t \in Sessions
    PROVE  StartInv(t)'
  <1> USE DEF IInv, StartInv
  <1>1. \/ childHandle'[t]["childTCP"] = "none" <=> childHandle[t]["childTCP"] = "none"
        \/ StartSessionOk(t) \/ StartSessionFail(t)
    <2>1. CASE ~WorkChange(t)
      BY <2>1, WorkSame
    <2>2. CASE StopSession(t)
      <3>1. childHandle'[t]["childTCP"] =
                IF /\ "childTCP" \in StopHandles(t)
                   /\ childHandle[t]["childTCP"] \in {"open", "inert"}
                THEN "closingCb" ELSE childHandle[t]["childTCP"]
        BY <2>2, StopSessionType DEF ChildHandles
      <3> QED BY <3>1
    <2>3. ASSUME NEW h \in ChildHandles, CloseChildHandle(t, h)
          PROVE  childHandle'[t]["childTCP"] = "none" <=> childHandle[t]["childTCP"] = "none"
      <3>1. childHandle'[t] = [childHandle[t] EXCEPT ![h] = "closed"]
        BY <2>3 DEF CloseChildHandle, TypeOK
      <3>2. childHandle[t][h] # "none" /\ childHandle[t] \in [ChildHandles -> ChildStates]
        BY <2>3 DEF CloseChildHandle, TypeOK
      <3> QED BY <3>1, <3>2 DEF ChildHandles
    <2>4. CASE \/ SessionWorkThread(t) \/ ReadStreamFail(t)
               \/ ReChildLoopForSessionClear(t)
      BY <2>4 DEF SessionWorkThread, ReadStreamFail, ReChildLoopForSessionClear,
                  TypeOK, ChildHandles
    <2>5. CASE \/ ConnectOk(t) \/ ConnectThreadUp(t) \/ FreeSessionOpeate(t)
               \/ ReadCtrlFromMain(t) \/ AsyncSend(t) \/ LeaveChildLoop(t)
               \/ SessionWorkThreadEnd(t)
      BY <2>5 DEF ConnectOk, ConnectThreadUp, FreeSessionOpeate, ReadCtrlFromMain,
                  AsyncSend, LeaveChildLoop, SessionWorkThreadEnd
    <2> QED BY <2>1, <2>2, <2>3, <2>4, <2>5 DEF WorkChange, WorkerStep
  <1>2. mainWait' = t => childHandle'[t]["childTCP"] = "none"
    <2>1. CASE ConnectOk(t)
      <3>1. worker[t] = "none" /\ childHandle' = childHandle
        BY <2>1 DEF ConnectOk, WorkerInv
      <3> QED BY <3>1 DEF WorkerInv, ChildHandles
    <2>2. CASE ~ConnectOk(t)
      <3>1. mainWait' = t => mainWait = t
        BY <2>2, WaitSame
      <3>2. CASE StartSessionOk(t) \/ StartSessionFail(t)
        <4>1. "SP_START_SESSION" \in Elems(batch[t])
          BY <3>2, ElemsTail DEF StartSessionOk, StartSessionFail, Dispatching, TypeOK
        <4> QED BY <3>1, <4>1
      <3>3. CASE ~(StartSessionOk(t) \/ StartSessionFail(t))
        BY <1>1, <3>1, <3>3
      <3> QED BY <3>2, <3>3
    <2> QED BY <2>1, <2>2
  <1>3. \/ mainWait' = t
        \/ conn'[t] # "done"
        \/ childHandle'[t]["childTCP"] # "none"
        => "SP_START_SESSION" \notin Elems(ctrl'[t]) \cup Elems(batch'[t])
    <2>1. CASE StartSessionOk(t) \/ StartSessionFail(t)
      <3>1. /\ batch[t] \in Seq(Commands) /\ batch[t] # <<>>
            /\ Head(batch[t]) = "SP_START_SESSION"
            /\ ctrl'[t] = ctrl[t] /\ batch'[t] \in {Tail(batch[t]), <<>>}
        BY <2>1 DEF StartSessionOk, StartSessionFail, Dispatching, TypeOK
      <3>2. "SP_START_SESSION" \in Elems(batch[t])
        BY <3>1, ElemsTail
      <3>3. "SP_START_SESSION" \notin Elems(Tail(batch[t]))
        BY <3>1, OneStartTail
      <3> QED BY <3>1, <3>2, <3>3, ElemsType
    <2>2. CASE ConnectThreadUp(t)
      <3>1. mainWait' # t /\ conn'[t] = "done"
        BY <2>2, NoSessionAssumption
           DEF ConnectThreadUp, WorkerInv, TeardownInv, mainVars
      <3>2. childHandle'[t]["childTCP"] = "none"
        BY <2>2 DEF ConnectThreadUp
      <3> QED BY <3>1, <3>2
    <2>3. CASE ~(StartSessionOk(t) \/ StartSessionFail(t)) /\ ~ConnectThreadUp(t)
      <3>1. "SP_START_SESSION" \in Elems(ctrl'[t]) \cup Elems(batch'[t]) =>
                "SP_START_SESSION" \in Elems(ctrl[t]) \cup Elems(batch[t])
        BY <2>3, QueueElems
      <3>2. mainWait' = t => mainWait = t \/ conn[t] # "done"
        BY WaitSame DEF ConnectOk
      <3>3. conn'[t] # "done" => conn[t] # "done"
        BY MainMonotone
      <3> QED BY <1>1, <2>3, <3>1, <3>2, <3>3
    <2> QED BY <2>1, <2>2, <2>3
  <1>4. /\ OneStart(ctrl'[t]) /\ OneStart(batch'[t])
        /\ "SP_START_SESSION" \notin Elems(ctrl'[t]) \cap Elems(batch'[t])
    BY OneStartStep
  <1> HIDE DEF IInv
  <1> QED BY <1>2, <1>3, <1>4

\* uvHandleRef counts the close callbacks that are still to come on loopMain.
LEMMA HandleRefStep ==
    ASSUME IInv, [Next]_vars, NEW t \in Sessions
    PROVE  uvHandleRef'[t] =
               Cardinality({h \in MainHandles :
                                mainHandle'[t][h] \in {"open", "closingCb"}})
  <1> DEFINE S == {h \in MainHandles : mainHandle[t][h] \in {"open", "closingCb"}}
             T == {h \in MainHandles : mainHandle'[t][h] \in {"open", "closingCb"}}
  <1>0. uvHandleRef[t] = Cardinality(S) /\ IsFiniteSet(S)
    BY HandlesFinite, FS_Subset DEF IInv, RefsCountCallbacks
  <1>1. CASE ~MainChange(t)
    BY <1>0, <1>1, MainSame
  <1>2. CASE ConnectDaemon(t)
    <2>1. mainHandle'[t] = [h \in MainHandles |-> "open"] /\ uvHandleRef'[t] = 3
      BY <1>2 DEF ConnectDaemon, IInv, TypeOK
    <2>2. T = MainHandles
      BY <2>1
    <2>3. Cardinality(MainHandles) = 3
      BY MainCount DEF Has, MainHandles
    <2> QED BY <2>1, <2>2, <2>3
  <1>3. ASSUME FreeSessionContinue(t), stage[t] \in {"opeate", "waitChild"}
        PROVE  uvHandleRef'[t] = Cardinality(T)
    <2>1. \A h \in MainHandles : mainHandle[t][h] = "open"
      BY <1>3 DEF IInv, MainHandleInv, LifeInv
    <2>2. /\ \A h \in MainHandles : mainHandle'[t][h] = "closingCb"
          /\ uvHandleRef' = uvHandleRef
      BY <1>3, <2>1, FreeSessionContinueEffect DEF IInv
    <2>3. S = T
      BY <2>1, <2>2
    <2> QED BY <1>0, <2>2, <2>3
  <1>4. CASE FreeSessionOpeate(t)
    <2>1. CASE PollLoopSet(t)
      BY <1>0, <1>4, <2>1 DEF FreeSessionOpeate
    <2>2. CASE ~PollLoopSet(t)
      BY <1>3, <1>4, <2>2 DEF FreeSessionOpeate
    <2> QED BY <2>1, <2>2
  <1>5. CASE CheckFreeSessionContinue(t)
    BY <1>3, <1>5 DEF CheckFreeSessionContinue
  <1>6. ASSUME NEW h \in MainHandles, CloseMainHandle(t, h)
        PROVE  uvHandleRef'[t] = Cardinality(T)
    <2>1. mainHandle[t] \in [MainHandles -> MainStates]
      BY DEF IInv, TypeOK
    <2>2. mainHandle'[t] = [mainHandle[t] EXCEPT ![h] = "closed"]
      BY <1>6 DEF CloseMainHandle, IInv, TypeOK
    <2>3. h \in S /\ T = S \ {h}
      BY <1>6, <2>1, <2>2 DEF CloseMainHandle
    <2>4. uvHandleRef'[t] = uvHandleRef[t] - 1
      BY <1>6 DEF CloseMainHandle, IInv, TypeOK
    <2> QED BY <1>0, <2>3, <2>4, FS_RemoveElement
  <1>7. CASE \/ ConnectFail(t) \/ ConnectOk(t) \/ RemoveSession(t)
             \/ AsyncMainLoopTask(t) \/ FreeSessionFinally(t)
    BY <1>0, <1>7 DEF ConnectFail, ConnectOk, RemoveSession, AsyncMainLoopTask,
                      FreeSessionFinally
  <1> QED
    BY <1>1, <1>2, <1>4, <1>5, <1>6, <1>7 DEF MainChange

\* uvChildRef counts those of the child loop.
LEMMA ChildRefStep ==
    ASSUME IInv, [Next]_vars, NEW t \in Sessions
    PROVE  uvChildRef'[t] =
               Cardinality({h \in ChildHandles : childHandle'[t][h] = "closingCb"})
  <1> DEFINE S == {h \in ChildHandles : childHandle[t][h] = "closingCb"}
             T == {h \in ChildHandles : childHandle'[t][h] = "closingCb"}
  <1>0. uvChildRef[t] = Cardinality(S) /\ IsFiniteSet(S)
    BY HandlesFinite, FS_Subset DEF IInv, RefsCountCallbacks
  <1>1. CASE ~WorkChange(t)
    BY <1>0, <1>1, WorkSame
  <1>2. CASE StopSession(t)
    <2> DEFINE H == StopHandles(t)
               K == {h \in H : childHandle[t][h] \notin {"open", "inert"}}
               closing == [h \in H |-> childHandle[t][h]]
    <2>1. H \subseteq ChildHandles /\ K \subseteq ChildHandles
      BY DEF StopHandles, ChildHandles
    <2>2. Skipped(closing) = Cardinality(K)
      BY DEF Skipped
    <2>3. uvChildRef'[t] = Cardinality(S) + Cardinality(H) - Cardinality(K)
      <3>1. uvChildRef' = [uvChildRef EXCEPT ![t] = ChildRefLeft(t)] /\ TypeOK
        BY <1>2, StopSessionType DEF IInv
      <3>2. uvChildRef'[t] = ChildRefLeft(t)
        BY <3>1 DEF TypeOK
      <3>3. ChildRefLeft(t) = uvChildRef[t] + Cardinality(H) - Skipped(closing)
        BY DEF ChildRefLeft
      <3> HIDE DEF S, H, K, closing
      <3> QED BY <1>0, <2>2, <3>2, <3>3
    <2>4. \A h \in ChildHandles :
              childHandle'[t][h] =
                  IF h \in H /\ childHandle[t][h] \in {"open", "inert"}
                  THEN "closingCb" ELSE childHandle[t][h]
      BY <1>2, StopSessionType DEF IInv
    <2>5. \A h \in ChildHandles : Has(T, h) = Has(S, h) + Has(H, h) - Has(K, h)
      BY <2>4 DEF Has
    <2>6. /\ Cardinality(S) = Has(S, "childTCP") + Has(S, "pollWork") + Has(S, "pipeWork")
          /\ Cardinality(T) = Has(T, "childTCP") + Has(T, "pollWork") + Has(T, "pipeWork")
          /\ Cardinality(H) = Has(H, "childTCP") + Has(H, "pollWork") + Has(H, "pipeWork")
          /\ Cardinality(K) = Has(K, "childTCP") + Has(K, "pollWork") + Has(K, "pipeWork")
      BY <2>1, ChildCount
    <2>7. /\ Has(T, "childTCP") = Has(S, "childTCP") + Has(H, "childTCP") - Has(K, "childTCP")
          /\ Has(T, "pollWork") = Has(S, "pollWork") + Has(H, "pollWork") - Has(K, "pollWork")
          /\ Has(T, "pipeWork") = Has(S, "pipeWork") + Has(H, "pipeWork") - Has(K, "pipeWork")
      BY <2>5 DEF ChildHandles
    <2>8. \A x \in ChildHandles :
              Has(S, x) \in Int /\ Has(H, x) \in Int /\ Has(K, x) \in Int
      BY DEF Has
    <2>9. /\ Has(S, "childTCP") \in Int /\ Has(H, "childTCP") \in Int /\ Has(K, "childTCP") \in Int
          /\ Has(S, "pollWork") \in Int /\ Has(H, "pollWork") \in Int /\ Has(K, "pollWork") \in Int
          /\ Has(S, "pipeWork") \in Int /\ Has(H, "pipeWork") \in Int /\ Has(K, "pipeWork") \in Int
      BY <2>8 DEF ChildHandles
    <2>10. uvChildRef'[t] = Has(T, "childTCP") + Has(T, "pollWork") + Has(T, "pipeWork")
      <3> HIDE DEF S, T, H, K
      <3> QED BY <2>3, <2>6, <2>7, <2>9
    <2>11. uvChildRef'[t] = Cardinality(T)
      BY <2>6, <2>10
    <2> QED BY <2>11
  <1>3. ASSUME NEW h \in ChildHandles, CloseChildHandle(t, h)
        PROVE  uvChildRef'[t] = Cardinality(T)
    <2>1. childHandle[t] \in [ChildHandles -> ChildStates]
      BY DEF IInv, TypeOK
    <2>2. childHandle'[t] = [childHandle[t] EXCEPT ![h] = "closed"]
      BY <1>3 DEF CloseChildHandle, IInv, TypeOK
    <2>3. CASE childHandle[t][h] = "closingCb"
      <3>1. h \in S /\ T = S \ {h}
        BY <2>1, <2>2, <2>3
      <3>2. uvChildRef'[t] = uvChildRef[t] - 1
        BY <1>3, <2>3 DEF CloseChildHandle, IInv, TypeOK
      <3> QED BY <1>0, <3>1, <3>2, FS_RemoveElement
    <2>4. CASE childHandle[t][h] # "closingCb"
      <3>1. T = S
        BY <2>1, <2>2, <2>4
      <3>2. uvChildRef' = uvChildRef
        BY <1>3, <2>4 DEF CloseChildHandle
      <3> QED BY <1>0, <3>1, <3>2
    <2> QED BY <2>3, <2>4
  <1>4. ASSUME NEW g \in ChildHandles, childHandle[t][g] # "closingCb",
               NEW v \in ChildStates, v # "closingCb",
               childHandle' = [childHandle EXCEPT ![t][g] = v],
               uvChildRef' = uvChildRef
        PROVE  uvChildRef'[t] = Cardinality(T)
    <2>1. childHandle[t] \in [ChildHandles -> ChildStates]
      BY DEF IInv, TypeOK
    <2>2. childHandle'[t] = [childHandle[t] EXCEPT ![g] = v]
      BY <1>4 DEF IInv, TypeOK
    <2>3. T = S
      BY <1>4, <2>1, <2>2
    <2> QED BY <1>0, <1>4, <2>3
  <1>5. CASE SessionWorkThread(t)
    BY <1>4, <1>5 DEF SessionWorkThread, IInv, WorkerInv, ChildHandles, ChildStates
  <1>6. CASE StartSessionOk(t) \/ StartSessionFail(t)
    <2>1. childHandle[t]["childTCP"] = "none"
      <3>1. "SP_START_SESSION" \in Elems(batch[t])
        BY <1>6, ElemsTail
           DEF StartSessionOk, StartSessionFail, Dispatching, IInv, TypeOK
      <3> QED BY <3>1 DEF IInv, StartInv
    <2> QED BY <1>4, <1>6, <2>1
            DEF StartSessionOk, StartSessionFail, ChildHandles, ChildStates
  <1>7. CASE ReadStreamFail(t)
    BY <1>4, <1>7 DEF ReadStreamFail, ChildHandles, ChildStates
  <1>8. CASE ReChildLoopForSessionClear(t)
    <2>1. S = {} /\ T = {}
      BY <1>8 DEF ReChildLoopForSessionClear, IInv, TypeOK
    <2>2. uvChildRef' = uvChildRef
      BY <1>8 DEF ReChildLoopForSessionClear
    <2> QED BY <1>0, <2>1, <2>2
  <1>9. CASE \/ ConnectOk(t) \/ ConnectThreadUp(t) \/ FreeSessionOpeate(t)
             \/ ReadCtrlFromMain(t) \/ AsyncSend(t) \/ LeaveChildLoop(t)
             \/ SessionWorkThreadEnd(t)
    BY <1>0, <1>9 DEF ConnectOk, ConnectThreadUp, FreeSessionOpeate,
                      ReadCtrlFromMain, AsyncSend, LeaveChildLoop,
                      SessionWorkThreadEnd
  <1> QED
    BY <1>1, <1>2, <1>3, <1>5, <1>6, <1>7, <1>8, <1>9 DEF WorkChange, WorkerStep

LEMMA RefsStep == IInv /\ [Next]_vars => RefsCountCallbacks'
  BY HandleRefStep, ChildRefStep DEF RefsCountCallbacks

-----------------------------------------------------------------------------
(* The inductive invariant *)

LEMMA InvInit == Init => IInv
  <1> SUFFICES ASSUME Init PROVE IInv
    OBVIOUS
  <1>1. TypeOK
    BY TypeInit
  <1>2. RefsCountCallbacks
    <2>1. ASSUME NEW s \in Sessions
          PROVE  /\ {h \in MainHandles : mainHandle[s][h] \in {"open", "closingCb"}} = {}
                 /\ {h \in ChildHandles : childHandle[s][h] = "closingCb"} = {}
                 /\ uvHandleRef[s] = 0 /\ uvChildRef[s] = 0
      BY DEF Init
    <2> QED BY <2>1, FS_EmptySet DEF RefsCountCallbacks
  <1>3. ASSUME NEW s \in Sessions
        PROVE  /\ LifeInv(s) /\ MainHandleInv(s) /\ WorkerInv(s)
               /\ TeardownInv(s) /\ StopInv(s) /\ StartInv(s)
    <2>1. ctrl[s] = <<>> /\ batch[s] = <<>> /\ Elems(<<>>) = {} /\ OneStart(<<>>)
      BY DEF Init, Elems, OneStart
    <2>2. mainWait # s
      BY NoSessionAssumption DEF Init
    <2>3. conn[s] = "none" /\ stage[s] = "none" /\ worker[s] = "none"
      BY DEF Init
    <2>4. LifeInv(s) /\ TeardownInv(s)
      BY <2>2, <2>3 DEF Init, LifeInv, TeardownInv
    <2>5. MainHandleInv(s)
      BY <2>3 DEF Init, MainHandleInv, MainHandles
    <2>6. WorkerInv(s)
      BY <2>3 DEF Init, WorkerInv, ChildHandles
    <2>7. StopInv(s) /\ StartInv(s)
      BY <2>1, <2>2, <2>3 DEF Init, StopInv, StartInv, ChildHandles
    <2> QED BY <2>4, <2>5, <2>6, <2>7
  <1> QED BY <1>1, <1>2, <1>3 DEF IInv

LEMMA InvStep == IInv /\ [Next]_vars => IInv'
  <1> SUFFICES ASSUME IInv, [Next]_vars PROVE IInv'
    OBVIOUS
  <1>1. TypeOK' /\ RefsCountCallbacks'
    BY TypeStep, RefsStep DEF IInv
  <1>2. ASSUME NEW s \in Sessions
        PROVE  /\ LifeInv(s)' /\ MainHandleInv(s)' /\ WorkerInv(s)'
               /\ TeardownInv(s)' /\ StopInv(s)' /\ StartInv(s)'
    BY LifeStep, MainHandleStep, WorkerInvStep, TeardownStep, StopStep, StartStep
  <1> QED BY <1>1, <1>2 DEF IInv

\* The inductive invariant holds of every behaviour: the session's flags, its
\* handles on the two loops, the worker's state and the commands between the two
\* threads fit together, for any number of sessions.
THEOREM InvariantHolds == Spec => []IInv
  BY InvInit, InvStep, PTL DEF Spec

\* A worker thread that can still run a callback of its session finds the session
\* alive: no use after delete by a callback of the child loop.
THEOREM WorkerHasSessionHolds == Spec => []WorkerHasSession
  <1>1. ASSUME IInv, NEW s \in Sessions, worker[s] \in {"queued", "run", "reclear"}
        PROVE  s \in mapSession /\ s \notin freed
    BY <1>1 DEF IInv, LifeInv, WorkerInv, TeardownInv
  <1>2. IInv => WorkerHasSession
    BY <1>1 DEF WorkerHasSession
  <1> QED BY <1>2, InvariantHolds, PTL

\* No handle of a deleted session is open or closing on either loop, and Connect
\* neither waits for it nor can be called for it.
THEOREM FreedHasNoHandleHolds == Spec => []FreedHasNoHandle
  <1>1. ASSUME IInv, NEW s \in freed
        PROVE  /\ \A h \in MainHandles : mainHandle[s][h] = "closed"
               /\ \A h \in ChildHandles : childHandle[s][h] \in {"none", "closed"}
               /\ conn[s] = "done"
               /\ mainWait # s
    <2>1. s \in Sessions /\ stage[s] = "done"
      BY <1>1 DEF IInv, TypeOK, LifeInv
    <2>2. \A h \in MainHandles : mainHandle[s][h] = "closed"
      BY <1>1, <2>1 DEF IInv, MainHandleInv
    <2>3. conn[s] = "done" /\ mainWait # s
      BY <1>1, <2>1, <2>2 DEF IInv, MainHandleInv, TeardownInv, MainHandles
    <2>4. worker[s] \in {"none", "cleared", "exited"}
      BY <1>1, <2>1 DEF IInv, TeardownInv
    <2>5. \A h \in ChildHandles : childHandle[s][h] \in {"none", "closed"}
      BY <1>1, <2>1, <2>4 DEF IInv, WorkerInv
    <2> QED BY <2>2, <2>3, <2>5
  <1>2. IInv => FreedHasNoHandle
    BY <1>1 DEF FreedHasNoHandle
  <1> QED BY <1>2, InvariantHolds, PTL

\* The two reference counters count the close callbacks still to come.
THEOREM RefsCountCallbacksHolds == Spec => []RefsCountCallbacks
  <1>1. IInv => RefsCountCallbacks
    BY DEF IInv
  <1> QED BY <1>1, InvariantHolds, PTL

-----------------------------------------------------------------------------
(* Requests on their way to the main thread *)

\* A request in lstMainThreadOP always has its wake-up: pending, or about to be
\* sent by the worker that appended it.
THEOREM NoLostWakeupHolds == Spec => []NoLostWakeup
  <1>1. Init => NoLostWakeup
    BY DEF Init, NoLostWakeup
  <1>2. ASSUME IInv, NoLostWakeup, [Next]_vars
        PROVE  NoLostWakeup'
    <2>1. CASE UNCHANGED <<lstMainThreadOP, asyncPending, pushing>>
      BY <1>2, <2>1 DEF NoLostWakeup
    <2>2. CASE MainAsyncCallback
      BY <2>2 DEF MainAsyncCallback, NoLostWakeup
    <2>3. ASSUME NEW s \in Sessions, ReadStreamFail(s)
          PROVE  NoLostWakeup'
      <3>1. pushing'[s]
        BY <1>2, <2>3 DEF ReadStreamFail, IInv, TypeOK
      <3> QED BY <3>1 DEF NoLostWakeup
    <2>4. ASSUME NEW s \in Sessions, AsyncSend(s)
          PROVE  NoLostWakeup'
      BY <2>4 DEF AsyncSend, NoLostWakeup
    <2>5. \/ UNCHANGED <<lstMainThreadOP, asyncPending, pushing>>
          \/ MainAsyncCallback
          \/ \E s \in Sessions : ReadStreamFail(s) \/ AsyncSend(s)
      BY <1>2
         DEF Next, MainStep, WorkerStep, Environment, vars, loopVars, workVars,
             ConnectThreadUp, AsyncMainLoopTask, FreeSessionOpeate,
             CheckFreeSessionContinue, CloseMainHandle, FreeSessionFinally,
             SessionWorkThread, ReadCtrlFromMain, StartSessionOk,
             StartSessionFail, StopSession, CloseChildHandle, LeaveChildLoop,
             ReChildLoopForSessionClear, SessionWorkThreadEnd, ConnectDaemon,
             ConnectFail, ConnectOk, RemoveSession
    <2> QED BY <2>1, <2>2, <2>3, <2>4, <2>5
  <1>3. IInv /\ NoLostWakeup /\ [Next]_vars => NoLostWakeup'
    BY <1>2
  <1> QED BY <1>1, <1>3, InvariantHolds, PTL DEF Spec

-----------------------------------------------------------------------------
(* Action properties *)

\* FreeSessionContinue runs only for a session whose worker has cleared its loop
\* or will never be started.
THEOREM ContinueWithoutWorkerHolds == Spec => ContinueWithoutWorker
  <1>1. ASSUME IInv, IInv', [Next]_vars, NEW s \in Sessions,
               stage[s] # "finally", stage'[s] = "finally"
        PROVE  childCleared[s] \/ (worker'[s] = "none" /\ mainWait # s)
    <2>1. worker'[s] \in {"none", "cleared", "exited"}
      BY <1>1 DEF IInv, TeardownInv
    <2>2. MainChange(s)
      BY <1>1, MainSame
    <2>3. UNCHANGED <<worker, childCleared, mainWait>>
      BY <1>1, <2>2
         DEF MainChange, loopVars, workVars, ConnectDaemon, ConnectFail, ConnectOk,
             RemoveSession, AsyncMainLoopTask, FreeSessionOpeate,
             CheckFreeSessionContinue, CloseMainHandle, FreeSessionFinally,
             FreeSession, IInv, TypeOK
    <2>4. childCleared[s] \/ worker'[s] = "none"
      BY <1>1, <2>1, <2>3 DEF IInv, WorkerInv
    <2>5. mainWait # s
      BY <1>1, <2>3 DEF IInv, TeardownInv
    <2> QED BY <2>4, <2>5
  <1>2. IInv /\ IInv' /\ [Next]_vars =>
            [\A s \in Sessions :
                stage[s] # "finally" /\ stage'[s] = "finally" =>
                    \/ childCleared[s]
                    \/ worker'[s] = "none" /\ mainWait # s]_vars
    BY <1>1
  <1> QED BY <1>2, InvariantHolds, PTL DEF Spec, ContinueWithoutWorker

\* What a step can do to a session's teardown: nothing, or its next stage.
LEMMA StageStep ==
    ASSUME IInv, [Next]_vars, NEW t \in Sessions
    PROVE  \/ stage'[t] = stage[t] /\ isDead'[t] = isDead[t] /\ (t \in freed' <=> t \in freed)
           \/ stage[t] = "none" /\ ~isDead[t] /\ stage'[t] = "opeate" /\ isDead'[t]
                /\ t \in mapSession /\ (t \in freed' <=> t \in freed)
           \/ stage[t] = "opeate" /\ stage'[t] \in {"waitChild", "finally"}
                /\ isDead'[t] = isDead[t] /\ (t \in freed' <=> t \in freed)
           \/ stage[t] = "waitChild" /\ stage'[t] = "finally"
                /\ isDead'[t] = isDead[t] /\ (t \in freed' <=> t \in freed)
           \/ stage[t] = "finally" /\ stage'[t] = "done" /\ FreeSessionFinally(t)
  <1> DEFINE Same == /\ stage'[t] = stage[t] /\ isDead'[t] = isDead[t]
                     /\ t \in freed' <=> t \in freed
             Started == /\ stage[t] = "none" /\ ~isDead[t] /\ stage'[t] = "opeate"
                        /\ isDead'[t] /\ t \in mapSession /\ (t \in freed' <=> t \in freed)
             Waiting == /\ stage[t] = "opeate" /\ stage'[t] \in {"waitChild", "finally"}
                        /\ isDead'[t] = isDead[t] /\ (t \in freed' <=> t \in freed)
             Continued == /\ stage[t] = "waitChild" /\ stage'[t] = "finally"
                          /\ isDead'[t] = isDead[t] /\ (t \in freed' <=> t \in freed)
             Freed == stage[t] = "finally" /\ stage'[t] = "done" /\ FreeSessionFinally(t)
  <1>0. TypeOK /\ LifeInv(t)
    BY DEF IInv
  <1>1. CASE UNCHANGED mainVars \/ \E s \in Sessions : MainChange(s) /\ s # t
    BY <1>0, <1>1, MainFrame DEF mainVars
  <1>2. CASE ConnectDaemon(t) \/ ConnectOk(t)
    BY <1>2 DEF ConnectDaemon, ConnectOk
  <1>3. ASSUME FreeSession(t), freed' = freed
        PROVE  Same \/ Started
    BY <1>0, <1>3, FreeSessionEffect DEF LifeInv
  <1>4. CASE ConnectFail(t) \/ RemoveSession(t) \/ AsyncMainLoopTask(t)
    BY <1>3, <1>4 DEF ConnectFail, RemoveSession, AsyncMainLoopTask
  <1>5. CASE \E h \in MainHandles : CloseMainHandle(t, h)
    BY <1>3, <1>5 DEF CloseMainHandle
  <1>6. CASE FreeSessionOpeate(t)
    <2>1. stage[t] = "opeate" /\ isDead' = isDead /\ freed' = freed
      BY <1>6 DEF FreeSessionOpeate
    <2>2. stage'[t] \in {"waitChild", "finally"}
      BY <1>0, <1>6 DEF FreeSessionOpeate, FreeSessionContinue, TypeOK
    <2> QED BY <2>1, <2>2
  <1>7. CASE CheckFreeSessionContinue(t)
    BY <1>0, <1>7 DEF CheckFreeSessionContinue, FreeSessionContinue, TypeOK
  <1>8. CASE FreeSessionFinally(t)
    BY <1>0, <1>8 DEF FreeSessionFinally, TypeOK
  <1>9. \/ UNCHANGED mainVars
        \/ \E s \in Sessions : MainChange(s) /\ s # t
        \/ MainChange(t)
    BY MainCases
  <1> HIDE DEF Same, Started, Waiting, Continued, Freed
  <1>10. Same \/ Started \/ Waiting \/ Continued \/ Freed
    <2>1. CASE MainChange(t)
      BY <2>1, <1>2, <1>4, <1>5, <1>6, <1>7, <1>8
         DEF MainChange, Same, Started, Waiting, Continued, Freed
    <2>2. CASE ~MainChange(t)
      BY <1>1, <1>9, <2>2 DEF Same, Started, Waiting, Continued, Freed
    <2> QED BY <2>1, <2>2
  <1> QED BY <1>10 DEF Same, Started, Waiting, Continued, Freed

\* The teardown of a session is started once and never starts over, and a deleted
\* session is not found again.
THEOREM TeardownOnceHolds == Spec => TeardownOnce
  <1>1. ASSUME IInv, IInv', [Next]_vars, NEW s \in Sessions
        PROVE  /\ StageOrder[stage'[s]] >= StageOrder[stage[s]]
               /\ isDead[s] => isDead'[s]
               /\ s \in freed => s \notin mapSession'
    <2>1. \/ stage'[s] = stage[s]
          \/ stage[s] = "none" /\ stage'[s] = "opeate"
          \/ stage[s] = "opeate" /\ stage'[s] \in {"waitChild", "finally"}
          \/ stage[s] = "waitChild" /\ stage'[s] = "finally"
          \/ stage[s] = "finally" /\ stage'[s] = "done"
      BY <1>1, StageStep
    <2>2. stage[s] \in Stages /\ stage'[s] \in Stages
      BY <1>1 DEF IInv, TypeOK
    <2>3. StageOrder[stage'[s]] >= StageOrder[stage[s]]
      BY <2>1, <2>2 DEF Stages, StageOrder
    <2>4. isDead[s] => isDead'[s]
      BY <1>1, MainMonotone
    <2>5. ASSUME s \in freed PROVE s \notin mapSession'
      <3>1. stage[s] = "done"
        BY <1>1, <2>5 DEF IInv, LifeInv
      <3>2. stage'[s] = "done"
        BY <2>1, <3>1
      <3> QED BY <1>1, <3>2 DEF IInv, LifeInv
    <2> QED BY <2>3, <2>4, <2>5
  <1>2. IInv /\ IInv' /\ [Next]_vars =>
            [\A s \in Sessions :
                /\ StageOrder[stage'[s]] >= StageOrder[stage[s]]
                /\ isDead[s] => isDead'[s]
                /\ s \in freed => s \notin mapSession']_vars
    BY <1>1
  <1> QED BY <1>2, InvariantHolds, PTL DEF Spec, TeardownOnce

-----------------------------------------------------------------------------
(* The cache of deleted ids *)

\* Every request was made by a session's worker, so its session was opened.
RequestsAreOpened ==
    \A s \in idleOps \cup Elems(lstMainThreadOP) : conn[s] = "done"

LEMMA RequestsStep ==
    ASSUME IInv, RequestsAreOpened, [Next]_vars
    PROVE  RequestsAreOpened'
  <1>1. idleOps \cup Elems(lstMainThreadOP) \subseteq Sessions
    BY ElemsType DEF IInv, TypeOK
  <1>2. \A s \in Sessions : conn[s] = "done" => conn'[s] = "done"
    BY MainMonotone
  <1>3. CASE UNCHANGED <<idleOps, lstMainThreadOP>>
    BY <1>1, <1>2, <1>3 DEF RequestsAreOpened
  <1>4. CASE MainAsyncCallback
    <2>1. Elems(<<>>) = {}
      BY DEF Elems
    <2> QED BY <1>1, <1>2, <1>4, <2>1 DEF RequestsAreOpened, MainAsyncCallback
  <1>5. ASSUME NEW s \in Sessions, AsyncMainLoopTask(s)
        PROVE  RequestsAreOpened'
    BY <1>1, <1>2, <1>5 DEF RequestsAreOpened, AsyncMainLoopTask
  <1>6. ASSUME NEW s \in Sessions, ReadStreamFail(s)
        PROVE  RequestsAreOpened'
    <2>1. conn[s] = "done"
      BY <1>6 DEF ReadStreamFail, IInv, WorkerInv
    <2>2. Elems(lstMainThreadOP') = Elems(lstMainThreadOP) \cup {s}
      BY <1>6, ElemsAppend DEF ReadStreamFail, IInv, TypeOK
    <2> QED BY <1>1, <1>2, <1>6, <2>1, <2>2 DEF RequestsAreOpened, ReadStreamFail
  <1>7. \/ UNCHANGED <<idleOps, lstMainThreadOP>>
        \/ MainAsyncCallback
        \/ \E s \in Sessions : AsyncMainLoopTask(s) \/ ReadStreamFail(s)
    BY DEF Next, MainStep, WorkerStep, Environment, vars, loopVars,
           ConnectThreadUp, FreeSessionOpeate, CheckFreeSessionContinue,
           CloseMainHandle, FreeSessionFinally, SessionWorkThread,
           ReadCtrlFromMain, StartSessionOk, StartSessionFail, StopSession,
           CloseChildHandle, AsyncSend, LeaveChildLoop,
           ReChildLoopForSessionClear, SessionWorkThreadEnd, ConnectDaemon,
           ConnectFail, ConnectOk, RemoveSession
  <1> QED BY <1>3, <1>4, <1>5, <1>6, <1>7

LEMMA AddDeletedElems ==
    ASSUME TypeOK, NEW s \in Sessions, AddDeletedSessionId(s)
    PROVE  Elems(deletedIds') \subseteq Elems(deletedIds) \cup {s}
  <1>0. deletedIds \in Seq(Sessions) /\ MaxDeleted \in Nat \ {0}
    BY MaxDeletedAssumption DEF TypeOK
  <1>1. CASE deletedIds' = deletedIds
    BY <1>1
  <1>2. CASE deletedIds' = Append(deletedIds, s)
    BY <1>0, <1>2, ElemsAppend
  <1>3. CASE deletedIds' = Append(Tail(deletedIds), s) /\ ~(Len(deletedIds) < MaxDeleted)
    <2> DEFINE rest == Tail(deletedIds)
    <2>1. Len(deletedIds) \in Nat
      BY <1>0, LenProperties
    <2>2. deletedIds # <<>>
      BY <1>0, <1>3, <2>1
    <2>3. rest \in Seq(Sessions) /\ Elems(rest) \subseteq Elems(deletedIds)
      BY <1>0, <2>2, ElemsTail
    <2> HIDE DEF rest
    <2>4. Elems(Append(rest, s)) = Elems(rest) \cup {s}
      BY <2>3, ElemsAppend
    <2>5. deletedIds' = Append(rest, s)
      BY <1>3 DEF rest
    <2> QED BY <2>3, <2>4, <2>5
  <1> QED BY <1>1, <1>2, <1>3 DEF AddDeletedSessionId

LEMMA CachedStep ==
    ASSUME IInv, RequestsAreOpened, CachedIdIsDoomed, [Next]_vars
    PROVE  CachedIdIsDoomed'
  <1>0. TypeOK /\ Elems(deletedIds) \subseteq Sessions
    BY ElemsType DEF IInv, TypeOK
  <1>1. \A s \in Sessions : isDead[s] => isDead'[s]
    BY MainMonotone
  <1>2. CASE UNCHANGED <<deletedIds, idleOps, lstMainThreadOP>>
    BY <1>0, <1>1, <1>2 DEF CachedIdIsDoomed
  <1>3. CASE MainAsyncCallback
    BY <1>0, <1>1, <1>3 DEF CachedIdIsDoomed, MainAsyncCallback
  <1>4. ASSUME NEW s \in Sessions, FreeSession(s), idleOps \ {s} \subseteq idleOps',
               lstMainThreadOP' = lstMainThreadOP, conn[s] # "none"
        PROVE  CachedIdIsDoomed'
    <2>1. isDead'[s]
      <3>1. isDead[s] \/ s \in mapSession
        BY <1>4 DEF IInv, LifeInv
      <3> QED BY <1>0, <1>1, <1>4, <3>1, FreeSessionEffect
    <2>2. Elems(deletedIds') \subseteq Elems(deletedIds) \cup {s}
      BY <1>0, <1>4, AddDeletedElems DEF FreeSession
    <2> QED BY <1>0, <1>1, <1>4, <2>1, <2>2 DEF CachedIdIsDoomed
  <1>5. ASSUME NEW s \in Sessions, ReadStreamFail(s)
        PROVE  CachedIdIsDoomed'
    <2>1. Elems(deletedIds') \subseteq Elems(deletedIds) \cup {s}
      BY <1>0, <1>5, AddDeletedElems DEF ReadStreamFail
    <2>2. Elems(lstMainThreadOP') = Elems(lstMainThreadOP) \cup {s}
      BY <1>0, <1>5, ElemsAppend DEF ReadStreamFail, TypeOK
    <2>3. idleOps' = idleOps
      BY <1>5 DEF ReadStreamFail
    <2> QED BY <1>0, <1>1, <2>1, <2>2, <2>3 DEF CachedIdIsDoomed
  <1>6. ASSUME NEW s \in Sessions, ConnectFail(s) \/ RemoveSession(s)
        PROVE  CachedIdIsDoomed'
    <2>1. conn[s] # "none"
      BY <1>6 DEF ConnectFail, RemoveSession, IInv, LifeInv
    <2> QED BY <1>4, <1>6, <2>1 DEF ConnectFail, RemoveSession
  <1>7. ASSUME NEW s \in Sessions, AsyncMainLoopTask(s)
        PROVE  CachedIdIsDoomed'
    BY <1>4, <1>7 DEF AsyncMainLoopTask, RequestsAreOpened
  <1>8. ASSUME NEW s \in Sessions, NEW h \in MainHandles, CloseMainHandle(s, h)
        PROVE  CachedIdIsDoomed'
    <2>1. CASE h = "workTCP" /\ conn[s] = "pending"
      BY <1>4, <1>8, <2>1 DEF CloseMainHandle
    <2>2. CASE ~(h = "workTCP" /\ conn[s] = "pending")
      BY <1>2, <1>8, <2>2 DEF CloseMainHandle
    <2> QED BY <2>1, <2>2
  <1>9. \/ UNCHANGED <<deletedIds, idleOps, lstMainThreadOP>>
        \/ MainAsyncCallback
        \/ \E s \in Sessions :
               \/ ConnectFail(s) \/ RemoveSession(s) \/ AsyncMainLoopTask(s)
               \/ \E h \in MainHandles : CloseMainHandle(s, h)
               \/ ReadStreamFail(s)
    BY DEF Next, MainStep, WorkerStep, Environment, vars, loopVars,
           ConnectThreadUp, FreeSessionOpeate, CheckFreeSessionContinue,
           FreeSessionFinally, SessionWorkThread, ReadCtrlFromMain,
           StartSessionOk, StartSessionFail, StopSession, CloseChildHandle,
           AsyncSend, LeaveChildLoop, ReChildLoopForSessionClear,
           SessionWorkThreadEnd, ConnectDaemon, ConnectOk
  <1> QED BY <1>2, <1>3, <1>5, <1>6, <1>7, <1>8, <1>9

\* The cache of deleted ids names only sessions that are dead or about to be, so
\* SendToAnother never refuses a task of a healthy session.
THEOREM CachedIdIsDoomedHolds == Spec => []CachedIdIsDoomed
  <1>1. Init => RequestsAreOpened /\ CachedIdIsDoomed
    <2>1. Elems(<<>>) = {}
      BY DEF Elems
    <2> QED BY <2>1 DEF Init, RequestsAreOpened, CachedIdIsDoomed
  <1>2. IInv /\ RequestsAreOpened /\ CachedIdIsDoomed /\ [Next]_vars
            => RequestsAreOpened' /\ CachedIdIsDoomed'
    BY RequestsStep, CachedStep
  <1> QED BY <1>1, <1>2, InvariantHolds, PTL DEF Spec

-----------------------------------------------------------------------------
(* Refinement of SessionLife *)

LEMMA LifeInitMaps == Init => Life!Init
  BY DEF Init, Life!Init, lifeOf, workerOf

\* The abstract value of a session depends on its own variables only.
LEMMA LifeStutters ==
    ASSUME NEW s \in Sessions,
           \A t \in Sessions : t # s =>
               lifeOf'[t] = lifeOf[t] /\ workerOf'[t] = workerOf[t]
    PROVE  /\ lifeOf' = [lifeOf EXCEPT ![s] = lifeOf'[s]]
           /\ workerOf' = [workerOf EXCEPT ![s] = workerOf'[s]]
  BY DEF lifeOf, workerOf

\* Every step is one step of the abstract life of one session, or invisible.
LEMMA LifeStepMaps ==
    ASSUME IInv, IInv', [Next]_vars
    PROVE  Life!Next \/ UNCHANGED Life!vars
  <1>0. TypeOK
    BY DEF IInv
  <1>1. ASSUME NEW s \in Sessions,
               \A t \in Sessions : t # s =>
                   lifeOf'[t] = lifeOf[t] /\ workerOf'[t] = workerOf[t],
               \/ lifeOf'[s] = lifeOf[s] /\ workerOf'[s] = workerOf[s]
               \/ lifeOf[s] = "none" /\ lifeOf'[s] = "live" /\ workerOf'[s] = workerOf[s]
               \/ lifeOf[s] = "live" /\ lifeOf'[s] = "dead" /\ workerOf'[s] = workerOf[s]
               \/ lifeOf[s] = "dead" /\ lifeOf'[s] = "freed" /\ workerOf'[s] = workerOf[s]
                      /\ workerOf[s] # "running"
               \/ lifeOf'[s] = lifeOf[s] /\ lifeOf[s] \in {"live", "dead"}
                      /\ workerOf[s] = "none" /\ workerOf'[s] = "running"
               \/ lifeOf'[s] = lifeOf[s] /\ lifeOf[s] = "dead"
                      /\ workerOf[s] = "running" /\ workerOf'[s] = "finished"
        PROVE  Life!Next \/ UNCHANGED Life!vars
    <2>1. /\ lifeOf' = [lifeOf EXCEPT ![s] = lifeOf'[s]]
          /\ workerOf' = [workerOf EXCEPT ![s] = workerOf'[s]]
      BY <1>1, LifeStutters
    <2>2. /\ lifeOf'[s] = lifeOf[s] => lifeOf' = lifeOf
          /\ workerOf'[s] = workerOf[s] => workerOf' = workerOf
      <3>1. ASSUME lifeOf'[s] = lifeOf[s] PROVE lifeOf' = lifeOf
        <4>1. \A t \in Sessions : lifeOf'[t] = lifeOf[t]
          BY <1>1, <3>1
        <4> QED BY <4>1 DEF lifeOf
      <3>2. ASSUME workerOf'[s] = workerOf[s] PROVE workerOf' = workerOf
        <4>1. \A t \in Sessions : workerOf'[t] = workerOf[t]
          BY <1>1, <3>2
        <4> QED BY <4>1 DEF workerOf
      <3> QED BY <3>1, <3>2
    <2>3. \/ UNCHANGED Life!vars
          \/ Life!Open(s) \/ Life!Kill(s) \/ Life!Free(s)
          \/ Life!StartWorker(s) \/ Life!FinishWorker(s)
      BY <1>1, <2>1, <2>2
         DEF Life!vars, Life!Open, Life!Kill, Life!Free, Life!StartWorker,
             Life!FinishWorker
    <2> QED BY <2>3 DEF Life!Next
  <1>2. \A t \in Sessions :
            (~MainChange(t) /\ ~WorkChange(t)) =>
                lifeOf'[t] = lifeOf[t] /\ workerOf'[t] = workerOf[t]
    <2>1. SUFFICES ASSUME NEW t \in Sessions, ~MainChange(t), ~WorkChange(t)
                   PROVE  lifeOf'[t] = lifeOf[t] /\ workerOf'[t] = workerOf[t]
      OBVIOUS
    <2>2. /\ t \in mapSession' <=> t \in mapSession
          /\ t \in freed' <=> t \in freed
          /\ isDead'[t] = isDead[t]
          /\ worker'[t] = worker[t] /\ childCleared'[t] = childCleared[t]
      <3>1. CASE UNCHANGED mainVars
        BY <2>1, <3>1, WorkSame DEF mainVars
      <3>2. CASE \E s \in Sessions : MainChange(s) /\ s # t
        BY <1>0, <2>1, <3>2, MainFrame, WorkSame
      <3> QED BY <2>1, <3>1, <3>2, MainCases
    <2> QED BY <2>2 DEF lifeOf, workerOf
  <1>3. ASSUME NEW s \in Sessions, MainChange(s) \/ WorkChange(s),
               NEW t \in Sessions, t # s
        PROVE  lifeOf'[t] = lifeOf[t] /\ workerOf'[t] = workerOf[t]
    <2>1. /\ t \in mapSession' <=> t \in mapSession
          /\ t \in freed' <=> t \in freed
          /\ isDead'[t] = isDead[t]
      <3>1. CASE MainChange(s)
        BY <1>0, <1>3, <3>1, MainFrame
      <3>2. CASE WorkChange(s) /\ ~MainChange(s)
        BY <3>2
           DEF WorkChange, MainChange, WorkerStep, ConnectThreadUp, ReadStreamFail,
               SessionWorkThread, ReadCtrlFromMain, StartSessionOk,
               StartSessionFail, StopSession, CloseChildHandle, AsyncSend,
               LeaveChildLoop, ReChildLoopForSessionClear, SessionWorkThreadEnd,
               mainVars
      <3> QED BY <1>3, <3>1, <3>2
    <2>2. worker'[t] = worker[t] /\ childCleared'[t] = childCleared[t]
      <3>1. CASE WorkChange(s)
        BY <1>0, <1>3, <3>1, WorkFrame
      <3>2. CASE MainChange(s) /\ ~WorkChange(s)
        BY <3>2
           DEF WorkChange, MainChange, ConnectDaemon, ConnectFail, RemoveSession,
               AsyncMainLoopTask, CheckFreeSessionContinue, CloseMainHandle,
               FreeSessionFinally, workVars
      <3> QED BY <1>3, <3>1, <3>2
    <2> QED BY <2>1, <2>2 DEF lifeOf, workerOf
  <1>4. ASSUME NEW s \in Sessions, MainChange(s) \/ WorkChange(s)
        PROVE  \/ lifeOf'[s] = lifeOf[s] /\ workerOf'[s] = workerOf[s]
               \/ lifeOf[s] = "none" /\ lifeOf'[s] = "live" /\ workerOf'[s] = workerOf[s]
               \/ lifeOf[s] = "live" /\ lifeOf'[s] = "dead" /\ workerOf'[s] = workerOf[s]
               \/ lifeOf[s] = "dead" /\ lifeOf'[s] = "freed" /\ workerOf'[s] = workerOf[s]
                      /\ workerOf[s] # "running"
               \/ lifeOf'[s] = lifeOf[s] /\ lifeOf[s] \in {"live", "dead"}
                      /\ workerOf[s] = "none" /\ workerOf'[s] = "running"
               \/ lifeOf'[s] = lifeOf[s] /\ lifeOf[s] = "dead"
                      /\ workerOf[s] = "running" /\ workerOf'[s] = "finished"
    <2> USE <1>0
    <2>0. LifeInv(s) /\ WorkerInv(s) /\ TeardownInv(s) /\ StopInv(s)
          /\ LifeInv(s)' /\ WorkerInv(s)' /\ MainHandleInv(s)
      BY DEF IInv
    <2>1. CASE ConnectDaemon(s)
      <3>1. /\ s \in mapSession' /\ freed' = freed /\ isDead' = isDead
            /\ worker' = worker /\ childCleared' = childCleared
        BY <2>1 DEF ConnectDaemon, workVars
      <3>2. s \notin mapSession /\ s \notin freed /\ ~isDead[s]
        BY <2>0, <2>1 DEF ConnectDaemon, LifeInv, MainHandleInv, TypeOK
      <3> QED BY <3>1, <3>2 DEF lifeOf, workerOf
    <2>2. ASSUME FreeSession(s), mapSession' = mapSession, freed' = freed,
                 worker' = worker, childCleared' = childCleared
          PROVE  \/ lifeOf'[s] = lifeOf[s] /\ workerOf'[s] = workerOf[s]
                 \/ lifeOf[s] = "live" /\ lifeOf'[s] = "dead" /\ workerOf'[s] = workerOf[s]
      <3>1. CASE isDead' = isDead
        BY <2>2, <3>1 DEF lifeOf, workerOf
      <3>2. CASE s \in mapSession /\ ~isDead[s] /\ isDead'[s]
        BY <2>0, <2>2, <3>2 DEF lifeOf, workerOf, LifeInv
      <3> QED BY <2>2, <3>1, <3>2, FreeSessionEffect
    <2>3. CASE ConnectFail(s) \/ RemoveSession(s) \/ AsyncMainLoopTask(s)
      BY <2>2, <2>3 DEF ConnectFail, RemoveSession, AsyncMainLoopTask, workVars
    <2>4. ASSUME NEW h \in MainHandles, CloseMainHandle(s, h)
          PROVE  \/ lifeOf'[s] = lifeOf[s] /\ workerOf'[s] = workerOf[s]
                 \/ lifeOf[s] = "live" /\ lifeOf'[s] = "dead" /\ workerOf'[s] = workerOf[s]
      <3>1. CASE h = "workTCP" /\ conn[s] = "pending"
        BY <2>2, <2>4, <3>1 DEF CloseMainHandle, workVars
      <3>2. CASE ~(h = "workTCP" /\ conn[s] = "pending")
        BY <2>4, <3>2 DEF CloseMainHandle, workVars, lifeOf, workerOf
      <3> QED BY <3>1, <3>2
    <2>5. CASE ConnectOk(s)
      <3>1. /\ mapSession' = mapSession /\ freed' = freed /\ isDead' = isDead
            /\ worker'[s] = "queued" /\ childCleared' = childCleared
            /\ conn[s] = "pending"
        BY <2>5 DEF ConnectOk, TypeOK
      <3>2. worker[s] = "none" /\ ~childCleared[s]
        BY <2>0, <3>1 DEF WorkerInv, TypeOK
      <3>3. s \notin freed /\ s \in mapSession
        BY <2>0, <2>5, <3>1 DEF ConnectOk, LifeInv, MainHandleInv, MainHandles
      <3> QED BY <3>1, <3>2, <3>3 DEF lifeOf, workerOf
    <2>6. CASE FreeSessionFinally(s)
      <3>1. /\ s \in freed' /\ isDead' = isDead /\ stage[s] = "finally"
            /\ worker' = worker /\ childCleared' = childCleared
        BY <2>6 DEF FreeSessionFinally, workVars
      <3>2. s \notin freed /\ isDead[s]
        BY <2>0, <3>1 DEF LifeInv
      <3>3. childCleared[s] \/ worker[s] = "none"
        BY <2>0, <3>1 DEF TeardownInv, WorkerInv
      <3> QED BY <3>1, <3>2, <3>3 DEF lifeOf, workerOf
    <2>7. CASE FreeSessionOpeate(s) \/ CheckFreeSessionContinue(s)
      <3>1. /\ mapSession' = mapSession /\ freed' = freed /\ isDead' = isDead
            /\ worker' = worker /\ childCleared' = childCleared
        BY <2>7 DEF FreeSessionOpeate, CheckFreeSessionContinue, workVars
      <3> QED BY <3>1 DEF lifeOf, workerOf
    <2>8. CASE ReChildLoopForSessionClear(s)
      <3>1. /\ mapSession' = mapSession /\ freed' = freed /\ isDead' = isDead
            /\ worker[s] = "reclear" /\ childCleared'[s]
        BY <2>8 DEF ReChildLoopForSessionClear, mainVars, TypeOK
      <3>2. ~childCleared[s] /\ isDead[s]
        BY <2>0, <3>1 DEF WorkerInv, StopInv, TypeOK
      <3>3. s \notin freed
        BY <2>0, <3>1 DEF TeardownInv, LifeInv
      <3> QED BY <3>1, <3>2, <3>3 DEF lifeOf, workerOf
    <2>9. CASE SessionWorkThread(s) \/ LeaveChildLoop(s) \/ SessionWorkThreadEnd(s)
      <3>1. /\ mapSession' = mapSession /\ freed' = freed /\ isDead' = isDead
            /\ worker[s] # "none" /\ worker'[s] # "none"
            /\ childCleared' = childCleared
        BY <2>9 DEF SessionWorkThread, LeaveChildLoop, SessionWorkThreadEnd,
                    mainVars, TypeOK
      <3> QED BY <3>1 DEF lifeOf, workerOf
    <2>10. CASE \/ ReadCtrlFromMain(s) \/ StartSessionOk(s) \/ StartSessionFail(s)
                \/ StopSession(s) \/ AsyncSend(s)
                \/ \E h \in ChildHandles : CloseChildHandle(s, h)
                \/ ConnectThreadUp(s) \/ ReadStreamFail(s)
      <3>1. /\ mapSession' = mapSession /\ freed' = freed /\ isDead' = isDead
            /\ worker' = worker /\ childCleared' = childCleared
        BY <2>10 DEF ReadCtrlFromMain, StartSessionOk, StartSessionFail,
                     StopSession, AsyncSend, CloseChildHandle, ConnectThreadUp,
                     ReadStreamFail, mainVars
      <3> QED BY <3>1 DEF lifeOf, workerOf
    <2> QED BY <1>4, <2>1, <2>3, <2>4, <2>5, <2>6, <2>7, <2>8, <2>9, <2>10
            DEF MainChange, WorkChange, WorkerStep
  <1>5. CASE \E s \in Sessions : MainChange(s) \/ WorkChange(s)
    <2>1. PICK s \in Sessions : MainChange(s) \/ WorkChange(s)
      BY <1>5
    <2>2. \A t \in Sessions : t # s =>
              lifeOf'[t] = lifeOf[t] /\ workerOf'[t] = workerOf[t]
      BY <1>3, <2>1
    <2> QED BY <1>1, <1>4, <2>1, <2>2
  <1>6. CASE \A s \in Sessions : ~MainChange(s) /\ ~WorkChange(s)
    <2>1. \A t \in Sessions : lifeOf'[t] = lifeOf[t] /\ workerOf'[t] = workerOf[t]
      BY <1>2, <1>6
    <2>2. lifeOf' = lifeOf /\ workerOf' = workerOf
      BY <2>1 DEF lifeOf, workerOf
    <2> QED BY <2>2 DEF Life!vars
  <1> QED BY <1>5, <1>6

\* The protocol of the two threads implements the life cycle SessionLife promises:
\* killed once, and freed only when dead and without a running worker.
THEOREM LifeImplemented == Spec => ImplementsLife
  <1>1. IInv /\ IInv' /\ [Next]_vars => [Life!Next]_(Life!vars)
    BY LifeStepMaps
  <1> QED BY <1>1, LifeInitMaps, InvariantHolds, PTL DEF Spec, ImplementsLife, Life!Spec
=============================================================================
