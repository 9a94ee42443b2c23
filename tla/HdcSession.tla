----------------------------- MODULE HdcSession -----------------------------
(***************************************************************************)
(* The life cycle of the server's sessions with its daemons:               *)
(* common/session.cpp, host/host_tcp.cpp and common/tcp.cpp.               *)
(*                                                                         *)
(* Two kinds of threads share an HdcSession object.  The main thread runs  *)
(* loopMain: it allocates the session, connects, hands it to a worker and  *)
(* tears it down in stages, each stage a libuv timer or idle callback.     *)
(* The worker, a thread of libuv's pool, runs the session's childLoop.     *)
(* The main thread writes commands to a socket pair (ctrlFd) that the      *)
(* worker reads; the worker asks for the end of its session by appending   *)
(* to lstMainThreadOP and waking the main loop with uv_async_send.  isDead *)
(* and childCleared are the two flags they share.                          *)
(*                                                                         *)
(* One action is one callback of one thread, except where another thread   *)
(* can get in between: the append and the wake-up, the read of a batch of  *)
(* commands and the dispatch of each, childCleared and the thread's end.   *)
(***************************************************************************)
EXTENDS Integers, Sequences, FiniteSets

CONSTANTS
    Sessions,     \* ids GetSessionPseudoUid hands out, each one at most once
    NoSession,    \* "no session": the main loop is not inside Connect
    PoolSize,     \* threads of libuv's pool (UV_THREADPOOL_SIZE)
    MaxDeleted,   \* MAX_DELETED_SESSION_ID_RECORD_COUNT
    MallocNoise   \* whether malloc may hand out memory that is not all zero:
                  \* the values "pollHandle[STREAM_WORK]->loop is not null" can
                  \* have before the worker initialises the handle

ASSUME NoSessionAssumption == NoSession \notin Sessions
ASSUME PoolSizeAssumption == PoolSize \in Nat \ {0}
ASSUME MaxDeletedAssumption == MaxDeleted \in Nat \ {0}
ASSUME MallocNoiseAssumption == MallocNoise \in SUBSET BOOLEAN /\ MallocNoise # {}

VARIABLES
    \* the session object, written by the main thread
    mapSession,       \* the sessions AdminSession(OP_QUERY) finds
    freed,            \* the sessions whose object has been deleted
    isDead,           \* HdcSession::isDead
    pollGarbage,      \* pollHandle[STREAM_WORK]->loop as malloc left it is not null
    conn,             \* uv_tcp_connect: "none", "pending", "done"
    mainHandle,       \* state of each handle of the session on loopMain
    uvHandleRef,      \* HdcSession::uvHandleRef
    stage,            \* the teardown callback that is armed on loopMain
    \* the main loop
    mainWait,         \* the session Connect spins on, NoSession otherwise
    lstMainThreadOP,  \* sessions in the list PushAsyncMessage fills
    asyncPending,     \* uv_async_send was called, MainAsyncCallback not yet
    idleOps,          \* sessions with an armed AsyncMainLoopTask
    deletedIds,       \* deletedSessionIdQueue; deletedSessionIdSet is its range
    \* the worker thread of the session
    worker,           \* "none", "queued", "run", "reclear", "cleared", "exited"
    ctrl,             \* ctrlFd: commands written and not yet read
    batch,            \* commands ReadCtrlFromMain read and has yet to dispatch
    childHandle,      \* state of each handle of the session on childLoop
    uvChildRef,       \* HdcSession::uvChildRef
    stopChild,        \* uv_stop(&childLoop) was called
    pushing,          \* the worker is between the append and uv_async_send
    childCleared      \* HdcSession::childCleared

mainVars == <<mapSession, freed, isDead, pollGarbage, conn, mainHandle,
              uvHandleRef, stage>>
loopVars == <<mainWait, lstMainThreadOP, asyncPending, idleOps, deletedIds>>
workVars == <<worker, ctrl, batch, childHandle, uvChildRef, stopChild,
              pushing, childCleared>>
vars == <<mainVars, loopVars, workVars>>

-----------------------------------------------------------------------------
MainHandles == {"pollMain", "pipeMain", "workTCP"}
ChildHandles == {"childTCP", "pollWork", "pipeWork"}

\* "none": handle->loop is null.  "inert": initialised, never started.
\* "closing" has no close callback that touches the session, "closingCb" has one.
MainStates == {"none", "open", "closingCb", "closed"}
ChildStates == {"none", "inert", "open", "closing", "closingCb", "closed"}

Stages == {"none", "opeate", "waitChild", "finally", "done"}
WorkerStates == {"none", "queued", "run", "reclear", "cleared", "exited"}
Commands == {"SP_START_SESSION", "SP_STOP_SESSION"}

\* Besides the types: the cache of deleted ids stays within its bound.
TypeOK ==
    /\ mapSession \subseteq Sessions
    /\ freed \subseteq Sessions
    /\ isDead \in [Sessions -> BOOLEAN]
    /\ pollGarbage \in [Sessions -> BOOLEAN]
    /\ conn \in [Sessions -> {"none", "pending", "done"}]
    /\ mainHandle \in [Sessions -> [MainHandles -> MainStates]]
    /\ uvHandleRef \in [Sessions -> Int]
    /\ stage \in [Sessions -> Stages]
    /\ mainWait \in Sessions \cup {NoSession}
    /\ lstMainThreadOP \in Seq(Sessions)
    /\ asyncPending \in BOOLEAN
    /\ idleOps \subseteq Sessions
    /\ deletedIds \in Seq(Sessions) /\ Len(deletedIds) <= MaxDeleted
    /\ worker \in [Sessions -> WorkerStates]
    /\ ctrl \in [Sessions -> Seq(Commands)]
    /\ batch \in [Sessions -> Seq(Commands)]
    /\ childHandle \in [Sessions -> [ChildHandles -> ChildStates]]
    /\ uvChildRef \in [Sessions -> Int]
    /\ stopChild \in [Sessions -> BOOLEAN]
    /\ pushing \in [Sessions -> BOOLEAN]
    /\ childCleared \in [Sessions -> BOOLEAN]

Init ==
    /\ mapSession = {}
    /\ freed = {}
    /\ isDead = [s \in Sessions |-> FALSE]
    /\ pollGarbage = [s \in Sessions |-> FALSE]
    /\ conn = [s \in Sessions |-> "none"]
    /\ mainHandle = [s \in Sessions |-> [h \in MainHandles |-> "none"]]
    /\ uvHandleRef = [s \in Sessions |-> 0]
    /\ stage = [s \in Sessions |-> "none"]
    /\ mainWait = NoSession
    /\ lstMainThreadOP = <<>>
    /\ asyncPending = FALSE
    /\ idleOps = {}
    /\ deletedIds = <<>>
    /\ worker = [s \in Sessions |-> "none"]
    /\ ctrl = [s \in Sessions |-> <<>>]
    /\ batch = [s \in Sessions |-> <<>>]
    /\ childHandle = [s \in Sessions |-> [h \in ChildHandles |-> "none"]]
    /\ uvChildRef = [s \in Sessions |-> 0]
    /\ stopChild = [s \in Sessions |-> FALSE]
    /\ pushing = [s \in Sessions |-> FALSE]
    /\ childCleared = [s \in Sessions |-> FALSE]

-----------------------------------------------------------------------------
(* Helpers *)

Elems(q) == {q[i] : i \in 1..Len(q)}

\* Base::TryCloseHandle with alwaysCallback: an open handle is closed and its
\* callback runs later; for any other the callback runs at once, and Skipped
\* counts those.
CloseAll(hs) == [h \in DOMAIN hs |->
                    IF hs[h] \in {"open", "inert"} THEN "closingCb" ELSE hs[h]]
Skipped(hs) == Cardinality({h \in DOMAIN hs : hs[h] \notin {"open", "inert"}})

\* AddDeletedSessionId: a bounded first-in first-out cache without repetition.
AddDeletedSessionId(s) ==
    deletedIds' =
        IF s \in Elems(deletedIds) THEN deletedIds
        ELSE IF Len(deletedIds) < MaxDeleted THEN Append(deletedIds, s)
        ELSE Append(Tail(deletedIds), s)

MainIdle == mainWait = NoSession    \* loopMain is between two callbacks

\* FreeSession on the main thread.
FreeSession(s) ==
    /\ AddDeletedSessionId(s)
    /\ IF s \in mapSession /\ ~isDead[s]
       THEN /\ isDead' = [isDead EXCEPT ![s] = TRUE]
            /\ stage' = [stage EXCEPT ![s] = "opeate"]
       ELSE UNCHANGED <<isDead, stage>>

\* The worker thread is between two callbacks of its loop.
WorkerIdle(s) == batch[s] = <<>> /\ ~pushing[s]

BusyThreads == {s \in Sessions : worker[s] \in {"run", "reclear", "cleared"}}

\* hSession->childLoop.active_handles # 0: the worker's poll or tcp handle, or
\* the timer of ReChildLoopForSessionClear.
ChildActive(s) ==
    \/ \E h \in ChildHandles : childHandle[s][h] = "open"
    \/ worker[s] = "reclear"

\* What the main thread sees in pollHandle[STREAM_WORK]->loop.
PollLoopSet(s) == childHandle[s]["pollWork"] # "none" \/ pollGarbage[s]

-----------------------------------------------------------------------------
(* The main thread *)

\* HdcHostTCP::ConnectDaemon and HdcSessionBase::MallocSession.
ConnectDaemon(s) ==
    /\ MainIdle
    /\ conn[s] = "none"
    /\ conn' = [conn EXCEPT ![s] = "pending"]
    /\ mapSession' = mapSession \cup {s}
    /\ mainHandle' = [mainHandle EXCEPT ![s] = [h \in MainHandles |-> "open"]]
    /\ uvHandleRef' = [uvHandleRef EXCEPT ![s] = 3]
    /\ \E noise \in MallocNoise :
           pollGarbage' = [pollGarbage EXCEPT ![s] = noise]
    /\ UNCHANGED <<freed, isDead, stage, loopVars, workVars>>

\* HdcHostTCP::Connect, the connection was refused, timed out or could not be
\* duplicated.
ConnectFail(s) ==
    /\ MainIdle
    /\ conn[s] = "pending"
    /\ mainHandle[s]["workTCP"] = "open"
    /\ conn' = [conn EXCEPT ![s] = "done"]
    /\ FreeSession(s)
    /\ UNCHANGED <<mapSession, freed, pollGarbage, mainHandle, uvHandleRef,
                   mainWait, lstMainThreadOP, asyncPending, idleOps, workVars>>

\* Fault: Connect does not wait for the thread.
ConnectOkNoWait(s) ==
    /\ MainIdle
    /\ conn[s] = "pending"
    /\ mainHandle[s]["workTCP"] = "open"
    /\ conn' = [conn EXCEPT ![s] = "done"]
    /\ worker' = [worker EXCEPT ![s] = "queued"]
    /\ ctrl' = [ctrl EXCEPT ![s] = Append(@, "SP_START_SESSION")]
    /\ UNCHANGED <<mapSession, freed, isDead, pollGarbage, mainHandle,
                   uvHandleRef, stage, loopVars, batch, childHandle, uvChildRef,
                   stopChild, pushing, childCleared>>

\* HdcHostTCP::Connect, the connection is up: StartWorkThread, then the main
\* thread spins until the worker's loop has an active handle.
ConnectOk(s) ==
    /\ MainIdle
    /\ conn[s] = "pending"
    /\ mainHandle[s]["workTCP"] = "open"
    /\ conn' = [conn EXCEPT ![s] = "done"]
    /\ worker' = [worker EXCEPT ![s] = "queued"]
    /\ mainWait' = s
    /\ UNCHANGED <<mapSession, freed, isDead, pollGarbage, mainHandle,
                   uvHandleRef, stage, lstMainThreadOP, asyncPending, idleOps,
                   deletedIds, ctrl, batch, childHandle, uvChildRef, stopChild,
                   pushing, childCleared>>

\* HdcHostTCP::Connect, the thread is up.
ConnectThreadUp(s) ==
    /\ mainWait = s
    /\ ChildActive(s)
    /\ mainWait' = NoSession
    /\ ctrl' = [ctrl EXCEPT ![s] = Append(@, "SP_START_SESSION")]
    /\ UNCHANGED <<mainVars, lstMainThreadOP, asyncPending, idleOps, deletedIds,
                   worker, batch, childHandle, uvChildRef, stopChild, pushing,
                   childCleared>>

\* A client asked to remove the target (HdcServerForClient::CommandRemoveSession).
RemoveSession(s) ==
    /\ MainIdle
    /\ s \in mapSession
    /\ FreeSession(s)
    /\ UNCHANGED <<mapSession, freed, pollGarbage, conn, mainHandle,
                   uvHandleRef, mainWait, lstMainThreadOP, asyncPending,
                   idleOps, workVars>>

\* Fault: one request is taken from the list at each wake-up.
MainAsyncCallbackOne ==
    /\ MainIdle
    /\ asyncPending
    /\ lstMainThreadOP # <<>>
    /\ asyncPending' = FALSE
    /\ idleOps' = idleOps \cup {Head(lstMainThreadOP)}
    /\ lstMainThreadOP' = Tail(lstMainThreadOP)
    /\ UNCHANGED <<mainVars, mainWait, deletedIds, workVars>>

\* Fault: one request is taken and the list cleared.
MainAsyncCallbackDrop ==
    /\ MainIdle
    /\ asyncPending
    /\ lstMainThreadOP # <<>>
    /\ asyncPending' = FALSE
    /\ idleOps' = idleOps \cup {Head(lstMainThreadOP)}
    /\ lstMainThreadOP' = <<>>
    /\ UNCHANGED <<mainVars, mainWait, deletedIds, workVars>>

\* HdcSessionBase::MainAsyncCallback; libuv clears the wake-up before the call.
MainAsyncCallback ==
    /\ MainIdle
    /\ asyncPending
    /\ asyncPending' = FALSE
    /\ idleOps' = idleOps \cup Elems(lstMainThreadOP)
    /\ lstMainThreadOP' = <<>>
    /\ UNCHANGED <<mainVars, mainWait, deletedIds, workVars>>

\* HdcSessionBase::AsyncMainLoopTask with ASYNC_FREE_SESSION.
AsyncMainLoopTask(s) ==
    /\ MainIdle
    /\ s \in idleOps
    /\ idleOps' = idleOps \ {s}
    /\ FreeSession(s)
    /\ UNCHANGED <<mapSession, freed, pollGarbage, conn, mainHandle,
                   uvHandleRef, mainWait, lstMainThreadOP, asyncPending,
                   workVars>>

\* HdcSessionBase::FreeSessionContinue.
FreeSessionContinue(s) ==
    /\ mainHandle' = [mainHandle EXCEPT ![s] = CloseAll(@)]
    /\ uvHandleRef' = [uvHandleRef EXCEPT ![s] = @ - Skipped(mainHandle[s])]
    /\ stage' = [stage EXCEPT ![s] = "finally"]

\* Fault: the worker is waited for and not told to stop.
FreeSessionOpeateSilent(s) ==
    /\ MainIdle
    /\ stage[s] = "opeate"
    /\ IF PollLoopSet(s)
       THEN /\ stage' = [stage EXCEPT ![s] = "waitChild"]
            /\ UNCHANGED <<mainHandle, uvHandleRef>>
       ELSE FreeSessionContinue(s)
    /\ UNCHANGED <<mapSession, freed, isDead, pollGarbage, conn, loopVars,
                   workVars>>

\* HdcSessionBase::FreeSessionOpeate, the timer FreeSession arms.
FreeSessionOpeate(s) ==
    /\ MainIdle
    /\ stage[s] = "opeate"
    /\ IF PollLoopSet(s)
       THEN /\ ctrl' = [ctrl EXCEPT ![s] = Append(@, "SP_STOP_SESSION")]
            /\ stage' = [stage EXCEPT ![s] = "waitChild"]
            /\ UNCHANGED <<mainHandle, uvHandleRef>>
       ELSE FreeSessionContinue(s) /\ UNCHANGED ctrl
    /\ UNCHANGED <<mapSession, freed, isDead, pollGarbage, conn, loopVars,
                   worker, batch, childHandle, uvChildRef, stopChild, pushing,
                   childCleared>>

\* Fault: childCleared is not tested.
CheckFreeSessionContinueEarly(s) ==
    /\ MainIdle
    /\ stage[s] = "waitChild"
    /\ FreeSessionContinue(s)
    /\ UNCHANGED <<mapSession, freed, isDead, pollGarbage, conn, loopVars,
                   workVars>>

\* callbackCheckFreeSessionContinue, the timer FreeSessionOpeate arms.
CheckFreeSessionContinue(s) ==
    /\ MainIdle
    /\ stage[s] = "waitChild"
    /\ childCleared[s]
    /\ FreeSessionContinue(s)
    /\ UNCHANGED <<mapSession, freed, isDead, pollGarbage, conn, loopVars,
                   workVars>>

\* closeSessionTCPHandle.  A connection that is still pending on hWorkTCP is
\* cancelled first: Connect runs with UV_ECANCELED and calls FreeSession.
CloseMainHandle(s, h) ==
    /\ MainIdle
    /\ mainHandle[s][h] = "closingCb"
    /\ mainHandle' = [mainHandle EXCEPT ![s] = [@ EXCEPT ![h] = "closed"]]
    /\ uvHandleRef' = [uvHandleRef EXCEPT ![s] = @ - 1]
    /\ IF h = "workTCP" /\ conn[s] = "pending"
       THEN conn' = [conn EXCEPT ![s] = "done"] /\ FreeSession(s)
       ELSE UNCHANGED <<conn, isDead, stage, deletedIds>>
    /\ UNCHANGED <<mapSession, freed, pollGarbage, mainWait, lstMainThreadOP,
                   asyncPending, idleOps, workVars>>

\* Fault: uvHandleRef is not tested.
FreeSessionFinallyEarly(s) ==
    /\ MainIdle
    /\ stage[s] = "finally"
    /\ mapSession' = mapSession \ {s}
    /\ freed' = freed \cup {s}
    /\ stage' = [stage EXCEPT ![s] = "done"]
    /\ UNCHANGED <<isDead, pollGarbage, conn, mainHandle, uvHandleRef, loopVars,
                   workVars>>

\* HdcSessionBase::FreeSessionFinally, the idle callback of FreeSessionContinue.
FreeSessionFinally(s) ==
    /\ MainIdle
    /\ stage[s] = "finally"
    /\ uvHandleRef[s] <= 0
    /\ mapSession' = mapSession \ {s}
    /\ freed' = freed \cup {s}
    /\ stage' = [stage EXCEPT ![s] = "done"]
    /\ UNCHANGED <<isDead, pollGarbage, conn, mainHandle, uvHandleRef, loopVars,
                   workVars>>

-----------------------------------------------------------------------------
(* The worker thread *)

\* Fault: the poll handle is initialised and not started.
SessionWorkThreadNoPoll(s) ==
    /\ worker[s] = "queued"
    /\ Cardinality(BusyThreads) < PoolSize
    /\ worker' = [worker EXCEPT ![s] = "run"]
    /\ childHandle' = [childHandle EXCEPT ![s]["pollWork"] = "inert"]
    /\ UNCHANGED <<mainVars, loopVars, ctrl, batch, uvChildRef, stopChild,
                   pushing, childCleared>>

\* A pool thread takes the work item: SessionWorkThread puts the worker's end of
\* ctrlFd on the child loop and runs it.
SessionWorkThread(s) ==
    /\ worker[s] = "queued"
    /\ Cardinality(BusyThreads) < PoolSize
    /\ worker' = [worker EXCEPT ![s] = "run"]
    /\ childHandle' = [childHandle EXCEPT ![s]["pollWork"] = "open"]
    /\ UNCHANGED <<mainVars, loopVars, ctrl, batch, uvChildRef, stopChild,
                   pushing, childCleared>>

\* HdcSessionBase::ReadCtrlFromMain reads everything that is in the socket.
ReadCtrlFromMain(s) ==
    /\ worker[s] = "run"
    /\ WorkerIdle(s)
    /\ ~stopChild[s]
    /\ childHandle[s]["pollWork"] = "open"
    /\ ctrl[s] # <<>>
    /\ batch' = [batch EXCEPT ![s] = ctrl[s]]
    /\ ctrl' = [ctrl EXCEPT ![s] = <<>>]
    /\ UNCHANGED <<mainVars, loopVars, worker, childHandle, uvChildRef,
                   stopChild, pushing, childCleared>>

Dispatching(s, command) ==
    /\ worker[s] = "run"
    /\ batch[s] # <<>>
    /\ Head(batch[s]) = command

\* WorkThreadStartSession: the child socket is opened, read, and the handshake
\* sent.
StartSessionOk(s) ==
    /\ Dispatching(s, "SP_START_SESSION")
    /\ childHandle' = [childHandle EXCEPT ![s]["childTCP"] = "open"]
    /\ batch' = [batch EXCEPT ![s] = Tail(@)]
    /\ UNCHANGED <<mainVars, loopVars, worker, ctrl, uvChildRef, stopChild,
                   pushing, childCleared>>

\* WorkThreadStartSession returns false: uv_tcp_open refused the descriptor.
\* ReadCtrlFromMain then drops the rest of the batch.
StartSessionFail(s) ==
    /\ Dispatching(s, "SP_START_SESSION")
    /\ childHandle' = [childHandle EXCEPT ![s]["childTCP"] = "inert"]
    /\ batch' = [batch EXCEPT ![s] = <<>>]
    /\ UNCHANGED <<mainVars, loopVars, worker, ctrl, uvChildRef, stopChild,
                   pushing, childCleared>>

\* SP_STOP_SESSION closes the three handles of the child loop.  The data pipe is
\* never opened and hChildWorkTCP may be closing already: their callbacks run
\* at once.
StopHandles(s) ==
    IF childHandle[s]["childTCP"] = "none" THEN {"pollWork", "pipeWork"}
                                           ELSE ChildHandles

\* uvChildRef after the three closes.  Fault: hChildWorkTCP is not counted.
ChildRefLeftUncounted(s) ==
    uvChildRef[s] + 2 - Skipped([h \in StopHandles(s) |-> childHandle[s][h]])

ChildRefLeft(s) ==
    uvChildRef[s] + Cardinality(StopHandles(s))
                  - Skipped([h \in StopHandles(s) |-> childHandle[s][h]])

StopSession(s) ==
    LET closing == [h \in StopHandles(s) |-> childHandle[s][h]]
        left == ChildRefLeft(s)
    IN  /\ Dispatching(s, "SP_STOP_SESSION")
        /\ batch' = [batch EXCEPT ![s] = Tail(@)]
        /\ childHandle' = [childHandle EXCEPT ![s] =
               [h \in ChildHandles |-> IF h \in StopHandles(s)
                                       THEN CloseAll(closing)[h] ELSE @[h]]]
        /\ uvChildRef' = [uvChildRef EXCEPT ![s] = left]
        /\ stopChild' = [stopChild EXCEPT ![s] = @ \/ left = 0]
        /\ UNCHANGED <<mainVars, loopVars, worker, ctrl, pushing, childCleared>>

\* closeSessionChildThreadTCPHandle, or the end of a close without callback.
CloseChildHandle(s, h) ==
    /\ worker[s] \in {"run", "reclear"}
    /\ WorkerIdle(s)
    /\ childHandle[s][h] \in {"closing", "closingCb"}
    /\ childHandle' = [childHandle EXCEPT ![s] = [@ EXCEPT ![h] = "closed"]]
    /\ IF childHandle[s][h] = "closingCb"
       THEN /\ uvChildRef' = [uvChildRef EXCEPT ![s] = @ - 1]
            /\ stopChild' = [stopChild EXCEPT ![s] = @ \/ uvChildRef[s] = 1]
       ELSE UNCHANGED <<uvChildRef, stopChild>>
    /\ UNCHANGED <<mainVars, loopVars, worker, ctrl, batch, pushing,
                   childCleared>>

\* HdcTCPBase::ReadStream after a read error or a bad packet: close the socket
\* and FreeSession.  Off the main thread FreeSession records the id, and
\* PushAsyncMessage appends the request to the locked list ...
ReadStreamFail(s) ==
    /\ worker[s] \in {"run", "reclear"}
    /\ WorkerIdle(s)
    /\ ~stopChild[s]
    /\ childHandle[s]["childTCP"] = "open"
    /\ childHandle' = [childHandle EXCEPT ![s]["childTCP"] = "closing"]
    /\ AddDeletedSessionId(s)
    /\ lstMainThreadOP' = Append(lstMainThreadOP, s)
    /\ pushing' = [pushing EXCEPT ![s] = TRUE]
    /\ UNCHANGED <<mainVars, mainWait, asyncPending, idleOps, worker, ctrl,
                   batch, uvChildRef, stopChild, childCleared>>

\* ... and then wakes the main loop.
AsyncSend(s) ==
    /\ pushing[s]
    /\ pushing' = [pushing EXCEPT ![s] = FALSE]
    /\ asyncPending' = TRUE
    /\ UNCHANGED <<mainVars, mainWait, lstMainThreadOP, idleOps, deletedIds,
                   worker, ctrl, batch, childHandle, uvChildRef, stopChild,
                   childCleared>>

\* uv_run returns once uv_stop was called.
LeaveChildLoop(s) ==
    /\ worker[s] = "run"
    /\ WorkerIdle(s)
    /\ stopChild[s]
    /\ worker' = [worker EXCEPT ![s] = "reclear"]
    /\ stopChild' = [stopChild EXCEPT ![s] = FALSE]
    /\ UNCHANGED <<mainVars, loopVars, ctrl, batch, childHandle, uvChildRef,
                   pushing, childCleared>>

\* ReChildLoopForSessionClear runs the loop once more, TryCloseChildLoop closes
\* what is left on it, and SessionWorkThread sets childCleared.
ReChildLoopForSessionClear(s) ==
    /\ worker[s] = "reclear"
    /\ WorkerIdle(s)
    /\ \A h \in ChildHandles : childHandle[s][h] \notin {"closing", "closingCb"}
    /\ childHandle' = [childHandle EXCEPT ![s] =
           [h \in ChildHandles |-> IF @[h] = "none" THEN "none" ELSE "closed"]]
    /\ childCleared' = [childCleared EXCEPT ![s] = TRUE]
    /\ worker' = [worker EXCEPT ![s] = "cleared"]
    /\ UNCHANGED <<mainVars, loopVars, ctrl, batch, uvChildRef, stopChild,
                   pushing>>

\* SessionWorkThread logs hSession->sessionId and gives its thread back.
SessionWorkThreadEnd(s) ==
    /\ worker[s] = "cleared"
    /\ worker' = [worker EXCEPT ![s] = "exited"]
    /\ UNCHANGED <<mainVars, loopVars, ctrl, batch, childHandle, uvChildRef,
                   stopChild, pushing, childCleared>>

-----------------------------------------------------------------------------
MainStep(s) ==
    \/ ConnectThreadUp(s)
    \/ AsyncMainLoopTask(s)
    \/ FreeSessionOpeate(s)
    \/ CheckFreeSessionContinue(s)
    \/ \E h \in MainHandles : CloseMainHandle(s, h)
    \/ FreeSessionFinally(s)

WorkerStep(s) ==
    \/ SessionWorkThread(s)
    \/ ReadCtrlFromMain(s)
    \/ StartSessionOk(s)
    \/ StartSessionFail(s)
    \/ StopSession(s)
    \/ \E h \in ChildHandles : CloseChildHandle(s, h)
    \/ AsyncSend(s)
    \/ LeaveChildLoop(s)
    \/ ReChildLoopForSessionClear(s)
    \/ SessionWorkThreadEnd(s)

\* What clients, daemons and the network decide.
Environment(s) ==
    \/ ConnectDaemon(s)
    \/ ConnectFail(s)
    \/ ConnectOk(s)
    \/ RemoveSession(s)
    \/ ReadStreamFail(s)

Next ==
    \/ MainAsyncCallback
    \/ \E s \in Sessions : MainStep(s) \/ WorkerStep(s) \/ Environment(s)

Spec == Init /\ [][Next]_vars

\* Both loops run every callback that is due, and a pool thread that is free
\* takes the next work item.  Nothing is assumed of the environment.
Fairness ==
    /\ WF_vars(MainAsyncCallback)
    /\ \A s \in Sessions : WF_vars(MainStep(s)) /\ WF_vars(WorkerStep(s))

FairSpec == Spec /\ Fairness

-----------------------------------------------------------------------------
(* Safety *)

\* While a worker thread can run a callback of its session, FreeSessionFinally
\* has not deleted the session and AdminSession still finds it: every callback
\* of the child loop dereferences hSession without a lock or a reference count.
WorkerHasSession ==
    \A s \in Sessions :
        worker[s] \in {"queued", "run", "reclear"} =>
            s \in mapSession /\ s \notin freed

\* libuv calls back with handle->data = hSession: no handle of a deleted session
\* is open or closing on either loop, and no connection attempt is pending on it.
FreedHasNoHandle ==
    \A s \in freed :
        /\ \A h \in MainHandles : mainHandle[s][h] = "closed"
        /\ \A h \in ChildHandles : childHandle[s][h] \in {"none", "closed"}
        /\ conn[s] = "done"
        /\ mainWait # s

\* uvHandleRef and uvChildRef count exactly the close callbacks that are still
\* to come: a session is neither deleted too early nor kept for ever, and the
\* child loop neither stopped with a callback pending nor left running.
RefsCountCallbacks ==
    \A s \in Sessions :
        /\ uvHandleRef[s] =
               Cardinality({h \in MainHandles :
                                mainHandle[s][h] \in {"open", "closingCb"}})
        /\ uvChildRef[s] =
               Cardinality({h \in ChildHandles : childHandle[s][h] = "closingCb"})

\* A request in lstMainThreadOP has a wake-up on its way, although libuv merges
\* wake-ups and MainAsyncCallback may run between the append and uv_async_send.
NoLostWakeup ==
    lstMainThreadOP # <<>> => asyncPending \/ \E s \in Sessions : pushing[s]

\* An id in the cache that SendToAnother consults belongs to a session that is
\* being freed or about to be: tasks of a healthy session are never refused.
CachedIdIsDoomed ==
    \A s \in Elems(deletedIds) :
        \/ isDead[s]
        \/ s \in idleOps \cup Elems(lstMainThreadOP)

(* The inductive invariant behind the safety properties; see HdcSessionProofs *)

\* mapSession, freed, isDead and stage tell one story.
LifeInv(s) ==
    /\ s \in mapSession <=> conn[s] # "none" /\ s \notin freed
    /\ s \in freed <=> stage[s] = "done"
    /\ isDead[s] <=> stage[s] # "none"
    /\ isDead[s] => conn[s] # "none"

\* The handles on loopMain: open from MallocSession to FreeSessionContinue, and
\* a connection attempt ends at the latest with its socket.
MainHandleInv(s) ==
    /\ conn[s] = "none" =>
           \A h \in MainHandles : mainHandle[s][h] = "none"
    /\ conn[s] # "none" /\ stage[s] \in {"none", "opeate", "waitChild"} =>
           \A h \in MainHandles : mainHandle[s][h] = "open"
    /\ stage[s] \in {"finally", "done"} =>
           \A h \in MainHandles : mainHandle[s][h] \in {"closingCb", "closed"}
    /\ mainHandle[s]["workTCP"] = "closed" => conn[s] = "done"
    /\ stage[s] = "done" =>
           \A h \in MainHandles : mainHandle[s][h] = "closed"

\* The worker: it is queued only while the main thread spins in Connect, which is
\* why FreeSessionOpeate cannot look at pollHandle[STREAM_WORK]->loop too early.
WorkerInv(s) ==
    /\ worker[s] = "queued" => mainWait = s
    /\ worker[s] # "none" => conn[s] = "done"
    /\ childCleared[s] <=> worker[s] \in {"cleared", "exited"}
    /\ worker[s] \in {"none", "queued"} =>
           ~pushing[s] /\ \A h \in ChildHandles : childHandle[s][h] = "none"
    /\ worker[s] \notin {"none", "queued"} =>
           childHandle[s]["pollWork"] # "none"
    /\ worker[s] \in {"cleared", "exited"} =>
           \A h \in ChildHandles : childHandle[s][h] \in {"none", "closed"}
    /\ pushing[s] => worker[s] \in {"run", "reclear"}

\* Teardown goes past its wait only when no thread is or will be at work.
TeardownInv(s) ==
    /\ stage[s] \in {"finally", "done"} =>
           worker[s] \in {"none", "cleared", "exited"}
    /\ mainWait = s =>
           stage[s] \notin {"finally", "done"} /\ worker[s] # "none"

\* A worker that leaves its loop was told to: SP_STOP_SESSION comes only from
\* FreeSessionOpeate, after isDead was set.
StopInv(s) ==
    /\ "SP_STOP_SESSION" \in Elems(ctrl[s]) \cup Elems(batch[s]) => isDead[s]
    /\ uvChildRef[s] # 0 \/ stopChild[s] => isDead[s]
    /\ worker[s] \in {"reclear", "cleared", "exited"} => isDead[s]

\* A queue of commands holds SP_START_SESSION at most once.
OneStart(q) ==
    \A i, j \in 1..Len(q) :
        q[i] = "SP_START_SESSION" /\ q[j] = "SP_START_SESSION" => i = j

\* SP_START_SESSION reaches a worker at most once, and finds hChildWorkTCP as
\* MallocSession left it.
StartInv(s) ==
    /\ mainWait = s => childHandle[s]["childTCP"] = "none"
    /\ mainWait = s \/ conn[s] # "done" \/ childHandle[s]["childTCP"] # "none" =>
           "SP_START_SESSION" \notin Elems(ctrl[s]) \cup Elems(batch[s])
    /\ OneStart(ctrl[s]) /\ OneStart(batch[s])
    /\ "SP_START_SESSION" \notin Elems(ctrl[s]) \cap Elems(batch[s])

IInv ==
    /\ TypeOK
    /\ RefsCountCallbacks
    /\ \A s \in Sessions :
           /\ LifeInv(s)
           /\ MainHandleInv(s)
           /\ WorkerInv(s)
           /\ TeardownInv(s)
           /\ StopInv(s)
           /\ StartInv(s)

(* Action properties *)

StageOrder == [none |-> 0, opeate |-> 1, waitChild |-> 2, finally |-> 3, done |-> 4]

\* The teardown of a session is started once and never starts over, whoever asks
\* for it again and however late: a second FreeSession, a request of the worker
\* that arrives after the user's, the cancelled connection.
TeardownOnce ==
    [][\A s \in Sessions :
           /\ StageOrder[stage'[s]] >= StageOrder[stage[s]]
           /\ isDead[s] => isDead'[s]
           /\ s \in freed => s \notin mapSession']_vars

\* FreeSessionContinue runs only for a session whose worker has cleared its loop
\* or will never be started.
ContinueWithoutWorker ==
    [][\A s \in Sessions :
           stage[s] # "finally" /\ stage'[s] = "finally" =>
               \/ childCleared[s]
               \/ worker'[s] = "none" /\ mainWait # s]_vars

(* Liveness *)

\* SP_STOP_SESSION was dropped: WorkThreadStartSession failed, and the command
\* was behind SP_START_SESSION in the batch.
StopLost(s) ==
    /\ stage[s] = "waitChild"
    /\ "SP_STOP_SESSION" \notin Elems(ctrl[s]) \cup Elems(batch[s])
    /\ childHandle[s]["pollWork"] = "open"
    /\ childHandle[s]["childTCP"] = "inert"

\* A dead session is deleted in the end, unless its stop command was dropped.
DeadSessionIsFreed ==
    \A s \in Sessions : isDead[s] ~> (s \in freed \/ StopLost(s))

\* A read error of the worker's socket ends the session, however the request
\* travels to the main thread.
ReadErrorEndsSession == \A s \in Sessions : pushing[s] ~> isDead[s]

\* A session ends when its socket fails, and one that ends is deleted.
SessionsEnd == ReadErrorEndsSession /\ DeadSessionIsFreed

\* Connect does not spin for ever: the pool thread it waits for comes up.
MainComesBack == mainWait # NoSession ~> mainWait = NoSession

(* Refinement *)

lifeOf ==
    [s \in Sessions |-> IF s \in freed THEN "freed"
                        ELSE IF isDead[s] THEN "dead"
                        ELSE IF s \in mapSession THEN "live" ELSE "none"]

workerOf ==
    [s \in Sessions |-> IF childCleared[s] THEN "finished"
                        ELSE IF worker[s] = "none" THEN "none" ELSE "running"]

Life == INSTANCE SessionLife WITH life <- lifeOf, worker <- workerOf

\* The protocol of the two threads keeps the promise of SessionLife.
ImplementsLife == Life!Spec

(* What comments of the source say, and the code does not keep *)

\* session.cpp:565, on FreeSessionContinue: "work when child-work thread finish".
ContinueAfterThreadEnd ==
    [][\A s \in Sessions :
           stage[s] # "finally" /\ stage'[s] = "finally" =>
               worker[s] \in {"none", "exited"}]_vars

\* session.cpp:613, in FreeSessionOpeate: "wait workthread to free".  The wait is
\* for a work thread that exists or is still to come.
WaitsForAThread ==
    \A s \in Sessions :
        stage[s] = "waitChild" => worker[s] # "none" \/ conn[s] = "pending"
=============================================================================
