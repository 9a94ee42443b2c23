----------------------------- MODULE HdcChannel -----------------------------
(***************************************************************************)
(* The server's channels, one per client connection: common/channel.cpp,   *)
(* the attach and detach handlers of host/server.cpp and the handlers of   *)
(* host/server_for_client.cpp.                                             *)
(*                                                                         *)
(* The main thread accepts the client on hWorkTCP.  A client that names a  *)
(* target is bound to that target's session: the descriptor is duplicated, *)
(* hWorkTCP is closed, and the session's worker puts the duplicate on its  *)
(* own loop as hChildWorkTCP.  From then on two threads use the channel.   *)
(* A thread that looks a channel up with OP_QUERY_REF pins it by ref; the  *)
(* main thread frees it in stages, waiting for ref and then for the worker *)
(* to let go (childCleared).                                               *)
(*                                                                         *)
(* Sessions come and go as SessionLife says, which HdcSession implements.  *)
(* One action is one callback of one thread, except that a worker that     *)
(* pins a channel lets the main thread in before its next step.            *)
(***************************************************************************)
EXTENDS Integers, Sequences, FiniteSets

CONSTANTS
    Channels,     \* ids GetChannelPseudoUid hands out, each one at most once
    Sessions,     \* the sessions one target has over time
    NoSession,    \* targetSessionId before AttachChannel
    NoChannel,    \* a worker that is between two callbacks
    MaxWrites,    \* bound: writes of one kind a stream has under way
    OpenMayFail   \* whether uv_tcp_open may refuse the duplicated descriptor

ASSUME NoSessionAssumption == NoSession \notin Sessions
ASSUME NoChannelAssumption == NoChannel \notin Channels
ASSUME MaxWritesAssumption == MaxWrites \in Nat \ {0}
ASSUME OpenMayFailAssumption == OpenMayFail \in BOOLEAN

VARIABLES
    life, worker,     \* the sessions, as in SessionLife
    \* the channel as the main thread sees it
    mapChannel,       \* the channels AdminChannel finds
    isDead,           \* HdcChannel::isDead
    stage,            \* the teardown callback that is armed on loopMain
    uvHandleRef,      \* HdcChannel::uvHandleRef
    phase,            \* how far the conversation with the client has come
    hWorkTCP,         \* state of the handle on loopMain
    mainWrites,       \* uv_write requests under way on hWorkTCP
    retryTimer,       \* OrderConnecTargetResult is armed for the channel
    \* shared by the threads
    ref,              \* HdcChannel::ref
    lstMainThreadOP,  \* channels a worker asked the main loop to free
    ctrl,             \* per session: channel commands the worker has yet to read
    forwards,         \* channels that stand for a port forward in mapForward
    \* the channel as the session's worker sees it
    target,           \* HdcChannel::targetSessionId
    hChildWorkTCP,    \* state of the handle on the session's childLoop
    childWrites,      \* uv_write requests under way on hChildWorkTCP
    clearIdle,        \* channels whose DoNextLoop of DeatchChannel is armed
    childCleared,     \* HdcChannel::childCleared
    job               \* per session: the callback its worker is inside

sessionVars == <<life, worker>>
mainVars == <<mapChannel, isDead, stage, uvHandleRef, phase, hWorkTCP,
              mainWrites, retryTimer>>
sharedVars == <<ref, lstMainThreadOP, ctrl, forwards>>
childVars == <<target, hChildWorkTCP, childWrites, clearIdle, childCleared, job>>
vars == <<sessionVars, mainVars, sharedVars, childVars>>

Session == INSTANCE SessionLife

-----------------------------------------------------------------------------
\* Data of the daemon for the client, and the server's answers to the client.
Kinds == {"echo", "reply"}

Phases == {"none", "hello", "refused", "local", "bound", "sent", "orphan"}
Stages == {"none", "opeate", "waitChild", "finally", "done"}

\* "closing" has no callback; "closingRef" has Bind's, "closingFree" has
\* FreeChannelContinue's, "clearing" has DeatchChannel's.  "none" of the child
\* handle is a null loop pointer.
MainStates == {"none", "open", "closing", "closingRef", "closingFree", "closed"}
ChildStates == {"none", "open", "closing", "clearing", "closed"}

Idle == [ch |-> NoChannel, at |-> "idle"]
Jobs == [ch : Channels, at : {"attach", "query", "alive"}] \cup {Idle}
Commands == [cmd : {"SP_ATTACH_CHANNEL", "SP_DEATCH_CHANNEL"}, ch : Channels]

\* Besides the types: uvHandleRef, a uint8_t, never goes below zero.
TypeOK ==
    /\ Session!TypeOK
    /\ mapChannel \subseteq Channels
    /\ isDead \in [Channels -> BOOLEAN]
    /\ stage \in [Channels -> Stages]
    /\ uvHandleRef \in [Channels -> {0, 1}]
    /\ phase \in [Channels -> Phases]
    /\ hWorkTCP \in [Channels -> MainStates]
    /\ mainWrites \in [Channels -> 0..MaxWrites]
    /\ retryTimer \in [Channels -> BOOLEAN]
    /\ ref \in [Channels -> Nat]
    /\ lstMainThreadOP \subseteq Channels
    /\ ctrl \in [Sessions -> Seq(Commands)]
    /\ forwards \subseteq Channels
    /\ target \in [Channels -> Sessions \cup {NoSession}]
    /\ hChildWorkTCP \in [Channels -> ChildStates]
    /\ childWrites \in [Channels -> [Kinds -> 0..MaxWrites]]
    /\ clearIdle \subseteq Channels
    /\ childCleared \in [Channels -> BOOLEAN]
    /\ job \in [Sessions -> Jobs]

Init ==
    /\ Session!Init
    /\ mapChannel = {}
    /\ isDead = [c \in Channels |-> FALSE]
    /\ stage = [c \in Channels |-> "none"]
    /\ uvHandleRef = [c \in Channels |-> 0]
    /\ phase = [c \in Channels |-> "none"]
    /\ hWorkTCP = [c \in Channels |-> "none"]
    /\ mainWrites = [c \in Channels |-> 0]
    /\ retryTimer = [c \in Channels |-> FALSE]
    /\ ref = [c \in Channels |-> 0]
    /\ lstMainThreadOP = {}
    /\ ctrl = [s \in Sessions |-> <<>>]
    /\ forwards = {}
    /\ target = [c \in Channels |-> NoSession]
    /\ hChildWorkTCP = [c \in Channels |-> "none"]
    /\ childWrites = [c \in Channels |-> [k \in Kinds |-> 0]]
    /\ clearIdle = {}
    /\ childCleared = [c \in Channels |-> FALSE]
    /\ job = [s \in Sessions |-> Idle]

-----------------------------------------------------------------------------
(* Helpers *)

\* FindAliveSessionFromDaemonMap: the target's session is connected and alive.
AliveSessions == {s \in Sessions : life[s] = "live" /\ worker[s] = "running"}

\* The worker of s can run a callback of its loop.
WorkerIdle(s) == worker[s] = "running" /\ job[s] = Idle

\* The worker of s gets callbacks for hChildWorkTCP of c.
Serves(s, c) == WorkerIdle(s) /\ target[c] = s

Pending(c) == childWrites[c]["echo"] + childWrites[c]["reply"]

\* FreeChannel on the main thread.
FreeChannel(c) ==
    IF c \in mapChannel /\ ~isDead[c]
    THEN /\ isDead' = [isDead EXCEPT ![c] = TRUE]
         /\ stage' = [stage EXCEPT ![c] = "opeate"]
    ELSE UNCHANGED <<isDead, stage>>

\* FreeChannel on a worker: PushAsyncMessage, MainAsyncCallback and
\* AsyncMainLoopTask.  A set: a second request for a channel changes nothing.
\* The list, the wake-ups and their merging are modelled in HdcSession.
PushFree(c) == lstMainThreadOP' = lstMainThreadOP \cup {c}

\* SendChannel on the main thread, and the reference SendToStreamEx's write
\* holds until WriteCallback.
MainSend(c) ==
    IF hWorkTCP[c] = "open"
    THEN /\ mainWrites' = [mainWrites EXCEPT ![c] = @ + 1]
         /\ ref' = [ref EXCEPT ![c] = @ + 1]
    ELSE UNCHANGED <<mainWrites, ref>>

-----------------------------------------------------------------------------
(* The sessions *)

SessionOpen(s) ==
    Session!Open(s) /\ UNCHANGED <<mainVars, sharedVars, childVars>>

SessionStart(s) ==
    Session!StartWorker(s) /\ UNCHANGED <<mainVars, sharedVars, childVars>>

\* FreeSession on the main thread, up to NotifyInstanceSessionFree: the forwards
\* of the session are forgotten.
SessionKill(s) ==
    /\ Session!Kill(s)
    /\ forwards' = {c \in forwards : target[c] # s}
    /\ UNCHANGED <<mainVars, ref, lstMainThreadOP, ctrl, childVars>>

\* Nothing more can reach the worker of a dead session: it has read the commands
\* that were sent before SP_STOP_SESSION, and the second run of its loop has
\* emptied the idle callbacks.
Draining(s) ==
    /\ life[s] = "dead"
    /\ WorkerIdle(s)
    /\ ctrl[s] = <<>>
    /\ \A c \in clearIdle : target[c] # s

\* TryCloseChildLoop at the end of ReChildLoopForSessionClear closes what is
\* left on the loop, without callbacks.
TryCloseChildLoop(s) ==
    /\ Draining(s)
    /\ \E c \in Channels : target[c] = s /\ hChildWorkTCP[c] = "open"
    /\ hChildWorkTCP' = [c \in Channels |->
           IF target[c] = s /\ hChildWorkTCP[c] = "open"
           THEN "closing" ELSE hChildWorkTCP[c]]
    /\ UNCHANGED <<sessionVars, mainVars, sharedVars, target, childWrites,
                   clearIdle, childCleared, job>>

SessionFinish(s) ==
    /\ Draining(s)
    /\ \A c \in Channels : target[c] = s => hChildWorkTCP[c] = "closed"
    /\ Session!FinishWorker(s)
    /\ UNCHANGED <<mainVars, sharedVars, childVars>>

SessionFree(s) ==
    Session!Free(s) /\ UNCHANGED <<mainVars, sharedVars, childVars>>

-----------------------------------------------------------------------------
(* The main thread: the client *)

\* AcceptClient: MallocChannel, and the server's half of the handshake is sent.
AcceptClient(c) ==
    /\ phase[c] = "none"
    /\ mapChannel' = mapChannel \cup {c}
    /\ phase' = [phase EXCEPT ![c] = "hello"]
    /\ hWorkTCP' = [hWorkTCP EXCEPT ![c] = "open"]
    /\ uvHandleRef' = [uvHandleRef EXCEPT ![c] = 1]
    /\ mainWrites' = [mainWrites EXCEPT ![c] = 1]
    /\ ref' = [ref EXCEPT ![c] = 1]
    /\ UNCHANGED <<sessionVars, isDead, stage, retryTimer, lstMainThreadOP,
                   ctrl, forwards, childVars>>

\* AcceptClient when uv_accept fails.
AcceptFail(c) ==
    /\ phase[c] = "none"
    /\ mapChannel' = mapChannel \cup {c}
    /\ phase' = [phase EXCEPT ![c] = "refused"]
    /\ hWorkTCP' = [hWorkTCP EXCEPT ![c] = "open"]
    /\ uvHandleRef' = [uvHandleRef EXCEPT ![c] = 1]
    /\ isDead' = [isDead EXCEPT ![c] = TRUE]
    /\ stage' = [stage EXCEPT ![c] = "opeate"]
    /\ UNCHANGED <<sessionVars, mainWrites, retryTimer, sharedVars, childVars>>

\* ReadStream gets an error or the end of the stream.  Only the first packet of
\* a client decides its phase; whoever is dead is still read until its handle is
\* closed.
MainReadError(c) ==
    /\ hWorkTCP[c] = "open"
    /\ hWorkTCP' = [hWorkTCP EXCEPT ![c] = "closing"]
    /\ FreeChannel(c)
    /\ UNCHANGED <<sessionVars, mapChannel, uvHandleRef, phase, mainWrites,
                   retryTimer, sharedVars, childVars>>

Hello(c) == phase[c] = "hello" /\ hWorkTCP[c] = "open"

\* ChannelHandShake refuses the client's packet.
HelloRefused(c) ==
    /\ Hello(c)
    /\ phase' = [phase EXCEPT ![c] = "refused"]
    /\ FreeChannel(c)
    /\ UNCHANGED <<sessionVars, mapChannel, uvHandleRef, hWorkTCP, mainWrites,
                   retryTimer, sharedVars, childVars>>

\* ChannelHandShake of a client that needs no target (CheckAutoFillTarget).
HelloLocal(c) ==
    /\ Hello(c)
    /\ phase' = [phase EXCEPT ![c] = "local"]
    /\ UNCHANGED <<sessionVars, mapChannel, isDead, stage, uvHandleRef, hWorkTCP,
                   mainWrites, retryTimer, sharedVars, childVars>>

\* ChannelHandShake, BindChannelToSession finds no session: the client is told.
HelloNoSession(c) ==
    /\ Hello(c)
    /\ AliveSessions = {}
    /\ mainWrites[c] < MaxWrites
    /\ phase' = [phase EXCEPT ![c] = "refused"]
    /\ MainSend(c)
    /\ FreeChannel(c)
    /\ UNCHANGED <<sessionVars, mapChannel, uvHandleRef, hWorkTCP, retryTimer,
                   lstMainThreadOP, ctrl, forwards, childVars>>

\* Fault: Bind takes no reference for its close callback.
BindChannelToSessionNoRef(c) ==
    /\ Hello(c)
    /\ AliveSessions # {}
    /\ phase' = [phase EXCEPT ![c] = "bound"]
    /\ hWorkTCP' = [hWorkTCP EXCEPT ![c] = "closing"]
    /\ UNCHANGED <<sessionVars, mapChannel, isDead, stage, uvHandleRef,
                   mainWrites, retryTimer, sharedVars, childVars>>

\* BindChannelToSession: the descriptor is duplicated and hWorkTCP closed; the
\* reference keeps the cancelled writes from freeing the channel.
BindChannelToSession(c) ==
    /\ Hello(c)
    /\ AliveSessions # {}
    /\ phase' = [phase EXCEPT ![c] = "bound"]
    /\ hWorkTCP' = [hWorkTCP EXCEPT ![c] = "closingRef"]
    /\ ref' = [ref EXCEPT ![c] = @ + 1]
    /\ UNCHANGED <<sessionVars, mapChannel, isDead, stage, uvHandleRef,
                   mainWrites, retryTimer, lstMainThreadOP, ctrl, forwards,
                   childVars>>

\* Fault: the next-loop callback trusts the session that Bind found, whichever
\* it was, and sends to nobody when it is gone.
BindNextLoopNoSession(c) ==
    /\ phase[c] = "bound"
    /\ hWorkTCP[c] = "closed"
    /\ phase' = [phase EXCEPT ![c] = "sent"]
    /\ UNCHANGED <<sessionVars, mapChannel, isDead, stage, uvHandleRef, hWorkTCP,
                   mainWrites, retryTimer, sharedVars, childVars>>

\* The DoNextLoop callback of BindChannelToSession, in the iteration after the
\* one that closed hWorkTCP.  The session is looked up again; when there is none
\* any more the callback returns and nobody owns the channel.
BindNextLoop(c) ==
    /\ phase[c] = "bound"
    /\ hWorkTCP[c] = "closed"
    /\ \/ \E s \in AliveSessions :
              /\ ctrl' = [ctrl EXCEPT ![s] =
                              Append(@, [cmd |-> "SP_ATTACH_CHANNEL", ch |-> c])]
              /\ phase' = [phase EXCEPT ![c] = "sent"]
       \/ /\ AliveSessions = {}
          /\ phase' = [phase EXCEPT ![c] = "orphan"]
          /\ UNCHANGED ctrl
    /\ UNCHANGED <<sessionVars, mapChannel, isDead, stage, uvHandleRef, hWorkTCP,
                   mainWrites, retryTimer, ref, lstMainThreadOP, forwards,
                   childVars>>

Local(c) ==
    /\ phase[c] = "local"
    /\ hWorkTCP[c] = "open"
    /\ mainWrites[c] < MaxWrites

\* ReadChannel and DoCommandLocal: the answer is sent, and the channel ends.
LocalCommand(c) ==
    /\ Local(c)
    /\ MainSend(c)
    /\ FreeChannel(c)
    /\ UNCHANGED <<sessionVars, mapChannel, uvHandleRef, phase, hWorkTCP,
                   retryTimer, lstMainThreadOP, ctrl, forwards, childVars>>

\* The same for a command that leaves the channel open: waiting for a target,
\* or a client that asked to be kept alive.
LocalCommandKeepAlive(c) ==
    /\ Local(c)
    /\ MainSend(c)
    /\ UNCHANGED <<sessionVars, mapChannel, isDead, stage, uvHandleRef, phase,
                   hWorkTCP, retryTimer, lstMainThreadOP, ctrl, forwards,
                   childVars>>

\* NewConnectTry: a timer will tell the client how the connection went.
NewConnectTry(c) ==
    /\ phase[c] = "local"
    /\ hWorkTCP[c] = "open"
    /\ ~retryTimer[c]
    /\ retryTimer' = [retryTimer EXCEPT ![c] = TRUE]
    /\ UNCHANGED <<sessionVars, mapChannel, isDead, stage, uvHandleRef, phase,
                   hWorkTCP, mainWrites, sharedVars, childVars>>

\* OrderConnecTargetResult, when the target is connected or the retries are used
\* up.  On a deleted channel it reads freed memory; what follows is not modelled.
OrderConnecTargetResult(c) ==
    /\ retryTimer[c]
    /\ stage[c] # "done"
    /\ mainWrites[c] < MaxWrites
    /\ retryTimer' = [retryTimer EXCEPT ![c] = FALSE]
    /\ MainSend(c)
    /\ FreeChannel(c)
    /\ UNCHANGED <<sessionVars, mapChannel, uvHandleRef, phase, hWorkTCP,
                   lstMainThreadOP, ctrl, forwards, childVars>>

\* WriteCallback on loopMain.  A write that failed or was cancelled closes the
\* handle and, with the last reference, frees the channel.
MainWriteCallback(c, failed) ==
    /\ mainWrites[c] > 0
    /\ hWorkTCP[c] # "closed"
    /\ mainWrites' = [mainWrites EXCEPT ![c] = @ - 1]
    /\ ref' = [ref EXCEPT ![c] = @ - 1]
    /\ hWorkTCP' = IF failed /\ hWorkTCP[c] = "open"
                   THEN [hWorkTCP EXCEPT ![c] = "closing"] ELSE hWorkTCP
    /\ IF failed /\ ref[c] = 1 THEN FreeChannel(c) ELSE UNCHANGED <<isDead, stage>>
    /\ UNCHANGED <<sessionVars, mapChannel, uvHandleRef, phase, retryTimer,
                   lstMainThreadOP, ctrl, forwards, childVars>>

\* The end of uv_close on loopMain; libuv cancels the writes first.
CloseMainHandle(c) ==
    /\ hWorkTCP[c] \in {"closing", "closingRef", "closingFree"}
    /\ mainWrites[c] = 0
    /\ hWorkTCP' = [hWorkTCP EXCEPT ![c] = "closed"]
    /\ ref' = [ref EXCEPT ![c] = IF hWorkTCP[c] = "closingRef" THEN @ - 1 ELSE @]
    /\ uvHandleRef' = [uvHandleRef EXCEPT ![c] =
                           IF hWorkTCP[c] = "closingFree" THEN @ - 1 ELSE @]
    /\ UNCHANGED <<sessionVars, mapChannel, isDead, stage, phase, mainWrites,
                   retryTimer, lstMainThreadOP, ctrl, forwards, childVars>>

-----------------------------------------------------------------------------
(* The main thread: teardown *)

\* The request of a worker (AsyncMainLoopTask).
AsyncMainLoopTask(c) ==
    /\ c \in lstMainThreadOP
    /\ lstMainThreadOP' = lstMainThreadOP \ {c}
    /\ FreeChannel(c)
    /\ UNCHANGED <<sessionVars, mapChannel, uvHandleRef, phase, hWorkTCP,
                   mainWrites, retryTimer, ref, ctrl, forwards, childVars>>

\* RemoveFportkey by a client of the main thread, or by one that a worker serves
\* (CMD_FORWARD_REMOVE is executed where the client is).  When the session has
\* been deleted only the entry goes.
RemoveFportkey(c) ==
    /\ c \in forwards
    /\ forwards' = forwards \ {c}
    /\ \/ life[target[c]] # "freed" /\ FreeChannel(c) /\ UNCHANGED lstMainThreadOP
       \/ life[target[c]] # "freed" /\ PushFree(c) /\ UNCHANGED <<isDead, stage>>
       \/ life[target[c]] = "freed" /\ UNCHANGED <<isDead, stage, lstMainThreadOP>>
    /\ UNCHANGED <<sessionVars, mapChannel, uvHandleRef, phase, hWorkTCP,
                   mainWrites, retryTimer, ref, ctrl, childVars>>

\* FreeChannelContinue.
FreeChannelContinue(c) ==
    /\ stage' = [stage EXCEPT ![c] = "finally"]
    /\ IF hWorkTCP[c] = "open"
       THEN hWorkTCP' = [hWorkTCP EXCEPT ![c] = "closingFree"] /\ UNCHANGED uvHandleRef
       ELSE uvHandleRef' = [uvHandleRef EXCEPT ![c] = @ - 1] /\ UNCHANGED hWorkTCP

\* FreeChannelOpeate finds the channel on a worker's loop: the worker is told to
\* let go if its session is alive (ChannelSendSessionCtrlMsg), and waited for
\* in any case.
Detach(c) ==
    /\ stage' = [stage EXCEPT ![c] = "waitChild"]
    /\ ctrl' = [s \in Sessions |->
           IF s = target[c] /\ life[s] = "live"
           THEN Append(ctrl[s], [cmd |-> "SP_DEATCH_CHANNEL", ch |-> c])
           ELSE ctrl[s]]
    /\ UNCHANGED <<hWorkTCP, uvHandleRef>>

\* A timer runs after the closes of earlier iterations have ended.
OpeateDue(c) == stage[c] = "opeate" /\ hWorkTCP[c] \in {"open", "closed"}

\* Fault: the references are not waited for.
FreeChannelOpeateNoRef(c) ==
    /\ OpeateDue(c)
    /\ IF hChildWorkTCP[c] # "none"
       THEN Detach(c) ELSE FreeChannelContinue(c) /\ UNCHANGED ctrl
    /\ UNCHANGED <<sessionVars, mapChannel, isDead, phase, mainWrites,
                   retryTimer, ref, lstMainThreadOP, forwards, childVars>>

\* FreeChannelOpeate, the timer FreeChannel arms; it repeats until ref is zero.
FreeChannelOpeate(c) ==
    /\ OpeateDue(c)
    /\ ref[c] = 0
    /\ IF hChildWorkTCP[c] # "none"
       THEN Detach(c) ELSE FreeChannelContinue(c) /\ UNCHANGED ctrl
    /\ UNCHANGED <<sessionVars, mapChannel, isDead, phase, mainWrites,
                   retryTimer, ref, lstMainThreadOP, forwards, childVars>>

\* callbackCheckFreeChannelContinue, the timer FreeChannelOpeate arms.
CheckFreeChannelContinue(c) ==
    /\ stage[c] = "waitChild"
    /\ childCleared[c]
    /\ FreeChannelContinue(c)
    /\ UNCHANGED <<sessionVars, mapChannel, isDead, phase, mainWrites,
                   retryTimer, sharedVars, childVars>>

\* Fault: uvHandleRef is not tested.
FreeChannelFinallyEarly(c) ==
    /\ stage[c] = "finally"
    /\ mapChannel' = mapChannel \ {c}
    /\ stage' = [stage EXCEPT ![c] = "done"]
    /\ UNCHANGED <<sessionVars, isDead, uvHandleRef, phase, hWorkTCP, mainWrites,
                   retryTimer, sharedVars, childVars>>

\* FreeChannelFinally: off the map, and deleted.  ref is not looked at.
FreeChannelFinally(c) ==
    /\ stage[c] = "finally"
    /\ uvHandleRef[c] = 0
    /\ mapChannel' = mapChannel \ {c}
    /\ stage' = [stage EXCEPT ![c] = "done"]
    /\ hChildWorkTCP' = [hChildWorkTCP EXCEPT ![c] = IF @ = "open" THEN "closing" ELSE @]
    /\ UNCHANGED <<sessionVars, isDead, uvHandleRef, phase, hWorkTCP, mainWrites,
                   retryTimer, sharedVars, target, childWrites, clearIdle,
                   childCleared, job>>

-----------------------------------------------------------------------------
(* The worker of a session *)

NextCommand(s, command) ==
    /\ WorkerIdle(s)
    /\ ctrl[s] # <<>>
    /\ Head(ctrl[s]).cmd = command

Took(s) == ctrl' = [ctrl EXCEPT ![s] = Tail(@)]

\* AttachChannel pins the channel ...
AttachQuery(s) ==
    LET c == Head(ctrl[s]).ch IN
    /\ NextCommand(s, "SP_ATTACH_CHANNEL")
    /\ Took(s)
    /\ IF c \in mapChannel
       THEN /\ ref' = [ref EXCEPT ![c] = @ + 1]
            /\ job' = [job EXCEPT ![s] = [ch |-> c, at |-> "attach"]]
       ELSE UNCHANGED <<ref, job>>
    /\ UNCHANGED <<sessionVars, mainVars, lstMainThreadOP, forwards, target,
                   hChildWorkTCP, childWrites, clearIdle, childCleared>>

\* ... and puts the duplicated descriptor on its loop.  When uv_tcp_open fails
\* the handle is closed again and nobody is told.
AttachOpen(s, opened) ==
    LET c == job[s].ch IN
    /\ job[s].at = "attach"
    /\ opened \/ OpenMayFail
    /\ target' = [target EXCEPT ![c] = s]
    /\ hChildWorkTCP' = [hChildWorkTCP EXCEPT ![c] =
                             IF opened THEN "open" ELSE "closing"]
    /\ ref' = [ref EXCEPT ![c] = @ - 1]
    /\ job' = [job EXCEPT ![s] = Idle]
    /\ UNCHANGED <<sessionVars, mainVars, lstMainThreadOP, ctrl, forwards,
                   childWrites, clearIdle, childCleared>>

\* Fault: for a handle that is closing already nobody tells the main thread.
DeatchChannelNoIdle(s) ==
    LET c == Head(ctrl[s]).ch IN
    /\ NextCommand(s, "SP_DEATCH_CHANNEL")
    /\ Took(s)
    /\ hChildWorkTCP' = [hChildWorkTCP EXCEPT ![c] =
                             IF @ = "open" THEN "clearing" ELSE @]
    /\ UNCHANGED <<sessionVars, mainVars, ref, lstMainThreadOP, forwards, target,
                   childWrites, clearIdle, childCleared, job>>

\* DeatchChannel, without a pin.  A handle that is closing already has nobody to
\* tell the main thread: an idle callback does.
DeatchChannel(s) ==
    LET c == Head(ctrl[s]).ch IN
    /\ NextCommand(s, "SP_DEATCH_CHANNEL")
    /\ Took(s)
    /\ IF c \in mapChannel /\ ~childCleared[c]
       THEN IF hChildWorkTCP[c] = "open"
            THEN /\ hChildWorkTCP' = [hChildWorkTCP EXCEPT ![c] = "clearing"]
                 /\ UNCHANGED clearIdle
            ELSE clearIdle' = clearIdle \cup {c} /\ UNCHANGED hChildWorkTCP
       ELSE UNCHANGED <<hChildWorkTCP, clearIdle>>
    /\ UNCHANGED <<sessionVars, mainVars, ref, lstMainThreadOP, forwards, target,
                   childWrites, childCleared, job>>

\* The DoNextLoop callback of DeatchChannel.
ClearDirect(s, c) ==
    /\ Serves(s, c)
    /\ c \in clearIdle
    /\ hChildWorkTCP[c] = "closed"
    /\ clearIdle' = clearIdle \ {c}
    /\ childCleared' = [childCleared EXCEPT ![c] = TRUE]
    /\ UNCHANGED <<sessionVars, mainVars, sharedVars, target, hChildWorkTCP,
                   childWrites, job>>

\* The end of uv_close on the child loop; libuv cancels the writes first.
CloseChildHandle(s, c) ==
    /\ Serves(s, c)
    /\ hChildWorkTCP[c] \in {"closing", "clearing"}
    /\ Pending(c) = 0
    /\ hChildWorkTCP' = [hChildWorkTCP EXCEPT ![c] = "closed"]
    /\ childCleared' = [childCleared EXCEPT ![c] =
                            @ \/ hChildWorkTCP[c] = "clearing"]
    /\ UNCHANGED <<sessionVars, mainVars, sharedVars, target, childWrites,
                   clearIdle, job>>

\* ReadStream gets an error or the end of the stream.
ReadStreamError(s, c) ==
    /\ Serves(s, c)
    /\ hChildWorkTCP[c] = "open"
    /\ hChildWorkTCP' = [hChildWorkTCP EXCEPT ![c] = "closing"]
    /\ PushFree(c)
    /\ UNCHANGED <<sessionVars, mainVars, ref, ctrl, forwards, target,
                   childWrites, clearIdle, childCleared, job>>

\* ReadChannel refuses a command (unknown, or the daemon cannot be reached): the
\* client is told and the channel ends.  isDead is not looked at.
ReadChannelFail(s, c) ==
    /\ Serves(s, c)
    /\ hChildWorkTCP[c] = "open"
    /\ childWrites[c]["reply"] < MaxWrites
    /\ childWrites' = [childWrites EXCEPT ![c] =
                           [childWrites[c] EXCEPT !["reply"] = @ + 1]]
    /\ ref' = [ref EXCEPT ![c] = @ + 1]
    /\ PushFree(c)
    /\ UNCHANGED <<sessionVars, mainVars, ctrl, forwards, target, hChildWorkTCP,
                   clearIdle, childCleared, job>>

\* WriteCallback on the child loop.
WriteCallback(s, c, k, failed) ==
    /\ Serves(s, c)
    /\ childWrites[c][k] > 0
    /\ childWrites' = [childWrites EXCEPT ![c] =
                           [childWrites[c] EXCEPT ![k] = @ - 1]]
    /\ ref' = [ref EXCEPT ![c] = @ - 1]
    /\ hChildWorkTCP' = IF failed /\ hChildWorkTCP[c] = "open"
                        THEN [hChildWorkTCP EXCEPT ![c] = "closing"]
                        ELSE hChildWorkTCP
    /\ IF failed /\ ~isDead[c] /\ ref[c] = 1
       THEN PushFree(c) ELSE UNCHANGED lstMainThreadOP
    /\ UNCHANGED <<sessionVars, mainVars, ctrl, forwards, target, clearIdle,
                   childCleared, job>>

-----------------------------------------------------------------------------
(* The worker of a session: FetchCommand, a packet of the daemon for a channel *)

\* FetchCommand pins the channel.  A channel that is off the map is reported to
\* the daemon, and nothing changes here.
FetchQuery(s, c) ==
    /\ Serves(s, c)
    /\ c \in mapChannel
    /\ ref' = [ref EXCEPT ![c] = @ + 1]
    /\ job' = [job EXCEPT ![s] = [ch |-> c, at |-> "query"]]
    /\ UNCHANGED <<sessionVars, mainVars, lstMainThreadOP, ctrl, forwards,
                   target, hChildWorkTCP, childWrites, clearIdle, childCleared>>

Unpin(s) ==
    /\ ref' = [ref EXCEPT ![job[s].ch] = @ - 1]
    /\ job' = [job EXCEPT ![s] = Idle]

\* Fault: the pin of a dead channel is kept.
FetchDeadPinned(s) ==
    /\ job[s].at = "query"
    /\ isDead[job[s].ch]
    /\ job' = [job EXCEPT ![s] = Idle]
    /\ UNCHANGED <<sessionVars, mainVars, sharedVars, target, hChildWorkTCP,
                   childWrites, clearIdle, childCleared>>

\* The channel is dead: the packet is dropped.
FetchDead(s) ==
    /\ job[s].at = "query"
    /\ isDead[job[s].ch]
    /\ Unpin(s)
    /\ UNCHANGED <<sessionVars, mainVars, lstMainThreadOP, ctrl, forwards,
                   target, hChildWorkTCP, childWrites, clearIdle, childCleared>>

\* The channel was alive when isDead was read.
FetchAlive(s) ==
    /\ job[s].at = "query"
    /\ ~isDead[job[s].ch]
    /\ job' = [job EXCEPT ![s] = [ch |-> job[s].ch, at |-> "alive"]]
    /\ UNCHANGED <<sessionVars, mainVars, sharedVars, target, hChildWorkTCP,
                   childWrites, clearIdle, childCleared>>

\* CMD_KERNEL_ECHO, CMD_KERNEL_ECHO_RAW and the file commands of a remote client
\* are written to the client; the write's reference takes the place of the pin.
FetchEcho(s) ==
    LET c == job[s].ch IN
    /\ job[s].at = "alive"
    /\ hChildWorkTCP[c] = "open"
    /\ childWrites[c]["echo"] < MaxWrites
    /\ childWrites' = [childWrites EXCEPT ![c] =
                           [childWrites[c] EXCEPT !["echo"] = @ + 1]]
    /\ job' = [job EXCEPT ![s] = Idle]
    /\ UNCHANGED <<sessionVars, mainVars, sharedVars, target, hChildWorkTCP,
                   clearIdle, childCleared>>

\* Any other packet goes to a task, or the client's socket is gone.
FetchOther(s) ==
    /\ job[s].at = "alive"
    /\ Unpin(s)
    /\ UNCHANGED <<sessionVars, mainVars, lstMainThreadOP, ctrl, forwards,
                   target, hChildWorkTCP, childWrites, clearIdle, childCleared>>

\* CMD_KERNEL_CHANNEL_CLOSE.
FetchChannelClose(s) ==
    /\ job[s].at = "alive"
    /\ PushFree(job[s].ch)
    /\ Unpin(s)
    /\ UNCHANGED <<sessionVars, mainVars, ctrl, forwards, target, hChildWorkTCP,
                   childWrites, clearIdle, childCleared>>

\* CMD_FORWARD_SUCCESS: the client is let go and the channel stays behind in
\* mapForward.
FetchForwardSuccess(s) ==
    LET c == job[s].ch IN
    /\ job[s].at = "alive"
    /\ forwards' = forwards \cup {c}
    /\ hChildWorkTCP' = [hChildWorkTCP EXCEPT ![c] =
                             IF @ = "open" THEN "closing" ELSE @]
    /\ Unpin(s)
    /\ UNCHANGED <<sessionVars, mainVars, lstMainThreadOP, ctrl, target,
                   childWrites, clearIdle, childCleared>>

-----------------------------------------------------------------------------
SessionStep(s) ==
    \/ SessionOpen(s)
    \/ SessionStart(s)
    \/ SessionKill(s)
    \/ TryCloseChildLoop(s)
    \/ SessionFinish(s)
    \/ SessionFree(s)

\* What clients, the network and the connection timer decide.
Client(c) ==
    \/ AcceptClient(c)
    \/ AcceptFail(c)
    \/ MainReadError(c)
    \/ HelloRefused(c)
    \/ HelloLocal(c)
    \/ HelloNoSession(c)
    \/ BindChannelToSession(c)
    \/ LocalCommand(c)
    \/ LocalCommandKeepAlive(c)
    \/ NewConnectTry(c)
    \/ OrderConnecTargetResult(c)
    \/ RemoveFportkey(c)

MainWrites(c) == \E failed \in BOOLEAN : MainWriteCallback(c, failed)

\* The callbacks of loopMain that run at most once in the life of a channel.
MainOnce(c) ==
    \/ CloseMainHandle(c)
    \/ BindNextLoop(c)
    \/ CheckFreeChannelContinue(c)
    \/ FreeChannelFinally(c)

MainLoop(c) ==
    \/ MainWrites(c)
    \/ MainOnce(c)
    \/ AsyncMainLoopTask(c)
    \/ FreeChannelOpeate(c)

\* What clients and the daemon send to a worker.
Traffic(s, c) ==
    \/ ReadStreamError(s, c)
    \/ ReadChannelFail(s, c)
    \/ FetchQuery(s, c)

ReadCtrl(s) == AttachQuery(s) \/ DeatchChannel(s)

Attach(s) == \E opened \in BOOLEAN : AttachOpen(s, opened)

Fetch(s) ==
    \/ FetchDead(s)
    \/ FetchAlive(s)
    \/ FetchEcho(s)
    \/ FetchOther(s)
    \/ FetchChannelClose(s)
    \/ FetchForwardSuccess(s)

ChildWrites(s, c, k) ==
    \E failed \in BOOLEAN : WriteCallback(s, c, k, failed)

ChildClose(s, c) == ClearDirect(s, c) \/ CloseChildHandle(s, c)

WorkerStep(s) ==
    \/ ReadCtrl(s)
    \/ Attach(s)
    \/ Fetch(s)
    \/ \E c \in Channels :
           \/ ChildClose(s, c)
           \/ \E k \in Kinds : ChildWrites(s, c, k)
           \/ Traffic(s, c)

Next ==
    \/ \E s \in Sessions : SessionStep(s) \/ WorkerStep(s)
    \/ \E c \in Channels : Client(c) \/ MainLoop(c)

Spec == Init /\ [][Next]_vars

\* Both loops run the callbacks that are due.  The strong fairness is that of
\* things a loop comes back to while it does others: a timer that repeats until
\* it finds no write under way, and a loop that serves its descriptors in turn.
\* Nothing is assumed of clients, daemons or the lives of sessions.
Fairness ==
    /\ \A c \in Channels :
           /\ WF_vars(MainWrites(c))
           /\ WF_vars(AsyncMainLoopTask(c))
           /\ SF_vars(FreeChannelOpeate(c))
           /\ WF_vars(MainOnce(c))
    /\ \A s \in Sessions :
           /\ SF_vars(ReadCtrl(s))
           /\ WF_vars(Attach(s) \/ Fetch(s))
           /\ \A c \in Channels :
                  /\ SF_vars(ChildClose(s, c))
                  /\ \A k \in Kinds : SF_vars(ChildWrites(s, c, k))

FairSpec == Spec /\ Fairness

-----------------------------------------------------------------------------
(* Safety *)

\* Bound to its session, a channel is freed by nobody until the worker has
\* attached it, neither by the writes BindChannelToSession cancels nor by
\* another client: AttachChannel initialises a handle of a live object.
AttachFindsLive ==
    \A s \in Sessions : \A i \in 1..Len(ctrl[s]) :
        ctrl[s][i].cmd = "SP_ATTACH_CHANNEL" =>
            ctrl[s][i].ch \in mapChannel /\ ~isDead[ctrl[s][i].ch]

\* DeatchChannel takes no reference; the channel it was sent for is there all the
\* same, because nobody sets childCleared before.
DetachFindsChannel ==
    \A s \in Sessions : \A i \in 1..Len(ctrl[s]) :
        ctrl[s][i].cmd = "SP_DEATCH_CHANNEL" =>
            ctrl[s][i].ch \in mapChannel /\ ~childCleared[ctrl[s][i].ch]

\* libuv calls back with the channel as handle->data: when FreeChannelFinally
\* deletes it no handle of it is open or closing on either loop, no write is
\* under way, and DeatchChannel's idle callback has run.
DeletedHasNoHandle ==
    \A c \in Channels :
        stage[c] = "done" =>
            /\ hWorkTCP[c] = "closed" /\ mainWrites[c] = 0
            /\ hChildWorkTCP[c] \in {"none", "closed"} /\ Pending(c) = 0
            /\ c \notin clearIdle

\* ref counts the threads that hold a pin, the writes under way on both loops and
\* the close BindChannelToSession waits for, and nothing else: a lost decrement
\* keeps a channel for ever, one too many frees it under a thread.
Holders(c) == {s \in Sessions : job[s].ch = c}

RefCountsHolders ==
    \A c \in Channels :
        ref[c] = mainWrites[c] + Pending(c)
                 + (IF hWorkTCP[c] = "closingRef" THEN 1 ELSE 0)
                 + Cardinality(Holders(c))

\* A worker that pinned a channel and saw it alive may use it until it unpins,
\* although the main thread may declare it dead at any moment in between.
PinnedAliveIsThere ==
    \A s \in Sessions :
        job[s].at \in {"attach", "alive"} => job[s].ch \in mapChannel

\* A worker finds the channel it works for: the one a command names, which nobody
\* pinned for it, and the one it pinned and found alive.
WorkerFindsChannel == AttachFindsLive /\ DetachFindsChannel /\ PinnedAliveIsThere

\* What the daemon sent for the client before the channel died is written before
\* the socket is closed: once FreeChannelOpeate has found no reference, no worker
\* will write for the daemon any more and none of its writes is under way.
OutputIsDelivered ==
    \A c \in Channels :
        stage[c] \in {"waitChild", "finally", "done"} =>
            /\ childWrites[c]["echo"] = 0
            /\ \A s \in Sessions : job[s] # [ch |-> c, at |-> "alive"]

(* The invariants behind these *)

\* The channel that is named may be attached: its session's worker owes it a
\* handle, and until then nobody knows of it who could free it.
Unattached(c) == phase[c] = "sent" /\ hChildWorkTCP[c] = "none"

\* How far the client's conversation and the teardown have come together.
PhaseOK(c) ==
    /\ hWorkTCP[c] = "none" <=> phase[c] = "none"
    /\ phase[c] = "none" => stage[c] = "none" /\ mainWrites[c] = 0
    /\ phase[c] = "hello" /\ hWorkTCP[c] = "open" => ~isDead[c]
    /\ phase[c] = "bound" => hWorkTCP[c] \in {"closingRef", "closed"} /\ ~isDead[c]
    /\ phase[c] \in {"sent", "orphan"} => hWorkTCP[c] = "closed"
    /\ Unattached(c) => ~isDead[c]
    /\ retryTimer[c] => phase[c] = "local"
    /\ c \in lstMainThreadOP \cup forwards => hChildWorkTCP[c] # "none"

\* The stages of FreeChannel: mapChannel and uvHandleRef say the same.
StageOK(c) ==
    /\ isDead[c] <=> stage[c] # "none"
    /\ c \in mapChannel <=> phase[c] # "none" /\ stage[c] # "done"
    /\ uvHandleRef[c] = 1 <=>
           /\ phase[c] # "none"
           /\ stage[c] \in {"finally", "done"} => hWorkTCP[c] = "closingFree"
    /\ hWorkTCP[c] = "closingFree" => stage[c] = "finally"
    /\ stage[c] \in {"finally", "done"} => hWorkTCP[c] \in {"closingFree", "closed"}
    /\ hWorkTCP[c] = "closed" => mainWrites[c] = 0
    /\ hWorkTCP[c] = "closingRef" => phase[c] = "bound"

\* The handle on the child loop, and how the main thread waits for it.
ChildOK(c) ==
    /\ hChildWorkTCP[c] = "none" <=> target[c] = NoSession
    /\ hChildWorkTCP[c] # "none" => phase[c] = "sent"
    /\ hChildWorkTCP[c] \in {"none", "closed"} => Pending(c) = 0
    /\ hChildWorkTCP[c] = "clearing" => stage[c] = "waitChild" /\ ~childCleared[c]
    /\ c \in clearIdle =>
           /\ stage[c] = "waitChild" /\ ~childCleared[c]
           /\ hChildWorkTCP[c] \in {"closing", "closed"}
    /\ childCleared[c] =>
           /\ hChildWorkTCP[c] = "closed"
           /\ stage[c] \in {"waitChild", "finally", "done"}
    /\ stage[c] = "waitChild" => hChildWorkTCP[c] # "none"
    /\ stage[c] \in {"finally", "done"} =>
           hChildWorkTCP[c] = "none" \/ childCleared[c]
    /\ stage[c] \in {"waitChild", "finally", "done"} => childWrites[c]["echo"] = 0

\* A command waits for its worker once, and means what the main thread saw when
\* it sent it.
CommandOK(m) ==
    /\ m.cmd = "SP_ATTACH_CHANNEL" => Unattached(m.ch)
    /\ m.cmd = "SP_DEATCH_CHANNEL" =>
           /\ stage[m.ch] = "waitChild" /\ ~childCleared[m.ch]
           /\ m.ch \notin clearIdle /\ hChildWorkTCP[m.ch] # "clearing"

CommandInv ==
    \A s \in Sessions : \A i \in 1..Len(ctrl[s]) :
        /\ CommandOK(ctrl[s][i])
        /\ \A t \in Sessions : \A j \in 1..Len(ctrl[t]) :
               ctrl[s][i] = ctrl[t][j] => s = t /\ i = j

\* What the worker inside a callback knows of its channel.
JobOK(s) ==
    /\ job[s].at = "attach" => Unattached(job[s].ch)
    /\ job[s].at \in {"query", "alive"} => hChildWorkTCP[job[s].ch] # "none"
    /\ job[s].at = "alive" => stage[job[s].ch] \in {"none", "opeate"}

\* One worker attaches a channel, when it has read the only command to do so.
JobInv ==
    \A s \in Sessions :
        /\ JobOK(s)
        /\ job[s].at = "attach" =>
               \A t \in Sessions :
                   /\ job[t] = job[s] => t = s
                   /\ \A i \in 1..Len(ctrl[t]) :
                          ctrl[t][i] # [cmd |-> "SP_ATTACH_CHANNEL", ch |-> job[s].ch]

ChannelInv ==
    /\ TypeOK
    /\ \A c \in Channels :
           PhaseOK(c) /\ StageOK(c) /\ ChildOK(c) /\ IsFiniteSet(Holders(c))
    /\ RefCountsHolders
    /\ CommandInv
    /\ JobInv

(* Liveness *)

\* The session of c is dead, or about to be.
SessionLost(c) == target[c] \in Sessions /\ life[target[c]] # "live"

\* FreeChannel ends with the object deleted, unless the session dies first.
DeadChannelIsFreed ==
    \A c \in Channels : isDead[c] ~> stage[c] = "done" \/ SessionLost(c)

\* A client that was bound gets a worker, unless there is no session left.
BoundIsAttached ==
    \A c \in Channels :
        phase[c] = "bound" ~> hChildWorkTCP[c] # "none" \/ phase[c] = "orphan"

\* When the client's socket is gone, by a read error or by a failed write, its
\* channel ends; only a channel that stands for a forward stays.
ClientGoneEndsChannel ==
    \A c \in Channels :
        hChildWorkTCP[c] = "closed" ~>
            isDead[c] \/ c \in forwards \/ SessionLost(c)

\* A channel ends when its client is gone, and one that ends is deleted.
ChannelsEnd == ClientGoneEndsChannel /\ DeadChannelIsFreed

(* What the comments promise and the code does not keep *)

\* channel.cpp:410 has FreeChannelFinally run when all callbacks of the channel
\* have finished; the timer of NewConnectTry is one it does not know of.
RetryTimerHasChannel ==
    \A c \in Channels : retryTimer[c] => stage[c] # "done"

\* server.cpp:930 has a thread need OP_QUERY_REF to use a channel once
\* childCleared is set; a channel that is pinned so is not deleted.
PinKeepsChannel ==
    \A s \in Sessions : job[s] # Idle => job[s].ch \in mapChannel

\* channel.cpp:201 pairs allocation and release in the main thread.
AllocatedIsReleased ==
    \A c \in Channels : isDead[c] ~> stage[c] = "done"
=============================================================================
