----------------------------- MODULE HdcForward -----------------------------
(***************************************************************************)
(* A port forward: common/forward.cpp, the same class at both ends.  The   *)
(* master listens for local clients; for each one the slave connects to    *)
(* the target, and the two ends copy data both ways.  A context stands for *)
(* one handle of one end: the listener, the check of the target, or one    *)
(* side of a forwarded connection.  Contexts of the two ends that belong   *)
(* together share an id, which the master takes from its clock: contexts   *)
(* made in one millisecond get the same one.                               *)
(*                                                                         *)
(* The ends talk through the session, a FIFO.  Each end runs on one loop;  *)
(* one action is one callback of it.                                       *)
(***************************************************************************)
EXTENDS Integers, Sequences, FiniteSets

CONSTANTS
    MaxContexts,    \* bound: contexts an end makes
    MaxMSec,        \* bound: values GetRuntimeMSec returns
    MaxData,        \* bound: buffers the local peer of a context sends
    ForwardType,    \* "tcp", or "pipe" for the three kinds of local sockets
    AcceptMayFail,  \* whether uv_accept may fail
    Endings         \* how the task may end: "detach", "session", "listener"

ASSUME MaxContextsAssumption == MaxContexts \in Nat
ASSUME MaxMSecAssumption == MaxMSec \in Nat
ASSUME MaxDataAssumption == MaxData \in Nat
ASSUME TypeAssumption == ForwardType \in {"tcp", "pipe"}
ASSUME FlagAssumption == AcceptMayFail \in BOOLEAN
ASSUME EndingsAssumption == Endings \subseteq {"detach", "session", "listener"}

VARIABLES
    ctx,           \* per end and address: the ContextForward
    mapCtxPoint,   \* per end: the context of an id
    refCount,      \* per end: HdcTaskBase::refCount
    taskStop,      \* per end: the task was removed from mapTask and stopped
    released,      \* per end: the task object is deleted
    clock,         \* GetRuntimeMSec at the master
    net,           \* per end: commands on their way to it
    up,            \* the session between the ends is alive
    sent           \* per end and context: buffers read from the local peer

vars == <<ctx, mapCtxPoint, refCount, taskStop, released, clock, net, up, sent>>

\* Addresses, given out in this order and used once; 0 is the null pointer.
Contexts == 1..MaxContexts
NoContext == 0

Ends == {"master", "slave"}
Other(e) == IF e = "master" THEN "slave" ELSE "master"
Ids == 0..MaxMSec

\* state "free" is an unused address; "freeing" has finish set and
\* FreeContextCallBack to come; "deleted" is behind it.  handle is the state of
\* tcp or pipe, whichever sort says; "null" is a handle without a loop.
\* peer is the context of the other end that asked for this one, and got the
\* buffers the local peer has received, each with its sender and number.
Context == [kind : {"none", "listen", "check", "conn"},
            state : {"free", "live", "freeing", "deleted"},
            id : Ids, type : {"tcp", "pipe"}, sort : {"tcp", "pipe"},
            handle : {"null", "open", "listening", "connecting", "connected",
                      "closed"},
            ready : BOOLEAN, reading : BOOLEAN, peer : Contexts \cup {NoContext},
            pending : Seq(Contexts \X (1..MaxData)),
            got : Seq(Contexts \X (1..MaxData))]

Commands == {"CHECK", "CHECK_RESULT", "ACTIVE_SLAVE", "ACTIVE_MASTER", "DATA",
             "FREE_CONTEXT", "CHANNEL_CLOSE"}
\* from and n say whose buffer a DATA command is; n of CHANNEL_CLOSE is its count.
Message == [cmd : Commands, id : Ids, from : Contexts \cup {NoContext},
            n : 0..(MaxData + 1)]

TypeOK ==
    /\ ctx \in [Ends -> [Contexts -> Context]]
    /\ mapCtxPoint \in [Ends -> [Ids -> Contexts \cup {NoContext}]]
    /\ refCount \in [Ends -> Nat]
    /\ taskStop \in [Ends -> BOOLEAN]
    /\ released \in [Ends -> BOOLEAN]
    /\ clock \in Ids
    /\ net \in [Ends -> Seq(Message)]
    /\ up \in BOOLEAN
    /\ sent \in [Ends -> [Contexts -> 0..MaxData]]

Unused == [kind |-> "none", state |-> "free", id |-> 0, type |-> "tcp",
           sort |-> "tcp", handle |-> "null", ready |-> FALSE, reading |-> FALSE,
           peer |-> NoContext, pending |-> <<>>, got |-> <<>>]

\* A context as new ContextForward() makes it.
New == [Unused EXCEPT !.state = "live"]

Init ==
    /\ ctx = [e \in Ends |-> [c \in Contexts |-> Unused]]
    /\ mapCtxPoint = [e \in Ends |-> [i \in Ids |-> NoContext]]
    /\ refCount = [e \in Ends |-> 0]
    /\ taskStop = [e \in Ends |-> FALSE]
    /\ released = [e \in Ends |-> FALSE]
    /\ clock = 0
    /\ net = [e \in Ends |-> <<>>]
    /\ up = TRUE
    /\ sent = [e \in Ends |-> [c \in Contexts |-> 0]]

-----------------------------------------------------------------------------
(* Helpers *)

\* c is the next address new returns at e.
Fresh(e, c) ==
    /\ ctx[e][c].state = "free"
    /\ \A d \in 1..(c - 1) : ctx[e][d].state # "free"

Msg(cmd, id, from, n) == [cmd |-> cmd, id |-> id, from |-> from, n |-> n]

\* q with the commands msgs sent by e, q being net or net without its head.
Sent(q, e, msgs) == IF up THEN [q EXCEPT ![Other(e)] = @ \o msgs] ELSE q

\* SendToTask of one command about context c.
SendToTask(e, c, cmd) == <<Msg(cmd, ctx[e][c].id, c, 0)>>

Finish(e, c) == ctx[e][c].state \in {"freeing", "deleted"}

\* FreeContext: the handle that belongs to the type is closed, if it was opened;
\* the writes under way are cancelled.
FreeContext(x) ==
    IF x.state # "live" THEN x
    ELSE [x EXCEPT !.state = "freeing", !.pending = <<>>, !.reading = FALSE,
                   !.handle = IF @ = "null" \/ x.type # x.sort
                              THEN @ ELSE "closed"]

\* Fault: the other end is not told.
FreeNoticeNone(e, c) == <<>>

\* The command with which FreeContext tells the other end.
FreeNotice(e, c) ==
    IF Finish(e, c) THEN <<>> ELSE SendToTask(e, c, "FREE_CONTEXT")

\* The context a command is for.
Target(e, m) == mapCtxPoint[e][m.id]

\* The task's loop hands commands to a task that was not stopped.
Next1(e) == net[e] # <<>> /\ ~taskStop[e]
Rest(e) == [net EXCEPT ![e] = Tail(@)]

-----------------------------------------------------------------------------
(* The master *)

\* The id a new context gets.
NewMSec == {clock, clock + 1} \cap Ids

\* MallocContext(true), with what the caller makes of the context.
MallocContext(c, i, x) ==
    /\ Fresh("master", c)
    /\ clock' = i
    /\ ctx' = [ctx EXCEPT !["master"][c] = [x EXCEPT !.id = i]]
    /\ mapCtxPoint' = [mapCtxPoint EXCEPT !["master"][i] = c]
    /\ refCount' = [refCount EXCEPT !["master"] = @ + 1]

\* TaskFinish, which TaskCommandDispatch calls when a command failed.
TaskFinish == <<Msg("CHANNEL_CLOSE", 0, NoContext, 1)>>

\* BeginForward: the listener, and the request to check the target.  When the
\* arguments are bad or the address is taken, the task ends and the context waits
\* for StopTask.
BeginForward(c) ==
    /\ \A d \in Contexts : ctx["master"][d].state = "free"
    /\ ~taskStop["master"]
    /\ \E i \in NewMSec, ok \in BOOLEAN :
          /\ MallocContext(c, i, [New EXCEPT !.kind = "listen",
                 !.type = ForwardType, !.sort = ForwardType,
                 !.handle = IF ok THEN "listening" ELSE "open"])
          /\ net' = Sent(net, "master", IF ok THEN <<Msg("CHECK", i, c, 0)>>
                                         ELSE TaskFinish)
    /\ UNCHANGED <<taskStop, released, up, sent>>

\* ListenCallback of a listener that is not ready, or that fails: it is closed
\* and the task ends (TaskFinish).
ListenFail(l) ==
    /\ "listener" \in Endings
    /\ ctx["master"][l].handle = "listening"
    /\ ctx' = [ctx EXCEPT !["master"][l] = FreeContext(@)]
    /\ net' = Sent(net, "master", TaskFinish)
    /\ UNCHANGED <<mapCtxPoint, refCount, taskStop, released, clock, up, sent>>

\* Fault: the client is read before the slave is connected.
ListenCallbackReads(l, c) ==
    /\ ctx["master"][l].handle = "listening"
    /\ ctx["master"][l].ready
    /\ \E i \in NewMSec :
          /\ MallocContext(c, i, [New EXCEPT !.kind = "conn",
                 !.type = ForwardType, !.sort = ForwardType,
                 !.handle = "connected", !.reading = TRUE])
          /\ net' = Sent(net, "master", <<Msg("ACTIVE_SLAVE", i, c, 0)>>)
    /\ UNCHANGED <<taskStop, released, up, sent>>

\* ListenCallback and OnAccept: the slave is asked to connect.
ListenCallback(l, c) ==
    /\ ctx["master"][l].handle = "listening"
    /\ ctx["master"][l].ready
    /\ \E i \in NewMSec :
          /\ MallocContext(c, i, [New EXCEPT !.kind = "conn",
                 !.type = ForwardType, !.sort = ForwardType,
                 !.handle = "connected"])
          /\ net' = Sent(net, "master", <<Msg("ACTIVE_SLAVE", i, c, 0)>>)
    /\ UNCHANGED <<taskStop, released, up, sent>>

\* The same when uv_accept fails: the type is still that of a new context, which
\* is FORWARD_TCP, whatever handle was initialised.
AcceptFail(l, c) ==
    /\ AcceptMayFail
    /\ ctx["master"][l].handle = "listening"
    /\ ctx["master"][l].ready
    /\ \E i \in NewMSec :
          MallocContext(c, i, FreeContext([New EXCEPT !.kind = "conn",
              !.sort = ForwardType, !.handle = "open"]))
    /\ UNCHANGED <<taskStop, released, net, up, sent>>

-----------------------------------------------------------------------------
(* Commands *)

\* Fault: the entry of the temporary id stays.
RenamedKept(t, i, c) ==
    [mapCtxPoint["slave"] EXCEPT ![t] = c, ![i] = c]

\* The map after MallocContext(false) at the slave with temporary id t, which its
\* own clock gives and another context may have, and AdminContext(OP_UPDATE), which
\* gives the context the id of the master.
Renamed(t, i, c) ==
    [mapCtxPoint["slave"] EXCEPT ![t] = NoContext, ![i] = c]

\* SlaveConnect for CMD_FORWARD_CHECK: nothing is connected, the answer is sent
\* and the context freed again.  ok is FALSE when the node is malformed, which ends
\* the task.
SlaveCheck(c, ok) ==
    /\ Next1("slave")
    /\ Fresh("slave", c)
    /\ LET m == Head(net["slave"])
           x == [New EXCEPT !.kind = "check", !.id = m.id, !.peer = m.from] IN
       /\ m.cmd = "CHECK"
       /\ \E t \in Ids :
             mapCtxPoint' = [mapCtxPoint EXCEPT !["slave"] = Renamed(t, m.id, c)]
       /\ ctx' = [ctx EXCEPT !["slave"][c] =
              FreeContext(IF ok THEN [x EXCEPT !.type = ForwardType] ELSE x)]
       /\ net' = Sent(Rest("slave"), "slave",
                      IF ok THEN <<Msg("CHECK_RESULT", m.id, c, 0)>>
                      ELSE <<Msg("FREE_CONTEXT", m.id, c, 0)>> \o TaskFinish)
    /\ refCount' = [refCount EXCEPT !["slave"] = @ + 1]
    /\ UNCHANGED <<taskStop, released, clock, up, sent>>

\* SlaveConnect for CMD_FORWARD_ACTIVE_SLAVE: the connection to the target is
\* started.  ok is FALSE when the node is malformed, which ends the task.
SlaveConnect(c, ok) ==
    /\ Next1("slave")
    /\ Fresh("slave", c)
    /\ LET m == Head(net["slave"])
           x == [New EXCEPT !.kind = "conn", !.id = m.id, !.peer = m.from] IN
       /\ m.cmd = "ACTIVE_SLAVE"
       /\ \E t \in Ids :
             mapCtxPoint' = [mapCtxPoint EXCEPT !["slave"] = Renamed(t, m.id, c)]
       /\ ctx' = [ctx EXCEPT !["slave"][c] =
              IF ok THEN [x EXCEPT !.type = ForwardType, !.sort = ForwardType,
                                   !.handle = "connecting"]
              ELSE FreeContext(x)]
       /\ net' = IF ok THEN Rest("slave")
                 ELSE Sent(Rest("slave"), "slave",
                           <<Msg("FREE_CONTEXT", m.id, c, 0)>> \o TaskFinish)
    /\ refCount' = [refCount EXCEPT !["slave"] = @ + 1]
    /\ UNCHANGED <<taskStop, released, clock, up, sent>>

\* ForwardCommandDispatch drops a command for a context that is not in the map.
CommandForNobody(e) ==
    /\ Next1(e)
    /\ LET m == Head(net[e]) IN
       /\ m.cmd \in Commands \ {"CHECK", "ACTIVE_SLAVE", "CHANNEL_CLOSE"}
       /\ Target(e, m) = NoContext
    /\ net' = Rest(e)
    /\ UNCHANGED <<ctx, mapCtxPoint, refCount, taskStop, released, clock, up, sent>>

\* CommandForwardCheckResult: payload, a pointer, is tested instead of the flag, so
\* the check succeeds always.
CheckResult(e) ==
    /\ Next1(e)
    /\ LET m == Head(net[e]) IN
       /\ m.cmd = "CHECK_RESULT"
       /\ Target(e, m) # NoContext
       /\ ctx' = [ctx EXCEPT ![e][Target(e, m)] =
              [ctx[e][Target(e, m)] EXCEPT !.ready = TRUE]]
    /\ net' = Rest(e)
    /\ UNCHANGED <<mapCtxPoint, refCount, taskStop, released, clock, up,
                   sent>>

\* CMD_FORWARD_ACTIVE_MASTER: DoForwardBegin, which libuv refuses for a handle
\* that is closing.
ActiveMaster(e) ==
    /\ Next1(e)
    /\ LET m == Head(net[e]) IN
       /\ m.cmd = "ACTIVE_MASTER"
       /\ Target(e, m) # NoContext
       /\ ctx' = [ctx EXCEPT ![e][Target(e, m)] =
              [ctx[e][Target(e, m)] EXCEPT !.ready = TRUE,
                                           !.reading = ~Finish(e, Target(e, m))]]
    /\ net' = Rest(e)
    /\ UNCHANGED <<mapCtxPoint, refCount, taskStop, released, clock, up, sent>>

\* CMD_FORWARD_DATA: SendForwardBuf queues the buffer for the local peer.
ForwardData(e) ==
    /\ Next1(e)
    /\ LET m == Head(net[e]) IN
       /\ m.cmd = "DATA"
       /\ Target(e, m) # NoContext
       /\ ctx' = IF Finish(e, Target(e, m)) THEN ctx
                 ELSE [ctx EXCEPT ![e][Target(e, m)] =
                           [ctx[e][Target(e, m)] EXCEPT !.pending =
                                Append(ctx[e][Target(e, m)].pending, <<m.from, m.n>>)]]
    /\ net' = Rest(e)
    /\ UNCHANGED <<mapCtxPoint, refCount, taskStop, released, clock, up, sent>>

\* CMD_FORWARD_FREE_CONTEXT.
FreeCommand(e) ==
    /\ Next1(e)
    /\ LET m == Head(net[e]) IN
       /\ m.cmd = "FREE_CONTEXT"
       /\ Target(e, m) # NoContext
       /\ ctx' = [ctx EXCEPT ![e][Target(e, m)] = FreeContext(@)]
    /\ net' = Rest(e)
    /\ UNCHANGED <<mapCtxPoint, refCount, taskStop, released, clock, up, sent>>

-----------------------------------------------------------------------------
(* Callbacks of the handles *)

\* ConnectTarget and SetupPointContinue.  A connection that FreeContext closed
\* calls back too, and finds the context finished.
ConnectTarget(c, ok) ==
    /\ ctx["slave"][c].handle = "connecting"
    /\ IF ok /\ up
       THEN /\ ctx' = [ctx EXCEPT !["slave"][c] =
                   [ctx["slave"][c] EXCEPT !.handle = "connected", !.ready = TRUE,
                                           !.reading = TRUE]]
            /\ net' = Sent(net, "slave", SendToTask("slave", c, "ACTIVE_MASTER"))
       ELSE /\ ctx' = [ctx EXCEPT !["slave"][c] = FreeContext(@)]
            /\ net' = Sent(net, "slave", FreeNotice("slave", c))
    /\ UNCHANGED <<mapCtxPoint, refCount, taskStop, released, clock, up, sent>>

\* ReadForwardBuf with a buffer of the local peer.
ReadForwardBuf(e, c) ==
    /\ ctx[e][c].reading
    /\ sent[e][c] < MaxData
    /\ sent' = [sent EXCEPT ![e][c] = @ + 1]
    /\ net' = Sent(net, e, <<Msg("DATA", ctx[e][c].id, c, sent[e][c] + 1)>>)
    /\ UNCHANGED <<ctx, mapCtxPoint, refCount, taskStop, released, clock, up>>

\* ReadForwardBuf when the local peer is gone, or SendCallbackForwardBuf when a
\* write to it failed.
LocalPeerGone(e, c) ==
    /\ ctx[e][c].reading \/ ctx[e][c].pending # <<>>
    /\ ctx' = [ctx EXCEPT ![e][c] = FreeContext(@)]
    /\ net' = Sent(net, e, FreeNotice(e, c))
    /\ UNCHANGED <<mapCtxPoint, refCount, taskStop, released, clock, up, sent>>

\* A queued buffer reaches the local peer.
WriteDone(e, c) ==
    /\ ctx[e][c].pending # <<>>
    /\ ctx' = [ctx EXCEPT ![e][c] =
           [ctx[e][c] EXCEPT !.got = Append(ctx[e][c].got, Head(ctx[e][c].pending)),
                             !.pending = Tail(ctx[e][c].pending)]]
    /\ UNCHANGED <<mapCtxPoint, refCount, taskStop, released, clock, net, up, sent>>

\* Fault: the reference of the context is not returned.
FreeContextCallBackKeep(e, c) ==
    /\ ctx[e][c].state = "freeing"
    /\ ctx' = [ctx EXCEPT ![e][c] = [ctx[e][c] EXCEPT !.state = "deleted"]]
    /\ mapCtxPoint' = [mapCtxPoint EXCEPT ![e][ctx[e][c].id] = NoContext]
    /\ UNCHANGED <<refCount, taskStop, released, clock, net, up, sent>>

\* The close callback and the DoNextLoop callback of FreeContextCallBack, with
\* no input of the loop between them: the entry of the id goes, whoever's it is.
FreeContextCallBack(e, c) ==
    /\ ctx[e][c].state = "freeing"
    /\ ctx' = [ctx EXCEPT ![e][c] = [ctx[e][c] EXCEPT !.state = "deleted"]]
    /\ mapCtxPoint' = [mapCtxPoint EXCEPT ![e][ctx[e][c].id] = NoContext]
    /\ refCount' = [refCount EXCEPT ![e] = IF @ > 0 THEN @ - 1 ELSE 0]
    /\ UNCHANGED <<taskStop, released, clock, net, up, sent>>

-----------------------------------------------------------------------------
(* The end of the task *)

\* StopTask: every context of the map is freed, the other end is not told.
StopTask(e) ==
    /\ ctx' = [ctx EXCEPT ![e] = [c \in Contexts |->
           IF \E i \in Ids : mapCtxPoint[e][i] = c
           THEN FreeContext(ctx[e][c]) ELSE ctx[e][c]]]
    /\ mapCtxPoint' = [mapCtxPoint EXCEPT ![e] = [i \in Ids |-> NoContext]]
    /\ taskStop' = [taskStop EXCEPT ![e] = TRUE]

\* The channel of the forward goes, or the command to remove the forward comes
\* (ClearOwnTasks, and CMD_KERNEL_CHANNEL_CLOSE for the other end).
Detach(e) ==
    /\ "detach" \in Endings
    /\ ~taskStop[e]
    /\ StopTask(e)
    /\ net' = Sent(net, e, <<Msg("CHANNEL_CLOSE", 0, NoContext, 0)>>)
    /\ UNCHANGED <<refCount, released, clock, up, sent>>

\* CMD_KERNEL_CHANNEL_CLOSE: the count of TaskFinish is sent back once.
ChannelClose(e) ==
    /\ net[e] # <<>>
    /\ LET m == Head(net[e]) IN
       /\ m.cmd = "CHANNEL_CLOSE"
       /\ net' = IF m.n = 0 THEN Rest(e)
                 ELSE Sent(Rest(e), e,
                           <<Msg("CHANNEL_CLOSE", 0, NoContext, m.n - 1)>>)
    /\ StopTask(e)
    /\ UNCHANGED <<refCount, released, clock, up, sent>>

\* DispatchTaskData ignores what comes for a task that was stopped.
Ignore(e) ==
    /\ taskStop[e]
    /\ net[e] # <<>>
    /\ Head(net[e]).cmd # "CHANNEL_CLOSE"
    /\ net' = Rest(e)
    /\ UNCHANGED <<ctx, mapCtxPoint, refCount, taskStop, released, clock, up, sent>>

\* The session dies, and with it every task (ClearOwnTasks of both ends).
SessionLost ==
    /\ "session" \in Endings
    /\ up
    /\ up' = FALSE
    /\ net' = [e \in Ends |-> <<>>]
    /\ UNCHANGED <<ctx, mapCtxPoint, refCount, taskStop, released, clock,
                   sent>>

SessionClear(e) ==
    /\ ~up
    /\ ~taskStop[e]
    /\ StopTask(e)
    /\ UNCHANGED <<refCount, released, clock, net, up, sent>>

\* taskClassDeleteRetry: the object is deleted when ReadyForRelease says so.
TryRemoveTask(e) ==
    /\ taskStop[e]
    /\ ~released[e]
    /\ refCount[e] = 0
    /\ released' = [released EXCEPT ![e] = TRUE]
    /\ UNCHANGED <<ctx, mapCtxPoint, refCount, taskStop, clock, net, up, sent>>

-----------------------------------------------------------------------------
\* What users, local peers and the network decide.
Environment ==
    \/ \E c \in Contexts : BeginForward(c) \/ ListenFail(c)
    \/ \E l, c \in Contexts : ListenCallback(l, c) \/ AcceptFail(l, c)
    \/ \E e \in Ends, c \in Contexts : ReadForwardBuf(e, c) \/ LocalPeerGone(e, c)
    \/ \E e \in Ends : Detach(e)
    \/ SessionLost

\* The loop of e reads a command.
Dispatch(e) ==
    \/ CommandForNobody(e)
    \/ CheckResult(e)
    \/ ActiveMaster(e)
    \/ ForwardData(e)
    \/ FreeCommand(e)
    \/ ChannelClose(e)
    \/ Ignore(e)

Slave == \E c \in Contexts, ok \in BOOLEAN : SlaveCheck(c, ok) \/ SlaveConnect(c, ok)

Connected(c) == \E ok \in BOOLEAN : ConnectTarget(c, ok)

Next ==
    \/ Environment
    \/ \E e \in Ends : Dispatch(e) \/ SessionClear(e) \/ TryRemoveTask(e)
    \/ Slave
    \/ \E c \in Contexts :
           \/ Connected(c)
           \/ \E e \in Ends : WriteDone(e, c) \/ FreeContextCallBack(e, c)

Spec == Init /\ [][Next]_vars

\* The loop of e has something to do.  The end of the session clears the tasks and
\* then closes the timers and the handles that are left on the loop
\* (TryCloseChildLoop): what waits for those need not come.
Loop(e) ==
    \/ Dispatch(e)
    \/ SessionClear(e)
    \/ e = "slave" /\ Slave
    \/ up /\ \/ TryRemoveTask(e)
             \/ \E c \in Contexts : FreeContextCallBack(e, c)
             \/ e = "slave" /\ \E c \in Contexts : Connected(c)

\* Both loops go on as long as they have something to do, and every connection
\* attempt ends.  Nothing is assumed of users and local peers.
FairSpec == Spec /\ \A e \in Ends : WF_vars(Loop(e))

-----------------------------------------------------------------------------
(* Safety *)

InUse(e) == {c \in Contexts : ctx[e][c].state \in {"live", "freeing"}}

\* refCount counts the contexts that are not deleted, on every path that makes
\* or frees one: ReadyForRelease, which looks at nothing else, is right.
RefCountsContexts == \A e \in Ends : refCount[e] = Cardinality(InUse(e))

\* Commands find contexts by id: the map never leads to a context that is deleted
\* or that goes by another id, although contexts of both ends change it.
MapFindsLive ==
    \A e \in Ends : \A i \in Ids :
        LET c == mapCtxPoint[e][i] IN
        c # NoContext => c \in InUse(e) /\ ctx[e][c].id = i

\* A context that is deleted has no handle on the loop, whichever way it ended.
DeletedIsClosed ==
    \A e \in Ends : \A c \in Contexts :
        ctx[e][c].state = "deleted" => ctx[e][c].handle \in {"null", "closed"}

\* The task object that is deleted has no context left, and gets none: a context
\* calls back with it (thisClass).
ReleasedHasNone == \A e \in Ends : released[e] => InUse(e) = {}

\* Neither a command nor libuv comes back to what is deleted.
NothingDangles == MapFindsLive /\ DeletedIsClosed /\ ReleasedHasNone

\* c of end e and d of the other end are the two sides of one connection.
Linked(e, c, d) ==
    IF e = "slave" THEN ctx[e][c].peer = d ELSE ctx["slave"][d].peer = c

\* What a local peer has received is what the peer of the same connection sent,
\* in order and from the first buffer on: never another connection's data.
DataReachesItsPeer ==
    \A e \in Ends : \A c \in Contexts :
        LET got == ctx[e][c].got \o ctx[e][c].pending IN
        \A n \in 1..Len(got) : got[n][2] = n /\ Linked(e, c, got[n][1])

Used(e) == {c \in Contexts : ctx[e][c].state # "free"}

\* The master has made no two contexts with id i.
Alone(i) ==
    \A c, d \in Used("master") :
        ctx["master"][c].id = i /\ ctx["master"][d].id = i => c = d

\* Data comes to a side of a connection only when its own socket is connected: the
\* master waits for ACTIVE_MASTER before it reads from its client.  This is so for
\* each connection whose id the master gave once, whatever becomes of the others.
DataComesConnected ==
    \A e \in Ends : \A c \in Contexts :
        Alone(ctx[e][c].id) /\ ctx[e][c].pending # <<>> =>
            ctx[e][c].handle = "connected"

(* The invariants behind these *)

\* What the types do not say of messages: DATA names a buffer of a context.
GoodMessage ==
    {m \in Message : m.cmd = "DATA" => m.from \in Contexts /\ m.n \in 1..MaxData}

DataIsNamed == net \in [Ends -> Seq(GoodMessage)]

\* The handle of a context that is finished has been closed, which needs the type
\* to be that of the handle until then.
HandleOK(x) ==
    /\ x.state = "free" => x.handle = "null"
    /\ x.state = "live" => x.type = x.sort
    /\ x.state \in {"freeing", "deleted"} => x.handle \in {"null", "closed"}

HandlesOK == \A e \in Ends : \A c \in Contexts : HandleOK(ctx[e][c])

\* Nothing makes a context in a task that was released.
ReleasedInv == \A e \in Ends : released[e] => taskStop[e] /\ refCount[e] = 0

ContextInv == TypeOK /\ DataIsNamed /\ MapFindsLive /\ RefCountsContexts
TaskInv == HandlesOK /\ ReleasedInv

Request(m) == m.cmd \in {"CHECK", "ACTIVE_SLAVE"}

\* The master has made a context with id i.
Known(i) == \E c \in Used("master") : ctx["master"][c].id = i

\* No request of this id is to come.
Asked(i) ==
    /\ Known(i)
    /\ \A k \in 1..Len(net["slave"]) : Request(net["slave"][k]) => net["slave"][k].id # i

\* An id that is alone means one connection: at the slave, too, one context at most
\* has it, and one request for it comes.
IdInv ==
    /\ \A d \in Used("slave") :
           Alone(ctx["slave"][d].id) =>
               /\ Asked(ctx["slave"][d].id)
               /\ \A c \in Used("slave") : ctx["slave"][c].id = ctx["slave"][d].id => c = d
    /\ \A k \in 1..Len(net["slave"]) :
           Request(net["slave"][k]) =>
               /\ Known(net["slave"][k].id)
               /\ Alone(net["slave"][k].id) =>
                      \A j \in 1..Len(net["slave"]) :
                          j # k /\ Request(net["slave"][j]) =>
                              net["slave"][j].id # net["slave"][k].id

\* The slave's side of the connection is open, or has been.
Opened(i) ==
    Alone(i) =>
        /\ Asked(i)
        /\ \A d \in Used("slave") :
               ctx["slave"][d].id = i =>
                   ctx["slave"][d].handle = "connected" \/ Finish("slave", d)

\* The id is that of a connection, not of the listener.
OfConnection(i) ==
    /\ Known(i)
    /\ Alone(i) =>
           \A c \in Used("master") : ctx["master"][c].id = i => ctx["master"][c].kind = "conn"

\* Which commands go to which end, and what is so when they come.
CommandInv ==
    /\ \A k \in 1..Len(net["slave"]) :
           /\ net["slave"][k].cmd \notin {"CHECK_RESULT", "ACTIVE_MASTER"}
           /\ net["slave"][k].cmd = "ACTIVE_SLAVE" => OfConnection(net["slave"][k].id)
           /\ net["slave"][k].cmd = "DATA" => Opened(net["slave"][k].id)
    /\ \A k \in 1..Len(net["master"]) :
           /\ ~Request(net["master"][k])
           /\ net["master"][k].cmd = "ACTIVE_MASTER" => Opened(net["master"][k].id)
           /\ net["master"][k].cmd = "DATA" => OfConnection(net["master"][k].id)

\* Who reads may send DATA; a side of the master is connected from the start.
ReaderInv ==
    /\ \A c \in Contexts : LET x == ctx["master"][c] IN
           /\ x.state = "free" => ~x.reading
           /\ x.reading => Opened(x.id)
           /\ x.kind = "conn" /\ x.state = "live" => x.handle = "connected"
    /\ \A d \in Contexts : LET x == ctx["slave"][d] IN
           /\ x.reading \/ x.handle = "connecting" => x.kind = "conn"
           /\ x.state = "free" => x.kind = "none"
           /\ x.kind = "conn" => OfConnection(x.id)

ConnectionInv == IdInv /\ CommandInv /\ ReaderInv

(* Liveness *)

\* The map does not lead to c: it never had it, or a context of the same id took or
\* erased its entry.
Unmapped(e, c) == mapCtxPoint[e][ctx[e][c].id] # c

\* A task that was stopped is deleted, unless its session has ended, or it has a
\* context the map had lost, which StopTask did not find.
StoppedIsReleased ==
    \A e \in Ends :
        taskStop[e] => \/ released[e]
                       \/ ~up
                       \/ \E c \in Contexts : ctx[e][c].state = "live"

\* When one side of a connection is closed the other side is closed too, whichever
\* of the two lost its local peer, failed to connect or was told first; but for a
\* side the map of its end has lost.
PeerFollows ==
    \A c, d \in Contexts :
        ctx["slave"][d].kind = "conn" /\ ctx["slave"][d].peer = c =>
            /\ Finish("slave", d) => Finish("master", c) \/ Unmapped("master", c)
            /\ Finish("master", c) => Finish("slave", d) \/ Unmapped("slave", d)

\* What is to end ends, on both sides, a connection and a task: whatever has been
\* closed or stopped, a moment comes when all that was to follow has followed.
ForwardEnds == []<>(PeerFollows /\ StoppedIsReleased)
=============================================================================
