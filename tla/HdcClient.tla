---------------------------- MODULE HdcClient ----------------------------
(***************************************************************************)
(* The client programs and the servers they pull up (host/client.cpp,      *)
(* host/main.cpp, Base::ProgramMutex).                                      *)
(*                                                                          *)
(* Every command is a process of its own.  It asks the pid file whether a   *)
(* server runs, pulls one up when it finds none, connects to it, exchanges  *)
(* the handshake of its channel and sends its command when the handshake is *)
(* done; a control command starts or kills the server instead.  The server  *)
(* a client pulls up runs this same ProgramMutex for itself, so checks and  *)
(* servers of several clients meet at the lock of one file.                 *)
(*                                                                          *)
(* Messages are whole: HdcStream has their reassembly.  What the server does*)
(* with a channel is HdcChannel; here it accepts, takes the handshake,      *)
(* executes and closes.                                                     *)
(***************************************************************************)
EXTENDS Integers, Sequences, FiniteSets

CONSTANTS Clients,    \* the client processes
          CommandLines, \* the commands they may be given: a set of functions
          MaxRetry,   \* TCP_CONNECT_MAX_RETRY_COUNT
          MaxWait,    \* maxWaitRetry of CommandWorker
          None

ASSUME BoundsAssumption == MaxRetry \in Nat /\ MaxWait \in Nat

ControlCommands == {"start", "start -r", "kill", "kill -r"}
AllCommands == ControlCommands \union {"list", "run", "run -t", "wait"}

ASSUME CommandsAssumption == CommandLines \subseteq [Clients -> AllCommands]

\* A process id: a client, or the server that client pulled up.
Client(c) == [kind |-> "client", of |-> c]
Server(c) == [kind |-> "server", of |-> c]
Pids == {Client(c) : c \in Clients} \union {Server(c) : c \in Clients}

ASSUME NoneAssumption == None \notin Pids

VARIABLES
    command,   \* the command line of each client
    pc,        \* where each process is
    lock,      \* the process with the write lock on the pid file
    pidFile,   \* the pid in the file; None: empty
    victim,    \* the pid a control command read from the file
    killed,    \* processes with a SIGKILL they have not died of
    retry,     \* tcpConnectRetryCount
    ticks,     \* debugRetryCount
    handshakeOK,  \* the client's half of the channel shook hands
    sent,      \* the timer waitTimeDoCmd has been stopped and the command sent
    conn,      \* the server the client's socket is connected to
    chan,      \* the server's half of the channel
    up,        \* messages from the client to the server
    down       \* messages from the server to the client

mutexVars == <<lock, pidFile>>
chanVars == <<conn, chan, up, down>>
clientVars == <<retry, ticks, handshakeOK, sent>>
vars == <<command, pc, lock, pidFile, victim, killed, retry, ticks,
          handshakeOK, sent, conn, chan, up, down>>

MutexStates == {"check", "locked", "truncated"}
ClientStates == MutexStates \union
    {"found", "free", "kill", "connecting", "talking", "freeing", "ended"}
ServerStates == MutexStates \union
    {"none", "noFork", "refused", "owner", "bindFailed", "listening", "gone"}

\* The server's half: in the backlog of the socket, waiting for the client's
\* handshake, answered on the main thread, bound to the session but not yet
\* attached, served by the session's worker, and its ends.  "lost" is a bound
\* channel whose session was gone when the next loop came to attach it;
\* "refused" one whose first message was not a handshake.
ChanStates == {"none", "backlog", "hello", "local", "binding", "bound",
               "lost", "refused", "closed"}

\* The client sends its handshake, which stands for the connect key in it, and
\* commands.
ConnectKeys == {"none", "any", "key", "wait"}
UpMessages == {"command"} \union ConnectKeys
DownMessages == {"hello", "echo", "noTarget"}

\* The shape of the state.
TypeOK ==
    /\ command \in CommandLines
    /\ pc \in [Pids -> ClientStates \union ServerStates]
    /\ \A c \in Clients : /\ pc[Client(c)] \in ClientStates
                          /\ pc[Server(c)] \in ServerStates
    /\ lock \in Pids \union {None}
    /\ pidFile \in Pids \union {None}
    /\ victim \in [Clients -> Pids \union {None}]
    /\ killed \subseteq Pids
    /\ retry \in [Clients -> 0 .. MaxRetry]
    /\ ticks \in [Clients -> 0 .. MaxWait]
    /\ handshakeOK \in [Clients -> BOOLEAN]
    /\ sent \in [Clients -> BOOLEAN]
    /\ conn \in [Clients -> Clients \union {None}]
    /\ chan \in [Clients -> ChanStates]
    /\ \A c \in Clients : /\ \A i \in 1 .. Len(up[c]) : up[c][i] \in UpMessages
                          /\ \A i \in 1 .. Len(down[c]) : down[c][i] \in DownMessages

Init ==
    /\ command \in CommandLines
    /\ pc = [p \in Pids |-> IF p.kind = "client" THEN "check" ELSE "none"]
    /\ lock = None
    /\ pidFile = None
    /\ victim = [c \in Clients |-> None]
    /\ killed = {}
    /\ retry = [c \in Clients |-> 0]
    /\ ticks = [c \in Clients |-> 0]
    /\ handshakeOK = [c \in Clients |-> FALSE]
    /\ sent = [c \in Clients |-> FALSE]
    /\ conn = [c \in Clients |-> None]
    /\ chan = [c \in Clients |-> "none"]
    /\ up = [c \in Clients |-> <<>>]
    /\ down = [c \in Clients |-> <<>>]

Dead == {"none", "noFork", "refused", "bindFailed", "gone", "ended"}
Alive(p) == pc[p] \notin Dead

Control(c) == command[c] \in ControlCommands
Restarts(c) == command[c] \in {"start -r", "kill -r"}

Moves(p, s) == pc' = [pc EXCEPT ![p] = s]
----------------------------------------------------------------------------
(***************************************************************************)
(* ProgramMutex.  A check and a new server take the same write lock with    *)
(* F_SETLK, empty the file and write their pid; only then does a check      *)
(* close the file and with it the lock.                                     *)
(***************************************************************************)

\* Fault: the file is emptied before the lock is asked for (O_TRUNC).
LockBusyTruncates(p) ==
    /\ pc[p] = "check"
    /\ lock # None
    /\ Moves(p, IF p.kind = "client" THEN "found" ELSE "refused")
    /\ pidFile' = None
    /\ UNCHANGED lock

\* fcntl fails: a server exists, says the caller.
LockBusy(p) ==
    /\ pc[p] = "check"
    /\ lock # None
    /\ Moves(p, IF p.kind = "client" THEN "found" ELSE "refused")
    /\ UNCHANGED mutexVars

Lock(p) ==
    /\ pc[p] = "check"
    /\ lock = None
    /\ lock' = p
    /\ Moves(p, "locked")
    /\ UNCHANGED pidFile

Truncate(p) ==
    /\ pc[p] = "locked"
    /\ pidFile' = None
    /\ Moves(p, "truncated")
    /\ UNCHANGED lock

\* Fault: the check keeps the file open and with it the lock.
CheckWritesKeep(p) ==
    /\ p.kind = "client"
    /\ pc[p] = "truncated"
    /\ pidFile' = p
    /\ Moves(p, "free")
    /\ UNCHANGED lock

\* checkOrNew: the check writes its pid, and closing the file ends its lock.
CheckWrites(p) ==
    /\ p.kind = "client"
    /\ pc[p] = "truncated"
    /\ pidFile' = p
    /\ lock' = None
    /\ Moves(p, "free")

\* The server keeps the file open as long as it lives.
ServerWrites(p) ==
    /\ p.kind = "server"
    /\ pc[p] = "truncated"
    /\ pidFile' = p
    /\ Moves(p, "owner")
    /\ UNCHANGED lock

ProgramMutex(p) ==
    /\ p \notin killed
    /\ LockBusy(p) \/ Lock(p) \/ Truncate(p) \/ CheckWrites(p) \/ ServerWrites(p)
    /\ UNCHANGED <<command, victim, killed, clientVars, chanVars>>
----------------------------------------------------------------------------
(***************************************************************************)
(* The server process: RunServerMode.                                       *)
(***************************************************************************)
Listening == {s \in Clients : pc[Server(s)] = "listening"}

Free(p) == lock' = IF lock = p THEN None ELSE lock

\* HdcServer::Initial goes on to listen for clients.  Another program may have
\* the port: the process ends and its lock with it.
SetTCPListen(s) ==
    /\ pc[Server(s)] = "owner"
    /\ Server(s) \notin killed
    /\ \/ /\ Moves(Server(s), "listening")
          /\ UNCHANGED lock
       \/ /\ Moves(Server(s), "bindFailed")
          /\ Free(Server(s))
    /\ UNCHANGED <<command, pidFile, victim, killed, clientVars, chanVars>>

Serves(c) ==
    /\ conn[c] # None
    /\ pc[Server(conn[c])] = "listening"
    /\ Server(conn[c]) \notin killed

\* AcceptClient: the server speaks first and tells the id of the channel.
AcceptClient(c) ==
    /\ Serves(c)
    /\ chan[c] = "backlog"
    /\ chan' = [chan EXCEPT ![c] = "hello"]
    /\ down' = [down EXCEPT ![c] = Append(@, "hello")]
    /\ UNCHANGED <<command, pc, victim, killed, mutexVars, clientVars, conn, up>>

\* What becomes of a channel with this handshake.  A bound channel needs a
\* device whose session is alive and shook hands: "any" is left unbound without
\* one, a named target is refused and told so.  Devices come and go: each time
\* the server asks, it may be told either.
Shaken(k, device) ==
    IF k \in {"none", "wait"} THEN "local"
    ELSE IF device THEN "binding"
    ELSE IF k = "any" THEN "local" ELSE "closed"

ChannelHandShake(c) ==
    /\ Serves(c)
    /\ chan[c] = "hello"
    /\ up[c] # <<>>
    /\ \/ /\ Head(up[c]) = "command"
          /\ chan' = [chan EXCEPT ![c] = "refused"]
          /\ UNCHANGED down
       \/ /\ Head(up[c]) # "command"
          /\ \E device \in BOOLEAN :
               chan' = [chan EXCEPT ![c] = Shaken(Head(up[c]), device)]
          /\ down' = [down EXCEPT ![c] =
                        IF chan'[c] = "closed" THEN Append(@, "echo") ELSE @]
    /\ up' = [up EXCEPT ![c] = Tail(@)]
    /\ UNCHANGED <<command, pc, victim, killed, mutexVars, clientVars, conn>>

\* The lambda BindChannelToSession left for the next loop.  When the session has
\* gone it returns: the main handle is closed already, so the echo is dropped,
\* and nobody reads the duplicated socket.
BindNextLoop(c) ==
    /\ Serves(c)
    /\ chan[c] = "binding"
    /\ \E device \in BOOLEAN :
         chan' = [chan EXCEPT ![c] = IF device THEN "bound" ELSE "lost"]
    /\ UNCHANGED <<command, pc, victim, killed, mutexVars, clientVars, conn, up, down>>

\* A command on the main thread is answered and its channel closed, but for
\* "wait" without a target, which may ask again.
DoCommandLocal(c) ==
    /\ Serves(c)
    /\ chan[c] = "local"
    /\ up[c] # <<>>
    /\ \/ /\ command[c] = "wait"
          /\ down' = [down EXCEPT ![c] = Append(@, "noTarget")]
          /\ UNCHANGED chan
       \/ /\ down' = [down EXCEPT ![c] = Append(@, "echo")]
          /\ chan' = [chan EXCEPT ![c] = "closed"]
    /\ up' = [up EXCEPT ![c] = Tail(@)]
    /\ UNCHANGED <<command, pc, victim, killed, mutexVars, clientVars, conn>>

\* A command for the daemon: its output comes back and the daemon closes the
\* channel, or the end of the session closes it without an answer.
DoCommandRemote(c) ==
    /\ Serves(c)
    /\ chan[c] = "bound"
    /\ \/ /\ up[c] # <<>>
          /\ up' = [up EXCEPT ![c] = Tail(@)]
          /\ down' = [down EXCEPT ![c] = Append(@, "echo")]
       \/ UNCHANGED <<up, down>>
    /\ chan' = [chan EXCEPT ![c] = "closed"]
    /\ UNCHANGED <<command, pc, victim, killed, mutexVars, clientVars, conn>>

\* The server reads the end of the stream of a client that has gone.
ClientEof(c) ==
    /\ Serves(c)
    /\ pc[Client(c)] = "ended"
    /\ chan[c] \in {"backlog", "hello", "local", "bound"}
    /\ up[c] = <<>>
    /\ chan' = [chan EXCEPT ![c] = "closed"]
    /\ UNCHANGED <<command, pc, victim, killed, mutexVars, clientVars, conn, up, down>>

\* What a server does for itself and for the channel of a client.
ServerStep(c) ==
    \/ SetTCPListen(c)
    \/ AcceptClient(c)
    \/ ChannelHandShake(c)
    \/ BindNextLoop(c)
    \/ DoCommandLocal(c)
    \/ DoCommandRemote(c)
    \/ ClientEof(c)
----------------------------------------------------------------------------
(***************************************************************************)
(* The client process: RunClientMode and the control commands.              *)
(***************************************************************************)
Runs(c) == Client(c) \notin killed

\* PullupServer: fork and exec, or fork fails and only the client goes on.
PullupServer(c) ==
    \/ pc' = [pc EXCEPT ![Server(c)] = "check", ![Client(c)] =
                 IF Control(c) THEN "ended" ELSE "connecting"]
    \/ pc' = [pc EXCEPT ![Server(c)] = "noFork", ![Client(c)] =
                 IF Control(c) THEN "ended" ELSE "connecting"]

\* The check found no server.  Only "kill" does not start one.
NoServer(c) ==
    /\ Runs(c)
    /\ pc[Client(c)] = "free"
    /\ IF command[c] = "kill" THEN Moves(Client(c), "ended") ELSE PullupServer(c)
    /\ UNCHANGED <<command, victim, killed, mutexVars, clientVars, chanVars>>

\* The check found one: connect to it, be content, or find out its pid.
\* GetLastPID reads the file without the lock; an empty file is no pid.
ServerFound(c) ==
    /\ Runs(c)
    /\ pc[Client(c)] = "found"
    /\ \/ /\ ~Control(c)
          /\ Moves(Client(c), "connecting")
          /\ UNCHANGED victim
       \/ /\ command[c] = "start"
          /\ Moves(Client(c), "ended")
          /\ UNCHANGED victim
       \/ /\ Control(c) /\ command[c] # "start"
          /\ victim' = [victim EXCEPT ![c] = pidFile]
          /\ Moves(Client(c), IF pidFile = None THEN "ended" ELSE "kill")
    /\ UNCHANGED <<command, killed, mutexVars, clientVars, chanVars>>

\* uv_kill(pid, SIGKILL) does not wait for the process to end; the pid may be of
\* one that has ended already.  A restart pulls the new server up at once.
KillServer(c) ==
    /\ Runs(c)
    /\ pc[Client(c)] = "kill"
    /\ killed' = IF Alive(victim[c]) THEN killed \union {victim[c]} ELSE killed
    /\ IF Restarts(c) THEN PullupServer(c) ELSE Moves(Client(c), "ended")
    /\ UNCHANGED <<command, victim, mutexVars, clientVars, chanVars>>

Connecting(c) == Runs(c) /\ pc[Client(c)] = "connecting"

\* uv_tcp_connect finds a listening server (Connect, status 0).
ConnectOk(c) ==
    /\ Connecting(c)
    /\ \E s \in Listening :
         conn' = [conn EXCEPT ![c] = s]
    /\ chan' = [chan EXCEPT ![c] = "backlog"]
    /\ Moves(Client(c), "talking")
    /\ UNCHANGED <<command, victim, killed, mutexVars, clientVars, up, down>>

\* It finds none: try again after TCP_CONNECT_RETRY_TIME_MS, or free the channel.
ConnectFailed(c) ==
    /\ Connecting(c)
    /\ Listening = {}
    /\ IF retry[c] >= MaxRetry
       THEN /\ Moves(Client(c), "freeing")
            /\ UNCHANGED retry
       ELSE /\ retry' = [retry EXCEPT ![c] = @ + 1]
            /\ UNCHANGED pc
    /\ UNCHANGED <<command, victim, killed, mutexVars, ticks, handshakeOK,
                   sent, chanVars>>

\* Fault: the timer sends without looking at handshakeOK.
CommandWorkerEager(c) ==
    /\ Runs(c)
    /\ pc[Client(c)] = "talking"
    /\ ~sent[c]
    /\ sent' = [sent EXCEPT ![c] = TRUE]
    /\ up' = [up EXCEPT ![c] = Append(@, "command")]
    /\ UNCHANGED <<command, pc, victim, killed, mutexVars, retry, ticks,
                   handshakeOK, conn, chan, down>>

\* The repeating timer of ExecuteCommand.  It gives up after maxWaitRetry calls,
\* or stops itself and sends the command; a dead channel sends nothing.
CommandWorker(c) ==
    /\ Runs(c)
    /\ pc[Client(c)] \in {"connecting", "talking", "freeing"}
    /\ ~sent[c]
    /\ IF ticks[c] >= MaxWait
       THEN /\ Moves(Client(c), "ended")
            /\ UNCHANGED <<ticks, sent, up>>
       ELSE IF ~handshakeOK[c]
       THEN /\ ticks' = [ticks EXCEPT ![c] = @ + 1]
            /\ UNCHANGED <<pc, sent, up>>
       ELSE /\ sent' = [sent EXCEPT ![c] = TRUE]
            /\ up' = [up EXCEPT ![c] =
                         IF pc[Client(c)] = "talking" THEN Append(@, "command") ELSE @]
            /\ UNCHANGED <<pc, ticks>>
    /\ UNCHANGED <<command, victim, killed, mutexVars, retry, handshakeOK,
                   conn, chan, down>>

\* AutoConnectKey and the tag PreHandshake sets for "wait".
ConnectKey(c) ==
    CASE command[c] = "wait" -> "wait"
      [] command[c] = "list" -> "none"
      [] command[c] = "run" -> "any"
      [] command[c] = "run -t" -> "key"

Reading(c) == Runs(c) /\ pc[Client(c)] = "talking" /\ down[c] # <<>>

\* PreHandshake: the server's hello is answered with the connect key; a server
\* of another version is not (HDC_VERSION_CHECK).
PreHandshake(c) ==
    /\ Reading(c)
    /\ ~handshakeOK[c]
    /\ down' = [down EXCEPT ![c] = Tail(@)]
    /\ \/ /\ handshakeOK' = [handshakeOK EXCEPT ![c] = TRUE]
          /\ up' = [up EXCEPT ![c] = Append(@, ConnectKey(c))]
          /\ UNCHANGED pc
       \/ /\ Moves(Client(c), "freeing")
          /\ UNCHANGED <<handshakeOK, up>>
    /\ UNCHANGED <<command, victim, killed, mutexVars, retry, ticks, sent,
                   conn, chan>>

\* Later messages are printed; "wait" repeats its command while there is no
\* target and ends its process on any other answer (WaitFor).
ReadChannel(c) ==
    /\ Reading(c)
    /\ handshakeOK[c]
    /\ down' = [down EXCEPT ![c] = Tail(@)]
    /\ IF command[c] # "wait"
       THEN UNCHANGED <<pc, up>>
       ELSE IF Head(down[c]) = "noTarget"
       THEN /\ up' = [up EXCEPT ![c] = Append(@, "command")]
            /\ UNCHANGED pc
       ELSE /\ Moves(Client(c), "ended")
            /\ UNCHANGED up
    /\ UNCHANGED <<command, victim, killed, mutexVars, clientVars, conn, chan>>

\* Fault: the end of the stream closes the handle and leaves the channel.
ReadStreamEofStays(c) ==
    /\ Runs(c)
    /\ pc[Client(c)] = "talking"
    /\ down[c] = <<>>
    /\ chan[c] \in {"closed", "refused"}
    /\ chan' = [chan EXCEPT ![c] = "none"]
    /\ UNCHANGED <<command, pc, victim, killed, mutexVars, clientVars, conn, up, down>>

\* ReadStream reads the end of the stream: the channel is freed.
ReadStreamEof(c) ==
    /\ Runs(c)
    /\ pc[Client(c)] = "talking"
    /\ down[c] = <<>>
    /\ chan[c] \in {"closed", "refused"}
    /\ Moves(Client(c), "freeing")
    /\ UNCHANGED <<command, victim, killed, mutexVars, clientVars, chanVars>>

\* FreeChannelFinally stops the loop of a client and its process ends.
FreeChannelFinally(c) ==
    /\ Runs(c)
    /\ pc[Client(c)] = "freeing"
    /\ Moves(Client(c), "ended")
    /\ UNCHANGED <<command, victim, killed, mutexVars, clientVars, chanVars>>

ClientStep(c) ==
    \/ NoServer(c)
    \/ ServerFound(c)
    \/ KillServer(c)
    \/ ConnectOk(c)
    \/ ConnectFailed(c)
    \/ CommandWorker(c)
    \/ PreHandshake(c)
    \/ ReadChannel(c)
    \/ ReadStreamEof(c)
    \/ FreeChannelFinally(c)
----------------------------------------------------------------------------
(***************************************************************************)
(* The system around them.                                                  *)
(***************************************************************************)

\* A killed process ends: its lock is released and its sockets are closed.  What
\* a server had sent and the client had not read may be lost with it.
Die(p) ==
    /\ p \in killed
    /\ killed' = killed \ {p}
    /\ Free(p)
    /\ Moves(p, IF p.kind = "client" THEN "ended" ELSE "gone")
    /\ LET cut == {c \in Clients : p = Server(p.of) /\ conn[c] = p.of} IN
         /\ chan' = [c \in Clients |-> IF c \in cut THEN "closed" ELSE chan[c]]
         /\ up' = [c \in Clients |-> IF c \in cut THEN <<>> ELSE up[c]]
         /\ \/ UNCHANGED down
            \/ down' = [c \in Clients |-> IF c \in cut THEN <<>> ELSE down[c]]
    /\ UNCHANGED <<command, pidFile, victim, clientVars, conn>>

Next ==
    \/ \E p \in Pids : ProgramMutex(p) \/ Die(p)
    \/ \E c \in Clients : ServerStep(c) \/ ClientStep(c)

\* Processes run, killed ones end, and a server answers the channels it has.
Fairness ==
    /\ \A p \in Pids : WF_vars(ProgramMutex(p)) /\ WF_vars(Die(p))
    /\ \A c \in Clients : WF_vars(ServerStep(c)) /\ WF_vars(ClientStep(c))

Spec == Init /\ [][Next]_vars /\ Fairness
----------------------------------------------------------------------------
\* A server that clients can reach is the only one, and the pid file names it,
\* whatever checks of other clients came between the fork of the server and its
\* own ProgramMutex: "kill" reads the right pid from the file.
ListeningIsNamed ==
    \A s \in Listening : lock = Server(s) /\ pidFile = Server(s)

\* The process that the states of all processes show to have the lock.
Holds(p) == pc[p] \in {"locked", "truncated", "owner", "listening"}

\* The invariant behind it: one process has the lock, and it is the one the file
\* names once it has written its pid; a server is forked once, by a client that
\* has not forked it, and a signal goes to a process that was there.
MutexInv ==
    /\ pc \in [Pids -> ClientStates \union ServerStates]
    /\ lock \in Pids \union {None}
    /\ pidFile \in Pids \union {None}
    /\ victim \in [Clients -> Pids \union {None}]
    /\ \A p \in Pids : Holds(p) <=> lock = p
    /\ \A p \in Pids : pc[p] \in {"owner", "listening"} =>
           p.kind = "server" /\ pidFile = p
    /\ \A c \in Clients :
           /\ pc[Client(c)] \in MutexStates \union {"found", "free", "kill"} =>
                  pc[Server(c)] = "none"
           /\ pc[Client(c)] = "kill" => victim[c] \in Pids
    /\ \A p \in Pids : pc[p] = "none" => p \notin killed

Settled == \A p \in Pids :
    pc[p] \notin MutexStates \union {"found", "free", "kill", "owner"}

NobodyKills == \A c \in Clients : command[c] \notin ControlCommands \ {"start"}
NoneFails == \A c \in Clients : pc[Server(c)] \notin {"noFork", "bindFailed"}

\* A check holds the lock for a moment, and a new server that comes in this
\* moment is refused and ends (HdcServer::Initial).  Still, when all clients
\* have made their check and all servers have tried, one is there: the check
\* that was in the way found no server and started one in its turn.  "kill" and
\* a restart break this, as does a fork or a bind that fails.
SomeServerListens ==
    Settled /\ NobodyKills /\ NoneFails => Listening # {}

\* The invariant behind SomeServerListens: as long as nobody kills, somebody is on the way to
\* listen or does.  A check or a server turns away only from a lock that is held
\* by another one of them.
OnItsWay == {p \in Pids : pc[p] \in MutexStates \union {"free", "owner", "listening"}}

SomeoneInv ==
    NobodyKills =>
        /\ killed = {}
        /\ \A c \in Clients : pc[Client(c)] # "kill"
        /\ NoneFails => OnItsWay # {}

\* The first message a server gets on a channel is the handshake, never the
\* command: the timer that sends it waits for the client's half of the
\* handshake, however late the server's hello comes.
HelloIsTaken == \A c \in Clients : chan[c] # "refused"

\* The invariant behind it: nothing is sent on a channel before the client's half
\* of the handshake, which comes after the socket is connected and only in a
\* command that needs a server; what is first in the stream until the server
\* takes it is then the client's handshake.
HelloOf(c) ==
    /\ pc[Client(c)] \in MutexStates \union {"found", "free", "kill", "connecting"} =>
           conn[c] = None /\ ~handshakeOK[c]
    /\ pc[Client(c)] \in {"connecting", "talking", "freeing"} => ~Control(c)
    /\ ~handshakeOK[c] => up[c] = <<>>
    /\ chan[c] \in {"backlog", "hello"} /\ handshakeOK[c] =>
           up[c] # <<>> /\ Head(up[c]) \in ConnectKeys
    /\ chan[c] # "refused"

HelloInv ==
    /\ command \in [Clients -> AllCommands]
    /\ pc \in [Pids -> ClientStates \union ServerStates]
    /\ handshakeOK \in [Clients -> BOOLEAN]
    /\ chan \in [Clients -> ChanStates]
    /\ conn \in [Clients -> Clients \union {None}]
    /\ up \in [Clients -> Seq(UpMessages)]
    /\ \A c \in Clients : HelloOf(c)

\* Every command but "wait" ends, with no server to connect to, with one that is
\* killed at any moment, and with a device that leaves.  Left out is the channel
\* BindNextLoop lost, whose client waits until the server ends.
ClientsEnd ==
    \A c \in Clients :
        command[c] # "wait" => <>(pc[Client(c)] = "ended" \/ chan[c] = "lost")
=============================================================================
