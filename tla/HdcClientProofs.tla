--------------------------- MODULE HdcClientProofs ---------------------------
(***************************************************************************)
(* One server listens at most and the pid file names it, for any number of *)
(* clients, whatever their commands are and however often one kills the    *)
(* server of another: ListeningIsNamed, by the invariant MutexInv.         *)
(***************************************************************************)
EXTENDS HdcClient, TLAPS

\* What is needed of process ids.
LEMMA PidFacts ==
    /\ \A c \in Clients : /\ Client(c) \in Pids /\ Client(c).kind = "client"
                          /\ Server(c) \in Pids /\ Server(c).kind = "server"
    /\ \A c, d \in Clients : /\ Client(c) # Server(d)
                             /\ Client(c) = Client(d) => c = d
                             /\ Server(c) = Server(d) => c = d
    /\ \A p \in Pids : \/ p.kind = "client" /\ \E c \in Clients : p = Client(c)
                       \/ p.kind = "server" /\ \E c \in Clients : p = Server(c)
<1>1. \A c \in Clients : Client(c).kind = "client" /\ Server(c).kind = "server"
    BY DEF Client, Server
<1>2. \A c \in Clients : Client(c).of = c /\ Server(c).of = c
    BY DEF Client, Server
<1>3. \A c \in Clients : Client(c) \in Pids /\ Server(c) \in Pids
    BY DEF Pids
<1>4. \A p \in Pids : \/ \E c \in Clients : p = Client(c)
                      \/ \E c \in Clients : p = Server(c)
    BY DEF Pids
<1> QED
    BY <1>1, <1>2, <1>3, <1>4

\* At first every client is at its check and nobody has the lock.
LEMMA InitMutex == Init => MutexInv
<1> SUFFICES ASSUME Init PROVE MutexInv
    OBVIOUS
<1>1. pc \in [Pids -> ClientStates \union ServerStates]
    BY DEF Init, ClientStates, ServerStates, MutexStates
<1>2. \A p \in Pids : pc[p] \in {"check", "none"} /\ lock # p
    BY NoneAssumption DEF Init
<1>3. \A c \in Clients : pc[Server(c)] = "none" /\ pc[Client(c)] = "check"
    BY PidFacts DEF Init
<1> QED
    BY <1>1, <1>2, <1>3 DEF Init, MutexInv, Holds

\* ProgramMutex of a client or a server.
LEMMA MutexStep ==
    ASSUME MutexInv, NEW p \in Pids, ProgramMutex(p)
    PROVE  MutexInv'
<1> USE DEF MutexInv, Holds, ClientStates, ServerStates, MutexStates
<1>1. UNCHANGED <<victim, killed>>
    BY DEF ProgramMutex
<1>2. CASE LockBusy(p)
    BY <1>1, <1>2, PidFacts DEF LockBusy, Moves, mutexVars
<1>3. CASE Lock(p)
    BY <1>1, <1>3, PidFacts, NoneAssumption DEF Lock, Moves
<1>4. CASE Truncate(p)
    BY <1>1, <1>4, PidFacts DEF Truncate, Moves
<1>5. CASE CheckWrites(p)
    BY <1>1, <1>5, PidFacts, NoneAssumption DEF CheckWrites, Moves
<1>6. CASE ServerWrites(p)
    BY <1>1, <1>6, PidFacts DEF ServerWrites, Moves
<1> QED
    BY <1>2, <1>3, <1>4, <1>5, <1>6 DEF ProgramMutex

\* A process dies of the signal and its lock ends with it.
LEMMA DieStep ==
    ASSUME MutexInv, NEW p \in Pids, Die(p)
    PROVE  MutexInv'
<1> USE DEF MutexInv, Holds, ClientStates, ServerStates, MutexStates
<1>1. /\ p \in killed /\ killed' = killed \ {p}
      /\ lock' = IF lock = p THEN None ELSE lock
      /\ pc' = [pc EXCEPT ![p] = IF p.kind = "client" THEN "ended" ELSE "gone"]
      /\ UNCHANGED <<pidFile, victim>>
    BY DEF Die, Free, Moves
<1> QED
    BY <1>1, PidFacts, NoneAssumption

\* A server listens, or has lost the port and ends.
LEMMA ListenStep ==
    ASSUME MutexInv, NEW c \in Clients, SetTCPListen(c)
    PROVE  MutexInv'
<1> USE DEF MutexInv, Holds, ClientStates, ServerStates, MutexStates
<1>1. /\ pc[Server(c)] = "owner"
      /\ UNCHANGED <<pidFile, victim, killed>>
      /\ \/ pc' = [pc EXCEPT ![Server(c)] = "listening"] /\ UNCHANGED lock
         \/ /\ pc' = [pc EXCEPT ![Server(c)] = "bindFailed"]
            /\ lock' = IF lock = Server(c) THEN None ELSE lock
    BY DEF SetTCPListen, Free, Moves
<1> QED
    BY <1>1, PidFacts, NoneAssumption

\* What a server does for a channel moves no process.
LEMMA ServeStep ==
    ASSUME MutexInv, NEW c \in Clients, ServerStep(c)
    PROVE  MutexInv'
<1>1. CASE SetTCPListen(c)
    BY <1>1, ListenStep
<1>2. CASE ~SetTCPListen(c)
    <2>1. UNCHANGED <<pc, lock, pidFile, victim, killed>>
        BY <1>2 DEF ServerStep, AcceptClient, ChannelHandShake, BindNextLoop,
                    DoCommandLocal, DoCommandRemote, ClientEof, mutexVars
    <2> QED
        BY <2>1 DEF MutexInv, Holds
<1> QED
    BY <1>1, <1>2

\* A client past its check goes on to a state in which it has no lock either.
LEMMA ClientMoves ==
    ASSUME MutexInv, NEW c \in Clients,
           NEW s \in {"ended", "kill", "connecting", "talking", "freeing"},
           ~Holds(Client(c)), Moves(Client(c), s), UNCHANGED <<lock, pidFile, killed>>,
           s = "kill" => pc[Client(c)] = "found" /\ victim'[c] \in Pids,
           victim' \in [Clients -> Pids \union {None}],
           \A d \in Clients : d # c => victim'[d] = victim[d]
    PROVE  MutexInv'
BY PidFacts DEF MutexInv, Holds, Moves, ClientStates, ServerStates, MutexStates

\* The same when the client has read no pid.
LEMMA ClientGoesOn ==
    ASSUME MutexInv, NEW c \in Clients,
           NEW s \in {"ended", "connecting", "talking", "freeing"},
           ~Holds(Client(c)), Moves(Client(c), s),
           UNCHANGED <<lock, pidFile, killed, victim>>
    PROVE  MutexInv'
<1>1. victim' \in [Clients -> Pids \union {None}]
    BY DEF MutexInv
<1> QED
    BY <1>1, ClientMoves

\* A client forks its server, which has not been there before; it may have sent
\* a signal in the same step.
LEMMA PullupStep ==
    ASSUME MutexInv, NEW c \in Clients, PullupServer(c),
           pc[Client(c)] \in {"free", "kill"}, UNCHANGED <<lock, pidFile, victim>>,
           \A p \in Pids : p \in killed' /\ p \notin killed => pc[p] # "none"
    PROVE  MutexInv'
<1> DEFINE k == IF Control(c) THEN "ended" ELSE "connecting"
<1>1. k \in {"ended", "connecting"}
    OBVIOUS
<1>2. PICK f \in {"check", "noFork"} :
          pc' = [pc EXCEPT ![Server(c)] = f, ![Client(c)] = k]
    BY DEF PullupServer
<1> HIDE DEF k
<1>3. /\ pc \in [Pids -> ClientStates \union ServerStates]
      /\ Client(c) \in Pids /\ Server(c) \in Pids /\ Client(c) # Server(c)
      /\ pc[Server(c)] = "none"
    BY PidFacts DEF MutexInv
<1>4. /\ pc' \in [Pids -> ClientStates \union ServerStates]
      /\ pc'[Server(c)] = f /\ pc'[Client(c)] = k
      /\ \A p \in Pids : p # Server(c) /\ p # Client(c) => pc'[p] = pc[p]
    BY <1>1, <1>2, <1>3 DEF ClientStates, ServerStates, MutexStates
<1>5. \A p \in Pids : /\ Holds(p)' <=> Holds(p)
                      /\ pc'[p] \in {"owner", "listening"} => pc[p] \in {"owner", "listening"}
                      /\ pc'[p] = "none" => pc[p] = "none"
    BY <1>1, <1>3, <1>4 DEF Holds
<1>6. \A d \in Clients :
          /\ pc'[Client(d)] \in MutexStates \union {"found", "free", "kill"} =>
                 pc'[Server(d)] = "none"
          /\ pc'[Client(d)] = "kill" => victim'[d] \in Pids
    BY <1>1, <1>3, <1>4, PidFacts DEF MutexInv, MutexStates
<1> QED
    BY <1>4, <1>5, <1>6 DEF MutexInv, Holds

\* A client, after its check.
LEMMA ClientStepKeeps ==
    ASSUME MutexInv, NEW c \in Clients, ClientStep(c)
    PROVE  MutexInv'
<1>1. CASE NoServer(c)
    <2>1. CASE command[c] = "kill"
        BY <1>1, <2>1, ClientGoesOn DEF NoServer, mutexVars, Holds
    <2>2. CASE command[c] # "kill"
        BY <1>1, <2>2, PullupStep DEF NoServer, mutexVars
    <2> QED
        BY <2>1, <2>2
<1>2. CASE ServerFound(c)
    <2>1. pc[Client(c)] = "found" /\ ~Holds(Client(c)) /\ UNCHANGED <<lock, pidFile, killed>>
        BY <1>2 DEF ServerFound, mutexVars, Holds
    <2>2. ASSUME NEW s \in {"connecting", "ended"}, Moves(Client(c), s), UNCHANGED victim
          PROVE  MutexInv'
        BY <2>1, <2>2, ClientGoesOn
    <2>3. ASSUME victim' = [victim EXCEPT ![c] = pidFile],
                 Moves(Client(c), IF pidFile = None THEN "ended" ELSE "kill")
          PROVE  MutexInv'
        <3>1. /\ victim' \in [Clients -> Pids \union {None}]
              /\ victim'[c] = pidFile
              /\ \A d \in Clients : d # c => victim'[d] = victim[d]
            BY <2>3 DEF MutexInv
        <3>2. CASE pidFile = None
            <4>1. Moves(Client(c), "ended")
                BY <2>3, <3>2
            <4> QED
                BY <2>1, <3>1, <4>1, ClientMoves
        <3>3. CASE pidFile # None
            <4>1. Moves(Client(c), "kill") /\ victim'[c] \in Pids
                BY <2>3, <3>1, <3>3 DEF MutexInv
            <4> QED
                BY <2>1, <3>1, <4>1, ClientMoves
        <3> QED
            BY <3>2, <3>3
    <2> QED
        BY <1>2, <2>2, <2>3 DEF ServerFound
<1>3. CASE KillServer(c)
    <2>1. /\ pc[Client(c)] = "kill" /\ victim[c] \in Pids
          /\ killed' = IF Alive(victim[c]) THEN killed \union {victim[c]} ELSE killed
          /\ UNCHANGED <<lock, pidFile, victim>>
        BY <1>3 DEF KillServer, mutexVars, MutexInv
    <2>2. \A p \in Pids : p \in killed' /\ p \notin killed => pc[p] # "none"
        BY <2>1 DEF Alive, Dead
    <2>3. CASE Restarts(c)
        BY <1>3, <2>1, <2>2, <2>3, PullupStep DEF KillServer
    <2>4. CASE ~Restarts(c)
        <3>1. pc' = [pc EXCEPT ![Client(c)] = "ended"]
            BY <1>3, <2>4 DEF KillServer, Moves
        <3> QED
            BY <2>1, <2>2, <3>1, PidFacts
               DEF MutexInv, Holds, ClientStates, ServerStates, MutexStates
    <2> QED
        BY <2>3, <2>4
<1>4. CASE ConnectOk(c)
    BY <1>4, ClientGoesOn DEF ConnectOk, Connecting, mutexVars, Holds
<1>5. CASE ConnectFailed(c)
    <2>1. CASE UNCHANGED pc
        BY <1>5, <2>1 DEF ConnectFailed, mutexVars, MutexInv, Holds
    <2>2. CASE Moves(Client(c), "freeing")
        BY <1>5, <2>2, ClientGoesOn DEF ConnectFailed, Connecting, mutexVars, Holds
    <2> QED
        BY <1>5, <2>1, <2>2 DEF ConnectFailed
<1>6. CASE CommandWorker(c)
    <2>1. CASE UNCHANGED pc
        BY <1>6, <2>1 DEF CommandWorker, mutexVars, MutexInv, Holds
    <2>2. CASE Moves(Client(c), "ended")
        BY <1>6, <2>2, ClientGoesOn DEF CommandWorker, mutexVars, Holds
    <2> QED
        BY <1>6, <2>1, <2>2 DEF CommandWorker
<1>7. CASE PreHandshake(c)
    <2>1. CASE UNCHANGED pc
        BY <1>7, <2>1 DEF PreHandshake, mutexVars, MutexInv, Holds
    <2>2. CASE Moves(Client(c), "freeing")
        BY <1>7, <2>2, ClientGoesOn DEF PreHandshake, Reading, mutexVars, Holds
    <2> QED
        BY <1>7, <2>1, <2>2 DEF PreHandshake
<1>8. CASE ReadChannel(c)
    <2>1. CASE UNCHANGED pc
        BY <1>8, <2>1 DEF ReadChannel, mutexVars, MutexInv, Holds
    <2>2. CASE Moves(Client(c), "ended")
        BY <1>8, <2>2, ClientGoesOn DEF ReadChannel, Reading, mutexVars, Holds
    <2> QED
        BY <1>8, <2>1, <2>2 DEF ReadChannel
<1>9. CASE ReadStreamEof(c)
    BY <1>9, ClientGoesOn DEF ReadStreamEof, mutexVars, Holds
<1>10. CASE FreeChannelFinally(c)
    BY <1>10, ClientGoesOn DEF FreeChannelFinally, mutexVars, Holds
<1> QED
    BY <1>1, <1>2, <1>3, <1>4, <1>5, <1>6, <1>7, <1>8, <1>9, <1>10 DEF ClientStep

\* The invariant of the lock holds in every state.
THEOREM MutexInvHolds == Spec => []MutexInv
<1>1. MutexInv /\ [Next]_vars => MutexInv'
    <2> SUFFICES ASSUME MutexInv, [Next]_vars PROVE MutexInv'
        OBVIOUS
    <2>1. CASE Next
        BY <2>1, MutexStep, DieStep, ServeStep, ClientStepKeeps DEF Next
    <2>2. CASE UNCHANGED vars
        BY <2>2 DEF vars, MutexInv, Holds
    <2> QED
        BY <2>1, <2>2
<1> QED
    BY <1>1, InitMutex, PTL DEF Spec

\* A server that clients can reach is the only one, and the pid file names it.
THEOREM ListeningIsNamedHolds == Spec => []ListeningIsNamed
<1>1. MutexInv => ListeningIsNamed
    BY PidFacts DEF MutexInv, Holds, ListeningIsNamed, Listening
<1> QED
    BY <1>1, MutexInvHolds, PTL
----------------------------------------------------------------------------
(***************************************************************************)
(* A server for everybody: SomeServerListens, by the invariant SomeoneInv.  *)
(***************************************************************************)

\* At first every client is at its check, and there is a client.
LEMMA InitSomeone ==
    ASSUME Clients # {}, Init
    PROVE  SomeoneInv
<1>1. PICK c \in Clients : TRUE
    OBVIOUS
<1>2. Client(c) \in OnItsWay
    BY PidFacts DEF Init, OnItsWay, MutexStates
<1>3. \A d \in Clients : pc[Client(d)] # "kill"
    BY PidFacts DEF Init
<1> QED
    BY <1>2, <1>3 DEF Init, SomeoneInv

\* The checks: who finds the lock taken leaves its holder on the way.
LEMMA SomeoneMutexStep ==
    ASSUME MutexInv, SomeoneInv, NobodyKills, NoneFails',
           NEW p \in Pids, ProgramMutex(p)
    PROVE  OnItsWay' # {}
<1>1. /\ killed = {} /\ UNCHANGED killed
      /\ \A c \in Clients : pc[Client(c)] # "kill"
      /\ pc \in [Pids -> ClientStates \union ServerStates]
    BY DEF SomeoneInv, ProgramMutex, MutexInv
<1>2. CASE LockBusy(p)
    <2>1. PICK s \in {"found", "refused"} : pc' = [pc EXCEPT ![p] = s]
        BY <1>2 DEF LockBusy, Moves
    <2>2. lock \in Pids /\ Holds(lock) /\ lock # p
        BY <1>2 DEF LockBusy, MutexInv, Holds
    <2>3. lock \in OnItsWay'
        BY <1>1, <2>1, <2>2 DEF OnItsWay, Holds, MutexStates
    <2> QED
        BY <1>1, <2>1, <2>3, PidFacts
<1>3. CASE ~LockBusy(p)
    <2>1. PICK s \in {"locked", "truncated", "free", "owner"} : pc' = [pc EXCEPT ![p] = s]
        BY <1>3 DEF ProgramMutex, Lock, Truncate, CheckWrites, ServerWrites, Moves
    <2>2. p \in OnItsWay'
        BY <1>1, <2>1 DEF OnItsWay, MutexStates
    <2> QED
        BY <1>1, <2>1, <2>2, PidFacts
<1> QED
    BY <1>2, <1>3

\* A server that is owner listens, as none fails.
LEMMA SomeoneServerStep ==
    ASSUME MutexInv, SomeoneInv, NobodyKills, NoneFails',
           NEW c \in Clients, ServerStep(c)
    PROVE  OnItsWay' # {}
<1>1. /\ killed = {} /\ UNCHANGED killed
      /\ \A d \in Clients : pc[Client(d)] # "kill"
      /\ pc \in [Pids -> ClientStates \union ServerStates]
      /\ Server(c) \in Pids
    BY PidFacts DEF SomeoneInv, ServerStep, SetTCPListen, AcceptClient, ChannelHandShake,
       BindNextLoop, DoCommandLocal, DoCommandRemote, ClientEof, MutexInv
<1>2. CASE SetTCPListen(c)
    <2>1. pc' = [pc EXCEPT ![Server(c)] = "listening"]
        <3>1. pc' = [pc EXCEPT ![Server(c)] = "listening"]
                  \/ pc' = [pc EXCEPT ![Server(c)] = "bindFailed"]
            BY <1>2 DEF SetTCPListen, Moves
        <3> QED
            BY <1>1, <3>1 DEF NoneFails
    <2>2. Server(c) \in OnItsWay'
        BY <1>1, <2>1 DEF OnItsWay
    <2> QED
        BY <1>1, <2>1, <2>2, PidFacts
<1>3. CASE ~SetTCPListen(c)
    <2>1. UNCHANGED pc
        BY <1>3 DEF ServerStep, AcceptClient, ChannelHandShake, BindNextLoop,
                    DoCommandLocal, DoCommandRemote, ClientEof
    <2>2. OnItsWay # {}
        BY <2>1 DEF SomeoneInv, NoneFails
    <2> QED
        BY <1>1, <2>1, <2>2 DEF OnItsWay
<1> QED
    BY <1>2, <1>3

\* A client that found no server forks one, as none fails; no other step of a
\* client takes a process off its way.
LEMMA SomeoneClientStep ==
    ASSUME MutexInv, SomeoneInv, NobodyKills, NoneFails',
           NEW c \in Clients, ClientStep(c)
    PROVE  OnItsWay' # {}
<1>1. /\ killed = {} /\ \A d \in Clients : pc[Client(d)] # "kill"
      /\ pc \in [Pids -> ClientStates \union ServerStates]
      /\ Client(c) \in Pids /\ Server(c) \in Pids /\ Client(c) # Server(c)
    BY PidFacts DEF SomeoneInv, MutexInv
<1>2. command[c] \notin {"kill", "kill -r", "start -r"}
    BY DEF NobodyKills, ControlCommands
<1>3. ~KillServer(c)
    BY <1>1 DEF KillServer
<1>4. killed' = {}
    BY <1>1, <1>3 DEF ClientStep, NoServer, ServerFound, ConnectOk, ConnectFailed,
       CommandWorker, PreHandshake, ReadChannel, ReadStreamEof, FreeChannelFinally
<1>5. CASE NoServer(c)
    <2>1. PullupServer(c)
        BY <1>2, <1>5 DEF NoServer
    <2>2. PICK k \in {"ended", "connecting"} :
              \/ pc' = [pc EXCEPT ![Server(c)] = "check", ![Client(c)] = k]
              \/ pc' = [pc EXCEPT ![Server(c)] = "noFork", ![Client(c)] = k]
        BY <2>1 DEF PullupServer
    <2>3. pc' = [pc EXCEPT ![Server(c)] = "check", ![Client(c)] = k]
        BY <1>1, <2>2 DEF NoneFails
    <2>4. Server(c) \in OnItsWay'
        BY <1>1, <2>3 DEF OnItsWay, MutexStates
    <2>5. \A d \in Clients : pc'[Client(d)] # "kill"
        BY <1>1, <2>3, PidFacts
    <2> QED
        BY <1>4, <2>4, <2>5
<1>6. CASE ~NoServer(c)
    <2>1. /\ pc[Client(c)] \in {"found", "connecting", "talking", "freeing"}
          /\ \E s \in {"ended", "connecting", "talking", "freeing"} :
                 pc' = [pc EXCEPT ![Client(c)] = s] \/ UNCHANGED pc
        <3>1. CASE ServerFound(c)
            <4>1. Control(c) => command[c] = "start"
                BY <1>2 DEF Control, ControlCommands
            <4> QED
                BY <3>1, <4>1 DEF ServerFound, Moves
        <3>2. CASE ConnectOk(c) \/ ConnectFailed(c)
            BY <3>2 DEF ConnectOk, ConnectFailed, Connecting, Moves
        <3>3. CASE CommandWorker(c)
            BY <3>3 DEF CommandWorker, Moves
        <3>4. CASE PreHandshake(c) \/ ReadChannel(c)
            BY <3>4 DEF PreHandshake, ReadChannel, Reading, Moves
        <3>5. CASE ReadStreamEof(c) \/ FreeChannelFinally(c)
            BY <3>5 DEF ReadStreamEof, FreeChannelFinally, Moves
        <3> QED
            BY <1>3, <1>6, <3>1, <3>2, <3>3, <3>4, <3>5 DEF ClientStep
    <2>2. \A d \in Clients : pc'[Client(d)] # "kill" /\ pc'[Server(d)] = pc[Server(d)]
        BY <1>1, <2>1, PidFacts
    <2>3. OnItsWay # {}
        BY <2>2 DEF SomeoneInv, NoneFails
    <2>4. PICK p \in Pids : pc[p] \in MutexStates \union {"free", "owner", "listening"}
        BY <2>3 DEF OnItsWay
    <2>5. pc'[p] = pc[p]
        BY <1>1, <2>1, <2>4 DEF MutexStates
    <2>6. p \in OnItsWay'
        BY <2>4, <2>5 DEF OnItsWay
    <2> QED
        BY <1>4, <2>2, <2>6
<1> QED
    BY <1>5, <1>6

\* Where nobody kills nothing is killed, and no client comes to do it.
LEMMA SomeoneQuiet ==
    ASSUME MutexInv, SomeoneInv, NobodyKills, Next
    PROVE  killed' = {} /\ \A c \in Clients : pc'[Client(c)] # "kill"
<1>1. /\ killed = {} /\ \A d \in Clients : pc[Client(d)] # "kill"
      /\ pc \in [Pids -> ClientStates \union ServerStates]
    BY DEF SomeoneInv, MutexInv
<1>2. ASSUME NEW p \in Pids, ProgramMutex(p)
      PROVE  killed' = {} /\ \A c \in Clients : pc'[Client(c)] # "kill"
    <2>1. killed' = {}
        BY <1>1, <1>2 DEF ProgramMutex
    <2>2. PICK s \in {"found", "refused", "locked", "truncated", "free", "owner"} :
              pc' = [pc EXCEPT ![p] = s]
        BY <1>2 DEF ProgramMutex, LockBusy, Lock, Truncate, CheckWrites, ServerWrites, Moves
    <2> QED
        BY <1>1, <2>1, <2>2, PidFacts
<1>3. ASSUME NEW c \in Clients, ServerStep(c)
      PROVE  killed' = {} /\ \A d \in Clients : pc'[Client(d)] # "kill"
    <2>1. /\ killed' = {}
          /\ \/ UNCHANGED pc
             \/ pc' = [pc EXCEPT ![Server(c)] = "listening"]
             \/ pc' = [pc EXCEPT ![Server(c)] = "bindFailed"]
        BY <1>1, <1>3 DEF ServerStep, SetTCPListen, AcceptClient, ChannelHandShake,
           BindNextLoop, DoCommandLocal, DoCommandRemote, ClientEof, Moves
    <2> QED
        BY <1>1, <2>1, PidFacts
<1>4. ASSUME NEW c \in Clients, ClientStep(c)
      PROVE  killed' = {} /\ \A d \in Clients : pc'[Client(d)] # "kill"
    <2>1. /\ ~KillServer(c)
          /\ Control(c) => command[c] \in {"start", "kill"}
          /\ command[c] # "kill"
        BY <1>1 DEF KillServer, NobodyKills, ControlCommands, Control
    <2>2. killed' = {}
        BY <1>1, <1>4, <2>1 DEF ClientStep, NoServer, ServerFound, ConnectOk, ConnectFailed,
           CommandWorker, PreHandshake, ReadChannel, ReadStreamEof, FreeChannelFinally
    <2>3. CASE NoServer(c)
        <3>1. PICK k \in {"ended", "connecting"}, f \in {"check", "noFork"} :
                  pc' = [pc EXCEPT ![Server(c)] = f, ![Client(c)] = k]
            BY <2>1, <2>3 DEF NoServer, PullupServer
        <3> QED
            BY <1>1, <2>2, <3>1, PidFacts
    <2>4. CASE ~NoServer(c)
        <3>1. UNCHANGED pc \/ \E s \in {"ended", "connecting", "talking", "freeing"} :
                  pc' = [pc EXCEPT ![Client(c)] = s]
            <4>1. CASE ServerFound(c)
                <5>1. Control(c) => command[c] = "start"
                    BY <2>1
                <5> QED
                    BY <4>1, <5>1 DEF ServerFound, Moves
            <4>2. CASE ConnectOk(c) \/ ConnectFailed(c) \/ CommandWorker(c)
                BY <4>2 DEF ConnectOk, ConnectFailed, CommandWorker, Moves
            <4>3. CASE PreHandshake(c) \/ ReadChannel(c)
                BY <4>3 DEF PreHandshake, ReadChannel, Moves
            <4>4. CASE ReadStreamEof(c) \/ FreeChannelFinally(c)
                BY <4>4 DEF ReadStreamEof, FreeChannelFinally, Moves
            <4> QED
                BY <1>4, <2>1, <2>4, <4>1, <4>2, <4>3, <4>4 DEF ClientStep
        <3> QED
            BY <1>1, <2>2, <3>1, PidFacts
    <2> QED
        BY <2>3, <2>4
<1> QED
    BY <1>1, <1>2, <1>3, <1>4 DEF Next, Die

\* Nobody's command changes.
LEMMA CommandStays ==
    ASSUME Next
    PROVE  UNCHANGED command
<1>1. ASSUME NEW p \in Pids, ProgramMutex(p) \/ Die(p) PROVE UNCHANGED command
    BY <1>1 DEF ProgramMutex, Die
<1>2. ASSUME NEW c \in Clients, ServerStep(c) PROVE UNCHANGED command
    BY <1>2 DEF ServerStep, SetTCPListen, AcceptClient, ChannelHandShake, BindNextLoop,
       DoCommandLocal, DoCommandRemote, ClientEof
<1>3. ASSUME NEW c \in Clients, ClientStep(c) PROVE UNCHANGED command
    BY <1>3 DEF ClientStep, NoServer, ServerFound, KillServer, ConnectOk, ConnectFailed,
       CommandWorker, PreHandshake, ReadChannel, ReadStreamEof, FreeChannelFinally
<1> QED
    BY <1>1, <1>2, <1>3 DEF Next

\* One step of the invariant.
LEMMA SomeoneStep ==
    ASSUME MutexInv, SomeoneInv, Next
    PROVE  SomeoneInv'
<1>1. SUFFICES ASSUME NobodyKills'
      PROVE  /\ killed' = {} /\ \A c \in Clients : pc'[Client(c)] # "kill"
             /\ NoneFails' => OnItsWay' # {}
    BY DEF SomeoneInv
<1>2. NobodyKills
    BY <1>1, CommandStays DEF NobodyKills
<1>3. killed' = {} /\ \A c \in Clients : pc'[Client(c)] # "kill"
    BY <1>2, SomeoneQuiet
<1>4. ASSUME NoneFails' PROVE OnItsWay' # {}
    <2>1. \A p \in Pids : ~Die(p)
        BY <1>2 DEF Die, SomeoneInv
    <2> QED
        BY <1>2, <1>4, <2>1, SomeoneMutexStep, SomeoneServerStep, SomeoneClientStep DEF Next
<1> QED
    BY <1>3, <1>4

\* When all have made their check, and nobody was killed and nothing failed, a
\* server listens; somebody has to ask for one (main.cpp, RunClientMode).
THEOREM SomeServerListensHolds ==
    ASSUME Clients # {}
    PROVE  Spec => []SomeServerListens
<1>1. Init => SomeoneInv
    BY InitSomeone
<1>2. MutexInv /\ SomeoneInv /\ [Next]_vars => SomeoneInv'
    <2>1. SomeoneInv /\ UNCHANGED vars => SomeoneInv'
        BY DEF vars, SomeoneInv, NobodyKills, NoneFails, OnItsWay
    <2> QED
        BY <2>1, SomeoneStep
<1>3. MutexInv /\ SomeoneInv => SomeServerListens
    <2> SUFFICES ASSUME MutexInv, SomeoneInv, Settled, NobodyKills, NoneFails
                 PROVE  Listening # {}
        BY DEF SomeServerListens
    <2>1. PICK p \in Pids : pc[p] \in MutexStates \union {"free", "owner", "listening"}
        BY DEF SomeoneInv, OnItsWay
    <2>2. pc[p] = "listening"
        BY <2>1 DEF Settled
    <2>3. PICK c \in Clients : p = Server(c)
        BY <2>2, PidFacts DEF MutexInv
    <2> QED
        BY <2>2, <2>3 DEF Listening
<1> QED
    BY <1>1, <1>2, <1>3, MutexInvHolds, PTL DEF Spec

----------------------------------------------------------------------------
(***************************************************************************)
(* The first message of a channel: HelloIsTaken, by the invariant HelloInv. *)
(***************************************************************************)

\* The types HelloInv needs, and the part of one client.
HelloTypes ==
    /\ command \in [Clients -> AllCommands]
    /\ pc \in [Pids -> ClientStates \union ServerStates]
    /\ handshakeOK \in [Clients -> BOOLEAN]
    /\ chan \in [Clients -> ChanStates]
    /\ conn \in [Clients -> Clients \union {None}]
    /\ up \in [Clients -> Seq(UpMessages)]

\* What HelloOf(c) looks at.
HelloView(c) == <<command[c], pc[Client(c)], conn[c], handshakeOK[c], up[c], chan[c]>>

\* A step that leaves what HelloOf looks at leaves HelloOf.
LEMMA HelloFrame ==
    ASSUME NEW c \in Clients, HelloOf(c), UNCHANGED HelloView(c)
    PROVE  HelloOf(c)'
BY DEF HelloOf, HelloView, Control

\* At first no client has a socket.
LEMMA InitHello == Init => HelloInv
<1> SUFFICES ASSUME Init PROVE HelloInv
    OBVIOUS
<1>1. pc \in [Pids -> ClientStates \union ServerStates]
    BY DEF Init, ClientStates, ServerStates, MutexStates
<1>2. \A c \in Clients : pc[Client(c)] = "check"
    BY PidFacts DEF Init
<1>3. command \in [Clients -> AllCommands]
    BY CommandsAssumption DEF Init
<1>4. up \in [Clients -> Seq(UpMessages)]
    BY DEF Init
<1>5. \A c \in Clients : HelloOf(c)
    BY <1>2 DEF Init, HelloOf
<1> QED
    BY <1>1, <1>3, <1>4, <1>5 DEF Init, HelloInv, ChanStates

\* ProgramMutex keeps a client among the states without a socket.
LEMMA HelloMutexStep ==
    ASSUME HelloInv, NEW p \in Pids, ProgramMutex(p)
    PROVE  HelloInv'
<1>1. /\ pc[p] \in MutexStates
      /\ \E s \in MutexStates \union {"found", "refused", "free", "owner"} :
             /\ pc' = [pc EXCEPT ![p] = s]
             /\ p.kind = "client" => s \in MutexStates \union {"found", "free"}
      /\ UNCHANGED <<command, conn, handshakeOK, up, chan>>
    BY PidFacts DEF ProgramMutex, LockBusy, Lock, Truncate, CheckWrites, ServerWrites,
                    Moves, MutexStates, clientVars, chanVars
<1>2. pc' \in [Pids -> ClientStates \union ServerStates]
    BY <1>1 DEF HelloInv, ClientStates, ServerStates, MutexStates
<1>3. \A c \in Clients : HelloOf(c)'
    BY <1>1, PidFacts DEF HelloInv, HelloOf, MutexStates, Control
<1> QED
    BY <1>1, <1>2, <1>3 DEF HelloInv

\* A process dies: a client is past all, and the channels of a server are closed.
LEMMA HelloDieStep ==
    ASSUME HelloInv, NEW p \in Pids, Die(p)
    PROVE  HelloInv'
<1> DEFINE cut == {c \in Clients : p = Server(p.of) /\ conn[c] = p.of}
<1>1. /\ pc' = [pc EXCEPT ![p] = IF p.kind = "client" THEN "ended" ELSE "gone"]
      /\ UNCHANGED <<command, conn, handshakeOK>>
      /\ chan' = [c \in Clients |-> IF c \in cut THEN "closed" ELSE chan[c]]
      /\ up' = [c \in Clients |-> IF c \in cut THEN <<>> ELSE up[c]]
    BY DEF Die, Moves, clientVars
<1> HIDE DEF cut
<1>2. pc' \in [Pids -> ClientStates \union ServerStates]
    BY <1>1 DEF HelloInv, ClientStates, ServerStates, MutexStates
<1>3. chan' \in [Clients -> ChanStates]
    BY <1>1 DEF HelloInv, ChanStates
<1>4. up' \in [Clients -> Seq(UpMessages)]
    <2>1. <<>> \in Seq(UpMessages)
        OBVIOUS
    <2> QED
        BY <1>1, <2>1 DEF HelloInv
<1>5. ASSUME NEW c \in Clients PROVE HelloOf(c)'
    <2>1. HelloOf(c) /\ HelloInv
        BY DEF HelloInv
    <2>2. pc'[Client(c)] \in {pc[Client(c)], "ended"}
        BY <1>1, PidFacts DEF HelloInv
    <2>3. CASE c \in cut
        BY <1>1, <2>1, <2>2, <2>3 DEF HelloOf, Control, MutexStates
    <2>4. CASE c \notin cut
        BY <1>1, <2>1, <2>2, <2>4 DEF HelloOf, Control, MutexStates
    <2> QED
        BY <2>3, <2>4
<1> QED
    BY <1>1, <1>2, <1>3, <1>4, <1>5 DEF HelloInv

\* A step of one client or of its channel: the others do not see it.
LEMMA HelloOne ==
    ASSUME HelloInv, NEW c \in Clients, HelloTypes', HelloOf(c)',
           \A d \in Clients : d # c => UNCHANGED HelloView(d)
    PROVE  HelloInv'
<1>1. \A d \in Clients : HelloOf(d)'
    BY HelloFrame DEF HelloInv
<1> QED
    BY <1>1 DEF HelloInv, HelloTypes

\* The server takes the first message, which is a handshake.
LEMMA HelloServeStep ==
    ASSUME HelloInv, NEW c \in Clients, ServerStep(c)
    PROVE  HelloInv'
<1>1. /\ HelloOf(c) /\ HelloTypes
      /\ UNCHANGED <<command, conn, handshakeOK>>
    BY DEF HelloInv, HelloTypes, ServerStep, SetTCPListen, AcceptClient, ChannelHandShake,
           BindNextLoop, DoCommandLocal, DoCommandRemote, ClientEof, clientVars, chanVars
<1>2. CASE SetTCPListen(c)
    <2>1. /\ pc' \in [Pids -> ClientStates \union ServerStates]
          /\ UNCHANGED <<up, chan>>
          /\ \A d \in Clients : pc'[Client(d)] = pc[Client(d)]
        BY <1>1, <1>2, PidFacts DEF SetTCPListen, Moves, HelloTypes, ClientStates,
                                    ServerStates, MutexStates, chanVars
    <2> QED
        BY <1>1, <2>1, HelloOne, HelloFrame DEF HelloView, HelloTypes
<1>3. CASE ~SetTCPListen(c)
    <2>1. PICK k \in ChanStates, u \in Seq(UpMessages) :
              /\ chan' = [chan EXCEPT ![c] = k] /\ up' = [up EXCEPT ![c] = u]
              /\ UNCHANGED pc
              /\ k # "refused"
              /\ chan[c] # "backlog" => k \notin {"backlog", "hello"}
              /\ chan[c] = "backlog" => u = up[c]
              /\ up[c] = <<>> => u = <<>>
        <3>1. CASE AcceptClient(c)
            BY <1>1, <3>1 DEF AcceptClient, HelloTypes, ChanStates
        <3>2. CASE ChannelHandShake(c)
            <4>1. /\ chan[c] = "hello" /\ up[c] # <<>> /\ Head(up[c]) # "command"
                  /\ up' = [up EXCEPT ![c] = Tail(up[c])]
                  /\ UNCHANGED pc
                BY <1>1, <3>2 DEF ChannelHandShake, HelloOf, ConnectKeys
            <4>2. PICK device \in BOOLEAN :
                      chan' = [chan EXCEPT ![c] = Shaken(Head(up[c]), device)]
                BY <3>2, <4>1 DEF ChannelHandShake
            <4>3. Shaken(Head(up[c]), device) \in {"local", "binding", "closed"}
                BY DEF Shaken
            <4>4. Tail(up[c]) \in Seq(UpMessages)
                BY <1>1, <4>1 DEF HelloTypes
            <4> QED
                BY <4>1, <4>2, <4>3, <4>4 DEF ChanStates
        <3>3. CASE BindNextLoop(c)
            BY <1>1, <3>3 DEF BindNextLoop, HelloTypes, ChanStates
        <3>4. CASE DoCommandLocal(c)
            <4>1. Tail(up[c]) \in Seq(UpMessages)
                <5>1. up[c] \in Seq(UpMessages)
                    BY <1>1 DEF HelloTypes
                <5>2. up[c] # <<>>
                    BY <3>4 DEF DoCommandLocal
                <5> QED
                    BY <5>1, <5>2
            <4>2. /\ up' = [up EXCEPT ![c] = Tail(up[c])] /\ UNCHANGED pc
                  /\ chan[c] = "local" /\ up[c] # <<>>
                  /\ chan' = chan \/ chan' = [chan EXCEPT ![c] = "closed"]
                BY <3>4 DEF DoCommandLocal
            <4>3. chan' = [chan EXCEPT ![c] = "local"] \/ chan' = [chan EXCEPT ![c] = "closed"]
                BY <1>1, <4>2 DEF HelloTypes
            <4>4. "local" \in ChanStates /\ "closed" \in ChanStates
                BY DEF ChanStates
            <4> QED
                BY <4>1, <4>2, <4>3, <4>4
        <3>5. CASE DoCommandRemote(c)
            <4>1. up[c] # <<>> => Tail(up[c]) \in Seq(UpMessages)
                BY <1>1 DEF HelloTypes
            <4> QED
                BY <1>1, <3>5, <4>1 DEF DoCommandRemote, HelloTypes, ChanStates
        <3>6. CASE ClientEof(c)
            BY <1>1, <3>6 DEF ClientEof, HelloTypes, ChanStates
        <3> QED
            BY <1>3, <3>1, <3>2, <3>3, <3>4, <3>5, <3>6 DEF ServerStep
    <2>2. /\ HelloTypes'
          /\ chan'[c] = k /\ up'[c] = u
          /\ \A d \in Clients : d # c => UNCHANGED HelloView(d)
        BY <1>1, <2>1 DEF HelloTypes, HelloView
    <2>3. HelloOf(c)'
        BY <1>1, <2>1, <2>2 DEF HelloOf, Control
    <2> QED
        BY <2>2, <2>3, HelloOne
<1> QED
    BY <1>2, <1>3

\* What a step of a client c does to what HelloOf looks at.
EffectIs(c, s, h, u, k, n) ==
    /\ pc'[Client(c)] = s /\ pc' \in [Pids -> ClientStates \union ServerStates]
    /\ \A d \in Clients : d # c => pc'[Client(d)] = pc[Client(d)]
    /\ handshakeOK' = [handshakeOK EXCEPT ![c] = h]
    /\ up' = [up EXCEPT ![c] = u]
    /\ chan' = [chan EXCEPT ![c] = k]
    /\ conn' = [conn EXCEPT ![c] = n]
    /\ UNCHANGED command
    /\ s \in {"connecting", "talking", "freeing"} => ~Control(c)
    /\ s \in MutexStates \union {"found", "free", "kill", "connecting"} =>
           h = FALSE /\ n = None
    /\ ~h => u = <<>>
    /\ k \in {"backlog", "hello"} /\ h => u # <<>> /\ Head(u) \in ConnectKeys
    /\ k # "refused"

HelloEffect(c) ==
    \E s \in ClientStates, h \in BOOLEAN, u \in Seq(UpMessages),
       k \in ChanStates, n \in Clients \union {None} : EffectIs(c, s, h, u, k, n)

\* A client moves on and the rest is as it was.
LEMMA HelloMoves ==
    ASSUME HelloInv, NEW c \in Clients, NEW s \in ClientStates,
           pc'[Client(c)] = s, pc' \in [Pids -> ClientStates \union ServerStates],
           \A d \in Clients : d # c => pc'[Client(d)] = pc[Client(d)],
           UNCHANGED <<command, handshakeOK, up, chan, conn>>,
           s \in {"connecting", "talking", "freeing"} => ~Control(c),
           s \in MutexStates \union {"found", "free", "kill", "connecting"} =>
               pc[Client(c)] \in MutexStates \union {"found", "free", "kill", "connecting"}
    PROVE  HelloEffect(c)
<1>1. HelloOf(c) /\ HelloTypes
    BY DEF HelloInv, HelloTypes
<1>2. /\ handshakeOK[c] \in BOOLEAN /\ up[c] \in Seq(UpMessages)
      /\ chan[c] \in ChanStates /\ conn[c] \in Clients \union {None}
      /\ handshakeOK' = [handshakeOK EXCEPT ![c] = handshakeOK[c]]
      /\ up' = [up EXCEPT ![c] = up[c]]
      /\ chan' = [chan EXCEPT ![c] = chan[c]]
      /\ conn' = [conn EXCEPT ![c] = conn[c]]
    BY <1>1 DEF HelloTypes
<1>3. /\ s \in MutexStates \union {"found", "free", "kill", "connecting"} =>
             handshakeOK[c] = FALSE /\ conn[c] = None
      /\ ~handshakeOK[c] => up[c] = <<>>
      /\ chan[c] \in {"backlog", "hello"} /\ handshakeOK[c] =>
             up[c] # <<>> /\ Head(up[c]) \in ConnectKeys
      /\ chan[c] # "refused"
    BY <1>1, <1>2 DEF HelloOf
<1>4. EffectIs(c, s, handshakeOK[c], up[c], chan[c], conn[c])
    BY <1>2, <1>3 DEF EffectIs
<1> QED
    BY <1>2, <1>4 DEF HelloEffect

\* How a move shows in the states of the clients.
LEMMA MovesFacts ==
    ASSUME HelloInv, NEW c \in Clients, NEW s \in ClientStates, Moves(Client(c), s)
    PROVE  /\ pc'[Client(c)] = s /\ pc' \in [Pids -> ClientStates \union ServerStates]
           /\ \A d \in Clients : d # c => pc'[Client(d)] = pc[Client(d)]
BY PidFacts DEF HelloInv, Moves

\* A client that pulls a server up connects to it, unless it controls it.
LEMMA HelloPullup ==
    ASSUME HelloInv, NEW c \in Clients, PullupServer(c),
           pc[Client(c)] \in {"free", "kill"},
           UNCHANGED <<command, handshakeOK, up, chan, conn>>
    PROVE  HelloEffect(c)
<1> DEFINE k == IF Control(c) THEN "ended" ELSE "connecting"
<1>1. k \in {"ended", "connecting"} /\ (k = "connecting" => ~Control(c))
    OBVIOUS
<1>2. PICK f \in {"check", "noFork"} :
          pc' = [pc EXCEPT ![Server(c)] = f, ![Client(c)] = k]
    BY DEF PullupServer
<1> HIDE DEF k
<1>3. /\ pc'[Client(c)] = k /\ k \in ClientStates
      /\ pc' \in [Pids -> ClientStates \union ServerStates]
      /\ \A d \in Clients : d # c => pc'[Client(d)] = pc[Client(d)]
    BY <1>1, <1>2, PidFacts DEF HelloInv, ClientStates, ServerStates, MutexStates
<1> QED
    BY <1>1, <1>3, HelloMoves DEF MutexStates

\* What a client does: it sends its command when it has shaken hands, and its
\* handshake when it has sent nothing.
LEMMA HelloClientEffect ==
    ASSUME HelloInv, NEW c \in Clients, ClientStep(c)
    PROVE  HelloEffect(c)
<1>1. HelloOf(c) /\ HelloTypes
    BY DEF HelloInv, HelloTypes
<1> DEFINE Same == UNCHANGED <<command, handshakeOK, up, chan, conn>>
<1>2. \A s \in {"ended", "freeing", "connecting", "kill", "talking", "found", "free"} :
          s \in ClientStates
    BY DEF ClientStates
<1>3. ASSUME UNCHANGED pc, pc[Client(c)] \in ClientStates
      PROVE  /\ pc'[Client(c)] = pc[Client(c)]
             /\ pc' \in [Pids -> ClientStates \union ServerStates]
             /\ \A d \in Clients : d # c => pc'[Client(d)] = pc[Client(d)]
    BY <1>1, <1>3 DEF HelloTypes
<1>4. ASSUME NEW s \in {"ended", "freeing"}, Moves(Client(c), s), Same,
             s = "freeing" => ~Control(c)
      PROVE  HelloEffect(c)
    <2>1. s \in ClientStates
        BY <1>2
    <2>2. /\ pc'[Client(c)] = s /\ pc' \in [Pids -> ClientStates \union ServerStates]
          /\ \A d \in Clients : d # c => pc'[Client(d)] = pc[Client(d)]
        BY <1>4, <2>1, MovesFacts
    <2> QED
        BY <1>4, <2>1, <2>2, HelloMoves DEF MutexStates
<1>5. ASSUME UNCHANGED pc, Same, pc[Client(c)] \in ClientStates
      PROVE  HelloEffect(c)
    BY <1>1, <1>3, <1>5, HelloMoves DEF HelloOf
<1>6. ASSUME NEW u \in Seq(UpMessages), handshakeOK[c],
             up' = [up EXCEPT ![c] = u], UNCHANGED <<pc, command, handshakeOK, chan, conn>>,
             pc[Client(c)] \in ClientStates,
             up[c] # <<>> => u # <<>> /\ Head(u) = Head(up[c])
      PROVE  HelloEffect(c)
    <2>1. /\ handshakeOK' = [handshakeOK EXCEPT ![c] = TRUE]
          /\ chan' = [chan EXCEPT ![c] = chan[c]] /\ chan[c] \in ChanStates
          /\ conn' = [conn EXCEPT ![c] = conn[c]] /\ conn[c] \in Clients \union {None}
        BY <1>1, <1>6 DEF HelloTypes
    <2>2. /\ pc[Client(c)] \notin MutexStates \union {"found", "free", "kill", "connecting"}
          /\ pc[Client(c)] \in {"connecting", "talking", "freeing"} => ~Control(c)
          /\ chan[c] # "refused"
          /\ chan[c] \in {"backlog", "hello"} => u # <<>> /\ Head(u) \in ConnectKeys
        BY <1>1, <1>6 DEF HelloOf
    <2>3. EffectIs(c, pc[Client(c)], TRUE, u, chan[c], conn[c])
        BY <1>3, <1>6, <2>1, <2>2 DEF EffectIs
    <2> QED
        BY <1>6, <2>1, <2>3 DEF HelloEffect
<1>7. CASE NoServer(c)
    <2>1. CASE command[c] = "kill"
        <3>1. Same /\ Moves(Client(c), "ended")
            BY <1>7, <2>1 DEF NoServer, clientVars, chanVars
        <3> QED
            BY <1>4, <3>1
    <2>2. CASE command[c] # "kill"
        <3>1. Same /\ PullupServer(c) /\ pc[Client(c)] = "free"
            BY <1>7, <2>2 DEF NoServer, clientVars, chanVars
        <3> QED
            BY <3>1, HelloPullup
    <2> QED
        BY <2>1, <2>2
<1>8. CASE ServerFound(c)
    <2>1. Same /\ pc[Client(c)] = "found"
        BY <1>8 DEF ServerFound, clientVars, chanVars
    <2>2. PICK s \in {"connecting", "ended", "kill"} :
              Moves(Client(c), s) /\ (s = "connecting" => ~Control(c))
        <3>1. /\ "connecting" \in {"connecting", "ended", "kill"}
              /\ (IF pidFile = None THEN "ended" ELSE "kill") \in {"ended", "kill"}
            OBVIOUS
        <3>2. \/ Moves(Client(c), "connecting") /\ ~Control(c)
              \/ Moves(Client(c), "ended")
              \/ Moves(Client(c), IF pidFile = None THEN "ended" ELSE "kill")
            BY <1>8 DEF ServerFound
        <3> QED
            BY <3>1, <3>2
    <2>3. /\ pc'[Client(c)] = s /\ pc' \in [Pids -> ClientStates \union ServerStates]
          /\ \A d \in Clients : d # c => pc'[Client(d)] = pc[Client(d)]
          /\ s \in ClientStates
        BY <1>2, <2>2, MovesFacts
    <2> QED
        BY <2>1, <2>2, <2>3, HelloMoves
<1>9. CASE KillServer(c)
    <2>1. Same /\ pc[Client(c)] = "kill"
        BY <1>9 DEF KillServer, clientVars, chanVars
    <2>2. CASE Restarts(c)
        <3>1. PullupServer(c)
            BY <1>9, <2>2 DEF KillServer
        <3> QED
            BY <2>1, <3>1, HelloPullup
    <2>3. CASE ~Restarts(c)
        <3>1. Moves(Client(c), "ended")
            BY <1>9, <2>3 DEF KillServer
        <3> QED
            BY <1>4, <2>1, <3>1
    <2> QED
        BY <2>2, <2>3
<1>10. CASE ConnectOk(c)
    <2>1. PICK n \in Clients : conn' = [conn EXCEPT ![c] = n]
        BY <1>10 DEF ConnectOk, Listening
    <2>2. /\ pc[Client(c)] = "connecting" /\ Moves(Client(c), "talking")
          /\ chan' = [chan EXCEPT ![c] = "backlog"]
          /\ UNCHANGED <<command, handshakeOK, up>>
        BY <1>10 DEF ConnectOk, Connecting, clientVars
    <2>3. ~handshakeOK[c] /\ ~Control(c) /\ up[c] = <<>>
        BY <1>1, <2>2 DEF HelloOf
    <2>4. /\ handshakeOK' = [handshakeOK EXCEPT ![c] = FALSE]
          /\ up' = [up EXCEPT ![c] = <<>>]
        BY <1>1, <2>2, <2>3 DEF HelloTypes
    <2>5. /\ pc'[Client(c)] = "talking" /\ pc' \in [Pids -> ClientStates \union ServerStates]
          /\ \A d \in Clients : d # c => pc'[Client(d)] = pc[Client(d)]
        <3>1. "talking" \in ClientStates
            BY <1>2
        <3> QED
            BY <2>2, <3>1, MovesFacts
    <2>6. EffectIs(c, "talking", FALSE, <<>>, "backlog", n)
        BY <2>1, <2>2, <2>3, <2>4, <2>5 DEF EffectIs, MutexStates
    <2>7. <<>> \in Seq(UpMessages) /\ "talking" \in ClientStates /\ "backlog" \in ChanStates
        BY DEF ClientStates, ChanStates
    <2> QED
        BY <2>6, <2>7 DEF HelloEffect
<1>11. CASE ConnectFailed(c)
    <2>1. Same /\ pc[Client(c)] = "connecting" /\ ~Control(c)
        BY <1>1, <1>11 DEF ConnectFailed, Connecting, chanVars, HelloOf
    <2>2. UNCHANGED pc \/ Moves(Client(c), "freeing")
        <3>1. CASE retry[c] >= MaxRetry
            BY <1>11, <3>1 DEF ConnectFailed
        <3>2. CASE ~(retry[c] >= MaxRetry)
            BY <1>11, <3>2 DEF ConnectFailed
        <3> QED
            BY <3>1, <3>2
    <2> QED
        <3>1. pc[Client(c)] \in ClientStates
            BY <1>2, <2>1
        <3> QED
            BY <1>4, <1>5, <2>1, <2>2, <3>1
<1>12. CASE CommandWorker(c)
    <2>1. /\ pc[Client(c)] \in {"connecting", "talking", "freeing"}
          /\ UNCHANGED <<command, handshakeOK, chan, conn>>
        BY <1>12 DEF CommandWorker
    <2>2. CASE UNCHANGED up
        <3>1. CASE ticks[c] >= MaxWait
            <4>1. Moves(Client(c), "ended")
                BY <1>12, <3>1 DEF CommandWorker
            <4> QED
                BY <1>4, <2>1, <2>2, <4>1
        <3>2. CASE ~(ticks[c] >= MaxWait)
            <4>1. UNCHANGED pc
                BY <1>12, <3>2 DEF CommandWorker
            <4>2. pc[Client(c)] \in ClientStates
                BY <1>2, <2>1
            <4> QED
                BY <1>5, <2>1, <2>2, <4>1, <4>2
        <3> QED
            BY <3>1, <3>2
    <2>3. CASE ~UNCHANGED up
        <3>1. handshakeOK[c] /\ UNCHANGED pc
            BY <1>12, <2>3 DEF CommandWorker
        <3>2. PICK u \in {up[c], Append(up[c], "command")} : up' = [up EXCEPT ![c] = u]
            BY <1>12, <2>3 DEF CommandWorker
        <3>3. u \in Seq(UpMessages) /\ (up[c] # <<>> => u # <<>> /\ Head(u) = Head(up[c]))
            <4>1. up[c] \in Seq(UpMessages)
                BY <1>1 DEF HelloTypes
            <4>2. "command" \in UpMessages
                BY DEF UpMessages
            <4>3. CASE u = up[c]
                BY <4>1, <4>3
            <4>4. CASE u = Append(up[c], "command")
                BY <4>1, <4>2, <4>4
            <4> QED
                BY <3>2, <4>3, <4>4
        <3> QED
            BY <1>2, <1>6, <2>1, <3>1, <3>2, <3>3
    <2> QED
        BY <2>2, <2>3
<1>13. CASE PreHandshake(c)
    <2>1. /\ pc[Client(c)] = "talking" /\ ~handshakeOK[c] /\ up[c] = <<>> /\ ~Control(c)
          /\ UNCHANGED <<command, chan, conn>>
        BY <1>1, <1>13 DEF PreHandshake, Reading, HelloOf
    <2>2. CASE UNCHANGED handshakeOK
        <3>1. ~(handshakeOK' = [handshakeOK EXCEPT ![c] = TRUE])
            <4>1. handshakeOK'[c] = handshakeOK[c] /\ ~handshakeOK[c]
                BY <2>1, <2>2
            <4>2. [handshakeOK EXCEPT ![c] = TRUE][c] = TRUE
                BY <1>1 DEF HelloTypes
            <4> QED
                BY <4>1, <4>2
        <3> QED
            BY <1>2, <1>4, <1>13, <2>1, <2>2, <3>1 DEF PreHandshake
    <2>3. CASE ~UNCHANGED handshakeOK
        <3>1. /\ handshakeOK' = [handshakeOK EXCEPT ![c] = TRUE]
              /\ up' = [up EXCEPT ![c] = Append(<<>>, ConnectKey(c))]
              /\ UNCHANGED pc
            BY <1>13, <2>1, <2>3 DEF PreHandshake
        <3>2. ConnectKey(c) \in ConnectKeys
            BY <1>1, <2>1 DEF ConnectKey, ConnectKeys, Control, ControlCommands,
                              AllCommands, HelloTypes
        <3>3. /\ Append(<<>>, ConnectKey(c)) \in Seq(UpMessages)
              /\ Append(<<>>, ConnectKey(c)) # <<>>
              /\ Head(Append(<<>>, ConnectKey(c))) = ConnectKey(c)
            BY <3>2 DEF UpMessages
        <3>4. /\ chan' = [chan EXCEPT ![c] = chan[c]] /\ chan[c] \in ChanStates
              /\ conn' = [conn EXCEPT ![c] = conn[c]] /\ conn[c] \in Clients \union {None}
              /\ chan[c] # "refused"
            BY <1>1, <2>1 DEF HelloTypes, HelloOf
        <3>5. /\ pc'[Client(c)] = "talking"
              /\ pc' \in [Pids -> ClientStates \union ServerStates]
              /\ \A d \in Clients : d # c => pc'[Client(d)] = pc[Client(d)]
            <4>1. pc[Client(c)] \in ClientStates
                BY <1>2, <2>1
            <4> QED
                BY <1>3, <2>1, <3>1, <4>1
        <3>6. EffectIs(c, "talking", TRUE, Append(<<>>, ConnectKey(c)), chan[c], conn[c])
            BY <2>1, <3>1, <3>2, <3>3, <3>4, <3>5 DEF EffectIs, MutexStates
        <3>7. "talking" \in ClientStates
            BY DEF ClientStates
        <3> QED
            BY <3>3, <3>4, <3>6, <3>7 DEF HelloEffect
    <2> QED
        BY <2>2, <2>3
<1>14. CASE ReadChannel(c)
    <2>1. /\ pc[Client(c)] = "talking" /\ handshakeOK[c]
          /\ UNCHANGED <<command, handshakeOK, chan, conn>>
        BY <1>14 DEF ReadChannel, Reading, clientVars
    <2>2. CASE UNCHANGED up
        <3>1. UNCHANGED pc \/ Moves(Client(c), "ended")
            BY <1>14 DEF ReadChannel
        <3>2. pc[Client(c)] \in ClientStates
            BY <1>2, <2>1
        <3> QED
            BY <1>4, <1>5, <2>1, <2>2, <3>1, <3>2
    <2>3. CASE ~UNCHANGED up
        <3>1. up' = [up EXCEPT ![c] = Append(up[c], "command")] /\ UNCHANGED pc
            BY <1>14, <2>3 DEF ReadChannel
        <3>2. /\ Append(up[c], "command") \in Seq(UpMessages)
              /\ up[c] # <<>> => /\ Append(up[c], "command") # <<>>
                                 /\ Head(Append(up[c], "command")) = Head(up[c])
            <4>1. up[c] \in Seq(UpMessages)
                BY <1>1 DEF HelloTypes
            <4>2. "command" \in UpMessages
                BY DEF UpMessages
            <4> QED
                BY <4>1, <4>2
        <3> QED
            BY <1>2, <1>6, <2>1, <3>1, <3>2
    <2> QED
        BY <2>2, <2>3
<1>15. CASE ReadStreamEof(c)
    <2>1. Same /\ Moves(Client(c), "freeing") /\ pc[Client(c)] = "talking"
        BY <1>15 DEF ReadStreamEof, clientVars, chanVars
    <2>2. ~Control(c)
        BY <1>1, <2>1 DEF HelloOf
    <2> QED
        BY <1>4, <2>1, <2>2
<1>16. CASE FreeChannelFinally(c)
    <2>1. Same /\ Moves(Client(c), "ended")
        BY <1>16 DEF FreeChannelFinally, clientVars, chanVars
    <2> QED
        BY <1>4, <2>1
<1> QED
    BY <1>7, <1>8, <1>9, <1>10, <1>11, <1>12, <1>13, <1>14, <1>15, <1>16 DEF ClientStep

\* Such a step keeps the invariant.
LEMMA HelloClientStep ==
    ASSUME HelloInv, NEW c \in Clients, HelloEffect(c)
    PROVE  HelloInv'
<1>1. HelloOf(c) /\ HelloTypes
    BY DEF HelloInv, HelloTypes
<1>2. PICK s \in ClientStates, h \in BOOLEAN, u \in Seq(UpMessages),
           k \in ChanStates, n \in Clients \union {None} :
          EffectIs(c, s, h, u, k, n)
    BY DEF HelloEffect
<1>3. /\ HelloTypes'
      /\ \A d \in Clients : d # c => UNCHANGED HelloView(d)
    BY <1>1, <1>2 DEF HelloTypes, HelloView, EffectIs
<1>4. HelloOf(c)'
    BY <1>1, <1>2, <1>3 DEF HelloOf, HelloTypes, Control, EffectIs
<1> QED
    BY <1>3, <1>4, HelloOne

\* The invariant of the handshake holds in every state.
THEOREM HelloInvHolds == Spec => []HelloInv
<1>1. HelloInv /\ [Next]_vars => HelloInv'
    <2> SUFFICES ASSUME HelloInv, [Next]_vars PROVE HelloInv'
        OBVIOUS
    <2>1. CASE Next
        BY <2>1, HelloMutexStep, HelloDieStep, HelloServeStep,
           HelloClientEffect, HelloClientStep DEF Next
    <2>2. CASE UNCHANGED vars
        BY <2>2 DEF vars, HelloInv, HelloOf, Control
    <2> QED
        BY <2>1, <2>2
<1> QED
    BY <1>1, InitHello, PTL DEF Spec

\* The first message a server gets on a channel is the handshake: no channel is
\* refused for a command that came before it (ChannelHandShake).
THEOREM HelloIsTakenHolds == Spec => []HelloIsTaken
<1>1. HelloInv => HelloIsTaken
    BY DEF HelloInv, HelloOf, HelloIsTaken
<1> QED
    BY <1>1, HelloInvHolds, PTL
=============================================================================
