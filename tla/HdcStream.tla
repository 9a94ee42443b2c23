------------------------------ MODULE HdcStream ------------------------------
(***************************************************************************)
(* The packets of a session on its connection: Send, SendByProtocol, the     *)
(* loop of WriteUvTcpFd, the socket, AllocCallback, ReadStream, FetchIOBuf,  *)
(* OnRead and DecryptPayload (common/session.cpp, common/tcp.cpp).           *)
(*                                                                         *)
(* Both ends run this code.  At each, the main thread and the worker of the *)
(* session write, under writeTCPMutex, a few bytes at a time; only the      *)
(* worker reads, and not while it writes or waits for the mutex.  A byte is *)
(* the packet it belongs to and its place in it; the head of a packet tells *)
(* its size.                                                               *)
(***************************************************************************)
EXTENDS Integers, Sequences

CONSTANTS
    HeadSize,       \* sizeof(PayloadHead); bytes are scaled down
    Sizes,          \* bytes after the head: PayloadProtect and the data; some may
                    \* be more than BufSize, OnRead allows up to HDC_BUF_MAX_BYTES
    BufSize,        \* HDC_SOCKETPAIR_SIZE, the size of ioBuf
    SizeWanted,     \* what libuv wants to read at once
    Capacity,       \* bytes the sockets hold in one direction
    HostPackets,    \* bound: packets the host sends
    DaemonPackets   \* bound: packets the daemon sends

ASSUME SizesAssumption ==
    /\ {HeadSize, BufSize, SizeWanted, Capacity} \subseteq Nat \ {0}
    /\ Sizes \subseteq Nat \ {0}

Ends == {"host", "daemon"}
Threads == {"main", "work"}
Peer(e) == IF e = "host" THEN "daemon" ELSE "host"
MaxPackets(e) == IF e = "host" THEN HostPackets ELSE DaemonPackets
Packets == 1..(HostPackets + DaemonPackets)

VARIABLES
    sent,       \* per end: the sizes of the packets, in the order of the mutex
    thread,     \* per end and thread: the packet it waits to write
    writing,    \* per end: who has writeTCPMutex, and the bytes left to write
    socket,     \* per end: bytes it has sent, not received yet
    ioBuf,      \* per end: the bytes before availTailIndex
    got,        \* per end: the packets FetchCommand was called with
    bad,        \* per end: the packet from the peer that FetchCommand refuses, or 0
    state       \* per end: the session is open, or why it is freed

vars == <<sent, thread, writing, socket, ioBuf, got, bad, state>>

Byte == [packet : Nat \ {0}, place : Nat \ {0}]

TypeOK ==
    /\ sent \in [Ends -> Seq(Sizes)]
    /\ thread \in [Ends -> [Threads -> {0} \cup Sizes]]
    /\ writing \in [Ends -> [thread : {"none"} \cup Threads, left : Seq(Byte)]]
    /\ socket \in [Ends -> Seq(Byte)]
    /\ ioBuf \in [Ends -> Seq(Byte)]
    /\ got \in [Ends -> Seq(Nat)]
    /\ \A e \in Ends : Len(socket[e]) <= Capacity /\ Len(ioBuf[e]) <= BufSize
    /\ bad \in [Ends -> Nat]
    /\ state \in [Ends -> {"open", "error", "nobufs", "reset"}]

Init ==
    /\ sent = [e \in Ends |-> <<>>]
    /\ thread = [e \in Ends |-> [t \in Threads |-> 0]]
    /\ writing = [e \in Ends |-> [thread |-> "none", left |-> <<>>]]
    /\ socket = [e \in Ends |-> <<>>]
    /\ ioBuf = [e \in Ends |-> <<>>]
    /\ got = [e \in Ends |-> <<>>]
    /\ bad \in {f \in [Ends -> {0} \cup Packets] :
                   f["daemon"] \in 0..HostPackets /\ f["host"] = 0}
    /\ state = [e \in Ends |-> "open"]

-----------------------------------------------------------------------------
(* Sending *)

\* Send, SendByProtocol: a thread comes to WriteUvTcpFd with a packet, unless the
\* session is dead.
Send(e, t, n) ==
    /\ state[e] = "open"
    /\ thread[e][t] = 0
    /\ writing[e].thread # t
    /\ Len(sent[e]) + Len(SelectSeq(<<thread[e]["main"], thread[e]["work"]>>,
                                    LAMBDA x : x # 0)) < MaxPackets(e)
    /\ thread' = [thread EXCEPT ![e][t] = n]
    /\ UNCHANGED <<sent, writing, socket, ioBuf, got, bad, state>>

Packet(p, n) == [i \in 1..(HeadSize + n) |-> [packet |-> p, place |-> i]]

\* Fault: the mutex is not there.
LockUnlocked(e, t) ==
    /\ thread[e][t] # 0
    /\ sent' = [sent EXCEPT ![e] = Append(@, thread[e][t])]
    /\ writing' = [writing EXCEPT ![e] =
           [thread |-> t, left |-> Packet(Len(sent'[e]), thread[e][t]) \o @.left]]
    /\ thread' = [thread EXCEPT ![e][t] = 0]
    /\ UNCHANGED <<socket, ioBuf, got, bad, state>>

\* WriteUvTcpFd takes writeTCPMutex.
Lock(e, t) ==
    /\ thread[e][t] # 0
    /\ writing[e].thread = "none"
    /\ sent' = [sent EXCEPT ![e] = Append(@, thread[e][t])]
    /\ writing' = [writing EXCEPT ![e] =
           [thread |-> t, left |-> Packet(Len(sent'[e]), thread[e][t])]]
    /\ thread' = [thread EXCEPT ![e][t] = 0]
    /\ UNCHANGED <<socket, ioBuf, got, bad, state>>

\* The loop of WriteUvTcpFd: send takes k bytes.  With EAGAIN it is tried again
\* until there is room.
WriteUvTcpFd(e, k) ==
    /\ state[Peer(e)] = "open"
    /\ k <= Len(writing[e].left)
    /\ Len(socket[e]) + k <= Capacity
    /\ socket' = [socket EXCEPT ![e] = @ \o SubSeq(writing[e].left, 1, k)]
    /\ writing' = [writing EXCEPT ![e] =
           IF k = Len(@.left) THEN [thread |-> "none", left |-> <<>>]
           ELSE [@ EXCEPT !.left = SubSeq(writing[e].left, k + 1, Len(writing[e].left))]]
    /\ UNCHANGED <<sent, thread, ioBuf, got, bad, state>>

\* send fails: the peer has closed the connection.
WriteFails(e) ==
    /\ writing[e].thread # "none"
    /\ state[Peer(e)] # "open"
    /\ writing' = [writing EXCEPT ![e] = [thread |-> "none", left |-> <<>>]]
    /\ UNCHANGED <<sent, thread, socket, ioBuf, got, bad, state>>

-----------------------------------------------------------------------------
(* Receiving *)

\* DecryptPayload: the packet that starts at the first of bytes, or 0 if they are
\* not those of one packet; what is no head is taken for one.
DecryptPayload(bytes) ==
    IF \A i \in DOMAIN bytes : bytes[i] = [packet |-> bytes[1].packet, place |-> i]
    THEN bytes[1].packet ELSE 0

\* Fault: a packet must be followed by another byte.
OnReadShort(e, bytes) ==
    LET size == sent[Peer(e)][bytes[1].packet] IN
    IF bytes[1].place # 1 THEN -1
    ELSE IF Len(bytes) - HeadSize <= size THEN 0
    ELSE IF bytes[1].packet = bad[e] THEN -1
    ELSE HeadSize + size

\* OnRead: PACKET_FLAG is checked, then whether the packet is all there, then what
\* FetchCommand says.
OnRead(e, bytes) ==
    LET size == sent[Peer(e)][bytes[1].packet] IN
    IF bytes[1].place # 1 THEN -1
    ELSE IF Len(bytes) - HeadSize < size THEN 0
    ELSE IF bytes[1].packet = bad[e] THEN -1
    ELSE HeadSize + size

\* Fault: the bytes left over stay where they are.
FetchIOBufUnmoved(e, buf) ==
    IF Len(buf) <= HeadSize \/ OnRead(e, buf) = 0
    THEN [index |-> 0, got |-> <<>>, error |-> FALSE]
    ELSE IF OnRead(e, buf) < 0 THEN [index |-> 0, got |-> <<>>, error |-> TRUE]
    ELSE [index |-> OnRead(e, buf) - 1, got |-> <<buf[1].packet>>, error |-> FALSE]

\* The loop of FetchIOBuf: index is indexBuf, the bytes that were used.
FetchIOBuf(e, buf) ==
    LET rest(i) == SubSeq(buf, i + 1, Len(buf))
        loop[i \in 0..Len(buf)] ==
            IF Len(buf) - i <= HeadSize THEN [index |-> i, got |-> <<>>, error |-> FALSE]
            ELSE LET r == OnRead(e, rest(i)) IN
                 IF r = 0 THEN [index |-> i, got |-> <<>>, error |-> FALSE]
                 ELSE IF r < 0 THEN [index |-> 0, got |-> <<>>, error |-> TRUE]
                 ELSE [loop[i + r] EXCEPT
                          !.got = <<DecryptPayload(SubSeq(buf, i + 1, i + r))>> \o @]
    IN loop[0]

\* AllocCallback: the room behind availTailIndex.
AllocCallback(e) ==
    IF BufSize - Len(ioBuf[e]) < SizeWanted THEN BufSize - Len(ioBuf[e]) ELSE SizeWanted

\* The worker is in the child loop.
Reads(e) == /\ state[e] = "open"
            /\ thread[e]["work"] = 0
            /\ writing[e].thread # "work"

\* ReadStream with k bytes.
ReadStream(e, k) ==
    /\ Reads(e)
    /\ k <= Len(socket[Peer(e)])
    /\ k <= AllocCallback(e)
    /\ socket' = [socket EXCEPT ![Peer(e)] = SubSeq(@, k + 1, Len(@))]
    /\ LET buf == ioBuf[e] \o SubSeq(socket[Peer(e)], 1, k)
           f == FetchIOBuf(e, buf)
       IN /\ got' = [got EXCEPT ![e] = @ \o f.got]
          /\ ioBuf' = [ioBuf EXCEPT ![e] = IF f.error THEN <<>>
                                           ELSE SubSeq(buf, f.index + 1, Len(buf))]
          /\ state' = [state EXCEPT ![e] = IF f.error THEN "error" ELSE @]
    /\ UNCHANGED <<sent, thread, writing, bad>>

\* ReadStream with UV_ENOBUFS: there is no room.
ReadStreamNoBufs(e) ==
    /\ Reads(e)
    /\ socket[Peer(e)] # <<>>
    /\ AllocCallback(e) = 0
    /\ state' = [state EXCEPT ![e] = "nobufs"]
    /\ UNCHANGED <<sent, thread, writing, socket, ioBuf, got, bad>>

\* ReadStream with an error: the peer has closed the connection.
ReadStreamReset(e) ==
    /\ Reads(e)
    /\ socket[Peer(e)] = <<>>
    /\ state[Peer(e)] # "open"
    /\ state' = [state EXCEPT ![e] = "reset"]
    /\ UNCHANGED <<sent, thread, writing, socket, ioBuf, got, bad>>

-----------------------------------------------------------------------------
Write(e) == (\E k \in 1..BufSize : WriteUvTcpFd(e, k)) \/ WriteFails(e)

Read(e) ==
    \/ \E k \in 1..SizeWanted : ReadStream(e, k)
    \/ ReadStreamNoBufs(e)
    \/ ReadStreamReset(e)

Next ==
    \E e \in Ends :
        \/ \E t \in Threads, n \in Sizes : Send(e, t, n)
        \/ \E t \in Threads : Lock(e, t)
        \/ Write(e)
        \/ Read(e)

Spec == Init /\ [][Next]_vars

\* The threads run, and the mutex is fair enough.
FairSpec ==
    /\ Spec
    /\ \A e \in Ends : /\ WF_vars(Write(e))
                       /\ WF_vars(Read(e))
                       /\ \A t \in Threads : SF_vars(Lock(e, t))

-----------------------------------------------------------------------------
\* FetchCommand sees every packet once, whole, in the order in which the threads
\* of the peer came to write, whatever pieces the bytes arrive in.
InOrder == \A e \in Ends : got[e] = [i \in DOMAIN got[e] |-> i]

\* A session is given up for what it received only if a command was refused, and
\* for want of room only if the packet it has begun does not fit the buffer: bytes
\* that are left over never take the room of the packet they belong to.
GivenUpForCause ==
    \A e \in Ends :
        /\ state[e] = "error" => bad[e] # 0 /\ Len(got[e]) = bad[e] - 1
        /\ state[e] = "nobufs" => HeadSize + sent[Peer(e)][Len(got[e]) + 1] > BufSize

\* The invariants behind these.

\* The bytes of packet p of e, and which byte comes behind which.
Whole(e, p) == HeadSize + sent[e][p]
ByteOK(e, b) == b.packet \in 1..Len(sent[e]) /\ b.place \in 1..Whole(e, b.packet)
Follows(e, a, b) ==
    \/ /\ a.place < Whole(e, a.packet)
       /\ b = [packet |-> a.packet, place |-> a.place + 1]
    \/ /\ a.place = Whole(e, a.packet)
       /\ b = [packet |-> a.packet + 1, place |-> 1]

\* The bytes of e of which FetchCommand of its peer knows nothing yet.
InFlight(e) == ioBuf[Peer(e)] \o (socket[e] \o writing[e].left)

\* They are in order, from the next packet the peer waits for to the last one sent.
Contiguous(e, s) ==
    /\ \A i \in 1..Len(s) : ByteOK(e, s[i])
    /\ \A i \in 1..(Len(s) - 1) : Follows(e, s[i], s[i + 1])

Spans(e, s) ==
    LET next == Len(got[Peer(e)]) + 1
        last == Len(sent[e])
    IN IF s = <<>> THEN next = last + 1
       ELSE s[1] = [packet |-> next, place |-> 1] /\ s[Len(s)] = [packet |-> last, place |-> Whole(e, last)]

\* What stays in ioBuf is less than the packet it is of.
Incomplete(e) == ioBuf[e] # <<>> => Len(ioBuf[e]) < Whole(Peer(e), Len(got[e]) + 1)

StreamOf(e) ==
    /\ writing[e].thread = "none" => writing[e].left = <<>>
    /\ Len(got[Peer(e)]) <= Len(sent[e])
    /\ state[Peer(e)] = "open" =>
           /\ Contiguous(e, InFlight(e))
           /\ Spans(e, InFlight(e))
           /\ Incomplete(Peer(e))
    /\ state[Peer(e)] = "nobufs" => Len(got[Peer(e)]) < Len(sent[e])

StreamInv ==
    /\ TypeOK
    /\ InOrder
    /\ GivenUpForCause
    /\ \A e \in Ends : StreamOf(e)

\* What was sent arrives, unless a session was given up.
Arrives ==
    \A e \in Ends :
        Len(sent[e]) = MaxPackets(e) ~>
            \/ Len(got[Peer(e)]) = MaxPackets(e)
            \/ \E d \in Ends : state[d] # "open"
=============================================================================
