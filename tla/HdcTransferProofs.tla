-------------------------- MODULE HdcTransferProofs --------------------------
(***************************************************************************)
(* What holds of the copy of one file, of any size and with any reads and  *)
(* writes, when requests end in any order and any of them may fail or move *)
(* less than was asked: they are counted, descriptors are closed, and a    *)
(* file that is said to be there is there in full or ended early.          *)
(***************************************************************************)
EXTENDS HdcTransfer, FiniteSetTheorems, FunctionTheorems, TLAPS

IOOps == {"read", "write"}

FdOrNone == Fds \cup {0}
FileOrNone == Files \cup {0}
Queues == Seq(Files)
Modes == 0..MaxDirs
Requests == SUBSET Request
FdSets == SUBSET Fds
Pools == [Bufs -> {"absent", "free", "used"}]
Results == {"none", "OK", "Stop"}
FileSets == SUBSET Files
Counts == Nat
Outgoing == Seq(Message)

\* The record of an end within a callback.
EndX == [fd : FdOrNone, isFdOpen : BOOLEAN, ioFinish : BOOLEAN,
         closeNotify : BOOLEAN, closeReqSubmitted : BOOLEAN,
         indexIO : Counts, failed : BOOLEAN, isDir : BOOLEAN, cur : FileOrNone,
         queue : Queues, dirMode : Modes, pending : Requests, refCount : Int,
         openFds : FdSets, bufs : Pools, begun : BOOLEAN, stop : BOOLEAN,
         released : BOOLEAN, said : Results, lost : FileSets,
         early : BOOLEAN, broken : BOOLEAN, out : Outgoing]

-----------------------------------------------------------------------------
(* Sequences *)

\* What a queue of commands becomes: p is q without its first d elements, and
\* whatever else is in it is not one of cmds.
From(q, p, d, cmds) ==
    \A i \in DOMAIN p : p[i].cmd \in cmds => i + d \in DOMAIN q /\ p[i] = q[i + d]

\* The queue q when out is sent.
Joined(q, out) == q \o out

LEMMA TailOf ==
    ASSUME NEW q \in Seq(Message), q # <<>>
    PROVE  /\ Tail(q) \in Seq(Message) /\ 1 \in DOMAIN q /\ Head(q) = q[1] /\ Head(q) \in Message
           /\ DOMAIN q = 1..Len(q) /\ Len(q) \in Nat
           /\ Len(Tail(q)) = Len(q) - 1 /\ DOMAIN Tail(q) = 1..(Len(q) - 1)
           /\ \A i \in DOMAIN Tail(q) : i + 1 \in DOMAIN q /\ Tail(q)[i] = q[i + 1]
           /\ \A i \in DOMAIN q : i # 1 => i - 1 \in DOMAIN Tail(q) /\ Tail(q)[i - 1] = q[i]
<1>1. DOMAIN q = 1..Len(q) /\ Len(q) \in Nat \ {0}
  OBVIOUS
<1>2. Tail(q) \in Seq(Message) /\ Len(Tail(q)) = Len(q) - 1 /\ Head(q) = q[1]
  OBVIOUS
<1>3. \A i \in 1..(Len(q) - 1) : Tail(q)[i] = q[i + 1]
  BY <1>1
<1>4. DOMAIN Tail(q) = 1..(Len(q) - 1)
  BY <1>2
<1>5. q[1] \in Message
  BY <1>1
<1> QED
  BY <1>1, <1>2, <1>3, <1>4, <1>5

LEMMA AppendTo ==
    ASSUME NEW q \in Seq(Message), NEW m \in Message
    PROVE  /\ Joined(q, <<m>>) \in Seq(Message)
           /\ DOMAIN q = 1..Len(q) /\ Len(q) \in Nat
           /\ DOMAIN Joined(q, <<m>>) = 1..(Len(q) + 1)
           /\ \A i \in DOMAIN q : Joined(q, <<m>>)[i] = q[i]
           /\ Joined(q, <<m>>)[Len(q) + 1] = m
BY DEF Joined

LEMMA NothingTo ==
    ASSUME NEW q \in Seq(Message)
    PROVE  Joined(q, <<>>) = q
BY DEF Joined

LEMMA NoneIsASequence == <<>> \in Seq(Message)
OBVIOUS

-----------------------------------------------------------------------------
(* Steps of an end *)

LEMMA EndIsEndX ==
    /\ \A x \in End : x \in EndX /\ x.out = <<>>
    /\ \A x \in EndX : x.refCount \in Nat /\ x.out = <<>> => x \in End
<1> DEFINE Nothing == {<<>>}
           Shape(counts, out) ==
               [fd : FdOrNone, isFdOpen : BOOLEAN, ioFinish : BOOLEAN,
                closeNotify : BOOLEAN, closeReqSubmitted : BOOLEAN,
                indexIO : Counts, failed : BOOLEAN, isDir : BOOLEAN, cur : FileOrNone,
                queue : Queues, dirMode : Modes, pending : Requests, refCount : counts,
                openFds : FdSets, bufs : Pools, begun : BOOLEAN, stop : BOOLEAN,
                released : BOOLEAN, said : Results, lost : FileSets,
                early : BOOLEAN, broken : BOOLEAN, out : out]
<1>1. Counts \subseteq Int /\ Nothing \subseteq Outgoing /\ Nothing = {<<>>} /\ Counts = Nat
  BY DEF Counts, Outgoing
<1>2. End = Shape(Counts, Nothing) /\ EndX = Shape(Int, Outgoing)
  BY Zenon DEF End, EndX, FdOrNone, FileOrNone, Queues, Modes, Requests, FdSets, Pools,
               Results, FileSets, Counts
<1> HIDE DEF Nothing
<1>3. \A x \in Shape(Counts, Nothing) : x \in Shape(Int, Outgoing) /\ x.out = <<>>
  BY <1>1
<1>4. \A x \in Shape(Int, Outgoing) :
          x.refCount \in Counts /\ x.out = <<>> => x \in Shape(Counts, Nothing)
  BY <1>1
<1> HIDE DEF Shape
<1> QED
  BY <1>1, <1>2, <1>3, <1>4

LEMMA EndsAre == Ends = {"master", "slave"} /\ Other("master") = "slave" /\ Other("slave") = "master"
BY DEF Ends, Other

LEMMA StepEffect ==
    ASSUME TypeOK, NEW e \in Ends, NEW x \in EndX, NEW rest \in [Ends -> Seq(Message)],
           Step(e, x, rest)
    PROVE  /\ job' = job
           /\ end' \in [Ends -> EndX]
           /\ end'[Other(e)] = end[Other(e)]
           /\ end'[e] = [x EXCEPT !.out = <<>>]
           /\ net' \in [Ends -> Seq(Message)]
           /\ net'[e] = rest[e]
           /\ net'[Other(e)] = Joined(rest[Other(e)], x.out)
<1>1. [x EXCEPT !.out = <<>>] \in EndX
  BY NoneIsASequence DEF EndX, Outgoing
<1>2. end \in [Ends -> EndX]
  BY EndIsEndX DEF TypeOK
<1>3. x.out \in Seq(Message)
  BY DEF EndX, Outgoing
<1>4. Other(e) \in Ends /\ Other(e) # e
  BY DEF Ends, Other
<1>5. rest[Other(e)] \o x.out \in Seq(Message)
  BY <1>3, <1>4
<1> QED
  BY <1>1, <1>2, <1>4, <1>5 DEF Step, TypeOK, Joined

-----------------------------------------------------------------------------
(* The requests and the buffers of an end, x before and y after a step *)

\* A request for the thread pool that is no read or write.
Plain(r) == r = OpenRequest \/ r.op = "close"

PoolOK(x) == RequestsOK(x) /\ BufsOK(x)

LEMMA PoolSame ==
    ASSUME NEW x, NEW y, PoolOK(x),
           y.pending = x.pending, y.refCount = x.refCount, y.bufs = x.bufs,
           x.closeReqSubmitted => y.closeReqSubmitted
    PROVE  PoolOK(y)
BY DEF PoolOK, RequestsOK, BufsOK

\* A buffer that no request has changes.
LEMMA PoolBuffer ==
    ASSUME NEW x, NEW y, PoolOK(x), NEW b, NEW s, s # "used", x.bufs[b] # "used",
           x.bufs \in [Bufs -> {"absent", "free", "used"}],
           y.pending = x.pending, y.refCount = x.refCount,
           y.bufs = [x.bufs EXCEPT ![b] = s],
           x.closeReqSubmitted => y.closeReqSubmitted
    PROVE  PoolOK(y)
BY DEF PoolOK, RequestsOK, BufsOK

LEMMA Added ==
    ASSUME NEW P, NEW r, IsFiniteSet(P), r \notin P
    PROVE  /\ IsFiniteSet(P \cup {r}) /\ Cardinality(P) \in Nat
           /\ Cardinality(P \cup {r}) = Cardinality(P) + 1
BY FS_AddElement, FS_CardinalityType

LEMMA Removed ==
    ASSUME NEW P, NEW r, IsFiniteSet(P), r \in P
    PROVE  /\ IsFiniteSet(P \ {r}) /\ Cardinality(P) \in Nat \ {0}
           /\ Cardinality(P \ {r}) = Cardinality(P) - 1
<1>1. IsFiniteSet(P \ {r}) /\ Cardinality(P \ {r}) = Cardinality(P) - 1
  BY FS_RemoveElement
<1>2. Cardinality(P) \in Nat
  BY FS_CardinalityType
<1>3. Cardinality(P) # 0
  BY FS_EmptySet
<1> QED
  BY <1>1, <1>2, <1>3

\* A file is opened, or closed for the first time.
LEMMA PoolSubmits ==
    ASSUME NEW x, NEW y, PoolOK(x), NEW r, Plain(r), r \notin x.pending,
           r.op = "close" => y.closeReqSubmitted /\ ~x.closeReqSubmitted,
           x.closeReqSubmitted => y.closeReqSubmitted,
           y.pending = x.pending \cup {r}, y.refCount = x.refCount + 1, y.bufs = x.bufs
    PROVE  PoolOK(y)
<1>1. IsFiniteSet(y.pending) /\ y.refCount = Cardinality(y.pending)
  BY Added DEF PoolOK, RequestsOK
<1>2. r.op \notin IOOps
  BY DEF Plain, OpenRequest, IOOps
<1>3. \A p \in y.pending :
          /\ p.op = "open" => p = OpenRequest
          /\ p.op = "close" => y.closeReqSubmitted
          /\ p.op \in {"read", "write"} => p.buf \in Bufs /\ y.bufs[p.buf] = "used"
  BY <1>2 DEF PoolOK, RequestsOK, Plain, IOOps
<1>4. \A p, q \in y.pending : p.op = "close" /\ q.op = "close" => p = q
  BY DEF PoolOK, RequestsOK, Plain, OpenRequest
<1>5. BufsOK(y)
  BY <1>2 DEF PoolOK, BufsOK, IOOps
<1> QED
  BY <1>1, <1>3, <1>4, <1>5 DEF PoolOK, RequestsOK

\* The open or the close is done.
LEMMA PoolPlainDone ==
    ASSUME NEW x, NEW y, PoolOK(x), NEW r \in x.pending, Plain(r),
           \/ r.op = "close"
           \/ \A p \in x.pending : p.op # "close"
           \/ x.closeReqSubmitted => y.closeReqSubmitted,
           y.pending = x.pending \ {r}, y.refCount = x.refCount - 1, y.bufs = x.bufs
    PROVE  PoolOK(y)
<1>1. IsFiniteSet(y.pending) /\ y.refCount = Cardinality(y.pending)
  BY Removed DEF PoolOK, RequestsOK
<1>2. r.op \notin IOOps
  BY DEF Plain, OpenRequest, IOOps
<1>3. \A p \in y.pending :
          /\ p.op = "open" => p = OpenRequest
          /\ p.op = "close" => y.closeReqSubmitted
          /\ p.op \in {"read", "write"} => p.buf \in Bufs /\ y.bufs[p.buf] = "used"
  BY <1>2 DEF PoolOK, RequestsOK, Plain, IOOps
<1>4. \A p, q \in y.pending : p.op = "close" /\ q.op = "close" => p = q
  BY DEF PoolOK, RequestsOK
<1>5. BufsOK(y)
  BY <1>2 DEF PoolOK, BufsOK, IOOps
<1> QED
  BY <1>1, <1>3, <1>4, <1>5 DEF PoolOK, RequestsOK

\* A read or write starts with a buffer that was not used.
LEMMA PoolStartsIO ==
    ASSUME NEW x, NEW y, PoolOK(x), NEW r, r.op \in IOOps, NEW b \in Bufs, r.buf = b,
           x.bufs \in [Bufs -> {"absent", "free", "used"}], x.bufs[b] # "used",
           x.closeReqSubmitted => y.closeReqSubmitted,
           y.pending = x.pending \cup {r}, y.refCount = x.refCount + 1,
           y.bufs = [x.bufs EXCEPT ![b] = "used"]
    PROVE  PoolOK(y)
<1>1. \A p \in x.pending : p.op \in IOOps => p.buf \in Bufs /\ p.buf # b /\ x.bufs[p.buf] = "used"
  BY DEF PoolOK, RequestsOK, IOOps
<1>2. r \notin x.pending
  BY <1>1
<1>3. IsFiniteSet(y.pending) /\ y.refCount = Cardinality(y.pending)
  BY <1>2, Added DEF PoolOK, RequestsOK
<1>4. \A p \in y.pending :
          /\ p.op = "open" => p = OpenRequest
          /\ p.op = "close" => y.closeReqSubmitted
          /\ p.op \in {"read", "write"} => p.buf \in Bufs /\ y.bufs[p.buf] = "used"
  BY <1>1 DEF PoolOK, RequestsOK, IOOps
<1>5. \A p, q \in y.pending : p.op = "close" /\ q.op = "close" => p = q
  BY DEF PoolOK, RequestsOK, IOOps
<1>6. BufsOK(y)
  BY <1>1 DEF PoolOK, BufsOK, IOOps
<1> QED
  BY <1>3, <1>4, <1>5, <1>6 DEF PoolOK, RequestsOK

\* A read or write is done and gives its buffer back.
LEMMA PoolIODone ==
    ASSUME NEW x, NEW y, PoolOK(x), NEW r \in x.pending, r.op \in IOOps,
           x.bufs \in [Bufs -> {"absent", "free", "used"}],
           x.closeReqSubmitted => y.closeReqSubmitted,
           y.pending = x.pending \ {r}, y.refCount = x.refCount - 1,
           y.bufs = [x.bufs EXCEPT ![r.buf] = "free"]
    PROVE  PoolOK(y)
<1>1. \A p \in y.pending : p.op \in IOOps => p.buf \in Bufs /\ p.buf # r.buf /\ x.bufs[p.buf] = "used"
  BY DEF PoolOK, RequestsOK, BufsOK, IOOps
<1>2. IsFiniteSet(y.pending) /\ y.refCount = Cardinality(y.pending)
  BY Removed DEF PoolOK, RequestsOK
<1>3. \A p \in y.pending :
          /\ p.op = "open" => p = OpenRequest
          /\ p.op = "close" => y.closeReqSubmitted
          /\ p.op \in {"read", "write"} => p.buf \in Bufs /\ y.bufs[p.buf] = "used"
  BY <1>1 DEF PoolOK, RequestsOK, IOOps
<1>4. \A p, q \in y.pending : p.op = "close" /\ q.op = "close" => p = q
  BY DEF PoolOK, RequestsOK
<1>5. BufsOK(y)
  BY <1>1 DEF PoolOK, BufsOK, RequestsOK, IOOps
<1> QED
  BY <1>2, <1>3, <1>4, <1>5 DEF PoolOK, RequestsOK

-----------------------------------------------------------------------------
(* What the operators return for an end *)

SameTask(x, y) ==
    /\ y.begun = x.begun /\ y.stop = x.stop /\ y.released = x.released
    /\ y.isDir = x.isDir /\ y.cur = x.cur /\ y.dirMode = x.dirMode
    /\ (x.early => y.early) /\ (x.broken => y.broken)
SameFlags(x, y) ==
    /\ y.isFdOpen = x.isFdOpen /\ y.ioFinish = x.ioFinish /\ y.closeNotify = x.closeNotify
    /\ y.closeReqSubmitted = x.closeReqSubmitted /\ y.failed = x.failed
SamePool(x, y) == y.pending = x.pending /\ y.refCount = x.refCount /\ y.bufs = x.bufs
SameFds(x, y) == y.fd = x.fd /\ y.openFds = x.openFds
SameSaid(x, y) == y.indexIO = x.indexIO /\ y.said = x.said

\* Only what is sent differs.
Same(x, y) ==
    SameTask(x, y) /\ SameFlags(x, y) /\ SamePool(x, y) /\ SameFds(x, y) /\ SameSaid(x, y)

LEMMA EndTypes ==
    \A x \in EndX :
        /\ x.fd \in Fds \cup {0} /\ x.indexIO \in Nat /\ x.cur \in Files \cup {0}
        /\ x.pending \subseteq Request /\ x.refCount \in Int /\ x.openFds \subseteq Fds
        /\ x.bufs \in [Bufs -> {"absent", "free", "used"}]
        /\ x.isFdOpen \in BOOLEAN /\ x.ioFinish \in BOOLEAN /\ x.closeNotify \in BOOLEAN
        /\ x.closeReqSubmitted \in BOOLEAN /\ x.failed \in BOOLEAN /\ x.isDir \in BOOLEAN
        /\ x.begun \in BOOLEAN /\ x.stop \in BOOLEAN /\ x.released \in BOOLEAN
        /\ x.said \in {"none", "OK", "Stop"} /\ x.out \in Seq(Message)
        /\ x.early \in BOOLEAN /\ x.broken \in BOOLEAN
<1>1. \A x \in EndX :
        /\ x.fd \in FdOrNone /\ x.indexIO \in Counts /\ x.cur \in FileOrNone
        /\ x.pending \in Requests /\ x.refCount \in Int /\ x.openFds \in FdSets
        /\ x.bufs \in Pools
        /\ x.isFdOpen \in BOOLEAN /\ x.ioFinish \in BOOLEAN /\ x.closeNotify \in BOOLEAN
        /\ x.closeReqSubmitted \in BOOLEAN /\ x.failed \in BOOLEAN /\ x.isDir \in BOOLEAN
        /\ x.begun \in BOOLEAN /\ x.stop \in BOOLEAN /\ x.released \in BOOLEAN
        /\ x.said \in Results /\ x.out \in Outgoing
        /\ x.early \in BOOLEAN /\ x.broken \in BOOLEAN
  BY DEF EndX
<1> QED
  BY <1>1 DEF FdOrNone, FileOrNone, Requests, FdSets, Pools, Results, Counts, Outgoing

LEMMA SendIs ==
    ASSUME NEW x \in EndX, NEW m \in Message, job.kind = "file", x.out = <<>>
    PROVE  /\ Send(x, m) \in EndX /\ Same(x, Send(x, m))
           /\ Send(x, m).out = IF x.stop THEN <<>> ELSE <<m>>
           /\ Send(x, m).early = x.early
<1>1. Append(x.out, m) \in Outgoing /\ Append(x.out, m) = <<m>>
  BY DEF Outgoing
<1>2. Mute(x) = x.stop
  BY EndTypes DEF Mute
<1>3. CASE x.stop
  BY <1>2, <1>3 DEF Send, Same, SameTask, SameFlags, SamePool, SameFds, SameSaid
<1>4. CASE ~x.stop
  <2>1. Send(x, m) = [x EXCEPT !.out = Append(x.out, m)]
    BY <1>2, <1>4 DEF Send
  <2>2. Send(x, m) \in EndX
    BY <2>1, <1>1 DEF EndX
  <2> QED
    BY <1>1, <1>4, <2>1, <2>2 DEF EndX, Same, SameTask, SameFlags, SamePool, SameFds, SameSaid
<1> QED
  BY <1>3, <1>4

LEMMA MsgIsMessage ==
    \A cmd \in Commands, n \in 0..(MaxRead + DataByte + 1) :
        /\ Msg(cmd, n) \in Message /\ Msg(cmd, n).cmd = cmd /\ Msg(cmd, n).n = n
BY BoundsAssumption DEF Msg, Message

LEMMA TaskFinishIs ==
    ASSUME NEW x \in EndX, job.kind = "file", x.out = <<>>
    PROVE  /\ TaskFinish(x) \in EndX /\ Same(x, TaskFinish(x))
           /\ TaskFinish(x).out = IF x.stop THEN <<>> ELSE <<Msg("CHANNEL_CLOSE", 1)>>
           /\ Msg("CHANNEL_CLOSE", 1) \in Message /\ Msg("CHANNEL_CLOSE", 1).cmd = "CHANNEL_CLOSE"
<1>1. "CHANNEL_CLOSE" \in Commands /\ 1 \in 0..(MaxRead + DataByte + 1)
  BY BoundsAssumption DEF Commands
<1>2. Msg("CHANNEL_CLOSE", 1) \in Message /\ Msg("CHANNEL_CLOSE", 1).cmd = "CHANNEL_CLOSE"
  BY <1>1, MsgIsMessage
<1> QED
  BY <1>2, SendIs DEF TaskFinish

LEMMA MallocIs ==
    ASSUME NEW x \in EndX, Room(x)
    PROVE  Malloc(x) \in Bufs /\ x.bufs[Malloc(x)] # "used"
<1>1. x.bufs \in [Bufs -> {"absent", "free", "used"}]
  BY EndTypes
<1> QED
  BY <1>1 DEF Room, Malloc

\* A request with a buffer of its own was handed to the thread pool.
IOStarted(x, y, op, index, n) ==
    /\ y \in EndX /\ y.out = x.out
    /\ SameTask(x, y) /\ SameFlags(x, y) /\ SameFds(x, y) /\ SameSaid(x, y)
    /\ \E b \in Bufs, r \in Request :
           /\ x.bufs[b] # "used" /\ y.bufs = [x.bufs EXCEPT ![b] = "used"]
           /\ r.op = op /\ r.fd = x.fd /\ r.buf = b /\ r.index = index /\ r.n = n
           /\ y.pending = x.pending \cup {r} /\ y.refCount = x.refCount + 1

LEMMA StartsIO ==
    ASSUME NEW x \in EndX, Room(x), ~x.ioFinish, NEW op \in IOOps,
           NEW index \in 0..MaxBlocks, NEW n \in 0..MaxRead, NEW y,
           y = SimpleFileIO(x, op, index, n)
    PROVE  IOStarted(x, y, op, index, n)
<1> DEFINE b == Malloc(x)
           r == [op |-> op, fd |-> x.fd, buf |-> b, index |-> index, n |-> n]
<1>1. b \in Bufs /\ x.bufs[b] # "used"
  BY MallocIs
<1>2. r \in Request
  BY <1>1, EndTypes DEF Request, IOOps
<1>3. [x.bufs EXCEPT ![b] = "used"] \in Pools
  BY <1>1, EndTypes DEF Pools
<1>4. x.pending \cup {r} \in Requests /\ x.refCount + 1 \in Int
  BY <1>2, EndTypes DEF Requests
<1>5. y = [[x EXCEPT !.bufs = [x.bufs EXCEPT ![b] = "used"]]
             EXCEPT !.pending = x.pending \cup {r}, !.refCount = x.refCount + 1]
  BY DEF SimpleFileIO, Submit, EndX
<1>6. r.op = op /\ r.fd = x.fd /\ r.buf = b /\ r.index = index /\ r.n = n
  OBVIOUS
<1> HIDE DEF b, r
<1>7. y \in EndX
  BY <1>3, <1>4, <1>5 DEF EndX
<1>8. /\ y.out = x.out /\ y.bufs = [x.bufs EXCEPT ![b] = "used"]
      /\ y.pending = x.pending \cup {r} /\ y.refCount = x.refCount + 1
      /\ SameTask(x, y) /\ SameFlags(x, y) /\ SameFds(x, y) /\ SameSaid(x, y)
  BY <1>5 DEF EndX, SameTask, SameFlags, SameFds, SameSaid
<1> QED
  BY <1>1, <1>2, <1>6, <1>7, <1>8 DEF IOStarted

LEMMA CloseRequestIs ==
    \A fd \in FdOrNone : /\ CloseRequest(fd) \in Request /\ CloseRequest(fd).op = "close"
                         /\ CloseRequest(fd).fd = fd
BY BoundsAssumption DEF CloseRequest, Request, FdOrNone

LEMMA OpenRequestIs == OpenRequest \in Request /\ OpenRequest.op = "open"
BY BoundsAssumption DEF OpenRequest, Request

LEMMA UseCloseReqIs ==
    ASSUME NEW x \in EndX
    PROVE  /\ UseCloseReq(x) \in EndX /\ UseCloseReq(x).out = x.out /\ Same(x, UseCloseReq(x))
           /\ UseCloseReq(x).broken = (x.broken \/ CloseBusy(x))
<1>1. (x.broken \/ CloseBusy(x)) \in BOOLEAN
  BY EndTypes DEF CloseBusy
<1> QED
  BY <1>1 DEF UseCloseReq, EndX, Same, SameTask, SameFlags, SamePool, SameFds, SameSaid

\* The end of OnFileIO when the file is to be closed.
LEMMA CloseStepCloses ==
    ASSUME NEW e \in Ends, NEW x \in EndX, x.ioFinish, ~x.failed, ~x.closeReqSubmitted,
           NEW y, y = CloseStep(e, x)
    PROVE  /\ y \in EndX /\ y.out = x.out
           /\ SameTask(x, y) /\ SameFds(x, y) /\ SameSaid(x, y)
           /\ y.closeReqSubmitted /\ ~y.isFdOpen /\ y.ioFinish /\ ~y.failed
           /\ y.closeNotify = x.closeNotify
           /\ \E r \in Request : /\ r.op = "close" /\ r.fd = x.fd
                                 /\ y.pending = x.pending \cup {r}
           /\ y.refCount = x.refCount + 1 /\ y.bufs = x.bufs
<1> DEFINE r == CloseRequest(x.fd)
           u == UseCloseReq(x)
<1>1. x.fd \in FdOrNone /\ x.pending \in Requests /\ x.refCount + 1 \in Int
  BY EndTypes DEF FdOrNone, Requests
<1>2. r \in Request /\ r.op = "close" /\ r.fd = x.fd
  BY <1>1, CloseRequestIs
<1>3. x.pending \cup {r} \in Requests
  BY <1>1, <1>2 DEF Requests
<1>4. y = [[u EXCEPT !.pending = u.pending \cup {r}, !.refCount = u.refCount + 1]
             EXCEPT !.closeReqSubmitted = TRUE, !.isFdOpen = FALSE]
  BY DEF CloseStep, Submit
<1> HIDE DEF r
<1>7. /\ u \in EndX /\ u.out = x.out /\ Same(x, u)
  BY UseCloseReqIs
<1> HIDE DEF u
<1>8. u.pending = x.pending /\ u.refCount = x.refCount
  BY <1>7 DEF Same, SamePool
<1>9. PICK w : w = [u EXCEPT !.pending = u.pending \cup {r}, !.refCount = u.refCount + 1]
  OBVIOUS
<1>10. w \in EndX
  BY <1>1, <1>3, <1>7, <1>8, <1>9 DEF EndX
<1>5. y \in EndX
  <2>1. y = [w EXCEPT !.closeReqSubmitted = TRUE, !.isFdOpen = FALSE]
    BY <1>4, <1>9
  <2> QED
    BY <1>10, <2>1 DEF EndX
<1>6. /\ y.out = x.out /\ y.pending = x.pending \cup {r} /\ y.refCount = x.refCount + 1
      /\ y.bufs = x.bufs
      /\ SameTask(x, y) /\ SameFds(x, y) /\ SameSaid(x, y)
      /\ y.closeReqSubmitted /\ ~y.isFdOpen /\ y.ioFinish /\ ~y.failed
      /\ y.closeNotify = x.closeNotify
  <2>1. /\ y.out = u.out /\ y.pending = u.pending \cup {r} /\ y.refCount = u.refCount + 1
        /\ y.bufs = u.bufs
        /\ SameTask(u, y) /\ SameFds(u, y) /\ SameSaid(u, y)
        /\ y.closeReqSubmitted /\ ~y.isFdOpen /\ y.ioFinish = u.ioFinish
        /\ y.failed = u.failed /\ y.closeNotify = u.closeNotify
    BY <1>4, <1>7 DEF EndX, SameTask, SameFds, SameSaid
  <2> QED
    BY <2>1, <1>7 DEF Same, SameTask, SameFlags, SamePool, SameFds, SameSaid
<1> QED
  BY <1>2, <1>5, <1>6

LEMMA FinishMessage ==
    ASSUME NEW n \in 0..(MaxRead + DataByte + 1)
    PROVE  /\ Msg("FINISH", n) \in Message /\ Msg("FINISH", n).cmd = "FINISH"
           /\ Msg("FINISH", n).n = n
BY MsgIsMessage DEF Commands

LEMMA SmallNumbers == {0, 1} \subseteq 0..(MaxRead + DataByte + 1)
BY BoundsAssumption

\* When it was closed or is lost, the other end is told.
LEMMA CloseStepTells ==
    ASSUME NEW e \in Ends, NEW x \in EndX, x.ioFinish, x.failed \/ x.closeReqSubmitted, x.out = <<>>,
           job.kind = "file", NEW y, y = CloseStep(e, x)
    PROVE  /\ y \in EndX /\ Same(x, y)
           /\ y.out = IF x.stop THEN <<>> ELSE <<Msg("FINISH", 1)>>
<1>1. PICK u : u = IF e = "slave" THEN UseCloseReq(x) ELSE x
  OBVIOUS
<1>2. y = Send(u, Msg("FINISH", 1))
  BY <1>1 DEF CloseStep, WhenTransferFinish
<1>3. u \in EndX /\ u.out = <<>> /\ Same(x, u)
  BY <1>1, UseCloseReqIs DEF Same, SameTask, SameFlags, SamePool, SameFds, SameSaid
<1>4. y \in EndX /\ Same(u, y) /\ y.out = IF u.stop THEN <<>> ELSE <<Msg("FINISH", 1)>>
  BY <1>2, <1>3, SendIs, FinishMessage, SmallNumbers
<1> QED
  BY <1>3, <1>4 DEF Same, SameTask, SameFlags, SamePool, SameFds, SameSaid

LEMMA TookIs ==
    ASSUME NEW x \in EndX, NEW r, NEW y, y = Took(x, r)
    PROVE  /\ y \in EndX /\ y.out = x.out
           /\ SameTask(x, y) /\ SameFlags(x, y) /\ SameFds(x, y) /\ SameSaid(x, y)
           /\ y.pending = x.pending \ {r} /\ y.refCount = x.refCount /\ y.bufs = x.bufs
<1>1. x.pending \ {r} \in Requests
  BY EndTypes DEF Requests
<1>2. y = [x EXCEPT !.pending = x.pending \ {r}]
  BY DEF Took
<1> QED
  BY <1>1, <1>2 DEF EndX, SameTask, SameFlags, SameFds, SameSaid

LEMMA EndFileIOIs ==
    ASSUME NEW x \in EndX, NEW r, r.buf \in Bufs, NEW y, y = EndFileIO(x, r)
    PROVE  /\ y \in EndX /\ y.out = x.out
           /\ SameTask(x, y) /\ SameFlags(x, y) /\ SameFds(x, y) /\ SameSaid(x, y)
           /\ y.pending = x.pending /\ y.refCount = x.refCount - 1
           /\ y.bufs = [x.bufs EXCEPT ![r.buf] = "free"]
<1> DEFINE bufs == [x.bufs EXCEPT ![r.buf] = "free"]
<1>1. bufs \in Pools /\ x.refCount \in Int
  BY EndTypes DEF Pools
<1>2. y = [[x EXCEPT !.bufs = bufs] EXCEPT !.refCount = x.refCount - 1]
  BY DEF EndFileIO, Return, FreeBuf, EndX
<1>3. x.refCount - 1 \in Int
  BY <1>1
<1> HIDE DEF bufs
<1>4. y \in EndX
  BY <1>1, <1>2, <1>3 DEF EndX
<1>5. /\ y.out = x.out /\ y.pending = x.pending /\ y.refCount = x.refCount - 1 /\ y.bufs = bufs
      /\ SameTask(x, y) /\ SameFlags(x, y) /\ SameFds(x, y) /\ SameSaid(x, y)
  BY <1>2 DEF EndX, SameTask, SameFlags, SameFds, SameSaid
<1> QED
  BY <1>4, <1>5 DEF bufs

LEMMA CloseNowIs ==
    ASSUME NEW x \in EndX, NEW y, y = CloseNow(x)
    PROVE  /\ y \in EndX /\ y.out = x.out
           /\ SameTask(x, y) /\ SamePool(x, y) /\ SameSaid(x, y) /\ y.fd = x.fd
           /\ y.openFds = x.openFds \ {x.fd} /\ ~y.isFdOpen /\ y.ioFinish = x.ioFinish
           /\ y.closeNotify = x.closeNotify /\ y.closeReqSubmitted = x.closeReqSubmitted
           /\ y.failed = x.failed
<1>1. x.openFds \ {x.fd} \in FdSets
  BY EndTypes DEF FdSets
<1>2. PICK u : u = UseCloseReq(x)
  OBVIOUS
<1>3. u \in EndX /\ u.out = x.out /\ Same(x, u)
  BY <1>2, UseCloseReqIs
<1>4. y = [u EXCEPT !.openFds = x.openFds \ {x.fd}, !.isFdOpen = FALSE]
  BY <1>2 DEF CloseNow
<1>5. /\ y \in EndX /\ y.out = u.out
      /\ SameTask(u, y) /\ SamePool(u, y) /\ SameSaid(u, y) /\ y.fd = u.fd
      /\ y.openFds = x.openFds \ {x.fd} /\ ~y.isFdOpen /\ y.ioFinish = u.ioFinish
      /\ y.closeNotify = u.closeNotify /\ y.closeReqSubmitted = u.closeReqSubmitted
      /\ y.failed = u.failed
  BY <1>1, <1>3, <1>4 DEF EndX, SameTask, SamePool, SameSaid
<1> QED
  BY <1>3, <1>5 DEF Same, SameTask, SameFlags, SamePool, SameFds, SameSaid

\* CMD_FILE_FINISH with another payload than 0: the file is closed, and answered.
Answered(x, n, y) ==
    /\ y \in EndX /\ SameTask(x, y) /\ SamePool(x, y) /\ SameSaid(x, y)
    /\ y.fd = x.fd
    /\ y.openFds = IF x.isFdOpen THEN x.openFds \ {x.fd} ELSE x.openFds
    /\ ~y.isFdOpen /\ y.ioFinish /\ y.closeNotify = x.closeNotify
    /\ y.closeReqSubmitted = x.closeReqSubmitted /\ y.failed = x.failed
    /\ y.out = IF x.stop THEN <<>> ELSE <<Msg("FINISH", n - 1)>>

LEMMA FinishAnswers ==
    ASSUME NEW x \in EndX, ~x.isDir, x.out = <<>>, job.kind = "file",
           NEW n \in 1..(MaxRead + DataByte + 1), NEW y, y = Finish(x, n)
    PROVE  Answered(x, n, y)
<1> DEFINE c == IF x.isFdOpen THEN CloseNow(x) ELSE x
           z == [c EXCEPT !.ioFinish = TRUE]
<1>1. c = IF x.isFdOpen THEN CloseNow(x) ELSE x
  OBVIOUS
<1> HIDE DEF c
<1>2. /\ c \in EndX /\ c.out = <<>> /\ ~c.isDir /\ c.ioFinish = x.ioFinish
      /\ SameTask(x, c) /\ SamePool(x, c) /\ SameSaid(x, c) /\ c.fd = x.fd
      /\ c.openFds = IF x.isFdOpen THEN x.openFds \ {x.fd} ELSE x.openFds
      /\ ~c.isFdOpen /\ c.closeNotify = x.closeNotify
      /\ c.closeReqSubmitted = x.closeReqSubmitted /\ c.failed = x.failed
  <2>1. CASE x.isFdOpen
    BY <2>1, <1>1, CloseNowIs DEF SameTask
  <2>2. CASE ~x.isFdOpen
    BY <2>2, <1>1, EndTypes DEF SameTask, SamePool, SameSaid
  <2> QED
    BY <2>1, <2>2
<1>3. n # 0 /\ n - 1 \in 0..(MaxRead + DataByte + 1)
  BY BoundsAssumption
<1>4. y = Send(z, Msg("FINISH", n - 1))
  BY <1>2, <1>3 DEF Finish, c
<1>5. /\ z \in EndX /\ z.out = <<>> /\ z.ioFinish /\ z.isFdOpen = c.isFdOpen
      /\ SameTask(c, z) /\ SamePool(c, z) /\ SameSaid(c, z) /\ SameFds(c, z)
      /\ z.closeNotify = c.closeNotify
      /\ z.closeReqSubmitted = c.closeReqSubmitted /\ z.failed = c.failed
  BY <1>2 DEF EndX, SameTask, SamePool, SameSaid, SameFds
<1> HIDE DEF z
<1>6. y \in EndX /\ Same(z, y) /\ y.out = IF z.stop THEN <<>> ELSE <<Msg("FINISH", n - 1)>>
  BY <1>3, <1>4, <1>5, SendIs, FinishMessage
<1> QED
  BY <1>2, <1>5, <1>6 DEF Answered, Same, SameTask, SameFlags, SamePool, SameFds, SameSaid

\* CMD_FILE_FINISH with 0: the user is told.
LEMMA FinishEnds ==
    ASSUME NEW x \in EndX, x.out = <<>>, job.kind = "file", NEW y, y = Finish(x, 0)
    PROVE  /\ y \in EndX /\ SameTask(x, y) /\ SamePool(x, y) /\ SameFds(x, y)
           /\ SameFlags(x, y) /\ y.indexIO = x.indexIO
           /\ y.said = "OK" => x.indexIO >= FileSize(x) \/ ~x.failed
           /\ y.said # "none"
           /\ y.out = IF x.stop THEN <<>> ELSE <<Msg("CHANNEL_CLOSE", 1)>>
<1> DEFINE s == IF x.indexIO >= FileSize(x) \/ ~x.failed THEN "OK" ELSE "Stop"
           z == [x EXCEPT !.said = s]
<1>1. y = TaskFinish(z)
  BY DEF Finish
<1>2. s \in Results /\ s # "none" /\ (s = "OK" => x.indexIO >= FileSize(x) \/ ~x.failed)
  BY DEF Results
<1> HIDE DEF s
<1>3. /\ z \in EndX /\ z.out = <<>> /\ SameTask(x, z) /\ SamePool(x, z) /\ SameFds(x, z)
      /\ SameFlags(x, z) /\ z.indexIO = x.indexIO /\ z.said = s
  BY <1>2 DEF EndX, SameTask, SamePool, SameFlags, SameFds
<1> HIDE DEF z
<1>4. /\ y \in EndX /\ Same(z, y)
      /\ y.out = IF z.stop THEN <<>> ELSE <<Msg("CHANNEL_CLOSE", 1)>>
  BY <1>1, <1>3, TaskFinishIs
<1> QED
  BY <1>2, <1>3, <1>4 DEF Same, SameTask, SameFlags, SamePool, SameFds, SameSaid

-----------------------------------------------------------------------------
(* What a step leaves of the queues and of the invariant *)

To(q, p, d, cmds) ==
    \A i \in DOMAIN q : i > d /\ q[i].cmd \in cmds => i - d \in DOMAIN p /\ p[i - d] = q[i]

LEMMA QueueSame ==
    ASSUME NEW q \in Seq(Message), NEW C
    PROVE  From(q, q, 0, C) /\ To(q, q, 0, C)
BY DEF From, To

LEMMA QueueTail ==
    ASSUME NEW q \in Seq(Message), q # <<>>, NEW C
    PROVE  From(q, Tail(q), 1, C) /\ To(q, Tail(q), 1, C)
BY TailOf DEF From, To

LEMMA QueueSent ==
    ASSUME NEW q \in Seq(Message), NEW m \in Message, NEW C
    PROVE  /\ m.cmd \notin C => From(q, Joined(q, <<m>>), 0, C)
           /\ To(q, Joined(q, <<m>>), 0, C)
BY AppendTo DEF From, To

LEMMA MessageTypes ==
    /\ \A m \in Message : /\ m.cmd \in Commands /\ m.file \in Files \cup {0}
                          /\ m.index \in 0..MaxBlocks
                          /\ m.n \in 0..(MaxRead + DataByte + 1)
    /\ \A q \in Seq(Message) : \A i \in DOMAIN q : q[i] \in Message
<1> DEFINE Places == 0..MaxBlocks
           Payloads == 0..(MaxRead + DataByte + 1)
<1>1. Message = [cmd : Commands, file : FileOrNone, index : Places, n : Payloads]
  BY Zenon DEF Message, FileOrNone
<1> HIDE DEF Places, Payloads
<1>2. \A m \in Message : /\ m.cmd \in Commands /\ m.file \in FileOrNone
                         /\ m.index \in Places /\ m.n \in Payloads
  BY <1>1
<1>3. \A q \in Seq(Message) : \A i \in DOMAIN q : q[i] \in Message
  OBVIOUS
<1> QED
  BY <1>2, <1>3 DEF FileOrNone, Places, Payloads

LEMMA RequestTypes ==
    \A r \in Request :
        /\ r.op \in {"open", "read", "write", "close"} /\ r.fd \in Fds \cup {0}
        /\ r.buf \in Bufs \cup {0} /\ r.index \in 0..MaxBlocks /\ r.n \in 0..MaxRead
<1> DEFINE Places == 0..MaxBlocks
           Amounts == 0..MaxRead
           BufOrNone == Bufs \cup {0}
           Ops == {"open", "read", "write", "close"}
<1>1. Request = [op : Ops, fd : FdOrNone, buf : BufOrNone, index : Places, n : Amounts]
  BY Zenon DEF Request, FdOrNone
<1> HIDE DEF Places, Amounts, BufOrNone, Ops
<1>2. \A r \in Request : /\ r.op \in Ops /\ r.fd \in FdOrNone /\ r.buf \in BufOrNone
                         /\ r.index \in Places /\ r.n \in Amounts
  BY <1>1
<1> QED
  BY <1>2 DEF FdOrNone, Places, Amounts, BufOrNone, Ops

\* Indices of a queue are numbers.
LEMMA Indices ==
    ASSUME net \in [Ends -> Seq(Message)]
    PROVE  /\ DOMAIN net["master"] = 1..Len(net["master"]) /\ Len(net["master"]) \in Nat
           /\ DOMAIN net["slave"] = 1..Len(net["slave"]) /\ Len(net["slave"]) \in Nat
           /\ net["master"] \in Seq(Message) /\ net["slave"] \in Seq(Message)
<1>1. net["master"] \in Seq(Message) /\ net["slave"] \in Seq(Message)
  BY DEF Ends
<1> QED
  BY <1>1

\* What each part of the invariant looks at stays, or shrinks.
LEMMA StageFrame ==
    ASSUME StageOK, net \in [Ends -> Seq(Message)], net' \in [Ends -> Seq(Message)],
           NEW c \in {0, 1}, NEW d \in {0, 1},
           From(net["master"], net'["master"], c, {"MODE", "BEGIN", "FINISH"}),
           From(net["slave"], net'["slave"], d, {"MODE", "CHECK", "DATA", "FINISH"}),
           M'.begun = M.begun, M'.cur = M.cur, S'.cur = S.cur,
           Opens("master")' => Opens("master"), Opens("slave")' => Opens("slave"),
           Reads' \subseteq Reads, Writes' \subseteq Writes,
           Quiet => /\ M'.indexIO = 0 /\ ~M'.ioFinish /\ ~S'.ioFinish
                    /\ M'.said = "none" /\ S'.said = "none"
    PROVE  StageOK'
<1>1. /\ \A i \in DOMAIN net'["master"] : i \in Nat
      /\ \A i \in DOMAIN net'["slave"] : i \in Nat
  BY DEF Ends
<1>2. /\ \A i \in Checks' : i + d \in Checks
      /\ \A i \in ModeAcks' : i + c \in ModeAcks
  BY DEF Checks, ModeAcks, At, From
<1>3. \A i \in At("slave", "DATA")' : i + d \in At("slave", "DATA")
  BY DEF At, From
<1>4. \A i \in At("slave", "FINISH")' : i + d \in At("slave", "FINISH")
  BY DEF At, From
<1>5. \A i \in At("master", "BEGIN")' : i + c \in At("master", "BEGIN")
  BY DEF At, From
<1>6. \A i \in At("master", "FINISH")' : i + c \in At("master", "FINISH")
  BY DEF At, From
<1>7. Quiet => Quiet'
  BY <1>3, <1>4, <1>6 DEF Quiet
<1>8. /\ \A i \in At("master", "BEGIN")' : i \in Nat
      /\ \A i \in Checks' : i \in Nat
      /\ \A i \in ModeAcks' : i \in Nat
  BY <1>1 DEF At, Checks, ModeAcks
<1>9. (\A i, j \in Checks' : i = j) /\ (\A i, j \in ModeAcks' : i = j)
  BY <1>2, <1>8 DEF StageOK
<1>10. \A i, j \in At("master", "BEGIN")' : i = j
  BY <1>5, <1>8 DEF StageOK
<1> QED
  BY <1>2, <1>5, <1>7, <1>9, <1>10 DEF StageOK

LEMMA CommandsFrame ==
    ASSUME CommandsOK, NEW c, NEW d,
           From(net["master"], net'["master"], c, Commands \ {"MODE", "BEGIN", "FINISH", "CHANNEL_CLOSE"}),
           From(net["slave"], net'["slave"], d, Commands \ {"MODE", "DATA", "FINISH", "CHANNEL_CLOSE"}),
           net' \in [Ends -> Seq(Message)]
    PROVE  CommandsOK'
<1>0. net'["master"] \in Seq(Message) /\ net'["slave"] \in Seq(Message)
  BY DEF Ends
<1>1. \A i \in DOMAIN net'["master"] : net'["master"][i].cmd \in Commands
  BY <1>0, MessageTypes
<1>2. \A i \in DOMAIN net'["slave"] : net'["slave"][i].cmd \in Commands
  BY <1>0, MessageTypes
<1> QED
  BY <1>1, <1>2 DEF CommandsOK, From, Commands

LEMMA ReadsFrame ==
    ASSUME ReadsOK, job' = job,
           \A r \in M'.pending : r \in M.pending \/ r.op \in {"open", "close"},
           \A r \in S'.pending : r \in S.pending \/ r.op \in {"open", "close", "write"},
           M'.indexIO = M.indexIO, M.ioFinish => M'.ioFinish,
           M'.failed = M.failed, M'.closeNotify => M.closeNotify,
           \/ M'.closeReqSubmitted => M.closeReqSubmitted
           \/ Reads' = {} /\ ~M'.closeNotify
    PROVE  ReadsOK'
<1>1. Reads' \subseteq Reads /\ Size' = Size
  BY DEF Reads, Size
<1> QED
  BY <1>1 DEF ReadsOK

LEMMA PiecesFrame ==
    ASSUME PiecesOK, job' = job, disk'[1] = disk[1], NEW d \in {0, 1},
           net' \in [Ends -> Seq(Message)],
           From(net["slave"], net'["slave"], d, {"DATA"}),
           Writes' \subseteq Writes, M'.indexIO = M.indexIO, M.ioFinish => M'.ioFinish,
           M.early => M'.early
    PROVE  PiecesOK'
<1>1. \A i \in At("slave", "DATA")' : /\ i + d \in At("slave", "DATA") /\ i \in Nat
                                      /\ net'["slave"][i] = net["slave"][i + d]
  BY DEF At, From, Ends
<1>2. \A i \in At("slave", "DATA")' : PieceOK(net["slave"][i])'
  BY <1>1 DEF PiecesOK, PieceOK, Size
<1>3. \A r \in Writes' : PieceOK(r)'
  BY DEF PiecesOK, PieceOK, Size
<1>4. \A i, j \in At("slave", "DATA")' : i # j => Apart(net'["slave"][i], net'["slave"][j])
  BY <1>1 DEF PiecesOK
<1>5. \A r, s \in Writes' : r # s => Apart(r, s)
  BY DEF PiecesOK
<1>6. \A i \in At("slave", "DATA")', r \in Writes' : Apart(net'["slave"][i], r)
  <2> TAKE i \in At("slave", "DATA")', r \in Writes'
  <2>1. i + d \in At("slave", "DATA") /\ r \in Writes /\ net'["slave"][i] = net["slave"][i + d]
    BY <1>1
  <2> QED
    BY <2>1 DEF PiecesOK
<1> QED
  BY <1>2, <1>3, <1>4, <1>5, <1>6 DEF PiecesOK

LEMMA DiskFrame ==
    ASSUME DiskOK, disk'[1] = disk[1], M'.indexIO = M.indexIO, S'.indexIO = S.indexIO
    PROVE  DiskOK'
BY DEF DiskOK

LEMMA FinishFrame ==
    ASSUME FinishOK, job' = job, NEW c \in {0, 1}, NEW d \in {0, 1},
           net \in [Ends -> Seq(Message)], net' \in [Ends -> Seq(Message)],
           \A i \in Finishes("slave", 0)' : i + d \in Finishes("slave", 0) \/ AnswerOK(i)',
           \A i \in Finishes("master", 1)' : i + c \in Finishes("master", 1) \/ AskOK(i)',
           \A i \in Finishes("master", 0)' :
               \/ i + c \in Finishes("master", 0) /\ net'["master"][i].n = net["master"][i + c].n
               \/ net'["master"][i].n = 0 /\ M'.failed,
           IF M.failed
           THEN /\ \A i \in Finishes("slave", 1)' :
                       /\ i + d \in Finishes("slave", 1)
                       /\ net'["slave"][i].n = net["slave"][i + d].n
                /\ \A i \in At("slave", "DATA")' : i + d \in At("slave", "DATA")
           ELSE MasterAsksOK',
           To(net["master"], net'["master"], c, {"FINISH"}),
           To(net["slave"], net'["slave"], d, {"CHANNEL_CLOSE"}),
           Complete => Complete',
           M.stop => M'.stop, S.stop => S'.stop,
           c = 1 => 1 \notin Finishes("master", 0) \/ Over',
           d = 1 => S'.stop \/ net["slave"][1].cmd # "CHANNEL_CLOSE",
           M.failed => M'.failed, S.failed => S'.failed, Early => Early',
           (S'.ioFinish => S.ioFinish) \/ SlaveDoneOK',
           (S'.closeNotify => S.closeNotify) \/ Resolved',
           (M'.said = "OK" \/ S'.said = "OK" => M.said = "OK" \/ S.said = "OK") \/ Complete' \/ Early'
    PROVE  FinishOK'
<1>1. /\ DOMAIN net["master"] \subseteq Nat \ {0} /\ DOMAIN net["slave"] \subseteq Nat \ {0}
      /\ DOMAIN net'["master"] \subseteq Nat \ {0} /\ DOMAIN net'["slave"] \subseteq Nat \ {0}
  BY DEF Ends
<1>2. Resolved => Resolved'
  BY DEF Resolved
<1>3. \A i \in At("slave", "CHANNEL_CLOSE") :
          i > d => i - d \in At("slave", "CHANNEL_CLOSE")'
  BY DEF At, To
<1>4. \A i \in At("slave", "CHANNEL_CLOSE") : i > d \/ S'.stop
  BY <1>1 DEF At
<1>5. Over => Over'
  BY <1>3, <1>4 DEF Over
<1>6. \A i \in Finishes("master", 0) :
          i > c => i - c \in Finishes("master", 0)'
  BY DEF At, To, Finishes
<1>7. \A i \in Finishes("master", 0) : i > c \/ Over'
  BY <1>1 DEF At, Finishes
<1>8. /\ \A k \in {0, 1} : Finishes("slave", k)' \subseteq Nat /\ Finishes("master", k)' \subseteq Nat
      /\ At("slave", "DATA")' \subseteq Nat /\ At("slave", "CHANNEL_CLOSE")' \subseteq Nat
      /\ \A k \in {0, 1} : Finishes("slave", k) \subseteq Nat /\ Finishes("master", k) \subseteq Nat
      /\ At("slave", "DATA") \subseteq Nat /\ At("slave", "CHANNEL_CLOSE") \subseteq Nat
  BY <1>1 DEF At, Finishes
<1>9. \A i \in Finishes("slave", 0)' : AnswerOK(i)'
  <2> SUFFICES ASSUME NEW i \in Finishes("slave", 0)', i + d \in Finishes("slave", 0)
               PROVE  AnswerOK(i)'
    OBVIOUS
  <2>1. i \in Nat /\ AnswerOK(i + d)
    BY <1>8 DEF FinishOK
  <2>2. CASE Resolved \/ S.stop
    BY <2>2, <1>2 DEF AnswerOK
  <2>3. ASSUME NEW j \in At("slave", "CHANNEL_CLOSE"), j < i + d
        PROVE  AnswerOK(i)'
    <3>1. j \in Nat /\ (j > d \/ S'.stop)
      BY <1>4, <1>8
    <3>2. CASE j > d
      <4>1. j - d \in At("slave", "CHANNEL_CLOSE")' /\ j - d < i
        BY <1>3, <3>2, <2>1, <2>3, <3>1
      <4> QED
        BY <4>1 DEF AnswerOK
    <3> QED
      BY <3>1, <3>2 DEF AnswerOK
  <2> QED
    BY <2>1, <2>2, <2>3 DEF AnswerOK
<1>10. \A i \in Finishes("master", 1)' : AskOK(i)'
  <2> SUFFICES ASSUME NEW i \in Finishes("master", 1)', i + c \in Finishes("master", 1)
               PROVE  AskOK(i)'
    OBVIOUS
  <2>1. i \in Nat /\ AskOK(i + c)
    BY <1>8 DEF FinishOK
  <2>2. CASE Resolved \/ Over
    BY <2>2, <1>2, <1>5 DEF AskOK
  <2>3. ASSUME NEW j \in Finishes("master", 0), j < i + c
        PROVE  AskOK(i)'
    <3>1. j \in Nat /\ (j > c \/ Over')
      BY <1>7, <1>8
    <3>2. CASE j > c
      <4>1. j - c \in Finishes("master", 0)' /\ j - c < i
        BY <1>6, <3>2, <2>1, <2>3, <3>1
      <4> QED
        BY <4>1 DEF AskOK
    <3> QED
      BY <3>1, <3>2 DEF AskOK
  <2> QED
    BY <2>1, <2>2, <2>3 DEF AskOK
<1>11. \A i \in Finishes("master", 0)' : net'["master"][i].n = 0 /\ M'.failed
  <2> TAKE i \in Finishes("master", 0)'
  <2>1. CASE i + c \in Finishes("master", 0) /\ net'["master"][i].n = net["master"][i + c].n
    BY <2>1 DEF FinishOK
  <2> QED
    BY <2>1
<1>12. MasterAsksOK'
  <2>1. CASE M.failed
    <3> SUFFICES ASSUME NEW i \in Finishes("slave", 1)'
                 PROVE  /\ net'["slave"][i].n = 1 /\ M'.failed
                        /\ \A j \in At("slave", "DATA")' : j < i
                        /\ \A j \in Finishes("slave", 1)' : j = i
      BY DEF MasterAsksOK
    <3>1. i + d \in Finishes("slave", 1) /\ i \in Nat /\ net'["slave"][i].n = net["slave"][i + d].n
      BY <2>1, <1>8
    <3>2. net["slave"][i + d].n = 1 /\ M.failed
      BY <3>1 DEF FinishOK, MasterAsksOK
    <3>3. \A j \in At("slave", "DATA")' : j \in Nat /\ j + d < i + d
      BY <2>1, <3>1, <1>8 DEF FinishOK, MasterAsksOK
    <3>4. \A j \in Finishes("slave", 1)' : j \in Nat /\ j + d = i + d
      BY <2>1, <3>1, <1>8 DEF FinishOK, MasterAsksOK
    <3> QED
      BY <3>1, <3>2, <3>3, <3>4
  <2> QED
    BY <2>1
<1>13. SlaveDoneOK'
  <2> SUFFICES ASSUME S.ioFinish
               PROVE  SlaveDoneOK'
    BY DEF SlaveDoneOK
  <2>1. CASE Resolved
    BY <2>1, <1>2 DEF SlaveDoneOK
  <2>2. CASE /\ M.failed
             /\ At("slave", "DATA") = {} /\ Finishes("slave", 1) = {}
             /\ Over \/ Finishes("master", 0) # {}
    <3>1. At("slave", "DATA")' = {} /\ Finishes("slave", 1)' = {}
      BY <2>2
    <3>2. Over' \/ Finishes("master", 0)' # {}
      BY <2>2, <1>5, <1>6, <1>7
    <3> QED
      BY <2>2, <3>1, <3>2 DEF SlaveDoneOK
  <2> QED
    BY <2>1, <2>2 DEF FinishOK, SlaveDoneOK
<1>14. (S'.closeNotify => Resolved') /\ (M'.said = "OK" \/ S'.said = "OK" => Complete' \/ Early')
  BY <1>2 DEF FinishOK
<1> QED
  BY <1>9, <1>10, <1>11, <1>12, <1>13, <1>14 DEF FinishOK

\* No FINISH is sent, and data only by a master that has not failed.
LEMMA FinishesKept ==
    ASSUME NEW k \in {0, 1}, NEW e \in Ends,
           From(net[e], net'[e], k, {"FINISH"})
    PROVE  \A p \in {0, 1} : \A i \in Finishes(e, p)' :
               i + k \in Finishes(e, p) /\ net'[e][i].n = net[e][i + k].n
BY DEF At, From, Finishes

LEMMA NoFinishSent ==
    ASSUME FinishOK, job' = job, NEW c \in {0, 1}, NEW d \in {0, 1},
           net \in [Ends -> Seq(Message)], net' \in [Ends -> Seq(Message)],
           From(net["master"], net'["master"], c, {"FINISH"}),
           From(net["slave"], net'["slave"], d, {"FINISH"}),
           M.failed => From(net["slave"], net'["slave"], d, {"DATA"}),
           To(net["master"], net'["master"], c, {"FINISH"}),
           To(net["slave"], net'["slave"], d, {"CHANNEL_CLOSE"}),
           Complete => Complete',
           M.stop => M'.stop, S.stop => S'.stop,
           c = 1 => 1 \notin Finishes("master", 0) \/ Over',
           d = 1 => S'.stop \/ net["slave"][1].cmd # "CHANNEL_CLOSE",
           M.failed => M'.failed, S.failed => S'.failed, Early => Early',
           (S'.ioFinish => S.ioFinish) \/ SlaveDoneOK',
           (S'.closeNotify => S.closeNotify) \/ Resolved',
           (M'.said = "OK" \/ S'.said = "OK" => M.said = "OK" \/ S.said = "OK") \/ Complete' \/ Early'
    PROVE  FinishOK'
<1>1. \A p \in {0, 1} : \A i \in Finishes("slave", p)' :
          i + d \in Finishes("slave", p) /\ net'["slave"][i].n = net["slave"][i + d].n
  BY FinishesKept, EndsAre
<1>2. \A p \in {0, 1} : \A i \in Finishes("master", p)' :
          i + c \in Finishes("master", p) /\ net'["master"][i].n = net["master"][i + c].n
  BY FinishesKept, EndsAre
<1>3. IF M.failed
      THEN /\ \A i \in Finishes("slave", 1)' :
                  /\ i + d \in Finishes("slave", 1)
                  /\ net'["slave"][i].n = net["slave"][i + d].n
           /\ \A i \in At("slave", "DATA")' : i + d \in At("slave", "DATA")
      ELSE MasterAsksOK'
  <2>1. CASE M.failed
    <3>1. \A i \in At("slave", "DATA")' : i + d \in At("slave", "DATA")
      BY <2>1 DEF At, From
    <3> QED
      BY <2>1, <3>1, <1>1
  <2>2. CASE ~M.failed
    <3>1. Finishes("slave", 1) = {}
      BY <2>2 DEF FinishOK, MasterAsksOK
    <3>2. Finishes("slave", 1)' = {}
      BY <3>1, <1>1
    <3> QED
      BY <2>2, <3>2 DEF MasterAsksOK
  <2> QED
    BY <2>1, <2>2
<1> QED
  BY <1>1, <1>2, <1>3, FinishFrame

-----------------------------------------------------------------------------
(* Steps that change little *)

\* An end did nothing that the rest of the system looks at.
Still(x, y) ==
    /\ y.begun = x.begun /\ y.cur = x.cur /\ y.indexIO = x.indexIO
    /\ y.ioFinish = x.ioFinish /\ y.failed = x.failed /\ y.said = x.said
    /\ y.closeNotify => x.closeNotify
    /\ x.stop => y.stop
    /\ \A r \in y.pending : r \in x.pending \/ r.op = "close"
    /\ y.closeReqSubmitted => x.closeReqSubmitted
    /\ x.isFdOpen => y.isFdOpen \/ y.stop
    /\ (x.early => y.early) /\ (x.broken => y.broken)

\* The parts of the invariant that are about both ends.
Shared == StageOK /\ CommandsOK /\ ReadsOK /\ PiecesOK /\ DiskOK /\ FinishOK

\* The commands that say something of the file.
Telling == Commands \ {"CHANNEL_CLOSE"}

\* A command is left out of the queue of an end only if the task there was told
\* to stop.
Quieter(e, k) ==
    /\ From(net[e], net'[e], k, Telling)
    /\ To(net[e], net'[e], k, Commands)
    /\ k = 1 => end'[e].stop

LEMMA FileInvParts ==
    FileInv <=> /\ TypeOK /\ EndOK(M) /\ EndOK(S) /\ Shared
                /\ Healthy => HealthyOK
BY DEF FileInv, Shared, M, S, Ends

LEMMA HealthyIs ==
    Healthy <=> /\ ~M.failed /\ ~M.early /\ ~M.broken
                /\ ~S.failed /\ ~S.early /\ ~S.broken
BY DEF Healthy, Ends, M, S

\* What went wrong stays so.
LEMMA HealthyBefore ==
    ASSUME M.failed => M'.failed, M.early => M'.early, M.broken => M'.broken,
           S.failed => S'.failed, S.early => S'.early, S.broken => S'.broken
    PROVE  Healthy' => Healthy
<1>1. Healthy' => /\ ~M'.failed /\ ~M'.early /\ ~M'.broken
                  /\ ~S'.failed /\ ~S'.early /\ ~S'.broken
  BY DEF Healthy, Ends, M, S
<1> QED
  BY <1>1, HealthyIs

LEMMA EarlyIs == (Early <=> M.early \/ S.early) /\ (Early' <=> M'.early \/ S'.early)
BY DEF Early, Ends, M, S

\* A step of one end leaves what went wrong.
LEMMA MasterHistory ==
    ASSUME S' = S, M.failed => M'.failed, M.early => M'.early, M.broken => M'.broken
    PROVE  (Healthy' => Healthy) /\ (Early => Early')
BY HealthyBefore, EarlyIs

LEMMA SlaveHistory ==
    ASSUME M' = M, S.failed => S'.failed, S.early => S'.early, S.broken => S'.broken
    PROVE  (Healthy' => Healthy) /\ (Early => Early')
BY HealthyBefore, EarlyIs

LEMMA TypeFacts ==
    ASSUME TypeOK
    PROVE  /\ M \in EndX /\ S \in EndX /\ M.out = <<>> /\ S.out = <<>>
           /\ end \in [Ends -> EndX] /\ \A e \in Ends : end[e] \in EndX /\ end[e].out = <<>>
           /\ net \in [Ends -> Seq(Message)] /\ \A e \in Ends : net[e] \in Seq(Message)
           /\ disk \in [Files -> SUBSET (0..(MaxBlocks - 1))] /\ job \in Jobs
           /\ Size \in 0..MaxBlocks /\ 1 \in Files
<1>1. \A e \in Ends : end[e] \in EndX /\ end[e].out = <<>>
  BY EndIsEndX DEF TypeOK
<1>2. M \in EndX /\ S \in EndX /\ M.out = <<>> /\ S.out = <<>>
  BY <1>1 DEF M, S, Ends
<1>3. end \in [Ends -> EndX]
  BY <1>1 DEF TypeOK
<1>4. 1 \in Files
  BY BoundsAssumption DEF Files
<1>5. job.size \in [Files -> 0..MaxBlocks]
  BY DEF TypeOK, Jobs
<1>6. Size \in 0..MaxBlocks
  BY <1>4, <1>5 DEF Size
<1> QED
  BY <1>1, <1>2, <1>3, <1>4, <1>6 DEF TypeOK

LEMMA TypeKept ==
    ASSUME job \in Jobs, job' = job, end' \in [Ends -> EndX],
           \A e \in Ends : end'[e].out = <<>>, PoolOK(M'), PoolOK(S'),
           net' \in [Ends -> Seq(Message)], disk' \in [Files -> SUBSET (0..(MaxBlocks - 1))]
    PROVE  TypeOK'
<1>1. M'.refCount \in Nat /\ S'.refCount \in Nat
  BY FS_CardinalityType DEF PoolOK, RequestsOK
<1>2. \A e \in Ends : end'[e] \in End
  BY <1>1, EndIsEndX DEF M, S, Ends
<1> QED
  BY <1>2 DEF TypeOK

LEMMA LessFrom ==
    ASSUME NEW q, NEW p, NEW d, NEW C, NEW D, D \subseteq C
    PROVE  (From(q, p, d, C) => From(q, p, d, D)) /\ (To(q, p, d, C) => To(q, p, d, D))
BY DEF From, To

LEMMA QuietShared ==
    ASSUME Shared, net \in [Ends -> Seq(Message)], net' \in [Ends -> Seq(Message)],
           job' = job, disk' = disk, Still(M, M'), Still(S, S'),
           NEW c \in {0, 1}, NEW d \in {0, 1}, Quieter("master", c), Quieter("slave", d)
    PROVE  Shared'
<1>1. /\ {"MODE", "BEGIN", "FINISH"} \subseteq Telling
      /\ {"MODE", "CHECK", "DATA", "FINISH"} \subseteq Telling
      /\ {"DATA"} \subseteq Telling
      /\ {"FINISH"} \subseteq Telling
      /\ Commands \ {"MODE", "BEGIN", "FINISH", "CHANNEL_CLOSE"} \subseteq Telling
      /\ Commands \ {"MODE", "DATA", "FINISH", "CHANNEL_CLOSE"} \subseteq Telling
      /\ {"FINISH"} \subseteq Commands /\ {"CHANNEL_CLOSE"} \subseteq Commands
  BY DEF Telling, Commands
<1>2. /\ From(net["master"], net'["master"], c, {"MODE", "BEGIN", "FINISH"})
      /\ From(net["slave"], net'["slave"], d, {"MODE", "CHECK", "DATA", "FINISH"})
      /\ From(net["master"], net'["master"], c, Commands \ {"MODE", "BEGIN", "FINISH", "CHANNEL_CLOSE"})
      /\ From(net["slave"], net'["slave"], d, Commands \ {"MODE", "DATA", "FINISH", "CHANNEL_CLOSE"})
      /\ From(net["slave"], net'["slave"], d, {"FINISH"})
      /\ From(net["slave"], net'["slave"], d, {"DATA"})
      /\ From(net["master"], net'["master"], c, {"FINISH"})
      /\ To(net["master"], net'["master"], c, {"FINISH"})
      /\ To(net["slave"], net'["slave"], d, {"CHANNEL_CLOSE"})
  BY <1>1, LessFrom DEF Quieter
<1>3. Reads' \subseteq Reads /\ Writes' \subseteq Writes
  BY DEF Still, Reads, Writes
<1>4. StageOK'
  <2>1. Opens("master")' => Opens("master")
    BY OpenRequestIs DEF Still, Opens, M
  <2>2. Opens("slave")' => Opens("slave")
    BY OpenRequestIs DEF Still, Opens, S
  <2>3. Quiet => /\ M'.indexIO = 0 /\ ~M'.ioFinish /\ ~S'.ioFinish
                 /\ M'.said = "none" /\ S'.said = "none"
    BY DEF Quiet, Still
  <2>4. M'.begun = M.begun /\ M'.cur = M.cur /\ S'.cur = S.cur
    BY DEF Still
  <2>5. StageOK
    BY DEF Shared
  <2> QED
    BY <2>1, <2>2, <2>3, <2>4, <2>5, <1>2, <1>3, StageFrame
<1>5. CommandsOK'
  BY <1>2, CommandsFrame DEF Shared
<1>6. ReadsOK'
  <2>1. (M'.closeReqSubmitted => M.closeReqSubmitted) /\ (M'.closeNotify => M.closeNotify)
    BY DEF Still
  <2>2. /\ \A r \in M'.pending : r \in M.pending \/ r.op \in {"open", "close"}
        /\ \A r \in S'.pending : r \in S.pending \/ r.op \in {"open", "close", "write"}
    BY DEF Still
  <2>3. M'.indexIO = M.indexIO /\ (M.ioFinish => M'.ioFinish) /\ M'.failed = M.failed
    BY DEF Still
  <2> QED
    BY <2>1, <2>2, <2>3, ReadsFrame DEF Shared
<1>7. PiecesOK'
  BY <1>2, <1>3, PiecesFrame DEF Shared, Still
<1>8. DiskOK'
  BY DiskFrame DEF Shared, Still
<1>9. FinishOK'
  <2>1. c = 1 => 1 \notin Finishes("master", 0) \/ Over'
    BY DEF Quieter, M, Over
  <2>2. d = 1 => S'.stop
    BY DEF Quieter, S
  <2>3. (M.stop => M'.stop) /\ (S.stop => S'.stop)
    BY DEF Still
  <2>5. (S'.ioFinish => S.ioFinish) /\ (S'.closeNotify => S.closeNotify)
    BY DEF Still
  <2>6. (M'.said = "OK" => M.said = "OK") /\ (S'.said = "OK" => S.said = "OK")
    BY DEF Still
  <2>8. Complete => Complete'
    BY DEF Complete, Size
  <2>7. (M.failed => M'.failed) /\ (S.failed => S'.failed) /\ (Early => Early')
    BY EarlyIs DEF Still
  <2> QED
    BY <2>1, <2>2, <2>3, <2>5, <2>6, <2>7, <2>8, <1>2, NoFinishSent DEF Shared
<1> QED
  BY <1>4, <1>5, <1>6, <1>7, <1>8, <1>9 DEF Shared

LEMMA QuietHealthy ==
    ASSUME HealthyOK, net \in [Ends -> Seq(Message)], net' \in [Ends -> Seq(Message)],
           Still(M, M'), Still(S, S'), HealthyEnd(M'), HealthyEnd(S'),
           NEW c \in {0, 1}, NEW d \in {0, 1}, Quieter("master", c), Quieter("slave", d)
    PROVE  HealthyOK'
<1>1. {"FINISH", "DATA", "CHECK", "MODE", "BEGIN"} \subseteq Telling
  BY DEF Telling, Commands
<1>2. \A cmd \in Telling : \A i \in At("slave", cmd)' : i + d \in At("slave", cmd)
  BY DEF At, From, Quieter
<1>3. \A cmd \in Telling : \A i \in At("master", cmd)' : i + c \in At("master", cmd)
  BY DEF At, From, Quieter
<1>4. /\ Checks' # {} => Checks # {}
      /\ ModeAcks' # {} => ModeAcks # {}
      /\ At("slave", "DATA")' # {} => At("slave", "DATA") # {}
      /\ At("slave", "FINISH")' # {} => At("slave", "FINISH") # {}
      /\ At("master", "BEGIN")' # {} => At("master", "BEGIN") # {}
      /\ At("master", "FINISH")' # {} => At("master", "FINISH") # {}
  BY <1>1, <1>2, <1>3 DEF Checks, ModeAcks
<1>5. S'.ioFinish = S.ioFinish /\ M'.ioFinish = M.ioFinish
  BY DEF Still
<1>6. (IsOpen(M) => IsOpen(M')) /\ (IsOpen(S) => IsOpen(S'))
  BY DEF Still, IsOpen
<1>7. (Opens("slave")' => Opens("slave")) /\ Reads' \subseteq Reads
  BY OpenRequestIs DEF Still, Opens, S, Reads
<1> QED
  BY <1>4, <1>5, <1>6, <1>7 DEF HealthyOK

\* The other end is not concerned by a step at e, and what is sent to it may only
\* be that the channel closes.
LEMMA QuietAt ==
    ASSUME FileInv, NEW e \in Ends, job' = job, disk' = disk,
           end' \in [Ends -> EndX], end'[Other(e)] = end[Other(e)], end'[e].out = <<>>,
           Still(end[e], end'[e]), EndOK(end'[e]),
           HealthyEnd(end[e]) => HealthyEnd(end'[e]),
           net' \in [Ends -> Seq(Message)],
           NEW k \in {0, 1}, Quieter(e, k), Quieter(Other(e), 0)
    PROVE  FileInv'
<1>1. TypeOK /\ EndOK(M) /\ EndOK(S) /\ Shared /\ (Healthy => HealthyOK)
  BY FileInvParts
<1>2. Still(M, M) /\ Still(S, S)
  BY DEF Still
<1>3. /\ Still(M, M') /\ Still(S, S') /\ EndOK(M') /\ EndOK(S')
      /\ \A x \in Ends : end'[x].out = <<>>
      /\ Healthy => HealthyEnd(M') /\ HealthyEnd(S')
  <2>1. CASE e = "master"
    <3>1. M' = end'[e] /\ S' = S /\ M = end[e]
      BY <2>1 DEF M, S, Other
    <3> QED
      BY <2>1, <3>1, <1>1, <1>2, TypeFacts DEF HealthyOK, Ends, M, S
  <2>2. CASE e = "slave"
    <3>1. S' = end'[e] /\ M' = M /\ S = end[e]
      BY <2>2 DEF M, S, Other
    <3> QED
      BY <2>2, <3>1, <1>1, <1>2, TypeFacts DEF HealthyOK, Ends, M, S
  <2> QED
    BY <2>1, <2>2 DEF Ends
<1>4. PICK c \in {0, 1}, d \in {0, 1} : Quieter("master", c) /\ Quieter("slave", d)
  BY EndsAre
<1>5. net \in [Ends -> Seq(Message)]
  BY <1>1, TypeFacts
<1>6. Shared'
  BY <1>1, <1>3, <1>4, <1>5, QuietShared
<1>7. Healthy' => HealthyOK'
  <2>1. Healthy' => Healthy
    BY <1>3, HealthyBefore DEF Still
  <2> QED
    BY <2>1, <1>1, <1>3, <1>4, <1>5, QuietHealthy
<1>8. TypeOK'
  BY <1>1, <1>3, TypeFacts, TypeKept DEF EndOK, PoolOK
<1> QED
  BY <1>3, <1>6, <1>7, <1>8 DEF FileInv, Shared, M, S, Ends

\* What becomes of the commands in a step at e: the first may be read, and one
\* that only closes the channel may be sent.
LEMMA RestIs ==
    ASSUME net \in [Ends -> Seq(Message)], NEW e \in Ends, net[e] # <<>>
    PROVE  /\ Rest(e) \in [Ends -> Seq(Message)] /\ Rest(e)[e] = Tail(net[e])
           /\ Rest(e)[Other(e)] = net[Other(e)]
BY TailOf DEF Rest, Ends, Other

LEMMA QuietStep ==
    ASSUME TypeOK, NEW e \in Ends, NEW x \in EndX, NEW k \in {0, 1},
           NEW rest \in [Ends -> Seq(Message)], rest[Other(e)] = net[Other(e)],
           \/ k = 0 /\ rest[e] = net[e]
           \/ k = 1 /\ rest[e] = Tail(net[e]) /\ net[e] # <<>> /\ x.stop,
           Step(e, x, rest),
           x.out # <<>> => \E m \in Message : m.cmd = "CHANNEL_CLOSE" /\ x.out = <<m>>
    PROVE  /\ job' = job /\ end' \in [Ends -> EndX] /\ end'[Other(e)] = end[Other(e)]
           /\ end'[e] = [x EXCEPT !.out = <<>>] /\ end'[e].out = <<>>
           /\ Same(x, end'[e])
           /\ net' \in [Ends -> Seq(Message)]
           /\ Quieter(e, k) /\ Quieter(Other(e), 0)
<1>1. net \in [Ends -> Seq(Message)] /\ net[e] \in Seq(Message) /\ net[Other(e)] \in Seq(Message)
  BY TypeFacts, EndsAre
<1>2. /\ job' = job /\ end' \in [Ends -> EndX] /\ end'[Other(e)] = end[Other(e)]
      /\ end'[e] = [x EXCEPT !.out = <<>>] /\ net' \in [Ends -> Seq(Message)]
      /\ net'[e] = rest[e] /\ net'[Other(e)] = Joined(rest[Other(e)], x.out)
  BY StepEffect
<1>3. Other(e) \in Ends
  BY EndsAre
<1>4. end'[e].out = <<>> /\ Same(x, end'[e])
  BY <1>2 DEF EndX, Same, SameTask, SameFlags, SamePool, SameFds, SameSaid
<1>5. From(net[e], net'[e], k, Telling) /\ To(net[e], net'[e], k, Commands)
  <2>1. CASE k = 0
    BY <2>1, <1>1, <1>2, QueueSame
  <2>2. CASE k = 1
    <3>1. net'[e] = Tail(net[e]) /\ net[e] # <<>>
      BY <2>2, <1>2
    <3>2. /\ From(net[e], Tail(net[e]), 1, Telling)
          /\ To(net[e], Tail(net[e]), 1, Commands)
      BY <3>1, <1>1, QueueTail, Zenon
    <3> QED
      BY <2>2, <3>1, <3>2, Zenon
  <2> QED
    BY <2>1, <2>2
<1>6. From(net[Other(e)], net'[Other(e)], 0, Telling) /\ To(net[Other(e)], net'[Other(e)], 0, Commands)
  <2>1. CASE x.out = <<>>
    BY <2>1, <1>1, <1>2, <1>3, NothingTo, QueueSame
  <2>2. CASE x.out # <<>>
    <3>1. PICK m \in Message : m.cmd = "CHANNEL_CLOSE" /\ x.out = <<m>>
      BY <2>2
    <3>2. m.cmd \notin Telling
      BY <3>1 DEF Telling
    <3> QED
      BY <3>1, <3>2, <1>1, <1>2, <1>3, QueueSent
  <2> QED
    BY <2>1, <2>2
<1>7. k = 1 => end'[e].stop
  BY <1>4 DEF Same, SameTask
<1> QED
  BY <1>2, <1>4, <1>5, <1>6, <1>7 DEF Quieter

LEMMA EndKept ==
    ASSUME NEW x, NEW y, EndOK(x), PoolOK(y),
           y.pending = x.pending, y.isDir = x.isDir, y.cur = x.cur, y.fd = x.fd,
           y.dirMode = x.dirMode,
           y.openFds = x.openFds, y.isFdOpen = x.isFdOpen, y.ioFinish = x.ioFinish,
           y.failed = x.failed, y.closeReqSubmitted = x.closeReqSubmitted,
           y.closeNotify = x.closeNotify, y.indexIO = x.indexIO,
           y.released = x.released, x.stop => y.stop
    PROVE  EndOK(y)
<1>1. FdsOK(y)
  BY DEF EndOK, FdsOK
<1>2. (y.cur = 0 \/ OpenRequest \in y.pending) => Unopened(y)
  BY DEF EndOK, Unopened
<1>3. RequestsOK(y) /\ BufsOK(y)
  BY DEF PoolOK
<1>4. ~y.isDir /\ y.dirMode = 0 /\ y.cur \in {0, 1} /\ (y.cur = 0 => y.pending = {})
  BY DEF EndOK
<1> QED
  BY <1>1, <1>2, <1>3, <1>4 DEF EndOK

\* The task is told to stop, or a command for a task that was is left out.
LEMMA StopKeeps ==
    ASSUME FileInv, NEW e \in Ends, NEW k \in {0, 1}, NEW x \in EndX,
           NEW rest \in [Ends -> Seq(Message)], rest[Other(e)] = net[Other(e)],
           \/ k = 0 /\ rest[e] = net[e]
           \/ k = 1 /\ rest[e] = Tail(net[e]) /\ net[e] # <<>>,
           Step(e, x, rest), UNCHANGED disk,
           x.stop, x.begun = end[e].begun, x.released = end[e].released,
           x.isDir = end[e].isDir, x.cur = end[e].cur, x.dirMode = end[e].dirMode,
           x.early = end[e].early, end[e].broken => x.broken,
           SameFlags(end[e], x), SamePool(end[e], x), SameFds(end[e], x), SameSaid(end[e], x),
           x.out # <<>> => \E m \in Message : m.cmd = "CHANNEL_CLOSE" /\ x.out = <<m>>
    PROVE  FileInv'
<1>1. TypeOK /\ EndOK(end[e])
  BY DEF FileInv
<1>2. /\ job' = job /\ end' \in [Ends -> EndX] /\ end'[Other(e)] = end[Other(e)]
      /\ end'[e].out = <<>> /\ Same(x, end'[e])
      /\ net' \in [Ends -> Seq(Message)]
      /\ Quieter(e, k) /\ Quieter(Other(e), 0)
  BY <1>1, QuietStep
<1> DEFINE y == end'[e]
<1>3. /\ y.stop /\ y.begun = end[e].begun /\ y.released = end[e].released
      /\ y.isDir = end[e].isDir /\ y.cur = end[e].cur /\ y.dirMode = end[e].dirMode
      /\ (end[e].early => y.early) /\ (end[e].broken => y.broken)
      /\ SameFlags(end[e], y) /\ SamePool(end[e], y) /\ SameFds(end[e], y) /\ SameSaid(end[e], y)
  BY <1>2 DEF Same, SameTask, SameFlags, SamePool, SameFds, SameSaid
<1> HIDE DEF y
<1>4. PoolOK(y)
  BY <1>1, <1>3, PoolSame DEF EndOK, PoolOK, SamePool, SameFlags
<1>5. EndOK(y)
  BY <1>1, <1>3, <1>4, EndKept DEF SamePool, SameFlags, SameFds, SameSaid
<1>6. Still(end[e], y)
  BY <1>3 DEF Still, SamePool, SameFlags, SameSaid
<1>7. HealthyEnd(end[e]) => HealthyEnd(y)
  BY <1>3 DEF HealthyEnd, SamePool, SameFlags, SameFds
<1> QED
  BY <1>2, <1>5, <1>6, <1>7, QuietAt DEF y

LEMMA CloseMessage ==
    \A n \in 0..(MaxRead + DataByte + 1) :
        /\ Msg("CHANNEL_CLOSE", n) \in Message /\ Msg("CHANNEL_CLOSE", n).cmd = "CHANNEL_CLOSE"
        /\ <<Msg("CHANNEL_CLOSE", n)>> \in Outgoing
<1>1. "CHANNEL_CLOSE" \in Commands
  BY DEF Commands
<1>2. \A n \in 0..(MaxRead + DataByte + 1) :
          Msg("CHANNEL_CLOSE", n) \in Message /\ Msg("CHANNEL_CLOSE", n).cmd = "CHANNEL_CLOSE"
  BY <1>1, MsgIsMessage
<1> QED
  BY <1>2 DEF Outgoing

LEMMA DetachKeeps ==
    ASSUME FileInv, NEW e \in Ends, Detach(e)
    PROVE  FileInv'
<1> DEFINE out == <<Msg("CHANNEL_CLOSE", 0)>>
           x == [StopTask(end[e]) EXCEPT !.out = out]
<1>1. end[e] \in EndX
  BY TypeFacts DEF FileInv
<1>2. Msg("CHANNEL_CLOSE", 0) \in Message /\ Msg("CHANNEL_CLOSE", 0).cmd = "CHANNEL_CLOSE" /\ out \in Outgoing
  BY CloseMessage, SmallNumbers
<1>3. Step(e, x, net) /\ UNCHANGED disk /\ x = [[end[e] EXCEPT !.stop = TRUE] EXCEPT !.out = out]
  BY DEF Detach, StopTask
<1> HIDE DEF x, out
<1>4. /\ x \in EndX /\ x.stop /\ x.begun = end[e].begun /\ x.released = end[e].released
      /\ x.isDir = end[e].isDir /\ x.cur = end[e].cur /\ x.out = out
      /\ x.dirMode = end[e].dirMode /\ x.early = end[e].early /\ (end[e].broken => x.broken)
      /\ SameFlags(end[e], x) /\ SamePool(end[e], x) /\ SameFds(end[e], x) /\ SameSaid(end[e], x)
  BY <1>1, <1>2, <1>3 DEF EndX, SameFlags, SamePool, SameFds, SameSaid
<1>5. x.out # <<>> => \E m \in Message : m.cmd = "CHANNEL_CLOSE" /\ x.out = <<m>>
  BY <1>2, <1>4 DEF out
<1>6. net \in [Ends -> Seq(Message)]
  BY TypeFacts DEF FileInv
<1> QED
  BY <1>3, <1>4, <1>5, <1>6, StopKeeps

LEMMA ChannelCloseKeeps ==
    ASSUME FileInv, NEW e \in Ends, ChannelClose(e)
    PROVE  FileInv'
<1> DEFINE n == Head(net[e]).n
           out == IF n = 0 THEN <<>> ELSE <<Msg("CHANNEL_CLOSE", n - 1)>>
           x == [StopTask(end[e]) EXCEPT !.out = out]
<1>1. end[e] \in EndX /\ net[e] \in Seq(Message) /\ net[e] # <<>>
  BY TypeFacts DEF FileInv, ChannelClose
<1>2. n \in 0..(MaxRead + DataByte + 1)
  BY <1>1, TailOf, MessageTypes
<1>3. Step(e, x, Rest(e)) /\ UNCHANGED disk /\ x = [[end[e] EXCEPT !.stop = TRUE] EXCEPT !.out = out]
  BY DEF ChannelClose, StopTask
<1> HIDE DEF n
<1>4. n # 0 => n - 1 \in 0..(MaxRead + DataByte + 1)
  BY <1>2, BoundsAssumption
<1>5. /\ out \in Outgoing
      /\ out # <<>> => \E m \in Message : m.cmd = "CHANNEL_CLOSE" /\ out = <<m>>
  BY <1>4, CloseMessage, NoneIsASequence DEF Outgoing
<1> HIDE DEF x, out
<1>6. /\ x \in EndX /\ x.stop /\ x.begun = end[e].begun /\ x.released = end[e].released
      /\ x.isDir = end[e].isDir /\ x.cur = end[e].cur /\ x.out = out
      /\ x.dirMode = end[e].dirMode /\ x.early = end[e].early /\ (end[e].broken => x.broken)
      /\ SameFlags(end[e], x) /\ SamePool(end[e], x) /\ SameFds(end[e], x) /\ SameSaid(end[e], x)
  BY <1>1, <1>3, <1>5 DEF EndX, SameFlags, SamePool, SameFds, SameSaid
<1>7. /\ Rest(e) \in [Ends -> Seq(Message)] /\ Rest(e)[e] = Tail(net[e])
      /\ Rest(e)[Other(e)] = net[Other(e)]
  BY <1>1, RestIs, TypeFacts DEF FileInv
<1> QED
  BY <1>1, <1>3, <1>5, <1>6, <1>7, StopKeeps

LEMMA IgnoreKeeps ==
    ASSUME FileInv, NEW e \in Ends, Ignore(e)
    PROVE  FileInv'
<1>1. end[e] \in EndX /\ end[e].out = <<>>
  BY TypeFacts DEF FileInv
<1>2. Step(e, end[e], Rest(e)) /\ UNCHANGED disk /\ end[e].stop /\ net[e] # <<>>
  BY DEF Ignore
<1>3. SameFlags(end[e], end[e]) /\ SamePool(end[e], end[e]) /\ SameFds(end[e], end[e])
      /\ SameSaid(end[e], end[e])
  BY DEF SameFlags, SamePool, SameFds, SameSaid
<1>4. /\ Rest(e) \in [Ends -> Seq(Message)] /\ Rest(e)[e] = Tail(net[e])
      /\ Rest(e)[Other(e)] = net[Other(e)]
  BY <1>2, RestIs, TypeFacts DEF FileInv
<1> QED
  BY <1>1, <1>2, <1>3, <1>4, StopKeeps

\* A step that reads and sends no command.
LEMMA NothingSent ==
    ASSUME TypeOK, NEW e \in Ends, NEW y \in EndX, y.out = <<>>,
           end' = [end EXCEPT ![e] = y], UNCHANGED <<job, net, disk>>
    PROVE  /\ end' \in [Ends -> EndX] /\ end'[Other(e)] = end[Other(e)] /\ end'[e] = y
           /\ job' = job /\ disk' = disk
           /\ net' \in [Ends -> Seq(Message)] /\ Quieter(e, 0) /\ Quieter(Other(e), 0)
<1>1. end \in [Ends -> EndX] /\ net \in [Ends -> Seq(Message)] /\ net' = net
  BY TypeFacts
<1>2. Other(e) \in Ends /\ Other(e) # e
  BY DEF Ends, Other
<1>3. \A z \in Ends : net[z] \in Seq(Message)
  BY <1>1
<1>4. \A z \in Ends : Quieter(z, 0)
  BY <1>1, <1>3, QueueSame DEF Quieter
<1> QED
  BY <1>1, <1>2, <1>4

LEMMA FreeMemoryKeeps ==
    ASSUME FileInv, NEW b \in Bufs, FreeMemory(b)
    PROVE  FileInv'
<1> DEFINE x == end["slave"]
           bufs == [x.bufs EXCEPT ![b] = "absent"]
           y == [x EXCEPT !.bufs = bufs]
<1>1. TypeOK /\ EndOK(x) /\ x \in EndX /\ x.out = <<>> /\ "slave" \in Ends
  BY TypeFacts DEF FileInv, Ends
<1>2. bufs \in Pools /\ x.bufs \in [Bufs -> {"absent", "free", "used"}]
  BY <1>1, EndTypes DEF Pools
<1>3. end' = [end EXCEPT !["slave"] = y] /\ UNCHANGED <<job, net, disk>> /\ x.bufs[b] = "free"
  BY DEF FreeMemory
<1>4. bufs = [x.bufs EXCEPT ![b] = "absent"]
  OBVIOUS
<1> HIDE DEF bufs, x
<1>5. /\ y \in EndX /\ y.out = <<>> /\ y.bufs = bufs /\ y.pending = x.pending
      /\ y.refCount = x.refCount
      /\ SameTask(x, y) /\ SameFlags(x, y) /\ SameFds(x, y) /\ SameSaid(x, y)
  BY <1>1, <1>2 DEF EndX, SameTask, SameFlags, SameFds, SameSaid
<1> HIDE DEF y
<1>6. PoolOK(y)
  <2>1. PoolOK(x) /\ (x.closeReqSubmitted => y.closeReqSubmitted)
    BY <1>1, <1>5 DEF EndOK, PoolOK, SameFlags
  <2>2. y.bufs = [x.bufs EXCEPT ![b] = "absent"] /\ x.bufs[b] # "used" /\ "absent" # "used"
    BY <1>3, <1>4, <1>5
  <2> QED
    BY <2>1, <2>2, <1>2, <1>5, PoolBuffer
<1>7. EndOK(y)
  BY <1>1, <1>5, <1>6, EndKept DEF SameTask, SameFlags, SameFds, SameSaid
<1>8. Still(x, y)
  BY <1>5 DEF Still, SameTask, SameFlags, SameFds, SameSaid
<1>9. HealthyEnd(x) => HealthyEnd(y)
  BY <1>5 DEF HealthyEnd, SameFlags, SameFds
<1> QED
  BY <1>1, <1>3, <1>5, <1>7, <1>8, <1>9, NothingSent, QuietAt DEF x

\* ~HdcTransferBase closes what is open, and no request is under way any more.
LEMMA TryRemoveTaskKeeps ==
    ASSUME FileInv, NEW e \in Ends, TryRemoveTask(e)
    PROVE  FileInv'
<1> DEFINE x == end[e]
           y == [Destructor(x) EXCEPT !.released = TRUE]
<1>1. TypeOK /\ EndOK(x) /\ x \in EndX /\ x.out = <<>>
  BY TypeFacts DEF FileInv
<1>2. end' = [end EXCEPT ![e] = y] /\ UNCHANGED <<job, net, disk>> /\ x.stop /\ x.refCount = 0
  BY DEF TryRemoveTask
<1>3. x.pending = {}
  BY <1>1, <1>2, FS_EmptySet DEF EndOK, RequestsOK
<1>4. PICK z : z = Destructor(x)
  OBVIOUS
<1> HIDE DEF x
<1>15. /\ z \in EndX /\ z.out = <<>> /\ SameTask(x, z) /\ SamePool(x, z) /\ SameSaid(x, z)
       /\ z.fd = x.fd /\ z.ioFinish = x.ioFinish /\ z.failed = x.failed
       /\ z.closeNotify = x.closeNotify /\ z.closeReqSubmitted = x.closeReqSubmitted
       /\ IF x.isFdOpen /\ (x.failed \/ ~x.ioFinish)
          THEN z.openFds = x.openFds \ {x.fd} /\ ~z.isFdOpen
          ELSE z.openFds = x.openFds /\ z.isFdOpen = x.isFdOpen
  <2>1. CASE x.isFdOpen /\ (x.failed \/ ~x.ioFinish)
    BY <2>1, <1>1, <1>4, CloseNowIs DEF Destructor
  <2>2. CASE ~(x.isFdOpen /\ (x.failed \/ ~x.ioFinish))
    BY <2>2, <1>1, <1>4 DEF Destructor, SameTask, SamePool, SameSaid
  <2> QED
    BY <2>1, <2>2
<1>16. y = [z EXCEPT !.released = TRUE]
  BY <1>4
<1> HIDE DEF y
<1>17. /\ y \in EndX /\ y.out = z.out /\ y.released /\ SamePool(z, y) /\ SameSaid(z, y)
       /\ y.begun = z.begun /\ y.stop = z.stop /\ y.isDir = z.isDir /\ y.cur = z.cur
       /\ y.dirMode = z.dirMode /\ y.early = z.early /\ y.broken = z.broken
       /\ y.fd = z.fd /\ y.ioFinish = z.ioFinish /\ y.failed = z.failed
       /\ y.closeNotify = z.closeNotify /\ y.closeReqSubmitted = z.closeReqSubmitted
       /\ y.openFds = z.openFds /\ y.isFdOpen = z.isFdOpen
  BY <1>15, <1>16 DEF EndX, SamePool, SameSaid
<1>5. /\ y \in EndX /\ y.out = <<>> /\ y.released /\ SamePool(x, y) /\ SameSaid(x, y)
      /\ y.begun = x.begun /\ y.stop = x.stop /\ y.isDir = x.isDir /\ y.cur = x.cur
      /\ y.dirMode = x.dirMode /\ (x.early => y.early) /\ (x.broken => y.broken)
      /\ y.fd = x.fd /\ y.ioFinish = x.ioFinish /\ y.failed = x.failed
      /\ y.closeNotify = x.closeNotify /\ y.closeReqSubmitted = x.closeReqSubmitted
  BY <1>15, <1>17 DEF SameTask, SamePool, SameSaid
<1>6. IF x.isFdOpen /\ (x.failed \/ ~x.ioFinish)
      THEN y.openFds = x.openFds \ {x.fd} /\ ~y.isFdOpen
      ELSE y.openFds = x.openFds /\ y.isFdOpen = x.isFdOpen
  BY <1>15, <1>17
<1>7. \A fd \in x.openFds : x.isFdOpen /\ fd = x.fd
  BY <1>1, <1>3 DEF EndOK, FdsOK
<1>8. x.isFdOpen => x.failed \/ ~x.ioFinish
  BY <1>1 DEF EndOK, FdsOK
<1>9. y.openFds = {} /\ ~y.isFdOpen
  BY <1>6, <1>7, <1>8
<1>10. PoolOK(y)
  BY <1>1, <1>5, PoolSame DEF EndOK, PoolOK, SamePool
<1>11. FdsOK(y)
  BY <1>1, <1>2, <1>3, <1>5, <1>9 DEF EndOK, FdsOK, SamePool
<1>12. EndOK(y)
  BY <1>1, <1>3, <1>5, <1>9, <1>10, <1>11 DEF EndOK, PoolOK, SamePool, SameSaid, Unopened
<1>13. Still(x, y)
  BY <1>2, <1>5 DEF Still, SamePool, SameSaid
<1>14. HealthyEnd(x) => HealthyEnd(y)
  BY <1>3, <1>5, <1>9 DEF HealthyEnd, SamePool
<1> QED
  BY <1>1, <1>2, <1>5, <1>12, <1>13, <1>14, NothingSent, QuietAt DEF x

\* The file that cannot be opened is lost, and the task ends.
LEMMA OpenFailedKeeps ==
    ASSUME FileInv, job.kind = "file", NEW e \in Ends, OpenFailed(e)
    PROVE  FileInv'
<1> DEFINE x == end[e]
           t == Took(x, OpenRequest)
           r == Return(t)
           z == [r EXCEPT !.lost = r.lost \cup {r.cur}, !.fd = 0]
           y == TaskFinish(z)
<1>1. TypeOK /\ EndOK(x) /\ x \in EndX /\ x.out = <<>> /\ net \in [Ends -> Seq(Message)]
  BY TypeFacts DEF FileInv
<1>2. OpenRequest \in x.pending
  BY DEF OpenFailed
<1>3. Unopened(x) /\ ~x.isDir /\ x.cur = 1 /\ x.dirMode = 0
  BY <1>1, <1>2 DEF EndOK
<1>4. /\ t \in EndX /\ t.out = x.out
      /\ SameTask(x, t) /\ SameFlags(x, t) /\ SameFds(x, t) /\ SameSaid(x, t)
      /\ t.pending = x.pending \ {OpenRequest} /\ t.refCount = x.refCount /\ t.bufs = x.bufs
  BY <1>1, TookIs
<1>5. t.refCount - 1 \in Int /\ x.cur \in Files
  BY <1>1, <1>3, <1>4, EndTypes
<1>6. r = [t EXCEPT !.refCount = t.refCount - 1]
  BY DEF Return
<1> HIDE DEF t, x, r
<1>7. /\ r \in EndX /\ r.out = <<>> /\ r.pending = x.pending \ {OpenRequest}
      /\ r.refCount = x.refCount - 1 /\ r.bufs = x.bufs
      /\ SameTask(x, r) /\ SameFlags(x, r) /\ SameFds(x, r) /\ SameSaid(x, r)
  BY <1>1, <1>4, <1>5, <1>6 DEF EndX, SameTask, SameFlags, SameFds, SameSaid
<1>8. r.lost \cup {r.cur} \in FileSets /\ 0 \in FdOrNone
  <2>1. r.lost \in FileSets
    BY <1>7 DEF EndX
  <2>2. r.cur \in Files
    BY <1>5, <1>7 DEF SameTask
  <2> QED
    BY <2>1, <2>2 DEF FileSets, FdOrNone
<1>9. /\ z \in EndX /\ z.out = <<>> /\ z.pending = x.pending \ {OpenRequest}
      /\ z.refCount = x.refCount - 1 /\ z.bufs = x.bufs /\ z.openFds = x.openFds
      /\ SameTask(x, z) /\ SameFlags(x, z) /\ SameSaid(x, z)
  BY <1>7, <1>8 DEF EndX, SameTask, SameFlags, SameFds, SameSaid
<1>10. job.fault = "open" /\ Step(e, y, net) /\ UNCHANGED disk
  <2>1. ~z.isDir
    BY <1>3, <1>9 DEF SameTask
  <2> QED
    BY <2>1 DEF OpenFailed, z, r, t, x
<1> HIDE DEF z
<1>11. /\ y \in EndX /\ Same(z, y)
       /\ y.out # <<>> => \E m \in Message : m.cmd = "CHANNEL_CLOSE" /\ y.out = <<m>>
  BY <1>9, TaskFinishIs
<1> HIDE DEF y
<1>12. /\ job' = job /\ end' \in [Ends -> EndX] /\ end'[Other(e)] = end[Other(e)]
       /\ end'[e].out = <<>> /\ Same(y, end'[e]) /\ net' \in [Ends -> Seq(Message)]
       /\ Quieter(e, 0) /\ Quieter(Other(e), 0)
  BY <1>1, <1>10, <1>11, QuietStep
<1> DEFINE n == end'[e]
<1>13. /\ n.pending = x.pending \ {OpenRequest} /\ n.refCount = x.refCount - 1
       /\ n.bufs = x.bufs /\ n.openFds = x.openFds
       /\ SameTask(x, n) /\ SameFlags(x, n) /\ SameSaid(x, n)
  BY <1>9, <1>11, <1>12 DEF Same, SameTask, SameFlags, SamePool, SameFds, SameSaid
<1> HIDE DEF n
<1>14. PoolOK(n)
  BY <1>1, <1>2, <1>13, PoolPlainDone DEF EndOK, PoolOK, Plain, SameFlags
<1>15. n.pending = {}
  BY <1>3, <1>13 DEF Unopened
<1>16. FdsOK(n)
  BY <1>1, <1>3, <1>13, <1>15 DEF EndOK, FdsOK, SameTask, SameFlags, Unopened
<1>17. EndOK(n)
  BY <1>3, <1>13, <1>14, <1>15, <1>16 DEF EndOK, PoolOK, SameTask, SameFlags, SameSaid, Unopened
<1>18. Still(x, n)
  BY <1>13 DEF Still, SameTask, SameFlags, SameSaid
<1>19. HealthyEnd(x) => HealthyEnd(n)
  BY <1>3, <1>13, <1>15 DEF HealthyEnd, SameFlags, Unopened
<1> QED
  BY <1>10, <1>12, <1>17, <1>18, <1>19, QuietAt DEF n, x
-----------------------------------------------------------------------------
(* Steps of the master and of the slave *)

\* p is q with m behind it.
Appends(q, p, m) ==
    /\ Len(q) \in Nat /\ DOMAIN q = 1..Len(q) /\ DOMAIN p = 1..(Len(q) + 1)
    /\ \A i \in DOMAIN q : p[i] = q[i]
    /\ p[Len(q) + 1] = m

LEMMA AppendsKeeps ==
    ASSUME NEW q, NEW p, NEW m, Appends(q, p, m), NEW C
    PROVE  To(q, p, 0, C) /\ (m.cmd \notin C => From(q, p, 0, C))
BY DEF Appends, To, From

\* p is the queue of e when k of its commands are read.
ReadsFrom(e, k, p) ==
    \/ k = 0 /\ p = net[e]
    \/ k = 1 /\ p = Tail(net[e]) /\ net[e] # <<>>

LEMMA ActiveStep ==
    ASSUME TypeOK, NEW e \in Ends, NEW x \in EndX, NEW k \in {0, 1},
           NEW rest \in [Ends -> Seq(Message)], rest[Other(e)] = net[Other(e)],
           ReadsFrom(e, k, rest[e]), Step(e, x, rest)
    PROVE  /\ job' = job /\ end' \in [Ends -> EndX] /\ end'[Other(e)] = end[Other(e)]
           /\ Same(x, end'[e]) /\ \A z \in Ends : end'[z].out = <<>>
           /\ net' \in [Ends -> Seq(Message)]
           /\ From(net[e], net'[e], k, Commands) /\ To(net[e], net'[e], k, Commands)
           /\ x.out = <<>> => net'[Other(e)] = net[Other(e)]
           /\ \A m \in Message : x.out = <<m>> => Appends(net[Other(e)], net'[Other(e)], m)
<1>1. net \in [Ends -> Seq(Message)] /\ net[e] \in Seq(Message) /\ net[Other(e)] \in Seq(Message)
  BY TypeFacts, EndsAre
<1>2. /\ job' = job /\ end' \in [Ends -> EndX] /\ end'[Other(e)] = end[Other(e)]
      /\ end'[e] = [x EXCEPT !.out = <<>>] /\ net' \in [Ends -> Seq(Message)]
      /\ net'[e] = rest[e] /\ net'[Other(e)] = Joined(rest[Other(e)], x.out)
  BY StepEffect
<1>3. end'[e].out = <<>> /\ Same(x, end'[e])
  BY <1>2 DEF EndX, Same, SameTask, SameFlags, SamePool, SameFds, SameSaid
<1>4. \A z \in Ends : end'[z].out = <<>>
  BY <1>2, <1>3, TypeFacts, EndsAre
<1>5. From(net[e], net'[e], k, Commands) /\ To(net[e], net'[e], k, Commands)
  <2>1. CASE k = 0 /\ rest[e] = net[e]
    BY <2>1, <1>1, <1>2, QueueSame
  <2>2. CASE k = 1 /\ rest[e] = Tail(net[e]) /\ net[e] # <<>>
    <3>1. net'[e] = Tail(net[e])
      BY <2>2, <1>2
    <3>2. /\ From(net[e], Tail(net[e]), 1, Commands)
          /\ To(net[e], Tail(net[e]), 1, Commands)
      BY <2>2, <1>1, QueueTail, Zenon
    <3> QED
      BY <2>2, <3>1, <3>2, Zenon
  <2> QED
    BY <2>1, <2>2 DEF ReadsFrom
<1>6. x.out = <<>> => net'[Other(e)] = net[Other(e)]
  BY <1>1, <1>2, NothingTo
<1>7. \A m \in Message : x.out = <<m>> => Appends(net[Other(e)], net'[Other(e)], m)
  <2> TAKE m \in Message
  <2> SUFFICES ASSUME x.out = <<m>>
               PROVE  Appends(net[Other(e)], net'[Other(e)], m)
    OBVIOUS
  <2>1. net'[Other(e)] = Joined(net[Other(e)], <<m>>)
    BY <1>2, Zenon
  <2>2. Appends(net[Other(e)], Joined(net[Other(e)], <<m>>), m)
    BY <1>1, AppendTo, Zenon DEF Appends
  <2> QED
    BY <2>1, <2>2, Zenon
<1> QED
  BY <1>2, <1>3, <1>4, <1>5, <1>6, <1>7

LEMMA MasterStep ==
    ASSUME TypeOK, NEW x \in EndX, NEW k \in {0, 1},
           NEW rest \in [Ends -> Seq(Message)], rest["slave"] = net["slave"],
           ReadsFrom("master", k, rest["master"]), Step("master", x, rest)
    PROVE  /\ job' = job /\ S' = S /\ M' \in EndX /\ Same(x, M')
           /\ end' \in [Ends -> EndX] /\ \A e \in Ends : end'[e].out = <<>>
           /\ net \in [Ends -> Seq(Message)] /\ net' \in [Ends -> Seq(Message)]
           /\ From(net["master"], net'["master"], k, Commands)
           /\ To(net["master"], net'["master"], k, Commands)
           /\ x.out = <<>> => net'["slave"] = net["slave"]
           /\ \A m \in Message : x.out = <<m>> => Appends(net["slave"], net'["slave"], m)
<1>1. "master" \in Ends /\ Other("master") = "slave"
  BY EndsAre
<1> QED
  BY <1>1, ActiveStep, TypeFacts DEF M, S

LEMMA SlaveStep ==
    ASSUME TypeOK, NEW x \in EndX, NEW k \in {0, 1},
           NEW rest \in [Ends -> Seq(Message)], rest["master"] = net["master"],
           ReadsFrom("slave", k, rest["slave"]), Step("slave", x, rest)
    PROVE  /\ job' = job /\ M' = M /\ S' \in EndX /\ Same(x, S')
           /\ end' \in [Ends -> EndX] /\ \A e \in Ends : end'[e].out = <<>>
           /\ net \in [Ends -> Seq(Message)] /\ net' \in [Ends -> Seq(Message)]
           /\ From(net["slave"], net'["slave"], k, Commands)
           /\ To(net["slave"], net'["slave"], k, Commands)
           /\ x.out = <<>> => net'["master"] = net["master"]
           /\ \A m \in Message : x.out = <<m>> => Appends(net["master"], net'["master"], m)
<1>1. "slave" \in Ends /\ Other("slave") = "master"
  BY EndsAre
<1> QED
  BY <1>1, ActiveStep, TypeFacts DEF M, S

LEMMA InvFrom ==
    ASSUME TypeOK, job' = job, end' \in [Ends -> EndX], \A e \in Ends : end'[e].out = <<>>,
           net' \in [Ends -> Seq(Message)], disk' \in [Files -> SUBSET (0..(MaxBlocks - 1))],
           EndOK(M'), EndOK(S'), StageOK', CommandsOK', ReadsOK', PiecesOK', DiskOK', FinishOK',
           Healthy' => HealthyOK'
    PROVE  FileInv'
<1>1. TypeOK'
  BY TypeFacts, TypeKept DEF EndOK, PoolOK
<1> QED
  BY <1>1 DEF FileInv, M, S, Ends

\* The state between the steps of an end, for the lemmas on requests and buffers.
Pool(pending, refCount, bufs, closing) ==
    [pending |-> pending, refCount |-> refCount, bufs |-> bufs, closeReqSubmitted |-> closing]

-----------------------------------------------------------------------------
(* Steps while the file is copied *)

\* Both ends have opened the file, and the master was asked for it.
Started ==
    /\ M.begun /\ M.cur # 0 /\ S.cur # 0 /\ ~Opens("master") /\ ~Opens("slave")
    /\ Checks = {} /\ ModeAcks = {} /\ At("master", "BEGIN") = {}

LEMMA NotQuietStarted == StageOK /\ ~Quiet => Started
BY DEF StageOK, Started

LEMMA StartedStage == Started => StageOK
BY DEF StageOK, Started

\* A callback sends nothing or one of cmds.
Sends(x, cmds) == x.out = <<>> \/ \E m \in Message : m.cmd \in cmds /\ x.out = <<m>>

Data == {"DATA", "FINISH", "CHANNEL_CLOSE"}
Answers == {"FINISH", "CHANNEL_CLOSE"}

LEMMA SentFrom ==
    ASSUME NEW q \in Seq(Message), NEW p, NEW x, NEW cmds, Sends(x, cmds),
           x.out = <<>> => p = q,
           \A m \in Message : x.out = <<m>> => Appends(q, p, m)
    PROVE  From(q, p, 0, Commands \ cmds) /\ To(q, p, 0, Commands)
<1>1. CASE x.out = <<>>
  BY <1>1, QueueSame
<1>2. ASSUME NEW m \in Message, m.cmd \in cmds, x.out = <<m>>
      PROVE  From(q, p, 0, Commands \ cmds) /\ To(q, p, 0, Commands)
  <2>1. Appends(q, p, m)
    BY <1>2
  <2>2. m.cmd \notin Commands \ cmds
    BY <1>2
  <2> QED
    BY <2>1, <2>2, AppendsKeeps
<1> QED
  BY <1>1, <1>2 DEF Sends

\* A step of the master, which may send data, FINISH or the end of the channel.
LEMMA MasterMoves ==
    ASSUME TypeOK, Started, CommandsOK, NEW x \in EndX, NEW k \in {0, 1},
           NEW rest \in [Ends -> Seq(Message)], rest["slave"] = net["slave"],
           ReadsFrom("master", k, rest["master"]), Step("master", x, rest),
           x.begun = M.begun, x.cur = M.cur, OpenRequest \notin x.pending, Sends(x, Data)
    PROVE  /\ job' = job /\ S' = S /\ M' \in EndX /\ Same(x, M')
           /\ end' \in [Ends -> EndX] /\ \A e \in Ends : end'[e].out = <<>>
           /\ net \in [Ends -> Seq(Message)] /\ net' \in [Ends -> Seq(Message)]
           /\ From(net["master"], net'["master"], k, Commands)
           /\ To(net["master"], net'["master"], k, Commands)
           /\ From(net["slave"], net'["slave"], 0, Commands \ Data)
           /\ To(net["slave"], net'["slave"], 0, Commands)
           /\ x.out = <<>> => net'["slave"] = net["slave"]
           /\ \A m \in Message : x.out = <<m>> => Appends(net["slave"], net'["slave"], m)
           /\ Started' /\ StageOK' /\ CommandsOK'
<1>1. /\ job' = job /\ S' = S /\ M' \in EndX /\ Same(x, M')
      /\ end' \in [Ends -> EndX] /\ \A e \in Ends : end'[e].out = <<>>
      /\ net \in [Ends -> Seq(Message)] /\ net' \in [Ends -> Seq(Message)]
      /\ From(net["master"], net'["master"], k, Commands)
      /\ To(net["master"], net'["master"], k, Commands)
      /\ x.out = <<>> => net'["slave"] = net["slave"]
      /\ \A m \in Message : x.out = <<m>> => Appends(net["slave"], net'["slave"], m)
  BY MasterStep
<1>2. net["slave"] \in Seq(Message)
  BY <1>1, EndsAre
<1>3. /\ From(net["slave"], net'["slave"], 0, Commands \ Data)
      /\ To(net["slave"], net'["slave"], 0, Commands)
  BY <1>1, <1>2, SentFrom
<1>4. Checks' = {} /\ ModeAcks' = {}
  <2>1. {"CHECK", "MODE"} \subseteq Commands \ Data /\ "MODE" \in Commands
    BY DEF Commands, Data
  <2> QED
    BY <2>1, <1>1, <1>3 DEF Checks, ModeAcks, At, From, Started
<1>5. At("master", "BEGIN")' = {}
  <2>1. "BEGIN" \in Commands
    BY DEF Commands
  <2> QED
    BY <2>1, <1>1 DEF At, From, Started
<1>6. ~Opens("master")' /\ ~Opens("slave")'
  BY <1>1 DEF Same, SamePool, Opens, M, S, Started
<1>7. Started'
  BY <1>1, <1>4, <1>5, <1>6 DEF Started, Same, SameTask
<1>8. StageOK'
  BY <1>7, StartedStage DEF Started, StageOK
<1>9. CommandsOK'
  <2>1. /\ Commands \ {"MODE", "BEGIN", "FINISH", "CHANNEL_CLOSE"} \subseteq Commands
        /\ Commands \ {"MODE", "DATA", "FINISH", "CHANNEL_CLOSE"} \subseteq Commands \ Data
    BY DEF Data
  <2>2. /\ From(net["master"], net'["master"], k, Commands \ {"MODE", "BEGIN", "FINISH", "CHANNEL_CLOSE"})
        /\ From(net["slave"], net'["slave"], 0, Commands \ {"MODE", "DATA", "FINISH", "CHANNEL_CLOSE"})
    BY <2>1, <1>1, <1>3, LessFrom
  <2> QED
    BY <2>2, <1>1, CommandsFrame
<1> QED
  BY <1>1, <1>3, <1>7, <1>8, <1>9

\* A step of the slave, which may send FINISH or the end of the channel.
LEMMA SlaveMoves ==
    ASSUME TypeOK, Started, CommandsOK, NEW x \in EndX, NEW k \in {0, 1},
           NEW rest \in [Ends -> Seq(Message)], rest["master"] = net["master"],
           ReadsFrom("slave", k, rest["slave"]), Step("slave", x, rest),
           x.begun = S.begun, x.cur = S.cur, OpenRequest \notin x.pending, Sends(x, Answers)
    PROVE  /\ job' = job /\ M' = M /\ S' \in EndX /\ Same(x, S')
           /\ end' \in [Ends -> EndX] /\ \A e \in Ends : end'[e].out = <<>>
           /\ net \in [Ends -> Seq(Message)] /\ net' \in [Ends -> Seq(Message)]
           /\ From(net["slave"], net'["slave"], k, Commands)
           /\ To(net["slave"], net'["slave"], k, Commands)
           /\ From(net["master"], net'["master"], 0, Commands \ Answers)
           /\ To(net["master"], net'["master"], 0, Commands)
           /\ x.out = <<>> => net'["master"] = net["master"]
           /\ \A m \in Message : x.out = <<m>> => Appends(net["master"], net'["master"], m)
           /\ Started' /\ StageOK' /\ CommandsOK'
<1>1. /\ job' = job /\ M' = M /\ S' \in EndX /\ Same(x, S')
      /\ end' \in [Ends -> EndX] /\ \A e \in Ends : end'[e].out = <<>>
      /\ net \in [Ends -> Seq(Message)] /\ net' \in [Ends -> Seq(Message)]
      /\ From(net["slave"], net'["slave"], k, Commands)
      /\ To(net["slave"], net'["slave"], k, Commands)
      /\ x.out = <<>> => net'["master"] = net["master"]
      /\ \A m \in Message : x.out = <<m>> => Appends(net["master"], net'["master"], m)
  BY SlaveStep
<1>2. net["master"] \in Seq(Message)
  BY <1>1, EndsAre
<1>3. /\ From(net["master"], net'["master"], 0, Commands \ Answers)
      /\ To(net["master"], net'["master"], 0, Commands)
  BY <1>1, <1>2, SentFrom
<1>4. At("master", "BEGIN")' = {}
  <2>1. "BEGIN" \in Commands \ Answers
    BY DEF Commands, Answers
  <2> QED
    BY <2>1, <1>3 DEF At, From, Started
<1>5. Checks' = {} /\ ModeAcks' = {}
  <2>1. {"CHECK", "MODE"} \subseteq Commands /\ "MODE" \in Commands \ Answers
    BY DEF Commands, Answers
  <2> QED
    BY <2>1, <1>1, <1>3 DEF Checks, ModeAcks, At, From, Started
<1>6. ~Opens("master")' /\ ~Opens("slave")'
  BY <1>1 DEF Same, SamePool, Opens, M, S, Started
<1>7. Started'
  BY <1>1, <1>4, <1>5, <1>6 DEF Started, Same, SameTask
<1>8. StageOK'
  BY <1>7, StartedStage DEF Started, StageOK
<1>9. CommandsOK'
  <2>1. /\ Commands \ {"MODE", "BEGIN", "FINISH", "CHANNEL_CLOSE"} \subseteq Commands \ Answers
        /\ Commands \ {"MODE", "DATA", "FINISH", "CHANNEL_CLOSE"} \subseteq Commands
    BY DEF Answers
  <2>2. /\ From(net["master"], net'["master"], 0, Commands \ {"MODE", "BEGIN", "FINISH", "CHANNEL_CLOSE"})
        /\ From(net["slave"], net'["slave"], k, Commands \ {"MODE", "DATA", "FINISH", "CHANNEL_CLOSE"})
    BY <2>1, <1>1, <1>3, LessFrom
  <2> QED
    BY <2>2, <1>1, CommandsFrame
<1> QED
  BY <1>1, <1>3, <1>7, <1>8, <1>9

-----------------------------------------------------------------------------
(* An end whose read or write is done *)

LEMMA EndsQuietly ==
    ASSUME NEW e \in Ends, NEW x \in EndX, ~x.ioFinish, NEW r, r.buf \in Bufs,
           NEW y, y = EndFileIO(CloseStep(e, x), r)
    PROVE  /\ y \in EndX /\ y.out = x.out
           /\ SameTask(x, y) /\ SameFlags(x, y) /\ SameFds(x, y) /\ SameSaid(x, y)
           /\ y.pending = x.pending /\ y.refCount = x.refCount - 1
           /\ y.bufs = [x.bufs EXCEPT ![r.buf] = "free"]
<1>1. y = EndFileIO(x, r)
  BY DEF CloseStep
<1> QED
  BY <1>1, EndFileIOIs

LEMMA EndsClosing ==
    ASSUME NEW e \in Ends, NEW x \in EndX, x.ioFinish, ~x.failed, ~x.closeReqSubmitted,
           NEW r, r.buf \in Bufs,
           NEW y, y = EndFileIO(CloseStep(e, x), r)
    PROVE  /\ y \in EndX /\ y.out = x.out
           /\ SameTask(x, y) /\ SameFds(x, y) /\ SameSaid(x, y)
           /\ y.closeReqSubmitted /\ ~y.isFdOpen /\ y.ioFinish /\ ~y.failed
           /\ y.closeNotify = x.closeNotify
           /\ \E c \in Request : /\ c.op = "close" /\ c.fd = x.fd
                                 /\ y.pending = x.pending \cup {c}
           /\ y.refCount = x.refCount /\ y.bufs = [x.bufs EXCEPT ![r.buf] = "free"]
<1> DEFINE z == CloseStep(e, x)
<1>1. /\ z \in EndX /\ z.out = x.out
      /\ SameTask(x, z) /\ SameFds(x, z) /\ SameSaid(x, z)
      /\ z.closeReqSubmitted /\ ~z.isFdOpen /\ z.ioFinish /\ ~z.failed
      /\ z.closeNotify = x.closeNotify
      /\ \E c \in Request : /\ c.op = "close" /\ c.fd = x.fd
                            /\ z.pending = x.pending \cup {c}
      /\ z.refCount = x.refCount + 1 /\ z.bufs = x.bufs
  BY CloseStepCloses
<1> HIDE DEF z
<1>2. /\ y \in EndX /\ y.out = z.out
      /\ SameTask(z, y) /\ SameFlags(z, y) /\ SameFds(z, y) /\ SameSaid(z, y)
      /\ y.pending = z.pending /\ y.refCount = z.refCount - 1
      /\ y.bufs = [z.bufs EXCEPT ![r.buf] = "free"]
  BY <1>1, EndFileIOIs DEF z
<1>3. x.refCount \in Int
  BY EndTypes
<1> QED
  BY <1>1, <1>2, <1>3 DEF SameTask, SameFlags, SameFds, SameSaid

LEMMA EndsTelling ==
    ASSUME NEW e \in Ends, NEW x \in EndX, x.ioFinish, x.failed \/ x.closeReqSubmitted, x.out = <<>>,
           job.kind = "file", NEW r, r.buf \in Bufs, NEW y, y = EndFileIO(CloseStep(e, x), r)
    PROVE  /\ y \in EndX /\ y.out = IF x.stop THEN <<>> ELSE <<Msg("FINISH", 1)>>
           /\ SameTask(x, y) /\ SameFlags(x, y) /\ SameFds(x, y) /\ SameSaid(x, y)
           /\ y.pending = x.pending /\ y.refCount = x.refCount - 1
           /\ y.bufs = [x.bufs EXCEPT ![r.buf] = "free"]
<1> DEFINE z == CloseStep(e, x)
<1>1. z \in EndX /\ Same(x, z) /\ z.out = IF x.stop THEN <<>> ELSE <<Msg("FINISH", 1)>>
  BY CloseStepTells
<1> HIDE DEF z
<1>2. /\ y \in EndX /\ y.out = z.out
      /\ SameTask(z, y) /\ SameFlags(z, y) /\ SameFds(z, y) /\ SameSaid(z, y)
      /\ y.pending = z.pending /\ y.refCount = z.refCount - 1
      /\ y.bufs = [z.bufs EXCEPT ![r.buf] = "free"]
  BY <1>1, EndFileIOIs DEF z
<1> QED
  BY <1>1, <1>2 DEF Same, SameTask, SameFlags, SamePool, SameFds, SameSaid

LEMMA EndFrom ==
    ASSUME NEW y, PoolOK(y), FdsOK(y), ~y.isDir, y.dirMode = 0, y.cur = 1, OpenRequest \notin y.pending
    PROVE  EndOK(y)
BY DEF EndOK, PoolOK

LEMMA SameEnd ==
    ASSUME NEW x, NEW y, Same(x, y)
    PROVE  (EndOK(x) => EndOK(y)) /\ (HealthyEnd(x) => HealthyEnd(y))
<1>1. PoolOK(x) => PoolOK(y)
  BY PoolSame DEF Same, SamePool, SameFlags
<1>2. EndOK(x) => EndOK(y)
  BY <1>1, EndKept DEF EndOK, PoolOK, Same, SameTask, SameFlags, SamePool, SameFds, SameSaid
<1>3. HealthyEnd(x) => HealthyEnd(y)
  BY DEF HealthyEnd, Same, SamePool, SameFlags, SameFds
<1> QED
  BY <1>2, <1>3

\* The file of the end stays as it is.
LEMMA IODoneEnd ==
    ASSUME NEW x \in EndX, EndOK(x), x.cur # 0, OpenRequest \notin x.pending,
           NEW r \in x.pending, r.op \in IOOps, NEW y,
           y.pending = x.pending \ {r}, y.refCount = x.refCount - 1,
           y.bufs = [x.bufs EXCEPT ![r.buf] = "free"], SameFds(x, y), SameTask(x, y),
           y.isFdOpen = x.isFdOpen, y.closeReqSubmitted = x.closeReqSubmitted,
           y.isFdOpen => (y.ioFinish => y.failed),
           y.failed \/ y.closeReqSubmitted \/ y.closeNotify => y.ioFinish,
           y.failed => ~y.closeReqSubmitted
    PROVE  /\ EndOK(y)
           /\ y.failed = x.failed => (HealthyEnd(x) => HealthyEnd(y))
<1>1. PoolOK(x) /\ FdsOK(x) /\ x.cur = 1 /\ ~x.isDir /\ x.dirMode = 0
  BY DEF EndOK, PoolOK
<1>2. PoolOK(y)
  BY <1>1, EndTypes, PoolIODone
<1>3. ~x.released /\ r.op # "close"
  BY <1>1 DEF FdsOK, IOOps
<1>4. FdsOK(y)
  BY <1>1, <1>3 DEF FdsOK, SameFds, SameTask
<1>5. EndOK(y)
  BY <1>1, <1>2, <1>4, EndFrom DEF SameTask
<1> QED
  BY <1>5 DEF HealthyEnd, SameFds

\* The file of the end is closed.
LEMMA IOClosesEnd ==
    ASSUME NEW x \in EndX, EndOK(x), x.cur # 0, OpenRequest \notin x.pending,
           ~x.closeReqSubmitted, NEW r \in x.pending, r.op \in IOOps,
           NEW c, c.op = "close", c.fd = x.fd, NEW y,
           y.pending = (x.pending \ {r}) \cup {c}, y.refCount = x.refCount,
           y.bufs = [x.bufs EXCEPT ![r.buf] = "free"], SameFds(x, y), SameTask(x, y),
           ~y.isFdOpen, y.closeReqSubmitted, y.ioFinish, ~y.failed
    PROVE  /\ EndOK(y)
           /\ (y.failed = x.failed /\ \A s \in x.pending : s.op \in IOOps => s = r) =>
                  (HealthyEnd(x) => HealthyEnd(y))
<1>1. PoolOK(x) /\ FdsOK(x) /\ x.cur = 1 /\ ~x.isDir /\ x.dirMode = 0
  BY DEF EndOK, PoolOK
<1>2. \A s \in x.pending : s.op # "close"
  BY DEF EndOK, RequestsOK
<1>3. ~x.released /\ r.op # "close" /\ x.refCount \in Int /\ OpenRequest.op # "close"
  BY <1>1, EndTypes DEF FdsOK, IOOps, OpenRequest
<1> DEFINE w == Pool(x.pending \ {r}, x.refCount - 1, y.bufs, FALSE)
<1>4. /\ w.pending = x.pending \ {r} /\ w.refCount = x.refCount - 1 /\ w.bufs = y.bufs
      /\ ~w.closeReqSubmitted
  BY DEF Pool
<1> HIDE DEF w
<1>5. PoolOK(w)
  BY <1>1, <1>4, EndTypes, PoolIODone
<1>6. Plain(c) /\ c \notin w.pending /\ y.refCount = w.refCount + 1
  BY <1>2, <1>3, <1>4 DEF Plain
<1>7. PoolOK(y)
  BY <1>4, <1>5, <1>6, PoolSubmits
<1>8. FdsOK(y)
  BY <1>1, <1>2, <1>3 DEF FdsOK, SameFds, SameTask
<1>9. EndOK(y)
  BY <1>1, <1>3, <1>7, <1>8, EndFrom DEF SameTask
<1>10. (y.failed = x.failed /\ \A s \in x.pending : s.op \in IOOps => s = r) =>
           (HealthyEnd(x) => HealthyEnd(y))
  BY <1>2 DEF HealthyEnd, SameFds, IOOps
<1> QED
  BY <1>9, <1>10

\* The next read or write starts.
LEMMA IOStartsEnd ==
    ASSUME NEW x \in EndX, EndOK(x), x.cur # 0, OpenRequest \notin x.pending, ~x.released,
           NEW r, r.op \in IOOps, NEW b \in Bufs, r.buf = b, x.bufs[b] # "used", NEW y,
           y.pending = x.pending \cup {r}, y.refCount = x.refCount + 1,
           y.bufs = [x.bufs EXCEPT ![b] = "used"], SameFds(x, y), SameTask(x, y),
           SameFlags(x, y)
    PROVE  /\ EndOK(y)
           /\ r.fd = x.fd /\ x.isFdOpen => (HealthyEnd(x) => HealthyEnd(y))
<1>1. PoolOK(x) /\ FdsOK(x) /\ x.cur = 1 /\ ~x.isDir /\ x.dirMode = 0
  BY DEF EndOK, PoolOK
<1>2. PoolOK(y)
  BY <1>1, EndTypes, PoolStartsIO DEF SameFlags
<1>3. FdsOK(y)
  BY <1>1 DEF FdsOK, SameFds, SameTask, SameFlags
<1>4. OpenRequest \notin y.pending
  BY DEF OpenRequest, IOOps
<1>5. EndOK(y)
  BY <1>1, <1>2, <1>3, <1>4, EndFrom DEF SameTask
<1> QED
  BY <1>5 DEF HealthyEnd, SameFds, SameFlags, IOOps

\* One read or write is done and the next one started.
LEMMA IORestartsEnd ==
    ASSUME NEW x \in EndX, EndOK(x), x.cur # 0, OpenRequest \notin x.pending,
           NEW r \in x.pending, r.op \in IOOps,
           NEW n, n.op \in IOOps, NEW b \in Bufs, n.buf = b, x.bufs[b] # "used", NEW y,
           y.pending = (x.pending \ {r}) \cup {n}, y.refCount = x.refCount,
           y.bufs = [[x.bufs EXCEPT ![b] = "used"] EXCEPT ![r.buf] = "free"],
           SameFds(x, y), SameTask(x, y), SameFlags(x, y)
    PROVE  /\ EndOK(y)
           /\ n.fd = x.fd => (HealthyEnd(x) => HealthyEnd(y))
<1>1. PoolOK(x) /\ FdsOK(x) /\ x.cur = 1 /\ ~x.isDir /\ x.dirMode = 0
  BY DEF EndOK, PoolOK
<1>2. ~x.released /\ r.op # "close" /\ r.buf # n.buf
  BY <1>1 DEF FdsOK, IOOps, PoolOK, RequestsOK
<1> DEFINE bufs == [x.bufs EXCEPT ![b] = "used"]
           w == Pool(x.pending \cup {n}, x.refCount + 1, bufs, x.closeReqSubmitted)
<1>3. /\ w.pending = x.pending \cup {n} /\ w.refCount = x.refCount + 1 /\ w.bufs = bufs
      /\ w.closeReqSubmitted = x.closeReqSubmitted
  BY DEF Pool
<1>4. x.bufs \in [Bufs -> {"absent", "free", "used"}] /\ x.refCount \in Int
  BY EndTypes
<1>5. bufs \in [Bufs -> {"absent", "free", "used"}] /\ bufs = [x.bufs EXCEPT ![b] = "used"]
  BY <1>4
<1> HIDE DEF w, bufs
<1>6. PoolOK(w)
  BY <1>1, <1>3, <1>4, <1>5, PoolStartsIO
<1>7. y.pending = w.pending \ {r} /\ y.refCount = w.refCount - 1 /\ r \in w.pending
  BY <1>2, <1>3, <1>4
<1>8. PoolOK(y)
  <2>1. y.bufs = [w.bufs EXCEPT ![r.buf] = "free"]
    BY <1>3, <1>5
  <2>2. w.closeReqSubmitted => y.closeReqSubmitted
    BY <1>3 DEF SameFlags
  <2>3. w.bufs \in [Bufs -> {"absent", "free", "used"}]
    BY <1>3, <1>5
  <2> QED
    BY <1>6, <1>7, <2>1, <2>2, <2>3, PoolIODone
<1>9. FdsOK(y)
  BY <1>1, <1>2 DEF FdsOK, SameFds, SameTask, SameFlags
<1>10. OpenRequest \notin y.pending
  BY DEF OpenRequest, IOOps
<1>11. EndOK(y)
  BY <1>1, <1>8, <1>9, <1>10, EndFrom DEF SameTask
<1>12. n.fd = x.fd => (HealthyEnd(x) => HealthyEnd(y))
  BY DEF HealthyEnd, SameFds, SameFlags, IOOps
<1> QED
  BY <1>11, <1>12

-----------------------------------------------------------------------------
(* A read is done *)

LEMMA PieceTypes ==
    ASSUME TypeOK
    PROVE  /\ \A i \in DOMAIN net["slave"] :
                  net["slave"][i].index \in Nat /\ net["slave"][i].n \in Nat
           /\ \A r \in Writes : r.index \in Nat /\ r.n \in Nat
           /\ \A r \in Reads : r.index \in Nat /\ r.n \in Nat
           /\ M.indexIO \in Nat /\ S.indexIO \in Nat /\ Size \in Nat
           /\ disk[1] \subseteq Nat
           /\ \A i \in DOMAIN net["slave"] : i \in Nat \ {0}
           /\ \A i \in DOMAIN net["master"] : i \in Nat \ {0}
<1>1. /\ net["slave"] \in Seq(Message) /\ net["master"] \in Seq(Message)
      /\ M \in EndX /\ S \in EndX /\ Size \in 0..MaxBlocks
      /\ disk \in [Files -> SUBSET (0..(MaxBlocks - 1))] /\ 1 \in Files
  BY TypeFacts, EndsAre
<1>2. \A i \in DOMAIN net["slave"] : net["slave"][i].index \in Nat /\ net["slave"][i].n \in Nat
  BY <1>1, MessageTypes, BoundsAssumption
<1>3. M.pending \subseteq Request /\ S.pending \subseteq Request
  BY <1>1, EndTypes
<1>4. \A r \in Request : r.index \in Nat /\ r.n \in Nat
  BY RequestTypes, BoundsAssumption
<1>5. M.indexIO \in Nat /\ S.indexIO \in Nat /\ Size \in Nat
  BY <1>1, EndTypes, BoundsAssumption
<1>6. disk[1] \subseteq Nat
  BY <1>1, BoundsAssumption
<1>7. /\ \A i \in DOMAIN net["slave"] : i \in Nat \ {0}
      /\ \A i \in DOMAIN net["master"] : i \in Nat \ {0}
  BY <1>1
<1> QED
  BY <1>2, <1>3, <1>4, <1>5, <1>6, <1>7 DEF Reads, Writes

\* More of the file was read, but nothing sent.
LEMMA PiecesGrow ==
    ASSUME TypeOK, PiecesOK, job' = job, disk'[1] = disk[1], net'["slave"] = net["slave"],
           M'.indexIO \in Nat, M.indexIO <= M'.indexIO, M.ioFinish => M'.ioFinish,
           M.early => M'.early,
           Writes' = Writes
    PROVE  PiecesOK'
<1>1. At("slave", "DATA")' = At("slave", "DATA") /\ Size' = Size
  BY DEF At, Size
<1>2. \A i \in At("slave", "DATA") : i \in DOMAIN net["slave"]
  BY DEF At
<1>3. \A i \in At("slave", "DATA") : PieceOK(net["slave"][i])'
  BY <1>1, <1>2, PieceTypes DEF PiecesOK, PieceOK
<1>4. \A r \in Writes : PieceOK(r)'
  BY <1>1, PieceTypes DEF PiecesOK, PieceOK
<1> QED
  BY <1>1, <1>3, <1>4 DEF PiecesOK

\* What was read is sent.
LEMMA PiecesSent ==
    ASSUME TypeOK, PiecesOK, DiskOK, job' = job, disk'[1] = disk[1],
           M'.indexIO \in Nat, M.indexIO <= M'.indexIO, ~M.ioFinish,
           Writes' = Writes,
           NEW m \in Message, Appends(net["slave"], net'["slave"], m),
           m.index = M.indexIO, m.n <= MaxRead, m.index + m.n <= M'.indexIO,
           m.n = 0 => M'.ioFinish /\ (Size = 0 \/ M'.early)
    PROVE  PiecesOK'
<1> DEFINE q == net["slave"]
           p == net'["slave"]
           last == Len(q) + 1
<1>1. /\ DOMAIN q = 1..Len(q) /\ Len(q) \in Nat /\ DOMAIN p = 1..last
      /\ \A i \in DOMAIN q : p[i] = q[i]
      /\ p[last] = m
  BY DEF Appends
<1>2. \A i \in At("slave", "DATA")' :
          \/ i \in At("slave", "DATA") /\ p[i] = q[i]
          \/ i = last /\ p[i] = m
  BY <1>1 DEF At
<1>3. Size' = Size /\ m.n \in Nat /\ m.index \in Nat
  BY MessageTypes, BoundsAssumption DEF Size
<1>4. /\ \A i \in At("slave", "DATA") : q[i].index \in Nat /\ q[i].n \in Nat
      /\ M.indexIO \in Nat
  BY PieceTypes DEF At
<1> HIDE DEF last
<1>5. \A v : v.index \in Nat /\ v.n \in Nat /\ PieceOK(v) =>
               PieceOK(v)' /\ Apart(v, m) /\ Apart(m, v)
  BY <1>3, <1>4 DEF PieceOK, Apart, Width
<1>6. /\ \A i \in At("slave", "DATA") :
            PieceOK(net["slave"][i])' /\ Apart(q[i], m) /\ Apart(m, q[i])
      /\ \A r \in Writes : PieceOK(r)' /\ Apart(r, m) /\ Apart(m, r)
  <2>1. \A i \in At("slave", "DATA") : PieceOK(q[i]) /\ p[i] = q[i]
    BY <1>1 DEF PiecesOK, At
  <2>2. \A r \in Writes : PieceOK(r) /\ r.index \in Nat /\ r.n \in Nat
    BY PieceTypes DEF PiecesOK
  <2> QED
    BY <2>1, <2>2, <1>4, <1>5
<1>7. PieceOK(m)'
  <2>1. \A b \in disk[1] : b \in Nat /\ b < m.index
    BY <1>4, PieceTypes DEF DiskOK
  <2> QED
    BY <2>1, <1>3 DEF PieceOK
<1>8. \A i \in At("slave", "DATA")' : PieceOK(net["slave"][i])'
  BY <1>2, <1>6, <1>7
<1>9. \A i, j \in At("slave", "DATA")' : i # j => Apart(p[i], p[j])
  BY <1>2, <1>6 DEF PiecesOK
<1>10. \A i \in At("slave", "DATA")', r \in Writes' : Apart(p[i], r)
  BY <1>2, <1>6 DEF PiecesOK
<1>11. \A r, s \in Writes' : r # s => Apart(r, s)
  BY DEF PiecesOK
<1> QED
  BY <1>6, <1>8, <1>9, <1>10, <1>11 DEF PiecesOK

\* The health of a transfer does not change with a step of the master.
LEMMA MasterHealthy ==
    ASSUME HealthyOK, Started', S' = S, HealthyEnd(M'), M.ioFinish => M'.ioFinish,
           Reads' # {} \/ At("slave", "DATA")' # {} => IsOpen(S),
           At("slave", "DATA")' # {} => At("slave", "DATA") # {} \/ ~M.ioFinish,
           At("slave", "FINISH")' # {} \/ At("master", "FINISH")' # {} =>
               At("slave", "FINISH") # {} \/ At("master", "FINISH") # {}
    PROVE  HealthyOK'
BY DEF HealthyOK, Started, IsOpen

LEMMA ReadFacts ==
    ASSUME FileInv, NEW r \in Reads
    PROVE  /\ Started /\ ~M.failed /\ ~M.closeReqSubmitted /\ ~M.closeNotify
           /\ M.cur # 0 /\ OpenRequest \notin M.pending /\ ~M.released /\ ~M.isDir
           /\ r \in M.pending /\ r.op \in IOOps /\ r.buf \in Bufs /\ r.index = M.indexIO
           /\ \A s \in M.pending : s.op \in IOOps => s = r
<1>1. Reads # {}
  OBVIOUS
<1>2. Started
  BY <1>1, NotQuietStarted DEF FileInv, Quiet
<1>3. EndOK(M)
  BY EndsAre DEF FileInv, M
<1> QED
  BY <1>2, <1>3 DEF FileInv, ReadsOK, Reads, IOOps, Started, Opens, M, EndOK, RequestsOK, FdsOK

\* What a read that is done may do to the copy.
LEMMA ReadEnds ==
    ASSUME FileInv, NEW r \in Reads, NEW y \in EndX,
           Step("master", y, net), UNCHANGED disk, SameTask(M, y), EndOK(y),
           y.failed = M.failed, y.said = M.said, y.closeNotify = M.closeNotify,
           M.ioFinish => y.ioFinish, M.indexIO <= y.indexIO, y.indexIO <= Size,
           y.ioFinish \/ y.indexIO = 0 \/ y.indexIO < Size,
           \A p \in y.pending :
               \/ p \in M.pending \ {r}
               \/ p.op = "close"
               \/ p.op = "read" /\ p.index = y.indexIO /\ ~y.closeReqSubmitted,
           \A p, q \in y.pending : p.op = "read" /\ q.op = "read" => p = q,
           \/ y.out = <<>>
           \/ \E m \in Message :
                  /\ y.out = <<m>> /\ m.cmd = "DATA" /\ ~M.ioFinish /\ m.index = M.indexIO
                  /\ m.n <= MaxRead /\ m.index + m.n <= y.indexIO
                  /\ m.n = 0 => y.ioFinish /\ (Size = 0 \/ y.early),
           Healthy => (HealthyEnd(M) => HealthyEnd(y))
    PROVE  FileInv'
<1>1. /\ TypeOK /\ EndOK(M) /\ EndOK(S) /\ CommandsOK /\ StageOK /\ ReadsOK /\ PiecesOK
      /\ DiskOK /\ FinishOK /\ (Healthy => HealthyOK)
      /\ net \in [Ends -> Seq(Message)] /\ net["master"] \in Seq(Message)
      /\ net["slave"] \in Seq(Message) /\ M.indexIO \in Nat /\ y.indexIO \in Nat
  BY FileInvParts, TypeFacts, EndTypes, EndsAre DEF Shared
<1>2. /\ Started /\ ~M.failed /\ ~M.closeReqSubmitted /\ ~M.closeNotify /\ r \in M.pending
      /\ OpenRequest \notin M.pending
      /\ \A s \in M.pending : s.op \in IOOps => s = r
  BY ReadFacts
<1>3. OpenRequest \notin y.pending
  BY <1>2, OpenRequestIs
<1>4. Sends(y, {"DATA"}) /\ Sends(y, Data)
  BY DEF Sends, Data
<1>5. ReadsFrom("master", 0, net["master"]) /\ 0 \in {0, 1}
  BY DEF ReadsFrom
<1>6. /\ job' = job /\ S' = S /\ M' \in EndX /\ Same(y, M')
      /\ end' \in [Ends -> EndX] /\ \A e \in Ends : end'[e].out = <<>>
      /\ net' \in [Ends -> Seq(Message)]
      /\ From(net["master"], net'["master"], 0, Commands)
      /\ To(net["master"], net'["master"], 0, Commands)
      /\ To(net["slave"], net'["slave"], 0, Commands)
      /\ y.out = <<>> => net'["slave"] = net["slave"]
      /\ \A m \in Message : y.out = <<m>> => Appends(net["slave"], net'["slave"], m)
      /\ Started' /\ StageOK' /\ CommandsOK'
  BY <1>1, <1>2, <1>3, <1>4, <1>5, MasterMoves DEF SameTask
<1>7. From(net["slave"], net'["slave"], 0, Commands \ {"DATA"})
  BY <1>1, <1>4, <1>6, SentFrom
<1>8. /\ From(net["master"], net'["master"], 0, {"FINISH"})
      /\ To(net["master"], net'["master"], 0, {"FINISH"})
      /\ From(net["slave"], net'["slave"], 0, {"FINISH"})
      /\ To(net["slave"], net'["slave"], 0, {"CHANNEL_CLOSE"})
  <2>1. {"FINISH"} \subseteq Commands /\ {"CHANNEL_CLOSE"} \subseteq Commands
        /\ {"FINISH"} \subseteq Commands \ {"DATA"}
    BY DEF Commands
  <2>2. From(net["slave"], net'["slave"], 0, {"FINISH"})
    BY <2>1, <1>7, LessFrom
  <2>3. /\ From(net["master"], net'["master"], 0, {"FINISH"})
        /\ To(net["master"], net'["master"], 0, {"FINISH"})
    BY <2>1, <1>6, LessFrom
  <2>4. To(net["slave"], net'["slave"], 0, {"CHANNEL_CLOSE"})
    BY <2>1, <1>6, LessFrom
  <2> QED
    BY <2>2, <2>3, <2>4
<1>9. EndOK(M') /\ EndOK(S')
  BY <1>1, <1>6, SameEnd
<1>10. /\ M'.indexIO = y.indexIO /\ M'.ioFinish = y.ioFinish /\ M'.failed = M.failed
       /\ M'.pending = y.pending /\ M'.said = M.said /\ M'.closeNotify = M.closeNotify
       /\ M'.closeReqSubmitted = y.closeReqSubmitted /\ (M.stop => M'.stop)
       /\ Writes' = Writes /\ (y.early => M'.early) /\ (M.early => M'.early)
  BY <1>6 DEF Same, SameTask, SameFlags, SamePool, SameSaid, Writes
<1>11. ReadsOK'
  BY <1>1, <1>2, <1>6, <1>10 DEF ReadsOK, Reads, Size, IOOps
<1>12. PiecesOK'
  <2>1. CASE y.out = <<>>
    BY <2>1, <1>1, <1>6, <1>10, PiecesGrow
  <2>2. ASSUME NEW m \in Message,
               /\ y.out = <<m>> /\ m.cmd = "DATA" /\ ~M.ioFinish /\ m.index = M.indexIO
               /\ m.n <= MaxRead /\ m.index + m.n <= y.indexIO
               /\ m.n = 0 => y.ioFinish /\ (Size = 0 \/ y.early)
        PROVE  PiecesOK'
    BY <2>2, <1>1, <1>6, <1>10, PiecesSent
  <2> QED
    BY <2>1, <2>2
<1>13. DiskOK'
  BY <1>1, <1>6, <1>10, PieceTypes DEF DiskOK
<1>16. (Healthy' => Healthy) /\ (Early => Early')
  BY <1>6, <1>10, MasterHistory DEF Same, SameTask
<1>14. FinishOK'
  <2>1. (Complete => Complete') /\ S'.stop = S.stop /\ S'.failed = S.failed
        /\ S'.ioFinish = S.ioFinish /\ S'.closeNotify = S.closeNotify /\ S'.said = S.said
    BY <1>6 DEF Complete, Size
  <2> QED
    BY <2>1, <1>1, <1>2, <1>6, <1>8, <1>10, <1>16, NoFinishSent
<1>15. Healthy' => HealthyOK'
  <2> SUFFICES ASSUME Healthy, Healthy'
               PROVE  HealthyOK'
    BY <1>16
  <2>1. HealthyOK /\ HealthyEnd(M')
    BY <1>1, <1>6, SameEnd DEF HealthyOK
  <2>2. IsOpen(S)
    BY <2>1 DEF HealthyOK
  <2>3. At("slave", "FINISH")' # {} \/ At("master", "FINISH")' # {} =>
            At("slave", "FINISH") # {} \/ At("master", "FINISH") # {}
    BY <1>8 DEF At, From
  <2>4. At("slave", "DATA")' # {} => At("slave", "DATA") # {} \/ ~M.ioFinish
    BY <1>6 DEF At
  <2> QED
    BY <2>1, <2>2, <2>3, <2>4, <1>6, <1>10, MasterHealthy
<1> QED
  BY <1>1, <1>6, <1>9, <1>11, <1>12, <1>13, <1>14, <1>15, TypeFacts, InvFrom

LEMMA TookRead ==
    ASSUME FileInv, NEW r \in Reads, NEW t, t = Took(M, r)
    PROVE  /\ t \in EndX /\ t.out = <<>> /\ M \in EndX
           /\ SameTask(M, t) /\ SameFlags(M, t) /\ SameFds(M, t) /\ SameSaid(M, t)
           /\ t.pending = M.pending \ {r} /\ t.refCount = M.refCount /\ t.bufs = M.bufs
           /\ ~t.failed /\ ~t.closeReqSubmitted
           /\ EndOK(M) /\ M.refCount \in Int /\ M.indexIO \in Nat /\ Size \in Nat
           /\ M.indexIO <= Size /\ (M.ioFinish \/ M.indexIO = 0 \/ M.indexIO < Size)
<1>1. M \in EndX /\ M.out = <<>> /\ EndOK(M) /\ TypeOK /\ ReadsOK
  BY FileInvParts, TypeFacts DEF Shared
<1>2. /\ t \in EndX /\ t.out = M.out
      /\ SameTask(M, t) /\ SameFlags(M, t) /\ SameFds(M, t) /\ SameSaid(M, t)
      /\ t.pending = M.pending \ {r} /\ t.refCount = M.refCount /\ t.bufs = M.bufs
  BY <1>1, TookIs
<1>3. ~M.failed /\ ~M.closeReqSubmitted
  BY ReadFacts
<1>4. M.refCount \in Int /\ M.indexIO \in Nat /\ Size \in Nat
  BY <1>1, EndTypes, PieceTypes
<1> QED
  BY <1>1, <1>2, <1>3, <1>4 DEF SameFlags, ReadsOK

\* The last read closes the file; z is the end before it does.
LEMMA LastRead ==
    ASSUME FileInv, NEW r \in Reads, NEW z \in EndX, z.ioFinish,
           SameTask(M, z), SameFds(M, z), z.failed = M.failed, z.said = M.said,
           z.closeNotify = M.closeNotify, z.closeReqSubmitted = M.closeReqSubmitted,
           z.pending = M.pending \ {r}, z.refCount = M.refCount, z.bufs = M.bufs,
           M.indexIO <= z.indexIO, z.indexIO <= Size,
           \/ z.out = <<>>
           \/ \E m \in Message :
                  /\ z.out = <<m>> /\ m.cmd = "DATA" /\ ~M.ioFinish /\ m.index = M.indexIO
                  /\ m.n <= MaxRead /\ m.index + m.n <= z.indexIO
                  /\ m.n = 0 => Size = 0 \/ z.early,
           Step("master", EndFileIO(CloseStep("master", z), r), net), UNCHANGED disk
    PROVE  FileInv'
<1>0. PICK y : y = EndFileIO(CloseStep("master", z), r)
  OBVIOUS
<1>1. /\ ~M.failed /\ ~M.closeReqSubmitted /\ ~M.closeNotify /\ r \in M.pending
      /\ OpenRequest \notin M.pending /\ r.op \in IOOps /\ r.buf \in Bufs /\ M.cur # 0
      /\ \A s \in M.pending : s.op \in IOOps => s = r
  BY ReadFacts
<1>2. M \in EndX /\ EndOK(M) /\ ~z.failed /\ ~z.closeReqSubmitted /\ M.failed \in BOOLEAN
  BY <1>1, FileInvParts, TypeFacts, EndTypes
<1>3. /\ y \in EndX /\ y.out = z.out
      /\ SameTask(z, y) /\ SameFds(z, y) /\ SameSaid(z, y)
      /\ y.closeReqSubmitted /\ ~y.isFdOpen /\ y.ioFinish /\ ~y.failed
      /\ y.closeNotify = z.closeNotify
      /\ \E c \in Request : /\ c.op = "close" /\ c.fd = z.fd
                            /\ y.pending = z.pending \cup {c}
      /\ y.refCount = z.refCount /\ y.bufs = [z.bufs EXCEPT ![r.buf] = "free"]
  BY ONLY z \in EndX, z.ioFinish, <1>0, <1>1, <1>2, EndsClosing, EndsAre
<1>4. Step("master", y, net)
  BY <1>0
<1>5. PICK c \in Request : /\ c.op = "close" /\ c.fd = M.fd
                           /\ y.pending = (M.pending \ {r}) \cup {c}
  BY <1>3 DEF SameFds
<1>6. /\ SameFds(M, y) /\ SameTask(M, y) /\ y.refCount = M.refCount
      /\ y.bufs = [M.bufs EXCEPT ![r.buf] = "free"] /\ y.indexIO = z.indexIO
      /\ y.said = M.said /\ y.failed = M.failed /\ y.closeNotify = M.closeNotify
      /\ (z.early => y.early)
  BY <1>1, <1>2, <1>3, EndTypes DEF SameFds, SameTask, SameSaid
<1>7. EndOK(y) /\ (HealthyEnd(M) => HealthyEnd(y))
  BY <1>1, <1>2, <1>3, <1>5, <1>6, IOClosesEnd
<1>8. /\ \A p \in y.pending : p \in M.pending \ {r} \/ p.op = "close"
      /\ \A p, q \in y.pending : p.op = "read" /\ q.op = "read" => p = q
  BY <1>1, <1>5 DEF IOOps
<1> QED
  BY <1>3, <1>4, <1>6, <1>7, <1>8, ReadEnds

LEMMA ReadFailedKeeps ==
    ASSUME FileInv, job.kind = "file", NEW r, ReadFailed(r)
    PROVE  FileInv'
<1> DEFINE t == Took(M, r)
           f == IF t.ioFinish THEN t ELSE Failed(t)
           y == EndFileIO(CloseStep("master", f), r)
<1>1. /\ r \in Reads /\ Step("master", y, net) /\ UNCHANGED disk /\ job.fault = "read"
  BY DEF ReadFailed, M, Reads
<1>2. /\ t \in EndX /\ t.out = <<>> /\ M \in EndX
      /\ SameTask(M, t) /\ SameFlags(M, t) /\ SameFds(M, t) /\ SameSaid(M, t)
      /\ t.pending = M.pending \ {r} /\ t.refCount = M.refCount /\ t.bufs = M.bufs
      /\ ~t.failed /\ ~t.closeReqSubmitted
      /\ EndOK(M) /\ M.refCount \in Int /\ M.indexIO \in Nat /\ Size \in Nat
      /\ M.indexIO <= Size /\ (M.ioFinish \/ M.indexIO = 0 \/ M.indexIO < Size)
  BY <1>1, TookRead
<1>3. /\ Started /\ ~M.failed /\ ~M.closeReqSubmitted /\ ~M.closeNotify
      /\ r \in M.pending /\ r.op \in IOOps /\ r.buf \in Bufs /\ M.cur # 0
      /\ OpenRequest \notin M.pending
      /\ \A s \in M.pending : s.op \in IOOps => s = r
  BY <1>1, ReadFacts
<1> HIDE DEF t
<1>4. CASE t.ioFinish
  <2>1. f = t /\ Step("master", EndFileIO(CloseStep("master", t), r), net)
    BY <1>1, <1>4
  <2> QED
    BY <2>1, <1>1, <1>2, <1>4, LastRead DEF SameFlags, SameSaid
<1>5. CASE ~t.ioFinish
  <2>1. f = [t EXCEPT !.closeNotify = TRUE, !.failed = TRUE, !.ioFinish = TRUE]
    BY <1>5 DEF Failed
  <2>2. /\ f \in EndX /\ f.out = <<>> /\ f.ioFinish /\ f.failed /\ f.closeNotify
        /\ SameTask(t, f) /\ SameFds(t, f) /\ SamePool(t, f) /\ SameSaid(t, f)
        /\ f.isFdOpen = t.isFdOpen /\ f.closeReqSubmitted = t.closeReqSubmitted
    BY <2>1, <1>2 DEF EndX, SameTask, SameFds, SamePool, SameSaid
  <2> HIDE DEF f
  <2>3. /\ y \in EndX /\ y.out = IF f.stop THEN <<>> ELSE <<Msg("FINISH", 1)>>
        /\ SameTask(f, y) /\ SameFlags(f, y) /\ SameFds(f, y) /\ SameSaid(f, y)
        /\ y.pending = f.pending /\ y.refCount = f.refCount - 1
        /\ y.bufs = [f.bufs EXCEPT ![r.buf] = "free"]
    BY <2>2, <1>3, EndsTelling, EndsAre
  <2> HIDE DEF y
  <2>4. /\ SameFds(M, y) /\ SameTask(M, y) /\ SameSaid(M, y)
        /\ y.pending = M.pending \ {r} /\ y.refCount = M.refCount - 1
        /\ y.bufs = [M.bufs EXCEPT ![r.buf] = "free"]
        /\ y.isFdOpen = M.isFdOpen /\ ~y.closeReqSubmitted
        /\ y.ioFinish /\ y.failed /\ y.closeNotify /\ ~M.ioFinish
        /\ y.closeReqSubmitted = M.closeReqSubmitted
    BY <2>2, <2>3, <1>2, <1>5 DEF SameTask, SameFds, SamePool, SameSaid, SameFlags
  <2>5. EndOK(y)
    BY <2>4, <1>2, <1>3, IODoneEnd
  <2>6. /\ TypeOK /\ EndOK(S) /\ CommandsOK /\ ReadsOK /\ PiecesOK
        /\ DiskOK /\ FinishOK
        /\ net \in [Ends -> Seq(Message)] /\ net["slave"] \in Seq(Message)
    BY FileInvParts, TypeFacts, EndsAre DEF Shared
  <2>7. Msg("FINISH", 1) \in Message /\ Msg("FINISH", 1).cmd = "FINISH" /\ Msg("FINISH", 1).n = 1
    BY FinishMessage, SmallNumbers
  <2>8. Sends(y, {"FINISH"}) /\ Sends(y, Data)
    BY <2>3, <2>7 DEF Sends, Data
  <2>9. ReadsFrom("master", 0, net["master"]) /\ 0 \in {0, 1} /\ OpenRequest \notin y.pending
    BY <2>4, <1>3 DEF ReadsFrom
  <2>10. /\ job' = job /\ S' = S /\ M' \in EndX /\ Same(y, M')
         /\ end' \in [Ends -> EndX] /\ \A e \in Ends : end'[e].out = <<>>
         /\ net' \in [Ends -> Seq(Message)]
         /\ From(net["master"], net'["master"], 0, Commands)
         /\ To(net["master"], net'["master"], 0, Commands)
         /\ To(net["slave"], net'["slave"], 0, Commands)
         /\ y.out = <<>> => net'["slave"] = net["slave"]
         /\ \A m \in Message : y.out = <<m>> => Appends(net["slave"], net'["slave"], m)
         /\ Started' /\ StageOK' /\ CommandsOK'
    BY <2>3, <2>4, <2>6, <2>8, <2>9, <1>1, <1>2, <1>3, MasterMoves DEF SameTask
  <2>11. From(net["slave"], net'["slave"], 0, Commands \ {"FINISH"})
    BY <2>6, <2>8, <2>10, SentFrom
  <2>12. /\ From(net["slave"], net'["slave"], 0, {"DATA"})
         /\ To(net["slave"], net'["slave"], 0, {"CHANNEL_CLOSE"})
         /\ From(net["master"], net'["master"], 0, {"FINISH"})
         /\ To(net["master"], net'["master"], 0, {"FINISH"})
    <3>1. {"FINISH"} \subseteq Commands /\ {"CHANNEL_CLOSE"} \subseteq Commands
          /\ {"DATA"} \subseteq Commands \ {"FINISH"}
      BY DEF Commands
    <3>2. From(net["slave"], net'["slave"], 0, {"DATA"})
      BY <3>1, <2>11, LessFrom
    <3>3. /\ To(net["slave"], net'["slave"], 0, {"CHANNEL_CLOSE"})
          /\ From(net["master"], net'["master"], 0, {"FINISH"})
      BY <3>1, <2>10, LessFrom
    <3>4. To(net["master"], net'["master"], 0, {"FINISH"})
      BY <3>1, <2>10, LessFrom
    <3> QED
      BY <3>2, <3>3, <3>4
  <2>13. /\ M'.indexIO = M.indexIO /\ M'.ioFinish /\ M'.failed /\ M'.closeNotify
         /\ M'.pending = M.pending \ {r} /\ M'.said = M.said
         /\ ~M'.closeReqSubmitted /\ (M.stop => M'.stop)
         /\ (M.early => M'.early) /\ (M.broken => M'.broken)
    BY <2>4, <2>10 DEF Same, SameTask, SameFlags, SamePool, SameSaid
  <2>14. EndOK(M') /\ EndOK(S')
    BY <2>5, <2>6, <2>10, SameEnd
  <2>15. ReadsOK'
    BY <2>4, <2>6, <2>10, <2>13, <1>2, <1>3 DEF ReadsOK, Reads, Size, IOOps
  <2>16. PiecesOK' /\ DiskOK'
    <3>1. PiecesOK'
      BY <2>6, <2>10, <2>12, <2>13, <1>1, PiecesFrame DEF Writes
    <3> QED
      BY <3>1, <2>6, <2>10, <2>13, <1>1, DiskFrame
  <2>17. FinishOK'
    <3>1. \A p \in {0, 1} : \A i \in Finishes("master", p)' :
              i + 0 \in Finishes("master", p) /\ net'["master"][i].n = net["master"][i + 0].n
      BY <2>12, FinishesKept, EndsAre
    <3>2. /\ \A i \in Finishes("slave", 0)' : i + 0 \in Finishes("slave", 0)
          /\ MasterAsksOK'
      <4>1. Finishes("slave", 1) = {}
        BY <2>6, <1>3 DEF FinishOK, MasterAsksOK
      <4>2. CASE y.out = <<>>
        BY <4>1, <4>2, <2>10, PieceTypes, <2>6 DEF Finishes, At, MasterAsksOK
      <4>3. CASE y.out = <<Msg("FINISH", 1)>>
        <5> DEFINE last == Len(net["slave"]) + 1
        <5>1. /\ DOMAIN net["slave"] = 1..Len(net["slave"]) /\ Len(net["slave"]) \in Nat
              /\ DOMAIN net'["slave"] = 1..last
              /\ \A i \in DOMAIN net["slave"] : net'["slave"][i] = net["slave"][i]
              /\ net'["slave"][last].cmd = "FINISH" /\ net'["slave"][last].n = 1
          BY <4>3, <2>7, <2>10 DEF Appends
        <5>2. \A i \in DOMAIN net'["slave"] : i \in DOMAIN net["slave"] \/ i = last
          BY <5>1
        <5>3. \A i \in DOMAIN net["slave"] : i < last /\ i \in Nat
          BY <5>1
        <5> HIDE DEF last
        <5>4. \A i \in Finishes("slave", 0)' : i + 0 \in Finishes("slave", 0)
          BY <5>1, <5>2, <5>3 DEF Finishes, At
        <5>5. \A i \in Finishes("slave", 1)' : i = last
          BY <4>1, <5>1, <5>2, <5>3 DEF Finishes, At
        <5>6. \A i \in At("slave", "DATA")' : i < last
          BY <5>1, <5>2, <5>3 DEF At
        <5> QED
          BY <5>1, <5>4, <5>5, <5>6, <2>13 DEF MasterAsksOK
      <4> QED
        BY <2>3, <4>2, <4>3
    <3>3. (Complete => Complete') /\ S'.stop = S.stop /\ S'.failed = S.failed
          /\ S'.ioFinish = S.ioFinish /\ S'.closeNotify = S.closeNotify /\ S'.said = S.said
      BY <2>10, <1>1 DEF Complete, Size
    <3> QED
      BY <3>1, <3>2, <3>3, <2>6, <2>10, <2>12, <2>13, <1>3, MasterHistory, FinishFrame
  <2>18. ~Healthy'
    BY <2>13 DEF Healthy, Ends, M
  <2> QED
    BY <1>1, <2>6, <2>10, <2>14, <2>15, <2>16, <2>17, <2>18, TypeFacts, InvFrom
<1> QED
  BY <1>4, <1>5

LEMMA PieceMessage ==
    ASSUME NEW index \in 0..MaxBlocks, NEW n \in 0..MaxRead, NEW m,
           m = [cmd |-> "DATA", file |-> 0, index |-> index, n |-> n]
    PROVE  m \in Message /\ m.cmd = "DATA" /\ m.index = index /\ m.n = n
BY BoundsAssumption DEF Message, Commands

LEMMA FinishedIs ==
    ASSUME NEW x \in EndX, NEW y, y = [x EXCEPT !.ioFinish = TRUE]
    PROVE  /\ y \in EndX /\ y.ioFinish /\ y.out = x.out
           /\ SameTask(x, y) /\ SameFds(x, y) /\ SamePool(x, y) /\ SameSaid(x, y)
           /\ y.isFdOpen = x.isFdOpen /\ y.closeNotify = x.closeNotify
           /\ y.closeReqSubmitted = x.closeReqSubmitted /\ y.failed = x.failed
BY DEF EndX, SameTask, SameFds, SamePool, SameSaid

LEMMA ReadDoneKeeps ==
    ASSUME FileInv, job.kind = "file", NEW r, NEW n \in 0..MaxRead, ReadDone(r, n)
    PROVE  FileInv'
<1> DEFINE t == Took(M, r)
           a == [t EXCEPT !.indexIO = t.indexIO + n]
           more == a.indexIO < FileSize(t)
           m == [cmd |-> "DATA", file |-> 0, index |-> t.indexIO, n |-> n]
           s == Send(a, m)
           z == IF t.ioFinish THEN t
                ELSE IF Mute(t) THEN [a EXCEPT !.ioFinish = TRUE]
                ELSE IF n > 0 /\ more
                THEN SimpleFileIO(s, "read", a.indexIO, MaxRead)
                ELSE [s EXCEPT !.ioFinish = TRUE, !.early = t.early \/ more]
<1>1. /\ r \in Reads /\ Step("master", EndFileIO(CloseStep("master", z), r), net) /\ UNCHANGED disk
      /\ Room(t) /\ n <= FileSize(t) - r.index
  BY DEF ReadDone, M, Reads, SendIOPayload
<1>2. /\ t \in EndX /\ t.out = <<>> /\ M \in EndX
      /\ SameTask(M, t) /\ SameFlags(M, t) /\ SameFds(M, t) /\ SameSaid(M, t)
      /\ t.pending = M.pending \ {r} /\ t.refCount = M.refCount /\ t.bufs = M.bufs
      /\ ~t.failed /\ ~t.closeReqSubmitted
      /\ EndOK(M) /\ M.refCount \in Int /\ M.indexIO \in Nat /\ Size \in Nat
      /\ M.indexIO <= Size /\ (M.ioFinish \/ M.indexIO = 0 \/ M.indexIO < Size)
  BY <1>1, TookRead
<1>3. /\ Started /\ ~M.failed /\ ~M.closeReqSubmitted /\ ~M.closeNotify
      /\ r \in M.pending /\ r.op \in IOOps /\ r.buf \in Bufs /\ M.cur # 0
      /\ OpenRequest \notin M.pending /\ r.index = M.indexIO
      /\ \A p \in M.pending : p.op \in IOOps => p = r
  BY <1>1, ReadFacts
<1>4. Mute(t) <=> t.stop
  BY <1>2, EndTypes DEF Mute
<1>5. t.cur = 1 /\ FileSize(t) = Size /\ t.indexIO = M.indexIO /\ Size \in 0..MaxBlocks
  <2>1. M.cur = 1 /\ Size \in 0..MaxBlocks
    BY <1>2, <1>3, FileInvParts, TypeFacts DEF EndOK
  <2> QED
    BY <2>1, <1>2 DEF FileSize, Size, SameTask, SameSaid
<1>6. n \in Nat /\ M.indexIO + n <= Size /\ M.indexIO + n \in Nat
  BY <1>1, <1>2, <1>3, <1>5, BoundsAssumption
<1>7. M.indexIO \in 0..MaxBlocks /\ M.indexIO + n \in 0..MaxBlocks
  BY <1>2, <1>5, <1>6, BoundsAssumption
<1>8. m \in Message /\ m.cmd = "DATA" /\ m.index = M.indexIO /\ m.n = n
  BY <1>5, <1>7, PieceMessage
<1> HIDE DEF t, m
<1>9. /\ a \in EndX /\ a.out = <<>> /\ a.indexIO = M.indexIO + n /\ a.said = t.said
      /\ a.early = t.early
      /\ SameTask(t, a) /\ SameFlags(t, a) /\ SameFds(t, a) /\ SamePool(t, a)
  BY <1>2, <1>5, <1>6 DEF EndX, Counts, SameTask, SameFlags, SameFds, SamePool
<1>10. more <=> M.indexIO + n < Size
  BY <1>5, <1>9
<1> HIDE DEF a, more
<1>11. s \in EndX /\ Same(a, s) /\ s.out = (IF a.stop THEN <<>> ELSE <<m>>) /\ s.early = a.early
  BY <1>8, <1>9, SendIs
<1> HIDE DEF s
<1>12. CASE t.ioFinish
  <2>1. z = t
    BY <1>12
  <2> HIDE DEF z
  <2> QED
    BY <2>1, <1>1, <1>2, <1>12, LastRead DEF SameFlags, SameSaid
<1>13. CASE ~t.ioFinish /\ t.stop
  <2>1. z = [a EXCEPT !.ioFinish = TRUE]
    BY <1>4, <1>13
  <2> HIDE DEF z
  <2>2. /\ z \in EndX /\ z.ioFinish /\ z.out = <<>> /\ z.indexIO = M.indexIO + n
        /\ z.said = M.said /\ z.failed = M.failed /\ z.closeNotify = M.closeNotify
        /\ z.closeReqSubmitted = M.closeReqSubmitted
        /\ SameTask(M, z) /\ SameFds(M, z) /\ SamePool(t, z)
    BY <2>1, <1>2, <1>9, FinishedIs DEF SameTask, SameFlags, SameFds, SamePool, SameSaid
  <2>3. z.pending = M.pending \ {r} /\ z.refCount = M.refCount /\ z.bufs = M.bufs
        /\ M.indexIO <= z.indexIO /\ z.indexIO <= Size
    BY <2>2, <1>2, <1>6 DEF SamePool
  <2> QED
    BY <2>2, <2>3, <1>1, LastRead
<1>14. CASE ~t.ioFinish /\ ~t.stop /\ n > 0 /\ more
  <2>1. z = SimpleFileIO(s, "read", a.indexIO, MaxRead)
    BY <1>4, <1>14
  <2>2. s.out = <<m>> /\ ~s.ioFinish /\ s.indexIO = M.indexIO + n /\ s.said = M.said
        /\ SameTask(M, s) /\ SameFlags(M, s) /\ SameFds(M, s) /\ s.pending = M.pending \ {r}
        /\ s.refCount = M.refCount /\ s.bufs = M.bufs
    BY <1>2, <1>9, <1>11, <1>14
       DEF Same, SameTask, SameFlags, SameFds, SamePool, SameSaid
  <2>3. Room(s) /\ a.indexIO \in 0..MaxBlocks /\ MaxRead \in 0..MaxRead /\ "read" \in IOOps
    <3>1. Room(s)
      BY <2>2, <1>1, <1>2 DEF Room
    <3> QED
      BY <3>1, <1>7, <1>9, BoundsAssumption DEF IOOps
  <2> HIDE DEF z
  <2>4. IOStarted(s, z, "read", a.indexIO, MaxRead)
    BY <2>1, <2>2, <2>3, <1>11, StartsIO
  <2>5. PICK b \in Bufs, p \in Request :
               /\ s.bufs[b] # "used" /\ z.bufs = [s.bufs EXCEPT ![b] = "used"]
               /\ p.op = "read" /\ p.fd = s.fd /\ p.buf = b /\ p.index = a.indexIO /\ p.n = MaxRead
               /\ z.pending = s.pending \cup {p} /\ z.refCount = s.refCount + 1
    BY <2>4 DEF IOStarted
  <2> DEFINE y == EndFileIO(CloseStep("master", z), r)
  <2>6. /\ y \in EndX /\ y.out = z.out
        /\ SameTask(z, y) /\ SameFlags(z, y) /\ SameFds(z, y) /\ SameSaid(z, y)
        /\ y.pending = z.pending /\ y.refCount = z.refCount - 1
        /\ y.bufs = [z.bufs EXCEPT ![r.buf] = "free"]
    BY <2>2, <2>4, <1>3, EndsQuietly, EndsAre DEF IOStarted, SameFlags
  <2>7. Step("master", y, net)
    BY <1>1
  <2> HIDE DEF y
  <2>8. /\ y.pending = (M.pending \ {r}) \cup {p} /\ y.refCount = M.refCount
        /\ y.bufs = [[M.bufs EXCEPT ![b] = "used"] EXCEPT ![r.buf] = "free"]
        /\ SameTask(M, y) /\ SameFlags(M, y) /\ SameFds(M, y)
        /\ y.indexIO = M.indexIO + n /\ y.said = M.said /\ y.out = <<m>>
        /\ p.fd = M.fd /\ p.index = y.indexIO /\ M.bufs[b] # "used"
    BY <2>2, <2>4, <2>5, <2>6, <1>2, <1>9 DEF IOStarted, SameTask, SameFlags, SameFds, SameSaid
  <2>9. EndOK(y) /\ (HealthyEnd(M) => HealthyEnd(y))
    BY <2>5, <2>8, <1>2, <1>3, IORestartsEnd DEF IOOps
  <2>10. /\ \A q \in y.pending : \/ q \in M.pending \ {r}
                                 \/ q.op = "read" /\ q.index = y.indexIO /\ ~y.closeReqSubmitted
         /\ \A q, q2 \in y.pending : q.op = "read" /\ q2.op = "read" => q = q2
    BY <2>5, <2>8, <1>3 DEF IOOps, SameFlags
  <2>11. /\ y.failed = M.failed /\ y.closeNotify = M.closeNotify /\ y.ioFinish = M.ioFinish
         /\ ~M.ioFinish
    BY <2>8, <1>2, <1>14 DEF SameFlags
  <2>12. /\ M.indexIO <= y.indexIO /\ y.indexIO < Size /\ y.indexIO <= Size
         /\ m.n <= MaxRead /\ m.index + m.n <= y.indexIO /\ m.n # 0
    BY <2>8, <1>2, <1>6, <1>8, <1>10, <1>14, BoundsAssumption
  <2> QED
    BY <2>6, <2>7, <2>8, <2>9, <2>10, <2>11, <2>12, <1>1, <1>8, ReadEnds
<1>15. CASE ~t.ioFinish /\ ~t.stop /\ ~(n > 0 /\ more)
  <2>1. z = [s EXCEPT !.ioFinish = TRUE, !.early = t.early \/ more]
    BY <1>4, <1>15
  <2> HIDE DEF z
  <2>5. (t.early \/ more) \in BOOLEAN /\ (s.early => t.early \/ more)
    BY <1>2, <1>9, <1>10, <1>11, EndTypes DEF Same, SameTask
  <2>2. /\ z \in EndX /\ z.ioFinish /\ z.out = <<m>> /\ z.indexIO = M.indexIO + n
        /\ z.said = M.said /\ z.failed = M.failed /\ z.closeNotify = M.closeNotify
        /\ z.closeReqSubmitted = M.closeReqSubmitted /\ ~M.ioFinish
        /\ SameTask(M, z) /\ SameFds(M, z) /\ SamePool(t, z) /\ (more => z.early)
    <3>1. /\ z \in EndX /\ z.ioFinish /\ z.out = s.out /\ z.isFdOpen = s.isFdOpen
          /\ SameTask(s, z) /\ SameFds(s, z) /\ SamePool(s, z) /\ SameSaid(s, z)
          /\ z.closeNotify = s.closeNotify /\ z.closeReqSubmitted = s.closeReqSubmitted
          /\ z.failed = s.failed /\ (more => z.early)
      BY <2>1, <2>5, <1>11 DEF EndX, SameTask, SameFds, SamePool, SameSaid
    <3> QED
      BY <3>1, <1>2, <1>9, <1>11, <1>15
         DEF Same, SameTask, SameFlags, SameFds, SamePool, SameSaid
  <2>3. z.pending = M.pending \ {r} /\ z.refCount = M.refCount /\ z.bufs = M.bufs
        /\ M.indexIO <= z.indexIO /\ z.indexIO <= Size
    BY <2>2, <1>2, <1>6 DEF SamePool
  <2>4. /\ m.n <= MaxRead /\ m.index + m.n <= z.indexIO
        /\ m.n = 0 => Size = 0 \/ z.early
    BY <2>2, <1>2, <1>6, <1>8, <1>10, <1>15, BoundsAssumption
  <2> QED
    BY <2>2, <2>3, <2>4, <1>1, <1>8, LastRead
<1> QED
  BY <1>12, <1>13, <1>14, <1>15

\* The master, asked for the file, reads its first block.
LEMMA BeginDataKeeps ==
    ASSUME FileInv, job.kind = "file", BeginData
    PROVE  FileInv'
<1> DEFINE y == SimpleFileIO(M, "read", M.indexIO, MaxRead)
<1>1. /\ net["master"] # <<>> /\ Head(net["master"]).cmd = "BEGIN" /\ ~M.stop
      /\ Room(M) /\ Step("master", y, Rest("master")) /\ UNCHANGED disk
  BY DEF BeginData, Receives, M
<1>2. /\ TypeOK /\ EndOK(M) /\ EndOK(S) /\ CommandsOK /\ StageOK /\ ReadsOK /\ PiecesOK
      /\ DiskOK /\ FinishOK /\ (Healthy => HealthyOK)
      /\ net \in [Ends -> Seq(Message)] /\ net["master"] \in Seq(Message)
      /\ net["slave"] \in Seq(Message) /\ M \in EndX /\ S \in EndX /\ M.out = <<>>
  BY FileInvParts, TypeFacts, EndsAre DEF Shared
<1>3. 1 \in At("master", "BEGIN") /\ 1 \notin Finishes("master", 0)
  BY <1>1, <1>2, TailOf DEF At, Finishes
<1>4. /\ Quiet /\ S.cur # 0 /\ ~Opens("slave") /\ Checks = {} /\ ModeAcks = {}
      /\ M.cur # 0 /\ ~Opens("master") /\ M.begun
      /\ \A i \in At("master", "BEGIN") : i = 1
  BY <1>2, <1>3 DEF StageOK
<1>5. /\ M.indexIO = 0 /\ ~M.ioFinish /\ ~M.failed /\ ~M.closeReqSubmitted /\ ~M.closeNotify
      /\ ~M.released /\ Reads = {} /\ OpenRequest \notin M.pending /\ M.begun \in BOOLEAN
  BY <1>1, <1>2, <1>4, EndTypes DEF Quiet, EndOK, FdsOK, Opens, M
<1>6. M.indexIO \in 0..MaxBlocks /\ MaxRead \in 0..MaxRead /\ "read" \in IOOps
  BY <1>5, BoundsAssumption DEF IOOps
<1>7. IOStarted(M, y, "read", M.indexIO, MaxRead)
  BY <1>1, <1>2, <1>5, <1>6, StartsIO
<1> HIDE DEF y
<1>8. PICK b \in Bufs, r \in Request :
          /\ M.bufs[b] # "used" /\ y.bufs = [M.bufs EXCEPT ![b] = "used"]
          /\ r.op = "read" /\ r.fd = M.fd /\ r.buf = b /\ r.index = M.indexIO /\ r.n = MaxRead
          /\ y.pending = M.pending \cup {r} /\ y.refCount = M.refCount + 1
  BY <1>7 DEF IOStarted
<1>9. /\ y \in EndX /\ y.out = <<>>
      /\ SameTask(M, y) /\ SameFlags(M, y) /\ SameFds(M, y) /\ SameSaid(M, y)
  BY <1>2, <1>7 DEF IOStarted
<1>10. /\ Rest("master") \in [Ends -> Seq(Message)] /\ Rest("master")["slave"] = net["slave"]
       /\ ReadsFrom("master", 1, Rest("master")["master"]) /\ 1 \in {0, 1}
  BY <1>1, <1>2, RestIs, EndsAre DEF ReadsFrom
<1>11. /\ job' = job /\ S' = S /\ M' \in EndX /\ Same(y, M')
       /\ end' \in [Ends -> EndX] /\ \A e \in Ends : end'[e].out = <<>>
       /\ net' \in [Ends -> Seq(Message)]
       /\ From(net["master"], net'["master"], 1, Commands)
       /\ To(net["master"], net'["master"], 1, Commands)
       /\ net'["slave"] = net["slave"]
  BY <1>1, <1>2, <1>9, <1>10, MasterStep
<1>12. EndOK(y) /\ (M.isFdOpen => (HealthyEnd(M) => HealthyEnd(y)))
  <2>1. r.op \in IOOps
    BY <1>6, <1>8
  <2>2. EndOK(M) /\ M \in EndX /\ M.cur # 0 /\ OpenRequest \notin M.pending /\ ~M.released
    BY <1>2, <1>4, <1>5
  <2> QED
    BY <2>1, <2>2, <1>8, <1>9, IOStartsEnd
<1>13. EndOK(M') /\ EndOK(S') /\ (HealthyEnd(y) => HealthyEnd(M'))
  BY <1>2, <1>11, <1>12, SameEnd
<1>14. /\ M'.indexIO = M.indexIO /\ M'.pending = M.pending \cup {r} /\ ~M'.ioFinish
       /\ ~M'.failed /\ ~M'.closeReqSubmitted /\ ~M'.closeNotify /\ M'.said = M.said
       /\ M'.begun = M.begun /\ M'.cur = M.cur /\ M'.stop = M.stop /\ (M.early => M'.early)
  BY <1>5, <1>8, <1>9, <1>11 DEF Same, SameTask, SameFlags, SamePool, SameSaid
<1>15. At("master", "BEGIN")' = {}
  <2>1. \A i \in At("master", "BEGIN")' : i + 1 \in At("master", "BEGIN") /\ i \in Nat \ {0}
    <3>1. "BEGIN" \in Commands /\ net'["master"] \in Seq(Message)
      BY <1>11, EndsAre DEF Commands
    <3>2. \A i \in DOMAIN net'["master"] : i \in Nat \ {0}
      BY <3>1
    <3> QED
      BY <3>1, <3>2, <1>11 DEF At, From
  <2> QED
    BY <2>1, <1>4
<1>16. Started'
  <2>1. ~Opens("master")'
    BY <1>5, <1>8, <1>14, OpenRequestIs DEF Opens, M
  <2>2. ~Opens("slave")' /\ Checks' = {}
    BY <1>4, <1>11 DEF Opens, S, Checks, At
  <2>3. ModeAcks' = {}
    <3>1. "MODE" \in Commands
      BY DEF Commands
    <3> QED
      BY <3>1, <1>4, <1>11 DEF ModeAcks, At, From
  <2> QED
    BY <2>1, <2>2, <2>3, <1>4, <1>11, <1>14, <1>15 DEF Started
<1>25. (Healthy' => Healthy) /\ (Early => Early')
  BY <1>5, <1>9, <1>11, MasterHistory DEF Same, SameTask
<1>17. StageOK'
  BY <1>16, StartedStage DEF Started, StageOK
<1>18. /\ From(net["master"], net'["master"], 1, {"FINISH"})
       /\ To(net["master"], net'["master"], 1, {"FINISH"})
       /\ From(net["master"], net'["master"], 1, Commands \ {"MODE", "BEGIN", "FINISH", "CHANNEL_CLOSE"})
  <2>1. {"FINISH"} \subseteq Commands
        /\ Commands \ {"MODE", "BEGIN", "FINISH", "CHANNEL_CLOSE"} \subseteq Commands
    BY DEF Commands
  <2>2. /\ From(net["master"], net'["master"], 1, {"FINISH"})
        /\ To(net["master"], net'["master"], 1, {"FINISH"})
    BY <2>1, <1>11, LessFrom
  <2>3. From(net["master"], net'["master"], 1, Commands \ {"MODE", "BEGIN", "FINISH", "CHANNEL_CLOSE"})
    BY <2>1, <1>11, LessFrom
  <2> QED
    BY <2>2, <2>3
<1>19. \A C : From(net["slave"], net'["slave"], 0, C) /\ To(net["slave"], net'["slave"], 0, C)
  BY <1>2, <1>11, QueueSame
<1>20. CommandsOK'
  BY <1>2, <1>11, <1>18, <1>19, CommandsFrame
<1>21. ReadsOK'
  BY <1>2, <1>5, <1>8, <1>11, <1>14 DEF ReadsOK, Reads, Size
<1>22. PiecesOK' /\ DiskOK'
  <2>1. PiecesOK'
    BY <1>1, <1>2, <1>5, <1>11, <1>14, <1>19, PiecesFrame DEF Writes
  <2> QED
    BY <2>1, <1>1, <1>2, <1>11, <1>14, DiskFrame
<1>23. FinishOK'
  <2>1. (Complete => Complete') /\ S'.stop = S.stop /\ S'.failed = S.failed
        /\ S'.ioFinish = S.ioFinish /\ S'.closeNotify = S.closeNotify /\ S'.said = S.said
    BY <1>1, <1>11 DEF Complete, Size
  <2> QED
    BY <2>1, <1>2, <1>3, <1>5, <1>11, <1>14, <1>18, <1>19, <1>25, NoFinishSent
<1>24. Healthy' => HealthyOK'
  <2> SUFFICES ASSUME Healthy, Healthy'
               PROVE  HealthyOK'
    BY <1>25
  <2>1. HealthyOK /\ IsOpen(S) /\ IsOpen(M)
    BY <1>2, <1>3 DEF HealthyOK
  <2>2. HealthyEnd(M')
    BY <2>1, <1>1, <1>5, <1>12, <1>13 DEF HealthyOK, IsOpen
  <2>3. At("slave", "DATA")' = At("slave", "DATA") /\ At("slave", "FINISH")' = At("slave", "FINISH")
    BY <1>11 DEF At
  <2>4. At("master", "FINISH")' # {} => At("master", "FINISH") # {}
    BY <1>18 DEF At, From
  <2> QED
    BY <2>1, <2>2, <2>3, <2>4, <1>5, <1>11, <1>16, MasterHealthy
<1> QED
  BY <1>1, <1>2, <1>11, <1>13, <1>17, <1>20, <1>21, <1>22, <1>23, <1>24, TypeFacts, InvFrom

-----------------------------------------------------------------------------
(* The file is closed *)

\* OnFileClose, at the end x.
FileClosed(x, r) ==
    LET c == [Took(x, r) EXCEPT !.openFds = x.openFds \ {r.fd}, !.closeReqSubmitted = FALSE]
    IN  Return(IF c.closeNotify THEN Send(c, Msg("FINISH", 1)) ELSE c)

LEMMA FileCloseIs ==
    ASSUME NEW x \in EndX, x.out = <<>>, job.kind = "file", NEW r, NEW y, y = FileClosed(x, r)
    PROVE  /\ y \in EndX /\ SameTask(x, y) /\ SameSaid(x, y) /\ y.fd = x.fd
           /\ y.openFds = x.openFds \ {r.fd} /\ ~y.closeReqSubmitted
           /\ y.isFdOpen = x.isFdOpen /\ y.ioFinish = x.ioFinish
           /\ y.closeNotify = x.closeNotify /\ y.failed = x.failed
           /\ y.pending = x.pending \ {r} /\ y.refCount = x.refCount - 1 /\ y.bufs = x.bufs
           /\ y.out = IF x.closeNotify /\ ~x.stop THEN <<Msg("FINISH", 1)>> ELSE <<>>
<1> DEFINE t == Took(x, r)
           c == [t EXCEPT !.openFds = x.openFds \ {r.fd}, !.closeReqSubmitted = FALSE]
           w == IF c.closeNotify THEN Send(c, Msg("FINISH", 1)) ELSE c
<1>1. /\ t \in EndX /\ t.out = x.out
      /\ SameTask(x, t) /\ SameFlags(x, t) /\ SameFds(x, t) /\ SameSaid(x, t)
      /\ t.pending = x.pending \ {r} /\ t.refCount = x.refCount /\ t.bufs = x.bufs
  BY TookIs
<1>2. x.openFds \ {r.fd} \in FdSets /\ x.stop \in BOOLEAN /\ x.closeNotify \in BOOLEAN
  BY EndTypes DEF FdSets
<1> HIDE DEF t
<1>3. /\ c \in EndX /\ c.out = <<>> /\ c.openFds = x.openFds \ {r.fd} /\ ~c.closeReqSubmitted
      /\ SameTask(t, c) /\ SameSaid(t, c) /\ SamePool(t, c) /\ c.fd = t.fd
      /\ c.isFdOpen = t.isFdOpen /\ c.ioFinish = t.ioFinish
      /\ c.closeNotify = t.closeNotify /\ c.failed = t.failed
  BY <1>1, <1>2 DEF EndX, SameTask, SameSaid, SamePool
<1>4. y = [w EXCEPT !.refCount = w.refCount - 1]
  BY DEF FileClosed, Return, t
<1> HIDE DEF c
<1>5. /\ w \in EndX /\ Same(c, w)
      /\ w.out = IF c.closeNotify /\ ~c.stop THEN <<Msg("FINISH", 1)>> ELSE <<>>
  <2>1. CASE c.closeNotify
    <3>1. Msg("FINISH", 1) \in Message
      BY FinishMessage, SmallNumbers
    <3>2. w = Send(c, Msg("FINISH", 1))
      BY <2>1
    <3> QED
      BY <2>1, <3>1, <3>2, <1>3, SendIs
  <2>2. CASE ~c.closeNotify
    BY <2>2, <1>3 DEF Same, SameTask, SameFlags, SamePool, SameFds, SameSaid
  <2> QED
    BY <2>1, <2>2
<1> HIDE DEF w
<1>6. w.refCount - 1 \in Int
  BY <1>5, EndTypes
<1>7. /\ y \in EndX /\ SameTask(w, y) /\ SameSaid(w, y) /\ SameFds(w, y) /\ SameFlags(w, y)
      /\ y.pending = w.pending /\ y.refCount = w.refCount - 1 /\ y.bufs = w.bufs /\ y.out = w.out
  BY <1>4, <1>5, <1>6 DEF EndX, SameTask, SameSaid, SameFds, SameFlags
<1>8. SameTask(x, y) /\ SameSaid(x, y) /\ y.fd = x.fd
  BY <1>1, <1>3, <1>5, <1>7 DEF Same, SameTask, SameFlags, SamePool, SameFds, SameSaid
<1>9. /\ y.openFds = x.openFds \ {r.fd} /\ ~y.closeReqSubmitted
      /\ y.isFdOpen = x.isFdOpen /\ y.ioFinish = x.ioFinish
      /\ y.closeNotify = x.closeNotify /\ y.failed = x.failed
  BY <1>1, <1>3, <1>5, <1>7 DEF Same, SameFlags, SameFds
<1>10. y.pending = x.pending \ {r} /\ y.refCount = x.refCount - 1 /\ y.bufs = x.bufs
  BY <1>1, <1>3, <1>5, <1>7 DEF Same, SamePool
<1>11. y.out = IF x.closeNotify /\ ~x.stop THEN <<Msg("FINISH", 1)>> ELSE <<>>
  <2>1. c.closeNotify = x.closeNotify /\ c.stop = x.stop /\ y.out = w.out
    BY <1>1, <1>3, <1>7 DEF SameFlags, SameTask
  <2> QED
    BY <2>1, <1>5
<1> QED
  BY <1>7, <1>8, <1>9, <1>10, <1>11

LEMMA ClosedEnd ==
    ASSUME NEW x \in EndX, EndOK(x), NEW r \in x.pending, r.op = "close", NEW y,
           SameTask(x, y), y.openFds = x.openFds \ {r.fd}, ~y.closeReqSubmitted,
           y.isFdOpen = x.isFdOpen, y.ioFinish = x.ioFinish,
           y.closeNotify = x.closeNotify, y.failed = x.failed,
           y.pending = x.pending \ {r}, y.refCount = x.refCount - 1, y.bufs = x.bufs
    PROVE  /\ EndOK(y) /\ (HealthyEnd(x) => HealthyEnd(y))
           /\ x.closeReqSubmitted /\ ~x.isFdOpen /\ x.ioFinish /\ x.cur # 0
           /\ OpenRequest \notin x.pending
<1>1. /\ PoolOK(x) /\ FdsOK(x) /\ x.closeReqSubmitted /\ ~x.isDir /\ x.dirMode = 0
      /\ \A s \in x.pending : s.op = "close" => s = r
  BY DEF EndOK, PoolOK, RequestsOK
<1>2. ~x.isFdOpen /\ x.ioFinish /\ ~x.released
  BY <1>1 DEF FdsOK
<1>3. OpenRequest \notin x.pending /\ x.cur = 1
  BY <1>2 DEF EndOK, Unopened
<1>4. PoolOK(y)
  BY <1>1, PoolPlainDone DEF Plain
<1>5. y.openFds = {}
  BY <1>1, <1>2 DEF FdsOK
<1>6. FdsOK(y)
  BY <1>1, <1>2, <1>5 DEF FdsOK, SameTask
<1>7. EndOK(y)
  BY <1>1, <1>3, <1>4, <1>6, EndFrom, OpenRequestIs DEF SameTask
<1>8. HealthyEnd(x) => HealthyEnd(y)
  BY <1>1, <1>2 DEF HealthyEnd
<1> QED
  BY <1>1, <1>2, <1>3, <1>7, <1>8

\* Nobody is told when the file is closed.
LEMMA SilentCloseKeeps ==
    ASSUME FileInv, job.kind = "file", NEW e \in Ends, NEW r \in end[e].pending,
           OnFileClose(e, r), ~end[e].closeNotify \/ end[e].stop
    PROVE  FileInv'
<1> DEFINE x == end[e]
           y == FileClosed(x, r)
<1>1. TypeOK /\ EndOK(x) /\ x \in EndX /\ x.out = <<>> /\ net \in [Ends -> Seq(Message)]
  BY TypeFacts DEF FileInv
<1>2. Step(e, y, net) /\ UNCHANGED disk /\ r.op = "close"
  BY DEF OnFileClose, FileClosed, WhenTransferFinish
<1>3. /\ y \in EndX /\ SameTask(x, y) /\ SameSaid(x, y) /\ y.fd = x.fd
      /\ y.openFds = x.openFds \ {r.fd} /\ ~y.closeReqSubmitted
      /\ y.isFdOpen = x.isFdOpen /\ y.ioFinish = x.ioFinish
      /\ y.closeNotify = x.closeNotify /\ y.failed = x.failed
      /\ y.pending = x.pending \ {r} /\ y.refCount = x.refCount - 1 /\ y.bufs = x.bufs
      /\ y.out = IF x.closeNotify /\ ~x.stop THEN <<Msg("FINISH", 1)>> ELSE <<>>
  BY <1>1, FileCloseIs
<1> HIDE DEF y
<1>4. /\ EndOK(y) /\ (HealthyEnd(x) => HealthyEnd(y)) /\ ~x.isFdOpen
  BY <1>1, <1>2, <1>3, ClosedEnd
<1>5. y.out = <<>>
  BY <1>3
<1>6. /\ job' = job /\ end' \in [Ends -> EndX] /\ end'[Other(e)] = end[Other(e)]
      /\ end'[e].out = <<>> /\ Same(y, end'[e]) /\ net' \in [Ends -> Seq(Message)]
      /\ Quieter(e, 0) /\ Quieter(Other(e), 0)
  BY <1>1, <1>2, <1>3, <1>5, QuietStep
<1> DEFINE n == end'[e]
<1> HIDE DEF n
<1>7. EndOK(n) /\ (HealthyEnd(x) => HealthyEnd(n))
  BY <1>4, <1>6, SameEnd DEF n
<1>8. Still(x, n)
  BY <1>3, <1>4, <1>6 DEF n, Still, Same, SameTask, SameFlags, SamePool, SameSaid
<1> QED
  BY <1>2, <1>6, <1>7, <1>8, QuietAt DEF n

-----------------------------------------------------------------------------
(* What the slave may do to the copy *)

\* What the slave asks is answered.
AnswersKept ==
    /\ \A i \in Finishes("master", 1)' : i \in Finishes("master", 1) \/ AskOK(i)'
    /\ \A i \in Finishes("master", 0)' :
           \/ i \in Finishes("master", 0) /\ net'["master"][i].n = net["master"][i].n
           \/ net'["master"][i].n = 0 /\ M'.failed

LEMMA NoAskSent ==
    ASSUME From(net["master"], net'["master"], 0, {"FINISH"}),
           net \in [Ends -> Seq(Message)], net' \in [Ends -> Seq(Message)]
    PROVE  AnswersKept
<1>1. \A p \in {0, 1} : \A i \in Finishes("master", p)' :
          i + 0 \in Finishes("master", p) /\ net'["master"][i].n = net["master"][i + 0].n
  BY FinishesKept, EndsAre
<1>2. \A i \in DOMAIN net'["master"] : i \in Nat
  BY DEF Ends
<1>3. \A p \in {0, 1} : \A i \in Finishes("master", p)' : i + 0 = i
  BY <1>2 DEF Finishes, At
<1> QED
  BY <1>1, <1>3 DEF AnswersKept

LEMMA AskSent ==
    ASSUME NEW m \in Message, Appends(net["master"], net'["master"], m),
           net \in [Ends -> Seq(Message)], m.cmd = "FINISH", m.n % 2 = 1,
           Resolved' \/ Over' \/ Finishes("master", 0) # {}
    PROVE  AnswersKept
<1> DEFINE last == Len(net["master"]) + 1
<1>1. /\ DOMAIN net["master"] = 1..Len(net["master"]) /\ Len(net["master"]) \in Nat
      /\ DOMAIN net'["master"] = 1..last
      /\ \A i \in DOMAIN net["master"] : net'["master"][i] = net["master"][i]
      /\ net'["master"][last] = m
  BY DEF Appends
<1>2. /\ \A i \in DOMAIN net'["master"] : i \in DOMAIN net["master"] \/ i = last
      /\ \A i \in DOMAIN net["master"] : i \in DOMAIN net'["master"] /\ i < last
  BY <1>1
<1> HIDE DEF last
<1>3. \A i \in Finishes("master", 0)' :
          i \in Finishes("master", 0) /\ net'["master"][i].n = net["master"][i].n
  BY <1>1, <1>2 DEF Finishes, At
<1>4. \A i \in Finishes("master", 1)' : i \in Finishes("master", 1) \/ i = last
  BY <1>1, <1>2 DEF Finishes, At
<1>5. \A j \in Finishes("master", 0) : j \in Finishes("master", 0)' /\ j < last
  BY <1>1, <1>2 DEF Finishes, At
<1>6. \A i : i = last => AskOK(i)'
  BY <1>5 DEF AskOK
<1> QED
  BY <1>3, <1>4, <1>6 DEF AnswersKept

LEMMA SlaveHealthy ==
    ASSUME HealthyOK, Started', M' = M, HealthyEnd(S'), IsOpen(S) => IsOpen(S'),
           At("slave", "DATA")' # {} => At("slave", "DATA") # {},
           S'.ioFinish => S.ioFinish \/ (M.ioFinish /\ At("slave", "DATA")' = {}),
           At("slave", "FINISH")' # {} \/ At("master", "FINISH")' # {} => S'.ioFinish
    PROVE  HealthyOK'
BY DEF HealthyOK, Started, Reads

LEMMA SlaveInv ==
    ASSUME FileInv, job' = job, M' = M, NEW k \in {0, 1},
           end' \in [Ends -> EndX], \A e \in Ends : end'[e].out = <<>>,
           net' \in [Ends -> Seq(Message)], disk' \in [Files -> SUBSET (0..(MaxBlocks - 1))],
           From(net["slave"], net'["slave"], k, Commands),
           To(net["slave"], net'["slave"], k, Commands),
           To(net["master"], net'["master"], 0, Commands),
           k = 1 => net["slave"][1].cmd # "CHANNEL_CLOSE",
           EndOK(S'), StageOK', CommandsOK', PiecesOK', DiskOK', AnswersKept,
           \A r \in S'.pending : r.op # "read",
           S.stop => S'.stop, S.failed => S'.failed, Complete => Complete', Early => Early',
           (S'.ioFinish => S.ioFinish) \/ SlaveDoneOK',
           (S'.closeNotify => S.closeNotify) \/ Resolved',
           S'.said = "OK" => S.said = "OK" \/ Complete' \/ Early',
           Healthy' => HealthyOK'
    PROVE  FileInv'
<1>1. /\ TypeOK /\ EndOK(M) /\ ReadsOK /\ FinishOK /\ net \in [Ends -> Seq(Message)]
      /\ \A i \in DOMAIN net["slave"] : i \in Nat
      /\ \A i \in DOMAIN net["master"] : i \in Nat
  BY FileInvParts, TypeFacts, PieceTypes DEF Shared
<1>2. {"FINISH"} \subseteq Commands /\ {"CHANNEL_CLOSE"} \subseteq Commands /\ {"DATA"} \subseteq Commands
  BY DEF Commands
<1>3. /\ From(net["slave"], net'["slave"], k, {"FINISH"})
      /\ From(net["slave"], net'["slave"], k, {"DATA"})
  BY <1>2, LessFrom
<1>4. /\ To(net["slave"], net'["slave"], k, {"CHANNEL_CLOSE"})
      /\ To(net["master"], net'["master"], 0, {"FINISH"})
  BY <1>2, LessFrom
<1>5. ReadsOK'
  BY <1>1 DEF ReadsOK, Reads, Size
<1>6. FinishOK'
  <2>1. \A p \in {0, 1} : \A i \in Finishes("slave", p)' :
            i + k \in Finishes("slave", p) /\ net'["slave"][i].n = net["slave"][i + k].n
    BY <1>3, FinishesKept, EndsAre
  <2>2. \A i \in At("slave", "DATA")' : i + k \in At("slave", "DATA")
    BY <1>3 DEF At, From
  <2>3. \A i \in DOMAIN net["master"] : i + 0 = i
    BY <1>1
  <2>4. /\ \A i \in Finishes("master", 1)' : i + 0 \in Finishes("master", 1) \/ AskOK(i)'
        /\ \A i \in Finishes("master", 0)' :
               \/ i + 0 \in Finishes("master", 0) /\ net'["master"][i].n = net["master"][i + 0].n
               \/ net'["master"][i].n = 0 /\ M'.failed
    BY <2>3 DEF AnswersKept, Finishes, At
  <2>5. IF M.failed
        THEN /\ \A i \in Finishes("slave", 1)' :
                    /\ i + k \in Finishes("slave", 1)
                    /\ net'["slave"][i].n = net["slave"][i + k].n
             /\ \A i \in At("slave", "DATA")' : i + k \in At("slave", "DATA")
        ELSE MasterAsksOK'
    <3>1. ~M.failed => Finishes("slave", 1) = {}
      BY <1>1 DEF FinishOK, MasterAsksOK
    <3>2. ~M.failed => Finishes("slave", 1)' = {}
      BY <3>1, <2>1
    <3> QED
      BY <2>1, <2>2, <3>2 DEF MasterAsksOK
  <2>6. M.said = "OK" => Complete \/ Early
    BY <1>1 DEF FinishOK
  <2> QED
    BY <2>1, <2>4, <2>5, <2>6, <1>1, <1>4, FinishFrame
<1> QED
  BY <1>1, <1>5, <1>6, InvFrom

\* What the slave sends is nothing or a FINISH.
LEMMA SlaveTold ==
    ASSUME FileInv, Started, NEW y \in EndX, NEW k \in {0, 1},
           NEW rest \in [Ends -> Seq(Message)], rest["master"] = net["master"],
           ReadsFrom("slave", k, rest["slave"]), Step("slave", y, rest),
           disk' \in [Files -> SUBSET (0..(MaxBlocks - 1))],
           k = 1 => net["slave"] # <<>> /\ net["slave"][1].cmd # "CHANNEL_CLOSE",
           EndOK(y), y.begun = S.begun, y.cur = S.cur, OpenRequest \notin y.pending,
           \A r \in y.pending : r.op # "read",
           PiecesOK', DiskOK', Complete => Complete',
           y.said = S.said, S.stop => y.stop, S.failed => y.failed,
           S.early => y.early, S.broken => y.broken,
           y.out # <<>> => \E m \in Message :
               /\ m.cmd = "FINISH" /\ m.n % 2 = 1 /\ y.out = <<m>>
               /\ y.failed \/ Complete' \/ M.stop \/ S.stop
                  \/ (\E j \in At("slave", "CHANNEL_CLOSE") : j > k)
                  \/ Finishes("master", 0) # {} \/ M.early \/ y.early,
           (y.ioFinish => S.ioFinish) \/ y.failed \/ Complete' \/ M.early \/ y.early,
           (y.closeNotify => S.closeNotify) \/ y.failed \/ Complete' \/ M.early \/ y.early,
           Healthy /\ ~y.failed /\ ~y.early =>
               /\ HealthyEnd(S) => HealthyEnd(y)
               /\ S.isFdOpen \/ S.ioFinish => y.isFdOpen \/ y.ioFinish
               /\ y.ioFinish => S.ioFinish \/ (M.ioFinish /\ At("slave", "DATA") = {})
               /\ S.ioFinish => y.ioFinish
               /\ y.out # <<>> => y.ioFinish
    PROVE  FileInv'
<1>1. /\ TypeOK /\ EndOK(S) /\ CommandsOK /\ StageOK /\ ReadsOK /\ PiecesOK
      /\ DiskOK /\ FinishOK /\ (Healthy => HealthyOK)
      /\ net \in [Ends -> Seq(Message)] /\ net["master"] \in Seq(Message)
      /\ net["slave"] \in Seq(Message) /\ S \in EndX
  BY FileInvParts, TypeFacts, EndsAre DEF Shared
<1>2. Sends(y, {"FINISH"}) /\ Sends(y, Answers)
  BY DEF Sends, Answers
<1>3. /\ job' = job /\ M' = M /\ S' \in EndX /\ Same(y, S')
      /\ end' \in [Ends -> EndX] /\ \A e \in Ends : end'[e].out = <<>>
      /\ net' \in [Ends -> Seq(Message)]
      /\ From(net["slave"], net'["slave"], k, Commands)
      /\ To(net["slave"], net'["slave"], k, Commands)
      /\ From(net["master"], net'["master"], 0, Commands \ Answers)
      /\ To(net["master"], net'["master"], 0, Commands)
      /\ y.out = <<>> => net'["master"] = net["master"]
      /\ \A m \in Message : y.out = <<m>> => Appends(net["master"], net'["master"], m)
      /\ Started' /\ StageOK' /\ CommandsOK'
  BY <1>1, <1>2, SlaveMoves
<1>4. EndOK(S') /\ (HealthyEnd(y) => HealthyEnd(S'))
  BY <1>3, SameEnd
<1>5. /\ S'.pending = y.pending /\ S'.failed = y.failed
      /\ S'.said = S.said /\ S'.stop = y.stop /\ S'.ioFinish = y.ioFinish
      /\ S'.closeNotify = y.closeNotify /\ S'.isFdOpen = y.isFdOpen
      /\ (y.early => S'.early) /\ (S.early => S'.early) /\ (S.broken => S'.broken)
  BY <1>3 DEF Same, SameTask, SameFlags, SamePool, SameSaid
<1>8. (Healthy' => Healthy) /\ (Early => Early') /\ (M.early \/ y.early => Early')
      /\ (Healthy' => ~y.failed /\ ~y.early)
  <2>1. (Healthy' => Healthy) /\ (Early => Early')
    BY <1>3, <1>5, SlaveHistory
  <2>2. Healthy' => ~S'.failed /\ ~S'.early
    BY DEF Healthy, Ends, S
  <2> QED
    BY <2>1, <2>2, <1>3, <1>5, EarlyIs
<1>6. From(net["slave"], net'["slave"], k, {"DATA"}) /\ From(net["slave"], net'["slave"], k, {"FINISH"})
  <2>1. {"DATA"} \subseteq Commands /\ {"FINISH"} \subseteq Commands
    BY DEF Commands
  <2> QED
    BY <2>1, <1>3, LessFrom
<1>7. y.failed \/ Complete' \/ M.early \/ y.early => Resolved'
  BY <1>5, <1>8 DEF Resolved
<1>9. AnswersKept
  <2>1. CASE y.out = <<>>
    <3>1. From(net["master"], net'["master"], 0, {"FINISH"})
      BY <2>1, <1>1, <1>3, QueueSame
    <3> QED
      BY <3>1, <1>1, <1>3, NoAskSent
  <2>2. CASE y.out # <<>>
    <3>1. PICK m \in Message :
               /\ m.cmd = "FINISH" /\ m.n % 2 = 1 /\ y.out = <<m>>
               /\ y.failed \/ Complete' \/ M.stop \/ S.stop
                  \/ (\E j \in At("slave", "CHANNEL_CLOSE") : j > k)
                  \/ Finishes("master", 0) # {} \/ M.early \/ y.early
      BY <2>2
    <3>2. Resolved' \/ Over' \/ Finishes("master", 0) # {}
      <4>1. ASSUME NEW j \in At("slave", "CHANNEL_CLOSE"), j > k
            PROVE  Over'
        <5>1. "CHANNEL_CLOSE" \in Commands
          BY DEF Commands
        <5>2. j - k \in At("slave", "CHANNEL_CLOSE")'
          BY <4>1, <5>1, <1>3 DEF At, To
        <5> QED
          BY <5>2 DEF Over
      <4>2. M.stop \/ S.stop => Over'
        BY <1>3, <1>5 DEF Over
      <4> QED
        BY <3>1, <4>1, <4>2, <1>7
    <3> QED
      BY <3>1, <3>2, <1>1, <1>3, AskSent
  <2> QED
    BY <2>1, <2>2
<1>10. \A r \in S'.pending : r.op # "read"
  BY <1>5
<1>11. /\ (S'.ioFinish => S.ioFinish) \/ SlaveDoneOK'
       /\ (S'.closeNotify => S.closeNotify) \/ Resolved'
  BY <1>5, <1>7 DEF SlaveDoneOK
<1>12. Healthy' => HealthyOK'
  <2> SUFFICES ASSUME Healthy, Healthy', ~y.failed, ~y.early
               PROVE  HealthyOK'
    BY <1>8
  <2>1. HealthyOK /\ HealthyEnd(S')
    BY <1>1, <1>4 DEF HealthyOK
  <2>2. IsOpen(S) => IsOpen(S')
    BY <1>5 DEF IsOpen
  <2>3. At("slave", "DATA")' # {} => At("slave", "DATA") # {}
    BY <1>6 DEF At, From
  <2>4. At("slave", "FINISH")' # {} => At("slave", "FINISH") # {}
    BY <1>6 DEF At, From
  <2>5. At("master", "FINISH")' # {} => At("master", "FINISH") # {} \/ y.out # <<>>
    BY <1>3 DEF At
  <2>6. At("slave", "FINISH")' # {} \/ At("master", "FINISH")' # {} => S'.ioFinish
    BY <2>1, <2>4, <2>5, <1>5 DEF HealthyOK
  <2> QED
    BY <2>1, <2>2, <2>3, <2>6, <1>3, <1>5, SlaveHealthy
<1>14. S'.said = "OK" => S.said = "OK" \/ Complete' \/ Early'
  BY <1>5
<1>15. (S.stop => S'.stop) /\ (S.failed => S'.failed) /\ (Early => Early')
  BY <1>5, <1>8
<1> QED
  BY <1>3, <1>4, <1>9, <1>10, <1>11, <1>12, <1>14, <1>15, SlaveInv

\* The same when the copy and the data that came are left alone.
LEMMA SlaveSends ==
    ASSUME FileInv, Started, NEW y \in EndX, NEW k \in {0, 1},
           NEW rest \in [Ends -> Seq(Message)], rest["master"] = net["master"],
           ReadsFrom("slave", k, rest["slave"]), Step("slave", y, rest), UNCHANGED disk,
           k = 1 => net["slave"] # <<>> /\ net["slave"][1].cmd # "CHANNEL_CLOSE",
           EndOK(y), y.begun = S.begun, y.cur = S.cur, OpenRequest \notin y.pending,
           \A r \in y.pending : r \in S.pending \/ r.op = "close",
           y.indexIO = S.indexIO, y.said = S.said,
           S.stop => y.stop, S.failed => y.failed, S.early => y.early, S.broken => y.broken,
           y.out # <<>> => \E m \in Message :
               /\ m.cmd = "FINISH" /\ m.n % 2 = 1 /\ y.out = <<m>>
               /\ y.failed \/ Complete \/ M.stop \/ S.stop
                  \/ (\E j \in At("slave", "CHANNEL_CLOSE") : j > k)
                  \/ Finishes("master", 0) # {} \/ M.early \/ y.early,
           (y.ioFinish => S.ioFinish) \/ y.failed \/ Complete \/ M.early \/ y.early,
           (y.closeNotify => S.closeNotify) \/ y.failed \/ Complete \/ M.early \/ y.early,
           Healthy /\ ~y.failed /\ ~y.early =>
               /\ HealthyEnd(S) => HealthyEnd(y)
               /\ S.isFdOpen \/ S.ioFinish => y.isFdOpen \/ y.ioFinish
               /\ y.ioFinish => S.ioFinish
               /\ S.ioFinish => y.ioFinish
               /\ y.out # <<>> => y.ioFinish
    PROVE  FileInv'
<1>1. /\ TypeOK /\ CommandsOK /\ ReadsOK /\ PiecesOK /\ DiskOK
      /\ disk \in [Files -> SUBSET (0..(MaxBlocks - 1))]
  BY FileInvParts, TypeFacts DEF Shared
<1>2. Sends(y, Answers)
  BY DEF Sends, Answers
<1>3. /\ job' = job /\ M' = M /\ Same(y, S') /\ net' \in [Ends -> Seq(Message)]
      /\ From(net["slave"], net'["slave"], k, Commands)
  BY <1>1, <1>2, SlaveMoves
<1>4. S'.pending = y.pending /\ S'.indexIO = S.indexIO
  BY <1>3 DEF Same, SamePool, SameSaid
<1>5. From(net["slave"], net'["slave"], k, {"DATA"})
  <2>1. {"DATA"} \subseteq Commands
    BY DEF Commands
  <2> QED
    BY <2>1, <1>3, LessFrom
<1>6. PiecesOK' /\ DiskOK'
  <2>1. Writes' \subseteq Writes /\ disk'[1] = disk[1] /\ M'.indexIO = M.indexIO
        /\ (M.ioFinish => M'.ioFinish) /\ S'.indexIO = S.indexIO
    BY <1>3, <1>4 DEF Writes
  <2>2. PiecesOK'
    BY <2>1, <1>1, <1>3, <1>5, PiecesFrame
  <2> QED
    BY <2>1, <2>2, <1>1, DiskFrame
<1>7. Complete' <=> Complete
  BY <1>3 DEF Complete, Size
<1>8. \A r \in y.pending : r.op # "read"
  BY <1>1 DEF ReadsOK
<1>9. disk' \in [Files -> SUBSET (0..(MaxBlocks - 1))]
  BY <1>1
<1> QED
  BY <1>6, <1>7, <1>8, <1>9, SlaveTold

LEMMA OnFileCloseKeeps ==
    ASSUME FileInv, job.kind = "file", NEW e \in Ends, NEW r \in end[e].pending,
           OnFileClose(e, r)
    PROVE  FileInv'
<1>1. EndOK(M) /\ EndOK(S) /\ ReadsOK /\ FinishOK /\ StageOK /\ TypeOK /\ S \in EndX
      /\ S.out = <<>> /\ r.op = "close"
  BY FileInvParts, TypeFacts DEF Shared, OnFileClose
<1>2. CASE e = "master"
  <2>1. M.closeReqSubmitted
    BY <1>1, <1>2 DEF EndOK, RequestsOK, M
  <2>2. ~M.closeNotify
    BY <2>1, <1>1 DEF ReadsOK
  <2> QED
    BY <2>2, <1>2, SilentCloseKeeps DEF M
<1>3. CASE e = "slave" /\ S.closeNotify /\ ~S.stop
  <2> DEFINE y == FileClosed(S, r)
  <2>1. Step("slave", y, net) /\ UNCHANGED disk /\ r \in S.pending
    BY <1>3 DEF OnFileClose, FileClosed, WhenTransferFinish, S
  <2>2. /\ y \in EndX /\ SameTask(S, y) /\ SameSaid(S, y) /\ y.fd = S.fd
        /\ y.openFds = S.openFds \ {r.fd} /\ ~y.closeReqSubmitted
        /\ y.isFdOpen = S.isFdOpen /\ y.ioFinish = S.ioFinish
        /\ y.closeNotify = S.closeNotify /\ y.failed = S.failed
        /\ y.pending = S.pending \ {r} /\ y.refCount = S.refCount - 1 /\ y.bufs = S.bufs
        /\ y.out = IF S.closeNotify /\ ~S.stop THEN <<Msg("FINISH", 1)>> ELSE <<>>
    BY <1>1, FileCloseIs
  <2> HIDE DEF y
  <2>3. /\ EndOK(y) /\ (HealthyEnd(S) => HealthyEnd(y))
        /\ S.ioFinish /\ OpenRequest \notin S.pending
    BY <1>1, <2>1, <2>2, ClosedEnd
  <2>4. Started
    BY <1>1, <2>3, NotQuietStarted DEF Quiet
  <2>5. Msg("FINISH", 1) \in Message /\ Msg("FINISH", 1).cmd = "FINISH" /\ Msg("FINISH", 1).n = 1
    BY FinishMessage, SmallNumbers
  <2>6. y.failed \/ Complete \/ M.early \/ y.early
    BY <1>1, <1>3, <2>2, EarlyIs DEF FinishOK, Resolved, SameTask
  <2>7. \E m \in Message : m.cmd = "FINISH" /\ m.n % 2 = 1 /\ y.out = <<m>>
    BY <1>3, <2>2, <2>5
  <2>8. /\ ReadsFrom("slave", 0, net["slave"]) /\ net \in [Ends -> Seq(Message)]
        /\ y.begun = S.begun /\ y.cur = S.cur /\ y.stop = S.stop
        /\ y.indexIO = S.indexIO /\ y.said = S.said
        /\ OpenRequest \notin y.pending /\ \A p \in y.pending : p \in S.pending
    BY <1>1, <2>2, <2>3, TypeFacts DEF ReadsFrom, SameTask, SameSaid
  <2>9. \E m \in Message :
               /\ m.cmd = "FINISH" /\ m.n % 2 = 1 /\ y.out = <<m>>
               /\ y.failed \/ Complete \/ M.stop \/ S.stop
                  \/ (\E j \in At("slave", "CHANNEL_CLOSE") : j > 0)
                  \/ Finishes("master", 0) # {} \/ M.early \/ y.early
    BY <2>6, <2>7
  <2>10. /\ (S.stop => y.stop) /\ (S.failed => y.failed) /\ y.ioFinish
         /\ (S.early => y.early) /\ (S.broken => y.broken)
    BY <2>2, <2>3, <2>8 DEF SameTask
  <2> QED
    BY <2>1, <2>2, <2>3, <2>4, <2>6, <2>8, <2>9, <2>10, SlaveSends
<1>4. CASE e = "slave" /\ (~S.closeNotify \/ S.stop)
  BY <1>4, SilentCloseKeeps DEF S
<1> QED
  BY <1>2, <1>3, <1>4 DEF Ends

-----------------------------------------------------------------------------
(* The slave writes *)

\* What an end closes at once is no longer open, and the file is finished.
LEMMA ClosedNowEnd ==
    ASSUME NEW x, EndOK(x), x.cur # 0, OpenRequest \notin x.pending, NEW y,
           SameTask(x, y), SamePool(x, y), y.openFds \subseteq x.openFds,
           x.isFdOpen => x.fd \notin y.openFds, ~y.isFdOpen, y.ioFinish,
           y.closeNotify = x.closeNotify, y.closeReqSubmitted = x.closeReqSubmitted,
           y.failed = x.failed
    PROVE  /\ EndOK(y)
           /\ ~x.isFdOpen /\ y.openFds = x.openFds => (HealthyEnd(x) => HealthyEnd(y))
<1>1. PoolOK(x) /\ FdsOK(x) /\ x.cur = 1 /\ ~x.isDir /\ x.dirMode = 0
  BY DEF EndOK, PoolOK
<1>2. PoolOK(y)
  BY <1>1, PoolSame DEF SamePool
<1>3. FdsOK(y)
  BY <1>1 DEF FdsOK, SameTask, SamePool
<1>4. EndOK(y)
  BY <1>1, <1>2, <1>3, EndFrom DEF SameTask, SamePool
<1>5. ~x.isFdOpen /\ y.openFds = x.openFds => (HealthyEnd(x) => HealthyEnd(y))
  BY DEF HealthyEnd, SamePool
<1> QED
  BY <1>4, <1>5

\* What a command at the head of the slave's queue tells of the slave.
LEMMA DataHead ==
    ASSUME FileInv, net["slave"] # <<>>, Head(net["slave"]).cmd = "DATA"
    PROVE  /\ Started /\ 1 \in At("slave", "DATA")
           /\ net["slave"][1] = Head(net["slave"]) /\ Head(net["slave"]) \in Message
           /\ net["slave"][1].cmd = "DATA"
           /\ S \in EndX /\ S.out = <<>> /\ EndOK(S)
           /\ S.cur # 0 /\ OpenRequest \notin S.pending
           /\ Rest("slave") \in [Ends -> Seq(Message)] /\ Rest("slave")["master"] = net["master"]
           /\ ReadsFrom("slave", 1, Rest("slave")["slave"]) /\ 1 \in {0, 1}
           /\ S.ioFinish => Resolved
           /\ Healthy => ~S.ioFinish
<1>1. /\ TypeOK /\ EndOK(S) /\ StageOK /\ FinishOK /\ S \in EndX /\ S.out = <<>>
      /\ net \in [Ends -> Seq(Message)] /\ net["slave"] \in Seq(Message)
      /\ Healthy => HealthyOK
  BY FileInvParts, TypeFacts, EndsAre DEF Shared
<1>2. 1 \in At("slave", "DATA") /\ net["slave"][1] = Head(net["slave"]) /\ Head(net["slave"]) \in Message
  BY <1>1, TailOf DEF At
<1>3. Started
  BY <1>1, <1>2, NotQuietStarted DEF Quiet
<1>4. /\ Rest("slave") \in [Ends -> Seq(Message)] /\ Rest("slave")["master"] = net["master"]
      /\ ReadsFrom("slave", 1, Rest("slave")["slave"]) /\ 1 \in {0, 1}
  BY <1>1, RestIs, EndsAre DEF ReadsFrom
<1>5. S.cur # 0 /\ OpenRequest \notin S.pending
  BY <1>3 DEF Started, Opens, S
<1>6. S.ioFinish => Resolved
  BY <1>1, <1>2 DEF FinishOK, SlaveDoneOK
<1>7. Healthy => ~S.ioFinish
  BY <1>1, <1>2 DEF HealthyOK
<1> QED
  BY <1>1, <1>2, <1>3, <1>4, <1>5, <1>6, <1>7

\* Data for a file that is finished: the answer says that it is, odd as the data
\* begins with an even byte.
LEMMA FileDataLateKeeps ==
    ASSUME FileInv, job.kind = "file", FileDataLate
    PROVE  FileInv'
<1> DEFINE x == CloseNow(S)
           y == Finish(x, DataByte)
<1>1. /\ net["slave"] # <<>> /\ Head(net["slave"]).cmd = "DATA" /\ ~S.stop /\ S.ioFinish
      /\ Step("slave", y, Rest("slave")) /\ UNCHANGED disk
  BY DEF FileDataLate, Receives, S
<1>2. /\ Started /\ net["slave"][1].cmd = "DATA"
      /\ S \in EndX /\ S.out = <<>> /\ EndOK(S) /\ S.cur # 0 /\ OpenRequest \notin S.pending
      /\ Rest("slave") \in [Ends -> Seq(Message)] /\ Rest("slave")["master"] = net["master"]
      /\ ReadsFrom("slave", 1, Rest("slave")["slave"]) /\ 1 \in {0, 1}
      /\ Resolved /\ ~Healthy
  BY <1>1, DataHead
<1>3. /\ x \in EndX /\ x.out = <<>>
      /\ SameTask(S, x) /\ SamePool(S, x) /\ SameSaid(S, x) /\ x.fd = S.fd
      /\ x.openFds = S.openFds \ {S.fd} /\ ~x.isFdOpen /\ x.ioFinish = S.ioFinish
      /\ x.closeNotify = S.closeNotify /\ x.closeReqSubmitted = S.closeReqSubmitted
      /\ x.failed = S.failed
  BY <1>2, CloseNowIs
<1> HIDE DEF x
<1>4. DataByte \in 1..(MaxRead + DataByte + 1) /\ ~x.isDir
  BY <1>2, <1>3, BoundsAssumption DEF SameTask, EndOK
<1> HIDE DEF y
<1>5. /\ y \in EndX /\ SameTask(x, y) /\ SamePool(x, y) /\ SameSaid(x, y)
      /\ y.openFds = x.openFds /\ ~y.isFdOpen /\ y.ioFinish
      /\ y.closeNotify = x.closeNotify
      /\ y.closeReqSubmitted = x.closeReqSubmitted /\ y.failed = x.failed
      /\ y.out = IF x.stop THEN <<>> ELSE <<Msg("FINISH", DataByte - 1)>>
  <2>1. y = Finish(x, DataByte)
    BY DEF y
  <2>2. Answered(x, DataByte, y)
    BY <2>1, <1>3, <1>4, FinishAnswers
  <2> QED
    BY <2>2, <1>3 DEF Answered
<1>6. /\ SameTask(S, y) /\ SamePool(S, y) /\ SameSaid(S, y)
      /\ y.openFds = S.openFds \ {S.fd}
      /\ y.closeNotify = S.closeNotify
      /\ y.closeReqSubmitted = S.closeReqSubmitted /\ y.failed = S.failed
      /\ y.out = <<Msg("FINISH", DataByte - 1)>>
  BY <1>1, <1>3, <1>5 DEF SameTask, SamePool, SameSaid
<1>7. EndOK(y)
  BY <1>2, <1>5, <1>6, ClosedNowEnd
<1>8. DataByte - 1 \in 0..(MaxRead + DataByte + 1) /\ (DataByte - 1) % 2 = 1
  BY BoundsAssumption, DataByteAssumption
<1>9. \E m \in Message :
          /\ m.cmd = "FINISH" /\ m.n % 2 = 1 /\ y.out = <<m>>
          /\ y.failed \/ Complete \/ M.stop \/ S.stop
             \/ (\E j \in At("slave", "CHANNEL_CLOSE") : j > 1)
             \/ Finishes("master", 0) # {} \/ M.early \/ y.early
  <2>1. LET m == Msg("FINISH", DataByte - 1) IN m \in Message /\ m.cmd = "FINISH" /\ m.n % 2 = 1
    BY <1>8, FinishMessage
  <2>2. y.failed \/ Complete \/ M.early \/ y.early
    BY <1>2, <1>6, EarlyIs DEF Resolved, SameTask
  <2> QED
    BY <2>1, <2>2, <1>6
<1>10. /\ y.begun = S.begun /\ y.cur = S.cur /\ y.stop = S.stop
       /\ y.indexIO = S.indexIO /\ y.said = S.said
       /\ (S.early => y.early) /\ (S.broken => y.broken)
       /\ OpenRequest \notin y.pending /\ \A p \in y.pending : p \in S.pending
  BY <1>2, <1>6 DEF SameTask, SameSaid, SamePool
<1> QED
  BY <1>1, <1>2, <1>5, <1>6, <1>7, <1>9, <1>10, SlaveSends

\* A write that is done, at the end x before and y after it.
WriteEnded(x, r, y) ==
    /\ y \in EndX /\ EndOK(y) /\ SameTask(x, y) /\ y.said = x.said
    /\ OpenRequest \notin y.pending
    /\ \A p \in y.pending : p \in x.pending \ {r} \/ p.op = "close"
    /\ x.failed => y.failed
    /\ x.ioFinish => y.ioFinish
    /\ y.out # <<>> => \E m \in Message : m.cmd = "FINISH" /\ m.n % 2 = 1 /\ y.out = <<m>>

LEMMA WriteFacts ==
    ASSUME FileInv, NEW r \in Writes, NEW t, t = Took(S, r)
    PROVE  /\ Started /\ r \in S.pending /\ r.op \in IOOps /\ r.buf \in Bufs /\ r \in Request
           /\ TypeOK /\ S \in EndX /\ EndOK(S) /\ S.cur # 0 /\ S.cur = 1
           /\ OpenRequest \notin S.pending /\ ~S.released
           /\ \A p \in S.pending : p.op # "read"
           /\ t \in EndX /\ t.out = <<>>
           /\ SameTask(S, t) /\ SameFlags(S, t) /\ SameFds(S, t) /\ SameSaid(S, t)
           /\ t.pending = S.pending \ {r} /\ t.refCount = S.refCount /\ t.bufs = S.bufs
           /\ PieceOK(r) /\ net["slave"] \in Seq(Message) /\ net \in [Ends -> Seq(Message)]
           /\ Healthy => ~S.ioFinish /\ ~S.failed /\ S.isFdOpen
           /\ S.refCount \in Int
<1>1. /\ TypeOK /\ EndOK(S) /\ StageOK /\ ReadsOK /\ PiecesOK /\ S \in EndX /\ S.out = <<>>
      /\ net \in [Ends -> Seq(Message)] /\ net["slave"] \in Seq(Message)
      /\ Healthy => HealthyOK
  BY FileInvParts, TypeFacts, EndsAre DEF Shared
<1>2. r \in S.pending /\ r.op = "write" /\ PieceOK(r) /\ r.op \in IOOps
  BY <1>1 DEF Writes, PiecesOK, IOOps
<1>3. r.buf \in Bufs /\ r \in Request /\ S.refCount \in Int
  BY <1>1, <1>2, EndTypes DEF EndOK, RequestsOK
<1>4. Started
  BY <1>1, NotQuietStarted DEF Quiet
<1>5. S.cur # 0 /\ OpenRequest \notin S.pending /\ S.cur = 1
  BY <1>1, <1>4 DEF Started, Opens, S, EndOK
<1>6. ~S.released
  BY <1>1, <1>2 DEF EndOK, FdsOK
<1>7. /\ t \in EndX /\ t.out = <<>>
      /\ SameTask(S, t) /\ SameFlags(S, t) /\ SameFds(S, t) /\ SameSaid(S, t)
      /\ t.pending = S.pending \ {r} /\ t.refCount = S.refCount /\ t.bufs = S.bufs
  BY <1>1, TookIs
<1>8. Healthy => ~S.ioFinish /\ ~S.failed /\ S.isFdOpen
  BY <1>1, <1>2, HealthyIs DEF HealthyOK, HealthyEnd, EndOK, FdsOK
<1>9. \A p \in S.pending : p.op # "read"
  BY <1>1 DEF ReadsOK
<1> QED
  BY <1>1, <1>2, <1>3, <1>4, <1>5, <1>6, <1>7, <1>8, <1>9

\* The slave that has finished has all, or knows that it has not, or the task ends.
LEMMA SlaveMayAsk ==
    ASSUME FileInv, S.ioFinish
    PROVE  \/ S.failed \/ Complete \/ M.stop \/ S.stop
           \/ \E j \in At("slave", "CHANNEL_CLOSE") : j > 0
           \/ Finishes("master", 0) # {} \/ M.early \/ S.early
<1>1. SlaveDoneOK /\ TypeOK
  BY FileInvParts DEF Shared, FinishOK
<1>2. \A j \in At("slave", "CHANNEL_CLOSE") : j > 0
  BY <1>1, PieceTypes DEF At
<1> QED
  BY <1>1, <1>2, EarlyIs DEF SlaveDoneOK, Resolved, Over

\* The write ends at x, which has finished: its file is closed, or the other end told.
LEMMA LastWrite ==
    ASSUME FileInv, job.kind = "file", NEW r \in Writes, NEW x \in EndX, x.ioFinish,
           SameTask(S, x), SameFds(S, x), x.said = S.said, x.out = <<>>,
           x.pending = S.pending \ {r}, x.refCount = S.refCount, x.bufs = S.bufs,
           x.isFdOpen = S.isFdOpen, x.closeReqSubmitted = S.closeReqSubmitted,
           S.failed => x.failed, x.failed => ~S.closeReqSubmitted,
           NEW y, y = EndFileIO(CloseStep("slave", x), r)
    PROVE  /\ WriteEnded(S, r, y) /\ y.ioFinish /\ y.failed = x.failed
           /\ y.closeNotify = x.closeNotify /\ y.indexIO = x.indexIO
           /\ x.early => y.early
           /\ ~x.failed /\ ~S.closeReqSubmitted => y.out = <<>>
           /\ ~x.failed /\ ~S.failed /\ ~S.closeReqSubmitted
              /\ (\A s \in S.pending : s.op \in IOOps => s = r) =>
                  (HealthyEnd(S) => HealthyEnd(y))
<1>1. /\ r \in S.pending /\ r.op \in IOOps /\ r.buf \in Bufs
      /\ S \in EndX /\ EndOK(S) /\ S.cur # 0 /\ OpenRequest \notin S.pending
      /\ S.refCount \in Int
  BY WriteFacts
<1>2. x.failed \in BOOLEAN /\ S.failed \in BOOLEAN /\ y.failed = y.failed
  BY <1>1, EndTypes
<1>3. CASE ~x.failed /\ ~x.closeReqSubmitted
  <2>1. /\ y \in EndX /\ y.out = x.out
        /\ SameTask(x, y) /\ SameFds(x, y) /\ SameSaid(x, y)
        /\ y.closeReqSubmitted /\ ~y.isFdOpen /\ y.ioFinish /\ ~y.failed
        /\ y.closeNotify = x.closeNotify
        /\ \E c \in Request : /\ c.op = "close" /\ c.fd = x.fd
                              /\ y.pending = x.pending \cup {c}
        /\ y.refCount = x.refCount /\ y.bufs = [x.bufs EXCEPT ![r.buf] = "free"]
    BY ONLY x \in EndX, x.ioFinish, y = EndFileIO(CloseStep("slave", x), r), <1>1, <1>3,
            EndsClosing, EndsAre
  <2>2. PICK c \in Request : /\ c.op = "close" /\ c.fd = S.fd
                             /\ y.pending = (S.pending \ {r}) \cup {c}
    BY <2>1 DEF SameFds
  <2>3. /\ SameFds(S, y) /\ SameTask(S, y) /\ y.refCount = S.refCount
        /\ y.bufs = [S.bufs EXCEPT ![r.buf] = "free"] /\ ~S.closeReqSubmitted
        /\ y.said = S.said /\ y.indexIO = x.indexIO
    BY <2>1, <1>3 DEF SameFds, SameTask, SameSaid
  <2>4. /\ EndOK(y)
        /\ (y.failed = S.failed /\ \A s \in S.pending : s.op \in IOOps => s = r) =>
               (HealthyEnd(S) => HealthyEnd(y))
    BY <1>1, <2>1, <2>2, <2>3, IOClosesEnd
  <2>5. y.failed = x.failed /\ (~S.failed => y.failed = S.failed)
    BY <2>1, <1>2, <1>3, EndTypes
  <2>6. OpenRequest \notin y.pending
    BY <1>1, <2>2, OpenRequestIs
  <2>7. x.early => y.early
    BY <2>1 DEF SameTask
  <2> QED
    BY <1>3, <2>1, <2>2, <2>3, <2>4, <2>5, <2>6, <2>7 DEF WriteEnded
<1>4. CASE x.failed \/ x.closeReqSubmitted
  <2>1. /\ y \in EndX /\ y.out = IF x.stop THEN <<>> ELSE <<Msg("FINISH", 1)>>
        /\ SameTask(x, y) /\ SameFlags(x, y) /\ SameFds(x, y) /\ SameSaid(x, y)
        /\ y.pending = x.pending /\ y.refCount = x.refCount - 1
        /\ y.bufs = [x.bufs EXCEPT ![r.buf] = "free"]
    BY <1>1, <1>4, EndsTelling, EndsAre
  <2>2. /\ y.pending = S.pending \ {r} /\ y.refCount = S.refCount - 1
        /\ y.bufs = [S.bufs EXCEPT ![r.buf] = "free"] /\ SameFds(S, y) /\ SameTask(S, y)
        /\ y.isFdOpen = S.isFdOpen /\ y.closeReqSubmitted = S.closeReqSubmitted
        /\ y.ioFinish /\ y.failed = x.failed /\ y.closeNotify = x.closeNotify
        /\ y.said = S.said /\ y.indexIO = x.indexIO
    BY <2>1 DEF SameTask, SameFlags, SameFds, SameSaid
  <2>3. (y.isFdOpen => y.failed) /\ (y.failed => ~y.closeReqSubmitted)
    BY <1>1, <1>4, <2>2 DEF EndOK, FdsOK
  <2>4. EndOK(y)
    BY <1>1, <2>2, <2>3, IODoneEnd
  <2>5. LET m == Msg("FINISH", 1) IN m \in Message /\ m.cmd = "FINISH" /\ m.n % 2 = 1
    BY FinishMessage, SmallNumbers
  <2>6. y.out # <<>> => \E m \in Message : m.cmd = "FINISH" /\ m.n % 2 = 1 /\ y.out = <<m>>
    BY <2>1, <2>5
  <2>7. x.early => y.early
    BY <2>1 DEF SameTask
  <2> QED
    BY <1>1, <1>4, <2>1, <2>2, <2>4, <2>6, <2>7 DEF WriteEnded
<1> QED
  BY <1>3, <1>4

\* The write failed.
LEMMA WriteFailedKeeps ==
    ASSUME FileInv, job.kind = "file", NEW r, WriteFailed(r)
    PROVE  FileInv'
<1> DEFINE t == Took(S, r)
           x == IF t.ioFinish THEN t ELSE Failed(t)
           y == EndFileIO(CloseStep("slave", x), r)
<1>1. r \in Writes /\ Step("slave", y, net) /\ UNCHANGED disk
  BY DEF WriteFailed, S, Writes
<1>2. /\ Started /\ r \in S.pending /\ OpenRequest \notin S.pending /\ TypeOK /\ EndOK(S)
      /\ Healthy => ~S.ioFinish
      /\ t \in EndX /\ t.out = <<>>
      /\ SameTask(S, t) /\ SameFlags(S, t) /\ SameFds(S, t) /\ SameSaid(S, t)
      /\ t.pending = S.pending \ {r} /\ t.refCount = S.refCount /\ t.bufs = S.bufs
      /\ net \in [Ends -> Seq(Message)]
  BY <1>1, WriteFacts
<1>3. ReadsFrom("slave", 0, net["slave"]) /\ 0 \in {0, 1}
  BY DEF ReadsFrom
<1> HIDE DEF t
<1>4. /\ x \in EndX /\ x.ioFinish /\ x.out = <<>> /\ SameTask(S, x) /\ SameFds(S, x)
      /\ SameSaid(S, x)
      /\ x.pending = S.pending \ {r} /\ x.refCount = S.refCount /\ x.bufs = S.bufs
      /\ x.isFdOpen = S.isFdOpen /\ x.closeReqSubmitted = S.closeReqSubmitted
      /\ S.failed => x.failed
      /\ x.failed => ~S.closeReqSubmitted
      /\ IF S.ioFinish THEN x.closeNotify = S.closeNotify ELSE x.failed
  <2>3. (S.failed => ~S.closeReqSubmitted) /\ (S.closeReqSubmitted => S.ioFinish)
    BY <1>2 DEF EndOK, FdsOK
  <2>1. CASE t.ioFinish
    BY <2>1, <2>3, <1>2 DEF SameTask, SameFlags, SameFds, SameSaid
  <2>2. CASE ~t.ioFinish
    <3>1. x = [t EXCEPT !.closeNotify = TRUE, !.failed = TRUE, !.ioFinish = TRUE]
      BY <2>2 DEF Failed
    <3>2. ~S.ioFinish
      BY <2>2, <1>2 DEF SameFlags
    <3> HIDE DEF x
    <3> QED
      BY <3>1, <3>2, <2>3, <1>2 DEF EndX, SameTask, SameFlags, SameFds, SameSaid
  <2> QED
    BY <2>1, <2>2
<1> HIDE DEF x
<1>5. /\ WriteEnded(S, r, y) /\ y.ioFinish /\ y.failed = x.failed
      /\ y.closeNotify = x.closeNotify /\ y.indexIO = x.indexIO
  BY <1>1, <1>4, LastWrite DEF SameSaid
<1> HIDE DEF y
<1>6. /\ y.out # <<>> => \E m \in Message :
             /\ m.cmd = "FINISH" /\ m.n % 2 = 1 /\ y.out = <<m>>
             /\ y.failed \/ Complete \/ M.stop \/ S.stop
                \/ (\E j \in At("slave", "CHANNEL_CLOSE") : j > 0)
                \/ Finishes("master", 0) # {} \/ M.early \/ y.early
  <2>1. S.ioFinish => \/ y.failed \/ Complete \/ M.stop \/ S.stop
                      \/ (\E j \in At("slave", "CHANNEL_CLOSE") : j > 0)
                      \/ Finishes("master", 0) # {} \/ M.early \/ y.early
    BY <1>4, <1>5, SlaveMayAsk DEF WriteEnded, SameTask
  <2>2. ~S.ioFinish => y.failed
    BY <1>4, <1>5
  <2> QED
    BY <2>1, <2>2, <1>5 DEF WriteEnded
<1>7. /\ (y.ioFinish => S.ioFinish) \/ y.failed \/ Complete
      /\ (y.closeNotify => S.closeNotify) \/ y.failed \/ Complete
  BY <1>4, <1>5
<1>8. /\ y \in EndX /\ EndOK(y) /\ y.begun = S.begun /\ y.cur = S.cur /\ y.stop = S.stop
      /\ OpenRequest \notin y.pending /\ y.said = S.said /\ y.indexIO = S.indexIO
      /\ \A p \in y.pending : p \in S.pending \/ p.op = "close"
      /\ S.failed => y.failed
      /\ (S.early => y.early) /\ (S.broken => y.broken)
  BY <1>4, <1>5 DEF WriteEnded, SameTask, SameSaid
<1>9. ~(Healthy /\ ~y.failed /\ ~y.early)
  BY <1>2, <1>4, <1>5
<1> QED
  BY <1>1, <1>2, <1>3, <1>6, <1>7, <1>8, <1>9, SlaveSends

\* A piece that came is written.
LEMMA PiecesTaken ==
    ASSUME TypeOK, PiecesOK, job' = job, disk' = disk, M' = M,
           1 \in At("slave", "DATA"), net' \in [Ends -> Seq(Message)],
           From(net["slave"], net'["slave"], 1, {"DATA"}),
           NEW w, w.index = net["slave"][1].index, w.n = net["slave"][1].n,
           Writes' \subseteq Writes \cup {w}
    PROVE  PiecesOK'
<1> DEFINE q == net["slave"]
           p == net'["slave"]
<1>1. \A i \in At("slave", "DATA")' : /\ i + 1 \in At("slave", "DATA") /\ i \in Nat \ {0}
                                      /\ p[i] = q[i + 1] /\ i + 1 # 1
  <2>1. \A i \in DOMAIN p : i \in Nat \ {0}
    BY EndsAre
  <2> QED
    BY <2>1 DEF At, From
<1>2. Size' = Size
  BY DEF Size
<1>3. \A v : PieceOK(v) => PieceOK(v)'
  BY <1>2 DEF PieceOK
<1>4. PieceOK(w)'
  <2>1. PieceOK(q[1])
    BY DEF PiecesOK
  <2> QED
    BY <2>1, <1>2 DEF PieceOK
<1>5. \A i \in At("slave", "DATA")' : PieceOK(net["slave"][i])'
  <2> TAKE i \in At("slave", "DATA")'
  <2>1. PieceOK(q[i + 1]) /\ p[i] = q[i + 1]
    BY <1>1 DEF PiecesOK
  <2> QED
    BY <2>1, <1>2 DEF PieceOK
<1>6. \A r \in Writes' : PieceOK(r)'
  BY <1>3, <1>4 DEF PiecesOK
<1>7. \A i, j \in At("slave", "DATA")' : i # j => Apart(p[i], p[j])
  <2> TAKE i, j \in At("slave", "DATA")'
  <2>1. i # j => i + 1 # j + 1
    BY <1>1
  <2> QED
    BY <2>1, <1>1 DEF PiecesOK
<1>8. /\ \A i \in At("slave", "DATA")' : Apart(p[i], w) /\ Apart(w, p[i])
      /\ \A r \in Writes : Apart(r, w) /\ Apart(w, r)
  <2>1. \A i \in At("slave", "DATA")' : Apart(q[1], q[i + 1]) /\ p[i] = q[i + 1]
    BY <1>1 DEF PiecesOK
  <2>2. \A r \in Writes : Apart(q[1], r)
    BY DEF PiecesOK
  <2>3. w.index = q[1].index /\ w.n = q[1].n
    OBVIOUS
  <2>4. \A v : Apart(q[1], v) => Apart(w, v) /\ Apart(v, w)
    BY <2>3 DEF Apart, Width
  <2> HIDE DEF q, p
  <2> QED
    BY <2>1, <2>2, <2>4
<1>9. \A r, s \in Writes' : r # s => Apart(r, s)
  BY <1>8 DEF PiecesOK
<1>10. \A i \in At("slave", "DATA")', r \in Writes' : Apart(p[i], r)
  <2> TAKE i \in At("slave", "DATA")', r \in Writes'
  <2>1. i + 1 \in At("slave", "DATA") /\ p[i] = q[i + 1]
    BY <1>1
  <2> QED
    BY <2>1, <1>8 DEF PiecesOK
<1> QED
  BY <1>5, <1>6, <1>7, <1>9, <1>10 DEF PiecesOK

\* Data that came is written at its place.
LEMMA FileDataKeeps ==
    ASSUME FileInv, job.kind = "file", FileData
    PROVE  FileInv'
<1> DEFINE m == Head(net["slave"])
           y == SimpleFileIO(S, "write", m.index, m.n)
<1>1. /\ net["slave"] # <<>> /\ m.cmd = "DATA" /\ ~S.stop /\ ~S.ioFinish /\ Room(S)
      /\ Step("slave", y, Rest("slave")) /\ UNCHANGED disk
  BY DEF FileData, Receives, S
<1>2. /\ Started /\ 1 \in At("slave", "DATA") /\ net["slave"][1] = m /\ m \in Message
      /\ net["slave"][1].cmd = "DATA"
      /\ S \in EndX /\ S.out = <<>> /\ EndOK(S) /\ S.cur # 0 /\ OpenRequest \notin S.pending
      /\ Rest("slave") \in [Ends -> Seq(Message)] /\ Rest("slave")["master"] = net["master"]
      /\ ReadsFrom("slave", 1, Rest("slave")["slave"]) /\ 1 \in {0, 1}
  BY <1>1, DataHead
<1>3. /\ TypeOK /\ CommandsOK /\ ReadsOK /\ PiecesOK /\ DiskOK
      /\ disk \in [Files -> SUBSET (0..(MaxBlocks - 1))]
      /\ Healthy => HealthyOK
  BY FileInvParts, TypeFacts DEF Shared
<1>4. m.index \in 0..MaxBlocks /\ m.n \in 0..MaxRead /\ "write" \in IOOps
  <2>1. m.index \in 0..MaxBlocks /\ m.n \in 0..(MaxRead + DataByte + 1)
    BY <1>2, MessageTypes
  <2>2. m.n <= MaxRead
    BY <1>2, <1>3 DEF PiecesOK, PieceOK
  <2> QED
    BY <2>1, <2>2, BoundsAssumption DEF IOOps
<1> HIDE DEF m
<1>5. IOStarted(S, y, "write", m.index, m.n)
  BY <1>1, <1>2, <1>4, StartsIO
<1> HIDE DEF y
<1>6. PICK b \in Bufs, w \in Request :
          /\ S.bufs[b] # "used" /\ y.bufs = [S.bufs EXCEPT ![b] = "used"]
          /\ w.op = "write" /\ w.fd = S.fd /\ w.buf = b /\ w.index = m.index /\ w.n = m.n
          /\ y.pending = S.pending \cup {w} /\ y.refCount = S.refCount + 1
  BY <1>5 DEF IOStarted
<1>7. /\ y \in EndX /\ y.out = <<>>
      /\ SameTask(S, y) /\ SameFlags(S, y) /\ SameFds(S, y) /\ SameSaid(S, y)
  BY <1>2, <1>5 DEF IOStarted
<1>8. EndOK(y) /\ (S.isFdOpen => (HealthyEnd(S) => HealthyEnd(y)))
  <2>1. w.op \in IOOps
    BY <1>4, <1>6
  <2>2. ~S.released
    BY <1>1, <1>2 DEF EndOK, FdsOK
  <2> QED
    BY <2>1, <2>2, <1>2, <1>6, <1>7, IOStartsEnd
<1>9. OpenRequest \notin y.pending /\ \A r \in y.pending : r.op # "read"
  BY <1>2, <1>3, <1>6, OpenRequestIs DEF ReadsOK
<1>10. Sends(y, Answers) /\ y.begun = S.begun /\ y.cur = S.cur
  BY <1>7 DEF Sends, SameTask
<1>11. /\ job' = job /\ M' = M /\ Same(y, S') /\ net' \in [Ends -> Seq(Message)]
       /\ From(net["slave"], net'["slave"], 1, Commands)
  BY <1>1, <1>2, <1>3, <1>7, <1>9, <1>10, SlaveMoves
<1>12. PiecesOK' /\ DiskOK' /\ (Complete => Complete')
  <2>1. {"DATA"} \subseteq Commands
    BY DEF Commands
  <2>2. From(net["slave"], net'["slave"], 1, {"DATA"})
    BY <2>1, <1>11, LessFrom
  <2>3. Writes' \subseteq Writes \cup {w}
    BY <1>6, <1>11 DEF Same, SamePool, Writes
  <2>4. PiecesOK'
    BY <2>2, <2>3, <1>1, <1>2, <1>3, <1>6, <1>11, PiecesTaken
  <2>5. S'.indexIO = S.indexIO
    BY <1>7, <1>11 DEF Same, SameSaid
  <2>6. DiskOK'
    BY <2>5, <1>1, <1>3, <1>11, DiskFrame
  <2>7. Complete => Complete'
    BY <1>1, <1>11 DEF Complete, Size
  <2> QED
    BY <2>4, <2>6, <2>7
<1>13. /\ y.said = S.said /\ y.stop = S.stop /\ y.failed = S.failed /\ y.ioFinish = S.ioFinish
       /\ y.closeNotify = S.closeNotify /\ y.isFdOpen = S.isFdOpen
       /\ (S.early => y.early) /\ (S.broken => y.broken)
  BY <1>7 DEF SameTask, SameFlags, SameSaid
<1>14. Healthy => S.isFdOpen
  BY <1>1, <1>2, <1>3 DEF HealthyOK, IsOpen
<1>15. disk' \in [Files -> SUBSET (0..(MaxBlocks - 1))]
  BY <1>1, <1>3
<1> QED
  BY <1>1, <1>2, <1>7, <1>8, <1>9, <1>10, <1>12, <1>13, <1>14, <1>15, SlaveTold

-----------------------------------------------------------------------------
(* A write is done *)

\* What a write stores that moves n of its blocks.
Blocks(r, n) == r.index..(r.index + n - 1)

LEMMA DisjointUnion ==
    ASSUME NEW A, NEW B, IsFiniteSet(A), IsFiniteSet(B), \A b \in B : b \notin A
    PROVE  IsFiniteSet(A \cup B) /\ Cardinality(A \cup B) = Cardinality(A) + Cardinality(B)
<1>1. A \cap B = {}
  OBVIOUS
<1>2. IsFiniteSet(A \cup B)
      /\ Cardinality(A \cup B) = Cardinality(A) + Cardinality(B) - Cardinality(A \cap B)
  BY FS_Union
<1>3. Cardinality(A \cap B) = 0
  BY <1>1, FS_EmptySet
<1>4. Cardinality(A) \in Nat /\ Cardinality(B) \in Nat
  BY FS_CardinalityType
<1> QED
  BY <1>2, <1>3, <1>4

LEMMA IntervalIs ==
    ASSUME NEW a \in Nat, NEW n \in Nat
    PROVE  IsFiniteSet(a..(a + n - 1)) /\ Cardinality(a..(a + n - 1)) = n
<1>1. a + n - 1 \in Int /\ a \in Int
  OBVIOUS
<1>2. /\ IsFiniteSet(a..(a + n - 1))
      /\ Cardinality(a..(a + n - 1)) = IF a > a + n - 1 THEN 0 ELSE (a + n - 1) - a + 1
  BY <1>1, FS_Interval
<1> QED
  BY <1>2

\* The blocks of one write come to the copy, each for the first time.
LEMMA BlocksWritten ==
    ASSUME FileInv, NEW r \in Writes, NEW n \in Nat, n <= r.n, job' = job,
           disk' = [disk EXCEPT ![1] = disk[1] \cup Blocks(r, n)]
    PROVE  /\ disk' \in [Files -> SUBSET (0..(MaxBlocks - 1))]
           /\ disk'[1] = disk[1] \cup Blocks(r, n)
           /\ disk'[1] \subseteq 0..(M.indexIO - 1) /\ M.indexIO <= Size
           /\ S.indexIO + n <= Cardinality(disk'[1])
           /\ S.indexIO <= Cardinality(disk'[1])
           /\ Complete => Complete'
           /\ S.indexIO + n >= Size => Complete'
<1>1. /\ TypeOK /\ PiecesOK /\ DiskOK /\ ReadsOK /\ Size \in 0..MaxBlocks /\ 1 \in Files
      /\ disk \in [Files -> SUBSET (0..(MaxBlocks - 1))]
  BY FileInvParts, TypeFacts DEF Shared
<1>2. /\ r.index \in Nat /\ r.n \in Nat /\ M.indexIO \in Nat /\ S.indexIO \in Nat /\ Size \in Nat
      /\ disk[1] \subseteq Nat
  BY <1>1, PieceTypes
<1>3. PieceOK(r) /\ M.indexIO <= Size
  BY <1>1 DEF PiecesOK, ReadsOK
<1>4. disk'[1] = disk[1] \cup Blocks(r, n)
  BY <1>1
<1>5. Blocks(r, n) \subseteq 0..(M.indexIO - 1) /\ \A b \in Blocks(r, n) : b \notin disk[1]
  BY <1>2, <1>3 DEF Blocks, PieceOK
<1>6. disk'[1] \subseteq 0..(M.indexIO - 1)
  BY <1>1, <1>4, <1>5 DEF DiskOK
<1>7. disk' \in [Files -> SUBSET (0..(MaxBlocks - 1))]
  <2>1. 0..(M.indexIO - 1) \subseteq 0..(MaxBlocks - 1)
    BY <1>1, <1>2, <1>3, BoundsAssumption
  <2>2. disk[1] \cup Blocks(r, n) \in SUBSET (0..(MaxBlocks - 1))
    BY <2>1, <1>4, <1>6
  <2> QED
    BY <2>2, <1>1
<1>8. IsFiniteSet(disk[1]) /\ IsFiniteSet(disk'[1])
  <2>1. IsFiniteSet(0..(M.indexIO - 1))
    BY <1>2, FS_Interval
  <2> QED
    BY <2>1, <1>1, <1>6, FS_Subset DEF DiskOK
<1>9. /\ Cardinality(disk'[1]) = Cardinality(disk[1]) + n
      /\ Cardinality(disk[1]) \in Nat
  <2>1. IsFiniteSet(Blocks(r, n)) /\ Cardinality(Blocks(r, n)) = n
    BY <1>2, IntervalIs DEF Blocks
  <2>2. Cardinality(disk[1]) \in Nat
    BY <1>8, FS_CardinalityType
  <2> QED
    BY <2>1, <2>2, <1>4, <1>5, <1>8, DisjointUnion
<1>10. S.indexIO + n <= Cardinality(disk'[1]) /\ S.indexIO <= Cardinality(disk'[1])
  BY <1>1, <1>2, <1>9 DEF DiskOK
<1>11. disk'[1] \subseteq 0..(Size - 1) /\ Size' = Size
  BY <1>2, <1>3, <1>6 DEF Size
<1>12. S.indexIO + n >= Size => Complete'
  <2> SUFFICES ASSUME S.indexIO + n >= Size
               PROVE  Complete'
    OBVIOUS
  <2>1. IsFiniteSet(0..(Size - 1)) /\ Cardinality(0..(Size - 1)) = Size
    <3>1. 0 + Size - 1 = Size - 1
      BY <1>2
    <3> QED
      BY <3>1, <1>2, IntervalIs
  <2>2. Cardinality(disk'[1]) <= Size /\ Cardinality(disk'[1]) \in Nat
    BY <2>1, <1>8, <1>11, FS_Subset, FS_CardinalityType
  <2>3. Cardinality(disk'[1]) = Size
    BY <2>2, <1>2, <1>10
  <2>4. disk'[1] = 0..(Size - 1)
    BY <2>1, <2>3, <1>11, FS_Subset
  <2> QED
    BY <2>4, <1>11 DEF Complete
<1>13. Complete => Complete'
  BY <1>4, <1>11 DEF Complete
<1> QED
  BY <1>3, <1>4, <1>6, <1>7, <1>10, <1>12, <1>13

LEMMA PiecesWritten ==
    ASSUME TypeOK, PiecesOK, NEW r \in Writes, NEW n \in Nat, n <= r.n, job' = job, M' = M,
           disk'[1] = disk[1] \cup Blocks(r, n), net'["slave"] = net["slave"],
           Writes' \subseteq Writes \ {r}
    PROVE  PiecesOK'
<1>1. /\ \A i \in At("slave", "DATA") : net["slave"][i].index \in Nat /\ net["slave"][i].n \in Nat
      /\ \A p \in Writes : p.index \in Nat /\ p.n \in Nat
  BY PieceTypes DEF At
<1>2. At("slave", "DATA")' = At("slave", "DATA") /\ Size' = Size
  BY DEF At, Size
<1>3. \A v : v.index \in Nat /\ v.n \in Nat /\ PieceOK(v) /\ (Apart(v, r) \/ Apart(r, v)) => PieceOK(v)'
  BY <1>1, <1>2 DEF PieceOK, Apart, Width, Blocks
<1>4. \A i \in At("slave", "DATA") : PieceOK(net["slave"][i])'
  <2> TAKE i \in At("slave", "DATA")
  <2>1. Apart(net["slave"][i], r) /\ PieceOK(net["slave"][i])
    BY DEF PiecesOK
  <2> QED
    BY <2>1, <1>1, <1>3
<1>5. \A p \in Writes' : PieceOK(p)'
  <2> TAKE p \in Writes'
  <2>1. Apart(p, r) /\ PieceOK(p) /\ p \in Writes
    BY DEF PiecesOK
  <2> QED
    BY <2>1, <1>1, <1>3
<1> QED
  BY <1>2, <1>4, <1>5 DEF PiecesOK

\* When the copy is complete with the blocks of r, r is the last piece.
LEMMA LastPiece ==
    ASSUME FileInv, NEW r \in Writes, NEW n \in Nat, n <= r.n, ~M.early,
           0..(Size - 1) = disk[1] \cup Blocks(r, n)
    PROVE  M.ioFinish /\ At("slave", "DATA") = {} /\ \A p \in Writes : p = r
<1>1. TypeOK /\ PiecesOK /\ DiskOK /\ ReadsOK
  BY FileInvParts DEF Shared
<1>2. /\ \A i \in At("slave", "DATA") : net["slave"][i].index \in Nat /\ net["slave"][i].n \in Nat
      /\ \A p \in Writes : p.index \in Nat /\ p.n \in Nat
      /\ M.indexIO \in Nat /\ Size \in Nat
  BY <1>1, PieceTypes DEF At
<1>3. PieceOK(r) /\ M.indexIO <= Size
  BY <1>1 DEF PiecesOK, ReadsOK
<1>4. M.ioFinish
  <2>1. CASE Size = 0
    BY <2>1, <1>2, <1>3 DEF PieceOK
  <2>2. CASE Size # 0
    <3>1. Size - 1 \in disk[1] \cup Blocks(r, n)
      BY <2>2, <1>2
    <3>2. Size - 1 < M.indexIO
      BY <3>1, <1>1, <1>2, <1>3 DEF DiskOK, PieceOK, Blocks
    <3> QED
      BY <3>2, <2>2, <1>1, <1>2, <1>3 DEF ReadsOK
  <2> QED
    BY <2>1, <2>2
<1>5. ASSUME NEW v, v.index \in Nat, v.n \in Nat, PieceOK(v), Apart(v, r)
      PROVE  FALSE
  <2>1. CASE Size = 0
    BY <2>1, <1>2, <1>3, <1>5 DEF PieceOK, Apart, Width
  <2>2. CASE Size # 0
    <3>1. v.n # 0 /\ v.index < Size
      BY <2>2, <1>2, <1>3, <1>5 DEF PieceOK
    <3>2. v.index \in 0..(Size - 1)
      BY <3>1, <1>2, <1>5
    <3>3. v.index \notin disk[1]
      BY <3>1, <1>5 DEF PieceOK
    <3>4. v.index \notin Blocks(r, n)
      BY <3>1, <1>2, <1>5 DEF Blocks, Apart, Width
    <3> QED
      BY <3>2, <3>3, <3>4
  <2> QED
    BY <2>1, <2>2
<1>6. \A i \in At("slave", "DATA") : FALSE
  <2> TAKE i \in At("slave", "DATA")
  <2>1. Apart(net["slave"][i], r) /\ PieceOK(net["slave"][i])
    BY <1>1 DEF PiecesOK
  <2> QED
    BY <2>1, <1>2, <1>5
<1>7. \A p \in Writes : p = r
  <2> TAKE p \in Writes
  <2>1. p # r => Apart(p, r) /\ PieceOK(p)
    BY <1>1 DEF PiecesOK
  <2> QED
    BY <2>1, <1>2, <1>5
<1> QED
  BY <1>4, <1>6, <1>7

\* A write is done: the file is finished when all its blocks were written.
LEMMA WriteDoneKeeps ==
    ASSUME FileInv, job.kind = "file", NEW r, NEW n \in 0..MaxRead, WriteDone(r, n)
    PROVE  FileInv'
<1> DEFINE t == Took(S, r)
           a == [t EXCEPT !.indexIO = t.indexIO + n]
           short == a.indexIO < FileSize(t)
           last == a.indexIO >= FileSize(t) \/ n = 0
           x == IF t.ioFinish THEN t
                ELSE IF last
                THEN [a EXCEPT !.closeNotify = TRUE, !.ioFinish = TRUE,
                               !.early = t.early \/ short]
                ELSE a
           y == EndFileIO(CloseStep("slave", x), r)
<1>1. /\ r \in Writes /\ Step("slave", y, net) /\ n \in Nat /\ n <= r.n
      /\ disk' = [disk EXCEPT ![t.cur] = disk[t.cur] \cup Blocks(r, n)]
  BY BoundsAssumption DEF WriteDone, S, Writes, Blocks
<1>2. /\ Started /\ r \in S.pending /\ r.op \in IOOps /\ r.buf \in Bufs
      /\ TypeOK /\ S \in EndX /\ EndOK(S) /\ S.cur # 0 /\ S.cur = 1
      /\ OpenRequest \notin S.pending /\ \A p \in S.pending : p.op # "read"
      /\ t \in EndX /\ t.out = <<>>
      /\ SameTask(S, t) /\ SameFlags(S, t) /\ SameFds(S, t) /\ SameSaid(S, t)
      /\ t.pending = S.pending \ {r} /\ t.refCount = S.refCount /\ t.bufs = S.bufs
      /\ PieceOK(r) /\ net \in [Ends -> Seq(Message)]
      /\ Healthy => ~S.ioFinish /\ ~S.failed /\ S.isFdOpen
      /\ S.refCount \in Int
  BY <1>1, WriteFacts
<1>3. /\ CommandsOK /\ PiecesOK /\ ReadsOK
      /\ r.index \in Nat /\ r.n \in Nat /\ S.indexIO \in Nat /\ Size \in Nat
      /\ Healthy => HealthyOK
  BY <1>1, <1>2, FileInvParts, PieceTypes DEF Shared
<1>4. t.cur = 1 /\ FileSize(t) = Size /\ t.indexIO = S.indexIO /\ (t.ioFinish <=> S.ioFinish)
  BY <1>2 DEF SameTask, SameSaid, SameFlags, FileSize, Size
<1>5. job' = job
  BY <1>1 DEF Step
<1>6. /\ disk' \in [Files -> SUBSET (0..(MaxBlocks - 1))]
      /\ disk'[1] = disk[1] \cup Blocks(r, n)
      /\ S.indexIO + n <= Cardinality(disk'[1])
      /\ S.indexIO <= Cardinality(disk'[1])
      /\ disk'[1] \subseteq 0..(M.indexIO - 1)
      /\ Complete => Complete'
      /\ S.indexIO + n >= Size => Complete'
  <2>1. disk' = [disk EXCEPT ![1] = disk[1] \cup Blocks(r, n)]
    BY <1>1, <1>4
  <2> QED
    BY <2>1, <1>1, <1>5, BlocksWritten
<1> HIDE DEF t
<1>7. /\ a \in EndX /\ a.out = <<>> /\ a.indexIO = S.indexIO + n
      /\ SameTask(S, a) /\ SameFlags(S, a) /\ SameFds(S, a) /\ a.said = S.said
      /\ a.pending = S.pending \ {r} /\ a.refCount = S.refCount /\ a.bufs = S.bufs
  <2>1. PICK k : k = t.indexIO + n
    OBVIOUS
  <2>2. k \in Counts /\ k = S.indexIO + n
    BY <2>1, <1>1, <1>3, <1>4 DEF Counts
  <2>3. a = [t EXCEPT !.indexIO = k]
    BY <2>1
  <2> HIDE DEF a
  <2> QED
    BY <2>2, <2>3, <1>2 DEF EndX, SameTask, SameFlags, SameFds, SameSaid
<1>8. short \/ Complete'
  BY <1>3, <1>4, <1>6, <1>7
<1> HIDE DEF a, last, short
  \* Whatever becomes of the file, the rest is the same.
<1>9. ASSUME WriteEnded(S, r, y), y.indexIO \in {S.indexIO, S.indexIO + n},
             y.out # <<>> => S.ioFinish,
             (y.ioFinish => S.ioFinish) \/ Complete' \/ y.early,
             (y.closeNotify => S.closeNotify) \/ Complete' \/ y.early,
             y.failed = S.failed,
             Healthy /\ ~y.early =>
                 /\ HealthyEnd(S) => HealthyEnd(y)
                 /\ y.isFdOpen \/ y.ioFinish
                 /\ y.ioFinish => M.ioFinish /\ At("slave", "DATA") = {}
      PROVE  FileInv'
  <2> HIDE DEF y
  <2>1. Sends(y, Answers) /\ y.begun = S.begun /\ y.cur = S.cur /\ y \in EndX /\ EndOK(y)
        /\ OpenRequest \notin y.pending /\ y.said = S.said /\ y.stop = S.stop
    BY <1>9 DEF WriteEnded, Sends, Answers, SameTask
  <2>2. ReadsFrom("slave", 0, net["slave"]) /\ 0 \in {0, 1}
    BY DEF ReadsFrom
  <2>3. Step("slave", y, net)
    BY <1>1 DEF y
  <2>4. /\ M' = M /\ Same(y, S') /\ net' \in [Ends -> Seq(Message)]
        /\ From(net["slave"], net'["slave"], 0, Commands)
    BY <1>2, <1>3, <2>1, <2>2, <2>3, SlaveMoves
  <2>5. net'["slave"] = net["slave"]
    <3>1. "slave" \in Ends /\ Other("slave") = "master" /\ net \in [Ends -> Seq(Message)]
      BY <1>2, EndsAre
    <3> QED
      BY <3>1, <2>3 DEF Step
  <2>6. Writes' \subseteq Writes \ {r}
    BY <1>9, <2>4 DEF WriteEnded, Writes, Same, SamePool
  <2>7. PiecesOK'
    BY <1>1, <1>2, <1>3, <1>5, <1>6, <2>4, <2>5, <2>6, PiecesWritten
  <2>8. DiskOK'
    <3>1. S'.indexIO = y.indexIO /\ M'.indexIO = M.indexIO
      BY <2>4 DEF Same, SameSaid
    <3> QED
      BY <3>1, <1>6, <1>9 DEF DiskOK
  <2>9. \A p \in y.pending : p.op # "read"
    BY <1>2, <1>9 DEF WriteEnded
  <2>10. y.out # <<>> => \E m \in Message :
               /\ m.cmd = "FINISH" /\ m.n % 2 = 1 /\ y.out = <<m>>
               /\ y.failed \/ Complete' \/ M.stop \/ S.stop
                  \/ (\E j \in At("slave", "CHANNEL_CLOSE") : j > 0)
                  \/ Finishes("master", 0) # {} \/ M.early \/ y.early
    <3>1. S.ioFinish =>
              \/ y.failed \/ Complete' \/ M.stop \/ S.stop
              \/ (\E j \in At("slave", "CHANNEL_CLOSE") : j > 0)
              \/ Finishes("master", 0) # {} \/ M.early \/ y.early
      BY <1>6, <1>9, SlaveMayAsk DEF WriteEnded, SameTask
    <3> QED
      BY <3>1, <1>9 DEF WriteEnded
  <2>11. Healthy /\ ~y.failed /\ ~y.early =>
             /\ HealthyEnd(S) => HealthyEnd(y)
             /\ S.isFdOpen \/ S.ioFinish => y.isFdOpen \/ y.ioFinish
             /\ y.ioFinish => S.ioFinish \/ (M.ioFinish /\ At("slave", "DATA") = {})
             /\ S.ioFinish => y.ioFinish
             /\ y.out # <<>> => y.ioFinish
    BY <1>2, <1>9
  <2>12. /\ (S.stop => y.stop) /\ (S.failed => y.failed)
         /\ (S.early => y.early) /\ (S.broken => y.broken)
    BY <2>1, <1>9 DEF WriteEnded, SameTask
  <2> QED
    BY <1>2, <1>6, <1>9, <2>1, <2>2, <2>3, <2>7, <2>8, <2>9, <2>10, <2>11, <2>12, SlaveTold
<1>10. CASE S.ioFinish
  <2>1. x = t
    BY <1>4, <1>10
  <2> HIDE DEF x
  <2>2. /\ x \in EndX /\ x.ioFinish /\ SameTask(S, x) /\ SameFds(S, x) /\ SameSaid(S, x)
        /\ x.said = S.said /\ x.out = <<>>
        /\ x.pending = S.pending \ {r} /\ x.refCount = S.refCount /\ x.bufs = S.bufs
        /\ x.isFdOpen = S.isFdOpen /\ x.closeReqSubmitted = S.closeReqSubmitted
        /\ x.failed = S.failed /\ x.closeNotify = S.closeNotify /\ x.indexIO = S.indexIO
    BY <1>2, <1>4, <1>10, <2>1 DEF SameFlags, SameSaid
  <2>4. (S.failed => x.failed) /\ (x.failed => ~S.closeReqSubmitted)
    BY <2>2, <1>2 DEF EndOK, FdsOK
  <2>3. /\ WriteEnded(S, r, y) /\ y.ioFinish /\ y.failed = x.failed
        /\ y.closeNotify = x.closeNotify /\ y.indexIO = x.indexIO
    BY <1>1, <2>2, <2>4, LastWrite
  <2> QED
    BY <2>2, <2>3, <1>2, <1>9, <1>10
<1>11. CASE ~S.ioFinish /\ last
  <2>1. x = [a EXCEPT !.closeNotify = TRUE, !.ioFinish = TRUE, !.early = t.early \/ short]
    BY <1>4, <1>11
  <2>10. PICK w : w = (t.early \/ short)
    OBVIOUS
  <2>7. w \in BOOLEAN /\ (S.early => w) /\ (short => w)
    BY <2>10, <1>2, EndTypes DEF short, SameTask
  <2> HIDE DEF x
  <2>2. /\ x \in EndX /\ x.ioFinish /\ SameTask(S, x) /\ SameFds(S, x)
        /\ x.said = S.said /\ x.out = <<>>
        /\ x.pending = S.pending \ {r} /\ x.refCount = S.refCount /\ x.bufs = S.bufs
        /\ x.isFdOpen = S.isFdOpen /\ x.closeReqSubmitted = S.closeReqSubmitted
        /\ x.failed = S.failed /\ x.indexIO = S.indexIO + n /\ (short => x.early)
    <3>1. x = [a EXCEPT !.closeNotify = TRUE, !.ioFinish = TRUE, !.early = w]
      BY ONLY <2>1, <2>10
    <3>2. x \in EndX /\ x.ioFinish /\ x.early = w
      BY <1>7, <2>7, <3>1 DEF EndX
    <3> QED
      BY <1>7, <2>7, <3>1, <3>2 DEF EndX, SameTask, SameFds, SameFlags
  <2>3. ~S.failed /\ ~S.closeReqSubmitted
    BY <1>2, <1>11 DEF EndOK, FdsOK
  <2>4. /\ WriteEnded(S, r, y) /\ y.ioFinish /\ y.failed = x.failed
        /\ y.indexIO = x.indexIO /\ y.out = <<>> /\ (x.early => y.early)
        /\ (\A s \in S.pending : s.op \in IOOps => s = r) => (HealthyEnd(S) => HealthyEnd(y))
    <3>1. (S.failed => x.failed) /\ (x.failed => ~S.closeReqSubmitted)
      BY <2>2, <2>3
    <3> QED
      BY <1>1, <2>2, <2>3, <3>1, LastWrite
  <2>8. y.early \/ Complete'
    BY <2>2, <2>4, <1>8
  <2>5. Complete' /\ ~M.early =>
            M.ioFinish /\ At("slave", "DATA") = {} /\ \A p \in Writes : p = r
    <3> SUFFICES ASSUME Complete', ~M.early
                 PROVE  M.ioFinish /\ At("slave", "DATA") = {} /\ \A p \in Writes : p = r
      OBVIOUS
    <3>1. 0..(Size - 1) = disk[1] \cup Blocks(r, n)
      BY <1>5, <1>6 DEF Complete, Size
    <3> QED
      BY <3>1, <1>1, LastPiece
  <2>6. Complete' /\ ~M.early => \A s \in S.pending : s.op \in IOOps => s = r
    BY <2>5, <1>2 DEF Writes, IOOps
  <2>9. Healthy => ~M.early
    BY HealthyIs
  <2> QED
    BY <2>2, <2>4, <2>5, <2>6, <2>8, <2>9, <1>9, <1>11
<1>12. CASE ~S.ioFinish /\ ~last
  <2>1. x = a
    BY <1>4, <1>12
  <2> HIDE DEF x
  <2>2. x \in EndX /\ ~x.ioFinish /\ r.buf \in Bufs
    BY <2>1, <1>2, <1>7, <1>12 DEF SameFlags
  <2>3. /\ y \in EndX /\ y.out = x.out
        /\ SameTask(x, y) /\ SameFlags(x, y) /\ SameFds(x, y) /\ SameSaid(x, y)
        /\ y.pending = x.pending /\ y.refCount = x.refCount - 1
        /\ y.bufs = [x.bufs EXCEPT ![r.buf] = "free"]
    BY <2>2, EndsQuietly, EndsAre
  <2> HIDE DEF y
  <2>4. /\ y.out = <<>> /\ SameTask(S, y) /\ SameFlags(S, y) /\ SameFds(S, y)
        /\ y.indexIO = S.indexIO + n /\ y.said = S.said
        /\ y.pending = S.pending \ {r} /\ y.refCount = S.refCount - 1
        /\ y.bufs = [S.bufs EXCEPT ![r.buf] = "free"]
    BY <2>1, <2>3, <1>7 DEF SameTask, SameFlags, SameFds, SameSaid
  <2>5. /\ y.isFdOpen = S.isFdOpen /\ y.closeReqSubmitted = S.closeReqSubmitted
        /\ y.failed = S.failed /\ y.ioFinish = S.ioFinish /\ y.closeNotify = S.closeNotify
    BY <2>4 DEF SameFlags
  <2>6. EndOK(y) /\ (HealthyEnd(S) => HealthyEnd(y))
    <3>1. /\ y.isFdOpen => (y.ioFinish => y.failed)
          /\ y.failed \/ y.closeReqSubmitted \/ y.closeNotify => y.ioFinish
          /\ y.failed => ~y.closeReqSubmitted
      BY <2>5, <1>2 DEF EndOK, FdsOK
    <3> QED
      BY <3>1, <2>4, <2>5, <1>2, IODoneEnd
  <2>7. WriteEnded(S, r, y)
    BY <2>3, <2>4, <2>5, <2>6, <1>2 DEF WriteEnded
  <2> QED
    BY <2>4, <2>5, <2>6, <2>7, <1>2, <1>9, <1>12
<1> QED
  BY <1>10, <1>11, <1>12

-----------------------------------------------------------------------------
(* A FINISH is read *)

LEMMA FinishHead ==
    ASSUME FileInv, NEW e \in Ends, net[e] # <<>>, Head(net[e]).cmd = "FINISH"
    PROVE  /\ Started /\ TypeOK /\ 1 \in At(e, "FINISH")
           /\ net[e][1] = Head(net[e]) /\ Head(net[e]) \in Message
           /\ Head(net[e]).n \in 0..(MaxRead + DataByte + 1)
           /\ net[e][1].cmd = "FINISH"
           /\ 1 \in Finishes(e, 0) \/ 1 \in Finishes(e, 1)
           /\ 1 \in Finishes(e, 0) <=> Head(net[e]).n % 2 = 0
           /\ end[e] \in EndX /\ end[e].out = <<>> /\ EndOK(end[e])
           /\ end[e].cur = 1 /\ ~end[e].isDir /\ OpenRequest \notin end[e].pending
           /\ net \in [Ends -> Seq(Message)]
           /\ Rest(e) \in [Ends -> Seq(Message)] /\ Rest(e)[Other(e)] = net[Other(e)]
           /\ ReadsFrom(e, 1, Rest(e)[e]) /\ 1 \in {0, 1}
<1>1. /\ TypeOK /\ EndOK(end[e]) /\ StageOK /\ end[e] \in EndX /\ end[e].out = <<>>
      /\ net \in [Ends -> Seq(Message)] /\ net[e] \in Seq(Message)
  BY FileInvParts, TypeFacts DEF Shared, FileInv
<1>2. 1 \in At(e, "FINISH") /\ net[e][1] = Head(net[e]) /\ Head(net[e]) \in Message
  BY <1>1, TailOf DEF At
<1>3. Head(net[e]).n \in 0..(MaxRead + DataByte + 1)
  BY <1>2, MessageTypes
<1>4. Started
  BY <1>1, <1>2, NotQuietStarted DEF Quiet, Ends
<1>5. end[e].cur # 0 /\ OpenRequest \notin end[e].pending
  BY <1>4 DEF Started, Opens, M, S, Ends
<1>6. end[e].cur = 1 /\ ~end[e].isDir
  BY <1>1, <1>5 DEF EndOK
<1>7. /\ Rest(e) \in [Ends -> Seq(Message)] /\ Rest(e)[Other(e)] = net[Other(e)]
      /\ ReadsFrom(e, 1, Rest(e)[e]) /\ 1 \in {0, 1}
  BY <1>1, RestIs, EndsAre DEF ReadsFrom
<1>8. Head(net[e]).n % 2 \in {0, 1}
  BY <1>3, BoundsAssumption
<1>9. /\ 1 \in Finishes(e, 0) \/ 1 \in Finishes(e, 1)
      /\ 1 \in Finishes(e, 0) <=> Head(net[e]).n % 2 = 0
  BY <1>2, <1>8 DEF Finishes
<1> QED
  BY <1>1, <1>2, <1>3, <1>4, <1>5, <1>6, <1>7, <1>9

\* What the master sends is the answer or the end of the task.
LEMMA MasterAnswers ==
    ASSUME FileInv, net["master"] # <<>>, Head(net["master"]).cmd = "FINISH", ~M.stop,
           NEW y \in EndX, Step("master", y, Rest("master")), UNCHANGED disk,
           EndOK(y), SameTask(M, y), y.pending = M.pending, y.indexIO = M.indexIO,
           M.ioFinish => y.ioFinish, y.failed = M.failed, y.closeNotify = M.closeNotify,
           y.closeReqSubmitted = M.closeReqSubmitted,
           y.said = "OK" => M.said = "OK" \/ Complete,
           NEW m \in Message, y.out = <<m>>,
           \/ m.cmd = "FINISH" /\ m.n % 2 = 0 /\ 1 \notin Finishes("master", 0)
           \/ m.cmd = "CHANNEL_CLOSE",
           Healthy => (HealthyEnd(M) => HealthyEnd(y))
    PROVE  FileInv'
<1> DEFINE last == Len(net["slave"]) + 1
<1>1. /\ TypeOK /\ EndOK(M) /\ EndOK(S) /\ CommandsOK /\ ReadsOK /\ PiecesOK /\ DiskOK
      /\ FinishOK /\ (Healthy => HealthyOK)
      /\ disk \in [Files -> SUBSET (0..(MaxBlocks - 1))]
  BY FileInvParts, TypeFacts DEF Shared
<1>2. /\ Started /\ 1 \in At("master", "FINISH") /\ OpenRequest \notin M.pending
      /\ 1 \in Finishes("master", 0) \/ 1 \in Finishes("master", 1)
      /\ Rest("master") \in [Ends -> Seq(Message)] /\ Rest("master")["slave"] = net["slave"]
      /\ ReadsFrom("master", 1, Rest("master")["master"]) /\ 1 \in {0, 1}
  BY FinishHead, EndsAre DEF M
<1>3. Sends(y, Answers) /\ Sends(y, Data) /\ y.begun = M.begun /\ y.cur = M.cur /\ y.stop = M.stop
  BY DEF Sends, Answers, Data, SameTask
<1>4. /\ job' = job /\ S' = S /\ M' \in EndX /\ Same(y, M')
      /\ end' \in [Ends -> EndX] /\ \A e \in Ends : end'[e].out = <<>>
      /\ net \in [Ends -> Seq(Message)] /\ net' \in [Ends -> Seq(Message)]
      /\ From(net["master"], net'["master"], 1, Commands)
      /\ To(net["master"], net'["master"], 1, Commands)
      /\ To(net["slave"], net'["slave"], 0, Commands)
      /\ Appends(net["slave"], net'["slave"], m)
      /\ Started' /\ StageOK' /\ CommandsOK'
  BY <1>1, <1>2, <1>3, MasterMoves
<1>5. EndOK(M') /\ EndOK(S') /\ (HealthyEnd(y) => HealthyEnd(M'))
  BY <1>1, <1>4, SameEnd
<1>6. /\ M'.pending = M.pending /\ M'.indexIO = M.indexIO /\ M'.ioFinish = y.ioFinish
      /\ M'.failed = M.failed /\ M'.closeNotify = M.closeNotify
      /\ M'.closeReqSubmitted = M.closeReqSubmitted /\ M'.said = y.said /\ M'.stop = M.stop
      /\ (M.early => M'.early)
  BY <1>3, <1>4 DEF Same, SameTask, SameFlags, SamePool, SameSaid
<1>19. (Healthy' => Healthy) /\ (Early => Early')
  BY <1>3, <1>4, <1>6, MasterHistory DEF Same, SameTask
<1>7. /\ DOMAIN net["slave"] = 1..Len(net["slave"]) /\ Len(net["slave"]) \in Nat
      /\ DOMAIN net'["slave"] = 1..last
      /\ \A i \in DOMAIN net["slave"] : net'["slave"][i] = net["slave"][i]
      /\ net'["slave"][last] = m
  BY <1>4 DEF Appends
<1>8. /\ \A i \in DOMAIN net'["slave"] : i \in DOMAIN net["slave"] \/ i = last
      /\ \A i \in DOMAIN net["slave"] : i \in DOMAIN net'["slave"] /\ i < last /\ i + 0 = i
      /\ last \in DOMAIN net'["slave"]
  BY <1>7
<1> HIDE DEF last
<1>9. At("slave", "DATA")' = At("slave", "DATA") /\ Finishes("slave", 1)' = Finishes("slave", 1)
  <2>1. m.cmd # "DATA" /\ (m.cmd = "FINISH" => m.n % 2 # 1)
    OBVIOUS
  <2>2. At("slave", "DATA")' = At("slave", "DATA")
    BY <2>1, <1>7, <1>8 DEF At
  <2>3. Finishes("slave", 1)' = Finishes("slave", 1)
    BY <2>1, <1>7, <1>8 DEF At, Finishes
  <2> QED
    BY <2>2, <2>3
<1>10. From(net["slave"], net'["slave"], 0, {"DATA"})
  BY <1>4, AppendsKeeps
<1>11. /\ From(net["master"], net'["master"], 1, {"FINISH"})
       /\ To(net["master"], net'["master"], 1, {"FINISH"})
       /\ To(net["slave"], net'["slave"], 0, {"CHANNEL_CLOSE"})
  <2>1. {"FINISH"} \subseteq Commands /\ {"CHANNEL_CLOSE"} \subseteq Commands
    BY DEF Commands
  <2>2. /\ From(net["master"], net'["master"], 1, {"FINISH"})
        /\ To(net["master"], net'["master"], 1, {"FINISH"})
    BY <2>1, <1>4, LessFrom
  <2>3. To(net["slave"], net'["slave"], 0, {"CHANNEL_CLOSE"})
    BY <2>1, <1>4, LessFrom
  <2> QED
    BY <2>2, <2>3
<1>12. ReadsOK'
  BY <1>1, <1>4, <1>6, ReadsFrame
<1>13. PiecesOK'
  BY <1>1, <1>4, <1>6, <1>10, PiecesFrame DEF Writes
<1>14. DiskOK'
  BY <1>1, <1>4, <1>6, DiskFrame
<1>15. Complete => Complete'
  BY <1>4 DEF Complete, Size
<1>16. FinishOK'
  <2>1. \A i \in Finishes("slave", 0)' : i + 0 \in Finishes("slave", 0) \/ AnswerOK(i)'
    <3>1. \A i \in Finishes("slave", 0)' :
              i + 0 \in Finishes("slave", 0) \/ (i = last /\ m.cmd = "FINISH")
      BY <1>7, <1>8 DEF At, Finishes
    <3>2. ASSUME m.cmd = "FINISH"
          PROVE  \A i : i = last => AnswerOK(i)'
      <4>1. AskOK(1)
        BY <1>1, <1>2, <3>2 DEF FinishOK
      <4>2. \A j \in Finishes("master", 0) : ~(j < 1)
        BY <1>1, PieceTypes DEF Finishes, At
      <4>3. Resolved \/ S.stop \/ At("slave", "CHANNEL_CLOSE") # {}
        BY <4>1, <4>2 DEF AskOK, Over
      <4>4. \A j \in At("slave", "CHANNEL_CLOSE") : j \in At("slave", "CHANNEL_CLOSE")' /\ j < last
        BY <1>7, <1>8 DEF At
      <4>5. Resolved => Resolved'
        BY <1>4, <1>15, <1>19 DEF Resolved
      <4> QED
        BY <4>3, <4>4, <4>5, <1>4 DEF AnswerOK
    <3> QED
      BY <3>1, <3>2
  <2>2. \A p \in {0, 1} : \A i \in Finishes("master", p)' :
            i + 1 \in Finishes("master", p) /\ net'["master"][i].n = net["master"][i + 1].n
    BY <1>11, FinishesKept, EndsAre
  <2>3. IF M.failed
        THEN /\ \A i \in Finishes("slave", 1)' :
                    /\ i + 0 \in Finishes("slave", 1)
                    /\ net'["slave"][i].n = net["slave"][i + 0].n
             /\ \A i \in At("slave", "DATA")' : i + 0 \in At("slave", "DATA")
        ELSE MasterAsksOK'
    <3>1. \A i \in Finishes("slave", 1)' :
              /\ i + 0 \in Finishes("slave", 1)
              /\ net'["slave"][i].n = net["slave"][i + 0].n
      BY <1>7, <1>8, <1>9 DEF Finishes, At
    <3>2. \A i \in At("slave", "DATA")' : i + 0 \in At("slave", "DATA")
      BY <1>8, <1>9 DEF At
    <3>3. ~M.failed => Finishes("slave", 1) = {}
      BY <1>1 DEF FinishOK, MasterAsksOK
    <3>4. ~M.failed => MasterAsksOK'
      BY <3>3, <1>9 DEF MasterAsksOK
    <3> QED
      BY <3>1, <3>2, <3>4
  <2>4. 1 \notin Finishes("master", 0) \/ Over'
    <3>1. m.cmd = "CHANNEL_CLOSE" => last \in At("slave", "CHANNEL_CLOSE")'
      BY <1>7, <1>8 DEF At
    <3> QED
      BY <3>1 DEF Over
  <2>5. (M'.said = "OK" \/ S'.said = "OK" => M.said = "OK" \/ S.said = "OK") \/ Complete' \/ Early'
    BY <1>4, <1>6, <1>15
  <2>6. /\ S'.stop = S.stop /\ S'.failed = S.failed /\ S'.ioFinish = S.ioFinish
        /\ S'.closeNotify = S.closeNotify
    BY <1>4
  <2> QED
    BY <2>1, <2>2, <2>3, <2>4, <2>5, <2>6, <1>1, <1>4, <1>6, <1>11, <1>15, <1>19, FinishFrame
<1>17. Healthy' => HealthyOK'
  <2> SUFFICES ASSUME Healthy, Healthy'
               PROVE  HealthyOK'
    BY <1>19
  <2>1. HealthyOK /\ HealthyEnd(M')
    BY <1>1, <1>5 DEF HealthyOK
  <2>2. Reads' = Reads
    BY <1>6 DEF Reads
  <2>3. Reads' # {} \/ At("slave", "DATA")' # {} => IsOpen(S)
    BY <2>1, <2>2, <1>9 DEF HealthyOK
  <2>4. At("slave", "FINISH") # {} \/ At("master", "FINISH") # {}
    BY <1>2
  <2> QED
    BY <2>1, <2>3, <2>4, <1>4, <1>6, <1>9, MasterHealthy
<1>18. disk' \in [Files -> SUBSET (0..(MaxBlocks - 1))]
  BY <1>1
<1> QED
  BY <1>1, <1>4, <1>5, <1>12, <1>13, <1>14, <1>16, <1>17, <1>18, InvFrom

\* What CMD_FILE_FINISH with 0 leaves of an end.
LEMMA FinishEndsEnd ==
    ASSUME NEW x, EndOK(x), NEW y, SameTask(x, y), SamePool(x, y), SameFds(x, y),
           SameFlags(x, y), y.indexIO = x.indexIO
    PROVE  EndOK(y) /\ (HealthyEnd(x) => HealthyEnd(y))
<1>1. PoolOK(y)
  BY PoolSame DEF EndOK, PoolOK, SamePool, SameFlags
<1>2. EndOK(y)
  BY <1>1, EndKept DEF SameTask, SamePool, SameFds, SameFlags
<1>3. HealthyEnd(x) => HealthyEnd(y)
  BY DEF HealthyEnd, SamePool, SameFds, SameFlags
<1> QED
  BY <1>2, <1>3

LEMMA OddBefore ==
    ASSUME NEW n \in 0..(MaxRead + DataByte + 1)
    PROVE  /\ n % 2 # 0 => n \in 1..(MaxRead + DataByte + 1) /\ (n - 1) % 2 = 0
           /\ n % 2 = 0 /\ n # 0 => n \in 1..(MaxRead + DataByte + 1) /\ (n - 1) % 2 = 1
           /\ n # 0 => n - 1 \in 0..(MaxRead + DataByte + 1)
<1> DEFINE k == MaxRead + DataByte + 1
<1>1. k \in Nat
  BY BoundsAssumption
<1> HIDE DEF k
<1>2. n \in 0..k
  BY DEF k
<1>3. /\ n % 2 # 0 => n \in 1..k /\ (n - 1) % 2 = 0
      /\ n % 2 = 0 /\ n # 0 => n \in 1..k /\ (n - 1) % 2 = 1
      /\ n # 0 => n - 1 \in 0..k
  BY <1>1, <1>2
<1> QED
  BY <1>3 DEF k

\* The master is told that its question was answered, or is asked itself.
LEMMA MasterFinishKeeps ==
    ASSUME FileInv, job.kind = "file", FileFinish("master")
    PROVE  FileInv'
<1> DEFINE n == Head(net["master"]).n
           y == Finish(M, n)
<1>1. /\ net["master"] # <<>> /\ Head(net["master"]).cmd = "FINISH" /\ ~M.stop
      /\ Step("master", y, Rest("master")) /\ UNCHANGED disk
  BY DEF FileFinish, Receives, M
<1>2. /\ net["master"][1] = Head(net["master"]) /\ n \in 0..(MaxRead + DataByte + 1)
      /\ 1 \in At("master", "FINISH")
      /\ 1 \in Finishes("master", 0) <=> n % 2 = 0
      /\ M \in EndX /\ M.out = <<>> /\ EndOK(M) /\ M.cur = 1 /\ ~M.isDir
      /\ OpenRequest \notin M.pending
  BY <1>1, FinishHead, EndsAre DEF M
<1>3. /\ TypeOK /\ ReadsOK /\ DiskOK /\ FinishOK /\ (Healthy => HealthyOK)
      /\ M.indexIO \in Nat /\ Size \in Nat
  BY FileInvParts, PieceTypes DEF Shared
<1>4. CASE n % 2 = 0
  <2>1. n = 0 /\ M.failed
    BY <1>2, <1>3, <1>4 DEF FinishOK
  <2>2. y = Finish(M, 0)
    BY <2>1
  <2> HIDE DEF y
  <2>3. /\ y \in EndX /\ SameTask(M, y) /\ SamePool(M, y) /\ SameFds(M, y)
        /\ SameFlags(M, y) /\ y.indexIO = M.indexIO
        /\ y.said = "OK" => M.indexIO >= FileSize(M) \/ ~M.failed
        /\ y.out = IF M.stop THEN <<>> ELSE <<Msg("CHANNEL_CLOSE", 1)>>
    BY <2>2, <1>2, FinishEnds
  <2>4. FileSize(M) = Size
    BY <1>2 DEF FileSize, Size
  <2>5. y.said = "OK" => Complete
    <3>1. y.said = "OK" => Size = 0 /\ M.indexIO = 0
      BY <2>1, <2>3, <2>4, <1>3 DEF ReadsOK
    <3>2. 0..(0 - 1) = {}
      OBVIOUS
    <3> QED
      BY <3>1, <3>2, <1>3 DEF DiskOK, Complete
  <2>6. EndOK(y) /\ (HealthyEnd(M) => HealthyEnd(y))
    BY <1>2, <2>3, FinishEndsEnd
  <2>7. Msg("CHANNEL_CLOSE", 1) \in Message /\ Msg("CHANNEL_CLOSE", 1).cmd = "CHANNEL_CLOSE"
    BY SmallNumbers, CloseMessage
  <2>8. /\ y.pending = M.pending /\ y.ioFinish = M.ioFinish /\ y.failed = M.failed
        /\ y.closeNotify = M.closeNotify /\ y.closeReqSubmitted = M.closeReqSubmitted
        /\ y.out = <<Msg("CHANNEL_CLOSE", 1)>>
    BY <2>3, <1>1 DEF SamePool, SameFlags
  <2> QED
    BY <1>1, <2>3, <2>5, <2>6, <2>7, <2>8, MasterAnswers
<1>5. CASE n % 2 # 0
  <2>1. n \in 1..(MaxRead + DataByte + 1) /\ n - 1 \in 0..(MaxRead + DataByte + 1) /\ (n - 1) % 2 = 0
    <3>1. n # 0
      BY <1>2, <1>5
    <3> QED
      BY <3>1, <1>2, <1>5, OddBefore
  <2> HIDE DEF n
  <2>2. Answered(M, n, y)
    BY <2>1, <1>2, FinishAnswers
  <2> HIDE DEF y
  <2>3. /\ y \in EndX /\ SameTask(M, y) /\ SamePool(M, y) /\ SameSaid(M, y)
        /\ y.openFds = IF M.isFdOpen THEN M.openFds \ {M.fd} ELSE M.openFds
        /\ ~y.isFdOpen /\ y.ioFinish /\ y.closeNotify = M.closeNotify
        /\ y.closeReqSubmitted = M.closeReqSubmitted /\ y.failed = M.failed
        /\ y.out = <<Msg("FINISH", n - 1)>>
    BY <2>2, <1>1 DEF Answered
  <2>4. Healthy => ~M.isFdOpen
    <3>1. Healthy => M.ioFinish /\ ~M.failed
      BY <1>2, <1>3, HealthyIs DEF HealthyOK
    <3> QED
      BY <3>1, <1>2 DEF EndOK, FdsOK
  <2>5. /\ EndOK(y)
        /\ ~M.isFdOpen /\ y.openFds = M.openFds => (HealthyEnd(M) => HealthyEnd(y))
    BY <1>2, <2>3, ClosedNowEnd
  <2>6. Healthy => (HealthyEnd(M) => HealthyEnd(y))
    BY <2>3, <2>4, <2>5
  <2>7. /\ Msg("FINISH", n - 1) \in Message /\ Msg("FINISH", n - 1).cmd = "FINISH"
        /\ Msg("FINISH", n - 1).n = n - 1
    BY <2>1, FinishMessage
  <2>8. Msg("FINISH", n - 1).n % 2 = 0 /\ 1 \notin Finishes("master", 0)
    BY <2>1, <2>7, <1>2, <1>5
  <2>9. y.pending = M.pending /\ y.indexIO = M.indexIO /\ y.said = M.said
    BY <2>3 DEF SamePool, SameSaid
  <2> QED
    BY <1>1, <2>3, <2>5, <2>6, <2>7, <2>8, <2>9, MasterAnswers
<1> QED
  BY <1>4, <1>5

LEMMA DiskWhole ==
    ASSUME FileInv, S.indexIO >= Size
    PROVE  Complete
<1>1. /\ DiskOK /\ M.indexIO \in Nat /\ M.indexIO <= Size /\ Size \in Nat /\ S.indexIO \in Nat
  BY FileInvParts, PieceTypes DEF Shared, ReadsOK
<1>2. IsFiniteSet(0..(Size - 1)) /\ Cardinality(0..(Size - 1)) = Size
  <2>1. 0 + Size - 1 = Size - 1
    BY <1>1
  <2> QED
    BY <2>1, <1>1, IntervalIs
<1>3. disk[1] \subseteq 0..(Size - 1)
  BY <1>1 DEF DiskOK
<1>4. Cardinality(disk[1]) <= Size /\ Cardinality(disk[1]) \in Nat
  BY <1>2, <1>3, FS_Subset, FS_CardinalityType
<1>5. Cardinality(disk[1]) = Size
  BY <1>1, <1>4 DEF DiskOK
<1>6. disk[1] = 0..(Size - 1)
  BY <1>2, <1>3, <1>5, FS_Subset
<1> QED
  BY <1>6 DEF Complete

\* The master, whose read failed, is answered.
LEMMA AnswerSent ==
    ASSUME NEW m \in Message, Appends(net["master"], net'["master"], m),
           net \in [Ends -> Seq(Message)], m.cmd = "FINISH", m.n = 0, M'.failed
    PROVE  AnswersKept /\ Finishes("master", 0)' # {}
<1>1. /\ \A i \in DOMAIN net'["master"] :
             i \in DOMAIN net["master"] \/ i = Len(net["master"]) + 1
      /\ Len(net["master"]) + 1 \in DOMAIN net'["master"]
      /\ net'["master"][Len(net["master"]) + 1] = m
      /\ \A i \in DOMAIN net["master"] : net'["master"][i] = net["master"][i]
  BY DEF Appends
<1>2. m.n % 2 = 0
  OBVIOUS
<1>3. Len(net["master"]) + 1 \in Finishes("master", 0)'
  BY <1>1, <1>2 DEF Finishes, At
<1>4. \A i \in Finishes("master", 1)' : i \in Finishes("master", 1)
  BY <1>1, <1>2 DEF Finishes, At
<1>5. \A i \in Finishes("master", 0)' :
          \/ i \in Finishes("master", 0) /\ net'["master"][i].n = net["master"][i].n
          \/ net'["master"][i].n = 0 /\ M'.failed
  BY <1>1 DEF Finishes, At
<1> QED
  BY <1>3, <1>4, <1>5 DEF AnswersKept

\* What the slave sends is the answer or the end of the task.
LEMMA SlaveAnswers ==
    ASSUME FileInv, net["slave"] # <<>>, Head(net["slave"]).cmd = "FINISH", ~S.stop,
           NEW y \in EndX, Step("slave", y, Rest("slave")), UNCHANGED disk,
           EndOK(y), SameTask(S, y), y.pending = S.pending, y.indexIO = S.indexIO,
           S.ioFinish => y.ioFinish, y.failed = S.failed, y.closeNotify = S.closeNotify,
           y.said = "OK" => S.said = "OK" \/ Complete \/ Early,
           NEW m \in Message, y.out = <<m>>,
           \/ m.cmd = "FINISH" /\ m.n = 0 /\ 1 \in Finishes("slave", 1)
           \/ m.cmd = "CHANNEL_CLOSE" /\ y.ioFinish = S.ioFinish /\ y.isFdOpen = S.isFdOpen,
           Healthy => (HealthyEnd(S) => HealthyEnd(y))
    PROVE  FileInv'
<1>1. /\ TypeOK /\ EndOK(S) /\ CommandsOK /\ StageOK /\ ReadsOK /\ PiecesOK
      /\ DiskOK /\ FinishOK /\ (Healthy => HealthyOK)
      /\ net \in [Ends -> Seq(Message)] /\ net["master"] \in Seq(Message)
      /\ net["slave"] \in Seq(Message) /\ S \in EndX
      /\ disk \in [Files -> SUBSET (0..(MaxBlocks - 1))]
  BY FileInvParts, TypeFacts, EndsAre DEF Shared
<1>2. /\ Started /\ net["slave"][1].cmd = "FINISH" /\ OpenRequest \notin S.pending
      /\ Rest("slave") \in [Ends -> Seq(Message)] /\ Rest("slave")["master"] = net["master"]
      /\ ReadsFrom("slave", 1, Rest("slave")["slave"]) /\ 1 \in {0, 1}
  BY FinishHead, EndsAre DEF S
<1>3. Sends(y, Answers) /\ y.begun = S.begun /\ y.cur = S.cur /\ y.stop = S.stop
  BY DEF Sends, Answers, SameTask
<1>4. /\ job' = job /\ M' = M /\ S' \in EndX /\ Same(y, S')
      /\ end' \in [Ends -> EndX] /\ \A e \in Ends : end'[e].out = <<>>
      /\ net' \in [Ends -> Seq(Message)]
      /\ From(net["slave"], net'["slave"], 1, Commands)
      /\ To(net["slave"], net'["slave"], 1, Commands)
      /\ To(net["master"], net'["master"], 0, Commands)
      /\ Appends(net["master"], net'["master"], m)
      /\ Started' /\ StageOK' /\ CommandsOK'
  BY <1>1, <1>2, <1>3, SlaveMoves
<1>5. EndOK(S') /\ (HealthyEnd(y) => HealthyEnd(S'))
  BY <1>4, SameEnd
<1>6. /\ S'.pending = S.pending /\ S'.failed = S.failed /\ S'.indexIO = S.indexIO
      /\ S'.said = y.said /\ S'.stop = S.stop /\ S'.ioFinish = y.ioFinish
      /\ S'.closeNotify = S.closeNotify /\ S'.isFdOpen = y.isFdOpen
  BY <1>3, <1>4 DEF Same, SameTask, SameFlags, SamePool, SameSaid
<1>13. (Healthy' => Healthy) /\ (Early => Early')
  BY <1>3, <1>4, <1>6, SlaveHistory DEF Same, SameTask
<1>7. From(net["slave"], net'["slave"], 1, {"DATA"}) /\ From(net["slave"], net'["slave"], 1, {"FINISH"})
  <2>1. {"DATA"} \subseteq Commands /\ {"FINISH"} \subseteq Commands
    BY DEF Commands
  <2> QED
    BY <2>1, <1>4, LessFrom
<1>8. PiecesOK'
  BY <1>1, <1>2, <1>4, <1>6, <1>7, PiecesFrame DEF Writes
<1>9. DiskOK'
  BY <1>1, <1>4, <1>6, DiskFrame
<1>10. Complete' <=> Complete
  BY <1>4 DEF Complete, Size
<1>11. CASE m.cmd = "FINISH"
  <2>1. m.n = 0 /\ 1 \in Finishes("slave", 1)
    BY <1>11
  <2>2. /\ M.failed /\ \A j \in At("slave", "DATA") : j < 1
        /\ \A j \in Finishes("slave", 1) : j = 1
    BY <2>1, <1>1 DEF FinishOK, MasterAsksOK
  <2>3. \A i \in DOMAIN net["slave"] : i \in Nat \ {0}
    BY <1>1, PieceTypes
  <2>4. \A i \in DOMAIN net'["slave"] : i \in Nat \ {0}
    <3>1. net'["slave"] \in Seq(Message)
      BY <1>4, EndsAre
    <3> QED
      BY <3>1
  <2>5. At("slave", "DATA")' = {}
    BY <1>7, <2>2, <2>3, <2>4 DEF At, From
  <2>6. Finishes("slave", 1)' = {}
    BY <1>7, <2>2, <2>4 DEF Finishes, At, From
  <2>7. AnswersKept /\ Finishes("master", 0)' # {}
    BY <2>1, <2>2, <1>1, <1>4, <1>11, AnswerSent
  <2>8. SlaveDoneOK'
    BY <2>2, <2>5, <2>6, <2>7, <1>4 DEF SlaveDoneOK
  <2>9. ~Healthy'
    BY <2>2, <1>13, HealthyIs
  <2> QED
    BY <2>7, <2>8, <2>9, <1>1, <1>2, <1>4, <1>5, <1>6, <1>8, <1>9, <1>10, <1>13, SlaveInv DEF ReadsOK
<1>12. CASE m.cmd = "CHANNEL_CLOSE"
  <2>1. From(net["master"], net'["master"], 0, {"FINISH"})
    BY <1>4, <1>12, AppendsKeeps
  <2>2. AnswersKept
    BY <2>1, <1>1, <1>4, NoAskSent
  <2>3. y.ioFinish = S.ioFinish /\ y.isFdOpen = S.isFdOpen
    BY <1>12
  <2>4. Healthy' => HealthyOK'
    <3> SUFFICES ASSUME Healthy, Healthy'
                 PROVE  HealthyOK'
      BY <1>13
    <3>1. HealthyOK /\ HealthyEnd(S')
      BY <1>1, <1>5 DEF HealthyOK
    <3>2. IsOpen(S) => IsOpen(S')
      BY <2>3, <1>6 DEF IsOpen
    <3>3. At("slave", "DATA")' # {} => At("slave", "DATA") # {}
      BY <1>7 DEF At, From
    <3>4. 1 \in At("slave", "FINISH")
      BY FinishHead, EndsAre
    <3>5. S.ioFinish /\ S'.ioFinish
      BY <3>1, <3>4, <2>3, <1>6 DEF HealthyOK
    <3> QED
      BY <3>1, <3>2, <3>3, <3>5, <1>4, SlaveHealthy
  <2>5. (S'.ioFinish => S.ioFinish)
    BY <2>3, <1>6
  <2> QED
    BY <2>2, <2>4, <2>5, <1>1, <1>2, <1>4, <1>5, <1>6, <1>8, <1>9, <1>10, <1>13, SlaveInv DEF ReadsOK
<1> QED
  BY <1>11, <1>12

\* The slave is told that the master lost the file, or that its question was
\* answered.
LEMMA SlaveFinishKeeps ==
    ASSUME FileInv, job.kind = "file", FileFinish("slave")
    PROVE  FileInv'
<1> DEFINE n == Head(net["slave"]).n
           y == Finish(S, n)
<1>1. /\ net["slave"] # <<>> /\ Head(net["slave"]).cmd = "FINISH" /\ ~S.stop
      /\ Step("slave", y, Rest("slave")) /\ UNCHANGED disk
  BY DEF FileFinish, Receives, S
<1>2. /\ Started /\ net["slave"][1] = Head(net["slave"]) /\ n \in 0..(MaxRead + DataByte + 1)
      /\ 1 \in At("slave", "FINISH") /\ net["slave"][1].cmd = "FINISH"
      /\ 1 \in Finishes("slave", 0) \/ 1 \in Finishes("slave", 1)
      /\ 1 \in Finishes("slave", 0) <=> n % 2 = 0
      /\ S \in EndX /\ S.out = <<>> /\ EndOK(S) /\ S.cur = 1 /\ ~S.isDir
      /\ OpenRequest \notin S.pending
      /\ Rest("slave") \in [Ends -> Seq(Message)] /\ Rest("slave")["master"] = net["master"]
      /\ ReadsFrom("slave", 1, Rest("slave")["slave"]) /\ 1 \in {0, 1}
  BY <1>1, FinishHead, EndsAre DEF S
<1>3. /\ TypeOK /\ FinishOK /\ (Healthy => HealthyOK)
  BY FileInvParts DEF Shared
<1>4. n % 2 = 0 => S.failed \/ Complete \/ Early
  <2>1. \A j \in At("slave", "CHANNEL_CLOSE") : ~(j < 1)
    BY <1>3, PieceTypes DEF At
  <2>2. n % 2 = 0 => AnswerOK(1)
    BY <1>2, <1>3 DEF FinishOK
  <2> QED
    BY <2>1, <2>2, <1>1 DEF AnswerOK, Resolved
<1>5. CASE n = 0
  <2>1. y = Finish(S, 0)
    BY <1>5
  <2>2. n % 2 = 0
    BY <1>5
  <2> HIDE DEF y, n
  <2>3. /\ y \in EndX /\ SameTask(S, y) /\ SamePool(S, y) /\ SameFds(S, y)
        /\ SameFlags(S, y) /\ y.indexIO = S.indexIO
        /\ y.said = "OK" => S.indexIO >= FileSize(S) \/ ~S.failed
        /\ y.out = IF S.stop THEN <<>> ELSE <<Msg("CHANNEL_CLOSE", 1)>>
    BY <2>1, <1>2, FinishEnds
  <2>4. FileSize(S) = Size
    BY <1>2 DEF FileSize, Size
  <2>5. y.said = "OK" => Complete \/ Early
    BY <2>2, <2>3, <2>4, <1>4, DiskWhole
  <2>6. EndOK(y) /\ (HealthyEnd(S) => HealthyEnd(y))
    BY <1>2, <2>3, FinishEndsEnd
  <2>7. Msg("CHANNEL_CLOSE", 1) \in Message /\ Msg("CHANNEL_CLOSE", 1).cmd = "CHANNEL_CLOSE"
    BY SmallNumbers, CloseMessage
  <2>8. /\ y.pending = S.pending /\ y.ioFinish = S.ioFinish /\ y.failed = S.failed
        /\ y.closeNotify = S.closeNotify /\ y.isFdOpen = S.isFdOpen
        /\ y.out = <<Msg("CHANNEL_CLOSE", 1)>>
    BY <2>3, <1>1 DEF SamePool, SameFlags
  <2> QED
    BY <1>1, <2>3, <2>5, <2>6, <2>7, <2>8, SlaveAnswers
<1>6. ASSUME n # 0
      PROVE  /\ n \in 1..(MaxRead + DataByte + 1) /\ n - 1 \in 0..(MaxRead + DataByte + 1)
             /\ n % 2 = 0 => (n - 1) % 2 = 1
  <2> HIDE DEF n
  <2>1. n % 2 = 0 \/ n % 2 # 0
    OBVIOUS
  <2> QED
    BY <2>1, <1>2, <1>6, OddBefore
<1>7. ASSUME n # 0
      PROVE  /\ y \in EndX /\ EndOK(y) /\ SameTask(S, y) /\ SamePool(S, y) /\ SameSaid(S, y)
             /\ ~y.isFdOpen /\ y.ioFinish /\ y.closeNotify = S.closeNotify
             /\ y.closeReqSubmitted = S.closeReqSubmitted /\ y.failed = S.failed
             /\ y.out = <<Msg("FINISH", n - 1)>>
             /\ Healthy => (HealthyEnd(S) => HealthyEnd(y))
             /\ Msg("FINISH", n - 1) \in Message /\ Msg("FINISH", n - 1).cmd = "FINISH"
             /\ Msg("FINISH", n - 1).n = n - 1
  <2> HIDE DEF n
  <2>2. Answered(S, n, y)
    BY <1>6, <1>7, <1>2, FinishAnswers
  <2> HIDE DEF y
  <2>3. /\ y \in EndX /\ SameTask(S, y) /\ SamePool(S, y) /\ SameSaid(S, y)
        /\ y.openFds = IF S.isFdOpen THEN S.openFds \ {S.fd} ELSE S.openFds
        /\ ~y.isFdOpen /\ y.ioFinish /\ y.closeNotify = S.closeNotify
        /\ y.closeReqSubmitted = S.closeReqSubmitted /\ y.failed = S.failed
        /\ y.out = <<Msg("FINISH", n - 1)>>
    BY <2>2, <1>1 DEF Answered
  <2>4. Healthy => ~S.isFdOpen
    <3>1. Healthy => S.ioFinish /\ ~S.failed
      BY <1>2, <1>3, HealthyIs DEF HealthyOK
    <3> QED
      BY <3>1, <1>2 DEF EndOK, FdsOK
  <2>5. /\ EndOK(y)
        /\ ~S.isFdOpen /\ y.openFds = S.openFds => (HealthyEnd(S) => HealthyEnd(y))
    BY <1>2, <2>3, ClosedNowEnd
  <2>6. Healthy => (HealthyEnd(S) => HealthyEnd(y))
    BY <2>3, <2>4, <2>5
  <2>7. /\ Msg("FINISH", n - 1) \in Message /\ Msg("FINISH", n - 1).cmd = "FINISH"
        /\ Msg("FINISH", n - 1).n = n - 1
    BY <1>6, <1>7, FinishMessage
  <2> QED
    BY <2>3, <2>5, <2>6, <2>7
<1>8. CASE n # 0 /\ n % 2 = 0
  <2> DEFINE m == Msg("FINISH", n - 1)
  <2>1. m \in Message /\ m.cmd = "FINISH" /\ m.n % 2 = 1 /\ y.out = <<m>>
    BY <1>6, <1>7, <1>8
  <2> HIDE DEF m, y, n
  <2>5. y.failed \/ Complete \/ M.early \/ y.early
    BY <1>4, <1>7, <1>8, EarlyIs DEF SameTask
  <2>2. \E z \in Message :
            /\ z.cmd = "FINISH" /\ z.n % 2 = 1 /\ y.out = <<z>>
            /\ y.failed \/ Complete \/ M.stop \/ S.stop
               \/ (\E j \in At("slave", "CHANNEL_CLOSE") : j > 1)
               \/ Finishes("master", 0) # {} \/ M.early \/ y.early
    BY <2>1, <2>5
  <2>3. /\ y.begun = S.begun /\ y.cur = S.cur /\ y.stop = S.stop
        /\ y.indexIO = S.indexIO /\ y.said = S.said
        /\ OpenRequest \notin y.pending /\ \A p \in y.pending : p \in S.pending
    BY <1>2, <1>7, <1>8 DEF SameTask, SameSaid, SamePool
  <2>4. Healthy => S.ioFinish
    BY <1>2, <1>3 DEF HealthyOK
  <2>6. (S.early => y.early) /\ (S.broken => y.broken)
    BY <1>7, <1>8 DEF SameTask
  <2> QED
    BY <1>1, <1>2, <1>7, <1>8, <2>2, <2>3, <2>4, <2>5, <2>6, SlaveSends
<1>9. CASE n # 0 /\ n % 2 # 0
  <2> DEFINE m == Msg("FINISH", n - 1)
  <2>1. 1 \in Finishes("slave", 1)
    BY <1>2, <1>9
  <2>2. n = 1
    BY <2>1, <1>2, <1>3 DEF FinishOK, MasterAsksOK
  <2>3. m \in Message /\ m.cmd = "FINISH" /\ m.n = 0 /\ y.out = <<m>>
    BY <2>2, <1>7, <1>9
  <2> HIDE DEF m, y, n
  <2>5. y.pending = S.pending /\ y.indexIO = S.indexIO /\ y.said = S.said
    BY <1>7, <1>9 DEF SamePool, SameSaid
  <2> QED
    BY <1>1, <1>7, <1>9, <2>1, <2>3, <2>5, SlaveAnswers
<1> QED
  BY <1>5, <1>8, <1>9

-----------------------------------------------------------------------------
(* The file is opened at both ends *)

LEMMA OpeningInv ==
    ASSUME TypeOK, job' = job, end' \in [Ends -> EndX], \A e \in Ends : end'[e].out = <<>>,
           net' \in [Ends -> Seq(Message)], disk' \in [Files -> SUBSET (0..(MaxBlocks - 1))],
           EndOK(M'), EndOK(S'), StageOK', CommandsOK', Quiet',
           \A r \in M'.pending : r.op # "write", \A r \in S'.pending : r.op # "read",
           disk'[1] = {}, S'.indexIO = 0,
           Healthy' => HealthyOK'
    PROVE  FileInv'
<1>1. /\ Reads' = {} /\ At("slave", "DATA")' = {} /\ Writes' = {}
      /\ M'.indexIO = 0 /\ ~M'.ioFinish /\ ~S'.ioFinish
      /\ At("master", "FINISH")' = {} /\ At("slave", "FINISH")' = {}
      /\ M'.said = "none" /\ S'.said = "none"
  BY DEF Quiet
<1>2. ~M'.failed /\ ~M'.closeNotify /\ ~S'.failed /\ ~S'.closeNotify
  BY <1>1 DEF EndOK, FdsOK
<1>3. Size' \in Nat
  <2>1. Size \in Nat /\ Size' = Size
    BY PieceTypes DEF Size
  <2> QED
    BY <2>1
<1>4. ReadsOK'
  BY <1>1, <1>2, <1>3 DEF ReadsOK
<1>5. PiecesOK'
  BY <1>1 DEF PiecesOK
<1>6. DiskOK'
  BY <1>1, FS_EmptySet DEF DiskOK
<1>7. \A e \in Ends : Finishes(e, 0)' = {} /\ Finishes(e, 1)' = {}
  BY <1>1, EndsAre DEF Finishes
<1>8. FinishOK'
  BY <1>1, <1>2, <1>7, EndsAre DEF FinishOK, MasterAsksOK, SlaveDoneOK
<1> QED
  BY <1>4, <1>5, <1>6, <1>8, InvFrom

\* Nothing was copied before the slave has its copy open.
LEMMA NotYet ==
    ASSUME FileInv, S.cur = 0 \/ Opens("slave")
    PROVE  /\ Quiet /\ At("master", "BEGIN") = {} /\ disk[1] = {} /\ S.indexIO = 0
           /\ Unopened(S) /\ EndOK(S) /\ EndOK(M) /\ TypeOK /\ CommandsOK /\ StageOK
           /\ M \in EndX /\ S \in EndX /\ M.out = <<>> /\ S.out = <<>>
           /\ net \in [Ends -> Seq(Message)] /\ disk \in [Files -> SUBSET (0..(MaxBlocks - 1))]
           /\ \A r \in M.pending : r.op # "write"
           /\ \A r \in S.pending : r.op # "read"
<1>1. /\ TypeOK /\ EndOK(S) /\ EndOK(M) /\ StageOK /\ DiskOK /\ CommandsOK /\ ReadsOK
      /\ M \in EndX /\ S \in EndX /\ M.out = <<>> /\ S.out = <<>>
      /\ net \in [Ends -> Seq(Message)] /\ disk \in [Files -> SUBSET (0..(MaxBlocks - 1))]
  BY FileInvParts, TypeFacts DEF Shared
<1>2. Quiet /\ At("master", "BEGIN") = {}
  BY <1>1 DEF StageOK
<1>3. Unopened(S)
  BY <1>1 DEF EndOK, Opens, S
<1>4. disk[1] = {}
  <2>1. 0..(0 - 1) = {}
    OBVIOUS
  <2> QED
    BY <2>1, <1>1, <1>2 DEF DiskOK, Quiet
<1> QED
  BY <1>1, <1>2, <1>3, <1>4 DEF Unopened, ReadsOK

\* An end whose file is being opened.
LEMMA OpeningEnd ==
    ASSUME NEW x, EndOK(x), x.cur = 0, NEW y, SameFlags(x, y), SameFds(x, y),
           y.bufs = x.bufs, y.indexIO = x.indexIO, y.released = x.released, ~y.isDir, y.dirMode = 0,
           ~x.released,
           y.cur = 1,
           \/ y.pending = {} /\ y.refCount = x.refCount
           \/ y.pending = {OpenRequest} /\ y.refCount = x.refCount + 1
    PROVE  EndOK(y) /\ HealthyEnd(y)
<1>1. /\ PoolOK(x) /\ FdsOK(x) /\ Unopened(x) /\ x.pending = {}
  BY DEF EndOK, PoolOK
<1>2. PoolOK(y)
  <2>1. CASE y.pending = {} /\ y.refCount = x.refCount
    BY <2>1, <1>1, PoolSame DEF SameFlags
  <2>2. CASE y.pending = {OpenRequest} /\ y.refCount = x.refCount + 1
    <3>1. y.pending = x.pending \cup {OpenRequest} /\ OpenRequest \notin x.pending
      BY <2>2, <1>1
    <3>2. OpenRequest.op = "open"
      BY OpenRequestIs
    <3> QED
      BY <2>2, <3>1, <3>2, <1>1, PoolSubmits DEF Plain, SameFlags
  <2> QED
    BY <2>1, <2>2
<1>3. FdsOK(y) /\ Unopened(y)
  BY <1>1 DEF FdsOK, Unopened, SameFlags, SameFds
<1>4. HealthyEnd(y)
  BY <1>1, OpenRequestIs DEF HealthyEnd, FdsOK, Unopened, SameFlags, SameFds
<1> QED
  BY <1>2, <1>3, <1>4 DEF EndOK, PoolOK

\* An end whose file is open.
LEMMA OpenedEnd ==
    ASSUME NEW x, EndOK(x), OpenRequest \in x.pending, NEW y, SameTask(x, y),
           y.pending = x.pending \ {OpenRequest}, y.refCount = x.refCount - 1, y.bufs = x.bufs,
           y.openFds = x.openFds \cup {y.fd}, y.isFdOpen, ~y.ioFinish, ~y.closeNotify,
           ~y.closeReqSubmitted, ~y.failed, y.indexIO = 0
    PROVE  EndOK(y) /\ HealthyEnd(y) /\ y.pending = {} /\ y.cur = 1
<1>1. /\ PoolOK(x) /\ FdsOK(x) /\ Unopened(x) /\ x.pending = {OpenRequest} /\ x.cur = 1
      /\ ~x.isDir /\ x.dirMode = 0
  BY DEF EndOK, PoolOK, Unopened
<1>2. OpenRequest.op = "open"
  BY OpenRequestIs
<1>3. PoolOK(y)
  BY <1>1, <1>2, PoolPlainDone DEF Plain
<1>4. y.openFds = {y.fd} /\ y.pending = {}
  BY <1>1 DEF Unopened
<1>5. FdsOK(y)
  BY <1>1, <1>4 DEF FdsOK, SameTask
<1>6. HealthyEnd(y)
  BY <1>4 DEF HealthyEnd
<1> QED
  BY <1>1, <1>3, <1>4, <1>5, <1>6, EndFrom DEF SameTask

LEMMA OneFile ==
    ASSUME job \in Jobs, job.kind = "file"
    PROVE  /\ AllFiles \in Queues /\ Last(AllFiles) = 1 /\ Front(AllFiles) \in Queues
           /\ 1 \in Files /\ (job.kind = "dir") = FALSE
<1>1. job.count = 1 /\ 1 \in Files
  BY BoundsAssumption DEF Jobs, Files
<1>2. AllFiles \in Seq(Files) /\ Len(AllFiles) = 1 /\ AllFiles[1] = 1
  BY <1>1 DEF AllFiles
<1>3. Last(AllFiles) = 1
  BY <1>2 DEF Last
<1>4. Front(AllFiles) \in Seq(Files)
  BY <1>2 DEF Front
<1> QED
  BY <1>1, <1>2, <1>3, <1>4 DEF Queues

\* A file is opened.
LEMMA OpenIs ==
    ASSUME NEW x \in EndX, NEW f \in Files, x.pending = {}, NEW y, y = Open(x, f)
    PROVE  /\ y \in EndX /\ y.out = x.out /\ y.cur = f
           /\ SameFlags(x, y) /\ SameFds(x, y) /\ SameSaid(x, y)
           /\ y.begun = x.begun /\ y.stop = x.stop /\ y.released = x.released
           /\ y.isDir = x.isDir /\ y.dirMode = x.dirMode
           /\ y.early = x.early /\ y.broken = x.broken
           /\ y.pending = {OpenRequest} /\ y.refCount = x.refCount + 1 /\ y.bufs = x.bufs
<1>1. x.refCount + 1 \in Int /\ {OpenRequest} \in Requests /\ f \in FileOrNone
  BY EndTypes, OpenRequestIs DEF Requests, FileOrNone
<1> DEFINE z == [x EXCEPT !.cur = f]
<1>2. /\ z \in EndX /\ z.out = x.out /\ z.cur = f /\ z.pending = {}
      /\ SameFlags(x, z) /\ SameFds(x, z) /\ SameSaid(x, z)
      /\ z.begun = x.begun /\ z.stop = x.stop /\ z.released = x.released
      /\ z.isDir = x.isDir /\ z.dirMode = x.dirMode
      /\ z.early = x.early /\ z.broken = x.broken /\ z.refCount = x.refCount /\ z.bufs = x.bufs
  BY <1>1 DEF EndX, SameFlags, SameFds, SameSaid
<1>3. y = [z EXCEPT !.pending = z.pending \cup {OpenRequest}, !.refCount = z.refCount + 1]
  BY DEF Open, Submit
<1> HIDE DEF z
<1>4. z.pending \cup {OpenRequest} = {OpenRequest} /\ z.refCount + 1 = x.refCount + 1
  BY <1>2
<1>5. y = [z EXCEPT !.pending = {OpenRequest}, !.refCount = x.refCount + 1]
  BY <1>3, <1>4
<1>6. /\ y \in EndX /\ y.out = z.out /\ y.cur = z.cur
      /\ SameFlags(z, y) /\ SameFds(z, y) /\ SameSaid(z, y)
      /\ y.begun = z.begun /\ y.stop = z.stop /\ y.released = z.released
      /\ y.isDir = z.isDir /\ y.dirMode = z.dirMode
      /\ y.early = z.early /\ y.broken = z.broken
      /\ y.pending = {OpenRequest} /\ y.refCount = x.refCount + 1 /\ y.bufs = z.bufs
  BY <1>1, <1>2, <1>5 DEF EndX, SameFlags, SameFds, SameSaid
<1> QED
  BY <1>2, <1>6 DEF SameFlags, SameFds, SameSaid

LEMMA BeginTransferIs ==
    ASSUME job \in Jobs, job.kind = "file", NEW x \in EndX, x.pending = {},
           NEW y, y = BeginTransfer(x)
    PROVE  /\ y \in EndX /\ y.out = x.out /\ y.cur = 1 /\ ~y.isDir /\ y.dirMode = 0
           /\ y.early = x.early /\ y.broken = x.broken
           /\ SameFlags(x, y) /\ SameFds(x, y) /\ SameSaid(x, y)
           /\ y.begun = x.begun /\ y.stop = x.stop /\ y.released = x.released
           /\ y.pending = {OpenRequest} /\ y.refCount = x.refCount + 1 /\ y.bufs = x.bufs
<1> DEFINE z == [x EXCEPT !.isDir = FALSE, !.queue = AllFiles, !.dirMode = 0]
           o == Open(z, 1)
<1>1. /\ AllFiles \in Queues /\ Last(AllFiles) = 1 /\ Front(AllFiles) \in Queues
      /\ 1 \in Files /\ (job.kind = "dir") = FALSE
  BY OneFile
<1>2. FALSE \in BOOLEAN /\ 0 \in Modes
  BY BoundsAssumption DEF Modes
<1>3. y = TransferNext(z)
  BY <1>1 DEF BeginTransfer
<1>4. /\ z \in EndX /\ z.out = x.out /\ ~z.isDir /\ z.queue = AllFiles /\ z.pending = {}
      /\ z.dirMode = 0 /\ z.early = x.early /\ z.broken = x.broken
      /\ SameFlags(x, z) /\ SameFds(x, z) /\ SameSaid(x, z)
      /\ z.begun = x.begun /\ z.stop = x.stop /\ z.released = x.released
      /\ z.refCount = x.refCount /\ z.bufs = x.bufs
  BY <1>1, <1>2 DEF EndX, SameFlags, SameFds, SameSaid
<1> HIDE DEF z
<1>5. y = [o EXCEPT !.queue = Front(AllFiles)]
  BY <1>1, <1>3, <1>4 DEF TransferNext, RunQueue
<1>6. /\ o \in EndX /\ o.out = z.out /\ o.cur = 1
      /\ SameFlags(z, o) /\ SameFds(z, o) /\ SameSaid(z, o)
      /\ o.begun = z.begun /\ o.stop = z.stop /\ o.released = z.released
      /\ o.isDir = z.isDir /\ o.dirMode = z.dirMode
      /\ o.early = z.early /\ o.broken = z.broken
      /\ o.pending = {OpenRequest} /\ o.refCount = z.refCount + 1 /\ o.bufs = z.bufs
  BY <1>1, <1>4, OpenIs
<1> HIDE DEF o
<1>7. /\ y \in EndX /\ y.out = o.out /\ y.cur = o.cur /\ y.isDir = o.isDir
      /\ y.dirMode = o.dirMode /\ y.early = o.early /\ y.broken = o.broken
      /\ SameFlags(o, y) /\ SameFds(o, y) /\ SameSaid(o, y)
      /\ y.begun = o.begun /\ y.stop = o.stop /\ y.released = o.released
      /\ y.pending = o.pending /\ y.refCount = o.refCount /\ y.bufs = o.bufs
  BY <1>1, <1>5, <1>6 DEF EndX, SameFlags, SameFds, SameSaid
<1> QED
  BY <1>4, <1>6, <1>7 DEF SameFlags, SameFds, SameSaid

\* The master opens the file and has the slave open its copy.
LEMMA MasterOpens ==
    ASSUME FileInv, S.cur = 0, Checks = {}, NEW y \in EndX, NEW k \in {0, 1},
           NEW rest \in [Ends -> Seq(Message)], rest["slave"] = net["slave"],
           ReadsFrom("master", k, rest["master"]), Step("master", y, rest), UNCHANGED disk,
           k = 0 => ModeAcks = {}, k = 1 => 1 \in ModeAcks,
           EndOK(y), y.begun, y.pending \subseteq {OpenRequest},
           y.indexIO = 0, ~y.ioFinish, y.said = M.said,
           M.early => y.early, M.broken => y.broken,
           \/ y.out = <<>>
           \/ \E m \in Message :
                  /\ y.out = <<m>>
                  /\ \/ m.cmd = "CHANNEL_CLOSE"
                     \/ /\ m.cmd \in {"CHECK", "MODE"} /\ m.file = 1
                        /\ y.cur # 0 /\ OpenRequest \notin y.pending /\ (Healthy => IsOpen(y)),
           Healthy => (HealthyEnd(M) => HealthyEnd(y))
    PROVE  FileInv'
<1>1. /\ Quiet /\ At("master", "BEGIN") = {} /\ disk[1] = {} /\ S.indexIO = 0
      /\ EndOK(S) /\ EndOK(M) /\ TypeOK /\ CommandsOK /\ StageOK /\ S.pending = {}
      /\ S \in EndX /\ S.out = <<>>
      /\ net \in [Ends -> Seq(Message)] /\ disk \in [Files -> SUBSET (0..(MaxBlocks - 1))]
      /\ net["slave"] \in Seq(Message) /\ net["master"] \in Seq(Message)
      /\ Healthy => HealthyOK
  BY NotYet, FileInvParts, EndsAre DEF EndOK
<1>3. /\ job' = job /\ S' = S /\ M' \in EndX /\ Same(y, M')
      /\ end' \in [Ends -> EndX] /\ \A e \in Ends : end'[e].out = <<>>
      /\ net' \in [Ends -> Seq(Message)]
      /\ From(net["master"], net'["master"], k, Commands)
      /\ y.out = <<>> => net'["slave"] = net["slave"]
      /\ \A m \in Message : y.out = <<m>> => Appends(net["slave"], net'["slave"], m)
  BY <1>1, MasterStep
<1>4. \A i \in DOMAIN net'["master"] :
          i + k \in DOMAIN net["master"] /\ net'["master"][i] = net["master"][i + k]
  <2>1. net'["master"] \in Seq(Message)
    BY <1>3, EndsAre
  <2>2. \A i \in DOMAIN net'["master"] : net'["master"][i].cmd \in Commands
    BY <2>1, MessageTypes
  <2> QED
    BY <2>2, <1>3 DEF From
<1>5. EndOK(M') /\ EndOK(S') /\ (HealthyEnd(y) => HealthyEnd(M'))
  BY <1>1, <1>3, SameEnd
<1>6. /\ M'.begun /\ M'.cur = y.cur /\ M'.pending = y.pending /\ M'.indexIO = 0 /\ ~M'.ioFinish
      /\ M'.said = M.said /\ (IsOpen(y) => IsOpen(M'))
  BY <1>3 DEF Same, SameTask, SameFlags, SamePool, SameSaid, IsOpen
<1>2. Healthy' => Healthy
  <2>1. ~M.failed
    BY <1>1 DEF EndOK, FdsOK, Quiet
  <2> QED
    BY <2>1, <1>3, MasterHistory DEF Same, SameTask
<1>7. \A i \in DOMAIN net'["slave"] :
          \/ i \in DOMAIN net["slave"] /\ net'["slave"][i] = net["slave"][i]
          \/ net'["slave"][i].cmd = "CHANNEL_CLOSE"
          \/ /\ net'["slave"][i].cmd \in {"CHECK", "MODE"} /\ net'["slave"][i].file = 1
             /\ y.cur # 0 /\ OpenRequest \notin y.pending /\ (Healthy => IsOpen(y))
             /\ i = Len(net["slave"]) + 1
  <2>1. CASE y.out = <<>>
    BY <2>1, <1>3
  <2>2. CASE y.out # <<>>
    <3>1. PICK m \in Message :
              /\ y.out = <<m>>
              /\ \/ m.cmd = "CHANNEL_CLOSE"
                 \/ /\ m.cmd \in {"CHECK", "MODE"} /\ m.file = 1
                    /\ y.cur # 0 /\ OpenRequest \notin y.pending /\ (Healthy => IsOpen(y))
      BY <2>2
    <3>2. Appends(net["slave"], net'["slave"], m)
      BY <3>1, <1>3
    <3> QED
      BY <3>1, <3>2 DEF Appends
  <2> QED
    BY <2>1, <2>2
<1>8. /\ At("slave", "DATA")' = {} /\ At("slave", "FINISH")' = {}
      /\ At("master", "BEGIN")' = {} /\ At("master", "FINISH")' = {}
  <2>1. At("slave", "DATA") = {} /\ At("slave", "FINISH") = {} /\ At("master", "FINISH") = {}
    BY <1>1 DEF Quiet
  <2>2. At("slave", "DATA")' = {} /\ At("slave", "FINISH")' = {}
    BY <2>1, <1>7 DEF At
  <2>3. At("master", "BEGIN")' = {} /\ At("master", "FINISH")' = {}
    BY <2>1, <1>1, <1>4 DEF At
  <2> QED
    BY <2>2, <2>3
<1>9. \A i \in Checks' :
          /\ i = Len(net["slave"]) + 1
          /\ y.cur # 0 /\ OpenRequest \notin y.pending /\ (Healthy => IsOpen(y))
  BY <1>7 DEF Checks, At
<1>16. ModeAcks' = {}
  <2>1. \A i \in ModeAcks' : i + k \in ModeAcks
    BY <1>4 DEF ModeAcks, At
  <2>2. \A i \in ModeAcks' : i \in Nat \ {0}
    <3>1. net'["master"] \in Seq(Message)
      BY <1>3, EndsAre
    <3> QED
      BY <3>1 DEF ModeAcks, At
  <2>3. CASE k = 0
    BY <2>1, <2>3
  <2>4. CASE k = 1
    <3>1. \A i \in ModeAcks' : i + 1 = 1
      BY <2>1, <2>4, <1>1 DEF StageOK
    <3> QED
      BY <3>1, <2>2
  <2> QED
    BY <2>3, <2>4
<1>10. /\ Reads' = {} /\ Writes' = {} /\ \A r \in M'.pending : r.op # "write"
       /\ \A r \in S'.pending : r.op # "read"
  BY <1>1, <1>3, <1>6, OpenRequestIs DEF Reads, Writes
<1>11. Quiet'
  BY <1>1, <1>3, <1>6, <1>8, <1>10 DEF Quiet
<1>12. ~Opens("slave")' /\ (Opens("master")' <=> OpenRequest \in y.pending)
  <2>1. OpenRequest' = OpenRequest
    BY DEF OpenRequest
  <2> QED
    BY <2>1, <1>1, <1>3, <1>6 DEF Opens, S, M
<1>13. StageOK'
  BY <1>3, <1>6, <1>8, <1>9, <1>11, <1>12, <1>16 DEF StageOK
<1>14. CommandsOK'
  <2>1. \A i \in DOMAIN net'["slave"] :
            /\ net'["slave"][i].cmd \in {"MODE", "CHECK", "DATA", "FINISH", "CHANNEL_CLOSE"}
            /\ net'["slave"][i].cmd = "CHECK" => net'["slave"][i].file = 1
    BY <1>1, <1>7 DEF CommandsOK
  <2>2. \A i \in DOMAIN net'["master"] :
            net'["master"][i].cmd \in {"MODE", "BEGIN", "FINISH", "CHANNEL_CLOSE"}
    BY <1>1, <1>4 DEF CommandsOK
  <2> QED
    BY <2>1, <2>2 DEF CommandsOK
<1>15. Healthy' => HealthyOK'
  <2> SUFFICES ASSUME Healthy, Healthy'
               PROVE  HealthyOK'
    BY <1>2
  <2>1. HealthyEnd(M') /\ HealthyEnd(S')
    BY <1>1, <1>3, <1>5 DEF HealthyOK
  <2>2. Checks' # {} => IsOpen(M')
    BY <1>6, <1>9
  <2> QED
    BY <2>1, <2>2, <1>8, <1>10, <1>11, <1>12, <1>16 DEF HealthyOK, Quiet
<1> QED
  BY <1>1, <1>3, <1>5, <1>10, <1>11, <1>13, <1>14, <1>15, OpeningInv

\* The slave opens its copy and asks for the file.
LEMMA SlaveOpens ==
    ASSUME FileInv, S.cur = 0 \/ Opens("slave"), M.cur # 0, ~Opens("master"), ModeAcks = {},
           NEW y \in EndX, NEW k \in {0, 1},
           NEW rest \in [Ends -> Seq(Message)], rest["master"] = net["master"],
           ReadsFrom("slave", k, rest["slave"]), Step("slave", y, rest),
           k = 0 => Checks = {}, k = 1 => 1 \in Checks,
           disk' \in [Files -> SUBSET (0..(MaxBlocks - 1))], disk'[1] = {},
           EndOK(y), y.pending \subseteq {OpenRequest},
           y.indexIO = 0, ~y.ioFinish, y.said = S.said,
           S.early => y.early, S.broken => y.broken,
           \/ y.out = <<>>
           \/ \E m \in Message :
                  /\ y.out = <<m>>
                  /\ \/ m.cmd = "CHANNEL_CLOSE"
                     \/ m.cmd = "MODE" /\ y.cur = 0
                     \/ m.cmd = "BEGIN" /\ y.cur # 0 /\ OpenRequest \notin y.pending /\ IsOpen(y),
           Healthy => IsOpen(M) /\ (HealthyEnd(S) => HealthyEnd(y))
    PROVE  FileInv'
<1>1. /\ Quiet /\ At("master", "BEGIN") = {}
      /\ EndOK(M) /\ EndOK(S) /\ TypeOK /\ CommandsOK /\ StageOK
      /\ M \in EndX /\ M.out = <<>>
      /\ \A r \in M.pending : r.op # "write"
      /\ net \in [Ends -> Seq(Message)]
      /\ net["slave"] \in Seq(Message) /\ net["master"] \in Seq(Message)
      /\ Healthy => HealthyOK
  BY NotYet, FileInvParts, EndsAre
<1>2. /\ job' = job /\ M' = M /\ S' \in EndX /\ Same(y, S')
      /\ end' \in [Ends -> EndX] /\ \A e \in Ends : end'[e].out = <<>>
      /\ net' \in [Ends -> Seq(Message)]
      /\ From(net["slave"], net'["slave"], k, Commands)
      /\ y.out = <<>> => net'["master"] = net["master"]
      /\ \A m \in Message : y.out = <<m>> => Appends(net["master"], net'["master"], m)
  BY <1>1, SlaveStep
<1>3. EndOK(M') /\ EndOK(S') /\ (HealthyEnd(y) => HealthyEnd(S'))
  BY <1>1, <1>2, SameEnd
<1>4. /\ S'.cur = y.cur /\ S'.pending = y.pending /\ S'.indexIO = 0 /\ ~S'.ioFinish
      /\ S'.said = S.said /\ (IsOpen(y) => IsOpen(S'))
  BY <1>2 DEF Same, SameTask, SameFlags, SamePool, SameSaid, IsOpen
<1>16. Healthy' => Healthy
  <2>1. ~S.failed
    BY <1>1 DEF EndOK, FdsOK, Quiet
  <2> QED
    BY <2>1, <1>2, SlaveHistory DEF Same, SameTask
<1>5. \A i \in DOMAIN net'["master"] :
          \/ i \in DOMAIN net["master"] /\ net'["master"][i] = net["master"][i]
          \/ net'["master"][i].cmd = "CHANNEL_CLOSE"
          \/ /\ net'["master"][i].cmd = "MODE" /\ y.cur = 0
             /\ i = Len(net["master"]) + 1
          \/ /\ net'["master"][i].cmd = "BEGIN" /\ y.cur # 0
             /\ OpenRequest \notin y.pending /\ IsOpen(y)
             /\ i = Len(net["master"]) + 1
  <2>1. CASE y.out = <<>>
    BY <2>1, <1>2
  <2>2. CASE y.out # <<>>
    <3>1. PICK m \in Message :
              /\ y.out = <<m>>
              /\ \/ m.cmd = "CHANNEL_CLOSE"
                 \/ m.cmd = "MODE" /\ y.cur = 0
                 \/ m.cmd = "BEGIN" /\ y.cur # 0 /\ OpenRequest \notin y.pending /\ IsOpen(y)
      BY <2>2
    <3>2. Appends(net["master"], net'["master"], m)
      BY <3>1, <1>2
    <3> QED
      BY <3>1, <3>2 DEF Appends
  <2> QED
    BY <2>1, <2>2
<1>6. \A i \in DOMAIN net'["slave"] :
          i + k \in DOMAIN net["slave"] /\ net'["slave"][i] = net["slave"][i + k]
  <2>1. net'["slave"] \in Seq(Message)
    BY <1>2, EndsAre
  <2>2. \A i \in DOMAIN net'["slave"] : net'["slave"][i].cmd \in Commands
    BY <2>1, MessageTypes
  <2> QED
    BY <2>2, <1>2 DEF From
<1>7. /\ At("slave", "DATA")' = {} /\ At("slave", "FINISH")' = {}
      /\ At("master", "FINISH")' = {}
  <2>1. At("slave", "DATA") = {} /\ At("slave", "FINISH") = {} /\ At("master", "FINISH") = {}
    BY <1>1 DEF Quiet
  <2>2. At("slave", "DATA")' = {} /\ At("slave", "FINISH")' = {}
    <3>1. \A i \in DOMAIN net["slave"] : net["slave"][i].cmd \notin {"DATA", "FINISH"}
      BY <2>1 DEF At
    <3>2. \A i \in DOMAIN net'["slave"] : net'["slave"][i].cmd \notin {"DATA", "FINISH"}
      BY <3>1, <1>6
    <3> QED
      BY <3>2 DEF At
  <2>3. At("master", "FINISH")' = {}
    <3>1. \A i \in DOMAIN net["master"] : net["master"][i].cmd # "FINISH"
      BY <2>1 DEF At
    <3>2. \A i \in DOMAIN net'["master"] : net'["master"][i].cmd # "FINISH"
      BY <3>1, <1>5
    <3> QED
      BY <3>2 DEF At
  <2> QED
    BY <2>2, <2>3
<1>8. Checks' = {}
  <2>1. \A i \in Checks' : i + k \in Checks
    BY <1>6 DEF Checks, At
  <2>2. \A i \in Checks : i \in Nat
    BY <1>1 DEF Checks, At
  <2>3. \A i \in Checks' : i \in Nat \ {0}
    <3>1. net'["slave"] \in Seq(Message)
      BY <1>2, EndsAre
    <3> QED
      BY <3>1 DEF Checks, At
  <2>4. CASE k = 0
    <3>1. \A i \in Checks' : i \in Checks
      BY <2>1, <2>3, <2>4
    <3> QED
      BY <3>1, <2>4
  <2>5. CASE k = 1
    <3>1. \A i \in Checks' : i + 1 = 1
      BY <2>1, <2>5, <1>1 DEF StageOK
    <3> QED
      BY <3>1, <2>3
  <2> QED
    BY <2>4, <2>5
<1>9. \A i \in At("master", "BEGIN")' :
          /\ i = Len(net["master"]) + 1 /\ y.cur # 0
          /\ OpenRequest \notin y.pending /\ IsOpen(y)
  BY <1>1, <1>5 DEF At
<1>17. \A i \in ModeAcks' : i = Len(net["master"]) + 1 /\ y.cur = 0
  BY <1>5 DEF ModeAcks, At
<1>10. /\ Reads' = {} /\ Writes' = {} /\ \A r \in M'.pending : r.op # "write"
       /\ \A r \in S'.pending : r.op # "read"
  BY <1>1, <1>2, <1>4, OpenRequestIs DEF Reads, Writes, Quiet
<1>11. Quiet'
  BY <1>1, <1>2, <1>4, <1>7, <1>10 DEF Quiet
<1>12. ~Opens("master")' /\ (Opens("slave")' <=> OpenRequest \in y.pending)
  <2>1. OpenRequest' = OpenRequest
    BY DEF OpenRequest
  <2> QED
    BY <2>1, <1>1, <1>2, <1>4 DEF Opens, S, M
<1>13. StageOK'
  BY <1>1, <1>2, <1>4, <1>7, <1>8, <1>9, <1>11, <1>12, <1>17 DEF StageOK
<1>14. CommandsOK'
  <2>1. \A i \in DOMAIN net'["master"] :
            net'["master"][i].cmd \in {"MODE", "BEGIN", "FINISH", "CHANNEL_CLOSE"}
    BY <1>1, <1>5 DEF CommandsOK
  <2>2. \A i \in DOMAIN net'["slave"] :
            /\ net'["slave"][i].cmd \in {"MODE", "CHECK", "DATA", "FINISH", "CHANNEL_CLOSE"}
            /\ net'["slave"][i].cmd = "CHECK" => net'["slave"][i].file = 1
    BY <1>1, <1>6 DEF CommandsOK
  <2> QED
    BY <2>1, <2>2 DEF CommandsOK
<1>15. Healthy' => HealthyOK'
  <2> SUFFICES ASSUME Healthy, Healthy'
               PROVE  HealthyOK'
    BY <1>16
  <2>1. HealthyEnd(M') /\ HealthyEnd(S') /\ IsOpen(M')
    BY <1>1, <1>2, <1>3 DEF HealthyOK, IsOpen
  <2>2. At("master", "BEGIN")' # {} => IsOpen(S')
    BY <1>4, <1>9
  <2> QED
    BY <2>1, <2>2, <1>7, <1>8, <1>10, <1>11 DEF HealthyOK, Quiet
<1> QED
  BY <1>1, <1>2, <1>3, <1>4, <1>10, <1>11, <1>13, <1>14, <1>15, OpeningInv

\* The command of the user: the file is opened, unless there is none.
LEMMA BeginKeeps ==
    ASSUME FileInv, job.kind = "file", NEW ok \in BOOLEAN, Begin(ok)
    PROVE  FileInv'
<1> DEFINE x == [M EXCEPT !.begun = TRUE]
           y == IF ~ok THEN TaskFinish(x) ELSE BeginTransfer(x)
<1>1. ~M.begun /\ ~M.stop /\ Step("master", y, net) /\ UNCHANGED disk
  BY DEF Begin, M
<1>2. /\ TypeOK /\ EndOK(M) /\ StageOK /\ M \in EndX /\ M.out = <<>> /\ job \in Jobs
  BY FileInvParts, TypeFacts DEF Shared
<1>3. M.cur = 0 /\ Checks = {} /\ ModeAcks = {} /\ S.cur = 0
  BY <1>1, <1>2 DEF StageOK
<1>4. Quiet /\ M.pending = {} /\ ~M.released /\ ~M.isDir
  BY <1>1, <1>2, <1>3, NotYet DEF EndOK, FdsOK
<1>5. /\ x \in EndX /\ x.out = <<>> /\ x.begun /\ x.cur = M.cur /\ x.stop = M.stop
      /\ x.released = M.released /\ x.isDir = M.isDir /\ x.dirMode = M.dirMode
      /\ x.early = M.early /\ x.broken = M.broken
      /\ SameFlags(M, x) /\ SameFds(M, x) /\ SameSaid(M, x) /\ SamePool(M, x)
  BY <1>2 DEF EndX, SameFlags, SameFds, SameSaid, SamePool
<1> HIDE DEF x
<1>6. /\ y \in EndX /\ y.begun /\ y.pending \subseteq {OpenRequest} /\ SameFlags(M, y)
      /\ (M.early => y.early) /\ (M.broken => y.broken)
      /\ SameSaid(M, y) /\ EndOK(y) /\ (HealthyEnd(M) => HealthyEnd(y))
      /\ \/ y.out = <<>>
         \/ \E m \in Message : y.out = <<m>> /\ m.cmd = "CHANNEL_CLOSE"
  <2>1. CASE ~ok
    <3>1. y = TaskFinish(x)
      BY <2>1
    <3> HIDE DEF y
    <3>2. /\ y \in EndX /\ Same(x, y)
          /\ y.out = IF x.stop THEN <<>> ELSE <<Msg("CHANNEL_CLOSE", 1)>>
          /\ Msg("CHANNEL_CLOSE", 1) \in Message /\ Msg("CHANNEL_CLOSE", 1).cmd = "CHANNEL_CLOSE"
      BY <3>1, <1>5, TaskFinishIs
    <3>3. /\ y.begun /\ y.cur = M.cur /\ y.stop = M.stop
          /\ y.released = M.released /\ y.isDir = M.isDir /\ y.dirMode = M.dirMode
          /\ (M.early => y.early) /\ (M.broken => y.broken)
          /\ SameFlags(M, y) /\ SameFds(M, y) /\ SameSaid(M, y) /\ SamePool(M, y)
      BY <3>2, <1>5 DEF Same, SameTask, SameFlags, SameFds, SameSaid, SamePool
    <3>4. PoolOK(y)
      BY <3>3, <1>2, PoolSame DEF EndOK, PoolOK, SamePool, SameFlags
    <3>5. EndOK(y)
      BY <3>3, <3>4, <1>2, EndKept DEF SamePool, SameFlags, SameFds, SameSaid
    <3>6. HealthyEnd(M) => HealthyEnd(y)
      BY <3>3 DEF HealthyEnd, SamePool, SameFlags, SameFds
    <3> QED
      BY <3>2, <3>3, <3>5, <3>6, <1>4 DEF SamePool
  <2>2. CASE ok
    <3>1. y = BeginTransfer(x) /\ x.pending = {}
      BY <2>2, <1>4, <1>5 DEF SamePool
    <3> HIDE DEF y
    <3>2. /\ y \in EndX /\ y.out = x.out /\ y.cur = 1 /\ ~y.isDir /\ y.dirMode = 0
          /\ y.early = x.early /\ y.broken = x.broken
          /\ SameFlags(x, y) /\ SameFds(x, y) /\ SameSaid(x, y)
          /\ y.begun = x.begun /\ y.stop = x.stop /\ y.released = x.released
          /\ y.pending = {OpenRequest} /\ y.refCount = x.refCount + 1 /\ y.bufs = x.bufs
      BY <3>1, <1>2, <1>5, BeginTransferIs
    <3>3. /\ SameFlags(M, y) /\ SameFds(M, y) /\ SameSaid(M, y)
          /\ y.begun /\ y.released = M.released /\ y.bufs = M.bufs
          /\ y.refCount = M.refCount + 1
      BY <3>2, <1>5 DEF SameFlags, SameFds, SameSaid, SamePool
    <3>4. EndOK(y) /\ HealthyEnd(y)
      BY <3>2, <3>3, <1>2, <1>3, <1>4, OpeningEnd DEF SameSaid
    <3> QED
      BY <3>2, <3>3, <3>4, <1>5
  <2> QED
    BY <2>1, <2>2
<1> HIDE DEF y
<1>7. y.indexIO = 0 /\ ~y.ioFinish /\ y.said = M.said
  BY <1>4, <1>6 DEF Quiet, SameFlags, SameSaid
<1>8. ReadsFrom("master", 0, net["master"]) /\ 0 \in {0, 1} /\ net \in [Ends -> Seq(Message)]
  BY <1>2, TypeFacts DEF ReadsFrom
<1> QED
  BY <1>1, <1>3, <1>6, <1>7, <1>8, MasterOpens

\* OnFileOpen, at the end x: the file is open with the descriptor fd.
AfterOpen(x, fd) ==
    LET t == Return(Took(x, OpenRequest))
    IN  [ResetCtx(t) EXCEPT !.fd = fd, !.isFdOpen = TRUE, !.openFds = t.openFds \cup {fd}]

LEMMA OpenedIs ==
    ASSUME NEW x \in EndX, x.out = <<>>, job.kind = "file", NEW fd \in Fds,
           NEW z, z = AfterOpen(x, fd)
    PROVE  /\ z \in EndX /\ z.out = <<>> /\ SameTask(x, z) /\ z.said = x.said
           /\ z.pending = x.pending \ {OpenRequest} /\ z.refCount = x.refCount - 1
           /\ z.bufs = x.bufs /\ z.fd = fd /\ z.openFds = x.openFds \cup {z.fd}
           /\ z.isFdOpen /\ ~z.ioFinish /\ ~z.closeNotify
           /\ ~z.closeReqSubmitted /\ ~z.failed /\ z.indexIO = 0
<1> DEFINE o == Took(x, OpenRequest)
           t == Return(o)
           c == ResetCtx(t)
<1>1. /\ o \in EndX /\ o.out = x.out
      /\ SameTask(x, o) /\ SameFlags(x, o) /\ SameFds(x, o) /\ SameSaid(x, o)
      /\ o.pending = x.pending \ {OpenRequest} /\ o.refCount = x.refCount /\ o.bufs = x.bufs
  BY TookIs
<1> HIDE DEF o
<1>2. o.refCount - 1 \in Int /\ t = [o EXCEPT !.refCount = o.refCount - 1]
  BY <1>1, EndTypes DEF Return, o
<1> HIDE DEF t
<1>3. /\ t \in EndX /\ t.out = <<>> /\ t.pending = x.pending \ {OpenRequest}
      /\ t.refCount = x.refCount - 1 /\ t.bufs = x.bufs /\ t.openFds = x.openFds
      /\ SameTask(x, t) /\ SameSaid(x, t)
  BY <1>1, <1>2 DEF EndX, SameTask, SameFds, SameSaid
<1>4. c = [t EXCEPT !.closeNotify = FALSE, !.indexIO = 0, !.failed = FALSE,
                    !.ioFinish = FALSE, !.closeReqSubmitted = FALSE]
  BY DEF ResetCtx
<1>5. 0 \in Counts /\ FALSE \in BOOLEAN
  BY DEF Counts
<1> HIDE DEF c
<1>6. /\ c \in EndX /\ c.out = <<>> /\ c.pending = x.pending \ {OpenRequest}
      /\ c.refCount = x.refCount - 1 /\ c.bufs = x.bufs /\ c.openFds = x.openFds
      /\ SameTask(x, c) /\ c.said = x.said
      /\ ~c.ioFinish /\ ~c.closeNotify /\ ~c.closeReqSubmitted /\ ~c.failed /\ c.indexIO = 0
  <2>1. c \in EndX
    <3> DEFINE d == [t EXCEPT !.closeNotify = FALSE, !.indexIO = 0, !.failed = FALSE]
    <3>1. d \in EndX
      BY <1>3, <1>5 DEF EndX
    <3>2. c = [d EXCEPT !.ioFinish = FALSE, !.closeReqSubmitted = FALSE]
      BY <1>3, <1>4 DEF EndX
    <3> HIDE DEF d
    <3> QED
      BY <3>1, <3>2, <1>5 DEF EndX
  <2>2. /\ c.out = t.out /\ c.pending = t.pending /\ c.refCount = t.refCount
        /\ c.bufs = t.bufs /\ c.openFds = t.openFds /\ c.said = t.said
        /\ SameTask(t, c)
    BY <1>3, <1>4 DEF EndX, SameTask
  <2>3. ~c.ioFinish /\ ~c.closeNotify /\ ~c.closeReqSubmitted /\ ~c.failed /\ c.indexIO = 0
    BY <1>3, <1>4 DEF EndX
  <2> QED
    BY <1>3, <2>1, <2>2, <2>3 DEF SameTask, SameSaid
<1>7. fd \in FdOrNone /\ t.openFds \cup {fd} \in FdSets /\ TRUE \in BOOLEAN
  <2>1. x.openFds \subseteq Fds
    BY EndTypes
  <2> QED
    BY <2>1, <1>3 DEF FdOrNone, FdSets
<1>8. z = [c EXCEPT !.fd = fd, !.isFdOpen = TRUE, !.openFds = t.openFds \cup {fd}]
  BY DEF AfterOpen, c, t, o
<1>9. /\ z \in EndX /\ z.out = c.out /\ SameTask(c, z) /\ z.said = c.said
      /\ z.pending = c.pending /\ z.refCount = c.refCount
      /\ z.bufs = c.bufs /\ z.fd = fd /\ z.openFds = t.openFds \cup {fd}
      /\ z.isFdOpen /\ z.ioFinish = c.ioFinish /\ z.closeNotify = c.closeNotify
      /\ z.closeReqSubmitted = c.closeReqSubmitted /\ z.failed = c.failed /\ z.indexIO = c.indexIO
  BY <1>6, <1>7, <1>8 DEF EndX, SameTask
<1> QED
  BY <1>3, <1>6, <1>9 DEF SameTask

\* What the master sends when its file is open.
LEMMA CheckMessage ==
    ASSUME job \in Jobs, job.kind = "file", NEW cmd \in {"CHECK", "MODE"},
           NEW m, m = [Msg(cmd, 0) EXCEPT !.file = 1]
    PROVE  m \in Message /\ m.cmd = cmd /\ m.file = 1
<1>1. 1 \in Files
  BY OneFile
<1>2. Msg(cmd, 0) \in Message /\ Msg(cmd, 0).cmd = cmd
  <2>1. cmd \in Commands
    BY DEF Commands
  <2> QED
    BY <2>1, SmallNumbers, MsgIsMessage
<1> QED
  BY <1>1, <1>2 DEF Message

LEMMA CheckIs ==
    ASSUME job \in Jobs, job.kind = "file", NEW x \in EndX, x.cur = 1, x.out = <<>>,
           NEW y, y = CheckMaster(x)
    PROVE  /\ y \in EndX /\ Same(x, y)
           /\ \/ y.out = <<>>
              \/ \E m \in Message : y.out = <<m>> /\ m.cmd \in {"CHECK", "MODE"} /\ m.file = 1
<1>1. PICK cmd \in {"CHECK", "MODE"} : cmd = IF job.sync THEN "MODE" ELSE "CHECK"
  OBVIOUS
<1>2. PICK m : m = [Msg(cmd, 0) EXCEPT !.file = 1]
  OBVIOUS
<1>3. y = Send(x, m)
  BY <1>1, <1>2 DEF CheckMaster
<1>4. m \in Message /\ m.cmd = cmd /\ m.file = 1
  BY <1>2, CheckMessage
<1>5. y \in EndX /\ Same(x, y) /\ y.out = IF x.stop THEN <<>> ELSE <<m>>
  BY <1>3, <1>4, SendIs
<1> QED
  BY <1>4, <1>5

LEMMA BeginMessage == Msg("BEGIN", 0) \in Message /\ Msg("BEGIN", 0).cmd = "BEGIN"
<1>1. "BEGIN" \in Commands
  BY DEF Commands
<1> QED
  BY <1>1, SmallNumbers, MsgIsMessage

LEMMA FreeFd ==
    ASSUME NEW x \in EndX, x.openFds # Fds
    PROVE  (CHOOSE d \in Fds \ x.openFds : TRUE) \in Fds
<1>1. x.openFds \subseteq Fds
  BY EndTypes
<1>2. \E d : d \in Fds \ x.openFds
  BY <1>1
<1> QED
  BY <1>2

\* An end has opened the file, and is y before it sends anything.
LEMMA FileOpened ==
    ASSUME FileInv, job.kind = "file", NEW e \in Ends, OnFileOpen(e)
    PROVE  \E y \in EndX :
               /\ SameTask(end[e], y) /\ y.said = end[e].said /\ y.out = <<>>
               /\ EndOK(y) /\ HealthyEnd(y) /\ y.pending = {} /\ y.cur = 1
               /\ y.isFdOpen /\ ~y.ioFinish /\ y.indexIO = 0
               /\ Step(e, IF e = "slave" THEN Send(y, Msg("BEGIN", 0)) ELSE CheckMaster(y), net)
               /\ disk' = IF e = "slave" THEN [disk EXCEPT ![y.cur] = {}] ELSE disk
               /\ OpenRequest \in end[e].pending
<1> DEFINE x == end[e]
           t == Return(Took(x, OpenRequest))
           fd == CHOOSE d \in Fds \ x.openFds : TRUE
           free == CHOOSE d \in Fds \ t.openFds : TRUE
           y == AfterOpen(x, free)
<1>1. /\ x \in EndX /\ x.out = <<>> /\ EndOK(x)
  BY TypeFacts DEF FileInv
<1>2. /\ OpenRequest \in x.pending /\ t.openFds # Fds
      /\ Step(e, IF e = "slave" THEN Send(y, Msg("BEGIN", 0)) ELSE CheckMaster(y), net)
      /\ disk' = IF e = "slave" THEN [disk EXCEPT ![t.cur] = {}] ELSE disk
  BY DEF OnFileOpen, AfterOpen
<1>3. t.openFds = x.openFds /\ t.cur = x.cur
  <2> DEFINE o == Took(x, OpenRequest)
  <2>1. o \in EndX /\ o.openFds = x.openFds /\ o.cur = x.cur
    BY <1>1, TookIs DEF SameFds, SameTask
  <2>2. t = [o EXCEPT !.refCount = o.refCount - 1]
    BY DEF Return
  <2> HIDE DEF o, t
  <2> QED
    BY <2>1, <2>2 DEF EndX
<1>4. free \in Fds
  BY <1>1, <1>2, <1>3, FreeFd
<1> HIDE DEF free, x, t
<1>5. /\ y \in EndX /\ y.out = <<>> /\ SameTask(x, y) /\ y.said = x.said
      /\ y.pending = x.pending \ {OpenRequest} /\ y.refCount = x.refCount - 1
      /\ y.bufs = x.bufs /\ y.fd = free /\ y.openFds = x.openFds \cup {y.fd}
      /\ y.isFdOpen /\ ~y.ioFinish /\ ~y.closeNotify
      /\ ~y.closeReqSubmitted /\ ~y.failed /\ y.indexIO = 0
  BY <1>1, <1>4, OpenedIs
<1> HIDE DEF y
<1>6. EndOK(y) /\ HealthyEnd(y) /\ y.pending = {} /\ y.cur = 1
  BY <1>1, <1>2, <1>5, OpenedEnd
<1>7. t.cur = y.cur
  BY <1>3, <1>5 DEF SameTask
<1> QED
  BY <1>2, <1>5, <1>6, <1>7 DEF x

LEMMA OnFileOpenKeeps ==
    ASSUME FileInv, job.kind = "file", NEW e \in Ends, OnFileOpen(e)
    PROVE  FileInv'
<1>1. /\ TypeOK /\ StageOK /\ EndOK(M) /\ EndOK(S) /\ job \in Jobs
      /\ net \in [Ends -> Seq(Message)] /\ disk \in [Files -> SUBSET (0..(MaxBlocks - 1))]
      /\ Healthy => HealthyOK
  BY FileInvParts, TypeFacts DEF Shared
<1>2. PICK y \in EndX :
          /\ SameTask(end[e], y) /\ y.said = end[e].said /\ y.out = <<>>
          /\ EndOK(y) /\ HealthyEnd(y) /\ y.pending = {} /\ y.cur = 1
          /\ y.isFdOpen /\ ~y.ioFinish /\ y.indexIO = 0
          /\ Step(e, IF e = "slave" THEN Send(y, Msg("BEGIN", 0)) ELSE CheckMaster(y), net)
          /\ disk' = IF e = "slave" THEN [disk EXCEPT ![y.cur] = {}] ELSE disk
          /\ OpenRequest \in end[e].pending
  BY FileOpened
<1>3. CASE e = "master"
  <2> DEFINE z == CheckMaster(y)
  <2>1. Step("master", z, net) /\ UNCHANGED disk /\ Opens("master") /\ SameTask(M, y) /\ y.said = M.said
    BY <1>2, <1>3 DEF Opens, M
  <2>2. S.cur = 0 /\ Checks = {} /\ ModeAcks = {}
    BY <2>1, <1>1 DEF StageOK
  <2>3. M.cur # 0 /\ M.begun
    BY <2>1, <1>1 DEF EndOK, Opens, M, StageOK
  <2>4. /\ z \in EndX /\ Same(y, z)
        /\ \/ z.out = <<>>
           \/ \E m \in Message : z.out = <<m>> /\ m.cmd \in {"CHECK", "MODE"} /\ m.file = 1
    BY <1>1, <1>2, CheckIs
  <2> HIDE DEF z
  <2>5. EndOK(z) /\ HealthyEnd(z)
    BY <2>4, <1>2, SameEnd
  <2>6. /\ z.begun /\ z.pending = {} /\ z.indexIO = 0 /\ ~z.ioFinish /\ z.said = M.said
        /\ z.cur # 0 /\ IsOpen(z) /\ (M.early => z.early) /\ (M.broken => z.broken)
    BY <2>1, <2>3, <2>4, <1>2 DEF Same, SameTask, SameFlags, SamePool, SameSaid, IsOpen
  <2>7. ReadsFrom("master", 0, net["master"]) /\ 0 \in {0, 1}
    BY DEF ReadsFrom
  <2> QED
    BY <1>1, <2>1, <2>2, <2>4, <2>5, <2>6, <2>7, MasterOpens
<1>4. CASE e = "slave"
  <2> DEFINE z == Send(y, Msg("BEGIN", 0))
  <2>1. /\ Step("slave", z, net) /\ disk' = [disk EXCEPT ![1] = {}] /\ Opens("slave")
        /\ SameTask(S, y) /\ y.said = S.said
    BY <1>2, <1>4 DEF Opens, S
  <2>2. S.cur # 0
    BY <2>1, <1>1 DEF EndOK, Opens, S
  <2>3. M.cur # 0 /\ ~Opens("master") /\ Checks = {} /\ ModeAcks = {}
    BY <2>2, <1>1 DEF StageOK
  <2>4. z \in EndX /\ Same(y, z) /\ z.out = IF y.stop THEN <<>> ELSE <<Msg("BEGIN", 0)>>
    BY <1>2, BeginMessage, SendIs
  <2> HIDE DEF z
  <2>5. EndOK(z) /\ HealthyEnd(z)
    BY <2>4, <1>2, SameEnd
  <2>6. /\ z.pending = {} /\ z.indexIO = 0 /\ ~z.ioFinish /\ z.said = S.said
        /\ z.cur # 0 /\ IsOpen(z) /\ (S.early => z.early) /\ (S.broken => z.broken)
    BY <2>1, <2>4, <1>2 DEF Same, SameTask, SameFlags, SamePool, SameSaid, IsOpen
  <2>7. /\ disk' \in [Files -> SUBSET (0..(MaxBlocks - 1))] /\ disk'[1] = {}
    <3>1. 1 \in Files
      BY <1>1, OneFile
    <3> QED
      BY <3>1, <2>1, <1>1
  <2>8. ReadsFrom("slave", 0, net["slave"]) /\ 0 \in {0, 1}
    BY DEF ReadsFrom
  <2>9. Healthy => IsOpen(M)
    BY <2>1, <1>1 DEF HealthyOK
  <2>10. \/ z.out = <<>>
         \/ \E m \in Message :
                /\ z.out = <<m>>
                /\ \/ m.cmd = "CHANNEL_CLOSE"
                   \/ m.cmd = "MODE" /\ z.cur = 0
                   \/ m.cmd = "BEGIN" /\ z.cur # 0 /\ OpenRequest \notin z.pending /\ IsOpen(z)
    BY <2>4, <2>6, BeginMessage
  <2>11. /\ z \in EndX /\ z.pending \subseteq {OpenRequest} /\ (0 = 1 => 1 \in Checks)
         /\ net \in [Ends -> Seq(Message)] /\ (HealthyEnd(S) => HealthyEnd(z))
    BY <1>1, <2>4, <2>5, <2>6
  <2> QED
    BY <2>1, <2>3, <2>5, <2>6, <2>7, <2>8, <2>9, <2>10, <2>11, SlaveOpens
<1> QED
  BY <1>3, <1>4, EndsAre

\* The slave is told of the file: it opens its copy, or refuses the path.
LEMMA SlaveCheckKeeps ==
    ASSUME FileInv, job.kind = "file", NEW path \in PathChecks, SlaveCheck(path)
    PROVE  FileInv'
<1> DEFINE f == Head(net["slave"]).file
           b == [S EXCEPT !.begun = TRUE]
           x == CheckLocalPath(b)
           r == [x EXCEPT !.cur = 1, !.lost = x.lost \cup {1}]
           y == IF path = "writable" THEN Open(x, 1) ELSE TaskFinish(r)
<1>1. /\ TypeOK /\ StageOK /\ EndOK(S) /\ CommandsOK /\ job \in Jobs
      /\ S \in EndX /\ S.out = <<>>
      /\ net \in [Ends -> Seq(Message)] /\ net["slave"] \in Seq(Message)
      /\ disk \in [Files -> SUBSET (0..(MaxBlocks - 1))]
      /\ Healthy => HealthyOK
  BY FileInvParts, TypeFacts, EndsAre DEF Shared
<1>2. /\ net["slave"] # <<>> /\ Head(net["slave"]).cmd = "CHECK" /\ ~S.stop /\ UNCHANGED disk
  BY DEF SlaveCheck, Receives, S
<1>3. 1 \in Checks /\ f = 1
  BY <1>1, <1>2, TailOf DEF Checks, At, CommandsOK
<1>4. /\ S.cur = 0 /\ M.cur # 0 /\ ~Opens("master") /\ S.pending = {} /\ ~S.released /\ ~S.isDir
      /\ S.dirMode = 0 /\ ModeAcks = {}
  BY <1>1, <1>2, <1>3 DEF StageOK, EndOK, FdsOK
<1>5. Quiet /\ disk[1] = {} /\ S.indexIO = 0
  BY <1>4, NotYet
<1>6. Step("slave", y, Rest("slave"))
  BY <1>3 DEF SlaveCheck, S
<1> HIDE DEF f
<1>7. 1 \in Files /\ (job.kind = "dir") = FALSE
  BY <1>1, OneFile
<1>8. /\ x \in EndX /\ x.out = <<>> /\ ~x.isDir /\ x.pending = {} /\ x.refCount = S.refCount
      /\ x.stop = S.stop /\ x.released = S.released /\ x.bufs = S.bufs
      /\ x.dirMode = 0 /\ x.early = S.early /\ x.broken = S.broken
      /\ SameFlags(S, x) /\ SameFds(S, x) /\ SameSaid(S, x)
  <2>1. x = [[S EXCEPT !.begun = TRUE] EXCEPT !.isDir = FALSE]
    BY <1>7 DEF CheckLocalPath
  <2> HIDE DEF x, b
  <2> QED
    BY <2>1, <1>1, <1>4 DEF EndX, SameFlags, SameFds, SameSaid
<1> HIDE DEF x, b
<1>9. /\ y \in EndX /\ y.pending \subseteq {OpenRequest} /\ y.cur = 1 /\ SameFlags(S, y)
      /\ SameSaid(S, y) /\ EndOK(y) /\ HealthyEnd(y)
      /\ (S.early => y.early) /\ (S.broken => y.broken)
      /\ \/ y.out = <<>>
         \/ \E m \in Message : y.out = <<m>> /\ m.cmd = "CHANNEL_CLOSE"
  <2>1. CASE path # "writable"
    <3>1. y = TaskFinish(r)
      BY <2>1
    <3> HIDE DEF y
    <3>2. /\ r \in EndX /\ r.out = <<>> /\ r.cur = 1 /\ ~r.isDir /\ r.pending = {}
          /\ r.refCount = S.refCount /\ r.stop = S.stop /\ r.released = S.released
          /\ r.dirMode = 0 /\ r.early = S.early /\ r.broken = S.broken
          /\ r.bufs = S.bufs /\ SameFlags(S, r) /\ SameFds(S, r) /\ SameSaid(S, r)
      <4>1. 1 \in FileOrNone /\ x.lost \cup {1} \in FileSets
        <5>1. x.lost \in FileSets
          BY <1>8 DEF EndX
        <5> QED
          BY <5>1, <1>7 DEF FileOrNone, FileSets
      <4> QED
        BY <4>1, <1>8 DEF EndX, SameFlags, SameFds, SameSaid
    <3> HIDE DEF r
    <3>3. /\ y \in EndX /\ Same(r, y)
          /\ y.out = IF r.stop THEN <<>> ELSE <<Msg("CHANNEL_CLOSE", 1)>>
          /\ Msg("CHANNEL_CLOSE", 1) \in Message /\ Msg("CHANNEL_CLOSE", 1).cmd = "CHANNEL_CLOSE"
      BY <3>1, <3>2, TaskFinishIs
    <3>4. /\ y.cur = 1 /\ ~y.isDir /\ y.pending = {} /\ y.refCount = S.refCount
          /\ y.released = S.released /\ y.bufs = S.bufs /\ y.dirMode = 0
          /\ (S.early => y.early) /\ (S.broken => y.broken)
          /\ SameFlags(S, y) /\ SameFds(S, y) /\ SameSaid(S, y)
      BY <3>2, <3>3 DEF Same, SameTask, SameFlags, SameFds, SameSaid, SamePool
    <3>5. EndOK(y) /\ HealthyEnd(y)
      BY <3>4, <1>1, <1>4, OpeningEnd DEF SameSaid
    <3> QED
      BY <3>3, <3>4, <3>5
  <2>2. CASE path = "writable"
    <3>1. y = Open(x, 1)
      BY <2>2
    <3> HIDE DEF y
    <3>2. /\ y \in EndX /\ y.out = x.out /\ y.cur = 1
          /\ SameFlags(x, y) /\ SameFds(x, y) /\ SameSaid(x, y)
          /\ y.begun = x.begun /\ y.stop = x.stop /\ y.released = x.released
          /\ y.isDir = x.isDir /\ y.dirMode = x.dirMode
          /\ y.early = x.early /\ y.broken = x.broken
          /\ y.pending = {OpenRequest} /\ y.refCount = x.refCount + 1 /\ y.bufs = x.bufs
      BY <3>1, <1>7, <1>8, OpenIs
    <3>3. /\ SameFlags(S, y) /\ SameFds(S, y) /\ SameSaid(S, y)
          /\ ~y.isDir /\ y.dirMode = 0 /\ y.released = S.released
          /\ y.early = S.early /\ y.broken = S.broken /\ y.bufs = S.bufs
          /\ y.refCount = S.refCount + 1
      BY <3>2, <1>8 DEF SameFlags, SameFds, SameSaid
    <3>4. EndOK(y) /\ HealthyEnd(y)
      BY <3>2, <3>3, <1>1, <1>4, OpeningEnd DEF SameSaid
    <3> QED
      BY <3>2, <3>3, <3>4, <1>8
  <2> QED
    BY <2>1, <2>2
<1> HIDE DEF y
<1>10. y.indexIO = 0 /\ ~y.ioFinish /\ y.said = S.said
  BY <1>5, <1>9 DEF Quiet, SameFlags, SameSaid
<1>11. /\ Rest("slave") \in [Ends -> Seq(Message)] /\ Rest("slave")["master"] = net["master"]
       /\ ReadsFrom("slave", 1, Rest("slave")["slave"]) /\ 1 \in {0, 1}
  BY <1>1, <1>2, RestIs, EndsAre DEF ReadsFrom
<1>12. Healthy => IsOpen(M)
  BY <1>1, <1>3 DEF HealthyOK
<1>13. disk' \in [Files -> SUBSET (0..(MaxBlocks - 1))] /\ disk'[1] = {}
  BY <1>1, <1>2, <1>5
<1> QED
  BY <1>3, <1>4, <1>6, <1>9, <1>10, <1>11, <1>12, <1>13, SlaveOpens

\* While the file is being opened the master has no other request.
LEMMA QuietPending ==
    ASSUME Quiet, EndOK(M), M \in EndX, \A r \in M.pending : r.op # "write"
    PROVE  M.pending \subseteq {OpenRequest}
<1> SUFFICES ASSUME NEW r \in M.pending
             PROVE  r = OpenRequest
  OBVIOUS
<1>1. r.op \in {"open", "read", "write", "close"}
  <2>1. r \in Request
    BY EndTypes
  <2> QED
    BY <2>1 DEF Request
<1>2. r.op # "read" /\ r.op # "write"
  BY DEF Quiet, Reads
<1>3. r.op # "close"
  BY DEF Quiet, EndOK, RequestsOK, FdsOK
<1> QED
  BY <1>1, <1>2, <1>3 DEF EndOK, RequestsOK

\* With -m the slave acknowledges the mode, and the master then has the file checked.
LEMMA FileModeSyncKeeps ==
    ASSUME FileInv, job.kind = "file", NEW e \in Ends, FileModeSync(e)
    PROVE  FileInv'
<1>1. /\ TypeOK /\ StageOK /\ CommandsOK /\ EndOK(M) /\ EndOK(S) /\ job \in Jobs
      /\ M \in EndX /\ M.out = <<>> /\ S \in EndX /\ S.out = <<>>
      /\ net \in [Ends -> Seq(Message)] /\ net[e] \in Seq(Message)
      /\ disk \in [Files -> SUBSET (0..(MaxBlocks - 1))]
      /\ Healthy => HealthyOK
  BY FileInvParts, TypeFacts, EndsAre DEF Shared
<1>2. /\ net[e] # <<>> /\ Head(net[e]).cmd \in {"MODE", "DIR_MODE"} /\ ~end[e].stop
      /\ UNCHANGED disk
  BY DEF FileModeSync, Receives
<1>3. 1 \in At(e, "MODE")
  <2>1. 1 \in DOMAIN net[e] /\ Head(net[e]) = net[e][1]
    BY <1>1, <1>2, TailOf
  <2>2. net[e][1].cmd # "DIR_MODE"
    BY <2>1, <1>1, EndsAre DEF CommandsOK
  <2> QED
    BY <2>1, <2>2, <1>2 DEF At
<1>4. /\ Rest(e) \in [Ends -> Seq(Message)] /\ Rest(e)[Other(e)] = net[Other(e)]
      /\ ReadsFrom(e, 1, Rest(e)[e]) /\ 1 \in {0, 1}
  BY <1>1, <1>2, RestIs DEF ReadsFrom
<1>5. CASE e = "slave"
  <2> DEFINE y == Send(S, Msg("MODE", 0))
  <2>1. Step("slave", y, Rest("slave"))
    BY <1>5 DEF FileModeSync, S
  <2>2. 1 \in Checks /\ S.cur = 0 /\ ModeAcks = {} /\ M.cur # 0 /\ ~Opens("master")
    BY <1>1, <1>3, <1>5 DEF Checks, StageOK
  <2>3. /\ S.pending = {} /\ S.indexIO = 0 /\ ~S.ioFinish /\ disk[1] = {}
    BY <2>2, NotYet DEF EndOK, Quiet
  <2>4. Msg("MODE", 0) \in Message /\ Msg("MODE", 0).cmd = "MODE"
    <3>1. "MODE" \in Commands
      BY DEF Commands
    <3> QED
      BY <3>1, SmallNumbers, MsgIsMessage
  <2>5. y \in EndX /\ Same(S, y) /\ y.out = <<Msg("MODE", 0)>>
    BY <2>4, <1>1, <1>2, <1>5, SendIs DEF S
  <2> HIDE DEF y
  <2>6. EndOK(y) /\ (HealthyEnd(S) => HealthyEnd(y))
    BY <2>5, <1>1, SameEnd
  <2>7. /\ y.cur = 0 /\ y.pending \subseteq {OpenRequest} /\ y.indexIO = 0 /\ ~y.ioFinish
        /\ y.said = S.said /\ (S.early => y.early) /\ (S.broken => y.broken)
    BY <2>2, <2>3, <2>5 DEF Same, SameTask, SameFlags, SamePool, SameSaid
  <2>8. \E m \in Message : y.out = <<m>> /\ m.cmd = "MODE"
    BY <2>4, <2>5
  <2>9. Healthy => IsOpen(M)
    BY <2>2, <1>1 DEF HealthyOK
  <2>10. disk' \in [Files -> SUBSET (0..(MaxBlocks - 1))] /\ disk'[1] = {}
    BY <2>3, <1>1, <1>2
  <2>11. /\ Rest("slave") \in [Ends -> Seq(Message)] /\ Rest("slave")["master"] = net["master"]
         /\ ReadsFrom("slave", 1, Rest("slave")["slave"]) /\ 1 \in {0, 1}
    BY <1>4, <1>5, EndsAre
  <2> QED
    BY <2>1, <2>2, <2>5, <2>6, <2>7, <2>8, <2>9, <2>10, <2>11, SlaveOpens
<1>6. CASE e = "master"
  <2>1. /\ 1 \in ModeAcks /\ S.cur = 0 /\ Checks = {} /\ M.cur = 1 /\ ~Opens("master")
        /\ M.begun /\ M.dirMode = 0
    BY <1>1, <1>3, <1>6 DEF ModeAcks, StageOK, EndOK
  <2>2. PICK m : m = [Msg("CHECK", 0) EXCEPT !.file = 1]
    OBVIOUS
  <2>3. m \in Message /\ m.cmd = "CHECK" /\ m.file = 1
    BY <2>2, <1>1, CheckMessage
  <2> DEFINE y == Send(M, m)
  <2>4. Step("master", y, Rest("master"))
    BY <2>1, <2>2, <1>6 DEF FileModeSync, M
  <2>5. y \in EndX /\ Same(M, y) /\ y.out = <<m>>
    BY <2>3, <1>1, <1>2, <1>6, SendIs DEF M
  <2> HIDE DEF y
  <2>6. EndOK(y) /\ (HealthyEnd(M) => HealthyEnd(y))
    BY <2>5, <1>1, SameEnd
  <2>7. Quiet /\ M.pending \subseteq {OpenRequest} /\ OpenRequest \notin M.pending
    BY <2>1, <1>1, NotYet, QuietPending DEF Opens, M
  <2>8. /\ y.begun /\ y.pending \subseteq {OpenRequest} /\ OpenRequest \notin y.pending
        /\ y.indexIO = 0 /\ ~y.ioFinish /\ y.said = M.said /\ y.cur # 0
        /\ (M.early => y.early) /\ (M.broken => y.broken) /\ (IsOpen(M) => IsOpen(y))
    BY <2>1, <2>5, <2>7 DEF Same, SameTask, SameFlags, SamePool, SameSaid, Quiet, IsOpen
  <2>9. Healthy => IsOpen(y)
    BY <2>1, <2>8, <1>1 DEF HealthyOK
  <2>10. \E z \in Message :
            /\ y.out = <<z>>
            /\ \/ z.cmd = "CHANNEL_CLOSE"
               \/ /\ z.cmd \in {"CHECK", "MODE"} /\ z.file = 1
                  /\ y.cur # 0 /\ OpenRequest \notin y.pending /\ (Healthy => IsOpen(y))
    BY <2>3, <2>5, <2>8, <2>9
  <2>11. /\ Rest("master") \in [Ends -> Seq(Message)] /\ Rest("master")["slave"] = net["slave"]
         /\ ReadsFrom("master", 1, Rest("master")["master"]) /\ 1 \in {0, 1}
    BY <1>4, <1>6, EndsAre
  <2> QED
    BY <2>1, <2>4, <2>5, <2>6, <2>8, <2>10, <2>11, <1>2, MasterOpens
<1> QED
  BY <1>5, <1>6, EndsAre

\* A command that one file does not need.
LEMMA NoAppFinish ==
    ASSUME FileInv
    PROVE  ~AppFinish
<1>1. CommandsOK /\ net["master"] \in Seq(Message)
  BY FileInvParts, TypeFacts, EndsAre DEF Shared
<1>2. ASSUME net["master"] # <<>>
      PROVE  Head(net["master"]).cmd # "APP_FINISH"
  <2>1. 1 \in DOMAIN net["master"] /\ Head(net["master"]) = net["master"][1]
    BY <1>1, <1>2, TailOf
  <2> QED
    BY <2>1, <1>1 DEF CommandsOK
<1> QED
  BY <1>2 DEF AppFinish, Receives

-----------------------------------------------------------------------------
(* fsCloseReq *)

Marked(x) ==
    {"early", "broken", "failed", "closeReqSubmitted", "pending"} \subseteq DOMAIN x

\* y is x after calls that do not use fsCloseReq and see nothing fail.
Leaves(x, y) ==
    /\ Marked(y)
    /\ (x.early => y.early) /\ (y.broken => x.broken) /\ y.failed = x.failed
    /\ y.closeReqSubmitted = x.closeReqSubmitted
    /\ \A q \in y.pending : q.op = "close" => q \in x.pending

LEMMA EndXMarked == \A x \in EndX : Marked(x) /\ Leaves(x, x)
BY DEF EndX, Marked, Leaves

LEMMA LeavesTwice ==
    ASSUME NEW x, NEW y, NEW z, Leaves(x, y), Leaves(y, z)
    PROVE  Leaves(x, z)
BY DEF Leaves

LEMMA CallsLeave ==
    ASSUME NEW x, Marked(x)
    PROVE  /\ \A r : Leaves(x, Took(x, r))
           /\ Leaves(x, Return(x))
           /\ \A b : Leaves(x, FreeBuf(x, b))
           /\ \A m : Leaves(x, Send(x, m))
           /\ \A f : Leaves(x, Open(x, f))
           /\ Leaves(x, StopTask(x))
           /\ ~CloseBusy(x) => Leaves(x, CloseNow(x))
<1>1. \A r : Leaves(x, Took(x, r))
  BY DEF Leaves, Marked, Took
<1>2. Leaves(x, Return(x)) /\ Leaves(x, StopTask(x))
  BY DEF Leaves, Marked, Return, StopTask
<1>3. \A b : Leaves(x, FreeBuf(x, b))
  BY DEF Leaves, Marked, FreeBuf
<1>4. \A m : Leaves(x, Send(x, m))
  BY DEF Leaves, Marked, Send
<1>5. \A f : Leaves(x, Open(x, f))
  BY OpenRequestIs DEF Leaves, Marked, Open, Submit
<1>6. ~CloseBusy(x) => Leaves(x, CloseNow(x))
  BY DEF Leaves, Marked, CloseNow, UseCloseReq
<1> QED
  BY <1>1, <1>2, <1>3, <1>4, <1>5, <1>6

LEMMA IOLeaves ==
    ASSUME NEW x, Marked(x), NEW op \in {"read", "write"}, NEW index, NEW n
    PROVE  Leaves(x, SimpleFileIO(x, op, index, n))
<1>1. CASE x.ioFinish
  BY <1>1, CallsLeave DEF SimpleFileIO
<1>2. CASE ~x.ioFinish
  <2> DEFINE b == Malloc(x)
             r == [op |-> op, fd |-> x.fd, buf |-> b, index |-> index, n |-> n]
             z == [x EXCEPT !.bufs = [x.bufs EXCEPT ![b] = "used"]]
  <2>1. SimpleFileIO(x, op, index, n) = Submit(z, r)
    BY <1>2 DEF SimpleFileIO
  <2>2. r.op # "close"
    OBVIOUS
  <2>3. Leaves(x, z)
    BY DEF Leaves, Marked
  <2> HIDE DEF r, z, b
  <2>4. Leaves(z, Submit(z, r))
    BY <2>2, <2>3 DEF Leaves, Marked, Submit
  <2> QED
    BY <2>1, <2>3, <2>4, LeavesTwice
<1> QED
  BY <1>1, <1>2

LEMMA CloseStepUses ==
    ASSUME NEW x, Marked(x), NEW e, job.kind = "file", NEW y, y = CloseStep(e, x)
    PROVE  /\ Marked(y) /\ y.early = x.early /\ y.failed = x.failed
           /\ y.broken => x.broken \/ (CloseBusy(x) /\ (~x.closeReqSubmitted \/ e = "slave"))
<1>1. PICK u : u = UseCloseReq(x)
  OBVIOUS
<1>2. /\ Marked(u) /\ u.early = x.early /\ u.failed = x.failed
      /\ u.broken = (x.broken \/ CloseBusy(x)) /\ Leaves(u, u)
  BY <1>1 DEF UseCloseReq, Marked, Leaves
<1>3. CASE ~x.ioFinish
  BY <1>3 DEF CloseStep
<1>4. CASE x.ioFinish /\ ~x.failed /\ ~x.closeReqSubmitted
  <2>1. y = [Submit(u, CloseRequest(x.fd)) EXCEPT !.closeReqSubmitted = TRUE, !.isFdOpen = FALSE]
    BY <1>1, <1>4 DEF CloseStep
  <2>2. Marked(y) /\ y.early = u.early /\ y.failed = u.failed /\ y.broken = u.broken
    BY <2>1, <1>2 DEF Submit, Marked
  <2> QED
    BY <2>2, <1>2, <1>4
<1>5. CASE x.ioFinish /\ (x.failed \/ x.closeReqSubmitted)
  <2>1. PICK v : v = IF e = "slave" THEN u ELSE x
    OBVIOUS
  <2>2. y = Send(v, Msg("FINISH", 1))
    BY <2>1, <1>1, <1>5 DEF CloseStep, WhenTransferFinish
  <2>3. Marked(v) /\ Leaves(v, y)
    BY <2>1, <2>2, <1>2, CallsLeave
  <2>4. y.early = v.early
    BY <2>2, <2>3 DEF Send, Marked
  <2> QED
    BY <2>1, <2>3, <2>4, <1>2 DEF Leaves
<1> QED
  BY <1>3, <1>4, <1>5

LEMMA EndFileIOLeaves ==
    ASSUME NEW x, Marked(x), NEW r
    PROVE  Leaves(x, EndFileIO(x, r))
<1>1. Leaves(x, FreeBuf(x, r.buf))
  BY CallsLeave
<1>2. PICK z : z = FreeBuf(x, r.buf)
  OBVIOUS
<1>3. Leaves(z, Return(z))
  BY <1>1, <1>2, CallsLeave DEF Leaves
<1> QED
  BY <1>1, <1>2, <1>3, LeavesTwice DEF EndFileIO

\* What a callback of e does to its record.
LEMMA CallbackKeeps ==
    ASSUME FileInv, CloseReqIsFree, job.kind = "file", NEW e \in Ends, NEW y, NEW rest,
           Step(e, y, rest), Marked(y),
           end[e].early => y.early,
           (e = "master" /\ M.failed) => y.failed,
           y.broken => M.failed \/ Early \/ (e = "master" /\ y.failed) \/ y.early
    PROVE  CloseReqIsFree'
<1>1. end \in [Ends -> EndX] /\ ~end[e].broken
  BY TypeFacts DEF FileInv, Step
<1>2. end' = [end EXCEPT ![e] = [y EXCEPT !.out = <<>>]]
  BY DEF Step
<1>3. end'[Other(e)] = end[Other(e)] /\ end'[e] = [y EXCEPT !.out = <<>>]
  BY <1>1, <1>2, EndsAre
<1>4. end'[e].early = y.early /\ end'[e].failed = y.failed /\ end'[e].broken = y.broken
  BY <1>3 DEF Marked
<1>5. CASE e = "master"
  <2>1. S' = S /\ M'.early = y.early /\ M'.failed = y.failed /\ M'.broken = y.broken
    BY <1>3, <1>4, <1>5, EndsAre DEF M, S
  <2>2. S.broken => M.failed \/ Early
    BY DEF CloseReqIsFree, S, M, Ends
  <2>3. M'.broken \/ S'.broken => M'.failed \/ Early'
    BY <2>1, <2>2, <1>5, EarlyIs DEF M
  <2> QED
    BY <2>3, EndsAre DEF CloseReqIsFree, M, S
<1>6. CASE e = "slave"
  <2>1. M' = M /\ S'.early = y.early /\ S'.broken = y.broken
    BY <1>3, <1>4, <1>6, EndsAre DEF M, S
  <2>2. M.broken => M.failed \/ Early
    BY DEF CloseReqIsFree, S, M, Ends
  <2>3. M'.broken \/ S'.broken => M'.failed \/ Early'
    BY <2>1, <2>2, <1>6, EarlyIs DEF S
  <2> QED
    BY <2>3, EndsAre DEF CloseReqIsFree, M, S
<1> QED
  BY <1>5, <1>6, EndsAre

LEMMA LeavingKeeps ==
    ASSUME FileInv, CloseReqIsFree, job.kind = "file", NEW e \in Ends, NEW y, NEW rest,
           Step(e, y, rest), Leaves(end[e], y)
    PROVE  CloseReqIsFree'
<1>1. ~end[e].broken
  BY DEF Step
<1> QED
  BY <1>1, CallbackKeeps DEF Leaves, M

\* A close is under way only when the context has asked for one.
LEMMA BusyAsked ==
    ASSUME FileInv, NEW e \in Ends, CloseBusy(end[e])
    PROVE  end[e].closeReqSubmitted /\ end[e].ioFinish /\ ~end[e].failed /\ ~end[e].isFdOpen
BY DEF FileInv, EndOK, RequestsOK, FdsOK, CloseBusy

\* When the slave closes and would use the request again, something had gone wrong.
LEMMA BusyCause ==
    ASSUME FileInv, CloseReqIsFree, job.kind = "file", CloseBusy(S), ~Healthy
    PROVE  M.failed \/ Early
<1>1. ~S.failed
  BY BusyAsked, EndsAre DEF S
<1>2. M.broken \/ S.broken => M.failed \/ Early
  BY EndsAre DEF CloseReqIsFree, M, S
<1> QED
  BY <1>1, <1>2, HealthyIs, EarlyIs

\* The end of a read or write: x is the end without the request, z what the callback
\* makes of it before close-step1.
LEMMA IOUses ==
    ASSUME FileInv, CloseReqIsFree, job.kind = "file", NEW e \in Ends, NEW z, NEW r, NEW rest,
           Marked(z), Step(e, EndFileIO(CloseStep(e, z), r), rest),
           end[e].early => z.early, z.broken => end[e].broken,
           (e = "master" /\ M.failed) => z.failed,
           z.closeReqSubmitted = end[e].closeReqSubmitted,
           \A q \in z.pending : q.op = "close" => q \in end[e].pending,
           (e = "slave" /\ CloseBusy(S)) => M.failed \/ Early
    PROVE  CloseReqIsFree'
<1>1. PICK c : c = CloseStep(e, z)
  OBVIOUS
<1>2. /\ Marked(c) /\ c.early = z.early /\ c.failed = z.failed
      /\ c.broken => z.broken \/ (CloseBusy(z) /\ (~z.closeReqSubmitted \/ e = "slave"))
  BY <1>1, CloseStepUses
<1>3. PICK y : y = EndFileIO(c, r)
  OBVIOUS
<1>4. Leaves(c, y)
  BY <1>2, <1>3, EndFileIOLeaves
<1>5. CloseBusy(z) => CloseBusy(end[e])
  BY DEF CloseBusy
<1>6. CloseBusy(z) => z.closeReqSubmitted
  BY <1>5, BusyAsked
<1>7. Step(e, y, rest) /\ ~end[e].broken
  BY <1>1, <1>3 DEF Step
<1>8. y.broken => M.failed \/ Early
  BY <1>2, <1>4, <1>5, <1>6, <1>7 DEF Leaves, S
<1>9. Marked(y) /\ (end[e].early => y.early) /\ ((e = "master" /\ M.failed) => y.failed)
  BY <1>2, <1>4 DEF Leaves
<1> QED
  BY <1>7, <1>8, <1>9, CallbackKeeps

LEMMA ReadUses ==
    ASSUME FileInv, CloseReqIsFree, job.kind = "file", NEW r \in M.pending, NEW n,
           ReadDone(r, n) \/ ReadFailed(r)
    PROVE  CloseReqIsFree'
<1>1. PICK x : x = Took(M, r)
  OBVIOUS
<1>2. Leaves(M, x) /\ Marked(x)
  <2>1. Marked(M)
    BY TypeFacts, EndXMarked DEF FileInv
  <2> QED
    BY <2>1, <1>1, CallsLeave DEF Leaves
<1>3. CASE ReadDone(r, n)
  <2>1. PICK y : y = [x EXCEPT !.indexIO = x.indexIO + n]
    OBVIOUS
  <2>2. PICK more : more = (y.indexIO < FileSize(x))
    OBVIOUS
  <2>3. PICK s : s = SendIOPayload(y, x.indexIO, n)
    OBVIOUS
  <2>4. PICK z : z = IF x.ioFinish THEN x
             ELSE IF Mute(x) THEN [y EXCEPT !.ioFinish = TRUE]
             ELSE IF n > 0 /\ more THEN SimpleFileIO(s, "read", y.indexIO, MaxRead)
             ELSE [s EXCEPT !.ioFinish = TRUE, !.early = x.early \/ more]
    OBVIOUS
  <2>5. Step("master", EndFileIO(CloseStep("master", z), r), net)
    BY <1>1, <1>3, <2>1, <2>2, <2>3, <2>4 DEF ReadDone, M
  <2>6. Leaves(x, y) /\ y.early = x.early
    BY <1>2, <2>1 DEF Leaves, Marked
  <2>7. Leaves(y, s) /\ s.early = y.early
    <3>1. Marked(y)
      BY <2>6 DEF Leaves
    <3>2. Leaves(y, s)
      BY <3>1, <2>3, CallsLeave DEF SendIOPayload
    <3> QED
      BY <3>1, <3>2, <2>3 DEF SendIOPayload, Send, Marked
  <2>8. Leaves(x, s) /\ Marked(s)
    BY <2>6, <2>7, LeavesTwice DEF Leaves
  <2>9. Leaves(x, z)
    <3>1. CASE x.ioFinish
      BY <3>1, <2>4, <1>2 DEF Leaves
    <3>2. CASE ~x.ioFinish /\ Mute(x)
      <4>1. Leaves(y, z)
        BY <3>2, <2>4, <2>6 DEF Leaves, Marked
      <4> QED
        BY <4>1, <2>6, LeavesTwice
    <3>3. CASE ~x.ioFinish /\ ~Mute(x) /\ n > 0 /\ more
      <4>1. Leaves(s, z)
        BY <3>3, <2>4, <2>8, IOLeaves
      <4> QED
        BY <4>1, <2>8, LeavesTwice
    <3>4. CASE ~x.ioFinish /\ ~Mute(x) /\ ~(n > 0 /\ more)
      <4>1. z = [s EXCEPT !.ioFinish = TRUE, !.early = x.early \/ more]
        BY <3>4, <2>4
      <4>2. Leaves(s, z)
        BY <4>1, <2>6, <2>7, <2>8 DEF Leaves, Marked
      <4> QED
        BY <4>2, <2>8, LeavesTwice
    <3> QED
      BY <3>1, <3>2, <3>3, <3>4
  <2>10. Leaves(M, z)
    BY <2>9, <1>2, LeavesTwice
  <2> QED
    BY <2>5, <2>10, EndsAre, IOUses DEF Leaves, M
<1>4. CASE ReadFailed(r)
  <2>1. PICK z : z = IF x.ioFinish THEN x ELSE Failed(x)
    OBVIOUS
  <2>2. Step("master", EndFileIO(CloseStep("master", z), r), net)
    BY <1>1, <1>4, <2>1 DEF ReadFailed, M
  <2>3. /\ Marked(z) /\ z.early = x.early /\ z.broken = x.broken /\ (x.failed => z.failed)
        /\ z.closeReqSubmitted = x.closeReqSubmitted /\ z.pending = x.pending
    <3>1. CASE x.ioFinish
      BY <3>1, <2>1, <1>2
    <3>2. CASE ~x.ioFinish
      BY <3>2, <2>1, <1>2 DEF Failed, Marked
    <3> QED
      BY <3>1, <3>2
  <2> QED
    BY <2>2, <2>3, <1>2, EndsAre, IOUses DEF Leaves, M
<1> QED
  BY <1>3, <1>4

\* While nothing has gone wrong no write is under way when the slave closes.
LEMMA WritesBusy ==
    ASSUME FileInv, CloseReqIsFree, job.kind = "file", NEW r \in S.pending, r.op = "write",
           CloseBusy(S)
    PROVE  M.failed \/ Early
<1>1. ~S.isFdOpen
  BY BusyAsked, EndsAre DEF S
<1>2. ~Healthy
  BY <1>1 DEF FileInv, HealthyOK, HealthyEnd
<1> QED
  BY <1>2, BusyCause

LEMMA WriteUses ==
    ASSUME FileInv, CloseReqIsFree, job.kind = "file", NEW r \in S.pending, NEW n,
           WriteDone(r, n) \/ WriteFailed(r)
    PROVE  CloseReqIsFree'
<1>1. PICK x : x = Took(S, r)
  OBVIOUS
<1>2. Leaves(S, x) /\ Marked(x)
  <2>1. Marked(S)
    BY TypeFacts, EndXMarked DEF FileInv
  <2> QED
    BY <2>1, <1>1, CallsLeave DEF Leaves
<1>3. CloseBusy(S) => M.failed \/ Early
  BY WritesBusy DEF WriteDone, WriteFailed
<1>4. CASE WriteDone(r, n)
  <2>1. PICK y : y = [x EXCEPT !.indexIO = x.indexIO + n]
    OBVIOUS
  <2>2. PICK early : early = (x.early \/ y.indexIO < FileSize(x))
    OBVIOUS
  <2>3. PICK z : z = IF x.ioFinish THEN x
             ELSE IF y.indexIO >= FileSize(x) \/ n = 0
             THEN [y EXCEPT !.closeNotify = TRUE, !.ioFinish = TRUE, !.early = early]
             ELSE y
    OBVIOUS
  <2>4. Step("slave", EndFileIO(CloseStep("slave", z), r), net)
    BY <1>1, <1>4, <2>1, <2>2, <2>3 DEF WriteDone, S
  <2>5. Leaves(x, y) /\ y.early = x.early
    BY <1>2, <2>1 DEF Leaves, Marked
  <2>6. Leaves(x, z)
    <3>1. CASE x.ioFinish
      BY <3>1, <2>3, <1>2 DEF Leaves
    <3>2. CASE ~x.ioFinish /\ ~(y.indexIO >= FileSize(x) \/ n = 0)
      BY <3>2, <2>3, <2>5
    <3>3. CASE ~x.ioFinish /\ (y.indexIO >= FileSize(x) \/ n = 0)
      <4>1. z = [y EXCEPT !.closeNotify = TRUE, !.ioFinish = TRUE, !.early = early]
        BY <3>3, <2>3
      <4>2. Leaves(y, z)
        BY <4>1, <2>2, <2>5 DEF Leaves, Marked
      <4> QED
        BY <4>2, <2>5, LeavesTwice
    <3> QED
      BY <3>1, <3>2, <3>3
  <2>7. Leaves(S, z)
    BY <2>6, <1>2, LeavesTwice
  <2> QED
    BY <2>4, <2>7, <1>3, EndsAre, IOUses DEF Leaves, S
<1>5. CASE WriteFailed(r)
  <2>1. PICK z : z = IF x.ioFinish THEN x ELSE Failed(x)
    OBVIOUS
  <2>2. Step("slave", EndFileIO(CloseStep("slave", z), r), net)
    BY <1>1, <1>5, <2>1 DEF WriteFailed, S
  <2>3. /\ Marked(z) /\ z.early = x.early /\ z.broken = x.broken
        /\ z.closeReqSubmitted = x.closeReqSubmitted /\ z.pending = x.pending
    <3>1. CASE x.ioFinish
      BY <3>1, <2>1, <1>2
    <3>2. CASE ~x.ioFinish
      BY <3>2, <2>1, <1>2 DEF Failed, Marked
    <3> QED
      BY <3>1, <3>2
  <2> QED
    BY <2>2, <2>3, <1>2, <1>3, EndsAre, IOUses DEF Leaves, S
<1> QED
  BY <1>4, <1>5

\* CMD_FILE_FINISH closes only a file that is open, on which no close is under way.
LEMMA FinishUses ==
    ASSUME FileInv, CloseReqIsFree, job.kind = "file", NEW e \in Ends, FileFinish(e)
    PROVE  CloseReqIsFree'
<1>1. PICK n : n = Head(net[e]).n
  OBVIOUS
<1>2. PICK x : x = end[e]
  OBVIOUS
<1>3. Marked(x) /\ Leaves(x, x) /\ ~x.isDir
  BY <1>2, TypeFacts, EndXMarked DEF FileInv, EndOK
<1>4. x.isFdOpen => ~CloseBusy(x)
  BY <1>2, BusyAsked
<1>5. PICK y : y = Finish(x, n)
  OBVIOUS
<1>6. Step(e, y, Rest(e))
  BY <1>1, <1>2, <1>5 DEF FileFinish
<1>7. CASE n = 0
  <2>1. PICK said : said = IF x.indexIO >= FileSize(x) \/ ~x.failed THEN "OK" ELSE "Stop"
    OBVIOUS
  <2>2. PICK z : z = [x EXCEPT !.said = said]
    OBVIOUS
  <2>3. y = Send(z, Msg("CHANNEL_CLOSE", 1))
    BY <1>5, <1>7, <2>1, <2>2 DEF Finish, TaskFinish
  <2>4. Leaves(x, z) /\ Marked(z)
    BY <2>2, <1>3 DEF Leaves, Marked
  <2>5. Leaves(x, y)
    BY <2>3, <2>4, CallsLeave, LeavesTwice
  <2> QED
    BY <2>5, <1>2, <1>6, LeavingKeeps
<1>8. CASE n # 0
  <2>1. PICK c : c = IF x.isFdOpen THEN CloseNow(x) ELSE x
    OBVIOUS
  <2>2. Leaves(x, c) /\ Marked(c)
    BY <2>1, <1>3, <1>4, CallsLeave DEF Leaves
  <2>3. ~c.isDir
    <3>1. CASE x.isFdOpen
      <4>1. x \in EndX
        BY <1>2, TypeFacts DEF FileInv
      <4>2. c = CloseNow(x)
        BY <2>1, <3>1
      <4> QED
        BY <4>1, <4>2, <1>3, CloseNowIs DEF SameTask
    <3>2. CASE ~x.isFdOpen
      BY <3>2, <2>1, <1>3
    <3> QED
      BY <3>1, <3>2
  <2>4. PICK z : z = [c EXCEPT !.ioFinish = TRUE]
    OBVIOUS
  <2>5. y = Send(z, Msg("FINISH", n - 1))
    BY <1>5, <1>8, <2>1, <2>3, <2>4 DEF Finish
  <2>6. Leaves(c, z) /\ Marked(z)
    BY <2>2, <2>4 DEF Leaves, Marked
  <2>7. Leaves(z, y)
    BY <2>5, <2>6, CallsLeave
  <2>8. Leaves(x, y)
    BY <2>2, <2>6, <2>7, LeavesTwice
  <2> QED
    BY <2>8, <1>2, <1>6, LeavingKeeps
<1> QED
  BY <1>7, <1>8

\* Data that comes late has the slave close its file again.
LEMMA LateDataUses ==
    ASSUME FileInv, CloseReqIsFree, job.kind = "file", FileDataLate
    PROVE  CloseReqIsFree'
<1>1. PICK x : x = CloseNow(S)
  OBVIOUS
<1>2. PICK u : u = UseCloseReq(S)
  OBVIOUS
<1>3. S \in EndX /\ Marked(S) /\ ~S.isDir /\ S.ioFinish
  BY TypeFacts, EndXMarked, EndsAre DEF FileInv, EndOK, FileDataLate, S
<1>4. CloseBusy(S) => M.failed \/ Early
  <2>1. 1 \in At("slave", "DATA")
    <3>1. net["slave"] # <<>> /\ Head(net["slave"]).cmd = "DATA" /\ net["slave"] \in Seq(Message)
      BY TypeFacts, EndsAre DEF FileInv, FileDataLate, Receives
    <3> QED
      BY <3>1, TailOf DEF At
  <2>2. ~Healthy
    BY <2>1, <1>3 DEF FileInv, HealthyOK
  <2> QED
    BY <2>2, BusyCause
<1>5. u.broken = (S.broken \/ CloseBusy(S)) /\ Marked(u) /\ u.early = S.early
  BY <1>2, <1>3 DEF UseCloseReq, Marked
<1>6. Marked(x) /\ x.early = S.early /\ x.broken = u.broken
  BY <1>1, <1>2, <1>5 DEF CloseNow, Marked
<1>7. ~x.isFdOpen /\ ~x.isDir
  BY <1>1, <1>3, CloseNowIs DEF SameTask
<1>8. PICK z : z = [x EXCEPT !.ioFinish = TRUE]
  OBVIOUS
<1>9. PICK y : y = Send(z, Msg("FINISH", DataByte - 1))
  OBVIOUS
<1>10. Step("slave", y, Rest("slave"))
  <2>1. DataByte # 0
    BY BoundsAssumption
  <2>2. Finish(x, DataByte) = y
    BY <2>1, <1>7, <1>8, <1>9 DEF Finish
  <2> QED
    BY <2>2, <1>1 DEF FileDataLate, S
<1>11. Marked(z) /\ z.early = x.early /\ z.broken = x.broken
  BY <1>6, <1>8 DEF Marked
<1>12. Leaves(z, y)
  BY <1>9, <1>11, CallsLeave
<1>13. ~S.broken
  BY <1>10 DEF Step, S
<1>14. Marked(y) /\ (S.early => y.early) /\ (y.broken => M.failed \/ Early)
  BY <1>4, <1>5, <1>6, <1>11, <1>12, <1>13 DEF Leaves
<1> QED
  BY <1>10, <1>14, EndsAre, CallbackKeeps DEF S

\* Nothing is under way at an end whose file is open.
LEMMA DestructorUses ==
    ASSUME FileInv, CloseReqIsFree, job.kind = "file", NEW e \in Ends, TryRemoveTask(e)
    PROVE  CloseReqIsFree'
<1>1. PICK x : x = end[e]
  OBVIOUS
<1>2. Marked(x) /\ Leaves(x, x) /\ end \in [Ends -> EndX]
  BY <1>1, TypeFacts, EndXMarked DEF FileInv
<1>3. PICK d : d = Destructor(x)
  OBVIOUS
<1>4. Leaves(x, d)
  <2>1. x.isFdOpen => ~CloseBusy(x)
    BY <1>1, BusyAsked
  <2> QED
    BY <2>1, <1>2, <1>3, CallsLeave DEF Destructor
<1>5. PICK y : y = [d EXCEPT !.released = TRUE]
  OBVIOUS
<1>6. Leaves(d, y)
  BY <1>4, <1>5 DEF Leaves, Marked
<1>7. Leaves(x, y) /\ ~x.broken
  BY <1>4, <1>6, <1>1, LeavesTwice DEF TryRemoveTask
<1>8. end'[Other(e)] = end[Other(e)] /\ end'[e] = y
  BY <1>1, <1>2, <1>3, <1>5, EndsAre DEF TryRemoveTask
<1>9. \A z \in Ends : /\ (end'[z].broken <=> end[z].broken)
                      /\ (end[z].failed <=> end'[z].failed) /\ (end[z].early => end'[z].early)
  BY <1>1, <1>7, <1>8, EndsAre DEF Leaves
<1> QED
  BY <1>9, EndsAre DEF CloseReqIsFree, Early

LEMMA FreeMemoryUses ==
    ASSUME FileInv, CloseReqIsFree, job.kind = "file", NEW b \in Bufs, FreeMemory(b)
    PROVE  CloseReqIsFree'
<1>1. end \in [Ends -> EndX] /\ S \in EndX
  BY TypeFacts DEF FileInv
<1>2. PICK y : y = [S EXCEPT !.bufs = [S.bufs EXCEPT ![b] = "absent"]]
  OBVIOUS
<1>3. y.broken = S.broken /\ y.early = S.early /\ y.failed = S.failed
  BY <1>1, <1>2 DEF EndX
<1>4. end'["master"] = end["master"] /\ end'["slave"] = y
  BY <1>1, <1>2, EndsAre DEF FreeMemory, S
<1>5. \A z \in Ends : /\ (end'[z].broken <=> end[z].broken)
                      /\ (end[z].failed <=> end'[z].failed) /\ (end[z].early => end'[z].early)
  BY <1>3, <1>4, EndsAre DEF S
<1> QED
  BY <1>5, EndsAre DEF CloseReqIsFree, Early

\* The callbacks of opening, and of closing.
LEMMA OpeningUses ==
    ASSUME FileInv, CloseReqIsFree, job.kind = "file", NEW e \in Ends,
           OpenFailed(e) \/ OnFileOpen(e) \/ (\E r \in end[e].pending : OnFileClose(e, r))
    PROVE  CloseReqIsFree'
<1>1. PICK x : x = end[e]
  OBVIOUS
<1>2. Marked(x) /\ Leaves(x, x) /\ x \in EndX /\ ~x.isDir
  BY <1>1, TypeFacts, EndXMarked DEF FileInv, EndOK
<1>3. ASSUME NEW r, NEW t, t = Return(Took(x, r))
      PROVE  Leaves(x, t) /\ Marked(t) /\ t.isDir = x.isDir
  <2>1. PICK o : o = Took(x, r)
    OBVIOUS
  <2>2. Leaves(x, o) /\ Marked(o)
    BY <2>1, <1>2, CallsLeave DEF Leaves
  <2>3. t = Return(o)
    BY <2>1, <1>3
  <2>4. Leaves(o, t)
    BY <2>2, <2>3, CallsLeave
  <2>5. t.isDir = x.isDir
    BY <2>1, <2>3, <1>2 DEF EndX, Took, Return
  <2> QED
    BY <2>2, <2>4, <2>5, LeavesTwice DEF Leaves
<1>4. CASE OpenFailed(e)
  <2>1. PICK t : t = Return(Took(x, OpenRequest))
    OBVIOUS
  <2>2. PICK z : z = [t EXCEPT !.lost = t.lost \cup {t.cur}, !.fd = 0]
    OBVIOUS
  <2>3. Leaves(x, t) /\ Marked(t)
    BY <2>1, <1>3
  <2>4. ~z.isDir
    <3>1. PICK o : o = Took(x, OpenRequest)
      OBVIOUS
    <3>2. "isDir" \in DOMAIN x
      BY <1>2 DEF EndX
    <3>3. "isDir" \in DOMAIN t /\ t.isDir = x.isDir
      BY <3>1, <3>2, <2>1 DEF Took, Return
    <3> QED
      BY <3>3, <2>2, <1>2
  <2>5. Leaves(t, z) /\ Marked(z)
    BY <2>2, <2>3 DEF Leaves, Marked
  <2>6. PICK y : y = Send(z, Msg("CHANNEL_CLOSE", 1))
    OBVIOUS
  <2>7. Step(e, y, net)
    BY <1>1, <1>4, <2>1, <2>2, <2>4, <2>6 DEF OpenFailed, TaskFinish
  <2>8. Leaves(x, y)
    BY <2>3, <2>5, <2>6, CallsLeave, LeavesTwice
  <2> QED
    BY <2>7, <2>8, <1>1, LeavingKeeps
<1>5. CASE OnFileOpen(e)
  <2>1. PICK t : t = Return(Took(x, OpenRequest))
    OBVIOUS
  <2>2. PICK c : c = ResetCtx(t)
    OBVIOUS
  <2>3. PICK fd : fd = CHOOSE d \in Fds \ t.openFds : TRUE
    OBVIOUS
  <2>4. PICK z : z = [c EXCEPT !.fd = fd, !.isFdOpen = TRUE, !.openFds = t.openFds \cup {fd}]
    OBVIOUS
  <2>5. PICK y : y = IF e = "slave" THEN Send(z, Msg("BEGIN", 0)) ELSE CheckMaster(z)
    OBVIOUS
  <2>6. Step(e, y, net) /\ OpenRequest \in x.pending
    BY <1>1, <1>5, <2>1, <2>2, <2>3, <2>4, <2>5 DEF OnFileOpen
  <2>7. Marked(t) /\ (x.early => t.early) /\ (t.broken => x.broken)
    BY <2>1, <1>3 DEF Leaves
  <2>8. Marked(z) /\ z.early = t.early /\ z.broken = t.broken
    BY <2>2, <2>4, <2>7 DEF ResetCtx, Marked
  <2>9. Leaves(z, y)
    BY <2>5, <2>8, CallsLeave DEF CheckMaster
  <2>10. ~x.failed
    BY <2>6, <1>1 DEF FileInv, EndOK, Unopened, FdsOK
  <2>11. ~x.broken
    BY <2>6, <1>1 DEF Step
  <2> QED
    BY <2>6, <2>7, <2>8, <2>9, <2>10, <2>11, <1>1, CallbackKeeps DEF Leaves, M
<1>6. ASSUME NEW r \in end[e].pending, OnFileClose(e, r)
      PROVE  CloseReqIsFree'
  <2>1. PICK o : o = Took(x, r)
    OBVIOUS
  <2>2. PICK c : c = [o EXCEPT !.openFds = x.openFds \ {r.fd}, !.closeReqSubmitted = FALSE]
    OBVIOUS
  <2>3. PICK z : z = IF c.closeNotify THEN WhenTransferFinish(e, c) ELSE c
    OBVIOUS
  <2>4. PICK y : y = Return(z)
    OBVIOUS
  <2>5. Step(e, y, net)
    BY <1>1, <1>6, <2>1, <2>2, <2>3, <2>4 DEF OnFileClose
  <2>6. Leaves(x, o) /\ Marked(o)
    BY <2>1, <1>2, CallsLeave DEF Leaves
  <2>7. Marked(c) /\ c.early = o.early /\ c.broken = o.broken /\ c.failed = o.failed
    BY <2>2, <2>6 DEF Marked
  <2>8. Leaves(c, z) /\ Marked(z)
    <3>1. Leaves(c, c)
      BY <2>7 DEF Leaves
    <3> QED
      BY <3>1, <2>3, <2>7, CallsLeave DEF WhenTransferFinish, Leaves
  <2>9. Leaves(z, y)
    BY <2>4, <2>8, CallsLeave
  <2>10. ~x.broken
    BY <2>5, <1>1 DEF Step
  <2> QED
    BY <2>5, <2>6, <2>7, <2>8, <2>9, <2>10, <1>1, CallbackKeeps DEF Leaves, M
<1> QED
  BY <1>4, <1>5, <1>6

\* Commands that have nothing closed.
LEMMA PlainUses ==
    ASSUME FileInv, CloseReqIsFree, job.kind = "file",
           \/ BeginTask \/ BeginData \/ FileData
           \/ \E path \in PathChecks : SlaveCheck(path)
           \/ \E e \in Ends : FileModeSync(e) \/ ChannelClose(e) \/ Ignore(e) \/ Detach(e)
    PROVE  CloseReqIsFree'
<1>1. \A e \in Ends : Marked(end[e]) /\ Leaves(end[e], end[e])
  BY TypeFacts, EndXMarked DEF FileInv
<1>2. ASSUME NEW ok \in BOOLEAN, Begin(ok)
      PROVE  CloseReqIsFree'
  <2>1. PICK x : x = [end["master"] EXCEPT !.begun = TRUE]
    OBVIOUS
  <2>2. Leaves(end["master"], x) /\ Marked(x)
    BY <2>1, <1>1, EndsAre DEF Leaves, Marked
  <2>3. CASE ~ok
    <3>1. PICK y : y = Send(x, Msg("CHANNEL_CLOSE", 1))
      OBVIOUS
    <3>2. Step("master", y, net)
      BY <1>2, <2>1, <2>3, <3>1 DEF Begin, TaskFinish
    <3>3. Leaves(end["master"], y)
      BY <2>2, <3>1, CallsLeave, LeavesTwice
    <3> QED
      BY <3>2, <3>3, EndsAre, LeavingKeeps
  <2>4. CASE ok
    <3>1. PICK z : z = [x EXCEPT !.isDir = job.kind = "dir", !.queue = AllFiles,
                                 !.dirMode = IF job.kind = "dir" THEN MaxDirs ELSE 0]
      OBVIOUS
    <3>2. PICK o : o = Open(z, Last(z.queue))
      OBVIOUS
    <3>3. PICK y : y = [o EXCEPT !.queue = Front(z.queue)]
      OBVIOUS
    <3>4. Step("master", y, net)
      BY <1>2, <2>1, <2>4, <3>1, <3>2, <3>3 DEF Begin, BeginTransfer, TransferNext, RunQueue
    <3>5. Leaves(x, z) /\ Marked(z)
      BY <2>2, <3>1 DEF Leaves, Marked
    <3>6. Leaves(z, o) /\ Marked(o)
      BY <3>2, <3>5, CallsLeave DEF Leaves
    <3>7. Leaves(o, y)
      BY <3>3, <3>6 DEF Leaves, Marked
    <3>8. Leaves(end["master"], y)
      BY <2>2, <3>5, <3>6, <3>7, LeavesTwice
    <3> QED
      BY <3>4, <3>8, EndsAre, LeavingKeeps
  <2> QED
    BY <2>3, <2>4
<1>3. ASSUME BeginData
      PROVE  CloseReqIsFree'
  <2>1. PICK x : x = end["master"]
    OBVIOUS
  <2>2. PICK y : y = SimpleFileIO(x, "read", x.indexIO, MaxRead)
    OBVIOUS
  <2>3. Step("master", y, Rest("master"))
    BY <1>3, <2>1, <2>2 DEF BeginData
  <2>4. Leaves(x, y)
    BY <2>1, <2>2, <1>1, EndsAre, IOLeaves
  <2> QED
    BY <2>1, <2>3, <2>4, EndsAre, LeavingKeeps
<1>4. ASSUME FileData
      PROVE  CloseReqIsFree'
  <2>1. PICK m : m = Head(net["slave"])
    OBVIOUS
  <2>2. PICK y : y = SimpleFileIO(end["slave"], "write", m.index, m.n)
    OBVIOUS
  <2>3. Step("slave", y, Rest("slave"))
    BY <1>4, <2>1, <2>2 DEF FileData
  <2>4. Leaves(end["slave"], y)
    BY <2>2, <1>1, EndsAre, IOLeaves
  <2> QED
    BY <2>3, <2>4, EndsAre, LeavingKeeps
<1>5. ASSUME NEW path \in PathChecks, SlaveCheck(path)
      PROVE  CloseReqIsFree'
  <2>1. PICK f : f = Head(net["slave"]).file
    OBVIOUS
  <2>2. PICK x : x = CheckLocalPath([end["slave"] EXCEPT !.begun = TRUE])
    OBVIOUS
  <2>3. PICK z : z = [x EXCEPT !.cur = f, !.lost = x.lost \cup {f}]
    OBVIOUS
  <2>4. PICK y : y = IF path = "writable" THEN Open(x, f) ELSE Send(z, Msg("CHANNEL_CLOSE", 1))
    OBVIOUS
  <2>5. Step("slave", y, Rest("slave"))
    BY <1>5, <2>1, <2>2, <2>3, <2>4 DEF SlaveCheck, TaskFinish
  <2>6. Leaves(end["slave"], x) /\ Marked(x)
    BY <2>2, <1>1, EndsAre DEF Leaves, Marked, CheckLocalPath
  <2>7. Leaves(x, z) /\ Marked(z)
    BY <2>3, <2>6 DEF Leaves, Marked
  <2>8. Leaves(x, y)
    BY <2>4, <2>6, <2>7, CallsLeave, LeavesTwice
  <2>9. Leaves(end["slave"], y)
    BY <2>6, <2>8, LeavesTwice
  <2> QED
    BY <2>5, <2>9, EndsAre, LeavingKeeps
<1>6. ASSUME NEW e \in Ends, FileModeSync(e)
      PROVE  CloseReqIsFree'
  <2>1. PICK x : x = end[e]
    OBVIOUS
  <2>2. ~(x.dirMode > 0)
    <3>1. x.dirMode = 0
      BY <2>1 DEF FileInv, EndOK
    <3> QED
      BY <3>1
  <2>3. PICK y : y = IF e = "slave" THEN Send(x, Msg("MODE", 0))
                     ELSE Send(x, [Msg("CHECK", 0) EXCEPT !.file = x.cur])
    OBVIOUS
  <2>4. Step(e, y, Rest(e))
    BY <1>6, <2>1, <2>2, <2>3 DEF FileModeSync
  <2>5. Leaves(x, y)
    BY <2>1, <2>3, <1>1, CallsLeave
  <2> QED
    BY <2>1, <2>4, <2>5, LeavingKeeps
<1>7. ASSUME NEW e \in Ends, ChannelClose(e) \/ Ignore(e) \/ Detach(e)
      PROVE  CloseReqIsFree'
  <2>1. PICK s : s = StopTask(end[e])
    OBVIOUS
  <2>2. Leaves(end[e], s) /\ Marked(s)
    BY <2>1, <1>1, CallsLeave DEF Leaves
  <2>3. \A out : Leaves(s, [s EXCEPT !.out = out])
    BY <2>2 DEF Leaves, Marked
  <2>4. \A out : Leaves(end[e], [s EXCEPT !.out = out])
    BY <2>2, <2>3, LeavesTwice
  <2>5. CASE Ignore(e)
    BY <2>5, <1>1, LeavingKeeps DEF Ignore
  <2>6. CASE Detach(e)
    <3>1. PICK y : y = [s EXCEPT !.out = <<Msg("CHANNEL_CLOSE", 0)>>]
      OBVIOUS
    <3>2. Step(e, y, net)
      BY <2>1, <2>6, <3>1 DEF Detach
    <3> QED
      BY <2>4, <3>1, <3>2, LeavingKeeps
  <2>7. CASE ChannelClose(e)
    <3>1. PICK n : n = Head(net[e]).n
      OBVIOUS
    <3>2. PICK out : out = IF n = 0 THEN <<>> ELSE <<Msg("CHANNEL_CLOSE", n - 1)>>
      OBVIOUS
    <3>3. PICK y : y = [s EXCEPT !.out = out]
      OBVIOUS
    <3>4. Step(e, y, Rest(e))
      BY <2>1, <2>7, <3>1, <3>2, <3>3 DEF ChannelClose
    <3> QED
      BY <2>4, <3>3, <3>4, LeavingKeeps
  <2> QED
    BY <1>7, <2>5, <2>6, <2>7
<1> QED
  BY <1>2, <1>3, <1>4, <1>5, <1>6, <1>7 DEF BeginTask

LEMMA CloseReqStep ==
    ASSUME FileInv, CloseReqIsFree, job.kind = "file", Next
    PROVE  CloseReqIsFree'
<1>1. CASE BeginTask
  BY <1>1, PlainUses
<1>2. CASE ReadDone1
  BY <1>2, ReadUses DEF ReadDone1, M
<1>3. CASE WriteDone1
  BY <1>3, WriteUses DEF WriteDone1, S
<1>4. CASE MasterCommand
  BY <1>4, PlainUses, NoAppFinish DEF MasterCommand
<1>5. CASE SlaveCommand
  BY <1>5, PlainUses, LateDataUses DEF SlaveCommand
<1>6. ASSUME NEW e \in Ends,
             RequestDone(e) \/ CommandDispatch(e) \/ Detach(e) \/ TryRemoveTask(e)
      PROVE  CloseReqIsFree'
  BY <1>6, OpeningUses, FinishUses, DestructorUses, PlainUses DEF RequestDone, CommandDispatch
<1>7. CASE \E b \in Bufs : FreeMemory(b)
  BY <1>7, FreeMemoryUses
<1> QED
  BY <1>1, <1>2, <1>3, <1>4, <1>5, <1>6, <1>7 DEF Next

-----------------------------------------------------------------------------
(* The invariant *)

LEMMA InitInv ==
    ASSUME Init
    PROVE  OneFileInv
<1> SUFFICES ASSUME job.kind = "file"
             PROVE  FileInv /\ CloseReqIsFree
  BY DEF OneFileInv
<1>1. New \in End
  <2>1. [b \in Bufs |-> "absent"] \in [Bufs -> {"absent", "free", "used"}]
    OBVIOUS
  <2>2. <<>> \in Seq(Files) /\ 0 \in 0..MaxDirs /\ {} \in SUBSET Request /\ <<>> \in {<<>>}
    BY BoundsAssumption
  <2> QED
    BY <2>1, <2>2 DEF New, End
<1>2. TypeOK
  BY <1>1, NoneIsASequence DEF Init, TypeOK
<1>3. M = New /\ S = New /\ net["master"] = <<>> /\ net["slave"] = <<>> /\ disk[1] = {}
  <2>1. 1 \in Files
    BY <1>2, TypeFacts
  <2> QED
    BY <2>1, EndsAre DEF Init, M, S
<1>4. EndOK(New)
  <2>1. New.pending = {} /\ Cardinality({}) = 0 /\ IsFiniteSet({})
    BY FS_EmptySet DEF New
  <2>2. RequestsOK(New)
    BY <2>1 DEF RequestsOK, New
  <2>3. BufsOK(New)
    BY DEF BufsOK, New
  <2>4. FdsOK(New) /\ Unopened(New) /\ ~New.isDir /\ New.cur = 0 /\ New.dirMode = 0
    BY DEF FdsOK, Unopened, New
  <2> QED
    BY <2>1, <2>2, <2>3, <2>4 DEF EndOK
<1>5. \A e \in Ends, cmd \in Commands : At(e, cmd) = {}
  BY <1>3, EndsAre DEF At
<1>6. /\ At("slave", "DATA") = {} /\ Checks = {} /\ At("slave", "FINISH") = {}
      /\ At("master", "BEGIN") = {} /\ ModeAcks = {} /\ At("master", "FINISH") = {}
  BY <1>5, EndsAre DEF Commands, Checks, ModeAcks
<1>7. Reads = {} /\ Writes = {} /\ ~Opens("master") /\ ~Opens("slave")
  BY <1>3 DEF Reads, Writes, Opens, New, M, S
<1>8. Quiet
  BY <1>3, <1>6, <1>7 DEF Quiet, New
<1>9. StageOK
  BY <1>3, <1>6, <1>7, <1>8 DEF StageOK, New
<1>10. CommandsOK
  BY <1>3 DEF CommandsOK
<1>11. Size \in Nat
  BY <1>2, PieceTypes
<1>12. ReadsOK
  BY <1>3, <1>7, <1>11 DEF ReadsOK, New
<1>13. PiecesOK
  BY <1>6, <1>7 DEF PiecesOK
<1>14. DiskOK
  BY <1>3, FS_EmptySet DEF DiskOK, New
<1>15. \A e \in Ends : Finishes(e, 0) = {} /\ Finishes(e, 1) = {}
  BY <1>6, EndsAre DEF Finishes
<1>16. FinishOK
  BY <1>3, <1>15, EndsAre DEF FinishOK, MasterAsksOK, SlaveDoneOK, New
<1>17. HealthyOK
  <2>1. HealthyEnd(New)
    BY DEF HealthyEnd, New
  <2> QED
    BY <2>1, <1>3, <1>6, <1>7, <1>8 DEF HealthyOK, Quiet
<1>18. CloseReqIsFree
  BY <1>3, EndsAre DEF CloseReqIsFree, New, M, S
<1> QED
  BY <1>2, <1>3, <1>4, <1>9, <1>10, <1>12, <1>13, <1>14, <1>16, <1>17, <1>18, FileInvParts
     DEF Shared

LEMMA RequestDoneKeeps ==
    ASSUME FileInv, job.kind = "file", NEW e \in Ends, RequestDone(e)
    PROVE  FileInv'
BY OpenFailedKeeps, OnFileOpenKeeps, OnFileCloseKeeps DEF RequestDone

LEMMA CommandKeeps ==
    ASSUME FileInv, job.kind = "file", NEW e \in Ends, CommandDispatch(e)
    PROVE  FileInv'
<1>1. CASE FileFinish(e)
  BY <1>1, MasterFinishKeeps, SlaveFinishKeeps, EndsAre
<1> QED
  BY <1>1, FileModeSyncKeeps, ChannelCloseKeeps, IgnoreKeeps DEF CommandDispatch

LEMMA FileInvStep ==
    ASSUME FileInv, job.kind = "file", Next
    PROVE  FileInv'
<1>1. CASE BeginTask
  BY <1>1, BeginKeeps DEF BeginTask
<1>2. CASE ReadDone1
  <2>1. PICK r : ReadFailed(r) \/ \E n \in 0..MaxRead : ReadDone(r, n)
    BY <1>2 DEF ReadDone1
  <2> QED
    BY <2>1, ReadFailedKeeps, ReadDoneKeeps
<1>3. CASE WriteDone1
  <2>1. PICK r : WriteFailed(r) \/ \E n \in 0..MaxRead : WriteDone(r, n)
    BY <1>3 DEF WriteDone1
  <2> QED
    BY <2>1, WriteFailedKeeps, WriteDoneKeeps
<1>4. CASE MasterCommand
  BY <1>4, BeginDataKeeps, NoAppFinish DEF MasterCommand
<1>5. CASE SlaveCommand
  BY <1>5, FileDataKeeps, FileDataLateKeeps, SlaveCheckKeeps DEF SlaveCommand
<1>6. CASE \E e \in Ends :
               RequestDone(e) \/ CommandDispatch(e) \/ Detach(e) \/ TryRemoveTask(e)
  BY <1>6, RequestDoneKeeps, CommandKeeps, DetachKeeps, TryRemoveTaskKeeps
<1>7. CASE \E b \in Bufs : FreeMemory(b)
  BY <1>7, FreeMemoryKeeps
<1> QED
  BY <1>1, <1>2, <1>3, <1>4, <1>5, <1>6, <1>7 DEF Next

\* What is copied does not change.
LEMMA JobKept ==
    ASSUME Next
    PROVE  job' = job
<1>1. \A e \in Ends : RequestDone(e) \/ CommandDispatch(e) \/ Detach(e) \/ TryRemoveTask(e)
                      => job' = job
  BY DEF RequestDone, OpenFailed, OnFileOpen, OnFileClose, CommandDispatch, FileModeSync,
         FileFinish, ChannelClose, Ignore, Detach, TryRemoveTask, Step
<1>2. BeginTask \/ ReadDone1 \/ WriteDone1 \/ MasterCommand \/ SlaveCommand => job' = job
  <2>1. ASSUME NEW r, NEW n
        PROVE  ReadFailed(r) \/ ReadDone(r, n) \/ WriteFailed(r) \/ WriteDone(r, n)
               => job' = job
    BY DEF ReadFailed, ReadDone, WriteFailed, WriteDone, Step
  <2>2. ReadDone1 \/ WriteDone1 => job' = job
    BY <2>1 DEF ReadDone1, WriteDone1
  <2>3. BeginTask \/ MasterCommand \/ SlaveCommand => job' = job
    BY DEF BeginTask, Begin, MasterCommand, BeginData, AppFinish, SlaveCommand, FileData,
           FileDataLate, SlaveCheck, Step
  <2> QED
    BY <2>2, <2>3
<1>3. (\E b \in Bufs : FreeMemory(b)) => job' = job
  BY DEF FreeMemory
<1> QED
  BY <1>1, <1>2, <1>3 DEF Next

\* FileInv and CloseReqIsFree are inductive: for every copy of one file they hold
\* in every state, also with short and empty reads and writes.
THEOREM OneFileInvHolds == Spec => []OneFileInv
<1>1. Init => OneFileInv
  BY InitInv
<1>2. OneFileInv /\ [Next]_vars => OneFileInv'
  <2> SUFFICES ASSUME OneFileInv, [Next]_vars, (job.kind = "file")'
               PROVE  FileInv' /\ CloseReqIsFree'
    BY DEF OneFileInv
  <2>1. CASE Next
    <3>1. job.kind = "file" /\ FileInv /\ CloseReqIsFree
      BY <2>1, JobKept DEF OneFileInv
    <3> QED
      BY <2>1, <3>1, FileInvStep, CloseReqStep
  <2>2. CASE UNCHANGED vars
    <3>1. job' = job /\ end' = end /\ net' = net /\ disk' = disk
      BY <2>2 DEF vars
    <3>2. FileInv
      BY <3>1 DEF OneFileInv
    <3>3. M' = M /\ S' = S /\ Size' = Size
      BY <3>1 DEF M, S, Size
    <3>4. Reads' = Reads /\ Writes' = Writes /\ Complete' = Complete
      BY <3>1, <3>3 DEF Reads, Writes, Complete
    <3>5. /\ \A e, cmd : At(e, cmd)' = At(e, cmd)
          /\ Checks' = Checks /\ ModeAcks' = ModeAcks
      BY <3>1 DEF At, Checks, ModeAcks
    <3>6. \A e : Opens(e)' = Opens(e)
      BY <3>1 DEF Opens
    <3>7. \A e, n : Finishes(e, n)' = Finishes(e, n)
      BY <3>1, <3>5 DEF Finishes
    <3>8. TypeOK' /\ (\A e \in Ends : EndOK(end[e]))'
      BY <3>1, <3>2 DEF FileInv, TypeOK
    <3>9. Quiet' = Quiet
      BY <3>3, <3>4, <3>5 DEF Quiet
    <3>10. StageOK'
      BY <3>2, <3>3, <3>5, <3>6, <3>9 DEF FileInv, StageOK
    <3>11. CommandsOK'
      BY <3>1, <3>2 DEF FileInv, CommandsOK
    <3>12. ReadsOK'
      BY <3>2, <3>3, <3>4 DEF FileInv, ReadsOK
    <3>13. (\A p : PieceOK(p)' <=> PieceOK(p))
      BY <3>1, <3>3 DEF PieceOK
    <3>14. PiecesOK'
      BY <3>1, <3>2, <3>4, <3>5, <3>13 DEF FileInv, PiecesOK
    <3>15. DiskOK'
      BY <3>1, <3>2, <3>3 DEF FileInv, DiskOK
    <3>16. /\ Resolved' = Resolved /\ Over' = Over
           /\ Early' = Early /\ Healthy' = Healthy
      BY <3>1, <3>3, <3>4, <3>5 DEF Resolved, Over, Early, Healthy
    <3>17. /\ \A i : AnswerOK(i)' <=> AnswerOK(i)
           /\ \A i : AskOK(i)' <=> AskOK(i)
      BY <3>3, <3>5, <3>7, <3>16 DEF AnswerOK, AskOK
    <3>18. MasterAsksOK' = MasterAsksOK /\ SlaveDoneOK' = SlaveDoneOK
      BY <3>1, <3>3, <3>5, <3>7, <3>16 DEF MasterAsksOK, SlaveDoneOK
    <3>19. FinishOK'
      BY <3>1, <3>2, <3>3, <3>4, <3>7, <3>16, <3>17, <3>18 DEF FileInv, FinishOK
    <3>20. HealthyOK' = HealthyOK
      BY <3>3, <3>4, <3>5, <3>6 DEF HealthyOK
    <3>21. CloseReqIsFree'
      BY <3>1, <3>16 DEF OneFileInv, CloseReqIsFree
    <3> QED
      BY <3>1, <3>2, <3>8, <3>10, <3>11, <3>12, <3>14, <3>15, <3>16, <3>19, <3>20, <3>21
         DEF FileInv
  <2> QED
    BY <2>1, <2>2
<1> QED
  BY <1>1, <1>2, PTL DEF Spec

-----------------------------------------------------------------------------
(* What follows *)

\* For every copy of one file: the ends, the commands under way and the disk have
\* their types.
THEOREM TypeOKHolds == Spec => [](job.kind = "file" => TypeOK)
<1>1. OneFileInv => (job.kind = "file" => TypeOK)
  BY DEF OneFileInv, FileInv
<1> QED
  BY <1>1, OneFileInvHolds, PTL

LEMMA IOOwnsBuffers ==
    ASSUME NEW x, RequestsOK(x), BufsOK(x),
           NEW io, io = {r \in x.pending : r.op \in {"read", "write"}}
    PROVE  /\ {r.buf : r \in io} = {b \in Bufs : x.bufs[b] = "used"}
           /\ Cardinality(io) = Cardinality({r.buf : r \in io})
<1>1. ASSUME NEW r \in io
      PROVE  r.buf \in Bufs /\ x.bufs[r.buf] = "used"
  BY <1>1 DEF RequestsOK
<1>2. ASSUME NEW b \in Bufs, x.bufs[b] = "used"
      PROVE  \E r \in io : r.buf = b
  BY <1>2 DEF BufsOK
<1>3. ASSUME NEW r \in io, NEW s \in io, r.buf = s.buf
      PROVE  r = s
  BY <1>3 DEF BufsOK
<1>4. IsFiniteSet(io)
  BY FS_Subset DEF RequestsOK
<1> DEFINE T == {r.buf : r \in io}
           f == [r \in io |-> r.buf]
<1>5. f \in Bijection(io, T)
  <2>1. f \in [io -> T] /\ \A r \in io : f[r] = r.buf
    OBVIOUS
  <2>2. \A r, s \in io : f[r] = f[s] => r = s
    BY <2>1, <1>3
  <2>3. \A t \in T : \E r \in io : f[r] = t
    BY <2>1
  <2> HIDE DEF f, T
  <2> QED
    BY <2>1, <2>2, <2>3, Fun_IsBij
<1>6. ExistsBijection(io, T)
  BY <1>5, Fun_ExistsBij
<1> HIDE DEF T, f
<1>7. Cardinality(io) = Cardinality(T)
  BY <1>4, <1>6, FS_Bijection
<1> QED
  BY <1>1, <1>2, <1>7 DEF T

\* For every copy of one file, whichever requests fail or move less than they
\* should, and in whatever order they end: refCount, which ReadyForRelease looks
\* at, is the number of requests under way; the buffers of the CircleBuffer in use
\* are theirs, one each; and fsCloseReq is begun again under way only after the
\* master could not read or a file ended early.
THEOREM RequestsAreAccountedHolds == Spec => [](job.kind = "file" => RequestsAreAccounted)
<1>1. OneFileInv => (job.kind = "file" => RequestsAreAccounted)
  <2> SUFFICES ASSUME OneFileInv, job.kind = "file"
               PROVE  RequestsAreAccounted
    OBVIOUS
  <2>1. \A e \in Ends : RequestsOK(end[e]) /\ BufsOK(end[e])
    BY DEF OneFileInv, FileInv, EndOK
  <2>2. RefCountsRequests
    BY <2>1 DEF RefCountsRequests, RequestsOK
  <2>3. BuffersAreOwned
    BY <2>1, IOOwnsBuffers DEF BuffersAreOwned, IO
  <2>4. CloseReqIsFree
    BY DEF OneFileInv
  <2> QED
    BY <2>2, <2>3, <2>4 DEF RequestsAreAccounted
<1> QED
  BY <1>1, OneFileInvHolds, PTL

\* For every copy of one file: no descriptor is left when the task object is
\* deleted, and as long as no read or write fails or ends the file early a file is
\* closed behind the last of them, and once.
THEOREM FilesAreClosedHolds == Spec => [](job.kind = "file" => FilesAreClosed)
<1>1. OneFileInv => (job.kind = "file" => FilesAreClosed)
  <2> SUFFICES ASSUME OneFileInv, job.kind = "file"
               PROVE  FilesAreClosed
    OBVIOUS
  <2>1. ReleasedHasNoFd
    BY DEF OneFileInv, FileInv, EndOK, FdsOK, ReleasedHasNoFd
  <2>2. ASSUME Healthy, NEW e \in Ends
        PROVE  HealthyEnd(end[e]) /\ EndOK(end[e])
    BY <2>2, EndsAre DEF OneFileInv, FileInv, HealthyOK, M, S
  <2>3. ASSUME Healthy, NEW e \in Ends, NEW r \in end[e].pending,
               r.op \in {"read", "write"}
        PROVE  r.fd \in end[e].openFds
    BY <2>2, <2>3 DEF HealthyEnd
  <2>4. ASSUME Healthy, NEW e \in Ends, NEW r \in end[e].pending,
               NEW s \in end[e].pending, r.op = "close"
        PROVE  r.fd \in end[e].openFds /\ (s.fd = r.fd => s = r)
    <3>1. HealthyEnd(end[e]) /\ RequestsOK(end[e]) /\ FdsOK(end[e]) /\ EndOK(end[e])
      BY <2>2, <2>4 DEF EndOK
    <3>2. r.fd \in end[e].openFds /\ end[e].closeReqSubmitted /\ ~end[e].isFdOpen
      BY <3>1, <2>4 DEF HealthyEnd, RequestsOK, FdsOK
    <3>3. s.op \notin {"read", "write"}
      BY <3>1, <3>2 DEF HealthyEnd
    <3>4. s.op = "close" => s = r
      BY <3>1, <2>4 DEF RequestsOK
    <3>5. s.op # "open"
      BY <3>1, <2>4, OpenRequestIs DEF EndOK, RequestsOK, Unopened
    <3>6. s.op \in {"open", "read", "write", "close"}
      <4>1. s \in Request
        BY <2>4, EndTypes, TypeFacts DEF OneFileInv, FileInv
      <4> QED
        BY <4>1 DEF Request
    <3> QED
      BY <3>2, <3>3, <3>4, <3>5, <3>6
  <2>5. NoRequestOnClosedFd
    BY <2>3, <2>4 DEF NoRequestOnClosedFd, IO
  <2> QED
    BY <2>1, <2>5 DEF FilesAreClosed
<1> QED
  BY <1>1, OneFileInvHolds, PTL

\* For every copy of one file, of any size: the user is told that the transfer is
\* finished only when every block is on the disk, although it is a count of blocks
\* that decides, writes end in any order and may store less than they should; or
\* when an end saw the file end before its size.
THEOREM FinishedIsCompleteHolds == Spec => [](job.kind = "file" => FinishedIsComplete)
<1>1. OneFileInv => (job.kind = "file" => FinishedIsComplete)
  <2> SUFFICES ASSUME OneFileInv, job.kind = "file", NEW e \in Ends, end[e].said = "OK",
                      ~Early
               PROVE  \A f \in 1..job.count : f \in Lost \/ disk[f] = 0..(job.size[f] - 1)
    BY DEF FinishedIsComplete
  <2>1. FileInv
    BY DEF OneFileInv
  <2>2. job.count = 1
    BY <2>1 DEF FileInv, TypeOK, Jobs
  <2>3. Complete
    BY <2>1, EndsAre DEF FileInv, FinishOK, M, S
  <2> QED
    BY <2>2, <2>3 DEF Complete, Size
<1> QED
  BY <1>1, OneFileInvHolds, PTL
=============================================================================
