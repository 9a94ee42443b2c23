---------------------------- MODULE HdcWireProofs ----------------------------
(***************************************************************************)
(* What arrives is what was sent.  First the stream: FetchCommand sees the  *)
(* packets of a session whole, once and in order, for packets and buffers of *)
(* any size and pieces of any length (HdcStream).  Then what the packets     *)
(* carry: a message is read back field by field as it was written, with      *)
(* integers of any width and strings of any length, and the tagged values of *)
(* a handshake come back out of its buf (HdcCodec).                          *)
(***************************************************************************)
EXTENDS HdcStream, HdcCodec, SequenceTheorems, WellFoundedInduction, TLAPS

-----------------------------------------------------------------------------
(* Induction *)

\* Some element of a set of numbers is the least: what is shown of a number from
\* the smaller ones is shown by looking at the least one it fails for.
LEMMA Smallest ==
    ASSUME NEW T, T \subseteq Nat, T # {}
    PROVE  \E x \in T : \A y \in T : x <= y
<1> DEFINE R == {p \in Nat \X Nat : p[1] < p[2]}
<1>1. IsWellFoundedOn(R, Nat)
    BY NatLessThanWellFounded DEF OpToRel
<1>2. PICK x \in T : \A y \in T : <<y, x>> \notin R
    <2> HIDE DEF R
    <2> QED
        BY <1>1, WFMin
<1>3. ASSUME NEW y \in T
      PROVE  x <= y
    <2>1. x \in Nat /\ y \in Nat
        OBVIOUS
    <2>2. ~(y < x)
        BY <2>1, <1>2
    <2> QED
        BY <2>1, <2>2
<1> QED
    BY <1>3

-----------------------------------------------------------------------------
(* Bytes in order *)

First(p) == [packet |-> p, place |-> 1]

LEMMA EndsAre == \A e \in Ends : Peer(e) \in Ends /\ Peer(Peer(e)) = e /\ Peer(e) # e
BY DEF Ends, Peer

LEMMA SizeTypes ==
    ASSUME NEW e \in Ends, sent[e] \in Seq(Sizes), NEW p \in 1..Len(sent[e])
    PROVE  Whole(e, p) \in Nat /\ Whole(e, p) > HeadSize /\ HeadSize \in Nat \ {0}
           /\ sent[e][p] \in Nat \ {0} /\ Whole(e, p) = HeadSize + sent[e][p]
<1>1. sent[e][p] \in Sizes
    BY ElementOfSeq
<1>2. sent[e][p] \in Nat \ {0} /\ HeadSize \in Nat \ {0}
    BY <1>1, SizesAssumption
<1> QED
    BY <1>2 DEF Whole

\* What is at the places m + 1 to n of a sequence.
LEMMA Cut ==
    ASSUME NEW S, NEW s \in Seq(S), NEW m \in 0..Len(s), NEW n \in m..Len(s)
    PROVE  /\ SubSeq(s, m + 1, n) \in Seq(S)
           /\ Len(SubSeq(s, m + 1, n)) = n - m
           /\ DOMAIN SubSeq(s, m + 1, n) = 1..(n - m)
           /\ \A j \in 1..(n - m) : SubSeq(s, m + 1, n)[j] = s[m + j] /\ m + j \in 1..Len(s)
<1>1. Len(s) \in Nat /\ m \in Nat /\ n \in Nat /\ m + 1 \in Int /\ m <= n /\ n <= Len(s)
    OBVIOUS
<1>2. \A i \in (m + 1)..n : s[i] \in S
    <2>1. \A i \in (m + 1)..n : i \in 1..Len(s)
        BY <1>1
    <2> QED
        BY <2>1, ElementOfSeq
<1>3. /\ SubSeq(s, m + 1, n) \in Seq(S)
      /\ Len(SubSeq(s, m + 1, n)) = IF m + 1 <= n THEN n - (m + 1) + 1 ELSE 0
      /\ \A j \in 1..(n - (m + 1) + 1) : SubSeq(s, m + 1, n)[j] = s[m + 1 + j - 1]
    BY <1>1, <1>2, SubSeqProperties
<1> DEFINE q == SubSeq(s, m + 1, n)
<1>4. Len(q) = n - m
    BY <1>1, <1>3
<1>5. q \in Seq(S)
    BY <1>3
<1> HIDE DEF q
<1>6. DOMAIN q = 1..(n - m)
    BY <1>4, <1>5
<1>7. \A j \in 1..(n - m) : m + 1 + j - 1 = m + j /\ m + j \in 1..Len(s)
    BY <1>1
<1> QED
    BY <1>1, <1>3, <1>4, <1>6, <1>7 DEF q

\* The packet p is at i: as much of it as there is, and then the next one.
PacketAt(e, s, i, p) ==
    /\ p \in 1..Len(sent[e])
    /\ \A j \in 1..Whole(e, p) : i + j <= Len(s) => s[i + j] = [packet |-> p, place |-> j]
    /\ i + Whole(e, p) < Len(s) => s[i + Whole(e, p) + 1] = First(p + 1)

\* From the first byte of a packet on its bytes follow, and then the next packet.
LEMMA PacketBytes ==
    ASSUME NEW e \in Ends, sent[e] \in Seq(Sizes), NEW s \in Seq(Byte), Contiguous(e, s),
           NEW i \in 0..(Len(s) - 1), NEW p, s[i + 1] = First(p)
    PROVE  PacketAt(e, s, i, p)
<1>0. Len(s) \in Nat /\ i \in Nat /\ i + 1 \in 1..Len(s)
    OBVIOUS
<1>1. p \in 1..Len(sent[e])
    <2>1. ByteOK(e, s[i + 1])
        BY <1>0 DEF Contiguous
    <2> QED
        BY <2>1 DEF ByteOK, First
<1>2. Whole(e, p) \in Nat \ {0}
    BY <1>1, SizeTypes
<1> DEFINE At(j) == i + j <= Len(s) => s[i + j] = [packet |-> p, place |-> j]
           T == {j \in 1..Whole(e, p) : ~At(j)}
<1>3. ASSUME NEW j \in 1..Whole(e, p), j # 1, At(j - 1)
      PROVE  At(j)
    <2> SUFFICES ASSUME i + j <= Len(s)
                 PROVE  s[i + j] = [packet |-> p, place |-> j]
        OBVIOUS
    <2>1. i + j - 1 \in 1..(Len(s) - 1) /\ i + (j - 1) = i + j - 1 /\ (i + j - 1) + 1 = i + j
        BY <1>0, <1>2, <1>3
    <2>2. s[i + j - 1] = [packet |-> p, place |-> j - 1]
        BY <1>0, <1>2, <1>3, <2>1
    <2>3. Follows(e, s[i + j - 1], s[i + j])
        BY <2>1 DEF Contiguous
    <2>4. j - 1 < Whole(e, p)
        BY <1>2, <1>3
    <2> QED
        BY <2>2, <2>3, <2>4 DEF Follows
<1>4. \A j \in 1..Whole(e, p) : At(j)
    <2> SUFFICES ASSUME T # {}
                 PROVE  FALSE
        OBVIOUS
    <2>1. T \subseteq Nat
        BY <1>2
    <2>2. PICK j \in T : \A k \in T : j <= k
        BY <2>1, Smallest
    <2>3. j # 1
        BY <1>0, <2>2 DEF First
    <2>4. j - 1 \in 1..Whole(e, p) /\ ~(j <= j - 1)
        BY <1>2, <2>2, <2>3
    <2>5. At(j - 1)
        BY <2>2, <2>4
    <2> QED
        BY <1>3, <2>2, <2>3, <2>5
<1>5. ASSUME i + Whole(e, p) < Len(s)
      PROVE  s[i + Whole(e, p) + 1] = First(p + 1)
    <2>1. i + Whole(e, p) \in 1..(Len(s) - 1)
        BY <1>0, <1>2, <1>5
    <2>2. s[i + Whole(e, p)] = [packet |-> p, place |-> Whole(e, p)]
        BY <1>2, <1>4, <1>5, <1>0
    <2>3. Follows(e, s[i + Whole(e, p)], s[i + Whole(e, p) + 1])
        BY <2>1 DEF Contiguous
    <2> QED
        BY <1>2, <2>2, <2>3 DEF Follows, First
<1> QED
    BY <1>1, <1>4, <1>5 DEF PacketAt

-----------------------------------------------------------------------------
(* FetchIOBuf *)

\* One turn of the loop at i; g are the later ones.
Rest(buf, i) == SubSeq(buf, i + 1, Len(buf))
Taken(e, buf, i) == OnRead(e, Rest(buf, i))
Stop(i) == [index |-> i, got |-> <<>>, error |-> FALSE]
Turn(e, buf, g, i) ==
    IF Len(buf) - i <= HeadSize THEN Stop(i)
    ELSE IF Taken(e, buf, i) = 0 THEN Stop(i)
    ELSE IF Taken(e, buf, i) < 0 THEN [index |-> 0, got |-> <<>>, error |-> TRUE]
    ELSE [g[i + Taken(e, buf, i)] EXCEPT
             !.got = <<DecryptPayload(SubSeq(buf, i + 1, i + Taken(e, buf, i)))>> \o @]

LEMMA FetchIs ==
    ASSUME NEW e, NEW buf
    PROVE  LET g == CHOOSE g : g = [i \in 0..Len(buf) |-> Turn(e, buf, g, i)]
           IN  FetchIOBuf(e, buf) = g[0]
BY DEF FetchIOBuf, Turn, Taken, Rest, Stop

\* Bytes that d has from its peer.
From(d, buf) ==
    d \in Ends /\ sent[Peer(d)] \in Seq(Sizes) /\ buf \in Seq(Byte) /\ Contiguous(Peer(d), buf)

LEMMA RestIs ==
    ASSUME NEW buf \in Seq(Byte), NEW i \in 0..(Len(buf) - 1)
    PROVE  Rest(buf, i)[1] = buf[i + 1] /\ Len(Rest(buf, i)) = Len(buf) - i
<1>1. PICK l \in Nat : l = Len(buf)
    OBVIOUS
<1>2. i \in 0..l /\ l \in i..l /\ 1 \in 1..(l - i)
    BY <1>1
<1>3. i \in 0..Len(buf) /\ l \in i..Len(buf)
    BY <1>1, <1>2
<1>4. /\ Len(SubSeq(buf, i + 1, l)) = l - i
      /\ \A j \in 1..(l - i) : SubSeq(buf, i + 1, l)[j] = buf[i + j] /\ i + j \in 1..Len(buf)
    BY <1>3, Cut
<1>5. PICK q : q = SubSeq(buf, i + 1, l)
    OBVIOUS
<1>6. Len(q) = l - i /\ q[1] = buf[i + 1]
    BY ONLY <1>2, <1>4, <1>5
<1> QED
    BY <1>1, <1>5, <1>6 DEF Rest

\* OnRead never takes more than there is.
LEMMA TakenBounds ==
    ASSUME NEW d, NEW buf, From(d, buf), NEW i \in 0..(Len(buf) - 1)
    PROVE  LET w == Whole(Peer(d), buf[i + 1].packet) IN
           /\ w \in Nat \ {0}
           /\ Taken(d, buf, i) \in {-1, 0, w}
           /\ Taken(d, buf, i) = w => w <= Len(buf) - i
           /\ buf[i + 1].place = 1 =>
                  Taken(d, buf, i) = IF Len(buf) - i < w THEN 0
                                     ELSE IF buf[i + 1].packet = bad[d] THEN -1 ELSE w
<1> DEFINE p == buf[i + 1].packet
           w == Whole(Peer(d), p)
<1>1. Rest(buf, i)[1] = buf[i + 1] /\ Len(Rest(buf, i)) = Len(buf) - i
    BY RestIs DEF From
<1>2. Len(buf) \in Nat /\ i \in Nat /\ i + 1 \in 1..Len(buf)
    BY DEF From
<1>3. p \in 1..Len(sent[Peer(d)])
    BY <1>2 DEF From, Contiguous, ByteOK
<1>4. /\ w \in Nat \ {0} /\ sent[Peer(d)][p] \in Nat \ {0} /\ HeadSize \in Nat \ {0}
      /\ w = HeadSize + sent[Peer(d)][p]
    <2>1. Peer(d) \in Ends
        BY EndsAre DEF From
    <2> QED
        BY <2>1, <1>3, SizeTypes DEF From
<1>5. Taken(d, buf, i) = IF buf[i + 1].place # 1 THEN -1
                         ELSE IF Len(buf) - i - HeadSize < sent[Peer(d)][p] THEN 0
                         ELSE IF p = bad[d] THEN -1
                         ELSE HeadSize + sent[Peer(d)][p]
    BY <1>1 DEF Taken, OnRead
<1> QED
    BY <1>2, <1>4, <1>5

LEMMA WholePacket ==
    ASSUME NEW d, NEW buf, From(d, buf), NEW i \in 0..(Len(buf) - 1), NEW p,
           buf[i + 1] = First(p), Whole(Peer(d), p) <= Len(buf) - i
    PROVE  DecryptPayload(SubSeq(buf, i + 1, i + Whole(Peer(d), p))) = p
<1> DEFINE w == Whole(Peer(d), p)
           q == SubSeq(buf, i + 1, i + w)
<1>1. /\ Peer(d) \in Ends /\ Len(buf) \in Nat
      /\ sent[Peer(d)] \in Seq(Sizes) /\ buf \in Seq(Byte) /\ Contiguous(Peer(d), buf)
    BY EndsAre DEF From
<1>2. PacketAt(Peer(d), buf, i, p)
    BY <1>1, PacketBytes
<1>3. w \in Nat \ {0}
    BY <1>1, <1>2, SizeTypes DEF PacketAt
<1>4. \A j \in 1..w : i + j <= Len(buf) => buf[i + j] = [packet |-> p, place |-> j]
    BY <1>2 DEF PacketAt
<1> HIDE DEF w
<1>5. DOMAIN q = 1..w /\ \A j \in 1..w : q[j] = buf[i + j] /\ i + j <= Len(buf)
    <2>1. PICK n : n = i + w
        OBVIOUS
    <2>2. i \in 0..Len(buf) /\ n \in i..Len(buf) /\ n - i = w
        BY <1>1, <1>3, <2>1 DEF w
    <2>3. /\ DOMAIN SubSeq(buf, i + 1, n) = 1..(n - i)
          /\ \A j \in 1..(n - i) : SubSeq(buf, i + 1, n)[j] = buf[i + j] /\ i + j \in 1..Len(buf)
        BY <1>1, <2>2, Cut
    <2>4. \A j \in 1..Len(buf) : j <= Len(buf)
        BY <1>1
    <2> QED
        BY ONLY <2>1, <2>2, <2>3, <2>4
<1>6. \A j \in 1..w : q[j] = [packet |-> p, place |-> j]
    BY <1>4, <1>5
<1> HIDE DEF q
<1>7. q[1].packet = p
    <2>1. 1 \in 1..w
        BY <1>3
    <2>2. q[1] = [packet |-> p, place |-> 1]
        BY <1>6, <2>1
    <2> QED
        BY <2>2
<1>8. DecryptPayload(q) = p
    BY <1>5, <1>6, <1>7 DEF DecryptPayload
<1> QED
    BY <1>8 DEF q, w

\* The loop ends: a turn looks at later ones only.
LEMMA LoopExists ==
    ASSUME NEW d, NEW buf, From(d, buf)
    PROVE  \E g : g = [i \in 0..Len(buf) |-> Turn(d, buf, g, i)]
<1> DEFINE L == Len(buf)
           Later(i) == i + Taken(d, buf, i)
           Is(k, g) == \A i \in (L - k)..L : g[i] = Turn(d, buf, g, i)
           T == {k \in 0..L : ~ \E g : Is(k, g)}
<1>0. L \in Nat /\ HeadSize \in Nat \ {0}
    BY SizesAssumption DEF From
<1>1. ASSUME NEW i \in 0..L, NEW g, NEW h,
             \A j \in (i + 1)..L : g[j] = h[j]
      PROVE  Turn(d, buf, g, i) = Turn(d, buf, h, i)
    <2>1. CASE L - i <= HeadSize \/ Taken(d, buf, i) <= 0
        BY <2>1, <1>0, TakenBounds DEF Turn
    <2>2. CASE ~(L - i <= HeadSize \/ Taken(d, buf, i) <= 0)
        <3>1. i \in 0..(L - 1)
            BY <1>0, <2>2
        <3>2. Later(i) \in (i + 1)..L
            <4>1. /\ Whole(Peer(d), buf[i + 1].packet) \in Nat
                  /\ Taken(d, buf, i) \in {-1, 0, Whole(Peer(d), buf[i + 1].packet)}
                  /\ Taken(d, buf, i) = Whole(Peer(d), buf[i + 1].packet)
                         => Taken(d, buf, i) <= L - i
                BY <3>1, TakenBounds
            <4> QED
                BY <1>0, <2>2, <3>1, <4>1
        <3>3. g[Later(i)] = h[Later(i)]
            BY <1>1, <3>2
        <3> QED
            BY <3>3 DEF Turn
    <2> QED
        BY <2>1, <2>2
<1>2. ASSUME NEW k \in 0..L, k # 0, NEW g, Is(k - 1, g)
      PROVE  \E h : Is(k, h)
    <2> DEFINE n == L - k
               h == [i \in 0..L |-> IF i = n THEN Turn(d, buf, g, n) ELSE g[i]]
    <2>1. n \in 0..(L - 1) /\ L - (k - 1) = n + 1
        BY <1>0, <1>2
    <2>2. \A j \in (n + 1)..L : h[j] = g[j] /\ j \in 0..L
        BY <2>1, <1>0
    <2>3. h[n] = Turn(d, buf, g, n)
        BY <2>1, <1>0
    <2> HIDE DEF h
    <2>4. ASSUME NEW i \in n..L
          PROVE  h[i] = Turn(d, buf, h, i)
        <3>1. i \in 0..L /\ \A j \in (i + 1)..L : j \in (n + 1)..L
            BY <2>1, <1>0
        <3>2. \A j \in (i + 1)..L : g[j] = h[j]
            BY <2>2, <3>1
        <3>3. Turn(d, buf, g, i) = Turn(d, buf, h, i)
            BY <1>1, <3>1, <3>2
        <3>4. CASE i = n
            BY <2>3, <3>3, <3>4
        <3>5. CASE i # n
            <4>1. i \in (n + 1)..L
                BY <2>1, <1>0, <3>5
            <4>2. h[i] = g[i]
                BY <2>2, <4>1
            <4>3. g[i] = Turn(d, buf, g, i)
                BY <1>2, <2>1, <4>1
            <4> QED
                BY <3>3, <4>2, <4>3
        <3> QED
            BY <3>4, <3>5
    <2>5. Is(k, h)
        BY <2>4
    <2> QED
        BY <2>5
<1>3. \E h : Is(0, h)
    <2> DEFINE h == [i \in 0..L |-> Stop(L)]
    <2>1. h[L] = Stop(L) /\ (L - 0)..L = {L}
        BY <1>0
    <2>2. Turn(d, buf, h, L) = Stop(L)
        BY <1>0 DEF Turn
    <2> HIDE DEF h
    <2>3. Is(0, h)
        BY <2>1, <2>2
    <2> QED
        BY <2>3
<1>4. \E g : Is(L, g)
    <2> HIDE DEF Is
    <2>1. T = {}
        <3> SUFFICES ASSUME T # {}
                     PROVE  FALSE
            OBVIOUS
        <3>1. PICK k \in T : \A j \in T : k <= j
            <4>1. T \subseteq Nat
                BY <1>0
            <4> QED
                BY <4>1, Smallest
        <3>2. k # 0
            BY <1>3, <3>1
        <3>3. k - 1 \in 0..L /\ ~(k <= k - 1)
            BY <1>0, <3>1, <3>2
        <3>4. \E g : Is(k - 1, g)
            BY <3>1, <3>3
        <3> QED
            BY <1>2, <3>1, <3>2, <3>4
    <2> QED
        BY <2>1, <1>0
<1>5. PICK g : Is(L, g)
    BY <1>4
<1> DEFINE h == [i \in 0..L |-> g[i]]
<1>6. \A i \in 0..L : h[i] = Turn(d, buf, h, i)
    <2>1. \A i \in 0..L : h[i] = g[i] /\ g[i] = Turn(d, buf, g, i)
        BY <1>0, <1>5
    <2>2. ASSUME NEW i \in 0..L
          PROVE  Turn(d, buf, g, i) = Turn(d, buf, h, i)
        <3>1. \A j \in (i + 1)..L : g[j] = h[j]
            BY <1>0
        <3> HIDE DEF h
        <3> QED
            BY <1>1, <3>1
    <2> QED
        BY <2>1, <2>2
<1>7. h = [i \in 0..Len(buf) |-> h[i]]
    OBVIOUS
<1> HIDE DEF h
<1>8. h = [i \in 0..Len(buf) |-> Turn(d, buf, h, i)]
    BY <1>6, <1>7
<1> QED
    BY <1>8

LEMMA LoopIs ==
    ASSUME NEW d, NEW buf, From(d, buf)
    PROVE  \E g : /\ \A i \in 0..Len(buf) : g[i] = Turn(d, buf, g, i)
                  /\ FetchIOBuf(d, buf) = g[0]
<1> DEFINE g == CHOOSE g : g = [i \in 0..Len(buf) |-> Turn(d, buf, g, i)]
<1>1. g = [i \in 0..Len(buf) |-> Turn(d, buf, g, i)]
    BY LoopExists
<1>2. FetchIOBuf(d, buf) = g[0]
    BY FetchIs
<1> HIDE DEF g
<1>3. \A i \in 0..Len(buf) : g[i] = Turn(d, buf, g, i)
    BY <1>1
<1> QED
    BY <1>2, <1>3

\* The next packet at place i is p: its first byte comes there, or the last one of
\* the packet before it was there.
Boundary(e, buf, i, p) ==
    /\ i \in 0..Len(buf) /\ p \in 1..(Len(sent[e]) + 1)
    /\ i < Len(buf) => buf[i + 1] = First(p)
    /\ i = Len(buf) /\ i > 0 => buf[i] = [packet |-> p - 1, place |-> Whole(e, p - 1)]

Numbers(p, m) == [j \in 1..m |-> p + j - 1]

\* What the loop comes to from p on: whole packets, and then an incomplete one or
\* one that is refused.
Fetched(d, buf, p, m, f) ==
    /\ f.got = Numbers(p, m)
    /\ p + m <= Len(sent[Peer(d)]) + 1
    /\ f.error => bad[d] = p + m
    /\ ~f.error => /\ Boundary(Peer(d), buf, f.index, p + m)
                   /\ f.index < Len(buf) => Len(buf) - f.index < Whole(Peer(d), p + m)

Results == [index : Nat, got : Seq(Nat), error : BOOLEAN]

LEMMA NumbersAre ==
    ASSUME NEW p \in Nat, NEW m \in Nat
    PROVE  /\ Numbers(p, m) \in Seq(Nat) /\ Len(Numbers(p, m)) = m
           /\ \A j \in 1..m : Numbers(p, m)[j] = p + j - 1
<1>1. \A j \in 1..m : p + j - 1 \in Nat
    OBVIOUS
<1>2. Numbers(p, m) \in [1..m -> Nat]
    BY <1>1 DEF Numbers
<1>3. Numbers(p, m) \in Seq(Nat)
    BY <1>2, IsASeq DEF Numbers
<1> QED
    BY <1>2, <1>3 DEF Numbers

LEMMA OneMore ==
    ASSUME NEW p \in Nat, NEW m \in Nat
    PROVE  <<p>> \o Numbers(p + 1, m) = Numbers(p, m + 1)
<1>1. /\ Numbers(p + 1, m) \in Seq(Nat) /\ Len(Numbers(p + 1, m)) = m
      /\ \A j \in 1..m : Numbers(p + 1, m)[j] = p + 1 + j - 1
    BY NumbersAre
<1>2. /\ Numbers(p, m + 1) \in Seq(Nat) /\ Len(Numbers(p, m + 1)) = m + 1
      /\ \A j \in 1..(m + 1) : Numbers(p, m + 1)[j] = p + j - 1
    BY NumbersAre
<1>3. <<p>> \in Seq(Nat) /\ Len(<<p>>) = 1 /\ <<p>>[1] = p
    OBVIOUS
<1> DEFINE a == <<p>>
           b == Numbers(p + 1, m)
           c == Numbers(p, m + 1)
<1> HIDE DEF a, b, c
<1>4. /\ a \o b \in Seq(Nat) /\ Len(a \o b) = m + 1
      /\ \A j \in 1..(m + 1) : (a \o b)[j] = IF j <= 1 THEN a[j] ELSE b[j - 1]
    <2>1. a \in Seq(Nat) /\ b \in Seq(Nat) /\ Len(a) = 1 /\ Len(b) = m
        BY <1>1, <1>3 DEF a, b
    <2>2. /\ a \o b \in Seq(Nat) /\ Len(a \o b) = Len(a) + Len(b)
          /\ \A j \in 1..Len(a) + Len(b) :
                 (a \o b)[j] = IF j <= Len(a) THEN a[j] ELSE b[j - Len(a)]
        BY <2>1, ConcatProperties
    <2>3. Len(a) + Len(b) = m + 1
        BY <2>1
    <2> QED
        BY <2>1, <2>2, <2>3
<1>5. \A j \in 1..(m + 1) : (a \o b)[j] = c[j]
    <2> SUFFICES ASSUME NEW j \in 1..(m + 1)
                 PROVE  (a \o b)[j] = c[j]
        OBVIOUS
    <2>1. CASE j = 1
        BY <2>1, <1>2, <1>3, <1>4 DEF a, c
    <2>2. CASE j # 1
        <3>1. j - 1 \in 1..m
            BY <2>2
        <3> QED
            <4>1. b[j - 1] = p + 1 + (j - 1) - 1 /\ c[j] = p + j - 1
                BY <3>1, <1>1, <1>2 DEF b, c
            <4>2. (a \o b)[j] = b[j - 1]
                BY <1>4, <2>2
            <4> QED
                BY <4>1, <4>2
    <2> QED
        BY <2>1, <2>2
<1>6. c \in Seq(Nat) /\ Len(c) = m + 1
    BY <1>2 DEF c
<1>7. a \o b = c
    BY <1>4, <1>5, <1>6, SeqEqual
<1> QED
    BY <1>7 DEF a, b, c

LEMMA LoopResult ==
    ASSUME NEW d, NEW buf, From(d, buf), bad[d] \in Nat,
           NEW g, \A i \in 0..Len(buf) : g[i] = Turn(d, buf, g, i),
           NEW i \in 0..Len(buf), NEW p, Boundary(Peer(d), buf, i, p),
           \A j \in (i + 1)..Len(buf) : \A q : Boundary(Peer(d), buf, j, q) =>
               g[j] \in Results /\ \E m \in Nat : Fetched(d, buf, q, m, g[j])
    PROVE  g[i] \in Results /\ \E m \in Nat : Fetched(d, buf, p, m, g[i])
<1> DEFINE e == Peer(d)
           L == Len(buf)
<1>1. /\ L \in Nat /\ i \in Nat /\ e \in Ends /\ sent[e] \in Seq(Sizes) /\ buf \in Seq(Byte)
      /\ Contiguous(e, buf) /\ Len(sent[e]) \in Nat /\ HeadSize \in Nat \ {0}
    BY EndsAre, SizesAssumption DEF From
<1>2. p \in 1..(Len(sent[e]) + 1) /\ p \in Nat
    BY <1>1 DEF Boundary
<1> DEFINE w == Whole(e, p)
<1>3. ASSUME i < L
      PROVE  /\ PacketAt(e, buf, i, p) /\ w \in Nat \ {0} /\ w > HeadSize
             /\ Taken(d, buf, i) = IF L - i < w THEN 0 ELSE IF p = bad[d] THEN -1 ELSE w
    <2>1. i \in 0..(L - 1) /\ buf[i + 1] = First(p)
        BY <1>1, <1>3 DEF Boundary
    <2>2. PacketAt(e, buf, i, p)
        BY <1>1, <2>1, PacketBytes
    <2>3. buf[i + 1].packet = p /\ buf[i + 1].place = 1
        BY <2>1 DEF First
    <2>4. w \in Nat \ {0} /\ w > HeadSize
        BY <1>1, <2>2, SizeTypes DEF PacketAt
    <2>5. Taken(d, buf, i) = IF L - i < Whole(e, buf[i + 1].packet) THEN 0
                             ELSE IF buf[i + 1].packet = bad[d] THEN -1
                             ELSE Whole(e, buf[i + 1].packet)
        BY <2>1, <2>3, TakenBounds
    <2> QED
        BY <2>2, <2>3, <2>4, <2>5
<1> DEFINE r == Taken(d, buf, i)
           refused == [index |-> 0, got |-> <<>>, error |-> TRUE]
<1>8. g[i] = Turn(d, buf, g, i)
    OBVIOUS
<1>9. /\ L - i <= HeadSize \/ r = 0 => g[i] = Stop(i)
      /\ ~(L - i <= HeadSize) /\ r # 0 /\ r < 0 => g[i] = refused
      /\ ~(L - i <= HeadSize) /\ r # 0 /\ ~(r < 0) =>
             g[i] = [g[i + r] EXCEPT !.got =
                        <<DecryptPayload(SubSeq(buf, i + 1, i + r))>> \o g[i + r].got]
    BY <1>8 DEF Turn
<1> HIDE DEF r
<1>4. CASE i = L \/ (i < L /\ L - i < w)
    <2>1. g[i] = Stop(i)
        BY <1>1, <1>3, <1>4, <1>9 DEF r
    <2>2. Stop(i) \in Results /\ Stop(i).index = i /\ Stop(i).got = <<>> /\ Stop(i).error = FALSE
        BY <1>1 DEF Stop, Results
    <2>3. Numbers(p, 0) = <<>> /\ p + 0 = p
        BY <1>2, NumbersAre
    <2>4. Fetched(d, buf, p, 0, g[i])
        BY <1>1, <1>2, <1>4, <2>1, <2>2, <2>3 DEF Fetched
    <2> QED
        BY <2>1, <2>2, <2>4
<1>5. CASE i < L /\ L - i >= w /\ p = bad[d]
    <2>1. g[i] = refused
        BY <1>1, <1>3, <1>5, <1>9 DEF r
    <2>2. refused \in Results /\ refused.got = <<>> /\ refused.error = TRUE
        BY DEF Results
    <2> HIDE DEF refused
    <2>3. Numbers(p, 0) = <<>> /\ p + 0 = p
        BY <1>2, NumbersAre
    <2>4. Fetched(d, buf, p, 0, g[i])
        BY <1>1, <1>2, <1>5, <2>1, <2>2, <2>3 DEF Fetched
    <2> QED
        BY <2>1, <2>2, <2>4
<1>6. CASE i < L /\ L - i >= w /\ p # bad[d]
    <2> DEFINE n == i + w
               q == p + 1
    <2>1. PacketAt(e, buf, i, p) /\ w \in Nat \ {0} /\ w > HeadSize /\ Taken(d, buf, i) = w
        BY <1>1, <1>3, <1>6
    <2>2. n \in (i + 1)..L /\ n \in 0..L
        BY <1>1, <1>6, <2>1
    <2>3. Boundary(e, buf, n, q)
        <3>1. q \in 1..(Len(sent[e]) + 1) /\ q - 1 = p
            BY <1>1, <2>1 DEF PacketAt
        <3>2. n < L => buf[n + 1] = First(q)
            BY <2>1 DEF PacketAt
        <3>3. buf[n] = [packet |-> p, place |-> w]
            <4>1. w \in 1..w /\ i + w <= L
                BY <2>1, <2>2, <1>1
            <4> QED
                BY <2>1, <4>1 DEF PacketAt
        <3> QED
            BY <2>2, <3>1, <3>2, <3>3 DEF Boundary
    <2>4. g[n] \in Results /\ \E m \in Nat : Fetched(d, buf, q, m, g[n])
        BY <2>2, <2>3
    <2>5. PICK m \in Nat : Fetched(d, buf, q, m, g[n])
        BY <2>4
    <2>6. DecryptPayload(SubSeq(buf, i + 1, n)) = p
        <3>1. i \in 0..(L - 1) /\ buf[i + 1] = First(p) /\ w <= L - i
            BY <1>1, <1>6, <2>1 DEF Boundary
        <3> QED
            BY <3>1, WholePacket
    <2>7. g[i] = [g[n] EXCEPT !.got = <<p>> \o g[n].got]
        <3>1. r = w /\ ~(L - i <= HeadSize) /\ r # 0 /\ ~(r < 0)
            BY <1>1, <1>6, <2>1 DEF r
        <3> QED
            BY <1>9, <2>6, <3>1
    <2>8. g[n].got = Numbers(q, m) /\ g[n].got \in Seq(Nat) /\ g[n].index \in Nat /\ g[n].error \in BOOLEAN
        BY <2>4, <2>5 DEF Fetched, Results
    <2> HIDE DEF n, q
    <2> DEFINE more == <<p>> \o g[n].got
    <2>9. more = Numbers(p, m + 1) /\ more \in Seq(Nat)
        <3>1. <<p>> \o Numbers(p + 1, m) = Numbers(p, m + 1)
            BY <1>2, OneMore
        <3>2. m + 1 \in Nat
            OBVIOUS
        <3>3. Numbers(p, m + 1) \in Seq(Nat)
            BY <1>2, <3>2, NumbersAre
        <3> QED
            BY <2>8, <3>1, <3>3 DEF q
    <2> HIDE DEF more
    <2>10. g[i] = [g[n] EXCEPT !.got = more]
        BY <2>7 DEF more
    <2>11. /\ g[i] \in Results /\ g[i].got = more
           /\ g[i].index = g[n].index /\ g[i].error = g[n].error
        BY <2>4, <2>9, <2>10 DEF Results
    <2>12. p + (m + 1) = q + m
        BY <1>2 DEF q
    <2>13. Fetched(d, buf, p, m + 1, g[i])
        BY <2>5, <2>9, <2>11, <2>12 DEF Fetched
    <2> QED
        BY <2>11, <2>13
<1>7. i = L \/ i < L
    BY <1>1
<1> QED
    BY <1>1, <1>3, <1>4, <1>5, <1>6, <1>7

LEMMA FetchResult ==
    ASSUME NEW d, NEW buf, From(d, buf), bad[d] \in Nat, NEW p, Boundary(Peer(d), buf, 0, p)
    PROVE  LET f == FetchIOBuf(d, buf) IN
           f \in Results /\ \E m \in Nat : Fetched(d, buf, p, m, f)
<1>1. PICK g : /\ \A i \in 0..Len(buf) : g[i] = Turn(d, buf, g, i)
               /\ FetchIOBuf(d, buf) = g[0]
    BY LoopIs
<1> DEFINE L == Len(buf)
           Good(i) == \A q : Boundary(Peer(d), buf, i, q) =>
                          g[i] \in Results /\ \E m \in Nat : Fetched(d, buf, q, m, g[i])
           T == {k \in 0..L : ~Good(L - k)}
<1>2. L \in Nat
    BY DEF From
<1>3. ASSUME NEW i \in 0..L, \A j \in (i + 1)..L : Good(j)
      PROVE  Good(i)
    <2> TAKE q
    <2> HAVE Boundary(Peer(d), buf, i, q)
    <2> QED
        BY <1>1, <1>3, LoopResult
<1>4. T = {}
    <2> HIDE DEF Good
    <2> SUFFICES ASSUME T # {}
                 PROVE  FALSE
        OBVIOUS
    <2>1. PICK k \in T : \A j \in T : k <= j
        <3>1. T \subseteq Nat
            BY <1>2
        <3> QED
            BY <3>1, Smallest
    <2>2. L - k \in 0..L
        BY <1>2, <2>1
    <2>3. ASSUME NEW j \in (L - k + 1)..L
          PROVE  Good(j)
        <3>1. L - j \in 0..L /\ ~(k <= L - j) /\ L - (L - j) = j
            BY <1>2, <2>1
        <3>2. L - j \notin T
            BY <2>1, <3>1
        <3> QED
            BY <3>1, <3>2
    <2> QED
        BY <1>3, <2>1, <2>2, <2>3
<1>5. Good(0)
    <2> HIDE DEF Good
    <2>1. L \in 0..L /\ L - L = 0
        BY <1>2
    <2> QED
        BY <1>4, <2>1
<1> QED
    BY <1>1, <1>5

-----------------------------------------------------------------------------
(* Pieces of what is in flight *)

LEMMA Regrouped ==
    ASSUME NEW S
    PROVE  \A s, t, u \in Seq(S) : (s \o t) \o u = s \o (t \o u)
BY ConcatAssociative

\* The first k elements and the others.
LEMMA Divided ==
    ASSUME NEW S, NEW b \in Seq(S), NEW k \in 0..Len(b)
    PROVE  /\ SubSeq(b, 1, k) \in Seq(S) /\ Len(SubSeq(b, 1, k)) = k
           /\ SubSeq(b, k + 1, Len(b)) \in Seq(S) /\ Len(SubSeq(b, k + 1, Len(b))) = Len(b) - k
           /\ SubSeq(b, 1, k) \o SubSeq(b, k + 1, Len(b)) = b
<1> DEFINE x == SubSeq(b, 1, k)
           y == SubSeq(b, k + 1, Len(b))
<1>1. Len(b) \in Nat /\ k \in Nat /\ k <= Len(b)
    OBVIOUS
<1>2. x \in Seq(S) /\ Len(x) = k
    <2>1. 0 \in 0..Len(b) /\ k \in 0..Len(b) /\ 0 + 1 = 1 /\ k - 0 = k
        BY <1>1
    <2>2. SubSeq(b, 0 + 1, k) \in Seq(S) /\ Len(SubSeq(b, 0 + 1, k)) = k - 0
        BY <2>1, Cut
    <2> QED
        BY <2>1, <2>2
<1>3. y \in Seq(S) /\ Len(y) = Len(b) - k
    <2>1. Len(b) \in k..Len(b)
        BY <1>1
    <2> QED
        BY <2>1, Cut
<1>4. x \o y = b
    <2>1. 1 \in 1..(Len(b) + 1) /\ k \in (1 - 1)..Len(b) /\ Len(b) \in k..Len(b)
        BY <1>1
    <2>2. x \o y = SubSeq(b, 1, Len(b))
        BY <2>1, ConcatAdjacentSubSeq
    <2> QED
        BY <2>2, SubSeqFull
<1> QED
    BY <1>2, <1>3, <1>4

Taking(a, b, c, k) ==
    a \o (b \o c) = (a \o SubSeq(b, 1, k)) \o (SubSeq(b, k + 1, Len(b)) \o c)

LEMMA MovedRead ==
    ASSUME NEW S, NEW a \in Seq(S), NEW b \in Seq(S), NEW c \in Seq(S), NEW k \in 0..Len(b)
    PROVE  Taking(a, b, c, k)
<1> DEFINE x == SubSeq(b, 1, k)
           y == SubSeq(b, k + 1, Len(b))
<1>0. x \o y = b
    BY Divided
<1>1. a \in Seq(S) /\ x \in Seq(S) /\ y \in Seq(S) /\ c \in Seq(S)
    BY Divided
<1> HIDE DEF x, y
<1>2. y \o c \in Seq(S)
    BY <1>1, ConcatProperties
<1>3. (a \o x) \o (y \o c) = a \o (x \o (y \o c))
    <2>1. PICK z : z = y \o c
        OBVIOUS
    <2>2. a \in Seq(S) /\ x \in Seq(S) /\ z \in Seq(S)
        BY <1>1, <1>2, <2>1
    <2>3. (a \o x) \o z = a \o (x \o z)
        BY <2>2, Regrouped
    <2> QED
        BY <2>1, <2>3
<1>4. (x \o y) \o c = x \o (y \o c)
    BY <1>1, Regrouped
<1> QED
    BY <1>0, <1>3, <1>4 DEF Taking, x, y

Moved(a, b, c, k) ==
    a \o (b \o c) = a \o ((b \o SubSeq(c, 1, k)) \o SubSeq(c, k + 1, Len(c)))

LEMMA MovedWrite ==
    ASSUME NEW S, NEW a \in Seq(S), NEW b \in Seq(S), NEW c \in Seq(S), NEW k \in 0..Len(c)
    PROVE  Moved(a, b, c, k)
<1> DEFINE x == SubSeq(c, 1, k)
           y == SubSeq(c, k + 1, Len(c))
<1>0. x \o y = c
    BY Divided
<1>1. b \in Seq(S) /\ x \in Seq(S) /\ y \in Seq(S)
    BY Divided
<1> HIDE DEF x, y
<1>2. (b \o x) \o y = b \o (x \o y)
    BY <1>1, Regrouped
<1> QED
    BY <1>0, <1>2 DEF Moved, x, y

\* A part of a sequence: n bytes from place i on.
Part(s, i, t) == i + Len(t) <= Len(s) /\ \A j \in 1..Len(t) : t[j] = s[i + j]

LEMMA ContiguousPart ==
    ASSUME NEW e \in Ends, NEW s \in Seq(Byte), Contiguous(e, s), NEW t \in Seq(Byte),
           NEW i \in Nat, Part(s, i, t)
    PROVE  Contiguous(e, t)
<1>1. Len(s) \in Nat /\ Len(t) \in Nat /\ i + Len(t) <= Len(s)
    BY DEF Part
<1>2. ASSUME NEW j \in 1..Len(t)
      PROVE  ByteOK(e, t[j])
    <2>1. i + j \in 1..Len(s)
        BY <1>1
    <2>2. t[j] = s[i + j]
        BY DEF Part
    <2> QED
        BY <2>1, <2>2 DEF Contiguous
<1>3. ASSUME NEW j \in 1..(Len(t) - 1)
      PROVE  Follows(e, t[j], t[j + 1])
    <2>1. i + j \in 1..(Len(s) - 1) /\ j \in 1..Len(t) /\ j + 1 \in 1..Len(t)
          /\ i + (j + 1) = i + j + 1
        BY <1>1
    <2>2. t[j] = s[i + j] /\ t[j + 1] = s[i + j + 1]
        BY <2>1 DEF Part
    <2> QED
        BY <2>1, <2>2 DEF Contiguous
<1> QED
    BY <1>2, <1>3 DEF Contiguous

\* What is in front, and what stays of a sequence that begins with buf.
LEMMA Pieces ==
    ASSUME NEW S, NEW buf \in Seq(S), NEW more \in Seq(S), NEW i \in 0..Len(buf)
    PROVE  /\ buf \o more \in Seq(S) /\ Len(buf \o more) = Len(buf) + Len(more)
           /\ SubSeq(buf, i + 1, Len(buf)) \in Seq(S)
           /\ Len(SubSeq(buf, i + 1, Len(buf))) = Len(buf) - i
           /\ SubSeq(buf, i + 1, Len(buf)) \o more \in Seq(S)
           /\ Len(SubSeq(buf, i + 1, Len(buf)) \o more) = Len(buf) + Len(more) - i
           /\ Part(buf \o more, 0, buf)
           /\ Part(buf \o more, i, SubSeq(buf, i + 1, Len(buf)) \o more)
<1> DEFINE all == buf \o more
           x == SubSeq(buf, i + 1, Len(buf))
<1>1. Len(buf) \in Nat /\ Len(more) \in Nat /\ i \in Nat /\ i <= Len(buf) /\ Len(buf) \in i..Len(buf)
    OBVIOUS
<1>2. /\ all \in Seq(S) /\ Len(all) = Len(buf) + Len(more)
      /\ \A j \in 1..Len(buf) + Len(more) :
             all[j] = IF j <= Len(buf) THEN buf[j] ELSE more[j - Len(buf)]
    BY ConcatProperties
<1>3. /\ x \in Seq(S) /\ Len(x) = Len(buf) - i
      /\ \A j \in 1..(Len(buf) - i) : x[j] = buf[i + j] /\ i + j \in 1..Len(buf)
    BY <1>1, Cut
<1> HIDE DEF x
<1>4. /\ x \o more \in Seq(S) /\ Len(x \o more) = Len(x) + Len(more)
      /\ \A j \in 1..Len(x) + Len(more) :
             (x \o more)[j] = IF j <= Len(x) THEN x[j] ELSE more[j - Len(x)]
    BY <1>3, ConcatProperties
<1> DEFINE y == x \o more
<1> HIDE DEF all, y
<1>5. Part(all, 0, buf)
    <2>1. \A j \in 1..Len(buf) : j \in 1..Len(buf) + Len(more) /\ j <= Len(buf) /\ 0 + j = j
        BY <1>1
    <2> QED
        BY <1>1, <1>2, <2>1 DEF Part
<1>6. Part(all, i, y)
    <2>1. Len(y) = Len(buf) + Len(more) - i
        BY <1>1, <1>3, <1>4 DEF y
    <2>2. ASSUME NEW j \in 1..Len(y)
          PROVE  y[j] = all[i + j]
        <3>1. i + j \in 1..Len(buf) + Len(more) /\ j \in 1..Len(x) + Len(more)
            BY <1>1, <1>3, <2>1
        <3>2. CASE j <= Len(buf) - i
            <4>1. y[j] = x[j] /\ x[j] = buf[i + j]
                BY <1>1, <1>3, <1>4, <3>1, <3>2 DEF y
            <4>2. i + j <= Len(buf)
                BY <1>1, <3>2
            <4>3. all[i + j] = buf[i + j]
                BY <1>2, <3>1, <4>2
            <4> QED
                BY <4>1, <4>3
        <3>3. CASE ~(j <= Len(buf) - i)
            <4>1. ~(j <= Len(x)) /\ ~(i + j <= Len(buf)) /\ j - Len(x) = i + j - Len(buf)
                BY <1>1, <1>3, <3>3
            <4>2. y[j] = more[j - Len(x)]
                BY <1>4, <3>1, <4>1 DEF y
            <4>3. all[i + j] = more[i + j - Len(buf)]
                BY <1>2, <3>1, <4>1
            <4> QED
                BY <4>1, <4>2, <4>3
        <3> QED
            BY <3>2, <3>3
    <2>3. i + Len(y) <= Len(all)
        BY <1>1, <1>2, <2>1
    <2> QED
        BY <2>2, <2>3 DEF Part
<1>7. Len(y) = Len(buf) + Len(more) - i
    BY <1>1, <1>3, <1>4 DEF y
<1> QED
    BY <1>2, <1>3, <1>4, <1>5, <1>6, <1>7 DEF all, x, y

\* What follows the packets that were taken starts with the next one and ends
\* with the last one.
Ranges(e, s, next, last) ==
    IF s = <<>> THEN next = last + 1
    ELSE s[1] = First(next) /\ s[Len(s)] = [packet |-> last, place |-> Whole(e, last)]

LEMMA RangesAfter ==
    ASSUME NEW e \in Ends, sent[e] \in Seq(Sizes),
           NEW buf \in Seq(Byte), buf # <<>>, NEW more \in Seq(Byte),
           Contiguous(e, buf \o more),
           NEW p \in Nat, NEW last \in Nat, Ranges(e, buf \o more, p, last),
           NEW i \in 0..Len(buf), NEW q \in Nat, Boundary(e, buf, i, q)
    PROVE  Ranges(e, SubSeq(buf, i + 1, Len(buf)) \o more, q, last)
<1> DEFINE s == buf \o more
           t == SubSeq(buf, i + 1, Len(buf)) \o more
<1>1. /\ s \in Seq(Byte) /\ Len(s) = Len(buf) + Len(more)
      /\ t \in Seq(Byte) /\ Len(t) = Len(s) - i
      /\ Part(s, 0, buf) /\ Part(s, i, t)
      /\ Len(buf) \in Nat \ {0} /\ Len(more) \in Nat /\ i \in Nat /\ i <= Len(buf)
    <2>1. Len(buf) \in Nat \ {0}
        BY EmptySeq
    <2> QED
        BY <2>1, Pieces
<1>2. Contiguous(e, s) /\ Ranges(e, s, p, last)
    OBVIOUS
<1> HIDE DEF s, t
<1>3. s # <<>>
    BY <1>1, EmptySeq
<1>4. s[1] = First(p) /\ s[Len(s)] = [packet |-> last, place |-> Whole(e, last)]
    BY <1>2, <1>3 DEF Ranges
<1>5. \A j \in 1..Len(buf) : buf[j] = s[j]
    BY <1>1 DEF Part
<1>6. i = Len(buf) => i \in 1..Len(buf) /\ s[i] = [packet |-> q - 1, place |-> Whole(e, q - 1)]
    BY <1>1, <1>5 DEF Boundary
<1>7. CASE t = <<>>
    <2>1. Len(t) = 0
        BY <1>7
    <2>2. i = Len(buf) /\ i = Len(s)
        BY <1>1, <2>1
    <2>3. q - 1 = last
        BY <1>4, <1>6, <2>2
    <2>4. q = last + 1
        BY <2>3
    <2> QED
        BY <1>7, <2>4 DEF Ranges, t
<1>8. CASE t # <<>>
    <2>1. Len(t) \in Nat \ {0}
        BY <1>1, <1>8, EmptySeq
    <2>2. t[1] = s[i + 1] /\ t[Len(t)] = s[i + Len(t)] /\ i + Len(t) = Len(s)
        BY <1>1, <2>1 DEF Part
    <2>3. s[i + 1] = First(q)
        <3>1. CASE i < Len(buf)
            <4>1. i + 1 \in 1..Len(buf)
                BY <1>1, <3>1
            <4> QED
                BY <1>5, <3>1, <4>1 DEF Boundary
        <3>2. CASE i = Len(buf)
            <4>1. i \in 1..(Len(s) - 1) /\ i \in 1..Len(s)
                BY <1>1, <2>1, <3>2
            <4>2. ByteOK(e, s[i]) /\ Follows(e, s[i], s[i + 1])
                BY <1>2, <4>1 DEF Contiguous
            <4>3. q - 1 \in 1..Len(sent[e])
                BY <1>6, <3>2, <4>2 DEF ByteOK
            <4>4. Whole(e, q - 1) \in Nat /\ q - 1 + 1 = q
                <5>1. q - 1 + 1 = q
                    OBVIOUS
                <5>2. Whole(e, q - 1) \in Nat
                    BY <4>3, SizeTypes
                <5> QED
                    BY <5>1, <5>2
            <4>5. s[i].packet = q - 1 /\ s[i].place = Whole(e, q - 1)
                BY <1>6, <3>2
            <4>6. ~(s[i].place < Whole(e, s[i].packet)) /\ s[i].packet + 1 = q
                BY <4>4, <4>5
            <4> QED
                BY <4>2, <4>6 DEF Follows, First
        <3> QED
            BY <1>1, <3>1, <3>2
    <2> QED
        BY <1>4, <1>8, <2>2, <2>3 DEF Ranges, t
<1> QED
    BY <1>7, <1>8

-----------------------------------------------------------------------------
(* The parts of the invariant *)

LEMMA Shape ==
    ASSUME TypeOK, NEW e \in Ends
    PROVE  /\ Peer(e) \in Ends /\ Peer(e) # e /\ Peer(Peer(e)) = e
           /\ sent[e] \in Seq(Sizes) /\ Len(sent[e]) \in Nat
           /\ writing[e] \in [thread : {"none"} \cup Threads, left : Seq(Byte)]
           /\ writing[e].left \in Seq(Byte)
           /\ socket[e] \in Seq(Byte) /\ ioBuf[e] \in Seq(Byte) /\ Len(ioBuf[e]) \in Nat
           /\ got[e] \in Seq(Nat) /\ Len(got[e]) \in Nat
           /\ bad[e] \in Nat
           /\ state[e] \in {"open", "error", "nobufs", "reset"}
           /\ InFlight(e) \in Seq(Byte)
<1>1. Peer(e) \in Ends /\ Peer(e) # e /\ Peer(Peer(e)) = e
    BY EndsAre
<1>2. /\ sent[e] \in Seq(Sizes)
      /\ writing[e] \in [thread : {"none"} \cup Threads, left : Seq(Byte)]
      /\ socket[e] \in Seq(Byte) /\ ioBuf[e] \in Seq(Byte) /\ got[e] \in Seq(Nat)
      /\ bad[e] \in Nat /\ state[e] \in {"open", "error", "nobufs", "reset"}
      /\ ioBuf[Peer(e)] \in Seq(Byte)
    BY <1>1 DEF TypeOK
<1>3. writing[e].left \in Seq(Byte)
    BY <1>2
<1>4. socket[e] \o writing[e].left \in Seq(Byte)
    BY <1>2, <1>3, ConcatProperties
<1>5. ioBuf[Peer(e)] \o (socket[e] \o writing[e].left) \in Seq(Byte)
    BY <1>2, <1>4, ConcatProperties
<1>6. InFlight(e) \in Seq(Byte)
    BY <1>5 DEF InFlight
<1>7. Len(sent[e]) \in Nat /\ Len(ioBuf[e]) \in Nat /\ Len(got[e]) \in Nat
    BY <1>2
<1> QED
    BY <1>1, <1>2, <1>3, <1>6, <1>7

LEMMA SpansAre ==
    ASSUME NEW e, NEW s
    PROVE  Spans(e, s) <=> Ranges(e, s, Len(got[Peer(e)]) + 1, Len(sent[e]))
BY DEF Spans, Ranges, First

\* The part of an end that a step does not touch.
Kept(e) ==
    /\ sent'[e] = sent[e] /\ got'[Peer(e)] = got[Peer(e)] /\ ioBuf'[Peer(e)] = ioBuf[Peer(e)]
    /\ socket'[e] = socket[e] /\ writing'[e] = writing[e] /\ state'[Peer(e)] = state[Peer(e)]

LEMMA KeptEnd ==
    ASSUME NEW e \in Ends, StreamOf(e), Kept(e)
    PROVE  StreamOf(e)'
<1>0. Peer(Peer(e)) = e
    BY EndsAre
<1>1. InFlight(e)' = InFlight(e)
    BY DEF Kept, InFlight
<1>2. Contiguous(e, InFlight(e)) => Contiguous(e, InFlight(e))'
    BY <1>1 DEF Kept, Contiguous, ByteOK, Follows, Whole
<1>3. Spans(e, InFlight(e)) => Spans(e, InFlight(e))'
    BY <1>1 DEF Kept, Spans, Whole
<1>4. Incomplete(Peer(e)) => Incomplete(Peer(e))'
    BY <1>0 DEF Kept, Incomplete, Whole
<1> QED
    BY <1>2, <1>3, <1>4 DEF StreamOf, Kept

LEMMA SameOrder ==
    ASSUME InOrder, got' = got
    PROVE  InOrder'
BY DEF InOrder

\* A session is given up for what it received, or not.
LEMMA SameCause ==
    ASSUME GivenUpForCause, NEW e \in Ends, UNCHANGED <<got, bad>>,
           sent'[Peer(e)] = sent[Peer(e)], state'[e] = state[e]
    PROVE  /\ state'[e] = "error" => bad'[e] # 0 /\ Len(got'[e]) = bad'[e] - 1
           /\ state'[e] = "nobufs" => HeadSize + sent'[Peer(e)][Len(got'[e]) + 1] > BufSize
BY DEF GivenUpForCause

-----------------------------------------------------------------------------
(* The steps *)

LEMMA InitInv == Init => StreamInv
<1> SUFFICES ASSUME Init
             PROVE  StreamInv
    OBVIOUS
<1>1. bad \in [Ends -> Nat]
    <2>1. {0} \cup Packets \subseteq Nat
        BY DEF Packets
    <2>2. bad \in [Ends -> {0} \cup Packets]
        BY DEF Init
    <2>3. \A e \in Ends : bad[e] \in Nat
        BY <2>1, <2>2
    <2> QED
        BY <2>2, <2>3
<1>2. TypeOK
    <2>1. <<>> \in Seq(Sizes) /\ <<>> \in Seq(Byte) /\ <<>> \in Seq(Nat) /\ Len(<<>>) = 0
        OBVIOUS
    <2>2. 0 <= Capacity /\ 0 <= BufSize
        BY SizesAssumption
    <2> QED
        BY <1>1, <2>1, <2>2 DEF Init, TypeOK
<1>3. InOrder
    <2>1. \A e \in Ends : got[e] = <<>>
        BY DEF Init
    <2>2. [i \in DOMAIN <<>> |-> i] = <<>>
        OBVIOUS
    <2> QED
        BY <2>1, <2>2 DEF InOrder
<1>4. GivenUpForCause
    BY DEF Init, GivenUpForCause
<1>5. ASSUME NEW e \in Ends
      PROVE  StreamOf(e)
    <2>1. Peer(e) \in Ends
        BY EndsAre
    <2>2. /\ ioBuf[Peer(e)] = <<>> /\ socket[e] = <<>> /\ writing[e].left = <<>>
          /\ got[Peer(e)] = <<>> /\ sent[e] = <<>> /\ state[Peer(e)] = "open"
        BY <2>1 DEF Init
    <2>3. InFlight(e) = <<>>
        <3>1. <<>> \o (<<>> \o <<>>) = <<>>
            OBVIOUS
        <3> QED
            BY <2>2, <3>1 DEF InFlight
    <2>4. Contiguous(e, InFlight(e))
        BY <2>3 DEF Contiguous
    <2>5. Spans(e, InFlight(e))
        BY <2>2, <2>3 DEF Spans
    <2>6. Incomplete(Peer(e))
        BY <2>2 DEF Incomplete
    <2>7. Len(got[Peer(e)]) <= Len(sent[e])
        BY <2>2
    <2> QED
        BY <2>2, <2>4, <2>5, <2>6, <2>7 DEF StreamOf
<1> QED
    BY <1>2, <1>3, <1>4, <1>5 DEF StreamInv

LEMMA SendKeeps ==
    ASSUME StreamInv, NEW e \in Ends, NEW t \in Threads, NEW n \in Sizes, Send(e, t, n)
    PROVE  StreamInv'
<1>1. UNCHANGED <<sent, writing, socket, ioBuf, got, bad, state>>
    BY DEF Send
<1>2. thread' \in [Ends -> [Threads -> {0} \cup Sizes]]
    BY DEF Send, StreamInv, TypeOK
<1>3. TypeOK'
    BY <1>1, <1>2 DEF StreamInv, TypeOK
<1>4. InOrder'
    BY <1>1, SameOrder DEF StreamInv
<1>5. GivenUpForCause'
    BY <1>1 DEF StreamInv, GivenUpForCause
<1>6. ASSUME NEW x \in Ends
      PROVE  StreamOf(x)'
    BY <1>1, KeptEnd DEF StreamInv, Kept
<1> QED
    BY <1>3, <1>4, <1>5, <1>6 DEF StreamInv

LEMMA SameKeeps ==
    ASSUME StreamInv, UNCHANGED vars
    PROVE  StreamInv'
<1>1. UNCHANGED <<sent, thread, writing, socket, ioBuf, got, bad, state>>
    BY DEF vars
<1>2. TypeOK'
    BY <1>1 DEF StreamInv, TypeOK
<1>3. InOrder'
    BY <1>1, SameOrder DEF StreamInv
<1>4. GivenUpForCause'
    BY <1>1 DEF StreamInv, GivenUpForCause
<1>5. ASSUME NEW x \in Ends
      PROVE  StreamOf(x)'
    BY <1>1, KeptEnd DEF StreamInv, Kept
<1> QED
    BY <1>2, <1>3, <1>4, <1>5 DEF StreamInv

LEMMA WriteFailsKeeps ==
    ASSUME StreamInv, NEW e \in Ends, WriteFails(e)
    PROVE  StreamInv'
<1>1. /\ UNCHANGED <<sent, thread, socket, ioBuf, got, bad, state>>
      /\ writing' = [writing EXCEPT ![e] = [thread |-> "none", left |-> <<>>]]
      /\ state[Peer(e)] # "open"
    BY DEF WriteFails
<1>2. writing \in [Ends -> [thread : {"none"} \cup Threads, left : Seq(Byte)]]
    BY DEF StreamInv, TypeOK
<1>3. writing' \in [Ends -> [thread : {"none"} \cup Threads, left : Seq(Byte)]]
    <2>1. [thread |-> "none", left |-> <<>>] \in [thread : {"none"} \cup Threads, left : Seq(Byte)]
        OBVIOUS
    <2> QED
        BY <1>1, <1>2, <2>1
<1>4. TypeOK'
    BY <1>1, <1>3 DEF StreamInv, TypeOK
<1>5. InOrder'
    BY <1>1, SameOrder DEF StreamInv
<1>6. GivenUpForCause'
    BY <1>1 DEF StreamInv, GivenUpForCause
<1>7. StreamOf(e)'
    <2>1. writing'[e].left = <<>>
        BY <1>1, <1>2
    <2>2. state'[Peer(e)] # "open"
        BY <1>1
    <2> QED
        BY <1>1, <2>1, <2>2 DEF StreamInv, StreamOf
<1>8. ASSUME NEW x \in Ends, x # e
      PROVE  StreamOf(x)'
    <2>1. writing'[x] = writing[x]
        BY <1>1, <1>2, <1>8
    <2> QED
        BY <1>1, <2>1, KeptEnd DEF StreamInv, Kept
<1> QED
    BY <1>4, <1>5, <1>6, <1>7, <1>8 DEF StreamInv

LEMMA WithLeft ==
    ASSUME NEW r \in [thread : {"none"} \cup Threads, left : Seq(Byte)], NEW m
    PROVE  [r EXCEPT !.left = m] = [thread |-> r.thread, left |-> m]
OBVIOUS

LEMMA WriteKeeps ==
    ASSUME StreamInv, NEW e \in Ends, NEW k \in 1..BufSize, WriteUvTcpFd(e, k)
    PROVE  StreamInv'
<1> DEFINE left == writing[e].left
           part == SubSeq(left, 1, k)
           more == SubSeq(left, k + 1, Len(left))
<1>0. TypeOK /\ StreamOf(e)
    BY DEF StreamInv
<1>1. /\ left \in Seq(Byte) /\ socket[e] \in Seq(Byte) /\ ioBuf[Peer(e)] \in Seq(Byte)
      /\ writing[e] \in [thread : {"none"} \cup Threads, left : Seq(Byte)]
      /\ Peer(e) \in Ends
    BY <1>0, Shape
<1>2. k \in 0..Len(left) /\ k \in Nat
    BY <1>1, SizesAssumption DEF WriteUvTcpFd
<1>3. part \in Seq(Byte) /\ Len(part) = k /\ more \in Seq(Byte) /\ Len(more) = Len(left) - k
    BY <1>1, <1>2, Divided
<1> DEFINE w == IF k = Len(left) THEN [thread |-> "none", left |-> <<>>]
                ELSE [thread |-> writing[e].thread, left |-> more]
<1>4. w \in [thread : {"none"} \cup Threads, left : Seq(Byte)] /\ w.left = more
      /\ (w.thread = "none" => writing[e].thread = "none" \/ w.left = <<>>)
    <2>1. CASE k = Len(left)
        <3>1. Len(more) = 0
            BY <1>1, <1>3, <2>1
        <3>2. more = <<>>
            BY <1>3, <3>1, EmptySeq
        <3>3. w = [thread |-> "none", left |-> <<>>]
            BY <2>1
        <3> QED
            BY <3>2, <3>3
    <2>2. CASE k # Len(left)
        <3>1. w = [thread |-> writing[e].thread, left |-> more]
            BY <2>2
        <3> QED
            BY <1>1, <1>3, <3>1
    <2> QED
        BY <2>1, <2>2
<1>5. /\ UNCHANGED <<sent, thread, ioBuf, got, bad, state>>
      /\ socket' = [socket EXCEPT ![e] = socket[e] \o part]
      /\ Len(socket[e]) + k <= Capacity
    BY DEF WriteUvTcpFd
<1>6. writing' = [writing EXCEPT ![e] = w]
    <2>2. [writing[e] EXCEPT !.left = more] = [thread |-> writing[e].thread, left |-> more]
        BY <1>1, WithLeft
    <2>3. writing' = [writing EXCEPT ![e] = IF k = Len(left) THEN [thread |-> "none", left |-> <<>>]
                                            ELSE [writing[e] EXCEPT !.left = more]]
        BY DEF WriteUvTcpFd
    <2> QED
        BY <2>2, <2>3
<1> HIDE DEF w, part, more, left
<1>7. socket[e] \o part \in Seq(Byte) /\ Len(socket[e] \o part) = Len(socket[e]) + k
    BY <1>1, <1>3, ConcatProperties
<1>8. /\ socket \in [Ends -> Seq(Byte)]
      /\ writing \in [Ends -> [thread : {"none"} \cup Threads, left : Seq(Byte)]]
    BY <1>0 DEF TypeOK
<1>9. /\ socket'[e] = socket[e] \o part /\ writing'[e] = w
      /\ \A x \in Ends : x # e => socket'[x] = socket[x] /\ writing'[x] = writing[x]
    BY <1>5, <1>6, <1>8
<1>10. TypeOK'
    <2>1. socket' \in [Ends -> Seq(Byte)]
        BY <1>5, <1>7, <1>8
    <2>2. writing' \in [Ends -> [thread : {"none"} \cup Threads, left : Seq(Byte)]]
        BY <1>4, <1>6, <1>8
    <2>3. \A x \in Ends : Len(socket'[x]) <= Capacity
        BY <1>0, <1>5, <1>7, <1>9 DEF TypeOK
    <2> QED
        BY <1>0, <1>5, <2>1, <2>2, <2>3 DEF TypeOK
<1>11. InOrder'
    BY <1>5, SameOrder DEF StreamInv
<1>12. GivenUpForCause'
    BY <1>5 DEF StreamInv, GivenUpForCause
<1>13. StreamOf(e)'
    <2>1. InFlight(e)' = InFlight(e)
        <3>1. ioBuf[Peer(e)] \o (socket[e] \o left) = ioBuf[Peer(e)] \o ((socket[e] \o part) \o more)
            <4>1. PICK a \in Seq(Byte), b \in Seq(Byte), c \in Seq(Byte) :
                      a = ioBuf[Peer(e)] /\ b = socket[e] /\ c = left
                BY <1>1
            <4>2. k \in 0..Len(c)
                BY <1>2, <4>1
            <4>3. Moved(a, b, c, k)
                BY <4>2, MovedWrite
            <4> QED
                BY <4>1, <4>3 DEF Moved, part, more
        <3> QED
            BY <1>4, <1>5, <1>9, <3>1 DEF InFlight, left
    <2>2. writing'[e].thread = "none" => writing'[e].left = <<>>
        <3>1. CASE writing[e].thread = "none"
            <4>1. left = <<>>
                BY <1>0, <3>1 DEF StreamOf, left
            <4>2. Len(left) = 0
                BY <4>1
            <4> QED
                BY <1>2, <4>2
        <3>2. CASE writing[e].thread # "none"
            BY <1>4, <1>9, <3>2
        <3> QED
            BY <3>1, <3>2
    <2>3. Contiguous(e, InFlight(e)) => Contiguous(e, InFlight(e))'
        BY <1>5, <2>1 DEF Contiguous, ByteOK, Follows, Whole
    <2>4. Spans(e, InFlight(e)) => Spans(e, InFlight(e))'
        BY <1>5, <2>1 DEF Spans, Whole
    <2>5. Incomplete(Peer(e)) => Incomplete(Peer(e))'
        BY <1>5 DEF Incomplete, Whole
    <2> QED
        BY <1>0, <1>5, <2>2, <2>3, <2>4, <2>5 DEF StreamOf
<1>14. ASSUME NEW x \in Ends, x # e
       PROVE  StreamOf(x)'
    BY <1>5, <1>9, <1>14, KeptEnd DEF StreamInv, Kept
<1> QED
    BY <1>10, <1>11, <1>12, <1>13, <1>14 DEF StreamInv

LEMMA ResetKeeps ==
    ASSUME StreamInv, NEW e \in Ends, ReadStreamReset(e)
    PROVE  StreamInv'
<1>1. /\ UNCHANGED <<sent, thread, writing, socket, ioBuf, got, bad>>
      /\ state' = [state EXCEPT ![e] = "reset"]
    BY DEF ReadStreamReset
<1>2. state \in [Ends -> {"open", "error", "nobufs", "reset"}]
    BY DEF StreamInv, TypeOK
<1>3. /\ state'[e] = "reset" /\ \A x \in Ends : x # e => state'[x] = state[x]
      /\ state' \in [Ends -> {"open", "error", "nobufs", "reset"}]
    BY <1>1, <1>2
<1>4. TypeOK'
    BY <1>1, <1>3 DEF StreamInv, TypeOK
<1>5. InOrder'
    BY <1>1, SameOrder DEF StreamInv
<1>6. GivenUpForCause'
    BY <1>1, <1>3 DEF StreamInv, GivenUpForCause
<1>7. ASSUME NEW x \in Ends
      PROVE  StreamOf(x)'
    <2>1. Peer(x) \in Ends /\ StreamOf(x)
        BY EndsAre DEF StreamInv
    <2>2. CASE Peer(x) = e
        BY <1>1, <1>3, <2>1, <2>2 DEF StreamOf
    <2>3. CASE Peer(x) # e
        BY <1>1, <1>3, <2>1, <2>3, KeptEnd DEF Kept
    <2> QED
        BY <2>2, <2>3
<1> QED
    BY <1>4, <1>5, <1>6, <1>7 DEF StreamInv

\* The first byte in flight is of the packet the peer waits for, which was sent.
LEMMA NextSent ==
    ASSUME StreamInv, NEW e \in Ends, state[Peer(e)] = "open", InFlight(e) # <<>>
    PROVE  /\ Len(got[Peer(e)]) + 1 \in 1..Len(sent[e])
           /\ InFlight(e)[1] = First(Len(got[Peer(e)]) + 1)
           /\ InFlight(e) \in Seq(Byte)
<1>1. /\ Contiguous(e, InFlight(e)) /\ Spans(e, InFlight(e))
    BY DEF StreamInv, StreamOf
<1>2. InFlight(e) \in Seq(Byte)
    BY Shape DEF StreamInv
<1>3. 1 \in 1..Len(InFlight(e))
    <2>1. Len(InFlight(e)) \in Nat \ {0}
        BY <1>2, EmptySeq
    <2> QED
        BY <2>1
<1>4. InFlight(e)[1] = First(Len(got[Peer(e)]) + 1)
    BY <1>1 DEF Spans, First
<1>5. ByteOK(e, InFlight(e)[1])
    BY <1>1, <1>3 DEF Contiguous
<1>6. InFlight(e)[1].packet \in 1..Len(sent[e])
    BY <1>5 DEF ByteOK
<1>7. InFlight(e)[1].packet = Len(got[Peer(e)]) + 1
    BY <1>4 DEF First
<1> QED
    BY <1>2, <1>4, <1>6, <1>7

LEMMA BegunSent ==
    ASSUME StreamInv, NEW e \in Ends, state[Peer(e)] = "open", ioBuf[Peer(e)] # <<>>
    PROVE  Len(got[Peer(e)]) + 1 \in 1..Len(sent[e])
<1> DEFINE a == ioBuf[Peer(e)]
           b == socket[e]
           c == writing[e].left
<1>1. a \in Seq(Byte) /\ b \in Seq(Byte) /\ c \in Seq(Byte)
    BY Shape, EndsAre DEF StreamInv
<1>2. InFlight(e) = a \o (b \o c)
    BY DEF InFlight
<1>3. a # <<>>
    OBVIOUS
<1> HIDE DEF a, b, c
<1>4. b \o c \in Seq(Byte)
    BY <1>1, ConcatProperties
<1>5. InFlight(e) # <<>>
    BY <1>1, <1>2, <1>3, <1>4, ConcatEqualIffEmpty
<1> QED
    BY <1>5, NextSent

LEMMA NoBufsKeeps ==
    ASSUME StreamInv, NEW d \in Ends, ReadStreamNoBufs(d)
    PROVE  StreamInv'
<1> DEFINE e == Peer(d)
<1>0. e \in Ends /\ e # d /\ Peer(e) = d
    BY EndsAre
<1>1. /\ UNCHANGED <<sent, thread, writing, socket, ioBuf, got, bad>>
      /\ state' = [state EXCEPT ![d] = "nobufs"]
      /\ state[d] = "open" /\ AllocCallback(d) = 0
    BY DEF ReadStreamNoBufs, Reads
<1>2. state \in [Ends -> {"open", "error", "nobufs", "reset"}]
    BY DEF StreamInv, TypeOK
<1>3. /\ state'[d] = "nobufs" /\ \A x \in Ends : x # d => state'[x] = state[x]
      /\ state' \in [Ends -> {"open", "error", "nobufs", "reset"}]
    BY <1>1, <1>2
<1>4. /\ ioBuf[d] \in Seq(Byte) /\ Len(ioBuf[d]) \in Nat /\ Len(ioBuf[d]) <= BufSize
      /\ got[d] \in Seq(Nat) /\ Len(got[d]) \in Nat
    BY Shape DEF StreamInv, TypeOK
<1>5. Len(ioBuf[d]) = BufSize /\ ioBuf[d] # <<>>
    <2>1. BufSize \in Nat \ {0} /\ SizeWanted \in Nat \ {0}
        BY SizesAssumption
    <2>2. Len(ioBuf[d]) = BufSize
        BY <1>1, <1>4, <2>1 DEF AllocCallback
    <2>3. Len(<<>>) = 0
        OBVIOUS
    <2> QED
        BY <2>1, <2>2, <2>3
<1>6. Len(got[d]) + 1 \in 1..Len(sent[e])
    BY <1>0, <1>1, <1>5, BegunSent
<1>7. BufSize < HeadSize + sent[e][Len(got[d]) + 1]
    <2>1. StreamOf(e)
        BY <1>0 DEF StreamInv
    <2>2. Incomplete(d)
        BY <1>0, <1>1, <2>1 DEF StreamOf
    <2>3. Len(ioBuf[d]) < Whole(e, Len(got[d]) + 1)
        BY <1>5, <2>2 DEF Incomplete
    <2> QED
        BY <1>5, <2>3 DEF Whole
<1>8. TypeOK'
    BY <1>1, <1>3 DEF StreamInv, TypeOK
<1>9. InOrder'
    BY <1>1, SameOrder DEF StreamInv
<1>10. GivenUpForCause'
    <2> SUFFICES ASSUME NEW x \in Ends
                 PROVE  /\ state'[x] = "error" => bad'[x] # 0 /\ Len(got'[x]) = bad'[x] - 1
                        /\ state'[x] = "nobufs" =>
                               HeadSize + sent'[Peer(x)][Len(got'[x]) + 1] > BufSize
        BY DEF GivenUpForCause
    <2>1. CASE x # d
        BY <1>1, <1>3, <2>1, SameCause DEF StreamInv
    <2>2. CASE x = d
        <3>1. HeadSize + sent[e][Len(got[d]) + 1] \in Int /\ BufSize \in Int
            <4>1. PICK z \in Seq(Sizes) : z = sent[e]
                BY <1>0, Shape DEF StreamInv
            <4>2. PICK p \in 1..Len(z) : p = Len(got[d]) + 1
                BY <1>6, <4>1
            <4>3. z[p] \in Sizes
                BY ElementOfSeq
            <4>4. HeadSize \in Nat /\ BufSize \in Nat
                BY SizesAssumption
            <4>5. z[p] \in Nat
                BY <4>3, SizesAssumption
            <4>6. HeadSize + z[p] \in Int
                BY <4>4, <4>5
            <4> QED
                BY <4>1, <4>2, <4>4, <4>6
        <3> QED
            BY <1>1, <1>3, <1>7, <2>2, <3>1
    <2> QED
        BY <2>1, <2>2
<1>11. ASSUME NEW x \in Ends
       PROVE  StreamOf(x)'
    <2>1. Peer(x) \in Ends /\ StreamOf(x) /\ Peer(Peer(x)) = x
        BY EndsAre DEF StreamInv
    <2>2. CASE Peer(x) = d
        <3>1. x = e
            BY <2>1, <2>2
        <3>2. Len(got[d]) < Len(sent[e])
            <4>1. Len(sent[e]) \in Nat
                BY <1>0, Shape DEF StreamInv
            <4> QED
                BY <1>4, <1>6, <4>1
        <3> QED
            BY <1>1, <1>3, <2>1, <2>2, <3>1, <3>2 DEF StreamOf
    <2>3. CASE Peer(x) # d
        BY <1>1, <1>3, <2>1, <2>3, KeptEnd DEF Kept
    <2> QED
        BY <2>2, <2>3
<1> QED
    BY <1>8, <1>9, <1>10, <1>11 DEF StreamInv

\* ByteOK, Follows, Contiguous and Spans of the sizes z of the packets sent: Lock
\* appends to both.
ByteOf(z, b) == b.packet \in 1..Len(z) /\ b.place \in 1..(HeadSize + z[b.packet])

FollowsIn(z, a, b) ==
    \/ /\ a.place < HeadSize + z[a.packet]
       /\ b = [packet |-> a.packet, place |-> a.place + 1]
    \/ /\ a.place = HeadSize + z[a.packet]
       /\ b = [packet |-> a.packet + 1, place |-> 1]

Runs(z, s) ==
    /\ \A i \in 1..Len(s) : ByteOf(z, s[i])
    /\ \A i \in 1..(Len(s) - 1) : FollowsIn(z, s[i], s[i + 1])

Covers(z, s, next) ==
    IF s = <<>> THEN next = Len(z) + 1
    ELSE s[1] = First(next) /\ s[Len(s)] = [packet |-> Len(z), place |-> HeadSize + z[Len(z)]]

LEMMA PacketIs ==
    ASSUME NEW p \in Nat \ {0}, NEW n \in Sizes
    PROVE  /\ HeadSize + n \in Nat \ {0} /\ n \in Nat \ {0} /\ HeadSize \in Nat \ {0}
           /\ Packet(p, n) \in Seq(Byte) /\ Len(Packet(p, n)) = HeadSize + n
           /\ \A i \in 1..(HeadSize + n) : Packet(p, n)[i] = [packet |-> p, place |-> i]
<1>1. HeadSize \in Nat \ {0} /\ n \in Nat \ {0} /\ HeadSize + n \in Nat \ {0}
    BY SizesAssumption
<1>2. PICK w \in Nat \ {0} : w = HeadSize + n
    BY <1>1
<1>3. Packet(p, n) = [i \in 1..w |-> [packet |-> p, place |-> i]]
    BY <1>2 DEF Packet
<1>4. \A i \in 1..w : [packet |-> p, place |-> i] \in Byte
    BY DEF Byte
<1>5. Packet(p, n) \in [1..w -> Byte]
    BY <1>3, <1>4
<1>6. Packet(p, n) \in Seq(Byte) /\ Len(Packet(p, n)) = w
    BY <1>3, <1>5
<1>7. \A i \in 1..w : Packet(p, n)[i] = [packet |-> p, place |-> i]
    BY <1>3
<1> QED
    BY <1>1, <1>2, <1>6, <1>7

LEMMA RunsLonger ==
    ASSUME NEW z \in Seq(Sizes), NEW n \in Sizes, NEW s \in Seq(Byte), NEW next \in Nat,
           Runs(z, s), Covers(z, s, next)
    PROVE  /\ Runs(Append(z, n), s \o Packet(Len(z) + 1, n))
           /\ Covers(Append(z, n), s \o Packet(Len(z) + 1, n), next)
<1>1. PICK l \in Nat : l = Len(z)
    OBVIOUS
<1>2. PICK p \in Nat \ {0} : p = l + 1
    BY <1>1
<1>3. PICK w \in Nat \ {0} : w = HeadSize + n
    BY <1>2, PacketIs
<1>4. PICK y \in Seq(Sizes) : y = Append(z, n)
    BY AppendProperties
<1>5. PICK k \in Seq(Byte) : k = Packet(p, n)
    BY PacketIs
<1>6. /\ Len(y) = p /\ y[p] = n /\ \A i \in 1..l : y[i] = z[i] /\ i \in 1..p
    <2>1. /\ Len(Append(z, n)) = Len(z) + 1 /\ Append(z, n)[Len(z) + 1] = n
          /\ \A i \in 1..Len(z) : Append(z, n)[i] = z[i]
        BY AppendProperties
    <2> QED
        BY <1>1, <1>2, <1>4, <2>1
<1>7. Len(k) = w /\ \A i \in 1..w : k[i] = [packet |-> p, place |-> i]
    BY <1>3, <1>5, PacketIs
<1>8. PICK m \in Nat : m = Len(s)
    OBVIOUS
<1>9. PICK t \in Seq(Byte) : t = s \o k
    BY ConcatProperties
<1>10. /\ Len(t) = m + w
       /\ \A i \in 1..(m + w) : t[i] = IF i <= m THEN s[i] ELSE k[i - m]
    <2>1. /\ Len(s \o k) = Len(s) + Len(k)
          /\ \A i \in 1..Len(s) + Len(k) : (s \o k)[i] = IF i <= Len(s) THEN s[i] ELSE k[i - Len(s)]
        BY ConcatProperties
    <2> QED
        BY <1>7, <1>8, <1>9, <2>1
<1>11. /\ \A i \in 1..m : t[i] = s[i]
       /\ \A i \in 1..w : t[m + i] = [packet |-> p, place |-> i]
    <2>1. ASSUME NEW i \in 1..m
          PROVE  t[i] = s[i]
        <3>1. i \in 1..(m + w) /\ i <= m
            OBVIOUS
        <3> QED
            BY <1>10, <3>1
    <2>2. ASSUME NEW i \in 1..w
          PROVE  t[m + i] = [packet |-> p, place |-> i]
        <3>1. m + i \in 1..(m + w) /\ ~(m + i <= m) /\ m + i - m = i
            OBVIOUS
        <3>2. t[m + i] = k[m + i - m]
            BY <1>10, <3>1
        <3> QED
            BY <1>7, <3>1, <3>2
    <2> QED
        BY <2>1, <2>2
<1>12. /\ \A i \in 1..m : s[i].packet \in 1..l /\ ByteOf(z, s[i])
       /\ \A i \in 1..(m - 1) : FollowsIn(z, s[i], s[i + 1])
    BY <1>1, <1>8 DEF Runs, ByteOf
<1>13. ASSUME NEW i \in 1..(m + w)
       PROVE  ByteOf(y, t[i])
    <2>1. CASE i <= m
        <3>1. i \in 1..m
            BY <2>1
        <3>2. t[i] = s[i] /\ s[i].packet \in 1..l /\ ByteOf(z, s[i])
            BY <1>11, <1>12, <3>1
        <3>3. y[s[i].packet] = z[s[i].packet] /\ s[i].packet \in 1..Len(y)
            BY <1>6, <3>2
        <3> QED
            BY <3>2, <3>3 DEF ByteOf
    <2>2. CASE ~(i <= m)
        <3>1. i - m \in 1..w /\ m + (i - m) = i
            BY <2>2
        <3>2. t[i] = [packet |-> p, place |-> i - m]
            BY <1>11, <3>1
        <3> QED
            BY <1>3, <1>6, <3>1, <3>2 DEF ByteOf
    <2> QED
        BY <2>1, <2>2
<1>14. m # 0 => s[m] = [packet |-> l, place |-> HeadSize + z[l]]
    <2>1. m # 0 => s # <<>>
        BY <1>8
    <2> QED
        BY <1>1, <1>8, <2>1 DEF Covers
<1>15. ASSUME NEW i \in 1..(m + w - 1)
       PROVE  FollowsIn(y, t[i], t[i + 1])
    <2>1. CASE i < m
        <3>1. i \in 1..m /\ i + 1 \in 1..m /\ i \in 1..(m - 1)
            BY <2>1
        <3>2. /\ t[i] = s[i] /\ t[i + 1] = s[i + 1] /\ s[i].packet \in 1..l
              /\ FollowsIn(z, s[i], s[i + 1])
            BY <1>11, <1>12, <3>1
        <3>3. y[s[i].packet] = z[s[i].packet]
            BY <1>6, <3>2
        <3> QED
            BY <3>2, <3>3 DEF FollowsIn
    <2>2. CASE i = m
        <3>1. i \in 1..m /\ 1 \in 1..w /\ m # 0
            BY <2>2
        <3>2. t[i] = [packet |-> l, place |-> HeadSize + z[l]]
            BY <1>11, <1>14, <2>2, <3>1
        <3>3. t[i + 1] = [packet |-> p, place |-> 1]
            BY <1>11, <2>2, <3>1
        <3>4. l \in 1..l
            BY <1>12, <1>14, <2>2, <3>1
        <3>5. y[l] = z[l]
            BY <1>6, <3>4
        <3> QED
            BY <1>2, <3>2, <3>3, <3>5 DEF FollowsIn
    <2>3. CASE i > m
        <3>1. i - m \in 1..w /\ i - m + 1 \in 1..w /\ m + (i - m) = i /\ m + (i - m + 1) = i + 1
              /\ i - m < w
            BY <2>3
        <3>2. t[i] = [packet |-> p, place |-> i - m] /\ t[i + 1] = [packet |-> p, place |-> i - m + 1]
            BY <1>11, <3>1
        <3> QED
            BY <1>3, <1>6, <3>1, <3>2 DEF FollowsIn
    <2> QED
        BY <2>1, <2>2, <2>3
<1>16. Runs(y, t)
    <2>1. PICK q \in Nat : q = m + w
        BY <1>3
    <2>2. Len(t) = q
        BY <1>10, <2>1
    <2>3. \A i \in 1..q : ByteOf(y, t[i])
        BY <1>13, <2>1
    <2>4. \A i \in 1..(q - 1) : FollowsIn(y, t[i], t[i + 1])
        BY <1>15, <2>1
    <2> QED
        BY <2>2, <2>3, <2>4 DEF Runs
<1>17. Covers(y, t, next)
    <2>1. t # <<>>
        <3>1. Len(t) # 0
            BY <1>10
        <3> QED
            BY <3>1
    <2>2. t[Len(t)] = [packet |-> p, place |-> w]
        <3>1. w \in 1..w
            OBVIOUS
        <3> QED
            BY <1>10, <1>11, <3>1
    <2>3. t[1] = First(next)
        <3>1. CASE m = 0
            <4>1. s = <<>>
                BY <1>8, <3>1, EmptySeq
            <4>2. next = p
                BY <1>1, <1>2, <4>1 DEF Covers
            <4>3. 1 \in 1..w /\ m + 1 = 1
                BY <3>1
            <4>4. t[1] = [packet |-> p, place |-> 1]
                BY <1>11, <4>3
            <4> QED
                BY <4>2, <4>4 DEF First
        <3>2. CASE m # 0
            <4>1. 1 \in 1..m /\ s # <<>>
                BY <1>8, <3>2
            <4> QED
                BY <1>11, <4>1 DEF Covers
        <3> QED
            BY <3>1, <3>2
    <2> QED
        BY <1>3, <1>6, <2>1, <2>2, <2>3 DEF Covers
<1> QED
    BY <1>1, <1>2, <1>4, <1>5, <1>9, <1>16, <1>17

LEMMA LockKeeps ==
    ASSUME StreamInv, NEW e \in Ends, NEW t \in Threads, Lock(e, t)
    PROVE  StreamInv'
<1> DEFINE d == Peer(e)
<1>0. /\ TypeOK /\ StreamOf(e) /\ d \in Ends /\ d # e /\ Peer(d) = e
      /\ sent[e] \in Seq(Sizes) /\ Len(got[d]) \in Nat /\ got[d] \in Seq(Nat)
      /\ writing[e] \in [thread : {"none"} \cup Threads, left : Seq(Byte)]
      /\ socket[e] \in Seq(Byte) /\ ioBuf[d] \in Seq(Byte) /\ InFlight(e) \in Seq(Byte)
    BY Shape, EndsAre DEF StreamInv
<1>1. thread[e][t] \in Sizes
    BY <1>0 DEF Lock, TypeOK
<1>2. PICK n \in Sizes : n = thread[e][t]
    BY <1>1
<1>3. PICK z \in Seq(Sizes) : z = sent[e]
    BY <1>0
<1>4. Len(z) + 1 \in Nat \ {0} /\ Len(z) \in Nat
    OBVIOUS
<1>5. /\ Append(z, n) \in Seq(Sizes) /\ Len(Append(z, n)) = Len(z) + 1
      /\ \A i \in 1..Len(z) : Append(z, n)[i] = z[i]
    BY AppendProperties
<1>6. PICK y \in Seq(Sizes) : y = Append(z, n)
    BY <1>5
<1>7. PICK k \in Seq(Byte) : k = Packet(Len(z) + 1, n)
    BY <1>4, PacketIs
<1>8. /\ UNCHANGED <<socket, ioBuf, got, bad, state>>
      /\ writing[e].thread = "none"
      /\ thread' = [thread EXCEPT ![e][t] = 0]
      /\ sent' = [sent EXCEPT ![e] = y]
    BY <1>2, <1>3, <1>6 DEF Lock
<1>9. /\ sent \in [Ends -> Seq(Sizes)]
      /\ writing \in [Ends -> [thread : {"none"} \cup Threads, left : Seq(Byte)]]
      /\ thread \in [Ends -> [Threads -> {0} \cup Sizes]]
    BY <1>0 DEF TypeOK
<1>10. sent'[e] = y /\ Len(y) = Len(z) + 1
    BY <1>5, <1>6, <1>8, <1>9
<1>11. writing' = [writing EXCEPT ![e] = [thread |-> t, left |-> k]]
    <2>1. Packet(Len(sent'[e]), thread[e][t]) = k
        BY <1>2, <1>7, <1>10
    <2>2. writing' = [writing EXCEPT ![e] =
              [thread |-> t, left |-> Packet(Len(sent'[e]), thread[e][t])]]
        BY DEF Lock
    <2> QED
        BY <2>1, <2>2
<1>12. [thread |-> t, left |-> k] \in [thread : {"none"} \cup Threads, left : Seq(Byte)]
    OBVIOUS
<1>13. /\ writing' \in [Ends -> [thread : {"none"} \cup Threads, left : Seq(Byte)]]
       /\ writing'[e].thread = t /\ writing'[e].left = k
       /\ \A x \in Ends : x # e => writing'[x] = writing[x] /\ sent'[x] = sent[x]
    BY <1>8, <1>9, <1>11, <1>12
<1>14. TypeOK'
    <2>1. sent' \in [Ends -> Seq(Sizes)]
        BY <1>8, <1>9
    <2>2. thread' \in [Ends -> [Threads -> {0} \cup Sizes]]
        BY <1>8, <1>9
    <2> QED
        BY <1>0, <1>8, <1>13, <2>1, <2>2 DEF TypeOK
<1>15. InOrder'
    BY <1>8, SameOrder DEF StreamInv
<1>16. GivenUpForCause'
    <2> SUFFICES ASSUME NEW x \in Ends
                 PROVE  /\ state'[x] = "error" => bad'[x] # 0 /\ Len(got'[x]) = bad'[x] - 1
                        /\ state'[x] = "nobufs" =>
                               HeadSize + sent'[Peer(x)][Len(got'[x]) + 1] > BufSize
        BY DEF GivenUpForCause
    <2>1. CASE x # d
        <3>1. Peer(x) \in Ends /\ Peer(x) # e
            BY <1>0, <2>1, EndsAre
        <3> QED
            BY <1>8, <1>13, <3>1, SameCause DEF StreamInv
    <2>2. CASE x = d
        <3>1. state[d] = "nobufs" => /\ Len(got[d]) < Len(z)
                                     /\ HeadSize + z[Len(got[d]) + 1] > BufSize
            BY <1>0, <1>3 DEF StreamInv, StreamOf, GivenUpForCause
        <3>2. state[d] = "nobufs" => y[Len(got[d]) + 1] = z[Len(got[d]) + 1]
            <4>1. PICK p \in Nat : p = Len(got[d]) + 1
                BY <1>0
            <4>2. state[d] = "nobufs" => p \in 1..Len(z)
                BY <1>0, <1>4, <3>1, <4>1
            <4>3. state[d] = "nobufs" => y[p] = z[p]
                BY <1>5, <1>6, <4>2
            <4> QED
                BY <4>1, <4>3
        <3>3. state[d] = "error" => bad[d] # 0 /\ Len(got[d]) = bad[d] - 1
            BY <1>0 DEF StreamInv, GivenUpForCause
        <3> QED
            BY <1>0, <1>8, <1>10, <2>2, <3>1, <3>2, <3>3
    <2> QED
        BY <2>1, <2>2
<1>17. StreamOf(e)'
    <2>1. InFlight(e) = ioBuf[d] \o socket[e] /\ InFlight(e)' = InFlight(e) \o k
        <3>1. PICK a \in Seq(Byte), b \in Seq(Byte) : a = ioBuf[d] /\ b = socket[e]
            BY <1>0
        <3>2. writing[e].left = <<>>
            BY <1>0, <1>8 DEF StreamOf
        <3>3. b \o <<>> = b
            BY ConcatEmptySeq
        <3>4. InFlight(e) = a \o b
            BY <3>1, <3>2, <3>3 DEF InFlight
        <3>5. (a \o b) \o k = a \o (b \o k)
            BY Regrouped
        <3>6. InFlight(e)' = a \o (b \o k)
            BY <1>8, <1>13, <3>1 DEF InFlight
        <3> QED
            BY <3>1, <3>4, <3>5, <3>6
    <2>2. ASSUME state[d] = "open"
          PROVE  Contiguous(e, InFlight(e))' /\ Spans(e, InFlight(e))'
        <3>1. PICK s \in Seq(Byte) : s = InFlight(e)
            BY <1>0
        <3>2. PICK next \in Nat : next = Len(got[d]) + 1
            BY <1>0
        <3>3. Runs(z, s)
            <4>1. Contiguous(e, s)
                BY <1>0, <2>2, <3>1 DEF StreamOf
            <4> QED
                BY <1>3, <4>1 DEF Contiguous, ByteOK, Follows, Whole, Runs, ByteOf, FollowsIn
        <3>4. Covers(z, s, next)
            <4>1. Spans(e, s)
                BY <1>0, <2>2, <3>1 DEF StreamOf
            <4> QED
                BY <1>3, <3>2, <4>1 DEF Spans, Whole, Covers, First
        <3>5. PICK l \in Seq(Byte) : l = s \o k
            BY ConcatProperties
        <3>6. Runs(y, l) /\ Covers(y, l, next)
            BY <1>6, <1>7, <3>3, <3>4, <3>5, RunsLonger
        <3>7. InFlight(e)' = l
            BY <2>1, <3>1, <3>5
        <3>8. Contiguous(e, InFlight(e))'
            BY <1>10, <3>6, <3>7 DEF Contiguous, ByteOK, Follows, Whole, Runs, ByteOf, FollowsIn
        <3>9. Spans(e, InFlight(e))'
            BY <1>8, <1>10, <3>2, <3>6, <3>7 DEF Spans, Whole, Covers, First
        <3> QED
            BY <3>8, <3>9
    <2>3. ASSUME state[d] = "open"
          PROVE  Incomplete(d)'
        <3> SUFFICES ASSUME ioBuf[d] # <<>>
                     PROVE  Len(ioBuf[d]) < HeadSize + y[Len(got[d]) + 1]
            BY <1>0, <1>8, <1>10 DEF Incomplete, Whole
        <3>1. PICK p \in 1..Len(z) : p = Len(got[d]) + 1
            BY <1>3, <2>3, BegunSent
        <3>2. Len(ioBuf[d]) < HeadSize + z[p]
            BY <1>0, <1>3, <2>3, <3>1 DEF StreamOf, Incomplete, Whole
        <3>3. y[p] = z[p]
            BY <1>5, <1>6
        <3> QED
            BY <3>1, <3>2, <3>3
    <2>4. Len(got[d]) <= Len(y) /\ (state[d] = "nobufs" => Len(got[d]) < Len(y))
        BY <1>0, <1>3, <1>4, <1>10 DEF StreamOf
    <2>5. writing'[e].thread # "none"
        BY <1>13 DEF Threads
    <2> QED
        BY <1>8, <1>10, <2>2, <2>3, <2>4, <2>5 DEF StreamOf
<1>18. ASSUME NEW x \in Ends, x # e
       PROVE  StreamOf(x)'
    BY <1>8, <1>13, <1>18, KeptEnd DEF StreamInv, Kept
<1> QED
    BY <1>14, <1>15, <1>16, <1>17, <1>18 DEF StreamInv

\* What the peer does with what it has read: m packets more, and then a part of
\* the next one, or one that is refused.
Took(d, buf, more, m, f) ==
    LET left == SubSeq(buf, f.index + 1, Len(buf)) IN
    /\ f.got = Numbers(Len(got[d]) + 1, m)
    /\ Len(got[d]) + m <= Len(sent[Peer(d)])
    /\ f.error => bad[d] = Len(got[d]) + m + 1
    /\ ~f.error =>
         /\ f.index \in 0..Len(buf)
         /\ left \in Seq(Byte) /\ Len(left) = Len(buf) - f.index
         /\ Contiguous(Peer(d), left \o more)
         /\ Ranges(Peer(d), left \o more, Len(got[d]) + m + 1, Len(sent[Peer(d)]))
         /\ left # <<>> => Len(left) < Whole(Peer(d), Len(got[d]) + m + 1)

LEMMA TakenFromFront ==
    ASSUME NEW d \in Ends, TypeOK, NEW buf \in Seq(Byte), buf # <<>>, NEW more \in Seq(Byte),
           Contiguous(Peer(d), buf \o more), Spans(Peer(d), buf \o more),
           NEW f, f = FetchIOBuf(d, buf)
    PROVE  f \in Results /\ \E m \in Nat : Took(d, buf, more, m, f)
<1> DEFINE e == Peer(d)
<1>0. /\ e \in Ends /\ Peer(e) = d /\ sent[e] \in Seq(Sizes) /\ Len(sent[e]) \in Nat
      /\ Len(got[d]) \in Nat /\ bad[d] \in Nat
    BY Shape, EndsAre
<1>1. PICK p \in Nat : p = Len(got[d]) + 1
    BY <1>0
<1>2. PICK last \in Nat : last = Len(sent[e])
    BY <1>0
<1>3. PICK all \in Seq(Byte) : all = buf \o more
    BY ConcatProperties
<1>4. Contiguous(e, all) /\ Ranges(e, all, p, last)
    BY <1>0, <1>1, <1>2, <1>3, SpansAre
<1>5. 0 \in 0..Len(buf) /\ Len(buf) \in Nat \ {0}
    BY EmptySeq
<1>6. /\ Len(all) = Len(buf) + Len(more) /\ Part(all, 0, buf)
    BY <1>3, <1>5, Pieces
<1>7. Contiguous(e, buf)
    <2>1. 0 \in Nat
        OBVIOUS
    <2> QED
        BY <1>0, <1>4, <1>6, <2>1, ContiguousPart
<1>8. all # <<>> /\ all[1] = buf[1]
    <2>1. Len(all) # 0 /\ 1 \in 1..Len(buf)
        BY <1>5, <1>6
    <2> QED
        BY <1>6, <2>1 DEF Part
<1>9. buf[1] = First(p)
    BY <1>4, <1>8 DEF Ranges
<1>10. Boundary(e, buf, 0, p)
    <2>1. ByteOK(e, buf[1])
        BY <1>5, <1>7 DEF Contiguous
    <2>2. p \in 1..Len(sent[e])
        BY <1>9, <2>1 DEF ByteOK, First
    <2> QED
        BY <1>0, <1>5, <1>9, <2>2 DEF Boundary
<1>11. From(d, buf)
    BY <1>0, <1>7 DEF From
<1>12. f \in Results /\ \E m \in Nat : Fetched(d, buf, p, m, f)
    BY <1>0, <1>10, <1>11, FetchResult
<1>13. PICK m \in Nat : Fetched(d, buf, p, m, f)
    BY <1>12
<1>14. PICK q \in Nat : q = p + m
    OBVIOUS
<1>15. q = Len(got[d]) + m + 1
    BY <1>0, <1>1, <1>14
<1>16. f.got = Numbers(p, m) /\ q <= last + 1 /\ (f.error => bad[d] = q)
    BY <1>2, <1>13, <1>14 DEF Fetched
<1>17. Len(got[d]) + m <= last
    BY <1>0, <1>1, <1>14, <1>16
<1>18. ASSUME ~f.error
       PROVE  LET left == SubSeq(buf, f.index + 1, Len(buf)) IN
              /\ f.index \in 0..Len(buf)
              /\ left \in Seq(Byte) /\ Len(left) = Len(buf) - f.index
              /\ Contiguous(e, left \o more)
              /\ Ranges(e, left \o more, q, last)
              /\ left # <<>> => Len(left) < Whole(e, q)
    <2>1. /\ Boundary(e, buf, f.index, q)
          /\ f.index < Len(buf) => Len(buf) - f.index < Whole(e, q)
        BY <1>13, <1>14, <1>18 DEF Fetched
    <2>2. PICK i \in 0..Len(buf) : i = f.index
        BY <2>1 DEF Boundary
    <2>3. Boundary(e, buf, i, q) /\ (i < Len(buf) => Len(buf) - i < Whole(e, q))
        BY <2>1, <2>2
    <2> DEFINE left == SubSeq(buf, i + 1, Len(buf))
               after == left \o more
    <2>4. /\ left \in Seq(Byte) /\ Len(left) = Len(buf) - i
          /\ after \in Seq(Byte) /\ Part(all, i, after)
        BY <1>3, Pieces
    <2>5. Ranges(e, after, q, last)
        <3>1. Contiguous(e, buf \o more) /\ Ranges(e, buf \o more, p, last)
            BY <1>3, <1>4
        <3> QED
            BY <1>0, <2>3, <3>1, RangesAfter
    <2> HIDE DEF left, after
    <2>6. Contiguous(e, after)
        <3>1. i \in Nat
            BY <1>5
        <3> QED
            BY <1>0, <1>4, <2>4, <3>1, ContiguousPart
    <2>7. left # <<>> => i < Len(buf)
        <3>1. left # <<>> => Len(left) # 0
            BY <2>4, EmptySeq
        <3> QED
            BY <1>5, <2>4, <3>1
    <2>8. left # <<>> => Len(left) < Whole(e, q)
        BY <2>3, <2>4, <2>7
    <2> QED
        BY <2>2, <2>4, <2>5, <2>6, <2>8 DEF left, after
<1> QED
    <2>1. /\ f.got = Numbers(Len(got[d]) + 1, m)
          /\ Len(got[d]) + m <= Len(sent[e])
          /\ f.error => bad[d] = Len(got[d]) + m + 1
        BY <1>1, <1>2, <1>15, <1>16, <1>17
    <2>2. ~f.error =>
              LET left == SubSeq(buf, f.index + 1, Len(buf)) IN
              /\ f.index \in 0..Len(buf)
              /\ left \in Seq(Byte) /\ Len(left) = Len(buf) - f.index
              /\ Contiguous(e, left \o more)
              /\ Ranges(e, left \o more, Len(got[d]) + m + 1, Len(sent[e]))
              /\ left # <<>> => Len(left) < Whole(e, Len(got[d]) + m + 1)
        BY <1>2, <1>15, <1>18
    <2> QED
        BY <1>12, <2>1, <2>2 DEF Took

LEMMA NumbersOn ==
    ASSUME NEW n \in Nat, NEW m \in Nat, NEW s \in Seq(Nat), Len(s) = n,
           s = [i \in DOMAIN s |-> i]
    PROVE  LET t == s \o Numbers(n + 1, m) IN
           t \in Seq(Nat) /\ Len(t) = n + m /\ t = [i \in DOMAIN t |-> i]
<1>1. PICK u \in Seq(Nat) : u = Numbers(n + 1, m)
    <2>1. n + 1 \in Nat
        OBVIOUS
    <2> QED
        BY <2>1, NumbersAre
<1>2. Len(u) = m /\ \A j \in 1..m : u[j] = n + j
    <2>1. n + 1 \in Nat
        OBVIOUS
    <2>2. Len(u) = m /\ \A j \in 1..m : u[j] = n + 1 + j - 1
        BY <1>1, <2>1, NumbersAre
    <2> QED
        BY <2>2
<1>3. PICK t \in Seq(Nat) : t = s \o u
    BY ConcatProperties
<1>4. /\ Len(t) = n + m
      /\ \A i \in 1..(n + m) : t[i] = IF i <= n THEN s[i] ELSE u[i - n]
    <2>1. /\ Len(s \o u) = Len(s) + Len(u)
          /\ \A i \in 1..Len(s) + Len(u) : (s \o u)[i] = IF i <= Len(s) THEN s[i] ELSE u[i - Len(s)]
        BY ONLY s \in Seq(Nat), u \in Seq(Nat), ConcatProperties
    <2> QED
        BY <1>2, <1>3, <2>1
<1>5. \A i \in 1..n : s[i] = i
    OBVIOUS
<1>6. ASSUME NEW i \in 1..(n + m)
      PROVE  t[i] = i
    <2>1. CASE i <= n
        BY <1>4, <1>5, <2>1
    <2>2. CASE ~(i <= n)
        <3>1. i - n \in 1..m /\ n + (i - n) = i
            BY <2>2
        <3>2. t[i] = u[i - n]
            BY <1>4, <2>2
        <3>3. u[i - n] = n + (i - n)
            BY <1>2, <3>1
        <3> QED
            BY <3>1, <3>2, <3>3
    <2> QED
        BY <2>1, <2>2
<1>7. t = [i \in DOMAIN t |-> i]
    <2>1. DOMAIN t = 1..(n + m)
        BY <1>4
    <2> QED
        BY <1>6, <2>1
<1> QED
    BY <1>1, <1>3, <1>4, <1>7

LEMMA ReadKeeps ==
    ASSUME StreamInv, NEW d \in Ends, NEW k \in 1..SizeWanted, ReadStream(d, k)
    PROVE  StreamInv'
<1> DEFINE e == Peer(d)
<1>0. /\ TypeOK /\ StreamOf(e) /\ e \in Ends /\ d # e /\ Peer(e) = d
      /\ sent[e] \in Seq(Sizes) /\ got[d] \in Seq(Nat) /\ Len(got[d]) \in Nat
      /\ Len(sent[e]) \in Nat
      /\ socket[e] \in Seq(Byte) /\ ioBuf[d] \in Seq(Byte) /\ writing[e].left \in Seq(Byte)
      /\ Len(ioBuf[d]) \in Nat /\ bad[d] \in Nat /\ state[d] = "open"
    <2>1. TypeOK /\ StreamOf(e) /\ e \in Ends /\ d # e /\ Peer(e) = d
        BY EndsAre DEF StreamInv
    <2>2. state[d] = "open"
        BY DEF ReadStream, Reads
    <2> QED
        BY <2>1, <2>2, Shape
<1>1. PICK a \in Seq(Byte), b \in Seq(Byte), c \in Seq(Byte) :
          a = ioBuf[d] /\ b = socket[e] /\ c = writing[e].left
    BY <1>0
<1>2. k \in 0..Len(b) /\ k \in Nat \ {0} /\ Len(a) + k <= BufSize /\ Len(a) \in Nat
    <2>1. k \in Nat \ {0}
        BY SizesAssumption
    <2>2. k <= Len(b) /\ Len(b) \in Nat /\ Len(a) \in Nat
        BY <1>1 DEF ReadStream
    <2>3. Len(a) + k <= BufSize
        <3>1. BufSize \in Nat /\ SizeWanted \in Nat
            BY SizesAssumption
        <3>2. k <= AllocCallback(d)
            BY DEF ReadStream
        <3> QED
            BY <1>1, <2>1, <2>2, <3>1, <3>2 DEF AllocCallback
    <2> QED
        BY <2>1, <2>2, <2>3
<1>3. PICK x \in Seq(Byte), y \in Seq(Byte) :
          x = SubSeq(b, 1, k) /\ y = SubSeq(b, k + 1, Len(b)) /\ Len(x) = k /\ Len(y) = Len(b) - k
    <2>1. /\ SubSeq(b, 1, k) \in Seq(Byte) /\ Len(SubSeq(b, 1, k)) = k
          /\ SubSeq(b, k + 1, Len(b)) \in Seq(Byte) /\ Len(SubSeq(b, k + 1, Len(b))) = Len(b) - k
        BY <1>2, Divided
    <2> QED
        BY <2>1
<1>4. PICK buf \in Seq(Byte) : buf = a \o x /\ Len(buf) = Len(a) + Len(x)
    BY ConcatProperties
<1>5. PICK more \in Seq(Byte) : more = y \o c
    BY ConcatProperties
<1>6. buf # <<>> /\ Len(buf) \in Nat /\ Len(buf) <= BufSize
    <2>1. Len(buf) = Len(a) + k /\ Len(buf) # 0
        BY <1>2, <1>3, <1>4
    <2> QED
        BY <1>2, <2>1
<1>7. InFlight(e) = buf \o more
    <2>1. InFlight(e) = a \o (b \o c)
        BY <1>0, <1>1 DEF InFlight
    <2>2. Taking(a, b, c, k)
        BY <1>2, MovedRead
    <2> QED
        BY <1>3, <1>4, <1>5, <2>1, <2>2 DEF Taking
<1>8. Contiguous(e, buf \o more) /\ Spans(e, buf \o more)
    BY <1>0, <1>7 DEF StreamOf
<1>9. PICK f : f = FetchIOBuf(d, buf)
    OBVIOUS
<1>10. f \in Results /\ \E m \in Nat : Took(d, buf, more, m, f)
    BY <1>0, <1>6, <1>8, <1>9, TakenFromFront
<1>11. PICK m \in Nat : Took(d, buf, more, m, f)
    BY <1>10
<1>12. f.error \in BOOLEAN /\ f.got = Numbers(Len(got[d]) + 1, m)
       /\ Len(got[d]) + m <= Len(sent[e])
    BY <1>10, <1>11 DEF Results, Took
<1>13. PICK n \in Nat : n = Len(got[d])
    BY <1>0
<1>14. PICK g \in Seq(Nat) : /\ g = got[d] \o f.got
                             /\ Len(g) = n + m /\ g = [i \in DOMAIN g |-> i]
    <2>1. PICK s \in Seq(Nat) : s = got[d]
        BY <1>0
    <2>2. Len(s) = n /\ s = [i \in DOMAIN s |-> i]
        BY <1>13, <2>1 DEF StreamInv, InOrder
    <2>3. LET t == s \o Numbers(n + 1, m) IN
          t \in Seq(Nat) /\ Len(t) = n + m /\ t = [i \in DOMAIN t |-> i]
        BY <2>2, NumbersOn
    <2> QED
        BY <1>12, <1>13, <2>1, <2>3
<1> DEFINE left == SubSeq(buf, f.index + 1, Len(buf))
<1>15. /\ f.error => bad[d] = n + m + 1
       /\ ~f.error => /\ left \in Seq(Byte) /\ Len(left) <= Len(buf)
                      /\ Contiguous(e, left \o more)
                      /\ Ranges(e, left \o more, n + m + 1, Len(sent[e]))
                      /\ left # <<>> => Len(left) < Whole(e, n + m + 1)
    <2>1. ~f.error => f.index \in 0..Len(buf) /\ Len(left) = Len(buf) - f.index
        BY <1>11 DEF Took
    <2>2. ~f.error => Len(left) <= Len(buf)
        BY <1>6, <2>1
    <2> QED
        BY <1>11, <1>13, <2>2 DEF Took
<1> HIDE DEF left
<1>16. PICK r : r = IF f.error THEN <<>> ELSE left
    OBVIOUS
<1>17. r \in Seq(Byte) /\ Len(r) <= BufSize
    <2>1. CASE f.error
        <3>1. Len(<<>>) = 0 /\ <<>> \in Seq(Byte)
            OBVIOUS
        <3> QED
            BY <1>16, <2>1, <3>1, SizesAssumption
    <2>2. CASE ~f.error
        <3>1. r = left
            BY <1>16, <2>2
        <3>2. left \in Seq(Byte) /\ Len(left) <= Len(buf)
            BY <1>15, <2>2
        <3>3. Len(left) \in Nat /\ BufSize \in Nat
            BY <3>2, SizesAssumption
        <3>4. Len(left) <= BufSize
            BY <1>6, <3>2, <3>3
        <3> QED
            BY <3>1, <3>2, <3>4
    <2> QED
        BY <2>1, <2>2
<1>18. /\ UNCHANGED <<sent, thread, writing, bad>>
       /\ socket' = [socket EXCEPT ![e] = y]
       /\ got' = [got EXCEPT ![d] = g]
       /\ ioBuf' = [ioBuf EXCEPT ![d] = r]
       /\ state' = [state EXCEPT ![d] = IF f.error THEN "error" ELSE "open"]
    <2>1. buf = ioBuf[d] \o SubSeq(socket[e], 1, k)
        BY <1>1, <1>3, <1>4
    <2>2. /\ UNCHANGED <<sent, thread, writing, bad>>
          /\ socket' = [socket EXCEPT ![e] = SubSeq(socket[e], k + 1, Len(socket[e]))]
          /\ got' = [got EXCEPT ![d] = got[d] \o f.got]
          /\ ioBuf' = [ioBuf EXCEPT ![d] = IF f.error THEN <<>>
                                           ELSE SubSeq(buf, f.index + 1, Len(buf))]
          /\ state' = [state EXCEPT ![d] = IF f.error THEN "error" ELSE state[d]]
        BY <1>9, <2>1 DEF ReadStream
    <2> QED
        BY <1>0, <1>1, <1>3, <1>14, <1>16, <2>2 DEF left
<1>19. /\ socket \in [Ends -> Seq(Byte)] /\ got \in [Ends -> Seq(Nat)]
       /\ ioBuf \in [Ends -> Seq(Byte)]
       /\ state \in [Ends -> {"open", "error", "nobufs", "reset"}]
    BY <1>0 DEF TypeOK
<1>20. /\ socket'[e] = y /\ got'[d] = g /\ ioBuf'[d] = r
       /\ state'[d] = IF f.error THEN "error" ELSE "open"
       /\ \A z \in Ends : z # e => socket'[z] = socket[z]
       /\ \A z \in Ends : z # d => got'[z] = got[z] /\ ioBuf'[z] = ioBuf[z] /\ state'[z] = state[z]
    BY <1>0, <1>18, <1>19
<1>21. TypeOK'
    <2>1. socket' \in [Ends -> Seq(Byte)] /\ got' \in [Ends -> Seq(Nat)]
          /\ ioBuf' \in [Ends -> Seq(Byte)]
        BY <1>17, <1>18, <1>19
    <2>2. state' \in [Ends -> {"open", "error", "nobufs", "reset"}]
        BY <1>18, <1>19
    <2>3. ASSUME NEW z \in Ends
          PROVE  Len(socket'[z]) <= Capacity /\ Len(ioBuf'[z]) <= BufSize
        <3>0. Len(socket[z]) <= Capacity /\ Len(ioBuf[z]) <= BufSize
            BY <1>0 DEF TypeOK
        <3>1. Len(y) <= Len(b) /\ Len(y) \in Nat /\ Len(b) \in Nat
            BY <1>2, <1>3
        <3>2. Len(b) <= Capacity /\ Capacity \in Nat
            BY <1>0, <1>1, SizesAssumption DEF TypeOK
        <3>3. Len(y) <= Capacity
            BY <3>1, <3>2
        <3> QED
            BY <1>17, <1>20, <3>0, <3>3
    <2> QED
        BY <1>0, <1>18, <2>1, <2>2, <2>3 DEF TypeOK
<1>22. InOrder'
    BY <1>14, <1>20 DEF StreamInv, InOrder
<1>23. GivenUpForCause'
    <2> SUFFICES ASSUME NEW z \in Ends
                 PROVE  /\ state'[z] = "error" => bad'[z] # 0 /\ Len(got'[z]) = bad'[z] - 1
                        /\ state'[z] = "nobufs" =>
                               HeadSize + sent'[Peer(z)][Len(got'[z]) + 1] > BufSize
        BY DEF GivenUpForCause
    <2>1. CASE z # d
        BY <1>18, <1>20, <2>1 DEF StreamInv, GivenUpForCause
    <2>2. CASE z = d
        <3>1. f.error => bad[d] # 0 /\ Len(g) = bad[d] - 1
            BY <1>14, <1>15
        <3> QED
            BY <1>18, <1>20, <2>2, <3>1
    <2> QED
        BY <2>1, <2>2
<1>24. StreamOf(e)'
    <2>1. writing[e].thread = "none" => writing[e].left = <<>>
        BY <1>0 DEF StreamOf
    <2>2. Len(g) <= Len(sent[e])
        BY <1>12, <1>13, <1>14
    <2>3. ASSUME ~f.error
          PROVE  /\ Contiguous(e, InFlight(e))' /\ Spans(e, InFlight(e))'
                 /\ Incomplete(d)'
        <3>1. r = left
            BY <1>16, <2>3
        <3>2. InFlight(e)' = left \o more
            BY <1>0, <1>1, <1>5, <1>18, <1>20, <3>1 DEF InFlight
        <3>3. PICK s : s = left \o more
            OBVIOUS
        <3>4. Contiguous(e, s) /\ Ranges(e, s, n + m + 1, Len(sent[e]))
            BY <1>15, <2>3, <3>3
        <3>5. Contiguous(e, InFlight(e))'
            BY <1>18, <3>2, <3>3, <3>4 DEF Contiguous, ByteOK, Follows, Whole
        <3>6. Spans(e, InFlight(e))'
            <4>1. Len(got'[d]) + 1 = n + m + 1
                BY <1>14, <1>20
            <4>2. Spans(e, InFlight(e))' <=> IF s = <<>> THEN n + m + 1 = Len(sent[e]) + 1
                      ELSE /\ s[1] = [packet |-> n + m + 1, place |-> 1]
                           /\ s[Len(s)] = [packet |-> Len(sent[e]), place |-> Whole(e, Len(sent[e]))]
                BY <1>0, <1>18, <3>2, <3>3, <4>1 DEF Spans, Whole
            <4> QED
                BY <3>4, <4>2 DEF Ranges, First
        <3>7. Incomplete(d)'
            BY <1>0, <1>14, <1>15, <1>18, <1>20, <2>3, <3>1 DEF Incomplete, Whole
        <3> QED
            BY <3>5, <3>6, <3>7
    <2>4. state'[d] = "open" => ~f.error
        BY <1>20
    <2>5. state'[d] # "nobufs"
        BY <1>20
    <2> QED
        BY <1>0, <1>18, <1>20, <2>1, <2>2, <2>3, <2>4, <2>5 DEF StreamOf
<1>25. ASSUME NEW z \in Ends, z # e
       PROVE  StreamOf(z)'
    <2>1. Peer(z) \in Ends /\ Peer(z) # d
        BY <1>0, <1>25, EndsAre
    <2> QED
        BY <1>18, <1>20, <1>25, <2>1, KeptEnd DEF StreamInv, Kept
<1> QED
    BY <1>21, <1>22, <1>23, <1>24, <1>25 DEF StreamInv

-----------------------------------------------------------------------------
(* The theorems *)

LEMMA NextKeeps ==
    ASSUME StreamInv, [Next]_vars
    PROVE  StreamInv'
<1>1. CASE UNCHANGED vars
    BY <1>1, SameKeeps
<1>2. CASE Next
    <2>1. PICK e \in Ends : \/ \E t \in Threads, n \in Sizes : Send(e, t, n)
                            \/ \E t \in Threads : Lock(e, t)
                            \/ Write(e)
                            \/ Read(e)
        BY <1>2 DEF Next
    <2>2. CASE \E t \in Threads, n \in Sizes : Send(e, t, n)
        BY <2>2, SendKeeps
    <2>3. CASE \E t \in Threads : Lock(e, t)
        BY <2>3, LockKeeps
    <2>4. CASE Write(e)
        BY <2>4, WriteKeeps, WriteFailsKeeps DEF Write
    <2>5. CASE Read(e)
        BY <2>5, ReadKeeps, NoBufsKeeps, ResetKeeps DEF Read
    <2> QED
        BY <2>1, <2>2, <2>3, <2>4, <2>5
<1> QED
    BY <1>1, <1>2

\* What is in flight between two ends, in the buffer of the reader, in the socket
\* and with the thread that writes, is at every moment the packets the reader
\* waits for, in order and with every byte (WriteUvTcpFd, ReadStream, FetchIOBuf).
THEOREM StreamInvHolds == Spec => []StreamInv
<1>1. StreamInv /\ [Next]_vars => StreamInv'
    BY NextKeeps
<1> QED
    BY InitInv, <1>1, PTL DEF Spec

\* The state has its shape: no more bytes in the sockets and in ioBuf than fit.
THEOREM TypeOKHolds == Spec => []TypeOK
<1>1. StreamInv => TypeOK
    BY DEF StreamInv
<1> QED
    BY StreamInvHolds, <1>1, PTL

\* The packets come to FetchCommand once, whole and in the order of the mutex,
\* for packets and buffers of every size and for every way the bytes are cut.
THEOREM InOrderHolds == Spec => []InOrder
<1>1. StreamInv => InOrder
    BY DEF StreamInv
<1> QED
    BY StreamInvHolds, <1>1, PTL

\* A session is given up only for a refused command, or for a packet that does not
\* fit the buffer.
THEOREM GivenUpForCauseHolds == Spec => []GivenUpForCause
<1>1. StreamInv => GivenUpForCause
    BY DEF StreamInv
<1> QED
    BY StreamInvHolds, <1>1, PTL

-----------------------------------------------------------------------------
(* Recursion *)

\* A set that has every number whose predecessors it has, has all of them.
LEMMA Induction ==
    ASSUME NEW T, \A n \in Nat : (\A m \in 0..(n - 1) : m \in T) => n \in T
    PROVE  \A n \in Nat : n \in T
<1> SUFFICES ASSUME Nat \ T # {}
             PROVE  FALSE
    OBVIOUS
<1>1. PICK x \in Nat \ T : \A y \in Nat \ T : x <= y
    BY Smallest
<1>2. \A m \in 0..(x - 1) : m \in T
    BY <1>1
<1> QED
    BY <1>1, <1>2

\* g follows the recursion for the elements of a rank below n.
Follow(D, S, ends, rank, prev, base, next, n) ==
    {g \in [D -> S] : \A d \in D : rank[d] < n =>
        g[d] = IF d \in ends THEN base[d] ELSE next[d][g[prev[d]]]}

LEMMA FollowExists ==
    ASSUME NEW D, NEW S, NEW ends, NEW rank \in [D -> Nat], NEW prev \in [D -> D],
           NEW base \in [D -> S], NEW next \in [D -> [S -> S]],
           \A d \in D : d \notin ends => rank[prev[d]] < rank[d]
    PROVE  \A n \in Nat : Follow(D, S, ends, rank, prev, base, next, n) # {}
<1> DEFINE F(n) == Follow(D, S, ends, rank, prev, base, next, n)
           T == {n \in Nat : F(n) # {}}
<1>1. base \in F(0)
    BY DEF Follow
<1>2. ASSUME NEW n \in Nat, NEW g \in F(n)
      PROVE  F(n + 1) # {}
    <2> DEFINE h == [d \in D |-> IF rank[d] < n THEN g[d]
                                ELSE IF d \in ends THEN base[d] ELSE next[d][g[prev[d]]]]
    <2>1. g \in [D -> S]
        BY DEF Follow
    <2>2. h \in [D -> S]
        BY <2>1
    <2>3. ASSUME NEW d \in D, rank[d] < n + 1
          PROVE  h[d] = IF d \in ends THEN base[d] ELSE next[d][h[prev[d]]]
        <3>1. g[d] = (IF d \in ends THEN base[d] ELSE next[d][g[prev[d]]]) \/ ~(rank[d] < n)
            BY DEF Follow
        <3>2. h[d] = IF d \in ends THEN base[d] ELSE next[d][g[prev[d]]]
            BY <3>1
        <3>3. d \notin ends => h[prev[d]] = g[prev[d]]
            <4> SUFFICES ASSUME d \notin ends
                         PROVE  h[prev[d]] = g[prev[d]]
                OBVIOUS
            <4>1. rank[prev[d]] < rank[d] /\ rank[prev[d]] \in Nat /\ rank[d] \in Nat
                OBVIOUS
            <4>2. rank[prev[d]] < n
                BY <4>1, <2>3
            <4> QED
                BY <4>2
        <3> QED
            BY <3>2, <3>3
    <2> HIDE DEF h
    <2>4. h \in F(n + 1)
        BY <2>2, <2>3 DEF Follow
    <2> QED
        BY <2>4
<1>3. ASSUME NEW n \in Nat, \A m \in 0..(n - 1) : m \in T
      PROVE  n \in T
    <2>1. CASE n = 0
        BY <2>1, <1>1
    <2>2. CASE n # 0
        <3>1. n - 1 \in 0..(n - 1) /\ n - 1 \in Nat /\ (n - 1) + 1 = n
            BY <2>2
        <3>4. n - 1 \in T
            BY ONLY <3>1, <1>3
        <3>2. PICK g : g \in F(n - 1)
            BY <3>4
        <3> HIDE DEF F
        <3>3. F((n - 1) + 1) # {}
            BY <1>2, <3>1, <3>2
        <3> QED
            BY <3>3, <3>1 DEF F
    <2> QED
        BY <2>1, <2>2
<1> HIDE DEF T
<1>4. \A n \in Nat : n \in T
    BY <1>3, Induction
<1> QED
    BY <1>4 DEF T

\* Two that follow it agree where both do.
LEMMA FollowAgree ==
    ASSUME NEW D, NEW S, NEW ends, NEW rank \in [D -> Nat], NEW prev \in [D -> D],
           NEW base \in [D -> S], NEW next \in [D -> [S -> S]],
           \A d \in D : d \notin ends => rank[prev[d]] < rank[d],
           NEW a \in Nat, NEW g \in Follow(D, S, ends, rank, prev, base, next, a),
           NEW b \in Nat, NEW h \in Follow(D, S, ends, rank, prev, base, next, b)
    PROVE  \A d \in D : rank[d] < a /\ rank[d] < b => g[d] = h[d]
<1> DEFINE T == {n \in Nat : \A d \in D : rank[d] = n /\ n < a /\ n < b => g[d] = h[d]}
<1>1. ASSUME NEW n \in Nat, \A m \in 0..(n - 1) : m \in T
      PROVE  n \in T
    <2> SUFFICES ASSUME NEW d \in D, rank[d] = n, n < a, n < b
                 PROVE  g[d] = h[d]
        OBVIOUS
    <2>1. g[d] = (IF d \in ends THEN base[d] ELSE next[d][g[prev[d]]])
        BY DEF Follow
    <2>2. h[d] = (IF d \in ends THEN base[d] ELSE next[d][h[prev[d]]])
        BY DEF Follow
    <2>3. CASE d \notin ends
        <3>1. rank[prev[d]] \in 0..(n - 1) /\ prev[d] \in D
            BY <2>3
        <3>2. rank[prev[d]] \in T /\ rank[prev[d]] < a /\ rank[prev[d]] < b
            BY <3>1, <1>1
        <3>3. g[prev[d]] = h[prev[d]]
            BY <3>1, <3>2
        <3> QED
            BY <3>3, <2>1, <2>2
    <2> QED
        BY <2>1, <2>2, <2>3
<1> HIDE DEF T
<1>2. \A n \in Nat : n \in T
    BY <1>1, Induction
<1> QED
    BY <1>2 DEF T

\* There is a function that is what a recursion says, if every step of it comes
\* closer to an end.
Closer(D, S, ends, rank, prev, base, next) ==
    /\ rank \in [D -> Nat] /\ prev \in [D -> D]
    /\ base \in [D -> S] /\ next \in [D -> [S -> S]]
    /\ \A d \in D : d \notin ends => rank[prev[d]] < rank[d]

Solved(D, S, ends, prev, base, next) ==
    \E g \in [D -> S] : \A d \in D :
        g[d] = IF d \in ends THEN base[d] ELSE next[d][g[prev[d]]]

LEMMA Recursion ==
    ASSUME NEW D, NEW S, NEW ends, NEW rank, NEW prev, NEW base, NEW next,
           Closer(D, S, ends, rank, prev, base, next)
    PROVE  Solved(D, S, ends, prev, base, next)
<1> USE DEF Closer
<1> DEFINE F(n) == Follow(D, S, ends, rank, prev, base, next, n)
           f(n) == CHOOSE g : g \in F(n)
           g == [d \in D |-> f(rank[d] + 1)[d]]
<1>1. \A n \in Nat : f(n) \in F(n)
    <2>1. \A n \in Nat : F(n) # {}
        BY FollowExists
    <2> HIDE DEF F
    <2> QED
        BY <2>1
<1>2. \A n \in Nat : f(n) \in [D -> S]
    <2> HIDE DEF f
    <2> QED
        BY <1>1 DEF Follow
<1>3. g \in [D -> S]
    <2> HIDE DEF f
    <2> QED
        BY <1>2
<1>4. ASSUME NEW d \in D
      PROVE  g[d] = IF d \in ends THEN base[d] ELSE next[d][g[prev[d]]]
    <2> HIDE DEF f
    <2>1. rank[d] + 1 \in Nat /\ rank[d] < rank[d] + 1
        OBVIOUS
    <2>2. f(rank[d] + 1) \in F(rank[d] + 1)
        BY <2>1, <1>1
    <2>3. g[d] = (IF d \in ends THEN base[d] ELSE next[d][f(rank[d] + 1)[prev[d]]])
        BY <2>1, <2>2 DEF Follow
    <2>4. CASE d \notin ends
        <3>1. rank[prev[d]] < rank[d] /\ rank[prev[d]] \in Nat /\ prev[d] \in D
            BY <2>4
        <3>2. f(rank[prev[d]] + 1) \in F(rank[prev[d]] + 1) /\ rank[prev[d]] + 1 \in Nat
              /\ rank[prev[d]] < rank[prev[d]] + 1 /\ rank[prev[d]] < rank[d] + 1
            BY <3>1, <1>1
        <3> DEFINE u == f(rank[d] + 1)
                   v == f(rank[prev[d]] + 1)
        <3>3. \A x \in D : rank[x] < rank[d] + 1 /\ rank[x] < rank[prev[d]] + 1 => u[x] = v[x]
            <4>1. u \in F(rank[d] + 1) /\ v \in F(rank[prev[d]] + 1)
                BY <2>2, <3>2
            <4> HIDE DEF u, v
            <4> QED
                BY <4>1, <2>1, <3>2, FollowAgree
        <3>4. f(rank[d] + 1)[prev[d]] = f(rank[prev[d]] + 1)[prev[d]]
            BY <3>3, <3>1, <3>2
        <3>5. g[prev[d]] = f(rank[prev[d]] + 1)[prev[d]]
            BY <3>1
        <3> QED
            BY <2>3, <2>4, <3>4, <3>5
    <2> QED
        BY <2>3, <2>4
<1> HIDE DEF g
<1> QED
    BY <1>3, <1>4 DEF Solved

-----------------------------------------------------------------------------
(* Powers of two *)

LEMMA PowerIs ==
    Power = [n \in Nat |-> IF n = 0 THEN 1 ELSE 2 * Power[n - 1]]
<1> DEFINE rank == [n \in Nat |-> n]
           prev == [n \in Nat |-> IF n = 0 THEN 0 ELSE n - 1]
           base == [n \in Nat |-> 1]
           next == [n \in Nat |-> [x \in Nat |-> 2 * x]]
<1>1. Closer(Nat, Nat, {0}, rank, prev, base, next)
    BY DEF Closer
<1>2. Solved(Nat, Nat, {0}, prev, base, next)
    <2> HIDE DEF rank, prev, base, next
    <2> QED
        BY <1>1, Recursion
<1>3. PICK g \in [Nat -> Nat] : \A n \in Nat :
          g[n] = IF n \in {0} THEN base[n] ELSE next[n][g[prev[n]]]
    <2> HIDE DEF prev, base, next
    <2> QED
        BY <1>2 DEF Solved
<1>4. ASSUME NEW n \in Nat
      PROVE  g[n] = IF n = 0 THEN 1 ELSE 2 * g[n - 1]
    <2>1. CASE n = 0
        BY <2>1, <1>3
    <2>2. CASE n # 0
        <3>1. n - 1 \in Nat /\ prev[n] = n - 1 /\ g[n - 1] \in Nat /\ n \notin {0}
            BY <2>2
        <3>2. next[n][g[n - 1]] = 2 * g[n - 1]
            BY <3>1
        <3>3. g[n] = next[n][g[prev[n]]]
            <4> HIDE DEF prev, next
            <4> QED
                BY <1>3, <3>1
        <3> QED
            BY <3>1, <3>2, <3>3, <2>2
    <2> QED
        BY <2>1, <2>2
<1>5. g = [n \in Nat |-> IF n = 0 THEN 1 ELSE 2 * g[n - 1]]
    BY <1>4
<1> QED
    BY <1>5, Zenon DEF Power

LEMMA PowerSteps ==
    /\ Power[0] = 1
    /\ \A n \in Nat : n # 0 => Power[n] = 2 * Power[n - 1]
    /\ \A n \in Nat : Power[n + 1] = 2 * Power[n]
<1>1. \A n \in Nat : Power[n] = IF n = 0 THEN 1 ELSE 2 * Power[n - 1]
    BY PowerIs
<1>2. \A n \in Nat : n + 1 \in Nat /\ n + 1 # 0 /\ (n + 1) - 1 = n
    OBVIOUS
<1> QED
    BY <1>1, <1>2

LEMMA PowerType == \A n \in Nat : Power[n] \in Nat \ {0}
<1> DEFINE T == {n \in Nat : Power[n] \in Nat \ {0}}
<1>1. ASSUME NEW n \in Nat, \A m \in 0..(n - 1) : m \in T
      PROVE  n \in T
    <2>1. CASE n = 0
        BY <2>1, PowerSteps
    <2>2. CASE n # 0
        <3>1. n - 1 \in 0..(n - 1)
            BY <2>2
        <3>2. Power[n - 1] \in Nat \ {0}
            BY <3>1, <1>1
        <3>3. Power[n] = 2 * Power[n - 1]
            BY <2>2, PowerSteps
        <3> QED
            BY <3>2, <3>3
    <2> QED
        BY <2>1, <2>2
<1> HIDE DEF T
<1>2. \A n \in Nat : n \in T
    BY <1>1, Induction
<1> QED
    BY <1>2 DEF T

LEMMA PowerGrows == \A n, m \in Nat : n <= m => Power[n] <= Power[m]
<1> SUFFICES ASSUME NEW n \in Nat
             PROVE  \A m \in Nat : n <= m => Power[n] <= Power[m]
    OBVIOUS
<1> DEFINE T == {m \in Nat : n <= m => Power[n] <= Power[m]}
<1>1. ASSUME NEW m \in Nat, \A k \in 0..(m - 1) : k \in T
      PROVE  m \in T
    <2>1. CASE n < m
        <3>1. m - 1 \in 0..(m - 1) /\ m - 1 \in Nat /\ m # 0 /\ n <= m - 1
            BY <2>1
        <3>2. Power[n] <= Power[m - 1]
            BY <3>1, <1>1
        <3>3. Power[m] = 2 * Power[m - 1] /\ Power[m - 1] \in Nat /\ Power[n] \in Nat
            BY <3>1, PowerSteps, PowerType
        <3> QED
            BY <3>2, <3>3
    <2>2. CASE ~(n < m)
        <3>1. n <= m => n = m
            BY <2>2
        <3>2. Power[n] \in Nat
            BY PowerType
        <3> QED
            BY <3>1, <3>2
    <2> QED
        BY <2>1, <2>2
<1> HIDE DEF T
<1>2. \A m \in Nat : m \in T
    BY <1>1, Induction
<1> QED
    BY <1>2 DEF T

\* Seven bits more are 128 times as many numbers.
LEMMA PowerSeven ==
    /\ Power[7] = 128
    /\ \A n \in Nat : Power[n + 7] = 128 * Power[n]
<1>1. \A n \in Nat : /\ Power[n + 1] = 2 * Power[n]
                     /\ Power[(n + 1) + 1] = 2 * Power[n + 1]
                     /\ Power[(n + 2) + 1] = 2 * Power[n + 2]
                     /\ Power[(n + 3) + 1] = 2 * Power[n + 3]
                     /\ Power[(n + 4) + 1] = 2 * Power[n + 4]
                     /\ Power[(n + 5) + 1] = 2 * Power[n + 5]
                     /\ Power[(n + 6) + 1] = 2 * Power[n + 6]
    BY PowerSteps
<1>2. \A n \in Nat : /\ (n + 1) + 1 = n + 2 /\ (n + 2) + 1 = n + 3 /\ (n + 3) + 1 = n + 4
                     /\ (n + 4) + 1 = n + 5 /\ (n + 5) + 1 = n + 6 /\ (n + 6) + 1 = n + 7
    OBVIOUS
<1>3. ASSUME NEW n \in Nat
      PROVE  Power[n + 7] = 128 * Power[n]
    <2>1. /\ Power[n + 2] = 2 * Power[n + 1] /\ Power[n + 3] = 2 * Power[n + 2]
          /\ Power[n + 4] = 2 * Power[n + 3] /\ Power[n + 5] = 2 * Power[n + 4]
          /\ Power[n + 6] = 2 * Power[n + 5] /\ Power[n + 7] = 2 * Power[n + 6]
          /\ Power[n + 1] = 2 * Power[n]
        BY <1>1, <1>2
    <2>2. PICK a \in Nat : a = Power[n]
        BY PowerType
    <2> QED
        BY <2>1, <2>2
<1>4. Power[0 + 7] = 128 * Power[0] /\ 0 + 7 = 7 /\ Power[0] = 1
    BY <1>3, PowerSteps
<1> QED
    BY <1>3, <1>4

-----------------------------------------------------------------------------
(* Varints *)

LEMMA Seven ==
    ASSUME NEW v \in Nat
    PROVE  /\ v \div 128 \in Nat
           /\ v % 128 \in 0..127
           /\ v = 128 * (v \div 128) + (v % 128)
           /\ v >= 128 => v \div 128 < v
           /\ (128 + (v % 128)) \in Octet
           /\ (128 + (v % 128)) % 128 = v % 128
<1>1. v \div 128 \in Nat /\ v % 128 \in 0..127 /\ v = 128 * (v \div 128) + (v % 128)
    OBVIOUS
<1>2. v >= 128 => v \div 128 < v
    BY <1>1
<1>3. PICK r \in 0..127 : r = v % 128
    BY <1>1
<1>4. (128 + r) % 128 = r /\ 128 + r \in 0..255
    OBVIOUS
<1> QED
    BY <1>1, <1>2, <1>3, <1>4 DEF Octet

LEMMA VarintIs ==
    WriteVarint = [v \in Nat |-> IF v < 128 THEN <<v>>
                                ELSE <<128 + (v % 128)>> \o WriteVarint[v \div 128]]
<1> DEFINE S == Seq(Octet)
           ends == {v \in Nat : v < 128}
           rank == [v \in Nat |-> v]
           prev == [v \in Nat |-> v \div 128]
           base == [v \in Nat |-> IF v < 128 THEN <<v>> ELSE <<>>]
           next == [v \in Nat |-> [s \in S |-> <<128 + (v % 128)>> \o s]]
<1>1. Closer(Nat, S, ends, rank, prev, base, next)
    <2>1. prev \in [Nat -> Nat] /\ rank \in [Nat -> Nat]
        BY Seven
    <2>2. base \in [Nat -> S]
        <3>1. \A v \in Nat : v < 128 => v \in Octet
            BY DEF Octet
        <3> HIDE DEF Octet
        <3>2. \A v \in Octet : <<v>> \in Seq(Octet)
            OBVIOUS
        <3>3. <<>> \in Seq(Octet)
            OBVIOUS
        <3> QED
            BY <3>1, <3>2, <3>3
    <2>3. next \in [Nat -> [S -> S]]
        <3> SUFFICES ASSUME NEW v \in Nat, NEW s \in S
                     PROVE  <<128 + (v % 128)>> \o s \in S
            OBVIOUS
        <3>1. <<128 + (v % 128)>> \in Seq(Octet)
            BY Seven
        <3> QED
            BY <3>1
    <2>4. \A v \in Nat : v \notin ends => rank[prev[v]] < rank[v]
        BY Seven
    <2> HIDE DEF S, ends, rank, prev, base, next
    <2> QED
        BY <2>1, <2>2, <2>3, <2>4 DEF Closer
<1>2. Solved(Nat, S, ends, prev, base, next)
    <2> HIDE DEF S, ends, rank, prev, base, next
    <2> QED
        BY <1>1, Recursion
<1>3. PICK g \in [Nat -> S] : \A v \in Nat :
          g[v] = IF v \in ends THEN base[v] ELSE next[v][g[prev[v]]]
    <2> HIDE DEF S, ends, prev, base, next
    <2> QED
        BY <1>2 DEF Solved
<1>4. ASSUME NEW v \in Nat
      PROVE  g[v] = IF v < 128 THEN <<v>> ELSE <<128 + (v % 128)>> \o g[v \div 128]
    <2>1. CASE v < 128
        <3>1. v \in ends /\ base[v] = <<v>>
            BY <2>1
        <3> HIDE DEF ends, base, next, prev
        <3> QED
            BY <3>1, <1>3, <2>1
    <2>2. CASE ~(v < 128)
        <3>1. v \div 128 \in Nat /\ prev[v] = v \div 128 /\ g[v \div 128] \in S /\ v \notin ends
            BY <2>2, Seven
        <3>2. next[v][g[v \div 128]] = <<128 + (v % 128)>> \o g[v \div 128]
            BY <3>1
        <3>3. g[v] = next[v][g[prev[v]]]
            <4> HIDE DEF ends, prev, next
            <4> QED
                BY <1>3, <3>1
        <3> HIDE DEF next, prev, ends, base
        <3> QED
            BY <3>1, <3>2, <3>3, <2>2
    <2> QED
        BY <2>1, <2>2
<1>5. g = [v \in Nat |-> IF v < 128 THEN <<v>> ELSE <<128 + (v % 128)>> \o g[v \div 128]]
    BY <1>4
<1> QED
    BY <1>5, Zenon DEF WriteVarint

LEMMA VarintSteps ==
    ASSUME NEW v \in Nat
    PROVE  /\ v < 128 => WriteVarint[v] = <<v>>
           /\ v >= 128 => WriteVarint[v] = <<128 + (v % 128)>> \o WriteVarint[v \div 128]
<1>1. WriteVarint[v] = IF v < 128 THEN <<v>> ELSE <<128 + (v % 128)>> \o WriteVarint[v \div 128]
    BY VarintIs
<1> QED
    BY <1>1

LEMMA VarintType == \A v \in Nat : WriteVarint[v] \in Seq(Octet)
<1> DEFINE T == {v \in Nat : WriteVarint[v] \in Seq(Octet)}
<1>1. ASSUME NEW v \in Nat, \A m \in 0..(v - 1) : m \in T
      PROVE  v \in T
    <2>1. CASE v < 128
        <3>1. v \in Octet
            BY <2>1 DEF Octet
        <3>2. <<v>> \in Seq(Octet)
            BY <3>1
        <3>3. WriteVarint[v] = <<v>>
            BY <2>1, VarintSteps
        <3> QED
            BY <3>2, <3>3
    <2>2. CASE v >= 128
        <3>1. v \div 128 \in 0..(v - 1)
            BY <2>2, Seven
        <3>2. WriteVarint[v \div 128] \in Seq(Octet)
            BY <3>1, <1>1
        <3>3. <<128 + (v % 128)>> \in Seq(Octet)
            BY Seven
        <3>4. WriteVarint[v] = <<128 + (v % 128)>> \o WriteVarint[v \div 128]
            <4> HIDE DEF T
            <4> QED
                BY <2>2, VarintSteps
        <3> HIDE DEF T
        <3>5. PICK s \in Seq(Octet) : s = WriteVarint[v \div 128]
            BY <3>2
        <3>6. PICK b \in Seq(Octet) : b = <<128 + (v % 128)>>
            BY <3>3
        <3>7. b \o s \in Seq(Octet)
            BY ONLY b \in Seq(Octet), s \in Seq(Octet)
        <3>8. WriteVarint[v] \in Seq(Octet)
            BY <3>4, <3>5, <3>6, <3>7
        <3> QED
            BY <3>8 DEF T
    <2> QED
        BY <2>1, <2>2
<1> HIDE DEF T
<1>2. \A v \in Nat : v \in T
    BY <1>1, Induction
<1> QED
    BY <1>2 DEF T

LEMMA VarintFirst ==
    ASSUME NEW v \in Nat
    PROVE  /\ v < 128 => Len(WriteVarint[v]) = 1 /\ WriteVarint[v][1] = v
           /\ v >= 128 =>
                /\ Len(WriteVarint[v]) = 1 + Len(WriteVarint[v \div 128])
                /\ WriteVarint[v][1] = 128 + (v % 128)
                /\ \A i \in 1..Len(WriteVarint[v \div 128]) :
                       WriteVarint[v][1 + i] = WriteVarint[v \div 128][i]
<1>1. CASE v < 128
    <2>1. WriteVarint[v] = <<v>>
        BY <1>1, VarintSteps
    <2>2. Len(<<v>>) = 1 /\ <<v>>[1] = v
        OBVIOUS
    <2> QED
        BY <1>1, <2>1, <2>2
<1>2. CASE v >= 128
    <2>1. PICK s \in Seq(Octet) : s = WriteVarint[v \div 128]
        BY Seven, VarintType
    <2>2. PICK b \in Octet : b = 128 + (v % 128)
        BY Seven
    <2>3. WriteVarint[v] = <<b>> \o s
        BY <1>2, <2>1, <2>2, VarintSteps
    <2>4. /\ Len(<<b>> \o s) = 1 + Len(s)
          /\ (<<b>> \o s)[1] = b
          /\ \A i \in 1..Len(s) : (<<b>> \o s)[1 + i] = s[i]
        <3>0. <<b>> \in Seq(Octet)
            BY ONLY b \in Octet
        <3>1. PICK o \in Seq(Octet) : o = <<b>>
            BY <3>0
        <3>2. Len(o) = 1 /\ o[1] = b /\ Len(s) \in Nat
            BY <3>1
        <3>3. \A j \in 1..(Len(o) + Len(s)) :
                  (o \o s)[j] = IF j <= Len(o) THEN o[j] ELSE s[j - Len(o)]
            BY ONLY s \in Seq(Octet), o \in Seq(Octet)
        <3>4. Len(o \o s) = Len(o) + Len(s)
            BY ONLY s \in Seq(Octet), o \in Seq(Octet)
        <3>5. 1 \in 1..(1 + Len(s)) /\ \A i \in 1..Len(s) :
                  1 + i \in 1..(1 + Len(s)) /\ ~(1 + i <= 1) /\ (1 + i) - 1 = i
            BY <3>2
        <3> QED
            BY ONLY <3>1, <3>2, <3>3, <3>4, <3>5
    <2>5. PICK w : w = <<b>> \o s
        OBVIOUS
    <2>6. Len(w) = 1 + Len(s) /\ w[1] = b /\ \A i \in 1..Len(s) : w[1 + i] = s[i]
        BY ONLY <2>4, <2>5
    <2>7. WriteVarint[v] = w
        BY <2>3, <2>5
    <2> QED
        BY ONLY v \in Nat, <1>2, <2>1, <2>2, <2>6, <2>7
<1> QED
    BY <1>1, <1>2

-----------------------------------------------------------------------------
(* What WriteVarint writes, ReadVarint reads *)

Most(width) == (width + 6) \div 7

VarintTurn(rest, bytes, p, width, n) ==
    IF n > Most(width) \/ p + n > Len(bytes) THEN [ok |-> FALSE, value |-> 0, used |-> n - 1]
    ELSE IF bytes[p + n] < 128 THEN [ok |-> TRUE, value |-> bytes[p + n], used |-> n]
    ELSE [rest[n + 1] EXCEPT !.value = (bytes[p + n] % 128) + 128 * @]

VarintRest(bytes, p, width) ==
    CHOOSE rest : rest = [n \in 1..(Most(width) + 1) |-> VarintTurn(rest, bytes, p, width, n)]

LEMMA ReadVarintIs ==
    ASSUME NEW bytes, NEW p, NEW width
    PROVE  ReadVarint(bytes, p, width) =
               [ok |-> VarintRest(bytes, p, width)[1].ok,
                value |-> VarintRest(bytes, p, width)[1].value % Power[width],
                pos |-> p + VarintRest(bytes, p, width)[1].used]
BY DEF ReadVarint, VarintRest, Most, VarintTurn

LEMMA OctetNat == \A b \in Octet : b \in Nat /\ b < 256
BY DEF Octet

LEMMA Within ==
    ASSUME NEW p \in Nat, NEW n \in Nat, NEW l \in Nat, n >= 1, p + n <= l
    PROVE  p + n \in 1..l
OBVIOUS

LEMMA VarintRestIs ==
    ASSUME NEW bytes \in Seq(Octet), NEW p \in Nat, NEW width \in Nat
    PROVE  VarintRest(bytes, p, width) = [n \in 1..(Most(width) + 1) |-> VarintTurn(VarintRest(bytes, p, width), bytes, p, width, n)]
<1> DEFINE most == Most(width)
           D == 1..(most + 1)
           S == [ok : BOOLEAN, value : Nat, used : Nat]
           short == {n \in D : n > most \/ p + n > Len(bytes)}
           ends == {n \in D : n \in short \/ bytes[p + n] < 128}
           rank == [n \in D |-> (most + 1) - n]
           prev == [n \in D |-> IF n \in ends THEN n ELSE n + 1]
           base == [n \in D |-> IF n \in short THEN [ok |-> FALSE, value |-> 0, used |-> n - 1]
                                ELSE [ok |-> TRUE, value |-> bytes[p + n], used |-> n]]
           next == [n \in D |-> [r \in S |->
                       IF n \in ends THEN r
                       ELSE [r EXCEPT !.value = (bytes[p + n] % 128) + 128 * r.value]]]
<1>0. most \in Nat
    BY DEF Most
<1> HIDE DEF most
<1>a. ASSUME NEW n \in D, n \notin short
      PROVE  p + n \in 1..Len(bytes) /\ bytes[p + n] \in Octet /\ bytes[p + n] \in Nat
             /\ n \in 1..most
    <2>1. n \in Nat /\ n >= 1 /\ n <= most /\ p + n <= Len(bytes) /\ Len(bytes) \in Nat
        BY <1>0, <1>a
    <2>2. p + n \in 1..Len(bytes)
        BY <2>1, Within
    <2>3. bytes[p + n] \in Octet
        BY <2>2, ElementOfSeq
    <2>4. bytes[p + n] \in Nat
        BY <2>3, OctetNat
    <2> QED
        BY <2>1, <2>2, <2>3, <2>4
<1>b. ASSUME NEW n \in D, n \notin ends
      PROVE  n \notin short /\ n + 1 \in D /\ ~(bytes[p + n] < 128)
    <2>1. n \notin short /\ ~(bytes[p + n] < 128)
        BY <1>b
    <2>2. n \in 1..most
        BY <2>1, <1>a
    <2> QED
        BY <2>1, <2>2, <1>0
<1>1. Closer(D, S, ends, rank, prev, base, next)
    <2>1. rank \in [D -> Nat]
        BY <1>0
    <2>2. prev \in [D -> D]
        <3> HIDE DEF D, ends
        <3> QED
            BY <1>b
    <2>3. base \in [D -> S]
        <3> SUFFICES ASSUME NEW n \in D
                     PROVE  base[n] \in S
            <4> HIDE DEF S
            <4> QED
                OBVIOUS
        <3>1. n \in Nat /\ n - 1 \in Nat
            BY <1>0
        <3>2. CASE n \in short
            BY <3>1, <3>2
        <3>3. CASE n \notin short
            <4>1. bytes[p + n] \in Nat
                BY <3>3, <1>a
            <4>2. base[n] = [ok |-> TRUE, value |-> bytes[p + n], used |-> n]
                <5> HIDE DEF short
                <5> QED
                    BY <3>3
            <4> QED
                BY <3>1, <4>1, <4>2
        <3> QED
            BY <3>2, <3>3
    <2>4. next \in [D -> [S -> S]]
        <3> SUFFICES ASSUME NEW n \in D, NEW r \in S
                     PROVE  (IF n \in ends THEN r
                             ELSE [r EXCEPT !.value = (bytes[p + n] % 128) + 128 * r.value]) \in S
            OBVIOUS
        <3>1. CASE n \in ends
            BY <3>1
        <3>2. CASE n \notin ends
            <4>1. bytes[p + n] \in Nat
                BY <3>2, <1>a, <1>b
            <4>2. (bytes[p + n] % 128) \in Nat
                BY <4>1, Seven
            <4>3. PICK a \in Nat : a = bytes[p + n] % 128
                BY <4>2
            <4>4. r.value \in Nat
                OBVIOUS
            <4>5. a + 128 * r.value \in Nat
                BY <4>4
            <4> QED
                BY <4>3, <4>5, <3>2
        <3> QED
            BY <3>1, <3>2
    <2>5. \A n \in D : n \notin ends => rank[prev[n]] < rank[n]
        <3> SUFFICES ASSUME NEW n \in D, n \notin ends
                     PROVE  rank[prev[n]] < rank[n]
            OBVIOUS
        <3>1. prev[n] = n + 1 /\ n + 1 \in D
            <4> HIDE DEF ends, D
            <4> QED
                BY <1>b
        <3> HIDE DEF prev
        <3> QED
            BY <3>1, <1>0
    <2> HIDE DEF D, S, ends, rank, prev, base, next
    <2> QED
        BY <2>1, <2>2, <2>3, <2>4, <2>5 DEF Closer
<1>2. Solved(D, S, ends, prev, base, next)
    <2> HIDE DEF D, S, ends, rank, prev, base, next
    <2> QED
        BY <1>1, Recursion
<1>3. PICK g \in [D -> S] : \A n \in D :
          g[n] = IF n \in ends THEN base[n] ELSE next[n][g[prev[n]]]
    <2> HIDE DEF D, S, ends, prev, base, next
    <2> QED
        BY <1>2 DEF Solved
<1>4. ASSUME NEW n \in D
      PROVE  g[n] = IF n > most \/ p + n > Len(bytes) THEN [ok |-> FALSE, value |-> 0, used |-> n - 1]
                    ELSE IF bytes[p + n] < 128 THEN [ok |-> TRUE, value |-> bytes[p + n], used |-> n]
                    ELSE [g[n + 1] EXCEPT !.value = (bytes[p + n] % 128) + 128 * @]
    <2>1. CASE n \in short
        <3>1. n \in ends /\ (n > most \/ p + n > Len(bytes))
            BY <2>1
        <3>2. base[n] = [ok |-> FALSE, value |-> 0, used |-> n - 1]
            <4> HIDE DEF short, D
            <4> QED
                BY <2>1
        <3>3. g[n] = base[n]
            <4> HIDE DEF D, base, next, prev, ends
            <4> QED
                BY <1>3, <3>1
        <3> HIDE DEF D, base, next, prev, ends
        <3> QED
            BY <3>1, <3>2, <3>3
    <2>2. CASE n \notin short /\ n \in ends
        <3>1. bytes[p + n] < 128 /\ ~(n > most \/ p + n > Len(bytes))
            BY <2>2
        <3>2. base[n] = [ok |-> TRUE, value |-> bytes[p + n], used |-> n]
            <4> HIDE DEF short, D
            <4> QED
                BY <2>2
        <3>3. g[n] = base[n]
            <4> HIDE DEF D, base, next, prev, ends
            <4> QED
                BY <1>3, <2>2
        <3> HIDE DEF D, base, next, prev, ends
        <3> QED
            BY <3>1, <3>2, <3>3
    <2>3. CASE n \notin ends
        <3>1. ~(bytes[p + n] < 128) /\ ~(n > most \/ p + n > Len(bytes)) /\ n + 1 \in D
            <4>1. n \notin short /\ n + 1 \in D /\ ~(bytes[p + n] < 128)
                <5> HIDE DEF short, D, ends
                <5> QED
                    BY <2>3, <1>b
            <4> HIDE DEF ends
            <4> QED
                BY <4>1
        <3>2. prev[n] = n + 1 /\ g[n + 1] \in S
            <4> HIDE DEF D, S, ends
            <4> QED
                BY <2>3, <3>1
        <3>3. next[n][g[n + 1]] = [g[n + 1] EXCEPT !.value = (bytes[p + n] % 128) + 128 * g[n + 1].value]
            <4> HIDE DEF D, S, ends
            <4> QED
                BY <2>3, <3>2
        <3>4. g[n] = next[n][g[n + 1]]
            <4>1. g[n] = next[n][g[prev[n]]]
                <5> HIDE DEF D, base, next, prev, ends
                <5> QED
                    BY <1>3, <2>3
            <4> HIDE DEF D, base, next, prev, ends
            <4> QED
                BY <4>1, <3>2
        <3> HIDE DEF D, base, next, prev, ends, S
        <3> QED
            BY <3>1, <3>3, <3>4
    <2> HIDE DEF D, base, next, prev, ends, S, short
    <2> QED
        BY <2>1, <2>2, <2>3
<1>5. g = [n \in 1..(Most(width) + 1) |-> VarintTurn(g, bytes, p, width, n)]
    <2>1. DOMAIN g = D /\ g = [n \in D |-> g[n]]
        <3> HIDE DEF D, S
        <3> QED
            OBVIOUS
    <2> QED
        BY <1>4, <2>1 DEF most, VarintTurn
<1> QED
    BY <1>5, Zenon DEF VarintRest

\* s is what the bytes after p begin with.
At(bytes, p, s) ==
    /\ p + Len(s) <= Len(bytes)
    /\ \A i \in 1..Len(s) : bytes[p + i] = s[i]

\* One turn of ReadVarint.
VarintRead(rest, bytes, p, n) ==
    /\ p + n <= Len(bytes) /\ bytes[p + n] < 128 =>
           rest[n] = [ok |-> TRUE, value |-> bytes[p + n], used |-> n]
    /\ p + n <= Len(bytes) /\ ~(bytes[p + n] < 128) =>
           rest[n] = [rest[n + 1] EXCEPT !.value = (bytes[p + n] % 128) + 128 * rest[n + 1].value]
    /\ p + n > Len(bytes) => rest[n] = [ok |-> FALSE, value |-> 0, used |-> n - 1]

LEMMA VarintRestSteps ==
    ASSUME NEW bytes \in Seq(Octet), NEW p \in Nat, NEW width \in Nat,
           NEW n \in 1..Most(width)
    PROVE  VarintRead(VarintRest(bytes, p, width), bytes, p, n)
<1>0. Most(width) \in Nat /\ Len(bytes) \in Nat
    BY DEF Most
<1>1. n \in 1..(Most(width) + 1) /\ ~(n > Most(width)) /\ n \in Nat
    BY <1>0
<1>2. (p + n <= Len(bytes)) = ~(p + n > Len(bytes))
    BY <1>0, <1>1
<1>4. VarintRest(bytes, p, width) =
          [m \in 1..(Most(width) + 1) |-> VarintTurn(VarintRest(bytes, p, width), bytes, p, width, m)]
    BY VarintRestIs
<1>3. VarintRest(bytes, p, width)[n] = VarintTurn(VarintRest(bytes, p, width), bytes, p, width, n)
    BY ONLY <1>1, <1>4, Zenon
<1> QED
    BY <1>1, <1>2, <1>3 DEF VarintTurn, VarintRead

LEMMA RestReads ==
    ASSUME NEW bytes \in Seq(Octet), NEW p \in Nat, NEW width \in Nat
    PROVE  \A v \in Nat : \A n \in 1..(Most(width) + 1), k \in Nat \ {0} :
               k <= 7 * ((Most(width) + 1) - n) /\ v < Power[k] /\ At(bytes, p + (n - 1), WriteVarint[v])
               => VarintRest(bytes, p, width)[n] =
                      [ok |-> TRUE, value |-> v, used |-> (n - 1) + Len(WriteVarint[v])]
<1> DEFINE ReadsBack(v, n, k) ==
               k <= 7 * ((Most(width) + 1) - n) /\ v < Power[k] /\ At(bytes, p + (n - 1), WriteVarint[v])
               => VarintRest(bytes, p, width)[n] =
                      [ok |-> TRUE, value |-> v, used |-> (n - 1) + Len(WriteVarint[v])]
           T == {v \in Nat : \A n \in 1..(Most(width) + 1), k \in Nat \ {0} : ReadsBack(v, n, k)}
<1>0. Most(width) \in Nat /\ Len(bytes) \in Nat
    BY DEF Most
<1>1. ASSUME NEW v \in Nat, \A m \in 0..(v - 1) : m \in T
      PROVE  v \in T
    <2> SUFFICES ASSUME NEW n \in 1..(Most(width) + 1), NEW k \in Nat \ {0},
                        k <= 7 * ((Most(width) + 1) - n), v < Power[k],
                        At(bytes, p + (n - 1), WriteVarint[v])
                 PROVE  VarintRest(bytes, p, width)[n] =
                            [ok |-> TRUE, value |-> v, used |-> (n - 1) + Len(WriteVarint[v])]
        OBVIOUS
    <2> HIDE DEF T
    <2>1. n \in 1..Most(width) /\ n \in Nat /\ n >= 1
        BY <1>0
    <2>2. WriteVarint[v] \in Seq(Octet)
        BY VarintType
    <2>3. Len(WriteVarint[v]) >= 1 /\ Len(WriteVarint[v]) \in Nat
        <3>1. v < 128 => Len(WriteVarint[v]) = 1
            BY VarintFirst
        <3>2. v >= 128 => Len(WriteVarint[v]) = 1 + Len(WriteVarint[v \div 128])
            BY VarintFirst
        <3>3. v \div 128 \in Nat
            BY Seven
        <3>4. WriteVarint[v \div 128] \in Seq(Octet)
            BY <3>3, VarintType
        <3>5. Len(WriteVarint[v]) \in Nat /\ Len(WriteVarint[v \div 128]) \in Nat
            BY <3>4, <2>2
        <3>6. PICK a \in Nat : a = Len(WriteVarint[v])
            BY <3>5
        <3>7. PICK b \in Nat : b = Len(WriteVarint[v \div 128])
            BY <3>5
        <3>8. (v < 128 => a = 1) /\ (v >= 128 => a = 1 + b)
            BY <3>1, <3>2, <3>6, <3>7
        <3>9. a >= 1
            BY <3>8
        <3> QED
            BY <3>6, <3>9
    <2>4. p + n <= Len(bytes) /\ bytes[p + n] = WriteVarint[v][1]
        <3>1. (p + (n - 1)) + Len(WriteVarint[v]) <= Len(bytes)
            BY DEF At
        <3>2. 1 \in 1..Len(WriteVarint[v])
            BY <2>3
        <3>3. bytes[(p + (n - 1)) + 1] = WriteVarint[v][1]
            BY <3>2 DEF At
        <3>4. (p + (n - 1)) + 1 = p + n
            BY <2>1
        <3> QED
            <4>1. bytes[p + n] = WriteVarint[v][1]
                BY ONLY <3>3, <3>4
            <4>2. PICK l \in Nat : l = Len(WriteVarint[v]) /\ l >= 1
                BY <2>3
            <4>3. PICK e \in Nat : e = Len(bytes)
                BY <1>0
            <4>4. (p + (n - 1)) + l <= e
                BY <3>1, <4>2, <4>3
            <4>5. p + n <= e
                <5>1. PICK m \in Nat : m = n
                    BY <2>1
                <5>2. (p + (m - 1)) + l <= e
                    BY <4>4, <5>1
                <5>3. l >= 1
                    BY <4>2
                <5>4. p + m <= e
                    BY ONLY p \in Nat, m \in Nat, l \in Nat, e \in Nat, <5>2, <5>3
                <5> QED
                    BY <5>1, <5>4
            <4> QED
                BY <4>1, <4>3, <4>5
    <2>5. CASE v < 128
        <3>1. Len(WriteVarint[v]) = 1 /\ WriteVarint[v][1] = v
            BY <2>5, VarintFirst
        <3>2. bytes[p + n] < 128 /\ bytes[p + n] = v
            BY <3>1, <2>4, <2>5
        <3>3. VarintRest(bytes, p, width)[n] = [ok |-> TRUE, value |-> v, used |-> n]
            <4>0. p + n <= Len(bytes) /\ bytes[p + n] < 128 =>
                  VarintRest(bytes, p, width)[n] = [ok |-> TRUE, value |-> bytes[p + n], used |-> n]
                <5>1. VarintRead(VarintRest(bytes, p, width), bytes, p, n)
                    BY <2>1, VarintRestSteps
                <5> QED
                    BY <5>1 DEF VarintRead
            <4>1. VarintRest(bytes, p, width)[n] = [ok |-> TRUE, value |-> bytes[p + n], used |-> n]
                BY <3>2, <2>4, <4>0
            <4> QED
                BY <4>1, <3>2
        <3>4. (n - 1) + Len(WriteVarint[v]) = n
            BY <3>1, <2>1
        <3> QED
            BY <3>3, <3>4
    <2>6. CASE v >= 128
        <3> DEFINE u == v \div 128
                   w == WriteVarint[u]
        <3>1. u \in Nat /\ u \in 0..(v - 1) /\ v = 128 * u + (v % 128) /\ (v % 128) \in 0..127
            BY <2>6, Seven
        <3>2. /\ Len(WriteVarint[v]) = 1 + Len(w)
              /\ WriteVarint[v][1] = 128 + (v % 128)
              /\ \A i \in 1..Len(w) : WriteVarint[v][1 + i] = w[i]
            BY <2>6, VarintFirst
        <3>3. w \in Seq(Octet) /\ Len(w) \in Nat
            BY <3>1, VarintType
        <3> HIDE DEF u, w
        <3>4. k > 7
            <4> SUFFICES ASSUME k <= 7
                         PROVE  FALSE
                OBVIOUS
            <4>0. k \in Nat /\ 7 \in Nat
                OBVIOUS
            <4>1. Power[k] <= Power[7] /\ Power[k] \in Nat
                <5> HIDE DEF T
                <5> QED
                    BY <4>0, PowerGrows, PowerType
            <4>2. Power[7] = 128
                BY PowerSeven
            <4> QED
                BY <4>1, <4>2, <2>6
        <3>5. k - 7 \in Nat \ {0} /\ (k - 7) + 7 = k
            BY <3>4
        <3>6. u < Power[k - 7]
            <4>1. Power[(k - 7) + 7] = 128 * Power[k - 7]
                BY <3>5, PowerSeven
            <4>2. Power[k - 7] \in Nat
                <5> HIDE DEF T
                <5> QED
                    BY <3>5, PowerType
            <4>3. PICK a \in Nat : a = Power[k - 7]
                BY <4>2
            <4>4. v < 128 * a
                BY <4>1, <4>3, <3>5
            <4>5. PICK r \in 0..127 : r = v % 128
                BY <3>1
            <4>6. v = 128 * u + r
                BY <3>1, <4>5
            <4>7. u < a
                BY <4>4, <4>6, <3>1
            <4> QED
                BY <4>7, <4>3
        <3>7. n + 1 \in 1..(Most(width) + 1) /\ k - 7 <= 7 * ((Most(width) + 1) - (n + 1))
              /\ (n + 1) - 1 = n
            BY <2>1, <3>5, <1>0
        <3>8. At(bytes, p + ((n + 1) - 1), w)
            <4>1. (p + (n - 1)) + Len(WriteVarint[v]) <= Len(bytes)
                BY DEF At
            <4>2. p + n + Len(w) <= Len(bytes)
                BY <4>1, <3>2, <3>3, <2>1, <1>0
            <4>3. ASSUME NEW i \in 1..Len(w)
                  PROVE  bytes[(p + n) + i] = w[i]
                <5>1. 1 + i \in 1..Len(WriteVarint[v])
                    BY <3>2, <3>3
                <5>2. bytes[(p + (n - 1)) + (1 + i)] = WriteVarint[v][1 + i]
                    BY <5>1 DEF At
                <5>3. (p + (n - 1)) + (1 + i) = (p + n) + i
                    BY <2>1, <3>3
                <5> QED
                    BY <5>2, <5>3, <3>2
            <4> QED
                BY <4>2, <4>3, <3>7 DEF At
        <3>9. u \in T
            BY <3>1, <1>1
        <3>10. VarintRest(bytes, p, width)[n + 1] = [ok |-> TRUE, value |-> u, used |-> ((n + 1) - 1) + Len(w)]
            <4>1. ReadsBack(u, n + 1, k - 7)
                <5> HIDE DEF ReadsBack
                <5> QED
                    BY <3>9, <3>7, <3>5 DEF T
            <4> QED
                BY <4>1, <3>6, <3>7, <3>8 DEF w, ReadsBack
        <3>11. bytes[p + n] = 128 + (v % 128) /\ ~(bytes[p + n] < 128)
            BY <2>4, <3>2, <3>1
        <3>12. VarintRest(bytes, p, width)[n] =
                  [VarintRest(bytes, p, width)[n + 1] EXCEPT !.value =
                      (bytes[p + n] % 128) + 128 * VarintRest(bytes, p, width)[n + 1].value]
            <4>1. p + n <= Len(bytes) /\ ~(bytes[p + n] < 128) =>
                  VarintRest(bytes, p, width)[n] =
                      [VarintRest(bytes, p, width)[n + 1] EXCEPT !.value =
                          (bytes[p + n] % 128) + 128 * VarintRest(bytes, p, width)[n + 1].value]
                <5>1. VarintRead(VarintRest(bytes, p, width), bytes, p, n)
                    BY <2>1, VarintRestSteps
                <5> QED
                    BY <5>1 DEF VarintRead
            <4> QED
                BY <3>11, <2>4, <4>1
        <3>13. (bytes[p + n] % 128) = v % 128
            BY <3>11, Seven
        <3>14. (bytes[p + n] % 128) + 128 * u = v
            BY <3>13, <3>1
        <3>15. ((n + 1) - 1) + Len(w) = (n - 1) + Len(WriteVarint[v])
            BY <3>2, <3>3, <2>1
        <3> HIDE DEF T
        <3>16. VarintRest(bytes, p, width)[n] = [ok |-> TRUE, value |-> v, used |-> ((n + 1) - 1) + Len(w)]
            <4>1. PICK r : r = VarintRest(bytes, p, width)[n + 1]
                OBVIOUS
            <4>2. PICK b : b = ((n + 1) - 1) + Len(w)
                OBVIOUS
            <4>3. r = [ok |-> TRUE, value |-> u, used |-> b]
                BY <3>10, <4>1, <4>2
            <4>4. VarintRest(bytes, p, width)[n] = [r EXCEPT !.value = (bytes[p + n] % 128) + 128 * r.value]
                BY <3>12, <4>1
            <4>5. VarintRest(bytes, p, width)[n] = [r EXCEPT !.value = v]
                BY <4>3, <4>4, <3>14
            <4> QED
                BY <4>2, <4>3, <4>5
        <3> QED
            BY <3>15, <3>16
    <2> QED
        BY <2>5, <2>6
<1> HIDE DEF T
<1>2. \A v \in Nat : v \in T
    BY <1>1, Induction
<1> QED
    BY <1>2 DEF T

LEMMA Below == ASSUME NEW v \in Nat, NEW a \in Nat, v < a PROVE v % a = v
<1>1. v = a * 0 + v
    OBVIOUS
<1> QED
    OBVIOUS

\* ReadVarint reads the number that is written after p, if it fits the integer, and
\* ends behind it.
LEMMA VarintBack ==
    ASSUME NEW bytes \in Seq(Octet), NEW p \in Nat, NEW width \in Nat \ {0},
           NEW v \in Nat, v < Power[width], At(bytes, p, WriteVarint[v])
    PROVE  ReadVarint(bytes, p, width) =
               [ok |-> TRUE, value |-> v, pos |-> p + Len(WriteVarint[v])]
<1>1. Most(width) \in Nat /\ 1 \in 1..(Most(width) + 1) /\ width <= 7 * ((Most(width) + 1) - 1)
    BY DEF Most
<1>2. p + (1 - 1) = p
    OBVIOUS
<1>3. VarintRest(bytes, p, width)[1] = [ok |-> TRUE, value |-> v, used |-> (1 - 1) + Len(WriteVarint[v])]
    <2>1. \A n \in 1..(Most(width) + 1), k \in Nat \ {0} :
               k <= 7 * ((Most(width) + 1) - n) /\ v < Power[k] /\ At(bytes, p + (n - 1), WriteVarint[v])
               => VarintRest(bytes, p, width)[n] =
                      [ok |-> TRUE, value |-> v, used |-> (n - 1) + Len(WriteVarint[v])]
        BY RestReads
    <2> QED
        BY <2>1, <1>1, <1>2
<1>4. (1 - 1) + Len(WriteVarint[v]) = Len(WriteVarint[v])
    BY VarintType
<1>5. v % Power[width] = v
    <2>1. PICK a \in Nat \ {0} : a = Power[width]
        BY PowerType
    <2>2. v % a = v
        BY <2>1, Below
    <2> QED
        BY <2>1, <2>2
<1>6. ReadVarint(bytes, p, width) =
               [ok |-> VarintRest(bytes, p, width)[1].ok,
                value |-> VarintRest(bytes, p, width)[1].value % Power[width],
                pos |-> p + VarintRest(bytes, p, width)[1].used]
    BY ReadVarintIs
<1>7. PICK r : r = VarintRest(bytes, p, width)[1]
    OBVIOUS
<1>8. r.ok = TRUE /\ r.value = v /\ r.used = Len(WriteVarint[v])
    BY <1>3, <1>4, <1>7
<1> QED
    BY <1>5, <1>6, <1>7, <1>8

-----------------------------------------------------------------------------
(* What Serialize writes, ReadField reads *)

LEMMA AtSplit ==
    ASSUME NEW bytes \in Seq(Octet), NEW p \in Nat, NEW a \in Seq(Octet), NEW b \in Seq(Octet),
           At(bytes, p, a \o b)
    PROVE  At(bytes, p, a) /\ At(bytes, p + Len(a), b)
<1>0. a \o b \in Seq(Octet)
    BY ONLY a \in Seq(Octet), b \in Seq(Octet)
<1>1. PICK c \in Seq(Octet) : c = a \o b
    BY <1>0
<1>2. /\ Len(c) = Len(a) + Len(b)
      /\ \A i \in 1..Len(a) : c[i] = a[i]
      /\ \A i \in 1..Len(b) : c[Len(a) + i] = b[i]
    BY <1>1
<1>3. Len(a) \in Nat /\ Len(b) \in Nat /\ Len(bytes) \in Nat
    OBVIOUS
<1>4. p + Len(c) <= Len(bytes) /\ \A i \in 1..Len(c) : bytes[p + i] = c[i]
    BY <1>1 DEF At
<1>5. \A i \in 1..Len(a) : bytes[p + i] = a[i]
    <2>1. \A i \in 1..Len(a) : i \in 1..Len(c)
        BY <1>2, <1>3
    <2> QED
        BY <2>1, <1>2, <1>4
<1>6. \A i \in 1..Len(b) : bytes[(p + Len(a)) + i] = b[i]
    <2>1. \A i \in 1..Len(b) : Len(a) + i \in 1..Len(c) /\ p + (Len(a) + i) = (p + Len(a)) + i
        BY <1>2, <1>3
    <2> QED
        BY <2>1, <1>2, <1>4
<1>7. p + Len(a) <= Len(bytes) /\ (p + Len(a)) + Len(b) <= Len(bytes)
    BY <1>2, <1>3, <1>4
<1> QED
    BY <1>5, <1>6, <1>7 DEF At

Kinds == {"bool", "uint8", "uint32", "uint64", "string"}

LEMMA Widths ==
    /\ Width32 \in Nat \ {0} /\ Width64 \in Nat \ {0}
    /\ Power[Width32] \in Nat /\ Power[Width64] \in Nat
    /\ 512 <= Power[Width32] /\ Power[Width32] <= Power[Width64]
<1>1. Width32 \in Nat \ {0} /\ Width64 \in Nat \ {0} /\ 9 <= Width32 /\ Width32 <= Width64
    BY WidthAssumption
<1>2. Power[0] = 1 /\ Power[0 + 1] = 2 * Power[0] /\ Power[1 + 1] = 2 * Power[1]
    BY PowerSteps
<1>3. Power[2 + 7] = 128 * Power[2]
    BY PowerSeven
<1>4. Power[9] = 512
    <2>1. 0 + 1 = 1 /\ 1 + 1 = 2 /\ 2 + 7 = 9
        OBVIOUS
    <2>2. Power[1] = 2
        BY <1>2, <2>1
    <2>3. Power[2] = 4
        BY <1>2, <2>1, <2>2
    <2> QED
        BY <1>3, <2>1, <2>3
<1>5. Power[Width32] \in Nat /\ Power[Width64] \in Nat
    BY <1>1, PowerType
<1>6. Power[9] <= Power[Width32] /\ Power[Width32] <= Power[Width64]
    BY <1>1, PowerGrows
<1> QED
    BY <1>1, <1>4, <1>5, <1>6

\* What follows the tag of a field.
Body(kind, v) == IF kind = "string" THEN WriteVarint[Len(v)] \o v ELSE WriteVarint[v]

LEMMA ValueTypes ==
    ASSUME NEW kind \in Kinds, NEW v \in Values(kind)
    PROVE  /\ kind = "bool" => v \in {0, 1}
           /\ kind = "uint8" => v \in Octet
           /\ kind = "uint32" => v \in Nat /\ v < Power[Width32]
           /\ kind = "uint64" => v \in Nat /\ v < Power[Width64]
           /\ kind = "string" => v \in Seq(Octet) /\ Len(v) < Power[Width64]
           /\ kind # "string" => v \in Nat /\ v < Power[Width64]
           /\ kind \in {"bool", "uint8"} => v \in Nat /\ v < Power[Width32]
<1>0. Power[Width32] \in Nat /\ Power[Width64] \in Nat
      /\ 512 <= Power[Width32] /\ Power[Width32] <= Power[Width64]
    BY Widths
<1>1. CASE kind = "bool"
    BY <1>0, <1>1 DEF Values
<1>2. CASE kind = "uint8"
    BY <1>0, <1>2 DEF Values, Octet
<1>3. CASE kind = "uint32"
    BY <1>0, <1>3 DEF Values
<1>4. CASE kind = "uint64"
    BY <1>0, <1>4 DEF Values
<1>5. CASE kind = "string"
    BY <1>0, <1>5 DEF Values
<1> QED
    BY <1>1, <1>2, <1>3, <1>4, <1>5 DEF Kinds

LEMMA BodyType ==
    ASSUME NEW kind \in Kinds, NEW v \in Values(kind)
    PROVE  Body(kind, v) \in Seq(Octet)
<1>1. CASE kind = "string"
    <2>1. v \in Seq(Octet) /\ Len(v) \in Nat
        BY <1>1, ValueTypes
    <2>2. PICK w \in Seq(Octet) : w = WriteVarint[Len(v)]
        BY <2>1, VarintType
    <2>3. w \o v \in Seq(Octet)
        BY ONLY <2>1, w \in Seq(Octet)
    <2> QED
        BY <1>1, <2>2, <2>3 DEF Body
<1>2. CASE kind # "string"
    <2>1. v \in Nat
        BY <1>2, ValueTypes
    <2> QED
        BY <1>2, <2>1, VarintType DEF Body
<1> QED
    BY <1>1, <1>2

\* The key of a tag and a wire type fits the varint of a uint32_t and gives them back.
LEMMA KeyBack ==
    ASSUME NEW tag \in 1..13, NEW kind
    PROVE  /\ MakeTagWireType(tag, WireType(kind)) \in Nat
           /\ MakeTagWireType(tag, WireType(kind)) < Power[Width32]
           /\ ReadTagWireType(MakeTagWireType(tag, WireType(kind)))
                  = [tag |-> tag, wire |-> WireType(kind)]
<1>1. PICK w \in {0, 2} : w = WireType(kind)
    BY DEF WireType
<1>2. 8 * tag + w \in Nat /\ 8 * tag + w < 512
    OBVIOUS
<1>3. (8 * tag + w) \div 8 = tag /\ (8 * tag + w) % 8 = w
    OBVIOUS
<1>4. 512 <= Power[Width32] /\ Power[Width32] \in Nat
    BY Widths
<1> QED
    BY <1>1, <1>2, <1>3, <1>4 DEF MakeTagWireType, ReadTagWireType

\* The value of a field is read back, whatever the field held before.
LEMMA BodyBack ==
    ASSUME in \in Seq(Octet), NEW p \in Nat, NEW kind \in Kinds, NEW v \in Values(kind),
           NEW old, At(in, p, Body(kind, v))
    PROVE  Parse(kind, WireType(kind), p, old) = [value |-> v, pos |-> p + Len(Body(kind, v))]
<1>0. Width32 \in Nat \ {0} /\ Width64 \in Nat \ {0}
    BY Widths
<1>1. CASE kind \in {"uint32", "uint64"}
    <2>1. PICK width \in {Width32, Width64} : width = IF kind = "uint32" THEN Width32 ELSE Width64
        OBVIOUS
    <2>2. v \in Nat /\ v < Power[width] /\ width \in Nat \ {0}
        BY <1>0, <1>1, <2>1, ValueTypes
    <2>3. Body(kind, v) = WriteVarint[v]
        BY <1>1 DEF Body
    <2>4. ReadVarint(in, p, width) = [ok |-> TRUE, value |-> v, pos |-> p + Len(WriteVarint[v])]
        BY <2>2, <2>3, VarintBack
    <2>5. ParseInteger(kind, p) = [value |-> v, pos |-> p + Len(WriteVarint[v])]
        BY <2>1, <2>4 DEF ParseInteger
    <2>6. Parse(kind, WireType(kind), p, old) = ParseInteger(kind, p)
        BY <1>1 DEF Parse
    <2> QED
        BY <2>3, <2>5, <2>6
<1>2. CASE kind \in {"bool", "uint8"}
    <2>1. v \in Nat /\ v < Power[Width32] /\ (kind = "bool" => v \in {0, 1}) /\ (kind = "uint8" => v \in Octet)
        BY <1>2, ValueTypes
    <2>2. Body(kind, v) = WriteVarint[v]
        BY <1>2 DEF Body
    <2>3. ReadVarint(in, p, Width32) = [ok |-> TRUE, value |-> v, pos |-> p + Len(WriteVarint[v])]
        BY <1>0, <2>1, <2>2, VarintBack
    <2>4. kind = "uint8" => v % 256 = v
        BY <2>1 DEF Octet
    <2>5. kind = "bool" => v = (IF v = 0 THEN 0 ELSE 1)
        BY <2>1
    <2>6. ParseNarrow(kind, p, old) = [value |-> v, pos |-> p + Len(WriteVarint[v])]
        BY <1>2, <2>3, <2>4, <2>5 DEF ParseNarrow
    <2>7. Parse(kind, WireType(kind), p, old) = ParseNarrow(kind, p, old)
        BY <1>2 DEF Parse
    <2> QED
        BY <2>2, <2>6, <2>7
<1>3. CASE kind = "string"
    <2>1. v \in Seq(Octet) /\ Len(v) \in Nat /\ Len(v) < Power[Width64]
        BY <1>3, ValueTypes
    <2>2. PICK w \in Seq(Octet) : w = WriteVarint[Len(v)]
        BY <2>1, VarintType
    <2>3. Body(kind, v) = w \o v
        BY <1>3, <2>2 DEF Body
    <2>4. At(in, p, w) /\ At(in, p + Len(w), v)
        BY <2>1, <2>3, AtSplit
    <2>5. ReadVarint(in, p, Width64) = [ok |-> TRUE, value |-> Len(v), pos |-> p + Len(w)]
        BY <1>0, <2>1, <2>2, <2>4, VarintBack
    <2>6. PICK q \in Nat : q = p + Len(w)
        OBVIOUS
    <2>7. q + Len(v) <= Len(in) /\ \A i \in 1..Len(v) : in[q + i] = v[i]
        BY <2>4, <2>6 DEF At
    <2>8. Len(v) \in Nat /\ Len(in) \in Nat /\ (Len(v) < Len(in) - q \/ Len(v) = Len(in) - q)
        BY <2>1, <2>7
    <2>9. (IF Len(v) < Len(in) - q THEN Len(v) ELSE Len(in) - q) = Len(v)
        BY <2>8
    <2>10. ParseString(p, old) =
               [value |-> [i \in 1..Len(v) |-> IF i <= Len(v) THEN in[q + i] ELSE 0],
                pos |-> q + Len(v)]
        <3>1. PICK r : r = ReadVarint(in, p, Width64)
            OBVIOUS
        <3>2. r.ok = TRUE /\ r.value = Len(v) /\ r.pos = q
            BY <3>1, <2>5, <2>6
        <3>3. ParseString(p, old) =
                  IF ~r.ok THEN [value |-> old, pos |-> r.pos]
                  ELSE [value |-> [i \in 1..r.value |->
                                      IF i <= (IF r.value < Len(in) - r.pos THEN r.value ELSE Len(in) - r.pos)
                                      THEN in[r.pos + i] ELSE 0],
                        pos |-> r.pos + (IF r.value < Len(in) - r.pos THEN r.value ELSE Len(in) - r.pos)]
            BY <3>1 DEF ParseString
        <3> QED
            BY <3>2, <3>3, <2>9
    <2>11. [i \in 1..Len(v) |-> IF i <= Len(v) THEN in[q + i] ELSE 0] = v
        <3>1. \A i \in 1..Len(v) : (IF i <= Len(v) THEN in[q + i] ELSE 0) = v[i]
            BY <2>7, <2>8
        <3>2. v = [i \in 1..Len(v) |-> v[i]]
            BY <2>1
        <3> QED
            BY <3>1, <3>2
    <2>12. Parse(kind, WireType(kind), p, old) = ParseString(p, old)
        BY <1>3 DEF Parse
    <2>13. q + Len(v) = p + Len(w \o v)
        BY <2>1, <2>6
    <2> QED
        BY <2>3, <2>10, <2>11, <2>12, <2>13
<1> QED
    BY <1>1, <1>2, <1>3 DEF Kinds

\* At p a field is read whole: its tag, its value, and the reader is behind it.
FieldRead(p, kind, tag, v, old) ==
    LET key == ReadVarint(in, p, Width32)
        t == ReadTagWireType(key.value)
    IN /\ key.ok
       /\ t = [tag |-> tag, wire |-> WireType(kind)]
       /\ Parse(kind, t.wire, key.pos, old) = [value |-> v, pos |-> p + Len(Serialize(kind, tag, v))]

LEMMA FieldBack ==
    ASSUME in \in Seq(Octet), NEW p \in Nat, NEW kind \in Kinds, NEW v \in Values(kind),
           NEW tag \in 1..13, NEW old, At(in, p, Serialize(kind, tag, v))
    PROVE  FieldRead(p, kind, tag, v, old)
<1>1. PICK k \in Nat : k = MakeTagWireType(tag, WireType(kind))
    BY KeyBack
<1>2. k < Power[Width32] /\ ReadTagWireType(k) = [tag |-> tag, wire |-> WireType(kind)]
    BY <1>1, KeyBack
<1>3. PICK a \in Seq(Octet) : a = WriteVarint[k]
    BY VarintType
<1>4. PICK b \in Seq(Octet) : b = Body(kind, v)
    BY BodyType
<1>5. Serialize(kind, tag, v) = a \o b
    BY <1>1, <1>3, <1>4 DEF Serialize, Body
<1>6. At(in, p, a) /\ At(in, p + Len(a), b)
    BY <1>5, AtSplit
<1>7. Width32 \in Nat \ {0}
    BY Widths
<1>8. ReadVarint(in, p, Width32) = [ok |-> TRUE, value |-> k, pos |-> p + Len(a)]
    BY <1>2, <1>3, <1>6, <1>7, VarintBack
<1>9. PICK q \in Nat : q = p + Len(a)
    OBVIOUS
<1>10. Parse(kind, WireType(kind), q, old) = [value |-> v, pos |-> q + Len(b)]
    BY <1>4, <1>6, <1>9, BodyBack
<1>11. q + Len(b) = p + Len(a \o b)
    BY <1>9
<1>12. PICK r : r = ReadVarint(in, p, Width32)
    OBVIOUS
<1>13. r.ok = TRUE /\ r.value = k /\ r.pos = q
    BY <1>8, <1>9, <1>12
<1> QED
    BY <1>2, <1>5, <1>10, <1>11, <1>12, <1>13 DEF FieldRead

LEMMA SerializeType ==
    ASSUME NEW kind \in Kinds, NEW v \in Values(kind), NEW tag \in 1..13
    PROVE  Serialize(kind, tag, v) \in Seq(Octet) /\ Len(Serialize(kind, tag, v)) \in Nat
<1>1. PICK k \in Nat : k = MakeTagWireType(tag, WireType(kind))
    BY KeyBack
<1>2. PICK a \in Seq(Octet) : a = WriteVarint[k]
    BY VarintType
<1>3. PICK b \in Seq(Octet) : b = Body(kind, v)
    BY BodyType
<1>4. Serialize(kind, tag, v) = a \o b
    BY <1>1, <1>2, <1>3 DEF Serialize, Body
<1>5. a \o b \in Seq(Octet) /\ Len(a \o b) \in Nat
    BY ONLY a \in Seq(Octet), b \in Seq(Octet)
<1> QED
    BY <1>4, <1>5

LEMMA MessageKinds ==
    ASSUME NEW t \in Types
    PROVE  /\ MessageType[t] \in Seq(Kinds)
           /\ Len(MessageType[t]) \in 4..13
           /\ DOMAIN MessageType[t] = 1..Len(MessageType[t])
           /\ \A f \in DOMAIN MessageType[t] : MessageType[t][f] \in Kinds /\ f \in 1..13
           /\ t = "SessionHandShake" => Len(MessageType[t]) = 6 /\ MessageType[t][BufField] = "string"
<1>1. t \in {"PayloadProtect", "SessionHandShake", "TransferPayload", "FileMode", "TransferConfig"}
    BY DEF Types, MessageType
<1>2. /\ PayloadProtect \in Seq(Kinds) /\ Len(PayloadProtect) = 4
      /\ SessionHandShake \in Seq(Kinds) /\ Len(SessionHandShake) = 6 /\ SessionHandShake[5] = "string"
      /\ TransferPayload \in Seq(Kinds) /\ Len(TransferPayload) = 4
      /\ FileMode \in Seq(Kinds) /\ Len(FileMode) = 5
      /\ TransferConfig \in Seq(Kinds) /\ Len(TransferConfig) = 13
    BY DEF PayloadProtect, SessionHandShake, TransferPayload, FileMode, TransferConfig, Kinds
<1>3. PICK s \in Seq(Kinds) : s = MessageType[t] /\ Len(s) \in 4..13
                              /\ (t = "SessionHandShake" => Len(s) = 6 /\ s[5] = "string")
    BY <1>1, <1>2 DEF MessageType
<1>4. DOMAIN s = 1..Len(s) /\ \A f \in 1..Len(s) : s[f] \in Kinds /\ f \in 1..13
    <2>1. DOMAIN s = 1..Len(s)
        OBVIOUS
    <2>2. \A f \in 1..Len(s) : s[f] \in Kinds
        BY ElementOfSeq
    <2>4. PICK l \in 4..13 : l = Len(s)
        BY <1>3
    <2>3. \A f \in 1..l : f \in 1..13
        OBVIOUS
    <2> QED
        BY <2>1, <2>2, <2>3, <2>4
<1> QED
    BY <1>3, <1>4 DEF BufField

-----------------------------------------------------------------------------
(* Tagged values are strings *)

LEMMA Ten ==
    ASSUME NEW n \in Nat
    PROVE  /\ n \div 10 \in Nat
           /\ n % 10 \in 0..9
           /\ n = 10 * (n \div 10) + (n % 10)
           /\ n >= 10 => n \div 10 < n
           /\ (48 + (n % 10)) \in Octet \ {Space}
<1>1. n \div 10 \in Nat /\ n % 10 \in 0..9 /\ n = 10 * (n \div 10) + (n % 10)
    OBVIOUS
<1>2. n >= 10 => n \div 10 < n
    BY <1>1
<1>3. PICK r \in 0..9 : r = n % 10
    BY <1>1
<1>4. 48 + r \in 0..255 /\ 48 + r # 32
    OBVIOUS
<1> QED
    BY <1>1, <1>2, <1>3, <1>4 DEF Octet, Space

\* The characters of a number and of a tag: all but the space.
Letter == Octet \ {Space}

LEMMA DigitsIs ==
    Digits = [n \in Nat |-> IF n < 10 THEN <<48 + n>>
                           ELSE Append(Digits[n \div 10], 48 + (n % 10))]
<1> DEFINE S == Seq(Letter)
           ends == {n \in Nat : n < 10}
           rank == [n \in Nat |-> n]
           prev == [n \in Nat |-> n \div 10]
           base == [n \in Nat |-> IF n < 10 THEN <<48 + n>> ELSE <<>>]
           next == [n \in Nat |-> [s \in S |-> Append(s, 48 + (n % 10))]]
<1>1. Closer(Nat, S, ends, rank, prev, base, next)
    <2>1. prev \in [Nat -> Nat] /\ rank \in [Nat -> Nat]
        BY Ten
    <2>2. base \in [Nat -> S]
        <3>1. \A n \in Nat : n < 10 => 48 + n \in Letter
            BY DEF Octet, Space, Letter
        <3>2. \A b \in Letter : <<b>> \in Seq(Letter)
            OBVIOUS
        <3>3. <<>> \in Seq(Letter)
            OBVIOUS
        <3> QED
            BY <3>1, <3>2, <3>3
    <2>3. next \in [Nat -> [S -> S]]
        <3> SUFFICES ASSUME NEW n \in Nat, NEW s \in S
                     PROVE  Append(s, 48 + (n % 10)) \in S
            OBVIOUS
        <3>1. PICK b \in Letter : b = 48 + (n % 10)
            BY Ten DEF Letter
        <3>2. Append(s, b) \in Seq(Letter)
            BY ONLY s \in Seq(Letter), b \in Letter
        <3> QED
            BY <3>1, <3>2
    <2>4. \A n \in Nat : n \notin ends => rank[prev[n]] < rank[n]
        BY Ten
    <2> HIDE DEF S, ends, rank, prev, base, next
    <2> QED
        BY <2>1, <2>2, <2>3, <2>4 DEF Closer
<1>2. Solved(Nat, S, ends, prev, base, next)
    <2> HIDE DEF S, ends, rank, prev, base, next
    <2> QED
        BY <1>1, Recursion
<1>3. PICK g \in [Nat -> S] : \A n \in Nat :
          g[n] = IF n \in ends THEN base[n] ELSE next[n][g[prev[n]]]
    <2> HIDE DEF S, ends, prev, base, next
    <2> QED
        BY <1>2 DEF Solved
<1>4. ASSUME NEW n \in Nat
      PROVE  g[n] = IF n < 10 THEN <<48 + n>> ELSE Append(g[n \div 10], 48 + (n % 10))
    <2>1. CASE n < 10
        <3>1. n \in ends /\ base[n] = <<48 + n>>
            BY <2>1
        <3> HIDE DEF ends, base, next, prev
        <3> QED
            BY <3>1, <1>3, <2>1
    <2>2. CASE ~(n < 10)
        <3>1. n \div 10 \in Nat /\ prev[n] = n \div 10 /\ g[n \div 10] \in S /\ n \notin ends
            BY <2>2, Ten
        <3>2. next[n][g[n \div 10]] = Append(g[n \div 10], 48 + (n % 10))
            BY <3>1
        <3>3. g[n] = next[n][g[prev[n]]]
            <4> HIDE DEF ends, prev, next
            <4> QED
                BY <1>3, <3>1
        <3> HIDE DEF next, prev, ends, base
        <3> QED
            BY <3>1, <3>2, <3>3, <2>2
    <2> QED
        BY <2>1, <2>2
<1>5. g = [n \in Nat |-> IF n < 10 THEN <<48 + n>> ELSE Append(g[n \div 10], 48 + (n % 10))]
    BY <1>4
<1> QED
    BY <1>5, Zenon DEF Digits

LEMMA DigitsSteps ==
    ASSUME NEW n \in Nat
    PROVE  /\ n < 10 => Digits[n] = <<48 + n>>
           /\ n >= 10 => Digits[n] = Append(Digits[n \div 10], 48 + (n % 10))
<1>1. Digits[n] = IF n < 10 THEN <<48 + n>> ELSE Append(Digits[n \div 10], 48 + (n % 10))
    BY DigitsIs
<1> QED
    BY <1>1

LEMMA DigitsType == \A n \in Nat : Digits[n] \in Seq(Letter)
<1> DEFINE T == {n \in Nat : Digits[n] \in Seq(Letter)}
<1>1. ASSUME NEW n \in Nat, \A m \in 0..(n - 1) : m \in T
      PROVE  n \in T
    <2>1. CASE n < 10
        <3>1. 48 + n \in Letter
            BY <2>1 DEF Octet, Space, Letter
        <3>2. <<48 + n>> \in Seq(Letter)
            BY <3>1
        <3>3. Digits[n] = <<48 + n>>
            BY <2>1, DigitsSteps
        <3> QED
            BY <3>2, <3>3
    <2>2. CASE n >= 10
        <3>1. n \div 10 \in 0..(n - 1)
            BY <2>2, Ten
        <3>2. Digits[n \div 10] \in Seq(Letter)
            BY <3>1, <1>1
        <3> HIDE DEF T
        <3>3. PICK b \in Letter : b = 48 + (n % 10)
            BY Ten DEF Letter
        <3>4. Digits[n] = Append(Digits[n \div 10], 48 + (n % 10))
            BY <2>2, DigitsSteps
        <3>5. PICK s \in Seq(Letter) : s = Digits[n \div 10]
            BY <3>2
        <3>6. Append(s, b) \in Seq(Letter)
            BY ONLY b \in Letter, s \in Seq(Letter)
        <3>7. Digits[n] \in Seq(Letter)
            BY <3>3, <3>4, <3>5, <3>6
        <3> QED
            BY <3>7 DEF T
    <2> QED
        BY <2>1, <2>2
<1> HIDE DEF T
<1>2. \A n \in Nat : n \in T
    BY <1>1, Induction
<1> QED
    BY <1>2 DEF T

\* A word filled up with spaces.
LEMMA PadType ==
    ASSUME NEW s \in Seq(Octet), NEW n \in Nat
    PROVE  /\ Pad(s, n) \in Seq(Octet)
           /\ Len(s) <= n => Len(Pad(s, n)) = n
           /\ \A i \in 1..Len(s) : Pad(s, n)[i] = s[i]
           /\ \A i \in 1..n : i > Len(s) => Pad(s, n)[i] = Space
<1>1. PICK m \in Nat : m = (IF Len(s) < n THEN n ELSE Len(s)) /\ m >= n /\ m >= Len(s)
                       /\ (Len(s) <= n => m = n)
    <2>1. Len(s) \in Nat
        OBVIOUS
    <2> QED
        BY <2>1
<1>2. Space \in Octet
    BY DEF Space, Octet
<1>3. \A i \in 1..m : i <= Len(s) => i \in 1..Len(s) /\ s[i] \in Octet
    BY <1>1, ElementOfSeq
<1>4. PICK p : p = [i \in 1..m |-> IF i <= Len(s) THEN s[i] ELSE Space]
    OBVIOUS
<1>5. p \in [1..m -> Octet]
    BY <1>2, <1>3, <1>4
<1>6. p \in Seq(Octet) /\ Len(p) = m
    BY <1>5
<1>7. Pad(s, n) = p
    BY <1>1, <1>4 DEF Pad
<1>8. Len(s) \in Nat
    OBVIOUS
<1>9. \A i \in 1..Len(s) : p[i] = s[i]
    BY <1>1, <1>4, <1>8
<1>10. \A i \in 1..n : i > Len(s) => p[i] = Space
    BY <1>1, <1>4, <1>8
<1> QED
    BY <1>1, <1>6, <1>7, <1>9, <1>10

LEMMA LetterSeq == ASSUME NEW s \in Seq(Letter) PROVE s \in Seq(Octet)
<1>1. \A i \in 1..Len(s) : s[i] \in Letter
    BY ElementOfSeq
<1>2. \A x \in Letter : x \in Octet
    BY DEF Letter
<1>3. s \in [1..Len(s) -> Octet] /\ Len(s) \in Nat
    BY <1>1, <1>2
<1> QED
    BY <1>3

LEMMA ListsType ==
    ASSUME NEW ps \in Lists
    PROVE  /\ ps \in Seq(Tags \X Vals) /\ Len(ps) \in 0..MaxPairs /\ Len(ps) \in Nat
           /\ \A n \in 1..Len(ps) :
                  /\ ps[n][1] \in Tags /\ ps[n][1] \in Seq(Letter) /\ ps[n][1] \in Seq(Octet)
                  /\ ps[n][2] \in Vals /\ ps[n][2] \in Seq(Octet)
<1>1. PICK n \in 0..MaxPairs : ps \in [1..n -> Tags \X Vals]
    BY DEF Lists
<1>2. MaxPairs \in Nat
    BY WidthAssumption
<1>3. n \in Nat
    BY <1>2
<1>4. ps \in Seq(Tags \X Vals) /\ Len(ps) = n
    BY <1>1, <1>3
<1>5. \A i \in 1..n : ps[i][1] \in Tags /\ ps[i][2] \in Vals
    BY <1>1
<1>6. \A t \in Tags : t \in Seq(Letter)
    BY PairsAssumption DEF Letter
<1>7. \A t \in Tags : t \in Seq(Octet)
    BY <1>6, LetterSeq
<1>8. \A v \in Vals : v \in Seq(Octet)
    BY PairsAssumption
<1> QED
    BY <1>3, <1>4, <1>5, <1>6, <1>7, <1>8

\* What TlvAppend appends.
Entry(tag, val) == Pad(tag, TagLen) \o Pad(Digits[Len(val)], ValLen) \o val

LEMMA EntryType ==
    ASSUME NEW tag \in Seq(Octet), NEW val \in Seq(Octet)
    PROVE  /\ Pad(tag, TagLen) \in Seq(Octet)
           /\ Pad(Digits[Len(val)], ValLen) \in Seq(Octet)
           /\ Entry(tag, val) \in Seq(Octet)
<1>1. TagLen \in Nat /\ ValLen \in Nat
    BY WidthAssumption
<1>2. Len(val) \in Nat
    OBVIOUS
<1>3. Digits[Len(val)] \in Seq(Octet)
    BY <1>2, DigitsType, LetterSeq
<1>4. PICK a \in Seq(Octet) : a = Pad(tag, TagLen)
    BY <1>1, PadType
<1>5. PICK b \in Seq(Octet) : b = Pad(Digits[Len(val)], ValLen)
    BY <1>1, <1>3, PadType
<1>6. (a \o b) \o val \in Seq(Octet)
    BY ONLY a \in Seq(Octet), b \in Seq(Octet), val \in Seq(Octet)
<1> QED
    BY <1>4, <1>5, <1>6 DEF Entry

Associative(a, b, c) == (a \o b) \o c = a \o (b \o c)

LEMMA Together ==
    ASSUME NEW a \in Seq(Octet), NEW b \in Seq(Octet), NEW c \in Seq(Octet)
    PROVE  Associative(a, b, c)
BY ConcatAssociative DEF Associative

LEMMA AppendIs ==
    ASSUME NEW tlv \in Seq(Octet), NEW tag \in Seq(Octet), NEW val \in Seq(Octet)
    PROVE  /\ TlvAppend(tlv, tag, val) = tlv \o Entry(tag, val)
           /\ TlvAppend(tlv, tag, val) \in Seq(Octet)
<1>1. PICK a \in Seq(Octet) : a = Pad(tag, TagLen)
    BY EntryType
<1>2. PICK b \in Seq(Octet) : b = Pad(Digits[Len(val)], ValLen)
    BY EntryType
<1>3. a \o b \in Seq(Octet) /\ tlv \o a \in Seq(Octet)
    BY ONLY a \in Seq(Octet), b \in Seq(Octet), tlv \in Seq(Octet)
<1>4. (tlv \o a) \o b = tlv \o (a \o b)
    <2>1. Associative(tlv, a, b)
        BY Together
    <2> QED
        BY <2>1 DEF Associative
<1>5. (tlv \o (a \o b)) \o val = tlv \o ((a \o b) \o val)
    <2>1. PICK d \in Seq(Octet) : d = a \o b
        BY <1>3
    <2>2. (tlv \o d) \o val = tlv \o (d \o val)
        <3>1. Associative(tlv, d, val)
            BY Together
        <3> QED
            BY <3>1 DEF Associative
    <2> QED
        BY <2>1, <2>2
<1>6. PICK c \in Seq(Octet) : c = (a \o b) \o val
    <2>1. PICK d \in Seq(Octet) : d = a \o b
        BY <1>3
    <2>2. d \o val \in Seq(Octet)
        BY ONLY d \in Seq(Octet), val \in Seq(Octet)
    <2> QED
        BY <2>1, <2>2
<1>7. tlv \o c \in Seq(Octet)
    BY ONLY tlv \in Seq(Octet), c \in Seq(Octet)
<1> QED
    BY <1>1, <1>2, <1>4, <1>5, <1>6, <1>7 DEF TlvAppend, Entry

\* The string after each of the calls of TlvAppend.
Strings(ps) ==
    CHOOSE tlv : tlv = [n \in 0..Len(ps) |->
        IF n = 0 THEN <<>> ELSE TlvAppend(tlv[n - 1], ps[n][1], ps[n][2])]

LEMMA StringsIs ==
    ASSUME NEW ps \in Lists
    PROVE  /\ Strings(ps) = [n \in 0..Len(ps) |->
                IF n = 0 THEN <<>> ELSE TlvAppend(Strings(ps)[n - 1], ps[n][1], ps[n][2])]
           /\ Tlv(ps) = Strings(ps)[Len(ps)]
<1> DEFINE D == 0..Len(ps)
           S == Seq(Octet)
           prev == [n \in D |-> IF n = 0 THEN 0 ELSE n - 1]
           rank == [n \in D |-> n]
           base == [n \in D |-> <<>>]
           next == [n \in D |-> [s \in S |-> IF n = 0 THEN s ELSE TlvAppend(s, ps[n][1], ps[n][2])]]
<1>0. Len(ps) \in Nat /\ \A n \in 1..Len(ps) : ps[n][1] \in Seq(Octet) /\ ps[n][2] \in Seq(Octet)
    BY ListsType
<1>1. Closer(D, S, {0}, rank, prev, base, next)
    <2>1. prev \in [D -> D] /\ rank \in [D -> Nat]
        BY <1>0
    <2>2. base \in [D -> S]
        OBVIOUS
    <2>3. next \in [D -> [S -> S]]
        <3> SUFFICES ASSUME NEW n \in D, n # 0, NEW s \in S
                     PROVE  TlvAppend(s, ps[n][1], ps[n][2]) \in S
            OBVIOUS
        <3>1. n \in 1..Len(ps)
            BY <1>0
        <3>2. ps[n][1] \in Seq(Octet) /\ ps[n][2] \in Seq(Octet)
            BY <3>1, <1>0
        <3> QED
            BY <3>2, AppendIs
    <2>4. \A n \in D : n \notin {0} => rank[prev[n]] < rank[n]
        BY <1>0
    <2> HIDE DEF D, S, rank, prev, base, next
    <2> QED
        BY <2>1, <2>2, <2>3, <2>4 DEF Closer
<1>2. Solved(D, S, {0}, prev, base, next)
    <2> HIDE DEF D, S, rank, prev, base, next
    <2> QED
        BY <1>1, Recursion
<1>3. PICK g \in [D -> S] : \A n \in D :
          g[n] = IF n \in {0} THEN base[n] ELSE next[n][g[prev[n]]]
    <2> HIDE DEF D, S, prev, base, next
    <2> QED
        BY <1>2 DEF Solved
<1>4. ASSUME NEW n \in D
      PROVE  g[n] = IF n = 0 THEN <<>> ELSE TlvAppend(g[n - 1], ps[n][1], ps[n][2])
    <2>1. CASE n = 0
        BY <2>1, <1>3
    <2>2. CASE n # 0
        <3>1. n - 1 \in D /\ prev[n] = n - 1 /\ n \notin {0}
            BY <2>2, <1>0
        <3>2. g[n - 1] \in S
            <4> HIDE DEF D, S
            <4> QED
                BY <3>1
        <3>3. next[n][g[n - 1]] = TlvAppend(g[n - 1], ps[n][1], ps[n][2])
            <4> HIDE DEF D, S
            <4> QED
                BY <3>2, <2>2
        <3>4. g[n] = next[n][g[prev[n]]]
            <4> HIDE DEF D, S, prev, next
            <4> QED
                BY <1>3, <3>1
        <3> HIDE DEF D, S, prev, next
        <3> QED
            BY <3>1, <3>3, <3>4, <2>2
    <2> QED
        BY <2>1, <2>2
<1>5. g = [n \in 0..Len(ps) |-> IF n = 0 THEN <<>> ELSE TlvAppend(g[n - 1], ps[n][1], ps[n][2])]
    <2>1. DOMAIN g = D /\ g = [n \in D |-> g[n]]
        <3> HIDE DEF D, S
        <3> QED
            OBVIOUS
    <2> QED
        BY <1>4, <2>1
<1>6. Strings(ps) = [n \in 0..Len(ps) |->
                IF n = 0 THEN <<>> ELSE TlvAppend(Strings(ps)[n - 1], ps[n][1], ps[n][2])]
    BY <1>5, Zenon DEF Strings
<1>7. Tlv(ps) = Strings(ps)[Len(ps)]
    BY DEF Tlv, Strings
<1> QED
    BY <1>6, <1>7

LEMMA StringsSteps ==
    ASSUME NEW ps \in Lists
    PROVE  /\ Strings(ps)[0] = <<>>
           /\ \A n \in 1..Len(ps) :
                  Strings(ps)[n] = TlvAppend(Strings(ps)[n - 1], ps[n][1], ps[n][2])
<1>1. Len(ps) \in Nat
    BY ListsType
<1>2. PICK w : w = Strings(ps)
    OBVIOUS
<1>3. w = [n \in 0..Len(ps) |-> IF n = 0 THEN <<>> ELSE TlvAppend(w[n - 1], ps[n][1], ps[n][2])]
    BY <1>2, StringsIs
<1>4. 0 \in 0..Len(ps) /\ \A n \in 1..Len(ps) : n \in 0..Len(ps) /\ n # 0
    BY <1>1
<1> QED
    BY <1>2, <1>3, <1>4

LEMMA StringsType ==
    ASSUME NEW ps \in Lists
    PROVE  \A n \in 0..Len(ps) : Strings(ps)[n] \in Seq(Octet)
<1>1. Len(ps) \in Nat /\ \A n \in 1..Len(ps) : ps[n][1] \in Seq(Octet) /\ ps[n][2] \in Seq(Octet)
    BY ListsType
<1> DEFINE T == {n \in Nat : n <= Len(ps) => Strings(ps)[n] \in Seq(Octet)}
<1>2. ASSUME NEW n \in Nat, \A m \in 0..(n - 1) : m \in T
      PROVE  n \in T
    <2>1. CASE n = 0
        <3>1. Strings(ps)[n] = <<>>
            BY <2>1, StringsSteps
        <3>2. <<>> \in Seq(Octet)
            OBVIOUS
        <3> QED
            BY <3>1, <3>2
    <2>2. CASE n # 0 /\ n <= Len(ps)
        <3>1. n - 1 \in 0..(n - 1) /\ n \in 1..Len(ps) /\ n - 1 <= Len(ps)
            BY <2>2, <1>1
        <3>2. Strings(ps)[n - 1] \in Seq(Octet)
            BY <3>1, <1>2
        <3> HIDE DEF T
        <3>3. Strings(ps)[n] = TlvAppend(Strings(ps)[n - 1], ps[n][1], ps[n][2])
            BY <3>1, StringsSteps
        <3>4. Strings(ps)[n] \in Seq(Octet)
            BY <3>1, <3>2, <3>3, <1>1, AppendIs
        <3> QED
            BY <3>4 DEF T
    <2> QED
        BY <2>1, <2>2
<1> HIDE DEF T
<1>3. \A n \in Nat : n \in T
    BY <1>2, Induction
<1>4. \A n \in 0..Len(ps) : n \in Nat /\ n <= Len(ps)
    BY <1>1
<1> QED
    BY <1>3, <1>4 DEF T

\* The tagged values of a handshake are a string that its field can hold.
LEMMA TlvType ==
    ASSUME NEW ps \in Lists
    PROVE  Tlv(ps) \in Values("string")
<1>1. Len(ps) \in 0..Len(ps)
    BY ListsType
<1>2. Tlv(ps) \in Seq(Octet)
    BY <1>1, StringsIs, StringsType
<1>3. Len(Tlv(ps)) < Power[Width64]
    BY PairsAssumption
<1> QED
    BY <1>2, <1>3 DEF Values

-----------------------------------------------------------------------------
(* The message as it is written *)

LEMMA FieldTypes ==
    ASSUME CodecTypeOK
    PROVE  /\ type \in Types
           /\ Len(Fields) \in 4..13 /\ Len(Fields) \in Nat /\ DOMAIN Fields = 1..Len(Fields)
           /\ count \in 3..Len(Fields) /\ count \in Nat /\ count <= Len(Fields)
           /\ \A f \in 1..Len(Fields) :
                  /\ f \in 1..13 /\ Fields[f] \in Kinds
                  /\ FieldValue(f) \in Values(Fields[f])
                  /\ Serialize(Fields[f], f, FieldValue(f)) \in Seq(Octet)
           /\ type = "SessionHandShake" => Len(Fields) = 6 /\ count \in {5, 6}
<1>1. /\ type \in Types
      /\ Fields = MessageType[type]
      /\ Len(Fields) \in 4..13 /\ DOMAIN Fields = 1..Len(Fields)
      /\ \A f \in DOMAIN Fields : Fields[f] \in Kinds /\ f \in 1..13
      /\ type = "SessionHandShake" => Len(Fields) = 6 /\ Fields[BufField] = "string"
    BY MessageKinds DEF CodecTypeOK, Fields
<1>2. count \in {Len(Fields) - 1, Len(Fields)}
    BY DEF CodecTypeOK
<1>3. count \in 3..Len(Fields) /\ count \in Nat /\ count <= Len(Fields) /\ Len(Fields) \in Nat
      /\ (type = "SessionHandShake" => count \in {5, 6})
    <2>1. PICK l \in 4..13 : l = Len(Fields)
        BY <1>1
    <2>2. \A c \in {l - 1, l} : c \in 3..l /\ c \in Nat /\ c <= l /\ (l = 6 => c \in {5, 6})
        OBVIOUS
    <2> QED
        BY <1>1, <1>2, <2>1, <2>2
<1>4. ASSUME NEW f \in 1..Len(Fields)
      PROVE  FieldValue(f) \in Values(Fields[f])
    <2>1. f \in DOMAIN Fields
        BY <1>1
    <2>2. value[f] \in Values(Fields[f])
        BY <2>1 DEF CodecTypeOK
    <2>3. CASE type = "SessionHandShake" /\ f = BufField /\ pairs # <<>>
        <3>1. pairs \in Lists
            BY DEF CodecTypeOK
        <3>2. FieldValue(f) = Tlv(pairs) /\ Fields[f] = "string"
            BY <2>3, <1>1 DEF FieldValue
        <3> QED
            BY <3>1, <3>2, TlvType
    <2>4. CASE ~(type = "SessionHandShake" /\ f = BufField /\ pairs # <<>>)
        BY <2>4, <2>2 DEF FieldValue
    <2> QED
        BY <2>3, <2>4
<1>5. ASSUME NEW f \in 1..Len(Fields)
      PROVE  Serialize(Fields[f], f, FieldValue(f)) \in Seq(Octet)
    <2>1. Fields[f] \in Kinds /\ f \in 1..13
        BY <1>1
    <2> QED
        BY <2>1, <1>4, SerializeType
<1> QED
    BY <1>1, <1>3, <1>4, <1>5

FieldsUpTo ==
    CHOOSE upto : upto = [f \in 0..Len(Fields) |->
        IF f = 0 THEN <<>> ELSE upto[f - 1] \o Serialize(Fields[f], f, FieldValue(f))]

LEMMA FieldsUpToIs ==
    ASSUME CodecTypeOK
    PROVE  /\ FieldsUpTo = [f \in 0..Len(Fields) |->
                IF f = 0 THEN <<>> ELSE FieldsUpTo[f - 1] \o Serialize(Fields[f], f, FieldValue(f))]
           /\ \A k : Written(k) = FieldsUpTo[k]
<1> DEFINE Piece(f) == Serialize(Fields[f], f, FieldValue(f))
           D == 0..Len(Fields)
           S == Seq(Octet)
           prev == [f \in D |-> IF f = 0 THEN 0 ELSE f - 1]
           rank == [f \in D |-> f]
           base == [f \in D |-> <<>>]
           next == [f \in D |-> [s \in S |-> IF f = 0 THEN s ELSE s \o Piece(f)]]
<1>0. Len(Fields) \in Nat /\ \A f \in 1..Len(Fields) : Piece(f) \in Seq(Octet)
    BY FieldTypes
<1> HIDE DEF Piece
<1>1. Closer(D, S, {0}, rank, prev, base, next)
    <2>1. prev \in [D -> D] /\ rank \in [D -> Nat]
        BY <1>0
    <2>2. base \in [D -> S]
        OBVIOUS
    <2>3. next \in [D -> [S -> S]]
        <3> SUFFICES ASSUME NEW f \in D, f # 0, NEW s \in S
                     PROVE  s \o Piece(f) \in S
            OBVIOUS
        <3>1. f \in 1..Len(Fields)
            BY <1>0
        <3>2. PICK z \in Seq(Octet) : z = Piece(f)
            BY <3>1, <1>0
        <3>3. s \o z \in Seq(Octet)
            BY ONLY s \in Seq(Octet), z \in Seq(Octet)
        <3> QED
            BY <3>2, <3>3
    <2>4. \A f \in D : f \notin {0} => rank[prev[f]] < rank[f]
        BY <1>0
    <2> HIDE DEF D, S, rank, prev, base, next
    <2> QED
        BY <2>1, <2>2, <2>3, <2>4 DEF Closer
<1>2. Solved(D, S, {0}, prev, base, next)
    <2> HIDE DEF D, S, rank, prev, base, next
    <2> QED
        BY <1>1, Recursion
<1>3. PICK g \in [D -> S] : \A f \in D :
          g[f] = IF f \in {0} THEN base[f] ELSE next[f][g[prev[f]]]
    <2> HIDE DEF D, S, prev, base, next
    <2> QED
        BY <1>2 DEF Solved
<1>4. ASSUME NEW f \in D
      PROVE  g[f] = IF f = 0 THEN <<>> ELSE g[f - 1] \o Piece(f)
    <2>1. CASE f = 0
        BY <2>1, <1>3
    <2>2. CASE f # 0
        <3>1. f - 1 \in D /\ prev[f] = f - 1 /\ f \notin {0}
            BY <2>2, <1>0
        <3>2. g[f - 1] \in S
            <4> HIDE DEF D, S
            <4> QED
                BY <3>1
        <3>3. next[f][g[f - 1]] = g[f - 1] \o Piece(f)
            <4> HIDE DEF D, S
            <4> QED
                BY <3>2, <2>2
        <3>4. g[f] = next[f][g[prev[f]]]
            <4> HIDE DEF D, S, prev, next
            <4> QED
                BY <1>3, <3>1
        <3> HIDE DEF D, S, prev, next
        <3> QED
            BY <3>1, <3>3, <3>4, <2>2
    <2> QED
        BY <2>1, <2>2
<1>5. g = [f \in 0..Len(Fields) |->
              IF f = 0 THEN <<>> ELSE g[f - 1] \o Serialize(Fields[f], f, FieldValue(f))]
    <2>1. DOMAIN g = D /\ g = [f \in D |-> g[f]]
        <3> HIDE DEF D, S
        <3> QED
            OBVIOUS
    <2> QED
        BY <1>4, <2>1 DEF Piece
<1>6. FieldsUpTo = [f \in 0..Len(Fields) |->
                IF f = 0 THEN <<>> ELSE FieldsUpTo[f - 1] \o Serialize(Fields[f], f, FieldValue(f))]
    BY <1>5, Zenon DEF FieldsUpTo
<1>7. \A k : Written(k) = FieldsUpTo[k]
    BY DEF Written, FieldsUpTo
<1> QED
    BY <1>6, <1>7

LEMMA WrittenSteps ==
    ASSUME CodecTypeOK
    PROVE  /\ Written(0) = <<>>
           /\ \A f \in 1..Len(Fields) :
                  Written(f) = Written(f - 1) \o Serialize(Fields[f], f, FieldValue(f))
<1>1. Len(Fields) \in Nat
    BY FieldTypes
<1>2. PICK w : w = FieldsUpTo
    OBVIOUS
<1>3. w = [f \in 0..Len(Fields) |->
              IF f = 0 THEN <<>> ELSE w[f - 1] \o Serialize(Fields[f], f, FieldValue(f))]
    BY <1>2, FieldsUpToIs
<1>4. 0 \in 0..Len(Fields) /\ \A f \in 1..Len(Fields) : f \in 0..Len(Fields) /\ f # 0
    BY <1>1
<1>5. w[0] = <<>> /\ \A f \in 1..Len(Fields) : w[f] = w[f - 1] \o Serialize(Fields[f], f, FieldValue(f))
    BY <1>3, <1>4
<1>6. \A k : Written(k) = w[k]
    BY <1>2, FieldsUpToIs
<1> QED
    BY <1>5, <1>6

LEMMA WrittenType ==
    ASSUME CodecTypeOK
    PROVE  \A k \in 0..Len(Fields) : Written(k) \in Seq(Octet)
<1>1. Len(Fields) \in Nat /\ \A f \in 1..Len(Fields) : Serialize(Fields[f], f, FieldValue(f)) \in Seq(Octet)
    BY FieldTypes
<1> DEFINE T == {k \in Nat : k <= Len(Fields) => Written(k) \in Seq(Octet)}
<1>2. ASSUME NEW k \in Nat, \A m \in 0..(k - 1) : m \in T
      PROVE  k \in T
    <2>1. CASE k = 0
        <3>1. Written(k) = <<>>
            BY <2>1, WrittenSteps
        <3>2. <<>> \in Seq(Octet)
            OBVIOUS
        <3> QED
            BY <3>1, <3>2
    <2>2. CASE k # 0 /\ k <= Len(Fields)
        <3>1. k - 1 \in 0..(k - 1) /\ k \in 1..Len(Fields) /\ k - 1 <= Len(Fields)
            BY <2>2, <1>1
        <3>2. PICK a \in Seq(Octet) : a = Written(k - 1)
            BY <3>1, <1>2
        <3> HIDE DEF T
        <3>3. PICK b \in Seq(Octet) : b = Serialize(Fields[k], k, FieldValue(k))
            BY <3>1, <1>1
        <3>4. Written(k) = a \o b
            BY <3>1, <3>2, <3>3, WrittenSteps
        <3>5. a \o b \in Seq(Octet)
            BY ONLY a \in Seq(Octet), b \in Seq(Octet)
        <3> QED
            BY <3>4, <3>5 DEF T
    <2> QED
        BY <2>1, <2>2
<1> HIDE DEF T
<1>3. \A k \in Nat : k \in T
    BY <1>2, Induction
<1>4. \A k \in 0..Len(Fields) : k \in Nat /\ k <= Len(Fields)
    BY <1>1
<1> QED
    BY <1>3, <1>4 DEF T

\* What is written of some fields is where what is written of more of them begins.
LEMMA WrittenGrows ==
    ASSUME CodecTypeOK, NEW j \in 0..Len(Fields), NEW bytes \in Seq(Octet), At(bytes, 0, Written(j))
    PROVE  \A k \in 0..j : At(bytes, 0, Written(k))
<1>1. Len(Fields) \in Nat /\ \A f \in 1..Len(Fields) : Serialize(Fields[f], f, FieldValue(f)) \in Seq(Octet)
    BY FieldTypes
<1> DEFINE T == {d \in Nat : d <= j => At(bytes, 0, Written(j - d))}
<1>2. ASSUME NEW d \in Nat, \A m \in 0..(d - 1) : m \in T
      PROVE  d \in T
    <2>1. CASE d = 0
        <3>1. j - d = j
            BY <2>1
        <3> QED
            BY <3>1
    <2>2. CASE d # 0 /\ d <= j
        <3>1. d - 1 \in 0..(d - 1) /\ d - 1 <= j
            BY <2>2
        <3>2. At(bytes, 0, Written(j - (d - 1)))
            BY <3>1, <1>2
        <3> HIDE DEF T
        <3>3. PICK f \in 1..Len(Fields) : f = j - (d - 1)
            BY <2>2, <1>1
        <3>4. f - 1 = j - d /\ f - 1 \in 0..Len(Fields)
            BY <3>3, <1>1, <2>2
        <3>5. PICK a \in Seq(Octet) : a = Written(f - 1)
            BY <3>4, WrittenType
        <3>6. PICK b \in Seq(Octet) : b = Serialize(Fields[f], f, FieldValue(f))
            BY <1>1
        <3>7. Written(f) = a \o b
            BY <3>5, <3>6, WrittenSteps
        <3>8. At(bytes, 0, a)
            BY <3>2, <3>3, <3>7, AtSplit
        <3> QED
            BY <3>4, <3>5, <3>8 DEF T
    <2> QED
        BY <2>1, <2>2
<1> HIDE DEF T
<1>3. \A d \in Nat : d \in T
    BY <1>2, Induction
<1>4. \A k \in 0..j : j - k \in Nat /\ j - k <= j /\ j - (j - k) = k
    BY <1>1
<1> QED
    BY <1>3, <1>4 DEF T

-----------------------------------------------------------------------------
(* The steps *)

LEMMA SameMessage ==
    ASSUME UNCHANGED <<type, value, pairs>>
    PROVE  /\ Fields' = Fields /\ Nothing' = Nothing
           /\ \A f : FieldValue(f)' = FieldValue(f)
           /\ \A k : Written(k)' = Written(k)
           /\ \A k : ReadTo(k)' = ReadTo(k)
<1>1. Fields' = Fields
    BY DEF Fields
<1>2. Nothing' = Nothing
    BY DEF Nothing, Fields
<1>3. \A f : FieldValue(f)' = FieldValue(f)
    BY DEF FieldValue
<1>4. \A k : Written(k)' = Written(k)
    BY Zenon DEF Written, Fields, FieldValue
<1>5. \A k : ReadTo(k)' = ReadTo(k)
    BY Zenon DEF ReadTo, Fields, FieldValue
<1> QED
    BY <1>1, <1>2, <1>3, <1>4, <1>5

LEMMA MessagesType ==
    ASSUME NEW t \in Types, NEW m \in Messages(t)
    PROVE  /\ DOMAIN m = DOMAIN MessageType[t]
           /\ \A f \in DOMAIN MessageType[t] : m[f] \in Values(MessageType[t][f])
<1>1. PICK odd : m = [f \in DOMAIN MessageType[t] |-> IF f \in odd THEN Odd[t][f] ELSE Usual[t][f]]
    BY DEF Messages
<1>2. \A f \in DOMAIN MessageType[t] :
          Odd[t][f] \in Values(MessageType[t][f]) /\ Usual[t][f] \in Values(MessageType[t][f])
    BY MessagesAssumption
<1> QED
    BY <1>1, <1>2

LEMMA EmptyList == <<>> \in Lists
<1>1. MaxPairs \in Nat /\ 0 \in 0..MaxPairs
    BY WidthAssumption
<1>2. <<>> \in [1..0 -> Tags \X Vals]
    OBVIOUS
<1> QED
    BY <1>1, <1>2 DEF Lists

LEMMA CodecInitInv == ASSUME CodecInit PROVE CodecInv
<1>1. CodecTypeOK
    <2>1. type \in Types /\ count \in {Len(Fields) - 1, Len(Fields)} /\ phase = "write" /\ turn = 1
          /\ written = 0 /\ out = <<>> /\ in = <<>> /\ pos = 0
        BY DEF CodecInit
    <2>2. DOMAIN value = DOMAIN Fields /\ \A f \in DOMAIN Fields : value[f] \in Values(Fields[f])
        BY <2>1, MessagesType DEF CodecInit, Fields
    <2>3. pairs \in Lists /\ (pairs # <<>> => type = "SessionHandShake")
        BY EmptyList DEF CodecInit
    <2>4. written \in 0..count
        <3>1. PICK l \in 4..13 : l = Len(Fields)
            BY <2>1, MessageKinds DEF Fields
        <3>2. count \in {l - 1, l}
            BY <2>1, <3>1
        <3> QED
            BY <2>1, <3>2
    <2>5. turn \in 1..MaxTurns
        BY <2>1, WidthAssumption
    <2>6. out \in Seq(Octet) /\ in \in Seq(Octet) /\ pos \in 0..Len(in)
        BY <2>1
    <2> QED
        BY <2>1, <2>2, <2>3, <2>4, <2>5, <2>6 DEF CodecTypeOK
<1>2. out = Written(written)
    BY <1>1, WrittenSteps DEF CodecInit
<1> QED
    BY <1>1, <1>2 DEF CodecInv, CodecInit

\* Nothing but what a step changes has to be looked at.
LEMMA TypeKept ==
    ASSUME CodecTypeOK, UNCHANGED <<type, count, value, pairs>>,
           out' \in Seq(Octet), in' \in Seq(Octet), written' \in 0..count, pos' \in 0..Len(in'),
           phase' \in {"write", "read", "tlv", "done"}, turn' \in 1..MaxTurns
    PROVE  CodecTypeOK'
<1>1. Fields' = Fields
    BY SameMessage
<1> QED
    BY <1>1 DEF CodecTypeOK

LEMMA WriteFieldKeeps == ASSUME CodecInv, WriteField PROVE CodecInv'
<1>0. CodecTypeOK /\ out = Written(written) /\ phase = "write" /\ written < count /\ parsed = Nothing
    BY DEF CodecInv, WriteField
<1>1. UNCHANGED <<type, count, value, pairs, in, pos, parsed, phase, turn>> /\ written' = written + 1
    BY DEF WriteField
<1>2. PICK f \in 1..Len(Fields) : f = written + 1 /\ f \in 0..count /\ f - 1 = written
    <2>1. written \in 0..count /\ count \in Nat /\ count <= Len(Fields) /\ Len(Fields) \in Nat
        BY <1>0, FieldTypes DEF CodecTypeOK
    <2>2. written + 1 \in 1..Len(Fields) /\ written + 1 \in 0..count /\ (written + 1) - 1 = written
        BY <1>0, <2>1
    <2> QED
        BY <2>2
<1>3. PICK b \in Seq(Octet) : b = Serialize(Fields[f], f, FieldValue(f))
    BY <1>0, FieldTypes
<1>4. out' = out \o b
    BY <1>2, <1>3 DEF WriteField
<1>5. out \in Seq(Octet)
    BY <1>0 DEF CodecTypeOK
<1>6. out \o b \in Seq(Octet)
    BY ONLY <1>5, b \in Seq(Octet)
<1>7. out' = Written(f)
    BY <1>0, <1>2, <1>3, <1>4, WrittenSteps
<1>8. (out = Written(written))'
    BY <1>1, <1>2, <1>7, SameMessage
<1>9. (phase = "write" => parsed = Nothing)'
    BY <1>0, <1>1, SameMessage
<1>10. CodecTypeOK'
    <2>1. in' \in Seq(Octet) /\ pos' \in 0..Len(in') /\ phase' \in {"write", "read", "tlv", "done"}
          /\ turn' \in 1..MaxTurns
        BY <1>0, <1>1 DEF CodecTypeOK
    <2>2. out' \in Seq(Octet) /\ written' \in 0..count
        BY <1>1, <1>2, <1>4, <1>6
    <2> QED
        BY <1>0, <1>1, <2>1, <2>2, TypeKept
<1>11. phase' = "write"
    BY <1>0, <1>1
<1> QED
    BY <1>8, <1>9, <1>10, <1>11 DEF CodecInv

LEMMA NothingRead == ASSUME CodecTypeOK PROVE Nothing = ReadTo(0)
<1>1. DOMAIN Fields = 1..Len(Fields) /\ Len(Fields) \in Nat
    BY FieldTypes
<1>2. \A f \in DOMAIN Fields : ~(f <= 0)
    BY <1>1
<1> QED
    BY <1>2 DEF Nothing, ReadTo

LEMMA SendMessageKeeps == ASSUME CodecInv, SendMessage PROVE CodecInv'
<1>0. CodecTypeOK /\ out = Written(written) /\ written = count /\ parsed = Nothing
    BY DEF CodecInv, SendMessage
<1>1. UNCHANGED <<type, count, value, pairs, out, written, parsed, found, turn>>
      /\ phase' = "read" /\ pos' = 0
    BY DEF SendMessage
<1>2. out \in Seq(Octet) /\ Len(out) \in Nat /\ PrefixSize \in Nat
    BY <1>0, WidthAssumption DEF CodecTypeOK
<1>3. /\ in' \in Seq(Octet) /\ Len(out) <= Len(in')
      /\ \A i \in 1..Len(in') : in'[i] = IF i <= Len(out) THEN out[i] ELSE 0
    <2>1. CASE type = "TransferPayload"
        <3>1. PICK b : b = [i \in 1..PrefixSize |-> IF i <= Len(out) THEN out[i] ELSE 0]
            OBVIOUS
        <3>2. Len(out) + 1 <= PrefixSize
            BY <2>1 DEF SendMessage
        <3>3. \A i \in 1..PrefixSize : i <= Len(out) => i \in 1..Len(out) /\ out[i] \in Octet
            BY <1>2, ElementOfSeq
        <3>4. 0 \in Octet
            BY DEF Octet
        <3>5. b \in [1..PrefixSize -> Octet]
            BY <3>1, <3>3, <3>4
        <3>6. b \in Seq(Octet) /\ Len(b) = PrefixSize
            BY <1>2, <3>5
        <3>7. in' = [i \in 1..PrefixSize |->
                         IF i <= Len(out) THEN out[i] ELSE IF i = Len(out) + 1 THEN 0 ELSE Malloc[i]]
            BY <2>1 DEF SendMessage
        <3>8. \A i \in 1..PrefixSize : Malloc[i] = 0
            BY DEF Malloc
        <3>9. in' = b
            BY <3>1, <3>7, <3>8
        <3> QED
            BY <1>2, <3>1, <3>2, <3>6, <3>9
    <2>2. CASE type # "TransferPayload"
        <3>1. in' = out
            BY <2>2 DEF SendMessage
        <3>2. \A i \in 1..Len(out) : i <= Len(out)
            BY <1>2
        <3> QED
            BY <1>2, <3>1, <3>2
    <2> QED
        BY <2>1, <2>2
<1>4. CodecTypeOK'
    <2>1. out' \in Seq(Octet) /\ written' \in 0..count /\ turn' \in 1..MaxTurns
        BY <1>0, <1>1 DEF CodecTypeOK
    <2>2. pos' \in 0..Len(in') /\ in' \in Seq(Octet)
        BY <1>1, <1>3
    <2> QED
        BY <1>0, <1>1, <2>1, <2>2, TypeKept
<1>5. Arrived'
    BY <1>0, <1>1, <1>3 DEF Arrived
<1>6. Between'
    <2>1. 0 \in 0..count'
        BY <1>0, <1>1, FieldTypes
    <2>2. parsed' = ReadTo(0)' /\ pos' = Len(Written(0))'
        <3>1. Written(0) = <<>> /\ Len(<<>>) = 0
            BY <1>0, WrittenSteps
        <3>2. parsed = ReadTo(0)
            BY <1>0, NothingRead
        <3> QED
            BY <1>1, <3>1, <3>2, SameMessage
    <2> QED
        BY <2>1, <2>2 DEF Between
<1>7. (out = Written(written))'
    BY <1>0, <1>1, SameMessage
<1> QED
    BY <1>1, <1>4, <1>5, <1>6, <1>7 DEF CodecInv

\* Behind the message there is nothing, or a zero, which is no tag.
LEMMA BehindTheMessage ==
    ASSUME in \in Seq(Octet), NEW p \in Nat, p <= Len(in), \A i \in 1..Len(in) : i > p => in[i] = 0
    PROVE  /\ p = Len(in) => ~ReadVarint(in, p, Width32).ok
           /\ p < Len(in) => ReadVarint(in, p, Width32) = [ok |-> TRUE, value |-> 0, pos |-> p + 1]
<1>1. Width32 \in Nat /\ Most(Width32) \in Nat /\ 1 \in 1..Most(Width32)
    BY WidthAssumption DEF Most
<1>2. PICK rest : rest = VarintRest(in, p, Width32)
    OBVIOUS
<1>3. VarintRead(rest, in, p, 1)
    BY <1>1, <1>2, VarintRestSteps
<1>4. PICK a : a = ReadVarint(in, p, Width32)
    OBVIOUS
<1>5. a = [ok |-> rest[1].ok, value |-> rest[1].value % Power[Width32], pos |-> p + rest[1].used]
    BY <1>2, <1>4, ReadVarintIs
<1>6. ASSUME p = Len(in)
      PROVE  ~a.ok
    <2>1. p + 1 > Len(in)
        BY <1>6
    <2>2. rest[1] = [ok |-> FALSE, value |-> 0, used |-> 1 - 1]
        BY <1>3, <2>1 DEF VarintRead
    <2> QED
        BY <1>5, <2>2
<1>7. ASSUME p < Len(in)
      PROVE  a = [ok |-> TRUE, value |-> 0, pos |-> p + 1]
    <2>1. p + 1 \in 1..Len(in) /\ p + 1 > p /\ p + 1 <= Len(in)
        BY <1>7
    <2>2. in[p + 1] = 0
        BY <2>1
    <2>3. rest[1] = [ok |-> TRUE, value |-> 0, used |-> 1]
        BY <1>3, <2>1, <2>2 DEF VarintRead
    <2>4. 0 % Power[Width32] = 0
        <3>1. Power[Width32] \in Nat /\ 0 < Power[Width32]
            BY Widths
        <3> QED
            BY <3>1, Below
    <2>5. rest[1].ok = TRUE /\ rest[1].value = 0 /\ rest[1].used = 1
        BY <2>3
    <2> QED
        BY <1>5, <2>4, <2>5
<1> QED
    BY <1>4, <1>6, <1>7

\* All that was written is there, from the start.
LEMMA PrefixThere ==
    ASSUME CodecTypeOK, out = Written(written), Arrived
    PROVE  \A k \in 0..count : At(in, 0, Written(k))
<1>1. /\ count \in Nat /\ count <= Len(Fields) /\ Len(Fields) \in Nat
      /\ out \in Seq(Octet) /\ in \in Seq(Octet) /\ Len(out) \in Nat /\ Len(in) \in Nat
    BY FieldTypes DEF CodecTypeOK
<1>2. Len(out) <= Len(in) /\ \A i \in 1..Len(in) : in[i] = IF i <= Len(out) THEN out[i] ELSE 0
    BY DEF Arrived
<1>3. \A i \in 1..Len(out) : in[0 + i] = out[i]
    <2>1. \A i \in 1..Len(out) : i \in 1..Len(in) /\ i <= Len(out) /\ 0 + i = i
        BY <1>1, <1>2
    <2> QED
        BY <1>2, <2>1
<1>4. At(in, 0, out)
    BY <1>1, <1>2, <1>3 DEF At
<1>5. At(in, 0, Written(count))
    BY <1>4 DEF Arrived
<1>6. count \in 0..Len(Fields)
    BY <1>1
<1> QED
    BY <1>1, <1>5, <1>6, WrittenGrows

\* As long as fields are missing, the next one is there to be read.
LEMMA NextField ==
    ASSUME CodecTypeOK, out = Written(written), Arrived,
           NEW k \in 0..count, k < count, pos = Len(Written(k))
    PROVE  LET f == k + 1 IN
           /\ f \in 1..count /\ f \in DOMAIN Fields
           /\ \A old :
                  LET key == ReadVarint(in, pos, Width32)
                      t == ReadTagWireType(key.value)
                  IN /\ key.ok
                     /\ t = [tag |-> f, wire |-> WireType(Fields[f])]
                     /\ Parse(Fields[f], t.wire, key.pos, old)
                            = [value |-> FieldValue(f), pos |-> Len(Written(f))]
<1>1. /\ count \in Nat /\ count <= Len(Fields) /\ Len(Fields) \in Nat /\ DOMAIN Fields = 1..Len(Fields)
      /\ out \in Seq(Octet) /\ in \in Seq(Octet) /\ Len(out) \in Nat /\ Len(in) \in Nat
    BY FieldTypes DEF CodecTypeOK
<1>3. PICK f \in 1..Len(Fields) : f = k + 1 /\ f \in 0..count /\ f \in 1..count /\ f - 1 = k
    <2>1. k + 1 \in 1..Len(Fields) /\ k + 1 \in 0..count /\ k + 1 \in 1..count /\ (k + 1) - 1 = k
        BY <1>1
    <2> QED
        BY <2>1
<1>4. At(in, 0, Written(f))
    BY <1>3, PrefixThere
<1>5. PICK a \in Seq(Octet) : a = Written(k)
    <2>1. k \in 0..Len(Fields)
        BY <1>1
    <2> QED
        BY <2>1, WrittenType
<1>6. PICK b \in Seq(Octet) : b = Serialize(Fields[f], f, FieldValue(f))
    BY FieldTypes
<1>7. Written(f) = a \o b
    BY <1>3, <1>5, <1>6, WrittenSteps
<1>8. At(in, 0 + Len(a), b)
    BY <1>1, <1>4, <1>7, AtSplit
<1>9. PICK p \in Nat : p = pos /\ p = Len(a) /\ p = 0 + Len(a)
    BY <1>5
<1>10. Fields[f] \in Kinds /\ FieldValue(f) \in Values(Fields[f]) /\ f \in 1..13
    BY FieldTypes
<1>11. At(in, p, Serialize(Fields[f], f, FieldValue(f)))
    BY <1>6, <1>8, <1>9
<1>12. p + Len(Serialize(Fields[f], f, FieldValue(f))) = Len(Written(f))
    <2>1. Len(a \o b) = Len(a) + Len(b)
        BY ONLY a \in Seq(Octet), b \in Seq(Octet)
    <2> QED
        BY <1>6, <1>7, <1>9, <2>1
<1>13. ASSUME NEW old
       PROVE  FieldRead(p, Fields[f], f, FieldValue(f), old)
    BY <1>1, <1>10, <1>11, FieldBack
<1> QED
    BY <1>1, <1>3, <1>9, <1>12, <1>13 DEF FieldRead

LEMMA ReadFieldKeeps == ASSUME CodecInv, ReadField PROVE CodecInv'
<1>0. CodecTypeOK /\ out = Written(written) /\ phase = "read" /\ Arrived /\ Between
    BY DEF CodecInv, ReadField
<1>1. UNCHANGED <<type, count, value, pairs, out, written, in, phase, turn>>
    BY DEF ReadField
<1>2. PICK k \in 0..count : parsed = ReadTo(k)
                            /\ (pos = Len(Written(k)) \/ (k = count /\ pos >= Len(out)))
    BY <1>0 DEF Between
<1>3. /\ count \in Nat /\ count <= Len(Fields) /\ Len(Fields) \in Nat /\ DOMAIN Fields = 1..Len(Fields)
      /\ out \in Seq(Octet) /\ in \in Seq(Octet) /\ Len(out) \in Nat /\ Len(in) \in Nat
      /\ pos \in 0..Len(in)
    BY <1>0, FieldTypes DEF CodecTypeOK
<1> DEFINE key == ReadVarint(in, pos, Width32)
           t == ReadTagWireType(key.value)
<1>4. ASSUME k < count
      PROVE  Between' /\ pos' \in 0..Len(in)
    <2>1. PICK f \in 1..count : f = k + 1
        BY <1>3, <1>4
    <2>2. pos = Len(Written(k))
        BY <1>2, <1>4, <1>3
    <2>3. f \in DOMAIN Fields /\ key.ok /\ t = [tag |-> f, wire |-> WireType(Fields[f])]
          /\ Parse(Fields[f], t.wire, key.pos, parsed[f])
                 = [value |-> FieldValue(f), pos |-> Len(Written(f))]
        BY <1>0, <1>4, <2>1, <2>2, NextField
    <2>4. t.tag = f
        BY <2>3
    <2>5. pos' = Len(Written(f)) /\ parsed' = [parsed EXCEPT ![f] = FieldValue(f)]
        <3>1. PICK r : r = Parse(Fields[f], t.wire, key.pos, parsed[f])
            OBVIOUS
        <3>2. pos' = r.pos /\ parsed' = [parsed EXCEPT ![f] = r.value]
            BY <2>3, <2>4, <3>1 DEF ReadField
        <3>3. r.pos = Len(Written(f)) /\ r.value = FieldValue(f)
            BY <2>3, <3>1
        <3> QED
            BY <3>2, <3>3
    <2>6. parsed' = ReadTo(f)
        <3>1. \A g \in DOMAIN Fields : (g <= f) = (g <= k \/ g = f)
            BY <1>3, <2>1
        <3>2. [ReadTo(k) EXCEPT ![f] = FieldValue(f)] = ReadTo(f)
            BY <2>3, <3>1 DEF ReadTo
        <3> QED
            BY <1>2, <2>5, <3>2
    <2>7. f \in 0..count
        BY <2>1, <1>3
    <2>8. Between'
        BY <1>1, <2>5, <2>6, <2>7, SameMessage DEF Between
    <2>9. pos' \in 0..Len(in)
        <3>1. f \in 0..Len(Fields) /\ count \in 0..Len(Fields)
            BY <1>3, <2>1
        <3>2. Len(Written(f)) \in Nat
            BY <1>0, <3>1, WrittenType
        <3>3. At(in, 0, Written(f))
            BY <1>0, <2>7, PrefixThere
        <3> QED
            BY <2>5, <3>2, <3>3, <1>3 DEF At
    <2> QED
        BY <2>8, <2>9
<1>5. ASSUME ~(k < count)
      PROVE  Between' /\ pos' \in 0..Len(in)
    <2>1. k = count /\ written = count
        BY <1>0, <1>3, <1>5 DEF Arrived
    <2>2. pos >= Len(out)
        BY <1>0, <1>2, <1>3, <2>1
    <2>3. \A i \in 1..Len(in) : i > pos => in[i] = 0
        <3>1. \A i \in 1..Len(in) : i > pos => ~(i <= Len(out))
            BY <1>3, <2>2
        <3> QED
            BY <1>0, <3>1 DEF Arrived
    <2>4. PICK p \in Nat : p = pos /\ p <= Len(in)
        BY <1>3
    <2>5. key.ok
        BY DEF ReadField
    <2>6. p < Len(in)
        <3>1. p = Len(in) => ~ReadVarint(in, p, Width32).ok
            BY <1>3, <2>3, <2>4, BehindTheMessage
        <3> QED
            BY <1>3, <2>4, <2>5, <3>1
    <2>7. key = [ok |-> TRUE, value |-> 0, pos |-> p + 1]
        BY <1>3, <2>3, <2>4, <2>6, BehindTheMessage
    <2>8. t.tag = 0
        <3>1. key.value = 0
            BY <2>7
        <3>2. 0 \div 8 = 0
            OBVIOUS
        <3> QED
            BY <3>1, <3>2 DEF ReadTagWireType
    <2>9. 0 \notin DOMAIN Fields
        BY <1>3
    <2>10. pos' = p + 1 /\ parsed' = parsed
        <3>1. pos' = key.pos /\ parsed' = parsed
            BY <2>8, <2>9 DEF ReadField
        <3> QED
            BY <2>7, <3>1
    <2>11. pos' \in 0..Len(in) /\ pos' >= Len(out)
        BY <1>3, <2>2, <2>4, <2>6, <2>10
    <2>12. Between'
        <3>1. parsed' = ReadTo(k)' /\ k = count' /\ k \in 0..count' /\ pos' >= Len(out')
            BY <1>1, <1>2, <2>1, <2>10, <2>11, SameMessage
        <3> QED
            BY <3>1 DEF Between
    <2> QED
        BY <2>11, <2>12
<1>6. Between' /\ pos' \in 0..Len(in)
    BY <1>4, <1>5
<1>7. CodecTypeOK'
    <2>1. out' \in Seq(Octet) /\ in' \in Seq(Octet) /\ written' \in 0..count /\ pos' \in 0..Len(in')
          /\ phase' \in {"write", "read", "tlv", "done"} /\ turn' \in 1..MaxTurns
        BY <1>0, <1>1, <1>6 DEF CodecTypeOK
    <2> QED
        BY <1>0, <1>1, <2>1, TypeKept
<1>8. Arrived'
    BY <1>0, <1>1 DEF Arrived
<1>9. (out = Written(written))' /\ phase' = "read"
    BY <1>0, <1>1, SameMessage
<1> QED
    BY <1>6, <1>7, <1>8, <1>9 DEF CodecInv

LEMMA ReadEndsKeeps == ASSUME CodecInv, ReadEnds PROVE CodecInv'
<1>0. CodecTypeOK /\ out = Written(written) /\ phase = "read" /\ Arrived /\ Between
    BY DEF CodecInv, ReadEnds
<1>1. UNCHANGED <<type, count, value, pairs, out, written, in, pos, parsed, turn>>
      /\ phase' = IF type = "SessionHandShake" THEN "tlv" ELSE "done"
    BY DEF ReadEnds
<1>2. PICK k \in 0..count : parsed = ReadTo(k)
                            /\ (pos = Len(Written(k)) \/ (k = count /\ pos >= Len(out)))
    BY <1>0 DEF Between
<1>3. count \in Nat
    BY <1>0, FieldTypes
<1>4. k = count
    <2> SUFFICES ASSUME k < count
                 PROVE  FALSE
        BY <1>3
    <2>1. pos = Len(Written(k))
        BY <1>2, <1>3
    <2>2. ReadVarint(in, pos, Width32).ok
        BY <1>0, <2>1, NextField
    <2> QED
        BY <2>2 DEF ReadEnds
<1>5. parsed' = ReadTo(count)'
    BY <1>1, <1>2, <1>4, SameMessage
<1>6. CodecTypeOK'
    <2>1. out' \in Seq(Octet) /\ in' \in Seq(Octet) /\ written' \in 0..count /\ pos' \in 0..Len(in')
          /\ phase' \in {"write", "read", "tlv", "done"} /\ turn' \in 1..MaxTurns
        BY <1>0, <1>1 DEF CodecTypeOK
    <2> QED
        BY <1>0, <1>1, <2>1, TypeKept
<1>7. (out = Written(written))'
    BY <1>0, <1>1, SameMessage
<1>8. phase' \in {"tlv", "done"} /\ (type' = "SessionHandShake" => phase' = "tlv")
    BY <1>1
<1> QED
    BY <1>5, <1>6, <1>7, <1>8 DEF CodecInv

LEMMA ReadTlvKeeps == ASSUME CodecInv, ReadTlv PROVE CodecInv'
<1>0. CodecTypeOK /\ out = Written(written) /\ phase = "tlv" /\ parsed = ReadTo(count)
    BY DEF CodecInv, ReadTlv
<1>1. UNCHANGED <<type, count, value, pairs, out, written, in, pos, parsed, turn>>
      /\ phase' = "done" /\ found' = TlvToStringMap(parsed[BufField])
    BY DEF ReadTlv
<1>2. type = "SessionHandShake" => parsed[BufField] = FieldValue(BufField)
    <2> SUFFICES ASSUME type = "SessionHandShake"
                 PROVE  parsed[BufField] = FieldValue(BufField)
        OBVIOUS
    <2>1. Len(Fields) = 6 /\ count \in {5, 6} /\ DOMAIN Fields = 1..Len(Fields)
        BY <1>0, FieldTypes
    <2>2. BufField \in DOMAIN Fields /\ BufField <= count
        BY <2>1 DEF BufField
    <2> QED
        BY <1>0, <2>2 DEF ReadTo
<1>3. (type = "SessionHandShake" => found = TlvToStringMap(FieldValue(BufField)))'
    BY <1>1, <1>2, SameMessage
<1>4. (parsed = ReadTo(count))'
    BY <1>0, <1>1, SameMessage
<1>5. CodecTypeOK'
    <2>1. out' \in Seq(Octet) /\ in' \in Seq(Octet) /\ written' \in 0..count /\ pos' \in 0..Len(in')
          /\ phase' \in {"write", "read", "tlv", "done"} /\ turn' \in 1..MaxTurns
        BY <1>0, <1>1 DEF CodecTypeOK
    <2> QED
        BY <1>0, <1>1, <2>1, TypeKept
<1>6. (out = Written(written))'
    BY <1>0, <1>1, SameMessage
<1> QED
    BY <1>1, <1>3, <1>4, <1>5, <1>6 DEF CodecInv

LEMMA NothingWritten == (CodecTypeOK => Written(0) = <<>>)'
<1>1. CodecTypeOK => Written(0) = <<>>
    BY WrittenSteps
<1> QED
    BY <1>1, PTL

LEMMA NextHeadKeeps == ASSUME CodecInv, NextHead PROVE CodecInv'
<1>0. CodecTypeOK /\ type = "TransferPayload" /\ turn < MaxTurns
    BY DEF CodecInv, NextHead
<1>1. /\ UNCHANGED <<type, count, pairs, in, pos>>
      /\ value' \in Messages(type) /\ turn' = turn + 1 /\ phase' = "write" /\ out' = <<>>
      /\ written' = 0 /\ parsed' = Nothing
    BY DEF NextHead
<1>2. Fields' = Fields /\ Nothing' = Nothing
    BY <1>1 DEF Fields, Nothing
<1>3. CodecTypeOK'
    <2>1. DOMAIN value' = DOMAIN Fields' /\ \A f \in DOMAIN Fields' : value'[f] \in Values(Fields'[f])
        BY <1>0, <1>1, <1>2, MessagesType DEF CodecTypeOK, Fields
    <2>2. turn' \in 1..MaxTurns
        BY <1>0, <1>1, WidthAssumption DEF CodecTypeOK
    <2>3. out' \in Seq(Octet) /\ written' \in 0..count' /\ phase' \in {"write", "read", "tlv", "done"}
        BY <1>0, <1>1, FieldTypes
    <2> QED
        BY <1>0, <1>1, <1>2, <2>1, <2>2, <2>3 DEF CodecTypeOK
<1>4. (CodecTypeOK => Written(0) = <<>>)'
    BY NothingWritten
<1>5. (out = Written(written))'
    BY <1>1, <1>3, <1>4
<1> QED
    BY <1>1, <1>2, <1>3, <1>5 DEF CodecInv

LEMMA CodecNextKeeps == ASSUME CodecInv, [CodecNext]_codecVars PROVE CodecInv'
<1>1. CASE WriteField
    BY <1>1, WriteFieldKeeps
<1>2. CASE SendMessage
    BY <1>2, SendMessageKeeps
<1>3. CASE ReadField
    BY <1>3, ReadFieldKeeps
<1>4. CASE ReadEnds
    BY <1>4, ReadEndsKeeps
<1>5. CASE ReadTlv
    BY <1>5, ReadTlvKeeps
<1>6. CASE NextHead
    BY <1>6, NextHeadKeeps
<1>7. CASE UNCHANGED codecVars
    <2>1. UNCHANGED <<type, count, value, pairs, out, written, in, pos, parsed, found, phase, turn>>
        BY <1>7 DEF codecVars
    <2>2. CodecTypeOK' /\ out' = Written(written)' /\ Arrived' = Arrived
        <3>1. out' = Written(written)'
            BY <2>1, SameMessage DEF CodecInv
        <3>2. Arrived' = Arrived
            BY <2>1 DEF Arrived
        <3>3. CodecTypeOK
            BY DEF CodecInv
        <3>4. out' \in Seq(Octet) /\ in' \in Seq(Octet) /\ written' \in 0..count /\ pos' \in 0..Len(in')
              /\ phase' \in {"write", "read", "tlv", "done"} /\ turn' \in 1..MaxTurns
            BY <2>1, <3>3 DEF CodecTypeOK
        <3>5. CodecTypeOK'
            BY <2>1, <3>3, <3>4, TypeKept
        <3> QED
            BY <3>1, <3>2, <3>5
    <2>3. (phase = "write" => parsed = Nothing)' /\ (phase \in {"tlv", "done"} => parsed = ReadTo(count))'
          /\ (phase = "done" /\ type = "SessionHandShake"
                  => found = TlvToStringMap(FieldValue(BufField)))'
        BY <2>1, SameMessage DEF CodecInv
    <2>4. Between => Between'
        BY <2>1, SameMessage DEF Between
    <2> QED
        BY <2>1, <2>2, <2>3, <2>4 DEF CodecInv
<1> QED
    BY <1>1, <1>2, <1>3, <1>4, <1>5, <1>6, <1>7 DEF CodecNext

\* CodecInv describes every reachable state, for every message and all widths.
THEOREM CodecInvHolds == CodecSpec => []CodecInv
<1>1. CodecInit => CodecInv
    BY CodecInitInv
<1>2. CodecInv /\ [CodecNext]_codecVars => CodecInv'
    BY CodecNextKeeps
<1> QED
    BY <1>1, <1>2, PTL DEF CodecSpec

\* RoundTrip: what is written of a message is read back.
THEOREM RoundTripHolds == CodecSpec => []RoundTrip
<1>1. CodecInv => RoundTrip
    BY DEF CodecInv, RoundTrip, ReadTo
<1> QED
    BY <1>1, CodecInvHolds, PTL

-----------------------------------------------------------------------------
(* What is appended is cut off again *)

KeptUpTo(s) ==
    CHOOSE kept : kept = [i \in 0..Len(s) |->
        IF i = 0 THEN <<>>
        ELSE IF s[i] = Space THEN kept[i - 1] ELSE Append(kept[i - 1], s[i])]

LEMMA KeptUpToIs ==
    ASSUME NEW s \in Seq(Octet)
    PROVE  /\ KeptUpTo(s) = [i \in 0..Len(s) |->
                IF i = 0 THEN <<>>
                ELSE IF s[i] = Space THEN KeptUpTo(s)[i - 1] ELSE Append(KeptUpTo(s)[i - 1], s[i])]
           /\ TrimSpaces(s) = KeptUpTo(s)[Len(s)]
<1> DEFINE D == 0..Len(s)
           S == Seq(Octet)
           prev == [i \in D |-> IF i = 0 THEN 0 ELSE i - 1]
           rank == [i \in D |-> i]
           base == [i \in D |-> <<>>]
           next == [i \in D |-> [w \in S |->
                       IF i = 0 \/ s[i] = Space THEN w ELSE Append(w, s[i])]]
<1>0. Len(s) \in Nat /\ \A i \in 1..Len(s) : s[i] \in Octet
    BY ElementOfSeq
<1>1. Closer(D, S, {0}, rank, prev, base, next)
    <2>1. prev \in [D -> D] /\ rank \in [D -> Nat]
        BY <1>0
    <2>2. base \in [D -> S]
        OBVIOUS
    <2>3. next \in [D -> [S -> S]]
        <3> SUFFICES ASSUME NEW i \in D, i # 0, NEW w \in S
                     PROVE  Append(w, s[i]) \in S
            OBVIOUS
        <3>1. i \in 1..Len(s)
            BY <1>0
        <3>2. PICK b \in Octet : b = s[i]
            BY <3>1, <1>0
        <3>3. Append(w, b) \in Seq(Octet)
            BY ONLY w \in Seq(Octet), b \in Octet
        <3> QED
            BY <3>2, <3>3
    <2>4. \A i \in D : i \notin {0} => rank[prev[i]] < rank[i]
        BY <1>0
    <2> HIDE DEF D, S, rank, prev, base, next
    <2> QED
        BY <2>1, <2>2, <2>3, <2>4 DEF Closer
<1>2. Solved(D, S, {0}, prev, base, next)
    <2> HIDE DEF D, S, rank, prev, base, next
    <2> QED
        BY <1>1, Recursion
<1>3. PICK g \in [D -> S] : \A i \in D :
          g[i] = IF i \in {0} THEN base[i] ELSE next[i][g[prev[i]]]
    <2> HIDE DEF D, S, prev, base, next
    <2> QED
        BY <1>2 DEF Solved
<1>4. ASSUME NEW i \in D
      PROVE  g[i] = IF i = 0 THEN <<>>
                    ELSE IF s[i] = Space THEN g[i - 1] ELSE Append(g[i - 1], s[i])
    <2>1. CASE i = 0
        BY <2>1, <1>3
    <2>2. CASE i # 0
        <3>1. i - 1 \in D /\ prev[i] = i - 1 /\ i \notin {0}
            BY <2>2, <1>0
        <3>2. g[i - 1] \in S
            <4> HIDE DEF D, S
            <4> QED
                BY <3>1
        <3>3. next[i][g[i - 1]] = IF s[i] = Space THEN g[i - 1] ELSE Append(g[i - 1], s[i])
            <4> HIDE DEF D, S
            <4> QED
                BY <3>2, <2>2
        <3>4. g[i] = next[i][g[prev[i]]]
            <4> HIDE DEF D, S, prev, next
            <4> QED
                BY <1>3, <3>1
        <3> HIDE DEF D, S, prev, next
        <3> QED
            BY <3>1, <3>3, <3>4, <2>2
    <2> QED
        BY <2>1, <2>2
<1>5. g = [i \in 0..Len(s) |->
              IF i = 0 THEN <<>>
              ELSE IF s[i] = Space THEN g[i - 1] ELSE Append(g[i - 1], s[i])]
    <2>1. DOMAIN g = D /\ g = [i \in D |-> g[i]]
        <3> HIDE DEF D, S
        <3> QED
            OBVIOUS
    <2> QED
        BY <1>4, <2>1
<1>6. KeptUpTo(s) = [i \in 0..Len(s) |->
              IF i = 0 THEN <<>>
              ELSE IF s[i] = Space THEN KeptUpTo(s)[i - 1] ELSE Append(KeptUpTo(s)[i - 1], s[i])]
    BY <1>5, Zenon DEF KeptUpTo
<1>7. TrimSpaces(s) = KeptUpTo(s)[Len(s)]
    BY DEF TrimSpaces, KeptUpTo
<1> QED
    BY <1>6, <1>7

\* A word and spaces behind it.
Padded(s, w) ==
    /\ Len(w) <= Len(s)
    /\ \A i \in 1..Len(s) : s[i] = IF i <= Len(w) THEN w[i] ELSE Space

LEMMA Appended ==
    ASSUME NEW S, NEW v \in Seq(S), NEW c \in S
    PROVE  \A j \in 1..(Len(v) + 1) : Append(v, c)[j] = IF j <= Len(v) THEN v[j] ELSE c
OBVIOUS

\* TrimSubString takes the spaces away again.
LEMMA TrimBack ==
    ASSUME NEW s \in Seq(Octet), NEW w \in Seq(Letter), Padded(s, w)
    PROVE  TrimSpaces(s) = w
<1>0. Len(s) \in Nat /\ Len(w) \in Nat /\ Len(w) <= Len(s)
    BY DEF Padded
<1>1. PICK kept : kept = KeptUpTo(s)
    OBVIOUS
<1>2. kept = [i \in 0..Len(s) |->
                IF i = 0 THEN <<>>
                ELSE IF s[i] = Space THEN kept[i - 1] ELSE Append(kept[i - 1], s[i])]
    BY <1>1, KeptUpToIs
<1> DEFINE Is(v, n) == v \in Seq(Letter) /\ Len(v) = n /\ \A j \in 1..n : v[j] = w[j]
           T == {i \in Nat : /\ i <= Len(w) => Is(kept[i], i)
                             /\ Len(w) <= i /\ i <= Len(s) => Is(kept[i], Len(w))}
<1>3. ASSUME NEW i \in Nat, \A m \in 0..(i - 1) : m \in T
      PROVE  i \in T
    <2>1. CASE i = 0
        <3>1. kept[i] = <<>>
            BY <1>0, <1>2, <2>1
        <3>2. Is(<<>>, 0)
            OBVIOUS
        <3>3. Len(w) <= i => Len(w) = 0
            BY <1>0, <2>1
        <3>4. Is(kept[i], i) /\ (Len(w) <= i => Is(kept[i], Len(w)))
            <4> HIDE DEF Is
            <4> QED
                BY <2>1, <3>1, <3>2, <3>3
        <3> HIDE DEF Is
        <3> QED
            BY <3>4
    <2>2. CASE i # 0 /\ i <= Len(s)
        <3>1. i \in 1..Len(s) /\ i \in 0..Len(s) /\ i - 1 \in 0..(i - 1) /\ i - 1 \in Nat
            BY <1>0, <2>2
        <3>2. i - 1 \in T
            BY <3>1, <1>3
        <3> HIDE DEF T
        <3>3. kept[i] = IF s[i] = Space THEN kept[i - 1] ELSE Append(kept[i - 1], s[i])
            BY <1>2, <2>2, <3>1
        <3>4. CASE i <= Len(w)
            <4>1. i - 1 <= Len(w) /\ i \in 1..Len(w)
                BY <1>0, <3>1, <3>4
            <4>2. PICK v \in Seq(Letter) : v = kept[i - 1] /\ Is(v, i - 1)
                BY <3>2, <4>1 DEF T
            <4>3. PICK c \in Letter : c = w[i]
                BY <4>1, ElementOfSeq
            <4>4. s[i] = c /\ c # Space
                BY <3>1, <3>4, <4>3 DEF Padded, Letter
            <4>5. kept[i] = Append(v, c)
                BY <3>3, <4>2, <4>4
            <4>6. Append(v, c) \in Seq(Letter) /\ Len(Append(v, c)) = (i - 1) + 1
                  /\ \A j \in 1..((i - 1) + 1) : Append(v, c)[j] = IF j <= i - 1 THEN v[j] ELSE c
                <5>1. PICK l \in Nat : l = Len(v)
                    OBVIOUS
                <5>2. Append(v, c) \in Seq(Letter) /\ Len(Append(v, c)) = l + 1
                    BY ONLY v \in Seq(Letter), c \in Letter, <5>1
                <5>3. \A j \in 1..(l + 1) : Append(v, c)[j] = IF j <= l THEN v[j] ELSE c
                    BY <5>1, Appended
                <5>4. l = i - 1
                    BY <4>2, <5>1
                <5> QED
                    BY ONLY <5>2, <5>3, <5>4
            <4>7. (i - 1) + 1 = i
                BY <3>1
            <4>8. \A j \in 1..i : Append(v, c)[j] = w[j]
                <5> SUFFICES ASSUME NEW j \in 1..i
                             PROVE  Append(v, c)[j] = w[j]
                    OBVIOUS
                <5>1. CASE j <= i - 1
                    <6>1. j \in 1..(i - 1)
                        BY <3>1, <5>1
                    <6>2. v[j] = w[j]
                        BY <4>2, <6>1
                    <6> QED
                        BY <4>6, <4>7, <5>1, <6>2
                <5>2. CASE ~(j <= i - 1)
                    <6>1. j = i
                        BY <3>1, <5>2
                    <6> QED
                        BY <4>3, <4>6, <4>7, <5>2, <6>1
                <5> QED
                    BY <5>1, <5>2
            <4>9. Is(kept[i], i)
                BY <4>5, <4>6, <4>7, <4>8
            <4>10. Len(w) <= i => i = Len(w)
                BY <1>0, <3>4
            <4> QED
                BY <4>9, <4>10 DEF T
        <3>5. CASE ~(i <= Len(w))
            <4>1. Len(w) <= i - 1 /\ i - 1 <= Len(s)
                BY <1>0, <3>1, <3>5
            <4>2. Is(kept[i - 1], Len(w))
                BY <3>2, <4>1 DEF T
            <4>3. s[i] = Space
                BY <3>1, <3>5 DEF Padded
            <4>4. kept[i] = kept[i - 1]
                BY <3>3, <4>3
            <4> HIDE DEF Is
            <4> QED
                BY <3>5, <4>2, <4>4 DEF T
        <3> QED
            BY <3>4, <3>5
    <2>3. CASE ~(i <= Len(s))
        BY <1>0, <2>3
    <2> QED
        BY <2>1, <2>2, <2>3
<1> HIDE DEF T
<1>4. \A i \in Nat : i \in T
    BY <1>3, Induction
<1>5. Is(kept[Len(s)], Len(w))
    <2>1. Len(s) \in T /\ Len(s) <= Len(s)
        BY <1>0, <1>4
    <2> HIDE DEF Is
    <2> QED
        BY <1>0, <2>1 DEF T
<1>6. kept[Len(s)] = w
    <2>1. PICK v \in Seq(Letter) : v = kept[Len(s)] /\ Len(v) = Len(w) /\ \A j \in 1..Len(w) : v[j] = w[j]
        BY <1>5
    <2>2. v = w
        BY <2>1, SeqEqual
    <2> QED
        BY <2>1, <2>2
<1> QED
    BY <1>1, <1>6, KeptUpToIs

NumberUpTo(s) ==
    CHOOSE number : number = [i \in 0..Len(s) |->
        IF i = 0 THEN 0 ELSE 10 * number[i - 1] + (s[i] - 48)]

LEMMA NumberUpToIs ==
    ASSUME NEW s \in Seq(Octet)
    PROVE  /\ NumberUpTo(s) = [i \in 0..Len(s) |->
                IF i = 0 THEN 0 ELSE 10 * NumberUpTo(s)[i - 1] + (s[i] - 48)]
           /\ Number(s) = NumberUpTo(s)[Len(s)]
<1> DEFINE D == 0..Len(s)
           prev == [i \in D |-> IF i = 0 THEN 0 ELSE i - 1]
           rank == [i \in D |-> i]
           base == [i \in D |-> 0]
           next == [i \in D |-> [x \in Int |-> IF i = 0 THEN x ELSE 10 * x + (s[i] - 48)]]
<1>0. Len(s) \in Nat /\ \A i \in 1..Len(s) : s[i] \in Octet
    BY ElementOfSeq
<1>1. Closer(D, Int, {0}, rank, prev, base, next)
    <2>1. prev \in [D -> D] /\ rank \in [D -> Nat]
        BY <1>0
    <2>2. base \in [D -> Int]
        OBVIOUS
    <2>3. next \in [D -> [Int -> Int]]
        <3> SUFFICES ASSUME NEW i \in D, i # 0, NEW x \in Int
                     PROVE  10 * x + (s[i] - 48) \in Int
            OBVIOUS
        <3>1. i \in 1..Len(s)
            BY <1>0
        <3>2. s[i] \in Nat
            BY <3>1, <1>0, OctetNat
        <3> QED
            BY <3>2
    <2>4. \A i \in D : i \notin {0} => rank[prev[i]] < rank[i]
        BY <1>0
    <2> HIDE DEF D, rank, prev, base, next
    <2> QED
        BY <2>1, <2>2, <2>3, <2>4 DEF Closer
<1>2. Solved(D, Int, {0}, prev, base, next)
    <2> HIDE DEF D, rank, prev, base, next
    <2> QED
        BY <1>1, Recursion
<1>3. PICK g \in [D -> Int] : \A i \in D :
          g[i] = IF i \in {0} THEN base[i] ELSE next[i][g[prev[i]]]
    <2> HIDE DEF D, prev, base, next
    <2> QED
        BY <1>2 DEF Solved
<1>4. ASSUME NEW i \in D
      PROVE  g[i] = IF i = 0 THEN 0 ELSE 10 * g[i - 1] + (s[i] - 48)
    <2>1. CASE i = 0
        BY <2>1, <1>3
    <2>2. CASE i # 0
        <3>1. i - 1 \in D /\ prev[i] = i - 1 /\ i \notin {0}
            BY <2>2, <1>0
        <3>2. g[i - 1] \in Int
            <4> HIDE DEF D
            <4> QED
                BY <3>1
        <3>3. next[i][g[i - 1]] = 10 * g[i - 1] + (s[i] - 48)
            <4> HIDE DEF D
            <4> QED
                BY <3>2, <2>2
        <3>4. g[i] = next[i][g[prev[i]]]
            <4> HIDE DEF D, prev, next
            <4> QED
                BY <1>3, <3>1
        <3> HIDE DEF D, prev, next
        <3> QED
            BY <3>1, <3>3, <3>4, <2>2
    <2> QED
        BY <2>1, <2>2
<1>5. g = [i \in 0..Len(s) |-> IF i = 0 THEN 0 ELSE 10 * g[i - 1] + (s[i] - 48)]
    <2>1. DOMAIN g = D /\ g = [i \in D |-> g[i]]
        <3> HIDE DEF D
        <3> QED
            OBVIOUS
    <2> QED
        BY <1>4, <2>1
<1>6. NumberUpTo(s) = [i \in 0..Len(s) |-> IF i = 0 THEN 0 ELSE 10 * NumberUpTo(s)[i - 1] + (s[i] - 48)]
    BY <1>5, Zenon DEF NumberUpTo
<1>7. Number(s) = NumberUpTo(s)[Len(s)]
    BY DEF Number, NumberUpTo
<1> QED
    BY <1>6, <1>7

\* s begins with v.
Begins(s, v) == Len(v) <= Len(s) /\ \A i \in 1..Len(v) : s[i] = v[i]

\* atoi reads what to_string has written.
LEMMA NumberBack == \A n \in Nat : Number(Digits[n]) = n
<1> SUFFICES ASSUME NEW n \in Nat
             PROVE  Number(Digits[n]) = n
    OBVIOUS
<1>1. PICK s \in Seq(Octet) : s = Digits[n]
    BY DigitsType, LetterSeq
<1>2. PICK number : number = NumberUpTo(s)
    OBVIOUS
<1>3. number = [i \in 0..Len(s) |-> IF i = 0 THEN 0 ELSE 10 * number[i - 1] + (s[i] - 48)]
    BY <1>2, NumberUpToIs
<1>0. Len(s) \in Nat
    OBVIOUS
<1> DEFINE T == {m \in Nat : Begins(s, Digits[m]) => number[Len(Digits[m])] = m}
<1>4. ASSUME NEW m \in Nat, \A k \in 0..(m - 1) : k \in T
      PROVE  m \in T
    <2> SUFFICES ASSUME Begins(s, Digits[m])
                 PROVE  number[Len(Digits[m])] = m
        OBVIOUS
    <2>1. CASE m < 10
        <3> HIDE DEF T
        <3>1. Digits[m] = <<48 + m>> /\ Len(<<48 + m>>) = 1 /\ <<48 + m>>[1] = 48 + m
            BY <2>1, DigitsSteps
        <3>2. 1 <= Len(s) /\ s[1] = 48 + m
            BY <3>1 DEF Begins
        <3>3. 1 \in 0..Len(s) /\ 0 \in 0..Len(s)
            BY <3>2, <1>0
        <3>4. number[0] = 0 /\ number[1] = 10 * number[1 - 1] + (s[1] - 48)
            BY <1>3, <3>3
        <3>5. number[1] = m
            BY <3>2, <3>4
        <3> QED
            BY <3>1, <3>5
    <2>2. CASE m >= 10
        <3>1. PICK q \in Nat : q = m \div 10 /\ q \in 0..(m - 1)
            BY <2>2, Ten
        <3>2. PICK r \in 0..9 : r = m % 10 /\ m = 10 * q + r /\ 48 + r \in Letter
            BY <3>1, Ten DEF Letter
        <3>3. q \in T
            BY <3>1, <1>4
        <3> HIDE DEF T
        <3>4. PICK v \in Seq(Letter) : v = Digits[q]
            BY DigitsType
        <3>5. PICK l \in Nat : l = Len(v)
            OBVIOUS
        <3>6. Digits[m] = Append(v, 48 + r)
            BY <2>2, <3>1, <3>2, <3>4, DigitsSteps
        <3>7. Len(Digits[m]) = l + 1
            BY <3>5, <3>6
        <3>8. \A j \in 1..(l + 1) : Digits[m][j] = IF j <= l THEN v[j] ELSE 48 + r
            BY <3>2, <3>5, <3>6, Appended
        <3>9. l + 1 <= Len(s) /\ \A j \in 1..(l + 1) : s[j] = IF j <= l THEN v[j] ELSE 48 + r
            BY <3>7, <3>8 DEF Begins
        <3>10. Begins(s, v)
            <4>1. \A j \in 1..l : j \in 1..(l + 1) /\ j <= l
                OBVIOUS
            <4>2. l <= Len(s)
                BY <3>9, <1>0
            <4> QED
                BY <3>5, <3>9, <4>1, <4>2 DEF Begins
        <3>11. number[l] = q
            BY <3>3, <3>4, <3>5, <3>10 DEF T
        <3>12. l + 1 \in 0..Len(s) /\ l + 1 # 0 /\ (l + 1) - 1 = l /\ l + 1 \in 1..(l + 1) /\ ~(l + 1 <= l)
            BY <3>9, <1>0
        <3>13. s[l + 1] = 48 + r
            BY <3>9, <3>12
        <3>14. number[l + 1] = 10 * number[l] + (s[l + 1] - 48)
            BY <1>3, <3>12
        <3>15. number[l + 1] = m
            BY <3>2, <3>11, <3>13, <3>14
        <3> QED
            BY <3>7, <3>15
    <2> QED
        BY <2>1, <2>2
<1> HIDE DEF T
<1>5. \A m \in Nat : m \in T
    BY <1>4, Induction
<1>6. Begins(s, Digits[n])
    BY <1>0, <1>1 DEF Begins
<1>7. number[Len(s)] = n
    BY <1>1, <1>5, <1>6 DEF T
<1> QED
    BY <1>1, <1>2, <1>7, NumberUpToIs

\* z is what is at the places m + 1 to n of s.
CutOf(z, s, m, n) ==
    z \in Seq(Octet) /\ Len(z) = n - m /\ \A j \in 1..(n - m) : z[j] = s[m + j]

LEMMA OctetCut ==
    ASSUME NEW s \in Seq(Octet), NEW m \in Nat, NEW n \in Nat, m <= n, n <= Len(s)
    PROVE  CutOf(SubSeq(s, m + 1, n), s, m, n)
<1>1. m \in 0..Len(s) /\ n \in m..Len(s)
    OBVIOUS
<1>2. /\ SubSeq(s, m + 1, n) \in Seq(Octet)
      /\ Len(SubSeq(s, m + 1, n)) = n - m
      /\ DOMAIN SubSeq(s, m + 1, n) = 1..(n - m)
      /\ \A j \in 1..(n - m) : SubSeq(s, m + 1, n)[j] = s[m + j] /\ m + j \in 1..Len(s)
    BY <1>1, Cut
<1>3. PICK z : z = SubSeq(s, m + 1, n)
    OBVIOUS
<1>4. z \in Seq(Octet) /\ Len(z) = n - m /\ \A j \in 1..(n - m) : z[j] = s[m + j]
    BY ONLY <1>2, <1>3
<1> QED
    BY <1>3, <1>4 DEF CutOf

\* What s begins with after p is what is cut out there.
LEMMA CutAt ==
    ASSUME NEW s \in Seq(Octet), NEW p \in Nat, NEW w \in Seq(Octet), At(s, p, w)
    PROVE  SubSeq(s, p + 1, p + Len(w)) = w
<1>1. PICK n \in Nat : n = Len(w)
    OBVIOUS
<1>2. p + n <= Len(s) /\ \A i \in 1..n : s[p + i] = w[i]
    BY <1>1 DEF At
<1>3. PICK e \in Nat : e = p + n /\ p <= e /\ e <= Len(s) /\ e - p = n
    BY <1>2
<1>4. PICK z : z = SubSeq(s, p + 1, e)
    OBVIOUS
<1>5. CutOf(z, s, p, e)
    BY <1>3, <1>4, OctetCut
<1>6. z \in Seq(Octet) /\ Len(z) = n /\ \A i \in 1..n : z[i] = s[p + i]
    BY <1>3, <1>5 DEF CutOf
<1>7. z = w
    <2>1. Len(z) = Len(w) /\ \A i \in 1..Len(z) : z[i] = w[i]
        BY <1>1, <1>2, <1>6
    <2> QED
        BY ONLY <2>1, <1>6, w \in Seq(Octet), SeqEqual
<1> QED
    BY <1>1, <1>3, <1>4, <1>7

Behind(s, a, b, r) == SubSeq(r, b + 1, Len(r)) = SubSeq(s, (a + b) + 1, Len(s))

\* What is behind the first a places of what is behind the first b.
LEMMA CutTwice ==
    ASSUME NEW s \in Seq(Octet), NEW a \in Nat, NEW b \in Nat, a + b <= Len(s),
           NEW r, CutOf(r, s, a, Len(s))
    PROVE  Behind(s, a, b, r)
<1>1. PICK l \in Nat : l = Len(s)
    OBVIOUS
<1>2. PICK c \in Nat : c = a + b /\ c <= l
    BY <1>1
<1>3. r \in Seq(Octet) /\ Len(r) = l - a /\ \A j \in 1..(l - a) : r[j] = s[a + j]
    BY <1>1 DEF CutOf
<1>4. PICK m \in Nat : m = Len(r) /\ m = l - a /\ b <= m /\ m - b = l - c
    <2>1. l - a \in Nat /\ b <= l - a /\ (l - a) - b = l - c
        BY <1>1, <1>2
    <2> QED
        BY <1>3, <2>1
<1>5. PICK y : y = SubSeq(r, b + 1, m)
    OBVIOUS
<1>6. CutOf(y, r, b, m)
    BY <1>3, <1>4, <1>5, OctetCut
<1>7. PICK z : z = SubSeq(s, c + 1, l)
    OBVIOUS
<1>8. CutOf(z, s, c, l)
    BY <1>1, <1>2, <1>7, OctetCut
<1>9. y \in Seq(Octet) /\ Len(y) = m - b /\ \A j \in 1..(m - b) : y[j] = r[b + j]
    BY <1>6 DEF CutOf
<1>10. z \in Seq(Octet) /\ Len(z) = l - c /\ \A j \in 1..(l - c) : z[j] = s[c + j]
    BY <1>8 DEF CutOf
<1>11. \A j \in 1..(m - b) : y[j] = z[j]
    <2>1. \A j \in 1..(m - b) : b + j \in 1..(l - a) /\ a + (b + j) = c + j
        BY <1>2, <1>4
    <2> QED
        BY <1>3, <1>4, <1>9, <1>10, <2>1
<1>12. y = z
    <2>1. Len(y) = Len(z) /\ \A j \in 1..Len(y) : y[j] = z[j]
        BY <1>4, <1>9, <1>10, <1>11
    <2> QED
        BY ONLY <2>1, <1>9, <1>10, SeqEqual
<1> QED
    BY <1>1, <1>2, <1>4, <1>5, <1>7, <1>12 DEF Behind

LEMMA PadIsPadded ==
    ASSUME NEW w \in Seq(Letter), NEW n \in Nat, Len(w) <= n
    PROVE  Pad(w, n) \in Seq(Octet) /\ Len(Pad(w, n)) = n /\ TrimSpaces(Pad(w, n)) = w
<1>1. w \in Seq(Octet) /\ Len(w) \in Nat
    BY LetterSeq
<1>2. PICK s \in Seq(Octet) : s = Pad(w, n) /\ Len(s) = n
                              /\ (\A i \in 1..Len(w) : s[i] = w[i])
                              /\ (\A i \in 1..n : i > Len(w) => s[i] = Space)
    BY <1>1, PadType
<1>3. Padded(s, w)
    <2>1. \A i \in 1..n : i <= Len(w) => i \in 1..Len(w)
        BY <1>1
    <2>2. \A i \in 1..n : ~(i <= Len(w)) => i > Len(w)
        BY <1>1
    <2> QED
        BY <1>2, <2>1, <2>2 DEF Padded
<1> QED
    BY <1>2, <1>3, TrimBack

\* The tag has the value now, and the others have theirs.
Put(map, tag, val) == [t \in DOMAIN map \cup {tag} |-> IF t = tag THEN val ELSE map[t]]

StepTakes(s, map, tag, val) ==
    TlvStep(s, map) = [ok |-> TRUE,
                       tlv |-> SubSeq(s, Len(Entry(tag, val)) + 1, Len(s)),
                       map |-> Put(map, tag, val)]

\* One turn of TlvToStringMap takes one tagged value.
LEMMA TlvStepBack ==
    ASSUME NEW s \in Seq(Octet), NEW tag \in Seq(Letter), Len(tag) <= TagLen,
           NEW val \in Seq(Octet), Len(Digits[Len(val)]) <= ValLen,
           At(s, 0, Entry(tag, val)), NEW map
    PROVE  /\ Len(Entry(tag, val)) = TagLen + ValLen + Len(val)
           /\ StepTakes(s, map, tag, val)
<1>0. TagLen \in Nat /\ ValLen \in Nat /\ tag \in Seq(Octet) /\ Len(val) \in Nat /\ Len(s) \in Nat
    BY WidthAssumption, LetterSeq
<1>1. PICK a \in Seq(Octet) : a = Pad(tag, TagLen) /\ Len(a) = TagLen /\ TrimSpaces(a) = tag
    BY <1>0, PadIsPadded
<1>2. Digits[Len(val)] \in Seq(Letter)
    BY <1>0, DigitsType
<1>3. PICK b \in Seq(Octet) : b = Pad(Digits[Len(val)], ValLen) /\ Len(b) = ValLen
                              /\ TrimSpaces(b) = Digits[Len(val)]
    BY <1>0, <1>2, PadIsPadded
<1>4. PICK h \in Seq(Octet) : h = a \o b /\ Len(h) = TagLen + ValLen
    <2>1. a \o b \in Seq(Octet) /\ Len(a \o b) = Len(a) + Len(b)
        BY ONLY a \in Seq(Octet), b \in Seq(Octet)
    <2> QED
        BY <2>1, <1>1, <1>3
<1>5. Entry(tag, val) = h \o val
    BY <1>1, <1>3, <1>4 DEF Entry
<1>6. Len(h \o val) = (TagLen + ValLen) + Len(val)
    <2>1. Len(h \o val) = Len(h) + Len(val)
        BY ONLY h \in Seq(Octet), val \in Seq(Octet)
    <2> QED
        BY <1>4, <2>1
<1>7. At(s, 0, h) /\ At(s, 0 + Len(h), val)
    BY <1>5, AtSplit
<1>8. At(s, 0, a) /\ At(s, 0 + Len(a), b)
    BY <1>4, <1>7, AtSplit
<1>9. SubSeq(s, 1, TagLen) = a
    <2>1. SubSeq(s, 0 + 1, 0 + Len(a)) = a
        BY <1>8, CutAt
    <2>2. 0 + 1 = 1 /\ 0 + Len(a) = TagLen
        BY <1>0, <1>1
    <2> QED
        BY <2>1, <2>2
<1>10. SubSeq(s, TagLen + 1, TagLen + ValLen) = b
    <2>1. At(s, TagLen, b)
        BY <1>0, <1>1, <1>8
    <2>2. SubSeq(s, TagLen + 1, TagLen + Len(b)) = b
        BY <1>0, <2>1, CutAt
    <2> QED
        BY <2>2, <1>3
<1>11. PICK n \in Nat : n = TagLen + ValLen
    BY <1>0
<1>12. n + Len(val) <= Len(s) /\ \A i \in 1..Len(val) : s[n + i] = val[i]
    BY <1>0, <1>4, <1>7, <1>11 DEF At
<1>13. PICK rest : rest = SubSeq(s, n + 1, Len(s))
    OBVIOUS
<1>19. CutOf(rest, s, n, Len(s))
    BY <1>0, <1>12, <1>13, OctetCut
<1>20. rest \in Seq(Octet) /\ Len(rest) = Len(s) - n
       /\ \A j \in 1..(Len(s) - n) : rest[j] = s[n + j]
    BY <1>19 DEF CutOf
<1>14. ~(Len(rest) < Len(val)) /\ Len(val) <= Len(rest)
    BY <1>0, <1>12, <1>20
<1>15. SubSeq(rest, 1, Len(val)) = val
    <2>1. \A i \in 1..Len(val) : i \in 1..(Len(s) - n) /\ 0 + i = i
        BY <1>0, <1>12
    <2>2. \A i \in 1..Len(val) : rest[0 + i] = val[i]
        BY <1>12, <1>20, <2>1
    <2>3. At(rest, 0, val)
        BY <1>0, <1>14, <1>20, <2>2 DEF At
    <2>4. SubSeq(rest, 0 + 1, 0 + Len(val)) = val
        BY <2>3, <1>20, CutAt
    <2>5. 0 + 1 = 1 /\ 0 + Len(val) = Len(val)
        BY <1>0
    <2> QED
        BY <2>4, <2>5
<1>16. SubSeq(rest, Len(val) + 1, Len(rest)) = SubSeq(s, (n + Len(val)) + 1, Len(s))
    <2>1. PICK v \in Nat : v = Len(val)
        BY <1>0
    <2>2. n + v <= Len(s)
        BY <1>12, <2>1
    <2>3. Behind(s, n, v, rest)
        BY <1>11, <1>19, <2>1, <2>2, CutTwice
    <2> QED
        BY <2>1, <2>3 DEF Behind
<1>17. Number(TrimSpaces(b)) = Len(val)
    BY <1>0, <1>3, NumberBack
<1>18. TlvStep(s, map) = [ok |-> TRUE, tlv |-> SubSeq(rest, Len(val) + 1, Len(rest)),
                          map |-> Put(map, tag, val)]
    <2>1. PICK len : len = Len(val)
        OBVIOUS
    <2>2. TlvStep(s, map) =
             IF Len(rest) < len THEN [ok |-> FALSE, tlv |-> <<>>, map |-> map]
             ELSE [ok |-> TRUE, tlv |-> SubSeq(rest, len + 1, Len(rest)),
                   map |-> [t \in DOMAIN map \cup {tag} |->
                               IF t = tag THEN SubSeq(rest, 1, len) ELSE map[t]]]
        <3>1. TrimSpaces(SubSeq(s, 1, TagLen)) = tag
            BY <1>1, <1>9
        <3>2. Number(TrimSpaces(SubSeq(s, TagLen + 1, TagLen + ValLen))) = len
            BY <1>10, <1>17, <2>1
        <3>3. SubSeq(s, (TagLen + ValLen) + 1, Len(s)) = rest
            BY <1>11, <1>13
        <3> QED
            BY ONLY <3>1, <3>2, <3>3, Zenon DEF TlvStep
    <2>3. [t \in DOMAIN map \cup {tag} |-> IF t = tag THEN SubSeq(rest, 1, len) ELSE map[t]]
              = Put(map, tag, val)
        BY <1>15, <2>1 DEF Put
    <2> QED
        BY <1>14, <2>1, <2>2, <2>3
<1> QED
    BY <1>5, <1>6, <1>11, <1>16, <1>18 DEF StepTakes


LEMMA StringsNext ==
    ASSUME NEW ps \in Lists, NEW n \in 1..Len(ps)
    PROVE  Strings(ps)[n] = Strings(ps)[n - 1] \o Entry(ps[n][1], ps[n][2])
<1>1. PICK tag \in Seq(Octet) : tag = ps[n][1]
    BY ListsType
<1>2. PICK val \in Seq(Octet) : val = ps[n][2]
    BY ListsType
<1>3. PICK a \in Seq(Octet) : a = Strings(ps)[n - 1]
    <2>1. n - 1 \in 0..Len(ps)
        BY ListsType
    <2> QED
        BY <2>1, StringsType
<1>4. Strings(ps)[n] = TlvAppend(a, tag, val)
    BY <1>1, <1>2, <1>3, StringsSteps
<1>5. TlvAppend(a, tag, val) = a \o Entry(tag, val)
    BY AppendIs
<1> QED
    BY <1>1, <1>2, <1>3, <1>4, <1>5

\* What a handshake's string begins with is what was appended first.
LEMMA StringsThere ==
    ASSUME NEW ps \in Lists
    PROVE  \A n \in 0..Len(ps) : At(Tlv(ps), 0, Strings(ps)[n])
<1>1. PICK l \in Nat : l = Len(ps) /\ \A n \in 1..l : ps[n][1] \in Seq(Octet) /\ ps[n][2] \in Seq(Octet)
    BY ListsType
<1>2. PICK bytes \in Seq(Octet) : bytes = Tlv(ps) /\ bytes = Strings(ps)[l]
    <2>1. l \in 0..Len(ps)
        BY <1>1
    <2> QED
        BY <1>1, <2>1, StringsIs, StringsType
<1> DEFINE T == {d \in Nat : d <= l => At(bytes, 0, Strings(ps)[l - d])}
<1>3. ASSUME NEW d \in Nat, \A m \in 0..(d - 1) : m \in T
      PROVE  d \in T
    <2>1. CASE d = 0
        <3>1. l - d = l
            BY <2>1
        <3>2. At(bytes, 0, bytes)
            BY DEF At
        <3> QED
            BY <1>2, <3>1, <3>2
    <2>2. CASE d # 0 /\ d <= l
        <3>1. d - 1 \in 0..(d - 1) /\ d - 1 <= l
            BY <2>2
        <3>2. At(bytes, 0, Strings(ps)[l - (d - 1)])
            BY <3>1, <1>3
        <3> HIDE DEF T
        <3>3. PICK n \in 1..l : n = l - (d - 1)
            BY <2>2
        <3>4. n - 1 = l - d /\ n - 1 \in 0..Len(ps)
            BY <3>3, <1>1, <2>2
        <3>5. PICK a \in Seq(Octet) : a = Strings(ps)[n - 1]
            BY <3>4, StringsType
        <3>6. PICK b \in Seq(Octet) : b = Entry(ps[n][1], ps[n][2])
            BY <1>1, EntryType
        <3>7. Strings(ps)[n] = a \o b
            BY <1>1, <3>5, <3>6, StringsNext
        <3>8. At(bytes, 0, a)
            BY <3>2, <3>3, <3>7, AtSplit
        <3> QED
            BY <3>4, <3>5, <3>8 DEF T
    <2> QED
        BY <2>1, <2>2
<1> HIDE DEF T
<1>4. \A d \in Nat : d \in T
    BY <1>3, Induction
<1>5. \A n \in 0..l : l - n \in Nat /\ l - n <= l /\ l - (l - n) = n
    BY <1>1
<1> QED
    BY <1>1, <1>2, <1>4, <1>5 DEF T

\* Where the n-th of the tagged values is, and how long it is.
EntryAt(ps, n) ==
    LET e == Entry(ps[n][1], ps[n][2]) IN
    /\ e \in Seq(Octet)
    /\ Len(Strings(ps)[n - 1]) \in Nat
    /\ Len(Strings(ps)[n]) = Len(Strings(ps)[n - 1]) + Len(e)
    /\ At(Tlv(ps), Len(Strings(ps)[n - 1]), e)
    /\ Len(e) = TagLen + ValLen + Len(ps[n][2])

LEMMA EntryThere ==
    ASSUME NEW ps \in Lists, NEW n \in 1..Len(ps)
    PROVE  EntryAt(ps, n)
<1>1. Len(ps) \in Nat /\ n \in 0..Len(ps) /\ n - 1 \in 0..Len(ps)
    BY ListsType
<1>2. PICK tag \in Seq(Letter) : tag = ps[n][1] /\ tag \in Seq(Octet) /\ Len(tag) <= TagLen
    BY ListsType, PairsAssumption
<1>3. PICK val \in Seq(Octet) : val = ps[n][2] /\ Len(Digits[Len(val)]) <= ValLen
    BY ListsType, PairsAssumption
<1>4. PICK a \in Seq(Octet) : a = Strings(ps)[n - 1]
    BY <1>1, StringsType
<1>5. PICK b \in Seq(Octet) : b = Entry(tag, val)
    BY <1>2, <1>3, EntryType
<1>6. Strings(ps)[n] = a \o b
    BY <1>2, <1>3, <1>4, <1>5, StringsNext
<1>7. PICK bytes \in Seq(Octet) : bytes = Tlv(ps)
    <2>1. Len(ps) \in 0..Len(ps)
        BY <1>1
    <2> QED
        BY <2>1, StringsIs, StringsType
<1>8. At(bytes, 0, a \o b)
    BY <1>1, <1>6, <1>7, StringsThere
<1>9. At(bytes, 0 + Len(a), b)
    BY <1>8, AtSplit
<1>10. Len(a) \in Nat /\ 0 + Len(a) = Len(a)
    OBVIOUS
<1>11. Len(a \o b) = Len(a) + Len(b)
    BY ONLY a \in Seq(Octet), b \in Seq(Octet)
<1>12. Len(b) = TagLen + ValLen + Len(val)
    <2>1. \A i \in 1..Len(b) : 0 + i = i
        OBVIOUS
    <2>2. At(b, 0, b)
        BY <2>1 DEF At
    <2> QED
        BY <1>2, <1>3, <1>5, <2>2, TlvStepBack
<1>13. b = Entry(ps[n][1], ps[n][2])
    BY <1>2, <1>3, <1>5
<1>14. At(bytes, Len(a), b)
    BY <1>9, <1>10
<1>15. Len(Strings(ps)[n]) = Len(a) + Len(b)
    BY <1>6, <1>11
<1> QED
    BY <1>3, <1>4, <1>7, <1>10, <1>12, <1>13, <1>14, <1>15 DEF EntryAt

\* The string of a handshake has a byte, and more, for every turn that it takes.
LEMMA StringsLong ==
    ASSUME NEW ps \in Lists
    PROVE  /\ Len(ps) \in Nat /\ Len(Tlv(ps)) \in Nat /\ Len(ps) <= Len(Tlv(ps))
           /\ Len(ps) # 0 => TagLen + ValLen <= Len(Tlv(ps))
<1>1. PICK l \in Nat : l = Len(ps)
    BY ListsType
<1>2. TagLen \in Nat /\ TagLen >= 1 /\ ValLen \in Nat
    BY WidthAssumption
<1> DEFINE T == {n \in Nat : n <= l => Len(Strings(ps)[n]) >= n /\ (n # 0 => Len(Strings(ps)[n]) >= TagLen + ValLen)}
<1>3. ASSUME NEW n \in Nat, \A m \in 0..(n - 1) : m \in T
      PROVE  n \in T
    <2>1. CASE n = 0
        <3>1. Strings(ps)[n] = <<>> /\ Len(<<>>) = 0
            BY <2>1, StringsSteps
        <3> QED
            BY <2>1, <3>1
    <2>2. CASE n # 0 /\ n <= l
        <3>1. n - 1 \in 0..(n - 1) /\ n \in 1..Len(ps) /\ n - 1 <= l
            BY <1>1, <2>2
        <3>2. Len(Strings(ps)[n - 1]) >= n - 1
            BY <3>1, <1>3
        <3> HIDE DEF T
        <3>3. EntryAt(ps, n)
            BY <3>1, EntryThere
        <3>4. PICK a \in Nat : a = Len(Strings(ps)[n - 1])
            BY <3>3 DEF EntryAt
        <3>5. PICK v \in Nat : v = Len(ps[n][2])
            <4>1. ps[n][2] \in Seq(Octet)
                BY <3>1, ListsType
            <4> QED
                BY <4>1
        <3>6. Len(Strings(ps)[n]) = a + (TagLen + ValLen + v)
            BY <3>3, <3>4, <3>5 DEF EntryAt
        <3>7. Len(Strings(ps)[n]) >= n /\ Len(Strings(ps)[n]) >= TagLen + ValLen
            <4>1. a + (TagLen + ValLen + v) >= n /\ a + (TagLen + ValLen + v) >= TagLen + ValLen
                <5>1. a >= n - 1
                    BY <3>2, <3>4
                <5>2. PICK x \in Nat : x = TagLen
                    BY <1>2
                <5>3. PICK y \in Nat : y = ValLen
                    BY <1>2
                <5>4. x >= 1
                    BY <1>2, <5>2
                <5>5. a + (x + y + v) >= n /\ a + (x + y + v) >= x + y
                    BY <5>1, <5>4
                <5> QED
                    BY <5>2, <5>3, <5>5
            <4> QED
                BY <3>6, <4>1
        <3> QED
            BY <3>7 DEF T
    <2> QED
        BY <2>1, <2>2
<1> HIDE DEF T
<1>4. l \in T
    BY <1>3, Induction
<1>5. Strings(ps)[l] = Tlv(ps)
    BY <1>1, StringsIs
<1>6. Len(Tlv(ps)) \in Nat
    <2>1. PICK t \in Seq(Octet) : t = Tlv(ps)
        BY <1>1, StringsIs, StringsType
    <2> QED
        BY <2>1
<1> QED
    BY <1>1, <1>4, <1>5, <1>6 DEF T

-----------------------------------------------------------------------------
(* What is appended is found *)

\* How TlvToStringMap begins, and a turn of its loop.
MapFirst(tlv) == [ok |-> Len(tlv) >= TagLen + ValLen, tlv |-> tlv, map |-> <<>>]
Turned(last) == IF Len(last.tlv) < TagLen + ValLen THEN last ELSE TlvStep(last.tlv, last.map)

MapLoop(tlv) ==
    CHOOSE loop : loop = [n \in 0..Len(tlv) |->
        IF n = 0 THEN [ok |-> Len(tlv) >= TagLen + ValLen, tlv |-> tlv, map |-> <<>>]
        ELSE LET last == loop[n - 1] IN
             IF Len(last.tlv) < TagLen + ValLen THEN last ELSE TlvStep(last.tlv, last.map)]

LEMMA SomeLoop ==
    ASSUME NEW tlv
    PROVE  \A n \in Nat : \E g : g = [m \in 0..n |-> IF m = 0 THEN MapFirst(tlv) ELSE Turned(g[m - 1])]
<1> DEFINE Is(g, n) == g = [m \in 0..n |-> IF m = 0 THEN MapFirst(tlv) ELSE Turned(g[m - 1])]
           T == {n \in Nat : \E g : Is(g, n)}
<1>1. ASSUME NEW n \in Nat, \A m \in 0..(n - 1) : m \in T
      PROVE  n \in T
    <2>1. CASE n = 0
        <3>1. PICK g : g = [m \in 0..0 |-> MapFirst(tlv)]
            OBVIOUS
        <3>2. \A m \in 0..0 : m = 0
            OBVIOUS
        <3>3. Is(g, 0)
            BY <3>1, <3>2
        <3> QED
            BY <2>1, <3>3
    <2>2. CASE n # 0
        <3>1. n - 1 \in 0..(n - 1) /\ n - 1 \in Nat
            BY <2>2
        <3>2. PICK g : Is(g, n - 1)
            BY <3>1, <1>1
        <3>3. PICK h : h = [m \in 0..n |-> IF m = n THEN Turned(g[n - 1]) ELSE g[m]]
            OBVIOUS
        <3> HIDE DEF T
        <3>4. \A m \in 0..(n - 1) : h[m] = g[m]
            <4>1. \A m \in 0..(n - 1) : m \in 0..n /\ m # n
                BY <2>2
            <4> QED
                BY <3>3, <4>1
        <3>5. h[n] = Turned(h[n - 1])
            <4>1. n \in 0..n
                BY <2>2
            <4>2. h[n] = Turned(g[n - 1])
                BY <3>3, <4>1
            <4> QED
                BY <3>1, <3>4, <4>2
        <3>6. \A m \in 0..(n - 1) : h[m] = IF m = 0 THEN MapFirst(tlv) ELSE Turned(h[m - 1])
            <4>1. \A m \in 0..(n - 1) : g[m] = IF m = 0 THEN MapFirst(tlv) ELSE Turned(g[m - 1])
                BY <3>2
            <4>2. \A m \in 0..(n - 1) : m # 0 => m - 1 \in 0..(n - 1)
                BY <2>2
            <4> QED
                BY <3>4, <4>1, <4>2
        <3>7. \A m \in 0..n : h[m] = IF m = 0 THEN MapFirst(tlv) ELSE Turned(h[m - 1])
            <4>1. \A m \in 0..n : m = n \/ m \in 0..(n - 1)
                BY <2>2
            <4> QED
                BY <2>2, <3>5, <3>6, <4>1
        <3>8. Is(h, n)
            BY <3>3, <3>7
        <3> HIDE DEF Is
        <3> QED
            BY <3>8 DEF T
    <2> QED
        BY <2>1, <2>2
<1> HIDE DEF T
<1>2. \A n \in Nat : n \in T
    BY <1>1, Induction
<1> QED
    BY <1>2 DEF T

LEMMA MapLoopIs ==
    ASSUME NEW tlv, Len(tlv) \in Nat
    PROVE  /\ MapLoop(tlv)[0] = MapFirst(tlv)
           /\ \A n \in 1..Len(tlv) : MapLoop(tlv)[n] = Turned(MapLoop(tlv)[n - 1])
           /\ TlvToStringMap(tlv) = MapLoop(tlv)[Len(tlv)]
<1>1. PICK g : g = [m \in 0..Len(tlv) |-> IF m = 0 THEN MapFirst(tlv) ELSE Turned(g[m - 1])]
    BY SomeLoop
<1>2. g = [n \in 0..Len(tlv) |->
        IF n = 0 THEN [ok |-> Len(tlv) >= TagLen + ValLen, tlv |-> tlv, map |-> <<>>]
        ELSE LET last == g[n - 1] IN
             IF Len(last.tlv) < TagLen + ValLen THEN last ELSE TlvStep(last.tlv, last.map)]
    BY <1>1, Zenon DEF MapFirst, Turned
<1>3. MapLoop(tlv) = [n \in 0..Len(tlv) |->
        IF n = 0 THEN [ok |-> Len(tlv) >= TagLen + ValLen, tlv |-> tlv, map |-> <<>>]
        ELSE LET last == MapLoop(tlv)[n - 1] IN
             IF Len(last.tlv) < TagLen + ValLen THEN last ELSE TlvStep(last.tlv, last.map)]
    BY <1>2, Zenon DEF MapLoop
<1>4. PICK loop : loop = MapLoop(tlv)
    OBVIOUS
<1>5. loop = [n \in 0..Len(tlv) |-> IF n = 0 THEN MapFirst(tlv) ELSE Turned(loop[n - 1])]
    BY <1>3, <1>4, Zenon DEF MapFirst, Turned
<1>6. 0 \in 0..Len(tlv) /\ \A n \in 1..Len(tlv) : n \in 0..Len(tlv) /\ n # 0
    OBVIOUS
<1>7. loop[0] = MapFirst(tlv) /\ \A n \in 1..Len(tlv) : loop[n] = Turned(loop[n - 1])
    BY <1>5, <1>6
<1>8. TlvToStringMap(tlv) = MapLoop(tlv)[Len(tlv)]
    BY Zenon DEF TlvToStringMap, MapLoop
<1> QED
    BY <1>4, <1>7, <1>8

\* The map has the tags of the first k, and for each the value that came last.
MapIs(map, ps, k) ==
    /\ DOMAIN map = {ps[i][1] : i \in 1..k}
    /\ \A i \in 1..k : (\A j \in (i + 1)..k : ps[j][1] # ps[i][1]) => map[ps[i][1]] = ps[i][2]

LEMMA PutIs ==
    ASSUME NEW ps, NEW k \in Nat, k # 0, NEW map, MapIs(map, ps, k - 1)
    PROVE  MapIs(Put(map, ps[k][1], ps[k][2]), ps, k)
<1>1. PICK new : new = Put(map, ps[k][1], ps[k][2])
    OBVIOUS
<1>2. \A i : i \in 1..k <=> (i \in 1..(k - 1) \/ i = k)
    OBVIOUS
<1>3. DOMAIN map = {ps[i][1] : i \in 1..(k - 1)}
    BY DEF MapIs
<1>4. DOMAIN new = DOMAIN map \cup {ps[k][1]}
      /\ \A t \in DOMAIN map \cup {ps[k][1]} : new[t] = IF t = ps[k][1] THEN ps[k][2] ELSE map[t]
    BY <1>1 DEF Put
<1>5. DOMAIN new = {ps[i][1] : i \in 1..k}
    BY <1>2, <1>3, <1>4
<1>6. ASSUME NEW i \in 1..k, \A j \in (i + 1)..k : ps[j][1] # ps[i][1]
      PROVE  new[ps[i][1]] = ps[i][2]
    <2>1. CASE i = k
        BY <2>1, <1>4
    <2>2. CASE i # k
        <3>1. i \in 1..(k - 1) /\ k \in (i + 1)..k
            BY <2>2
        <3>2. \A j \in (i + 1)..(k - 1) : j \in (i + 1)..k
            OBVIOUS
        <3>3. ps[k][1] # ps[i][1]
            BY <1>6, <3>1
        <3>4. map[ps[i][1]] = ps[i][2]
            BY <1>6, <3>1, <3>2 DEF MapIs
        <3>5. ps[i][1] \in DOMAIN map
            BY <1>3, <3>1
        <3> QED
            BY <1>4, <3>3, <3>4, <3>5
    <2> QED
        BY <2>1, <2>2
<1> QED
    BY <1>1, <1>5, <1>6 DEF MapIs

\* What TlvToStringMap has when it has taken k of the tagged values.
After(last, ps, k) ==
    /\ last.ok
    /\ CutOf(last.tlv, Tlv(ps), Len(Strings(ps)[k]), Len(Tlv(ps)))
    /\ MapIs(last.map, ps, k)

LEMMA AtBehind ==
    ASSUME NEW t \in Seq(Octet), NEW p \in Nat, NEW e \in Seq(Octet), At(t, p, e),
           NEW s, CutOf(s, t, p, Len(t))
    PROVE  At(s, 0, e)
<1>1. PICK l \in Nat : l = Len(t)
    OBVIOUS
<1>2. PICK n \in Nat : n = Len(e)
    OBVIOUS
<1>3. p + n <= l /\ \A i \in 1..n : t[p + i] = e[i]
    BY <1>1, <1>2 DEF At
<1>4. Len(s) = l - p /\ \A j \in 1..(l - p) : s[j] = t[p + j]
    BY <1>1 DEF CutOf
<1>5. \A i \in 1..n : i \in 1..(l - p) /\ 0 + i = i
    BY <1>3
<1>6. 0 + n <= l - p
    BY <1>3
<1>7. \A i \in 1..n : s[0 + i] = e[i]
    BY <1>3, <1>4, <1>5
<1> QED
    BY <1>2, <1>4, <1>6, <1>7 DEF At

\* A turn takes the next of the tagged values.
LEMMA TurnTakes ==
    ASSUME NEW ps \in Lists, NEW k \in 1..Len(ps), NEW last, After(last, ps, k - 1)
    PROVE  After(Turned(last), ps, k)
<1>1. PICK t \in Seq(Octet) : t = Tlv(ps)
    <2>1. Len(ps) \in 0..Len(ps)
        BY ListsType
    <2> QED
        BY <2>1, StringsIs, StringsType
<1>2. PICK tag \in Seq(Letter) : tag = ps[k][1] /\ Len(tag) <= TagLen
    BY ListsType, PairsAssumption
<1>3. PICK val \in Seq(Octet) : val = ps[k][2] /\ Len(Digits[Len(val)]) <= ValLen
    BY ListsType, PairsAssumption
<1>4. EntryAt(ps, k)
    BY EntryThere
<1>5. PICK e \in Seq(Octet) : e = Entry(tag, val)
    BY <1>2, <1>3, <1>4 DEF EntryAt
<1>6. PICK p \in Nat : p = Len(Strings(ps)[k - 1])
    BY <1>4 DEF EntryAt
<1>7. At(t, p, e) /\ Len(Strings(ps)[k]) = p + Len(e) /\ Len(e) = TagLen + ValLen + Len(val)
    BY <1>1, <1>2, <1>3, <1>4, <1>5, <1>6 DEF EntryAt
<1>8. PICK s : s = last.tlv
    OBVIOUS
<1>9. PICK map : map = last.map
    OBVIOUS
<1>10. CutOf(s, t, p, Len(t)) /\ MapIs(map, ps, k - 1)
    BY <1>1, <1>6, <1>8, <1>9 DEF After
<1>11. s \in Seq(Octet)
    BY <1>10 DEF CutOf
<1>12. At(s, 0, e)
    BY <1>7, <1>10, AtBehind
<1>13. PICK n \in Nat : n = Len(e)
    OBVIOUS
<1>14. n <= Len(s)
    BY <1>12, <1>13, <1>11 DEF At
<1>15. ~(Len(s) < TagLen + ValLen)
    <2>1. PICK x \in Nat : x = TagLen
        BY WidthAssumption
    <2>2. PICK y \in Nat : y = ValLen
        BY WidthAssumption
    <2>3. PICK v \in Nat : v = Len(val)
        OBVIOUS
    <2>4. PICK r \in Nat : r = Len(s)
        BY <1>11
    <2>5. x + y + v <= r
        BY <1>7, <1>13, <1>14, <2>1, <2>2, <2>3, <2>4
    <2>6. ~(r < x + y)
        BY <2>5
    <2> QED
        BY <2>1, <2>2, <2>4, <2>6
<1>16. Turned(last) = TlvStep(s, map)
    BY <1>8, <1>9, <1>15 DEF Turned
<1>17. TlvStep(s, map) = [ok |-> TRUE, tlv |-> SubSeq(s, Len(Entry(tag, val)) + 1, Len(s)),
                          map |-> Put(map, tag, val)]
    <2>1. StepTakes(s, map, tag, val)
        BY <1>2, <1>3, <1>5, <1>11, <1>12, TlvStepBack
    <2> QED
        BY <2>1 DEF StepTakes
<1>18. PICK new : new = Turned(last)
    OBVIOUS
<1>19. new.ok /\ new.tlv = SubSeq(s, n + 1, Len(s)) /\ new.map = Put(map, tag, val)
    BY <1>5, <1>13, <1>16, <1>17, <1>18
<1>20. p + n <= Len(t)
    BY <1>7, <1>13 DEF At
<1>21. Behind(t, p, n, s)
    BY <1>10, <1>20, CutTwice
<1>22. new.tlv = SubSeq(t, (p + n) + 1, Len(t))
    BY <1>19, <1>21 DEF Behind
<1>23. CutOf(new.tlv, t, p + n, Len(t))
    <2>1. PICK m \in Nat : m = p + n
        OBVIOUS
    <2>2. PICK l \in Nat : l = Len(t)
        OBVIOUS
    <2>3. CutOf(SubSeq(t, m + 1, l), t, m, l)
        BY <1>20, <2>1, <2>2, OctetCut
    <2> QED
        BY <1>22, <2>1, <2>2, <2>3
<1>24. MapIs(new.map, ps, k)
    <2>1. k \in Nat /\ k # 0
        BY ListsType
    <2>2. MapIs(Put(map, ps[k][1], ps[k][2]), ps, k)
        BY <1>10, <2>1, PutIs
    <2> QED
        BY <1>2, <1>3, <1>19, <2>2
<1> QED
    BY <1>1, <1>7, <1>13, <1>18, <1>19, <1>23, <1>24 DEF After

\* When it has all of them, nothing is left to take.
LEMMA TurnRests ==
    ASSUME NEW ps \in Lists, NEW last, After(last, ps, Len(ps))
    PROVE  Turned(last) = last
<1>1. PICK l \in Nat : l = Len(Tlv(ps))
    BY StringsLong
<1>2. CutOf(last.tlv, Tlv(ps), l, l)
    BY <1>1, StringsIs DEF After
<1>3. Len(last.tlv) = 0
    BY <1>2 DEF CutOf
<1>4. 0 < TagLen + ValLen
    BY WidthAssumption
<1> QED
    BY <1>3, <1>4 DEF Turned

\* TlvToStringMap finds what was appended.
LEMMA MapBack ==
    ASSUME NEW ps \in Lists, Len(ps) # 0
    PROVE  TlvToStringMap(Tlv(ps)).ok /\ MapIs(TlvToStringMap(Tlv(ps)).map, ps, Len(ps))
<1>1. PICK t \in Seq(Octet) : t = Tlv(ps)
    <2>1. Len(ps) \in 0..Len(ps)
        BY ListsType
    <2> QED
        BY <2>1, StringsIs, StringsType
<1>2. PICK l \in Nat : l = Len(t)
    OBVIOUS
<1>3. PICK m \in Nat : m = Len(ps) /\ m <= l /\ TagLen + ValLen <= l
    BY <1>1, <1>2, StringsLong
<1>4. PICK loop : loop = MapLoop(t)
    OBVIOUS
<1>5. /\ loop[0] = MapFirst(t)
      /\ \A n \in 1..l : loop[n] = Turned(loop[n - 1])
      /\ TlvToStringMap(t) = loop[l]
    BY <1>2, <1>4, MapLoopIs
<1>6. After(loop[0], ps, 0)
    <2>1. PICK last : last = MapFirst(t)
        OBVIOUS
    <2>2. last.ok /\ last.tlv = t /\ last.map = <<>>
        BY <1>2, <1>3, <2>1, WidthAssumption DEF MapFirst
    <2>3. Len(Strings(ps)[0]) = 0
        BY StringsSteps
    <2>4. CutOf(t, t, 0, l)
        <3>1. l - 0 = l /\ \A j \in 1..l : 0 + j = j
            OBVIOUS
        <3> QED
            BY <1>2, <3>1 DEF CutOf
    <2>5. MapIs(<<>>, ps, 0)
        <3>1. DOMAIN <<>> = {} /\ 1..0 = {}
            OBVIOUS
        <3> QED
            BY <3>1 DEF MapIs
    <2> QED
        BY <1>1, <1>2, <1>5, <2>1, <2>2, <2>3, <2>4, <2>5 DEF After
<1> DEFINE T == {n \in Nat : /\ n <= m => After(loop[n], ps, n)
                             /\ m <= n /\ n <= l => After(loop[n], ps, m)}
<1>7. ASSUME NEW n \in Nat, \A i \in 0..(n - 1) : i \in T
      PROVE  n \in T
    <2>1. CASE n = 0
        <3>1. m <= 0 => m = 0
            OBVIOUS
        <3> QED
            BY <1>6, <2>1, <3>1
    <2>2. CASE n # 0 /\ n <= l
        <3>1. n - 1 \in 0..(n - 1) /\ n \in 1..l /\ n - 1 \in Nat
            BY <2>2
        <3>2. n - 1 \in T
            BY <3>1, <1>7
        <3> HIDE DEF T
        <3>3. loop[n] = Turned(loop[n - 1])
            BY <1>5, <3>1
        <3>4. CASE n <= m
            <4>1. n \in 1..Len(ps) /\ n - 1 <= m
                BY <1>3, <3>1, <3>4
            <4>2. After(loop[n - 1], ps, n - 1)
                BY <3>2, <4>1 DEF T
            <4>3. After(loop[n], ps, n)
                BY <3>3, <4>1, <4>2, TurnTakes
            <4>4. m <= n => n = m
                BY <3>4
            <4> QED
                BY <4>3, <4>4 DEF T
        <3>5. CASE ~(n <= m)
            <4>1. m <= n - 1 /\ n - 1 <= l
                BY <3>1, <3>5
            <4>2. After(loop[n - 1], ps, m)
                BY <3>2, <4>1 DEF T
            <4>3. loop[n] = loop[n - 1]
                BY <1>3, <3>3, <4>2, TurnRests
            <4> QED
                BY <3>5, <4>2, <4>3 DEF T
        <3> QED
            BY <3>4, <3>5
    <2>3. CASE ~(n <= l)
        BY <1>3, <2>3
    <2> QED
        BY <2>1, <2>2, <2>3
<1> HIDE DEF T
<1>8. l \in T
    BY <1>7, Induction
<1>9. After(loop[l], ps, m)
    BY <1>3, <1>8 DEF T
<1> QED
    BY <1>1, <1>3, <1>5, <1>9 DEF After

\* TlvRoundTrip: what a handshake's tags and values are, the other side finds.
THEOREM TlvRoundTripHolds == CodecSpec => []TlvRoundTrip
<1>1. ASSUME CodecInv
      PROVE  TlvRoundTrip
    <2> SUFFICES ASSUME phase = "done", pairs # <<>>
                 PROVE  /\ found.ok
                        /\ DOMAIN found.map = {pairs[i][1] : i \in DOMAIN pairs}
                        /\ \A i \in DOMAIN pairs :
                               (\A j \in (i + 1)..Len(pairs) : pairs[j][1] # pairs[i][1])
                                   => found.map[pairs[i][1]] = pairs[i][2]
        BY DEF TlvRoundTrip
    <2>1. pairs \in Lists /\ type = "SessionHandShake"
        BY <1>1 DEF CodecInv, CodecTypeOK
    <2>2. found = TlvToStringMap(Tlv(pairs))
        BY <1>1, <2>1 DEF CodecInv, FieldValue
    <2>3. pairs \in Seq(Tags \X Vals) /\ Len(pairs) \in Nat
        BY <2>1, ListsType
    <2>4. DOMAIN pairs = 1..Len(pairs) /\ Len(pairs) # 0
        BY <2>3
    <2>5. found.ok /\ MapIs(found.map, pairs, Len(pairs))
        BY <2>1, <2>2, <2>4, MapBack
    <2> QED
        BY <2>4, <2>5 DEF MapIs
<1>2. CodecInv => TlvRoundTrip
    BY <1>1
<1> QED
    BY <1>2, CodecInvHolds, PTL
=============================================================================
