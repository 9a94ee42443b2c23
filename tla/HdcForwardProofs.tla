--------------------------- MODULE HdcForwardProofs ---------------------------
(***************************************************************************)
(* What holds of the contexts of a forward for any number of contexts, any *)
(* clock, any data and any order of the commands: the counter counts them, *)
(* the map finds live ones, deleted ones have no handle, and data comes to *)
(* connected sockets only.                                                 *)
(***************************************************************************)
EXTENDS HdcForward, FiniteSetTheorems, TLAPS

ContextTypes == ctx \in [Ends -> [Contexts -> Context]]
NetTypes == [Ends -> Seq(GoodMessage)]

-----------------------------------------------------------------------------
(* Data *)

\* FreeContext closes what is live and leaves the rest alone.
LEMMA FreeContextFacts ==
    ASSUME NEW x \in Context
    PROVE  /\ FreeContext(x) \in Context
           /\ FreeContext(x).id = x.id /\ FreeContext(x).kind = x.kind
           /\ FreeContext(x).peer = x.peer /\ FreeContext(x).got = x.got
           /\ FreeContext(x).type = x.type /\ FreeContext(x).sort = x.sort
           /\ x.state # "live" => FreeContext(x) = x
           /\ x.state = "live" =>
                  /\ FreeContext(x).state = "freeing"
                  /\ FreeContext(x).pending = <<>>
                  /\ FreeContext(x).reading = FALSE
                  /\ FreeContext(x).handle = IF x.handle = "null" \/ x.type # x.sort
                                             THEN x.handle ELSE "closed"
<1> DEFINE h == IF x.handle = "null" \/ x.type # x.sort THEN x.handle ELSE "closed"
<1>1. CASE x.state # "live"
    BY <1>1 DEF FreeContext
<1>2. CASE x.state = "live"
    <2>1. FreeContext(x) = [x EXCEPT !.state = "freeing", !.pending = <<>>,
                                     !.reading = FALSE, !.handle = h]
        BY <1>2 DEF FreeContext
    <2>2. h \in {"null", "open", "listening", "connecting", "connected", "closed"}
        BY DEF Context
    <2>3. <<>> \in Seq(Contexts \X (1..MaxData))
        OBVIOUS
    <2> HIDE DEF h
    <2>4. FreeContext(x) \in Context
        BY <2>1, <2>2, <2>3 DEF Context
    <2>5. /\ FreeContext(x).state = "freeing" /\ FreeContext(x).pending = <<>>
          /\ FreeContext(x).reading = FALSE /\ FreeContext(x).handle = h
        BY <2>1 DEF Context
    <2>6. /\ FreeContext(x).id = x.id /\ FreeContext(x).kind = x.kind
          /\ FreeContext(x).peer = x.peer /\ FreeContext(x).got = x.got
          /\ FreeContext(x).type = x.type /\ FreeContext(x).sort = x.sort
        BY <2>1 DEF Context
    <2> QED
        BY <1>2, <2>4, <2>5, <2>6 DEF h
<1> QED
    BY <1>1, <1>2

\* What new ContextForward() makes.
LEMMA NewFacts ==
    /\ Unused \in Context /\ New \in Context
    /\ New.state = "live" /\ New.handle = "null" /\ New.type = "tcp" /\ New.sort = "tcp"
    /\ New.pending = <<>> /\ New.reading = FALSE
<1>1. <<>> \in Seq(Contexts \X (1..MaxData)) /\ 0 \in Ids
    BY MaxMSecAssumption DEF Ids
<1>2. Unused \in Context
    BY <1>1 DEF Unused, Context, NoContext
<1>3. New = [Unused EXCEPT !.state = "live"] /\ Unused.handle = "null"
      /\ Unused.type = "tcp" /\ Unused.sort = "tcp" /\ Unused.pending = <<>>
      /\ Unused.reading = FALSE
    BY DEF New, Unused
<1> HIDE DEF New
<1> QED
    BY <1>2, <1>3 DEF Context

\* One context of one end changes.
LEMMA OneContext ==
    ASSUME ContextTypes, NEW e \in Ends, NEW c \in Contexts, NEW x \in Context,
           ctx' = [ctx EXCEPT ![e][c] = x]
    PROVE  /\ ContextTypes'
           /\ ctx'[e][c] = x
           /\ \A f \in Ends, d \in Contexts : f # e \/ d # c => ctx'[f][d] = ctx[f][d]
BY DEF ContextTypes

\* The parts of a message.
LEMMA MsgFacts ==
    ASSUME NEW cmd \in Commands \ {"DATA"}, NEW i \in Ids,
           NEW c \in Contexts \cup {NoContext}, NEW n \in 0..(MaxData + 1)
    PROVE  /\ <<Msg(cmd, i, c, n)>> \in Seq(GoodMessage)
           /\ Msg(cmd, i, c, n).cmd = cmd /\ Msg(cmd, i, c, n).id = i
<1>1. Msg(cmd, i, c, n) \in Message /\ Msg(cmd, i, c, n).cmd = cmd
      /\ Msg(cmd, i, c, n).id = i
    BY DEF Msg, Message
<1>2. Msg(cmd, i, c, n) \in GoodMessage
    BY <1>1 DEF GoodMessage
<1> QED
    BY <1>1, <1>2

\* A message of the queue, and what is left without it.
LEMMA RestFacts ==
    ASSUME net \in NetTypes, NEW e \in Ends, net[e] # <<>>
    PROVE  /\ Rest(e) \in NetTypes
           /\ Head(net[e]) \in Message /\ Head(net[e]) \in GoodMessage
           /\ Rest(e)[e] = Tail(net[e])
           /\ \A f \in Ends : f # e => Rest(e)[f] = net[f]
<1>1. net[e] \in Seq(GoodMessage)
    BY DEF NetTypes
<1>2. Tail(net[e]) \in Seq(GoodMessage) /\ Head(net[e]) \in GoodMessage
    BY <1>1
<1> QED
    BY <1>2 DEF Rest, NetTypes, GoodMessage

\* What is sent comes to the other end, or to nobody.
LEMMA SentFacts ==
    ASSUME NEW q \in NetTypes, NEW e \in Ends, NEW msgs \in Seq(GoodMessage)
    PROVE  /\ Sent(q, e, msgs) \in NetTypes
           /\ \A f \in Ends : f # Other(e) => Sent(q, e, msgs)[f] = q[f]
           /\ Sent(q, e, msgs)[Other(e)] \in {q[Other(e)], q[Other(e)] \o msgs}
<1>1. Other(e) \in Ends
    BY DEF Other, Ends
<1>2. q[Other(e)] \o msgs \in Seq(GoodMessage)
    BY <1>1 DEF NetTypes
<1>3. [q EXCEPT ![Other(e)] = @ \o msgs] \in NetTypes
    BY <1>2 DEF NetTypes
<1> QED
    BY <1>1, <1>3 DEF Sent, NetTypes

\* Good messages are messages.
LEMMA NetIsTyped ==
    ASSUME NEW q \in NetTypes
    PROVE  q \in [Ends -> Seq(Message)]
<1>1. ASSUME NEW e \in Ends PROVE q[e] \in Seq(Message)
    <2>1. q[e] \in Seq(GoodMessage)
        BY DEF NetTypes
    <2>2. Len(q[e]) \in Nat /\ q[e] \in [1..Len(q[e]) -> GoodMessage]
        BY <2>1
    <2>3. q[e] \in [1..Len(q[e]) -> Message]
        BY <2>2 DEF GoodMessage
    <2> QED
        BY <2>2, <2>3
<1> QED
    BY <1>1 DEF NetTypes

\* The command SendToTask makes about a context, and the notice of its end.
LEMMA NoticeFacts ==
    ASSUME ContextTypes, NEW e \in Ends, NEW c \in Contexts,
           NEW cmd \in Commands \ {"DATA"}
    PROVE  /\ SendToTask(e, c, cmd) \in Seq(GoodMessage)
           /\ FreeNotice(e, c) \in Seq(GoodMessage)
<1>1. ctx[e][c].id \in Ids /\ 0 \in 0..(MaxData + 1) /\ c \in Contexts \cup {NoContext}
    BY MaxDataAssumption DEF ContextTypes, Context
<1>2. \A k \in Commands \ {"DATA"} : SendToTask(e, c, k) \in Seq(GoodMessage)
    BY <1>1, MsgFacts DEF SendToTask
<1>3. <<>> \in Seq(GoodMessage) /\ "FREE_CONTEXT" \in Commands \ {"DATA"}
    BY DEF Commands
<1> QED
    BY <1>2, <1>3 DEF FreeNotice

-----------------------------------------------------------------------------
(* What a step can do to the contexts *)

OtherTypes ==
    /\ taskStop \in [Ends -> BOOLEAN]
    /\ released \in [Ends -> BOOLEAN]
    /\ clock \in Ids
    /\ net \in NetTypes
    /\ up \in BOOLEAN
    /\ sent \in [Ends -> [Contexts -> 0..MaxData]]

MapTypes == mapCtxPoint \in [Ends -> [Ids -> Contexts \cup {NoContext}]]

\* The type a context is given before its handle is closed (OnAccept).
TypeIsSet == AcceptMayFail => ForwardType = "tcp"

\* A context that stays one: it may be finished, and keeps its id.
Evolves(x, y) ==
    /\ y \in Context
    /\ y.id = x.id /\ y.kind = x.kind
    /\ y.state = x.state \/ (x.state = "live" /\ y.state = "freeing")
    /\ HandleOK(x) => HandleOK(y)

\* No context is made or deleted, and no entry of the map made.
Keeps ==
    /\ ContextTypes'
    /\ \A e \in Ends, c \in Contexts : Evolves(ctx[e][c], ctx'[e][c])
    /\ MapTypes'
    /\ \A e \in Ends, i \in Ids : mapCtxPoint'[e][i] \in {mapCtxPoint[e][i], NoContext}
    /\ UNCHANGED refCount
    /\ \A e \in Ends : /\ taskStop[e] => taskStop'[e]
                       /\ released'[e] => released[e] \/ (taskStop[e] /\ refCount[e] = 0)

\* The end e makes the context x at c and gives it the id i.
Makes(e, c, i, x) ==
    /\ ctx[e][c].state = "free"
    /\ x.state \in {"live", "freeing"} /\ x.id = i
    /\ TypeIsSet => HandleOK(x)
    /\ ctx' = [ctx EXCEPT ![e][c] = x]
    /\ MapTypes'
    /\ mapCtxPoint'[e][i] = c
    /\ \A j \in Ids : j # i => mapCtxPoint'[e][j] \in {mapCtxPoint[e][j], NoContext}
    /\ \A f \in Ends : f # e => mapCtxPoint'[f] = mapCtxPoint[f]
    /\ refCount' = [refCount EXCEPT ![e] = refCount[e] + 1]
    /\ UNCHANGED <<taskStop, released>>
    /\ ~taskStop[e] \/ \E l \in Contexts : ctx[e][l].handle = "listening"

\* What is in use at an end is a finite set.
LEMMA InUseFinite ==
    ASSUME NEW e \in Ends
    PROVE  IsFiniteSet(InUse(e)) /\ Cardinality(InUse(e)) \in Nat
<1>1. IsFiniteSet(Contexts)
    BY MaxContextsAssumption, FS_Interval DEF Contexts
<1>2. IsFiniteSet(InUse(e))
    BY <1>1, FS_Subset DEF InUse
<1> QED
    BY <1>2, FS_CardinalityType

\* A finite set with an element counts.
LEMMA SomeCounts ==
    ASSUME NEW S, IsFiniteSet(S), NEW x \in S
    PROVE  Cardinality(S) > 0
<1>1. Cardinality(S) \in Nat
    BY FS_CardinalityType
<1>2. Cardinality(S) # 0
    BY FS_EmptySet
<1> QED
    BY <1>1, <1>2

\* Contexts that stay change neither the count nor what the map finds.
LEMMA KeepsInv ==
    ASSUME ContextInv, Keeps, OtherTypes'
    PROVE  /\ ContextInv'
           /\ HandlesOK => HandlesOK'
           /\ ReleasedInv => ReleasedInv'
<1>1. \A e \in Ends : InUse(e)' = InUse(e)
    BY DEF Keeps, Evolves, InUse
<1>2. RefCountsContexts'
    BY <1>1 DEF ContextInv, RefCountsContexts, Keeps
<1>3. MapFindsLive'
    <2> SUFFICES ASSUME NEW e \in Ends, NEW i \in Ids, mapCtxPoint'[e][i] # NoContext
                 PROVE  /\ mapCtxPoint'[e][i] \in InUse(e)'
                        /\ ctx'[e][mapCtxPoint'[e][i]].id = i
        BY DEF MapFindsLive
    <2>1. mapCtxPoint'[e][i] = mapCtxPoint[e][i]
        BY DEF Keeps
    <2>2. mapCtxPoint[e][i] \in InUse(e) /\ ctx[e][mapCtxPoint[e][i]].id = i
        BY <2>1 DEF ContextInv, MapFindsLive
    <2> QED
        BY <1>1, <2>1, <2>2 DEF Keeps, Evolves, InUse
<1>4. TypeOK' /\ DataIsNamed'
    <2>1. refCount' \in [Ends -> Nat]
        BY DEF ContextInv, TypeOK, Keeps
    <2>2. net' \in [Ends -> Seq(Message)]
        BY NetIsTyped DEF OtherTypes
    <2> QED
        BY <2>1, <2>2 DEF TypeOK, DataIsNamed, OtherTypes, NetTypes, Keeps, ContextTypes, MapTypes
<1>5. HandlesOK => HandlesOK'
    BY DEF HandlesOK, Keeps, Evolves
<1>6. ReleasedInv => ReleasedInv'
    BY DEF ReleasedInv, Keeps
<1> QED
    BY <1>2, <1>3, <1>4, <1>5, <1>6 DEF ContextInv

\* A new context is counted, and found by its id.
LEMMA MakesInv ==
    ASSUME ContextInv, OtherTypes', NEW e \in Ends, NEW c \in Contexts, NEW i \in Ids,
           NEW x \in Context, Makes(e, c, i, x)
    PROVE  /\ ContextInv'
           /\ TypeIsSet /\ HandlesOK => HandlesOK'
           /\ HandlesOK /\ ReleasedInv => ReleasedInv'
<1>1. /\ ContextTypes'
      /\ ctx'[e][c] = x
      /\ \A f \in Ends, d \in Contexts : f # e \/ d # c => ctx'[f][d] = ctx[f][d]
    BY OneContext DEF Makes, ContextInv, TypeOK, ContextTypes
<1>2. /\ c \notin InUse(e) /\ InUse(e)' = InUse(e) \cup {c}
      /\ \A f \in Ends : f # e => InUse(f)' = InUse(f)
    BY <1>1 DEF Makes, InUse
<1>3. Cardinality(InUse(e)') = Cardinality(InUse(e)) + 1
    BY <1>2, InUseFinite, FS_AddElement
<1>4. refCount' \in [Ends -> Nat] /\ refCount'[e] = refCount[e] + 1
      /\ \A f \in Ends : f # e => refCount'[f] = refCount[f]
    BY DEF Makes, ContextInv, TypeOK
<1>5. RefCountsContexts'
    BY <1>2, <1>3, <1>4 DEF ContextInv, RefCountsContexts
<1>6. MapFindsLive'
    <2> SUFFICES ASSUME NEW f \in Ends, NEW j \in Ids, mapCtxPoint'[f][j] # NoContext
                 PROVE  /\ mapCtxPoint'[f][j] \in InUse(f)'
                        /\ ctx'[f][mapCtxPoint'[f][j]].id = j
        BY DEF MapFindsLive
    <2>1. CASE f = e /\ j = i
        BY <1>1, <1>2, <2>1 DEF Makes
    <2>2. CASE ~(f = e /\ j = i)
        <3>1. mapCtxPoint'[f][j] = mapCtxPoint[f][j]
            BY <2>2 DEF Makes
        <3>2. mapCtxPoint[f][j] \in InUse(f) /\ ctx[f][mapCtxPoint[f][j]].id = j
            BY <3>1 DEF ContextInv, MapFindsLive
        <3>3. mapCtxPoint[f][j] \in Contexts /\ (f # e \/ mapCtxPoint[f][j] # c)
            BY <1>2, <3>2 DEF InUse
        <3> QED
            BY <1>1, <1>2, <3>1, <3>2, <3>3
    <2> QED
        BY <2>1, <2>2
<1>7. TypeOK' /\ DataIsNamed'
    <2>1. net' \in [Ends -> Seq(Message)]
        BY NetIsTyped DEF OtherTypes
    <2> QED
        BY <1>1, <1>4, <2>1 DEF TypeOK, DataIsNamed, OtherTypes, NetTypes, Makes,
                                ContextTypes, MapTypes
<1>8. TypeIsSet /\ HandlesOK => HandlesOK'
    BY <1>1 DEF HandlesOK, Makes
<1>9. ASSUME HandlesOK, ReleasedInv PROVE ReleasedInv'
    <2>1. ~released[e]
        <3>1. CASE ~taskStop[e]
            BY <1>9, <3>1 DEF ReleasedInv
        <3>2. ASSUME NEW l \in Contexts, ctx[e][l].handle = "listening" PROVE ~released[e]
            <4>1. l \in InUse(e)
                <5>1. ctx[e][l].state \in {"free", "live", "freeing", "deleted"}
                    BY DEF ContextInv, TypeOK, Context
                <5>2. HandleOK(ctx[e][l])
                    BY <1>9 DEF HandlesOK
                <5> QED
                    BY <3>2, <5>1, <5>2 DEF HandleOK, InUse
            <4>2. Cardinality(InUse(e)) > 0
                BY <4>1, InUseFinite, SomeCounts
            <4> QED
                BY <1>9, <4>2 DEF ContextInv, RefCountsContexts, ReleasedInv
        <3> QED
            BY <3>1, <3>2 DEF Makes
    <2> QED
        BY <1>4, <1>9, <2>1 DEF ReleasedInv, Makes
<1> QED
    BY <1>5, <1>6, <1>7, <1>8, <1>9 DEF ContextInv

\* The context that is deleted is counted no more, and the map forgets its id.
LEMMA DeleteInv ==
    ASSUME ContextInv, NEW e \in Ends, NEW c \in Contexts, FreeContextCallBack(e, c)
    PROVE  /\ ContextInv'
           /\ HandlesOK => HandlesOK'
           /\ HandlesOK /\ ReleasedInv => ReleasedInv'
<1> DEFINE x == [ctx[e][c] EXCEPT !.state = "deleted"]
           i == ctx[e][c].id
<1>1. ctx[e][c] \in Context /\ i \in Ids /\ ContextTypes
    BY DEF ContextInv, TypeOK, Context, ContextTypes
<1>2. x \in Context /\ x.state = "deleted" /\ x.id = i /\ x.handle = ctx[e][c].handle
    BY <1>1 DEF Context
<1>3. ctx' = [ctx EXCEPT ![e][c] = x] /\ ctx[e][c].state = "freeing"
    BY DEF FreeContextCallBack
<1>4. /\ mapCtxPoint' = [mapCtxPoint EXCEPT ![e][i] = NoContext]
      /\ refCount' = [refCount EXCEPT ![e] = IF refCount[e] > 0 THEN refCount[e] - 1 ELSE 0]
      /\ UNCHANGED <<taskStop, released, clock, net, up, sent>>
    BY DEF FreeContextCallBack
<1> HIDE DEF x, i
<1>5. /\ ContextTypes'
      /\ ctx'[e][c] = x
      /\ \A f \in Ends, d \in Contexts : f # e \/ d # c => ctx'[f][d] = ctx[f][d]
    BY <1>1, <1>2, <1>3, OneContext
<1>6. /\ c \in InUse(e) /\ InUse(e)' = InUse(e) \ {c}
      /\ \A f \in Ends : f # e => InUse(f)' = InUse(f)
    BY <1>2, <1>3, <1>5 DEF InUse
<1>7. /\ Cardinality(InUse(e)') = Cardinality(InUse(e)) - 1
      /\ Cardinality(InUse(e)) > 0
    <2>1. Cardinality(InUse(e)) > 0 /\ IsFiniteSet(InUse(e))
        BY <1>6, InUseFinite, SomeCounts
    <2>2. Cardinality(InUse(e) \ {c}) = Cardinality(InUse(e)) - 1
        BY <1>6, <2>1, FS_RemoveElement
    <2> QED
        BY <1>6, <2>1, <2>2
<1>8. refCount' \in [Ends -> Nat] /\ refCount'[e] = refCount[e] - 1
      /\ \A f \in Ends : f # e => refCount'[f] = refCount[f]
    BY <1>4, <1>7 DEF ContextInv, TypeOK, RefCountsContexts
<1>9. RefCountsContexts'
    BY <1>6, <1>7, <1>8 DEF ContextInv, RefCountsContexts
<1>10. /\ MapTypes' /\ mapCtxPoint'[e][i] = NoContext
       /\ \A f \in Ends, j \in Ids : f # e \/ j # i => mapCtxPoint'[f][j] = mapCtxPoint[f][j]
    BY <1>1, <1>4 DEF ContextInv, TypeOK, MapTypes
<1>11. MapFindsLive'
    <2> SUFFICES ASSUME NEW f \in Ends, NEW j \in Ids, mapCtxPoint'[f][j] # NoContext
                 PROVE  /\ mapCtxPoint'[f][j] \in InUse(f)'
                        /\ ctx'[f][mapCtxPoint'[f][j]].id = j
        BY DEF MapFindsLive
    <2>1. mapCtxPoint'[f][j] = mapCtxPoint[f][j] /\ (f # e \/ j # i)
        BY <1>10
    <2>2. mapCtxPoint[f][j] \in InUse(f) /\ ctx[f][mapCtxPoint[f][j]].id = j
        BY <2>1 DEF ContextInv, MapFindsLive
    <2>3. mapCtxPoint[f][j] \in Contexts /\ (f # e \/ mapCtxPoint[f][j] # c)
        BY <2>1, <2>2 DEF InUse, i
    <2> QED
        BY <1>5, <1>6, <2>1, <2>2, <2>3
<1>12. TypeOK' /\ DataIsNamed'
    BY <1>4, <1>5, <1>8, <1>10 DEF ContextInv, TypeOK, DataIsNamed, ContextTypes, MapTypes
<1>13. HandlesOK => HandlesOK'
    BY <1>2, <1>3, <1>5 DEF HandlesOK, HandleOK
<1>14. ReleasedInv => ReleasedInv'
    BY <1>4, <1>7, <1>8 DEF ReleasedInv, ContextInv, RefCountsContexts
<1> QED
    BY <1>9, <1>11, <1>12, <1>13, <1>14 DEF ContextInv

-----------------------------------------------------------------------------
(* What each action does to the contexts *)

\* The types, by name.
LEMMA InvTypes ==
    ASSUME ContextInv
    PROVE  ContextTypes /\ MapTypes /\ OtherTypes /\ net \in NetTypes
BY DEF ContextInv, TypeOK, DataIsNamed, ContextTypes, MapTypes, OtherTypes, NetTypes

\* A context freed is still there.
LEMMA FreeEvolves ==
    ASSUME NEW x \in Context
    PROVE  Evolves(x, x) /\ Evolves(x, FreeContext(x))
<1>1. Evolves(x, x)
    BY DEF Evolves
<1>2. CASE x.state # "live"
    BY <1>1, <1>2, FreeContextFacts
<1>3. CASE x.state = "live"
    <2> DEFINE y == FreeContext(x)
    <2>1. /\ y \in Context /\ y.id = x.id /\ y.kind = x.kind /\ y.state = "freeing"
          /\ y.handle = IF x.handle = "null" \/ x.type # x.sort THEN x.handle ELSE "closed"
        BY <1>3, FreeContextFacts
    <2> HIDE DEF y
    <2>2. HandleOK(x) => HandleOK(y)
        BY <1>3, <2>1 DEF HandleOK
    <2>3. Evolves(x, y)
        BY <1>3, <2>1, <2>2 DEF Evolves
    <2> QED
        BY <1>1, <2>3 DEF y
<1> QED
    BY <1>2, <1>3

\* A change of the other parts of a context.
LEMMA SameEvolves ==
    ASSUME NEW x \in Context, NEW y \in Context, y.id = x.id, y.kind = x.kind,
           y.state = x.state, y.type = x.type, y.sort = x.sort,
           \/ y.handle = x.handle
           \/ x.handle = "connecting" /\ y.handle = "connected"
    PROVE  Evolves(x, y)
BY DEF Evolves, HandleOK

\* No context changes.
LEMMA NoneKeeps ==
    ASSUME ContextInv, UNCHANGED <<ctx, mapCtxPoint, refCount, taskStop>>,
           \A e \in Ends : released'[e] => released[e] \/ (taskStop[e] /\ refCount[e] = 0)
    PROVE  Keeps
<1>1. ContextTypes /\ MapTypes
    BY InvTypes
<1>2. \A e \in Ends, c \in Contexts : ctx[e][c] \in Context
    BY <1>1 DEF ContextTypes
<1>3. \A e \in Ends, c \in Contexts : Evolves(ctx[e][c], ctx'[e][c])
    BY <1>2, FreeEvolves
<1> QED
    BY <1>1, <1>3 DEF Keeps, ContextTypes, MapTypes

\* One context changes.
LEMMA OneKeeps ==
    ASSUME ContextInv, NEW e \in Ends, NEW c \in Contexts, NEW x \in Context,
           Evolves(ctx[e][c], x), ctx' = [ctx EXCEPT ![e][c] = x],
           UNCHANGED <<mapCtxPoint, refCount, taskStop, released>>
    PROVE  Keeps
<1>1. ContextTypes /\ MapTypes
    BY InvTypes
<1>2. ContextTypes
    BY <1>1
<1>3. /\ ContextTypes'
      /\ ctx'[e][c] = x
      /\ \A f \in Ends, d \in Contexts : f # e \/ d # c => ctx'[f][d] = ctx[f][d]
    BY <1>2 DEF ContextTypes
<1>4. ASSUME NEW f \in Ends, NEW d \in Contexts PROVE Evolves(ctx[f][d], ctx'[f][d])
    <2>1. CASE f = e /\ d = c
        BY <1>3, <2>1
    <2>2. CASE f # e \/ d # c
        <3>1. ctx[f][d] \in Context /\ ctx'[f][d] = ctx[f][d]
            BY <1>1, <1>3, <2>2 DEF ContextTypes
        <3> QED
            BY <3>1, FreeEvolves
    <2> QED
        BY <2>1, <2>2
<1>5. \A f \in Ends, i \in Ids : mapCtxPoint'[f][i] = mapCtxPoint[f][i]
    OBVIOUS
<1>6. \A f \in Ends : taskStop'[f] = taskStop[f] /\ released'[f] = released[f]
    OBVIOUS
<1> QED
    BY <1>1, <1>3, <1>4, <1>5, <1>6 DEF Keeps, MapTypes

\* StopTask frees the contexts of the map.
LEMMA StopFacts ==
    ASSUME ContextInv, NEW e \in Ends, StopTask(e)
    PROVE  /\ ContextTypes' /\ MapTypes'
           /\ \A f \in Ends, c \in Contexts :
                  ctx'[f][c] \in {ctx[f][c], FreeContext(ctx[f][c])}
           /\ \A f \in Ends, i \in Ids :
                  mapCtxPoint'[f][i] \in {mapCtxPoint[f][i], NoContext}
           /\ taskStop' \in [Ends -> BOOLEAN] /\ \A f \in Ends : taskStop[f] => taskStop'[f]
<1> DEFINE row == [c \in Contexts |-> IF \E i \in Ids : mapCtxPoint[e][i] = c
                                      THEN FreeContext(ctx[e][c]) ELSE ctx[e][c]]
           none == [i \in Ids |-> NoContext]
<1>1. ContextTypes /\ MapTypes /\ taskStop \in [Ends -> BOOLEAN]
    BY InvTypes DEF OtherTypes
<1>2. \A c \in Contexts : ctx[e][c] \in Context /\ FreeContext(ctx[e][c]) \in Context
    <2>1. \A c \in Contexts : ctx[e][c] \in Context
        BY <1>1 DEF ContextTypes
    <2>2. \A x \in Context : FreeContext(x) \in Context
        BY FreeContextFacts
    <2> QED
        BY <2>1, <2>2
<1>3. /\ row \in [Contexts -> Context]
      /\ \A c \in Contexts : row[c] \in {ctx[e][c], FreeContext(ctx[e][c])}
    BY <1>2
<1>4. /\ ctx' = [ctx EXCEPT ![e] = row]
      /\ mapCtxPoint' = [mapCtxPoint EXCEPT ![e] = none]
      /\ taskStop' = [taskStop EXCEPT ![e] = TRUE]
    BY DEF StopTask
<1>5. none \in [Ids -> Contexts \cup {NoContext}] /\ \A i \in Ids : none[i] = NoContext
    OBVIOUS
<1> HIDE DEF row, none
<1>6. ctx'[e] = row /\ \A f \in Ends : f # e => ctx'[f] = ctx[f]
    BY <1>1, <1>4 DEF ContextTypes
<1>7. ContextTypes'
    BY <1>1, <1>3, <1>4 DEF ContextTypes
<1>8. \A f \in Ends, c \in Contexts : ctx'[f][c] \in {ctx[f][c], FreeContext(ctx[f][c])}
    <2> SUFFICES ASSUME NEW f \in Ends, NEW c \in Contexts
                 PROVE  ctx'[f][c] \in {ctx[f][c], FreeContext(ctx[f][c])}
        OBVIOUS
    <2> QED
        BY <1>3, <1>6
<1>9. mapCtxPoint'[e] = none /\ \A f \in Ends : f # e => mapCtxPoint'[f] = mapCtxPoint[f]
    BY <1>1, <1>4 DEF MapTypes
<1>10. MapTypes'
    BY <1>1, <1>4, <1>5 DEF MapTypes
<1>11. \A f \in Ends, i \in Ids : mapCtxPoint'[f][i] \in {mapCtxPoint[f][i], NoContext}
    BY <1>5, <1>9
<1>12. taskStop' \in [Ends -> BOOLEAN] /\ \A f \in Ends : taskStop[f] => taskStop'[f]
    BY <1>1, <1>4
<1> QED
    BY <1>7, <1>8, <1>10, <1>11, <1>12

LEMMA StopKeeps ==
    ASSUME ContextInv, NEW e \in Ends, StopTask(e), UNCHANGED <<refCount, released>>
    PROVE  Keeps
<1>1. ASSUME NEW f \in Ends, NEW c \in Contexts PROVE Evolves(ctx[f][c], ctx'[f][c])
    <2>1. ctx[f][c] \in Context
        BY InvTypes DEF ContextTypes
    <2>2. Evolves(ctx[f][c], ctx[f][c]) /\ Evolves(ctx[f][c], FreeContext(ctx[f][c]))
        BY <2>1, FreeEvolves
    <2>3. ctx'[f][c] = ctx[f][c] \/ ctx'[f][c] = FreeContext(ctx[f][c])
        BY StopFacts
    <2> QED
        BY <2>2, <2>3
<1>2. \A f \in Ends : released'[f] = released[f]
    OBVIOUS
<1> QED
    BY <1>1, <1>2, StopFacts DEF Keeps

\* A command is taken from the queue and nothing sent.
LEMMA TakeTypes ==
    ASSUME ContextInv, NEW e \in Ends, net[e] # <<>>, net' = Rest(e),
           UNCHANGED <<taskStop, released, clock, up, sent>>
    PROVE  OtherTypes'
BY InvTypes, RestFacts DEF OtherTypes

\* Commands are sent.
LEMMA SendTypes ==
    ASSUME ContextInv, NEW e \in Ends, NEW q \in NetTypes, NEW msgs \in Seq(GoodMessage),
           net' = Sent(q, e, msgs), UNCHANGED <<taskStop, released, clock, up, sent>>
    PROVE  OtherTypes'
BY InvTypes, SentFacts DEF OtherTypes

\* The context a command is for is one that the map finds.
LEMMA TargetFacts ==
    ASSUME ContextInv, NEW e \in Ends, net[e] # <<>>,
           Target(e, Head(net[e])) # NoContext
    PROVE  /\ Head(net[e]) \in GoodMessage /\ Head(net[e]).id \in Ids
           /\ Target(e, Head(net[e])) \in Contexts
           /\ ctx[e][Target(e, Head(net[e]))] \in Context
           /\ ctx[e][Target(e, Head(net[e]))].state \in {"live", "freeing"}
           /\ ctx[e][Target(e, Head(net[e]))].id = Head(net[e]).id
<1>1. Head(net[e]) \in GoodMessage /\ Head(net[e]).id \in Ids
    BY InvTypes, RestFacts DEF Message
<1>2. /\ Target(e, Head(net[e])) \in InUse(e)
      /\ ctx[e][Target(e, Head(net[e]))].id = Head(net[e]).id
    BY <1>1 DEF ContextInv, MapFindsLive, Target
<1> QED
    BY <1>1, <1>2, InvTypes DEF InUse, ContextTypes

\* The commands that change one context.
LEMMA CommandKeeps ==
    ASSUME ContextInv, NEW e \in Ends,
           CheckResult(e) \/ ActiveMaster(e) \/ ForwardData(e) \/ FreeCommand(e)
    PROVE  Keeps /\ OtherTypes'
<1> DEFINE m == Head(net[e])
           c == Target(e, m)
<1>1. /\ net[e] # <<>> /\ c # NoContext
      /\ net' = Rest(e)
      /\ UNCHANGED <<mapCtxPoint, refCount, taskStop, released, clock, up, sent>>
    BY DEF CheckResult, ActiveMaster, ForwardData, FreeCommand, Next1
<1>2. /\ m \in GoodMessage /\ c \in Contexts /\ ctx[e][c] \in Context
    BY <1>1, TargetFacts
<1>3. OtherTypes'
    BY <1>1, TakeTypes
<1> DEFINE old == ctx[e][c]
<1>4. \E x \in Context : Evolves(ctx[e][c], x) /\ ctx' = [ctx EXCEPT ![e][c] = x]
    <2>1. CASE CheckResult(e)
        <3>1. ctx' = [ctx EXCEPT ![e][c] = [ctx[e][c] EXCEPT !.ready = TRUE]]
            BY <2>1 DEF CheckResult
        <3> DEFINE y == [ctx[e][c] EXCEPT !.ready = TRUE]
        <3>2. /\ y \in Context /\ y.id = old.id /\ y.kind = old.kind /\ y.state = old.state
              /\ y.type = old.type /\ y.sort = old.sort /\ y.handle = old.handle
            BY <1>2 DEF Context
        <3> HIDE DEF y
        <3>3. Evolves(ctx[e][c], y)
            BY <1>2, <3>2, SameEvolves
        <3> QED
            BY <3>1, <3>2, <3>3 DEF y
    <2>2. CASE ActiveMaster(e)
        <3> DEFINE r == ~Finish(e, c)
        <3>1. ctx' = [ctx EXCEPT ![e][c] = [ctx[e][c] EXCEPT !.ready = TRUE, !.reading = r]]
            BY <2>2 DEF ActiveMaster
        <3>2. r \in BOOLEAN
            OBVIOUS
        <3> HIDE DEF r
        <3> DEFINE y == [ctx[e][c] EXCEPT !.ready = TRUE, !.reading = r]
        <3>3. /\ y \in Context /\ y.id = old.id /\ y.kind = old.kind /\ y.state = old.state
              /\ y.type = old.type /\ y.sort = old.sort /\ y.handle = old.handle
            BY <1>2, <3>2 DEF Context
        <3> HIDE DEF y
        <3>4. Evolves(ctx[e][c], y)
            BY <1>2, <3>3, SameEvolves
        <3> QED
            BY <3>1, <3>3, <3>4 DEF y
    <2>3. CASE ForwardData(e)
        <3> DEFINE q == Append(ctx[e][c].pending, <<m.from, m.n>>)
        <3>1. \/ ctx' = ctx
              \/ ctx' = [ctx EXCEPT ![e][c] = [ctx[e][c] EXCEPT !.pending = q]]
            BY <2>3 DEF ForwardData
        <3>2. <<m.from, m.n>> \in Contexts \X (1..MaxData)
            BY <1>2, <2>3 DEF ForwardData, GoodMessage
        <3>3. q \in Seq(Contexts \X (1..MaxData))
            BY <1>2, <3>2 DEF Context
        <3> HIDE DEF q
        <3> DEFINE y == [ctx[e][c] EXCEPT !.pending = q]
        <3>4. /\ y \in Context /\ y.id = old.id /\ y.kind = old.kind /\ y.state = old.state
              /\ y.type = old.type /\ y.sort = old.sort /\ y.handle = old.handle
            BY <1>2, <3>3 DEF Context
        <3> HIDE DEF y
        <3>5. Evolves(ctx[e][c], y)
            BY <1>2, <3>4, SameEvolves
        <3>6. CASE ctx' = ctx
            <4>1. ctx' = [ctx EXCEPT ![e][c] = ctx[e][c]]
                BY <1>2, <3>6, InvTypes DEF ContextTypes
            <4> QED
                BY <1>2, <4>1, FreeEvolves
        <3>7. CASE ctx' # ctx
            BY <3>1, <3>4, <3>5, <3>7 DEF y
        <3> QED
            BY <3>6, <3>7
    <2>4. CASE FreeCommand(e)
        <3>1. ctx' = [ctx EXCEPT ![e][c] = FreeContext(ctx[e][c])]
            BY <2>4 DEF FreeCommand
        <3> QED
            BY <1>2, <3>1, FreeEvolves, FreeContextFacts
    <2> QED
        BY <2>1, <2>2, <2>3, <2>4
<1>5. Keeps
    BY <1>1, <1>2, <1>4, OneKeeps
<1> QED
    BY <1>3, <1>5

\* The callbacks that change one context, and free or connect it.
LEMMA OneContextKeeps ==
    ASSUME ContextInv, NEW e \in Ends, NEW c \in Contexts,
           NEW x \in {ctx[e][c], FreeContext(ctx[e][c])},
           ctx' = [ctx EXCEPT ![e][c] = x],
           UNCHANGED <<mapCtxPoint, refCount, taskStop, released>>
    PROVE  Keeps
<1>1. ctx[e][c] \in Context
    BY InvTypes DEF ContextTypes
<1>2. /\ Evolves(ctx[e][c], ctx[e][c]) /\ Evolves(ctx[e][c], FreeContext(ctx[e][c]))
      /\ FreeContext(ctx[e][c]) \in Context
    BY <1>1, FreeEvolves, FreeContextFacts
<1>3. x \in Context /\ Evolves(ctx[e][c], x)
    BY <1>1, <1>2
<1> QED
    BY <1>3, OneKeeps

LEMMA LocalPeerGoneKeeps ==
    ASSUME ContextInv, NEW e \in Ends, NEW c \in Contexts, LocalPeerGone(e, c)
    PROVE  Keeps /\ OtherTypes'
<1>1. /\ ctx' = [ctx EXCEPT ![e][c] = FreeContext(ctx[e][c])]
      /\ net' = Sent(net, e, FreeNotice(e, c))
      /\ UNCHANGED <<mapCtxPoint, refCount, taskStop, released, clock, up, sent>>
    BY DEF LocalPeerGone
<1>2. Keeps
    BY <1>1, OneContextKeeps
<1>3. FreeNotice(e, c) \in Seq(GoodMessage) /\ net \in NetTypes
    BY InvTypes, NoticeFacts DEF Commands
<1> QED
    BY <1>1, <1>2, <1>3, SendTypes

\* TaskFinish is a command too.
LEMMA FinishFacts == TaskFinish \in Seq(GoodMessage)
<1>1. "CHANNEL_CLOSE" \in Commands \ {"DATA"} /\ 0 \in Ids /\ 1 \in 0..(MaxData + 1)
      /\ NoContext \in Contexts \cup {NoContext}
    BY MaxMSecAssumption, MaxDataAssumption DEF Commands, Ids
<1> QED
    BY <1>1, MsgFacts DEF TaskFinish

LEMMA ListenFailKeeps ==
    ASSUME ContextInv, NEW l \in Contexts, ListenFail(l)
    PROVE  Keeps /\ OtherTypes'
<1>1. /\ ctx' = [ctx EXCEPT !["master"][l] = FreeContext(ctx["master"][l])]
      /\ net' = Sent(net, "master", TaskFinish)
      /\ UNCHANGED <<mapCtxPoint, refCount, taskStop, released, clock, up, sent>>
      /\ "master" \in Ends
    BY DEF ListenFail, Ends
<1>2. Keeps
    BY <1>1, OneContextKeeps
<1> QED
    BY <1>1, <1>2, InvTypes, FinishFacts, SendTypes

LEMMA WriteDoneKeeps ==
    ASSUME ContextInv, NEW e \in Ends, NEW c \in Contexts, WriteDone(e, c)
    PROVE  Keeps /\ OtherTypes'
<1> DEFINE old == ctx[e][c]
           g == Append(old.got, Head(old.pending))
           p == Tail(old.pending)
           y == [old EXCEPT !.got = g, !.pending = p]
<1>1. old \in Context /\ old.pending # <<>>
    BY InvTypes DEF ContextTypes, WriteDone
<1>2. /\ ctx' = [ctx EXCEPT ![e][c] = y]
      /\ UNCHANGED <<mapCtxPoint, refCount, taskStop, released, clock, net, up, sent>>
    BY DEF WriteDone
<1>3. g \in Seq(Contexts \X (1..MaxData)) /\ p \in Seq(Contexts \X (1..MaxData))
    <2>1. /\ old.pending \in Seq(Contexts \X (1..MaxData))
          /\ old.got \in Seq(Contexts \X (1..MaxData))
        BY <1>1 DEF Context
    <2> QED
        BY <1>1, <2>1
<1> HIDE DEF old, g, p
<1>4. /\ y \in Context /\ y.id = old.id /\ y.kind = old.kind /\ y.state = old.state
      /\ y.type = old.type /\ y.sort = old.sort /\ y.handle = old.handle
    BY <1>1, <1>3 DEF Context
<1> HIDE DEF y
<1>5. Evolves(old, y)
    BY <1>1, <1>4, SameEvolves
<1>6. Keeps
    BY <1>2, <1>4, <1>5, OneKeeps DEF old
<1>7. OtherTypes'
    BY <1>2, InvTypes DEF OtherTypes
<1> QED
    BY <1>6, <1>7

LEMMA ConnectTargetKeeps ==
    ASSUME ContextInv, NEW c \in Contexts, NEW ok \in BOOLEAN, ConnectTarget(c, ok)
    PROVE  Keeps /\ OtherTypes'
<1> DEFINE e == "slave"
           old == ctx[e][c]
           y == [old EXCEPT !.handle = "connected", !.ready = TRUE, !.reading = TRUE]
<1>1. /\ e \in Ends /\ old \in Context /\ old.handle = "connecting"
      /\ UNCHANGED <<mapCtxPoint, refCount, taskStop, released, clock, up, sent>>
    BY InvTypes DEF ContextTypes, ConnectTarget, Ends
<1>2. /\ SendToTask(e, c, "ACTIVE_MASTER") \in Seq(GoodMessage)
      /\ FreeNotice(e, c) \in Seq(GoodMessage) /\ net \in NetTypes
    BY <1>1, InvTypes, NoticeFacts DEF Commands
<1>3. CASE ok /\ up
    <2>1. /\ ctx' = [ctx EXCEPT ![e][c] = y]
          /\ net' = Sent(net, e, SendToTask(e, c, "ACTIVE_MASTER"))
        BY <1>3 DEF ConnectTarget
    <2> HIDE DEF e, old
    <2>2. /\ y \in Context /\ y.id = old.id /\ y.kind = old.kind /\ y.state = old.state
          /\ y.type = old.type /\ y.sort = old.sort /\ y.handle = "connected"
        BY <1>1 DEF Context
    <2> HIDE DEF y
    <2>3. Evolves(old, y)
        BY <1>1, <2>2, SameEvolves
    <2> USE DEF old
    <2>4. Keeps
        BY <1>1, <2>1, <2>2, <2>3, OneKeeps
    <2> QED
        BY <1>1, <1>2, <2>1, <2>4, SendTypes
<1>4. CASE ~(ok /\ up)
    <2>1. /\ ctx' = [ctx EXCEPT ![e][c] = FreeContext(ctx[e][c])]
          /\ net' = Sent(net, e, FreeNotice(e, c))
        BY <1>4 DEF ConnectTarget
    <2> HIDE DEF e
    <2>2. Keeps
        BY <1>1, <2>1, OneContextKeeps
    <2> QED
        BY <1>1, <1>2, <2>1, <2>2, SendTypes
<1> QED
    BY <1>3, <1>4

\* The steps that change no context.
LEMMA ReadForwardBufKeeps ==
    ASSUME ContextInv, NEW e \in Ends, NEW c \in Contexts, ReadForwardBuf(e, c)
    PROVE  Keeps /\ OtherTypes'
<1> DEFINE n == sent[e][c] + 1
           m == Msg("DATA", ctx[e][c].id, c, n)
<1>1. /\ net' = Sent(net, e, <<m>>) /\ sent' = [sent EXCEPT ![e][c] = n]
      /\ sent[e][c] < MaxData
      /\ UNCHANGED <<ctx, mapCtxPoint, refCount, taskStop, released, clock, up>>
    BY DEF ReadForwardBuf
<1>2. sent \in [Ends -> [Contexts -> 0..MaxData]] /\ ctx[e][c].id \in Ids
    BY InvTypes DEF OtherTypes, ContextTypes, Context
<1>3. n \in 1..MaxData /\ n \in 0..(MaxData + 1)
    BY <1>1, <1>2, MaxDataAssumption
<1> HIDE DEF n
<1>4. m \in Message /\ m.from = c /\ m.n = n
    BY <1>2, <1>3 DEF Msg, Message, Commands
<1>5. m \in GoodMessage
    BY <1>3, <1>4 DEF GoodMessage
<1> HIDE DEF m
<1>6. <<m>> \in Seq(GoodMessage) /\ net \in NetTypes
    BY <1>5, InvTypes
<1>7. net' \in NetTypes
    BY <1>1, <1>6, SentFacts
<1>8. n \in 0..MaxData
    BY <1>3
<1>9. sent' \in [Ends -> [Contexts -> 0..MaxData]]
    BY <1>1, <1>2, <1>8
<1>10. OtherTypes'
    BY <1>1, <1>7, <1>9, InvTypes DEF OtherTypes
<1>11. Keeps
    BY <1>1, NoneKeeps
<1> QED
    BY <1>10, <1>11

LEMMA DroppedKeeps ==
    ASSUME ContextInv, NEW e \in Ends, CommandForNobody(e) \/ Ignore(e)
    PROVE  Keeps /\ OtherTypes'
<1>1. /\ net[e] # <<>> /\ net' = Rest(e)
      /\ UNCHANGED <<ctx, mapCtxPoint, refCount, taskStop, released, clock, up, sent>>
    BY DEF CommandForNobody, Ignore, Next1
<1>2. Keeps
    BY <1>1, NoneKeeps
<1> QED
    BY <1>1, <1>2, TakeTypes

LEMMA SessionLostKeeps ==
    ASSUME ContextInv, SessionLost
    PROVE  Keeps /\ OtherTypes'
<1>1. /\ net' = [e \in Ends |-> <<>>] /\ up' = FALSE
      /\ UNCHANGED <<ctx, mapCtxPoint, refCount, taskStop, released, clock, sent>>
    BY DEF SessionLost
<1>2. Keeps
    BY <1>1, NoneKeeps
<1>3. net' \in NetTypes
    BY <1>1 DEF NetTypes
<1> QED
    BY <1>1, <1>2, <1>3, InvTypes DEF OtherTypes

LEMMA TryRemoveTaskKeeps ==
    ASSUME ContextInv, NEW e \in Ends, TryRemoveTask(e)
    PROVE  Keeps /\ OtherTypes'
<1>1. /\ taskStop[e] /\ refCount[e] = 0 /\ released' = [released EXCEPT ![e] = TRUE]
      /\ UNCHANGED <<ctx, mapCtxPoint, refCount, taskStop, clock, net, up, sent>>
    BY DEF TryRemoveTask
<1>2. released \in [Ends -> BOOLEAN]
    BY InvTypes DEF OtherTypes
<1>3. \A f \in Ends : released'[f] => released[f] \/ (taskStop[f] /\ refCount[f] = 0)
    BY <1>1, <1>2
<1>4. Keeps
    BY <1>1, <1>3, NoneKeeps
<1>5. released' \in [Ends -> BOOLEAN]
    BY <1>1, <1>2
<1> QED
    BY <1>1, <1>4, <1>5, InvTypes DEF OtherTypes

\* The ends of the task.
LEMMA EndKeeps ==
    ASSUME ContextInv, NEW e \in Ends, Detach(e) \/ ChannelClose(e) \/ SessionClear(e)
    PROVE  Keeps /\ OtherTypes'
<1>1. StopTask(e) /\ UNCHANGED <<refCount, released, clock, up, sent>>
    BY DEF Detach, ChannelClose, SessionClear
<1>2. Keeps
    BY <1>1, StopKeeps
<1>3. taskStop' \in [Ends -> BOOLEAN]
    BY <1>1, StopFacts
<1>4. net' \in NetTypes
    <2>1. ASSUME NEW n \in 0..(MaxData + 1)
          PROVE  <<Msg("CHANNEL_CLOSE", 0, NoContext, n)>> \in Seq(GoodMessage)
        <3>1. "CHANNEL_CLOSE" \in Commands \ {"DATA"} /\ 0 \in Ids
              /\ NoContext \in Contexts \cup {NoContext}
            BY MaxMSecAssumption DEF Commands, Ids
        <3> QED
            BY <3>1, MsgFacts
    <2>2. CASE Detach(e)
        <3>1. /\ net' = Sent(net, e, <<Msg("CHANNEL_CLOSE", 0, NoContext, 0)>>)
              /\ 0 \in 0..(MaxData + 1) /\ net \in NetTypes
            BY <2>2, InvTypes, MaxDataAssumption DEF Detach
        <3> QED
            BY <2>1, <3>1, SentFacts
    <2>3. CASE SessionClear(e)
        BY <2>3, InvTypes DEF SessionClear
    <2>4. CASE ChannelClose(e)
        <3> DEFINE n == Head(net[e]).n
        <3>1. /\ net[e] # <<>>
              /\ net' = IF n = 0 THEN Rest(e)
                        ELSE Sent(Rest(e), e, <<Msg("CHANNEL_CLOSE", 0, NoContext, n - 1)>>)
            BY <2>4 DEF ChannelClose
        <3>2. Head(net[e]) \in Message /\ Rest(e) \in NetTypes
            BY <3>1, InvTypes, RestFacts
        <3>3. n \in 0..(MaxData + 1)
            BY <3>2 DEF Message
        <3> HIDE DEF n
        <3>4. CASE n = 0
            BY <3>1, <3>2, <3>4
        <3>5. CASE n # 0
            <4>1. n - 1 \in 0..(MaxData + 1)
                BY <3>3, <3>5, MaxDataAssumption
            <4>2. <<Msg("CHANNEL_CLOSE", 0, NoContext, n - 1)>> \in Seq(GoodMessage)
                BY <2>1, <4>1
            <4> QED
                BY <3>1, <3>2, <3>5, <4>2, SentFacts
        <3> QED
            BY <3>4, <3>5
    <2> QED
        BY <2>2, <2>3, <2>4
<1> QED
    BY <1>1, <1>2, <1>3, <1>4, InvTypes DEF OtherTypes

-----------------------------------------------------------------------------
(* Contexts that are made *)

\* The clock is an id.
LEMMA ClockFacts ==
    ASSUME ContextInv, NEW i \in NewMSec
    PROVE  i \in Ids /\ clock \in Ids /\ i \in {clock, clock + 1}
BY InvTypes DEF OtherTypes, NewMSec

\* What MallocContext(true) makes.
LEMMA MallocMakes ==
    ASSUME ContextInv, NEW c \in Contexts, NEW i \in Ids, NEW x \in Context,
           x.state \in {"live", "freeing"},
           TypeIsSet => HandleOK(x),
           MallocContext(c, i, x), UNCHANGED <<taskStop, released>>,
           ~taskStop["master"] \/ \E l \in Contexts : ctx["master"][l].handle = "listening"
    PROVE  \E y \in Context : /\ Makes("master", c, i, y)
                              /\ y = [x EXCEPT !.id = i]
<1> DEFINE y == [x EXCEPT !.id = i]
<1>1. /\ Fresh("master", c)
      /\ ctx' = [ctx EXCEPT !["master"][c] = y]
      /\ mapCtxPoint' = [mapCtxPoint EXCEPT !["master"][i] = c]
      /\ refCount' = [refCount EXCEPT !["master"] = refCount["master"] + 1]
    BY DEF MallocContext
<1>2. /\ y \in Context /\ y.state = x.state /\ y.id = i /\ y.handle = x.handle
      /\ y.type = x.type /\ y.sort = x.sort
    BY DEF Context
<1> HIDE DEF y
<1>3. "master" \in Ends /\ MapTypes
    BY InvTypes DEF Ends
<1>4. /\ MapTypes'
      /\ mapCtxPoint'["master"][i] = c
      /\ \A j \in Ids : j # i => mapCtxPoint'["master"][j] = mapCtxPoint["master"][j]
      /\ \A f \in Ends : f # "master" => mapCtxPoint'[f] = mapCtxPoint[f]
    BY <1>1, <1>3 DEF MapTypes
<1>5. HandleOK(x) => HandleOK(y)
    BY <1>2 DEF HandleOK
<1>6. Makes("master", c, i, y)
    BY <1>1, <1>2, <1>4, <1>5 DEF Makes, Fresh
<1> QED
    BY <1>2, <1>6 DEF y

\* The types of the rest when a context is made.
LEMMA MakeTypes ==
    ASSUME ContextInv, clock' \in Ids, net' \in NetTypes,
           UNCHANGED <<taskStop, released, up, sent>>
    PROVE  OtherTypes'
BY InvTypes DEF OtherTypes

\* Some context is made.
MakesOne ==
    \E e \in Ends, c \in Contexts, i \in Ids : \E x \in Context : Makes(e, c, i, x)

LEMMA BeginForwardMakes ==
    ASSUME ContextInv, NEW c \in Contexts, BeginForward(c)
    PROVE  MakesOne /\ OtherTypes'
<1> DEFINE XOf(h) == [New EXCEPT !.kind = "listen", !.type = ForwardType,
                                 !.sort = ForwardType, !.handle = h]
<1>1. PICK i \in NewMSec, ok \in BOOLEAN :
          /\ MallocContext(c, i, XOf(IF ok THEN "listening" ELSE "open"))
          /\ net' = Sent(net, "master", IF ok THEN <<Msg("CHECK", i, c, 0)>> ELSE TaskFinish)
    BY DEF BeginForward
<1>2. /\ ~taskStop["master"]
      /\ UNCHANGED <<taskStop, released, up, sent>>
    BY DEF BeginForward
<1> DEFINE h == IF ok THEN "listening" ELSE "open"
           x == XOf(h)
<1>3. h \in {"listening", "open"}
    OBVIOUS
<1>4. i \in Ids /\ clock' = i
    BY <1>1, ClockFacts DEF MallocContext
<1>5. MallocContext(c, i, x)
    BY <1>1
<1> HIDE DEF h
<1>6. x \in Context /\ x.state = "live" /\ x.type = x.sort
    BY <1>3, NewFacts, TypeAssumption DEF Context
<1> HIDE DEF x
<1>7. HandleOK(x)
    BY <1>6 DEF HandleOK
<1>8. \E y \in Context : Makes("master", c, i, y)
    BY <1>2, <1>4, <1>5, <1>6, <1>7, MallocMakes
<1>9. MakesOne
    BY <1>4, <1>8 DEF MakesOne, Ends
<1>10. net' \in NetTypes
    <2>1. "CHECK" \in Commands \ {"DATA"} /\ 0 \in 0..(MaxData + 1)
          /\ c \in Contexts \cup {NoContext}
        BY MaxDataAssumption DEF Commands
    <2>2. <<Msg("CHECK", i, c, 0)>> \in Seq(GoodMessage) /\ TaskFinish \in Seq(GoodMessage)
        BY <1>4, <2>1, MsgFacts, FinishFacts
    <2>3. net \in NetTypes /\ "master" \in Ends
        BY InvTypes DEF Ends
    <2>4. CASE ok
        BY <1>1, <2>2, <2>3, <2>4, SentFacts
    <2>5. CASE ~ok
        BY <1>1, <2>2, <2>3, <2>5, SentFacts
    <2> QED
        BY <2>4, <2>5
<1> QED
    BY <1>2, <1>4, <1>9, <1>10, MakeTypes

LEMMA ListenCallbackMakes ==
    ASSUME ContextInv, NEW l \in Contexts, NEW c \in Contexts, ListenCallback(l, c)
    PROVE  MakesOne /\ OtherTypes'
<1> DEFINE x == [New EXCEPT !.kind = "conn", !.type = ForwardType,
                            !.sort = ForwardType, !.handle = "connected"]
<1>1. PICK i \in NewMSec :
          /\ MallocContext(c, i, x)
          /\ net' = Sent(net, "master", <<Msg("ACTIVE_SLAVE", i, c, 0)>>)
    BY DEF ListenCallback
<1>2. /\ ctx["master"][l].handle = "listening"
      /\ UNCHANGED <<taskStop, released, up, sent>>
    BY DEF ListenCallback
<1>3. i \in Ids /\ clock' = i
    BY <1>1, ClockFacts DEF MallocContext
<1>4. x \in Context /\ x.state = "live" /\ x.type = x.sort
    BY NewFacts, TypeAssumption DEF Context
<1> HIDE DEF x
<1>5. HandleOK(x)
    BY <1>4 DEF HandleOK
<1>6. \E y \in Context : Makes("master", c, i, y)
    BY <1>1, <1>2, <1>3, <1>4, <1>5, MallocMakes
<1>7. MakesOne
    BY <1>3, <1>6 DEF MakesOne, Ends
<1>8. net' \in NetTypes
    <2>1. "ACTIVE_SLAVE" \in Commands \ {"DATA"} /\ 0 \in 0..(MaxData + 1)
          /\ c \in Contexts \cup {NoContext}
        BY MaxDataAssumption DEF Commands
    <2>2. <<Msg("ACTIVE_SLAVE", i, c, 0)>> \in Seq(GoodMessage)
        BY <1>3, <2>1, MsgFacts
    <2>3. net \in NetTypes /\ "master" \in Ends
        BY InvTypes DEF Ends
    <2> QED
        BY <1>1, <2>2, <2>3, SentFacts
<1> QED
    BY <1>2, <1>3, <1>7, <1>8, MakeTypes

LEMMA AcceptFailMakes ==
    ASSUME ContextInv, NEW l \in Contexts, NEW c \in Contexts, AcceptFail(l, c)
    PROVE  MakesOne /\ OtherTypes'
<1> DEFINE w == [New EXCEPT !.kind = "conn", !.sort = ForwardType, !.handle = "open"]
           x == FreeContext(w)
<1>1. PICK i \in NewMSec : MallocContext(c, i, x)
    BY DEF AcceptFail
<1>2. /\ AcceptMayFail /\ ctx["master"][l].handle = "listening"
      /\ UNCHANGED <<taskStop, released, net, up, sent>>
    BY DEF AcceptFail
<1>3. i \in Ids /\ clock' = i
    BY <1>1, ClockFacts DEF MallocContext
<1>4. /\ w \in Context /\ w.state = "live" /\ w.handle = "open"
      /\ w.type = "tcp" /\ w.sort = ForwardType
    BY NewFacts, TypeAssumption DEF Context
<1> HIDE DEF w
<1>5. /\ x \in Context /\ x.state = "freeing"
      /\ w.type = w.sort => x.handle = "closed"
    BY <1>4, FreeContextFacts
<1> HIDE DEF x
<1>6. TypeIsSet => HandleOK(x)
    BY <1>2, <1>4, <1>5 DEF HandleOK, TypeIsSet
<1>7. \E y \in Context : Makes("master", c, i, y)
    BY <1>1, <1>2, <1>3, <1>5, <1>6, MallocMakes
<1>8. MakesOne
    BY <1>3, <1>7 DEF MakesOne, Ends
<1>9. net' \in NetTypes
    BY <1>2, InvTypes
<1> QED
    BY <1>2, <1>3, <1>8, <1>9, MakeTypes

\* The map of the slave after the request for a context.
RenamedMap(t, i, c) == [mapCtxPoint EXCEPT !["slave"] = Renamed(t, i, c)]

LEMMA RenamedFacts ==
    ASSUME MapTypes, NEW t \in Ids, NEW i \in Ids, NEW c \in Contexts,
           mapCtxPoint' = RenamedMap(t, i, c)
    PROVE  /\ MapTypes'
           /\ mapCtxPoint'["slave"][i] = c
           /\ \A j \in Ids : j # i =>
                  mapCtxPoint'["slave"][j] \in {mapCtxPoint["slave"][j], NoContext}
           /\ \A f \in Ends : f # "slave" => mapCtxPoint'[f] = mapCtxPoint[f]
<1> DEFINE r == Renamed(t, i, c)
<1>1. "slave" \in Ends /\ mapCtxPoint["slave"] \in [Ids -> Contexts \cup {NoContext}]
    BY DEF MapTypes, Ends
<1>2. /\ r \in [Ids -> Contexts \cup {NoContext}] /\ r[i] = c
      /\ \A j \in Ids : j # i => r[j] \in {mapCtxPoint["slave"][j], NoContext}
    BY <1>1 DEF Renamed
<1> HIDE DEF r
<1>3. mapCtxPoint'["slave"] = r /\ \A f \in Ends : f # "slave" => mapCtxPoint'[f] = mapCtxPoint[f]
    BY <1>1 DEF MapTypes, RenamedMap, r
<1>4. MapTypes'
    BY <1>1, <1>2 DEF MapTypes, RenamedMap, r
<1> QED
    BY <1>2, <1>3, <1>4

\* What the slave makes for a request.
LEMMA SlaveMakes ==
    ASSUME ContextInv, NEW c \in Contexts, NEW x \in Context, NEW t \in Ids, NEW i \in Ids,
           Fresh("slave", c), ~taskStop["slave"],
           x.state \in {"live", "freeing"}, x.id = i, HandleOK(x),
           mapCtxPoint' = RenamedMap(t, i, c),
           ctx' = [ctx EXCEPT !["slave"][c] = x],
           refCount' = [refCount EXCEPT !["slave"] = @ + 1],
           UNCHANGED <<taskStop, released>>
    PROVE  MakesOne
<1>1. /\ MapTypes'
      /\ mapCtxPoint'["slave"][i] = c
      /\ \A j \in Ids : j # i =>
             mapCtxPoint'["slave"][j] \in {mapCtxPoint["slave"][j], NoContext}
      /\ \A f \in Ends : f # "slave" => mapCtxPoint'[f] = mapCtxPoint[f]
    <2>1. MapTypes
        BY InvTypes
    <2> QED
        BY <2>1, RenamedFacts
<1>2. Makes("slave", c, i, x)
    BY <1>1 DEF Makes, Fresh
<1> QED
    BY <1>2 DEF MakesOne, Ends

LEMMA SlaveCheckMakes ==
    ASSUME ContextInv, NEW c \in Contexts, NEW ok \in BOOLEAN, SlaveCheck(c, ok)
    PROVE  MakesOne /\ OtherTypes'
<1> DEFINE m == Head(net["slave"])
           w == [New EXCEPT !.kind = "check", !.id = m.id, !.peer = m.from]
           y == IF ok THEN [w EXCEPT !.type = ForwardType] ELSE w
           x == FreeContext(y)
<1>1. PICK t \in Ids : mapCtxPoint' = RenamedMap(t, m.id, c)
    BY DEF SlaveCheck, RenamedMap
<1>2. /\ net["slave"] # <<>> /\ ~taskStop["slave"] /\ Fresh("slave", c)
      /\ ctx' = [ctx EXCEPT !["slave"][c] = x]
      /\ net' = Sent(Rest("slave"), "slave",
                     IF ok THEN <<Msg("CHECK_RESULT", m.id, c, 0)>>
                     ELSE <<Msg("FREE_CONTEXT", m.id, c, 0)>> \o TaskFinish)
      /\ refCount' = [refCount EXCEPT !["slave"] = @ + 1]
      /\ UNCHANGED <<taskStop, released, clock, up, sent>>
    BY DEF SlaveCheck, Next1
<1>3. m \in Message /\ Rest("slave") \in NetTypes /\ "slave" \in Ends
    BY <1>2, InvTypes, RestFacts DEF Ends
<1>4. m.id \in Ids /\ m.from \in Contexts \cup {NoContext}
    BY <1>3 DEF Message
<1> HIDE DEF m
<1>5. /\ w \in Context /\ w.state = "live" /\ w.handle = "null" /\ w.id = m.id
    BY <1>4, NewFacts DEF Context
<1> HIDE DEF w
<1>6. y \in Context /\ y.state = "live" /\ y.handle = "null" /\ y.id = m.id
    BY <1>5, TypeAssumption DEF Context
<1> HIDE DEF y
<1>7. x \in Context /\ x.state = "freeing" /\ x.handle = "null" /\ x.id = m.id
    BY <1>6, FreeContextFacts
<1> HIDE DEF x
<1>9. HandleOK(x)
    BY <1>7 DEF HandleOK
<1>10. MakesOne
    BY <1>1, <1>2, <1>4, <1>7, <1>9, SlaveMakes
<1>11. net' \in NetTypes
    <2>1. {"FREE_CONTEXT", "CHECK_RESULT"} \subseteq Commands \ {"DATA"} /\ 0 \in 0..(MaxData + 1)
          /\ c \in Contexts \cup {NoContext}
        BY MaxDataAssumption DEF Commands
    <2>2. /\ <<Msg("FREE_CONTEXT", m.id, c, 0)>> \in Seq(GoodMessage)
          /\ <<Msg("CHECK_RESULT", m.id, c, 0)>> \in Seq(GoodMessage)
        BY <1>4, <2>1, MsgFacts
    <2>3. <<Msg("FREE_CONTEXT", m.id, c, 0)>> \o TaskFinish \in Seq(GoodMessage)
        BY <2>2, FinishFacts
    <2>4. CASE ok
        BY <1>2, <1>3, <2>2, <2>4, SentFacts
    <2>5. CASE ~ok
        BY <1>2, <1>3, <2>3, <2>5, SentFacts
    <2> QED
        BY <2>4, <2>5
<1>12. clock' \in Ids
    BY <1>2, InvTypes DEF OtherTypes
<1> QED
    BY <1>2, <1>10, <1>11, <1>12, MakeTypes

LEMMA SlaveConnectMakes ==
    ASSUME ContextInv, NEW c \in Contexts, NEW ok \in BOOLEAN, SlaveConnect(c, ok)
    PROVE  MakesOne /\ OtherTypes'
<1> DEFINE m == Head(net["slave"])
           w == [New EXCEPT !.kind = "conn", !.id = m.id, !.peer = m.from]
           y == [w EXCEPT !.type = ForwardType, !.sort = ForwardType,
                          !.handle = "connecting"]
           z == FreeContext(w)
           x == IF ok THEN y ELSE z
<1>1. PICK t \in Ids : mapCtxPoint' = RenamedMap(t, m.id, c)
    BY DEF SlaveConnect, RenamedMap
<1>2. /\ net["slave"] # <<>> /\ ~taskStop["slave"] /\ Fresh("slave", c)
      /\ ctx' = [ctx EXCEPT !["slave"][c] = x]
      /\ net' = IF ok THEN Rest("slave")
                ELSE Sent(Rest("slave"), "slave",
                          <<Msg("FREE_CONTEXT", m.id, c, 0)>> \o TaskFinish)
      /\ refCount' = [refCount EXCEPT !["slave"] = @ + 1]
      /\ UNCHANGED <<taskStop, released, clock, up, sent>>
    BY DEF SlaveConnect, Next1
<1>3. m \in Message /\ Rest("slave") \in NetTypes /\ "slave" \in Ends
    BY <1>2, InvTypes, RestFacts DEF Ends
<1>4. m.id \in Ids /\ m.from \in Contexts \cup {NoContext}
    BY <1>3 DEF Message
<1> HIDE DEF m
<1>5. /\ w \in Context /\ w.state = "live" /\ w.handle = "null" /\ w.id = m.id
    BY <1>4, NewFacts DEF Context
<1> HIDE DEF w
<1>6. y \in Context /\ y.state = "live" /\ y.type = y.sort /\ y.id = m.id
    BY <1>5, TypeAssumption DEF Context
<1>7. z \in Context /\ z.state = "freeing" /\ z.handle = "null" /\ z.id = m.id
    BY <1>5, FreeContextFacts
<1> HIDE DEF y, z
<1>8. HandleOK(y) /\ HandleOK(z)
    BY <1>6, <1>7 DEF HandleOK
<1>9. /\ x \in Context /\ x.state \in {"live", "freeing"} /\ x.id = m.id /\ HandleOK(x)
    BY <1>6, <1>7, <1>8
<1> HIDE DEF x
<1>10. MakesOne
    BY <1>1, <1>2, <1>4, <1>9, SlaveMakes
<1>11. net' \in NetTypes
    <2>1. "FREE_CONTEXT" \in Commands \ {"DATA"} /\ 0 \in 0..(MaxData + 1)
          /\ c \in Contexts \cup {NoContext}
        BY MaxDataAssumption DEF Commands
    <2>2. <<Msg("FREE_CONTEXT", m.id, c, 0)>> \in Seq(GoodMessage)
        BY <1>4, <2>1, MsgFacts
    <2>3. <<Msg("FREE_CONTEXT", m.id, c, 0)>> \o TaskFinish \in Seq(GoodMessage)
        BY <2>2, FinishFacts
    <2>4. CASE ok
        BY <1>2, <1>3, <2>4
    <2>5. CASE ~ok
        BY <1>2, <1>3, <2>3, <2>5, SentFacts
    <2> QED
        BY <2>4, <2>5
<1>12. clock' \in Ids
    BY <1>2, InvTypes DEF OtherTypes
<1> QED
    BY <1>2, <1>10, <1>11, <1>12, MakeTypes

-----------------------------------------------------------------------------
(* The invariants *)

\* Every step keeps the contexts, makes one or deletes one.
LEMMA StepKinds ==
    ASSUME ContextInv, Next
    PROVE  \/ (Keeps \/ MakesOne) /\ OtherTypes'
           \/ \E e \in Ends, c \in Contexts : FreeContextCallBack(e, c)
<1>1. CASE \E c \in Contexts : BeginForward(c) \/ ListenFail(c)
    BY <1>1, BeginForwardMakes, ListenFailKeeps
<1>2. CASE \E l, c \in Contexts : ListenCallback(l, c) \/ AcceptFail(l, c)
    BY <1>2, ListenCallbackMakes, AcceptFailMakes
<1>3. CASE \E e \in Ends, c \in Contexts : ReadForwardBuf(e, c) \/ LocalPeerGone(e, c)
    BY <1>3, ReadForwardBufKeeps, LocalPeerGoneKeeps
<1>4. CASE \E e \in Ends : Detach(e)
    BY <1>4, EndKeeps
<1>5. CASE SessionLost
    BY <1>5, SessionLostKeeps
<1>6. CASE \E e \in Ends : Dispatch(e) \/ SessionClear(e) \/ TryRemoveTask(e)
    BY <1>6, DroppedKeeps, CommandKeeps, EndKeeps, TryRemoveTaskKeeps DEF Dispatch
<1>7. CASE Slave
    BY <1>7, SlaveCheckMakes, SlaveConnectMakes DEF Slave
<1>8. CASE \E c \in Contexts : \/ Connected(c)
                               \/ \E e \in Ends : WriteDone(e, c) \/ FreeContextCallBack(e, c)
    BY <1>8, ConnectTargetKeeps, WriteDoneKeeps DEF Connected
<1> QED
    BY <1>1, <1>2, <1>3, <1>4, <1>5, <1>6, <1>7, <1>8 DEF Next, Environment

LEMMA ContextStep ==
    ASSUME ContextInv, [Next]_vars
    PROVE  /\ ContextInv'
           /\ TypeIsSet /\ HandlesOK => HandlesOK'
           /\ HandlesOK /\ ReleasedInv => ReleasedInv'
<1>1. CASE Next
    <2>1. CASE Keeps /\ OtherTypes'
        BY <2>1, KeepsInv
    <2>2. CASE MakesOne /\ OtherTypes'
        BY <2>2, MakesInv DEF MakesOne
    <2>3. CASE \E e \in Ends, c \in Contexts : FreeContextCallBack(e, c)
        BY <2>3, DeleteInv
    <2> QED
        BY <1>1, <2>1, <2>2, <2>3, StepKinds
<1>2. CASE UNCHANGED vars
    <2>1. UNCHANGED <<ctx, mapCtxPoint, refCount, taskStop>>
          /\ \A e \in Ends : released'[e] => released[e] \/ (taskStop[e] /\ refCount[e] = 0)
        BY <1>2 DEF vars
    <2>2. Keeps
        BY <2>1, NoneKeeps
    <2>3. OtherTypes'
        BY <1>2, InvTypes DEF vars, OtherTypes
    <2> QED
        BY <2>2, <2>3, KeepsInv
<1> QED
    BY <1>1, <1>2

\* Nothing is there yet.
LEMMA ContextInit ==
    ASSUME Init
    PROVE  ContextInv /\ TaskInv
<1>1. Unused \in Context /\ Unused.state = "free" /\ Unused.handle = "null"
    BY NewFacts DEF Unused
<1>2. \A e \in Ends, c \in Contexts : ctx[e][c] = Unused
    BY DEF Init
<1> HIDE DEF Unused
<1>3. \A e \in Ends : InUse(e) = {}
    BY <1>1, <1>2 DEF InUse
<1>4. RefCountsContexts
    <2>1. Cardinality({}) = 0
        BY FS_EmptySet
    <2> QED
        BY <1>3, <2>1 DEF Init, RefCountsContexts
<1>5. ctx \in [Ends -> [Contexts -> Context]]
    BY <1>1 DEF Init
<1>6. 0 \in Ids /\ 0 \in 0..MaxData
    BY MaxMSecAssumption, MaxDataAssumption DEF Ids
<1>7. TypeOK /\ DataIsNamed /\ MapFindsLive
    BY <1>5, <1>6 DEF Init, TypeOK, DataIsNamed, MapFindsLive
<1>8. HandlesOK
    BY <1>1, <1>2 DEF HandlesOK, HandleOK
<1>9. ReleasedInv
    BY DEF Init, ReleasedInv
<1> QED
    BY <1>4, <1>7, <1>8, <1>9 DEF ContextInv, TaskInv

\* The contexts of both ends, the map that finds them and the counter agree,
\* whatever the constants, the order of the commands and the way a task ends.
THEOREM ContextInvHolds == Spec => []ContextInv
<1>1. Init => ContextInv
    BY ContextInit
<1>2. ContextInv /\ [Next]_vars => ContextInv'
    BY ContextStep
<1> QED
    BY <1>1, <1>2, PTL DEF Spec

\* HdcTaskBase::refCount is the number of contexts that are not deleted: what
\* ReadyForRelease looks at is right on every path that makes or frees one.
THEOREM RefCountsContextsHolds == Spec => []RefCountsContexts
<1>1. ContextInv => RefCountsContexts
    BY DEF ContextInv
<1> QED
    BY <1>1, ContextInvHolds, PTL

\* When the type of a context is that of its handle from the start, the handle is
\* closed before the context is deleted, and a task released gets no more.
THEOREM TaskInvHolds ==
    ASSUME TypeIsSet
    PROVE  Spec => [](ContextInv /\ TaskInv)
<1>1. Init => ContextInv /\ TaskInv
    BY ContextInit
<1>2. ContextInv /\ TaskInv /\ [Next]_vars => (ContextInv /\ TaskInv)'
    BY ContextStep DEF TaskInv
<1> QED
    BY <1>1, <1>2, PTL DEF Spec

\* Neither a command nor libuv comes back to a context that is deleted, or with a
\* task that is: the map leads to live contexts only, a deleted context has no open
\* handle, and a task that was deleted has no context left.
THEOREM NothingDanglesHolds ==
    ASSUME TypeIsSet
    PROVE  Spec => []NothingDangles
<1>1. ASSUME ContextInv, TaskInv PROVE NothingDangles
    <2>1. ASSUME NEW e \in Ends, NEW c \in Contexts, ctx[e][c].state = "deleted"
          PROVE  ctx[e][c].handle \in {"null", "closed"}
        BY <1>1, <2>1 DEF TaskInv, HandlesOK, HandleOK
    <2>2. ASSUME NEW e \in Ends, released[e] PROVE InUse(e) = {}
        <3>1. Cardinality(InUse(e)) = 0
            BY <1>1, <2>2 DEF ContextInv, RefCountsContexts, TaskInv, ReleasedInv
        <3> QED
            BY <3>1, InUseFinite, FS_EmptySet
    <2> QED
        BY <1>1, <2>1, <2>2 DEF NothingDangles, DeletedIsClosed, ReleasedHasNone, ContextInv
<1> QED
    BY <1>1, TaskInvHolds, PTL

-----------------------------------------------------------------------------
(* The queues of a step *)

\* r is the queue q after a step that takes n messages and adds some of S.
Queue(q, r, n, S) ==
    \A k \in 1..Len(r) : \/ k + n \in 1..Len(q) /\ r[k] = q[k + n]
                         \/ k + n > Len(q) /\ r[k] \in S

\* A queue that is left alone, loses its head or gets messages.
LEMMA QueueFacts ==
    ASSUME NEW q \in Seq(GoodMessage), NEW msgs \in Seq(GoodMessage), NEW S,
           \A k \in 1..Len(msgs) : msgs[k] \in S
    PROVE  /\ Queue(q, q, 0, S)
           /\ q # <<>> => Queue(q, Tail(q), 1, S) /\ Len(Tail(q)) = Len(q) - 1
           /\ Queue(q, q \o msgs, 0, S) /\ Len(q \o msgs) = Len(q) + Len(msgs)
<1>1. Queue(q, q, 0, S)
    BY DEF Queue
<1>2. ASSUME q # <<>> PROVE Queue(q, Tail(q), 1, S) /\ Len(Tail(q)) = Len(q) - 1
    BY <1>2 DEF Queue
<1>3. Len(q \o msgs) = Len(q) + Len(msgs)
    OBVIOUS
<1>4. ASSUME NEW k \in 1..Len(q \o msgs)
      PROVE  \/ k + 0 \in 1..Len(q) /\ (q \o msgs)[k] = q[k + 0]
             \/ k + 0 > Len(q) /\ (q \o msgs)[k] \in S
    <2>1. CASE k <= Len(q)
        BY <2>1
    <2>2. CASE k > Len(q)
        <3>1. k - Len(q) \in 1..Len(msgs)
            BY <1>3, <2>2
        <3>2. (q \o msgs)[k] = msgs[k - Len(q)]
            BY <1>3, <2>2
        <3> QED
            BY <2>2, <3>1, <3>2
    <2> QED
        BY <2>1, <2>2
<1> QED
    BY <1>1, <1>2, <1>3, <1>4 DEF Queue

\* How many messages of the queue of f a step takes: e reads one, or none.
Taken(e, f, t) == IF f = e THEN t ELSE 0

\* Both queues after a step of e that takes t messages and sends msgs.
LEMMA NetFacts ==
    ASSUME net \in NetTypes, NEW e \in Ends, NEW msgs \in Seq(GoodMessage), NEW S,
           \A k \in 1..Len(msgs) : msgs[k] \in S,
           NEW t \in {0, 1}, NEW q, t = 0 => q = net,
           t = 1 => net[e] # <<>> /\ q = Rest(e),
           net' = Sent(q, e, msgs)
    PROVE  \A f \in Ends :
               /\ Queue(net[f], net'[f], Taken(e, f, t), IF f = Other(e) THEN S ELSE {})
               /\ f = Other(e) => Len(net'[f]) <= Len(net[f]) + Len(msgs)
<1>1. \A f \in Ends : net[f] \in Seq(GoodMessage)
    BY DEF NetTypes
<1>2. /\ Other(e) \in Ends /\ Other(e) # e
      /\ \A f \in Ends : f # Other(e) => f = e
    BY DEF Ends, Other
<1>3. /\ q \in NetTypes
      /\ q[Other(e)] = net[Other(e)]
      /\ t = 0 => q[e] = net[e]
      /\ t = 1 => q[e] = Tail(net[e])
    <2>1. CASE t = 0
        BY <2>1
    <2>2. CASE t = 1
        BY <1>2, <2>2, RestFacts
    <2> QED
        BY <2>1, <2>2
<1>4. /\ net'[e] = q[e]
      /\ net'[Other(e)] \in {net[Other(e)], net[Other(e)] \o msgs}
    BY <1>2, <1>3, SentFacts
<1>5. <<>> \in Seq(GoodMessage) /\ \A k \in 1..Len(<<>>) : <<>>[k] \in {}
    OBVIOUS
<1>6. Queue(net[e], net'[e], t, {})
    <2>1. CASE t = 0
        BY <1>1, <1>3, <1>4, <1>5, <2>1, QueueFacts
    <2>2. CASE t = 1
        <3>1. net[e] # <<>> /\ net'[e] = Tail(net[e])
            BY <1>3, <1>4, <2>2
        <3>2. Queue(net[e], Tail(net[e]), 1, {})
            BY <1>1, <1>5, <3>1, QueueFacts
        <3> QED
            BY <2>2, <3>1, <3>2
    <2> QED
        BY <2>1, <2>2
<1>7. /\ Queue(net[Other(e)], net'[Other(e)], 0, S)
      /\ Len(net'[Other(e)]) <= Len(net[Other(e)]) + Len(msgs)
    <2>1. CASE net'[Other(e)] = net[Other(e)]
        BY <1>1, <1>2, <2>1, QueueFacts
    <2>2. CASE net'[Other(e)] = net[Other(e)] \o msgs
        BY <1>1, <1>2, <2>2, QueueFacts
    <2> QED
        BY <1>4, <2>1, <2>2
<1> QED
    BY <1>2, <1>6, <1>7 DEF Taken

-----------------------------------------------------------------------------
(* Connections *)

\* A context that only goes on: connected, closed or freed, and never another.
Calm(x, y) ==
    /\ y.id = x.id /\ y.kind = x.kind
    /\ \/ y.state = x.state
       \/ x.state = "live" /\ y.state = "freeing"
       \/ x.state = "freeing" /\ y.state = "deleted"
    /\ \/ y.handle = x.handle
       \/ x.handle = "connecting" /\ y.handle = "connected"
       \/ y.state \in {"freeing", "deleted"} /\ y.handle = "closed"

\* What ReaderInv asks of a context that is read from.
Reads(e, c) ==
    /\ ctx[e][c].state # "free"
    /\ e = "master" => Opened(ctx[e][c].id)
    /\ e = "slave" => ctx[e][c].kind = "conn"

CalmStep ==
    \A e \in Ends, c \in Contexts :
        /\ Calm(ctx[e][c], ctx'[e][c])
        /\ ctx'[e][c].reading => ctx[e][c].reading \/ Reads(e, c)
        /\ ctx'[e][c].pending # <<>> =>
               \/ ctx[e][c].pending # <<>> /\ ctx'[e][c].handle = ctx[e][c].handle
               \/ ctx'[e][c].handle = "connected"
               \/ ~Alone(ctx[e][c].id)

DataInv == ContextInv /\ ConnectionInv /\ DataComesConnected

\* Who has an id is known after a calm step as before.
LEMMA CalmKnown ==
    ASSUME CalmStep, NEW i
    PROVE  (Known(i)' <=> Known(i)) /\ (Alone(i)' <=> Alone(i))
<1>1. "master" \in Ends
    BY DEF Ends
<1>2. \A c \in Contexts :
          /\ ctx'["master"][c].id = ctx["master"][c].id
          /\ (ctx'["master"][c].state = "free") <=> (ctx["master"][c].state = "free")
    BY <1>1 DEF CalmStep, Calm
<1>3. /\ Used("master")' = Used("master")
      /\ \A c \in Used("master") : ctx'["master"][c].id = ctx["master"][c].id
    BY <1>2 DEF Used
<1> QED
    BY <1>3 DEF Known, Alone

\* The messages of the slave's queue, and the requests among them.
LEMMA CalmIds ==
    ASSUME DataInv, CalmStep, ContextTypes', net' \in NetTypes,
           NEW n \in {0, 1}, NEW S, \A m \in S : ~Request(m),
           Queue(net["slave"], net'["slave"], n, S)
    PROVE  /\ \A i \in Ids : /\ Asked(i) => Asked(i)'
                             /\ Opened(i) => Opened(i)'
                             /\ OfConnection(i) => OfConnection(i)'
           /\ IdInv'
<1>1. \A e \in Ends : Used(e)' = Used(e)
    BY DEF CalmStep, Calm, Used
<1>2. \A e \in Ends, c \in Contexts : /\ ctx'[e][c].id = ctx[e][c].id
                                      /\ ctx'[e][c].kind = ctx[e][c].kind
    BY DEF CalmStep, Calm
<1>3. "slave" \in Ends /\ "master" \in Ends
    BY DEF Ends
<1>4. \A k \in 1..Len(net'["slave"]) : Request(net'["slave"][k]) =>
          k + n \in 1..Len(net["slave"]) /\ net'["slave"][k] = net["slave"][k + n]
    BY DEF Queue
<1>5. ASSUME NEW i \in Ids, Asked(i) PROVE Asked(i)'
    <2>1. Known(i)'
        BY <1>5, CalmKnown DEF Asked
    <2>2. \A k \in 1..Len(net'["slave"]) :
              Request(net'["slave"][k]) => net'["slave"][k].id # i
        BY <1>4, <1>5 DEF Asked
    <2> QED
        BY <2>1, <2>2 DEF Asked
<1>6. ASSUME NEW i \in Ids, Opened(i), Alone(i)' PROVE Opened(i)'
    <2>1. Alone(i)
        BY <1>6, CalmKnown
    <2>2. Asked(i)'
        BY <1>5, <1>6, <2>1 DEF Opened
    <2>3. ASSUME NEW d \in Used("slave"), ctx'["slave"][d].id = i
          PROVE  ctx'["slave"][d].handle = "connected" \/ Finish("slave", d)'
        BY <1>2, <1>3, <1>6, <2>1, <2>3 DEF Opened, CalmStep, Calm, Finish, Used
    <2> QED
        BY <1>1, <1>3, <2>2, <2>3 DEF Opened
<1>7. ASSUME NEW i \in Ids, OfConnection(i) PROVE OfConnection(i)'
    <2>1. Known(i)' /\ (Alone(i)' => Alone(i))
        BY <1>7, CalmKnown DEF OfConnection
    <2>2. ASSUME NEW c \in Used("master")', Alone(i)', ctx'["master"][c].id = i
          PROVE  ctx'["master"][c].kind = "conn"
        BY <1>1, <1>2, <1>3, <1>7, <2>1, <2>2 DEF OfConnection, Used
    <2> QED
        BY <2>1, <2>2 DEF OfConnection
<1>8. IdInv'
    <2>1. IdInv
        BY DEF DataInv, ConnectionInv
    <2>2. ASSUME NEW d \in Used("slave")', Alone(ctx["slave"][d].id)'
          PROVE  /\ Asked(ctx["slave"][d].id)'
                 /\ \A c \in Used("slave")' :
                        ctx'["slave"][c].id = ctx'["slave"][d].id => c = d
        <3>1. d \in Contexts /\ d \in Used("slave") /\ ctx["slave"][d].id \in Ids
            BY <1>1, <1>3, <2>2, InvTypes DEF Used, ContextTypes, Context, DataInv
        <3>2. PICK i \in Ids : i = ctx["slave"][d].id
            BY <3>1
        <3>3. ctx'["slave"][d].id = i
            BY <1>2, <1>3, <3>1, <3>2
        <3>4. Alone(i)'
            BY <2>2, <3>3 DEF Alone
        <3>5. Alone(i)
            BY <3>4, CalmKnown
        <3>6. Asked(i) /\ \A c \in Used("slave") : ctx["slave"][c].id = i => c = d
            BY <2>1, <3>1, <3>2, <3>5 DEF IdInv
        <3>7. Asked(i)'
            BY <1>5, <3>6
        <3>8. Asked(ctx["slave"][d].id)'
            BY <3>3, <3>7 DEF Asked, Known
        <3> QED
            BY <1>1, <1>2, <1>3, <3>3, <3>6, <3>8 DEF Used
    <2>3. ASSUME NEW k \in 1..Len(net'["slave"]), Request(net'["slave"][k])
          PROVE  /\ Known(net["slave"][k].id)'
                 /\ Alone(net["slave"][k].id)' =>
                        \A j \in 1..Len(net'["slave"]) :
                            j # k /\ Request(net'["slave"][j]) =>
                                net'["slave"][j].id # net'["slave"][k].id
        <3> DEFINE i == net'["slave"][k].id
        <3>1. k + n \in 1..Len(net["slave"]) /\ net'["slave"][k] = net["slave"][k + n]
            BY <1>4, <2>3
        <3>2. /\ Known(net["slave"][k + n].id)
              /\ Alone(net["slave"][k + n].id) =>
                     \A j \in 1..Len(net["slave"]) :
                         j # k + n /\ Request(net["slave"][j]) =>
                             net["slave"][j].id # net["slave"][k + n].id
            BY <2>1, <2>3, <3>1 DEF IdInv
        <3>3. i = net["slave"][k + n].id
            BY <3>1
        <3>4. Used("master")' = Used("master")
              /\ \A c \in Used("master") : ctx'["master"][c].id = ctx["master"][c].id
            BY <1>1, <1>2, <1>3 DEF Used
        <3>5. Known(net["slave"][k].id)'
            BY <3>2, <3>3, <3>4 DEF Known
        <3>6. ASSUME Alone(net["slave"][k].id)',
                     NEW j \in 1..Len(net'["slave"]), j # k, Request(net'["slave"][j])
              PROVE  net'["slave"][j].id # net'["slave"][k].id
            <4>1. Alone(net["slave"][k + n].id)
                BY <3>3, <3>4, <3>6 DEF Alone
            <4>2. /\ j + n \in 1..Len(net["slave"]) /\ net'["slave"][j] = net["slave"][j + n]
                  /\ j + n # k + n
                BY <1>4, <3>6
            <4> QED
                BY <3>1, <3>2, <3>6, <4>1, <4>2
        <3> QED
            BY <3>5, <3>6
    <2> QED
        BY <2>2, <2>3 DEF IdInv
<1>9. ASSUME NEW i \in Ids, Opened(i) PROVE Opened(i)'
    BY <1>6, <1>9 DEF Opened
<1> QED
    BY <1>5, <1>7, <1>8, <1>9

\* Messages that may be added in a calm step.
ToSlave(m) ==
    /\ m.cmd \notin {"CHECK", "ACTIVE_SLAVE", "CHECK_RESULT", "ACTIVE_MASTER"}
    /\ m.cmd = "DATA" => Opened(m.id)
ToMaster(m) ==
    /\ ~Request(m)
    /\ m.cmd = "DATA" => OfConnection(m.id)

\* Each message of a queue is an id's.
LEMMA NetIds ==
    ASSUME NEW q \in NetTypes, NEW e \in Ends, NEW k \in 1..Len(q[e])
    PROVE  q[e][k] \in GoodMessage /\ q[e][k].id \in Ids
<1>1. q[e] \in Seq(GoodMessage)
    BY DEF NetTypes
<1>2. q[e][k] \in GoodMessage
    BY <1>1
<1> QED
    BY <1>2 DEF GoodMessage, Message

\* A step that makes no context and sends no request keeps what is known of the
\* connections.
LEMMA CalmInv ==
    ASSUME DataInv, CalmStep, ContextTypes', clock' = clock, net' \in NetTypes,
           NEW n \in {0, 1}, NEW S, \A m \in S : ToSlave(m),
           Queue(net["slave"], net'["slave"], n, S),
           NEW l \in {0, 1}, NEW M,
           \A m \in M : ToMaster(m) /\ (m.cmd = "ACTIVE_MASTER" => Opened(m.id)'),
           Queue(net["master"], net'["master"], l, M)
    PROVE  ConnectionInv' /\ DataComesConnected'
<1>1. \A m \in S : ~Request(m)
    BY DEF ToSlave, Request
<1>2. /\ \A i \in Ids : /\ Asked(i) => Asked(i)'
                        /\ Opened(i) => Opened(i)'
                        /\ OfConnection(i) => OfConnection(i)'
      /\ IdInv'
    BY <1>1, CalmIds
<1>3. "slave" \in Ends /\ "master" \in Ends /\ ContextTypes /\ net \in NetTypes
    BY InvTypes DEF Ends, DataInv
<1>4. ConnectionInv
    BY DEF DataInv
<1>5. CommandInv'
    <2>1. ASSUME NEW k \in 1..Len(net'["slave"])
          PROVE  /\ net'["slave"][k].cmd \notin {"CHECK_RESULT", "ACTIVE_MASTER"}
                 /\ net'["slave"][k].cmd = "ACTIVE_SLAVE" => OfConnection(net["slave"][k].id)'
                 /\ net'["slave"][k].cmd = "DATA" => Opened(net["slave"][k].id)'
        <3> DEFINE m == net'["slave"][k]
        <3>1. m \in GoodMessage /\ m.id \in Ids
            BY <1>3, NetIds
        <3>2. CASE k + n \in 1..Len(net["slave"]) /\ m = net["slave"][k + n]
            <4>1. /\ m.cmd \notin {"CHECK_RESULT", "ACTIVE_MASTER"}
                  /\ m.cmd = "ACTIVE_SLAVE" => OfConnection(m.id)
                  /\ m.cmd = "DATA" => Opened(m.id)
                BY <1>4, <3>2 DEF ConnectionInv, CommandInv
            <4> QED
                BY <1>2, <3>1, <4>1
        <3>3. CASE m \in S
            BY <1>2, <3>1, <3>3 DEF ToSlave
        <3> QED
            BY <3>2, <3>3 DEF Queue
    <2>2. ASSUME NEW k \in 1..Len(net'["master"])
          PROVE  /\ ~Request(net'["master"][k])
                 /\ net'["master"][k].cmd = "ACTIVE_MASTER" => Opened(net["master"][k].id)'
                 /\ net'["master"][k].cmd = "DATA" => OfConnection(net["master"][k].id)'
        <3> DEFINE m == net'["master"][k]
        <3>1. m \in GoodMessage /\ m.id \in Ids
            BY <1>3, NetIds
        <3>2. CASE k + l \in 1..Len(net["master"]) /\ m = net["master"][k + l]
            <4>1. /\ ~Request(m)
                  /\ m.cmd = "ACTIVE_MASTER" => Opened(m.id)
                  /\ m.cmd = "DATA" => OfConnection(m.id)
                BY <1>4, <3>2 DEF ConnectionInv, CommandInv
            <4> QED
                BY <1>2, <3>1, <4>1
        <3>3. CASE m \in M
            BY <1>2, <3>1, <3>3 DEF ToMaster
        <3> QED
            BY <3>2, <3>3 DEF Queue
    <2> QED
        BY <2>1, <2>2 DEF CommandInv, Request
<1>6. ReaderInv'
    <2>1. ASSUME NEW c \in Contexts
          PROVE  /\ ctx'["master"][c].state = "free" => ~ctx'["master"][c].reading
                 /\ ctx'["master"][c].reading => Opened(ctx["master"][c].id)'
                 /\ ctx'["master"][c].kind = "conn" /\ ctx'["master"][c].state = "live" =>
                        ctx'["master"][c].handle = "connected"
        <3> DEFINE x == ctx["master"][c]
                   y == ctx'["master"][c]
        <3>1. Calm(x, y) /\ (y.reading => x.reading \/ Reads("master", c))
            BY <1>3 DEF CalmStep
        <3>2. /\ x.state = "free" => ~x.reading
              /\ x.reading => Opened(x.id)
              /\ x.kind = "conn" /\ x.state = "live" => x.handle = "connected"
            BY <1>4 DEF ConnectionInv, ReaderInv
        <3>3. x.id \in Ids /\ y.id = x.id
            BY <1>3, <3>1 DEF ContextTypes, Context, Calm
        <3>4. y.state = "free" => ~y.reading
            BY <3>1, <3>2 DEF Calm, Reads
        <3>5. y.reading => Opened(x.id)
            BY <3>1, <3>2 DEF Reads
        <3>6. y.kind = "conn" /\ y.state = "live" => y.handle = "connected"
            BY <3>1, <3>2 DEF Calm
        <3> QED
            BY <1>2, <3>3, <3>4, <3>5, <3>6
    <2>2. ASSUME NEW c \in Contexts
          PROVE  /\ ctx'["slave"][c].reading \/ ctx'["slave"][c].handle = "connecting" =>
                        ctx'["slave"][c].kind = "conn"
                 /\ ctx'["slave"][c].state = "free" => ctx'["slave"][c].kind = "none"
                 /\ ctx'["slave"][c].kind = "conn" => OfConnection(ctx["slave"][c].id)'
        <3> DEFINE x == ctx["slave"][c]
                   y == ctx'["slave"][c]
        <3>1. Calm(x, y) /\ (y.reading => x.reading \/ Reads("slave", c))
            BY <1>3 DEF CalmStep
        <3>2. /\ x.reading \/ x.handle = "connecting" => x.kind = "conn"
              /\ x.state = "free" => x.kind = "none"
              /\ x.kind = "conn" => OfConnection(x.id)
            BY <1>4 DEF ConnectionInv, ReaderInv
        <3>3. x.id \in Ids /\ y.id = x.id
            BY <1>3, <3>1 DEF ContextTypes, Context, Calm
        <3>4. y.reading \/ y.handle = "connecting" => y.kind = "conn"
            BY <3>1, <3>2 DEF Calm, Reads
        <3>5. y.state = "free" => y.kind = "none"
            BY <3>1, <3>2 DEF Calm
        <3>6. y.kind = "conn" => OfConnection(x.id)
            BY <3>1, <3>2 DEF Calm
        <3> QED
            BY <1>2, <3>3, <3>4, <3>5, <3>6
    <2> QED
        BY <2>1, <2>2 DEF ReaderInv
<1>7. DataComesConnected'
    <2>1. ASSUME NEW e \in Ends, NEW c \in Contexts, Alone(ctx[e][c].id)',
                 ctx'[e][c].pending # <<>>
          PROVE  ctx'[e][c].handle = "connected"
        <3>1. PICK i \in Ids : i = ctx[e][c].id
            BY <1>3 DEF ContextTypes, Context
        <3>2. ctx'[e][c].id = i
            BY <3>1 DEF CalmStep, Calm
        <3>3. Alone(i)'
            BY <2>1, <3>2 DEF Alone
        <3>4. Alone(i)
            BY <3>3, CalmKnown
        <3>5. ctx[e][c].pending # <<>> => ctx[e][c].handle = "connected"
            BY <3>1, <3>4 DEF DataComesConnected, DataInv
        <3> QED
            BY <2>1, <3>1, <3>4, <3>5 DEF CalmStep
    <2> QED
        BY <2>1 DEF DataComesConnected
<1> QED
    BY <1>2, <1>5, <1>6, <1>7 DEF ConnectionInv

\* The same of one context: what does not read or buffer more than before.
Gentle(x, y) ==
    /\ Calm(x, y)
    /\ y.reading => x.reading
    /\ y.pending # <<>> => x.pending # <<>> /\ y.handle = x.handle

LEMMA FreeGentle ==
    ASSUME NEW x \in Context
    PROVE  Gentle(x, x) /\ Gentle(x, FreeContext(x))
<1>1. Gentle(x, x)
    BY DEF Gentle, Calm
<1>2. CASE x.state # "live"
    BY <1>1, <1>2, FreeContextFacts
<1>3. CASE x.state = "live"
    <2> DEFINE y == FreeContext(x)
    <2>1. /\ y.id = x.id /\ y.kind = x.kind /\ y.state = "freeing"
          /\ y.pending = <<>> /\ y.reading = FALSE
          /\ y.handle = IF x.handle = "null" \/ x.type # x.sort THEN x.handle ELSE "closed"
        BY <1>3, FreeContextFacts
    <2> HIDE DEF y
    <2>2. Gentle(x, y)
        BY <1>3, <2>1 DEF Gentle, Calm
    <2> QED
        BY <1>1, <2>2 DEF y
<1> QED
    BY <1>2, <1>3

\* Contexts that are kept or freed.
LEMMA FreeCalm ==
    ASSUME ContextInv,
           \A e \in Ends, c \in Contexts : ctx'[e][c] \in {ctx[e][c], FreeContext(ctx[e][c])}
    PROVE  CalmStep
<1>1. ASSUME NEW e \in Ends, NEW c \in Contexts PROVE Gentle(ctx[e][c], ctx'[e][c])
    <2>1. ctx[e][c] \in Context
        BY InvTypes DEF ContextTypes
    <2>2. Gentle(ctx[e][c], ctx[e][c]) /\ Gentle(ctx[e][c], FreeContext(ctx[e][c]))
        BY <2>1, FreeGentle
    <2>3. ctx'[e][c] = ctx[e][c] \/ ctx'[e][c] = FreeContext(ctx[e][c])
        OBVIOUS
    <2> QED
        BY <2>2, <2>3
<1> QED
    BY <1>1 DEF CalmStep, Gentle

LEMMA SameCalm ==
    ASSUME ContextInv, ctx' = ctx
    PROVE  CalmStep /\ ContextTypes'
<1>1. \A e \in Ends, c \in Contexts : ctx'[e][c] \in {ctx[e][c], FreeContext(ctx[e][c])}
    OBVIOUS
<1> QED
    BY <1>1, FreeCalm, InvTypes DEF ContextTypes

\* One context changes.
LEMMA OneCalm ==
    ASSUME ContextInv, NEW e \in Ends, NEW c \in Contexts, NEW y \in Context,
           ctx' = [ctx EXCEPT ![e][c] = y],
           Calm(ctx[e][c], y), y.reading => ctx[e][c].reading \/ Reads(e, c),
           y.pending # <<>> => \/ ctx[e][c].pending # <<>> /\ y.handle = ctx[e][c].handle
                               \/ y.handle = "connected"
                               \/ ~Alone(ctx[e][c].id)
    PROVE  CalmStep /\ ContextTypes'
<1>1. ContextTypes
    BY InvTypes
<1>2. /\ ContextTypes'
      /\ ctx'[e][c] = y
      /\ \A f \in Ends, d \in Contexts : f # e \/ d # c => ctx'[f][d] = ctx[f][d]
    BY <1>1 DEF ContextTypes
<1>3. ASSUME NEW f \in Ends, NEW d \in Contexts
      PROVE  /\ Calm(ctx[f][d], ctx'[f][d])
             /\ ctx'[f][d].reading => ctx[f][d].reading \/ Reads(f, d)
             /\ ctx'[f][d].pending # <<>> =>
                    \/ ctx[f][d].pending # <<>> /\ ctx'[f][d].handle = ctx[f][d].handle
                    \/ ctx'[f][d].handle = "connected"
                    \/ ~Alone(ctx[f][d].id)
    <2>1. CASE f = e /\ d = c
        BY <1>2, <2>1
    <2>2. CASE f # e \/ d # c
        <3>1. ctx'[f][d] = ctx[f][d]
            BY <1>2, <2>2
        <3>2. ctx[f][d] \in Context
            BY <1>1 DEF ContextTypes
        <3>3. Gentle(ctx[f][d], ctx[f][d])
            BY <3>2, FreeGentle
        <3> QED
            BY <3>1, <3>3 DEF Gentle
    <2> QED
        BY <2>1, <2>2
<1> QED
    BY <1>2, <1>3 DEF CalmStep

LEMMA OneGentle ==
    ASSUME ContextInv, NEW e \in Ends, NEW c \in Contexts, NEW y \in Context,
           ctx' = [ctx EXCEPT ![e][c] = y], Gentle(ctx[e][c], y)
    PROVE  CalmStep /\ ContextTypes'
<1>1. /\ Calm(ctx[e][c], y) /\ (y.reading => ctx[e][c].reading \/ Reads(e, c))
      /\ y.pending # <<>> => \/ ctx[e][c].pending # <<>> /\ y.handle = ctx[e][c].handle
                             \/ y.handle = "connected"
    BY DEF Gentle
<1> QED
    BY <1>1, OneCalm

\* One context is freed.
LEMMA OneFreed ==
    ASSUME ContextInv, NEW e \in Ends, NEW c \in Contexts,
           ctx' = [ctx EXCEPT ![e][c] = FreeContext(ctx[e][c])]
    PROVE  CalmStep /\ ContextTypes'
<1>1. ctx[e][c] \in Context
    BY InvTypes DEF ContextTypes
<1>2. FreeContext(ctx[e][c]) \in Context /\ Gentle(ctx[e][c], FreeContext(ctx[e][c]))
    BY <1>1, FreeContextFacts, FreeGentle
<1> QED
    BY <1>2, OneGentle

\* A calm step that sends nothing.
LEMMA QuietInv ==
    ASSUME DataInv, CalmStep, ContextTypes', clock' = clock, net' \in NetTypes,
           NEW n \in {0, 1}, NEW l \in {0, 1},
           Queue(net["slave"], net'["slave"], n, {}),
           Queue(net["master"], net'["master"], l, {})
    PROVE  ConnectionInv' /\ DataComesConnected'
<1>1. /\ \A m \in {} : ToSlave(m)
      /\ \A m \in {} : ToMaster(m) /\ (m.cmd = "ACTIVE_MASTER" => Opened(m.id)')
    OBVIOUS
<1> QED
    BY <1>1, CalmInv

\* It takes a command.
LEMMA RestInv ==
    ASSUME DataInv, CalmStep, ContextTypes', clock' = clock,
           NEW e \in Ends, net[e] # <<>>, net' = Rest(e)
    PROVE  ConnectionInv' /\ DataComesConnected'
<1>1. net \in NetTypes /\ "slave" \in Ends /\ "master" \in Ends
    BY InvTypes DEF Ends, DataInv
<1>2. /\ net' \in NetTypes /\ net'[e] = Tail(net[e])
      /\ \A f \in Ends : f # e => net'[f] = net[f]
    BY <1>1, RestFacts
<1>3. \A f \in Ends : net[f] \in Seq(GoodMessage)
    BY <1>1 DEF NetTypes
<1>4. <<>> \in Seq(GoodMessage) /\ \A k \in 1..Len(<<>>) : <<>>[k] \in {}
    OBVIOUS
<1>5. Queue(net[e], net'[e], 1, {})
    <2>1. Queue(net[e], Tail(net[e]), 1, {})
        BY <1>3, <1>4, QueueFacts
    <2> QED
        BY <1>2, <2>1
<1>6. \A f \in Ends : f # e => Queue(net[f], net'[f], 0, {})
    <2>1. \A f \in Ends : Queue(net[f], net[f], 0, {})
        BY <1>3, <1>4, QueueFacts
    <2> QED
        BY <1>2, <2>1
<1>7. CASE e = "slave"
    BY <1>1, <1>2, <1>5, <1>6, <1>7, QuietInv
<1>8. CASE e = "master"
    BY <1>1, <1>2, <1>5, <1>6, <1>8, QuietInv
<1> QED
    BY <1>7, <1>8 DEF Ends

\* It leaves the queues alone.
LEMMA SameNetInv ==
    ASSUME DataInv, CalmStep, ContextTypes', clock' = clock, net' = net
    PROVE  ConnectionInv' /\ DataComesConnected'
<1>1. net \in NetTypes /\ "slave" \in Ends /\ "master" \in Ends
    BY InvTypes DEF Ends, DataInv
<1>2. \A f \in Ends : net[f] \in Seq(GoodMessage)
    BY <1>1 DEF NetTypes
<1>3. <<>> \in Seq(GoodMessage) /\ \A k \in 1..Len(<<>>) : <<>>[k] \in {}
    OBVIOUS
<1>4. \A f \in Ends : Queue(net[f], net[f], 0, {})
    BY <1>2, <1>3, QueueFacts
<1> QED
    BY <1>1, <1>4, QuietInv

\* It sends messages that may be sent.
LEMMA SentInv ==
    ASSUME DataInv, CalmStep, ContextTypes', clock' = clock,
           NEW e \in Ends, NEW msgs \in Seq(GoodMessage), NEW S,
           \A k \in 1..Len(msgs) : msgs[k] \in S,
           e = "master" => \A m \in S : ToSlave(m),
           e = "slave" => \A m \in S : /\ ToMaster(m)
                                       /\ m.cmd = "ACTIVE_MASTER" => Opened(m.id)',
           NEW t \in {0, 1}, NEW q, t = 0 => q = net,
           t = 1 => net[e] # <<>> /\ q = Rest(e),
           net' = Sent(q, e, msgs)
    PROVE  ConnectionInv' /\ DataComesConnected'
<1>1. net \in NetTypes /\ "slave" \in Ends /\ "master" \in Ends
    BY InvTypes DEF Ends, DataInv
<1>2. net' \in NetTypes
    <2>1. CASE t = 0
        BY <1>1, <2>1, SentFacts
    <2>2. CASE t = 1
        BY <1>1, <2>2, RestFacts, SentFacts
    <2> QED
        BY <2>1, <2>2
<1>3. \A f \in Ends : Queue(net[f], net'[f], Taken(e, f, t), IF f = Other(e) THEN S ELSE {})
    BY <1>1, NetFacts
<1>4. CASE e = "master"
    <2>1. /\ Queue(net["slave"], net'["slave"], 0, S)
          /\ Queue(net["master"], net'["master"], t, {})
        BY <1>1, <1>3, <1>4 DEF Taken, Other
    <2>2. /\ \A m \in S : ToSlave(m)
          /\ \A m \in {} : ToMaster(m) /\ (m.cmd = "ACTIVE_MASTER" => Opened(m.id)')
        BY <1>4
    <2> QED
        BY <1>2, <2>1, <2>2, CalmInv
<1>5. CASE e = "slave"
    <2>1. /\ Queue(net["slave"], net'["slave"], t, {})
          /\ Queue(net["master"], net'["master"], 0, S)
        BY <1>1, <1>3, <1>5 DEF Taken, Other
    <2>2. /\ \A m \in {} : ToSlave(m)
          /\ \A m \in S : ToMaster(m) /\ (m.cmd = "ACTIVE_MASTER" => Opened(m.id)')
        BY <1>5
    <2> QED
        BY <1>2, <2>1, <2>2, CalmInv
<1> QED
    BY <1>4, <1>5 DEF Ends

\* It sends one message.
LEMMA SentOneInv ==
    ASSUME DataInv, CalmStep, ContextTypes', clock' = clock,
           NEW e \in Ends, NEW m \in GoodMessage,
           e = "master" => ToSlave(m),
           e = "slave" => ToMaster(m) /\ (m.cmd = "ACTIVE_MASTER" => Opened(m.id)'),
           net' = Sent(net, e, <<m>>)
    PROVE  ConnectionInv' /\ DataComesConnected'
<1> DEFINE S == {m}
           msgs == <<m>>
           t == 0
<1>1. msgs \in Seq(GoodMessage) /\ \A k \in 1..Len(msgs) : msgs[k] \in S
    OBVIOUS
<1>2. e = "master" => \A x \in S : ToSlave(x)
    OBVIOUS
<1>3. e = "slave" => \A x \in S : ToMaster(x) /\ (x.cmd = "ACTIVE_MASTER" => Opened(x.id)')
    OBVIOUS
<1>4. net' = Sent(net, e, msgs)
    OBVIOUS
<1>5. t \in {0, 1} /\ t # 1
    OBVIOUS
<1> HIDE DEF S, msgs, t
<1> QED
    BY <1>1, <1>2, <1>3, <1>4, <1>5, SentInv

\* It sends word of an end.
Plain == {m \in GoodMessage : m.cmd \in {"FREE_CONTEXT", "CHANNEL_CLOSE"}}

LEMMA PlainInv ==
    ASSUME DataInv, CalmStep, ContextTypes', clock' = clock,
           NEW e \in Ends, NEW msgs \in Seq(GoodMessage),
           \A k \in 1..Len(msgs) : msgs[k] \in Plain,
           NEW t \in {0, 1}, NEW q, t = 0 => q = net,
           t = 1 => net[e] # <<>> /\ q = Rest(e),
           net' = Sent(q, e, msgs)
    PROVE  ConnectionInv' /\ DataComesConnected'
<1>1. \A m \in Plain : ToSlave(m)
    BY DEF Plain, ToSlave
<1>2. \A m \in Plain : ToMaster(m) /\ (m.cmd = "ACTIVE_MASTER" => Opened(m.id)')
    BY DEF Plain, ToMaster, Request
<1> QED
    BY <1>1, <1>2, SentInv

\* A message with the command of an end.
LEMMA PlainFacts ==
    ASSUME NEW cmd \in {"FREE_CONTEXT", "CHANNEL_CLOSE"}, NEW i \in Ids,
           NEW c \in Contexts \cup {NoContext}, NEW n \in 0..(MaxData + 1)
    PROVE  /\ <<Msg(cmd, i, c, n)>> \in Seq(GoodMessage)
           /\ \A k \in 1..Len(<<Msg(cmd, i, c, n)>>) : <<Msg(cmd, i, c, n)>>[k] \in Plain
<1> DEFINE m == Msg(cmd, i, c, n)
<1>1. cmd \in Commands \ {"DATA"}
    BY DEF Commands
<1>2. <<m>> \in Seq(GoodMessage) /\ m.cmd = cmd
    BY <1>1, MsgFacts
<1>3. m \in GoodMessage
    BY <1>2
<1>4. m \in Plain
    BY <1>2, <1>3 DEF Plain
<1> HIDE DEF m
<1>5. \A k \in 1..Len(<<m>>) : <<m>>[k] \in Plain
    BY <1>4
<1> QED
    BY <1>2, <1>5 DEF m

LEMMA PlainNotice ==
    ASSUME ContextInv, NEW e \in Ends, NEW c \in Contexts
    PROVE  /\ FreeNotice(e, c) \in Seq(GoodMessage)
           /\ \A k \in 1..Len(FreeNotice(e, c)) : FreeNotice(e, c)[k] \in Plain
<1>1. ctx[e][c].id \in Ids /\ c \in Contexts \cup {NoContext} /\ 0 \in 0..(MaxData + 1)
    BY InvTypes, MaxDataAssumption DEF ContextTypes, Context
<1>2. CASE Finish(e, c)
    BY <1>2 DEF FreeNotice
<1>3. CASE ~Finish(e, c)
    <2>1. FreeNotice(e, c) = <<Msg("FREE_CONTEXT", ctx[e][c].id, c, 0)>>
        BY <1>3 DEF FreeNotice, SendToTask
    <2> QED
        BY <1>1, <2>1, PlainFacts
<1> QED
    BY <1>2, <1>3

LEMMA CloseInv ==
    ASSUME DataInv, CalmStep, ContextTypes', clock' = clock, NEW e \in Ends,
           NEW n \in 0..(MaxData + 1), NEW q,
           q = net \/ (net[e] # <<>> /\ q = Rest(e)),
           net' = Sent(q, e, <<Msg("CHANNEL_CLOSE", 0, NoContext, n)>>)
    PROVE  ConnectionInv' /\ DataComesConnected'
<1> DEFINE msgs == <<Msg("CHANNEL_CLOSE", 0, NoContext, n)>>
<1>1. 0 \in Ids /\ NoContext \in Contexts \cup {NoContext}
    BY MaxMSecAssumption DEF Ids
<1>2. msgs \in Seq(GoodMessage) /\ \A k \in 1..Len(msgs) : msgs[k] \in Plain
    BY <1>1, PlainFacts
<1>3. net' = Sent(q, e, msgs)
    OBVIOUS
<1> HIDE DEF msgs
<1>4. CASE q = net
    <2>1. (0 = 0 => q = net) /\ (0 = 1 => net[e] # <<>> /\ q = Rest(e)) /\ 0 \in {0, 1}
        BY <1>4
    <2> QED
        BY <1>2, <1>3, <2>1, PlainInv
<1>5. CASE net[e] # <<>> /\ q = Rest(e)
    <2>1. (1 = 0 => q = net) /\ (1 = 1 => net[e] # <<>> /\ q = Rest(e)) /\ 1 \in {0, 1}
        BY <1>5
    <2> QED
        BY <1>2, <1>3, <2>1, PlainInv
<1> QED
    BY <1>4, <1>5

-----------------------------------------------------------------------------
(* What each action does to the connections *)

LEMMA LocalPeerGoneInv ==
    ASSUME DataInv, NEW e \in Ends, NEW c \in Contexts, LocalPeerGone(e, c)
    PROVE  ConnectionInv' /\ DataComesConnected'
<1>1. /\ ctx' = [ctx EXCEPT ![e][c] = FreeContext(ctx[e][c])]
      /\ net' = Sent(net, e, FreeNotice(e, c)) /\ clock' = clock
    BY DEF LocalPeerGone
<1>2. ContextInv
    BY DEF DataInv
<1>3. CalmStep /\ ContextTypes'
    BY <1>1, <1>2, OneFreed
<1> QED
    BY <1>1, <1>2, <1>3, PlainNotice, PlainInv

LEMMA ListenFailInv ==
    ASSUME DataInv, NEW l \in Contexts, ListenFail(l)
    PROVE  ConnectionInv' /\ DataComesConnected'
<1>1. /\ ctx' = [ctx EXCEPT !["master"][l] = FreeContext(ctx["master"][l])]
      /\ net' = Sent(net, "master", <<Msg("CHANNEL_CLOSE", 0, NoContext, 1)>>)
      /\ clock' = clock /\ "master" \in Ends
    BY DEF ListenFail, TaskFinish, Ends
<1>2. ContextInv
    BY DEF DataInv
<1>3. CalmStep /\ ContextTypes'
    BY <1>1, <1>2, OneFreed
<1>4. 1 \in 0..(MaxData + 1)
    BY MaxDataAssumption
<1> QED
    BY <1>1, <1>3, <1>4, CloseInv

LEMMA EndInv ==
    ASSUME DataInv, NEW e \in Ends, Detach(e) \/ ChannelClose(e) \/ SessionClear(e)
    PROVE  ConnectionInv' /\ DataComesConnected'
<1>1. StopTask(e) /\ clock' = clock
    BY DEF Detach, ChannelClose, SessionClear
<1>2. ContextInv
    BY DEF DataInv
<1>3. CalmStep /\ ContextTypes'
    BY <1>1, <1>2, StopFacts, FreeCalm
<1>4. CASE Detach(e)
    <2>1. net' = Sent(net, e, <<Msg("CHANNEL_CLOSE", 0, NoContext, 0)>>)
          /\ 0 \in 0..(MaxData + 1)
        BY <1>4, MaxDataAssumption DEF Detach
    <2> QED
        BY <1>1, <1>3, <2>1, CloseInv
<1>5. CASE SessionClear(e)
    <2>1. net' = net
        BY <1>5 DEF SessionClear
    <2> QED
        BY <1>1, <1>3, <2>1, SameNetInv
<1>6. CASE ChannelClose(e)
    <2> DEFINE n == Head(net[e]).n
    <2>1. /\ net[e] # <<>>
          /\ net' = IF n = 0 THEN Rest(e)
                    ELSE Sent(Rest(e), e, <<Msg("CHANNEL_CLOSE", 0, NoContext, n - 1)>>)
        BY <1>6 DEF ChannelClose
    <2>2. Head(net[e]) \in Message
        BY <1>2, <2>1, InvTypes, RestFacts
    <2>3. n \in 0..(MaxData + 1)
        BY <2>2 DEF Message
    <2> HIDE DEF n
    <2>4. CASE n = 0
        BY <1>1, <1>3, <2>1, <2>4, RestInv
    <2>5. CASE n # 0
        <3>1. n - 1 \in 0..(MaxData + 1)
            BY <2>3, <2>5, MaxDataAssumption
        <3> QED
            BY <1>1, <1>3, <2>1, <2>5, <3>1, CloseInv
    <2> QED
        BY <2>4, <2>5
<1> QED
    BY <1>4, <1>5, <1>6

LEMMA WriteDoneInv ==
    ASSUME DataInv, NEW e \in Ends, NEW c \in Contexts, WriteDone(e, c)
    PROVE  ConnectionInv' /\ DataComesConnected'
<1> DEFINE old == ctx[e][c]
           g == Append(old.got, Head(old.pending))
           p == Tail(old.pending)
           y == [old EXCEPT !.got = g, !.pending = p]
<1>1. ContextInv /\ old \in Context /\ old.pending # <<>>
    BY InvTypes DEF ContextTypes, WriteDone, DataInv
<1>2. ctx' = [ctx EXCEPT ![e][c] = y] /\ net' = net /\ clock' = clock
    BY DEF WriteDone
<1>3. g \in Seq(Contexts \X (1..MaxData)) /\ p \in Seq(Contexts \X (1..MaxData))
    <2>1. /\ old.pending \in Seq(Contexts \X (1..MaxData))
          /\ old.got \in Seq(Contexts \X (1..MaxData))
        BY <1>1 DEF Context
    <2> QED
        BY <1>1, <2>1
<1> HIDE DEF old, g, p
<1>4. /\ y \in Context /\ y.id = old.id /\ y.kind = old.kind /\ y.state = old.state
      /\ y.handle = old.handle /\ y.reading = old.reading
    BY <1>1, <1>3 DEF Context
<1> HIDE DEF y
<1>5. Gentle(old, y)
    BY <1>1, <1>4 DEF Gentle, Calm
<1>6. CalmStep /\ ContextTypes'
    BY <1>1, <1>2, <1>4, <1>5, OneGentle DEF old
<1> QED
    BY <1>2, <1>6, SameNetInv

LEMMA CallBackInv ==
    ASSUME DataInv, NEW e \in Ends, NEW c \in Contexts, FreeContextCallBack(e, c)
    PROVE  ConnectionInv' /\ DataComesConnected'
<1> DEFINE old == ctx[e][c]
           y == [old EXCEPT !.state = "deleted"]
<1>1. ContextInv /\ old \in Context /\ old.state = "freeing"
    BY InvTypes DEF ContextTypes, FreeContextCallBack, DataInv
<1>2. ctx' = [ctx EXCEPT ![e][c] = y] /\ net' = net /\ clock' = clock
    BY DEF FreeContextCallBack
<1> HIDE DEF old
<1>3. /\ y \in Context /\ y.id = old.id /\ y.kind = old.kind /\ y.state = "deleted"
      /\ y.handle = old.handle /\ y.reading = old.reading /\ y.pending = old.pending
    BY <1>1 DEF Context
<1> HIDE DEF y
<1>4. Gentle(old, y)
    BY <1>1, <1>3 DEF Gentle, Calm
<1>5. CalmStep /\ ContextTypes'
    BY <1>1, <1>2, <1>3, <1>4, OneGentle DEF old
<1> QED
    BY <1>2, <1>5, SameNetInv

LEMMA QuietStepsInv ==
    ASSUME DataInv, NEW e \in Ends,
           CommandForNobody(e) \/ Ignore(e) \/ TryRemoveTask(e) \/ UNCHANGED vars
    PROVE  ConnectionInv' /\ DataComesConnected'
<1>1. ctx' = ctx /\ clock' = clock /\ ContextInv
    BY DEF CommandForNobody, Ignore, TryRemoveTask, vars, DataInv
<1>2. CalmStep /\ ContextTypes'
    BY <1>1, SameCalm
<1>3. net' = net \/ (net[e] # <<>> /\ net' = Rest(e))
    BY DEF CommandForNobody, Ignore, TryRemoveTask, vars, Next1
<1> QED
    BY <1>1, <1>2, <1>3, SameNetInv, RestInv

LEMMA SessionLostInv ==
    ASSUME DataInv, SessionLost
    PROVE  ConnectionInv' /\ DataComesConnected'
<1>1. ctx' = ctx /\ clock' = clock /\ ContextInv /\ net' = [e \in Ends |-> <<>>]
    BY DEF SessionLost, DataInv
<1>2. CalmStep /\ ContextTypes'
    BY <1>1, SameCalm
<1>3. net' \in NetTypes /\ net'["slave"] = <<>> /\ net'["master"] = <<>>
    BY <1>1 DEF NetTypes, Ends
<1>4. /\ Queue(net["slave"], net'["slave"], 0, {})
      /\ Queue(net["master"], net'["master"], 0, {})
    BY <1>3 DEF Queue
<1> QED
    BY <1>1, <1>2, <1>3, <1>4, QuietInv

\* Who reads sends DATA with the id of its connection.
LEMMA ReadForwardBufInv ==
    ASSUME DataInv, NEW e \in Ends, NEW c \in Contexts, ReadForwardBuf(e, c)
    PROVE  ConnectionInv' /\ DataComesConnected'
<1>1. /\ ctx' = ctx /\ clock' = clock /\ ContextInv /\ ctx[e][c].reading
      /\ sent[e][c] < MaxData
      /\ net' = Sent(net, e, <<Msg("DATA", ctx[e][c].id, c, sent[e][c] + 1)>>)
    BY DEF ReadForwardBuf, DataInv
<1>2. CalmStep /\ ContextTypes'
    BY <1>1, SameCalm
<1>3. sent[e][c] \in 0..MaxData /\ ctx[e][c].id \in Ids
    BY <1>1, InvTypes DEF OtherTypes, ContextTypes, Context
<1>4. PICK i \in Ids, n \in 1..MaxData : i = ctx[e][c].id /\ n = sent[e][c] + 1
    BY <1>1, <1>3, MaxDataAssumption
<1> DEFINE m == Msg("DATA", i, c, n)
<1>5. m \in Message /\ m.cmd = "DATA" /\ m.id = i /\ m.from = c /\ m.n = n
    BY MaxDataAssumption DEF Msg, Message, Commands
<1>6. net' = Sent(net, e, <<m>>)
    BY <1>1, <1>4
<1> HIDE DEF m
<1>7. m \in GoodMessage
    BY <1>5 DEF GoodMessage
<1>8. e = "master" => Opened(i)
    BY <1>1, <1>4 DEF DataInv, ConnectionInv, ReaderInv
<1>9. e = "slave" => OfConnection(i)
    BY <1>1, <1>4 DEF DataInv, ConnectionInv, ReaderInv
<1>10. /\ e = "master" => ToSlave(m)
       /\ e = "slave" => ToMaster(m) /\ (m.cmd = "ACTIVE_MASTER" => Opened(m.id)')
    BY <1>5, <1>8, <1>9 DEF ToSlave, ToMaster, Request
<1> QED
    BY <1>1, <1>2, <1>6, <1>7, <1>10, SentOneInv

\* The commands that change one context: the master reads when the slave says that
\* it is connected, and data comes to who is connected.
LEMMA CheckResultInv ==
    ASSUME DataInv, NEW e \in Ends, CheckResult(e)
    PROVE  ConnectionInv' /\ DataComesConnected'
<1> DEFINE c == Target(e, Head(net[e]))
           old == ctx[e][c]
           y == [old EXCEPT !.ready = TRUE]
<1>1. /\ ContextInv /\ net[e] # <<>> /\ c # NoContext
      /\ net' = Rest(e) /\ clock' = clock /\ ctx' = [ctx EXCEPT ![e][c] = y]
    BY DEF CheckResult, Next1, DataInv
<1>2. c \in Contexts /\ old \in Context
    BY <1>1, TargetFacts
<1> HIDE DEF c, old
<1>3. /\ y \in Context /\ y.id = old.id /\ y.kind = old.kind /\ y.state = old.state
      /\ y.handle = old.handle /\ y.reading = old.reading /\ y.pending = old.pending
    BY <1>2 DEF Context
<1> HIDE DEF y
<1>4. Gentle(old, y)
    BY <1>3 DEF Gentle, Calm
<1>5. CalmStep /\ ContextTypes'
    BY <1>1, <1>2, <1>3, <1>4, OneGentle DEF old
<1> QED
    BY <1>1, <1>5, RestInv

LEMMA FreeCommandInv ==
    ASSUME DataInv, NEW e \in Ends, FreeCommand(e)
    PROVE  ConnectionInv' /\ DataComesConnected'
<1> DEFINE c == Target(e, Head(net[e]))
<1>1. /\ ContextInv /\ net[e] # <<>> /\ c # NoContext
      /\ net' = Rest(e) /\ clock' = clock
      /\ ctx' = [ctx EXCEPT ![e][c] = FreeContext(ctx[e][c])]
    BY DEF FreeCommand, Next1, DataInv
<1>2. c \in Contexts
    BY <1>1, TargetFacts
<1> HIDE DEF c
<1>3. CalmStep /\ ContextTypes'
    BY <1>1, <1>2, OneFreed
<1> QED
    BY <1>1, <1>3, RestInv

\* The first message of a queue.
LEMMA HeadFacts ==
    ASSUME net \in NetTypes, NEW e \in Ends, net[e] # <<>>
    PROVE  1 \in 1..Len(net[e]) /\ Head(net[e]) = net[e][1]
<1>1. net[e] \in Seq(GoodMessage)
    BY DEF NetTypes
<1> QED
    BY <1>1

LEMMA ActiveMasterInv ==
    ASSUME DataInv, NEW e \in Ends, ActiveMaster(e)
    PROVE  ConnectionInv' /\ DataComesConnected'
<1> DEFINE m == Head(net[e])
           c == Target(e, m)
           old == ctx[e][c]
           r == ~Finish(e, c)
           y == [old EXCEPT !.ready = TRUE, !.reading = r]
<1>1. /\ ContextInv /\ net[e] # <<>> /\ c # NoContext /\ m.cmd = "ACTIVE_MASTER"
      /\ net' = Rest(e) /\ clock' = clock /\ ctx' = [ctx EXCEPT ![e][c] = y]
    BY DEF ActiveMaster, Next1, DataInv
<1>2. /\ c \in Contexts /\ old \in Context /\ r \in BOOLEAN
      /\ old.state \in {"live", "freeing"} /\ old.id = m.id
    BY <1>1, TargetFacts
<1>3. e = "master" /\ Opened(m.id)
    <2>1. 1 \in 1..Len(net[e]) /\ m = net[e][1]
        BY <1>1, InvTypes, HeadFacts
    <2>2. CommandInv
        BY DEF DataInv, ConnectionInv
    <2> QED
        BY <1>1, <2>1, <2>2 DEF CommandInv, Ends
<1>4. Reads(e, c)
    BY <1>2, <1>3 DEF Reads
<1> HIDE DEF m, c, old, r
<1>5. /\ y \in Context /\ y.id = old.id /\ y.kind = old.kind /\ y.state = old.state
      /\ y.handle = old.handle /\ y.pending = old.pending
    BY <1>2 DEF Context
<1> HIDE DEF y
<1>6. Calm(old, y)
    BY <1>5 DEF Calm
<1>7. /\ y.reading => old.reading \/ Reads(e, c)
      /\ y.pending # <<>> => \/ old.pending # <<>> /\ y.handle = old.handle
                             \/ y.handle = "connected"
    BY <1>4, <1>5
<1>8. CalmStep /\ ContextTypes'
    BY <1>1, <1>2, <1>5, <1>6, <1>7, OneCalm DEF old
<1> QED
    BY <1>1, <1>8, RestInv

LEMMA ForwardDataInv ==
    ASSUME DataInv, NEW e \in Ends, ForwardData(e)
    PROVE  ConnectionInv' /\ DataComesConnected'
<1> DEFINE m == Head(net[e])
           c == Target(e, m)
           old == ctx[e][c]
           q == Append(old.pending, <<m.from, m.n>>)
           y == [old EXCEPT !.pending = q]
<1>1. /\ ContextInv /\ net[e] # <<>> /\ c # NoContext /\ m.cmd = "DATA"
      /\ net' = Rest(e) /\ clock' = clock
      /\ IF Finish(e, c) THEN ctx' = ctx ELSE ctx' = [ctx EXCEPT ![e][c] = y]
    BY DEF ForwardData, Next1, DataInv
<1>2. /\ c \in Contexts /\ old \in Context /\ m \in GoodMessage
      /\ old.state \in {"live", "freeing"} /\ old.id = m.id
    BY <1>1, TargetFacts
<1>3. /\ e = "master" => OfConnection(m.id)
      /\ e = "slave" => Opened(m.id)
    <2>1. 1 \in 1..Len(net[e]) /\ m = net[e][1]
        BY <1>1, InvTypes, HeadFacts
    <2>2. CommandInv
        BY DEF DataInv, ConnectionInv
    <2> QED
        BY <1>1, <2>1, <2>2 DEF CommandInv
<1>4. ~Finish(e, c) => old.handle = "connected" \/ ~Alone(old.id)
    <2>1. ReaderInv
        BY DEF DataInv, ConnectionInv
    <2>2. CASE e = "master" /\ ~Finish(e, c) /\ Alone(old.id)
        <3>1. old.kind = "conn"
            BY <1>2, <1>3, <2>2 DEF OfConnection, Used
        <3>2. old.state = "live"
            BY <1>2, <2>2 DEF Finish
        <3> QED
            BY <1>2, <2>1, <2>2, <3>1, <3>2 DEF ReaderInv
    <2>3. CASE e = "slave" /\ ~Finish(e, c) /\ Alone(old.id)
        BY <1>2, <1>3, <2>3 DEF Opened, Used
    <2> QED
        BY <2>2, <2>3 DEF Ends
<1>5. CASE Finish(e, c)
    <2>1. ctx' = ctx
        BY <1>1, <1>5
    <2> QED
        BY <1>1, <2>1, SameCalm, RestInv
<1>6. CASE ~Finish(e, c)
    <2>1. /\ ctx' = [ctx EXCEPT ![e][c] = y]
          /\ old.handle = "connected" \/ ~Alone(old.id)
        BY <1>1, <1>4, <1>6
    <2>2. <<m.from, m.n>> \in Contexts \X (1..MaxData)
        BY <1>1, <1>2 DEF GoodMessage
    <2>3. q \in Seq(Contexts \X (1..MaxData))
        BY <1>2, <2>2 DEF Context
    <2> HIDE DEF m, c, old, q
    <2>4. /\ y \in Context /\ y.id = old.id /\ y.kind = old.kind /\ y.state = old.state
          /\ y.handle = old.handle /\ y.reading = old.reading
        BY <1>2, <2>3 DEF Context
    <2> HIDE DEF y
    <2>5. Calm(old, y)
        BY <2>4 DEF Calm
    <2>6. /\ y.reading => old.reading \/ Reads(e, c)
          /\ y.pending # <<>> => \/ old.pending # <<>> /\ y.handle = old.handle
                                 \/ y.handle = "connected"
                                 \/ ~Alone(old.id)
        BY <2>1, <2>4
    <2>7. CalmStep /\ ContextTypes'
        BY <1>1, <1>2, <2>1, <2>4, <2>5, <2>6, OneCalm DEF old
    <2> QED
        BY <1>1, <2>7, RestInv
<1> QED
    BY <1>5, <1>6

\* The slave tells the master when it is connected, and not before.
LEMMA ConnectTargetInv ==
    ASSUME DataInv, NEW c \in Contexts, NEW ok \in BOOLEAN, ConnectTarget(c, ok)
    PROVE  ConnectionInv' /\ DataComesConnected'
<1> DEFINE old == ctx["slave"][c]
           y == [old EXCEPT !.handle = "connected", !.ready = TRUE, !.reading = TRUE]
<1>1. /\ ContextInv /\ "slave" \in Ends /\ old \in Context /\ old.handle = "connecting"
      /\ clock' = clock
    BY InvTypes DEF ContextTypes, ConnectTarget, Ends, DataInv
<1>2. CASE ok /\ up
    <2>1. /\ ctx' = [ctx EXCEPT !["slave"][c] = y]
          /\ net' = Sent(net, "slave", <<Msg("ACTIVE_MASTER", old.id, c, 0)>>)
        BY <1>2 DEF ConnectTarget, SendToTask
    <2>2. /\ old.kind = "conn" /\ old.state # "free"
          /\ c \in Used("slave") /\ (Alone(old.id) => Asked(old.id))
        <3>1. ReaderInv /\ IdInv
            BY DEF DataInv, ConnectionInv
        <3>2. old.kind = "conn" /\ old.state # "free"
            BY <1>1, <3>1 DEF ReaderInv
        <3> QED
            BY <3>1, <3>2 DEF IdInv, Used
    <2>3. Reads("slave", c)
        BY <2>2 DEF Reads
    <2> HIDE DEF old
    <2>4. /\ y \in Context /\ y.id = old.id /\ y.kind = old.kind /\ y.state = old.state
          /\ y.handle = "connected" /\ y.pending = old.pending
        BY <1>1 DEF Context
    <2> HIDE DEF y
    <2>5. Calm(old, y)
        BY <1>1, <2>4 DEF Calm
    <2>6. /\ y.reading => old.reading \/ Reads("slave", c)
          /\ y.pending # <<>> => \/ old.pending # <<>> /\ y.handle = old.handle
                                 \/ y.handle = "connected"
        BY <2>3, <2>4
    <2>7. CalmStep /\ ContextTypes'
        BY <1>1, <2>1, <2>4, <2>5, <2>6, OneCalm DEF old
    <2>8. PICK i \in Ids : i = old.id
        BY <1>1 DEF Context
    <2> DEFINE m == Msg("ACTIVE_MASTER", i, c, 0)
    <2>9. net' = Sent(net, "slave", <<m>>)
        BY <2>1, <2>8
    <2>10. m \in GoodMessage /\ m.cmd = "ACTIVE_MASTER" /\ m.id = i
        <3>1. 0 \in 0..(MaxData + 1)
            BY MaxDataAssumption
        <3>2. m \in Message /\ m.cmd = "ACTIVE_MASTER" /\ m.id = i
            BY <3>1 DEF Msg, Message, Commands
        <3> HIDE DEF m
        <3> QED
            BY <3>2 DEF GoodMessage
    <2> HIDE DEF m
    <2>11. net'["slave"] = net["slave"] /\ net' \in NetTypes
        <3>1. <<m>> \in Seq(GoodMessage) /\ net \in NetTypes /\ "slave" # Other("slave")
            BY <1>1, <2>10, InvTypes DEF Other
        <3> QED
            BY <1>1, <2>9, <3>1, SentFacts
    <2>12. ASSUME Alone(i)' PROVE Opened(i)'
        <3>1. Alone(i) /\ (Known(i)' <=> Known(i))
            BY <2>7, <2>12, CalmKnown
        <3>2. Asked(i)'
            BY <1>1, <2>2, <2>8, <2>11, <3>1 DEF Asked
        <3>3. ASSUME NEW d \in Used("slave")', ctx'["slave"][d].id = i
              PROVE  ctx'["slave"][d].handle = "connected"
            <4>1. d \in Used("slave") /\ ctx["slave"][d].id = i
                BY <1>1, <2>7, <3>3 DEF CalmStep, Calm, Used
            <4>2. d = c
                BY <1>1, <2>2, <2>8, <3>1, <4>1 DEF DataInv, ConnectionInv, IdInv, old
            <4>3. ctx'["slave"][c] = y
                BY <1>1, <2>1, InvTypes DEF ContextTypes
            <4> QED
                BY <2>4, <4>2, <4>3
        <3> QED
            BY <3>2, <3>3 DEF Opened
    <2>13. ToMaster(m) /\ (m.cmd = "ACTIVE_MASTER" => Opened(m.id)')
        <3>1. Opened(i)'
            BY <2>12 DEF Opened
        <3> QED
            BY <2>10, <3>1 DEF ToMaster, Request
    <2> QED
        BY <1>1, <2>7, <2>9, <2>10, <2>13, SentOneInv
<1>3. CASE ~(ok /\ up)
    <2>1. /\ ctx' = [ctx EXCEPT !["slave"][c] = FreeContext(ctx["slave"][c])]
          /\ net' = Sent(net, "slave", FreeNotice("slave", c))
        BY <1>3 DEF ConnectTarget
    <2>2. CalmStep /\ ContextTypes'
        BY <1>1, <2>1, OneFreed
    <2> QED
        BY <1>1, <2>1, <2>2, PlainNotice, PlainInv
<1> QED
    BY <1>2, <1>3

-----------------------------------------------------------------------------
(* What a new context does to the connections *)

\* A context made at the master for the id i.  Either nothing has had the id, or from
\* now on it is not alone.
LEMMA MasterMakesInv ==
    ASSUME DataInv, NEW i \in Ids,
           NEW c \in Contexts, NEW x \in Context, ctx["master"][c].state = "free",
           ctx' = [ctx EXCEPT !["master"][c] = x],
           x.state # "free", x.id = i, x.pending = <<>>, x.reading = FALSE,
           x.kind = "conn" /\ x.state = "live" => x.handle = "connected",
           net' \in NetTypes,
           Queue(net["master"], net'["master"], 0, {}),
           NEW S, Queue(net["slave"], net'["slave"], 0, S),
           Len(net'["slave"]) <= Len(net["slave"]) + 1,
           \A m \in S : /\ m.cmd \notin {"CHECK_RESULT", "ACTIVE_MASTER", "DATA"}
                        /\ Request(m) => m.id = i
                        /\ m.cmd = "ACTIVE_SLAVE" => x.kind = "conn"
    PROVE  ConnectionInv' /\ DataComesConnected'
<1>1. /\ ContextTypes /\ net \in NetTypes
      /\ "master" \in Ends /\ "slave" \in Ends
    BY InvTypes DEF DataInv, OtherTypes, Ends, Ids
<1>2. /\ ContextTypes'
      /\ ctx'["master"][c] = x
      /\ \A f \in Ends, d \in Contexts : f # "master" \/ d # c => ctx'[f][d] = ctx[f][d]
    BY <1>1 DEF ContextTypes
<1>3. /\ Used("slave")' = Used("slave")
      /\ Used("master")' = Used("master") \cup {c} /\ c \notin Used("master")
      /\ \A d \in Contexts : ctx'["slave"][d] = ctx["slave"][d]
      /\ \A d \in Contexts : d # c => ctx'["master"][d] = ctx["master"][d]
    BY <1>1, <1>2 DEF Used
<1>4. IdInv /\ CommandInv /\ ReaderInv /\ DataComesConnected
    BY DEF DataInv, ConnectionInv
<1>5. /\ Len(net["slave"]) \in Nat /\ Len(net'["slave"]) \in Nat
      /\ Len(net["master"]) \in Nat /\ Len(net'["master"]) \in Nat
    <2>1. \A q \in NetTypes, f \in Ends : q[f] \in Seq(GoodMessage)
        BY DEF NetTypes
    <2>2. \A q \in NetTypes, f \in Ends : Len(q[f]) \in Nat
        BY <2>1
    <2> QED
        BY <1>1, <2>2
<1>6. ASSUME NEW k \in 1..Len(net'["slave"])
      PROVE  \/ k \in 1..Len(net["slave"]) /\ net'["slave"][k] = net["slave"][k]
             \/ k = Len(net["slave"]) + 1 /\ net'["slave"][k] \in S
    BY <1>5 DEF Queue
<1>7. ASSUME NEW k \in 1..Len(net'["master"])
      PROVE  k \in 1..Len(net["master"]) /\ net'["master"][k] = net["master"][k]
    BY <1>5 DEF Queue
<1>8. ASSUME NEW j
      PROVE  /\ Known(j) => Known(j)' /\ (j = i => ~Alone(j)')
             /\ Alone(j)' => Alone(j)
    <2>1. Known(j) => Known(j)'
        BY <1>3 DEF Known, Used
    <2>2. Known(j) /\ j = i => ~Alone(j)'
        BY <1>2, <1>3 DEF Known, Alone, Used
    <2>3. Alone(j)' => Alone(j)
        BY <1>3 DEF Alone, Used
    <2> QED
        BY <2>1, <2>2, <2>3
<1>9. ASSUME NEW j \in Ids, Asked(j), Alone(j)' PROVE Asked(j)'
    <2>1. Known(j)' /\ j # i
        BY <1>8, <1>9 DEF Asked
    <2>2. ASSUME NEW k \in 1..Len(net'["slave"]), Request(net'["slave"][k])
          PROVE  net'["slave"][k].id # j
        BY <1>6, <1>9, <2>1, <2>2 DEF Asked
    <2> QED
        BY <2>1, <2>2 DEF Asked
<1>10. ASSUME NEW j \in Ids, Opened(j) PROVE Opened(j)'
    <2>1. ASSUME Alone(j)' PROVE Opened(j)'
        <3>1. Alone(j)
            BY <1>8, <2>1
        <3>2. Asked(j)'
            BY <1>9, <1>10, <2>1, <3>1 DEF Opened
        <3>3. ASSUME NEW d \in Used("slave"), ctx'["slave"][d].id = j
              PROVE  ctx'["slave"][d].handle = "connected" \/ Finish("slave", d)'
            BY <1>3, <1>10, <3>1, <3>3 DEF Opened, Finish, Used
        <3> QED
            BY <1>3, <3>2, <3>3 DEF Opened
    <2> QED
        BY <2>1 DEF Opened
<1>11. ASSUME NEW j \in Ids, OfConnection(j) PROVE OfConnection(j)'
    <2>1. /\ Known(j)' /\ (j = i => ~Alone(j)')
          /\ Alone(j)' => Alone(j)
        BY <1>8, <1>11 DEF OfConnection
    <2>2. ASSUME NEW d \in Used("master")', Alone(j)', ctx'["master"][d].id = j
          PROVE  ctx'["master"][d].kind = "conn"
        <3>1. d # c /\ d \in Used("master")
            BY <1>2, <1>3, <2>1, <2>2
        <3>2. ctx'["master"][d] = ctx["master"][d]
            BY <1>3, <3>1 DEF Used
        <3> QED
            BY <1>11, <2>1, <2>2, <3>1, <3>2 DEF OfConnection
    <2> QED
        BY <2>1, <2>2 DEF OfConnection
<1>12. Known(i)' /\ (x.kind = "conn" => OfConnection(i)')
    <2>1. Known(i)'
        BY <1>2, <1>3 DEF Known
    <2>2. ASSUME NEW d \in Used("master")', Alone(i)', ctx'["master"][d].id = i
          PROVE  d = c
        BY <1>2, <1>3, <2>2 DEF Alone
    <2> QED
        BY <1>2, <2>1, <2>2 DEF OfConnection
<1>13. IdInv'
    <2>1. ASSUME NEW d \in Used("slave")', Alone(ctx["slave"][d].id)'
          PROVE  /\ Asked(ctx["slave"][d].id)'
                 /\ \A g \in Used("slave")' :
                        ctx'["slave"][g].id = ctx'["slave"][d].id => g = d
        <3>1. d \in Contexts /\ d \in Used("slave") /\ ctx["slave"][d].id \in Ids
              /\ ctx'["slave"][d].id = ctx["slave"][d].id
            BY <1>1, <1>3, <2>1 DEF Used, ContextTypes, Context
        <3>2. PICK j \in Ids : j = ctx["slave"][d].id
            BY <3>1
        <3>3. Alone(j)'
            BY <2>1, <3>1, <3>2 DEF Alone
        <3>4. Alone(j)
            BY <1>8, <3>3
        <3>5. Asked(j) /\ \A g \in Used("slave") : ctx["slave"][g].id = j => g = d
            BY <1>4, <3>1, <3>2, <3>4 DEF IdInv
        <3>6. Asked(j)'
            BY <1>9, <3>3, <3>5
        <3>7. Asked(ctx["slave"][d].id)'
            BY <3>1, <3>2, <3>6 DEF Asked, Known
        <3> QED
            BY <1>3, <3>1, <3>2, <3>5, <3>7 DEF Used
    <2>2. ASSUME NEW k \in 1..Len(net'["slave"]), Request(net'["slave"][k])
          PROVE  /\ Known(net["slave"][k].id)'
                 /\ Alone(net["slave"][k].id)' =>
                        \A j \in 1..Len(net'["slave"]) :
                            j # k /\ Request(net'["slave"][j]) =>
                                net'["slave"][j].id # net'["slave"][k].id
        <3>1. PICK h \in Ids : h = net'["slave"][k].id
            BY <1>1, NetIds
        <3>2. Known(h)' /\ (Known(h) \/ h = i)
            <4>1. CASE k \in 1..Len(net["slave"]) /\ net'["slave"][k] = net["slave"][k]
                <5>1. Known(h)
                    BY <1>4, <2>2, <3>1, <4>1 DEF IdInv
                <5> QED
                    BY <1>8, <5>1
            <4>2. CASE net'["slave"][k] \in S
                BY <1>12, <2>2, <3>1, <4>2
            <4> QED
                BY <1>6, <4>1, <4>2
        <3>3. ASSUME Alone(h)',
                     NEW j \in 1..Len(net'["slave"]), j # k, Request(net'["slave"][j])
              PROVE  net'["slave"][j].id # h
            <4>1. Alone(h) /\ (Known(h) => h # i)
                BY <1>8, <3>3
            <4>2. CASE k \in 1..Len(net["slave"]) /\ net'["slave"][k] = net["slave"][k]
                <5>1. Known(h)
                    BY <1>4, <2>2, <3>1, <4>2 DEF IdInv
                <5>2. CASE j \in 1..Len(net["slave"]) /\ net'["slave"][j] = net["slave"][j]
                    BY <1>4, <2>2, <3>1, <3>3, <4>1, <4>2, <5>2 DEF IdInv
                <5>3. CASE net'["slave"][j] \in S
                    BY <3>3, <4>1, <5>1, <5>3
                <5> QED
                    BY <1>6, <5>2, <5>3
            <4>3. CASE k = Len(net["slave"]) + 1 /\ net'["slave"][k] \in S
                <5>1. h = i
                    BY <2>2, <3>1, <4>3
                <5>2. j \in 1..Len(net["slave"]) /\ net'["slave"][j] = net["slave"][j]
                    BY <1>6, <3>3, <4>3
                <5>3. Known(net["slave"][j].id)
                    BY <1>4, <3>3, <5>2 DEF IdInv
                <5> QED
                    BY <4>1, <5>1, <5>2, <5>3
            <4> QED
                BY <1>6, <4>2, <4>3
        <3>4. Known(net["slave"][k].id)'
            BY <3>1, <3>2 DEF Known
        <3>5. Alone(net["slave"][k].id)' => Alone(h)'
            BY <3>1 DEF Alone
        <3> QED
            BY <3>1, <3>3, <3>4, <3>5
    <2> QED
        BY <2>1, <2>2 DEF IdInv
<1>14. CommandInv'
    <2>1. ASSUME NEW k \in 1..Len(net'["slave"])
          PROVE  /\ net'["slave"][k].cmd \notin {"CHECK_RESULT", "ACTIVE_MASTER"}
                 /\ net'["slave"][k].cmd = "ACTIVE_SLAVE" => OfConnection(net["slave"][k].id)'
                 /\ net'["slave"][k].cmd = "DATA" => Opened(net["slave"][k].id)'
        <3>1. PICK m \in GoodMessage : m = net'["slave"][k] /\ m.id \in Ids
            BY <1>1, NetIds
        <3>2. CASE k \in 1..Len(net["slave"]) /\ m = net["slave"][k]
            <4>1. /\ m.cmd \notin {"CHECK_RESULT", "ACTIVE_MASTER"}
                  /\ m.cmd = "ACTIVE_SLAVE" => OfConnection(m.id)
                  /\ m.cmd = "DATA" => Opened(m.id)
                BY <1>4, <3>2 DEF CommandInv
            <4> QED
                BY <1>10, <1>11, <3>1, <4>1
        <3>3. CASE m \in S
            <4>1. /\ m.cmd \notin {"CHECK_RESULT", "ACTIVE_MASTER", "DATA"}
                  /\ m.cmd = "ACTIVE_SLAVE" => m.id = i /\ x.kind = "conn"
                BY <3>3 DEF Request
            <4> QED
                BY <1>12, <3>1, <4>1
        <3> QED
            BY <1>6, <3>1, <3>2, <3>3
    <2>2. ASSUME NEW k \in 1..Len(net'["master"])
          PROVE  /\ ~Request(net'["master"][k])
                 /\ net'["master"][k].cmd = "ACTIVE_MASTER" => Opened(net["master"][k].id)'
                 /\ net'["master"][k].cmd = "DATA" => OfConnection(net["master"][k].id)'
        <3>1. PICK m \in GoodMessage : m = net'["master"][k] /\ m.id \in Ids
            BY <1>1, NetIds
        <3>2. k \in 1..Len(net["master"]) /\ m = net["master"][k]
            BY <1>7, <3>1
        <3>3. /\ ~Request(m)
              /\ m.cmd = "ACTIVE_MASTER" => Opened(m.id)
              /\ m.cmd = "DATA" => OfConnection(m.id)
            BY <1>4, <3>2 DEF CommandInv
        <3> QED
            BY <1>10, <1>11, <3>1, <3>3
    <2> QED
        BY <2>1, <2>2 DEF CommandInv, Request
<1>15. ReaderInv'
    <2>1. ASSUME NEW d \in Contexts
          PROVE  /\ ctx'["master"][d].state = "free" => ~ctx'["master"][d].reading
                 /\ ctx'["master"][d].reading => Opened(ctx["master"][d].id)'
                 /\ ctx'["master"][d].kind = "conn" /\ ctx'["master"][d].state = "live" =>
                        ctx'["master"][d].handle = "connected"
        <3>1. CASE d = c
            BY <1>2, <3>1
        <3>2. CASE d # c
            <4>1. ctx'["master"][d] = ctx["master"][d]
                BY <1>3, <3>2
            <4>2. PICK j \in Ids : j = ctx["master"][d].id
                <5>1. ctx["master"][d] \in Context
                    BY <1>1 DEF ContextTypes
                <5> QED
                    BY <5>1 DEF Context
            <4>3. /\ ctx["master"][d].state = "free" => ~ctx["master"][d].reading
                  /\ ctx["master"][d].reading => Opened(j)
                  /\ ctx["master"][d].kind = "conn" /\ ctx["master"][d].state = "live" =>
                        ctx["master"][d].handle = "connected"
                BY <1>4, <4>2 DEF ReaderInv
            <4> QED
                BY <1>10, <4>1, <4>2, <4>3
        <3> QED
            BY <3>1, <3>2
    <2>2. ASSUME NEW d \in Contexts
          PROVE  /\ ctx'["slave"][d].reading \/ ctx'["slave"][d].handle = "connecting" =>
                        ctx'["slave"][d].kind = "conn"
                 /\ ctx'["slave"][d].state = "free" => ctx'["slave"][d].kind = "none"
                 /\ ctx'["slave"][d].kind = "conn" => OfConnection(ctx["slave"][d].id)'
        <3>1. ctx'["slave"][d] = ctx["slave"][d]
            BY <1>3
        <3>2. PICK j \in Ids : j = ctx["slave"][d].id
            BY <1>1 DEF ContextTypes, Context
        <3>3. /\ ctx["slave"][d].reading \/ ctx["slave"][d].handle = "connecting" =>
                     ctx["slave"][d].kind = "conn"
              /\ ctx["slave"][d].state = "free" => ctx["slave"][d].kind = "none"
              /\ ctx["slave"][d].kind = "conn" => OfConnection(j)
            BY <1>4, <3>2 DEF ReaderInv
        <3> QED
            BY <1>11, <3>1, <3>2, <3>3
    <2> QED
        BY <2>1, <2>2 DEF ReaderInv
<1>16. DataComesConnected'
    <2>1. ASSUME NEW f \in Ends, NEW d \in Contexts, Alone(ctx[f][d].id)',
                 ctx'[f][d].pending # <<>>
          PROVE  ctx'[f][d].handle = "connected"
        <3>1. f # "master" \/ d # c
            BY <1>2, <2>1
        <3>2. ctx'[f][d] = ctx[f][d]
            BY <1>2, <3>1
        <3>3. PICK j \in Ids : j = ctx[f][d].id
            BY <1>1 DEF ContextTypes, Context
        <3>4. Alone(j)'
            BY <2>1, <3>2, <3>3 DEF Alone
        <3>5. Alone(j)
            BY <1>8, <3>4
        <3> QED
            BY <1>4, <2>1, <3>2, <3>3, <3>5 DEF DataComesConnected
    <2> QED
        BY <2>1 DEF DataComesConnected
<1> QED
    BY <1>13, <1>14, <1>15, <1>16 DEF ConnectionInv

\* A context made at the slave for the request it takes from its queue.
LEMMA SlaveMakesInv ==
    ASSUME DataInv, net["slave"] # <<>>, Request(Head(net["slave"])),
           NEW i \in Ids, i = Head(net["slave"]).id, clock' = clock,
           NEW c \in Contexts, NEW x \in Context, ctx["slave"][c].state = "free",
           ctx' = [ctx EXCEPT !["slave"][c] = x],
           x.state # "free", x.id = i, x.pending = <<>>, x.reading = FALSE,
           x.kind = "conn" => Head(net["slave"]).cmd = "ACTIVE_SLAVE",
           x.handle = "connecting" => x.kind = "conn",
           net' \in NetTypes,
           Queue(net["slave"], net'["slave"], 1, {}),
           NEW M, Queue(net["master"], net'["master"], 0, M),
           \A m \in M : m.cmd \in {"CHECK_RESULT", "FREE_CONTEXT", "CHANNEL_CLOSE"}
    PROVE  ConnectionInv' /\ DataComesConnected'
<1>1. /\ ContextTypes /\ net \in NetTypes /\ "master" \in Ends /\ "slave" \in Ends
    BY InvTypes DEF DataInv, Ends
<1>2. /\ ContextTypes'
      /\ ctx'["slave"][c] = x
      /\ \A f \in Ends, d \in Contexts : f # "slave" \/ d # c => ctx'[f][d] = ctx[f][d]
    BY <1>1 DEF ContextTypes
<1>3. /\ Used("master")' = Used("master")
      /\ Used("slave")' = Used("slave") \cup {c} /\ c \notin Used("slave")
      /\ \A d \in Contexts : ctx'["master"][d] = ctx["master"][d]
      /\ \A d \in Contexts : d # c => ctx'["slave"][d] = ctx["slave"][d]
    BY <1>1, <1>2 DEF Used
<1>4. IdInv /\ CommandInv /\ ReaderInv /\ DataComesConnected
    BY DEF DataInv, ConnectionInv
<1>5. 1 \in 1..Len(net["slave"]) /\ Head(net["slave"]) = net["slave"][1]
    BY <1>1, HeadFacts
<1>6. /\ Len(net["slave"]) \in Nat /\ Len(net'["slave"]) \in Nat
      /\ Len(net["master"]) \in Nat /\ Len(net'["master"]) \in Nat
    <2>1. \A q \in NetTypes, f \in Ends : q[f] \in Seq(GoodMessage)
        BY DEF NetTypes
    <2>2. \A q \in NetTypes, f \in Ends : Len(q[f]) \in Nat
        BY <2>1
    <2> QED
        BY <1>1, <2>2
<1>7. ASSUME NEW k \in 1..Len(net'["slave"])
      PROVE  k + 1 \in 1..Len(net["slave"]) /\ net'["slave"][k] = net["slave"][k + 1]
    BY DEF Queue
<1>8. ASSUME Alone(i), NEW k \in 1..Len(net'["slave"]), Request(net'["slave"][k])
      PROVE  net'["slave"][k].id # i
    <2>1. k + 1 # 1 /\ k + 1 \in 1..Len(net["slave"]) /\ Request(net["slave"][k + 1])
        BY <1>7, <1>8
    <2>2. net["slave"][k + 1].id # net["slave"][1].id
        BY <1>4, <1>5, <1>8, <2>1 DEF IdInv
    <2> QED
        BY <1>5, <1>7, <2>2
<1>8a. ASSUME NEW j PROVE (Known(j)' <=> Known(j)) /\ (Alone(j)' <=> Alone(j))
    BY <1>3 DEF Known, Alone, Used
<1>9. ASSUME NEW j \in Ids, Asked(j) PROVE Asked(j)' /\ j # i
    <2>1. Known(j)' /\ j # i
        BY <1>5, <1>8a, <1>9 DEF Asked
    <2> QED
        BY <1>7, <1>9, <2>1 DEF Asked
<1>10. Known(i)' /\ (Alone(i) => Asked(i)')
    <2>1. Known(i)'
        BY <1>4, <1>5, <1>8a DEF IdInv
    <2> QED
        BY <1>8, <2>1 DEF Asked
<1>11. ASSUME NEW j \in Ids, Opened(j) PROVE Opened(j)'
    <2>1. ASSUME Alone(j)' PROVE Opened(j)'
        <3>1. Alone(j)
            BY <1>8a, <2>1
        <3>2. Asked(j)' /\ j # i
            BY <1>9, <1>11, <3>1 DEF Opened
        <3>3. ASSUME NEW d \in Used("slave")', ctx'["slave"][d].id = j
              PROVE  ctx'["slave"][d].handle = "connected" \/ Finish("slave", d)'
            <4>1. d # c /\ d \in Used("slave")
                BY <1>2, <1>3, <3>2, <3>3
            <4>2. ctx'["slave"][d] = ctx["slave"][d]
                BY <1>3, <4>1 DEF Used
            <4> QED
                BY <1>11, <3>1, <3>3, <4>1, <4>2 DEF Opened, Finish
        <3> QED
            BY <3>2, <3>3 DEF Opened
    <2> QED
        BY <2>1 DEF Opened
<1>12. ASSUME NEW j \in Ids, OfConnection(j) PROVE OfConnection(j)'
    <2>1. Known(j)' /\ (Alone(j)' => Alone(j))
        BY <1>8a, <1>12 DEF OfConnection
    <2>2. ASSUME NEW d \in Used("master")', Alone(j)', ctx'["master"][d].id = j
          PROVE  ctx'["master"][d].kind = "conn"
        BY <1>3, <1>12, <2>1, <2>2 DEF OfConnection, Used
    <2> QED
        BY <2>1, <2>2 DEF OfConnection
<1>13. IdInv'
    <2>1. ASSUME NEW d \in Used("slave"), Alone(ctx["slave"][d].id)
          PROVE  /\ ctx["slave"][d].id \in Ids /\ Asked(ctx["slave"][d].id)
                 /\ ctx["slave"][d].id # i
                 /\ \A g \in Used("slave") :
                        ctx["slave"][g].id = ctx["slave"][d].id => g = d
        <3>1. /\ ctx["slave"][d].id \in Ids /\ Asked(ctx["slave"][d].id)
              /\ \A g \in Used("slave") :
                     ctx["slave"][g].id = ctx["slave"][d].id => g = d
            BY <1>1, <1>4, <2>1 DEF IdInv, Used, ContextTypes, Context
        <3>2. ctx["slave"][d].id # i
            BY <1>9, <3>1
        <3> QED
            BY <3>1, <3>2
    <2>2. \A d \in Used("slave") : ctx'["slave"][d] = ctx["slave"][d] /\ d # c
        BY <1>3 DEF Used
    <2>3. ASSUME NEW d \in Used("slave")', Alone(ctx["slave"][d].id)'
          PROVE  /\ Asked(ctx["slave"][d].id)'
                 /\ \A g \in Used("slave")' :
                        ctx'["slave"][g].id = ctx'["slave"][d].id => g = d
        <3>1. PICK j \in Ids : j = ctx'["slave"][d].id
            BY <1>2, <2>3 DEF ContextTypes, Context, Used
        <3>2. Alone(j)'
            BY <2>3, <3>1 DEF Alone
        <3>3. Alone(j)
            BY <1>8a, <3>2
        <3>4. CASE d = c
            <4>1. j = i
                BY <1>2, <3>1, <3>4
            <4>2. Asked(i)'
                BY <1>10, <3>3, <4>1
            <4>3. ASSUME NEW g \in Used("slave")', ctx'["slave"][g].id = i PROVE g = c
                <5>1. CASE g # c
                    <6>1. g \in Used("slave") /\ ctx["slave"][g].id = i
                        BY <1>3, <2>2, <4>3, <5>1
                    <6> QED
                        BY <2>1, <3>3, <4>1, <6>1
                <5> QED
                    BY <5>1
            <4>4. Asked(ctx["slave"][d].id)'
                BY <3>1, <4>1, <4>2 DEF Asked, Known
            <4> QED
                BY <3>1, <3>4, <4>1, <4>3, <4>4
        <3>5. CASE d # c
            <4>1. d \in Used("slave") /\ ctx["slave"][d].id = j
                BY <1>3, <2>2, <2>3, <3>1, <3>5
            <4>2. /\ Asked(j) /\ j # i
                  /\ \A g \in Used("slave") : ctx["slave"][g].id = j => g = d
                BY <2>1, <3>3, <4>1
            <4>3. Asked(j)'
                BY <1>9, <4>2
            <4>4. Asked(ctx["slave"][d].id)'
                BY <3>1, <4>3 DEF Asked, Known
            <4>5. \A g \in Used("slave")' : ctx'["slave"][g].id = j => g = d
                BY <1>2, <1>3, <2>2, <4>2
            <4> QED
                BY <3>1, <4>4, <4>5
        <3> QED
            BY <3>4, <3>5
    <2>4. ASSUME NEW k \in 1..Len(net'["slave"]), Request(net'["slave"][k])
          PROVE  /\ Known(net["slave"][k].id)'
                 /\ Alone(net["slave"][k].id)' =>
                        \A j \in 1..Len(net'["slave"]) :
                            j # k /\ Request(net'["slave"][j]) =>
                                net'["slave"][j].id # net'["slave"][k].id
        <3>1. PICK h \in Ids : h = net'["slave"][k].id
            BY <1>1, NetIds
        <3>2. /\ k + 1 \in 1..Len(net["slave"]) /\ net'["slave"][k] = net["slave"][k + 1]
              /\ h = net["slave"][k + 1].id
            BY <1>7, <3>1
        <3>3. Known(h)
            BY <1>4, <2>4, <3>2 DEF IdInv
        <3>4. ASSUME Alone(h)',
                     NEW j \in 1..Len(net'["slave"]), j # k, Request(net'["slave"][j])
              PROVE  net'["slave"][j].id # h
            <4>1. Alone(h)
                BY <1>8a, <3>4
            <4>2. /\ j + 1 \in 1..Len(net["slave"]) /\ net'["slave"][j] = net["slave"][j + 1]
                  /\ j + 1 # k + 1
                BY <1>7, <3>4
            <4> QED
                BY <1>4, <2>4, <3>2, <3>4, <4>1, <4>2 DEF IdInv
        <3>5. Known(h)'
            BY <1>8a, <3>3
        <3>6. Known(net["slave"][k].id)'
            BY <3>1, <3>5 DEF Known
        <3>7. Alone(net["slave"][k].id)' => Alone(h)'
            BY <3>1 DEF Alone
        <3> QED
            BY <3>1, <3>4, <3>6, <3>7
    <2> QED
        BY <2>3, <2>4 DEF IdInv
<1>14. CommandInv'
    <2>1. ASSUME NEW k \in 1..Len(net'["slave"])
          PROVE  /\ net'["slave"][k].cmd \notin {"CHECK_RESULT", "ACTIVE_MASTER"}
                 /\ net'["slave"][k].cmd = "ACTIVE_SLAVE" => OfConnection(net["slave"][k].id)'
                 /\ net'["slave"][k].cmd = "DATA" => Opened(net["slave"][k].id)'
        <3>1. PICK m \in GoodMessage : m = net'["slave"][k] /\ m.id \in Ids
            BY <1>1, NetIds
        <3>2. k + 1 \in 1..Len(net["slave"]) /\ m = net["slave"][k + 1]
            BY <1>7, <3>1
        <3>3. /\ m.cmd \notin {"CHECK_RESULT", "ACTIVE_MASTER"}
              /\ m.cmd = "ACTIVE_SLAVE" => OfConnection(m.id)
              /\ m.cmd = "DATA" => Opened(m.id)
            BY <1>4, <3>2 DEF CommandInv
        <3> QED
            BY <1>11, <1>12, <3>1, <3>3
    <2>2. ASSUME NEW k \in 1..Len(net'["master"])
          PROVE  /\ ~Request(net'["master"][k])
                 /\ net'["master"][k].cmd = "ACTIVE_MASTER" => Opened(net["master"][k].id)'
                 /\ net'["master"][k].cmd = "DATA" => OfConnection(net["master"][k].id)'
        <3>1. PICK m \in GoodMessage : m = net'["master"][k] /\ m.id \in Ids
            BY <1>1, NetIds
        <3>2. CASE k \in 1..Len(net["master"]) /\ m = net["master"][k]
            <4>1. /\ ~Request(m)
                  /\ m.cmd = "ACTIVE_MASTER" => Opened(m.id)
                  /\ m.cmd = "DATA" => OfConnection(m.id)
                BY <1>4, <3>2 DEF CommandInv
            <4> QED
                BY <1>11, <1>12, <3>1, <4>1
        <3>3. CASE m \in M
            BY <3>1, <3>3 DEF Request
        <3> QED
            BY <1>6, <3>1, <3>2, <3>3 DEF Queue
    <2> QED
        BY <2>1, <2>2 DEF CommandInv, Request
<1>15. ReaderInv'
    <2>1. ASSUME NEW d \in Contexts
          PROVE  /\ ctx'["master"][d].state = "free" => ~ctx'["master"][d].reading
                 /\ ctx'["master"][d].reading => Opened(ctx["master"][d].id)'
                 /\ ctx'["master"][d].kind = "conn" /\ ctx'["master"][d].state = "live" =>
                        ctx'["master"][d].handle = "connected"
        <3>1. ctx'["master"][d] = ctx["master"][d] /\ ctx["master"][d] \in Context
            BY <1>1, <1>3 DEF ContextTypes
        <3>2. PICK j \in Ids : j = ctx["master"][d].id
            BY <3>1 DEF Context
        <3>3. /\ ctx["master"][d].state = "free" => ~ctx["master"][d].reading
              /\ ctx["master"][d].reading => Opened(j)
              /\ ctx["master"][d].kind = "conn" /\ ctx["master"][d].state = "live" =>
                     ctx["master"][d].handle = "connected"
            BY <1>4, <3>2 DEF ReaderInv
        <3> QED
            BY <1>11, <3>1, <3>2, <3>3
    <2>2. ASSUME NEW d \in Contexts
          PROVE  /\ ctx'["slave"][d].reading \/ ctx'["slave"][d].handle = "connecting" =>
                        ctx'["slave"][d].kind = "conn"
                 /\ ctx'["slave"][d].state = "free" => ctx'["slave"][d].kind = "none"
                 /\ ctx'["slave"][d].kind = "conn" => OfConnection(ctx["slave"][d].id)'
        <3>1. CASE d = c
            <4>1. x.kind = "conn" => OfConnection(i)
                BY <1>4, <1>5 DEF CommandInv
            <4>2. x.kind = "conn" => OfConnection(i)'
                BY <1>12, <4>1
            <4> QED
                BY <1>2, <3>1, <4>2
        <3>2. CASE d # c
            <4>1. ctx'["slave"][d] = ctx["slave"][d] /\ ctx["slave"][d] \in Context
                BY <1>1, <1>3, <3>2 DEF ContextTypes
            <4>2. PICK j \in Ids : j = ctx["slave"][d].id
                BY <4>1 DEF Context
            <4>3. /\ ctx["slave"][d].reading \/ ctx["slave"][d].handle = "connecting" =>
                         ctx["slave"][d].kind = "conn"
                  /\ ctx["slave"][d].state = "free" => ctx["slave"][d].kind = "none"
                  /\ ctx["slave"][d].kind = "conn" => OfConnection(j)
                BY <1>4, <4>2 DEF ReaderInv
            <4> QED
                BY <1>12, <4>1, <4>2, <4>3
        <3> QED
            BY <3>1, <3>2
    <2> QED
        BY <2>1, <2>2 DEF ReaderInv
<1>16. DataComesConnected'
    <2>1. ASSUME NEW f \in Ends, NEW d \in Contexts, Alone(ctx[f][d].id)',
                 ctx'[f][d].pending # <<>>
          PROVE  ctx'[f][d].handle = "connected"
        <3>1. f # "slave" \/ d # c
            BY <1>2, <2>1
        <3>2. ctx'[f][d] = ctx[f][d]
            BY <1>2, <3>1
        <3>3. PICK j \in Ids : j = ctx[f][d].id
            BY <1>1 DEF ContextTypes, Context
        <3>4. Alone(j)'
            BY <2>1, <3>2, <3>3 DEF Alone
        <3>5. Alone(j)
            BY <1>8a, <3>4
        <3> QED
            BY <1>4, <2>1, <3>2, <3>3, <3>5 DEF DataComesConnected
    <2> QED
        BY <2>1 DEF DataComesConnected
<1> QED
    BY <1>13, <1>14, <1>15, <1>16 DEF ConnectionInv

\* The same when the master sends one command about it.
LEMMA MasterSentInv ==
    ASSUME DataInv, NEW i \in Ids,
           NEW c \in Contexts, NEW x \in Context, ctx["master"][c].state = "free",
           ctx' = [ctx EXCEPT !["master"][c] = x],
           x.state # "free", x.id = i, x.pending = <<>>, x.reading = FALSE,
           x.kind = "conn" /\ x.state = "live" => x.handle = "connected",
           NEW m \in GoodMessage, net' = Sent(net, "master", <<m>>),
           m.cmd \in {"CHECK", "ACTIVE_SLAVE", "CHANNEL_CLOSE"},
           Request(m) => m.id = i, m.cmd = "ACTIVE_SLAVE" => x.kind = "conn"
    PROVE  ConnectionInv' /\ DataComesConnected'
<1> DEFINE S == {m}
           msgs == <<m>>
           t == 0
<1>1. net \in NetTypes /\ "master" \in Ends /\ "slave" \in Ends
      /\ Other("master") = "slave"
    BY InvTypes DEF DataInv, Ends, Other
<1>2. /\ msgs \in Seq(GoodMessage) /\ \A k \in 1..Len(msgs) : msgs[k] \in S
      /\ Len(msgs) = 1 /\ t \in {0, 1} /\ t # 1 /\ t = 0
      /\ net' = Sent(net, "master", msgs)
    OBVIOUS
<1>3. \A y \in S : /\ y.cmd \notin {"CHECK_RESULT", "ACTIVE_MASTER", "DATA"}
                   /\ Request(y) => y.id = i
                   /\ y.cmd = "ACTIVE_SLAVE" => x.kind = "conn"
    OBVIOUS
<1> HIDE DEF S, msgs, t
<1>4. \A f \in Ends :
          /\ Queue(net[f], net'[f], Taken("master", f, t), IF f = Other("master") THEN S ELSE {})
          /\ f = Other("master") => Len(net'[f]) <= Len(net[f]) + Len(msgs)
    BY <1>1, <1>2, NetFacts
<1>5. /\ Queue(net["master"], net'["master"], 0, {})
      /\ Queue(net["slave"], net'["slave"], 0, S)
      /\ Len(net'["slave"]) <= Len(net["slave"]) + 1
    BY <1>1, <1>2, <1>4 DEF Taken
<1>6. net' \in NetTypes
    BY <1>1, <1>2, SentFacts
<1> QED
    BY <1>3, <1>5, <1>6, MasterMakesInv

\* A context of the master with its id.
LEMMA WithId ==
    ASSUME NEW x \in Context, NEW i \in Ids
    PROVE  LET y == [x EXCEPT !.id = i] IN
           /\ y \in Context /\ y.id = i /\ y.state = x.state /\ y.kind = x.kind
           /\ y.handle = x.handle /\ y.pending = x.pending /\ y.reading = x.reading
BY DEF Context

LEMMA ListenCallbackInv ==
    ASSUME DataInv, NEW l \in Contexts, NEW c \in Contexts, ListenCallback(l, c)
    PROVE  ConnectionInv' /\ DataComesConnected'
<1> DEFINE w == [New EXCEPT !.kind = "conn", !.type = ForwardType,
                            !.sort = ForwardType, !.handle = "connected"]
<1>1. PICK i \in NewMSec :
          /\ MallocContext(c, i, w)
          /\ net' = Sent(net, "master", <<Msg("ACTIVE_SLAVE", i, c, 0)>>)
    BY DEF ListenCallback
<1>2. i \in Ids
    BY <1>1, ClockFacts DEF MallocContext, DataInv
<1> DEFINE x == [w EXCEPT !.id = i]
           m == Msg("ACTIVE_SLAVE", i, c, 0)
<1>3. ctx["master"][c].state = "free" /\ ctx' = [ctx EXCEPT !["master"][c] = x]
    BY <1>1 DEF MallocContext, Fresh
<1>4. /\ w \in Context /\ w.state = "live" /\ w.kind = "conn" /\ w.handle = "connected"
      /\ w.pending = <<>> /\ w.reading = FALSE
    BY NewFacts, TypeAssumption DEF Context
<1> HIDE DEF w
<1>5. /\ x \in Context /\ x.id = i /\ x.state = "live" /\ x.kind = "conn"
      /\ x.handle = "connected" /\ x.pending = <<>> /\ x.reading = FALSE
    BY <1>2, <1>4, WithId
<1>6. m \in Message /\ m.cmd = "ACTIVE_SLAVE" /\ m.id = i
    BY <1>2, MaxDataAssumption DEF Msg, Message, Commands
<1>7. net' = Sent(net, "master", <<m>>)
    BY <1>1
<1> HIDE DEF x, m
<1>8. m \in GoodMessage
    BY <1>6 DEF GoodMessage
<1> QED
    BY <1>2, <1>3, <1>5, <1>6, <1>7, <1>8, MasterSentInv

LEMMA BeginForwardInv ==
    ASSUME DataInv, NEW c \in Contexts, BeginForward(c)
    PROVE  ConnectionInv' /\ DataComesConnected'
<1> DEFINE WOf(h) == [New EXCEPT !.kind = "listen", !.type = ForwardType,
                                 !.sort = ForwardType, !.handle = h]
<1>1. PICK i \in NewMSec, ok \in BOOLEAN :
          /\ MallocContext(c, i, WOf(IF ok THEN "listening" ELSE "open"))
          /\ net' = Sent(net, "master", IF ok THEN <<Msg("CHECK", i, c, 0)>> ELSE TaskFinish)
    BY DEF BeginForward
<1>2. i \in Ids
    BY <1>1, ClockFacts DEF MallocContext, DataInv
<1> DEFINE h == IF ok THEN "listening" ELSE "open"
           w == WOf(h)
           x == [w EXCEPT !.id = i]
           m == IF ok THEN Msg("CHECK", i, c, 0) ELSE Msg("CHANNEL_CLOSE", 0, NoContext, 1)
<1>3. ctx["master"][c].state = "free" /\ ctx' = [ctx EXCEPT !["master"][c] = x]
    BY <1>1 DEF MallocContext, Fresh
<1>4. h \in {"listening", "open"}
    OBVIOUS
<1> HIDE DEF h
<1>5. /\ w \in Context /\ w.state = "live" /\ w.kind = "listen"
      /\ w.pending = <<>> /\ w.reading = FALSE
    BY <1>4, NewFacts, TypeAssumption DEF Context
<1> HIDE DEF w
<1>6. /\ x \in Context /\ x.id = i /\ x.state = "live" /\ x.kind = "listen"
      /\ x.pending = <<>> /\ x.reading = FALSE
    BY <1>2, <1>5, WithId
<1>7. /\ m \in Message /\ m.cmd \in {"CHECK", "CHANNEL_CLOSE"}
      /\ m.cmd = "CHECK" => m.id = i
    BY <1>2, MaxDataAssumption, MaxMSecAssumption DEF Msg, Message, Commands, Ids
<1>8. net' = Sent(net, "master", <<m>>)
    BY <1>1 DEF TaskFinish
<1> HIDE DEF x, m
<1>9. m \in GoodMessage /\ (Request(m) => m.id = i)
    BY <1>7 DEF GoodMessage, Request
<1> QED
    BY <1>2, <1>3, <1>6, <1>7, <1>8, <1>9, MasterSentInv

LEMMA AcceptFailInv ==
    ASSUME DataInv, NEW l \in Contexts, NEW c \in Contexts, AcceptFail(l, c)
    PROVE  ConnectionInv' /\ DataComesConnected'
<1> DEFINE u == [New EXCEPT !.kind = "conn", !.sort = ForwardType, !.handle = "open"]
           w == FreeContext(u)
<1>1. PICK i \in NewMSec : MallocContext(c, i, w)
    BY DEF AcceptFail
<1>2. i \in Ids /\ net' = net
    BY <1>1, ClockFacts DEF MallocContext, DataInv, AcceptFail
<1> DEFINE x == [w EXCEPT !.id = i]
<1>3. ctx["master"][c].state = "free" /\ ctx' = [ctx EXCEPT !["master"][c] = x]
    BY <1>1 DEF MallocContext, Fresh
<1>4. u \in Context /\ u.state = "live"
    BY NewFacts, TypeAssumption DEF Context
<1> HIDE DEF u
<1>5. /\ w \in Context /\ w.state = "freeing" /\ w.pending = <<>> /\ w.reading = FALSE
    BY <1>4, FreeContextFacts
<1> HIDE DEF w
<1>6. /\ x \in Context /\ x.id = i /\ x.state = "freeing"
      /\ x.pending = <<>> /\ x.reading = FALSE
    BY <1>2, <1>5, WithId
<1> HIDE DEF x
<1>7. /\ net' \in NetTypes /\ Queue(net["master"], net'["master"], 0, {})
      /\ Queue(net["slave"], net'["slave"], 0, {})
      /\ Len(net'["slave"]) <= Len(net["slave"]) + 1
    <2>1. net \in NetTypes /\ "master" \in Ends /\ "slave" \in Ends
        BY InvTypes DEF DataInv, Ends
    <2>2. net["master"] \in Seq(GoodMessage) /\ net["slave"] \in Seq(GoodMessage)
        BY <2>1 DEF NetTypes
    <2> QED
        BY <1>2, <2>1, <2>2 DEF Queue
<1> DEFINE S == {}
<1>8. /\ \A m \in S : /\ m.cmd \notin {"CHECK_RESULT", "ACTIVE_MASTER", "DATA"}
                      /\ Request(m) => m.id = i
                      /\ m.cmd = "ACTIVE_SLAVE" => x.kind = "conn"
      /\ Queue(net["slave"], net'["slave"], 0, S)
      /\ x.state # "free"
      /\ x.kind = "conn" /\ x.state = "live" => x.handle = "connected"
    BY <1>6, <1>7
<1> HIDE DEF S
<1> QED
    BY <1>2, <1>3, <1>6, <1>7, <1>8, MasterMakesInv

\* The queues when the slave takes a request and sends msgs.
LEMMA SlaveNet ==
    ASSUME DataInv, net["slave"] # <<>>, NEW msgs \in Seq(GoodMessage), NEW M,
           \A k \in 1..Len(msgs) : msgs[k] \in M,
           net' = Sent(Rest("slave"), "slave", msgs)
    PROVE  /\ net' \in NetTypes
           /\ Queue(net["slave"], net'["slave"], 1, {})
           /\ Queue(net["master"], net'["master"], 0, M)
<1>1. net \in NetTypes /\ "master" \in Ends /\ "slave" \in Ends
      /\ Other("slave") = "master"
    BY InvTypes DEF DataInv, Ends, Other
<1> DEFINE t == 1
<1>2. t \in {0, 1} /\ t # 0 /\ t = 1
    OBVIOUS
<1> HIDE DEF t
<1>3. \A f \in Ends : Queue(net[f], net'[f], Taken("slave", f, t),
                            IF f = Other("slave") THEN M ELSE {})
    BY <1>1, <1>2, NetFacts
<1>4. net' \in NetTypes
    BY <1>1, RestFacts, SentFacts
<1> QED
    BY <1>1, <1>2, <1>3, <1>4 DEF Taken

LEMMA SlaveCheckInv ==
    ASSUME DataInv, NEW c \in Contexts, NEW ok \in BOOLEAN, SlaveCheck(c, ok)
    PROVE  ConnectionInv' /\ DataComesConnected'
<1> DEFINE m == Head(net["slave"])
           w == [New EXCEPT !.kind = "check", !.id = m.id, !.peer = m.from]
           y == IF ok THEN [w EXCEPT !.type = ForwardType] ELSE w
           x == FreeContext(y)
<1>1. /\ net["slave"] # <<>> /\ m.cmd = "CHECK" /\ ctx["slave"][c].state = "free"
      /\ ctx' = [ctx EXCEPT !["slave"][c] = x] /\ clock' = clock
      /\ net' = Sent(Rest("slave"), "slave",
                     IF ok THEN <<Msg("CHECK_RESULT", m.id, c, 0)>>
                     ELSE <<Msg("FREE_CONTEXT", m.id, c, 0)>> \o TaskFinish)
    BY DEF SlaveCheck, Next1, Fresh
<1>2. m \in Message
    BY <1>1, InvTypes, RestFacts DEF Ends, DataInv
<1>3. PICK i \in Ids : i = m.id
    BY <1>2 DEF Message
<1>4. m.from \in Contexts \cup {NoContext}
    BY <1>2 DEF Message
<1> HIDE DEF m
<1>5. /\ w \in Context /\ w.state = "live" /\ w.id = i /\ w.kind = "check"
      /\ w.handle = "null"
    BY <1>3, <1>4, NewFacts DEF Context
<1> HIDE DEF w
<1>6. /\ y \in Context /\ y.state = "live" /\ y.id = i /\ y.kind = "check"
      /\ y.handle = "null"
    BY <1>5, TypeAssumption DEF Context
<1> HIDE DEF y
<1>8. /\ x \in Context /\ x.state = "freeing" /\ x.id = i /\ x.kind = "check"
      /\ x.handle = "null" /\ x.pending = <<>> /\ x.reading = FALSE
    BY <1>6, FreeContextFacts
<1> HIDE DEF x
<1>9. /\ Request(Head(net["slave"])) /\ i = Head(net["slave"]).id
      /\ x.kind = "conn" => Head(net["slave"]).cmd = "ACTIVE_SLAVE"
      /\ x.handle = "connecting" => x.kind = "conn"
    BY <1>1, <1>3, <1>8 DEF Request, m
<1>10. \E M : /\ net' \in NetTypes
              /\ Queue(net["slave"], net'["slave"], 1, {})
              /\ Queue(net["master"], net'["master"], 0, M)
              /\ \A a \in M : a.cmd \in {"CHECK_RESULT", "FREE_CONTEXT", "CHANNEL_CLOSE"}
    <2>1. CASE ok
        <3> DEFINE a == Msg("CHECK_RESULT", i, c, 0)
                   M == {a}
                   msgs == <<a>>
        <3>1. a \in Message /\ a.cmd = "CHECK_RESULT"
            BY MaxDataAssumption DEF Msg, Message, Commands
        <3>2. net' = Sent(Rest("slave"), "slave", msgs)
            BY <1>1, <1>3, <2>1
        <3> HIDE DEF a
        <3>3. a \in GoodMessage
            BY <3>1 DEF GoodMessage
        <3>4. /\ msgs \in Seq(GoodMessage) /\ \A k \in 1..Len(msgs) : msgs[k] \in M
              /\ \A e \in M : e.cmd \in {"CHECK_RESULT", "FREE_CONTEXT", "CHANNEL_CLOSE"}
            BY <3>1, <3>3
        <3> HIDE DEF M, msgs
        <3>5. /\ net' \in NetTypes
              /\ Queue(net["slave"], net'["slave"], 1, {})
              /\ Queue(net["master"], net'["master"], 0, M)
            BY <1>1, <3>2, <3>4, SlaveNet
        <3> QED
            BY <3>4, <3>5
    <2>2. CASE ~ok
        <3> DEFINE a == Msg("FREE_CONTEXT", i, c, 0)
                   b == Msg("CHANNEL_CLOSE", 0, NoContext, 1)
                   M == {a, b}
                   msgs == <<a>> \o <<b>>
        <3>1. net' = Sent(Rest("slave"), "slave", msgs)
            BY <1>1, <1>3, <2>2 DEF TaskFinish
        <3>2. a \in Message /\ a.cmd = "FREE_CONTEXT"
            BY MaxDataAssumption DEF Msg, Message, Commands
        <3>3. b \in Message /\ b.cmd = "CHANNEL_CLOSE"
            BY MaxDataAssumption, MaxMSecAssumption DEF Msg, Message, Commands, Ids
        <3> HIDE DEF a, b
        <3>4. a \in GoodMessage /\ b \in GoodMessage
            BY <3>2, <3>3 DEF GoodMessage
        <3>5. \A e \in M : e.cmd \in {"CHECK_RESULT", "FREE_CONTEXT", "CHANNEL_CLOSE"}
            BY <3>2, <3>3
        <3>6. msgs \in Seq(GoodMessage) /\ \A k \in 1..Len(msgs) : msgs[k] \in M
            <4>1. <<a>> \in Seq(GoodMessage) /\ <<b>> \in Seq(GoodMessage)
                BY <3>4
            <4>2. <<a>> \in Seq(M) /\ <<b>> \in Seq(M)
                OBVIOUS
            <4> HIDE DEF M
            <4>3. msgs \in Seq(GoodMessage)
                BY <4>1
            <4>4. msgs \in Seq(M)
                BY <4>2
            <4> HIDE DEF msgs
            <4> QED
                BY <4>3, <4>4
        <3> HIDE DEF M, msgs
        <3>7. /\ net' \in NetTypes
              /\ Queue(net["slave"], net'["slave"], 1, {})
              /\ Queue(net["master"], net'["master"], 0, M)
            BY <1>1, <3>1, <3>6, SlaveNet
        <3> QED
            BY <3>5, <3>7
    <2> QED
        BY <2>1, <2>2
<1>11. PICK M : /\ net' \in NetTypes
                /\ Queue(net["slave"], net'["slave"], 1, {})
                /\ Queue(net["master"], net'["master"], 0, M)
                /\ \A a \in M : a.cmd \in {"CHECK_RESULT", "FREE_CONTEXT", "CHANNEL_CLOSE"}
    BY <1>10
<1> QED
    BY <1>1, <1>8, <1>9, <1>11, SlaveMakesInv

LEMMA SlaveConnectInv ==
    ASSUME DataInv, NEW c \in Contexts, NEW ok \in BOOLEAN, SlaveConnect(c, ok)
    PROVE  ConnectionInv' /\ DataComesConnected'
<1> DEFINE m == Head(net["slave"])
           w == [New EXCEPT !.kind = "conn", !.id = m.id, !.peer = m.from]
           y == [w EXCEPT !.type = ForwardType, !.sort = ForwardType,
                          !.handle = "connecting"]
           z == FreeContext(w)
           x == IF ok THEN y ELSE z
<1>1. /\ net["slave"] # <<>> /\ m.cmd = "ACTIVE_SLAVE" /\ ctx["slave"][c].state = "free"
      /\ ctx' = [ctx EXCEPT !["slave"][c] = x] /\ clock' = clock
      /\ net' = IF ok THEN Rest("slave")
                ELSE Sent(Rest("slave"), "slave",
                          <<Msg("FREE_CONTEXT", m.id, c, 0)>> \o TaskFinish)
    BY DEF SlaveConnect, Next1, Fresh
<1>2. m \in Message
    BY <1>1, InvTypes, RestFacts DEF Ends, DataInv
<1>3. PICK i \in Ids : i = m.id
    BY <1>2 DEF Message
<1>4. m.from \in Contexts \cup {NoContext}
    BY <1>2 DEF Message
<1> HIDE DEF m
<1>5. /\ w \in Context /\ w.state = "live" /\ w.id = i /\ w.kind = "conn"
      /\ w.pending = <<>> /\ w.reading = FALSE
    BY <1>3, <1>4, NewFacts DEF Context
<1> HIDE DEF w
<1>6. /\ y \in Context /\ y.state = "live" /\ y.id = i /\ y.kind = "conn"
      /\ y.pending = <<>> /\ y.reading = FALSE
    BY <1>5, TypeAssumption DEF Context
<1>7. /\ z \in Context /\ z.state = "freeing" /\ z.id = i /\ z.kind = "conn"
      /\ z.pending = <<>> /\ z.reading = FALSE
    BY <1>5, FreeContextFacts
<1> HIDE DEF y, z
<1>8. /\ x \in Context /\ x.state # "free" /\ x.id = i /\ x.kind = "conn"
      /\ x.pending = <<>> /\ x.reading = FALSE
    BY <1>6, <1>7
<1> HIDE DEF x
<1>9. /\ Request(Head(net["slave"])) /\ i = Head(net["slave"]).id
      /\ x.kind = "conn" => Head(net["slave"]).cmd = "ACTIVE_SLAVE"
      /\ x.handle = "connecting" => x.kind = "conn"
    BY <1>1, <1>3, <1>8 DEF Request, m
<1>10. \E M : /\ net' \in NetTypes
              /\ Queue(net["slave"], net'["slave"], 1, {})
              /\ Queue(net["master"], net'["master"], 0, M)
              /\ \A a \in M : a.cmd \in {"CHECK_RESULT", "FREE_CONTEXT", "CHANNEL_CLOSE"}
    <2>1. CASE ok
        <3>1. net' = Rest("slave") /\ net \in NetTypes /\ "slave" \in Ends /\ "master" \in Ends
            BY <1>1, <2>1, InvTypes DEF DataInv, Ends
        <3>2. /\ net' \in NetTypes /\ net'["slave"] = Tail(net["slave"])
              /\ net'["master"] = net["master"]
            BY <1>1, <3>1, RestFacts
        <3>3. net["master"] \in Seq(GoodMessage) /\ net["slave"] \in Seq(GoodMessage)
            BY <3>1 DEF NetTypes
        <3>4. <<>> \in Seq(GoodMessage) /\ \A k \in 1..Len(<<>>) : <<>>[k] \in {}
            OBVIOUS
        <3>5. /\ Queue(net["slave"], Tail(net["slave"]), 1, {})
              /\ Queue(net["master"], net["master"], 0, {})
            BY <1>1, <3>3, <3>4, QueueFacts
        <3> QED
            BY <3>2, <3>5
    <2>2. CASE ~ok
        <3> DEFINE a == Msg("FREE_CONTEXT", i, c, 0)
                   b == Msg("CHANNEL_CLOSE", 0, NoContext, 1)
                   M == {a, b}
                   msgs == <<a>> \o <<b>>
        <3>1. net' = Sent(Rest("slave"), "slave", msgs)
            BY <1>1, <1>3, <2>2 DEF TaskFinish
        <3>2. a \in Message /\ a.cmd = "FREE_CONTEXT"
            BY MaxDataAssumption DEF Msg, Message, Commands
        <3>3. b \in Message /\ b.cmd = "CHANNEL_CLOSE"
            BY MaxDataAssumption, MaxMSecAssumption DEF Msg, Message, Commands, Ids
        <3> HIDE DEF a, b
        <3>4. a \in GoodMessage /\ b \in GoodMessage
            BY <3>2, <3>3 DEF GoodMessage
        <3>5. \A e \in M : e.cmd \in {"CHECK_RESULT", "FREE_CONTEXT", "CHANNEL_CLOSE"}
            BY <3>2, <3>3
        <3>6. msgs \in Seq(GoodMessage) /\ \A k \in 1..Len(msgs) : msgs[k] \in M
            <4>1. <<a>> \in Seq(GoodMessage) /\ <<b>> \in Seq(GoodMessage)
                BY <3>4
            <4>2. <<a>> \in Seq(M) /\ <<b>> \in Seq(M)
                OBVIOUS
            <4> HIDE DEF M
            <4>3. msgs \in Seq(GoodMessage)
                BY <4>1
            <4>4. msgs \in Seq(M)
                BY <4>2
            <4> HIDE DEF msgs
            <4> QED
                BY <4>3, <4>4
        <3> HIDE DEF M, msgs
        <3>7. /\ net' \in NetTypes
              /\ Queue(net["slave"], net'["slave"], 1, {})
              /\ Queue(net["master"], net'["master"], 0, M)
            BY <1>1, <3>1, <3>6, SlaveNet
        <3> QED
            BY <3>5, <3>7
    <2> QED
        BY <2>1, <2>2
<1>11. PICK M : /\ net' \in NetTypes
                /\ Queue(net["slave"], net'["slave"], 1, {})
                /\ Queue(net["master"], net'["master"], 0, M)
                /\ \A a \in M : a.cmd \in {"CHECK_RESULT", "FREE_CONTEXT", "CHANNEL_CLOSE"}
    BY <1>10
<1> QED
    BY <1>1, <1>8, <1>9, <1>11, SlaveMakesInv

-----------------------------------------------------------------------------
(* Data comes to connected sockets *)

LEMMA DataStep ==
    ASSUME DataInv, [Next]_vars
    PROVE  ConnectionInv' /\ DataComesConnected'
<1>0. CASE UNCHANGED vars
    <2>1. "master" \in Ends
        BY DEF Ends
    <2> QED
        BY <1>0, <2>1, QuietStepsInv
<1>1. CASE \E c \in Contexts : BeginForward(c) \/ ListenFail(c)
    BY <1>1, BeginForwardInv, ListenFailInv
<1>2. CASE \E l, c \in Contexts : ListenCallback(l, c) \/ AcceptFail(l, c)
    BY <1>2, ListenCallbackInv, AcceptFailInv
<1>3. CASE \E e \in Ends, c \in Contexts : ReadForwardBuf(e, c) \/ LocalPeerGone(e, c)
    BY <1>3, ReadForwardBufInv, LocalPeerGoneInv
<1>4. CASE \E e \in Ends : Detach(e)
    BY <1>4, EndInv
<1>5. CASE SessionLost
    BY <1>5, SessionLostInv
<1>6. CASE \E e \in Ends : Dispatch(e) \/ SessionClear(e) \/ TryRemoveTask(e)
    BY <1>6, QuietStepsInv, CheckResultInv, ActiveMasterInv, ForwardDataInv, FreeCommandInv,
       EndInv DEF Dispatch
<1>7. CASE Slave
    BY <1>7, SlaveCheckInv, SlaveConnectInv DEF Slave
<1>8. CASE \E c \in Contexts : \/ Connected(c)
                               \/ \E e \in Ends : WriteDone(e, c) \/ FreeContextCallBack(e, c)
    BY <1>8, ConnectTargetInv, WriteDoneInv, CallBackInv DEF Connected
<1> QED
    BY <1>0, <1>1, <1>2, <1>3, <1>4, <1>5, <1>6, <1>7, <1>8 DEF Next, Environment

\* No context, no message.
LEMMA DataInit ==
    ASSUME Init
    PROVE  DataInv
<1>1. /\ Unused \in Context /\ Unused.state = "free" /\ Unused.handle = "null"
      /\ Unused.kind = "none" /\ Unused.reading = FALSE /\ Unused.pending = <<>>
    BY NewFacts DEF Unused
<1>2. /\ \A e \in Ends, c \in Contexts : ctx[e][c] = Unused
      /\ \A e \in Ends : Len(net[e]) = 0
    BY DEF Init
<1>3. "master" \in Ends /\ "slave" \in Ends
    BY DEF Ends
<1> HIDE DEF Unused
<1>4. \A e \in Ends : Used(e) = {}
    BY <1>1, <1>2 DEF Used
<1>5. ConnectionInv
    BY <1>1, <1>2, <1>3, <1>4 DEF ConnectionInv, IdInv, CommandInv, ReaderInv
<1>6. DataComesConnected
    BY <1>1, <1>2 DEF DataComesConnected
<1> QED
    BY <1>5, <1>6, ContextInit DEF DataInv

\* An id that the master gave once means one connection, at both ends and in every
\* command on its way, whatever becomes of the ids that were given twice.
THEOREM ConnectionInvHolds == Spec => []DataInv
<1>1. Init => DataInv
    BY DataInit
<1>2. DataInv /\ [Next]_vars => DataInv'
    BY ContextStep, DataStep DEF DataInv
<1> QED
    BY <1>1, <1>2, PTL DEF Spec

\* Data of a connection whose id was given once comes to a socket that is connected:
\* the master does not read from its client before the slave has said that it reached
\* the target, whatever the two ends and the other connections do in between.
THEOREM DataComesConnectedHolds == Spec => []DataComesConnected
<1>1. DataInv => DataComesConnected
    BY DEF DataInv
<1> QED
    BY <1>1, ConnectionInvHolds, PTL
=============================================================================
