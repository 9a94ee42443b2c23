--------------------------- MODULE HdcChannelProofs ---------------------------
(***************************************************************************)
(* What holds of the server's channels for any number of clients, sessions *)
(* and writes: ref counts who holds a channel, a worker finds the channel  *)
(* it works for, and a deleted channel has no handle, write or callback.   *)
(***************************************************************************)
EXTENDS HdcChannel, FiniteSetTheorems, TLAPS

\* The parts of ChannelInv that speak of one channel alone.
ChannelOK(c) == PhaseOK(c) /\ StageOK(c) /\ ChildOK(c)

\* What holds references besides the workers' pins.
Direct(c) ==
    mainWrites[c] + Pending(c) + (IF hWorkTCP[c] = "closingRef" THEN 1 ELSE 0)

\* The channel of a DETACH that waits for its worker.
Awaited(c) ==
    /\ stage[c] = "waitChild" /\ ~childCleared[c]
    /\ c \notin clearIdle /\ hChildWorkTCP[c] # "clearing"

InUse(c) == stage[c] \in {"none", "opeate"}

MainTypes ==
    /\ mapChannel \subseteq Channels
    /\ isDead \in [Channels -> BOOLEAN]
    /\ stage \in [Channels -> Stages]
    /\ uvHandleRef \in [Channels -> {0, 1}]
    /\ phase \in [Channels -> Phases]
    /\ hWorkTCP \in [Channels -> MainStates]
    /\ mainWrites \in [Channels -> 0..MaxWrites]
    /\ retryTimer \in [Channels -> BOOLEAN]

SharedTypes ==
    /\ ref \in [Channels -> Nat]
    /\ lstMainThreadOP \subseteq Channels
    /\ ctrl \in [Sessions -> Seq(Commands)]
    /\ forwards \subseteq Channels

ChildTypes ==
    /\ target \in [Channels -> Sessions \cup {NoSession}]
    /\ hChildWorkTCP \in [Channels -> ChildStates]
    /\ childWrites \in [Channels -> [Kinds -> 0..MaxWrites]]
    /\ clearIdle \subseteq Channels
    /\ childCleared \in [Channels -> BOOLEAN]
    /\ job \in [Sessions -> Jobs]

-----------------------------------------------------------------------------
(* Types *)

LEMMA TypeParts == TypeOK <=> Session!TypeOK /\ MainTypes /\ SharedTypes /\ ChildTypes
BY DEF TypeOK, MainTypes, SharedTypes, ChildTypes

\* The parts a step does not touch keep their types.
LEMMA TypesKept ==
    ASSUME TypeOK
    PROVE  /\ UNCHANGED sessionVars => Session!TypeOK'
           /\ UNCHANGED mainVars => MainTypes'
           /\ UNCHANGED sharedVars => SharedTypes'
           /\ UNCHANGED childVars => ChildTypes'
<1>1. UNCHANGED sessionVars => Session!TypeOK'
    BY DEF TypeOK, sessionVars, Session!TypeOK
<1>2. UNCHANGED mainVars => MainTypes'
    BY DEF TypeOK, mainVars, MainTypes
<1>3. UNCHANGED sharedVars => SharedTypes'
    BY DEF TypeOK, sharedVars, SharedTypes
<1>4. UNCHANGED childVars => ChildTypes'
    BY DEF TypeOK, childVars, ChildTypes
<1> QED
    BY <1>1, <1>2, <1>3, <1>4

LEMMA TypesAgain ==
    ASSUME Session!TypeOK', MainTypes', SharedTypes', ChildTypes'
    PROVE  TypeOK'
BY DEF TypeOK, MainTypes, SharedTypes, ChildTypes

-----------------------------------------------------------------------------
(* Pins *)

LEMMA SomeCounts ==
    ASSUME NEW S, IsFiniteSet(S), NEW x \in S
    PROVE  Cardinality(S) > 0
<1>1. Cardinality(S) \in Nat
    BY FS_CardinalityType
<1>2. Cardinality(S) # 0
    BY FS_EmptySet
<1> QED
    BY <1>1, <1>2

\* A channel that a worker has pinned has a reference.
LEMMA PinnedHasRef ==
    ASSUME ChannelInv, NEW s \in Sessions, job[s] # Idle
    PROVE  job[s].ch \in Channels /\ ref[job[s].ch] > Direct(job[s].ch)
<1> DEFINE c == job[s].ch
<1>1. c \in Channels /\ s \in Holders(c)
    BY DEF ChannelInv, TypeOK, Jobs, Holders
<1>2. IsFiniteSet(Holders(c))
    BY <1>1 DEF ChannelInv
<1>3. Cardinality(Holders(c)) \in Nat /\ Cardinality(Holders(c)) > 0
    BY <1>1, <1>2, FS_CardinalityType, SomeCounts
<1>4. Direct(c) \in Nat
    BY <1>1 DEF ChannelInv, TypeOK, Direct, Pending, Kinds
<1>5. ref[c] = Direct(c) + Cardinality(Holders(c))
    BY <1>1 DEF ChannelInv, RefCountsHolders, Direct
<1> QED
    BY <1>1, <1>3, <1>4, <1>5

LEMMA PendingFacts ==
    ASSUME TypeOK, NEW c \in Channels
    PROVE  /\ Pending(c) \in Nat
           /\ childWrites' = childWrites => Pending(c)' = Pending(c)
<1>1. Pending(c) \in Nat
    BY DEF TypeOK, Pending, Kinds
<1>2. childWrites' = childWrites => Pending(c)' = Pending(c)
    BY DEF Pending
<1> QED
    BY <1>1, <1>2

\* What holds references are never more than ref.
LEMMA RefIsEnough ==
    ASSUME ChannelInv, NEW c \in Channels
    PROVE  /\ Direct(c) \in Nat /\ ref[c] \in Nat /\ ref[c] >= Direct(c)
           /\ \A s \in Sessions : job[s].ch = c => ref[c] > Direct(c)
<1>1. IsFiniteSet(Holders(c))
    BY DEF ChannelInv
<1>2. Cardinality(Holders(c)) \in Nat
    BY <1>1, FS_CardinalityType
<1>3. Direct(c) \in Nat /\ ref[c] \in Nat
    BY DEF ChannelInv, TypeOK, Direct, Pending, Kinds
<1>4. ref[c] = Direct(c) + Cardinality(Holders(c))
    BY DEF ChannelInv, RefCountsHolders, Direct
<1>5. ASSUME NEW s \in Sessions, job[s].ch = c PROVE ref[c] > Direct(c)
    <2>1. job[s] # Idle
        BY <1>5, NoChannelAssumption DEF Idle
    <2> QED
        BY <1>5, <2>1, PinnedHasRef
<1> QED
    BY <1>2, <1>3, <1>4, <1>5

\* A channel without references is neither written nor held.
LEMMA NoRefNoWrite ==
    ASSUME ChannelInv, NEW c \in Channels, ref[c] = 0
    PROVE  /\ Direct(c) = 0 /\ mainWrites[c] = 0 /\ childWrites[c]["echo"] = 0
           /\ \A s \in Sessions : job[s].ch # c
<1>1. /\ mainWrites[c] \in Nat /\ childWrites[c]["echo"] \in Nat
      /\ childWrites[c]["reply"] \in Nat
    BY DEF ChannelInv, TypeOK, Kinds
<1>2. /\ Direct(c) \in Nat /\ ref[c] \in Nat /\ ref[c] >= Direct(c)
      /\ \A s \in Sessions : job[s].ch = c => ref[c] > Direct(c)
    BY RefIsEnough
<1>3. Direct(c) = 0
    BY <1>2
<1>4. \A s \in Sessions : job[s].ch # c
    BY <1>2
<1>5. Pending(c) \in Nat /\ Pending(c) >= childWrites[c]["echo"]
    BY <1>1 DEF Pending
<1>6. mainWrites[c] + Pending(c) <= Direct(c)
    BY <1>1, <1>5 DEF Direct
<1> QED
    BY <1>1, <1>3, <1>4, <1>5, <1>6

\* Nobody holds a channel that no client has.
LEMMA FreshHasNoRef ==
    ASSUME ChannelInv, NEW c \in Channels, phase[c] = "none"
    PROVE  ref[c] = 0 /\ mainWrites[c] = 0 /\ Pending(c) = 0 /\ hWorkTCP[c] = "none"
<1>1. hChildWorkTCP[c] = "none" /\ mainWrites[c] = 0 /\ Pending(c) = 0 /\ hWorkTCP[c] = "none"
    BY DEF ChannelInv, PhaseOK, ChildOK
<1>2. ASSUME NEW s \in Sessions PROVE job[s].ch # c
    <2>1. job[s].ch = c => job[s].at \in {"attach", "query", "alive"}
        BY NoChannelAssumption DEF ChannelInv, TypeOK, Jobs, Idle
    <2>2. JobOK(s)
        BY DEF ChannelInv, JobInv
    <2> QED
        BY <1>1, <2>1, <2>2 DEF JobOK, Unattached
<1>3. Holders(c) = {}
    BY <1>2 DEF Holders
<1>4. Cardinality(Holders(c)) = 0
    BY <1>3, FS_EmptySet
<1> QED
    BY <1>1, <1>4 DEF ChannelInv, RefCountsHolders

-----------------------------------------------------------------------------
(* Steps that leave the commands and the workers' jobs alone *)

\* What others rely on is not taken from a channel, whoever has it.
Quiet(c) ==
    /\ Unattached(c) => Unattached(c)'
    /\ Awaited(c) => Awaited(c)'
    /\ hChildWorkTCP[c] # "none" => hChildWorkTCP'[c] # "none"
    /\ InUse(c) /\ ref[c] # 0 => InUse(c)'

\* Such a step is about channels one by one.
QuietStep(c) ==
    ChannelOK(c)' /\ Quiet(c) /\ ref'[c] + Direct(c) = ref[c] + Direct(c)'

LEMMA QuietParts ==
    ASSUME ChannelInv, TypeOK', job' = job,
           \A c \in Channels : QuietStep(c)
    PROVE  /\ RefCountsHolders'
           /\ \A c \in Channels : IsFiniteSet(Holders(c))'
           /\ \A m \in Commands : CommandOK(m) => CommandOK(m)'
           /\ \A s \in Sessions : JobOK(s)'
<1>1. \A c \in Channels : Holders(c)' = Holders(c)
    BY DEF Holders
<1>2. RefCountsHolders'
    <2> SUFFICES ASSUME NEW c \in Channels
                 PROVE  ref'[c] = Direct(c)' + Cardinality(Holders(c))
        BY <1>1 DEF RefCountsHolders, Direct
    <2>1. IsFiniteSet(Holders(c))
        BY DEF ChannelInv
    <2>2. Cardinality(Holders(c)) \in Nat
        BY <2>1, FS_CardinalityType
    <2>3. ref[c] = Direct(c) + Cardinality(Holders(c))
        BY DEF ChannelInv, RefCountsHolders, Direct
    <2>4. Direct(c) \in Nat
        BY DEF ChannelInv, TypeOK, Direct, Pending, Kinds
    <2>5. Direct(c)' \in Nat /\ ref'[c] \in Nat
        BY DEF TypeOK, Direct, Pending, Kinds
    <2> QED
        BY <2>2, <2>3, <2>4, <2>5 DEF QuietStep
<1>3. ASSUME NEW m \in Commands, CommandOK(m) PROVE CommandOK(m)'
    BY <1>3 DEF CommandOK, QuietStep, Quiet, Commands, Awaited
<1>4. ASSUME NEW s \in Sessions PROVE JobOK(s)'
    <2>1. JobOK(s)
        BY DEF ChannelInv, JobInv
    <2>2. CASE job[s] = Idle
        BY <2>2 DEF JobOK, Idle
    <2>3. CASE job[s] # Idle
        <3>1. job[s].ch \in Channels /\ ref[job[s].ch] > Direct(job[s].ch)
            BY <2>3, PinnedHasRef
        <3>2. Direct(job[s].ch) \in Nat
            BY <3>1, RefIsEnough
        <3> QED
            BY <2>1, <3>1, <3>2 DEF JobOK, QuietStep, Quiet, InUse
    <2> QED
        BY <2>2, <2>3
<1> QED
    BY <1>1, <1>2, <1>3, <1>4 DEF ChannelInv

LEMMA QuietKeeps ==
    ASSUME ChannelInv, TypeOK', ctrl' = ctrl, job' = job,
           \A c \in Channels : QuietStep(c)
    PROVE  ChannelInv'
<1>1. CommandInv'
    BY QuietParts DEF ChannelInv, TypeOK, CommandInv
<1>2. JobInv'
    BY QuietParts DEF ChannelInv, JobInv
<1> QED
    BY <1>1, <1>2, QuietParts DEF ChannelInv, QuietStep, ChannelOK

\* A new command is one that no worker has got yet.
LEMMA AppendKeeps ==
    ASSUME ChannelInv, TypeOK', job' = job,
           \A c \in Channels : QuietStep(c),
           NEW s \in Sessions, NEW m \in Commands,
           \A t \in Sessions : ctrl'[t] = IF t = s THEN Append(ctrl[s], m) ELSE ctrl[t],
           CommandOK(m)',
           \A t \in Sessions : \A i \in 1..Len(ctrl[t]) : ctrl[t][i] # m,
           m.cmd = "SP_ATTACH_CHANNEL" =>
               \A t \in Sessions : job[t].at = "attach" => job[t].ch # m.ch
    PROVE  ChannelInv'
<1>1. /\ ctrl \in [Sessions -> Seq(Commands)]
      /\ \A t \in Sessions : \A i \in 1..Len(ctrl'[t]) :
             \/ i \in 1..Len(ctrl[t]) /\ ctrl'[t][i] = ctrl[t][i]
             \/ t = s /\ i = Len(ctrl[s]) + 1 /\ ctrl'[t][i] = m
    <2>1. ctrl \in [Sessions -> Seq(Commands)]
        BY DEF ChannelInv, TypeOK
    <2>2. ctrl[s] \in Seq(Commands) /\ ctrl'[s] = Append(ctrl[s], m)
        BY <2>1
    <2>3. \A i \in 1..Len(Append(ctrl[s], m)) :
              \/ i \in 1..Len(ctrl[s]) /\ Append(ctrl[s], m)[i] = ctrl[s][i]
              \/ i = Len(ctrl[s]) + 1 /\ Append(ctrl[s], m)[i] = m
        BY <2>2
    <2> QED
        BY <2>1, <2>2, <2>3
<1>2. CommandInv'
    <2> SUFFICES ASSUME NEW t \in Sessions, NEW i \in 1..Len(ctrl'[t])
                 PROVE  /\ CommandOK(ctrl[t][i])'
                        /\ \A u \in Sessions : \A j \in 1..Len(ctrl'[u]) :
                               ctrl'[t][i] = ctrl'[u][j] => t = u /\ i = j
        BY DEF CommandInv
    <2>1. CommandOK(ctrl[t][i])'
        <3>1. CASE i \in 1..Len(ctrl[t]) /\ ctrl'[t][i] = ctrl[t][i]
            <4>1. CommandOK(ctrl[t][i]) /\ ctrl[t][i] \in Commands
                BY <1>1, <3>1 DEF ChannelInv, CommandInv
            <4> QED
                BY <3>1, <4>1, QuietParts DEF CommandOK
        <3>2. CASE ctrl'[t][i] = m
            BY <3>2 DEF CommandOK
        <3> QED
            BY <1>1, <3>1, <3>2
    <2>2. ASSUME NEW u \in Sessions, NEW j \in 1..Len(ctrl'[u]), ctrl'[t][i] = ctrl'[u][j]
          PROVE  t = u /\ i = j
        BY <1>1, <2>2 DEF ChannelInv, CommandInv
    <2> QED
        BY <2>1, <2>2
<1>3. JobInv'
    <2> SUFFICES ASSUME NEW t \in Sessions, job[t].at = "attach", NEW u \in Sessions,
                        NEW i \in 1..Len(ctrl'[u])
                 PROVE  ctrl'[u][i] # [cmd |-> "SP_ATTACH_CHANNEL", ch |-> job[t].ch]
        BY QuietParts DEF ChannelInv, JobInv
    <2>1. CASE i \in 1..Len(ctrl[u]) /\ ctrl'[u][i] = ctrl[u][i]
        <3>1. \A j \in 1..Len(ctrl[u]) :
                  ctrl[u][j] # [cmd |-> "SP_ATTACH_CHANNEL", ch |-> job[t].ch]
            BY DEF ChannelInv, JobInv
        <3> QED
            BY <2>1, <3>1
    <2>2. CASE ctrl'[u][i] = m
        <3>1. m.cmd = "SP_ATTACH_CHANNEL" => m.ch # job[t].ch
            OBVIOUS
        <3> QED
            BY <2>2, <3>1
    <2> QED
        BY <1>1, <2>1, <2>2
<1> QED
    BY <1>2, <1>3, QuietParts DEF ChannelInv, QuietStep, ChannelOK

\* A channel that a step does not touch.
Untouched(c) ==
    /\ isDead'[c] = isDead[c] /\ stage'[c] = stage[c]
    /\ uvHandleRef'[c] = uvHandleRef[c] /\ phase'[c] = phase[c]
    /\ hWorkTCP'[c] = hWorkTCP[c] /\ mainWrites'[c] = mainWrites[c]
    /\ retryTimer'[c] = retryTimer[c] /\ ref'[c] = ref[c]
    /\ target'[c] = target[c] /\ hChildWorkTCP'[c] = hChildWorkTCP[c]
    /\ childWrites'[c] = childWrites[c] /\ childCleared'[c] = childCleared[c]
    /\ c \in mapChannel' <=> c \in mapChannel
    /\ c \in clearIdle' <=> c \in clearIdle
    /\ c \in lstMainThreadOP' \cup forwards' => c \in lstMainThreadOP \cup forwards

LEMMA UntouchedKeeps ==
    ASSUME ChannelInv, TypeOK', NEW c \in Channels, Untouched(c)
    PROVE  QuietStep(c)
<1>1. ChannelOK(c)
    BY DEF ChannelInv, ChannelOK
<1>2. PhaseOK(c)' /\ StageOK(c)'
    BY <1>1 DEF ChannelOK, Untouched, PhaseOK, StageOK, Unattached
<1>3. ChildOK(c)'
    BY <1>1 DEF ChannelOK, Untouched, ChildOK, Pending
<1>4. Quiet(c)
    BY DEF Untouched, Quiet, Unattached, Awaited, InUse
<1>5. Direct(c)' = Direct(c)
    BY DEF Untouched, Direct, Pending
<1> QED
    BY <1>2, <1>3, <1>4, <1>5 DEF ChannelOK, QuietStep, Untouched

LEMMA OneQuiet ==
    ASSUME ChannelInv, TypeOK', ctrl' = ctrl, job' = job, NEW c \in Channels,
           \A d \in Channels : d # c => Untouched(d),
           QuietStep(c)
    PROVE  ChannelInv'
<1>1. ASSUME NEW d \in Channels PROVE QuietStep(d)
    BY UntouchedKeeps
<1> QED
    BY <1>1, QuietKeeps

\* FreeChannel, for the channel's owner or for another thread, starts the teardown.
LEMMA FreeChannelFacts ==
    ASSUME ChannelInv, NEW c \in Channels,
           FreeChannel(c) \/ UNCHANGED <<isDead, stage>>
    PROVE  /\ isDead' \in [Channels -> BOOLEAN] /\ stage' \in [Channels -> Stages]
           /\ \A d \in Channels : d # c => isDead'[d] = isDead[d] /\ stage'[d] = stage[d]
           /\ \/ isDead'[c] = isDead[c] /\ stage'[c] = stage[c]
              \/ /\ phase[c] # "none" /\ ~isDead[c] /\ isDead'[c]
                 /\ stage[c] = "none" /\ stage'[c] = "opeate"
<1>1. /\ isDead \in [Channels -> BOOLEAN] /\ stage \in [Channels -> Stages]
      /\ isDead[c] <=> stage[c] # "none"
      /\ c \in mapChannel <=> phase[c] # "none" /\ stage[c] # "done"
    BY DEF ChannelInv, TypeOK, StageOK
<1> QED
    BY <1>1 DEF FreeChannel, Stages

\* What sends on loopMain touches of the channel.
LEMMA MainSendFacts ==
    ASSUME ChannelInv, NEW c \in Channels, mainWrites[c] < MaxWrites, MainSend(c)
    PROVE  /\ mainWrites' \in [Channels -> 0..MaxWrites] /\ ref' \in [Channels -> Nat]
           /\ \A d \in Channels :
                  d # c => mainWrites'[d] = mainWrites[d] /\ ref'[d] = ref[d]
           /\ IF hWorkTCP[c] = "open"
              THEN mainWrites'[c] = mainWrites[c] + 1 /\ ref'[c] = ref[c] + 1
              ELSE mainWrites'[c] = mainWrites[c] /\ ref'[c] = ref[c]
<1>1. /\ mainWrites \in [Channels -> 0..MaxWrites] /\ mainWrites[c] + 1 \in 0..MaxWrites
      /\ ref \in [Channels -> Nat]
    BY MaxWritesAssumption DEF ChannelInv, TypeOK
<1> QED
    BY <1>1 DEF MainSend

-----------------------------------------------------------------------------
(* The sessions *)

LEMMA SessionLifeKeeps ==
    ASSUME ChannelInv, NEW s \in Sessions,
           SessionOpen(s) \/ SessionStart(s) \/ SessionFinish(s) \/ SessionFree(s)
    PROVE  ChannelInv'
<1>1. Session!TypeOK'
    BY DEF ChannelInv, TypeOK, Session!TypeOK, SessionOpen, SessionStart,
           SessionFinish, SessionFree, Session!Open, Session!StartWorker,
           Session!FinishWorker, Session!Free
<1>2. UNCHANGED <<mainVars, sharedVars, childVars>>
    BY DEF SessionOpen, SessionStart, SessionFinish, SessionFree
<1>3. TypeOK'
    BY <1>1, <1>2 DEF ChannelInv, TypeOK, mainVars, sharedVars, childVars
<1>4. ASSUME NEW c \in Channels PROVE QuietStep(c)
    <2>1. Untouched(c)
        BY <1>2 DEF Untouched, mainVars, sharedVars, childVars
    <2> QED
        BY <1>3, <2>1, UntouchedKeeps
<1> QED
    BY <1>2, <1>3, <1>4, QuietKeeps DEF sharedVars, childVars

LEMMA SessionKillKeeps ==
    ASSUME ChannelInv, NEW s \in Sessions, SessionKill(s)
    PROVE  ChannelInv'
<1>1. Session!TypeOK'
    BY DEF ChannelInv, TypeOK, Session!TypeOK, SessionKill, Session!Kill
<1>2. /\ forwards' \subseteq forwards
      /\ UNCHANGED <<mainVars, ref, lstMainThreadOP, ctrl, childVars>>
    BY DEF SessionKill
<1>3. TypeOK'
    BY <1>1, <1>2 DEF ChannelInv, TypeOK, mainVars, childVars
<1>4. ASSUME NEW c \in Channels PROVE QuietStep(c)
    <2>1. Untouched(c)
        BY <1>2 DEF Untouched, mainVars, childVars
    <2> QED
        BY <1>3, <2>1, UntouchedKeeps
<1> QED
    BY <1>2, <1>3, <1>4, QuietKeeps DEF childVars

\* What TryCloseChildLoop closes has no worker to wait for.
LEMMA TryCloseChildLoopKeeps ==
    ASSUME ChannelInv, NEW s \in Sessions, TryCloseChildLoop(s)
    PROVE  ChannelInv'
<1>1. TypeOK'
    <2>1. ChildTypes'
        BY DEF ChannelInv, TypeOK, TryCloseChildLoop, ChildTypes, ChildStates
    <2> QED
        BY <2>1, TypesKept, TypesAgain DEF ChannelInv, TryCloseChildLoop
<1>2. ASSUME NEW c \in Channels PROVE QuietStep(c)
    <2>1. CASE target[c] = s /\ hChildWorkTCP[c] = "open"
        BY <1>1, <2>1 DEF ChannelInv, TypeOK, TryCloseChildLoop, mainVars, sharedVars,
           QuietStep, ChannelOK, PhaseOK, StageOK, ChildOK, Unattached, Quiet,
           Awaited, InUse, Direct, Pending, Kinds
    <2>2. CASE ~(target[c] = s /\ hChildWorkTCP[c] = "open")
        <3>1. Untouched(c)
            BY <2>2 DEF TryCloseChildLoop, mainVars, sharedVars, Untouched
        <3> QED
            BY <1>1, <3>1, UntouchedKeeps
    <2> QED
        BY <2>1, <2>2
<1> QED
    BY <1>1, <1>2, QuietKeeps DEF TryCloseChildLoop, sharedVars

-----------------------------------------------------------------------------
(* The main thread: the client *)

\* A new channel: open on loopMain, with the reference of the handshake's
\* write.
LEMMA AcceptClientKeeps ==
    ASSUME ChannelInv, NEW c \in Channels, AcceptClient(c)
    PROVE  ChannelInv'
<1>1. TypeOK'
    <2>1. Session!TypeOK'
        BY TypesKept DEF ChannelInv, AcceptClient, sessionVars
    <2>2. MainTypes'
        BY MaxWritesAssumption DEF ChannelInv, TypeOK, AcceptClient, MainTypes,
           Phases, Stages, MainStates
    <2>3. SharedTypes'
        BY MaxWritesAssumption DEF ChannelInv, TypeOK, AcceptClient, SharedTypes
    <2>4. ChildTypes'
        BY TypesKept DEF ChannelInv, AcceptClient, childVars
    <2> QED
        BY <2>1, <2>2, <2>3, <2>4, TypesAgain
<1>2. /\ ctrl' = ctrl /\ job' = job
      /\ \A d \in Channels : d # c => Untouched(d)
    BY DEF ChannelInv, TypeOK, AcceptClient, sessionVars, mainVars, sharedVars,
       childVars, Untouched
<1>3. QuietStep(c)
    <2>1. ChannelOK(c)'
        BY <1>1, RefIsEnough, FreshHasNoRef DEF ChannelInv, TypeOK,
           AcceptClient, sessionVars, mainVars, sharedVars, childVars,
           ChannelOK, PhaseOK, StageOK, ChildOK, Unattached, Direct, Pending,
           Kinds
    <2>2. Quiet(c)
        BY <1>1, RefIsEnough, FreshHasNoRef DEF ChannelInv, TypeOK,
           AcceptClient, sessionVars, mainVars, sharedVars, childVars, PhaseOK,
           StageOK, ChildOK, Quiet, Unattached, Awaited, InUse, Direct, Pending,
           Kinds
    <2>3. ref'[c] + Direct(c) = ref[c] + Direct(c)'
        <3>1. Pending(c)' = Pending(c) /\ Pending(c) \in Nat
            BY PendingFacts DEF ChannelInv, AcceptClient, childVars
        <3>2. mainWrites[c] \in Nat /\ ref[c] \in Nat /\ hWorkTCP \in [Channels -> MainStates]
              /\ mainWrites \in [Channels -> 0..MaxWrites] /\ ref \in [Channels -> Nat]
            BY DEF ChannelInv, TypeOK
        <3> QED
            BY <3>1, <3>2, FreshHasNoRef DEF AcceptClient, mainVars, childVars,
               Direct
    <2> QED
        BY <2>1, <2>2, <2>3 DEF QuietStep
<1> QED
    BY <1>1, <1>2, <1>3, OneQuiet

\* A channel that never had a client is torn down at once.
LEMMA AcceptFailKeeps ==
    ASSUME ChannelInv, NEW c \in Channels, AcceptFail(c)
    PROVE  ChannelInv'
<1>1. TypeOK'
    <2>1. Session!TypeOK'
        BY TypesKept DEF ChannelInv, AcceptFail, sessionVars
    <2>2. MainTypes'
        BY DEF ChannelInv, TypeOK, AcceptFail, MainTypes, Phases, Stages,
           MainStates
    <2>3. SharedTypes'
        BY TypesKept DEF ChannelInv, AcceptFail, sharedVars
    <2>4. ChildTypes'
        BY TypesKept DEF ChannelInv, AcceptFail, childVars
    <2> QED
        BY <2>1, <2>2, <2>3, <2>4, TypesAgain
<1>2. /\ ctrl' = ctrl /\ job' = job
      /\ \A d \in Channels : d # c => Untouched(d)
    BY DEF ChannelInv, TypeOK, AcceptFail, sessionVars, mainVars, sharedVars,
       childVars, Untouched
<1>3. QuietStep(c)
    BY <1>1, RefIsEnough DEF ChannelInv, TypeOK, AcceptFail, sessionVars,
       mainVars, sharedVars, childVars, QuietStep, ChannelOK, PhaseOK, StageOK,
       ChildOK, Unattached, Quiet, Awaited, InUse, Direct, Pending, Kinds
<1> QED
    BY <1>1, <1>2, <1>3, OneQuiet

\* The client is gone before any worker had it.
LEMMA MainReadErrorKeeps ==
    ASSUME ChannelInv, NEW c \in Channels, MainReadError(c)
    PROVE  ChannelInv'
<1>1. /\ isDead' \in [Channels -> BOOLEAN] /\ stage' \in [Channels -> Stages]
      /\ \A d \in Channels : d # c => isDead'[d] = isDead[d] /\ stage'[d] = stage[d]
      /\ \/ isDead'[c] = isDead[c] /\ stage'[c] = stage[c]
         \/ /\ phase[c] # "none" /\ ~isDead[c] /\ isDead'[c]
            /\ stage[c] = "none" /\ stage'[c] = "opeate"
    BY FreeChannelFacts DEF MainReadError
<1>2. TypeOK'
    <2>1. Session!TypeOK'
        BY TypesKept DEF ChannelInv, MainReadError, sessionVars
    <2>2. MainTypes'
        BY <1>1 DEF ChannelInv, TypeOK, MainReadError, MainTypes, Phases,
           Stages, MainStates
    <2>3. SharedTypes'
        BY TypesKept DEF ChannelInv, MainReadError, sharedVars
    <2>4. ChildTypes'
        BY TypesKept DEF ChannelInv, MainReadError, childVars
    <2> QED
        BY <2>1, <2>2, <2>3, <2>4, TypesAgain
<1>3. /\ ctrl' = ctrl /\ job' = job
      /\ \A d \in Channels : d # c => Untouched(d)
    BY <1>1 DEF ChannelInv, TypeOK, MainReadError, sessionVars, mainVars,
       sharedVars, childVars, Untouched
<1>4. QuietStep(c)
    BY <1>1, <1>2, RefIsEnough DEF ChannelInv, TypeOK, MainReadError,
       sessionVars, mainVars, sharedVars, childVars, QuietStep, ChannelOK,
       PhaseOK, StageOK, ChildOK, Unattached, Quiet, Awaited, InUse, Direct,
       Pending, Kinds
<1> QED
    BY <1>2, <1>3, <1>4, OneQuiet

\* A client that is refused is not bound to a session.
LEMMA HelloRefusedKeeps ==
    ASSUME ChannelInv, NEW c \in Channels, HelloRefused(c)
    PROVE  ChannelInv'
<1>1. /\ isDead' \in [Channels -> BOOLEAN] /\ stage' \in [Channels -> Stages]
      /\ \A d \in Channels : d # c => isDead'[d] = isDead[d] /\ stage'[d] = stage[d]
      /\ \/ isDead'[c] = isDead[c] /\ stage'[c] = stage[c]
         \/ /\ phase[c] # "none" /\ ~isDead[c] /\ isDead'[c]
            /\ stage[c] = "none" /\ stage'[c] = "opeate"
    BY FreeChannelFacts DEF HelloRefused, Hello
<1>2. TypeOK'
    <2>1. Session!TypeOK'
        BY TypesKept DEF ChannelInv, HelloRefused, Hello, sessionVars
    <2>2. MainTypes'
        BY <1>1 DEF ChannelInv, TypeOK, HelloRefused, Hello, MainTypes, Phases,
           Stages, MainStates
    <2>3. SharedTypes'
        BY TypesKept DEF ChannelInv, HelloRefused, Hello, sharedVars
    <2>4. ChildTypes'
        BY TypesKept DEF ChannelInv, HelloRefused, Hello, childVars
    <2> QED
        BY <2>1, <2>2, <2>3, <2>4, TypesAgain
<1>3. /\ ctrl' = ctrl /\ job' = job
      /\ \A d \in Channels : d # c => Untouched(d)
    BY <1>1 DEF ChannelInv, TypeOK, HelloRefused, Hello, sessionVars, mainVars,
       sharedVars, childVars, Untouched
<1>4. QuietStep(c)
    BY <1>1, <1>2, RefIsEnough DEF ChannelInv, TypeOK, HelloRefused, Hello,
       sessionVars, mainVars, sharedVars, childVars, QuietStep, ChannelOK,
       PhaseOK, StageOK, ChildOK, Unattached, Quiet, Awaited, InUse, Direct,
       Pending, Kinds
<1> QED
    BY <1>2, <1>3, <1>4, OneQuiet

\* A client of the main thread stays on loopMain.
LEMMA HelloLocalKeeps ==
    ASSUME ChannelInv, NEW c \in Channels, HelloLocal(c)
    PROVE  ChannelInv'
<1>1. TypeOK'
    <2>1. Session!TypeOK'
        BY TypesKept DEF ChannelInv, HelloLocal, Hello, sessionVars
    <2>2. MainTypes'
        BY DEF ChannelInv, TypeOK, HelloLocal, Hello, MainTypes, Phases, Stages,
           MainStates
    <2>3. SharedTypes'
        BY TypesKept DEF ChannelInv, HelloLocal, Hello, sharedVars
    <2>4. ChildTypes'
        BY TypesKept DEF ChannelInv, HelloLocal, Hello, childVars
    <2> QED
        BY <2>1, <2>2, <2>3, <2>4, TypesAgain
<1>2. /\ ctrl' = ctrl /\ job' = job
      /\ \A d \in Channels : d # c => Untouched(d)
    BY DEF ChannelInv, TypeOK, HelloLocal, Hello, sessionVars, mainVars,
       sharedVars, childVars, Untouched
<1>3. QuietStep(c)
    BY <1>1, RefIsEnough DEF ChannelInv, TypeOK, HelloLocal, Hello, sessionVars,
       mainVars, sharedVars, childVars, QuietStep, ChannelOK, PhaseOK, StageOK,
       ChildOK, Unattached, Quiet, Awaited, InUse, Direct, Pending, Kinds
<1> QED
    BY <1>1, <1>2, <1>3, OneQuiet

\* The answer is under way while the teardown begins: its reference delays
\* it.
LEMMA HelloNoSessionKeeps ==
    ASSUME ChannelInv, NEW c \in Channels, HelloNoSession(c)
    PROVE  ChannelInv'
<1>1. /\ isDead' \in [Channels -> BOOLEAN] /\ stage' \in [Channels -> Stages]
      /\ \A d \in Channels : d # c => isDead'[d] = isDead[d] /\ stage'[d] = stage[d]
      /\ \/ isDead'[c] = isDead[c] /\ stage'[c] = stage[c]
         \/ /\ phase[c] # "none" /\ ~isDead[c] /\ isDead'[c]
            /\ stage[c] = "none" /\ stage'[c] = "opeate"
    BY FreeChannelFacts DEF HelloNoSession, Hello
<1>2. /\ mainWrites' \in [Channels -> 0..MaxWrites] /\ ref' \in [Channels -> Nat]
      /\ \A d \in Channels :
             d # c => mainWrites'[d] = mainWrites[d] /\ ref'[d] = ref[d]
      /\ IF hWorkTCP[c] = "open"
         THEN mainWrites'[c] = mainWrites[c] + 1 /\ ref'[c] = ref[c] + 1
         ELSE mainWrites'[c] = mainWrites[c] /\ ref'[c] = ref[c]
    BY MainSendFacts DEF HelloNoSession, Hello
<1>3. TypeOK'
    <2>1. Session!TypeOK'
        BY TypesKept DEF ChannelInv, HelloNoSession, Hello, sessionVars
    <2>2. MainTypes'
        BY <1>1, <1>2 DEF ChannelInv, TypeOK, HelloNoSession, Hello, MainTypes,
           Phases, Stages, MainStates
    <2>3. SharedTypes'
        BY <1>1, <1>2 DEF ChannelInv, TypeOK, HelloNoSession, Hello, SharedTypes
    <2>4. ChildTypes'
        BY TypesKept DEF ChannelInv, HelloNoSession, Hello, childVars
    <2> QED
        BY <2>1, <2>2, <2>3, <2>4, TypesAgain
<1>4. /\ ctrl' = ctrl /\ job' = job
      /\ \A d \in Channels : d # c => Untouched(d)
    BY <1>1, <1>2 DEF ChannelInv, TypeOK, HelloNoSession, Hello, sessionVars,
       mainVars, sharedVars, childVars, Untouched
<1>5. QuietStep(c)
    <2>1. ChannelOK(c)'
        BY <1>1, <1>2, <1>3, RefIsEnough DEF ChannelInv, TypeOK, HelloNoSession,
           Hello, sessionVars, mainVars, sharedVars, childVars, ChannelOK,
           PhaseOK, StageOK, ChildOK, Unattached, Direct, Pending, Kinds
    <2>2. Quiet(c)
        BY <1>1, <1>2, <1>3, RefIsEnough DEF ChannelInv, TypeOK, HelloNoSession,
           Hello, sessionVars, mainVars, sharedVars, childVars, PhaseOK,
           StageOK, ChildOK, Quiet, Unattached, Awaited, InUse, Direct, Pending,
           Kinds
    <2>3. ref'[c] + Direct(c) = ref[c] + Direct(c)'
        <3>1. Pending(c)' = Pending(c) /\ Pending(c) \in Nat
            BY PendingFacts DEF ChannelInv, HelloNoSession, Hello, childVars
        <3>2. mainWrites[c] \in Nat /\ ref[c] \in Nat /\ hWorkTCP \in [Channels -> MainStates]
              /\ mainWrites \in [Channels -> 0..MaxWrites] /\ ref \in [Channels -> Nat]
            BY DEF ChannelInv, TypeOK
        <3> QED
            BY <1>1, <1>2, <3>1, <3>2 DEF HelloNoSession, Hello, mainVars,
               childVars, Direct
    <2> QED
        BY <2>1, <2>2, <2>3 DEF QuietStep
<1> QED
    BY <1>3, <1>4, <1>5, OneQuiet

\* The reference of the close outlives the writes that are cancelled.
LEMMA BindChannelToSessionKeeps ==
    ASSUME ChannelInv, NEW c \in Channels, BindChannelToSession(c)
    PROVE  ChannelInv'
<1>1. TypeOK'
    <2>1. Session!TypeOK'
        BY TypesKept DEF ChannelInv, BindChannelToSession, Hello, sessionVars
    <2>2. MainTypes'
        BY DEF ChannelInv, TypeOK, BindChannelToSession, Hello, MainTypes,
           Phases, Stages, MainStates
    <2>3. SharedTypes'
        BY DEF ChannelInv, TypeOK, BindChannelToSession, Hello, SharedTypes
    <2>4. ChildTypes'
        BY TypesKept DEF ChannelInv, BindChannelToSession, Hello, childVars
    <2> QED
        BY <2>1, <2>2, <2>3, <2>4, TypesAgain
<1>2. /\ ctrl' = ctrl /\ job' = job
      /\ \A d \in Channels : d # c => Untouched(d)
    BY DEF ChannelInv, TypeOK, BindChannelToSession, Hello, sessionVars,
       mainVars, sharedVars, childVars, Untouched
<1>3. QuietStep(c)
    <2>1. ChannelOK(c)'
        BY <1>1, RefIsEnough DEF ChannelInv, TypeOK, BindChannelToSession,
           Hello, sessionVars, mainVars, sharedVars, childVars, ChannelOK,
           PhaseOK, StageOK, ChildOK, Unattached, Direct, Pending, Kinds
    <2>2. Quiet(c)
        BY <1>1, RefIsEnough DEF ChannelInv, TypeOK, BindChannelToSession,
           Hello, sessionVars, mainVars, sharedVars, childVars, PhaseOK,
           StageOK, ChildOK, Quiet, Unattached, Awaited, InUse, Direct, Pending,
           Kinds
    <2>3. ref'[c] + Direct(c) = ref[c] + Direct(c)'
        <3>1. Pending(c)' = Pending(c) /\ Pending(c) \in Nat
            BY PendingFacts DEF ChannelInv, BindChannelToSession, Hello,
               childVars
        <3>2. mainWrites[c] \in Nat /\ ref[c] \in Nat /\ hWorkTCP \in [Channels -> MainStates]
              /\ mainWrites \in [Channels -> 0..MaxWrites] /\ ref \in [Channels -> Nat]
            BY DEF ChannelInv, TypeOK
        <3> QED
            BY <3>1, <3>2 DEF BindChannelToSession, Hello, mainVars, childVars,
               Direct
    <2> QED
        BY <2>1, <2>2, <2>3 DEF QuietStep
<1> QED
    BY <1>1, <1>2, <1>3, OneQuiet

\* The answer to a local command delays the teardown as well.
LEMMA LocalCommandKeeps ==
    ASSUME ChannelInv, NEW c \in Channels, LocalCommand(c)
    PROVE  ChannelInv'
<1>1. /\ isDead' \in [Channels -> BOOLEAN] /\ stage' \in [Channels -> Stages]
      /\ \A d \in Channels : d # c => isDead'[d] = isDead[d] /\ stage'[d] = stage[d]
      /\ \/ isDead'[c] = isDead[c] /\ stage'[c] = stage[c]
         \/ /\ phase[c] # "none" /\ ~isDead[c] /\ isDead'[c]
            /\ stage[c] = "none" /\ stage'[c] = "opeate"
    BY FreeChannelFacts DEF LocalCommand, Local
<1>2. /\ mainWrites' \in [Channels -> 0..MaxWrites] /\ ref' \in [Channels -> Nat]
      /\ \A d \in Channels :
             d # c => mainWrites'[d] = mainWrites[d] /\ ref'[d] = ref[d]
      /\ IF hWorkTCP[c] = "open"
         THEN mainWrites'[c] = mainWrites[c] + 1 /\ ref'[c] = ref[c] + 1
         ELSE mainWrites'[c] = mainWrites[c] /\ ref'[c] = ref[c]
    BY MainSendFacts DEF LocalCommand, Local
<1>3. TypeOK'
    <2>1. Session!TypeOK'
        BY TypesKept DEF ChannelInv, LocalCommand, Local, sessionVars
    <2>2. MainTypes'
        BY <1>1, <1>2 DEF ChannelInv, TypeOK, LocalCommand, Local, MainTypes,
           Phases, Stages, MainStates
    <2>3. SharedTypes'
        BY <1>1, <1>2 DEF ChannelInv, TypeOK, LocalCommand, Local, SharedTypes
    <2>4. ChildTypes'
        BY TypesKept DEF ChannelInv, LocalCommand, Local, childVars
    <2> QED
        BY <2>1, <2>2, <2>3, <2>4, TypesAgain
<1>4. /\ ctrl' = ctrl /\ job' = job
      /\ \A d \in Channels : d # c => Untouched(d)
    BY <1>1, <1>2 DEF ChannelInv, TypeOK, LocalCommand, Local, sessionVars,
       mainVars, sharedVars, childVars, Untouched
<1>5. QuietStep(c)
    <2>1. ChannelOK(c)'
        BY <1>1, <1>2, <1>3, RefIsEnough DEF ChannelInv, TypeOK, LocalCommand,
           Local, sessionVars, mainVars, sharedVars, childVars, ChannelOK,
           PhaseOK, StageOK, ChildOK, Unattached, Direct, Pending, Kinds
    <2>2. Quiet(c)
        BY <1>1, <1>2, <1>3, RefIsEnough DEF ChannelInv, TypeOK, LocalCommand,
           Local, sessionVars, mainVars, sharedVars, childVars, PhaseOK,
           StageOK, ChildOK, Quiet, Unattached, Awaited, InUse, Direct, Pending,
           Kinds
    <2>3. ref'[c] + Direct(c) = ref[c] + Direct(c)'
        <3>1. Pending(c)' = Pending(c) /\ Pending(c) \in Nat
            BY PendingFacts DEF ChannelInv, LocalCommand, Local, childVars
        <3>2. mainWrites[c] \in Nat /\ ref[c] \in Nat /\ hWorkTCP \in [Channels -> MainStates]
              /\ mainWrites \in [Channels -> 0..MaxWrites] /\ ref \in [Channels -> Nat]
            BY DEF ChannelInv, TypeOK
        <3> QED
            BY <1>1, <1>2, <3>1, <3>2 DEF LocalCommand, Local, mainVars,
               childVars, Direct
    <2> QED
        BY <2>1, <2>2, <2>3 DEF QuietStep
<1> QED
    BY <1>3, <1>4, <1>5, OneQuiet

\* An answer that leaves the channel open.
LEMMA LocalCommandKeepAliveKeeps ==
    ASSUME ChannelInv, NEW c \in Channels, LocalCommandKeepAlive(c)
    PROVE  ChannelInv'
<1>1. /\ mainWrites' \in [Channels -> 0..MaxWrites] /\ ref' \in [Channels -> Nat]
      /\ \A d \in Channels :
             d # c => mainWrites'[d] = mainWrites[d] /\ ref'[d] = ref[d]
      /\ IF hWorkTCP[c] = "open"
         THEN mainWrites'[c] = mainWrites[c] + 1 /\ ref'[c] = ref[c] + 1
         ELSE mainWrites'[c] = mainWrites[c] /\ ref'[c] = ref[c]
    BY MainSendFacts DEF LocalCommandKeepAlive, Local
<1>2. TypeOK'
    <2>1. Session!TypeOK'
        BY TypesKept DEF ChannelInv, LocalCommandKeepAlive, Local, sessionVars
    <2>2. MainTypes'
        BY <1>1 DEF ChannelInv, TypeOK, LocalCommandKeepAlive, Local, MainTypes,
           Phases, Stages, MainStates
    <2>3. SharedTypes'
        BY <1>1 DEF ChannelInv, TypeOK, LocalCommandKeepAlive, Local,
           SharedTypes
    <2>4. ChildTypes'
        BY TypesKept DEF ChannelInv, LocalCommandKeepAlive, Local, childVars
    <2> QED
        BY <2>1, <2>2, <2>3, <2>4, TypesAgain
<1>3. /\ ctrl' = ctrl /\ job' = job
      /\ \A d \in Channels : d # c => Untouched(d)
    BY <1>1 DEF ChannelInv, TypeOK, LocalCommandKeepAlive, Local, sessionVars,
       mainVars, sharedVars, childVars, Untouched
<1>4. QuietStep(c)
    <2>1. ChannelOK(c)'
        BY <1>1, <1>2, RefIsEnough DEF ChannelInv, TypeOK,
           LocalCommandKeepAlive, Local, sessionVars, mainVars, sharedVars,
           childVars, ChannelOK, PhaseOK, StageOK, ChildOK, Unattached, Direct,
           Pending, Kinds
    <2>2. Quiet(c)
        BY <1>1, <1>2, RefIsEnough DEF ChannelInv, TypeOK,
           LocalCommandKeepAlive, Local, sessionVars, mainVars, sharedVars,
           childVars, PhaseOK, StageOK, ChildOK, Quiet, Unattached, Awaited,
           InUse, Direct, Pending, Kinds
    <2>3. ref'[c] + Direct(c) = ref[c] + Direct(c)'
        <3>1. Pending(c)' = Pending(c) /\ Pending(c) \in Nat
            BY PendingFacts DEF ChannelInv, LocalCommandKeepAlive, Local,
               childVars
        <3>2. mainWrites[c] \in Nat /\ ref[c] \in Nat /\ hWorkTCP \in [Channels -> MainStates]
              /\ mainWrites \in [Channels -> 0..MaxWrites] /\ ref \in [Channels -> Nat]
            BY DEF ChannelInv, TypeOK
        <3> QED
            BY <1>1, <3>1, <3>2 DEF LocalCommandKeepAlive, Local, mainVars,
               childVars, Direct
    <2> QED
        BY <2>1, <2>2, <2>3 DEF QuietStep
<1> QED
    BY <1>2, <1>3, <1>4, OneQuiet

\* The timer is armed for a client of the main thread only.
LEMMA NewConnectTryKeeps ==
    ASSUME ChannelInv, NEW c \in Channels, NewConnectTry(c)
    PROVE  ChannelInv'
<1>1. TypeOK'
    <2>1. Session!TypeOK'
        BY TypesKept DEF ChannelInv, NewConnectTry, sessionVars
    <2>2. MainTypes'
        BY DEF ChannelInv, TypeOK, NewConnectTry, MainTypes, Phases, Stages,
           MainStates
    <2>3. SharedTypes'
        BY TypesKept DEF ChannelInv, NewConnectTry, sharedVars
    <2>4. ChildTypes'
        BY TypesKept DEF ChannelInv, NewConnectTry, childVars
    <2> QED
        BY <2>1, <2>2, <2>3, <2>4, TypesAgain
<1>2. /\ ctrl' = ctrl /\ job' = job
      /\ \A d \in Channels : d # c => Untouched(d)
    BY DEF ChannelInv, TypeOK, NewConnectTry, sessionVars, mainVars, sharedVars,
       childVars, Untouched
<1>3. QuietStep(c)
    BY <1>1, RefIsEnough DEF ChannelInv, TypeOK, NewConnectTry, sessionVars,
       mainVars, sharedVars, childVars, QuietStep, ChannelOK, PhaseOK, StageOK,
       ChildOK, Unattached, Quiet, Awaited, InUse, Direct, Pending, Kinds
<1> QED
    BY <1>1, <1>2, <1>3, OneQuiet

\* The timer fires while the channel is there, dead or alive.
LEMMA OrderConnecTargetResultKeeps ==
    ASSUME ChannelInv, NEW c \in Channels, OrderConnecTargetResult(c)
    PROVE  ChannelInv'
<1>1. /\ isDead' \in [Channels -> BOOLEAN] /\ stage' \in [Channels -> Stages]
      /\ \A d \in Channels : d # c => isDead'[d] = isDead[d] /\ stage'[d] = stage[d]
      /\ \/ isDead'[c] = isDead[c] /\ stage'[c] = stage[c]
         \/ /\ phase[c] # "none" /\ ~isDead[c] /\ isDead'[c]
            /\ stage[c] = "none" /\ stage'[c] = "opeate"
    BY FreeChannelFacts DEF OrderConnecTargetResult
<1>2. /\ mainWrites' \in [Channels -> 0..MaxWrites] /\ ref' \in [Channels -> Nat]
      /\ \A d \in Channels :
             d # c => mainWrites'[d] = mainWrites[d] /\ ref'[d] = ref[d]
      /\ IF hWorkTCP[c] = "open"
         THEN mainWrites'[c] = mainWrites[c] + 1 /\ ref'[c] = ref[c] + 1
         ELSE mainWrites'[c] = mainWrites[c] /\ ref'[c] = ref[c]
    BY MainSendFacts DEF OrderConnecTargetResult
<1>3. TypeOK'
    <2>1. Session!TypeOK'
        BY TypesKept DEF ChannelInv, OrderConnecTargetResult, sessionVars
    <2>2. MainTypes'
        BY <1>1, <1>2 DEF ChannelInv, TypeOK, OrderConnecTargetResult,
           MainTypes, Phases, Stages, MainStates
    <2>3. SharedTypes'
        BY <1>1, <1>2 DEF ChannelInv, TypeOK, OrderConnecTargetResult,
           SharedTypes
    <2>4. ChildTypes'
        BY TypesKept DEF ChannelInv, OrderConnecTargetResult, childVars
    <2> QED
        BY <2>1, <2>2, <2>3, <2>4, TypesAgain
<1>4. /\ ctrl' = ctrl /\ job' = job
      /\ \A d \in Channels : d # c => Untouched(d)
    BY <1>1, <1>2 DEF ChannelInv, TypeOK, OrderConnecTargetResult, sessionVars,
       mainVars, sharedVars, childVars, Untouched
<1>5. QuietStep(c)
    <2>1. ChannelOK(c)'
        BY <1>1, <1>2, <1>3, RefIsEnough DEF ChannelInv, TypeOK,
           OrderConnecTargetResult, sessionVars, mainVars, sharedVars,
           childVars, ChannelOK, PhaseOK, StageOK, ChildOK, Unattached, Direct,
           Pending, Kinds
    <2>2. Quiet(c)
        BY <1>1, <1>2, <1>3, RefIsEnough DEF ChannelInv, TypeOK,
           OrderConnecTargetResult, sessionVars, mainVars, sharedVars,
           childVars, PhaseOK, StageOK, ChildOK, Quiet, Unattached, Awaited,
           InUse, Direct, Pending, Kinds
    <2>3. ref'[c] + Direct(c) = ref[c] + Direct(c)'
        <3>1. Pending(c)' = Pending(c) /\ Pending(c) \in Nat
            BY PendingFacts DEF ChannelInv, OrderConnecTargetResult, childVars
        <3>2. mainWrites[c] \in Nat /\ ref[c] \in Nat /\ hWorkTCP \in [Channels -> MainStates]
              /\ mainWrites \in [Channels -> 0..MaxWrites] /\ ref \in [Channels -> Nat]
            BY DEF ChannelInv, TypeOK
        <3> QED
            BY <1>1, <1>2, <3>1, <3>2 DEF OrderConnecTargetResult, mainVars,
               childVars, Direct
    <2> QED
        BY <2>1, <2>2, <2>3 DEF QuietStep
<1> QED
    BY <1>3, <1>4, <1>5, OneQuiet

\* Another client ends a channel that stands for a forward; a worker had it.
LEMMA RemoveFportkeyKeeps ==
    ASSUME ChannelInv, NEW c \in Channels, RemoveFportkey(c)
    PROVE  ChannelInv'
<1>1. /\ isDead' \in [Channels -> BOOLEAN] /\ stage' \in [Channels -> Stages]
      /\ \A d \in Channels : d # c => isDead'[d] = isDead[d] /\ stage'[d] = stage[d]
      /\ \/ isDead'[c] = isDead[c] /\ stage'[c] = stage[c]
         \/ /\ phase[c] # "none" /\ ~isDead[c] /\ isDead'[c]
            /\ stage[c] = "none" /\ stage'[c] = "opeate"
    BY FreeChannelFacts DEF RemoveFportkey, PushFree
<1>2. TypeOK'
    <2>1. Session!TypeOK'
        BY TypesKept DEF ChannelInv, RemoveFportkey, PushFree, sessionVars
    <2>2. MainTypes'
        BY <1>1 DEF ChannelInv, TypeOK, RemoveFportkey, PushFree, MainTypes,
           Phases, Stages, MainStates
    <2>3. SharedTypes'
        BY <1>1 DEF ChannelInv, TypeOK, RemoveFportkey, PushFree, SharedTypes
    <2>4. ChildTypes'
        BY TypesKept DEF ChannelInv, RemoveFportkey, PushFree, childVars
    <2> QED
        BY <2>1, <2>2, <2>3, <2>4, TypesAgain
<1>3. /\ ctrl' = ctrl /\ job' = job
      /\ \A d \in Channels : d # c => Untouched(d)
    BY <1>1 DEF ChannelInv, TypeOK, RemoveFportkey, PushFree, sessionVars,
       mainVars, sharedVars, childVars, Untouched
<1>4. QuietStep(c)
    <2>1. ChannelOK(c)'
        BY <1>1, <1>2, RefIsEnough DEF ChannelInv, TypeOK, RemoveFportkey,
           PushFree, sessionVars, mainVars, sharedVars, childVars, ChannelOK,
           PhaseOK, StageOK, ChildOK, Unattached, Direct, Pending, Kinds
    <2>2. Quiet(c)
        BY <1>1, <1>2, RefIsEnough DEF ChannelInv, TypeOK, RemoveFportkey,
           PushFree, sessionVars, mainVars, sharedVars, childVars, PhaseOK,
           StageOK, ChildOK, Quiet, Unattached, Awaited, InUse, Direct, Pending,
           Kinds
    <2>3. ref'[c] + Direct(c) = ref[c] + Direct(c)'
        <3>1. Pending(c)' = Pending(c) /\ Pending(c) \in Nat
            BY PendingFacts DEF ChannelInv, RemoveFportkey, PushFree, childVars
        <3>2. mainWrites[c] \in Nat /\ ref[c] \in Nat /\ hWorkTCP \in [Channels -> MainStates]
              /\ mainWrites \in [Channels -> 0..MaxWrites] /\ ref \in [Channels -> Nat]
            BY DEF ChannelInv, TypeOK
        <3> QED
            BY <1>1, <3>1, <3>2 DEF RemoveFportkey, PushFree, mainVars,
               childVars, Direct
    <2> QED
        BY <2>1, <2>2, <2>3 DEF QuietStep
<1> QED
    BY <1>2, <1>3, <1>4, OneQuiet

\* A write ends on loopMain; a bound channel keeps the reference of its
\* close.
LEMMA MainWriteCallbackKeeps ==
    ASSUME ChannelInv, NEW c \in Channels, NEW failed \in BOOLEAN, MainWriteCallback(c, failed)
    PROVE  ChannelInv'
<1>1. /\ isDead' \in [Channels -> BOOLEAN] /\ stage' \in [Channels -> Stages]
      /\ \A d \in Channels : d # c => isDead'[d] = isDead[d] /\ stage'[d] = stage[d]
      /\ \/ isDead'[c] = isDead[c] /\ stage'[c] = stage[c]
         \/ /\ phase[c] # "none" /\ ~isDead[c] /\ isDead'[c]
            /\ stage[c] = "none" /\ stage'[c] = "opeate"
    BY FreeChannelFacts DEF MainWriteCallback
<1>2. mainWrites[c] - 1 \in 0..MaxWrites /\ ref[c] - 1 \in Nat
    <2>1. mainWrites[c] \in Nat /\ mainWrites[c] \in 1..MaxWrites /\ hWorkTCP[c] \in MainStates
        BY MaxWritesAssumption DEF ChannelInv, TypeOK, MainWriteCallback
    <2>2. ref[c] \in Nat /\ ref[c] >= Direct(c)
          /\ Direct(c) \in Nat /\ Pending(c) \in Nat
        BY RefIsEnough, PendingFacts DEF ChannelInv
    <2>3. Direct(c) >= mainWrites[c]
        BY <2>1, <2>2 DEF Direct
    <2> QED
        BY <2>1, <2>2, <2>3, MaxWritesAssumption
<1>3. TypeOK'
    <2>1. Session!TypeOK'
        BY TypesKept DEF ChannelInv, MainWriteCallback, sessionVars
    <2>2. MainTypes'
        BY <1>1, <1>2 DEF ChannelInv, TypeOK, MainWriteCallback, MainTypes,
           Phases, Stages, MainStates
    <2>3. SharedTypes'
        BY <1>1, <1>2 DEF ChannelInv, TypeOK, MainWriteCallback, SharedTypes
    <2>4. ChildTypes'
        BY TypesKept DEF ChannelInv, MainWriteCallback, childVars
    <2> QED
        BY <2>1, <2>2, <2>3, <2>4, TypesAgain
<1>4. /\ ctrl' = ctrl /\ job' = job
      /\ \A d \in Channels : d # c => Untouched(d)
    BY <1>1, <1>2 DEF ChannelInv, TypeOK, MainWriteCallback, sessionVars,
       mainVars, sharedVars, childVars, Untouched
<1>5. QuietStep(c)
    <2>1. ChannelOK(c)'
        BY <1>1, <1>2, <1>3, RefIsEnough, PendingFacts DEF ChannelInv, TypeOK,
           MainWriteCallback, sessionVars, mainVars, sharedVars, childVars,
           ChannelOK, PhaseOK, StageOK, ChildOK, Unattached, Direct, Pending,
           Kinds
    <2>2. Quiet(c)
        BY <1>1, <1>2, <1>3, RefIsEnough, PendingFacts DEF ChannelInv, TypeOK,
           MainWriteCallback, sessionVars, mainVars, sharedVars, childVars,
           PhaseOK, StageOK, ChildOK, Quiet, Unattached, Awaited, InUse, Direct,
           Pending, Kinds
    <2>3. ref'[c] + Direct(c) = ref[c] + Direct(c)'
        <3>1. Pending(c)' = Pending(c) /\ Pending(c) \in Nat
            BY PendingFacts DEF ChannelInv, MainWriteCallback, childVars
        <3>2. mainWrites[c] \in Nat /\ ref[c] \in Nat /\ hWorkTCP \in [Channels -> MainStates]
              /\ mainWrites \in [Channels -> 0..MaxWrites] /\ ref \in [Channels -> Nat]
            BY DEF ChannelInv, TypeOK
        <3> QED
            BY <1>1, <1>2, <3>1, <3>2, PendingFacts DEF MainWriteCallback,
               mainVars, childVars, Direct
    <2> QED
        BY <2>1, <2>2, <2>3 DEF QuietStep
<1> QED
    BY <1>3, <1>4, <1>5, OneQuiet

\* The close of hWorkTCP ends, with whatever waited for it.
LEMMA CloseMainHandleKeeps ==
    ASSUME ChannelInv, NEW c \in Channels, CloseMainHandle(c)
    PROVE  ChannelInv'
<1>1. /\ hWorkTCP[c] = "closingRef" => ref[c] - 1 \in Nat
      /\ hWorkTCP[c] = "closingFree" => uvHandleRef[c] - 1 \in {0, 1}
    <2>1. mainWrites[c] \in Nat /\ ref[c] \in Nat /\ ref[c] >= Direct(c)
          /\ Direct(c) \in Nat /\ Pending(c) \in Nat
        BY RefIsEnough, PendingFacts DEF ChannelInv, TypeOK
    <2>2. hWorkTCP[c] = "closingRef" => Direct(c) >= 1
        BY <2>1 DEF Direct
    <2>3. ASSUME hWorkTCP[c] = "closingFree" PROVE uvHandleRef[c] = 1
        <3>1. PhaseOK(c) /\ StageOK(c)
            BY DEF ChannelInv
        <3>2. phase[c] # "none" /\ stage[c] = "finally"
            BY <2>3, <3>1 DEF PhaseOK, StageOK
        <3> QED
            BY <2>3, <3>1, <3>2 DEF StageOK
    <2> QED
        BY <2>1, <2>2, <2>3
<1>2. TypeOK'
    <2>1. Session!TypeOK'
        BY TypesKept DEF ChannelInv, CloseMainHandle, sessionVars
    <2>2. MainTypes'
        BY <1>1 DEF ChannelInv, TypeOK, CloseMainHandle, MainTypes, Phases,
           Stages, MainStates
    <2>3. SharedTypes'
        BY <1>1 DEF ChannelInv, TypeOK, CloseMainHandle, SharedTypes
    <2>4. ChildTypes'
        BY TypesKept DEF ChannelInv, CloseMainHandle, childVars
    <2> QED
        BY <2>1, <2>2, <2>3, <2>4, TypesAgain
<1>3. /\ ctrl' = ctrl /\ job' = job
      /\ \A d \in Channels : d # c => Untouched(d)
    BY <1>1 DEF ChannelInv, TypeOK, CloseMainHandle, sessionVars, mainVars,
       sharedVars, childVars, Untouched
<1>4. QuietStep(c)
    <2>1. ChannelOK(c)'
        BY <1>1, <1>2, RefIsEnough, PendingFacts DEF ChannelInv, TypeOK,
           CloseMainHandle, sessionVars, mainVars, sharedVars, childVars,
           ChannelOK, PhaseOK, StageOK, ChildOK, Unattached, Direct, Pending,
           Kinds
    <2>2. Quiet(c)
        BY <1>1, <1>2, RefIsEnough, PendingFacts DEF ChannelInv, TypeOK,
           CloseMainHandle, sessionVars, mainVars, sharedVars, childVars,
           PhaseOK, StageOK, ChildOK, Quiet, Unattached, Awaited, InUse, Direct,
           Pending, Kinds
    <2>3. ref'[c] + Direct(c) = ref[c] + Direct(c)'
        <3>1. Pending(c)' = Pending(c) /\ Pending(c) \in Nat
            BY PendingFacts DEF ChannelInv, CloseMainHandle, childVars
        <3>2. mainWrites[c] \in Nat /\ ref[c] \in Nat /\ hWorkTCP \in [Channels -> MainStates]
              /\ mainWrites \in [Channels -> 0..MaxWrites] /\ ref \in [Channels -> Nat]
            BY DEF ChannelInv, TypeOK
        <3> QED
            BY <1>1, <3>1, <3>2, PendingFacts DEF CloseMainHandle, mainVars,
               childVars, Direct
    <2> QED
        BY <2>1, <2>2, <2>3 DEF QuietStep
<1> QED
    BY <1>2, <1>3, <1>4, OneQuiet

-----------------------------------------------------------------------------
(* The main thread: teardown *)

\* A worker asked for the end of a channel it had attached.
LEMMA AsyncMainLoopTaskKeeps ==
    ASSUME ChannelInv, NEW c \in Channels, AsyncMainLoopTask(c)
    PROVE  ChannelInv'
<1>1. /\ isDead' \in [Channels -> BOOLEAN] /\ stage' \in [Channels -> Stages]
      /\ \A d \in Channels : d # c => isDead'[d] = isDead[d] /\ stage'[d] = stage[d]
      /\ \/ isDead'[c] = isDead[c] /\ stage'[c] = stage[c]
         \/ /\ phase[c] # "none" /\ ~isDead[c] /\ isDead'[c]
            /\ stage[c] = "none" /\ stage'[c] = "opeate"
    BY FreeChannelFacts DEF AsyncMainLoopTask
<1>2. TypeOK'
    <2>1. Session!TypeOK'
        BY TypesKept DEF ChannelInv, AsyncMainLoopTask, sessionVars
    <2>2. MainTypes'
        BY <1>1 DEF ChannelInv, TypeOK, AsyncMainLoopTask, MainTypes, Phases,
           Stages, MainStates
    <2>3. SharedTypes'
        BY <1>1 DEF ChannelInv, TypeOK, AsyncMainLoopTask, SharedTypes
    <2>4. ChildTypes'
        BY TypesKept DEF ChannelInv, AsyncMainLoopTask, childVars
    <2> QED
        BY <2>1, <2>2, <2>3, <2>4, TypesAgain
<1>3. /\ ctrl' = ctrl /\ job' = job
      /\ \A d \in Channels : d # c => Untouched(d)
    BY <1>1 DEF ChannelInv, TypeOK, AsyncMainLoopTask, sessionVars, mainVars,
       sharedVars, childVars, Untouched
<1>4. QuietStep(c)
    <2>1. ChannelOK(c)'
        BY <1>1, <1>2, RefIsEnough DEF ChannelInv, TypeOK, AsyncMainLoopTask,
           sessionVars, mainVars, sharedVars, childVars, ChannelOK, PhaseOK,
           StageOK, ChildOK, Unattached, Direct, Pending, Kinds
    <2>2. Quiet(c)
        BY <1>1, <1>2, RefIsEnough DEF ChannelInv, TypeOK, AsyncMainLoopTask,
           sessionVars, mainVars, sharedVars, childVars, PhaseOK, StageOK,
           ChildOK, Quiet, Unattached, Awaited, InUse, Direct, Pending, Kinds
    <2>3. ref'[c] + Direct(c) = ref[c] + Direct(c)'
        <3>1. Pending(c)' = Pending(c) /\ Pending(c) \in Nat
            BY PendingFacts DEF ChannelInv, AsyncMainLoopTask, childVars
        <3>2. mainWrites[c] \in Nat /\ ref[c] \in Nat /\ hWorkTCP \in [Channels -> MainStates]
              /\ mainWrites \in [Channels -> 0..MaxWrites] /\ ref \in [Channels -> Nat]
            BY DEF ChannelInv, TypeOK
        <3> QED
            BY <1>1, <3>1, <3>2 DEF AsyncMainLoopTask, mainVars, childVars,
               Direct
    <2> QED
        BY <2>1, <2>2, <2>3 DEF QuietStep
<1> QED
    BY <1>2, <1>3, <1>4, OneQuiet

\* The worker has let go: the main thread goes on.
LEMMA CheckFreeChannelContinueKeeps ==
    ASSUME ChannelInv, NEW c \in Channels, CheckFreeChannelContinue(c)
    PROVE  ChannelInv'
<1>1. uvHandleRef[c] - 1 \in {0, 1} /\ hWorkTCP[c] = "closed"
    <2>1. PhaseOK(c) /\ StageOK(c) /\ ChildOK(c) /\ stage[c] = "waitChild"
        BY DEF ChannelInv, CheckFreeChannelContinue
    <2>2. phase[c] = "sent"
        BY <2>1 DEF ChildOK
    <2>3. hWorkTCP[c] = "closed"
        BY <2>1, <2>2 DEF PhaseOK
    <2>4. uvHandleRef[c] = 1
        BY <2>1, <2>2 DEF StageOK
    <2> QED
        BY <2>3, <2>4
<1>2. TypeOK'
    <2>1. Session!TypeOK'
        BY TypesKept DEF ChannelInv, CheckFreeChannelContinue,
           FreeChannelContinue, sessionVars
    <2>2. MainTypes'
        BY <1>1 DEF ChannelInv, TypeOK, CheckFreeChannelContinue,
           FreeChannelContinue, MainTypes, Phases, Stages, MainStates
    <2>3. SharedTypes'
        BY TypesKept DEF ChannelInv, CheckFreeChannelContinue,
           FreeChannelContinue, sharedVars
    <2>4. ChildTypes'
        BY TypesKept DEF ChannelInv, CheckFreeChannelContinue,
           FreeChannelContinue, childVars
    <2> QED
        BY <2>1, <2>2, <2>3, <2>4, TypesAgain
<1>3. /\ ctrl' = ctrl /\ job' = job
      /\ \A d \in Channels : d # c => Untouched(d)
    BY <1>1 DEF ChannelInv, TypeOK, CheckFreeChannelContinue,
       FreeChannelContinue, sessionVars, mainVars, sharedVars, childVars,
       Untouched
<1>4. QuietStep(c)
    BY <1>1, <1>2, RefIsEnough DEF ChannelInv, TypeOK, CheckFreeChannelContinue,
       FreeChannelContinue, sessionVars, mainVars, sharedVars, childVars,
       QuietStep, ChannelOK, PhaseOK, StageOK, ChildOK, Unattached, Quiet,
       Awaited, InUse, Direct, Pending, Kinds
<1> QED
    BY <1>2, <1>3, <1>4, OneQuiet

\* The channel is deleted when nothing of it is left.
LEMMA FreeChannelFinallyKeeps ==
    ASSUME ChannelInv, NEW c \in Channels, FreeChannelFinally(c)
    PROVE  ChannelInv'
<1>1. TypeOK'
    <2>1. Session!TypeOK'
        BY TypesKept DEF ChannelInv, FreeChannelFinally, sessionVars
    <2>2. MainTypes'
        BY DEF ChannelInv, TypeOK, FreeChannelFinally, MainTypes, Phases,
           Stages, MainStates
    <2>3. SharedTypes'
        BY TypesKept DEF ChannelInv, FreeChannelFinally, sharedVars
    <2>4. ChildTypes'
        BY DEF ChannelInv, TypeOK, FreeChannelFinally, ChildTypes, Kinds,
           ChildStates
    <2> QED
        BY <2>1, <2>2, <2>3, <2>4, TypesAgain
<1>2. /\ ctrl' = ctrl /\ job' = job
      /\ \A d \in Channels : d # c => Untouched(d)
    BY DEF ChannelInv, TypeOK, FreeChannelFinally, sessionVars, mainVars,
       sharedVars, childVars, Untouched
<1>3. QuietStep(c)
    BY <1>1, RefIsEnough DEF ChannelInv, TypeOK, FreeChannelFinally,
       sessionVars, mainVars, sharedVars, childVars, QuietStep, ChannelOK,
       PhaseOK, StageOK, ChildOK, Unattached, Quiet, Awaited, InUse, Direct,
       Pending, Kinds
<1> QED
    BY <1>1, <1>2, <1>3, OneQuiet

-----------------------------------------------------------------------------
(* The worker of a session: steps that leave its job alone *)

\* The idle callback of DeatchChannel says that the worker let go.
LEMMA ClearDirectKeeps ==
    ASSUME ChannelInv, NEW s \in Sessions, NEW c \in Channels, ClearDirect(s, c)
    PROVE  ChannelInv'
<1>1. TypeOK'
    <2>1. Session!TypeOK'
        BY TypesKept DEF ChannelInv, ClearDirect, Serves, sessionVars
    <2>2. MainTypes'
        BY TypesKept DEF ChannelInv, ClearDirect, Serves, mainVars
    <2>3. SharedTypes'
        BY TypesKept DEF ChannelInv, ClearDirect, Serves, sharedVars
    <2>4. ChildTypes'
        BY DEF ChannelInv, TypeOK, ClearDirect, Serves, ChildTypes, Kinds,
           ChildStates
    <2> QED
        BY <2>1, <2>2, <2>3, <2>4, TypesAgain
<1>2. /\ ctrl' = ctrl /\ job' = job
      /\ \A d \in Channels : d # c => Untouched(d)
    BY DEF ChannelInv, TypeOK, ClearDirect, Serves, sessionVars, mainVars,
       sharedVars, childVars, Untouched
<1>3. QuietStep(c)
    BY <1>1, RefIsEnough DEF ChannelInv, TypeOK, ClearDirect, Serves,
       sessionVars, mainVars, sharedVars, childVars, QuietStep, ChannelOK,
       PhaseOK, StageOK, ChildOK, Unattached, Quiet, Awaited, InUse, Direct,
       Pending, Kinds
<1> QED
    BY <1>1, <1>2, <1>3, OneQuiet

\* The close of the child handle ends; DeatchChannel's says that the worker
\* let go.
LEMMA CloseChildHandleKeeps ==
    ASSUME ChannelInv, NEW s \in Sessions, NEW c \in Channels, CloseChildHandle(s, c)
    PROVE  ChannelInv'
<1>1. TypeOK'
    <2>1. Session!TypeOK'
        BY TypesKept DEF ChannelInv, CloseChildHandle, Serves, sessionVars
    <2>2. MainTypes'
        BY TypesKept DEF ChannelInv, CloseChildHandle, Serves, mainVars
    <2>3. SharedTypes'
        BY TypesKept DEF ChannelInv, CloseChildHandle, Serves, sharedVars
    <2>4. ChildTypes'
        BY DEF ChannelInv, TypeOK, CloseChildHandle, Serves, ChildTypes, Kinds,
           ChildStates
    <2> QED
        BY <2>1, <2>2, <2>3, <2>4, TypesAgain
<1>2. /\ ctrl' = ctrl /\ job' = job
      /\ \A d \in Channels : d # c => Untouched(d)
    BY DEF ChannelInv, TypeOK, CloseChildHandle, Serves, sessionVars, mainVars,
       sharedVars, childVars, Untouched
<1>3. QuietStep(c)
    BY <1>1, RefIsEnough DEF ChannelInv, TypeOK, CloseChildHandle, Serves,
       sessionVars, mainVars, sharedVars, childVars, QuietStep, ChannelOK,
       PhaseOK, StageOK, ChildOK, Unattached, Quiet, Awaited, InUse, Direct,
       Pending, Kinds
<1> QED
    BY <1>1, <1>2, <1>3, OneQuiet

\* The client is gone: its worker closes the handle and asks for the
\* teardown.
LEMMA ReadStreamErrorKeeps ==
    ASSUME ChannelInv, NEW s \in Sessions, NEW c \in Channels, ReadStreamError(s, c)
    PROVE  ChannelInv'
<1>1. TypeOK'
    <2>1. Session!TypeOK'
        BY TypesKept DEF ChannelInv, ReadStreamError, Serves, PushFree,
           sessionVars
    <2>2. MainTypes'
        BY TypesKept DEF ChannelInv, ReadStreamError, Serves, PushFree, mainVars
    <2>3. SharedTypes'
        BY DEF ChannelInv, TypeOK, ReadStreamError, Serves, PushFree,
           SharedTypes
    <2>4. ChildTypes'
        BY DEF ChannelInv, TypeOK, ReadStreamError, Serves, PushFree,
           ChildTypes, Kinds, ChildStates
    <2> QED
        BY <2>1, <2>2, <2>3, <2>4, TypesAgain
<1>2. /\ ctrl' = ctrl /\ job' = job
      /\ \A d \in Channels : d # c => Untouched(d)
    BY DEF ChannelInv, TypeOK, ReadStreamError, Serves, PushFree, sessionVars,
       mainVars, sharedVars, childVars, Untouched
<1>3. QuietStep(c)
    <2>1. ChannelOK(c)'
        BY <1>1, RefIsEnough DEF ChannelInv, TypeOK, ReadStreamError, Serves,
           PushFree, sessionVars, mainVars, sharedVars, childVars, ChannelOK,
           PhaseOK, StageOK, ChildOK, Unattached, Direct, Pending, Kinds
    <2>2. Quiet(c)
        BY <1>1, RefIsEnough DEF ChannelInv, TypeOK, ReadStreamError, Serves,
           PushFree, sessionVars, mainVars, sharedVars, childVars, PhaseOK,
           StageOK, ChildOK, Quiet, Unattached, Awaited, InUse, Direct, Pending,
           Kinds
    <2>3. ref'[c] + Direct(c) = ref[c] + Direct(c)'
        <3>1. Pending(c)' = Pending(c) /\ Pending(c) \in Nat
            BY PendingFacts DEF ChannelInv, ReadStreamError, Serves, PushFree,
               childVars
        <3>2. mainWrites[c] \in Nat /\ ref[c] \in Nat /\ hWorkTCP \in [Channels -> MainStates]
              /\ mainWrites \in [Channels -> 0..MaxWrites] /\ ref \in [Channels -> Nat]
            BY DEF ChannelInv, TypeOK
        <3> QED
            BY <3>1, <3>2 DEF ReadStreamError, Serves, PushFree, mainVars,
               childVars, Direct
    <2> QED
        BY <2>1, <2>2, <2>3 DEF QuietStep
<1> QED
    BY <1>1, <1>2, <1>3, OneQuiet

\* One write more or less on the child loop.
LEMMA ChildWritesFacts ==
    ASSUME TypeOK, NEW c \in Channels, NEW k \in Kinds, NEW n \in 0..MaxWrites,
           childWrites' = [childWrites EXCEPT ![c] = [childWrites[c] EXCEPT ![k] = n]]
    PROVE  /\ childWrites' \in [Channels -> [Kinds -> 0..MaxWrites]]
           /\ \A d \in Channels : d # c => childWrites'[d] = childWrites[d]
           /\ childWrites'[c][k] = n
           /\ \A l \in Kinds : l # k => childWrites'[c][l] = childWrites[c][l]
           /\ Pending(c) \in Nat /\ Pending(c)' \in Nat /\ childWrites[c][k] \in Nat
           /\ Pending(c)' = Pending(c) + n - childWrites[c][k]
           /\ Pending(c) >= childWrites[c][k]
<1>1. /\ childWrites \in [Channels -> [Kinds -> 0..MaxWrites]]
      /\ childWrites[c] \in [Kinds -> 0..MaxWrites]
    BY DEF TypeOK
<1>2. [childWrites[c] EXCEPT ![k] = n] \in [Kinds -> 0..MaxWrites]
    BY <1>1
<1>3. /\ childWrites' \in [Channels -> [Kinds -> 0..MaxWrites]]
      /\ \A d \in Channels : d # c => childWrites'[d] = childWrites[d]
      /\ childWrites'[c] = [childWrites[c] EXCEPT ![k] = n]
    BY <1>1, <1>2
<1>4. /\ childWrites'[c][k] = n
      /\ \A l \in Kinds : l # k => childWrites'[c][l] = childWrites[c][l]
    BY <1>1, <1>3
<1>5. /\ childWrites[c]["echo"] \in Nat /\ childWrites[c]["reply"] \in Nat
      /\ n \in Nat
    BY <1>1 DEF Kinds
<1>6. /\ Pending(c) \in Nat /\ Pending(c)' \in Nat /\ childWrites[c][k] \in Nat
      /\ Pending(c)' = Pending(c) + n - childWrites[c][k]
      /\ Pending(c) >= childWrites[c][k]
    BY <1>4, <1>5 DEF Pending, Kinds
<1> QED
    BY <1>3, <1>4, <1>6

\* The client is told while the teardown is asked for.
LEMMA ReadChannelFailKeeps ==
    ASSUME ChannelInv, NEW s \in Sessions, NEW c \in Channels, ReadChannelFail(s, c)
    PROVE  ChannelInv'
<1>0. PICK k \in Kinds : k = "reply"
    BY DEF Kinds
<1> DEFINE n == childWrites[c][k] + 1
<1>1. TypeOK /\ n \in 0..MaxWrites
    BY <1>0, MaxWritesAssumption DEF ChannelInv, TypeOK, ReadChannelFail, Kinds
<1>2. childWrites' = [childWrites EXCEPT ![c] = [childWrites[c] EXCEPT ![k] = n]]
    BY <1>0 DEF ReadChannelFail
<1> HIDE DEF n
<1>3. /\ childWrites' \in [Channels -> [Kinds -> 0..MaxWrites]]
      /\ \A d \in Channels : d # c => childWrites'[d] = childWrites[d]
      /\ childWrites'[c][k] = n
      /\ \A l \in Kinds : l # k => childWrites'[c][l] = childWrites[c][l]
      /\ Pending(c) \in Nat /\ Pending(c)' \in Nat /\ childWrites[c][k] \in Nat
      /\ Pending(c)' = Pending(c) + n - childWrites[c][k]
      /\ Pending(c) >= childWrites[c][k]
    BY <1>1, <1>2, ChildWritesFacts
<1>4. Pending(c)' = Pending(c) + 1 /\ Pending(c) \in Nat
    <2>1. childWrites[c][k] \in Nat
        BY <1>1 DEF TypeOK
    <2> QED
        BY <1>3, <2>1 DEF n
<1>5. TypeOK'
    <2>1. SharedTypes'
        BY DEF ChannelInv, TypeOK, ReadChannelFail, PushFree, SharedTypes
    <2>2. ChildTypes'
        BY <1>3 DEF ChannelInv, TypeOK, ReadChannelFail, ChildTypes
    <2> QED
        BY <2>1, <2>2, TypesKept, TypesAgain DEF ChannelInv, ReadChannelFail
<1>6. /\ ctrl' = ctrl /\ job' = job
      /\ \A d \in Channels : d # c => Untouched(d)
    BY <1>3 DEF ChannelInv, TypeOK, ReadChannelFail, PushFree, mainVars, Untouched
<1>7. /\ UNCHANGED <<mainVars, hChildWorkTCP, target, childCleared, clearIdle, forwards>>
      /\ lstMainThreadOP' = lstMainThreadOP \cup {c} /\ hChildWorkTCP[c] = "open"
      /\ ref'[c] = ref[c] + 1 /\ ref[c] \in Nat
      /\ childWrites'[c]["echo"] = childWrites[c]["echo"]
    BY <1>0, <1>3 DEF ChannelInv, TypeOK, ReadChannelFail, PushFree, Kinds
<1>8. QuietStep(c)
    <2>1. ChannelOK(c)'
        BY <1>7 DEF ChannelInv, mainVars, ChannelOK, PhaseOK, StageOK, ChildOK, Unattached
    <2>2. Quiet(c)
        BY <1>7 DEF mainVars, Quiet, Unattached, Awaited, InUse
    <2>3. ref'[c] + Direct(c) = ref[c] + Direct(c)'
        <3>1. mainWrites[c] \in Nat /\ hWorkTCP' = hWorkTCP /\ mainWrites' = mainWrites
            BY <1>7 DEF ChannelInv, TypeOK, mainVars
        <3>2. ref'[c] = ref[c] + 1 /\ ref[c] \in Nat
            BY <1>7
        <3> QED
            BY <1>4, <3>1, <3>2 DEF Direct
    <2> QED
        BY <2>1, <2>2, <2>3 DEF QuietStep
<1> QED
    BY <1>5, <1>6, <1>8, OneQuiet

\* A write of the child loop ends: its reference goes, and the handle closes when
\* it failed.
LEMMA WriteCallbackKeeps ==
    ASSUME ChannelInv, NEW s \in Sessions, NEW c \in Channels, NEW k \in Kinds,
           NEW failed \in BOOLEAN, WriteCallback(s, c, k, failed)
    PROVE  ChannelInv'
<1> DEFINE n == childWrites[c][k] - 1
<1>1. TypeOK /\ n \in 0..MaxWrites
    BY MaxWritesAssumption DEF ChannelInv, TypeOK, WriteCallback
<1>2. childWrites' = [childWrites EXCEPT ![c] = [childWrites[c] EXCEPT ![k] = n]]
    BY DEF WriteCallback
<1> HIDE DEF n
<1>3. /\ childWrites' \in [Channels -> [Kinds -> 0..MaxWrites]]
      /\ \A d \in Channels : d # c => childWrites'[d] = childWrites[d]
      /\ childWrites'[c][k] = n
      /\ \A l \in Kinds : l # k => childWrites'[c][l] = childWrites[c][l]
      /\ Pending(c) \in Nat /\ Pending(c)' \in Nat /\ childWrites[c][k] \in Nat
      /\ Pending(c)' = Pending(c) + n - childWrites[c][k]
      /\ Pending(c) >= childWrites[c][k]
    BY <1>1, <1>2, ChildWritesFacts
<1>4. Pending(c)' = Pending(c) - 1 /\ Pending(c) >= 1 /\ n = childWrites[c][k] - 1
    BY <1>3 DEF n, WriteCallback
<1>5. ref[c] \in Nat /\ ref[c] >= 1 /\ mainWrites[c] \in Nat
    <2>1. /\ ref[c] \in Nat /\ Direct(c) \in Nat /\ ref[c] >= Direct(c)
          /\ mainWrites[c] \in Nat
        BY RefIsEnough DEF ChannelInv, TypeOK
    <2>2. Direct(c) >= Pending(c)
        BY <1>3, <2>1 DEF Direct
    <2> QED
        BY <1>3, <1>4, <2>1, <2>2
<1>6. target[c] = s /\ target[c] # NoSession
    BY NoSessionAssumption DEF WriteCallback, Serves
<1>7. /\ UNCHANGED <<mainVars, target, childCleared, clearIdle, forwards, ctrl, job>>
      /\ ref' = [ref EXCEPT ![c] = ref[c] - 1] /\ ref'[c] = ref[c] - 1
      /\ lstMainThreadOP' \subseteq lstMainThreadOP \cup {c}
      /\ hChildWorkTCP' \in [Channels -> ChildStates]
      /\ \A d \in Channels : d # c => hChildWorkTCP'[d] = hChildWorkTCP[d]
      /\ \/ hChildWorkTCP'[c] = hChildWorkTCP[c]
         \/ hChildWorkTCP[c] = "open" /\ hChildWorkTCP'[c] = "closing"
    BY DEF ChannelInv, TypeOK, WriteCallback, PushFree, ChildStates
<1>8. TypeOK'
    <2>1. SharedTypes'
        BY <1>5, <1>7 DEF ChannelInv, TypeOK, SharedTypes
    <2>2. ChildTypes'
        BY <1>3, <1>7 DEF ChannelInv, TypeOK, ChildTypes
    <2> QED
        BY <1>1, <2>1, <2>2, TypesKept, TypesAgain DEF WriteCallback
<1>9. ctrl' = ctrl /\ job' = job /\ \A d \in Channels : d # c => Untouched(d)
    BY <1>3, <1>7 DEF ChannelInv, TypeOK, mainVars, Untouched
<1>10. QuietStep(c)
    <2>1. /\ childWrites'[c]["echo"] \in Nat /\ childWrites[c]["echo"] \in Nat
          /\ childWrites'[c]["echo"] <= childWrites[c]["echo"]
        BY <1>3, <1>4 DEF ChannelInv, TypeOK, Kinds
    <2>2. ChannelOK(c)'
        BY <1>3, <1>4, <1>6, <1>7, <2>1
           DEF ChannelInv, mainVars, ChannelOK, PhaseOK, StageOK, ChildOK, Unattached
    <2>3. Quiet(c)
        BY <1>7 DEF mainVars, Quiet, Unattached, Awaited, InUse
    <2>4. ref'[c] + Direct(c) = ref[c] + Direct(c)'
        <3>1. hWorkTCP' = hWorkTCP /\ mainWrites' = mainWrites
            BY <1>7 DEF mainVars
        <3> QED
            BY <1>3, <1>4, <1>5, <1>7, <3>1 DEF Direct
    <2> QED
        BY <2>2, <2>3, <2>4 DEF QuietStep
<1> QED
    BY <1>8, <1>9, <1>10, OneQuiet

-----------------------------------------------------------------------------
(* The main thread sends a command to a worker *)

\* The worker is told to attach the channel; until now no worker knew of it.
LEMMA BindNextLoopKeeps ==
    ASSUME ChannelInv, NEW c \in Channels, BindNextLoop(c)
    PROVE  ChannelInv'
<1>1. /\ phase[c] = "bound" /\ hWorkTCP[c] = "closed"
      /\ phase' \in [Channels -> Phases] /\ phase'[c] \in {"sent", "orphan"}
      /\ \A d \in Channels : d # c => phase'[d] = phase[d]
      /\ UNCHANGED <<sessionVars, mapChannel, isDead, stage, uvHandleRef, hWorkTCP,
                     mainWrites, retryTimer, ref, lstMainThreadOP, forwards, childVars>>
    BY DEF ChannelInv, TypeOK, BindNextLoop, Phases
<1>2. PhaseOK(c) /\ StageOK(c) /\ ChildOK(c)
    BY DEF ChannelInv
<1>3. hChildWorkTCP[c] = "none" /\ ~isDead[c] /\ stage[c] = "none"
    BY <1>1, <1>2 DEF PhaseOK, StageOK, ChildOK
<1>4. MainTypes' /\ Session!TypeOK' /\ ChildTypes'
    BY <1>1, TypesKept DEF ChannelInv, TypeOK, MainTypes
<1>5. ASSUME NEW d \in Channels, TypeOK' PROVE QuietStep(d)
    <2>1. CASE d # c
        <3>1. Untouched(d)
            BY <1>1, <2>1 DEF childVars, Untouched
        <3> QED
            BY <1>5, <3>1, UntouchedKeeps
    <2>2. CASE d = c
        <3>1. ChannelOK(c)'
            BY <1>1, <1>2, <1>3 DEF childVars, ChannelOK, PhaseOK, StageOK, ChildOK,
               Unattached, Pending
        <3>2. Quiet(c)
            BY <1>1, <1>3 DEF childVars, Quiet, Unattached, Awaited, InUse
        <3>3. ref' = ref /\ Direct(c)' = Direct(c)
            BY <1>1 DEF childVars, Direct, Pending
        <3> QED
            BY <2>2, <3>1, <3>2, <3>3 DEF QuietStep
    <2> QED
        BY <2>1, <2>2
<1>6. CASE ctrl' = ctrl
    <2>1. TypeOK'
        BY <1>1, <1>4, <1>6, TypesKept, TypesAgain DEF ChannelInv, sharedVars
    <2> QED
        BY <1>1, <1>5, <1>6, <2>1, QuietKeeps DEF childVars
<1>7. CASE ctrl' # ctrl
    <2>1. PICK s \in Sessions :
              /\ ctrl' = [ctrl EXCEPT ![s] =
                              Append(ctrl[s], [cmd |-> "SP_ATTACH_CHANNEL", ch |-> c])]
              /\ phase' = [phase EXCEPT ![c] = "sent"]
        BY <1>7 DEF BindNextLoop, AliveSessions
    <2>2. PICK m \in Commands : m = [cmd |-> "SP_ATTACH_CHANNEL", ch |-> c]
        BY DEF Commands
    <2>3. m.cmd = "SP_ATTACH_CHANNEL" /\ m.ch = c
        BY <2>2
    <2>4. ctrl \in [Sessions -> Seq(Commands)] /\ ctrl[s] \in Seq(Commands)
        BY DEF ChannelInv, TypeOK
    <2>5. Append(ctrl[s], m) \in Seq(Commands)
        BY <2>4
    <2>6. /\ ctrl' \in [Sessions -> Seq(Commands)]
          /\ \A t \in Sessions : ctrl'[t] = IF t = s THEN Append(ctrl[s], m) ELSE ctrl[t]
        BY <2>1, <2>2, <2>4, <2>5
    <2>7. TypeOK'
        <3>1. SharedTypes'
            BY <1>1, <2>6 DEF ChannelInv, TypeOK, SharedTypes
        <3> QED
            BY <1>4, <3>1, TypesAgain
    <2>8. phase'[c] = "sent"
        BY <2>1 DEF ChannelInv, TypeOK
    <2>9. CommandOK(m)'
        BY <1>1, <1>3, <2>3, <2>8 DEF CommandOK, Unattached, childVars
    <2>10. ~CommandOK(m)
        BY <1>1, <2>3 DEF CommandOK, Unattached
    <2>11. ASSUME NEW t \in Sessions, NEW i \in 1..Len(ctrl[t]) PROVE ctrl[t][i] # m
        BY <2>10 DEF ChannelInv, CommandInv
    <2>12. ASSUME NEW t \in Sessions, job[t].at = "attach" PROVE job[t].ch # m.ch
        BY <1>1, <2>3, <2>12 DEF ChannelInv, JobInv, JobOK, Unattached
    <2>13. job' = job
        BY <1>1 DEF childVars
    <2> QED
        BY <1>5, <2>6, <2>7, <2>9, <2>11, <2>12, <2>13, AppendKeeps
<1> QED
    BY <1>6, <1>7

\* FreeChannelOpeate finds the channel on no worker's loop.
LEMMA OpeateContinueKeeps ==
    ASSUME ChannelInv, NEW c \in Channels, FreeChannelOpeate(c),
           hChildWorkTCP[c] = "none"
    PROVE  ChannelInv'
<1>1. /\ stage[c] = "opeate" /\ hWorkTCP[c] \in {"open", "closed"} /\ ref[c] = 0
      /\ stage' = [stage EXCEPT ![c] = "finally"]
      /\ IF hWorkTCP[c] = "open"
         THEN hWorkTCP' = [hWorkTCP EXCEPT ![c] = "closingFree"] /\ uvHandleRef' = uvHandleRef
         ELSE /\ uvHandleRef' = [uvHandleRef EXCEPT ![c] = uvHandleRef[c] - 1]
              /\ hWorkTCP' = hWorkTCP
      /\ UNCHANGED <<sessionVars, mapChannel, isDead, phase, mainWrites,
                     retryTimer, sharedVars, childVars>>
    BY DEF FreeChannelOpeate, FreeChannelContinue, OpeateDue, sharedVars
<1>2. PhaseOK(c) /\ StageOK(c) /\ ChildOK(c)
    BY DEF ChannelInv
<1>3. phase[c] # "none" /\ uvHandleRef[c] = 1 /\ uvHandleRef[c] - 1 = 0
    <2>1. phase[c] # "none"
        BY <1>1, <1>2 DEF PhaseOK
    <2>2. uvHandleRef[c] = 1
        BY <1>1, <1>2, <2>1 DEF StageOK
    <2> QED
        BY <2>1, <2>2
<1>4. MainTypes'
    BY <1>1, <1>3 DEF ChannelInv, TypeOK, MainTypes, Stages, MainStates
<1>5. TypeOK'
    BY <1>1, <1>4, TypesKept, TypesAgain DEF ChannelInv
<1>6. /\ ctrl' = ctrl /\ job' = job
      /\ \A d \in Channels : d # c => Untouched(d)
    BY <1>1 DEF ChannelInv, TypeOK, sharedVars, childVars, Untouched
<1>7. Direct(c) = 0 /\ childWrites[c]["echo"] = 0 /\ mainWrites[c] = 0
    BY <1>1, NoRefNoWrite
<1>8. QuietStep(c)
    <2>1. /\ stage'[c] = "finally"
          /\ \/ hWorkTCP'[c] = "closingFree" /\ uvHandleRef'[c] = 1
             \/ hWorkTCP'[c] = "closed" /\ uvHandleRef'[c] = 0
        BY <1>1, <1>3 DEF ChannelInv, TypeOK
    <2>2. ChannelOK(c)'
        BY <1>1, <1>2, <1>3, <1>7, <2>1 DEF sharedVars, childVars, ChannelOK, PhaseOK,
           StageOK, ChildOK, Unattached, Pending
    <2>3. Quiet(c)
        BY <1>1, <1>2, <2>1 DEF sharedVars, childVars, PhaseOK, StageOK, Quiet,
           Unattached, Awaited, InUse
    <2>4. ref' = ref /\ Direct(c)' = Direct(c)
        BY <1>1, <2>1 DEF sharedVars, childVars, Direct, Pending
    <2> QED
        BY <2>2, <2>3, <2>4 DEF QuietStep
<1> QED
    BY <1>5, <1>6, <1>8, OneQuiet

\* FreeChannelOpeate tells the worker to let go, if there is one to tell.
LEMMA OpeateDetachKeeps ==
    ASSUME ChannelInv, NEW c \in Channels, FreeChannelOpeate(c),
           hChildWorkTCP[c] # "none"
    PROVE  ChannelInv'
<1>1. PICK m \in Commands : m = [cmd |-> "SP_DEATCH_CHANNEL", ch |-> c]
    BY DEF Commands
<1>2. m.cmd = "SP_DEATCH_CHANNEL" /\ m.ch = c
    BY <1>1
<1>3. /\ stage[c] = "opeate" /\ ref[c] = 0
      /\ stage' = [stage EXCEPT ![c] = "waitChild"]
      /\ ctrl' = [s \in Sessions |-> IF s = target[c] /\ life[s] = "live"
                                    THEN Append(ctrl[s], m) ELSE ctrl[s]]
      /\ UNCHANGED <<sessionVars, mapChannel, isDead, uvHandleRef, phase, hWorkTCP,
                     mainWrites, retryTimer, ref, lstMainThreadOP, forwards, childVars>>
    BY <1>1 DEF FreeChannelOpeate, Detach, OpeateDue
<1>4. PhaseOK(c) /\ StageOK(c) /\ ChildOK(c)
    BY DEF ChannelInv
<1>5. MainTypes' /\ Session!TypeOK' /\ ChildTypes'
    BY <1>3, TypesKept DEF ChannelInv, TypeOK, MainTypes, Stages
<1>6. ctrl \in [Sessions -> Seq(Commands)]
      /\ \A s \in Sessions : ctrl[s] \in Seq(Commands) /\ Append(ctrl[s], m) \in Seq(Commands)
    BY DEF ChannelInv, TypeOK
<1>7. TypeOK'
    <2>1. SharedTypes'
        BY <1>3, <1>6 DEF ChannelInv, TypeOK, SharedTypes
    <2> QED
        BY <1>5, <2>1, TypesAgain
<1>8. stage'[c] = "waitChild" /\ \A d \in Channels : d # c => stage'[d] = stage[d]
    BY <1>3 DEF ChannelInv, TypeOK
<1>9. Direct(c) = 0 /\ childWrites[c]["echo"] = 0
    BY <1>3, NoRefNoWrite
<1>10. ASSUME NEW d \in Channels PROVE QuietStep(d)
    <2>1. CASE d # c
        <3>1. Untouched(d)
            BY <1>3, <1>8, <2>1 DEF childVars, Untouched
        <3> QED
            BY <1>7, <3>1, UntouchedKeeps
    <2>2. CASE d = c
        <3>1. ChannelOK(c)'
            BY <1>3, <1>4, <1>8, <1>9 DEF childVars, ChannelOK, PhaseOK, StageOK, ChildOK,
               Unattached, Pending
        <3>2. Quiet(c)
            BY <1>3, <1>8 DEF childVars, Quiet, Unattached, Awaited, InUse
        <3>3. ref' = ref /\ Direct(c)' = Direct(c)
            BY <1>3 DEF childVars, Direct, Pending
        <3> QED
            BY <2>2, <3>1, <3>2, <3>3 DEF QuietStep
    <2> QED
        BY <2>1, <2>2
<1>11. job' = job
    BY <1>3 DEF childVars
<1>12. CASE target[c] \in Sessions /\ life[target[c]] = "live"
    <2>1. PICK s \in Sessions : s = target[c]
        BY <1>12
    <2>2. \A t \in Sessions : ctrl'[t] = IF t = s THEN Append(ctrl[s], m) ELSE ctrl[t]
        BY <1>3, <1>12, <2>1
    <2>3. CommandOK(m)'
        BY <1>2, <1>3, <1>4, <1>8 DEF CommandOK, ChildOK, childVars
    <2>4. ~CommandOK(m)
        BY <1>2, <1>3 DEF CommandOK
    <2>5. ASSUME NEW t \in Sessions, NEW i \in 1..Len(ctrl[t]) PROVE ctrl[t][i] # m
        BY <2>4 DEF ChannelInv, CommandInv
    <2> QED
        BY <1>2, <1>7, <1>10, <1>11, <2>2, <2>3, <2>5, AppendKeeps
<1>13. CASE ~(target[c] \in Sessions /\ life[target[c]] = "live")
    <2>1. ctrl' = ctrl
        BY <1>3, <1>6, <1>13
    <2> QED
        BY <1>7, <1>10, <1>11, <2>1, QuietKeeps
<1> QED
    BY <1>12, <1>13

-----------------------------------------------------------------------------
(* The worker of a session: steps that begin or end its job *)

Pin(j, c) == IF j.ch = c THEN 1 ELSE 0

\* One job begins or ends: the holders of a channel are counted on.
LEMMA HoldersStep ==
    ASSUME ChannelInv, NEW s \in Sessions, NEW j \in Jobs,
           job' = [job EXCEPT ![s] = j], NEW c \in Channels
    PROVE  /\ IsFiniteSet(Holders(c))' /\ Cardinality(Holders(c))' \in Nat
           /\ Cardinality(Holders(c)) \in Nat
           /\ Cardinality(Holders(c))' + Pin(job[s], c) = Cardinality(Holders(c)) + Pin(j, c)
<1>1. job'[s] = j /\ \A t \in Sessions : t # s => job'[t] = job[t]
    BY DEF ChannelInv, TypeOK
<1>2. IsFiniteSet(Holders(c))
    BY DEF ChannelInv
<1>3. Cardinality(Holders(c)) \in Nat
    BY <1>2, FS_CardinalityType
<1>4. CASE j.ch = c /\ job[s].ch # c
    <2>1. Holders(c)' = Holders(c) \cup {s} /\ s \notin Holders(c)
        BY <1>1, <1>4 DEF Holders
    <2>2. /\ IsFiniteSet(Holders(c) \cup {s})
          /\ Cardinality(Holders(c) \cup {s}) = Cardinality(Holders(c)) + 1
        BY <1>2, <2>1, FS_AddElement
    <2> QED
        BY <1>3, <1>4, <2>1, <2>2 DEF Pin
<1>5. CASE j.ch # c /\ job[s].ch = c
    <2>1. Holders(c)' = Holders(c) \ {s} /\ s \in Holders(c)
        BY <1>1, <1>5 DEF Holders
    <2>2. Cardinality(Holders(c)) > 0
        BY <1>2, <2>1, SomeCounts
    <2>3. /\ IsFiniteSet(Holders(c) \ {s})
          /\ Cardinality(Holders(c) \ {s}) = Cardinality(Holders(c)) - 1
        BY <1>2, <2>1, FS_RemoveElement
    <2> QED
        BY <1>3, <1>5, <2>1, <2>2, <2>3 DEF Pin
<1>6. CASE j.ch = c <=> job[s].ch = c
    <2>1. Holders(c)' = Holders(c)
        BY <1>1, <1>6 DEF Holders
    <2> QED
        BY <1>2, <1>3, <1>6, <2>1 DEF Pin
<1> QED
    BY <1>4, <1>5, <1>6

\* The references a step gives and takes, with the worker's pin.
Counted(s, j, c) ==
    ref'[c] + Direct(c) + Pin(job[s], c) = ref[c] + Direct(c)' + Pin(j, c)

LEMMA CountedKeeps ==
    ASSUME ChannelInv, TypeOK', NEW s \in Sessions, NEW j \in Jobs,
           job' = [job EXCEPT ![s] = j],
           \A c \in Channels : Counted(s, j, c)
    PROVE  RefCountsHolders' /\ \A c \in Channels : IsFiniteSet(Holders(c))'
<1> SUFFICES ASSUME NEW c \in Channels
             PROVE  /\ ref'[c] = Direct(c)' + Cardinality(Holders(c))'
                    /\ IsFiniteSet(Holders(c))'
    BY DEF RefCountsHolders, Direct
<1>1. /\ IsFiniteSet(Holders(c))' /\ Cardinality(Holders(c))' \in Nat
      /\ Cardinality(Holders(c)) \in Nat
      /\ Cardinality(Holders(c))' + Pin(job[s], c) = Cardinality(Holders(c)) + Pin(j, c)
    BY HoldersStep
<1>2. ref[c] = Direct(c) + Cardinality(Holders(c))
    BY DEF ChannelInv, RefCountsHolders, Direct
<1>3. Direct(c) \in Nat
    BY DEF ChannelInv, TypeOK, Direct, Pending, Kinds
<1>4. Direct(c)' \in Nat /\ ref'[c] \in Nat
    BY DEF TypeOK, Direct, Pending, Kinds
<1>5. Pin(job[s], c) \in Nat /\ Pin(j, c) \in Nat
    BY DEF Pin
<1>6. ref'[c] + Direct(c) + Pin(job[s], c) = ref[c] + Direct(c)' + Pin(j, c)
    BY DEF Counted
<1> QED
    BY <1>1, <1>2, <1>3, <1>4, <1>5, <1>6

\* A packet of the daemon is begun or done with.
LEMMA FetchKeeps ==
    ASSUME ChannelInv, TypeOK', NEW s \in Sessions, NEW j \in Jobs,
           job' = [job EXCEPT ![s] = j], ctrl' = ctrl,
           \A c \in Channels : ChannelOK(c)' /\ Quiet(c) /\ Counted(s, j, c),
           j.at # "attach",
           JobOK(s)'
    PROVE  ChannelInv'
<1>1. RefCountsHolders' /\ \A c \in Channels : IsFiniteSet(Holders(c))'
    BY CountedKeeps
<1>2. job'[s] = j /\ \A t \in Sessions : t # s => job'[t] = job[t]
    BY DEF ChannelInv, TypeOK
<1>3. ASSUME NEW m \in Commands, CommandOK(m) PROVE CommandOK(m)'
    BY <1>3 DEF CommandOK, Quiet, Commands, Awaited
<1>4. CommandInv'
    BY <1>3 DEF ChannelInv, TypeOK, CommandInv
<1>5. ASSUME NEW t \in Sessions, t # s PROVE JobOK(t)'
    <2>1. JobOK(t) /\ job'[t] = job[t]
        BY <1>2, <1>5 DEF ChannelInv, JobInv
    <2>2. CASE job[t] = Idle
        BY <2>1, <2>2 DEF JobOK, Idle
    <2>3. CASE job[t] # Idle
        <3>1. job[t].ch \in Channels /\ ref[job[t].ch] > Direct(job[t].ch)
            BY <2>3, PinnedHasRef
        <3>2. Direct(job[t].ch) \in Nat
            BY <3>1, RefIsEnough
        <3> QED
            BY <2>1, <3>1, <3>2 DEF JobOK, Quiet, InUse
    <2> QED
        BY <2>2, <2>3
<1>6. JobInv'
    <2> SUFFICES ASSUME NEW t \in Sessions, job'[t].at = "attach", NEW u \in Sessions
                 PROVE  /\ job'[u] = job'[t] => u = t
                        /\ \A i \in 1..Len(ctrl[u]) :
                               ctrl[u][i] # [cmd |-> "SP_ATTACH_CHANNEL", ch |-> job'[t].ch]
        BY <1>5 DEF JobInv
    <2>1. t # s /\ job'[t] = job[t]
        BY <1>2
    <2>2. /\ job[u] = job[t] => u = t
          /\ \A i \in 1..Len(ctrl[u]) :
                 ctrl[u][i] # [cmd |-> "SP_ATTACH_CHANNEL", ch |-> job[t].ch]
        BY <2>1 DEF ChannelInv, JobInv
    <2> QED
        BY <1>2, <2>1, <2>2
<1> QED
    BY <1>1, <1>4, <1>6 DEF ChannelInv, ChannelOK

\* The channel a worker is busy with.
LEMMA JobChannel ==
    ASSUME ChannelInv, NEW s \in Sessions, job[s].at \in {"attach", "query", "alive"}
    PROVE  /\ job[s].ch \in Channels
           /\ \E c \in Channels : job[s] = [ch |-> c, at |-> job[s].at]
BY DEF ChannelInv, TypeOK, Jobs, Idle

\* A worker pins the channel a packet is for.
LEMMA FetchQueryKeeps ==
    ASSUME ChannelInv, NEW s \in Sessions, NEW c \in Channels, FetchQuery(s, c)
    PROVE  ChannelInv'
<1>1. PICK j \in Jobs : j = [ch |-> c, at |-> "query"]
    BY DEF Jobs
<1>2. j.ch = c /\ j.at = "query"
    BY <1>1
<1>3. /\ job[s] = Idle /\ target[c] = s
      /\ ref' = [ref EXCEPT ![c] = ref[c] + 1]
      /\ job' = [job EXCEPT ![s] = j]
      /\ UNCHANGED <<sessionVars, mainVars, lstMainThreadOP, ctrl, forwards,
                     target, hChildWorkTCP, childWrites, clearIdle, childCleared>>
    BY <1>1 DEF FetchQuery, Serves, WorkerIdle
<1>4. hChildWorkTCP[c] # "none"
    BY <1>3, NoSessionAssumption DEF ChannelInv, ChildOK
<1>5. TypeOK'
    <2>1. SharedTypes' /\ ChildTypes'
        BY <1>3 DEF ChannelInv, TypeOK, SharedTypes, ChildTypes
    <2> QED
        BY <1>3, <2>1, TypesKept, TypesAgain DEF ChannelInv
<1>6. ASSUME NEW d \in Channels PROVE ChannelOK(d)' /\ Quiet(d) /\ Counted(s, j, d)
    <2>1. ChannelOK(d)' /\ Quiet(d)
        BY <1>3 DEF ChannelInv, mainVars, ChannelOK, PhaseOK, StageOK, ChildOK, Unattached,
           Pending, Quiet, Awaited, InUse
    <2>2. Direct(d)' = Direct(d)
        BY <1>3 DEF mainVars, Direct, Pending
    <2>3. Pin(job[s], d) = 0
        BY <1>3, NoChannelAssumption DEF Pin, Idle
    <2>4. ref[d] \in Nat /\ Direct(d) \in Nat /\ ref \in [Channels -> Nat]
        BY RefIsEnough DEF ChannelInv, TypeOK
    <2>5. ref'[d] = ref[d] + Pin(j, d)
        <3>1. CASE d = c
            <4>1. ref'[d] = ref[d] + 1 /\ Pin(j, d) = 1
                BY <1>2, <1>3, <2>4, <3>1 DEF Pin
            <4> QED
                BY <4>1
        <3>2. CASE d # c
            <4>1. ref'[d] = ref[d] /\ Pin(j, d) = 0
                BY <1>2, <1>3, <2>4, <3>2 DEF Pin
            <4> QED
                BY <2>4, <4>1
        <3> QED
            BY <3>1, <3>2
    <2>6. Pin(j, d) \in Nat
        BY DEF Pin
    <2>7. ref'[d] + Direct(d) + Pin(job[s], d) = ref[d] + Direct(d)' + Pin(j, d)
        BY <2>2, <2>3, <2>4, <2>5, <2>6
    <2> QED
        BY <2>1, <2>7 DEF Counted
<1>7. JobOK(s)'
    <2>1. job'[s] = j
        BY <1>3 DEF ChannelInv, TypeOK
    <2> QED
        BY <1>2, <1>3, <1>4, <2>1 DEF JobOK
<1> QED
    BY <1>2, <1>3, <1>5, <1>6, <1>7, FetchKeeps

\* The packet is done with, and the pin is returned.
LEMMA UnpinKeeps ==
    ASSUME ChannelInv, NEW s \in Sessions,
           FetchDead(s) \/ FetchOther(s) \/ FetchChannelClose(s) \/ FetchForwardSuccess(s)
    PROVE  ChannelInv'
<1>1. PICK c \in Channels : c = job[s].ch
    <2>1. job[s].at \in {"attach", "query", "alive"}
        BY DEF FetchDead, FetchOther, FetchChannelClose, FetchForwardSuccess
    <2> QED
        BY <2>1, JobChannel
<1>2. PICK j \in Jobs : j = Idle
    BY DEF Jobs
<1>3. j.at = "idle" /\ j.ch = NoChannel
    BY <1>2 DEF Idle
<1>4. /\ job[s].at \in {"query", "alive"}
      /\ ref' = [ref EXCEPT ![c] = ref[c] - 1]
      /\ job' = [job EXCEPT ![s] = j]
      /\ lstMainThreadOP' \subseteq lstMainThreadOP \cup {c}
      /\ forwards' \subseteq forwards \cup {c}
      /\ UNCHANGED <<sessionVars, mainVars, ctrl, target, childWrites, clearIdle,
                     childCleared>>
    BY <1>1, <1>2 DEF FetchDead, FetchOther, FetchChannelClose, FetchForwardSuccess,
       Unpin, PushFree
<1>5. /\ hChildWorkTCP' \in [Channels -> ChildStates]
      /\ \A d \in Channels : d # c => hChildWorkTCP'[d] = hChildWorkTCP[d]
      /\ \/ hChildWorkTCP'[c] = hChildWorkTCP[c]
         \/ hChildWorkTCP[c] = "open" /\ hChildWorkTCP'[c] = "closing"
    <2>1. CASE hChildWorkTCP' = hChildWorkTCP
        BY <2>1 DEF ChannelInv, TypeOK
    <2>2. CASE FetchForwardSuccess(s)
        BY <1>1, <2>2 DEF ChannelInv, TypeOK, FetchForwardSuccess, ChildStates
    <2> QED
        BY <2>1, <2>2 DEF FetchDead, FetchOther, FetchChannelClose
<1>6. hChildWorkTCP[c] # "none"
    BY <1>1, <1>4 DEF ChannelInv, JobInv, JobOK
<1>7. ref[c] \in Nat /\ ref[c] >= 1
    <2>1. ref[c] \in Nat /\ Direct(c) \in Nat /\ ref[c] > Direct(c)
        BY <1>1, RefIsEnough
    <2> QED
        BY <2>1
<1>8. TypeOK'
    <2>1. SharedTypes'
        BY <1>4, <1>7 DEF ChannelInv, TypeOK, SharedTypes
    <2>2. ChildTypes'
        BY <1>4, <1>5 DEF ChannelInv, TypeOK, ChildTypes
    <2> QED
        BY <1>4, <2>1, <2>2, TypesKept, TypesAgain DEF ChannelInv
<1>9. ASSUME NEW d \in Channels PROVE ChannelOK(d)' /\ Quiet(d) /\ Counted(s, j, d)
    <2>1. ChannelOK(d)'
        BY <1>4, <1>5, <1>6 DEF ChannelInv, mainVars, ChannelOK, PhaseOK, StageOK, ChildOK,
           Unattached, Pending
    <2>2. Quiet(d)
        BY <1>4, <1>5 DEF mainVars, Quiet, Unattached, Awaited, InUse
    <2>3. Direct(d)' = Direct(d)
        BY <1>4 DEF mainVars, Direct, Pending
    <2>4. Pin(j, d) = 0
        BY <1>3, NoChannelAssumption DEF Pin
    <2>5. ref[d] \in Nat /\ Direct(d) \in Nat /\ ref \in [Channels -> Nat]
        BY RefIsEnough DEF ChannelInv, TypeOK
    <2>6. ref'[d] + Pin(job[s], d) = ref[d]
        BY <1>1, <1>4, <1>7, <2>5 DEF Pin
    <2>7. ref'[d] \in Nat /\ Pin(job[s], d) \in Nat
        BY <1>8 DEF TypeOK, Pin
    <2> QED
        BY <2>1, <2>2, <2>3, <2>4, <2>5, <2>6, <2>7 DEF Counted
<1>10. JobOK(s)'
    <2>1. job'[s] = j
        BY <1>4 DEF ChannelInv, TypeOK
    <2> QED
        BY <1>3, <2>1 DEF JobOK
<1> QED
    BY <1>3, <1>4, <1>8, <1>9, <1>10, FetchKeeps

\* The channel is still alive when the worker looks: its teardown waits for ref.
LEMMA FetchAliveKeeps ==
    ASSUME ChannelInv, NEW s \in Sessions, FetchAlive(s)
    PROVE  ChannelInv'
<1>1. PICK c \in Channels : job[s] = [ch |-> c, at |-> job[s].at]
    BY JobChannel DEF FetchAlive
<1>2. c = job[s].ch
    BY <1>1
<1>3. PICK j \in Jobs : j = [ch |-> c, at |-> "alive"]
    BY DEF Jobs
<1>4. j.ch = c /\ j.at = "alive"
    BY <1>3
<1>5. /\ job[s].at = "query" /\ ~isDead[c]
      /\ job' = [job EXCEPT ![s] = j]
      /\ UNCHANGED <<sessionVars, mainVars, sharedVars, target, hChildWorkTCP,
                     childWrites, clearIdle, childCleared>>
    BY <1>2, <1>3 DEF FetchAlive
<1>6. hChildWorkTCP[c] # "none" /\ stage[c] = "none"
    BY <1>2, <1>5 DEF ChannelInv, JobInv, JobOK, StageOK
<1>7. TypeOK'
    <2>1. ChildTypes'
        BY <1>5 DEF ChannelInv, TypeOK, ChildTypes
    <2> QED
        BY <1>5, <2>1, TypesKept, TypesAgain DEF ChannelInv
<1>8. ASSUME NEW d \in Channels PROVE ChannelOK(d)' /\ Quiet(d) /\ Counted(s, j, d)
    <2>1. ChannelOK(d)' /\ Quiet(d)
        BY <1>5 DEF ChannelInv, mainVars, sharedVars, ChannelOK, PhaseOK, StageOK, ChildOK,
           Unattached, Pending, Quiet, Awaited, InUse
    <2>2. Direct(d)' = Direct(d) /\ ref' = ref
        BY <1>5 DEF mainVars, sharedVars, Direct, Pending
    <2>3. Pin(job[s], d) = Pin(j, d)
        BY <1>2, <1>4 DEF Pin
    <2> QED
        BY <2>1, <2>2, <2>3 DEF Counted
<1>9. JobOK(s)'
    <2>1. job'[s] = j
        BY <1>5 DEF ChannelInv, TypeOK
    <2> QED
        BY <1>4, <1>5, <1>6, <2>1 DEF JobOK, mainVars
<1>10. ctrl' = ctrl
    BY <1>5 DEF sharedVars
<1> QED
    BY <1>4, <1>5, <1>7, <1>8, <1>9, <1>10, FetchKeeps

\* The reference of the write takes the place of the pin.
LEMMA FetchEchoKeeps ==
    ASSUME ChannelInv, NEW s \in Sessions, FetchEcho(s)
    PROVE  ChannelInv'
<1>1. PICK c \in Channels : job[s] = [ch |-> c, at |-> job[s].at]
    BY JobChannel DEF FetchEcho
<1>2. c = job[s].ch
    BY <1>1
<1>3. PICK j \in Jobs : j = Idle
    BY DEF Jobs
<1>4. j.at = "idle" /\ j.ch = NoChannel
    BY <1>3 DEF Idle
<1>5. PICK k \in Kinds : k = "echo"
    BY DEF Kinds
<1> DEFINE n == childWrites[c][k] + 1
<1>6. TypeOK /\ n \in 0..MaxWrites
    BY <1>2, <1>5, MaxWritesAssumption DEF ChannelInv, TypeOK, FetchEcho
<1>7. /\ job[s].at = "alive" /\ hChildWorkTCP[c] = "open"
      /\ childWrites' = [childWrites EXCEPT ![c] = [childWrites[c] EXCEPT ![k] = n]]
      /\ job' = [job EXCEPT ![s] = j]
      /\ UNCHANGED <<sessionVars, mainVars, sharedVars, target, hChildWorkTCP,
                     clearIdle, childCleared>>
    BY <1>2, <1>3, <1>5 DEF FetchEcho
<1> HIDE DEF n
<1>8. /\ childWrites' \in [Channels -> [Kinds -> 0..MaxWrites]]
      /\ \A d \in Channels : d # c => childWrites'[d] = childWrites[d]
      /\ childWrites'[c][k] = n
      /\ \A l \in Kinds : l # k => childWrites'[c][l] = childWrites[c][l]
      /\ Pending(c) \in Nat /\ Pending(c)' \in Nat /\ childWrites[c][k] \in Nat
      /\ Pending(c)' = Pending(c) + n - childWrites[c][k]
      /\ Pending(c) >= childWrites[c][k]
    BY <1>6, <1>7, ChildWritesFacts
<1>9. Pending(c)' = Pending(c) + 1 /\ Pending(c) \in Nat
    <2>1. childWrites[c][k] \in Nat
        BY <1>6 DEF TypeOK
    <2> QED
        BY <1>8, <2>1 DEF n
<1>10. stage[c] \in {"none", "opeate"}
    BY <1>2, <1>7 DEF ChannelInv, JobInv, JobOK
<1>11. TypeOK'
    <2>1. ChildTypes'
        BY <1>7, <1>8 DEF ChannelInv, TypeOK, ChildTypes
    <2> QED
        BY <1>7, <2>1, TypesKept, TypesAgain DEF ChannelInv
<1>12. ASSUME NEW d \in Channels PROVE ChannelOK(d)' /\ Quiet(d) /\ Counted(s, j, d)
    <2>1. CASE d # c
        <3>1. ChannelOK(d)' /\ Quiet(d)
            BY <1>7, <1>8, <2>1 DEF ChannelInv, mainVars, sharedVars, ChannelOK, PhaseOK,
               StageOK, ChildOK, Unattached, Pending, Quiet, Awaited, InUse
        <3>2. Direct(d)' = Direct(d) /\ ref' = ref
            BY <1>7, <1>8, <2>1 DEF mainVars, sharedVars, Direct, Pending
        <3>3. Pin(job[s], d) = 0 /\ Pin(j, d) = 0
            BY <1>2, <1>4, <2>1, NoChannelAssumption DEF Pin
        <3> QED
            BY <3>1, <3>2, <3>3 DEF Counted
    <2>2. CASE d = c
        <3>1. ChannelOK(c)'
            BY <1>7, <1>10 DEF ChannelInv, mainVars, sharedVars, ChannelOK, PhaseOK,
               StageOK, ChildOK, Unattached
        <3>2. Quiet(c)
            BY <1>7 DEF mainVars, Quiet, Unattached, Awaited, InUse
        <3>3. Direct(c)' = Direct(c) + 1 /\ ref' = ref
            <4>1. mainWrites[c] \in Nat /\ hWorkTCP' = hWorkTCP /\ mainWrites' = mainWrites
                  /\ ref' = ref
                BY <1>7 DEF ChannelInv, TypeOK, mainVars, sharedVars
            <4> QED
                BY <1>9, <4>1 DEF Direct
        <3>4. Pin(job[s], c) = 1 /\ Pin(j, c) = 0
            BY <1>2, <1>4, NoChannelAssumption DEF Pin
        <3>5. ref[c] \in Nat /\ Direct(c) \in Nat
            BY RefIsEnough
        <3>6. ref'[c] + Direct(c) + Pin(job[s], c) = ref[c] + Direct(c)' + Pin(j, c)
            BY <3>3, <3>4, <3>5
        <3> QED
            BY <2>2, <3>1, <3>2, <3>6 DEF Counted
    <2> QED
        BY <2>1, <2>2
<1>13. JobOK(s)'
    <2>1. job'[s] = j
        BY <1>7 DEF ChannelInv, TypeOK
    <2> QED
        BY <1>4, <2>1 DEF JobOK
<1>14. ctrl' = ctrl
    BY <1>7 DEF sharedVars
<1> QED
    BY <1>4, <1>7, <1>11, <1>12, <1>13, <1>14, FetchKeeps

-----------------------------------------------------------------------------
(* The worker of a session: the commands of the main thread *)

\* The command that is read is gone, and only its meaning may have changed.
LEMMA TailKeeps ==
    ASSUME ChannelInv, NEW s \in Sessions, ctrl[s] # <<>>,
           ctrl' = [ctrl EXCEPT ![s] = Tail(ctrl[s])],
           \A m \in Commands : CommandOK(m) /\ m # Head(ctrl[s]) => CommandOK(m)'
    PROVE  /\ ctrl' \in [Sessions -> Seq(Commands)]
           /\ CommandInv'
           /\ \A t \in Sessions : \A i \in 1..Len(ctrl'[t]) :
                  /\ ctrl'[t][i] # Head(ctrl[s])
                  /\ \E k \in 1..Len(ctrl[t]) : ctrl'[t][i] = ctrl[t][k]
<1> DEFINE n(t) == IF t = s THEN 1 ELSE 0
<1>1. ctrl \in [Sessions -> Seq(Commands)]
    BY DEF ChannelInv, TypeOK
<1>2. /\ ctrl[s] \in Seq(Commands) /\ Tail(ctrl[s]) \in Seq(Commands)
      /\ Len(ctrl[s]) >= 1 /\ Len(Tail(ctrl[s])) = Len(ctrl[s]) - 1
      /\ Head(ctrl[s]) = ctrl[s][1]
      /\ \A i \in 1..Len(Tail(ctrl[s])) : Tail(ctrl[s])[i] = ctrl[s][i + 1]
    BY <1>1
<1>3. /\ ctrl' \in [Sessions -> Seq(Commands)]
      /\ ctrl'[s] = Tail(ctrl[s]) /\ \A t \in Sessions : t # s => ctrl'[t] = ctrl[t]
    BY <1>1, <1>2
<1>4. ASSUME NEW t \in Sessions, NEW i \in 1..Len(ctrl'[t])
      PROVE  /\ i + n(t) \in 1..Len(ctrl[t]) /\ ctrl'[t][i] = ctrl[t][i + n(t)]
             /\ t = s => i + n(t) > 1
             /\ ctrl[t][i + n(t)] \in Commands
    <2>1. CASE t = s
        BY <1>2, <1>3, <2>1
    <2>2. CASE t # s
        BY <1>1, <1>3, <2>2
    <2> QED
        BY <2>1, <2>2
<1> HIDE DEF n
<1>5. ASSUME NEW t \in Sessions, NEW i \in 1..Len(ctrl'[t])
      PROVE  ctrl'[t][i] # Head(ctrl[s]) /\ \E k \in 1..Len(ctrl[t]) : ctrl'[t][i] = ctrl[t][k]
    <2>1. 1 \in 1..Len(ctrl[s])
        BY <1>2
    <2>2. \A k \in 1..Len(ctrl[t]) : ctrl[t][k] = ctrl[s][1] => t = s /\ k = 1
        BY <2>1 DEF ChannelInv, CommandInv
    <2> QED
        BY <1>2, <1>4, <2>2
<1>6. ASSUME NEW t \in Sessions, NEW i \in 1..Len(ctrl'[t]) PROVE CommandOK(ctrl[t][i])'
    <2>1. PICK m \in Commands : m = ctrl'[t][i]
        BY <1>4
    <2>2. CommandOK(m)
        BY <1>4, <2>1 DEF ChannelInv, CommandInv
    <2>3. CommandOK(m)'
        BY <1>5, <2>1, <2>2
    <2> QED
        BY <2>1, <2>3 DEF CommandOK
<1>7. CommandInv'
    <2> SUFFICES ASSUME NEW t \in Sessions, NEW i \in 1..Len(ctrl'[t])
                 PROVE  /\ CommandOK(ctrl[t][i])'
                        /\ \A u \in Sessions : \A k \in 1..Len(ctrl'[u]) :
                               ctrl'[t][i] = ctrl'[u][k] => t = u /\ i = k
        BY DEF CommandInv
    <2>1. CommandOK(ctrl[t][i])'
        BY <1>6
    <2>2. ASSUME NEW u \in Sessions, NEW k \in 1..Len(ctrl'[u]), ctrl'[t][i] = ctrl'[u][k]
          PROVE  t = u /\ i = k
        <3>1. /\ i + n(t) \in 1..Len(ctrl[t]) /\ k + n(u) \in 1..Len(ctrl[u])
              /\ ctrl[t][i + n(t)] = ctrl[u][k + n(u)]
            BY <1>4, <2>2
        <3>2. t = u /\ i + n(t) = k + n(u)
            BY <3>1 DEF ChannelInv, CommandInv
        <3> QED
            BY <3>2 DEF n
    <2> QED
        BY <2>1, <2>2
<1> QED
    BY <1>3, <1>5, <1>7

\* The command a worker reads was sent, and means what it meant.
LEMMA HeadFacts ==
    ASSUME ChannelInv, NEW s \in Sessions, ctrl[s] # <<>>
    PROVE  /\ Head(ctrl[s]) \in Commands /\ CommandOK(Head(ctrl[s]))
           /\ 1 \in 1..Len(ctrl[s]) /\ Head(ctrl[s]) = ctrl[s][1]
<1>1. ctrl[s] \in Seq(Commands)
    BY DEF ChannelInv, TypeOK
<1>2. 1 \in 1..Len(ctrl[s]) /\ Head(ctrl[s]) = ctrl[s][1] /\ ctrl[s][1] \in Commands
    BY <1>1
<1> QED
    BY <1>2 DEF ChannelInv, CommandInv

\* The channel is pinned, as the only one to be attached by this command.
LEMMA AttachQueryKeeps ==
    ASSUME ChannelInv, NEW s \in Sessions, AttachQuery(s)
    PROVE  ChannelInv'
<1>1. job[s] = Idle /\ ctrl[s] # <<>> /\ Head(ctrl[s]).cmd = "SP_ATTACH_CHANNEL"
    BY DEF AttachQuery, NextCommand, WorkerIdle
<1>2. /\ Head(ctrl[s]) \in Commands /\ CommandOK(Head(ctrl[s]))
      /\ 1 \in 1..Len(ctrl[s]) /\ Head(ctrl[s]) = ctrl[s][1]
    BY <1>1, HeadFacts
<1>3. PICK c \in Channels : Head(ctrl[s]) = [cmd |-> "SP_ATTACH_CHANNEL", ch |-> c]
    BY <1>1, <1>2 DEF Commands
<1>4. Head(ctrl[s]).ch = c
    BY <1>3
<1>5. Unattached(c)
    BY <1>1, <1>2, <1>4 DEF CommandOK
<1>6. c \in mapChannel
    BY <1>5 DEF ChannelInv, PhaseOK, StageOK, Unattached
<1>7. PICK j \in Jobs : j = [ch |-> c, at |-> "attach"]
    BY DEF Jobs
<1>8. j.ch = c /\ j.at = "attach"
    BY <1>7
<1>9. /\ ref' = [ref EXCEPT ![c] = ref[c] + 1]
      /\ job' = [job EXCEPT ![s] = j]
      /\ ctrl' = [ctrl EXCEPT ![s] = Tail(ctrl[s])]
      /\ UNCHANGED <<sessionVars, mainVars, lstMainThreadOP, forwards, target,
                     hChildWorkTCP, childWrites, clearIdle, childCleared>>
    BY <1>4, <1>6, <1>7 DEF AttachQuery, Took
<1>10. \A m : CommandOK(m)' = CommandOK(m)
    BY <1>9 DEF CommandOK, Unattached, mainVars
<1>11. /\ ctrl' \in [Sessions -> Seq(Commands)]
       /\ CommandInv'
       /\ \A t \in Sessions : \A i \in 1..Len(ctrl'[t]) :
              /\ ctrl'[t][i] # Head(ctrl[s])
              /\ \E k \in 1..Len(ctrl[t]) : ctrl'[t][i] = ctrl[t][k]
    BY <1>1, <1>9, <1>10, TailKeeps
<1>12. TypeOK'
    <2>1. SharedTypes' /\ ChildTypes'
        BY <1>9, <1>11 DEF ChannelInv, TypeOK, SharedTypes, ChildTypes
    <2> QED
        BY <1>9, <2>1, TypesKept, TypesAgain DEF ChannelInv
<1>13. ASSUME NEW d \in Channels PROVE ChannelOK(d)' /\ Counted(s, j, d)
    <2>1. ChannelOK(d)'
        BY <1>9 DEF ChannelInv, mainVars, ChannelOK, PhaseOK, StageOK, ChildOK, Unattached,
           Pending
    <2>2. Direct(d)' = Direct(d)
        BY <1>9 DEF mainVars, Direct, Pending
    <2>3. Pin(job[s], d) = 0
        BY <1>1, NoChannelAssumption DEF Pin, Idle
    <2>4. ref[d] \in Nat /\ Direct(d) \in Nat /\ ref \in [Channels -> Nat]
        BY RefIsEnough DEF ChannelInv, TypeOK
    <2>5. ref'[d] = ref[d] + Pin(j, d)
        <3>1. CASE d = c
            <4>1. ref'[d] = ref[d] + 1 /\ Pin(j, d) = 1
                BY <1>8, <1>9, <2>4, <3>1 DEF Pin
            <4> QED
                BY <4>1
        <3>2. CASE d # c
            <4>1. ref'[d] = ref[d] /\ Pin(j, d) = 0
                BY <1>8, <1>9, <2>4, <3>2 DEF Pin
            <4> QED
                BY <2>4, <4>1
        <3> QED
            BY <3>1, <3>2
    <2>6. Pin(j, d) \in Nat
        BY DEF Pin
    <2>7. ref'[d] + Direct(d) + Pin(job[s], d) = ref[d] + Direct(d)' + Pin(j, d)
        BY <2>2, <2>3, <2>4, <2>5, <2>6
    <2> QED
        BY <2>1, <2>7 DEF Counted
<1>14. RefCountsHolders' /\ \A d \in Channels : IsFiniteSet(Holders(d))'
    BY <1>9, <1>12, <1>13, CountedKeeps
<1>15. job'[s] = j /\ \A t \in Sessions : t # s => job'[t] = job[t]
    BY <1>9 DEF ChannelInv, TypeOK
<1>16. JobInv'
    <2>1. ASSUME NEW t \in Sessions, t # s, job[t].at = "attach" PROVE job[t].ch # c
        <3>1. \A i \in 1..Len(ctrl[s]) :
                  ctrl[s][i] # [cmd |-> "SP_ATTACH_CHANNEL", ch |-> job[t].ch]
            BY <2>1 DEF ChannelInv, JobInv
        <3> QED
            BY <1>2, <1>3, <3>1
    <2>2. ASSUME NEW t \in Sessions PROVE JobOK(t)'
        <3>1. CASE t = s
            BY <1>5, <1>8, <1>9, <1>15, <3>1 DEF JobOK, Unattached, mainVars
        <3>2. CASE t # s
            BY <1>9, <1>15, <3>2 DEF ChannelInv, JobInv, JobOK, Unattached, mainVars
        <3> QED
            BY <3>1, <3>2
    <2>3. ASSUME NEW t \in Sessions, job'[t].at = "attach", NEW u \in Sessions,
                 job'[u] = job'[t]
          PROVE  u = t
        <3>1. CASE t = s \/ u = s
            BY <1>8, <1>15, <2>1, <2>3, <3>1
        <3>2. CASE t # s /\ u # s
            BY <1>15, <2>3, <3>2 DEF ChannelInv, JobInv
        <3> QED
            BY <3>1, <3>2
    <2>4. ASSUME NEW t \in Sessions, job'[t].at = "attach", NEW u \in Sessions,
                 NEW i \in 1..Len(ctrl'[u])
          PROVE  ctrl'[u][i] # [cmd |-> "SP_ATTACH_CHANNEL", ch |-> job'[t].ch]
        <3>1. CASE t = s
            BY <1>3, <1>8, <1>11, <1>15, <3>1
        <3>2. CASE t # s
            <4>1. PICK k \in 1..Len(ctrl[u]) : ctrl'[u][i] = ctrl[u][k]
                BY <1>11
            <4>2. ctrl[u][k] # [cmd |-> "SP_ATTACH_CHANNEL", ch |-> job[t].ch]
                BY <1>15, <2>4, <3>2 DEF ChannelInv, JobInv
            <4> QED
                BY <1>15, <3>2, <4>1, <4>2
        <3> QED
            BY <3>1, <3>2
    <2> QED
        BY <2>2, <2>3, <2>4 DEF JobInv
<1> QED
    BY <1>11, <1>12, <1>13, <1>14, <1>16 DEF ChannelInv, ChannelOK

\* The channel gets its handle, and the worker's callback ends.
LEMMA AttachOpenKeeps ==
    ASSUME ChannelInv, NEW s \in Sessions, NEW opened \in BOOLEAN, AttachOpen(s, opened)
    PROVE  ChannelInv'
<1>1. PICK c \in Channels : job[s] = [ch |-> c, at |-> job[s].at]
    BY JobChannel DEF AttachOpen
<1>2. c = job[s].ch /\ job[s].at = "attach" /\ job[s] = [ch |-> c, at |-> "attach"]
    BY <1>1 DEF AttachOpen
<1>3. PICK j \in Jobs : j = Idle
    BY DEF Jobs
<1>4. j.at = "idle" /\ j.ch = NoChannel
    BY <1>3 DEF Idle
<1>5. /\ target' = [target EXCEPT ![c] = s]
      /\ hChildWorkTCP' = [hChildWorkTCP EXCEPT ![c] = IF opened THEN "open" ELSE "closing"]
      /\ ref' = [ref EXCEPT ![c] = ref[c] - 1]
      /\ job' = [job EXCEPT ![s] = j]
      /\ UNCHANGED <<sessionVars, mainVars, lstMainThreadOP, ctrl, forwards, childWrites,
                     clearIdle, childCleared>>
    BY <1>2, <1>3 DEF AttachOpen
<1>6. Unattached(c)
    BY <1>2 DEF ChannelInv, JobInv, JobOK
<1>7. ref[c] \in Nat /\ ref[c] >= 1
    <2>1. ref[c] \in Nat /\ Direct(c) \in Nat /\ ref[c] > Direct(c)
        BY <1>2, RefIsEnough
    <2> QED
        BY <2>1
<1>8. TypeOK'
    <2>1. SharedTypes'
        BY <1>5, <1>7 DEF ChannelInv, TypeOK, SharedTypes
    <2>2. ChildTypes'
        BY <1>5 DEF ChannelInv, TypeOK, ChildTypes, ChildStates
    <2> QED
        BY <1>5, <2>1, <2>2, TypesKept, TypesAgain DEF ChannelInv
<1>9. /\ hChildWorkTCP'[c] \in {"open", "closing"} /\ target'[c] = s
      /\ \A d \in Channels : d # c =>
             hChildWorkTCP'[d] = hChildWorkTCP[d] /\ target'[d] = target[d]
    BY <1>5 DEF ChannelInv, TypeOK
<1>10. ASSUME NEW d \in Channels PROVE ChannelOK(d)' /\ Counted(s, j, d)
    <2>1. ChannelOK(d)'
        <3>1. CASE d = c
            BY <1>5, <1>6, <1>9, <3>1, NoSessionAssumption DEF ChannelInv, mainVars,
               ChannelOK, PhaseOK, StageOK, ChildOK, Unattached
        <3>2. CASE d # c
            BY <1>5, <1>9, <3>2 DEF ChannelInv, mainVars, ChannelOK, PhaseOK, StageOK,
               ChildOK, Unattached, Pending
        <3> QED
            BY <3>1, <3>2
    <2>2. Direct(d)' = Direct(d)
        BY <1>5 DEF mainVars, Direct, Pending
    <2>3. Pin(j, d) = 0
        BY <1>4, NoChannelAssumption DEF Pin
    <2>4. ref[d] \in Nat /\ Direct(d) \in Nat /\ ref \in [Channels -> Nat]
        BY RefIsEnough DEF ChannelInv, TypeOK
    <2>5. ref'[d] + Pin(job[s], d) = ref[d]
        BY <1>2, <1>5, <1>7, <2>4 DEF Pin
    <2>6. ref'[d] \in Nat /\ Pin(job[s], d) \in Nat
        BY <1>8 DEF TypeOK, Pin
    <2> QED
        BY <2>1, <2>2, <2>3, <2>4, <2>5, <2>6 DEF Counted
<1>11. RefCountsHolders' /\ \A d \in Channels : IsFiniteSet(Holders(d))'
    BY <1>5, <1>8, <1>10, CountedKeeps
<1>12. job'[s] = j /\ \A t \in Sessions : t # s => job'[t] = job[t]
    BY <1>5 DEF ChannelInv, TypeOK
<1>13. ASSUME NEW m \in Commands, CommandOK(m),
              m # [cmd |-> "SP_ATTACH_CHANNEL", ch |-> c]
       PROVE  CommandOK(m)'
    <2>1. m.cmd = "SP_ATTACH_CHANNEL" => m.ch # c
        BY <1>13 DEF Commands
    <2>2. m.ch \in Channels
        BY DEF Commands
    <2>3. CASE m.ch = c
        BY <1>5, <1>9, <1>13, <2>1, <2>3 DEF CommandOK, mainVars
    <2>4. CASE m.ch # c
        BY <1>5, <1>9, <1>13, <2>2, <2>4 DEF CommandOK, Unattached, mainVars
    <2> QED
        BY <2>3, <2>4
<1>14. CommandInv'
    <2>1. ASSUME NEW t \in Sessions, NEW i \in 1..Len(ctrl[t]) PROVE CommandOK(ctrl[t][i])'
        <3>1. PICK m \in Commands : m = ctrl[t][i]
            BY DEF ChannelInv, TypeOK
        <3>2. m # [cmd |-> "SP_ATTACH_CHANNEL", ch |-> c]
            BY <1>2, <3>1 DEF ChannelInv, JobInv
        <3>3. CommandOK(m)
            BY <3>1 DEF ChannelInv, CommandInv
        <3>4. CommandOK(m)'
            BY <1>13, <3>2, <3>3
        <3> QED
            BY <1>5, <3>1, <3>4 DEF CommandOK
    <2> QED
        BY <1>5, <2>1 DEF ChannelInv, CommandInv
<1>15. ASSUME NEW t \in Sessions PROVE JobOK(t)'
    <2>1. CASE t = s
        BY <1>4, <1>12, <2>1 DEF JobOK
    <2>2. CASE t # s
        <3>1. job'[t] = job[t] /\ JobOK(t)
            BY <1>12, <2>2 DEF ChannelInv, JobInv
        <3>2. CASE job[t].at = "attach"
            <4>1. job[t].ch \in Channels
                BY <3>2, JobChannel
            <4>2. PICK d \in Channels : job[t] = [ch |-> d, at |-> "attach"]
                BY <3>2, JobChannel
            <4>3. job[t] # job[s]
                BY <1>2, <2>2 DEF ChannelInv, JobInv
            <4>4. job[t].ch # c
                BY <1>2, <4>2, <4>3
            <4> QED
                BY <1>5, <1>9, <3>1, <3>2, <4>1, <4>4 DEF JobOK, Unattached, mainVars
        <3>3. CASE job[t].at \in {"query", "alive"}
            <4>1. job[t].ch \in Channels
                BY <3>3, JobChannel
            <4> QED
                BY <1>5, <1>9, <3>1, <3>3, <4>1 DEF JobOK, mainVars
        <3>4. CASE job[t].at \notin {"attach", "query", "alive"}
            BY <3>1, <3>4 DEF JobOK
        <3> QED
            BY <3>2, <3>3, <3>4
    <2> QED
        BY <2>1, <2>2
<1>16. JobInv'
    <2> SUFFICES ASSUME NEW t \in Sessions, job'[t].at = "attach", NEW u \in Sessions
                 PROVE  /\ job'[u] = job'[t] => u = t
                        /\ \A i \in 1..Len(ctrl[u]) :
                               ctrl[u][i] # [cmd |-> "SP_ATTACH_CHANNEL", ch |-> job'[t].ch]
        <3>1. ctrl' = ctrl
            BY <1>5
        <3> QED
            BY <1>15, <3>1 DEF JobInv
    <2>1. t # s /\ job'[t] = job[t]
        BY <1>4, <1>12
    <2>2. /\ job[u] = job[t] => u = t
          /\ \A i \in 1..Len(ctrl[u]) :
                 ctrl[u][i] # [cmd |-> "SP_ATTACH_CHANNEL", ch |-> job[t].ch]
        BY <2>1 DEF ChannelInv, JobInv
    <2> QED
        BY <1>4, <1>12, <2>1, <2>2
<1> QED
    BY <1>8, <1>10, <1>11, <1>14, <1>16 DEF ChannelInv, ChannelOK

\* The worker lets the channel go: from now on its own callback is what the main
\* thread waits for.
LEMMA DeatchChannelKeeps ==
    ASSUME ChannelInv, NEW s \in Sessions, DeatchChannel(s)
    PROVE  ChannelInv'
<1>1. ctrl[s] # <<>> /\ Head(ctrl[s]).cmd = "SP_DEATCH_CHANNEL"
    BY DEF DeatchChannel, NextCommand
<1>2. Head(ctrl[s]) \in Commands /\ CommandOK(Head(ctrl[s]))
    BY <1>1, HeadFacts
<1>3. PICK c \in Channels : Head(ctrl[s]) = [cmd |-> "SP_DEATCH_CHANNEL", ch |-> c]
    BY <1>1, <1>2 DEF Commands
<1>4. Head(ctrl[s]).ch = c
    BY <1>3
<1>5. /\ stage[c] = "waitChild" /\ ~childCleared[c]
      /\ c \notin clearIdle /\ hChildWorkTCP[c] # "clearing"
    BY <1>1, <1>2, <1>4 DEF CommandOK
<1>6. /\ ctrl' = [ctrl EXCEPT ![s] = Tail(ctrl[s])]
      /\ UNCHANGED <<sessionVars, mainVars, ref, lstMainThreadOP, forwards, target,
                     childWrites, childCleared, job>>
      /\ \/ UNCHANGED <<hChildWorkTCP, clearIdle>>
         \/ /\ hChildWorkTCP[c] = "open" /\ clearIdle' = clearIdle
            /\ hChildWorkTCP' = [hChildWorkTCP EXCEPT ![c] = "clearing"]
         \/ /\ hChildWorkTCP[c] # "open" /\ clearIdle' = clearIdle \cup {c}
            /\ hChildWorkTCP' = hChildWorkTCP
    BY <1>4 DEF DeatchChannel, Took
<1>7. ASSUME NEW m \in Commands, CommandOK(m), m # Head(ctrl[s]) PROVE CommandOK(m)'
    <2>1. m.ch \in Channels /\ (m.cmd = "SP_DEATCH_CHANNEL" => m.ch # c)
        BY <1>3, <1>7 DEF Commands
    <2>2. Unattached(m.ch) => Unattached(m.ch)'
        BY <1>6, <2>1 DEF ChannelInv, TypeOK, Unattached, mainVars
    <2>3. m.ch # c => hChildWorkTCP'[m.ch] = hChildWorkTCP[m.ch]
                      /\ (m.ch \in clearIdle' <=> m.ch \in clearIdle)
        BY <1>6, <2>1 DEF ChannelInv, TypeOK
    <2> QED
        BY <1>6, <1>7, <2>1, <2>2, <2>3 DEF CommandOK, mainVars
<1>8. ctrl' \in [Sessions -> Seq(Commands)] /\ CommandInv'
      /\ \A t \in Sessions : \A i \in 1..Len(ctrl'[t]) :
             /\ ctrl'[t][i] # Head(ctrl[s])
             /\ \E k \in 1..Len(ctrl[t]) : ctrl'[t][i] = ctrl[t][k]
    BY <1>1, <1>6, <1>7, TailKeeps
<1>9. TypeOK'
    <2>1. SharedTypes'
        BY <1>6, <1>8 DEF ChannelInv, TypeOK, SharedTypes
    <2>2. ChildTypes'
        BY <1>6 DEF ChannelInv, TypeOK, ChildTypes, ChildStates
    <2> QED
        BY <1>6, <2>1, <2>2, TypesKept, TypesAgain DEF ChannelInv
<1>10. ASSUME NEW d \in Channels PROVE ChannelOK(d)'
    <2>1. CASE d = c
        <3>1. hChildWorkTCP[c] # "none" /\ hChildWorkTCP[c] \in ChildStates
            BY <1>5 DEF ChannelInv, TypeOK, ChildOK
        <3>2. \/ hChildWorkTCP'[c] = hChildWorkTCP[c] /\ (c \in clearIdle' <=> c \in clearIdle)
              \/ hChildWorkTCP'[c] = "clearing" /\ c \notin clearIdle'
              \/ hChildWorkTCP'[c] = hChildWorkTCP[c] /\ hChildWorkTCP[c] \in {"closing", "closed"}
            BY <1>5, <1>6, <3>1 DEF ChannelInv, TypeOK, ChildStates
        <3> QED
            BY <1>5, <1>6, <2>1, <3>1, <3>2 DEF ChannelInv, mainVars, ChannelOK, PhaseOK,
               StageOK, ChildOK, Unattached, Pending
    <2>2. CASE d # c
        <3>1. hChildWorkTCP'[d] = hChildWorkTCP[d] /\ (d \in clearIdle' <=> d \in clearIdle)
            BY <1>6, <2>2 DEF ChannelInv, TypeOK
        <3> QED
            BY <1>6, <3>1 DEF ChannelInv, mainVars, ChannelOK, PhaseOK, StageOK, ChildOK,
               Unattached, Pending
    <2> QED
        BY <2>1, <2>2
<1>11. RefCountsHolders' /\ \A d \in Channels : IsFiniteSet(Holders(d))'
    <2>1. \A d \in Channels : Holders(d)' = Holders(d)
        BY <1>6 DEF Holders
    <2> QED
        BY <1>6, <2>1 DEF ChannelInv, RefCountsHolders, mainVars, Pending
<1>12. ASSUME NEW t \in Sessions PROVE JobOK(t)'
    <2>1. JobOK(t) /\ job' = job
        BY <1>6 DEF ChannelInv, JobInv
    <2>2. CASE job[t].at \in {"attach", "query", "alive"}
        <3>1. job[t].ch \in Channels
            BY <2>2, JobChannel
        <3>2. hChildWorkTCP[job[t].ch] = "none" <=> hChildWorkTCP'[job[t].ch] = "none"
            BY <1>6, <3>1 DEF ChannelInv, TypeOK
        <3> QED
            BY <1>6, <2>1, <3>1, <3>2 DEF JobOK, Unattached, mainVars
    <2>3. CASE job[t].at \notin {"attach", "query", "alive"}
        BY <2>1, <2>3 DEF JobOK
    <2> QED
        BY <2>2, <2>3
<1>13. JobInv'
    <2> SUFFICES ASSUME NEW t \in Sessions, job[t].at = "attach", NEW u \in Sessions
                 PROVE  /\ job[u] = job[t] => u = t
                        /\ \A i \in 1..Len(ctrl'[u]) :
                               ctrl'[u][i] # [cmd |-> "SP_ATTACH_CHANNEL", ch |-> job[t].ch]
        BY <1>6, <1>12 DEF JobInv
    <2>1. /\ job[u] = job[t] => u = t
          /\ \A i \in 1..Len(ctrl[u]) :
                 ctrl[u][i] # [cmd |-> "SP_ATTACH_CHANNEL", ch |-> job[t].ch]
        BY DEF ChannelInv, JobInv
    <2> QED
        BY <1>8, <2>1
<1> QED
    BY <1>8, <1>9, <1>10, <1>11, <1>13 DEF ChannelInv, ChannelOK

-----------------------------------------------------------------------------
(* The invariant *)

LEMMA InitHolds == Init => ChannelInv
<1> SUFFICES ASSUME Init PROVE ChannelInv
    OBVIOUS
<1>1. TypeOK
    BY MaxWritesAssumption DEF Init, TypeOK, Session!Init, Session!TypeOK, Stages, Phases,
       MainStates, ChildStates, Kinds, Jobs
<1>2. ASSUME NEW c \in Channels
      PROVE  /\ PhaseOK(c) /\ StageOK(c) /\ ChildOK(c)
             /\ Holders(c) = {} /\ Pending(c) = 0
    <2>1. PhaseOK(c) /\ StageOK(c)
        BY DEF Init, PhaseOK, StageOK, Unattached
    <2>2. Pending(c) = 0
        BY DEF Init, Pending, Kinds
    <2>3. ChildOK(c)
        BY <2>2 DEF Init, ChildOK, Kinds
    <2>4. Holders(c) = {}
        BY NoChannelAssumption DEF Init, Holders, Idle
    <2> QED
        BY <2>1, <2>2, <2>3, <2>4
<1>3. RefCountsHolders /\ \A c \in Channels : IsFiniteSet(Holders(c))
    <2>1. ASSUME NEW c \in Channels
          PROVE  IsFiniteSet(Holders(c)) /\ Cardinality(Holders(c)) = 0
        BY <1>2, FS_EmptySet
    <2>2. ASSUME NEW c \in Channels
          PROVE  ref[c] = 0 /\ mainWrites[c] = 0 /\ hWorkTCP[c] = "none"
        BY DEF Init
    <2> QED
        BY <1>2, <2>1, <2>2 DEF RefCountsHolders
<1>4. CommandInv /\ JobInv
    BY DEF Init, CommandInv, JobInv, JobOK, Idle
<1> QED
    BY <1>1, <1>2, <1>3, <1>4 DEF ChannelInv

LEMMA NextKeeps ==
    ASSUME ChannelInv, [Next]_vars
    PROVE  ChannelInv'
<1>1. CASE UNCHANGED vars
    <2>1. UNCHANGED <<sessionVars, mainVars, sharedVars, childVars>>
        BY <1>1 DEF vars
    <2>2. TypeOK'
        BY <2>1, TypesKept, TypesAgain DEF ChannelInv
    <2>3. ASSUME NEW c \in Channels PROVE QuietStep(c)
        <3>1. Untouched(c)
            BY <2>1 DEF Untouched, mainVars, sharedVars, childVars
        <3> QED
            BY <2>2, <3>1, UntouchedKeeps
    <2> QED
        BY <2>1, <2>2, <2>3, QuietKeeps DEF sharedVars, childVars
<1>2. ASSUME NEW s \in Sessions, SessionStep(s) PROVE ChannelInv'
    BY <1>2, SessionLifeKeeps, SessionKillKeeps, TryCloseChildLoopKeeps DEF SessionStep
<1>3. ASSUME NEW s \in Sessions, ReadCtrl(s) \/ Attach(s) \/ Fetch(s) PROVE ChannelInv'
    BY <1>3, AttachQueryKeeps, DeatchChannelKeeps, AttachOpenKeeps, UnpinKeeps,
       FetchAliveKeeps, FetchEchoKeeps DEF ReadCtrl, Attach, Fetch
<1>4. ASSUME NEW s \in Sessions, NEW c \in Channels,
             \/ ChildClose(s, c) \/ Traffic(s, c)
             \/ \E k \in Kinds : ChildWrites(s, c, k)
      PROVE  ChannelInv'
    BY <1>4, ClearDirectKeeps, CloseChildHandleKeeps, ReadStreamErrorKeeps,
       ReadChannelFailKeeps, FetchQueryKeeps, WriteCallbackKeeps
       DEF ChildClose, Traffic, ChildWrites
<1>5. ASSUME NEW c \in Channels, Client(c) PROVE ChannelInv'
    BY <1>5, AcceptClientKeeps, AcceptFailKeeps, MainReadErrorKeeps, HelloRefusedKeeps,
       HelloLocalKeeps, HelloNoSessionKeeps, BindChannelToSessionKeeps, LocalCommandKeeps,
       LocalCommandKeepAliveKeeps, NewConnectTryKeeps, OrderConnecTargetResultKeeps,
       RemoveFportkeyKeeps DEF Client
<1>6. ASSUME NEW c \in Channels, MainLoop(c) PROVE ChannelInv'
    BY <1>6, MainWriteCallbackKeeps, CloseMainHandleKeeps, BindNextLoopKeeps,
       CheckFreeChannelContinueKeeps, FreeChannelFinallyKeeps, AsyncMainLoopTaskKeeps,
       OpeateContinueKeeps, OpeateDetachKeeps DEF MainLoop, MainWrites, MainOnce
<1> QED
    BY <1>1, <1>2, <1>3, <1>4, <1>5, <1>6 DEF Next, WorkerStep

\* The types, the teardown's stages, the child handle, the commands under way and
\* the workers' pins fit together in every state.
THEOREM ChannelInvHolds == Spec => []ChannelInv
<1>1. Init => ChannelInv
    BY InitHolds
<1>2. ChannelInv /\ [Next]_vars => ChannelInv'
    BY NextKeeps
<1> QED
    BY <1>1, <1>2, PTL DEF Spec

\* ref counts who holds the channel: the workers' pins, the writes under way on
\* both loops and the close that BindChannelToSession waits for.
THEOREM RefCountsHoldersHolds == Spec => []RefCountsHolders
<1>1. ChannelInv => RefCountsHolders
    BY DEF ChannelInv
<1> QED
    BY <1>1, ChannelInvHolds, PTL

\* AttachChannel and DeatchChannel find the channel their command names, and a
\* worker that saw its channel alive has it until it unpins it.
THEOREM WorkerFindsChannelHolds == Spec => []WorkerFindsChannel
<1>1. ASSUME ChannelInv, NEW c \in Channels, Unattached(c)
      PROVE  c \in mapChannel /\ ~isDead[c]
    BY <1>1 DEF ChannelInv, PhaseOK, StageOK, Unattached
<1>2. ASSUME ChannelInv PROVE WorkerFindsChannel
    <2>1. ASSUME NEW s \in Sessions, NEW i \in 1..Len(ctrl[s])
          PROVE  ctrl[s][i].ch \in Channels /\ CommandOK(ctrl[s][i])
        <3>1. ctrl[s][i] \in Commands
            BY <1>2 DEF ChannelInv, TypeOK
        <3> QED
            BY <1>2, <3>1 DEF ChannelInv, CommandInv, Commands
    <2>2. AttachFindsLive
        BY <1>1, <1>2, <2>1 DEF AttachFindsLive, CommandOK
    <2>3. ASSUME NEW c \in Channels, stage[c] \in {"opeate", "waitChild"}
          PROVE  c \in mapChannel
        BY <1>2, <2>3 DEF ChannelInv, PhaseOK, StageOK
    <2>4. DetachFindsChannel
        BY <2>1, <2>3 DEF DetachFindsChannel, CommandOK
    <2>5. ASSUME NEW s \in Sessions, job[s].at \in {"attach", "alive"}
          PROVE  job[s].ch \in mapChannel
        <3>1. job[s].ch \in Channels /\ JobOK(s)
            BY <1>2, <2>5, JobChannel DEF ChannelInv, JobInv
        <3>2. CASE job[s].at = "attach"
            BY <1>1, <1>2, <3>1, <3>2 DEF JobOK
        <3>3. CASE job[s].at = "alive"
            BY <1>2, <3>1, <3>3 DEF ChannelInv, ChildOK, StageOK, JobOK
        <3> QED
            BY <2>5, <3>2, <3>3
    <2> QED
        BY <2>2, <2>4, <2>5 DEF WorkerFindsChannel, PinnedAliveIsThere
<1> QED
    BY <1>2, ChannelInvHolds, PTL

\* When FreeChannelFinally deletes the channel no handle is open or closing on
\* either loop, no write is under way and no idle callback is armed.
THEOREM DeletedHasNoHandleHolds == Spec => []DeletedHasNoHandle
<1>1. ASSUME ChannelInv, NEW c \in Channels, stage[c] = "done"
      PROVE  /\ hWorkTCP[c] = "closed" /\ mainWrites[c] = 0
             /\ hChildWorkTCP[c] \in {"none", "closed"} /\ Pending(c) = 0
             /\ c \notin clearIdle
    BY <1>1 DEF ChannelInv, StageOK, ChildOK
<1>2. ChannelInv => DeletedHasNoHandle
    BY <1>1 DEF DeletedHasNoHandle
<1> QED
    BY <1>2, ChannelInvHolds, PTL

\* What the daemon sent before the channel died is written before the socket is
\* closed: FreeChannelOpeate waits for the pins and the writes.
THEOREM OutputIsDeliveredHolds == Spec => []OutputIsDelivered
<1>1. ASSUME ChannelInv, NEW c \in Channels, stage[c] \in {"waitChild", "finally", "done"}
      PROVE  /\ childWrites[c]["echo"] = 0
             /\ \A s \in Sessions : job[s] # [ch |-> c, at |-> "alive"]
    <2>1. childWrites[c]["echo"] = 0
        BY <1>1 DEF ChannelInv, ChildOK
    <2>2. ASSUME NEW s \in Sessions, job[s] = [ch |-> c, at |-> "alive"]
          PROVE  FALSE
        <3>1. job[s].ch = c /\ job[s].at = "alive"
            BY <2>2
        <3>2. JobOK(s)
            BY <1>1 DEF ChannelInv, JobInv
        <3> QED
            BY <1>1, <3>1, <3>2 DEF JobOK
    <2> QED
        BY <2>1, <2>2
<1>2. ChannelInv => OutputIsDelivered
    BY <1>1 DEF OutputIsDelivered
<1> QED
    BY <1>2, ChannelInvHolds, PTL
=============================================================================
