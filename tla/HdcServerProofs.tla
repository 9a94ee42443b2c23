--------------------------- MODULE HdcServerProofs ---------------------------
(***************************************************************************)
(* Proofs about HdcServer: a client's channel is bound to a session whose   *)
(* daemon accepted the host, and the token is signed with the algorithm and *)
(* the key that daemon checks.                                              *)
(*                                                                         *)
(* The map of daemons is shared between the main thread and the workers,    *)
(* and an entry may be taken over by another attempt or written back from    *)
(* an old copy.  What makes BoundIsAccepted hold nevertheless is kept per    *)
(* session: handshakeOK of a session follows from what its own daemon said. *)
(*                                                                         *)
(* The choice of a device for a client that names none (OnlyOneIsOnlyOne) is *)
(* at the end: the loop over the map is a recursive function, and its result *)
(* is given without a loop first.                                           *)
(***************************************************************************)
EXTENDS HdcServer, FiniteSetTheorems, WellFoundedInduction, TLAPS

\* The facts of the invariant about one session.
SessionOK(s) == WorkerOK(s) /\ HandshakeOK(s) /\ AlgorithmFits(s) /\ OnePairSent(s)

\* What an action does to the shared part of the state.
MapOK ==
    /\ mapDaemon \in [Keys -> Entry]
    /\ \A k \in Keys : mapDaemon[k].connStatus = "none" => mapDaemon[k] = Absent

-----------------------------------------------------------------------------
(* The map *)

\* Records that the code builds are entries, sessions and daemons.
LEMMA RecordTypes ==
    Absent \in Entry /\ Unused \in Session /\ Silent \in Daemon
BY BoundsAssumption, SMT DEF Absent, Entry, Unused, Session, Silent, Daemon, Pairs,
     Algorithms

\* Writing an entry that is not there as one that is there keeps the map's type.
LEMMA EntryWritten ==
    ASSUME MapOK, NEW k \in Keys, NEW e \in Entry, e.connStatus # "none",
           mapDaemon' = [mapDaemon EXCEPT ![k] = e]
    PROVE  MapOK'
<1>1. \A j \in Keys : mapDaemon'[j] = IF j = k THEN e ELSE mapDaemon[j]
  BY DEF MapOK
<1>2. mapDaemon' \in [Keys -> Entry]
  BY DEF MapOK
<1> QED
  BY <1>1, <1>2 DEF MapOK

LEMMA UpdateKeepsMap ==
    ASSUME MapOK, NEW k \in Keys, NEW e \in Entry, e.connStatus # "none",
           mapDaemon' = OpUpdate(mapDaemon, k, e)
    PROVE  MapOK'
<1>1. CASE mapDaemon[k].connStatus = "none"
  <2>1. mapDaemon' = mapDaemon
    BY <1>1 DEF OpUpdate
  <2> QED
    BY <2>1 DEF MapOK
<1>2. CASE mapDaemon[k].connStatus # "none"
  <2>1. mapDaemon' = [mapDaemon EXCEPT ![k] = e]
    BY <1>2 DEF OpUpdate
  <2> QED
    BY <2>1, EntryWritten
<1> QED
  BY <1>1, <1>2

LEMMA AddedIsThere ==
    ASSUME MapOK, NEW k \in Keys, NEW status \in {"READY", "UNKNOW"}
    PROVE  /\ OpAdd(mapDaemon, k, status)[k] \in Entry
           /\ OpAdd(mapDaemon, k, status)[k].connStatus # "none"
<1>1. CASE mapDaemon[k].connStatus # "none"
  BY <1>1 DEF OpAdd, MapOK
<1>2. CASE mapDaemon[k].connStatus = "none"
  <2>1. OpAdd(mapDaemon, k, status)[k] = [Absent EXCEPT !.connStatus = status]
    BY <1>2 DEF OpAdd, MapOK
  <2> QED
    BY <2>1 DEF Absent, Entry
<1> QED
  BY <1>1, <1>2

LEMMA AddKeepsMap ==
    ASSUME MapOK, NEW k \in Keys, NEW status \in {"READY", "UNKNOW"},
           mapDaemon' = OpAdd(mapDaemon, k, status)
    PROVE  MapOK'
<1>1. CASE mapDaemon[k].connStatus # "none"
  BY <1>1 DEF OpAdd, MapOK
<1>2. CASE mapDaemon[k].connStatus = "none"
  <2>1. mapDaemon' = [mapDaemon EXCEPT ![k] = [Absent EXCEPT !.connStatus = status]]
    BY <1>2 DEF OpAdd
  <2>2. [Absent EXCEPT !.connStatus = status] \in Entry
    BY DEF Absent, Entry
  <2>3. [Absent EXCEPT !.connStatus = status].connStatus # "none"
    BY DEF Absent
  <2> QED
    BY <2>1, <2>2, <2>3, EntryWritten
<1> QED
  BY <1>1, <1>2

-----------------------------------------------------------------------------
(* One session *)

\* The parts of the invariant.
LEMMA Parts ==
    ServerInv <=> /\ MapOK
                  /\ session \in [Sessions -> Session]
                  /\ daemon \in [Sessions -> Daemon]
                  /\ keyFile \in [private : Pairs, public : Pairs]
                  /\ hadKey \in BOOLEAN
                  /\ mapForward \in [Rules -> {0} \cup Sessions]
                  /\ channel \in [key : {0} \cup Keys, session : {0} \cup Sessions]
                  /\ \A s \in Sessions : SessionOK(s)
                  /\ OnePair
                  /\ BoundIsAccepted
BY DEF ServerInv, TypeOK, MapOK, SessionOK

LEMMA PartsNext ==
    ASSUME MapOK',
           (session \in [Sessions -> Session])',
           (daemon \in [Sessions -> Daemon])',
           (keyFile \in [private : Pairs, public : Pairs])',
           (hadKey \in BOOLEAN)',
           (mapForward \in [Rules -> {0} \cup Sessions])',
           (channel \in [key : {0} \cup Keys, session : {0} \cup Sessions])',
           \A s \in Sessions : SessionOK(s)',
           OnePair',
           BoundIsAccepted'
    PROVE  ServerInv'
BY DEF ServerInv, TypeOK, MapOK, SessionOK

\* A step that leaves a session and its daemon alone keeps what is known of them.
LEMMA Untouched ==
    ASSUME NEW t \in Sessions, SessionOK(t), session'[t] = session[t],
           daemon'[t] = daemon[t], hadKey' = hadKey
    PROVE  SessionOK(t)'
BY DEF SessionOK, WorkerOK, HandshakeOK, AlgorithmFits, OnePairSent,
       VerifyTypeFits, GetDaemonAuthType

\* A step of one session is right when it is right for this session.
LEMMA OneSession ==
    ASSUME ServerInv, NEW s \in Sessions, NEW x \in Session, NEW y \in Daemon,
           session' = [session EXCEPT ![s] = x],
           daemon' = [daemon EXCEPT ![s] = y],
           hadKey' = hadKey,
           SessionOK(s)'
    PROVE  /\ session' \in [Sessions -> Session]
           /\ daemon' \in [Sessions -> Daemon]
           /\ \A t \in Sessions : SessionOK(t)'
<1>1. session \in [Sessions -> Session] /\ daemon \in [Sessions -> Daemon]
  BY Parts
<1>2. session' \in [Sessions -> Session] /\ daemon' \in [Sessions -> Daemon]
  BY <1>1
<1>3. ASSUME NEW t \in Sessions PROVE SessionOK(t)'
  <2>1. CASE t = s
    BY <2>1
  <2>2. CASE t # s
    <3>1. session'[t] = session[t] /\ daemon'[t] = daemon[t]
      BY <1>1, <2>2
    <3>2. SessionOK(t)
      BY Parts
    <3> QED
      BY <3>1, <3>2, Untouched
  <2> QED
    BY <2>1, <2>2
<1> QED
  BY <1>2, <1>3

\* The same with the daemon left alone.
LEMMA OneWorker ==
    ASSUME ServerInv, NEW s \in Sessions, NEW x \in Session,
           session' = [session EXCEPT ![s] = x],
           daemon' = daemon, hadKey' = hadKey,
           SessionOK(s)'
    PROVE  /\ session' \in [Sessions -> Session]
           /\ daemon' \in [Sessions -> Daemon]
           /\ \A t \in Sessions : SessionOK(t)'
<1>1. daemon \in [Sessions -> Daemon]
  BY Parts
<1>2. daemon' = [daemon EXCEPT ![s] = daemon[s]] /\ daemon[s] \in Daemon
  BY <1>1
<1> QED
  BY <1>2, OneSession

\* A channel that is attached stays so as long as no daemon takes its word back.
LEMMA StaysAccepted ==
    ASSUME ServerInv, channel' = channel,
           \A t \in Sessions : daemon[t].says = "OK" => daemon'[t].says = "OK"
    PROVE  BoundIsAccepted'
<1>1. channel.session \in {0} \cup Sessions /\ BoundIsAccepted
  BY Parts
<1> QED
  BY <1>1 DEF BoundIsAccepted

\* With the key files left alone, a worker must only not start to write them.
LEMMA StaysOnePair ==
    ASSUME ServerInv, NEW s \in Sessions, NEW x \in Session,
           session' = [session EXCEPT ![s] = x],
           hadKey' = hadKey, keyFile' = keyFile,
           hadKey => x.pc \notin {"generate", "write"}
    PROVE  OnePair'
<1>1. session \in [Sessions -> Session] /\ OnePair
  BY Parts
<1>2. ASSUME hadKey, NEW t \in Sessions
      PROVE  session'[t].pc \notin {"generate", "write"}
  BY <1>1, <1>2 DEF OnePair
<1> QED
  BY <1>1, <1>2 DEF OnePair

-----------------------------------------------------------------------------
(* The steps *)
LEMMA HandServerAuthKeeps ==
    ASSUME ServerInv, NEW s \in Sessions,
           HandServerAuth(s)
    PROVE  ServerInv'
<1> DEFINE x == [session[s] EXCEPT !.verifyType = GetDaemonAuthType(s),
                                !.pc = IF KeyPathFound THEN "load" ELSE "generate"]
<1>1. /\ session[s] \in Session /\ daemon[s] \in Daemon /\ SessionOK(s) /\ hadKey \in BOOLEAN
      /\ session \in [Sessions -> Session] /\ daemon \in [Sessions -> Daemon]
      /\ keyFile \in [private : Pairs, public : Pairs]
      /\ mapDaemon \in [Keys -> Entry] /\ OnePair
  BY Parts DEF MapOK
<1>2. x \in Session
  BY <1>1, BoundsAssumption DEF HandServerAuth, Reads, At, Session, Entry, Pairs,
     Keys, Algorithms, KeyPathFound, GetDaemonAuthType, Absent
<1>4. session' = [session EXCEPT ![s] = x] /\ daemon' = daemon /\ hadKey' = hadKey
  BY DEF HandServerAuth
<1>5. session'[s] = x /\ daemon'[s] = daemon[s]
  BY <1>1, <1>4
<1>6. SessionOK(s)'
  BY <1>1, <1>4, <1>5 DEF HandServerAuth, Reads, At, Session, Daemon, Answered,
     Silent, KeyPathFound, OnePair, SessionOK, WorkerOK, HandshakeOK, AlgorithmFits, OnePairSent, VerifyTypeFits, GetDaemonAuthType
<1>7. session' \in [Sessions -> Session] /\ daemon' \in [Sessions -> Daemon]
      /\ \A t \in Sessions : SessionOK(t)'
  BY <1>2, <1>4, <1>6, OneWorker
<1>8. OnePair'
  <2>1. hadKey => x.pc \notin {"generate", "write"}
    BY <1>1 DEF HandServerAuth, Reads, At, Session, KeyPathFound, OnePair
  <2>2. keyFile' = keyFile
    BY DEF HandServerAuth
  <2> QED
    BY <2>1, <2>2, <1>2, <1>4, StaysOnePair
<1>9. BoundIsAccepted'
  <2>1. \A t \in Sessions : daemon[t].says = "OK" => daemon'[t].says = "OK"
    BY <1>1, <1>4 DEF HandServerAuth, Reads, At, Answered, Daemon
  <2>2. channel' = channel
    BY DEF HandServerAuth
  <2> QED
    BY <2>1, <2>2, StaysAccepted
<1>10. MapOK'
  BY Parts DEF MapOK, HandServerAuth
<1>11. (keyFile \in [private : Pairs, public : Pairs])'
  BY <1>1 DEF HandServerAuth
<1>12. (mapForward \in [Rules -> {0} \cup Sessions])'
  BY Parts DEF HandServerAuth
<1>13. (channel \in [key : {0} \cup Keys, session : {0} \cup Sessions])'
  BY Parts DEF HandServerAuth
<1> QED
  BY <1>1, <1>4, <1>7, <1>8, <1>9, <1>10, <1>11, <1>12, <1>13, PartsNext

LEMMA GeneratePrivateKeeps ==
    ASSUME ServerInv, NEW s \in Sessions,
           GeneratePrivate(s)
    PROVE  ServerInv'
<1> DEFINE x == [session[s] EXCEPT !.pc = "write", !.pair = keyFile.private + 1]
<1>1. /\ session[s] \in Session /\ daemon[s] \in Daemon /\ SessionOK(s) /\ hadKey \in BOOLEAN
      /\ session \in [Sessions -> Session] /\ daemon \in [Sessions -> Daemon]
      /\ keyFile \in [private : Pairs, public : Pairs]
      /\ mapDaemon \in [Keys -> Entry] /\ OnePair
  BY Parts DEF MapOK
<1>2. x \in Session
  <2>1. keyFile.private + 1 \in Pairs
    BY <1>1, BoundsAssumption DEF GeneratePrivate, Pairs
  <2> QED
    BY <2>1, <1>1 DEF Session
<1>4. session' = [session EXCEPT ![s] = x] /\ daemon' = daemon /\ hadKey' = hadKey
  BY DEF GeneratePrivate
<1>5. session'[s] = x /\ daemon'[s] = daemon[s]
  BY <1>1, <1>4
<1>6. SessionOK(s)'
  BY <1>1, <1>4, <1>5 DEF GeneratePrivate, Reads, At, Session, Daemon, Answered,
     Silent, KeyPathFound, OnePair, SessionOK, WorkerOK, HandshakeOK, AlgorithmFits, OnePairSent, VerifyTypeFits, GetDaemonAuthType
<1>7. session' \in [Sessions -> Session] /\ daemon' \in [Sessions -> Daemon]
      /\ \A t \in Sessions : SessionOK(t)'
  BY <1>2, <1>4, <1>6, OneWorker
<1>8. OnePair'
  <2>1. hadKey => FALSE
    BY <1>1 DEF GeneratePrivate, At, OnePair
  <2> QED
    BY <2>1, <1>4 DEF OnePair
<1>9. BoundIsAccepted'
  <2>1. \A t \in Sessions : daemon[t].says = "OK" => daemon'[t].says = "OK"
    BY <1>1, <1>4 DEF GeneratePrivate, Reads, At, Answered, Daemon
  <2>2. channel' = channel
    BY DEF GeneratePrivate
  <2> QED
    BY <2>1, <2>2, StaysAccepted
<1>10. MapOK'
  BY Parts DEF MapOK, GeneratePrivate
<1>11. (keyFile \in [private : Pairs, public : Pairs])'
  BY <1>1, BoundsAssumption DEF GeneratePrivate, Pairs
<1>12. (mapForward \in [Rules -> {0} \cup Sessions])'
  BY Parts DEF GeneratePrivate
<1>13. (channel \in [key : {0} \cup Keys, session : {0} \cup Sessions])'
  BY Parts DEF GeneratePrivate
<1> QED
  BY <1>1, <1>4, <1>7, <1>8, <1>9, <1>10, <1>11, <1>12, <1>13, PartsNext

LEMMA WritePublicKeeps ==
    ASSUME ServerInv, NEW s \in Sessions,
           WritePublic(s)
    PROVE  ServerInv'
<1> DEFINE x == [session[s] EXCEPT !.pc = "load", !.pair = 0]
<1>1. /\ session[s] \in Session /\ daemon[s] \in Daemon /\ SessionOK(s) /\ hadKey \in BOOLEAN
      /\ session \in [Sessions -> Session] /\ daemon \in [Sessions -> Daemon]
      /\ keyFile \in [private : Pairs, public : Pairs]
      /\ mapDaemon \in [Keys -> Entry] /\ OnePair
  BY Parts DEF MapOK
<1>2. x \in Session
  <2>1. 0 \in Pairs
    BY BoundsAssumption DEF Pairs
  <2> QED
    BY <2>1, <1>1 DEF Session
<1>4. session' = [session EXCEPT ![s] = x] /\ daemon' = daemon /\ hadKey' = hadKey
  BY DEF WritePublic
<1>5. session'[s] = x /\ daemon'[s] = daemon[s]
  BY <1>1, <1>4
<1>6. SessionOK(s)'
  BY <1>1, <1>4, <1>5 DEF WritePublic, Reads, At, Session, Daemon, Answered, Silent,
     KeyPathFound, OnePair, SessionOK, WorkerOK, HandshakeOK, AlgorithmFits, OnePairSent, VerifyTypeFits, GetDaemonAuthType
<1>7. session' \in [Sessions -> Session] /\ daemon' \in [Sessions -> Daemon]
      /\ \A t \in Sessions : SessionOK(t)'
  BY <1>2, <1>4, <1>6, OneWorker
<1>8. OnePair'
  <2>1. hadKey => FALSE
    BY <1>1 DEF WritePublic, At, OnePair
  <2> QED
    BY <2>1, <1>4 DEF OnePair
<1>9. BoundIsAccepted'
  <2>1. \A t \in Sessions : daemon[t].says = "OK" => daemon'[t].says = "OK"
    BY <1>1, <1>4 DEF WritePublic, Reads, At, Answered, Daemon
  <2>2. channel' = channel
    BY DEF WritePublic
  <2> QED
    BY <2>1, <2>2, StaysAccepted
<1>10. MapOK'
  BY Parts DEF MapOK, WritePublic
<1>11. (keyFile \in [private : Pairs, public : Pairs])'
  BY <1>1 DEF WritePublic, Session
<1>12. (mapForward \in [Rules -> {0} \cup Sessions])'
  BY Parts DEF WritePublic
<1>13. (channel \in [key : {0} \cup Keys, session : {0} \cup Sessions])'
  BY Parts DEF WritePublic
<1> QED
  BY <1>1, <1>4, <1>7, <1>8, <1>9, <1>10, <1>11, <1>12, <1>13, PartsNext

LEMMA SendPublicKeyKeeps ==
    ASSUME ServerInv, NEW s \in Sessions,
           SendPublicKey(s)
    PROVE  ServerInv'
<1> DEFINE x == [session[s] EXCEPT !.pc = "idle"]
<1> DEFINE y == [Answered(s) EXCEPT !.publicKey = keyFile.public]
<1>1. /\ session[s] \in Session /\ daemon[s] \in Daemon /\ SessionOK(s) /\ hadKey \in BOOLEAN
      /\ session \in [Sessions -> Session] /\ daemon \in [Sessions -> Daemon]
      /\ keyFile \in [private : Pairs, public : Pairs]
      /\ mapDaemon \in [Keys -> Entry] /\ OnePair
  BY Parts DEF MapOK
<1>2. x \in Session
  BY <1>1, BoundsAssumption DEF SendPublicKey, Reads, At, Session, Entry, Pairs,
     Keys, Algorithms, KeyPathFound, GetDaemonAuthType, Absent
<1>3. y \in Daemon
  BY <1>1 DEF SendPublicKey, Reads, At, Daemon, Session, Pairs, Answered
<1>4. session' = [session EXCEPT ![s] = x] /\ daemon' = [daemon EXCEPT ![s] = y] /\ hadKey' = hadKey
  BY DEF SendPublicKey
<1>5. session'[s] = x /\ daemon'[s] = y
  BY <1>1, <1>4
<1>6. SessionOK(s)'
  BY <1>1, <1>4, <1>5 DEF SendPublicKey, Reads, At, Session, Daemon, Answered,
     Silent, KeyPathFound, OnePair, SessionOK, WorkerOK, HandshakeOK, AlgorithmFits, OnePairSent, VerifyTypeFits, GetDaemonAuthType
<1>7. session' \in [Sessions -> Session] /\ daemon' \in [Sessions -> Daemon]
      /\ \A t \in Sessions : SessionOK(t)'
  BY <1>2, <1>3, <1>4, <1>6, OneSession
<1>8. OnePair'
  <2>1. hadKey => x.pc \notin {"generate", "write"}
    BY <1>1 DEF SendPublicKey, Reads, At, Session, KeyPathFound, OnePair
  <2>2. keyFile' = keyFile
    BY DEF SendPublicKey
  <2> QED
    BY <2>1, <2>2, <1>2, <1>4, StaysOnePair
<1>9. BoundIsAccepted'
  <2>1. \A t \in Sessions : daemon[t].says = "OK" => daemon'[t].says = "OK"
    BY <1>1, <1>4 DEF SendPublicKey, Reads, At, Answered, Daemon
  <2>2. channel' = channel
    BY DEF SendPublicKey
  <2> QED
    BY <2>1, <2>2, StaysAccepted
<1>10. MapOK'
  BY Parts DEF MapOK, SendPublicKey
<1>11. (keyFile \in [private : Pairs, public : Pairs])'
  BY <1>1 DEF SendPublicKey
<1>12. (mapForward \in [Rules -> {0} \cup Sessions])'
  BY Parts DEF SendPublicKey
<1>13. (channel \in [key : {0} \cup Keys, session : {0} \cup Sessions])'
  BY Parts DEF SendPublicKey
<1> QED
  BY <1>1, <1>4, <1>7, <1>8, <1>9, <1>10, <1>11, <1>12, <1>13, PartsNext

LEMMA RsaSignAndBase64Keeps ==
    ASSUME ServerInv, NEW s \in Sessions,
           RsaSignAndBase64(s)
    PROVE  ServerInv'
<1> DEFINE y == [Answered(s) EXCEPT !.signature = keyFile.private,
                                !.algorithm = session[s].verifyType]
<1>1. /\ session[s] \in Session /\ daemon[s] \in Daemon /\ SessionOK(s) /\ hadKey \in BOOLEAN
      /\ session \in [Sessions -> Session] /\ daemon \in [Sessions -> Daemon]
      /\ keyFile \in [private : Pairs, public : Pairs]
      /\ mapDaemon \in [Keys -> Entry] /\ OnePair
  BY Parts DEF MapOK
<1>3. y \in Daemon
  BY <1>1 DEF RsaSignAndBase64, Reads, At, Daemon, Session, Pairs, Answered
<1>4. session' = session /\ daemon' = [daemon EXCEPT ![s] = y] /\ hadKey' = hadKey
  BY DEF RsaSignAndBase64
<1>5. session'[s] = session[s] /\ daemon'[s] = y
  BY <1>1, <1>4
<1>6. SessionOK(s)'
  BY <1>1, <1>4, <1>5 DEF RsaSignAndBase64, Reads, At, Session, Daemon, Answered,
     Silent, KeyPathFound, OnePair, SessionOK, WorkerOK, HandshakeOK, AlgorithmFits, OnePairSent, VerifyTypeFits, GetDaemonAuthType
<1>7. session' \in [Sessions -> Session] /\ daemon' \in [Sessions -> Daemon]
      /\ \A t \in Sessions : SessionOK(t)'
  <2>1. session' = [session EXCEPT ![s] = session[s]]
    BY <1>1, <1>4
  <2> QED
    BY <2>1, <1>1, <1>3, <1>4, <1>6, OneSession
<1>8. OnePair'
  BY <1>1, <1>4 DEF RsaSignAndBase64, OnePair
<1>9. BoundIsAccepted'
  <2>1. \A t \in Sessions : daemon[t].says = "OK" => daemon'[t].says = "OK"
    BY <1>1, <1>4 DEF RsaSignAndBase64, Reads, At, Answered, Daemon
  <2>2. channel' = channel
    BY DEF RsaSignAndBase64
  <2> QED
    BY <2>1, <2>2, StaysAccepted
<1>10. MapOK'
  BY Parts DEF MapOK, RsaSignAndBase64
<1>11. (keyFile \in [private : Pairs, public : Pairs])'
  BY <1>1 DEF RsaSignAndBase64
<1>12. (mapForward \in [Rules -> {0} \cup Sessions])'
  BY Parts DEF RsaSignAndBase64
<1>13. (channel \in [key : {0} \cup Keys, session : {0} \cup Sessions])'
  BY Parts DEF RsaSignAndBase64
<1> QED
  BY <1>1, <1>4, <1>7, <1>8, <1>9, <1>10, <1>11, <1>12, <1>13, PartsNext

LEMMA UpdateHdiInfoCopyKeeps ==
    ASSUME ServerInv, NEW s \in Sessions,
           UpdateHdiInfoCopy(s)
    PROVE  ServerInv'
<1> DEFINE x == [session[s] EXCEPT !.pc = "update",
        !.copy = [mapDaemon[session[s].key] EXCEPT !.connStatus = "CONNECTED", !.name = s]]
<1> DEFINE y == Answered(s)
<1>1. /\ session[s] \in Session /\ daemon[s] \in Daemon /\ SessionOK(s) /\ hadKey \in BOOLEAN
      /\ session \in [Sessions -> Session] /\ daemon \in [Sessions -> Daemon]
      /\ keyFile \in [private : Pairs, public : Pairs]
      /\ mapDaemon \in [Keys -> Entry] /\ OnePair
  BY Parts DEF MapOK
<1>2. x \in Session
  <2>1. session[s].key \in Keys
    BY <1>1 DEF UpdateHdiInfoCopy, Reads, At, SessionOK, WorkerOK, Session
  <2>2. [mapDaemon[session[s].key] EXCEPT !.connStatus = "CONNECTED", !.name = s] \in Entry
    BY <2>1, <1>1 DEF Entry
  <2> QED
    BY <2>2, <1>1 DEF Session
<1>3. y \in Daemon
  BY <1>1 DEF UpdateHdiInfoCopy, Reads, At, Daemon, Session, Pairs, Answered
<1>4. session' = [session EXCEPT ![s] = x] /\ daemon' = [daemon EXCEPT ![s] = y] /\ hadKey' = hadKey
  BY DEF UpdateHdiInfoCopy
<1>5. session'[s] = x /\ daemon'[s] = y
  BY <1>1, <1>4
<1>6. SessionOK(s)'
  BY <1>1, <1>4, <1>5 DEF UpdateHdiInfoCopy, Reads, At, Session, Daemon, Answered,
     Silent, KeyPathFound, OnePair, SessionOK, WorkerOK, HandshakeOK, AlgorithmFits, OnePairSent, VerifyTypeFits, GetDaemonAuthType
<1>7. session' \in [Sessions -> Session] /\ daemon' \in [Sessions -> Daemon]
      /\ \A t \in Sessions : SessionOK(t)'
  BY <1>2, <1>3, <1>4, <1>6, OneSession
<1>8. OnePair'
  <2>1. hadKey => x.pc \notin {"generate", "write"}
    BY <1>1 DEF UpdateHdiInfoCopy, Reads, At, Session, KeyPathFound, OnePair
  <2>2. keyFile' = keyFile
    BY DEF UpdateHdiInfoCopy
  <2> QED
    BY <2>1, <2>2, <1>2, <1>4, StaysOnePair
<1>9. BoundIsAccepted'
  <2>1. \A t \in Sessions : daemon[t].says = "OK" => daemon'[t].says = "OK"
    BY <1>1, <1>4 DEF UpdateHdiInfoCopy, Reads, At, Answered, Daemon
  <2>2. channel' = channel
    BY DEF UpdateHdiInfoCopy
  <2> QED
    BY <2>1, <2>2, StaysAccepted
<1>10. MapOK'
  BY Parts DEF MapOK, UpdateHdiInfoCopy
<1>11. (keyFile \in [private : Pairs, public : Pairs])'
  BY <1>1 DEF UpdateHdiInfoCopy
<1>12. (mapForward \in [Rules -> {0} \cup Sessions])'
  BY Parts DEF UpdateHdiInfoCopy
<1>13. (channel \in [key : {0} \cup Keys, session : {0} \cup Sessions])'
  BY Parts DEF UpdateHdiInfoCopy
<1> QED
  BY <1>1, <1>4, <1>7, <1>8, <1>9, <1>10, <1>11, <1>12, <1>13, PartsNext

LEMMA UpdateHdiInfoKeeps ==
    ASSUME ServerInv, NEW s \in Sessions,
           UpdateHdiInfo(s)
    PROVE  ServerInv'
<1> DEFINE x == [session[s] EXCEPT !.pc = "idle", !.copy = Absent, !.handshakeOK = TRUE]
<1>1. /\ session[s] \in Session /\ daemon[s] \in Daemon /\ SessionOK(s) /\ hadKey \in BOOLEAN
      /\ session \in [Sessions -> Session] /\ daemon \in [Sessions -> Daemon]
      /\ keyFile \in [private : Pairs, public : Pairs]
      /\ mapDaemon \in [Keys -> Entry] /\ OnePair
  BY Parts DEF MapOK
<1>2. x \in Session
  BY <1>1, BoundsAssumption DEF UpdateHdiInfo, Reads, At, Session, Entry, Pairs,
     Keys, Algorithms, KeyPathFound, GetDaemonAuthType, Absent
<1>4. session' = [session EXCEPT ![s] = x] /\ daemon' = daemon /\ hadKey' = hadKey
  BY DEF UpdateHdiInfo
<1>5. session'[s] = x /\ daemon'[s] = daemon[s]
  BY <1>1, <1>4
<1>6. SessionOK(s)'
  BY <1>1, <1>4, <1>5 DEF UpdateHdiInfo, Reads, At, Session, Daemon, Answered,
     Silent, KeyPathFound, OnePair, SessionOK, WorkerOK, HandshakeOK, AlgorithmFits, OnePairSent, VerifyTypeFits, GetDaemonAuthType
<1>7. session' \in [Sessions -> Session] /\ daemon' \in [Sessions -> Daemon]
      /\ \A t \in Sessions : SessionOK(t)'
  BY <1>2, <1>4, <1>6, OneWorker
<1>8. OnePair'
  <2>1. hadKey => x.pc \notin {"generate", "write"}
    BY <1>1 DEF UpdateHdiInfo, Reads, At, Session, KeyPathFound, OnePair
  <2>2. keyFile' = keyFile
    BY DEF UpdateHdiInfo
  <2> QED
    BY <2>1, <2>2, <1>2, <1>4, StaysOnePair
<1>9. BoundIsAccepted'
  <2>1. \A t \in Sessions : daemon[t].says = "OK" => daemon'[t].says = "OK"
    BY <1>1, <1>4 DEF UpdateHdiInfo, Reads, At, Answered, Daemon
  <2>2. channel' = channel
    BY DEF UpdateHdiInfo
  <2> QED
    BY <2>1, <2>2, StaysAccepted
<1>10. MapOK'
  <2>1. session[s].copy \in Entry /\ session[s].copy.connStatus # "none"
    BY <1>1 DEF UpdateHdiInfo, At, SessionOK, WorkerOK, Session
  <2>2. session[s].key \in Keys
    BY <1>1 DEF UpdateHdiInfo, At, SessionOK, WorkerOK, Session
  <2>3. MapOK
    BY Parts
  <2>4. mapDaemon' = OpUpdate(mapDaemon, session[s].key, session[s].copy)
    BY DEF UpdateHdiInfo
  <2> QED
    BY <2>1, <2>2, <2>3, <2>4, UpdateKeepsMap
<1>11. (keyFile \in [private : Pairs, public : Pairs])'
  BY <1>1 DEF UpdateHdiInfo
<1>12. (mapForward \in [Rules -> {0} \cup Sessions])'
  BY Parts DEF UpdateHdiInfo
<1>13. (channel \in [key : {0} \cup Keys, session : {0} \cup Sessions])'
  BY Parts DEF UpdateHdiInfo
<1> QED
  BY <1>1, <1>4, <1>7, <1>8, <1>9, <1>10, <1>11, <1>12, <1>13, PartsNext

LEMMA HandshakeFailedKeeps ==
    ASSUME ServerInv, NEW s \in Sessions,
           HandshakeFailed(s)
    PROVE  ServerInv'
<1> DEFINE x == [session[s] EXCEPT !.pc = "idle"]
<1> DEFINE y == Answered(s)
<1>1. /\ session[s] \in Session /\ daemon[s] \in Daemon /\ SessionOK(s) /\ hadKey \in BOOLEAN
      /\ session \in [Sessions -> Session] /\ daemon \in [Sessions -> Daemon]
      /\ keyFile \in [private : Pairs, public : Pairs]
      /\ mapDaemon \in [Keys -> Entry] /\ OnePair
  BY Parts DEF MapOK
<1>2. x \in Session
  BY <1>1, BoundsAssumption DEF HandshakeFailed, Reads, At, Session, Entry, Pairs,
     Keys, Algorithms, KeyPathFound, GetDaemonAuthType, Absent
<1>3. y \in Daemon
  BY <1>1 DEF HandshakeFailed, Reads, At, Daemon, Session, Pairs, Answered
<1>4. session' = [session EXCEPT ![s] = x] /\ daemon' = [daemon EXCEPT ![s] = y] /\ hadKey' = hadKey
  BY DEF HandshakeFailed
<1>5. session'[s] = x /\ daemon'[s] = y
  BY <1>1, <1>4
<1>6. SessionOK(s)'
  BY <1>1, <1>4, <1>5 DEF HandshakeFailed, Reads, At, Session, Daemon, Answered,
     Silent, KeyPathFound, OnePair, SessionOK, WorkerOK, HandshakeOK, AlgorithmFits, OnePairSent, VerifyTypeFits, GetDaemonAuthType
<1>7. session' \in [Sessions -> Session] /\ daemon' \in [Sessions -> Daemon]
      /\ \A t \in Sessions : SessionOK(t)'
  BY <1>2, <1>3, <1>4, <1>6, OneSession
<1>8. OnePair'
  <2>1. hadKey => x.pc \notin {"generate", "write"}
    BY <1>1 DEF HandshakeFailed, Reads, At, Session, KeyPathFound, OnePair
  <2>2. keyFile' = keyFile
    BY DEF HandshakeFailed
  <2> QED
    BY <2>1, <2>2, <1>2, <1>4, StaysOnePair
<1>9. BoundIsAccepted'
  <2>1. \A t \in Sessions : daemon[t].says = "OK" => daemon'[t].says = "OK"
    BY <1>1, <1>4 DEF HandshakeFailed, Reads, At, Answered, Daemon
  <2>2. channel' = channel
    BY DEF HandshakeFailed
  <2> QED
    BY <2>1, <2>2, StaysAccepted
<1>10. MapOK'
  BY Parts DEF MapOK, HandshakeFailed
<1>11. (keyFile \in [private : Pairs, public : Pairs])'
  BY <1>1 DEF HandshakeFailed
<1>12. (mapForward \in [Rules -> {0} \cup Sessions])'
  BY Parts DEF HandshakeFailed
<1>13. (channel \in [key : {0} \cup Keys, session : {0} \cup Sessions])'
  BY Parts DEF HandshakeFailed
<1> QED
  BY <1>1, <1>4, <1>7, <1>8, <1>9, <1>10, <1>11, <1>12, <1>13, PartsNext

LEMMA ForwardSuccessKeeps ==
    ASSUME ServerInv, NEW s \in Sessions,
           ForwardSuccess(s)
    PROVE  ServerInv'
<1> DEFINE x == [session[s] EXCEPT !.pc = "forward"]
<1>1. /\ session[s] \in Session /\ daemon[s] \in Daemon /\ SessionOK(s) /\ hadKey \in BOOLEAN
      /\ session \in [Sessions -> Session] /\ daemon \in [Sessions -> Daemon]
      /\ keyFile \in [private : Pairs, public : Pairs]
      /\ mapDaemon \in [Keys -> Entry] /\ OnePair
  BY Parts DEF MapOK
<1>2. x \in Session
  BY <1>1, BoundsAssumption DEF ForwardSuccess, Reads, At, Session, Entry, Pairs,
     Keys, Algorithms, KeyPathFound, GetDaemonAuthType, Absent
<1>4. session' = [session EXCEPT ![s] = x] /\ daemon' = daemon /\ hadKey' = hadKey
  BY DEF ForwardSuccess
<1>5. session'[s] = x /\ daemon'[s] = daemon[s]
  BY <1>1, <1>4
<1>6. SessionOK(s)'
  BY <1>1, <1>4, <1>5 DEF ForwardSuccess, Reads, At, Session, Daemon, Answered,
     Silent, KeyPathFound, OnePair, SessionOK, WorkerOK, HandshakeOK, AlgorithmFits, OnePairSent, VerifyTypeFits, GetDaemonAuthType
<1>7. session' \in [Sessions -> Session] /\ daemon' \in [Sessions -> Daemon]
      /\ \A t \in Sessions : SessionOK(t)'
  BY <1>2, <1>4, <1>6, OneWorker
<1>8. OnePair'
  <2>1. hadKey => x.pc \notin {"generate", "write"}
    BY <1>1 DEF ForwardSuccess, Reads, At, Session, KeyPathFound, OnePair
  <2>2. keyFile' = keyFile
    BY DEF ForwardSuccess
  <2> QED
    BY <2>1, <2>2, <1>2, <1>4, StaysOnePair
<1>9. BoundIsAccepted'
  <2>1. \A t \in Sessions : daemon[t].says = "OK" => daemon'[t].says = "OK"
    BY <1>1, <1>4 DEF ForwardSuccess, Reads, At, Answered, Daemon
  <2>2. channel' = channel
    BY DEF ForwardSuccess
  <2> QED
    BY <2>1, <2>2, StaysAccepted
<1>10. MapOK'
  BY Parts DEF MapOK, ForwardSuccess
<1>11. (keyFile \in [private : Pairs, public : Pairs])'
  BY <1>1 DEF ForwardSuccess
<1>12. (mapForward \in [Rules -> {0} \cup Sessions])'
  BY Parts DEF ForwardSuccess
<1>13. (channel \in [key : {0} \cup Keys, session : {0} \cup Sessions])'
  BY Parts DEF ForwardSuccess
<1> QED
  BY <1>1, <1>4, <1>7, <1>8, <1>9, <1>10, <1>11, <1>12, <1>13, PartsNext

LEMMA AdminForwardMapAddKeeps ==
    ASSUME ServerInv, NEW s \in Sessions, NEW r \in Rules,
           AdminForwardMapAdd(s, r)
    PROVE  ServerInv'
<1> DEFINE x == [session[s] EXCEPT !.pc = "idle"]
<1>1. /\ session[s] \in Session /\ daemon[s] \in Daemon /\ SessionOK(s) /\ hadKey \in BOOLEAN
      /\ session \in [Sessions -> Session] /\ daemon \in [Sessions -> Daemon]
      /\ keyFile \in [private : Pairs, public : Pairs]
      /\ mapDaemon \in [Keys -> Entry] /\ OnePair
  BY Parts DEF MapOK
<1>2. x \in Session
  BY <1>1, BoundsAssumption DEF AdminForwardMapAdd, Reads, At, Session, Entry, Pairs,
     Keys, Algorithms, KeyPathFound, GetDaemonAuthType, Absent
<1>4. session' = [session EXCEPT ![s] = x] /\ daemon' = daemon /\ hadKey' = hadKey
  BY DEF AdminForwardMapAdd
<1>5. session'[s] = x /\ daemon'[s] = daemon[s]
  BY <1>1, <1>4
<1>6. SessionOK(s)'
  BY <1>1, <1>4, <1>5 DEF AdminForwardMapAdd, Reads, At, Session, Daemon, Answered,
     Silent, KeyPathFound, OnePair, SessionOK, WorkerOK, HandshakeOK, AlgorithmFits, OnePairSent, VerifyTypeFits, GetDaemonAuthType
<1>7. session' \in [Sessions -> Session] /\ daemon' \in [Sessions -> Daemon]
      /\ \A t \in Sessions : SessionOK(t)'
  BY <1>2, <1>4, <1>6, OneWorker
<1>8. OnePair'
  <2>1. hadKey => x.pc \notin {"generate", "write"}
    BY <1>1 DEF AdminForwardMapAdd, Reads, At, Session, KeyPathFound, OnePair
  <2>2. keyFile' = keyFile
    BY DEF AdminForwardMapAdd
  <2> QED
    BY <2>1, <2>2, <1>2, <1>4, StaysOnePair
<1>9. BoundIsAccepted'
  <2>1. \A t \in Sessions : daemon[t].says = "OK" => daemon'[t].says = "OK"
    BY <1>1, <1>4 DEF AdminForwardMapAdd, Reads, At, Answered, Daemon
  <2>2. channel' = channel
    BY DEF AdminForwardMapAdd
  <2> QED
    BY <2>1, <2>2, StaysAccepted
<1>10. MapOK'
  BY Parts DEF MapOK, AdminForwardMapAdd
<1>11. (keyFile \in [private : Pairs, public : Pairs])'
  BY <1>1 DEF AdminForwardMapAdd
<1>12. (mapForward \in [Rules -> {0} \cup Sessions])'
  BY Parts DEF AdminForwardMapAdd
<1>13. (channel \in [key : {0} \cup Keys, session : {0} \cup Sessions])'
  BY Parts DEF AdminForwardMapAdd
<1> QED
  BY <1>1, <1>4, <1>7, <1>8, <1>9, <1>10, <1>11, <1>12, <1>13, PartsNext

LEMMA DaemonSaysKeeps ==
    ASSUME ServerInv, NEW s \in Sessions, NEW says \in {"PUBLICKEY", "SIGNATURE", "OK", "FAILED"},
           DaemonSays(s, says)
    PROVE  ServerInv'
<1> DEFINE y == [daemon[s] EXCEPT !.says = says, !.read = FALSE]
<1>1. /\ session[s] \in Session /\ daemon[s] \in Daemon /\ SessionOK(s) /\ hadKey \in BOOLEAN
      /\ session \in [Sessions -> Session] /\ daemon \in [Sessions -> Daemon]
      /\ keyFile \in [private : Pairs, public : Pairs]
      /\ mapDaemon \in [Keys -> Entry] /\ OnePair
  BY Parts DEF MapOK
<1>3. y \in Daemon
  BY <1>1 DEF DaemonSays, Daemon, Session, Pairs, Answered
<1>4. session' = session /\ daemon' = [daemon EXCEPT ![s] = y] /\ hadKey' = hadKey
  BY DEF DaemonSays
<1>5. session'[s] = session[s] /\ daemon'[s] = y
  BY <1>1, <1>4
<1>6. SessionOK(s)'
  BY <1>1, <1>4, <1>5 DEF DaemonSays, Session, Daemon, Answered, Silent,
     KeyPathFound, OnePair, SessionOK, WorkerOK, HandshakeOK, AlgorithmFits, OnePairSent, VerifyTypeFits, GetDaemonAuthType
<1>7. session' \in [Sessions -> Session] /\ daemon' \in [Sessions -> Daemon]
      /\ \A t \in Sessions : SessionOK(t)'
  <2>1. session' = [session EXCEPT ![s] = session[s]]
    BY <1>1, <1>4
  <2> QED
    BY <2>1, <1>1, <1>3, <1>4, <1>6, OneSession
<1>8. OnePair'
  BY <1>1, <1>4 DEF DaemonSays, OnePair
<1>9. BoundIsAccepted'
  <2>1. \A t \in Sessions : daemon[t].says = "OK" => daemon'[t].says = "OK"
    BY <1>1, <1>4 DEF DaemonSays, Answered, Daemon
  <2>2. channel' = channel
    BY DEF DaemonSays
  <2> QED
    BY <2>1, <2>2, StaysAccepted
<1>10. MapOK'
  BY Parts DEF MapOK, DaemonSays
<1>11. (keyFile \in [private : Pairs, public : Pairs])'
  BY <1>1 DEF DaemonSays
<1>12. (mapForward \in [Rules -> {0} \cup Sessions])'
  BY Parts DEF DaemonSays
<1>13. (channel \in [key : {0} \cup Keys, session : {0} \cup Sessions])'
  BY Parts DEF DaemonSays
<1> QED
  BY <1>1, <1>4, <1>7, <1>8, <1>9, <1>10, <1>11, <1>12, <1>13, PartsNext

LEMMA ConnectKeeps ==
    ASSUME ServerInv, NEW s \in Sessions,
           Connect(s)
    PROVE  ServerInv'
<1> DEFINE x == [session[s] EXCEPT !.state = "working"]
<1>1. /\ session[s] \in Session /\ daemon[s] \in Daemon /\ SessionOK(s) /\ hadKey \in BOOLEAN
      /\ session \in [Sessions -> Session] /\ daemon \in [Sessions -> Daemon]
      /\ keyFile \in [private : Pairs, public : Pairs]
      /\ mapDaemon \in [Keys -> Entry] /\ OnePair
  BY Parts DEF MapOK
<1>2. x \in Session
  BY <1>1, BoundsAssumption DEF Connect, Session, Entry, Pairs, Keys, Algorithms,
     KeyPathFound, GetDaemonAuthType, Absent
<1>4. session' = [session EXCEPT ![s] = x] /\ daemon' = daemon /\ hadKey' = hadKey
  BY DEF Connect
<1>5. session'[s] = x /\ daemon'[s] = daemon[s]
  BY <1>1, <1>4
<1>6. SessionOK(s)'
  BY <1>1, <1>4, <1>5 DEF Connect, Session, Daemon, Answered, Silent, KeyPathFound,
     OnePair, SessionOK, WorkerOK, HandshakeOK, AlgorithmFits, OnePairSent, VerifyTypeFits, GetDaemonAuthType
<1>7. session' \in [Sessions -> Session] /\ daemon' \in [Sessions -> Daemon]
      /\ \A t \in Sessions : SessionOK(t)'
  BY <1>2, <1>4, <1>6, OneWorker
<1>8. OnePair'
  <2>1. hadKey => x.pc \notin {"generate", "write"}
    BY <1>1 DEF Connect, Session, KeyPathFound, OnePair
  <2>2. keyFile' = keyFile
    BY DEF Connect
  <2> QED
    BY <2>1, <2>2, <1>2, <1>4, StaysOnePair
<1>9. BoundIsAccepted'
  <2>1. \A t \in Sessions : daemon[t].says = "OK" => daemon'[t].says = "OK"
    BY <1>1, <1>4 DEF Connect, Answered, Daemon
  <2>2. channel' = channel
    BY DEF Connect
  <2> QED
    BY <2>1, <2>2, StaysAccepted
<1>10. MapOK'
  BY Parts DEF MapOK, Connect
<1>11. (keyFile \in [private : Pairs, public : Pairs])'
  BY <1>1 DEF Connect
<1>12. (mapForward \in [Rules -> {0} \cup Sessions])'
  BY Parts DEF Connect
<1>13. (channel \in [key : {0} \cup Keys, session : {0} \cup Sessions])'
  BY Parts DEF Connect
<1> QED
  BY <1>1, <1>4, <1>7, <1>8, <1>9, <1>10, <1>11, <1>12, <1>13, PartsNext

\* FreeSession marks the entry of the key and drops the rules, whoever they
\* belong to by now.
LEMMA LoseKeeps ==
    ASSUME ServerInv, NEW s \in Sessions, FreeSession(s),
           UNCHANGED <<daemon, keyFile, hadKey, channel>>
    PROVE  ServerInv'
<1> DEFINE x == [session[s] EXCEPT !.isDead = TRUE]
<1> DEFINE e == [mapDaemon[session[s].key] EXCEPT !.connStatus = "OFFLINE"]
<1>1. /\ session[s] \in Session /\ daemon[s] \in Daemon /\ SessionOK(s)
      /\ session \in [Sessions -> Session] /\ daemon \in [Sessions -> Daemon]
      /\ MapOK /\ OnePair
  BY Parts
<1>2. x \in Session
  BY <1>1 DEF Session
<1>3. session' = [session EXCEPT ![s] = x] /\ daemon' = daemon /\ hadKey' = hadKey
  BY DEF FreeSession
<1>4. session'[s] = x /\ daemon'[s] = daemon[s]
  BY <1>1, <1>3
<1>5. SessionOK(s)'
  BY <1>1, <1>3, <1>4 DEF FreeSession, Session, SessionOK, WorkerOK, HandshakeOK,
     AlgorithmFits, OnePairSent, VerifyTypeFits, GetDaemonAuthType
<1>6. session' \in [Sessions -> Session] /\ daemon' \in [Sessions -> Daemon]
      /\ \A t \in Sessions : SessionOK(t)'
  BY <1>2, <1>3, <1>5, OneWorker
<1>7. OnePair'
  <2>1. hadKey => x.pc \notin {"generate", "write"}
    BY <1>1 DEF Session, OnePair
  <2> QED
    BY <2>1, <1>2, <1>3, StaysOnePair
<1>8. BoundIsAccepted'
  BY <1>3, StaysAccepted
<1>9. MapOK'
  <2>1. session[s].key \in Keys
    BY <1>1 DEF FreeSession, SessionOK, WorkerOK, Session
  <2>2. e \in Entry /\ e.connStatus # "none"
    BY <2>1, <1>1 DEF MapOK, Entry
  <2>3. mapDaemon' = OpUpdate(mapDaemon, session[s].key, e)
    BY DEF FreeSession, Notify
  <2> QED
    BY <2>1, <2>2, <2>3, <1>1, UpdateKeepsMap
<1>10. (mapForward \in [Rules -> {0} \cup Sessions])'
  BY Parts DEF FreeSession, Notify
<1>11. /\ (keyFile \in [private : Pairs, public : Pairs])' /\ (hadKey \in BOOLEAN)'
       /\ (channel \in [key : {0} \cup Keys, session : {0} \cup Sessions])'
  BY Parts
<1> QED
  BY <1>6, <1>7, <1>8, <1>9, <1>10, <1>11, PartsNext

\* A channel that was bound to the session is unbound with it.
LEMMA FreeSessionFinallyKeeps ==
    ASSUME ServerInv, NEW s \in Sessions, FreeSessionFinally(s)
    PROVE  ServerInv'
<1> DEFINE x == [Unused EXCEPT !.isDead = TRUE, !.state = "freed"]
<1>1. /\ session \in [Sessions -> Session] /\ daemon \in [Sessions -> Daemon]
      /\ OnePair /\ BoundIsAccepted
      /\ channel \in [key : {0} \cup Keys, session : {0} \cup Sessions]
  BY Parts
<1>2. x \in Session /\ Silent \in Daemon
  BY RecordTypes DEF Session
<1>3. /\ session' = [session EXCEPT ![s] = x] /\ daemon' = [daemon EXCEPT ![s] = Silent]
      /\ hadKey' = hadKey /\ keyFile' = keyFile
  BY DEF FreeSessionFinally
<1>4. session'[s] = x /\ daemon'[s] = Silent
  BY <1>1, <1>3
<1>5. SessionOK(s)'
  BY <1>4 DEF Unused, Silent, SessionOK, WorkerOK, HandshakeOK,
     AlgorithmFits, OnePairSent, VerifyTypeFits, GetDaemonAuthType
<1>6. session' \in [Sessions -> Session] /\ daemon' \in [Sessions -> Daemon]
      /\ \A t \in Sessions : SessionOK(t)'
  BY <1>2, <1>3, <1>5, OneSession
<1>7. OnePair'
  <2>1. x.pc \notin {"generate", "write"}
    BY DEF Unused
  <2> QED
    BY <2>1, <1>2, <1>3, StaysOnePair
<1>8. channel' \in [key : {0} \cup Keys, session : {0} \cup Sessions]
      /\ (channel'.session # 0 => channel'.session = channel.session /\ channel.session # s)
  BY <1>1 DEF FreeSessionFinally
<1>9. BoundIsAccepted'
  BY <1>1, <1>3, <1>8 DEF BoundIsAccepted
<1>10. MapOK' /\ (mapForward \in [Rules -> {0} \cup Sessions])'
       /\ (keyFile \in [private : Pairs, public : Pairs])' /\ (hadKey \in BOOLEAN)'
  BY Parts DEF MapOK, FreeSessionFinally
<1> QED
  BY <1>6, <1>7, <1>8, <1>9, <1>10, PartsNext

-----------------------------------------------------------------------------
(* Commands of clients *)

\* The session is new: no daemon has spoken on it and no channel is bound to it.
LEMMA CreateConnectKeeps ==
    ASSUME ServerInv, NEW k \in Keys, CreateConnect(k)
    PROVE  ServerInv'
<1> PICK s \in Fresh :
        /\ session' = [session EXCEPT ![s] = [Unused EXCEPT
               !.key = k, !.state = "connecting"]]
        /\ mapDaemon' = [mapDaemon EXCEPT ![k] =
               [OpAdd(mapDaemon, k, "UNKNOW")[k] EXCEPT !.hSession = s]]
  BY DEF CreateConnect
<1> DEFINE x == [Unused EXCEPT !.key = k, !.state = "connecting"]
<1> DEFINE a == OpAdd(mapDaemon, k, "UNKNOW")[k]
<1> DEFINE e == [a EXCEPT !.hSession = s]
<1>1. /\ session \in [Sessions -> Session] /\ daemon \in [Sessions -> Daemon]
      /\ MapOK /\ \A t \in Sessions : SessionOK(t)
  BY Parts
<1>2. s \in Sessions /\ session[s].state = "none"
  BY DEF Fresh
<1>3. x \in Session
  BY RecordTypes DEF Session
<1>4. /\ session' = [session EXCEPT ![s] = x] /\ daemon' = daemon
      /\ hadKey' = hadKey /\ keyFile' = keyFile /\ channel' = channel
  BY DEF CreateConnect
<1>5. session'[s] = x /\ daemon'[s] = Silent
  BY <1>1, <1>2, <1>4 DEF SessionOK, WorkerOK
<1>6. SessionOK(s)'
  <2>1. k # 0
    BY BoundsAssumption DEF Keys
  <2>2. /\ x.key = k /\ x.state = "connecting" /\ x.pc = "idle"
        /\ x.handshakeOK = FALSE
    BY DEF Unused
  <2>3. /\ daemon'[s].says = "nothing" /\ daemon'[s].signature = 0
    BY <1>5 DEF Silent
  <2> HIDE DEF x
  <2>4. WorkerOK(s)'
    BY <1>5, <2>1, <2>2 DEF WorkerOK
  <2>5. HandshakeOK(s)'
    BY <1>5, <2>2, <2>3 DEF HandshakeOK
  <2>6. AlgorithmFits(s)'
    BY <1>5, <2>2, <2>3 DEF AlgorithmFits
  <2>7. OnePairSent(s)'
    BY <2>3 DEF OnePairSent
  <2> QED
    BY <2>4, <2>5, <2>6, <2>7 DEF SessionOK
<1>7. session' \in [Sessions -> Session] /\ daemon' \in [Sessions -> Daemon]
      /\ \A t \in Sessions : SessionOK(t)'
  BY <1>2, <1>3, <1>4, <1>6, OneWorker
<1>8. OnePair'
  <2>1. x.pc \notin {"generate", "write"}
    BY DEF Unused
  <2> QED
    BY <2>1, <1>2, <1>3, <1>4, StaysOnePair
<1>9. BoundIsAccepted'
  BY <1>4, StaysAccepted
<1>10. MapOK'
  <2>1. a \in Entry /\ a.connStatus # "none"
    <3>1. PICK status \in {"READY", "UNKNOW"} : status = "UNKNOW"
      OBVIOUS
    <3> QED
      BY <3>1, <1>1, AddedIsThere
  <2>2. e \in Entry /\ e.connStatus # "none"
    BY <2>1, <1>2 DEF Entry
  <2>3. mapDaemon' = [mapDaemon EXCEPT ![k] = e]
    OBVIOUS
  <2> QED
    BY <2>2, <2>3, <1>1, EntryWritten
<1>11. (mapForward \in [Rules -> {0} \cup Sessions])'
       /\ (keyFile \in [private : Pairs, public : Pairs])' /\ (hadKey \in BOOLEAN)'
       /\ (channel \in [key : {0} \cup Keys, session : {0} \cup Sessions])'
  BY Parts DEF CreateConnect
<1> QED
  BY <1>7, <1>8, <1>9, <1>10, <1>11, PartsNext

\* A command that leaves sessions, daemons and key files alone.
LEMMA CommandKeeps ==
    ASSUME ServerInv, UNCHANGED <<session, daemon, keyFile, hadKey>>,
           MapOK', BoundIsAccepted',
           (mapForward \in [Rules -> {0} \cup Sessions])',
           (channel \in [key : {0} \cup Keys, session : {0} \cup Sessions])'
    PROVE  ServerInv'
<1>1. \A t \in Sessions : SessionOK(t)'
  <2> TAKE t \in Sessions
  <2> QED
    BY Parts, Untouched
<1>2. OnePair'
  BY Parts DEF OnePair
<1> QED
  BY <1>1, <1>2, Parts, PartsNext

\* An entry that is added stands for no session yet.
LEMMA EntryAddedKeeps ==
    ASSUME ServerInv, NEW k \in Keys,
           CreateConnectFail(k) \/ OrderFindTargets(k)
    PROVE  ServerInv'
<1>1. PICK status \in {"READY", "UNKNOW"} : mapDaemon' = OpAdd(mapDaemon, k, status)
  BY DEF CreateConnectFail, OrderFindTargets
<1>2. UNCHANGED <<session, daemon, keyFile, hadKey, mapForward, channel>>
  BY DEF CreateConnectFail, OrderFindTargets
<1>3. MapOK'
  BY <1>1, Parts, AddKeepsMap
<1>4. BoundIsAccepted'
  BY <1>2, StaysAccepted
<1> QED
  BY <1>2, <1>3, <1>4, Parts, CommandKeeps

\* What is found alive has done its handshake.
LEMMA FoundIsAccepted ==
    ASSUME ServerInv, NEW k \in Keys, NEW s \in FindAlive(k)
    PROVE  s \in Sessions /\ daemon[s].says = "OK"
<1>1. /\ s = mapDaemon[k].hSession /\ s # 0 /\ session[s].handshakeOK
  BY DEF FindAlive, Lives
<1>2. s \in Sessions
  BY <1>1, Parts DEF MapOK, Entry
<1> QED
  BY <1>1, <1>2, Parts DEF SessionOK, HandshakeOK

\* The entry of the key may have been taken over since BindChannelToSession
\* looked at it: what counts is the second look.
LEMMA BindKeeps ==
    ASSUME ServerInv,
           BindNextLoop \/ \E k \in Keys, any \in BOOLEAN : BindChannelToSession(k, any)
    PROVE  ServerInv'
<1>1. channel \in [key : {0} \cup Keys, session : {0} \cup Sessions]
  BY Parts
<1>2. UNCHANGED <<mapDaemon, session, daemon, keyFile, hadKey, mapForward>>
  BY DEF BindNextLoop, BindChannelToSession
<1>3. /\ channel' \in [key : {0} \cup Keys, session : {0} \cup Sessions]
      /\ channel'.session # 0 => daemon[channel'.session].says = "OK"
  <2>1. CASE \E k \in Keys, any \in BOOLEAN : BindChannelToSession(k, any)
    BY <2>1 DEF BindChannelToSession
  <2>2. CASE BindNextLoop
    <3>1. channel.key \in Keys
      BY <1>1, <2>2 DEF BindNextLoop
    <3>2. PICK s \in FindAlive(channel.key) \cup {0} :
              channel' = [key |-> 0, session |-> s]
      BY <2>2 DEF BindNextLoop
    <3>3. s # 0 => s \in Sessions /\ daemon[s].says = "OK"
      BY <3>1, FoundIsAccepted
    <3> QED
      BY <3>2, <3>3
  <2> QED
    BY <2>1, <2>2
<1>4. BoundIsAccepted'
  BY <1>2, <1>3 DEF BoundIsAccepted
<1> QED
  BY <1>2, <1>3, <1>4, Parts, CommandKeeps DEF MapOK

LEMMA RemoveFportkeyKeeps ==
    ASSUME ServerInv, NEW r \in Rules, RemoveFportkey(r)
    PROVE  ServerInv'
<1>1. UNCHANGED <<mapDaemon, session, daemon, keyFile, hadKey, channel>>
      /\ (mapForward \in [Rules -> {0} \cup Sessions])'
  BY Parts DEF RemoveFportkey
<1>2. BoundIsAccepted'
  BY <1>1, StaysAccepted
<1> QED
  BY <1>1, <1>2, Parts, CommandKeeps DEF MapOK

-----------------------------------------------------------------------------
(* The theorems *)

LEMMA InitServerInv == Init => ServerInv
<1> SUFFICES ASSUME Init PROVE ServerInv
  OBVIOUS
<1>1. mapDaemon \in [Keys -> Entry] /\ session \in [Sessions -> Session]
      /\ daemon \in [Sessions -> Daemon]
  BY RecordTypes DEF Init
<1>2. MapOK
  BY <1>1 DEF Init, MapOK
<1>3. \A s \in Sessions : SessionOK(s)
  BY DEF Init, Unused, Silent, SessionOK, WorkerOK, HandshakeOK, AlgorithmFits,
         OnePairSent, VerifyTypeFits, GetDaemonAuthType
<1>4. /\ keyFile \in [private : Pairs, public : Pairs]
      /\ hadKey \in BOOLEAN /\ mapForward \in [Rules -> {0} \cup Sessions]
      /\ channel \in [key : {0} \cup Keys, session : {0} \cup Sessions]
  <2>1. 0 \in Pairs /\ 1 \in Pairs
    BY BoundsAssumption DEF Pairs
  <2> QED
    BY <2>1 DEF Init
<1>5. OnePair /\ BoundIsAccepted
  BY DEF Init, OnePair, BoundIsAccepted, Unused
<1> QED
  BY <1>1, <1>2, <1>3, <1>4, <1>5, Parts

LEMMA NextServerInv == ServerInv /\ [Next]_vars => ServerInv'
<1> SUFFICES ASSUME ServerInv, [Next]_vars PROVE ServerInv'
  OBVIOUS
<1>1. CASE Command
  <2>1. CASE \/ \E k \in Keys : CreateConnect(k)
             \/ \E k \in OpGetAny : CreateConnect(k)
    BY <2>1, CreateConnectKeeps DEF OpGetAny
  <2>2. CASE \E k \in Keys : CreateConnectFail(k) \/ OrderFindTargets(k)
    BY <2>2, EntryAddedKeeps
  <2>3. CASE \E k \in Keys : CommandRemoveSession(k)
    <3>1. PICK k \in Keys : CommandRemoveSession(k)
      BY <2>3
    <3>2. mapDaemon[k].hSession \in Sessions
      BY <3>1, Parts DEF CommandRemoveSession, Lives, MapOK, Entry
    <3> QED
      BY <3>1, <3>2, LoseKeeps DEF CommandRemoveSession
  <2>4. CASE BindNextLoop \/ \E k \in Keys, any \in BOOLEAN : BindChannelToSession(k, any)
    BY <2>4, BindKeeps
  <2>5. CASE \E r \in Rules : RemoveFportkey(r)
    BY <2>5, RemoveFportkeyKeeps
  <2> QED
    BY <1>1, <2>1, <2>2, <2>3, <2>4, <2>5 DEF Command
<1>2. ASSUME NEW s \in Sessions, MainSession(s) PROVE ServerInv'
  <2>1. Lose(s) => ServerInv'
    BY LoseKeeps DEF Lose
  <2> QED
    BY <1>2, <2>1, ConnectKeeps, FreeSessionFinallyKeeps DEF MainSession
<1>3. ASSUME NEW s \in Sessions, Worker(s) PROVE ServerInv'
  BY <1>3, HandServerAuthKeeps, GeneratePrivateKeeps, WritePublicKeeps,
     SendPublicKeyKeeps, RsaSignAndBase64Keeps, UpdateHdiInfoCopyKeeps,
     UpdateHdiInfoKeeps, HandshakeFailedKeeps, ForwardSuccessKeeps,
     AdminForwardMapAddKeeps DEF Worker
<1>4. CASE \E s \in Sessions, says \in {"PUBLICKEY", "SIGNATURE", "OK", "FAILED"} :
               DaemonSays(s, says)
  BY <1>4, DaemonSaysKeeps
<1>5. CASE UNCHANGED vars
  <2>1. UNCHANGED <<session, daemon, keyFile, hadKey, mapDaemon, mapForward, channel>>
    BY <1>5 DEF vars
  <2>2. BoundIsAccepted'
    BY <2>1, StaysAccepted
  <2> QED
    BY <2>1, <2>2, Parts, CommandKeeps DEF MapOK
<1> QED
  BY <1>1, <1>2, <1>3, <1>4, <1>5 DEF Next

\* The inductive invariant: the types of the map, the sessions and the keys, and
\* for each session that what its worker and its daemon did so far agree.
THEOREM ServerInvHolds == Spec => []ServerInv
BY InitServerInv, NextServerInv, PTL DEF Spec

\* A channel is attached only to a session its daemon accepted.  For any number
\* of keys and sessions, whoever wrote the entry of the key last (CreateConnect,
\* the two halves of UpdateHdiInfo, NotifyInstanceSessionFree): hSession of the
\* entry may be another session than the one the entry was written for, but
\* FindAliveSessionFromDaemonMap asks that session whether its handshake is done.
THEOREM BoundIsAcceptedHolds == Spec => []BoundIsAccepted
<1>1. ServerInv => BoundIsAccepted
  BY DEF ServerInv
<1> QED
  BY <1>1, ServerInvHolds, PTL

\* A token is signed with the algorithm the daemon announced or can do without
\* announcing, and, when the key files were there from the start, with the
\* private half of the public key that daemon was sent.
THEOREM SignatureFitsHolds == Spec => []SignatureFits
<1>1. ServerInv => SignatureFits
  <2> SUFFICES ASSUME ServerInv, NEW s \in Sessions, daemon[s].signature # 0
               PROVE  /\ daemon[s].algorithm = "RSA_3072_SHA512" <=> s \in Modern
                      /\ hadKey => daemon[s].signature = daemon[s].publicKey
    BY DEF SignatureFits
  <2> QED
    BY Parts DEF SessionOK, AlgorithmFits, OnePairSent, GetDaemonAuthType
<1> QED
  BY <1>1, ServerInvHolds, PTL

-----------------------------------------------------------------------------
(* The loop of GetDaemonMapOnlyOne *)

\* Some element of a set of numbers is the least: what is shown of a number from
\* the smaller ones is shown by looking at the least one it fails for.
LEMMA Smallest ==
    ASSUME NEW T, T \subseteq Nat, T # {}
    PROVE  \E x \in T : \A y \in T : x <= y
<1> DEFINE R == {p \in Nat \X Nat : p[1] < p[2]}
<1>1. IsWellFoundedOn(R, Nat)
    BY NatLessThanWellFounded DEF OpToRel
<1>2. PICK x \in T : \A y \in T : <<y, x>> \notin R
    <2> HIDE DEF R
    <2> QED
        BY <1>1, WFMin
<1>3. ASSUME NEW y \in T
      PROVE  x <= y
    <2>1. x \in Nat /\ y \in Nat
        OBVIOUS
    <2>2. ~(y < x)
        BY <2>1, <1>2
    <2> QED
        BY <2>1, <2>2
<1> QED
    BY <1>3

\* One turn of the loop, at entry k; g are the results of the turns.
Turn(g, k) ==
    IF k = 0 THEN [key |-> 0, break |-> FALSE]
    ELSE IF g[k - 1].break \/ k \notin Connected THEN g[k - 1]
    ELSE IF g[k - 1].key = 0 THEN [key |-> k, break |-> FALSE]
    ELSE [key |-> 0, break |-> TRUE]

\* What is known after k turns, said without a loop: whether no entry, one or more
\* of the first k are connected, and the one.
FirstOnes(k) == {j \in Connected : j <= k}
Result(k) ==
    IF FirstOnes(k) = {} THEN [key |-> 0, break |-> FALSE]
    ELSE IF \E j \in Keys : FirstOnes(k) = {j}
         THEN [key |-> CHOOSE j \in Keys : FirstOnes(k) = {j}, break |-> FALSE]
    ELSE [key |-> 0, break |-> TRUE]

LEMMA ResultIs ==
    ASSUME NEW k
    PROVE  /\ FirstOnes(k) = {} => Result(k).key = 0 /\ ~Result(k).break
           /\ \A j \in Keys : FirstOnes(k) = {j} => Result(k).key = j /\ ~Result(k).break
           /\ FirstOnes(k) # {} /\ ~(\E j \in Keys : FirstOnes(k) = {j}) =>
                  Result(k).key = 0 /\ Result(k).break
           /\ Result(k) = [key |-> Result(k).key, break |-> Result(k).break]
<1>1. CASE FirstOnes(k) = {}
  <2>1. Result(k) = [key |-> 0, break |-> FALSE]
    BY <1>1 DEF Result
  <2> QED
    BY <1>1, <2>1
<1>2. CASE \E j \in Keys : FirstOnes(k) = {j}
  <2>1. PICK j \in Keys : FirstOnes(k) = {j}
    BY <1>2
  <2>2. (CHOOSE i \in Keys : FirstOnes(k) = {i}) = j
    BY <2>1
  <2>3. Result(k) = [key |-> j, break |-> FALSE]
    BY <1>2, <2>1, <2>2 DEF Result
  <2> QED
    BY <2>1, <2>3
<1>3. CASE FirstOnes(k) # {} /\ ~(\E j \in Keys : FirstOnes(k) = {j})
  <2>1. Result(k) = [key |-> 0, break |-> TRUE]
    BY <1>3 DEF Result
  <2> QED
    BY <1>3, <2>1
<1> QED
  BY <1>1, <1>2, <1>3

\* The results without the loop are such as the loop makes them.
LEMMA ResultTurns ==
    ASSUME NEW k \in 0..MaxKeys, NEW g, k # 0 => g[k - 1] = Result(k - 1)
    PROVE  Turn(g, k) = Result(k)
<1>0. Keys \subseteq Nat \ {0} /\ Connected \subseteq Keys /\ MaxKeys \in Nat
  BY BoundsAssumption DEF Keys, Connected
<1>1. CASE k = 0
  <2>1. \A j \in Connected : ~(j <= 0)
    BY <1>0
  <2>2. FirstOnes(k) = {}
    BY <1>1, <2>1 DEF FirstOnes
  <2>3. Result(k) = [key |-> 0, break |-> FALSE]
    BY <2>2 DEF Result
  <2> QED
    BY <1>1, <2>3 DEF Turn
<1>2. CASE k # 0
  <2> DEFINE p == k - 1
  <2>1. p \in Nat /\ k \in Keys /\ g[p] = Result(p)
    BY <1>0, <1>2 DEF Keys
  <2>2. Turn(g, k) = IF Result(p).break \/ k \notin Connected THEN Result(p)
                     ELSE IF Result(p).key = 0 THEN [key |-> k, break |-> FALSE]
                     ELSE [key |-> 0, break |-> TRUE]
    BY <1>2, <2>1 DEF Turn
  <2>3. \A j \in Connected : j <= k <=> j <= p \/ j = k
    BY <1>0
  <2>4. \A j \in Connected : j <= p => j # k
    BY <1>0
  <2> HIDE DEF p
  <2>5. CASE k \notin Connected
    <3>1. FirstOnes(k) = FirstOnes(p)
      BY <2>3, <2>5 DEF FirstOnes
    <3>2. Result(k) = Result(p)
      BY <3>1 DEF Result
    <3> QED
      BY <2>2, <2>5, <3>2
  <2>6. CASE k \in Connected
    <3>1. FirstOnes(k) = FirstOnes(p) \cup {k} /\ k \notin FirstOnes(p)
      BY <2>3, <2>4, <2>6 DEF FirstOnes
    <3>2. CASE FirstOnes(p) = {}
      <4>1. FirstOnes(k) = {k}
        BY <3>1, <3>2
      <4>2. Result(k) = [key |-> k, break |-> FALSE]
        BY <2>1, <4>1, ResultIs
      <4>3. Result(p).key = 0 /\ ~Result(p).break
        BY <3>2, ResultIs
      <4> QED
        BY <2>2, <2>6, <4>2, <4>3
    <3>3. CASE FirstOnes(p) # {}
      <4>1. FirstOnes(k) # {} /\ ~(\E j \in Keys : FirstOnes(k) = {j})
        BY <3>1, <3>3
      <4>2. Result(k) = [key |-> 0, break |-> TRUE]
        BY <4>1 DEF Result
      <4>3. CASE \E j \in Keys : FirstOnes(p) = {j}
        <5>1. Result(p).key # 0 /\ ~Result(p).break
          BY <1>0, <4>3, ResultIs
        <5> QED
          BY <2>2, <2>6, <4>2, <5>1
      <4>4. CASE ~(\E j \in Keys : FirstOnes(p) = {j})
        <5>1. Result(p) = [key |-> 0, break |-> TRUE]
          BY <3>3, <4>4 DEF Result
        <5> QED
          BY <2>2, <4>2, <5>1
      <4> QED
        BY <4>3, <4>4
    <3> QED
      BY <3>2, <3>3
  <2> QED
    BY <2>5, <2>6
<1> QED
  BY <1>1, <1>2

LEMMA OnlyOneIs == GetDaemonMapOnlyOne = Result(MaxKeys).key
<1> DEFINE g == CHOOSE g : g = [k \in 0..MaxKeys |-> Turn(g, k)]
           T == {k \in 0..MaxKeys : g[k] # Result(k)}
<1>0. MaxKeys \in Nat
  BY BoundsAssumption
<1>1. GetDaemonMapOnlyOne = g[MaxKeys].key
  BY DEF GetDaemonMapOnlyOne, Turn
<1>2. \E h : h = [k \in 0..MaxKeys |-> Turn(h, k)]
  <2> DEFINE h == [k \in 0..MaxKeys |-> Result(k)]
  <2>1. ASSUME NEW k \in 0..MaxKeys
        PROVE  h[k] = Turn(h, k)
    <3>1. k # 0 => k - 1 \in 0..MaxKeys
      BY <1>0
    <3>2. h[k] = Result(k) /\ (k # 0 => h[k - 1] = Result(k - 1))
      BY <3>1
    <3> HIDE DEF h
    <3> QED
      BY <3>2, ResultTurns
  <2>2. h = [k \in 0..MaxKeys |-> h[k]]
    OBVIOUS
  <2> HIDE DEF h
  <2>3. h = [k \in 0..MaxKeys |-> Turn(h, k)]
    BY <2>1, <2>2
  <2> QED
    BY <2>3
<1>3. g = [k \in 0..MaxKeys |-> Turn(g, k)]
  BY <1>2
<1> HIDE DEF g
<1>4. \A k \in 0..MaxKeys : g[k] = Turn(g, k)
  BY <1>3
<1>5. T = {}
  <2> SUFFICES ASSUME T # {}
               PROVE  FALSE
    OBVIOUS
  <2>1. PICK k \in T : \A j \in T : k <= j
    <3>1. T \subseteq Nat
      BY <1>0
    <3> QED
      BY <3>1, Smallest
  <2>2. k # 0 => k - 1 \in 0..MaxKeys /\ ~(k <= k - 1)
    BY <1>0, <2>1
  <2>3. k # 0 => g[k - 1] = Result(k - 1)
    BY <2>1, <2>2
  <2>4. Turn(g, k) = Result(k)
    BY <2>1, <2>3, ResultTurns
  <2> QED
    BY <1>4, <2>1, <2>4
<1>6. g[MaxKeys] = Result(MaxKeys)
  BY <1>0, <1>5
<1> QED
  BY <1>1, <1>6

\* A client that names no device gets one only if it is the only one that is
\* connected, for every number of devices: the loop of GetDaemonMapOnlyOne finds
\* none when there is a second, wherever in the map the two are.
THEOREM OnlyOneIsOnlyOneHolds == Spec => []OnlyOneIsOnlyOne
<1>1. OnlyOneIsOnlyOne
  <2>1. Connected \subseteq Keys /\ IsFiniteSet(Connected)
    <3>1. Connected \in SUBSET (1..MaxKeys)
      BY DEF Connected, Keys
    <3>2. IsFiniteSet(1..MaxKeys)
      BY BoundsAssumption, FS_Interval
    <3> QED
      BY <3>1, <3>2, FS_Subset DEF Keys
  <2>2. FirstOnes(MaxKeys) = Connected
    <3>1. \A j \in Connected : j <= MaxKeys
      BY <2>1, BoundsAssumption DEF Keys
    <3> QED
      BY <3>1 DEF FirstOnes
  <2>3. Cardinality(Connected) = 1 <=> \E j : Connected = {j}
    BY <2>1, FS_Singleton
  <2>4. CASE \E j \in Keys : Connected = {j}
    <3>1. PICK j \in Keys : Connected = {j}
      BY <2>4
    <3>2. GetDaemonMapOnlyOne = j
      BY <2>2, <3>1, OnlyOneIs, ResultIs
    <3> QED
      BY <2>3, <3>1, <3>2 DEF OnlyOneIsOnlyOne
  <2>5. CASE ~(\E j \in Keys : Connected = {j})
    <3>1. GetDaemonMapOnlyOne = 0
      BY <2>2, <2>5, OnlyOneIs, ResultIs
    <3>2. ~(\E j : Connected = {j})
      BY <2>1, <2>5
    <3> QED
      BY <2>3, <3>1, <3>2 DEF OnlyOneIsOnlyOne
  <2> QED
    BY <2>4, <2>5
<1> QED
  BY <1>1, PTL DEF Spec
=============================================================================
