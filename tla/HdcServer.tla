------------------------------ MODULE HdcServer ------------------------------
(***************************************************************************)
(* What the server knows of its devices: host/server.cpp (mapDaemon,       *)
(* mapForward, the handshake with authentication), the commands of          *)
(* host/server_for_client.cpp that read or change it, and the keys of       *)
(* common/auth.cpp.  Commands run on the main thread, handshakes on the     *)
(* worker of the session; mapDaemon is locked for each access but not       *)
(* between the query and the update that follows it.                        *)
(*                                                                         *)
(* How a session is built and torn down is HdcSession's; here it has the   *)
(* steps the map depends on.  Where the code would follow hSession of an    *)
(* entry to a session that was deleted, or to none, the command is not      *)
(* taken: what it then does is undefined.                                   *)
(***************************************************************************)
EXTENDS Integers, FiniteSets

CONSTANTS
    MaxKeys,      \* bound: connect keys of devices
    MaxSessions,  \* bound: sessions ever allocated
    MaxPairs,     \* bound: key pairs ever generated
    Rules,        \* task strings of forwards
    Modern        \* bound: the sessions whose daemon knows RSA_3072_SHA512

ASSUME BoundsAssumption ==
    MaxKeys \in Nat \ {0} /\ MaxSessions \in Nat \ {0} /\ MaxPairs \in Nat \ {0}
    /\ Modern \subseteq 1..MaxSessions

Keys == 1..MaxKeys
Sessions == 1..MaxSessions
Pairs == 0..MaxPairs

VARIABLES
    mapDaemon,    \* per connect key: the daemon information
    session,      \* per session: the session and the stack of its worker
    daemon,       \* per session: the daemon's side of the handshake (external)
    keyFile,      \* key pairs in the private and the public key file
    hadKey,       \* whether the files were there when the server started
    mapForward,   \* per rule: the session it was set up on, or 0
    channel       \* the key a channel is to be bound to, and the session it was

vars == <<mapDaemon, session, daemon, keyFile, hadKey, mapForward, channel>>

Algorithms == {"RSA_ENCRYPT", "RSA_3072_SHA512"}

\* HdcDaemonInformation: name stands for what the handshake told, devName, emgmsg,
\* daemonAuthStatus and version, by the session that told it.
Entry == [connStatus : {"none", "READY", "UNKNOW", "CONNECTED", "OFFLINE"},
          hSession : {0} \cup Sessions, name : {0} \cup Sessions]

Absent == [connStatus |-> "none", hSession |-> 0, name |-> 0]

\* pc is where the worker is in ServerSessionHandshake, pair the key pair it
\* generated, and copy the diNew of UpdateHdiInfo.
Session == [key : {0} \cup Keys, isDead : BOOLEAN,
            state : {"none", "connecting", "working", "freed"},
            handshakeOK : BOOLEAN, verifyType : Algorithms,
            pc : {"idle", "generate", "write", "load", "update", "forward"},
            pair : Pairs, copy : Entry]

\* What the daemon last said; the public
\* key it was sent; the key and the algorithm of the signature it was sent.
Daemon == [says : {"nothing", "PUBLICKEY", "SIGNATURE", "OK", "FAILED"},
           read : BOOLEAN, publicKey : Pairs,
           signature : Pairs, algorithm : Algorithms]

TypeOK ==
    /\ mapDaemon \in [Keys -> Entry]
    /\ \A k \in Keys : mapDaemon[k].connStatus = "none" => mapDaemon[k] = Absent
    /\ session \in [Sessions -> Session]
    /\ daemon \in [Sessions -> Daemon]
    /\ keyFile \in [private : Pairs, public : Pairs]
    /\ hadKey \in BOOLEAN
    /\ mapForward \in [Rules -> {0} \cup Sessions]
    /\ channel \in [key : {0} \cup Keys, session : {0} \cup Sessions]

Unused == [key |-> 0, isDead |-> FALSE, state |-> "none", handshakeOK |-> FALSE,
           verifyType |-> "RSA_ENCRYPT", pc |-> "idle", pair |-> 0,
           copy |-> Absent]

Silent == [says |-> "nothing", read |-> TRUE, publicKey |-> 0,
           signature |-> 0, algorithm |-> "RSA_ENCRYPT"]

Init ==
    /\ mapDaemon = [k \in Keys |-> Absent]
    /\ session = [s \in Sessions |-> Unused]
    /\ daemon = [s \in Sessions |-> Silent]
    /\ hadKey \in BOOLEAN
    /\ keyFile = IF hadKey THEN [private |-> 1, public |-> 1]
                 ELSE [private |-> 0, public |-> 0]
    /\ mapForward = [r \in Rules |-> 0]
    /\ channel = [key |-> 0, session |-> 0]

-----------------------------------------------------------------------------
(* AdminDaemonMap *)

Known(k) == mapDaemon[k].connStatus # "none"
Connected == {k \in Keys : mapDaemon[k].connStatus = "CONNECTED"}

\* OP_ADD keeps an entry that is there.
OpAdd(map, k, status) ==
    IF map[k].connStatus # "none" THEN map
    ELSE [map EXCEPT ![k] = [Absent EXCEPT !.connStatus = status]]

\* OP_UPDATE changes nothing that is not there.
OpUpdate(map, k, e) == IF map[k].connStatus = "none" THEN map
                       ELSE [map EXCEPT ![k] = e]

\* OP_GET_ANY: the first that may be connected to.
OpGetAny == {k \in Keys : mapDaemon[k].connStatus \in {"READY", "CONNECTED"} /\
                \A j \in 1..(k - 1) :
                    mapDaemon[j].connStatus \notin {"READY", "CONNECTED"}}

\* Fault: the loop keeps the first of several.
GetDaemonMapFirst ==
    LET loop[k \in 0..MaxKeys] ==
            IF k = 0 THEN [key |-> 0, break |-> FALSE]
            ELSE IF loop[k - 1].key # 0 \/ k \notin Connected THEN loop[k - 1]
            ELSE [key |-> k, break |-> FALSE]
    IN loop[MaxKeys].key

\* GetDaemonMapOnlyOne: the loop over the map, which stops at the second device;
\* loop[k] is what it knows after the first k entries.
GetDaemonMapOnlyOne ==
    LET loop[k \in 0..MaxKeys] ==
            IF k = 0 THEN [key |-> 0, break |-> FALSE]
            ELSE IF loop[k - 1].break \/ k \notin Connected THEN loop[k - 1]
            ELSE IF loop[k - 1].key = 0 THEN [key |-> k, break |-> FALSE]
            ELSE [key |-> 0, break |-> TRUE]
    IN loop[MaxKeys].key

\* hSession of an entry is there to be followed.
Lives(k) == /\ mapDaemon[k].hSession # 0
            /\ session[mapDaemon[k].hSession].state # "freed"

-----------------------------------------------------------------------------
(* The main thread *)

Fresh == {s \in Sessions : session[s].state = "none" /\
             \A t \in Sessions : session[t].state = "none" => s <= t}

\* Fault: the entry of a new key is not added.
CreateConnectNoAdd(k) ==
    /\ mapDaemon[k].connStatus # "CONNECTED"
    /\ \E s \in Fresh :
           /\ session' = [session EXCEPT ![s] = [Unused EXCEPT
                  !.key = k, !.state = "connecting"]]
           /\ mapDaemon' = [mapDaemon EXCEPT ![k] =
                  [mapDaemon[k] EXCEPT !.hSession = s]]
    /\ UNCHANGED <<daemon, keyFile, hadKey, mapForward, channel>>

\* CreateConnect: a device that is connected is refused, one that is still being
\* connected is not.  ConnectDaemon starts the session.
CreateConnect(k) ==
    /\ mapDaemon[k].connStatus # "CONNECTED"
    /\ \E s \in Fresh :
           /\ session' = [session EXCEPT ![s] = [Unused EXCEPT
                  !.key = k, !.state = "connecting"]]
           /\ mapDaemon' = [mapDaemon EXCEPT ![k] =
                  [OpAdd(mapDaemon, k, "UNKNOW")[k] EXCEPT !.hSession = s]]
    /\ UNCHANGED <<daemon, keyFile, hadKey, mapForward, channel>>

\* ConnectDaemon fails: the entry stays.
CreateConnectFail(k) ==
    /\ mapDaemon' = OpAdd(mapDaemon, k, "UNKNOW")
    /\ UNCHANGED <<session, daemon, keyFile, hadKey, mapForward, channel>>

\* OrderFindTargets: a device that answered the broadcast.
OrderFindTargets(k) ==
    /\ mapDaemon' = OpAdd(mapDaemon, k, "READY")
    /\ UNCHANGED <<session, daemon, keyFile, hadKey, mapForward, channel>>

\* NotifyInstanceSessionFree and CleanForwardMap.
Notify(s) ==
    LET k == session[s].key IN
    /\ mapDaemon' = OpUpdate(mapDaemon, k,
                             [mapDaemon[k] EXCEPT !.connStatus = "OFFLINE"])
    /\ mapForward' = [r \in Rules |-> IF mapForward[r] = s THEN 0 ELSE mapForward[r]]

\* FreeSession, once.
FreeSession(s) ==
    /\ session[s].state \in {"connecting", "working"}
    /\ ~session[s].isDead
    /\ session' = [session EXCEPT ![s] = [session[s] EXCEPT !.isDead = TRUE]]
    /\ Notify(s)

\* The connection was made: the worker starts and sends the first handshake.
Connect(s) ==
    /\ session[s].state = "connecting"
    /\ ~session[s].isDead
    /\ session' = [session EXCEPT ![s] = [session[s] EXCEPT !.state = "working"]]
    /\ UNCHANGED <<mapDaemon, daemon, keyFile, hadKey, mapForward, channel>>

\* It was not made, or the connection or the handshake failed.
Lose(s) ==
    /\ FreeSession(s)
    /\ UNCHANGED <<daemon, keyFile, hadKey, channel>>

\* CommandRemoveSession: tconn -remove, and the end of checkdevice.
CommandRemoveSession(k) ==
    /\ Known(k)
    /\ Lives(k)
    /\ FreeSession(mapDaemon[k].hSession)
    /\ UNCHANGED <<daemon, keyFile, hadKey, channel>>

\* FreeSessionFinally: the worker ended before, and its channels are gone.
FreeSessionFinally(s) ==
    /\ session[s].isDead
    /\ session[s].state # "freed"
    /\ session[s].pc = "idle"
    /\ session' = [session EXCEPT ![s] = [Unused EXCEPT !.isDead = TRUE,
                                                      !.state = "freed"]]
    /\ daemon' = [daemon EXCEPT ![s] = Silent]
    /\ channel' = [channel EXCEPT
                      !.session = IF channel.session = s THEN 0 ELSE channel.session]
    /\ UNCHANGED <<mapDaemon, keyFile, hadKey, mapForward>>

\* Fault: a session that waits for its handshake is good enough.
FindAliveGreeting(k) ==
    LET s == mapDaemon[k].hSession IN
    IF k \in Connected /\ Lives(k) /\ ~session[s].isDead THEN {s} ELSE {}

\* FindAliveSessionFromDaemonMap: the session of the key, or none.
FindAlive(k) ==
    LET s == mapDaemon[k].hSession IN
    IF k \in Connected /\ Lives(k) /\ ~session[s].isDead /\ session[s].handshakeOK
    THEN {s} ELSE {}

\* CheckAutoFillTarget: the client named k, or any and k is the only one.
CheckAutoFillTarget(k, any) ==
    any => /\ GetDaemonMapOnlyOne = k
           /\ Lives(k)
           /\ session[mapDaemon[k].hSession].handshakeOK

\* BindChannelToSession; the channel is attached in the next turn of the loop,
\* after another look.
BindChannelToSession(k, any) ==
    /\ channel.key = 0
    /\ CheckAutoFillTarget(k, any)
    /\ FindAlive(k) # {}
    /\ channel' = [key |-> k, session |-> 0]
    /\ UNCHANGED <<mapDaemon, session, daemon, keyFile, hadKey, mapForward>>

BindNextLoop ==
    /\ channel.key # 0
    /\ \E s \in FindAlive(channel.key) \cup {0} :
           /\ s = 0 => FindAlive(channel.key) = {}
           /\ channel' = [key |-> 0, session |-> s]
    /\ UNCHANGED <<mapDaemon, session, daemon, keyFile, hadKey, mapForward>>

\* RemoveFportkey: the rule goes whether or not its session is still there.
RemoveFportkey(r) ==
    /\ mapForward[r] # 0
    /\ mapForward' = [mapForward EXCEPT ![r] = 0]
    /\ UNCHANGED <<mapDaemon, session, daemon, keyFile, hadKey, channel>>

-----------------------------------------------------------------------------
(* The worker of a session *)

\* The worker of s is between two steps of the handshake with the daemon.
At(s, pc) == session[s].state = "working" /\ session[s].pc = pc

\* The loop of OnRead takes what the daemon said unless the session is dead.
Reads(s, says) ==
    /\ At(s, "idle")
    /\ ~session[s].isDead
    /\ ~daemon[s].read
    /\ daemon[s].says = says

Answered(s) == [daemon[s] EXCEPT !.read = TRUE]

\* Fault: the algorithm of a daemon that announces none is left as it was.
GetDaemonAuthTypeNew(s) == "RSA_3072_SHA512"

\* GetDaemonAuthType.
GetDaemonAuthType(s) ==
    IF s \in Modern THEN "RSA_3072_SHA512" ELSE "RSA_ENCRYPT"

\* TryLoadPublicKey: only the private key is looked for.
KeyPathFound == keyFile.private # 0

\* HandServerAuth for AUTH_PUBLICKEY, as far as that look.
HandServerAuth(s) ==
    /\ Reads(s, "PUBLICKEY")
    /\ session' = [session EXCEPT ![s] = [session[s] EXCEPT
                      !.verifyType = GetDaemonAuthType(s),
                      !.pc = IF KeyPathFound THEN "load" ELSE "generate"]]
    /\ UNCHANGED <<mapDaemon, daemon, keyFile, hadKey, mapForward, channel>>

\* GenerateKeyPair: the private key is written, then the public key; another
\* worker may be at it as well.
GeneratePrivate(s) ==
    /\ At(s, "generate")
    /\ keyFile.private < MaxPairs
    /\ keyFile' = [keyFile EXCEPT !.private = keyFile.private + 1]
    /\ session' = [session EXCEPT ![s] = [session[s] EXCEPT
                      !.pc = "write", !.pair = keyFile.private + 1]]
    /\ UNCHANGED <<mapDaemon, daemon, hadKey, mapForward, channel>>

WritePublic(s) ==
    /\ At(s, "write")
    /\ keyFile' = [keyFile EXCEPT !.public = session[s].pair]
    /\ session' = [session EXCEPT ![s] = [session[s] EXCEPT
                      !.pc = "load", !.pair = 0]]
    /\ UNCHANGED <<mapDaemon, daemon, hadKey, mapForward, channel>>

\* LoadPublicKey and the answer of GetPublicKeyinfo.
SendPublicKey(s) ==
    /\ At(s, "load")
    /\ keyFile.public # 0
    /\ daemon' = [daemon EXCEPT ![s] = [Answered(s) EXCEPT
                      !.publicKey = keyFile.public]]
    /\ session' = [session EXCEPT ![s] = [session[s] EXCEPT !.pc = "idle"]]
    /\ UNCHANGED <<mapDaemon, keyFile, hadKey, mapForward, channel>>

\* RsaSignAndBase64: the token is signed with the private key of the file.
RsaSignAndBase64(s) ==
    /\ Reads(s, "SIGNATURE")
    /\ KeyPathFound
    /\ daemon' = [daemon EXCEPT ![s] = [Answered(s) EXCEPT
                      !.signature = keyFile.private,
                      !.algorithm = session[s].verifyType]]
    /\ UNCHANGED <<mapDaemon, session, keyFile, hadKey, mapForward, channel>>

\* UpdateHdiInfo: the entry is copied ...
UpdateHdiInfoCopy(s) ==
    /\ Reads(s, "OK")
    /\ daemon' = [daemon EXCEPT ![s] = Answered(s)]
    /\ session' = [session EXCEPT ![s] = [session[s] EXCEPT
                      !.pc = "update",
                      !.copy = [mapDaemon[session[s].key] EXCEPT
                                    !.connStatus = "CONNECTED", !.name = s]]]
    /\ UNCHANGED <<mapDaemon, keyFile, hadKey, mapForward, channel>>

\* ... and written back, whatever happened to it since.
UpdateHdiInfo(s) ==
    /\ At(s, "update")
    /\ mapDaemon' = OpUpdate(mapDaemon, session[s].key, session[s].copy)
    /\ session' = [session EXCEPT ![s] = [session[s] EXCEPT
                      !.pc = "idle", !.copy = Absent, !.handshakeOK = TRUE]]
    /\ UNCHANGED <<daemon, keyFile, hadKey, mapForward, channel>>

\* The handshake was refused, or a key cannot be read, the public key also when
\* another worker has written only the private one: Lose will follow.
HandshakeFailed(s) ==
    /\ \/ Reads(s, "FAILED")
       \/ Reads(s, "SIGNATURE") /\ ~KeyPathFound
       \/ At(s, "load") /\ keyFile.public = 0
    /\ daemon' = [daemon EXCEPT ![s] = Answered(s)]
    /\ session' = [session EXCEPT ![s] = [session[s] EXCEPT !.pc = "idle"]]
    /\ UNCHANGED <<mapDaemon, keyFile, hadKey, mapForward, channel>>

\* CMD_FORWARD_SUCCESS for the channel is taken from the stream ...
ForwardSuccess(s) ==
    /\ At(s, "idle")
    /\ ~session[s].isDead
    /\ channel.session = s
    /\ session' = [session EXCEPT ![s] = [session[s] EXCEPT !.pc = "forward"]]
    /\ UNCHANGED <<mapDaemon, daemon, keyFile, hadKey, mapForward, channel>>

\* ... and AdminForwardMap adds the rule; it keeps one that is there.
AdminForwardMapAdd(s, r) ==
    /\ At(s, "forward")
    /\ session' = [session EXCEPT ![s] = [session[s] EXCEPT !.pc = "idle"]]
    /\ mapForward' = [mapForward EXCEPT
                      ![r] = IF mapForward[r] = 0 THEN s ELSE mapForward[r]]
    /\ UNCHANGED <<mapDaemon, daemon, keyFile, hadKey, channel>>

\* The daemon: it asks for a key, then for a signature, and accepts or refuses.
DaemonSays(s, says) ==
    /\ session[s].state = "working"
    /\ daemon[s].read
    /\ \/ daemon[s].says = "nothing" /\ says \in {"PUBLICKEY", "OK"}
       \/ daemon[s].says = "PUBLICKEY" /\ says \in {"SIGNATURE", "FAILED"}
       \/ daemon[s].says = "SIGNATURE" /\ says \in {"OK", "FAILED"}
    /\ daemon' = [daemon EXCEPT ![s] = [daemon[s] EXCEPT
                      !.says = says, !.read = FALSE]]
    /\ UNCHANGED <<mapDaemon, session, keyFile, hadKey, mapForward, channel>>

-----------------------------------------------------------------------------
\* Commands of clients: tconn, checkdevice, target any, discover.
Command ==
    \/ \E k \in Keys : CreateConnect(k)
    \/ \E k \in OpGetAny : CreateConnect(k)
    \/ \E k \in Keys : CreateConnectFail(k)
    \/ \E k \in Keys : OrderFindTargets(k)
    \/ \E k \in Keys : CommandRemoveSession(k)
    \/ \E k \in Keys, any \in BOOLEAN : BindChannelToSession(k, any)
    \/ BindNextLoop
    \/ \E r \in Rules : RemoveFportkey(r)

MainSession(s) == Connect(s) \/ Lose(s) \/ FreeSessionFinally(s)

Worker(s) ==
    \/ HandServerAuth(s)
    \/ GeneratePrivate(s)
    \/ WritePublic(s)
    \/ SendPublicKey(s)
    \/ RsaSignAndBase64(s)
    \/ UpdateHdiInfoCopy(s)
    \/ UpdateHdiInfo(s)
    \/ HandshakeFailed(s)
    \/ ForwardSuccess(s)
    \/ \E r \in Rules : AdminForwardMapAdd(s, r)

Next ==
    \/ Command
    \/ \E s \in Sessions : MainSession(s) \/ Worker(s)
    \/ \E s \in Sessions, says \in {"PUBLICKEY", "SIGNATURE", "OK", "FAILED"} :
          DaemonSays(s, says)

Spec == Init /\ [][Next]_vars

-----------------------------------------------------------------------------
\* A channel is attached only to a session the daemon accepted, although another
\* attempt may have taken the entry of the key over after this one was accepted.
BoundIsAccepted == channel.session # 0 => daemon[channel.session].says = "OK"

\* The token is signed with the algorithm the daemon can check, and, when there
\* was a key pair from the start, with the key whose public half it was sent.
SignatureFits ==
    \A s \in Sessions : daemon[s].signature # 0 =>
        /\ daemon[s].algorithm = "RSA_3072_SHA512" <=> s \in Modern
        /\ hadKey => daemon[s].signature = daemon[s].publicKey

\* A client that names no device gets one only if exactly one is connected.
OnlyOneIsOnlyOne ==
    IF Cardinality(Connected) = 1 THEN GetDaemonMapOnlyOne \in Connected
    ELSE GetDaemonMapOnlyOne = 0

\* A key that has an attempt or a connection is refused another: CreateConnect
\* answers "has old".
OneSessionPerKey ==
    \A s, t \in Sessions :
        (/\ {session[s].state, session[t].state} \subseteq {"connecting", "working"}
         /\ ~session[s].isDead /\ ~session[t].isDead
         /\ session[s].key = session[t].key) => s = t

-----------------------------------------------------------------------------
(* The invariants behind these *)

\* A session that may still do something has a key; only its worker is anywhere;
\* what it copied in UpdateHdiInfo says that the device is connected.
WorkerOK(s) ==
    /\ session[s].state \in {"connecting", "working"} => session[s].key # 0
    /\ session[s].pc # "idle" => session[s].state = "working"
    /\ session[s].pc = "update" => session[s].copy.connStatus = "CONNECTED"
    /\ session[s].state # "working" => daemon[s] = Silent

\* What was done for the handshake follows from what the daemon said last.
HandshakeOK(s) ==
    /\ (session[s].handshakeOK \/ session[s].pc = "update") =>
           daemon[s].says = "OK"
    /\ session[s].pc \in {"generate", "write", "load"} =>
           daemon[s].says = "PUBLICKEY" /\ ~daemon[s].read
    /\ daemon[s].signature # 0 => daemon[s].says \in {"SIGNATURE", "OK", "FAILED"}

\* The algorithm is known from the first answer to a request for a key on.
VerifyTypeFits(s) == session[s].verifyType = GetDaemonAuthType(s)

AlgorithmFits(s) ==
    /\ session[s].pc \in {"generate", "write", "load"} => VerifyTypeFits(s)
    /\ (daemon[s].says = "PUBLICKEY" /\ daemon[s].read) => VerifyTypeFits(s)
    /\ daemon[s].says = "SIGNATURE" => VerifyTypeFits(s)
    /\ daemon[s].signature # 0 => daemon[s].algorithm = GetDaemonAuthType(s)

\* The pair that was there from the start is the only one.
OnePair ==
    hadKey => /\ keyFile.private = 1 /\ keyFile.public = 1
              /\ \A s \in Sessions : session[s].pc \notin {"generate", "write"}

OnePairSent(s) ==
    hadKey => /\ (daemon[s].says = "PUBLICKEY" /\ daemon[s].read) =>
                     daemon[s].publicKey = 1
              /\ daemon[s].says = "SIGNATURE" => daemon[s].publicKey = 1
              /\ daemon[s].signature # 0 =>
                     daemon[s].signature = 1 /\ daemon[s].publicKey = 1

ServerInv ==
    /\ TypeOK
    /\ \A s \in Sessions :
           WorkerOK(s) /\ HandshakeOK(s) /\ AlgorithmFits(s) /\ OnePairSent(s)
    /\ OnePair
    /\ BoundIsAccepted
=============================================================================
