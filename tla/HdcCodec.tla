------------------------------ MODULE HdcCodec ------------------------------
(***************************************************************************)
(* The messages of the protocol as bytes (common/serial_struct_define.h,     *)
(* common/serial_struct.h): WriteMessage into a string, ReadMessage out of   *)
(* it field by field; the head of a piece of a file, which travels in the   *)
(* first bytes of a buffer that is used again and again (transfer.cpp,       *)
(* circle_buffer.cpp); and the tagged values in the buf of a handshake       *)
(* (TlvAppend, TlvToStringMap of common/base.cpp).                          *)
(*                                                                         *)
(* Bytes and the seven bits a byte of a varint holds are as in the code; the *)
(* widths of the integers and the fields of a tagged value are scaled down.  *)
(* Only the kinds of fields that some message has are here: no message has   *)
(* signed or fixed integers, floats, repeated fields, maps or messages.      *)
(***************************************************************************)
EXTENDS Integers, Sequences, FiniteSets

CONSTANTS
    Width32,      \* bits of a uint32_t
    Width64,      \* bits of a uint64_t and a size_t
    PrefixSize,   \* payloadPrefixReserve
    TagLen,       \* TLV_TAG_LEN
    ValLen,       \* TLV_VAL_LEN
    Usual, Odd,   \* per type two messages; those that are sent mix their fields
    Tags, Vals,   \* the tags and values that are put into a handshake
    MaxOdd,       \* bound: fields of a message that are those of Odd
    MaxTurns,     \* bound: heads sent through the same buffer
    MaxPairs      \* bound: tagged values in a handshake

VARIABLES
    type,       \* the message that is sent
    count,      \* how many fields the sender's version of it has
    value,      \* the fields of the message
    pairs,      \* the tags and values put into the buf of a handshake
    out,        \* what StringWriter holds
    written,    \* how many fields have been written
    buffer,     \* the prefix of the buffer that carries heads
    in,         \* what StringReader reads
    pos,        \* its position: bytes read
    parsed,     \* the fields of the receiver
    found,      \* what TlvToStringMap makes of the receiver's buf
    phase,      \* "write", "read", "tlv" or "done"
    turn        \* heads sent so far

codecVars ==
    <<type, count, value, pairs, out, written, buffer, in, pos, parsed, found, phase, turn>>

-----------------------------------------------------------------------------
(* The messages *)

PayloadProtect == <<"uint32", "uint32", "uint8", "uint8">>
SessionHandShake == <<"string", "uint8", "uint32", "string", "string", "string">>
TransferPayload == <<"uint64", "uint8", "uint32", "uint32">>
FileMode == <<"uint64", "uint64", "uint64", "string", "string">>
TransferConfig == <<"uint64", "uint64", "uint64", "string", "string", "string", "bool",
                    "uint8", "bool", "string", "string", "string", "string">>

MessageType == [PayloadProtect |-> PayloadProtect, SessionHandShake |-> SessionHandShake,
                TransferPayload |-> TransferPayload, FileMode |-> FileMode,
                TransferConfig |-> TransferConfig]
Types == DOMAIN MessageType
BufField == 5   \* SessionHandShake::buf

Octet == 0..255
Power[n \in Nat] == IF n = 0 THEN 1 ELSE 2 * Power[n - 1]

Values(kind) == CASE kind = "bool" -> 0..1
                  [] kind = "uint8" -> Octet
                  [] kind = "uint32" -> 0..(Power[Width32] - 1)
                  [] kind = "uint64" -> 0..(Power[Width64] - 1)
                  [] kind = "string" -> {s \in Seq(Octet) : Len(s) < Power[Width64]}
Default(kind) == IF kind = "string" THEN <<>> ELSE 0

Messages(t) ==
    {[f \in DOMAIN MessageType[t] |-> IF f \in odd THEN Odd[t][f] ELSE Usual[t][f]] :
        odd \in {fs \in SUBSET DOMAIN MessageType[t] : Cardinality(fs) <= MaxOdd}}

ASSUME WidthAssumption ==
    /\ {Width32, Width64, PrefixSize, TagLen, ValLen, MaxTurns, MaxPairs} \subseteq Nat \ {0}
    /\ 8 < Width32 /\ Width32 <= Width64

ASSUME MessagesAssumption ==
    \A t \in Types : \A f \in DOMAIN MessageType[t] :
        {Usual[t][f], Odd[t][f]} \subseteq Values(MessageType[t][f])

-----------------------------------------------------------------------------
(* Varints *)

\* WriteVarint: seven bits a byte, the low ones first; 128 says that more follow.
WriteVarint[v \in Nat] ==
    IF v < 128 THEN <<v>> ELSE <<128 + (v % 128)>> \o WriteVarint[v \div 128]

\* ReadVarint of an integer of so many bits, from the bytes after p: it ends at the
\* first byte below 128, or fails at the end of the input or after the bytes the
\* integer may have; value is what it has put together by then.  rest[n] is what the
\* n-th byte and those behind it come to.
ReadVarint(bytes, p, width) ==
    LET most == (width + 6) \div 7
        rest[n \in 1..(most + 1)] ==
            IF n > most \/ p + n > Len(bytes) THEN [ok |-> FALSE, value |-> 0, used |-> n - 1]
            ELSE IF bytes[p + n] < 128 THEN [ok |-> TRUE, value |-> bytes[p + n], used |-> n]
            ELSE [rest[n + 1] EXCEPT !.value = (bytes[p + n] % 128) + 128 * @]
    IN [ok |-> rest[1].ok, value |-> rest[1].value % Power[width], pos |-> p + rest[1].used]

-----------------------------------------------------------------------------
(* Fields *)

WireType(kind) == IF kind = "string" THEN 2 ELSE 0   \* LENGTH_DELIMETED, VARINT

MakeTagWireType(tag, wire) == 8 * tag + wire
ReadTagWireType(key) == [tag |-> key \div 8, wire |-> key % 8]

\* Serializer<T>::Serialize: the tag, then the value, zero or not.
Serialize(kind, tag, v) ==
    WriteVarint[MakeTagWireType(tag, WireType(kind))]
        \o (IF kind = "string" THEN WriteVarint[Len(v)] \o v ELSE WriteVarint[v])

\* Serializer<uint32_t> and <uint64_t>::Parse read into the field itself: also what a
\* failed read has put together stays there.
ParseInteger(kind, p) ==
    LET r == ReadVarint(in, p, IF kind = "uint32" THEN Width32 ELSE Width64)
    IN [value |-> r.value, pos |-> r.pos]

\* Serializer<bool> and <uint8_t>::Parse go through a uint32_t.
ParseNarrow(kind, p, old) ==
    LET r == ReadVarint(in, p, Width32) IN
    [value |-> IF ~r.ok THEN old
               ELSE IF kind = "bool" THEN (IF r.value = 0 THEN 0 ELSE 1) ELSE r.value % 256,
     pos |-> r.pos]

\* Serializer<string>::Parse: resized to what was announced, filled with what is there.
ParseString(p, old) ==
    LET r == ReadVarint(in, p, Width64)
        left == Len(in) - r.pos
        there == IF r.value < left THEN r.value ELSE left
    IN IF ~r.ok THEN [value |-> old, pos |-> r.pos]
       ELSE [value |-> [i \in 1..r.value |-> IF i <= there THEN in[r.pos + i] ELSE 0],
             pos |-> r.pos + there]

\* Parse: a field of another wire type is left alone, and so are its bytes.
Parse(kind, wire, p, old) ==
    CASE wire # WireType(kind) -> [value |-> old, pos |-> p]
      [] wire = WireType(kind) /\ kind \in {"uint32", "uint64"} -> ParseInteger(kind, p)
      [] wire = WireType(kind) /\ kind \in {"bool", "uint8"} -> ParseNarrow(kind, p, old)
      [] wire = WireType(kind) /\ kind = "string" -> ParseString(p, old)

-----------------------------------------------------------------------------
(* Tagged values *)

Space == 32

\* append, if there is too little of it; to_string; atoi; TrimSubString.
Pad(s, n) == [i \in 1..(IF Len(s) < n THEN n ELSE Len(s)) |-> IF i <= Len(s) THEN s[i] ELSE Space]
Digits[n \in Nat] ==
    IF n < 10 THEN <<48 + n>> ELSE Append(Digits[n \div 10], 48 + (n % 10))
Number(s) ==
    LET number[i \in 0..Len(s)] == IF i = 0 THEN 0 ELSE 10 * number[i - 1] + (s[i] - 48)
    IN number[Len(s)]
TrimSpaces(s) ==
    LET kept[i \in 0..Len(s)] == IF i = 0 THEN <<>>
                                 ELSE IF s[i] = Space THEN kept[i - 1] ELSE Append(kept[i - 1], s[i])
    IN kept[Len(s)]

\* Fault: the length is not filled up.
TlvAppendUnpadded(tlv, tag, val) ==
    tlv \o Pad(tag, TagLen) \o Digits[Len(val)] \o val

TlvAppend(tlv, tag, val) ==
    tlv \o Pad(tag, TagLen) \o Pad(Digits[Len(val)], ValLen) \o val

\* One turn of its loop; a value that is longer than what is left ends it all.
TlvStep(tlv, map) ==
    LET tag == TrimSpaces(SubSeq(tlv, 1, TagLen))
        len == Number(TrimSpaces(SubSeq(tlv, TagLen + 1, TagLen + ValLen)))
        rest == SubSeq(tlv, TagLen + ValLen + 1, Len(tlv))
    IN IF Len(rest) < len THEN [ok |-> FALSE, tlv |-> <<>>, map |-> map]
       ELSE [ok |-> TRUE,
             tlv |-> SubSeq(rest, len + 1, Len(rest)),
             map |-> [t \in DOMAIN map \cup {tag} |->
                         IF t = tag THEN SubSeq(rest, 1, len) ELSE map[t]]]

\* TlvToStringMap: false, with nothing found, if the string is too short to be one.
TlvToStringMap(tlv) ==
    LET loop[n \in 0..Len(tlv)] ==
            IF n = 0 THEN [ok |-> Len(tlv) >= TagLen + ValLen, tlv |-> tlv, map |-> <<>>]
            ELSE LET last == loop[n - 1] IN
                 IF Len(last.tlv) < TagLen + ValLen THEN last ELSE TlvStep(last.tlv, last.map)
    IN loop[Len(tlv)]

\* What the sender of a handshake appends, and the lists of tags and values that it has.
Tlv(ps) ==
    LET tlv[n \in 0..Len(ps)] ==
            IF n = 0 THEN <<>> ELSE TlvAppend(tlv[n - 1], ps[n][1], ps[n][2])
    IN tlv[Len(ps)]

Lists == UNION {[1..n -> Tags \X Vals] : n \in 0..MaxPairs}

\* The tags of the code are words of at most TLV_TAG_LEN letters, and a string holds
\* what is appended to it.
ASSUME PairsAssumption ==
    /\ Tags \subseteq Seq(Octet \ {Space}) \ {<<>>}
    /\ \A tag \in Tags : Len(tag) <= TagLen
    /\ Vals \subseteq Seq(Octet)
    /\ \A val \in Vals : Len(Digits[Len(val)]) <= ValLen
    /\ \A ps \in Lists : Len(Tlv(ps)) < Power[Width64]

-----------------------------------------------------------------------------
Fields == MessageType[type]

CodecTypeOK ==
    /\ type \in Types
    /\ count \in {Len(Fields) - 1, Len(Fields)}
    /\ DOMAIN value = DOMAIN Fields
    /\ \A f \in DOMAIN Fields : value[f] \in Values(Fields[f])
    /\ pairs \in Lists /\ (pairs # <<>> => type = "SessionHandShake")
    /\ out \in Seq(Octet) /\ in \in Seq(Octet)
    /\ written \in 0..count
    /\ pos \in 0..Len(in)
    /\ phase \in {"write", "read", "tlv", "done"}
    /\ turn \in 1..MaxTurns

Nothing == [f \in DOMAIN Fields |-> Default(Fields[f])]

CodecInit ==
    /\ type \in Types
    /\ count \in {Len(Fields) - 1, Len(Fields)}
    /\ value \in Messages(type)
    /\ pairs \in IF type = "SessionHandShake" THEN Lists ELSE {<<>>}
    /\ out = <<>>
    /\ written = 0
    /\ buffer = [i \in 1..PrefixSize |-> 0]
    /\ in = <<>>
    /\ pos = 0
    /\ parsed = Nothing
    /\ found = [ok |-> FALSE, tlv |-> <<>>, map |-> <<>>]
    /\ phase = "write"
    /\ turn = 1

\* The field as the sender fills it: buf has the tagged values, if there are any.
FieldValue(f) ==
    IF type = "SessionHandShake" /\ f = BufField /\ pairs # <<>>
    THEN Tlv(pairs)
    ELSE value[f]

\* WriteMessage visits the next field.
WriteField ==
    /\ phase = "write"
    /\ written < count
    /\ out' = out \o Serialize(Fields[written + 1], written + 1, FieldValue(written + 1))
    /\ written' = written + 1
    /\ UNCHANGED <<type, count, value, pairs, buffer, in, pos, parsed, found, phase, turn>>

\* Fault: the buffer is not cleared.
MallocUncleared == buffer

\* CircleBuffer::Malloc: memset clears the buffer.
Malloc == [i \in 1..PrefixSize |-> 0]

\* SendIOPayload copies the head and a zero into the buffer, if they fit;
\* RecvIOPayload reads all of the prefix.  Other messages are sent as they are.
SendMessage ==
    /\ phase = "write"
    /\ written = count
    /\ IF type = "TransferPayload"
       THEN /\ Len(out) + 1 <= PrefixSize
            /\ buffer' = [i \in 1..PrefixSize |->
                             IF i <= Len(out) THEN out[i]
                             ELSE IF i = Len(out) + 1 THEN 0 ELSE Malloc[i]]
            /\ in' = buffer'
       ELSE /\ buffer' = buffer
            /\ in' = out
    /\ phase' = "read"
    /\ pos' = 0
    /\ UNCHANGED <<type, count, value, pairs, out, written, parsed, found, turn>>

\* ReadMessage reads a tag and, if a field has it, the field.
ReadField ==
    /\ phase = "read"
    /\ LET key == ReadVarint(in, pos, Width32)
           t == ReadTagWireType(key.value)
       IN /\ key.ok
          /\ IF t.tag \notin DOMAIN Fields THEN pos' = key.pos /\ parsed' = parsed
             ELSE LET r == Parse(Fields[t.tag], t.wire, key.pos, parsed[t.tag]) IN
                  pos' = r.pos /\ parsed' = [parsed EXCEPT ![t.tag] = r.value]
    /\ UNCHANGED <<type, count, value, pairs, out, written, buffer, in, found, phase, turn>>

\* ReadMessage returns: no more tags.
ReadEnds ==
    /\ phase = "read"
    /\ ~ReadVarint(in, pos, Width32).ok
    /\ phase' = IF type = "SessionHandShake" THEN "tlv" ELSE "done"
    /\ UNCHANGED <<type, count, value, pairs, out, written, buffer, in, pos, parsed, found, turn>>

\* GetDaemonAuthType and UpdateHdiInfo look into buf.
ReadTlv ==
    /\ phase = "tlv"
    /\ found' = TlvToStringMap(parsed[BufField])
    /\ phase' = "done"
    /\ UNCHANGED <<type, count, value, pairs, out, written, buffer, in, pos, parsed, turn>>

\* The buffer is free again and the next piece is read into it.
NextHead ==
    /\ phase = "done"
    /\ type = "TransferPayload"
    /\ turn < MaxTurns
    /\ value' \in Messages(type)
    /\ turn' = turn + 1
    /\ phase' = "write"
    /\ out' = <<>>
    /\ written' = 0
    /\ parsed' = Nothing
    /\ UNCHANGED <<type, count, pairs, buffer, in, pos, found>>

CodecNext == WriteField \/ SendMessage \/ ReadField \/ ReadEnds \/ ReadTlv \/ NextHead

CodecSpec == CodecInit /\ [][CodecNext]_codecVars

-----------------------------------------------------------------------------
\* What was written is read back, whatever its values, by a receiver whose message
\* may have a field more, and out of a prefix that is longer than the head and held
\* another one before.
RoundTrip ==
    phase = "done" => parsed = [f \in DOMAIN Fields |->
                                IF f <= count THEN FieldValue(f) ELSE Default(Fields[f])]

\* The tagged values of a handshake come back; of two with one tag the later one.
TlvRoundTrip ==
    phase = "done" /\ pairs # <<>> =>
        /\ found.ok
        /\ DOMAIN found.map = {pairs[i][1] : i \in DOMAIN pairs}
        /\ \A i \in DOMAIN pairs :
               (\A j \in (i + 1)..Len(pairs) : pairs[j][1] # pairs[i][1])
                   => found.map[pairs[i][1]] = pairs[i][2]

-----------------------------------------------------------------------------
(* Why the message comes back *)

\* What is written of the first k fields, and what has been read when they have.
Written(k) ==
    LET upto[f \in 0..Len(Fields)] ==
            IF f = 0 THEN <<>> ELSE upto[f - 1] \o Serialize(Fields[f], f, FieldValue(f))
    IN upto[k]
ReadTo(k) == [f \in DOMAIN Fields |-> IF f <= k THEN FieldValue(f) ELSE Default(Fields[f])]

\* The reader has the message as it was written, and zeros behind it.
Arrived ==
    /\ written = count
    /\ Len(out) <= Len(in)
    /\ \A i \in 1..Len(in) : in[i] = IF i <= Len(out) THEN out[i] ELSE 0

\* It stands between two fields, or behind the last one.
Between ==
    \E k \in 0..count : /\ parsed = ReadTo(k)
                        /\ pos = Len(Written(k)) \/ (k = count /\ pos >= Len(out))

CodecInv ==
    /\ CodecTypeOK
    /\ out = Written(written)
    /\ phase = "write" => parsed = Nothing
    /\ phase = "read" => Arrived /\ Between
    /\ phase \in {"tlv", "done"} => parsed = ReadTo(count)
    /\ phase = "done" /\ type = "SessionHandShake" => found = TlvToStringMap(FieldValue(BufField))
=============================================================================
