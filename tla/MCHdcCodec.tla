----------------------------- MODULE MCHdcCodec -----------------------------
(* Values of the constants of HdcCodec. *)
EXTENDS HdcCodec

\* One and several bytes, the largest, empty strings and strings that look like
\* fields.
First(kind) == CASE kind \in {"bool", "uint64"} -> 0
                 [] kind = "uint8" -> 7
                 [] kind = "uint32" -> 5
                 [] kind = "string" -> <<>>
Second(kind) == CASE kind = "bool" -> 1
                  [] kind = "uint8" -> 255
                  [] kind = "uint32" -> Power[Width32] - 1
                  [] kind = "uint64" -> Power[Width64] - 1
                  [] kind = "string" -> <<32, 8, 0>>

MCUsual == [t \in Types |-> [f \in DOMAIN MessageType[t] |-> First(MessageType[t][f])]]
MCOdd == [t \in Types |-> [f \in DOMAIN MessageType[t] |-> Second(MessageType[t][f])]]

\* A short tag and one of all its letters; values with none, a space and more than
\* nine bytes.
MCTags == {<<97>>, [i \in 1..TagLen |-> 98]}
MCVals == {<<>>, <<Space, 49>>, [i \in 1..11 |-> 97]}
=============================================================================
