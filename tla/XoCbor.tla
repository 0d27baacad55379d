------------------------------- MODULE XoCbor -------------------------------
(***************************************************************************)
(* The "cbor" encoder (src/encoder/cbor/enc_cbor.c): the document as one    *)
(* indefinite-length map of RFC 7049, each construct opened by a head and   *)
(* closed by a break.                                                       *)
(***************************************************************************)
EXTENDS Integers, Sequences

CONSTANT Length(_)      \* of a name or a value

(* What is appended, one item each.                                        *)
Map == [item |-> "map"]             \* CBOR_MAP | CBOR_INDEF
Array == [item |-> "array"]         \* CBOR_ARRAY | CBOR_INDEF
Break == [item |-> "break"]         \* CBOR_BREAK

\* CBOR_ULIMIT
ULimit == 24

\* The length of a string, in the low five bits of the first byte or in the 1, 2
\* or 4 bytes after it (cbor_encode_uint; strings have 32-bit lengths).
EncodeUint(minor) ==
    IF minor > 65536
    THEN <<26, minor \div 16777216, (minor \div 65536) % 256, (minor \div 256) % 256,
           minor % 256>>
    ELSE IF minor > 256 THEN <<25, (minor \div 256) % 256, minor % 256>>
    ELSE IF minor > ULimit THEN <<24, minor % 256>>
    ELSE <<minor % 32>>

String(s) == [item |-> "string", head |-> EncodeUint(Length(s)), of |-> s]

Appended(cbor, items) == [cbor EXCEPT !.data = @ \o items]

\* cbor_create
Created == [data |-> <<Map>>, openLeafList |-> FALSE, written |-> <<>>]

Close(cbor) == Appended(cbor, <<Break>>)

\* Mutant: the values of a leaf-list carry their names.
FieldNamed(cbor, name, value) == Appended(cbor, <<String(name), String(value)>>)

\* A value, after its name unless a leaf-list is open
Field(cbor, name, value) ==
    Appended(cbor, (IF cbor.openLeafList THEN <<>> ELSE <<String(name)>>) \o <<String(value)>>)

\* What has been written stays in the buffer: the next flush writes it again.
Flush(cbor) == [cbor EXCEPT !.written = @ \o cbor.data]

\* cbor_handler
Handle(cbor, op) ==
    CASE op.op = "open_container" -> Appended(cbor, <<String(op.name), Map>>)
      [] op.op = "open_list" -> Appended(cbor, <<String(op.name), Array>>)
      [] op.op = "open_leaf_list" ->
            [Appended(cbor, <<String(op.name), Array>>) EXCEPT !.openLeafList = TRUE]
      [] op.op = "close_leaf_list" -> [Close(cbor) EXCEPT !.openLeafList = FALSE]
      [] op.op = "open_instance" -> Appended(cbor, <<Map>>)
      [] op.op \in {"close_container", "close_list", "close_instance"} -> Close(cbor)
      [] op.op \in {"field", "item"} -> Field(cbor, op.name, op.value)
      [] op.op = "finish" -> Close(cbor)
      [] op.op = "flush" -> Flush(cbor)
      [] OTHER -> cbor
=============================================================================
