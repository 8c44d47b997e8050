---------------------------- MODULE ConfigBlobs ----------------------------
(***************************************************************************)
(* How the protobuf blobs of schema 18 are read (pkg/collection/schema.go): *)
(* decodeVarint, parseTemplateConfig and parseNotetypeConfig, which read    *)
(* the fields of a message one after the other until something is amiss,    *)
(* and isFilteredDeckKind, which reads the first tag only.                  *)
(*                                                                          *)
(* A byte has Bits bits (7) below the one that says that another byte       *)
(* follows, a number has Width bits (64), and its lowest WireBits (3) are   *)
(* the wire type when it is the tag of a field.                             *)
(***************************************************************************)
EXTENDS Integers, SequencesExt

CONSTANTS Bits, Width, WireBits,
  Fixed64, Fixed32,  \* the lengths 8 and 4
  MaxFieldLen        \* maxProtobufFieldLen

Half == 2^Bits
Wires == 2^WireBits

(* Reading                                                                  *)

\* decodeVarint: the number at the beginning of data, modulo its width, and the
\* bytes read, of which there are none when it does not end or is too long.
Varint(data) ==
  LET from[i \in 1..Len(data) + 1] ==
        IF i > Len(data) \/ Bits * (i - 1) >= Width THEN <<0, 0>>
        ELSE LET low  == (data[i] % Half) * 2^(Bits * (i - 1))
                 rest == from[i + 1] IN
             IF data[i] < Half THEN <<low % 2^Width, i>>
             ELSE IF rest[2] = 0 THEN <<0, 0>>
             ELSE <<(low + rest[1]) % 2^Width, rest[2]>>
  IN  from[1]

Skip(data, n) == SubSeq(data, n + 1, Len(data))

Stop == [ok |-> FALSE]
Got(value, left) == [ok |-> TRUE, value |-> value, left |-> left]

\* Mutant: the length of a field is compared with >= .
FitsBelow(length, left) == length < Len(left) /\ length <= MaxFieldLen

Fits(length, left) == length <= Len(left) /\ length <= MaxFieldLen

\* What follows the tag of a field with this wire type.
Payload(wire, data) ==
  LET number == Varint(data)
      left   == Skip(data, number[2])
      Fixed(n) == IF Len(data) < n THEN Stop ELSE Got(<< >>, Skip(data, n)) IN
  CASE wire = 0 -> IF number[2] = 0 THEN Stop ELSE Got(number[1], left)
    [] wire = 1 -> Fixed(Fixed64)
    [] wire = 2 -> IF number[2] = 0 \/ ~Fits(number[1], left) THEN Stop
                   ELSE Got(SubSeq(left, 1, number[1]), Skip(left, number[1]))
    [] wire = 5 -> Fixed(Fixed32)
    [] OTHER    -> Stop

\* The loop of both parsers: the fields that it handles.
Fields(blob) ==
  LET suffix(n) == Skip(blob, Len(blob) - n)
      of[n \in 0..Len(blob)] ==
        LET tag  == Varint(suffix(n))
            body == Payload(tag[1] % Wires, Skip(suffix(n), tag[2])) IN
        IF tag[2] = 0 \/ ~body.ok THEN << >>
        ELSE <<[num |-> tag[1] \div Wires, wire |-> tag[1] % Wires, value |-> body.value]>>
             \o of[Len(body.left)]
  IN  of[Len(blob)]

\* Of these fields with this number and wire type the value of the last, or none.
LastOf(fields, num, wire, none) ==
  FoldLeft(LAMBDA v, f : IF f.num = num /\ f.wire = wire THEN f.value ELSE v, none, fields)

TemplateConfig(fields) ==
  [qfmt |-> LastOf(fields, 1, 2, << >>), afmt |-> LastOf(fields, 2, 2, << >>)]

\* Mutant: the sort field stays the number without a sign that was read.
Unsigned(n) == n

\* int(val): of a number of Width bits the highest is the sign.
Signed(n) == IF n < 2^(Width - 1) THEN n ELSE n - 2^Width

\* A sort field may be negative.  A later 0 does not make a cloze type a standard
\* one again.
NotetypeConfig(fields) ==
  [sortField |-> Signed(LastOf(fields, 1, 0, 0)),
   cloze     |-> \E f \in Range(fields) : f.num = 2 /\ f.wire = 0 /\ f.value > 0,
   css       |-> LastOf(fields, 3, 2, << >>),
   latexPre  |-> LastOf(fields, 5, 2, << >>),
   latexPost |-> LastOf(fields, 6, 2, << >>)]

\* A deck is filtered if its kind begins with a field of number 2.
IsFilteredDeckKind(kind) == Varint(kind)[2] # 0 /\ Varint(kind)[1] \div Wires = 2

-----------------------------------------------------------------------------
(* The reference: a message is a sequence of fields, encoded as Anki does   *)

EncodedVarint(n) ==
  LET digits == CHOOSE k \in 1..Width : n < 2^(Bits * k) /\ (k = 1 \/ n >= 2^(Bits * (k - 1)))
  IN  [i \in 1..digits |-> ((n \div 2^(Bits * (i - 1))) % Half) + (IF i < digits THEN Half ELSE 0)]

Zeros(n) == [i \in 1..n |-> 0]

EncodedTag(f) == EncodedVarint(f.num * Wires + f.wire)

Encoded(f) ==
  EncodedTag(f) \o
    CASE f.wire = 0 -> EncodedVarint(f.value)
      [] f.wire = 1 -> Zeros(Fixed64)
      [] f.wire = 2 -> EncodedVarint(Len(f.value)) \o f.value
      [] f.wire = 5 -> Zeros(Fixed32)

Blob(message) == FlattenSeq([i \in DOMAIN message |-> Encoded(message[i])])

\* The fields of the message that are complete in the first n bytes.
CompleteIn(message, n) ==
  CHOOSE prefix \in Prefixes(message) :
    /\ Len(Blob(prefix)) <= n
    /\ \A longer \in Prefixes(message) :
         Len(Blob(longer)) <= n => Len(longer) <= Len(prefix)

\* Numbers are read back, also when other bytes follow, and one that does not
\* end, or has more digits than the width, is not taken for a number.
ReadsNumbers(numbers, bytes) ==
  /\ \A n \in numbers, more \in bytes :
       Varint(EncodedVarint(n) \o more) = <<n, Len(EncodedVarint(n))>>
  /\ \A more \in bytes :
       Varint(more)[2] = 0 <=>
         \A i \in DOMAIN more : Bits * (i - 1) < Width => more[i] >= Half

\* A blob that is cut off anywhere gives the fields that it still has in full.
ReadsPrefixes(messages) ==
  \A m \in messages : \A n \in 0..Len(Blob(m)) :
    Fields(SubSeq(Blob(m), 1, n)) = CompleteIn(m, n)

\* The value of a field that a message has in full, or none; a number that occurs
\* once per message, as Anki writes them.
ValueIn(message, num, wire, none) ==
  LET i == {k \in DOMAIN message : message[k].num = num /\ message[k].wire = wire}
  IN  IF i = {} THEN none ELSE message[CHOOSE k \in i : TRUE].value

\* The integer of Width bits that agrees with a number modulo 2^Width.
IntsLike(n) == {i \in -(2^(Width - 1))..(2^(Width - 1) - 1) : (n - i) % 2^Width = 0}

\* What the two parsers make of such a message, cut off anywhere.
ReadsConfigs(messages) ==
  \A m \in messages : \A n \in 0..Len(Blob(m)) :
    LET read == Fields(SubSeq(Blob(m), 1, n))
        kept == CompleteIn(m, n) IN
      /\ TemplateConfig(read).qfmt = ValueIn(kept, 1, 2, << >>)
      /\ TemplateConfig(read).afmt = ValueIn(kept, 2, 2, << >>)
      /\ NotetypeConfig(read).cloze = (ValueIn(kept, 2, 0, 0) # 0)
      /\ NotetypeConfig(read).sortField \in IntsLike(ValueIn(kept, 1, 0, 0))
      /\ NotetypeConfig(read).css = ValueIn(kept, 3, 2, << >>)
      /\ IsFilteredDeckKind(SubSeq(Blob(m), 1, n)) <=>
           m # << >> /\ m[1].num = 2 /\ n >= Len(EncodedTag(m[1]))
=============================================================================
