------------------------------ MODULE Headers ------------------------------
(***************************************************************************)
(* The serialised headers that travel in one HTTP/2 header (cf_headers.c)  *)
(* and the base64 they are made of (cf_base64.c): name:value;name:value,   *)
(* each part in base64 without padding.  The application's backend decodes *)
(* those of a request, the HTTP/2 session encodes those of its response.   *)
(*                                                                         *)
(* A character of the wire is the value of a base64 digit, 0 to 63, or one *)
(* of the codes below.                                                     *)
(***************************************************************************)
EXTENDS Integers, SequencesExt

CONSTANTS
    WireMax,     \* CF_HEADER_WIRE_MAX
    DecodedMax,  \* CF_HEADER_DECODED_MAX
    HeaderMax,   \* CF_HEADER_COUNT_MAX
    Fragments    \* texts the edge may send next

Semicolon == 64
Colon == 65
Equals == 66  \* '='
NoDigit == 67 \* any other character

ASSUME HeadersAssumption ==
    /\ {WireMax, DecodedMax, HeaderMax} \subseteq Nat \ {0}
    /\ Fragments \subseteq Seq(0..NoDigit)

VARIABLE wire  \* serialised headers the edge sends

-----------------------------------------------------------------------------
(* cf_base64.c *)

Bytes(rc, bytes) == [rc |-> rc, bytes |-> bytes]

\* The bits of a digit at a time; a byte leaves as soon as it is complete.
Shift(acc, d) ==
    LET bits    == acc.bits * 64 + d
        pending == acc.pending + 6
    IN IF pending < 8
       THEN [acc EXCEPT !.bits = bits, !.pending = pending]
       ELSE [out |-> Append(acc.out, bits \div 2 ^ (pending - 8)),
             bits |-> bits % 2 ^ (pending - 8), pending |-> pending - 8]

\* Mutant: bits after the last byte are ignored.
NeverSpare(acc) == FALSE

\* Bits after the last byte must be zero.
SpareBits(acc) == acc.bits # 0

\* A padded text has a multiple of four characters, of which up to two pad.
cf_base64_decode(text, padded, cap) ==
    LET Strip(s) == IF padded /\ s # <<>> /\ s[Len(s)] = Equals
                    THEN SubSeq(s, 1, Len(s) - 1) ELSE s
        digits   == Strip(Strip(text))
        n        == Len(digits)
        count    == (n \div 4) * 3 + IF n % 4 = 0 THEN 0 ELSE (n % 4) - 1
        all      == FoldLeft(Shift, [out |-> <<>>, bits |-> 0, pending |-> 0], digits)
    IN IF padded /\ Len(text) % 4 # 0 THEN Bytes("FORMAT", <<>>)
       ELSE IF n % 4 = 1 THEN Bytes("FORMAT", <<>>)
       ELSE IF count > cap THEN Bytes("LIMIT", <<>>)
       ELSE IF \E i \in 1..n : digits[i] > 63 THEN Bytes("FORMAT", <<>>)
       ELSE IF SpareBits(all) THEN Bytes("FORMAT", <<>>)
       ELSE Bytes("OK", all.out)

\* Four digits of every three bytes; fewer of the last, filled up when padded.
\* The lengths allowed to a caller keep the sizes far from overflow.
cf_base64_encode(bytes, padded) ==
    LET n       == Len(bytes)
        At(i)   == IF i <= n THEN bytes[i] ELSE 0
        Word3(g) == (At(3 * g + 1) * 256 + At(3 * g + 2)) * 256 + At(3 * g + 3)
        Digit(k) == (Word3(k \div 4) \div 64 ^ (3 - (k % 4))) % 64
        whole   == (n \div 3) * 4 + IF n % 3 = 0 THEN 0 ELSE (n % 3) + 1
        size    == IF padded THEN ((n + 2) \div 3) * 4 ELSE whole
    IN [k \in 1..size |-> IF k <= whole THEN Digit(k - 1) ELSE Equals]

-----------------------------------------------------------------------------
(* cf_headers.c *)

Letter(c) == c \in 65..90 \/ c \in 97..122 \/ c \in 48..57
Special == {33, 35, 36, 37, 38, 39, 42, 43, 45, 46, 94, 95, 96, 124, 126}

valid_name(s) == s # <<>> /\ \A i \in DOMAIN s : Letter(s[i]) \/ s[i] \in Special
valid_value(s) == \A i \in DOMAIN s : s[i] # 127 /\ (s[i] >= 32 \/ s[i] = 9)

Length(entries) ==
    FoldLeft(LAMBDA sum, h : sum + Len(h.name) + Len(h.value), 0, entries)

Ended(rc) == [rc |-> rc, entries |-> <<>>]

\* The loop over the items between semicolons; an empty one is skipped.  The
\* arena is shared by all names and values.
Item(out, item) ==
    LET colons == {i \in DOMAIN item : item[i] = Colon}
        first  == CHOOSE i \in colons : \A j \in colons : i <= j
        room   == DecodedMax - Length(out.entries)
        name   == cf_base64_decode(SubSeq(item, 1, first - 1), FALSE, room)
        value  == cf_base64_decode(SubSeq(item, first + 1, Len(item)), FALSE,
                                   room - Len(name.bytes))
    IN IF out.rc # "OK" \/ item = <<>> THEN out
       ELSE IF Len(out.entries) = HeaderMax THEN Ended("LIMIT")
       ELSE IF colons = {} THEN Ended("FORMAT")
       ELSE IF name.rc # "OK" THEN Ended(name.rc)
       ELSE IF value.rc # "OK" THEN Ended(value.rc)
       ELSE IF ~valid_name(name.bytes) \/ ~valid_value(value.bytes) THEN Ended("FORMAT")
       ELSE [out EXCEPT !.entries = Append(@, [name |-> name.bytes, value |-> value.bytes])]

Items(text) ==
    FoldLeft(LAMBDA parts, c : IF c = Semicolon THEN Append(parts, <<>>)
                               ELSE [parts EXCEPT ![Len(parts)] = Append(@, c)],
             <<<<>>>>, text)

cf_headers_decode(text) ==
    IF Len(text) > WireMax THEN Ended("LIMIT")
    ELSE FoldLeft(Item, Ended("OK"), Items(text))

\* The bytes to be written, computed before anything is written.
Need(entries) ==
    LET Part(n) == (n \div 3) * 4 + IF n % 3 = 0 THEN 0 ELSE (n % 3) + 1
    IN FoldLeft(LAMBDA sum, i : sum + Part(Len(entries[i].name))
                                 + Part(Len(entries[i].value)) + IF i > 1 THEN 2 ELSE 1,
                0, [i \in DOMAIN entries |-> i])

cf_headers_encode(entries, cap) ==
    LET Write(text, h) ==
          text \o (IF text = <<>> THEN <<>> ELSE <<Semicolon>>)
               \o cf_base64_encode(h.name, FALSE) \o <<Colon>>
               \o cf_base64_encode(h.value, FALSE)
        Check(rc, i) ==
          IF rc # "OK" THEN rc
          ELSE IF Length(SubSeq(entries, 1, i)) > DecodedMax THEN "LIMIT"
          ELSE IF ~valid_name(entries[i].name) \/ ~valid_value(entries[i].value)
               THEN "FORMAT"
          ELSE "OK"
        checked == FoldLeft(Check, "OK", [i \in DOMAIN entries |-> i])
    IN IF Len(entries) > HeaderMax THEN Bytes("LIMIT", <<>>)
       ELSE IF checked # "OK" THEN Bytes(checked, <<>>)
       ELSE IF Need(entries) > cap \/ Need(entries) > WireMax THEN Bytes("LIMIT", <<>>)
       ELSE Bytes("OK", FoldLeft(Write, <<>>, entries))

-----------------------------------------------------------------------------
HeadersInit == wire = <<>>

\* The edge may send any text.
Send(text) == Len(wire) <= WireMax /\ wire' = wire \o text

-----------------------------------------------------------------------------
\* A list of headers has one spelling: whatever text is decoded, encoding the
\* result gives the same text back, apart from empty items, in exactly as many
\* bytes as were provided for; padded base64 loses nothing either.
HeadersCanonical ==
    LET decoded == cf_headers_decode(wire)
        again   == cf_headers_encode(decoded.entries, Len(wire))
        Write(text, item) == text \o (IF text = <<>> \/ item = <<>> THEN <<>>
                                      ELSE <<Semicolon>>) \o item
    IN decoded.rc = "OK" =>
         /\ again.rc = "OK"
         /\ again.bytes = FoldLeft(Write, <<>>, Items(wire))
         /\ Len(again.bytes) = Need(decoded.entries)
         /\ \A i \in DOMAIN decoded.entries :
              LET s == decoded.entries[i].name
              IN cf_base64_decode(cf_base64_encode(s, TRUE), TRUE, Len(s)) = Bytes("OK", s)
=============================================================================
