------------------------------- MODULE Capnp -------------------------------
(***************************************************************************)
(* The reader and the builder of Cap'n Proto messages (cf_capnp.c).  The   *)
(* reader walks a message of the peer, every pointer of which may lie; the *)
(* builder lays out the messages of the connector.                         *)
(*                                                                         *)
(* A message is a sequence of segments, a segment a sequence of words.  A  *)
(* word is what its bits say when it is followed as a pointer; the word    *)
(* that is zero is null.                                                   *)
(***************************************************************************)
EXTENDS Integers, SequencesExt

CONSTANTS
    Budget,     \* CF_CAPNP_TRAVERSAL_WORDS
    DepthMax,   \* CF_CAPNP_DEPTH_MAX
    OffsetMod,  \* 2^30: an offset, read without its sign
    Room,       \* words of the builder's buffer
    Messages,   \* messages the peer may send
    Indexes,    \* indexes of fields and elements a caller asks for
    Sizes,      \* numbers of words and pointers a caller lays out
    Lengths     \* lengths of blobs, and byte offsets of numbers

\* What the bits of a word say.
Pointers == [kind : {"struct"}, off : Int, data : Nat, pointers : Nat]
              \cup [kind : {"list"}, off : Int, size : 0..7, count : Nat]
              \cup [kind : {"far"}, two : BOOLEAN, seg : Nat, slot : Nat]
              \cup [kind : {"cap", "other"}]

ASSUME CapnpAssumption ==
    /\ {Budget, DepthMax, OffsetMod, Room} \subseteq Nat \ {0}
    /\ Messages \subseteq Seq(Seq(Pointers))
    /\ Indexes \cup Sizes \cup Lengths \subseteq Nat
    /\ Room < Budget  \* the reader can pay for any object the builder lays out

VARIABLES
    message,  \* the segments of the frame being built or read
    builder,  \* cf_cp_builder, with what was laid out and where
    reader,   \* cf_cp_reader: budget and sticky error
    value,    \* the cf_cp_value the caller holds
    visited   \* history: words of the objects the reader has entered

capnpVars == <<message, builder, reader, value, visited>>

-----------------------------------------------------------------------------
StructPtr(off, data, pointers) ==
    [kind |-> "struct", off |-> off, data |-> data, pointers |-> pointers]
ListPtr(off, size, count) ==
    [kind |-> "list", off |-> off, size |-> size, count |-> count]
FarPtr(two, seg, slot) == [kind |-> "far", two |-> two, seg |-> seg, slot |-> slot]
CapPtr == [kind |-> "cap"]
OtherPtr == [kind |-> "other"]
NullPtr == StructPtr(0, 0, 0)

NullValue == [kind |-> "NULL", seg |-> 0, word |-> 0, data |-> 0, pointers |-> 0,
              size |-> 0, count |-> 0, depth |-> 0]

Got(r, v) == [reader |-> r, value |-> v]
Refused(r, rc) == Got([r EXCEPT !.error = rc], NullValue)

range(m, seg, word, words) ==
    seg < Len(m) /\ word <= Len(m[seg + 1]) /\ words <= Len(m[seg + 1]) - word

\* Empty structures still cost work.
Cost(words) == IF words = 0 THEN 1 ELSE words
charge(r, words) == [r EXCEPT !.budget = @ - Cost(words)]

word_at(m, seg, word) == m[seg + 1][word + 1]

\* Words of a list of count elements, by the code of the element size.
ListWords(size, count) ==
    (count * <<0, 1, 8, 16, 32, 64, 64>>[size + 1] + 63) \div 64

\* Range, then charge, then the value.
Enter(m, r, v, words) ==
    IF ~range(m, v.seg, v.word, words) THEN Refused(r, "FORMAT")
    ELSE IF Cost(words) > r.budget THEN Refused(r, "LIMIT")
    ELSE Got(charge(r, words), v)

\* Mutant: the elements of a composite list are not compared with its words.
CompositeUnchecked(m, r, v, words) ==
    LET tag == word_at(m, v.seg, v.word)
    IN IF ~range(m, v.seg, v.word, words) THEN Refused(r, "FORMAT")
       ELSE IF tag.kind # "struct" THEN Refused(r, "FORMAT")
       ELSE IF Cost(words) > r.budget THEN Refused(r, "LIMIT")
       ELSE Got(charge(r, words), [v EXCEPT !.word = @ + 1, !.data = tag.data,
                    !.pointers = tag.pointers, !.count = tag.off % OffsetMod])

\* A list of structures: its first word is a tag, with their number and size.
Composite(m, r, v, words) ==
    LET tag   == word_at(m, v.seg, v.word)
        count == tag.off % OffsetMod
    IN IF ~range(m, v.seg, v.word, words) THEN Refused(r, "FORMAT")
       ELSE IF tag.kind # "struct" THEN Refused(r, "FORMAT")
       ELSE IF count * (tag.data + tag.pointers) > words - 1 THEN Refused(r, "FORMAT")
       ELSE IF Cost(words) > r.budget THEN Refused(r, "LIMIT")
       ELSE Got(charge(r, words), [v EXCEPT !.word = @ + 1, !.data = tag.data,
                                            !.pointers = tag.pointers, !.count = count])

\* Pointer p, that is not far, leads to an object at word target of segment seg.
Object(m, r, p, seg, target, depth) ==
    LET v == [NullValue EXCEPT !.seg = seg, !.word = target, !.depth = depth]
        l == [v EXCEPT !.kind = "LIST", !.size = p.size, !.count = p.count]
    IN IF p.kind = "other" THEN Refused(r, "UNSUPPORTED")
       ELSE IF p.kind = "cap" THEN Got(r, [NullValue EXCEPT !.kind = "CAP", !.depth = depth])
       ELSE IF target < 0 THEN Refused(r, "FORMAT")
       ELSE IF p.kind = "struct"
            THEN Enter(m, r, [v EXCEPT !.kind = "STRUCT", !.data = p.data,
                                       !.pointers = p.pointers], p.data + p.pointers)
       ELSE IF p.size = 7 THEN Composite(m, r, l, p.count + 1)
       ELSE Enter(m, r, l, ListWords(p.size, p.count))

\* Where a pointer leads: a capability has no offset.
Target(p, slot) == IF p.kind \in {"struct", "list"} THEN slot + 1 + p.off ELSE slot

\* A far pointer leads to one landing pad, of a pointer or of a far pointer and
\* a tag, never to a chain.
Far(m, r, p, depth) ==
    LET words == IF p.two THEN 2 ELSE 1
        pad   == word_at(m, p.seg, p.slot)
        tag   == word_at(m, p.seg, p.slot + 1)
        paid  == charge(r, words)
    IN IF ~range(m, p.seg, p.slot, words) THEN Refused(r, "FORMAT")
       ELSE IF words > r.budget THEN Refused(r, "LIMIT")
       ELSE IF ~p.two
            THEN IF pad.kind \notin {"struct", "list"} \/ pad = NullPtr
                 THEN Refused(paid, "FORMAT")
                 ELSE Object(m, paid, pad, p.seg, Target(pad, p.slot), depth)
       ELSE IF /\ pad.kind = "far" /\ ~pad.two
               /\ tag.kind \in {"struct", "list"} /\ tag.off = 0
            THEN Object(m, paid, tag, pad.seg, pad.slot, depth)
       ELSE Refused(paid, "FORMAT")

follow(m, r, seg, slot, depth) ==
    LET p    == word_at(m, seg, slot)
        paid == charge(r, 1)
    IN IF r.error # "OK" THEN Got(r, NullValue)
       ELSE IF depth > DepthMax THEN Refused(r, "LIMIT")
       ELSE IF ~range(m, seg, slot, 1) THEN Refused(r, "FORMAT")
       ELSE IF r.budget < 1 THEN Refused(r, "LIMIT")
       ELSE IF p = NullPtr THEN Got(paid, NullValue)
       ELSE IF p.kind = "far" THEN Far(m, paid, p, depth)
       ELSE Object(m, paid, p, seg, Target(p, slot), depth)

-----------------------------------------------------------------------------
(* Reading.                                                                *)

Fresh == [budget |-> Budget, error |-> "OK"]
Closed == [open |-> FALSE, error |-> "OK", objects |-> {}, free |-> {}]

CapnpInit == /\ \/ message \in Messages /\ builder = Closed
                \/ /\ message = <<<<NullPtr>>>>  \* cf_cp_build_init
                   /\ builder = [Closed EXCEPT !.open = TRUE, !.free = {0}]
             /\ reader = Fresh
             /\ value = NullValue
             /\ visited = 0

\* The words an object of this value takes.
Extent(v) == CASE v.kind = "STRUCT" -> v.data + v.pointers
               [] v.kind = "LIST" /\ v.size = 7 -> v.count * (v.data + v.pointers)
               [] v.kind = "LIST" /\ v.size # 7 -> ListWords(v.size, v.count)
               [] OTHER -> 0

Follow(seg, slot, depth) ==
    LET got == follow(message, reader, seg, slot, depth)
    IN /\ reader' = got.reader
       /\ value' = got.value
       /\ visited' = visited + Extent(got.value)

Yield(rc) == /\ reader' = [reader EXCEPT !.error = rc]
             /\ value' = NullValue
             /\ UNCHANGED visited

\* After an error every call returns nothing.
Usable == ~builder.open /\ reader.error = "OK" /\ UNCHANGED <<message, builder>>

cf_cp_root == Usable /\ Follow(0, 0, 1)

\* A field past the structure the peer sent is null.
cf_cp_field(index) ==
    /\ Usable
    /\ value.kind # "NULL"
    /\ IF value.kind # "STRUCT" THEN Yield("FORMAT")
       ELSE IF index >= value.pointers THEN Yield("OK")
       ELSE Follow(value.seg, value.word + value.data + index, value.depth + 1)

cf_cp_at(index) ==
    /\ Usable
    /\ IF value.kind # "LIST" \/ index >= value.count THEN Yield("FORMAT")
       ELSE IF value.size = 6
            THEN Follow(value.seg, value.word + index, value.depth + 1)
       ELSE IF value.size # 7 THEN Yield("UNSUPPORTED")
       ELSE IF value.depth >= DepthMax \/ reader.budget < 1 THEN Yield("LIMIT")
       ELSE /\ reader' = charge(reader, 1)
            /\ value' = [value EXCEPT !.kind = "STRUCT", !.depth = @ + 1,
                              !.word = @ + index * (value.data + value.pointers)]
            /\ UNCHANGED visited

\* A number in the data of a structure: zero when past what the peer sent.
cf_cp_uint(byte, width) ==
    /\ Usable
    /\ value.kind # "NULL"
    /\ IF value.kind # "STRUCT" THEN Yield("FORMAT")
       ELSE IF byte + width > value.data * 8 THEN UNCHANGED <<reader, value, visited>>
       ELSE IF ~range(message, value.seg, value.word, value.data) THEN Yield("FORMAT")
       ELSE IF reader.budget < 1 THEN Yield("LIMIT")
       ELSE reader' = charge(reader, 1) /\ UNCHANGED <<value, visited>>

\* The bytes of a list; text must end with a zero byte.
cf_cp_data(text, terminated) ==
    /\ Usable
    /\ value.kind # "NULL"
    /\ IF \/ value.kind # "LIST" \/ value.size # 2
          \/ ~range(message, value.seg, value.word, (value.count + 7) \div 8)
          \/ text /\ (value.count = 0 \/ ~terminated)
       THEN Yield("FORMAT")
       ELSE UNCHANGED <<reader, value, visited>>

-----------------------------------------------------------------------------
(* Building: one segment, grown at its end; slot is a pointer not yet set. *)

Words == message[1]

\* alloc_words and set_word: a new object of n words behind the pointer at slot.
\* The first allocation that does not fit fails the message.
Allocate(slot, n, pointer, object, slots) ==
    /\ builder.open
    /\ builder.error = "OK"
    /\ IF n > Room - Len(Words)
       THEN /\ builder' = [builder EXCEPT !.error = "LIMIT"]
            /\ UNCHANGED message
       ELSE /\ message' = <<[Words \o [i \in 1..n |-> NullPtr]
                               EXCEPT ![slot + 1] = pointer]>>
            /\ builder' = [builder EXCEPT !.objects = @ \cup {object},
                                          !.free = (@ \ {slot}) \cup slots]
    /\ UNCHANGED <<reader, value, visited>>

Top == Len(Words)

\* Mutant: a structure without words gets an offset like any other.
StructOffsetPlain(slot, data, pointers) == Top - slot - 1

\* A structure without words must not look like a null pointer.
StructOffset(slot, data, pointers) ==
    IF data = 0 /\ pointers = 0 THEN -1 ELSE Top - slot - 1

cf_cp_struct(slot, data, pointers) ==
    Allocate(slot, data + pointers,
             StructPtr(StructOffset(slot, data, pointers), data, pointers),
             [slot |-> slot, kind |-> "STRUCT", at |-> Top, data |-> data,
              pointers |-> pointers, size |-> 0, count |-> 0],
             {Top + data + i : i \in 0..(pointers - 1)})

List(slot, size, count, words, slots) ==
    Allocate(slot, words, ListPtr(Top - slot - 1, size, count),
             [slot |-> slot, kind |-> "LIST", at |-> Top, data |-> 0,
              pointers |-> 0, size |-> size, count |-> count], slots)

cf_cp_pointer_list(slot, count) ==
    List(slot, 6, count, count, {Top + i : i \in 0..(count - 1)})

\* text is stored with its zero byte; the bytes are those of any word.
cf_cp_blob(slot, len, text) ==
    LET n == len + IF text THEN 1 ELSE 0
    IN List(slot, 2, n, (n + 7) \div 8, {})

\* The data of a structure: some bytes of a word of it.
cf_cp_set_uint(word) ==
    /\ builder.open
    /\ builder.error = "OK"
    /\ \E o \in builder.objects : word \in o.at..(o.at + o.data - 1)
    /\ message' = [message EXCEPT ![1][word + 1] = OtherPtr]
    /\ UNCHANGED <<builder, reader, value, visited>>

cf_cp_build_end == /\ builder.open
                   /\ builder.error = "OK"
                   /\ builder' = [builder EXCEPT !.open = FALSE]
                   /\ UNCHANGED <<message, reader, value, visited>>

-----------------------------------------------------------------------------
Read == \/ cf_cp_root
        \/ \E i \in Indexes : cf_cp_field(i) \/ cf_cp_at(i)
        \/ \E byte \in Lengths : cf_cp_uint(byte, 8)
        \/ \E text, terminated \in BOOLEAN : cf_cp_data(text, terminated)

Build == \/ \E slot \in builder.free :
              \/ \E data, pointers \in Sizes : cf_cp_struct(slot, data, pointers)
              \/ \E count \in Sizes : cf_cp_pointer_list(slot, count)
              \/ \E len \in Lengths, text \in BOOLEAN : cf_cp_blob(slot, len, text)
         \/ \E word \in 0..(Room - 1) : cf_cp_set_uint(word)
         \/ cf_cp_build_end

CapnpSpec == CapnpInit /\ [][Read \/ Build]_capnpVars

-----------------------------------------------------------------------------
\* No pointer of a message leads the reader out of it: what the caller holds
\* lies within its segment and the depth allowed, whichever far, composite or
\* self-referring pointers led there, and all that was entered, repeatedly or
\* not, was paid for from the budget.
ReadsInBounds ==
    /\ value.kind # "CAP" =>
         range(message, value.seg, value.word, Extent(value)) \/ value.kind = "NULL"
    /\ value.depth <= DepthMax
    /\ visited <= Budget - reader.budget

\* What the builder laid out is what a reader finds: every object behind its
\* pointer with its sizes and, unless it has no words, at its place, apart from
\* every other; a pointer never set is null.
BuiltReadsBack ==
    LET Cells(o) == o.at..(o.at + Extent(o) - 1) IN
    /\ \A o \in builder.objects :
         LET v == follow(message, Fresh, 0, o.slot, 1).value
         IN /\ [kind |-> v.kind, data |-> v.data, pointers |-> v.pointers,
                size |-> v.size, count |-> v.count]
                 = [kind |-> o.kind, data |-> o.data, pointers |-> o.pointers,
                    size |-> o.size, count |-> o.count]
            /\ Extent(o) > 0 => v.word = o.at
            /\ \A q \in builder.objects \ {o} : Cells(o) \cap Cells(q) = {}
    /\ \A slot \in builder.free :
         follow(message, Fresh, 0, slot, 1) = Got(charge(Fresh, 1), NullValue)
=============================================================================
