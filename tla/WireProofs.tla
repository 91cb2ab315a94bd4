----------------------------- MODULE WireProofs -----------------------------
(***************************************************************************)
(* Proofs about the parsers of what the network sends: the framer cuts a   *)
(* stream into the same frames in whatever pieces it arrives; the reader   *)
(* of Cap'n Proto messages stays in the message it was given, whatever     *)
(* that message says and in whichever order a caller walks it; it finds    *)
(* what the builder laid out; the reader of names in DNS packets stays in  *)
(* the packet and in its buffer, and ends; and discovery chooses an edge   *)
(* that the zone advertises, and every one of them in turn.                *)
(***************************************************************************)
EXTENDS Framer, Capnp, Dns, SequenceTheorems, FiniteSetTheorems, WellFoundedInduction, TLAPS

-----------------------------------------------------------------------------
(* Induction and recursion over the loops of the code.  The predicates are  *)
(* sets and the steps functions, so that the lemmas have no operator for a  *)
(* parameter.                                                              *)

\* A set of naturals has a least element.
LEMMA Least ==
    ASSUME NEW T, T \subseteq Nat, T # {}
    PROVE  \E x \in T : \A y \in T : x <= y
<1>1. PICK R : R = {ss \in Nat \X Nat : ss[1] < ss[2]}
  OBVIOUS
<1>2. IsWellFoundedOn(R, Nat)
  BY <1>1, NatLessThanWellFounded DEF OpToRel
<1>3. \A x, y \in Nat : y < x => <<y, x>> \in R
  BY <1>1
<1>4. PICK x \in T : \A y \in T : ~(<<y, x>> \in R)
  BY <1>2, WFMin
<1>5. \A y \in T : x <= y
  <2> TAKE y \in T
  <2>1. x \in Nat /\ y \in Nat
    OBVIOUS
  <2>2. ~(y < x)
    BY <1>3, <1>4, <2>1
  <2> QED  BY <2>1, <2>2
<1> QED  BY <1>5

\* A set of numbers up to a bound has a greatest element.
LEMMA Greatest ==
    ASSUME NEW n \in Nat, NEW T, T \subseteq 0..n, T # {}
    PROVE  \E x \in T : \A y \in T : y <= x
<1>1. PICK D : D = {k \in Nat : n - k \in T}
  OBVIOUS
<1>2. D \subseteq Nat /\ D # {}
  <2>1. PICK x \in T : TRUE
    OBVIOUS
  <2>2. x \in 0..n
    OBVIOUS
  <2>3. n - x \in Nat /\ n - (n - x) = x
    BY <2>2
  <2> QED  BY <1>1, <2>3
<1>3. PICK k \in D : \A y \in D : k <= y
  BY <1>2, Least
<1>4. n - k \in T
  BY <1>1
<1>5. \A y \in T : y <= n - k
  <2> TAKE y \in T
  <2>1. y \in 0..n
    OBVIOUS
  <2>2. n - y \in Nat /\ n - (n - y) = y
    BY <2>1
  <2>3. n - y \in D
    BY <1>1, <2>2
  <2>4. k <= n - y
    BY <1>3, <2>3
  <2> QED  BY <2>1, <2>4, <1>2
<1> QED  BY <1>4, <1>5

\* Induction over the naturals.
LEMMA Induct ==
    ASSUME NEW P, 0 \in P, \A n \in Nat : n \in P => n + 1 \in P
    PROVE  Nat \subseteq P
<1> DEFINE T == {n \in Nat : n \notin P}
<1> SUFFICES ASSUME T # {} PROVE FALSE
  OBVIOUS
<1>1. PICK x \in T : \A y \in T : x <= y
  BY Least
<1>2. x - 1 \in Nat /\ x - 1 \in P
  BY <1>1
<1>3. (x - 1) + 1 = x
  OBVIOUS
<1> QED  BY <1>2, <1>3

\* Induction over the rounds of a loop.
LEMMA LoopInduct ==
    ASSUME NEW N \in Nat, NEW P, 0 \in P, \A i \in 1..N : i - 1 \in P => i \in P
    PROVE  0..N \subseteq P
<1> DEFINE Q == {i \in Nat : i <= N => i \in P}
<1>1. 0 \in Q
  OBVIOUS
<1>2. \A n \in Nat : n \in Q => n + 1 \in Q
  <2> TAKE n \in Nat
  <2> HAVE n \in Q
  <2>1. n + 1 \in Nat /\ (n + 1) - 1 = n
    OBVIOUS
  <2>2. n + 1 <= N => n + 1 \in 1..N /\ n <= N
    OBVIOUS
  <2> QED  BY <2>1, <2>2
<1>3. Nat \subseteq Q
  <2> HIDE DEF Q
  <2> QED  BY <1>1, <1>2, Induct
<1> QED  BY <1>3

\* The states of a loop that starts with base and takes step G[i] in round i.
Rounds(f, N, base, G) == f[0] = base /\ \A i \in 1..N : f[i] = G[i][f[i - 1]]

\* Such a loop has its states: a recursive function over its rounds is defined.
LEMMA LoopExists ==
    ASSUME NEW S, NEW N \in Nat, NEW base \in S, NEW G \in [1..N -> [S -> S]]
    PROVE  \E f \in [0..N -> S] : Rounds(f, N, base, G)
<1> DEFINE P == {n \in Nat : n <= N => \E f \in [0..N -> S] : Rounds(f, n, base, G)}
<1>1. 0 \in P
  <2>1. /\ [i \in 0..N |-> base] \in [0..N -> S]
        /\ Rounds([i \in 0..N |-> base], 0, base, G)
    BY DEF Rounds
  <2> QED  BY <2>1
<1>2. \A n \in Nat : n \in P => n + 1 \in P
  <2> TAKE n \in Nat
  <2> HAVE n \in P
  <2> SUFFICES ASSUME n + 1 <= N
               PROVE  \E f \in [0..N -> S] : Rounds(f, n + 1, base, G)
    OBVIOUS
  <2>1. PICK f \in [0..N -> S] : Rounds(f, n, base, G)
    OBVIOUS
  <2>2. n + 1 \in 1..N /\ n \in 0..N
    OBVIOUS
  <2>3. G[n + 1] \in [S -> S] /\ f[n] \in S
    BY <2>2
  <2>4. PICK v \in S : v = G[n + 1][f[n]]
    BY <2>3
  <2>5. PICK g \in [0..N -> S] : g = [f EXCEPT ![n + 1] = v]
    OBVIOUS
  <2>6. g[n + 1] = v /\ \A i \in 0..N : i # n + 1 => g[i] = f[i]
    BY <2>2, <2>5
  <2>7. \A i \in 1..(n + 1) : g[i] = G[i][g[i - 1]]
    <3> TAKE i \in 1..(n + 1)
    <3>1. CASE i = n + 1
      BY <3>1, <2>6, <2>4, <2>2
    <3>2. CASE i # n + 1
      <4>1. i \in 1..n /\ i \in 0..N /\ i - 1 \in 0..N /\ i - 1 # n + 1
        BY <3>2, <2>2
      <4> QED  BY <4>1, <2>6, <2>1 DEF Rounds
    <3> QED  BY <3>1, <3>2
  <2>8. g[0] = base
    BY <2>6, <2>1 DEF Rounds
  <2>9. Rounds(g, n + 1, base, G)
    BY <2>7, <2>8 DEF Rounds
  <2> QED  BY <2>9
<1>3. Nat \subseteq P
  <2> HIDE DEF P
  <2> QED  BY <1>1, <1>2, Induct
<1> QED  BY <1>3

-----------------------------------------------------------------------------
(* What the reader and the builder handle.                                 *)

Segments == Seq(Seq(Pointers))

Codes == {"OK", "FORMAT", "LIMIT", "UNSUPPORTED"}
Readers == [budget : 0..Budget, error : Codes]
Values == [kind : {"NULL", "STRUCT", "LIST", "CAP"}, seg : Nat, word : Nat, data : Nat,
           pointers : Nat, size : 0..7, count : Nat, depth : Nat]
Objects == [slot : Nat, kind : {"STRUCT", "LIST"}, at : Nat, data : Nat,
            pointers : Nat, size : 0..6, count : Nat]

Builders == [open : BOOLEAN, error : {"OK", "LIMIT"}, objects : SUBSET Objects,
             free : SUBSET Nat]

\* A value is of no words or of words of the message.
Within(m, v) == v.kind \in {"STRUCT", "LIST"} => range(m, v.seg, v.word, Extent(v))

\* What a call hands back to its caller: a value within the message and not
\* too deep, that cost at least the words it spans.
Sound(m, r, got) ==
    /\ got.reader \in Readers
    /\ got.value \in Values
    /\ Within(m, got.value)
    /\ got.value.depth <= DepthMax
    /\ Extent(got.value) \in Nat
    /\ Extent(got.value) <= r.budget - got.reader.budget

-----------------------------------------------------------------------------
(* The invariant.                                                          *)

Types ==
    /\ message \in Segments
    /\ builder \in Builders
    /\ reader \in Readers
    /\ value \in Values
    /\ visited \in Nat

\* What is being built is not read yet.
UnreadWhileOpen == builder.open => value = NullValue

\* The pointer the builder sets for an object.
PointerTo(o) ==
    IF o.kind = "LIST" THEN ListPtr(o.at - o.slot - 1, o.size, o.count)
    ELSE StructPtr(IF o.data = 0 /\ o.pointers = 0 THEN -1 ELSE o.at - o.slot - 1,
                   o.data, o.pointers)

\* The builder lays out structures, lists of pointers and lists of bytes.
Shaped(o) == IF o.kind = "LIST" THEN o.size \in {2, 6} /\ o.data = 0 /\ o.pointers = 0
             ELSE o.size = 0 /\ o.count = 0

DataCells(o) == o.at..(o.at + o.data - 1)

\* A message that is built is one segment.  Every object lies in it behind its
\* own pointer, every free slot is null, no slot holds the data of an object,
\* and no two objects overlap or have a slot in common.
OneSegment ==
    builder.open \/ builder.objects # {} \/ builder.free # {} =>
        Len(message) = 1 /\ Len(message[1]) <= Room
Placed(o) == /\ Shaped(o)
             /\ o.slot < Len(message[1])
             /\ message[1][o.slot + 1] = PointerTo(o)
             /\ o.at + Extent(o) <= Len(message[1])
Unset(slot) == slot < Len(message[1]) /\ message[1][slot + 1] = NullPtr
NoData(slot) == \A q \in builder.objects : slot \notin DataCells(q)
Apart(o, q) == /\ o.slot # q.slot
               /\ o.at + Extent(o) <= q.at \/ q.at + Extent(q) <= o.at

Layout ==
    /\ OneSegment
    /\ \A o \in builder.objects :
         Placed(o) /\ NoData(o.slot) /\ o.slot \notin builder.free
    /\ \A slot \in builder.free : Unset(slot) /\ NoData(slot)
    /\ \A o, q \in builder.objects : o # q => Apart(o, q)

\* ReadsInBounds is not inductive: an element of a list lies in the message
\* because the list does, and what is read must not change under the reader.
\* Nor is BuiltReadsBack: a number is only written where no pointer is.
IInv == Types /\ UnreadWhileOpen /\ ReadsInBounds /\ Layout

-----------------------------------------------------------------------------
(* Numbers.                                                                *)

\* The bits of a list of count elements fill a natural number of words.
LEMMA ListWordsNat ==
    ASSUME NEW size \in 0..6, NEW count \in Nat
    PROVE  ListWords(size, count) \in Nat
<1>1. PICK k \in Nat : <<0, 1, 8, 16, 32, 64, 64>>[size + 1] = k
  <2>1. size \in {0, 1, 2, 3, 4, 5, 6}
    OBVIOUS
  <2> QED
    BY <2>1
<1>2. count * k \in Nat
  OBVIOUS
<1>3. (count * k + 63) \div 64 \in Nat
  BY <1>2
<1> QED
  BY <1>1, <1>3 DEF ListWords

\* An element of a list of count elements of k words ends within the list.
LEMMA ElementWithin ==
    ASSUME NEW i \in Nat, NEW count \in Nat, NEW k \in Nat, i < count
    PROVE  /\ i * k \in Nat
           /\ i * k + k <= count * k
<1>1. PICK d \in Nat : count = i + 1 + d
  <2>1. count - i - 1 \in Nat
    OBVIOUS
  <2> QED
    BY <2>1
<1>2. (i + 1 + d) * k = i * k + k + d * k
  OBVIOUS
<1>3. d * k \in Nat /\ i * k \in Nat
  OBVIOUS
<1> QED
  BY <1>1, <1>2, <1>3

\* Both sizes of a value span a natural number of words.
LEMMA ExtentNat ==
    ASSUME NEW v \in Values
    PROVE  Extent(v) \in Nat
<1>1. v.size # 7 => ListWords(v.size, v.count) \in Nat
  <2>1. v.size # 7 => v.size \in 0..6
    BY DEF Values
  <2> QED
    BY <2>1, ListWordsNat DEF Values
<1>2. v.data + v.pointers \in Nat /\ v.count \in Nat
  BY DEF Values
<1>3. v.count * (v.data + v.pointers) \in Nat
  BY <1>2
<1> QED
  BY <1>1, <1>2, <1>3 DEF Extent

-----------------------------------------------------------------------------
(* The reader.                                                             *)

\* The value that stands for nothing is sound, whatever it cost.
LEMMA NothingSound ==
    ASSUME NEW m, NEW r \in Readers, NEW s \in Readers, s.budget <= r.budget
    PROVE  Sound(m, r, Got(s, NullValue))
<1>1. NullValue \in Values /\ NullValue.kind = "NULL" /\ NullValue.depth = 0
  BY DEF NullValue, Values
<1>2. Extent(NullValue) = 0
  BY <1>1 DEF Extent
<1>3. r.budget \in Nat /\ s.budget \in Nat /\ DepthMax \in Nat
  BY CapnpAssumption DEF Readers
<1>4. Got(s, NullValue).reader = s /\ Got(s, NullValue).value = NullValue
  BY DEF Got
<1> HIDE DEF NullValue, Got
<1> QED
  BY <1>1, <1>2, <1>3, <1>4 DEF Sound, Within

\* Neither is a refusal out of bounds.
LEMMA RefusalSound ==
    ASSUME NEW m, NEW r \in Readers, NEW s \in Readers, s.budget <= r.budget,
           NEW rc \in Codes
    PROVE  Sound(m, r, Refused(s, rc))
<1>1. PICK t : t = [s EXCEPT !.error = rc]
  OBVIOUS
<1>2. t \in Readers /\ t.budget = s.budget
  BY <1>1 DEF Readers
<1>3. Sound(m, r, Got(t, NullValue))
  BY <1>2, NothingSound
<1> QED
  BY <1>1, <1>3 DEF Refused

\* Paying reduces the budget by the price, and the price is at least one word.
LEMMA Payment ==
    ASSUME NEW r \in Readers, NEW words \in Nat, Cost(words) <= r.budget
    PROVE  /\ charge(r, words) \in Readers
           /\ charge(r, words).error = r.error
           /\ words <= r.budget - charge(r, words).budget
           /\ charge(r, words).budget < r.budget
<1>1. Cost(words) \in Nat \ {0} /\ words <= Cost(words)
  BY DEF Cost
<1>2. r.budget - Cost(words) \in 0..Budget
  BY <1>1, CapnpAssumption DEF Readers
<1>3. charge(r, words).budget = r.budget - Cost(words)
  BY DEF charge, Readers
<1>4. charge(r, words) \in Readers /\ charge(r, words).error = r.error
  BY <1>2 DEF charge, Readers
<1>5. r.budget \in Nat
  BY DEF Readers
<1> QED
  BY <1>1, <1>3, <1>4, <1>5

\* What an earlier payment leaves is sound for the reader before it.
LEMMA SoundLater ==
    ASSUME NEW m, NEW r \in Readers, NEW s \in Readers, s.budget <= r.budget,
           NEW got, Sound(m, s, got)
    PROVE  Sound(m, r, got)
<1>1. r.budget \in Nat /\ s.budget \in Nat /\ got.reader.budget \in Nat
  BY DEF Readers, Sound
<1> QED
  BY <1>1 DEF Sound

LEMMA EnterSound ==
    ASSUME NEW m \in Segments, NEW r \in Readers, NEW v \in Values,
           v.depth <= DepthMax, NEW words \in Nat, Extent(v) = words
    PROVE  Sound(m, r, Enter(m, r, v, words))
<1>0. r.budget <= r.budget /\ r.budget \in Nat
  BY DEF Readers
<1>1. CASE ~range(m, v.seg, v.word, words)
  <2>1. Enter(m, r, v, words) = Refused(r, "FORMAT")
    BY <1>1 DEF Enter
  <2> QED
    BY <1>0, <2>1, RefusalSound DEF Codes
<1>2. CASE range(m, v.seg, v.word, words) /\ Cost(words) > r.budget
  <2>1. Enter(m, r, v, words) = Refused(r, "LIMIT")
    BY <1>2 DEF Enter
  <2> QED
    BY <1>0, <2>1, RefusalSound DEF Codes
<1>3. CASE range(m, v.seg, v.word, words) /\ ~(Cost(words) > r.budget)
  <2>1. Enter(m, r, v, words) = Got(charge(r, words), v)
    BY <1>3 DEF Enter
  <2>2. Cost(words) \in Nat
    BY DEF Cost
  <2>3. /\ charge(r, words) \in Readers
        /\ words <= r.budget - charge(r, words).budget
    BY <1>0, <1>3, <2>2, Payment
  <2>4. Got(charge(r, words), v).reader = charge(r, words) /\ Got(charge(r, words), v).value = v
    BY DEF Got
  <2> QED
    BY <1>3, <2>1, <2>3, <2>4 DEF Sound, Within
<1> QED
  BY <1>1, <1>2, <1>3

\* The words of a message are pointers.
LEMMA WordIsPointer ==
    ASSUME NEW m \in Segments, NEW seg \in Nat, NEW word \in Nat, NEW words \in Nat \ {0},
           range(m, seg, word, words)
    PROVE  word_at(m, seg, word) \in Pointers
<1>1. m[seg + 1] \in Seq(Pointers)
  BY ElementOfSeq DEF range, Segments
<1>2. word + 1 \in 1..Len(m[seg + 1])
  BY <1>1, LenProperties DEF range
<1>3. m[seg + 1][word + 1] \in Pointers
  BY <1>1, <1>2, ElementOfSeq
<1> QED
  BY <1>3 DEF word_at

\* What the fields of a pointer are, by its kind.
LEMMA PointerFields ==
    ASSUME NEW p \in Pointers
    PROVE  /\ p.kind \in {"struct", "list", "far", "cap", "other"}
           /\ p.kind = "struct" => p.off \in Int /\ p.data \in Nat /\ p.pointers \in Nat
           /\ p.kind = "list" => p.off \in Int /\ p.size \in 0..7 /\ p.count \in Nat
           /\ p.kind = "far" => p.two \in BOOLEAN /\ p.seg \in Nat /\ p.slot \in Nat
BY DEF Pointers

LEMMA CompositeSound ==
    ASSUME NEW m \in Segments, NEW r \in Readers, NEW v \in Values,
           v.kind = "LIST", v.size = 7, v.depth <= DepthMax, NEW words \in Nat \ {0}
    PROVE  Sound(m, r, Composite(m, r, v, words))
<1> DEFINE tag == word_at(m, v.seg, v.word)
           count == tag.off % OffsetMod
           w == [v EXCEPT !.word = @ + 1, !.data = tag.data,
                          !.pointers = tag.pointers, !.count = count]
<1>0. r.budget <= r.budget /\ r.budget \in Nat /\ v.seg \in Nat /\ v.word \in Nat
  BY DEF Readers, Values
<1>1. CASE ~range(m, v.seg, v.word, words) \/ tag.kind # "struct"
  <2>1. Composite(m, r, v, words) = Refused(r, "FORMAT")
    BY <1>1 DEF Composite
  <2> QED
    BY <1>0, <2>1, RefusalSound DEF Codes
<1>2. CASE range(m, v.seg, v.word, words) /\ tag.kind = "struct"
  <2>1. tag \in Pointers
    BY <1>0, <1>2, WordIsPointer
  <2>2. tag.off \in Int /\ tag.data \in Nat /\ tag.pointers \in Nat
    BY <1>2, <2>1, PointerFields
  <2>3. count \in Nat
    BY <2>2, CapnpAssumption
  <2>4. CASE count * (tag.data + tag.pointers) > words - 1
    <3>1. Composite(m, r, v, words) = Refused(r, "FORMAT")
      BY <1>2, <2>4 DEF Composite
    <3> QED
      BY <1>0, <3>1, RefusalSound DEF Codes
  <2>5. CASE ~(count * (tag.data + tag.pointers) > words - 1) /\ Cost(words) > r.budget
    <3>1. Composite(m, r, v, words) = Refused(r, "LIMIT")
      BY <1>2, <2>5 DEF Composite
    <3> QED
      BY <1>0, <3>1, RefusalSound DEF Codes
  <2>6. CASE ~(count * (tag.data + tag.pointers) > words - 1) /\ ~(Cost(words) > r.budget)
    <3>1. Composite(m, r, v, words) = Got(charge(r, words), w)
      BY <1>2, <2>6 DEF Composite
    <3> HIDE DEF tag, count
    <3>2. /\ w.kind = "LIST" /\ w.size = 7 /\ w.seg = v.seg /\ w.word = v.word + 1
          /\ w.data = tag.data /\ w.pointers = tag.pointers /\ w.count = count
          /\ w.depth = v.depth
      BY DEF Values
    <3>3. w \in Values
      <4>1. \A a, b, c, d \in Nat :
              [v EXCEPT !.word = a, !.data = b, !.pointers = c, !.count = d] \in Values
        BY DEF Values
      <4>2. v.word + 1 \in Nat
        BY <1>0
      <4> QED
        BY <2>2, <2>3, <4>1, <4>2
    <3> HIDE DEF w
    <3>4. Extent(w) = count * (tag.data + tag.pointers)
      BY <3>2 DEF Extent
    <3>5. PICK e \in Nat : e = count * (tag.data + tag.pointers)
      BY <2>2, <2>3
    <3>6. e <= words - 1
      BY <2>6, <3>5
    <3>7. Cost(words) \in Nat
      BY DEF Cost
    <3>8. /\ charge(r, words) \in Readers
          /\ words <= r.budget - charge(r, words).budget
      BY <1>0, <2>6, <3>7, Payment
    <3>9. charge(r, words).budget \in Nat
      BY <3>8 DEF Readers
    <3>10. Len(m[v.seg + 1]) \in Nat
      BY <1>0, <1>2, ElementOfSeq, LenProperties DEF range, Segments
    <3>11. range(m, w.seg, w.word, e)
      BY <1>0, <1>2, <3>2, <3>6, <3>10 DEF range
    <3>12. Got(charge(r, words), w).reader = charge(r, words)
             /\ Got(charge(r, words), w).value = w
      BY DEF Got
    <3> QED
      BY <1>0, <3>1, <3>2, <3>3, <3>4, <3>5, <3>6, <3>8, <3>9, <3>11, <3>12 DEF Sound, Within
  <2> QED
    BY <2>4, <2>5, <2>6
<1> QED
  BY <1>1, <1>2

\* A pointer other than a far pointer leads to a sound value.
LEMMA ObjectSound ==
    ASSUME NEW m \in Segments, NEW r \in Readers, NEW p \in Pointers, p.kind # "far",
           NEW seg \in Nat, NEW target, p.kind \in {"struct", "list"} => target \in Int,
           NEW depth \in 0..DepthMax
    PROVE  Sound(m, r, Object(m, r, p, seg, target, depth))
<1> DEFINE v == [NullValue EXCEPT !.seg = seg, !.word = target, !.depth = depth]
           l == [v EXCEPT !.kind = "LIST", !.size = p.size, !.count = p.count]
           s == [v EXCEPT !.kind = "STRUCT", !.data = p.data, !.pointers = p.pointers]
           c == [NullValue EXCEPT !.kind = "CAP", !.depth = depth]
<1>0. r.budget <= r.budget /\ r.budget \in Nat /\ depth \in Nat /\ depth <= DepthMax
  BY CapnpAssumption DEF Readers
<1>n. NullValue \in Values
  BY DEF NullValue, Values
<1>1. CASE p.kind = "other"
  <2>1. Object(m, r, p, seg, target, depth) = Refused(r, "UNSUPPORTED")
    BY <1>1 DEF Object
  <2> QED
    BY <1>0, <2>1, RefusalSound DEF Codes
<1>2. CASE p.kind = "cap"
  <2>1. Object(m, r, p, seg, target, depth) = Got(r, c)
    BY <1>2 DEF Object
  <2>2. c \in Values /\ c.kind = "CAP" /\ c.depth = depth
    BY <1>0, <1>n DEF Values
  <2> HIDE DEF c
  <2>3. Extent(c) = 0
    BY <2>2 DEF Extent
  <2>4. Got(r, c).reader = r /\ Got(r, c).value = c
    BY DEF Got
  <2> QED
    BY <1>0, <2>1, <2>2, <2>3, <2>4 DEF Sound, Within
<1>3. CASE p.kind \in {"struct", "list"} /\ target < 0
  <2>1. Object(m, r, p, seg, target, depth) = Refused(r, "FORMAT")
    BY <1>3 DEF Object
  <2> QED
    BY <1>0, <2>1, RefusalSound DEF Codes
<1>4. CASE p.kind = "struct" /\ ~(target < 0)
  <2>1. Object(m, r, p, seg, target, depth) = Enter(m, r, s, p.data + p.pointers)
    BY <1>4 DEF Object
  <2>2. p.data \in Nat /\ p.pointers \in Nat /\ target \in Nat
    BY <1>4, PointerFields
  <2>3. s \in Values
    <3>1. v \in Values
      BY <1>0, <1>n, <2>2 DEF Values
    <3> HIDE DEF v
    <3> QED
      BY <2>2, <3>1 DEF Values
  <2>4. /\ s.kind = "STRUCT" /\ s.data = p.data /\ s.pointers = p.pointers
        /\ s.depth = depth
    BY DEF NullValue
  <2> HIDE DEF s
  <2>5. Extent(s) = p.data + p.pointers
    BY <2>4 DEF Extent
  <2>6. p.data + p.pointers \in Nat
    BY <2>2
  <2> QED
    BY <1>0, <2>1, <2>3, <2>4, <2>5, <2>6, EnterSound
<1>5. CASE p.kind = "list" /\ ~(target < 0)
  <2>1. p.size \in 0..7 /\ p.count \in Nat /\ target \in Nat
    BY <1>5, PointerFields
  <2>2. l \in Values
    <3>1. v \in Values
      BY <1>0, <1>n, <2>1 DEF Values
    <3> HIDE DEF v
    <3> QED
      BY <2>1, <3>1 DEF Values
  <2>3. l.kind = "LIST" /\ l.size = p.size /\ l.count = p.count /\ l.depth = depth
    BY DEF NullValue
  <2>4. CASE p.size = 7
    <3>1. Object(m, r, p, seg, target, depth) = Composite(m, r, l, p.count + 1)
      BY <1>5, <2>4 DEF Object
    <3>2. p.count + 1 \in Nat \ {0}
      BY <2>1
    <3> HIDE DEF l
    <3> QED
      BY <1>0, <2>2, <2>3, <2>4, <3>1, <3>2, CompositeSound
  <2>5. CASE p.size # 7
    <3>1. Object(m, r, p, seg, target, depth) = Enter(m, r, l, ListWords(p.size, p.count))
      BY <1>5, <2>5 DEF Object
    <3> HIDE DEF l
    <3>2. Extent(l) = ListWords(p.size, p.count)
      BY <2>3, <2>5 DEF Extent
    <3>3. ListWords(p.size, p.count) \in Nat
      <4>1. p.size \in 0..6
        BY <2>1, <2>5
      <4> QED
        BY <2>1, <4>1, ListWordsNat
    <3> QED
      BY <1>0, <2>2, <2>3, <3>1, <3>2, <3>3, EnterSound
  <2> QED
    BY <2>4, <2>5
<1> QED
  BY <1>1, <1>2, <1>3, <1>4, <1>5, PointerFields

\* So does a far pointer, by way of its landing pad.
LEMMA FarSound ==
    ASSUME NEW m \in Segments, NEW r \in Readers, NEW p \in Pointers, p.kind = "far",
           NEW depth \in 0..DepthMax
    PROVE  Sound(m, r, Far(m, r, p, depth))
<1> DEFINE words == IF p.two THEN 2 ELSE 1
           pad == word_at(m, p.seg, p.slot)
           tag == word_at(m, p.seg, p.slot + 1)
           paid == charge(r, words)
<1>0. /\ r.budget <= r.budget /\ r.budget \in Nat
      /\ p.two \in BOOLEAN /\ p.seg \in Nat /\ p.slot \in Nat
      /\ words \in Nat \ {0} /\ Cost(words) = words
  BY PointerFields DEF Readers, Cost
<1>1. CASE ~range(m, p.seg, p.slot, words)
  <2>1. Far(m, r, p, depth) = Refused(r, "FORMAT")
    BY <1>1 DEF Far
  <2> QED
    BY <1>0, <2>1, RefusalSound DEF Codes
<1>2. CASE range(m, p.seg, p.slot, words) /\ words > r.budget
  <2>1. Far(m, r, p, depth) = Refused(r, "LIMIT")
    BY <1>2 DEF Far
  <2> QED
    BY <1>0, <2>1, RefusalSound DEF Codes
<1>3. CASE range(m, p.seg, p.slot, words) /\ ~(words > r.budget)
  <2>1. paid \in Readers /\ paid.budget <= r.budget
    <3>1. Cost(words) <= r.budget
      BY <1>0, <1>3
    <3> HIDE DEF words
    <3>2. paid \in Readers /\ paid.budget < r.budget
      BY <1>0, <3>1, Payment
    <3> QED
      BY <1>0, <3>2 DEF Readers
  <2>2. pad \in Pointers
    BY <1>0, <1>3, WordIsPointer
  <2> HIDE DEF paid
  <2>3. CASE ~p.two
    <3>1. CASE pad.kind \notin {"struct", "list"} \/ pad = NullPtr
      <4>1. Far(m, r, p, depth) = Refused(paid, "FORMAT")
        BY <1>3, <2>3, <3>1 DEF Far, paid
      <4> QED
        BY <2>1, <4>1, RefusalSound DEF Codes
    <3>2. CASE pad.kind \in {"struct", "list"} /\ pad # NullPtr
      <4>1. Far(m, r, p, depth) = Object(m, paid, pad, p.seg, Target(pad, p.slot), depth)
        BY <1>3, <2>3, <3>2 DEF Far, paid
      <4> HIDE DEF pad
      <4>2. pad.off \in Int
        BY <2>2, <3>2, PointerFields
      <4>3. Target(pad, p.slot) \in Int
        BY <1>0, <3>2, <4>2 DEF Target
      <4>4. Sound(m, paid, Object(m, paid, pad, p.seg, Target(pad, p.slot), depth))
        BY <1>0, <2>1, <2>2, <3>2, <4>3, ObjectSound
      <4> QED
        BY <2>1, <4>1, <4>4, SoundLater
    <3> QED
      BY <3>1, <3>2
  <2>4. CASE p.two
    <3> DEFINE good == /\ pad.kind = "far" /\ ~pad.two
                       /\ tag.kind \in {"struct", "list"} /\ tag.off = 0
    <3>1. CASE ~good
      <4>1. Far(m, r, p, depth) = Refused(paid, "FORMAT")
        BY <1>3, <2>4, <3>1 DEF Far, paid
      <4> QED
        BY <2>1, <4>1, RefusalSound DEF Codes
    <3>2. CASE good
      <4>1. Far(m, r, p, depth) = Object(m, paid, tag, pad.seg, pad.slot, depth)
        BY <1>3, <2>4, <3>2 DEF Far, paid
      <4>2. pad.seg \in Nat /\ pad.slot \in Nat
        BY <2>2, <3>2, PointerFields
      <4>3. tag \in Pointers
        <5>1. range(m, p.seg, p.slot + 1, 1)
          <6>1. p.seg < Len(m) /\ p.slot <= Len(m[p.seg + 1]) /\ 2 <= Len(m[p.seg + 1]) - p.slot
            BY <1>3, <2>4 DEF range
          <6>2. Len(m[p.seg + 1]) \in Nat
            BY <1>0, <6>1, ElementOfSeq, LenProperties DEF Segments
          <6> QED
            BY <1>0, <6>1, <6>2 DEF range
        <5> QED
          BY <1>0, <5>1, WordIsPointer
      <4> HIDE DEF tag, pad
      <4>4. Sound(m, paid, Object(m, paid, tag, pad.seg, pad.slot, depth))
        BY <2>1, <3>2, <4>2, <4>3, ObjectSound
      <4> QED
        BY <2>1, <4>1, <4>4, SoundLater
    <3> QED
      BY <3>1, <3>2
  <2> QED
    BY <2>3, <2>4
<1> QED
  BY <1>1, <1>2, <1>3

\* Whatever word a caller follows, and at whatever depth, it gets a sound value.
LEMMA FollowSound ==
    ASSUME NEW m \in Segments, NEW r \in Readers, NEW seg \in Nat, NEW slot \in Nat,
           NEW depth \in Nat
    PROVE  Sound(m, r, follow(m, r, seg, slot, depth))
<1> DEFINE p == word_at(m, seg, slot)
           paid == charge(r, 1)
<1>0. r.budget <= r.budget /\ r.budget \in Nat /\ DepthMax \in Nat
  BY CapnpAssumption DEF Readers
<1>1. CASE r.error # "OK"
  <2>1. follow(m, r, seg, slot, depth) = Got(r, NullValue)
    BY <1>1 DEF follow
  <2> QED
    BY <1>0, <2>1, NothingSound
<1>2. CASE r.error = "OK" /\ (depth > DepthMax \/ ~range(m, seg, slot, 1) \/ r.budget < 1)
  <2>1. follow(m, r, seg, slot, depth) \in {Refused(r, "LIMIT"), Refused(r, "FORMAT")}
    BY <1>2 DEF follow
  <2> QED
    BY <1>0, <2>1, RefusalSound DEF Codes
<1>3. CASE r.error = "OK" /\ ~(depth > DepthMax) /\ range(m, seg, slot, 1) /\ ~(r.budget < 1)
  <2>1. paid \in Readers /\ paid.budget <= r.budget
    <3>1. Cost(1) = 1
      BY DEF Cost
    <3>2. paid \in Readers /\ paid.budget < r.budget
      BY <1>0, <1>3, <3>1, Payment
    <3> QED
      BY <1>0, <3>2 DEF Readers
  <2>2. p \in Pointers
    BY <1>3, WordIsPointer
  <2>3. depth \in 0..DepthMax
    BY <1>0, <1>3
  <2> HIDE DEF paid
  <2>4. CASE p = NullPtr
    <3>1. follow(m, r, seg, slot, depth) = Got(paid, NullValue)
      BY <1>3, <2>4 DEF follow, paid
    <3> QED
      BY <2>1, <3>1, NothingSound
  <2>5. CASE p # NullPtr /\ p.kind = "far"
    <3>1. follow(m, r, seg, slot, depth) = Far(m, paid, p, depth)
      BY <1>3, <2>5 DEF follow, paid
    <3> HIDE DEF p
    <3>2. Sound(m, paid, Far(m, paid, p, depth))
      BY <2>1, <2>2, <2>3, <2>5, FarSound
    <3> QED
      BY <2>1, <3>1, <3>2, SoundLater
  <2>6. CASE p # NullPtr /\ p.kind # "far"
    <3>1. follow(m, r, seg, slot, depth) = Object(m, paid, p, seg, Target(p, slot), depth)
      BY <1>3, <2>6 DEF follow, paid
    <3> HIDE DEF p
    <3>2. p.kind \in {"struct", "list"} => Target(p, slot) \in Int
      BY <2>2, PointerFields DEF Target
    <3>3. Sound(m, paid, Object(m, paid, p, seg, Target(p, slot), depth))
      BY <2>1, <2>2, <2>3, <2>6, <3>2, ObjectSound
    <3> QED
      BY <2>1, <3>1, <3>3, SoundLater
  <2> QED
    BY <2>4, <2>5, <2>6
<1> QED
  BY <1>0, <1>1, <1>2, <1>3

-----------------------------------------------------------------------------
(* The calls of the reader keep the invariant.                             *)

\* The layout depends on the words and on what the builder laid out.
LEMMA LayoutFrame ==
    ASSUME Layout, message' = message, builder'.open => builder.open,
           builder'.objects = builder.objects, builder'.free = builder.free
    PROVE  Layout'
BY DEF Layout, OneSegment, Placed, Shaped, PointerTo, Unset, NoData, DataCells, Apart

\* A call that leaves a value within the message, paid for, keeps the invariant.
LEMMA ReadKeeps ==
    ASSUME IInv, ~builder.open, UNCHANGED <<message, builder>>,
           reader' \in Readers, value' \in Values, visited' \in Nat,
           Within(message, value'), value'.depth <= DepthMax,
           visited' <= Budget - reader'.budget
    PROVE  IInv'
<1>1. Types'
  BY DEF IInv, Types
<1>2. UnreadWhileOpen'
  BY DEF UnreadWhileOpen
<1>3. ReadsInBounds'
  <2>1. value'.kind \in {"NULL", "STRUCT", "LIST", "CAP"}
    BY DEF Values
  <2>2. message' = message
    OBVIOUS
  <2>3. value'.kind # "CAP" =>
          range(message', value'.seg, value'.word, Extent(value')) \/ value'.kind = "NULL"
    BY <2>1, <2>2 DEF Within
  <2> QED
    BY <2>3 DEF ReadsInBounds, Extent
<1>4. Layout'
  BY LayoutFrame DEF IInv
<1> QED
  BY <1>1, <1>2, <1>3, <1>4 DEF IInv

LEMMA FollowKeeps ==
    ASSUME IInv, Usable, NEW seg \in Nat, NEW slot \in Nat, NEW depth \in Nat,
           Follow(seg, slot, depth)
    PROVE  IInv'
<1>1. PICK got : got = follow(message, reader, seg, slot, depth)
  OBVIOUS
<1>2. reader' = got.reader /\ value' = got.value /\ visited' = visited + Extent(got.value)
  BY <1>1 DEF Follow
<1>3. Sound(message, reader, got)
  BY <1>1, FollowSound DEF IInv, Types
<1>4. /\ reader.budget \in Nat /\ got.reader.budget \in Nat /\ Budget \in Nat /\ visited \in Nat
      /\ visited <= Budget - reader.budget
  BY <1>3, CapnpAssumption DEF IInv, Types, ReadsInBounds, Sound, Readers
<1>5. Extent(got.value) \in Nat /\ Extent(got.value) <= reader.budget - got.reader.budget
  BY <1>3 DEF Sound
<1>6. visited' \in Nat /\ visited' <= Budget - reader'.budget
  BY <1>2, <1>4, <1>5
<1> QED
  BY <1>2, <1>3, <1>6, ReadKeeps DEF Sound, Usable

LEMMA YieldKeeps ==
    ASSUME IInv, Usable, NEW rc \in Codes, Yield(rc)
    PROVE  IInv'
<1>1. reader' \in Readers /\ reader'.budget = reader.budget
  BY DEF Yield, IInv, Types, Readers
<1>2. value' = NullValue /\ visited' = visited
  BY DEF Yield
<1>3. NullValue \in Values /\ NullValue.kind = "NULL" /\ NullValue.depth = 0 /\ 0 <= DepthMax
  BY CapnpAssumption DEF NullValue, Values
<1>4. visited' \in Nat /\ visited' <= Budget - reader'.budget
  BY <1>1, <1>2 DEF IInv, Types, ReadsInBounds
<1> QED
  BY <1>1, <1>2, <1>3, <1>4, ReadKeeps DEF Usable, Within

\* A call that only pays keeps what the caller holds.
LEMMA PayKeeps ==
    ASSUME IInv, Usable, UNCHANGED <<value, visited>>,
           reader' = reader \/ (reader' = charge(reader, 1) /\ ~(reader.budget < 1))
    PROVE  IInv'
<1>1. reader' \in Readers /\ reader'.budget <= reader.budget
  <2>1. reader \in Readers /\ reader.budget \in Nat
    BY DEF IInv, Types, Readers
  <2>2. CASE reader' = reader
    BY <2>1, <2>2
  <2>3. CASE reader' = charge(reader, 1) /\ ~(reader.budget < 1)
    <3>1. Cost(1) = 1
      BY DEF Cost
    <3>2. charge(reader, 1) \in Readers /\ charge(reader, 1).budget < reader.budget
      BY <2>1, <2>3, <3>1, Payment
    <3> QED
      BY <2>1, <2>3, <3>2 DEF Readers
  <2> QED
    BY <2>2, <2>3
<1>2. reader.budget \in Nat /\ reader'.budget \in Nat /\ Budget \in Nat
  BY <1>1, CapnpAssumption DEF IInv, Types, Readers
<1>3. visited' \in Nat /\ visited' <= Budget - reader'.budget
  BY <1>1, <1>2 DEF IInv, Types, ReadsInBounds
<1>4. value' \in Values /\ value'.depth <= DepthMax /\ Within(message, value')
  BY DEF IInv, Types, ReadsInBounds, Within
<1> QED
  BY <1>1, <1>3, <1>4, ReadKeeps DEF Usable

LEMMA FieldKeeps ==
    ASSUME IInv, NEW index \in Nat, cf_cp_field(index)
    PROVE  IInv'
<1>0. Usable
  BY DEF cf_cp_field
<1>1. CASE value.kind # "STRUCT"
  BY <1>0, <1>1, YieldKeeps DEF cf_cp_field, Codes
<1>2. CASE value.kind = "STRUCT" /\ index >= value.pointers
  BY <1>0, <1>2, YieldKeeps DEF cf_cp_field, Codes
<1>3. CASE value.kind = "STRUCT" /\ ~(index >= value.pointers)
  <2>1. /\ value.seg \in Nat /\ value.word + value.data + index \in Nat
        /\ value.depth + 1 \in Nat
    BY DEF IInv, Types, Values
  <2>2. Follow(value.seg, value.word + value.data + index, value.depth + 1)
    BY <1>3 DEF cf_cp_field
  <2> QED
    BY <1>0, <2>1, <2>2, FollowKeeps
<1> QED
  BY <1>1, <1>2, <1>3

\* An element of a composite list lies where the list lies.
LEMMA AtKeeps ==
    ASSUME IInv, NEW index \in Nat, cf_cp_at(index)
    PROVE  IInv'
<1>0. Usable /\ value \in Values
  BY DEF cf_cp_at, IInv, Types
<1>1. CASE value.kind # "LIST" \/ index >= value.count
  BY <1>0, <1>1, YieldKeeps DEF cf_cp_at, Codes
<1>2. CASE value.kind = "LIST" /\ ~(index >= value.count) /\ value.size = 6
  <2>1. value.seg \in Nat /\ value.word + index \in Nat /\ value.depth + 1 \in Nat
    BY <1>0 DEF Values
  <2>2. Follow(value.seg, value.word + index, value.depth + 1)
    BY <1>2 DEF cf_cp_at
  <2> QED
    BY <1>0, <2>1, <2>2, FollowKeeps
<1>3. CASE value.kind = "LIST" /\ ~(index >= value.count) /\ value.size # 6 /\ value.size # 7
  BY <1>0, <1>3, YieldKeeps DEF cf_cp_at, Codes
<1>4. CASE /\ value.kind = "LIST" /\ ~(index >= value.count) /\ value.size = 7
           /\ value.depth >= DepthMax \/ reader.budget < 1
  BY <1>0, <1>4, YieldKeeps DEF cf_cp_at, Codes
<1>5. CASE /\ value.kind = "LIST" /\ ~(index >= value.count) /\ value.size = 7
           /\ ~(value.depth >= DepthMax) /\ ~(reader.budget < 1)
  <2> DEFINE k == value.data + value.pointers
             w == [value EXCEPT !.kind = "STRUCT", !.depth = @ + 1, !.word = @ + index * k]
  <2>1. reader' = charge(reader, 1) /\ value' = w /\ visited' = visited
    BY <1>5 DEF cf_cp_at
  <2>2. /\ value.seg \in Nat /\ value.word \in Nat /\ value.depth \in Nat /\ value.count \in Nat
        /\ value.data \in Nat /\ value.pointers \in Nat /\ k \in Nat /\ DepthMax \in Nat
        /\ reader.budget \in Nat
    BY <1>0, CapnpAssumption DEF Values, IInv, Types, Readers
  <2>3. index < value.count
    BY <1>5, <2>2
  <2> HIDE DEF k
  <2>4. index * k \in Nat /\ index * k + k <= value.count * k
    BY <2>2, <2>3, ElementWithin
  <2>5. /\ w.kind = "STRUCT" /\ w.seg = value.seg /\ w.word = value.word + index * k
        /\ w.data = value.data /\ w.pointers = value.pointers /\ w.depth = value.depth + 1
    BY <1>0 DEF Values
  <2>6. w \in Values
    <3>1. \A a, b \in Nat :
            [value EXCEPT !.kind = "STRUCT", !.depth = a, !.word = b] \in Values
      BY <1>0 DEF Values
    <3>2. value.depth + 1 \in Nat /\ value.word + index * k \in Nat
      BY <2>2, <2>4
    <3> QED
      BY <3>1, <3>2
  <2> HIDE DEF w
  <2>7. Extent(w) = k /\ Extent(value) = value.count * k
    BY <1>5, <2>5 DEF Extent, k
  <2>8. range(message, value.seg, value.word, value.count * k)
    BY <1>5, <2>7 DEF IInv, ReadsInBounds
  <2>9. Len(message[value.seg + 1]) \in Nat
    BY <2>2, <2>8, ElementOfSeq, LenProperties DEF range, IInv, Types, Segments
  <2>10. PICK total \in Nat, skip \in Nat :
           total = value.count * k /\ skip = index * k /\ skip + k <= total
    <3>1. value.count * k \in Nat
      BY <2>2
    <3> QED
      BY <2>4, <3>1
  <2>11. range(message, w.seg, w.word, k)
    <3>1. /\ value.seg < Len(message) /\ value.word <= Len(message[value.seg + 1])
          /\ total <= Len(message[value.seg + 1]) - value.word
      BY <2>8, <2>10 DEF range
    <3>2. w.seg = value.seg /\ w.word = value.word + skip
      BY <2>5, <2>10
    <3>3. PICK size \in Nat : size = Len(message[value.seg + 1])
      BY <2>9
    <3>4. skip + k <= total /\ total <= size - value.word
      BY <2>10, <3>1, <3>3
    <3>5. value.word + skip <= size /\ k <= size - (value.word + skip)
      BY <2>2, <3>4
    <3> QED
      BY <3>1, <3>2, <3>3, <3>5 DEF range
  <2>12. charge(reader, 1) \in Readers /\ charge(reader, 1).budget < reader.budget
    <3>1. Cost(1) = 1
      BY DEF Cost
    <3> QED
      BY <1>5, <2>2, <3>1, Payment DEF IInv, Types
  <2>13. visited' \in Nat /\ visited' <= Budget - reader'.budget
    <3>1. reader'.budget \in Nat /\ Budget \in Nat
      BY <2>1, <2>12, CapnpAssumption DEF Readers
    <3> QED
      BY <2>1, <2>2, <2>12, <3>1 DEF IInv, Types, ReadsInBounds
  <2>14. w.depth <= DepthMax
    BY <1>5, <2>2, <2>5
  <2> QED
    BY <1>0, <2>1, <2>6, <2>7, <2>11, <2>12, <2>13, <2>14, ReadKeeps DEF Usable, Within
<1> QED
  BY <1>1, <1>2, <1>3, <1>4, <1>5

LEMMA ReadStep ==
    ASSUME IInv, Read
    PROVE  IInv'
<1>1. CASE cf_cp_root
  BY <1>1, FollowKeeps DEF cf_cp_root
<1>2. ASSUME NEW i \in Indexes, cf_cp_field(i) \/ cf_cp_at(i)
      PROVE  IInv'
  BY <1>2, FieldKeeps, AtKeeps, CapnpAssumption
<1>3. ASSUME NEW byte \in Lengths, cf_cp_uint(byte, 8)
      PROVE  IInv'
  <2>1. Usable
    BY <1>3 DEF cf_cp_uint
  <2>2. \/ Yield("FORMAT") \/ Yield("LIMIT")
        \/ UNCHANGED <<reader, value, visited>>
        \/ /\ reader' = charge(reader, 1) /\ ~(reader.budget < 1)
           /\ UNCHANGED <<value, visited>>
    BY <1>3 DEF cf_cp_uint
  <2> QED
    BY <2>1, <2>2, YieldKeeps, PayKeeps DEF Codes
<1>4. ASSUME NEW text \in BOOLEAN, NEW terminated \in BOOLEAN, cf_cp_data(text, terminated)
      PROVE  IInv'
  <2>1. Usable
    BY <1>4 DEF cf_cp_data
  <2>2. Yield("FORMAT") \/ UNCHANGED <<reader, value, visited>>
    BY <1>4 DEF cf_cp_data
  <2> QED
    BY <2>1, <2>2, YieldKeeps, PayKeeps DEF Codes
<1> QED
  BY <1>1, <1>2, <1>3, <1>4 DEF Read

-----------------------------------------------------------------------------
(* The calls of the builder keep the invariant.                            *)

\* A segment that grows by n words and has the pointer at slot set.
Grown(S, slot, n, p) == [S \o [i \in 1..n |-> NullPtr] EXCEPT ![slot + 1] = p]

Extends(T, S, slot, n, p) ==
    /\ T \in Seq(Pointers)
    /\ Len(T) = Len(S) + n
    /\ \A i \in 0..(Len(S) + n - 1) :
         T[i + 1] = IF i = slot THEN p ELSE IF i < Len(S) THEN S[i + 1] ELSE NullPtr

LEMMA GrownWords ==
    ASSUME NEW S \in Seq(Pointers), NEW slot \in Nat, slot < Len(S), NEW n \in Nat,
           NEW p \in Pointers
    PROVE  Extends(Grown(S, slot, n, p), S, slot, n, p)
<1>1. NullPtr \in Pointers
  BY DEF NullPtr, StructPtr, Pointers
<1>2. PICK z : z = [i \in 1..n |-> NullPtr]
  OBVIOUS
<1>3. z \in Seq(Pointers) /\ Len(z) = n /\ \A i \in 1..n : z[i] = NullPtr
  BY <1>1, <1>2 DEF Pointers
<1>4. PICK t : t = S \o z
  OBVIOUS
<1>5. Len(S) \in Nat
  BY LenProperties
<1>6. /\ t \in Seq(Pointers)
      /\ Len(t) = Len(S) + n
      /\ \A i \in 1..(Len(S) + n) : t[i] = IF i <= Len(S) THEN S[i] ELSE z[i - Len(S)]
  BY <1>3, <1>4, ConcatProperties
<1>7. slot + 1 \in 1..Len(t)
  BY <1>5, <1>6
<1>8. PICK g : g = [t EXCEPT ![slot + 1] = p]
  OBVIOUS
<1>9. /\ g \in Seq(Pointers)
      /\ Len(g) = Len(t)
      /\ \A j \in 1..Len(t) : g[j] = IF j = slot + 1 THEN p ELSE t[j]
  BY <1>6, <1>7, <1>8, ExceptSeq
<1>10. g = Grown(S, slot, n, p)
  BY <1>2, <1>4, <1>8 DEF Grown
<1>11. ASSUME NEW i \in 0..(Len(S) + n - 1)
       PROVE  g[i + 1] = IF i = slot THEN p ELSE IF i < Len(S) THEN S[i + 1] ELSE NullPtr
  <2>1. i + 1 \in 1..Len(t) /\ i \in Int
    BY <1>5, <1>6
  <2>2. i # slot => g[i + 1] = t[i + 1]
    BY <1>9, <2>1
  <2>3. i = slot => g[i + 1] = p
    BY <1>9, <2>1
  <2>4. i < Len(S) => t[i + 1] = S[i + 1]
    BY <1>5, <1>6, <2>1
  <2>5. ~(i < Len(S)) => t[i + 1] = NullPtr
    <3>1. SUFFICES ASSUME ~(i < Len(S))
                   PROVE  t[i + 1] = NullPtr
      OBVIOUS
    <3>2. t[i + 1] = z[i + 1 - Len(S)]
      BY <1>5, <1>6, <2>1, <3>1
    <3>3. i + 1 - Len(S) \in 1..n
      BY <1>5, <1>6, <2>1, <3>1
    <3> QED
      BY <1>3, <3>2, <3>3
  <2> QED
    BY <2>2, <2>3, <2>4, <2>5
<1> QED
  BY <1>6, <1>9, <1>10, <1>11 DEF Extends

\* While a message is open its only segment is a sequence of words.
LEMMA OpenSegment ==
    ASSUME IInv, builder.open
    PROVE  /\ Len(message) = 1 /\ message[1] \in Seq(Pointers)
           /\ Len(message[1]) \in Nat /\ Len(message[1]) <= Room
<1>1. message \in Seq(Seq(Pointers)) /\ Len(message) = 1 /\ Len(message[1]) <= Room
  BY DEF IInv, Types, Segments, Layout, OneSegment
<1>2. 1 \in 1..Len(message)
  BY <1>1
<1>3. message[1] \in Seq(Pointers)
  BY <1>1, <1>2, ElementOfSeq
<1> QED
  BY <1>1, <1>3, LenProperties

\* What is not yet read is in bounds.
LEMMA UnreadInBounds ==
    ASSUME IInv, builder.open, UNCHANGED <<reader, value, visited>>
    PROVE  ReadsInBounds'
<1>1. value' = NullValue /\ NullValue.kind = "NULL" /\ value'.kind = "NULL"
  BY DEF IInv, UnreadWhileOpen, NullValue
<1> HIDE DEF NullValue
<1> QED
  BY <1>1 DEF IInv, ReadsInBounds

LEMMA ExtentOfObject ==
    ASSUME NEW o \in Objects
    PROVE  /\ Extent(o) \in Nat
           /\ Shaped(o) => o.data <= Extent(o)
<1>1. o.size \in 0..6 /\ o.size # 7 /\ o.count \in Nat /\ o.data \in Nat /\ o.pointers \in Nat
      /\ o.kind \in {"STRUCT", "LIST"}
  BY DEF Objects
<1>2. ListWords(o.size, o.count) \in Nat
  BY <1>1, ListWordsNat
<1>3. CASE o.kind = "LIST"
  BY <1>1, <1>2, <1>3 DEF Extent, Shaped
<1>4. CASE o.kind = "STRUCT"
  BY <1>1, <1>4 DEF Extent, Shaped
<1> QED
  BY <1>1, <1>3, <1>4

\* The new object is a well-shaped one of n words at the end of the segment,
\* and its slots are those of its words that hold no data.
LEMMA AllocateKeeps ==
    ASSUME IInv, NEW slot \in builder.free, NEW n \in Nat, NEW o \in Objects,
           NEW slots, slots \subseteq (Top + o.data)..(Top + n - 1),
           Shaped(o), o.slot = slot, o.at = Top, Extent(o) = n,
           Allocate(slot, n, PointerTo(o), o, slots)
    PROVE  IInv'
<1> DEFINE S == message[1]
<1>0. builder.open /\ builder \in Builders
  BY DEF Allocate, IInv, Types
<1>1. Len(message) = 1 /\ S \in Seq(Pointers) /\ Len(S) \in Nat /\ Len(S) <= Room /\ Room \in Nat
  BY <1>0, OpenSegment, CapnpAssumption
<1>2. UNCHANGED <<reader, value, visited>> /\ ReadsInBounds'
  BY <1>0, UnreadInBounds DEF Allocate
<1>3. slot \in Nat /\ slot < Len(S)
  BY <1>0 DEF Builders, IInv, Layout, Unset
<1>4. PointerTo(o) \in Pointers
  <2>1. /\ o.slot \in Nat /\ o.at \in Nat /\ o.data \in Nat /\ o.pointers \in Nat
        /\ o.size \in 0..7 /\ o.count \in Nat
    BY DEF Objects
  <2>2. o.at - o.slot - 1 \in Int /\ -1 \in Int
    BY <2>1
  <2> QED
    BY <2>1, <2>2 DEF PointerTo, ListPtr, StructPtr, Pointers
<1>5. CASE n > Room - Len(S)
  <2>1. builder' = [builder EXCEPT !.error = "LIMIT"] /\ message' = message
    BY <1>5 DEF Allocate, Words
  <2>2. /\ builder' \in Builders /\ builder'.open = builder.open
        /\ builder'.objects = builder.objects /\ builder'.free = builder.free
    BY <1>0, <2>1 DEF Builders
  <2>3. Types' /\ UnreadWhileOpen'
    BY <1>2, <2>1, <2>2 DEF IInv, Types, UnreadWhileOpen
  <2>4. Layout'
    BY <2>1, <2>2, LayoutFrame DEF IInv
  <2> QED
    BY <1>2, <2>3, <2>4 DEF IInv
<1>6. CASE ~(n > Room - Len(S))
  <2>1. PICK T : T = Grown(S, slot, n, PointerTo(o))
    OBVIOUS
  <2>2. /\ message' = <<T>>
        /\ builder' = [builder EXCEPT !.objects = @ \cup {o},
                                      !.free = (@ \ {slot}) \cup slots]
    BY <1>6, <2>1 DEF Allocate, Words, Grown
  <2>3. /\ T \in Seq(Pointers) /\ Len(T) = Len(S) + n
        /\ \A i \in 0..(Len(S) + n - 1) :
             T[i + 1] = IF i = slot THEN PointerTo(o)
                        ELSE IF i < Len(S) THEN S[i + 1] ELSE NullPtr
    <3>1. PICK R : R = S
      OBVIOUS
    <3>2. PICK p : p = PointerTo(o)
      OBVIOUS
    <3>3. R \in Seq(Pointers) /\ p \in Pointers /\ slot \in Nat /\ slot < Len(R)
      BY <1>1, <1>3, <1>4, <3>1, <3>2
    <3>4. Extends(Grown(R, slot, n, p), R, slot, n, p)
      BY <3>3, GrownWords
    <3>5. Extends(T, S, slot, n, PointerTo(o))
      BY <2>1, <3>1, <3>2, <3>4
    <3> QED
      BY <3>5 DEF Extends
  <2>4. message'[1] = T /\ Len(message') = 1 /\ message' \in Segments
    BY <2>2, <2>3 DEF Segments
  <2>5. o.data \in Nat /\ o.at = Len(S) /\ o.data <= n
    BY <1>1, ExtentOfObject DEF Objects, Top, Words
  <2>6. slots \subseteq (Len(S) + o.data)..(Len(S) + n - 1)
    BY <2>5 DEF Top, Words
  <2> HIDE DEF S
  <2>7. slots \subseteq Nat
    BY <1>1, <2>5, <2>6
  <2>8. /\ builder'.open = builder.open
        /\ builder'.objects = builder.objects \cup {o}
        /\ builder'.free = (builder.free \ {slot}) \cup slots
    BY <1>0, <2>2 DEF Builders
  <2>9. builder' \in Builders
    <3>1. builder.objects \cup {o} \in SUBSET Objects
      BY <1>0 DEF Builders
    <3>2. (builder.free \ {slot}) \cup slots \in SUBSET Nat
      BY <1>0, <2>7 DEF Builders
    <3> QED
      BY <1>0, <2>2, <3>1, <3>2 DEF Builders
  <2>10. Types' /\ UnreadWhileOpen'
    BY <1>2, <2>4, <2>8, <2>9 DEF IInv, Types, UnreadWhileOpen
  <2>11. OneSegment'
    BY <1>1, <1>6, <2>3, <2>4 DEF OneSegment
  <2>12. ASSUME NEW q \in builder.objects
         PROVE  /\ q \in Objects /\ q.slot \in Nat /\ q.at \in Nat /\ q.data \in Nat
                /\ Extent(q) \in Nat /\ q.data <= Extent(q) /\ Shaped(q)
                /\ q.slot < Len(S) /\ S[q.slot + 1] = PointerTo(q)
                /\ q.at + Extent(q) <= Len(S) /\ q.slot # slot
                /\ NoData(q.slot) /\ q.slot \notin builder.free
    <3>1. q \in Objects
      BY <1>0 DEF Builders
    <3>2. Placed(q) /\ NoData(q.slot) /\ q.slot \notin builder.free
      BY DEF IInv, Layout
    <3> QED
      BY <3>1, <3>2, ExtentOfObject DEF Placed, Objects, S
  <2>13. ASSUME NEW k \in Nat, k < Len(S)
         PROVE  k \notin DataCells(o) /\ k \notin slots
    BY <1>1, <2>5, <2>6, <2>13 DEF DataCells
  <2>14. ASSUME NEW k \in Nat, k < Len(S), k # slot
         PROVE  T[k + 1] = S[k + 1]
    BY <1>1, <2>3, <2>14
  <2>15. ASSUME NEW q \in builder'.objects
         PROVE  Placed(q)' /\ NoData(q.slot)' /\ q.slot \notin builder'.free
    <3>1. CASE q \in builder.objects
      <4>1. q.slot < Len(T) /\ T[q.slot + 1] = PointerTo(q) /\ q.at + Extent(q) <= Len(T)
        BY <1>1, <2>3, <2>12, <2>14, <3>1
      <4>2. Placed(q)'
        BY <2>4, <2>12, <3>1, <4>1 DEF Placed, Shaped, PointerTo, Extent
      <4>3. NoData(q.slot)'
        BY <2>8, <2>12, <2>13, <3>1 DEF NoData, DataCells
      <4>4. q.slot \notin builder'.free
        BY <2>8, <2>12, <2>13, <3>1
      <4> QED
        BY <4>2, <4>3, <4>4
    <3>2. CASE q = o
      <4>1. slot < Len(T) /\ T[slot + 1] = PointerTo(o) /\ o.at + Extent(o) <= Len(T)
        BY <1>1, <1>3, <2>3, <2>5
      <4>2. Placed(o)'
        BY <2>4, <4>1 DEF Placed, Shaped, PointerTo
      <4>3. NoData(slot)
        BY DEF IInv, Layout
      <4>4. NoData(slot)'
        BY <1>3, <2>8, <2>13, <4>3 DEF NoData, DataCells
      <4>5. slot \notin builder'.free
        BY <1>3, <2>8, <2>13
      <4> QED
        BY <3>2, <4>2, <4>4, <4>5
    <3> QED
      BY <2>8, <3>1, <3>2
  <2>16. ASSUME NEW f \in builder'.free
         PROVE  Unset(f)' /\ NoData(f)'
    <3>1. CASE f \in builder.free /\ f # slot
      <4>1. f \in Nat /\ Unset(f) /\ NoData(f)
        BY <1>0, <3>1 DEF Builders, IInv, Layout
      <4>2. f < Len(S) /\ S[f + 1] = NullPtr
        BY <4>1 DEF Unset, S
      <4>3. f < Len(T) /\ T[f + 1] = NullPtr
        BY <1>1, <2>3, <2>14, <3>1, <4>1, <4>2
      <4>4. Unset(f)'
        BY <2>4, <4>3 DEF Unset
      <4>5. NoData(f)'
        BY <2>8, <2>13, <4>1, <4>2 DEF NoData, DataCells
      <4> QED
        BY <4>4, <4>5
    <3>2. CASE f \in slots
      <4>1. f \in Nat /\ Len(S) + o.data <= f /\ f <= Len(S) + n - 1
        BY <1>1, <2>5, <2>6, <3>2
      <4>2. f \in 0..(Len(S) + n - 1) /\ f # slot /\ ~(f < Len(S))
        BY <1>1, <1>3, <2>5, <4>1
      <4>3. f < Len(T) /\ T[f + 1] = NullPtr
        BY <1>1, <2>3, <4>1, <4>2
      <4>4. Unset(f)'
        BY <2>4, <4>3 DEF Unset
      <4>5. \A q \in builder.objects : f \notin DataCells(q)
        <5> SUFFICES ASSUME NEW q \in builder.objects
                     PROVE  f \notin q.at..(q.at + q.data - 1)
          BY DEF DataCells
        <5>1. /\ q.at \in Nat /\ q.data \in Nat /\ Extent(q) \in Nat
              /\ q.data <= Extent(q) /\ q.at + Extent(q) <= Len(S)
          BY <2>12
        <5>2. \A w, d, e, len, od \in Nat :
                d <= e /\ w + e <= len /\ len + od <= f => f \notin w..(w + d - 1)
          BY <4>1
        <5> QED
          BY <1>1, <2>5, <4>1, <5>1, <5>2
      <4>6. f \notin DataCells(o)
        BY <1>1, <2>5, <4>1 DEF DataCells
      <4>7. NoData(f)'
        BY <2>8, <4>5, <4>6 DEF NoData, DataCells
      <4> QED
        BY <4>4, <4>7
    <3> QED
      BY <2>8, <3>1, <3>2
  <2>17. ASSUME NEW a \in builder'.objects, NEW b \in builder'.objects, a # b
         PROVE  Apart(a, b)'
    <3>1. CASE a \in builder.objects /\ b \in builder.objects
      BY <2>17, <3>1 DEF IInv, Layout, Apart
    <3>2. CASE a \in builder.objects /\ b = o
      BY <2>5, <2>12, <3>2 DEF Apart
    <3>3. CASE b \in builder.objects /\ a = o
      <4>1. b.slot # slot /\ b.at + Extent(b) <= Len(S)
        BY <2>12, <3>3
      <4> QED
        BY <2>5, <3>3, <4>1 DEF Apart
    <3> QED
      BY <2>8, <2>17, <3>1, <3>2, <3>3
  <2>18. Layout'
    BY <2>11, <2>15, <2>16, <2>17 DEF Layout
  <2> QED
    BY <1>2, <2>10, <2>18 DEF IInv
<1> QED
  BY <1>5, <1>6

LEMMA StructKeeps ==
    ASSUME IInv, NEW slot \in builder.free, NEW data \in Nat, NEW pointers \in Nat,
           cf_cp_struct(slot, data, pointers)
    PROVE  IInv'
<1>1. PICK o : o = [slot |-> slot, kind |-> "STRUCT", at |-> Top, data |-> data,
                    pointers |-> pointers, size |-> 0, count |-> 0]
  OBVIOUS
<1>2. PICK slots : slots = {Top + data + i : i \in 0..(pointers - 1)}
  OBVIOUS
<1>3. builder.open /\ slot \in Nat
  BY DEF cf_cp_struct, Allocate, IInv, Types, Builders
<1>4. Top \in Nat
  BY <1>3, OpenSegment DEF Top, Words
<1>5. /\ o.slot = slot /\ o.kind = "STRUCT" /\ o.at = Top /\ o.data = data
      /\ o.pointers = pointers /\ o.size = 0 /\ o.count = 0
  BY <1>1
<1>6. o \in Objects
  BY <1>1, <1>3, <1>4 DEF Objects
<1>7. PointerTo(o) = StructPtr(StructOffset(slot, data, pointers), data, pointers)
  BY <1>5 DEF PointerTo, StructOffset
<1>8. Allocate(slot, data + pointers, PointerTo(o), o, slots)
  BY <1>1, <1>2, <1>7 DEF cf_cp_struct
<1>9. Shaped(o) /\ Extent(o) = data + pointers /\ data + pointers \in Nat
  BY <1>5 DEF Shaped, Extent
<1>10. slots \subseteq (Top + o.data)..(Top + (data + pointers) - 1)
  BY <1>2, <1>4, <1>5
<1> QED
  BY <1>5, <1>6, <1>8, <1>9, <1>10, AllocateKeeps

\* Lists of pointers and of bytes.
LEMMA ListKeeps ==
    ASSUME IInv, NEW slot \in builder.free, NEW size \in {2, 6}, NEW count \in Nat,
           NEW words \in Nat, words = ListWords(size, count),
           NEW slots, slots \subseteq Top..(Top + words - 1),
           List(slot, size, count, words, slots)
    PROVE  IInv'
<1>1. PICK o : o = [slot |-> slot, kind |-> "LIST", at |-> Top, data |-> 0,
                    pointers |-> 0, size |-> size, count |-> count]
  OBVIOUS
<1>2. builder.open /\ slot \in Nat
  BY DEF List, Allocate, IInv, Types, Builders
<1>3. Top \in Nat
  BY <1>2, OpenSegment DEF Top, Words
<1>4. /\ o.slot = slot /\ o.kind = "LIST" /\ o.at = Top /\ o.data = 0
      /\ o.pointers = 0 /\ o.size = size /\ o.count = count
  BY <1>1
<1>5. o \in Objects
  <2>1. size \in 0..6 /\ 0 \in Nat
    OBVIOUS
  <2> QED
    BY <1>1, <1>2, <1>3, <2>1 DEF Objects
<1>6. Allocate(slot, words, PointerTo(o), o, slots)
  BY <1>1, <1>4 DEF List, PointerTo
<1>7. Shaped(o) /\ Extent(o) = words
  BY <1>4 DEF Shaped, Extent
<1>8. slots \subseteq (Top + o.data)..(Top + words - 1)
  BY <1>3, <1>4
<1> QED
  BY <1>4, <1>5, <1>6, <1>7, <1>8, AllocateKeeps

\* A pointer takes a word, and eight bytes do.
LEMMA WordsOfLists ==
    ASSUME NEW n \in Nat
    PROVE  /\ ListWords(6, n) = n
           /\ ListWords(2, n) = (n + 7) \div 8
           /\ (n + 7) \div 8 \in Nat
<1>1. <<0, 1, 8, 16, 32, 64, 64>>[6 + 1] = 64 /\ <<0, 1, 8, 16, 32, 64, 64>>[2 + 1] = 8
  OBVIOUS
<1>2. (n * 64 + 63) \div 64 = n
  OBVIOUS
<1>3. (n * 8 + 63) \div 64 = (n + 7) \div 8
  OBVIOUS
<1>4. (n + 7) \div 8 \in Nat
  OBVIOUS
<1> QED
  BY <1>1, <1>2, <1>3, <1>4 DEF ListWords

\* A number is written where no pointer is.
LEMMA SetUintKeeps ==
    ASSUME IInv, NEW word \in Nat, cf_cp_set_uint(word)
    PROVE  IInv'
<1> DEFINE S == message[1]
<1>0. builder.open /\ builder \in Builders /\ builder' = builder
  BY DEF cf_cp_set_uint, IInv, Types
<1>1. Len(message) = 1 /\ S \in Seq(Pointers) /\ Len(S) \in Nat /\ Len(S) <= Room
  BY <1>0, OpenSegment
<1>2. UNCHANGED <<reader, value, visited>> /\ ReadsInBounds'
  BY <1>0, UnreadInBounds DEF cf_cp_set_uint
<1>3. PICK o \in builder.objects : word \in DataCells(o)
  BY DEF cf_cp_set_uint, DataCells
<1>4. word < Len(S)
  <2>1. o \in Objects /\ Placed(o)
    BY <1>0 DEF Builders, IInv, Layout
  <2>2. /\ o.at \in Nat /\ o.data \in Nat /\ Extent(o) \in Nat
        /\ o.data <= Extent(o) /\ o.at + Extent(o) <= Len(S)
    BY <2>1, ExtentOfObject DEF Objects, Placed
  <2> QED
    BY <1>1, <1>3, <2>2 DEF DataCells
<1>5. OtherPtr \in Pointers
  BY DEF OtherPtr, Pointers
<1>6. PICK T : T = [S EXCEPT ![word + 1] = OtherPtr]
  OBVIOUS
<1>7. /\ T \in Seq(Pointers) /\ Len(T) = Len(S)
      /\ \A j \in 1..Len(S) : T[j] = IF j = word + 1 THEN OtherPtr ELSE S[j]
  <2>1. PICK R : R = S
    OBVIOUS
  <2>2. R \in Seq(Pointers) /\ word + 1 \in 1..Len(R)
    BY <1>1, <1>4, <2>1
  <2>3. /\ [R EXCEPT ![word + 1] = OtherPtr] \in Seq(Pointers)
        /\ Len([R EXCEPT ![word + 1] = OtherPtr]) = Len(R)
        /\ \A j \in 1..Len(R) :
             [R EXCEPT ![word + 1] = OtherPtr][j] = IF j = word + 1 THEN OtherPtr ELSE R[j]
    BY <1>5, <2>2, ExceptSeq
  <2> QED
    BY <1>6, <2>1, <2>3
<1>8. message' = [message EXCEPT ![1] = T]
  BY <1>6 DEF cf_cp_set_uint
<1>9. message' \in Segments /\ Len(message') = 1 /\ message'[1] = T
  <2>1. 1 \in 1..Len(message) /\ message \in Seq(Seq(Pointers))
    BY <1>1 DEF IInv, Types, Segments
  <2>2. message' \in Seq(Seq(Pointers)) /\ Len(message') = Len(message)
    BY <1>7, <1>8, <2>1, ExceptSeq
  <2>3. message'[1] = T
    BY <1>8, <2>1, LenProperties
  <2> QED
    BY <1>1, <2>2, <2>3 DEF Segments
<1> HIDE DEF S
<1>10. Types' /\ UnreadWhileOpen'
  BY <1>0, <1>2, <1>9 DEF IInv, Types, UnreadWhileOpen
<1>11. ASSUME NEW k \in Nat, k < Len(S), NoData(k)
       PROVE  T[k + 1] = S[k + 1]
  <2>1. k # word
    BY <1>3, <1>11 DEF NoData
  <2>2. k + 1 \in 1..Len(S) /\ k + 1 # word + 1
    BY <1>1, <1>11, <2>1
  <2> QED
    BY <1>7, <2>2
<1>12. OneSegment'
  BY <1>1, <1>7, <1>9 DEF OneSegment
<1>13. ASSUME NEW q \in builder'.objects
       PROVE  Placed(q)' /\ NoData(q.slot)' /\ q.slot \notin builder'.free
  <2>1. /\ q \in Objects /\ q.slot \in Nat /\ Placed(q) /\ NoData(q.slot)
        /\ q.slot \notin builder.free
    BY <1>0 DEF Builders, Objects, IInv, Layout
  <2>2. q.slot < Len(T) /\ T[q.slot + 1] = PointerTo(q) /\ q.at + Extent(q) <= Len(T)
    BY <1>7, <1>11, <2>1 DEF Placed, S
  <2>3. Placed(q)'
    BY <1>9, <2>1, <2>2 DEF Placed, Shaped, PointerTo
  <2> QED
    BY <1>0, <2>1, <2>3 DEF NoData, DataCells
<1>14. ASSUME NEW f \in builder'.free
       PROVE  Unset(f)' /\ NoData(f)'
  <2>1. f \in Nat /\ Unset(f) /\ NoData(f)
    BY <1>0 DEF Builders, IInv, Layout
  <2>2. f < Len(T) /\ T[f + 1] = NullPtr
    BY <1>7, <1>11, <2>1 DEF Unset, S
  <2> QED
    BY <1>0, <1>9, <2>1, <2>2 DEF Unset, NoData, DataCells
<1>15. \A a, b \in builder'.objects : a # b => Apart(a, b)'
  BY <1>0 DEF IInv, Layout, Apart
<1>16. Layout'
  BY <1>12, <1>13, <1>14, <1>15 DEF Layout
<1> QED
  BY <1>2, <1>10, <1>16 DEF IInv

LEMMA BuildStep ==
    ASSUME IInv, Build
    PROVE  IInv'
<1>1. ASSUME NEW slot \in builder.free, NEW data \in Sizes, NEW pointers \in Sizes,
             cf_cp_struct(slot, data, pointers)
      PROVE  IInv'
  BY <1>1, StructKeeps, CapnpAssumption
<1>2. ASSUME NEW slot \in builder.free, NEW count \in Sizes, cf_cp_pointer_list(slot, count)
      PROVE  IInv'
  <2>1. count \in Nat /\ builder.open
    BY <1>2, CapnpAssumption DEF cf_cp_pointer_list, List, Allocate
  <2>2. Top \in Nat
    BY <2>1, OpenSegment DEF Top, Words
  <2>3. PICK slots : slots = {Top + i : i \in 0..(count - 1)}
    OBVIOUS
  <2>4. slots \subseteq Top..(Top + count - 1)
    BY <2>1, <2>2, <2>3
  <2>5. List(slot, 6, count, count, slots)
    BY <1>2, <2>3 DEF cf_cp_pointer_list
  <2>6. count = ListWords(6, count)
    BY <2>1, WordsOfLists
  <2> QED
    BY <2>1, <2>4, <2>5, <2>6, ListKeeps
<1>3. ASSUME NEW slot \in builder.free, NEW len \in Lengths, NEW text \in BOOLEAN,
             cf_cp_blob(slot, len, text)
      PROVE  IInv'
  <2>1. PICK n \in Nat : n = len + IF text THEN 1 ELSE 0
    BY CapnpAssumption
  <2>2. List(slot, 2, n, (n + 7) \div 8, {})
    BY <1>3, <2>1 DEF cf_cp_blob
  <2>3. (n + 7) \div 8 = ListWords(2, n) /\ (n + 7) \div 8 \in Nat
    BY WordsOfLists
  <2> QED
    BY <2>2, <2>3, ListKeeps
<1>4. ASSUME NEW word \in 0..(Room - 1), cf_cp_set_uint(word)
      PROVE  IInv'
  <2>1. word \in Nat
    BY CapnpAssumption
  <2> QED
    BY <1>4, <2>1, SetUintKeeps
<1>5. CASE cf_cp_build_end
  <2>1. /\ builder.open /\ builder \in Builders
        /\ builder' = [builder EXCEPT !.open = FALSE]
        /\ UNCHANGED <<message, reader, value, visited>>
    BY <1>5 DEF cf_cp_build_end, IInv, Types
  <2>2. /\ builder' \in Builders /\ ~builder'.open
        /\ builder'.objects = builder.objects /\ builder'.free = builder.free
    BY <2>1 DEF Builders
  <2>3. ReadsInBounds' /\ Layout'
    BY <2>1, <2>2, UnreadInBounds, LayoutFrame DEF IInv
  <2> QED
    BY <2>1, <2>2, <2>3 DEF IInv, Types, UnreadWhileOpen
<1> QED
  BY <1>1, <1>2, <1>3, <1>4, <1>5 DEF Build

-----------------------------------------------------------------------------
(* The theorems.                                                           *)

LEMMA InitIInv == CapnpInit => IInv
<1> SUFFICES ASSUME CapnpInit
             PROVE  IInv
  OBVIOUS
<1>1. NullValue \in Values /\ NullValue.kind = "NULL" /\ NullValue.depth = 0
  BY DEF NullValue, Values
<1>2. Fresh \in Readers /\ Fresh.budget = Budget /\ Budget \in Nat /\ DepthMax \in Nat
      /\ Room \in Nat \ {0}
  BY CapnpAssumption DEF Fresh, Readers, Codes
<1>3. reader = Fresh /\ value = NullValue /\ visited = 0
  BY DEF CapnpInit
<1>4. UnreadWhileOpen
  BY <1>3 DEF UnreadWhileOpen
<1>5. ReadsInBounds
  <2>1. value.kind = "NULL" /\ value.depth = 0
    BY <1>1, <1>3
  <2>2. reader.budget = Budget
    BY <1>2, <1>3
  <2> QED
    BY <1>2, <1>3, <2>1, <2>2 DEF ReadsInBounds
<1>6. CASE message \in Messages /\ builder = Closed
  <2>1. message \in Segments
    BY <1>6, CapnpAssumption DEF Segments
  <2>2. builder \in Builders /\ ~builder.open /\ builder.objects = {} /\ builder.free = {}
    BY <1>6 DEF Closed, Builders
  <2>3. Layout
    BY <2>2 DEF Layout, OneSegment
  <2> QED
    BY <1>1, <1>2, <1>3, <1>4, <1>5, <2>1, <2>2, <2>3 DEF IInv, Types
<1>7. CASE /\ message = <<<<NullPtr>>>>
           /\ builder = [Closed EXCEPT !.open = TRUE, !.free = {0}]
  <2>1. NullPtr \in Pointers
    BY DEF NullPtr, StructPtr, Pointers
  <2>2. PICK z : z = <<NullPtr>>
    OBVIOUS
  <2>3. z \in Seq(Pointers) /\ Len(z) = 1 /\ z[1] = NullPtr
    BY <2>1, <2>2
  <2>4. message \in Segments /\ Len(message) = 1 /\ message[1] = z
    <3>1. message = <<z>>
      BY <1>7, <2>2
    <3> QED
      BY <2>3, <3>1 DEF Segments
  <2>5. builder \in Builders /\ builder.objects = {} /\ builder.free = {0}
    <3>1. Closed \in Builders /\ Closed.objects = {}
      BY DEF Closed, Builders
    <3>2. TRUE \in BOOLEAN /\ {0} \in SUBSET Nat
      OBVIOUS
    <3> QED
      BY <1>7, <3>1, <3>2 DEF Builders
  <2>6. OneSegment
    <3>1. Len(message[1]) = 1 /\ 1 <= Room
      BY <1>2, <2>3, <2>4
    <3> QED
      BY <2>4, <3>1 DEF OneSegment
  <2>7. Unset(0) /\ NoData(0)
    BY <2>3, <2>4, <2>5 DEF Unset, NoData
  <2>8. Layout
    BY <2>5, <2>6, <2>7 DEF Layout
  <2> QED
    BY <1>1, <1>2, <1>3, <1>4, <1>5, <2>4, <2>5, <2>8 DEF IInv, Types
<1> QED
  BY <1>6, <1>7 DEF CapnpInit

LEMMA NextIInv == IInv /\ [Read \/ Build]_capnpVars => IInv'
<1> SUFFICES ASSUME IInv, [Read \/ Build]_capnpVars
             PROVE  IInv'
  OBVIOUS
<1>1. CASE Read
  BY <1>1, ReadStep
<1>2. CASE Build
  BY <1>2, BuildStep
<1>3. CASE UNCHANGED capnpVars
  <2>1. /\ message' = message /\ builder' = builder /\ reader' = reader
        /\ value' = value /\ visited' = visited
    BY <1>3 DEF capnpVars
  <2>2. Types' /\ UnreadWhileOpen'
    BY <2>1 DEF IInv, Types, UnreadWhileOpen
  <2>3. ReadsInBounds'
    BY <2>1 DEF IInv, ReadsInBounds
  <2>4. Layout'
    BY <2>1, LayoutFrame DEF IInv
  <2> QED
    BY <2>2, <2>3, <2>4 DEF IInv
<1> QED
  BY <1>1, <1>2, <1>3

\* The inductive invariant of the reader and the builder: whatever message the
\* peer sends, and whatever a caller asks for in whichever order.
THEOREM MessageInvariance == CapnpSpec => []IInv
<1>1. CapnpInit => IInv
  BY InitIInv
<1>2. IInv /\ [Read \/ Build]_capnpVars => IInv'
  BY NextIInv
<1> QED
  BY <1>1, <1>2, PTL DEF CapnpSpec

\* No message leads the reader (cf_capnp.c) out of its segments, past the depth
\* allowed, or through more words than it was charged for.
THEOREM ReadsSafe == CapnpSpec => []ReadsInBounds
<1>1. IInv => ReadsInBounds
  BY DEF IInv
<1> QED
  BY <1>1, MessageInvariance, PTL

-----------------------------------------------------------------------------
(* What was built reads back.                                              *)

\* The reader can pay for any object of the builder after its pointer.
LEMMA Affordable ==
    /\ charge(Fresh, 1) \in Readers
    /\ charge(Fresh, 1).budget = Budget - 1
    /\ Fresh.error = "OK" /\ ~(Fresh.budget < 1)
    /\ \A words \in 0..Room : ~(Cost(words) > Budget - 1)
<1>1. Budget \in Nat /\ Room \in Nat \ {0} /\ Room < Budget
  BY CapnpAssumption
<1>2. Fresh \in Readers /\ Fresh.budget = Budget /\ Fresh.error = "OK"
  BY <1>1 DEF Fresh, Readers, Codes
<1>3. Cost(1) = 1
  BY DEF Cost
<1>4. charge(Fresh, 1) \in Readers
  BY <1>1, <1>2, <1>3, Payment
<1>5. charge(Fresh, 1).budget = Budget - 1
  BY <1>2, <1>3 DEF charge, Readers
<1>6. \A words \in 0..Room : ~(Cost(words) > Budget - 1)
  BY <1>1 DEF Cost
<1> QED
  BY <1>1, <1>2, <1>4, <1>5, <1>6

\* What follow makes of the pointer of an object.
LEMMA ReadsBack ==
    ASSUME IInv, NEW o \in builder.objects
    PROVE  LET v == follow(message, Fresh, 0, o.slot, 1).value
           IN /\ v.kind = o.kind /\ v.data = o.data /\ v.pointers = o.pointers
              /\ v.size = o.size /\ v.count = o.count
              /\ Extent(o) > 0 => v.word = o.at
<1> DEFINE S == message[1]
           paid == charge(Fresh, 1)
           target == IF o.kind = "STRUCT" /\ o.data = 0 /\ o.pointers = 0 THEN o.slot ELSE o.at
           null == [NullValue EXCEPT !.seg = 0, !.word = target, !.depth = 1]
           v == IF o.kind = "LIST"
                THEN [null EXCEPT !.kind = "LIST", !.size = o.size, !.count = o.count]
                ELSE [null EXCEPT !.kind = "STRUCT", !.data = o.data, !.pointers = o.pointers]
<1>1. o \in Objects /\ Placed(o)
  BY DEF IInv, Types, Builders, Layout
<1>2. /\ o.slot \in Nat /\ o.at \in Nat /\ o.data \in Nat /\ o.pointers \in Nat
      /\ o.size \in 0..6 /\ o.count \in Nat /\ o.kind \in {"STRUCT", "LIST"}
      /\ Extent(o) \in Nat /\ Shaped(o)
  BY <1>1, ExtentOfObject DEF Objects, Placed
<1>3. /\ Len(message) = 1 /\ Len(S) <= Room /\ Len(S) \in Nat /\ Room \in Nat
      /\ DepthMax \in Nat \ {0}
  <2>1. Len(message) = 1 /\ Len(S) <= Room /\ message \in Seq(Seq(Pointers))
    BY DEF IInv, Layout, OneSegment, Types, Segments
  <2>2. 1 \in 1..Len(message)
    BY <2>1
  <2>3. S \in Seq(Pointers)
    BY <2>1, <2>2, ElementOfSeq
  <2> QED
    BY <2>1, <2>3, LenProperties, CapnpAssumption
<1>4. /\ o.slot < Len(S) /\ S[o.slot + 1] = PointerTo(o) /\ o.at + Extent(o) <= Len(S)
  BY <1>1 DEF Placed
<1>5. range(message, 0, o.slot, 1) /\ word_at(message, 0, o.slot) = PointerTo(o)
  BY <1>2, <1>3, <1>4 DEF range, word_at
<1> HIDE DEF S
<1>6. PICK p : p = PointerTo(o)
  OBVIOUS
<1>7. /\ p # NullPtr
      /\ p.kind = IF o.kind = "LIST" THEN "list" ELSE "struct"
      /\ o.kind = "LIST" => p.size = o.size /\ p.count = o.count
      /\ o.kind = "STRUCT" => p.data = o.data /\ p.pointers = o.pointers
      /\ Target(p, o.slot) = target
  <2>1. CASE o.kind = "LIST"
    <3>1. p = ListPtr(o.at - o.slot - 1, o.size, o.count)
      BY <1>6, <2>1 DEF PointerTo
    <3>2. p.kind = "list" /\ p.off = o.at - o.slot - 1 /\ p.size = o.size /\ p.count = o.count
      BY <3>1 DEF ListPtr
    <3>3. NullPtr.kind = "struct"
      BY DEF NullPtr, StructPtr
    <3>4. Target(p, o.slot) = o.at
      BY <1>2, <3>2 DEF Target
    <3> QED
      BY <2>1, <3>2, <3>3, <3>4
  <2>2. CASE o.kind = "STRUCT"
    <3>1. PICK off \in Int : off = IF o.data = 0 /\ o.pointers = 0 THEN -1 ELSE o.at - o.slot - 1
      BY <1>2
    <3>2. p = StructPtr(off, o.data, o.pointers)
      BY <1>6, <2>2, <3>1 DEF PointerTo
    <3>3. p.kind = "struct" /\ p.off = off /\ p.data = o.data /\ p.pointers = o.pointers
      BY <3>2 DEF StructPtr
    <3>4. NullPtr.off = 0 /\ NullPtr.data = 0 /\ NullPtr.pointers = 0
      BY DEF NullPtr, StructPtr
    <3>5. p # NullPtr
      <4>1. CASE o.data = 0 /\ o.pointers = 0
        BY <3>1, <3>3, <3>4, <4>1
      <4>2. CASE ~(o.data = 0 /\ o.pointers = 0)
        BY <3>3, <3>4, <4>2
      <4> QED
        BY <4>1, <4>2
    <3>6. Target(p, o.slot) = target
      BY <1>2, <2>2, <3>1, <3>3 DEF Target
    <3> QED
      BY <2>2, <3>3, <3>5, <3>6
  <2> QED
    BY <1>2, <2>1, <2>2
<1>8. follow(message, Fresh, 0, o.slot, 1) = Object(message, paid, p, 0, target, 1)
  <2>1. ~(1 > DepthMax)
    BY <1>3
  <2>2. p.kind # "far" /\ word_at(message, 0, o.slot) = p
    BY <1>2, <1>5, <1>6, <1>7
  <2> HIDE DEF target
  <2> QED
    BY <1>5, <1>7, <2>1, <2>2, Affordable DEF follow
<1>9. target \in Nat /\ ~(target < 0) /\ (Extent(o) > 0 => target = o.at)
  <2>1. o.kind = "STRUCT" /\ o.data = 0 /\ o.pointers = 0 => Extent(o) = 0
    BY DEF Extent
  <2> QED
    BY <1>2, <2>1
<1>10. range(message, 0, target, Extent(o))
  <2>1. CASE o.kind = "STRUCT" /\ o.data = 0 /\ o.pointers = 0
    <3>1. Extent(o) = 0 /\ target = o.slot
      BY <2>1 DEF Extent
    <3> HIDE DEF target
    <3> QED
      BY <1>2, <1>3, <1>4, <3>1 DEF range, S
  <2>2. CASE ~(o.kind = "STRUCT" /\ o.data = 0 /\ o.pointers = 0)
    <3>1. target = o.at
      BY <2>2
    <3> HIDE DEF target
    <3> QED
      BY <1>2, <1>3, <1>4, <3>1 DEF range, S
  <2> QED
    BY <2>1, <2>2
<1>11. Extent(o) \in 0..Room
  BY <1>2, <1>3, <1>4
<1>12. ~(Cost(Extent(o)) > paid.budget)
  BY <1>11, Affordable
<1> HIDE DEF target, paid
<1>13. /\ v.kind = o.kind /\ v.data = o.data /\ v.pointers = o.pointers
       /\ v.size = o.size /\ v.count = o.count /\ v.word = target /\ v.seg = 0
  <2>1. CASE o.kind = "LIST"
    BY <1>2, <2>1 DEF Shaped, NullValue
  <2>2. CASE o.kind = "STRUCT"
    BY <1>2, <2>2 DEF Shaped, NullValue
  <2> QED
    BY <1>2, <2>1, <2>2
<1>14. Enter(message, paid, v, Extent(o)) = Got(charge(paid, Extent(o)), v)
  <2> HIDE DEF v
  <2> QED
    BY <1>10, <1>12, <1>13 DEF Enter
<1>15. Object(message, paid, p, 0, target, 1) = Enter(message, paid, v, Extent(o))
  <2>1. CASE o.kind = "LIST"
    <3>1. p.kind = "list" /\ p.size # 7 /\ p.size = o.size /\ p.count = o.count
      BY <1>2, <1>7, <2>1
    <3>2. Extent(o) = ListWords(p.size, p.count)
      BY <2>1, <3>1 DEF Extent
    <3> QED
      BY <1>9, <2>1, <3>1, <3>2 DEF Object
  <2>2. CASE o.kind = "STRUCT"
    <3>1. p.kind = "struct" /\ p.data = o.data /\ p.pointers = o.pointers
      BY <1>7, <2>2
    <3>2. Extent(o) = p.data + p.pointers
      BY <2>2, <3>1 DEF Extent
    <3> QED
      BY <1>9, <2>2, <3>1, <3>2 DEF Object
  <2> QED
    BY <1>2, <2>1, <2>2
<1> HIDE DEF v
<1>16. follow(message, Fresh, 0, o.slot, 1).value = v
  BY <1>8, <1>14, <1>15 DEF Got
<1> QED
  BY <1>9, <1>13, <1>16

\* A pointer that was never set reads as nothing.
LEMMA UnsetReadsNull ==
    ASSUME IInv, NEW slot \in builder.free
    PROVE  follow(message, Fresh, 0, slot, 1) = Got(charge(Fresh, 1), NullValue)
<1>1. slot \in Nat /\ Unset(slot) /\ Len(message) = 1
  BY DEF IInv, Types, Builders, Layout, OneSegment
<1>2. Len(message[1]) \in Nat
  <2>1. message \in Seq(Seq(Pointers)) /\ 1 \in 1..Len(message)
    BY <1>1 DEF IInv, Types, Segments
  <2> QED
    BY <2>1, ElementOfSeq, LenProperties
<1>3. range(message, 0, slot, 1) /\ word_at(message, 0, slot) = NullPtr
  BY <1>1, <1>2 DEF Unset, range, word_at
<1>4. ~(1 > DepthMax)
  BY CapnpAssumption
<1> QED
  BY <1>3, <1>4, Affordable DEF follow

\* What the builder (cf_capnp.c) lays out is what a reader finds: each object
\* behind its pointer, with its sizes and apart from the others, for every
\* sequence of structures, lists, blobs and numbers that fits the buffer.
THEOREM BuiltReads == CapnpSpec => []BuiltReadsBack
<1>1. IInv => BuiltReadsBack
  <2> SUFFICES ASSUME IInv
               PROVE  BuiltReadsBack
    OBVIOUS
  <2>1. ASSUME NEW o \in builder.objects, NEW q \in builder.objects \ {o}
        PROVE  (o.at..(o.at + Extent(o) - 1)) \cap (q.at..(q.at + Extent(q) - 1)) = {}
    <3>1. o \in Objects /\ q \in Objects /\ Apart(o, q)
      BY DEF IInv, Types, Builders, Layout
    <3>2. o.at \in Nat /\ q.at \in Nat /\ Extent(o) \in Nat /\ Extent(q) \in Nat
      BY <3>1, ExtentOfObject DEF Objects
    <3> QED
      BY <3>1, <3>2 DEF Apart
  <2>2. ASSUME NEW o \in builder.objects
        PROVE  LET v == follow(message, Fresh, 0, o.slot, 1).value
               IN /\ [kind |-> v.kind, data |-> v.data, pointers |-> v.pointers,
                      size |-> v.size, count |-> v.count]
                       = [kind |-> o.kind, data |-> o.data, pointers |-> o.pointers,
                          size |-> o.size, count |-> o.count]
                  /\ Extent(o) > 0 => v.word = o.at
    BY ReadsBack
  <2> QED
    BY <2>1, <2>2, UnsetReadsNull DEF BuiltReadsBack
<1> QED
  BY <1>1, MessageInvariance, PTL

-----------------------------------------------------------------------------
(* Names in DNS packets.                                                   *)

Calls == [packet : Seq(0..255), start : Nat, at : Nat, out : Seq(Int), resume : Nat,
          hops : 0..HopMax, labels : 0..LabelsMax,
          rc : {"RUN", "OK", "TRUNCATED", "FORMAT", "LIMIT"}]

\* read_name stays within the packet and its limits, and writes no more than
\* its buffer holds, nothing but the characters of a name.
NameWithin ==
    /\ name.at <= Len(name.packet)
    /\ Len(name.out) <= NameMax
    /\ name.hops <= HopMax /\ name.labels <= LabelsMax
    /\ \A i \in 1..Len(name.out) : name_char(name.out[i]) \/ name.out[i] = Dot

\* NameWithin is not inductive: the name ends where the first pointer did.
NameInv == name \in Calls /\ NameWithin /\ name.resume <= Len(name.packet)

\* An iteration ends the call or uses up a pointer or a label.
NameAdvances ==
    /\ name.rc = "RUN"
    /\ name'.rc = "RUN" => name'.hops + name'.labels = name.hops + name.labels + 1

LEMMA InitName == NameInit => NameInv
<1> SUFFICES ASSUME NameInit
             PROVE  NameInv
  OBVIOUS
<1>0. PICK p \in Packets : \E s \in 0..Len(p) : name = Call(p, s)
  BY DEF NameInit
<1>1. PICK s \in 0..Len(p) : name = Call(p, s)
  BY <1>0
<1>2. p \in Seq(0..255) /\ Len(p) \in Nat /\ s \in Nat /\ s <= Len(p)
  BY DnsAssumption, LenProperties
<1>3. HopMax \in Nat /\ LabelsMax \in Nat /\ NameMax \in Nat
  BY DnsAssumption
<1>4. 0 \in 0..HopMax /\ 0 \in 0..LabelsMax /\ <<>> \in Seq(Int) /\ Len(<<>>) = 0
  BY <1>3
<1>5. /\ name.packet = p /\ name.at = s /\ name.out = <<>> /\ name.resume = 0
      /\ name.hops = 0 /\ name.labels = 0
  BY <1>1 DEF Call
<1>6. name \in Calls
  BY <1>1, <1>2, <1>4 DEF Call, Calls
<1> QED
  BY <1>2, <1>3, <1>4, <1>5, <1>6 DEF NameInv, NameWithin

\* The call ends with a result.
LEMMA ReturnKeeps ==
    ASSUME NameInv, NEW rc \in {"OK", "TRUNCATED", "FORMAT", "LIMIT"}, Return(rc)
    PROVE  NameInv' /\ name'.rc # "RUN"
<1>1. name' = [name EXCEPT !.rc = rc] /\ name \in Calls
  BY DEF Return, NameInv
<1>2. name' \in Calls /\ name'.rc = rc
  BY <1>1 DEF Calls
<1>3. /\ name'.packet = name.packet /\ name'.at = name.at /\ name'.out = name.out
      /\ name'.resume = name.resume /\ name'.hops = name.hops /\ name'.labels = name.labels
  BY <1>1 DEF Calls
<1> QED
  BY <1>2, <1>3 DEF NameInv, NameWithin

\* The octets of a packet, and the length of it.
LEMMA Octets ==
    ASSUME NameInv
    PROVE  /\ Len(name.packet) \in Nat
           /\ \A i \in 0..(Len(name.packet) - 1) : Octet(name.packet, i) \in 0..255
<1>1. name.packet \in Seq(0..255)
  BY DEF NameInv, Calls
<1>2. PICK p : p = name.packet
  OBVIOUS
<1>3. Len(p) \in Nat /\ \A i \in 1..Len(p) : p[i] \in 0..255
  BY <1>1, <1>2, LenProperties, ElementOfSeq
<1>4. \A i \in 0..(Len(p) - 1) : i + 1 \in 1..Len(p)
  BY <1>3
<1> QED
  BY <1>2, <1>3, <1>4 DEF Octet

LEMMA PointerStep ==
    ASSUME NameInv, Pointer
    PROVE  NameInv' /\ NameAdvances
<1> DEFINE target == (Head8 % 64) * 256 + Octet(name.packet, name.at + 1)
<1>1. name \in Calls /\ name.rc = "RUN" /\ name.at < Len(name.packet) /\ name.at \in Nat
  BY DEF NameInv, Calls, Pointer, Reading
<1>2. CASE name.at + 1 >= Len(name.packet)
  BY <1>1, <1>2, ReturnKeeps DEF Pointer, NameAdvances
<1>3. CASE /\ ~(name.at + 1 >= Len(name.packet))
           /\ name.hops + 1 > HopMax \/ target >= name.at
  <2>1. Return("FORMAT")
    BY <1>3 DEF Pointer
  <2> QED
    BY <1>1, <2>1, ReturnKeeps DEF NameAdvances
<1>4. CASE /\ ~(name.at + 1 >= Len(name.packet))
           /\ ~(name.hops + 1 > HopMax \/ target >= name.at)
  <2>1. Jump(target)
    BY <1>4 DEF Pointer
  <2>2. Len(name.packet) \in Nat
    BY Octets
  <2>3. target \in Nat
    <3>1. Head8 \in 0..255 /\ Octet(name.packet, name.at + 1) \in 0..255
      <4>1. name.at \in 0..(Len(name.packet) - 1) /\ name.at + 1 \in 0..(Len(name.packet) - 1)
        BY <1>1, <1>4, <2>2
      <4> QED
        BY <4>1, Octets DEF Head8
    <3> QED
      BY <3>1
  <2>4. target < name.at
    BY <1>1, <1>4, <2>3
  <2>5. PICK t \in Nat : t = target /\ t < name.at
    BY <2>3, <2>4
  <2>6. name.hops + 1 \in 0..HopMax
    BY <1>1, <1>4, DnsAssumption DEF Calls
  <2>7. PICK r \in Nat : r = (IF name.resume = 0 THEN name.at + 2 ELSE name.resume)
                         /\ r <= Len(name.packet)
    <3>1. name.resume \in Nat /\ name.resume <= Len(name.packet)
      BY DEF NameInv, Calls
    <3>2. name.at + 2 \in Nat /\ name.at + 2 <= Len(name.packet)
      BY <1>1, <1>4, <2>2
    <3> QED
      BY <3>1, <3>2
  <2>8. name' = [name EXCEPT !.hops = name.hops + 1, !.at = t, !.resume = r]
    BY <2>1, <2>5, <2>7 DEF Jump
  <2> HIDE DEF target
  <2>9. name' \in Calls
    BY <1>1, <2>6, <2>8 DEF Calls
  <2>10. /\ name'.packet = name.packet /\ name'.at = t /\ name'.out = name.out
         /\ name'.resume = r /\ name'.hops = name.hops + 1 /\ name'.labels = name.labels
         /\ name'.rc = name.rc
    BY <1>1, <2>8 DEF Calls
  <2>11. t <= Len(name.packet) /\ name.hops + 1 <= HopMax
    BY <1>1, <2>2, <2>5, <2>6, DnsAssumption
  <2>12. NameInv'
    BY <2>7, <2>9, <2>10, <2>11 DEF NameInv, NameWithin
  <2>13. name.hops \in Nat /\ name.labels \in Nat
    BY <1>1, DnsAssumption DEF Calls
  <2> QED
    BY <1>1, <2>10, <2>12, <2>13 DEF NameAdvances
<1> QED
  BY <1>2, <1>3, <1>4

LEMMA EndStep ==
    ASSUME NameInv, NameEnd
    PROVE  NameInv' /\ NameAdvances
<1>1. name \in Calls /\ name.rc = "RUN" /\ name.at < Len(name.packet)
      /\ name.at \in Nat /\ name.resume \in Nat /\ name.resume <= Len(name.packet)
  BY DEF NameInv, Calls, NameEnd, Reading
<1>2. PICK e \in Nat : e = (IF name.resume # 0 THEN name.resume ELSE name.at + 1)
                       /\ e <= Len(name.packet)
  <2>1. Len(name.packet) \in Nat
    BY Octets
  <2> QED
    BY <1>1, <2>1
<1>3. name' = [name EXCEPT !.rc = "OK", !.at = e]
  BY <1>2 DEF NameEnd
<1>4. name' \in Calls
  BY <1>1, <1>3 DEF Calls
<1>5. /\ name'.packet = name.packet /\ name'.at = e /\ name'.out = name.out
      /\ name'.resume = name.resume /\ name'.hops = name.hops /\ name'.labels = name.labels
      /\ name'.rc = "OK"
  BY <1>1, <1>3 DEF Calls
<1> QED
  BY <1>1, <1>2, <1>4, <1>5 DEF NameInv, NameWithin, NameAdvances

LEMMA LabelStep ==
    ASSUME NameInv, Label
    PROVE  NameInv' /\ NameAdvances
<1> DEFINE chars == [i \in 1..Head8 |-> lower(Octet(name.packet, name.at + i))]
           dot == IF name.out = <<>> THEN <<>> ELSE <<Dot>>
           full == \/ name.labels + 1 > LabelsMax
                   \/ Head8 > Len(name.packet) - (name.at + 1)
                   \/ Len(name.out) + Head8 + Len(dot) > NameMax
           strange == \E i \in 1..Head8 : ~name_char(chars[i])
<1>1. /\ name \in Calls /\ name.rc = "RUN" /\ name.at < Len(name.packet)
      /\ name.at \in Nat /\ name.out \in Seq(Int) /\ name.labels \in 0..LabelsMax
      /\ Head8 \in 1..63
  BY DEF NameInv, Calls, Label, Reading
<1>2. CASE full
  <2>1. Return("LIMIT")
    BY <1>2 DEF Label
  <2> QED
    BY <1>1, <2>1, ReturnKeeps DEF NameAdvances
<1>3. CASE ~full /\ strange
  <2>1. Return("FORMAT")
    BY <1>3 DEF Label
  <2> QED
    BY <1>1, <2>1, ReturnKeeps DEF NameAdvances
<1>4. CASE ~full /\ ~strange
  <2>1. name' = [name EXCEPT !.labels = @ + 1, !.at = @ + Head8 + 1,
                             !.out = @ \o dot \o chars]
    BY <1>4 DEF Label
  <2>2. PICK n \in 1..63 : n = Head8
    BY <1>1
  <2>3. Len(name.packet) \in Nat /\ LabelsMax \in Nat /\ NameMax \in Nat
    BY Octets, DnsAssumption
  <2>f. /\ ~(name.labels + 1 > LabelsMax)
        /\ ~(n > Len(name.packet) - (name.at + 1))
        /\ ~(Len(name.out) + n + Len(dot) > NameMax)
    BY <1>4, <2>2
  <2>4. name.labels + 1 \in 0..LabelsMax /\ name.at + n + 1 <= Len(name.packet)
    BY <1>1, <2>3, <2>f
  <2>5. PICK c : c = chars
    OBVIOUS
  <2>6. c \in Seq(Int) /\ Len(c) = n /\ \A i \in 1..n : name_char(c[i])
    <3>1. \A i \in 1..n : lower(Octet(name.packet, name.at + i)) \in Int
      <4>1. \A i \in 1..n : name.at + i \in 0..(Len(name.packet) - 1)
        BY <1>1, <2>3, <2>4
      <4>2. \A i \in 1..n : Octet(name.packet, name.at + i) \in Int
        <5> SUFFICES ASSUME NEW i \in 1..n
                     PROVE  Octet(name.packet, name.at + i) \in Int
          OBVIOUS
        <5>1. PICK k \in 0..(Len(name.packet) - 1) : k = name.at + i
          BY <4>1
        <5>2. Octet(name.packet, k) \in 0..255
          BY Octets
        <5>3. PICK x \in 0..255 : x = Octet(name.packet, k)
          BY <5>2
        <5>4. x = Octet(name.packet, name.at + i) /\ x \in Int
          BY <5>1, <5>3
        <5> QED
          BY <5>4
      <4> QED
        BY <4>2 DEF lower
    <3>2. c = [i \in 1..n |-> lower(Octet(name.packet, name.at + i))]
      BY <2>2, <2>5
    <3>3. c \in Seq(Int) /\ Len(c) = n
      BY <3>1, <3>2
    <3>4. \A i \in 1..n : name_char(c[i])
      BY <1>4, <2>2, <2>5
    <3> QED
      BY <3>3, <3>4
  <2>7. PICK d : d = dot
    OBVIOUS
  <2>8. d \in Seq(Int) /\ Len(d) \in Nat /\ \A i \in 1..Len(d) : d[i] = Dot
    <3>1. Dot \in Int
      BY DEF Dot
    <3>2. d = <<>> \/ d = <<Dot>>
      BY <2>7
    <3>3. CASE d = <<>>
      BY <3>3
    <3>4. CASE d = <<Dot>>
      <4> HIDE DEF Dot
      <4> QED
        BY <3>1, <3>4
    <3> QED
      BY <3>2, <3>3, <3>4
  <2>9. PICK o : o = name.out \o d \o c
    OBVIOUS
  <2>10. PICK b : b = name.out \o d
    OBVIOUS
  <2>11. /\ b \in Seq(Int) /\ Len(b) = Len(name.out) + Len(d)
         /\ \A i \in 1..(Len(name.out) + Len(d)) :
              b[i] = IF i <= Len(name.out) THEN name.out[i] ELSE d[i - Len(name.out)]
    BY <1>1, <2>8, <2>10, ConcatProperties
  <2>12. /\ o \in Seq(Int) /\ Len(o) = Len(b) + n
         /\ \A i \in 1..(Len(b) + n) : o[i] = IF i <= Len(b) THEN b[i] ELSE c[i - Len(b)]
    <3>1. b \in Seq(Int) /\ c \in Seq(Int) /\ o = b \o c /\ Len(c) = n
      BY <2>6, <2>9, <2>10, <2>11
    <3>2. /\ b \o c \in Seq(Int) /\ Len(b \o c) = Len(b) + Len(c)
          /\ \A i \in 1..(Len(b) + Len(c)) :
               (b \o c)[i] = IF i <= Len(b) THEN b[i] ELSE c[i - Len(b)]
      BY <3>1, ConcatProperties
    <3> QED
      BY <3>1, <3>2
  <2>13. Len(name.out) \in Nat /\ Len(b) \in Nat
    BY <1>1, <2>8, <2>11, LenProperties
  <2>14. Len(o) <= NameMax
    <3>1. Len(name.out) + n + Len(d) <= NameMax
      <4>1. ~(Len(name.out) + n + Len(d) > NameMax)
        BY <2>7, <2>f
      <4> QED
        BY <2>3, <2>8, <2>13, <4>1
    <3> QED
      BY <2>3, <2>8, <2>11, <2>12, <2>13, <3>1
  <2>15. ASSUME NEW i \in 1..Len(o)
         PROVE  name_char(o[i]) \/ o[i] = Dot
    <3>1. CASE i <= Len(name.out)
      <4>1. o[i] = name.out[i] /\ i \in 1..Len(name.out)
        BY <2>8, <2>11, <2>12, <2>13, <3>1
      <4> QED
        BY <4>1 DEF NameInv, NameWithin
    <3>2. CASE ~(i <= Len(name.out)) /\ i <= Len(b)
      <4>1. o[i] = d[i - Len(name.out)] /\ i - Len(name.out) \in 1..Len(d)
        BY <2>8, <2>11, <2>12, <2>13, <3>2
      <4> QED
        BY <2>8, <4>1
    <3>3. CASE ~(i <= Len(b))
      <4>1. o[i] = c[i - Len(b)] /\ i - Len(b) \in 1..n
        BY <2>12, <2>13, <3>3
      <4> QED
        BY <2>6, <4>1
    <3> QED
      BY <3>1, <3>2, <3>3
  <2> HIDE DEF chars, dot, full, strange
  <2>16. name' = [name EXCEPT !.labels = name.labels + 1, !.at = name.at + n + 1, !.out = o]
    BY <2>1, <2>2, <2>5, <2>7, <2>9
  <2>17. name' \in Calls
    <3>1. name.at + n + 1 \in Nat
      BY <1>1
    <3> QED
      BY <1>1, <2>4, <2>12, <2>16, <3>1 DEF Calls
  <2>18. /\ name'.packet = name.packet /\ name'.at = name.at + n + 1 /\ name'.out = o
         /\ name'.resume = name.resume /\ name'.hops = name.hops
         /\ name'.labels = name.labels + 1 /\ name'.rc = name.rc
    BY <1>1, <2>16 DEF Calls
  <2>19. name.labels + 1 <= LabelsMax
    BY <2>3, <2>4
  <2>20. NameInv'
    BY <2>4, <2>14, <2>15, <2>17, <2>18, <2>19 DEF NameInv, NameWithin
  <2>21. name.hops \in Nat /\ name.labels \in Nat
    BY <1>1, DnsAssumption DEF Calls
  <2> QED
    BY <1>1, <2>18, <2>20, <2>21 DEF NameAdvances
<1> QED
  BY <1>2, <1>3, <1>4

LEMMA NameStep ==
    ASSUME NameInv, read_name
    PROVE  NameInv' /\ NameAdvances
<1>1. CASE PastEnd
  BY <1>1, ReturnKeeps DEF PastEnd, NameAdvances
<1>2. CASE Reserved
  BY <1>2, ReturnKeeps DEF Reserved, Reading, NameAdvances
<1> QED
  BY <1>1, <1>2, PointerStep, EndStep, LabelStep DEF read_name

\* Whatever a packet says, read_name (cf_dns.c) stays in it and in the buffer of
\* the caller, and writes only the characters of a name.
THEOREM NamesBounded == NameSpec => []NameWithin
<1>1. NameInit => NameInv
  BY InitName
<1>2. NameInv /\ [read_name]_name => NameInv'
  BY NameStep DEF NameInv, NameWithin
<1>3. NameInv => NameWithin
  BY DEF NameInv
<1> QED
  BY <1>1, <1>2, <1>3, PTL DEF NameSpec

\* read_name ends: no packet, whichever loops its pointers form, keeps it going
\* for more iterations than there are pointers and labels to use up.
THEOREM NamesEnd == NameSpec => [][NameAdvances]_name
<1>1. NameInit => NameInv
  BY InitName
<1>2. NameInv /\ [read_name]_name => NameInv'
  BY NameStep DEF NameInv, NameWithin
<1>3. NameInv /\ [read_name]_name => [NameAdvances]_name
  BY NameStep
<1> QED
  BY <1>1, <1>2, <1>3, PTL DEF NameSpec

-----------------------------------------------------------------------------
(* cf_dns_parse: what an answer is made of.                                *)

\* The loop over the records of a reply goes round by round.
TakeRounds(f, records, question) ==
    /\ f[0] = Nothing("OK")
    /\ \A i \in 1..Len(records) : f[i] = Take(f[i - 1], records[i], question)

LEMMA TakeLoop ==
    ASSUME NEW records, Len(records) \in Nat, NEW question
    PROVE  \E f : /\ TakeRounds(f, records, question)
                 /\ TakeAll(records, question) = f[Len(records)]
<1> DEFINE N == Len(records)
           C == {"OK", "LIMIT"} \cup {records[i].rc : i \in 1..N}
                  \cup {Verdict(records[i]) : i \in 1..N}
           D == {records[i].data : i \in 1..N}
           S == [rc : C, records : Seq(D)]
           Is(g) == g = [i \in 0..N |-> IF i = 0 THEN Nothing("OK")
                                        ELSE Take(g[i - 1], records[i], question)]
<1>1. \A rc \in C : Nothing(rc) \in S
  <2> HIDE DEF C, D
  <2>1. <<>> \in Seq(D)
    OBVIOUS
  <2> QED  BY <2>1 DEF Nothing
<1>2. \A i \in 1..N, s \in S : Take(s, records[i], question) \in S
  <2> TAKE i \in 1..N, s \in S
  <2>1. {"LIMIT", records[i].rc, Verdict(records[i])} \subseteq C /\ records[i].data \in D
    OBVIOUS
  <2> HIDE DEF C, D
  <2>2. [rc |-> "OK", records |-> Append(s.records, records[i].data)] \in S
    <3>1. "OK" \in C
      BY DEF C
    <3> QED  BY <2>1, <3>1
  <2> HIDE DEF S
  <2> QED  BY <1>1, <2>1, <2>2 DEF Take
<1>3. \E g \in [0..N -> S] : Is(g)
  <2> DEFINE G == [i \in 1..N |-> [s \in S |-> Take(s, records[i], question)]]
  <2>1. G \in [1..N -> [S -> S]]
    <3> HIDE DEF S
    <3>1. \A i \in 1..N : [s \in S |-> Take(s, records[i], question)] \in [S -> S]
      BY <1>2
    <3> QED  BY <3>1
  <2>2. PICK g \in [0..N -> S] : Rounds(g, N, Nothing("OK"), G)
    <3>1. Nothing("OK") \in S
      BY <1>1
    <3> HIDE DEF G, S, N
    <3> QED  BY <3>1, <2>1, LoopExists DEF N
  <2>3. \A i \in 0..N : g[i] = IF i = 0 THEN Nothing("OK")
                               ELSE Take(g[i - 1], records[i], question)
    <3> TAKE i \in 0..N
    <3>1. i # 0 => i \in 1..N /\ i - 1 \in 0..N
      OBVIOUS
    <3> HIDE DEF S
    <3> QED  BY <3>1, <2>2 DEF Rounds
  <2>4. Is(g)
    <3> HIDE DEF S
    <3> QED  BY <2>3
  <2> QED  BY <2>4
<1>4. PICK f : f = CHOOSE g : Is(g)
  OBVIOUS
<1>5. Is(f)
  <2> HIDE DEF Is
  <2> QED  BY <1>3, <1>4
<1>6. TakeAll(records, question) = f[N]
  BY <1>4 DEF TakeAll
<1>7. f[0] = Nothing("OK") /\ \A i \in 1..N : f[i] = Take(f[i - 1], records[i], question)
  BY <1>5
<1> QED  BY <1>6, <1>7 DEF TakeRounds

\* The records of a genuine reply: those of the zone in some order, perhaps after
\* one of the others.
Replies(question, s) == [i \in DOMAIN s |-> Answer(question, s[i])]
Asked(question) == /\ question.type \in {"SRV", "A"}
                   /\ question.name # "somebody"

LEMMA AnswerTaken ==
    ASSUME NEW question, NEW d, NEW out, out.rc = "OK"
    PROVE  Take(out, Answer(question, d), question)
             \in {Nothing("LIMIT"), [rc |-> "OK", records |-> Append(out.records, d)]}
<1>1. PICK r : r = Answer(question, d)
  OBVIOUS
<1>2. r.rc = "OK" /\ Answers(r, question) /\ Verdict(r) = "OK" /\ r.data = d
  BY <1>1 DEF Answer, Answers, Verdict
<1> QED  BY <1>1, <1>2 DEF Take

LEMMA OtherNotTaken ==
    ASSUME NEW question, Asked(question), NEW o \in Others(question), NEW out,
           out.rc = "OK", Take(out, o, question).rc = "OK"
    PROVE  Take(out, o, question) = out
<1> DEFINE r == Answer(question, Rogue(question))
<1>1. /\ r.rc = "OK" /\ r.fault = "none" /\ r.section = "answer" /\ r.class = 1
      /\ r.owner = question.name /\ r.type = question.type
  BY DEF Answer
<1>2. \/ o.section = "other" \/ o.owner = "somebody" \/ o.type = "other" \/ o.class = 3
      \/ o.rc \in {"FORMAT", "TRUNCATED", "LIMIT"}
      \/ o.fault \in {"length", "multicast", "name", "tail", "port", "domain"}
  BY DEF Others, Answer
<1>3. \A rc : Nothing(rc).rc = rc
  BY DEF Nothing
<1>4. CASE o.fault \in {"length", "multicast", "name", "tail", "port", "domain"}
  <2>1. Verdict(o) # "OK"
    BY <1>4 DEF Verdict
  <2> QED  BY <2>1, <1>3 DEF Take
<1>5. CASE o.rc \in {"FORMAT", "TRUNCATED", "LIMIT"}
  BY <1>3, <1>5 DEF Take
<1>6. CASE o.section = "other" \/ o.owner = "somebody" \/ o.type = "other" \/ o.class = 3
  <2>1. ~Answers(o, question)
    BY <1>6 DEF Answers, Asked
  <2> QED  BY <2>1, <1>3 DEF Take
<1> QED  BY <1>2, <1>4, <1>5, <1>6

\* A beginning of a sequence grows by the next element.
LEMMA Prefix ==
    ASSUME NEW S, NEW s \in Seq(S), NEW i \in 1..Len(s)
    PROVE  Append(SubSeq(s, 1, i - 1), s[i]) = SubSeq(s, 1, i)
<1>1. SubSeq(s, 1, i) = SubSeq(s, 1, i - 1) \o <<s[i]>>
  BY SubSeqRecursiveSecond
<1>2. SubSeq(s, 1, i - 1) \in Seq(S) /\ s[i] \in S
  OBVIOUS
<1> QED  BY <1>1, <1>2, AppendIsConcat

Listing(records, question, s, h) ==
    /\ Len(records) = Len(s) + h
    /\ \A i \in 1..Len(s) : records[i + h] = Answer(question, s[i])
    /\ h = 1 => records[1] \in Others(question)

\* A reply that is accepted yields its answers, all of them and in their order.
LEMMA TakesAnswers ==
    ASSUME NEW question, Asked(question), NEW S, NEW s \in Seq(S), NEW h \in {0, 1},
           NEW records, Listing(records, question, s, h),
           TakeAll(records, question).rc = "OK"
    PROVE  TakeAll(records, question).records = s
<1>1. PICK N \in Nat : N = Len(records)
  BY DEF Listing
<1>2. PICK f : TakeRounds(f, records, question) /\ TakeAll(records, question) = f[N]
  BY <1>1, TakeLoop
<1> DEFINE Done(i) == [rc |-> "OK", records |-> SubSeq(s, 1, i - h)]
           P == {i \in 0..N : f[i].rc # "OK" \/ f[i] = Done(i)}
<1>3. 0 \in P
  <2>1. SubSeq(s, 1, 0 - h) = <<>>
    BY SubSeqEmpty
  <2>2. f[0] = [rc |-> "OK", records |-> <<>>]
    BY <1>2 DEF TakeRounds, Nothing
  <2> QED  BY <2>1, <2>2
<1>4. \A i \in 1..N : i - 1 \in P => i \in P
  <2> TAKE i \in 1..N
  <2> HAVE i - 1 \in P
  <2>1. f[i - 1].rc # "OK" \/ f[i - 1] = Done(i - 1)
    OBVIOUS
  <2> SUFFICES f[i].rc # "OK" \/ f[i] = Done(i)
    OBVIOUS
  <2> HIDE DEF P
  <2>2. f[i] = Take(f[i - 1], records[i], question)
    BY <1>1, <1>2 DEF TakeRounds
  <2>3. CASE f[i - 1].rc # "OK"
    BY <2>2, <2>3 DEF Take
  <2>4. CASE f[i - 1].rc = "OK" /\ i = h
    <3>1. h = 1 /\ records[i] \in Others(question)
      BY <2>4 DEF Listing
    <3>2. f[i].rc = "OK" => f[i] = f[i - 1]
      BY <2>2, <2>4, <3>1, OtherNotTaken
    <3>3. SubSeq(s, 1, i - h) = <<>> /\ SubSeq(s, 1, (i - 1) - h) = <<>>
      BY <2>4, <3>1, SubSeqEmpty
    <3>4. Done(i) = Done(i - 1)
      BY <3>3
    <3> HIDE DEF Done
    <3> QED  BY <2>1, <2>4, <3>2, <3>4
  <2>5. CASE f[i - 1].rc = "OK" /\ i # h
    <3>1. PICK k \in 1..Len(s) : k = i - h
      BY <1>1, <2>5 DEF Listing
    <3>2. i = k + h /\ (i - 1) - h = k - 1
      BY <3>1
    <3>3. records[i] = Answer(question, s[k])
      BY <3>2 DEF Listing
    <3>4. f[i - 1] = [rc |-> "OK", records |-> SubSeq(s, 1, k - 1)]
      BY <2>1, <2>5, <3>2
    <3>5. f[i] \in {Nothing("LIMIT"), [rc |-> "OK", records |-> Append(SubSeq(s, 1, k - 1), s[k])]}
      <4>1. f[i - 1].records = SubSeq(s, 1, k - 1)
        BY <3>4
      <4>2. Take(f[i - 1], Answer(question, s[k]), question)
              \in {Nothing("LIMIT"), [rc |-> "OK", records |-> Append(f[i - 1].records, s[k])]}
        BY <2>5, AnswerTaken
      <4> QED  BY <2>2, <3>3, <4>1, <4>2
    <3>6. Append(SubSeq(s, 1, k - 1), s[k]) = SubSeq(s, 1, k)
      BY Prefix
    <3>7. Done(i) = [rc |-> "OK", records |-> SubSeq(s, 1, k)]
      BY <3>1
    <3>8. Nothing("LIMIT").rc # "OK"
      BY DEF Nothing
    <3> HIDE DEF Done
    <3> QED  BY <3>5, <3>6, <3>7, <3>8
  <2> QED  BY <2>3, <2>4, <2>5
<1>5. N \in P
  <2> HIDE DEF P
  <2>1. 0..N \subseteq P
    BY <1>3, <1>4, LoopInduct
  <2> QED  BY <2>1
<1>6. SubSeq(s, 1, N - h) = s
  BY <1>1, SubSeqFull DEF Listing
<1> QED  BY <1>2, <1>5, <1>6

\* Whatever an accepted reply of the resolver held, the answer is its data in
\* some order, each once.
LEMMA Accepted ==
    ASSUME NEW question, Asked(question), NEW data, IsFiniteSet(data),
           NEW reply \in Resolver(question, data),
           cf_dns_parse(reply, question).rc = "OK"
    PROVE  /\ cf_dns_parse(reply, question).records \in SetToSeqs(data)
           /\ cf_dns_parse(reply, question).records # <<>>
<1> DEFINE all == TakeAll(reply.records, question)
<1>1. /\ reply.header = "OK" /\ all.rc = "OK" /\ all.records # <<>>
      /\ cf_dns_parse(reply, question) = all
  BY DEF cf_dns_parse, Nothing
<1>2. PICK n \in Nat : n = Cardinality(data)
  BY FS_CardinalityType
<1>3. \A s \in SetToSeqs(data) : s \in [1..n -> data] /\ s \in Seq(data) /\ Len(s) = n
  BY <1>2 DEF SetToSeqs
<1>4. CASE reply.records = <<>>
  <2>1. Listing(reply.records, question, <<>>, 0) /\ <<>> \in Seq(data)
    BY <1>4 DEF Listing
  <2> QED  BY <2>1, <1>1, TakesAnswers
<1>5. CASE \E s \in SetToSeqs(data) : reply.records = Replies(question, s)
  <2>1. PICK s \in SetToSeqs(data) : reply.records = Replies(question, s)
    BY <1>5
  <2>2. Listing(reply.records, question, s, 0)
    BY <2>1, <1>3 DEF Listing, Replies
  <2>3. all.records = s
    BY <1>1, <1>3, <2>2, TakesAnswers
  <2> QED  BY <1>1, <2>1, <2>3
<1>6. CASE \E s \in SetToSeqs(data), o \in Others(question) :
             reply.records = <<o>> \o Replies(question, s)
  <2>1. PICK s \in SetToSeqs(data), o \in Others(question) :
               reply.records = <<o>> \o Replies(question, s)
    BY <1>6
  <2>2. Listing(reply.records, question, s, 1)
    <3>1. Replies(question, s) = [i \in 1..n |-> Answer(question, s[i])]
      BY <1>3 DEF Replies
    <3> DEFINE R == {Answer(question, s[i]) : i \in 1..n} \cup {o}
               a == Replies(question, s)
    <3>2. a \in Seq(R) /\ <<o>> \in Seq(R) /\ Len(a) = n /\ Len(<<o>>) = 1
          /\ \A i \in 1..n : a[i] = Answer(question, s[i])
      BY <3>1
    <3> HIDE DEF a, R
    <3>3. Len(<<o>> \o a) = n + 1
      BY <3>2, ConcatProperties
    <3>4. \A i \in 1..(n + 1) : (<<o>> \o a)[i] = IF i <= 1 THEN <<o>>[i] ELSE a[i - 1]
      BY <3>2, ConcatProperties
    <3>5. (<<o>> \o a)[1] = o
      BY <3>4
    <3>6. \A i \in 1..n : (<<o>> \o a)[i + 1] = Answer(question, s[i])
      <4> TAKE i \in 1..n
      <4>1. i + 1 \in 1..(n + 1) /\ ~(i + 1 <= 1) /\ (i + 1) - 1 = i
        OBVIOUS
      <4> QED  BY <3>2, <3>4, <4>1
    <3> QED  BY <2>1, <3>3, <3>5, <3>6, <1>3 DEF Listing, a
  <2>3. all.records = s
    BY <1>1, <1>3, <2>2, TakesAnswers
  <2> QED  BY <1>1, <2>1, <2>3
<1>7. \/ reply.records = <<>>
      \/ \E s \in SetToSeqs(data) : reply.records = Replies(question, s)
      \/ \E s \in SetToSeqs(data), o \in Others(question) :
             reply.records = <<o>> \o Replies(question, s)
  <2> DEFINE answers == {[i \in DOMAIN s |-> Answer(question, s[i])] : s \in SetToSeqs(data)}
             others  == UNION {{<<o>> \o a : a \in answers} : o \in Others(question)}
  <2>1. reply.records \in answers \cup others \cup {<<>>}
    <3> DEFINE A == {Reply("OK", question, a, FALSE) : a \in answers \cup others}
               B == {Reply(rc, question, <<>>, FALSE) :
                       rc \in {"FORMAT", "TRUNCATED", "LIMIT", "STATE"}}
               C == {Reply("OK", AQuestion("another"), <<>>, FALSE),
                     Reply("OK", question, <<>>, TRUE), Reply("OK", question, <<>>, FALSE)}
    <3>1. Resolver(question, data) = (A \cup B) \cup C
      BY DEF Resolver
    <3> HIDE DEF answers, others
    <3>3. CASE reply \in A
      BY <3>3 DEF Reply
    <3>4. CASE reply \in B
      BY <3>4 DEF Reply
    <3>5. CASE reply \in C
      BY <3>5 DEF Reply
    <3> HIDE DEF A, B, C
    <3> QED  BY <3>1, <3>3, <3>4, <3>5
  <2>2. \A a \in answers : \E s \in SetToSeqs(data) : a = Replies(question, s)
    BY DEF Replies
  <2> HIDE DEF answers
  <2>3. CASE reply.records \in others
    <3>1. PICK o \in Others(question) : reply.records \in {<<o>> \o a : a \in answers}
      BY <2>3
    <3>2. PICK a \in answers : reply.records = <<o>> \o a
      BY <3>1
    <3> QED  BY <2>2, <3>2
  <2> HIDE DEF others
  <2> QED  BY <2>1, <2>2, <2>3
<1> QED  BY <1>4, <1>5, <1>6, <1>7

-----------------------------------------------------------------------------
(* The exchange sort.                                                      *)

\* The orders of a set of records, and the facts about them that proofs use.
LEMMA Orders ==
    ASSUME NEW data, IsFiniteSet(data), NEW n, n = Cardinality(data)
    PROVE  /\ n \in Nat
           /\ \A s \in SetToSeqs(data) :
                /\ s \in [1..n -> data] /\ s \in Seq(data) /\ Len(s) = n
                /\ \A i, j \in 1..n : i # j => s[i] # s[j]
           /\ \A s \in [1..n -> data] :
                (\A i, j \in 1..n : i # j => s[i] # s[j]) => s \in SetToSeqs(data)
<1>1. n \in Nat
  BY FS_CardinalityType
<1> QED  BY <1>1 DEF SetToSeqs

\* The first places up to i hold records that come before all later ones.
Ahead(s, i) == \A a \in 1..Len(s), b \in 1..Len(s) :
                 a <= i /\ a < b => s[a].priority <= s[b].priority

\* The record at i comes before those after it up to j.
Before(s, i, j) == \A b \in 1..Len(s) : i < b /\ b <= j => s[i].priority <= s[b].priority

\* Records whose priorities can be compared.
Prioritised(data) == IsFiniteSet(data) /\ \A r \in data : r.priority \in Nat

LEMMA ExchangeKeeps ==
    ASSUME NEW data, Prioritised(data), NEW n, n = Cardinality(data),
           NEW s \in SetToSeqs(data), NEW i \in 1..n, NEW j \in 1..n
    PROVE  /\ Exchange(s, i, j) \in SetToSeqs(data)
           /\ Ahead(s, i - 1) /\ Before(s, i, j - 1) =>
                Ahead(Exchange(s, i, j), i - 1) /\ Before(Exchange(s, i, j), i, j)
<1>1. /\ n \in Nat
      /\ s \in [1..n -> data] /\ s \in Seq(data) /\ Len(s) = n
      /\ \A a, b \in 1..n : a # b => s[a] # s[b]
  BY Orders DEF Prioritised
<1>2. \A a \in 1..n : s[a].priority \in Nat
  BY <1>1 DEF Prioritised
<1>3. CASE ~(i < j /\ s[j].priority < s[i].priority)
  <2>1. Exchange(s, i, j) = s
    BY <1>3 DEF Exchange
  <2>2. ASSUME Before(s, i, j - 1)
        PROVE  Before(s, i, j)
    <3> SUFFICES ASSUME NEW b \in 1..n, i < b, b <= j
                 PROVE  s[i].priority <= s[b].priority
      BY <1>1 DEF Before
    <3>1. CASE b = j
      BY <1>2, <1>3, <3>1
    <3>2. CASE b # j
      BY <1>1, <2>2, <3>2 DEF Before
    <3> QED  BY <3>1, <3>2
  <2> QED  BY <2>1, <2>2
<1>4. CASE i < j /\ s[j].priority < s[i].priority
  <2>1. PICK t : t = [s EXCEPT ![i] = s[j], ![j] = s[i]]
    OBVIOUS
  <2>2. Exchange(s, i, j) = t
    BY <1>4, <2>1 DEF Exchange
  <2>3. /\ t \in [1..n -> data] /\ Len(t) = n /\ t[i] = s[j] /\ t[j] = s[i]
        /\ \A a \in 1..n : a # i /\ a # j => t[a] = s[a]
    BY <1>1, <1>4, <2>1
  <2>4. \A a, b \in 1..n : a # b => t[a] # t[b]
    BY <1>1, <2>3
  <2>5. t \in SetToSeqs(data)
    BY <2>3, <2>4, Orders DEF Prioritised
  <2>6. ASSUME Ahead(s, i - 1)
        PROVE  Ahead(t, i - 1)
    <3> SUFFICES ASSUME NEW a \in 1..n, NEW b \in 1..n, a <= i - 1, a < b
                 PROVE  t[a].priority <= t[b].priority
      BY <2>3 DEF Ahead
    <3>1. t[a] = s[a]
      BY <1>4, <2>3
    <3>2. PICK c \in 1..n : t[b] = s[c] /\ a < c
      <4>1. CASE b = i
        BY <1>4, <2>3, <4>1
      <4>2. CASE b = j
        BY <1>4, <2>3, <4>2
      <4>3. CASE b # i /\ b # j
        BY <2>3, <4>3
      <4> QED  BY <4>1, <4>2, <4>3
    <3> QED  BY <1>1, <2>6, <3>1, <3>2 DEF Ahead
  <2>7. ASSUME Before(s, i, j - 1)
        PROVE  Before(t, i, j)
    <3> SUFFICES ASSUME NEW b \in 1..n, i < b, b <= j
                 PROVE  t[i].priority <= t[b].priority
      BY <2>3 DEF Before
    <3>1. CASE b = j
      BY <1>2, <1>4, <2>3, <3>1
    <3>2. CASE b # j
      <4>1. t[b] = s[b] /\ s[i].priority <= s[b].priority
        BY <1>1, <2>3, <2>7, <3>2 DEF Before
      <4> QED  BY <1>2, <1>4, <2>3, <4>1
    <3> QED  BY <3>1, <3>2
  <2> QED  BY <2>2, <2>5, <2>6, <2>7
<1> QED  BY <1>3, <1>4

\* One pass of the sort: place i gets a record that comes before the later ones.
LEMMA PassKeeps ==
    ASSUME NEW data, Prioritised(data), NEW n, n = Cardinality(data),
           NEW s \in SetToSeqs(data), NEW i \in 1..n
    PROVE  /\ Pass(s, i) \in SetToSeqs(data)
           /\ Ahead(s, i - 1) => Ahead(Pass(s, i), i)
<1> DEFINE S == SetToSeqs(data)
           Is(g) == g = [j \in 0..n |-> IF j = 0 THEN s ELSE Exchange(g[j - 1], i, j)]
<1>1. n \in Nat /\ Len(s) = n /\ \A t \in S : Len(t) = n
  BY Orders DEF Prioritised
<1>2. \A j \in 1..n, t \in S : Exchange(t, i, j) \in S
  BY ExchangeKeeps
<1> HIDE DEF S
<1>3. \E g \in [0..n -> S] : Is(g)
  <2> DEFINE G == [j \in 1..n |-> [t \in S |-> Exchange(t, i, j)]]
  <2>1. G \in [1..n -> [S -> S]]
    BY <1>2
  <2>2. PICK g \in [0..n -> S] : Rounds(g, n, s, G)
    <3> HIDE DEF G
    <3> QED  BY <1>1, <2>1, LoopExists DEF S
  <2>3. \A j \in 0..n : g[j] = IF j = 0 THEN s ELSE Exchange(g[j - 1], i, j)
    <3> TAKE j \in 0..n
    <3>1. j # 0 => j \in 1..n /\ j - 1 \in 0..n
      BY <1>1
    <3> QED  BY <3>1, <2>2 DEF Rounds
  <2>4. Is(g)
    BY <2>3
  <2> QED  BY <2>4
<1>4. PICK f : f = CHOOSE g : Is(g)
  OBVIOUS
<1>5. Is(f)
  <2> HIDE DEF Is
  <2> QED  BY <1>3, <1>4
<1>6. Pass(s, i) = f[n]
  BY <1>1, <1>4 DEF Pass
<1> DEFINE P == {j \in 0..n : /\ f[j] \in S
                              /\ Ahead(s, i - 1) => Ahead(f[j], i - 1) /\ Before(f[j], i, j)}
<1>7. 0 \in P
  <2>1. f[0] = s
    BY <1>1, <1>5
  <2>2. Before(s, i, 0)
    BY <1>1 DEF Before
  <2> QED  BY <1>1, <2>1, <2>2 DEF S
<1>8. \A j \in 1..n : j - 1 \in P => j \in P
  <2> TAKE j \in 1..n
  <2> HAVE j - 1 \in P
  <2>1. f[j] = Exchange(f[j - 1], i, j)
    BY <1>1, <1>5
  <2>2. f[j] \in S /\ (Ahead(f[j - 1], i - 1) /\ Before(f[j - 1], i, j - 1) =>
                         Ahead(f[j], i - 1) /\ Before(f[j], i, j))
    BY <2>1, ExchangeKeeps DEF S
  <2> QED  BY <2>2
<1>9. n \in P
  <2> HIDE DEF P
  <2>1. 0..n \subseteq P
    BY <1>1, <1>7, <1>8, LoopInduct
  <2> QED  BY <1>1, <2>1
<1>10. ASSUME Ahead(f[n], i - 1), Before(f[n], i, n)
       PROVE  Ahead(f[n], i)
  BY <1>1, <1>9, <1>10 DEF Ahead, Before
<1> QED  BY <1>6, <1>9, <1>10 DEF S

\* discover's sort orders the records of the reply by priority and loses none.
LEMMA SortedOrders ==
    ASSUME NEW data, Prioritised(data), NEW s \in SetToSeqs(data)
    PROVE  Sorted(s) \in SetToSeqs(data) /\ Ahead(Sorted(s), Cardinality(data))
<1>1. PICK n : n = Cardinality(data)
  OBVIOUS
<1> DEFINE S == SetToSeqs(data)
           Is(g) == g = [i \in 0..n |-> IF i = 0 THEN s ELSE Pass(g[i - 1], i)]
<1>2. n \in Nat /\ Len(s) = n
  BY <1>1, Orders DEF Prioritised
<1>3. \A i \in 1..n, t \in S : Pass(t, i) \in S
  BY <1>1, PassKeeps
<1> HIDE DEF S
<1>4. \E g \in [0..n -> S] : Is(g)
  <2> DEFINE G == [i \in 1..n |-> [t \in S |-> Pass(t, i)]]
  <2>1. G \in [1..n -> [S -> S]]
    BY <1>3
  <2>2. PICK g \in [0..n -> S] : Rounds(g, n, s, G)
    <3> HIDE DEF G
    <3> QED  BY <1>2, <2>1, LoopExists DEF S
  <2>3. \A i \in 0..n : g[i] = IF i = 0 THEN s ELSE Pass(g[i - 1], i)
    <3> TAKE i \in 0..n
    <3>1. i # 0 => i \in 1..n /\ i - 1 \in 0..n
      BY <1>2
    <3> QED  BY <3>1, <2>2 DEF Rounds
  <2>4. Is(g)
    BY <2>3
  <2> QED  BY <2>4
<1>5. PICK f : f = CHOOSE g : Is(g)
  OBVIOUS
<1>6. Is(f)
  <2> HIDE DEF Is
  <2> QED  BY <1>4, <1>5
<1>7. Sorted(s) = f[n]
  BY <1>2, <1>5 DEF Sorted
<1> DEFINE P == {i \in 0..n : f[i] \in S /\ Ahead(f[i], i)}
<1>8. 0 \in P
  <2>1. f[0] = s
    BY <1>2, <1>6
  <2>2. Ahead(s, 0)
    BY <1>2 DEF Ahead
  <2> QED  BY <1>2, <2>1, <2>2 DEF S
<1>9. \A i \in 1..n : i - 1 \in P => i \in P
  <2> TAKE i \in 1..n
  <2> HAVE i - 1 \in P
  <2>1. f[i] = Pass(f[i - 1], i)
    BY <1>2, <1>6
  <2> QED  BY <1>1, <2>1, PassKeeps DEF S
<1>10. n \in P
  <2> HIDE DEF P
  <2>1. 0..n \subseteq P
    BY <1>2, <1>8, <1>9, LoopInduct
  <2> QED  BY <1>2, <2>1
<1> QED  BY <1>1, <1>7, <1>10 DEF S

-----------------------------------------------------------------------------
(* The choice of a record.                                                 *)

\* The running sum of the weights of a class.
Sums(f, s, class) ==
    /\ f[0] = 0
    /\ \A k \in 1..Len(s) : f[k] = f[k - 1] + IF k \in class THEN s[k].weight ELSE 0

Weighted(s) == Len(s) \in Nat /\ \A k \in 1..Len(s) : s[k].weight \in Nat

LEMMA WeightLoop ==
    ASSUME NEW s, Weighted(s), NEW class
    PROVE  \E f \in [0..Len(s) -> Nat] :
             /\ Sums(f, s, class)
             /\ \A i \in 0..Len(s) : WeightsUpTo(s, class, i) = f[i]
<1>1. PICK n \in Nat : n = Len(s)
  BY DEF Weighted
<1> DEFINE Step(v, k) == v + IF k \in class THEN s[k].weight ELSE 0
           Is(g) == g = [k \in 0..n |-> IF k = 0 THEN 0 ELSE Step(g[k - 1], k)]
<1>2. \A k \in 1..n, v \in Nat : Step(v, k) \in Nat
  BY <1>1 DEF Weighted
<1>3. \E g \in [0..n -> Nat] : Is(g)
  <2> DEFINE G == [k \in 1..n |-> [v \in Nat |-> Step(v, k)]]
  <2>1. G \in [1..n -> [Nat -> Nat]]
    <3> HIDE DEF Step
    <3> QED  BY <1>2
  <2>2. PICK g \in [0..n -> Nat] : Rounds(g, n, 0, G)
    <3> HIDE DEF G
    <3> QED  BY <2>1, LoopExists
  <2>3. \A k \in 0..n : g[k] = IF k = 0 THEN 0 ELSE Step(g[k - 1], k)
    <3> TAKE k \in 0..n
    <3>1. k # 0 => k \in 1..n /\ k - 1 \in 0..n
      OBVIOUS
    <3> HIDE DEF Step
    <3> QED  BY <3>1, <2>2 DEF Rounds
  <2> HIDE DEF Step
  <2>4. Is(g)
    BY <2>3
  <2> QED  BY <2>4
<1>4. PICK f : f = CHOOSE g : Is(g)
  OBVIOUS
<1>5. Is(f)
  <2> HIDE DEF Is
  <2> QED  BY <1>3, <1>4
<1>6. \A i : WeightsUpTo(s, class, i) = f[i]
  BY <1>1, <1>4 DEF WeightsUpTo
<1>7. f[0] = 0 /\ \A k \in 1..n : f[k] = Step(f[k - 1], k)
  <2> HIDE DEF Step
  <2> QED  BY <1>5
<1> DEFINE P == {k \in 0..n : f[k] \in Nat}
<1>8. 0..n \subseteq P
  <2>1. 0 \in P
    BY <1>7
  <2>2. \A k \in 1..n : k - 1 \in P => k \in P
    <3> HIDE DEF Step
    <3> QED  BY <1>2, <1>7
  <2> HIDE DEF P
  <2> QED  BY <2>1, <2>2, LoopInduct
<1>9. f \in [0..n -> Nat]
  <2> HIDE DEF Step
  <2> QED  BY <1>5, <1>8
<1> QED  BY <1>1, <1>6, <1>7, <1>9 DEF Sums

\* The range first..last of the code holds all records of the priority.
LEMMA ClassIs ==
    ASSUME NEW s, NEW n \in Nat, n = Len(s), \A k \in 1..n : s[k].priority \in Nat,
           Ahead(s, n), NEW pick \in 1..n
    PROVE  Class(s, pick) = {i \in 1..n : s[i].priority = s[pick].priority}
<1>1. ASSUME NEW i \in 1..n, NEW j \in 1..n, s[i].priority = s[j].priority,
             NEW k \in i..j
      PROVE  s[k].priority = s[j].priority
  <2>1. k \in 1..n
    OBVIOUS
  <2>2. s[i].priority <= s[k].priority
    BY <2>1 DEF Ahead
  <2>3. s[k].priority <= s[j].priority
    BY <2>1 DEF Ahead
  <2> QED  BY <1>1, <2>1, <2>2, <2>3
<1>2. ASSUME NEW i \in 1..n, s[i].priority = s[pick].priority
      PROVE  i \in Class(s, pick)
  BY <1>1, <1>2 DEF Class
<1>3. ASSUME NEW i \in Class(s, pick)
      PROVE  i \in 1..n /\ s[i].priority = s[pick].priority
  BY <1>3 DEF Class
<1> QED  BY <1>2, <1>3

\* What discover chooses, by the running sums f of the class that has its turn:
\* without weights the record at pick, else the first one of the class whose sum
\* exceeds the random value.
Hits(class, f, drawn, c) ==
    /\ drawn < f[c]
    /\ \A k \in class : k < c => drawn >= f[k]

ChoiceBy(s, n, pick, random, chosen, f) ==
    LET class == Class(s, pick)
    IN /\ Sums(f, s, class)
       /\ \A i \in 0..n : WeightsUpTo(s, class, i) = f[i]
       /\ \E last \in class :
            /\ \A k \in class : k <= last
            /\ f[last] = 0 => chosen = s[pick]
            /\ f[last] # 0 => \E c \in class : chosen = s[c] /\ Hits(class, f, random % f[last], c)

LEMMA ChoiceIs ==
    ASSUME NEW s, Weighted(s), NEW n, n = Len(s), n # 0, NEW attempts \in Nat \ {0},
           NEW random \in Nat, NEW pick, pick = 1 + ((attempts - 1) % n)
    PROVE  /\ pick \in Class(s, pick) /\ Class(s, pick) \subseteq 1..n
           /\ \E f \in [0..n -> Nat] :
                ChoiceBy(s, n, pick, random, Choice(s, attempts, random), f)
<1> DEFINE turn  == 1 + ((attempts - 1) % Len(s))
           class == Class(s, turn)
           last  == CHOOSE i \in class : \A k \in class : k <= i
           sum   == WeightsUpTo(s, class, last)
           drawn == random % sum
           Hit(i) == /\ i = last \/ drawn < WeightsUpTo(s, class, i)
                     /\ \A k \in class : k < i => drawn >= WeightsUpTo(s, class, k)
<1>1. Choice(s, attempts, random) = IF sum = 0 THEN s[turn] ELSE s[CHOOSE i \in class : Hit(i)]
  BY DEF Choice
<1>2. n \in Nat \ {0} /\ turn \in 1..n /\ turn = pick
  BY DEF Weighted
<1> HIDE DEF turn
<1>3. class = Class(s, pick) /\ pick \in class /\ class \subseteq 1..n
  BY <1>2 DEF Class
<1> HIDE DEF class
<1>4. last \in class /\ \A k \in class : k <= last
  <2>1. class \subseteq 0..n /\ class # {}
    BY <1>3
  <2>2. \E i \in class : \A k \in class : k <= i
    BY <1>2, <2>1, Greatest
  <2> QED  BY <2>2
<1> HIDE DEF last
<1>5. PICK f \in [0..n -> Nat] : /\ Sums(f, s, class)
                                /\ \A i \in 0..n : WeightsUpTo(s, class, i) = f[i]
  <2>1. \E f \in [0..Len(s) -> Nat] : /\ Sums(f, s, class)
                                      /\ \A i \in 0..Len(s) : WeightsUpTo(s, class, i) = f[i]
    BY WeightLoop
  <2> QED  BY <2>1
<1>6. class \subseteq 0..n /\ sum \in Nat /\ sum = f[last]
  BY <1>2, <1>3, <1>4, <1>5
<1> HIDE DEF sum
<1>7. sum # 0 => drawn \in 0..(sum - 1)
  BY <1>6
<1>8. drawn = random % f[last]
  BY <1>6
<1> HIDE DEF drawn
<1>9. ASSUME sum # 0
      PROVE  \E c \in class : Choice(s, attempts, random) = s[c] /\ Hits(class, f, drawn, c)
  <2>1. drawn \in Nat /\ drawn < f[last]
    BY <1>6, <1>7, <1>9
  <2>2. PICK T : T = {i \in class : i = last \/ drawn < f[i]}
    OBVIOUS
  <2>3. PICK i \in T : \A k \in T : i <= k
    <3>1. T \subseteq Nat /\ T # {}
      <4>1. class \subseteq Nat /\ last \in class
        BY <1>3, <1>4
      <4> QED  BY <2>2, <4>1
    <3> QED  BY <3>1, Least
  <2>4. Hit(i)
    <3>1. i \in class /\ i \in 0..n /\ (i = last \/ drawn < WeightsUpTo(s, class, i))
      BY <1>5, <1>6, <2>2
    <3>2. ASSUME NEW k \in class, k < i
          PROVE  drawn >= WeightsUpTo(s, class, k)
      <4>1. k \in 0..n
        BY <1>6
      <4>2. k \notin T
        BY <2>3, <3>1, <3>2, <4>1
      <4>3. ~(drawn < f[k]) /\ f[k] \in Nat /\ WeightsUpTo(s, class, k) = f[k]
        BY <1>5, <2>2, <4>1, <4>2
      <4> QED  BY <2>1, <4>3
    <3> QED  BY <3>1, <3>2
  <2>5. PICK c : c = CHOOSE j \in class : Hit(j)
    OBVIOUS
  <2>6. c \in class /\ Hit(c)
    <3>1. i \in class
      BY <2>2
    <3> HIDE DEF Hit
    <3> QED  BY <2>4, <2>5, <3>1
  <2>7. Hits(class, f, drawn, c)
    <3>1. \A k \in class : WeightsUpTo(s, class, k) = f[k]
      BY <1>5, <1>6
    <3> QED  BY <2>1, <2>6, <3>1 DEF Hits
  <2>8. Choice(s, attempts, random) = s[c]
    BY <1>1, <1>9, <2>5
  <2> QED  BY <2>6, <2>7, <2>8
<1>10. f[last] = 0 => Choice(s, attempts, random) = s[pick]
  BY <1>1, <1>2, <1>6
<1>11. \E l \in class :
         /\ \A k \in class : k <= l
         /\ f[l] = 0 => Choice(s, attempts, random) = s[pick]
         /\ f[l] # 0 => \E c \in class : /\ Choice(s, attempts, random) = s[c]
                                          /\ Hits(class, f, random % f[l], c)
  BY <1>4, <1>6, <1>8, <1>9, <1>10
<1>12. ChoiceBy(s, n, pick, random, Choice(s, attempts, random), f)
  BY <1>3, <1>5, <1>11 DEF ChoiceBy
<1> QED  BY <1>3, <1>12

\* So it is a record of the priority whose turn it is.
SamePriority(s, n, pick, chosen) ==
    \E c \in 1..n : chosen = s[c] /\ s[c].priority = s[pick].priority

LEMMA ChoiceInClass ==
    ASSUME NEW s, Weighted(s), NEW n, n = Len(s), n # 0, NEW attempts \in Nat \ {0},
           NEW random \in Nat, NEW pick, pick = 1 + ((attempts - 1) % n)
    PROVE  pick \in 1..n /\ SamePriority(s, n, pick, Choice(s, attempts, random))
<1>1. pick \in Class(s, pick) /\ Class(s, pick) \subseteq 1..n
  BY ChoiceIs
<1>2. PICK f \in [0..n -> Nat] : ChoiceBy(s, n, pick, random, Choice(s, attempts, random), f)
  BY ChoiceIs
<1>3. PICK c \in Class(s, pick) : Choice(s, attempts, random) = s[c]
  BY <1>1, <1>2 DEF ChoiceBy
<1>4. s[c].priority = s[pick].priority
  <2>1. c \in Nat /\ pick \in Nat
    BY <1>1 DEF Weighted
  <2> QED  BY <2>1 DEF Class
<1> QED  BY <1>1, <1>3, <1>4 DEF SamePriority

-----------------------------------------------------------------------------
(* Turns: the priority that a place of the sorted records has, whatever    *)
(* order the resolver listed them in.                                      *)

\* A one-to-one correspondence preserves size.
LEMMA SameSize ==
    ASSUME NEW S, IsFiniteSet(S), NEW T, NEW f \in [S -> T],
           \A x, y \in S : f[x] = f[y] => x = y,
           \A t \in T : \E x \in S : f[x] = t
    PROVE  IsFiniteSet(T) /\ Cardinality(T) = Cardinality(S)
<1>1. f \in Bijection(S, T)
  BY DEF Bijection, Injection, Surjection, IsInjective
<1>2. ExistsBijection(S, T)
  BY <1>1 DEF ExistsBijection
<1> QED  BY <1>2, FS_Bijection

\* An order of a set holds every record of it.
LEMMA OrderCovers ==
    ASSUME NEW data, IsFiniteSet(data), NEW s \in SetToSeqs(data), NEW r \in data
    PROVE  \E i \in 1..Cardinality(data) : s[i] = r
<1>1. PICK n \in Nat : n = Cardinality(data)
  BY Orders
<1>2. s \in [1..n -> data] /\ \A i, j \in 1..n : i # j => s[i] # s[j]
  BY <1>1, Orders
<1>3. s \in Injection(1..n, data)
  BY <1>2 DEF Injection, IsInjective
<1>4. IsFiniteSet(1..n) /\ Cardinality(1..n) = n
  BY FS_Interval
<1>5. s \in Surjection(1..n, data)
  BY <1>1, <1>3, <1>4, FS_Injection
<1> QED  BY <1>1, <1>5 DEF Surjection

\* Sorted orders of the same records have the same priorities in the same places.
LEMMA NoLater ==
    ASSUME NEW data, Prioritised(data), NEW n, n = Cardinality(data),
           NEW s \in SetToSeqs(data), NEW t \in SetToSeqs(data),
           Ahead(s, n), Ahead(t, n), NEW k \in 1..n
    PROVE  t[k].priority <= s[k].priority
<1>1. /\ n \in Nat
      /\ s \in [1..n -> data] /\ Len(s) = n /\ \A i, j \in 1..n : i # j => s[i] # s[j]
      /\ t \in [1..n -> data] /\ Len(t) = n
  BY Orders DEF Prioritised
<1>2. \A i \in 1..n : s[i].priority \in Nat /\ t[i].priority \in Nat
  BY <1>1 DEF Prioritised
<1> SUFFICES ASSUME s[k].priority < t[k].priority
             PROVE  FALSE
  BY <1>2
<1>3. \A i \in 1..k : \E j \in 1..(k - 1) : t[j] = s[i]
  <2> TAKE i \in 1..k
  <2>1. i \in 1..n
    BY <1>1
  <2>2. PICK j \in 1..n : t[j] = s[i]
    BY <1>1, <2>1, OrderCovers DEF Prioritised
  <2>3. s[i].priority <= s[k].priority
    BY <1>1, <1>2, <2>1 DEF Ahead
  <2>4. ~(k <= j)
    <3> SUFFICES ASSUME k <= j PROVE FALSE
      OBVIOUS
    <3>1. t[k].priority <= t[j].priority
      <4>1. CASE k = j
        BY <1>2, <4>1
      <4>2. CASE k < j
        BY <1>1, <4>2 DEF Ahead
      <4> QED  BY <4>1, <4>2
    <3>2. t[j].priority = s[i].priority
      BY <2>2
    <3> QED  BY <1>2, <2>1, <2>3, <3>1, <3>2
  <2> QED  BY <2>2, <2>4
<1>4. PICK f : f = [i \in 1..k |-> CHOOSE j \in 1..(k - 1) : t[j] = s[i]]
  OBVIOUS
<1>5. f \in [1..k -> 1..(k - 1)] /\ \A i \in 1..k : t[f[i]] = s[i]
  BY <1>3, <1>4
<1>6. /\ IsFiniteSet(1..k) /\ IsFiniteSet(1..(k - 1))
      /\ Cardinality(1..k) = k /\ Cardinality(1..(k - 1)) = k - 1
  <2>1. k \in Int /\ k - 1 \in Int /\ 1 \in Int /\ ~(1 > k)
    OBVIOUS
  <2> QED  BY <2>1, FS_Interval
<1>7. PICK x \in 1..k, y \in 1..k : x # y /\ f[x] = f[y]
  <2>1. PICK A, B : A = 1..k /\ B = 1..(k - 1)
    OBVIOUS
  <2>2. IsFiniteSet(A) /\ IsFiniteSet(B) /\ Cardinality(B) < Cardinality(A) /\ f \in [A -> B]
    BY <1>5, <1>6, <2>1
  <2>3. \E x, y \in A : x # y /\ f[x] = f[y]
    BY <2>2, FS_PigeonHole
  <2> QED  BY <2>1, <2>3
<1>8. s[x] = s[y]
  BY <1>5, <1>7
<1>9. x \in 1..n /\ y \in 1..n
  BY <1>1
<1> QED  BY <1>1, <1>7, <1>8, <1>9

Turn(data, k) == (CHOOSE s \in SetToSeqs(data) : Ahead(s, Cardinality(data)))[k].priority

LEMMA TurnIs ==
    ASSUME NEW data, Prioritised(data), NEW s \in SetToSeqs(data),
           Ahead(s, Cardinality(data)), NEW k \in 1..Cardinality(data)
    PROVE  s[k].priority = Turn(data, k)
<1>1. PICK t : t = CHOOSE o \in SetToSeqs(data) : Ahead(o, Cardinality(data))
  OBVIOUS
<1>2. t \in SetToSeqs(data) /\ Ahead(t, Cardinality(data))
  BY <1>1
<1>3. t[k].priority <= s[k].priority /\ s[k].priority <= t[k].priority
  BY <1>2, NoLater
<1>4. t[k].priority \in Nat /\ s[k].priority \in Nat
  BY <1>2, Orders DEF Prioritised
<1> QED  BY <1>1, <1>3, <1>4 DEF Turn

-----------------------------------------------------------------------------
(* discover                                                                *)

Targets == {r.target : r \in zone}

Edges == {<<>>} \cup (UNION {Addresses(t) : t \in Targets})

Discoveries == [stage : {"idle", "srv", "a", "connecting", "failed"},
                picks : Seq(zone \cup {NoPick}),
                target : Targets \cup {NoTarget},
                edge : Edges]

\* Every attempt that got an answer chose a record of the priority whose turn it
\* was.
InTurn == \A i \in 1..Len(dns.picks) :
            dns.picks[i] # NoPick =>
              /\ dns.picks[i] \in zone
              /\ dns.picks[i].priority = Turn(zone, 1 + ((i - 1) % Cardinality(zone)))

DiscoveryInv ==
    /\ zone \in Zones
    /\ dns \in Discoveries
    /\ dns.stage # "idle" => Len(dns.picks) > 0
    /\ dns.stage \in {"a", "connecting"} => dns.target \in Targets
    /\ dns.stage = "connecting" => dns.edge \in Addresses(dns.target)
    /\ InTurn

LEMMA InitDiscovery == DnsInit => DiscoveryInv
<1> SUFFICES ASSUME DnsInit PROVE DiscoveryInv
  OBVIOUS
<1>1. zone \in Zones /\ dns = Undiscovered
  BY DEF DnsInit
<1>2. <<>> \in Seq(zone \cup {NoPick}) /\ Len(<<>>) = 0
  OBVIOUS
<1>3. dns \in Discoveries
  <2>1. <<>> \in Edges
    BY DEF Edges
  <2> QED  BY <1>1, <1>2, <2>1 DEF Undiscovered, Discoveries
<1> QED  BY <1>1, <1>2, <1>3 DEF DiscoveryInv, InTurn, Undiscovered

LEMMA ZoneIs ==
    ASSUME zone \in Zones
    PROVE  /\ Prioritised(zone) /\ Cardinality(zone) \in Nat \ {0}
           /\ \A s \in SetToSeqs(zone) : Weighted(s)
           /\ \A t \in Targets : t # "somebody"
<1>1. /\ zone # {} /\ IsFiniteSet(zone)
      /\ \A r \in zone : r.weight \in Nat /\ r.priority \in Nat /\ r.target # "somebody"
  BY DnsAssumption
<1>2. Cardinality(zone) \in Nat \ {0}
  BY <1>1, FS_CardinalityType, FS_EmptySet
<1>3. \A s \in SetToSeqs(zone) : Weighted(s)
  BY <1>1, <1>2, Orders DEF Weighted
<1> QED  BY <1>1, <1>2, <1>3 DEF Prioritised, Targets

LEMMA StartKeeps ==
    ASSUME DiscoveryInv, StartDiscovery
    PROVE  DiscoveryInv'
<1>1. PICK d : d = [dns EXCEPT !.picks = Append(@, NoPick), !.target = NoTarget, !.edge = <<>>]
  OBVIOUS
<1>2. dns' = [d EXCEPT !.stage = "srv"] \/ dns' = [d EXCEPT !.stage = "failed"]
  BY <1>1 DEF StartDiscovery
<1>3. zone' = zone
  BY DEF StartDiscovery
<1>4. dns.picks \in Seq(zone \cup {NoPick})
  BY DEF DiscoveryInv, Discoveries
<1>5. PICK n \in Nat : n = Len(dns.picks)
  BY <1>4
<1>6. PICK p : p = Append(dns.picks, NoPick)
  OBVIOUS
<1>7. /\ p \in Seq(zone \cup {NoPick}) /\ Len(p) = n + 1 /\ p[n + 1] = NoPick
      /\ \A i \in 1..n : p[i] = dns.picks[i]
  BY <1>4, <1>5, <1>6, AppendProperties
<1>8. d = [stage |-> dns.stage, picks |-> p, target |-> NoTarget, edge |-> <<>>]
  BY <1>1, <1>6 DEF DiscoveryInv, Discoveries
<1>9. PICK st \in {"srv", "failed"} :
        dns' = [stage |-> st, picks |-> p, target |-> NoTarget, edge |-> <<>>]
  BY <1>2, <1>8
<1>10. dns' \in Discoveries'
  <2>1. Discoveries' = Discoveries
    BY <1>3 DEF Discoveries, Targets, Edges
  <2>2. <<>> \in Edges
    BY DEF Edges
  <2> QED  BY <1>7, <1>9, <2>1, <2>2 DEF Discoveries
<1>11. dns'.stage = st /\ dns'.picks = p
  BY <1>9
<1>12. InTurn'
  <2> SUFFICES ASSUME NEW i \in 1..Len(p), p[i] # NoPick
               PROVE  /\ p[i] \in zone
                      /\ p[i].priority = Turn(zone, 1 + ((i - 1) % Cardinality(zone)))
    BY <1>3, <1>11 DEF InTurn
  <2>1. i \in 1..n /\ p[i] = dns.picks[i]
    BY <1>7
  <2> QED  BY <1>5, <2>1 DEF DiscoveryInv, InTurn
<1> QED  BY <1>3, <1>5, <1>7, <1>10, <1>11, <1>12 DEF DiscoveryInv

LEMMA FailKeeps ==
    ASSUME DiscoveryInv, dns.stage # "idle", Fail, zone' = zone
    PROVE  DiscoveryInv'
<1>1. dns' \in Discoveries
  BY DEF Fail, DiscoveryInv, Discoveries
<1>2. dns'.picks = dns.picks /\ dns'.stage = "failed"
  BY DEF Fail, DiscoveryInv, Discoveries
<1>3. Discoveries' = Discoveries
  BY DEF Discoveries, Targets, Edges
<1>4. InTurn'
  BY <1>2 DEF InTurn, DiscoveryInv
<1> QED  BY <1>1, <1>2, <1>3, <1>4 DEF DiscoveryInv

\* The record chosen from a reply is advertised, and of the priority whose turn
\* it is.
LEMMA ChosenInTurn ==
    ASSUME zone \in Zones, NEW s \in SetToSeqs(zone), NEW attempts \in Nat \ {0},
           NEW random \in Nat
    PROVE  LET chosen == Choice(Sorted(s), attempts, random)
           IN /\ chosen \in zone
              /\ chosen.priority = Turn(zone, 1 + ((attempts - 1) % Cardinality(zone)))
<1>1. PICK n : n = Cardinality(zone)
  OBVIOUS
<1>2. PICK t : t = Sorted(s)
  OBVIOUS
<1>3. t \in SetToSeqs(zone) /\ Ahead(t, n)
  BY <1>1, <1>2, ZoneIs, SortedOrders
<1>4. n \in Nat \ {0} /\ Weighted(t) /\ Len(t) = n /\ t \in [1..n -> zone]
  BY <1>1, <1>3, ZoneIs, Orders DEF Prioritised
<1>5. PICK pick : pick = 1 + ((attempts - 1) % n)
  OBVIOUS
<1>6. pick \in 1..n /\ SamePriority(t, n, pick, Choice(t, attempts, random))
  BY <1>4, <1>5, ChoiceInClass
<1>7. PICK c \in 1..n : Choice(t, attempts, random) = t[c] /\ t[c].priority = t[pick].priority
  BY <1>6 DEF SamePriority
<1>8. t[pick].priority = Turn(zone, pick)
  BY <1>1, <1>3, <1>6, ZoneIs, TurnIs
<1> QED  BY <1>1, <1>2, <1>4, <1>5, <1>7, <1>8

LEMMA SrvKeeps ==
    ASSUME DiscoveryInv, NEW reply \in Resolver(SrvQuestion, zone), NEW random \in Randoms,
           SrvReply(reply, random)
    PROVE  DiscoveryInv'
<1>1. PICK parsed : parsed = cf_dns_parse(reply, SrvQuestion)
  OBVIOUS
<1>2. zone' = zone /\ dns.stage = "srv" /\ zone \in Zones
  BY DEF SrvReply, DiscoveryInv
<1>3. dns.picks \in Seq(zone \cup {NoPick}) /\ Len(dns.picks) > 0
  BY <1>2 DEF DiscoveryInv, Discoveries
<1>4. PICK n \in Nat \ {0} : n = Len(dns.picks)
  BY <1>3
<1>5. CASE parsed.rc # "OK"
  BY <1>1, <1>2, <1>5, FailKeeps DEF SrvReply
<1>6. CASE parsed.rc = "OK"
  <2>1. parsed.records \in SetToSeqs(zone)
    <3>1. Asked(SrvQuestion)
      BY DEF Asked, SrvQuestion
    <3> QED  BY <1>1, <1>2, <1>6, <3>1, ZoneIs, Accepted DEF Prioritised
  <2>2. PICK chosen : chosen = Choice(Sorted(parsed.records), n, random)
    OBVIOUS
  <2>3. chosen \in zone /\ chosen.priority = Turn(zone, 1 + ((n - 1) % Cardinality(zone)))
    <3>1. random \in Nat
      BY DEF Randoms
    <3> QED  BY <1>2, <2>1, <2>2, <3>1, ChosenInTurn
  <2>4. PICK st \in {"a", "failed"} :
          dns' = [dns EXCEPT !.picks[n] = chosen, !.target = chosen.target, !.stage = st]
    BY <1>1, <1>4, <1>6, <2>2 DEF SrvReply
  <2>5. PICK p : p = [dns.picks EXCEPT ![n] = chosen]
    OBVIOUS
  <2>6. /\ p \in Seq(zone \cup {NoPick}) /\ Len(p) = n /\ p[n] = chosen
        /\ \A i \in 1..n : i # n => p[i] = dns.picks[i]
    BY <1>3, <1>4, <2>3, <2>5, ExceptSeq
  <2>7. dns' = [stage |-> st, picks |-> p, target |-> chosen.target, edge |-> dns.edge]
    BY <2>4, <2>5 DEF DiscoveryInv, Discoveries
  <2>8. dns' \in Discoveries'
    <3>1. Discoveries' = Discoveries
      BY <1>2 DEF Discoveries, Targets, Edges
    <3>2. chosen.target \in Targets
      BY <2>3 DEF Targets
    <3>3. dns.edge \in Edges
      BY DEF DiscoveryInv, Discoveries
    <3> QED  BY <2>6, <2>7, <3>1, <3>2, <3>3 DEF Discoveries
  <2>9. dns'.stage = st /\ dns'.picks = p /\ dns'.target = chosen.target
    BY <2>7
  <2>10. InTurn'
    <3> SUFFICES ASSUME NEW i \in 1..n, p[i] # NoPick
                 PROVE  /\ p[i] \in zone
                        /\ p[i].priority = Turn(zone, 1 + ((i - 1) % Cardinality(zone)))
      BY <1>2, <2>6, <2>9 DEF InTurn
    <3>1. CASE i = n
      BY <2>3, <2>6, <3>1
    <3>2. CASE i # n
      BY <1>4, <2>6, <3>2 DEF DiscoveryInv, InTurn
    <3> QED  BY <3>1, <3>2
  <2>11. dns'.target \in Targets'
    BY <1>2, <2>3, <2>9 DEF Targets
  <2> QED  BY <1>2, <2>6, <2>8, <2>9, <2>10, <2>11 DEF DiscoveryInv
<1> QED  BY <1>5, <1>6

LEMMA AKeeps ==
    ASSUME DiscoveryInv, NEW reply \in Resolver(AQuestion(dns.target), Addresses(dns.target)),
           NEW random \in Randoms, AReply(reply, random)
    PROVE  DiscoveryInv'
<1> DEFINE question == AQuestion(dns.target)
<1>1. PICK parsed : parsed = cf_dns_parse(reply, question)
  OBVIOUS
<1>2. zone' = zone /\ dns.stage = "a" /\ zone \in Zones /\ dns.target \in Targets
  BY DEF AReply, DiscoveryInv
<1>3. CASE parsed.rc # "OK"
  BY <1>1, <1>2, <1>3, FailKeeps DEF AReply
<1>4. CASE parsed.rc = "OK"
  <2>1. IsFiniteSet(Addresses(dns.target))
    <3>1. IsFiniteSet({} \cup {<<dns.target, 1>>})
      BY FS_EmptySet, FS_AddElement
    <3>2. IsFiniteSet(({} \cup {<<dns.target, 1>>}) \cup {<<dns.target, 2>>})
      BY <3>1, FS_AddElement
    <3> QED  BY <3>2 DEF Addresses
  <2>2. Asked(question)
    BY <1>2, ZoneIs DEF Asked, AQuestion
  <2>3. parsed.records \in SetToSeqs(Addresses(dns.target)) /\ parsed.records # <<>>
    BY <1>1, <1>4, <2>1, <2>2, Accepted
  <2>4. /\ parsed.records \in Seq(Addresses(dns.target))
        /\ parsed.records # <<>>
    BY <2>1, <2>3, Orders
  <2>5. PICK count \in Nat \ {0} : count = Len(parsed.records)
    BY <2>4, EmptySeq
  <2>6. PICK k \in 1..count : k = 1 + (random % count)
    BY DEF Randoms
  <2>7. PICK edge \in Addresses(dns.target) : edge = parsed.records[k]
    BY <2>4, <2>5, <2>6
  <2>8. dns' = [dns EXCEPT !.edge = edge, !.stage = "connecting"]
    BY <1>1, <1>4, <2>5, <2>6, <2>7 DEF AReply
  <2>9. dns' = [stage |-> "connecting", picks |-> dns.picks, target |-> dns.target,
                edge |-> edge]
    BY <2>8 DEF DiscoveryInv, Discoveries
  <2>10. dns' \in Discoveries'
    <3>1. Discoveries' = Discoveries
      BY <1>2 DEF Discoveries, Targets, Edges
    <3>2. edge \in Edges
      BY <1>2 DEF Edges
    <3>3. dns.picks \in Seq(zone \cup {NoPick}) /\ dns.target \in Targets \cup {NoTarget}
      BY DEF DiscoveryInv, Discoveries
    <3> QED  BY <2>9, <3>1, <3>2, <3>3 DEF Discoveries
  <2>11. /\ dns'.stage = "connecting" /\ dns'.picks = dns.picks
         /\ dns'.target = dns.target /\ dns'.edge = edge
    BY <2>9
  <2>12. InTurn'
    BY <1>2, <2>11 DEF DiscoveryInv, InTurn
  <2>13. Len(dns.picks) > 0
    BY <1>2 DEF DiscoveryInv
  <2>14. Targets' = Targets
    BY <1>2 DEF Targets
  <2> QED  BY <1>2, <2>10, <2>11, <2>12, <2>13, <2>14 DEF DiscoveryInv
<1> QED  BY <1>3, <1>4

LEMMA DiscoverKeeps == DiscoveryInv /\ [discover]_<<zone, dns>> => DiscoveryInv'
<1> SUFFICES ASSUME DiscoveryInv, [discover]_<<zone, dns>>
             PROVE  DiscoveryInv'
  OBVIOUS
<1>1. CASE StartDiscovery
  BY <1>1, StartKeeps
<1>2. CASE QueryFails
  BY <1>2, FailKeeps DEF QueryFails
<1>3. CASE \E reply \in Resolver(SrvQuestion, zone), random \in Randoms :
             SrvReply(reply, random)
  BY <1>3, SrvKeeps
<1>4. CASE \E reply \in Resolver(AQuestion(dns.target), Addresses(dns.target)),
              random \in Randoms : AReply(reply, random)
  BY <1>4, AKeeps
<1>5. CASE UNCHANGED <<zone, dns>>
  BY <1>5 DEF DiscoveryInv, Discoveries, Targets, Edges, InTurn
<1> QED  BY <1>1, <1>2, <1>3, <1>4, <1>5 DEF discover

\* The inductive invariant of discovery: the target of the question at hand is
\* advertised, the address connected to is one of its addresses, and every
\* attempt chose by the turn of its number.
THEOREM DiscoveryInvariance == DnsSpec => []DiscoveryInv
<1>1. DnsInit => DiscoveryInv
  BY InitDiscovery
<1>2. DiscoveryInv /\ [discover]_<<zone, dns>> => DiscoveryInv'
  BY DiscoverKeeps
<1> QED  BY <1>1, <1>2, PTL DEF DnsSpec

\* Whatever a resolver adds to its replies or corrupts, discover connects to an
\* address given for the target of an advertised record.
THEOREM EdgeAdvertised == DnsSpec => []EdgeIsAdvertised
<1>1. DiscoveryInv => EdgeIsAdvertised
  BY DEF DiscoveryInv, EdgeIsAdvertised, Targets
<1> QED  BY <1>1, DiscoveryInvariance, PTL

-----------------------------------------------------------------------------
(* Failover.                                                               *)

\* n numbers in a row have different remainders by n.
LEMMA Remainders ==
    ASSUME NEW n \in Nat \ {0}, NEW a \in Nat, NEW b \in Nat, a < b, b - a < n
    PROVE  a % n # b % n
<1>1. PICK q \in Nat : q = a \div n
  OBVIOUS
<1>2. PICK p \in Nat : p = b \div n
  OBVIOUS
<1>3. a = n * q + (a % n) /\ b = n * p + (b % n)
  BY <1>1, <1>2
<1> SUFFICES ASSUME a % n = b % n PROVE FALSE
  OBVIOUS
<1>4. PICK d \in Int : d = p - q
  OBVIOUS
<1>5. n * d = b - a
  <2>1. n * d = n * p - n * q
    BY <1>4
  <2>2. n * p \in Int /\ n * q \in Int /\ a % n \in Int
    OBVIOUS
  <2> QED  BY <1>3, <2>1, <2>2
<1>6. d >= 1 => n * d >= n
  OBVIOUS
<1>7. d <= 0 => n * d <= 0
  OBVIOUS
<1> QED  BY <1>5, <1>6, <1>7

LEMMA OrderExists ==
    ASSUME NEW data, IsFiniteSet(data)
    PROVE  SetToSeqs(data) # {}
<1>1. PICK n : n = Cardinality(data)
  OBVIOUS
<1>2. PICK f \in Bijection(1..n, data) : TRUE
  BY <1>1, FS_CardinalityType DEF ExistsBijection
<1>3. f \in [1..n -> data] /\ \A i, j \in 1..n : i # j => f[i] # f[j]
  BY <1>2 DEF Bijection, Injection, IsInjective
<1> QED  BY <1>1, <1>3, Orders

Recent(window, n) ==
    /\ window = {i \in DOMAIN dns.picks : i > Len(dns.picks) - n}
    /\ \A i \in window : dns.picks[i] # NoPick

Counted(window, p) ==
    Cardinality({i \in window : dns.picks[i].priority = p})
      = Cardinality({r \in zone : r.priority = p})

\* Over n attempts in a row every place of the sorted records has its turn once,
\* so a priority is chosen as often as it has records.
LEMMA WindowCounts ==
    ASSUME zone \in Zones, InTurn, dns.picks \in Seq(zone \cup {NoPick}),
           NEW n, n = Cardinality(zone), NEW L, L = Len(dns.picks), L >= n,
           NEW window, Recent(window, n), NEW p
    PROVE  Counted(window, p)
<1>1. n \in Nat \ {0} /\ L \in Nat /\ Prioritised(zone) /\ IsFiniteSet(zone)
  BY ZoneIs DEF Prioritised
<1>2. window = (L - n + 1)..L /\ \A i \in window : dns.picks[i] # NoPick
  BY <1>1 DEF Recent
<1>3. PICK s \in SetToSeqs(zone) : TRUE
  BY <1>1, OrderExists
<1>4. PICK t \in SetToSeqs(zone) : Ahead(t, n)
  BY <1>1, <1>3, SortedOrders
<1>5. t \in [1..n -> zone] /\ \A i, j \in 1..n : i # j => t[i] # t[j]
  BY <1>1, <1>4, Orders
<1>6. PICK h : h = [i \in window |-> 1 + ((i - 1) % n)]
  OBVIOUS
<1>7. h \in [window -> 1..n]
  <2>1. \A i \in window : 1 + ((i - 1) % n) \in 1..n
    <3> TAKE i \in window
    <3>1. i - 1 \in Nat
      BY <1>1, <1>2
    <3> QED  BY <1>1, <3>1
  <2> QED  BY <1>6, <2>1
<1>8. \A i, j \in window : i < j => h[i] # h[j]
  <2> TAKE i, j \in window
  <2> HAVE i < j
  <2>1. i - 1 \in Nat /\ j - 1 \in Nat /\ i - 1 < j - 1 /\ (j - 1) - (i - 1) < n
    BY <1>1, <1>2
  <2>2. (i - 1) % n # (j - 1) % n
    BY <1>1, <2>1, Remainders
  <2>3. \A a \in Nat : a % n \in Nat
    BY <1>1
  <2>4. PICK a \in Nat, b \in Nat : a = (i - 1) % n /\ b = (j - 1) % n
    BY <2>1, <2>3
  <2>5. h[i] = 1 + a /\ h[j] = 1 + b
    BY <1>6, <2>4
  <2> QED  BY <2>2, <2>4, <2>5
<1>9. \A i, j \in window : h[i] = h[j] => i = j
  <2> TAKE i, j \in window
  <2>1. i \in Int /\ j \in Int
    BY <1>1, <1>2
  <2>2. i < j \/ j < i \/ i = j
    BY <2>1
  <2> QED  BY <1>8, <2>2
<1>10. \A k \in 1..n : \E i \in window : h[i] = k
  <2>1. PICK N : N = 1..n
    OBVIOUS
  <2>2. IsFiniteSet(N) /\ Cardinality(N) = n
    BY <1>1, <2>1, FS_Interval
  <2>3. Cardinality(window) = n
    <3>1. L - n + 1 \in Int /\ L \in Int /\ ~(L - n + 1 > L) /\ L - (L - n + 1) + 1 = n
      BY <1>1
    <3> QED  BY <1>2, <3>1, FS_Interval
  <2>4. h \in Injection(window, N)
    BY <1>7, <1>9, <2>1 DEF Injection, IsInjective
  <2>5. h \in Surjection(window, N)
    BY <2>2, <2>3, <2>4, FS_Injection
  <2> QED  BY <2>1, <2>5 DEF Surjection
<1>11. \A i \in window : dns.picks[i].priority = t[h[i]].priority
  <2> TAKE i \in window
  <2>1. i \in 1..L /\ dns.picks[i] # NoPick
    BY <1>1, <1>2
  <2>2. dns.picks[i].priority = Turn(zone, h[i])
    BY <1>6, <2>1 DEF InTurn
  <2>3. h[i] \in 1..n
    BY <1>7
  <2> QED  BY <1>1, <1>4, <2>2, <2>3, TurnIs
<1> DEFINE A == {i \in window : dns.picks[i].priority = p}
           B == {r \in zone : r.priority = p}
<1>12. PICK g : g = [i \in A |-> t[h[i]]]
  OBVIOUS
<1>13. g \in [A -> B]
  BY <1>5, <1>7, <1>11, <1>12
<1>14. \A x, y \in A : g[x] = g[y] => x = y
  <2> TAKE x, y \in A
  <2> HAVE g[x] = g[y]
  <2>1. h[x] \in 1..n /\ h[y] \in 1..n /\ t[h[x]] = t[h[y]]
    BY <1>7, <1>12
  <2>2. h[x] = h[y]
    BY <1>5, <2>1
  <2> QED  BY <1>9, <2>2
<1>15. \A r \in B : \E x \in A : g[x] = r
  <2> TAKE r \in B
  <2>1. PICK k \in 1..n : t[k] = r
    BY <1>1, <1>4, OrderCovers
  <2>2. PICK i \in window : h[i] = k
    BY <1>10
  <2>3. i \in A
    BY <1>11, <2>1, <2>2
  <2> QED  BY <1>12, <2>1, <2>2, <2>3
<1>16. IsFiniteSet(A)
  <2>1. IsFiniteSet(window)
    <3>1. L - n + 1 \in Int /\ L \in Int
      BY <1>1
    <3> QED  BY <1>2, <3>1, FS_Interval
  <2> QED  BY <2>1, FS_Subset
<1> HIDE DEF A, B
<1>17. Cardinality(B) = Cardinality(A)
  BY <1>13, <1>14, <1>15, <1>16, SameSize
<1> QED  BY <1>17 DEF A, B, Counted

\* Running sums do not decrease, and stand still between the records of a class.
LEMMA SumsGrow ==
    ASSUME NEW s, Weighted(s), NEW n \in Nat, n = Len(s), NEW class, NEW f \in [0..n -> Nat],
           Sums(f, s, class), NEW i \in 0..n
    PROVE  \A j \in 0..n : i <= j =>
             /\ f[i] <= f[j]
             /\ (\A k \in class : ~(i < k /\ k <= j)) => f[j] = f[i]
<1> DEFINE Above(j) == /\ f[i] <= f[j]
                       /\ (\A k \in class : ~(i < k /\ k <= j)) => f[j] = f[i]
           P == {j \in 0..n : i <= j => Above(j)}
<1>1. \A j \in 1..n : /\ f[j] = f[j - 1] + IF j \in class THEN s[j].weight ELSE 0
                      /\ s[j].weight \in Nat /\ f[j] \in Nat /\ f[j - 1] \in Nat
  BY DEF Sums, Weighted
<1>2. f[i] \in Nat
  OBVIOUS
<1>3. Above(i)
  BY <1>2
<1>4. 0 \in P
  <2>1. i <= 0 => i = 0
    OBVIOUS
  <2> HIDE DEF Above
  <2> QED  BY <1>3, <2>1
<1>5. \A j \in 1..n : j - 1 \in P => j \in P
  <2> TAKE j \in 1..n
  <2> HAVE j - 1 \in P
  <2> SUFFICES ASSUME i <= j PROVE Above(j)
    OBVIOUS
  <2>1. CASE i = j
    BY <1>3, <2>1
  <2>2. CASE i # j
    <3>1. Above(j - 1)
      BY <2>2
    <3>2. f[i] <= f[j]
      BY <1>1, <1>2, <3>1
    <3>3. ASSUME \A k \in class : ~(i < k /\ k <= j)
          PROVE  f[j] = f[i]
      <4>1. j \notin class
        BY <2>2, <3>3
      <4>2. \A k \in class : ~(i < k /\ k <= j - 1)
        <5> TAKE k \in class
        <5> SUFFICES ASSUME i < k, k <= j - 1 PROVE FALSE
          OBVIOUS
        <5> QED  BY <3>3
      <4>3. f[j - 1] = f[i]
        BY <3>1, <4>2
      <4> QED  BY <1>1, <4>1, <4>3
    <3> QED  BY <3>2, <3>3
  <2> QED  BY <2>1, <2>2
<1>6. 0..n \subseteq P
  <2> HIDE DEF P
  <2> QED  BY <1>4, <1>5, LoopInduct
<1> QED  BY <1>6


Summing(s, n, class, f) ==
    Weighted(s) /\ n \in Nat /\ n = Len(s) /\ f \in [0..n -> Nat] /\ Sums(f, s, class)

NoneIn(class, i, j) == \A k \in class : ~(i < k /\ k <= j)

LEMMA SumsUp ==
    ASSUME NEW s, NEW n, NEW class, NEW f, Summing(s, n, class, f),
           NEW i \in 0..n, NEW j \in 0..n, i <= j
    PROVE  f[i] <= f[j]
  BY SumsGrow DEF Summing

LEMMA SumsStand ==
    ASSUME NEW s, NEW n, NEW class, NEW f, Summing(s, n, class, f),
           NEW i \in 0..n, NEW j \in 0..n, i <= j, NoneIn(class, i, j)
    PROVE  f[j] = f[i]
<1>1. \A l \in 0..n : i <= l =>
             /\ f[i] <= f[l]
             /\ (\A k \in class : ~(i < k /\ k <= l)) => f[l] = f[i]
  BY SumsGrow DEF Summing
<1> QED  BY <1>1 DEF NoneIn

LEMMA Below ==
    ASSUME NEW n \in Nat \ {0}, NEW v \in Nat, v < n
    PROVE  v % n = v
  OBVIOUS

\* A random value hits the record of the class whose share it lies in.
LEMMA HitsIs ==
    ASSUME NEW s, Weighted(s), NEW n \in Nat, n = Len(s), NEW class, class \subseteq 1..n,
           NEW f \in [0..n -> Nat], Sums(f, s, class), NEW drawn \in Nat, NEW c \in class,
           Hits(class, f, drawn, c)
    PROVE  f[c - 1] <= drawn /\ drawn < f[c]
<1>0. Summing(s, n, class, f)
  BY DEF Summing
<1>1. c \in 1..n /\ c - 1 \in 0..n /\ f[0] = 0
  BY DEF Sums
<1> DEFINE below == {k \in class : k < c}
<1>2. CASE below = {}
  <2>1. f[c - 1] = f[0]
    <3>1. 0 \in 0..n /\ 0 <= c - 1
      BY <1>1
    <3>2. NoneIn(class, 0, c - 1)
      BY <1>1, <1>2 DEF NoneIn
    <3> QED  BY <1>0, <1>1, <3>1, <3>2, SumsStand
  <2> QED  BY <1>1, <2>1 DEF Hits
<1>3. CASE below # {}
  <2>1. PICK k \in below : \A j \in below : j <= k
    <3>1. below \subseteq 0..n
      OBVIOUS
    <3> HIDE DEF below
    <3> QED  BY <1>3, <3>1, Greatest
  <2>2. f[c - 1] = f[k]
    <3>1. k \in 0..n /\ k <= c - 1
      BY <1>1
    <3>2. NoneIn(class, k, c - 1)
      BY <1>1, <2>1 DEF NoneIn
    <3> HIDE DEF below
    <3> QED  BY <1>0, <1>1, <3>1, <3>2, SumsStand
  <2> QED  BY <2>1, <2>2 DEF Hits
<1> QED  BY <1>2, <1>3

\* The running sum of the class that has its turn at an attempt.
ByTurn(s, n, attempts, pick, class, f) ==
    /\ n # 0 /\ attempts \in Nat \ {0} /\ pick = 1 + ((attempts - 1) % n)
    /\ class = Class(s, pick)
    /\ Summing(s, n, class, f)
    /\ \A i \in 0..n : WeightsUpTo(s, class, i) = f[i]

Chosen(s, n, attempts, pick, class, f, v) ==
    /\ f[n] = 0 => Choice(s, attempts, v) = s[pick]
    /\ f[n] # 0 => \E c \in class : /\ Choice(s, attempts, v) = s[c]
                                    /\ Hits(class, f, v % f[n], c)

\* What discover chooses for every random value, by one running sum.
LEMMA ChoiceSums ==
    ASSUME NEW s, NEW n, NEW attempts, NEW pick, NEW class, NEW f,
           ByTurn(s, n, attempts, pick, class, f), NEW v \in Nat
    PROVE  Chosen(s, n, attempts, pick, class, f, v)
<1>0. /\ Weighted(s) /\ n \in Nat /\ n = Len(s) /\ n # 0 /\ attempts \in Nat \ {0}
      /\ pick = 1 + ((attempts - 1) % n) /\ class = Class(s, pick)
      /\ f \in [0..n -> Nat] /\ \A i \in 0..n : WeightsUpTo(s, class, i) = f[i]
  BY DEF ByTurn, Summing
<1>1. n \in Nat /\ pick \in class /\ class \subseteq 1..n
  BY <1>0, ChoiceIs DEF Weighted
<1>2. PICK g \in [0..n -> Nat] : ChoiceBy(s, n, pick, v, Choice(s, attempts, v), g)
  BY <1>0, ChoiceIs
<1>3. \A i \in 0..n : g[i] = f[i]
  BY <1>0, <1>2 DEF ChoiceBy
<1>4. g = f
  BY <1>0, <1>3
<1>5. PICK last \in class :
         /\ \A k \in class : k <= last
         /\ f[last] = 0 => Choice(s, attempts, v) = s[pick]
         /\ f[last] # 0 => \E c \in class : /\ Choice(s, attempts, v) = s[c]
                                            /\ Hits(class, f, v % f[last], c)
  BY <1>0, <1>2, <1>4 DEF ChoiceBy
<1>6. f[n] = f[last]
  <2>1. last \in 0..n /\ n \in 0..n /\ last <= n
    BY <1>1
  <2>2. NoneIn(class, last, n)
    <3>1. \A k \in class : k \in Nat /\ last \in Nat
      BY <1>1
    <3> QED  BY <1>5, <3>1 DEF NoneIn
  <2>3. Summing(s, n, class, f)
    BY DEF ByTurn
  <2> QED  BY <2>1, <2>2, <2>3, SumsStand
<1> QED  BY <1>5, <1>6 DEF Chosen

Shared(s, n, attempts, pick, class, sum) ==
    /\ sum \in Nat
    /\ sum = 0 => Choice(s, attempts, 0) = s[pick]
    /\ sum # 0 =>
         \A c \in 1..n :
           Cardinality({v \in 0..(sum - 1) : Choice(s, attempts, v) = s[c]})
             = IF c \in class THEN s[c].weight ELSE 0

\* The random values below the sum of the weights choose each record of the
\* class as often as its weight, and no other record.
LEMMA Shares ==
    ASSUME NEW s, Weighted(s), NEW n, n = Len(s), n # 0,
           \A i, j \in 1..n : i # j => s[i] # s[j],
           NEW attempts \in Nat \ {0},
           NEW pick, pick = 1 + ((attempts - 1) % n), NEW class, class = Class(s, pick),
           NEW sum, sum = WeightsUpTo(s, class, n)
    PROVE  Shared(s, n, attempts, pick, class, sum)
<1>1. n \in Nat /\ pick \in class /\ class \subseteq 1..n
  <2>1. PICK v \in Nat : v = 0
    OBVIOUS
  <2>2. pick \in Class(s, pick) /\ Class(s, pick) \subseteq 1..n
    BY <2>1, ChoiceIs
  <2> QED  BY <2>2 DEF Weighted
<1>2. PICK f \in [0..n -> Nat] : /\ Sums(f, s, class)
                                /\ \A i \in 0..n : WeightsUpTo(s, class, i) = f[i]
  <2>1. \E f \in [0..Len(s) -> Nat] : /\ Sums(f, s, class)
                                      /\ \A i \in 0..Len(s) : WeightsUpTo(s, class, i) = f[i]
    BY WeightLoop
  <2> QED  BY <2>1
<1>3. sum = f[n] /\ sum \in Nat /\ ByTurn(s, n, attempts, pick, class, f)
  BY <1>1, <1>2 DEF ByTurn, Summing
<1>4. sum = 0 => Choice(s, attempts, 0) = s[pick]
  <2>1. PICK v \in Nat : v = 0
    OBVIOUS
  <2>2. Chosen(s, n, attempts, pick, class, f, v)
    BY <1>3, <2>1, ChoiceSums
  <2> QED  BY <1>3, <2>1, <2>2 DEF Chosen
<1>5. ASSUME sum # 0, NEW v \in 0..(sum - 1)
      PROVE  \E c \in class : /\ Choice(s, attempts, v) = s[c]
                              /\ f[c - 1] <= v /\ v < f[c]
  <2>1. v \in Nat /\ v % sum = v
    BY <1>3, <1>5, Below
  <2>2. PICK c \in class : Choice(s, attempts, v) = s[c] /\ Hits(class, f, v % f[n], c)
    <3>1. f[n] # 0
      BY <1>3, <1>5
    <3>2. Chosen(s, n, attempts, pick, class, f, v)
      BY <1>3, <2>1, ChoiceSums
    <3> QED  BY <3>1, <3>2 DEF Chosen
  <2>3. f[c - 1] <= v /\ v < f[c]
    BY <1>1, <1>2, <1>3, <2>1, <2>2, HitsIs
  <2> QED  BY <2>2, <2>3
<1>6. ASSUME NEW i \in 1..n, NEW j \in 1..n, i < j
      PROVE  f[i] <= f[j - 1]
  <2>1. i \in 0..n /\ j - 1 \in 0..n /\ i <= j - 1
    BY <1>1, <1>6
  <2>2. Summing(s, n, class, f)
    BY <1>1, <1>2 DEF Summing
  <2> QED  BY <2>1, <2>2, SumsUp
<1>7. ASSUME sum # 0, NEW c \in 1..n, c \notin class
      PROVE  {v \in 0..(sum - 1) : Choice(s, attempts, v) = s[c]} = {}
  BY <1>1, <1>5, <1>7
<1>8. ASSUME sum # 0, NEW c \in class
      PROVE  {v \in 0..(sum - 1) : Choice(s, attempts, v) = s[c]} = f[c - 1]..(f[c] - 1)
  <2>1. c \in 1..n /\ c - 1 \in 0..n /\ f[c] \in Nat /\ f[c - 1] \in Nat
    BY <1>1
  <2>2. ASSUME NEW v \in 0..(sum - 1), Choice(s, attempts, v) = s[c]
        PROVE  v \in f[c - 1]..(f[c] - 1)
    <3>1. PICK d \in class : Choice(s, attempts, v) = s[d] /\ f[d - 1] <= v /\ v < f[d]
      BY <1>5, <1>8
    <3>2. d = c
      BY <1>1, <2>2, <3>1
    <3> QED  BY <1>3, <2>1, <3>1, <3>2
  <2>3. ASSUME NEW v \in f[c - 1]..(f[c] - 1)
        PROVE  v \in 0..(sum - 1) /\ Choice(s, attempts, v) = s[c]
    <3>1. f[c] <= sum
      <4>1. c \in 0..n /\ n \in 0..n /\ c <= n
        BY <1>1
      <4>2. Summing(s, n, class, f)
        BY <1>1, <1>2 DEF Summing
      <4>3. f[c] <= f[n]
        BY <4>1, <4>2, SumsUp
      <4> QED  BY <1>3, <4>3
    <3>2. v \in 0..(sum - 1)
      BY <1>3, <2>1, <2>3, <3>1
    <3>3. PICK d \in class : Choice(s, attempts, v) = s[d] /\ f[d - 1] <= v /\ v < f[d]
      BY <1>5, <1>8, <3>2
    <3>4. d \in 1..n /\ f[d] \in Nat /\ d - 1 \in 0..n /\ f[d - 1] \in Nat /\ v \in Nat
      <4>1. d \in 1..n /\ d - 1 \in 0..n
        BY <1>1
      <4>2. v \in Nat
        BY <1>3, <3>2
      <4>3. d \in 0..n /\ f \in [0..n -> Nat]
        BY <1>1, <1>2, <4>1
      <4>4. f[d] \in Nat /\ f[d - 1] \in Nat
        BY <4>1, <4>3
      <4> QED  BY <4>1, <4>2, <4>4
    <3>5. ~(d < c)
      BY <1>6, <2>1, <2>3, <3>3, <3>4
    <3>6. ~(c < d)
      BY <1>6, <2>1, <2>3, <3>3, <3>4
    <3>7. c = d
      BY <2>1, <3>4, <3>5, <3>6
    <3> QED  BY <3>2, <3>3, <3>7
  <2> QED  BY <2>2, <2>3
<1>9. ASSUME NEW c \in class
      PROVE  Cardinality(f[c - 1]..(f[c] - 1)) = s[c].weight
  <2>1. c \in 1..n /\ c - 1 \in 0..n /\ f[c] = f[c - 1] + s[c].weight /\ s[c].weight \in Nat
    BY <1>1, <1>2 DEF Sums, Weighted
  <2>2. PICK a \in Nat, w \in Nat : a = f[c - 1] /\ w = s[c].weight
    BY <2>1
  <2>3. f[c] - 1 = a + w - 1
    BY <2>1, <2>2
  <2>4. Cardinality(a..(a + w - 1)) = w
    <3>1. PICK b \in Int : b = a + w - 1
      OBVIOUS
    <3>2. Cardinality(a..b) = IF a > b THEN 0 ELSE b - a + 1
      BY FS_Interval
    <3>3. w = 0 <=> a > b
      BY <3>1
    <3>4. b - a + 1 = w
      BY <3>1
    <3> QED  BY <3>1, <3>2, <3>3, <3>4
  <2> QED  BY <2>2, <2>3, <2>4
<1>10. ASSUME sum # 0, NEW c \in 1..n
       PROVE  Cardinality({v \in 0..(sum - 1) : Choice(s, attempts, v) = s[c]})
                = IF c \in class THEN s[c].weight ELSE 0
  <2>1. CASE c \in class
    <3>1. {v \in 0..(sum - 1) : Choice(s, attempts, v) = s[c]} = f[c - 1]..(f[c] - 1)
      BY <1>8, <1>10, <2>1
    <3>2. Cardinality(f[c - 1]..(f[c] - 1)) = s[c].weight
      BY <1>9, <2>1
    <3> QED  BY <2>1, <3>1, <3>2
  <2>2. CASE c \notin class
    <3>1. {v \in 0..(sum - 1) : Choice(s, attempts, v) = s[c]} = {}
      BY <1>7, <1>10, <2>2
    <3> QED  BY <2>2, <3>1, FS_EmptySet
  <2> QED  BY <2>1, <2>2
<1> QED  BY <1>3, <1>4, <1>10 DEF Shared

ClassOf(turn) == {r \in zone : r.priority = turn.priority}
SumOf(s, class) == WeightsUpTo(s, {i \in 1..Len(s) : s[i] \in class}, Len(s))
ByWeight(s, attempts, turn, class, sum) ==
    IF sum = 0 THEN Choice(s, attempts, 0) = turn
    ELSE \A r \in zone :
           Cardinality({v \in 0..(sum - 1) : Choice(s, attempts, v) = r})
             = IF r \in class THEN r.weight ELSE 0
Fair(s, attempts) ==
    LET turn == s[1 + ((attempts - 1) % Len(s))]
    IN ByWeight(s, attempts, turn, ClassOf(turn), SumOf(s, ClassOf(turn)))

LEMMA LoadIsShared ==
    ASSUME zone \in Zones, dns.picks \in Seq(zone \cup {NoPick}), Len(dns.picks) > 0
    PROVE  Proportional
<1>1. PICK n : n = Cardinality(zone)
  OBVIOUS
<1>2. n \in Nat \ {0} /\ Prioritised(zone) /\ IsFiniteSet(zone)
  BY <1>1, ZoneIs DEF Prioritised
<1>3. PICK attempts \in Nat \ {0} : attempts = Len(dns.picks)
  OBVIOUS
<1> SUFFICES ASSUME NEW order \in SetToSeqs(zone), NEW s, s = Sorted(order)
             PROVE  Fair(s, attempts)
  <2>1. (\A order \in SetToSeqs(zone) : Fair(Sorted(order), Len(dns.picks))) => Proportional
    BY DEF Proportional, Fair, ByWeight, ClassOf, SumOf
  <2> QED  BY <1>3, <2>1
<1>4. s \in SetToSeqs(zone) /\ Ahead(s, n)
  BY <1>1, <1>2, SortedOrders
<1>5. Len(s) = n /\ s \in [1..n -> zone] /\ \A i, j \in 1..n : i # j => s[i] # s[j]
  BY <1>1, <1>2, <1>4, Orders
<1>6. Weighted(s) /\ \A k \in 1..n : s[k].priority \in Nat
  BY <1>2, <1>5, DnsAssumption DEF Weighted
<1>7. PICK pick \in 1..n : pick = 1 + ((attempts - 1) % n)
  BY <1>2
<1>8. PICK class : class = ClassOf(s[pick])
  OBVIOUS
<1>9. Class(s, pick) = {i \in 1..Len(s) : s[i] \in class}
  <2>1. Class(s, pick) = {i \in 1..n : s[i].priority = s[pick].priority}
    BY <1>2, <1>4, <1>5, <1>6, <1>7, ClassIs
  <2> QED  BY <1>5, <1>8, <2>1 DEF ClassOf
<1>10. PICK sum : sum = SumOf(s, class)
  OBVIOUS
<1>11. sum = WeightsUpTo(s, Class(s, pick), n)
  BY <1>5, <1>9, <1>10 DEF SumOf
<1>12. Shared(s, n, attempts, pick, Class(s, pick), sum)
  <2>1. PICK places : places = Class(s, pick)
    OBVIOUS
  <2>2. n = Len(s) /\ n # 0 /\ sum = WeightsUpTo(s, places, n)
    BY <1>2, <1>5, <1>11, <2>1
  <2> QED  BY <1>5, <1>6, <1>7, <2>1, <2>2, Shares
<1>13. ASSUME sum # 0, NEW r \in zone
       PROVE  Cardinality({v \in 0..(sum - 1) : Choice(s, attempts, v) = r})
                = IF r \in class THEN r.weight ELSE 0
  <2>1. PICK c \in 1..n : s[c] = r
    BY <1>1, <1>2, <1>4, OrderCovers
  <2>2. c \in Class(s, pick) <=> r \in class
    BY <1>5, <1>9, <2>1
  <2> QED  BY <1>12, <1>13, <2>1, <2>2 DEF Shared
<1>14. s[1 + ((attempts - 1) % Len(s))] = s[pick]
  BY <1>5, <1>7
<1>15. CASE sum = 0
  <2>1. Choice(s, attempts, 0) = s[pick]
    BY <1>12, <1>15 DEF Shared
  <2> QED  BY <1>8, <1>10, <1>14, <1>15, <2>1 DEF Fair, ByWeight
<1>16. CASE sum # 0
  <2>1. ByWeight(s, attempts, s[pick], class, sum)
    BY <1>13, <1>16 DEF ByWeight
  <2> QED  BY <1>8, <1>10, <1>14, <2>1 DEF Fair
<1> QED  BY <1>15, <1>16

\* Of as many successive attempts as there are SRV records, every priority is
\* tried as often as it has records, in whatever order and however often the
\* resolver lists them, and the random value shares the load of a priority by
\* weight.
THEOREM FailoverReaches == DnsSpec => []FailoverReachesAll
<1>1. ASSUME DiscoveryInv
      PROVE  FailoverReachesAll
  <2> DEFINE n      == Cardinality(zone)
             window == {i \in DOMAIN dns.picks : i > Len(dns.picks) - n}
  <2>1. zone \in Zones /\ InTurn /\ dns.picks \in Seq(zone \cup {NoPick})
    BY <1>1 DEF DiscoveryInv, Discoveries
  <2>2. ASSUME Len(dns.picks) >= n, \A i \in window : dns.picks[i] # NoPick, NEW p
        PROVE  Cardinality({i \in window : dns.picks[i].priority = p})
                 = Cardinality({r \in zone : r.priority = p})
    <3>1. PICK m, L, W : m = n /\ L = Len(dns.picks) /\ W = window
      OBVIOUS
    <3>2. m = Cardinality(zone) /\ L >= m /\ Recent(W, m)
      BY <2>2, <3>1 DEF Recent
    <3>3. Counted(W, p)
      BY <2>1, <3>1, <3>2, WindowCounts
    <3> QED  BY <3>1, <3>3 DEF Counted
  <2>3. dns.stage = "srv" => Proportional
    BY <1>1, <2>1, LoadIsShared DEF DiscoveryInv
  <2> QED  BY <2>2, <2>3 DEF FailoverReachesAll
<1> QED  BY <1>1, DiscoveryInvariance, PTL

-----------------------------------------------------------------------------
(* Frames: the numbers of a segment table.                                 *)

LEMMA Times ==
    ASSUME NEW x \in Nat, NEW a \in Nat, NEW b \in Nat, a <= b
    PROVE  x * a \in Nat /\ x * a <= x * b
<1>1. PICK d \in Nat : d = b - a
  OBVIOUS
<1>2. x * d \in Nat /\ x * a \in Nat
  OBVIOUS
<1>3. x * b = x * a + x * d
  BY <1>1
<1> QED  BY <1>2, <1>3

LEMMA Fits ==
    ASSUME NEW x \in Nat, NEW w \in Nat \ {0}, NEW e \in Nat
    PROVE  e > x \div w <=> e * w > x
<1>1. PICK q \in Nat, r \in Nat : q = x \div w /\ r = x % w
  OBVIOUS
<1>2. x = w * q + r /\ r < w
  BY <1>1
<1>3. ASSUME e > q PROVE e * w > x
  <2>1. q + 1 <= e
    BY <1>3
  <2>2. w * (q + 1) <= w * e
    BY <2>1, Times
  <2>3. w * (q + 1) = w * q + w /\ w * e = e * w
    OBVIOUS
  <2>4. w * q \in Nat /\ e * w \in Nat
    OBVIOUS
  <2> QED  BY <1>2, <2>2, <2>3, <2>4
<1>4. ASSUME e <= q PROVE ~(e * w > x)
  <2>1. w * e <= w * q
    BY <1>4, Times
  <2>2. w * e = e * w /\ w * q \in Nat /\ e * w \in Nat
    OBVIOUS
  <2> QED  BY <1>2, <2>1, <2>2
<1> QED  BY <1>1, <1>3, <1>4

\* A table holds its entries, and at least a word.
LEMMA Units ==
    ASSUME NEW n \in Nat
    PROVE  /\ U \in Nat \ {0} /\ Word \in Nat \ {0} /\ U < Word
           /\ table_size(n) \in Nat /\ table_size(n) = Header(n) /\ Word <= table_size(n)
           /\ \A i \in 0..n : U * (i + 1) \in Nat /\ U * (i + 1) <= table_size(n)
<1>1. U \in Nat \ {0} /\ Word = 2 * U
  BY FramerAssumption DEF Word
<1>2. PICK h \in Nat : h = (n + 2) \div 2
  OBVIOUS
<1>3. h >= 1 /\ n + 1 <= 2 * h /\ 2 * h = (n + 1) + ((n + 1) % 2)
  BY <1>2
<1>4. table_size(n) = U * (2 * h)
  BY <1>1, <1>2 DEF table_size
<1>5. Header(n) = U * (2 * h)
  BY <1>3 DEF Header
<1>6. PICK H \in Nat : H = 2 * h
  OBVIOUS
<1>7. \A a \in Nat : a <= H => U * a \in Nat /\ U * a <= U * H
  BY <1>1, Times
<1>8. U * H \in Nat /\ table_size(n) = U * H
  BY <1>1, <1>4, <1>6
<1>9. Word <= table_size(n)
  <2>1. 2 <= H /\ U * 2 = Word
    BY <1>1, <1>3, <1>6
  <2> QED  BY <1>7, <1>8, <2>1
<1>10. ASSUME NEW i \in 0..n
       PROVE  U * (i + 1) \in Nat /\ U * (i + 1) <= table_size(n)
  <2>1. i + 1 \in Nat /\ i + 1 <= H
    BY <1>3, <1>6
  <2> QED  BY <1>7, <1>8, <2>1
<1> QED  BY <1>1, <1>5, <1>6, <1>8, <1>9, <1>10

LEMMA Bytes == Byte \subseteq Nat
  BY DEF Byte

LEMMA ValueNat ==
    ASSUME NEW p \in Seq(Byte)
    PROVE  Value(p) \in Nat
<1>1. PICK n \in Nat : n = Len(p)
  OBVIOUS
<1> DEFINE Step(v, i) == p[Len(p) + 1 - i] + 256 * v
           Is(g) == g = [i \in 0..Len(p) |-> IF i = 0 THEN 0 ELSE Step(g[i - 1], i)]
<1>2. \A i \in 1..n, v \in Nat : Step(v, i) \in Nat
  <2> TAKE i \in 1..n, v \in Nat
  <2>1. Len(p) + 1 - i \in 1..Len(p)
    BY <1>1
  <2>2. p[Len(p) + 1 - i] \in Byte
    BY <2>1
  <2>3. p[Len(p) + 1 - i] \in Nat
    BY <2>2, Bytes
  <2> QED  BY <2>3
<1>3. \E g \in [0..n -> Nat] : Is(g)
  <2> DEFINE G == [k \in 1..n |-> [v \in Nat |-> Step(v, k)]]
  <2>1. G \in [1..n -> [Nat -> Nat]]
    <3> HIDE DEF Step
    <3> QED  BY <1>2
  <2>2. PICK g \in [0..n -> Nat] : Rounds(g, n, 0, G)
    <3> HIDE DEF G
    <3> QED  BY <2>1, LoopExists
  <2>3. \A k \in 0..n : g[k] = IF k = 0 THEN 0 ELSE Step(g[k - 1], k)
    <3> TAKE k \in 0..n
    <3>1. k # 0 => k \in 1..n /\ k - 1 \in 0..n
      OBVIOUS
    <3> HIDE DEF Step
    <3> QED  BY <3>1, <2>2 DEF Rounds
  <2> HIDE DEF Step
  <2>4. Is(g)
    BY <1>1, <2>3
  <2> QED  BY <2>4
<1>4. PICK f : f = CHOOSE g : Is(g)
  OBVIOUS
<1>5. Is(f)
  <2> HIDE DEF Is
  <2> QED  BY <1>3, <1>4
<1>6. Value(p) = f[n]
  BY <1>1, <1>4 DEF Value
<1>7. f[0] = 0 /\ \A k \in 1..n : f[k] = Step(f[k - 1], k)
  <2> HIDE DEF Step
  <2> QED  BY <1>1, <1>5
<1> DEFINE P == {k \in 0..n : f[k] \in Nat}
<1>8. 0..n \subseteq P
  <2>1. 0 \in P
    BY <1>7
  <2>2. ASSUME NEW k \in 1..n, k - 1 \in P PROVE k \in P
    <3> HIDE DEF Step
    <3>1. f[k - 1] \in Nat
      BY <2>2
    <3>2. f[k] \in Nat
      BY <1>2, <1>7, <3>1
    <3> QED  BY <3>2
  <2> HIDE DEF P
  <2> QED  BY <2>1, <2>2, LoopInduct
<1> QED  BY <1>6, <1>8

\* The bytes of s after the first a, up to byte b.
Slice(s, a, b) == SubSeq(s, a + 1, b)

LEMMA SliceIs ==
    ASSUME NEW S, NEW s \in Seq(S), NEW a \in Nat, NEW b \in Nat, a <= b, b <= Len(s)
    PROVE  /\ Slice(s, a, b) \in Seq(S)
           /\ Len(Slice(s, a, b)) = b - a
           /\ \A k \in 1..(b - a) : Slice(s, a, b)[k] = s[a + k]
<1>1. a + 1 \in Int /\ b \in Int /\ \A i \in (a + 1)..b : s[i] \in S
  <2>1. \A i \in (a + 1)..b : i \in 1..Len(s)
    OBVIOUS
  <2> QED  BY <2>1
<1>2. PICK c \in Int : c = a + 1
  OBVIOUS
<1>3. /\ SubSeq(s, c, b) \in Seq(S)
      /\ Len(SubSeq(s, c, b)) = IF c <= b THEN b - c + 1 ELSE 0
      /\ \A i \in 1..(b - c + 1) : SubSeq(s, c, b)[i] = s[c + i - 1]
  BY <1>1, <1>2, SubSeqProperties
<1>4. b - c + 1 = b - a /\ \A i \in 1..(b - a) : c + i - 1 = a + i
  BY <1>2
<1>5. c <= b \/ (b - a = 0 /\ ~(c <= b))
  BY <1>2
<1>6. Slice(s, a, b) = SubSeq(s, c, b)
  BY <1>2 DEF Slice
<1>7. Len(SubSeq(s, c, b)) = b - a
  BY <1>3, <1>4, <1>5
<1>8. \A i \in 1..(b - a) : SubSeq(s, c, b)[i] = s[a + i]
  BY <1>3, <1>4
<1> QED  BY <1>3, <1>6, <1>7, <1>8

IsSlice(p, s, a, b) == /\ p \in Seq(Byte) /\ Len(p) = b - a
                       /\ \A k \in 1..(b - a) : p[k] = s[a + k]

LEMMA ByteSlice ==
    ASSUME NEW s \in Seq(Byte), NEW a \in Nat, NEW b \in Nat, a <= b, b <= Len(s)
    PROVE  IsSlice(Slice(s, a, b), s, a, b)
  BY SliceIs DEF IsSlice

\* p starts with q.
Starts(p, q) == Len(q) <= Len(p) /\ \A k \in 1..Len(q) : p[k] = q[k]

LEMMA EntryIs ==
    ASSUME NEW p \in Seq(Byte), NEW i \in Nat, U * (i + 1) <= Len(p)
    PROVE  /\ Entry(p, i) \in Nat
           /\ \A q \in Seq(Byte) : Starts(q, p) => Entry(q, i) = Entry(p, i)
<1>1. PICK a \in Nat, b \in Nat : a = U * i /\ b = U * (i + 1)
  BY FramerAssumption
<1>2. a <= b /\ b <= Len(p)
  <2>1. U * (i + 1) = U * i + U
    BY FramerAssumption
  <2> QED  BY <1>1, <2>1, FramerAssumption
<1>3. \A q : Entry(q, i) = Value(Slice(q, a, b))
  BY <1>1 DEF Entry, Slice
<1>4. /\ Slice(p, a, b) \in Seq(Byte) /\ Len(Slice(p, a, b)) = b - a
      /\ \A k \in 1..(b - a) : Slice(p, a, b)[k] = p[a + k]
  BY <1>2, SliceIs
<1>5. ASSUME NEW q \in Seq(Byte), Starts(q, p)
      PROVE  Slice(q, a, b) = Slice(p, a, b)
  <2>1. b <= Len(q)
    BY <1>2, <1>5 DEF Starts
  <2>2. /\ Slice(q, a, b) \in Seq(Byte) /\ Len(Slice(q, a, b)) = b - a
        /\ \A k \in 1..(b - a) : Slice(q, a, b)[k] = q[a + k]
    BY <1>2, <2>1, SliceIs
  <2>3. \A k \in 1..(b - a) : q[a + k] = p[a + k]
    <3> TAKE k \in 1..(b - a)
    <3>1. a + k \in 1..Len(p)
      BY <1>1, <1>2
    <3> QED  BY <1>5, <3>1 DEF Starts
  <2>4. \A k \in 1..Len(Slice(q, a, b)) : Slice(q, a, b)[k] = Slice(p, a, b)[k]
    BY <1>4, <2>2, <2>3
  <2> QED  BY <1>4, <2>2, <2>4, SeqEqual
<1>6. Entry(p, i) \in Nat
  BY <1>3, <1>4, ValueNat
<1>7. \A q \in Seq(Byte) : Starts(q, p) => Entry(q, i) = Entry(p, i)
  BY <1>3, <1>5
<1> QED  BY <1>6, <1>7


-----------------------------------------------------------------------------
(* Frames: where the segments lie.                                         *)

\* p holds the table of a frame of n segments.
Tabled(p, n) == p \in Seq(Byte) /\ n \in Nat \ {0} /\ table_size(n) <= Len(p)

LEMMA TabledEntries ==
    ASSUME NEW p, NEW n, Tabled(p, n)
    PROVE  \A i \in 0..n : Entry(p, i) \in Nat
<1> TAKE i \in 0..n
<1>1. i \in Nat /\ n \in Nat /\ p \in Seq(Byte) /\ Len(p) \in Nat
  BY DEF Tabled
<1>2. U * (i + 1) \in Nat /\ U * (i + 1) <= table_size(n) /\ table_size(n) \in Nat
  BY <1>1, Units
<1>3. U * (i + 1) <= Len(p)
  BY <1>1, <1>2 DEF Tabled
<1> QED  BY <1>1, <1>3, EntryIs

Offsets(f, p, n) ==
    /\ f \in [0..n -> Nat]
    /\ f[0] = table_size(n)
    /\ \A i \in 1..n : f[i] = f[i - 1] + Entry(p, i) * Word

LEMMA OffsetLoop ==
    ASSUME NEW p, NEW n, Tabled(p, n)
    PROVE  \E f : Offsets(f, p, n) /\ \A k \in 1..(n + 1) : Offset(p, n, k) = f[k - 1]
<1>1. n \in Nat /\ table_size(n) \in Nat /\ Word \in Nat
  BY Units DEF Tabled
<1> DEFINE Step(v, i) == v + Entry(p, i) * Word
           Is(g) == g = [i \in 0..n |-> IF i = 0 THEN table_size(n) ELSE Step(g[i - 1], i)]
<1>2. \A i \in 1..n, v \in Nat : Step(v, i) \in Nat
  <2> TAKE i \in 1..n, v \in Nat
  <2>1. Entry(p, i) \in Nat
    BY <1>1, TabledEntries
  <2> QED  BY <1>1, <2>1
<1>3. \E g \in [0..n -> Nat] : Is(g)
  <2> DEFINE G == [k \in 1..n |-> [v \in Nat |-> Step(v, k)]]
  <2>1. G \in [1..n -> [Nat -> Nat]]
    <3> HIDE DEF Step
    <3> QED  BY <1>2
  <2>2. PICK g \in [0..n -> Nat] : Rounds(g, n, table_size(n), G)
    <3> HIDE DEF G
    <3> QED  BY <1>1, <2>1, LoopExists
  <2>3. \A k \in 0..n : g[k] = IF k = 0 THEN table_size(n) ELSE Step(g[k - 1], k)
    <3> TAKE k \in 0..n
    <3>1. k # 0 => k \in 1..n /\ k - 1 \in 0..n
      BY <1>1
    <3> HIDE DEF Step
    <3> QED  BY <3>1, <2>2 DEF Rounds
  <2> HIDE DEF Step
  <2>4. Is(g)
    BY <2>3
  <2> QED  BY <2>4
<1>4. PICK f : f = CHOOSE g : Is(g)
  OBVIOUS
<1>5. Is(f)
  <2> HIDE DEF Is
  <2> QED  BY <1>3, <1>4
<1>6. \A k : Offset(p, n, k) = f[k - 1]
  BY <1>4 DEF Offset
<1>7. f[0] = table_size(n) /\ \A k \in 1..n : f[k] = Step(f[k - 1], k)
  <2> HIDE DEF Step
  <2> QED  BY <1>1, <1>5
<1> DEFINE P == {k \in 0..n : f[k] \in Nat}
<1>8. 0..n \subseteq P
  <2>1. 0 \in P
    BY <1>1, <1>7
  <2>2. ASSUME NEW k \in 1..n, k - 1 \in P PROVE k \in P
    <3> HIDE DEF Step
    <3>1. f[k - 1] \in Nat
      BY <2>2
    <3>2. f[k] \in Nat
      BY <1>2, <1>7, <3>1
    <3> QED  BY <1>1, <3>2
  <2> HIDE DEF P
  <2> QED  BY <1>1, <2>1, <2>2, LoopInduct
<1>9. f \in [0..n -> Nat]
  <2> HIDE DEF Step
  <2> QED  BY <1>5, <1>8
<1> QED  BY <1>6, <1>7, <1>9 DEF Offsets

Counts(g, p, n) ==
    /\ g \in [0..n -> Nat]
    /\ g[0] = 0
    /\ \A i \in 1..n : g[i] = g[i - 1] + Entry(p, i)

LEMMA WordLoop ==
    ASSUME NEW p, NEW n, Tabled(p, n)
    PROVE  \E g : Counts(g, p, n) /\ BodyWords(p, n) = g[n]
<1>1. n \in Nat
  BY DEF Tabled
<1> DEFINE Step(v, i) == v + Entry(p, i)
           Is(g) == g = [i \in 0..n |-> IF i = 0 THEN 0 ELSE Step(g[i - 1], i)]
<1>2. \A i \in 1..n, v \in Nat : Step(v, i) \in Nat
  <2> TAKE i \in 1..n, v \in Nat
  <2>1. Entry(p, i) \in Nat
    BY <1>1, TabledEntries
  <2> QED  BY <2>1
<1>3. \E g \in [0..n -> Nat] : Is(g)
  <2> DEFINE G == [k \in 1..n |-> [v \in Nat |-> Step(v, k)]]
  <2>1. G \in [1..n -> [Nat -> Nat]]
    <3> HIDE DEF Step
    <3> QED  BY <1>2
  <2>2. PICK g \in [0..n -> Nat] : Rounds(g, n, 0, G)
    <3> HIDE DEF G
    <3> QED  BY <1>1, <2>1, LoopExists
  <2>3. \A k \in 0..n : g[k] = IF k = 0 THEN 0 ELSE Step(g[k - 1], k)
    <3> TAKE k \in 0..n
    <3>1. k # 0 => k \in 1..n /\ k - 1 \in 0..n
      BY <1>1
    <3> HIDE DEF Step
    <3> QED  BY <3>1, <2>2 DEF Rounds
  <2> HIDE DEF Step
  <2>4. Is(g)
    BY <2>3
  <2> QED  BY <2>4
<1>4. PICK f : f = CHOOSE g : Is(g)
  OBVIOUS
<1>5. Is(f)
  <2> HIDE DEF Is
  <2> QED  BY <1>3, <1>4
<1>6. BodyWords(p, n) = f[n]
  BY <1>4 DEF BodyWords
<1>7. f[0] = 0 /\ \A k \in 1..n : f[k] = Step(f[k - 1], k)
  <2> HIDE DEF Step
  <2> QED  BY <1>1, <1>5
<1> DEFINE P == {k \in 0..n : f[k] \in Nat}
<1>8. 0..n \subseteq P
  <2>1. 0 \in P
    BY <1>1, <1>7
  <2>2. ASSUME NEW k \in 1..n, k - 1 \in P PROVE k \in P
    <3> HIDE DEF Step
    <3>1. f[k - 1] \in Nat
      BY <2>2
    <3>2. f[k] \in Nat
      BY <1>2, <1>7, <3>1
    <3> QED  BY <1>1, <3>2
  <2> HIDE DEF P
  <2> QED  BY <1>1, <2>1, <2>2, LoopInduct
<1>9. f \in [0..n -> Nat]
  <2> HIDE DEF Step
  <2> QED  BY <1>5, <1>8
<1> QED  BY <1>6, <1>7, <1>9 DEF Counts

\* Offsets grow.
LEMMA OffsetsGrow ==
    ASSUME NEW p, NEW n, Tabled(p, n), NEW f, Offsets(f, p, n), NEW i \in 0..n
    PROVE  \A j \in 0..n : i <= j => f[i] <= f[j]
<1>1. n \in Nat /\ Word \in Nat
  BY Units DEF Tabled
<1>2. f \in [0..n -> Nat] /\ \A j \in 1..n : f[j] = f[j - 1] + Entry(p, j) * Word
  BY DEF Offsets
<1>3. \A j \in 1..n : f[j - 1] <= f[j]
  <2> TAKE j \in 1..n
  <2>1. Entry(p, j) \in Nat
    BY <1>1, TabledEntries
  <2>2. Entry(p, j) * Word \in Nat /\ f[j - 1] \in Nat
    BY <1>1, <1>2, <2>1
  <2> QED  BY <1>2, <2>2
<1> DEFINE P == {j \in 0..n : i <= j => f[i] <= f[j]}
<1>4. 0 \in P
  BY <1>1, <1>2
<1>5. ASSUME NEW j \in 1..n, j - 1 \in P PROVE j \in P
  <2>1. f[i] \in Nat /\ f[j] \in Nat /\ f[j - 1] \in Nat /\ f[j - 1] <= f[j]
    BY <1>1, <1>2, <1>3
  <2>2. CASE i = j
    BY <1>1, <2>1, <2>2
  <2>3. CASE i # j
    BY <1>1, <1>5, <2>1, <2>3
  <2> QED  BY <2>2, <2>3
<1>6. 0..n \subseteq P
  <2> HIDE DEF P
  <2> QED  BY <1>1, <1>4, <1>5, LoopInduct
<1> QED  BY <1>6

\* The size of a frame by the words of its segments is the offset of its end.
LEMMA SizeIs ==
    ASSUME NEW p, NEW n, Tabled(p, n), n = SegmentCount(p), NEW f, Offsets(f, p, n)
    PROVE  Size(p) = f[n]
<1>1. n \in Nat /\ Word \in Nat /\ table_size(n) \in Nat /\ table_size(n) = Header(n)
  BY Units DEF Tabled
<1>2. PICK g : Counts(g, p, n) /\ BodyWords(p, n) = g[n]
  BY WordLoop
<1>3. f \in [0..n -> Nat] /\ f[0] = table_size(n) /\ \A j \in 1..n : f[j] = f[j - 1] + Entry(p, j) * Word
  BY DEF Offsets
<1>4. g \in [0..n -> Nat] /\ g[0] = 0 /\ \A j \in 1..n : g[j] = g[j - 1] + Entry(p, j)
  BY <1>2 DEF Counts
<1> DEFINE P == {j \in 0..n : f[j] = table_size(n) + Word * g[j]}
<1>5. 0 \in P
  BY <1>1, <1>3, <1>4
<1>6. ASSUME NEW j \in 1..n, j - 1 \in P PROVE j \in P
  <2>1. PICK e \in Nat : e = Entry(p, j)
    BY <1>1, TabledEntries
  <2>2. PICK c \in Nat : c = g[j - 1]
    BY <1>1, <1>4
  <2>3. g[j] = c + e /\ f[j] = f[j - 1] + e * Word
    BY <1>3, <1>4, <2>1, <2>2
  <2>4. f[j - 1] = table_size(n) + Word * c
    BY <1>6, <2>2
  <2>5. Word * (c + e) = Word * c + e * Word /\ Word * c \in Nat /\ e * Word \in Nat
    BY <1>1
  <2> QED  BY <1>1, <2>3, <2>4, <2>5
<1>7. 0..n \subseteq P
  <2> HIDE DEF P
  <2> QED  BY <1>1, <1>5, <1>6, LoopInduct
<1>8. f[n] = table_size(n) + Word * g[n]
  BY <1>1, <1>7
<1> QED  BY <1>1, <1>2, <1>8 DEF Size

\* A frame whose first segment is not empty is larger than its table.
LEMMA SizeAbove ==
    ASSUME NEW p, NEW n, Tabled(p, n), NEW f, Offsets(f, p, n), Entry(p, 1) # 0
    PROVE  table_size(n) < f[n]
<1>1. n \in Nat \ {0} /\ Word \in Nat \ {0} /\ table_size(n) \in Nat
  BY Units DEF Tabled
<1>2. PICK e \in Nat \ {0} : e = Entry(p, 1)
  BY <1>1, TabledEntries
<1>3. /\ f \in [0..n -> Nat] /\ f[0] = table_size(n)
      /\ \A i \in 1..n : f[i] = f[i - 1] + Entry(p, i) * Word
  BY DEF Offsets
<1>4. f[1] = f[0] + e * Word
  <2>1. 1 \in 1..n /\ 1 - 1 = 0
    BY <1>1
  <2> QED  BY <1>2, <1>3, <2>1
<1>5. e * Word > 0
  BY <1>1, <1>2
<1>6. f[1] <= f[n]
  <2>1. 1 \in 0..n /\ n \in 0..n /\ 1 <= n
    BY <1>1
  <2> QED  BY <2>1, OffsetsGrow
<1>7. f[1] \in Nat /\ f[n] \in Nat /\ e * Word \in Nat
  BY <1>1, <1>2, <1>3
<1> QED  BY <1>1, <1>3, <1>4, <1>5, <1>6, <1>7

\* total_size compares each segment with what is left of cap, and so finds out
\* whether the end of the frame exceeds it.
LEMMA TotalSize ==
    ASSUME NEW p, NEW n, Tabled(p, n), NEW f, Offsets(f, p, n),
           \A k \in 1..(n + 1) : Offset(p, n, k) = f[k - 1],
           NEW cap \in Nat, table_size(n) <= cap
    PROVE  total_size(p, n, cap) = IF Entry(p, 1) = 0 THEN Result("FORMAT", 0)
                                   ELSE IF f[n] > cap THEN Result("LIMIT", 0)
                                   ELSE Result("OK", f[n])
<1>1. n \in Nat \ {0} /\ Word \in Nat \ {0} /\ table_size(n) \in Nat
  BY Units DEF Tabled
<1>2. /\ f \in [0..n -> Nat] /\ f[0] = table_size(n)
      /\ \A i \in 1..n : f[i] = f[i - 1] + Entry(p, i) * Word
  BY DEF Offsets
<1>3. Offset(p, n, n + 1) = f[n] /\ \A i \in 1..n : Offset(p, n, i) = f[i - 1]
  <2>1. n + 1 \in 1..(n + 1) /\ (n + 1) - 1 = n /\ \A i \in 1..n : i \in 1..(n + 1)
    BY <1>1
  <2> QED  BY <2>1
<1> DEFINE Over(i) == Entry(p, i) > (cap - f[i - 1]) \div Word
<1>4. ASSUME NEW i \in 1..n, f[i - 1] <= cap
      PROVE  Over(i) <=> f[i] > cap
  <2>1. PICK e \in Nat : e = Entry(p, i)
    BY <1>1, TabledEntries
  <2>2. PICK a \in Nat : a = f[i - 1]
    BY <1>1, <1>2
  <2>3. cap - a \in Nat
    BY <1>4, <2>2
  <2>4. e > (cap - a) \div Word <=> e * Word > cap - a
    BY <1>1, <2>3, Fits
  <2>5. f[i] = a + e * Word /\ e * Word \in Nat
    BY <1>1, <1>2, <2>1, <2>2
  <2>6. f[i] > cap <=> e * Word > cap - a
    BY <2>5
  <2> QED  BY <2>1, <2>2, <2>4, <2>6
<1>5. ASSUME NEW i \in 1..n, Over(i)
      PROVE  f[n] > cap
  <2>1. i - 1 \in 0..n /\ i \in 0..n /\ n \in 0..n /\ i - 1 <= n /\ i <= n
    BY <1>1
  <2>2. f[i - 1] <= f[n] /\ f[i] <= f[n]
    BY <2>1, OffsetsGrow
  <2>3. f[i - 1] \in Nat /\ f[i] \in Nat /\ f[n] \in Nat
    BY <1>2, <2>1
  <2> HIDE DEF Over
  <2>4. CASE f[i - 1] <= cap
    BY <1>4, <1>5, <2>2, <2>3, <2>4
  <2>5. CASE ~(f[i - 1] <= cap)
    BY <2>2, <2>3, <2>5
  <2> QED  BY <2>4, <2>5
<1>6. ASSUME \A i \in 1..n : ~Over(i)
      PROVE  ~(f[n] > cap)
  <2> HIDE DEF Over
  <2> DEFINE P == {i \in 0..n : f[i] <= cap}
  <2>1. 0 \in P
    BY <1>1, <1>2
  <2>2. ASSUME NEW i \in 1..n, i - 1 \in P PROVE i \in P
    <3>1. f[i - 1] <= cap /\ f[i] \in Nat /\ i \in 0..n
      BY <1>1, <1>2, <2>2
    <3>2. ~(f[i] > cap)
      BY <1>4, <1>6, <3>1
    <3> QED  BY <3>1, <3>2
  <2>3. 0..n \subseteq P
    <3> HIDE DEF P
    <3> QED  BY <1>1, <2>1, <2>2, LoopInduct
  <2>4. f[n] <= cap /\ f[n] \in Nat
    BY <1>1, <1>2, <2>3
  <2> QED  BY <2>4
<1>7. (\E i \in 1..n : Entry(p, i) > (cap - Offset(p, n, i)) \div Word) <=> f[n] > cap
  <2>1. (\E i \in 1..n : Over(i)) <=> f[n] > cap
    <3> HIDE DEF Over
    <3> QED  BY <1>5, <1>6
  <2>2. \A i \in 1..n : Entry(p, i) > (cap - Offset(p, n, i)) \div Word <=> Over(i)
    BY <1>3
  <2> HIDE DEF Over
  <2> QED  BY <2>1, <2>2
<1>8. ~(table_size(n) > cap)
  BY <1>1
<1> QED  BY <1>3, <1>7, <1>8 DEF total_size


-----------------------------------------------------------------------------
(* Frames: what a complete one is.                                         *)

LEMMA SliceJoin ==
    ASSUME NEW S, NEW s \in Seq(S), NEW a \in Nat, NEW b \in Nat, NEW c \in Nat,
           a <= b, b <= c, c <= Len(s)
    PROVE  Slice(s, a, b) \o Slice(s, b, c) = Slice(s, a, c)
<1>1. PICK m \in 1..(Len(s) + 1) : m = a + 1
  OBVIOUS
<1>2. b \in (m - 1)..Len(s) /\ c \in b..Len(s)
  BY <1>1
<1>3. SubSeq(s, m, b) \o SubSeq(s, b + 1, c) = SubSeq(s, m, c)
  BY <1>1, <1>2, ConcatAdjacentSubSeq
<1> QED  BY <1>1, <1>3 DEF Slice

LEMMA Limits ==
    /\ U \in Nat \ {0} /\ Capacity \in Nat /\ MessageMax \in Nat /\ MaxSegments \in Nat \ {0}
    /\ Capacity <= MessageMax /\ 2 * Word <= Capacity
<1>1. /\ U \in Nat \ {0} /\ MaxSegments \in Nat \ {0} /\ MessageMax \in Nat
      /\ Capacity \in (2 * Word)..MessageMax
  BY FramerAssumption
<1>2. Word \in Nat \ {0}
  BY <1>1 DEF Word
<1> QED  BY <1>1, <1>2

LEMMA CountIs ==
    ASSUME NEW q \in Seq(Byte), Len(q) >= U
    PROVE  /\ SegmentCount(q) \in Nat \ {0}
           /\ \A p \in Seq(Byte) : Starts(p, q) => SegmentCount(p) = SegmentCount(q)
<1>1. U * (0 + 1) <= Len(q) /\ 0 \in Nat
  BY FramerAssumption
<1>2. PICK i \in Nat : i = 0 /\ U * (i + 1) <= Len(q)
  BY <1>1
<1>3. /\ Entry(q, i) \in Nat
      /\ \A p \in Seq(Byte) : Starts(p, q) => Entry(p, i) = Entry(q, i)
  BY <1>2, EntryIs
<1> QED  BY <1>2, <1>3 DEF SegmentCount

\* The table decides the size, whatever follows it.
LEMMA TableDecides ==
    ASSUME NEW q, NEW n, Tabled(q, n), n = SegmentCount(q), NEW p \in Seq(Byte), Starts(p, q)
    PROVE  /\ Tabled(p, n) /\ n = SegmentCount(p)
           /\ Entry(p, 1) = Entry(q, 1)
           /\ Size(p) = Size(q) /\ Size(q) \in Nat
<1>1. n \in Nat \ {0} /\ q \in Seq(Byte) /\ table_size(n) <= Len(q) /\ table_size(n) \in Nat
  BY Units DEF Tabled
<1>2. Tabled(p, n)
  BY <1>1 DEF Tabled, Starts
<1>3. \A i \in 0..n : Entry(p, i) = Entry(q, i)
  <2> TAKE i \in 0..n
  <2>1. U * (i + 1) \in Nat /\ U * (i + 1) <= table_size(n)
    BY <1>1, Units
  <2>2. i \in Nat /\ U * (i + 1) <= Len(q)
    BY <1>1, <2>1
  <2> QED  BY <1>1, <2>2, EntryIs
<1>4. n = SegmentCount(p)
  BY <1>1, <1>3 DEF SegmentCount
<1>5. PICK f : Offsets(f, q, n)
  BY OffsetLoop
<1>6. Offsets(f, p, n)
  BY <1>1, <1>3, <1>5 DEF Offsets
<1>7. Size(q) = f[n] /\ Size(p) = f[n]
  BY <1>2, <1>4, <1>5, <1>6, SizeIs
<1>8. f[n] \in Nat
  BY <1>1, <1>5 DEF Offsets
<1>9. 1 \in 0..n
  BY <1>1
<1> QED  BY <1>2, <1>3, <1>4, <1>7, <1>8, <1>9

\* A frame: a table within the limits and all of its segments.
Whole(q) ==
    /\ q \in Seq(Byte) /\ Len(q) >= U
    /\ SegmentCount(q) <= MaxSegments
    /\ Tabled(q, SegmentCount(q))
    /\ Entry(q, 1) # 0
    /\ Size(q) = Len(q)
    /\ Len(q) <= Capacity

LEMMA WholeStarts ==
    ASSUME NEW q, Whole(q), NEW p \in Seq(Byte), Starts(p, q)
    PROVE  Complete(p) /\ Size(p) = Len(q)
<1>1. PICK n \in Nat \ {0} : n = SegmentCount(q)
  BY CountIs DEF Whole
<1>2. /\ Tabled(p, n) /\ n = SegmentCount(p) /\ Entry(p, 1) = Entry(q, 1)
      /\ Size(p) = Size(q)
  BY <1>1, TableDecides DEF Whole
<1>3. Header(n) = table_size(n) /\ table_size(n) <= Len(q) /\ table_size(n) \in Nat
  BY <1>1, Units DEF Whole, Tabled
<1>4. /\ Len(q) \in Nat /\ Len(p) \in Nat /\ Len(q) <= Len(p) /\ U \in Nat /\ Len(q) >= U
      /\ Len(q) <= Capacity /\ Capacity \in Nat /\ n <= MaxSegments /\ MaxSegments \in Nat
      /\ Size(q) = Len(q) /\ Entry(q, 1) # 0
  <2>1. U \in Nat /\ Capacity \in Nat /\ MaxSegments \in Nat
    BY <1>1, Units, Limits
  <2> QED  BY <1>1, <2>1 DEF Whole, Starts
<1>5. Fault(p) = "OK"
  BY <1>2, <1>3, <1>4 DEF Fault
<1> QED  BY <1>2, <1>3, <1>4, <1>5 DEF Complete

\* cf_capnp_segment finds segment k of a frame between two offsets.
LEMMA SegmentIs ==
    ASSUME NEW q, Whole(q), NEW n, n = SegmentCount(q), NEW f, Offsets(f, q, n),
           \A k \in 1..(n + 1) : Offset(q, n, k) = f[k - 1], NEW k \in 1..n
    PROVE  Segment(q, k - 1) = View("OK", Slice(q, f[k - 1], f[k]))
<1>1. /\ n \in Nat \ {0} /\ Tabled(q, n) /\ table_size(n) \in Nat /\ table_size(n) <= Len(q)
      /\ Word <= table_size(n) /\ Word \in Nat /\ n <= MaxSegments /\ Entry(q, 1) # 0
      /\ Len(q) <= Capacity
  <2>1. n \in Nat \ {0} /\ Tabled(q, n)
    BY CountIs DEF Whole
  <2> QED  BY <2>1, Units DEF Whole, Tabled
<1>2. Len(q) \in Nat /\ Capacity \in Nat /\ MessageMax \in Nat /\ Capacity <= MessageMax /\ MaxSegments \in Nat
  BY Limits DEF Whole
<1>3. f[n] = Len(q)
  BY <1>1, SizeIs DEF Whole
<1>4. total_size(q, n, MessageMax) = Result("OK", Len(q))
  <2>1. table_size(n) <= MessageMax
    BY <1>1, <1>2
  <2>2. total_size(q, n, MessageMax) = IF Entry(q, 1) = 0 THEN Result("FORMAT", 0)
                                       ELSE IF f[n] > MessageMax THEN Result("LIMIT", 0)
                                       ELSE Result("OK", f[n])
    BY <1>1, <1>2, <2>1, TotalSize
  <2> QED  BY <1>1, <1>2, <1>3, <2>2
<1>5. n = Entry(q, 0) + 1
  BY DEF SegmentCount
<1>6. Offset(q, n, (k - 1) + 1) = f[k - 1]
  <2>1. k \in 1..(n + 1) /\ (k - 1) + 1 = k
    BY <1>1
  <2> QED  BY <2>1
<1>7. f[k - 1] + Entry(q, (k - 1) + 1) * Word = f[k]
  <2>1. (k - 1) + 1 = k
    BY <1>1
  <2> QED  BY <2>1 DEF Offsets
<1>8. /\ ~(Len(q) < Word) /\ ~(n > MaxSegments) /\ ~(k - 1 >= n) /\ ~(table_size(n) > Len(q))
      /\ ~(Len(q) > Len(q)) /\ ~(Len(q) < Len(q))
  BY <1>1, <1>2
<1>9. total_size(q, n, MessageMax).rc = "OK" /\ total_size(q, n, MessageMax).total = Len(q)
  BY <1>4 DEF Result
<1> QED  BY <1>5, <1>6, <1>7, <1>8, <1>9 DEF Segment, Slice


\* The segments of a frame make up all of it but the table.
LEMMA WholePartitioned ==
    ASSUME NEW q, Whole(q)
    PROVE  Partitioned(q)
<1>1. PICK n : n = SegmentCount(q)
  OBVIOUS
<1>2. n \in Nat \ {0} /\ Tabled(q, n) /\ q \in Seq(Byte) /\ Len(q) \in Nat
  BY <1>1, CountIs DEF Whole
<1>3. PICK f : Offsets(f, q, n) /\ \A k \in 1..(n + 1) : Offset(q, n, k) = f[k - 1]
  BY <1>2, OffsetLoop
<1>4. f \in [0..n -> Nat] /\ f[0] = table_size(n)
  BY <1>3 DEF Offsets
<1>5. f[n] = Len(q)
  BY <1>1, <1>2, <1>3, SizeIs DEF Whole
<1>6. ASSUME NEW i \in 0..n, NEW j \in 0..n, i <= j
      PROVE  f[i] <= f[j] /\ f[j] <= Len(q) /\ f[i] \in Nat /\ f[j] \in Nat
  <2>1. f[i] <= f[j]
    BY <1>2, <1>3, <1>6, OffsetsGrow
  <2>2. n \in 0..n /\ j <= n
    BY <1>2
  <2>3. f[j] <= f[n]
    BY <1>2, <1>3, <2>2, OffsetsGrow
  <2> QED  BY <1>4, <1>5, <2>1, <2>3
<1>7. PICK views : views = [k \in 1..n |-> Segment(q, k - 1)]
  OBVIOUS
<1>8. \A k \in 1..n : views[k].rc = "OK" /\ views[k].bytes = Slice(q, f[k - 1], f[k])
  <2> TAKE k \in 1..n
  <2>1. Segment(q, k - 1) = View("OK", Slice(q, f[k - 1], f[k]))
    BY <1>1, <1>3, SegmentIs
  <2> QED  BY <1>7, <2>1 DEF View
<1>9. PICK seqs : seqs = [k \in 1..n |-> views[k].bytes]
  OBVIOUS
<1>10. seqs \in Seq(Seq(Byte)) /\ Len(seqs) = n
  <2>1. \A k \in 1..n : seqs[k] \in Seq(Byte)
    <3> TAKE k \in 1..n
    <3>1. k - 1 \in 0..n /\ k \in 0..n /\ k - 1 <= k
      BY <1>2
    <3>2. f[k - 1] \in Nat /\ f[k] \in Nat /\ f[k - 1] <= f[k] /\ f[k] <= Len(q)
      BY <1>6, <3>1
    <3>3. Slice(q, f[k - 1], f[k]) \in Seq(Byte)
      BY <1>2, <3>2, SliceIs
    <3> QED  BY <1>8, <1>9, <3>3
  <2> QED  BY <1>2, <1>9, <2>1
<1> DEFINE Is(g) == g = [i \in 1..Len(seqs) |->
                           IF i = 1 THEN seqs[i] ELSE g[i - 1] \o seqs[i]]
<1>11. PICK h : h = [i \in 1..n |-> Slice(q, f[0], f[i])]
  OBVIOUS
<1>12. \A i \in 1..n : i # 1 => h[i - 1] \o seqs[i] = h[i]
  <2> TAKE i \in 1..n
  <2> HAVE i # 1
  <2>1. i - 1 \in 1..n /\ 0 \in 0..n /\ i - 1 \in 0..n /\ i \in 0..n /\ 0 <= i - 1 /\ i - 1 <= i
    BY <1>2
  <2>2. /\ f[0] \in Nat /\ f[i - 1] \in Nat /\ f[i] \in Nat
        /\ f[0] <= f[i - 1] /\ f[i - 1] <= f[i] /\ f[i] <= Len(q)
    BY <1>6, <2>1
  <2>3. Slice(q, f[0], f[i - 1]) \o Slice(q, f[i - 1], f[i]) = Slice(q, f[0], f[i])
    BY <1>2, <2>2, SliceJoin
  <2> QED  BY <1>8, <1>9, <1>11, <2>1, <2>3
<1>13. h[1] = seqs[1]
  <2>1. 1 \in 1..n /\ 1 - 1 = 0
    BY <1>2
  <2>2. seqs[1] = Slice(q, f[1 - 1], f[1])
    BY <1>8, <1>9, <2>1
  <2> QED  BY <1>11, <2>1, <2>2
<1>14. Is(h)
  <2>1. \A i \in 1..n : h[i] = IF i = 1 THEN seqs[i] ELSE h[i - 1] \o seqs[i]
    BY <1>12, <1>13
  <2>2. h = [i \in 1..n |-> h[i]]
    BY <1>11
  <2> QED  BY <1>10, <2>1, <2>2
<1>15. PICK g : g = CHOOSE x : Is(x)
  OBVIOUS
<1>16. Is(g)
  <2> HIDE DEF Is
  <2> QED  BY <1>14, <1>15
<1>17. FlattenSeq(seqs) = g[n]
  BY <1>2, <1>10, <1>15 DEF FlattenSeq
<1>18. \A i \in 1..n : g[i] = IF i = 1 THEN seqs[i] ELSE g[i - 1] \o seqs[i]
  BY <1>10, <1>16
<1> HIDE DEF Is
<1> DEFINE P == {i \in 0..n : i # 0 => g[i] = h[i]}
<1>19. 0..n \subseteq P
  <2>1. 0 \in P
    BY <1>2
  <2>2. ASSUME NEW i \in 1..n, i - 1 \in P PROVE i \in P
    <3>1. i = 1 \/ (i # 1 /\ i - 1 # 0 /\ g[i - 1] = h[i - 1])
      BY <2>2
    <3>2. g[i] = h[i]
      BY <1>12, <1>13, <1>18, <3>1
    <3>3. i \in 0..n
      BY <1>2
    <3> QED  BY <3>2, <3>3
  <2> HIDE DEF P
  <2> QED  BY <1>2, <2>1, <2>2, LoopInduct
<1>20. g[n] = Slice(q, f[0], f[n])
  <2>1. n \in 0..n /\ n # 0 /\ n \in 1..n
    BY <1>2
  <2> QED  BY <1>11, <1>19, <2>1
<1>21. FlattenSeq(seqs) = SubSeq(q, table_size(n) + 1, Len(q))
  BY <1>4, <1>5, <1>17, <1>20 DEF Slice
<1>22. n = Entry(q, 0) + 1
  BY <1>1 DEF SegmentCount
<1> HIDE DEF P
<1> QED  BY <1>7, <1>8, <1>9, <1>21, <1>22 DEF Partitioned

-----------------------------------------------------------------------------
(* The reference: a stream is cut from its end.                            *)

LooksAhead(G, N, S) ==
    /\ G \in [0..N -> [[0..N -> S] -> S]]
    /\ \A i \in 0..N : \A g, h \in [0..N -> S] :
         (\A j \in (i + 1)..N : g[j] = h[j]) => G[i][g] = G[i][h]

Ends(f, G, N) == \A i \in 0..N : f[i] = G[i][f]

\* A recursive function that looks ahead only is defined.
LEMMA DescentExists ==
    ASSUME NEW S, NEW N \in Nat, NEW base \in S, NEW G, LooksAhead(G, N, S)
    PROVE  \E f \in [0..N -> S] : Ends(f, G, N)
<1> DEFINE Fn == [0..N -> S]
           Good(f, k) == \A i \in 0..N : i > N - k => f[i] = G[i][f]
           P == {k \in Nat : k <= N + 1 => \E f \in Fn : Good(f, k)}
<1>1. 0 \in P
  <2>1. PICK f : f = [i \in 0..N |-> base]
    OBVIOUS
  <2>2. f \in Fn
    BY <2>1
  <2>3. \A i \in 0..N : ~(i > N - 0)
    OBVIOUS
  <2>4. Good(f, 0)
    BY <2>3
  <2> QED  BY <2>2, <2>4
<1>2. \A k \in Nat : k \in P => k + 1 \in P
  <2> TAKE k \in Nat
  <2> HAVE k \in P
  <2> SUFFICES ASSUME k + 1 <= N + 1 PROVE \E f \in Fn : Good(f, k + 1)
    OBVIOUS
  <2>1. PICK f \in Fn : Good(f, k)
    <3>1. k <= N + 1
      OBVIOUS
    <3> HIDE DEF Fn, Good
    <3> QED  BY <3>1
  <2>2. PICK m \in 0..N : m = N - k
    OBVIOUS
  <2>3. PICK v \in S : v = G[m][f]
    BY DEF LooksAhead
  <2>4. PICK g \in Fn : g = [f EXCEPT ![m] = v]
    OBVIOUS
  <2>5. g[m] = v /\ \A i \in 0..N : i # m => g[i] = f[i]
    BY <2>4
  <2>6. ASSUME NEW i \in 0..N, i >= m
        PROVE  G[i][g] = G[i][f]
    <3>1. \A j \in (i + 1)..N : g[j] = f[j]
      BY <2>2, <2>5, <2>6
    <3> QED  BY <3>1 DEF LooksAhead
  <2>7. ASSUME NEW i \in 0..N, i > N - (k + 1)
        PROVE  g[i] = G[i][g]
    <3>1. i >= m
      BY <2>2, <2>7
    <3>2. CASE i = m
      BY <2>3, <2>5, <2>6, <3>1, <3>2
    <3>3. CASE i # m
      <4>1. f[i] = G[i][f]
        BY <2>1, <2>2, <3>1, <3>3
      <4> QED  BY <2>5, <2>6, <3>1, <3>3, <4>1
    <3> QED  BY <3>2, <3>3
  <2>8. Good(g, k + 1)
    BY <2>7
  <2> QED  BY <2>8
<1>3. Nat \subseteq P
  <2> HIDE DEF P
  <2> QED  BY <1>1, <1>2, Induct
<1>4. PICK f \in Fn : Good(f, N + 1)
  <2>1. N + 1 \in P
    <3> HIDE DEF P
    <3> QED  BY <1>3
  <2> QED  BY <2>1
<1>5. Ends(f, G, N)
  BY <1>4 DEF Ends
<1> QED  BY <1>5


Meanings == [frames : Seq(Seq(Byte)), error : {"OK", "LIMIT", "FORMAT"}, rest : Nat]

LEMMA CompleteSize ==
    ASSUME NEW p \in Seq(Byte), Complete(p)
    PROVE  Size(p) \in Nat \ {0} /\ Size(p) <= Len(p)
<1>1. PICK n \in Nat \ {0} : n = SegmentCount(p)
  BY CountIs DEF Complete
<1>2. Header(n) = table_size(n) /\ table_size(n) \in Nat /\ Word <= table_size(n) /\ Word \in Nat \ {0}
  BY <1>1, Units
<1>3. Tabled(p, n)
  BY <1>1, <1>2 DEF Complete, Tabled
<1>4. PICK f : Offsets(f, p, n)
  BY <1>3, OffsetLoop
<1>5. Size(p) = f[n]
  BY <1>1, <1>3, <1>4, SizeIs
<1>6. f[0] <= f[n] /\ f[0] = table_size(n) /\ f[n] \in Nat
  <2>1. 0 \in 0..n /\ n \in 0..n /\ 0 <= n
    BY <1>1
  <2>2. f[0] <= f[n]
    BY <1>3, <1>4, <2>1, OffsetsGrow
  <2> QED  BY <1>4, <2>1, <2>2 DEF Offsets
<1>7. Size(p) <= Len(p)
  BY <1>5, <1>6 DEF Complete
<1> QED  BY <1>2, <1>5, <1>6, <1>7

LEMMA FaultIs == \A p : Fault(p) \in {"OK", "LIMIT", "FORMAT"}
  BY DEF Fault

\* What the bytes after the first i stand for, if g says so of later ones.
CutAt(g, s, i) ==
    LET p    == SubSeq(s, i + 1, Len(s))
        next == g[i + Size(p)]
    IN IF Complete(p)
       THEN Meaning(<<SubSeq(p, 1, Size(p))>> \o next.frames, next.error, next.rest)
       ELSE Meaning(<<>>, Fault(p), IF Fault(p) = "OK" THEN Len(p) ELSE 0)

LEMMA CutAtIs ==
    ASSUME NEW s \in Seq(Byte), NEW N, N = Len(s), NEW i \in 0..N,
           NEW g \in [0..N -> Meanings]
    PROVE  /\ CutAt(g, s, i) \in Meanings
           /\ \A h \in [0..N -> Meanings] :
                (\A j \in (i + 1)..N : g[j] = h[j]) => CutAt(g, s, i) = CutAt(h, s, i)
<1>1. N \in Nat
  OBVIOUS
<1>2. PICK p : p = SubSeq(s, i + 1, Len(s))
  OBVIOUS
<1>3. p = Slice(s, i, N)
  BY <1>2 DEF Slice
<1>4. p \in Seq(Byte) /\ Len(p) = N - i
  <2>1. i \in Nat /\ N \in Nat /\ i <= N /\ N <= Len(s)
    BY <1>1
  <2> QED  BY <1>3, <2>1, ByteSlice DEF IsSlice
<1>5. CASE ~Complete(p)
  <2>1. \A h : CutAt(h, s, i) = Meaning(<<>>, Fault(p), IF Fault(p) = "OK" THEN Len(p) ELSE 0)
    BY <1>2, <1>5 DEF CutAt
  <2>2. Meaning(<<>>, Fault(p), IF Fault(p) = "OK" THEN Len(p) ELSE 0) \in Meanings
    <3>1. <<>> \in Seq(Seq(Byte)) /\ (IF Fault(p) = "OK" THEN Len(p) ELSE 0) \in Nat
      BY <1>4
    <3> QED  BY <3>1, FaultIs DEF Meaning, Meanings
  <2> QED  BY <2>1, <2>2
<1>6. CASE Complete(p)
  <2>1. Size(p) \in Nat \ {0} /\ Size(p) <= N - i
    BY <1>4, <1>6, CompleteSize
  <2>2. PICK k \in (i + 1)..N : k = i + Size(p)
    BY <1>1, <2>1
  <2>3. \A h : CutAt(h, s, i) = Meaning(<<SubSeq(p, 1, Size(p))>> \o h[k].frames, h[k].error, h[k].rest)
    BY <1>2, <1>6, <2>2 DEF CutAt
  <2>4. SubSeq(p, 1, Size(p)) \in Seq(Byte)
    <3>1. 0 \in Nat /\ 0 <= Size(p) /\ Size(p) <= Len(p) /\ Size(p) \in Nat
      BY <1>4, <2>1
    <3>2. Slice(p, 0, Size(p)) \in Seq(Byte)
      BY <1>4, <3>1, SliceIs
    <3> QED  BY <3>2 DEF Slice
  <2>5. g[k] \in Meanings
    BY <1>1, <2>2
  <2>6. CutAt(g, s, i) \in Meanings
    <3>1. g[k].frames \in Seq(Seq(Byte)) /\ g[k].error \in {"OK", "LIMIT", "FORMAT"} /\ g[k].rest \in Nat
      BY <2>5 DEF Meanings
    <3>2. <<SubSeq(p, 1, Size(p))>> \in Seq(Seq(Byte))
      BY <2>4
    <3>3. <<SubSeq(p, 1, Size(p))>> \o g[k].frames \in Seq(Seq(Byte))
      BY <3>1, <3>2
    <3>4. PICK fr \in Seq(Seq(Byte)) : fr = <<SubSeq(p, 1, Size(p))>> \o g[k].frames
      BY <3>3
    <3>5. CutAt(g, s, i) = [frames |-> fr, error |-> g[k].error, rest |-> g[k].rest]
      BY <2>3, <3>4 DEF Meaning
    <3> QED  BY <3>1, <3>5 DEF Meanings
  <2> QED  BY <2>2, <2>3, <2>6
<1> QED  BY <1>5, <1>6

LEMMA CutLoop ==
    ASSUME NEW s \in Seq(Byte), NEW N, N = Len(s)
    PROVE  \E f : Cut(s) = f[0] /\ \A i \in 0..N : f[i] = CutAt(f, s, i)
<1>1. N \in Nat
  OBVIOUS
<1> DEFINE Is(g) == g = [i \in 0..Len(s) |-> CutAt(g, s, i)]
<1>2. \E g : Is(g)
  <2>1. PICK S : S = Meanings
    OBVIOUS
  <2> DEFINE F == [0..N -> S]
             G == [i \in 0..N |-> [g \in F |-> CutAt(g, s, i)]]
  <2>2. G \in [0..N -> [F -> S]]
    BY <2>1, CutAtIs
  <2>3. \A i \in 0..N : \A g, h \in F : (\A j \in (i + 1)..N : g[j] = h[j]) => G[i][g] = G[i][h]
    <3> TAKE i \in 0..N
    <3> TAKE g, h \in F
    <3> HAVE \A j \in (i + 1)..N : g[j] = h[j]
    <3>1. CutAt(g, s, i) = CutAt(h, s, i)
      BY <2>1, CutAtIs
    <3> QED  BY <3>1
  <2>4. Meaning(<<>>, "OK", 0) \in S
    BY <2>1 DEF Meaning, Meanings
  <2>5. PICK base \in S : TRUE
    BY <2>4
  <2>6. \A i \in 0..N : \A g \in F : G[i][g] = CutAt(g, s, i)
    OBVIOUS
  <2> HIDE DEF G
  <2>7. PICK f \in F : Ends(f, G, N)
    <3>1. LooksAhead(G, N, S)
      BY <2>2, <2>3 DEF LooksAhead
    <3>2. PICK H : H = G
      OBVIOUS
    <3>3. \E f \in [0..N -> S] : Ends(f, H, N)
      BY <1>1, <2>5, <3>1, <3>2, DescentExists
    <3> QED  BY <3>2, <3>3
  <2>8. \A i \in 0..N : f[i] = CutAt(f, s, i)
    BY <2>6, <2>7 DEF Ends
  <2>9. Is(f)
    BY <2>8
  <2> QED  BY <2>9
<1>3. PICK f : f = CHOOSE g : Is(g)
  OBVIOUS
<1>4. Is(f)
  <2> HIDE DEF Is
  <2> QED  BY <1>2, <1>3
<1>5. Cut(s) = f[0]
  BY <1>3 DEF Cut, CutAt
<1>6. \A i \in 0..N : f[i] = CutAt(f, s, i)
  BY <1>4
<1> QED  BY <1>5, <1>6

\* b holds the boundaries of the given frames at the start of s.
Bounds(b, frames, s) ==
    /\ b \in [0..Len(frames) -> 0..Len(s)]
    /\ b[0] = 0
    /\ \A j \in 1..Len(frames) : /\ b[j - 1] <= b[j]
                                 /\ frames[j] = Slice(s, b[j - 1], b[j])
                                 /\ Whole(frames[j])

\* Such frames, up to a remainder that does not start with another one, are what
\* the bytes stand for.
LEMMA CutIs ==
    ASSUME NEW s \in Seq(Byte), NEW frames \in Seq(Seq(Byte)), NEW b, Bounds(b, frames, s),
           NEW m, m = Len(frames), NEW p, p = Slice(s, b[m], Len(s)), ~Complete(p)
    PROVE  Cut(s) = Meaning(frames, Fault(p), IF Fault(p) = "OK" THEN Len(p) ELSE 0)
<1>1. PICK N \in Nat : N = Len(s)
  OBVIOUS
<1>2. m \in Nat /\ b \in [0..m -> 0..N] /\ b[0] = 0
  BY <1>1 DEF Bounds
<1>3. PICK f : Cut(s) = f[0] /\ \A i \in 0..N : f[i] = CutAt(f, s, i)
  BY <1>1, CutLoop
<1>4. PICK rest : rest = IF Fault(p) = "OK" THEN Len(p) ELSE 0
  OBVIOUS
<1> DEFINE P == {k \in 0..m : f[b[m - k]] = Meaning(Slice(frames, m - k, m), Fault(p), rest)}
<1>5. 0 \in P
  <2>1. m - 0 = m /\ b[m] \in 0..N
    BY <1>2
  <2>2. Slice(frames, m, m) = <<>>
    <3>1. m + 1 \in Int /\ m \in Int /\ m < m + 1
      BY <1>2
    <3> QED  BY <3>1, SubSeqEmpty DEF Slice
  <2>3. f[b[m]] = Meaning(<<>>, Fault(p), rest)
    <3>1. f[b[m]] = CutAt(f, s, b[m])
      BY <1>3, <2>1
    <3>2. p = SubSeq(s, b[m] + 1, Len(s))
      BY DEF Slice
    <3> QED  BY <1>4, <3>1, <3>2 DEF CutAt
  <2> QED  BY <1>2, <2>1, <2>2, <2>3
<1>6. ASSUME NEW k \in 1..m, k - 1 \in P PROVE k \in P
  <2>1. PICK j \in 1..m : j = m - k + 1
    <3>1. m - k + 1 \in 1..m
      BY <1>2
    <3> QED  BY <3>1
  <2>2. m - (k - 1) = j /\ m - k = j - 1
    BY <1>2, <2>1
  <2>3. f[b[j]] = Meaning(Slice(frames, j, m), Fault(p), rest)
    BY <1>6, <2>2
  <2> HIDE DEF P
  <2>4. PICK x \in 0..N, y \in 0..N : x = b[j - 1] /\ y = b[j]
    <3>1. j - 1 \in 0..m /\ j \in 0..m
      BY <1>2
    <3> QED  BY <1>2, <3>1
  <2>5. x <= y /\ frames[j] = Slice(s, x, y) /\ Whole(frames[j])
    BY <2>4 DEF Bounds
  <2>6. PICK q : q = Slice(s, x, N)
    OBVIOUS
  <2>7. /\ q \in Seq(Byte) /\ Len(q) = N - x /\ \A i \in 1..(N - x) : q[i] = s[x + i]
    <3>1. x \in Nat /\ x <= N /\ N <= Len(s)
      BY <1>1
    <3> QED  BY <2>6, <3>1, ByteSlice DEF IsSlice
  <2>8. /\ frames[j] \in Seq(Byte) /\ Len(frames[j]) = y - x
        /\ \A i \in 1..(y - x) : frames[j][i] = s[x + i]
    <3>1. x \in Nat /\ y \in Nat /\ y <= Len(s)
      BY <1>1
    <3>2. /\ Slice(s, x, y) \in Seq(Byte) /\ Len(Slice(s, x, y)) = y - x
          /\ \A i \in 1..(y - x) : Slice(s, x, y)[i] = s[x + i]
      BY <2>5, <3>1, ByteSlice DEF IsSlice
    <3> QED  BY <2>5, <3>2
  <2>9. Starts(q, frames[j])
    <3>1. y - x <= N - x /\ \A i \in 1..(y - x) : i \in 1..(N - x)
      BY <1>1
    <3>2. \A i \in 1..(y - x) : q[i] = frames[j][i]
      BY <2>7, <2>8, <3>1
    <3> QED  BY <2>7, <2>8, <3>1, <3>2 DEF Starts
  <2>10. Complete(q) /\ Size(q) = y - x
    BY <2>5, <2>7, <2>8, <2>9, WholeStarts
  <2>11. SubSeq(q, 1, y - x) = frames[j]
    <3>1. PICK d \in Nat : d = y - x
      BY <2>5
    <3>2. 0 \in Nat /\ 0 <= d /\ d <= Len(q) /\ d - 0 = d
      BY <1>1, <2>7, <3>1
    <3>3. PICK z \in Nat : z = 0
      OBVIOUS
    <3>4. /\ Slice(q, z, d) \in Seq(Byte) /\ Len(Slice(q, z, d)) = d - z
          /\ \A i \in 1..(d - z) : Slice(q, z, d)[i] = q[z + i]
      BY <2>7, <3>2, <3>3, ByteSlice DEF IsSlice
    <3>5. \A i \in 1..d : i \in 1..(N - x) /\ i \in 1..(y - x)
      BY <3>1
    <3>6. \A i \in 1..d : Slice(q, z, d)[i] = frames[j][i]
      <4> TAKE i \in 1..d
      <4>1. q[i] = s[x + i] /\ frames[j][i] = s[x + i]
        BY <2>7, <2>8, <3>5
      <4>2. i \in 1..(d - z) /\ z + i = i
        BY <3>3
      <4> QED  BY <3>4, <4>1, <4>2
    <3>7. Slice(q, z, d) = frames[j]
      BY <2>8, <3>1, <3>3, <3>4, <3>6, SeqEqual
    <3> QED  BY <3>1, <3>3, <3>7 DEF Slice
  <2>12. f[x] = Meaning(<<frames[j]>> \o Slice(frames, j, m), Fault(p), rest)
    <3>1. f[x] = CutAt(f, s, x) /\ q = SubSeq(s, x + 1, Len(s)) /\ x + (y - x) = y
      BY <1>1, <1>3, <2>6 DEF Slice
    <3>2. /\ f[y].frames = Slice(frames, j, m) /\ f[y].error = Fault(p) /\ f[y].rest = rest
      BY <2>3, <2>4 DEF Meaning
    <3> QED  BY <2>10, <2>11, <3>1, <3>2 DEF CutAt
  <2>13. <<frames[j]>> \o Slice(frames, j, m) = Slice(frames, j - 1, m)
    <3>1. j \in 1..Len(frames) /\ m \in j..Len(frames) /\ (j - 1) + 1 = j
      BY <1>2
    <3>2. SubSeq(frames, j, m) = <<frames[j]>> \o SubSeq(frames, j + 1, m)
      BY <3>1, SubSeqRecursiveFirst
    <3> QED  BY <3>1, <3>2 DEF Slice
  <2>14. k \in 0..m
    BY <1>2
  <2> QED  BY <2>2, <2>4, <2>12, <2>13, <2>14 DEF P
<1>7. 0..m \subseteq P
  <2> HIDE DEF P
  <2> QED  BY <1>2, <1>5, <1>6, LoopInduct
<1>8. f[0] = Meaning(Slice(frames, 0, m), Fault(p), rest)
  <2>1. m \in P /\ m - m = 0
    <3> HIDE DEF P
    <3>1. m \in 0..m
      BY <1>2
    <3> QED  BY <1>2, <1>7, <3>1
  <2> QED  BY <1>2, <2>1
<1>9. Slice(frames, 0, m) = frames
  BY SubSeqFull DEF Slice
<1> QED  BY <1>3, <1>4, <1>8, <1>9


-----------------------------------------------------------------------------
(* The framer.                                                             *)

Framers == [buffer : Seq(Byte), target : Nat, segments : 0..MaxSegments, phase : 0..2,
            error : {"OK", "LIMIT", "FORMAT", "REFUSED"}]

\* What a framer without error knows of the frame in its buffer.
Counting(f) == f.phase = 0 /\ f.target = U
Measuring(f) == /\ f.phase = 1 /\ Len(f.buffer) >= U
               /\ f.segments = SegmentCount(f.buffer)
               /\ f.target = table_size(f.segments)
Filling(f) == /\ f.phase = 2 /\ Len(f.buffer) >= U
              /\ f.segments = SegmentCount(f.buffer)
              /\ Tabled(f.buffer, f.segments)
              /\ table_size(f.segments) <= Capacity
              /\ Entry(f.buffer, 1) # 0
              /\ f.target = Size(f.buffer)
Underway(f) == /\ Len(f.buffer) < f.target /\ f.target <= Capacity
               /\ Counting(f) \/ Measuring(f) \/ Filling(f)

\* With an error the call is over and the error is that of the bytes.
Standing(f, l) ==
    IF f.error = "OK" THEN Underway(f)
    ELSE l = 0 /\ f.error \in {"LIMIT", "FORMAT"} /\ Fault(f.buffer) = f.error

\* b holds the boundaries of the frames delivered; the buffer holds the rest.
Typed(f, s, a, l, d) ==
    /\ f \in Framers /\ Len(f.buffer) <= f.target
    /\ s \in Seq(Byte)
    /\ a \in 0..Len(s) /\ l \in 0..(Len(s) - a)
    /\ d \in Seq(Seq(Byte))

Delivers(b, s, a, d) == Bounds(b, d, s) /\ b[Len(d)] <= a

Refusal(f, a, l, d, b) == f.error = "REFUSED" /\ b[Len(d)] = a /\ l = 0

Going(f, s, a, l, d, b) == f.buffer = Slice(s, b[Len(d)], a) /\ Standing(f, l)

FramerInv ==
    /\ Typed(framer, stream, at, left, delivered)
    /\ refused \in BOOLEAN
    /\ \E b : /\ Delivers(b, stream, at, delivered)
              /\ refused => Refusal(framer, at, left, delivered, b)
              /\ ~refused => Going(framer, stream, at, left, delivered, b)

\* Without error there is no frame in the buffer yet, and nothing wrong with it.
LEMMA UnderwayIncomplete ==
    ASSUME NEW f \in Framers, Underway(f)
    PROVE  Fault(f.buffer) = "OK" /\ ~Complete(f.buffer)
<1>1. PICK q \in Seq(Byte), t \in Nat, n \in Nat : q = f.buffer /\ t = f.target /\ n = f.segments
  BY DEF Framers
<1>2. Len(q) \in Nat /\ Len(q) < t /\ t <= Capacity /\ n <= MaxSegments
  BY <1>1 DEF Underway, Framers
<1>3. U \in Nat /\ Capacity \in Nat /\ MaxSegments \in Nat
  BY Limits
<1>4. table_size(n) = Header(n) /\ table_size(n) \in Nat
  BY <1>1, Units
<1>5. CASE Counting(f)
  <2>1. Len(q) < U
    BY <1>1, <1>2, <1>5 DEF Counting
  <2> QED  BY <1>1, <1>2, <1>3, <2>1 DEF Fault, Complete
<1>6. CASE Measuring(f)
  <2>1. Len(q) >= U /\ n = SegmentCount(q) /\ t = table_size(n)
    BY <1>1, <1>6 DEF Measuring
  <2>2. Fault(q) = "OK"
    BY <1>2, <1>3, <1>4, <2>1 DEF Fault
  <2> QED  BY <1>1, <1>2, <1>4, <2>1, <2>2 DEF Complete
<1>7. CASE Filling(f)
  <2>1. /\ Len(q) >= U /\ n = SegmentCount(q) /\ t = Size(q) /\ Entry(q, 1) # 0
        /\ table_size(n) <= Len(q) /\ table_size(n) <= Capacity
    BY <1>1, <1>7 DEF Filling, Tabled
  <2>2. Fault(q) = "OK"
    BY <1>2, <1>3, <1>4, <2>1 DEF Fault
  <2> QED  BY <1>1, <1>2, <2>1, <2>2 DEF Complete
<1> QED  BY <1>5, <1>6, <1>7 DEF Underway

Bounded(b, d, t, s, a) ==
    /\ t \in Seq(Byte) /\ Len(t) = a /\ Bounds(b, d, t)
    /\ Slice(t, b[Len(d)], a) = Slice(s, b[Len(d)], a)

LEMMA BoundsPrefix ==
    ASSUME NEW s \in Seq(Byte), NEW a \in 0..Len(s), NEW d \in Seq(Seq(Byte)), NEW b,
           Delivers(b, s, a, d), NEW t, t = SubSeq(s, 1, a)
    PROVE  Bounded(b, d, t, s, a)
<1>1. PICK m \in Nat, N \in Nat : m = Len(d) /\ N = Len(s)
  OBVIOUS
<1>2. b \in [0..m -> 0..N] /\ b[0] = 0 /\ b[m] <= a /\ a \in Nat /\ a <= N
  BY <1>1 DEF Delivers, Bounds
<1>3. \A j \in 1..m : b[j - 1] <= b[j] /\ d[j] = Slice(s, b[j - 1], b[j]) /\ Whole(d[j])
  BY <1>1 DEF Delivers, Bounds
<1>4. /\ t \in Seq(Byte) /\ Len(t) = a /\ \A k \in 1..a : t[k] = s[k]
  <2>1. PICK z \in Nat : z = 0
    OBVIOUS
  <2>2. t = Slice(s, z, a)
    BY <2>1 DEF Slice
  <2>3. IsSlice(Slice(s, z, a), s, z, a)
    BY <1>1, <1>2, <2>1, ByteSlice
  <2>4. a - z = a /\ \A k \in 1..a : z + k = k
    BY <1>2, <2>1
  <2> QED  BY <2>2, <2>3, <2>4 DEF IsSlice
<1>5. \A j \in 0..m : b[j] <= a
  <2> DEFINE P == {k \in 0..m : b[m - k] <= a}
  <2>1. 0 \in P
    BY <1>2
  <2>2. ASSUME NEW k \in 1..m, k - 1 \in P PROVE k \in P
    <3>1. m - k + 1 \in 1..m /\ m - (k - 1) = m - k + 1 /\ (m - k + 1) - 1 = m - k /\ k \in 0..m
      BY <1>1
    <3>2. PICK j \in 1..m : j = m - k + 1
      BY <3>1
    <3>3. b[j] <= a
      BY <2>2, <3>1, <3>2
    <3>4. b[j - 1] <= b[j] /\ b[j - 1] \in 0..N /\ b[j] \in 0..N
      <4>1. j - 1 \in 0..m /\ j \in 0..m
        BY <1>1
      <4> QED  BY <1>2, <1>3, <4>1
    <3>5. b[j - 1] <= a
      BY <1>2, <3>3, <3>4
    <3> QED  BY <3>1, <3>2, <3>5
  <2>3. 0..m \subseteq P
    <3> HIDE DEF P
    <3> QED  BY <1>1, <2>1, <2>2, LoopInduct
  <2>4. ASSUME NEW j \in 0..m PROVE b[j] <= a
    <3>1. m - j \in 0..m /\ m - (m - j) = j
      BY <1>1
    <3> QED  BY <2>3, <3>1
  <2> QED  BY <2>4
<1>6. ASSUME NEW x \in Nat, NEW y \in Nat, x <= y, y <= a
      PROVE  Slice(t, x, y) = Slice(s, x, y)
  <2>1. IsSlice(Slice(t, x, y), t, x, y)
    BY <1>4, <1>6, ByteSlice
  <2>2. y <= Len(s)
    BY <1>1, <1>2, <1>6
  <2>3. IsSlice(Slice(s, x, y), s, x, y)
    BY <1>6, <2>2, ByteSlice
  <2>4. \A k \in 1..(y - x) : x + k \in 1..a
    BY <1>2, <1>6
  <2>5. \A k \in 1..(y - x) : Slice(t, x, y)[k] = Slice(s, x, y)[k]
    BY <1>4, <2>1, <2>3, <2>4 DEF IsSlice
  <2> QED  BY <2>1, <2>3, <2>5, SeqEqual DEF IsSlice
<1>7. \A j \in 1..m : d[j] = Slice(t, b[j - 1], b[j])
  <2> TAKE j \in 1..m
  <2>1. j - 1 \in 0..m /\ j \in 0..m
    BY <1>1
  <2>2. b[j - 1] \in Nat /\ b[j] \in Nat /\ b[j] <= a /\ b[j - 1] <= b[j]
    BY <1>2, <1>3, <1>5, <2>1
  <2> QED  BY <1>3, <1>6, <2>2
<1>8. b \in [0..m -> 0..a]
  <2>1. \A j \in 0..m : b[j] \in 0..a
    BY <1>2, <1>5
  <2> QED  BY <1>2, <2>1
<1>9. Bounds(b, d, t)
  BY <1>1, <1>2, <1>3, <1>4, <1>7, <1>8 DEF Bounds
<1>10. Slice(t, b[m], a) = Slice(s, b[m], a)
  <2>1. b[m] \in Nat /\ a <= a
    <3>1. m \in 0..m
      BY <1>1
    <3> QED  BY <1>2, <3>1
  <2> QED  BY <1>2, <1>6, <2>1
<1> QED  BY <1>1, <1>4, <1>9, <1>10 DEF Bounded

LEMMA FramerInvCuts == FramerInv => FragmentationInvisible
<1> SUFFICES ASSUME FramerInv PROVE FragmentationInvisible
  OBVIOUS
<1>1. /\ framer \in Framers /\ stream \in Seq(Byte) /\ at \in 0..Len(stream)
      /\ delivered \in Seq(Seq(Byte))
  BY DEF FramerInv, Typed
<1>2. PICK b : /\ Delivers(b, stream, at, delivered)
               /\ refused => Refusal(framer, at, left, delivered, b)
               /\ ~refused => Going(framer, stream, at, left, delivered, b)
  BY DEF FramerInv
<1>11. Delivers(b, stream, at, delivered)
  BY <1>2
<1>12. ASSUME refused PROVE Refusal(framer, at, left, delivered, b)
  BY <1>2, <1>12
<1>13. ASSUME ~refused PROVE Going(framer, stream, at, left, delivered, b)
  BY <1>2, <1>13
<1>3. PICK s : s = SubSeq(stream, 1, at)
  OBVIOUS
<1>4. PICK m : m = Len(delivered)
  OBVIOUS
<1>5. /\ s \in Seq(Byte) /\ Len(s) = at /\ Bounds(b, delivered, s)
      /\ Slice(s, b[m], at) = Slice(stream, b[m], at)
  <2>1. Bounded(b, delivered, s, stream, at)
    BY <1>1, <1>3, <1>11, BoundsPrefix
  <2> QED  BY <1>4, <2>1 DEF Bounded
<1>6. PICK p : p = Slice(s, b[m], Len(s))
  OBVIOUS
<1>7. \A i \in DOMAIN delivered : Partitioned(delivered[i])
  <2> TAKE i \in DOMAIN delivered
  <2>1. i \in 1..Len(delivered)
    BY <1>1
  <2>2. Whole(delivered[i])
    BY <1>11, <2>1 DEF Delivers, Bounds
  <2> QED  BY <2>2, WholePartitioned
<1>8. ASSUME ~Complete(p)
      PROVE  /\ Cut(s).frames = delivered /\ Cut(s).error = Fault(p)
             /\ Cut(s).rest = IF Fault(p) = "OK" THEN Len(p) ELSE 0
  <2>1. Cut(s) = Meaning(delivered, Fault(p), IF Fault(p) = "OK" THEN Len(p) ELSE 0)
    BY <1>1, <1>4, <1>5, <1>6, <1>8, CutIs
  <2> QED  BY <2>1 DEF Meaning
<1>9. CASE refused
  <2>1. framer.error = "REFUSED" /\ b[m] = at
    BY <1>4, <1>9, <1>12 DEF Refusal
  <2>2. Len(p) = 0
    <3>1. p = SubSeq(s, at + 1, at) /\ at \in Int /\ at + 1 \in Int /\ at < at + 1
      BY <1>1, <1>5, <1>6, <2>1 DEF Slice
    <3>2. p = <<>>
      BY <3>1, SubSeqEmpty
    <3> QED  BY <3>2
  <2>3. Fault(p) = "OK" /\ ~Complete(p)
    BY <2>2, Limits DEF Fault, Complete
  <2> QED  BY <1>3, <1>7, <1>8, <1>9, <2>1, <2>2, <2>3 DEF FragmentationInvisible
<1>10. CASE ~refused
  <2>1. framer.buffer = p /\ Standing(framer, left)
    BY <1>4, <1>5, <1>6, <1>10, <1>13 DEF Going
  <2>2. CASE framer.error = "OK"
    <3>1. Fault(p) = "OK" /\ ~Complete(p)
      BY <1>1, <2>1, <2>2, UnderwayIncomplete DEF Standing
    <3>2. Len(p) > 0 <=> p # <<>>
      BY <1>1, <2>1, EmptySeq DEF Framers
    <3> QED  BY <1>3, <1>7, <1>8, <1>10, <2>1, <2>2, <3>1, <3>2 DEF FragmentationInvisible, Eof
  <2>3. CASE framer.error # "OK"
    <3>1. Fault(p) = framer.error /\ ~Complete(p)
      BY <2>1, <2>3 DEF Standing, Complete
    <3> QED  BY <1>3, <1>7, <1>8, <1>10, <2>3, <3>1 DEF FragmentationInvisible, Eof
  <2> QED  BY <2>2, <2>3
<1> QED  BY <1>9, <1>10

LEMMA FramerInvType == FramerInv => TypeOK
<1> SUFFICES ASSUME FramerInv PROVE TypeOK
  OBVIOUS
<1>1. /\ framer \in Framers /\ stream \in Seq(Byte) /\ at \in 0..Len(stream)
      /\ delivered \in Seq(Seq(Byte)) /\ left \in 0..(Len(stream) - at)
      /\ Len(framer.buffer) <= framer.target /\ refused \in BOOLEAN
  BY DEF FramerInv, Typed
<1>2. framer.error = "OK" => framer.target <= Capacity
  <2>1. CASE refused
    BY <2>1 DEF FramerInv, Refusal
  <2>2. CASE ~refused
    BY <2>2 DEF FramerInv, Going, Standing, Underway
  <2> QED  BY <2>1, <2>2
<1> QED  BY <1>1, <1>2 DEF TypeOK, Framers


\* A state in which no callback failed: b holds the boundaries, f the framer.
Alive(f, s, a, l, d, b) ==
    Typed(f, s, a, l, d) /\ Delivers(b, s, a, d) /\ Going(f, s, a, l, d, b)

LEMMA AliveNext ==
    ASSUME NEW b, Alive(framer, stream, at, left, delivered, b)', refused' = FALSE
    PROVE  FramerInv'
  BY DEF Alive, FramerInv

\* Before the first frame.
LEMMA NoBounds ==
    ASSUME NEW s \in Seq(Byte)
    PROVE  \E b : Alive(Empty, s, 0, 0, <<>>, b)
<1>1. PICK b : b = [j \in 0..0 |-> 0]
  OBVIOUS
<1>2. PICK d \in Seq(Seq(Byte)) : d = <<>> /\ Len(d) = 0
  BY EmptySeq
<1>3. b \in [0..0 -> 0..Len(s)] /\ b[0] = 0
  BY <1>1
<1>4. Delivers(b, s, 0, d)
  BY <1>2, <1>3 DEF Delivers, Bounds
<1>5. Slice(s, 0, 0) = <<>>
  BY SubSeqEmpty DEF Slice
<1>6. Empty \in Framers /\ Empty.buffer = <<>> /\ Len(Empty.buffer) = 0 /\ Empty.error = "OK" /\ Empty.phase = 0 /\ Empty.target = U
  BY Limits DEF Empty, Framers
<1>7. U \in Nat \ {0} /\ U <= Capacity
  <2>1. Word = 2 * U
    BY DEF Word
  <2> QED  BY <2>1, Limits
<1>8. Standing(Empty, 0)
  BY <1>6, <1>7 DEF Standing, Underway, Counting
<1>9. Going(Empty, s, 0, 0, d, b)
  BY <1>2, <1>3, <1>5, <1>6, <1>8 DEF Going
<1>10. Typed(Empty, s, 0, 0, d)
  BY <1>2, <1>6, <1>7 DEF Typed
<1> QED  BY <1>2, <1>4, <1>9, <1>10 DEF Alive

LEMMA InitFramer == Init => FramerInv
<1> SUFFICES ASSUME Init PROVE FramerInv
  OBVIOUS
<1>1. stream \in Seq(Byte) /\ framer = Empty /\ at = 0 /\ left = 0 /\ delivered = <<>> /\ refused = FALSE
  BY FramerAssumption DEF Init
<1>2. PICK b : Alive(Empty, stream, 0, 0, <<>>, b)
  BY <1>1, NoBounds
<1>3. Alive(framer, stream, at, left, delivered, b)
  BY <1>1, <1>2
<1> QED  BY <1>1, <1>3 DEF Alive, FramerInv

LEMMA ResetKeeps == FramerInv /\ Reset => FramerInv'
<1> SUFFICES ASSUME FramerInv, Reset PROVE FramerInv'
  OBVIOUS
<1>1. /\ stream' \in Seq(Byte) /\ framer' = Empty /\ at' = 0 /\ left' = 0 /\ delivered' = <<>>
      /\ refused' = FALSE
  BY FramerAssumption DEF Reset
<1>2. PICK s \in Seq(Byte) : s = stream'
  BY <1>1
<1>3. PICK b : Alive(Empty, s, 0, 0, <<>>, b)
  BY NoBounds
<1>4. Alive(framer', stream', at', left', delivered', b)
  BY <1>1, <1>2, <1>3
<1> QED  BY <1>1, <1>4 DEF Alive, FramerInv

\* While the callback never failed and the framer has no error.
LEMMA AliveIs ==
    ASSUME FramerInv, framer.error = "OK"
    PROVE  refused = FALSE /\ \E b : Alive(framer, stream, at, left, delivered, b)
<1>1. PICK b : /\ Delivers(b, stream, at, delivered)
               /\ refused => Refusal(framer, at, left, delivered, b)
               /\ ~refused => Going(framer, stream, at, left, delivered, b)
  BY DEF FramerInv
<1>2. ~refused
  BY <1>1 DEF Refusal
<1>3. Alive(framer, stream, at, left, delivered, b)
  BY <1>1, <1>2 DEF Alive, FramerInv
<1>4. refused = FALSE
  BY <1>2 DEF FramerInv
<1> QED  BY <1>3, <1>4

LEMMA FeedKeeps ==
    ASSUME FramerInv, NEW n \in 1..(Len(stream) - at), Feed(n)
    PROVE  FramerInv'
<1>1. framer.error = "OK" /\ left' = n /\ UNCHANGED <<framer, stream, at, delivered, refused>>
  BY DEF Feed
<1>2. refused = FALSE
  BY <1>1, AliveIs
<1>3. PICK b : Alive(framer, stream, at, left, delivered, b)
  BY <1>1, AliveIs
<1>4. Typed(framer, stream, at, n, delivered)
  <2>1. n \in 0..(Len(stream) - at)
    OBVIOUS
  <2> QED  BY <1>3, <2>1 DEF Alive, Typed
<1>5. Going(framer, stream, at, n, delivered, b)
  BY <1>1, <1>3 DEF Alive, Going, Standing
<1>6. Alive(framer, stream, at, n, delivered, b)
  BY <1>3, <1>4, <1>5 DEF Alive
<1>7. Alive(framer', stream', at', left', delivered', b)
  BY <1>1, <1>6
<1> QED  BY <1>1, <1>2, <1>7 DEF Alive, FramerInv

\* One memcpy: some bytes, at most up to the target, after which the buffer holds
\* the rest of what was consumed.
Copies(b, c, q) ==
    /\ refused = FALSE
    /\ framer.error = "OK" /\ Underway(framer)
    /\ Alive(framer, stream, at, left, delivered, b)
    /\ c = Copied /\ q = Buffered
    /\ c \in 1..left /\ at + c \in 0..Len(stream)
    /\ at' = at + c /\ stream' = stream
    /\ q = Slice(stream, b[Len(delivered)], at + c)
    /\ q \in Seq(Byte) /\ Len(q) = Len(framer.buffer) + c /\ Len(q) <= framer.target
    /\ Starts(q, framer.buffer)
    /\ c < Wanted <=> Len(q) < framer.target
    /\ Delivers(b, stream, at + c, delivered)

LEMMA CopyIs ==
    ASSUME FramerInv, Copy
    PROVE  \E b, c, q : Copies(b, c, q)
<1>1. left > 0 /\ at' = at + Copied /\ stream' = stream
  BY DEF Copy
<1>2. Typed(framer, stream, at, left, delivered)
  BY DEF FramerInv
<1>3. framer.error = "OK"
  <2>1. left # 0
    BY <1>1, <1>2 DEF Typed
  <2>2. PICK b : /\ refused => Refusal(framer, at, left, delivered, b)
                 /\ ~refused => Going(framer, stream, at, left, delivered, b)
    BY DEF FramerInv
  <2>3. CASE refused
    BY <2>1, <2>2, <2>3 DEF Refusal
  <2>4. CASE ~refused
    BY <2>1, <2>2, <2>4 DEF Going, Standing
  <2> QED  BY <2>3, <2>4
<1>4. refused = FALSE
  BY <1>3, AliveIs
<1>5. PICK b : Alive(framer, stream, at, left, delivered, b)
  BY <1>3, AliveIs
<1>6. Underway(framer) /\ Delivers(b, stream, at, delivered) /\ framer.buffer = Slice(stream, b[Len(delivered)], at)
  BY <1>3, <1>5 DEF Alive, Going, Standing
<1>24. /\ framer.buffer \in Seq(Byte) /\ framer.target \in Nat /\ stream \in Seq(Byte)
       /\ at \in 0..Len(stream) /\ left \in 0..(Len(stream) - at)
  BY <1>2 DEF Typed, Framers
<1>25. PICK u \in Nat, t \in Nat : u = Len(framer.buffer) /\ t = framer.target
  BY <1>24
<1>26. PICK N \in Nat : N = Len(stream)
  BY <1>24
<1>27. PICK a \in Nat : a = at /\ a <= N
  BY <1>24, <1>26
<1>28. PICK l \in Nat : l = left /\ l <= N - a
  BY <1>24, <1>26, <1>27
<1>7. /\ u = Len(framer.buffer) /\ t = framer.target /\ l = left /\ N = Len(stream) /\ a = at
      /\ framer.buffer \in Seq(Byte) /\ stream \in Seq(Byte) /\ a <= N /\ l <= N - a
  BY <1>24, <1>25, <1>26, <1>27, <1>28
<1>8. u < t
  BY <1>6, <1>7 DEF Underway
<1>9. Wanted = t - u
  BY <1>7 DEF Wanted
<1>10. PICK c \in Nat \ {0} : c = Copied /\ c <= l /\ c <= t - u
  BY <1>1, <1>7, <1>8, <1>9 DEF Copied
<1>11. PICK e \in Nat : e = a + c /\ e <= N /\ a <= e
  BY <1>7, <1>10
<1>12. PICK x \in Nat : x = b[Len(delivered)] /\ x <= a
  <2>1. delivered \in Seq(Seq(Byte))
    BY <1>2 DEF Typed
  <2>2. PICK m \in Nat : m = Len(delivered)
    BY <2>1
  <2>3. b \in [0..m -> 0..Len(stream)] /\ b[m] <= at
    BY <1>6, <2>2 DEF Delivers, Bounds
  <2>4. m \in 0..m
    BY <2>2
  <2>5. b[m] \in 0..Len(stream)
    BY <2>3, <2>4
  <2> QED  BY <1>7, <2>2, <2>3, <2>5
<1>13. PICK q : q = Buffered
  OBVIOUS
<1>14. q = Slice(stream, x, e)
  <2>1. Slice(stream, x, a) \o Slice(stream, a, e) = Slice(stream, x, e)
    <3>1. x <= a /\ a <= e /\ e <= Len(stream)
      BY <1>7, <1>11, <1>12
    <3> QED  BY <1>24, <3>1, SliceJoin
  <2>2. Buffered = framer.buffer \o Slice(stream, a, e)
    BY <1>7, <1>10, <1>11 DEF Buffered, Slice
  <2> QED  BY <1>6, <1>7, <1>12, <1>13, <2>1, <2>2
<1>15. IsSlice(q, stream, x, e) /\ IsSlice(framer.buffer, stream, x, a)
  <2>1. x <= e /\ e <= Len(stream) /\ a <= Len(stream)
    BY <1>7, <1>11, <1>12
  <2>2. IsSlice(Slice(stream, x, e), stream, x, e)
    BY <1>7, <2>1, ByteSlice
  <2>3. IsSlice(Slice(stream, x, a), stream, x, a)
    BY <1>7, <1>12, <2>1, ByteSlice
  <2> QED  BY <1>6, <1>7, <1>12, <1>14, <2>2, <2>3
<1>16. q \in Seq(Byte) /\ Len(q) = e - x /\ u = a - x
  BY <1>7, <1>15 DEF IsSlice
<1>17. Starts(q, framer.buffer)
  <2>1. \A k \in 1..(a - x) : k \in 1..(e - x)
    BY <1>11, <1>12
  <2>2. \A k \in 1..(a - x) : q[k] = framer.buffer[k]
    BY <1>15, <2>1 DEF IsSlice
  <2>3. Len(framer.buffer) = a - x /\ Len(framer.buffer) <= Len(q)
    BY <1>7, <1>11, <1>12, <1>16
  <2> QED  BY <2>2, <2>3 DEF Starts
<1>18. Len(q) = u + c /\ Len(q) <= t /\ (c < t - u <=> Len(q) < t)
  <2>1. Len(q) = u + c
    BY <1>10, <1>11, <1>12, <1>16
  <2>2. c <= t - u
    BY <1>10
  <2> QED  BY <2>1, <2>2
<1>19. Delivers(b, stream, at + c, delivered)
  BY <1>6, <1>7, <1>11, <1>12 DEF Delivers
<1>20. c \in 1..left /\ at + c \in 0..Len(stream) /\ at' = at + c
  BY <1>1, <1>7, <1>10, <1>11
<1>21. q = Slice(stream, b[Len(delivered)], at + c)
  BY <1>7, <1>11, <1>12, <1>14
<1>22. /\ Len(q) = Len(framer.buffer) + c /\ Len(q) <= framer.target
       /\ c < Wanted <=> Len(q) < framer.target
  BY <1>7, <1>9, <1>18
<1>23. Copies(b, c, q)
  BY <1>1, <1>3, <1>4, <1>5, <1>6, <1>10, <1>13, <1>16, <1>17, <1>19, <1>20, <1>21, <1>22 DEF Copies
<1> QED  BY <1>23


\* An iteration that delivers nothing: the buffer grew, and with it what is known.
LEMMA Stays ==
    ASSUME NEW b, NEW c, NEW q, Copies(b, c, q), NEW f \in Framers, framer' = f,
           f.buffer = q, Len(q) <= f.target,
           left' = (IF f.error = "OK" THEN left - c ELSE 0),
           UNCHANGED <<delivered, refused>>,
           f.error = "OK" => Underway(f),
           f.error # "OK" => f.error \in {"LIMIT", "FORMAT"} /\ Fault(q) = f.error
    PROVE  FramerInv'
<1>1. /\ c \in 1..left /\ at + c \in 0..Len(stream) /\ at' = at + c /\ stream' = stream
      /\ stream \in Seq(Byte) /\ at \in 0..Len(stream) /\ left \in 0..(Len(stream) - at)
      /\ delivered \in Seq(Seq(Byte)) /\ refused = FALSE
  BY DEF Copies, Alive, Typed
<1>2. left' \in 0..(Len(stream) - at')
  <2>1. PICK N \in Nat, a \in Nat, l \in Nat : N = Len(stream) /\ a = at /\ l = left
    BY <1>1
  <2>2. l <= N - a /\ c \in Nat /\ c <= l /\ at' = a + c /\ a + c <= N
    BY <1>1, <2>1
  <2>3. CASE f.error = "OK"
    <3>1. left' = l - c
      BY <2>1, <2>3
    <3> QED  BY <2>1, <2>2, <3>1
  <2>4. CASE f.error # "OK"
    <3>1. left' = 0
      BY <2>4
    <3> QED  BY <2>1, <2>2, <3>1
  <2> QED  BY <2>3, <2>4
<1>3. Typed(f, stream', at', left', delivered')
  BY <1>1, <1>2 DEF Typed
<1>4. Delivers(b, stream', at', delivered')
  BY <1>1 DEF Copies
<1>5. Standing(f, left')
  BY DEF Standing
<1>6. f.buffer = Slice(stream', b[Len(delivered')], at')
  BY <1>1 DEF Copies
<1>7. Going(f, stream', at', left', delivered', b)
  BY <1>5, <1>6 DEF Going
<1>8. Alive(framer', stream', at', left', delivered', b)
  BY <1>3, <1>4, <1>7 DEF Alive
<1>9. refused' = FALSE
  BY <1>1
<1> QED  BY <1>8, <1>9 DEF Alive, FramerInv

LEMMA UnderwayGrows ==
    ASSUME NEW f \in Framers, NEW g \in Framers, Underway(f),
           g.target = f.target, g.segments = f.segments, g.phase = f.phase,
           Starts(g.buffer, f.buffer), Len(g.buffer) < g.target
    PROVE  Underway(g)
<1>1. PICK p \in Seq(Byte), q \in Seq(Byte), n \in Nat : p = f.buffer /\ q = g.buffer /\ n = f.segments
  BY DEF Framers
<1>2. Starts(q, p) /\ Len(p) \in Nat /\ Len(q) \in Nat /\ Len(p) <= Len(q)
  BY <1>1 DEF Starts
<1>3. U \in Nat
  BY Limits
<1>4. g.target <= Capacity
  BY DEF Underway
<1>5. CASE Counting(f)
  BY <1>4, <1>5 DEF Counting, Underway
<1>6. CASE Measuring(f)
  <2>1. Len(p) >= U /\ n = SegmentCount(p) /\ f.target = table_size(n) /\ f.phase = 1
    BY <1>1, <1>6 DEF Measuring
  <2>2. SegmentCount(q) = SegmentCount(p)
    BY <1>2, <2>1, CountIs
  <2>3. Len(q) >= U
    BY <1>2, <1>3, <2>1
  <2>4. Measuring(g)
    BY <1>1, <2>1, <2>2, <2>3 DEF Measuring
  <2> QED  BY <1>4, <2>4 DEF Underway
<1>7. CASE Filling(f)
  <2>1. /\ Len(p) >= U /\ n = SegmentCount(p) /\ f.target = Size(p) /\ f.phase = 2
        /\ Tabled(p, n) /\ Entry(p, 1) # 0 /\ table_size(n) <= Capacity
    BY <1>1, <1>7 DEF Filling
  <2>2. /\ Tabled(q, n) /\ n = SegmentCount(q) /\ Entry(q, 1) = Entry(p, 1) /\ Size(q) = Size(p)
    BY <1>2, <2>1, TableDecides
  <2>3. Len(q) >= U
    BY <1>2, <1>3, <2>1
  <2>4. Filling(g)
    BY <1>1, <2>1, <2>2, <2>3 DEF Filling
  <2> QED  BY <1>4, <2>4 DEF Underway
<1> QED  BY <1>5, <1>6, <1>7 DEF Underway

LEMMA PartialKeeps == FramerInv /\ Partial => FramerInv'
<1> SUFFICES ASSUME FramerInv, Partial PROVE FramerInv'
  OBVIOUS
<1>1. PICK b, c, q : Copies(b, c, q)
  BY CopyIs DEF Partial
<1>2. /\ framer \in Framers /\ framer.error = "OK" /\ Underway(framer)
      /\ c = Copied /\ q = Buffered /\ q \in Seq(Byte) /\ Starts(q, framer.buffer)
      /\ c < Wanted <=> Len(q) < framer.target
  BY <1>1 DEF Copies, Alive, Typed
<1>3. PICK f : f = [framer EXCEPT !.buffer = q]
  OBVIOUS
<1>4. /\ f \in Framers /\ f.buffer = q /\ f.target = framer.target /\ f.error = "OK"
      /\ f.segments = framer.segments /\ f.phase = framer.phase
  BY <1>2, <1>3 DEF Framers
<1>5. /\ framer' = f /\ left' = (IF f.error = "OK" THEN left - c ELSE 0)
      /\ UNCHANGED <<delivered, refused>> /\ c < Wanted
  BY <1>2, <1>3 DEF Partial, Continue
<1>6. Len(q) < f.target
  BY <1>2, <1>4, <1>5
<1>7. Underway(f)
  BY <1>2, <1>4, <1>6, UnderwayGrows
<1>8. Len(q) <= f.target
  BY <1>1, <1>4 DEF Copies
<1> QED  BY <1>1, <1>4, <1>5, <1>7, <1>8, Stays

\* The assignments of an iteration to the fields of the framer.
Tallied(g, f, q, n, t) == g = [f EXCEPT !.buffer = q, !.segments = n, !.target = t]
Measured(g, f, q, t, ph) == g = [f EXCEPT !.buffer = q, !.target = t, !.phase = ph]

LEMMA CountSets ==
    ASSUME NEW f \in Framers, NEW q, NEW t, NEW n, NEW g, Tallied(g, f, q, n, t)
    PROVE  g = [buffer |-> q, target |-> t, segments |-> n, phase |-> f.phase, error |-> f.error]
<1>1. PICK x, y, z, u, v : f = [buffer |-> x, target |-> y, segments |-> z, phase |-> u, error |-> v]
  BY DEF Framers
<1> QED  BY <1>1 DEF Tallied

LEMMA TableSets ==
    ASSUME NEW f \in Framers, NEW q, NEW t, NEW ph, NEW g, Measured(g, f, q, t, ph)
    PROVE  g = [buffer |-> q, target |-> t, segments |-> f.segments, phase |-> ph, error |-> f.error]
<1>1. PICK x, y, z, u, v : f = [buffer |-> x, target |-> y, segments |-> z, phase |-> u, error |-> v]
  BY DEF Framers
<1> QED  BY <1>1 DEF Measured

\* After the number of segments.
LEMMA CountKeeps == FramerInv /\ Count => FramerInv'
<1> SUFFICES ASSUME FramerInv, Count PROVE FramerInv'
  OBVIOUS
<1>1. PICK b, c, q : Copies(b, c, q)
  BY CopyIs DEF Count
<1>2. /\ framer \in Framers /\ framer.error = "OK" /\ Underway(framer)
      /\ c = Copied /\ q = Buffered /\ q \in Seq(Byte) /\ Len(q) <= framer.target
      /\ c < Wanted <=> Len(q) < framer.target
  BY <1>1 DEF Copies, Alive, Typed
<1>3. c = Wanted /\ framer.phase = 0 /\ UNCHANGED <<delivered, refused>>
  BY <1>2 DEF Count
<1>4. framer.target = U /\ Len(q) = U /\ U \in Nat \ {0}
  <2>1. framer.target = U
    BY <1>2, <1>3 DEF Underway, Counting, Measuring, Filling
  <2>2. c \in Nat
    BY <1>1 DEF Copies, Alive, Typed
  <2>3. ~(c < Wanted)
    BY <1>3, <2>2
  <2> QED  BY <1>2, <2>1, <2>3, Limits
<1>5. PICK n \in Nat \ {0} : n = SegmentCount(q)
  BY <1>2, <1>4, CountIs
<1>6. PICK t \in Nat : t = table_size(n) /\ t = Header(n) /\ U < t
  BY <1>5, Units
<1>7. Capacity \in Nat /\ MaxSegments \in Nat
  BY Limits
<1>8. PICK g : g = [buffer |-> q, target |-> t, segments |-> n, phase |-> 0, error |-> "OK"]
  OBVIOUS
<1>9. [framer EXCEPT !.buffer = Buffered, !.segments = n, !.target = table_size(n)] = g
  <2>1. PICK e : Tallied(e, framer, q, n, t)
    BY DEF Tallied
  <2>2. e = [buffer |-> q, target |-> t, segments |-> n, phase |-> framer.phase,
             error |-> framer.error]
    BY <1>2, <2>1, CountSets
  <2>3. e = g
    BY <1>2, <1>3, <1>8, <2>2
  <2> QED  BY <1>2, <1>6, <2>1, <2>3 DEF Tallied
<1>10. n = Entry(Buffered, 0) + 1
  BY <1>2, <1>5 DEF SegmentCount
<1>11. Continue(IF n > MaxSegments THEN Poison("LIMIT")
                ELSE IF g.target > Capacity THEN [g EXCEPT !.error = "LIMIT"]
                ELSE [g EXCEPT !.phase = 1])
  BY <1>9, <1>10 DEF Count
<1>12. CASE n > MaxSegments
  <2>1. PICK f : f = Poison("LIMIT")
    OBVIOUS
  <2>2. f \in Framers /\ f.buffer = q /\ f.target = framer.target /\ f.error = "LIMIT"
    BY <1>2, <2>1 DEF Poison, Framers
  <2>3. framer' = f /\ left' = (IF f.error = "OK" THEN left - c ELSE 0)
    BY <1>2, <1>11, <1>12, <2>1 DEF Continue
  <2>4. Fault(q) = "LIMIT"
    BY <1>4, <1>5, <1>12 DEF Fault
  <2> QED  BY <1>1, <1>2, <1>3, <2>2, <2>3, <2>4, Stays
<1>13. CASE ~(n > MaxSegments) /\ t > Capacity
  <2>1. PICK f : f = [g EXCEPT !.error = "LIMIT"]
    OBVIOUS
  <2>2. f = [buffer |-> q, target |-> t, segments |-> n, phase |-> 0, error |-> "LIMIT"]
    BY <1>8, <2>1
  <2>3. f \in Framers /\ f.buffer = q /\ f.target = t /\ f.error = "LIMIT"
    <3>1. n \in 0..MaxSegments
      BY <1>7, <1>13
    <3> QED  BY <1>2, <2>2, <3>1 DEF Framers
  <2>4. framer' = f /\ left' = (IF f.error = "OK" THEN left - c ELSE 0)
    BY <1>2, <1>8, <1>11, <1>13, <2>1 DEF Continue
  <2>5. Fault(q) = "LIMIT"
    BY <1>4, <1>5, <1>6, <1>13 DEF Fault
  <2>6. Len(q) <= f.target
    BY <1>4, <1>6, <2>3
  <2> QED  BY <1>1, <1>3, <2>3, <2>4, <2>5, <2>6, Stays
<1>14. CASE ~(n > MaxSegments) /\ ~(t > Capacity)
  <2>1. PICK f : f = [g EXCEPT !.phase = 1]
    OBVIOUS
  <2>2. f = [buffer |-> q, target |-> t, segments |-> n, phase |-> 1, error |-> "OK"]
    BY <1>8, <2>1
  <2>3. /\ f \in Framers /\ f.buffer = q /\ f.target = t /\ f.error = "OK" /\ f.phase = 1
        /\ f.segments = n
    <3>1. n \in 0..MaxSegments
      BY <1>7, <1>14
    <3> QED  BY <1>2, <2>2, <3>1 DEF Framers
  <2>4. framer' = f /\ left' = (IF f.error = "OK" THEN left - c ELSE 0)
    BY <1>2, <1>8, <1>11, <1>14, <2>1 DEF Continue
  <2>5. Len(q) < f.target /\ Len(q) <= f.target /\ f.target <= Capacity /\ Len(q) >= U
    BY <1>4, <1>6, <1>7, <1>14, <2>3
  <2>6. Measuring(f)
    BY <1>5, <1>6, <2>3, <2>5 DEF Measuring
  <2>7. Underway(f)
    BY <2>3, <2>5, <2>6 DEF Underway
  <2> QED  BY <1>1, <1>3, <2>3, <2>4, <2>5, <2>7, Stays
<1> QED  BY <1>12, <1>13, <1>14

\* After the table.
LEMMA TableKeeps == FramerInv /\ Table => FramerInv'
<1> SUFFICES ASSUME FramerInv, Table PROVE FramerInv'
  OBVIOUS
<1>1. PICK b, c, q : Copies(b, c, q)
  BY CopyIs DEF Table
<1>2. /\ framer \in Framers /\ framer.error = "OK" /\ Underway(framer)
      /\ c = Copied /\ q = Buffered /\ q \in Seq(Byte) /\ Len(q) <= framer.target
      /\ Starts(q, framer.buffer)
      /\ c < Wanted <=> Len(q) < framer.target
  BY <1>1 DEF Copies, Alive, Typed
<1>3. c = Wanted /\ framer.phase = 1 /\ UNCHANGED <<delivered, refused>>
  BY <1>2 DEF Table
<1>4. Measuring(framer) /\ framer.target <= Capacity
  BY <1>2, <1>3 DEF Underway, Counting, Filling
<1>5. PICK n \in Nat : n = framer.segments /\ n <= MaxSegments
  BY <1>2, Limits DEF Framers
<1>6. PICK t \in Nat : t = framer.target
  BY <1>2 DEF Framers
<1>7. /\ U \in Nat \ {0} /\ t = table_size(n) /\ t = Header(n) /\ U < t /\ t <= Capacity
      /\ Capacity \in Nat /\ MaxSegments \in Nat
  BY <1>4, <1>5, <1>6, Units, Limits DEF Measuring
<1>8. Len(q) = t
  <2>1. c \in Nat
    BY <1>1 DEF Copies, Alive, Typed
  <2>2. ~(c < Wanted)
    BY <1>3, <2>1
  <2> QED  BY <1>2, <1>6, <2>2
<1>9. n = SegmentCount(q) /\ n # 0
  <2>1. /\ Len(framer.buffer) >= U /\ n = SegmentCount(framer.buffer)
        /\ framer.buffer \in Seq(Byte)
    BY <1>2, <1>4, <1>5 DEF Measuring, Framers
  <2> QED  BY <1>2, <2>1, CountIs
<1>10. Tabled(q, n)
  BY <1>2, <1>7, <1>8, <1>9 DEF Tabled
<1>11. PICK h : Offsets(h, q, n) /\ \A k \in 1..(n + 1) : Offset(q, n, k) = h[k - 1]
  BY <1>10, OffsetLoop
<1>12. PICK size \in Nat : size = h[n] /\ size = Size(q)
  <2>1. h[n] \in Nat
    BY <1>11 DEF Offsets
  <2> QED  BY <1>9, <1>10, <1>11, <2>1, SizeIs
<1>13. total_size(q, n, Capacity) = IF Entry(q, 1) = 0 THEN Result("FORMAT", 0)
                                    ELSE IF size > Capacity THEN Result("LIMIT", 0)
                                    ELSE Result("OK", size)
  <2>1. total_size(q, n, Capacity) = IF Entry(q, 1) = 0 THEN Result("FORMAT", 0)
                                     ELSE IF h[n] > Capacity THEN Result("LIMIT", 0)
                                     ELSE Result("OK", h[n])
    <3>1. PICK cap \in Nat : cap = Capacity /\ table_size(n) <= cap
      BY <1>7
    <3>2. total_size(q, n, cap) = IF Entry(q, 1) = 0 THEN Result("FORMAT", 0)
                                  ELSE IF h[n] > cap THEN Result("LIMIT", 0)
                                  ELSE Result("OK", h[n])
      BY <1>10, <1>11, <3>1, TotalSize
    <3> QED  BY <3>1, <3>2
  <2> QED  BY <1>12, <2>1
<1>14. PICK r : r = total_size(q, n, Capacity)
  OBVIOUS
<1>15. Continue(IF r.rc # "OK" THEN Poison(r.rc)
                ELSE [framer EXCEPT !.buffer = Buffered, !.target = r.total, !.phase = 2])
  BY <1>2, <1>5, <1>14 DEF Table
<1>16. ~(Len(q) < U) /\ ~(n > MaxSegments \/ Header(n) > Capacity) /\ ~(Len(q) < Header(n))
  BY <1>5, <1>7, <1>8
<1>17. ASSUME NEW rc \in {"FORMAT", "LIMIT"}, r.rc = rc, Fault(q) = rc
       PROVE  FramerInv'
  <2>1. PICK f : f = Poison(rc)
    OBVIOUS
  <2>2. f \in Framers /\ f.buffer = q /\ f.target = framer.target /\ f.error = rc
    BY <1>2, <2>1 DEF Poison, Framers
  <2>3. rc # "OK"
    OBVIOUS
  <2>4. framer' = f /\ left' = (IF f.error = "OK" THEN left - c ELSE 0)
    BY <1>2, <1>15, <1>17, <2>1, <2>3 DEF Continue
  <2> QED  BY <1>1, <1>2, <1>3, <1>17, <2>2, <2>3, <2>4, Stays
<1>18. CASE Entry(q, 1) = 0
  <2>1. r.rc = "FORMAT"
    BY <1>13, <1>14, <1>18 DEF Result
  <2>2. Fault(q) = "FORMAT"
    BY <1>9, <1>16, <1>18 DEF Fault
  <2> QED  BY <1>17, <2>1, <2>2
<1>19. CASE Entry(q, 1) # 0 /\ size > Capacity
  <2>1. r.rc = "LIMIT"
    BY <1>13, <1>14, <1>19 DEF Result
  <2>2. Fault(q) = "LIMIT"
    BY <1>9, <1>12, <1>16, <1>19 DEF Fault
  <2> QED  BY <1>17, <2>1, <2>2
<1>20. CASE Entry(q, 1) # 0 /\ ~(size > Capacity)
  <2>1. r.rc = "OK" /\ r.total = size
    BY <1>13, <1>14, <1>20 DEF Result
  <2>2. PICK f : f = [buffer |-> q, target |-> size, segments |-> n, phase |-> 2, error |-> "OK"]
    OBVIOUS
  <2>3. [framer EXCEPT !.buffer = Buffered, !.target = r.total, !.phase = 2] = f
    <3>1. PICK e : Measured(e, framer, q, size, 2)
      BY DEF Measured
    <3>2. e = [buffer |-> q, target |-> size, segments |-> framer.segments, phase |-> 2,
               error |-> framer.error]
      BY <1>2, <3>1, TableSets
    <3>3. e = f
      BY <1>2, <1>5, <2>2, <3>2
    <3> QED  BY <1>2, <2>1, <3>1, <3>3 DEF Measured
  <2>4. /\ f \in Framers /\ f.buffer = q /\ f.target = size /\ f.error = "OK" /\ f.phase = 2
        /\ f.segments = n
    <3>1. n \in 0..MaxSegments
      BY <1>5, <1>7
    <3> QED  BY <1>2, <2>2, <3>1 DEF Framers
  <2>5. framer' = f /\ left' = (IF f.error = "OK" THEN left - c ELSE 0)
    BY <1>2, <1>15, <2>1, <2>3 DEF Continue
  <2>6. t < size
    BY <1>7, <1>10, <1>11, <1>12, <1>20, SizeAbove
  <2>7. Len(q) < f.target /\ Len(q) <= f.target /\ f.target <= Capacity /\ Len(q) >= U
    BY <1>7, <1>8, <1>20, <2>4, <2>6
  <2>8. Filling(f)
    BY <1>7, <1>9, <1>10, <1>12, <1>20, <2>4, <2>7 DEF Filling
  <2>9. Underway(f)
    BY <2>4, <2>7, <2>8 DEF Underway
  <2> QED  BY <1>1, <1>3, <2>4, <2>5, <2>7, <2>9, Stays
<1> QED  BY <1>18, <1>19, <1>20

\* With the last byte of a frame the buffer holds all of it.
LEMMA FrameWhole ==
    ASSUME NEW f \in Framers, Underway(f), f.phase = 2, NEW q \in Seq(Byte),
           Starts(q, f.buffer), Len(q) = f.target
    PROVE  Whole(q)
<1>1. PICK p \in Seq(Byte), n \in Nat : p = f.buffer /\ n = f.segments /\ n <= MaxSegments
  BY Limits DEF Framers
<1>2. Filling(f) /\ f.target <= Capacity
  BY DEF Underway, Counting, Measuring
<1>3. /\ Len(p) >= U /\ n = SegmentCount(p) /\ Tabled(p, n) /\ Entry(p, 1) # 0
      /\ f.target = Size(p)
  BY <1>1, <1>2 DEF Filling
<1>4. /\ Tabled(q, n) /\ n = SegmentCount(q) /\ Entry(q, 1) = Entry(p, 1) /\ Size(q) = Size(p)
  BY <1>1, <1>3, TableDecides
<1>5. Len(q) >= U
  <2>1. Len(p) \in Nat /\ Len(q) \in Nat /\ U \in Nat /\ Len(p) <= Len(q)
    BY <1>1, Limits DEF Starts
  <2> QED  BY <1>3, <2>1
<1> QED  BY <1>1, <1>2, <1>3, <1>4, <1>5 DEF Whole

\* One more frame, up to the byte at e.
Reaches(c, s, e, d) == Delivers(c, s, e, d) /\ c[Len(d)] = e

LEMMA BoundsGrow ==
    ASSUME NEW s \in Seq(Byte), NEW d \in Seq(Seq(Byte)), NEW b, NEW a \in 0..Len(s),
           Delivers(b, s, a, d), NEW e \in 0..Len(s), a <= e, NEW q, Whole(q),
           q = Slice(s, b[Len(d)], e), NEW g, g = Append(d, q)
    PROVE  \E c : Reaches(c, s, e, g)
<1>1. PICK m \in Nat, N \in Nat : m = Len(d) /\ N = Len(s)
  OBVIOUS
<1>2. PICK n \in Nat : n = m + 1
  BY <1>1
<1>3. /\ Len(g) = n /\ g[n] = q /\ \A j \in 1..m : g[j] = d[j]
  <2>1. q \in Seq(Byte)
    BY DEF Whole
  <2> QED  BY <1>1, <1>2, <2>1, AppendProperties
<1>4. b \in [0..m -> 0..N] /\ b[0] = 0 /\ b[m] <= a /\ a \in Nat /\ e \in Nat /\ e <= N
  BY <1>1 DEF Delivers, Bounds
<1>5. \A j \in 1..m : b[j - 1] <= b[j] /\ d[j] = Slice(s, b[j - 1], b[j]) /\ Whole(d[j])
  BY <1>1 DEF Delivers, Bounds
<1>6. PICK c : c = [j \in 0..n |-> IF j = n THEN e ELSE b[j]]
  OBVIOUS
<1>7. c[n] = e /\ \A j \in 0..m : c[j] = b[j]
  <2>1. n \in 0..n /\ \A j \in 0..m : j \in 0..n /\ j # n
    BY <1>1, <1>2
  <2> QED  BY <1>6, <2>1
<1>8. c \in [0..n -> 0..N]
  <2>1. \A j \in 0..n : c[j] \in 0..N
    <3> TAKE j \in 0..n
    <3>1. j = n \/ j \in 0..m
      BY <1>1, <1>2
    <3>2. e \in 0..N
      BY <1>1
    <3> QED  BY <1>4, <1>7, <3>1, <3>2
  <2> QED  BY <1>6, <2>1
<1>9. c[0] = 0
  <2>1. 0 \in 0..m
    BY <1>1
  <2> QED  BY <1>4, <1>7, <2>1
<1>10. ASSUME NEW j \in 1..n
       PROVE  c[j - 1] <= c[j] /\ g[j] = Slice(s, c[j - 1], c[j]) /\ Whole(g[j])
  <2>1. CASE j \in 1..m
    <3>1. j \in 0..m /\ j - 1 \in 0..m
      BY <1>1, <2>1
    <3> QED  BY <1>3, <1>5, <1>7, <2>1, <3>1
  <2>2. CASE j = n
    <3>1. j - 1 = m /\ m \in 0..m
      BY <1>1, <1>2, <2>2
    <3>2. c[j - 1] = b[m] /\ c[j] = e /\ g[j] = q
      BY <1>3, <1>7, <2>2, <3>1
    <3>3. b[m] \in 0..N
      BY <1>4, <3>1
    <3>4. b[m] <= e
      BY <1>1, <1>4, <3>3
    <3> QED  BY <1>1, <3>2, <3>4
  <2>3. j \in 1..m \/ j = n
    BY <1>1, <1>2
  <2> QED  BY <2>1, <2>2, <2>3
<1>11. Bounds(c, g, s)
  BY <1>1, <1>3, <1>8, <1>9, <1>10 DEF Bounds
<1>12. c[Len(g)] <= e /\ c[Len(g)] = e
  BY <1>3, <1>4, <1>7
<1> QED  BY <1>11, <1>12 DEF Delivers, Reaches

\* After the last byte of a frame: the callback.
LEMMA MessageKeeps ==
    ASSUME FramerInv, NEW ok \in BOOLEAN, Message(ok)
    PROVE  FramerInv'
<1>1. PICK b, c, q : Copies(b, c, q)
  BY CopyIs DEF Message
<1>2. /\ framer \in Framers /\ framer.error = "OK" /\ Underway(framer)
      /\ c = Copied /\ q = Buffered /\ q \in Seq(Byte) /\ Len(q) <= framer.target
      /\ Starts(q, framer.buffer)
      /\ c < Wanted <=> Len(q) < framer.target
  BY <1>1 DEF Copies, Alive, Typed
<1>3. /\ c = Wanted /\ framer.phase = 2 /\ delivered' = Append(delivered, q) /\ refused' = ~ok
      /\ Continue(IF ok THEN Empty ELSE Poison("REFUSED"))
  BY <1>2 DEF Message
<1>4. Len(q) = framer.target
  <2>1. c \in Nat
    BY <1>1 DEF Copies, Alive, Typed
  <2>2. ~(c < Wanted)
    BY <1>3, <2>1
  <2>3. framer.target \in Nat /\ Len(q) \in Nat
    BY <1>2 DEF Framers
  <2> QED  BY <1>2, <2>2, <2>3
<1>5. Whole(q)
  BY <1>2, <1>3, <1>4, FrameWhole
<1>6. /\ stream \in Seq(Byte) /\ at \in 0..Len(stream) /\ left \in 0..(Len(stream) - at)
      /\ delivered \in Seq(Seq(Byte)) /\ Delivers(b, stream, at, delivered)
      /\ c \in 1..left /\ at + c \in 0..Len(stream) /\ at' = at + c /\ stream' = stream
      /\ q = Slice(stream, b[Len(delivered)], at + c)
  BY <1>1 DEF Copies, Alive, Typed
<1>7. PICK e \in 0..Len(stream) : e = at + c /\ at <= e /\ at' = e
  BY <1>6
<1>8. PICK g : g = Append(delivered, q)
  OBVIOUS
<1>9. PICK h : Delivers(h, stream, e, g) /\ h[Len(g)] = e
  <2>1. q = Slice(stream, b[Len(delivered)], e)
    BY <1>6, <1>7
  <2>2. PICK s \in Seq(Byte), d \in Seq(Seq(Byte)) : s = stream /\ d = delivered
    BY <1>6
  <2>3. PICK a \in 0..Len(s) : a = at /\ a <= e /\ e \in 0..Len(s)
    BY <1>6, <1>7, <2>2
  <2>4. Delivers(b, s, a, d) /\ q = Slice(s, b[Len(d)], e) /\ g = Append(d, q)
    BY <1>6, <1>8, <2>1, <2>2, <2>3
  <2>5. \E h : Reaches(h, s, e, g)
    BY <1>5, <2>3, <2>4, BoundsGrow
  <2> QED  BY <2>2, <2>5 DEF Reaches
<1>10. g \in Seq(Seq(Byte))
  BY <1>2, <1>6, <1>8
<1>11. e \in Nat /\ 0 \in 0..(Len(stream) - e) /\ left - c \in 0..(Len(stream) - e)
  <2>1. PICK N \in Nat, a \in Nat, l \in Nat : N = Len(stream) /\ a = at /\ l = left
    BY <1>6
  <2>2. l <= N - a /\ c \in Nat /\ c <= l /\ e = a + c /\ e <= N
    BY <1>6, <1>7, <2>1
  <2> QED  BY <2>1, <2>2
<1>12. Delivers(h, stream', at', delivered') /\ h[Len(delivered')] = at'
  BY <1>3, <1>6, <1>7, <1>8, <1>9
<1>13. CASE ok
  <2>1. framer' = Empty /\ refused' = FALSE
    BY <1>3, <1>13 DEF Continue
  <2>2. left' = left - c
    BY <1>2, <1>3, <1>13 DEF Continue, Empty
  <2>3. /\ Empty \in Framers /\ Empty.buffer = <<>> /\ Len(Empty.buffer) = 0 /\ Empty.error = "OK"
        /\ Empty.phase = 0 /\ Empty.target = U
    BY Limits DEF Empty, Framers
  <2>4. U \in Nat \ {0} /\ U <= Capacity
    <3>1. Word = 2 * U
      BY DEF Word
    <3> QED  BY <3>1, Limits
  <2>5. Typed(Empty, stream', at', left', delivered')
    BY <1>3, <1>6, <1>7, <1>8, <1>10, <1>11, <2>2, <2>3, <2>4 DEF Typed
  <2>6. Slice(stream', at', at') = <<>>
    BY <1>6, <1>7, <1>11, SubSeqEmpty DEF Slice
  <2>7. Standing(Empty, left')
    BY <2>3, <2>4 DEF Standing, Underway, Counting
  <2>8. Going(Empty, stream', at', left', delivered', h)
    BY <1>12, <2>3, <2>6, <2>7 DEF Going
  <2>9. Alive(framer', stream', at', left', delivered', h)
    BY <1>12, <2>1, <2>5, <2>8 DEF Alive
  <2> QED  BY <2>1, <2>9 DEF Alive, FramerInv
<1>14. CASE ~ok
  <2>1. PICK f : f = Poison("REFUSED")
    OBVIOUS
  <2>2. f \in Framers /\ f.buffer = q /\ f.target = framer.target /\ f.error = "REFUSED"
    BY <1>2, <2>1 DEF Poison, Framers
  <2>3. framer' = f /\ left' = 0 /\ refused' = TRUE
    BY <1>3, <1>14, <2>1, <2>2 DEF Continue
  <2>4. Typed(f, stream', at', left', delivered')
    BY <1>2, <1>3, <1>6, <1>7, <1>8, <1>10, <1>11, <2>2, <2>3 DEF Typed
  <2>5. Refusal(framer', at', left', delivered', h)
    BY <1>12, <2>2, <2>3 DEF Refusal
  <2> QED  BY <1>12, <2>3, <2>4, <2>5 DEF FramerInv
<1> QED  BY <1>13, <1>14

LEMMA FramerNext == FramerInv /\ [Next]_vars => FramerInv'
<1> SUFFICES ASSUME FramerInv, [Next]_vars PROVE FramerInv'
  OBVIOUS
<1>1. CASE Reset
  BY <1>1, ResetKeeps
<1>2. CASE \E n \in 1..(Len(stream) - at) : Feed(n)
  BY <1>2, FeedKeeps
<1>3. CASE Partial
  BY <1>3, PartialKeeps
<1>4. CASE Count
  BY <1>4, CountKeeps
<1>5. CASE Table
  BY <1>5, TableKeeps
<1>6. CASE \E ok \in BOOLEAN : Message(ok)
  BY <1>6, MessageKeeps
<1>7. CASE UNCHANGED vars
  BY <1>7 DEF vars, FramerInv
<1> QED  BY <1>1, <1>2, <1>3, <1>4, <1>5, <1>6, <1>7 DEF Next

\* However cf_capnp_feed is called, the bytes consumed are the frames delivered,
\* one after the other, followed by what the buffer holds of the next one.
THEOREM FramerInvariance == Spec => []FramerInv
  BY InitFramer, FramerNext, PTL DEF Spec

\* cf_capnp_feed stays inside the caller's buffer, whatever lengths the peer
\* puts into a segment table.
THEOREM FramerTypes == Spec => []TypeOK
  BY FramerInvariance, FramerInvType, PTL

\* Whatever the stream and its fragmentation, cf_capnp_feed delivers exactly the
\* frames that the format cuts it into, reports the same error or truncation,
\* and cf_capnp_segment finds the segments of each frame delivered.
THEOREM FragmentationUnseen == Spec => []FragmentationInvisible
  BY FramerInvariance, FramerInvCuts, PTL
=============================================================================
