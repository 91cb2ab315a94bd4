------------------------------- MODULE Framer -------------------------------
(***************************************************************************)
(* The incremental framer of cf_capnp_framing.c: it cuts the byte stream   *)
(* of the control stream into Cap'n Proto messages, in whatever pieces     *)
(* HTTP/2 delivers it.  Each iteration of the loop of cf_capnp_feed is one *)
(* action, so a stream is fed in every possible fragmentation.             *)
(*                                                                         *)
(* A frame is a segment table, which holds the number of segments minus    *)
(* one and the size of each in words, padded to a word, and the segments.  *)
(* An entry of the table has U bytes and a word 2 * U (4 and 8 in the      *)
(* code).                                                                  *)
(***************************************************************************)
EXTENDS Integers, SequencesExt

CONSTANTS
    U,            \* sizeof(uint32_t)
    Capacity,     \* size of the caller's buffer
    MessageMax,   \* CF_CAPNP_MESSAGE_MAX
    MaxSegments,  \* CF_CAPNP_MAX_SEGMENTS
    Streams       \* byte sequences the peer may send

Byte == 0..255
Word == 2 * U

ASSUME FramerAssumption ==
    /\ U \in Nat \ {0}
    /\ MaxSegments \in Nat \ {0} /\ MessageMax \in Nat
    /\ Capacity \in (2 * Word)..MessageMax
    /\ Streams \subseteq Seq(Byte)

VARIABLES
    framer,     \* cf_capnp_framer; used is the length of buffer
    stream,     \* what the peer sends on this control stream
    at,         \* bytes of stream that were consumed
    left,       \* bytes of the current cf_capnp_feed call not consumed yet
    delivered,  \* history: the frames the callback was given
    refused     \* history: whether the callback failed

vars == <<framer, stream, at, left, delivered, refused>>

-----------------------------------------------------------------------------
\* u32: little endian.
Value(p) ==
    LET high[i \in 0..Len(p)] ==
          IF i = 0 THEN 0 ELSE p[Len(p) + 1 - i] + 256 * high[i - 1]
    IN high[Len(p)]

\* Entry i of a segment table; entry 0 is the number of segments minus one.
Entry(p, i) == Value(SubSeq(p, U * i + 1, U * (i + 1)))

table_size(n) == ((n + 2) \div 2) * Word

\* Where segment k (from 1) starts in a frame of n segments.
Offset(p, n, k) ==
    LET total[i \in 0..n] ==
          IF i = 0 THEN table_size(n) ELSE total[i - 1] + Entry(p, i) * Word
    IN total[k - 1]

Result(rc, total) == [rc |-> rc, total |-> total]

\* Mutant: a frame that fills the buffer is refused.
SizeBelow(p, n, cap) ==
    IF table_size(n) > cap THEN Result("LIMIT", 0)
    ELSE IF Entry(p, 1) = 0 THEN Result("FORMAT", 0)
    ELSE IF \E i \in 1..n : Entry(p, i) >= (cap - Offset(p, n, i)) \div Word
         THEN Result("LIMIT", 0)
    ELSE Result("OK", Offset(p, n, n + 1))

\* The comparison with what is left of cap keeps the sum from overflowing;
\* the loop stops at the first segment that is too large.
total_size(p, n, cap) ==
    IF table_size(n) > cap THEN Result("LIMIT", 0)
    ELSE IF Entry(p, 1) = 0 THEN Result("FORMAT", 0)
    ELSE IF \E i \in 1..n : Entry(p, i) > (cap - Offset(p, n, i)) \div Word
         THEN Result("LIMIT", 0)
    ELSE Result("OK", Offset(p, n, n + 1))

Empty == [buffer |-> <<>>, target |-> U, segments |-> 0, phase |-> 0,
          error |-> "OK"]

Init == /\ framer = Empty
        /\ stream \in Streams
        /\ at = 0
        /\ left = 0
        /\ delivered = <<>>
        /\ refused = FALSE

\* A new control stream: cf_capnp_framer_init.
Reset == /\ left = 0
         /\ framer' = Empty
         /\ stream' \in Streams
         /\ at' = 0
         /\ delivered' = <<>>
         /\ refused' = FALSE
         /\ UNCHANGED left

\* A call of cf_capnp_feed with the next n bytes.  A poisoned framer returns
\* its error and consumes nothing.
Feed(n) == /\ left = 0
           /\ framer.error = "OK"
           /\ left' = n
           /\ UNCHANGED <<framer, stream, at, delivered, refused>>

\* One memcpy of the loop: up to the target, or what is left of the input.
Wanted == framer.target - Len(framer.buffer)
Copied == IF Wanted > left THEN left ELSE Wanted
Buffered == framer.buffer \o SubSeq(stream, at + 1, at + Copied)

Copy == /\ left > 0
        /\ at' = at + Copied
        /\ UNCHANGED stream

\* The rest of the iteration.  An error is kept and ends the call.
Continue(f) == /\ framer' = f
               /\ left' = IF f.error = "OK" THEN left - Copied ELSE 0

Poison(rc) == [framer EXCEPT !.buffer = Buffered, !.error = rc]

Partial == /\ Copy
           /\ Copied < Wanted
           /\ Continue([framer EXCEPT !.buffer = Buffered])
           /\ UNCHANGED <<delivered, refused>>

\* A table larger than the buffer is found out after the target was set.
Count ==
    LET n == Entry(Buffered, 0) + 1
        f == [framer EXCEPT !.buffer = Buffered, !.segments = n,
                            !.target = table_size(n)]
    IN /\ Copy
       /\ Copied = Wanted
       /\ framer.phase = 0
       /\ Continue(IF n > MaxSegments THEN Poison("LIMIT")
                   ELSE IF f.target > Capacity THEN [f EXCEPT !.error = "LIMIT"]
                   ELSE [f EXCEPT !.phase = 1])
       /\ UNCHANGED <<delivered, refused>>

Table ==
    LET size == total_size(Buffered, framer.segments, Capacity)
    IN /\ Copy
       /\ Copied = Wanted
       /\ framer.phase = 1
       /\ Continue(IF size.rc # "OK"
                   THEN Poison(size.rc)
                   ELSE [framer EXCEPT !.buffer = Buffered,
                                       !.target = size.total, !.phase = 2])
       /\ UNCHANGED <<delivered, refused>>

\* The callback takes the message, and the framer starts over, or fails.
Message(ok) == /\ Copy
               /\ Copied = Wanted
               /\ framer.phase = 2
               /\ Continue(IF ok THEN Empty ELSE Poison("REFUSED"))
               /\ delivered' = Append(delivered, Buffered)
               /\ refused' = ~ok

Next == \/ Reset
        \/ \E n \in 1..(Len(stream) - at) : Feed(n)
        \/ Partial
        \/ Count
        \/ Table
        \/ \E ok \in BOOLEAN : Message(ok)

Spec == Init /\ [][Next]_vars

-----------------------------------------------------------------------------
\* cf_capnp_eof: what the end of the stream means at this point.
Eof == IF framer.error # "OK" THEN framer.error
       ELSE IF framer.buffer # <<>> THEN "TRUNCATED" ELSE "OK"

View(rc, bytes) == [rc |-> rc, bytes |-> bytes]

\* cf_capnp_segment: segment index, from 0, of a frame.
Segment(frame, index) ==
    LET n     == Entry(frame, 0) + 1
        size  == total_size(frame, n, MessageMax)
        start == Offset(frame, n, index + 1)
    IN IF Len(frame) < Word THEN View("TRUNCATED", <<>>)
       ELSE IF n > MaxSegments THEN View("LIMIT", <<>>)
       ELSE IF index >= n THEN View("ARGUMENT", <<>>)
       ELSE IF table_size(n) > Len(frame) THEN View("TRUNCATED", <<>>)
       ELSE IF size.rc # "OK" THEN View(size.rc, <<>>)
       ELSE IF size.total > Len(frame) THEN View("TRUNCATED", <<>>)
       ELSE IF size.total < Len(frame) THEN View("FORMAT", <<>>)
       ELSE View("OK", SubSeq(frame, start + 1,
                              start + Entry(frame, index + 1) * Word))

-----------------------------------------------------------------------------
(* The reference: a stream is cut as a whole, from the format.             *)

\* The size of the frame at the start of p, from its table alone.
Header(n) == U * ((n + 1) + ((n + 1) % 2))

BodyWords(p, n) ==
    LET sum[i \in 0..n] == IF i = 0 THEN 0 ELSE sum[i - 1] + Entry(p, i)
    IN sum[n]

SegmentCount(p) == Entry(p, 0) + 1
Size(p) == Header(SegmentCount(p)) + Word * BodyWords(p, SegmentCount(p))

\* The error that the bytes of p already have, whatever follows them.
Fault(p) ==
    IF Len(p) < U THEN "OK"
    ELSE IF SegmentCount(p) > MaxSegments \/ Header(SegmentCount(p)) > Capacity THEN "LIMIT"
    ELSE IF Len(p) < Header(SegmentCount(p)) THEN "OK"
    ELSE IF Entry(p, 1) = 0 THEN "FORMAT"
    ELSE IF Size(p) > Capacity THEN "LIMIT" ELSE "OK"

\* p starts with a frame.
Complete(p) ==
    /\ Fault(p) = "OK"
    /\ Len(p) >= U
    /\ Len(p) >= Header(SegmentCount(p))
    /\ Len(p) >= Size(p)

\* What a sequence of bytes stands for: its complete frames, the error that
\* ends it and the number of bytes of an incomplete last frame.
Meaning(frames, error, rest) == [frames |-> frames, error |-> error, rest |-> rest]

Cut(s) ==
    LET From[i \in 0..Len(s)] ==
          LET p    == SubSeq(s, i + 1, Len(s))
              next == From[i + Size(p)]
          IN IF Complete(p)
             THEN Meaning(<<SubSeq(p, 1, Size(p))>> \o next.frames, next.error, next.rest)
             ELSE Meaning(<<>>, Fault(p), IF Fault(p) = "OK" THEN Len(p) ELSE 0)
    IN From[0]

\* The framer never copies past its target, nor goes on with one past the
\* buffer, so cf_capnp_feed stays inside the memory of the caller.
TypeOK ==
    /\ framer.buffer \in Seq(Byte)
    /\ framer.target \in Nat
    /\ Len(framer.buffer) <= framer.target
    /\ framer.error = "OK" => framer.target <= Capacity
    /\ framer.segments \in 0..MaxSegments
    /\ framer.phase \in 0..2
    /\ framer.error \in {"OK", "LIMIT", "FORMAT", "REFUSED"}
    /\ at \in 0..Len(stream)
    /\ left \in 0..(Len(stream) - at)
    /\ delivered \in Seq(Seq(Byte))
    /\ refused \in BOOLEAN

\* The segments of a frame are disjoint, in order and make up all of it but the
\* table.
Partitioned(frame) ==
    LET n     == Entry(frame, 0) + 1
        views == [k \in 1..n |-> Segment(frame, k - 1)]
    IN /\ \A k \in 1..n : views[k].rc = "OK"
       /\ FlattenSeq([k \in 1..n |-> views[k].bytes])
            = SubSeq(frame, table_size(n) + 1, Len(frame))

\* However the stream was fragmented, the callback saw the frames of the bytes
\* consumed so far, in order, each once and whole; an error or a truncation is
\* reported when the whole stream has one, and a refusal ends the stream.
\* cf_capnp_segment finds the segments of every frame delivered.
FragmentationInvisible ==
    LET whole == Cut(SubSeq(stream, 1, at))
    IN /\ delivered = whole.frames
       /\ \A i \in DOMAIN delivered : Partitioned(delivered[i])
       /\ refused => framer.error = "REFUSED" /\ whole.error = "OK" /\ whole.rest = 0
       /\ ~refused => Eof = IF whole.error # "OK" THEN whole.error
                            ELSE IF whole.rest > 0 THEN "TRUNCATED" ELSE "OK"
=============================================================================
