---------------------------- MODULE BackendProofs ----------------------------
(***************************************************************************)
(* Proofs about the HTTP/2 session and the monitor's backend behind it,    *)
(* for any number of streams and any limits.  A step of the backend is a   *)
(* step of the session, so what is proved of the session also holds when   *)
(* its callbacks are the monitor's.                                        *)
(***************************************************************************)
EXTENDS Backend, FiniteSetTheorems, TLAPS

\* The flags of an entry are only set while the entry is in use, and a header
\* block under way belongs to a request whose headers are not complete.
Flags == /\ headersDone \subseteq slots /\ response \subseteq slots
         /\ headerStream \notin headersDone

\* The table of entries is not overrun.
TableBounded == Cardinality(slots) <= SlotCount

H2Inv == TypeOK /\ SlotsAccounted /\ Flags /\ TableBounded

-----------------------------------------------------------------------------
\* Sets of streams are finite, and their sizes change by one with an element.
LEMMA Sizes ==
    ASSUME NEW S \in SUBSET Streams, NEW s \in Streams
    PROVE  /\ Cardinality(S) \in Nat
           /\ s \notin S => Cardinality(S \cup {s}) = Cardinality(S) + 1
           /\ s \in S => Cardinality(S \ {s}) = Cardinality(S) - 1
  <1>1. IsFiniteSet(S)
    BY FS_Subset, H2Assumption
  <1>2. Cardinality(S) \in Nat
    BY <1>1, FS_CardinalityType
  <1>3. s \notin S => Cardinality(S \cup {s}) = Cardinality(S) + 1
    BY <1>1, FS_AddElement
  <1>4. s \in S => Cardinality(S \ {s}) = Cardinality(S) - 1
    BY <1>1, FS_RemoveElement
  <1> QED BY <1>2, <1>3, <1>4

\* A smaller set of streams has no larger size.
LEMMA Smaller ==
    ASSUME NEW S \in SUBSET Streams, NEW T \in SUBSET S
    PROVE  Cardinality(T) \in Nat /\ Cardinality(T) <= Cardinality(S)
  <1>1. IsFiniteSet(S)
    BY FS_Subset, H2Assumption
  <1>2. IsFiniteSet(T)
    BY <1>1, FS_Subset
  <1> QED BY <1>1, <1>2, FS_Subset, FS_CardinalityType

LEMMA NoneSize == Cardinality({}) = 0
  BY FS_EmptySet

\* The table has entries.
LEMMA TableSize == SlotCount \in Nat /\ 0 \in 0..SlotCount
  BY H2Assumption DEF SlotCount

\* The session starts with an empty table.
LEMMA H2InitInv == Init => H2Inv
  <1> SUFFICES ASSUME Init PROVE H2Inv
    OBVIOUS
  <1>1. kind \in [Streams -> Kinds \cup {"none"}]
    BY DEF Init, Empty
  <1>2. TypeOK
    BY <1>1, TableSize DEF Init, Empty, TypeOK
  <1>3. SlotsAccounted /\ Flags /\ TableBounded
    BY TableSize, NoneSize DEF Init, Empty, SlotsAccounted, Flags, TableBounded
  <1> QED BY <1>2, <1>3 DEF H2Inv

\* A step that takes no entry and gives none back.
LEMMA SlotsKept ==
    ASSUME H2Inv, slots' = slots, active' = active
    PROVE  /\ active' \in 0..SlotCount /\ active' = Cardinality(slots)' /\ TableBounded'
  BY DEF H2Inv, TypeOK, SlotsAccounted, TableBounded

LEMMA BeginHeadersInv ==
    ASSUME H2Inv, NEW s \in Streams, NEW k \in Kinds, BeginHeaders(s, k)
    PROVE  H2Inv'
  <1> USE DEF H2Inv
  <1>1. kind' \in [Streams -> Kinds \cup {"none"}]
    BY DEF BeginHeaders, TypeOK
  <1>2. s \notin slots /\ s \notin headersDone
    BY DEF BeginHeaders, SlotsAccounted, Flags
  <1>3. CASE /\ Reset({s})
             /\ UNCHANGED <<slots, active, headerStream>>
    <2>1. reset' = reset /\ rstQueue' = rstQueue \cup ({s} \ reset)
      BY <1>2, <1>3 DEF Reset
    <2>2. TypeOK'
      BY <1>1, <1>3, <2>1, SlotsKept DEF BeginHeaders, TypeOK
    <2>3. SlotsAccounted'
      BY <1>3, <2>1, SlotsKept DEF BeginHeaders, SlotsAccounted
    <2>4. Flags'
      BY <1>3 DEF BeginHeaders, Flags
    <2> QED BY <1>3, <2>2, <2>3, <2>4, SlotsKept
  <1>4. CASE /\ Cardinality(slots) < SlotCount
             /\ slots' = slots \cup {s}
             /\ active' = active + 1
             /\ headerStream' = s
             /\ UNCHANGED <<reset, rstQueue>>
    <2>1. slots \in SUBSET Streams
      BY DEF TypeOK
    <2>2. /\ Cardinality(slots) \in Nat /\ Cardinality(slots') = Cardinality(slots) + 1
      BY <1>2, <1>4, <2>1, Sizes
    <2>3. active' = Cardinality(slots)' /\ active' \in 0..SlotCount /\ TableBounded'
      BY <1>4, <2>2, TableSize DEF SlotsAccounted, TableBounded
    <2>4. TypeOK'
      BY <1>1, <1>4, <2>3 DEF BeginHeaders, TypeOK
    <2>5. SlotsAccounted'
      BY <1>4, <2>3 DEF BeginHeaders, SlotsAccounted
    <2>6. Flags'
      BY <1>2, <1>4 DEF BeginHeaders, Flags
    <2> QED BY <2>3, <2>4, <2>5, <2>6
  <1> QED BY <1>3, <1>4 DEF BeginHeaders

\* cf_h2_reset queues a RST_STREAM for everything it marks.
LEMMA ResetKeeps ==
    ASSUME H2Inv, NEW ids \in SUBSET Streams, Reset(ids), slots' = slots
    PROVE  /\ reset' \subseteq Streams /\ rstQueue' \subseteq Streams
           /\ reset' \subseteq rstQueue' \cap slots'
  BY DEF H2Inv, TypeOK, SlotsAccounted, Reset

\* A step that keeps the table and may queue and mark resets.
LEMMA TableKept ==
    ASSUME H2Inv,
           UNCHANGED <<nghttp2, slots, kind, active, alive>>,
           \/ UNCHANGED <<reset, rstQueue>>
           \/ \E ids \in SUBSET Streams : Reset(ids)
           \/ \E s \in Streams : rstQueue' = rstQueue \cup {s} /\ reset' = reset,
           headersDone' \subseteq slots, response' \subseteq slots,
           context' \subseteq slots, expired' \subseteq Streams,
           headerStream' \in Streams \cup {NoStream}, headerStream' \notin headersDone'
    PROVE  H2Inv'
  <1> USE DEF H2Inv
  <1>1. /\ reset' \subseteq Streams /\ rstQueue' \subseteq Streams
        /\ reset' \subseteq rstQueue' \cap slots'
    <2>1. CASE UNCHANGED <<reset, rstQueue>>
      BY <2>1 DEF TypeOK, SlotsAccounted
    <2>2. CASE \E ids \in SUBSET Streams : Reset(ids)
      BY <2>2, ResetKeeps
    <2>3. CASE \E s \in Streams : rstQueue' = rstQueue \cup {s} /\ reset' = reset
      BY <2>3 DEF TypeOK, SlotsAccounted
    <2> QED BY <2>1, <2>2, <2>3
  <1>2. TypeOK'
    BY <1>1, SlotsKept DEF TypeOK
  <1>3. SlotsAccounted'
    BY <1>1, SlotsKept DEF SlotsAccounted
  <1>4. Flags'
    BY DEF Flags
  <1> QED BY <1>2, <1>3, <1>4, SlotsKept

LEMMA HeadersInv ==
    ASSUME H2Inv, NEW s \in Streams, NEW verdict \in Verdicts, HeadersComplete(s, verdict)
    PROVE  H2Inv'
  <1> USE DEF H2Inv
  <1>0. /\ headersDone \subseteq slots /\ response \subseteq slots /\ context \subseteq slots
        /\ expired \subseteq Streams
    BY DEF TypeOK, SlotsAccounted, Flags
  <1>1. /\ UNCHANGED <<nghttp2, slots, kind, active, alive, expired>>
        /\ headerStream' = NoStream
    BY DEF HeadersComplete
  <1>2. /\ \/ UNCHANGED <<reset, rstQueue>>
           \/ \E ids \in SUBSET Streams : Reset(ids)
        /\ headersDone' \subseteq slots /\ response' \subseteq slots
        /\ context' \subseteq slots
    <2>1. CASE UNCHANGED <<headersDone, response, context, reset, rstQueue>>
      BY <1>0, <2>1
    <2>2. CASE Reset({s}) /\ UNCHANGED <<headersDone, response, context>>
      BY <1>0, <2>2
    <2>3. CASE /\ s \in slots \ reset
               /\ headersDone' = headersDone \cup {s}
               /\ response' = IF verdict = "answered" THEN response \cup {s} ELSE response
               /\ context' = IF verdict # "refused" THEN context \cup {s} ELSE context
               /\ IF verdict \in {"refused", "end refused"} THEN Reset({s})
                  ELSE UNCHANGED <<reset, rstQueue>>
      BY <1>0, <2>3
    <2> QED BY <2>1, <2>2, <2>3 DEF HeadersComplete
  <1>3. NoStream \notin headersDone'
    BY <1>2, H2Assumption DEF TypeOK
  <1> HIDE DEF H2Inv
  <1> QED BY <1>0, <1>1, <1>2, <1>3, TableKept

LEMMA DataInv ==
    ASSUME H2Inv, NEW s \in Streams, NEW verdict, Data(s, verdict)
    PROVE  H2Inv'
  <1>0. /\ headersDone \subseteq slots /\ response \subseteq slots /\ context \subseteq slots
        /\ expired \subseteq Streams /\ headerStream \in Streams \cup {NoStream}
        /\ headerStream \notin headersDone
    BY DEF H2Inv, TypeOK, SlotsAccounted, Flags
  <1>1. /\ UNCHANGED <<nghttp2, slots, kind, headersDone, headerStream, active,
                       context, alive>>
        /\ expired' \subseteq Streams /\ response' \subseteq slots
        /\ \/ UNCHANGED <<reset, rstQueue>>
           \/ \E ids \in SUBSET Streams : Reset(ids)
    BY <1>0 DEF Data
  <1> QED BY <1>0, <1>1, TableKept

LEMMA ClosedInv ==
    ASSUME H2Inv, NEW s \in Streams, Closed(s), headerStream' \in {headerStream, NoStream}
    PROVE  H2Inv'
  <1> USE DEF H2Inv
  <1>1. slots' = slots \ {s} /\ context' = context \ ({s} \cap slots)
        /\ active' = IF s \in slots THEN active - 1 ELSE active
    BY DEF Closed, Release
  <1>2. active' = Cardinality(slots)' /\ active' \in 0..SlotCount /\ TableBounded'
    <2>1. slots \in SUBSET Streams /\ slots' \in SUBSET Streams
      BY <1>1 DEF TypeOK
    <2>2. CASE s \in slots
      <3>1. /\ Cardinality(slots) \in Nat /\ Cardinality(slots') \in Nat
            /\ Cardinality(slots') = Cardinality(slots) - 1
        BY <1>1, <2>1, <2>2, Sizes
      <3> QED BY <1>1, <2>2, <3>1, TableSize DEF SlotsAccounted, TableBounded
    <2>3. CASE s \notin slots
      <3>1. slots' = slots
        BY <1>1, <2>3
      <3> QED BY <1>1, <2>3, <3>1, SlotsKept
    <2> QED BY <2>2, <2>3
  <1>3. kind' \in [Streams -> Kinds \cup {"none"}]
    BY DEF Closed, TypeOK
  <1>4. TypeOK'
    BY <1>1, <1>2, <1>3 DEF Closed, TypeOK
  <1>5. SlotsAccounted'
    BY <1>1, <1>2 DEF Closed, SlotsAccounted
  <1>6. Flags'
    BY <1>1, H2Assumption DEF Closed, Flags, TypeOK
  <1> QED BY <1>2, <1>4, <1>5, <1>6

LEMMA DestroyInv == H2Inv /\ Destroy => H2Inv'
  <1> SUFFICES ASSUME H2Inv, Destroy PROVE H2Inv'
    OBVIOUS
  <1>2. context' = {}
    BY DEF H2Inv, SlotsAccounted, Destroy
  <1>3. kind' \in [Streams -> Kinds \cup {"none"}]
    BY DEF Destroy
  <1>4. TypeOK'
    BY <1>2, <1>3, TableSize DEF TypeOK, Destroy
  <1>5. SlotsAccounted' /\ Flags' /\ TableBounded'
    BY <1>2, TableSize, NoneSize DEF Destroy, SlotsAccounted, Flags, TableBounded
  <1> QED BY <1>4, <1>5 DEF H2Inv

\* Every step of the session keeps its invariant.
LEMMA H2StepInv == H2Inv /\ [Next]_h2Vars => H2Inv'
  <1> SUFFICES ASSUME H2Inv, [Next]_h2Vars PROVE H2Inv'
    OBVIOUS
  <1>0. /\ headersDone \subseteq slots /\ response \subseteq slots /\ context \subseteq slots
        /\ slots \subseteq Streams /\ expired \subseteq Streams
        /\ headerStream \in Streams \cup {NoStream} /\ headerStream \notin headersDone
        /\ NoStream \notin headersDone
    BY H2Assumption DEF H2Inv, TypeOK, SlotsAccounted, Flags
  <1>1. CASE UNCHANGED h2Vars
    BY <1>1 DEF h2Vars, H2Inv, TypeOK, SlotsAccounted, Flags, TableBounded
  <1>2. CASE Create
    BY <1>2 DEF Create, H2Inv, TypeOK, SlotsAccounted, Flags, TableBounded
  <1>3. CASE Tick
    <2>1. Idle \in SUBSET Streams
      BY <1>0 DEF Idle
    <2> QED BY <1>0, <1>3, <2>1, TableKept DEF Tick
  <1>4. CASE Destroy
    BY <1>4, DestroyInv
  <1>5. ASSUME NEW s \in Streams,
               \/ RejectHeader(s) \/ Trailers(s) \/ Respond(s) \/ ReadResponse(s)
               \/ ReadFails(s) \/ Quiet(s)
        PROVE  H2Inv'
    <2>1. CASE RejectHeader(s)
      BY <1>0, <2>1, TableKept DEF RejectHeader
    <2>2. CASE Trailers(s)
      BY <1>0, <2>2, TableKept DEF Trailers
    <2>3. CASE Respond(s)
      <3>1. response' \subseteq slots
        BY <1>0, <2>3 DEF Respond
      <3> QED BY <1>0, <2>3, <3>1, TableKept DEF Respond
    <2>4. CASE ReadResponse(s)
      <3>1. expired' \subseteq Streams
        BY <1>0, <2>4 DEF ReadResponse
      <3> QED BY <1>0, <2>4, <3>1, TableKept DEF ReadResponse
    <2>5. CASE ReadFails(s)
      BY <1>0, <2>5, TableKept DEF ReadFails
    <2>6. CASE Quiet(s)
      <3>1. expired' \subseteq Streams
        BY <1>0, <2>6 DEF Quiet
      <3> QED BY <1>0, <2>6, <3>1, TableKept DEF Quiet
    <2> QED BY <1>5, <2>1, <2>2, <2>3, <2>4, <2>5, <2>6
  <1>6. ASSUME NEW s \in Streams, SendReset(s) \/ FinishResponse(s) \/ PeerReset(s)
        PROVE  H2Inv'
    <2>1. Closed(s) /\ headerStream' \in {headerStream, NoStream}
      BY <1>6 DEF SendReset, FinishResponse, PeerReset
    <2> QED BY <2>1, ClosedInv
  <1>7. CASE \E s \in Streams :
               \/ \E k \in Kinds : BeginHeaders(s, k)
               \/ \E verdict \in Verdicts : HeadersComplete(s, verdict)
               \/ \E verdict \in Verdicts \ {"end refused"} : Data(s, verdict)
    BY <1>7, BeginHeadersInv, HeadersInv, DataInv
  <1> QED BY <1>1, <1>2, <1>3, <1>4, <1>5, <1>6, <1>7 DEF Next

\* The session keeps its invariant whatever its callbacks answer.
THEOREM SessionInvariance == Spec => []H2Inv
  BY H2InitInv, H2StepInv, PTL DEF Spec

\* Every part of the session keeps its type.
THEOREM SessionTypes == Spec => []TypeOK
  <1>1. H2Inv => TypeOK
    BY DEF H2Inv
  <1> QED BY <1>1, SessionInvariance, PTL

\* No entry of the stream table leaks, however streams are refused, reset,
\* answered, timed out and closed: cf_h2.c gives each entry back exactly once.
THEOREM EntriesKept == Spec => []SlotsAccounted
  <1>1. H2Inv => SlotsAccounted
    BY DEF H2Inv
  <1> QED BY <1>1, SessionInvariance, PTL

-----------------------------------------------------------------------------
\* A step of the backend is a step of the session: the callbacks only choose
\* among the verdicts the session allows for.
LEMMA SessionStep == [BackendNext]_allVars => [Next]_h2Vars
  <1> SUFFICES ASSUME [BackendNext]_allVars PROVE [Next]_h2Vars
    OBVIOUS
  <1>1. CASE UNCHANGED allVars
    BY <1>1 DEF allVars
  <1>2. CASE Elsewhere
    BY <1>2 DEF Elsewhere, Next
  <1>3. CASE DestroySession
    BY <1>3 DEF DestroySession, Next
  <1>4. ASSUME NEW s \in Streams, Headers(s)
        PROVE  Next
    <2>1. \E v \in Verdicts : HeadersComplete(s, v)
      BY <1>4 DEF Headers, RefuseRequest, TakeRequest, Submitted, Verdicts
    <2> QED BY <2>1 DEF Next
  <1>5. ASSUME NEW s \in Streams,
               Discard(s) \/ Chunk(s) \/ EndOfBody(s) \/ OtherData(s)
        PROVE  Next
    <2>1. \E v \in Verdicts \ {"end refused"} : Data(s, v)
      BY <1>5 DEF Discard, Chunk, EndOfBody, OtherData, Submitted, Verdicts
    <2> QED BY <2>1 DEF Next
  <1>6. ASSUME NEW s \in Streams, Closing(s)
        PROVE  Next
    BY <1>6 DEF Closing, Next
  <1> QED BY <1>1, <1>2, <1>3, <1>4, <1>5, <1>6 DEF BackendNext

\* The session with the monitor behind it is one of the sessions H2 describes:
\* everything proved of every session holds of it.
THEOREM BackendIsSession == BackendSpec => Spec
  <1>1. BackendInit => Init
    BY DEF BackendInit
  <1> QED BY <1>1, SessionStep, PTL DEF BackendSpec, Spec

\* A record belongs to a request whose headers are complete; only records are
\* complete; and a request that was answered has a complete record.
RecordsOwned == /\ records \subseteq headersDone
                /\ ran \subseteq records /\ failed \subseteq records
                /\ \A s \in response : kind[s] = "http" => s \in Complete

\* responses is not overrun.
RecordsBounded == Cardinality(records) <= AppMax

BackendInv == RecordsOwned /\ RecordsBounded /\ RejectedNeverExecuted

LEMMA BackendInitInv == BackendInit => BackendInv
  BY H2Assumption, NoneSize
     DEF BackendInit, Init, Empty, BackendInv, RecordsOwned, RecordsBounded,
         RejectedNeverExecuted

\* A step that leaves the backend alone keeps its invariant when it takes no
\* flag away and answers no application request.
LEMMA BackendKept ==
    ASSUME BackendInv, UNCHANGED backendVars, headersDone \subseteq headersDone',
           \A s \in response' : \/ s \in response /\ kind'[s] = kind[s]
                                \/ kind'[s] # "http"
    PROVE  BackendInv'
  BY DEF BackendInv, RecordsOwned, RecordsBounded, RejectedNeverExecuted, backendVars,
         Complete

LEMMA ElsewhereInv ==
    ASSUME H2Inv, BackendInv, Elsewhere
    PROVE  BackendInv'
  <1> DEFINE Unanswered == \A s \in response' : \/ s \in response /\ kind'[s] = kind[s]
                                                \/ kind'[s] # "http"
  <1>1. headersDone' = headersDone
    BY DEF Elsewhere, Create, Tick, BeginHeaders, RejectHeader, Trailers, Quiet, Respond,
           ReadResponse
  <1>2. Unanswered
    <2>1. ASSUME NEW t \in Streams, NEW k \in Kinds, BeginHeaders(t, k)
          PROVE  Unanswered
      <3>1. t \notin response /\ response' = response
        BY <2>1 DEF BeginHeaders, H2Inv, SlotsAccounted, Flags
      <3>2. \A s \in response : kind'[s] = kind[s]
        BY <2>1, <3>1 DEF BeginHeaders, H2Inv, TypeOK
      <3> QED BY <3>1, <3>2
    <2>2. ASSUME NEW t \in Streams, kind[t] = "config" /\ Respond(t)
          PROVE  Unanswered
      BY <2>2 DEF Respond
    <2>3. CASE UNCHANGED <<response, kind>>
      BY <2>3
    <2>4. \/ UNCHANGED <<response, kind>>
          \/ \E t \in Streams : \/ \E k \in Kinds : BeginHeaders(t, k)
                                \/ kind[t] = "config" /\ Respond(t)
      BY DEF Elsewhere, Create, Tick, RejectHeader, Trailers, Quiet, ReadResponse
    <2> QED BY <2>1, <2>2, <2>3, <2>4
  <1>3. UNCHANGED backendVars
    BY DEF Elsewhere
  <1> QED BY <1>1, <1>2, <1>3, BackendKept

\* What the end of a header block does to the flags the backend relies on.
LEMMA HeadersEffect ==
    ASSUME NEW s \in Streams, NEW v, HeadersComplete(s, v)
    PROVE  /\ kind' = kind /\ headersDone \subseteq headersDone'
           /\ headersDone' \subseteq headersDone \cup {s}
           /\ response \subseteq response' /\ response' \subseteq response \cup {s}
           /\ s \notin slots \ reset \/ ~Admitted(s) => response' = response
           /\ s \in slots \ reset /\ Admitted(s) => s \in headersDone'
           /\ v # "answered" => response' = response
  BY DEF HeadersComplete

LEMMA BackendHeadersInv ==
    ASSUME H2Inv, BackendInv, NEW s \in Streams, Headers(s)
    PROVE  BackendInv'
  <1>1. CASE ~Asked(s) /\ (\E v \in Verdicts : HeadersComplete(s, v)) /\ UNCHANGED backendVars
    <2>1. PICK v \in Verdicts : HeadersComplete(s, v)
      BY <1>1
    <2>2. headerStream = s
      BY <2>1 DEF HeadersComplete
    <2>3. kind[s] # "http" \/ response' = response
      BY <1>1, <2>1, <2>2, HeadersEffect DEF Asked
    <2> QED BY <1>1, <2>1, <2>3, HeadersEffect, BackendKept
  <1>2. CASE RefuseRequest(s)
    BY <1>2, HeadersEffect, BackendKept DEF RefuseRequest
  <1>3. CASE Asked(s) /\ TakeRequest(s)
    <2>1. s \notin records /\ s \in slots \ reset /\ Admitted(s)
      BY <1>3 DEF Asked, H2Inv, Flags, BackendInv, RecordsOwned
    <2>2. records' = records \cup {s} /\ Cardinality(records) < AppMax
      BY <1>3 DEF TakeRequest, FreeRecord
    <2>3. records \in SUBSET Streams /\ AppMax \in Nat
      BY H2Assumption DEF H2Inv, TypeOK, Flags, BackendInv, RecordsOwned
    <2>4. RecordsBounded'
      BY <2>1, <2>2, <2>3, Sizes DEF RecordsBounded
    <2>5. s \notin ran /\ s \notin failed
      BY <2>1 DEF BackendInv, RecordsOwned
    <2>6. ASSUME NEW v, HeadersComplete(s, v), Fail(s) \/ Run(s) \/ (Keep /\ v = "accepted")
          PROVE  RecordsOwned' /\ RejectedNeverExecuted'
      <3>1. /\ kind' = kind /\ headersDone \subseteq headersDone' /\ s \in headersDone'
            /\ response' \subseteq response \cup {s}
            /\ v # "answered" => response' = response
        BY <2>1, <2>6, HeadersEffect
      <3>2. CASE Fail(s)
        BY <2>2, <2>5, <3>1, <3>2
           DEF Fail, BackendInv, RecordsOwned, RejectedNeverExecuted, Complete
      <3>3. CASE Run(s)
        BY <2>2, <2>5, <3>1, <3>3
           DEF Run, BackendInv, RecordsOwned, RejectedNeverExecuted, Complete
      <3>4. CASE Keep /\ v = "accepted"
        BY <2>2, <3>1, <3>4
           DEF Keep, BackendInv, RecordsOwned, RejectedNeverExecuted, Complete
      <3> QED BY <2>6, <3>2, <3>3, <3>4
    <2> QED BY <1>3, <2>4, <2>6 DEF TakeRequest, End, BackendInv
  <1> QED BY <1>1, <1>2, <1>3 DEF Headers

LEMMA BackendDataInv ==
    ASSUME H2Inv, BackendInv, NEW s \in Streams,
           Discard(s) \/ Chunk(s) \/ EndOfBody(s) \/ OtherData(s)
    PROVE  BackendInv'
  <1>1. ASSUME NEW v, Data(s, v)
        PROVE  /\ kind' = kind /\ headersDone' = headersDone
               /\ response' \subseteq response \cup {s}
               /\ v # "answered" => response' = response
    BY <1>1 DEF Data
  <1>2. CASE Discard(s)
    BY <1>1, <1>2, BackendKept DEF Discard
  <1>3. CASE OtherData(s)
    BY <1>1, <1>3, BackendKept DEF OtherData
  <1>4. CASE Chunk(s) /\ (Data(s, "accepted") /\ Keep)
    <2>1. UNCHANGED backendVars
      BY <1>4 DEF Chunk, Keep, backendVars
    <2> QED BY <1>1, <1>4, <2>1, BackendKept
  <1>5. ASSUME NEW v, Data(s, v), Fail(s) \/ Run(s), UNCHANGED records,
               s \in records \ Complete
        PROVE  BackendInv'
    <2>1. RecordsBounded'
      BY <1>5 DEF BackendInv, RecordsBounded
    <2>2. s \notin ran /\ s \notin failed
      BY <1>5 DEF Complete
    <2>3. CASE Fail(s)
      BY <1>1, <1>5, <2>1, <2>2, <2>3
         DEF Fail, BackendInv, RecordsOwned, RejectedNeverExecuted, Complete
    <2>4. CASE Run(s)
      BY <1>1, <1>5, <2>1, <2>2, <2>4
         DEF Run, BackendInv, RecordsOwned, RejectedNeverExecuted, Complete
    <2> QED BY <1>5, <2>3, <2>4
  <1> QED BY <1>2, <1>3, <1>4, <1>5 DEF Chunk, EndOfBody, End

\* The closed callback gives back the record of every entry that is given back.
LEMMA GiveBackInv ==
    ASSUME H2Inv, BackendInv, NEW ids \in SUBSET Streams, GiveBack(ids),
           headersDone \ ids \subseteq headersDone',
           response' \subseteq response \ ids,
           \A s \in response' : kind'[s] = kind[s]
    PROVE  BackendInv'
  <1>1. records' = records \ ids /\ ran' = ran \ ids /\ failed' = failed \ ids
    BY DEF GiveBack
  <1>2. records \in SUBSET Streams /\ AppMax \in Nat
    BY H2Assumption DEF H2Inv, TypeOK, Flags, BackendInv, RecordsOwned
  <1>3. /\ Cardinality(records) \in Nat
        /\ Cardinality(records') \in Nat /\ Cardinality(records') <= Cardinality(records)
    BY <1>1, <1>2, Smaller
  <1>4. RecordsBounded'
    BY <1>2, <1>3 DEF BackendInv, RecordsBounded
  <1>5. RecordsOwned' /\ RejectedNeverExecuted'
    BY <1>1 DEF BackendInv, RecordsOwned, RejectedNeverExecuted, Complete
  <1> QED BY <1>4, <1>5 DEF BackendInv

LEMMA BackendStepInv == H2Inv /\ BackendInv /\ [BackendNext]_allVars => BackendInv'
  <1> SUFFICES ASSUME H2Inv, BackendInv, [BackendNext]_allVars PROVE BackendInv'
    OBVIOUS
  <1>1. CASE UNCHANGED allVars
    BY <1>1 DEF allVars, h2Vars, backendVars, BackendInv, RecordsOwned, RecordsBounded,
               RejectedNeverExecuted, Complete
  <1>2. CASE Elsewhere
    BY <1>2, ElsewhereInv
  <1>3. CASE DestroySession
    <2>1. slots \in SUBSET Streams /\ headersDone \ slots = {} /\ response \ slots = {}
      BY DEF H2Inv, TypeOK, Flags
    <2>2. headersDone' = {} /\ response' = {} /\ GiveBack(slots)
      BY <1>3 DEF DestroySession, Destroy
    <2> QED BY <2>1, <2>2, GiveBackInv
  <1>4. ASSUME NEW s \in Streams, Closing(s)
        PROVE  BackendInv'
    <2>1. Closed(s) /\ GiveBack({s} \cap slots)
      BY <1>4 DEF Closing, SendReset, FinishResponse, PeerReset
    <2>2. headersDone' = headersDone \ {s} /\ response' = response \ {s}
      BY <2>1 DEF Closed
    <2>3. \A t \in response' : kind'[t] = kind[t]
      BY <2>1, <2>2 DEF Closed, H2Inv, TypeOK
    <2>4. headersDone \subseteq slots /\ response \subseteq slots
      BY DEF H2Inv, Flags
    <2>5. /\ headersDone \ ({s} \cap slots) \subseteq headersDone'
          /\ response' \subseteq response \ ({s} \cap slots)
          /\ {s} \cap slots \in SUBSET Streams
      BY <2>2, <2>4
    <2> QED BY <2>1, <2>3, <2>5, GiveBackInv
  <1>5. ASSUME NEW s \in Streams, Headers(s)
        PROVE  BackendInv'
    BY <1>5, BackendHeadersInv
  <1>6. ASSUME NEW s \in Streams, Discard(s) \/ Chunk(s) \/ EndOfBody(s) \/ OtherData(s)
        PROVE  BackendInv'
    BY <1>6, BackendDataInv
  <1> QED BY <1>1, <1>2, <1>3, <1>4, <1>5, <1>6 DEF BackendNext

\* The backend keeps its invariant on top of the session's.
THEOREM BackendInvariance == BackendSpec => [](H2Inv /\ BackendInv)
  <1>1. BackendInit => BackendInv
    BY BackendInitInv
  <1>2. BackendSpec => []H2Inv
    BY BackendIsSession, SessionInvariance, PTL
  <1> QED BY <1>1, <1>2, BackendStepInv, PTL DEF BackendSpec

\* The static table of response records never leaks and is never overrun: each
\* record belongs to an entry of the session, whose closing gives it back, and
\* a response that nghttp2 pulls finds its record complete.
THEOREM RecordsKept == BackendSpec => []RecordsAccounted
  <1>1. H2Inv /\ BackendInv => RecordsAccounted
    BY DEF H2Inv, Flags, BackendInv, RecordsOwned, RecordsBounded, RecordsAccounted, Complete
  <1> QED BY <1>1, BackendInvariance, PTL

\* A request that monitor_tunnel.c answered with an error is never executed,
\* in whatever pieces its body arrives, and one that was executed is not
\* answered again.
THEOREM RejectedDiscarded == BackendSpec => []RejectedNeverExecuted
  <1>1. BackendInv => RejectedNeverExecuted
    BY DEF BackendInv
  <1> QED BY <1>1, BackendInvariance, PTL
=============================================================================
