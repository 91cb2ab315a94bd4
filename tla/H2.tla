--------------------------------- MODULE H2 ---------------------------------
(***************************************************************************)
(* The HTTP/2 session of cf_h2.c: the fixed stream table on top of the     *)
(* pinned nghttp2.  nghttp2 calls back for every frame of a read batch; a  *)
(* RST_STREAM the code submits is only queued and closes its stream when   *)
(* the output is pulled, after the batch.  The peer may open any stream,   *)
(* of any kind, at any time, and the application may accept or refuse.     *)
(***************************************************************************)
EXTENDS Integers, FiniteSets

CONSTANTS
    Streams,    \* stream identifiers the peer can use, each once
    AppMax,     \* CF_H2_APPLICATION_MAX
    AppLimit,   \* application streams configured for this session
    NoStream    \* header_stream = 0

ASSUME H2Assumption ==
    /\ IsFiniteSet(Streams) /\ NoStream \notin Streams
    /\ AppMax \in Nat /\ AppLimit \in 1..AppMax

Kinds == {"http", "control", "config"}

VARIABLES
    nghttp2,       \* the streams nghttp2 has open; a closed stream's name is
                   \* reused for a later one
    slots,         \* the streams that occupy an entry of cf_h2.streams
    kind,          \* what each open stream asks for, as its headers say
    headersDone, response, reset,  \* the flags of the entries, as sets
    expired,       \* entries without progress for more than 15 s
    headerStream,  \* the stream whose header block is being received
    active,        \* stats.active_streams
    rstQueue,      \* RST_STREAM frames submitted and not yet sent
    context,       \* streams whose request the callback accepted and whose
                   \* closed callback has not run yet
    alive          \* the session exists

h2Vars == <<nghttp2, slots, kind, headersDone, response, reset, expired,
            headerStream, active, rstQueue, context, alive>>

SlotCount == AppMax + 2

Empty == /\ nghttp2 = {} /\ slots = {} /\ kind = [s \in Streams |-> "none"]
         /\ headersDone = {} /\ response = {} /\ reset = {} /\ expired = {}
         /\ headerStream = NoStream /\ active = 0 /\ rstQueue = {}
         /\ context = {}

Init == Empty /\ alive = FALSE

-----------------------------------------------------------------------------
Create == /\ ~alive
          /\ alive' = TRUE
          /\ UNCHANGED <<nghttp2, slots, kind, headersDone, response, reset, expired,
                         headerStream, active, rstQueue, context>>

\* cf_h2_reset: an entry already reset is left alone; a stream without an
\* entry is reset as well.
Reset(ids) == /\ rstQueue' = rstQueue \cup (ids \ reset)
              /\ reset' = reset \cup (ids \cap slots)

\* A new request: begin_headers takes a free entry or refuses the stream.
BeginHeaders(s, k) ==
    /\ alive /\ headerStream = NoStream /\ s \notin nghttp2
    /\ nghttp2' = nghttp2 \cup {s}
    /\ kind' = [kind EXCEPT ![s] = k]
    /\ \/ /\ Cardinality(slots) = SlotCount
          /\ Reset({s})
          /\ UNCHANGED <<slots, active, headerStream>>
       \/ /\ Cardinality(slots) < SlotCount
          /\ slots' = slots \cup {s}
          /\ active' = active + 1
          /\ headerStream' = s
          /\ UNCHANGED <<reset, rstQueue>>
    /\ UNCHANGED <<headersDone, response, expired, context, alive>>

\* on_header refuses oversized blocks and duplicate routing fields, and
\* received_frame an unknown kind of upgrade; the rest of a block is skipped.
RejectHeader(s) ==
    /\ alive /\ headerStream = s /\ s \in slots
    /\ headerStream' = NoStream
    /\ Reset({s})
    /\ UNCHANGED <<nghttp2, slots, kind, headersDone, response, expired, active,
                   context, alive>>

\* A second HEADERS frame on an open stream is refused as trailers.
Trailers(s) ==
    /\ alive /\ headerStream = NoStream /\ s \in nghttp2
    /\ Reset({s})
    /\ UNCHANGED <<nghttp2, slots, kind, headersDone, response, expired,
                   headerStream, active, context, alive>>

Limit(k) == IF k = "http" THEN AppLimit ELSE 1

\* Entries counted against the limit of kind k.
Live(k) == {s \in slots : s \in headersDone /\ s \notin reset /\ kind[s] = k}

Admitted(s) == Cardinality(Live(kind[s])) < Limit(kind[s])

\* What the callbacks make of a request: refused by the request callback;
\* accepted; answered at once, with cf_h2_respond; or accepted and then refused
\* by the data callback that is told, from the same frame, that the request
\* has ended.
Verdicts == {"refused", "accepted", "answered", "end refused"}

\* The last fragment of the header block: received_frame classifies the
\* request, applies the limit of its kind and asks the callbacks.  After a
\* refusal the code leaves header_stream set, but the next block clears it
\* before anything looks at it.
HeadersComplete(s, verdict) ==
    /\ alive /\ headerStream = s
    /\ headerStream' = NoStream
    /\ \/ /\ s \in reset \/ s \notin slots   \* the idle tick came first
          /\ UNCHANGED <<headersDone, response, context, reset, rstQueue>>
       \/ /\ s \in slots \ reset /\ ~Admitted(s)
          /\ Reset({s})
          /\ UNCHANGED <<headersDone, response, context>>
       \/ /\ s \in slots \ reset /\ Admitted(s)
          /\ headersDone' = headersDone \cup {s}
          /\ response' = IF verdict = "answered" THEN response \cup {s} ELSE response
          /\ context' = IF verdict # "refused" THEN context \cup {s} ELSE context
          /\ IF verdict \in {"refused", "end refused"} THEN Reset({s})
             ELSE UNCHANGED <<reset, rstQueue>>
    /\ UNCHANGED <<nghttp2, slots, kind, expired, active, alive>>

\* DATA for a live entry is progress; a chunk, or an end, that the data
\* callback refuses resets the stream.  The callback may answer the request.
Data(s, verdict) ==
    /\ alive /\ headerStream = NoStream /\ s \in slots \ reset
    /\ expired' = expired \ {s}
    /\ response' = IF verdict = "answered" THEN response \cup {s} ELSE response
    /\ IF verdict = "refused" THEN Reset({s}) ELSE UNCHANGED <<reset, rstQueue>>
    /\ UNCHANGED <<nghttp2, slots, kind, headersDone, headerStream, active,
                   context, alive>>

\* cf_h2_respond outside a callback, once per entry: the configuration reply.
Respond(s) ==
    /\ alive /\ s \in (slots \cap headersDone \cap context) \ (response \cup reset)
    /\ response' = response \cup {s}
    /\ UNCHANGED <<nghttp2, slots, kind, headersDone, reset, expired, headerStream,
                   active, rstQueue, context, alive>>

\* nghttp2 pulls body bytes of a response.
ReadResponse(s) ==
    /\ alive /\ s \in (slots \cap response) \ reset
    /\ expired' = expired \ {s}
    /\ UNCHANGED <<nghttp2, slots, kind, headersDone, response, reset,
                   headerStream, active, rstQueue, context, alive>>

\* The read callback fails: nghttp2 queues the reset by itself and the entry
\* is not marked.
ReadFails(s) ==
    /\ alive /\ s \in (slots \cap response) \ reset
    /\ rstQueue' = rstQueue \cup {s}
    /\ UNCHANGED <<nghttp2, slots, kind, headersDone, response, reset, expired,
                   headerStream, active, context, alive>>

\* Mutant: the closed callback is skipped for a stream that was reset.
ReleaseSkipsReset(s) == /\ context' = IF s \in reset THEN context ELSE context \ {s}
                        /\ slots' = slots \ {s}
                        /\ active' = IF s \in slots THEN active - 1 ELSE active

\* The closed callback runs and the entry is given back.
Release(s) == /\ context' = context \ ({s} \cap slots)
              /\ slots' = slots \ {s}
              /\ active' = IF s \in slots THEN active - 1 ELSE active

\* closed_stream: nghttp2 forgets the stream and the entry is cleared.
Closed(s) ==
    /\ nghttp2' = nghttp2 \ {s}
    /\ kind' = [kind EXCEPT ![s] = "none"]
    /\ Release(s)
    /\ headersDone' = headersDone \ {s} /\ response' = response \ {s}
    /\ reset' = reset \ {s} /\ expired' = expired \ {s}
    /\ rstQueue' = rstQueue \ {s}
    /\ UNCHANGED alive

\* Output: nghttp2 sends a queued RST_STREAM and closes the stream.  The rest
\* of a header block under way is then ignored.
SendReset(s) ==
    /\ alive /\ s \in rstQueue
    /\ Closed(s)
    /\ headerStream' = IF headerStream = s THEN NoStream ELSE headerStream

\* Output: the last byte of the response to a request the peer has ended.
FinishResponse(s) ==
    /\ alive /\ s \in (slots \cap response) \ reset
    /\ Closed(s) /\ UNCHANGED headerStream

\* The peer cancels a stream.
PeerReset(s) == /\ alive /\ headerStream = NoStream /\ s \in nghttp2
                /\ Closed(s) /\ UNCHANGED headerStream

\* More than 15 s pass without progress on an entry.
Quiet(s) ==
    /\ alive /\ s \in slots \ expired
    /\ expired' = expired \cup {s}
    /\ UNCHANGED <<nghttp2, slots, kind, headersDone, response, reset,
                   headerStream, active, rstQueue, context, alive>>

\* Mutant: a half-received header block is never idle.
IdleComplete == {s \in slots \cap expired \cap headersDone : s \notin reset /\ kind[s] # "control"}

\* cf_h2_tick resets every idle entry except an established control stream.
Idle == {s \in slots \cap expired :
           s \notin reset /\ (s \notin headersDone \/ kind[s] # "control")}

Tick == /\ alive /\ Idle # {}
        /\ Reset(Idle)
        /\ UNCHANGED <<nghttp2, slots, kind, headersDone, response, expired,
                       headerStream, active, context, alive>>

\* cf_h2_destroy runs the closed callback of every entry still in use.
Destroy == /\ alive
           /\ alive' = FALSE
           /\ context' = context \ slots
           /\ nghttp2' = {} /\ slots' = {} /\ kind' = [s \in Streams |-> "none"]
           /\ headersDone' = {} /\ response' = {} /\ reset' = {} /\ expired' = {}
           /\ headerStream' = NoStream /\ active' = 0 /\ rstQueue' = {}

Next == \/ Create \/ Tick \/ Destroy
        \/ \E s \in Streams :
             \/ \E k \in Kinds : BeginHeaders(s, k)
             \/ \E verdict \in Verdicts : HeadersComplete(s, verdict)
             \/ \E verdict \in Verdicts \ {"end refused"} : Data(s, verdict)
             \/ RejectHeader(s) \/ Trailers(s)
             \/ Respond(s) \/ ReadResponse(s) \/ ReadFails(s)
             \/ SendReset(s) \/ FinishResponse(s) \/ PeerReset(s) \/ Quiet(s)

Spec == Init /\ [][Next]_h2Vars

\* The owner task ticks the session and pulls its output in every iteration.
FairSpec == /\ Spec
            /\ WF_h2Vars(Tick)
            /\ \A s \in Streams : WF_h2Vars(SendReset(s))

-----------------------------------------------------------------------------
(* Properties *)

\* Every part of the session keeps its type.
TypeOK == /\ nghttp2 \subseteq Streams /\ slots \subseteq Streams
          /\ kind \in [Streams -> Kinds \cup {"none"}]
          /\ headersDone \subseteq Streams /\ response \subseteq Streams
          /\ reset \subseteq Streams /\ expired \subseteq Streams
          /\ rstQueue \subseteq Streams /\ context \subseteq Streams
          /\ headerStream \in Streams \cup {NoStream}
          /\ active \in 0..SlotCount /\ alive \in BOOLEAN

\* However streams are refused, reset, answered and closed, no entry leaks: the
\* counter equals the occupied entries; each belongs to a stream nghttp2 has
\* not closed; each request the application accepted keeps its entry, so that
\* its closed callback runs; and one marked reset has its RST_STREAM queued.
SlotsAccounted == /\ active = Cardinality(slots)
                  /\ slots \subseteq nghttp2
                  /\ context \subseteq slots
                  /\ reset \subseteq rstQueue \cap slots

Established(s) == s \in headersDone /\ kind[s] = "control"

\* An entry that made no progress for 15 s, a half-received header block
\* included, is given back unless it makes progress or turns out to be the
\* control stream, which may stay silent.
IdleReclaimed ==
    \A s \in Streams :
      (s \in slots \cap expired) ~> (s \notin slots \/ s \notin expired \/ Established(s))

\* docs/decisions.md: "separate control and configuration storage".  A control
\* or configuration stream finds an entry whatever the application streams do.
ReservedSlots ==
    [][\A s \in Streams, k \in {"control", "config"} :
         BeginHeaders(s, k) /\ (\A t \in slots : kind[t] # k) => s \in slots']_h2Vars

\* docs/integration.md: "local admission is still restricted to the configured
\* application slots".  The application never owns more request contexts.
ContextsWithinLimit ==
    Cardinality({s \in context : kind[s] = "http"}) <= AppLimit
=============================================================================
