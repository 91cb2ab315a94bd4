------------------------------ MODULE Backend ------------------------------
(***************************************************************************)
(* The native backend of the monitor, monitor_tunnel.c, behind the HTTP/2  *)
(* session: its callbacks run inside the frames that H2 models.  The table *)
(* of response records is static: it outlives the session, and a record    *)
(* that is not given back is lost for every later connection.              *)
(*                                                                         *)
(* Payloads are abstracted: what a request asks for, the state of the      *)
(* tunnel, the free memory and the JSON lock, which the HTTP server's task *)
(* may hold, are choices.                                                  *)
(***************************************************************************)
EXTENDS H2

VARIABLES
    records,  \* the streams that have an entry in responses
    ran,      \* the records whose API call was dispatched
    failed    \* the records that were answered without one: an asset, or the
              \* error of a request that must not be executed

backendVars == <<records, ran, failed>>
allVars == <<h2Vars, backendVars>>

\* response.complete
Complete == ran \cup failed

BackendInit == Init /\ records = {} /\ ran = {} /\ failed = {}

FreeRecord == Cardinality(records) < AppMax

-----------------------------------------------------------------------------
\* respond marks the record complete before it calls cf_h2_respond, which can
\* fail: the callback then returns the error and the session resets the stream.
Submitted == {"answered", "refused"}

Fail(s) == failed' = failed \cup {s} /\ UNCHANGED ran
Run(s) == ran' = ran \cup {s} /\ UNCHANGED failed
Keep == UNCHANGED <<ran, failed>>

\* The end of a request whose record is not complete: a wrong length, no memory
\* or a JSON lock that is taken answer it with an error, else it is executed.
End(s) == Fail(s) \/ Run(s)

\* request: a request the connector does not route here, or that finds the
\* table full, is refused without a record.
RefuseRequest(s) == HeadersComplete(s, "refused") /\ UNCHANGED backendVars

\* It is answered from its headers, waits for its body, or is an API call that
\* has ended already.
TakeRequest(s) ==
    /\ FreeRecord
    /\ records' = records \cup {s}
    /\ \/ \E v \in Submitted : HeadersComplete(s, v) /\ Fail(s)
       \/ HeadersComplete(s, "accepted") /\ Keep
       \/ \E v \in {"answered", "end refused"} : HeadersComplete(s, v) /\ End(s)

\* The callback is asked about an application request only.
Asked(s) == headerStream = s /\ s \in slots \ reset /\ Admitted(s) /\ kind[s] = "http"

Headers(s) ==
    \/ /\ ~Asked(s)
       /\ \E v \in Verdicts : HeadersComplete(s, v)
       /\ UNCHANGED backendVars
    \/ Asked(s) /\ RefuseRequest(s)
    \/ Asked(s) /\ TakeRequest(s)

\* data: a record that is complete discards the rest of the body.
Discard(s) == s \in Complete /\ Data(s, "accepted") /\ UNCHANGED backendVars

\* A chunk is stored, or ends the request with an error when it does not fit.
Chunk(s) == /\ s \in records \ Complete
            /\ UNCHANGED records
            /\ \/ Data(s, "accepted") /\ Keep
               \/ \E v \in Submitted : Data(s, v) /\ Fail(s)

\* Mutant: an end is taken for the end of a request that may be executed.
EndAny(s) == /\ s \in records
             /\ UNCHANGED records
             /\ \E v \in Submitted : Data(s, v) /\ End(s)

EndOfBody(s) == /\ s \in records \ Complete
                /\ UNCHANGED records
                /\ \E v \in Submitted : Data(s, v) /\ End(s)

OtherData(s) == /\ kind[s] # "http"
                /\ \E v \in Verdicts \ {"end refused"} : Data(s, v)
                /\ UNCHANGED backendVars

\* Mutant: the record is kept when the stream was reset.
GiveBackUnlessReset(ids) == /\ records' = records \ (ids \ reset)
                            /\ ran' = ran \ (ids \ reset) /\ failed' = failed \ (ids \ reset)

\* closed, for the streams that had an entry in the session.
GiveBack(ids) == /\ records' = records \ ids
                 /\ ran' = ran \ ids /\ failed' = failed \ ids

Closing(s) == /\ SendReset(s) \/ FinishResponse(s) \/ PeerReset(s)
              /\ GiveBack({s} \cap slots)

DestroySession == Destroy /\ GiveBack(slots)

\* Steps of the session that change nothing in the backend.  The reply to a
\* configuration request is the only one outside a callback, and no callback
\* that reads a response fails.
Elsewhere == /\ \/ Create \/ Tick
                \/ \E s \in Streams :
                     \/ \E k \in Kinds : BeginHeaders(s, k)
                     \/ RejectHeader(s) \/ Trailers(s) \/ Quiet(s)
                     \/ kind[s] = "config" /\ Respond(s)
                     \/ ReadResponse(s)
             /\ UNCHANGED backendVars

BackendNext == \/ Elsewhere \/ DestroySession
               \/ \E s \in Streams : \/ Headers(s) \/ Discard(s) \/ Chunk(s)
                                     \/ EndOfBody(s) \/ OtherData(s) \/ Closing(s)

BackendSpec == BackendInit /\ [][BackendNext]_allVars

\* The owner task ticks the session and pulls its output in every iteration.
BackendFairSpec == /\ BackendSpec
                   /\ WF_allVars(Tick /\ UNCHANGED backendVars)
                   /\ \A s \in Streams : WF_allVars(SendReset(s) /\ GiveBack({s} \cap slots))

-----------------------------------------------------------------------------
\* A response record belongs to a stream that has its entry in the session, so
\* it is given back when the stream closes and at the latest with the session;
\* the table is never overrun, whatever the session admits; and a response that
\* nghttp2 pulls finds its record, complete.
RecordsAccounted == /\ records \subseteq slots
                    /\ Cardinality(records) <= AppMax
                    /\ \A s \in response : kind[s] = "http" => s \in records \cap Complete

\* monitor_tunnel.c: a rejected request body is "discarded, never executed".
\* No request is both answered with an error and executed, in whatever pieces
\* its body arrives.
RejectedNeverExecuted == ran \cap failed = {}
=============================================================================
