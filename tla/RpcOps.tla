------------------------------- MODULE RpcOps -------------------------------
(***************************************************************************)
(* The registration RPC client of cf_rpc.c: one outstanding question, one  *)
(* imported capability.  A Cap'n Proto frame is abstracted to what the     *)
(* client tells apart: its message kind and, for a Return, the answered    *)
(* question and the shape of the result.  An operation yields the next     *)
(* session record and the messages the code hands to the transport.        *)
(***************************************************************************)
EXTENDS Integers, Sequences

CONSTANT NsPerMs   \* 1000000 in the code

ASSUME NsAssumption == NsPerMs \in Nat \ {0}

RpcStates == {"IDLE", "BOOTSTRAPPING", "READY", "REGISTERING", "REGISTERED",
              "UNREGISTERING", "CLOSED", "REJECTED", "FAILED"}

RpcRecord == [state : RpcStates, haveCapability : BOOLEAN,
              shouldRetry : BOOLEAN, retryAfter : Nat]

RpcInit == [state |-> "IDLE", haveCapability |-> FALSE,
            shouldRetry |-> FALSE, retryAfter |-> 0]

\* Messages of the client.
Messages == {"bootstrap", "register", "unregister",
             "finish0", "finish1", "finish2", "release", "abort"}

\* Result shapes of a Return: a senderHosted capability, a rejection, a
\* success for a remotely or a locally managed tunnel, an empty result, and
\* anything the client cannot use.
Results == {"exception", "unsupported", "capability", "rejection",
            "success", "unmanaged", "empty"}

\* Frames of the peer.  retry and delay (signed nanoseconds) matter only in a
\* rejection.
Frames(delays) ==
    [kind : {"malformed", "abort", "other"}]
      \cup [kind : {"return"}, answer : 0..3, result : Results \ {"rejection"}]
      \cup [kind : {"return"}, answer : 0..3, result : {"rejection"},
            retry : BOOLEAN, delay : delays]

\* Go durations are signed; a part of a millisecond counts as a whole one.
RetryAfterMs(ns) ==
    IF ns < 0 THEN 0
    ELSE (ns \div NsPerMs) + (IF ns % NsPerMs # 0 THEN 1 ELSE 0)

-----------------------------------------------------------------------------
BeginAllowed(r) == r.state = "IDLE"
RpcBegin(r) == [r EXCEPT !.state = "BOOTSTRAPPING"]

\* Mutant: the state is not checked closely enough.
RegisterAllowedTwice(r) == r.state \in {"READY", "REGISTERING"} /\ r.haveCapability

RegisterAllowed(r) == r.state = "READY" /\ r.haveCapability
RpcRegister(r) == [r EXCEPT !.state = "REGISTERING"]

UnregisterAllowed(r) == r.state = "REGISTERED" /\ r.haveCapability
\* Mutant: the capability is given up with the request.
RpcUnregisterReleases(r) == [r EXCEPT !.state = "UNREGISTERING", !.haveCapability = FALSE]

RpcUnregister(r) == [r EXCEPT !.state = "UNREGISTERING"]

\* A session in one of these states refuses every frame without an answer.
Deaf == {"IDLE", "FAILED", "CLOSED", "REJECTED"}

\* Mutant: whatever goes wrong while registering counts as a rejection.
FailedMeansRejected(r, out) ==
    [rpc |-> [r EXCEPT !.state = IF @ = "REGISTERING" THEN "REJECTED" ELSE "FAILED"],
     out |-> out, ok |-> FALSE]

Failed(r, out) == [rpc |-> [r EXCEPT !.state = "FAILED"], out |-> out, ok |-> FALSE]

\* The question whose answer the session waits for, or -1.
Expected(r) == CASE r.state = "BOOTSTRAPPING" -> 0
                 [] r.state = "REGISTERING"   -> 1
                 [] r.state = "UNREGISTERING" -> 2
                 [] OTHER                     -> -1

Finish(answer) == CASE answer = 0 -> "finish0"
                    [] answer = 1 -> "finish1"
                    [] answer = 2 -> "finish2"

\* The Return of the expected question carries results.
RpcResult(r, f) ==
    CASE r.state = "BOOTSTRAPPING" /\ f.result = "capability" ->
           [rpc |-> [r EXCEPT !.state = "READY", !.haveCapability = TRUE],
            out |-> <<"finish0">>, ok |-> TRUE]
      [] r.state = "REGISTERING" /\ f.result = "rejection" ->
           [rpc |-> [r EXCEPT !.state = "REJECTED", !.shouldRetry = f.retry,
                              !.retryAfter = RetryAfterMs(f.delay)],
            out |-> <<"finish1">>, ok |-> TRUE]
      [] r.state = "REGISTERING" /\ f.result = "success" ->
           [rpc |-> [r EXCEPT !.state = "REGISTERED"],
            out |-> <<"finish1">>, ok |-> TRUE]
      \* Any result without capabilities closes the session.
      [] r.state = "UNREGISTERING" /\ f.result \notin {"capability", "unsupported"} ->
           [rpc |-> [r EXCEPT !.state = "CLOSED", !.haveCapability = FALSE],
            out |-> <<"finish2", "release">>, ok |-> TRUE]
      [] OTHER -> Failed(r, <<"abort">>)

RpcReceive(r, f) ==
    IF r.state \in Deaf THEN [rpc |-> r, out |-> <<>>, ok |-> FALSE]
    ELSE IF f.kind = "abort" THEN Failed(r, <<>>)
    ELSE IF f.kind # "return" \/ Expected(r) = -1 \/ f.answer # Expected(r)
         THEN Failed(r, <<"abort">>)
    ELSE IF f.result = "exception" THEN Failed(r, <<Finish(f.answer)>>)
    ELSE RpcResult(r, f)
=============================================================================
