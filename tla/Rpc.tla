-------------------------------- MODULE Rpc ---------------------------------
(***************************************************************************)
(* A registration RPC session against a peer that may send any frame at    *)
(* any time: answers to the wrong question, duplicates, exceptions, Aborts *)
(* and malformed messages included.                                        *)
(***************************************************************************)
EXTENDS RpcOps, FiniteSets

CONSTANT Delays   \* signed nanosecond delays a rejection can carry

ASSUME DelaysAssumption == Delays \subseteq Int

VARIABLES
    rpc,    \* cf_rpc
    sent,   \* history: how often each message was produced in this session
    last    \* history: the last frame the session accepted for processing

rpcVars == <<rpc, sent, last>>

None == [kind |-> "none"]

Fresh == /\ rpc = RpcInit
         /\ sent = [m \in Messages |-> 0]
         /\ last = None

\* Adds the messages of out, which are pairwise different, to the counts.
Sent(out) == [m \in Messages |->
                sent[m] + IF \E i \in DOMAIN out : out[i] = m THEN 1 ELSE 0]

-----------------------------------------------------------------------------
Begin == /\ BeginAllowed(rpc)
         /\ rpc' = RpcBegin(rpc)
         /\ sent' = Sent(<<"bootstrap">>)
         /\ UNCHANGED last

Register == /\ RegisterAllowed(rpc)
            /\ rpc' = RpcRegister(rpc)
            /\ sent' = Sent(<<"register">>)
            /\ UNCHANGED last

Unregister == /\ UnregisterAllowed(rpc)
              /\ rpc' = RpcUnregister(rpc)
              /\ sent' = Sent(<<"unregister">>)
              /\ UNCHANGED last

Receive(f) == LET result == RpcReceive(rpc, f) IN
              /\ rpc.state \notin Deaf
              /\ rpc' = result.rpc
              /\ sent' = Sent(result.out)
              /\ last' = f

\* The transport closed: cf_rpc_reset forgets the session.
Reset == /\ rpc' = RpcInit
         /\ sent' = [m \in Messages |-> 0]
         /\ last' = None

Next == \/ Begin \/ Register \/ Unregister \/ Reset
        \/ \E f \in Frames(Delays) : Receive(f)

Spec == Fresh /\ [][Next]_rpcVars

-----------------------------------------------------------------------------
(* Properties *)

\* The session record and the message counts keep their types.
TypeOK == /\ rpc \in RpcRecord
          /\ sent \in [Messages -> Nat]
          /\ last \in {None} \cup Frames(Delays)

Question(q) == CASE q = 0 -> "bootstrap" [] q = 1 -> "register" [] q = 2 -> "unregister"

\* At most one question is outstanding, every question is asked once and
\* finished at most once, and an answered question has been finished as soon
\* as the session moves on.
OneQuestionAtATime ==
    /\ \A q \in 0..2 : sent[Finish(q)] <= sent[Question(q)] /\ sent[Question(q)] <= 1
    /\ rpc.state # "FAILED" =>
         \A q \in 0..2 :
           sent[Question(q)] - sent[Finish(q)] = IF q = Expected(rpc) THEN 1 ELSE 0

\* The imported capability is held from the bootstrap answer on and released
\* exactly once, when the session closes; it is never used after that.
CapabilityBalance ==
    /\ rpc.state \in {"READY", "REGISTERING", "REGISTERED", "UNREGISTERING"} =>
          rpc.haveCapability
    /\ sent["release"] = (IF rpc.state = "CLOSED" THEN 1 ELSE 0)
    /\ sent["release"] = 1 => ~rpc.haveCapability

\* A rejection of the credentials is only ever concluded from a rejection in
\* the answer to RegisterConnection, never from an exception or an Abort; the
\* delay it demands is rounded up to the next millisecond, never down, and a
\* negative one means none.
RejectionIsGenuine ==
    rpc.state = "REJECTED" =>
      /\ last.kind = "return" /\ last.answer = 1 /\ last.result = "rejection"
      /\ rpc.shouldRetry = last.retry
      /\ rpc.retryAfter * NsPerMs >= last.delay
      /\ rpc.retryAfter > 0 => (rpc.retryAfter - 1) * NsPerMs < last.delay
=============================================================================
