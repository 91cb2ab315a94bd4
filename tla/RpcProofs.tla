------------------------------ MODULE RpcProofs ------------------------------
(***************************************************************************)
(* Proofs about the registration RPC client for every set of delays a      *)
(* rejection can carry and every length of a millisecond, against a peer   *)
(* that may send any frame at any time.                                    *)
(***************************************************************************)
EXTENDS Rpc, TLAPS

\* The messages a session in a state has produced, each of them once.
Produced ==
    [s \in RpcStates \ {"FAILED"} |->
       CASE s = "IDLE"          -> {}
         [] s = "BOOTSTRAPPING" -> {"bootstrap"}
         [] s = "READY"         -> {"bootstrap", "finish0"}
         [] s = "REGISTERING"   -> {"bootstrap", "finish0", "register"}
         [] s \in {"REGISTERED", "REJECTED"} ->
              {"bootstrap", "finish0", "register", "finish1"}
         [] s = "UNREGISTERING" ->
              {"bootstrap", "finish0", "register", "finish1", "unregister"}
         [] s = "CLOSED" ->
              {"bootstrap", "finish0", "register", "finish1", "unregister",
               "finish2", "release"}]

\* What a session has said is a function of its state; a failed one stopped
\* somewhere on the way and has not given its capability back.
History ==
    /\ rpc.state # "FAILED" =>
         \A m \in Messages : sent[m] = IF m \in Produced[rpc.state] THEN 1 ELSE 0
    /\ rpc.state = "FAILED" =>
         /\ sent["finish0"] <= sent["bootstrap"] /\ sent["bootstrap"] <= 1
         /\ sent["finish1"] <= sent["register"] /\ sent["register"] <= 1
         /\ sent["finish2"] <= sent["unregister"] /\ sent["unregister"] <= 1
         /\ sent["release"] = 0

\* The capability is held exactly between the bootstrap answer and the close.
Holding ==
    /\ rpc.state \in {"READY", "REGISTERING", "REGISTERED", "UNREGISTERING"} =>
          rpc.haveCapability
    /\ rpc.state = "CLOSED" => ~rpc.haveCapability

\* The inductive invariant: the counts alone do not say which answer is still
\* to come, so they are tied to the state.
IInv == TypeOK /\ History /\ Holding /\ RejectionIsGenuine

-----------------------------------------------------------------------------
\* The delay of a rejection is rounded up: it covers the nanoseconds the
\* server asked for by less than one millisecond more.
LEMMA RoundedUp ==
    ASSUME NEW ns \in Int
    PROVE  /\ RetryAfterMs(ns) \in Nat
           /\ RetryAfterMs(ns) * NsPerMs >= ns
           /\ RetryAfterMs(ns) > 0 => (RetryAfterMs(ns) - 1) * NsPerMs < ns
<1> DEFINE q == ns \div NsPerMs
           r == ns % NsPerMs
<1>1. CASE ns < 0
  BY <1>1, NsAssumption DEF RetryAfterMs
<1>2. CASE ns >= 0
  <2>1. q \in Int /\ r \in 0..(NsPerMs - 1) /\ ns = NsPerMs * q + r
    BY NsAssumption
  <2>2. RetryAfterMs(ns) = q + (IF r # 0 THEN 1 ELSE 0)
    BY <1>2 DEF RetryAfterMs
  <2> HIDE DEF q, r
  <2>3. q >= 0
    BY <1>2, <2>1, NsAssumption
  <2>4. (q + 1) * NsPerMs = NsPerMs * q + NsPerMs /\ q * NsPerMs = NsPerMs * q
    BY <2>1, NsAssumption
  <2>5. (q - 1) * NsPerMs = NsPerMs * q - NsPerMs
    BY <2>1, NsAssumption
  <2>6. CASE r = 0
    BY <2>1, <2>2, <2>3, <2>4, <2>5, <2>6, NsAssumption
  <2>7. CASE r # 0
    <3>1. RetryAfterMs(ns) = q + 1 /\ RetryAfterMs(ns) - 1 = q  BY <2>1, <2>2, <2>7
    <3> QED  BY <2>1, <2>3, <2>4, <2>7, <3>1, NsAssumption
  <2> QED  BY <2>6, <2>7
<1> QED  BY <1>1, <1>2

\* An operation that produces no message leaves the counts alone.
LEMMA SentNone == Sent(<<>>) = [m \in Messages |-> sent[m] + 0]
<1>1. \A m : ~\E i \in DOMAIN <<>> : <<>>[i] = m  OBVIOUS
<1> QED  BY <1>1 DEF Sent

\* One message counts once.
LEMMA SentOne ==
    \A x \in Messages :
      Sent(<<x>>) = [m \in Messages |-> sent[m] + IF m \in {x} THEN 1 ELSE 0]
<1> TAKE x \in Messages
<1>1. \A m : (\E i \in DOMAIN <<x>> : <<x>>[i] = m) <=> m \in {x}  OBVIOUS
<1> QED  BY <1>1 DEF Sent

\* So does each of the two messages that close a session.
LEMMA SentTwo ==
    Sent(<<"finish2", "release">>) =
      [m \in Messages |-> sent[m] + IF m \in {"finish2", "release"} THEN 1 ELSE 0]
<1>1. \A m : (\E i \in DOMAIN <<"finish2", "release">> : <<"finish2", "release">>[i] = m)
               <=> m \in {"finish2", "release"}  OBVIOUS
<1> QED  BY <1>1 DEF Sent

-----------------------------------------------------------------------------
\* A fresh session satisfies the inductive invariant.
LEMMA InitInv == Fresh => IInv
<1> SUFFICES ASSUME Fresh PROVE IInv  OBVIOUS
<1>1. RpcInit \in RpcRecord  BY DEF RpcInit, RpcRecord, RpcStates
<1>2. TypeOK  BY <1>1 DEF Fresh, TypeOK
<1>3. History  BY DEF Fresh, History, Produced, RpcInit, RpcStates, Messages
<1>4. Holding /\ RejectionIsGenuine
  BY DEF Fresh, Holding, RejectionIsGenuine, RpcInit
<1> QED  BY <1>2, <1>3, <1>4 DEF IInv

\* A frame that the session cannot use fails it: the messages so far stay
\* finished in order and the capability is not released.
LEMMA FailedInv ==
    ASSUME IInv, rpc.state \notin Deaf, rpc' = [rpc EXCEPT !.state = "FAILED"],
           NEW x \in Messages,
           sent' = [m \in Messages |-> sent[m] + IF m \in {x} THEN 1 ELSE 0]
             \/ sent' = [m \in Messages |-> sent[m] + 0],
           x \in {"abort", "finish0", "finish1", "finish2"},
           x \in {"finish0", "finish1", "finish2"} =>
             Expected(rpc) \in 0..2 /\ x = Finish(Expected(rpc)),
           last' \in Frames(Delays)
    PROVE  IInv'
<1> USE DEF IInv
<1>1. TypeOK'
  <2>1. rpc' \in RpcRecord  BY DEF TypeOK, RpcRecord, RpcStates
  <2>2. sent' \in [Messages -> Nat]  BY DEF TypeOK
  <2> QED  BY <2>1, <2>2 DEF TypeOK
<1>2. rpc'.state = "FAILED"  BY DEF TypeOK, RpcRecord
<1>3. History'
  <2>1. rpc.state \in {"BOOTSTRAPPING", "READY", "REGISTERING", "REGISTERED", "UNREGISTERING"}
    BY DEF TypeOK, RpcRecord, RpcStates, Deaf
  <2> USE DEF History, Produced, RpcStates, Messages, Expected, Finish, TypeOK
  <2>2. CASE rpc.state = "BOOTSTRAPPING"  BY <1>2, <2>2
  <2>3. CASE rpc.state = "READY"          BY <1>2, <2>3
  <2>4. CASE rpc.state = "REGISTERING"    BY <1>2, <2>4
  <2>5. CASE rpc.state = "REGISTERED"     BY <1>2, <2>5
  <2>6. CASE rpc.state = "UNREGISTERING"  BY <1>2, <2>6
  <2> QED  BY <2>1, <2>2, <2>3, <2>4, <2>5, <2>6
<1>4. Holding' /\ RejectionIsGenuine'  BY <1>2 DEF Holding, RejectionIsGenuine
<1> QED  BY <1>1, <1>3, <1>4

\* A step between two healthy states that adds the messages out, which the
\* earlier state had not produced, keeps the messages in step with the state.
LEMMA HistoryStep ==
    ASSUME TypeOK, History, rpc.state \in RpcStates \ {"FAILED"},
           rpc'.state \in RpcStates \ {"FAILED"}, NEW out,
           sent' = [m \in Messages |-> sent[m] + IF m \in out THEN 1 ELSE 0],
           out \cap Produced[rpc.state] = {},
           Produced[rpc'.state] = Produced[rpc.state] \cup out
    PROVE  History'
BY DEF History, TypeOK

\* The Return of the expected question, with results, moves the session on or
\* fails it.
LEMMA ResultInv ==
    ASSUME IInv, rpc.state \notin Deaf, NEW f \in Frames(Delays),
           f.kind = "return", Expected(rpc) # -1, f.answer = Expected(rpc),
           rpc' = RpcResult(rpc, f).rpc, sent' = Sent(RpcResult(rpc, f).out), last' = f
    PROVE  IInv'
<1> DEFINE g == RpcResult(rpc, f)
<1>0. rpc \in RpcRecord /\ sent \in [Messages -> Nat]  BY DEF IInv, TypeOK
<1>1. last' \in {None} \cup Frames(Delays)  OBVIOUS
<1>2. rpc.state \in {"BOOTSTRAPPING", "REGISTERING", "UNREGISTERING"}
  BY <1>0 DEF Expected, RpcRecord, RpcStates
<1>3. CASE rpc.state = "BOOTSTRAPPING" /\ f.result = "capability"
  <2>1. g.rpc = [rpc EXCEPT !.state = "READY", !.haveCapability = TRUE] /\ g.out = <<"finish0">>
    BY <1>3 DEF RpcResult
  <2>2. sent' = [m \in Messages |-> sent[m] + IF m \in {"finish0"} THEN 1 ELSE 0]
    BY <2>1, SentOne DEF Messages
  <2>3. rpc' \in RpcRecord /\ rpc'.state = "READY" /\ rpc'.haveCapability
    BY <1>0, <2>1 DEF RpcRecord, RpcStates
  <2>4. TypeOK'  BY <1>0, <1>1, <2>2, <2>3 DEF TypeOK
  <2>5. History'  BY <1>3, <2>2, <2>3, HistoryStep DEF IInv, Produced, RpcStates
  <2> QED  BY <2>3, <2>4, <2>5 DEF IInv, Holding, RejectionIsGenuine
<1>4. CASE rpc.state = "REGISTERING" /\ f.result = "rejection"
  <2>1. f.retry \in BOOLEAN /\ f.delay \in Int
    BY <1>4, DelaysAssumption DEF Frames, Results
  <2>2. /\ g.rpc = [rpc EXCEPT !.state = "REJECTED", !.shouldRetry = f.retry,
                               !.retryAfter = RetryAfterMs(f.delay)]
        /\ g.out = <<"finish1">>
    BY <1>4 DEF RpcResult
  <2>3. sent' = [m \in Messages |-> sent[m] + IF m \in {"finish1"} THEN 1 ELSE 0]
    BY <2>2, SentOne DEF Messages
  <2>4. /\ rpc' \in RpcRecord /\ rpc'.state = "REJECTED"
        /\ rpc'.shouldRetry = f.retry /\ rpc'.retryAfter = RetryAfterMs(f.delay)
    BY <1>0, <2>1, <2>2, RoundedUp DEF RpcRecord, RpcStates
  <2>5. TypeOK'  BY <1>0, <1>1, <2>3, <2>4 DEF TypeOK
  <2>6. History'  BY <1>4, <2>3, <2>4, HistoryStep DEF IInv, Produced, RpcStates
  <2>7. f.answer = 1  BY <1>4 DEF Expected
  <2>8. RejectionIsGenuine'  BY <1>4, <2>1, <2>4, <2>7, RoundedUp DEF RejectionIsGenuine
  <2> QED  BY <2>4, <2>5, <2>6, <2>8 DEF IInv, Holding
<1>5. CASE rpc.state = "REGISTERING" /\ f.result = "success"
  <2>1. g.rpc = [rpc EXCEPT !.state = "REGISTERED"] /\ g.out = <<"finish1">>
    BY <1>5 DEF RpcResult
  <2>2. sent' = [m \in Messages |-> sent[m] + IF m \in {"finish1"} THEN 1 ELSE 0]
    BY <2>1, SentOne DEF Messages
  <2>3. /\ rpc' \in RpcRecord /\ rpc'.state = "REGISTERED"
        /\ rpc'.haveCapability = rpc.haveCapability
    BY <1>0, <2>1 DEF RpcRecord, RpcStates
  <2>4. TypeOK'  BY <1>0, <1>1, <2>2, <2>3 DEF TypeOK
  <2>5. History'  BY <1>5, <2>2, <2>3, HistoryStep DEF IInv, Produced, RpcStates
  <2> QED  BY <1>5, <2>3, <2>4, <2>5 DEF IInv, Holding, RejectionIsGenuine
<1>6. CASE rpc.state = "UNREGISTERING" /\ f.result \notin {"capability", "unsupported"}
  <2>1. /\ g.rpc = [rpc EXCEPT !.state = "CLOSED", !.haveCapability = FALSE]
        /\ g.out = <<"finish2", "release">>
    BY <1>6 DEF RpcResult
  <2>2. sent' = [m \in Messages |-> sent[m] + IF m \in {"finish2", "release"} THEN 1 ELSE 0]
    BY <2>1, SentTwo
  <2>3. rpc' \in RpcRecord /\ rpc'.state = "CLOSED" /\ ~rpc'.haveCapability
    BY <1>0, <2>1 DEF RpcRecord, RpcStates
  <2>4. TypeOK'  BY <1>0, <1>1, <2>2, <2>3 DEF TypeOK
  <2>5. History'  BY <1>6, <2>2, <2>3, HistoryStep DEF IInv, Produced, RpcStates
  <2> QED  BY <2>3, <2>4, <2>5 DEF IInv, Holding, RejectionIsGenuine
<1>7. CASE g = Failed(rpc, <<"abort">>)
  <2>1. rpc' = [rpc EXCEPT !.state = "FAILED"]  BY <1>7 DEF Failed
  <2>2. sent' = [m \in Messages |-> sent[m] + IF m \in {"abort"} THEN 1 ELSE 0]
    BY <1>7, SentOne DEF Failed, Messages
  <2> QED  BY <2>1, <2>2, FailedInv DEF Messages
<1> QED  BY <1>2, <1>3, <1>4, <1>5, <1>6, <1>7 DEF RpcResult

\* Every call of the client's interface and every frame preserves it.
LEMMA StepInv == IInv /\ [Next]_rpcVars => IInv'
<1> SUFFICES ASSUME IInv, [Next]_rpcVars PROVE IInv'  OBVIOUS
<1>0. rpc \in RpcRecord /\ sent \in [Messages -> Nat]
  BY DEF IInv, TypeOK
<1>1. CASE Begin
  <2>1. /\ rpc.state = "IDLE" /\ rpc' = [rpc EXCEPT !.state = "BOOTSTRAPPING"]
        /\ last' = last
    BY <1>1 DEF Begin, BeginAllowed, RpcBegin
  <2>2. sent' = [m \in Messages |-> sent[m] + IF m \in {"bootstrap"} THEN 1 ELSE 0]
    BY <1>1, SentOne DEF Begin, Messages
  <2>3. rpc' \in RpcRecord /\ rpc'.state = "BOOTSTRAPPING"
    BY <1>0, <2>1 DEF RpcRecord, RpcStates
  <2>4. TypeOK'  BY <1>0, <2>1, <2>2, <2>3 DEF IInv, TypeOK
  <2>5. History'  BY <2>1, <2>2, <2>3, HistoryStep DEF IInv, Produced, RpcStates
  <2> QED  BY <2>3, <2>4, <2>5 DEF IInv, Holding, RejectionIsGenuine
<1>2. CASE Register
  <2>1. /\ rpc.state = "READY" /\ rpc.haveCapability
        /\ rpc' = [rpc EXCEPT !.state = "REGISTERING"] /\ last' = last
    BY <1>2 DEF Register, RegisterAllowed, RpcRegister
  <2>2. sent' = [m \in Messages |-> sent[m] + IF m \in {"register"} THEN 1 ELSE 0]
    BY <1>2, SentOne DEF Register, Messages
  <2>3. rpc' \in RpcRecord /\ rpc'.state = "REGISTERING" /\ rpc'.haveCapability
    BY <1>0, <2>1 DEF RpcRecord, RpcStates
  <2>4. TypeOK'  BY <1>0, <2>1, <2>2, <2>3 DEF IInv, TypeOK
  <2>5. History'  BY <2>1, <2>2, <2>3, HistoryStep DEF IInv, Produced, RpcStates
  <2> QED  BY <2>3, <2>4, <2>5 DEF IInv, Holding, RejectionIsGenuine
<1>3. CASE Unregister
  <2>1. /\ rpc.state = "REGISTERED" /\ rpc.haveCapability
        /\ rpc' = [rpc EXCEPT !.state = "UNREGISTERING"] /\ last' = last
    BY <1>3 DEF Unregister, UnregisterAllowed, RpcUnregister
  <2>2. sent' = [m \in Messages |-> sent[m] + IF m \in {"unregister"} THEN 1 ELSE 0]
    BY <1>3, SentOne DEF Unregister, Messages
  <2>3. rpc' \in RpcRecord /\ rpc'.state = "UNREGISTERING" /\ rpc'.haveCapability
    BY <1>0, <2>1 DEF RpcRecord, RpcStates
  <2>4. TypeOK'  BY <1>0, <2>1, <2>2, <2>3 DEF IInv, TypeOK
  <2>5. History'  BY <2>1, <2>2, <2>3, HistoryStep DEF IInv, Produced, RpcStates
  <2> QED  BY <2>3, <2>4, <2>5 DEF IInv, Holding, RejectionIsGenuine
<1>4. CASE Reset
  <2>1. Fresh'  BY <1>4 DEF Reset, Fresh
  <2> QED  BY <2>1, InitInv, PTL
<1>5. ASSUME NEW f \in Frames(Delays), Receive(f)
      PROVE  IInv'
  <2> DEFINE h == RpcReceive(rpc, f)
  <2>1. /\ rpc.state \notin Deaf /\ rpc' = h.rpc /\ sent' = Sent(h.out) /\ last' = f
    BY <1>5 DEF Receive
  <2>2. CASE h = Failed(rpc, <<>>)
    <3>1. rpc' = [rpc EXCEPT !.state = "FAILED"] /\ sent' = [m \in Messages |-> sent[m] + 0]
      BY <2>1, <2>2, SentNone DEF Failed
    <3> QED  BY <2>1, <3>1, FailedInv DEF Messages
  <2>3. CASE h = Failed(rpc, <<"abort">>)
    <3>1. /\ rpc' = [rpc EXCEPT !.state = "FAILED"]
          /\ sent' = [m \in Messages |-> sent[m] + IF m \in {"abort"} THEN 1 ELSE 0]
      BY <2>1, <2>3, SentOne DEF Failed, Messages
    <3> QED  BY <2>1, <3>1, FailedInv DEF Messages
  <2>4. CASE /\ f.kind = "return" /\ Expected(rpc) # -1 /\ f.answer = Expected(rpc)
             /\ h = Failed(rpc, <<Finish(f.answer)>>)
    <3>1. /\ Expected(rpc) \in 0..2
          /\ Finish(f.answer) \in {"finish0", "finish1", "finish2"}
      BY <2>4 DEF Expected, Finish
    <3> DEFINE x == Finish(f.answer)
    <3>2. rpc' = [rpc EXCEPT !.state = "FAILED"] /\ h.out = <<x>>
      BY <2>1, <2>4 DEF Failed
    <3> HIDE DEF x
    <3>3. sent' = [m \in Messages |-> sent[m] + IF m \in {x} THEN 1 ELSE 0]
      <4>1. x \in Messages  BY <3>1 DEF Messages, x
      <4> QED  BY <2>1, <3>2, <4>1, SentOne
    <3> QED  BY <2>1, <2>4, <3>1, <3>2, <3>3, FailedInv DEF Messages, x
  <2>5. CASE /\ f.kind = "return" /\ Expected(rpc) # -1 /\ f.answer = Expected(rpc)
             /\ h = RpcResult(rpc, f)
    BY <2>1, <2>5, ResultInv
  <2> QED  BY <2>1, <2>2, <2>3, <2>4, <2>5 DEF RpcReceive
<1>6. CASE UNCHANGED rpcVars
  BY <1>6 DEF rpcVars, IInv, TypeOK, History, Holding, RejectionIsGenuine
<1> QED  BY <1>1, <1>2, <1>3, <1>4, <1>5, <1>6 DEF Next

\* The inductive invariant holds in every reachable state of a session.
THEOREM Invariance == Spec => []IInv
BY InitInv, StepInv, PTL DEF Spec

\* The session record, the counts and the frames keep their types.
THEOREM TypeCorrect == Spec => []TypeOK
<1>1. IInv => TypeOK  BY DEF IInv
<1> QED  BY <1>1, Invariance, PTL

\* Whatever the peer answers and in whatever order, the client asks every
\* question once, has one outstanding at most, and finishes what is answered.
THEOREM OneQuestion == Spec => []OneQuestionAtATime
<1>1. IInv => OneQuestionAtATime
  <2> SUFFICES ASSUME IInv PROVE OneQuestionAtATime  OBVIOUS
  <2>1. rpc.state \in RpcStates  BY DEF IInv, TypeOK, RpcRecord
  <2>2. 0..2 = {0, 1, 2}  OBVIOUS
  <2>3. ASSUME NEW q \in {0, 1, 2}
        PROVE  /\ sent[Finish(q)] <= sent[Question(q)] /\ sent[Question(q)] <= 1
               /\ rpc.state # "FAILED" =>
                    sent[Question(q)] - sent[Finish(q)] = IF q = Expected(rpc) THEN 1 ELSE 0
    <3> USE DEF IInv, History, Produced, Messages, Finish, Question, Expected
    <3>1. CASE rpc.state = "FAILED"                     BY <3>1
    <3>2. CASE rpc.state \in {"IDLE", "BOOTSTRAPPING"}  BY <3>2 DEF RpcStates
    <3>3. CASE rpc.state \in {"READY", "REGISTERING"}   BY <3>3 DEF RpcStates
    <3>4. CASE rpc.state \in {"REGISTERED", "REJECTED"} BY <3>4 DEF RpcStates
    <3>5. CASE rpc.state \in {"UNREGISTERING", "CLOSED"} BY <3>5 DEF RpcStates
    <3> QED  BY <2>1, <3>1, <3>2, <3>3, <3>4, <3>5 DEF RpcStates
  <2> QED  BY <2>2, <2>3 DEF OneQuestionAtATime
<1> QED  BY <1>1, Invariance, PTL

\* The imported capability is held while it is needed, released once, at the
\* close, and not used after that.
THEOREM Balance == Spec => []CapabilityBalance
<1>1. IInv => CapabilityBalance
  <2> SUFFICES ASSUME IInv PROVE CapabilityBalance  OBVIOUS
  <2>1. rpc.state \in RpcStates  BY DEF IInv, TypeOK, RpcRecord
  <2>2. sent["release"] = (IF rpc.state = "CLOSED" THEN 1 ELSE 0)
    BY <2>1 DEF IInv, History, Produced, Messages, RpcStates
  <2> QED  BY <2>2 DEF IInv, Holding, CapabilityBalance
<1> QED  BY <1>1, Invariance, PTL

\* Credentials are given up only on a rejection the edge really sent, with the
\* delay it demanded rounded up.
THEOREM GenuineRejection == Spec => []RejectionIsGenuine
<1>1. IInv => RejectionIsGenuine  BY DEF IInv
<1> QED  BY <1>1, Invariance, PTL
=============================================================================
