--------------------------- MODULE LifecycleProofs ---------------------------
(***************************************************************************)
(* Proofs about the lifecycle reducer for every scale of the retry policy, *)
(* every width of the counters and every set of hints and random numbers.  *)
(***************************************************************************)
EXTENDS Lifecycle, LifecycleOpsProofs

\* The initial state satisfies the inductive invariant.
LEMMA InitInv == Init => IInv
BY RetryAssumption DEF Init, IInv, TypeOK, LifeInit, LifeRecord, States,
   FlagsMatchState, AttemptNeedsEnvironment, Attempting, Negotiated,
   HintHonoured, DeadlineReached

\* Every call of the reducer's interface and every clock step preserves it.
LEMMA StepInv == IInv /\ [Next]_vars => IInv'
<1> SUFFICES ASSUME IInv, [Next]_vars PROVE IInv'  OBVIOUS
<1>0. MaxTime \in Nat /\ MaxFailures \in Nat  BY RetryAssumption
<1> USE DEF IInv, TypeOK, LifeRecord, States, FlagsMatchState, Attempting,
        AttemptNeedsEnvironment, Negotiated, HintHonoured, DeadlineReached
<1>1. CASE Start
  <2> USE <1>1 DEF Start, StartAllowed, LifeStart, Waiting
  <2>0. 0 \in 0..MaxTime /\ 0 \in 0..MaxFailures  BY <1>0
  <2>1. TypeOK'  BY <2>0
  <2>2. FlagsMatchState' /\ AttemptNeedsEnvironment'  OBVIOUS
  <2>3. HintHonoured' /\ DeadlineReached'  OBVIOUS
  <2> QED  BY <2>1, <2>2, <2>3
<1>2. ASSUME NEW network \in BOOLEAN, NEW time \in BOOLEAN, Environment(network, time)
      PROVE  IInv'
  BY <1>2 DEF Environment, LifeEnvironment, Waiting, Terminal
<1>3. ASSUME NEW event \in Events, Advance(event)
      PROVE  IInv'
  <2> USE <1>3 DEF Advance, AdvanceAllowed, AdvanceFrom, LifeAdvance, Terminal
  <2>1. CASE event = "DISCOVERED"       BY <2>1
  <2>2. CASE event = "CONNECTED"        BY <2>2
  <2>3. CASE event = "TLS_READY"        BY <2>3
  <2>4. CASE event = "HTTP2_READY"      BY <2>4
  <2>5. CASE event = "REGISTERED"       BY <2>5
  <2>6. CASE event = "CONFIG_APPLIED"   BY <2>6
  <2>7. CASE event = "AUTH_REJECTED"    BY <2>7
  <2>8. CASE event = "CONFIG_REJECTED"  BY <2>8
  <2> QED  BY <2>1, <2>2, <2>3, <2>4, <2>5, <2>6, <2>7, <2>8 DEF Events
<1>4. ASSUME NEW hint \in Hints, NEW random \in Randoms, Retry(hint, random)
      PROVE  IInv'
  <2> DEFINE at == Deadline(now, RetryDelay(life.failures, hint, random))
  <2>1. hint \in 0..MaxTime /\ random \in Nat /\ life.failures \in Nat
    BY InputAssumption, RetryAssumption
  <2>2. /\ at \in 0..MaxTime /\ Deadline(now, hint) \in 0..MaxTime
        /\ Deadline(now, hint) <= at
    BY <2>1, RetryDeadline
  <2>3. /\ life' = [life EXCEPT !.retryAt = at,
              !.failures = IF @ < MaxFailures THEN @ + 1 ELSE @,
              !.registered = FALSE, !.configured = FALSE, !.state = "BACKOFF"]
        /\ notBefore' = Deadline(now, hint) /\ now' = now
    BY <1>4 DEF Retry, LifeRetry
  <2> HIDE DEF at
  <2>4. TypeOK'
    <3>1. life'.failures \in 0..MaxFailures  BY <1>0, <2>3
    <3> QED  BY <2>2, <2>3, <3>1
  <2>5. FlagsMatchState' /\ AttemptNeedsEnvironment'  BY <2>3
  <2>6. HintHonoured' /\ DeadlineReached'  BY <2>2, <2>3
  <2> QED  BY <2>4, <2>5, <2>6
<1>5. CASE Tick
  <2> USE <1>5 DEF Tick, LifeTick, Waiting
  <2>1. TypeOK'  OBVIOUS
  <2>2. FlagsMatchState' /\ AttemptNeedsEnvironment'  OBVIOUS
  <2>3. HintHonoured' /\ DeadlineReached'  BY RetryAssumption
  <2> QED  BY <2>1, <2>2, <2>3
<1>6. CASE BeginStopping
  BY <1>6 DEF BeginStopping
<1>7. CASE Stop
  <2>1. 0 \in 0..MaxTime  BY <1>0
  <2> USE <1>7 DEF Stop, LifeStop
  <2>2. TypeOK'  BY <2>1
  <2>3. FlagsMatchState' /\ AttemptNeedsEnvironment'  OBVIOUS
  <2>4. HintHonoured' /\ DeadlineReached'  OBVIOUS
  <2> QED  BY <2>2, <2>3, <2>4
<1>8. CASE Elapse
  BY <1>8, RetryAssumption DEF Elapse
<1>9. CASE UNCHANGED vars
  BY <1>9 DEF vars
<1> QED  BY <1>1, <1>2, <1>3, <1>4, <1>5, <1>6, <1>7, <1>8, <1>9 DEF Next

\* The inductive invariant holds in every reachable state of the reducer.
THEOREM Invariance == Spec => []IInv
BY InitInv, StepInv, PTL DEF Spec

\* Every field of cf_lifecycle keeps its type and width: neither the failure
\* count nor the retry deadline ever leaves its range.
THEOREM TypeCorrect == Spec => []TypeOK
<1>1. IInv => TypeOK  BY DEF IInv
<1> QED  BY <1>1, Invariance, PTL

\* The session flags agree with the state whatever the order of registration,
\* configuration, rejections, failures and flaps.
THEOREM FlagsAgree == Spec => []FlagsMatchState
<1>1. IInv => FlagsMatchState  BY DEF IInv
<1> QED  BY <1>1, Invariance, PTL

\* No attempt runs without network and clock.
THEOREM AttemptsReady == Spec => []AttemptNeedsEnvironment
<1>1. IInv => AttemptNeedsEnvironment  BY DEF IInv
<1> QED  BY <1>1, Invariance, PTL

\* The server's minimum delay is honoured for every hint, jitter and clock.
THEOREM HintsHonoured == Spec => []HintHonoured
<1>1. IInv => HintHonoured  BY DEF IInv
<1> QED  BY <1>1, Invariance, PTL

-----------------------------------------------------------------------------
\* AUTH_FAILED and STOPPING are left by cf_lifecycle_stop alone.
THEOREM Finality == Spec => FinalUntilStopped
<1>1. IInv /\ [Next]_vars =>
        [life.state \in {"AUTH_FAILED", "STOPPING"} =>
            life'.state \in {life.state, "STOPPED"}]_vars
  <2> SUFFICES ASSUME IInv, Next, life.state \in {"AUTH_FAILED", "STOPPING"}
               PROVE  life'.state \in {life.state, "STOPPED"}
    BY DEF vars
  <2> USE DEF IInv, TypeOK, LifeRecord
  <2>1. CASE Start
    BY <2>1 DEF Start, StartAllowed
  <2>2. ASSUME NEW network \in BOOLEAN, NEW time \in BOOLEAN, Environment(network, time)
        PROVE  life'.state = life.state
    BY <2>2 DEF Environment, LifeEnvironment, Terminal
  <2>3. ASSUME NEW event \in Events, Advance(event)
        PROVE  FALSE
    BY <2>3 DEF Advance, AdvanceAllowed, Terminal
  <2>4. ASSUME NEW hint \in Hints, NEW random \in Randoms, Retry(hint, random)
        PROVE  FALSE
    BY <2>4 DEF Retry, RetryAllowed, Terminal
  <2>5. CASE Tick
    BY <2>5 DEF Tick, LifeTick
  <2>6. CASE BeginStopping
    BY <2>6 DEF BeginStopping, Negotiated
  <2>7. CASE Stop
    BY <2>7 DEF Stop, LifeStop
  <2>8. CASE Elapse
    BY <2>8 DEF Elapse
  <2> QED  BY <2>1, <2>2, <2>3, <2>4, <2>5, <2>6, <2>7, <2>8 DEF Next
<1> QED  BY <1>1, Invariance, PTL DEF Spec, FinalUntilStopped

-----------------------------------------------------------------------------
\* One call of the reducer is one step of the availability promise or none:
\* each action is matched with the abstract action it performs.
LEMMA StepSimulation == IInv /\ [Next]_vars => [Abs!Next]_(Abs!absVars)
<1> SUFFICES ASSUME IInv, [Next]_vars PROVE Abs!Next \/ UNCHANGED Abs!absVars
  OBVIOUS
<1> USE DEF IInv, TypeOK, LifeRecord, PhaseOf, Abs!absVars
<1>1. CASE Start
  <2>1. Abs!SwitchOn
    BY <1>1 DEF Start, StartAllowed, LifeStart, Waiting, Abs!SwitchOn
  <2> QED  BY <2>1 DEF Abs!Next
<1>2. ASSUME NEW network \in BOOLEAN, NEW time \in BOOLEAN, Environment(network, time)
      PROVE  Abs!Next \/ UNCHANGED Abs!absVars
  <2> USE <1>2 DEF Environment, LifeEnvironment, Waiting, Terminal, States
  <2>1. CASE life.state \in {"WAIT_NETWORK", "WAIT_TIME"}
    <3>1. Abs!Unblock \/ UNCHANGED Abs!absVars
      BY <2>1 DEF DeadlineReached, Abs!Unblock
    <3> QED  BY <3>1 DEF Abs!Next
  <2>2. CASE life.state \in {"STOPPED", "STOPPING", "AUTH_FAILED", "BACKOFF"}
    BY <2>2
  <2>3. CASE life.state \in Attempting
    <3>1. Abs!Block \/ UNCHANGED Abs!absVars
      BY <2>3 DEF Attempting, Negotiated, Abs!Block, Abs!Active
    <3> QED  BY <3>1 DEF Abs!Next
  <2> QED  BY <2>1, <2>2, <2>3 DEF Attempting, Negotiated
<1>3. ASSUME NEW event \in Events, Advance(event)
      PROVE  Abs!Next \/ UNCHANGED Abs!absVars
  <2> USE <1>3 DEF Advance, AdvanceAllowed, AdvanceFrom, LifeAdvance, Terminal
  <2>1. CASE event \in {"DISCOVERED", "CONNECTED", "TLS_READY", "HTTP2_READY"}
    BY <2>1
  <2>2. CASE event \in {"REGISTERED", "CONFIG_APPLIED"}
    <3>1. Abs!Serve \/ UNCHANGED Abs!absVars
      BY <2>2 DEF Negotiated, FlagsMatchState, DeadlineReached, Abs!Serve
    <3> QED  BY <3>1 DEF Abs!Next
  <2>3. CASE event = "AUTH_REJECTED"
    <3>1. Abs!Deny  BY <2>3 DEF Negotiated, Abs!Deny, Abs!Active
    <3> QED  BY <3>1 DEF Abs!Next
  <2>4. CASE event = "CONFIG_REJECTED"
    BY <2>4 DEF Negotiated, FlagsMatchState
  <2> QED  BY <2>1, <2>2, <2>3, <2>4 DEF Events
<1>4. ASSUME NEW hint \in Hints, NEW random \in Randoms, Retry(hint, random)
      PROVE  Abs!Next
  <2> DEFINE at == Deadline(now, RetryDelay(life.failures, hint, random))
  <2>1. hint \in 0..MaxTime /\ random \in Nat /\ life.failures \in Nat /\ now \in 0..MaxTime
    BY InputAssumption, RetryAssumption
  <2>2. at \in 0..MaxTime /\ (at > now \/ now = MaxTime)
    BY <2>1, RetryDeadline
  <2>3. life'.retryAt = at /\ life'.state = "BACKOFF" /\ now' = now
    BY <1>4 DEF Retry, LifeRetry
  <2>4. PhaseOf(life.state) \in {"trying", "serving"}
    BY <1>4 DEF Retry, RetryAllowed, Terminal, States
  <2> HIDE DEF at
  <2>5. Abs!Cool
    BY <2>2, <2>3, <2>4, RetryAssumption DEF Abs!Cool, Abs!Active
  <2> QED  BY <2>5 DEF Abs!Next
<1>5. CASE Tick
  <2>1. Abs!Resume \/ UNCHANGED Abs!absVars
    BY <1>5 DEF Tick, LifeTick, Waiting, Abs!Resume
  <2> QED  BY <2>1 DEF Abs!Next
<1>6. CASE BeginStopping
  <2>1. Abs!Drain
    BY <1>6 DEF BeginStopping, Negotiated, Abs!Drain, Abs!Active
  <2> QED  BY <2>1 DEF Abs!Next
<1>7. CASE Stop
  <2>1. Abs!SwitchOff  BY <1>7 DEF Stop, LifeStop, Abs!SwitchOff
  <2> QED  BY <2>1 DEF Abs!Next
<1>8. CASE Elapse
  <2>1. Abs!Elapse  BY <1>8 DEF Elapse, Abs!Elapse
  <2> QED  BY <2>1 DEF Abs!Next
<1>9. CASE UNCHANGED vars
  BY <1>9 DEF vars
<1> QED  BY <1>1, <1>2, <1>3, <1>4, <1>5, <1>6, <1>7, <1>8, <1>9 DEF Next

\* The reducer implements the availability promise for every retry policy.
THEOREM Refinement == Spec => ImplementsAvailability
<1>1. Init => Abs!Init
  BY DEF Init, LifeInit, PhaseOf, Abs!Init
<1> QED
  BY <1>1, StepSimulation, Invariance, PTL DEF Spec, ImplementsAvailability, Abs!AbsSpec
=============================================================================
