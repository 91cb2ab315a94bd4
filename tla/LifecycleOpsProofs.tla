------------------------- MODULE LifecycleOpsProofs -------------------------
(***************************************************************************)
(* Lemmas about the operators of the lifecycle reducer, shared by the      *)
(* proofs about the reducer alone and about the owner task that calls it.  *)
(***************************************************************************)
EXTENDS LifecycleOps, TLAPS

\* The jittered delay of cf_lifecycle_retry is a pause of at least one unit,
\* at most the larger of the policy's ceiling and the hint, and never below
\* the hint.
LEMMA DelayBounds ==
    ASSUME NEW f \in Nat, NEW hint \in 0..MaxTime, NEW random \in Nat
    PROVE  /\ RetryDelay(f, hint, random) \in 1..MaxTime
           /\ RetryDelay(f, hint, random) >= hint
<1> DEFINE shift == IF f < MaxShift THEN f ELSE MaxShift
           raw   == BaseMs * 2^shift
           half  == RetryCeiling(f) \div 2
<1>1. 2^shift \in Nat \ {0}
  BY RetryAssumption, ShiftAssumption
<1> DEFINE p == 2^shift
<1>2. raw \in Nat /\ raw >= 2
  <2> HIDE DEF p, shift
  <2>1. p \in Nat /\ p >= 1
    BY <1>1 DEF p
  <2>2. BaseMs * p \in Nat /\ BaseMs * p >= 2
    BY <2>1, RetryAssumption
  <2> QED  BY <2>2 DEF p
<1>3. RetryCeiling(f) \in Nat /\ RetryCeiling(f) >= 2 /\ RetryCeiling(f) <= CeilingMs
  <2> HIDE DEF raw
  <2>1. RetryCeiling(f) = IF raw > CeilingMs THEN CeilingMs ELSE raw
    BY DEF RetryCeiling, raw
  <2> QED  BY <2>1, <1>2, RetryAssumption
<1>4. half \in Nat /\ half >= 1 /\ 2 * half <= RetryCeiling(f)
  <2> DEFINE c == RetryCeiling(f)
  <2> HIDE DEF c
  <2>1. c \in Nat /\ c >= 2  BY <1>3 DEF c
  <2>2. c \div 2 \in Nat /\ c \div 2 >= 1 /\ 2 * (c \div 2) <= c  BY <2>1
  <2> QED  BY <2>2 DEF c
<1>5. random % (half + 1) \in 0..half
  <2> HIDE DEF half
  <2>1. half + 1 \in Nat /\ half + 1 > 0  BY <1>4
  <2> QED  BY <2>1, <1>4
<1> DEFINE delay == half + (random % (half + 1))
<1>6. delay \in 1..CeilingMs
  <2> HIDE DEF half
  <2> DEFINE jitter == random % (half + 1)
  <2> HIDE DEF jitter
  <2>1. jitter \in 0..half  BY <1>5 DEF jitter
  <2>2. half + jitter \in 1..CeilingMs  BY <2>1, <1>3, <1>4, RetryAssumption
  <2> QED  BY <2>2 DEF jitter
<1>7. RetryDelay(f, hint, random) = IF delay < hint THEN hint ELSE delay
  BY DEF RetryDelay
<1> HIDE DEF delay
<1> QED  BY <1>6, <1>7, RetryAssumption

\* A saturating deadline stays in the clock's range, covers the delay and
\* lies in the future unless the clock is at its end.
LEMMA DeadlineBounds ==
    ASSUME NEW t \in 0..MaxTime, NEW d \in 0..MaxTime
    PROVE  /\ Deadline(t, d) \in 0..MaxTime
           /\ Deadline(t, d) >= t
           /\ d >= 1 => Deadline(t, d) > t \/ t = MaxTime
BY RetryAssumption DEF Deadline

\* A longer delay never ends earlier.
LEMMA DeadlineMonotone ==
    ASSUME NEW t \in 0..MaxTime, NEW d \in 0..MaxTime, NEW e \in 0..MaxTime, e <= d
    PROVE  Deadline(t, e) <= Deadline(t, d)
BY RetryAssumption DEF Deadline

\* The deadline that cf_lifecycle_retry stores is in range, in the future and
\* not before the instant the server's hint names.
LEMMA RetryDeadline ==
    ASSUME NEW t \in 0..MaxTime, NEW f \in Nat, NEW hint \in 0..MaxTime, NEW random \in Nat
    PROVE  LET at == Deadline(t, RetryDelay(f, hint, random))
           IN  /\ at \in 0..MaxTime /\ Deadline(t, hint) \in 0..MaxTime
               /\ Deadline(t, hint) <= at
               /\ at > t \/ t = MaxTime
<1> DEFINE delay == RetryDelay(f, hint, random)
<1>1. delay \in 1..MaxTime /\ delay >= hint  BY DelayBounds
<1> HIDE DEF delay
<1>2. delay \in 0..MaxTime /\ delay >= 1  BY <1>1, RetryAssumption
<1>3. /\ Deadline(t, delay) \in 0..MaxTime
      /\ Deadline(t, delay) > t \/ t = MaxTime  BY <1>2, DeadlineBounds
<1>4. Deadline(t, hint) \in 0..MaxTime  BY DeadlineBounds
<1>5. Deadline(t, hint) <= Deadline(t, delay)  BY <1>1, <1>2, DeadlineMonotone
<1> QED  BY <1>3, <1>4, <1>5 DEF delay

-----------------------------------------------------------------------------
\* A lifecycle record stays one, whichever call of the reducer changes it and
\* whether or not the call is accepted.
LEMMA LifeTypes ==
    ASSUME NEW l \in LifeRecord
    PROVE  /\ LifeStart(l) \in LifeRecord /\ LifeStop(l) \in LifeRecord
           /\ LifeTick(l, 0) \in LifeRecord
           /\ \A n, t \in BOOLEAN : LifeEnvironment(l, n, t) \in LifeRecord
           /\ \A e \in Events : LifeTryAdvance(l, e) \in LifeRecord
<1>0. 0 \in 0..MaxTime /\ 0 \in 0..MaxFailures  BY RetryAssumption
<1> USE DEF LifeRecord, States, Waiting
<1>1. LifeStart(l) \in LifeRecord /\ LifeStop(l) \in LifeRecord
  BY <1>0 DEF LifeStart, LifeStop
<1>2. LifeTick(l, 0) \in LifeRecord  BY DEF LifeTick
<1>3. ASSUME NEW n \in BOOLEAN, NEW t \in BOOLEAN
      PROVE  LifeEnvironment(l, n, t) \in LifeRecord
  BY DEF LifeEnvironment, Terminal
<1>4. ASSUME NEW e \in Events
      PROVE  LifeTryAdvance(l, e) \in LifeRecord
  <2>1. LifeAdvance(l, e) \in LifeRecord
    <3> USE DEF LifeAdvance
    <3>1. CASE e \in {"DISCOVERED", "CONNECTED"}   BY <3>1
    <3>2. CASE e \in {"TLS_READY", "HTTP2_READY"}  BY <3>2
    <3>3. CASE e = "REGISTERED"                    BY <3>3
    <3>4. CASE e = "CONFIG_APPLIED"                BY <3>4
    <3>5. CASE e = "AUTH_REJECTED"                 BY <3>5
    <3>6. CASE e = "CONFIG_REJECTED"               BY <3>6
    <3> QED  BY <3>1, <3>2, <3>3, <3>4, <3>5, <3>6 DEF Events
  <2> QED  BY <2>1 DEF LifeTryAdvance
<1> QED  BY <1>1, <1>2, <1>3, <1>4

\* cf_lifecycle_retry, on a clock that starts at the call: the record stays
\* one, the session is forgotten, and the back-off lasts as long as the server
\* asked for.
LEMMA RetryEffect ==
    ASSUME NEW l \in LifeRecord, NEW hint \in 0..MaxTime, NEW random \in Nat
    PROVE  LET r == LifeRetry(l, 0, hint, random)
           IN  /\ r \in LifeRecord /\ r.state = "BACKOFF"
               /\ ~r.registered /\ ~r.configured
               /\ r.retryAt >= hint
<1> DEFINE at == Deadline(0, RetryDelay(l.failures, hint, random))
<1>1. l.failures \in Nat /\ 0 \in 0..MaxTime  BY RetryAssumption DEF LifeRecord
<1>2. at \in 0..MaxTime /\ Deadline(0, hint) <= at  BY <1>1, RetryDeadline
<1>3. Deadline(0, hint) = hint  BY RetryAssumption DEF Deadline
<1> DEFINE count == IF l.failures < MaxFailures THEN l.failures + 1 ELSE l.failures
<1>4. LifeRetry(l, 0, hint, random) =
        [l EXCEPT !.retryAt = at, !.failures = count,
                  !.registered = FALSE, !.configured = FALSE, !.state = "BACKOFF"]
  BY DEF LifeRetry, LifeRecord
<1>5. count \in 0..MaxFailures
  BY RetryAssumption DEF LifeRecord
<1> HIDE DEF at, count
<1> QED  BY <1>2, <1>3, <1>4, <1>5 DEF LifeRecord, States

\* cf_lifecycle_start forgets the last session and waits for what is missing.
LEMMA StartEffect ==
    ASSUME NEW l \in LifeRecord
    PROVE  LET r == LifeStart(l)
           IN  /\ r.state \in {"WAIT_NETWORK", "WAIT_TIME", "DISCOVERY"}
               /\ r.state = "DISCOVERY" => r.network /\ r.time
               /\ ~r.registered /\ ~r.configured
BY DEF LifeStart, Waiting, LifeRecord

\* One report of the environment and one tick: terminal states are deaf, a
\* loss ends the session but not the back-off, which only its deadline ends.
LEMMA EnvironmentEffect ==
    ASSUME NEW l \in LifeRecord, NEW n \in BOOLEAN, NEW t \in BOOLEAN
    PROVE  LET r == LifeTick(LifeEnvironment(l, n, t), 0) IN
           /\ r \in LifeRecord /\ r.network = n /\ r.time = t /\ r.retryAt = l.retryAt
           /\ r.registered => l.registered
           /\ r.configured => l.configured
           /\ Terminal(l.state) => r.state = l.state
           /\ l.state = "BACKOFF" => \/ r.state = "BACKOFF"
                                     \/ /\ l.retryAt = 0
                                        /\ r.state \in {"WAIT_NETWORK", "WAIT_TIME", "DISCOVERY"}
           /\ ~Terminal(l.state) /\ (~n \/ ~t) =>
                /\ ~r.registered /\ ~r.configured
                /\ l.state = "BACKOFF" \/ r.state \in {"WAIT_NETWORK", "WAIT_TIME"}
           /\ r.state = "DISCOVERY" => n /\ t
           /\ ~Terminal(l.state) /\ n /\ t =>
                /\ r.registered = l.registered /\ r.configured = l.configured
                /\ \/ r.state = l.state
                   \/ r.state = "DISCOVERY" /\ l.state \in {"WAIT_NETWORK", "WAIT_TIME", "BACKOFF"}
<1> DEFINE e == LifeEnvironment(l, n, t)
<1>1. e \in LifeRecord /\ LifeTick(e, 0) \in LifeRecord  BY LifeTypes
<1>2. /\ e.network = n /\ e.time = t /\ e.retryAt = l.retryAt
      /\ Terminal(l.state) => e.state = l.state /\ e.registered = l.registered
                              /\ e.configured = l.configured
      /\ ~Terminal(l.state) /\ (~n \/ ~t) =>
           /\ ~e.registered /\ ~e.configured
           /\ e.state = IF l.state = "BACKOFF" THEN l.state
                        ELSE IF ~n THEN "WAIT_NETWORK" ELSE "WAIT_TIME"
      /\ ~Terminal(l.state) /\ n /\ t =>
           /\ e.registered = l.registered /\ e.configured = l.configured
           /\ e.state = IF l.state \in {"WAIT_NETWORK", "WAIT_TIME"} THEN "DISCOVERY" ELSE l.state
  BY DEF LifeEnvironment, Waiting, LifeRecord
<1> HIDE DEF e
<1>3. /\ LifeTick(e, 0).network = e.network /\ LifeTick(e, 0).time = e.time
      /\ LifeTick(e, 0).retryAt = e.retryAt
      /\ LifeTick(e, 0).registered = e.registered
      /\ LifeTick(e, 0).configured = e.configured
      /\ \/ LifeTick(e, 0).state = e.state
         \/ /\ e.state = "BACKOFF" /\ e.retryAt = 0
            /\ LifeTick(e, 0).state =
                 IF ~e.network THEN "WAIT_NETWORK"
                 ELSE IF ~e.time THEN "WAIT_TIME" ELSE "DISCOVERY"
  BY <1>1, RetryAssumption DEF LifeTick, Waiting, LifeRecord
<1> QED  BY <1>1, <1>2, <1>3 DEF Terminal, e
=============================================================================
