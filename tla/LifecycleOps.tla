---------------------------- MODULE LifecycleOps ----------------------------
(***************************************************************************)
(* The connection lifecycle reducer of cf_lifecycle.c as operators from    *)
(* one lifecycle record to the next.  The reducer does no I/O: the owner   *)
(* task feeds it environment flags, events, failures and the clock.  A     *)
(* call that the code answers with CF_ERR_STATE leaves the record alone;   *)
(* for each such call an operator ...Allowed(l) says when it is accepted.  *)
(***************************************************************************)
EXTENDS Integers

CONSTANTS
    BaseMs,       \* first retry ceiling (1000 in the code)
    CeilingMs,    \* largest retry ceiling (60000)
    MaxShift,     \* largest number of doublings (6)
    MaxFailures,  \* UINT32_MAX, where the failure count saturates
    MaxTime       \* UINT64_MAX, where a retry deadline saturates

ASSUME RetryAssumption ==
    /\ BaseMs \in Nat /\ BaseMs >= 2 /\ CeilingMs \in Nat /\ BaseMs <= CeilingMs
    /\ MaxShift \in Nat
    /\ MaxFailures \in Nat
    /\ MaxTime \in Nat /\ CeilingMs <= MaxTime

\* Powers of two, as the provers need to be told.
ASSUME ShiftAssumption == \A s \in 0..MaxShift : 2^s \in Nat \ {0}

States == {"STOPPED", "WAIT_NETWORK", "WAIT_TIME", "DISCOVERY", "CONNECT",
           "TLS", "HTTP2", "REGISTERING", "WAIT_CONFIG", "ONLINE", "BACKOFF",
           "AUTH_FAILED", "CONFIG_FAILED", "STOPPING"}

Events == {"DISCOVERED", "CONNECTED", "TLS_READY", "HTTP2_READY",
           "REGISTERED", "CONFIG_APPLIED", "AUTH_REJECTED", "CONFIG_REJECTED"}

LifeRecord == [state : States, network : BOOLEAN, time : BOOLEAN,
               registered : BOOLEAN, configured : BOOLEAN,
               failures : 0..MaxFailures, retryAt : 0..MaxTime]

LifeInit == [state |-> "STOPPED", network |-> FALSE, time |-> FALSE,
             registered |-> FALSE, configured |-> FALSE,
             failures |-> 0, retryAt |-> 0]

Waiting(l) == IF ~l.network THEN "WAIT_NETWORK"
              ELSE IF ~l.time THEN "WAIT_TIME" ELSE "DISCOVERY"

\* Mutant: refused credentials are tried again.
TerminalForgetsAuth(s) == s \in {"STOPPED", "STOPPING"}

Terminal(s) == s \in {"STOPPED", "STOPPING", "AUTH_FAILED"}

-----------------------------------------------------------------------------
StartAllowed(l) == l.state = "STOPPED"

LifeStart(l) == [l EXCEPT !.registered = FALSE, !.configured = FALSE,
                          !.failures = 0, !.retryAt = 0,
                          !.state = Waiting(l)]

\* Mutant: a network or clock loss ends the back-off.
LifeEnvironmentEndsBackoff(l, network, time) ==
    LET e == [l EXCEPT !.network = network, !.time = time] IN
    IF Terminal(l.state) THEN e
    ELSE IF ~network \/ ~time \/ l.state \in {"WAIT_NETWORK", "WAIT_TIME"}
         THEN [e EXCEPT !.registered = FALSE, !.configured = FALSE, !.state = Waiting(e)]
    ELSE e

\* A network or clock loss drops the session but keeps a retry deadline.
LifeEnvironment(l, network, time) ==
    LET e == [l EXCEPT !.network = network, !.time = time] IN
    IF Terminal(l.state) THEN e
    ELSE IF ~network \/ ~time
         THEN [e EXCEPT !.registered = FALSE, !.configured = FALSE,
                        !.state = IF @ = "BACKOFF" THEN @ ELSE Waiting(e)]
    ELSE [e EXCEPT !.state = IF @ \in {"WAIT_NETWORK", "WAIT_TIME"}
                             THEN "DISCOVERY" ELSE @]

Negotiated == {"REGISTERING", "WAIT_CONFIG", "ONLINE", "CONFIG_FAILED"}

AdvanceFrom(event) ==
    CASE event = "DISCOVERED"  -> {"DISCOVERY"}
      [] event = "CONNECTED"   -> {"CONNECT"}
      [] event = "TLS_READY"   -> {"TLS"}
      [] event = "HTTP2_READY" -> {"HTTP2"}
      [] event = "REGISTERED"  -> {"REGISTERING", "CONFIG_FAILED"}
      [] OTHER                 -> Negotiated

AdvanceAllowed(l, event) ==
    /\ ~Terminal(l.state) /\ l.network /\ l.time
    /\ l.state \in AdvanceFrom(event)

LifeAdvance(l, event) ==
    CASE event = "DISCOVERED"  -> [l EXCEPT !.state = "CONNECT"]
      [] event = "CONNECTED"   -> [l EXCEPT !.state = "TLS"]
      [] event = "TLS_READY"   -> [l EXCEPT !.state = "HTTP2"]
      [] event = "HTTP2_READY" -> [l EXCEPT !.state = "REGISTERING"]
      [] event = "REGISTERED"  ->
           [l EXCEPT !.registered = TRUE,
                     !.state = IF l.configured THEN "ONLINE"
                               ELSE IF @ = "CONFIG_FAILED" THEN @
                               ELSE "WAIT_CONFIG"]
      [] event = "CONFIG_APPLIED" ->
           [l EXCEPT !.configured = TRUE,
                     !.state = IF l.registered THEN "ONLINE" ELSE "REGISTERING"]
      [] event = "AUTH_REJECTED" ->
           [l EXCEPT !.registered = FALSE, !.configured = FALSE,
                     !.state = "AUTH_FAILED"]
      [] event = "CONFIG_REJECTED" ->
           [l EXCEPT !.state = IF l.configured THEN @ ELSE "CONFIG_FAILED"]

\* The callers ignore the result code: a refused event changes nothing.
LifeTryAdvance(l, event) == IF AdvanceAllowed(l, event) THEN LifeAdvance(l, event) ELSE l

-----------------------------------------------------------------------------
RetryAllowed(l) ==
    /\ ~Terminal(l.state)
    /\ l.state \notin {"BACKOFF", "WAIT_NETWORK", "WAIT_TIME"}

RetryCeiling(failures) ==
    LET shift == IF failures < MaxShift THEN failures ELSE MaxShift
        raw   == BaseMs * 2^shift
    IN  IF raw > CeilingMs THEN CeilingMs ELSE raw

\* Mutant: full jitter, which allows a retry without a pause.
RetryDelayFullJitter(failures, hint, random) ==
    LET delay == random % (RetryCeiling(failures) + 1) IN
    IF delay < hint THEN hint ELSE delay

\* Equal jitter, raised to the minimum the server asked for.
RetryDelay(failures, hint, random) ==
    LET half  == RetryCeiling(failures) \div 2
        delay == half + (random % (half + 1))
    IN  IF delay < hint THEN hint ELSE delay

Deadline(now, delay) == IF now > MaxTime - delay THEN MaxTime ELSE now + delay

LifeRetry(l, now, hint, random) ==
    [l EXCEPT !.retryAt = Deadline(now, RetryDelay(l.failures, hint, random)),
              !.failures = IF @ < MaxFailures THEN @ + 1 ELSE @,
              !.registered = FALSE, !.configured = FALSE,
              !.state = "BACKOFF"]

LifeTick(l, now) ==
    IF l.state = "BACKOFF" /\ now >= l.retryAt
    THEN [l EXCEPT !.state = Waiting(l)] ELSE l

\* Mutant: the session flags survive a stop.
LifeStopKeepsFlags(l) == [l EXCEPT !.state = "STOPPED", !.retryAt = 0]

LifeStop(l) == [l EXCEPT !.registered = FALSE, !.configured = FALSE,
                         !.state = "STOPPED", !.retryAt = 0]
=============================================================================
