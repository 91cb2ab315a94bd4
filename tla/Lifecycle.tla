----------------------------- MODULE Lifecycle ------------------------------
(***************************************************************************)
(* The lifecycle reducer as a state machine: its interface called in any   *)
(* order the callers can produce, with any environment, event, server hint *)
(* and random number, while the millisecond clock advances.                *)
(***************************************************************************)
EXTENDS LifecycleOps

CONSTANTS
    Hints,    \* server-supplied minimum delays (uint32_t)
    Randoms   \* values of esp_random()

ASSUME InputAssumption ==
    /\ Hints \subseteq 0..MaxTime
    /\ Randoms \subseteq Nat

VARIABLES
    life,       \* cf_lifecycle
    now,        \* now_ms()
    notBefore   \* history: the server asked for no attempt before this instant

vars == <<life, now, notBefore>>

Init == life = LifeInit /\ now = 0 /\ notBefore = 0

-----------------------------------------------------------------------------
Start == /\ StartAllowed(life)
         /\ life' = LifeStart(life)
         /\ UNCHANGED <<now, notBefore>>

Environment(network, time) ==
         /\ life' = LifeEnvironment(life, network, time)
         /\ UNCHANGED <<now, notBefore>>

Advance(event) ==
         /\ AdvanceAllowed(life, event)
         /\ life' = LifeAdvance(life, event)
         /\ UNCHANGED <<now, notBefore>>

Retry(hint, random) ==
         /\ RetryAllowed(life)
         /\ life' = LifeRetry(life, now, hint, random)
         /\ notBefore' = Deadline(now, hint)
         /\ UNCHANGED now

Tick == /\ life' = LifeTick(life, now)
        /\ UNCHANGED <<now, notBefore>>

\* The owner task announces a graceful stop by storing the state directly
\* while its RPC session is registered; the session flags stay set.
BeginStopping == /\ life.state \in Negotiated /\ life.registered
                 /\ life' = [life EXCEPT !.state = "STOPPING"]
                 /\ UNCHANGED <<now, notBefore>>

\* An operator's stop forgets the server's delay.
Stop == /\ life' = LifeStop(life)
        /\ notBefore' = 0
        /\ UNCHANGED now

Elapse == /\ now < MaxTime
          /\ now' = now + 1
          /\ UNCHANGED <<life, notBefore>>

Next == \/ Start
        \/ \E network, time \in BOOLEAN : Environment(network, time)
        \/ \E event \in Events : Advance(event)
        \/ \E hint \in Hints, random \in Randoms : Retry(hint, random)
        \/ Tick
        \/ BeginStopping
        \/ Stop
        \/ Elapse

Spec == Init /\ [][Next]_vars

-----------------------------------------------------------------------------
(* Properties *)

\* Every field of cf_lifecycle keeps its type and width.
TypeOK == /\ life \in LifeRecord
          /\ now \in 0..MaxTime
          /\ notBefore \in 0..MaxTime

\* States in which the owner task is allowed to talk to the network.
Attempting == {"DISCOVERY", "CONNECT", "TLS", "HTTP2"} \cup Negotiated

\* The two session flags and the state, set by different events in any
\* order, agree: ONLINE means registered and configured, nothing is
\* registered before the session reached REGISTERING, and a configuration
\* failure is only recorded while no valid configuration is held.
FlagsMatchState ==
    /\ life.state = "ONLINE"        => life.registered /\ life.configured
    /\ life.state = "WAIT_CONFIG"   => life.registered /\ ~life.configured
    /\ life.state = "CONFIG_FAILED" => ~life.configured
    /\ life.state = "REGISTERING"   => ~life.registered
    /\ life.state = "STOPPING"      => life.registered
    /\ life.state \notin Negotiated \cup {"STOPPING"} =>
          ~life.registered /\ ~life.configured

\* No attempt is in progress while the last environment report said that the
\* network or the clock is not ready.
AttemptNeedsEnvironment == life.state \in Attempting => life.network /\ life.time

\* The delay the server demanded with a rejection is honoured through any
\* number of network flaps, ticks and later calls: outside BACKOFF it is over.
HintHonoured == /\ life.state = "BACKOFF" => notBefore <= life.retryAt
                /\ life.state # "BACKOFF" => notBefore <= now

\* A deadline outlives the back-off only until it is reached.
DeadlineReached == life.state # "BACKOFF" => life.retryAt <= now

\* The inductive invariant of the proofs.
IInv == TypeOK /\ FlagsMatchState /\ AttemptNeedsEnvironment
        /\ HintHonoured /\ DeadlineReached

\* A rejection of the credentials is final: only a stop leaves AUTH_FAILED.
\* A graceful stop is final too: no event, failure or flap revives STOPPING.
FinalUntilStopped ==
    [][life.state \in {"AUTH_FAILED", "STOPPING"} =>
          life'.state \in {life.state, "STOPPED"}]_vars

PhaseOf(s) ==
    CASE s = "STOPPED"                       -> "off"
      [] s \in {"WAIT_NETWORK", "WAIT_TIME"} -> "blocked"
      [] s = "ONLINE"                        -> "serving"
      [] s = "BACKOFF"                       -> "cooling"
      [] s = "AUTH_FAILED"                   -> "denied"
      [] s = "STOPPING"                      -> "draining"
      [] OTHER                               -> "trying"

\* The reducer keeps the promise made to the operator.
Abs == INSTANCE Availability WITH phase <- PhaseOf(life.state), resumeAt <- life.retryAt

\* The reducer implements the availability promise of module Availability.
ImplementsAvailability == Abs!AbsSpec
=============================================================================
