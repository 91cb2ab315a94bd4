---------------------------- MODULE Availability ----------------------------
(***************************************************************************)
(* What the connector promises its operator, without any protocol detail.  *)
(* It serves only after an attempt, an attempt needs a network and a       *)
(* clock, a failed attempt is followed by a pause that nothing but time or *)
(* the operator ends, and a connector whose credentials were refused makes *)
(* no further attempt until the operator intervenes.                       *)
(***************************************************************************)
EXTENDS Integers

CONSTANT MaxTime

VARIABLES
    phase,    \* what the connector is doing
    resumeAt, \* no attempt starts before this instant
    now

absVars == <<phase, resumeAt, now>>

Phases == {"off", "blocked", "trying", "serving", "cooling", "denied", "draining"}

Active == {"trying", "serving"}

Init == phase = "off" /\ resumeAt = 0 /\ now = 0

SwitchOn == /\ phase = "off"
            /\ phase' \in {"blocked", "trying"} /\ resumeAt' = 0
            /\ UNCHANGED now

SwitchOff == phase' = "off" /\ resumeAt' = 0 /\ UNCHANGED now

Block == /\ phase \in Active
         /\ phase' = "blocked"
         /\ UNCHANGED <<resumeAt, now>>

Unblock == /\ phase = "blocked" /\ now >= resumeAt
           /\ phase' = "trying"
           /\ UNCHANGED <<resumeAt, now>>

Serve == /\ phase = "trying" /\ now >= resumeAt
         /\ phase' = "serving"
         /\ UNCHANGED <<resumeAt, now>>

\* Every failure is followed by a pause, unless the clock is at its end.
Cool == /\ phase \in Active
        /\ phase' = "cooling"
        /\ resumeAt' \in Nat /\ (resumeAt' > now \/ now = MaxTime)
        /\ UNCHANGED now

Resume == /\ phase = "cooling" /\ now >= resumeAt
          /\ phase' \in {"blocked", "trying"}
          /\ UNCHANGED <<resumeAt, now>>

Deny == /\ phase \in Active
        /\ phase' = "denied"
        /\ UNCHANGED <<resumeAt, now>>

Drain == /\ phase \in Active
         /\ phase' = "draining"
         /\ UNCHANGED <<resumeAt, now>>

Elapse == now' > now /\ UNCHANGED <<phase, resumeAt>>

Next == \/ SwitchOn \/ SwitchOff \/ Block \/ Unblock \/ Serve
        \/ Cool \/ Resume \/ Deny \/ Drain \/ Elapse

AbsSpec == Init /\ [][Next]_absVars
=============================================================================
