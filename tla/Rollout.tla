------------------------------ MODULE Rollout ------------------------------
(***************************************************************************)
(* What a phased rollout of one version promises: each device is tried at  *)
(* most once and its outcome is final; a device of a later wave is tried   *)
(* only after every device before it has an outcome, few of them bad.      *)
(* Deployment implements it, job by job, when deliveries do not overlap.   *)
(***************************************************************************)
EXTENDS Naturals, FiniteSets

CONSTANTS Devices, Threshold   \* failures tolerated, in percent

VARIABLES front, wave, outcome
vars == <<front, wave, outcome>>

Outcomes == {"absent", "waiting", "trying", "good", "bad"}
Behind == {d \in Devices : outcome[d] # "absent" /\ wave[d] <= front}

Init == /\ front = 0
        /\ wave \in [Devices -> Nat]
        /\ outcome \in [Devices -> {"absent", "waiting"}]

(* The rollout gets its devices, once.                                     *)
Enlist == /\ \A d \in Devices : outcome[d] = "absent"
          /\ wave' \in [Devices -> Nat]
          /\ outcome' \in [Devices -> {"absent", "waiting"}]
          /\ UNCHANGED front

Try(d) == /\ outcome[d] = "waiting" /\ wave[d] <= front
          /\ outcome' = [outcome EXCEPT ![d] = "trying"]
          /\ UNCHANGED <<front, wave>>

Settle(d, result) == /\ outcome[d] = "trying"
                     /\ outcome' = [outcome EXCEPT ![d] = result]
                     /\ UNCHANGED <<front, wave>>

Promote == /\ \A d \in Behind : outcome[d] \in {"good", "bad"}
           /\ Cardinality({d \in Behind : outcome[d] = "bad"}) * 100
                <= Threshold * Cardinality(Behind)
           /\ Behind # {}
           /\ front' = front + 1
           /\ UNCHANGED <<wave, outcome>>

Next == \/ Enlist \/ Promote
        \/ \E d \in Devices : Try(d) \/ \E result \in {"good", "bad"} : Settle(d, result)

Spec == Init /\ [][Next]_vars

=============================================================================
