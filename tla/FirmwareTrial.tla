--------------------------- MODULE FirmwareTrial ---------------------------
(***************************************************************************)
(* What an over-the-air update promises (sdk-c/docs/PROTOCOL.md): a device *)
(* has one trusted firmware and at most one candidate.  A candidate is     *)
(* never older than the trusted firmware; it is judged once, and ends      *)
(* trusted and reported committed, or discarded and reported rolled_back.  *)
(* A reset may lose the rolled_back report but never change the verdict.   *)
(***************************************************************************)
EXTENDS Integers

CONSTANTS Versions, Factory, None


VARIABLES
  trusted,    \* the firmware the device falls back to
  candidate,  \* the firmware on trial, or None
  unreported, \* a discarded firmware whose report is still to be sent, or None
  outcome     \* what was reported of the last accepted command

pvars == <<trusted, candidate, unreported, outcome>>

Init ==
  /\ trusted = Factory
  /\ candidate = None
  /\ unreported = None
  /\ outcome = {}

Accept ==
  /\ candidate = None
  /\ unreported = None
  /\ outcome' = {}
  /\ UNCHANGED <<trusted, candidate, unreported>>

Install ==
  /\ candidate = None
  /\ unreported = None
  /\ outcome = {}
  /\ candidate' \in {v \in Versions : trusted <= v}
  /\ UNCHANGED <<trusted, unreported, outcome>>

Commit ==
  /\ candidate # None
  /\ trusted' = candidate
  /\ candidate' = None
  /\ outcome' = {[status |-> "committed", version |-> candidate]}
  /\ UNCHANGED unreported

Discard ==
  /\ candidate # None
  /\ unreported' = candidate
  /\ candidate' = None
  /\ UNCHANGED <<trusted, outcome>>

Report ==
  /\ unreported # None
  /\ outcome' = {[status |-> "rolled_back", version |-> unreported]}
  /\ unreported' = None
  /\ UNCHANGED <<trusted, candidate>>

LoseReport ==
  /\ unreported # None
  /\ unreported' = None
  /\ UNCHANGED <<trusted, candidate, outcome>>

Next == Accept \/ Install \/ Commit \/ Discard \/ Report \/ LoseReport

Spec == Init /\ [][Next]_pvars

=============================================================================
