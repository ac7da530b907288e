---------------------------- MODULE EmulatedOta ----------------------------
(***************************************************************************)
(* The device of DeviceOta when its type is nff-qemu-esp32: the emulator   *)
(* has one image, so an accepted update is adopted where it is instead of  *)
(* being downloaded to the other slot.                                     *)
(***************************************************************************)
EXTENDS DeviceOta

(* The version is kept in NVS and reported at once.                        *)
SimulatedAdopt ==
  /\ Goto("run", "run")
  /\ target # NoVersion
  /\ Accepts
  /\ ver' = target
  /\ nvAdopted' = target
  /\ fw' = target
  /\ target' = NoVersion
  /\ results' = {[status |-> "committed", version |-> target, from |-> running]}
  /\ flashed' = NoSlot
  /\ UNCHANGED <<flash, nvTrial, nvVersion, nvBoots, nvPending, running, trial,
                 pendingResult, connected, healthyFor, age>>

EmulatedNext ==
  \/ BootSteps \/ RollbackSteps \/ CommitSteps
  \/ Elapse \/ TrialTick
  \/ ReceiveCommand \/ RefuseCommand \/ SimulatedAdopt
  \/ Reconnect \/ Disconnect \/ Reset

EmulatedSpec == Init /\ [][EmulatedNext]_vars

(* A board never reports an older version than it did, whatever resets it  *)
(* (nff_ota.c:290-379).                                                    *)
ReportsNothingOlder == [][fw' >= fw]_vars

=============================================================================
