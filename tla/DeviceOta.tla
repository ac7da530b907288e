----------------------------- MODULE DeviceOta -----------------------------
(***************************************************************************)
(* Firmware update of one device: the A/B partitions, the NVS probation    *)
(* record and the RAM state of the SDK, from the acceptance of an `ota'    *)
(* command (nff_ota.c) through the trial boot (nff_core.c) to commit or    *)
(* rollback, with a power loss possible at the control points ResetPoints. *)
(*                                                                         *)
(* A control point `pc' lies between every two effects that outlive a      *)
(* reset (an NVS key, the boot selection, a slot, a published result), so  *)
(* a reset leaves exactly a prefix of a sequence of NVS writes: this is    *)
(* what nvs_set_*/nvs_commit promise, as no other durable effect happens   *)
(* between a set and its commit.  An image is named by its version.        *)
(* "ota_committed" is only ever written "0" by the SDK, so a queued result *)
(* is always rolled_back and the key needs no variable.                    *)
(***************************************************************************)
EXTENDS Integers

CONSTANTS
  Versions,         \* firmware versions the server may deploy
  Factory,          \* the version flashed over USB
  MaxTrialBoots,    \* NFF_OTA_MAX_TRIAL_BOOTS
  Soak,             \* NFF_OTA_MIN_HEALTHY_MS, in clock units
  Deadline,         \* NFF_OTA_CONFIRM_TIMEOUT_S, in clock units
  ResetPoints,      \* control points at which the power may fail
  AdoptedConfig     \* the config loader is nvs_creds.c (it reads fw_adopted)

NoVersion == 0
Blank == 0          \* an erased or half-written slot
NotHealthy == -1    \* ota_health_since_ms = 0

PC == {"off", "boot_check", "load_pending", "er_pending", "er_version",
       "connect", "run",
       "fb_pending", "fb_version", "fb_trial", "fb_boots",
       "rb_pending", "rb_version", "rb_trial", "rb_boots", "revert",
       "cm_valid", "cm_publish", "cm_adopt", "cm_trial", "cm_boots",
       "download", "finish", "tr_trial", "tr_version", "tr_boots", "reboot"}

ASSUME VersionsAssumption == /\ Versions \subseteq Nat \ {0}
                             /\ Factory \in Versions
ASSUME TimingAssumption == /\ MaxTrialBoots \in Nat \ {0}
                           /\ Soak \in Nat \ {0}
                           /\ Deadline \in Nat \ {0}
ASSUME ModeAssumption == /\ AdoptedConfig \in BOOLEAN
                         /\ ResetPoints \subseteq PC

VARIABLES
  \* flash
  slot,          \* the image in each of the two OTA slots
  boot,          \* the slot otadata selects
  confirmed,     \* slots whose image was marked valid since it was written
  \* NVS
  nvTrial,       \* "ota_trial" = "1"
  nvVersion,     \* "ota_version"
  nvBoots,       \* "ota_boot_count"
  nvPending,     \* "ota_pending" = "1"
  nvAdopted,     \* "fw_adopted"
  \* RAM, lost by a reset
  pc,            \* where the SDK is
  running,       \* the slot the bootloader started
  fw,            \* cfg->fw_version
  trial,         \* g_nff.ota_trial
  ver,           \* g_nff.pending_ota_version
  pendingResult, \* g_nff.pending_ota_result
  target,        \* version of the `ota' command parked or being installed
  connected,     \* nff_port_mqtt_is_connected
  healthyFor,    \* time since ota_health_since_ms, up to Soak
  age,           \* time since the trial was armed, up to Deadline
  \* history
  results,       \* ota_result messages handed to MQTT since the last ota_started
  flashed        \* the slot the command of that ota_started has filled

flash == <<slot, boot, confirmed>>
nvs == <<nvTrial, nvVersion, nvBoots, nvPending, nvAdopted>>
ram == <<running, fw, trial, ver, pendingResult, target, connected, healthyFor, age>>
history == <<results, flashed>>
vars == <<flash, nvs, pc, ram, history>>

Slots == {0, 1}
OtherSame(s) == s
Other(s) == 1 - s
Unsaturated(a, b) == a
MinOf(a, b) == IF a <= b THEN a ELSE b
NoSlot == -1
Image == Versions \cup {Blank}
Result == [status : {"committed", "rolled_back"},
           version : Versions \cup {NoVersion}, from : Slots]

-----------------------------------------------------------------------------
(* Publishing an ota_result; the slot it is published from is history.     *)
Publish(status) ==
  results' = results \cup {[status |-> status, version |-> ver, from |-> running]}

(* The checks of an `ota' command: no trial under way and no downgrade.     *)
AcceptsOnTrial == fw <= target
AcceptsDowngrade == ~trial
Accepts == ~trial /\ fw <= target

(* The bootloader fell back from the image that is on trial.               *)
FallbackUnseen == FALSE
FellBack == boot # running

(* The confirm window of a trial is over.                                  *)
ExpiredOffline == age >= Deadline /\ ~connected
Expired == age >= Deadline

(* The SDK goes from one control point to another.                         *)
Goto(from, to) == pc = from /\ pc' = to

Init ==
  /\ slot = [s \in Slots |-> IF s = 0 THEN Factory ELSE Blank]
  /\ boot = 0
  /\ confirmed = {0}
  /\ nvTrial = FALSE
  /\ nvVersion = NoVersion
  /\ nvBoots = 0
  /\ nvPending = FALSE
  /\ nvAdopted = NoVersion
  /\ pc = "off"
  /\ running = 0
  /\ fw = Factory
  /\ trial = FALSE
  /\ ver = NoVersion
  /\ pendingResult = FALSE
  /\ target = NoVersion
  /\ connected = FALSE
  /\ healthyFor = NotHealthy
  /\ age = 0
  /\ results = {}
  /\ flashed = NoSlot

-----------------------------------------------------------------------------
(* The bootloader starts the selected slot, or the other one when it       *)
(* refuses the selected one: a slot that holds no image, or one never      *)
(* marked valid (its image is corrupt, or rollback is enabled).  nff_init  *)
(* begins with zeroed RAM and the configuration of the started image.      *)
Boot ==
  /\ Goto("off", "boot_check")
  /\ \E s \in Slots :
       /\ slot[s] # Blank
       /\ s # boot => boot \notin confirmed
       /\ running' = s
       /\ fw' = IF AdoptedConfig /\ nvAdopted # NoVersion THEN nvAdopted ELSE slot[s]
  /\ trial' = FALSE
  /\ ver' = NoVersion
  /\ pendingResult' = FALSE
  /\ target' = NoVersion
  /\ connected' = FALSE
  /\ healthyFor' = NotHealthy
  /\ age' = 0
  /\ UNCHANGED <<flash, nvs, history>>

(* Power loss, panic or watchdog.                                          *)
Reset ==
  /\ pc \in ResetPoints \ {"off"}
  /\ pc' = "off"
  /\ UNCHANGED <<flash, nvs, ram, history>>

-----------------------------------------------------------------------------
(* nff_ota_boot_check.  The count is only ever compared with MaxTrialBoots, *)
(* so it saturates there.                                                  *)
BootCheckNoTrial ==
  /\ Goto("boot_check", "load_pending")
  /\ ~nvTrial
  /\ UNCHANGED <<flash, nvs, ram, history>>

(* The bootloader fell back: repoint the boot selection at this image,     *)
(* then queue rolled_back and clear the trial.                             *)
BootCheckFallback ==
  /\ Goto("boot_check", "fb_pending")
  /\ nvTrial
  /\ FellBack
  /\ ver' = nvVersion
  /\ boot' = running
  /\ UNCHANGED <<slot, confirmed, nvs, running, fw, trial, pendingResult, target,
                 connected, healthyFor, age, history>>

BootCheckArm ==
  /\ Goto("boot_check", "load_pending")
  /\ nvTrial
  /\ ~FellBack
  /\ nvBoots + 1 < MaxTrialBoots
  /\ nvBoots' = MinOf(nvBoots + 1, MaxTrialBoots)
  /\ ver' = nvVersion
  /\ trial' = TRUE
  /\ healthyFor' = NotHealthy
  /\ age' = 0
  /\ UNCHANGED <<flash, nvTrial, nvVersion, nvPending, nvAdopted, running, fw,
                 pendingResult, target, connected, history>>

BootCheckCrashLoop ==
  /\ Goto("boot_check", "rb_pending")
  /\ nvTrial
  /\ ~FellBack
  /\ nvBoots + 1 >= MaxTrialBoots
  /\ nvBoots' = MinOf(nvBoots + 1, MaxTrialBoots)
  /\ ver' = nvVersion
  /\ UNCHANGED <<flash, nvTrial, nvVersion, nvPending, nvAdopted, running, fw, trial,
                 pendingResult, target, connected, healthyFor, age, history>>

(* The writes nff_ota_rollback and the fallback branch have in common, one *)
(* key at a time: ota_pending, ota_version, then ota_clear_trial_nvs.      *)
QueueResult(from, to) ==
  /\ Goto(from, to)
  /\ nvPending' = TRUE
  /\ UNCHANGED <<flash, nvTrial, nvVersion, nvBoots, nvAdopted, ram, history>>

QueueVersion(from, to) ==
  /\ Goto(from, to)
  /\ nvVersion' = ver
  /\ UNCHANGED <<flash, nvTrial, nvBoots, nvPending, nvAdopted, ram, history>>

EraseTrialLost(from, to) ==
  Goto(from, to) /\ UNCHANGED <<flash, nvs, ram, history>>
EraseTrial(from, to) ==
  /\ Goto(from, to)
  /\ nvTrial' = FALSE
  /\ UNCHANGED <<flash, nvVersion, nvBoots, nvPending, nvAdopted, ram, history>>

EraseBootCount(from, to) ==
  /\ Goto(from, to)
  /\ nvBoots' = 0
  /\ UNCHANGED <<flash, nvTrial, nvVersion, nvPending, nvAdopted, ram, history>>

QueueFallback ==
  \/ QueueResult("fb_pending", "fb_version")
  \/ QueueVersion("fb_version", "fb_trial")
  \/ EraseTrial("fb_trial", "fb_boots")
  \/ EraseBootCount("fb_boots", "load_pending")

(* nff_ota_rollback                                                        *)
QueueRollback ==
  \/ QueueResult("rb_pending", "rb_version")
  \/ QueueVersion("rb_version", "rb_trial")
  \/ EraseTrial("rb_trial", "rb_boots")
  \/ EraseBootCount("rb_boots", "revert")

(* nff_port_ota_rollback: select the other slot and restart.  The port     *)
(* refuses a slot that holds no image, and restarts all the same.          *)
Revert ==
  /\ Goto("revert", "off")
  /\ boot' = IF slot[Other(running)] # Blank THEN Other(running) ELSE boot
  /\ UNCHANGED <<slot, confirmed, nvs, ram, history>>

-----------------------------------------------------------------------------
(* nff_init: a queued result moves to RAM, and its keys are erased.        *)
LoadPending ==
  /\ Goto("load_pending", IF nvPending THEN "er_pending" ELSE "connect")
  /\ IF nvPending
       THEN pendingResult' = TRUE /\ ver' = nvVersion
       ELSE UNCHANGED <<pendingResult, ver>>
  /\ UNCHANGED <<flash, nvs, running, fw, trial, target, connected, healthyFor, age,
                 history>>

ErasePending ==
  /\ Goto("er_pending", "er_version")
  /\ nvPending' = FALSE
  /\ UNCHANGED <<flash, nvTrial, nvVersion, nvBoots, nvAdopted, ram, history>>

EraseVersion ==
  /\ Goto("er_version", "connect")
  /\ nvVersion' = NoVersion
  /\ UNCHANGED <<flash, nvTrial, nvBoots, nvPending, nvAdopted, ram, history>>

(* nff_ota_check_pending_result, part of every connect.                    *)
FlushPending ==
  /\ pendingResult' = FALSE
  /\ IF pendingResult THEN Publish("rolled_back") ELSE UNCHANGED results

(* nff_connect: only a session that is up when nff_mqtt_init returns marks *)
(* the running image valid.                                                *)
Connect ==
  /\ Goto("connect", "run")
  /\ \/ /\ connected' = TRUE
        /\ FlushPending
        /\ confirmed' = IF trial THEN confirmed ELSE confirmed \cup {running}
     \/ UNCHANGED <<connected, pendingResult, confirmed, results>>
  /\ UNCHANGED <<slot, boot, nvs, running, fw, trial, ver, target, healthyFor, age,
                 flashed>>

(* after_connect of nff_mqtt.c, on the ports where the tick reconnects.    *)
Reconnect ==
  /\ Goto("run", "run")
  /\ ~connected
  /\ connected' = TRUE
  /\ FlushPending
  /\ UNCHANGED <<flash, nvs, running, fw, trial, ver, target, healthyFor, age, flashed>>

Disconnect ==
  /\ connected
  /\ connected' = FALSE
  /\ UNCHANGED <<flash, nvs, pc, running, fw, trial, ver, pendingResult, target,
                 healthyFor, age, history>>

-----------------------------------------------------------------------------
(* nff_ota_trial_tick, and the clock between two ticks.                    *)
Elapse ==
  /\ Goto("run", "run")
  /\ trial
  /\ age' = MinOf(age + 1, Deadline)
  /\ healthyFor' = IF healthyFor = NotHealthy THEN healthyFor
                   ELSE MinOf(healthyFor + 1, Soak)
  /\ UNCHANGED <<flash, nvs, running, fw, trial, ver, pendingResult, target, connected,
                 history>>

TickHealthy ==
  /\ pc = "run"
  /\ trial
  /\ connected
  /\ healthyFor' = IF healthyFor = NotHealthy THEN 0 ELSE healthyFor
  /\ pc' = IF healthyFor' >= Soak THEN "cm_valid" ELSE "run"
  /\ UNCHANGED <<flash, nvs, running, fw, trial, ver, pendingResult, target, connected,
                 age, history>>

(* Disconnected, short of heap, or refused by the application's check.     *)
TickUnhealthy ==
  /\ pc = "run"
  /\ trial
  /\ healthyFor' = NotHealthy
  /\ pc' = IF Expired THEN "rb_pending" ELSE "run"
  /\ UNCHANGED <<flash, nvs, running, fw, trial, ver, pendingResult, target, connected,
                 age, history>>

(* nff_ota_commit                                                          *)
CommitUnmarked == Goto("cm_valid", "cm_publish") /\ UNCHANGED <<flash, nvs, ram, history>>
CommitMarkValid ==
  /\ Goto("cm_valid", "cm_publish")
  /\ confirmed' = confirmed \cup {running}
  /\ UNCHANGED <<slot, boot, nvs, ram, history>>

CommitPublish ==
  /\ Goto("cm_publish", "cm_adopt")
  /\ Publish("committed")
  /\ UNCHANGED <<flash, nvs, ram, flashed>>

CommitAdopt ==
  /\ Goto("cm_adopt", "cm_trial")
  /\ nvAdopted' = ver
  /\ UNCHANGED <<flash, nvTrial, nvVersion, nvBoots, nvPending, ram, history>>

CommitEraseTrial == EraseTrial("cm_trial", "cm_boots")

CommitEraseBootCount ==
  /\ Goto("cm_boots", "run")
  /\ nvBoots' = 0
  /\ trial' = FALSE
  /\ UNCHANGED <<flash, nvTrial, nvVersion, nvPending, nvAdopted, running, fw, ver,
                 pendingResult, target, connected, healthyFor, age, history>>

-----------------------------------------------------------------------------
(* nff_cmd_dispatch parks a verified `ota' command unless one is parked.   *)
ReceiveCommand ==
  /\ Goto("run", "run")
  /\ connected
  /\ target = NoVersion
  /\ \E v \in Versions : target' = v
  /\ UNCHANGED <<flash, nvs, running, fw, trial, ver, pendingResult, connected,
                 healthyFor, age, history>>

(* nff_ota_handle_cmd: busy while a trial is on, downgrade, or no slot.    *)
RefuseCommand ==
  /\ Goto("run", "run")
  /\ target # NoVersion
  /\ ~Accepts
  /\ target' = NoVersion
  /\ UNCHANGED <<flash, nvs, running, fw, trial, ver, pendingResult, connected,
                 healthyFor, age, history>>

(* Accepted: ota_started is published and the other slot is erased, or     *)
(* nff_port_ota_begin fails and the command ends there.                    *)
BeginDownload ==
  /\ pc = "run"
  /\ target # NoVersion
  /\ Accepts
  /\ results' = {}
  /\ flashed' = NoSlot
  /\ \/ /\ pc' = "download"
        /\ slot' = [slot EXCEPT ![Other(running)] = Blank]
        /\ confirmed' = confirmed \ {Other(running)}
        /\ UNCHANGED target
     \/ /\ pc' = "run"
        /\ target' = NoVersion
        /\ UNCHANGED <<slot, confirmed>>
  /\ UNCHANGED <<boot, nvs, running, fw, trial, ver, pendingResult, connected,
                 healthyFor, age>>

(* The transfer fails, its hash differs, or nff_port_ota_end fails: the    *)
(* slot holds no image and the boot selection is as it was.                *)
DownloadFails ==
  /\ \/ Goto("download", "run")
     \/ Goto("finish", "run")
  /\ target' = NoVersion
  /\ UNCHANGED <<flash, nvs, running, fw, trial, ver, pendingResult, connected,
                 healthyFor, age, history>>

DownloadVerified ==
  /\ Goto("download", "finish")
  /\ UNCHANGED <<flash, nvs, ram, history>>

(* nff_port_ota_end: the image is complete and selected.                   *)
Finish ==
  /\ Goto("finish", "tr_trial")
  /\ slot' = [slot EXCEPT ![Other(running)] = target]
  /\ boot' = Other(running)
  /\ flashed' = Other(running)
  /\ UNCHANGED <<confirmed, nvs, ram, results>>

RecordTrial ==
  /\ Goto("tr_trial", "tr_version")
  /\ nvTrial' = TRUE
  /\ UNCHANGED <<flash, nvVersion, nvBoots, nvPending, nvAdopted, ram, history>>

RecordAdopted ==
  /\ Goto("tr_version", "tr_boots")
  /\ nvVersion' = target
  /\ nvAdopted' = target
  /\ UNCHANGED <<flash, nvTrial, nvBoots, nvPending, ram, history>>
RecordVersion ==
  /\ Goto("tr_version", "tr_boots")
  /\ nvVersion' = target
  /\ UNCHANGED <<flash, nvTrial, nvBoots, nvPending, nvAdopted, ram, history>>

RecordBootCount == EraseBootCount("tr_boots", "reboot")

Reboot ==
  /\ Goto("reboot", "off")
  /\ UNCHANGED <<flash, nvs, ram, history>>

-----------------------------------------------------------------------------
BootSteps == Boot \/ BootCheckNoTrial \/ BootCheckFallback \/ BootCheckArm
             \/ BootCheckCrashLoop \/ QueueFallback
             \/ LoadPending \/ ErasePending \/ EraseVersion \/ Connect
RollbackSteps == QueueRollback \/ Revert
CommitSteps == CommitMarkValid \/ CommitPublish \/ CommitAdopt \/ CommitEraseTrial
               \/ CommitEraseBootCount
InstallSteps == DownloadFails \/ DownloadVerified \/ Finish \/ RecordTrial
                \/ RecordVersion \/ RecordBootCount \/ Reboot
TrialTick == TickHealthy \/ TickUnhealthy

Next ==
  \/ BootSteps \/ RollbackSteps \/ CommitSteps \/ InstallSteps
  \/ Elapse \/ TrialTick
  \/ ReceiveCommand \/ RefuseCommand \/ BeginDownload
  \/ Reconnect \/ Disconnect \/ Reset

Spec == Init /\ [][Next]_vars

(* The firmware keeps running its loop, and time passes; nothing makes the *)
(* broker reachable or a command arrive.                                   *)
Fairness == /\ WF_vars(BootSteps \/ RollbackSteps \/ CommitSteps \/ InstallSteps)
            /\ WF_vars(Elapse)
            /\ WF_vars(TrialTick)
FairSpec == Spec /\ Fairness

-----------------------------------------------------------------------------
(* The types of the variables.                                             *)
FlagsOK ==
  /\ nvTrial \in BOOLEAN
  /\ nvPending \in BOOLEAN
  /\ trial \in BOOLEAN
  /\ pendingResult \in BOOLEAN
  /\ connected \in BOOLEAN

DataOK ==
  /\ slot \in [Slots -> Image]
  /\ boot \in Slots
  /\ confirmed \subseteq Slots
  /\ nvVersion \in Versions \cup {NoVersion}
  /\ nvBoots \in 0..MaxTrialBoots
  /\ nvAdopted \in Versions \cup {NoVersion}
  /\ pc \in PC
  /\ running \in Slots
  /\ fw \in Versions
  /\ ver \in Versions \cup {NoVersion}
  /\ target \in Versions \cup {NoVersion}
  /\ healthyFor \in {NotHealthy} \cup 0..Soak
  /\ age \in 0..Deadline
  /\ results \subseteq Result
  /\ flashed \in Slots \cup {NoSlot}

TypeOK == FlagsOK /\ DataOK

(* Control points at which a reset costs no more than the work in hand.    *)
(* The others lie inside a change of two durable places that belong        *)
(* together: the boot selection and the trial record, or a result and the  *)
(* trial record it settles.                                                *)
SafePoints == PC \ {"tr_trial", "tr_version",
                    "fb_pending", "fb_version", "fb_trial",
                    "rb_version", "rb_trial", "rb_boots", "revert",
                    "cm_adopt", "cm_trial"}

(* Whatever the reset, the device has an image to start: the slot it runs  *)
(* is never the one being written, and while a trial record exists the     *)
(* other slot still holds the image to go back to ("otherwise we'd lose    *)
(* the rollback target", nff_ota_handle_cmd).                              *)
NeverBricked ==
  /\ \E s \in Slots : slot[s] # Blank /\ (s # boot => boot \notin confirmed)
  /\ nvTrial => \A s \in Slots : slot[s] # Blank

(* In the main loop the RAM probation flag and the persisted record agree, *)
(* so no command is taken on an image that the next boot would put on      *)
(* trial, and no trial runs that the next boot would not know of.          *)
TrialAgrees == pc = "run" => (trial <=> nvTrial)

(* Why the three hold whatever the reset, one clause per phase: the        *)
(* strengthening of NeverBricked and TrialAgrees that every step preserves.*)
ImagesIntact == /\ slot[running] # Blank
                /\ \A s \in confirmed : slot[s] # Blank
InstallHasTarget == pc \in {"download", "finish"} => target # NoVersion
RecordKeepsImages == nvTrial \/ pc = "tr_trial" => \A s \in Slots : slot[s] # Blank
NoRecordWhileInstalling ==
  pc \in {"download", "finish", "tr_trial", "fb_boots", "rb_boots", "revert", "cm_boots"}
    => ~nvTrial
RecordMatchesRam ==
  /\ pc \in {"load_pending", "er_pending", "er_version", "connect", "run"}
       => (trial <=> nvTrial)
  /\ pc \in {"boot_check", "fb_pending", "fb_version", "fb_trial", "fb_boots",
              "download", "finish"} => ~trial
ProbationInv == /\ ImagesIntact /\ InstallHasTarget /\ RecordKeepsImages
                /\ NoRecordWhileInstalling /\ RecordMatchesRam

(* No step rewrites a slot while a trial record exists.                    *)
TrialKeepsSlots == [][nvTrial => slot' = slot]_vars

(* A result tells the truth about the device: committed comes from the     *)
(* image the command installed, rolled_back from the one before it, and    *)
(* both name the version that was installed.                               *)
ResultsTruthful ==
  \A r \in results :
    /\ r.status = "committed" <=> r.from = flashed
    /\ flashed # NoSlot /\ r.version = slot[flashed]

(* "it always names the currently-booted, confirmed image" (nff_ota_commit *)
(* on fw_adopted).                                                         *)
AdoptedNamesRunning ==
  pc = "run" /\ ~trial /\ nvAdopted # NoVersion => nvAdopted = slot[running]

(* Outside a trial the device runs a confirmed image, and the bootloader   *)
(* is set to start it again.                                               *)
SettledOnConfirmed ==
  pc = "run" /\ ~trial => boot = running /\ running \in confirmed

(* A command that was installed is reported once the device is back in its *)
(* loop, connected and off probation.                                      *)
OutcomeReported ==
  pc = "run" /\ ~trial /\ connected /\ flashed # NoSlot => results # {}

(* The device keeps the promise of FirmwareTrial.  A trial is settled      *)
(* before its record is erased: by the committed message, or by the first  *)
(* key that queues the rolled_back one.                                    *)
Settled == pc \in {"fb_pending", "fb_version", "fb_trial", "rb_version", "rb_trial",
                   "cm_adopt", "cm_trial"}
Reverting == pc \in {"rb_version", "rb_trial", "rb_boots", "revert"}
OnTrial == (nvTrial \/ pc \in {"tr_trial"}) /\ ~Settled

Promise == INSTANCE FirmwareTrial WITH
  None <- NoVersion,
  candidate <- IF OnTrial THEN slot[flashed] ELSE NoVersion,
  trusted <- IF OnTrial THEN slot[Other(flashed)]
             ELSE IF Reverting THEN slot[Other(running)] ELSE slot[boot],
  unreported <- IF nvPending \/ pendingResult \/ pc = "fb_pending"
                THEN slot[flashed] ELSE NoVersion,
  outcome <- {[status |-> r.status, version |-> r.version] : r \in results}

KeepsPromise == Promise!Spec

(* Every trial ends, if the device is not reset forever: the image commits *)
(* or rolls back, however its health comes and goes.                       *)
TrialEnds == (<>[][~Reset]_vars) => (nvTrial ~> ~nvTrial)

=============================================================================
