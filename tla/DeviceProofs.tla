---------------------------- MODULE DeviceProofs ----------------------------
(***************************************************************************)
(* Machine-checked proofs about a device: its updates, wherever it is      *)
(* reset, the same under the emulator, and its session with the broker.    *)
(***************************************************************************)
EXTENDS EmulatedOta, DeviceSession, TLAPS

-----------------------------------------------------------------------------
(* Type correctness.  Every action is taken apart once; the Boolean        *)
(* variables go to Zenon, the others to SMT.                               *)

LEMMA InitType == Init => TypeOK
<1> SUFFICES ASSUME Init PROVE TypeOK
  OBVIOUS
<1>1. FlagsOK
  BY Zenon DEF Init, FlagsOK
<1>2. DataOK
  BY VersionsAssumption, TimingAssumption
     DEF Init, DataOK, Slots, Image, Result, NoVersion, Blank, NotHealthy, NoSlot, PC
<1> QED
  BY <1>1, <1>2 DEF TypeOK

LEMMA FlagsStep == FlagsOK /\ [Next]_vars => FlagsOK'
<1> SUFFICES ASSUME FlagsOK, [Next]_vars PROVE FlagsOK'
  OBVIOUS
<1> USE DEF FlagsOK, flash, nvs, ram, history
<1>1. CASE Boot
  BY <1>1, Zenon DEF Boot
<1>2. CASE BootCheckNoTrial \/ BootCheckFallback \/ BootCheckArm \/ BootCheckCrashLoop
  BY <1>2, Zenon DEF BootCheckNoTrial, BootCheckFallback, BootCheckArm, BootCheckCrashLoop
<1>3. CASE QueueFallback \/ RollbackSteps
  BY <1>3, Zenon DEF QueueFallback, RollbackSteps, QueueRollback, QueueResult,
                     QueueVersion, EraseTrial, EraseBootCount, Revert
<1>4. CASE LoadPending \/ ErasePending \/ EraseVersion \/ Connect \/ Reconnect
  BY <1>4, Zenon DEF LoadPending, ErasePending, EraseVersion, Connect, Reconnect,
                     FlushPending
<1>5. CASE CommitSteps
  BY <1>5, Zenon DEF CommitSteps, CommitMarkValid, CommitPublish, CommitAdopt,
                     CommitEraseTrial, EraseTrial, CommitEraseBootCount
<1>6. CASE InstallSteps
  BY <1>6, Zenon DEF InstallSteps, DownloadFails, DownloadVerified, Finish, RecordTrial,
                     RecordVersion, RecordBootCount, EraseBootCount, Reboot
<1>7. CASE Elapse \/ TrialTick \/ ReceiveCommand \/ RefuseCommand \/ BeginDownload
           \/ Disconnect \/ Reset
  BY <1>7, Zenon DEF Elapse, TrialTick, TickHealthy, TickUnhealthy, ReceiveCommand,
                     RefuseCommand, BeginDownload, Disconnect, Reset
<1>8. CASE UNCHANGED vars
  BY <1>8, Zenon DEF vars
<1> QED
  BY <1>1, <1>2, <1>3, <1>4, <1>5, <1>6, <1>7, <1>8, Zenon DEF Next, BootSteps

LEMMA DataStep == DataOK /\ [Next]_vars => DataOK'
<1> SUFFICES ASSUME DataOK, [Next]_vars PROVE DataOK'
  OBVIOUS
<1> USE TimingAssumption DEF DataOK, Goto, PC, flash, nvs, ram, history
<1>1. CASE Boot
  BY <1>1, VersionsAssumption DEF Boot, Slots, Image, NoVersion, Blank, NotHealthy
<1>2. CASE BootCheckNoTrial \/ BootCheckFallback \/ QueueFallback
  BY <1>2 DEF BootCheckNoTrial, BootCheckFallback, QueueFallback, QueueResult,
              QueueVersion, EraseTrial, EraseBootCount
<1>3. CASE BootCheckArm \/ BootCheckCrashLoop
  BY <1>3 DEF BootCheckArm, BootCheckCrashLoop, MinOf, NotHealthy
<1>4. CASE LoadPending \/ ErasePending \/ EraseVersion
  BY <1>4 DEF LoadPending, ErasePending, EraseVersion, NoVersion
<1>5. CASE Connect \/ Reconnect
  BY <1>5 DEF Connect, Reconnect, FlushPending, Publish, Result
<1>6. CASE RollbackSteps
  <2>1. CASE QueueRollback
    BY <2>1 DEF QueueRollback, QueueResult, QueueVersion, EraseTrial, EraseBootCount
  <2>2. CASE Revert
    <3>1. boot' \in Slots
      BY <2>2 DEF Revert, Slots, Other
    <3> QED
      BY <2>2, <3>1 DEF Revert
  <2> QED
    BY <1>6, <2>1, <2>2 DEF RollbackSteps
<1>7. CASE CommitSteps
  BY <1>7 DEF CommitSteps, CommitMarkValid, CommitPublish, Publish, CommitAdopt,
              CommitEraseTrial, EraseTrial, CommitEraseBootCount, Result
<1>8. CASE DownloadFails \/ DownloadVerified \/ RecordTrial \/ RecordVersion
           \/ RecordBootCount \/ Reboot
  BY <1>8 DEF DownloadFails, DownloadVerified, RecordTrial, RecordVersion,
              RecordBootCount, EraseBootCount, Reboot, NoVersion
<1>9. CASE Finish
  BY <1>9 DEF Finish, Slots, Other, Image, NoVersion, Blank
<1>10. CASE Elapse \/ TrialTick
  BY <1>10 DEF Elapse, TrialTick, TickHealthy, TickUnhealthy, MinOf, NotHealthy
<1>11. CASE ReceiveCommand \/ RefuseCommand
  BY <1>11 DEF ReceiveCommand, RefuseCommand
<1>12. CASE BeginDownload
  <2>1. slot' \in [Slots -> Image] /\ confirmed' \subseteq Slots
    BY <1>12 DEF BeginDownload, Image, Blank
  <2> QED
    BY <1>12, <2>1 DEF BeginDownload, NoVersion, NoSlot
<1>14. CASE Disconnect \/ Reset
  BY <1>14 DEF Disconnect, Reset
<1>15. CASE UNCHANGED vars
  BY <1>15 DEF vars
<1> QED
  BY <1>1, <1>2, <1>3, <1>4, <1>5, <1>6, <1>7, <1>8, <1>9, <1>10, <1>11, <1>12,
     <1>14, <1>15, Zenon DEF Next, BootSteps, InstallSteps

(* The variables keep their types. *)
THEOREM TypeCorrect == Spec => []TypeOK
<1>1. TypeOK /\ [Next]_vars => TypeOK'
  BY FlagsStep, DataStep DEF TypeOK
<1> QED
  BY <1>1, InitType, PTL DEF Spec

-----------------------------------------------------------------------------
(* ProbationInv is inductive wherever a reset may strike: a lemma for each *)
(* conjunct, with a step for each action that can disturb it.              *)

(* The two slots. *)
LEMMA TwoSlots ==
  ASSUME NEW s \in Slots
  PROVE  /\ Other(s) \in Slots /\ Other(s) # s /\ Other(Other(s)) = s
         /\ \A t \in Slots : t = s \/ t = Other(s)
BY DEF Slots, Other

LEMMA InitProbation == Init => ProbationInv
BY VersionsAssumption
   DEF Init, ProbationInv, ImagesIntact, InstallHasTarget, RecordKeepsImages,
       NoRecordWhileInstalling, RecordMatchesRam, Slots, Blank

LEMMA ImagesStep == TypeOK /\ ProbationInv /\ [Next]_vars => ImagesIntact'
<1> SUFFICES ASSUME TypeOK, ProbationInv, [Next]_vars PROVE ImagesIntact'
  OBVIOUS
<1> USE DEF flash, ram, nvs, history
<1>1. /\ ImagesIntact
      /\ slot \in [Slots -> Image] /\ running \in Slots /\ confirmed \subseteq Slots
  BY DEF TypeOK, DataOK, ProbationInv
<1>2. CASE Boot
  BY <1>1, <1>2 DEF Boot, ImagesIntact
<1>3. CASE Connect \/ CommitMarkValid
  BY <1>1, <1>3 DEF Connect, CommitMarkValid, ImagesIntact
<1>4. CASE BeginDownload
  <2>1. CASE slot' = [slot EXCEPT ![Other(running)] = Blank]
             /\ confirmed' = confirmed \ {Other(running)}
    BY <1>1, <1>4, <2>1, TwoSlots DEF BeginDownload, ImagesIntact
  <2>2. CASE UNCHANGED <<slot, confirmed>>
    BY <1>1, <1>4, <2>2 DEF BeginDownload, ImagesIntact
  <2> QED
    BY <1>4, <2>1, <2>2, Zenon DEF BeginDownload
<1>5. CASE Finish
  <2>1. target # Blank
    BY <1>5 DEF Finish, Goto, ProbationInv, InstallHasTarget, NoVersion, Blank
  <2> QED
    BY <1>1, <1>5, <2>1, TwoSlots DEF Finish, ImagesIntact
<1>6. CASE UNCHANGED <<slot, running, confirmed>>
  BY <1>1, <1>6 DEF ImagesIntact
<1>7. ASSUME Next, ~Boot, ~Connect, ~CommitMarkValid, ~BeginDownload, ~Finish
      PROVE UNCHANGED <<slot, running, confirmed>>
  BY <1>7, Zenon
     DEF Next, BootSteps, RollbackSteps, CommitSteps, InstallSteps, TrialTick,
         BootCheckNoTrial, BootCheckFallback, BootCheckArm, BootCheckCrashLoop,
         QueueFallback, QueueRollback, QueueResult, QueueVersion, EraseTrial,
         EraseBootCount, Revert, LoadPending, ErasePending, EraseVersion, Reconnect,
         Disconnect, Elapse, TickHealthy, TickUnhealthy, CommitPublish, CommitAdopt,
         CommitEraseTrial, CommitEraseBootCount, ReceiveCommand, RefuseCommand,
         DownloadFails, DownloadVerified, RecordTrial, RecordVersion,
         RecordBootCount, Reboot, Reset
<1> QED
  BY <1>2, <1>3, <1>4, <1>5, <1>6, <1>7, Zenon DEF vars

LEMMA TargetStep == ProbationInv /\ [Next]_vars => InstallHasTarget'
<1> SUFFICES ASSUME ProbationInv, [Next]_vars PROVE InstallHasTarget'
  OBVIOUS
<1> USE DEF flash, ram, nvs, history, Goto, InstallHasTarget
<1>1. InstallHasTarget
  BY DEF ProbationInv
<1>2. CASE BootSteps
  BY <1>2 DEF BootSteps, Boot, BootCheckNoTrial, BootCheckFallback, BootCheckArm,
              BootCheckCrashLoop, QueueFallback, QueueResult, QueueVersion, EraseTrial,
              EraseBootCount, LoadPending, ErasePending, EraseVersion, Connect
<1>3. CASE RollbackSteps \/ CommitSteps
  BY <1>3 DEF RollbackSteps, QueueRollback, QueueResult, QueueVersion, EraseTrial,
              EraseBootCount, Revert, CommitSteps, CommitMarkValid, CommitPublish,
              CommitAdopt, CommitEraseTrial, CommitEraseBootCount
<1>4. CASE InstallSteps
  BY <1>1, <1>4 DEF InstallSteps, DownloadFails, DownloadVerified, Finish, RecordTrial,
              RecordVersion, RecordBootCount, EraseBootCount, Reboot
<1>5. CASE Elapse \/ TrialTick \/ ReceiveCommand \/ RefuseCommand \/ BeginDownload
           \/ Reconnect
  BY <1>5 DEF Elapse, TrialTick, TickHealthy, TickUnhealthy, ReceiveCommand,
              RefuseCommand, BeginDownload, Reconnect
<1>6. CASE Disconnect \/ Reset \/ UNCHANGED vars
  BY <1>1, <1>6 DEF Disconnect, Reset, vars
<1> QED
  BY <1>2, <1>3, <1>4, <1>5, <1>6, Zenon DEF Next

(* The two phases clauses, on the record and on the RAM flag.              *)
PhaseInv == NoRecordWhileInstalling /\ RecordMatchesRam

LEMMA PhaseStep == TypeOK /\ ProbationInv /\ [Next]_vars => PhaseInv'
<1> SUFFICES ASSUME TypeOK, ProbationInv, [Next]_vars PROVE PhaseInv'
  OBVIOUS
<1> USE DEF flash, ram, nvs, history, Goto, PhaseInv, NoRecordWhileInstalling,
            RecordMatchesRam
<1>1. /\ PhaseInv
      /\ nvTrial \in BOOLEAN /\ trial \in BOOLEAN
  BY DEF ProbationInv, TypeOK, FlagsOK
<1>2. CASE Boot
  BY <1>2 DEF Boot
<1>3. CASE BootCheckNoTrial \/ BootCheckFallback \/ BootCheckArm \/ BootCheckCrashLoop
  BY <1>1, <1>3 DEF BootCheckNoTrial, BootCheckFallback, BootCheckArm, BootCheckCrashLoop
<1>4. CASE QueueFallback
  BY <1>1, <1>4 DEF QueueFallback, QueueResult, QueueVersion, EraseTrial, EraseBootCount
<1>5. CASE LoadPending \/ ErasePending \/ EraseVersion \/ Connect
  BY <1>1, <1>5 DEF LoadPending, ErasePending, EraseVersion, Connect
<1>6. CASE RollbackSteps
  BY <1>1, <1>6 DEF RollbackSteps, QueueRollback, QueueResult, QueueVersion, EraseTrial,
                    EraseBootCount, Revert
<1>7. CASE CommitSteps
  BY <1>1, <1>7 DEF CommitSteps, CommitMarkValid, CommitPublish, CommitAdopt,
                    CommitEraseTrial, EraseTrial, CommitEraseBootCount
<1>8. CASE InstallSteps
  BY <1>1, <1>8 DEF InstallSteps, DownloadFails, DownloadVerified, Finish, RecordTrial,
                    RecordVersion, RecordBootCount, EraseBootCount, Reboot
<1>9. CASE Elapse \/ ReceiveCommand \/ RefuseCommand \/ BeginDownload
           \/ Reconnect \/ Disconnect \/ Reset \/ UNCHANGED vars
  BY <1>1, <1>9 DEF Elapse, ReceiveCommand, RefuseCommand, BeginDownload,
                    Accepts, Reconnect, Disconnect, Reset, vars
<1>10. CASE TrialTick
  BY <1>1, <1>10 DEF TrialTick, TickHealthy, TickUnhealthy
<1> QED
  BY <1>2, <1>3, <1>4, <1>5, <1>6, <1>7, <1>8, <1>9, <1>10, Zenon DEF Next, BootSteps

(* A slot changes only in an install, which a record rules out.            *)
LEMMA SlotsKept == TypeOK /\ ProbationInv /\ nvTrial /\ [Next]_vars => slot' = slot
<1> SUFFICES ASSUME TypeOK, ProbationInv, nvTrial, [Next]_vars PROVE slot' = slot
  OBVIOUS
<1> USE DEF flash, Goto
<1>1. pc = "run" => trial
  BY DEF ProbationInv, RecordMatchesRam
<1>2. pc # "finish"
  BY DEF ProbationInv, NoRecordWhileInstalling
<1>3. ~BeginDownload /\ ~Finish
  BY <1>1, <1>2, Zenon DEF BeginDownload, Accepts, Finish
<1> QED
  BY <1>3, Zenon
     DEF Next, BootSteps, RollbackSteps, CommitSteps, InstallSteps, TrialTick, Boot,
         BootCheckNoTrial, BootCheckFallback, BootCheckArm, BootCheckCrashLoop,
         QueueFallback, QueueRollback, QueueResult, QueueVersion, EraseTrial,
         EraseBootCount, Revert, LoadPending, ErasePending, EraseVersion, Connect,
         Reconnect, Disconnect, Elapse, TickHealthy, TickUnhealthy, CommitMarkValid,
         CommitPublish, CommitAdopt, CommitEraseTrial, CommitEraseBootCount,
         ReceiveCommand, RefuseCommand, DownloadFails,
         DownloadVerified, RecordTrial, RecordVersion, RecordBootCount, Reboot, Reset,
         vars


LEMMA KeepsImagesStep == TypeOK /\ ProbationInv /\ [Next]_vars => RecordKeepsImages'
<1> SUFFICES ASSUME TypeOK, ProbationInv, [Next]_vars PROVE RecordKeepsImages'
  OBVIOUS
<1> USE DEF flash, nvs, ram, history, Goto, RecordKeepsImages
<1>1. /\ RecordKeepsImages /\ ImagesIntact /\ InstallHasTarget
      /\ slot \in [Slots -> Image] /\ running \in Slots
  BY DEF ProbationInv, TypeOK, DataOK
<1>2. CASE nvTrial
  BY <1>1, <1>2, SlotsKept
<1>3. CASE Finish
  <2>1. target # Blank
    BY <1>1, <1>3 DEF Finish, InstallHasTarget, NoVersion, Blank
  <2>2. slot'[running] # Blank /\ slot'[Other(running)] # Blank
    BY <1>1, <1>3, <2>1, TwoSlots DEF Finish, ImagesIntact
  <2> QED
    BY <1>1, <2>2, TwoSlots
<1>4. CASE RecordTrial \/ Disconnect \/ Reset \/ UNCHANGED vars
  BY <1>1, <1>4 DEF RecordTrial, Disconnect, Reset, vars
<1>5. ASSUME ~nvTrial, Next, ~Finish, ~RecordTrial, ~Disconnect, ~Reset
      PROVE ~nvTrial' /\ pc' # "tr_trial"
  <2> USE <1>5
  <2>1. CASE BootSteps
    BY <2>1 DEF BootSteps, Boot, BootCheckNoTrial, BootCheckFallback, BootCheckArm,
                BootCheckCrashLoop, QueueFallback, QueueResult, QueueVersion, EraseTrial,
                EraseBootCount, LoadPending, ErasePending, EraseVersion, Connect
  <2>2. CASE RollbackSteps \/ CommitSteps
    BY <2>2 DEF RollbackSteps, QueueRollback, QueueResult, QueueVersion, EraseTrial,
                EraseBootCount, Revert, CommitSteps, CommitMarkValid, CommitPublish,
                CommitAdopt, CommitEraseTrial, CommitEraseBootCount
  <2>3. CASE InstallSteps
    BY <2>3 DEF InstallSteps, DownloadFails, DownloadVerified, RecordVersion,
                RecordBootCount, EraseBootCount, Reboot
  <2>4. CASE Elapse \/ TrialTick \/ ReceiveCommand \/ RefuseCommand \/ BeginDownload
             \/ Reconnect
    BY <2>4 DEF Elapse, TrialTick, TickHealthy, TickUnhealthy, ReceiveCommand,
                RefuseCommand, BeginDownload, Reconnect
  <2> QED
    BY <2>1, <2>2, <2>3, <2>4, Zenon DEF Next
<1> QED
  BY <1>2, <1>3, <1>4, <1>5, Zenon

(* The clauses together. *)
LEMMA ProbationStep ==
  TypeOK /\ ProbationInv /\ [Next]_vars => TypeOK' /\ ProbationInv'
BY FlagsStep, DataStep, ImagesStep, TargetStep, KeepsImagesStep, PhaseStep
   DEF TypeOK, ProbationInv, PhaseInv

(* ProbationInv holds wherever resets strike. *)
THEOREM ProbationHolds == Spec => [](TypeOK /\ ProbationInv)
<1>1. Init => TypeOK /\ ProbationInv
  BY InitType, InitProbation
<1>2. TypeOK /\ ProbationInv /\ [Next]_vars => TypeOK' /\ ProbationInv'
  BY ProbationStep
<1> QED
  BY <1>1, <1>2, PTL DEF Spec

(* No reset leaves the device without an image to start. *)
THEOREM DeviceNeverBricked == Spec => []NeverBricked
<1>1. TypeOK /\ ProbationInv => NeverBricked
  <2> SUFFICES ASSUME TypeOK, ProbationInv PROVE NeverBricked
    OBVIOUS
  <2>1. CASE boot \in confirmed
    BY <2>1 DEF TypeOK, DataOK, ProbationInv, ImagesIntact, RecordKeepsImages, NeverBricked
  <2>2. CASE boot \notin confirmed
    BY <2>2 DEF TypeOK, DataOK, ProbationInv, ImagesIntact, RecordKeepsImages, NeverBricked
  <2> QED
    BY <2>1, <2>2
<1> QED
  BY <1>1, ProbationHolds, PTL

(* The probation flag and the persisted record agree in the main loop. *)
THEOREM ProbationFlagAgrees == Spec => []TrialAgrees
<1>1. ProbationInv => TrialAgrees
  BY DEF ProbationInv, RecordMatchesRam, TrialAgrees
<1> QED
  BY <1>1, ProbationHolds, PTL

(* A trial record freezes both slots. *)
THEOREM RecordFreezesSlots == Spec => TrialKeepsSlots
<1>1. TypeOK /\ ProbationInv /\ [Next]_vars => [nvTrial => slot' = slot]_vars
  BY SlotsKept
<1> QED
  BY <1>1, ProbationHolds, PTL DEF Spec, TrialKeepsSlots

-----------------------------------------------------------------------------
(* A device that is reset only where a reset costs no more than the work   *)
(* in hand: between the two halves of a change of two durable places, the  *)
(* boot selection and the trial record, or a result and the record it      *)
(* settles, the power holds (README, "What is proved").                    *)
SafeResets == ResetPoints \subseteq SafePoints

Recording == {"tr_version", "tr_boots", "reboot"}
FallingBack == {"fb_pending", "fb_version", "fb_trial"}
RollingBack == {"rb_pending", "rb_version", "rb_trial"}
Committing == {"cm_valid", "cm_publish", "cm_adopt", "cm_trial"}
Queued == {"fb_version", "fb_trial", "fb_boots", "rb_version", "rb_trial", "rb_boots", "revert"}
InTrial == nvTrial \/ pc = "tr_trial"

(* While a trial is recorded the two slots have their parts: the one last  *)
(* flashed is on trial and selected, the other one is confirmed and is the *)
(* one to go back to.                                                      *)
TrialSlots ==
  InTrial =>
    /\ flashed \in Slots /\ Other(flashed) \in confirmed
    /\ boot = IF pc \in FallingBack THEN Other(flashed) ELSE flashed
    /\ pc \notin {"tr_trial", "tr_version"} => nvVersion = slot[flashed]
    /\ pc \notin {"cm_adopt", "cm_trial"} => results = {}

(* Without a record the device runs, and will start again, a confirmed     *)
(* image.                                                                  *)
SettledSlot ==
  ~InTrial /\ pc \notin {"rb_boots", "revert"} =>
    boot \in confirmed /\ (pc # "off" => running = boot)

(* Which of the two slots each control point is reached from, and what it  *)
(* knows.                                                                  *)
WhoRuns ==
  /\ pc \in Recording \cup FallingBack \cup RollingBack \cup Committing => nvTrial
  /\ pc \in Recording \cup {"tr_trial"} => running = Other(flashed) /\ target = slot[flashed]
  /\ pc \in FallingBack \cup {"fb_boots"} =>
       flashed \in Slots /\ running = Other(flashed) /\ ver = slot[flashed]
  /\ (trial /\ pc # "off") \/ pc \in RollingBack \cup {"rb_boots", "revert"} =>
       flashed \in Slots /\ running = flashed /\ ver = slot[flashed]
  /\ pc \in Committing \cup {"cm_boots"} => trial
  /\ pc \in {"cm_publish", "cm_adopt", "cm_trial", "cm_boots"} => running \in confirmed
  /\ pc \in {"rb_boots", "revert"} => Other(flashed) \in confirmed

(* What is downloaded is no older than what runs, and its results are its  *)
(* own.                                                                    *)
Downloading ==
  /\ pc \in {"download", "finish"} => results = {} /\ flashed = NoSlot /\ fw <= target
  /\ flashed \in Slots => slot[flashed] # Blank

(* A rolled_back that is queued, in NVS or in RAM, is of the image last    *)
(* flashed, and that image does not run.                                   *)
Reporting ==
  /\ nvPending \/ pendingResult => flashed \in Slots /\ results = {}
  /\ nvPending /\ pc \notin {"fb_version", "rb_version"} => nvVersion = slot[flashed]
  /\ nvPending /\ pc \notin {"rb_version", "rb_trial", "rb_boots", "revert"} =>
       boot = Other(flashed)
  /\ nvPending => pc \in Queued \cup {"off", "boot_check", "load_pending", "er_pending"}
  /\ nvPending /\ nvTrial => pc \in Queued
  /\ pc \in Queued => nvPending
  /\ pendingResult => /\ ver = slot[flashed] /\ boot = Other(flashed) /\ ~nvTrial
                      /\ pc \in {"off", "er_pending", "er_version", "connect", "run"}
                      /\ ~connected /\ target = NoVersion
  /\ pc \in {"er_pending", "er_version"} => pendingResult
  /\ pc \in FallingBack \cup {"fb_boots", "boot_check", "load_pending"} =>
       ~connected /\ target = NoVersion

(* The image to fall back on, and its name in fw_adopted.                  *)
TrustedSlot == IF InTrial /\ pc # "cm_trial" THEN Other(flashed)
               ELSE IF pc \in {"rb_boots", "revert"} THEN Other(running) ELSE boot
Adopted == nvAdopted # NoVersion => nvAdopted = slot[TrustedSlot]

SafeInv == /\ TrialSlots /\ SettledSlot /\ WhoRuns /\ Downloading /\ Reporting
           /\ ResultsTruthful /\ Adopted
DeviceInv == TypeOK /\ ProbationInv /\ SafeInv

(* The invariant holds when the device is new.                             *)
LEMMA SafeStarts == Init => SafeInv
  BY VersionsAssumption DEF Init, SafeInv, Slots, Blank, NoSlot, Recording, FallingBack,
      RollingBack, Committing, Queued, InTrial, TrialSlots, SettledSlot, WhoRuns, Downloading,
      Reporting, ResultsTruthful, Adopted, TrustedSlot

(* The parts of the invariant, for the lemmas on the steps.                *)
LEMMA DeviceFacts ==
  ASSUME DeviceInv
  PROVE  /\ slot \in [Slots -> Image] /\ boot \in Slots /\ running \in Slots
         /\ confirmed \subseteq Slots
         /\ nvTrial \in BOOLEAN /\ nvPending \in BOOLEAN /\ trial \in BOOLEAN
         /\ pendingResult \in BOOLEAN /\ connected \in BOOLEAN
         /\ pc \in PC /\ fw \in Versions /\ target \in Versions \cup {NoVersion}
         /\ results \subseteq Result
         /\ ImagesIntact /\ InstallHasTarget /\ RecordKeepsImages /\ NoRecordWhileInstalling
         /\ RecordMatchesRam
         /\ TrialSlots /\ SettledSlot /\ WhoRuns /\ Downloading /\ Reporting /\ ResultsTruthful
         /\ Adopted
         /\ \A s \in Slots : Other(s) \in Slots /\ Other(s) # s /\ Other(Other(s)) = s
         /\ \A s \in Slots, t \in Slots : t = s \/ t = Other(s)
  BY TwoSlots DEF DeviceInv, TypeOK, FlagsOK, DataOK, ProbationInv, SafeInv

(* A safe reset keeps it.                                                  *)
LEMMA SafeReset ==
  ASSUME SafeResets, DeviceInv, Reset
  PROVE SafeInv'
  <1> USE DEF Reset, SafeResets, SafePoints, flash, ram, nvs, history, Recording, FallingBack,
      RollingBack, Committing, Queued, InTrial, DeviceInv, SafeInv
  <1>0. /\ pc \notin {"tr_trial", "tr_version", "fb_pending", "fb_version", "fb_trial",
                    "rb_version", "rb_trial", "rb_boots", "revert", "cm_adopt", "cm_trial"}
        /\ pc' = "off"
        /\ UNCHANGED <<slot, boot, confirmed, nvTrial, nvVersion, nvBoots, nvPending, nvAdopted,
             running, fw, trial, ver, pendingResult, target, connected, results, flashed>>
    OBVIOUS
  <1>1. TrialSlots' BY <1>0 DEF TrialSlots
  <1>2. SettledSlot' BY <1>0 DEF SettledSlot
  <1>3. WhoRuns' BY <1>0 DEF WhoRuns
  <1>4. Downloading' BY <1>0 DEF Downloading
  <1>5. Reporting' BY <1>0 DEF Reporting, ProbationInv, NoRecordWhileInstalling
  <1>6. ResultsTruthful' BY <1>0 DEF ResultsTruthful
  <1>7. Adopted' BY <1>0 DEF Adopted, TrustedSlot
  <1> QED BY <1>1, <1>2, <1>3, <1>4, <1>5, <1>6, <1>7

(* So does a boot,                                                         *)
LEMMA SafeBoot ==
  ASSUME DeviceInv, Boot
  PROVE SafeInv'
  <1> USE DEF Boot, Goto, flash, ram, nvs, history, Recording, FallingBack, RollingBack,
      Committing, Queued, InTrial, DeviceInv, SafeInv, TypeOK, FlagsOK, DataOK, ProbationInv
  <1>0. ~nvTrial => running' = boot BY DEF SettledSlot, ImagesIntact
  <1>1. TrialSlots' BY <1>0 DEF TrialSlots
  <1>2. SettledSlot' BY <1>0 DEF SettledSlot
  <1>3. WhoRuns' BY <1>0 DEF WhoRuns
  <1>4. Downloading' BY <1>0 DEF Downloading
  <1>5. Reporting' BY <1>0 DEF Reporting
  <1>6. ResultsTruthful' BY <1>0 DEF ResultsTruthful
  <1>7. Adopted' BY <1>0 DEF Adopted, TrustedSlot
  <1> QED BY <1>1, <1>2, <1>3, <1>4, <1>5, <1>6, <1>7

(* nff_ota_boot_check,                                                     *)
LEMMA SafeBootChecks ==
  ASSUME DeviceInv, BootCheckNoTrial \/ BootCheckFallback \/ BootCheckArm \/ BootCheckCrashLoop
  PROVE SafeInv'
  <1> USE DeviceFacts, VersionsAssumption DEF BootCheckNoTrial, BootCheckFallback, BootCheckArm,
      BootCheckCrashLoop, FellBack, Goto, flash, ram, nvs, history
  <1> USE DEF Recording, FallingBack, RollingBack, Committing, Queued, InTrial, ImagesIntact,
      InstallHasTarget, RecordKeepsImages, NoRecordWhileInstalling, RecordMatchesRam
  <1>1. TrialSlots' BY DEF TrialSlots, SettledSlot, WhoRuns, Downloading, Reporting
  <1>2. SettledSlot' BY DEF SettledSlot, TrialSlots, WhoRuns
  <1>3. WhoRuns' BY DEF WhoRuns, TrialSlots, SettledSlot
  <1>4. Downloading' BY DEF Downloading, Reporting, Blank, NoVersion, NoSlot, Slots
  <1>5. Reporting' BY DEF Reporting, TrialSlots, SettledSlot, WhoRuns, Downloading
  <1>6. ResultsTruthful' BY DEF ResultsTruthful, TrialSlots, SettledSlot, WhoRuns, Downloading,
      Reporting
  <1>7. Adopted' BY DEF Adopted, TrustedSlot, TrialSlots, SettledSlot, WhoRuns, Downloading,
      Reporting
  <1> QED BY <1>1, <1>2, <1>3, <1>4, <1>5, <1>6, <1>7 DEF SafeInv

(* the queueing of rolled_back after a fallback,                           *)
LEMMA SafeFallback ==
  ASSUME DeviceInv, QueueFallback
  PROVE SafeInv'
  <1> USE DeviceFacts, VersionsAssumption DEF QueueFallback, QueueResult, QueueVersion,
      EraseTrial, EraseBootCount, Goto, flash, ram, nvs, history
  <1> USE DEF Recording, FallingBack, RollingBack, Committing, Queued, InTrial, ImagesIntact,
      InstallHasTarget, RecordKeepsImages, NoRecordWhileInstalling, RecordMatchesRam
  <1>1. TrialSlots' BY DEF TrialSlots, SettledSlot, WhoRuns, Downloading, Reporting
  <1>2. SettledSlot' BY DEF SettledSlot, TrialSlots, WhoRuns
  <1>3. WhoRuns' BY DEF WhoRuns, TrialSlots, SettledSlot
  <1>4. Downloading' BY DEF Downloading, Reporting, Blank, NoVersion, NoSlot, Slots
  <1>5. Reporting' BY DEF Reporting, TrialSlots, SettledSlot, WhoRuns, Downloading
  <1>6. ResultsTruthful' BY DEF ResultsTruthful, TrialSlots, SettledSlot, WhoRuns, Downloading,
      Reporting
  <1>7. Adopted' BY DEF Adopted, TrustedSlot, TrialSlots, SettledSlot, WhoRuns, Downloading,
      Reporting
  <1> QED BY <1>1, <1>2, <1>3, <1>4, <1>5, <1>6, <1>7 DEF SafeInv

(* nff_ota_rollback,                                                       *)
LEMMA SafeRollback ==
  ASSUME DeviceInv, RollbackSteps
  PROVE SafeInv'
  <1> USE DeviceFacts, VersionsAssumption DEF RollbackSteps, QueueRollback, QueueResult,
      QueueVersion, EraseTrial, EraseBootCount, Revert, Goto, flash, ram, nvs, history
  <1> USE DEF Recording, FallingBack, RollingBack, Committing, Queued, InTrial, ImagesIntact,
      InstallHasTarget, RecordKeepsImages, NoRecordWhileInstalling, RecordMatchesRam
  <1>1. TrialSlots' BY DEF TrialSlots, SettledSlot, WhoRuns, Downloading, Reporting
  <1>2. SettledSlot' BY DEF SettledSlot, TrialSlots, WhoRuns
  <1>3. WhoRuns' BY DEF WhoRuns, TrialSlots, SettledSlot
  <1>4. Downloading' BY DEF Downloading, Reporting, Blank, NoVersion, NoSlot, Slots
  <1>5. Reporting' BY DEF Reporting, TrialSlots, SettledSlot, WhoRuns, Downloading
  <1>6. ResultsTruthful' BY DEF ResultsTruthful, TrialSlots, SettledSlot, WhoRuns, Downloading,
      Reporting
  <1>7. Adopted' BY DEF Adopted, TrustedSlot, TrialSlots, SettledSlot, WhoRuns, Downloading,
      Reporting
  <1> QED BY <1>1, <1>2, <1>3, <1>4, <1>5, <1>6, <1>7 DEF SafeInv

(* nff_init and the connections,                                           *)
LEMMA SafeLoad ==
  ASSUME DeviceInv,
         LoadPending \/ ErasePending \/ EraseVersion \/ Connect \/ Reconnect \/ Disconnect
  PROVE SafeInv'
  <1> USE DeviceFacts, VersionsAssumption DEF LoadPending, ErasePending, EraseVersion, Connect,
      Reconnect, Disconnect, FlushPending, Publish, Goto, flash, ram, nvs, history
  <1> USE DEF Recording, FallingBack, RollingBack, Committing, Queued, InTrial, ImagesIntact,
      InstallHasTarget, RecordKeepsImages, NoRecordWhileInstalling, RecordMatchesRam
  <1>1. TrialSlots' BY DEF TrialSlots, SettledSlot, WhoRuns, Downloading, Reporting
  <1>2. SettledSlot' BY DEF SettledSlot, TrialSlots, WhoRuns
  <1>3. WhoRuns' BY DEF WhoRuns, TrialSlots, SettledSlot
  <1>4. Downloading' BY DEF Downloading, Reporting, Blank, NoVersion, NoSlot, Slots
  <1>5. Reporting'
    <2> USE DEF Reporting, TrialSlots, SettledSlot, WhoRuns, Downloading
    <2>1. CASE LoadPending BY <2>1
    <2>2. CASE ErasePending \/ EraseVersion BY <2>2
    <2>3. CASE Connect \/ Reconnect \/ Disconnect BY <2>3
    <2> HIDE DEF LoadPending, ErasePending, EraseVersion, Connect, Reconnect, Disconnect
    <2> QED BY <2>1, <2>2, <2>3
  <1>6. ResultsTruthful'
    <2>1. pendingResult => /\ flashed \in Slots /\ ver = slot[flashed] /\ running # flashed
      BY DEF Reporting, SettledSlot
    <2>2. results' = results \/ (pendingResult /\ Publish("rolled_back"))
      OBVIOUS
    <2>3. UNCHANGED <<slot, flashed>> OBVIOUS
    <2> HIDE DEF LoadPending, ErasePending, EraseVersion, Connect, Reconnect, Disconnect
    <2>4. CASE results' = results BY <2>3, <2>4 DEF ResultsTruthful
    <2>5. CASE pendingResult /\ Publish("rolled_back")
      BY <2>1, <2>3, <2>5 DEF ResultsTruthful, Slots, NoSlot
    <2> QED BY <2>2, <2>4, <2>5
  <1>7. Adopted' BY DEF Adopted, TrustedSlot, TrialSlots, SettledSlot, WhoRuns, Downloading,
      Reporting
  <1> QED BY <1>1, <1>2, <1>3, <1>4, <1>5, <1>6, <1>7 DEF SafeInv

(* the main loop and the acceptance of a command,                          *)
LEMMA SafeRun ==
  ASSUME DeviceInv, Elapse \/ TrialTick \/ ReceiveCommand \/ RefuseCommand \/ BeginDownload
  PROVE SafeInv'
  <1> USE DeviceFacts, VersionsAssumption DEF Elapse, TrialTick, TickHealthy, TickUnhealthy,
      Expired, ReceiveCommand, RefuseCommand, BeginDownload, Accepts, Goto, flash, ram, nvs, history
  <1> USE DEF Recording, FallingBack, RollingBack, Committing, Queued, InTrial, ImagesIntact,
      InstallHasTarget, RecordKeepsImages, NoRecordWhileInstalling, RecordMatchesRam
  <1>1. TrialSlots' BY DEF TrialSlots, SettledSlot, WhoRuns, Downloading, Reporting
  <1>2. SettledSlot' BY DEF SettledSlot, TrialSlots, WhoRuns
  <1>3. WhoRuns' BY DEF WhoRuns, TrialSlots, SettledSlot
  <1>4. Downloading' BY DEF Downloading, Reporting, Blank, NoVersion, NoSlot, Slots
  <1>5. Reporting' BY DEF Reporting, TrialSlots, SettledSlot, WhoRuns, Downloading
  <1>6. ResultsTruthful' BY DEF ResultsTruthful, TrialSlots, SettledSlot, WhoRuns, Downloading,
      Reporting
  <1>7. Adopted' BY DEF Adopted, TrustedSlot, TrialSlots, SettledSlot, WhoRuns, Downloading,
      Reporting
  <1> QED BY <1>1, <1>2, <1>3, <1>4, <1>5, <1>6, <1>7 DEF SafeInv

(* nff_ota_commit,                                                         *)
LEMMA SafeCommit ==
  ASSUME DeviceInv, CommitSteps
  PROVE SafeInv'
  <1> USE DeviceFacts, VersionsAssumption DEF CommitSteps, CommitMarkValid, CommitPublish,
      Publish, CommitAdopt, CommitEraseTrial, EraseTrial, CommitEraseBootCount, Goto, flash, ram,
      nvs, history
  <1> USE DEF Recording, FallingBack, RollingBack, Committing, Queued, InTrial, ImagesIntact,
      InstallHasTarget, RecordKeepsImages, NoRecordWhileInstalling, RecordMatchesRam
  <1>1. TrialSlots' BY DEF TrialSlots, SettledSlot, WhoRuns, Downloading, Reporting
  <1>2. SettledSlot' BY DEF SettledSlot, TrialSlots, WhoRuns
  <1>3. WhoRuns' BY DEF WhoRuns, TrialSlots, SettledSlot
  <1>4. Downloading' BY DEF Downloading, Reporting, Blank, NoVersion, NoSlot, Slots
  <1>5. Reporting' BY DEF Reporting, TrialSlots, SettledSlot, WhoRuns, Downloading
  <1>6. ResultsTruthful'
    <2>1. flashed \in Slots /\ ver = slot[flashed] /\ running = flashed
      BY DEF WhoRuns
    <2>2. results' = results \/ Publish("committed") OBVIOUS
    <2>3. UNCHANGED <<slot, flashed>> OBVIOUS
    <2> HIDE DEF CommitMarkValid, CommitPublish, CommitAdopt, CommitEraseTrial,
        CommitEraseBootCount, CommitSteps
    <2>4. CASE results' = results BY <2>3, <2>4 DEF ResultsTruthful
    <2>5. CASE Publish("committed") BY <2>1, <2>3, <2>5 DEF ResultsTruthful, Slots, NoSlot
    <2> QED BY <2>2, <2>4, <2>5
  <1>7. Adopted' BY DEF Adopted, TrustedSlot, TrialSlots, SettledSlot, WhoRuns, Downloading,
      Reporting
  <1> QED BY <1>1, <1>2, <1>3, <1>4, <1>5, <1>6, <1>7 DEF SafeInv

(* and the installation.                                                   *)
LEMMA SafeInstall ==
  ASSUME DeviceInv, InstallSteps
  PROVE SafeInv'
  <1> USE DeviceFacts, VersionsAssumption DEF InstallSteps, DownloadFails, DownloadVerified,
      Finish, RecordTrial, RecordVersion, RecordBootCount, EraseBootCount, Reboot, Goto, flash, ram,
      nvs, history
  <1> USE DEF Recording, FallingBack, RollingBack, Committing, Queued, InTrial, ImagesIntact,
      InstallHasTarget, RecordKeepsImages, NoRecordWhileInstalling, RecordMatchesRam
  <1>1. TrialSlots' BY DEF TrialSlots, SettledSlot, WhoRuns, Downloading, Reporting
  <1>2. SettledSlot' BY DEF SettledSlot, TrialSlots, WhoRuns
  <1>3. WhoRuns' BY DEF WhoRuns, TrialSlots, SettledSlot
  <1>4. Downloading' BY DEF Downloading, Reporting, Blank, NoVersion, NoSlot, Slots
  <1>5. Reporting' BY DEF Reporting, TrialSlots, SettledSlot, WhoRuns, Downloading
  <1>6. ResultsTruthful' BY DEF ResultsTruthful, TrialSlots, SettledSlot, WhoRuns, Downloading,
      Reporting
  <1>7. Adopted' BY DEF Adopted, TrustedSlot, TrialSlots, SettledSlot, WhoRuns, Downloading,
      Reporting
  <1> QED BY <1>1, <1>2, <1>3, <1>4, <1>5, <1>6, <1>7 DEF SafeInv

(* Every step keeps it.                                                    *)
LEMMA SafeNext ==
  ASSUME SafeResets, DeviceInv, [Next]_vars
  PROVE SafeInv'
  <1>1. CASE BootSteps
    BY <1>1, SafeBoot, SafeBootChecks, SafeFallback, SafeLoad DEF BootSteps
  <1>2. CASE RollbackSteps BY <1>2, SafeRollback
  <1>3. CASE CommitSteps BY <1>3, SafeCommit
  <1>4. CASE InstallSteps BY <1>4, SafeInstall
  <1>5. CASE Elapse \/ TrialTick \/ ReceiveCommand \/ RefuseCommand \/ BeginDownload
    BY <1>5, SafeRun
  <1>6. CASE Reconnect \/ Disconnect BY <1>6, SafeLoad
  <1>7. CASE Reset BY <1>7, SafeReset
  <1>8. CASE UNCHANGED vars
    <2> USE <1>8 DEF vars, flash, nvs, ram, history, DeviceInv, SafeInv, Recording, FallingBack,
        RollingBack, Committing, Queued, InTrial
    <2>1. TrialSlots' /\ SettledSlot' BY DEF TrialSlots, SettledSlot
    <2>2. WhoRuns' /\ Downloading' BY DEF WhoRuns, Downloading
    <2>3. Reporting' BY DEF Reporting
    <2>4. ResultsTruthful' /\ Adopted' BY DEF ResultsTruthful, Adopted, TrustedSlot
    <2> QED BY <2>1, <2>2, <2>3, <2>4
  <1> QED BY <1>1, <1>2, <1>3, <1>4, <1>5, <1>6, <1>7, <1>8 DEF Next

(* DeviceInv is inductive if resets are safe: a trial has one image that   *)
(* is tried and one that is confirmed, and record, boot selection, RAM and *)
(* the queued result agree on which is which (nff_ota.c, nff_core.c).      *)
THEOREM SafeHolds == ASSUME SafeResets PROVE Spec => []DeviceInv
  <1>1. Init => DeviceInv BY InitType, InitProbation, SafeStarts DEF DeviceInv
  <1>2. DeviceInv /\ [Next]_vars => DeviceInv' BY ProbationStep, SafeNext DEF DeviceInv
  <1> QED BY <1>1, <1>2, PTL DEF Spec

(* Every result that is published tells the truth: committed comes from    *)
(* the image the command installed, rolled_back from the one before, and   *)
(* both name the version that was installed (nff_ota_commit,               *)
(* nff_ota_check_pending_result).                                          *)
THEOREM ResultsAreTruthful == ASSUME SafeResets PROVE Spec => []ResultsTruthful
  <1>1. DeviceInv => ResultsTruthful BY DEF DeviceInv, SafeInv
  <1> QED BY <1>1, SafeHolds, PTL

(* Off probation the device runs a confirmed image, which is the one that  *)
(* is selected (nff_core.c).                                               *)
THEOREM SettledIsConfirmed == ASSUME SafeResets PROVE Spec => []SettledOnConfirmed
  <1>1. DeviceInv => SettledOnConfirmed
    BY DEF DeviceInv, SafeInv, ProbationInv, RecordMatchesRam, SettledSlot, InTrial,
        SettledOnConfirmed
  <1> QED BY <1>1, SafeHolds, PTL

(* Off probation fw_adopted names the image that runs (nff_ota_commit).    *)
THEOREM AdoptedIsRunning == ASSUME SafeResets PROVE Spec => []AdoptedNamesRunning
  <1>1. DeviceInv => AdoptedNamesRunning
    BY DEF DeviceInv, SafeInv, ProbationInv, RecordMatchesRam, SettledSlot, InTrial, Adopted,
        TrustedSlot,
           AdoptedNamesRunning
  <1> QED BY <1>1, SafeHolds, PTL

-----------------------------------------------------------------------------
(* The refinement of FirmwareTrial.  With the version compiled in, the     *)
(* configuration names the image that runs, so that no candidate is older  *)
(* than the trusted firmware; the loader that reads fw_adopted keeps the   *)
(* version of the last boot, and only the first case keeps the promise.    *)
FwNames == pc # "off" => fw = slot[running]

(* The version that commands are compared with.                            *)
LEMMA FwStep ==
  ASSUME ~AdoptedConfig, DeviceInv, FwNames, [Next]_vars PROVE FwNames'
  <1> USE DeviceFacts DEF FwNames, Goto, flash, ram, nvs, history
  <1>1. CASE Boot BY <1>1 DEF Boot
  <1>2. CASE BeginDownload BY <1>2 DEF BeginDownload
  <1>3. CASE Finish BY <1>3 DEF Finish
  <1>4. CASE UNCHANGED <<slot, running, fw>> /\ (pc = "off" => pc' = "off") BY <1>4
  <1>5. ASSUME Next, ~Boot, ~BeginDownload, ~Finish
        PROVE UNCHANGED <<slot, running, fw>> /\ (pc = "off" => pc' = "off")
    BY <1>5
     DEF Next, BootSteps, RollbackSteps, CommitSteps, InstallSteps, TrialTick,
         BootCheckNoTrial, BootCheckFallback, BootCheckArm, BootCheckCrashLoop,
         QueueFallback, QueueRollback, QueueResult, QueueVersion, EraseTrial,
         EraseBootCount, Revert, LoadPending, ErasePending, EraseVersion, Reconnect, Connect,
         Disconnect, Elapse, TickHealthy, TickUnhealthy, CommitPublish, CommitAdopt, CommitMarkValid,
         CommitEraseTrial, CommitEraseBootCount, ReceiveCommand, RefuseCommand,
         DownloadFails, DownloadVerified, RecordTrial, RecordVersion,
         RecordBootCount, Reboot, Reset
  <1> QED BY <1>1, <1>2, <1>3, <1>4, <1>5 DEF vars

(* The variables of the promise.                                           *)
Candidate == IF OnTrial THEN slot[flashed] ELSE NoVersion
Trusted == IF OnTrial THEN slot[Other(flashed)]
             ELSE IF Reverting THEN slot[Other(running)] ELSE slot[boot]
Unreported == IF nvPending \/ pendingResult \/ pc = "fb_pending"
                THEN slot[flashed] ELSE NoVersion
Outcome == {[status |-> r.status, version |-> r.version] : r \in results}
promised == <<Trusted, Candidate, Unreported, Outcome>>

(* A command is accepted.                                                  *)
LEMMA Begins ==
  ASSUME DeviceInv, BeginDownload PROVE Promise!Accept
  <1> USE DeviceFacts DEF BeginDownload, Accepts, nvs, ram, Recording, FallingBack, RollingBack,
      Committing, Queued, InTrial, OnTrial, Reverting, Settled
  <1>1. Candidate = NoVersion /\ Candidate' = NoVersion BY DEF Candidate, RecordMatchesRam
  <1>2. Unreported = NoVersion /\ Unreported' = NoVersion BY DEF Unreported, Reporting, nvs
  <1>3. Trusted' = Trusted BY DEF Trusted, SettledSlot, RecordMatchesRam
  <1>4. Outcome' = {} BY DEF Outcome
  <1> QED BY <1>1, <1>2, <1>3, <1>4 DEF Promise!Accept, Candidate, Unreported, Trusted, Outcome

(* An image is complete and selected.                                      *)
LEMMA Installed ==
  ASSUME DeviceInv, FwNames, Finish PROVE Promise!Install
  <1> USE DeviceFacts DEF Finish, Goto, Recording, FallingBack, RollingBack, Committing, Queued,
      InTrial, OnTrial, Reverting, Settled, nvs, ram
  <1>1. Candidate = NoVersion BY DEF Candidate, NoRecordWhileInstalling
  <1>1a. Candidate' = target BY DEF Candidate
  <1>2. Unreported = NoVersion /\ Unreported' = NoVersion BY DEF Unreported, Reporting,
      InstallHasTarget
  <1>3. Trusted = slot[running] /\ Trusted' = Trusted BY DEF Trusted, SettledSlot,
      NoRecordWhileInstalling
  <1>4. Outcome' = {} /\ Outcome = {} BY DEF Outcome, Downloading
  <1>5. target \in Versions /\ slot[running] <= target BY DEF Downloading, FwNames, InstallHasTarget
  <1> QED BY <1>1, <1>1a, <1>2, <1>3, <1>4, <1>5 DEF Promise!Install, Candidate, Unreported,
      Trusted, Outcome

(* The committed message is the verdict.                                   *)
LEMMA Committed ==
  ASSUME DeviceInv, CommitPublish PROVE Promise!Commit
  <1> USE DeviceFacts DEF CommitPublish, Publish, Goto, Recording, FallingBack, RollingBack,
      Committing, Queued, InTrial, OnTrial, Reverting, Settled, flash, nvs, ram
  <1>1. Candidate = slot[flashed] /\ slot[flashed] # NoVersion BY DEF Candidate, WhoRuns,
      RecordKeepsImages, Blank, NoVersion
  <1>1a. Candidate' = NoVersion BY DEF Candidate
  <1>2. Unreported' = Unreported BY DEF Unreported
  <1>3. Trusted' = slot[flashed] BY DEF Trusted, WhoRuns, TrialSlots
  <1>4. Outcome' = {[status |-> "committed", version |-> slot[flashed]]}
    <2>1. results = {} /\ ver = slot[flashed] BY DEF WhoRuns, TrialSlots
    <2>2. results' = {[status |-> "committed", version |-> slot[flashed], from |-> running]} BY <2>1
    <2> DEFINE informed == [status |-> "committed", version |-> slot[flashed], from |-> running]
    <2>3. results' = {informed} BY <2>2
    <2>4. informed.status = "committed" /\ informed.version = slot[flashed] OBVIOUS
    <2> HIDE DEF informed
    <2> QED BY <2>3, <2>4 DEF Outcome
  <1> QED BY <1>1, <1>1a, <1>2, <1>3, <1>4 DEF Promise!Commit, Candidate, Unreported, Trusted,
      Outcome

(* The first key that queues a rolled_back, or the fallback of the         *)
(* bootloader, is the verdict.                                             *)
LEMMA Discarded ==
  ASSUME DeviceInv,
         BootCheckFallback \/ QueueResult("rb_pending", "rb_version")
  PROVE  Promise!Discard
  <1> USE DeviceFacts DEF BootCheckFallback, FellBack, QueueResult, Goto, Recording,
      FallingBack, RollingBack, Committing, Queued, InTrial, OnTrial, Reverting, Settled, flash,
      nvs, ram, history
  <1>1. Candidate = slot[flashed] /\ slot[flashed] # NoVersion BY DEF Candidate, WhoRuns,
      RecordKeepsImages, TrialSlots, Blank, NoVersion
  <1>1a. Candidate' = NoVersion BY DEF Candidate
  <1>2. Unreported' = slot[flashed] BY DEF Unreported
  <1>3. Trusted' = Trusted BY DEF Trusted, WhoRuns, TrialSlots
  <1>4. Outcome' = Outcome BY DEF Outcome
  <1> QED BY <1>1, <1>1a, <1>2, <1>3, <1>4 DEF Promise!Discard, Candidate, Unreported, Trusted,
      Outcome

(* A queued result is reported.                                            *)
LEMMA Flushed ==
  ASSUME DeviceInv, Connect \/ Reconnect, pendingResult, ~pendingResult' PROVE Promise!Report
  <1> USE DeviceFacts DEF Connect, Reconnect, FlushPending, Publish, Goto, Recording,
      FallingBack, RollingBack, Committing, Queued, InTrial, OnTrial, Reverting, Settled, flash,
      nvs, ram, history
  <1>0. /\ pc \in {"connect", "run"} /\ pc' = "run" /\ ~nvTrial /\ ~nvPending /\ flashed \in Slots
        /\ UNCHANGED <<slot, nvTrial, nvPending, flashed>>
    BY DEF Reporting
  <1>1. Candidate = NoVersion /\ Candidate' = NoVersion BY <1>0 DEF Candidate
  <1>2. Unreported = slot[flashed] /\ slot[flashed] # NoVersion BY <1>0 DEF Unreported,
      Downloading, NoVersion, Blank
  <1>2a. Unreported' = NoVersion BY <1>0 DEF Unreported
  <1>3. Trusted' = Trusted BY DEF Trusted, Reporting
  <1>4. Outcome' = {[status |-> "rolled_back", version |-> slot[flashed]]}
    <2>1. results = {} /\ ver = slot[flashed] BY DEF Reporting
    <2>2. results' = {[status |-> "rolled_back", version |-> slot[flashed], from |-> running]}
      BY <2>1
    <2> DEFINE informed == [status |-> "rolled_back", version |-> slot[flashed], from |-> running]
    <2>3. results' = {informed} BY <2>2
    <2>4. informed.status = "rolled_back" /\ informed.version = slot[flashed] OBVIOUS
    <2> HIDE DEF informed
    <2> QED BY <2>3, <2>4 DEF Outcome
  <1> QED BY <1>1, <1>2, <1>2a, <1>3, <1>4 DEF Promise!Report, Candidate, Unreported, Trusted,
      Outcome

(* A reset forgets a result that was in RAM.                               *)
LEMMA Forgotten ==
  ASSUME DeviceInv, Boot PROVE Promise!LoseReport \/ UNCHANGED promised
  <1> USE DeviceFacts DEF Boot, Goto, Recording, FallingBack, RollingBack, Committing, Queued,
      InTrial, OnTrial, Reverting, Settled, flash, nvs, history
  <1>1. Candidate' = Candidate BY DEF Candidate
  <1>2. Unreported' = Unreported \/ (Unreported # NoVersion /\ Unreported' = NoVersion) BY DEF
      Unreported, Reporting
  <1>3. Trusted' = Trusted BY DEF Trusted, Reporting
  <1>4. Outcome' = Outcome BY DEF Outcome
  <1> QED BY <1>1, <1>2, <1>3, <1>4 DEF Promise!LoseReport, Candidate, Unreported, Trusted,
      Outcome, promised

(* The other steps are stutters: those of a boot,                          *)
LEMMA StillBooting ==
  ASSUME DeviceInv,
         BootCheckNoTrial \/ BootCheckArm \/ BootCheckCrashLoop \/ QueueFallback \/ LoadPending
           \/ ErasePending \/ EraseVersion
  PROVE UNCHANGED promised
  <1> USE DeviceFacts DEF BootCheckNoTrial, BootCheckArm, BootCheckCrashLoop, FellBack,
      QueueFallback, QueueResult, QueueVersion, EraseTrial, EraseBootCount, LoadPending,
      ErasePending, EraseVersion, Goto, flash, ram, nvs, history, Recording, FallingBack,
      RollingBack, Committing, Queued, InTrial, OnTrial, Reverting, Settled
  <1>1. Candidate' = Candidate BY DEF Candidate, NoRecordWhileInstalling, RecordMatchesRam, WhoRuns
  <1>2. Unreported' = Unreported BY DEF Unreported, Reporting
  <1>3. Trusted' = Trusted BY DEF Trusted, WhoRuns, TrialSlots, SettledSlot, RecordKeepsImages,
      ImagesIntact
  <1>4. Outcome' = Outcome BY DEF Outcome
  <1> QED BY <1>1, <1>2, <1>3, <1>4 DEF promised

(* of a rollback under way,                                                *)
LEMMA StillReverting ==
  ASSUME DeviceInv, (QueueRollback /\ pc # "rb_pending") \/ Revert
  PROVE UNCHANGED promised
  <1> USE DeviceFacts DEF QueueRollback, QueueResult, QueueVersion, EraseTrial, EraseBootCount,
      Revert, Goto, flash, ram, nvs, history, Recording, FallingBack, RollingBack, Committing,
      Queued, InTrial, OnTrial, Reverting, Settled
  <1>1. Candidate' = Candidate BY DEF Candidate, NoRecordWhileInstalling, RecordMatchesRam, WhoRuns
  <1>2. Unreported' = Unreported BY DEF Unreported, Reporting
  <1>3. Trusted' = Trusted BY DEF Trusted, WhoRuns, TrialSlots, SettledSlot, RecordKeepsImages,
      ImagesIntact
  <1>4. Outcome' = Outcome BY DEF Outcome
  <1> QED BY <1>1, <1>2, <1>3, <1>4 DEF promised

(* of the main loop,                                                       *)
LEMMA StillRunning ==
  ASSUME DeviceInv,
         Elapse \/ TrialTick \/ ReceiveCommand \/ RefuseCommand \/ Disconnect
           \/ ((Connect \/ Reconnect) /\ (pendingResult => pendingResult'))
  PROVE UNCHANGED promised
  <1> USE DeviceFacts DEF Elapse, TrialTick, TickHealthy, TickUnhealthy, ReceiveCommand,
      RefuseCommand, Disconnect, Connect, Reconnect, FlushPending, Goto, flash, ram, nvs, history,
      Recording, FallingBack, RollingBack, Committing, Queued, InTrial, OnTrial, Reverting, Settled
  <1>1. Candidate' = Candidate BY DEF Candidate, NoRecordWhileInstalling, RecordMatchesRam, WhoRuns
  <1>2. Unreported' = Unreported BY DEF Unreported, Reporting
  <1>3. Trusted' = Trusted BY DEF Trusted, WhoRuns, TrialSlots, SettledSlot, RecordKeepsImages,
      ImagesIntact
  <1>4. Outcome' = Outcome BY DEF Outcome
  <1> QED BY <1>1, <1>2, <1>3, <1>4 DEF promised

(* of a commit,                                                            *)
LEMMA StillCommitting ==
  ASSUME DeviceInv, CommitMarkValid \/ CommitAdopt \/ CommitEraseTrial \/ CommitEraseBootCount
  PROVE UNCHANGED promised
  <1> USE DeviceFacts DEF CommitMarkValid, CommitAdopt, CommitEraseTrial, EraseTrial,
      CommitEraseBootCount, Goto, flash, ram, nvs, history, Recording, FallingBack, RollingBack,
      Committing, Queued, InTrial, OnTrial, Reverting, Settled
  <1>1. Candidate' = Candidate BY DEF Candidate, NoRecordWhileInstalling, RecordMatchesRam, WhoRuns
  <1>2. Unreported' = Unreported BY DEF Unreported, Reporting
  <1>3. Trusted' = Trusted BY DEF Trusted, WhoRuns, TrialSlots, SettledSlot, RecordKeepsImages,
      ImagesIntact
  <1>4. Outcome' = Outcome BY DEF Outcome
  <1> QED BY <1>1, <1>2, <1>3, <1>4 DEF promised

(* of an installation,                                                     *)
LEMMA StillInstalling ==
  ASSUME DeviceInv,
         DownloadFails \/ DownloadVerified \/ RecordTrial \/ RecordVersion \/ RecordBootCount
           \/ Reboot
  PROVE UNCHANGED promised
  <1> USE DeviceFacts DEF DownloadFails, DownloadVerified, RecordTrial, RecordVersion,
      RecordBootCount, EraseBootCount, Reboot, Goto, flash, ram, nvs, history, Recording,
      FallingBack, RollingBack, Committing, Queued, InTrial, OnTrial, Reverting, Settled
  <1>1. Candidate' = Candidate BY DEF Candidate, NoRecordWhileInstalling, RecordMatchesRam, WhoRuns
  <1>2. Unreported' = Unreported BY DEF Unreported, Reporting
  <1>3. Trusted' = Trusted BY DEF Trusted, WhoRuns, TrialSlots, SettledSlot, RecordKeepsImages,
      ImagesIntact
  <1>4. Outcome' = Outcome BY DEF Outcome
  <1> QED BY <1>1, <1>2, <1>3, <1>4 DEF promised

(* and a safe reset.                                                       *)
LEMMA StillReset ==
  ASSUME DeviceInv, SafeResets /\ Reset
  PROVE UNCHANGED promised
  <1> USE DeviceFacts DEF SafeResets, SafePoints, Reset, Goto, flash, ram, nvs, history,
      Recording, FallingBack, RollingBack, Committing, Queued, InTrial, OnTrial, Reverting, Settled
  <1>1. Candidate' = Candidate BY DEF Candidate, NoRecordWhileInstalling, RecordMatchesRam, WhoRuns
  <1>2. Unreported' = Unreported BY DEF Unreported, Reporting
  <1>3. Trusted' = Trusted BY DEF Trusted, WhoRuns, TrialSlots, SettledSlot, RecordKeepsImages,
      ImagesIntact
  <1>4. Outcome' = Outcome BY DEF Outcome
  <1> QED BY <1>1, <1>2, <1>3, <1>4 DEF promised

(* A new device has made no promise yet.                                   *)
LEMMA PromiseStarts == Init => Promise!Init
  <1> SUFFICES ASSUME Init PROVE Promise!Init OBVIOUS
  <1>1. ~OnTrial /\ ~Reverting /\ slot[boot] = Factory BY DEF Init, OnTrial, Reverting, Settled,
      Slots
  <1>2. Outcome = {} /\ Candidate = NoVersion /\ Unreported = NoVersion /\ Trusted = Factory
    BY <1>1 DEF Init, Outcome, Candidate, Unreported, Trusted
  <1> QED BY <1>2 DEF Promise!Init, Outcome, Candidate, Unreported, Trusted

(* Every step of the device is one of the promise, or a stutter.           *)
LEMMA PromiseNext ==
  ASSUME SafeResets, DeviceInv, FwNames, [Next]_vars
  PROVE [Promise!Next]_(Promise!pvars)
  <1> USE DEF Promise!Next
  <1>0. UNCHANGED promised => UNCHANGED Promise!pvars
    BY DEF promised, Promise!pvars, Trusted, Candidate, Unreported, Outcome
  <1>1. CASE BootSteps
    <2>1. CASE Boot BY <1>0, <2>1, Forgotten
    <2>2. CASE BootCheckFallback BY <2>2, Discarded
    <2>3. CASE Connect BY <1>0, <2>3, Flushed, StillRunning
    <2> QED BY <1>0, <1>1, <2>1, <2>2, <2>3, StillBooting DEF BootSteps
  <1>2. CASE RollbackSteps
    <2>1. CASE QueueResult("rb_pending", "rb_version") BY <2>1, Discarded
    <2>2. CASE ~QueueResult("rb_pending", "rb_version")
      <3>1. (QueueRollback /\ pc # "rb_pending") \/ Revert
        BY <1>2, <2>2 DEF RollbackSteps, QueueRollback, QueueVersion, EraseTrial,
            EraseBootCount, Goto
      <3> QED BY <1>0, <3>1, StillReverting
    <2> QED BY <2>1, <2>2
  <1>3. CASE CommitSteps BY <1>0, <1>3, Committed, StillCommitting DEF CommitSteps
  <1>4. CASE InstallSteps BY <1>0, <1>4, Installed, StillInstalling DEF InstallSteps
  <1>5. CASE Elapse \/ TrialTick \/ ReceiveCommand \/ RefuseCommand \/ Disconnect
    BY <1>0, <1>5, StillRunning
  <1>6. CASE Reconnect BY <1>0, <1>6, Flushed, StillRunning
  <1>7. CASE BeginDownload BY <1>7, Begins
  <1>8. CASE Reset BY <1>0, <1>8, StillReset
  <1>9. CASE UNCHANGED vars
    BY <1>9 DEF vars, flash, nvs, ram, history, Promise!pvars, OnTrial, Reverting, Settled
  <1> QED BY <1>1, <1>2, <1>3, <1>4, <1>5, <1>6, <1>7, <1>8, <1>9 DEF Next

(* The device implements FirmwareTrial: a candidate is never older than    *)
(* the trusted firmware, is judged once, and ends trusted and reported     *)
(* committed, or discarded and reported rolled_back                        *)
(* (sdk-c/docs/PROTOCOL.md, nff_ota.c).                                    *)
THEOREM PromiseKept ==
  ASSUME SafeResets, ~AdoptedConfig PROVE Spec => KeepsPromise
  <1>1. Init => Promise!Init /\ FwNames BY PromiseStarts DEF Init, FwNames
  <1>2. DeviceInv /\ FwNames /\ [Next]_vars => FwNames' /\ [Promise!Next]_(Promise!pvars)
    BY FwStep, PromiseNext
  <1> QED BY <1>1, <1>2, SafeHolds, PTL DEF Spec, KeepsPromise, Promise!Spec

-----------------------------------------------------------------------------
(* An emulated board has one image: it is never on trial, never downloads  *)
(* and has no outcome queued, and it names the version it adopted last.    *)
Plainly == {"off", "boot_check", "load_pending", "connect", "run"}
OneImage ==
  /\ pc \in Plainly
  /\ ~nvTrial /\ ~nvPending /\ ~trial
  /\ slot = [s \in Slots |-> IF s = 0 THEN Factory ELSE Blank]
  /\ nvAdopted \in Versions \cup {NoVersion}
  /\ target \in Versions \cup {NoVersion}
  /\ fw = IF nvAdopted = NoVersion THEN Factory ELSE nvAdopted

LEMMA OneImageStep ==
  ASSUME AdoptedConfig, OneImage, [EmulatedNext]_vars
  PROVE  OneImage' /\ fw \in Nat /\ fw' \in Nat /\ fw' >= fw
  <1> USE VersionsAssumption DEF OneImage, Plainly, Goto, NoVersion, Blank, Slots, flash, nvs, ram, history
  <1>1. fw \in Nat
    OBVIOUS
  <1>2. CASE Boot
    BY <1>1, <1>2 DEF Boot
  <1>3. CASE BootCheckNoTrial \/ BootCheckFallback \/ BootCheckArm \/ BootCheckCrashLoop
    BY <1>1, <1>3 DEF BootCheckNoTrial, BootCheckFallback, BootCheckArm, BootCheckCrashLoop
  <1>4. CASE QueueFallback \/ RollbackSteps \/ CommitSteps
    BY <1>1, <1>4 DEF QueueFallback, RollbackSteps, QueueRollback, QueueResult, QueueVersion,
      EraseTrial, EraseBootCount, Revert, CommitSteps, CommitMarkValid, CommitPublish,
      CommitAdopt, CommitEraseTrial, CommitEraseBootCount
  <1>5. CASE LoadPending \/ ErasePending \/ EraseVersion \/ Connect \/ Reconnect
    BY <1>1, <1>5 DEF LoadPending, ErasePending, EraseVersion, Connect, Reconnect
  <1>6. CASE Elapse \/ TrialTick \/ Disconnect \/ Reset
    BY <1>1, <1>6 DEF Elapse, TrialTick, TickHealthy, TickUnhealthy, Disconnect, Reset
  <1>7. CASE ReceiveCommand \/ RefuseCommand
    BY <1>1, <1>7 DEF ReceiveCommand, RefuseCommand
  <1>8. CASE SimulatedAdopt
    BY <1>1, <1>8 DEF SimulatedAdopt, Accepts
  <1>9. CASE UNCHANGED vars
    BY <1>1, <1>9 DEF vars
  <1> QED
    BY <1>2, <1>3, <1>4, <1>5, <1>6, <1>7, <1>8, <1>9, Zenon DEF EmulatedNext, BootSteps

(* An emulated board never reports an older version than it did, wherever  *)
(* it is reset, provided it takes its version from what it adopted: it     *)
(* refuses a downgrade and has no slot to fall back to (nff_ota.c:290-379).*)
THEOREM EmulatedNeverOlder == ASSUME AdoptedConfig PROVE EmulatedSpec => ReportsNothingOlder
  <1>1. Init => OneImage
    BY VersionsAssumption DEF Init, OneImage, Plainly, NoVersion
  <1>2. OneImage /\ [EmulatedNext]_vars => OneImage' /\ [fw' >= fw]_vars
    BY OneImageStep
  <1> QED
    BY <1>1, <1>2, PTL DEF EmulatedSpec, ReportsNothingOlder

-----------------------------------------------------------------------------
(***************************************************************************)
(* The session: a device hears its commands, handles them whole and keeps  *)
(* its crashes, on either port and for any set of update commands.         *)
(***************************************************************************)

(* Where a live session that is not listened to yet will be noticed.       *)
Noticed ==
  \/ place = "subscribe"
  \/ sdkState = "CONNECTING" /\ place \in {"first", "look", "retry", "wait", "work", "unpark"}

(* Before nff_connect there is no client; while the loop waits for a       *)
(* connection the SDK says so; what is live is flagged; and a polled       *)
(* client comes up nowhere but in front of the hooks.                      *)
Connecting ==
  /\ place = "boot" <=> ~started
  /\ place \in Hooks /\ round = "again" => sdkState = "CONNECTED"
  /\ place \in {"subscribe", "retry", "wait"} => round # "again"
  /\ place = "download" => sdkState = "OTA_ACTIVE"
  /\ place \in {"first", "retry", "wait"} => sdkState = "CONNECTING"
  /\ live => flag
  /\ flag => started
  /\ port = "polled" /\ flag /\ sdkState = "CONNECTING" => place \in {"subscribe"} \cup Hooks
  /\ live /\ ~subscribed /\ ~missed => Noticed
  /\ missed => port = "events"

(* What is left of the last crash once its dump is gone.                   *)
Evidence == "full" \in outbox \/ arrived \/ lostReport

(* Where a report is made there is a crash to tell of, and a dump that     *)
(* has been reported is about to be erased, or its erasure was torn.       *)
DumpRemains ==
  /\ panicBoot => told
  /\ reported # 0 \/ panicBoot => dump \/ Evidence
  /\ place = "publish" => panicBoot \/ dump
  /\ place = "erase" => Evidence
  /\ reported # 0 /\ dump => place = "erase" \/ tornErase
  /\ reported = 2 => told \/ tornErase

SessionInv == SessionTypeOK /\ Connecting /\ ParkedIntact /\ DumpRemains

LEMMA SessionInvInit == SessionInit => SessionInv
  <1> SUFFICES ASSUME SessionInit PROVE SessionInv
    OBVIOUS
  <1> USE SessionAssumption DEF SessionInit
  <1>1. live \in BOOLEAN /\ subscribed \in BOOLEAN /\ flag \in BOOLEAN /\ started \in BOOLEAN
    OBVIOUS
  <1>2. missed \in BOOLEAN /\ retryDue \in BOOLEAN /\ panicBoot \in BOOLEAN /\ dump \in BOOLEAN
    OBVIOUS
  <1>3. arrived \in BOOLEAN /\ lostReport \in BOOLEAN /\ tornErase \in BOOLEAN /\ told \in BOOLEAN
    OBVIOUS
  <1>4. port \in Ports /\ outbox \subseteq {"full", "empty"} /\ reported \in {0, 1, 2}
    OBVIOUS
  <1>5. place \in Places /\ round \in {"first", "again", "tick"}
    BY DEF Places
  <1>6. sdkState \in {"UNINIT", "CONNECTING", "CONNECTED", "OTA_ACTIVE"}
    OBVIOUS
  <1>7. parked \in Orders \cup {NoOrder} /\ working \in Orders \cup {NoOrder}
    OBVIOUS
  <1>8. SessionTypeOK
    BY <1>1, <1>2, <1>3, <1>4, <1>5, <1>6, <1>7 DEF SessionTypeOK
  <1>9. Connecting
    BY DEF Connecting, Noticed, Hooks
  <1>10. ParkedIntact
    BY DEF ParkedIntact
  <1>11. DumpRemains
    BY DEF DumpRemains, Evidence
  <1>12. QED  BY <1>8, <1>9, <1>10, <1>11 DEF SessionInv

(* The types, one step per group of variables.                             *)
LEMMA SessionTypeStep ==
  ASSUME SessionInv, [SessionNext]_sessionVars PROVE SessionTypeOK'
  <1> USE SessionAssumption DEF SessionInv, SessionTypeOK
  <1> USE DEF SessionNext, LoopStep, ClientStep, sessionVars, netVars, reportVars, sdkVars, loopVars,
          orderVars, StartConnect, FirstConnect, CheckFirst, Look, Retry, WaitEnds, PolledConnect,
          SubscribeAgain, CheckCrash, PublishCrash, EraseCrash, Stand, PendingTick, DownloadEnds,
          Unpark, ClientConnects, ClientFails, SessionDrops, BrokerAcks, BackOffPasses, Resets,
          Panics, Boots, ReceiveOrder, SessionUp, NoSession, Watching, HooksEnd, WasCrashBoot,
          Goes, Hooks
  <1>1. (port \in Ports)'
    OBVIOUS
  <1>2. (live \in BOOLEAN /\ subscribed \in BOOLEAN /\ flag \in BOOLEAN /\ started \in BOOLEAN)'
    OBVIOUS
  <1>3. (missed \in BOOLEAN /\ retryDue \in BOOLEAN)'
    OBVIOUS
  <1>4. (panicBoot \in BOOLEAN /\ dump \in BOOLEAN /\ arrived \in BOOLEAN /\ lostReport \in BOOLEAN)'
    OBVIOUS
  <1>5. (tornErase \in BOOLEAN /\ told \in BOOLEAN)'
    OBVIOUS
  <1>6. (outbox \subseteq {"full", "empty"})'
    OBVIOUS
  <1>7. (reported \in {0, 1, 2})'
    OBVIOUS
  <1>8. (place \in Places)'
    BY DEF Places
  <1>9. (round \in {"first", "again", "tick"})'
    OBVIOUS
  <1>10. (sdkState \in {"UNINIT", "CONNECTING", "CONNECTED", "OTA_ACTIVE"})'
    OBVIOUS
  <1>11. (parked \in Orders \cup {NoOrder} /\ working \in Orders \cup {NoOrder})'
    OBVIOUS
  <1>12. QED
    BY <1>1, <1>2, <1>3, <1>4, <1>5, <1>6, <1>7, <1>8, <1>9, <1>10, <1>11

(* Every start of a session is watched, or marked as missed.                *)
LEMMA ConnectingStep ==
  ASSUME SessionInv, [SessionNext]_sessionVars PROVE Connecting'
  <1> USE SessionAssumption DEF SessionInv, SessionTypeOK
  <1> USE DEF SessionNext, LoopStep, ClientStep, sessionVars, netVars, reportVars, sdkVars, loopVars,
          orderVars, StartConnect, FirstConnect, CheckFirst, Look, Retry, WaitEnds, PolledConnect,
          SubscribeAgain, CheckCrash, PublishCrash, EraseCrash, Stand, PendingTick, DownloadEnds,
          Unpark, ClientConnects, ClientFails, SessionDrops, BrokerAcks, BackOffPasses, Resets,
          Panics, Boots, ReceiveOrder, SessionUp, NoSession, Watching, HooksEnd, WasCrashBoot,
          Goes, Hooks, Connecting, Noticed
  <1>1. (place = "boot" <=> ~started)'
    OBVIOUS
  <1>2. (place \in Hooks /\ round = "again" => sdkState = "CONNECTED")'
    OBVIOUS
  <1>3. (place \in {"subscribe", "retry", "wait"} => round # "again")'
    OBVIOUS
  <1>4. (place = "download" => sdkState = "OTA_ACTIVE")'
    OBVIOUS
  <1>5. (place \in {"first", "retry", "wait"} => sdkState = "CONNECTING")'
    OBVIOUS
  <1>6. (live => flag)'
    OBVIOUS
  <1>7. (flag => started)'
    OBVIOUS
  <1>8. (port = "polled" /\ flag /\ sdkState = "CONNECTING"
           => place \in {"subscribe"} \cup Hooks)'
    OBVIOUS
  <1>9. (live /\ ~subscribed /\ ~missed => Noticed)'
    <2> SUFFICES ASSUME live', ~subscribed', ~missed' PROVE Noticed'
      OBVIOUS
    <2>1. CASE ~live                \* the session begins in this step
      BY <2>1 DEF Places
    <2>2. CASE live /\ (subscribed \/ missed)
      BY <2>2
    <2>3. CASE live /\ Noticed /\ LoopStep
      BY <2>3
    <2>4. CASE live /\ Noticed /\ ~LoopStep
      BY <2>4
    <2>5. QED  BY <2>1, <2>2, <2>3, <2>4
  <1>10. (missed => port = "events")'
    OBVIOUS
  <1>11. QED
    BY <1>1, <1>2, <1>3, <1>4, <1>5, <1>6, <1>7, <1>8, <1>9, <1>10

(* Nothing is parked over a command that is being handled.                  *)
LEMMA ParkedStep ==
  ASSUME SessionInv, [SessionNext]_sessionVars PROVE ParkedIntact'
  <1> USE SessionAssumption DEF SessionInv, SessionTypeOK
  <1> USE DEF SessionNext, LoopStep, ClientStep, sessionVars, netVars, reportVars, sdkVars, loopVars,
          orderVars, StartConnect, FirstConnect, CheckFirst, Look, Retry, WaitEnds, PolledConnect,
          SubscribeAgain, CheckCrash, PublishCrash, EraseCrash, Stand, PendingTick, DownloadEnds,
          Unpark, ClientConnects, ClientFails, SessionDrops, BrokerAcks, BackOffPasses, Resets,
          Panics, Boots, ReceiveOrder, SessionUp, NoSession, Watching, HooksEnd, WasCrashBoot,
          Goes, Hooks, ParkedIntact
  <1>1. QED  OBVIOUS

(* A dump is erased only where its report has been handed over.             *)
LEMMA ReportingStep ==
  ASSUME SessionInv, [SessionNext]_sessionVars PROVE DumpRemains'
  <1> USE SessionAssumption DEF SessionInv, SessionTypeOK
  <1> USE DEF SessionNext, LoopStep, ClientStep, sessionVars, netVars, reportVars, sdkVars, loopVars,
          orderVars, StartConnect, FirstConnect, CheckFirst, Look, Retry, WaitEnds, PolledConnect,
          SubscribeAgain, CheckCrash, PublishCrash, EraseCrash, Stand, PendingTick, DownloadEnds,
          Unpark, ClientConnects, ClientFails, SessionDrops, BrokerAcks, BackOffPasses, Resets,
          Panics, Boots, ReceiveOrder, SessionUp, NoSession, Watching, HooksEnd, WasCrashBoot,
          Goes, Hooks, DumpRemains, Evidence
  <1>1. (panicBoot => told)'
    OBVIOUS
  <1>2. (reported # 0 \/ panicBoot => dump \/ Evidence)'
    OBVIOUS
  <1>3. (place = "publish" => panicBoot \/ dump)'
    OBVIOUS
  <1>4. (place = "erase" => Evidence)'
    OBVIOUS
  <1>5. (reported # 0 /\ dump => place = "erase" \/ tornErase)'
    OBVIOUS
  <1>6. (reported = 2 => told \/ tornErase)'
    OBVIOUS
  <1>7. QED
    BY <1>1, <1>2, <1>3, <1>4, <1>5, <1>6

(* The session's inductive invariant (nff_mqtt.c, nff_cmd.c, nff_crash.c). *)
THEOREM SessionHolds == SessionSpec => []SessionInv
  <1>1. SessionInv /\ [SessionNext]_sessionVars => SessionInv'
    BY SessionTypeStep, ConnectingStep, ParkedStep, ReportingStep DEF SessionInv
  <1>2. QED  BY SessionInvInit, <1>1, PTL DEF SessionSpec

(* Update commands are handled whole, the detail of a crash is kept, and a *)
(* device that holds itself connected hears its commands except in a       *)
(* session it missed, whatever the network, the client's task, resets and  *)
(* panics do (nff_mqtt.c:23-164, nff_cmd.c:96-115, nff_crash.c:170-287).   *)
THEOREM SessionIsSound == SessionSpec => []SessionSound
  <1>1. SessionInv => HearsUnlessMissed
    BY DEF SessionInv, Connecting, Noticed, HearsUnlessMissed
  <1>2. SessionInv => CrashKept
    BY DEF SessionInv, DumpRemains, Evidence, CrashKept
  <1>3. SessionInv => SessionSound
    BY <1>1, <1>2 DEF SessionInv, SessionSound
  <1>4. QED  BY SessionHolds, <1>3, PTL

=============================================================================
