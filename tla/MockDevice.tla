----------------------------- MODULE MockDevice -----------------------------
(***************************************************************************)
(* The simulated board of nff-mock: one MQTT session after another, with   *)
(* an in-memory NVS that outlives them.  A reboot, an update and a crash   *)
(* are all a new session.  Held code is a record of the version it adopted *)
(* and whether its sketch declares a fault; a fault makes the board crash  *)
(* again and again until the right update arrives.                         *)
(***************************************************************************)
EXTENDS Naturals

CONSTANTS
  MockVersions,     \* version numbers an update may carry
  FirstVersion,     \* the version of the first boot
  BuggyVersions,    \* those whose health gate fails (cfg.buggy_version_map)
  MaxMockCrashes,   \* crashes injected
  MaxMockUpdates,   \* update commands accepted
  MaxMockDrops,     \* sessions lost to the network
  Nothing           \* an NVS key that is not there, an artifact not staged

ASSUME MockAssumption ==
  /\ MockVersions \subseteq Nat /\ FirstVersion \in MockVersions
  /\ FirstVersion \notin BuggyVersions
  /\ MaxMockCrashes \in Nat /\ MaxMockUpdates \in Nat /\ MaxMockDrops \in Nat

(* A sketch an artifact carries, or Nothing where it could not be reached. *)
Sketches == [faulty : BOOLEAN]

VARIABLES
  session,     \* where _session is
  rebootSet,   \* the _reboot event
  version,     \* fw_version
  held,        \* the firmware in force: its sketch
  staged,      \* pending_fw_artifact
  otaNvs,      \* the ota_* keys: version, previous version, committed flag
  fault,       \* the fault_* keys: fixed_after and source
  recrash,     \* _fault_recrash_loop is running
  crashFlag,   \* crash_simulate
  crashCount,  \* crash_count
  download,    \* the update being handled
  updates,     \* updates accepted so far
  dropped,     \* sessions lost so far
  reportedCrash, \* crash_count of the last crash report published
  results,     \* ota_result messages published, with the version then running
  injected     \* a crash command or a random crash armed the fault

mockVars == <<session, rebootSet, version, held, staged, otaNvs, fault, recrash, crashFlag,
              crashCount, download, updates, dropped, reportedCrash, results, injected>>
flashVars == <<version, held, staged, otaNvs>>
crashVars == <<fault, crashFlag, crashCount, injected>>
ghosts    == <<reportedCrash, results>>

MockInit ==
  /\ session = "off" /\ rebootSet = FALSE
  /\ version = FirstVersion /\ held = [faulty |-> FALSE] /\ staged = Nothing
  /\ otaNvs = Nothing /\ fault = Nothing /\ recrash = FALSE
  /\ crashFlag = FALSE /\ crashCount = 0
  /\ download = Nothing /\ updates = 0 /\ dropped = 0
  /\ reportedCrash = 0 /\ results = {} /\ injected = FALSE

----------------------------------------------------------------------------
(* Boot: settle the staged update, then let the held code arm or clear the *)
(* fault.                                                                  *)

HealthGateFails == otaNvs # Nothing /\ otaNvs.version \in BuggyVersions


BootVersion == CASE otaNvs = Nothing -> version
                 [] HealthGateFails  -> otaNvs.previous
                 [] OTHER            -> otaNvs.version
BootSketch == IF otaNvs # Nothing /\ ~HealthGateFails /\ staged # Nothing THEN staged ELSE held

(* The version gate of _apply_pending_ota, for faults a crash armed.       *)
CuredByVersion ==
  /\ otaNvs # Nothing /\ ~HealthGateFails
  /\ fault # Nothing /\ fault.source # "firmware" /\ BootVersion > fault.fixedAfter

SyncFault(f) ==
  CASE BootSketch.faulty -> [fixedAfter |-> 0, source |-> "firmware"]
    [] ~BootSketch.faulty /\ f # Nothing /\ f.source = "firmware" -> Nothing
    [] OTHER -> f

Boot ==
  /\ session = "off"
  /\ session' = "connecting" /\ rebootSet' = FALSE
  /\ version' = BootVersion /\ held' = BootSketch
  /\ staged' = IF otaNvs = Nothing THEN staged ELSE Nothing
  /\ otaNvs' = IF HealthGateFails THEN [otaNvs EXCEPT !.committed = FALSE] ELSE otaNvs
  /\ fault' = SyncFault(IF CuredByVersion THEN Nothing ELSE fault)
  /\ injected' = (injected /\ fault' # Nothing /\ fault'.source = "inject")
  /\ UNCHANGED <<recrash, crashFlag, crashCount, download, updates, dropped, ghosts>>

AnnounceOnline ==
  /\ session = "connecting"
  /\ session' = "crash_report"
  /\ UNCHANGED <<rebootSet, flashVars, crashVars, recrash, download, updates, dropped, ghosts>>

ErasesFirst ==
  /\ session = "crash_report"
  /\ \E published \in BOOLEAN :
       /\ session' = IF published THEN "ota_result" ELSE "off"
       /\ reportedCrash' = IF published /\ crashFlag THEN crashCount ELSE reportedCrash
  /\ crashFlag' = FALSE
  /\ UNCHANGED <<rebootSet, flashVars, fault, crashCount, injected, recrash, download, updates,
                 dropped, results>>

(* The report is published before its keys are erased ...                  *)
CheckAndReport ==
  /\ session = "crash_report"
  /\ session' = "ota_result"
  /\ reportedCrash' = IF crashFlag THEN crashCount ELSE reportedCrash
  /\ crashFlag' = FALSE
  /\ UNCHANGED <<rebootSet, flashVars, fault, crashCount, injected, recrash, download, updates,
                 dropped, results>>

(* ... and the result of an update after its keys are, so it may be lost.  *)
CheckPendingResult ==
  /\ session = "ota_result"
  /\ session' = "serving" /\ recrash' = (fault # Nothing)
  /\ results' = IF otaNvs = Nothing THEN results
                ELSE results \cup {[version |-> otaNvs.version, committed |-> otaNvs.committed,
                                    running |-> version, before |-> otaNvs.previous]}
  /\ otaNvs' = Nothing
  /\ UNCHANGED <<rebootSet, version, held, staged, crashVars, download, updates, dropped,
                 reportedCrash>>

LoseResult ==
  /\ session = "ota_result" /\ otaNvs # Nothing /\ dropped < MaxMockDrops
  /\ session' = "off" /\ otaNvs' = Nothing /\ dropped' = dropped + 1
  /\ UNCHANGED <<rebootSet, version, held, staged, crashVars, recrash, download, updates, ghosts>>

(* An MqttError ends the session wherever it waits, an update included.    *)
LoseSession ==
  /\ session # "off" /\ dropped < MaxMockDrops
  /\ session' = "off" /\ dropped' = dropped + 1
  /\ recrash' = FALSE /\ download' = Nothing
  /\ UNCHANGED <<rebootSet, flashVars, crashVars, updates, ghosts>>

----------------------------------------------------------------------------
(* Crashes.  One that only an update cures arms the fault; so does the     *)
(* timer of a fault already armed, under its own name.                     *)

Inject(persists, byTimer) ==
  /\ crashCount < MaxMockCrashes
  /\ crashCount' = crashCount + 1 /\ crashFlag' = TRUE
  /\ fault' = IF persists THEN [fixedAfter |-> version, source |-> "inject"] ELSE fault
  /\ injected' = (injected \/ (persists /\ ~byTimer))
  /\ rebootSet' = TRUE

Recrash ==
  /\ session \in {"serving", "installing"} /\ recrash
  /\ \E persists \in BOOLEAN : Inject(persists, TRUE)
  /\ recrash' = FALSE
  /\ UNCHANGED <<session, flashVars, download, updates, dropped, ghosts>>

RandomCrash ==
  /\ session \in {"serving", "installing"}
  /\ \E persists \in BOOLEAN : Inject(persists, FALSE)
  /\ UNCHANGED <<session, flashVars, recrash, download, updates, dropped, ghosts>>

----------------------------------------------------------------------------
(* Commands.  A reboot that was asked for happens only once the next       *)
(* command has been handled: the session waits on its messages, not on the *)
(* event.                                                                  *)

EndOfHandle(reboot) ==
  /\ session' = IF reboot THEN "off" ELSE "serving"
  /\ recrash' = (recrash /\ ~reboot)

CrashCommand ==
  /\ session = "serving"
  /\ \E persists \in BOOLEAN : Inject(persists, FALSE)
  /\ EndOfHandle(TRUE)
  /\ UNCHANGED <<flashVars, download, updates, dropped, ghosts>>

OtherCommand ==
  /\ session = "serving"
  /\ \E reboot \in BOOLEAN : rebootSet' = (rebootSet \/ reboot)
  /\ EndOfHandle(rebootSet')
  /\ UNCHANGED <<flashVars, crashVars, download, updates, dropped, ghosts>>

AcceptsUpdate(v) == version <= v

HandleOta(v, artifact) ==
  /\ session = "serving" /\ updates < MaxMockUpdates
  /\ AcceptsUpdate(v)
  /\ session' = "installing" /\ updates' = updates + 1
  /\ download' = [version |-> v, artifact |-> artifact]
  /\ UNCHANGED <<rebootSet, flashVars, crashVars, recrash, dropped, ghosts>>

RejectOta(v) ==
  /\ session = "serving" /\ ~AcceptsUpdate(v)
  /\ EndOfHandle(rebootSet)
  /\ UNCHANGED <<rebootSet, flashVars, crashVars, download, updates, dropped, ghosts>>

(* The digest of a fetched artifact is wrong.                              *)
DownloadFails ==
  /\ session = "installing" /\ download.artifact # Nothing
  /\ EndOfHandle(rebootSet)
  /\ download' = Nothing
  /\ UNCHANGED <<rebootSet, flashVars, crashVars, updates, dropped, ghosts>>

Stage ==
  /\ session = "installing"
  /\ otaNvs' = [version |-> download.version, previous |-> version, committed |-> TRUE]
  /\ staged' = download.artifact
  /\ download' = Nothing /\ rebootSet' = TRUE
  /\ EndOfHandle(TRUE)
  /\ UNCHANGED <<version, held, crashVars, updates, dropped, ghosts>>

MockNext ==
  \/ Boot \/ AnnounceOnline \/ CheckAndReport \/ CheckPendingResult \/ LoseResult \/ LoseSession
  \/ Recrash \/ RandomCrash \/ CrashCommand \/ OtherCommand \/ DownloadFails \/ Stage
  \/ \E v \in MockVersions : RejectOta(v)
  \/ \E v \in MockVersions, artifact \in Sketches \cup {Nothing} : HandleOta(v, artifact)

MockSpec == MockInit /\ [][MockNext]_mockVars

----------------------------------------------------------------------------
MockTypeOK ==
  /\ session \in {"off", "connecting", "crash_report", "ota_result", "serving", "installing"}
  /\ rebootSet \in BOOLEAN /\ recrash \in BOOLEAN /\ injected \in BOOLEAN
  /\ version \in MockVersions /\ held \in Sketches /\ staged \in Sketches \cup {Nothing}
  /\ otaNvs \in [version : MockVersions, previous : MockVersions, committed : BOOLEAN]
                  \cup {Nothing}
  /\ fault \in [fixedAfter : MockVersions \cup {0}, source : {"inject", "firmware"}]
                 \cup {Nothing}
  /\ crashFlag \in BOOLEAN /\ crashCount \in 0..MaxMockCrashes
  /\ download \in [version : MockVersions, artifact : Sketches \cup {Nothing}] \cup {Nothing}
  /\ updates \in 0..MaxMockUpdates /\ dropped \in 0..MaxMockDrops
  /\ reportedCrash \in 0..MaxMockCrashes
  /\ results \subseteq [version : MockVersions, committed : BOOLEAN,
                        running : MockVersions, before : MockVersions]

(* A result tells which image runs when it is published, although the boot *)
(* that settles an update is repeated by every reconnection before it.     *)
MockResultsTruthful ==
  \A r \in results : IF r.committed THEN r.running = r.version
                     ELSE r.running = r.before /\ r.version \in BuggyVersions

(* Every crash so far is in the last report or is still to be reported.    *)
CrashesReported == crashFlag \/ reportedCrash = crashCount

(* What a board says of its past is true, and nothing of it is forgotten.  *)
ReportsTruthful == MockResultsTruthful /\ CrashesReported

(* A board that holds code without a fault does not keep crashing, unless  *)
(* a crash was injected from outside, or its own timer renamed the fault   *)
(* while an update to the very version it ran was being installed          *)
(* (crash.py:54-66 and device.py:166-192).                                 *)
CodeDecides ==
  (session \in {"serving", "installing"} /\ fault # Nothing /\ ~injected)
    => held.faulty \/ fault.fixedAfter = version

(* What a mock reports is true, and what it runs decides whether it        *)
(* crashes (device.py, crash.py, ota.py).                                  *)
MockSound == MockTypeOK /\ ReportsTruthful /\ CodeDecides

=============================================================================
