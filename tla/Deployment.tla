----------------------------- MODULE Deployment -----------------------------
(***************************************************************************)
(* Deployments of the OTA service (nff_ota): the rows `deployments' and    *)
(* `ota_jobs' of the database, and everything that reads and writes them   *)
(* concurrently: the poller, the rollout supervisor and the reaper (tasks  *)
(* of one background loop), the fleet's webhooks and the MCP tools.        *)
(*                                                                         *)
(* Every database call is an await, so a handler is a sequence of atomic   *)
(* reads and writes; what it read is kept in its own local state until the *)
(* write that depends on it.  Consecutive reads of rows that no one else   *)
(* checks against each other are one step.  A deployment stands for the    *)
(* version it ships; a device answers a command with the version, too.     *)
(***************************************************************************)
EXTENDS Integers, Sequences, FiniteSets

CONSTANTS
  Deployments,
  Devices,           \* device ids, in the order of sorted()
  None,
  Phases,            \* cumulative percentages, or << >> for a single-shot rollout
  Threshold,         \* failure_threshold of the row, in percent
  DefaultThreshold,  \* OTA_DEFAULT_FAILURE_THRESHOLD, in percent
  MaxInFlight,       \* max_devices_in_flight
  Deliverers,        \* enabled callers of _deliver_wave
  Overlap,           \* two of them may deliver at the same time
  Operations,        \* enabled tools and telemetry
  Callers,           \* concurrent sessions of the abort and resume tools
  MaxWrites,         \* bound: webhook and report handlers at once
  MaxAge,            \* how old a job may grow: 1 OTA_DOWNLOAD_TIMEOUT, 2 the rate limit
  AcksLost,          \* the fleet may report failure for a command that arrived
  WireVersions       \* the artifact's catalog version is its wire version

ASSUME DeploymentAssumption ==
  /\ Devices \subseteq Nat /\ IsFiniteSet(Devices) /\ Devices # {}
  /\ None \notin Deployments
  /\ Phases \in Seq(1..100) /\ (Phases # << >> => Phases[Len(Phases)] = 100)
  /\ \A w, v \in 1..Len(Phases) : w < v => Phases[w] < Phases[v]
  /\ Threshold \in 0..100 /\ DefaultThreshold \in 0..100
  /\ MaxInFlight \in Nat \ {0} /\ MaxWrites \in Nat
  /\ Deliverers \subseteq {"poller", "supervisor", "starter"}
  /\ Operations \subseteq {"create", "abort", "resume", "override", "report", "progress"}
  /\ MaxAge \in 0..2
  /\ Overlap \in BOOLEAN /\ AcksLost \in BOOLEAN /\ WireVersions \in BOOLEAN

VARIABLES
  \* table deployments
  status,      \* its status
  phase,       \* current_phase
  reason,      \* halted_reason: "none", "halt" or "rate"
  override,    \* rate_limit_override
  soaked,      \* phase_entered_at is soak_seconds ago
  \* table ota_jobs
  job,         \* status of the job of a device, "none" where there is no row
  wave,        \* its wave
  age,         \* last_updated: 0, past the download timeout 1, past the rate limit 2
  \* table devices
  recorded,    \* current_firmware_version
  \* handlers
  creating,    \* deployments whose row create_deployment has inserted, not yet the jobs
  dl,          \* the delivery each deliverer is in
  task,        \* _deliver_one of each device of that delivery
  call,        \* the abort or resume each caller is in
  writes,      \* job updates decided on, not yet written
  recompute,   \* deployments _recompute_deployment_status is to read
  swaps,       \* its compare-and-swaps to `finished', not yet written
  reaping,     \* jobs the reaper has selected
  reaped,      \* deployments it has timed out a job of
  \* the fleet
  updating,    \* the update a device is in
  reports,     \* ota_result messages on their way
  \* history
  sent,        \* <<deployment, device>> whose command was dispatched
  committed,   \* <<deployment, device>> the device has committed
  notified,    \* how often the agent was told of a terminal status
  bypassed     \* deployments delivered past the rate limit, by force or override

rows == <<status, phase, reason, override, soaked>>
jobs == <<job, wave, age>>
handlers == <<creating, dl, task, call, writes, recompute, swaps, reaping, reaped>>
fleet == <<updating, reports>>
past == <<sent, committed, notified, bypassed>>
vars == <<rows, jobs, recorded, handlers, fleet, past>>

DeploymentStatus == {"scheduled", "active", "paused", "finished", "aborted"}
InFlight == {"downloading", "installing", "rebooting"}
TerminalDD == {"success", "already-installed", "aborted", "decommissioned", "failure",
               "timed_out"}
FailedDD == {"failure", "timed_out"}
JobStatus == {"none", "pending"} \cup InFlight \cup TerminalDD
NoFinish == {"finished", "aborted", "paused"}

DeploymentTransitions ==
  [scheduled |-> {"active", "aborted"},
   active    |-> {"paused", "finished", "aborted"},
   paused    |-> {"active", "aborted"},
   finished  |-> {},
   aborted   |-> {}]

JobTransitions(s) ==
  CASE s = "pending"     -> {"downloading", "aborted", "decommissioned"}
    [] s = "downloading" -> {"installing", "failure", "aborted"}
    [] s = "installing"  -> {"rebooting", "failure", "aborted"}
    [] s = "rebooting"   -> {"success", "failure", "aborted"}
    [] s = "failure"     -> {"pending"}
    [] OTHER             -> {}

-----------------------------------------------------------------------------
(* Waves and the supervisor's decision.                                    *)
IsPhased == Phases # << >>
LastPhase == Len(Phases) - 1

(* _assign_waves: the first phase that covers the rank of the device, as   *)
(* phases ascend the number of those that do not.                          *)
WaveOf(targets, d) ==
  LET rank == Cardinality({e \in targets : e <= d})
  IN Cardinality({w \in 0..LastPhase :
                    rank * 100 > Phases[w + 1] * Cardinality(targets)})

Targets(dep) == {d \in Devices : job[dep][d] # "none"}
Released(dep, p) == {d \in Targets(dep) : wave[dep][d] <= p}
Failures(dep, p) == {d \in Released(dep, p) : job[dep][d] \in FailedDD}
Unfinished(dep, p) == {d \in Released(dep, p) : job[dep][d] \notin TerminalDD}

(* float(dep.failure_threshold or settings.default_failure_threshold)      *)
EffectiveThreshold == IF Threshold = 0 THEN DefaultThreshold ELSE Threshold

TooManyFailures(dep, p) ==
  Cardinality(Failures(dep, p)) * 100 > EffectiveThreshold * Cardinality(Released(dep, p))

(* Mutants of _phase_decision.                                             *)
NoSettling(dep, p, soakElapsed) ==
  IF Released(dep, p) = {} THEN "wait"
  ELSE IF TooManyFailures(dep, p) THEN "halt"
  ELSE IF soakElapsed /\ p < LastPhase THEN "advance"
  ELSE "wait"
NoHalting(dep, p, soakElapsed) ==
  IF Released(dep, p) # {} /\ Unfinished(dep, p) = {} /\ soakElapsed /\ p < LastPhase
  THEN "advance" ELSE "wait"

(* _phase_decision                                                         *)
Decision(dep, p, soakElapsed) ==
  IF Released(dep, p) = {} THEN "wait"
  ELSE IF TooManyFailures(dep, p) THEN "halt"
  ELSE IF Unfinished(dep, p) = {} /\ soakElapsed /\ p < LastPhase THEN "advance"
  ELSE "wait"

(* Mutant: the window ends with the download timeout.                      *)
ShortWindow(dep, d) ==
  \E e \in Deployments \ {dep} : job[e][d] \notin {"none", "pending"} /\ age[e][d] < 1

(* _rate_limited_devices: another deployment's job was written recently.   *)
RateLimited(dep, d) ==
  \E e \in Deployments \ {dep} : job[e][d] \notin {"none", "pending"} /\ age[e][d] < 2

(* _find_active_job: the job of the reported version, or else the latest   *)
(* one of the device that is not over.                                     *)
ActiveJobs(d) == {dep \in Deployments : job[dep][d] \notin TerminalDD \cup {"none"}}
(* Mutant: the job of the reported version, even when it is over.          *)
FindAnyJob(d, version) == IF job[version][d] # "none" THEN {version} ELSE {}

FindActiveJob(d, version) ==
  IF WireVersions /\ version \in ActiveJobs(d) THEN {version}
  ELSE {dep \in ActiveJobs(d) : \A e \in ActiveJobs(d) : age[dep][d] <= age[e][d]}

SetJob(dep, d, s) ==
  /\ job' = [job EXCEPT ![dep][d] = s]
  /\ age' = [age EXCEPT ![dep][d] = 0]
  /\ UNCHANGED wave

Idle == [at |-> "idle", dep |-> None, phase |-> 0, soaked |-> FALSE, forced |-> FALSE,
         override |-> FALSE, limited |-> FALSE, delivered |-> FALSE]
NoTask == [d \in Devices |-> "none"]
NoCall == [at |-> "idle", dep |-> None]

Init ==
  /\ \E targets \in (SUBSET Devices) \ {{}} :
       \/ /\ status \in [Deployments -> {"scheduled", "active"}]
          /\ job = [dep \in Deployments |->
                      [d \in Devices |-> IF d \in targets THEN "pending" ELSE "none"]]
          /\ wave = [dep \in Deployments |->
                      [d \in Devices |-> IF d \in targets THEN WaveOf(targets, d) ELSE 0]]
          /\ creating = {}
       \/ /\ \/ status = [dep \in Deployments |-> "scheduled"] /\ creating = {}
             \/ /\ "create" \in Operations
                /\ status = [dep \in Deployments |-> "active"]
                /\ creating = Deployments
          /\ job = [dep \in Deployments |-> [d \in Devices |-> "none"]]
          /\ wave = [dep \in Deployments |-> [d \in Devices |-> 0]]
  /\ phase = [dep \in Deployments |-> 0]
  /\ reason = [dep \in Deployments |-> "none"]
  /\ override = [dep \in Deployments |-> FALSE]
  /\ soaked = [dep \in Deployments |-> FALSE]
  /\ age = [dep \in Deployments |-> [d \in Devices |-> 0]]
  /\ recorded = [d \in Devices |-> None]
  /\ dl = [a \in Deliverers |-> Idle]
  /\ task = [a \in Deliverers |-> NoTask]
  /\ call = [c \in Callers |-> NoCall]
  /\ writes = {} /\ recompute = {} /\ swaps = {} /\ reaping = {} /\ reaped = {}
  /\ updating = [d \in Devices |-> None]
  /\ reports = {}
  /\ sent = {} /\ committed = {}
  /\ notified = [dep \in Deployments |-> 0]
  /\ bypassed = {}

-----------------------------------------------------------------------------
(* The deliverers.  The poller and the starter (the start_deployment tool) *)
(* read the row again before they deliver; the supervisor goes on with the *)
(* row its sweep has read.                                                 *)
Step(a, from, to) ==
  dl[a].at = from /\ dl' = [dl EXCEPT ![a].at = to]
Stop(a, from) ==
  dl[a].at = from /\ dl' = [dl EXCEPT ![a] = Idle]
QuietHandlers == UNCHANGED <<creating, call, writes, recompute, swaps, reaping, reaped>>

Free(a) == /\ dl[a].at = "idle"
           /\ Overlap \/ \A b \in Deliverers : dl[b].at = "idle"

(* _insert_jobs                                                            *)
InsertJobs(dep, targets) ==
  /\ job' = [job EXCEPT ![dep] = [d \in Devices |-> IF d \in targets THEN "pending" ELSE @[d]]]
  /\ wave' = [wave EXCEPT ![dep] =
                [d \in Devices |-> IF d \in targets THEN WaveOf(targets, d) ELSE @[d]]]
  /\ UNCHANGED age

(* The end of create_deployment: the jobs, or an insert that fails.        *)
CreateJobs(dep, targets) ==
  /\ dep \in creating
  /\ creating' = creating \ {dep}
  /\ InsertJobs(dep, targets)
  /\ UNCHANGED <<rows, recorded, dl, task, call, writes, recompute, swaps, reaping, reaped,
                 fleet, past>>

CreateFails(dep) ==
  /\ dep \in creating
  /\ creating' = creating \ {dep}
  /\ UNCHANGED <<rows, jobs, recorded, dl, task, call, writes, recompute, swaps, reaping,
                 reaped, fleet, past>>

(* poll_once: one due deployment; a scheduled one without jobs gets them.  *)
PollerPick(dep) ==
  /\ "poller" \in Deliverers /\ Free("poller")
  /\ status[dep] \in {"scheduled", "active"}
  /\ dl' = [dl EXCEPT !["poller"].dep = dep,
                      !["poller"].at = IF status[dep] = "scheduled" /\ Targets(dep) = {}
                                       THEN "materialize" ELSE "row"]
  /\ UNCHANGED <<rows, jobs, recorded, task, fleet, past>> /\ QuietHandlers

(* _materialize_jobs: a job for each accepted, compatible member; a group  *)
(* without one is left scheduled.                                          *)
Materialize(targets) ==
  /\ "poller" \in Deliverers
  /\ IF targets = {} THEN Stop("poller", "materialize") /\ UNCHANGED jobs
     ELSE Step("poller", "materialize", "row") /\ InsertJobs(dl["poller"].dep, targets)
  /\ UNCHANGED <<rows, recorded, task, fleet, past>> /\ QuietHandlers

(* start_deployment                                                        *)
StarterPick(dep, force) ==
  /\ "starter" \in Deliverers /\ Free("starter")
  /\ dl' = [dl EXCEPT !["starter"].dep = dep, !["starter"].forced = force,
                      !["starter"].at = "row"]
  /\ UNCHANGED <<rows, jobs, recorded, task, fleet, past>> /\ QuietHandlers

(* Mutant: the row's status is not checked.                                *)
AnyRow(a) ==
  /\ dl[a].at = "row"
  /\ dl' = [dl EXCEPT ![a].phase = phase[dl[a].dep],
                      ![a].override = override[dl[a].dep],
                      ![a].at = IF status[dl[a].dep] = "active" THEN "select" ELSE "activate"]
  /\ UNCHANGED <<rows, jobs, recorded, task, fleet, past>> /\ QuietHandlers

ReadRow(a) ==
  LET dep == dl[a].dep IN
  /\ dl[a].at = "row"
  /\ IF status[dep] \notin {"scheduled", "active"} THEN Stop(a, "row")
     ELSE dl' = [dl EXCEPT ![a].phase = phase[dep],
                            ![a].override = override[dep],
                            ![a].at = IF status[dep] = "scheduled" THEN "activate" ELSE "select"]
  /\ UNCHANGED <<rows, jobs, recorded, task, fleet, past>> /\ QuietHandlers

Activate(a) ==
  /\ Step(a, "activate", "select")
  /\ status' = [status EXCEPT ![dl[a].dep] = "active"]
  /\ UNCHANGED <<phase, reason, override, soaked, jobs, recorded, task, fleet, past>>
  /\ QuietHandlers

(* sweep_once and _supervise_one: the row, the released cohort, a write.   *)
SupervisorPick(dep) ==
  /\ "supervisor" \in Deliverers /\ Free("supervisor")
  /\ IsPhased /\ status[dep] = "active"
  /\ dl' = [dl EXCEPT !["supervisor"] =
              [Idle EXCEPT !.at = "decide", !.dep = dep, !.phase = phase[dep],
                           !.soaked = soaked[dep], !.override = override[dep]]]
  /\ UNCHANGED <<rows, jobs, recorded, task, fleet, past>> /\ QuietHandlers

Decide ==
  /\ "supervisor" \in Deliverers /\ dl["supervisor"].at = "decide"
  /\ LET s == dl["supervisor"]
         decision == Decision(s.dep, s.phase, s.soaked)
     IN IF decision = "wait" THEN Stop("supervisor", "decide")
        ELSE Step("supervisor", "decide", decision)
  /\ UNCHANGED <<rows, jobs, recorded, task, fleet, past>> /\ QuietHandlers

Halt ==
  /\ "supervisor" \in Deliverers
  /\ Stop("supervisor", "halt")
  /\ status' = [status EXCEPT ![dl["supervisor"].dep] = "paused"]
  /\ reason' = [reason EXCEPT ![dl["supervisor"].dep] = "halt"]
  /\ UNCHANGED <<phase, override, soaked, jobs, recorded, task, fleet, past>>
  /\ QuietHandlers

(* Mutant: the phase is delivered, never written.                          *)
AdvanceUnwritten ==
  /\ "supervisor" \in Deliverers /\ dl["supervisor"].at = "advance"
  /\ dl' = [dl EXCEPT !["supervisor"].phase = @ + 1, !["supervisor"].at = "select"]
  /\ UNCHANGED <<rows, jobs, recorded, task, fleet, past>> /\ QuietHandlers

Advance ==
  LET s == dl["supervisor"] IN
  /\ "supervisor" \in Deliverers /\ s.at = "advance"
  /\ phase' = [phase EXCEPT ![s.dep] = s.phase + 1]
  /\ soaked' = [soaked EXCEPT ![s.dep] = FALSE]
  /\ dl' = [dl EXCEPT !["supervisor"].phase = @ + 1, !["supervisor"].at = "select"]
  /\ UNCHANGED <<status, reason, override, jobs, recorded, task, fleet, past>>
  /\ QuietHandlers

(* _deliver_wave: the pending jobs of the released waves, less those whose *)
(* device is rate limited; the override flag of the row is used up.        *)
Bypass(a) == dl[a].forced \/ dl[a].override
(* Mutant: every wave is selected.                                         *)
EveryWave(dep, p) == {d \in Devices : job[dep][d] = "pending"}

Waiting(dep, p) == {d \in Devices : job[dep][d] = "pending" /\ wave[dep][d] <= p}

Select(a) ==
  LET dep == dl[a].dep
      waiting == Waiting(dep, dl[a].phase)
      limited == IF Bypass(a) THEN {} ELSE {d \in waiting : RateLimited(dep, d)}
  IN
  /\ dl[a].at = "select"
  /\ waiting # {}
  /\ dl' = [dl EXCEPT ![a].at = "deliver", ![a].limited = limited # {}]
  /\ task' = [task EXCEPT ![a] =
                [d \in Devices |-> IF d \in waiting \ limited THEN "queued" ELSE "none"]]
  /\ override' = IF dl[a].override THEN [override EXCEPT ![dep] = FALSE] ELSE override
  /\ bypassed' = IF Bypass(a) THEN bypassed \cup {dep} ELSE bypassed
  /\ UNCHANGED <<status, phase, reason, soaked, jobs, recorded, fleet, sent, committed,
                 notified>>
  /\ QuietHandlers

(* Nothing is pending, or the artifact or its signed URL is missing.       *)
SelectNothing(a) ==
  /\ Stop(a, "select")
  /\ UNCHANGED <<rows, jobs, recorded, task, fleet, past>> /\ QuietHandlers

(* _deliver_one, at most MaxInFlight at a time.                            *)
Calling(a) == {d \in Devices : task[a][d] \in {"calling", "received"}}

Dispatch(a, d) ==
  /\ dl[a].at = "deliver" /\ task[a][d] = "queued"
  /\ Cardinality(Calling(a)) < MaxInFlight
  /\ SetJob(dl[a].dep, d, "downloading")
  /\ task' = [task EXCEPT ![a][d] = "calling"]
  /\ sent' = sent \cup {<<dl[a].dep, d>>}
  /\ UNCHANGED <<rows, recorded, dl, fleet, committed, notified, bypassed>>
  /\ QuietHandlers

(* The device begins the update, or answers that it is busy.               *)
FleetDelivers(a, d) ==
  /\ task[a][d] = "calling"
  /\ task' = [task EXCEPT ![a][d] = "received"]
  /\ updating' = [updating EXCEPT ![d] = IF @ = None THEN dl[a].dep ELSE @]
  /\ UNCHANGED <<rows, jobs, recorded, dl, reports, past>> /\ QuietHandlers

FleetAnswers(a, d) ==
  /\ task[a][d] = "received"
  /\ task' = [task EXCEPT ![a][d] = "done"]
  /\ dl' = [dl EXCEPT ![a].delivered = TRUE]
  /\ UNCHANGED <<rows, jobs, recorded, fleet, past>> /\ QuietHandlers

FleetFails(a, d) ==
  /\ task[a][d] = "calling" \/ (task[a][d] = "received" /\ AcksLost)
  /\ task' = [task EXCEPT ![a][d] = "done"]
  /\ SetJob(dl[a].dep, d, "failure")
  /\ UNCHANGED <<rows, recorded, dl, fleet, past>> /\ QuietHandlers

(* The end of _deliver_wave: a wave held back entirely by the rate limit   *)
(* pauses the deployment, else its status is recomputed.                   *)
EndDelivery(a) ==
  LET dep == dl[a].dep IN
  /\ Stop(a, "deliver")
  /\ \A d \in Devices : task[a][d] \in {"none", "done"}
  /\ task' = [task EXCEPT ![a] = NoTask]
  /\ IF ~Bypass(a) /\ ~dl[a].delivered /\ dl[a].limited
       THEN /\ status' = [status EXCEPT ![dep] = "paused"]
            /\ reason' = [reason EXCEPT ![dep] = "rate"]
            /\ UNCHANGED recompute
       ELSE /\ recompute' = recompute \cup {dep}
            /\ UNCHANGED <<status, reason>>
  /\ UNCHANGED <<phase, override, soaked, jobs, recorded, call, writes, swaps, reaping, reaped,
                 fleet, past, creating>>

-----------------------------------------------------------------------------
(* Devices, and the fleet's forwarding of what they report.                *)
DeviceCommits(d) ==
  /\ updating[d] # None
  /\ updating' = [updating EXCEPT ![d] = None]
  /\ committed' = committed \cup {<<updating[d], d>>}
  /\ reports' = reports \cup {[device |-> d, version |-> updating[d], status |-> "success"]}
  /\ UNCHANGED <<rows, jobs, recorded, handlers, sent, notified, bypassed>>

DeviceRollsBack(d) ==
  /\ updating[d] # None
  /\ updating' = [updating EXCEPT ![d] = None]
  /\ reports' = reports \cup {[device |-> d, version |-> updating[d], status |-> "failure"]}
  /\ UNCHANGED <<rows, jobs, recorded, handlers, past>>

(* A device that never comes back, or a download that ended in an error.   *)
DeviceSilent(d) ==
  /\ updating[d] # None
  /\ updating' = [updating EXCEPT ![d] = None]
  /\ UNCHANGED <<rows, jobs, recorded, handlers, reports, past>>

(* finalize_ota_result, up to the write; no active job is a no-op.         *)
ReceiveResult(r) ==
  /\ r \in reports /\ Cardinality(writes) < MaxWrites
  /\ reports' = reports \ {r}
  /\ LET found == FindActiveJob(r.device, r.version) IN
       \/ /\ found = {}
          /\ UNCHANGED writes
       \/ \E dep \in found :
            writes' = writes \cup {[dep |-> dep, device |-> r.device, status |-> r.status]}
  /\ UNCHANGED <<rows, jobs, recorded, dl, task, call, recompute, swaps, reaping, reaped,
                 updating, past, creating>>

(* A forward to the webhook fails; the fleet does not try again.           *)
LoseReport(r) ==
  /\ r \in reports
  /\ reports' = reports \ {r}
  /\ UNCHANGED <<rows, jobs, recorded, handlers, updating, past>>

(* record_ota_progress, up to the write.  A download tick leaves the       *)
(* status of a downloading job alone ("touch").                            *)
ReceiveProgress(d, stage) ==
  /\ "progress" \in Operations /\ Cardinality(writes) < MaxWrites
  /\ updating[d] # None
  /\ \E dep \in FindActiveJob(d, updating[d]) :
       LET current == job[dep][d] IN
       /\ IF stage = "downloading" THEN current \in {"pending", "downloading"}
          ELSE stage \in JobTransitions(current)
       /\ writes' = writes \cup {[dep |-> dep, device |-> d,
                                  status |-> IF stage = current THEN "touch" ELSE stage]}
  /\ UNCHANGED <<rows, jobs, recorded, dl, task, call, recompute, swaps, reaping, reaped,
                 fleet, past, creating>>

(* report_device_status, up to the write.                                  *)
ReportStatus(dep, d, s) ==
  /\ "report" \in Operations /\ Cardinality(writes) < MaxWrites
  /\ s \in JobTransitions(job[dep][d])
  /\ writes' = writes \cup {[dep |-> dep, device |-> d, status |-> s]}
  /\ UNCHANGED <<rows, jobs, recorded, dl, task, call, recompute, swaps, reaping, reaped,
                 fleet, past, creating>>

(* Mutants: a tick stores its own status; every report is recorded.        *)
TouchStored(w) ==
  /\ w \in writes
  /\ writes' = writes \ {w}
  /\ SetJob(w.dep, w.device, w.status)
  /\ UNCHANGED <<rows, recorded, recompute, dl, task, call, swaps, reaping, reaped, fleet, past,
                 creating>>
AlwaysRecorded(w) ==
  /\ w \in writes
  /\ writes' = writes \ {w}
  /\ SetJob(w.dep, w.device, w.status)
  /\ recorded' = [recorded EXCEPT ![w.device] = w.dep]
  /\ recompute' = recompute \cup {w.dep}
  /\ UNCHANGED <<rows, dl, task, call, swaps, reaping, reaped, fleet, past, creating>>

(* _apply_job_status, and the single-row update of a download tick.        *)
ApplyWrite(w) ==
  /\ w \in writes
  /\ writes' = writes \ {w}
  /\ SetJob(w.dep, w.device, IF w.status = "touch" THEN job[w.dep][w.device] ELSE w.status)
  /\ recorded' = IF w.status = "success" THEN [recorded EXCEPT ![w.device] = w.dep] ELSE recorded
  /\ recompute' = IF w.status \in {"touch", "downloading"} THEN recompute
                  ELSE recompute \cup {w.dep}
  /\ UNCHANGED <<rows, dl, task, call, swaps, reaping, reaped, fleet, past, creating>>

-----------------------------------------------------------------------------
(* _recompute_deployment_status: a read, then a compare-and-swap.          *)
(* Mutants: what is over may finish again; pending jobs count as done.     *)
FinishAgain(dep) ==
  /\ dep \in recompute
  /\ recompute' = recompute \ {dep}
  /\ swaps' = IF Targets(dep) # {} /\ \A d \in Targets(dep) : job[dep][d] \in TerminalDD
              THEN swaps \cup {[dep |-> dep, seen |-> status[dep]]} ELSE swaps
  /\ UNCHANGED <<rows, jobs, recorded, dl, task, call, writes, reaping, reaped, fleet, past,
                 creating>>
FinishEarly(dep) ==
  /\ dep \in recompute
  /\ recompute' = recompute \ {dep}
  /\ swaps' = IF /\ status[dep] \notin NoFinish /\ Targets(dep) # {}
                 /\ \A d \in Targets(dep) : job[dep][d] \notin InFlight
              THEN swaps \cup {[dep |-> dep, seen |-> status[dep]]} ELSE swaps
  /\ UNCHANGED <<rows, jobs, recorded, dl, task, call, writes, reaping, reaped, fleet, past,
                 creating>>

RecomputeRead(dep) ==
  /\ dep \in recompute
  /\ recompute' = recompute \ {dep}
  /\ swaps' = IF /\ status[dep] \notin NoFinish
                 /\ Targets(dep) # {}
                 /\ \A d \in Targets(dep) : job[dep][d] \in TerminalDD
              THEN swaps \cup {[dep |-> dep, seen |-> status[dep]]} ELSE swaps
  /\ UNCHANGED <<rows, jobs, recorded, dl, task, call, writes, reaping, reaped, fleet, past,
                 creating>>

Notify(dep) == notified' = [notified EXCEPT ![dep] = IF @ < 2 THEN @ + 1 ELSE @]

RecomputeSwap(s) ==
  /\ s \in swaps
  /\ swaps' = swaps \ {s}
  /\ IF status[s.dep] = s.seen
       THEN status' = [status EXCEPT ![s.dep] = "finished"] /\ Notify(s.dep)
       ELSE UNCHANGED <<status, notified>>
  /\ UNCHANGED <<phase, reason, override, soaked, jobs, recorded, dl, task, call, writes,
                 recompute, reaping, reaped, fleet, sent, committed, bypassed, creating>>

(* Mutant: only a job that is installing is reaped.                        *)
ReapInstalling ==
  /\ reaping = {} /\ reaped = {}
  /\ reaping' = {x \in Deployments \X Devices :
                   job[x[1]][x[2]] = "installing" /\ age[x[1]][x[2]] >= 1}
  /\ reaping' # {}
  /\ UNCHANGED <<rows, jobs, recorded, dl, task, call, writes, recompute, swaps, reaped,
                 fleet, past, creating>>

(* The reaper's sweep: a selection, a write per job, then the recomputes.  *)
ReaperSelect ==
  /\ reaping = {} /\ reaped = {}
  /\ reaping' = {x \in Deployments \X Devices :
                   job[x[1]][x[2]] \in InFlight /\ age[x[1]][x[2]] >= 1}
  /\ reaping' # {}
  /\ UNCHANGED <<rows, jobs, recorded, dl, task, call, writes, recompute, swaps, reaped,
                 fleet, past, creating>>

ReaperWrite(x) ==
  LET left == reaping \ {x}
      touched == reaped \cup {x[1]} IN
  /\ x \in reaping
  /\ SetJob(x[1], x[2], "timed_out")
  /\ reaping' = left
  /\ reaped' = IF left = {} THEN {} ELSE touched
  /\ recompute' = IF left = {} THEN recompute \cup touched ELSE recompute
  /\ UNCHANGED <<rows, recorded, dl, task, call, writes, swaps, fleet, past, creating>>

-----------------------------------------------------------------------------
(* abort_deployment and resume_deployment: a validated read, then writes   *)
(* that do not look again.                                                 *)
ToolRead(c, op, dep) ==
  /\ op \in Operations /\ call[c].at = "idle"
  /\ (IF op = "abort" THEN "aborted" ELSE "active") \in DeploymentTransitions[status[dep]]
  /\ call' = [call EXCEPT ![c] = [at |-> op, dep |-> dep]]
  /\ UNCHANGED <<rows, jobs, recorded, dl, task, writes, recompute, swaps, reaping, reaped,
                 fleet, past, creating>>

AbortStatus(c) ==
  /\ call[c].at = "abort"
  /\ status' = [status EXCEPT ![call[c].dep] = "aborted"]
  /\ call' = [call EXCEPT ![c].at = "abort_jobs"]
  /\ UNCHANGED <<phase, reason, override, soaked, jobs, recorded, dl, task, writes, recompute,
                 swaps, reaping, reaped, fleet, past, creating>>

(* Mutant: jobs that have their outcome are aborted as well.               *)
AbortAll(c) ==
  LET dep == call[c].dep IN
  /\ call[c].at = "abort_jobs"
  /\ job' = [job EXCEPT ![dep] = [d \in Devices |-> IF @[d] = "none" THEN "none" ELSE "aborted"]]
  /\ call' = [call EXCEPT ![c] = NoCall]
  /\ Notify(dep)
  /\ UNCHANGED <<rows, wave, age, recorded, dl, task, writes, recompute, swaps, reaping,
                 reaped, fleet, sent, committed, bypassed, creating>>

AbortJobs(c) ==
  LET dep == call[c].dep IN
  /\ call[c].at = "abort_jobs"
  /\ job' = [job EXCEPT ![dep] = [d \in Devices |->
               IF @[d] \in InFlight \cup {"pending"} THEN "aborted" ELSE @[d]]]
  /\ call' = [call EXCEPT ![c] = NoCall]
  /\ Notify(dep)
  /\ UNCHANGED <<rows, wave, age, recorded, dl, task, writes, recompute, swaps, reaping,
                 reaped, fleet, sent, committed, bypassed, creating>>

Resume(c) ==
  LET dep == call[c].dep IN
  /\ call[c].at = "resume"
  /\ status' = [status EXCEPT ![dep] = "active"]
  /\ reason' = [reason EXCEPT ![dep] = "none"]
  /\ soaked' = [soaked EXCEPT ![dep] = FALSE]
  /\ call' = [call EXCEPT ![c] = NoCall]
  /\ UNCHANGED <<phase, override, jobs, recorded, dl, task, writes, recompute, swaps,
                 reaping, reaped, fleet, sent, committed, notified, bypassed, creating>>

(* The dashboard's answer to a rate-limit pause, written to the row.       *)
DashboardOverride(dep) ==
  /\ "override" \in Operations
  /\ status[dep] = "paused" /\ reason[dep] = "rate"
  /\ status' = [status EXCEPT ![dep] = "active"]
  /\ override' = [override EXCEPT ![dep] = TRUE]
  /\ UNCHANGED <<phase, reason, soaked, jobs, recorded, handlers, fleet, past>>

-----------------------------------------------------------------------------
(* Time: a soak ends, a job grows old.                                     *)
SoakElapses(dep) ==
  /\ IsPhased /\ ~soaked[dep]
  /\ soaked' = [soaked EXCEPT ![dep] = TRUE]
  /\ UNCHANGED <<status, phase, reason, override, jobs, recorded, handlers, fleet, past>>

(* A call of the fleet is over (fleet_timeout) before its job times out,   *)
(* and a job that has timed out is reaped before the rate limit is over.   *)
JobAges(dep, d) ==
  /\ job[dep][d] \notin {"none", "pending"} /\ age[dep][d] < MaxAge
  /\ job[dep][d] \in InFlight => age[dep][d] = 0
  /\ \A a \in Deliverers : dl[a].dep = dep => d \notin Calling(a)
  /\ age' = [age EXCEPT ![dep][d] = @ + 1]
  /\ UNCHANGED <<rows, job, wave, recorded, handlers, fleet, past>>

PollerSteps == (\E dep \in Deployments : PollerPick(dep))
               \/ (\E targets \in SUBSET Devices : Materialize(targets))
SupervisorSteps == (\E dep \in Deployments : SupervisorPick(dep)) \/ Decide \/ Halt \/ Advance
DeliverySteps(a) ==
  \/ ReadRow(a) \/ Activate(a) \/ Select(a) \/ SelectNothing(a) \/ EndDelivery(a)
  \/ \E d \in Devices : Dispatch(a, d) \/ FleetDelivers(a, d) \/ FleetAnswers(a, d)
                        \/ FleetFails(a, d)
DeviceSteps(d) == DeviceCommits(d) \/ DeviceRollsBack(d) \/ DeviceSilent(d)
ReportSteps == \E r \in reports : ReceiveResult(r) \/ LoseReport(r)
JobWrites == (\E w \in writes : ApplyWrite(w))
             \/ (\E dep \in recompute : RecomputeRead(dep))
             \/ (\E s \in swaps : RecomputeSwap(s))
ReaperSteps == ReaperSelect \/ \E x \in reaping : ReaperWrite(x)
Telemetry == \E d \in Devices, stage \in InFlight : ReceiveProgress(d, stage)
Creation == \E dep \in Deployments :
  CreateFails(dep) \/ \E targets \in (SUBSET Devices) \ {{}} : CreateJobs(dep, targets)
Tools ==
  \/ \E dep \in Deployments, force \in BOOLEAN : StarterPick(dep, force)
  \/ \E dep \in Deployments, d \in Devices, s \in JobStatus : ReportStatus(dep, d, s)
  \/ \E c \in Callers : \/ \E op \in {"abort", "resume"}, dep \in Deployments : ToolRead(c, op, dep)
                        \/ AbortStatus(c) \/ AbortJobs(c) \/ Resume(c)
  \/ \E dep \in Deployments : DashboardOverride(dep)
Clock == \E dep \in Deployments : SoakElapses(dep) \/ \E d \in Devices : JobAges(dep, d)

Next == PollerSteps \/ SupervisorSteps \/ (\E a \in Deliverers : DeliverySteps(a))
        \/ (\E d \in Devices : DeviceSteps(d)) \/ ReportSteps \/ Telemetry
        \/ JobWrites \/ ReaperSteps \/ Creation \/ Tools \/ Clock

Spec == Init /\ [][Next]_vars

(* The sweeps of the background loop always run again, and the handlers    *)
(* and the fleet's answer always finish (fleet_timeout); a signed URL is   *)
(* made sooner or later (SF).  Nothing is asked of the devices, of their   *)
(* reports, or of a tool.                                                  *)
Fairness ==
  /\ \A dep \in Deployments : SF_vars(PollerPick(dep)) /\ SF_vars(SupervisorPick(dep))
  /\ WF_vars(Decide) /\ WF_vars(Halt) /\ WF_vars(Advance)
  /\ \A a \in Deliverers : WF_vars(DeliverySteps(a)) /\ SF_vars(Select(a))
  /\ WF_vars(\E w \in writes : ApplyWrite(w))
  /\ WF_vars(\E dep \in recompute : RecomputeRead(dep))
  /\ WF_vars(\E s \in swaps : RecomputeSwap(s))
  /\ WF_vars(ReaperSteps) /\ WF_vars(Clock)

FairSpec == Spec /\ Fairness

-----------------------------------------------------------------------------
(* Properties.                                                             *)

(* Every variable has its type.                                            *)
RowsOK ==
  /\ status \in [Deployments -> DeploymentStatus]
  /\ phase \in [Deployments -> Nat]
  /\ reason \in [Deployments -> {"none", "halt", "rate"}]
  /\ override \in [Deployments -> BOOLEAN] /\ soaked \in [Deployments -> BOOLEAN]
JobsOK ==
  /\ job \in [Deployments -> [Devices -> JobStatus]]
  /\ wave \in [Deployments -> [Devices -> Nat]]
  /\ age \in [Deployments -> [Devices -> 0..2]]
  /\ recorded \in [Devices -> Deployments \cup {None}]
Delivery ==
  [at : {"idle", "materialize", "row", "activate", "decide", "halt", "advance", "select",
         "deliver"},
   dep : Deployments \cup {None}, phase : Nat, soaked : BOOLEAN, forced : BOOLEAN,
   override : BOOLEAN, limited : BOOLEAN, delivered : BOOLEAN]
DeliveryOK ==
  /\ dl \in [Deliverers -> Delivery]
  /\ task \in [Deliverers -> [Devices -> {"none", "queued", "calling", "received", "done"}]]
HandlersOK ==
  /\ creating \subseteq Deployments
  /\ call \in [Callers -> [at : {"idle", "abort", "abort_jobs", "resume"},
                           dep : Deployments \cup {None}]]
  /\ writes \subseteq [dep : Deployments, device : Devices, status : JobStatus \cup {"touch"}]
  /\ recompute \subseteq Deployments
  /\ swaps \subseteq [dep : Deployments, seen : DeploymentStatus]
  /\ reaping \subseteq Deployments \X Devices /\ reaped \subseteq Deployments
FleetOK ==
  /\ updating \in [Devices -> Deployments \cup {None}]
  /\ reports \subseteq [device : Devices, version : Deployments, status : {"success", "failure"}]
PastOK ==
  /\ sent \subseteq Deployments \X Devices /\ committed \subseteq Deployments \X Devices
  /\ notified \in [Deployments -> 0..2]
  /\ bypassed \subseteq Deployments
TypeOK == RowsOK /\ JobsOK /\ DeliveryOK /\ HandlersOK /\ FleetOK /\ PastOK

(* Whoever delivers, and however the deliverers and the tools interleave:  *)
(* no device is sent a command before its wave is released.                *)
CohortBound == \A x \in sent : wave[x[1]][x[2]] <= phase[x[1]]

(* What makes the bound inductive.  Whoever holds a deployment knows it;   *)
(* outside a delivery there are no tasks; jobs are written only where they *)
(* exist, and created only where there are none; a delivery selects up to  *)
(* the phase the row has had, and the supervisor knows the current one.    *)
HoldersInv ==
  /\ \A a \in Deliverers : dl[a].at # "idle" => dl[a].dep \in Deployments
  /\ \A c \in Callers : call[c].at # "idle" => call[c].dep \in Deployments
  /\ \A a \in Deliverers : dl[a].at # "deliver" => task[a] = NoTask

JobsExist ==
  /\ \A x \in sent \cup reaping : job[x[1]][x[2]] # "none"
  /\ \A w \in writes : job[w.dep][w.device] # "none" /\ w.status # "none"
  /\ \A a \in Deliverers, d \in Devices :
       task[a][d] # "none" => job[dl[a].dep][d] # "none"

JobsFresh ==
  /\ \A dep \in creating : Targets(dep) = {} /\ status[dep] # "scheduled"
  /\ \A a \in Deliverers : dl[a].at = "materialize" =>
       /\ a = "poller"
       /\ Targets(dl[a].dep) = {} /\ dl[a].dep \notin creating

PhaseKnown ==
  /\ \A a \in Deliverers :
       dl[a].at \in {"activate", "select"} => dl[a].phase <= phase[dl[a].dep]
  /\ \A a \in Deliverers : dl[a].at \in {"decide", "halt", "advance"} =>
       a = "supervisor" /\ dl[a].phase = phase[dl[a].dep]
  /\ \A a \in Deliverers, d \in Devices :
       task[a][d] = "queued" => wave[dl[a].dep][d] <= phase[dl[a].dep]

WaveInv == HoldersInv /\ JobsExist /\ JobsFresh /\ PhaseKnown /\ CohortBound

(* A device of a later wave is sent its command only after every device of *)
(* the earlier waves has its outcome, and few enough of them failed.       *)
CanaryPassed ==
  \A x \in sent :
    LET earlier == wave[x[1]][x[2]] - 1 IN
    earlier >= 0 => /\ Released(x[1], earlier) # {}
                    /\ Unfinished(x[1], earlier) = {}
                    /\ ~TooManyFailures(x[1], earlier)

(* Who holds a job: deliveries that have it queued or called for, and      *)
(* updates decided on, not yet written.  (The reaper holds `reaping'.)     *)
Delivering(dep, d) ==
  {a \in Deliverers : dl[a].dep = dep /\ task[a][d] \notin {"none", "done"}}
Deciding(dep, d) == {w \in writes : w.dep = dep /\ w.device = d}

(* Writes of a job do not look at the row again (ops.py:754, 769, 876,     *)
(* 1045, reaper.py:52): a second delivery, the reaper, a tick or a report  *)
(* can overwrite an outcome, but only one that held the job before it.     *)
(* Nobody takes up a job that is over, except a report that retries a      *)
(* failed one (transitions.py:23): once its holders are through with it,   *)
(* and no one retries it, its outcome is final.                            *)
OutcomeStays ==
  [][\A dep \in Deployments, d \in Devices : job[dep][d] \in TerminalDD =>
       /\ Delivering(dep, d)' \subseteq Delivering(dep, d)
       /\ <<dep, d>> \in reaping' => <<dep, d>> \in reaping
       /\ \A w \in Deciding(dep, d)' \ Deciding(dep, d) :
            job[dep][d] = "failure" /\ w.status = "pending"
       /\ job'[dep][d] # job[dep][d] =>
            Delivering(dep, d) # {} \/ Deciding(dep, d) # {} \/ <<dep, d>> \in reaping]_vars

(* A deployment's status changes along the table of transitions.py only.   *)
StatusTransitions ==
  [][\A dep \in Deployments :
       status'[dep] # status[dep] => status'[dep] \in DeploymentTransitions[status[dep]]]_vars

(* A finished deployment has an outcome for every one of its devices, and  *)
(* no delivery under way is about to send another command for it.          *)
FinishedMeansDone ==
  \A dep \in Deployments : status[dep] = "finished" =>
    /\ \A d \in Targets(dep) : job[dep][d] \in TerminalDD
    /\ \A a \in Deliverers : dl[a].dep = dep => \A d \in Devices : task[a][d] # "queued"

(* The agent is told of the end of a deployment at most once.              *)
NotifiedOnce == \A dep \in Deployments : notified[dep] <= 1

(* A job is a success, and the device's record names the version, only if  *)
(* the device committed that very version.                                 *)
SuccessMeansInstalled ==
  \A d \in Devices :
    /\ recorded[d] # None => <<recorded[d], d>> \in committed
    /\ \A dep \in Deployments : job[dep][d] = "success" => <<dep, d>> \in committed

(* A device is in one update at a time, whatever the deployments, unless   *)
(* someone had one of them delivered past the rate limit.                  *)
OneUpdateAtATime ==
  \A d \in Devices, dep, e \in Deployments :
    (dep # e /\ job[dep][d] \in InFlight /\ job[e][d] \in InFlight)
      => dep \in bypassed \/ e \in bypassed

(* Each deployment is a rollout of its version (Rollout).                  *)
OutcomeOf(s) == CASE s = "none"     -> "absent"
                  [] s = "pending"  -> "waiting"
                  [] s \in InFlight -> "trying"
                  [] s \in FailedDD -> "bad"
                  [] OTHER          -> "good"
RolloutOutcome(dep) == [d \in Devices |-> OutcomeOf(job[dep][d])]
R(dep) == INSTANCE Rollout WITH Threshold <- EffectiveThreshold, front <- phase[dep],
                                wave <- wave[dep], outcome <- RolloutOutcome(dep)
KeepsRollout ==
  /\ \A dep \in Deployments : R(dep)!Init
  /\ [][\A dep \in Deployments : [R(dep)!Next]_<<phase[dep], wave[dep], RolloutOutcome(dep)>>]_vars

(* A rollout under way ends, or is handed to an operator, even if no       *)
(* device ever answers, once its first phase holds a device.               *)
RolloutEnds ==
  \A dep \in Deployments :
    (status[dep] = "active" /\ Released(dep, 0) # {})
      ~> status[dep] \in {"finished", "aborted", "paused"}

(* An active rollout that has devices starts: it sends its first command.  *)
RolloutStarts ==
  \A dep \in Deployments :
    (status[dep] = "active" /\ Targets(dep) # {})
      ~> (\E d \in Devices : <<dep, d>> \in sent) \/ status[dep] # "active"

=============================================================================
