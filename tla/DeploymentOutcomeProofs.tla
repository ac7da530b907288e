---------------------- MODULE DeploymentOutcomeProofs ----------------------
(***************************************************************************)
(* Machine-checked proofs about the outcomes of Deployment: of its jobs,   *)
(* of a deployment's status and of the waves.  Most hold where deliveries  *)
(* take turns; each theorem names what it asks of the service.             *)
(***************************************************************************)
EXTENDS DeploymentProofs, FiniteSetTheorems

(* What the theorems ask: deliveries do not overlap (_deliver_wave is not  *)
(* entered twice), and jobs are moved by the fleet's results only, not by  *)
(* progress telemetry or report_device_status.                             *)
TakeTurns == ~Overlap
ResultsOnly == Operations \cap {"report", "progress"} = {}

-----------------------------------------------------------------------------
(* What a step does to the status of a job.                                *)
JobMove(dep, d) ==
  \/ job'[dep][d] = job[dep][d]
  \/ job[dep][d] = "none" /\ job'[dep][d] = "pending" /\ Targets(dep) = {}
  \/ \E a \in Deliverers : /\ Dispatch(a, d) /\ dl[a].dep = dep
                           /\ job'[dep][d] = "downloading" /\ age'[dep][d] = 0
  \/ \E a \in Deliverers : FleetFails(a, d) /\ dl[a].dep = dep /\ job'[dep][d] = "failure"
  \/ \E w \in writes : /\ ApplyWrite(w) /\ w.dep = dep /\ w.device = d
                       /\ job'[dep][d] = w.status /\ age'[dep][d] = 0
  \/ \E x \in reaping : /\ ReaperWrite(x) /\ x = <<dep, d>> /\ job'[dep][d] = "timed_out"
  \/ \E c \in Callers : /\ AbortJobs(c) /\ call[c].dep = dep /\ job'[dep][d] = "aborted"
                        /\ job[dep][d] \in InFlight \cup {"pending"}

LEMMA JobMoves ==
  ASSUME WaveIInv, [Next]_vars, NEW dep \in Deployments, NEW d \in Devices
  PROVE  JobMove(dep, d)
<1>1. JobsOK /\ DeliveryOK /\ HandlersOK /\ HoldersInv /\ JobsExist /\ JobsFresh
  BY DEF WaveIInv, Typed, TypeOK
<1>2. CASE UNCHANGED job
  BY <1>2 DEF JobMove
<1>3. ASSUME NEW e \in Deployments, NEW t \in SUBSET Devices, InsertJobs(e, t), Targets(e) = {}
      PROVE  JobMove(dep, d)
  <2>1. CASE dep # e
    BY <1>1, <1>3, <2>1 DEF InsertJobs, JobMove, JobsOK
  <2>2. CASE dep = e
    <3>1. job[dep][d] = "none"
      BY <1>3, <2>2 DEF Targets
    <3>2. job'[dep][d] = IF d \in t THEN "pending" ELSE job[dep][d]
      BY <1>1, <1>3, <2>2 DEF InsertJobs, JobsOK
    <3> QED
      BY <1>3, <2>2, <3>1, <3>2 DEF JobMove
  <2> QED
    BY <2>1, <2>2
<1>4. ASSUME NEW e \in Deployments, NEW t \in SUBSET Devices, CreateJobs(e, t)
      PROVE  JobMove(dep, d)
  <2>1. InsertJobs(e, t) /\ Targets(e) = {}
    BY <1>1, <1>4 DEF CreateJobs, JobsFresh
  <2> QED
    BY <1>3, <2>1
<1>5. ASSUME NEW t \in SUBSET Devices, Materialize(t) PROVE JobMove(dep, d)
  <2>1. CASE UNCHANGED jobs
    BY <1>2, <2>1 DEF jobs
  <2>2. CASE Step("poller", "materialize", "row") /\ InsertJobs(dl["poller"].dep, t)
    <3>1. "poller" \in Deliverers /\ dl["poller"].at = "materialize"
      BY <1>5, <2>2 DEF Materialize, Step
    <3>2. dl["poller"].dep \in Deployments /\ Targets(dl["poller"].dep) = {}
      BY <1>1, <3>1 DEF HoldersInv, JobsFresh
    <3> QED
      BY <1>3, <2>2, <3>2
  <2> QED
    BY <1>5, <2>1, <2>2, Zenon DEF Materialize
<1>6. ASSUME NEW e \in Deployments, NEW f \in Devices, NEW s, SetJob(e, f, s)
      PROVE  \/ UNCHANGED job[dep][d]
             \/ dep = e /\ d = f /\ job'[dep][d] = s /\ age'[dep][d] = 0
  BY <1>1, <1>6 DEF SetJob, JobsOK
<1>7. ASSUME NEW a \in Deliverers, NEW f \in Devices, Dispatch(a, f) PROVE JobMove(dep, d)
  <2>1. dl[a].dep \in Deployments /\ SetJob(dl[a].dep, f, "downloading")
    BY <1>1, <1>7 DEF Dispatch, HoldersInv
  <2> QED
    BY <1>6, <1>7, <2>1 DEF JobMove
<1>8. ASSUME NEW a \in Deliverers, NEW f \in Devices, FleetFails(a, f) PROVE JobMove(dep, d)
  <2>1. task[a][f] # "none" /\ SetJob(dl[a].dep, f, "failure")
    BY <1>8 DEF FleetFails
  <2>2. dl[a].dep \in Deployments
    BY <1>1, <2>1, TaskHolds
  <2> QED
    BY <1>6, <1>8, <2>1, <2>2 DEF JobMove
<1>9. ASSUME NEW w \in writes, ApplyWrite(w) PROVE JobMove(dep, d)
  <2>1. w.dep \in Deployments /\ w.device \in Devices
    BY <1>1 DEF HandlersOK
  <2>2. SetJob(w.dep, w.device,
               IF w.status = "touch" THEN job[w.dep][w.device] ELSE w.status)
    BY <1>9, Zenon DEF ApplyWrite
  <2>3. \/ UNCHANGED job[dep][d]
        \/ dep = w.dep /\ d = w.device /\ job'[dep][d] = w.status /\ age'[dep][d] = 0
    BY <1>6, <2>1, <2>2
  <2> QED
    BY <1>9, <2>3 DEF JobMove
<1>10. ASSUME NEW x \in reaping, ReaperWrite(x) PROVE JobMove(dep, d)
  <2>1. x[1] \in Deployments /\ x[2] \in Devices /\ x = <<x[1], x[2]>>
    BY <1>1 DEF HandlersOK
  <2>2. SetJob(x[1], x[2], "timed_out")
    BY <1>10 DEF ReaperWrite
  <2> QED
    BY <1>6, <1>10, <2>1, <2>2 DEF JobMove
<1>11. ASSUME NEW c \in Callers, AbortJobs(c) PROVE JobMove(dep, d)
  BY <1>1, <1>11 DEF AbortJobs, JobMove, JobsOK
<1>12. ASSUME NEW e \in Deployments, NEW f \in Devices, JobAges(e, f) PROVE JobMove(dep, d)
  BY <1>2, <1>12 DEF JobAges
<1> QED
  BY <1>2, <1>4, <1>5, <1>7, <1>8, <1>9, <1>10, <1>11, <1>12, JobWriters, Zenon

(* What a step does to the age of a job.                                   *)
LEMMA AgeMoves ==
  ASSUME Typed, [Next]_vars, NEW dep \in Deployments, NEW d \in Devices
  PROVE  \/ age'[dep][d] = age[dep][d] \/ age'[dep][d] = 0
         \/ /\ JobAges(dep, d) /\ UNCHANGED job
            /\ age'[dep][d] = age[dep][d] + 1
<1>1. JobsOK /\ DeliveryOK /\ HandlersOK /\ HoldersInv
  BY DEF Typed, TypeOK
<1>2. ASSUME NEW e, NEW f, NEW s, SetJob(e, f, s)
      PROVE  age'[dep][d] = age[dep][d] \/ age'[dep][d] = 0
  BY <1>1, <1>2 DEF SetJob, JobsOK
<1>3. CASE UNCHANGED age
  BY <1>3
<1>4. ASSUME NEW t \in SUBSET Devices, Materialize(t) PROVE UNCHANGED age
  BY <1>4, Zenon DEF Materialize, InsertJobs, jobs
<1>5. ASSUME NEW e \in Deployments, NEW f \in Devices, JobAges(e, f)
      PROVE  \/ age'[dep][d] = age[dep][d]
             \/ /\ JobAges(dep, d) /\ UNCHANGED job
                /\ age'[dep][d] = age[dep][d] + 1
  BY <1>1, <1>5 DEF JobAges, JobsOK
<1> QED
  BY <1>2, <1>3, <1>4, <1>5, JobWriters, Zenon
     DEF CreateJobs, InsertJobs, Dispatch, FleetFails, ApplyWrite, ReaperWrite, AbortJobs

(* Who writes what the webhooks and the recomputes keep.                   *)
LEMMA WritesWriters ==
  ASSUME [Next]_vars
  PROVE  \/ UNCHANGED writes
         \/ \E r \in reports : ReceiveResult(r)
         \/ \E w \in writes : ApplyWrite(w)
         \/ Telemetry
         \/ \E dep \in Deployments, d \in Devices, s \in JobStatus : ReportStatus(dep, d, s)
<1> USE DEF handlers
<1>1. CASE JobWrites \/ ReaperSteps \/ Creation
  BY <1>1, Zenon DEF JobWrites, RecomputeRead, RecomputeSwap, ReaperSteps, ReaperSelect,
    ReaperWrite, Creation, CreateJobs, CreateFails
<1>2. CASE Tools
  BY <1>2, Zenon DEF Tools, StarterPick, ToolRead, AbortStatus, AbortJobs, Resume,
    DashboardOverride, QuietHandlers
<1> QED
  BY <1>1, <1>2, HandlerWriters, Zenon DEF EndDelivery

(* A write is decided on for a job that is not over, or retries a failure. *)
LEMMA DecidedOn ==
  ASSUME [Next]_vars, NEW w \in writes', w \notin writes
  PROVE  \/ job[w.dep][w.device] \notin TerminalDD \cup {"none"}
         \/ job[w.dep][w.device] = "failure" /\ w.status = "pending"
<1>1. ASSUME NEW v \in writes, ApplyWrite(v) PROVE FALSE
  BY <1>1 DEF ApplyWrite
<1>2. ASSUME NEW r \in reports, ReceiveResult(r)
      PROVE  job[w.dep][w.device] \notin TerminalDD \cup {"none"}
  <2>1. PICK dep \in FindActiveJob(r.device, r.version) :
          writes' = writes \cup {[dep |-> dep, device |-> r.device, status |-> r.status]}
    BY <1>2 DEF ReceiveResult
  <2>2. dep \in ActiveJobs(r.device) /\ w = [dep |-> dep, device |-> r.device, status |-> r.status]
    BY <2>1 DEF FindActiveJob
  <2> QED
    BY <2>2 DEF ActiveJobs
<1>3. CASE Telemetry
  <2>1. PICK d \in Devices, stage \in InFlight : ReceiveProgress(d, stage)
    BY <1>3 DEF Telemetry
  <2>2. PICK dep \in FindActiveJob(d, updating[d]) :
          writes' = writes \cup {[dep |-> dep, device |-> d,
                                  status |-> IF stage = job[dep][d] THEN "touch" ELSE stage]}
    BY <2>1 DEF ReceiveProgress
  <2>3. dep \in ActiveJobs(d) /\ w.dep = dep /\ w.device = d
    BY <2>2 DEF FindActiveJob
  <2> QED
    BY <2>3 DEF ActiveJobs
<1>4. ASSUME NEW dep \in Deployments, NEW d \in Devices, NEW s \in JobStatus,
             ReportStatus(dep, d, s)
      PROVE  \/ job[w.dep][w.device] \notin TerminalDD \cup {"none"}
             \/ job[w.dep][w.device] = "failure" /\ w.status = "pending"
  <2>1. w = [dep |-> dep, device |-> d, status |-> s] /\ s \in JobTransitions(job[dep][d])
    BY <1>4 DEF ReportStatus
  <2> QED
    BY <2>1 DEF JobTransitions, TerminalDD
<1> QED
  BY <1>1, <1>2, <1>3, <1>4, WritesWriters

(* Who takes an update up, and who answers for it.                         *)
LEMMA FleetWriters ==
  ASSUME [Next]_vars
  PROVE  \/ UNCHANGED <<updating, reports, committed>>
         \/ \E a \in Deliverers, d \in Devices : FleetDelivers(a, d)
         \/ \E d \in Devices : DeviceCommits(d) \/ DeviceRollsBack(d) \/ DeviceSilent(d)
         \/ \E r \in reports : ReceiveResult(r) \/ LoseReport(r)
<1> USE DEF fleet, past
<1>1. CASE PollerSteps \/ SupervisorSteps \/ Telemetry \/ UNCHANGED vars
  BY <1>1, Zenon DEF PollerSteps, PollerPick, Materialize, SupervisorSteps, SupervisorPick,
    Decide, Halt, Advance, Telemetry, ReceiveProgress, vars
<1>2. CASE \E a \in Deliverers : DeliverySteps(a)
  <2>1. PICK a \in Deliverers : DeliverySteps(a)
    BY <1>2
  <2>2. CASE ReadRow(a) \/ Activate(a) \/ Select(a)
    BY <2>2, Zenon DEF ReadRow, Activate, Select
  <2>3. CASE SelectNothing(a) \/ EndDelivery(a)
    BY <2>3, Zenon DEF SelectNothing, EndDelivery
  <2>4. CASE \E d \in Devices : Dispatch(a, d) \/ FleetDelivers(a, d)
                           \/ FleetAnswers(a, d) \/ FleetFails(a, d)
    BY <2>4, Zenon DEF Dispatch, FleetAnswers, FleetFails
  <2> QED
    BY <2>1, <2>2, <2>3, <2>4, Zenon DEF DeliverySteps
<1>3. CASE (\E d \in Devices : DeviceSteps(d)) \/ ReportSteps
  BY <1>3, Zenon DEF DeviceSteps, ReportSteps
<1>4. CASE JobWrites \/ ReaperSteps \/ Creation
  BY <1>4, Zenon DEF JobWrites, ApplyWrite, RecomputeRead, RecomputeSwap, ReaperSteps,
    ReaperSelect, ReaperWrite, Creation, CreateJobs, CreateFails
<1>5. CASE Tools \/ Clock
  BY <1>5, Zenon DEF Tools, StarterPick, ReportStatus, ToolRead, AbortStatus, AbortJobs, Resume,
    DashboardOverride, Clock, SoakElapses, JobAges
<1> QED
  BY <1>1, <1>2, <1>3, <1>4, <1>5, Zenon DEF Next

(* A write that is decided on is the result of a report.                   *)
LEMMA OnlyResults ==
  ASSUME ResultsOnly, [Next]_vars, NEW w \in writes', w \notin writes
  PROVE  \E r \in reports : /\ ReceiveResult(r)
                            /\ w \in [dep : FindActiveJob(r.device, r.version),
                                      device : {r.device}, status : {r.status}]
<1>1. "report" \notin Operations /\ "progress" \notin Operations
  BY DEF ResultsOnly
<1>2. PICK r \in reports : ReceiveResult(r)
  BY <1>1, WritesWriters, Zenon DEF Telemetry, ReceiveProgress, ReportStatus, ApplyWrite
<1>3. PICK dep \in FindActiveJob(r.device, r.version) :
        writes' = writes \cup {[dep |-> dep, device |-> r.device, status |-> r.status]}
  BY <1>2 DEF ReceiveResult
<1> QED
  BY <1>2, <1>3

-----------------------------------------------------------------------------
(* Deliveries take turns: one begins when every deliverer is idle.         *)
OneDelivery ==
  \A a, b \in Deliverers : dl[a].at # "idle" /\ dl[b].at # "idle" => a = b

LEMMA DeliveryBegins ==
  ASSUME Typed, TakeTurns, [Next]_vars, NEW a \in Deliverers, dl[a].at = "idle", dl'[a].at # "idle"
  PROVE  \A b \in Deliverers : dl[b].at = "idle" /\ (b # a => dl'[b] = dl[b])
<1>1. DeliveryOK /\ ~Overlap
  BY DEF Typed, TypeOK, TakeTurns
<1>2. ASSUME NEW b \in Deliverers, Free(b), \A c \in Deliverers : c # b => dl'[c] = dl[c]
      PROVE  \A c \in Deliverers : dl[c].at = "idle" /\ (c # a => dl'[c] = dl[c])
  BY <1>1, <1>2 DEF Free
<1>3. ASSUME NEW dep \in Deployments, PollerPick(dep)
      PROVE  /\ "poller" \in Deliverers /\ Free("poller")
             /\ \A c \in Deliverers : c # "poller" => dl'[c] = dl[c]
  BY <1>1, <1>3 DEF PollerPick, DeliveryOK
<1>4. ASSUME NEW dep \in Deployments, SupervisorPick(dep)
      PROVE  /\ "supervisor" \in Deliverers /\ Free("supervisor")
             /\ \A c \in Deliverers : c # "supervisor" => dl'[c] = dl[c]
  BY <1>1, <1>4 DEF SupervisorPick, DeliveryOK
<1>5. ASSUME NEW dep \in Deployments, NEW force \in BOOLEAN, StarterPick(dep, force)
      PROVE  /\ "starter" \in Deliverers /\ Free("starter")
             /\ \A c \in Deliverers : c # "starter" => dl'[c] = dl[c]
  BY <1>1, <1>5 DEF StarterPick, DeliveryOK
<1>6. ASSUME NEW b \in Deliverers, dl[b].at # "idle",
             \A c \in Deliverers : c # b => dl'[c] = dl[c]
      PROVE  FALSE
  BY <1>6
<1>7. ASSUME NEW b \in Deliverers, NEW from, from # "idle", NEW r, dl[b].at = from,
             dl' = [dl EXCEPT ![b] = r]
      PROVE  FALSE
  BY <1>1, <1>7 DEF DeliveryOK
<1>8. ASSUME NEW b \in Deliverers, NEW from, from # "idle", NEW to,
             Stop(b, from) \/ Step(b, from, to)
      PROVE  FALSE
  BY <1>1, <1>7, <1>8, Zenon DEF Stop, Step
<1>9. CASE PollerSteps
  <2>1. ASSUME NEW t \in SUBSET Devices, Materialize(t) PROVE FALSE
    BY <1>8, <2>1 DEF Materialize
  <2> QED
    BY <1>2, <1>3, <1>9, <2>1, Zenon DEF PollerSteps
<1>10. CASE SupervisorSteps
  <2>1. ~Halt
    BY <1>8 DEF Halt
  <2>2. ~Decide
    <3>1. ASSUME Decide PROVE FALSE
      <4>1. "supervisor" \in Deliverers /\ dl["supervisor"].at = "decide"
        BY <3>1 DEF Decide
      <4>2. \E to : Stop("supervisor", "decide") \/ Step("supervisor", "decide", to)
        BY <3>1, Zenon DEF Decide
      <4> QED
        BY <1>8, <4>1, <4>2
    <3> QED
      BY <3>1
  <2>3. ~Advance
    <3>1. ASSUME Advance PROVE FALSE
      <4>1. /\ "supervisor" \in Deliverers /\ dl["supervisor"].at # "idle"
            /\ \A c \in Deliverers : c # "supervisor" => dl'[c] = dl[c]
        BY <1>1, <3>1 DEF Advance, DeliveryOK
      <4> QED
        BY <1>6, <4>1
    <3> QED
      BY <3>1
  <2> QED
    BY <1>2, <1>4, <1>10, <2>1, <2>2, <2>3, Zenon DEF SupervisorSteps
<1>11. ASSUME NEW b \in Deliverers, DeliverySteps(b) PROVE FALSE
  <2>1. CASE ReadRow(b)
    <3>1. dl[b].at # "idle" /\ \A c \in Deliverers : c # b => dl'[c] = dl[c]
      BY <1>1, <2>1 DEF ReadRow, Stop, DeliveryOK
    <3> QED
      BY <1>6, <3>1
  <2>2. CASE Activate(b) \/ SelectNothing(b) \/ EndDelivery(b)
    BY <1>8, <2>2 DEF Activate, SelectNothing, EndDelivery
  <2>3. CASE Select(b)
    <3>1. dl[b].at # "idle" /\ \A c \in Deliverers : c # b => dl'[c] = dl[c]
      BY <1>1, <2>3 DEF Select, DeliveryOK
    <3> QED
      BY <1>6, <3>1
  <2>4. ASSUME NEW d \in Devices,
               Dispatch(b, d) \/ FleetDelivers(b, d) \/ FleetAnswers(b, d) \/ FleetFails(b, d)
        PROVE  FALSE
    <3>1. task[b][d] # "none"
      BY <2>4 DEF Dispatch, FleetDelivers, FleetAnswers, FleetFails
    <3>2. dl[b].at # "idle"
      BY <3>1, TaskHolds DEF Typed
    <3>3. \A c \in Deliverers : c # b => dl'[c] = dl[c]
      BY <1>1, <2>4 DEF Dispatch, FleetDelivers, FleetAnswers, FleetFails, DeliveryOK
    <3> QED
      BY <1>6, <3>2, <3>3
  <2> QED
    BY <1>11, <2>1, <2>2, <2>3, <2>4, Zenon DEF DeliverySteps
<1>12. CASE UNCHANGED dl
  BY <1>12
<1> QED
  BY <1>2, <1>5, <1>9, <1>10, <1>11, <1>12, DeliveryWriters, Zenon

LEMMA OneDeliveryStep ==
  ASSUME WaveIInv, TakeTurns, OneDelivery, [Next]_vars PROVE OneDelivery'
<1> SUFFICES ASSUME NEW a \in Deliverers, NEW b \in Deliverers,
                    dl'[a].at # "idle", dl'[b].at # "idle"
             PROVE  a = b
  BY DEF OneDelivery
<1>1. Typed
  BY DEF WaveIInv
<1>2. CASE dl[a].at # "idle" /\ dl[b].at # "idle"
  BY <1>2 DEF OneDelivery
<1>3. CASE dl[a].at = "idle"
  BY <1>1, <1>3, DeliveryBegins
<1>4. CASE dl[b].at = "idle"
  BY <1>1, <1>4, DeliveryBegins
<1> QED
  BY <1>2, <1>3, <1>4

LEMMA InitOneDelivery == Init => OneDelivery
<1> SUFFICES ASSUME Init PROVE OneDelivery
  OBVIOUS
<1>1. dl = [a \in Deliverers |-> Idle]
  BY DEF Init
<1> QED
  BY <1>1 DEF OneDelivery, Idle

(* Tasks belong to the one delivery.                                       *)
LEMMA TasksTogether ==
  ASSUME Typed, OneDelivery, NEW a \in Deliverers, NEW b \in Deliverers, NEW d, NEW e,
         d \in Devices, e \in Devices, task[a][d] # "none", task[b][e] # "none"
  PROVE  a = b
<1>1. dl[a].at = "deliver" /\ dl[b].at = "deliver"
  BY TaskHolds DEF Typed
<1> QED
  BY <1>1 DEF OneDelivery

-----------------------------------------------------------------------------
(* A device is in one update at a time.  A job in flight is younger than   *)
(* the rate limit, so a selection within the limit finds no other update   *)
(* of the device, and while its delivery lasts no other one dispatches.    *)
Results == \A w \in writes : w.status \in {"success", "failure"}
Young == \A dep \in Deployments, d \in Devices : job[dep][d] \in InFlight => age[dep][d] <= 1
QueuedAlone ==
  \A a \in Deliverers, d \in Devices :
    task[a][d] = "queued" /\ dl[a].dep \notin bypassed =>
      \A e \in Deployments \ {dl[a].dep} : job[e][d] \notin InFlight

TurnInv == WaveIInv /\ OneDelivery /\ Results /\ Young /\ QueuedAlone /\ OneUpdateAtATime

LEMMA InitTurn == Init => TurnInv
<1> SUFFICES ASSUME Init PROVE TurnInv
  OBVIOUS
<1>1. /\ writes = {} /\ task = [a \in Deliverers |-> NoTask]
      /\ \A dep \in Deployments, d \in Devices : job[dep][d] \in {"none", "pending"}
  BY DEF Init
<1>2. Results /\ Young /\ QueuedAlone /\ OneUpdateAtATime
  BY <1>1 DEF Results, Young, QueuedAlone, OneUpdateAtATime, NoTask, InFlight
<1> QED
  BY <1>2, InitWave, InitOneDelivery DEF TurnInv

LEMMA ResultsStep ==
  ASSUME WaveIInv, ResultsOnly, Results, [Next]_vars PROVE Results'
<1> SUFFICES ASSUME NEW w \in writes' PROVE w.status \in {"success", "failure"}
  BY DEF Results
<1>1. CASE w \in writes
  BY <1>1 DEF Results
<1>2. CASE w \notin writes
  <2>1. PICK r \in reports : w \in [dep : FindActiveJob(r.device, r.version),
                                    device : {r.device}, status : {r.status}]
    BY <1>2, OnlyResults
  <2>2. r.status \in {"success", "failure"}
    BY DEF WaveIInv, Typed, TypeOK, FleetOK
  <2> QED
    BY <2>1, <2>2
<1> QED
  BY <1>1, <1>2

(* A job is in flight from its dispatch on.                                *)
LEMMA FlightBegins ==
  ASSUME WaveIInv, Results, [Next]_vars, NEW dep \in Deployments, NEW d \in Devices,
         job'[dep][d] \in InFlight
  PROVE  \/ job'[dep][d] = job[dep][d]
         \/ /\ age'[dep][d] = 0
            /\ \E a \in Deliverers : Dispatch(a, d) /\ dl[a].dep = dep /\ task[a][d] = "queued"
<1>1. \A s \in {"success", "failure", "timed_out", "aborted", "pending"} : s \notin InFlight
  BY DEF InFlight
<1>2. \A a \in Deliverers : Dispatch(a, d) => task[a][d] = "queued"
  BY DEF Dispatch
<1> QED
  BY <1>1, <1>2, JobMoves DEF JobMove, Results

LEMMA YoungStep ==
  ASSUME WaveIInv, Results, Young, [Next]_vars PROVE Young'
<1> SUFFICES ASSUME NEW dep \in Deployments, NEW d \in Devices, job'[dep][d] \in InFlight
             PROVE  age'[dep][d] <= 1
  BY DEF Young
<1>1. Typed /\ JobsOK
  BY DEF WaveIInv, Typed, TypeOK
<1>2. CASE job'[dep][d] = job[dep][d]
  <2>1. age[dep][d] <= 1 /\ age[dep][d] \in 0..2
    BY <1>1, <1>2 DEF Young, JobsOK
  <2>2. JobAges(dep, d) => age[dep][d] = 0
    BY <1>2 DEF JobAges
  <2> QED
    BY <1>1, <2>1, <2>2, AgeMoves
<1>3. CASE age'[dep][d] = 0
  BY <1>3
<1> QED
  BY <1>2, <1>3, FlightBegins

LEMMA BypassedGrows ==
  ASSUME [Next]_vars PROVE bypassed \subseteq bypassed'
<1> USE DEF past
<1>1. CASE PollerSteps \/ SupervisorSteps \/ Telemetry \/ ReportSteps \/ UNCHANGED vars
  BY <1>1, Zenon DEF PollerSteps, PollerPick, Materialize, SupervisorSteps, SupervisorPick,
    Decide, Halt, Advance, Telemetry, ReceiveProgress, ReportSteps, ReceiveResult, LoseReport,
    vars
<1>2. CASE \E a \in Deliverers : DeliverySteps(a)
  <2>1. PICK a \in Deliverers : DeliverySteps(a)
    BY <1>2
  <2>2. CASE ReadRow(a) \/ Activate(a)
    BY <2>2, Zenon DEF ReadRow, Activate
  <2>2a. CASE Select(a)
    BY <2>2a DEF Select
  <2>3. CASE SelectNothing(a) \/ EndDelivery(a)
    BY <2>3, Zenon DEF SelectNothing, EndDelivery
  <2>4. CASE \E d \in Devices : Dispatch(a, d) \/ FleetDelivers(a, d)
                           \/ FleetAnswers(a, d) \/ FleetFails(a, d)
    BY <2>4, Zenon DEF Dispatch, FleetDelivers, FleetAnswers, FleetFails
  <2> QED
    BY <2>1, <2>2, <2>2a, <2>3, <2>4, Zenon DEF DeliverySteps
<1>3. CASE (\E d \in Devices : DeviceSteps(d)) \/ JobWrites \/ ReaperSteps \/ Creation
  BY <1>3, Zenon DEF DeviceSteps, DeviceCommits, DeviceRollsBack, DeviceSilent, JobWrites,
    ApplyWrite, RecomputeRead, RecomputeSwap, ReaperSteps, ReaperSelect, ReaperWrite, Creation,
    CreateJobs, CreateFails
<1>4. CASE Tools \/ Clock
  BY <1>4, Zenon DEF Tools, StarterPick, ReportStatus, ToolRead, AbortStatus, AbortJobs, Resume,
    DashboardOverride, Clock, SoakElapses, JobAges
<1> QED
  BY <1>1, <1>2, <1>3, <1>4, Zenon DEF Next

(* What is selected within the limit is in no other update.                *)
LEMMA SelectsAlone ==
  ASSUME WaveIInv, Young, NEW a \in Deliverers, NEW d \in Devices, Select(a),
         task'[a][d] = "queued", dl[a].dep \notin bypassed'
  PROVE  \A e \in Deployments \ {dl[a].dep} : job'[e][d] \notin InFlight
<1>1. DeliveryOK /\ JobsOK
  BY DEF WaveIInv, Typed, TypeOK
<1> DEFINE dep == dl[a].dep
           waiting == Waiting(dep, dl[a].phase)
           limited == IF Bypass(a) THEN {} ELSE {c \in waiting : RateLimited(dep, c)}
<1>2. ~Bypass(a)
  BY DEF Select
<1>3. task' = [task EXCEPT ![a] =
                 [c \in Devices |-> IF c \in waiting \ limited THEN "queued" ELSE "none"]]
  BY DEF Select
<1>4. d \in waiting \ limited
  <2> HIDE DEF waiting, limited
  <2> QED
    BY <1>1, <1>3 DEF DeliveryOK
<1>5. ~RateLimited(dep, d)
  BY <1>2, <1>4
<1>6. job' = job
  BY DEF Select, jobs
<1>7. ASSUME NEW e \in Deployments \ {dl[a].dep}, job[e][d] \in InFlight PROVE FALSE
  <2>1. ~(age[e][d] < 2)
    BY <1>5, <1>7 DEF RateLimited, InFlight
  <2>2. age[e][d] <= 1 /\ age[e][d] \in 0..2
    BY <1>1, <1>7 DEF Young, JobsOK
  <2> QED
    BY <2>1, <2>2
<1> QED
  BY <1>6, <1>7

LEMMA QueuedAloneStep ==
  ASSUME TurnInv, [Next]_vars PROVE QueuedAlone'
<1> SUFFICES ASSUME NEW a \in Deliverers, NEW d \in Devices, task'[a][d] = "queued",
                    dl'[a].dep \notin bypassed', NEW e \in Deployments \ {dl'[a].dep}
             PROVE  job'[e][d] \notin InFlight
  BY DEF QueuedAlone
<1>1. WaveIInv /\ Typed /\ OneDelivery /\ Results /\ Young /\ QueuedAlone
  BY DEF TurnInv, WaveIInv
<1>2. /\ dl'[a].dep = dl[a].dep
      /\ task[a][d] = "queued" \/ Select(a)
  BY <1>1, TaskMoves DEF SameRow
<1>3. CASE task[a][d] = "queued"
  <2>1. job[e][d] \notin InFlight
    BY <1>1, <1>2, <1>3, BypassedGrows DEF QueuedAlone
  <2>2. ASSUME NEW b \in Deliverers, dl[b].dep = e, task[b][d] = "queued" PROVE FALSE
    BY <1>1, <1>2, <1>3, <2>2, TasksTogether
  <2> QED
    BY <1>1, <2>1, <2>2, FlightBegins
<1>4. CASE Select(a)
  BY <1>1, <1>2, <1>4, SelectsAlone
<1> QED
  BY <1>2, <1>3, <1>4

LEMMA OneUpdateStep ==
  ASSUME TurnInv, [Next]_vars PROVE OneUpdateAtATime'
<1> SUFFICES ASSUME NEW d \in Devices, NEW dep \in Deployments, NEW e \in Deployments, dep # e,
                    job'[dep][d] \in InFlight, job'[e][d] \in InFlight
             PROVE  dep \in bypassed' \/ e \in bypassed'
  BY DEF OneUpdateAtATime
<1>1. WaveIInv /\ Typed /\ OneDelivery /\ Results /\ QueuedAlone /\ OneUpdateAtATime
  BY DEF TurnInv, WaveIInv
<1> DEFINE Starts(x) == \E a \in Deliverers : dl[a].dep = x /\ task[a][d] = "queued"
<1>2. job'[dep][d] = job[dep][d] \/ Starts(dep)
  BY <1>1, FlightBegins
<1>3. job'[e][d] = job[e][d] \/ Starts(e)
  BY <1>1, FlightBegins
<1>4. ASSUME NEW a \in Deliverers, NEW b \in Deliverers, task[a][d] = "queued",
             task[b][d] = "queued"
      PROVE  dl[a].dep = dl[b].dep
  BY <1>1, <1>4, TasksTogether
<1>5. \A x, y \in Deployments :
        x # y /\ Starts(x) /\ job[y][d] \in InFlight => x \in bypassed
  <2> SUFFICES ASSUME NEW x \in Deployments, NEW y \in Deployments, x # y,
                      NEW a \in Deliverers, dl[a].dep = x, task[a][d] = "queued",
                      job[y][d] \in InFlight
               PROVE  x \in bypassed
    OBVIOUS
  <2> QED
    BY <1>1, Zenon DEF QueuedAlone
<1>6. dep \in bypassed \/ e \in bypassed
  <2>1. CASE job'[dep][d] = job[dep][d] /\ job'[e][d] = job[e][d]
    BY <1>1, <2>1 DEF OneUpdateAtATime
  <2> QED
    BY <1>2, <1>3, <1>4, <1>5, <2>1
<1> QED
  BY <1>6, BypassedGrows, Zenon

(* For any fleet, deployments, waves and rate limit: where deliveries take *)
(* turns and only results move jobs, a device is in one update at a time   *)
(* unless someone had one of them delivered past the rate limit.           *)
THEOREM UpdatesTakeTurns ==
  ASSUME TakeTurns, ResultsOnly PROVE Spec => []OneUpdateAtATime
<1>1. TurnInv /\ [Next]_vars => TurnInv'
  <2> SUFFICES ASSUME TurnInv, [Next]_vars PROVE TurnInv'
    OBVIOUS
  <2>1. WaveIInv /\ OneDelivery /\ Results /\ Young
    BY DEF TurnInv
  <2>2. WaveIInv'
    BY <2>1, WaveStep
  <2>3. OneDelivery' /\ Results' /\ Young'
    BY <2>1, OneDeliveryStep, ResultsStep, YoungStep
  <2> QED
    BY <2>2, <2>3, QueuedAloneStep, OneUpdateStep DEF TurnInv
<1>2. TurnInv => OneUpdateAtATime
  BY DEF TurnInv
<1> QED
  BY InitTurn, <1>1, <1>2, PTL DEF Spec

-----------------------------------------------------------------------------
(* A steady service: deliveries take turns, only results move jobs, no     *)
(* abort, and a result is credited to the job it answers, as the device is *)
(* in one deployment or versions match and a job is in flight till then.   *)
OneDeployment == \A dep, e \in Deployments : dep = e
Untimed == MaxAge = 0 /\ ~AcksLost
Exact == OneDeployment \/ (WireVersions /\ Untimed)
Steady == TakeTurns /\ ResultsOnly /\ "abort" \notin Operations /\ Exact

(* The answer to a command: with the device, on its way, or to be written. *)
Has(dep, d) == updating[d] = dep
Reported(dep, d) == \E r \in reports : r.device = d /\ r.version = dep
Written(dep, d) == \E w \in writes : w.dep = dep /\ w.device = d
Out(dep, d) == Has(dep, d) \/ Reported(dep, d) \/ Written(dep, d)

NoAborts == \A c \in Callers : call[c].at \in {"idle", "resume"}

(* What is sent is under way; what is queued still waits.                  *)
Commanded ==
  /\ \A x \in sent \cup reaping : job[x[1]][x[2]] \notin {"none", "pending"}
  /\ \A dep \in Deployments, d \in Devices : Out(dep, d) => <<dep, d>> \in sent
  /\ \A a \in Deliverers, d \in Devices :
       task[a][d] = "queued" => job[dl[a].dep][d] = "pending"
  /\ \A a \in Deliverers, d \in Devices :
       task[a][d] \in {"calling", "received"} => <<dl[a].dep, d>> \in sent

(* A command has one answer, which nobody has before the call or after the *)
(* success it brings.                                                      *)
AnsweredOnce ==
  /\ \A a \in Deliverers, d \in Devices : task[a][d] = "calling" =>
       ~Out(dl[a].dep, d) /\ job[dl[a].dep][d] # "success"
  /\ \A dep \in Deployments, d \in Devices :
       /\ Has(dep, d) => ~Reported(dep, d) /\ ~Written(dep, d)
       /\ Reported(dep, d) => ~Written(dep, d)
       /\ job[dep][d] = "success" => ~Out(dep, d)
  /\ \A r, q \in reports : r.device = q.device /\ r.version = q.version => r = q
  /\ \A w, v \in writes : w.device = v.device /\ w.dep = v.dep => w = v

(* Where no job times out, a job is in flight until its answer is written. *)
Timely ==
  /\ MaxAge = 0 => reaping = {} /\ \A dep \in Deployments, d \in Devices : age[dep][d] = 0
  /\ Untimed => \A dep \in Deployments, d \in Devices : Out(dep, d) => job[dep][d] \in InFlight
  /\ Untimed => \A a \in Deliverers, d \in Devices :
       task[a][d] = "calling" => job[dl[a].dep][d] \in InFlight

(* What is over stays over: a deployment whose jobs have their outcomes.   *)
AllDone(dep) == Targets(dep) # {} /\ \A d \in Targets(dep) : job[dep][d] \in TerminalDD
DoneStays ==
  /\ \A s \in swaps : AllDone(s.dep)
  /\ \A dep \in Deployments : status[dep] = "finished" => AllDone(dep)

SteadyInv == /\ WaveIInv /\ OneDelivery /\ Results /\ NoAborts
             /\ Commanded /\ AnsweredOnce /\ Timely /\ DoneStays

LEMMA InitSteady == Init => SteadyInv
<1> SUFFICES ASSUME Init PROVE SteadyInv
  OBVIOUS
<1>1. /\ writes = {} /\ reports = {} /\ sent = {} /\ reaping = {} /\ swaps = {}
      /\ task = [a \in Deliverers |-> NoTask] /\ call = [c \in Callers |-> NoCall]
      /\ updating = [d \in Devices |-> None]
      /\ age = [dep \in Deployments |-> [d \in Devices |-> 0]]
      /\ \A dep \in Deployments : status[dep] # "finished"
      /\ \A dep \in Deployments, d \in Devices : job[dep][d] \in {"none", "pending"}
  BY DEF Init
<1>2. \A dep \in Deployments, d \in Devices : ~Out(dep, d)
  BY <1>1, DeploymentAssumption DEF Out, Has, Reported, Written
<1>3. \A a \in Deliverers, d \in Devices : task[a][d] = "none"
  BY <1>1 DEF NoTask
<1>4. Results /\ NoAborts /\ DoneStays
  BY <1>1 DEF Results, NoAborts, NoCall, DoneStays
<1>5. Commanded
  BY <1>1, <1>2, <1>3 DEF Commanded
<1>6. AnsweredOnce
  BY <1>1, <1>2, <1>3 DEF AnsweredOnce, Out
<1>7. Timely
  BY <1>1, <1>2, <1>3 DEF Timely
<1> QED
  BY <1>4, <1>5, <1>6, <1>7, InitWave, InitOneDelivery DEF SteadyInv

LEMMA NoAbortsStep ==
  ASSUME Typed, "abort" \notin Operations, NoAborts, [Next]_vars PROVE NoAborts'
<1> SUFFICES ASSUME NEW c \in Callers PROVE call'[c].at \in {"idle", "resume"}
  BY DEF NoAborts
<1>1. HandlersOK /\ call[c].at \in {"idle", "resume"}
  BY DEF Typed, TypeOK, NoAborts
<1>2. CASE UNCHANGED call
  BY <1>1, <1>2
<1>3. ASSUME NEW b \in Callers, NEW op, NEW dep \in Deployments, op \in {"abort", "resume"},
             ToolRead(b, op, dep)
      PROVE  call'[c].at \in {"idle", "resume"}
  BY <1>1, <1>3 DEF ToolRead, HandlersOK
<1>4. ASSUME NEW b \in Callers, AbortStatus(b) \/ AbortJobs(b) PROVE FALSE
  BY <1>4 DEF AbortStatus, AbortJobs, NoAborts
<1>5. ASSUME NEW b \in Callers, Resume(b) PROVE call'[c].at \in {"idle", "resume"}
  BY <1>1, <1>5 DEF Resume, NoCall, HandlersOK
<1>6. CASE Tools
  BY <1>2, <1>3, <1>4, <1>5, <1>6, Zenon DEF Tools, StarterPick, QuietHandlers, ReportStatus,
    DashboardOverride, handlers
<1>7. CASE JobWrites \/ ReaperSteps \/ Creation \/ Telemetry
  BY <1>2, <1>7, Zenon DEF JobWrites, ApplyWrite, RecomputeRead, RecomputeSwap, ReaperSteps,
    ReaperSelect, ReaperWrite, Creation, CreateJobs, CreateFails, Telemetry, ReceiveProgress
<1> QED
  BY <1>2, <1>6, <1>7, HandlerWriters, Zenon DEF EndDelivery, ReceiveResult

-----------------------------------------------------------------------------
(* A result is credited to the job it answers.                             *)
LEMMA Attributed ==
  ASSUME Exact, SteadyInv, NEW r \in reports, NEW dep \in FindActiveJob(r.device, r.version)
  PROVE  dep = r.version
<1>1. r.device \in Devices /\ r.version \in Deployments
  BY DEF SteadyInv, WaveIInv, Typed, TypeOK, FleetOK
<1>2. dep \in Deployments
  BY <1>1 DEF FindActiveJob, ActiveJobs
<1>3. CASE OneDeployment
  BY <1>1, <1>2, <1>3 DEF OneDeployment
<1>4. CASE WireVersions /\ Untimed
  <2>1. Out(r.version, r.device)
    BY DEF Out, Reported
  <2>2. job[r.version][r.device] \in InFlight
    BY <1>1, <1>4, <2>1 DEF SteadyInv, Timely
  <2>3. r.version \in ActiveJobs(r.device)
    BY <1>1, <2>2 DEF ActiveJobs, InFlight, TerminalDD
  <2> QED
    BY <1>4, <2>3 DEF FindActiveJob
<1> QED
  BY <1>3, <1>4 DEF Exact

(* What a step does to the answers.                                        *)
AnswerMove ==
  \/ UNCHANGED <<updating, reports, writes>>
  \/ \E a \in Deliverers, d \in Devices :
       /\ FleetDelivers(a, d) /\ task[a][d] = "calling"
       /\ updating' = [updating EXCEPT ![d] = IF @ = None THEN dl[a].dep ELSE @]
       /\ UNCHANGED <<reports, writes>>
  \/ \E d \in Devices :
       /\ updating[d] # None /\ updating' = [updating EXCEPT ![d] = None]
       /\ \/ UNCHANGED reports
          \/ \E s \in {"success", "failure"} :
               /\ reports' = reports \cup {[device |-> d, version |-> updating[d], status |-> s]}
               /\ s = "success" => <<updating[d], d>> \in committed'
       /\ UNCHANGED writes
  \/ \E r \in reports :
       /\ reports' = reports \ {r}
       /\ \/ UNCHANGED writes
          \/ writes' = writes \cup {[dep |-> r.version, device |-> r.device, status |-> r.status]}
       /\ UNCHANGED updating
  \/ \E w \in writes : /\ ApplyWrite(w) /\ writes' = writes \ {w}
                       /\ UNCHANGED <<updating, reports>>

LEMMA AnswerMoves ==
  ASSUME ResultsOnly, Exact, SteadyInv, [Next]_vars PROVE AnswerMove
<1> USE DEF handlers, fleet
<1>1. ASSUME NEW a \in Deliverers, NEW d \in Devices, FleetDelivers(a, d) PROVE AnswerMove
  BY <1>1, Zenon DEF FleetDelivers, QuietHandlers, AnswerMove
<1>2. ASSUME NEW d \in Devices, DeviceCommits(d) PROVE AnswerMove
  <2>1. /\ reports' = reports \cup {[device |-> d, version |-> updating[d], status |-> "success"]}
        /\ <<updating[d], d>> \in committed'
    BY <1>2 DEF DeviceCommits
  <2> QED
    BY <1>2, <2>1, Zenon DEF DeviceCommits, AnswerMove
<1>3. ASSUME NEW d \in Devices, DeviceRollsBack(d) PROVE AnswerMove
  <2>1. "failure" # "success"
    OBVIOUS
  <2> QED
    BY <1>3, <2>1, Zenon DEF DeviceRollsBack, AnswerMove
<1>4. ASSUME NEW d \in Devices, DeviceSilent(d) PROVE AnswerMove
  BY <1>4, Zenon DEF DeviceSilent, AnswerMove
<1>5. ASSUME NEW r \in reports, ReceiveResult(r) PROVE AnswerMove
  <2>1. \/ UNCHANGED writes
        \/ \E dep \in FindActiveJob(r.device, r.version) :
             writes' = writes \cup {[dep |-> dep, device |-> r.device, status |-> r.status]}
    BY <1>5, Zenon DEF ReceiveResult
  <2>2. \/ UNCHANGED writes
        \/ writes' = writes \cup {[dep |-> r.version, device |-> r.device, status |-> r.status]}
    BY <2>1, Attributed, Zenon
  <2> QED
    BY <1>5, <2>2, Zenon DEF ReceiveResult, AnswerMove
<1>6. ASSUME NEW r \in reports, LoseReport(r) PROVE AnswerMove
  BY <1>6, Zenon DEF LoseReport, AnswerMove
<1>7. ASSUME NEW w \in writes, ApplyWrite(w) PROVE AnswerMove
  BY <1>7, Zenon DEF ApplyWrite, AnswerMove
<1>8. CASE UNCHANGED <<updating, reports, committed>>
  <2>1. \/ UNCHANGED writes
        \/ \E r \in reports : ReceiveResult(r)
        \/ \E w \in writes : ApplyWrite(w)
    BY WritesWriters, Zenon DEF ResultsOnly, Telemetry, ReceiveProgress, ReportStatus
  <2> QED
    BY <1>5, <1>7, <1>8, <2>1, Zenon DEF AnswerMove
<1> QED
  BY <1>1, <1>2, <1>3, <1>4, <1>5, <1>6, <1>8, FleetWriters, Zenon

(* An answer begins with the delivery of the command, and ends when it is  *)
(* written.                                                                *)
LEMMA OutBegins ==
  ASSUME SteadyInv, AnswerMove, NEW dep \in Deployments, NEW d \in Devices, Out(dep, d)'
  PROVE  \/ Out(dep, d)
         \/ \E a \in Deliverers : /\ FleetDelivers(a, d) /\ task[a][d] = "calling"
                                  /\ dl[a].dep = dep
<1>1. FleetOK /\ None \notin Deployments
  BY DeploymentAssumption DEF SteadyInv, WaveIInv, Typed, TypeOK
<1>2. CASE UNCHANGED <<updating, reports, writes>>
  BY <1>2 DEF Out, Has, Reported, Written
<1>3. ASSUME NEW a \in Deliverers, NEW e \in Devices, FleetDelivers(a, e), task[a][e] = "calling",
             updating' = [updating EXCEPT ![e] = IF @ = None THEN dl[a].dep ELSE @],
             UNCHANGED <<reports, writes>>
      PROVE  Out(dep, d) \/ (FleetDelivers(a, d) /\ task[a][d] = "calling" /\ dl[a].dep = dep)
  BY <1>1, <1>3 DEF Out, Has, Reported, Written, FleetOK
<1>4. ASSUME NEW e \in Devices, updating' = [updating EXCEPT ![e] = None], UNCHANGED writes,
             \/ UNCHANGED reports
             \/ \E s : reports' = reports \cup
                         {[device |-> e, version |-> updating[e], status |-> s]}
      PROVE  Out(dep, d)
  BY <1>1, <1>4 DEF Out, Has, Reported, Written, FleetOK
<1>5. ASSUME NEW r \in reports, reports' = reports \ {r}, UNCHANGED updating,
             \/ UNCHANGED writes
             \/ \E s : writes' = writes \cup
                         {[dep |-> r.version, device |-> r.device, status |-> s]}
      PROVE  Out(dep, d)
  BY <1>5 DEF Out, Has, Reported, Written
<1>6. ASSUME NEW w \in writes, writes' = writes \ {w}, UNCHANGED <<updating, reports>>
      PROVE  Out(dep, d)
  BY <1>6 DEF Out, Has, Reported, Written
<1> QED
  BY <1>2, <1>3, <1>4, <1>5, <1>6, Zenon DEF AnswerMove

LEMMA OutEnds ==
  ASSUME SteadyInv, NEW w \in writes, ApplyWrite(w) PROVE ~Out(w.dep, w.device)'
<1>1. w.dep \in Deployments /\ w.device \in Devices
  BY DEF SteadyInv, WaveIInv, Typed, TypeOK, HandlersOK
<1>2. writes' = writes \ {w} /\ updating' = updating /\ reports' = reports
  BY DEF ApplyWrite, fleet
<1>3. Written(w.dep, w.device)
  BY DEF Written
<1>4. ~Has(w.dep, w.device) /\ ~Reported(w.dep, w.device)
  BY <1>1, <1>3 DEF SteadyInv, AnsweredOnce
<1>5. ~Written(w.dep, w.device)'
  BY <1>2 DEF SteadyInv, AnsweredOnce, Written
<1> QED
  BY <1>2, <1>4, <1>5 DEF Out, Has, Reported

(* How a call begins and goes on.                                          *)
LEMMA CallMoves ==
  ASSUME Typed, [Next]_vars, NEW a \in Deliverers, NEW d \in Devices,
         task'[a][d] \in {"calling", "received"}
  PROVE  /\ SameRow(a)
         /\ \/ Dispatch(a, d) /\ task'[a][d] = "calling"
            \/ FleetDelivers(a, d) /\ task[a][d] = "calling" /\ task'[a][d] = "received"
            \/ task'[a][d] = task[a][d]
<1>1. DeliveryOK
  BY DEF Typed, TypeOK
<1>2. SameRow(a)
  BY TaskMoves
<1>3. ASSUME NEW b \in Deliverers, Select(b) PROVE task'[a][d] = task[a][d]
  BY <1>1, <1>3 DEF Select, DeliveryOK
<1>4. ASSUME NEW b \in Deliverers, EndDelivery(b) PROVE task'[a][d] = task[a][d]
  BY <1>1, <1>4 DEF EndDelivery, NoTask, DeliveryOK
<1>5. ASSUME NEW b \in Deliverers, NEW e \in Devices, Dispatch(b, e)
      PROVE  (Dispatch(a, d) /\ task'[a][d] = "calling") \/ task'[a][d] = task[a][d]
  BY <1>1, <1>5 DEF Dispatch, DeliveryOK
<1>6. ASSUME NEW b \in Deliverers, NEW e \in Devices, FleetDelivers(b, e)
      PROVE  \/ FleetDelivers(a, d) /\ task[a][d] = "calling" /\ task'[a][d] = "received"
             \/ task'[a][d] = task[a][d]
  BY <1>1, <1>6 DEF FleetDelivers, DeliveryOK
<1>7. ASSUME NEW b \in Deliverers, NEW e \in Devices, FleetAnswers(b, e) \/ FleetFails(b, e)
      PROVE  task'[a][d] = task[a][d]
  BY <1>1, <1>7 DEF FleetAnswers, FleetFails, DeliveryOK
<1> QED
  BY <1>2, <1>3, <1>4, <1>5, <1>6, <1>7, TaskWriters, Zenon

LEMMA SentGrows == ASSUME [Next]_vars PROVE sent \subseteq sent'
BY SentWriters DEF Dispatch

(* A job that has started does not wait again.                             *)
LEMMA StartedStays ==
  ASSUME WaveIInv, Results, [Next]_vars, NEW dep \in Deployments, NEW d \in Devices,
         job[dep][d] \notin {"none", "pending"}
  PROVE  job'[dep][d] \notin {"none", "pending"}
BY JobMoves DEF JobMove, Results

LEMMA ReapingWriters ==
  ASSUME [Next]_vars
  PROVE  UNCHANGED reaping \/ ReaperSelect \/ \E x \in reaping : ReaperWrite(x)
BY HandlerWriters, Zenon DEF EndDelivery, ReceiveResult, Telemetry, ReceiveProgress, JobWrites,
  ApplyWrite, RecomputeRead, RecomputeSwap, ReaperSteps, Creation, CreateJobs, CreateFails, Tools,
  StarterPick, ReportStatus, ToolRead, AbortStatus, AbortJobs, Resume, DashboardOverride,
  QuietHandlers, handlers

(* A task in its delivery is that delivery's own.                          *)
LEMMA OwnTask ==
  ASSUME SteadyInv, NEW a \in Deliverers, NEW b \in Deliverers, NEW d \in Devices,
         task[a][d] # "none", task[b][d] # "none"
  PROVE  a = b
BY TasksTogether DEF SteadyInv, WaveIInv

LEMMA CommandedStep ==
  ASSUME Steady, SteadyInv, [Next]_vars PROVE Commanded'
<1>1. /\ WaveIInv /\ Typed /\ Results /\ Commanded /\ AnswerMove
      /\ HandlersOK /\ PastOK /\ JobsOK /\ NoAborts
  BY AnswerMoves DEF Steady, SteadyInv, WaveIInv, Typed, TypeOK
<1>2. ASSUME NEW x \in sent' \cup reaping' PROVE job'[x[1]][x[2]] \notin {"none", "pending"}
  <2>1. CASE x \in sent \cup reaping
    <3>1. x[1] \in Deployments /\ x[2] \in Devices
      BY <1>1, <2>1 DEF PastOK, HandlersOK
    <3> QED
      BY <1>1, <2>1, <3>1, StartedStays DEF Commanded
  <2>2. CASE x \in sent' \ sent
    <3>1. PICK a \in Deliverers, d \in Devices : Dispatch(a, d)
      BY <2>2, SentWriters
    <3>2. x = <<dl[a].dep, d>> /\ SetJob(dl[a].dep, d, "downloading")
      BY <2>2, <3>1 DEF Dispatch
    <3>3. dl[a].dep \in Deployments
      BY <1>1, <3>1 DEF Dispatch, Typed, HoldersInv
    <3> QED
      BY <1>1, <3>2, <3>3 DEF SetJob, JobsOK
  <2>3. CASE x \in reaping' \ reaping
    <3>1. ReaperSelect
      BY <2>3, ReapingWriters DEF ReaperWrite
    <3>2. job[x[1]][x[2]] \in InFlight /\ job' = job
      BY <2>3, <3>1 DEF ReaperSelect, jobs
    <3> QED
      BY <3>2 DEF InFlight
  <2> QED
    BY <2>1, <2>2, <2>3
<1>3. ASSUME NEW dep \in Deployments, NEW d \in Devices, Out(dep, d)' PROVE <<dep, d>> \in sent'
  <2>1. CASE Out(dep, d)
    BY <1>1, <2>1, SentGrows DEF Commanded
  <2>2. ASSUME NEW a \in Deliverers, task[a][d] = "calling", dl[a].dep = dep
        PROVE  <<dep, d>> \in sent'
    BY <1>1, <2>2, SentGrows DEF Commanded
  <2> QED
    BY <1>1, <1>3, <2>1, <2>2, OutBegins
<1>4. ASSUME NEW a \in Deliverers, NEW d \in Devices, task'[a][d] = "queued"
      PROVE  job'[dl'[a].dep][d] = "pending"
  <2> DEFINE dep == dl[a].dep
  <2>1. /\ dl'[a].dep = dep
        /\ task[a][d] = "queued" \/ (Select(a) /\ d \in Waiting(dep, dl[a].phase))
    BY <1>1, <1>4, TaskMoves DEF SameRow
  <2>2. CASE Select(a) /\ d \in Waiting(dep, dl[a].phase)
    BY <2>1, <2>2 DEF Select, Waiting, jobs
  <2>3. CASE task[a][d] = "queued"
    <3>1. dep \in Deployments /\ job[dep][d] = "pending"
      BY <1>1, <2>3, TaskHolds DEF Commanded, Typed
    <3>2. ASSUME NEW b \in Deliverers, Dispatch(b, d) PROVE FALSE
      <4>1. a = b
        BY <2>3, <3>2, OwnTask DEF Dispatch
      <4> QED
        BY <1>1, <1>4, <3>2, <4>1 DEF Dispatch, Typed, TypeOK, DeliveryOK
    <3>3. ASSUME NEW b \in Deliverers, FleetFails(b, d) PROVE FALSE
      BY <2>3, <3>3, OwnTask DEF FleetFails
    <3>4. ASSUME NEW w \in writes, w.dep = dep, w.device = d PROVE FALSE
      <4>1. Out(dep, d)
        BY <3>4 DEF Out, Written
      <4>2. <<dep, d>> \in sent
        BY <1>1, <3>1, <4>1 DEF Commanded
      <4> QED
        BY <1>1, <3>1, <4>2 DEF Commanded
    <3>5. ASSUME NEW x \in reaping, x = <<dep, d>> PROVE FALSE
      BY <1>1, <3>1, <3>5 DEF Commanded
    <3>6. ASSUME NEW c \in Callers, AbortJobs(c) PROVE FALSE
      BY <1>1, <3>6 DEF AbortJobs, NoAborts
    <3>7. JobMove(dep, d)
      BY <1>1, <3>1, JobMoves
    <3>8. job'[dep][d] = "pending"
      BY <3>1, <3>2, <3>3, <3>4, <3>5, <3>6, <3>7 DEF JobMove
    <3> QED
      BY <2>1, <3>8
  <2> QED
    BY <2>1, <2>2, <2>3
<1>5. ASSUME NEW a \in Deliverers, NEW d \in Devices, task'[a][d] \in {"calling", "received"}
      PROVE  <<dl'[a].dep, d>> \in sent'
  <2>1. dl'[a].dep = dl[a].dep
    BY <1>1, <1>5, CallMoves DEF SameRow
  <2>2. CASE Dispatch(a, d)
    BY <2>1, <2>2 DEF Dispatch
  <2>3. CASE task[a][d] \in {"calling", "received"}
    BY <1>1, <2>1, <2>3, SentGrows DEF Commanded
  <2> QED
    BY <1>1, <1>5, <2>2, <2>3, CallMoves
<1> QED
  BY <1>2, <1>3, <1>4, <1>5 DEF Commanded

(* Nobody has the answer to a command that is queued.                      *)
LEMMA QueuedUnanswered ==
  ASSUME SteadyInv, NEW a \in Deliverers, NEW d \in Devices, task[a][d] = "queued"
  PROVE  dl[a].dep \in Deployments /\ ~Out(dl[a].dep, d)
<1>1. dl[a].dep \in Deployments /\ job[dl[a].dep][d] = "pending"
  BY TaskHolds DEF SteadyInv, WaveIInv, Typed, Commanded
<1>2. <<dl[a].dep, d>> \notin sent
  BY <1>1 DEF SteadyInv, Commanded
<1> QED
  BY <1>1, <1>2 DEF SteadyInv, Commanded

(* A job becomes a success when its answer is written, and then nobody has *)
(* one any more.                                                           *)
LEMMA SuccessEnds ==
  ASSUME SteadyInv, AnswerMove, [Next]_vars, NEW dep \in Deployments, NEW d \in Devices,
         job'[dep][d] = "success"
  PROVE  ~Out(dep, d)'
<1>1. WaveIInv /\ AnsweredOnce
  BY DEF SteadyInv
<1>2. ASSUME NEW w \in writes, ApplyWrite(w), w.dep = dep, w.device = d PROVE ~Out(dep, d)'
  BY <1>2, OutEnds
<1>3. CASE job[dep][d] = "success"
  <2>1. ~Out(dep, d)
    BY <1>1, <1>3 DEF AnsweredOnce
  <2>2. ASSUME NEW a \in Deliverers, task[a][d] = "calling", dl[a].dep = dep PROVE FALSE
    BY <1>1, <1>3, <2>2 DEF AnsweredOnce
  <2> QED
    BY <2>1, <2>2, OutBegins
<1> QED
  BY <1>1, <1>2, <1>3, JobMoves DEF JobMove

LEMMA AnsweredOnceStep ==
  ASSUME Steady, SteadyInv, [Next]_vars PROVE AnsweredOnce'
<1>1. /\ WaveIInv /\ Typed /\ Results /\ AnsweredOnce /\ AnswerMove
      /\ FleetOK /\ HandlersOK /\ DeliveryOK /\ None \notin Deployments
  BY AnswerMoves, DeploymentAssumption DEF Steady, SteadyInv, WaveIInv, Typed, TypeOK
<1>2. ASSUME NEW a \in Deliverers, NEW d \in Devices, task'[a][d] = "calling"
      PROVE  ~Out(dl[a].dep, d)' /\ job'[dl'[a].dep][d] # "success"
  <2>1. SameRow(a) /\ (Dispatch(a, d) \/ task[a][d] = "calling")
    BY <1>1, <1>2, CallMoves
  <2>2. task[a][d] # "none"
    BY <2>1 DEF Dispatch
  <2>3. PICK dep \in Deployments : dep = dl[a].dep
    BY <1>1, <2>2, TaskHolds DEF Typed
  <2>4. dl'[a].dep = dep
    BY <2>1, <2>3 DEF SameRow
  <2>5. ~Out(dep, d) /\ job[dep][d] # "success"
    <3>1. CASE task[a][d] = "calling"
      BY <1>1, <2>3, <3>1 DEF AnsweredOnce
    <3>2. CASE Dispatch(a, d)
      <4>1. task[a][d] = "queued"
        BY <3>2 DEF Dispatch
      <4> QED
        BY <2>3, <4>1, QueuedUnanswered DEF SteadyInv, Commanded
    <3> QED
      BY <2>1, <3>1, <3>2
  <2>6. ASSUME NEW b \in Deliverers, FleetDelivers(b, d), task[b][d] = "calling" PROVE FALSE
    <3>1. a = b
      BY <2>2, <2>6, OwnTask
    <3> QED
      BY <1>1, <1>2, <2>6, <3>1 DEF FleetDelivers, DeliveryOK
  <2>7. ~Out(dep, d)'
    BY <1>1, <2>5, <2>6, OutBegins
  <2>8. job'[dep][d] # "success"
    BY <1>1, <2>5, JobMoves DEF JobMove, Out, Written
  <2> QED
    BY <2>4, <2>7, <2>8 DEF Out, Has, Reported, Written
<1>3. ASSUME NEW dep \in Deployments, NEW d \in Devices
      PROVE  /\ Has(dep, d)' => ~Reported(dep, d)' /\ ~Written(dep, d)'
             /\ Reported(dep, d)' => ~Written(dep, d)'
  <2>1. /\ Has(dep, d) => ~Reported(dep, d) /\ ~Written(dep, d)
        /\ Reported(dep, d) => ~Written(dep, d)
    BY <1>1 DEF AnsweredOnce
  <2>2. CASE UNCHANGED <<updating, reports, writes>>
    BY <2>1, <2>2 DEF Has, Reported, Written
  <2>3. ASSUME NEW a \in Deliverers, NEW e \in Devices, task[a][e] = "calling",
               updating' = [updating EXCEPT ![e] = IF @ = None THEN dl[a].dep ELSE @],
               UNCHANGED <<reports, writes>>
        PROVE  /\ Has(dep, d)' => ~Reported(dep, d)' /\ ~Written(dep, d)'
               /\ Reported(dep, d)' => ~Written(dep, d)'
    <3>1. ~Out(dl[a].dep, e)
      BY <1>1, <2>3 DEF AnsweredOnce
    <3>2. Has(dep, d)' => Has(dep, d) \/ (e = d /\ dl[a].dep = dep)
      BY <1>1, <2>3 DEF Has, FleetOK
    <3> QED
      BY <2>1, <2>3, <3>1, <3>2 DEF Out, Reported, Written
  <2>4. ASSUME NEW e \in Devices, updating' = [updating EXCEPT ![e] = None], UNCHANGED writes,
               \/ UNCHANGED reports
               \/ \E s : reports' = reports \cup
                           {[device |-> e, version |-> updating[e], status |-> s]}
        PROVE  /\ Has(dep, d)' => ~Reported(dep, d)' /\ ~Written(dep, d)'
               /\ Reported(dep, d)' => ~Written(dep, d)'
    <3>1. Has(dep, d)' => Has(dep, d) /\ e # d
      BY <1>1, <2>4 DEF Has, FleetOK
    <3>2. Reported(dep, d)' => Reported(dep, d) \/ (e = d /\ Has(dep, d))
      BY <2>4 DEF Reported, Has
    <3>3. Written(dep, d)' = Written(dep, d)
      BY <2>4 DEF Written
    <3> QED
      BY <2>1, <3>1, <3>2, <3>3
  <2>5. ASSUME NEW r \in reports, reports' = reports \ {r}, UNCHANGED updating,
               \/ UNCHANGED writes
               \/ \E s : writes' = writes \cup
                           {[dep |-> r.version, device |-> r.device, status |-> s]}
        PROVE  /\ Has(dep, d)' => ~Reported(dep, d)' /\ ~Written(dep, d)'
               /\ Reported(dep, d)' => ~Written(dep, d)'
    <3>1. Has(dep, d)' = Has(dep, d)
      BY <2>5 DEF Has
    <3>2. Reported(dep, d)' => Reported(dep, d) /\ ~(r.version = dep /\ r.device = d)
      BY <1>1, <2>5 DEF Reported, AnsweredOnce
    <3>3. Written(dep, d)' => Written(dep, d) \/ (r.version = dep /\ r.device = d)
      BY <2>5 DEF Written
    <3>4. r.version = dep /\ r.device = d => Reported(dep, d)
      BY DEF Reported
    <3> QED
      BY <2>1, <3>1, <3>2, <3>3, <3>4
  <2>6. ASSUME NEW w \in writes, writes' = writes \ {w}, UNCHANGED <<updating, reports>>
        PROVE  /\ Has(dep, d)' => ~Reported(dep, d)' /\ ~Written(dep, d)'
               /\ Reported(dep, d)' => ~Written(dep, d)'
    BY <2>1, <2>6 DEF Has, Reported, Written
  <2> QED
    BY <1>1, <2>2, <2>3, <2>4, <2>5, <2>6, Zenon DEF AnswerMove
<1>4. ASSUME NEW dep \in Deployments, NEW d \in Devices, job'[dep][d] = "success"
      PROVE  ~Out(dep, d)'
  BY <1>1, <1>4, SuccessEnds
<1>5. ASSUME NEW r \in reports', NEW q \in reports', r.device = q.device, r.version = q.version
      PROVE  r = q
  <2>1. CASE r \in reports /\ q \in reports
    BY <1>1, <1>5, <2>1 DEF AnsweredOnce
  <2>2. CASE ~(r \in reports /\ q \in reports)
    <3>1. PICK e \in Devices, s \in {"success", "failure"} :
            /\ updating[e] # None
            /\ reports' = reports \cup {[device |-> e, version |-> updating[e], status |-> s]}
      BY <1>1, <2>2 DEF AnswerMove
    <3>2. updating[e] \in Deployments /\ ~Reported(updating[e], e)
      BY <1>1, <3>1 DEF FleetOK, AnsweredOnce, Has
    <3> QED
      BY <1>5, <2>2, <3>1, <3>2 DEF Reported
  <2> QED
    BY <2>1, <2>2
<1>6. ASSUME NEW w \in writes', NEW v \in writes', w.device = v.device, w.dep = v.dep
      PROVE  w = v
  <2>1. CASE w \in writes /\ v \in writes
    BY <1>1, <1>6, <2>1 DEF AnsweredOnce
  <2>2. CASE ~(w \in writes /\ v \in writes)
    <3>1. PICK r \in reports :
            writes' = writes \cup {[dep |-> r.version, device |-> r.device, status |-> r.status]}
      BY <1>1, <2>2 DEF AnswerMove
    <3>2. r.version \in Deployments /\ r.device \in Devices /\ Reported(r.version, r.device)
      BY <1>1 DEF FleetOK, Reported
    <3>3. ~Written(r.version, r.device)
      BY <1>1, <3>2 DEF AnsweredOnce
    <3> QED
      BY <1>6, <2>2, <3>1, <3>3 DEF Written
  <2> QED
    BY <2>1, <2>2
<1> QED
  BY <1>2, <1>3, <1>4, <1>5, <1>6 DEF AnsweredOnce

(* What moves a job that is in flight where no job times out.              *)
LEMMA FlightGoesOn ==
  ASSUME Steady, SteadyInv, Untimed, [Next]_vars, NEW dep \in Deployments, NEW d \in Devices,
         job[dep][d] \in InFlight
  PROVE  \/ job'[dep][d] \in InFlight
         \/ \E a \in Deliverers : FleetFails(a, d) /\ task[a][d] = "calling" /\ dl[a].dep = dep
         \/ \E w \in writes : ApplyWrite(w) /\ w.dep = dep /\ w.device = d
<1>1. WaveIInv /\ NoAborts /\ reaping = {} /\ ~AcksLost
  BY DEF SteadyInv, Timely, Untimed
<1>2. "downloading" \in InFlight /\ "none" \notin InFlight
  BY DEF InFlight
<1>3. \A a \in Deliverers : FleetFails(a, d) => task[a][d] = "calling"
  BY <1>1 DEF FleetFails
<1>4. \A c \in Callers : ~AbortJobs(c)
  BY <1>1 DEF AbortJobs, NoAborts
<1> QED
  BY <1>1, <1>2, <1>3, <1>4, JobMoves DEF JobMove

LEMMA TimelyStep ==
  ASSUME Steady, SteadyInv, [Next]_vars PROVE Timely'
<1>1. /\ WaveIInv /\ Typed /\ Timely /\ Commanded /\ AnsweredOnce /\ AnswerMove
      /\ JobsOK /\ DeliveryOK
  BY AnswerMoves DEF Steady, SteadyInv, WaveIInv, Typed, TypeOK
<1>2. ASSUME MaxAge = 0
      PROVE  reaping' = {} /\ \A dep \in Deployments, d \in Devices : age'[dep][d] = 0
  <2>1. reaping = {} /\ \A dep \in Deployments, d \in Devices : age[dep][d] = 0
    BY <1>1, <1>2 DEF Timely
  <2>2. ASSUME NEW dep \in Deployments, NEW d \in Devices PROVE age'[dep][d] = 0
    <3>1. ~JobAges(dep, d)
      BY <1>2, <2>1 DEF JobAges
    <3> QED
      BY <1>1, <2>1, <3>1, AgeMoves
  <2>3. ~ReaperSelect
    BY <2>1 DEF ReaperSelect
  <2>4. reaping' = {}
    BY <2>1, <2>3, ReapingWriters
  <2> QED
    BY <2>2, <2>4
<1>3. ASSUME Untimed, NEW dep \in Deployments, NEW d \in Devices, Out(dep, d)'
      PROVE  job'[dep][d] \in InFlight
  <2>1. CASE Out(dep, d)
    <3>1. job[dep][d] \in InFlight
      BY <1>1, <1>3, <2>1 DEF Timely
    <3>2. ASSUME NEW a \in Deliverers, task[a][d] = "calling", dl[a].dep = dep PROVE FALSE
      BY <1>1, <2>1, <3>2 DEF AnsweredOnce
    <3>3. ASSUME NEW w \in writes, ApplyWrite(w), w.dep = dep, w.device = d PROVE FALSE
      BY <1>3, <3>3, OutEnds
    <3> QED
      BY <1>3, <3>1, <3>2, <3>3, FlightGoesOn
  <2>2. ASSUME NEW a \in Deliverers, FleetDelivers(a, d), task[a][d] = "calling", dl[a].dep = dep
        PROVE  job'[dep][d] \in InFlight
    BY <1>1, <1>3, <2>2 DEF Timely, FleetDelivers, jobs
  <2> QED
    BY <1>1, <1>3, <2>1, <2>2, OutBegins
<1>4. ASSUME Untimed, NEW a \in Deliverers, NEW d \in Devices, task'[a][d] = "calling"
      PROVE  job'[dl'[a].dep][d] \in InFlight
  <2>1. SameRow(a) /\ (Dispatch(a, d) \/ task[a][d] = "calling")
    BY <1>1, <1>4, CallMoves
  <2>2. task[a][d] # "none"
    BY <2>1 DEF Dispatch
  <2>3. dl[a].dep \in Deployments /\ dl'[a].dep = dl[a].dep
    BY <1>1, <2>1, <2>2, TaskHolds DEF Typed, SameRow
  <2>4. CASE Dispatch(a, d)
    <3>1. SetJob(dl[a].dep, d, "downloading")
      BY <2>4 DEF Dispatch
    <3> QED
      BY <1>1, <2>3, <3>1 DEF SetJob, JobsOK, InFlight
  <2>5. CASE task[a][d] = "calling"
    <3>1. job[dl[a].dep][d] \in InFlight /\ ~Out(dl[a].dep, d)
      BY <1>1, <1>4, <2>5 DEF Timely, AnsweredOnce
    <3>2. ASSUME NEW b \in Deliverers, FleetFails(b, d), task[b][d] = "calling" PROVE FALSE
      <4>1. a = b
        BY <2>2, <3>2, OwnTask
      <4> QED
        BY <1>1, <1>4, <3>2, <4>1 DEF FleetFails, DeliveryOK
    <3>3. ~Written(dl[a].dep, d)
      BY <3>1 DEF Out
    <3> QED
      BY <1>4, <2>3, <3>1, <3>2, <3>3, FlightGoesOn DEF Written
  <2> QED
    BY <2>1, <2>4, <2>5
<1> QED
  BY <1>2, <1>3, <1>4 DEF Timely

(* Who finishes a deployment.                                              *)
LEMMA SwapWriters ==
  ASSUME [Next]_vars
  PROVE  \/ UNCHANGED swaps
         \/ \E dep \in recompute : RecomputeRead(dep)
         \/ \E s \in swaps : RecomputeSwap(s)
BY HandlerWriters, Zenon DEF EndDelivery, ReceiveResult, Telemetry, ReceiveProgress, JobWrites,
  ApplyWrite, ReaperSteps, ReaperSelect, ReaperWrite, Creation, CreateJobs, CreateFails, Tools,
  StarterPick, ReportStatus, ToolRead, AbortStatus, AbortJobs, Resume, DashboardOverride,
  QuietHandlers, handlers

LEMMA StatusWriters ==
  ASSUME [Next]_vars
  PROVE  \/ UNCHANGED <<status, reason>>
         \/ \E a \in Deliverers : Activate(a) \/ EndDelivery(a)
         \/ Halt
         \/ \E s \in swaps : RecomputeSwap(s)
         \/ \E c \in Callers : AbortStatus(c) \/ Resume(c)
         \/ \E dep \in Deployments : DashboardOverride(dep)
<1> USE DEF rows
<1>1. CASE PollerSteps \/ SupervisorSteps \/ Telemetry \/ UNCHANGED vars
  BY <1>1, Zenon DEF PollerSteps, PollerPick, Materialize, SupervisorSteps, SupervisorPick,
    Decide, Advance, Telemetry, ReceiveProgress, vars
<1>2. CASE \E a \in Deliverers : DeliverySteps(a)
  <2>1. PICK a \in Deliverers : DeliverySteps(a)
    BY <1>2
  <2>2. CASE ReadRow(a) \/ Activate(a) \/ Select(a)
    BY <2>2, Zenon DEF ReadRow, Select
  <2>3. CASE SelectNothing(a) \/ EndDelivery(a)
    BY <2>3, Zenon DEF SelectNothing
  <2>4. CASE \E d \in Devices : Dispatch(a, d) \/ FleetDelivers(a, d)
                           \/ FleetAnswers(a, d) \/ FleetFails(a, d)
    BY <2>4, Zenon DEF Dispatch, FleetDelivers, FleetAnswers, FleetFails
  <2> QED
    BY <2>1, <2>2, <2>3, <2>4, Zenon DEF DeliverySteps
<1>2a. CASE \E d \in Devices : DeviceSteps(d)
  BY <1>2a, Zenon DEF DeviceSteps, DeviceCommits, DeviceRollsBack, DeviceSilent
<1>3. CASE ReportSteps \/ JobWrites \/ ReaperSteps \/ Creation
  BY <1>3, Zenon DEF ReportSteps, ReceiveResult, LoseReport, JobWrites, ApplyWrite,
    RecomputeRead, ReaperSteps, ReaperSelect, ReaperWrite, Creation, CreateJobs, CreateFails
<1>4. CASE Tools \/ Clock
  BY <1>4, Zenon DEF Tools, StarterPick, ReportStatus, ToolRead, AbortJobs, Clock, SoakElapses,
    JobAges
<1> QED
  BY <1>1, <1>2, <1>2a, <1>3, <1>4, Zenon DEF Next

(* A deployment becomes finished by a compare-and-swap only.               *)
LEMMA FinishWriters ==
  ASSUME Typed, [Next]_vars, NEW dep \in Deployments, status'[dep] = "finished"
  PROVE  status[dep] = "finished" \/ \E s \in swaps : s.dep = dep
<1>1. RowsOK /\ HandlersOK
  BY DEF Typed, TypeOK
<1>2. CASE UNCHANGED status
  BY <1>2
<1>3. ASSUME NEW e, NEW new, status' = [status EXCEPT ![e] = new], new # "finished"
      PROVE  status[dep] = "finished"
  BY <1>1, <1>3 DEF RowsOK
<1>4. "active" # "finished" /\ "paused" # "finished" /\ "aborted" # "finished"
  OBVIOUS
<1>5. ASSUME NEW s \in swaps, RecomputeSwap(s)
      PROVE  status[dep] = "finished" \/ s.dep = dep
  BY <1>1, <1>5 DEF RecomputeSwap, RowsOK
<1>6. ASSUME NEW a \in Deliverers, Activate(a) \/ EndDelivery(a) PROVE status[dep] = "finished"
  <2>1. \/ UNCHANGED status
        \/ status' = [status EXCEPT ![dl[a].dep] = "active"]
        \/ status' = [status EXCEPT ![dl[a].dep] = "paused"]
    BY <1>6, Zenon DEF Activate, EndDelivery
  <2> QED
    BY <1>2, <1>3, <1>4, <2>1
<1>7. CASE Halt
  <2>1. status' = [status EXCEPT ![dl["supervisor"].dep] = "paused"]
    BY <1>7, Zenon DEF Halt
  <2> QED
    BY <1>3, <1>4, <2>1
<1>8. ASSUME NEW c \in Callers, AbortStatus(c) \/ Resume(c) PROVE status[dep] = "finished"
  <2>1. \/ status' = [status EXCEPT ![call[c].dep] = "aborted"]
        \/ status' = [status EXCEPT ![call[c].dep] = "active"]
    BY <1>8, Zenon DEF AbortStatus, Resume
  <2> QED
    BY <1>3, <1>4, <2>1
<1>9. ASSUME NEW e \in Deployments, DashboardOverride(e) PROVE status[dep] = "finished"
  <2>1. status' = [status EXCEPT ![e] = "active"]
    BY <1>9, Zenon DEF DashboardOverride
  <2> QED
    BY <1>3, <1>4, <2>1
<1> QED
  BY <1>2, <1>5, <1>6, <1>7, <1>8, <1>9, StatusWriters, Zenon

LEMMA AllDoneStays ==
  ASSUME SteadyInv, [Next]_vars, NEW dep \in Deployments, AllDone(dep) PROVE AllDone(dep)'
<1>1. WaveIInv /\ Results /\ Commanded
  BY DEF SteadyInv
<1>2. Targets(dep) # {} /\ \A d \in Targets(dep) : job[dep][d] \in TerminalDD
  BY DEF AllDone
<1>3. ASSUME NEW d \in Devices, job[dep][d] = "none" PROVE job'[dep][d] = "none"
  <2>1. \A w \in writes : ~(w.dep = dep /\ w.device = d)
    BY <1>1, <1>3 DEF WaveIInv, JobsExist
  <2>2. \A a \in Deliverers : dl[a].dep = dep => task[a][d] = "none"
    BY <1>1, <1>3 DEF WaveIInv, JobsExist
  <2>3. \A x \in reaping : x # <<dep, d>>
    BY <1>1, <1>3 DEF WaveIInv, JobsExist
  <2> QED
    BY <1>1, <1>2, <1>3, <2>1, <2>2, <2>3, JobMoves
       DEF JobMove, Dispatch, FleetFails, InFlight
<1>4. ASSUME NEW d \in Targets(dep) PROVE job'[dep][d] \in TerminalDD
  <2>1. d \in Devices /\ job[dep][d] \in TerminalDD
    BY <1>2, <1>4 DEF Targets
  <2>2. \A a \in Deliverers : ~(Dispatch(a, d) /\ dl[a].dep = dep)
    BY <1>1, <2>1 DEF Dispatch, Commanded, TerminalDD
  <2>3. {"failure", "success", "timed_out", "aborted"} \subseteq TerminalDD
    BY DEF TerminalDD
  <2> QED
    BY <1>1, <1>2, <2>1, <2>2, <2>3, JobMoves DEF JobMove, Results
<1>5. Targets(dep)' = Targets(dep)
  <2>1. \A d \in Devices : job'[dep][d] # "none" <=> job[dep][d] # "none"
    BY <1>3, <1>4 DEF Targets, TerminalDD
  <2> QED
    BY <2>1 DEF Targets
<1> QED
  BY <1>2, <1>4, <1>5 DEF AllDone

LEMMA DoneStaysStep ==
  ASSUME SteadyInv, [Next]_vars PROVE DoneStays'
<1>1. Typed /\ HandlersOK /\ DoneStays
  BY DEF SteadyInv, WaveIInv, Typed, TypeOK
<1>2. ASSUME NEW s \in swaps PROVE s.dep \in Deployments /\ AllDone(s.dep)'
  BY <1>1, AllDoneStays DEF HandlersOK, DoneStays
<1>3. ASSUME NEW s \in swaps' PROVE AllDone(s.dep)'
  <2>1. CASE s \in swaps
    BY <1>2, <2>1
  <2>2. CASE s \notin swaps
    <3>1. PICK dep \in recompute : RecomputeRead(dep)
      BY <2>2, SwapWriters DEF RecomputeSwap
    <3>2. s.dep = dep /\ AllDone(dep) /\ dep \in Deployments
      BY <1>1, <2>2, <3>1 DEF RecomputeRead, AllDone, HandlersOK
    <3> QED
      BY <3>2, AllDoneStays
  <2> QED
    BY <2>1, <2>2
<1>4. ASSUME NEW dep \in Deployments, status'[dep] = "finished" PROVE AllDone(dep)'
  BY <1>1, <1>2, <1>4, AllDoneStays, FinishWriters DEF DoneStays
<1> QED
  BY <1>3, <1>4 DEF DoneStays

LEMMA SteadyStep ==
  ASSUME Steady, SteadyInv, [Next]_vars PROVE SteadyInv'
<1>1. WaveIInv /\ Typed /\ OneDelivery /\ Results /\ NoAborts
  BY DEF SteadyInv, WaveIInv
<1>2. WaveIInv'
  BY <1>1, WaveStep
<1>3. OneDelivery' /\ Results' /\ NoAborts'
  BY <1>1, OneDeliveryStep, ResultsStep, NoAbortsStep DEF Steady
<1> QED
  BY <1>2, <1>3, CommandedStep, AnsweredOnceStep, TimelyStep, DoneStaysStep DEF SteadyInv

(* What each holder of a command, an answer or a swap knows of the job.    *)
THEOREM OutcomesHold == ASSUME Steady PROVE Spec => []SteadyInv
<1>1. SteadyInv /\ [Next]_vars => SteadyInv'
  BY SteadyStep
<1> QED
  BY InitSteady, <1>1, PTL DEF Spec

(* In a steady service a finished deployment has an outcome for each of    *)
(* its devices, and no delivery is about to send a command for it.         *)
THEOREM FinishedIsDone == ASSUME Steady PROVE Spec => []FinishedMeansDone
<1>1. SteadyInv => FinishedMeansDone
  <2> SUFFICES ASSUME SteadyInv, NEW dep \in Deployments, status[dep] = "finished"
               PROVE  /\ \A d \in Targets(dep) : job[dep][d] \in TerminalDD
                      /\ \A a \in Deliverers : dl[a].dep = dep =>
                           \A d \in Devices : task[a][d] # "queued"
    BY DEF FinishedMeansDone
  <2>1. \A d \in Targets(dep) : job[dep][d] \in TerminalDD
    BY DEF SteadyInv, DoneStays, AllDone
  <2>2. ASSUME NEW a \in Deliverers, dl[a].dep = dep, NEW d \in Devices, task[a][d] = "queued"
        PROVE  FALSE
    <3>1. job[dep][d] = "pending"
      BY <2>2 DEF SteadyInv, Commanded
    <3> QED
      BY <2>1, <3>1 DEF Targets, TerminalDD
  <2> QED
    BY <2>1, <2>2
<1> QED
  BY OutcomesHold, <1>1, PTL

(* Whatever overlaps, times out or is lost, and whatever the tools do:     *)
(* nobody takes up a job that has its outcome, except to retry a failed    *)
(* one, and only who held it before can overwrite it.                      *)
THEOREM OutcomesAreFinal == Spec => OutcomeStays
<1>1. WaveIInv /\ [Next]_vars =>
        [\A dep \in Deployments, d \in Devices : job[dep][d] \in TerminalDD =>
           /\ Delivering(dep, d)' \subseteq Delivering(dep, d)
           /\ <<dep, d>> \in reaping' => <<dep, d>> \in reaping
           /\ \A w \in Deciding(dep, d)' \ Deciding(dep, d) :
                job[dep][d] = "failure" /\ w.status = "pending"
           /\ job'[dep][d] # job[dep][d] =>
                Delivering(dep, d) # {} \/ Deciding(dep, d) # {} \/ <<dep, d>> \in reaping]_vars
  <2> SUFFICES ASSUME WaveIInv, [Next]_vars, NEW dep \in Deployments, NEW d \in Devices,
                      job[dep][d] \in TerminalDD
               PROVE  /\ Delivering(dep, d)' \subseteq Delivering(dep, d)
                      /\ <<dep, d>> \in reaping' => <<dep, d>> \in reaping
                      /\ \A w \in Deciding(dep, d)' \ Deciding(dep, d) :
                           job[dep][d] = "failure" /\ w.status = "pending"
                      /\ job'[dep][d] # job[dep][d] =>
                           \/ Delivering(dep, d) # {} \/ Deciding(dep, d) # {}
                           \/ <<dep, d>> \in reaping
    OBVIOUS
  <2>1. job[dep][d] \notin InFlight \cup {"none", "pending"}
    BY DEF TerminalDD, InFlight
  <2>2. ASSUME NEW a \in Deliverers, dl'[a].dep = dep, task'[a][d] \notin {"none", "done"}
        PROVE  dl[a].dep = dep /\ task[a][d] \notin {"none", "done"}
    <3>1. SameRow(a) /\ ~(Select(a) /\ d \in Waiting(dl[a].dep, dl[a].phase))
      BY <2>1, <2>2, TaskMoves DEF WaveIInv, Waiting, SameRow
    <3> QED
      BY <2>2, <3>1, TaskMoves DEF WaveIInv, SameRow
  <2>3. Delivering(dep, d)' \subseteq Delivering(dep, d)
    BY <2>2 DEF Delivering
  <2>4. <<dep, d>> \in reaping' => <<dep, d>> \in reaping
    <3>1. CASE ReaperSelect
      BY <2>1, <3>1 DEF ReaperSelect
    <3>2. CASE \E x \in reaping : ReaperWrite(x)
      BY <3>2 DEF ReaperWrite
    <3> QED
      BY <3>1, <3>2, ReapingWriters
  <2>5. ASSUME NEW w \in writes', w \notin writes, w.dep = dep, w.device = d
        PROVE  job[dep][d] = "failure" /\ w.status = "pending"
    BY <2>1, <2>5, DecidedOn
  <2>6. ASSUME job'[dep][d] # job[dep][d]
        PROVE  Delivering(dep, d) # {} \/ Deciding(dep, d) # {} \/ <<dep, d>> \in reaping
    <3>1. ASSUME NEW a \in Deliverers, Dispatch(a, d) \/ FleetFails(a, d), dl[a].dep = dep
          PROVE  Delivering(dep, d) # {}
      BY <3>1 DEF Dispatch, FleetFails, Delivering
    <3>2. ASSUME NEW w \in writes, w.dep = dep, w.device = d
          PROVE  Deciding(dep, d) # {}
      BY <3>2 DEF Deciding
    <3> QED
      BY <2>1, <2>6, <3>1, <3>2, JobMoves DEF JobMove
  <2> QED
    BY <2>3, <2>4, <2>5, <2>6 DEF Deciding
<1> QED
  BY InitWave, WaveStep, <1>1, PTL DEF Spec, OutcomeStays

-----------------------------------------------------------------------------
(* A success is earned: its report comes from a device that committed the  *)
(* version, and is credited to that version's job.                         *)
Earned ==
  /\ \A r \in reports : r.status = "success" => <<r.version, r.device>> \in committed
  /\ \A w \in writes : w.status = "success" => <<w.dep, w.device>> \in committed
  /\ SuccessMeansInstalled
Credited == \A r \in reports : FindActiveJob(r.device, r.version) \subseteq {r.version}

LEMMA InitEarned == Init => Earned
<1> SUFFICES ASSUME Init PROVE Earned
  OBVIOUS
<1>1. /\ reports = {} /\ writes = {} /\ recorded = [d \in Devices |-> None]
      /\ \A dep \in Deployments, d \in Devices : job[dep][d] \in {"none", "pending"}
  BY DEF Init
<1> QED
  BY <1>1 DEF Earned, SuccessMeansInstalled

LEMMA CommittedGrows == ASSUME [Next]_vars PROVE committed \subseteq committed'
BY FleetWriters DEF FleetDelivers, DeviceCommits, DeviceRollsBack, DeviceSilent, ReceiveResult,
  LoseReport, past

LEMMA EarnedStep ==
  ASSUME "report" \notin Operations, WaveIInv, Credited, Earned, [Next]_vars PROVE Earned'
<1>1. JobsOK /\ HandlersOK /\ FleetOK
  BY DEF WaveIInv, Typed, TypeOK
<1>2. ASSUME NEW r \in reports', r.status = "success"
      PROVE  <<r.version, r.device>> \in committed'
  <2>1. CASE r \in reports
    BY <1>2, <2>1, CommittedGrows DEF Earned
  <2>2. CASE r \notin reports
    <3>1. PICK d \in Devices : DeviceCommits(d) \/ DeviceRollsBack(d)
      BY <2>2, FleetWriters, Zenon DEF FleetDelivers, DeviceSilent, ReceiveResult, LoseReport
    <3> QED
      BY <1>2, <2>2, <3>1 DEF DeviceCommits, DeviceRollsBack
  <2> QED
    BY <2>1, <2>2
<1>3. ASSUME NEW w \in writes', w.status = "success"
      PROVE  <<w.dep, w.device>> \in committed'
  <2>1. CASE w \in writes
    BY <1>3, <2>1, CommittedGrows DEF Earned
  <2>2. CASE w \notin writes
    <3>1. \/ \E r \in reports : ReceiveResult(r)
          \/ \E d \in Devices, stage \in InFlight : ReceiveProgress(d, stage)
      BY <2>2, WritesWriters, Zenon DEF ApplyWrite, Telemetry, ReportStatus
    <3>2. ASSUME NEW d \in Devices, NEW stage \in InFlight, ReceiveProgress(d, stage)
          PROVE  FALSE
      BY <1>3, <2>2, <3>2 DEF ReceiveProgress, InFlight
    <3>3. ASSUME NEW r \in reports, ReceiveResult(r) PROVE <<w.dep, w.device>> \in committed'
      <4>1. PICK dep \in FindActiveJob(r.device, r.version) :
              w = [dep |-> dep, device |-> r.device, status |-> r.status]
        BY <2>2, <3>3 DEF ReceiveResult
      <4>2. w.dep = r.version /\ w.device = r.device /\ w.status = r.status
        BY <4>1 DEF Credited
      <4> QED
        BY <1>3, <4>2, CommittedGrows DEF Earned
    <3> QED
      BY <3>1, <3>2, <3>3
  <2> QED
    BY <2>1, <2>2
<1>4. ASSUME NEW dep \in Deployments, NEW d \in Devices, job'[dep][d] = "success"
      PROVE  <<dep, d>> \in committed'
  <2>1. CASE job[dep][d] = "success"
    BY <2>1, CommittedGrows DEF Earned, SuccessMeansInstalled
  <2>2. ASSUME NEW w \in writes, w.dep = dep, w.device = d, w.status = "success"
        PROVE  <<dep, d>> \in committed'
    BY <2>2, CommittedGrows DEF Earned
  <2> QED
    BY <1>4, <2>1, <2>2, JobMoves DEF JobMove
<1>5. ASSUME NEW d \in Devices, recorded'[d] # None PROVE <<recorded'[d], d>> \in committed'
  <2>1. CASE recorded'[d] = recorded[d]
    BY <1>5, <2>1, CommittedGrows DEF Earned, SuccessMeansInstalled
  <2>2. ASSUME NEW w \in writes, ApplyWrite(w) PROVE <<recorded'[d], d>> \in committed'
    <3>1. CASE w.status = "success" /\ w.device = d
      <4>1. recorded'[d] = w.dep
        BY <1>1, <2>2, <3>1 DEF ApplyWrite, JobsOK
      <4> QED
        BY <3>1, <4>1, CommittedGrows DEF Earned
    <3>2. CASE ~(w.status = "success" /\ w.device = d)
      <4>1. recorded'[d] = recorded[d]
        BY <1>1, <2>2, <3>2 DEF ApplyWrite, JobsOK
      <4> QED
        BY <2>1, <4>1
    <3> QED
      BY <3>1, <3>2
  <2>3. UNCHANGED recorded \/ \E w \in writes : ApplyWrite(w)
    BY JobWriters, Zenon DEF CreateJobs, Materialize, Dispatch, FleetFails, ReaperWrite,
      AbortJobs, JobAges
  <2> QED
    BY <2>1, <2>2, <2>3
<1> QED
  BY <1>2, <1>3, <1>4, <1>5 DEF Earned, SuccessMeansInstalled

(* A job is a success, and the device's record names the version, only if  *)
(* the device committed it: in a steady service of any deployments, and,   *)
(* whatever the overlaps, aborts and timeouts, where there is one.         *)
THEOREM SuccessIsInstalled ==
  ASSUME Steady \/ (OneDeployment /\ "report" \notin Operations)
  PROVE  Spec => []SuccessMeansInstalled
<1> DEFINE Inv == WaveIInv /\ Earned /\ (Steady => SteadyInv)
<1>1. Init => Inv
  BY InitWave, InitEarned, InitSteady
<1>2. Inv /\ [Next]_vars => Inv'
  <2> SUFFICES ASSUME Inv, [Next]_vars PROVE Inv'
    OBVIOUS
  <2>1. FleetOK
    BY DEF WaveIInv, Typed, TypeOK
  <2>2. "report" \notin Operations
    BY DEF Steady, ResultsOnly
  <2>3. Credited
    <3>1. ASSUME OneDeployment, NEW r \in reports, NEW dep \in FindActiveJob(r.device, r.version)
          PROVE  dep = r.version
      <4>1. dep \in Deployments /\ r.version \in Deployments
        BY <2>1, <3>1 DEF FindActiveJob, ActiveJobs, FleetOK
      <4> QED
        BY <3>1, <4>1 DEF OneDeployment
    <3>2. CASE Steady
      BY <3>2, Attributed DEF Credited, Steady
    <3>3. CASE OneDeployment
      BY <3>1, <3>3 DEF Credited
    <3> QED
      BY <3>2, <3>3
  <2>4. Earned'
    BY <2>2, <2>3, EarnedStep
  <2> QED
    BY <2>4, WaveStep, SteadyStep
<1>3. Inv => SuccessMeansInstalled
  BY DEF Earned
<1> QED
  BY <1>1, <1>2, <1>3, PTL DEF Spec

-----------------------------------------------------------------------------
(* The status of a deployment.  What a step does to it.                    *)
StatusMove(dep) ==
  \/ status'[dep] = status[dep] /\ reason'[dep] = reason[dep]
  \/ \E a \in Deliverers : Activate(a) /\ dl[a].dep = dep /\ status'[dep] = "active"
  \/ /\ Halt /\ "supervisor" \in Deliverers /\ dl["supervisor"].dep = dep
     /\ status'[dep] = "paused" /\ reason'[dep] = "halt"
  \/ \E a \in Deliverers : /\ EndDelivery(a) /\ dl[a].dep = dep /\ dl[a].limited
                           /\ status'[dep] = "paused"
  \/ \E s \in swaps : /\ RecomputeSwap(s) /\ s.dep = dep /\ status[dep] = s.seen
                      /\ status'[dep] = "finished"
  \/ \E c \in Callers : AbortStatus(c) \/ Resume(c)
  \/ status[dep] = "paused" /\ reason[dep] = "rate" /\ status'[dep] = "active"

LEMMA StatusMoves ==
  ASSUME Typed, [Next]_vars, NEW dep \in Deployments PROVE StatusMove(dep)
<1>1. RowsOK /\ HandlersOK /\ DeliveryOK
  BY DEF Typed, TypeOK
<1>2. CASE UNCHANGED <<status, reason>>
  BY <1>2 DEF StatusMove
<1>3. ASSUME NEW a \in Deliverers, Activate(a) PROVE StatusMove(dep)
  <2>1. status' = [status EXCEPT ![dl[a].dep] = "active"] /\ reason' = reason
    BY <1>3 DEF Activate
  <2> QED
    BY <1>1, <1>3, <2>1 DEF StatusMove, RowsOK
<1>4. ASSUME NEW a \in Deliverers, EndDelivery(a) PROVE StatusMove(dep)
  <2>1. \/ UNCHANGED <<status, reason>>
        \/ /\ status' = [status EXCEPT ![dl[a].dep] = "paused"]
           /\ reason' = [reason EXCEPT ![dl[a].dep] = "rate"]
           /\ dl[a].limited
    BY <1>4, Zenon DEF EndDelivery
  <2>2. CASE dep = dl[a].dep
    BY <1>1, <1>2, <1>4, <2>1, <2>2 DEF StatusMove, RowsOK
  <2>3. CASE dep # dl[a].dep
    BY <1>1, <2>1, <2>3 DEF StatusMove, RowsOK
  <2> QED
    BY <2>2, <2>3
<1>5. CASE Halt
  <2>1. /\ status' = [status EXCEPT ![dl["supervisor"].dep] = "paused"]
        /\ reason' = [reason EXCEPT ![dl["supervisor"].dep] = "halt"]
        /\ "supervisor" \in Deliverers
    BY <1>5, Zenon DEF Halt
  <2>2. CASE dep = dl["supervisor"].dep
    BY <1>1, <1>5, <2>1, <2>2 DEF StatusMove, RowsOK
  <2>3. CASE dep # dl["supervisor"].dep
    BY <1>1, <2>1, <2>3 DEF StatusMove, RowsOK
  <2> QED
    BY <2>2, <2>3
<1>6. ASSUME NEW s \in swaps, RecomputeSwap(s) PROVE StatusMove(dep)
  <2>1. /\ reason' = reason
        /\ \/ status' = status
           \/ status[s.dep] = s.seen /\ status' = [status EXCEPT ![s.dep] = "finished"]
    BY <1>6 DEF RecomputeSwap
  <2>2. CASE dep = s.dep
    BY <1>1, <1>6, <2>1, <2>2 DEF StatusMove, RowsOK
  <2>3. CASE dep # s.dep
    BY <1>1, <2>1, <2>3 DEF StatusMove, RowsOK
  <2> QED
    BY <2>2, <2>3
<1>7. ASSUME NEW e \in Deployments, DashboardOverride(e) PROVE StatusMove(dep)
  <2>1. /\ status' = [status EXCEPT ![e] = "active"] /\ reason' = reason
        /\ status[e] = "paused" /\ reason[e] = "rate"
    BY <1>7 DEF DashboardOverride
  <2> QED
    BY <1>1, <2>1 DEF StatusMove, RowsOK
<1>8. ASSUME NEW c \in Callers, AbortStatus(c) \/ Resume(c) PROVE StatusMove(dep)
  BY <1>8, Zenon DEF StatusMove
<1> QED
  BY <1>2, <1>3, <1>4, <1>5, <1>6, <1>7, <1>8, StatusWriters, Zenon

(* What a deliverer past its check of the row has seen there.              *)
SameDep(a) == dl'[a].dep = dl[a].dep
Working == {"select", "deliver", "decide", "halt", "advance"}
HoldMove(a) ==
  \/ dl'[a].at \notin Working \cup {"activate"}
  \/ /\ dl'[a].at = "activate" /\ status[dl'[a].dep] = "scheduled" /\ UNCHANGED status
  \/ /\ dl'[a].at = "select" /\ status[dl'[a].dep] = "active" /\ UNCHANGED status
  \/ /\ dl'[a].at = "decide" /\ status[dl'[a].dep] = "active" /\ UNCHANGED status /\ IsPhased
     /\ "supervisor" \in Deliverers
  \/ Activate(a) /\ SameDep(a) /\ dl'[a].at = "select"
  \/ /\ SameDep(a) /\ dl[a].at = "activate" /\ dl'[a].at = "activate"
  \/ /\ SameDep(a) /\ dl[a].at \in Working /\ dl'[a].at \in Working
     /\ dl'[a].at = "decide" => dl[a].at = "decide"
     /\ dl'[a].at \in {"halt", "advance"} => dl[a].at \in {"decide", "halt", "advance"}
     /\ dl'[a].at = "deliver" =>
          Select(a) \/ (dl[a].at = "deliver" /\ dl'[a].limited = dl[a].limited)

LEMMA HoldMoves ==
  ASSUME Typed, [Next]_vars, NEW a \in Deliverers PROVE HoldMove(a)
<1>1. DeliveryOK /\ HoldersInv
  BY DEF Typed, TypeOK
<1>2. CASE dl'[a] = dl[a]
  BY <1>2 DEF HoldMove, SameDep, Working
<1>3. ASSUME NEW b \in Deliverers, NEW from, Stop(b, from) PROVE HoldMove(a)
  <2>1. dl'[a] = dl[a] \/ dl'[a].at = "idle"
    BY <1>1, <1>3 DEF Stop, Idle, DeliveryOK
  <2> QED
    BY <1>2, <2>1 DEF HoldMove, Working
<1>4. CASE PollerSteps
  <2>1. ASSUME NEW dep \in Deployments, PollerPick(dep) PROVE HoldMove(a)
    <3>1. \E at \in {"materialize", "row"} :
            dl' = [dl EXCEPT !["poller"].dep = dep, !["poller"].at = at]
      BY <2>1 DEF PollerPick
    <3>2. dl'[a] = dl[a] \/ dl'[a].at \in {"materialize", "row"}
      BY <1>1, <3>1 DEF DeliveryOK, Delivery
    <3> QED
      BY <1>2, <3>2 DEF HoldMove, Working
  <2>2. ASSUME NEW t \in SUBSET Devices, Materialize(t) PROVE HoldMove(a)
    <3>1. CASE Stop("poller", "materialize")
      BY <1>3, <2>2, <3>1 DEF Materialize
    <3>2. CASE Step("poller", "materialize", "row")
      <4>1. dl'[a] = dl[a] \/ dl'[a].at = "row"
        BY <1>1, <3>2 DEF Step, DeliveryOK, Delivery
      <4> QED
        BY <1>2, <4>1 DEF HoldMove, Working
    <3> QED
      BY <2>2, <3>1, <3>2, Zenon DEF Materialize
  <2> QED
    BY <1>4, <2>1, <2>2, Zenon DEF PollerSteps
<1>5. CASE SupervisorSteps
  <2>1. ASSUME NEW dep \in Deployments, SupervisorPick(dep) PROVE HoldMove(a)
    <3>1. /\ IsPhased /\ "supervisor" \in Deliverers /\ status[dep] = "active"
          /\ UNCHANGED status
      BY <2>1 DEF SupervisorPick, rows
    <3>2. dl'[a] = dl[a] \/ (dl'[a].at = "decide" /\ dl'[a].dep = dep)
      BY <1>1, <2>1 DEF SupervisorPick, DeliveryOK, Idle
    <3> QED
      BY <1>2, <3>1, <3>2 DEF HoldMove
  <2>2. CASE Decide
    <3>1. \/ Stop("supervisor", "decide")
          \/ \E decision \in {"halt", "advance"} : Step("supervisor", "decide", decision)
      BY <2>2 DEF Decide, Decision
    <3>2. ASSUME NEW decision \in {"halt", "advance"}, Step("supervisor", "decide", decision)
          PROVE  HoldMove(a)
      <4>1. \/ dl'[a] = dl[a]
            \/ SameDep(a) /\ dl[a].at = "decide" /\ dl'[a].at \in {"halt", "advance"}
        BY <1>1, <3>2 DEF Step, DeliveryOK, Delivery, SameDep
      <4> QED
        BY <1>2, <4>1 DEF HoldMove, Working
    <3>3. "supervisor" \in Deliverers
      BY <2>2 DEF Decide
    <3> QED
      BY <1>3, <3>1, <3>2, <3>3
  <2>3. CASE Halt
    BY <1>3, <2>3 DEF Halt
  <2>4. CASE Advance
    <3>1. \/ dl'[a] = dl[a]
          \/ SameDep(a) /\ dl[a].at = "advance" /\ dl'[a].at = "select"
      BY <1>1, <2>4 DEF Advance, DeliveryOK, Delivery, SameDep
    <3> QED
      BY <1>2, <3>1 DEF HoldMove, Working, SameDep
  <2> QED
    BY <1>5, <2>1, <2>2, <2>3, <2>4, Zenon DEF SupervisorSteps
<1>6. ASSUME NEW b \in Deliverers, DeliverySteps(b) PROVE HoldMove(a)
  <2>1. CASE ReadRow(b)
    <3>1. CASE Stop(b, "row")
      BY <1>3, <3>1
    <3>2. CASE /\ status[dl[b].dep] \in {"scheduled", "active"}
               /\ dl' = [dl EXCEPT ![b].phase = phase[dl[b].dep],
                                   ![b].override = override[dl[b].dep],
                                   ![b].at = IF status[dl[b].dep] = "scheduled"
                                             THEN "activate" ELSE "select"]
      <4>1. UNCHANGED status
        BY <2>1 DEF ReadRow, rows
      <4>2. \/ dl'[a] = dl[a]
            \/ /\ SameDep(a)
               /\ dl'[a].at = IF status[dl[a].dep] = "scheduled" THEN "activate" ELSE "select"
               /\ status[dl[a].dep] \in {"scheduled", "active"}
        BY <1>1, <3>2 DEF DeliveryOK, Delivery, SameDep
      <4> QED
        BY <1>2, <4>1, <4>2 DEF HoldMove, SameDep
    <3> QED
      BY <2>1, <3>1, <3>2 DEF ReadRow
  <2>2. CASE Activate(b)
    <3>1. dl'[a] = dl[a] \/ (a = b /\ SameDep(a) /\ dl'[a].at = "select")
      BY <1>1, <2>2 DEF Activate, Step, DeliveryOK, Delivery, SameDep
    <3> QED
      BY <1>2, <2>2, <3>1 DEF HoldMove
  <2>3. CASE SelectNothing(b) \/ EndDelivery(b)
    BY <1>3, <2>3 DEF SelectNothing, EndDelivery
  <2>4. CASE Select(b)
    <3>1. \/ dl'[a] = dl[a]
          \/ a = b /\ SameDep(a) /\ dl[a].at = "select" /\ dl'[a].at = "deliver"
      BY <1>1, <2>4 DEF Select, DeliveryOK, Delivery, SameDep
    <3> QED
      BY <1>2, <2>4, <3>1 DEF HoldMove, Working
  <2>5. ASSUME NEW d \in Devices,
               Dispatch(b, d) \/ FleetDelivers(b, d) \/ FleetAnswers(b, d) \/ FleetFails(b, d)
        PROVE  HoldMove(a)
    <3>1. dl' = dl \/ dl' = [dl EXCEPT ![b].delivered = TRUE]
      BY <2>5, Zenon DEF Dispatch, FleetDelivers, FleetAnswers, FleetFails
    <3>2. \/ dl'[a] = dl[a]
          \/ SameDep(a) /\ dl'[a].at = dl[a].at /\ dl'[a].limited = dl[a].limited
      BY <1>1, <3>1 DEF DeliveryOK, Delivery, SameDep
    <3> QED
      BY <1>2, <3>2 DEF HoldMove, Working
  <2> QED
    BY <1>6, <2>1, <2>2, <2>3, <2>4, <2>5, Zenon DEF DeliverySteps
<1>7. ASSUME NEW dep \in Deployments, NEW force \in BOOLEAN, StarterPick(dep, force)
      PROVE  HoldMove(a)
  <2>1. dl'[a] = dl[a] \/ dl'[a].at = "row"
    BY <1>1, <1>7 DEF StarterPick, DeliveryOK, Delivery
  <2> QED
    BY <1>2, <2>1 DEF HoldMove, Working
<1>8. CASE UNCHANGED <<dl, task>>
  BY <1>2, <1>8
<1> QED
  BY <1>4, <1>5, <1>6, <1>7, <1>8, DeliveryWriters, Zenon

(* A steady service that nobody resumes by hand.                           *)
Unattended == Steady /\ "resume" \notin Operations

NoCalls == \A c \in Callers : call[c].at = "idle"

(* A scheduled deployment has commanded nothing, and the one to activate is*)
(* still scheduled; whoever works on a deployment found it active; whoever *)
(* holds a device back has left its job pending.                           *)
Live ==
  /\ \A dep \in Deployments : status[dep] = "scheduled" =>
       \A d \in Devices : job[dep][d] \in {"none", "pending"}
  /\ \A a \in Deliverers :
       /\ dl[a].at = "activate" => status[dl[a].dep] = "scheduled"
       /\ dl[a].at \in Working => status[dl[a].dep] \in {"active", "finished"}
       /\ dl[a].at = "deliver" /\ dl[a].limited =>
            \E d \in Devices : job[dl[a].dep][d] = "pending" /\ task[a][d] = "none"

(* What the agent was told of stays finished, or was halted too late.      *)
Told ==
  /\ \A s \in swaps : s.seen \notin NoFinish
  /\ \A dep \in Deployments : notified[dep] # 0 =>
       /\ notified[dep] = 1 /\ AllDone(dep)
       /\ status[dep] = "finished" \/ (status[dep] = "paused" /\ reason[dep] = "halt")

StatusInv == SteadyInv /\ NoCalls /\ Live /\ Told

LEMMA InitStatus == Init => StatusInv
<1> SUFFICES ASSUME Init PROVE StatusInv
  OBVIOUS
<1>1. /\ swaps = {} /\ call = [c \in Callers |-> NoCall] /\ dl = [a \in Deliverers |-> Idle]
      /\ notified = [dep \in Deployments |-> 0]
      /\ \A dep \in Deployments, d \in Devices : job[dep][d] \in {"none", "pending"}
  BY DEF Init
<1>2. NoCalls /\ Told /\ Live
  BY <1>1 DEF NoCalls, NoCall, Told, Live, Idle, Working
<1> QED
  BY <1>2, InitSteady DEF StatusInv

LEMMA NoCallsStep ==
  ASSUME Unattended, NoCalls, [Next]_vars PROVE NoCalls'
<1>1. "abort" \notin Operations /\ "resume" \notin Operations
  BY DEF Unattended, Steady
<1>2. ASSUME NEW c \in Callers, AbortStatus(c) \/ AbortJobs(c) \/ Resume(c) PROVE FALSE
  BY <1>2 DEF AbortStatus, AbortJobs, Resume, NoCalls
<1>3. ASSUME NEW c, NEW op \in {"abort", "resume"}, NEW dep, ToolRead(c, op, dep) PROVE FALSE
  BY <1>1, <1>3 DEF ToolRead
<1>4. Tools => UNCHANGED call
  BY <1>2, <1>3, Zenon DEF Tools, StarterPick, QuietHandlers, ReportStatus, DashboardOverride,
    handlers
<1>5. UNCHANGED call
  BY <1>4, HandlerWriters, Zenon DEF EndDelivery, ReceiveResult, JobWrites, ApplyWrite,
    RecomputeRead, RecomputeSwap, ReaperSteps, ReaperSelect, ReaperWrite, Creation, CreateJobs,
    CreateFails, Telemetry, ReceiveProgress
<1> QED
  BY <1>5 DEF NoCalls

(* No one else works while a deliverer does.                               *)
LEMMA WorksAlone ==
  ASSUME StatusInv, NEW a \in Deliverers, dl[a].at \in Working \cup {"activate"},
         NEW b \in Deliverers, dl[b].at \in Working \cup {"activate"}
  PROVE  a = b
BY DEF StatusInv, SteadyInv, OneDelivery, Working

(* Whoever a status is written by holds the deployment, or finishes it, or *)
(* resumes it within the rate limit.                                       *)
LEMMA StatusKept ==
  ASSUME StatusInv, [Next]_vars, NEW dep \in Deployments
  PROVE  \/ status'[dep] = status[dep] /\ reason'[dep] = reason[dep]
         \/ \E a \in Deliverers : /\ Activate(a) /\ dl[a].dep = dep
                                  /\ status[dep] = "scheduled" /\ status'[dep] = "active"
         \/ /\ Halt /\ "supervisor" \in Deliverers /\ dl["supervisor"].dep = dep
            /\ status'[dep] = "paused" /\ reason'[dep] = "halt"
            /\ status[dep] \in {"active", "finished"}
         \/ \E a \in Deliverers : /\ EndDelivery(a) /\ dl[a].dep = dep /\ ~AllDone(dep)
                                  /\ status[dep] = "active" /\ status'[dep] = "paused"
         \/ /\ status[dep] = "active" /\ AllDone(dep) /\ status'[dep] = "finished"
         \/ status[dep] = "paused" /\ reason[dep] = "rate" /\ status'[dep] = "active"
<1>1. /\ Typed /\ NoCalls /\ Live /\ Told /\ DoneStays /\ RowsOK
  BY DEF StatusInv, SteadyInv, WaveIInv, Typed, TypeOK
<1>2. AllDone(dep) => status[dep] # "scheduled"
  BY <1>1 DEF AllDone, Live, Targets, TerminalDD
<1>3. ASSUME NEW a \in Deliverers, Activate(a), dl[a].dep = dep
      PROVE  status[dep] = "scheduled"
  BY <1>1, <1>3 DEF Activate, Step, Live
<1>4. ASSUME Halt, "supervisor" \in Deliverers, dl["supervisor"].dep = dep
      PROVE  status[dep] \in {"active", "finished"}
  BY <1>1, <1>4 DEF Halt, Stop, Live, Working
<1>5. ASSUME NEW a \in Deliverers, EndDelivery(a), dl[a].dep = dep, dl[a].limited
      PROVE  status[dep] = "active" /\ ~AllDone(dep)
  <2>1. dl[a].at = "deliver"
    BY <1>5 DEF EndDelivery, Stop
  <2>2. PICK d \in Devices : job[dep][d] = "pending"
    BY <1>1, <1>5, <2>1 DEF Live
  <2>3. ~AllDone(dep)
    BY <2>2 DEF AllDone, Targets, TerminalDD
  <2>4. status[dep] \in {"active", "finished"}
    BY <1>1, <1>5, <2>1 DEF Live, Working
  <2> QED
    BY <1>1, <2>3, <2>4 DEF DoneStays
<1>6. ASSUME NEW s \in swaps, s.dep = dep, status[dep] = s.seen
      PROVE  status[dep] = "active" /\ AllDone(dep)
  <2>1. AllDone(dep) /\ status[dep] \notin NoFinish
    BY <1>1, <1>6 DEF DoneStays, Told
  <2> QED
    BY <1>1, <1>2, <2>1 DEF RowsOK, DeploymentStatus, NoFinish
<1>7. ASSUME NEW c \in Callers, AbortStatus(c) \/ Resume(c) PROVE FALSE
  BY <1>1, <1>7 DEF AbortStatus, Resume, NoCalls
<1> QED
  BY <1>1, <1>3, <1>4, <1>5, <1>6, <1>7, StatusMoves DEF StatusMove

(* A device held back stays so till the end of the delivery.               *)
LEMMA HeldBack ==
  ASSUME Steady, StatusInv, [Next]_vars, NEW a \in Deliverers, dl'[a].at = "deliver",
         dl'[a].limited
  PROVE  \E d \in Devices : job'[dl'[a].dep][d] = "pending" /\ task'[a][d] = "none"
<1>1. /\ Typed /\ WaveIInv /\ Results /\ Commanded /\ NoAborts /\ Live
      /\ DeliveryOK /\ HoldersInv
  BY DEF StatusInv, SteadyInv, WaveIInv, Typed, TypeOK
<1>2. CASE Select(a)
  <2> DEFINE dep == dl[a].dep
             waiting == Waiting(dep, dl[a].phase)
             limited == IF Bypass(a) THEN {} ELSE {c \in waiting : RateLimited(dep, c)}
  <2>1. /\ dl' = [dl EXCEPT ![a].at = "deliver", ![a].limited = limited # {}]
        /\ task' = [task EXCEPT ![a] =
                      [c \in Devices |-> IF c \in waiting \ limited THEN "queued" ELSE "none"]]
        /\ job' = job
    BY <1>2 DEF Select, jobs
  <2>2. limited \subseteq waiting /\ waiting \subseteq Devices
        /\ \A c \in waiting : job[dep][c] = "pending"
    BY DEF Waiting
  <2> HIDE DEF waiting, limited
  <2>3. dl'[a].dep = dep /\ limited # {}
    BY <1>1, <2>1 DEF DeliveryOK, Delivery
  <2>4. PICK d \in limited : TRUE
    BY <2>3
  <2>5. d \in Devices /\ job[dep][d] = "pending"
    BY <2>2
  <2>6. task'[a][d] = "none"
    BY <1>1, <2>1, <2>4, <2>5 DEF DeliveryOK
  <2> QED
    BY <2>1, <2>3, <2>5, <2>6
<1>3. CASE dl[a].at = "deliver" /\ dl'[a].limited = dl[a].limited
  <2>1. dl'[a].dep = dl[a].dep
    BY <1>1, <1>3, HoldMoves DEF HoldMove, SameDep, Activate, Step, Working
  <2>2. dl[a].dep \in Deployments
    BY <1>1, <1>3 DEF HoldersInv
  <2>3. PICK d \in Devices : job[dl[a].dep][d] = "pending" /\ task[a][d] = "none"
    BY <1>1, <1>3 DEF Live
  <2>4. task'[a][d] = "none"
    <3>1. ~Select(a)
      BY <1>3 DEF Select
    <3> QED
      BY <1>1, <2>3, <3>1, TaskMoves
  <2>5. ASSUME NEW b \in Deliverers, task[b][d] # "none" PROVE FALSE
    <3>1. dl[b].at = "deliver"
      BY <1>1, <2>5, TaskHolds
    <3>2. a = b
      BY <1>3, <3>1, WorksAlone DEF Working
    <3> QED
      BY <2>3, <2>5, <3>2
  <2>6. <<dl[a].dep, d>> \notin sent \cup reaping
    BY <1>1, <2>3 DEF Commanded
  <2>7. ~Written(dl[a].dep, d)
    BY <1>1, <2>2, <2>6 DEF Commanded, Out
  <2>8. JobMove(dl[a].dep, d)
    BY <1>1, <2>2, JobMoves
  <2>9. job'[dl[a].dep][d] = "pending"
    BY <1>1, <2>3, <2>5, <2>6, <2>7, <2>8
       DEF JobMove, Dispatch, FleetFails, AbortJobs, NoAborts, Written
  <2> QED
    BY <2>1, <2>4, <2>9
<1> QED
  BY <1>1, <1>2, <1>3, HoldMoves DEF HoldMove, Activate, Step, Working, DeliveryOK, Delivery

LEMMA LiveStep ==
  ASSUME Unattended, StatusInv, [Next]_vars PROVE Live'
<1>1. /\ Steady /\ Typed /\ SteadyInv /\ WaveIInv /\ Results /\ Commanded /\ NoAborts /\ Live
      /\ RowsOK /\ DeliveryOK /\ HoldersInv
  BY DEF Unattended, StatusInv, SteadyInv, WaveIInv, Typed, TypeOK
<1>2. ASSUME NEW dep \in Deployments, status'[dep] = "scheduled", NEW d \in Devices
      PROVE  job'[dep][d] \in {"none", "pending"}
  <2>1. status[dep] = "scheduled" /\ job[dep][d] \in {"none", "pending"}
    BY <1>1, <1>2, NeverScheduledAgain DEF Live
  <2>2. ASSUME NEW a \in Deliverers, dl[a].dep = dep, task[a][d] # "none" PROVE FALSE
    BY <1>1, <2>1, <2>2, TaskHolds DEF Live, Working
  <2>3. <<dep, d>> \notin sent \cup reaping
    BY <1>1, <2>1 DEF Commanded
  <2>4. ~Written(dep, d)
    BY <1>1, <2>3 DEF Commanded, Out
  <2>5. \A a \in Deliverers : dl[a].dep = dep => ~Dispatch(a, d) /\ ~FleetFails(a, d)
    BY <2>2 DEF Dispatch, FleetFails
  <2>6. \A c \in Callers : ~AbortJobs(c)
    BY <1>1 DEF AbortJobs, NoAborts
  <2>7. \A w \in writes : ~(w.dep = dep /\ w.device = d)
    BY <2>4 DEF Written
  <2>8. JobMove(dep, d)
    BY <1>1, JobMoves
  <2> QED
    BY <2>1, <2>3, <2>5, <2>6, <2>7, <2>8 DEF JobMove
<1>3. ASSUME NEW a \in Deliverers, dl'[a].at \in Working \cup {"activate"},
             dl[a].at \in Working \cup {"activate"}, SameDep(a), ~Activate(a)
      PROVE  /\ dl[a].dep \in Deployments
             /\ status'[dl[a].dep] = status[dl[a].dep] \/ status'[dl[a].dep] = "finished"
  <2>1. dl[a].dep \in Deployments
    BY <1>1, <1>3 DEF HoldersInv, Working
  <2>2. ASSUME NEW b \in Deliverers, Activate(b) PROVE FALSE
    BY <1>3, <2>2, WorksAlone DEF Activate, Step
  <2>3. ASSUME NEW b \in Deliverers, EndDelivery(b) \/ (Halt /\ b = "supervisor") PROVE FALSE
    <3>1. dl[b].at \in Working /\ dl'[b].at = "idle"
      BY <1>1, <2>3 DEF EndDelivery, Halt, Stop, Idle, DeliveryOK, Working
    <3>2. a = b
      BY <1>3, <3>1, WorksAlone
    <3> QED
      BY <1>3, <3>1, <3>2 DEF Working
  <2>4. status[dl[a].dep] # "paused"
    BY <1>1, <1>3 DEF Live
  <2> QED
    BY <2>1, <2>2, <2>3, <2>4, StatusKept
<1>4. ASSUME NEW a \in Deliverers, dl'[a].at = "activate"
      PROVE  status'[dl'[a].dep] = "scheduled"
  <2>1. CASE status[dl'[a].dep] = "scheduled" /\ UNCHANGED status
    BY <2>1
  <2>2. CASE SameDep(a) /\ dl[a].at = "activate"
    <3>1. ~Activate(a)
      BY <1>1, <1>4 DEF Activate, Step, DeliveryOK, Delivery
    <3>2. dl[a].dep \in Deployments /\ status[dl[a].dep] = "scheduled"
      BY <1>1, <2>2 DEF Live, HoldersInv
    <3>3. \E d \in Devices : TRUE
      BY DeploymentAssumption
    <3>4. status'[dl[a].dep] # "finished"
      <4>1. ASSUME status'[dl[a].dep] = "finished" PROVE FALSE
        <5>1. AllDone(dl[a].dep)
          BY <1>1, <3>2, <4>1, StatusKept
        <5> QED
          BY <1>1, <3>2, <5>1 DEF AllDone, Targets, Live, TerminalDD
      <4> QED
        BY <4>1
    <3> QED
      BY <1>3, <1>4, <2>2, <3>1, <3>2, <3>4 DEF SameDep
  <2> QED
    BY <1>1, <1>4, <2>1, <2>2, HoldMoves DEF HoldMove, Working
<1>5. ASSUME NEW a \in Deliverers, dl'[a].at \in Working
      PROVE  status'[dl'[a].dep] \in {"active", "finished"}
  <2>1. CASE status[dl'[a].dep] = "active" /\ UNCHANGED status
    BY <2>1
  <2>2. CASE Activate(a) /\ SameDep(a)
    <3>1. dl[a].dep \in Deployments
      BY <1>1, <2>2 DEF Activate, Step, HoldersInv
    <3> QED
      BY <1>1, <2>2, <3>1 DEF Activate, SameDep, RowsOK
  <2>3. CASE SameDep(a) /\ dl[a].at \in Working
    <3>1. ~Activate(a) /\ status[dl[a].dep] \in {"active", "finished"}
      BY <1>1, <2>3 DEF Activate, Step, Working, Live
    <3> QED
      BY <1>3, <1>5, <2>3, <3>1 DEF SameDep
  <2> QED
    BY <1>1, <1>5, <2>1, <2>2, <2>3, HoldMoves DEF HoldMove, Working
<1>6. ASSUME NEW a \in Deliverers, dl'[a].at = "deliver", dl'[a].limited
      PROVE  \E d \in Devices : job'[dl'[a].dep][d] = "pending" /\ task'[a][d] = "none"
  BY <1>1, <1>6, HeldBack
<1> QED
  BY <1>2, <1>4, <1>5, <1>6 DEF Live

LEMMA NotifiedWriters ==
  ASSUME [Next]_vars
  PROVE  \/ UNCHANGED notified
         \/ \E s \in swaps : RecomputeSwap(s)
         \/ \E c \in Callers : AbortJobs(c)
<1> USE DEF past
<1>1. CASE PollerSteps \/ SupervisorSteps \/ Telemetry \/ ReportSteps \/ UNCHANGED vars
  BY <1>1, Zenon DEF PollerSteps, PollerPick, Materialize, SupervisorSteps, SupervisorPick,
    Decide, Halt, Advance, Telemetry, ReceiveProgress, ReportSteps, ReceiveResult, LoseReport,
    vars
<1>2. CASE \E a \in Deliverers : DeliverySteps(a)
  <2>1. PICK a \in Deliverers : DeliverySteps(a)
    BY <1>2
  <2>2. CASE ReadRow(a) \/ Activate(a) \/ Select(a)
    BY <2>2, Zenon DEF ReadRow, Activate, Select
  <2>3. CASE SelectNothing(a) \/ EndDelivery(a)
    BY <2>3, Zenon DEF SelectNothing, EndDelivery
  <2>4. CASE \E d \in Devices : Dispatch(a, d) \/ FleetDelivers(a, d)
                           \/ FleetAnswers(a, d) \/ FleetFails(a, d)
    BY <2>4, Zenon DEF Dispatch, FleetDelivers, FleetAnswers, FleetFails
  <2> QED
    BY <2>1, <2>2, <2>3, <2>4, Zenon DEF DeliverySteps
<1>2a. CASE \E d \in Devices : DeviceSteps(d)
  BY <1>2a, Zenon DEF DeviceSteps, DeviceCommits, DeviceRollsBack, DeviceSilent
<1>3. CASE JobWrites \/ ReaperSteps \/ Creation
  BY <1>3, Zenon DEF JobWrites, ApplyWrite, RecomputeRead, ReaperSteps, ReaperSelect,
    ReaperWrite, Creation, CreateJobs, CreateFails
<1>4. CASE Tools \/ Clock
  BY <1>4, Zenon DEF Tools, StarterPick, ReportStatus, ToolRead, AbortStatus, Resume,
    DashboardOverride, Clock, SoakElapses, JobAges
<1> QED
  BY <1>1, <1>2, <1>2a, <1>3, <1>4, Zenon DEF Next

LEMMA ToldStep ==
  ASSUME Unattended, StatusInv, [Next]_vars PROVE Told'
<1>1. /\ Typed /\ SteadyInv /\ NoCalls /\ Told /\ Live
      /\ RowsOK /\ HandlersOK /\ PastOK /\ DoneStays /\ DoneStays'
  BY SteadyStep DEF Unattended, StatusInv, SteadyInv, WaveIInv, Typed, TypeOK
<1>2. ASSUME NEW s \in swaps' PROVE s.seen \notin NoFinish
  <2>1. CASE s \in swaps
    BY <1>1, <2>1 DEF Told
  <2>2. CASE s \notin swaps
    <3>1. PICK dep \in recompute : RecomputeRead(dep)
      BY <2>2, SwapWriters DEF RecomputeSwap
    <3> QED
      BY <2>2, <3>1 DEF RecomputeRead
  <2> QED
    BY <2>1, <2>2
<1>3. ASSUME NEW dep \in Deployments, notified'[dep] # 0
      PROVE  /\ notified'[dep] = 1 /\ AllDone(dep)'
             /\ \/ status'[dep] = "finished"
                \/ status'[dep] = "paused" /\ reason'[dep] = "halt"
  <2>1. CASE notified'[dep] = notified[dep]
    <3>1. /\ notified[dep] = 1 /\ AllDone(dep)
          /\ status[dep] = "finished" \/ (status[dep] = "paused" /\ reason[dep] = "halt")
      BY <1>1, <1>3, <2>1 DEF Told
    <3>2. AllDone(dep)'
      BY <1>1, <3>1, AllDoneStays
    <3> QED
      BY <2>1, <3>1, <3>2, StatusKept
  <2>2. CASE notified'[dep] # notified[dep]
    <3>1. PICK s \in swaps : RecomputeSwap(s)
      BY <1>1, <2>2, NotifiedWriters DEF AbortJobs, NoCalls
    <3>2. /\ s.dep \in Deployments /\ status[s.dep] = s.seen
          /\ status' = [status EXCEPT ![s.dep] = "finished"] /\ Notify(s.dep)
      BY <1>1, <2>2, <3>1 DEF RecomputeSwap, HandlersOK
    <3>3. s.dep = dep
      BY <1>1, <2>2, <3>2 DEF Notify, PastOK
    <3>4. status[dep] \notin NoFinish
      BY <1>1, <3>2, <3>3 DEF Told
    <3>5. notified[dep] = 0
      BY <1>1, <3>4 DEF Told, NoFinish
    <3>6. notified'[dep] = 1 /\ status'[dep] = "finished"
      BY <1>1, <3>2, <3>3, <3>5 DEF Notify, PastOK, RowsOK
    <3>7. AllDone(dep)'
      BY <1>1, <3>3, AllDoneStays DEF DoneStays
    <3> QED
      BY <3>6, <3>7
  <2> QED
    BY <2>1, <2>2
<1> QED
  BY <1>2, <1>3 DEF Told

LEMMA StatusStep ==
  ASSUME Unattended, StatusInv, [Next]_vars PROVE StatusInv'
BY SteadyStep, NoCallsStep, LiveStep, ToldStep DEF StatusInv, Unattended

(* Where nobody resumes or aborts, the agent is told of the end of a       *)
(* deployment at most once.                                                *)
THEOREM AgentIsToldOnce == ASSUME Unattended PROVE Spec => []NotifiedOnce
<1>1. StatusInv /\ [Next]_vars => StatusInv'
  BY StatusStep
<1>2. StatusInv => NotifiedOnce
  <2> SUFFICES ASSUME StatusInv, NEW dep \in Deployments PROVE notified[dep] <= 1
    BY DEF NotifiedOnce
  <2> QED
    BY DEF StatusInv, Told
<1> QED
  BY InitStatus, <1>1, <1>2, PTL DEF Spec

(* Where moreover no supervisor halts a rollout that has just finished, a  *)
(* status changes along the table of transitions.py only.                  *)
Unsupervised == "supervisor" \in Deliverers => ~IsPhased

THEOREM StatusFollowsTable ==
  ASSUME Unattended, Unsupervised PROVE Spec => StatusTransitions
<1> DEFINE NoSweep == \A a \in Deliverers : dl[a].at \notin {"decide", "halt", "advance"}
           Inv == StatusInv /\ NoSweep
<1>1. Init => Inv
  <2>1. Init => NoSweep
    <3> SUFFICES ASSUME Init PROVE NoSweep
      OBVIOUS
    <3>1. dl = [a \in Deliverers |-> Idle]
      BY DEF Init
    <3> QED
      BY <3>1 DEF Idle
  <2> QED
    BY <2>1, InitStatus
<1>2. Inv /\ [Next]_vars => Inv'
  <2> SUFFICES ASSUME Inv, [Next]_vars PROVE Inv'
    OBVIOUS
  <2>1. Typed
    BY DEF StatusInv, SteadyInv, WaveIInv
  <2>2. ASSUME NEW a \in Deliverers PROVE dl'[a].at \notin {"decide", "halt", "advance"}
    BY <2>1, HoldMoves DEF HoldMove, Working, Unsupervised, Activate, Step
  <2> QED
    BY <2>2, StatusStep
<1>3. Inv /\ [Next]_vars =>
        [\A dep \in Deployments :
           status'[dep] # status[dep] =>
             status'[dep] \in DeploymentTransitions[status[dep]]]_vars
  <2> SUFFICES ASSUME Inv, [Next]_vars, NEW dep \in Deployments, status'[dep] # status[dep]
               PROVE  status'[dep] \in DeploymentTransitions[status[dep]]
    OBVIOUS
  <2>1. ~(Halt /\ "supervisor" \in Deliverers)
    BY DEF Halt, Stop
  <2> QED
    BY <2>1, StatusKept DEF DeploymentTransitions
<1> QED
  BY <1>1, <1>2, <1>3, PTL DEF Spec, StatusTransitions

-----------------------------------------------------------------------------
(* The canary.  A cohort has passed when the supervisor would go on.       *)
Passed(dep, p) ==
  Released(dep, p) # {} /\ Unfinished(dep, p) = {} /\ ~TooManyFailures(dep, p)

(* Every phase before the current one has passed; so has the one that the  *)
(* supervisor is leaving; the tasks of a delivery are of no earlier wave.  *)
CohortsPassed ==
  /\ \A dep \in Deployments, p \in Nat : p < phase[dep] => Passed(dep, p)
  /\ \A a \in Deliverers : dl[a].at = "advance" => Passed(dl[a].dep, dl[a].phase)
  /\ \A a \in Deliverers, d \in Devices :
       task[a][d] # "none" => wave[dl[a].dep][d] >= phase[dl[a].dep]

(* The jobs have no outcome but the ones a result or a call can bring.     *)
PlainJobs ==
  \A dep \in Deployments, d \in Devices :
    job[dep][d] \notin {"already-installed", "aborted", "decommissioned"}

PassedInv == SteadyInv /\ PlainJobs /\ CohortsPassed

LEMMA InitPassed == Init => PassedInv
<1> SUFFICES ASSUME Init PROVE PassedInv
  OBVIOUS
<1>1. /\ \A dep \in Deployments, d \in Devices : job[dep][d] \in {"none", "pending"}
      /\ phase = [dep \in Deployments |-> 0]
      /\ dl = [a \in Deliverers |-> Idle]
      /\ task = [a \in Deliverers |-> NoTask]
  BY DEF Init
<1>2. PlainJobs
  BY <1>1 DEF PlainJobs
<1>3. CohortsPassed
  BY <1>1 DEF CohortsPassed, Idle, NoTask
<1> QED
  BY <1>2, <1>3, InitSteady DEF PassedInv

LEMMA PlainJobsStep ==
  ASSUME PassedInv, [Next]_vars PROVE PlainJobs'
<1>1. WaveIInv /\ Results /\ NoAborts /\ PlainJobs
  BY DEF PassedInv, SteadyInv
<1>2. \A c \in Callers : ~AbortJobs(c)
  BY <1>1 DEF AbortJobs, NoAborts
<1> QED
  BY <1>1, <1>2, JobMoves DEF JobMove, Results, PlainJobs

(* A cohort that has passed, and has no task of the delivery under way, is *)
(* left as it is, but for a failure whose success comes late.              *)
LEMMA PassedStays ==
  ASSUME PassedInv, MaxAge = 0, [Next]_vars, NEW dep \in Deployments, NEW p \in Nat,
         Passed(dep, p),
         \A a \in Deliverers, d \in Devices :
           task[a][d] # "none" /\ dl[a].dep = dep => wave[dep][d] > p
  PROVE  Passed(dep, p)'
<1>1. /\ WaveIInv /\ Results /\ NoAborts /\ PlainJobs /\ AnsweredOnce /\ reaping = {}
      /\ Released(dep, p) # {} /\ Unfinished(dep, p) = {} /\ ~TooManyFailures(dep, p)
  BY DEF PassedInv, SteadyInv, Timely, Passed
<1>2. JobsOK /\ JobsExist
  BY <1>1 DEF WaveIInv, Typed, TypeOK
<1>3. Targets(dep) # {}
  BY <1>1 DEF Released
<1>4. \A c \in Callers : ~AbortJobs(c)
  BY <1>1 DEF AbortJobs, NoAborts
<1>5. ASSUME NEW d \in Devices
      PROVE  /\ job'[dep][d] # "none" <=> job[dep][d] # "none"
             /\ job[dep][d] # "none" => wave'[dep][d] = wave[dep][d]
  <2>1. job[dep][d] # "none" => job'[dep][d] # "none" /\ wave'[dep][d] = wave[dep][d]
    BY <1>1, JobsKept DEF JobKept
  <2>2. ASSUME job[dep][d] = "none" PROVE job'[dep][d] = "none"
    <3>1. \A w \in writes : ~(w.dep = dep /\ w.device = d)
      BY <1>2, <2>2 DEF JobsExist
    <3>2. \A a \in Deliverers : dl[a].dep = dep => task[a][d] = "none"
      BY <1>2, <2>2 DEF JobsExist
    <3> QED
      BY <1>1, <1>3, <1>4, <2>2, <3>1, <3>2, JobMoves DEF JobMove, Dispatch, FleetFails
  <2> QED
    BY <2>1, <2>2
<1>6. Targets(dep)' = Targets(dep)
  BY <1>5 DEF Targets
<1>7. Released(dep, p)' = Released(dep, p)
  <2>1. \A d \in Targets(dep) : wave'[dep][d] = wave[dep][d]
    BY <1>5 DEF Targets
  <2> QED
    BY <1>6, <2>1 DEF Released
<1>8. ASSUME NEW d \in Released(dep, p)
      PROVE  /\ job'[dep][d] \in TerminalDD
             /\ job'[dep][d] \in FailedDD => job[dep][d] \in FailedDD
  <2>1. d \in Devices /\ wave[dep][d] <= p /\ wave[dep][d] \in Nat /\ job[dep][d] \in TerminalDD
    BY <1>1, <1>2 DEF Released, Targets, Unfinished, JobsOK
  <2>2. \A a \in Deliverers : task[a][d] # "none" => dl[a].dep # dep
    BY <2>1
  <2>3. CASE job'[dep][d] = job[dep][d]
    BY <2>1, <2>3
  <2>4. ASSUME NEW w \in writes, w.dep = dep, w.device = d, job'[dep][d] = w.status
        PROVE  /\ job'[dep][d] \in {"success", "failure"} /\ job[dep][d] \in FailedDD
    <3>1. job[dep][d] # "success"
      BY <1>1, <2>1, <2>4 DEF AnsweredOnce, Out, Written
    <3>2. job[dep][d] \in FailedDD
      BY <1>1, <2>1, <3>1 DEF PlainJobs, TerminalDD, FailedDD
    <3> QED
      BY <1>1, <2>4, <3>2 DEF Results
  <2>5. \/ job'[dep][d] = job[dep][d]
        \/ \E w \in writes : w.dep = dep /\ w.device = d /\ job'[dep][d] = w.status
    BY <1>1, <1>3, <1>4, <2>1, <2>2, JobMoves DEF JobMove, Dispatch, FleetFails
  <2> QED
    BY <2>3, <2>4, <2>5 DEF TerminalDD
<1>9. Unfinished(dep, p)' = {}
  BY <1>7, <1>8 DEF Unfinished
<1>10. Failures(dep, p)' \subseteq Failures(dep, p)
  BY <1>7, <1>8 DEF Failures
<1>11. /\ Cardinality(Failures(dep, p)') <= Cardinality(Failures(dep, p))
       /\ Cardinality(Failures(dep, p)) \in Nat /\ Cardinality(Failures(dep, p)') \in Nat
  <2>1. IsFiniteSet(Devices) /\ Failures(dep, p) \subseteq Devices
    BY DeploymentAssumption DEF Failures, Released, Targets
  <2>2. IsFiniteSet(Failures(dep, p))
    BY <2>1, FS_Subset
  <2> HIDE DEF Failures
  <2>3. PICK F : F = Failures(dep, p)'
    OBVIOUS
  <2>4. F \in SUBSET Failures(dep, p)
    BY <1>10, <2>3
  <2>5. IsFiniteSet(F) /\ Cardinality(F) <= Cardinality(Failures(dep, p))
    BY <2>2, <2>4, FS_Subset
  <2> QED
    BY <2>2, <2>3, <2>5, FS_CardinalityType
<1>12. ~TooManyFailures(dep, p)'
  <2>1. IsFiniteSet(Released(dep, p))
    BY DeploymentAssumption, FS_Subset DEF Released, Targets
  <2>2. Cardinality(Released(dep, p)) \in Nat /\ EffectiveThreshold \in Nat
    BY <2>1, FS_CardinalityType, DeploymentAssumption DEF EffectiveThreshold
  <2>3. PICK k \in Nat : k = EffectiveThreshold * Cardinality(Released(dep, p))
    BY <2>2
  <2>4. ~(Cardinality(Failures(dep, p)) * 100 > k)
    BY <1>1, <2>3 DEF TooManyFailures
  <2>5. ~(Cardinality(Failures(dep, p)') * 100 > k)
    BY <1>11, <2>4
  <2> QED
    BY <1>7, <2>3, <2>5 DEF TooManyFailures
<1> QED
  BY <1>1, <1>7, <1>9, <1>12 DEF Passed

(* A delivery that is not under way has no task, nor has any other then.   *)
LEMMA NoTasks ==
  ASSUME SteadyInv, NEW a \in Deliverers, dl[a].at \notin {"idle", "deliver"},
         NEW b \in Deliverers, NEW d \in Devices
  PROVE  task[b][d] = "none"
<1>1. dl[b].at # "deliver"
  BY DEF SteadyInv, OneDelivery
<1> QED
  BY <1>1 DEF SteadyInv, WaveIInv, Typed, HoldersInv, NoTask

(* The supervisor goes on by a decision, of which it is the only taker.    *)
LEMMA AdvanceBegins ==
  ASSUME Typed, [Next]_vars, NEW a \in Deliverers, dl'[a].at = "advance"
  PROVE  \/ dl'[a] = dl[a]
         \/ SameRow(a) /\ (dl[a].at = "advance" \/ (Decide /\ a = "supervisor"))
<1>1. DeliveryOK /\ HoldersInv
  BY DEF Typed, TypeOK
<1>2. DeliveryMove(a)
  BY DeliveryMoves
<1>3. SameRow(a) /\ (dl[a].at = "advance" \/ (dl[a].at = "decide" /\ a = "supervisor"))
  BY <1>2 DEF DeliveryMove
<1>4. ASSUME dl[a].at = "decide", a = "supervisor", ~Decide PROVE dl'[a] = dl[a]
  <2>1. CASE PollerSteps
    <3>1. \/ \E dep \in Deployments : \E at \in {"materialize", "row"} :
               dl' = [dl EXCEPT !["poller"].dep = dep, !["poller"].at = at]
          \/ dl' = [dl EXCEPT !["poller"] = Idle]
          \/ dl' = [dl EXCEPT !["poller"].at = "row"]
      BY <2>1, Zenon DEF PollerSteps, PollerPick, Materialize, Stop, Step
    <3> QED
      BY <1>1, <1>4, <3>1 DEF DeliveryOK
  <2>2. CASE SupervisorSteps
    <3>1. CASE \E dep \in Deployments : SupervisorPick(dep)
      BY <1>4, <3>1 DEF SupervisorPick, Free
    <3>2. CASE Halt \/ Advance
      BY <1>4, <3>2 DEF Halt, Advance, Stop
    <3> QED
      BY <1>4, <2>2, <3>1, <3>2 DEF SupervisorSteps
  <2>3. ASSUME NEW b \in Deliverers, DeliverySteps(b) PROVE dl'[a] = dl[a]
    <3>1. CASE b = a
      <4>1. \A d \in Devices : task[a][d] = "none"
        BY <1>1, <1>4, TaskHolds
      <4>2. ~\E d \in Devices : \/ Dispatch(a, d) \/ FleetDelivers(a, d)
                                \/ FleetAnswers(a, d) \/ FleetFails(a, d)
        BY <4>1 DEF Dispatch, FleetDelivers, FleetAnswers, FleetFails
      <4>3. ~(ReadRow(a) \/ Activate(a) \/ Select(a) \/ SelectNothing(a) \/ EndDelivery(a))
        BY <1>4 DEF ReadRow, Activate, Select, SelectNothing, EndDelivery, Step, Stop
      <4> QED
        BY <2>3, <3>1, <4>2, <4>3, Zenon DEF DeliverySteps
    <3>2. CASE b # a
      BY <1>1, <2>3, <3>2
         DEF DeliverySteps, ReadRow, Activate, Select, SelectNothing, EndDelivery, Step, Stop,
             Dispatch, FleetDelivers, FleetAnswers, FleetFails, DeliveryOK
    <3> QED
      BY <3>1, <3>2
  <2>4. ASSUME NEW dep \in Deployments, NEW force \in BOOLEAN, StarterPick(dep, force)
        PROVE  dl'[a] = dl[a]
    BY <1>1, <1>4, <2>4 DEF StarterPick, DeliveryOK
  <2> QED
    BY <1>4, <2>1, <2>2, <2>3, <2>4, DeliveryWriters
<1>5. CASE dl[a].at = "advance"
  BY <1>3, <1>5, Zenon
<1>6. CASE dl[a].at = "decide" /\ a = "supervisor" /\ ~Decide
  BY <1>4, <1>6
<1> QED
  BY <1>3, <1>5, <1>6, Zenon

LEMMA CohortsPassedStep ==
  ASSUME PassedInv, MaxAge = 0, [Next]_vars PROVE CohortsPassed'
<1>1. /\ SteadyInv /\ WaveIInv /\ Typed /\ CohortsPassed /\ PhaseKnown /\ JobsExist
      /\ RowsOK /\ JobsOK /\ DeliveryOK /\ HoldersInv
  BY DEF PassedInv, SteadyInv, WaveIInv, Typed, TypeOK
<1>2. ASSUME Advance
      PROVE  /\ "supervisor" \in Deliverers /\ dl["supervisor"].at = "advance"
             /\ dl["supervisor"].dep \in Deployments
             /\ \A b \in Deliverers, d \in Devices : task[b][d] = "none"
             /\ UNCHANGED task
             /\ phase' = [phase EXCEPT ![dl["supervisor"].dep] =
                                          phase[dl["supervisor"].dep] + 1]
             /\ Passed(dl["supervisor"].dep, phase[dl["supervisor"].dep])
  <2>1. "supervisor" \in Deliverers /\ dl["supervisor"].at = "advance" /\ UNCHANGED task
    BY <1>2 DEF Advance
  <2>2. dl["supervisor"].phase = phase[dl["supervisor"].dep]
    BY <1>1, <2>1 DEF PhaseKnown
  <2>3. phase' = [phase EXCEPT ![dl["supervisor"].dep] = phase[dl["supervisor"].dep] + 1]
    BY <1>2, <2>2 DEF Advance
  <2>4. Passed(dl["supervisor"].dep, phase[dl["supervisor"].dep])
    BY <1>1, <2>1, <2>2 DEF CohortsPassed
  <2>5. \A b \in Deliverers, d \in Devices : task[b][d] = "none"
    BY <1>1, <2>1, NoTasks
  <2> QED
    BY <1>1, <2>1, <2>3, <2>4, <2>5 DEF HoldersInv
<1>3. ASSUME NEW dep \in Deployments, NEW p \in Nat, p < phase'[dep] PROVE Passed(dep, p)'
  <2>1. CASE p < phase[dep]
    <3>1. Passed(dep, p)
      BY <1>1, <2>1 DEF CohortsPassed
    <3>2. ASSUME NEW a \in Deliverers, NEW d \in Devices, task[a][d] # "none", dl[a].dep = dep
          PROVE  wave[dep][d] > p
      <4>1. wave[dep][d] >= phase[dep] /\ wave[dep][d] \in Nat /\ phase[dep] \in Nat
        BY <1>1, <3>2 DEF CohortsPassed, JobsOK, RowsOK
      <4> QED
        BY <2>1, <4>1
    <3> QED
      BY <3>1, <3>2, PassedStays
  <2>2. CASE ~(p < phase[dep])
    <3>1. phase[dep] \in Nat /\ Advance
      BY <1>1, <1>3, <2>2, PhaseWriters DEF RowsOK
    <3>2. dep = dl["supervisor"].dep /\ p = phase[dep]
      BY <1>1, <1>2, <1>3, <2>2, <3>1 DEF RowsOK
    <3>3. Passed(dep, p)
      BY <1>2, <3>1, <3>2
    <3> QED
      BY <1>2, <3>1, <3>3, PassedStays
  <2> QED
    BY <2>1, <2>2
<1>4. ASSUME NEW a \in Deliverers, dl'[a].at = "advance"
      PROVE  Passed(dl[a].dep, dl[a].phase)'
  <2>1. SameRow(a) /\ (dl[a].at = "advance" \/ (Decide /\ a = "supervisor"))
    BY <1>1, <1>4, AdvanceBegins DEF SameRow
  <2>2. PICK dep, p : dep = dl[a].dep /\ p = dl[a].phase
    OBVIOUS
  <2>3. dl'[a].dep = dep /\ dl'[a].phase = p
    BY <2>1, <2>2 DEF SameRow
  <2>4. dl[a].at \in {"decide", "advance"}
    BY <2>1 DEF Decide
  <2>5. dep \in Deployments /\ p \in Nat
    BY <1>1, <2>2, <2>4 DEF HoldersInv, DeliveryOK, Delivery
  <2>6. Passed(dep, p)
    <3>1. CASE dl[a].at = "advance"
      BY <1>1, <2>2, <3>1 DEF CohortsPassed
    <3>2. CASE Decide /\ a = "supervisor"
      <4>1. Decision(dep, p, dl[a].soaked) = "advance"
        <5>1. CASE Stop("supervisor", "decide")
          BY <1>1, <1>4, <3>2, <5>1 DEF Stop, Idle, DeliveryOK
        <5>2. CASE Step("supervisor", "decide", Decision(dep, p, dl[a].soaked))
          BY <1>1, <1>4, <3>2, <5>2 DEF Step, DeliveryOK, Delivery
        <5> QED
          BY <2>2, <3>2, <5>1, <5>2 DEF Decide
      <4> QED
        BY <4>1 DEF Decision, Passed
    <3> QED
      BY <2>1, <3>1, <3>2
  <2>7. \A b \in Deliverers, d \in Devices : task[b][d] = "none"
    BY <1>1, <2>4, NoTasks
  <2>8. Passed(dep, p)'
    BY <2>5, <2>6, <2>7, PassedStays
  <2> QED
    BY <2>3, <2>5, <2>8 DEF Passed, Released, Unfinished, TooManyFailures, Failures, Targets
<1>5. ASSUME NEW a \in Deliverers, NEW d \in Devices, task'[a][d] # "none"
      PROVE  wave'[dl'[a].dep][d] >= phase'[dl'[a].dep]
  <2>1. PICK dep : dep = dl[a].dep
    OBVIOUS
  <2>2. /\ dl'[a].dep = dep
        /\ task[a][d] # "none" \/ (Select(a) /\ d \in Waiting(dep, dl[a].phase))
    BY <1>1, <1>5, <2>1, TaskMoves DEF SameRow
  <2>3. dl[a].at # "idle"
    BY <1>1, <2>2, TaskHolds DEF Select
  <2>4. dep \in Deployments /\ phase[dep] \in Nat /\ wave[dep][d] \in Nat
    BY <1>1, <2>1, <2>3 DEF HoldersInv, RowsOK, JobsOK
  <2>5. UNCHANGED phase
    BY <1>2, <1>5, PhaseWriters
  <2>6. job[dep][d] # "none" /\ wave[dep][d] >= phase[dep]
    <3>1. CASE task[a][d] # "none"
      BY <1>1, <2>1, <3>1 DEF JobsExist, CohortsPassed
    <3>2. CASE Select(a) /\ d \in Waiting(dep, dl[a].phase)
      <4>1. job[dep][d] = "pending"
        BY <3>2 DEF Waiting
      <4>2. ASSUME wave[dep][d] < phase[dep] PROVE FALSE
        <5>1. Unfinished(dep, wave[dep][d]) = {}
          BY <1>1, <2>4, <4>2 DEF CohortsPassed, Passed
        <5>2. d \in Unfinished(dep, wave[dep][d])
          BY <2>4, <4>1 DEF Unfinished, Released, Targets, TerminalDD
        <5> QED
          BY <5>1, <5>2
      <4> QED
        BY <2>4, <4>1, <4>2
    <3> QED
      BY <2>2, <3>1, <3>2
  <2>7. wave'[dep][d] = wave[dep][d]
    BY <1>1, <2>4, <2>6, JobsKept DEF JobKept
  <2> QED
    BY <2>2, <2>5, <2>6, <2>7
<1> QED
  BY <1>3, <1>4, <1>5 DEF CohortsPassed

(* In a steady service whose jobs do not time out, a device of a later     *)
(* wave is sent its command only after every device of the earlier waves   *)
(* has its outcome, and few enough of them failed.                         *)
THEOREM CanaryIsPassed == ASSUME Steady, MaxAge = 0 PROVE Spec => []CanaryPassed
<1>1. PassedInv /\ [Next]_vars => PassedInv'
  BY SteadyStep, PlainJobsStep, CohortsPassedStep DEF PassedInv
<1>2. PassedInv => CanaryPassed
  <2> SUFFICES ASSUME PassedInv, NEW x \in sent, wave[x[1]][x[2]] - 1 >= 0
               PROVE  Passed(x[1], wave[x[1]][x[2]] - 1)
    BY DEF CanaryPassed, Passed
  <2>1. /\ x[1] \in Deployments /\ x[2] \in Devices
        /\ wave[x[1]][x[2]] \in Nat /\ phase[x[1]] \in Nat
        /\ wave[x[1]][x[2]] <= phase[x[1]]
    BY DEF PassedInv, SteadyInv, WaveIInv, Typed, TypeOK, PastOK, JobsOK, RowsOK, CohortBound
  <2> QED
    BY <2>1 DEF PassedInv, CohortsPassed
<1> QED
  BY InitPassed, <1>1, <1>2, PTL DEF Spec

-----------------------------------------------------------------------------
(* Deployment implements Rollout.  What a rollout sees of a deployment.    *)
View(dep) == <<phase[dep], wave[dep], RolloutOutcome(dep)>>

LEMMA OutcomesOf ==
  /\ OutcomeOf("none") = "absent" /\ OutcomeOf("pending") = "waiting"
  /\ \A s \in InFlight : OutcomeOf(s) = "trying"
  /\ OutcomeOf("failure") = "bad" /\ OutcomeOf("success") = "good"
<1>1. /\ "none" \notin InFlight \cup FailedDD /\ "pending" \notin InFlight \cup FailedDD
      /\ "failure" \in FailedDD /\ "failure" \notin InFlight
      /\ "success" \notin InFlight \cup FailedDD
  BY DEF InFlight, FailedDD
<1>2. OutcomeOf("none") = "absent"
  BY <1>1, "none" # "pending", Zenon DEF OutcomeOf
<1>3. OutcomeOf("pending") = "waiting"
  BY <1>1, "pending" # "none", Zenon DEF OutcomeOf
<1>4. ASSUME NEW s \in InFlight PROVE OutcomeOf(s) = "trying"
  <2>1. s # "none" /\ s # "pending" /\ s \notin FailedDD
    BY DEF InFlight, FailedDD
  <2> QED
    BY <2>1, Zenon DEF OutcomeOf
<1>5. OutcomeOf("failure") = "bad"
  BY <1>1, "failure" # "none", "failure" # "pending", Zenon DEF OutcomeOf
<1>6. OutcomeOf("success") = "good"
  BY <1>1, "success" # "none", "success" # "pending", Zenon DEF OutcomeOf
<1> QED
  BY <1>2, <1>3, <1>4, <1>5, <1>6

LEMMA OverOutcomes ==
  \A s \in TerminalDD : /\ OutcomeOf(s) \in {"good", "bad"}
                        /\ OutcomeOf(s) = "bad" <=> s \in FailedDD
<1> SUFFICES ASSUME NEW s \in TerminalDD
             PROVE  /\ s \in FailedDD => OutcomeOf(s) = "bad"
                    /\ s \notin FailedDD => OutcomeOf(s) = "good"
  OBVIOUS
<1>1. s # "none" /\ s # "pending" /\ s \notin InFlight
  BY DEF TerminalDD, InFlight
<1> QED
  BY <1>1, Zenon DEF OutcomeOf

LEMMA InitRollout == ASSUME Init, NEW dep \in Deployments PROVE R(dep)!Init
<1>1. JobsOK
  BY InitTyped DEF Typed, TypeOK
<1>2. phase = [e \in Deployments |-> 0] /\ \A d \in Devices : job[dep][d] \in {"none", "pending"}
  BY DEF Init
<1>3. RolloutOutcome(dep) \in [Devices -> {"absent", "waiting"}]
  BY <1>2, OutcomesOf DEF RolloutOutcome
<1> QED
  BY <1>1, <1>2, <1>3 DEF R!Init, JobsOK

(* A step that leaves the jobs, the waves and the phase alone.             *)
LEMMA ViewKept ==
  ASSUME NEW dep \in Deployments,
         phase'[dep] = phase[dep], wave'[dep] = wave[dep], job'[dep] = job[dep]
  PROVE  View(dep)' = View(dep)
BY DEF View, RolloutOutcome

(* A step that gives a deployment its jobs.                                *)
LEMMA Enlisted ==
  ASSUME JobsOK, NEW dep \in Deployments, NEW e \in Deployments, NEW t \in SUBSET Devices,
         phase'[dep] = phase[dep], InsertJobs(e, t), Targets(e) = {}, JobsOK'
  PROVE  R(dep)!Next \/ View(dep)' = View(dep)
<1>1. CASE dep # e
  BY <1>1, ViewKept DEF InsertJobs, JobsOK
<1>2. CASE dep = e
  <2>1. \A d \in Devices : job[dep][d] = "none" /\ job'[dep][d] \in {"none", "pending"}
    BY <1>2 DEF Targets, InsertJobs, JobsOK
  <2>2. \A d \in Devices : RolloutOutcome(dep)[d] = "absent"
    BY <2>1, OutcomesOf DEF RolloutOutcome
  <2>3. RolloutOutcome(dep)' \in [Devices -> {"absent", "waiting"}]
    BY <2>1, OutcomesOf DEF RolloutOutcome
  <2>4. wave'[dep] \in [Devices -> Nat]
    BY DEF JobsOK
  <2> QED
    BY <2>2, <2>3, <2>4 DEF R!Next, R!Enlist
<1> QED
  BY <1>1, <1>2

(* A step that writes one job.                                             *)
LEMMA OneJobWritten ==
  ASSUME JobsOK, NEW dep \in Deployments, NEW e \in Deployments, NEW f \in Devices, NEW s,
         phase'[dep] = phase[dep], SetJob(e, f, s),
         \/ s = "downloading" /\ job[e][f] = "pending" /\ wave[e][f] <= phase[e]
         \/ s \in {"success", "failure"} /\ job[e][f] \in InFlight
  PROVE  R(dep)!Next \/ View(dep)' = View(dep)
<1>1. CASE dep # e
  BY <1>1, ViewKept DEF SetJob, JobsOK
<1>2. CASE dep = e
  <2>1. wave'[dep] = wave[dep] /\ job' = [job EXCEPT ![dep][f] = s]
    BY <1>2 DEF SetJob
  <2>2. ASSUME NEW x, x = RolloutOutcome(dep)'[f]
        PROVE  RolloutOutcome(dep)' = [RolloutOutcome(dep) EXCEPT ![f] = x]
    BY <2>1, <2>2 DEF RolloutOutcome, JobsOK
  <2>3. job'[dep][f] = s
    BY <2>1 DEF JobsOK
  <2>4. CASE s = "downloading" /\ job[e][f] = "pending" /\ wave[e][f] <= phase[e]
    <3>1. RolloutOutcome(dep)[f] = "waiting"
      BY <1>2, <2>4, OutcomesOf DEF RolloutOutcome
    <3>2. RolloutOutcome(dep)'[f] = "trying"
      BY <2>3, <2>4, OutcomesOf DEF RolloutOutcome, InFlight
    <3>3. R(dep)!Try(f)
      BY <1>2, <2>1, <2>2, <2>4, <3>1, <3>2 DEF R!Try
    <3> QED
      BY <3>3 DEF R!Next
  <2>5. CASE s \in {"success", "failure"} /\ job[e][f] \in InFlight
    <3>1. RolloutOutcome(dep)[f] = "trying"
      BY <1>2, <2>5, OutcomesOf DEF RolloutOutcome
    <3>2. RolloutOutcome(dep)'[f] \in {"good", "bad"}
      BY <2>3, <2>5, OutcomesOf DEF RolloutOutcome
    <3>3. PICK result \in {"good", "bad"} : result = RolloutOutcome(dep)'[f]
      BY <3>2
    <3>4. R(dep)!Settle(f, result)
      BY <2>1, <2>2, <3>1, <3>3 DEF R!Settle
    <3> QED
      BY <3>4 DEF R!Next
  <2> QED
    BY <2>4, <2>5
<1> QED
  BY <1>1, <1>2

(* Rollout counts a set as this module does.                               *)
LEMMA SameCount ==
  ASSUME NEW dep \in Deployments, NEW S PROVE R(dep)!Cardinality(S) = Cardinality(S)
BY DEF R!Cardinality, Cardinality

(* A phase that has passed is one the rollout may leave.                   *)
LEMMA Promoted ==
  ASSUME JobsOK, RowsOK, NEW dep \in Deployments, Passed(dep, phase[dep]),
         phase'[dep] = phase[dep] + 1, job'[dep] = job[dep], wave'[dep] = wave[dep]
  PROVE  R(dep)!Next
<1>1. RolloutOutcome(dep)' = RolloutOutcome(dep)
  BY DEF RolloutOutcome
<1>2. ASSUME NEW d \in Devices
      PROVE  RolloutOutcome(dep)[d] # "absent" <=> job[dep][d] # "none"
  <2>1. job[dep][d] \in {"none", "pending"} \cup InFlight \cup TerminalDD
    BY DEF JobsOK, JobStatus
  <2> QED
    BY <2>1, OutcomesOf, OverOutcomes DEF RolloutOutcome
<1>3. R(dep)!Behind = Released(dep, phase[dep])
  BY <1>2 DEF R!Behind, Released, Targets
<1>4. ASSUME NEW d \in Released(dep, phase[dep])
      PROVE  /\ RolloutOutcome(dep)[d] \in {"good", "bad"}
             /\ RolloutOutcome(dep)[d] = "bad" <=> job[dep][d] \in FailedDD
  <2>1. d \in Devices /\ job[dep][d] \in TerminalDD
    BY DEF Passed, Unfinished, Released, Targets
  <2> QED
    BY <2>1, OverOutcomes DEF RolloutOutcome
<1>5. {d \in R(dep)!Behind : RolloutOutcome(dep)[d] = "bad"} = Failures(dep, phase[dep])
  BY <1>3, <1>4 DEF Failures
<1>6. Cardinality(Failures(dep, phase[dep])) * 100
        <= EffectiveThreshold * Cardinality(Released(dep, phase[dep]))
  <2>1. IsFiniteSet(Released(dep, phase[dep])) /\ IsFiniteSet(Failures(dep, phase[dep]))
    BY DeploymentAssumption, FS_Subset DEF Failures, Released, Targets
  <2>2. /\ Cardinality(Released(dep, phase[dep])) \in Nat
        /\ Cardinality(Failures(dep, phase[dep])) \in Nat /\ EffectiveThreshold \in Nat
    BY <2>1, FS_CardinalityType, DeploymentAssumption DEF EffectiveThreshold
  <2> QED
    BY <2>2 DEF Passed, TooManyFailures
<1>7. Cardinality({d \in R(dep)!Behind : RolloutOutcome(dep)[d] = "bad"}) * 100
        <= EffectiveThreshold * Cardinality(R(dep)!Behind)
  BY <1>3, <1>5, <1>6
<1>8. R(dep)!Behind # {} /\ \A d \in R(dep)!Behind : RolloutOutcome(dep)[d] \in {"good", "bad"}
  BY <1>3, <1>4 DEF Passed
<1>9. R(dep)!Promote
  BY <1>1, <1>7, <1>8, SameCount DEF R!Promote
<1> QED
  BY <1>9 DEF R!Next

LEMMA RolloutStep ==
  ASSUME PassedInv, Steady, Untimed, [Next]_vars, NEW dep \in Deployments
  PROVE  R(dep)!Next \/ View(dep)' = View(dep)
<1>1. /\ WaveIInv /\ Typed /\ Results /\ NoAborts /\ Commanded /\ Timely /\ CohortsPassed
      /\ PhaseKnown /\ JobsFresh /\ JobsOK /\ RowsOK /\ HandlersOK /\ HoldersInv /\ DeliveryOK
      /\ JobsOK' /\ reaping = {} /\ ~AcksLost
  BY WaveStep DEF PassedInv, SteadyInv, WaveIInv, Typed, TypeOK, Timely, Untimed
<1>2. CASE Advance
  <2>1. /\ "supervisor" \in Deliverers /\ dl["supervisor"].at = "advance"
        /\ UNCHANGED <<job, wave>>
    BY <1>2 DEF Advance, jobs
  <2>2. PICK e \in Deployments : e = dl["supervisor"].dep
    BY <1>1, <2>1 DEF HoldersInv
  <2>3. dl["supervisor"].phase = phase[e] /\ Passed(e, phase[e])
    BY <1>1, <2>1, <2>2 DEF PhaseKnown, CohortsPassed
  <2>4. phase' = [phase EXCEPT ![e] = phase[e] + 1]
    BY <1>2, <2>2, <2>3 DEF Advance
  <2>5. CASE dep = e
    BY <1>1, <2>1, <2>3, <2>4, <2>5, Promoted DEF RowsOK
  <2>6. CASE dep # e
    BY <1>1, <2>1, <2>4, <2>6, ViewKept DEF RowsOK
  <2> QED
    BY <2>5, <2>6
<1>3. CASE UNCHANGED phase
  <2>1. CASE UNCHANGED <<job, wave>>
    BY <1>3, <2>1, ViewKept
  <2>2. ASSUME NEW e \in Deployments, NEW t \in SUBSET Devices, CreateJobs(e, t)
        PROVE  R(dep)!Next \/ View(dep)' = View(dep)
    BY <1>1, <1>3, <2>2, Enlisted DEF CreateJobs, JobsFresh
  <2>3. ASSUME NEW t \in SUBSET Devices, Materialize(t)
        PROVE  R(dep)!Next \/ View(dep)' = View(dep)
    <3>1. CASE UNCHANGED jobs
      BY <2>1, <3>1 DEF jobs
    <3>2. CASE Step("poller", "materialize", "row") /\ InsertJobs(dl["poller"].dep, t)
      <4>1. "poller" \in Deliverers /\ dl["poller"].at = "materialize"
        BY <2>3, <3>2 DEF Materialize, Step
      <4>2. PICK e \in Deployments : e = dl["poller"].dep
        BY <1>1, <4>1 DEF HoldersInv
      <4>3. Targets(e) = {}
        BY <1>1, <4>1, <4>2 DEF JobsFresh
      <4> QED
        BY <1>1, <1>3, <3>2, <4>2, <4>3, Enlisted
    <3> QED
      BY <2>3, <3>1, <3>2, Zenon DEF Materialize
  <2>4. ASSUME NEW a \in Deliverers, NEW d \in Devices, Dispatch(a, d)
        PROVE  R(dep)!Next \/ View(dep)' = View(dep)
    <3>1. PICK e \in Deployments : e = dl[a].dep
      BY <1>1, <2>4 DEF Dispatch, HoldersInv
    <3>2. job[e][d] = "pending" /\ wave[e][d] <= phase[e] /\ SetJob(e, d, "downloading")
      BY <1>1, <2>4, <3>1 DEF Dispatch, Commanded, PhaseKnown
    <3> QED
      BY <1>1, <1>3, <3>2, OneJobWritten
  <2>5. ASSUME NEW a \in Deliverers, NEW d \in Devices, FleetFails(a, d)
        PROVE  R(dep)!Next \/ View(dep)' = View(dep)
    <3>1. task[a][d] = "calling"
      BY <1>1, <2>5 DEF FleetFails
    <3>2. PICK e \in Deployments : e = dl[a].dep
      BY <1>1, <3>1, TaskHolds
    <3>3. job[e][d] \in InFlight /\ SetJob(e, d, "failure")
      BY <1>1, <2>5, <3>1, <3>2 DEF FleetFails, Timely
    <3> QED
      BY <1>1, <1>3, <3>3, OneJobWritten
  <2>6. ASSUME NEW w \in writes, ApplyWrite(w)
        PROVE  R(dep)!Next \/ View(dep)' = View(dep)
    <3>1. w.dep \in Deployments /\ w.device \in Devices /\ w.status \in {"success", "failure"}
      BY <1>1 DEF HandlersOK, Results
    <3>2. job[w.dep][w.device] \in InFlight
      BY <1>1, <3>1 DEF Timely, Out, Written
    <3>3. SetJob(w.dep, w.device, w.status)
      BY <2>6, <3>1, "success" # "touch", "failure" # "touch" DEF ApplyWrite
    <3> QED
      BY <1>1, <1>3, <3>1, <3>2, <3>3, OneJobWritten
  <2>7. \A c \in Callers : ~AbortJobs(c)
    BY <1>1 DEF AbortJobs, NoAborts
  <2>8. ASSUME NEW e \in Deployments, NEW d \in Devices, JobAges(e, d)
        PROVE  R(dep)!Next \/ View(dep)' = View(dep)
    BY <2>1, <2>8 DEF JobAges
  <2> QED
    BY <1>1, <2>1, <2>2, <2>3, <2>4, <2>5, <2>6, <2>7, <2>8, JobWriters, Zenon
<1> QED
  BY <1>2, <1>3, PhaseWriters

(* A steady service whose jobs do not time out implements the abstract     *)
(* rollout, deployment by deployment: each device is tried once, its       *)
(* outcome is final, and a phase is left only when it has passed.          *)
THEOREM RolloutsAreKept == ASSUME Steady, Untimed PROVE Spec => KeepsRollout
<1>1. PassedInv /\ [Next]_vars => PassedInv'
  BY SteadyStep, PlainJobsStep, CohortsPassedStep DEF PassedInv, Untimed
<1>2. Init => \A dep \in Deployments : R(dep)!Init
  BY InitRollout
<1>3. PassedInv /\ [Next]_vars =>
        [\A dep \in Deployments :
           [R(dep)!Next]_<<phase[dep], wave[dep], RolloutOutcome(dep)>>]_vars
  BY RolloutStep DEF View
<1> QED
  BY InitPassed, <1>1, <1>2, <1>3, PTL DEF Spec, KeepsRollout

=============================================================================
