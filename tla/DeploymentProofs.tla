-------------------------- MODULE DeploymentProofs --------------------------
(* Machine-checked proofs about Deployment, for every value of its constants. *)
EXTENDS Deployment, FiniteSetTheorems, TLAPS

-----------------------------------------------------------------------------
(* The wave of a device is a natural number.                               *)
LEMMA WaveIsNatural ==
  ASSUME NEW targets, NEW d PROVE WaveOf(targets, d) \in Nat
<1>1. Len(Phases) \in Nat
  BY DeploymentAssumption
<1>2. IsFiniteSet(0..LastPhase)
  BY <1>1, FS_Interval DEF LastPhase
<1> QED
  BY <1>2, FS_Subset, FS_CardinalityType DEF WaveOf

LEMMA UpdateType ==
  ASSUME NEW S, NEW T, NEW f \in [S -> T], NEW x, NEW v \in T
  PROVE [f EXCEPT ![x] = v] \in [S -> T]
OBVIOUS

(* Each deliverer and each caller that holds a deployment knows it.        *)
Typed == TypeOK /\ HoldersInv

-----------------------------------------------------------------------------
(* Type correctness, part by part: a step for each group of actions that   *)
(* writes the part, and one for those that leave it alone.                 *)

LEMMA InitTyped == Init => Typed
<1> SUFFICES ASSUME Init PROVE Typed
  OBVIOUS
<1>1. RowsOK
  <2>1. override \in [Deployments -> BOOLEAN] /\ soaked \in [Deployments -> BOOLEAN]
    BY Zenon DEF Init
  <2>2. status \in [Deployments -> DeploymentStatus]
    BY DEF Init, DeploymentStatus
  <2> QED
    BY <2>1, <2>2 DEF Init, RowsOK
<1>2. JobsOK
  <2>1. job \in [Deployments -> [Devices -> JobStatus]]
    BY DEF Init, JobStatus
  <2>2. wave \in [Deployments -> [Devices -> Nat]]
    BY WaveIsNatural DEF Init
  <2> QED
    BY <2>1, <2>2 DEF Init, JobsOK
<1>3. DeliveryOK /\ HoldersInv
  <2>1. /\ dl = [a \in Deliverers |-> Idle]
        /\ task = [a \in Deliverers |-> NoTask]
        /\ call = [c \in Callers |-> NoCall]
    BY DEF Init
  <2>2. FALSE \in BOOLEAN
    BY Zenon
  <2>3. Idle \in Delivery
    BY <2>2 DEF Idle, Delivery
  <2> QED
    BY <2>1, <2>3 DEF DeliveryOK, HoldersInv, NoTask, NoCall, Idle
<1>4. HandlersOK
  BY DEF Init, HandlersOK, NoCall
<1>5. FleetOK /\ PastOK
  BY DEF Init, FleetOK, PastOK
<1> QED
  BY <1>1, <1>2, <1>3, <1>4, <1>5 DEF Typed, TypeOK

LEMMA RowsStep == Typed /\ [Next]_vars => RowsOK'
<1> SUFFICES ASSUME Typed, [Next]_vars PROVE RowsOK'
  OBVIOUS
<1>1. RowsOK /\ DeliveryOK
  BY DEF Typed, TypeOK
<1> USE DEF rows
<1>2. CASE UNCHANGED rows
  BY <1>1, <1>2 DEF RowsOK
<1>3. CASE PollerSteps \/ (\E d \in Devices : DeviceSteps(d)) \/ ReportSteps \/ Telemetry
           \/ ReaperSteps \/ Creation \/ UNCHANGED vars
  <2>1. UNCHANGED rows
    BY <1>3, Zenon DEF PollerSteps, PollerPick, Materialize, DeviceSteps, DeviceCommits,
      DeviceRollsBack, DeviceSilent, ReportSteps, ReceiveResult, LoseReport, Telemetry,
      ReceiveProgress, ReaperSteps, ReaperSelect, ReaperWrite, Creation, CreateJobs,
      CreateFails, vars
  <2> QED
    BY <1>2, <2>1
<1>4. CASE SupervisorSteps
  <2>1. CASE Halt
    <3>1. status' \in [Deployments -> DeploymentStatus]
      BY <1>1, <2>1, UpdateType DEF Halt, RowsOK, DeploymentStatus
    <3>2. reason' \in [Deployments -> {"none", "halt", "rate"}]
      BY <1>1, <2>1 DEF Halt, RowsOK
    <3> QED
      BY <1>1, <2>1, <3>1, <3>2, Zenon DEF Halt, RowsOK
  <2>2. CASE Advance
    <3>1. dl["supervisor"].phase + 1 \in Nat
      BY <1>1, <2>2 DEF Advance, DeliveryOK, Delivery
    <3>2. phase' \in [Deployments -> Nat]
      BY <1>1, <2>2, <3>1 DEF Advance, RowsOK
    <3>3. FALSE \in BOOLEAN
      OBVIOUS
    <3>4. soaked' \in [Deployments -> BOOLEAN]
      BY <1>1, <2>2, <3>3, UpdateType, Zenon DEF Advance, RowsOK
    <3> QED
      BY <1>1, <2>2, <3>2, <3>4, Zenon DEF Advance, RowsOK
  <2>3. CASE (\E dep \in Deployments : SupervisorPick(dep)) \/ Decide
    BY <1>2, <2>3, Zenon DEF SupervisorPick, Decide
  <2> QED
    BY <1>4, <2>1, <2>2, <2>3, Zenon DEF SupervisorSteps
<1>5. ASSUME NEW a \in Deliverers, DeliverySteps(a) PROVE RowsOK'
  <2>1. CASE Activate(a)
    <3>1. status' \in [Deployments -> DeploymentStatus]
      BY <1>1, <2>1 DEF Activate, RowsOK, DeploymentStatus
    <3> QED
      BY <1>1, <2>1, <3>1, Zenon DEF Activate, RowsOK
  <2>2. CASE Select(a)
    <3>1. override' \in [Deployments -> BOOLEAN]
      <4>1. FALSE \in BOOLEAN
        OBVIOUS
      <4>2. CASE override' = override
        BY <1>1, <4>2, Zenon DEF RowsOK
      <4>3. CASE override' = [override EXCEPT ![dl[a].dep] = FALSE]
        BY <1>1, <4>1, <4>3, UpdateType, Zenon DEF RowsOK
      <4> QED
        BY <2>2, <4>2, <4>3, Zenon DEF Select
    <3> QED
      BY <1>1, <2>2, <3>1, Zenon DEF Select, RowsOK
  <2>3. CASE EndDelivery(a)
    <3>1. CASE UNCHANGED <<status, reason>>
      BY <1>1, <2>3, <3>1, Zenon DEF EndDelivery, RowsOK
    <3>2. CASE /\ status' = [status EXCEPT ![dl[a].dep] = "paused"]
               /\ reason' = [reason EXCEPT ![dl[a].dep] = "rate"]
      <4>1. /\ status' \in [Deployments -> DeploymentStatus]
            /\ reason' \in [Deployments -> {"none", "halt", "rate"}]
        BY <1>1, <3>2 DEF RowsOK, DeploymentStatus
      <4> QED
        BY <1>1, <2>3, <4>1, Zenon DEF EndDelivery, RowsOK
    <3> QED
      BY <2>3, <3>1, <3>2, Zenon DEF EndDelivery
  <2>4. CASE UNCHANGED rows
    BY <1>2, <2>4
  <2>5. (Activate(a) \/ Select(a) \/ EndDelivery(a)) \/ UNCHANGED rows
    BY <1>5, Zenon DEF DeliverySteps, ReadRow, SelectNothing, Dispatch, FleetDelivers,
      FleetAnswers, FleetFails
  <2> QED
    BY <2>1, <2>2, <2>3, <2>4, <2>5
<1>6. CASE JobWrites
  <2>1. ASSUME NEW s \in swaps, RecomputeSwap(s) PROVE RowsOK'
    <3>1. status' \in [Deployments -> DeploymentStatus]
      <4>1. CASE status' = status
        BY <1>1, <4>1 DEF RowsOK
      <4>2. CASE status' = [status EXCEPT ![s.dep] = "finished"]
        BY <1>1, <4>2 DEF RowsOK, DeploymentStatus
      <4> QED
        BY <2>1, <4>1, <4>2, Zenon DEF RecomputeSwap
    <3> QED
      BY <1>1, <2>1, <3>1, Zenon DEF RecomputeSwap, RowsOK
  <2>2. (\E s \in swaps : RecomputeSwap(s)) \/ UNCHANGED rows
    BY <1>6, Zenon DEF JobWrites, ApplyWrite, RecomputeRead
  <2> QED
    BY <1>2, <2>1, <2>2
<1>7. CASE Tools
  <2>1. ASSUME NEW c \in Callers, AbortStatus(c) PROVE RowsOK'
    <3>1. status' \in [Deployments -> DeploymentStatus]
      BY <1>1, <2>1 DEF AbortStatus, RowsOK, DeploymentStatus
    <3> QED
      BY <1>1, <2>1, <3>1, Zenon DEF AbortStatus, RowsOK
  <2>2. ASSUME NEW c \in Callers, Resume(c) PROVE RowsOK'
    <3>1. /\ status' \in [Deployments -> DeploymentStatus]
          /\ reason' \in [Deployments -> {"none", "halt", "rate"}]
      BY <1>1, <2>2 DEF Resume, RowsOK, DeploymentStatus
    <3>2. FALSE \in BOOLEAN
      OBVIOUS
    <3>3. soaked' \in [Deployments -> BOOLEAN]
      BY <1>1, <2>2, <3>2, UpdateType, Zenon DEF Resume, RowsOK
    <3> QED
      BY <1>1, <2>2, <3>1, <3>3, Zenon DEF Resume, RowsOK
  <2>3. ASSUME NEW dep \in Deployments, DashboardOverride(dep) PROVE RowsOK'
    <3>1. status' \in [Deployments -> DeploymentStatus]
      BY <1>1, <2>3 DEF DashboardOverride, RowsOK, DeploymentStatus
    <3>2. TRUE \in BOOLEAN
      OBVIOUS
    <3>3. override' \in [Deployments -> BOOLEAN]
      BY <1>1, <2>3, <3>2, UpdateType, Zenon DEF DashboardOverride, RowsOK
    <3> QED
      BY <1>1, <2>3, <3>1, <3>3, Zenon DEF DashboardOverride, RowsOK
  <2>4. \/ \E c \in Callers : AbortStatus(c) \/ Resume(c)
        \/ \E dep \in Deployments : DashboardOverride(dep)
        \/ UNCHANGED rows
    BY <1>7, Zenon DEF Tools, StarterPick, ReportStatus, ToolRead, AbortJobs
  <2> QED
    BY <1>2, <2>1, <2>2, <2>3, <2>4
<1>8. CASE Clock
  <2>1. ASSUME NEW dep \in Deployments, SoakElapses(dep) PROVE RowsOK'
    <3>1. TRUE \in BOOLEAN
      OBVIOUS
    <3>2. soaked' \in [Deployments -> BOOLEAN]
      BY <1>1, <2>1, <3>1, UpdateType, Zenon DEF SoakElapses, RowsOK
    <3> QED
      BY <1>1, <2>1, <3>2, Zenon DEF SoakElapses, RowsOK
  <2>2. (\E dep \in Deployments : SoakElapses(dep)) \/ UNCHANGED rows
    BY <1>8, Zenon DEF Clock, JobAges
  <2> QED
    BY <1>2, <2>1, <2>2
<1> QED
  BY <1>3, <1>4, <1>5, <1>6, <1>7, <1>8, Zenon DEF Next

(* Who writes the jobs.                                                    *)
LEMMA JobWriters ==
  ASSUME [Next]_vars
  PROVE  \/ UNCHANGED <<job, wave, age, recorded>>
         \/ \E dep \in Deployments, targets \in SUBSET Devices : CreateJobs(dep, targets)
         \/ \E targets \in SUBSET Devices : Materialize(targets)
         \/ \E a \in Deliverers, d \in Devices : Dispatch(a, d) \/ FleetFails(a, d)
         \/ \E w \in writes : ApplyWrite(w)
         \/ \E x \in reaping : ReaperWrite(x)
         \/ \E c \in Callers : AbortJobs(c)
         \/ \E dep \in Deployments, d \in Devices : JobAges(dep, d)
<1> USE DEF jobs
<1>1. CASE PollerSteps \/ SupervisorSteps \/ UNCHANGED vars
  BY <1>1, Zenon DEF PollerSteps, PollerPick, SupervisorSteps, SupervisorPick, Decide, Halt,
    Advance, vars
<1>2. CASE \E a \in Deliverers : DeliverySteps(a)
  <2>1. PICK a \in Deliverers : DeliverySteps(a)
    BY <1>2
  <2>2. CASE ReadRow(a) \/ Activate(a) \/ Select(a)
    BY <2>2, Zenon DEF ReadRow, Activate, Select
  <2>3. CASE SelectNothing(a) \/ EndDelivery(a)
    BY <2>3, Zenon DEF SelectNothing, EndDelivery
  <2>4. CASE \E d \in Devices : Dispatch(a, d) \/ FleetDelivers(a, d)
                           \/ FleetAnswers(a, d) \/ FleetFails(a, d)
    BY <2>4, Zenon DEF FleetDelivers, FleetAnswers
  <2> QED
    BY <2>1, <2>2, <2>3, <2>4, Zenon DEF DeliverySteps
<1>3. CASE (\E d \in Devices : DeviceSteps(d)) \/ ReportSteps \/ Telemetry
  BY <1>3, Zenon DEF DeviceSteps, DeviceCommits, DeviceRollsBack, DeviceSilent, ReportSteps,
    ReceiveResult, LoseReport, Telemetry, ReceiveProgress
<1>4. CASE JobWrites \/ ReaperSteps \/ Clock
  BY <1>4, Zenon DEF JobWrites, RecomputeRead, RecomputeSwap, ReaperSteps, ReaperSelect, Clock,
    SoakElapses
<1>5. CASE Creation
  <2>1. ASSUME NEW dep \in Deployments, NEW targets \in (SUBSET Devices) \ {{}},
               CreateJobs(dep, targets)
        PROVE  \E e \in Deployments, t \in SUBSET Devices : CreateJobs(e, t)
    BY <2>1
  <2>2. CASE \E dep \in Deployments : CreateFails(dep)
    BY <2>2, Zenon DEF CreateFails
  <2> QED
    BY <1>5, <2>1, <2>2, Zenon DEF Creation
<1>6. CASE Tools
  BY <1>6, Zenon DEF Tools, StarterPick, ReportStatus, ToolRead, AbortStatus, Resume,
    DashboardOverride
<1> QED
  BY <1>1, <1>2, <1>3, <1>4, <1>5, <1>6, Zenon DEF Next

(* A write of one job, by whoever holds a deployment.                      *)
LEMMA SetJobTyped ==
  ASSUME JobsOK, NEW dep \in Deployments, NEW d \in Devices, NEW s \in JobStatus,
         SetJob(dep, d, s)
  PROVE  /\ job' \in [Deployments -> [Devices -> JobStatus]]
         /\ wave' \in [Deployments -> [Devices -> Nat]]
         /\ age' \in [Deployments -> [Devices -> 0..2]]
<1>1. [job[dep] EXCEPT ![d] = s] \in [Devices -> JobStatus]
  BY DEF JobsOK
<1>2. [age[dep] EXCEPT ![d] = 0] \in [Devices -> 0..2]
  BY DEF JobsOK
<1> QED
  BY <1>1, <1>2 DEF SetJob, JobsOK

LEMMA InsertJobsTyped ==
  ASSUME JobsOK, NEW dep \in Deployments, NEW targets \in SUBSET Devices,
         InsertJobs(dep, targets)
  PROVE  /\ job' \in [Deployments -> [Devices -> JobStatus]]
         /\ wave' \in [Deployments -> [Devices -> Nat]]
         /\ age' \in [Deployments -> [Devices -> 0..2]]
<1>1. [d \in Devices |-> IF d \in targets THEN "pending" ELSE job[dep][d]]
        \in [Devices -> JobStatus]
  BY DEF JobsOK, JobStatus
<1>2. [d \in Devices |-> IF d \in targets THEN WaveOf(targets, d) ELSE wave[dep][d]]
        \in [Devices -> Nat]
  BY WaveIsNatural DEF JobsOK
<1> QED
  BY <1>1, <1>2 DEF InsertJobs, JobsOK

(* Whoever runs a task delivers a deployment.                              *)
LEMMA TaskHolds ==
  ASSUME HoldersInv, NEW a \in Deliverers, NEW d \in Devices, task[a][d] # "none"
  PROVE  dl[a].at = "deliver" /\ dl[a].dep \in Deployments
BY DEF HoldersInv, NoTask

LEMMA JobsStep == Typed /\ [Next]_vars => JobsOK'
<1> SUFFICES ASSUME Typed, [Next]_vars PROVE JobsOK'
  OBVIOUS
<1>1. JobsOK /\ DeliveryOK /\ HandlersOK /\ HoldersInv
  BY DEF Typed, TypeOK
<1>2. CASE UNCHANGED <<job, wave, age, recorded>>
  BY <1>1, <1>2 DEF JobsOK
<1>3. ASSUME NEW dep \in Deployments, NEW targets \in SUBSET Devices, CreateJobs(dep, targets)
      PROVE  JobsOK'
  BY <1>1, <1>3, InsertJobsTyped, Zenon DEF CreateJobs, JobsOK
<1>4. ASSUME NEW targets \in SUBSET Devices, Materialize(targets) PROVE JobsOK'
  <2>1. CASE UNCHANGED jobs
    BY <1>1, <1>4, <2>1, Zenon DEF Materialize, JobsOK, jobs
  <2>2. CASE Step("poller", "materialize", "row") /\ InsertJobs(dl["poller"].dep, targets)
    <3>1. dl["poller"].dep \in Deployments
      BY <1>1, <1>4, <2>2 DEF Materialize, Step, HoldersInv
    <3> QED
      BY <1>1, <1>4, <2>2, <3>1, InsertJobsTyped, Zenon DEF Materialize, JobsOK
  <2> QED
    BY <1>4, <2>1, <2>2, Zenon DEF Materialize
<1>5. ASSUME NEW a \in Deliverers, NEW d \in Devices, Dispatch(a, d) \/ FleetFails(a, d)
      PROVE  JobsOK'
  <2>1. dl[a].dep \in Deployments
    BY <1>1, <1>5, TaskHolds DEF Dispatch, FleetFails
  <2>2. "downloading" \in JobStatus /\ "failure" \in JobStatus
    BY DEF JobStatus, InFlight, TerminalDD
  <2> QED
    BY <1>1, <1>5, <2>1, <2>2, SetJobTyped, Zenon DEF Dispatch, FleetFails, JobsOK
<1>6. ASSUME NEW w \in writes, ApplyWrite(w) PROVE JobsOK'
  <2>1. w.dep \in Deployments /\ w.device \in Devices
    BY <1>1 DEF HandlersOK
  <2>2. (IF w.status = "touch" THEN job[w.dep][w.device] ELSE w.status) \in JobStatus
    BY <1>1, <2>1 DEF HandlersOK, JobsOK
  <2>3. recorded' \in [Devices -> Deployments \cup {None}]
    BY <1>1, <1>6, <2>1 DEF ApplyWrite, JobsOK
  <2> QED
    BY <1>1, <1>6, <2>1, <2>2, <2>3, SetJobTyped, Zenon DEF ApplyWrite, JobsOK
<1>7. ASSUME NEW x \in reaping, ReaperWrite(x) PROVE JobsOK'
  <2>1. x[1] \in Deployments /\ x[2] \in Devices
    BY <1>1 DEF HandlersOK
  <2>2. "timed_out" \in JobStatus
    BY DEF JobStatus, TerminalDD
  <2> QED
    BY <1>1, <1>7, <2>1, <2>2, SetJobTyped, Zenon DEF ReaperWrite, JobsOK
<1>8. ASSUME NEW c \in Callers, AbortJobs(c) PROVE JobsOK'
  <2>1. job' \in [Deployments -> [Devices -> JobStatus]]
    BY <1>1, <1>8 DEF AbortJobs, JobsOK, JobStatus, TerminalDD
  <2> QED
    BY <1>1, <1>8, <2>1, Zenon DEF AbortJobs, JobsOK
<1>9. ASSUME NEW dep \in Deployments, NEW d \in Devices, JobAges(dep, d) PROVE JobsOK'
  <2>1. age[dep][d] + 1 \in 0..2
    BY <1>1, <1>9, DeploymentAssumption DEF JobAges, JobsOK
  <2>2. [age[dep] EXCEPT ![d] = @ + 1] \in [Devices -> 0..2]
    BY <1>1, <2>1 DEF JobsOK
  <2>3. age' \in [Deployments -> [Devices -> 0..2]]
    BY <1>1, <1>9, <2>2 DEF JobAges, JobsOK
  <2> QED
    BY <1>1, <1>9, <2>3, Zenon DEF JobAges, JobsOK
<1> QED
  BY <1>2, <1>3, <1>4, <1>5, <1>6, <1>7, <1>8, <1>9, JobWriters, Zenon

(* Who writes the deliveries.                                              *)
LEMMA DeliveryWriters ==
  ASSUME [Next]_vars
  PROVE  \/ UNCHANGED <<dl, task>>
         \/ PollerSteps \/ SupervisorSteps \/ \E a \in Deliverers : DeliverySteps(a)
         \/ \E dep \in Deployments, force \in BOOLEAN : StarterPick(dep, force)
<1> USE DEF handlers
<1>1. CASE (\E d \in Devices : DeviceSteps(d)) \/ ReportSteps \/ Telemetry \/ UNCHANGED vars
  BY <1>1, Zenon DEF DeviceSteps, DeviceCommits, DeviceRollsBack, DeviceSilent, ReportSteps,
    ReceiveResult, LoseReport, Telemetry, ReceiveProgress, vars
<1>2. CASE JobWrites \/ ReaperSteps \/ Clock \/ Creation
  BY <1>2, Zenon DEF JobWrites, ApplyWrite, RecomputeRead, RecomputeSwap, ReaperSteps,
    ReaperSelect, ReaperWrite, Clock, SoakElapses, JobAges, Creation, CreateJobs, CreateFails
<1>3. CASE Tools
  BY <1>3, Zenon DEF Tools, ReportStatus, ToolRead, AbortStatus, AbortJobs, Resume,
    DashboardOverride
<1> QED
  BY <1>1, <1>2, <1>3, Zenon DEF Next

(* A delivery that takes up a deployment.                                  *)
LEMMA TakenUp ==
  ASSUME NEW r \in Delivery, NEW dep \in Deployments PROVE [r EXCEPT !.dep = dep] \in Delivery
BY DEF Delivery

LEMMA MovesOn ==
  ASSUME NEW r \in Delivery, NEW at \in {"materialize", "row"}
  PROVE  [r EXCEPT !.at = at] \in Delivery
BY DEF Delivery

LEMMA Forced ==
  ASSUME NEW r \in Delivery, NEW force \in BOOLEAN PROVE [r EXCEPT !.forced = force] \in Delivery
BY DEF Delivery

LEMMA Limited ==
  ASSUME NEW r \in Delivery, NEW b \in BOOLEAN
  PROVE  [[r EXCEPT !.at = "deliver"] EXCEPT !.limited = b] \in Delivery
BY DEF Delivery

LEMMA Delivered ==
  ASSUME NEW r \in Delivery, NEW b \in BOOLEAN PROVE [r EXCEPT !.delivered = b] \in Delivery
BY DEF Delivery

LEMMA DeliveryStep == Typed /\ [Next]_vars => DeliveryOK'
<1> SUFFICES ASSUME Typed, [Next]_vars PROVE DeliveryOK'
  OBVIOUS
<1>1. RowsOK /\ DeliveryOK /\ HoldersInv
  BY DEF Typed, TypeOK
<1>2. CASE UNCHANGED <<dl, task>>
  BY <1>1, <1>2 DEF DeliveryOK
<1>3. Idle \in Delivery
  <2>1. FALSE \in BOOLEAN
    BY Zenon
  <2> QED
    BY <2>1 DEF Idle, Delivery
<1>4. ASSUME NEW a \in Deliverers, NEW from, Stop(a, from) PROVE dl' \in [Deliverers -> Delivery]
  BY <1>1, <1>3, <1>4, UpdateType, Zenon DEF Stop, DeliveryOK
<1>5. ASSUME NEW a \in Deliverers, NEW from,
             NEW to \in {"row", "halt", "advance", "select"}, Step(a, from, to)
      PROVE  dl' \in [Deliverers -> Delivery]
  <2>1. dl[a] \in Delivery
    BY <1>1 DEF DeliveryOK
  <2>2. [dl[a] EXCEPT !.at = to] \in Delivery
    BY <2>1, <1>5 DEF Delivery
  <2> QED
    BY <1>1, <1>5, <2>2 DEF Step, DeliveryOK
<1>6. CASE PollerSteps
  <2>1. ASSUME NEW dep \in Deployments, PollerPick(dep) PROVE DeliveryOK'
    <3>1. ASSUME NEW at \in {"materialize", "row"},
                 dl' = [dl EXCEPT !["poller"].dep = dep, !["poller"].at = at]
          PROVE  dl' \in [Deliverers -> Delivery]
      <4>1. [[dl["poller"] EXCEPT !.dep = dep] EXCEPT !.at = at] \in Delivery
        BY <1>1, <2>1, TakenUp, MovesOn DEF PollerPick, DeliveryOK
      <4> QED
        BY <1>1, <3>1, <4>1 DEF DeliveryOK
    <3>2. dl' \in [Deliverers -> Delivery]
      BY <2>1, <3>1 DEF PollerPick
    <3> QED
      BY <1>1, <2>1, <3>2, Zenon DEF PollerPick, DeliveryOK
  <2>2. ASSUME NEW targets \in SUBSET Devices, Materialize(targets) PROVE DeliveryOK'
    <3>1. dl' \in [Deliverers -> Delivery]
      BY <1>4, <1>5, <2>2, Zenon DEF Materialize
    <3> QED
      BY <1>1, <2>2, <3>1, Zenon DEF Materialize, DeliveryOK
  <2> QED
    BY <1>6, <2>1, <2>2, Zenon DEF PollerSteps
<1>7. CASE SupervisorSteps
  <2>1. ASSUME NEW dep \in Deployments, SupervisorPick(dep) PROVE DeliveryOK'
    <3>1. soaked[dep] \in BOOLEAN /\ override[dep] \in BOOLEAN
      BY <1>1, <2>1, Zenon DEF RowsOK
    <3>2. phase[dep] \in Nat
      BY <1>1 DEF RowsOK
    <3>3. dl' \in [Deliverers -> Delivery]
      BY <1>1, <1>3, <2>1, <3>1, <3>2 DEF SupervisorPick, DeliveryOK, Delivery, Idle
    <3> QED
      BY <1>1, <2>1, <3>3, Zenon DEF SupervisorPick, DeliveryOK
  <2>2. CASE Decide
    <3>1. Decision(dl["supervisor"].dep, dl["supervisor"].phase, dl["supervisor"].soaked)
            \in {"wait", "halt", "advance"}
      BY DEF Decision
    <3>2. dl' \in [Deliverers -> Delivery]
      BY <1>4, <1>5, <2>2, <3>1 DEF Decide
    <3> QED
      BY <1>1, <2>2, <3>2, Zenon DEF Decide, DeliveryOK
  <2>3. CASE Halt
    BY <1>1, <1>4, <2>3, Zenon DEF Halt, DeliveryOK
  <2>4. CASE Advance
    <3>1. dl' \in [Deliverers -> Delivery]
      BY <1>1, <2>4 DEF Advance, DeliveryOK, Delivery
    <3> QED
      BY <1>1, <2>4, <3>1, Zenon DEF Advance, DeliveryOK
  <2> QED
    BY <1>7, <2>1, <2>2, <2>3, <2>4, Zenon DEF SupervisorSteps
<1>8. ASSUME NEW a \in Deliverers, DeliverySteps(a) PROVE DeliveryOK'
  <2>1. CASE ReadRow(a)
    <3>1. dl[a].dep \in Deployments
      BY <1>1, <2>1 DEF ReadRow, HoldersInv
    <3>2. override[dl[a].dep] \in BOOLEAN
      BY <1>1, <3>1, Zenon DEF RowsOK
    <3>3. phase[dl[a].dep] \in Nat
      BY <1>1, <3>1 DEF RowsOK
    <3>4. CASE status[dl[a].dep] \notin {"scheduled", "active"}
      BY <1>1, <1>4, <2>1, <3>4, Zenon DEF ReadRow, DeliveryOK
    <3>5. CASE status[dl[a].dep] \in {"scheduled", "active"}
      <4>1. dl' \in [Deliverers -> Delivery]
        <5>1. PICK at \in {"activate", "select"}, n \in Nat, o \in BOOLEAN :
                dl' = [dl EXCEPT ![a].phase = n, ![a].override = o, ![a].at = at]
          BY <2>1, <3>2, <3>3, <3>5 DEF ReadRow
        <5>2. dl[a] \in Delivery /\ DOMAIN dl = Deliverers
          BY <1>1 DEF DeliveryOK
        <5>3. [dl[a] EXCEPT !.phase = n, !.override = o, !.at = at] \in Delivery
          BY <5>2 DEF Delivery
        <5>4. dl' = [dl EXCEPT ![a] = [dl[a] EXCEPT !.phase = n, !.override = o, !.at = at]]
          BY <5>1, <5>2
        <5> QED
          BY <1>1, <5>3, <5>4 DEF DeliveryOK
      <4> QED
        BY <1>1, <2>1, <4>1, Zenon DEF ReadRow, DeliveryOK
    <3> QED
      BY <3>4, <3>5
  <2>2. CASE Activate(a)
    BY <1>1, <1>5, <2>2, Zenon DEF Activate, DeliveryOK
  <2>3. CASE Select(a)
    <3>1. ASSUME NEW b \in BOOLEAN, dl' = [dl EXCEPT ![a].at = "deliver", ![a].limited = b]
          PROVE  dl' \in [Deliverers -> Delivery]
      <4>1. [[dl[a] EXCEPT !.at = "deliver"] EXCEPT !.limited = b] \in Delivery
        BY <1>1, Limited DEF DeliveryOK
      <4> QED
        BY <1>1, <3>1, <4>1 DEF DeliveryOK
    <3>2. dl' \in [Deliverers -> Delivery]
      BY <2>3, <3>1, Zenon DEF Select
    <3>3. task' \in [Deliverers -> [Devices -> {"none", "queued", "calling", "received", "done"}]]
      BY <1>1, <2>3 DEF Select, DeliveryOK
    <3> QED
      BY <3>2, <3>3 DEF DeliveryOK
  <2>4. CASE SelectNothing(a)
    BY <1>1, <1>4, <2>4, Zenon DEF SelectNothing, DeliveryOK
  <2>5. CASE EndDelivery(a)
    <3>1. task' \in [Deliverers -> [Devices -> {"none", "queued", "calling", "received", "done"}]]
      BY <1>1, <2>5 DEF EndDelivery, DeliveryOK, NoTask
    <3> QED
      BY <1>4, <2>5, <3>1, Zenon DEF EndDelivery, DeliveryOK
  <2>6. ASSUME NEW d \in Devices,
               Dispatch(a, d) \/ FleetDelivers(a, d) \/ FleetAnswers(a, d) \/ FleetFails(a, d)
        PROVE  DeliveryOK'
    <3>1. task' \in [Deliverers -> [Devices -> {"none", "queued", "calling", "received", "done"}]]
      <4>1. \E s \in {"calling", "received", "done"} : task' = [task EXCEPT ![a][d] = s]
        BY <2>6, Zenon DEF Dispatch, FleetDelivers, FleetAnswers, FleetFails
      <4> QED
        BY <1>1, <4>1 DEF DeliveryOK
    <3>2. dl' \in [Deliverers -> Delivery]
      <4>1. TRUE \in BOOLEAN
        BY Zenon
      <4>2. CASE dl' = [dl EXCEPT ![a].delivered = TRUE]
        <5>1. [dl[a] EXCEPT !.delivered = TRUE] \in Delivery
          BY <1>1, <4>1, Delivered DEF DeliveryOK
        <5> QED
          BY <1>1, <4>2, <5>1 DEF DeliveryOK
      <4>3. CASE dl' = dl
        BY <1>1, <4>3 DEF DeliveryOK
      <4> QED
        BY <2>6, <4>2, <4>3, Zenon DEF Dispatch, FleetDelivers, FleetAnswers, FleetFails
    <3> QED
      BY <3>1, <3>2 DEF DeliveryOK
  <2> QED
    BY <1>8, <2>1, <2>2, <2>3, <2>4, <2>5, <2>6, Zenon DEF DeliverySteps
<1>9. ASSUME NEW dep \in Deployments, NEW force \in BOOLEAN, StarterPick(dep, force)
      PROVE  DeliveryOK'
  <2>1. dl' = [dl EXCEPT !["starter"].dep = dep, !["starter"].forced = force,
                         !["starter"].at = "row"]
    BY <1>9, Zenon DEF StarterPick
  <2>2. dl' \in [Deliverers -> Delivery]
    <3>1. [[[dl["starter"] EXCEPT !.dep = dep] EXCEPT !.forced = force] EXCEPT !.at = "row"]
            \in Delivery
      BY <1>1, <1>9, TakenUp, MovesOn, Forced DEF StarterPick, DeliveryOK
    <3> QED
      BY <1>1, <2>1, <3>1 DEF DeliveryOK
  <2> QED
    BY <1>1, <1>9, <2>2, Zenon DEF StarterPick, DeliveryOK
<1> QED
  BY <1>2, <1>6, <1>7, <1>8, <1>9, DeliveryWriters, Zenon

(* Who writes the state of the handlers.                                   *)
LEMMA HandlerWriters ==
  ASSUME [Next]_vars
  PROVE  \/ UNCHANGED <<creating, call, writes, recompute, swaps, reaping, reaped>>
         \/ \E a \in Deliverers : EndDelivery(a)
         \/ \E r \in reports : ReceiveResult(r)
         \/ Telemetry \/ JobWrites \/ ReaperSteps \/ Creation \/ Tools
<1> USE DEF handlers, QuietHandlers
<1>1. CASE PollerSteps \/ SupervisorSteps
  BY <1>1, Zenon DEF PollerSteps, PollerPick, Materialize, SupervisorSteps, SupervisorPick,
    Decide, Halt, Advance
<1>2. ASSUME NEW a \in Deliverers, DeliverySteps(a)
      PROVE  \/ UNCHANGED <<creating, call, writes, recompute, swaps, reaping, reaped>>
             \/ EndDelivery(a)
  BY <1>2, Zenon DEF DeliverySteps, ReadRow, Activate, Select, SelectNothing, Dispatch,
    FleetDelivers, FleetAnswers, FleetFails
<1>3. CASE (\E d \in Devices : DeviceSteps(d)) \/ ReportSteps \/ Clock \/ UNCHANGED vars
  BY <1>3, Zenon DEF DeviceSteps, DeviceCommits, DeviceRollsBack, DeviceSilent, ReportSteps,
    LoseReport, Clock, SoakElapses, JobAges, vars
<1> QED
  BY <1>1, <1>2, <1>3, Zenon DEF Next

LEMMA HandlersStep == Typed /\ [Next]_vars => HandlersOK'
<1> SUFFICES ASSUME Typed, [Next]_vars PROVE HandlersOK'
  OBVIOUS
<1>1. RowsOK /\ JobsOK /\ DeliveryOK /\ HandlersOK /\ FleetOK /\ HoldersInv
  BY DEF Typed, TypeOK
<1>2. CASE UNCHANGED <<creating, call, writes, recompute, swaps, reaping, reaped>>
  BY <1>1, <1>2 DEF HandlersOK
<1>3. ASSUME NEW a \in Deliverers, EndDelivery(a) PROVE HandlersOK'
  <2>1. dl[a].dep \in Deployments
    BY <1>1, <1>3 DEF EndDelivery, Stop, HoldersInv
  <2>2. recompute' \subseteq Deployments
    BY <1>1, <1>3, <2>1, Zenon DEF EndDelivery, HandlersOK
  <2> QED
    BY <1>1, <1>3, <2>2, Zenon DEF EndDelivery, HandlersOK
<1> DEFINE Write == [dep : Deployments, device : Devices, status : JobStatus \cup {"touch"}]
<1>4. ASSUME NEW r \in reports, ReceiveResult(r) PROVE HandlersOK'
  <2>1. r.device \in Devices /\ r.status \in JobStatus
    BY <1>1 DEF FleetOK, JobStatus, TerminalDD
  <2>2. FindActiveJob(r.device, r.version) \subseteq Deployments
    BY DEF FindActiveJob, ActiveJobs
  <2>3. \A dep \in FindActiveJob(r.device, r.version) :
          [dep |-> dep, device |-> r.device, status |-> r.status] \in Write
    BY <2>1, <2>2
  <2>4. writes' \subseteq Write
    BY <1>1, <1>4, <2>3, Zenon DEF ReceiveResult, HandlersOK
  <2> QED
    BY <1>1, <1>4, <2>4, Zenon DEF ReceiveResult, HandlersOK
<1>5. CASE Telemetry
  <2>1. PICK d \in Devices, stage \in InFlight : ReceiveProgress(d, stage)
    BY <1>5 DEF Telemetry
  <2>2. FindActiveJob(d, updating[d]) \subseteq Deployments
    BY DEF FindActiveJob, ActiveJobs
  <2>3. \A dep \in FindActiveJob(d, updating[d]) :
          [dep |-> dep, device |-> d,
           status |-> IF stage = job[dep][d] THEN "touch" ELSE stage] \in Write
    BY <2>2 DEF JobStatus
  <2>4. writes' \subseteq Write
    BY <1>1, <2>1, <2>3, Zenon DEF ReceiveProgress, HandlersOK
  <2> QED
    BY <1>1, <2>1, <2>4, Zenon DEF ReceiveProgress, HandlersOK
<1>6. CASE JobWrites
  <2>1. ASSUME NEW w \in writes, ApplyWrite(w) PROVE HandlersOK'
    <3>1. w.dep \in Deployments
      BY <1>1 DEF HandlersOK
    <3>2. recompute' \subseteq Deployments /\ writes' \subseteq writes
      BY <1>1, <2>1, <3>1, Zenon DEF ApplyWrite, HandlersOK
    <3> QED
      BY <1>1, <2>1, <3>2, Zenon DEF ApplyWrite, HandlersOK
  <2>2. ASSUME NEW dep \in recompute, RecomputeRead(dep) PROVE HandlersOK'
    <3>1. dep \in Deployments /\ status[dep] \in DeploymentStatus
      BY <1>1 DEF HandlersOK, RowsOK
    <3>2. [dep |-> dep, seen |-> status[dep]] \in [dep : Deployments, seen : DeploymentStatus]
      BY <3>1
    <3>3. swaps' \subseteq [dep : Deployments, seen : DeploymentStatus]
      BY <1>1, <2>2, <3>2, Zenon DEF RecomputeRead, HandlersOK
    <3>4. recompute' \subseteq recompute
      BY <2>2, Zenon DEF RecomputeRead
    <3> QED
      BY <1>1, <2>2, <3>3, <3>4, Zenon DEF RecomputeRead, HandlersOK
  <2>3. ASSUME NEW s \in swaps, RecomputeSwap(s) PROVE HandlersOK'
    <3>1. swaps' \subseteq swaps
      BY <2>3, Zenon DEF RecomputeSwap
    <3> QED
      BY <1>1, <2>3, <3>1, Zenon DEF RecomputeSwap, HandlersOK
  <2> QED
    BY <1>6, <2>1, <2>2, <2>3, Zenon DEF JobWrites
<1>7. CASE ReaperSteps
  <2>1. CASE ReaperSelect
    <3>1. reaping' \subseteq Deployments \X Devices
      BY <2>1 DEF ReaperSelect
    <3> QED
      BY <1>1, <2>1, <3>1, Zenon DEF ReaperSelect, HandlersOK
  <2>2. ASSUME NEW x \in reaping, ReaperWrite(x) PROVE HandlersOK'
    <3>1. x[1] \in Deployments
      BY <1>1 DEF HandlersOK
    <3>2. /\ reaped' \subseteq Deployments /\ recompute' \subseteq Deployments
          /\ reaping' \subseteq reaping
      BY <1>1, <2>2, <3>1 DEF ReaperWrite, HandlersOK
    <3> QED
      BY <1>1, <2>2, <3>2, Zenon DEF ReaperWrite, HandlersOK
  <2> QED
    BY <1>7, <2>1, <2>2, Zenon DEF ReaperSteps
<1>8. CASE Creation
  <2>1. creating' \subseteq creating
    BY <1>8, Zenon DEF Creation, CreateJobs, CreateFails
  <2> QED
    BY <1>1, <1>8, <2>1, Zenon DEF Creation, CreateJobs, CreateFails, HandlersOK
<1>9. CASE Tools
  <2> DEFINE Calls == [at : {"idle", "abort", "abort_jobs", "resume"},
                       dep : Deployments \cup {None}]
  <2>1. ASSUME NEW c \in Callers, AbortStatus(c) \/ AbortJobs(c) \/ Resume(c) PROVE HandlersOK'
    <3>1. \/ call' = [call EXCEPT ![c].at = "abort_jobs"]
          \/ call' = [call EXCEPT ![c] = NoCall]
      BY <2>1, Zenon DEF AbortStatus, AbortJobs, Resume
    <3>2. call' \in [Callers -> Calls]
      BY <1>1, <3>1 DEF HandlersOK, NoCall
    <3> QED
      BY <1>1, <2>1, <3>2, Zenon DEF AbortStatus, AbortJobs, Resume, HandlersOK
  <2>2. ASSUME NEW c \in Callers, NEW op \in {"abort", "resume"}, NEW dep \in Deployments,
               ToolRead(c, op, dep)
        PROVE  HandlersOK'
    <3>1. call' = [call EXCEPT ![c] = [at |-> op, dep |-> dep]]
      BY <2>2, Zenon DEF ToolRead
    <3>2. call' \in [Callers -> Calls]
      BY <1>1, <3>1 DEF HandlersOK
    <3> QED
      BY <1>1, <2>2, <3>2, Zenon DEF ToolRead, HandlersOK
  <2>3. ASSUME NEW dep \in Deployments, NEW d \in Devices, NEW s \in JobStatus,
               ReportStatus(dep, d, s)
        PROVE  HandlersOK'
    <3>1. [dep |-> dep, device |-> d, status |-> s] \in Write
      OBVIOUS
    <3>2. writes' \subseteq Write
      BY <1>1, <2>3, <3>1, Zenon DEF ReportStatus, HandlersOK
    <3> QED
      BY <1>1, <2>3, <3>2, Zenon DEF ReportStatus, HandlersOK
  <2>4. CASE \E dep \in Deployments, force \in BOOLEAN : StarterPick(dep, force)
    BY <1>2, <2>4, Zenon DEF StarterPick, QuietHandlers
  <2>5. CASE \E dep \in Deployments : DashboardOverride(dep)
    BY <1>2, <2>5, Zenon DEF DashboardOverride, handlers
  <2> QED
    BY <1>9, <2>1, <2>2, <2>3, <2>4, <2>5, Zenon DEF Tools
<1> QED
  BY <1>2, <1>3, <1>4, <1>5, <1>6, <1>7, <1>8, <1>9, HandlerWriters, Zenon

LEMMA FleetStep == Typed /\ [Next]_vars => FleetOK'
<1> SUFFICES ASSUME Typed, [Next]_vars PROVE FleetOK'
  OBVIOUS
<1>1. FleetOK /\ HoldersInv
  BY DEF Typed, TypeOK
<1> USE DEF fleet
<1>2. CASE UNCHANGED fleet
  BY <1>1, <1>2 DEF FleetOK
<1>3. CASE PollerSteps \/ SupervisorSteps \/ Telemetry \/ UNCHANGED vars
  BY <1>2, <1>3, Zenon DEF PollerSteps, PollerPick, Materialize, SupervisorSteps, SupervisorPick,
    Decide, Halt, Advance, Telemetry, ReceiveProgress, vars
<1>4. CASE JobWrites \/ ReaperSteps \/ Creation \/ Tools \/ Clock
  <2>1. CASE JobWrites \/ ReaperSteps \/ Creation
    BY <1>2, <2>1, Zenon DEF JobWrites, ApplyWrite, RecomputeRead, RecomputeSwap, ReaperSteps,
      ReaperSelect, ReaperWrite, Creation, CreateJobs, CreateFails
  <2>2. CASE Tools \/ Clock
    BY <1>2, <2>2, Zenon DEF Tools, StarterPick, ReportStatus, ToolRead, AbortStatus, AbortJobs,
      Resume, DashboardOverride, Clock, SoakElapses, JobAges
  <2> QED
    BY <1>4, <2>1, <2>2
<1>5. ASSUME NEW a \in Deliverers, DeliverySteps(a) PROVE FleetOK'
  <2>1. ASSUME NEW d \in Devices, FleetDelivers(a, d) PROVE FleetOK'
    <3>1. dl[a].dep \in Deployments
      BY <1>1, <2>1, TaskHolds DEF FleetDelivers
    <3> QED
      BY <1>1, <2>1, <3>1 DEF FleetDelivers, FleetOK
  <2>2. (\E d \in Devices : FleetDelivers(a, d)) \/ UNCHANGED fleet
    BY <1>5, Zenon DEF DeliverySteps, ReadRow, Activate, Select, SelectNothing, EndDelivery,
      Dispatch, FleetAnswers, FleetFails
  <2> QED
    BY <1>2, <2>1, <2>2
<1>6. ASSUME NEW d \in Devices, DeviceSteps(d) PROVE FleetOK'
  <2>1. /\ updating[d] # None
        /\ updating' = [updating EXCEPT ![d] = None]
        /\ \/ reports' = reports
           \/ \E s \in {"success", "failure"} :
                reports' = reports \cup {[device |-> d, version |-> updating[d], status |-> s]}
    BY <1>6, Zenon DEF DeviceSteps, DeviceCommits, DeviceRollsBack, DeviceSilent
  <2> QED
    BY <1>1, <2>1 DEF FleetOK
<1>7. CASE ReportSteps
  <2>1. reports' \subseteq reports /\ UNCHANGED updating
    BY <1>7, Zenon DEF ReportSteps, ReceiveResult, LoseReport
  <2> QED
    BY <1>1, <2>1 DEF FleetOK
<1> QED
  BY <1>3, <1>4, <1>5, <1>6, <1>7, Zenon DEF Next

LEMMA PastStep == Typed /\ [Next]_vars => PastOK'
<1> SUFFICES ASSUME Typed, [Next]_vars PROVE PastOK'
  OBVIOUS
<1>1. PastOK /\ HandlersOK /\ FleetOK /\ HoldersInv
  BY DEF Typed, TypeOK
<1> USE DEF past
<1>2. CASE UNCHANGED past
  BY <1>1, <1>2 DEF PastOK
<1>3. CASE PollerSteps \/ SupervisorSteps \/ ReportSteps \/ Telemetry \/ UNCHANGED vars
  BY <1>2, <1>3, Zenon DEF PollerSteps, PollerPick, Materialize, SupervisorSteps, SupervisorPick,
    Decide, Halt, Advance, ReportSteps, ReceiveResult, LoseReport, Telemetry, ReceiveProgress,
    vars
<1>4. CASE ReaperSteps \/ Creation \/ Clock
  BY <1>2, <1>4, Zenon DEF ReaperSteps, ReaperSelect, ReaperWrite, Creation, CreateJobs,
    CreateFails, Clock, SoakElapses, JobAges
<1>5. ASSUME NEW a \in Deliverers, DeliverySteps(a) PROVE PastOK'
  <2>1. ASSUME NEW d \in Devices, Dispatch(a, d) PROVE PastOK'
    <3>1. dl[a].dep \in Deployments
      BY <1>1, <2>1, TaskHolds DEF Dispatch
    <3>2. sent' \subseteq Deployments \X Devices
      BY <1>1, <2>1, <3>1 DEF Dispatch, PastOK
    <3> QED
      BY <1>1, <2>1, <3>2, Zenon DEF Dispatch, PastOK
  <2>2. CASE Select(a)
    <3>1. dl[a].dep \in Deployments
      BY <1>1, <2>2 DEF Select, HoldersInv
    <3>2. bypassed' \subseteq Deployments
      BY <1>1, <2>2, <3>1 DEF Select, PastOK
    <3> QED
      BY <1>1, <2>2, <3>2, Zenon DEF Select, PastOK
  <2>3. (\E d \in Devices : Dispatch(a, d)) \/ Select(a) \/ UNCHANGED past
    BY <1>5, Zenon DEF DeliverySteps, ReadRow, Activate, SelectNothing, EndDelivery,
      FleetDelivers, FleetAnswers, FleetFails
  <2> QED
    BY <1>2, <2>1, <2>2, <2>3
<1>6. ASSUME NEW d \in Devices, DeviceSteps(d) PROVE PastOK'
  <2>1. CASE DeviceCommits(d)
    <3>1. committed' \subseteq Deployments \X Devices
      BY <1>1, <2>1 DEF DeviceCommits, PastOK, FleetOK
    <3> QED
      BY <1>1, <2>1, <3>1, Zenon DEF DeviceCommits, PastOK
  <2>2. CASE DeviceRollsBack(d) \/ DeviceSilent(d)
    BY <1>2, <2>2, Zenon DEF DeviceRollsBack, DeviceSilent
  <2> QED
    BY <1>6, <2>1, <2>2 DEF DeviceSteps
<1>7. ASSUME NEW dep, Notify(dep) PROVE notified' \in [Deployments -> 0..2]
  <2>1. CASE dep \in Deployments
    <3>1. (IF notified[dep] < 2 THEN notified[dep] + 1 ELSE notified[dep]) \in 0..2
      BY <1>1, <2>1 DEF PastOK
    <3> QED
      BY <1>1, <1>7, <3>1 DEF Notify, PastOK
  <2>2. CASE dep \notin Deployments
    BY <1>1, <1>7, <2>2 DEF Notify, PastOK
  <2> QED
    BY <2>1, <2>2
<1>8. CASE JobWrites
  <2>1. ASSUME NEW s \in swaps, RecomputeSwap(s) PROVE PastOK'
    <3>1. notified' \in [Deployments -> 0..2]
      BY <1>1, <1>7, <2>1, Zenon DEF RecomputeSwap, PastOK
    <3> QED
      BY <1>1, <2>1, <3>1, Zenon DEF RecomputeSwap, PastOK
  <2>2. (\E s \in swaps : RecomputeSwap(s)) \/ UNCHANGED past
    BY <1>8, Zenon DEF JobWrites, ApplyWrite, RecomputeRead
  <2> QED
    BY <1>2, <2>1, <2>2
<1>9. CASE Tools
  <2>1. ASSUME NEW c \in Callers, AbortJobs(c) PROVE PastOK'
    BY <1>1, <1>7, <2>1, Zenon DEF AbortJobs, PastOK
  <2>2. (\E c \in Callers : AbortJobs(c)) \/ UNCHANGED past
    BY <1>9, Zenon DEF Tools, StarterPick, ReportStatus, ToolRead, AbortStatus, Resume,
      DashboardOverride
  <2> QED
    BY <1>2, <2>1, <2>2
<1> QED
  BY <1>3, <1>4, <1>5, <1>6, <1>8, <1>9, Zenon DEF Next

LEMMA HoldersStep == Typed /\ [Next]_vars => HoldersInv'
<1> SUFFICES ASSUME Typed, [Next]_vars PROVE HoldersInv'
  OBVIOUS
<1>1. DeliveryOK /\ HandlersOK /\ HoldersInv
  BY DEF Typed, TypeOK
<1> DEFINE Deliveries ==
       /\ \A a \in Deliverers : dl[a].at # "idle" => dl[a].dep \in Deployments
       /\ \A a \in Deliverers : dl[a].at # "deliver" => task[a] = NoTask
<1>2. Deliveries /\ \A c \in Callers : call[c].at # "idle" => call[c].dep \in Deployments
  BY <1>1 DEF HoldersInv
<1>3. (\A c \in Callers : call[c].at # "idle" => call[c].dep \in Deployments)'
  <2>1. CASE UNCHANGED call
    BY <1>2, <2>1
  <2>2. ASSUME NEW c \in Callers, AbortStatus(c) \/ AbortJobs(c) \/ Resume(c)
        PROVE  (\A e \in Callers : call[e].at # "idle" => call[e].dep \in Deployments)'
    <3>1. \/ call' = [call EXCEPT ![c].at = "abort_jobs"] /\ call[c].at = "abort"
          \/ call' = [call EXCEPT ![c] = NoCall]
      BY <2>2, Zenon DEF AbortStatus, AbortJobs, Resume
    <3> QED
      BY <1>1, <1>2, <3>1 DEF HandlersOK, NoCall
  <2>3. ASSUME NEW c \in Callers, NEW op \in {"abort", "resume"}, NEW dep \in Deployments,
               ToolRead(c, op, dep)
        PROVE  (\A e \in Callers : call[e].at # "idle" => call[e].dep \in Deployments)'
    <3>1. call' = [call EXCEPT ![c] = [at |-> op, dep |-> dep]]
      BY <2>3, Zenon DEF ToolRead
    <3> QED
      BY <1>1, <1>2, <3>1 DEF HandlersOK
  <2>4. CASE Tools
    <3>1. \/ \E c \in Callers : \/ AbortStatus(c) \/ AbortJobs(c) \/ Resume(c)
                              \/ \E op \in {"abort", "resume"}, dep \in Deployments :
                                   ToolRead(c, op, dep)
          \/ UNCHANGED call
      BY <2>4, Zenon DEF Tools, StarterPick, ReportStatus, DashboardOverride, QuietHandlers,
        handlers
    <3> QED
      BY <2>1, <2>2, <2>3, <3>1, Zenon
  <2>5. Tools \/ UNCHANGED call
    BY HandlerWriters, Zenon DEF EndDelivery, ReceiveResult, Telemetry, ReceiveProgress, JobWrites,
      ApplyWrite, RecomputeRead, RecomputeSwap, ReaperSteps, ReaperSelect, ReaperWrite, Creation,
      CreateJobs, CreateFails
  <2> QED
    BY <2>1, <2>4, <2>5
<1>4. Deliveries'
  <2>1. CASE UNCHANGED <<dl, task>>
    BY <1>2, <2>1
  <2>2. ASSUME NEW a \in Deliverers, NEW dep \in Deployments, NEW at,
               dl[a].at # "deliver", at # "deliver", UNCHANGED task,
               dl'[a].dep = dep, dl'[a].at = at,
               \A b \in Deliverers \ {a} : dl'[b] = dl[b]
        PROVE  Deliveries'
    BY <1>2, <2>2
  <2>3. ASSUME NEW a \in Deliverers, NEW from, from # "deliver", Stop(a, from), UNCHANGED task
        PROVE  Deliveries'
    BY <1>1, <1>2, <2>3 DEF Stop, Idle, DeliveryOK
  <2>4. ASSUME NEW a \in Deliverers, NEW from \in {"materialize", "activate", "decide"},
               NEW to \in {"row", "halt", "advance", "select"}, Step(a, from, to), UNCHANGED task
        PROVE  Deliveries'
    BY <1>1, <1>2, <2>4 DEF Step, DeliveryOK, Delivery
  <2>5. CASE PollerSteps
    <3>1. ASSUME NEW dep \in Deployments, PollerPick(dep) PROVE Deliveries'
      <4>1. \E at \in {"materialize", "row"} :
              dl' = [dl EXCEPT !["poller"].dep = dep, !["poller"].at = at]
        BY <3>1 DEF PollerPick
      <4>2. "poller" \in Deliverers /\ dl["poller"].at = "idle" /\ UNCHANGED task
        BY <3>1, Zenon DEF PollerPick, Free
      <4> QED
        BY <1>1, <2>2, <4>1, <4>2 DEF DeliveryOK, Delivery
    <3>2. ASSUME NEW targets \in SUBSET Devices, Materialize(targets) PROVE Deliveries'
      BY <2>3, <2>4, <3>2 DEF Materialize
    <3> QED
      BY <2>5, <3>1, <3>2, Zenon DEF PollerSteps
  <2>6. CASE SupervisorSteps
    <3>1. ASSUME NEW dep \in Deployments, SupervisorPick(dep) PROVE Deliveries'
      <4>1. "supervisor" \in Deliverers /\ dl["supervisor"].at = "idle" /\ UNCHANGED task
        BY <3>1, Zenon DEF SupervisorPick, Free
      <4>2. /\ dl'["supervisor"].dep = dep /\ dl'["supervisor"].at = "decide"
            /\ \A b \in Deliverers \ {"supervisor"} : dl'[b] = dl[b]
        BY <1>1, <3>1 DEF SupervisorPick, DeliveryOK, Idle
      <4> QED
        BY <2>2, <4>1, <4>2
    <3>2. CASE Decide
      <4>1. Decision(dl["supervisor"].dep, dl["supervisor"].phase, dl["supervisor"].soaked)
              \in {"wait", "halt", "advance"}
        BY DEF Decision
      <4> QED
        BY <2>3, <2>4, <3>2, <4>1 DEF Decide
    <3>3. CASE Halt
      BY <2>3, <3>3 DEF Halt
    <3>4. CASE Advance
      BY <1>1, <1>2, <2>2, <3>4 DEF Advance, DeliveryOK, Delivery
    <3> QED
      BY <2>6, <3>1, <3>2, <3>3, <3>4, Zenon DEF SupervisorSteps
  <2>7. ASSUME NEW a \in Deliverers, DeliverySteps(a) PROVE Deliveries'
    <3>1. CASE ReadRow(a)
      <4>1. CASE status[dl[a].dep] \notin {"scheduled", "active"}
        BY <2>3, <3>1, <4>1 DEF ReadRow
      <4>2. CASE status[dl[a].dep] \in {"scheduled", "active"}
        <5>1. \E at \in {"activate", "select"},
                 p \in {phase[dl[a].dep]}, o \in {override[dl[a].dep]} :
                dl' = [dl EXCEPT ![a].phase = p, ![a].override = o, ![a].at = at]
          BY <3>1, <4>2 DEF ReadRow
        <5>2. dl[a].at = "row" /\ dl[a].dep \in Deployments /\ UNCHANGED task
          BY <1>2, <3>1 DEF ReadRow
        <5> QED
          BY <1>1, <2>2, <5>1, <5>2 DEF DeliveryOK, Delivery
      <4> QED
        BY <4>1, <4>2
    <3>2. CASE Activate(a)
      BY <2>4, <3>2 DEF Activate
    <3>3. CASE Select(a)
      BY <1>1, <1>2, <3>3 DEF Select, DeliveryOK, Delivery
    <3>4. CASE SelectNothing(a)
      BY <2>3, <3>4 DEF SelectNothing
    <3>5. CASE EndDelivery(a)
      BY <1>1, <1>2, <3>5 DEF EndDelivery, Stop, Idle, DeliveryOK
    <3>6. ASSUME NEW d \in Devices,
                 Dispatch(a, d) \/ FleetDelivers(a, d) \/ FleetAnswers(a, d) \/ FleetFails(a, d)
          PROVE  Deliveries'
      <4>1. dl[a].at = "deliver"
        BY <1>1, <3>6, TaskHolds DEF Dispatch, FleetDelivers, FleetAnswers, FleetFails
      <4>2. /\ \E s \in {"calling", "received", "done"} : task' = [task EXCEPT ![a][d] = s]
            /\ dl' = dl \/ dl' = [dl EXCEPT ![a].delivered = TRUE]
        BY <3>6, Zenon DEF Dispatch, FleetDelivers, FleetAnswers, FleetFails
      <4>3. \A b \in Deliverers : dl'[b].at = dl[b].at /\ dl'[b].dep = dl[b].dep
        BY <1>1, <4>2 DEF DeliveryOK, Delivery
      <4>4. \A b \in Deliverers \ {a} : task'[b] = task[b]
        BY <1>1, <4>2 DEF DeliveryOK
      <4> QED
        BY <1>2, <4>1, <4>3, <4>4
    <3> QED
      BY <2>7, <3>1, <3>2, <3>3, <3>4, <3>5, <3>6, Zenon DEF DeliverySteps
  <2>8. ASSUME NEW dep \in Deployments, NEW force \in BOOLEAN, StarterPick(dep, force)
        PROVE  Deliveries'
    <3>1. "starter" \in Deliverers /\ dl["starter"].at = "idle" /\ UNCHANGED task
      BY <2>8, Zenon DEF StarterPick, Free
    <3>2. dl' = [dl EXCEPT !["starter"].dep = dep, !["starter"].forced = force,
                           !["starter"].at = "row"]
      BY <2>8, Zenon DEF StarterPick
    <3> QED
      BY <1>1, <2>2, <3>1, <3>2 DEF DeliveryOK, Delivery
  <2> QED
    BY <2>1, <2>5, <2>6, <2>7, <2>8, DeliveryWriters, Zenon
<1> QED
  BY <1>3, <1>4 DEF HoldersInv

(* Every state of every deployment service is well typed, and whoever is   *)
(* under way knows its deployment.                                         *)
LEMMA AlwaysTyped == Spec => []Typed
<1>1. Typed /\ [Next]_vars => Typed'
  BY RowsStep, JobsStep, DeliveryStep, HandlersStep, FleetStep, PastStep, HoldersStep
     DEF Typed, TypeOK
<1> QED
  BY InitTyped, <1>1, PTL DEF Spec

(* Every variable has its type, in every reachable state, for every fleet, *)
(* rollout policy and set of enabled actors.                               *)
THEOREM TypeCorrect == Spec => []TypeOK
<1>1. Typed => TypeOK
  BY DEF Typed
<1> QED
  BY AlwaysTyped, <1>1, PTL

-----------------------------------------------------------------------------
(* The bound on the waves.  What a step does to the phases, to a delivery, *)
(* to a task and to a job, and then the invariant, part by part.           *)
LEMMA PhaseWriters ==
  ASSUME [Next]_vars PROVE UNCHANGED phase \/ Advance
<1> USE DEF rows
<1>1. CASE PollerSteps \/ SupervisorSteps \/ Telemetry \/ UNCHANGED vars
  BY <1>1, Zenon DEF PollerSteps, PollerPick, Materialize, SupervisorSteps, SupervisorPick,
    Decide, Halt, Telemetry, ReceiveProgress, vars
<1>2. CASE \E a \in Deliverers : DeliverySteps(a)
  <2>1. PICK a \in Deliverers : DeliverySteps(a)
    BY <1>2
  <2>2. CASE ReadRow(a) \/ Activate(a) \/ Select(a)
    BY <2>2, Zenon DEF ReadRow, Activate, Select
  <2>3. CASE SelectNothing(a) \/ EndDelivery(a)
    BY <2>3, Zenon DEF SelectNothing, EndDelivery
  <2>4. CASE \E d \in Devices : Dispatch(a, d) \/ FleetDelivers(a, d)
                           \/ FleetAnswers(a, d) \/ FleetFails(a, d)
    BY <2>4, Zenon DEF Dispatch, FleetDelivers, FleetAnswers, FleetFails
  <2> QED
    BY <2>1, <2>2, <2>3, <2>4, Zenon DEF DeliverySteps
<1>2a. CASE \E d \in Devices : DeviceSteps(d)
  BY <1>2a, Zenon DEF DeviceSteps, DeviceCommits, DeviceRollsBack, DeviceSilent
<1>3. CASE ReportSteps \/ JobWrites \/ ReaperSteps \/ Creation
  BY <1>3, Zenon DEF ReportSteps, ReceiveResult, LoseReport, JobWrites, ApplyWrite, RecomputeRead,
    RecomputeSwap, ReaperSteps, ReaperSelect, ReaperWrite, Creation, CreateJobs, CreateFails
<1>4. CASE Tools \/ Clock
  BY <1>4, Zenon DEF Tools, StarterPick, ReportStatus, ToolRead, AbortStatus, AbortJobs, Resume,
    DashboardOverride, Clock, SoakElapses, JobAges
<1> QED
  BY <1>1, <1>2, <1>2a, <1>3, <1>4, Zenon DEF Next

(* No deployment becomes scheduled.                                        *)
LEMMA NeverScheduledAgain ==
  ASSUME Typed, [Next]_vars, NEW dep \in Deployments, status'[dep] = "scheduled"
  PROVE  status[dep] = "scheduled"
<1>1. RowsOK
  BY DEF Typed, TypeOK
<1>2. \/ UNCHANGED status
      \/ \E e, s : s # "scheduled" /\ status' = [status EXCEPT ![e] = s]
  <2> USE DEF rows
  <2>0. "active" # "scheduled" /\ "paused" # "scheduled" /\ "finished" # "scheduled"
        /\ "aborted" # "scheduled"
    OBVIOUS
  <2>1. CASE PollerSteps \/ SupervisorSteps \/ Telemetry \/ UNCHANGED vars
    BY <2>0, <2>1, Zenon DEF PollerSteps, PollerPick, Materialize, SupervisorSteps,
      SupervisorPick, Decide, Halt, Advance, Telemetry, ReceiveProgress, vars
  <2>2. CASE \E a \in Deliverers : DeliverySteps(a)
    <3>1. UNCHANGED status \/ \E a \in Deliverers : Activate(a) \/ EndDelivery(a)
      <4>1. PICK a \in Deliverers : DeliverySteps(a)
        BY <2>2
      <4>2. CASE ReadRow(a) \/ Activate(a) \/ Select(a)
        BY <4>2, Zenon DEF ReadRow, Select
      <4>3. CASE SelectNothing(a) \/ EndDelivery(a)
        BY <4>3, Zenon DEF SelectNothing
      <4>4. CASE \E d \in Devices : Dispatch(a, d) \/ FleetDelivers(a, d)
                               \/ FleetAnswers(a, d) \/ FleetFails(a, d)
        BY <4>4, Zenon DEF Dispatch, FleetDelivers, FleetAnswers, FleetFails
      <4> QED
        BY <4>1, <4>2, <4>3, <4>4, Zenon DEF DeliverySteps
    <3>2. ASSUME NEW a \in Deliverers, EndDelivery(a)
          PROVE  UNCHANGED status \/ status' = [status EXCEPT ![dl[a].dep] = "paused"]
      BY <3>2, Zenon DEF EndDelivery
    <3>3. ASSUME NEW a \in Deliverers, Activate(a)
          PROVE  status' = [status EXCEPT ![dl[a].dep] = "active"]
      BY <3>3, Zenon DEF Activate
    <3> QED
      BY <2>0, <3>1, <3>2, <3>3, Zenon
  <2>3. CASE (\E d \in Devices : DeviceSteps(d)) \/ ReportSteps \/ ReaperSteps \/ Creation
    BY <2>3, Zenon DEF DeviceSteps, DeviceCommits, DeviceRollsBack, DeviceSilent, ReportSteps,
      ReceiveResult, LoseReport, ReaperSteps, ReaperSelect, ReaperWrite, Creation, CreateJobs,
      CreateFails
  <2>4. CASE JobWrites
    BY <2>0, <2>4, Zenon DEF JobWrites, ApplyWrite, RecomputeRead, RecomputeSwap
  <2>5. CASE Tools \/ Clock
    <3>1. \/ UNCHANGED status
          \/ \E c \in Callers : AbortStatus(c) \/ Resume(c)
          \/ \E e \in Deployments : DashboardOverride(e)
      <4>1. CASE Tools
        BY <4>1, Zenon DEF Tools, StarterPick, ReportStatus, ToolRead, AbortJobs
      <4>2. CASE Clock
        BY <4>2, Zenon DEF Clock, SoakElapses, JobAges
      <4> QED
        BY <2>5, <4>1, <4>2
    <3>2. ASSUME NEW c \in Callers, AbortStatus(c) \/ Resume(c)
          PROVE  \/ status' = [status EXCEPT ![call[c].dep] = "aborted"]
                 \/ status' = [status EXCEPT ![call[c].dep] = "active"]
      BY <3>2, Zenon DEF AbortStatus, Resume
    <3>3. ASSUME NEW e \in Deployments, DashboardOverride(e)
          PROVE  status' = [status EXCEPT ![e] = "active"]
      BY <3>3, Zenon DEF DashboardOverride
    <3> QED
      BY <2>0, <3>1, <3>2, <3>3, Zenon
  <2> QED
    BY <2>1, <2>2, <2>3, <2>4, <2>5, Zenon DEF Next
<1> QED
  BY <1>1, <1>2 DEF RowsOK

(* The creations only end.                                                 *)
LEMMA CreatingShrinks ==
  ASSUME [Next]_vars PROVE creating' \subseteq creating
BY HandlerWriters, Zenon DEF EndDelivery, ReceiveResult, Telemetry, ReceiveProgress, JobWrites,
  ApplyWrite, RecomputeRead, RecomputeSwap, ReaperSteps, ReaperSelect, ReaperWrite, Creation,
  CreateJobs, CreateFails, Tools, StarterPick, ReportStatus, ToolRead, AbortStatus, AbortJobs,
  Resume, DashboardOverride, QuietHandlers, handlers

(* What a step does to a delivery.                                         *)
SameRow(a) == dl'[a].dep = dl[a].dep /\ dl'[a].phase = dl[a].phase
DeliveryMove(a) ==
  \/ dl'[a].at = dl[a].at /\ SameRow(a)
  \/ dl'[a].at \in {"idle", "row"}
  \/ dl'[a].at = "materialize" /\ a = "poller" /\ PollerPick(dl'[a].dep)
  \/ dl'[a].at \in {"activate", "select"} /\ dl'[a].phase = phase'[dl'[a].dep]
  \/ dl[a].at = "activate" /\ dl'[a].at = "select" /\ SameRow(a)
  \/ a = "supervisor" /\ dl'[a].at = "decide" /\ dl'[a].phase = phase'[dl'[a].dep]
  \/ a = "supervisor" /\ dl[a].at = "decide" /\ dl'[a].at \in {"halt", "advance"} /\ SameRow(a)
  \/ dl'[a].at = "select" /\ a = "supervisor" /\ Advance
  \/ dl[a].at = "select" /\ dl'[a].at = "deliver" /\ SameRow(a)

LEMMA DeliveryMoves ==
  ASSUME Typed, [Next]_vars, NEW a \in Deliverers PROVE DeliveryMove(a)
<1>1. DeliveryOK /\ HoldersInv
  BY DEF Typed, TypeOK
<1>2. CASE dl'[a] = dl[a]
  BY <1>2 DEF DeliveryMove, SameRow
<1>3. ASSUME NEW b \in Deliverers, NEW from, Stop(b, from) PROVE DeliveryMove(a)
  <2>1. dl'[a] = dl[a] \/ dl'[a].at = "idle"
    BY <1>1, <1>3 DEF Stop, Idle, DeliveryOK
  <2> QED
    BY <1>2, <2>1 DEF DeliveryMove
<1>4. CASE PollerSteps
  <2>1. ASSUME NEW dep \in Deployments, PollerPick(dep) PROVE DeliveryMove(a)
    <3>1. \E at \in {"materialize", "row"} :
            dl' = [dl EXCEPT !["poller"].dep = dep, !["poller"].at = at]
      BY <2>1 DEF PollerPick
    <3>2. \/ dl'[a] = dl[a]
          \/ a = "poller" /\ dl'[a].at = "row"
          \/ a = "poller" /\ dl'[a].at = "materialize" /\ dl'[a].dep = dep
      BY <1>1, <3>1 DEF DeliveryOK, Delivery
    <3> QED
      BY <1>2, <2>1, <3>2 DEF DeliveryMove
  <2>2. ASSUME NEW targets \in SUBSET Devices, Materialize(targets) PROVE DeliveryMove(a)
    <3>1. CASE Stop("poller", "materialize")
      BY <1>3, <2>2, <3>1 DEF Materialize
    <3>2. CASE Step("poller", "materialize", "row")
      <4>1. dl'[a] = dl[a] \/ dl'[a].at = "row"
        BY <1>1, <3>2 DEF Step, DeliveryOK, Delivery
      <4> QED
        BY <1>2, <4>1 DEF DeliveryMove
    <3> QED
      BY <2>2, <3>1, <3>2 DEF Materialize
  <2> QED
    BY <1>4, <2>1, <2>2, Zenon DEF PollerSteps
<1>5. CASE SupervisorSteps
  <2>1. ASSUME NEW dep \in Deployments, SupervisorPick(dep) PROVE DeliveryMove(a)
    <3>1. \/ dl'[a] = dl[a]
          \/ a = "supervisor" /\ dl'[a].at = "decide" /\ dl'[a].phase = phase'[dl'[a].dep]
      BY <1>1, <2>1 DEF SupervisorPick, DeliveryOK, Idle, rows
    <3> QED
      BY <1>2, <3>1 DEF DeliveryMove
  <2>2. CASE Decide
    <3>1. Decision(dl["supervisor"].dep, dl["supervisor"].phase, dl["supervisor"].soaked)
            \in {"wait", "halt", "advance"}
      BY DEF Decision
    <3>2. ASSUME NEW to \in {"halt", "advance"}, Step("supervisor", "decide", to)
          PROVE  DeliveryMove(a)
      <4>1. \/ dl'[a] = dl[a]
            \/ a = "supervisor" /\ dl[a].at = "decide" /\ dl'[a].at = to /\ SameRow(a)
        BY <1>1, <3>2 DEF Step, DeliveryOK, Delivery, SameRow
      <4> QED
        BY <1>2, <4>1 DEF DeliveryMove
    <3> QED
      BY <1>3, <2>2, <3>1, <3>2 DEF Decide
  <2>3. CASE Halt
    BY <1>3, <2>3 DEF Halt
  <2>4. CASE Advance
    <3>1. dl'[a] = dl[a] \/ (a = "supervisor" /\ dl'[a].at = "select")
      BY <1>1, <2>4 DEF Advance, DeliveryOK, Delivery
    <3> QED
      BY <1>2, <2>4, <3>1 DEF DeliveryMove
  <2> QED
    BY <1>5, <2>1, <2>2, <2>3, <2>4, Zenon DEF SupervisorSteps
<1>6. ASSUME NEW b \in Deliverers, DeliverySteps(b) PROVE DeliveryMove(a)
  <2>1. CASE ReadRow(b)
    <3>1. CASE status[dl[b].dep] \notin {"scheduled", "active"}
      BY <1>3, <2>1, <3>1 DEF ReadRow
    <3>2. CASE status[dl[b].dep] \in {"scheduled", "active"}
      <4>1. /\ \E at \in {"activate", "select"}, o \in {override[dl[b].dep]} :
                 dl' = [dl EXCEPT ![b].phase = phase[dl[b].dep], ![b].override = o, ![b].at = at]
            /\ UNCHANGED phase
        BY <2>1, <3>2 DEF ReadRow, rows
      <4>2. \/ dl'[a] = dl[a]
            \/ dl'[a].at \in {"activate", "select"} /\ dl'[a].phase = phase'[dl'[a].dep]
        BY <1>1, <4>1 DEF DeliveryOK, Delivery
      <4> QED
        BY <1>2, <4>2 DEF DeliveryMove
    <3> QED
      BY <3>1, <3>2
  <2>2. CASE Activate(b)
    <3>1. \/ dl'[a] = dl[a]
          \/ dl[a].at = "activate" /\ dl'[a].at = "select" /\ SameRow(a)
      BY <1>1, <2>2 DEF Activate, Step, DeliveryOK, Delivery, SameRow
    <3> QED
      BY <1>2, <3>1 DEF DeliveryMove
  <2>3. CASE Select(b)
    <3>1. \/ dl'[a] = dl[a]
          \/ dl[a].at = "select" /\ dl'[a].at = "deliver" /\ SameRow(a)
      BY <1>1, <2>3 DEF Select, DeliveryOK, Delivery, SameRow
    <3> QED
      BY <1>2, <3>1 DEF DeliveryMove
  <2>4. CASE SelectNothing(b) \/ EndDelivery(b)
    BY <1>3, <2>4 DEF SelectNothing, EndDelivery
  <2>5. ASSUME NEW d \in Devices,
               Dispatch(b, d) \/ FleetDelivers(b, d) \/ FleetAnswers(b, d) \/ FleetFails(b, d)
        PROVE  DeliveryMove(a)
    <3>1. dl' = dl \/ dl' = [dl EXCEPT ![b].delivered = TRUE]
      BY <2>5, Zenon DEF Dispatch, FleetDelivers, FleetAnswers, FleetFails
    <3>2. dl'[a].at = dl[a].at /\ SameRow(a)
      BY <1>1, <3>1 DEF DeliveryOK, Delivery, SameRow
    <3> QED
      BY <3>2 DEF DeliveryMove
  <2> QED
    BY <1>6, <2>1, <2>2, <2>3, <2>4, <2>5, Zenon DEF DeliverySteps
<1>7. ASSUME NEW dep \in Deployments, NEW force \in BOOLEAN, StarterPick(dep, force)
      PROVE  DeliveryMove(a)
  <2>1. dl' = [dl EXCEPT !["starter"].dep = dep, !["starter"].forced = force,
                         !["starter"].at = "row"]
    BY <1>7, Zenon DEF StarterPick
  <2>2. dl'[a] = dl[a] \/ dl'[a].at = "row"
    BY <1>1, <2>1 DEF DeliveryOK, Delivery
  <2> QED
    BY <1>2, <2>2 DEF DeliveryMove
<1>8. CASE UNCHANGED <<dl, task>>
  BY <1>2, <1>8
<1> QED
  BY <1>4, <1>5, <1>6, <1>7, <1>8, DeliveryWriters, Zenon

(* Who writes the tasks.                                                   *)
LEMMA TaskWriters ==
  ASSUME [Next]_vars
  PROVE  \/ UNCHANGED task
         \/ \E b \in Deliverers : \/ Select(b) \/ EndDelivery(b)
                                \/ \E e \in Devices : \/ Dispatch(b, e) \/ FleetDelivers(b, e)
                                                     \/ FleetAnswers(b, e) \/ FleetFails(b, e)
<1>1. CASE UNCHANGED <<dl, task>>
  BY <1>1
<1>2. CASE PollerSteps \/ SupervisorSteps
           \/ \E dep \in Deployments, force \in BOOLEAN : StarterPick(dep, force)
  BY <1>2, Zenon DEF PollerSteps, PollerPick, Materialize, SupervisorSteps, SupervisorPick,
    Decide, Halt, Advance, StarterPick
<1>3. CASE \E b \in Deliverers : DeliverySteps(b)
  BY <1>3, Zenon DEF DeliverySteps, ReadRow, Activate, SelectNothing
<1> QED
  BY <1>1, <1>2, <1>3, DeliveryWriters, Zenon

(* What a step does to a task.                                             *)
LEMMA TaskMoves ==
  ASSUME Typed, [Next]_vars, NEW a \in Deliverers, NEW d \in Devices, task'[a][d] # "none"
  PROVE  /\ SameRow(a)
         /\ \/ /\ task[a][d] # "none"
               /\ task'[a][d] = "queued" => task[a][d] = "queued"
               /\ task[a][d] = "done" => task'[a][d] = "done"
            \/ Select(a) /\ d \in Waiting(dl[a].dep, dl[a].phase)
<1>1. DeliveryOK /\ HoldersInv
  BY DEF Typed, TypeOK
<1>2. CASE UNCHANGED task
  <2>1. dl[a].at = "deliver"
    BY <1>1, <1>2, TaskHolds
  <2>2. dl'[a].at = "deliver"
    BY <1>2, HoldersStep DEF HoldersInv, NoTask
  <2>3. SameRow(a)
    BY <2>1, <2>2, DeliveryMoves DEF DeliveryMove
  <2> QED
    BY <1>2, <2>3
<1>3. ASSUME NEW b \in Deliverers, Select(b)
      PROVE  /\ SameRow(a)
             /\ \/ task[a][d] # "none" /\ task'[a][d] = task[a][d]
                \/ Select(a) /\ d \in Waiting(dl[a].dep, dl[a].phase)
  <2>1. SameRow(a)
    BY <1>1, <1>3 DEF Select, DeliveryOK, Delivery, SameRow
  <2>2. CASE a # b
    BY <1>1, <1>3, <2>1, <2>2 DEF Select, DeliveryOK
  <2>3. CASE a = b
    BY <1>1, <1>3, <2>1, <2>3 DEF Select, DeliveryOK
  <2> QED
    BY <2>2, <2>3
<1>4. ASSUME NEW b \in Deliverers, EndDelivery(b)
      PROVE  SameRow(a) /\ task'[a][d] = task[a][d]
  <2>1. a # b
    BY <1>1, <1>4 DEF EndDelivery, NoTask, DeliveryOK
  <2> QED
    BY <1>1, <1>4, <2>1 DEF EndDelivery, Stop, DeliveryOK, SameRow
<1>5. ASSUME NEW b \in Deliverers, NEW e \in Devices,
             Dispatch(b, e) \/ FleetDelivers(b, e) \/ FleetAnswers(b, e) \/ FleetFails(b, e)
      PROVE  /\ SameRow(a) /\ task[a][d] # "none"
             /\ task'[a][d] = "queued" => task[a][d] = "queued"
             /\ task[a][d] = "done" => task'[a][d] = "done"
  <2>1. /\ \E s \in {"calling", "received", "done"} : task' = [task EXCEPT ![b][e] = s]
        /\ task[b][e] \in {"queued", "calling", "received"}
        /\ dl' = dl \/ dl' = [dl EXCEPT ![b].delivered = TRUE]
    <3> QED
      BY <1>5, Zenon DEF Dispatch, FleetDelivers, FleetAnswers, FleetFails
  <2>2. SameRow(a)
    BY <1>1, <2>1 DEF DeliveryOK, Delivery, SameRow
  <2> QED
    BY <1>1, <2>1, <2>2 DEF DeliveryOK
<1> QED
  BY <1>2, <1>3, <1>4, <1>5, TaskWriters

(* What a step does to a job: it stays, with its wave; it is new only when *)
(* its deployment is created or materialized.                              *)
JobKept(dep, d) ==
  /\ job[dep][d] # "none" => job'[dep][d] # "none" /\ wave'[dep][d] = wave[dep][d]
  /\ job[dep][d] = "none" /\ job'[dep][d] # "none" =>
       \/ dep \in creating \ creating'
       \/ /\ "poller" \in Deliverers
          /\ dl["poller"].at = "materialize" /\ dl["poller"].dep = dep
          /\ dl'["poller"].at = "row"

WaveIInv == Typed /\ JobsExist /\ JobsFresh /\ PhaseKnown /\ CohortBound

LEMMA JobsKept ==
  ASSUME WaveIInv, [Next]_vars, NEW dep \in Deployments, NEW d \in Devices
  PROVE  JobKept(dep, d)
<1>1. JobsOK /\ DeliveryOK /\ HandlersOK /\ HoldersInv /\ JobsExist /\ JobsFresh
  BY DEF WaveIInv, Typed, TypeOK
<1>2. CASE UNCHANGED <<job, wave>>
  BY <1>2 DEF JobKept
<1>3. ASSUME NEW e \in Deployments, NEW t \in SUBSET Devices, CreateJobs(e, t)
      PROVE  JobKept(dep, d)
  <2>1. e \in creating /\ e \notin creating' /\ Targets(e) = {}
    BY <1>1, <1>3 DEF CreateJobs, JobsFresh
  <2>2. CASE dep = e
    BY <2>1, <2>2 DEF JobKept, Targets
  <2>3. CASE dep # e
    BY <1>1, <1>3, <2>3 DEF CreateJobs, InsertJobs, JobKept, JobsOK
  <2> QED
    BY <2>2, <2>3
<1>4. ASSUME NEW t \in SUBSET Devices, Materialize(t) PROVE JobKept(dep, d)
  <2>1. CASE UNCHANGED jobs
    BY <1>2, <2>1 DEF jobs
  <2>2. CASE Step("poller", "materialize", "row") /\ InsertJobs(dl["poller"].dep, t)
    <3>1. /\ "poller" \in Deliverers /\ dl["poller"].at = "materialize"
          /\ dl'["poller"].at = "row" /\ Targets(dl["poller"].dep) = {}
      BY <1>1, <1>4, <2>2 DEF Materialize, Step, JobsFresh, DeliveryOK, Delivery
    <3>2. CASE dep = dl["poller"].dep
      BY <3>1, <3>2 DEF JobKept, Targets
    <3>3. CASE dep # dl["poller"].dep
      BY <1>1, <2>2, <3>3 DEF InsertJobs, JobKept, JobsOK
    <3> QED
      BY <3>2, <3>3
  <2> QED
    BY <1>4, <2>1, <2>2, Zenon DEF Materialize
<1>5. ASSUME NEW e \in Deployments, NEW f \in Devices, NEW s, SetJob(e, f, s),
             job[e][f] # "none", s # "none"
      PROVE  JobKept(dep, d)
  BY <1>1, <1>5 DEF SetJob, JobKept, JobsOK
<1>6. ASSUME NEW a \in Deliverers, NEW f \in Devices, Dispatch(a, f) \/ FleetFails(a, f)
      PROVE  JobKept(dep, d)
  <2>1. /\ task[a][f] # "none"
        /\ SetJob(dl[a].dep, f, "downloading") \/ SetJob(dl[a].dep, f, "failure")
    BY <1>6 DEF Dispatch, FleetFails
  <2>2. dl[a].dep \in Deployments /\ job[dl[a].dep][f] # "none"
    BY <1>1, <2>1, TaskHolds DEF JobsExist
  <2> QED
    BY <1>5, <2>1, <2>2
<1>7. ASSUME NEW w \in writes, ApplyWrite(w) PROVE JobKept(dep, d)
  <2>1. /\ w.dep \in Deployments /\ w.device \in Devices
        /\ job[w.dep][w.device] # "none" /\ w.status # "none"
    BY <1>1 DEF HandlersOK, JobsExist
  <2>2. SetJob(w.dep, w.device,
               IF w.status = "touch" THEN job[w.dep][w.device] ELSE w.status)
    BY <1>7, Zenon DEF ApplyWrite
  <2> QED
    BY <1>5, <2>1, <2>2
<1>8. ASSUME NEW x \in reaping, ReaperWrite(x) PROVE JobKept(dep, d)
  <2>1. x[1] \in Deployments /\ x[2] \in Devices /\ job[x[1]][x[2]] # "none"
    BY <1>1 DEF HandlersOK, JobsExist
  <2>2. SetJob(x[1], x[2], "timed_out")
    BY <1>8 DEF ReaperWrite
  <2> QED
    BY <1>5, <2>1, <2>2
<1>9. ASSUME NEW c \in Callers, AbortJobs(c) PROVE JobKept(dep, d)
  BY <1>1, <1>9 DEF AbortJobs, JobKept, JobsOK, InFlight
<1>10. ASSUME NEW e \in Deployments, NEW f \in Devices, JobAges(e, f) PROVE JobKept(dep, d)
  BY <1>2, <1>10 DEF JobAges
<1> QED
  BY <1>2, <1>3, <1>4, <1>6, <1>7, <1>8, <1>9, <1>10, JobWriters, Zenon

(* The phase of a deployment never goes back.                              *)
LEMMA PhaseGrows ==
  ASSUME WaveIInv, [Next]_vars, NEW dep \in Deployments PROVE phase[dep] <= phase'[dep]
<1>1. RowsOK /\ DeliveryOK /\ PhaseKnown
  BY DEF WaveIInv, Typed, TypeOK
<1>2. CASE UNCHANGED phase
  BY <1>1, <1>2 DEF RowsOK
<1>3. CASE Advance
  <2>1. dl["supervisor"].phase = phase[dl["supervisor"].dep]
    BY <1>1, <1>3 DEF Advance, PhaseKnown
  <2> QED
    BY <1>1, <1>3, <2>1 DEF Advance, RowsOK
<1> QED
  BY <1>2, <1>3, PhaseWriters

LEMMA SentWriters ==
  ASSUME [Next]_vars
  PROVE  UNCHANGED sent \/ \E a \in Deliverers, d \in Devices : Dispatch(a, d)
<1> USE DEF past
<1>1. CASE PollerSteps \/ SupervisorSteps \/ Telemetry \/ ReportSteps \/ UNCHANGED vars
  BY <1>1, Zenon DEF PollerSteps, PollerPick, Materialize, SupervisorSteps, SupervisorPick,
    Decide, Halt, Advance, Telemetry, ReceiveProgress, ReportSteps, ReceiveResult, LoseReport,
    vars
<1>2. CASE \E a \in Deliverers : DeliverySteps(a)
  <2>1. PICK a \in Deliverers : DeliverySteps(a)
    BY <1>2
  <2>2. CASE ReadRow(a) \/ Activate(a) \/ Select(a)
    BY <2>2, Zenon DEF ReadRow, Activate, Select
  <2>3. CASE SelectNothing(a) \/ EndDelivery(a)
    BY <2>3, Zenon DEF SelectNothing, EndDelivery
  <2>4. CASE \E d \in Devices : Dispatch(a, d) \/ FleetDelivers(a, d)
                           \/ FleetAnswers(a, d) \/ FleetFails(a, d)
    BY <2>4, Zenon DEF FleetDelivers, FleetAnswers, FleetFails
  <2> QED
    BY <2>1, <2>2, <2>3, <2>4, Zenon DEF DeliverySteps
<1>2a. CASE \E d \in Devices : DeviceSteps(d)
  BY <1>2a, Zenon DEF DeviceSteps, DeviceCommits, DeviceRollsBack, DeviceSilent
<1>3. CASE JobWrites \/ ReaperSteps \/ Creation
  BY <1>3, Zenon DEF JobWrites, ApplyWrite, RecomputeRead, RecomputeSwap, ReaperSteps,
    ReaperSelect, ReaperWrite, Creation, CreateJobs, CreateFails
<1>4. CASE Tools \/ Clock
  BY <1>4, Zenon DEF Tools, StarterPick, ReportStatus, ToolRead, AbortStatus, AbortJobs, Resume,
    DashboardOverride, Clock, SoakElapses, JobAges
<1> QED
  BY <1>1, <1>2, <1>2a, <1>3, <1>4, Zenon DEF Next

LEMMA InitWave == Init => WaveIInv
<1> SUFFICES ASSUME Init PROVE WaveIInv
  OBVIOUS
<1>1. Typed
  BY InitTyped
<1>2. /\ dl = [a \in Deliverers |-> Idle] /\ task = [a \in Deliverers |-> NoTask]
      /\ sent = {} /\ writes = {} /\ reaping = {}
  BY DEF Init
<1>3. JobsExist /\ CohortBound /\ PhaseKnown
  BY <1>2 DEF JobsExist, CohortBound, PhaseKnown, Idle, NoTask
<1>4. \A dep \in creating : Targets(dep) = {} /\ status[dep] # "scheduled"
  BY DEF Init, Targets
<1>5. JobsFresh
  BY <1>2, <1>4 DEF JobsFresh, Idle
<1> QED
  BY <1>1, <1>3, <1>5 DEF WaveIInv

LEMMA JobsExistStep == WaveIInv /\ [Next]_vars => JobsExist'
<1> SUFFICES ASSUME WaveIInv, [Next]_vars PROVE JobsExist'
  OBVIOUS
<1>1. /\ JobsOK /\ HandlersOK /\ FleetOK /\ PastOK /\ HoldersInv /\ JobsExist /\ Typed
  BY DEF WaveIInv, Typed, TypeOK
<1>2. \A dep \in Deployments, d \in Devices :
        job[dep][d] # "none" => job'[dep][d] # "none"
  BY JobsKept DEF JobKept
<1>3. \A x \in sent' : job'[x[1]][x[2]] # "none"
  <2>1. CASE UNCHANGED sent
    BY <1>1, <1>2, <2>1 DEF JobsExist, PastOK
  <2>2. ASSUME NEW a \in Deliverers, NEW d \in Devices, Dispatch(a, d)
        PROVE  \A x \in sent' : job'[x[1]][x[2]] # "none"
    <3>1. dl[a].dep \in Deployments /\ job[dl[a].dep][d] # "none"
      BY <1>1, <2>2, TaskHolds DEF Dispatch, JobsExist
    <3>2. sent' = sent \cup {<<dl[a].dep, d>>}
      BY <2>2 DEF Dispatch
    <3> QED
      BY <1>1, <1>2, <3>1, <3>2 DEF JobsExist, PastOK
  <2> QED
    BY <2>1, <2>2, SentWriters
<1>4. \A x \in reaping' : job'[x[1]][x[2]] # "none"
  <2>1. CASE reaping' \subseteq reaping
    BY <1>1, <1>2, <2>1 DEF JobsExist, HandlersOK
  <2>2. CASE ReaperSelect
    BY <1>1, <2>2 DEF ReaperSelect, InFlight, jobs, HandlersOK
  <2>3. reaping' \subseteq reaping \/ ReaperSelect
    BY HandlerWriters, Zenon DEF EndDelivery, ReceiveResult, Telemetry, ReceiveProgress, JobWrites,
      ApplyWrite, RecomputeRead, RecomputeSwap, ReaperSteps, ReaperWrite, Creation, CreateJobs,
      CreateFails, Tools, StarterPick, ReportStatus, ToolRead, AbortStatus, AbortJobs, Resume,
      DashboardOverride, QuietHandlers, handlers
  <2> QED
    BY <2>1, <2>2, <2>3
<1>5. \A w \in writes' : job'[w.dep][w.device] # "none" /\ w.status # "none"
  <2>1. CASE writes' \subseteq writes
    BY <1>1, <1>2, <2>1 DEF JobsExist, HandlersOK
  <2>2. ASSUME NEW dep \in Deployments, NEW d \in Devices, NEW s, s # "none",
               job[dep][d] # "none",
               writes' = writes \cup {[dep |-> dep, device |-> d, status |-> s]}
        PROVE  \A w \in writes' : job'[w.dep][w.device] # "none" /\ w.status # "none"
    BY <1>1, <1>2, <2>2 DEF JobsExist, HandlersOK
  <2>3. ASSUME NEW d, NEW v, NEW dep \in FindActiveJob(d, v)
        PROVE  dep \in Deployments /\ job[dep][d] # "none"
    BY <2>3 DEF FindActiveJob, ActiveJobs
  <2>4. ASSUME NEW r \in reports, ReceiveResult(r)
        PROVE  \A w \in writes' : job'[w.dep][w.device] # "none" /\ w.status # "none"
    <3>1. r.device \in Devices /\ r.status # "none"
      BY <1>1 DEF FleetOK
    <3> QED
      BY <2>1, <2>2, <2>3, <2>4, <3>1 DEF ReceiveResult
  <2>5. CASE Telemetry
    <3>1. PICK d \in Devices, stage \in InFlight : ReceiveProgress(d, stage)
      BY <2>5 DEF Telemetry
    <3>2. stage # "none" /\ "touch" # "none"
      BY DEF InFlight
    <3>3. PICK dep \in FindActiveJob(d, updating[d]) :
            writes' = writes \cup {[dep |-> dep, device |-> d,
                                   status |-> IF stage = job[dep][d] THEN "touch" ELSE stage]}
      BY <3>1, Zenon DEF ReceiveProgress
    <3>4. (IF stage = job[dep][d] THEN "touch" ELSE stage) # "none"
      BY <3>2
    <3> QED
      BY <2>2, <2>3, <3>3, <3>4
  <2>6. ASSUME NEW dep \in Deployments, NEW d \in Devices, NEW s \in JobStatus,
               ReportStatus(dep, d, s)
        PROVE  \A w \in writes' : job'[w.dep][w.device] # "none" /\ w.status # "none"
    <3>1. job[dep][d] # "none" /\ s # "none"
      BY <2>6 DEF ReportStatus, JobTransitions
    <3> QED
      BY <2>2, <2>6, <3>1 DEF ReportStatus
  <2>7. \/ writes' \subseteq writes
        \/ \E r \in reports : ReceiveResult(r)
        \/ Telemetry
        \/ \E dep \in Deployments, d \in Devices, s \in JobStatus : ReportStatus(dep, d, s)
    BY HandlerWriters, Zenon DEF EndDelivery, JobWrites, ApplyWrite, RecomputeRead, RecomputeSwap,
      ReaperSteps, ReaperSelect, ReaperWrite, Creation, CreateJobs, CreateFails, Tools,
      StarterPick, ToolRead, AbortStatus, AbortJobs, Resume, DashboardOverride, QuietHandlers,
      handlers
  <2> QED
    BY <2>1, <2>4, <2>5, <2>6, <2>7
<1>6. (\A a \in Deliverers, d \in Devices : task[a][d] # "none" => job[dl[a].dep][d] # "none")'
  <2> SUFFICES ASSUME NEW a \in Deliverers, NEW d \in Devices, task'[a][d] # "none"
               PROVE  job'[dl'[a].dep][d] # "none"
    OBVIOUS
  <2>1. SameRow(a)
    BY <1>1, TaskMoves
  <2>2. CASE task[a][d] # "none"
    BY <1>1, <1>2, <2>1, <2>2, TaskHolds DEF JobsExist, SameRow
  <2>3. CASE Select(a) /\ d \in Waiting(dl[a].dep, dl[a].phase)
    BY <1>1, <1>2, <2>1, <2>3 DEF Select, Waiting, SameRow, HoldersInv
  <2> QED
    BY <1>1, <2>2, <2>3, TaskMoves
<1> QED
  BY <1>3, <1>4, <1>5, <1>6 DEF JobsExist

LEMMA JobsFreshStep == WaveIInv /\ [Next]_vars => JobsFresh'
<1> SUFFICES ASSUME WaveIInv, [Next]_vars PROVE JobsFresh'
  OBVIOUS
<1>1. JobsOK /\ HandlersOK /\ HoldersInv /\ JobsFresh /\ Typed
  BY DEF WaveIInv, Typed, TypeOK
<1>2. creating' \subseteq creating
  BY CreatingShrinks
<1>3. ASSUME NEW dep \in Deployments, Targets(dep) = {}, dep \notin creating \ creating',
             ~ (/\ "poller" \in Deliverers
                /\ dl["poller"].at = "materialize" /\ dl["poller"].dep = dep
                /\ dl'["poller"].at = "row")
      PROVE  Targets(dep)' = {}
  BY <1>3, JobsKept DEF JobKept, Targets
<1>4. ASSUME NEW dep \in creating' PROVE (Targets(dep) = {} /\ status[dep] # "scheduled")'
  <2>1. dep \in creating /\ dep \in Deployments
    BY <1>1, <1>2 DEF HandlersOK
  <2>2. Targets(dep)' = {}
    BY <1>1, <1>3, <2>1 DEF JobsFresh
  <2>3. status'[dep] # "scheduled"
    BY <1>1, <2>1, NeverScheduledAgain DEF JobsFresh
  <2> QED
    BY <2>2, <2>3
<1>5. ASSUME NEW a \in Deliverers, dl'[a].at = "materialize"
      PROVE  (a = "poller" /\ Targets(dl[a].dep) = {} /\ dl[a].dep \notin creating)'
  <2>1. CASE dl[a].at = "materialize" /\ SameRow(a)
    <3>1. /\ a = "poller" /\ dl[a].dep \in Deployments /\ dl'[a].dep = dl[a].dep
          /\ Targets(dl[a].dep) = {} /\ dl[a].dep \notin creating
      BY <1>1, <2>1 DEF JobsFresh, HoldersInv, SameRow
    <3>2. Targets(dl[a].dep)' = {}
      BY <1>3, <1>5, <3>1 DEF Targets
    <3> QED
      BY <1>2, <3>1, <3>2
  <2>2. CASE a = "poller" /\ PollerPick(dl'[a].dep)
    <3>1. status[dl'[a].dep] = "scheduled" /\ Targets(dl'[a].dep) = {}
      BY <1>1, <1>5, <2>2 DEF PollerPick, Typed, TypeOK, DeliveryOK, Delivery
    <3>2. dl'[a].dep \notin creating
      BY <1>1, <3>1 DEF JobsFresh
    <3>3. UNCHANGED job
      BY <2>2, Zenon DEF PollerPick, jobs
    <3> QED
      BY <1>2, <2>2, <3>1, <3>2, <3>3 DEF Targets
  <2> QED
    BY <1>1, <1>5, <2>1, <2>2, DeliveryMoves DEF DeliveryMove
<1> QED
  BY <1>4, <1>5 DEF JobsFresh

LEMMA PhaseKnownStep == WaveIInv /\ [Next]_vars => PhaseKnown'
<1> SUFFICES ASSUME WaveIInv, [Next]_vars PROVE PhaseKnown'
  OBVIOUS
<1>1. RowsOK /\ JobsOK /\ DeliveryOK /\ HoldersInv /\ JobsExist /\ PhaseKnown /\ Typed
  BY DEF WaveIInv, Typed, TypeOK
<1>2. RowsOK' /\ DeliveryOK' /\ HoldersInv'
  BY <1>1, RowsStep, DeliveryStep, HoldersStep
<1>3. ASSUME NEW a \in Deliverers, dl'[a].at \in {"activate", "select"}
      PROVE  dl'[a].phase <= phase'[dl'[a].dep]
  <2>1. dl'[a].dep \in Deployments /\ dl'[a].phase \in Nat
    BY <1>2, <1>3 DEF HoldersInv, DeliveryOK, Delivery
  <2>2. CASE dl[a].at \in {"activate", "select"} /\ SameRow(a)
    <3>1. dl[a].phase <= phase[dl'[a].dep] /\ dl'[a].phase = dl[a].phase
      BY <1>1, <2>2 DEF PhaseKnown, SameRow
    <3>2. phase[dl'[a].dep] <= phase'[dl'[a].dep]
      BY <2>1, PhaseGrows
    <3> QED
      BY <1>1, <1>2, <2>1, <3>1, <3>2 DEF RowsOK
  <2>3. CASE dl'[a].phase = phase'[dl'[a].dep]
    BY <2>1, <2>3
  <2>4. CASE dl'[a].at = "select" /\ a = "supervisor" /\ Advance
    <3>1. dl'[a].phase = dl[a].phase + 1 /\ dl'[a].dep = dl[a].dep
      BY <1>1, <2>4 DEF Advance, DeliveryOK, Delivery
    <3>2. phase'[dl[a].dep] = dl[a].phase + 1
      BY <1>1, <2>1, <2>4, <3>1 DEF Advance, RowsOK
    <3> QED
      BY <2>1, <3>1, <3>2
  <2> QED
    BY <1>3, <2>2, <2>3, <2>4, DeliveryMoves, <1>1 DEF DeliveryMove
<1>4. ASSUME NEW a \in Deliverers, dl'[a].at \in {"decide", "halt", "advance"}
      PROVE  a = "supervisor" /\ dl'[a].phase = phase'[dl'[a].dep]
  <2>1. CASE dl[a].at \in {"decide", "halt", "advance"} /\ SameRow(a)
    <3>1. a = "supervisor" /\ dl[a].phase = phase[dl[a].dep]
      BY <1>1, <2>1 DEF PhaseKnown
    <3>2. UNCHANGED phase
      <4>1. CASE Advance
        <5>1. dl'["supervisor"].at = "select"
          BY <1>1, <4>1 DEF Advance, DeliveryOK, Delivery
        <5> QED
          BY <1>4, <3>1, <5>1
      <4> QED
        BY <4>1, PhaseWriters
    <3> QED
      BY <2>1, <3>1, <3>2 DEF SameRow
  <2>2. CASE a = "supervisor" /\ dl'[a].at = "decide" /\ dl'[a].phase = phase'[dl'[a].dep]
    BY <2>2
  <2> QED
    BY <1>1, <1>4, <2>1, <2>2, DeliveryMoves DEF DeliveryMove
<1>5. ASSUME NEW a \in Deliverers, NEW d \in Devices, task'[a][d] = "queued"
      PROVE  wave'[dl'[a].dep][d] <= phase'[dl'[a].dep]
  <2>1. SameRow(a)
    BY <1>1, <1>5, TaskMoves
  <2>2. /\ dl[a].dep \in Deployments /\ job[dl[a].dep][d] # "none"
        /\ wave[dl[a].dep][d] <= phase[dl[a].dep]
    <3>1. CASE task[a][d] = "queued"
      BY <1>1, <3>1, TaskHolds DEF JobsExist, PhaseKnown
    <3>2. CASE Select(a) /\ d \in Waiting(dl[a].dep, dl[a].phase)
      <4>1. /\ dl[a].dep \in Deployments /\ dl[a].phase <= phase[dl[a].dep]
            /\ job[dl[a].dep][d] = "pending" /\ wave[dl[a].dep][d] <= dl[a].phase
        BY <1>1, <3>2 DEF Select, Waiting, HoldersInv, PhaseKnown
      <4>2. /\ phase[dl[a].dep] \in Nat /\ wave[dl[a].dep][d] \in Nat /\ dl[a].phase \in Nat
        BY <1>1, <4>1 DEF RowsOK, JobsOK, DeliveryOK, Delivery
      <4> QED
        BY <4>1, <4>2
    <3> QED
      BY <1>1, <1>5, <3>1, <3>2, TaskMoves
  <2>3. wave'[dl[a].dep][d] = wave[dl[a].dep][d]
    BY <2>2, JobsKept DEF JobKept
  <2>4. phase[dl[a].dep] <= phase'[dl[a].dep]
    BY <2>2, PhaseGrows
  <2>5. /\ phase[dl[a].dep] \in Nat /\ phase'[dl[a].dep] \in Nat
        /\ wave[dl[a].dep][d] \in Nat
    BY <1>1, <1>2, <2>2 DEF RowsOK, JobsOK
  <2> QED
    BY <2>1, <2>2, <2>3, <2>4, <2>5 DEF SameRow
<1> QED
  BY <1>3, <1>4, <1>5 DEF PhaseKnown

LEMMA CohortBoundStep == WaveIInv /\ [Next]_vars => CohortBound'
<1> SUFFICES ASSUME WaveIInv, [Next]_vars, NEW x \in sent'
             PROVE  wave'[x[1]][x[2]] <= phase'[x[1]]
  BY DEF CohortBound
<1>1. /\ RowsOK /\ JobsOK /\ PastOK /\ HoldersInv /\ JobsExist /\ PhaseKnown /\ CohortBound
      /\ Typed
  BY DEF WaveIInv, Typed, TypeOK
<1>2. /\ x[1] \in Deployments /\ x[2] \in Devices
      /\ job[x[1]][x[2]] # "none" /\ wave[x[1]][x[2]] <= phase[x[1]]
  <2>1. CASE x \in sent
    BY <1>1, <2>1 DEF PastOK, JobsExist, CohortBound
  <2>2. ASSUME NEW a \in Deliverers, NEW d \in Devices, Dispatch(a, d), x = <<dl[a].dep, d>>
        PROVE  /\ x[1] \in Deployments /\ x[2] \in Devices
               /\ job[x[1]][x[2]] # "none" /\ wave[x[1]][x[2]] <= phase[x[1]]
    BY <1>1, <2>2, TaskHolds DEF Dispatch, JobsExist, PhaseKnown
  <2>3. \/ x \in sent
        \/ \E a \in Deliverers, d \in Devices : Dispatch(a, d) /\ x = <<dl[a].dep, d>>
    BY SentWriters DEF Dispatch
  <2> QED
    BY <2>1, <2>2, <2>3
<1>3. wave'[x[1]][x[2]] = wave[x[1]][x[2]] /\ phase[x[1]] <= phase'[x[1]]
  BY <1>2, JobsKept, PhaseGrows DEF JobKept
<1>4. /\ wave[x[1]][x[2]] \in Nat /\ phase[x[1]] \in Nat /\ phase'[x[1]] \in Nat
  BY <1>1, <1>2, RowsStep DEF RowsOK, JobsOK
<1> QED
  BY <1>2, <1>3, <1>4

LEMMA WaveStep == WaveIInv /\ [Next]_vars => WaveIInv'
<1> SUFFICES ASSUME WaveIInv, [Next]_vars PROVE WaveIInv'
  OBVIOUS
<1>1. Typed'
  BY RowsStep, JobsStep, DeliveryStep, HandlersStep, FleetStep, PastStep, HoldersStep
     DEF WaveIInv, Typed, TypeOK
<1> QED
  BY <1>1, JobsExistStep, JobsFreshStep, PhaseKnownStep, CohortBoundStep DEF WaveIInv

(* The strengthened invariant: what every holder of a deployment knows.    *)
THEOREM WaveInvariant == Spec => []WaveInv
<1>1. WaveIInv => WaveInv
  BY DEF WaveIInv, WaveInv, Typed
<1> QED
  BY InitWave, WaveStep, <1>1, PTL DEF Spec

(* No device is sent the command of a wave that is not released, however   *)
(* the poller, the supervisor, the tools and the webhooks interleave.      *)
THEOREM WavesRespected == Spec => []CohortBound
<1>1. WaveInv => CohortBound
  BY DEF WaveInv
<1> QED
  BY WaveInvariant, <1>1, PTL

=============================================================================
