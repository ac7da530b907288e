------------------------------ MODULE FixJobs ------------------------------
(***************************************************************************)
(* Firmware fixes of one mock device: an agent's submit_firmware_fix puts  *)
(* a job in a table, workers claim, build, record and deploy it, and the   *)
(* agent polls.  A worker that dies leaves its job running, to be claimed  *)
(* again once it is overdue.                                               *)
(***************************************************************************)
EXTENDS Naturals, Sequences, SequencesExt

CONSTANTS
  Fixes,        \* calls of submit_firmware_fix, each made once
  FixVersions,  \* versions an agent may ask for
  Sources,      \* firmware sources
  FixWorkers,   \* processes that run the worker's loop
  MaxAttempts,  \* fix_job_max_attempts
  NoFix

Baseline == 1     \* BASELINE_VERSION, and of a seeded source
Unrecorded == 0   \* no revision
Unbuilt == <<>>   \* no artifact

ASSUME FixAssumption ==
  /\ FixVersions \subseteq Nat \ {Unrecorded}
  /\ MaxAttempts \in Nat \ {0}
  /\ Fixes \cap {NoFix, "seed", "baseline"} = {}

Releases == FixVersions \cup {Baseline}
CallSteps == {"unmade", "new", "floor", "insert", "reread", "enqueue", "rejected", "queued",
              "told_done", "told_error"}
BuildSteps == {"build", "upload", "upload_salted", "record", "deploy"}
WorkerSteps == BuildSteps \cup {"off", "idle", "reclaim", "claim", "done", "error"}

VARIABLES
  emulator,    \* the device is nff-qemu-esp32 (compiled), else a sketch
  wanted, text,\* the version and the source each call submits
  callAt,      \* where each call is
  revisions,   \* mock_firmware_revisions, in order of creation
  artifact,    \* firmware_versions: the build identity behind each release
  queue,       \* firmware_fix_jobs, in order of creation
  jobStatus, attempts, overdue,   \* its columns
  at, doing, rowsRead,   \* each worker: its step, its job, the rows it read
  shipped,     \* the fixes a deployment was created for, and whether it started
  stopped,     \* a worker was killed, or its final write lost
  doubled      \* a job was queued again although a worker was still at it

fixVars == <<emulator, wanted, text, callAt, revisions, artifact, queue, jobStatus,
             attempts, overdue, at, doing, rowsRead, shipped, stopped, doubled>>
request == <<emulator, wanted, text>>
store   == <<revisions, artifact, shipped>>
jobRows == <<queue, jobStatus, attempts, overdue>>
workers == <<at, doing, rowsRead>>
faults  == <<stopped, doubled>>

FixInit ==
  /\ emulator \in BOOLEAN
  /\ wanted \in [Fixes -> FixVersions]
  /\ text \in [Fixes -> Sources]
  /\ callAt \in [Fixes -> {"unmade", "new"}]      \* the calls an agent makes
  /\ revisions = << >>
  /\ artifact = [v \in Releases |-> Unbuilt]
  /\ queue = << >>
  /\ jobStatus = [f \in Fixes |-> "none"]
  /\ attempts = [f \in Fixes |-> 0]
  /\ overdue = [f \in Fixes |-> FALSE]
  /\ at \in [FixWorkers -> {"off", "idle"}]        \* the processes that are run
  /\ doing = [w \in FixWorkers |-> NoFix]
  /\ rowsRead = [w \in FixWorkers |-> {}]
  /\ shipped = {}
  /\ stopped = FALSE /\ doubled = FALSE

----------------------------------------------------------------------------
(* The revisions: unique per version, and the latest is the last created.  *)
Recorded(v) == \E i \in 1..Len(revisions) : revisions[i].version = v
Latest == IF revisions = << >> THEN Unrecorded ELSE Last(revisions).version
Record(v, who) == revisions' = Append(revisions, [version |-> v, by |-> who])

RegisterSource ==
  /\ ~Recorded(Baseline)
  /\ Record(Baseline, "seed")
  /\ UNCHANGED <<request, callAt, artifact, shipped, jobRows, workers, faults>>

----------------------------------------------------------------------------
(* submit_firmware_fix.                                                    *)
CallGoes(c, step) == callAt' = [callAt EXCEPT ![c] = step]

(* What a call makes of the latest revision it has read.                   *)
Judge(c, current) ==
  CallGoes(c, IF current # Unrecorded /\ wanted[c] <= current THEN "rejected" ELSE "enqueue")

ReadLatest(c) ==
  /\ callAt[c] = "new"
  /\ IF Latest = Unrecorded /\ emulator THEN CallGoes(c, "floor") ELSE Judge(c, Latest)
  /\ UNCHANGED <<request, store, jobRows, workers, faults>>

(* ensure_baseline.  Whatever it cannot do, it says no, and its callers    *)
(* then go by the revision they had not found.                             *)
LookForRevision(c) ==
  /\ callAt[c] = "floor"
  /\ \/ revisions # << >> /\ CallGoes(c, "reread")
     \/ revisions = << >> /\ CallGoes(c, "insert")
     \/ revisions = << >> /\ Judge(c, Unrecorded)
  /\ UNCHANGED <<request, store, jobRows, workers, faults>>

InsertBaseline(c) ==
  /\ callAt[c] = "insert"
  /\ IF Recorded(Baseline)
       THEN Judge(c, Unrecorded) /\ UNCHANGED revisions
       ELSE CallGoes(c, "reread") /\ Record(Baseline, "baseline")
  /\ UNCHANGED <<request, artifact, shipped, jobRows, workers, faults>>

Reread(c) ==
  /\ callAt[c] = "reread"
  /\ Judge(c, Latest)
  /\ UNCHANGED <<request, store, jobRows, workers, faults>>

Enqueue(c) ==
  /\ callAt[c] = "enqueue"
  /\ \/ /\ CallGoes(c, "queued")
        /\ queue' = Append(queue, c)
        /\ jobStatus' = [jobStatus EXCEPT ![c] = "pending"]
     \/ /\ CallGoes(c, "rejected")
        /\ UNCHANGED <<queue, jobStatus>>
  /\ UNCHANGED <<request, store, attempts, overdue, workers, faults>>

(* get_firmware_fix_status, called until the job has ended.                *)
Poll(c) ==
  /\ callAt[c] = "queued"
  /\ \/ jobStatus[c] = "done" /\ CallGoes(c, "told_done")
     \/ jobStatus[c] = "error" /\ CallGoes(c, "told_error")
  /\ UNCHANGED <<request, store, jobRows, workers, faults>>

----------------------------------------------------------------------------
(* A sweep: reclaim what is overdue, then claim the oldest pending job.    *)
WorkerGoes(w, step) == at' = [at EXCEPT ![w] = step]
Rests(w) == WorkerGoes(w, "idle") /\ doing' = [doing EXCEPT ![w] = NoFix]

NothingIsStale == {}
StaleJobs == {f \in Fixes : jobStatus[f] = "running" /\ overdue[f]}

SelectStale(w) ==
  /\ at[w] = "idle"
  /\ WorkerGoes(w, "reclaim")
  /\ rowsRead' = [rowsRead EXCEPT ![w] = {<<f, attempts[f]>> : f \in StaleJobs}]
  /\ UNCHANGED <<request, callAt, store, jobRows, doing, faults>>

GivesUp(tries) == tries >= MaxAttempts

Busy(f) == \E w \in FixWorkers : doing[w] = f /\ at[w] # "claim"

Reclaimed(w) == {x \in rowsRead[w] : jobStatus[x[1]] = "running"}
AfterReclaim(w) ==
  [f \in Fixes |-> IF \E x \in Reclaimed(w) : x[1] = f
                     THEN IF \E x \in rowsRead[w] : x[1] = f /\ GivesUp(x[2]) THEN "error" ELSE "pending"
                     ELSE jobStatus[f]]
Waiting(w) == {i \in 1..Len(queue) : AfterReclaim(w)[queue[i]] = "pending"}

(* The updates look at the status again, but not at when the job started;  *)
(* then the oldest pending job is read.                                    *)
ReclaimAndProbe(w) ==
  /\ at[w] = "reclaim"
  /\ jobStatus' = AfterReclaim(w)
  /\ doubled' = (doubled \/ \E x \in Reclaimed(w) : Busy(x[1]))
  /\ \/ /\ Waiting(w) = {}
        /\ WorkerGoes(w, "idle")
        /\ rowsRead' = [rowsRead EXCEPT ![w] = {}]
        /\ UNCHANGED doing
     \/ \E i \in Waiting(w) :
          /\ \A j \in Waiting(w) : i <= j
          /\ WorkerGoes(w, "claim")
          /\ doing' = [doing EXCEPT ![w] = queue[i]]
          /\ rowsRead' = [rowsRead EXCEPT ![w] = {<<queue[i], attempts[queue[i]]>>}]
  /\ UNCHANGED <<request, callAt, store, queue, attempts, overdue, stopped>>

FirstStep == IF emulator THEN "build" ELSE "record"

ClaimAnyway(w) ==
  /\ at[w] = "claim"
  /\ WorkerGoes(w, FirstStep)
  /\ jobStatus' = [jobStatus EXCEPT ![doing[w]] = "running"]
  /\ attempts' = [attempts EXCEPT ![doing[w]] = (CHOOSE x \in rowsRead[w] : TRUE)[2] + 1]
  /\ overdue' = [overdue EXCEPT ![doing[w]] = FALSE]
  /\ rowsRead' = [rowsRead EXCEPT ![w] = {}]
  /\ UNCHANGED <<request, callAt, store, queue, doing, faults>>

Claim(w) ==
  /\ at[w] = "claim"
  /\ rowsRead' = [rowsRead EXCEPT ![w] = {}]
  /\ \/ /\ jobStatus[doing[w]] = "pending"
        /\ WorkerGoes(w, FirstStep)
        /\ jobStatus' = [jobStatus EXCEPT ![doing[w]] = "running"]
        /\ attempts' = [attempts EXCEPT ![doing[w]] = (CHOOSE x \in rowsRead[w] : TRUE)[2] + 1]
        /\ overdue' = [overdue EXCEPT ![doing[w]] = FALSE]
        /\ UNCHANGED doing
     \/ /\ jobStatus[doing[w]] # "pending"
        /\ Rests(w)
        /\ UNCHANGED <<jobStatus, attempts, overdue>>
  /\ UNCHANGED <<request, callAt, store, queue, faults>>

----------------------------------------------------------------------------
(* build_and_deploy_source: a sketch is recorded, uploaded, deployed; a    *)
(* compiled image is built, uploaded, recorded, deployed.                  *)
BuildOf(f) == <<text[f]>>             \* sha256 of the source
SaltedBuildOf(f) == <<text[f], wanted[f]>>
HasBuild(v, b) == artifact[v] = b
BuiltAs(b) == {v \in Releases : HasBuild(v, b)}

(* The identity a compiled fix gets: its source's, unless that names       *)
(* another release already.                                                *)
IdentityOf(f) ==
  IF BuiltAs(BuildOf(f)) \subseteq {wanted[f]} THEN BuildOf(f) ELSE SaltedBuildOf(f)

UploadStep(f) == IF IdentityOf(f) = BuildOf(f) THEN "upload" ELSE "upload_salted"

CompileOrReuse(w) ==
  LET f == doing[w] IN
  /\ at[w] = "build"
  /\ WorkerGoes(w, IF HasBuild(wanted[f], IdentityOf(f)) THEN "record" ELSE UploadStep(f))
  /\ UNCHANGED <<request, callAt, store, jobRows, doing, rowsRead, faults>>

(* An upsert by release; a build identity belongs to one release.  The     *)
(* identity was chosen before the compiler ran, and is not looked up again.*)
Upload(w) ==
  LET f == doing[w]
      b == IF at[w] = "upload" THEN BuildOf(f) ELSE SaltedBuildOf(f) IN
  /\ at[w] \in {"upload", "upload_salted"}
  /\ IF BuiltAs(b) \subseteq {wanted[f]}
       THEN /\ artifact' = [artifact EXCEPT ![wanted[f]] = b]
            /\ WorkerGoes(w, IF emulator THEN "record" ELSE "deploy")
       ELSE WorkerGoes(w, "error") /\ UNCHANGED artifact
  /\ UNCHANGED <<request, callAt, revisions, shipped, jobRows, doing, rowsRead, faults>>

RecordRevision(w) ==
  LET f == doing[w] IN
  /\ at[w] = "record"
  /\ IF Recorded(wanted[f])
       THEN WorkerGoes(w, "error") /\ UNCHANGED revisions
       ELSE /\ Record(wanted[f], f)
            /\ WorkerGoes(w, IF emulator THEN "deploy" ELSE "upload")
  /\ UNCHANGED <<request, callAt, artifact, shipped, jobRows, doing, rowsRead, faults>>

(* create_deployment, then start_deployment, whose answer is only logged.  *)
Deploy(w) ==
  /\ at[w] = "deploy"
  /\ \E started \in BOOLEAN : shipped' = shipped \cup {<<doing[w], started>>}
  /\ WorkerGoes(w, "done")
  /\ UNCHANGED <<request, callAt, revisions, artifact, jobRows, doing, rowsRead, faults>>

(* A compiler, storage or database error.                                  *)
BuildFails(w) ==
  /\ at[w] \in BuildSteps
  /\ WorkerGoes(w, "error")
  /\ UNCHANGED <<request, callAt, store, jobRows, doing, rowsRead, faults>>

FinishJob(w) ==
  /\ at[w] \in {"done", "error"}
  /\ jobStatus' = [jobStatus EXCEPT ![doing[w]] = at[w]]
  /\ Rests(w)
  /\ UNCHANGED <<request, callAt, store, queue, attempts, overdue, rowsRead, faults>>

(* The worker is killed, or its final write raises: the row stays.         *)
WorkerStops(w) ==
  /\ at[w] \in BuildSteps \cup {"done", "error"}
  /\ stopped' = TRUE
  /\ Rests(w)
  /\ UNCHANGED <<request, callAt, store, jobRows, rowsRead, doubled>>

(* fix_job_stale_seconds pass, under a dead worker or a slow build.        *)
RunsLate(f) ==
  /\ jobStatus[f] = "running" /\ ~overdue[f]
  /\ overdue' = [overdue EXCEPT ![f] = TRUE]
  /\ UNCHANGED <<request, callAt, store, queue, jobStatus, attempts, workers, faults>>

----------------------------------------------------------------------------
CallStepOf(c) == \/ ReadLatest(c) \/ LookForRevision(c) \/ InsertBaseline(c) \/ Reread(c)
                 \/ Enqueue(c) \/ Poll(c)
WorkerStep(w) ==
  \/ SelectStale(w) \/ ReclaimAndProbe(w) \/ Claim(w)
  \/ CompileOrReuse(w) \/ Upload(w) \/ RecordRevision(w) \/ Deploy(w)
  \/ BuildFails(w) \/ FinishJob(w)

FixNext ==
  \/ \E c \in Fixes : CallStepOf(c)
  \/ \E w \in FixWorkers : WorkerStep(w) \/ WorkerStops(w)
  \/ \E f \in Fixes : RunsLate(f)
  \/ RegisterSource

FixSpec == FixInit /\ [][FixNext]_fixVars

----------------------------------------------------------------------------
FixTypeOK ==
  /\ emulator \in BOOLEAN /\ doubled \in BOOLEAN /\ stopped \in BOOLEAN
  /\ wanted \in [Fixes -> FixVersions] /\ text \in [Fixes -> Sources]
  /\ callAt \in [Fixes -> CallSteps]
  /\ revisions \in Seq([version : Releases, by : Fixes \cup {"baseline", "seed"}])
  /\ artifact \in [Releases -> {Unbuilt} \cup {<<s>> : s \in Sources} \cup (Sources \X FixVersions)]
  /\ queue \in Seq(Fixes) /\ IsInjective(queue)
  /\ jobStatus \in [Fixes -> {"none", "pending", "running", "done", "error"}]
  /\ attempts \in [Fixes -> Nat] /\ overdue \in [Fixes -> BOOLEAN]
  /\ at \in [FixWorkers -> WorkerSteps] /\ doing \in [FixWorkers -> Fixes \cup {NoFix}]
  /\ rowsRead \in [FixWorkers -> SUBSET (Fixes \X Nat)]
  /\ shipped \subseteq Fixes \X BOOLEAN

Shipped(f) == \E started \in BOOLEAN : <<f, started>> \in shipped

(* However often a job is claimed, reclaimed while its build goes on, and  *)
(* claimed again, a version is shipped for one fix, once.                  *)
ShippedOnce ==
  \A x, y \in shipped : wanted[x[1]] = wanted[y[1]] => x = y

(* A job that is done was deployed under its own revision.                 *)
DoneMeansDeployed ==
  \A f \in Fixes : jobStatus[f] = "done" =>
    /\ Shipped(f)
    /\ \E i \in 1..Len(revisions) : revisions[i] = [version |-> wanted[f], by |-> f]

(* What is shipped was built from the source that its revision records,    *)
(* except that a compiled fix uploads before it records: one that loses    *)
(* the version to an earlier fix has by then replaced its artifact         *)
(* (realcompile.py:108-149).                                               *)
ShipsItsSource ==
  \A f \in Fixes : Shipped(f) =>
    \/ artifact[wanted[f]] # Unbuilt /\ artifact[wanted[f]][1] = text[f]
    \/ emulator /\ \E g \in Fixes \ {f} : wanted[g] = wanted[f]

(* What the agent was told of a job stays true, and a job is in error      *)
(* after it shipped only if a worker stopped, or if the job was queued     *)
(* again under a worker that was still at it.                              *)
ToldTheTruth ==
  \A f \in Fixes :
    /\ callAt[f] = "told_done" => jobStatus[f] = "done" \/ doubled
    /\ callAt[f] = "told_error" => jobStatus[f] = "error" \/ doubled
    /\ jobStatus[f] = "error" /\ Shipped(f) => stopped \/ doubled

FixJobsSound == ShippedOnce /\ DoneMeansDeployed /\ ShipsItsSource /\ ToldTheTruth

(* A queued job ends, however often its workers die on it.                 *)
FixJobEnds ==
  \A f \in Fixes : jobStatus[f] = "pending" ~> jobStatus[f] \in {"done", "error"}

=============================================================================
