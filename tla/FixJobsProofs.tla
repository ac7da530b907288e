--------------------------- MODULE FixJobsProofs ---------------------------
(***************************************************************************)
(* A fix is shipped once, from its own source, and the agent is told the   *)
(* truth about it, for any number of calls and workers.                    *)
(***************************************************************************)
EXTENDS FixJobs, TLAPS

(* A version has one revision; a fix owns its version by having made it.   *)
VersionsUnique ==
  \A i, j \in 1..Len(revisions) : revisions[i].version = revisions[j].version => i = j
Owns(f) == \E i \in 1..Len(revisions) : revisions[i] = [version |-> wanted[f], by |-> f]

(* Only a worker that has recorded the revision gets to ship.              *)
MayShip(w) == at[w] \in IF emulator THEN {"deploy"} ELSE {"upload", "deploy"}

OneShipper ==
  /\ \A f \in Fixes : Shipped(f) => Owns(f)
  /\ \A w \in FixWorkers : MayShip(w) => Owns(doing[w]) /\ ~Shipped(doing[w])
  /\ \A w, v \in FixWorkers : MayShip(w) /\ MayShip(v) /\ doing[w] = doing[v] => w = v
  /\ \A x, y \in shipped : x[1] = y[1] => x = y

(* The artifact of a version is of the source of the fix that asked for    *)
(* it, once it has been built or uploaded for that fix.                    *)
OfItsSource(f) ==
  \/ artifact[wanted[f]] # Unbuilt /\ artifact[wanted[f]][1] = text[f]
  \/ emulator /\ \E g \in Fixes \ {f} : wanted[g] = wanted[f]
HasBuilt(w) == at[w] \in IF emulator THEN {"record", "deploy"} ELSE {"deploy"}

BuiltRight ==
  /\ \A f \in Fixes : Shipped(f) => OfItsSource(f)
  /\ \A w \in FixWorkers : HasBuilt(w) => OfItsSource(doing[w])

(* Whose job is whose: a row is there from the call that queued it on; a   *)
(* worker at a job runs it, alone, unless it was queued again under it.    *)
Handles(w) == at[w] \in BuildSteps \cup {"done", "error"}
JobRows ==
  /\ \A f \in Fixes : jobStatus[f] = "none" <=> callAt[f] \notin {"queued", "told_done", "told_error"}
  /\ \A i \in 1..Len(queue) : jobStatus[queue[i]] # "none"
  /\ \A w \in FixWorkers : /\ doing[w] = NoFix <=> at[w] \in {"off", "idle", "reclaim"}
                           /\ doing[w] # NoFix => jobStatus[doing[w]] # "none"
                           /\ at[w] = "claim" => rowsRead[w] # {}
                           /\ at[w] \in {"build", "upload_salted"} => emulator
  /\ \A w \in FixWorkers : Handles(w) => jobStatus[doing[w]] = "running" \/ doubled
  /\ \A w, v \in FixWorkers : Handles(w) /\ Handles(v) /\ doing[w] = doing[v] => w = v \/ doubled

(* What a job's row says of it.                                            *)
JobEnds ==
  /\ \A w \in FixWorkers : at[w] = "done" => Shipped(doing[w])
  /\ \A f \in Fixes : jobStatus[f] = "done" => Shipped(f)
  /\ \A f \in Fixes : Shipped(f) =>
       \/ jobStatus[f] = "done" \/ stopped \/ doubled
       \/ \E w \in FixWorkers : doing[w] = f /\ at[w] = "done"
  /\ \A f \in Fixes : /\ callAt[f] = "told_done" => jobStatus[f] = "done" \/ doubled
                      /\ callAt[f] = "told_error" => jobStatus[f] = "error" \/ doubled

FixInv == FixTypeOK /\ VersionsUnique /\ OneShipper /\ BuiltRight /\ JobRows /\ JobEnds

RevisionType == [version : Releases, by : Fixes \cup {"baseline", "seed"}]

----------------------------------------------------------------------------

(* Two fixes that own the same version are one.                            *)
LEMMA OwnersUnique ==
  ASSUME FixInv, NEW f \in Fixes, NEW g \in Fixes, Owns(f), Owns(g), wanted[f] = wanted[g]
  PROVE f = g
  <1>1. PICK i \in 1..Len(revisions) : revisions[i] = [version |-> wanted[f], by |-> f] BY DEF Owns
  <1>2. PICK j \in 1..Len(revisions) : revisions[j] = [version |-> wanted[g], by |-> g] BY DEF Owns
  <1>3. i = j BY <1>1, <1>2 DEF FixInv, VersionsUnique
  <1>4. QED BY <1>1, <1>2, <1>3

(* A revision that is only made when its version has none keeps versions   *)
(* unique, and no owner loses its version (MockFirmwareRevision, unique on *)
(* device and version).                                                    *)
LEMMA RecordKeeps ==
  ASSUME FixInv, NEW v \in Releases, NEW who \in Fixes \cup {"baseline", "seed"}, ~Recorded(v), Record(v, who),
         wanted' = wanted
  PROVE /\ revisions' \in Seq(RevisionType)
        /\ VersionsUnique'
        /\ \A f \in Fixes : Owns(f) => Owns(f)'
        /\ who \in Fixes /\ v = wanted[who] => Owns(who)'
  <1> USE DEF RevisionType
  <1> DEFINE new == [version |-> v, by |-> who]
  <1>1. revisions \in Seq(RevisionType) /\ new \in RevisionType /\ revisions' = Append(revisions, new)
    BY DEF FixInv, FixTypeOK, Record
  <1> HIDE DEF new
  <1>2. /\ revisions' \in Seq(RevisionType) /\ Len(revisions') = Len(revisions) + 1
        /\ \A i \in 1..Len(revisions) : revisions'[i] = revisions[i]
        /\ revisions'[Len(revisions) + 1] = new
    BY <1>1
  <1>3. Len(revisions) \in Nat BY <1>1
  <1>4. new.version = v BY DEF new
  <1>5. VersionsUnique'
    BY <1>2, <1>3, <1>4 DEF FixInv, VersionsUnique, Recorded
  <1>6. ASSUME NEW f \in Fixes, Owns(f) PROVE Owns(f)'
    <2>1. PICK i \in 1..Len(revisions) : revisions[i] = [version |-> wanted[f], by |-> f] BY <1>6
        DEF Owns
    <2>2. i \in 1..Len(revisions') /\ revisions'[i] = revisions[i] BY <1>2, <1>3
    <2> QED BY <2>1, <2>2 DEF Owns
  <1>7. ASSUME who \in Fixes, v = wanted[who] PROVE Owns(who)'
    <2>1. Len(revisions) + 1 \in 1..Len(revisions') BY <1>2, <1>3
    <2> QED BY <2>1, <1>2, <1>7 DEF Owns, new
  <1> QED BY <1>2, <1>5, <1>6, <1>7

(* A version that is owned is recorded.                                    *)
LEMMA OwnedRecorded ==
  ASSUME NEW f \in Fixes, Owns(f) PROVE Recorded(wanted[f])
  BY DEF Owns, Recorded

----------------------------------------------------------------------------

(* What a step of a worker leaves alone, whichever step it is.             *)
LEMMA WorkerFrame ==
  ASSUME FixInv, NEW w \in FixWorkers, WorkerStep(w) \/ WorkerStops(w)
  PROVE /\ UNCHANGED <<request, callAt, queue>>
        /\ \A v \in FixWorkers \ {w} : at'[v] = at[v] /\ doing'[v] = doing[v]
        /\ at' = [at EXCEPT ![w] = at'[w]]
        /\ doing' = [doing EXCEPT ![w] = doing'[w]]
        /\ (stopped => stopped') /\ (doubled => doubled')
        /\ doing[w] # NoFix => doing[w] \in Fixes /\ wanted[doing[w]] \in Releases
        /\ ~RecordRevision(w) => revisions' = revisions
        /\ ~Deploy(w) => shipped' = shipped
        /\ ~Upload(w) => artifact' = artifact
  <1> USE DEF FixInv, FixTypeOK, WorkerStep, WorkerStops, SelectStale, ReclaimAndProbe, Claim,
      CompileOrReuse, Upload, RecordRevision, Deploy, BuildFails, FinishJob, WorkerGoes, Rests,
      FirstStep, request, store, jobRows, workers, faults
  <1>1. UNCHANGED <<request, callAt, queue>> OBVIOUS
  <1>2. ASSUME NEW v \in FixWorkers \ {w} PROVE at'[v] = at[v] OBVIOUS
  <1>3. ASSUME NEW v \in FixWorkers \ {w} PROVE doing'[v] = doing[v] OBVIOUS
  <1>3a. at' = [at EXCEPT ![w] = at'[w]] OBVIOUS
  <1>3b. doing' = [doing EXCEPT ![w] = doing'[w]] OBVIOUS
  <1>4. (stopped => stopped') /\ (doubled => doubled') OBVIOUS
  <1>5. doing[w] # NoFix => doing[w] \in Fixes /\ wanted[doing[w]] \in Releases BY FixAssumption DEF
      Releases
  <1>6. ~RecordRevision(w) => revisions' = revisions OBVIOUS
  <1>7. ~Deploy(w) => shipped' = shipped OBVIOUS
  <1>8. ~Upload(w) => artifact' = artifact OBVIOUS
  <1> QED
    <2> HIDE DEF FixInv, FixTypeOK, WorkerStep, WorkerStops, SelectStale, ReclaimAndProbe, Claim,
        CompileOrReuse, Upload, RecordRevision, Deploy, BuildFails, FinishJob, WorkerGoes, Rests,
        FirstStep, request, store, jobRows, workers, faults
    <2> QED BY <1>1, <1>2, <1>3, <1>3a, <1>3b, <1>4, <1>5, <1>6, <1>7, <1>8

(* A worker that builds has a job.                                         *)
LEMMA BuildsAFix ==
  ASSUME FixInv, NEW w \in FixWorkers, at[w] \in BuildSteps PROVE doing[w] \in Fixes
  <1>1. doing[w] \in Fixes \cup {NoFix} BY DEF FixInv, FixTypeOK
  <1>2. doing[w] # NoFix BY DEF FixInv, JobRows, BuildSteps
  <1> QED BY <1>1, <1>2

(* Where a build goes on: only a compiled fix is built.                    *)
LEMMA AfterBuild ==
  ASSUME FixInv, NEW w \in FixWorkers, CompileOrReuse(w)
  PROVE  /\ at[w] = "build" /\ emulator /\ doing' = doing
         /\ \E step \in {"record", "upload", "upload_salted"} : at' = [at EXCEPT ![w] = step]
         /\ at'[w] \in {"record", "upload", "upload_salted"}
  <1>1. at[w] = "build" /\ doing' = doing BY DEF CompileOrReuse
  <1>2. emulator BY <1>1 DEF FixInv, JobRows
  <1>3. PICK step \in {"record", "upload", "upload_salted"} : at' = [at EXCEPT ![w] = step]
    BY DEF CompileOrReuse, WorkerGoes, UploadStep
  <1>4. at'[w] = step BY <1>3 DEF FixInv, FixTypeOK
  <1> QED BY <1>1, <1>2, <1>3, <1>4

(* A step of a worker keeps every variable in its type.                    *)
LEMMA WorkerTypes ==
  ASSUME FixInv, NEW w \in FixWorkers, WorkerStep(w) \/ WorkerStops(w)
  PROVE FixTypeOK'
  <1> USE FixAssumption DEF WorkerStep, WorkerStops, SelectStale, ReclaimAndProbe, Claim,
      CompileOrReuse, Upload, RecordRevision,
          Deploy, BuildFails, FinishJob, WorkerGoes, Rests, FirstStep, request, store, jobRows,
              workers, faults
  <1> USE DEF FixInv
  <1>0. doing[w] # NoFix => doing[w] \in Fixes /\ wanted[doing[w]] \in Releases /\ text[doing[w]] \in Sources
    BY DEF FixTypeOK, Releases
  <1>1. (emulator \in BOOLEAN /\ doubled \in BOOLEAN /\ stopped \in BOOLEAN)' BY DEF FixTypeOK
  <1>2. (wanted \in [Fixes -> FixVersions] /\ text \in [Fixes -> Sources])' BY DEF FixTypeOK
  <1>3. (callAt \in [Fixes -> CallSteps])' BY DEF FixTypeOK
  <1>4. (revisions \in Seq(RevisionType))'
    <2>1. CASE RecordRevision(w)
      <3>1. doing[w] \in Fixes
        <4> HIDE DEF FixInv, WorkerStep, WorkerStops
        <4> QED BY <2>1, BuildsAFix DEF BuildSteps
      <3> QED BY <2>1, <3>1, <1>0, RecordKeeps DEF RecordRevision, FixTypeOK, RevisionType
    <2>2. CASE ~RecordRevision(w)
      <3>1. revisions' = revisions BY <2>2
      <3> QED BY <3>1 DEF FixTypeOK, RevisionType
    <2> QED BY <2>1, <2>2
  <1>5. (artifact \in [Releases -> {Unbuilt} \cup {<<s>> : s \in Sources} \cup (Sources \X FixVersions)])'
    <2> DEFINE A == {Unbuilt} \cup {<<x>> : x \in Sources} \cup (Sources \X FixVersions)
    <2>1. artifact \in [Releases -> A] BY DEF FixTypeOK
    <2>2. CASE Upload(w)
      <3>1. doing[w] \in Fixes
        <4> HIDE DEF FixInv, WorkerStep, WorkerStops
        <4> QED BY <2>2, BuildsAFix DEF BuildSteps
      <3>2. BuildOf(doing[w]) \in A /\ SaltedBuildOf(doing[w]) \in A
        BY <3>1 DEF BuildOf, SaltedBuildOf, FixTypeOK
      <3> HIDE DEF A
      <3>4. \E b \in A : artifact' = [artifact EXCEPT ![wanted[doing[w]]] = b] \/ artifact' = artifact
        BY <2>2, <3>2 DEF Upload
      <3>5. PICK b \in A : artifact' = [artifact EXCEPT ![wanted[doing[w]]] = b] \/ artifact' = artifact
        BY <3>4
      <3>6. artifact' \in [Releases -> A]
        <4> HIDE DEF WorkerStep, WorkerStops
        <4> QED BY <2>1, <3>5
      <3> QED BY <3>6 DEF A
    <2>3. CASE ~Upload(w)
      <3>1. artifact' = artifact BY <2>3
      <3> QED BY <2>1, <3>1
    <2> QED BY <2>2, <2>3
  <1>6. (queue \in Seq(Fixes) /\ IsInjective(queue))' BY DEF FixTypeOK
  <1>7. (jobStatus \in [Fixes -> {"none", "pending", "running", "done", "error"}])'
    <2>1. CASE ReclaimAndProbe(w)
      <3>1. jobStatus \in [Fixes -> {"none", "pending", "running", "done", "error"}]
        <4> HIDE DEF WorkerStep, WorkerStops, ReclaimAndProbe
        <4> QED BY DEF FixTypeOK
      <3> HIDE DEF FixInv, WorkerStep, WorkerStops
      <3>2. jobStatus' = AfterReclaim(w) BY <2>1
      <3> HIDE DEF ReclaimAndProbe
      <3> QED BY <3>1, <3>2 DEF AfterReclaim
    <2>2. CASE Claim(w) \/ FinishJob(w)
      <3>1. jobStatus' = jobStatus \/ \E s \in {"running", "done", "error"} :
              jobStatus' = [jobStatus EXCEPT ![doing[w]] = s]
        <4> HIDE DEF FixInv, WorkerStep, WorkerStops
        <4> QED BY <2>2
      <3> HIDE DEF WorkerStep, WorkerStops, Claim, FinishJob
      <3> QED BY <3>1 DEF FixTypeOK
    <2>3. CASE ~(ReclaimAndProbe(w) \/ Claim(w) \/ FinishJob(w))
      <3>1. jobStatus' = jobStatus
        <4> HIDE DEF FixInv
        <4> QED BY <2>3
      <3> QED BY <3>1 DEF FixTypeOK
    <2> QED BY <2>1, <2>2, <2>3
  <1>8. (attempts \in [Fixes -> Nat])'
    <2>1. CASE Claim(w)
      <3>1. rowsRead[w] # {} /\ rowsRead[w] \subseteq Fixes \X Nat BY <2>1 DEF FixTypeOK, JobRows, Claim
      <3>2. (CHOOSE x \in rowsRead[w] : TRUE) \in Fixes \X Nat BY <3>1
      <3>3. (CHOOSE x \in rowsRead[w] : TRUE)[2] + 1 \in Nat BY <3>2
      <3> QED BY <2>1, <3>3 DEF Claim, FixTypeOK
    <2>2. CASE ~Claim(w) BY <2>2 DEF FixTypeOK
    <2> QED BY <2>1, <2>2
  <1>8a. (overdue \in [Fixes -> BOOLEAN])' BY DEF FixTypeOK
  <1>9. (at \in [FixWorkers -> WorkerSteps])'
    <2>1. \E step \in WorkerSteps : at' = [at EXCEPT ![w] = step]
      <3> USE DEF WorkerSteps, BuildSteps
      <3> HIDE DEF FixInv, WorkerStep, WorkerStops
      <3>1. CASE SelectStale(w) \/ ReclaimAndProbe(w) \/ Claim(w) BY <3>1
      <3>2. CASE CompileOrReuse(w)
        <4>1. \E step \in {"record", "upload", "upload_salted"} : at' = [at EXCEPT ![w] = step]
          BY <3>2, AfterBuild
        <4> QED BY <4>1
      <3>2a. CASE Upload(w) \/ RecordRevision(w) \/ Deploy(w) BY <3>2a
      <3>3. CASE BuildFails(w) \/ FinishJob(w) \/ WorkerStops(w) BY <3>3 DEF WorkerStops
      <3> QED BY <3>1, <3>2, <3>2a, <3>3 DEF WorkerStep
    <2> HIDE DEF WorkerStep, WorkerStops
    <2> QED BY <2>1 DEF FixTypeOK
  <1>10. (doing \in [FixWorkers -> Fixes \cup {NoFix}])'
    <2>1. CASE ReclaimAndProbe(w)
      <3>1. \A i \in 1..Len(queue) : queue[i] \in Fixes BY DEF FixTypeOK
      <3>2. doing' = doing \/ \E f \in Fixes : doing' = [doing EXCEPT ![w] = f]
        BY <2>1, <3>1 DEF Waiting
      <3> HIDE DEF WorkerStep, WorkerStops, ReclaimAndProbe
      <3> QED BY <3>2 DEF FixTypeOK
    <2>2. CASE ~ReclaimAndProbe(w)
      <3>1. doing' = doing \/ doing' = [doing EXCEPT ![w] = NoFix]
        <4> HIDE DEF FixInv
        <4> QED BY <2>2
      <3> HIDE DEF WorkerStep, WorkerStops, ReclaimAndProbe
      <3> QED BY <3>1 DEF FixTypeOK
    <2> QED BY <2>1, <2>2
  <1>11. (rowsRead \in [FixWorkers -> SUBSET (Fixes \X Nat)])'
    <2>1. CASE ReclaimAndProbe(w)
      <3>1. \A i \in 1..Len(queue) : {<<queue[i], attempts[queue[i]]>>} \in SUBSET (Fixes \X Nat) BY
          DEF FixTypeOK
      <3>2. \E R \in SUBSET (Fixes \X Nat) : rowsRead' = [rowsRead EXCEPT ![w] = R] BY <2>1, <3>1
          DEF Waiting
      <3> QED BY <3>2 DEF FixTypeOK
    <2>2. CASE SelectStale(w)
      <3>1. {<<f, attempts[f]>> : f \in StaleJobs} \in SUBSET (Fixes \X Nat) BY DEF FixTypeOK, StaleJobs
      <3> QED BY <2>2, <3>1 DEF FixTypeOK
    <2>3. CASE ~ReclaimAndProbe(w) /\ ~SelectStale(w)
      <3>1. rowsRead' = rowsRead \/ rowsRead' = [rowsRead EXCEPT ![w] = {}]
        <4> HIDE DEF FixInv
        <4> QED BY <2>3
      <3> HIDE DEF WorkerStep, WorkerStops
      <3> QED BY <3>1 DEF FixTypeOK
    <2> QED BY <2>1, <2>2, <2>3
  <1>12. (shipped \subseteq Fixes \X BOOLEAN)' BY DEF FixTypeOK, JobRows
  <1> QED  BY <1>1, <1>2, <1>3, <1>4, <1>5, <1>6, <1>7, <1>8, <1>8a, <1>9, <1>10, <1>11, <1>12 DEF
      FixTypeOK, RevisionType

(* Only record_fix makes a revision, for the job at hand, and it is the    *)
(* one that owns the version from then on.                                 *)
LEMMA WorkerRevisions ==
  ASSUME FixInv, NEW w \in FixWorkers, WorkerStep(w) \/ WorkerStops(w)
  PROVE /\ VersionsUnique' /\ (\A f \in Fixes : Owns(f) => Owns(f)')
        /\ RecordRevision(w) => at'[w] = "error" \/ (Owns(doing[w])' /\ ~Owns(doing[w]))
  <1>0. wanted' = wanted BY WorkerFrame DEF request
  <1>1. CASE RecordRevision(w) /\ ~Recorded(wanted[doing[w]])
    <2>1. doing[w] \in Fixes /\ wanted[doing[w]] \in Releases
      BY <1>1, WorkerFrame DEF RecordRevision, FixInv, JobRows
    <2>0. doing' = doing BY <1>1 DEF RecordRevision
    <2>2. Record(wanted[doing[w]], doing[w]) BY <1>1 DEF RecordRevision
    <2>3. ~Owns(doing[w]) BY <1>1, <2>1, OwnedRecorded
    <2> QED BY <1>0, <1>1, <2>0, <2>1, <2>2, <2>3, RecordKeeps DEF Owns
  <1>2. CASE RecordRevision(w) /\ Recorded(wanted[doing[w]])
    <2>1. revisions' = revisions /\ at'[w] = "error" /\ doing' = doing BY <1>2 DEF RecordRevision,
        WorkerGoes, FixInv, FixTypeOK
    <2>2. VersionsUnique' BY <2>1 DEF FixInv, VersionsUnique
    <2>3. \A f \in Fixes : Owns(f) => Owns(f)' BY <2>1, <1>0 DEF Owns
    <2> QED BY <2>1, <2>2, <2>3
  <1>3. CASE ~RecordRevision(w)
    <2>1. revisions' = revisions BY <1>3, WorkerFrame
    <2> QED BY <1>0, <1>3, <2>1 DEF FixInv, VersionsUnique, Owns
  <1> QED BY <1>1, <1>2, <1>3

(* The right to ship comes with the revision, which one worker makes, and  *)
(* goes with the deployment: no fix is shipped twice.                      *)
LEMMA WorkerShips ==
  ASSUME FixInv, NEW w \in FixWorkers, WorkerStep(w) \/ WorkerStops(w)
  PROVE OneShipper'
  <1>0. /\ \A f \in Fixes : Owns(f) => Owns(f)'
        /\ RecordRevision(w) => at'[w] = "error" \/ (Owns(doing[w])' /\ ~Owns(doing[w]))
    BY WorkerRevisions
  <1>1. /\ \A v \in FixWorkers \ {w} : at'[v] = at[v] /\ doing'[v] = doing[v]
        /\ emulator' = emulator /\ shipped \subseteq Fixes \X BOOLEAN
    BY WorkerFrame DEF FixInv, FixTypeOK, request
  <1>w. \A v \in FixWorkers : MayShip(v) => doing[v] \in Fixes BY DEF FixInv, JobRows, FixTypeOK, MayShip
  <1>v. \A v \in FixWorkers \ {w} : MayShip(v)' <=> MayShip(v) BY <1>1 DEF MayShip
  <1> USE DEF FixInv
  <1>2. CASE Deploy(w)
    <2>1. /\ MayShip(w) /\ ~MayShip(w)' /\ doing[w] \in Fixes
          /\ \E b \in BOOLEAN : shipped' = shipped \cup {<<doing[w], b>>}
      BY <1>2, <1>1, <1>w DEF Deploy, MayShip, WorkerGoes, FixTypeOK
    <2>2. PICK b \in BOOLEAN : shipped' = shipped \cup {<<doing[w], b>>} BY <2>1
    <2>3. \A f \in Fixes : Shipped(f)' <=> Shipped(f) \/ f = doing[w] BY <2>2, <2>1 DEF Shipped
    <2>4. Owns(doing[w]) /\ ~Shipped(doing[w]) BY <2>1 DEF OneShipper
    <2>5. \A f \in Fixes : Shipped(f)' => Owns(f)' BY <1>0, <2>3, <2>4 DEF OneShipper
    <2>6. ASSUME NEW v \in FixWorkers, MayShip(v)' PROVE Owns(doing[v])' /\ ~Shipped(doing[v])'
      <3>1. v # w /\ MayShip(v) /\ doing[v] \in Fixes /\ doing'[v] = doing[v] BY <2>6, <2>1, <1>1, <1>v, <1>w
      <3>2. doing[v] # doing[w] BY <3>1, <2>1 DEF OneShipper
      <3>3. Owns(doing[v]) /\ ~Shipped(doing[v]) BY <3>1 DEF OneShipper
      <3>4. Owns(doing[v])' BY <3>1, <3>3, <1>0 DEF Owns
      <3>5. ~Shipped(doing[v])' BY <2>3, <3>1, <3>2, <3>3 DEF Shipped
      <3> QED BY <3>4, <3>5
    <2>7. \A u, v \in FixWorkers : MayShip(u)' /\ MayShip(v)' /\ doing'[u] = doing'[v] => u = v
      BY <2>1, <1>1, <1>v DEF OneShipper
    <2>8. \A x, y \in shipped' : x[1] = y[1] => x = y
      <3>1. \A x \in shipped : x[1] # doing[w] BY <2>4, <1>1 DEF Shipped
      <3>2. <<doing[w], b>>[1] = doing[w] OBVIOUS
      <3> QED BY <2>2, <3>1, <3>2 DEF OneShipper
    <2> QED BY <2>5, <2>6, <2>7, <2>8 DEF OneShipper
  <1>3. CASE ~Deploy(w)
    <2>0. shipped' = shipped /\ \A f : Shipped(f)' <=> Shipped(f) BY <1>3, WorkerFrame DEF Shipped
    <2>1. \A f \in Fixes : Shipped(f)' => Owns(f)' BY <1>0, <2>0 DEF OneShipper
    <2>2. MayShip(w)' => \/ MayShip(w) /\ doing'[w] = doing[w]
                         \/ RecordRevision(w) /\ at'[w] # "error" /\ doing'[w] = doing[w] /\ doing[w] \in Fixes
      <3>1. CASE RecordRevision(w) BY <3>1 DEF RecordRevision, WorkerGoes, MayShip, JobRows, FixTypeOK
      <3>2. CASE Upload(w) BY <3>2, <1>1 DEF Upload, WorkerGoes, MayShip, FixTypeOK, JobRows
      <3>3. CASE CompileOrReuse(w)
        <4> HIDE DEF FixInv
        <4>1. emulator' /\ at'[w] # "deploy" BY <3>3, <1>1, AfterBuild
        <4> QED BY <4>1 DEF MayShip
      <3>4. CASE ~RecordRevision(w) /\ ~Upload(w) /\ ~CompileOrReuse(w) /\ MayShip(w)'
        <4>1. MayShip(w) /\ doing'[w] = doing[w] BY <3>4, <1>3 DEF MayShip, BuildSteps, FixTypeOK,
            JobRows, WorkerStep, WorkerStops, SelectStale, ReclaimAndProbe, Claim,
            Upload, RecordRevision, Deploy, BuildFails, FinishJob, WorkerGoes, Rests, FirstStep,
            request, store, jobRows, workers, faults
        <4> QED BY <4>1
      <3> QED BY <3>1, <3>2, <3>3, <3>4
    <2>3. ASSUME MayShip(w)' PROVE Owns(doing[w])' /\ ~Shipped(doing[w])'
      <3>1. CASE MayShip(w) /\ doing'[w] = doing[w]
        <4>1. Owns(doing[w]) /\ ~Shipped(doing[w]) /\ doing[w] \in Fixes BY <3>1, <1>w DEF OneShipper
        <4>2. Owns(doing[w])' BY <3>1, <4>1, <1>0 DEF Owns
        <4>3. ~Shipped(doing[w])' BY <3>1, <4>1, <2>0 DEF Shipped
        <4> QED BY <4>2, <4>3
      <3>2. CASE RecordRevision(w) /\ at'[w] # "error" /\ doing'[w] = doing[w] /\ doing[w] \in Fixes
        <4>1. Owns(doing[w])' /\ ~Owns(doing[w]) BY <3>2, <1>0
        <4>2. ~Shipped(doing[w]) BY <4>1, <3>2 DEF OneShipper
        <4> QED BY <4>1, <4>2, <2>0, <3>2 DEF Shipped
      <3> QED BY <2>2, <2>3, <3>1, <3>2
    <2>4. ASSUME NEW v \in FixWorkers \ {w}, MayShip(v)' PROVE Owns(doing[v])' /\ ~Shipped(doing[v])'
        <4>1. Owns(doing[v]) /\ ~Shipped(doing[v]) /\ doing[v] \in Fixes /\ doing'[v] = doing[v]
          BY <2>4, <1>w, <1>v, <1>1 DEF OneShipper
        <4>2. Owns(doing[v])' BY <4>1, <1>0 DEF Owns
        <4>3. ~Shipped(doing[v])' BY <4>1, <2>0 DEF Shipped
        <4> QED BY <4>2, <4>3
    <2>5. ASSUME NEW v \in FixWorkers \ {w}, MayShip(v)', MayShip(w)', doing'[v] = doing'[w] PROVE FALSE
      <3>0. MayShip(v) /\ doing'[v] = doing[v] /\ Owns(doing[v]) BY <2>5, <1>v, <1>1 DEF OneShipper
      <3>1. CASE MayShip(w) /\ doing'[w] = doing[w] BY <2>5, <3>0, <3>1 DEF OneShipper
      <3>2. CASE RecordRevision(w) /\ at'[w] # "error" /\ doing'[w] = doing[w]
        BY <2>5, <3>0, <3>2, <1>0
      <3> QED BY <2>2, <2>5, <3>1, <3>2
    <2>6. \A u, v \in FixWorkers : MayShip(u)' /\ MayShip(v)' /\ doing'[u] = doing'[v] => u = v
      BY <2>5, <1>1, <1>v DEF OneShipper
    <2> QED BY <2>0, <2>1, <2>3, <2>4, <2>6 DEF OneShipper
  <1> QED BY <1>2, <1>3

(* An upload leaves an artifact of the uploading fix under its version, or *)
(* none.                                                                   *)
LEMMA UploadOfSource ==
  ASSUME FixInv, NEW w \in FixWorkers, Upload(w)
  PROVE \/ at'[w] = "error" /\ artifact' = artifact
        \/ /\ artifact'[wanted[doing[w]]] # Unbuilt
           /\ artifact'[wanted[doing[w]]][1] = text[doing[w]]
           /\ \A v \in Releases \ {wanted[doing[w]]} : artifact'[v] = artifact[v]
  <1> USE DEF FixInv, FixTypeOK, Upload, WorkerGoes
  <1>0. doing[w] \in Fixes /\ wanted[doing[w]] \in Releases
    <2>1. doing[w] \in Fixes
      <3> HIDE DEF FixInv
      <3> QED BY BuildsAFix DEF BuildSteps
    <2> HIDE DEF Upload
    <2> QED BY <2>1 DEF Releases
  <1> DEFINE b == IF at[w] = "upload" THEN BuildOf(doing[w]) ELSE SaltedBuildOf(doing[w])
  <1>1. b # Unbuilt /\ b[1] = text[doing[w]] BY DEF BuildOf, SaltedBuildOf, Unbuilt
  <1>2. CASE BuiltAs(b) \subseteq {wanted[doing[w]]}
    <2>1. artifact' = [artifact EXCEPT ![wanted[doing[w]]] = b] BY <1>2
    <2> HIDE DEF b
    <2> QED BY <2>1, <1>1, <1>0
  <1>3. CASE ~(BuiltAs(b) \subseteq {wanted[doing[w]]}) BY <1>3
  <1> QED BY <1>2, <1>3

(* What is shipped, or about to be, is still of its own source.            *)
LEMMA WorkerBuilds ==
  ASSUME FixInv, NEW w \in FixWorkers, WorkerStep(w) \/ WorkerStops(w)
  PROVE BuiltRight'
  <1>1. /\ UNCHANGED <<emulator, wanted, text>> /\ shipped \subseteq Fixes \X BOOLEAN
        /\ \A v \in FixWorkers \ {w} : at'[v] = at[v] /\ doing'[v] = doing[v]
        /\ ~Deploy(w) => shipped' = shipped
        /\ ~Upload(w) => artifact' = artifact
    BY WorkerFrame DEF FixInv, FixTypeOK, request
  <1>2. \A v \in FixWorkers : HasBuilt(v) => doing[v] \in Fixes
    BY DEF FixInv, JobRows, FixTypeOK, HasBuilt
  <1>3. ASSUME NEW f \in Fixes, OfItsSource(f), Shipped(f) \/ \E v \in FixWorkers : HasBuilt(v) /\ doing[v] = f
        PROVE OfItsSource(f)'
    <2>1. CASE ~Upload(w) BY <2>1, <1>1, <1>3 DEF OfItsSource
    <2>2. CASE Upload(w)
      <3>1. doing[w] \in Fixes /\ wanted[f] \in Releases BY <2>2 DEF Upload, FixInv, JobRows,
          FixTypeOK, Releases
      <3>2. CASE wanted[doing[w]] # wanted[f] BY <1>1, <1>3, <2>2, <3>1, <3>2, UploadOfSource DEF
          OfItsSource
      <3>3. CASE wanted[doing[w]] = wanted[f] /\ doing[w] = f BY <1>1, <1>3, <2>2, <3>3,
          UploadOfSource DEF OfItsSource
      <3>4. CASE wanted[doing[w]] = wanted[f] /\ doing[w] # f /\ emulator BY <1>1, <3>1, <3>4 DEF
          OfItsSource
      <3>5. CASE wanted[doing[w]] = wanted[f] /\ doing[w] # f /\ ~emulator
        <4>1. Owns(f) BY <1>3, <3>5 DEF FixInv, OneShipper, HasBuilt, MayShip
        <4>2. Owns(doing[w]) BY <2>2, <3>5 DEF FixInv, OneShipper, JobRows, Upload, MayShip
        <4> QED BY <3>1, <3>5, <4>1, <4>2, OwnersUnique
      <3> QED BY <3>2, <3>3, <3>4, <3>5
    <2> QED BY <2>1, <2>2
  <1>4. ASSUME NEW f \in Fixes, Shipped(f)' PROVE OfItsSource(f)'
    <2>1. CASE Shipped(f) BY <1>3, <2>1 DEF FixInv, BuiltRight
    <2>2. CASE ~Shipped(f)
      <3>1. Deploy(w) BY <1>1, <1>4, <2>2 DEF Shipped
      <3>2. f = doing[w] BY <1>4, <2>2, <3>1 DEF Deploy, Shipped
      <3>3. HasBuilt(w) BY <3>1 DEF Deploy, HasBuilt
      <3>4. OfItsSource(f) BY <3>2, <3>3 DEF FixInv, BuiltRight
      <3> QED BY <1>3, <3>2, <3>3, <3>4
    <2> QED BY <2>1, <2>2
  <1>5. ASSUME NEW v \in FixWorkers \ {w}, HasBuilt(v)' PROVE OfItsSource(doing[v])'
    <2>1. HasBuilt(v) /\ doing'[v] = doing[v] BY <1>1, <1>5 DEF HasBuilt
    <2>2. doing[v] \in Fixes /\ OfItsSource(doing[v]) BY <1>2, <2>1 DEF FixInv, BuiltRight
    <2>3. OfItsSource(doing[v])' <=>
            \/ artifact'[wanted[doing[v]]] # Unbuilt /\ artifact'[wanted[doing[v]]][1] = text[doing[v]]
            \/ (emulator /\ \E g \in Fixes \ {doing[v]} : wanted[g] = wanted[doing[v]])
       BY <1>1, <2>1 DEF OfItsSource
    <2> QED BY <1>3, <1>1, <2>1, <2>2, <2>3 DEF OfItsSource
  <1>6. ASSUME HasBuilt(w)' PROVE OfItsSource(doing[w])'
    <2>0. \/ Upload(w) /\ at'[w] # "error"
          \/ CompileOrReuse(w) /\ emulator /\ HasBuild(wanted[doing[w]], IdentityOf(doing[w]))
          \/ RecordRevision(w) /\ emulator
      <3>1. CASE CompileOrReuse(w)
        <4>1. emulator /\ at'[w] = "record" BY <1>1, <1>6, <3>1, AfterBuild DEF HasBuilt
        <4>2. HasBuild(wanted[doing[w]], IdentityOf(doing[w]))
          BY <3>1, <4>1 DEF CompileOrReuse, WorkerGoes, UploadStep, FixInv, FixTypeOK
        <4> QED BY <3>1, <4>1, <4>2
      <3>2. CASE RecordRevision(w) BY <1>6, <3>2 DEF RecordRevision, HasBuilt, WorkerGoes, FixInv,
          FixTypeOK, request
      <3>3. CASE Upload(w) BY <1>6, <3>3 DEF Upload, HasBuilt, WorkerGoes, FixInv, FixTypeOK, request
      <3>4. CASE ~CompileOrReuse(w) /\ ~RecordRevision(w) /\ ~Upload(w)
        BY <1>6, <3>4 DEF HasBuilt, BuildSteps, FixInv, FixTypeOK, WorkerStep, WorkerStops,
            SelectStale, ReclaimAndProbe, Claim, CompileOrReuse, Upload, RecordRevision, Deploy,
            BuildFails, FinishJob, WorkerGoes, Rests, FirstStep, request, store, jobRows, workers,
            faults
      <3> QED BY <3>1, <3>2, <3>3, <3>4
    <2>1. doing'[w] = doing[w] /\ doing[w] \in Fixes BY <2>0 DEF Upload, CompileOrReuse,
        RecordRevision, FixInv, FixTypeOK, JobRows
    <2>2. CASE Upload(w) /\ at'[w] # "error" BY <1>1, <2>1, <2>2, UploadOfSource DEF OfItsSource
    <2>3. CASE CompileOrReuse(w) /\ emulator /\ HasBuild(wanted[doing[w]], IdentityOf(doing[w]))
      <3>1. artifact[wanted[doing[w]]] # Unbuilt /\ artifact[wanted[doing[w]]][1] = text[doing[w]]
        BY <2>3 DEF HasBuild, IdentityOf, BuildOf, SaltedBuildOf, Unbuilt
      <3>2. artifact' = artifact BY <2>3 DEF CompileOrReuse, store
      <3> QED BY <1>1, <2>1, <3>1, <3>2 DEF OfItsSource
    <2>4. CASE RecordRevision(w) /\ emulator
      <3>1. OfItsSource(doing[w]) BY <2>4 DEF RecordRevision, HasBuilt, FixInv, BuiltRight
      <3>2. artifact' = artifact BY <2>4 DEF RecordRevision
      <3> QED BY <1>1, <2>1, <3>1, <3>2 DEF OfItsSource
    <2> QED BY <2>0, <2>2, <2>3, <2>4
  <1> QED BY <1>4, <1>5, <1>6 DEF BuiltRight

----------------------------------------------------------------------------

(* A reclaim changes only rows that run.                                   *)
LEMMA Reclaims ==
  ASSUME FixTypeOK, NEW w \in FixWorkers, NEW f \in Fixes
  PROVE  /\ AfterReclaim(w)[f] = jobStatus[f]
            \/ (/\ jobStatus[f] = "running" /\ AfterReclaim(w)[f] \in {"error", "pending"}
                /\ \E x \in Reclaimed(w) : x[1] = f)
  BY DEF AfterReclaim, Reclaimed

(* A worker past its probe has a job.                                      *)
LEMMA WhatIsDone ==
  ASSUME FixInv, NEW v \in FixWorkers, at[v] \notin {"off", "idle", "reclaim"}
  PROVE doing[v] \in Fixes
  BY DEF FixInv, JobRows, FixTypeOK

(* The three ways a worker changes the status of a job.                    *)
LEMMA RowChanges ==
  ASSUME FixInv, NEW w \in FixWorkers, WorkerStep(w) \/ WorkerStops(w), NEW f \in Fixes
  PROVE  /\ jobStatus'[f] = jobStatus[f]
            \/ (/\ ReclaimAndProbe(w) /\ jobStatus[f] = "running" /\ jobStatus'[f] \in {"error", "pending"}
                /\ Busy(f) => doubled')
            \/ (/\ Claim(w) /\ f = doing[w] /\ jobStatus[f] = "pending" /\ jobStatus'[f] = "running" /\ doing' = doing
                /\ Handles(w)')
            \/ (/\ FinishJob(w) /\ f = doing[w] /\ at[w] \in {"done", "error"} /\ jobStatus'[f] = at[w]
                /\ jobStatus[f] # "none" /\ ~Handles(w)')
  <1> USE DEF FixInv, FixTypeOK
  <1>1. CASE ReclaimAndProbe(w)
    <2>1. jobStatus'[f] = AfterReclaim(w)[f] BY <1>1 DEF ReclaimAndProbe
    <2>2. (\E x \in Reclaimed(w) : x[1] = f) /\ Busy(f) => doubled'
      BY <1>1 DEF ReclaimAndProbe
    <2> QED BY <1>1, <2>1, <2>2, Reclaims
  <1>2. CASE Claim(w)  BY <1>2 DEF Claim, JobRows, WorkerGoes, FirstStep, Handles, BuildSteps
  <1>3. CASE FinishJob(w) BY <1>3 DEF FinishJob, Rests, WorkerGoes, JobRows, Handles, BuildSteps
  <1>4. CASE ~ReclaimAndProbe(w) /\ ~Claim(w) /\ ~FinishJob(w) BY <1>4 DEF WorkerStep, WorkerStops,
      SelectStale, ReclaimAndProbe, Claim, CompileOrReuse, Upload, RecordRevision, Deploy, BuildFails,
      FinishJob, WorkerGoes, Rests, FirstStep, request, store, jobRows, workers, faults
  <1> QED BY <1>1, <1>2, <1>3, <1>4

(* A step of a worker keeps the rows and the workers that are at them.     *)
LEMMA WorkerRows ==
  ASSUME FixInv, NEW w \in FixWorkers, WorkerStep(w) \/ WorkerStops(w)
  PROVE JobRows'
  <1>1. /\ UNCHANGED <<emulator, callAt, queue>> /\ FixTypeOK /\ JobRows
        /\ \A v \in FixWorkers \ {w} : at'[v] = at[v] /\ doing'[v] = doing[v]
        /\ at' = [at EXCEPT ![w] = at'[w]]
        /\ doing' = [doing EXCEPT ![w] = doing'[w]]
        /\ doubled => doubled'
    BY WorkerFrame DEF FixInv, request
  <1>2. \A i \in 1..Len(queue) : queue[i] \in Fixes BY <1>1 DEF FixTypeOK
  <1>3. \A f \in Fixes : jobStatus'[f] = "none" <=> jobStatus[f] = "none" BY RowChanges
  <1>4. \A f \in Fixes : jobStatus'[f] = "none" <=> callAt'[f] \notin {"queued", "told_done", "told_error"}
    BY <1>1, <1>3 DEF JobRows
  <1>5. \A i \in 1..Len(queue') : jobStatus'[queue'[i]] # "none" BY <1>1, <1>2, <1>3 DEF JobRows
  <1>6a. doing'[w] = NoFix <=> at'[w] \in {"off", "idle", "reclaim"}
     <2>1. CASE ReclaimAndProbe(w)
       <3>1. \A i \in 1..Len(queue) : queue[i] # NoFix BY <1>2, FixAssumption
       <3>2. doing[w] = NoFix BY <2>1, <1>1 DEF ReclaimAndProbe, JobRows
       <3> QED BY <2>1, <1>1, <3>1, <3>2 DEF ReclaimAndProbe, WorkerGoes, FixTypeOK, Waiting
     <2>2. CASE Claim(w) \/ FinishJob(w) \/ WorkerStops(w)
       <3>1. CASE Rests(w) BY <3>1, <1>1 DEF Rests, WorkerGoes, FixTypeOK
       <3>2. CASE Claim(w) /\ ~Rests(w)
         <4>1. doing'[w] = doing[w] /\ doing[w] # NoFix BY <3>2, <1>1 DEF Claim, JobRows
         <4>2. at'[w] \in {"build", "record"} BY <3>2, <1>1 DEF Claim, WorkerGoes, FirstStep, FixTypeOK
         <4> QED BY <4>1, <4>2
       <3> QED BY <2>2, <3>1, <3>2 DEF FinishJob, WorkerStops
     <2>3. CASE ~(ReclaimAndProbe(w) \/ Claim(w) \/ FinishJob(w) \/ WorkerStops(w))
       <3>1. doing' = doing BY <2>3 DEF WorkerStep, WorkerStops, SelectStale, ReclaimAndProbe,
           Claim, CompileOrReuse, Upload, RecordRevision, Deploy, BuildFails, FinishJob, WorkerGoes,
           Rests, FirstStep, request, store, jobRows, workers, faults
       <3>2. (at[w] \in {"off", "idle", "reclaim"} <=> at'[w] \in {"off", "idle", "reclaim"})
         <4>1. at \in [FixWorkers -> WorkerSteps] BY <1>1 DEF FixTypeOK
         <4>2. CASE SelectStale(w) BY <4>1, <4>2 DEF SelectStale, WorkerGoes
         <4>3. CASE CompileOrReuse(w) BY <4>3, AfterBuild
         <4>3a. CASE BuildFails(w) BY <4>1, <4>3a DEF BuildFails, WorkerGoes, BuildSteps
         <4>4. CASE Upload(w) \/ RecordRevision(w) \/ Deploy(w)
           BY <4>1, <4>4 DEF Upload, RecordRevision, Deploy, WorkerGoes
         <4> QED BY <2>3, <4>2, <4>3, <4>3a, <4>4 DEF WorkerStep
       <3> QED BY <3>1, <3>2, <1>1 DEF JobRows
     <2> QED BY <2>1, <2>2, <2>3
  <1>6. /\ at'[w] \in {"build", "upload_salted"} => emulator'
        /\ at'[w] = "claim" => rowsRead'[w] # {}
     <2>1. CASE ReclaimAndProbe(w)
       <3>1. at'[w] = "idle" \/ (at'[w] = "claim" /\ \E x : rowsRead' = [rowsRead EXCEPT ![w] = {x}])
         BY <2>1, <1>1 DEF ReclaimAndProbe, WorkerGoes, FixTypeOK
       <3> QED BY <1>1, <3>1 DEF FixTypeOK
     <2>2. CASE CompileOrReuse(w)
       <3>1. at[w] = "build" /\ at'[w] # "claim" BY <2>2, <1>1, AfterBuild DEF FixTypeOK
       <3> QED BY <3>1, <1>1 DEF JobRows
     <2>3. CASE ~ReclaimAndProbe(w) /\ ~CompileOrReuse(w) BY <2>3, <1>1 DEF FixTypeOK, BuildSteps,
         WorkerStep, WorkerStops, SelectStale, ReclaimAndProbe, Claim, CompileOrReuse, Upload,
         RecordRevision, Deploy, BuildFails, FinishJob, WorkerGoes, Rests, FirstStep, request, store,
         jobRows, workers, faults
     <2> QED BY <2>1, <2>2, <2>3
  <1>7. doing'[w] # NoFix => jobStatus'[doing'[w]] # "none"
     <2>1. CASE ReclaimAndProbe(w)
       <3>1. doing'[w] = doing[w] \/ \E i \in 1..Len(queue) : doing'[w] = queue[i]
         BY <2>1, <1>1 DEF ReclaimAndProbe, Waiting, FixTypeOK
       <3> QED BY <1>1, <1>2, <1>3, <3>1 DEF JobRows, FixTypeOK
     <2>2. CASE ~ReclaimAndProbe(w)
       <3>1. doing'[w] \in {doing[w], NoFix} BY <2>2, <1>1 DEF FixTypeOK, WorkerStep, WorkerStops,
           SelectStale, ReclaimAndProbe, Claim, CompileOrReuse, Upload, RecordRevision, Deploy,
           BuildFails, FinishJob, WorkerGoes, Rests, FirstStep, request, store, jobRows, workers, faults
       <3> QED BY <1>1, <1>3, <3>1 DEF JobRows, FixTypeOK
     <2> QED BY <2>1, <2>2
  <1>8. ASSUME NEW v \in FixWorkers \ {w}
        PROVE  /\ doing'[v] = NoFix <=> at'[v] \in {"off", "idle", "reclaim"}
               /\ doing'[v] # NoFix => jobStatus'[doing'[v]] # "none"
               /\ at'[v] = "claim" => rowsRead'[v] # {}
               /\ at'[v] \in {"build", "upload_salted"} => emulator'
     <2>1. rowsRead'[v] = rowsRead[v] BY DEF FixInv, FixTypeOK, WorkerStep, WorkerStops,
         SelectStale, ReclaimAndProbe, Claim, CompileOrReuse, Upload, RecordRevision, Deploy,
         BuildFails, FinishJob, WorkerGoes, Rests, FirstStep, request, store, jobRows, workers, faults
     <2> QED BY <1>1, <1>3, <2>1 DEF JobRows, FixTypeOK
  <1>9. ASSUME NEW v \in FixWorkers, Handles(v)' PROVE jobStatus'[doing'[v]] = "running" \/ doubled'
     <2>1. CASE v # w
       <3>1. Handles(v) /\ doing'[v] = doing[v] /\ doing[v] \in Fixes BY <1>1, <1>9, <2>1,
           WhatIsDone DEF Handles, BuildSteps
       <3>2. jobStatus[doing[v]] = "running" \/ doubled BY <3>1, <1>1 DEF JobRows
       <3>3. Busy(doing[v]) BY <3>1 DEF Busy, Handles, BuildSteps
       <3>4. FinishJob(w) /\ doing[v] = doing[w] => doubled
         BY <2>1, <3>1, <1>1 DEF JobRows, FinishJob, Handles
       <3> QED BY <1>1, <3>1, <3>2, <3>3, <3>4, RowChanges
     <2>2. CASE v = w
       <3>1. CASE Handles(w) /\ doing'[w] = doing[w]
         <4>1. doing[w] \in Fixes BY <3>1, WhatIsDone DEF Handles, BuildSteps
         <4>2. jobStatus[doing[w]] = "running" \/ doubled BY <3>1, <1>1 DEF JobRows
         <4>3. Busy(doing[w]) BY <3>1 DEF Busy, Handles, BuildSteps
         <4> QED BY <1>1, <1>9, <2>2, <3>1, <4>1, <4>2, <4>3, RowChanges
       <3>2. CASE Claim(w) BY <1>9, <2>2, <3>2, <1>1 DEF Claim, Rests, WorkerGoes, Handles,
           BuildSteps, JobRows, FixTypeOK
       <3>3. CASE ~Claim(w) /\ ~(Handles(w) /\ doing'[w] = doing[w])
         BY <1>9, <2>2, <3>3, <1>1 DEF Handles, BuildSteps, FixTypeOK, WorkerStep, WorkerStops,
             SelectStale, ReclaimAndProbe, Claim, CompileOrReuse, Upload, RecordRevision, Deploy,
             BuildFails, FinishJob, WorkerGoes, Rests, FirstStep, request, store, jobRows, workers,
             faults
       <3> QED BY <3>1, <3>2, <3>3
     <2> QED BY <2>1, <2>2
  <1>10. ASSUME NEW v \in FixWorkers \ {w}, Handles(v)', Handles(w)', doing'[v] = doing'[w] PROVE doubled'
     <2>1. Handles(v) /\ doing'[v] = doing[v] /\ doing[v] \in Fixes BY <1>1, <1>10, WhatIsDone DEF
         Handles, BuildSteps
     <2>2. CASE Handles(w) /\ doing'[w] = doing[w] BY <1>1, <1>10, <2>1, <2>2 DEF JobRows
     <2>3. CASE Claim(w)
       <3>1. jobStatus[doing[w]] = "pending" /\ doing' = doing
         BY <2>3, <1>1, <1>10 DEF Claim, Rests, WorkerGoes, Handles, BuildSteps, FixTypeOK
       <3> QED BY <1>1, <1>10, <2>1, <3>1 DEF JobRows
     <2>4. CASE ~Claim(w) /\ ~(Handles(w) /\ doing'[w] = doing[w])
         BY <1>10, <2>4, <1>1 DEF Handles, BuildSteps, FixTypeOK, WorkerStep, WorkerStops,
             SelectStale, ReclaimAndProbe, Claim, CompileOrReuse, Upload, RecordRevision, Deploy,
             BuildFails, FinishJob, WorkerGoes, Rests, FirstStep, request, store, jobRows, workers,
             faults
     <2> QED BY <2>2, <2>3, <2>4
  <1>11. \A u, v \in FixWorkers : Handles(u)' /\ Handles(v)' /\ doing'[u] = doing'[v] => u = v \/ doubled'
    <2>1. ASSUME NEW u \in FixWorkers \ {w}, NEW v \in FixWorkers \ {w},
                 Handles(u)', Handles(v)', doing'[u] = doing'[v], u # v
          PROVE doubled'
      BY <1>1, <2>1 DEF Handles, JobRows
    <2> QED BY <1>10, <2>1
  <1> QED BY <1>4, <1>5, <1>6, <1>6a, <1>7, <1>8, <1>9, <1>11 DEF JobRows

(* A step of a worker keeps what the rows say of what was shipped.         *)
LEMMA WorkerEnds ==
  ASSUME FixInv, NEW w \in FixWorkers, WorkerStep(w) \/ WorkerStops(w)
  PROVE JobEnds'
  <1>1. /\ UNCHANGED <<emulator, callAt, queue>> /\ FixTypeOK /\ JobRows /\ JobEnds
        /\ \A v \in FixWorkers \ {w} : at'[v] = at[v] /\ doing'[v] = doing[v]
        /\ (doubled => doubled') /\ (stopped => stopped')
        /\ ~Deploy(w) => shipped' = shipped
    BY WorkerFrame DEF FixInv, request
  <1>2. \A f \in Fixes : Shipped(f) => Shipped(f)'
    <2>1. shipped \subseteq shipped' BY <1>1 DEF Deploy
    <2> QED BY <2>1 DEF Shipped
  <1>3. ASSUME NEW v \in FixWorkers, at'[v] = "done" PROVE Shipped(doing[v])'
    <2>1. CASE v # w
      <3>1. doing'[v] = doing[v] /\ doing[v] \in Fixes /\ Shipped(doing[v])
        BY <1>1, <1>3, <2>1, WhatIsDone DEF JobEnds
      <3> QED BY <3>1, <1>2 DEF Shipped
    <2>2. CASE v = w
      <3>0. ~CompileOrReuse(w) BY <1>3, <2>2, AfterBuild
      <3>1. Deploy(w) BY <1>3, <2>2, <3>0, <1>1 DEF FixTypeOK, BuildSteps, WorkerStep, WorkerStops,
          SelectStale, ReclaimAndProbe, Claim, Upload, RecordRevision, Deploy,
          BuildFails, FinishJob, WorkerGoes, Rests, FirstStep, request, store, jobRows, workers, faults
      <3>2. doing'[w] = doing[w] BY <3>1 DEF Deploy
      <3>3. \E b \in BOOLEAN : <<doing[w], b>> \in shipped' BY <3>1 DEF Deploy
      <3> QED BY <2>2, <3>2, <3>3 DEF Shipped
    <2> QED BY <2>1, <2>2
  <1>4. ASSUME NEW f \in Fixes, jobStatus'[f] = "done" PROVE Shipped(f)'
    <2>1. CASE jobStatus[f] = "done" BY <1>1, <1>2, <2>1 DEF JobEnds
    <2>2. CASE jobStatus[f] # "done"
      <3>1. f = doing[w] /\ at[w] = "done" BY <1>4, <2>2, RowChanges
      <3> QED BY <1>1, <1>2, <3>1 DEF JobEnds
    <2> QED BY <2>1, <2>2
  <1>5. ASSUME NEW f \in Fixes, jobStatus[f] = "done", ~doubled' PROVE jobStatus'[f] = "done"
    <2>1. CASE FinishJob(w) /\ f = doing[w]
      <3>1. Handles(w) BY <2>1 DEF FinishJob, Handles
      <3> QED BY <1>1, <1>5, <2>1, <3>1 DEF JobRows
    <2> QED BY <1>5, <2>1, RowChanges
  <1>6. ASSUME NEW f \in Fixes, jobStatus[f] = "error", ~doubled' PROVE jobStatus'[f] = "error"
    <2>1. CASE FinishJob(w) /\ f = doing[w]
      <3>1. Handles(w) BY <2>1 DEF FinishJob, Handles
      <3> QED BY <1>1, <1>6, <2>1, <3>1 DEF JobRows
    <2> QED BY <1>6, <2>1, RowChanges
  <1>7. ASSUME NEW f \in Fixes, Shipped(f)', ~stopped', ~doubled'
        PROVE jobStatus'[f] = "done" \/ \E v \in FixWorkers : doing'[v] = f /\ at'[v] = "done"
    <2>1. CASE ~Shipped(f)
      <3>1. Deploy(w) BY <1>1, <1>7, <2>1 DEF Shipped
      <3>2. f = doing[w] BY <1>7, <2>1, <3>1 DEF Deploy, Shipped
      <3>3. doing'[w] = f /\ at'[w] = "done" BY <3>1, <3>2, <1>1 DEF Deploy, WorkerGoes, FixTypeOK
      <3> QED BY <3>3
    <2>2. CASE jobStatus[f] = "done" BY <1>5, <1>7, <2>2
    <2>3. ASSUME NEW v \in FixWorkers, doing[v] = f, at[v] = "done"
          PROVE jobStatus'[f] = "done" \/ \E u \in FixWorkers : doing'[u] = f /\ at'[u] = "done"
      <3>1. CASE v # w BY <1>1, <2>3, <3>1
      <3>2. CASE v = w
        <4>1. FinishJob(w) \/ WorkerStops(w) BY <2>3, <3>2 DEF BuildSteps, WorkerStep, WorkerStops,
            SelectStale, ReclaimAndProbe, Claim, CompileOrReuse, Upload, RecordRevision, Deploy,
            BuildFails, FinishJob, WorkerGoes, Rests, FirstStep, request, store, jobRows, workers,
            faults
        <4>2. CASE FinishJob(w) BY <2>3, <3>2, <4>2, <1>1 DEF FinishJob, FixTypeOK
        <4>3. CASE WorkerStops(w) BY <1>7, <4>3 DEF WorkerStops
        <4> QED BY <4>1, <4>2, <4>3
      <3> QED BY <3>1, <3>2
    <2> QED BY <1>1, <1>7, <2>1, <2>2, <2>3 DEF JobEnds
  <1> QED BY <1>1, <1>3, <1>4, <1>5, <1>6, <1>7 DEF JobEnds

----------------------------------------------------------------------------

(* The invariant holds at the start.                                       *)
LEMMA FixStarts == FixInit => FixInv
  <1> SUFFICES ASSUME FixInit PROVE FixInv OBVIOUS
  <1> USE FixAssumption DEF FixInit
  <1>1. FixTypeOK
    <2>1. artifact \in [Releases -> {Unbuilt} \cup {<<s>> : s \in Sources} \cup (Sources \X FixVersions)] OBVIOUS
    <2>2. queue \in Seq(Fixes) /\ IsInjective(queue) BY DEF IsInjective
    <2>3. emulator \in BOOLEAN /\ doubled \in BOOLEAN /\ stopped \in BOOLEAN OBVIOUS
    <2>4. wanted \in [Fixes -> FixVersions] /\ text \in [Fixes -> Sources] OBVIOUS
    <2>5. callAt \in [Fixes -> CallSteps] BY DEF CallSteps
    <2>6. revisions \in Seq([version : Releases, by : Fixes \cup {"baseline", "seed"}]) OBVIOUS
    <2>7. jobStatus \in [Fixes -> {"none", "pending", "running", "done", "error"}] OBVIOUS
    <2>8. attempts \in [Fixes -> Nat] /\ overdue \in [Fixes -> BOOLEAN] OBVIOUS
    <2>9. at \in [FixWorkers -> WorkerSteps] BY DEF WorkerSteps
    <2>10. doing \in [FixWorkers -> Fixes \cup {NoFix}] OBVIOUS
    <2>11. rowsRead \in [FixWorkers -> SUBSET (Fixes \X Nat)] /\ shipped \subseteq Fixes \X BOOLEAN OBVIOUS
    <2> QED BY <2>1, <2>2, <2>3, <2>4, <2>5, <2>6, <2>7, <2>8, <2>9, <2>10, <2>11 DEF FixTypeOK
  <1>2. \A w \in FixWorkers : at[w] \in {"off", "idle"} OBVIOUS
  <1>3. VersionsUnique BY DEF VersionsUnique
  <1>4. OneShipper BY <1>2 DEF OneShipper, Shipped, MayShip
  <1>5. BuiltRight BY <1>2 DEF BuiltRight, Shipped, HasBuilt
  <1>6. JobRows BY <1>2 DEF JobRows, Handles, BuildSteps
  <1>7. JobEnds BY <1>2 DEF JobEnds, Shipped
  <1> QED BY <1>1, <1>3, <1>4, <1>5, <1>6, <1>7 DEF FixInv

(* A revision of the seed or of the baseline owns nobody's version.        *)
LEMMA Revising ==
  ASSUME FixInv, UNCHANGED <<request, artifact, shipped, at, doing>>,
    revisions' = revisions \/ \E v \in Releases, who \in {"baseline", "seed"} : ~Recorded(v) /\ Record(v, who)
  PROVE revisions' \in Seq(RevisionType) /\ VersionsUnique' /\ OneShipper' /\ BuiltRight'
  <1>1. revisions' \in Seq(RevisionType) /\ VersionsUnique' /\ \A f \in Fixes : Owns(f) => Owns(f)'
    <2>1. CASE revisions' = revisions BY <2>1 DEF FixInv, FixTypeOK, VersionsUnique, Owns,
        RevisionType, request
    <2>2. CASE \E v \in Releases, who \in {"baseline", "seed"} : ~Recorded(v) /\ Record(v, who)
      BY <2>2, RecordKeeps DEF request
    <2> QED BY <2>1, <2>2
  <1>2. \A f \in Fixes : Shipped(f)' <=> Shipped(f) BY DEF Shipped
  <1>3. \A w \in FixWorkers : /\ MayShip(w)' <=> MayShip(w)
                              /\ HasBuilt(w)' <=> HasBuilt(w)
    BY DEF MayShip, HasBuilt, request
  <1>3a. \A w \in FixWorkers : MayShip(w) \/ HasBuilt(w) => doing[w] \in Fixes
    BY DEF FixInv, FixTypeOK, JobRows, MayShip, HasBuilt
  <1>4. OneShipper'
    <2>1. ASSUME NEW w \in FixWorkers, MayShip(w)' PROVE Owns(doing[w])' /\ ~Shipped(doing[w])'
      <3>1. MayShip(w) /\ doing[w] \in Fixes /\ doing' = doing BY <2>1, <1>3, <1>3a
      <3>2. Owns(doing[w])'
        <4>1. PICK f \in Fixes : f = doing[w] /\ f = doing'[w] BY <3>1
        <4>2. Owns(f) BY <3>1, <4>1 DEF FixInv, OneShipper
        <4>3. Owns(f)' BY <1>1, <4>2
        <4> QED BY <4>1, <4>3 DEF Owns
      <3>3. ~Shipped(doing[w])' BY <3>1 DEF FixInv, OneShipper, Shipped
      <3> QED BY <3>2, <3>3
    <2> QED BY <1>1, <1>2, <1>3, <2>1 DEF FixInv, OneShipper
  <1>5. BuiltRight'
    <2>1. \A f : OfItsSource(f)' <=> OfItsSource(f) BY DEF OfItsSource, request
    <2>2. ASSUME NEW w \in FixWorkers, HasBuilt(w)' PROVE OfItsSource(doing[w])'
      BY <1>3, <2>2 DEF FixInv, BuiltRight, OfItsSource, request
    <2> QED BY <1>2, <2>1, <2>2 DEF FixInv, BuiltRight
  <1> QED BY <1>1, <1>4, <1>5

(* What the rows say of what was shipped is not disturbed by a call.       *)
LEMMA EndsKeep ==
  ASSUME FixInv, UNCHANGED <<shipped, at, doing, stopped, doubled>>,
    \A f \in Fixes : jobStatus'[f] = "done" <=> jobStatus[f] = "done",
    \A f \in Fixes : /\ callAt'[f] = "told_done" => jobStatus'[f] = "done" \/ doubled'
                     /\ callAt'[f] = "told_error" => jobStatus'[f] = "error" \/ doubled'
  PROVE JobEnds'
  <1>1. JobEnds BY DEF FixInv
  <1>2. \A w \in FixWorkers : at'[w] = "done" => Shipped(doing[w])'
    BY <1>1 DEF JobEnds, Shipped
  <1>3. \A f \in Fixes : jobStatus'[f] = "done" => Shipped(f)'
    BY <1>1 DEF JobEnds, Shipped
  <1>4. \A f \in Fixes : Shipped(f)' =>
            \/ jobStatus'[f] = "done" \/ stopped' \/ doubled'
            \/ \E w \in FixWorkers : doing'[w] = f /\ at'[w] = "done"
    BY <1>1 DEF JobEnds, Shipped
  <1>5. (\A w \in FixWorkers : at[w] = "done" => Shipped(doing[w]))'
    BY <1>2
  <1>6. (\A f \in Fixes : jobStatus[f] = "done" => Shipped(f))' BY <1>3
  <1>7. (\A f \in Fixes : Shipped(f) =>
       \/ jobStatus[f] = "done" \/ stopped \/ doubled
       \/ \E w \in FixWorkers : doing[w] = f /\ at[w] = "done")' BY <1>4
  <1>8. (\A f \in Fixes : /\ callAt[f] = "told_done" => jobStatus[f] = "done" \/ doubled
                      /\ callAt[f] = "told_error" => jobStatus[f] = "error" \/ doubled)'
    OBVIOUS
  <1> QED BY <1>5, <1>6, <1>7, <1>8 DEF JobEnds

(* A step of an agent's call keeps the invariant.                          *)
LEMMA CallKeeps ==
  ASSUME FixInv, NEW c \in Fixes, CallStepOf(c) PROVE FixInv'
  <1> USE FixAssumption DEF CallStepOf, ReadLatest, LookForRevision, InsertBaseline, Reread,
      Enqueue, Poll, CallGoes, Judge, store, jobRows, workers, faults
  <1>1. UNCHANGED <<request, artifact, shipped, attempts, overdue, at, doing, rowsRead, stopped, doubled>>
    OBVIOUS
  <1>2. revisions' = revisions \/ \E v \in Releases, who \in {"baseline", "seed"} : ~Recorded(v) /\ Record(v, who)
    BY DEF Releases
  <1>3. /\ callAt' \in [Fixes -> CallSteps]
        /\ \A d \in Fixes \ {c} : callAt'[d] = callAt[d]
    <2>1. \E step \in CallSteps : callAt' = [callAt EXCEPT ![c] = step]
      BY DEF CallSteps
    <2>2. callAt \in [Fixes -> CallSteps]
      <3> HIDE DEF CallStepOf
      <3> QED BY DEF FixInv, FixTypeOK
    <2> HIDE DEF CallStepOf
    <2> QED BY <2>1, <2>2
  <1>4. \/ /\ jobStatus' = jobStatus /\ queue' = queue
           /\ callAt[c] \notin {"queued", "told_done", "told_error"}
           /\ callAt'[c] \notin {"queued", "told_done", "told_error"}
        \/ /\ jobStatus' = jobStatus /\ queue' = queue /\ callAt[c] = "queued"
           /\ \/ callAt'[c] = "told_done" /\ jobStatus[c] = "done"
              \/ callAt'[c] = "told_error" /\ jobStatus[c] = "error"
        \/ /\ jobStatus' = [jobStatus EXCEPT ![c] = "pending"] /\ queue' = Append(queue, c)
           /\ callAt[c] = "enqueue" /\ callAt'[c] = "queued"
    <2> HIDE DEF CallStepOf
    <2>1. CASE Enqueue(c) BY <2>1 DEF FixInv, FixTypeOK
    <2>2. CASE Poll(c) BY <2>2 DEF FixInv, FixTypeOK
    <2>3. CASE InsertBaseline(c) \/ LookForRevision(c) BY <2>3 DEF FixInv, FixTypeOK
    <2>4. CASE ReadLatest(c) \/ Reread(c) BY <2>4 DEF FixInv, FixTypeOK
    <2> QED BY <2>1, <2>2, <2>3, <2>4 DEF CallStepOf
  <1> HIDE DEF CallStepOf, ReadLatest, LookForRevision, InsertBaseline, Reread, Enqueue, Poll,
      CallGoes, Judge
  <1>5. revisions' \in Seq(RevisionType) /\ VersionsUnique' /\ OneShipper' /\ BuiltRight' BY <1>1, <1>2, Revising
  <1>6. jobStatus' \in [Fixes -> {"none", "pending", "running", "done", "error"}]
    BY <1>4 DEF FixInv, FixTypeOK
  <1>7. \A d \in Fixes : \/ jobStatus'[d] = jobStatus[d]
                         \/ (/\ d = c /\ callAt[c] = "enqueue" /\ callAt'[c] = "queued"
                             /\ jobStatus[d] = "none" /\ jobStatus'[d] = "pending")
    BY <1>4 DEF FixInv, FixTypeOK, JobRows
  <1>8. queue' \in Seq(Fixes) /\ IsInjective(queue') /\ \A i \in 1..Len(queue') : jobStatus'[queue'[i]] # "none"
    <2>1. CASE queue' = queue /\ jobStatus' = jobStatus BY <2>1 DEF FixInv, FixTypeOK, JobRows
    <2>2. CASE queue' = Append(queue, c) /\ jobStatus' = [jobStatus EXCEPT ![c] = "pending"] /\ callAt[c] = "enqueue"
      <3>1. queue \in Seq(Fixes) /\ IsInjective(queue) /\ \A i \in 1..Len(queue) : queue[i] # c /\ queue[i] \in Fixes
        <4>1. jobStatus[c] = "none" BY <2>2 DEF FixInv, JobRows
        <4>2. \A i \in 1..Len(queue) : jobStatus[queue[i]] # "none" BY DEF FixInv, JobRows
        <4>3. queue \in Seq(Fixes) /\ IsInjective(queue) BY DEF FixInv, FixTypeOK
        <4> QED BY <4>1, <4>2, <4>3
      <3>2. /\ queue' \in Seq(Fixes) /\ Len(queue') = Len(queue) + 1 /\ Len(queue) \in Nat
            /\ \A i \in 1..Len(queue) : queue'[i] = queue[i]
            /\ queue'[Len(queue) + 1] = c
        BY <2>2, <3>1
      <3>2a. DOMAIN queue' = 1..Len(queue') /\ DOMAIN queue = 1..Len(queue) BY <3>1, <3>2
      <3>3. IsInjective(queue') BY <3>1, <3>2, <3>2a DEF IsInjective
      <3>4. \A i \in 1..Len(queue') : jobStatus'[queue'[i]] # "none" BY <2>2, <3>1, <3>2 DEF FixInv,
          FixTypeOK, JobRows
      <3> QED BY <3>2, <3>3, <3>4
    <2> QED BY <1>4, <2>1, <2>2
  <1>9. FixTypeOK'
    <2>1. (/\ emulator \in BOOLEAN /\ doubled \in BOOLEAN /\ stopped \in BOOLEAN
           /\ wanted \in [Fixes -> FixVersions] /\ text \in [Fixes -> Sources])'
      BY <1>1 DEF FixInv, FixTypeOK, request
    <2>2. (artifact \in [Releases -> {Unbuilt} \cup {<<r>> : r \in Sources} \cup (Sources \X FixVersions)])'
      BY <1>1 DEF FixInv, FixTypeOK
    <2>3. (attempts \in [Fixes -> Nat] /\ overdue \in [Fixes -> BOOLEAN])'
      BY <1>1 DEF FixInv, FixTypeOK
    <2>4. (/\ at \in [FixWorkers -> WorkerSteps] /\ doing \in [FixWorkers -> Fixes \cup {NoFix}]
           /\ rowsRead \in [FixWorkers -> SUBSET (Fixes \X Nat)])'
      BY <1>1 DEF FixInv, FixTypeOK
    <2>5. (shipped \subseteq Fixes \X BOOLEAN)'
      BY <1>1 DEF FixInv, FixTypeOK
    <2> QED BY <2>1, <2>2, <2>3, <2>4, <2>5, <1>3, <1>5, <1>6, <1>8 DEF FixTypeOK, RevisionType
  <1>10. JobRows'
    <2>1. \A d \in Fixes : jobStatus'[d] = "none" <=> callAt'[d] \notin {"queued", "told_done", "told_error"}
      <3> SUFFICES ASSUME NEW d \in Fixes
                   PROVE  jobStatus'[d] = "none"
                            <=> callAt'[d] \notin {"queued", "told_done", "told_error"}
        OBVIOUS
      <3>1. jobStatus[d] = "none" <=> callAt[d] \notin {"queued", "told_done", "told_error"}
        BY DEF FixInv, JobRows
      <3>2. CASE d # c BY <3>1, <3>2, <1>3, <1>7
      <3>3. CASE d = c BY <3>1, <3>3, <1>4, <1>7 DEF FixInv, FixTypeOK
      <3> QED BY <3>2, <3>3
    <2>2. \A w \in FixWorkers : Handles(w)' <=> Handles(w) BY <1>1 DEF Handles
    <2>3. ASSUME NEW w \in FixWorkers, doing[w] # NoFix
          PROVE  jobStatus'[doing[w]] = jobStatus[doing[w]] /\ jobStatus[doing[w]] # "none"
      BY <1>7, <2>3 DEF FixInv, FixTypeOK, JobRows
    <2>4. ASSUME NEW w \in FixWorkers, Handles(w) PROVE jobStatus'[doing[w]] = "running" \/ doubled
      BY <2>3, <2>4 DEF FixInv, JobRows, Handles, BuildSteps
    <2>5. \A w \in FixWorkers : /\ doing'[w] = NoFix <=> at'[w] \in {"off", "idle", "reclaim"}
                                /\ doing'[w] # NoFix => jobStatus'[doing'[w]] # "none"
                                /\ at'[w] = "claim" => rowsRead'[w] # {}
                                /\ at'[w] \in {"build", "upload_salted"} => emulator'
      BY <1>1, <2>3 DEF FixInv, JobRows, request
    <2>6. \A w, v \in FixWorkers : Handles(w)' /\ Handles(v)' /\ doing'[w] = doing'[v] => w = v \/ doubled'
      BY <1>1, <2>2 DEF FixInv, JobRows
    <2> QED BY <1>1, <1>8, <2>1, <2>2, <2>4, <2>5, <2>6 DEF JobRows
  <1>11. JobEnds'
    <2>1. \A f \in Fixes : jobStatus'[f] = "done" <=> jobStatus[f] = "done"
      BY <1>7
    <2>2. \A f \in Fixes : /\ callAt'[f] = "told_done" => jobStatus'[f] = "done" \/ doubled'
                           /\ callAt'[f] = "told_error" => jobStatus'[f] = "error" \/ doubled'
      <3> SUFFICES ASSUME NEW f \in Fixes
                   PROVE  /\ callAt'[f] = "told_done" => jobStatus'[f] = "done" \/ doubled'
                          /\ callAt'[f] = "told_error" => jobStatus'[f] = "error" \/ doubled'
        OBVIOUS
      <3>1. CASE f # c BY <3>1, <1>1, <1>3, <1>7 DEF FixInv, JobEnds
      <3>2. CASE f = c BY <3>2, <1>4
      <3> QED BY <3>1, <3>2
    <2>3. UNCHANGED <<shipped, at, doing, stopped, doubled>> BY <1>1
    <2> QED BY <2>1, <2>2, <2>3, EndsKeep
  <1> QED BY <1>5, <1>9, <1>10, <1>11 DEF FixInv

(* Time passing and the registration of a source keep the invariant.       *)
LEMMA OtherKeeps ==
  ASSUME FixInv, (\E f \in Fixes : RunsLate(f)) \/ RegisterSource \/ UNCHANGED fixVars PROVE FixInv'
  <1>1. /\ UNCHANGED <<request, callAt, artifact, shipped, queue, jobStatus, attempts, at, doing, rowsRead, stopped, doubled>>
        /\ overdue' \in [Fixes -> BOOLEAN]
    BY DEF RunsLate, RegisterSource, fixVars, request, store, workers, faults, jobRows, FixInv, FixTypeOK
  <1>2. revisions' = revisions \/ \E v \in Releases, who \in {"baseline", "seed"} : ~Recorded(v) /\ Record(v, who)
    BY DEF RunsLate, RegisterSource, fixVars, store, Releases
  <1>5. revisions' \in Seq(RevisionType) /\ VersionsUnique' /\ OneShipper' /\ BuiltRight' BY <1>1, <1>2, Revising
  <1>6. FixTypeOK'
    <2>1. (/\ emulator \in BOOLEAN /\ doubled \in BOOLEAN /\ stopped \in BOOLEAN
           /\ wanted \in [Fixes -> FixVersions] /\ text \in [Fixes -> Sources])'
      BY <1>1 DEF FixInv, FixTypeOK, request
    <2>2. (artifact \in [Releases -> {Unbuilt} \cup {<<r>> : r \in Sources} \cup (Sources \X FixVersions)])'
      BY <1>1 DEF FixInv, FixTypeOK
    <2>3. (attempts \in [Fixes -> Nat] /\ overdue \in [Fixes -> BOOLEAN])'
      BY <1>1 DEF FixInv, FixTypeOK
    <2>4. (/\ at \in [FixWorkers -> WorkerSteps] /\ doing \in [FixWorkers -> Fixes \cup {NoFix}]
           /\ rowsRead \in [FixWorkers -> SUBSET (Fixes \X Nat)])'
      BY <1>1 DEF FixInv, FixTypeOK
    <2>5. (shipped \subseteq Fixes \X BOOLEAN)'
      BY <1>1 DEF FixInv, FixTypeOK
    <2>6. (/\ callAt \in [Fixes -> CallSteps] /\ queue \in Seq(Fixes) /\ IsInjective(queue)
           /\ jobStatus \in [Fixes -> {"none", "pending", "running", "done", "error"}])'
      BY <1>1 DEF FixInv, FixTypeOK, IsInjective
    <2> QED BY <2>1, <2>2, <2>3, <2>4, <2>5, <2>6, <1>5 DEF FixTypeOK, RevisionType
  <1>7. JobRows' BY <1>1 DEF FixInv, JobRows, Handles, request
  <1>8. JobEnds' BY <1>1 DEF FixInv, JobEnds, Shipped
  <1> QED BY <1>5, <1>6, <1>7, <1>8 DEF FixInv

(* The invariant is strong enough.                                         *)
LEMMA Sound == FixInv => FixJobsSound
  <1> SUFFICES ASSUME FixInv PROVE FixJobsSound OBVIOUS
  <1>1. ShippedOnce
    <2>1. ASSUME NEW x \in shipped, NEW y \in shipped, wanted[x[1]] = wanted[y[1]] PROVE x = y
      <3>1. \A z \in shipped : z[1] \in Fixes /\ z[2] \in BOOLEAN /\ z = <<z[1], z[2]>> BY DEF
          FixInv, FixTypeOK
      <3>2. Owns(x[1]) /\ Owns(y[1]) BY <3>1 DEF FixInv, OneShipper, Shipped
      <3>3. PICK i \in 1..Len(revisions) : revisions[i] = [version |-> wanted[x[1]], by |-> x[1]] BY
          <3>2 DEF Owns
      <3>4. PICK j \in 1..Len(revisions) : revisions[j] = [version |-> wanted[y[1]], by |-> y[1]] BY
          <3>2 DEF Owns
      <3>5. x[1] = y[1] BY <2>1, <3>3, <3>4 DEF FixInv, VersionsUnique
      <3> QED BY <3>5 DEF FixInv, OneShipper
    <2> QED BY <2>1 DEF ShippedOnce
  <1>2. DoneMeansDeployed BY DEF DoneMeansDeployed, FixInv, JobEnds, OneShipper, Owns
  <1>3. ShipsItsSource BY DEF ShipsItsSource, FixInv, BuiltRight, OfItsSource
  <1>4. ToldTheTruth
    <2>1. ASSUME NEW f \in Fixes, jobStatus[f] = "error", Shipped(f) PROVE stopped \/ doubled
      BY <2>1 DEF FixInv, JobEnds, JobRows, Handles
    <2> QED BY <2>1 DEF FixInv, JobEnds, ToldTheTruth
  <1> QED BY <1>1, <1>2, <1>3, <1>4 DEF FixJobsSound

(* The inductive invariant, of every behaviour of the fix jobs: the        *)
(* revisions are unique per version, a fix is only shipped by the one      *)
(* worker that recorded its revision (worker.py and realcompile.py), and   *)
(* the rows of firmware_fix_jobs say what became of each job.              *)
THEOREM FixHolds == FixSpec => []FixInv
  <1>1. FixInit => FixInv BY FixStarts
  <1>2. FixInv /\ [FixNext]_fixVars => FixInv'
    <2> SUFFICES ASSUME FixInv, [FixNext]_fixVars PROVE FixInv' OBVIOUS
    <2>1. ASSUME NEW c \in Fixes, CallStepOf(c) PROVE FixInv' BY <2>1, CallKeeps
    <2>2. ASSUME NEW w \in FixWorkers, WorkerStep(w) \/ WorkerStops(w) PROVE FixInv'
      <3>1. FixTypeOK' BY <2>2, WorkerTypes
      <3>2. VersionsUnique' BY <2>2, WorkerRevisions
      <3>3. OneShipper' BY <2>2, WorkerShips
      <3>4. BuiltRight' BY <2>2, WorkerBuilds
      <3>5. JobRows' BY <2>2, WorkerRows
      <3>6. JobEnds' BY <2>2, WorkerEnds
      <3> QED BY <3>1, <3>2, <3>3, <3>4, <3>5, <3>6 DEF FixInv
    <2>3. ASSUME (\E f \in Fixes : RunsLate(f)) \/ RegisterSource \/ UNCHANGED fixVars PROVE FixInv'
      BY <2>3, OtherKeeps
    <2> QED BY <2>1, <2>2, <2>3 DEF FixNext
  <1> QED BY <1>1, <1>2, PTL DEF FixSpec

(* However often a job is claimed, reclaimed and claimed again, its        *)
(* version is shipped once, from its own source, a job that is done was    *)
(* deployed under its own revision, and what the agent was told of it      *)
(* stays true (claim_fix_job, reclaim_stale_fix_jobs, finish_fix_job).     *)
THEOREM FixJobsAreSound == FixSpec => []FixJobsSound
  <1>1. FixInv => FixJobsSound BY Sound
  <1> QED BY <1>1, FixHolds, PTL

=============================================================================
