--------------------------- MODULE FleetEnrolment ---------------------------
(***************************************************************************)
(* Enrolment: an operator gets a batch and its shared bootstrap header, a  *)
(* unit flashed with it announces itself, its owner accepts it, and the    *)
(* fulfilment worker issues an identity and rolls the unit over to it.     *)
(* The rows are the database's, the key and certificate files survive a    *)
(* restart of the fleet service, futures and the registry do not.          *)
(***************************************************************************)
EXTENDS Naturals, Sequences, FiniteSets, SequencesExt

CONSTANTS
  Hwids,            \* units
  MaxBatches,       \* batches created, 1..MaxBatches in that order
  OwnProject,       \* the project all of this is for
  HandProjects,     \* projects that /internal/provision-device is called with
  FailingCalls,     \* what may raise: "create", "issue", "sweep", "provision",
                    \* "publish", "mark", "announce", "presence", "save"
  MaxEnrolFailures, \* how often something raises
  MaxEnrolDrops,    \* links lost, per unit
  MaxFleetRestarts,
  Absent

ASSUME EnrolAssumption ==
  /\ MaxBatches \in Nat /\ Absent \notin 1..MaxBatches
  /\ MaxEnrolFailures \in Nat /\ MaxEnrolDrops \in Nat /\ MaxFleetRestarts \in Nat

Batches == 1..MaxBatches
Keys == Batches \X Hwids     \* an enrolment row is a unit announced under a batch
HwidOf(key) == key[2]

VARIABLES
  batchRow,     \* enrollment_batches.state
  batchLeaf,    \* the batch's bootstrap.{key,crt}
  headers,      \* batches whose header was handed out
  onboarding,   \* the /internal/provision-batch call under way
  enrolment,    \* device_enrollments: state and cert_issued
  worker,       \* the fulfilment worker: where it is, its work list, its row
  rolloverAck,  \* router._bootstrap_pending
  leaf,         \* certs_dir/{hwid}/device.{key,crt}
  unit,         \* each unit: mode, batch, link, the identity it stored
  rollover,     \* the rollover command on its way to each unit
  toFleet,      \* messages to the router, in order
  seen,         \* units the registry holds as online
  mishaps       \* counters of the bounds

enrolVars == <<batchRow, batchLeaf, headers, onboarding, enrolment, worker, rolloverAck, leaf,
               unit, rollover, toFleet, seen, mishaps>>
batchVars == <<batchRow, batchLeaf, headers, onboarding>>
unitVars  == <<unit, rollover>>

EnrolInit ==
  /\ batchRow = [b \in Batches |-> "none"] /\ batchLeaf = [b \in Batches |-> "none"]
  /\ headers = {} /\ onboarding = [step |-> "idle", batch |-> Absent]
  /\ enrolment = [key \in Keys |-> [state |-> "none", issued |-> FALSE]]
  /\ worker = [step |-> "sleep", todo |-> {}, row |-> Absent]
  /\ rolloverAck = [h \in Hwids |-> "none"]
  /\ leaf = [h \in Hwids |-> Absent]
  /\ unit = [h \in Hwids |-> [mode |-> "blank", batch |-> Absent, up |-> FALSE,
                              identity |-> Absent]]
  /\ rollover = [h \in Hwids |-> Absent]
  /\ toFleet = << >> /\ seen = {}
  /\ mishaps = [failures |-> 0, drops |-> [h \in Hwids |-> 0], restarts |-> 0]

(* One of the calls that may raise does.                                   *)
Raises(what) ==
  /\ what \in FailingCalls /\ mishaps.failures < MaxEnrolFailures
  /\ mishaps' = [mishaps EXCEPT !.failures = @ + 1]

----------------------------------------------------------------------------
(* _provision_batch: reuse the newest active batch, or create one with its *)
(* certificate; then hand out the header.                                  *)

ActiveBatches == {b \in Batches : batchRow[b] = "active"}
NewestActive == IF ActiveBatches = {} THEN Absent
                ELSE CHOOSE b \in ActiveBatches : \A a \in ActiveBatches : a <= b
Idle == [step |-> "idle", batch |-> Absent]

ReusableBatch == NewestActive

LookUpBatch ==
  /\ onboarding.step = "idle"
  /\ onboarding' = [step |-> "looked", batch |-> ReusableBatch]
  /\ UNCHANGED <<batchRow, batchLeaf, headers, enrolment, worker, rolloverAck, leaf, unitVars,
                 toFleet, seen, mishaps>>

CreateBatch ==
  /\ onboarding.step = "looked" /\ onboarding.batch = Absent
  /\ \/ /\ \E b \in Batches :
             /\ batchRow[b] = "none" /\ \A a \in 1..(b - 1) : batchRow[a] # "none"
             /\ batchRow' = [batchRow EXCEPT ![b] = "active"]
             /\ onboarding' = [step |-> "created", batch |-> b]
        /\ UNCHANGED mishaps
     \/ Raises("create") /\ onboarding' = Idle /\ UNCHANGED batchRow
  /\ UNCHANGED <<batchLeaf, headers, enrolment, worker, rolloverAck, leaf, unitVars, toFleet, seen>>

(* The row is active already when its certificate is issued.               *)
IssueBatchCert ==
  /\ onboarding.step = "created"
  /\ onboarding' = Idle
  /\ \/ /\ batchLeaf' = [batchLeaf EXCEPT ![onboarding.batch] = "whole"]
        /\ headers' = headers \cup {onboarding.batch}
        /\ UNCHANGED mishaps
     \/ Raises("issue") /\ UNCHANGED <<batchLeaf, headers>>
  /\ UNCHANGED <<batchRow, enrolment, worker, rolloverAck, leaf, unitVars, toFleet, seen>>

(* A reused batch whose certificate was never written is an error.         *)
ReuseBatch ==
  /\ onboarding.step = "looked" /\ onboarding.batch # Absent
  /\ onboarding' = Idle
  /\ headers' = IF batchLeaf[onboarding.batch] = "whole" THEN headers \cup {onboarding.batch}
                ELSE headers
  /\ UNCHANGED <<batchRow, batchLeaf, enrolment, worker, rolloverAck, leaf, unitVars, toFleet,
                 seen, mishaps>>

(* Its 24 hours are over.                                                  *)
ExpireBatch ==
  /\ \E b \in ActiveBatches : batchRow' = [batchRow EXCEPT ![b] = "expired"]
  /\ UNCHANGED <<batchLeaf, headers, onboarding, enrolment, worker, rolloverAck, leaf, unitVars,
                 toFleet, seen, mishaps>>

----------------------------------------------------------------------------
(* A unit: flashed once with a header, in bootstrap mode until a rollover  *)
(* is stored and the claimed flag, written last, is set.                   *)

Flash(h) ==
  /\ unit[h].mode = "blank"
  /\ \E b \in headers : unit' = [unit EXCEPT ![h].mode = "bootstrap", ![h].batch = b]
  /\ UNCHANGED <<batchVars, enrolment, worker, rolloverAck, leaf, rollover, toFleet, seen, mishaps>>

Tell(kind, h) == toFleet' = Append(toFleet, [kind |-> kind, hwid |-> h, batch |-> unit[h].batch])

ConnectUnit(h) ==
  /\ unit[h].mode # "blank" /\ ~unit[h].up
  /\ unit' = [unit EXCEPT ![h].up = TRUE]
  /\ Tell(IF unit[h].mode = "bootstrap" THEN "announce" ELSE "online", h)
  /\ UNCHANGED <<batchVars, enrolment, worker, rolloverAck, leaf, rollover, seen, mishaps>>

DropUnit(h) ==
  /\ unit[h].up /\ mishaps.drops[h] < MaxEnrolDrops
  /\ mishaps' = [mishaps EXCEPT !.drops[h] = @ + 1]
  /\ unit' = [unit EXCEPT ![h].up = FALSE] /\ rollover' = [rollover EXCEPT ![h] = Absent]
  /\ IF unit[h].mode = "claimed" THEN Tell("offline", h) ELSE UNCHANGED toFleet
  /\ UNCHANGED <<batchVars, enrolment, worker, rolloverAck, leaf, seen>>

(* A beat matters here only while the registry does not know of the unit   *)
(* (a bound: the later ones change nothing).                               *)
BeatClaimed(h) ==
  /\ unit[h].mode = "claimed" /\ unit[h].up /\ h \notin seen
  /\ \A i \in 1..Len(toFleet) : toFleet[i].hwid # h
  /\ Tell("online", h)
  /\ UNCHANGED <<batchVars, enrolment, worker, rolloverAck, leaf, unitVars, seen, mishaps>>

(* Stored, acknowledged and rebooted; the acknowledgement may get lost.    *)
ApplyRollover(h) ==
  /\ rollover[h] # Absent /\ unit[h].up
  /\ unit' = [unit EXCEPT ![h].mode = "claimed", ![h].up = FALSE, ![h].identity = rollover[h]]
  /\ rollover' = [rollover EXCEPT ![h] = Absent]
  /\ \/ Tell("applied", h)
     \/ UNCHANGED toFleet
  /\ UNCHANGED <<batchVars, enrolment, worker, rolloverAck, leaf, seen, mishaps>>

RefuseRollover(h) ==
  /\ rollover[h] # Absent /\ unit[h].up
  /\ Raises("save")
  /\ rollover' = [rollover EXCEPT ![h] = Absent]
  /\ Tell("error", h)
  /\ UNCHANGED <<batchVars, enrolment, worker, rolloverAck, leaf, unit, seen>>

----------------------------------------------------------------------------
(* The router.                                                             *)

RecordEnrolment(key) ==
  enrolment' = IF enrolment[key].state = "none" /\ batchRow[key[1]] = "active"
                 THEN [enrolment EXCEPT ![key].state = "pending"] ELSE enrolment

(* claim_enrollment_by_device, which knows the device only.                *)
ClaimByPresence(h) ==
  enrolment' = [key \in Keys |-> IF HwidOf(key) = h /\ enrolment[key].state = "accepted"
                                   THEN [enrolment[key] EXCEPT !.state = "claimed"]
                                   ELSE enrolment[key]]

Handle(m) ==
  \/ /\ m.kind = "announce"
     /\ \/ RecordEnrolment(<<m.batch, m.hwid>>) /\ UNCHANGED mishaps
        \/ Raises("announce") /\ UNCHANGED enrolment
     /\ UNCHANGED <<rolloverAck, seen>>
  \/ /\ m.kind \in {"applied", "error"}
     /\ rolloverAck' = [rolloverAck EXCEPT ![m.hwid] = IF @ = "waiting" THEN m.kind ELSE @]
     /\ UNCHANGED <<enrolment, seen, mishaps>>
  \/ /\ m.kind = "online"
     /\ seen' = seen \cup {m.hwid}
     /\ \/ m.hwid \notin seen /\ ClaimByPresence(m.hwid) /\ UNCHANGED mishaps
        \/ m.hwid \notin seen /\ Raises("presence") /\ UNCHANGED enrolment
        \/ m.hwid \in seen /\ UNCHANGED <<enrolment, mishaps>>
     /\ UNCHANGED rolloverAck
  \/ /\ m.kind = "offline"
     /\ seen' = seen \ {m.hwid}
     /\ UNCHANGED <<enrolment, rolloverAck, mishaps>>

RouteEnrolment ==
  /\ toFleet # << >>
  /\ toFleet' = Tail(toFleet)
  /\ Handle(Head(toFleet))
  /\ UNCHANGED <<batchVars, worker, leaf, unitVars>>

(* The owner's decision in the dashboard.                                  *)
AcceptEnrolment ==
  /\ \E key \in Keys : /\ enrolment[key].state = "pending"
                       /\ enrolment' = [enrolment EXCEPT ![key].state = "accepted"]
  /\ UNCHANGED <<batchVars, worker, rolloverAck, leaf, unitVars, toFleet, seen, mishaps>>

----------------------------------------------------------------------------
(* The fulfilment worker: reconcile, fetch, and one row after another.     *)

Asleep == [step |-> "sleep", todo |-> {}, row |-> Absent]
NextRow == [worker EXCEPT !.step = "pick", !.row = Absent]
WorkerOnly == UNCHANGED <<batchVars, rolloverAck, leaf, unitVars, toFleet, seen>>

NeverStale == {}
Stale == {key \in Keys : enrolment[key].state = "accepted" /\ enrolment[key].issued}

(* The rows past their grace period, which any of the stale ones may be.   *)
Reconcile(reopened) ==
  /\ worker.step = "sleep"
  /\ reopened \subseteq Stale
  /\ enrolment' = [key \in Keys |-> IF key \in reopened THEN [enrolment[key] EXCEPT !.issued = FALSE]
                                    ELSE enrolment[key]]
  /\ worker' = [worker EXCEPT !.step = "fetch"]
  /\ WorkerOnly /\ UNCHANGED mishaps

Fetch ==
  /\ worker.step = "fetch"
  /\ \/ /\ worker' = [step |-> "pick", row |-> Absent,
                      todo |-> {key \in Keys : enrolment[key].state = "accepted"
                                                 /\ ~enrolment[key].issued}]
        /\ UNCHANGED mishaps
     \/ Raises("sweep") /\ worker' = Asleep
  /\ WorkerOnly /\ UNCHANGED enrolment

SweepEnds ==
  /\ worker.step = "pick" /\ worker.todo = {}
  /\ worker' = Asleep
  /\ WorkerOnly /\ UNCHANGED <<enrolment, mishaps>>

FreshLeaf(project) == [whole |-> TRUE, project |-> project]
Torn(h) == [leaf EXCEPT ![h] = [whole |-> FALSE, project |-> OwnProject]]

ReusesLeaf(h) == leaf' = IF leaf[h] = Absent THEN [leaf EXCEPT ![h] = FreshLeaf(OwnProject)] ELSE leaf
IssueLeaf(h) == leaf' = [leaf EXCEPT ![h] = FreshLeaf(OwnProject)]

IssueIdentity ==
  /\ worker.step = "pick"
  /\ \E key \in worker.todo :
       /\ worker' = [step |-> "provision", todo |-> worker.todo \ {key}, row |-> key]
       /\ IssueLeaf(HwidOf(key))
  /\ UNCHANGED <<batchVars, enrolment, rolloverAck, unitVars, toFleet, seen, mishaps>>

(* provision_claimed_device, which the worker awaits.                      *)
ProvisionRow ==
  /\ worker.step = "provision"
  /\ \/ worker' = [worker EXCEPT !.step = "publish"] /\ UNCHANGED mishaps
     \/ Raises("provision") /\ worker' = NextRow
  /\ WorkerOnly /\ UNCHANGED enrolment

(* /internal/provision-device writes the same files meanwhile.             *)
ProvisionDevice(h) ==
  /\ \E project \in HandProjects : leaf' = [leaf EXCEPT ![h] = FreshLeaf(project)]
  /\ UNCHANGED <<batchVars, enrolment, worker, rolloverAck, unitVars, toFleet, seen, mishaps>>

Listens(key) == LET u == unit[HwidOf(key)] IN u.mode = "bootstrap" /\ u.up /\ u.batch = key[1]

PublishRollover ==
  /\ worker.step = "publish"
  /\ LET h == HwidOf(worker.row)
     IN  \/ /\ rollover' = IF Listens(worker.row) THEN [rollover EXCEPT ![h] = leaf[h]] ELSE rollover
            /\ rolloverAck' = [rolloverAck EXCEPT ![h] = "waiting"]
            /\ worker' = [worker EXCEPT !.step = "wait"]
            /\ UNCHANGED mishaps
         \/ Raises("publish") /\ worker' = NextRow /\ UNCHANGED <<rollover, rolloverAck>>
  /\ UNCHANGED <<batchVars, enrolment, leaf, unit, toFleet, seen>>

Acknowledged(h) == rolloverAck[h] = "applied"

(* An answer, or the timeout.                                              *)
AwaitAck ==
  /\ worker.step = "wait"
  /\ LET h == HwidOf(worker.row)
     IN  /\ worker' = [worker EXCEPT !.step = IF Acknowledged(h) THEN "claim" ELSE "issued"]
         /\ rolloverAck' = [rolloverAck EXCEPT ![h] = "none"]
  /\ UNCHANGED <<batchVars, enrolment, leaf, unitVars, toFleet, seen, mishaps>>

MarkRow ==
  /\ worker.step \in {"claim", "issued"}
  /\ worker' = NextRow
  /\ \/ /\ enrolment' = IF worker.step = "claim"
                          THEN [enrolment EXCEPT ![worker.row].state = "claimed"]
                          ELSE [enrolment EXCEPT ![worker.row].issued = TRUE]
        /\ UNCHANGED mishaps
     \/ Raises("mark") /\ UNCHANGED enrolment
  /\ WorkerOnly

(* The process dies, its broker with it; a pair of files being written may *)
(* be left half written.                                                   *)
FleetRestarts ==
  /\ mishaps.restarts < MaxFleetRestarts
  /\ mishaps' = [mishaps EXCEPT !.restarts = @ + 1]
  /\ worker' = Asleep /\ onboarding' = Idle /\ seen' = {} /\ toFleet' = << >>
  /\ rolloverAck' = [h \in Hwids |-> "none"]
  /\ unit' = [h \in Hwids |-> [unit[h] EXCEPT !.up = FALSE]]
  /\ rollover' = [h \in Hwids |-> Absent]
  /\ \/ UNCHANGED <<leaf, batchLeaf>>
     \/ /\ worker.step = "pick" /\ \E key \in worker.todo : leaf' = Torn(HwidOf(key))
        /\ UNCHANGED batchLeaf
     \/ /\ onboarding.step = "created"
        /\ batchLeaf' = [batchLeaf EXCEPT ![onboarding.batch] = "torn"]
        /\ UNCHANGED leaf
  /\ UNCHANGED <<batchRow, headers, enrolment>>

----------------------------------------------------------------------------
Onboarding == LookUpBatch \/ CreateBatch \/ IssueBatchCert \/ ReuseBatch
Fulfil == Fetch \/ SweepEnds \/ IssueIdentity \/ ProvisionRow \/ PublishRollover \/ AwaitAck
            \/ MarkRow
UnitStep(h) == Flash(h) \/ ConnectUnit(h) \/ DropUnit(h) \/ BeatClaimed(h) \/ ApplyRollover(h)
                 \/ RefuseRollover(h) \/ ProvisionDevice(h)

EnrolNext ==
  \/ Onboarding \/ ExpireBatch \/ AcceptEnrolment \/ RouteEnrolment
  \/ \E h \in Hwids : UnitStep(h)
  \/ \E reopened \in SUBSET Keys : Reconcile(reopened)
  \/ Fulfil \/ FleetRestarts

EnrolSpec == EnrolInit /\ [][EnrolNext]_enrolVars

----------------------------------------------------------------------------
EnrolTypeOK ==
  /\ batchRow \in [Batches -> {"none", "active", "expired"}]
  /\ batchLeaf \in [Batches -> {"none", "torn", "whole"}]
  /\ headers \subseteq Batches
  /\ onboarding \in [step : {"idle", "looked", "created"}, batch : Batches \cup {Absent}]
  /\ enrolment \in [Keys -> [state : {"none", "pending", "accepted", "claimed"}, issued : BOOLEAN]]
  /\ worker.step \in {"sleep", "fetch", "pick", "provision", "publish", "wait", "claim", "issued"}
  /\ worker.todo \subseteq Keys /\ (worker.row = Absent \/ worker.row \in Keys)
  /\ rolloverAck \in [Hwids -> {"none", "waiting", "applied", "error"}]
  /\ DOMAIN unit = Hwids /\ DOMAIN leaf = Hwids /\ DOMAIN rollover = Hwids
  /\ seen \subseteq Hwids

(* An enrolment is claimed only when its unit stores an identity: whatever *)
(* was lost, refused, repeated or answered late (enroll_worker.py:117-124, *)
(* router.py:168-172).                                                     *)
ClaimedHasIdentity ==
  \A key \in Keys : enrolment[key].state = "claimed" => unit[HwidOf(key)].identity # Absent

(* What a unit stores belongs together and to the project that enrolled    *)
(* it, although a restart may leave half an identity on disk and a pair of *)
(* files may be replaced between the worker's issue and its reading them   *)
(* (enroll_worker.py:94-97), provided the hand provisions into the same    *)
(* project.                                                                *)
IdentityWhole ==
  \A h \in Hwids : unit[h].identity # Absent =>
    unit[h].identity.whole /\ unit[h].identity.project = OwnProject

(* Repeated onboarding reuses the batch that is active, so that batches do *)
(* not pile up (control.py:194-207), as long as one call runs at a time.   *)
BatchesDontPileUp == Cardinality(ActiveBatches) <= 1

(* Enrolment ends with one identity of its own per unit, from one batch.   *)
EnrolmentSound == EnrolTypeOK /\ ClaimedHasIdentity /\ IdentityWhole /\ BatchesDontPileUp

(* An accepted unit gets its identity and its enrolment ends, whatever     *)
(* rollover, acknowledgement or bookkeeping was lost on the way.           *)
AcceptedGetsClaimed ==
  \A key \in Keys : enrolment[key].state = "accepted" ~> enrolment[key].state = "claimed"

=============================================================================
