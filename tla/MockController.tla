--------------------------- MODULE MockController ---------------------------
(***************************************************************************)
(* The controller of mock devices of one level: requests that spawn them   *)
(* under a lock per project, leases and browser presence that keep them,   *)
(* deletions, and the reaper.  It keeps nothing but what docker shows.     *)
(***************************************************************************)
EXTENDS Naturals, FiniteSets, FiniteSetsExt

CONSTANTS
  Mocks,           \* device ids, each of which is drawn once
  MockProjects,
  Seeders,         \* calls of POST /mocks, each made once
  ProjectCap,
  TotalCap,
  MaxControlFaults,    \* calls to docker or to fleet that fail
  MaxControlRestarts,
  NoMock

ASSUME ControllerAssumption ==
  /\ IsFiniteSet(Mocks) /\ NoMock \notin Mocks
  /\ ProjectCap \in Nat /\ TotalCap \in Nat
  /\ MaxControlFaults \in Nat /\ MaxControlRestarts \in Nat

VARIABLES
  heavy,       \* the level is 2, else 1
  box,         \* the container of each id, as docker sees it
  home,        \* its project label
  labelOver,   \* the time in its expires_at label has passed
  certs,       \* the ids fleet holds a certificate for
  lease,       \* _renew_until
  online,      \* the projects with a fresh ping
  seeding,     \* each call: [at, project, count, target, mock]; one is "waiting"
               \* from before it is made until the lock is its own
  sweep,       \* the reaper: [at, todo, mock]
  deletion,    \* the deletion of each id
  promised,    \* a renewal of it was answered and has not run out
  late,        \* ids whose container appeared after its call had failed
  due,         \* mocks each project should have, by the requests decided
  broken,      \* ids torn down while leased
  forgot,      \* ids whose lease was dropped while they ran
  controlFaults, controlRestarts

controllerVars == <<heavy, box, home, labelOver, certs, lease, online, seeding, sweep, deletion,
                    promised, late, due, broken, forgot, controlFaults, controlRestarts>>
clocks == <<labelOver, lease, online, promised, forgot>>
budget == <<controlFaults, controlRestarts>>

Answered == [at |-> "answered", project |-> NoMock, count |-> 0, target |-> FALSE, mock |-> NoMock]
Asked    == [at : {"waiting"}, project : MockProjects, count : 1..ProjectCap, target : BOOLEAN,
             mock : {NoMock}]
NoSweep  == [at |-> "idle", todo |-> {}, mock |-> NoMock]

ControllerInit ==
  /\ heavy \in BOOLEAN
  /\ box \in [Mocks -> {"none", "gone"}]          \* the ids not drawn before
  /\ home \in [Mocks -> MockProjects]
  /\ labelOver = [m \in Mocks |-> FALSE]
  /\ certs = {} /\ online = {}
  /\ lease = [m \in Mocks |-> "none"]
  /\ seeding \in [Seeders -> Asked \cup {Answered}]   \* the calls that are made
  /\ sweep = NoSweep
  /\ deletion = [m \in Mocks |-> "no"]
  /\ promised = [m \in Mocks |-> FALSE]
  /\ late = {} /\ broken = {} /\ forgot = {}
  /\ due = [p \in MockProjects |-> 0]
  /\ controlFaults \in 0..MaxControlFaults         \* what is left of both
  /\ controlRestarts \in 0..MaxControlRestarts

Listed == {m \in Mocks : box[m] \in {"up", "exited"}}     \* docker ps -a
Of(p) == {m \in Listed : home[m] = p}

(* A call to docker or fleet fails.                                        *)
Faulty == /\ controlFaults < MaxControlFaults
          /\ controlFaults' = controlFaults + 1
          /\ UNCHANGED controlRestarts
Fine == UNCHANGED budget

----------------------------------------------------------------------------
(* POST /mocks, for `count' more or for as many as `target' lacks: the lock.*)
EndsCall(s) == seeding' = [seeding EXCEPT ![s] = Answered]

Unlocked(p) == FALSE
Locked(p) == \E s \in Seeders : seeding[s].project = p /\ seeding[s].at \in {"provision", "run", "undo"}

Deficit(s) ==
  LET call == seeding[s]
      here == Cardinality(Of(call.project)) IN
  IF ~call.target THEN call.count ELSE IF call.count > here THEN call.count - here ELSE 0

(* The lock is free: the listing, and what it says of the target and the   *)
(* caps.                                                                   *)
Decided(s) ==
  LET p == seeding[s].project  n == Deficit(s) IN
  /\ seeding[s].at = "waiting" /\ ~Locked(p)
  /\ IF n = 0 \/ Cardinality(Listed) + n > TotalCap \/ Cardinality(Of(p)) + n > ProjectCap
       THEN EndsCall(s) /\ UNCHANGED due
       ELSE /\ seeding' = [seeding EXCEPT ![s].at = "provision", ![s].count = n]
            /\ due' = [due EXCEPT ![p] = IF seeding[s].target THEN Max({@, seeding[s].count})
                                                              ELSE @ + n]
  /\ UNCHANGED <<heavy, box, home, certs, clocks, sweep, deletion, late, broken, budget>>

(* Docker cannot be listed.                                                *)
DecideFails(s) ==
  /\ seeding[s].at = "waiting" /\ ~Locked(seeding[s].project)
  /\ EndsCall(s) /\ Faulty
  /\ UNCHANGED <<heavy, box, home, certs, clocks, sweep, deletion, late, due, broken>>

Unused == {m \in Mocks : box[m] = "none" /\ \A s \in Seeders : seeding[s].mock # m}

(* Fleet may have issued a certificate although its answer is lost.        *)
ProvisionMock(s) ==
  /\ seeding[s].at = "provision"
  /\ \E m \in Unused :
       /\ home[m] = seeding[s].project /\ m \notin certs
       /\ \/ /\ certs' = certs \cup {m}
             /\ seeding' = [seeding EXCEPT ![s].at = "run", ![s].mock = m]
             /\ Fine
          \/ /\ certs' \in {certs, certs \cup {m}}
             /\ EndsCall(s) /\ Faulty
  /\ UNCHANGED <<heavy, box, home, clocks, sweep, deletion, late, due, broken>>

(* `docker run' that fails or times out may still leave a container, now   *)
(* or later.                                                               *)
RunMock(s) ==
  LET m == seeding[s].mock IN
  /\ seeding[s].at = "run"
  /\ \/ /\ box' = [box EXCEPT ![m] = "up"]
        /\ IF seeding[s].count = 1
             THEN EndsCall(s)
             ELSE seeding' = [seeding EXCEPT ![s].at = "provision", ![s].count = @ - 1, ![s].mock = NoMock]
        /\ Fine /\ UNCHANGED late
     \/ /\ box' \in {[box EXCEPT ![m] = x] : x \in {"none", "starting"}}
        /\ late' = IF box'[m] = "starting" THEN late \cup {m} ELSE late
        /\ seeding' = [seeding EXCEPT ![s].at = "undo"]
        /\ Faulty
  /\ UNCHANGED <<heavy, home, certs, clocks, sweep, deletion, due, broken>>

Undo(s) ==
  /\ seeding[s].at = "undo"
  /\ \/ certs' = certs \ {seeding[s].mock} /\ Fine
     \/ UNCHANGED certs /\ Faulty
  /\ EndsCall(s)
  /\ UNCHANGED <<heavy, box, home, clocks, sweep, deletion, late, due, broken>>

----------------------------------------------------------------------------
(* Docker, time, browsers, users of a mock.                                *)
StartsLate(m) ==
  /\ box[m] = "starting"
  /\ box' = [box EXCEPT ![m] = "up"]
  /\ UNCHANGED <<heavy, home, certs, clocks, seeding, sweep, deletion, late, due, broken, budget>>

Exits(m) ==
  /\ box[m] = "up"
  /\ box' = [box EXCEPT ![m] = "exited"]
  /\ UNCHANGED <<heavy, home, certs, clocks, seeding, sweep, deletion, late, due, broken, budget>>

LabelRunsOut(m) ==
  /\ box[m] = "up" /\ ~labelOver[m]
  /\ labelOver' = [labelOver EXCEPT ![m] = TRUE]
  /\ UNCHANGED <<heavy, box, home, certs, lease, online, promised, forgot, seeding, sweep, deletion,
                 late, due, broken, budget>>

Renew(m) ==
  /\ heavy /\ box[m] = "up" /\ lease[m] # "live"
  /\ lease' = [lease EXCEPT ![m] = "live"]
  /\ promised' = [promised EXCEPT ![m] = TRUE]
  /\ UNCHANGED <<heavy, box, home, certs, labelOver, online, forgot, seeding, sweep, deletion, late,
                 due, broken, budget>>

LeaseRunsOut(m) ==
  /\ promised[m]
  /\ promised' = [promised EXCEPT ![m] = FALSE]
  /\ lease' = [lease EXCEPT ![m] = IF @ = "live" THEN "over" ELSE @]
  /\ UNCHANGED <<heavy, box, home, certs, labelOver, online, forgot, seeding, sweep, deletion, late,
                 due, broken, budget>>

Ping(p) ==
  /\ ~heavy
  /\ online' = IF p \in online THEN online \ {p} ELSE online \cup {p}   \* or its window ends
  /\ UNCHANGED <<heavy, box, home, certs, labelOver, lease, promised, forgot, seeding, sweep, deletion,
                 late, due, broken, budget>>

----------------------------------------------------------------------------
(* DELETE /mocks/{id}: kill_and_rm, which raises when the container stays, *)
(* then the certificate.                                                   *)
Removes(m) ==
  /\ box' = [box EXCEPT ![m] = "gone"]
  /\ labelOver' = [labelOver EXCEPT ![m] = FALSE]
  /\ promised' = [promised EXCEPT ![m] = FALSE]
  /\ late' = late \ {m} /\ broken' = broken \ {m} /\ forgot' = forgot \ {m}

Delete(m) ==
  /\ m \in Listed /\ deletion[m] = "no"
  /\ Removes(m)
  /\ deletion' = [deletion EXCEPT ![m] = "certs"]
  /\ UNCHANGED <<heavy, home, certs, lease, online, seeding, sweep, due, budget>>

DeleteCerts(m) ==
  /\ deletion[m] = "certs"
  /\ deletion' = [deletion EXCEPT ![m] = "no"]
  /\ \/ certs' = certs \ {m} /\ Fine
     \/ UNCHANGED certs /\ Faulty
  /\ UNCHANGED <<heavy, box, home, clocks, seeding, sweep, late, due, broken>>

----------------------------------------------------------------------------
(* The reaper.                                                             *)
LeaseOnly(m) == lease[m] = "over"
ShouldReap(m) ==
  IF heavy THEN IF lease[m] = "none" THEN labelOver[m] ELSE lease[m] = "over"
           ELSE home[m] \notin online /\ labelOver[m]

SweepLists ==
  /\ sweep.at = "idle" /\ Listed # {}
  /\ sweep' = [at |-> "listed", todo |-> {<<m, box[m]>> : m \in Listed}, mock |-> NoMock]
  /\ UNCHANGED <<heavy, box, home, certs, clocks, seeding, deletion, late, due, broken, budget>>

(* Leases are dropped of the ids that the listing does not name.           *)
Prune ==
  LET named == {x[1] : x \in sweep.todo} IN
  /\ sweep.at = "listed"
  /\ sweep' = [sweep EXCEPT !.at = "walk"]
  /\ lease' = [m \in Mocks |-> IF m \in named THEN lease[m] ELSE "none"]
  /\ forgot' = forgot \cup {m \in Mocks \ named : lease[m] # "none" /\ box[m] = "up"}
  /\ UNCHANGED <<heavy, box, home, certs, labelOver, online, promised, seeding, deletion, late,
                 due, broken, budget>>

Walk ==
  /\ sweep.at = "walk" /\ sweep.todo # {}
  /\ \E x \in sweep.todo :
       LET m == x[1]  dead == x[2] = "exited" IN
       IF dead \/ ShouldReap(m)
         THEN /\ sweep' = [sweep EXCEPT !.at = "kill", !.todo = @ \ {x}, !.mock = m]
              /\ broken' = IF promised[m] /\ ~dead THEN broken \cup {m} ELSE broken
         ELSE /\ sweep' = [sweep EXCEPT !.todo = @ \ {x}]
              /\ UNCHANGED broken
  /\ UNCHANGED <<heavy, box, home, certs, clocks, seeding, deletion, late, due, budget>>

SweepOver ==
  /\ sweep.at = "walk" /\ sweep.todo = {}
  /\ sweep' = NoSweep
  /\ UNCHANGED <<heavy, box, home, certs, clocks, seeding, deletion, late, due, broken, budget>>

SweepKills ==
  /\ sweep.at = "kill"
  /\ Removes(sweep.mock)
  /\ sweep' = [sweep EXCEPT !.at = "certs"]
  /\ UNCHANGED <<heavy, home, certs, lease, online, seeding, deletion, due, budget>>

(* A container that stays ends the sweep, whoever comes after it.          *)
SweepStuck ==
  /\ sweep.at = "kill"
  /\ sweep' = NoSweep /\ Faulty
  /\ UNCHANGED <<heavy, box, home, certs, clocks, seeding, deletion, late, due, broken>>

SweepCerts ==
  /\ sweep.at = "certs"
  /\ \/ certs' = certs \ {sweep.mock} /\ Fine
     \/ UNCHANGED certs /\ Faulty
  /\ lease' = [lease EXCEPT ![sweep.mock] = "none"]
  /\ sweep' = [sweep EXCEPT !.at = "walk", !.mock = NoMock]
  /\ UNCHANGED <<heavy, box, home, labelOver, online, promised, forgot, seeding, deletion, late,
                 due, broken>>

(* Everything in memory goes; a `docker run' under way may still succeed.  *)
ControllerRestarts ==
  /\ controlRestarts < MaxControlRestarts
  /\ controlRestarts' = controlRestarts + 1
  /\ \E started \in SUBSET {m \in Mocks : \E s \in Seeders : seeding[s].at = "run" /\ seeding[s].mock = m} :
       /\ box' = [m \in Mocks |-> IF m \in started THEN "starting" ELSE box[m]]
       /\ late' = late \cup started
  /\ seeding' = [s \in Seeders |-> IF seeding[s].mock = NoMock THEN seeding[s] ELSE Answered]
  /\ sweep' = NoSweep /\ deletion' = [m \in Mocks |-> "no"]
  /\ forgot' = forgot \cup {m \in Mocks : lease[m] # "none"}
  /\ lease' = [m \in Mocks |-> "none"] /\ online' = {}
  /\ UNCHANGED <<heavy, home, labelOver, certs, promised, due, broken, controlFaults>>

----------------------------------------------------------------------------
SweepStep == SweepLists \/ Prune \/ Walk \/ SweepOver \/ SweepKills \/ SweepStuck \/ SweepCerts

ControllerNext ==
  \/ \E s \in Seeders : Decided(s) \/ DecideFails(s) \/ ProvisionMock(s) \/ RunMock(s) \/ Undo(s)
  \/ \E m \in Mocks : \/ StartsLate(m) \/ Exits(m) \/ LabelRunsOut(m) \/ Renew(m) \/ LeaseRunsOut(m)
                      \/ Delete(m) \/ DeleteCerts(m)
  \/ \E p \in MockProjects : Ping(p)
  \/ SweepStep \/ ControllerRestarts

ControllerSpec == ControllerInit /\ [][ControllerNext]_controllerVars

----------------------------------------------------------------------------
ControllerTypeOK ==
  /\ heavy \in BOOLEAN
  /\ box \in [Mocks -> {"none", "starting", "up", "exited", "gone"}]
  /\ home \in [Mocks -> MockProjects]
  /\ labelOver \in [Mocks -> BOOLEAN] /\ promised \in [Mocks -> BOOLEAN]
  /\ lease \in [Mocks -> {"none", "live", "over"}]
  /\ online \subseteq MockProjects
  /\ UNION {certs, late, broken, forgot} \subseteq Mocks
  /\ \A s \in Seeders : seeding[s].mock \in Mocks \cup {NoMock}
  /\ sweep.mock \in Mocks \cup {NoMock}
  /\ deletion \in [Mocks -> {"no", "certs"}]

(* However many calls seed a project at once, and however they are mixed,  *)
(* it has no more mocks than they ask for, nor than its cap, beside those  *)
(* whose `docker run' was given up (server.py:80-84, 149-150).             *)
SeedsConverge ==
  \A p \in MockProjects :
    Cardinality(Of(p) \ late) <= IF due[p] < ProjectCap THEN due[p] ELSE ProjectCap

(* A container that was reported as spawned has its certificate as long as *)
(* it runs, and a certificate outlives its container, or never gets one,   *)
(* only where a call failed or the controller restarted.                   *)
CertsFollow ==
  \A m \in Mocks :
    /\ box[m] \in {"up", "exited"} => m \in certs \/ m \in late
    /\ m \in certs /\ box[m] \in {"none", "gone"} =>
         \/ controlFaults > 0 \/ controlRestarts > 0
         \/ \E s \in Seeders : seeding[s].mock = m
         \/ deletion[m] = "certs" \/ (sweep.at = "certs" /\ sweep.mock = m)

(* The reaper goes at no mock whose lease was renewed and has not run out, *)
(* unless the lease was lost: to a restart, or because a sweep had listed  *)
(* the containers before the mock appeared and pruned the lease after it   *)
(* was renewed.                                                            *)
LeaseHonoured == broken \subseteq forgot

MocksSound == ControllerTypeOK /\ SeedsConverge /\ CertsFollow /\ LeaseHonoured

(* A mock that exited, or whose time is over, is torn down, unless it is   *)
(* kept by a lease or by somebody's presence.                              *)
MocksEnd ==
  \A m \in Mocks :
    /\ box[m] = "exited" ~> box[m] = "gone"
    /\ box[m] = "up" /\ labelOver[m] ~>
         box[m] = "gone" \/ lease[m] = "live" \/ home[m] \in online

=============================================================================
