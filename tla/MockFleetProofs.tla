-------------------------- MODULE MockFleetProofs ---------------------------
(***************************************************************************)
(* What a simulated board reports is true, and the mock controller spawns  *)
(* no more than it is asked for, keeps certificates and containers         *)
(* together and honours leases: for any versions, any faulty ones among    *)
(* them, any number of crashes and updates; and for any finite set of      *)
(* mocks, any callers and projects, caps, faults and restarts.             *)
(***************************************************************************)
EXTENDS MockDevice, MockController, FiniteSetTheorems, TLAPS

-----------------------------------------------------------------------------
(* The board.                                                              *)

(* An update still to be reported: a board that took it runs its version,  *)
(* one that refused it the version before; and until the boot that settles *)
(* it the record says it was taken.                                        *)
Settles ==
  otaNvs # Nothing =>
    /\ session \notin {"serving", "installing"}
    /\ HealthGateFails => version = otaNvs.previous
    /\ ~HealthGateFails => otaNvs.committed /\ version <= otaNvs.version
    /\ session # "off" => IF HealthGateFails THEN ~otaNvs.committed ELSE version = otaNvs.version

(* What is being installed is no older than what runs.                     *)
Installs ==
  session = "installing" =>
    /\ download \in [version : MockVersions, artifact : Sketches \cup {Nothing}]
    /\ version <= download.version

(* A fault is the sketch's own, or came from outside, or was renamed by    *)
(* the timer for the version that still runs.                              *)
FaultIsOwned ==
  fault # Nothing => IF fault.source = "firmware" THEN held.faulty
                     ELSE injected \/ fault.fixedAfter = version

MockInv == MockSound /\ Settles /\ Installs /\ FaultIsOwned


(* The invariant holds at the first power-on.                              *)
LEMMA MockStarts == MockInit => MockInv
  <1> SUFFICES ASSUME MockInit PROVE MockInv OBVIOUS
  <1> USE MockAssumption DEF MockInit
  <1>1. MockTypeOK
    <2>1. held \in Sketches BY DEF Sketches
    <2>2. updates \in 0..MaxMockUpdates /\ dropped \in 0..MaxMockDrops OBVIOUS
    <2>3. crashCount \in 0..MaxMockCrashes /\ reportedCrash \in 0..MaxMockCrashes OBVIOUS
    <2> QED BY <2>1, <2>2, <2>3 DEF MockTypeOK
  <1>2. ReportsTruthful /\ CodeDecides BY DEF ReportsTruthful, MockResultsTruthful,
      CrashesReported, CodeDecides
  <1>3. Settles /\ Installs /\ FaultIsOwned BY DEF Settles, Installs, FaultIsOwned
  <1> QED BY <1>1, <1>2, <1>3 DEF MockInv, MockSound

(* A boot settles the update: it takes it, or goes back to the version     *)
(* before. It never leaves a fault that neither its sketch, nor the world  *)
(* outside, nor the version that runs accounts for (_apply_pending_ota,    *)
(* _sync_fault_from_firmware).                                             *)
LEMMA BootSettles ==
  ASSUME MockInv, Boot
  PROVE  /\ version' \in MockVersions /\ held' \in Sketches
         /\ fault' \in [fixedAfter : MockVersions \cup {0}, source : {"inject", "firmware"}] \cup
             {Nothing}
         /\ otaNvs' \in [version : MockVersions, previous : MockVersions, committed : BOOLEAN]
             \cup {Nothing}
         /\ Settles'
         /\ FaultIsOwned'
  <1> USE MockAssumption DEF MockInv, MockSound, Boot
  <1>1. held' \in Sketches BY DEF MockTypeOK, BootSketch, Sketches
  <1>2. otaNvs' \in [version : MockVersions, previous : MockVersions, committed : BOOLEAN] \cup
      {Nothing}
    BY DEF MockTypeOK, HealthGateFails
  <1>3. version' \in MockVersions BY DEF MockTypeOK, BootVersion, HealthGateFails
  <1>4. fault' \in [fixedAfter : MockVersions \cup {0}, source : {"inject", "firmware"}] \cup
      {Nothing}
    BY DEF MockTypeOK, SyncFault, CuredByVersion
  <1>5. Settles'
    <2>1. CASE otaNvs = Nothing BY <2>1 DEF HealthGateFails, Settles
    <2>2. CASE otaNvs # Nothing /\ HealthGateFails
      <3>1. /\ version' = otaNvs.previous /\ session' = "connecting"
            /\ otaNvs' = [version |-> otaNvs.version, previous |-> otaNvs.previous, committed |->
                FALSE]
        BY <2>2 DEF BootVersion, MockTypeOK
      <3> QED BY <2>2, <3>1 DEF Settles, HealthGateFails
    <2>3. CASE otaNvs # Nothing /\ ~HealthGateFails
      <3>1. version' = otaNvs.version /\ session' = "connecting" /\ otaNvs' = otaNvs /\
          otaNvs.version \in Nat
        BY <2>3 DEF BootVersion, MockTypeOK
      <3> QED BY <2>3, <3>1 DEF Settles, HealthGateFails
    <2> QED BY <2>1, <2>2, <2>3
  <1>6. FaultIsOwned'
    <2> DEFINE f == IF CuredByVersion THEN Nothing ELSE fault
    <2>1. fault' = SyncFault(f) /\ held' = BootSketch OBVIOUS
    <2>2. CASE BootSketch.faulty BY <2>1, <2>2 DEF SyncFault, FaultIsOwned
    <2>3. CASE ~BootSketch.faulty /\ fault' # Nothing
      <3>1. fault' = fault /\ fault # Nothing /\ fault.source = "inject" /\ ~CuredByVersion
        BY <2>1, <2>3 DEF SyncFault, MockTypeOK
      <3>2. injected' = injected BY <3>1 DEF MockTypeOK
      <3>3. CASE injected BY <3>1, <3>2, <3>3 DEF FaultIsOwned
      <3>4. CASE ~injected
        <4>1. fault.fixedAfter = version BY <3>1, <3>4 DEF FaultIsOwned
        <4>2. CASE otaNvs = Nothing BY <3>1, <4>1, <4>2 DEF BootVersion, HealthGateFails,
            FaultIsOwned
        <4>3. CASE otaNvs # Nothing /\ HealthGateFails BY <3>1, <4>1, <4>3 DEF BootVersion,
            Settles, FaultIsOwned
        <4>4. CASE otaNvs # Nothing /\ ~HealthGateFails
          <5>1. BootVersion <= fault.fixedAfter /\ version <= BootVersion
            BY <3>1, <4>4 DEF BootVersion, CuredByVersion, Settles, MockTypeOK
          <5>2. version \in Nat /\ BootVersion \in Nat BY <1>3 DEF MockTypeOK
          <5> QED BY <3>1, <4>1, <5>1, <5>2 DEF FaultIsOwned
        <4> QED BY <4>2, <4>3, <4>4
      <3> QED BY <3>3, <3>4
    <2>4. CASE fault' = Nothing BY <2>4 DEF FaultIsOwned
    <2> QED BY <2>2, <2>3, <2>4
  <1> QED BY <1>1, <1>2, <1>3, <1>4, <1>5, <1>6

(* Every step of a session keeps the invariant.                            *)
LEMMA MockSteps ==
  ASSUME MockInv, [MockNext]_mockVars
  PROVE  MockInv'
  <1> USE MockAssumption DEF MockNext, mockVars, AnnounceOnline, CheckAndReport, CheckPendingResult,
        LoseResult, LoseSession, Recrash, RandomCrash, CrashCommand, OtherCommand, DownloadFails,
            Stage,
        RejectOta, HandleOta, AcceptsUpdate, Inject, EndOfHandle, flashVars, crashVars, ghosts, Boot
  <1> USE DEF MockInv, MockSound
  <1>1. MockTypeOK'
    <2> USE DEF MockTypeOK
    <2>1. (session \in {"off", "connecting", "crash_report", "ota_result", "serving",
        "installing"})' OBVIOUS
    <2>2. (rebootSet \in BOOLEAN)' OBVIOUS
    <2>3. (recrash \in BOOLEAN)' OBVIOUS
    <2>4. (injected \in BOOLEAN)' OBVIOUS
    <2>5. (version \in MockVersions)' BY BootSettles
    <2>6. (held \in Sketches)' BY BootSettles
    <2>7. (staged \in Sketches \cup {Nothing})'
      <3>1. CASE Stage BY <3>1 DEF Installs
      <3>2. CASE ~Stage BY <3>2
      <3> QED BY <3>1, <3>2
    <2>8. (otaNvs \in [version : MockVersions, previous : MockVersions, committed : BOOLEAN] \cup
        {Nothing})'
      <3>1. CASE Stage
        <4>1. download.version \in MockVersions /\ version \in MockVersions BY <3>1 DEF Installs
        <4>2. otaNvs' = [version |-> download.version, previous |-> version, committed |-> TRUE]
            BY <3>1
        <4> QED BY <4>1, <4>2
      <3>2. CASE Boot BY <3>2, BootSettles
      <3>3. CASE ~Stage /\ ~Boot
        <4>1. otaNvs' = otaNvs \/ otaNvs' = Nothing BY <3>3
        <4> QED BY <4>1
      <3> QED BY <3>1, <3>2, <3>3
    <2>9. (fault \in [fixedAfter : MockVersions \cup {0}, source : {"inject", "firmware"}] \cup
        {Nothing})'
      <3>1. CASE Boot BY <3>1, BootSettles
      <3>2. CASE ~Boot
        <4>1. fault' = fault \/ fault' = [fixedAfter |-> version, source |-> "inject"] BY <3>2
        <4> QED BY <4>1
      <3> HIDE DEF Boot
      <3> QED BY <3>1, <3>2
    <2>10. (crashFlag \in BOOLEAN)' OBVIOUS
    <2>11. (crashCount \in 0..MaxMockCrashes)' OBVIOUS
    <2>12. (download \in [version : MockVersions, artifact : Sketches \cup {Nothing}] \cup
        {Nothing})' OBVIOUS
    <2>13. (updates \in 0..MaxMockUpdates)' OBVIOUS
    <2>14. (dropped \in 0..MaxMockDrops)' OBVIOUS
    <2>15. (reportedCrash \in 0..MaxMockCrashes)' OBVIOUS
    <2>16. (results \subseteq [version : MockVersions, committed : BOOLEAN, running :
        MockVersions, before : MockVersions])' OBVIOUS
    <2> QED BY <2>1, <2>2, <2>3, <2>4, <2>5, <2>6, <2>7, <2>8, <2>9, <2>10, <2>11, <2>12, <2>13,
        <2>14, <2>15, <2>16
  <1>2. MockResultsTruthful'
    BY DEF ReportsTruthful, MockResultsTruthful, Settles, HealthGateFails
  <1>3. CrashesReported'
    BY DEF ReportsTruthful, CrashesReported, MockTypeOK
  <1>4. Settles'
    <2>1. CASE Boot BY <2>1, BootSettles
    <2>2. CASE Stage
      BY <2>2 DEF Settles, Installs, HealthGateFails
    <2>3. CASE ~Boot /\ ~Stage BY <2>3 DEF Settles, HealthGateFails, MockTypeOK
    <2> QED BY <2>1, <2>2, <2>3
  <1>5. Installs' BY DEF Installs, MockTypeOK
  <1>6. FaultIsOwned'
    <2>1. CASE Boot BY <2>1, BootSettles
    <2>2. CASE ~Boot BY <2>2 DEF FaultIsOwned, MockTypeOK
    <2> QED BY <2>1, <2>2
  <1>7. CodeDecides' BY <1>6 DEF CodeDecides, FaultIsOwned
  <1> QED BY <1>1, <1>2, <1>3, <1>4, <1>5, <1>6, <1>7 DEF ReportsTruthful

(* The inductive invariant, of every behaviour of the simulated board:     *)
(* what a boot settles stays settled through every reconnection until the  *)
(* result is published, and a download is no older than what runs          *)
(* (device.py, ota.py).                                                    *)
THEOREM MockHolds == MockSpec => []MockInv
  <1>1. MockInit => MockInv BY MockStarts
  <1>2. MockInv /\ [MockNext]_mockVars => MockInv' BY MockSteps
  <1> QED BY <1>1, <1>2, PTL DEF MockSpec

(* What a board reports of its updates and of its crashes is true, and a   *)
(* board whose code has no fault does not keep crashing                    *)
(* (device.py:166-192, crash.py:54-66).                                    *)
THEOREM MockIsSound == MockSpec => []MockSound
  <1>1. MockInv => MockSound BY DEF MockInv
  <1> QED BY <1>1, MockHolds, PTL

-----------------------------------------------------------------------------
(* The controller.                                                         *)

Boxes == {"none", "starting", "up", "exited", "gone"}

(* What the variables are made of, as far as the argument looks at them.   *)
Shape ==
  /\ box \in [Mocks -> Boxes]
  /\ promised \in [Mocks -> BOOLEAN]
  /\ lease \in [Mocks -> {"none", "live", "over"}]
  /\ DOMAIN seeding = Seeders
  /\ \A s \in Seeders :
       seeding[s] = [at |-> seeding[s].at, project |-> seeding[s].project, count |-> seeding[s].count,
                     target |-> seeding[s].target, mock |-> seeding[s].mock]
  /\ sweep = [at |-> sweep.at, todo |-> sweep.todo, mock |-> sweep.mock]
  /\ sweep.todo \subseteq Mocks \X {"up", "exited"}

(* Only what docker shows is leased, and what is about to run is not there.*)
Running ==
  /\ \A m \in Mocks : promised[m] => box[m] \in {"up", "exited"}
  /\ \A s \in Seeders : seeding[s].at = "run" => /\ seeding[s].mock \in Mocks
                                                 /\ box[seeding[s].mock] = "none"
  /\ \A s, t \in Seeders : s # t /\ seeding[s].mock = seeding[t].mock => seeding[s].mock = NoMock
  /\ \A x \in sweep.todo : box[x[1]] \in {"up", "exited", "gone"}
  /\ sweep.at \in {"kill", "certs"} => sweep.mock \in Mocks
  /\ sweep.at = "kill" => box[sweep.mock] \in {"up", "exited", "gone"}
  /\ sweep.at = "certs" => box[sweep.mock] = "gone"

(* A promise is in the store, or was lost with the mock running, or its    *)
(* mock exited and no sweep under way takes it for one that runs.          *)
Kept ==
  \A m \in Mocks : promised[m] =>
    /\ heavy
    /\ \/ lease[m] = "live"
       \/ m \in forgot
       \/ box[m] = "exited" /\ <<m, "up">> \notin sweep.todo

LeaseInv == Shape /\ Running /\ Kept /\ LeaseHonoured

LEMMA LeaseInvInit == ControllerInit => LeaseInv
  <1> SUFFICES ASSUME ControllerInit PROVE LeaseInv  OBVIOUS
  <1> USE DEF ControllerInit, Asked, Answered, NoSweep
  <1>1. Shape
    <2>1. \A s \in Seeders :
            seeding[s] = [at |-> seeding[s].at, project |-> seeding[s].project,
                          count |-> seeding[s].count, target |-> seeding[s].target,
                          mock |-> seeding[s].mock]
      OBVIOUS
    <2>2. QED  BY <2>1 DEF Shape, Boxes
  <1>2. Running
    <2>1. \A s \in Seeders : seeding[s].mock = NoMock /\ seeding[s].at # "run"  OBVIOUS
    <2>2. QED  BY <2>1 DEF Running
  <1>3. Kept /\ LeaseHonoured  BY DEF Kept, LeaseHonoured
  <1>4. QED  BY <1>1, <1>2, <1>3 DEF LeaseInv

LEMMA LeaseInvStep == LeaseInv /\ [ControllerNext]_controllerVars => LeaseInv'
  <1> SUFFICES ASSUME LeaseInv, [ControllerNext]_controllerVars PROVE LeaseInv'
    OBVIOUS
  <1> USE ControllerAssumption
  <1> USE DEF LeaseInv
  <1>1. ASSUME NEW s \in Seeders, Decided(s) \/ DecideFails(s) PROVE LeaseInv'
    <2>1. /\ DOMAIN seeding' = Seeders
          /\ \A t \in Seeders : t # s => seeding'[t] = seeding[t]
          /\ seeding'[s].at \in {"answered", "provision"}
          /\ seeding'[s].mock \in {NoMock, seeding[s].mock}
          /\ seeding'[s] = [at |-> seeding'[s].at, project |-> seeding'[s].project,
                           count |-> seeding'[s].count, target |-> seeding'[s].target,
                           mock |-> seeding'[s].mock]
          /\ UNCHANGED <<heavy, box, lease, promised, sweep, broken, forgot>>
      BY <1>1 DEF Decided, DecideFails, EndsCall, Answered, Shape, clocks
    <2>2. Shape'  BY <2>1 DEF Shape
    <2>3. Running'  BY <2>1 DEF Running
    <2>4. QED  BY <2>1, <2>2, <2>3 DEF Kept, LeaseHonoured
  <1>2. ASSUME NEW s \in Seeders, ProvisionMock(s) PROVE LeaseInv'
    <2>1. PICK m \in Unused :
            \/ seeding' = [seeding EXCEPT ![s].at = "run", ![s].mock = m]
            \/ EndsCall(s)
      BY <1>2 DEF ProvisionMock
    <2>2. UNCHANGED <<heavy, box, lease, promised, sweep, broken, forgot>>
      BY <1>2 DEF ProvisionMock, clocks
    <2>3. /\ DOMAIN seeding' = Seeders
          /\ \A t \in Seeders : t # s => seeding'[t] = seeding[t]
          /\ \/ seeding'[s].at = "run" /\ seeding'[s].mock = m
             \/ seeding'[s].at = "answered" /\ seeding'[s].mock = NoMock
          /\ seeding'[s] = [at |-> seeding'[s].at, project |-> seeding'[s].project,
                           count |-> seeding'[s].count, target |-> seeding'[s].target,
                           mock |-> seeding'[s].mock]
      BY <2>1 DEF EndsCall, Answered, Shape
    <2>4. Shape'  BY <2>2, <2>3 DEF Shape
    <2>5. Running'  BY <2>2, <2>3 DEF Running, Unused
    <2>6. QED  BY <2>2, <2>4, <2>5 DEF Kept, LeaseHonoured
  <1>3. ASSUME NEW s \in Seeders, RunMock(s) PROVE LeaseInv'
    <2> DEFINE m == seeding[s].mock
    <2>1. /\ seeding[s].at = "run" /\ m \in Mocks /\ box[m] = "none"
          /\ ~promised[m] /\ m # NoMock
      BY <1>3 DEF RunMock, Running, Shape
    <2>2. /\ \E b \in {"none", "starting", "up"} : box' = [box EXCEPT ![m] = b]
          /\ UNCHANGED <<heavy, lease, promised, sweep, broken, forgot>>
      BY <1>3, <2>1 DEF RunMock, clocks, Shape
    <2>3. /\ DOMAIN seeding' = Seeders
          /\ \A t \in Seeders : t # s => seeding'[t] = seeding[t]
          /\ seeding'[s].at # "run"
          /\ seeding'[s].mock \in {NoMock, m}
          /\ seeding'[s] = [at |-> seeding'[s].at, project |-> seeding'[s].project,
                           count |-> seeding'[s].count, target |-> seeding'[s].target,
                           mock |-> seeding'[s].mock]
      BY <1>3 DEF RunMock, EndsCall, Answered, Shape
    <2>4. Shape'  BY <2>1, <2>2, <2>3 DEF Shape, Boxes
    <2>5. Running'  BY <2>1, <2>2, <2>3 DEF Running, Shape
    <2>6. Kept'  BY <2>1, <2>2 DEF Kept, Shape
    <2>7. QED  BY <2>2, <2>4, <2>5, <2>6 DEF LeaseHonoured
  <1>4. ASSUME NEW s \in Seeders, Undo(s) PROVE LeaseInv'
    <2>1. /\ DOMAIN seeding' = Seeders
          /\ \A t \in Seeders : t # s => seeding'[t] = seeding[t]
          /\ seeding'[s] = Answered
          /\ UNCHANGED <<heavy, box, lease, promised, sweep, broken, forgot>>
      BY <1>4 DEF Undo, EndsCall, Shape, clocks
    <2>2. Shape'  BY <2>1 DEF Shape, Answered
    <2>3. Running'  BY <2>1 DEF Running, Answered
    <2>4. QED  BY <2>1, <2>2, <2>3 DEF Kept, LeaseHonoured
  <1>5. ASSUME NEW m \in Mocks, StartsLate(m) \/ Exits(m) PROVE LeaseInv'
    <2>1. /\ \/ box[m] = "starting" /\ box' = [box EXCEPT ![m] = "up"]
             \/ box[m] = "up" /\ box' = [box EXCEPT ![m] = "exited"]
          /\ UNCHANGED <<heavy, lease, promised, seeding, sweep, broken, forgot>>
      BY <1>5 DEF StartsLate, Exits, clocks
    <2>2. Shape'  BY <2>1 DEF Shape, Boxes
    <2>3. Running'  BY <2>1 DEF Running, Shape
    <2>4. Kept'  BY <2>1 DEF Kept, Running, Shape
    <2>5. QED  BY <2>1, <2>2, <2>3, <2>4 DEF LeaseHonoured
  <1>6. ASSUME NEW m \in Mocks, LabelRunsOut(m) \/ DeleteCerts(m) PROVE LeaseInv'
    <2>1. UNCHANGED <<heavy, box, lease, promised, seeding, sweep, broken, forgot>>
      BY <1>6 DEF LabelRunsOut, DeleteCerts, clocks
    <2>2. QED  BY <2>1 DEF Shape, Running, Kept, LeaseHonoured
  <1>7. ASSUME NEW p \in MockProjects, Ping(p) PROVE LeaseInv'
    <2>1. UNCHANGED <<heavy, box, lease, promised, seeding, sweep, broken, forgot>>
      BY <1>7 DEF Ping
    <2>2. QED  BY <2>1 DEF Shape, Running, Kept, LeaseHonoured
  <1>8. ASSUME NEW m \in Mocks, Renew(m) \/ LeaseRunsOut(m) PROVE LeaseInv'
    <2>1. UNCHANGED <<heavy, box, seeding, sweep, broken, forgot>>
      BY <1>8 DEF Renew, LeaseRunsOut
    <2>2. Shape'  BY <1>8, <2>1 DEF Shape, Renew, LeaseRunsOut
    <2>3. Running'  BY <1>8, <2>1 DEF Running, Shape, Renew, LeaseRunsOut
    <2>4. Kept'  BY <1>8, <2>1 DEF Kept, Shape, Renew, LeaseRunsOut
    <2>5. QED  BY <2>1, <2>2, <2>3, <2>4 DEF LeaseHonoured
  <1>9. ASSUME NEW m \in Mocks, Delete(m) \/ (SweepKills /\ m = sweep.mock) PROVE LeaseInv'
    <2>1. /\ box[m] \in {"up", "exited", "gone"}
          /\ Removes(m)
          /\ UNCHANGED <<heavy, lease, seeding>>
          /\ sweep' = sweep \/ (sweep.at = "kill" /\ m = sweep.mock
                                /\ sweep' = [sweep EXCEPT !.at = "certs"])
      BY <1>9 DEF Delete, SweepKills, Listed, Running
    <2>2. /\ box' = [box EXCEPT ![m] = "gone"]
          /\ promised' = [promised EXCEPT ![m] = FALSE]
          /\ broken' = broken \ {m} /\ forgot' = forgot \ {m}
      BY <2>1 DEF Removes
    <2>3. Shape'  BY <2>1, <2>2 DEF Shape, Boxes
    <2>4. Running'
      <3>1. /\ sweep'.todo = sweep.todo /\ sweep'.mock = sweep.mock
            /\ sweep'.at = sweep.at \/ (sweep'.at = "certs" /\ m = sweep.mock)
        BY <2>1 DEF Shape
      <3>2. QED  BY <2>1, <2>2, <3>1 DEF Running, Shape
    <2>5. Kept'
      <3>1. sweep'.todo = sweep.todo  BY <2>1 DEF Shape
      <3>2. QED  BY <2>1, <2>2, <3>1 DEF Kept, Shape
    <2>6. LeaseHonoured'  BY <2>2 DEF LeaseHonoured
    <2>7. QED  BY <2>3, <2>4, <2>5, <2>6
  <1>10. ASSUME SweepLists PROVE LeaseInv'
    <2>1. /\ sweep' = [at |-> "listed", todo |-> {<<m, box[m]>> : m \in Listed}, mock |-> NoMock]
          /\ UNCHANGED <<heavy, box, lease, promised, seeding, broken, forgot>>
      BY <1>10 DEF SweepLists, clocks
    <2>2. \A x \in sweep'.todo : \E m \in Mocks : x = <<m, box[m]>> /\ box[m] \in {"up", "exited"}
      BY <2>1 DEF Listed
    <2>3. Shape'  BY <2>1, <2>2 DEF Shape
    <2>4. Running'  BY <2>1, <2>2 DEF Running
    <2>5. Kept'  BY <2>1, <2>2 DEF Kept
    <2>6. QED  BY <2>1, <2>3, <2>4, <2>5 DEF LeaseHonoured
  <1>11. ASSUME Prune PROVE LeaseInv'
    <2> DEFINE named == {x[1] : x \in sweep.todo}
    <2>1. /\ sweep.at = "listed" /\ sweep' = [sweep EXCEPT !.at = "walk"]
          /\ lease' = [m \in Mocks |-> IF m \in named THEN lease[m] ELSE "none"]
          /\ forgot' = forgot \cup {m \in Mocks \ named : lease[m] # "none" /\ box[m] = "up"}
          /\ UNCHANGED <<heavy, box, promised, seeding, broken>>
      BY <1>11 DEF Prune
    <2>2. sweep'.todo = sweep.todo /\ sweep'.at = "walk"  BY <2>1 DEF Shape
    <2>3. Shape'  BY <2>1 DEF Shape
    <2>4. Running'  BY <2>1, <2>2 DEF Running
    <2>5. Kept'
      <3> SUFFICES ASSUME NEW m \in Mocks, promised'[m]
                   PROVE /\ heavy'
                         /\ \/ lease'[m] = "live"
                            \/ m \in forgot'
                            \/ box'[m] = "exited" /\ <<m, "up">> \notin sweep'.todo
        BY DEF Kept
      <3>1. promised[m] /\ box[m] \in {"up", "exited"}  BY <2>1 DEF Running
      <3>2. CASE m \in named  BY <2>1, <2>2, <3>1, <3>2 DEF Kept
      <3>3. CASE m \notin named
        <4>1. <<m, "up">> \notin sweep.todo
          <5>1. SUFFICES ASSUME <<m, "up">> \in sweep.todo PROVE FALSE  OBVIOUS
          <5>2. <<m, "up">>[1] \in named  BY <5>1
          <5>3. QED  BY <5>2, <3>3
        <4>2. QED  BY <2>1, <2>2, <3>1, <3>3, <4>1 DEF Kept
      <3>4. QED  BY <3>2, <3>3
    <2>6. QED  BY <2>1, <2>3, <2>4, <2>5 DEF LeaseHonoured
  <1>12. ASSUME Walk PROVE LeaseInv'
    <2>1. /\ sweep.at = "walk"
          /\ UNCHANGED <<heavy, box, lease, promised, seeding, forgot>>
      BY <1>12 DEF Walk, clocks
    <2>2. PICK x \in sweep.todo :
            IF x[2] = "exited" \/ ShouldReap(x[1])
              THEN /\ sweep' = [sweep EXCEPT !.at = "kill", !.todo = @ \ {x}, !.mock = x[1]]
                   /\ broken' = IF promised[x[1]] /\ x[2] # "exited" THEN broken \cup {x[1]} ELSE broken
              ELSE /\ sweep' = [sweep EXCEPT !.todo = @ \ {x}]
                   /\ UNCHANGED broken
      BY <1>12 DEF Walk
    <2>3. /\ x[1] \in Mocks /\ x[2] \in {"up", "exited"} /\ x = <<x[1], x[2]>>
          /\ box[x[1]] \in {"up", "exited", "gone"}
      BY DEF Shape, Running
    <2>4. /\ sweep'.todo = sweep.todo \ {x}
          /\ sweep'.at = "walk" \/ (sweep'.at = "kill" /\ sweep'.mock = x[1])
          /\ sweep' = [at |-> sweep'.at, todo |-> sweep'.todo, mock |-> sweep'.mock]
      BY <2>1, <2>2 DEF Shape
    <2>5. Shape'  BY <2>1, <2>4 DEF Shape
    <2>6. Running'  BY <2>1, <2>3, <2>4 DEF Running
    <2>7. Kept'  BY <2>1, <2>4 DEF Kept
    <2>8. ASSUME x[2] # "exited", ShouldReap(x[1]), promised[x[1]] PROVE x[1] \in forgot
      <3>1. heavy /\ <<x[1], "up">> \in sweep.todo  BY <2>3, <2>8 DEF Kept
      <3>2. lease[x[1]] # "live"  BY <3>1, <2>8 DEF ShouldReap
      <3>3. QED  BY <2>3, <2>8, <3>1, <3>2 DEF Kept
    <2>9. LeaseHonoured'  BY <2>1, <2>2, <2>8 DEF LeaseHonoured
    <2>10. QED  BY <2>5, <2>6, <2>7, <2>9
  <1>13. ASSUME SweepOver \/ SweepStuck PROVE LeaseInv'
    <2>1. /\ sweep' = NoSweep
          /\ UNCHANGED <<heavy, box, lease, promised, seeding, broken, forgot>>
      BY <1>13 DEF SweepOver, SweepStuck, clocks
    <2>2. QED  BY <2>1 DEF Shape, Running, Kept, LeaseHonoured, NoSweep
  <1>14. ASSUME SweepCerts PROVE LeaseInv'
    <2>1. /\ sweep.at = "certs" /\ sweep' = [sweep EXCEPT !.at = "walk", !.mock = NoMock]
          /\ lease' = [lease EXCEPT ![sweep.mock] = "none"]
          /\ UNCHANGED <<heavy, box, promised, seeding, broken, forgot>>
      BY <1>14 DEF SweepCerts
    <2>2. sweep'.todo = sweep.todo /\ sweep'.at = "walk"  BY <2>1 DEF Shape
    <2>3. ~promised[sweep.mock] /\ sweep.mock \in Mocks  BY <2>1 DEF Running
    <2>4. Shape'  BY <2>1 DEF Shape
    <2>5. Running'  BY <2>1, <2>2 DEF Running
    <2>6. Kept'  BY <2>1, <2>2, <2>3 DEF Kept, Shape
    <2>7. QED  BY <2>1, <2>4, <2>5, <2>6 DEF LeaseHonoured
  <1>15. ASSUME ControllerRestarts PROVE LeaseInv'
    <2>1. PICK started \in SUBSET {m \in Mocks : \E s \in Seeders :
                                             seeding[s].at = "run" /\ seeding[s].mock = m} :
            box' = [m \in Mocks |-> IF m \in started THEN "starting" ELSE box[m]]
      BY <1>15 DEF ControllerRestarts
    <2>2. /\ seeding' = [s \in Seeders |-> IF seeding[s].mock = NoMock THEN seeding[s] ELSE Answered]
          /\ sweep' = NoSweep
          /\ forgot' = forgot \cup {m \in Mocks : lease[m] # "none"}
          /\ lease' = [m \in Mocks |-> "none"]
          /\ UNCHANGED <<heavy, promised, broken>>
      BY <1>15 DEF ControllerRestarts
    <2>3. \A m \in started : box[m] = "none" /\ ~promised[m]  BY <2>1 DEF Running
    <2>4. Shape'  BY <2>1, <2>2 DEF Shape, Boxes, NoSweep, Answered
    <2>5. Running'  BY <2>1, <2>2, <2>3 DEF Running, Shape, NoSweep, Answered
    <2>6. Kept'  BY <2>1, <2>2, <2>3 DEF Kept, Shape, NoSweep
    <2>7. QED  BY <2>2, <2>4, <2>5, <2>6 DEF LeaseHonoured
  <1>16. CASE UNCHANGED controllerVars
    BY <1>16 DEF controllerVars, Shape, Running, Kept, LeaseHonoured
  <1>17. SweepKills => sweep.mock \in Mocks  BY DEF SweepKills, Running
  <1>18. QED
    BY <1>1, <1>2, <1>3, <1>4, <1>5, <1>6, <1>7, <1>8, <1>9, <1>10, <1>11, <1>12, <1>13, <1>14,
       <1>15, <1>16, <1>17 DEF ControllerNext, SweepStep

(* The reaper goes at no leased mock, unless its lease was lost (reaper.py *)
(* :39-77, presence.py:50-80).                                             *)
THEOREM LeasesAreHonoured == ControllerSpec => []LeaseHonoured
  <1>1. LeaseInv => LeaseHonoured  BY DEF LeaseInv
  <1>2. QED  BY LeaseInvInit, LeaseInvStep, <1>1, PTL DEF ControllerSpec

(* How a call stands: it has drawn an id only while docker or fleet is     *)
(* called about it, and one call at a time works on a project.             *)
Working(s) == seeding[s].at \in {"provision", "run", "undo"}
Calls ==
  /\ \A s \in Seeders :
       /\ seeding[s] \in [at : {"waiting", "provision", "run", "undo", "answered"},
                          project : MockProjects \cup {NoMock}, count : Nat, target : BOOLEAN,
                          mock : Mocks \cup {NoMock}]
       /\ seeding[s].at # "answered" => seeding[s].count > 0 /\ seeding[s].project \in MockProjects
       /\ IF seeding[s].at \in {"run", "undo"}
            THEN seeding[s].mock \in Mocks /\ home[seeding[s].mock] = seeding[s].project
            ELSE seeding[s].mock = NoMock
  /\ \A s, t \in Seeders :
       Working(s) /\ Working(t) /\ seeding[s].project = seeding[t].project => s = t
  /\ due \in [MockProjects -> Nat] /\ controlFaults \in Nat /\ controlRestarts \in Nat

(* A certificate goes only when the container is gone, or where the call   *)
(* that asked for it was given up.                                         *)
Certified ==
  /\ \A s \in Seeders :
       /\ seeding[s].at = "run" => seeding[s].mock \in certs
       /\ seeding[s].at = "undo" =>
            seeding[s].mock \in late \/ box[seeding[s].mock] \in {"none", "gone"}
  /\ \A m \in Mocks : /\ box[m] = "starting" => m \in late
                      /\ deletion[m] = "certs" => box[m] = "gone"

(* What a call that has the lock will still spawn is within what is due    *)
(* and within the cap.                                                     *)
Spawned(p) == Of(p) \ late
Budgeted ==
  \A s \in Seeders : seeding[s].at \in {"provision", "run"} =>
    /\ Cardinality(Spawned(seeding[s].project)) + seeding[s].count <= due[seeding[s].project]
    /\ Cardinality(Spawned(seeding[s].project)) + seeding[s].count <= ProjectCap

MocksInv ==
  LeaseInv /\ ControllerTypeOK /\ Calls /\ Certified /\ CertsFollow /\ Budgeted /\ SeedsConverge

(* A set of marked ids holds ids when each of the four marks is on ids.    *)
LEMMA MarkedIds ==
  ASSUME NEW a, NEW b, NEW c, NEW d
  PROVE  UNION {a, b, c, d} \subseteq Mocks <=>
           a \subseteq Mocks /\ b \subseteq Mocks /\ c \subseteq Mocks /\ d \subseteq Mocks
  OBVIOUS

(* The number of mocks docker shows is a number.                           *)
LEMMA Counted ==
  ASSUME NEW S \in SUBSET Mocks
  PROVE  IsFiniteSet(S) /\ Cardinality(S) \in Nat
  BY FS_Subset, FS_CardinalityType, ControllerAssumption

(* What is due with one more request, of the larger of the two.            *)
LEMMA MaxOfTwo ==
  ASSUME NEW a \in Nat, NEW b \in Nat
  PROVE  Max({a, b}) \in Nat /\ Max({a, b}) >= a /\ Max({a, b}) >= b
  <1>1. \E x \in {a, b} : \A y \in {a, b} : x >= y  OBVIOUS
  <1>2. Max({a, b}) \in {a, b} /\ \A y \in {a, b} : Max({a, b}) >= y
    BY <1>1 DEF Max
  <1> QED BY <1>2

(* The invariant holds when the controller starts.                         *)
LEMMA MocksStart == ControllerInit /\ LeaseInv => MocksInv
  <1> SUFFICES ASSUME ControllerInit, LeaseInv PROVE MocksInv OBVIOUS
  <1> USE ControllerAssumption
  <1>0. /\ heavy \in BOOLEAN /\ box \in [Mocks -> {"none", "gone"}] /\ home \in [Mocks -> MockProjects]
        /\ labelOver = [m \in Mocks |-> FALSE] /\ certs = {} /\ online = {}
        /\ lease = [m \in Mocks |-> "none"] /\ seeding \in [Seeders -> Asked \cup {Answered}]
        /\ sweep = NoSweep /\ deletion = [m \in Mocks |-> "no"] /\ promised = [m \in Mocks |-> FALSE]
        /\ late = {} /\ broken = {} /\ forgot = {} /\ due = [p \in MockProjects |-> 0]
        /\ controlFaults \in Nat /\ controlRestarts \in Nat
    BY DEF ControllerInit
  <1>1. ControllerTypeOK
    <2>1. \A s \in Seeders : seeding[s].mock = NoMock BY <1>0 DEF Asked, Answered
    <2>2. UNION {certs, late, broken, forgot} \subseteq Mocks BY <1>0, MarkedIds
    <2> QED BY <1>0, <2>1, <2>2 DEF ControllerTypeOK, NoSweep
  <1>2. Calls
    <2>1. ASSUME NEW s \in Seeders
          PROVE  /\ seeding[s] \in [at : {"waiting", "provision", "run", "undo", "answered"},
                          project : MockProjects \cup {NoMock}, count : Nat, target : BOOLEAN,
                          mock : Mocks \cup {NoMock}]
                 /\ seeding[s].at \in {"waiting", "answered"} /\ seeding[s].mock = NoMock
                 /\ seeding[s].at # "answered" => seeding[s].count > 0 /\ seeding[s].project \in MockProjects
      <3>1. CASE seeding[s] = Answered BY <3>1 DEF Answered
      <3>2. CASE seeding[s] \in Asked
        <4>1. seeding[s].count \in Nat /\ seeding[s].count > 0 BY <3>2 DEF Asked
        <4> QED BY <3>2, <4>1 DEF Asked
      <3> QED BY <1>0, <3>1, <3>2
    <2> QED BY <1>0, <2>1 DEF Calls, Working
  <1>3. \A s \in Seeders : seeding[s].at \notin {"provision", "run", "undo"} BY <1>0 DEF Asked, Answered
  <1>4. Certified BY <1>0, <1>3 DEF Certified
  <1>5. CertsFollow BY <1>0 DEF CertsFollow
  <1>6. Budgeted BY <1>3 DEF Budgeted
  <1>7. SeedsConverge
    <2>1. \A p \in MockProjects : Of(p) \ late = {} BY <1>0 DEF Of, Listed
    <2>2. Cardinality({}) = 0 BY FS_EmptySet
    <2>3. \A p \in MockProjects : due[p] = 0 BY <1>0
    <2> QED BY <2>1, <2>2, <2>3 DEF SeedsConverge
  <1> QED BY <1>1, <1>2, <1>4, <1>5, <1>6, <1>7 DEF MocksInv

(* What a call does to the others: nothing.                                *)
Moves(s) == DOMAIN seeding' = Seeders /\ \A t \in Seeders : t # s => seeding'[t] = seeding[t]

(* What each step of a call does to what the argument looks at.            *)
DecideDone(s) ==
  /\ Moves(s)
  /\ seeding[s].at = "waiting" /\ ~Locked(seeding[s].project) /\ seeding[s].mock = NoMock
  /\ \/ seeding'[s] = Answered /\ due' = due
     \/ /\ Decided(s)
        /\ seeding'[s] = [at |-> "provision", project |-> seeding[s].project,
                          count |-> Deficit(s), target |-> seeding[s].target, mock |-> NoMock]
        /\ Deficit(s) # 0 /\ Cardinality(Of(seeding[s].project)) + Deficit(s) <= ProjectCap
        /\ due' = [due EXCEPT ![seeding[s].project] =
              IF seeding[s].target THEN Max({@, seeding[s].count}) ELSE @ + Deficit(s)]
  /\ controlFaults' \in Nat
  /\ UNCHANGED <<heavy, box, home, certs, clocks, sweep, deletion, late, broken, controlRestarts>>
  /\ controlFaults' >= controlFaults

LEMMA DecideMoves ==
  ASSUME MocksInv, NEW s \in Seeders, Decided(s) \/ DecideFails(s)
  PROVE  DecideDone(s)
  <1> USE DEF DecideDone
  <1>1. /\ DOMAIN seeding = Seeders
        /\ seeding[s] = [at |-> seeding[s].at, project |-> seeding[s].project, count |-> seeding[s].count,
                         target |-> seeding[s].target, mock |-> seeding[s].mock]
        /\ controlFaults \in Nat /\ (seeding[s].at = "waiting" => seeding[s].mock = NoMock)
    BY DEF MocksInv, LeaseInv, Shape, Calls
  <1>2. CASE DecideFails(s)
    BY <1>1, <1>2 DEF DecideFails, EndsCall, Faulty, Moves
  <1>3. CASE Decided(s) /\ seeding' = [seeding EXCEPT ![s] = Answered] /\ UNCHANGED due
    BY <1>1, <1>3 DEF Decided, Moves, budget
  <1>4. CASE Decided(s) /\ ~(seeding' = [seeding EXCEPT ![s] = Answered] /\ UNCHANGED due)
    <2> DEFINE p == seeding[s].project
    <2>1. /\ seeding[s].at = "waiting" /\ ~Locked(p)
          /\ ~(\/ Deficit(s) = 0 \/ Cardinality(Listed) + Deficit(s) > TotalCap
               \/ Cardinality(Of(p)) + Deficit(s) > ProjectCap)
          /\ seeding' = [seeding EXCEPT ![s].at = "provision", ![s].count = Deficit(s)]
          /\ due' = [due EXCEPT ![p] = IF seeding[s].target THEN Max({@, seeding[s].count})
                                                              ELSE @ + Deficit(s)]
          /\ UNCHANGED <<heavy, box, home, certs, clocks, sweep, deletion, late, broken, budget>>
      BY <1>4 DEF Decided, EndsCall
    <2>2. seeding'[s] = [at |-> "provision", project |-> p, count |-> Deficit(s),
                         target |-> seeding[s].target, mock |-> NoMock]
      BY <1>1, <2>1
    <2>3. Moves(s) BY <1>1, <2>1 DEF Moves
    <2>4. Cardinality(Of(p)) + Deficit(s) <= ProjectCap
      <3>1. Cardinality(Of(p)) \in Nat BY Counted DEF Of, Listed
      <3>2. Deficit(s) \in Nat BY <3>1 DEF Deficit, MocksInv, Calls
      <3> QED BY <2>1, <3>1, <3>2, ControllerAssumption
    <2> QED BY <1>1, <1>4, <2>1, <2>2, <2>3, <2>4 DEF budget
  <1> QED BY <1>2, <1>3, <1>4

ProvisionDone(s) ==
  /\ Moves(s) /\ seeding[s].at = "provision"
  /\ \E m \in Unused :
       /\ home[m] = seeding[s].project /\ m \in Mocks /\ box[m] = "none" /\ m \notin certs
       /\ \/ /\ certs' = certs \cup {m} /\ controlFaults' = controlFaults
             /\ seeding'[s] = [at |-> "run", project |-> seeding[s].project, count |-> seeding[s].count,
                               target |-> seeding[s].target, mock |-> m]
          \/ /\ certs' \in {certs, certs \cup {m}} /\ controlFaults' = controlFaults + 1
             /\ seeding'[s] = Answered
  /\ UNCHANGED <<heavy, box, home, clocks, sweep, deletion, late, due, broken, controlRestarts>>

LEMMA ProvisionMoves ==
  ASSUME MocksInv, NEW s \in Seeders, ProvisionMock(s)
  PROVE  ProvisionDone(s)
  <1> USE DEF ProvisionDone
  <1>1. /\ DOMAIN seeding = Seeders
        /\ seeding[s] = [at |-> seeding[s].at, project |-> seeding[s].project, count |-> seeding[s].count,
                         target |-> seeding[s].target, mock |-> seeding[s].mock]
    BY DEF MocksInv, LeaseInv, Shape
  <1>2. PICK m \in Unused :
       /\ home[m] = seeding[s].project /\ m \notin certs
       /\ \/ /\ certs' = certs \cup {m}
             /\ seeding' = [seeding EXCEPT ![s].at = "run", ![s].mock = m]
             /\ Fine
          \/ /\ certs' \in {certs, certs \cup {m}}
             /\ EndsCall(s) /\ Faulty
    BY DEF ProvisionMock
  <1>3. m \in Mocks /\ box[m] = "none" BY DEF Unused
  <1>4. Moves(s) BY <1>1, <1>2 DEF Moves, EndsCall
  <1>5. CASE seeding' = [seeding EXCEPT ![s].at = "run", ![s].mock = m]
    <2>1. seeding'[s] = [at |-> "run", project |-> seeding[s].project, count |-> seeding[s].count,
                                      target |-> seeding[s].target, mock |-> m]
      BY <1>1, <1>5
    <2>2. ~(EndsCall(s) /\ Faulty) \/ seeding'[s] = Answered BY <1>1 DEF EndsCall
    <2> QED BY <1>2, <1>3, <1>4, <2>1, <2>2 DEF ProvisionMock, Fine, budget, Faulty
  <1>6. CASE ~(seeding' = [seeding EXCEPT ![s].at = "run", ![s].mock = m])
    <2>1. seeding'[s] = Answered BY <1>1, <1>2, <1>6 DEF EndsCall
    <2> QED BY <1>2, <1>3, <1>4, <1>6, <2>1 DEF ProvisionMock, Faulty
  <1> QED BY <1>5, <1>6

RunDone(s) ==
  /\ Moves(s) /\ seeding[s].at = "run"
  /\ \/ /\ box' = [box EXCEPT ![seeding[s].mock] = "up"] /\ late' = late /\ controlFaults' = controlFaults
        /\ \/ seeding[s].count = 1 /\ seeding'[s] = Answered
           \/ /\ seeding[s].count # 1
              /\ seeding'[s] = [at |-> "provision", project |-> seeding[s].project,
                                count |-> seeding[s].count - 1, target |-> seeding[s].target, mock |-> NoMock]
     \/ /\ \/ box' = [box EXCEPT ![seeding[s].mock] = "none"] /\ late' = late
           \/ box' = [box EXCEPT ![seeding[s].mock] = "starting"] /\ late' = late \cup {seeding[s].mock}
        /\ controlFaults' = controlFaults + 1
        /\ seeding'[s] = [at |-> "undo", project |-> seeding[s].project, count |-> seeding[s].count,
                          target |-> seeding[s].target, mock |-> seeding[s].mock]
  /\ UNCHANGED <<heavy, home, certs, clocks, sweep, deletion, due, broken, controlRestarts>>

LEMMA RunMoves ==
  ASSUME MocksInv, NEW s \in Seeders, RunMock(s)
  PROVE  RunDone(s)
  <1> USE DEF RunDone
  <1>1. /\ DOMAIN seeding = Seeders
        /\ seeding[s] = [at |-> seeding[s].at, project |-> seeding[s].project, count |-> seeding[s].count,
                         target |-> seeding[s].target, mock |-> seeding[s].mock]
    BY DEF MocksInv, LeaseInv, Shape
  <1>2. Moves(s) BY <1>1 DEF RunMock, Moves, EndsCall
  <1>a. seeding[s].at = "run" /\ seeding[s].mock \in Mocks /\ box \in [Mocks -> Boxes] 
    BY DEF RunMock, MocksInv, LeaseInv, Running, Shape
  <1>3. CASE box' = [box EXCEPT ![seeding[s].mock] = "up"] /\ Fine /\ UNCHANGED late
    <2>1. CASE seeding[s].count = 1
      <3>1. seeding'[s] = Answered
        BY <1>1, <1>3, <1>a, <2>1 DEF RunMock, EndsCall, Fine, Faulty, budget, MocksInv, Calls
      <3> QED BY <1>2, <1>3, <2>1, <3>1 DEF RunMock, Fine, budget
    <2>2. CASE seeding[s].count # 1
      <3>1. seeding' = [seeding EXCEPT ![s].at = "provision", ![s].count = @ - 1, ![s].mock = NoMock]
        BY <1>1, <1>3, <1>a, <2>2 DEF RunMock, EndsCall, Fine, Faulty, budget, MocksInv, Calls
      <3>2. seeding'[s] = [at |-> "provision", project |-> seeding[s].project,
                                       count |-> seeding[s].count - 1, target |-> seeding[s].target,
                                       mock |-> NoMock]
        BY <1>1, <3>1
      <3> QED BY <1>2, <1>3, <2>2, <3>2 DEF RunMock, Fine, budget
    <2> QED BY <2>1, <2>2
  <1>4. CASE ~(box' = [box EXCEPT ![seeding[s].mock] = "up"] /\ Fine /\ UNCHANGED late)
    <2>1. /\ box' \in {[box EXCEPT ![seeding[s].mock] = x] : x \in {"none", "starting"}}
          /\ late' = IF box'[seeding[s].mock] = "starting" THEN late \cup {seeding[s].mock} ELSE late
          /\ seeding' = [seeding EXCEPT ![s].at = "undo"]
          /\ Faulty
      BY <1>4 DEF RunMock
    <2>2. seeding'[s] = [at |-> "undo", project |-> seeding[s].project, count |-> seeding[s].count,
                                 target |-> seeding[s].target, mock |-> seeding[s].mock]
      BY <1>1, <2>1
    <2>3. \/ box' = [box EXCEPT ![seeding[s].mock] = "none"] /\ late' = late
          \/ box' = [box EXCEPT ![seeding[s].mock] = "starting"] /\ late' = late \cup {seeding[s].mock}
      BY <1>a, <2>1 DEF Boxes
    <2> QED BY <1>2, <2>1, <2>2, <2>3 DEF RunMock, Faulty
  <1> QED BY <1>3, <1>4

UndoDone(s) ==
  /\ Moves(s) /\ seeding[s].at = "undo" /\ seeding'[s] = Answered
  /\ \/ certs' = certs \ {seeding[s].mock} /\ controlFaults' = controlFaults
     \/ certs' = certs /\ controlFaults' = controlFaults + 1
  /\ UNCHANGED <<heavy, box, home, clocks, sweep, deletion, late, due, broken, controlRestarts>>

LEMMA UndoMoves ==
  ASSUME MocksInv, NEW s \in Seeders, Undo(s)
  PROVE  UndoDone(s)
  <1> USE DEF UndoDone
  <1>1. DOMAIN seeding = Seeders BY DEF MocksInv, LeaseInv, Shape
  <1> QED BY <1>1 DEF Undo, Moves, EndsCall, Fine, Faulty, budget

(* What is no step of a call.                                              *)
Elsewhere ==
  \/ \E m \in Mocks : \/ StartsLate(m) \/ Exits(m) \/ LabelRunsOut(m) \/ Renew(m) \/ LeaseRunsOut(m)
                      \/ Delete(m) \/ DeleteCerts(m)
  \/ \E p \in MockProjects : Ping(p)
  \/ SweepStep

(* It leaves the calls, the labels and what is due alone.                  *)
LEMMA ElsewhereRests ==
  ASSUME MocksInv, Elsewhere
  PROVE  /\ UNCHANGED <<heavy, home, seeding, due, controlRestarts>>
         /\ controlFaults' = controlFaults \/ controlFaults' = controlFaults + 1
  <1> USE DEF budget, Fine, Faulty
  <1>1. CASE \E m \in Mocks : \/ StartsLate(m) \/ Exits(m) \/ LabelRunsOut(m) \/ Renew(m) \/ LeaseRunsOut(m)
                      \/ Delete(m) \/ DeleteCerts(m)
    BY <1>1 DEF StartsLate, Exits, LabelRunsOut, Renew, LeaseRunsOut, Delete, DeleteCerts
  <1>2. CASE \E p \in MockProjects : Ping(p) BY <1>2 DEF Ping
  <1>3. CASE SweepStep
    BY <1>3 DEF SweepStep, SweepLists, Prune, Walk, SweepOver, SweepKills, SweepStuck, SweepCerts
  <1> QED BY <1>1, <1>2, <1>3 DEF Elsewhere

(* Every step leaves each variable of its type.                            *)
LEMMA ControllerTypes ==
  ASSUME MocksInv, ControllerNext PROVE ControllerTypeOK'
  <1>0. /\ heavy \in BOOLEAN
        /\ box \in [Mocks -> {"none", "starting", "up", "exited", "gone"}]
        /\ home \in [Mocks -> MockProjects]
        /\ labelOver \in [Mocks -> BOOLEAN] /\ promised \in [Mocks -> BOOLEAN]
        /\ lease \in [Mocks -> {"none", "live", "over"}]
        /\ online \subseteq MockProjects
        /\ certs \subseteq Mocks /\ late \subseteq Mocks /\ broken \subseteq Mocks /\ forgot \subseteq Mocks
        /\ \A s \in Seeders : seeding[s].mock \in Mocks \cup {NoMock}
        /\ sweep = [at |-> sweep.at, todo |-> sweep.todo, mock |-> sweep.mock]
        /\ sweep.mock \in Mocks \cup {NoMock}
        /\ sweep.at \in {"kill", "certs"} => sweep.mock \in Mocks
        /\ \A s \in Seeders : seeding[s].at \in {"run", "undo"} => seeding[s].mock \in Mocks
        /\ \A x \in sweep.todo : x[1] \in Mocks
        /\ deletion \in [Mocks -> {"no", "certs"}]
    BY MarkedIds DEF MocksInv, LeaseInv, Shape, Running, Calls, ControllerTypeOK
  <1> DEFINE Goal ==
        /\ heavy \in BOOLEAN
        /\ box \in [Mocks -> {"none", "starting", "up", "exited", "gone"}]
        /\ home \in [Mocks -> MockProjects]
        /\ labelOver \in [Mocks -> BOOLEAN] /\ promised \in [Mocks -> BOOLEAN]
        /\ lease \in [Mocks -> {"none", "live", "over"}]
        /\ online \subseteq MockProjects
        /\ certs \subseteq Mocks /\ late \subseteq Mocks /\ broken \subseteq Mocks /\ forgot \subseteq Mocks
        /\ \A s \in Seeders : seeding[s].mock \in Mocks \cup {NoMock}
        /\ sweep.mock \in Mocks \cup {NoMock}
        /\ deletion \in [Mocks -> {"no", "certs"}]
  <1> USE DEF clocks
  <1>1. ASSUME NEW s \in Seeders, Decided(s) \/ DecideFails(s) PROVE Goal'
    <2>1. DecideDone(s) BY <1>1, DecideMoves
    <2>2. \A t \in Seeders : seeding'[t].mock \in Mocks \cup {NoMock}
      BY <1>0, <2>1 DEF DecideDone, Moves, Answered, Unused
    <2>3. certs' \subseteq Mocks /\ late' \subseteq Mocks
      BY <1>0, <2>1 DEF DecideDone
    <2>4. box' \in [Mocks -> {"none", "starting", "up", "exited", "gone"}]
      BY <1>0, <2>1 DEF DecideDone
    <2> QED BY <1>0, <2>1, <2>2, <2>3, <2>4 DEF DecideDone
  <1>2. ASSUME NEW s \in Seeders, ProvisionMock(s) PROVE Goal'
    <2>1. ProvisionDone(s) BY <1>2, ProvisionMoves
    <2>2. \A t \in Seeders : seeding'[t].mock \in Mocks \cup {NoMock}
      BY <1>0, <2>1 DEF ProvisionDone, Moves, Answered, Unused
    <2>3. certs' \subseteq Mocks /\ late' \subseteq Mocks
      BY <1>0, <2>1 DEF ProvisionDone
    <2>4. box' \in [Mocks -> {"none", "starting", "up", "exited", "gone"}]
      BY <1>0, <2>1 DEF ProvisionDone
    <2> QED BY <1>0, <2>1, <2>2, <2>3, <2>4 DEF ProvisionDone
  <1>3. ASSUME NEW s \in Seeders, RunMock(s) PROVE Goal'
    <2>1. RunDone(s) BY <1>3, RunMoves
    <2>2. \A t \in Seeders : seeding'[t].mock \in Mocks \cup {NoMock}
      BY <1>0, <2>1 DEF RunDone, Moves, Answered, Unused
    <2>3. certs' \subseteq Mocks /\ late' \subseteq Mocks
      BY <1>0, <2>1 DEF RunDone
    <2>4. box' \in [Mocks -> {"none", "starting", "up", "exited", "gone"}]
      BY <1>0, <2>1 DEF RunDone
    <2> QED BY <1>0, <2>1, <2>2, <2>3, <2>4 DEF RunDone
  <1>4. ASSUME NEW s \in Seeders, Undo(s) PROVE Goal'
    BY <1>0, <1>4, UndoMoves DEF UndoDone, Moves, Answered
  <1>5. ASSUME NEW m \in Mocks, StartsLate(m) \/ Exits(m) \/ LabelRunsOut(m) \/ Renew(m) \/ LeaseRunsOut(m)
        PROVE Goal'
    BY <1>0, <1>5 DEF StartsLate, Exits, LabelRunsOut, Renew, LeaseRunsOut
  <1>6. ASSUME NEW m \in Mocks, Delete(m) \/ DeleteCerts(m) PROVE Goal'
    BY <1>0, <1>6 DEF Delete, DeleteCerts, Removes
  <1>7. ASSUME NEW p \in MockProjects, Ping(p) PROVE Goal'
    BY <1>0, <1>7 DEF Ping
  <1>8. ASSUME SweepLists \/ Prune \/ SweepOver \/ SweepStuck PROVE Goal'
    BY <1>0, <1>8 DEF SweepLists, Prune, SweepOver, SweepStuck, NoSweep
  <1>9. ASSUME Walk PROVE Goal'
    <2>1. PICK x \in sweep.todo :
            \/ /\ sweep' = [sweep EXCEPT !.at = "kill", !.todo = @ \ {x}, !.mock = x[1]]
               /\ broken' \in {broken, broken \cup {x[1]}}
            \/ sweep' = [sweep EXCEPT !.todo = @ \ {x}] /\ broken' = broken
      BY <1>9 DEF Walk
    <2>2. x[1] \in Mocks /\ sweep'.mock \in {sweep.mock, x[1]} BY <1>0, <2>1
    <2> QED BY <1>0, <1>9, <2>1, <2>2 DEF Walk
  <1>10. ASSUME SweepKills \/ SweepCerts PROVE Goal'
    <2>1. sweep.mock \in Mocks /\ sweep'.mock \in {sweep.mock, NoMock}
      BY <1>0, <1>10 DEF SweepKills, SweepCerts
    <2>2. CASE SweepKills BY <1>0, <2>1, <2>2 DEF SweepKills, Removes
    <2>3. CASE SweepCerts BY <1>0, <2>1, <2>3 DEF SweepCerts
    <2> QED BY <1>10, <2>2, <2>3
  <1>11. ASSUME ControllerRestarts PROVE Goal'
    BY <1>0, <1>11 DEF ControllerRestarts, NoSweep, Answered
  <1> HIDE DEF clocks
  <1>12. Goal'
    BY <1>1, <1>2, <1>3, <1>4, <1>5, <1>6, <1>7, <1>8, <1>9, <1>10, <1>11 DEF ControllerNext, SweepStep
  <1>13. (UNION {certs, late, broken, forgot} \subseteq Mocks)' BY <1>12, MarkedIds
  <1> HIDE DEF Goal
  <1> QED BY <1>12, <1>13 DEF ControllerTypeOK, Goal

(* Every step leaves one call at a time at work on a project, with an id   *)
(* of that project drawn.                                                  *)
LEMMA CallsSafe ==
  ASSUME MocksInv, ControllerNext PROVE Calls'
  <1> DEFINE Call(s) ==
       /\ seeding[s] \in [at : {"waiting", "provision", "run", "undo", "answered"},
                          project : MockProjects \cup {NoMock}, count : Nat, target : BOOLEAN,
                          mock : Mocks \cup {NoMock}]
       /\ seeding[s].at # "answered" => seeding[s].count > 0 /\ seeding[s].project \in MockProjects
       /\ IF seeding[s].at \in {"run", "undo"}
            THEN seeding[s].mock \in Mocks /\ home[seeding[s].mock] = seeding[s].project
            ELSE seeding[s].mock = NoMock
  <1>0. /\ \A s \in Seeders : Call(s)
        /\ \A s, t \in Seeders :
             Working(s) /\ Working(t) /\ seeding[s].project = seeding[t].project => s = t
        /\ due \in [MockProjects -> Nat] /\ controlFaults \in Nat /\ controlRestarts \in Nat
    BY DEF MocksInv, Calls
  <1>1. ASSUME NEW s \in Seeders, Moves(s), home' = home,
               \/ seeding'[s] = Answered
               \/ seeding'[s].project = seeding[s].project /\ Working(s) /\ Call(s)'
               \/ seeding'[s].project = seeding[s].project /\ ~Locked(seeding[s].project) /\ Call(s)',
               due' \in [MockProjects -> Nat], controlFaults' \in Nat, controlRestarts' \in Nat
        PROVE Calls'
    <2>1. Call(s)'
      <3>1. CASE seeding'[s] = Answered
        <4>1. seeding'[s].at = "answered" /\ seeding'[s].mock = NoMock BY <3>1 DEF Answered
        <4>2. seeding'[s] \in [at : {"waiting", "provision", "run", "undo", "answered"},
                          project : MockProjects \cup {NoMock}, count : Nat, target : BOOLEAN,
                          mock : Mocks \cup {NoMock}]
          BY <3>1 DEF Answered
        <4> QED BY <4>1, <4>2
      <3> QED BY <1>1, <3>1
    <2>2. \A t \in Seeders : Call(t)' BY <1>0, <1>1, <2>1 DEF Moves
    <2>3. \A t, u \in Seeders :
             (Working(t) /\ Working(u))' /\ seeding'[t].project = seeding'[u].project => t = u
      BY <1>0, <1>1 DEF Moves, Working, Locked, Answered
    <2> QED BY <1>1, <2>2, <2>3 DEF Calls, Working
  <1>2. ASSUME NEW s \in Seeders, Decided(s) \/ DecideFails(s) PROVE Calls'
    <2> DEFINE p == seeding[s].project
    <2>1. Cardinality(Of(p)) \in Nat BY Counted DEF Of, Listed
    <2>2. seeding[s].at = "waiting" /\ Call(s) BY <1>0, <1>2, DecideMoves DEF DecideDone
    <2>3. Deficit(s) \in Nat /\ p \in MockProjects /\ due[p] \in Nat BY <1>0, <2>1, <2>2 DEF Deficit
    <2>4. due' \in [MockProjects -> Nat]
      <3>1. Max({due[p], seeding[s].count}) \in Nat BY <2>2, <2>3, MaxOfTwo
      <3>2. DecideDone(s) BY <1>2, DecideMoves
      <3>3. due' = due \/ due' = [due EXCEPT ![p] =
                     IF seeding[s].target THEN Max({due[p], seeding[s].count}) ELSE due[p] + Deficit(s)]
        BY <3>2 DEF DecideDone
      <3> HIDE DEF p
      <3> QED BY <1>0, <2>3, <3>1, <3>3
    <2>5. /\ Moves(s) /\ home' = home /\ controlFaults' \in Nat /\ controlRestarts' \in Nat
          /\ \/ seeding'[s] = Answered
             \/ /\ seeding'[s] = [at |-> "provision", project |-> p, count |-> Deficit(s),
                                  target |-> seeding[s].target, mock |-> NoMock]
                /\ Deficit(s) # 0
          /\ ~Locked(p)
      BY <1>0, <1>2, DecideMoves DEF DecideDone
    <2>6. seeding'[s] = Answered \/ (seeding'[s].project = p /\ Call(s)')
      BY <2>2, <2>3, <2>5
    <2> HIDE DEF Call
    <2> QED BY <1>1, <2>4, <2>5, <2>6
  <1>3. ASSUME NEW s \in Seeders, ProvisionMock(s) PROVE Calls'
    <2>1. Call(s) BY <1>0
    <2>2. Moves(s) /\ home' = home /\ due' = due /\ controlFaults' \in Nat /\ controlRestarts' \in Nat
          /\ Working(s)
      <3>1. ProvisionDone(s) BY <1>3, ProvisionMoves
      <3> QED BY <1>0, <3>1 DEF ProvisionDone, Working
    <2>3. seeding'[s] = Answered \/ (seeding'[s].project = seeding[s].project /\ Call(s)')
      <3>1. ProvisionDone(s) BY <1>3, ProvisionMoves
      <3> QED BY <1>0, <2>1, <2>2, <3>1 DEF ProvisionDone, Unused
    <2> HIDE DEF Call
    <2> QED BY <1>0, <1>1, <2>2, <2>3
  <1>4. ASSUME NEW s \in Seeders, RunMock(s) PROVE Calls'
    <2>1. Call(s) BY <1>0
    <2>2. Moves(s) /\ home' = home /\ due' = due /\ controlFaults' \in Nat /\ controlRestarts' \in Nat
          /\ Working(s)
      <3>1. RunDone(s) BY <1>4, RunMoves
      <3> QED BY <1>0, <3>1 DEF RunDone, Working
    <2>3. seeding'[s] = Answered \/ (seeding'[s].project = seeding[s].project /\ Call(s)')
      <3>1. RunDone(s) BY <1>4, RunMoves
      <3> QED BY <1>0, <2>1, <2>2, <3>1 DEF RunDone, Unused
    <2> HIDE DEF Call
    <2> QED BY <1>0, <1>1, <2>2, <2>3
  <1>5. ASSUME NEW s \in Seeders, Undo(s) PROVE Calls'
    <2>2. Moves(s) /\ home' = home /\ due' = due /\ controlFaults' \in Nat /\ controlRestarts' \in Nat
          /\ seeding'[s] = Answered
      BY <1>0, <1>5, UndoMoves DEF UndoDone
    <2> HIDE DEF Call
    <2> QED BY <1>0, <1>1, <2>2
  <1>6. ASSUME Elsewhere PROVE Calls'
    BY <1>0, <1>6, ElsewhereRests DEF Calls, Working
  <1>7. ASSUME ControllerRestarts PROVE Calls'
    <2>1. seeding' = [s \in Seeders |-> IF seeding[s].mock = NoMock THEN seeding[s] ELSE Answered]
      BY <1>7 DEF ControllerRestarts
    <2>2. home' = home /\ due' = due /\ controlFaults' \in Nat /\ controlRestarts' \in Nat
      BY <1>0, <1>7 DEF ControllerRestarts
    <2>3. \A s \in Seeders : Call(s)' BY <1>0, <2>1, <2>2 DEF Answered
    <2>4. \A t, u \in Seeders :
             (Working(t) /\ Working(u))' /\ seeding'[t].project = seeding'[u].project => t = u
      BY <1>0, <2>1 DEF Working, Answered
    <2> QED BY <1>0, <2>2, <2>3, <2>4 DEF Calls
  <1> QED BY <1>2, <1>3, <1>4, <1>5, <1>6, <1>7 DEF ControllerNext, Elsewhere

(* A certificate goes with its container, and stays without one only where *)
(* a call failed or the controller restarted.                              *)
LEMMA CertsSafe ==
  ASSUME MocksInv, ControllerNext PROVE Certified' /\ CertsFollow'
  <1> DEFINE
        Held(m) == \E s \in Seeders : seeding[s].mock = m
        Going(m) == deletion[m] = "certs" \/ (sweep.at = "certs" /\ sweep.mock = m)
        Trouble == controlFaults > 0 \/ controlRestarts > 0
  <1>0. /\ \A s \in Seeders : /\ seeding[s].at = "run" =>
                                   seeding[s].mock \in certs /\ box[seeding[s].mock] = "none"
                              /\ seeding[s].at = "undo" =>
                                   seeding[s].mock \in late \/ box[seeding[s].mock] \in {"none", "gone"}
                              /\ seeding[s].at \in {"run", "undo"} => seeding[s].mock \in Mocks
                              /\ seeding[s].at \notin {"run", "undo"} => seeding[s].mock = NoMock
        /\ \A m \in Mocks : /\ box[m] = "starting" => m \in late
                            /\ deletion[m] = "certs" => box[m] = "gone"
        /\ \A m \in Mocks : box[m] \in {"up", "exited"} => m \in certs \/ m \in late
        /\ \A m \in Mocks : m \in certs /\ box[m] \in {"none", "gone"} => Trouble \/ Held(m) \/ Going(m)
        /\ controlFaults \in Nat /\ controlRestarts \in Nat
        /\ box \in [Mocks -> Boxes] /\ deletion \in [Mocks -> {"no", "certs"}]
        /\ \A s, t \in Seeders : s # t /\ seeding[s].mock = seeding[t].mock => seeding[s].mock = NoMock
        /\ sweep = [at |-> sweep.at, todo |-> sweep.todo, mock |-> sweep.mock]
        /\ sweep.at \in {"kill", "certs"} => sweep.mock \in Mocks
        /\ sweep.at = "certs" => box[sweep.mock] = "gone"
        /\ NoMock \notin Mocks
    BY ControllerAssumption
    DEF MocksInv, LeaseInv, Shape, Running, Calls, Certified, CertsFollow, ControllerTypeOK
  <1>d. Certified' /\ CertsFollow' <=>
        /\ \A s \in Seeders : /\ seeding'[s].at = "run" => seeding'[s].mock \in certs'
                              /\ seeding'[s].at = "undo" =>
                                   seeding'[s].mock \in late' \/ box'[seeding'[s].mock] \in {"none", "gone"}
        /\ \A m \in Mocks : /\ box'[m] = "starting" => m \in late'
                            /\ deletion'[m] = "certs" => box'[m] = "gone"
        /\ \A m \in Mocks : box'[m] \in {"up", "exited"} => m \in certs' \/ m \in late'
        /\ \A m \in Mocks : m \in certs' /\ box'[m] \in {"none", "gone"} => Trouble' \/ Held(m)' \/ Going(m)'
    BY DEF Certified, CertsFollow
  <1>1. ASSUME NEW s \in Seeders, Decided(s) \/ DecideFails(s) PROVE Certified' /\ CertsFollow'
    <2>1. DecideDone(s) BY <1>1, DecideMoves
    <2>2. /\ Moves(s) /\ seeding'[s].mock = NoMock /\ seeding'[s].at \in {"answered", "provision"}
          /\ UNCHANGED <<box, certs, sweep, deletion, late, controlRestarts>>
          /\ controlFaults' \in Nat /\ controlFaults' >= controlFaults
          /\ seeding[s].mock = NoMock
      BY <2>1 DEF DecideDone, Answered
    <2>3. \A m \in Mocks : Held(m)' <=> Held(m) BY <1>0, <2>2 DEF Moves
    <2> QED BY <1>0, <1>d, <2>2, <2>3 DEF Moves
  <1>2. ASSUME NEW s \in Seeders, ProvisionMock(s) PROVE Certified' /\ CertsFollow'
    <2>1. ProvisionDone(s) BY <1>2, ProvisionMoves
    <2>2. PICK m \in Unused :
              /\ home[m] = seeding[s].project /\ m \in Mocks /\ box[m] = "none" /\ m \notin certs
              /\ \/ /\ certs' = certs \cup {m} /\ controlFaults' = controlFaults
                    /\ seeding'[s].at = "run" /\ seeding'[s].mock = m
                 \/ /\ certs' \in {certs, certs \cup {m}} /\ controlFaults' = controlFaults + 1
                    /\ seeding'[s].at = "answered"
      BY <2>1 DEF ProvisionDone, Answered
    <2>3. /\ Moves(s) /\ seeding[s].mock = NoMock
          /\ UNCHANGED <<box, sweep, deletion, late, controlRestarts>>
      BY <1>0, <2>1 DEF ProvisionDone
    <2>4. \A x \in Mocks : Held(x) => Held(x)' BY <1>0, <2>3 DEF Moves
    <2>5. seeding'[s].at = "run" => Held(m)' BY <2>2
    <2> HIDE DEF Held
    <2> QED BY <1>0, <1>d, <2>2, <2>3, <2>4, <2>5 DEF Moves
  <1>3. ASSUME NEW s \in Seeders, RunMock(s) PROVE Certified' /\ CertsFollow'
    <2> DEFINE m == seeding[s].mock
    <2>1. RunDone(s) BY <1>3, RunMoves
    <2>2. m \in Mocks /\ m \in certs /\ box[m] = "none" BY <1>0, <2>1 DEF RunDone
    <2>3. /\ Moves(s) /\ UNCHANGED <<certs, sweep, deletion, controlRestarts>>
          /\ \/ /\ box' = [box EXCEPT ![m] = "up"] /\ late' = late /\ controlFaults' = controlFaults
                /\ seeding'[s].at \in {"answered", "provision"}
             \/ /\ \/ box' = [box EXCEPT ![m] = "none"] /\ late' = late
                   \/ box' = [box EXCEPT ![m] = "starting"] /\ late' = late \cup {m}
                /\ controlFaults' > 0
                /\ seeding'[s].at = "undo" /\ seeding'[s].mock = m
      BY <1>0, <2>1 DEF RunDone, Answered
    <2>4. \A x \in Mocks : x # m /\ Held(x) => Held(x)' BY <1>0, <2>3 DEF Moves
    <2>5. \A t \in Seeders : t # s => seeding'[t] = seeding[t] /\ seeding[t].mock # m
      BY <1>0, <2>2, <2>3 DEF Moves
    <2>6. box'[m] \in {"up", "starting", "none"} /\ \A x \in Mocks : x # m => box'[x] = box[x]
      BY <1>0, <2>2, <2>3
    <2>7. \A t \in Seeders : /\ seeding'[t].at = "run" => seeding'[t].mock \in certs'
                             /\ seeding'[t].at = "undo" =>
                                   seeding'[t].mock \in late' \/ box'[seeding'[t].mock] \in {"none", "gone"}
      <3> DEFINE spawned == /\ box' = [box EXCEPT ![m] = "up"] /\ late' = late
                            /\ seeding'[s].at \in {"answered", "provision"}
      <3>1. CASE spawned
        BY <1>0, <2>3, <2>5, <2>6, <3>1
      <3>2. CASE ~spawned
        BY <1>0, <2>2, <2>3, <2>5, <2>6, <3>2
      <3> QED BY <3>1, <3>2
    <2>8. \A x \in Mocks : /\ box'[x] = "starting" => x \in late'
                           /\ deletion'[x] = "certs" => box'[x] = "gone"
      BY <1>0, <2>2, <2>3, <2>6
    <2>9. \A x \in Mocks : box'[x] \in {"up", "exited"} => x \in certs' \/ x \in late'
      BY <1>0, <2>2, <2>3, <2>6
    <2>10. \A x \in Mocks : x \in certs' /\ box'[x] \in {"none", "gone"} =>
                              Trouble' \/ Held(x)' \/ Going(x)'
      <3> HIDE DEF Held
      <3> QED BY <1>0, <2>2, <2>3, <2>4, <2>6
    <2> QED BY <1>d, <2>7, <2>8, <2>9, <2>10
  <1>4. ASSUME NEW s \in Seeders, Undo(s) PROVE Certified' /\ CertsFollow'
    <2> DEFINE m == seeding[s].mock
    <2>1. UndoDone(s) BY <1>4, UndoMoves
    <2>2. /\ m \in Mocks /\ (m \in late \/ box[m] \in {"none", "gone"})
          /\ Moves(s) /\ seeding'[s].at = "answered"
          /\ UNCHANGED <<box, sweep, deletion, late, controlRestarts>>
          /\ \/ certs' = certs \ {m} /\ controlFaults' = controlFaults
             \/ certs' = certs /\ controlFaults' > 0
      BY <1>0, <2>1 DEF UndoDone, Answered
    <2>3. \A t \in Seeders : t # s => seeding'[t] = seeding[t] /\ seeding[t].mock # m
      BY <1>0, <2>2 DEF Moves
    <2>4. \A x \in Mocks : x # m /\ Held(x) => Held(x)' BY <1>0, <2>2, <2>3
    <2> HIDE DEF Held
    <2> QED BY <1>0, <1>d, <2>2, <2>3, <2>4
  <1>5. ASSUME NEW m \in Mocks, StartsLate(m) \/ Exits(m) \/ LabelRunsOut(m) \/ Renew(m) \/ LeaseRunsOut(m)
        PROVE Certified' /\ CertsFollow'
    <2>1. /\ \/ box' = box
             \/ box[m] = "starting" /\ box' = [box EXCEPT ![m] = "up"]
             \/ box[m] = "up" /\ box' = [box EXCEPT ![m] = "exited"]
          /\ UNCHANGED <<certs, seeding, sweep, deletion, late, controlFaults, controlRestarts>>
      BY <1>5 DEF StartsLate, Exits, LabelRunsOut, Renew, LeaseRunsOut, budget
    <2> QED BY <1>0, <1>d, <2>1
  <1>6. ASSUME NEW m \in Mocks, Delete(m) PROVE Certified' /\ CertsFollow'
    <2>1. /\ box' = [box EXCEPT ![m] = "gone"] /\ late' = late \ {m}
          /\ deletion' = [deletion EXCEPT ![m] = "certs"]
          /\ UNCHANGED <<certs, seeding, sweep, controlFaults, controlRestarts>>
          /\ box[m] # "none"
      BY <1>6 DEF Delete, Removes, Listed, budget
    <2> QED BY <1>0, <1>d, <2>1
  <1>7. ASSUME NEW m \in Mocks, DeleteCerts(m) PROVE Certified' /\ CertsFollow'
    <2>1. /\ deletion' = [deletion EXCEPT ![m] = "no"] /\ box[m] = "gone"
          /\ UNCHANGED <<box, seeding, sweep, late, controlRestarts>>
          /\ \/ certs' = certs \ {m} /\ controlFaults' = controlFaults
             \/ certs' = certs /\ controlFaults' > 0
      BY <1>0, <1>7 DEF DeleteCerts, Fine, Faulty, budget
    <2> QED BY <1>0, <1>d, <2>1
  <1>8. ASSUME NEW p \in MockProjects, Ping(p) PROVE Certified' /\ CertsFollow'
    <2>1. UNCHANGED <<box, certs, seeding, sweep, deletion, late, controlFaults, controlRestarts>>
      BY <1>8 DEF Ping, budget
    <2> QED BY <1>0, <1>d, <2>1
  <1>9. ASSUME SweepLists \/ Prune \/ Walk \/ SweepOver \/ SweepStuck PROVE Certified' /\ CertsFollow'
    <2>1. UNCHANGED <<box, certs, seeding, deletion, late, controlRestarts>>
      BY <1>9 DEF SweepLists, Prune, Walk, SweepOver, SweepStuck, budget, Faulty
    <2>2. sweep.at # "certs"
      BY <1>9 DEF SweepLists, Prune, Walk, SweepOver, SweepStuck
    <2>3. controlFaults' = controlFaults \/ controlFaults' > 0
      BY <1>0, <1>9, ElsewhereRests DEF Elsewhere, SweepStep
    <2> QED BY <1>0, <1>d, <2>1, <2>2, <2>3
  <1>10. ASSUME SweepKills PROVE Certified' /\ CertsFollow'
    <2> DEFINE m == sweep.mock
    <2>1. /\ box' = [box EXCEPT ![m] = "gone"] /\ late' = late \ {m} /\ m \in Mocks
          /\ sweep.at = "kill" /\ sweep'.at = "certs" /\ sweep'.mock = m
          /\ UNCHANGED <<certs, seeding, deletion, controlFaults, controlRestarts>>
      BY <1>0, <1>10 DEF SweepKills, Removes, budget
    <2> QED BY <1>0, <1>d, <2>1
  <1>11. ASSUME SweepCerts PROVE Certified' /\ CertsFollow'
    <2> DEFINE m == sweep.mock
    <2>1. /\ box[m] = "gone" /\ m \in Mocks
          /\ UNCHANGED <<box, seeding, deletion, late, controlRestarts>>
          /\ \/ certs' = certs \ {m} /\ controlFaults' = controlFaults
             \/ certs' = certs /\ controlFaults' > 0
      BY <1>0, <1>11 DEF SweepCerts, Fine, Faulty, budget
    <2> QED BY <1>0, <1>d, <2>1
  <1>12. ASSUME ControllerRestarts PROVE Certified' /\ CertsFollow'
    <2>1. PICK started \in SUBSET {m \in Mocks : \E s \in Seeders :
                                             seeding[s].at = "run" /\ seeding[s].mock = m} :
             /\ box' = [m \in Mocks |-> IF m \in started THEN "starting" ELSE box[m]]
             /\ late' = late \cup started
      BY <1>12 DEF ControllerRestarts
    <2>2. /\ \A s \in Seeders : seeding'[s].at \notin {"run", "undo"}
          /\ deletion' = [m \in Mocks |-> "no"] /\ certs' = certs /\ controlRestarts' > 0
      BY <1>0, <1>12 DEF ControllerRestarts, Answered
    <2> QED BY <1>0, <1>d, <2>1, <2>2
  <1> QED
    BY <1>1, <1>2, <1>3, <1>4, <1>5, <1>6, <1>7, <1>8, <1>9, <1>10, <1>11, <1>12
    DEF ControllerNext, SweepStep

(* The spawned mocks of a project, and what their number is bounded by.    *)
Here(boxes, homes, lates, q) == {m \in Mocks : boxes[m] \in {"up", "exited"} /\ homes[m] = q} \ lates
Now(q) == Here(box, home, late, q)
Within(n, owed) == n <= owed /\ n <= ProjectCap

(* What the invariant says of the numbers.                                 *)
LEMMA Bounds ==
  ASSUME MocksInv
  PROVE  /\ \A p \in MockProjects : Within(Cardinality(Now(p)), due[p])
         /\ \A s \in Seeders : seeding[s].at \in {"provision", "run"} =>
              Within(Cardinality(Now(seeding[s].project)) + seeding[s].count, due[seeding[s].project])
         /\ \A p : Now(p) \in SUBSET Mocks /\ Cardinality(Now(p)) \in Nat
         /\ \A p \in MockProjects : due[p] \in Nat
  <1>1. \A p : Now(p) = Of(p) \ late BY DEF Now, Here, Of, Listed
  <1>2. \A p : Now(p) \in SUBSET Mocks BY DEF Now, Here
  <1>3. \A p : Cardinality(Now(p)) \in Nat BY <1>2, Counted
  <1>4. due \in [MockProjects -> Nat] /\ ProjectCap \in Nat
    BY ControllerAssumption DEF MocksInv, Calls
  <1>5. \A p \in MockProjects : Within(Cardinality(Now(p)), due[p])
    <2> TAKE p \in MockProjects
    <2>1. Cardinality(Now(p)) <= IF due[p] < ProjectCap THEN due[p] ELSE ProjectCap
      BY <1>1 DEF MocksInv, SeedsConverge
    <2>2. Cardinality(Now(p)) \in Nat /\ due[p] \in Nat /\ ProjectCap \in Nat BY <1>3, <1>4
    <2> QED BY <2>1, <2>2 DEF Within
  <1>6. \A s \in Seeders : seeding[s].at \in {"provision", "run"} =>
              Within(Cardinality(Now(seeding[s].project)) + seeding[s].count, due[seeding[s].project])
    BY <1>1 DEF MocksInv, Budgeted, Spawned, Within
  <1> QED BY <1>2, <1>3, <1>4, <1>5, <1>6

(* A part has no more members than the whole.                              *)
LEMMA FewerIsLess ==
  ASSUME NEW S \in SUBSET Mocks, NEW T \in SUBSET S
  PROVE  Cardinality(T) \in Nat /\ Cardinality(T) <= Cardinality(S)
  BY Counted, FS_Subset

(* The bounds after a step.                                                *)
After(q) == Here(box', home', late', q)

LEMMA BoundsKept ==
  ASSUME due' \in [MockProjects -> Nat],
         \A p \in MockProjects : Within(Cardinality(After(p)), due'[p]),
         \A s \in Seeders : seeding'[s].at \in {"provision", "run"} =>
            Within(Cardinality(After(seeding'[s].project)) + seeding'[s].count, due'[seeding'[s].project])
  PROVE  Budgeted' /\ SeedsConverge'
  <1>1. \A p : After(p) = Spawned(p)' BY DEF After, Here, Spawned, Of, Listed
  <1>2. SeedsConverge'
    <2>1. \A p \in MockProjects : Cardinality(After(p)) <= due'[p] /\ Cardinality(After(p)) <= ProjectCap
      BY DEF Within
    <2> QED BY <1>1, <2>1 DEF SeedsConverge, Spawned
  <1>3. Budgeted'
    <2> SUFFICES ASSUME NEW s \in Seeders, seeding'[s].at \in {"provision", "run"}
                 PROVE  /\ (Cardinality(Spawned(seeding[s].project)) + seeding[s].count
                              <= due[seeding[s].project])'
                        /\ (Cardinality(Spawned(seeding[s].project)) + seeding[s].count <= ProjectCap)'
      BY DEF Budgeted
    <2>1. After(seeding'[s].project) = (Spawned(seeding[s].project))' BY DEF After, Here, Spawned, Of, Listed
    <2> QED BY <2>1 DEF Within
  <1> QED BY <1>2, <1>3

(* With no more mocks than before, and no more to come, the bounds stay.   *)
LEMMA NoMoreMocks ==
  ASSUME MocksInv, due' = due,
         \A p \in MockProjects : After(p) \subseteq Now(p),
         \A s \in Seeders : seeding'[s].at \in {"provision", "run"} =>
           /\ seeding[s].at \in {"provision", "run"}
           /\ seeding'[s].project = seeding[s].project /\ seeding'[s].count = seeding[s].count
  PROVE  Budgeted' /\ SeedsConverge'
  <1>1. \A p \in MockProjects : Cardinality(After(p)) \in Nat /\ Cardinality(After(p)) <= Cardinality(Now(p))
    BY Bounds, FewerIsLess
  <1>2. \A p \in MockProjects : Within(Cardinality(After(p)), due'[p])
    BY <1>1, Bounds, ControllerAssumption DEF Within
  <1>3. \A s \in Seeders : seeding[s].at \in {"provision", "run"} =>
           seeding[s].project \in MockProjects /\ seeding[s].count \in Nat
    BY DEF MocksInv, Calls
  <1>4. ASSUME NEW s \in Seeders, seeding'[s].at \in {"provision", "run"}
        PROVE  Within(Cardinality(After(seeding'[s].project)) + seeding'[s].count, due'[seeding'[s].project])
    <2>1. Within(Cardinality(Now(seeding[s].project)) + seeding[s].count, due[seeding[s].project])
      BY <1>4, Bounds
    <2>2. /\ Cardinality(After(seeding[s].project)) \in Nat /\ Cardinality(Now(seeding[s].project)) \in Nat
          /\ Cardinality(After(seeding[s].project)) <= Cardinality(Now(seeding[s].project))
          /\ due[seeding[s].project] \in Nat /\ seeding[s].count \in Nat
      BY <1>1, <1>3, <1>4, Bounds
    <2>3. Within(Cardinality(After(seeding[s].project)) + seeding[s].count, due[seeding[s].project])
      BY <2>1, <2>2, ControllerAssumption DEF Within
    <2> QED BY <1>4, <2>3
  <1>5. due' \in [MockProjects -> Nat] BY DEF MocksInv, Calls
  <1> QED BY <1>2, <1>4, <1>5, BoundsKept

(* No step brings a project above what it is due, or above its cap.        *)
LEMMA BudgetSafe ==
  ASSUME MocksInv, ControllerNext PROVE Budgeted' /\ SeedsConverge'
  <1>0. /\ \A s \in Seeders : seeding[s].at \in {"run", "undo"} => seeding[s].mock \in Mocks
        /\ \A s \in Seeders : seeding[s].at = "run" =>
             box[seeding[s].mock] = "none" /\ home[seeding[s].mock] = seeding[s].project
        /\ \A s \in Seeders : seeding[s].at # "answered" =>
             /\ seeding[s].count > 0 /\ seeding[s].count \in Nat /\ seeding[s].project \in MockProjects
        /\ \A s, t \in Seeders :
             Working(s) /\ Working(t) /\ seeding[s].project = seeding[t].project => s = t
        /\ due \in [MockProjects -> Nat]
        /\ box \in [Mocks -> Boxes] /\ ProjectCap \in Nat
        /\ \A m \in Mocks : box[m] = "starting" => m \in late
    BY ControllerAssumption DEF MocksInv, LeaseInv, Shape, Running, Calls, Certified
  <1>d. \A p : /\ Now(p) = {m \in Mocks : box[m] \in {"up", "exited"} /\ home[m] = p} \ late
               /\ After(p) = {m \in Mocks : box'[m] \in {"up", "exited"} /\ home'[m] = p} \ late'
    BY DEF Now, After, Here
  <1>1. ASSUME NEW s \in Seeders, Decided(s) \/ DecideFails(s) PROVE Budgeted' /\ SeedsConverge'
    <2> DEFINE p == seeding[s].project  n == Deficit(s)
    <2>1. DecideDone(s) BY <1>1, DecideMoves
    <2>2. \A q : After(q) = Now(q) BY <1>d, <2>1 DEF DecideDone
    <2>3. CASE seeding'[s] = Answered /\ due' = due
      <3>1. \A t \in Seeders : seeding'[t].at \in {"provision", "run"} => seeding'[t] = seeding[t]
        BY <2>1, <2>3 DEF DecideDone, Moves, Answered
      <3> QED BY <2>2, <2>3, <3>1, NoMoreMocks
    <2>4. CASE ~(seeding'[s] = Answered /\ due' = due)
      <3>1. /\ seeding[s].at = "waiting" /\ ~Locked(p) /\ Moves(s)
            /\ seeding'[s].at = "provision" /\ seeding'[s].project = p /\ seeding'[s].count = n
            /\ n # 0 /\ Cardinality(Of(p)) + n <= ProjectCap
            /\ due' = [due EXCEPT ![p] = IF seeding[s].target THEN Max({due[p], seeding[s].count})
                                                              ELSE due[p] + n]
        BY <2>1, <2>4 DEF DecideDone
      <3>2. /\ Cardinality(Of(p)) \in Nat /\ Cardinality(Now(p)) \in Nat
            /\ Cardinality(Now(p)) <= Cardinality(Of(p))
        BY FewerIsLess, Counted DEF Now, Here, Of, Listed
      <3>3. p \in MockProjects /\ seeding[s].count \in Nat /\ seeding[s].count > 0 /\ due[p] \in Nat
        BY <1>0, <3>1
      <3>4. /\ n \in Nat /\ n > 0
            /\ IF seeding[s].target THEN n = seeding[s].count - Cardinality(Of(p)) ELSE n = seeding[s].count
        BY <3>1, <3>2, <3>3 DEF Deficit
      <3>5. /\ due'[p] \in Nat /\ due'[p] >= due[p]
            /\ \A q \in MockProjects : q # p => due'[q] = due[q]
            /\ IF seeding[s].target THEN due'[p] >= seeding[s].count ELSE due'[p] = due[p] + n
        <4>1. /\ Max({due[p], seeding[s].count}) \in Nat
              /\ Max({due[p], seeding[s].count}) >= due[p]
              /\ Max({due[p], seeding[s].count}) >= seeding[s].count
          BY <3>3, MaxOfTwo
        <4>2. due'[p] = IF seeding[s].target THEN Max({due[p], seeding[s].count}) ELSE due[p] + n
          BY <1>0, <3>1, <3>3
        <4>3. \A q \in MockProjects : q # p => due'[q] = due[q] BY <1>0, <3>1
        <4> HIDE DEF n, p
        <4> QED BY <3>3, <3>4, <4>1, <4>2, <4>3
      <3>6. Cardinality(Now(p)) <= due[p] BY <3>3, Bounds DEF Within
      <3>a. due' \in [MockProjects -> Nat] BY <1>0, <3>1, <3>3, <3>5
      <3>7. Cardinality(Now(p)) + n <= due'[p] /\ Cardinality(Now(p)) + n <= ProjectCap
        <4> HIDE DEF n, p
        <4> QED BY <1>0, <3>1, <3>2, <3>3, <3>4, <3>5, <3>6
      <3>8. \A q \in MockProjects : Within(Cardinality(After(q)), due'[q])
        <4> TAKE q \in MockProjects
        <4>1. /\ Cardinality(Now(q)) <= due[q] /\ Cardinality(Now(q)) <= ProjectCap
              /\ Cardinality(Now(q)) \in Nat /\ due[q] \in Nat /\ due'[q] \in Nat /\ due'[q] >= due[q]
          BY <3>5, Bounds DEF Within
        <4>2. Cardinality(Now(q)) <= due'[q] BY <4>1
        <4> QED BY <2>2, <4>1, <4>2 DEF Within
      <3>10. \A t \in Seeders : t # s /\ seeding[t].at \in {"provision", "run"} => seeding[t].project # p
        BY <3>1 DEF Locked
      <3>11. ASSUME NEW t \in Seeders, seeding'[t].at \in {"provision", "run"}
             PROVE  Within(Cardinality(After(seeding'[t].project)) + seeding'[t].count,
                           due'[seeding'[t].project])
        <4>1. CASE t = s BY <2>2, <3>1, <3>7, <4>1 DEF Within
        <4>2. CASE t # s
          <5>1. seeding'[t] = seeding[t] /\ seeding[t].project # p /\ seeding[t].project \in MockProjects
            BY <1>0, <3>1, <3>10, <3>11, <4>2 DEF Moves
          <5>2. Within(Cardinality(Now(seeding[t].project)) + seeding[t].count, due[seeding[t].project])
            BY <3>11, <5>1, Bounds
          <5>3. due'[seeding[t].project] = due[seeding[t].project] BY <3>5, <5>1
          <5> HIDE DEF n, p
          <5> QED BY <2>2, <5>1, <5>2, <5>3 DEF Within
        <4> QED BY <4>1, <4>2
      <3> QED BY <3>8, <3>11, <3>a, BoundsKept
    <2> QED BY <2>3, <2>4
  <1>2. ASSUME NEW s \in Seeders, ProvisionMock(s) PROVE Budgeted' /\ SeedsConverge'
    <2>1. ProvisionDone(s) BY <1>2, ProvisionMoves
    <2>2. \A q : After(q) = Now(q) BY <1>d, <2>1 DEF ProvisionDone
    <2>3. /\ Moves(s) /\ seeding[s].at = "provision" /\ due' = due
          /\ \/ seeding'[s].at = "answered"
             \/ seeding'[s].project = seeding[s].project /\ seeding'[s].count = seeding[s].count
      BY <2>1 DEF ProvisionDone, Answered
    <2> QED BY <2>2, <2>3, NoMoreMocks DEF Moves
  <1>3. ASSUME NEW s \in Seeders, RunMock(s) PROVE Budgeted' /\ SeedsConverge'
    <2> DEFINE p == seeding[s].project  m == seeding[s].mock
    <2>1. RunDone(s) BY <1>3, RunMoves
    <2>2. /\ seeding[s].at = "run" /\ m \in Mocks /\ home[m] = p /\ box[m] = "none" /\ p \in MockProjects
          /\ Moves(s) /\ due' = due /\ home' = home
          /\ seeding[s].count \in Nat /\ seeding[s].count > 0
      BY <1>0, <2>1 DEF RunDone
    <2>3. CASE /\ box' = [box EXCEPT ![m] = "up"] /\ late' = late
               /\ \/ seeding[s].count = 1 /\ seeding'[s].at = "answered"
                  \/ /\ seeding'[s].project = p /\ seeding'[s].count = seeding[s].count - 1
                     /\ seeding[s].count # 1
      <3>1. After(p) \subseteq Now(p) \cup {m}
        <4> SUFFICES ASSUME NEW x \in After(p), x # m PROVE x \in Now(p) OBVIOUS
        <4>1. x \in Mocks /\ box'[x] \in {"up", "exited"} /\ home[x] = p /\ x \notin late BY <1>d, <2>2, <2>3
        <4>2. box'[x] = box[x] BY <1>0, <2>2, <2>3, <4>1
        <4> QED BY <1>d, <4>1, <4>2
      <3>2. \A q : q # p => After(q) \subseteq Now(q)
        BY <1>0, <1>d, <2>2, <2>3
      <3>3. Cardinality(After(p)) \in Nat /\ Cardinality(After(p)) <= Cardinality(Now(p)) + 1
        <4>1. IsFiniteSet(Now(p)) /\ Now(p) \cup {m} \in SUBSET Mocks /\ Cardinality(Now(p)) \in Nat
          BY <2>2, Bounds, Counted
        <4>2. Cardinality(Now(p) \cup {m}) <= Cardinality(Now(p)) + 1
          <5>1. Cardinality(Now(p) \cup {m}) = IF m \in Now(p) THEN Cardinality(Now(p))
                                                                ELSE Cardinality(Now(p)) + 1
            BY <4>1, FS_AddElement
          <5> HIDE DEF p, m
          <5> QED BY <4>1, <5>1
        <4>3. /\ Cardinality(After(p)) \in Nat /\ Cardinality(Now(p) \cup {m}) \in Nat
              /\ Cardinality(After(p)) <= Cardinality(Now(p) \cup {m})
          BY <3>1, <4>1, FewerIsLess, Counted
        <4> HIDE DEF p, m
        <4> QED BY <4>1, <4>2, <4>3
      <3>4. \A q \in MockProjects : q # p =>
              Cardinality(After(q)) \in Nat /\ Cardinality(After(q)) <= Cardinality(Now(q))
        BY <3>2, Bounds, FewerIsLess
      <3>5. Within(Cardinality(Now(p)) + seeding[s].count, due[p]) BY <2>2, Bounds
      <3>6. Cardinality(Now(p)) \in Nat /\ due[p] \in Nat BY <2>2, Bounds
      <3>7. Within(Cardinality(After(p)) + (seeding[s].count - 1), due[p])
        <4> HIDE DEF p
        <4> QED BY <1>0, <2>2, <3>3, <3>5, <3>6 DEF Within
      <3>8. \A q \in MockProjects : Within(Cardinality(After(q)), due'[q])
        <4> TAKE q \in MockProjects
        <4>1. CASE q = p
          <5> HIDE DEF p
          <5> QED BY <1>0, <2>2, <3>3, <3>5, <3>6, <4>1 DEF Within
        <4>2. CASE q # p
          <5>1. Within(Cardinality(Now(q)), due[q]) /\ Cardinality(Now(q)) \in Nat /\ due[q] \in Nat
            BY Bounds
          <5> QED BY <1>0, <2>2, <3>4, <4>2, <5>1 DEF Within
        <4> QED BY <4>1, <4>2
      <3>9. \A t \in Seeders : t # s /\ seeding[t].at \in {"provision", "run"} => seeding[t].project # p
        BY <1>0, <2>2 DEF Working
      <3>10. ASSUME NEW t \in Seeders, seeding'[t].at \in {"provision", "run"}
             PROVE  Within(Cardinality(After(seeding'[t].project)) + seeding'[t].count,
                           due'[seeding'[t].project])
        <4>1. CASE t = s BY <2>2, <2>3, <3>7, <3>10, <4>1
        <4>2. CASE t # s
          <5> DEFINE q == seeding[t].project
          <5>1. seeding'[t] = seeding[t] /\ q # p /\ q \in MockProjects
            BY <1>0, <2>2, <3>9, <3>10, <4>2 DEF Moves
          <5>2. /\ Within(Cardinality(Now(q)) + seeding[t].count, due[q])
                /\ Cardinality(Now(q)) \in Nat /\ due[q] \in Nat /\ seeding[t].count \in Nat
            BY <1>0, <3>10, <5>1, Bounds
          <5>3. Cardinality(After(q)) \in Nat /\ Cardinality(After(q)) <= Cardinality(Now(q))
            BY <3>4, <5>1
          <5>4. Within(Cardinality(After(q)) + seeding[t].count, due[q])
            <6> HIDE DEF q, p
            <6> QED BY <1>0, <5>2, <5>3 DEF Within
          <5> QED BY <2>2, <5>1, <5>4
        <4> QED BY <4>1, <4>2
      <3> QED BY <1>0, <2>2, <3>8, <3>10, BoundsKept
    <2>4. CASE /\ \/ box' = [box EXCEPT ![m] = "none"] /\ late' = late
                  \/ box' = [box EXCEPT ![m] = "starting"] /\ late' = late \cup {m}
               /\ seeding'[s].at = "undo"
      <3>1. \A q : After(q) \subseteq Now(q) BY <1>0, <1>d, <2>2, <2>4
      <3> QED BY <2>2, <2>4, <3>1, NoMoreMocks DEF Moves
    <2> QED BY <2>1, <2>3, <2>4 DEF RunDone, Answered
  <1>4. ASSUME NEW s \in Seeders, Undo(s) PROVE Budgeted' /\ SeedsConverge'
    <2>1. UndoDone(s) BY <1>4, UndoMoves
    <2>2. \A q : After(q) = Now(q) BY <1>d, <2>1 DEF UndoDone
    <2>3. Moves(s) /\ seeding'[s].at = "answered" /\ due' = due
      BY <2>1 DEF UndoDone, Answered
    <2> QED BY <2>2, <2>3, NoMoreMocks DEF Moves
  <1>5. ASSUME Elsewhere PROVE Budgeted' /\ SeedsConverge'
    <2>1. UNCHANGED <<home, seeding, due>> BY <1>5, ElsewhereRests
    <2>2. \A q : After(q) \subseteq Now(q)
      <3>1. ASSUME NEW m \in Mocks, StartsLate(m) \/ Exits(m) \/ LabelRunsOut(m) \/ Renew(m) \/ LeaseRunsOut(m)
            PROVE \A q : After(q) \subseteq Now(q)
        <4>1. /\ late' = late
              /\ \/ box' = box
                 \/ box[m] = "starting" /\ box' = [box EXCEPT ![m] = "up"]
                 \/ box[m] = "up" /\ box' = [box EXCEPT ![m] = "exited"]
          BY <3>1 DEF StartsLate, Exits, LabelRunsOut, Renew, LeaseRunsOut
        <4> QED BY <1>0, <1>d, <2>1, <4>1
      <3>2. ASSUME NEW m \in Mocks, Removes(m)
            PROVE \A q : After(q) \subseteq Now(q)
        <4>1. box' = [box EXCEPT ![m] = "gone"] /\ late' = late \ {m} BY <3>2 DEF Removes
        <4> QED BY <1>0, <1>d, <2>1, <4>1
      <3>3. CASE UNCHANGED <<box, late>> BY <1>d, <2>1, <3>3
      <3>4. SweepKills => sweep.mock \in Mocks BY DEF SweepKills, MocksInv, LeaseInv, Running
      <3>5. CASE \E m \in Mocks : Delete(m) BY <3>2, <3>5 DEF Delete
      <3>6. CASE SweepKills BY <3>2, <3>4, <3>6 DEF SweepKills
      <3>7. CASE \E m \in Mocks : DeleteCerts(m) BY <3>3, <3>7 DEF DeleteCerts
      <3>8. CASE \E p \in MockProjects : Ping(p) BY <3>3, <3>8 DEF Ping
      <3>9. CASE SweepLists \/ Prune \/ Walk \/ SweepOver \/ SweepStuck \/ SweepCerts
        BY <3>3, <3>9 DEF SweepLists, Prune, Walk, SweepOver, SweepStuck, SweepCerts
      <3> QED BY <1>5, <3>1, <3>5, <3>6, <3>7, <3>8, <3>9 DEF Elsewhere, SweepStep
    <2> QED BY <2>1, <2>2, NoMoreMocks
  <1>6. ASSUME ControllerRestarts PROVE Budgeted' /\ SeedsConverge'
    <2>1. PICK started \in SUBSET {m \in Mocks : \E s \in Seeders :
                                             seeding[s].at = "run" /\ seeding[s].mock = m} :
             /\ box' = [m \in Mocks |-> IF m \in started THEN "starting" ELSE box[m]]
             /\ late' = late \cup started
      BY <1>6 DEF ControllerRestarts
    <2>2. /\ home' = home /\ due' = due
          /\ seeding' = [s \in Seeders |-> IF seeding[s].mock = NoMock THEN seeding[s] ELSE Answered]
      BY <1>6 DEF ControllerRestarts
    <2>3. \A q : After(q) \subseteq Now(q) BY <1>d, <2>1, <2>2
    <2>4. \A s \in Seeders : seeding'[s] = seeding[s] \/ seeding'[s].at = "answered"
      BY <2>2 DEF Answered
    <2> QED BY <2>2, <2>3, <2>4, NoMoreMocks
  <1> QED BY <1>1, <1>2, <1>3, <1>4, <1>5, <1>6 DEF ControllerNext, Elsewhere

(* Every step keeps the invariant.                                         *)
LEMMA MocksStep == MocksInv /\ [ControllerNext]_controllerVars /\ LeaseInv' => MocksInv'
  <1>1. CASE ControllerNext BY <1>1, ControllerTypes, CallsSafe, CertsSafe, BudgetSafe DEF MocksInv
  <1>2. CASE UNCHANGED controllerVars
    BY <1>2 DEF controllerVars, MocksInv, ControllerTypeOK, Calls, Working, Certified, CertsFollow, Budgeted,
                SeedsConverge, Spawned, Of, Listed
  <1> QED BY <1>1, <1>2

(* The inductive invariant, of every behaviour of the controller: the lock *)
(* gives each project one call at work, whose remaining spawns and the     *)
(* mocks docker shows are together within what is due (server.py:80-150).  *)
THEOREM MocksHold == ControllerSpec => []MocksInv
  <1>1. ControllerInit => MocksInv  BY LeaseInvInit, MocksStart
  <1>2. MocksInv /\ [ControllerNext]_controllerVars => MocksInv'
    BY LeaseInvStep, MocksStep DEF MocksInv
  <1> QED BY <1>1, <1>2, PTL DEF ControllerSpec

(* However calls race, fail and are cut off, no project has more mocks     *)
(* than were asked for or than its cap, a mock that runs has its           *)
(* certificate, and the reaper goes at no leased mock (server.py:80-150,   *)
(* provision.py:84-125, reaper.py:39-77).                                  *)
THEOREM MocksAreSound == ControllerSpec => []MocksSound
  <1>1. MocksInv => MocksSound  BY DEF MocksInv, LeaseInv, MocksSound
  <1> QED BY <1>1, MocksHold, PTL

=============================================================================
