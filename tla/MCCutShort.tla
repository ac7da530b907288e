---------------------------- MODULE MCCutShort ---------------------------
(***************************************************************************)
(* Programs that are cut short at any point: a board and an emulated one,  *)
(* the updaters of the nff binary, the workers that build firmware for a   *)
(* fix, the controller of mock devices, and the commands that install      *)
(* packages.  `subject' is the one a behaviour is about, and the others    *)
(* rest.                                                                   *)
(***************************************************************************)
EXTENDS EmulatedOta, Updater, FixJobs, MockController, PackageStore

CONSTANTS u1, u2, s1, f1, f2, w1, w2, m1, m2, m3, proj, r1, r2, ow1, ow2, ur1, t1, t2

VARIABLE subject

AnyPoint == PC

(* No action tells updaters apart.                                         *)
Alike == Permutations(Updaters)

(* Of nff: a shell and two updaters when all releases are out, or two      *)
(* updaters that a release comes between.                                  *)
UpdateCases ==
  /\ step[u1] = "idle" /\ step[u2] = "idle"
  /\ \/ hookStep[s1] = "idle" /\ released = Newest
     \/ hookStep[s1] = "closed" /\ released = 2
UpdateRests == /\ step = [u \in Updaters |-> "gone"] /\ hookStep[s1] = "closed"
               /\ ~windows /\ released = 1

(* Fixes: one call and two workers, or two calls and one worker; the calls *)
(* ask for one version of different sources, or two versions of one source.*)
FixCases ==
  /\ at[w1] = "idle" /\ callAt[f1] = "new" /\ text[f1] = 1 /\ wanted[f1] = 2
  /\ at[w2] = "off" <=> callAt[f2] = "new"
  /\ wanted[f2] = text[f2]

FixRests == /\ callAt = [f \in Fixes |-> "new"] /\ at = [w \in FixWorkers |-> "off"]
            /\ emulator /\ wanted = [f \in Fixes |-> 2] /\ text = [f \in Fixes |-> 1]

(* Mocks: two calls that race for three ids; and two calls for one mock,   *)
(* a device with a lease, with a fault or with a restart.                  *)
Callers(count1, target2, count2) ==
  /\ seeding[r1].target /\ seeding[r1].count = count1
  /\ seeding[r2].target = target2 /\ seeding[r2].count = count2
MockCases ==
  \/ /\ box = [m \in Mocks |-> "none"] /\ ~heavy
     /\ Callers(2, TRUE, 2) \/ Callers(2, FALSE, 1)
     /\ controlFaults = MaxControlFaults /\ controlRestarts = MaxControlRestarts
  \/ /\ box = [m \in Mocks |-> IF m = m3 THEN "gone" ELSE "none"] /\ heavy
     /\ Callers(1, TRUE, 1)
     /\ \/ controlFaults = MaxControlFaults /\ controlRestarts = 0
        \/ controlFaults = 0 /\ controlRestarts = MaxControlRestarts
MockRests == /\ box = [m \in Mocks |-> "gone"] /\ ~heavy /\ controlFaults = 0
             /\ seeding = [s \in Seeders |-> Answered] /\ controlRestarts = 0

(* Packages: one owner publishes what the other does and more, and there   *)
(* is one that outranks it elsewhere; commands in one terminal that may be *)
(* cut short, or in two terminals at a time.                               *)
OwnersPublish == (ow1 :> {1, 2, 3}) @@ (ow2 :> {1})
UriLeadsTo == ur1 :> 2
PackageRequests ==
  {[owner |-> ow1, versions |-> {1}, uri |-> Nothing],
   [owner |-> ow1, versions |-> {1, 2}, uri |-> Nothing],
   [owner |-> Nothing, versions |-> {1, 2, 3}, uri |-> Nothing],
   [owner |-> Nothing, versions |-> {}, uri |-> ur1]}
PackageCases ==
  /\ cmd[t1] = Resting
  /\ \/ cmd[t2] = Closed /\ commands = 0 /\ ioFailures = 0 /\ kills = 0
     \/ /\ cmd[t2] = Resting /\ commands = MaxCommands - 2
        /\ ioFailures = MaxIoFailures /\ kills = MaxKills
PackageRests == /\ cmd = [t \in Terminals |-> Closed]
                /\ commands = 0 /\ ioFailures = 0 /\ kills = 0

CutShortInit ==
  /\ subject \in {"board", "emulated board", "nff", "fixes", "mocks", "packages"}
  /\ Init
  /\ UpdaterInit /\ IF subject = "nff" THEN UpdateCases ELSE UpdateRests
  /\ FixInit /\ IF subject = "fixes" THEN FixCases ELSE FixRests
  /\ ControllerInit /\ IF subject = "mocks" THEN MockCases ELSE MockRests
  /\ PackageInit /\ IF subject = "packages" THEN PackageCases ELSE PackageRests

(* Commands, fixes and mocks end, and boards do not.                       *)
CutShortNext ==
  /\ UNCHANGED subject
  /\ \/ subject = "board" /\ Next
     \/ subject = "emulated board" /\ EmulatedNext
     \/ subject \notin {"board", "emulated board"} /\ UNCHANGED vars
  /\ \/ subject = "nff" /\ UpdaterNext
     \/ UNCHANGED updaterVars
  /\ \/ subject = "fixes" /\ FixNext
     \/ UNCHANGED fixVars
  /\ \/ subject = "mocks" /\ ControllerNext
     \/ UNCHANGED controllerVars
  /\ \/ subject = "packages" /\ PackageNext
     \/ UNCHANGED packageVars

CutShortSpec ==
  CutShortInit
  /\ [][CutShortNext]_<<vars, updaterVars, fixVars, controllerVars, packageVars, subject>>

(* An emulated board never reports an older version than it did, whatever  *)
(* resets it: it refuses a downgrade and has no slot to fall back to       *)
(* (nff_ota.c:290-379).                                                    *)
EmulatedVersionMonotone ==
  [][subject = "emulated board" => fw' >= fw]_<<vars, subject>>

=============================================================================
