------------------------------ MODULE MCFleet ------------------------------
(***************************************************************************)
(* The parts around devices and deployments that share no state, checked   *)
(* in one run: `subject' is the part a behaviour is about, the others rest.*)
(***************************************************************************)
EXTENDS FleetCommands, MockDevice, FleetEnrolment, FleetPresence, FixJobs, MockController, TLC

VARIABLE subject

benchVars == <<subject, commandVars, mockVars, enrolVars, presenceVars, fixVars, controllerVars>>

CONSTANTS c1, c2, b1, h1, d1, proj, f1, w1, w2, m1, r1

(* One fix of a compiled board, of one worker or two.                      *)
FixCase  == at[w1] = "idle" /\ callAt[f1] = "new" /\ emulator
FixRests == at = [w \in FixWorkers |-> "off"] /\ callAt[f1] = "new" /\ emulator

(* One mock, of one call.                                                  *)
MockCase  == box[m1] = "none" /\ seeding[r1] # Answered /\ controlFaults = 0
MockRests == box[m1] = "gone" /\ seeding[r1] = Answered /\ controlFaults = 0 /\ ~heavy

BenchInit ==
  /\ subject \in {"commands", "mock", "enrolment", "presence", "fixes", "mocks"}
  /\ CommandInit /\ MockInit /\ EnrolInit /\ PresenceInit
  /\ FixInit /\ IF subject = "fixes" THEN FixCase ELSE FixRests
  /\ ControllerInit /\ controlRestarts = 0
  /\ IF subject = "mocks" THEN MockCase ELSE MockRests

BenchNext ==
  /\ UNCHANGED subject
  /\ \/ subject = "commands" /\ CommandNext
     \/ subject # "commands" /\ UNCHANGED commandVars
  /\ \/ subject = "mock" /\ MockNext
     \/ subject # "mock" /\ UNCHANGED mockVars
  /\ \/ subject = "enrolment" /\ EnrolNext
     \/ subject # "enrolment" /\ UNCHANGED enrolVars
  /\ \/ subject = "presence" /\ PresenceNext
     \/ subject # "presence" /\ UNCHANGED presenceVars
  /\ \/ subject = "fixes" /\ FixNext
     \/ subject # "fixes" /\ UNCHANGED fixVars
  /\ \/ subject = "mocks" /\ ControllerNext
     \/ subject # "mocks" /\ UNCHANGED controllerVars

ToB1 == [c \in Calls |-> b1]

(* Fairness, of the part a behaviour is about.                             *)
commanding == subject = "commands"
enrolling  == subject = "enrolment"
present    == subject = "presence"
fixing     == subject = "fixes"

(* The event loop runs a call until it waits, the router handles what it   *)
(* has and reconnects, a board in reach connects, beats and reads.  Whether *)
(* a call times out is left to chance.                                     *)
CommandFairness ==
  /\ \A c \in Calls : WF_commandVars(commanding /\ (Register(c) \/ PublishCommand(c)))
  /\ WF_commandVars(commanding /\ HandleMessage)
  /\ WF_commandVars(commanding /\ RouterReconnects)
  /\ \A b \in Boards :
       /\ WF_commandVars(commanding /\ (Connect(b) \/ Subscribe(b)))
       /\ SF_commandVars(commanding /\ Beat(b) /\ toRouter' # toRouter
                           /\ Last(toRouter').kind = "online")
       /\ WF_commandVars(commanding /\ Receive(b))

(* The worker sweeps and the router reads forever, a grace period ends, a  *)
(* unit in reach connects, beats and applies what it receives.             *)
EnrolFairness ==
  /\ WF_enrolVars(enrolling /\ (Reconcile({}) \/ Fulfil))
  /\ SF_enrolVars(enrolling /\ Reconcile(Stale) /\ Stale # {})
  /\ WF_enrolVars(enrolling /\ RouteEnrolment)
  /\ \A h \in Hwids : /\ WF_enrolVars(enrolling /\ ConnectUnit(h))
                      /\ WF_enrolVars(enrolling /\ BeatClaimed(h))
                      /\ SF_enrolVars(enrolling /\ ApplyRollover(h))

(* Time passes, the reaper sweeps, the router reads and reconnects, writes *)
(* end, a member in reach beats.                                           *)
PresenceFairness ==
  /\ WF_presenceVars(present /\ HandleBeat) /\ WF_presenceVars(present /\ RouterSubscribes)
  /\ \A d \in Members :
       /\ WF_presenceVars(present /\ Overdue(d)) /\ WF_presenceVars(present /\ Reap(d))
       /\ WF_presenceVars(present /\ FinishWrite(d)) /\ WF_presenceVars(present /\ Beats(d))

(* A worker sweeps and builds for as long as it runs, and time passes.     *)
FixFairness ==
  /\ \A w \in FixWorkers : WF_fixVars(fixing /\ WorkerStep(w))
  /\ \A f \in Fixes : WF_fixVars(fixing /\ RunsLate(f))

(* The reaper sweeps for as long as the controller runs.                   *)
ReaperFairness == WF_controllerVars(subject = "mocks" /\ SweepStep)

BenchSpec == /\ BenchInit /\ [][BenchNext]_benchVars
             /\ CommandFairness /\ EnrolFairness /\ PresenceFairness /\ FixFairness /\ ReaperFairness

=============================================================================
