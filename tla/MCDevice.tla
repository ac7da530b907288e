------------------------------ MODULE MCDevice ------------------------------
(***************************************************************************)
(* A device that is reset only where it is safe: its updates, or its MQTT  *)
(* session; and the bench where one is repaired.  `subject' is the one a   *)
(* behaviour is about, the others rest.                                    *)
(***************************************************************************)
EXTENDS DeviceOta, DeviceSession, BenchPolicy

CONSTANTS o1, o2, v1, v2, cX, cY

VARIABLE subject

updating == subject = "update"
talking  == subject = "session"
repairing == subject = "bench"

(* Two crashes that take turns, seen on the serial port; one was flashed   *)
(* away, and went away by itself.                                          *)
Alternating ==
  LET times(k) == [count |-> k, ok |-> k]
  IN  (Edge(Healthy, "serial_read", cX) :> times(1)) @@ (Edge(cX, "flash", Healthy) :> times(1)) @@
      (Edge(cX, "serial_read", cY) :> times(2)) @@ (Edge(cY, "serial_read", cX) :> times(2)) @@
      (Edge(cX, "serial_read", Healthy) :> times(1))
EarlierSessions == {Alternating}

(* One server that has learned something, or two at a time.                *)
BenchCases ==
  /\ tap[v1] = Restful
  /\ IF tap[v2] = Absent THEN policyFile # NoFile /\ toolCalls = 0
     ELSE toolCalls = MaxToolCalls - 2
BenchRests == tap = [s \in Servers |-> Absent] /\ policyFile = NoFile /\ toolCalls = 0

DeviceInit ==
  /\ subject \in {"update", "session", "bench"}
  /\ Init /\ SessionInit
  /\ BenchInit /\ IF repairing THEN BenchCases ELSE BenchRests

(* A bench may come to rest, a device does not.                            *)
DeviceNext ==
  /\ UNCHANGED subject
  /\ \/ updating /\ Next
     \/ ~updating /\ UNCHANGED vars
  /\ \/ talking /\ SessionNext
     \/ ~talking /\ UNCHANGED sessionVars
  /\ \/ repairing /\ BenchNext
     \/ UNCHANGED benchVars

(* The firmware keeps running its loop, and time passes.                   *)
DeviceFairness ==
  /\ WF_vars(updating /\ (BootSteps \/ RollbackSteps \/ CommitSteps \/ InstallSteps))
  /\ WF_vars(updating /\ Elapse)
  /\ WF_vars(updating /\ TrialTick)
  /\ WF_sessionVars(talking /\ LoopStep)

DeviceSpec == DeviceInit /\ [][DeviceNext]_<<subject, vars, sessionVars, benchVars>> /\ DeviceFairness

=============================================================================
