--------------------------- MODULE FleetCommands ---------------------------
(***************************************************************************)
(* The command path of the fleet server: send_command, the router's        *)
(* registrations and its reconnecting loop, the broker's QoS 0 delivery,   *)
(* and a device that verifies, runs and answers what it is sent.  A call   *)
(* stands for one send_command; its name is also the nonce of its command. *)
(* An answer carries no nonce: the router gives whatever response arrives  *)
(* to whichever call is registered for the device.                         *)
(***************************************************************************)
EXTENDS Naturals, Sequences, SequencesExt

CONSTANTS
  Calls,          \* send_command calls, each made once
  Boards,         \* devices
  Target,         \* [Calls -> Boards]
  Reboots,        \* the calls whose action is "reboot"
  Overlapping,    \* whether a call may start while another to its device runs
  RingSize,       \* nonces a device remembers
  LateSubscribers,\* devices that announce themselves before they subscribe
  MaxDrops,       \* links lost, per device, by a crash or by the network
  MaxRouterLosses,\* losses of the router's own connection to the broker
  NoCall          \* no call registered, or no answer yet

ASSUME CommandAssumption ==
  /\ Target \in [Calls -> Boards]
  /\ Reboots \subseteq Calls
  /\ Overlapping \in BOOLEAN
  /\ LateSubscribers \subseteq Boards
  /\ RingSize \in Nat \ {0}
  /\ MaxDrops \in Nat /\ MaxRouterLosses \in Nat
  /\ NoCall \notin Calls

CallStates == {"new", "audited", "publishing", "waiting",
               "answered", "timed_out", "failed"}
UnderWay == {"audited", "publishing", "waiting"}   \* send_command has not returned
Returned == {"answered", "timed_out", "failed"}
Registered == {"publishing", "waiting"}            \* between register and finally
LinkStates == {"down", "connected", "subscribed"}
Report == [kind : {"online", "offline", "crash", "ota_event"}, board : Boards]
            \cup [kind : {"response"}, board : Boards, call : Calls]

VARIABLES
  callState,   \* where each send_command is
  answer,      \* what its future was resolved with
  pendingFor,  \* router._pending
  redeliverFor,\* router._redeliver
  routerUp,    \* router._router_client is not None
  routerLosses,\* times the router lost the broker
  toRouter,    \* messages the router's client has queued, in order
  toBoard,     \* commands on the wire to each board, in order
  link,        \* each board's MQTT session
  drops,       \* links each board has lost
  crashed,     \* boards with a crash of the boot before to report
  ring,        \* each board's nonce ring, in RAM
  ranNow,      \* commands each board has run in this boot, in order
  ranEver      \* commands any board has ever run

commandVars == <<callState, answer, pendingFor, redeliverFor, routerUp, routerLosses,
                 toRouter, toBoard, link, drops, crashed, ring, ranNow, ranEver>>
callVars   == <<callState, answer, pendingFor, redeliverFor>>
routerVars == <<routerUp, routerLosses>>
boardVars  == <<link, drops, crashed, ring, ranNow, ranEver>>

CommandInit ==
  /\ callState = [c \in Calls |-> "new"]
  /\ answer = [c \in Calls |-> NoCall]
  /\ pendingFor = [b \in Boards |-> NoCall]
  /\ redeliverFor = [b \in Boards |-> NoCall]
  /\ routerUp = TRUE /\ routerLosses = 0
  /\ toRouter = << >>
  /\ toBoard = [b \in Boards |-> << >>]
  /\ link = [b \in Boards |-> "down"]
  /\ drops = [b \in Boards |-> 0]
  /\ crashed = {}
  /\ ring = [b \in Boards |-> << >>]
  /\ ranNow = [b \in Boards |-> << >>]
  /\ ranEver = {}

(* What the broker does with a QoS 0 message: it reaches a subscriber that *)
(* is there, and nobody else.                                              *)
ToBoard(b, c) ==
  toBoard' = IF link[b] = "subscribed" THEN [toBoard EXCEPT ![b] = Append(@, c)] ELSE toBoard
Hears(queue, m) == IF routerUp THEN Append(queue, m) ELSE queue
ToRouter(m) == toRouter' = Hears(toRouter, m)

----------------------------------------------------------------------------
(* send_command: sign and audit; register; publish; wait; unregister.      *)

LogCommand(c) ==
  /\ callState[c] = "new"
  /\ ~Overlapping => \A e \in Calls : Target[e] = Target[c] => callState[e] \notin UnderWay
  /\ callState' = [callState EXCEPT ![c] = "audited"]
  /\ UNCHANGED <<answer, pendingFor, redeliverFor, routerVars, toRouter, toBoard, boardVars>>

Register(c) ==
  /\ callState[c] = "audited"
  /\ callState' = [callState EXCEPT ![c] = "publishing"]
  /\ pendingFor' = [pendingFor EXCEPT ![Target[c]] = c]
  /\ redeliverFor' = [redeliverFor EXCEPT ![Target[c]] = c]
  /\ UNCHANGED <<answer, routerVars, toRouter, toBoard, boardVars>>

(* The finally clause: it forgets whatever is registered for the device.   *)
Unregister(b) ==
  /\ pendingFor' = [pendingFor EXCEPT ![b] = NoCall]
  /\ redeliverFor' = [redeliverFor EXCEPT ![b] = NoCall]

PublishCommand(c) ==
  /\ callState[c] = "publishing"
  /\ \/ /\ routerUp
        /\ ToBoard(Target[c], c)
        /\ callState' = [callState EXCEPT ![c] = "waiting"]
        /\ UNCHANGED <<pendingFor, redeliverFor>>
     \/ /\ ~routerUp
        /\ callState' = [callState EXCEPT ![c] = "failed"]
        /\ Unregister(Target[c])
        /\ UNCHANGED toBoard
  /\ UNCHANGED <<answer, routerVars, toRouter, boardVars>>

CallReturns(c) ==
  /\ callState[c] = "waiting"
  /\ \/ answer[c] # NoCall /\ callState' = [callState EXCEPT ![c] = "answered"]
     \/ answer[c] = NoCall /\ callState' = [callState EXCEPT ![c] = "timed_out"]
  /\ Unregister(Target[c])
  /\ UNCHANGED <<answer, routerVars, toRouter, toBoard, boardVars>>

----------------------------------------------------------------------------
(* The router: one message at a time, and a loop that reconnects.          *)

ResolveResponse(b, c) ==
  LET waiting == pendingFor[b]
  IN  answer' = IF waiting # NoCall /\ answer[waiting] = NoCall
                  THEN [answer EXCEPT ![waiting] = c] ELSE answer

NeverRedelivers(b) == UNCHANGED toBoard

MaybeRedeliver(b) ==
  LET c == redeliverFor[b]
      done == pendingFor[b] # NoCall /\ answer[pendingFor[b]] # NoCall
  IN  IF c # NoCall /\ ~done /\ routerUp THEN ToBoard(b, c) ELSE UNCHANGED toBoard

TakesEventsForAnswers ==
  /\ routerUp /\ toRouter # << >>
  /\ toRouter' = Tail(toRouter)
  /\ LET m == Head(toRouter)
     IN  \/ m.kind \in {"online", "crash"} /\ MaybeRedeliver(m.board) /\ UNCHANGED answer
         \/ m.kind = "response" /\ ResolveResponse(m.board, m.call) /\ UNCHANGED toBoard
         \/ m.kind = "ota_event" /\ ResolveResponse(m.board, m.board) /\ UNCHANGED toBoard
         \/ m.kind = "offline" /\ UNCHANGED <<answer, toBoard>>
  /\ UNCHANGED <<callState, pendingFor, redeliverFor, routerVars, boardVars>>

HandleMessage ==
  /\ routerUp /\ toRouter # << >>
  /\ toRouter' = Tail(toRouter)
  /\ LET m == Head(toRouter)
     IN  \/ m.kind \in {"online", "crash"} /\ MaybeRedeliver(m.board) /\ UNCHANGED answer
         \/ m.kind = "response" /\ ResolveResponse(m.board, m.call) /\ UNCHANGED toBoard
         \/ m.kind \in {"offline", "ota_event"} /\ UNCHANGED <<answer, toBoard>>
  /\ UNCHANGED <<callState, pendingFor, redeliverFor, routerVars, boardVars>>

(* Its session is clean, so what it had not handled is gone.               *)
RouterLoses ==
  /\ routerUp /\ routerLosses < MaxRouterLosses
  /\ routerUp' = FALSE /\ routerLosses' = routerLosses + 1
  /\ toRouter' = << >>
  /\ UNCHANGED <<callVars, toBoard, boardVars>>

RouterReconnects ==
  /\ ~routerUp
  /\ routerUp' = TRUE
  /\ UNCHANGED <<callVars, routerLosses, toRouter, toBoard, boardVars>>

----------------------------------------------------------------------------
(* A device: its session, what it publishes, and what it does with a       *)
(* command.                                                                *)

(* The announcement after a connect: a heartbeat, then a crash to report.  *)
Announce(b) ==
  LET beat == Hears(toRouter, [kind |-> "online", board |-> b])
  IN  /\ toRouter' = IF b \in crashed THEN Hears(beat, [kind |-> "crash", board |-> b]) ELSE beat
      /\ crashed' = crashed \ {b}

Connect(b) ==
  /\ link[b] = "down"
  /\ Announce(b)
  /\ link' = [link EXCEPT ![b] = IF b \in LateSubscribers THEN "connected" ELSE "subscribed"]
  /\ UNCHANGED <<callVars, routerVars, toBoard, drops, ring, ranNow, ranEver>>

Subscribe(b) ==
  /\ link[b] = "connected"
  /\ link' = [link EXCEPT ![b] = "subscribed"]
  /\ UNCHANGED <<callVars, routerVars, toRouter, toBoard, drops, crashed, ring, ranNow, ranEver>>

(* A bound: a board beats when the wire holds nothing of its own either    *)
(* way, its period being long beside a round trip.                         *)
Quiet(b) == toBoard[b] = << >> /\ \A i \in 1..Len(toRouter) : toRouter[i].board # b

Beat(b) ==
  /\ link[b] = "subscribed" /\ Quiet(b)
  /\ \E kind \in {"online", "ota_event"} : ToRouter([kind |-> kind, board |-> b])
  /\ UNCHANGED <<callVars, routerVars, toBoard, boardVars>>

(* The session ends, what was on the wire to the board is lost, and the    *)
(* broker publishes its last will.  A reset also clears the nonce ring.    *)
SessionEnds(b) ==
  /\ link' = [link EXCEPT ![b] = "down"]
  /\ toBoard' = [toBoard EXCEPT ![b] = << >>]

LinkDrops(b) ==
  /\ link[b] # "down" /\ drops[b] < MaxDrops
  /\ drops' = [drops EXCEPT ![b] = @ + 1]
  /\ SessionEnds(b)
  /\ ToRouter([kind |-> "offline", board |-> b])
  /\ UNCHANGED <<callVars, routerVars, crashed, ring, ranNow, ranEver>>

Crash(b) ==
  /\ link[b] # "down" /\ drops[b] < MaxDrops
  /\ drops' = [drops EXCEPT ![b] = @ + 1]
  /\ SessionEnds(b)
  /\ ToRouter([kind |-> "offline", board |-> b])
  /\ crashed' = crashed \cup {b}
  /\ ring' = [ring EXCEPT ![b] = << >>]
  /\ ranNow' = [ranNow EXCEPT ![b] = << >>]
  /\ UNCHANGED <<callVars, routerVars, ranEver>>

RemembersNothing(b, c) == ring[b]

Remember(b, c) ==
  IF Len(ring[b]) = RingSize THEN Append(Tail(ring[b]), c) ELSE Append(ring[b], c)

RejectReplay(b) ==
  /\ toBoard[b] # << >> /\ Contains(ring[b], Head(toBoard[b]))
  /\ toBoard' = [toBoard EXCEPT ![b] = Tail(@)]
  /\ UNCHANGED <<callVars, routerVars, toRouter, boardVars>>

Answers(b, c) == ToRouter([kind |-> "response", board |-> b, call |-> c])

RunCommand(b) ==
  /\ toBoard[b] # << >> /\ ~Contains(ring[b], Head(toBoard[b]))
  /\ LET c == Head(toBoard[b])
     IN  /\ c \notin Reboots
         /\ ring' = [ring EXCEPT ![b] = Remember(b, c)]
         /\ ranNow' = [ranNow EXCEPT ![b] = Append(@, c)]
         /\ ranEver' = ranEver \cup {c}
         /\ Answers(b, c)
  /\ toBoard' = [toBoard EXCEPT ![b] = Tail(@)]
  /\ UNCHANGED <<callVars, routerVars, link, drops, crashed>>

(* A reboot answers first, and takes the nonce of the command with it.     *)
RunReboot(b) ==
  /\ toBoard[b] # << >> /\ ~Contains(ring[b], Head(toBoard[b]))
  /\ Head(toBoard[b]) \in Reboots
  /\ Answers(b, Head(toBoard[b]))
  /\ ranEver' = ranEver \cup {Head(toBoard[b])}
  /\ ring' = [ring EXCEPT ![b] = << >>]
  /\ ranNow' = [ranNow EXCEPT ![b] = << >>]
  /\ SessionEnds(b)
  /\ UNCHANGED <<callVars, routerVars, drops, crashed>>

----------------------------------------------------------------------------
CallStep(c) == LogCommand(c) \/ Register(c) \/ PublishCommand(c) \/ CallReturns(c)
RouterStep == HandleMessage \/ RouterLoses \/ RouterReconnects
Receive(b) == RejectReplay(b) \/ RunCommand(b) \/ RunReboot(b)
BoardStep(b) == Connect(b) \/ Subscribe(b) \/ Beat(b) \/ LinkDrops(b) \/ Crash(b) \/ Receive(b)

CommandNext ==
  \/ \E c \in Calls : CallStep(c)
  \/ RouterStep
  \/ \E b \in Boards : BoardStep(b)

CommandSpec == CommandInit /\ [][CommandNext]_commandVars

----------------------------------------------------------------------------
CommandTypeOK ==
  /\ callState \in [Calls -> CallStates]
  /\ answer \in [Calls -> Calls \cup {NoCall}]
  /\ pendingFor \in [Boards -> Calls \cup {NoCall}]
  /\ redeliverFor \in [Boards -> Calls \cup {NoCall}]
  /\ routerUp \in BOOLEAN /\ routerLosses \in 0..MaxRouterLosses
  /\ toRouter \in Seq(Report)
  /\ toBoard \in [Boards -> Seq(Calls)]
  /\ link \in [Boards -> LinkStates]
  /\ drops \in [Boards -> 0..MaxDrops]
  /\ crashed \subseteq Boards
  /\ ring \in [Boards -> Seq(Calls)] /\ \A b \in Boards : Len(ring[b]) <= RingSize
  /\ ranNow \in [Boards -> Seq(Calls)]
  /\ ranEver \subseteq Calls

(* A command redelivered on every sign of life runs once in a boot: its    *)
(* copies reach the device in order and the ring knows the last of them.   *)
OncePerBoot == \A b \in Boards : IsInjective(ranNow[b])

(* What is registered for a device belongs to a call to that device that   *)
(* has not returned (commands.py:39-56): nothing is redelivered for a      *)
(* caller that gave up.  The next property rests on it.                    *)
RegisteredWhileWaiting ==
  \A b \in Boards :
    /\ pendingFor[b] # NoCall =>
         Target[pendingFor[b]] = b /\ callState[pendingFor[b]] \in Registered
    /\ redeliverFor[b] = pendingFor[b]

(* When callers take turns, the answer a call gets is to its own command   *)
(* or to an earlier one for the same device whose call has returned: timed *)
(* out, failed to publish yet redelivered, or answered twice because a     *)
(* reset in between cleared the nonce ring.  A call to another device      *)
(* never gets it, and neither an update's result nor its progress,         *)
(* published on the same topic, is taken for an answer (router.py:176-187).*)
AnswersAreReplies ==
  /\ RegisteredWhileWaiting
  /\ \A c \in Calls : answer[c] # NoCall =>
       \/ answer[c] = c
       \/ /\ answer[c] \in Calls /\ Target[answer[c]] = Target[c]
          /\ callState[answer[c]] \in Returned

(* Calls, the router's tables and the answers agree (commands.py:39-96).   *)
CallsSound == CommandTypeOK /\ AnswersAreReplies

(* A command whose caller keeps waiting reaches the device, whatever link  *)
(* was lost when it was published.                                         *)
CommandLands ==
  \A c \in Calls :
    callState[c] = "waiting" ~> c \in ranEver \/ callState[c] # "waiting" \/ answer[c] # NoCall

=============================================================================
