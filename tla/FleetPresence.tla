--------------------------- MODULE FleetPresence ---------------------------
(***************************************************************************)
(* Presence: a member's retained heartbeats and its last will reach the    *)
(* router, which keeps the registry and starts one fire-and-forget task    *)
(* per message to write the member's database row; the reaper marks the    *)
(* members that fell silent, once each.                                    *)
(***************************************************************************)
EXTENDS Naturals, Sequences, FiniteSets

CONSTANTS
  Members,          \* devices
  MaxRowFailures,   \* database writes that fail
  MaxReconnects,    \* times the router loses its connection to the broker
  MaxPresenceRestarts,
  MaxFallSilent,    \* times a member stops
  MaxBacklog        \* messages on their way, and writes of one row at once

ASSUME PresenceAssumption ==
  /\ IsFiniteSet(Members)
  /\ MaxRowFailures \in Nat /\ MaxReconnects \in Nat
  /\ MaxPresenceRestarts \in Nat /\ MaxFallSilent \in Nat /\ MaxBacklog \in Nat \ {0}

Condition == {"silent", "online", "error"}   \* a beat carries one of the last two
Status == {"online", "error", "offline"}

VARIABLES
  condition,  \* what each member is doing
  retained,   \* the broker's retained message on each heartbeat topic
  listening,  \* the router is connected
  inbox,      \* messages on their way to it, in order
  registry,   \* status of the members it knows, and whether two beats are missing
  writing,    \* statuses being written to each row, in the order they were started
  row,        \* devices.status
  doubt,      \* the last write was lost, or was started while another was running
  upsets      \* counters of the bounds

presenceVars == <<condition, retained, listening, inbox, registry, writing, row, doubt, upsets>>

Unknown == [status |-> "unknown", late |-> FALSE]

PresenceInit ==
  /\ condition = [d \in Members |-> "silent"]
  /\ retained = [d \in Members |-> "none"]
  /\ listening = TRUE /\ inbox = << >>
  /\ registry = [d \in Members |-> Unknown]
  /\ writing = [d \in Members |-> << >>]
  /\ row = [d \in Members |-> "none"]
  /\ doubt = [d \in Members |-> FALSE]
  /\ upsets = [failures |-> 0, reconnects |-> 0, restarts |-> 0, silent |-> 0]

----------------------------------------------------------------------------
(* Members and the broker.                                                 *)

Retain(d, status) ==
  /\ retained' = [retained EXCEPT ![d] = status]
  /\ inbox' = IF listening THEN Append(inbox, [member |-> d, status |-> status]) ELSE inbox

(* A member starts, or goes on in a different condition, with a beat.      *)
Shows(d) ==
  /\ Len(inbox) < MaxBacklog
  /\ \E now \in Condition \ {"silent", condition[d]} :
       condition' = [condition EXCEPT ![d] = now] /\ Retain(d, now)
  /\ UNCHANGED <<listening, registry, writing, row, doubt, upsets>>

(* The periodic beat; one on its way is enough (a bound).                  *)
Beats(d) ==
  /\ condition[d] # "silent" /\ \A i \in DOMAIN inbox : inbox[i].member # d
  /\ Retain(d, condition[d])
  /\ UNCHANGED <<condition, listening, registry, writing, row, doubt, upsets>>

(* The broker may or may not get to publish the will.                      *)
FallsSilent(d) ==
  /\ condition[d] # "silent" /\ upsets.silent < MaxFallSilent
  /\ upsets' = [upsets EXCEPT !.silent = @ + 1]
  /\ condition' = [condition EXCEPT ![d] = "silent"]
  /\ \/ Retain(d, "offline")
     \/ UNCHANGED <<retained, inbox>>
  /\ UNCHANGED <<listening, registry, writing, row, doubt>>

----------------------------------------------------------------------------
(* The router.                                                             *)

StartWrite(d, status) ==
  /\ writing' = [writing EXCEPT ![d] = Append(@, status)]
  /\ doubt' = [doubt EXCEPT ![d] = writing[d] # << >>]

(* update_heartbeat, and set_offline for a will.                           *)
HeardAsOnline(status) == [status |-> "online", late |-> FALSE]
Heard(status) == [status |-> status, late |-> FALSE]

UpdateHeartbeat(d, status) == [registry EXCEPT ![d] = Heard(status)]

HandleBeat ==
  /\ listening /\ inbox # << >> /\ Len(writing[Head(inbox).member]) < MaxBacklog
  /\ inbox' = Tail(inbox)
  /\ registry' = UpdateHeartbeat(Head(inbox).member, Head(inbox).status)
  /\ StartWrite(Head(inbox).member, Head(inbox).status)
  /\ UNCHANGED <<condition, retained, listening, row, upsets>>

RouterDrops ==
  /\ listening /\ upsets.reconnects < MaxReconnects
  /\ upsets' = [upsets EXCEPT !.reconnects = @ + 1]
  /\ listening' = FALSE /\ inbox' = << >>
  /\ UNCHANGED <<condition, retained, registry, writing, row, doubt>>

(* Its subscription brings every retained message once more, in any order. *)
RouterSubscribes ==
  /\ ~listening
  /\ listening' = TRUE
  /\ LET held == {d \in Members : retained[d] # "none"}
     IN  \E order \in [1..Cardinality(held) -> held] :
           /\ \A i, j \in DOMAIN order : order[i] = order[j] => i = j
           /\ inbox' = [i \in DOMAIN order |-> [member |-> order[i], status |-> retained[order[i]]]]
  /\ UNCHANGED <<condition, retained, registry, writing, row, doubt, upsets>>

----------------------------------------------------------------------------
(* The reaper.                                                             *)

(* Two periods pass without a beat of the member.                          *)
Overdue(d) ==
  /\ registry[d].status # "unknown" /\ ~registry[d].late
  /\ condition[d] = "silent" /\ \A i \in DOMAIN inbox : inbox[i].member # d
  /\ registry' = [registry EXCEPT ![d].late = TRUE]
  /\ UNCHANGED <<condition, retained, listening, inbox, writing, row, doubt, upsets>>

StaleOthers(d) == registry[d].status # "online" /\ registry[d].late
StaleOnline(d) == registry[d].status = "online" /\ registry[d].late

MarkOffline(d) == registry' = [registry EXCEPT ![d].status = "offline"] /\ StartWrite(d, "offline")

Reap(d) ==
  /\ StaleOnline(d)
  /\ MarkOffline(d)
  /\ UNCHANGED <<condition, retained, listening, inbox, row, upsets>>

----------------------------------------------------------------------------
(* The database tasks: each may finish before the ones started earlier,    *)
(* and one that fails is logged and forgotten.                             *)

FinishWrite(d) ==
  /\ \E i \in DOMAIN writing[d] :
       /\ writing' = [writing EXCEPT ![d] = SubSeq(@, 1, i - 1) \o SubSeq(@, i + 1, Len(@))]
       /\ row' = [row EXCEPT ![d] = writing[d][i]]
  /\ UNCHANGED <<condition, retained, listening, inbox, registry, doubt, upsets>>

LoseWrite(d) ==
  /\ writing[d] # << >> /\ upsets.failures < MaxRowFailures
  /\ upsets' = [upsets EXCEPT !.failures = @ + 1]
  /\ \E i \in DOMAIN writing[d] :
       writing' = [writing EXCEPT ![d] = SubSeq(@, 1, i - 1) \o SubSeq(@, i + 1, Len(@))]
  /\ doubt' = [doubt EXCEPT ![d] = TRUE]
  /\ UNCHANGED <<condition, retained, listening, inbox, registry, row>>

(* Broker, registry and tasks go; the rows stay.                           *)
PresenceRestarts ==
  /\ upsets.restarts < MaxPresenceRestarts
  /\ upsets' = [upsets EXCEPT !.restarts = @ + 1]
  /\ retained' = [d \in Members |-> "none"] /\ listening' = TRUE /\ inbox' = << >>
  /\ registry' = [d \in Members |-> Unknown]
  /\ writing' = [d \in Members |-> << >>]
  /\ doubt' = [d \in Members |-> TRUE]
  /\ UNCHANGED <<condition, row>>

----------------------------------------------------------------------------
MemberStep(d) == Shows(d) \/ Beats(d) \/ FallsSilent(d)
ServiceStep(d) == Overdue(d) \/ Reap(d) \/ FinishWrite(d)

PresenceNext ==
  \/ \E d \in Members : MemberStep(d) \/ ServiceStep(d) \/ LoseWrite(d)
  \/ HandleBeat \/ RouterDrops \/ RouterSubscribes \/ PresenceRestarts

PresenceSpec == PresenceInit /\ [][PresenceNext]_presenceVars

----------------------------------------------------------------------------
PresenceTypeOK ==
  /\ condition \in [Members -> Condition]
  /\ retained \in [Members -> Status \cup {"none"}]
  /\ listening \in BOOLEAN
  /\ \A i \in DOMAIN inbox : inbox[i] \in [member : Members, status : Status]
  /\ registry \in [Members -> [status : Status \cup {"unknown"}, late : BOOLEAN]]
  /\ \A d \in Members : \A i \in DOMAIN writing[d] : writing[d][i] \in Status
  /\ row \in [Members -> Status \cup {"none"}]
  /\ doubt \in [Members -> BOOLEAN]

(* Registry and row agree once the row's writes are done: beats, wills and *)
(* the reaper all write what they put in the registry, and the next beat   *)
(* makes good a lost write (reaper.py:16-28, router.py:150-160).           *)
RowMatchesRegistry ==
  \A d \in Members :
    writing[d] = << >> /\ ~doubt[d] /\ registry[d].status # "unknown" =>
      row[d] = registry[d].status

(* What the fleet and its rows say of a member agrees.                     *)
PresenceSound == PresenceTypeOK /\ RowMatchesRegistry

(* A member that fell silent does not count as online for good, whether or *)
(* not its will was published and although a reconnecting router hears its *)
(* old retained beat once more (registry.py:51-71, reaper.py:16-21); nor   *)
(* does its row, unless the one offline write was lost or overtaken, which *)
(* nothing repairs (reaper.py:20-28, db.py:33-39).                         *)
SilentGoesOffline ==
  \A d \in Members :
    condition[d] = "silent" ~>
      \/ condition[d] # "silent"
      \/ registry[d].status # "online" /\ (row[d] # "online" \/ doubt[d])

=============================================================================
