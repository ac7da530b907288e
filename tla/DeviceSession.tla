--------------------------- MODULE DeviceSession ---------------------------
(***************************************************************************)
(* The MQTT session of a device: nff_connect, the loop of the nff task and *)
(* what it does after every connect, update commands parked by the receive *)
(* callback, and the report of a crash.  The MQTT client is external.  On  *)
(* the "events" port (ESP-IDF) it has a task of its own, which reconnects  *)
(* by itself and calls back; on the "polled" port (Arduino) it moves only  *)
(* when the loop calls it.                                                 *)
(***************************************************************************)
CONSTANTS
  Ports,       \* the ports considered
  Orders,      \* signed update commands
  NoOrder

ASSUME SessionAssumption == Ports \subseteq {"events", "polled"} /\ NoOrder \notin Orders

VARIABLES
  port,
  live,        \* the broker holds a session of the device
  subscribed,  \* and delivers commands in it
  flag,        \* the port's is_connected
  started,     \* a client exists
  outbox,      \* crash reports the client holds until they are acknowledged
  place,       \* where nff_connect or the loop is
  round,       \* on whose behalf the connect hooks run
  sdkState,    \* g_nff.state
  retryDue,    \* the back-off has passed
  parked,      \* ota_cmd_buf, while ota_cmd_pending
  panicBoot,   \* esp_reset_reason
  dump,        \* the core dump
  missed,      \* the session came up where the loop does not look for one
  working,     \* the update command being handled
  arrived, reported, lostReport, tornErase, told   \* what became of the last crash

netVars    == <<live, subscribed, flag, started, missed>>
reportVars == <<outbox, panicBoot, dump, arrived, reported, lostReport, tornErase, told>>
sdkVars    == <<round, sdkState, retryDue>>
loopVars   == <<place, sdkVars>>
orderVars  == <<parked, working>>
sessionVars == <<port, netVars, reportVars, loopVars, orderVars>>

Hooks == {"report", "publish", "erase", "stand"}
Places == {"boot", "first", "check", "look", "retry", "wait", "subscribe",
           "work", "download", "unpark"} \cup Hooks

SessionInit ==
  /\ port \in Ports
  /\ live = FALSE /\ subscribed = FALSE /\ flag = FALSE /\ started = FALSE /\ missed = FALSE
  /\ outbox = {} /\ panicBoot = FALSE /\ dump = FALSE
  /\ arrived = FALSE /\ reported = 0 /\ lostReport = FALSE /\ tornErase = FALSE /\ told = FALSE
  /\ place = "boot" /\ round = "tick" /\ sdkState = "UNINIT" /\ retryDue = TRUE
  /\ parked = NoOrder /\ working = NoOrder

Goes(to) == place' = to

----------------------------------------------------------------------------
(* The client and the broker.                                              *)

(* Where the loop is when a session that comes up now will be noticed.     *)
Watching == \/ place = "subscribe"
            \/ sdkState = "CONNECTING" /\ place \notin Hooks \cup {"check"}

SessionUp ==
  /\ live' = TRUE /\ flag' = TRUE
  /\ missed' = ~Watching
  /\ UNCHANGED <<subscribed, started>>

ClientConnects ==
  /\ port = "events" /\ started /\ ~live
  /\ SessionUp
  /\ UNCHANGED <<port, reportVars, loopVars, orderVars>>

ClientFails ==
  /\ port = "events" /\ started /\ ~live /\ flag
  /\ flag' = FALSE
  /\ UNCHANGED <<port, live, subscribed, started, missed, reportVars, loopVars, orderVars>>

NoSession == live' = FALSE /\ subscribed' = FALSE /\ missed' = FALSE

SessionDrops ==
  /\ live /\ NoSession /\ flag' = FALSE
  /\ UNCHANGED <<port, started, reportVars, loopVars, orderVars>>

(* A full report left the device first if there is one.                    *)
BrokerAcks ==
  /\ live /\ outbox # {}
  /\ IF "full" \in outbox
       THEN outbox' = outbox \ {"full"} /\ arrived' = TRUE
       ELSE outbox' = {} /\ UNCHANGED arrived
  /\ UNCHANGED <<port, netVars, panicBoot, dump, reported, lostReport, tornErase, told,
                 loopVars, orderVars>>

BackOffPasses ==
  /\ ~retryDue /\ retryDue' = TRUE
  /\ UNCHANGED <<port, netVars, reportVars, place, round, sdkState, orderVars>>

----------------------------------------------------------------------------
(* nff_connect, once after a boot.                                         *)
StartConnect ==
  /\ place = "boot"
  /\ Goes("first") /\ sdkState' = "CONNECTING" /\ started' = TRUE
  /\ UNCHANGED <<port, live, subscribed, flag, missed, reportVars, round, retryDue, orderVars>>

(* The client comes up within the call, or the call gives up.              *)
PolledConnect(orElse) ==
  /\ port = "polled"
  /\ \/ SessionUp /\ Goes("subscribe") /\ UNCHANGED retryDue
     \/ Goes(orElse) /\ UNCHANGED <<netVars, retryDue>>

FirstConnect ==
  /\ place = "first"
  /\ \/ PolledConnect("check")
     \/ /\ port = "events"
        /\ Goes(IF flag THEN "subscribe" ELSE "check")
        /\ UNCHANGED <<netVars, retryDue>>
  /\ round' = "first"
  /\ UNCHANGED <<port, reportVars, sdkState, orderVars>>

(* Whatever nff_mqtt_init did, what is connected now is greeted again.     *)
CheckFirst ==
  /\ place = "check"
  /\ IF flag THEN sdkState' = "CONNECTED" /\ round' = "again" /\ Goes("report")
             ELSE Goes("look") /\ UNCHANGED <<sdkState, round>>
  /\ retryDue' = flag
  /\ UNCHANGED <<port, netVars, reportVars, orderVars>>

----------------------------------------------------------------------------
(* nff_mqtt_tick.                                                          *)
OverlooksLate ==
  /\ place = "look"
  /\ Goes(IF ~flag /\ retryDue THEN "retry" ELSE "work")
  /\ sdkState' = (IF flag THEN sdkState ELSE "CONNECTING")
  /\ round' = "tick"
  /\ UNCHANGED <<port, netVars, reportVars, retryDue, orderVars>>

Look ==
  /\ place = "look"
  /\ IF flag
       THEN /\ Goes(IF sdkState = "CONNECTING" THEN "subscribe" ELSE "work")
            /\ UNCHANGED sdkState
       ELSE /\ Goes(IF retryDue THEN "retry" ELSE "work")
            /\ sdkState' = "CONNECTING"
  /\ round' = "tick"
  /\ UNCHANGED <<port, netVars, reportVars, retryDue, orderVars>>

(* The event-driven client is destroyed, with what it holds, and made anew;*)
(* the port keeps what it knew about the connection.                       *)
Retry ==
  /\ place = "retry"
  /\ \/ PolledConnect("wait") /\ UNCHANGED <<outbox, lostReport>>
     \/ /\ port = "events"
        /\ NoSession /\ UNCHANGED <<flag, started, retryDue>>
        /\ outbox' = {} /\ lostReport' = (lostReport \/ "full" \in outbox)
        /\ Goes("wait")
  /\ UNCHANGED <<port, panicBoot, dump, arrived, reported, tornErase, told, round, sdkState,
                 orderVars>>

WaitEnds ==
  /\ place = "wait"
  /\ IF flag THEN Goes("subscribe") /\ UNCHANGED retryDue
             ELSE Goes("work") /\ retryDue' = FALSE
  /\ UNCHANGED <<port, netVars, reportVars, round, sdkState, orderVars>>

----------------------------------------------------------------------------
(* nff_mqtt_after_connect.                                                 *)
SubscribeAgain ==
  /\ place = "subscribe"
  /\ subscribed' = live
  /\ Goes("report")
  /\ UNCHANGED <<port, live, flag, started, missed, reportVars, sdkVars, orderVars>>

WasCrashBoot == panicBoot \/ dump
HooksEnd == IF round = "again" THEN "look" ELSE "stand"

ErasesOnCheck ==
  /\ place = "report"
  /\ dump' = FALSE
  /\ Goes(IF WasCrashBoot THEN "publish" ELSE HooksEnd)
  /\ UNCHANGED <<port, netVars, outbox, panicBoot, arrived, reported, lostReport, tornErase, told,
                 sdkVars, orderVars>>

CheckCrash ==
  /\ place = "report"
  /\ Goes(IF WasCrashBoot THEN "publish" ELSE HooksEnd)
  /\ UNCHANGED <<port, netVars, reportVars, sdkVars, orderVars>>

PublishCrash ==
  /\ place = "publish"
  /\ LET report == IF dump THEN "full" ELSE "empty" IN
       \/ /\ port = "events"
          /\ outbox' = outbox \cup {report}
          /\ UNCHANGED <<arrived, lostReport>>
       \/ /\ port = "polled"
          /\ \/ live /\ arrived' = (arrived \/ dump) /\ UNCHANGED lostReport
             \/ lostReport' = (lostReport \/ dump) /\ UNCHANGED arrived
          /\ UNCHANGED outbox
  /\ reported' = IF reported = 0 THEN 1 ELSE 2
  /\ Goes("erase")
  /\ UNCHANGED <<port, netVars, panicBoot, dump, tornErase, told, sdkVars, orderVars>>

EraseCrash ==
  /\ place = "erase"
  /\ dump' = FALSE
  /\ Goes(HooksEnd)
  /\ UNCHANGED <<port, netVars, outbox, panicBoot, arrived, reported, lostReport, tornErase, told,
                 sdkVars, orderVars>>

Stand ==
  /\ place = "stand"
  /\ sdkState' = "CONNECTED" /\ retryDue' = TRUE
  /\ Goes(IF round = "first" THEN "check" ELSE "work")
  /\ UNCHANGED <<port, netVars, reportVars, round, orderVars>>

----------------------------------------------------------------------------
(* Update commands: the receive callback parks one, the loop handles it.   *)
ReceiveOrder(o) ==
  /\ live /\ subscribed
  /\ port = "polled" => place = "look"
  /\ parked = NoOrder /\ sdkState # "OTA_ACTIVE"       \* else it answers busy
  /\ parked' = o
  /\ UNCHANGED <<port, netVars, reportVars, loopVars, working>>

PendingTick ==
  /\ place = "work"
  /\ IF parked = NoOrder THEN Goes("look") /\ UNCHANGED <<sdkState, working, missed>>
     ELSE /\ working' = parked
          /\ \/ /\ Goes("download") /\ sdkState' = "OTA_ACTIVE"
                /\ missed' = (missed \/ (flag /\ sdkState = "CONNECTING"))
             \/ Goes("unpark") /\ UNCHANGED <<sdkState, missed>>   \* it is refused
  /\ UNCHANGED <<port, live, subscribed, flag, started, reportVars, round, retryDue, parked>>

DownloadEnds ==
  /\ place = "download"
  /\ Goes("unpark") /\ sdkState' = "CONNECTED"
  /\ UNCHANGED <<port, netVars, reportVars, round, retryDue, orderVars>>

Unpark ==
  /\ place = "unpark"
  /\ Goes("look") /\ parked' = NoOrder /\ working' = NoOrder
  /\ UNCHANGED <<port, netVars, reportVars, round, sdkState, retryDue>>

----------------------------------------------------------------------------
(* A boot, after a command, an update, a loss of power, or a panic, which  *)
(* the reset reason tells on hardware and not under emulation.             *)
Boots ==
  /\ Goes("boot") /\ round' = "tick" /\ sdkState' = "UNINIT" /\ retryDue' = TRUE
  /\ NoSession /\ flag' = FALSE /\ started' = FALSE
  /\ parked' = NoOrder /\ working' = NoOrder
  /\ outbox' = {}
  /\ UNCHANGED port

Resets ==
  /\ Boots
  /\ panicBoot' = FALSE
  /\ lostReport' = (lostReport \/ "full" \in outbox)
  /\ tornErase' = (tornErase \/ place = "erase")
  /\ UNCHANGED <<dump, arrived, reported, told>>

Panics ==
  /\ Boots
  /\ panicBoot' \in BOOLEAN /\ told' = panicBoot'
  /\ dump' = TRUE
  /\ arrived' = FALSE /\ reported' = 0 /\ lostReport' = FALSE /\ tornErase' = FALSE

----------------------------------------------------------------------------
LoopStep ==
  \/ StartConnect \/ FirstConnect \/ CheckFirst \/ Look \/ Retry \/ WaitEnds
  \/ SubscribeAgain \/ CheckCrash \/ PublishCrash \/ EraseCrash \/ Stand
  \/ PendingTick \/ DownloadEnds \/ Unpark
ClientStep == ClientConnects \/ ClientFails \/ SessionDrops \/ BrokerAcks

SessionNext ==
  \/ LoopStep \/ ClientStep \/ BackOffPasses \/ Resets \/ Panics
  \/ \E o \in Orders : ReceiveOrder(o)

SessionSpec == SessionInit /\ [][SessionNext]_sessionVars

----------------------------------------------------------------------------
SessionTypeOK ==
  /\ port \in Ports
  /\ live \in BOOLEAN /\ subscribed \in BOOLEAN /\ flag \in BOOLEAN /\ started \in BOOLEAN
  /\ missed \in BOOLEAN /\ retryDue \in BOOLEAN /\ panicBoot \in BOOLEAN /\ dump \in BOOLEAN
  /\ arrived \in BOOLEAN /\ lostReport \in BOOLEAN /\ tornErase \in BOOLEAN /\ told \in BOOLEAN
  /\ outbox \subseteq {"full", "empty"} /\ reported \in {0, 1, 2}
  /\ place \in Places /\ round \in {"first", "again", "tick"}
  /\ sdkState \in {"UNINIT", "CONNECTING", "CONNECTED", "OTA_ACTIVE"}
  /\ parked \in Orders \cup {NoOrder} /\ working \in Orders \cup {NoOrder}

(* A device that holds itself connected hears its commands (nff_mqtt.c     *)
(* :23-56), except in a session that began behind the loop's back: while   *)
(* it downloads, runs the hooks of the session before, or is between the   *)
(* checks of nff_mqtt_init and nff_connect.  Only a client with a task of  *)
(* its own does that.                                                      *)
HearsUnlessMissed ==
  /\ (/\ live /\ ~subscribed /\ sdkState \in {"CONNECTED", "OTA_ACTIVE"}
      /\ place \in {"work", "look", "download", "unpark"}) => missed
  /\ missed => port = "events"

(* What is handled is what was parked: the callback overwrites nothing     *)
(* while the loop reads it (nff_cmd.c:96-115, nff_ota.c:518-538).          *)
ParkedIntact == place \in {"download", "unpark"} => parked = working /\ working # NoOrder

(* The detail of a crash is in flash, with the client or with the broker,  *)
(* or was lost with a client that held it or a session that was gone       *)
(* (nff_crash.c:170-287).  It is reported a second time only after a panic *)
(* the reset reason still tells of, or a reset before it was erased.       *)
CrashKept ==
  /\ reported # 0 => dump \/ "full" \in outbox \/ arrived \/ lostReport
  /\ reported = 2 => told \/ tornErase

(* Update commands are handled whole, crashes are kept, and a connected    *)
(* device is a listening one (nff_mqtt.c, nff_cmd.c, nff_crash.c).         *)
SessionSound == SessionTypeOK /\ HearsUnlessMissed /\ ParkedIntact /\ CrashKept

(* A session the loop could see begin ends, or the device listens in it    *)
(* (nff_mqtt.c:109-164).                                                   *)
SessionHears == live ~> subscribed \/ ~live \/ missed

=============================================================================
