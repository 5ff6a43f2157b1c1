------------------------------- MODULE Wifi -------------------------------
(***************************************************************************)
(* The Wi-Fi station and the setup access point (wifi_setup.c,             *)
(* wifi_reconnect_policy.c): the handler of driver events, the retry task, *)
(* and what the user does in the setup portal or on the device.  Each task *)
(* is cut where it leaves the state lock or calls the driver, which posts  *)
(* its events into the queue of the event task.                            *)
(***************************************************************************)
EXTENDS Naturals, Sequences, SequencesExt

CONSTANTS Threshold,  \* LM_CTRL_WIFI_RECONNECT_AP_FALLBACK_THRESHOLD
          MaxCount,   \* LM_CTRL_WIFI_RECONNECT_MAX_DISCONNECT_COUNT
          MaxEvents,  \* bound: events in the queue of the event task before the others wait
          MaxLate     \* bound: retry tasks that are about to connect

ASSUME WifiAssumption ==
  /\ Threshold \in Nat \ {0} /\ MaxCount \in Nat /\ Threshold <= MaxCount
  /\ MaxEvents \in Nat /\ MaxLate \in Nat

VARIABLES
  has,               \* has_credentials
  connected,         \* sta_connected
  portal,            \* portal_running
  pending, count,    \* sta_reconnect_pending, sta_disconnect_count
  waiting,           \* a retry task of this sta_retry_generation waits
  late,              \* retry tasks that will connect
  station, ap,       \* the driver: its station ("idle", "trying", "up"), and whether it runs the AP
  refused,           \* history: the driver refused a connect, and since then took none and lost no link
  events,            \* the event task's queue of "down", "ip" and "apStop"
  e,                 \* where the event handler is
  u, withAp          \* where the user's operation is; the mode it saw

retry == <<pending, count, waiting>>
driver == <<station, ap, events, refused>>
user == <<u, withAp>>
vars == <<has, connected, portal, retry, late, driver, e, user>>

\* lm_ctrl_wifi_init, with the stored credentials or without.
Init ==
  /\ has \in BOOLEAN /\ connected = FALSE /\ portal = ~has
  /\ pending = FALSE /\ count = 0 /\ waiting = FALSE /\ late = 0
  /\ station = (IF has THEN "trying" ELSE "idle") /\ ap = ~has /\ events = <<>> /\ refused = FALSE
  /\ e = "idle" /\ u = "idle" /\ withAp = FALSE

-----------------------------------------------------------------------------
(* The Wi-Fi driver.                                                       *)

Room == Len(events) < MaxEvents
Post(es) == events' = events \o es
\* esp_wifi_connect: a station that tries stays as it is, one that is up is
\* disconnected first.
Connect ==
  /\ station' = "trying" /\ refused' = FALSE /\ UNCHANGED ap
  /\ Post(IF station = "up" THEN <<"down">> ELSE <<>>)
\* It fails, for instance without memory: no event follows.
Refuses == refused' = (refused \/ station # "trying") /\ UNCHANGED <<station, ap, events>>
Disconnect ==
  /\ station' = "idle" /\ UNCHANGED <<ap, refused>>
  /\ Post(IF station = "idle" THEN <<>> ELSE <<"down">>)
SetAp(running) ==
  /\ ap' = running /\ UNCHANGED <<station, refused>>
  /\ Post(IF ap /\ ~running THEN <<"apStop">> ELSE <<>>)

DriverSteps(from, to, event) ==
  /\ station = from /\ station' = to /\ Room /\ Post(<<event>>)
  /\ refused' = FALSE /\ UNCHANGED <<has, connected, portal, retry, late, ap, e, user>>
Associates == DriverSteps("trying", "up", "ip")
GivesUp == DriverSteps("trying", "idle", "down")
Drops == DriverSteps("up", "idle", "down")

-----------------------------------------------------------------------------
(* Retries.                                                                *)

\* reset_sta_reconnect_locked: a task that waits will find a new generation.
ResetRetry_Pending == \* Mutant: the flag outlives the task.
  waiting' = FALSE /\ count' = 0 /\ UNCHANGED pending
ResetRetry == waiting' = FALSE /\ count' = 0 /\ pending' = FALSE

\* lm_ctrl_wifi_reconnect_plan_next
NextCount == IF count >= MaxCount THEN MaxCount ELSE count + 1
NeedsAp_Once(n) == ~portal /\ n = 1 \* Mutant: only the first disconnect looks whether there is an AP.
NeedsAp(n) == ~portal /\ n >= Threshold

\* sta_reconnect_task, after its delay ...
RetryDue ==
  /\ waiting /\ waiting' = FALSE /\ pending' = FALSE
  /\ IF has /\ ~connected THEN late < MaxLate /\ late' = late + 1 ELSE UNCHANGED late
  /\ UNCHANGED <<has, connected, portal, count, driver, e, user>>
\* ... and after it left the lock; an error is only logged.
RetryConnects ==
  /\ late > 0 /\ late' = late - 1 /\ Room /\ (Connect \/ Refuses)
  /\ UNCHANGED <<has, connected, portal, retry, e, user>>

-----------------------------------------------------------------------------
(* The event handler.                                                      *)

Takes(event) ==
  /\ e = "idle" /\ events # <<>> /\ Head(events) = event /\ events' = Tail(events)
  /\ UNCHANGED <<has, late, station, ap, refused, user>>
ApStops ==
  /\ Takes("apStop") /\ portal' = FALSE
  /\ UNCHANGED <<connected, retry, e>>
StationUp ==
  /\ Takes("ip") /\ connected' = TRUE /\ ResetRetry /\ e' = "disableAp"
  /\ UNCHANGED portal
StationDown ==
  /\ Takes("down") /\ connected' = FALSE /\ UNCHANGED portal
  /\ \/ has /\ pending /\ UNCHANGED <<retry, e>>
     \/ /\ has /\ ~pending /\ count' = NextCount /\ UNCHANGED <<pending, waiting>>
        /\ e' = IF NeedsAp(NextCount) THEN "enableAp" ELSE "schedule"
     \/ ~has /\ ResetRetry /\ UNCHANGED e

Handles(stage, next) ==
  /\ e = stage /\ e' = next
  /\ UNCHANGED <<has, connected, late, user>>
\* disable_setup_ap looks at portal_running, then sets the mode.
SeesNoAp ==
  /\ Handles("disableAp", "idle") /\ ~portal
  /\ UNCHANGED <<portal, retry, driver>>
DisablesAp ==
  /\ Handles("disableAp", "apOff") /\ portal /\ SetAp(FALSE)
  /\ UNCHANGED <<portal, retry>>
ApDisabled ==
  /\ Handles("apOff", "idle") /\ portal' = FALSE
  /\ UNCHANGED <<retry, driver>>
\* lm_ctrl_wifi_start_portal, as the event handler runs it.
KeepsPortal ==
  /\ Handles("enableAp", "schedule") /\ (portal \/ connected)
  /\ UNCHANGED <<portal, retry, driver>>
StartsPortal ==
  /\ Handles("enableAp", "apOn") /\ ~portal /\ ~connected
  /\ UNCHANGED <<portal, retry, driver>>
EnablesAp ==
  /\ Handles("apOn", "portalOn") /\ SetAp(TRUE)
  /\ UNCHANGED <<portal, retry>>
PortalEnabled ==
  /\ Handles("portalOn", "schedule") /\ portal' = TRUE
  /\ UNCHANGED <<retry, driver>>
\* schedule_sta_reconnect; without memory for the task it connects at once, and
\* ignores an error.
Schedules ==
  /\ Handles("schedule", "idle") /\ UNCHANGED <<portal, count>>
  /\ \/ pending /\ UNCHANGED <<pending, waiting, driver>>
     \/ ~pending /\ pending' = TRUE /\ waiting' = TRUE /\ UNCHANGED driver
     \/ ~pending /\ UNCHANGED <<pending, waiting>> /\ (Connect \/ Refuses)

Handler ==
  \/ ApStops \/ StationUp \/ StationDown \/ SeesNoAp \/ DisablesAp \/ ApDisabled
  \/ KeepsPortal \/ StartsPortal \/ EnablesAp \/ PortalEnabled \/ Schedules

-----------------------------------------------------------------------------
(* The user's operations, one at a time.                                   *)

Operates(stage, next) ==
  /\ u = stage /\ u' = next /\ Room
  /\ UNCHANGED <<late, e>>

\* handle_wifi_post: the credentials are stored ...
Saves ==
  /\ Operates("idle", "apply") /\ has' = TRUE /\ connected' = FALSE
  /\ UNCHANGED <<portal, retry, driver, withAp>>
\* ... and applied, lm_ctrl_wifi_apply_station_credentials.
Applies ==
  /\ Operates("apply", "mode") /\ ResetRetry /\ withAp' = portal
  /\ UNCHANGED <<has, connected, portal, driver>>
SetsMode ==
  /\ Operates("mode", "connect") /\ SetAp(withAp) /\ withAp' = FALSE
  /\ UNCHANGED <<has, connected, portal, retry>>
\* A station that tries takes no new configuration, and a connect may be refused:
\* the user is told, and the driver keeps what it had.
Joins ==
  /\ Operates("connect", "idle")
  /\ IF station = "trying" THEN UNCHANGED driver ELSE Connect \/ Refuses
  /\ UNCHANGED <<has, connected, portal, retry, withAp>>

\* The setup screen is opened: lm_ctrl_wifi_start_portal.
OpensSetup ==
  /\ Operates("idle", IF portal \/ connected THEN "idle" ELSE "apOn")
  /\ UNCHANGED <<has, connected, portal, retry, driver, withAp>>
\* configure_ap, for the setup screen or at the end of a reset.
StartsAp ==
  /\ Operates("apOn", "portalOn") /\ SetAp(TRUE)
  /\ UNCHANGED <<has, connected, portal, retry, withAp>>
PortalStarted ==
  /\ Operates("portalOn", "idle") /\ portal' = TRUE
  /\ UNCHANGED <<has, connected, retry, driver, withAp>>

\* lm_ctrl_wifi_reset_network: the credentials are erased, then
\* restart_setup_portal_after_network_reset.
ResetsNetwork ==
  /\ Operates("idle", "disconnect") /\ has' = FALSE /\ connected' = FALSE
  /\ UNCHANGED <<portal, retry, driver, withAp>>
Leaves ==
  /\ Operates("disconnect", "apOff") /\ Disconnect
  /\ UNCHANGED <<has, connected, portal, retry, withAp>>
StopsAp ==
  /\ Operates("apOff", "reset") /\ SetAp(FALSE)
  /\ UNCHANGED <<has, connected, portal, retry, withAp>>
Forgets ==
  /\ Operates("reset", "apOn") /\ portal' = FALSE /\ connected' = FALSE /\ ResetRetry
  /\ UNCHANGED <<has, driver, withAp>>

Operation ==
  \/ Applies \/ SetsMode \/ Joins \/ StartsAp \/ PortalStarted
  \/ Leaves \/ StopsAp \/ Forgets

Next ==
  \/ Associates \/ GivesUp \/ Drops \/ RetryDue \/ RetryConnects
  \/ Handler \/ Operation \/ Saves \/ OpensSetup \/ ResetsNetwork

\* Tasks run, delays end, and a station does not try for ever.
Spec ==
  /\ Init /\ [][Next]_vars
  /\ WF_vars(Handler) /\ WF_vars(Operation) /\ WF_vars(RetryDue) /\ WF_vars(RetryConnects)
  /\ WF_vars(GivesUp)

-----------------------------------------------------------------------------
(* Properties.                                                             *)

\* While there are credentials and the station is idle, something will make it
\* try: a retry task, an event that is not handled yet, the handler that is to
\* schedule, or the operation that is to join.  No order of disconnects, retries
\* that are cancelled and portal work strands the controller off the network; a
\* connect that the driver refuses does: nothing plans another one.
RetryIsPlanned ==
  has /\ station = "idle" /\ ~refused =>
    \/ waiting \/ late > 0 \/ Contains(events, "down")
    \/ e \in {"enableAp", "apOn", "portalOn", "schedule"}
    \/ u \in {"apply", "mode", "connect"}

\* A station that fails again and again brings up the setup AP as a way in, if
\* portal_running does not say that it is up.  New credentials that are applied
\* meanwhile may end the AP; if the driver then refuses the connect, no failure
\* follows that would bring it back.
RecoveryApComes ==
  count >= Threshold ~> ap \/ portal \/ connected \/ count < Threshold \/ refused

\* A controller with credentials gets on the network if its station joins at last
\* when it tries again and again, unless the driver refuses it a connect for good.
\* With which credentials is not said: those saved while the station tries reach
\* the driver with the next save or restart only.
StationReconnects == SF_vars(Associates) => (has ~> connected \/ ~has \/ refused)
=============================================================================
