---------------------------- MODULE MachineLink ----------------------------
(***************************************************************************)
(* The machine link: writes of machine settings queued by the controller,  *)
(* carried out by one worker task over BLE or the cloud, confirmed by the  *)
(* cloud's websocket (machine_link.c, machine_link_cloud.c and the command *)
(* senders of machine_link_ble.c).                                         *)
(*                                                                         *)
(* The worker is cut at its blocking calls: whatever it does between two   *)
(* of them is one action.  A field stands for the values written by one    *)
(* command, e.g. both prebrewing times.  Two values per field are enough   *)
(* to tell a stale one from the latest; 1 is `on' for standby and steam.   *)
(***************************************************************************)
EXTENDS Naturals, Sequences

CONSTANTS Fields,     \* the fields an instance looks at
          MaxSlots,   \* LM_CTRL_MACHINE_MAX_PENDING_CLOUD_COMMANDS
          Ble,        \* "enabled", "disabled" in the build, or "none": no token
          MaxRequests \* bound: writes and synchronizations the controller asks for

BleFields == {"standby", "temperature", "steam"}
BbwFields == {"bbwMode", "bbwDoses"}
AllFields == BleFields \cup BbwFields \cup {"prebrewing"}
Deferred == {"temperature", "prebrewing", "bbwDoses"} \* should_defer_machine_send
Values == {0, 1}
Sources == {"ble", "cloud"}
SlotIds == 1 .. MaxSlots

ASSUME LinkAssumption ==
  /\ Fields \subseteq AllFields
  /\ MaxSlots \in Nat /\ MaxRequests \in Nat
  /\ Ble \in {"enabled", "disabled", "none"}

VARIABLES
  desired, pending, inflight, reported,   \* s_link, the controller's side
  remoteOn,      \* the machine last reported that it is in standby
  feature,       \* it supports brew by weight
  sync,          \* sync_request_flags
  slots,         \* s_pending_cloud_commands
  connected,     \* cloud_live_updates_connected
  bleReady, bleFailed,                    \* BLE session; a failure in the last 30 s
  pc, seen, mask, flags, todo, progress,  \* the worker and its locals
  busy, wasConnected,                     \* a cloud call under way, made when connected
  fallback,      \* it stands in for an unverified BLE write
  accepted,      \* history: value of each field the machine or cloud last took
  requests       \* counter for the bound

shown == <<desired, reported>>
ble == <<bleReady, bleFailed>>
locals == <<seen, mask, flags, todo, progress>>
call == <<busy, wasConnected, fallback>>
remote == <<remoteOn, feature>>
history == <<accepted, requests>>
vars == <<shown, pending, inflight, remote, sync, slots, connected, ble,
          pc, locals, call, history>>

Settings == [Fields -> Values]
Start == [f \in Fields |-> 0]
FreeSlot == [active |-> FALSE, field |-> "none", value |-> 0, old |-> FALSE]
Slot == [active : {TRUE}, field : Fields, value : Values, old : BOOLEAN] \cup {FreeSlot}
Steps == Fields \cup {"prebrewMode", "prebrewRetry", "steamLevel"}
Stages == {"prebrew", "bbw", "wake", "cloud"}

TypeOK ==
  /\ desired \in Settings /\ reported \in Settings /\ accepted \in Settings
  /\ pending \subseteq Fields /\ inflight \subseteq Fields /\ mask \subseteq Fields
  /\ sync \subseteq Sources /\ flags \subseteq Sources
  /\ slots \in [SlotIds -> Slot]
  /\ seen \in Settings /\ todo \in Seq(Steps)
  /\ pc \in Stages \cup {"wait", "top", "merge", "choose", "connect", "ble"}
  /\ {remoteOn, feature, connected, bleReady, bleFailed} \subseteq BOOLEAN
  /\ {progress, busy, wasConnected, fallback} \subseteq BOOLEAN
  /\ requests \in 0 .. MaxRequests

Init ==
  /\ desired = Start /\ reported = Start /\ accepted = Start
  /\ pending = {} /\ inflight = {} /\ sync = {}
  /\ slots = [i \in SlotIds |-> FreeSlot]
  /\ remoteOn = FALSE /\ feature = FALSE /\ connected = FALSE
  /\ bleReady = FALSE /\ bleFailed = FALSE
  /\ pc = "wait" /\ seen = Start /\ mask = {} /\ flags = {} /\ todo = <<>>
  /\ progress = FALSE /\ busy = FALSE /\ wasConnected = FALSE /\ fallback = FALSE
  /\ requests = 0

-----------------------------------------------------------------------------
(* Operators on field sets.                                                *)

StandbyOn(v) == "standby" \in Fields /\ v["standby"] = 1
SteamOn(v) == "steam" \in Fields /\ v["steam"] = 1

Completed_Always(f) == {f} \* Mutant: whatever the user has asked for since.
\* mark_field_complete: done unless the user has asked for something else since.
Completed(f) == IF desired[f] = seen[f] THEN {f} ELSE {}

Accepts_Inflight(f, v) == f \notin pending \/ v[f] = desired[f] \* Mutant: fields in flight are open.
\* should_accept_remote_field_locked
Accepts(f, v) == f \notin pending \cup inflight \/ v[f] = desired[f]

\* update_reported_values
UpdateReported(loaded, v) ==
  /\ reported' = [f \in Fields |-> IF f \in loaded /\ Accepts(f, v) THEN v[f] ELSE reported[f]]
  /\ remoteOn' = IF "standby" \in loaded THEN v["standby"] = 1 ELSE remoteOn

\* update_feature_mask, from the dashboard.
UpdateFeature == IF Fields \cap BbwFields = {} THEN UNCHANGED feature ELSE feature' \in BOOLEAN

\* has_sendable_work: a steam setting alone waits until the machine is on.
Sendable(v, m) == m # {} /\ (m = {"steam"} => ~StandbyOn(v))

\* lm_ctrl_machine_should_prefer_cloud_power_wakeup
PrefersWakeup(v, m) == "standby" \in m /\ ~StandbyOn(v) /\ remoteOn

When(P, steps) == IF P THEN steps ELSE <<>>

\* apply_pending_via_cloud: a wakeup goes alone.
CloudPlan(v, m) ==
  IF PrefersWakeup(v, m) THEN <<"standby">>
  ELSE When("steam" \in m /\ ~StandbyOn(v), When(SteamOn(v), <<"steamLevel">>) \o <<"steam">>)
       \o When("standby" \in m, <<"standby">>)
       \o When("temperature" \in m, <<"temperature">>)
BlePlan(v, m) ==
  When("standby" \in m, <<"standby">>) \o When("temperature" \in m, <<"temperature">>)
  \o When("steam" \in m /\ ~StandbyOn(v), <<"steam">>)
BbwPlan(m) == When("bbwMode" \in m, <<"bbwMode">>) \o When("bbwDoses" \in m, <<"bbwDoses">>)

Goto(label) == pc' = label
\* Back to the loop or out of it; the locals are dead there.
Leave(label) ==
  /\ Goto(label)
  /\ seen' = Start /\ mask' = {} /\ flags' = {} /\ todo' = <<>> /\ progress' = FALSE

-----------------------------------------------------------------------------
(* The controller.                                                         *)

\* The whole settings record is copied.  A field that is not part of the
\* request may carry an edit whose own send is still deferred, or the value
\* merged last; while its own write is outstanding these are what was asked.
Carries(v, f) == f \in (pending \cup inflight) \ Deferred => v[f] = desired[f]

\* Bound: the controller asks at most MaxRequests times.
Requests == requests < MaxRequests /\ requests' = requests + 1

QueueValues(F, v) ==
  /\ Requests
  /\ F # {} /\ \A f \in Fields \ F : Carries(v, f)
  /\ desired' = v
  /\ pending' = pending \cup F
  /\ reported' = [f \in Fields |-> IF f \in F THEN v[f] ELSE reported[f]]
  /\ UNCHANGED <<inflight, remote, sync, slots, connected, ble, pc, locals, call, accepted>>

RequestSync(s) ==
  /\ Requests
  /\ s = "ble" => Ble # "disabled"
  /\ sync' = sync \cup {s}
  /\ UNCHANGED <<shown, pending, inflight, remote, slots, connected, ble, pc, locals,
                 call, accepted>>

-----------------------------------------------------------------------------
(* The websocket task.                                                     *)

\* While a cloud call is under way the websocket is not started.
LiveUpdatesUp ==
  /\ ~busy /\ connected' = TRUE
  /\ UNCHANGED <<shown, pending, inflight, remote, sync, slots, ble, pc, locals, call,
                 history>>

\* The task ends or is stopped: only the flag changes.
LiveUpdatesDown ==
  /\ connected /\ connected' = FALSE
  /\ UNCHANGED <<shown, pending, inflight, remote, sync, slots, ble, pc, locals, call,
                 history>>

\* lm_ctrl_machine_link_handle_cloud_websocket_disconnect
WebsocketDisconnected ==
  /\ connected' = FALSE
  /\ inflight' = {}
  /\ sync' = IF inflight # {} THEN Sources ELSE sync
  /\ slots' = [i \in SlotIds |-> FreeSlot]
  /\ UNCHANGED <<shown, pending, remote, ble, pc, locals, call, history>>

\* An update naming a command that has no slot changes nothing.
CommandSucceeded(i) ==
  /\ connected /\ slots[i].active
  /\ LET f == slots[i].field IN
       /\ inflight' = inflight \ {f}
       /\ reported' = IF f \in pending THEN reported
                      ELSE [reported EXCEPT ![f] = slots[i].value]
  /\ slots' = [slots EXCEPT ![i] = FreeSlot]
  /\ UNCHANGED <<desired, pending, remote, sync, connected, ble, pc, locals, call,
                 history>>

CommandFailed(i) ==
  /\ connected /\ slots[i].active
  /\ inflight' = inflight \ {slots[i].field}
  /\ slots' = [slots EXCEPT ![i] = FreeSlot]
  /\ sync' = Sources
  /\ UNCHANGED <<shown, pending, remote, connected, ble, pc, locals, call, history>>

DashboardValues(loaded, v) ==
  /\ connected
  /\ UpdateReported(loaded, v) /\ UpdateFeature
  /\ UNCHANGED <<desired, pending, inflight, sync, slots, connected, ble, pc, locals,
                 call, history>>

-----------------------------------------------------------------------------
(* Time and the BLE host.                                                  *)

\* Twelve seconds pass: every wait that is under way becomes old.
Overdue_Free(s) == [s EXCEPT !.old = TRUE] \* Mutant: a free slot times out too.
Overdue(s) == IF s.active THEN [s EXCEPT !.old = TRUE] ELSE s
AcksOverdue ==
  /\ slots' = [i \in SlotIds |-> Overdue(slots[i])]
  /\ UNCHANGED <<shown, pending, inflight, remote, sync, connected, ble, pc, locals,
                 call, history>>

BackoffOver ==
  /\ bleFailed /\ bleFailed' = FALSE
  /\ UNCHANGED <<shown, pending, inflight, remote, sync, slots, connected, bleReady, pc,
                 locals, call, history>>

BleDisconnected ==
  /\ bleReady /\ bleReady' = FALSE
  /\ UNCHANGED <<shown, pending, inflight, remote, sync, slots, connected, bleFailed, pc,
                 locals, call, history>>

-----------------------------------------------------------------------------
(* The worker: loop control and synchronization.                           *)

\* The outer loop waits for a notification, at most 500 ms, and drops the
\* waits that are overdue.
Expired_Never == {i \in SlotIds : FALSE} \* Mutant: no wait ever times out.
Expired == {i \in SlotIds : slots[i].active /\ slots[i].old}
Take ==
  /\ pc = "wait" /\ Goto("top")
  /\ slots' = [i \in SlotIds |-> IF i \in Expired THEN FreeSlot ELSE slots[i]]
  /\ inflight' = inflight \ {slots[i].field : i \in Expired}
  /\ sync' = IF Expired # {} THEN Sources ELSE sync
  /\ UNCHANGED <<shown, pending, remote, connected, ble, locals, call, history>>

Unsent == pending \ inflight
HasWork == Unsent # {} \/ sync # {}

TopIdle ==
  /\ pc = "top"
  /\ sync = {} /\ ~Sendable(desired, Unsent)
  /\ Leave("wait")
  /\ UNCHANGED <<shown, pending, inflight, remote, sync, slots, connected, ble, call,
                 history>>

\* get_machine_binding finds no machine (any more).
TopUnselected ==
  /\ pc = "top" /\ HasWork
  /\ pending' = pending \ Unsent
  /\ sync' = {}
  /\ Leave("wait")
  /\ UNCHANGED <<shown, inflight, remote, slots, connected, ble, call, history>>

PrebrewPlan(m) == When("prebrewing" \in m, <<"prebrewMode", "prebrewing">>)

TopSends ==
  /\ pc = "top" /\ sync = {} /\ Sendable(desired, Unsent)
  /\ Goto("prebrew")
  /\ seen' = desired /\ mask' = Unsent /\ todo' = PrebrewPlan(Unsent)
  /\ UNCHANGED <<shown, pending, inflight, remote, sync, slots, connected, ble, flags,
                 progress, call, history>>

\* A cloud fetch pauses the websocket; a live websocket may make it unnecessary.
TopSyncs ==
  /\ pc = "top" /\ sync # {}
  /\ Goto("merge")
  /\ seen' = desired /\ mask' = Unsent /\ flags' = sync
  /\ connected' \in IF "cloud" \in sync THEN {connected, FALSE} ELSE {connected}
  /\ UNCHANGED <<shown, pending, inflight, remote, sync, slots, ble, todo, progress,
                 call, history>>

FetchBle(outcome) ==
  /\ outcome # "none" => "ble" \in flags /\ Ble = "enabled" /\ ~bleFailed
  /\ bleReady' = (bleReady \/ outcome = "read")
  /\ bleFailed' = (bleFailed \/ outcome = "failed")

Merge(outcome, loaded, v) ==
  /\ pc = "merge"
  /\ FetchBle(outcome)
  /\ loaded \subseteq (IF "cloud" \in flags THEN Fields ELSE {})
                      \cup (IF outcome = "read" THEN BleFields ELSE {})
  /\ UpdateReported(loaded, v)
  /\ IF "cloud" \in flags THEN UpdateFeature ELSE UNCHANGED feature
  /\ sync' = {}
  /\ IF Sendable(seen, mask)
     THEN /\ Goto("prebrew") /\ todo' = PrebrewPlan(mask) /\ flags' = {}
          /\ UNCHANGED <<seen, mask, progress>>
     ELSE Leave("top")
  /\ UNCHANGED <<desired, pending, inflight, slots, connected, call, history>>

-----------------------------------------------------------------------------
(* The worker: which transport carries what.                               *)

\* The set of fields read here includes those in flight.
PrebrewDone ==
  /\ pc = "prebrew" /\ todo = <<>>
  /\ IF pending = {} THEN Leave("wait") /\ UNCHANGED pending
     ELSE /\ Goto("bbw") /\ seen' = desired /\ mask' = pending
          /\ todo' = When(feature, BbwPlan(pending))
          /\ pending' = IF feature THEN pending ELSE pending \ BbwFields
          /\ UNCHANGED <<flags, progress>>
  /\ UNCHANGED <<shown, inflight, remote, sync, slots, connected, ble, call, history>>

BbwDone ==
  /\ pc = "bbw" /\ todo = <<>>
  /\ IF Unsent = {} THEN Leave("wait")
     ELSE /\ seen' = desired /\ mask' = Unsent
          /\ IF ~bleReady /\ PrefersWakeup(desired, Unsent)
             THEN Goto("wake") /\ todo' = <<"standby">>
             ELSE Goto("choose") /\ UNCHANGED todo
          /\ UNCHANGED <<flags, progress>>
  /\ UNCHANGED <<shown, pending, inflight, remote, sync, slots, connected, ble, call,
                 history>>

WakeDone ==
  /\ pc = "wake" /\ todo = <<>>
  /\ IF progress THEN Leave("top") ELSE Goto("choose") /\ UNCHANGED locals
  /\ UNCHANGED <<shown, pending, inflight, remote, sync, slots, connected, ble, call,
                 history>>

SendViaCloud ==
  /\ Goto("cloud") /\ seen' = desired /\ todo' = CloudPlan(desired, mask)
  /\ progress' = FALSE
  /\ UNCHANGED <<mask, flags>>

Choose ==
  /\ pc = "choose"
  /\ \/ mask \cap BleFields = {} /\ Leave("top")
     \/ mask \cap BleFields # {} /\ (Ble # "enabled" \/ bleFailed) /\ SendViaCloud
     \/ mask \cap BleFields # {} /\ Ble = "enabled" /\ ~bleFailed
        /\ Goto("connect") /\ UNCHANGED locals
  /\ UNCHANGED <<shown, pending, inflight, remote, sync, slots, connected, ble, call,
                 history>>

\* ensure_connected_and_authenticated
BleConnects ==
  /\ pc = "connect" /\ bleReady' = TRUE
  /\ Goto("ble") /\ seen' = desired /\ mask' = Unsent /\ todo' = BlePlan(desired, Unsent)
  /\ UNCHANGED <<shown, pending, inflight, remote, sync, slots, connected, bleFailed,
                 flags, progress, call, history>>

\* The scale adapter has the radio, or other work came in while connecting.
BleInterrupted ==
  /\ pc = "connect" /\ Leave("top")
  /\ UNCHANGED <<shown, pending, inflight, remote, sync, slots, connected, ble, call,
                 history>>

BleConnectFails ==
  /\ pc = "connect" /\ bleFailed' = TRUE /\ SendViaCloud
  /\ UNCHANGED <<shown, pending, inflight, remote, sync, slots, connected, bleReady,
                 call, history>>

\* Without a token, cloud writes that got nowhere end the loop.
CloudDone ==
  /\ pc = "cloud" /\ todo = <<>>
  /\ Leave(IF Ble = "none" /\ ~progress THEN "wait" ELSE "top")
  /\ UNCHANGED <<shown, pending, inflight, remote, sync, slots, connected, ble, call,
                 history>>

BleDone ==
  /\ pc = "ble" /\ todo = <<>> /\ Leave("top")
  /\ UNCHANGED <<shown, pending, inflight, remote, sync, slots, connected, ble, call,
                 history>>

-----------------------------------------------------------------------------
(* The worker: one command over BLE.                                       *)

BleStep == pc = "ble" /\ todo # <<>> /\ ~fallback

BleWritten ==
  /\ BleStep
  /\ accepted' = [accepted EXCEPT ![Head(todo)] = seen[Head(todo)]]
  /\ pending' = pending \ Completed(Head(todo))
  /\ todo' = Tail(todo)
  /\ UNCHANGED <<shown, inflight, remote, sync, slots, connected, ble, pc, seen, mask,
                 flags, progress, call, requests>>

BleRejected ==
  /\ BleStep /\ todo' = Tail(todo)
  /\ UNCHANGED <<shown, pending, inflight, remote, sync, slots, connected, ble, pc, seen,
                 mask, flags, progress, call, history>>

\* No usable answer, and the machine does not show the value: try the cloud.
BleUnverified ==
  /\ BleStep /\ fallback' = TRUE
  /\ todo' = When(Head(todo) = "steam" /\ SteamOn(seen), <<"steamLevel">>) \o todo
  /\ UNCHANGED <<shown, pending, inflight, remote, sync, slots, connected, ble, pc, seen,
                 mask, flags, progress, busy, wasConnected, history>>

-----------------------------------------------------------------------------
(* The worker: one command over the cloud, send_cloud_command and callers. *)

CloudStep == todo # <<>> /\ (pc \in Stages \/ fallback)
CarriesNoField == {"prebrewMode", "steamLevel"}
FieldOf(step) == IF step = "prebrewRetry" THEN "prebrewing" ELSE step

\* The desired values are copied again just before these commands.
Recopied == {"temperature", "bbwDoses", "prebrewing", "prebrewRetry"}

\* The websocket flag is read, then the HTTP request pauses the websocket.
CallBegins ==
  /\ CloudStep /\ ~busy
  /\ busy' = TRUE /\ wasConnected' = connected /\ connected' = FALSE
  /\ seen' = IF Head(todo) \in Recopied /\ ~fallback THEN desired ELSE seen
  /\ UNCHANGED <<shown, pending, inflight, remote, sync, slots, ble, pc, mask, flags,
                 todo, progress, fallback, history>>

Return(steps) == /\ todo' = steps /\ busy' = FALSE /\ wasConnected' = FALSE

\* Failed, or refused with status 412 when the machine has no such setting:
\* what is still sent, and what is dropped all the same.
AfterFailure(step, status412) ==
  CASE step = "prebrewMode" -> When(status412, <<"prebrewRetry">>)
    [] step \in {"prebrewing", "prebrewRetry", "bbwMode"} -> <<>>
    [] step = "steamLevel" -> Tail(Tail(todo))
    [] OTHER -> Tail(todo)
DroppedByFailure(step, status412) ==
  IF step = "prebrewRetry" \/ (step = "prebrewing" /\ status412) THEN {"prebrewing"}
  ELSE IF fallback /\ step \in {"standby", "temperature"} THEN Completed(step)
  ELSE {}
CallFails(status412) ==
  /\ busy
  /\ Return(AfterFailure(Head(todo), status412))
  /\ pending' = pending \ DroppedByFailure(Head(todo), status412)
  /\ fallback' = FALSE
  /\ UNCHANGED <<shown, inflight, remote, sync, slots, connected, ble, pc, seen, mask,
                 flags, progress, history>>

HelperAccepted ==
  /\ busy /\ Head(todo) \in CarriesNoField /\ Return(Tail(todo))
  /\ UNCHANGED <<shown, pending, inflight, remote, sync, slots, connected, ble, pc, seen,
                 mask, flags, progress, fallback, history>>

\* Waking the machine over the cloud gives BLE another chance.
RearmBle(f) ==
  IF f = "standby" /\ ~StandbyOn(seen) /\ pc \in {"wake", "cloud"}
  THEN /\ bleFailed' = FALSE
       /\ sync' = sync \cup (IF Ble = "disabled" THEN {} ELSE {"ble"})
  ELSE UNCHANGED <<bleFailed, sync>>

FreeSlots == {i \in SlotIds : ~slots[i].active}
FirstFree_First(i) == i = 1 \* Mutant: a slot in use is taken over.
FirstFree(i) == i \in FreeSlots /\ \A j \in FreeSlots : i <= j

Accepted(f) ==
  /\ busy /\ Head(todo) \notin CarriesNoField /\ f = FieldOf(Head(todo))
  /\ Return(Tail(todo)) /\ fallback' = FALSE
  /\ accepted' = [accepted EXCEPT ![f] = seen[f]]
  /\ progress' = (progress \/ pc \in {"wake", "cloud"})
  /\ RearmBle(f)
  /\ UNCHANGED <<shown, remote, connected, bleReady, pc, seen, mask, flags, requests>>

\* register_pending_cloud_command and mark_fields_inflight
AcceptedWaits(f) ==
  /\ Accepted(f) /\ wasConnected
  /\ \E i \in SlotIds :
       /\ FirstFree(i)
       /\ slots' = [slots EXCEPT ![i] = [active |-> TRUE, field |-> f, value |-> seen[f], old |-> FALSE]]
  /\ LET started == Completed(f) \cap pending IN
       pending' = pending \ started /\ inflight' = inflight \cup started

\* No websocket, command id or slot: taken as applied.  A BLE fallback takes
\* this result code for an error, except for steam.
AcceptedApplied(f) ==
  /\ Accepted(f)
  /\ pending' = IF fallback /\ f # "steam" THEN pending ELSE pending \ Completed(f)
  /\ UNCHANGED <<inflight, slots>>

-----------------------------------------------------------------------------
Controller == \/ \E F \in SUBSET Fields, v \in Settings : QueueValues(F, v)
              \/ \E s \in Sources : RequestSync(s)
Websocket == \/ LiveUpdatesUp \/ LiveUpdatesDown \/ WebsocketDisconnected
             \/ \E i \in SlotIds : CommandSucceeded(i) \/ CommandFailed(i)
             \/ \E loaded \in SUBSET Fields, v \in Settings : DashboardValues(loaded, v)
Call == \/ CallBegins \/ HelperAccepted
        \/ \E status412 \in BOOLEAN : CallFails(status412)
        \/ \E f \in Fields : AcceptedWaits(f) \/ AcceptedApplied(f)
Worker == \/ Take \/ TopIdle \/ TopUnselected \/ TopSends \/ TopSyncs
          \/ \E outcome \in {"none", "read", "failed"}, loaded \in SUBSET Fields, v \in Settings :
               Merge(outcome, loaded, v)
          \/ PrebrewDone \/ BbwDone \/ WakeDone \/ Choose \/ CloudDone \/ BleDone
          \/ BleConnects \/ BleInterrupted \/ BleConnectFails
          \/ BleWritten \/ BleRejected \/ BleUnverified
          \/ Call
Surroundings == AcksOverdue \/ BackoffOver \/ BleDisconnected

Next == Controller \/ Websocket \/ Worker \/ Surroundings

Spec == Init /\ [][Next]_vars

-----------------------------------------------------------------------------
(* Properties.                                                             *)

\* A field in flight is covered by a command whose confirmation, failure or
\* timeout ends the wait; without one it would be reported busy for ever.
InflightHasSlot ==
  \A f \in inflight : \E i \in SlotIds : slots[i].active /\ slots[i].field = f

\* While the write of a field is owed or awaits its confirmation, the
\* controller shows what the user asked for: no dashboard message, sync or
\* confirmation of an older write flips it back.  (An edit that is still
\* deferred by the controller is not in reported_values yet.)
OwedIsShown ==
  \A f \in (pending \cup inflight) \ Deferred : reported[f] = desired[f]

\* A field that only waits for its confirmation is one whose latest value was
\* taken: a command sent before the user's last edit never stands in for it.
\* (A newer brew-by-weight edit is dropped with the feature.)
InflightIsLatest ==
  \A f \in inflight \ (pending \cup Deferred \cup BbwFields) : accepted[f] = desired[f]

\* A write is forgotten only when its latest value has been taken, however
\* edits and calls interleave - or when the worker, at the top of its loop,
\* finds no machine to send it to.
CompletedOnlyIfAccepted ==
  [][\A f \in pending \ pending' : accepted'[f] = desired[f] \/ pc = "top"]_vars
=============================================================================
