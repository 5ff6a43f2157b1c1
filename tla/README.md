# Verification of the La Marzocco controller firmware

TLA+ models, TLC configurations and TLAPS proofs for the ESP32 firmware in
`src/firmware/esp32/main`. The controller is a knob with a display: it changes
the settings of an espresso machine over BLE and the vendor's cloud, and it can
stand in for the machine's scale by bridging a physical scale of another make.

Paths below are relative to `src/firmware/esp32/main` unless they start with
`src/`. `PROJECT.json` maps every definition to the lines it models.

## 1. Inventory

| Component | State it keeps | Operations | Interacts with | Hard behaviour |
|---|---|---|---|---|
| Virtual scale core (`scale_adapter_core.c`) | source and gateway session, control and reply queues, pending weight, error | source events, gateway frames, tick, peek/delivered | drivers (events), adapter (calls) | ACKs that do not name their write, timeouts judged late, retries, full queues |
| Scale adapter (`scale_adapter.c`, `scale_link_lifecycle.h`) | BLE handles, scan/connect flags, stop lifecycle, configuration revision, published info | tick (25 ms), GAP/GATT callbacks, configure, on_sync/on_reset | core, NimBLE, machine link, portal | late callbacks after a stop, host reset, configuration changed under a tick |
| Scale drivers (`scale_acaia.c`, `scale_bookoo.c`), decoder (`scale_protocol.c`) | byte buffer, the control waited for | feed, control frames, `control_written`, `observe_control` | adapter | resynchronisation, confirmations inferred beside ACKs |
| Registration policy (`scale_registration_policy.c`) | attempts, next due time | due, failed, done | adapter, machine BLE | backoff, the name wanted against the name served |
| Scale debug log (`scale_debug.c`, `scale_debug_store.c`) | ring of records in flash, queue, capture switch | record, export, clear, open after a restart | adapter (records), portal | power loss in a write or erase, a wrap, a record older than a clear |
| Machine link (`machine_link.c`, `machine_link_cloud.c`) | desired and reported values, pending and in-flight masks, confirmation slots, sync flags | queue values, request sync, worker loop, websocket callbacks | runtime (task), websocket (task), BLE host (task), cloud HTTP (blocking calls) | edits during calls, lost or late confirmations, transports failing half way |
| Machine BLE (`machine_link_ble.c`) | scan/connect state, handles, one operation at a time | scan, connect, read, write with follow-up read, verify | machine link worker, adapter (shared radio) | callbacks of a cancelled procedure, shared semaphores |
| Cloud live updates (`cloud_live_updates.c`) | websocket task, stop request, connection flags, brew timer | start, stop, pause for HTTP, event handler, probe | machine link, HTTP calls | start and stop racing, pause deadline |
| Cloud HTTP and session (`cloud_auth.c`, `cloud_session.c`, `cloud_api.c`, `cloud_machine_api.c`) | tokens, HTTP lock, requests in flight | login, refresh, commands, dashboard | websocket, machine link | one TLS client at a time, token refresh and retry |
| Controller runtime (`controller_runtime.c`) | shown values, local holds, delayed sends | input events, merge of loaded values, flush of delayed sends | machine link, UI | a merge between an edit and its delayed send |
| Controller state (`controller_state.c`) | recipes, presets and settings in RAM and under a dozen NVS keys, a version counter | load and migrate, persist, edit, portal's load-modify-persist, reset | runtime (main loop), portal (task) | power loss between two keys, two tasks without a lock |
| Wi-Fi setup (`wifi_setup.c`, `wifi_reconnect_policy.c`) | connection flags, retry flag, count and generation, access point | driver events, retry task, new credentials, network reset | driver, portal, live updates | retries cancelled and planned by three tasks, the recovery access point |
| Shot timer, heat session, connectivity | small state machines with time | events and time | runtime | clock steps |
| Settings (`controller_settings.c`, `settings_storage_model.h`) | NVS keys, migrations | load, save, migrate, reset | portal, runtime | restart between two keys of one save |
| Setup portal, UI, board drivers, fonts | - | rendering, parsing, hardware access | everything | outside the models |

What makes each correct:

* *Core*: a control is answered only after the physical scale confirmed every
  operation it stands for; a tare hides old weights; every control ends.
* *Adapter*: after a stop nothing of the old session is used, and the stop ends.
* *Machine link*: no edit is lost or shown wrongly while it is owed; nothing
  waits for ever.
* *Live updates / HTTP*: the websocket is paused during a call (at most one TLS
  client is what the code promises and section 6 refutes); calls return; the
  websocket comes back.
* *Runtime*: an edit is shown until it is sent, and what is sent is the edit; in
  the end the display follows the machine.
* *Presets*: what was persisted is read back whole; RAM and flash agree.
* *Debug log*: the newest records survive, in order; a cleared log stays empty.
* *Wi-Fi*: with credentials a retry is always planned, unless the driver refuses a
  connect; without a network the access point comes up.

The hazards are listed at their lines in `PROJECT.json`.

## 2. Modules

| Module | Role |
|---|---|
| `ScaleRequests` | abstract: the promise made to the machine's gateway, a FIFO of requests, each answered after its operations were confirmed in order |
| `ScaleCore` | `scale_adapter_core.c`, the confirmations of the drivers, and the parts of the adapter between them; implements `ScaleRequests` |
| `BleHost` | the state that the scale adapter and the machine worker share: the host's one discovery and one connection attempt, links, published information |
| `ScaleLink` | `scale_adapter.c` and `scale_link_lifecycle.h`: configuration, tick, source and gateway links, stop |
| `MachineBle` | `machine_link_ble.c`: search, connection, interruption, registration of the virtual scale |
| `BleLinks` | composes `ScaleLink` and `MachineBle` on one host that comes up and resets |
| `MachineLink`, `MachineLinkLive` | the write queue, the worker, the cloud's confirmations and the sync flags; with fairness and liveness |
| `CloudLive` | the websocket of the live updates and the HTTPS calls, which take turns |
| `ControllerRuntime` | input events, local holds, delayed sends and merges of the main loop |
| `Presets` | load, migration and persist of recipes and presets by the main loop and the portal |
| `DebugStore`, `DebugLog` | the ring in flash as operators; the worker, the portal and the faults around it |
| `Wifi` | the driver's events, the retry task, the setup access point and the user's operations |
| `ScaleCore_proofs`, `MachineLink_proofs`, `BleLinks_proofs`, `CloudLive_proofs`, `ControllerRuntime_proofs`, `DebugLog_proofs`, `Wifi_proofs`, `Presets_proofs` | proofs about the module each is named after |

How they compose. `ScaleLink` takes what `ScaleCore` does inside a session as a
session that is set up or not and has a recent weight or not; `Stop` and
`EndGateway` of `ScaleCore` are its `StopLinks` and `GatewayDisconnects`.
`MachineBle` is a session of `MachineLink`'s worker, whose outcomes
(`BleConnects`, `BleInterrupted`, `BleConnectFails`) are all that `MachineLink`
sees. `ControllerRuntime` produces the requests of `MachineLink`'s
`QueueValues`, and takes the reports as any change of a field. `CloudLive` says
when the websocket is up, which is `MachineLink`'s `connected`.

### ScaleCore

One action per event of the source (`ReadyEvent`, `WeightEvent`,
`WeightConfirms`, `SourceAnswers`, `InvalidEvent`), per frame of the gateway
(`Pair`, `StartStream`, `ApplySetting`, `RequestControl`, `RejectCommand`), per
way out of `lm_scale_core_tick` (`TickSourceFails`, `TickUnconfirmed`,
`TickWrites`, `TickAnswers`), per delivered notification (`DeliverReply`,
`DeliverWeight`), plus `EndGateway`, `Stop` (`stop_links`) and the passage of
time (`Advance`). The adapter runs all of these on one NimBLE host task, so an
action is a whole call.

* Timestamps are kept as ages that saturate one past the only limit they are
  compared with. The code compares `uint64_t` milliseconds, which do not wrap.
* `first_weight_at` and `acknowledged_at` become `sampleDelay` and `ackDelay`,
  measured from the write (`started`). The sample counter `weights` is compared
  with `weights_before` only, which is `sampled`.
* `wire` is the physical scale: writes it has not answered, oldest first. It
  answers in order, at most once; a silent scale is one that never does. A
  stopped session closes the link, so nothing of it arrives in the next.
* `performed` and `staleSample` are history: no guard reads them.
* A request that is coalesced changes nothing and is therefore a stutter.
* `nextId` is bounded by `MaxId` per source session; the code's counter is 32
  bits wide and is cleared with the session. Its wrap past 2^32 requests within
  one connection is not modelled.
* Every registered driver sets `control_written` and `observe_control`. `driver` is
  the one of the session: `"acaia"` for both Acaia drivers, whose scales
  acknowledge every control on the wire (`WireAcks`) and which infer a tare beside
  that (`Inferred`); `"bookoo"` for both BOOKOO drivers, whose scales acknowledge
  nothing and which infer every control. `pending` is what `control_written` has
  noted (`tare_pending`; `control_pending` with `pending`): `WriteTaken` is refused
  while it is set, `observe_control` or a wire ACK of the operation clears it. A
  refusal is `Fail("write")` after the write has gone out, as in `send_control`; the
  session then ends and with it what the write would bring.
* A weight may confirm the pending operation or not (`WeightConfirms`,
  `WeightEvent`): the thresholds (0.05 g twice, 50 ms apart; the timer's plateau of
  200 ms) are abstracted, so an inference may come as early as the first weight.
* Commands with evidence of both kinds are `Doubtful`: the tare of the Acaia
  drivers. An ACK on the wire may still be under way when the tare it answers has
  been inferred, and it names no write. `ConfirmedBeforeAnswered`,
  `OneWriteInFlight` and `ScaleRequests` speak of every driver and except this one
  command; `TareConfirmed` is what the documentation says of it, and
  `ScaleStaleAck` refutes it.
* `DriverAgrees` relates the two places that wait: driver and core are written
  apart, and a driver that waited on would refuse the next write.

### MachineLink

The worker is cut at its blocking calls: HTTP, BLE connect, BLE write. `pc`
names the place where it blocks or decides, `todo` the commands left of the
plan it made, and `busy` a cloud call under way. Between these the code holds
`s_link_lock` or works on locals, so larger atomic steps hide nothing; wherever
it copies shared values and blocks, the copy is a variable (`seen`, `mask`,
`flags`, `wasConnected`).

| Model | Code |
|---|---|
| `desired`, `reported`, `pending`, `inflight`, `sync` | fields of `s_link` |
| `remoteOn`, `feature` | what `remote_values` and `feature_mask` are used for |
| `slots` | `s_pending_cloud_commands`; the command id is the slot itself |
| `connected` | `cloud_live_updates_connected` |
| `Take`, `Top*`, `Merge`, `PrebrewDone`, `BbwDone`, `WakeDone`, `Choose`, `Ble*`, `CloudDone` | `machine_link_worker` from top to bottom |
| `CallBegins`, `CallFails`, `HelperAccepted`, `AcceptedWaits`, `AcceptedApplied` | `send_cloud_command` and its callers |
| `CommandSucceeded`, `CommandFailed`, `DashboardValues`, `WebsocketDisconnected`, `LiveUpdates*` | calls from the websocket task |
| `QueueValues`, `RequestSync` | calls from the runtime; `MaxRequests` bounds their number |
| `accepted` | history: the value of each field that the machine or cloud took last |

* A field is one of the code's command groups: both prebrewing times are sent
  together, and so are both doses. Two values per field tell an old one from the
  latest. A slot keeps one field because every command carries one.
* `QueueValues` receives the controller's whole record. Fields outside the
  request carry what the runtime shows; `Carries` says which values are
  possible: a field whose write is owed still has the value that was asked for,
  except those whose sends the runtime defers (`Deferred`).
* Every cloud call first stops the websocket (`cloud_auth.c`,
  `http_request_capture`), and the websocket does not start during one.
* Filling a slot and marking its fields in flight is one action. In the code the
  slot is filled first, without the lock; the websocket task that could see the
  difference was stopped by the call that has just returned.
* A missing machine selection is a nondeterministic outcome of `TopUnselected`.

### BleHost, ScaleLink, MachineBle, BleLinks

Callbacks and the adapter's tick run on the NimBLE host task, one at a time.
The tick is cut in two (`Tick...` and `TickPublishes`), because the portal may
configure between its copy of the settings and the publication; the worker and
the portal run beside it, and the worker is cut where it looks at shared state
or calls the host.

| Model | Code |
|---|---|
| `source`, `gateway`, `owner` | handle and the link behind it; `"closing"` is a link the program has terminated and whose DISCONNECT is to come |
| `scan`, `conn` | the owner of the host's one discovery and one connection attempt |
| `scanning`, `connecting`, `mScanning` | the flags of adapter and worker about them |
| `stopping`, `faulted`, `config`, `revision`, `served`, `applied`, `published` | `s_lifecycle`, `s_faulted`, `s_info.config`, `s_revision`, `s_config`, `s_applied_revision`, `s_info` |
| `StopLinks` | `stop_links`, with the fields as its caller has left them |
| `Tick...` | one action per way through the tick |
| `pc`, `job` | where the worker is; the name it is about to register |
| `ours` | history: the gateway joined this source session |

A host reset (`HostResets`) reports all links and procedures as ended, which is
what `machine_link_on_reset` and `lm_scale_adapter_on_reset` rely on. Time limits
have passed or not as the model chooses; a session's GATT operations go through
or end the session.

### CloudLive

`pc` holds where each task is; a step is what it does between two looks at
`s_state`. A call goes through `"lock"` (the HTTP lock and the count),
`"pause"`/`"paused"` (`pause_for_http`, with the three seconds of `stop`),
`"request"` and `"ensure"` (`ensure_task`); a sign-in is a call inside the
authentication lock (`"token"`, `"auth"`, `"signed"`). The websocket task goes
round `"loop"`, `"token"`, `"open"`, `"run"`, `"close"` and `"end"`, and signs in
itself, which is why `NoPause` asks whether the caller is that task. `client` is
its connection, which events change beside it.

Account and machine are set. `EnsureStarts` and `Creates` are the look for a
websocket task and its creation, with the lock released between them, so any
number of tasks can be there at once: each creates a task and the last handle is
kept, and `CreateFails` clears it, whosever it was. `wsClient` is the registered client
(the one `stop` closes), as the task whose client it is. `Sockets` are the
websocket tasks memory is enough for: a creation with none left fails. `MaxEvents`
bounds the calls, restarts, losses and failures for other reasons together.

### ControllerRuntime

The main loop is `"wait"` (one event), `"merge"` (machine status), `"send"`
(preset change, delayed send). `values` is what is shown, `link` what the machine
link reports, `hold`, `held`, `fresh` the local holds with their common time
limit, `delayed`, `due` the delayed send. `Deferred` fields are sent after the
pause, `Immediate` ones at once, `Recipe` is what a preset stores. `chosen` and
`wish` are history: fields whose value the user chose and which neither was sent
nor is reported yet. `loaded` is history: stored values were taken over since
the last merge. On the presets and setup screens a rotation also holds and sends
the field that was in focus (`Selects`), as the code does.

### Presets

Load and persist touch NVS key by key (`Reads`, `Writes`), so that another task
or a power loss comes between any two. A recipe is a number in units of the fine
step; blobs carry their form, by which the reader of a schema accepts or refuses
them. `Init` has each older schema, the legacy blob and an empty namespace. The
portal does one request at a time and is idle until the boot's load has ended.
NVS itself is external: a key is written whole and survives once the write
returned; opening and erasing do not fail.

`failed` is history: since the boot a write has failed, or a load has found a
`Stray` key, that is the key of an older schema with nothing to read under it. A
load leaves such a key alone, and `PresetsAgree` says nothing of such a boot
(section 5 tells why).

### DebugStore, DebugLog

The flash is a header and slots; a slot is blank, torn, or a record's number.
`DebugStore` translates open, append and clear as operators of the flash,
`PartlyErased`, `HalfAppended` and `HalfCleared` what a power loss leaves.
`DebugLog` has the worker from the receipt of a record to the release of the
lock, the recording calls, the capture switch, export, clear, failing flash
operations, crashes and power losses. The worker waits at most 250 ms in the
code; here it may always go on.

### Wifi

Each task is cut where it leaves the state lock or calls the driver, which
posts its events into the queue of the event task. The driver is external: mode
changes succeed, connecting a connected station disconnects it first, and a
configuration is refused while the station tries: the credentials that were saved
then reach the driver with the next save or restart only. `esp_wifi_connect` can fail
wherever it is called (`Refuses`: the retry task, `wifi_setup.c:327`; the branch
without memory, 986; new credentials, 610): no event follows. `refused` is history:
a connect was refused to a station that was not trying, and since then none was
taken and no link was lost or found. The user's operations come one at a time. A
retry task that was cancelled by a new generation ends; one that has left the lock
still connects (`late`).

## 3. Runs

| Run | Instance | Question |
|---|---|---|
| `ScaleCore` | both kinds of driver, 2 controls, 2 replies, limits of 1, 3 ids | safety, refinement and end of every control of the core |
| `ScaleStaleAck` | Acaia, 1 control, 1 reply, 2 ids | violation: the tare's stale ACK (section 6) |
| `MachineLink` | steam and prebrewing, 2 slots, BLE enabled, 2 requests | several confirmations of one field, BLE with its fallback, a second field that only the cloud takes |
| `MachineLinkLive` | steam and standby, 1 slot, no token, 2 requests | over the cloud: no write without a slot, none forgotten, every one settled |
| `BleLinks` | 2 names, 2 revisions | the shared radio, sessions, stops, registration |
| `CloudLive` | 1 worker, 1 portal, probe, runtime, memory for 1 websocket task, 2 events | the registered websocket is paused, calls return, live updates come back |
| `CloudTwoTls` | the same with memory for 2 websocket tasks, 1 event | violation: two TLS connections (section 6) |
| `ControllerRuntime` | 2 deferred and 1 immediate field, 2 values, 2 edits, 2 reports | what is shown, held and sent |
| `DebugLog` | 2 sectors of 2 records, queue of 1, 6 records, 2 faults | the ring over faults and restarts |
| `Wifi` | fallback at 4, count up to 8, 4 events, 2 late retries; any connect may be refused | retries, reconnection, recovery access point |
| `Presets` | 2 slots, 1 by default, 3 events | read back and agreement |
| `MachineLinkFallback` | standby, 1 slot, BLE enabled | violation: the failed fallback (section 6) |

*Bounds.*

* `ScaleCore`: the two oldest controls are the only ones the core treats
  differently (`controls[0]` and the rest), so two queue places and a third id,
  which is accepted once the first is gone, reach every relation between
  neighbours; the reply queue of two fills up with a setting and an ACK. A time
  limit of one unit has a tick before, at and after it. The freshness limit of the
  code is 1000 ms and the control limit 450 or 2000 ms, so that either comes first;
  with equal limits, ages that start at different moments run out in either order.
  A new session takes any of the drivers. The violation needs one control at a
  time only.
* `MachineLink`: the controller asks twice, at any moment: for a write of either
  field or both, or for a synchronization. Two slots hold the commands of an older
  and a newer edit of the same field, or of the two fields. Steam is the field of
  which a write is two commands (level, then setting) and which BLE takes;
  prebrewing is sent over the cloud ahead of BLE, a mode and then the times, which
  are tried alone when the mode is refused with status 412. `MachineLinkLive`: one slot with two fields
  reaches the full table, and standby beside steam the wait of a steam level for the
  power, and the wake-up ahead of other writes. A field interacts with another only
  through the masks, the plan and the table. Temperature and brew by weight are in
  no run: the theorems of section 5 have any fields.
* `BleLinks`: two changes of the settings (revision 1 is the boot's) reach a
  change during every phase of a stop and of a registration; the two names tell
  the wanted from the served one.
* `CloudLive`: two of the worker's calls, restarts, losses and failures beside the
  runtime's and the probe's own calls, which are not bounded and meet those in
  `ensure_task`. With memory for one websocket task, two that create at once leave one
  task, and a cleared handle while it runs; with memory for two the safety property
  is proved (any number), and the liveness properties are not checked.
* `ControllerRuntime`: one edit that waits and another that disturbs it, one
  report before and one after. Two deferred fields are needed for the hold that
  another renews, and one immediate field for the send beside a delayed one.
* `DebugLog`: the ring wraps with the fourth record and is in its second round
  with the sixth; two faults reach one within the recovery from another.
* `Wifi`: the limits are the code's own; four events pile up behind a handler
  that is busy, and the queue then holds back the driver, not the handler.
* `Presets`: one slot that the default count hides and one that it shows; three
  events are for instance a portal request, an edit and a power loss.

The proofs of section 5 do not depend on these bounds.

*Deadlock* is checked in `CloudLive`, `ControllerRuntime` and `Wifi`. The others
stop where a bound of the instance stops them (`BleLinks`, `DebugLog`,
`Presets`), or can rest without anything to do.

*Mutants.* Each property has a plausible mistake of the code beside the
definition it would be made in (`..._OffByOne`, `..._Always`, ...). The
mutants are never used by the specifications; each makes its property fail in
its run.

## 4. Fairness

* `ScaleCore!FairSpec`: the 25 ms callout re-arms itself at the end of every
  tick (`scale_adapter.c:663`) and time passes; a tick whose core call fails
  runs `stop_links` in the same callback. Nothing is assumed of the physical
  scale, of the machine or of notifications: `EveryControlEnds` holds because
  the confirmation, freshness and backpressure limits end what they do not.
* `MachineLinkLive!FairSpec`: weak fairness of the worker task, whose calls
  have time-outs, and of time; strong fairness of a retried cloud command being
  taken at last. The last is an assumption on the outside: with the cloud down
  for ever the worker retries for ever. Confirmations need not come.
  The instance has no BLE: there a fallback that succeeded counts as an error
  (section 6), and settling would depend on the next BLE write.
* `BleLinks!Spec`: the host comes up and its tick goes on; a terminated link and
  a connection attempt end, because NimBLE bounds both by time-outs (30 s for the
  attempt, the supervision time-out for the link) and its queue is first in,
  first out, so that the ticks between (25 ms) do not keep the event back: that is
  the strong fairness. The worker is scheduled and its waits have time-outs. That
  its loop ever comes to a round without other work is not assumed, as a write that
  stays pending keeps it from that (`machine_link.c:616`): `OwnerReleased` states it as
  its premise `WorkerLooksAgain`.
* `CloudLive!Spec`: tasks are scheduled; the locks are FreeRTOS mutexes, which
  hand over by priority and then in order, so nobody waiting is passed over for
  ever; the runtime's loop asks every minute. On the outside: calls are answered,
  and the websocket connects and subscribes, now and then; these are premises of
  `LiveUpdatesResume`, while `CallsReturn` needs only that a call ends, for which
  the HTTP client has a time-out.
* `ControllerRuntime!Spec`: the loop is woken by its timer, time passes, and the
  link synchronizes (the periodic requests of `controller_runtime.c:601`).
* `Wifi!Spec`: tasks run, delays end, and a station does not try for ever (the
  driver gives up with a disconnect event). That a trying station joins at last is
  a premise stated in `StationReconnects`; that a connect is taken is assumed nowhere.
* `DebugLog!Spec`: weak fairness of the worker, whose wait for an event ends after
  250 ms and whose flash calls return; nothing is assumed of events, of the portal
  or of the flash, and `CaptureRecords` excepts a flash that fails.
* `Presets` has safety properties only.

## 5. Proofs

TLC checks small instances; the theorems hold for every value of the constants
that the assumption of each module allows.

`ScaleCore_proofs`:

* `TypeCorrect`: `Spec => []TypeOK`. There is one lemma for each action or group
  of actions. `TypeOK` bounds the lengths of the control and the reply queue, so
  that the theorem says that neither outgrows its C array.
* `AnswersMatch`, `TareWithholds`, `JudgedByArrival`, `Coalesced`. They follow
  from the inductive invariant `IInv`, which strengthens them with
  - `QueueOK`: nothing but the head has been touched, identifiers stay below
    `nextId`, the last one queued is `lastId`. Without it, popping the head could
    expose a control that already counts as delivered, and a retry of the latest
    request could be taken for a new one;
  - `StaleOK`: a sample that is too old implies a queued tare that has not been
    sampled. `TareWithholdsOldWeight` alone does not survive the step that
    delivers the ACK of a first tare while a second one is queued.
* `SingleWrite`, `DriverInStep`, `AnsweredWhenConfirmed` and `Refinement` hold for all
  the drivers, without a hypothesis. `IInv` is extended by `PhaseOK`, which ties the
  history, the wire and the driver to the head's fields: `HistoryOK`, a start with its
  reset confirmed has `<<"reset">>` behind it, and only a doubtful command can be
  further than what was performed for it; `WireOK`, a write on the wire whose ACK is
  its only evidence is the last there, and belongs to a head that is written and not
  acknowledged, while inferred ones may lie before it; `DriverOK`, the driver waits
  for what the head has written and not had acknowledged. The case that matters
  is a stale ACK of a tare: it confirms a later tare for the core and ends the
  driver's wait in the same step. `Refinement` maps each step: `RequestControl` to
  `Accept`, `SourceAnswers` and `WeightConfirms` to `Confirm` or a stutter, the
  delivery of an ACK to `Answer`, `Stop` to `Abandon`, every other step to a stutter.

`MachineLink_proofs`:

* `TypeCorrect`: `Spec => []TypeOK`. `TypeOK` alone is not inductive: `CallFails`
  takes `Tail(Tail(todo))` after a failed steam level, `HelperAccepted` the tail,
  and a call that comes back could do so after its plan was replaced. `IInv` adds
  `PlanOK`: a steam level is always followed by its steam setting; a call under
  way has a step and is made from a cloud stage or as a BLE fallback; a plan for
  BLE holds fields only, behind the steam level a fallback may put in front. The
  lemmas about `Plans` (append, tail, the four plans the worker makes) carry it,
  with one lemma for each part of `IInv`.
* `InflightCovered`: `Spec => []InflightHasSlot`. Inductive given `TypeOK`. The
  case that matters is `AcceptedWaits`: the slot taken over was free, so no field
  that was in flight loses its slot.
* `OwedShown`: `Spec => []OwedIsShown`. Inductive given `TypeOK`. Incoming values
  pass `Accepts`; a confirmation changes the shown value only when nothing newer
  is pending; no other step adds to `pending \cup inflight` without setting the
  shown value.
* `InflightLatest`: `Spec => []InflightIsLatest`. It needs `AheadOK`: power or
  steam (the fields it speaks of) that the worker is still going to send is
  pending and not in flight. Otherwise the answer to a write of an old value could
  land on a field that waits for the confirmation of its newest one. Only the
  worker takes a field off `pending`, and it does so as it moves past it.
* `WritesForgotten` has no hypothesis: `ForgottenOnlyIfAcceptedOrGivenUp` names
  the four places at which the worker gives a pending write up without its latest
  value taken. The last is the finding of section 6.
* `CompletedAccepted` proves `CompletedOnlyIfAccepted` where none but the first of
  the four can occur: `Fields \subseteq BleFields` leaves out brew by weight and
  prebrewing, which the code drops on purpose, and with BLE enabled `Fields` is
  `{"steam"}`, as the fallback of the two other commands does drop writes. Run
  `MachineLinkLive` is an instance, run `MachineLinkFallback` shows that the second
  hypothesis is needed.

`BleLinks_proofs` (`HostAssumption`: any names, any number of configurations):

* `TypeCorrect`: inductive, proved in three parts because the prover that is good
  at Boolean variables is not the one for records.
* `SearchIsKnown`, `GatewayKeepsSession`, `PublishedIsLive` and
  `RegistrationIsServed` follow from `IInv`, which adds
  - `SessionOK`: a session that is up is neither stopping nor faulted, links that
    close are drained by a stop, and only a session has a weight;
  - `RadioOK`: the host has one procedure of one owner, the scale is connected
    only when no session is left and its gateway is gone or being drained, and the
    worker does not search while it has a link. Without it a connection could come
    up beside the gateway of the last session;
  - `ConfigOK`: equal revisions mean that the wanted settings are the served ones,
    which is what makes `revision = applied` the right test for a registration;
  - `PublishedOK`: what is published is a record of its three fields.

`CloudLive_proofs` (`CloudAssumption`: any tasks, however many create at once):

* `RegisteredPaused`. `IInv` says that the holder of the HTTP lock is counted
  (`Counted`), that a connection exists inside `"run"` and `"close"` only
  (`ClientRuns`), and that during a request the registered websocket task, unless it
  is the caller, is before its look at the count or past its end
  (`RegisteredWaits`). A task created during the call starts there, and one that is
  no longer registered may be anywhere: this is where `OneTls` fails.

`ControllerRuntime_proofs` (`RuntimeAssumption`: any fields, values, deferral and
preset contents):

* `TypeCorrect`, then `ChosenIsSent` and `ShownIsReported`, each inductive next to
  `TypeOK`: a choice waits behind its hold, which is why a merge leaves it alone,
  and a shown value differs from the reported one only behind a hold, a pending
  merge or a load, which is why an ended hold is seen.

`DebugLog_proofs` (any number of sectors, of slots per sector, of records and of
faults that `DebugStore` allows):

* `ReadInOrder`, `NewestKept`, `CountCorrect`, `ClearedEmpty`, `TypeCorrect`. The
  inductive invariant is `FlagsOK`, `ClearOK` and `Agree`, which TLC checked on
  rings of 3x1 and 2x2 slots before. `Agree` says of the flash that it is a `Ring`
  for some next slot, also while no store is open: read from that slot on, the
  numbers grow, and if the slot is not the first of its sector, the rest of that
  sector is free. A store that is ready `Fits` the flash: it has such a slot,
  its numbers are above all stored ones, and its count is no less than what is
  stored. The newest record is in the slot behind the next one.
  `OldestToNewest` alone does not survive a restart, which must find the slot from
  the flash alone.
* Three groups of lemmas: the arithmetic of slots and sectors; what an append, a
  wrap, and the half of either do to a `Ring` (`PlaceFacts`, `AppendFits`,
  `HalfAppendedFacts`, `HalfClearedFacts`); and what the scan of a restart finds
  (`ScanFits`), for which the greatest stored number comes from the
  well-foundedness of strict subsets, without induction over an operator.
* `ClearOK`: while a clear waits for the lock, capture is off and stays off over a
  restart; after it the worker has nothing that it would still write.

`Wifi_proofs` (any threshold, number of events and late retries):

* `RetryPlanned`: a refused connect sets `refused`, of which `RetryIsPlanned` says
  nothing; every other step keeps it. It is inductive with
  - `PendingWaits`: the flag that keeps a second retry from being planned is set
    only while one waits, so nothing is refused in vain;
  - `Online`: `sta_connected` is stale only while a `"down"` is queued. This is what
    makes the handler's and the retry task's early return on it right, and is
    the theorem `ConnectedIsCurrent` of its own;
  - `UpIsUndone`: every queued `"ip"` has a later `"down"` unless the station is
    still up; without it the handler of an old `"ip"` would break `Online`;
  - `Erased`: the network is left only without credentials.

`Presets_proofs` (`CountsAssumption`: any number of slots, inputs, largest recipe
and number of events):

* `ReadBack`. `Written` says that a persist nobody disturbed has stored the keys up
  to its place; `StoredLoads`, that keys which a persist has all stored load as
  what it stored. That needs the state to be rounded (`Settled`), as a load rounds
  again, which is why `TasksOK` says so of everything that is taken over.
* `InAgreement`. `Agreed` says what the main loop has in each of its places: at
  rest, the stored presets; reading, keys that are still as it read them; writing,
  the keys it has written. It holds unless the portal writes or there is news. A
  migration is a persist without a bump, so `Migrated` and `NoneOld` say that after
  the boot none comes: the keys are `Covered`, and what a load has read so far has
  no older schema. The hard part is the legacy blob, which a load reads last:
  `LegacyOK` says that every reader has met, or will meet, a key before it that
  makes it ignore the blob.
* The proof attempt showed `PresetsAgree` as first stated to be false, five events
  deep and beyond the run's three: a migration fails and a factory reset is cut off
  so that only the older schema's key is left; the portal loads that key; the
  main loop persists the current schema; the portal's load then migrates what it
  has not found, and stores defaults without a bump. TLC confirmed it from a state
  with that key only. The property now leaves out a boot in which a load met such
  a key (`Stray`), and for the rest holds without a bound.

## 6. Findings

*A failed fallback completes a BLE write* (`MachineLinkFallback`).
`send_power_command` and `send_temperature_command` return the cloud's result
code as an `esp_err_t`; `LM_CTRL_CLOUD_SEND_FAILED` is 0, which is `ESP_OK`.
The steam command converts it.

*A tare is answered on another's ACK* (`ScaleStaleAck`). The Acaia driver infers a
tare from zero weights (`scale_acaia.c:155`), and the core answers it. If its ACK
comes after that and the next tare has been written, the core takes it for the
next tare's (`scale_adapter_core.c:65`), with any sample that follows. The firmware's
README (`src/firmware/esp32/README.md:61`) says that a tare is accepted on its explicit
ACK and a new sample, or on a verified zero after the write.

*Two TLS clients* (`CloudTwoTls`). `ensure_task` releases the lock before it creates
the websocket task (`cloud_live_updates.c:878-880`), so two tasks that look one after
the other create two, and a call pauses what is registered only. `cloud_auth.c:114`
says that at most one TLS client is kept alive while an HTTP request is active.

What else the code does that a reader may not expect is in the models as it is,
and noted with the hazards of `PROJECT.json`:

* A command can be registered as waiting after the disconnect that clears the
  waits (`machine_link_cloud.c:85`); it ends after twelve seconds.
* A sync requested during a sync is dropped (`machine_link.c:704`).
* `s_link.scanning` outlives a scan that was cancelled for a connection attempt
  which then fails; the search is not started again until a link is reported as
  ended (`machine_link_ble.c:1468`).
* A connect that the Wi-Fi driver refuses is logged or ignored and not planned
  again (`wifi_setup.c:327`, 986); the station stays idle until a restart or new
  credentials.
* Credentials saved while the station tries are refused by the driver
  (`wifi_setup.c:609`) and are used after the next save or restart only.
* A worker that has a write it cannot send does not look at the registration, nor
  give its link to the machine back while the scale is in use (`machine_link.c:616`).
* A migration of the presets that power cuts off loses them
  (`controller_state.c:855`); of two changes by portal and main loop at once, one
  is lost.
* The older schema's key that a cut-off reset can leave behind makes a load migrate
  over what another task has persisted meanwhile (`controller_state.c:826`): the
  load decides by the key it read first. Section 5 has the steps.
* A debug log whose clear was cut off is refused as foreign for ever
  (`scale_debug_store.c:102`).
* `portal_running` can say that the setup access point runs when it does not, if
  the setup screen or a network reset overlaps with a connection coming up
  (`wifi_setup.c:614`).

## 7. Only model-checked, and not modelled

*Only model-checked.* All liveness (`EveryControlEnds`, `EveryWriteIsSettled`,
`StopEnds`, `OwnerReleased`, `CallsReturn`, `LiveUpdatesResume`, `FollowsMachine`,
`CaptureRecords`, `StationReconnects`, `RecoveryApComes`), which is out of the proof
system's reach. Every safety property of a passing run has a theorem. One has a hypothesis, the
transports of `CompletedOnlyIfAccepted`, which section 5 explains.

*Not modelled*, and why:

* Fonts, images and the board's drivers: data and hardware access; the font tables
  are about half of the repository's lines of C.
* The portal's pages and request parsing, the display's widgets, status texts:
  formatting. The requests that act on a modelled component are actions there.
* Bytes of BLE frames, JSON, STOMP, CRCs, signatures: sequential conversions with
  host tests (`src/firmware/esp32/tests/host`).
* Shot timer, heat session and connectivity: functions of one task and its clock,
  with host tests.
* `controller_settings.c`: field-by-field writes to NVS under one lock. What its
  callers do with the outcome is in `Wifi`, `CloudLive` and `Presets`.
* Heat, water and brew-timer information of the machine, and the cadence of the
  periodic requests.

## 8. Plan

What is left, in order of importance:

1. Filling a slot and marking its fields in `MachineLink` as two steps, beside a
   websocket of `CloudLive`.
2. An abstract specification of the write queue (every edit is taken, superseded
   or given up) with `MachineLink` shown to implement it; `ForgottenOnlyIfAcceptedOrGivenUp`
   is its main step.
3. `controller_settings.c`: saves and migrations over restarts.
4. The decoder against a reference definition over short inputs.
