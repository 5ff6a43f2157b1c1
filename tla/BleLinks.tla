----------------------------- MODULE BleLinks -----------------------------
(***************************************************************************)
(* The scale adapter and the machine worker on one BLE host, with resets   *)
(* of the host at any moment.                                              *)
(***************************************************************************)
EXTENDS ScaleLink, MachineBle

TypeOK ==
  /\ scan \in Owners /\ conn \in Owners
  /\ source \in LinkStates /\ gateway \in LinkStates /\ owner \in LinkStates
  /\ synced \in BOOLEAN /\ subscribed \in BOOLEAN /\ scanning \in BOOLEAN
  /\ connecting \in BOOLEAN /\ stopping \in BOOLEAN /\ faulted \in BOOLEAN
  /\ ready \in BOOLEAN /\ fresh \in BOOLEAN /\ ticking \in BOOLEAN
  /\ ours \in BOOLEAN /\ mScanning \in BOOLEAN /\ connSem \in BOOLEAN
  /\ config \in Configs /\ served \in Configs
  /\ revision \in 1 .. MaxRevision /\ applied \in 0 .. revision
  /\ published \in [connected : BOOLEAN, fresh : BOOLEAN, gateway : BOOLEAN]
  /\ pc \in {"idle", "work", "discover", "wait", "cancel", "session"}
  /\ job \in Names \cup {"none"}

Nothing == [connected |-> FALSE, fresh |-> FALSE, gateway |-> FALSE]

Init ==
  /\ synced = FALSE /\ scan = "none" /\ conn = "none"
  /\ source = "none" /\ gateway = "none" /\ subscribed = FALSE
  /\ scanning = FALSE /\ connecting = FALSE /\ stopping = FALSE /\ faulted = FALSE
  /\ ready = FALSE /\ fresh = FALSE
  /\ config = Stored /\ revision = 1 /\ served = "off" /\ applied = 0
  /\ published = Nothing /\ ticking = FALSE /\ ours = FALSE
  /\ owner = "none" /\ mScanning = FALSE /\ connSem = FALSE
  /\ pc = "idle" /\ job = "none"

HostSyncs ==
  /\ ~synced /\ synced' = TRUE
  /\ UNCHANGED <<radio, adapter, machine>>

\* The host reports every link and procedure as ended, then the reset itself.
\* A fault stays until the settings change.
HostResets ==
  /\ Idle /\ synced' = FALSE
  /\ scan' = "none" /\ conn' = "none"
  /\ source' = "none" /\ gateway' = "none" /\ subscribed' = FALSE
  /\ scanning' = FALSE /\ connecting' = FALSE /\ stopping' = FALSE
  /\ ready' = FALSE /\ fresh' = FALSE /\ published' = Nothing
  /\ owner' = "none" /\ mScanning' = (mScanning /\ owner = "none" /\ scan # "machine")
  /\ connSem' = (connSem \/ owner # "none" \/ scan = "machine" \/ conn = "machine")
  /\ UNCHANGED <<faulted, wanted, inUse, ticking, ours, pc, job>>

Next == ScaleNext \/ MachineNext \/ HostSyncs \/ HostResets

\* The host comes up and its tick goes on; the host's queue
\* is first in, first out, so that ticks do not keep back the end of a link or
\* connection attempt; the worker is scheduled and its calls return.
HostRuns ==
  \/ HostSyncs \/ TickStopsForConfig \/ TickDrains \/ TickRests \/ TickScans \/ TickPublishes
  \/ \E fatal \in BOOLEAN : TickStopsSession(fatal)
  \/ \E started \in BOOLEAN : TickConnects(started)
Spec ==
  /\ Init /\ [][Next]_vars
  /\ WF_vars(HostRuns)
  /\ SF_vars(source = "closing" /\ SourceDisconnects)
  /\ SF_vars(gateway = "closing" /\ GatewayDisconnects(FALSE))
  /\ SF_vars(SourceConnectFails \/ \E discovers \in BOOLEAN : SourceConnects(discovers))
  /\ WF_vars(Worker)

-----------------------------------------------------------------------------
(* Properties.                                                             *)

\* A procedure that runs is known to the side that started it, which ends it
\* or waits for it before the next: no stop and no callback of the other side
\* clears its flag too early.
RunningSearchIsKnown ==
  /\ scan = "scale" => scanning
  /\ conn = "scale" => connecting
  /\ scan = "machine" => mScanning

\* The machine is never served from another source session than the one it
\* joined: a stop lets it go before the next session can begin.
GatewayOfThisSession == gateway # "none" /\ ~stopping => source = "up" /\ ours

\* Whoever asks whether the scale has a recent weight is told so only while
\* its session is up; a stop is seen at once, not at the next tick.
PublishedFreshIsLive == published.fresh => source = "up" /\ ~stopping /\ ~faulted

\* A registration is begun for the name that the live session serves, even if
\* the settings change between the two halves of a tick.
RegistersServedName == [][RegistrationDue => source = "up" /\ served = config]_vars

\* Every stop ends: no callback it waits for fails to come.
StopEnds == stopping ~> ~stopping

\* The worker's own link to the machine is given up while the scale is in use, so
\* that the machine can connect to the virtual scale - by the registration or by
\* the look that finds it not due, however the session goes.  Only a worker that
\* is without writes and syncs again and again looks: machine_link_worker passes
\* the look over as long as one is owed, be it for ever (a steam level in standby).
WorkerLooksAgain == []<><<RegistrationDue \/ RegistrationNotDue>>_vars
OwnerReleased ==
  WorkerLooksAgain => (owner = "up" /\ ScaleActive ~> owner # "up" \/ ~ScaleActive)
=============================================================================
