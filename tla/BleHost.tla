------------------------------ MODULE BleHost ------------------------------
(***************************************************************************)
(* What the scale adapter and the machine link share: the NimBLE host with *)
(* its one central procedure at a time, and the adapter's published state. *)
(*                                                                         *)
(* Callbacks and the adapter's tick run on the host task, one at a time;   *)
(* the machine worker and the portal run beside it.  A connection handle   *)
(* of the code is set and cleared by the callbacks that report the link,   *)
(* so one variable stands for both.  `closing' is a link the program has   *)
(* terminated whose DISCONNECT is still to come.                           *)
(***************************************************************************)
EXTENDS Naturals

CONSTANTS Names,         \* names of the virtual scale, one per configuration
          Stored,        \* the configuration found in NVS, or the default
          MaxRevision    \* bound: how often the adapter is configured

Configs == Names \cup {"off"}

ASSUME HostAssumption ==
  "off" \notin Names /\ Stored \in Configs /\ MaxRevision \in Nat \ {0}

VARIABLES
  synced,                 \* the host and the controller are up
  scan, conn,             \* owner of the running discovery, connection attempt
  source, gateway,        \* s_source, s_gateway: links of the scale adapter
  subscribed,             \* s_subscribed
  scanning, connecting,   \* s_scanning, s_connecting
  stopping, faulted,      \* s_lifecycle, s_faulted
  ready, fresh,           \* s_core: set up with a weight; the weight is recent
  config, revision,       \* s_info.config, s_revision: what is wanted
  served, applied,        \* s_config, s_applied_revision: what is served
  published,              \* s_info: what other tasks see of the links
  ticking,                \* the tick has copied the configuration
  ours,                   \* history: the gateway joined this source session
  owner,                  \* s_link.connected: link of the machine worker
  mScanning,              \* s_link.scanning
  connSem,                \* s_link.conn_sem
  pc, job                 \* the worker; the name it is registering

links == <<source, gateway, subscribed>>
search == <<scanning, connecting>>
core == <<ready, fresh>>
wanted == <<config, revision>>
inUse == <<served, applied>>
radio == <<scan, conn>>
adapter == <<links, search, stopping, faulted, core, wanted, inUse, published, ticking, ours>>
machine == <<owner, mScanning, connSem, pc, job>>
vars == <<synced, radio, adapter, machine>>

LinkStates == {"none", "up", "closing"}
Owners == {"none", "scale", "machine"}
=============================================================================
