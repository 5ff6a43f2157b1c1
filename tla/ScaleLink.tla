----------------------------- MODULE ScaleLink -----------------------------
(***************************************************************************)
(* The scale adapter's links (scale_adapter.c, scale_link_lifecycle.h):    *)
(* finding and connecting the physical scale, serving the machine's        *)
(* gateway, and stopping as one transaction that drains every callback.    *)
(* What the core does inside a session is ScaleCore's; here a session is   *)
(* set up, has a recent weight or not, and may be stopped by the core.     *)
(*                                                                         *)
(* A time limit has passed or not as the model chooses.                    *)
(***************************************************************************)
EXTENDS BleHost

\* stop_links.  src and trying: the handle and the connecting flag as the
\* caller has left them.  A scan that is cancelled is not reported.
CancelledScan_Reported == scanning \* Mutant: DISC_COMPLETE is waited for.
CancelledScan == FALSE
Invalidated_KeepsPublished == published \* Mutant: readers see the old freshness until the tick.
Invalidated == [published EXCEPT !.fresh = FALSE]
Trying_Forgotten(trying) == FALSE \* Mutant: a cancelled attempt is taken as over.
\* A cancelled connection attempt is over only with its CONNECT event.
Trying(trying) == trying /\ conn = "scale"
StopLinks(src, trying, fatal) ==
  IF stopping
  THEN source' = src /\ connecting' = trying /\ UNCHANGED <<scan, scanning, stopping, faulted, core, published>>
  ELSE /\ stopping' = TRUE
       /\ faulted' = (faulted \/ fatal)
       /\ published' = Invalidated
       /\ ready' = FALSE /\ fresh' = FALSE
       /\ source' = IF src = "up" THEN "closing" ELSE src
       /\ scan' = IF scanning THEN "none" ELSE scan
       /\ scanning' = CancelledScan
       /\ connecting' = Trying(trying)

\* lm_scale_link_finish_stop: nothing is left to come.
Drained_NoGateway == source = "none" /\ ~scanning /\ ~connecting \* Mutant: the gateway is not waited for.
Drained == source = "none" /\ gateway = "none" /\ ~scanning /\ ~connecting
Stopped == stopping /\ ~Drained

-----------------------------------------------------------------------------
(* Other tasks.                                                            *)

\* lm_scale_adapter_configure
Configure(c) ==
  /\ revision < MaxRevision
  /\ config' = c /\ revision' = revision + 1
  /\ published' = [published EXCEPT !.fresh = FALSE]
  /\ UNCHANGED <<synced, radio, links, search, stopping, faulted, core, inUse, ticking, ours, machine>>

-----------------------------------------------------------------------------
(* The tick.  It ends with TickPublishes; a task may configure in between. *)

TickEnters == synced /\ ~ticking /\ ticking' = TRUE

\* The configuration has changed while links are up or sought.
TickStopsForConfig ==
  /\ TickEnters /\ revision # applied /\ ~stopping /\ ~Drained
  /\ StopLinks(source, connecting, FALSE)
  /\ UNCHANGED <<synced, conn, gateway, subscribed, wanted, inUse, ours, machine>>

\* Stopping goes on; after a grace period, at least one tick, the gateway's
\* link is closed.
TickDrains ==
  /\ TickEnters /\ Stopped
  /\ gateway' = IF gateway = "up" THEN "closing" ELSE gateway
  /\ UNCHANGED <<synced, radio, source, subscribed, search, stopping, faulted, core, wanted,
                 inUse, published, ours, machine>>

\* The rest runs when no stop is under way; a new configuration is applied first.
Applying == revision # applied
MayApply == Applying => Drained
TickRuns ==
  /\ TickEnters /\ ~Stopped /\ MayApply
  /\ stopping' = FALSE
  /\ served' = config /\ applied' = revision
  /\ faulted' = (faulted /\ ~Applying)

\* Setup takes too long, the core or a write fails, or the gateway does not
\* subscribe; only a request under way makes it fatal.
TickStopsSession(fatal) ==
  /\ TickEnters /\ ~Stopped /\ revision = applied /\ ~faulted
  /\ source = "up"
  /\ fatal => ready /\ gateway # "none"
  /\ StopLinks(source, connecting, fatal)
  /\ UNCHANGED <<synced, conn, gateway, subscribed, wanted, inUse, ours, machine>>

Working == served' # "off" /\ ~faulted' /\ source = "none"
MayConnect == Working /\ connecting /\ ~scanning /\ conn = "none"

\* Disabled, faulted, waiting or just measuring.
TickRests ==
  /\ TickRuns
  /\ ready' = (ready /\ ~Applying) /\ fresh' = (fresh /\ ~Applying)
  /\ ~MayConnect /\ (source = "up" /\ ready => fresh)
  /\ UNCHANGED <<synced, radio, links, search, wanted, published, ours, machine>>

\* The selected scale was seen: its connection is tried once nobody connects.
TickConnects(started) ==
  /\ TickRuns /\ MayConnect
  /\ started => scan = "none"
  /\ conn' = IF started THEN "scale" ELSE "none"
  /\ connecting' = started
  /\ UNCHANGED <<synced, scan, links, scanning, core, wanted, published, ours, machine>>

TickScans ==
  /\ TickRuns /\ Working
  /\ ~connecting /\ ~scanning /\ scan = "none" /\ conn = "none"
  /\ scan' = "scale" /\ scanning' = TRUE
  /\ UNCHANGED <<synced, conn, links, connecting, core, wanted, published, ours, machine>>

TickPublishes ==
  /\ ticking /\ ticking' = FALSE
  /\ published' = [connected |-> source # "none", fresh |-> fresh,
                   gateway |-> gateway # "none" /\ subscribed /\ ~stopping]
  /\ UNCHANGED <<synced, radio, links, search, stopping, faulted, core, wanted, inUse, ours, machine>>

-----------------------------------------------------------------------------
(* source_gap, and the GATT procedures that set a session up.              *)

Idle == synced /\ ~ticking   \* the host task takes the next event

\* A target that was seen is connected from a later tick.
SourceSeen ==
  /\ Idle /\ scan = "scale" /\ ~stopping /\ ~connecting
  /\ connecting' = TRUE /\ scan' = "none" /\ scanning' = FALSE
  /\ UNCHANGED <<synced, conn, links, stopping, faulted, core, wanted, inUse, published,
                 ticking, ours, machine>>

ScanCompletes ==
  /\ Idle /\ scan = "scale" /\ scan' = "none" /\ scanning' = FALSE
  /\ UNCHANGED <<synced, conn, links, connecting, stopping, faulted, core, wanted, inUse,
                 published, ticking, ours, machine>>

\* A connection that was cancelled, or whose configuration is gone, can still
\* come up: it is closed at once.
SourceConnects(discovers) ==
  /\ Idle /\ conn = "scale" /\ conn' = "none"
  /\ ours' = FALSE
  /\ IF faulted \/ stopping \/ revision # applied \/ ~discovers
     THEN StopLinks("closing", FALSE, FALSE)
     ELSE /\ source' = "up" /\ connecting' = FALSE /\ ready' = FALSE /\ fresh' = FALSE
          /\ UNCHANGED <<scan, scanning, stopping, faulted, published>>
  /\ UNCHANGED <<synced, gateway, subscribed, wanted, inUse, ticking, machine>>

SourceConnectFails ==
  /\ Idle /\ conn = "scale" /\ conn' = "none" /\ connecting' = FALSE
  /\ UNCHANGED <<synced, scan, links, scanning, stopping, faulted, core, wanted, inUse,
                 published, ticking, ours, machine>>

SourceDisconnects ==
  /\ Idle /\ source # "none"
  /\ StopLinks("none", connecting, FALSE)
  /\ UNCHANGED <<synced, conn, gateway, subscribed, wanted, inUse, ticking, ours, machine>>

SourceSetUpFails ==
  /\ Idle /\ source = "up" /\ ~stopping /\ ~ready
  /\ StopLinks(source, connecting, FALSE)
  /\ UNCHANGED <<synced, conn, gateway, subscribed, wanted, inUse, ticking, ours, machine>>

\* A valid notification with a weight.
SourceWeighs ==
  /\ Idle /\ source = "up" /\ ~stopping
  /\ ready' = TRUE /\ fresh' = TRUE
  /\ UNCHANGED <<synced, radio, links, search, stopping, faulted, wanted, inUse, published,
                 ticking, ours, machine>>

\* A notification the driver or the core rejects, or a control write that fails.
SourceRejected ==
  /\ Idle /\ source = "up" /\ ~stopping
  /\ StopLinks(source, connecting, TRUE)
  /\ UNCHANGED <<synced, conn, gateway, subscribed, wanted, inUse, ticking, ours, machine>>

WeightAges ==
  /\ fresh /\ fresh' = FALSE
  /\ UNCHANGED <<synced, radio, links, search, stopping, faulted, ready, wanted, inUse,
                 published, ticking, ours, machine>>

-----------------------------------------------------------------------------
(* gateway_gap and access_gateway.                                         *)

\* Whom the adapter turns away leaves no trace.
Admits == ~stopping /\ gateway = "none" /\ fresh
GatewayConnects ==
  /\ Idle /\ Admits
  /\ gateway' = "up" /\ subscribed' = FALSE /\ ours' = TRUE
  /\ UNCHANGED <<synced, radio, source, search, stopping, faulted, core, wanted, inUse,
                 published, ticking, machine>>

GatewaySubscribes ==
  /\ Idle /\ gateway = "up" /\ subscribed' = TRUE
  /\ UNCHANGED <<synced, radio, source, gateway, search, stopping, faulted, core, wanted,
                 inUse, published, ticking, ours, machine>>

GatewayUnsubscribes ==
  /\ Idle /\ gateway = "up" /\ subscribed /\ subscribed' = FALSE
  /\ StopLinks(source, connecting, FALSE)
  /\ UNCHANGED <<synced, conn, gateway, wanted, inUse, ticking, ours, machine>>

\* A malformed or refused command.
GatewayRejected ==
  /\ Idle /\ gateway = "up" /\ subscribed /\ ~stopping
  /\ StopLinks(source, connecting, TRUE)
  /\ UNCHANGED <<synced, conn, gateway, subscribed, wanted, inUse, ticking, ours, machine>>

\* A control under way takes the source session with it.
GatewayDisconnects(pending) ==
  /\ Idle /\ gateway # "none"
  /\ gateway' = "none" /\ subscribed' = FALSE
  /\ IF pending /\ ready THEN StopLinks(source, connecting, FALSE)
     ELSE UNCHANGED <<scan, source, search, stopping, faulted, core, published>>
  /\ UNCHANGED <<synced, conn, wanted, inUse, ticking, ours, machine>>

ScaleNext ==
  \/ \E c \in Configs : Configure(c)
  \/ TickStopsForConfig \/ TickDrains \/ TickRests \/ TickScans \/ TickPublishes
  \/ \E fatal \in BOOLEAN : TickStopsSession(fatal)
  \/ \E started \in BOOLEAN : TickConnects(started)
  \/ SourceSeen \/ ScanCompletes \/ SourceConnectFails \/ SourceDisconnects
  \/ \E discovers \in BOOLEAN : SourceConnects(discovers)
  \/ SourceSetUpFails \/ SourceWeighs \/ SourceRejected \/ WeightAges
  \/ GatewayConnects \/ GatewaySubscribes \/ GatewayUnsubscribes \/ GatewayRejected
  \/ \E pending \in BOOLEAN : GatewayDisconnects(pending)
=============================================================================
