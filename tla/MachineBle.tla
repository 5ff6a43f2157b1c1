----------------------------- MODULE MachineBle -----------------------------
(***************************************************************************)
(* The machine worker's BLE session (machine_link_ble.c): searching the    *)
(* machine, waiting for the callbacks that report the outcome, and the     *)
(* registration of the virtual scale that uses the same link.  The GATT    *)
(* operations of a session either go through or end it.                    *)
(***************************************************************************)
EXTENDS BleHost

\* Back to the top of the worker's loop; a registration hands the link back.
Goto(label) == pc' = label
Released_Kept == owner \* Mutant: the link stays after a registration.
Released == IF owner = "up" THEN "closing" ELSE owner
Finish == Goto("idle") /\ job' = "none" /\ owner' = IF job # "none" THEN Released ELSE owner

Shared == <<synced, adapter>>

-----------------------------------------------------------------------------
(* maybe_restore_scale_registration, at the top of the loop.               *)

ScaleActive == config # "off" /\ (published.connected \/ published.gateway)

DueNow_AnySettings == published.fresh /\ ~published.gateway /\ ~faulted \* Mutant: settings are not looked at.
\* lm_scale_adapter_registration_due, its backoff over
DueNow == revision = applied /\ config # "off" /\ published.fresh /\ ~published.gateway /\ ~faulted
RegistrationDue ==
  /\ pc = "idle" /\ DueNow
  /\ job' = config /\ Goto("work")
  /\ UNCHANGED <<Shared, radio, owner, mScanning, connSem>>

\* The worker has writes or syncs to do first.
LoopBusy ==
  /\ pc = "idle" /\ Goto("work")
  /\ UNCHANGED <<Shared, radio, owner, mScanning, connSem, job>>

RegistrationNotDue ==
  /\ pc = "idle" /\ Goto("work")
  /\ owner' = IF ScaleActive THEN Released ELSE owner
  /\ UNCHANGED <<Shared, radio, mScanning, connSem, job>>

\* After the machine has answered; looked at again because that takes time.
StillWanted == config = job /\ published.fresh /\ ~published.gateway /\ ~faulted
RegistrationWrites ==
  /\ pc = "session" /\ job # "none" /\ StillWanted /\ owner = "up"
  /\ Finish
  /\ UNCHANGED <<Shared, radio, mScanning, connSem>>

-----------------------------------------------------------------------------
(* ensure_connected_and_authenticated                                      *)

\* Nothing to do, no transport, or the gateway has the connection.
NoSession ==
  /\ pc = "work" /\ Finish
  /\ UNCHANGED <<Shared, radio, mScanning, connSem>>

\* refresh_binding finds another machine selected.
BindingChanges ==
  /\ pc = "work"
  /\ mScanning \/ conn = "machine" \/ owner # "none"
  /\ scan' = IF mScanning THEN "none" ELSE scan
  /\ owner' = Released
  /\ Goto("idle") /\ job' = "none"
  /\ UNCHANGED <<Shared, conn, mScanning, connSem>>

Reuse ==
  /\ pc = "work" /\ owner # "none" /\ ~published.gateway
  /\ Goto("session")
  /\ UNCHANGED <<Shared, radio, owner, mScanning, connSem, job>>

\* start_scan, up to its call of the host.
StartScan ==
  /\ pc = "work" /\ owner = "none" /\ synced /\ ~published.gateway
  /\ connSem' = FALSE
  /\ IF scan # "none" \/ conn # "none" THEN Finish /\ UNCHANGED <<mScanning>>
     ELSE IF mScanning THEN Goto("wait") /\ UNCHANGED <<mScanning, owner, job>>
     ELSE Goto("discover") /\ mScanning' = TRUE /\ UNCHANGED <<owner, job>>
  /\ UNCHANGED <<Shared, radio>>

ScanStarts ==
  /\ pc = "discover" /\ synced /\ scan = "none" /\ conn = "none"
  /\ scan' = "machine" /\ Goto("wait")
  /\ UNCHANGED <<Shared, conn, owner, mScanning, connSem, job>>

ScanRefused ==
  /\ pc = "discover" /\ mScanning' = FALSE /\ Finish
  /\ UNCHANGED <<Shared, radio, connSem>>

\* wait_for_conn_sem_interruptible
Signalled ==
  /\ pc = "wait" /\ connSem /\ connSem' = FALSE
  /\ IF owner # "none" THEN Goto("session") /\ UNCHANGED <<owner, job>> ELSE Finish
  /\ UNCHANGED <<Shared, radio, mScanning>>

TimesOut ==
  /\ pc = "wait" /\ Finish
  /\ UNCHANGED <<Shared, radio, mScanning, connSem>>

\* A cloud write has priority: the flag is read, then the host is called.
Interrupted ==
  /\ pc = "wait"
  /\ IF mScanning THEN Goto("cancel") /\ UNCHANGED <<owner, job>> ELSE Finish
  /\ UNCHANGED <<Shared, radio, mScanning, connSem>>

Cancels ==
  /\ pc = "cancel" /\ scan' = "none" /\ Finish
  /\ UNCHANGED <<Shared, conn, mScanning, connSem>>

\* The commands are through, or one has failed.
SessionEnds ==
  /\ pc = "session" /\ Finish
  /\ UNCHANGED <<Shared, radio, mScanning, connSem>>

-----------------------------------------------------------------------------
(* ble_gap_event, on the host task.                                        *)

HostFree == synced /\ ~ticking

\* The connection starts in the callback of the advertisement.
MachineSeen(started) ==
  /\ HostFree /\ scan = "machine"
  /\ scan' = "none" /\ conn' = IF started THEN "machine" ELSE "none"
  /\ UNCHANGED <<Shared, machine>>

\* Connects if just one likely machine was seen.
SearchCompletes(started) ==
  /\ HostFree /\ scan = "machine"
  /\ scan' = "none" /\ mScanning' = FALSE
  /\ conn' = IF started THEN "machine" ELSE "none"
  /\ connSem' = (connSem \/ ~started)
  /\ UNCHANGED <<Shared, owner, pc, job>>

MachineConnects ==
  /\ HostFree /\ conn = "machine"
  /\ conn' = "none" /\ owner' = "up" /\ connSem' = TRUE
  /\ UNCHANGED <<Shared, scan, mScanning, pc, job>>

MachineConnectFails ==
  /\ HostFree /\ conn = "machine"
  /\ conn' = "none" /\ connSem' = TRUE
  /\ UNCHANGED <<Shared, scan, owner, mScanning, pc, job>>

MachineDisconnects ==
  /\ HostFree /\ owner # "none"
  /\ owner' = "none" /\ mScanning' = FALSE /\ connSem' = TRUE
  /\ UNCHANGED <<Shared, radio, pc, job>>

Worker ==
  \/ LoopBusy \/ RegistrationDue \/ RegistrationNotDue \/ RegistrationWrites
  \/ NoSession \/ BindingChanges \/ Reuse
  \/ StartScan \/ ScanStarts \/ ScanRefused
  \/ Signalled \/ TimesOut \/ Interrupted \/ Cancels \/ SessionEnds
MachineEvents ==
  \/ \E started \in BOOLEAN : MachineSeen(started) \/ SearchCompletes(started)
  \/ MachineConnects \/ MachineConnectFails \/ MachineDisconnects
MachineNext == Worker \/ MachineEvents
=============================================================================
