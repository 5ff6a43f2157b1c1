-------------------------- MODULE MachineLinkLive --------------------------
(***************************************************************************)
(* Liveness of the machine link: what the controller asked for is settled  *)
(* once it stops asking, which the bound of its requests makes it do.      *)
(* Writes go over the cloud: over BLE they need not settle, because a      *)
(* successful fallback counts as an error there.                           *)
(***************************************************************************)
EXTENDS MachineLink

ASSUME LiveAssumption == Ble # "enabled"

\* A step that gets a command of field f taken by the cloud.
Taken(f) == AcceptedWaits(f) \/ AcceptedApplied(f)

\* The worker task is scheduled and its calls return (HTTP and BLE calls have
\* time-outs); time passes.  A command that is tried again and again is taken
\* at last: without it the worker retries for ever, which is what it does when
\* the cloud is down.  Nothing is assumed of the websocket: a confirmation need
\* not come.
FairSpec ==
  /\ Spec
  /\ WF_vars(Worker) /\ WF_vars(AcksOverdue)
  /\ SF_vars(HelperAccepted)
  /\ \A f \in Fields : SF_vars(Taken(f))

\* Every write the controller asked for is settled: taken and confirmed, taken
\* and timed out after twelve seconds, or dropped for a reason of the code; no
\* field is reported busy for ever because a confirmation was lost.  Only a
\* steam setting may stay, while the machine is wanted in standby.
Owed == pending \cup inflight
WaitsForPower(f) == f = "steam" /\ StandbyOn(desired)
EveryWriteIsSettled ==
  \A f \in Fields : f \in Owed ~> f \notin Owed \/ WaitsForPower(f)
=============================================================================
