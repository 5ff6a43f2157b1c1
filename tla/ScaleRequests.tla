--------------------------- MODULE ScaleRequests ---------------------------
(***************************************************************************)
(* What the virtual scale promises the machine's gateway: the control      *)
(* requests it accepts form a FIFO queue; a request is answered only when  *)
(* the physical scale has confirmed, in order, every operation the request *)
(* stands for; and nothing but the end of the session drops a request that *)
(* was not answered.  The one exception is a tare on a scale that confirms *)
(* tares in two ways: it may be answered on what confirmed an earlier one. *)
(* ScaleCore implements this specification.                                *)
(***************************************************************************)
EXTENDS Naturals, Sequences

CONSTANTS QueueLimit,  \* requests the queue holds
          MaxId        \* identifiers are 1 .. MaxId

VARIABLES outstanding,  \* accepted requests, oldest first, as [id, command]
          performed,    \* operations confirmed for the oldest request
          doubtful      \* commands answered without a confirmation of their own

vars == <<outstanding, performed, doubtful>>

Commands == {"tare", "start", "stop", "reset"}

\* Starting the timer is two physical operations, every other command is one.
OperationsOf(c) == IF c = "start" THEN <<"reset", "start">> ELSE <<c>>

\* Which commands are doubtful is a matter of the session's scale.
Scale(d) == d \in {{}, {"tare"}}

Init == outstanding = <<>> /\ performed = <<>> /\ Scale(doubtful)

\* Requests carry growing identifiers: none is confused with a queued one.
Accept(c) ==
  /\ Len(outstanding) < QueueLimit
  /\ \E id \in 1 .. MaxId :
       /\ \A i \in DOMAIN outstanding : id > outstanding[i].id
       /\ outstanding' = Append(outstanding, [id |-> id, command |-> c])
  /\ UNCHANGED <<performed, doubtful>>

\* The physical scale confirms the next operation of the oldest request.
Confirm ==
  /\ outstanding # <<>>
  /\ LET ops == OperationsOf(Head(outstanding).command) IN
       /\ Len(performed) < Len(ops)
       /\ performed' = Append(performed, ops[Len(performed) + 1])
  /\ UNCHANGED <<outstanding, doubtful>>

Answer ==
  /\ outstanding # <<>>
  /\ \/ performed = OperationsOf(Head(outstanding).command)
     \/ Head(outstanding).command \in doubtful
  /\ outstanding' = Tail(outstanding)
  /\ performed' = <<>>
  /\ UNCHANGED doubtful

Abandon == outstanding' = <<>> /\ performed' = <<>> /\ Scale(doubtful')

Next == (\E c \in Commands : Accept(c)) \/ Confirm \/ Answer \/ Abandon

Spec == Init /\ [][Next]_vars
=============================================================================
