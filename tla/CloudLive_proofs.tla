--------------------------- MODULE CloudLive_proofs ---------------------------
(***************************************************************************)
(* Proofs about CloudLive, for any tasks, and however many websocket tasks *)
(* are created at once.                                                    *)
(***************************************************************************)
EXTENDS CloudLive, TLAPS

USE CloudAssumption DEF CloudAssumption

Labels == {"idle", "token", "auth", "lock", "pause", "paused", "request", "ensure",
           "create", "signed", "cut", "loop", "open", "run", "close", "end"}
FunctionsOK ==
  /\ pc \in [Procs -> Labels]
  /\ client \in [Sockets -> {"none", "opening", "up", "live", "down"}]
  /\ wsTask \in Sockets \cup {"none"}
\* The holder of the lock is counted.
Counted ==
  /\ \A p \in Procs : pc[p] \in {"pause", "paused", "request"} => http = p
  /\ inFlight = IF http = "none" THEN 0 ELSE 1
\* A client exists inside one run of its task.
ClientRuns == \A t \in Sockets : client[t] # "none" => pc[t] \in {"run", "close"}
\* The registered websocket task does not get past its waiting during a request
\* of another task.
RegisteredWaits ==
  \A p \in Procs : At(p, "request") /\ wsTask \in Sockets \ {p} => pc[wsTask] \in {"idle", "loop", "end"}
IInv == FunctionsOK /\ Counted /\ ClientRuns /\ RegisteredWaits

USE DEF locks, flags, clients, At, Goto, Labels
USE DEF FunctionsOK, Counted, ClientRuns, RegisteredWaits

LEMMA Distinct ==
  /\ "none" \notin Procs /\ Sockets \subseteq Procs
  /\ \A p \in Worker \cup Portal \cup {"probe", "runtime"} : p \in Procs /\ p \notin Sockets
BY DEF Procs

-----------------------------------------------------------------------------
LEMMA InitOK == Init => IInv
<1> SUFFICES ASSUME Init PROVE IInv
  OBVIOUS
<1>1. /\ pc = [p \in Procs |-> "idle"] /\ client = [t \in Sockets |-> "none"]
      /\ wsTask = "none" /\ http = "none" /\ inFlight = 0
  BY DEF Init
<1>2. Sockets \subseteq Procs
  BY Distinct
<1> QED BY <1>1, <1>2 DEF IInv

\* A step of a task that is not about its connection nor the registration.
LEMMA MoveOK ==
  ASSUME IInv, NEW p \in Procs, NEW label \in Labels, Goto(p, label),
         UNCHANGED <<http, inFlight, wsTask>>, client' \in [Sockets -> {"none", "opening", "up", "live", "down"}],
         \A t \in Sockets : client'[t] # "none" => client[t] # "none",
         pc[p] \notin {"idle", "run", "close", "end"} \/ p \notin Sockets,
         p \in Sockets /\ pc[p] = "loop" => inFlight = 0 \/ label = "end",
         label = "request" => pc[p] \in {"pause", "paused"} /\ wsTask \in {"none", p},
         label \in {"pause", "paused"} => pc[p] \in {"pause", "paused"}
  PROVE  IInv'
BY Distinct DEF IInv

LEMMA RequestedClients ==
  ASSUME IInv, Requested
  PROVE  /\ client' \in [Sockets -> {"none", "opening", "up", "live", "down"}]
         /\ \A t \in Sockets : client'[t] # "none" => client[t] # "none"
BY DEF Requested, IInv

LEMMA TokensOK ==
  ASSUME IInv, NEW p \in Procs, HasToken(p) \/ NeedsToken(p) \/ SignsIn(p) \/ SignedIn(p) PROVE IInv'
<1>1. ASSUME NEW ok, Proceed(p, ok)
      PROVE  \E label \in {"open", "loop", "ensure", "idle"} : Goto(p, label)
  BY <1>1 DEF Proceed
<1>2. PICK label \in {"open", "loop", "ensure", "idle", "auth", "lock"} : Goto(p, label)
  <2>1. CASE HasToken(p) \/ SignedIn(p)
    <3>1. \E ok : Proceed(p, ok)
      BY <2>1, Zenon DEF HasToken, SignedIn
    <3> QED BY <1>1, <3>1
  <2>2. CASE NeedsToken(p) \/ SignsIn(p)
    BY <2>2 DEF NeedsToken, SignsIn
  <2> QED BY <2>1, <2>2
<1>3. pc[p] \in {"token", "auth", "signed"} /\ UNCHANGED <<http, inFlight, wsTask, client>>
  BY DEF HasToken, NeedsToken, SignsIn, SignedIn
<1> HIDE DEF Goto
<1> QED BY <1>2, <1>3, MoveOK DEF IInv

LEMMA HttpTakenOK == ASSUME IInv, NEW p \in Procs, HttpTaken(p) PROVE IInv'
BY Distinct DEF HttpTaken, IInv

LEMMA PauseOK == ASSUME IInv, NEW p \in Procs, NotPaused(p) \/ Pauses(p) PROVE IInv'
<1>1. CASE NotPaused(p)
  BY <1>1, MoveOK DEF NotPaused, NoPause, IInv
<1>2. CASE Pauses(p)
  <2>1. Requested /\ Goto(p, "paused") /\ pc[p] = "pause" /\ UNCHANGED <<http, inFlight, wsTask>>
    BY <1>2 DEF Pauses, Requests
  <2> QED BY <2>1, RequestedClients, MoveOK DEF IInv
<1> QED BY <1>1, <1>2

LEMMA LeavesOK ==
  ASSUME IInv, NEW p \in Procs, Leaves(p), pc[p] \in {"paused", "request"}, UNCHANGED <<wsTask, client>>
  PROVE  IInv'
<1>1. http = p /\ inFlight = 1 /\ http' = "none" /\ inFlight' = 0
      /\ pc' = [pc EXCEPT ![p] = "ensure"]
  BY Distinct DEF Leaves, Finished, IInv
<1> QED BY <1>1, Distinct DEF IInv

LEMMA CallEndsOK ==
  ASSUME IInv, NEW p \in Procs, NEW ok \in BOOLEAN, Paused(p) \/ Answered(p, ok) PROVE IInv'
<1>1. CASE Paused(p) /\ wsTask = "none"
  BY <1>1, MoveOK DEF Paused, PauseOver, IInv
<1>2. CASE Paused(p) /\ wsTask # "none"
  BY <1>2, LeavesOK DEF Paused, PauseOver
<1>3. CASE Answered(p, ok)
  BY <1>3, LeavesOK DEF Answered
<1> QED BY <1>1, <1>2, <1>3

LEMMA EnsureOK == ASSUME IInv, NEW p \in Procs, EnsureStops(p) \/ EnsureNothing(p) PROVE IInv'
<1>1. Back(p) \in {"signed", "idle"}
  BY DEF Back
<1>2. CASE EnsureStops(p)
  <2>1. Requested /\ Goto(p, Back(p)) /\ pc[p] = "ensure" /\ UNCHANGED <<http, inFlight, wsTask>>
    BY <1>2 DEF EnsureStops, Stops
  <2> QED BY <1>1, <2>1, RequestedClients, MoveOK DEF IInv
<1>3. CASE EnsureNothing(p)
  BY <1>1, <1>3, MoveOK DEF EnsureNothing, IInv
<1> QED BY <1>2, <1>3

LEMMA EnsureStartsOK == ASSUME IInv, NEW p \in Procs, EnsureStarts(p) PROVE IInv'
BY MoveOK DEF EnsureStarts, IInv

LEMMA CreatesOK ==
  ASSUME IInv, NEW p \in Procs, NEW t \in Sockets, Creates(p, t) PROVE IInv'
<1>1. /\ pc[p] = "create" /\ pc[t] = "idle" /\ wsTask' = t
      /\ pc' = [pc EXCEPT ![p] = Back(p), ![t] = "loop"]
      /\ UNCHANGED <<http, inFlight, client>>
  BY DEF Creates
<1>2. Back(p) \in {"signed", "idle"}
  BY DEF Back
<1> HIDE DEF Back
<1> QED BY <1>1, <1>2, Distinct DEF IInv

LEMMA CreateFailsOK == ASSUME IInv, NEW p \in Procs, CreateFails(p) PROVE IInv'
<1>1. Back(p) \in {"signed", "idle"}
  BY DEF Back
<1>2. /\ pc[p] = "create" /\ pc' = [pc EXCEPT ![p] = Back(p)] /\ wsTask' = "none"
      /\ UNCHANGED <<http, inFlight, client>>
  BY DEF CreateFails
<1> HIDE DEF Back
<1> QED BY <1>1, <1>2, Distinct DEF IInv

LEMMA CutsOK ==
  ASSUME IInv, NEW p \in Procs, Cuts(p) \/ \E again \in BOOLEAN : CutEnds(p, again) PROVE IInv'
<1>1. CASE Cuts(p)
  <2>1. PICK label \in {"cut", "ensure", "idle"} : Goto(p, label)
    BY <1>1 DEF Cuts, After
  <2>2. Requested /\ p \notin Sockets /\ pc[p] = "idle" /\ UNCHANGED <<http, inFlight, wsTask>>
    BY <1>1, Distinct DEF Cuts
  <2> QED BY <2>1, <2>2, RequestedClients, MoveOK DEF IInv
<1>2. ASSUME NEW again \in BOOLEAN, CutEnds(p, again) PROVE IInv'
  BY <1>2, MoveOK DEF CutEnds, After, IInv
<1> QED BY <1>1, <1>2

LEMMA CallsOK == ASSUME IInv, NEW p \in Procs, Calls(p) PROVE IInv'
BY MoveOK, Distinct DEF Calls, IInv

\* The probe and the runtime are no websocket tasks.
LEMMA AsksOK == ASSUME IInv, RuntimeAsks \/ StationUp PROVE IInv'
<1>1. "probe" \in Procs \ Sockets /\ "runtime" \in Procs \ Sockets
  BY Distinct
<1>2. UNCHANGED <<http, inFlight, wsTask, client>>
  BY DEF RuntimeAsks, StationUp
<1>3. /\ pc' \in [Procs -> Labels]
      /\ \A q \in Procs : q \notin {"probe", "runtime"} => pc'[q] = pc[q]
      /\ \A q \in {"probe", "runtime"} : pc'[q] \in {pc[q], "ensure", "token"}
  BY <1>1 DEF RuntimeAsks, StationUp, IInv
<1>4. \A q \in Procs : pc'[q] = pc[q] \/ (q \notin Sockets /\ pc'[q] \in {"ensure", "token"})
  BY <1>1, <1>3
<1>5. FunctionsOK' /\ ClientRuns'
  BY <1>2, <1>3, <1>4, Distinct DEF IInv
<1>6. Counted' /\ RegisteredWaits'
  BY <1>2, <1>4, Distinct DEF IInv
<1> QED BY <1>5, <1>6 DEF IInv

LEMMA LossesOK == ASSUME IInv, StationDown \/ TokenExpires PROVE IInv'
<1>1. CASE StationDown
  <2>1. Requested /\ UNCHANGED <<http, inFlight, wsTask, pc>>
    BY <1>1 DEF StationDown
  <2> QED BY <2>1, RequestedClients DEF IInv
<1>2. CASE TokenExpires
  BY <1>2 DEF TokenExpires, IInv
<1> QED BY <1>1, <1>2

LEMMA SocketOK == ASSUME IInv, NEW t \in Sockets, Socket(t) PROVE IInv'
<1>1. CASE Loops(t)
  BY <1>1, MoveOK, Distinct DEF Loops, Waits, IInv
<1>2. CASE Opens(t) \/ RunEnds(t)
  BY <1>2, Distinct DEF Opens, RunEnds, IInv
<1>3. CASE Closes(t)
  BY <1>3, Distinct DEF Closes, IInv
<1>4. CASE Ends(t)
  BY <1>4, Distinct DEF Ends, IInv
<1> QED BY <1>1, <1>2, <1>3, <1>4 DEF Socket

LEMMA ClientOK ==
  ASSUME IInv, NEW t \in Sockets, Connects(t) \/ Subscribes(t) \/ Disconnects(t) PROVE IInv'
BY Distinct DEF Connects, Subscribes, Disconnects, IInv

LEMMA Inductive == ASSUME IInv, [Next]_vars PROVE IInv'
<1>1. ASSUME NEW p \in Procs, Proceeds(p) PROVE IInv'
  BY <1>1, TokensOK, HttpTakenOK, PauseOK, CallEndsOK, EnsureOK, EnsureStartsOK, CreatesOK,
     CreateFailsOK, CutsOK DEF Proceeds
<1>2. ASSUME NEW p \in Procs, Calls(p) \/ Cuts(p) PROVE IInv'
  BY <1>2, CallsOK, CutsOK
<1>3. CASE RuntimeAsks \/ StationUp \/ StationDown \/ TokenExpires
  BY <1>3, AsksOK, LossesOK
<1>4. ASSUME NEW t \in Sockets, Socket(t) \/ Connects(t) \/ Subscribes(t) \/ Disconnects(t)
      PROVE  IInv'
  BY <1>4, SocketOK, ClientOK
<1>5. CASE UNCHANGED vars
  BY <1>5 DEF vars, IInv
<1> QED BY <1>1, <1>2, <1>3, <1>4, <1>5 DEF Next

-----------------------------------------------------------------------------
\* While an HTTPS request is under way the registered websocket task has no
\* connection, open or being opened: pause_for_http and the counts that keep the
\* websocket waiting, whatever tasks call, sign in, restart, are lost or create
\* websocket tasks at once.
THEOREM RegisteredPaused == Spec => []RegisteredIsPaused
<1>1. ASSUME IInv, NEW p \in Procs, At(p, "request"), wsTask # "none"
      PROVE  client[wsTask] = "none"
  BY <1>1, Distinct DEF IInv
<1>2. IInv => RegisteredIsPaused
  BY <1>1 DEF RegisteredIsPaused
<1>3. IInv /\ [Next]_vars => IInv'
  BY Inductive
<1> QED BY <1>2, <1>3, InitOK, PTL DEF Spec
=============================================================================
