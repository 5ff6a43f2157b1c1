----------------------------- MODULE CloudLive -----------------------------
(***************************************************************************)
(* The websocket of the live updates and the HTTPS calls, which take turns *)
(* because the memory for TLS is enough for one of them (cloud_auth.c,     *)
(* cloud_live_updates.c).  Every task of the firmware that calls the cloud *)
(* runs beside the others; a step is what it does between two looks at the *)
(* shared state.  The account and the machine are set.                     *)
(***************************************************************************)
EXTENDS Naturals

CONSTANTS Worker, Portal,  \* tasks that make HTTPS calls; that restart the live updates
          Sockets,         \* bound: websocket tasks memory is enough for
          MaxEvents        \* bound: calls by Worker, restarts by Portal, and losses of the
                           \* network, the token or memory

Procs == Worker \cup Portal \cup Sockets \cup {"probe", "runtime"}

ASSUME CloudAssumption ==
  /\ Worker \cap Portal = {} /\ Sockets \cap (Worker \cup Portal) = {}
  /\ {"probe", "runtime", "none"} \cap (Worker \cup Portal \cup Sockets) = {}
  /\ MaxEvents \in Nat

VARIABLES
  sta,                 \* s_state.sta_connected
  token,               \* a cached access token is valid
  auth, http,          \* holders of cloud_auth_lock and cloud_http_lock
  inFlight,            \* s_state.cloud_http_requests_in_flight
  wsTask, probing,     \* s_state.cloud_ws_task; cloud_probe_task is set
  stopReq,             \* s_state.cloud_ws_stop_requested
  transport, stomp,    \* s_state.cloud_ws_transport_connected, cloud_ws_connected
  wsClient,            \* s_state.cloud_ws_client, as the task whose client it is
  client,              \* the connection of each websocket task's client: "none", "opening",
                       \* "up" (connected), "live" (subscribed) or "down"
  pc,                  \* where each task is
  got,                 \* websocket tasks whose sign-in has succeeded
  events               \* counter for the bound

locks == <<auth, http, inFlight>>
flags == <<transport, stomp>>
clients == <<wsClient, client>>
vars == <<sta, token, locks, wsTask, probing, stopReq, flags, clients, pc, got, events>>

Init ==
  /\ sta = FALSE /\ token = FALSE /\ auth = "none" /\ http = "none" /\ inFlight = 0
  /\ wsTask = "none" /\ probing = FALSE /\ stopReq = FALSE
  /\ transport = FALSE /\ stomp = FALSE
  /\ wsClient = "none" /\ client = [t \in Sockets |-> "none"] /\ pc = [p \in Procs |-> "idle"] /\ got = {}
  /\ events = 0

At(p, label) == pc[p] = label
Goto(p, label) == pc' = [pc EXCEPT ![p] = label]
Happens == events < MaxEvents /\ events' = events + 1
FlagsFalse == transport' = FALSE /\ stomp' = FALSE

\* should_run_cloud_websocket_locked, can_start_cloud_websocket_locked
ShouldRun == sta
CanStart == ShouldRun /\ ~probing /\ inFlight = 0
MustStop == stopReq \/ ~ShouldRun

-----------------------------------------------------------------------------
(* lm_ctrl_cloud_live_updates_stop: the request, with the registered       *)
(* client's connection closed if it is up, and at last the flags, late if  *)
(* the caller waits.                                                       *)

Requested ==
  /\ stopReq' = TRUE
  /\ UNCHANGED wsClient
  /\ client' = [t \in Sockets |-> IF t = wsClient /\ client[t] \in {"up", "live"} THEN "down" ELSE client[t]]
Requests(p, label) ==
  /\ Requested /\ Goto(p, label)
  /\ UNCHANGED <<sta, token, locks, wsTask, probing, flags, got, events>>
Stops(p, label) ==
  /\ Requested /\ FlagsFalse /\ Goto(p, label)
  /\ UNCHANGED <<sta, token, locks, wsTask, probing, got, events>>

-----------------------------------------------------------------------------
(* Calls (lm_ctrl_cloud_auth_http_request_capture), for which the websocket *)
(* is paused, and the sign-in that other calls need.                       *)

Calls(p) ==
  /\ At(p, "idle") /\ p \in Worker /\ Happens
  /\ Goto(p, IF token THEN "lock" ELSE "auth")
  /\ UNCHANGED <<sta, token, locks, wsTask, probing, stopReq, flags, clients, got>>

\* What a task does when it has a token, or could not get one.
Proceed(p, ok) ==
  /\ Goto(p, IF p \in Sockets THEN (IF ok THEN "open" ELSE "loop")
             ELSE IF p = "probe" THEN "ensure" ELSE "idle")
  /\ probing' = (probing /\ p # "probe")

\* lm_ctrl_cloud_session_fetch_access_token_cached
HasToken(p) ==
  /\ At(p, "token") \/ (At(p, "auth") /\ auth = "none")
  /\ token /\ Proceed(p, TRUE)
  /\ UNCHANGED <<sta, token, locks, wsTask, stopReq, flags, clients, got, events>>
NeedsToken(p) ==
  /\ At(p, "token") /\ ~token /\ Goto(p, "auth")
  /\ UNCHANGED <<sta, token, locks, wsTask, probing, stopReq, flags, clients, got, events>>
SignsIn(p) ==
  /\ At(p, "auth") /\ auth = "none" /\ ~token
  /\ auth' = p /\ Goto(p, "lock")
  /\ UNCHANGED <<sta, token, http, inFlight, wsTask, probing, stopReq, flags, clients, got, events>>
SignedIn(p) ==
  /\ At(p, "signed") /\ auth' = "none"
  /\ Proceed(p, p \in got) /\ got' = got \ {p}
  /\ UNCHANGED <<sta, token, http, inFlight, wsTask, stopReq, flags, clients, events>>

HttpTaken(p) ==
  /\ At(p, "lock") /\ http = "none"
  /\ http' = p /\ inFlight' = inFlight + 1 /\ Goto(p, "pause")
  /\ UNCHANGED <<sta, token, auth, wsTask, probing, stopReq, flags, clients, got, events>>

\* lm_ctrl_cloud_live_updates_pause_for_http
NoPause_Closed(p) == wsTask \in {"none", p} \/ ~transport \* Mutant: a connection that is only being made is not paused.
NoPause(p) == wsTask \in {"none", p}
NotPaused(p) ==
  /\ At(p, "pause") /\ NoPause(p) /\ Goto(p, "request")
  /\ UNCHANGED <<sta, token, locks, wsTask, probing, stopReq, flags, clients, got, events>>
Pauses(p) == At(p, "pause") /\ ~NoPause(p) /\ Requests(p, "paused")

\* The call is over, or was given up: what follows is ensure_task's.
Finished_GaveUp(p) == IF At(p, "paused") THEN inFlight ELSE inFlight - 1 \* Mutant: a call given up stays counted.
Finished(p) == inFlight - 1
Leaves(p) == http' = "none" /\ inFlight' = Finished(p) /\ Goto(p, "ensure")
PauseOver_NoDeadline(p) == At(p, "paused") /\ wsTask = "none" \* Mutant: the wait has no deadline.
PauseOver(p) == At(p, "paused") \* The task is gone, or three seconds are over.
Paused(p) ==
  /\ PauseOver(p) /\ FlagsFalse
  /\ IF wsTask = "none" THEN Goto(p, "request") /\ UNCHANGED <<http, inFlight>> ELSE Leaves(p)
  /\ UNCHANGED <<sta, token, auth, wsTask, probing, stopReq, clients, got, events>>
Answered(p, ok) ==
  /\ At(p, "request") /\ Leaves(p)
  /\ token' = (token \/ (ok /\ auth = p))
  /\ got' = IF ok THEN got \cup ({p} \cap Sockets) ELSE got
  /\ UNCHANGED <<sta, auth, wsTask, probing, stopReq, flags, clients, events>>

-----------------------------------------------------------------------------
(* lm_ctrl_cloud_live_updates_ensure_task and the requests of other tasks. *)

Back(p) == IF auth = p THEN "signed" ELSE "idle"
EnsureStops(p) == At(p, "ensure") /\ ~ShouldRun /\ Stops(p, Back(p))
EnsureNothing(p) ==
  /\ At(p, "ensure") /\ ShouldRun /\ (~CanStart \/ wsTask # "none") /\ Goto(p, Back(p))
  /\ UNCHANGED <<sta, token, locks, wsTask, probing, stopReq, flags, clients, got, events>>
EnsureStarts(p) ==
  /\ At(p, "ensure") /\ CanStart /\ wsTask = "none"
  /\ stopReq' = FALSE /\ Goto(p, "create")
  /\ UNCHANGED <<sta, token, locks, wsTask, probing, flags, clients, got, events>>
\* The state was unlocked: a task may have been created meanwhile.
Creates(p, t) ==
  /\ At(p, "create") /\ At(t, "idle")
  /\ wsTask' = t /\ pc' = [pc EXCEPT ![p] = Back(p), ![t] = "loop"]
  /\ UNCHANGED <<sta, token, locks, probing, stopReq, flags, clients, got, events>>
\* Memory is short, or taken by the websocket tasks that exist; the handle is
\* cleared although another task may have been created.
CreateFails(p) ==
  /\ At(p, "create") /\ wsTask' = "none" /\ Goto(p, Back(p))
  /\ \/ Happens
     \/ (\A t \in Sockets : ~At(t, "idle")) /\ UNCHANGED events
  /\ UNCHANGED <<sta, token, locks, probing, stopReq, flags, clients, got>>

\* The portal restarts the live updates for another machine, or ends them for
\* another account; it waits as a call does.
After(again) == IF again THEN "ensure" ELSE "idle"
Cuts(p) ==
  /\ At(p, "idle") /\ p \in Portal /\ Happens
  /\ Requested
  /\ IF wsTask = "none" THEN FlagsFalse /\ \E again \in BOOLEAN : Goto(p, After(again))
     ELSE Goto(p, "cut") /\ UNCHANGED flags
  /\ UNCHANGED <<sta, token, locks, wsTask, probing, got>>
CutEnds(p, again) ==
  /\ At(p, "cut") /\ FlagsFalse /\ Goto(p, After(again))
  /\ UNCHANGED <<sta, token, locks, wsTask, probing, stopReq, clients, got, events>>

\* lm_ctrl_cloud_live_updates_request_probe
ProbeWanted == ~probing /\ wsTask = "none" /\ ~transport /\ ~stomp /\ inFlight = 0
\* maybe_request_cloud_probe, every minute: the probe, then the websocket
\* (lm_ctrl_cloud_live_updates_request_start).
RuntimeAsks ==
  /\ At("runtime", "idle") /\ sta /\ (ProbeWanted => At("probe", "idle"))
  /\ probing' = (probing \/ ProbeWanted)
  /\ pc' = [pc EXCEPT !["runtime"] = "ensure", !["probe"] = IF ProbeWanted THEN "token" ELSE @]
  /\ UNCHANGED <<sta, token, locks, wsTask, stopReq, flags, clients, got, events>>

\* wifi_event_handler
StationUp ==
  /\ ~sta /\ sta' = TRUE /\ (ProbeWanted => At("probe", "idle"))
  /\ probing' = (probing \/ ProbeWanted)
  /\ pc' = [pc EXCEPT !["probe"] = IF ProbeWanted THEN "token" ELSE @]
  /\ UNCHANGED <<token, locks, wsTask, stopReq, flags, clients, got, events>>
StationDown ==
  /\ sta /\ Happens
  /\ sta' = FALSE /\ token' = FALSE /\ Requested /\ FlagsFalse
  /\ UNCHANGED <<locks, wsTask, probing, pc, got>>

TokenExpires ==
  /\ token /\ token' = FALSE /\ Happens
  /\ UNCHANGED <<sta, locks, wsTask, probing, stopReq, flags, clients, pc, got>>

-----------------------------------------------------------------------------
(* cloud_websocket_task, and the events of its client.                     *)

Waits == probing \/ inFlight # 0
Loops(t) ==
  /\ At(t, "loop") /\ (MustStop \/ ~Waits) /\ Goto(t, IF MustStop THEN "end" ELSE "token")
  /\ UNCHANGED <<sta, token, locks, wsTask, probing, stopReq, flags, clients, got, events>>
Opens(t) ==
  /\ At(t, "open") /\ client' = [client EXCEPT ![t] = "opening"] /\ wsClient' = t /\ Goto(t, "run")
  /\ UNCHANGED <<sta, token, locks, wsTask, probing, stopReq, flags, got, events>>
\* Told to stop, disconnected, or not connected after fifteen seconds.
RunEnds(t) ==
  /\ At(t, "run") /\ (MustStop \/ client[t] \in {"opening", "down"}) /\ Goto(t, "close")
  /\ UNCHANGED <<sta, token, locks, wsTask, probing, stopReq, flags, clients, got, events>>
Closes(t) ==
  /\ At(t, "close") /\ client' = [client EXCEPT ![t] = "none"]
  /\ wsClient' = (IF wsClient = t THEN "none" ELSE wsClient)
  /\ FlagsFalse /\ Goto(t, IF MustStop THEN "end" ELSE "loop")
  /\ UNCHANGED <<sta, token, locks, wsTask, probing, stopReq, got, events>>
Ends(t) ==
  /\ At(t, "end") /\ wsTask' = "none" /\ wsClient' = "none" /\ stopReq' = FALSE /\ FlagsFalse /\ Goto(t, "idle")
  /\ UNCHANGED <<sta, token, locks, probing, client, got, events>>

Connects(t) ==
  /\ client[t] = "opening" /\ client' = [client EXCEPT ![t] = "up"]
  /\ transport' = TRUE /\ stomp' = FALSE
  /\ UNCHANGED <<sta, token, locks, wsTask, probing, stopReq, wsClient, pc, got, events>>
Subscribes(t) ==
  /\ client[t] = "up" /\ client' = [client EXCEPT ![t] = "live"]
  /\ transport' = TRUE /\ stomp' = TRUE
  /\ UNCHANGED <<sta, token, locks, wsTask, probing, stopReq, wsClient, pc, got, events>>
\* The peer or the network ends the connection.
Disconnects(t) ==
  /\ client[t] \in {"up", "live"} /\ client' = [client EXCEPT ![t] = "down"] /\ FlagsFalse
  /\ Happens
  /\ UNCHANGED <<sta, token, locks, wsTask, probing, stopReq, wsClient, pc, got>>

-----------------------------------------------------------------------------
Socket(t) == Loops(t) \/ Opens(t) \/ RunEnds(t) \/ Closes(t) \/ Ends(t)
Proceeds(p) ==
  \/ HasToken(p) \/ NeedsToken(p) \/ SignsIn(p) \/ SignedIn(p) \/ HttpTaken(p)
  \/ NotPaused(p) \/ Pauses(p) \/ Paused(p)
  \/ \E ok \in BOOLEAN : Answered(p, ok)
  \/ EnsureStops(p) \/ EnsureNothing(p) \/ EnsureStarts(p)
  \/ CreateFails(p) \/ \E t \in Sockets : Creates(p, t)
  \/ \E again \in BOOLEAN : CutEnds(p, again)

Next ==
  \/ \E p \in Procs : Proceeds(p)
  \/ \E p \in Procs : Calls(p) \/ Cuts(p)
  \/ RuntimeAsks \/ StationUp \/ StationDown \/ TokenExpires
  \/ \E t \in Sockets : Socket(t) \/ Connects(t) \/ Subscribes(t) \/ Disconnects(t)

\* Every task is scheduled, no lock passes one over for ever, the loop looks
\* between two calls too, and the cloud answers and accepts now and then.
Spec ==
  /\ Init /\ [][Next]_vars
  /\ \A p \in Procs : WF_vars(Proceeds(p))
  /\ \A p \in Worker \cup Sockets \cup {"probe"} : SF_vars(SignsIn(p) \/ HttpTaken(p) \/ Loops(p))
  /\ \A t \in Sockets : WF_vars(Socket(t))
  /\ SF_vars(\E p \in Procs : Answered(p, TRUE))
  /\ SF_vars(\E t \in Sockets : At(t, "run") /\ Connects(t))
  /\ SF_vars(\E t \in Sockets : At(t, "run") /\ Subscribes(t))
  /\ WF_vars(RuntimeAsks)

-----------------------------------------------------------------------------
(* Properties.                                                             *)

\* "Keep at most one TLS client alive while an HTTP request is active"
\* (cloud_auth.c): no websocket task then has a connection, open or being
\* opened.  ensure_task unlocks the state between its look and the creation: two
\* tasks that meet there create a websocket task each, or one that fails clears
\* the handle of the other's, and no call pauses what is not registered.
OneTls == \A p \in Procs : At(p, "request") => \A t \in Sockets : client[t] \notin {"opening", "up", "live"}

\* What the code does keep, however many tasks are created: the websocket task
\* that is registered has no connection during a call.  It was paused before,
\* or was created meanwhile and waits as long as a call is counted.
RegisteredIsPaused ==
  \A p \in Procs : At(p, "request") /\ wsTask # "none" =>
    client[wsTask] \notin {"opening", "up", "live"}

\* Live updates that are wanted come up again, whatever call, sign-in, restart
\* or loss of the network stopped them (ensure_task after every call, the
\* runtime's minute).
LiveUpdatesResume == ShouldRun ~> (\E t \in Sockets : client[t] = "live") \/ ~ShouldRun

\* Every call returns, although it waits for the websocket task while that
\* waits for the lock of the call (the deadline of lm_ctrl_cloud_live_updates_stop).
CallsReturn == \A p \in Worker : ~At(p, "idle") ~> At(p, "idle")
=============================================================================
