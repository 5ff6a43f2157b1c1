----------------------------- MODULE Wifi_proofs -----------------------------
(***************************************************************************)
(* Proofs about Wifi, for every threshold, count, queue length and number  *)
(* of retry tasks: the safety part of the specification, without fairness, *)
(* is enough.                                                              *)
(*                                                                         *)
(* RetryIsPlanned is not inductive.  A retry task that finds the station   *)
(* connected gives up, so the flag sta_connected must not outlive the      *)
(* connection without a "down" event on its way (Online); that in turn     *)
(* depends on the order of the events in the queue (UpIsUndone).  A "down" *)
(* that finds sta_reconnect_pending schedules nothing, so the flag must    *)
(* not be set without a task (PendingWaits); and the operation that leaves *)
(* the network must not do so with credentials (Erased).                   *)
(***************************************************************************)
EXTENDS Wifi, TLAPS

USE WifiAssumption DEF WifiAssumption

Events == {"down", "ip", "apStop"}
HandlerStages == {"idle", "disableAp", "apOff", "enableAp", "apOn", "portalOn", "schedule"}
UserStages == {"idle", "apply", "mode", "connect", "apOn", "portalOn", "disconnect", "apOff", "reset"}

RadioOK ==
  /\ station \in {"idle", "trying", "up"} /\ ap \in BOOLEAN
  /\ events \in Seq(Events)
FlagsOK ==
  /\ has \in BOOLEAN /\ connected \in BOOLEAN /\ portal \in BOOLEAN
  /\ pending \in BOOLEAN /\ waiting \in BOOLEAN /\ withAp \in BOOLEAN /\ refused \in BOOLEAN
  /\ e \in HandlerStages /\ u \in UserStages
CountsOK == late \in 0 .. MaxLate /\ count \in 0 .. MaxCount
TypeOK == RadioOK /\ FlagsOK /\ CountsOK

\* sta_reconnect_pending is set only while a retry task of this generation waits.
PendingWaits == pending => waiting

\* sta_connected is true of the station, or a "down" is on its way.
Online == connected => station = "up" \/ Contains(events, "down")

\* An "ip" in the queue is followed by a "down" unless the station is still up.
Undone(s) ==
  \A i \in 1 .. Len(s) : s[i] = "ip" => \E j \in i + 1 .. Len(s) : s[j] = "down"
UpIsUndone == station # "up" => Undone(events)

\* The network is left only after the credentials were erased.
Erased == u \in {"disconnect", "apOff", "reset"} => ~has

IInv == TypeOK /\ PendingWaits /\ Online /\ UpIsUndone /\ Erased /\ RetryIsPlanned

-----------------------------------------------------------------------------
(* Sequences of events.                                                    *)

LEMMA EventAppended ==
  ASSUME NEW s \in Seq(Events), NEW x \in Events
  PROVE  /\ s \o <<x>> \in Seq(Events) /\ Len(s \o <<x>>) = Len(s) + 1
         /\ \A i \in 1 .. Len(s) : (s \o <<x>>)[i] = s[i]
         /\ (s \o <<x>>)[Len(s) + 1] = x
<1> HIDE DEF Events
<1>1. \A i \in 1 .. Len(s) : i <= Len(s)
  OBVIOUS
<1> QED BY <1>1

LEMMA ContainsAppended ==
  ASSUME NEW s \in Seq(Events), NEW x \in Events
  PROVE  /\ Contains(s \o <<x>>, x)
         /\ \A y : Contains(s, y) => Contains(s \o <<x>>, y)
<1> HIDE DEF Events
<1>1. \A i \in 1 .. Len(s) : i \in 1 .. Len(s) + 1
  OBVIOUS
<1>2. Len(s) + 1 \in 1 .. Len(s) + 1
  OBVIOUS
<1> QED BY <1>1, <1>2, EventAppended DEF Contains

LEMMA UndoneAppended ==
  ASSUME NEW s \in Seq(Events)
  PROVE  /\ Undone(s \o <<"down">>)
         /\ Undone(s) => Undone(s \o <<"apStop">>)
<1>1. ASSUME NEW t \in Seq(Events), Len(t) = Len(s) + 1, t[Len(s) + 1] = "down"
      PROVE  Undone(t)
  <2>1. ASSUME NEW i \in 1 .. Len(t), t[i] = "ip"
        PROVE  Len(s) + 1 \in i + 1 .. Len(t)
    BY <1>1, <2>1
  <2> QED BY <1>1, <2>1 DEF Undone
<1>2. ASSUME NEW t \in Seq(Events), Len(t) = Len(s) + 1, t[Len(s) + 1] = "apStop",
             \A i \in 1 .. Len(s) : t[i] = s[i], Undone(s)
      PROVE  Undone(t)
  <2>1. ASSUME NEW i \in 1 .. Len(t), t[i] = "ip"
        PROVE  \E j \in i + 1 .. Len(t) : t[j] = "down"
    <3>1. i \in 1 .. Len(s) /\ s[i] = "ip"
      BY <1>2, <2>1
    <3>2. PICK j \in i + 1 .. Len(s) : s[j] = "down"
      BY <1>2, <3>1 DEF Undone
    <3>3. j \in 1 .. Len(s) /\ j \in i + 1 .. Len(t)
      BY <1>2, <3>1
    <3> QED BY <1>2, <3>2, <3>3
  <2> QED BY <2>1 DEF Undone
<1>3. "down" \in Events /\ "apStop" \in Events
  BY DEF Events
<1> QED BY <1>1, <1>2, <1>3, EventAppended

LEMMA EventTaken ==
  ASSUME NEW s \in Seq(Events), s # <<>>
  PROVE  /\ Tail(s) \in Seq(Events) /\ Head(s) \in Events
         /\ \A y : Contains(s, y) => y = Head(s) \/ Contains(Tail(s), y)
         /\ Undone(s) => Undone(Tail(s))
         /\ Undone(s) /\ Head(s) = "ip" => Contains(Tail(s), "down")
<1> HIDE DEF Events
<1>1. /\ Tail(s) \in Seq(Events) /\ Len(Tail(s)) = Len(s) - 1 /\ 1 \in 1 .. Len(s) /\ Head(s) = s[1]
      /\ \A i \in 1 .. Len(s) - 1 : Tail(s)[i] = s[i + 1]
  OBVIOUS
<1>2. \A i \in 1 .. Len(s) : i = 1 \/ (i - 1 \in 1 .. Len(s) - 1 /\ (i - 1) + 1 = i)
  OBVIOUS
<1>3. ASSUME NEW y, Contains(s, y), y # Head(s) PROVE Contains(Tail(s), y)
  <2>1. PICK i \in 1 .. Len(s) : s[i] = y
    BY <1>3 DEF Contains
  <2>2. i - 1 \in 1 .. Len(Tail(s)) /\ Tail(s)[i - 1] = y
    BY <1>1, <1>2, <1>3, <2>1
  <2> QED BY <2>2 DEF Contains
<1>4. ASSUME Undone(s) PROVE Undone(Tail(s))
  <2>1. ASSUME NEW i \in 1 .. Len(Tail(s)), Tail(s)[i] = "ip"
        PROVE  \E j \in i + 1 .. Len(Tail(s)) : Tail(s)[j] = "down"
    <3>1. i + 1 \in 1 .. Len(s) /\ s[i + 1] = "ip"
      BY <1>1, <2>1
    <3>2. PICK j \in (i + 1) + 1 .. Len(s) : s[j] = "down"
      BY <1>4, <3>1 DEF Undone
    <3>3. j - 1 \in i + 1 .. Len(Tail(s)) /\ j - 1 \in 1 .. Len(s) - 1 /\ (j - 1) + 1 = j
      BY <1>1, <2>1
    <3>4. Tail(s)[j - 1] = "down"
      BY <1>1, <3>2, <3>3
    <3> QED BY <3>3, <3>4
  <2> QED BY <2>1 DEF Undone
<1>5. ASSUME Undone(s), Head(s) = "ip" PROVE Contains(Tail(s), "down")
  <2>1. PICK j \in 1 + 1 .. Len(s) : s[j] = "down"
    BY <1>1, <1>5 DEF Undone
  <2>2. j - 1 \in 1 .. Len(Tail(s)) /\ Tail(s)[j - 1] = "down"
    BY <1>1, <2>1
  <2> QED BY <2>2 DEF Contains
<1>6. Head(s) \in Events
  BY <1>1
<1> QED BY <1>1, <1>3, <1>4, <1>5, <1>6

-----------------------------------------------------------------------------
(* What a call of the driver, or the driver itself, does to the station.   *)

Posts(es) == events' = events \o es
Moves ==
  /\ ap' \in BOOLEAN
  /\ \/ station' = station /\ (events' = events \/ Posts(<<"apStop">>))
     \/ station' \in {"idle", "trying"} /\ Posts(<<"down">>)
     \/ station' = "up" /\ Posts(<<"ip">>)
     \/ station # "up" /\ station' = "trying" /\ events' = events

LEMMA CallsMove ==
  ASSUME RadioOK, Connect \/ Refuses \/ Disconnect \/ (\E running \in BOOLEAN : SetAp(running))
                  \/ UNCHANGED driver
  PROVE  Moves
<1>1. events \o <<>> = events
  BY DEF RadioOK
<1>2. CASE Connect
  BY <1>1, <1>2 DEF RadioOK, Connect, Post, Posts, Moves
<1>3. CASE Disconnect
  BY <1>1, <1>3 DEF RadioOK, Disconnect, Post, Posts, Moves
<1>4. CASE \E running \in BOOLEAN : SetAp(running)
  BY <1>1, <1>4 DEF RadioOK, SetAp, Post, Posts, Moves
<1>5. CASE UNCHANGED driver \/ Refuses
  BY <1>5 DEF RadioOK, driver, Refuses, Moves
<1> QED BY <1>2, <1>3, <1>4, <1>5

LEMMA DriverMoves ==
  ASSUME RadioOK, Associates \/ GivesUp \/ Drops
  PROVE  Moves
BY DEF RadioOK, Associates, GivesUp, Drops, DriverSteps, Post, Posts, Moves

LEMMA MovesKeep ==
  ASSUME RadioOK, Moves
  PROVE  /\ RadioOK'
         /\ UpIsUndone => UpIsUndone'
         /\ Online /\ (connected' => connected) => Online'
         /\ Contains(events, "down") => Contains(events', "down")
         /\ station' = "idle" => station = "idle" \/ Contains(events', "down")
<1>1. events \in Seq(Events) /\ {"down", "ip", "apStop"} \subseteq Events
  BY DEF RadioOK, Events
<1>2. CASE station' = station /\ events' = events
  BY <1>2 DEF RadioOK, Moves, UpIsUndone, Online
<1>3. CASE station' = station /\ Posts(<<"apStop">>)
  BY <1>1, <1>3, EventAppended, ContainsAppended, UndoneAppended
     DEF RadioOK, Moves, Posts, UpIsUndone, Online
<1>4. CASE station' \in {"idle", "trying"} /\ Posts(<<"down">>)
  BY <1>1, <1>4, EventAppended, ContainsAppended, UndoneAppended
     DEF RadioOK, Moves, Posts, UpIsUndone, Online
<1>5. CASE station' = "up" /\ Posts(<<"ip">>)
  BY <1>1, <1>5, EventAppended, ContainsAppended
     DEF RadioOK, Moves, Posts, UpIsUndone, Online
<1>6. CASE station # "up" /\ station' = "trying" /\ events' = events
  BY <1>6 DEF RadioOK, Moves, UpIsUndone, Online
<1> QED BY <1>2, <1>3, <1>4, <1>5, <1>6 DEF Moves

-----------------------------------------------------------------------------
(* Types.                                                                  *)

Taking == ApStops \/ StationUp \/ StationDown

LEMMA StepMoves == ASSUME RadioOK, FlagsOK, [Next]_vars, ~Taking PROVE Moves
<1>1. CASE UNCHANGED vars
  BY <1>1, CallsMove DEF vars
<1>2. CASE Associates \/ GivesUp \/ Drops
  BY <1>2, DriverMoves
<1>3. CASE RetryDue \/ RetryConnects
  BY <1>3, CallsMove DEF RetryDue, RetryConnects
<1>4. CASE Handler
  BY <1>4, CallsMove DEF Handler, Taking, SeesNoAp, DisablesAp, ApDisabled, KeepsPortal,
     StartsPortal, EnablesAp, PortalEnabled, Schedules, Handles
<1>5. CASE Operation \/ Saves \/ OpensSetup \/ ResetsNetwork
  <2>1. CASE SetsMode
    BY <2>1, CallsMove DEF SetsMode, FlagsOK
  <2> QED BY <1>5, <2>1, CallsMove DEF Operation, Applies, Joins, StartsAp, PortalStarted, Leaves,
          StopsAp, Forgets, Saves, OpensSetup, ResetsNetwork
<1> QED BY <1>1, <1>2, <1>3, <1>4, <1>5 DEF Next

LEMMA RadioStep == RadioOK /\ FlagsOK /\ [Next]_vars => RadioOK'
<1> SUFFICES ASSUME RadioOK, FlagsOK, [Next]_vars PROVE RadioOK'
  OBVIOUS
<1>1. CASE Taking
  <2>1. /\ events # <<>> /\ events' = Tail(events) /\ UNCHANGED <<station, ap>>
    BY <1>1 DEF Taking, ApStops, StationUp, StationDown, Takes
  <2> QED BY <2>1, EventTaken DEF RadioOK
<1> QED BY <1>1, StepMoves, MovesKeep

LEMMA FlagsStep == FlagsOK /\ [Next]_vars => FlagsOK'
<1> SUFFICES ASSUME FlagsOK, [Next]_vars PROVE FlagsOK'
  OBVIOUS
<1> USE DEF FlagsOK, Connect, Refuses, Disconnect, SetAp
<1>1. CASE UNCHANGED vars
  BY <1>1 DEF vars, retry, driver, user
<1>2. CASE Associates \/ GivesUp \/ Drops
  BY <1>2 DEF Associates, GivesUp, Drops, DriverSteps, retry, driver, user
<1>3. CASE RetryDue \/ RetryConnects
  BY <1>3 DEF RetryDue, RetryConnects, retry, driver, user
<1>4. CASE ApStops \/ StationUp
  BY <1>4 DEF ApStops, StationUp, Takes, ResetRetry, HandlerStages, retry, driver, user
<1>5. CASE StationDown
  BY <1>5 DEF StationDown, Takes, ResetRetry, HandlerStages, retry, driver, user
<1>6. CASE SeesNoAp \/ DisablesAp \/ ApDisabled \/ KeepsPortal \/ StartsPortal
  BY <1>6 DEF SeesNoAp, DisablesAp, ApDisabled, KeepsPortal, StartsPortal, Handles, HandlerStages, retry, driver, user
<1>7. CASE EnablesAp \/ PortalEnabled \/ Schedules
  BY <1>7 DEF EnablesAp, PortalEnabled, Schedules, Handles, HandlerStages, retry, driver, user
<1>8. CASE Applies \/ SetsMode \/ Joins \/ StartsAp \/ PortalStarted
  BY <1>8 DEF Applies, SetsMode, Joins, StartsAp, PortalStarted, Operates, ResetRetry, UserStages, retry, driver
<1>9. CASE Leaves \/ StopsAp \/ Forgets \/ Saves \/ OpensSetup \/ ResetsNetwork
  BY <1>9 DEF Leaves, StopsAp, Forgets, Saves, OpensSetup, ResetsNetwork, Operates, ResetRetry, UserStages, retry, driver
<1> QED BY <1>1, <1>2, <1>3, <1>4, <1>5, <1>6, <1>7, <1>8, <1>9 DEF Next, Handler, Operation

LEMMA CountsStep == CountsOK /\ [Next]_vars => CountsOK'
<1> SUFFICES ASSUME CountsOK, [Next]_vars PROVE CountsOK'
  OBVIOUS
<1> USE DEF CountsOK
<1>1. CASE UNCHANGED vars
  BY <1>1 DEF vars, retry
<1>2. CASE Associates \/ GivesUp \/ Drops \/ RetryDue \/ RetryConnects
  BY <1>2 DEF Associates, GivesUp, Drops, DriverSteps, RetryDue, RetryConnects, retry
<1>3. CASE Handler
  <2>1. NextCount \in 0 .. MaxCount
    BY DEF NextCount
  <2>2. late' = late
    BY <1>3 DEF Handler, ApStops, StationUp, StationDown, Takes, SeesNoAp, DisablesAp, ApDisabled,
       KeepsPortal, StartsPortal, EnablesAp, PortalEnabled, Schedules, Handles
  <2>3. count' = count \/ count' = 0 \/ count' = NextCount
    BY <1>3 DEF Handler, ApStops, StationUp, StationDown, ResetRetry, SeesNoAp, DisablesAp,
       ApDisabled, KeepsPortal, StartsPortal, EnablesAp, PortalEnabled, Schedules, retry
  <2> QED BY <2>1, <2>2, <2>3
<1>4. CASE Operation \/ Saves \/ OpensSetup \/ ResetsNetwork
  <2>1. late' = late
    BY <1>4 DEF Operation, Applies, SetsMode, Joins, StartsAp, PortalStarted, Leaves,
       StopsAp, Forgets, Saves, OpensSetup, ResetsNetwork, Operates
  <2>2. count' = count \/ count' = 0
    BY <1>4 DEF Operation, Applies, SetsMode, Joins, StartsAp, PortalStarted, Leaves,
       StopsAp, Forgets, Saves, OpensSetup, ResetsNetwork, ResetRetry, retry
  <2> QED BY <2>1, <2>2
<1> QED BY <1>1, <1>2, <1>3, <1>4 DEF Next

LEMMA TypesInit == Init => TypeOK
<1> SUFFICES ASSUME Init PROVE TypeOK
  OBVIOUS
<1>1. RadioOK
  BY DEF Init, RadioOK
<1>2. FlagsOK
  <2>1. has \in BOOLEAN /\ portal = ~has
    BY DEF Init
  <2>2. portal \in BOOLEAN
    BY <2>1
  <2> QED BY <2>1, <2>2 DEF Init, FlagsOK, HandlerStages, UserStages
<1>3. CountsOK
  BY DEF Init, CountsOK
<1> QED BY <1>1, <1>2, <1>3 DEF TypeOK

-----------------------------------------------------------------------------
(* The parts of the invariant.                                             *)

LEMMA PendingStep == TypeOK /\ PendingWaits /\ [Next]_vars => PendingWaits'
<1> SUFFICES ASSUME TypeOK, PendingWaits, [Next]_vars PROVE PendingWaits'
  OBVIOUS
<1> USE DEF PendingWaits
<1>1. CASE UNCHANGED <<pending, waiting>>
  BY <1>1
<1>2. CASE Handler
  BY <1>2 DEF Handler, ApStops, StationUp, StationDown, ResetRetry, SeesNoAp, DisablesAp,
     ApDisabled, KeepsPortal, StartsPortal, EnablesAp, PortalEnabled, Schedules, retry
<1>3. CASE Operation \/ Saves \/ OpensSetup \/ ResetsNetwork
  BY <1>3 DEF Operation, Applies, SetsMode, Joins, StartsAp, PortalStarted, Leaves,
     StopsAp, Forgets, Saves, OpensSetup, ResetsNetwork, ResetRetry, retry
<1>4. CASE Associates \/ GivesUp \/ Drops \/ RetryDue \/ RetryConnects
  BY <1>4 DEF Associates, GivesUp, Drops, DriverSteps, RetryDue, RetryConnects, retry
<1> QED BY <1>1, <1>2, <1>3, <1>4 DEF Next, vars, retry

LEMMA ErasedStep == TypeOK /\ Erased /\ [Next]_vars => Erased'
<1> SUFFICES ASSUME TypeOK, Erased, [Next]_vars PROVE Erased'
  OBVIOUS
<1> USE DEF Erased
<1>1. CASE UNCHANGED <<has, u>>
  BY <1>1
<1>2. CASE Handler
  BY <1>2, <1>1 DEF Handler, ApStops, StationUp, StationDown, Takes, SeesNoAp, DisablesAp,
     ApDisabled, KeepsPortal, StartsPortal, EnablesAp, PortalEnabled, Schedules, Handles, user
<1>3. CASE Operation \/ Saves \/ OpensSetup \/ ResetsNetwork
  BY <1>3 DEF Operation, Applies, SetsMode, Joins, StartsAp, PortalStarted, Leaves,
     StopsAp, Forgets, Saves, OpensSetup, ResetsNetwork, Operates
<1>4. CASE Associates \/ GivesUp \/ Drops \/ RetryDue \/ RetryConnects
  BY <1>4, <1>1 DEF Associates, GivesUp, Drops, DriverSteps, RetryDue, RetryConnects, user
<1> QED BY <1>1, <1>2, <1>3, <1>4 DEF Next, vars, user

\* sta_connected is set by the handler of an "ip" only.
LEMMA ConnectedOnlyByUp == ASSUME [Next]_vars, ~Taking PROVE connected' => connected
<1>1. CASE UNCHANGED vars
  BY <1>1 DEF vars
<1>2. CASE Associates \/ GivesUp \/ Drops \/ RetryDue \/ RetryConnects
  BY <1>2 DEF Associates, GivesUp, Drops, DriverSteps, RetryDue, RetryConnects
<1>3. CASE Handler
  BY <1>3 DEF Handler, Taking, SeesNoAp, DisablesAp, ApDisabled, KeepsPortal,
     StartsPortal, EnablesAp, PortalEnabled, Schedules, Handles
<1>4. CASE Operation \/ Saves \/ OpensSetup \/ ResetsNetwork
  BY <1>4 DEF Operation, Applies, SetsMode, Joins, StartsAp, PortalStarted, Leaves,
     StopsAp, Forgets, Saves, OpensSetup, ResetsNetwork
<1> QED BY <1>1, <1>2, <1>3, <1>4 DEF Next

LEMMA OnlineStep == TypeOK /\ UpIsUndone /\ Online /\ [Next]_vars => UpIsUndone' /\ Online'
<1> SUFFICES ASSUME TypeOK, UpIsUndone, Online, [Next]_vars PROVE UpIsUndone' /\ Online'
  OBVIOUS
<1>a. RadioOK /\ events \in Seq(Events)
  BY DEF TypeOK, RadioOK
<1>1. CASE ~Taking
  BY <1>a, <1>1, StepMoves, MovesKeep, ConnectedOnlyByUp DEF TypeOK, FlagsOK
<1>2. CASE Taking
  <2>1. events # <<>> /\ events' = Tail(events) /\ station' = station
    BY <1>2 DEF Taking, ApStops, StationUp, StationDown, Takes
  <2>2. UpIsUndone'
    BY <1>a, <2>1, EventTaken DEF UpIsUndone
  <2>3. CASE ApStops
    <3>1. Head(events) = "apStop" /\ connected' = connected
      BY <2>3 DEF ApStops, Takes
    <3> QED BY <1>a, <2>1, <2>2, <3>1, EventTaken DEF Online
  <2>4. CASE StationUp
    <3>1. Head(events) = "ip"
      BY <2>4 DEF StationUp, Takes
    <3> QED BY <1>a, <2>1, <2>2, <3>1, EventTaken DEF Online, UpIsUndone
  <2>5. CASE StationDown
    BY <2>2, <2>5 DEF StationDown, Online
  <2> QED BY <1>2, <2>3, <2>4, <2>5 DEF Taking
<1> QED BY <1>1, <1>2

-----------------------------------------------------------------------------
(* A retry is planned.                                                     *)

Planned ==
  \/ waiting \/ late > 0 \/ Contains(events, "down")
  \/ e \in {"enableAp", "apOn", "portalOn", "schedule"}
  \/ u \in {"apply", "mode", "connect"}

LEMMA PlannedStep ==
  ASSUME IInv, [Next]_vars, has', station' = "idle", ~refused'
  PROVE  Planned'
<1> USE DEF Planned
<1>a. /\ TypeOK /\ RadioOK /\ FlagsOK /\ CountsOK /\ events \in Seq(Events)
      /\ has /\ station = "idle" /\ ~refused => Planned
  BY DEF IInv, TypeOK, RadioOK, RetryIsPlanned
<1>b. /\ PendingWaits /\ UpIsUndone /\ Online /\ Erased
  BY DEF IInv

<1>c. ASSUME Moves
      PROVE  /\ Contains(events, "down") => Contains(events', "down")
             /\ station = "idle" \/ Contains(events', "down")
  BY <1>a, <1>c, MovesKeep
<1>1. ASSUME Moves, has, ~refused, UNCHANGED <<waiting, late, e, u>>
      PROVE  Planned'
  BY <1>1, <1>a, <1>c
<1>2. CASE UNCHANGED vars
  BY <1>2, <1>a DEF vars, retry, driver, user
<1>3. CASE Associates \/ GivesUp \/ Drops
  <2>1. events' = events \o <<"down">>
    BY <1>3 DEF Associates, GivesUp, Drops, DriverSteps, Post
  <2>2. "down" \in Events
    BY DEF Events
  <2> QED BY <1>a, <2>1, <2>2, ContainsAppended
<1>4. CASE RetryDue
  <2>1. station = "idle" /\ has /\ UNCHANGED driver
    BY <1>4 DEF RetryDue, driver
  <2>2. CASE connected
    BY <1>4, <1>b, <2>1, <2>2 DEF Online, driver
  <2>3. CASE ~connected
    <3>1. late' = late + 1
      BY <1>4, <2>1, <2>3 DEF RetryDue
    <3> QED BY <3>1, <1>a DEF CountsOK
  <2> QED BY <2>2, <2>3
<1>5. CASE RetryConnects
  BY <1>5, <1>a DEF RetryConnects, Connect, Refuses, FlagsOK
<1>6. CASE ApStops
  <2>1. /\ events # <<>> /\ Head(events) = "apStop" /\ events' = Tail(events)
        /\ UNCHANGED <<has, waiting, late, station, refused, e, u>>
    BY <1>6 DEF ApStops, Takes, retry, user
  <2> QED BY <1>a, <2>1, EventTaken
<1>7. CASE StationUp
  <2>1. /\ events # <<>> /\ Head(events) = "ip" /\ events' = Tail(events) /\ station' = station
    BY <1>7 DEF StationUp, Takes
  <2> QED BY <1>a, <1>b, <2>1, EventTaken DEF UpIsUndone
<1>8. CASE StationDown
  <2>1. /\ events' = Tail(events) /\ UNCHANGED <<has, late, u>> /\ has
    BY <1>8 DEF StationDown, Takes, user
  <2>2. CASE pending
    BY <1>8, <1>b, <2>1, <2>2 DEF StationDown, PendingWaits, retry
  <2>3. CASE ~pending
    BY <1>8, <2>1, <2>3 DEF StationDown
  <2> QED BY <2>2, <2>3
<1>9. CASE SeesNoAp \/ DisablesAp \/ ApDisabled
  <2>1. Moves
    BY <1>9, <1>a, CallsMove DEF SeesNoAp, DisablesAp, ApDisabled
  <2>2. /\ UNCHANGED <<has, waiting, late, refused, u>>
        /\ e \notin {"enableAp", "apOn", "portalOn", "schedule"}
    BY <1>9 DEF SeesNoAp, DisablesAp, ApDisabled, Handles, SetAp, retry, driver, user
  <2> QED BY <1>a, <1>c, <2>1, <2>2
<1>10. CASE KeepsPortal \/ StartsPortal \/ EnablesAp \/ PortalEnabled
  BY <1>10 DEF KeepsPortal, StartsPortal, EnablesAp, PortalEnabled, Handles
<1>11. CASE Schedules
  <2>1. CASE Connect
    BY <2>1 DEF Connect
  <2>2. CASE Refuses
    BY <2>2, <1>a DEF Refuses, FlagsOK
  <2>3. CASE ~Connect /\ ~Refuses
    BY <1>11, <1>b, <2>3 DEF Schedules, PendingWaits
  <2> QED BY <2>1, <2>2, <2>3
<1>12. CASE Applies \/ SetsMode \/ Saves
  BY <1>12 DEF Applies, SetsMode, Saves, Operates
<1>13. CASE Joins
  BY <1>13, <1>a DEF Joins, Connect, Refuses, driver, FlagsOK
<1>14. CASE StartsAp \/ PortalStarted \/ OpensSetup
  <2>1. Moves
    BY <1>14, <1>a, CallsMove DEF StartsAp, PortalStarted, OpensSetup
  <2>2. /\ UNCHANGED <<has, waiting, late, refused, e>>
        /\ u \notin {"apply", "mode", "connect"}
    BY <1>14 DEF StartsAp, PortalStarted, OpensSetup, Operates, SetAp, retry, driver
  <2> QED BY <1>a, <1>c, <2>1, <2>2
<1>15. CASE Leaves \/ StopsAp \/ Forgets \/ ResetsNetwork
  BY <1>15, <1>b DEF Erased, Leaves, StopsAp, Forgets, ResetsNetwork, Operates
<1> QED BY <1>2, <1>3, <1>4, <1>5, <1>6, <1>7, <1>8, <1>9, <1>10, <1>11, <1>12, <1>13, <1>14,
   <1>15 DEF Next, Handler, Operation

LEMMA InvariantHolds == Spec => []IInv
<1>1. Init => IInv
  <2> SUFFICES ASSUME Init PROVE IInv
    OBVIOUS
  <2>1. PendingWaits /\ Online /\ Erased
    BY DEF Init, PendingWaits, Online, Erased
  <2>2. UpIsUndone
    <3>1. events = <<>> /\ Len(<<>>) = 0
      BY DEF Init
    <3> QED BY <3>1 DEF UpIsUndone, Undone
  <2>3. RetryIsPlanned
    BY DEF Init, RetryIsPlanned
  <2> QED BY <2>1, <2>2, <2>3, TypesInit DEF IInv
<1>2. IInv /\ [Next]_vars => IInv'
  <2> SUFFICES ASSUME IInv, [Next]_vars PROVE IInv'
    OBVIOUS
  <2>1. TypeOK'
    BY RadioStep, FlagsStep, CountsStep DEF IInv, TypeOK
  <2>2. PendingWaits' /\ Online' /\ UpIsUndone' /\ Erased'
    BY PendingStep, OnlineStep, ErasedStep DEF IInv
  <2>3. RetryIsPlanned'
    BY PlannedStep DEF RetryIsPlanned, Planned
  <2> QED BY <2>1, <2>2, <2>3 DEF IInv
<1> QED BY <1>1, <1>2, PTL DEF Spec

\* Every variable keeps its type: the count of failures never passes its
\* limit, no retry task beyond the bound is about to connect, and the queue
\* holds the three kinds of events.
THEOREM TypeCorrect == Spec => []TypeOK
BY InvariantHolds, PTL DEF IInv

\* With credentials, an idle station that was not refused a connect is never left
\* alone: a retry waits or is about to run, or an event, a handler or an operation
\* that will plan one is under way - whatever disconnects, cancelled retries,
\* refusals, portal work and resets interleave.
THEOREM RetryPlanned == Spec => []RetryIsPlanned
BY InvariantHolds, PTL DEF IInv

\* sta_connected, which the retry task, the portal and the cloud client
\* believe, is stale only while the "down" that corrects it is in the queue.
THEOREM ConnectedIsCurrent == Spec => []Online
BY InvariantHolds, PTL DEF IInv
=============================================================================
