------------------------- MODULE MachineLink_proofs -------------------------
(***************************************************************************)
(* Proofs about MachineLink, for every set of fields, size of the slot     *)
(* table, BLE configuration and number of requests.                        *)
(*                                                                         *)
(* TypeOK is not inductive: the worker takes the head and the tail of its  *)
(* plan, and the step after one whose own answer it drops.  PlanOK adds    *)
(* what makes that safe.                                                   *)
(***************************************************************************)
EXTENDS MachineLink, TLAPS

USE LinkAssumption DEF LinkAssumption, history

SetsOK ==
  /\ pending \subseteq Fields /\ inflight \subseteq Fields /\ mask \subseteq Fields
  /\ sync \subseteq Sources /\ flags \subseteq Sources
SettingsOK ==
  desired \in Settings /\ reported \in Settings /\ accepted \in Settings /\ seen \in Settings
SlotsOK == slots \in [SlotIds -> Slot]
FlagsOK ==
  /\ remoteOn \in BOOLEAN /\ feature \in BOOLEAN /\ connected \in BOOLEAN
  /\ bleReady \in BOOLEAN /\ bleFailed \in BOOLEAN /\ progress \in BOOLEAN
  /\ busy \in BOOLEAN /\ wasConnected \in BOOLEAN /\ fallback \in BOOLEAN

\* A steam level is always followed by the steam setting it belongs to.
Plans == {s \in Seq(Steps) : \A i \in 1 .. Len(s) : s[i] = "steamLevel" => i < Len(s)}

\* A call under way has a step to carry out and a place to return to; over
\* BLE a plan holds fields only, behind the steam level of a fallback.
PlanOK ==
  /\ pc \in Stages \cup {"wait", "top", "merge", "choose", "connect", "ble"}
  /\ todo \in Plans
  /\ busy => todo # <<>> /\ (pc \in Stages \/ fallback)
  /\ fallback => todo # <<>> /\ pc = "ble"
  /\ pc = "ble" => \/ todo \in Seq(Fields)
                   \/ fallback /\ Head(todo) = "steamLevel" /\ Tail(todo) \in Seq(Fields)

RequestsOK == requests \in 0 .. MaxRequests

IInv == SetsOK /\ SettingsOK /\ SlotsOK /\ FlagsOK /\ PlanOK /\ RequestsOK

-----------------------------------------------------------------------------
(* Plans.                                                                  *)

LEMMA EmptyPlan == <<>> \in Plans
BY DEF Plans

LEMMA SingletonPlan == ASSUME NEW x \in Steps, x # "steamLevel" PROVE <<x>> \in Plans
<1>1. <<x>> \in Seq(Steps) /\ Len(<<x>>) = 1 /\ <<x>>[1] = x /\ DOMAIN <<x>> = {1}
  OBVIOUS
<1> QED BY <1>1 DEF Plans

LEMMA PlanAppend == ASSUME NEW s \in Plans, NEW t \in Plans PROVE s \o t \in Plans
<1> USE DEF Plans
<1> HIDE DEF Steps
<1>1. /\ s \o t \in Seq(Steps) /\ Len(s \o t) = Len(s) + Len(t)
      /\ \A i \in 1 .. Len(s) + Len(t) :
           (s \o t)[i] = IF i <= Len(s) THEN s[i] ELSE t[i - Len(s)]
  OBVIOUS
<1>2. ASSUME NEW i \in 1 .. Len(s) + Len(t), (s \o t)[i] = "steamLevel"
      PROVE  i < Len(s) + Len(t)
  <2>1. CASE i <= Len(s)
    BY <1>1, <1>2, <2>1
  <2>2. CASE i > Len(s)
    <3>1. i - Len(s) \in 1 .. Len(t) /\ t[i - Len(s)] = "steamLevel"
      BY <1>1, <1>2, <2>2
    <3> QED BY <3>1
  <2> QED BY <2>1, <2>2
<1>3. \A i \in 1 .. Len(s \o t) : (s \o t)[i] = "steamLevel" => i < Len(s \o t)
  BY <1>1, <1>2
<1> QED BY <1>1, <1>3

LEMMA PlanTail ==
  ASSUME NEW s \in Plans, s # <<>>
  PROVE  /\ Tail(s) \in Plans
         /\ Head(s) = "steamLevel" => Tail(s) # <<>>
<1> USE DEF Plans
<1> HIDE DEF Steps
<1>1. /\ Tail(s) \in Seq(Steps) /\ Len(Tail(s)) = Len(s) - 1
      /\ \A i \in 1 .. Len(s) - 1 : Tail(s)[i] = s[i + 1]
  OBVIOUS
<1>2. \A i \in 1 .. Len(s) - 1 : i + 1 \in 1 .. Len(s)
  OBVIOUS
<1>3. ASSUME NEW i \in 1 .. Len(s) - 1, Tail(s)[i] = "steamLevel" PROVE i < Len(s) - 1
  BY <1>1, <1>2, <1>3
<1>4. ASSUME Head(s) = "steamLevel" PROVE Tail(s) # <<>>
  <2>1. s[1] = "steamLevel" /\ 1 \in 1 .. Len(s)
    BY <1>4
  <2>2. Len(Tail(s)) # 0
    BY <1>1, <2>1
  <2>3. Len(<<>>) = 0
    OBVIOUS
  <2> QED BY <2>2, <2>3
<1>5. \A i \in 1 .. Len(Tail(s)) : Tail(s)[i] = "steamLevel" => i < Len(Tail(s))
  BY <1>1, <1>3
<1> QED BY <1>1, <1>4, <1>5

LEMMA NamedSteps == /\ Fields \subseteq Steps
                    /\ {"prebrewMode", "prebrewRetry", "steamLevel"} \cap Fields = {}
                    /\ {"prebrewMode", "prebrewRetry", "steamLevel"} \subseteq Steps
BY DEF Steps, AllFields, BleFields, BbwFields

LEMMA FieldPlan == ASSUME NEW s \in Seq(Fields) PROVE s \in Plans
<1>1. s \in Seq(Steps)
  BY NamedSteps
<1>2. \A i \in 1 .. Len(s) : s[i] # "steamLevel"
  BY NamedSteps
<1> QED BY <1>1, <1>2 DEF Plans

LEMMA SteamPlan ==
  ASSUME "steam" \in Fields PROVE <<"steamLevel">> \o <<"steam">> \in Plans
<1>1. ASSUME NEW s \in Seq(Steps), Len(s) = 2, s[2] = "steam"
      PROVE  s \in Plans
  <2>1. \A i \in 1 .. Len(s) : s[i] = "steamLevel" => i < Len(s)
    BY <1>1
  <2> QED BY <2>1 DEF Plans
<1>2. <<"steamLevel">> \in Seq(Steps) /\ <<"steam">> \in Seq(Steps)
  BY NamedSteps
<1>3. ASSUME NEW s, NEW t, s = <<"steamLevel">>, t = <<"steam">>
      PROVE  Len(s \o t) = 2 /\ (s \o t)[2] = "steam" /\ s \o t \in Seq(Steps)
  BY <1>2, <1>3
<1> QED BY <1>1, <1>3

LEMMA LevelFirst ==
  ASSUME NEW s \in Plans, s # <<>>
  PROVE  <<"steamLevel">> \o s \in Plans
<1>1. <<"steamLevel">> \in Seq(Steps)
  BY NamedSteps
<1>2. s \in Seq(Steps) /\ \A i \in 1 .. Len(s) : s[i] = "steamLevel" => i < Len(s)
  BY DEF Plans
<1> HIDE DEF Steps
<1>3. ASSUME NEW l \in Seq(Steps), l = <<"steamLevel">>
      PROVE  /\ l \o s \in Seq(Steps) /\ Len(l \o s) = Len(s) + 1 /\ Len(s) > 0
             /\ \A i \in 1 .. Len(s) + 1 : (l \o s)[i] = IF i = 1 THEN "steamLevel" ELSE s[i - 1]
  BY <1>2, <1>3
<1>4. ASSUME NEW i \in 1 .. Len(s) + 1, i # 1, s[i - 1] = "steamLevel" PROVE i < Len(s) + 1
  BY <1>2, <1>4
<1>5. ASSUME NEW t \in Seq(Steps), Len(t) = Len(s) + 1, Len(s) > 0,
             \A i \in 1 .. Len(s) + 1 : t[i] = IF i = 1 THEN "steamLevel" ELSE s[i - 1]
      PROVE  t \in Plans
  BY <1>2, <1>4, <1>5 DEF Plans
<1> QED BY <1>1, <1>3, <1>5

LEMMA PlansMade ==
  ASSUME NEW v, NEW m \in SUBSET Fields
  PROVE  /\ PrebrewPlan(m) \in Plans /\ BbwPlan(m) \in Plans /\ CloudPlan(v, m) \in Plans
         /\ BlePlan(v, m) \in Seq(Fields)
<1>1. ASSUME NEW f \in Fields PROVE <<f>> \in Plans /\ <<f>> \in Seq(Fields)
  BY <1>1, NamedSteps, SingletonPlan
<1>2. ASSUME NEW P, NEW f, P => f \in Fields
      PROVE  When(P, <<f>>) \in Plans /\ When(P, <<f>>) \in Seq(Fields)
  BY <1>1, <1>2, EmptyPlan DEF When
<1>3. PrebrewPlan(m) \in Plans
  <2>1. ASSUME "prebrewing" \in Fields PROVE <<"prebrewMode", "prebrewing">> \in Plans
    <3>1. <<"prebrewMode">> \in Plans /\ <<"prebrewing">> \in Plans
      BY <2>1, <1>1, SingletonPlan, NamedSteps
    <3>2. <<"prebrewMode", "prebrewing">> = <<"prebrewMode">> \o <<"prebrewing">>
      OBVIOUS
    <3> QED BY <3>1, <3>2, PlanAppend
  <2> QED BY <2>1, EmptyPlan DEF PrebrewPlan, When
<1>4. BbwPlan(m) \in Plans
  BY <1>2, PlanAppend DEF BbwPlan
<1>5. BlePlan(v, m) \in Seq(Fields)
  <2> DEFINE a == When("standby" \in m, <<"standby">>)
             b == When("temperature" \in m, <<"temperature">>)
             c == When("steam" \in m /\ ~StandbyOn(v), <<"steam">>)
  <2>1. a \in Seq(Fields) /\ b \in Seq(Fields) /\ c \in Seq(Fields)
    BY <1>2
  <2>2. BlePlan(v, m) = a \o b \o c
    BY DEF BlePlan
  <2> HIDE DEF a, b, c
  <2> QED BY <2>1, <2>2
<1>6. CloudPlan(v, m) \in Plans
  <2> DEFINE a == When("standby" \in m, <<"standby">>)
             b == When("temperature" \in m, <<"temperature">>)
             l == When(SteamOn(v), <<"steamLevel">>)
             c == When("steam" \in m /\ ~StandbyOn(v), l \o <<"steam">>)
  <2>1. a \in Plans /\ b \in Plans
    BY <1>2
  <2>2. ASSUME "steam" \in m PROVE l \o <<"steam">> \in Plans
    <3>1. CASE l = <<>>
      BY <3>1, <2>2, <1>1
    <3>2. CASE l = <<"steamLevel">>
      <4> HIDE DEF l
      <4> QED BY <2>2, <3>2, SteamPlan
    <3> QED BY <3>1, <3>2 DEF When
  <2>3. c \in Plans
    BY <2>2, EmptyPlan DEF When
  <2>4. CASE PrefersWakeup(v, m)
    BY <2>4, <1>1 DEF CloudPlan, PrefersWakeup
  <2>5. CASE ~PrefersWakeup(v, m)
    <3>1. CloudPlan(v, m) = c \o a \o b
      BY <2>5 DEF CloudPlan
    <3> HIDE DEF a, b, c, l
    <3> QED BY <3>1, <2>1, <2>3, PlanAppend
  <2> QED BY <2>4, <2>5
<1> QED BY <1>3, <1>4, <1>5, <1>6

-----------------------------------------------------------------------------
(* One lemma for each part of the invariant.                               *)

LEMMA ActiveSlot ==
  ASSUME NEW s \in Slot, s.active
  PROVE  /\ s \in [active : {TRUE}, field : Fields, value : Values, old : BOOLEAN]
         /\ s.field \in Fields /\ s.value \in Values
<1>1. s # FreeSlot
  BY DEF FreeSlot
<1>2. s \in [active : {TRUE}, field : Fields, value : Values, old : BOOLEAN]
  BY <1>1 DEF Slot
<1> QED BY <1>2

LEMMA SetsStep == SetsOK /\ SlotsOK /\ [Next]_vars => SetsOK'
<1> SUFFICES ASSUME SetsOK, SlotsOK, [Next]_vars PROVE SetsOK'
  OBVIOUS
<1> USE DEF SetsOK
<1>1. CASE UNCHANGED vars
  BY <1>1 DEF vars, locals
<1>2. CASE Controller
  <2>1. ASSUME NEW F \in SUBSET Fields, NEW v, QueueValues(F, v) PROVE SetsOK'
    BY <2>1 DEF QueueValues, locals
  <2>2. ASSUME NEW s \in Sources, RequestSync(s) PROVE SetsOK'
    BY <2>2 DEF RequestSync, locals
  <2> QED BY <1>2, <2>1, <2>2 DEF Controller
<1>3. CASE Websocket
  BY <1>3 DEF Websocket, LiveUpdatesUp, LiveUpdatesDown, WebsocketDisconnected,
     CommandSucceeded, CommandFailed, DashboardValues, locals
<1>4. CASE Surroundings
  BY <1>4 DEF Surroundings, AcksOverdue, BackoffOver, BleDisconnected, locals
<1>5. CASE Call
  <2>1. CASE CallBegins \/ HelperAccepted
    BY <2>1 DEF CallBegins, HelperAccepted
  <2>2. CASE \E status412 \in BOOLEAN : CallFails(status412)
    BY <2>2 DEF CallFails
  <2>3. ASSUME NEW f \in Fields, AcceptedWaits(f) \/ AcceptedApplied(f) PROVE SetsOK'
    BY <2>3 DEF AcceptedWaits, AcceptedApplied, Accepted, Completed, RearmBle, Sources
  <2> QED BY <1>5, <2>1, <2>2, <2>3 DEF Call
<1>6. CASE Take \/ TopIdle \/ TopUnselected \/ TopSends \/ TopSyncs
  BY <1>6 DEF Take, TopIdle, TopUnselected, TopSends, TopSyncs, Leave, Unsent, locals
<1>7. CASE \E outcome \in {"none", "read", "failed"}, loaded \in SUBSET Fields, v \in Settings :
             Merge(outcome, loaded, v)
  BY <1>7 DEF Merge, Leave
<1>8. CASE PrebrewDone \/ BbwDone \/ WakeDone
  BY <1>8 DEF PrebrewDone, BbwDone, WakeDone, Leave, Unsent, locals
<1>9. CASE Choose \/ CloudDone \/ BleDone \/ BleConnects \/ BleInterrupted \/ BleConnectFails
  BY <1>9 DEF Choose, CloudDone, BleDone, BleConnects, BleInterrupted, BleConnectFails,
     SendViaCloud, Leave, Unsent, locals
<1>10. CASE BleWritten \/ BleRejected \/ BleUnverified
  BY <1>10 DEF BleWritten, BleRejected, BleUnverified
<1> QED BY <1>1, <1>2, <1>3, <1>4, <1>5, <1>6, <1>7, <1>8, <1>9, <1>10 DEF Next, Worker

LEMMA SettingsStep == SettingsOK /\ SlotsOK /\ [Next]_vars => SettingsOK'
<1> SUFFICES ASSUME SettingsOK, SlotsOK, [Next]_vars PROVE SettingsOK'
  OBVIOUS
<1> USE DEF SettingsOK, Settings
<1>a. ASSUME NEW loaded, NEW v \in Settings, UpdateReported(loaded, v)
      PROVE  reported' \in Settings
  BY <1>a DEF UpdateReported
<1>b. Start \in Settings
  BY DEF Start, Values
<1>1. CASE UNCHANGED vars
  BY <1>1 DEF vars, locals, shown
<1>2. CASE Controller
  BY <1>2 DEF Controller, QueueValues, RequestSync, shown, locals
<1>3. CASE Websocket
  <2>1. ASSUME NEW i \in SlotIds, CommandSucceeded(i) PROVE SettingsOK'
    <3>1. slots[i].field \in Fields /\ slots[i].value \in Values
      BY <2>1, ActiveSlot DEF CommandSucceeded, SlotsOK
    <3> QED BY <2>1, <3>1 DEF CommandSucceeded, locals
  <2>2. ASSUME NEW loaded, NEW v \in Settings, DashboardValues(loaded, v) PROVE SettingsOK'
    BY <2>2, <1>a DEF DashboardValues, locals
  <2> QED BY <1>3, <2>1, <2>2 DEF Websocket, LiveUpdatesUp, LiveUpdatesDown,
          WebsocketDisconnected, CommandFailed, locals, shown
<1>4. CASE Surroundings
  BY <1>4 DEF Surroundings, AcksOverdue, BackoffOver, BleDisconnected, locals, shown
<1>5. CASE Call
  <2>1. CASE CallBegins
    BY <2>1 DEF CallBegins, shown
  <2>2. CASE HelperAccepted \/ \E status412 \in BOOLEAN : CallFails(status412)
    BY <2>2 DEF HelperAccepted, CallFails, shown
  <2>3. ASSUME NEW f \in Fields, AcceptedWaits(f) \/ AcceptedApplied(f) PROVE SettingsOK'
    BY <2>3 DEF AcceptedWaits, AcceptedApplied, Accepted, shown
  <2> QED BY <1>5, <2>1, <2>2, <2>3 DEF Call
<1>6. CASE Take \/ TopIdle \/ TopUnselected \/ TopSends \/ TopSyncs
  BY <1>6, <1>b DEF Take, TopIdle, TopUnselected, TopSends, TopSyncs, Leave, locals, shown
<1>7. CASE \E outcome \in {"none", "read", "failed"}, loaded \in SUBSET Fields, v \in Settings :
             Merge(outcome, loaded, v)
  BY <1>7, <1>a, <1>b DEF Merge, Leave
<1>8. CASE PrebrewDone \/ BbwDone \/ WakeDone
  BY <1>8, <1>b DEF PrebrewDone, BbwDone, WakeDone, Leave, locals, shown
<1>9. CASE Choose \/ CloudDone \/ BleDone \/ BleConnects \/ BleInterrupted \/ BleConnectFails
  BY <1>9, <1>b DEF Choose, CloudDone, BleDone, BleConnects, BleInterrupted, BleConnectFails,
     SendViaCloud, Leave, locals, shown
<1>10. CASE BleWritten
  <2>1. accepted' = [accepted EXCEPT ![Head(todo)] = seen[Head(todo)]]
    BY <1>10 DEF BleWritten
  <2>2. ASSUME NEW x PROVE [accepted EXCEPT ![x] = seen[x]] \in Settings
    OBVIOUS
  <2>3. accepted' \in Settings
    BY <2>1, <2>2
  <2> QED BY <1>10, <2>3 DEF BleWritten, shown
<1>11. CASE BleRejected \/ BleUnverified
  BY <1>11 DEF BleRejected, BleUnverified, shown
<1> QED BY <1>1, <1>2, <1>3, <1>4, <1>5, <1>6, <1>7, <1>8, <1>9, <1>10, <1>11 DEF Next, Worker

LEMMA SlotsStep == SettingsOK /\ SlotsOK /\ [Next]_vars => SlotsOK'
<1> SUFFICES ASSUME SettingsOK, SlotsOK, [Next]_vars PROVE SlotsOK'
  OBVIOUS
<1> USE DEF SlotsOK
<1>a. FreeSlot \in Slot
  BY DEF Slot
<1>1. CASE UNCHANGED vars
  BY <1>1 DEF vars
<1>2. CASE Controller
  BY <1>2 DEF Controller, QueueValues, RequestSync
<1>3. CASE Websocket
  BY <1>3, <1>a DEF Websocket, LiveUpdatesUp, LiveUpdatesDown, WebsocketDisconnected,
     CommandSucceeded, CommandFailed, DashboardValues
<1>4. CASE Surroundings
  <2>1. ASSUME NEW s \in Slot PROVE Overdue(s) \in Slot
    <3>1. CASE s.active
      <4>1. [s EXCEPT !.old = TRUE] \in [active : {TRUE}, field : Fields, value : Values, old : BOOLEAN]
        BY <3>1, ActiveSlot
      <4> QED BY <3>1, <4>1 DEF Overdue, Slot
    <3> QED BY <3>1 DEF Overdue
  <2>2. CASE AcksOverdue
    BY <2>1, <2>2 DEF AcksOverdue
  <2> QED BY <1>4, <2>2 DEF Surroundings, BackoffOver, BleDisconnected
<1>5. CASE Call
  <2>1. ASSUME NEW f \in Fields, AcceptedWaits(f) PROVE SlotsOK'
    <3>1. [active |-> TRUE, field |-> f, value |-> seen[f], old |-> FALSE] \in Slot
      BY DEF Slot, SettingsOK, Settings
    <3> QED BY <2>1, <3>1 DEF AcceptedWaits
  <2> QED BY <1>5, <2>1 DEF Call, CallBegins, HelperAccepted, CallFails, AcceptedApplied
<1>6. CASE Worker /\ ~Call
  <2>1. CASE Take
    BY <2>1, <1>a DEF Take
  <2>2. UNCHANGED slots \/ Take
    BY <1>6 DEF Worker, TopIdle, TopUnselected, TopSends, TopSyncs, Merge, PrebrewDone, BbwDone,
       WakeDone, Choose, CloudDone, BleDone, BleConnects, BleInterrupted, BleConnectFails,
       BleWritten, BleRejected, BleUnverified
  <2> QED BY <2>1, <2>2
<1> QED BY <1>1, <1>2, <1>3, <1>4, <1>5, <1>6 DEF Next

LEMMA FlagsStep == FlagsOK /\ [Next]_vars => FlagsOK'
<1> SUFFICES ASSUME FlagsOK, [Next]_vars PROVE FlagsOK'
  OBVIOUS
<1> USE DEF FlagsOK
<1>1. CASE UNCHANGED vars
  BY <1>1 DEF vars, remote, ble, locals, call
<1>2. CASE Controller
  BY <1>2 DEF Controller, QueueValues, RequestSync, remote, ble, locals, call
<1>3. CASE Websocket
  <2>1. CASE LiveUpdatesUp \/ LiveUpdatesDown \/ WebsocketDisconnected
    BY <2>1 DEF LiveUpdatesUp, LiveUpdatesDown, WebsocketDisconnected, remote, ble, locals, call
  <2>2. CASE \E i \in SlotIds : CommandSucceeded(i) \/ CommandFailed(i)
    BY <2>2 DEF CommandSucceeded, CommandFailed, remote, ble, locals, call
  <2>3. CASE \E loaded \in SUBSET Fields, v \in Settings : DashboardValues(loaded, v)
    <3>1. remoteOn' \in BOOLEAN
      BY <2>3 DEF DashboardValues, UpdateReported
    <3>2. feature' \in BOOLEAN
      BY <2>3 DEF DashboardValues, UpdateFeature
    <3> QED BY <2>3, <3>1, <3>2 DEF DashboardValues, ble, locals, call
  <2> QED BY <1>3, <2>1, <2>2, <2>3 DEF Websocket
<1>4. CASE Surroundings
  BY <1>4 DEF Surroundings, AcksOverdue, BackoffOver, BleDisconnected, remote, ble, locals, call
<1>5. CASE Call
  <2>1. CASE CallBegins
    BY <2>1 DEF CallBegins, remote, ble
  <2>2. CASE HelperAccepted \/ \E status412 \in BOOLEAN : CallFails(status412)
    BY <2>2 DEF HelperAccepted, CallFails, Return, remote, ble
  <2>3. ASSUME NEW f \in Fields, Accepted(f) PROVE FlagsOK'
    <3>1. progress' \in BOOLEAN
      BY <2>3 DEF Accepted
    <3>2. bleFailed' \in BOOLEAN
      BY <2>3 DEF Accepted, RearmBle
    <3> QED BY <2>3, <3>1, <3>2 DEF Accepted, Return, remote
  <2> QED BY <1>5, <2>1, <2>2, <2>3 DEF Call, AcceptedWaits, AcceptedApplied
<1>6. CASE Take \/ TopIdle \/ TopUnselected \/ TopSends
  BY <1>6 DEF Take, TopIdle, TopUnselected, TopSends, Leave, remote, ble, locals, call
<1>7. CASE TopSyncs
  BY <1>7 DEF TopSyncs, remote, ble, call
<1>8. ASSUME NEW outcome \in {"none", "read", "failed"}, NEW loaded, NEW v, Merge(outcome, loaded, v)
      PROVE  FlagsOK'
  <2>1. bleReady' \in BOOLEAN
    BY <1>8 DEF Merge, FetchBle
  <2>2. bleFailed' \in BOOLEAN
    BY <1>8 DEF Merge, FetchBle
  <2>3. remoteOn' \in BOOLEAN
    BY <1>8 DEF Merge, UpdateReported
  <2>4. feature' \in BOOLEAN
    BY <1>8 DEF Merge, UpdateFeature
  <2>5. progress' \in BOOLEAN
    BY <1>8 DEF Merge, Leave
  <2> QED BY <1>8, <2>1, <2>2, <2>3, <2>4, <2>5 DEF Merge, call
<1>9. CASE PrebrewDone \/ BbwDone \/ WakeDone
  BY <1>9 DEF PrebrewDone, BbwDone, WakeDone, Leave, remote, ble, locals, call
<1>10. CASE Choose \/ CloudDone \/ BleDone \/ BleConnects \/ BleInterrupted \/ BleConnectFails
  BY <1>10 DEF Choose, CloudDone, BleDone, BleConnects, BleInterrupted, BleConnectFails,
     SendViaCloud, Leave, remote, ble, locals, call
<1>11. CASE BleWritten \/ BleRejected \/ BleUnverified
  BY <1>11 DEF BleWritten, BleRejected, BleUnverified, remote, ble, call
<1> QED BY <1>1, <1>2, <1>3, <1>4, <1>5, <1>6, <1>7, <1>8, <1>9, <1>10, <1>11 DEF Next, Worker

LEMMA PlanStep == SetsOK /\ PlanOK /\ [Next]_vars => PlanOK'
<1> SUFFICES ASSUME SetsOK, PlanOK, [Next]_vars PROVE PlanOK'
  OBVIOUS
<1> USE DEF PlanOK, Stages
<1> HIDE DEF Plans
<1>a. pending \subseteq Fields /\ Unsent \subseteq Fields /\ mask \subseteq Fields
  BY DEF SetsOK, Unsent
<1>1. CASE UNCHANGED <<pc, todo, busy, fallback>>
  BY <1>1
<1>2. CASE Controller
  BY <1>2, <1>1 DEF Controller, QueueValues, RequestSync, locals, call
<1>3. CASE Websocket
  BY <1>3, <1>1 DEF Websocket, LiveUpdatesUp, LiveUpdatesDown, WebsocketDisconnected,
     CommandSucceeded, CommandFailed, DashboardValues, locals, call
<1>4. CASE Surroundings
  BY <1>4, <1>1 DEF Surroundings, AcksOverdue, BackoffOver, BleDisconnected, locals, call
<1>5. CASE CallBegins
  BY <1>5 DEF CallBegins, CloudStep
<1>6. ASSUME busy, Return(Tail(todo)), UNCHANGED pc,
             ~fallback' \/ (fallback' = fallback /\ Head(todo) \in CarriesNoField)
      PROVE  PlanOK'
  <2>1. Tail(todo) \in Plans /\ (Head(todo) = "steamLevel" => Tail(todo) # <<>>)
    BY <1>6, PlanTail
  <2>2. todo' = Tail(todo) /\ busy' = FALSE /\ pc' = pc
    BY <1>6 DEF Return
  <2>3. CASE pc # "ble"
    BY <1>6, <2>1, <2>2, <2>3
  <2>4. CASE pc = "ble"
    <3>1. Tail(todo) \in Seq(Fields)
      BY <1>6, <2>4
    <3>2. fallback' => fallback' = fallback /\ Head(todo) = "steamLevel"
      <4>1. todo \in Seq(Fields) => Head(todo) \in Fields
        BY <1>6
      <4>2. Head(todo) \in Fields => Head(todo) \notin CarriesNoField
        BY NamedSteps DEF CarriesNoField
      <4> QED BY <1>6, <2>4, <4>1, <4>2
    <3> QED BY <1>6, <2>1, <2>2, <2>4, <3>1, <3>2
  <2> QED BY <2>3, <2>4
<1>7. CASE HelperAccepted
  BY <1>7, <1>6 DEF HelperAccepted
<1>8. ASSUME NEW f, Accepted(f) PROVE PlanOK'
  BY <1>8, <1>6 DEF Accepted
<1>9. ASSUME NEW status412 \in BOOLEAN, CallFails(status412) PROVE PlanOK'
  <2>1. /\ busy /\ todo' = AfterFailure(Head(todo), status412)
        /\ busy' = FALSE /\ fallback' = FALSE /\ pc' = pc
    BY <1>9 DEF CallFails, Return
  <2>2. Tail(todo) \in Plans /\ (Head(todo) = "steamLevel" => Tail(todo) # <<>>)
    BY <2>1, PlanTail
  <2>3. Head(todo) = "steamLevel" => Tail(Tail(todo)) \in Plans
    BY <2>2, PlanTail
  <2>4. <<"prebrewRetry">> \in Plans
    BY SingletonPlan, NamedSteps
  <2>5. todo' \in Plans
    BY <2>1, <2>2, <2>3, <2>4, EmptyPlan DEF AfterFailure, When
  <2>6. ASSUME pc = "ble" PROVE todo' \in Seq(Fields)
    <3>1. Tail(todo) \in Seq(Fields)
      BY <2>1, <2>6
    <3>2. Head(todo) = "steamLevel" => Tail(Tail(todo)) \in Seq(Fields)
      BY <2>2, <3>1
    <3>3. Head(todo) # "prebrewMode"
      <4>1. todo \in Seq(Fields) => Head(todo) \in Fields
        BY <2>1
      <4> QED BY <2>6, <4>1, NamedSteps
    <3> QED BY <2>1, <3>1, <3>2, <3>3 DEF AfterFailure
  <2> QED BY <2>1, <2>5, <2>6
<1>10. CASE Take \/ TopSyncs \/ TopIdle \/ TopUnselected \/ TopSends
  <2>1. CASE Take
    BY <2>1 DEF Take, Goto, locals, call
  <2>2. CASE TopSyncs
    BY <2>2 DEF TopSyncs, Goto, call
  <2>3. CASE TopIdle \/ TopUnselected
    BY <2>3, EmptyPlan DEF TopIdle, TopUnselected, Leave, Goto, call
  <2>4. CASE TopSends
    BY <2>4, <1>a, PlansMade DEF TopSends, Goto, call
  <2> QED BY <1>10, <2>1, <2>2, <2>3, <2>4
<1>11. ASSUME NEW outcome, NEW loaded, NEW v, Merge(outcome, loaded, v)
      PROVE  PlanOK'
  BY <1>11, <1>a, EmptyPlan, PlansMade DEF Merge, Leave, Goto, call
<1>12. CASE PrebrewDone
  BY <1>12, <1>a, EmptyPlan, PlansMade DEF PrebrewDone, Leave, Goto, When, call
<1>13. CASE BbwDone \/ WakeDone
  BY <1>13, <1>a, EmptyPlan, PlansMade, SingletonPlan, NamedSteps DEF BbwDone, WakeDone, Leave, Goto, PrefersWakeup, locals, call
<1>14. CASE Choose \/ BleConnectFails
  BY <1>14, <1>a, EmptyPlan, PlansMade DEF Choose, SendViaCloud, BleConnectFails, Leave, Goto, locals, call
<1>15. CASE CloudDone \/ BleDone \/ BleInterrupted
  BY <1>15, EmptyPlan DEF CloudDone, BleDone, BleInterrupted, Leave, Goto, call
<1>16. CASE BleConnects
  BY <1>16, <1>a, FieldPlan, PlansMade DEF BleConnects, Goto, call
<1>17. CASE BleWritten \/ BleRejected
  <2>1. /\ pc = "ble" /\ todo # <<>> /\ ~fallback
        /\ todo' = Tail(todo) /\ UNCHANGED <<pc, busy, fallback>>
    BY <1>17 DEF BleWritten, BleRejected, BleStep, call
  <2>2. todo \in Seq(Fields)
    BY <2>1
  <2>3. Tail(todo) \in Seq(Fields)
    BY <2>1, <2>2
  <2>4. Tail(todo) \in Plans
    BY <2>3, FieldPlan
  <2> QED BY <2>1, <2>3, <2>4
<1>18. CASE BleUnverified
  <2>1. /\ pc = "ble" /\ todo # <<>> /\ ~fallback /\ fallback' = TRUE
        /\ UNCHANGED <<pc, busy>>
    BY <1>18 DEF BleUnverified, BleStep
  <2>2. todo \in Seq(Fields)
    BY <2>1
  <2>3. CASE todo' = <<>> \o todo
    BY <2>1, <2>2, <2>3
  <2>4. CASE Head(todo) = "steam" /\ todo' = <<"steamLevel">> \o todo
    <3>1. /\ todo' # <<>> /\ Head(todo') = "steamLevel" /\ Tail(todo') = todo
      BY <2>1, <2>2, <2>4
    <3>2. todo' \in Plans
      BY <2>1, <2>2, <2>4, FieldPlan, LevelFirst
    <3> QED BY <2>1, <2>2, <3>1, <3>2
  <2> QED BY <1>18, <2>3, <2>4 DEF BleUnverified, When
<1> QED BY <1>1, <1>2, <1>3, <1>4, <1>5, <1>7, <1>8, <1>9, <1>10, <1>11, <1>12, <1>13,
   <1>14, <1>15, <1>16, <1>17, <1>18 DEF Next, Worker, Call, AcceptedWaits, AcceptedApplied,
   vars, locals, call

LEMMA RequestsStep == RequestsOK /\ [Next]_vars => RequestsOK'
<1> SUFFICES ASSUME RequestsOK, [Next]_vars PROVE RequestsOK'
  OBVIOUS
<1> USE DEF RequestsOK
<1>1. CASE requests' = requests
  BY <1>1
<1>2. ASSUME Requests PROVE RequestsOK'
  BY <1>2 DEF Requests
<1>3. CASE Controller
  BY <1>2, <1>3 DEF Controller, QueueValues, RequestSync
<1>4. CASE UNCHANGED vars \/ Websocket \/ Surroundings
  BY <1>1, <1>4 DEF vars, Websocket, LiveUpdatesUp, LiveUpdatesDown, WebsocketDisconnected,
     CommandSucceeded, CommandFailed, DashboardValues, Surroundings, AcksOverdue, BackoffOver,
     BleDisconnected
<1>5. CASE Call
  BY <1>1, <1>5 DEF Call, CallBegins, HelperAccepted, CallFails, AcceptedWaits, AcceptedApplied,
     Accepted
<1>6. CASE Worker /\ ~Call
  BY <1>1, <1>6 DEF Worker, Take, TopIdle, TopUnselected, TopSends, TopSyncs, Merge, PrebrewDone,
     BbwDone, WakeDone, Choose, CloudDone, BleDone, BleConnects, BleInterrupted, BleConnectFails,
     BleWritten, BleRejected, BleUnverified
<1> QED BY <1>3, <1>4, <1>5, <1>6 DEF Next

LEMMA InvariantInit == Init => IInv
<1> SUFFICES ASSUME Init PROVE IInv
  OBVIOUS
<1>1. SetsOK
  BY DEF Init, SetsOK
<1>2. SettingsOK
  BY DEF Init, SettingsOK, Settings, Start, Values
<1>3. SlotsOK
  BY DEF Init, SlotsOK, Slot
<1>4. FlagsOK
  BY DEF Init, FlagsOK
<1>5. PlanOK
  BY EmptyPlan DEF Init, PlanOK, Stages
<1>6. RequestsOK
  BY DEF Init, RequestsOK
<1> QED BY <1>1, <1>2, <1>3, <1>4, <1>5, <1>6 DEF IInv

LEMMA InvariantHolds == Spec => []IInv
<1>1. IInv /\ [Next]_vars => IInv'
  BY SetsStep, SettingsStep, SlotsStep, FlagsStep, PlanStep, RequestsStep DEF IInv
<1> QED BY <1>1, InvariantInit, PTL DEF Spec

LEMMA InvariantTypes == IInv => TypeOK
<1> SUFFICES ASSUME IInv PROVE TypeOK
  OBVIOUS
<1>1. /\ desired \in Settings /\ reported \in Settings /\ accepted \in Settings
      /\ pending \subseteq Fields /\ inflight \subseteq Fields /\ mask \subseteq Fields
      /\ sync \subseteq Sources /\ flags \subseteq Sources
      /\ slots \in [SlotIds -> Slot] /\ seen \in Settings
  BY DEF IInv, SetsOK, SettingsOK, SlotsOK
<1>2. /\ todo \in Seq(Steps)
      /\ pc \in Stages \cup {"wait", "top", "merge", "choose", "connect", "ble"}
  BY DEF IInv, PlanOK, Plans
<1>3. {remoteOn, feature, connected, bleReady, bleFailed} \subseteq BOOLEAN
  BY DEF IInv, FlagsOK
<1>4. {progress, busy, wasConnected, fallback} \subseteq BOOLEAN
  BY DEF IInv, FlagsOK
<1>5. requests \in 0 .. MaxRequests
  BY DEF IInv, RequestsOK
<1> QED BY <1>1, <1>2, <1>3, <1>4, <1>5, Zenon DEF TypeOK

\* Every variable keeps its type: the slot table never outgrows its array, a
\* slot, a pending or an in-flight mark never names a field that is not one,
\* and the worker never carries out a step of an empty plan.
THEOREM TypeCorrect == Spec => []TypeOK
BY InvariantHolds, InvariantTypes, PTL

-----------------------------------------------------------------------------
(* What is in flight has a slot.                                           *)

LEMMA InflightHasSlotStep == TypeOK /\ InflightHasSlot /\ [Next]_vars => InflightHasSlot'
<1> SUFFICES ASSUME TypeOK, InflightHasSlot, [Next]_vars PROVE InflightHasSlot'
  OBVIOUS
<1> USE DEF InflightHasSlot
<1>1. ASSUME NEW i \in SlotIds, slots' = [slots EXCEPT ![i] = FreeSlot],
             inflight' = inflight \ {slots[i].field}
      PROVE  InflightHasSlot'
  BY <1>1 DEF TypeOK, FreeSlot
<1>2. CASE Take
  BY <1>2 DEF Take, Expired, FreeSlot, TypeOK
<1>3. CASE AcksOverdue
  <2>1. ASSUME NEW s \in Slot PROVE Overdue(s).active = s.active /\ Overdue(s).field = s.field
    BY DEF Slot, FreeSlot, Overdue
  <2> QED BY <1>3, <2>1 DEF AcksOverdue, TypeOK
<1>4. ASSUME NEW f \in Fields, AcceptedWaits(f)
      PROVE  InflightHasSlot'
  <2>1. PICK i \in SlotIds :
          /\ ~slots[i].active
          /\ slots' = [slots EXCEPT ![i] = [active |-> TRUE, field |-> f, value |-> seen[f], old |-> FALSE]]
    BY <1>4 DEF AcceptedWaits, FirstFree, FreeSlots
  <2>2. inflight' \subseteq inflight \cup {f}
    BY <1>4 DEF AcceptedWaits, Completed
  <2> QED BY <2>1, <2>2 DEF TypeOK
<1>5. ASSUME inflight' \subseteq inflight, slots' = slots
      PROVE  InflightHasSlot'
  BY <1>5
<1> QED
  <2>1. CASE UNCHANGED vars
    BY <2>1, <1>5 DEF vars
  <2>2. CASE Controller
    BY <2>2, <1>5 DEF Controller, QueueValues, RequestSync
  <2>3. CASE Websocket
    <3>1. CASE LiveUpdatesUp \/ LiveUpdatesDown \/ WebsocketDisconnected
      BY <3>1, <1>5 DEF LiveUpdatesUp, LiveUpdatesDown, WebsocketDisconnected
    <3>2. CASE \E i \in SlotIds : CommandSucceeded(i) \/ CommandFailed(i)
      BY <3>2, <1>1 DEF CommandSucceeded, CommandFailed
    <3>3. CASE \E loaded \in SUBSET Fields, v \in Settings : DashboardValues(loaded, v)
      BY <3>3, <1>5 DEF DashboardValues
    <3> QED BY <2>3, <3>1, <3>2, <3>3 DEF Websocket
  <2>4. CASE Surroundings
    BY <2>4, <1>3, <1>5 DEF Surroundings, BackoffOver, BleDisconnected
  <2>5. CASE Call
    <3>1. CASE CallBegins \/ HelperAccepted
      BY <3>1, <1>5 DEF CallBegins, HelperAccepted
    <3>2. CASE \E status412 \in BOOLEAN : CallFails(status412)
      BY <3>2, <1>5 DEF CallFails
    <3>3. CASE \E f \in Fields : AcceptedApplied(f)
      BY <3>3, <1>5 DEF AcceptedApplied
    <3> QED BY <2>5, <3>1, <3>2, <3>3, <1>4 DEF Call
  <2>6. CASE Worker /\ ~Call
    <3>1. CASE \E outcome \in {"none", "read", "failed"}, loaded \in SUBSET Fields, v \in Settings :
                 Merge(outcome, loaded, v)
      BY <3>1, <1>5 DEF Merge
    <3>2. CASE TopIdle \/ TopUnselected \/ TopSends \/ TopSyncs
      BY <3>2, <1>5 DEF TopIdle, TopUnselected, TopSends, TopSyncs
    <3>3. CASE PrebrewDone \/ BbwDone \/ WakeDone
      BY <3>3, <1>5 DEF PrebrewDone, BbwDone, WakeDone
    <3>4. CASE Choose \/ CloudDone \/ BleDone \/ BleConnects \/ BleInterrupted \/ BleConnectFails
      BY <3>4, <1>5 DEF Choose, CloudDone, BleDone, BleConnects, BleInterrupted, BleConnectFails
    <3>5. CASE BleWritten \/ BleRejected \/ BleUnverified
      BY <3>5, <1>5 DEF BleWritten, BleRejected, BleUnverified
    <3> QED BY <2>6, <3>1, <3>2, <3>3, <3>4, <3>5, <1>2 DEF Worker
  <2> QED BY <2>1, <2>2, <2>3, <2>4, <2>5, <2>6 DEF Next, Worker

\* Whatever the order of confirmations, failures, timeouts, disconnects and
\* new writes, a field reported as in flight has a slot in the table of
\* pending commands, whose confirmation or timeout clears it.
THEOREM InflightCovered == Spec => []InflightHasSlot
<1>1. Init => InflightHasSlot
  BY DEF Init, InflightHasSlot
<1> QED BY <1>1, TypeCorrect, InflightHasSlotStep, PTL DEF Spec

-----------------------------------------------------------------------------
(* What is owed is shown.                                                  *)

LEMMA OwedIsShownStep == TypeOK /\ OwedIsShown /\ [Next]_vars => OwedIsShown'
<1> SUFFICES ASSUME TypeOK, OwedIsShown, [Next]_vars PROVE OwedIsShown'
  OBVIOUS
<1> USE DEF OwedIsShown
<1>1. ASSUME NEW F \in SUBSET Fields, NEW v \in Settings, QueueValues(F, v)
      PROVE  OwedIsShown'
  <2>1. ASSUME NEW f \in (pending' \cup inflight') \ Deferred
        PROVE  reported'[f] = desired'[f]
    <3>1. f \in Fields
      BY <1>1 DEF TypeOK, QueueValues
    <3>2. CASE f \in F
      BY <1>1, <3>1, <3>2 DEF QueueValues
    <3>3. CASE f \notin F
      BY <1>1, <2>1, <3>1, <3>3 DEF QueueValues, Carries
    <3> QED BY <3>2, <3>3
  <2> QED BY <2>1
<1>2. ASSUME NEW loaded, NEW v, UpdateReported(loaded, v), TypeOK,
             UNCHANGED <<desired, pending, inflight>>
      PROVE  OwedIsShown'
  BY <1>2 DEF UpdateReported, Accepts, TypeOK
<1>3. ASSUME NEW i \in SlotIds, CommandSucceeded(i)
      PROVE  OwedIsShown'
  <2>1. CASE slots[i].field \in pending
    BY <1>3, <2>1 DEF CommandSucceeded
  <2>2. CASE slots[i].field \notin pending
    BY <1>3, <2>2 DEF CommandSucceeded, TypeOK, Settings
  <2> QED BY <2>1, <2>2
<1>4. ASSUME shown' = shown, pending' \cup inflight' \subseteq pending \cup inflight
      PROVE  OwedIsShown'
  BY <1>4 DEF shown
<1> QED
  <2>1. CASE UNCHANGED vars
    BY <2>1, <1>4 DEF vars
  <2>2. CASE Controller
    BY <2>2, <1>1, <1>4 DEF Controller, RequestSync
  <2>3. CASE Websocket
    BY <2>3, <1>2, <1>3, <1>4 DEF Websocket, LiveUpdatesUp, LiveUpdatesDown,
       WebsocketDisconnected, CommandFailed, DashboardValues
  <2>4. CASE Surroundings
    BY <2>4, <1>4 DEF Surroundings, AcksOverdue, BackoffOver, BleDisconnected
  <2>5. CASE Call
    <3>1. CASE CallBegins
      BY <3>1, <1>4 DEF CallBegins
    <3>2. CASE HelperAccepted
      BY <3>2, <1>4 DEF HelperAccepted
    <3>3. CASE \E status412 \in BOOLEAN : CallFails(status412)
      BY <3>3, <1>4 DEF CallFails
    <3>4. CASE \E f \in Fields : AcceptedWaits(f)
      BY <3>4, <1>4 DEF AcceptedWaits, Accepted
    <3>5. CASE \E f \in Fields : AcceptedApplied(f)
      BY <3>5, <1>4 DEF AcceptedApplied, Accepted
    <3> QED BY <2>5, <3>1, <3>2, <3>3, <3>4, <3>5 DEF Call
  <2>6. CASE Worker /\ ~Call
    <3>1. CASE Take
      BY <3>1, <1>4 DEF Take
    <3>2. CASE \E outcome \in {"none", "read", "failed"}, loaded \in SUBSET Fields, v \in Settings :
                 Merge(outcome, loaded, v)
      BY <3>2, <1>2 DEF Merge
    <3>3. CASE TopIdle \/ TopUnselected \/ TopSends \/ TopSyncs
      BY <3>3, <1>4 DEF TopIdle, TopUnselected, TopSends, TopSyncs
    <3>4. CASE PrebrewDone \/ BbwDone \/ WakeDone
      BY <3>4, <1>4 DEF PrebrewDone, BbwDone, WakeDone
    <3>5. CASE Choose \/ CloudDone \/ BleDone \/ BleConnects \/ BleInterrupted \/ BleConnectFails
      BY <3>5, <1>4 DEF Choose, CloudDone, BleDone, BleConnects, BleInterrupted, BleConnectFails
    <3>6. CASE BleWritten \/ BleRejected \/ BleUnverified
      BY <3>6, <1>4 DEF BleWritten, BleRejected, BleUnverified
    <3> QED BY <2>6, <3>1, <3>2, <3>3, <3>4, <3>5, <3>6 DEF Worker
  <2> QED BY <2>1, <2>2, <2>3, <2>4, <2>5, <2>6 DEF Next, Worker

\* Whatever dashboard messages, synchronizations and late confirmations come
\* in between, the value shown for a field that is still to be written or
\* confirmed is the one the user asked for last.
THEOREM OwedShown == Spec => []OwedIsShown
<1>1. Init => OwedIsShown
  BY DEF Init, OwedIsShown
<1> QED BY <1>1, TypeCorrect, OwedIsShownStep, PTL DEF Spec
-----------------------------------------------------------------------------
(* What is in flight is the latest value, and what is forgotten was taken. *)

\* The fields whose confirmation alone InflightIsLatest speaks of.
Powered == {"standby", "steam"}

\* Plans that write each powered field at most once, and only those of A.
Within(A) ==
  {s \in Seq(Steps) : /\ \A i \in 1 .. Len(s) : s[i] \in Powered => s[i] \in A
                      /\ \A i, j \in 1 .. Len(s) : s[i] \in Powered /\ s[i] = s[j] => i = j}

\* A powered field the worker is still going to write is owed and not in
\* flight: nobody but the worker takes it off `pending' once it is in the mask,
\* and the worker does so only when it moves past it.  Without this, the
\* answer to a stale write could land on a field that waits for its
\* confirmation.
AheadOK ==
  /\ pc \in {"wake", "cloud", "ble"} => todo \in Within(Unsent)
  /\ pc \in {"prebrew", "bbw"} => todo \in Within({})
  /\ pc \in {"choose", "connect"} \/ (pc = "wake" /\ ~progress) => mask \cap Powered \subseteq Unsent

LEMMA WithinEmpty == ASSUME NEW A PROVE <<>> \in Within(A)
BY DEF Within

LEMMA WithinSingleton ==
  ASSUME NEW A, NEW x \in Steps, x \in Powered => x \in A
  PROVE  <<x>> \in Within(A)
<1>1. <<x>> \in Seq(Steps) /\ Len(<<x>>) = 1 /\ <<x>>[1] = x
  OBVIOUS
<1>2. \A i \in 1 .. 1 : i = 1
  OBVIOUS
<1> QED BY <1>1, <1>2 DEF Within

LEMMA WithinLarger ==
  ASSUME NEW A, NEW B, NEW s \in Within(A), A \cap Powered \subseteq B
  PROVE  s \in Within(B)
BY DEF Within

LEMMA WithinAppend ==
  ASSUME NEW A, NEW B, NEW s \in Within(A), NEW t \in Within(B), A \cap B \cap Powered = {}
  PROVE  s \o t \in Within(A \cup B)
<1> USE DEF Within
<1> HIDE DEF Steps, Powered
<1>1. /\ s \o t \in Seq(Steps) /\ Len(s \o t) = Len(s) + Len(t)
      /\ \A i \in 1 .. Len(s) + Len(t) :
           (s \o t)[i] = IF i <= Len(s) THEN s[i] ELSE t[i - Len(s)]
  OBVIOUS
<1>2. \A i \in 1 .. Len(s) + Len(t) : i <= Len(s) => i \in 1 .. Len(s)
  OBVIOUS
<1>3. \A i \in 1 .. Len(s) + Len(t) : ~(i <= Len(s)) => i - Len(s) \in 1 .. Len(t)
  OBVIOUS
<1>4. \A i \in 1 .. Len(s \o t) : (s \o t)[i] \in Powered => (s \o t)[i] \in A \cup B
  BY <1>1, <1>2, <1>3
<1>5. ASSUME NEW i \in 1 .. Len(s) + Len(t), NEW j \in 1 .. Len(s) + Len(t),
             (s \o t)[i] \in Powered, (s \o t)[i] = (s \o t)[j]
      PROVE  i = j
  <2>1. CASE i <= Len(s) /\ j <= Len(s)
    BY <1>1, <1>2, <1>5, <2>1
  <2>2. CASE ~(i <= Len(s)) /\ ~(j <= Len(s))
    <3>1. i - Len(s) = j - Len(s)
      BY <1>1, <1>3, <1>5, <2>2
    <3> QED BY <3>1
  <2>3. CASE i <= Len(s) /\ ~(j <= Len(s))
    BY <1>1, <1>2, <1>3, <1>5, <2>3
  <2>4. CASE ~(i <= Len(s)) /\ j <= Len(s)
    BY <1>1, <1>2, <1>3, <1>5, <2>4
  <2> QED BY <2>1, <2>2, <2>3, <2>4
<1> QED BY <1>1, <1>4, <1>5

LEMMA WithinTail ==
  ASSUME NEW A, NEW s \in Within(A), s # <<>>
  PROVE  /\ Head(s) \in Powered => Head(s) \in A
         /\ Tail(s) \in Within(A \ {Head(s)})
<1> USE DEF Within
<1> HIDE DEF Steps, Powered
<1>1. /\ Tail(s) \in Seq(Steps) /\ Len(Tail(s)) = Len(s) - 1 /\ Head(s) = s[1] /\ 1 \in 1 .. Len(s)
      /\ \A i \in 1 .. Len(s) - 1 : Tail(s)[i] = s[i + 1]
  OBVIOUS
<1>2. \A i \in 1 .. Len(s) - 1 : i + 1 \in 1 .. Len(s) /\ i + 1 # 1
  OBVIOUS
<1>3. \A i \in 1 .. Len(Tail(s)) : Tail(s)[i] \in Powered => Tail(s)[i] \in A \ {Head(s)}
  BY <1>1, <1>2
<1>4. ASSUME NEW i \in 1 .. Len(Tail(s)), NEW j \in 1 .. Len(Tail(s)),
             Tail(s)[i] \in Powered, Tail(s)[i] = Tail(s)[j]
      PROVE  i = j
  <2>1. i + 1 = j + 1
    BY <1>1, <1>2, <1>4
  <2> QED BY <1>1, <2>1
<1>5. Head(s) \in Powered => Head(s) \in A
  BY <1>1
<1> QED BY <1>1, <1>3, <1>4, <1>5

LEMMA PowerlessSteps ==
  /\ {"prebrewMode", "prebrewRetry", "steamLevel", "prebrewing", "bbwMode", "bbwDoses",
      "temperature", "none"} \cap Powered = {}
  /\ {"standby", "steam"} = Powered
BY DEF Powered

LEMMA WithinMade ==
  ASSUME NEW v, NEW m \in SUBSET Fields
  PROVE  /\ PrebrewPlan(m) \in Within({}) /\ BbwPlan(m) \in Within({})
         /\ CloudPlan(v, m) \in Within(m) /\ BlePlan(v, m) \in Within(m)
<1>1. ASSUME NEW P, NEW f, NEW A, P => f \in Fields /\ (f \in Powered => f \in A)
      PROVE  When(P, <<f>>) \in Within(A)
  BY <1>1, WithinEmpty, WithinSingleton, NamedSteps DEF When
<1>2. \A A, B : \A s \in Within(A), t \in Within(B) :
        A \cap B \cap Powered = {} => s \o t \in Within(A \cup B)
  BY WithinAppend
<1>3. PrebrewPlan(m) \in Within({})
  <2>1. CASE "prebrewing" \in m
    <3>1. <<"prebrewMode">> \in Within({}) /\ <<"prebrewing">> \in Within({})
      BY <2>1, WithinSingleton, NamedSteps, PowerlessSteps
    <3>2. <<"prebrewMode", "prebrewing">> = <<"prebrewMode">> \o <<"prebrewing">>
      OBVIOUS
    <3>3. <<"prebrewMode">> \o <<"prebrewing">> \in Within({} \cup {})
      BY <3>1, <1>2
    <3> QED BY <2>1, <3>2, <3>3 DEF PrebrewPlan, When
  <2> QED BY <2>1, WithinEmpty DEF PrebrewPlan, When
<1>4. BbwPlan(m) \in Within({})
  <2> DEFINE a == When("bbwMode" \in m, <<"bbwMode">>)
             b == When("bbwDoses" \in m, <<"bbwDoses">>)
  <2>1. a \in Within({}) /\ b \in Within({})
    BY <1>1, PowerlessSteps
  <2>2. BbwPlan(m) = a \o b
    BY DEF BbwPlan
  <2> HIDE DEF a, b
  <2>3. a \o b \in Within({} \cup {})
    BY <2>1, <1>2
  <2> QED BY <2>2, <2>3
<1>5. ASSUME NEW c \in Within(m \cap {"steam"}),
             NEW a \in Within(m \cap {"standby"}), NEW b \in Within({})
      PROVE  c \o a \o b \in Within(m) /\ a \o b \o c \in Within(m)
  <2>1. c \o a \in Within((m \cap {"steam"}) \cup (m \cap {"standby"}))
    BY <1>2
  <2>2. c \o a \o b \in Within(((m \cap {"steam"}) \cup (m \cap {"standby"})) \cup {})
    BY <2>1, <1>2
  <2>3. a \o b \in Within((m \cap {"standby"}) \cup {})
    BY <1>2
  <2>4. a \o b \o c \in Within(((m \cap {"standby"}) \cup {}) \cup (m \cap {"steam"}))
    BY <2>3, <1>2
  <2> QED BY <2>2, <2>4, WithinLarger
<1> DEFINE a == When("standby" \in m, <<"standby">>)
           b == When("temperature" \in m, <<"temperature">>)
<1>6. a \in Within(m \cap {"standby"}) /\ b \in Within({})
  BY <1>1, PowerlessSteps
<1>7. BlePlan(v, m) \in Within(m)
  <2> DEFINE c == When("steam" \in m /\ ~StandbyOn(v), <<"steam">>)
  <2>1. c \in Within(m \cap {"steam"})
    BY <1>1
  <2>2. BlePlan(v, m) = a \o b \o c
    BY DEF BlePlan
  <2> HIDE DEF a, b, c
  <2> QED BY <1>5, <1>6, <2>1, <2>2
<1>8. CloudPlan(v, m) \in Within(m)
  <2> DEFINE l == When(SteamOn(v), <<"steamLevel">>)
             c == When("steam" \in m /\ ~StandbyOn(v), l \o <<"steam">>)
  <2>1. ASSUME "steam" \in m PROVE l \o <<"steam">> \in Within(m \cap {"steam"})
    <3>1. l \in Within({})
      BY WithinEmpty, WithinSingleton, NamedSteps, PowerlessSteps DEF When
    <3>2. <<"steam">> \in Within(m \cap {"steam"})
      BY <2>1, WithinSingleton, NamedSteps
    <3> HIDE DEF l
    <3>3. l \o <<"steam">> \in Within({} \cup (m \cap {"steam"}))
      BY <3>1, <3>2, <1>2
    <3> QED BY <3>3
  <2>2. c \in Within(m \cap {"steam"})
    BY <2>1, WithinEmpty DEF When
  <2>3. CASE PrefersWakeup(v, m)
    BY <2>3, WithinSingleton, NamedSteps DEF CloudPlan, PrefersWakeup
  <2>4. CASE ~PrefersWakeup(v, m)
    <3>1. CloudPlan(v, m) = c \o a \o b
      BY <2>4 DEF CloudPlan
    <3> HIDE DEF a, b, c, l
    <3> QED BY <3>1, <1>5, <1>6, <2>2
  <2> QED BY <2>3, <2>4
<1> QED BY <1>3, <1>4, <1>7, <1>8

LEMMA AheadStep == TypeOK /\ PlanOK /\ AheadOK /\ [Next]_vars => AheadOK'
<1> SUFFICES ASSUME TypeOK, PlanOK, AheadOK, [Next]_vars PROVE AheadOK'
  OBVIOUS
<1> USE DEF AheadOK
<1> HIDE DEF Powered, Within
<1>a. Unsent \subseteq Fields /\ mask \subseteq Fields /\ pending \subseteq Fields
  BY DEF TypeOK, Unsent
<1>1. ASSUME Unsent \cap Powered \subseteq Unsent', UNCHANGED <<pc, mask, progress, todo>>
      PROVE  AheadOK'
  BY <1>1, WithinLarger
<1>2. CASE UNCHANGED vars
  BY <1>2, <1>1 DEF vars, locals, Unsent
<1>3. CASE Controller
  BY <1>3, <1>1 DEF Controller, QueueValues, RequestSync, locals, Unsent
<1>4. CASE Websocket
  BY <1>4, <1>1 DEF Websocket, LiveUpdatesUp, LiveUpdatesDown, WebsocketDisconnected,
     CommandSucceeded, CommandFailed, DashboardValues, locals, Unsent
<1>5. CASE Surroundings
  BY <1>5, <1>1 DEF Surroundings, AcksOverdue, BackoffOver, BleDisconnected, locals, Unsent
<1>6. CASE CallBegins
  BY <1>6, <1>1 DEF CallBegins, Unsent
<1>7. CASE HelperAccepted
  <2>1. /\ busy /\ todo # <<>> /\ todo' = Tail(todo)
        /\ UNCHANGED <<pc, mask, progress, Unsent>>
    BY <1>7 DEF HelperAccepted, Return, PlanOK, Unsent
  <2>2. ASSUME NEW A, todo \in Within(A) PROVE todo' \in Within(A)
    <3>1. todo' \in Within(A \ {Head(todo)})
      BY <2>1, <2>2, WithinTail
    <3> QED BY <3>1, WithinLarger
  <2> QED BY <2>1, <2>2
<1>b. ASSUME NEW f, f = FieldOf(Head(todo)), f \in Powered PROVE f = Head(todo)
  BY <1>b, PowerlessSteps DEF FieldOf
<1>9. ASSUME NEW f \in Fields, AcceptedWaits(f) \/ AcceptedApplied(f) PROVE AheadOK'
  <2>1. /\ busy /\ todo # <<>> /\ todo' = Tail(todo) /\ UNCHANGED <<pc, mask>>
        /\ f = FieldOf(Head(todo)) /\ progress' = (progress \/ pc \in {"wake", "cloud"})
    BY <1>9 DEF AcceptedWaits, AcceptedApplied, Accepted, Return, PlanOK
  <2>2. Unsent \ {f} \subseteq Unsent'
    BY <1>9 DEF AcceptedWaits, AcceptedApplied, Completed, Unsent
  <2>3. (Unsent \ {Head(todo)}) \cap Powered \subseteq Unsent'
    BY <2>1, <2>2, <1>b
  <2>4. ASSUME NEW A, todo \in Within(A) PROVE todo' \in Within(A \ {Head(todo)})
    BY <2>1, <2>4, WithinTail
  <2>5. pc' \in {"wake", "cloud", "ble"} => todo' \in Within(Unsent')
    BY <2>1, <2>3, <2>4, WithinLarger
  <2>6. pc' \in {"prebrew", "bbw"} => todo' \in Within({})
    BY <2>1, <2>4, WithinLarger
  <2>7. pc \notin {"choose", "connect"}
    BY <2>1 DEF PlanOK, Stages
  <2>8. ~(pc' = "wake" /\ ~progress')
    BY <2>1
  <2> QED BY <2>1, <2>5, <2>6, <2>7, <2>8
<1>10. ASSUME NEW status412 \in BOOLEAN, CallFails(status412) PROVE AheadOK'
  <2>1. /\ busy /\ todo # <<>> /\ todo' = AfterFailure(Head(todo), status412)
        /\ UNCHANGED <<pc, mask, progress, inflight>>
        /\ pending' = pending \ DroppedByFailure(Head(todo), status412)
    BY <1>10 DEF CallFails, Return, PlanOK
  <2>2. DroppedByFailure(Head(todo), status412) \cap Powered \subseteq {Head(todo)}
    BY PowerlessSteps DEF DroppedByFailure, Completed
  <2>3. pc = "wake" => DroppedByFailure(Head(todo), status412) \cap Powered = {}
    BY PowerlessSteps DEF DroppedByFailure, PlanOK
  <2>4. Unsent' = Unsent \ DroppedByFailure(Head(todo), status412)
    BY <2>1 DEF Unsent
  <2>5. ASSUME NEW A, todo \in Within(A) PROVE todo' \in Within(A \ {Head(todo)})
    <3>1. Tail(todo) \in Within(A \ {Head(todo)})
      BY <2>1, <2>5, WithinTail
    <3>2. Head(todo) = "steamLevel" => Tail(todo) # <<>>
      BY <2>1, PlanTail DEF PlanOK
    <3>3. ASSUME Head(todo) = "steamLevel"
          PROVE  Tail(Tail(todo)) \in Within(A \ {Head(todo)})
      <4>1. Tail(Tail(todo)) \in Within((A \ {Head(todo)}) \ {Head(Tail(todo))})
        BY <3>1, <3>2, <3>3, WithinTail
      <4> QED BY <4>1, WithinLarger
    <3>4. <<"prebrewRetry">> \in Within(A \ {Head(todo)})
      BY WithinSingleton, NamedSteps, PowerlessSteps
    <3> QED BY <2>1, <3>1, <3>3, <3>4, WithinEmpty DEF AfterFailure, When
  <2>6. pc' \in {"wake", "cloud", "ble"} => todo' \in Within(Unsent')
    <3>1. (Unsent \ {Head(todo)}) \cap Powered \subseteq Unsent'
      BY <2>2, <2>4
    <3> QED BY <2>1, <2>5, <3>1, WithinLarger
  <2>7. pc' \in {"prebrew", "bbw"} => todo' \in Within({})
    BY <2>1, <2>5, WithinLarger
  <2>8. pc \notin {"choose", "connect"}
    BY <2>1 DEF PlanOK, Stages
  <2> QED BY <2>1, <2>3, <2>4, <2>6, <2>7, <2>8
<1>11. CASE Take \/ TopIdle \/ TopUnselected \/ TopSends \/ TopSyncs
  <2>1. CASE Take
    BY <2>1 DEF Take, Goto
  <2>2. CASE TopIdle \/ TopUnselected
    BY <2>2 DEF TopIdle, TopUnselected, Leave, Goto
  <2>3. CASE TopSends
    BY <2>3, <1>a, WithinMade DEF TopSends, Goto
  <2>4. CASE TopSyncs
    BY <2>4 DEF TopSyncs, Goto
  <2> QED BY <1>11, <2>1, <2>2, <2>3, <2>4
<1>12. ASSUME NEW outcome, NEW loaded, NEW v, Merge(outcome, loaded, v) PROVE AheadOK'
  BY <1>12, <1>a, WithinMade DEF Merge, Leave, Goto
<1>13. CASE PrebrewDone
  BY <1>13, <1>a, WithinMade, WithinEmpty DEF PrebrewDone, Leave, Goto, When
<1>14. CASE BbwDone
  <2>1. CASE Unsent = {}
    BY <1>14, <2>1 DEF BbwDone, Leave, Goto
  <2>2. CASE Unsent # {}
    <3>1. mask' \subseteq Unsent' /\ Unsent' = Unsent
      BY <1>14, <2>2 DEF BbwDone, Unsent
    <3>2. CASE pc' = "wake" /\ todo' = <<"standby">> /\ "standby" \in Unsent'
      <4>1. <<"standby">> \in Within(Unsent')
        BY <3>1, <3>2, <1>a, WithinSingleton, NamedSteps
      <4> QED BY <3>1, <3>2, <4>1
    <3>3. CASE pc' = "choose"
      BY <3>1, <3>3
    <3>4. PrefersWakeup(desired, Unsent) => "standby" \in Unsent'
      BY <1>14 DEF PrefersWakeup, BbwDone, Unsent
    <3> QED BY <1>14, <2>2, <3>2, <3>3, <3>4 DEF BbwDone, Goto
  <2> QED BY <2>1, <2>2
<1>15. CASE WakeDone
  BY <1>15 DEF WakeDone, Leave, Goto, locals, Unsent
<1>16. CASE Choose \/ BleConnectFails
  <2>1. ASSUME pc \in {"choose", "connect"}, SendViaCloud, UNCHANGED <<pending, inflight>>
        PROVE  AheadOK'
    <3>1. todo' \in Within(mask) /\ pc' = "cloud"
      BY <2>1, <1>a, WithinMade DEF SendViaCloud, Goto
    <3>2. mask \cap Powered \subseteq Unsent'
      BY <2>1 DEF Unsent
    <3> QED BY <3>1, <3>2, WithinLarger
  <2> QED BY <1>16, <2>1 DEF Choose, BleConnectFails, Leave, Goto, locals, Unsent
<1>17. CASE CloudDone \/ BleDone \/ BleInterrupted
  BY <1>17 DEF CloudDone, BleDone, BleInterrupted, Leave, Goto
<1>18. CASE BleConnects
  BY <1>18, <1>a, WithinMade, WithinLarger DEF BleConnects, Goto, Unsent
<1>19. CASE BleWritten \/ BleRejected
  <2>1. /\ pc = "ble" /\ todo # <<>> /\ todo' = Tail(todo)
        /\ UNCHANGED <<pc, mask, progress>>
        /\ Unsent \ {Head(todo)} \subseteq Unsent'
    BY <1>19 DEF BleWritten, BleRejected, BleStep, Completed, Unsent
  <2> QED BY <2>1, WithinTail, WithinLarger
<1>20. CASE BleUnverified
  <2>1. /\ pc = "ble" /\ todo # <<>> /\ UNCHANGED <<pc, mask, progress, pending, inflight>>
        /\ todo' = When(Head(todo) = "steam" /\ SteamOn(seen), <<"steamLevel">>) \o todo
    BY <1>20 DEF BleUnverified, BleStep
  <2>2. When(Head(todo) = "steam" /\ SteamOn(seen), <<"steamLevel">>) \in Within({})
    BY WithinEmpty, WithinSingleton, NamedSteps, PowerlessSteps DEF When
  <2>3. todo' \in Within({} \cup Unsent)
    BY <2>1, <2>2, WithinAppend
  <2> QED BY <2>1, <2>3 DEF Unsent
<1> QED BY <1>2, <1>3, <1>4, <1>5, <1>6, <1>7, <1>9, <1>10, <1>11, <1>12, <1>13, <1>14,
   <1>15, <1>16, <1>17, <1>18, <1>19, <1>20 DEF Next, Worker, Call

\* The step the worker carries out on a powered field finds it owed.
LEMMA HeadIsUnsent ==
  ASSUME PlanOK, AheadOK, todo # <<>>, pc \in Stages \/ pc = "ble", Head(todo) \in Powered
  PROVE  Head(todo) \in Unsent
<1>1. CASE pc \in {"wake", "cloud", "ble"}
  BY <1>1, WithinTail DEF AheadOK
<1>2. CASE pc \in {"prebrew", "bbw"}
  <2>1. todo \in Within({})
    BY <1>2 DEF AheadOK
  <2>2. ASSUME NEW A, todo \in Within(A) PROVE Head(todo) \in A
    BY <2>2, WithinTail
  <2> QED BY <2>1, <2>2
<1> QED BY <1>1, <1>2 DEF Stages

LEMMA LatestStep ==
  TypeOK /\ PlanOK /\ AheadOK /\ InflightIsLatest /\ [Next]_vars => InflightIsLatest'
<1> SUFFICES ASSUME TypeOK, PlanOK, AheadOK, InflightIsLatest, [Next]_vars
             PROVE  InflightIsLatest'
  OBVIOUS
<1> USE DEF InflightIsLatest
<1>a. ASSUME NEW f \in Fields
      PROVE  f \notin Deferred \cup BbwFields <=> f \in Powered
  BY <1>a DEF AllFields, BleFields, BbwFields, Deferred, Powered
<1>b. inflight \subseteq Fields /\ pending \subseteq Fields /\ accepted \in Settings /\ seen \in Settings
  BY DEF TypeOK
<1>1. ASSUME inflight' \subseteq inflight, UNCHANGED <<desired, accepted>>,
             (inflight \cap pending \cap Powered) \subseteq pending' \cup (inflight \ inflight')
      PROVE  InflightIsLatest'
  BY <1>1, <1>a, <1>b
<1>2. CASE UNCHANGED vars
  BY <1>2 DEF vars, shown
<1>3. ASSUME NEW F \in SUBSET Fields, NEW v \in Settings, QueueValues(F, v)
      PROVE  InflightIsLatest'
  BY <1>3, <1>b DEF QueueValues, Carries
<1>4. CASE \E s \in Sources : RequestSync(s)
  BY <1>4, <1>1 DEF RequestSync, shown
<1>5. CASE Websocket
  BY <1>5, <1>1 DEF Websocket, LiveUpdatesUp, LiveUpdatesDown, WebsocketDisconnected,
     CommandSucceeded, CommandFailed, DashboardValues, shown
<1>6. CASE Surroundings
  BY <1>6, <1>1 DEF Surroundings, AcksOverdue, BackoffOver, BleDisconnected, shown
<1>7. CASE CallBegins \/ HelperAccepted
  BY <1>7, <1>1 DEF CallBegins, HelperAccepted, shown
<1>8. ASSUME NEW status412 \in BOOLEAN, CallFails(status412)
      PROVE  InflightIsLatest'
  <2>1. /\ busy /\ todo # <<>> /\ (pc \in Stages \/ pc = "ble")
        /\ UNCHANGED <<desired, accepted, inflight>>
        /\ pending' = pending \ DroppedByFailure(Head(todo), status412)
    BY <1>8 DEF CallFails, PlanOK, shown
  <2>2. DroppedByFailure(Head(todo), status412) \cap Powered \subseteq {Head(todo)}
    BY PowerlessSteps DEF DroppedByFailure, Completed
  <2>3. DroppedByFailure(Head(todo), status412) \cap Powered \cap inflight = {}
    BY <2>1, <2>2, HeadIsUnsent DEF Unsent
  <2> QED BY <2>1, <2>3, <1>1
<1>9. ASSUME NEW f \in Fields, accepted' = [accepted EXCEPT ![f] = seen[f]],
             UNCHANGED desired, f \in Powered => f \notin inflight,
             \/ inflight' = inflight /\ pending \ {f} \subseteq pending'
             \/ /\ inflight' \subseteq inflight \cup {f}
                /\ pending \ {f} \subseteq pending'
                /\ f \in inflight' => f \in inflight \/ seen[f] = desired[f]
      PROVE  InflightIsLatest'
  <2>1. ASSUME NEW g \in inflight' \ (pending' \cup Deferred \cup BbwFields)
        PROVE  accepted'[g] = desired'[g]
    <3>1. g \in Fields /\ g \in Powered
      BY <1>9, <2>1, <1>a, <1>b
    <3>2. CASE g = f
      BY <1>9, <2>1, <3>1, <3>2, <1>b DEF Settings
    <3>3. CASE g # f
      BY <1>9, <2>1, <3>1, <3>3, <1>b DEF Settings
    <3> QED BY <3>2, <3>3
  <2> QED BY <2>1
<1>10. ASSUME NEW f \in Fields, AcceptedWaits(f) \/ AcceptedApplied(f)
       PROVE  InflightIsLatest'
  <2>1. /\ busy /\ todo # <<>> /\ (pc \in Stages \/ pc = "ble") /\ f = FieldOf(Head(todo))
        /\ UNCHANGED desired /\ accepted' = [accepted EXCEPT ![f] = seen[f]]
    BY <1>10 DEF AcceptedWaits, AcceptedApplied, Accepted, PlanOK, shown
  <2>2. f \in Powered => f = Head(todo)
    BY <2>1, PowerlessSteps DEF FieldOf
  <2>3. f \in Powered => f \notin inflight
    BY <2>1, <2>2, HeadIsUnsent DEF Unsent
  <2>4. CASE AcceptedWaits(f)
    BY <2>1, <2>3, <2>4, <1>9 DEF AcceptedWaits, Completed
  <2>5. CASE AcceptedApplied(f)
    BY <2>1, <2>3, <2>5, <1>9 DEF AcceptedApplied, Completed
  <2> QED BY <1>10, <2>4, <2>5
<1>11. CASE Take
  BY <1>11, <1>1 DEF Take, shown
<1>12. CASE TopUnselected
  BY <1>12, <1>1 DEF TopUnselected, Unsent, shown
<1>13. CASE TopIdle \/ TopSends \/ TopSyncs
  BY <1>13, <1>1 DEF TopIdle, TopSends, TopSyncs, shown
<1>14. CASE \E outcome \in {"none", "read", "failed"}, loaded \in SUBSET Fields, v \in Settings :
              Merge(outcome, loaded, v)
  BY <1>14, <1>1 DEF Merge
<1>15. CASE PrebrewDone
  <2>1. /\ UNCHANGED <<desired, accepted, inflight>>
        /\ pending' = pending \/ pending' = pending \ BbwFields
    BY <1>15 DEF PrebrewDone, shown
  <2>2. BbwFields \cap Powered = {}
    BY PowerlessSteps DEF BbwFields
  <2> QED BY <2>1, <2>2, <1>1
<1>16. CASE BbwDone \/ WakeDone \/ Choose \/ CloudDone \/ BleDone
  BY <1>16, <1>1 DEF BbwDone, WakeDone, Choose, CloudDone, BleDone, shown
<1>17. CASE BleConnects \/ BleInterrupted \/ BleConnectFails
  BY <1>17, <1>1 DEF BleConnects, BleInterrupted, BleConnectFails, shown
<1>18. CASE BleWritten
  <2>1. /\ pc = "ble" /\ todo # <<>> /\ ~fallback /\ UNCHANGED <<desired, inflight>>
        /\ accepted' = [accepted EXCEPT ![Head(todo)] = seen[Head(todo)]]
        /\ pending \ {Head(todo)} \subseteq pending'
    BY <1>18 DEF BleWritten, BleStep, Completed, shown
  <2>2. todo \in Seq(Fields)
    BY <2>1 DEF PlanOK
  <2>3. Head(todo) \in Fields
    BY <2>1, <2>2
  <2>4. Head(todo) \in Powered => Head(todo) \notin inflight
    BY <2>1, HeadIsUnsent DEF Unsent
  <2> QED BY <2>1, <2>3, <2>4, <1>9
<1>19. CASE BleRejected \/ BleUnverified
  BY <1>19, <1>1 DEF BleRejected, BleUnverified, shown
<1> QED BY <1>2, <1>3, <1>4, <1>5, <1>6, <1>7, <1>8, <1>10, <1>11, <1>12, <1>13, <1>14,
   <1>15, <1>16, <1>17, <1>18, <1>19 DEF Next, Controller, Worker, Call

LEMMA AheadHolds == Spec => []AheadOK
<1>1. Init => AheadOK
  BY DEF Init, AheadOK
<1>2. IInv /\ AheadOK /\ [Next]_vars => AheadOK'
  BY InvariantTypes, AheadStep DEF IInv
<1> QED BY <1>1, <1>2, InvariantHolds, PTL DEF Spec

\* A powered field that only waits for its confirmation is one whose latest
\* value was taken, however edits, answers, fallbacks, timeouts and the
\* worker's choice of a transport follow each other.
THEOREM InflightLatest == Spec => []InflightIsLatest
<1>1. Init => InflightIsLatest
  BY DEF Init, InflightIsLatest
<1>2. IInv /\ AheadOK /\ InflightIsLatest /\ [Next]_vars => InflightIsLatest'
  BY InvariantTypes, LatestStep DEF IInv
<1> QED BY <1>1, <1>2, AheadHolds, InvariantHolds, PTL DEF Spec

-----------------------------------------------------------------------------
(* Why a write is forgotten.                                               *)

\* The cases in which the worker gives a write up although no one took its
\* latest value: no machine is selected, the machine reports no support for
\* brew by weight or refuses to leave the prebrewing mode, or a write that BLE
\* did not confirm fails over the cloud as well.
GivenUp(f) ==
  \/ pc = "top"
  \/ pc = "prebrew" /\ f \in BbwFields /\ ~feature
  \/ busy /\ f = "prebrewing"
  \/ Ble = "enabled" /\ fallback /\ f \in {"standby", "temperature"}

\* Every disappearance of a write is one of these or an acceptance of its
\* latest value: no step of another task loses one.
ForgottenOnlyIfAcceptedOrGivenUp ==
  [][\A f \in pending \ pending' : accepted'[f] = desired[f] \/ GivenUp(f)]_vars

\* The BLE stages, and with them the fallback, need BLE.
TransportOK == pc \in {"connect", "ble"} => Ble = "enabled"

LEMMA TransportHolds == Spec => []TransportOK
<1>1. Init => TransportOK
  BY DEF Init, TransportOK
<1>2. TransportOK /\ [Next]_vars => TransportOK'
  <2> SUFFICES ASSUME TransportOK, [Next]_vars PROVE TransportOK'
    OBVIOUS
  <2> USE DEF TransportOK
  <2>1. CASE UNCHANGED pc
    BY <2>1
  <2>2. CASE Controller \/ Websocket \/ Surroundings
    BY <2>2, <2>1 DEF Controller, QueueValues, RequestSync, Websocket, LiveUpdatesUp,
       LiveUpdatesDown, WebsocketDisconnected, CommandSucceeded, CommandFailed, DashboardValues,
       Surroundings, AcksOverdue, BackoffOver, BleDisconnected
  <2>3. CASE Call
    BY <2>3, <2>1 DEF Call, CallBegins, HelperAccepted, CallFails, AcceptedWaits,
       AcceptedApplied, Accepted
  <2>4. CASE Take \/ TopIdle \/ TopUnselected \/ TopSends \/ TopSyncs
    BY <2>4 DEF Take, TopIdle, TopUnselected, TopSends, TopSyncs, Leave, Goto
  <2>5. CASE \E outcome \in {"none", "read", "failed"}, loaded \in SUBSET Fields, v \in Settings :
               Merge(outcome, loaded, v)
    BY <2>5 DEF Merge, Leave, Goto
  <2>6. CASE PrebrewDone \/ BbwDone \/ WakeDone \/ CloudDone \/ BleDone
    BY <2>6 DEF PrebrewDone, BbwDone, WakeDone, CloudDone, BleDone, Leave, Goto
  <2>7. CASE Choose \/ BleConnects \/ BleInterrupted \/ BleConnectFails
    BY <2>7 DEF Choose, BleConnects, BleInterrupted, BleConnectFails, SendViaCloud, Leave, Goto
  <2>8. CASE BleWritten \/ BleRejected \/ BleUnverified
    BY <2>8, <2>1 DEF BleWritten, BleRejected, BleUnverified
  <2> QED BY <2>1, <2>2, <2>3, <2>4, <2>5, <2>6, <2>7, <2>8 DEF Next, Worker, vars
<1> QED BY <1>1, <1>2, PTL DEF Spec

LEMMA ForgottenStep ==
  ASSUME IInv, TransportOK, [Next]_vars, NEW f \in pending \ pending'
  PROVE  accepted'[f] = desired[f] \/ GivenUp(f)
<1> USE DEF GivenUp
<1>a. f \in Fields /\ accepted \in Settings /\ f \in pending /\ f \notin pending'
  BY DEF IInv, SetsOK, SettingsOK
<1>b. ASSUME NEW g \in Fields, accepted' = [accepted EXCEPT ![g] = seen[g]],
             f \in Completed(g)
      PROVE  accepted'[f] = desired[f]
  BY <1>a, <1>b DEF Completed, Settings
<1>1. CASE UNCHANGED pending
  BY <1>1, <1>a
<1>2. CASE Controller
  BY <1>2, <1>a DEF Controller, QueueValues, RequestSync
<1>3. CASE Websocket \/ Surroundings
  BY <1>3, <1>1 DEF Websocket, LiveUpdatesUp, LiveUpdatesDown, WebsocketDisconnected,
     CommandSucceeded, CommandFailed, DashboardValues, Surroundings, AcksOverdue, BackoffOver,
     BleDisconnected
<1>4. CASE CallBegins \/ HelperAccepted
  BY <1>4, <1>1 DEF CallBegins, HelperAccepted
<1>5. ASSUME NEW status412 \in BOOLEAN, CallFails(status412)
      PROVE  GivenUp(f)
  <2>1. busy /\ f \in DroppedByFailure(Head(todo), status412)
    BY <1>5, <1>a DEF CallFails
  <2>2. CASE f = "prebrewing"
    BY <2>1, <2>2
  <2>3. CASE f # "prebrewing"
    <3>1. fallback /\ f \in {"standby", "temperature"}
      BY <2>1, <2>3 DEF DroppedByFailure, Completed
    <3>2. Ble = "enabled"
      BY <3>1 DEF IInv, PlanOK, TransportOK
    <3> QED BY <3>1, <3>2
  <2> QED BY <2>2, <2>3
<1>6. ASSUME NEW g \in Fields, AcceptedWaits(g) \/ AcceptedApplied(g)
      PROVE  accepted'[f] = desired[f]
  <2>1. f \in Completed(g)
    BY <1>6, <1>a DEF AcceptedWaits, AcceptedApplied
  <2> QED BY <1>6, <2>1, <1>b DEF AcceptedWaits, AcceptedApplied, Accepted
<1>7. CASE Take \/ TopIdle \/ TopUnselected \/ TopSends \/ TopSyncs
  BY <1>7, <1>1 DEF Take, TopIdle, TopUnselected, TopSends, TopSyncs
<1>8. CASE \E outcome \in {"none", "read", "failed"}, loaded \in SUBSET Fields, v \in Settings :
             Merge(outcome, loaded, v)
  BY <1>8, <1>1 DEF Merge
<1>9. CASE PrebrewDone
  BY <1>9, <1>a DEF PrebrewDone
<1>10. CASE BbwDone \/ WakeDone \/ Choose \/ CloudDone \/ BleDone
  BY <1>10, <1>1 DEF BbwDone, WakeDone, Choose, CloudDone, BleDone
<1>11. CASE BleConnects \/ BleInterrupted \/ BleConnectFails
  BY <1>11, <1>1 DEF BleConnects, BleInterrupted, BleConnectFails
<1>12. CASE BleWritten
  <2>1. /\ pc = "ble" /\ todo # <<>> /\ ~fallback
        /\ accepted' = [accepted EXCEPT ![Head(todo)] = seen[Head(todo)]]
        /\ f \in Completed(Head(todo))
    BY <1>12, <1>a DEF BleWritten, BleStep
  <2>2. f = Head(todo)
    BY <2>1 DEF Completed
  <2> QED BY <2>1, <2>2, <1>a, <1>b
<1>13. CASE BleRejected \/ BleUnverified
  BY <1>13, <1>1 DEF BleRejected, BleUnverified
<1> QED BY <1>1, <1>2, <1>3, <1>4, <1>5, <1>6, <1>7, <1>8, <1>9, <1>10, <1>11, <1>12, <1>13
   DEF Next, Worker, Call, vars

\* In every configuration a write leaves `pending' only when the machine or
\* the cloud has taken its latest value, or in one of the cases of GivenUp.
THEOREM WritesForgotten == Spec => ForgottenOnlyIfAcceptedOrGivenUp
<1>1. IInv /\ TransportOK /\ [Next]_vars =>
        [\A f \in pending \ pending' : accepted'[f] = desired[f] \/ GivenUp(f)]_vars
  BY ForgottenStep
<1> QED BY <1>1, InvariantHolds, TransportHolds, PTL DEF Spec, ForgottenOnlyIfAcceptedOrGivenUp

\* Where writes cannot fall back from BLE to the cloud - over the cloud alone,
\* or for steam, whose fallback is not dropped - and no brew-by-weight or
\* prebrewing field is looked at, nothing but a missing machine makes the
\* worker forget a write whose latest value was not taken.  With standby or
\* temperature over BLE it does: the fallback run shows it.
THEOREM CompletedAccepted ==
  ASSUME Fields \subseteq BleFields, Ble = "enabled" => Fields \subseteq {"steam"}
  PROVE  Spec => CompletedOnlyIfAccepted
<1>1. IInv /\ TransportOK /\ [Next]_vars =>
        [\A f \in pending \ pending' : accepted'[f] = desired[f] \/ pc = "top"]_vars
  <2> SUFFICES ASSUME IInv, TransportOK, [Next]_vars, NEW f \in pending \ pending'
               PROVE  accepted'[f] = desired[f] \/ pc = "top"
    OBVIOUS
  <2>1. f \in BleFields /\ (Ble = "enabled" => f = "steam")
    BY DEF IInv, SetsOK
  <2>2. f # "prebrewing" /\ f \notin BbwFields
    BY <2>1 DEF BleFields, BbwFields
  <2>3. Ble = "enabled" => f \notin {"standby", "temperature"}
    BY <2>1
  <2> QED BY <2>2, <2>3, ForgottenStep DEF GivenUp
<1> QED BY <1>1, InvariantHolds, TransportHolds, PTL DEF Spec, CompletedOnlyIfAccepted
=============================================================================
