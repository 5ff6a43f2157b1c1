-------------------------- MODULE ScaleCore_proofs --------------------------
(***************************************************************************)
(* Proofs about ScaleCore, for every queue size, timeout and bound.        *)
(*                                                                         *)
(* Every step leaves the control queue alone, ages it, replaces its head,  *)
(* appends to it, or drops its head; the lemmas about the queue say what a *)
(* step of each kind keeps, and the lemmas about the invariants use them.  *)
(***************************************************************************)
EXTENDS ScaleCore, TLAPS

USE CoreAssumption DEF CoreAssumption

LEMMA OlderType ==
  ASSUME NEW limit \in Nat, NEW age \in 0 .. limit + 1
  PROVE  Older(age, limit) \in 0 .. limit + 1
BY DEF Older

LEMMA AdvanceType == TypeOK /\ Advance => TypeOK'
<1> SUFFICES ASSUME TypeOK, Advance PROVE TypeOK'
  OBVIOUS
<1> USE DEF TypeOK, Advance
<1>1. weightAge' \in 0 .. FreshMs + 1
  BY OlderType
<1>2. controls' \in Seq(Transaction) /\ Len(controls') <= ControlLimit
  <2>1. ASSUME NEW i \in DOMAIN controls
        PROVE  [controls[i] EXCEPT !.age = IF controls[i].sent THEN Older(@, AckMs) ELSE @]
                 \in Transaction
    <3>1. controls[i] \in Transaction
      OBVIOUS
    <3>2. Older(controls[i].age, AckMs) \in 0 .. AckMs + 1
      BY <3>1, OlderType DEF Transaction
    <3> QED BY <3>1, <3>2 DEF Transaction
  <2>2. DOMAIN controls' = 1 .. Len(controls)
    OBVIOUS
  <2> QED BY <2>1, <2>2
<1>3. replies' \in Seq(Reply) /\ Len(replies') <= ReplyLimit
  <2>1. ASSUME NEW i \in DOMAIN replies
        PROVE  [replies[i] EXCEPT !.age = Older(@, FreshMs)] \in Reply
    <3>1. replies[i] \in Reply
      OBVIOUS
    <3>2. Older(replies[i].age, FreshMs) \in 0 .. FreshMs + 1
      BY <3>1, OlderType DEF Reply
    <3> QED BY <3>1, <3>2 DEF Reply
  <2>2. DOMAIN replies' = 1 .. Len(replies)
    OBVIOUS
  <2> QED BY <2>1, <2>2
<1> QED
  BY <1>1, <1>2, <1>3 DEF sourceVars, gatewayVars, idVars, driverVars, physicalVars

LEMMA QueueReplyType ==
  ASSUME TypeOK, NEW id \in 0 .. MaxId, QueueReply(id)
  PROVE  /\ replies' \in Seq(Reply) /\ Len(replies') <= ReplyLimit
         /\ error' \in Errors \cup {NoError}
<1>1. [id |-> id, age |-> 0] \in Reply
  BY DEF Reply
<1>2. CASE Len(replies) = ReplyLimit
  BY <1>2 DEF QueueReply, Fail, TypeOK, Errors
<1>3. CASE Len(replies) # ReplyLimit
  <2>1. replies' = Append(replies, [id |-> id, age |-> 0]) /\ error' = error
    BY <1>3 DEF QueueReply
  <2>2. Len(replies) + 1 <= ReplyLimit
    BY <1>3 DEF TypeOK
  <2> QED BY <1>1, <2>1, <2>2 DEF TypeOK
<1> QED BY <1>2, <1>3

LEMMA AckType ==
  ASSUME TypeOK, NEW op, AckEvent(op)
  PROVE  controls' \in Seq(Transaction) /\ Len(controls') <= ControlLimit
<1>1. CASE Matches(op)
  <2>1. controls # <<>> /\ controls[1] \in Transaction
    BY <1>1 DEF Matches, TypeOK
  <2>2. controls' = [controls EXCEPT ![1] = [controls[1] EXCEPT !.acknowledged = TRUE,
                      !.ackDelay = IF controls[1].acknowledged THEN @ ELSE controls[1].age]]
    BY <1>1, <2>1 DEF AckEvent, TypeOK
  <2>3. [controls[1] EXCEPT !.acknowledged = TRUE,
           !.ackDelay = IF controls[1].acknowledged THEN @ ELSE controls[1].age] \in Transaction
    BY <2>1 DEF Transaction
  <2> QED BY <2>1, <2>2, <2>3 DEF TypeOK
<1>2. CASE ~Matches(op)
  BY <1>2 DEF AckEvent, TypeOK
<1> QED BY <1>1, <1>2

LEMMA SampleType ==
  ASSUME TypeOK, SampleTaken
  PROVE  controls' \in Seq(Transaction) /\ Len(controls') <= ControlLimit
<1>1. CASE controls # <<>> /\ IsFirstTareSample(controls[1])
  <2>1. controls[1] \in Transaction
    BY <1>1 DEF TypeOK
  <2>2. [controls[1] EXCEPT !.sampled = TRUE, !.sampleDelay = controls[1].age] \in Transaction
    BY <2>1 DEF Transaction
  <2>3. controls' = [controls EXCEPT ![1] =
             [controls[1] EXCEPT !.sampled = TRUE, !.sampleDelay = controls[1].age]]
    BY <1>1 DEF SampleTaken, TypeOK
  <2> QED BY <1>1, <2>2, <2>3 DEF TypeOK
<1>2. CASE ~(controls # <<>> /\ IsFirstTareSample(controls[1]))
  BY <1>2 DEF SampleTaken, TypeOK
<1> QED BY <1>1, <1>2

LEMMA EvidenceType ==
  ASSUME NEW c \in Transaction, ~c.delivering
  PROVE  /\ SampledAndAcked(c) \in Transaction
         /\ SampledAndAcked(c).id = c.id /\ SampledAndAcked(c).command = c.command
         /\ SampledAndAcked(c).operation = c.operation
         /\ SampledAndAcked(c).sent = c.sent /\ SampledAndAcked(c).acknowledged
         /\ ~SampledAndAcked(c).delivering /\ SampledAndAcked(c).resetFirst = c.resetFirst
<1> DEFINE s == IF IsFirstTareSample(c)
                THEN [c EXCEPT !.sampled = TRUE, !.sampleDelay = c.age] ELSE c
           h == [s EXCEPT !.acknowledged = TRUE, !.ackDelay = IF c.acknowledged THEN @ ELSE c.age]
<1>1. s \in Transaction /\ s.id = c.id /\ s.command = c.command /\ s.operation = c.operation
  BY DEF Transaction
<1>2. s.sent = c.sent
  BY DEF Transaction
<1>3. ~s.delivering
  BY DEF Transaction
<1>4. s.resetFirst = c.resetFirst
  BY DEF Transaction
<1>5. SampledAndAcked(c) = h
  BY DEF SampledAndAcked
<1> HIDE DEF s
<1>6. h \in Transaction /\ h.id = s.id /\ h.command = s.command /\ h.operation = s.operation
  BY <1>1 DEF Transaction
<1>7. h.sent = s.sent
  BY <1>1 DEF Transaction
<1>8. h.delivering = s.delivering
  BY <1>1 DEF Transaction
<1>9. h.resetFirst = s.resetFirst
  BY <1>1 DEF Transaction
<1>10. h.acknowledged
  BY <1>1 DEF Transaction
<1> HIDE DEF h
<1> QED BY <1>1, <1>2, <1>3, <1>4, <1>5, <1>6, <1>7, <1>8, <1>9, <1>10

LEMMA SourceType == TypeOK /\ Source => TypeOK'
<1> SUFFICES ASSUME TypeOK, Source PROVE TypeOK'
  OBVIOUS
<1> USE DEF sourceVars, gatewayVars, idVars, driverVars, physicalVars
<1>1. CASE ReadyEvent \/ InvalidEvent
  BY <1>1 DEF TypeOK, ReadyEvent, InvalidEvent, Fail, Errors
<1>2. ASSUME WeightArrives, controls' \in Seq(Transaction) /\ Len(controls') <= ControlLimit,
             performed' \in Seq(Commands), pending' \in Commands \cup {NoOperation}
      PROVE  TypeOK'
  <2>1. UnsentTare \in BOOLEAN /\ TarePending \in BOOLEAN
    BY DEF UnsentTare, TarePending
  <2>2. weightPending' \in BOOLEAN
    BY <1>2, <2>1 DEF WeightArrives, TypeOK
  <2> QED BY <1>2, <2>1, <2>2 DEF WeightArrives, TypeOK
<1>3. CASE WeightEvent
  <2>1. UNCHANGED <<pending, performed>>
    BY <1>3 DEF WeightEvent
  <2> QED BY <1>2, <1>3, <2>1, SampleType DEF WeightEvent, TypeOK
<1>4. CASE WeightConfirms
  <2>1. pending \in Commands
    BY <1>4 DEF WeightConfirms, TypeOK
  <2>2. performed' \in Seq(Commands)
    BY <1>4, <2>1 DEF WeightConfirms, TypeOK
  <2>3. CASE Matches(pending)
    <3>1. controls # <<>> /\ controls[1] \in Transaction /\ ~controls[1].delivering
      BY <2>3 DEF Matches, TypeOK
    <3>2. SampledAndAcked(controls[1]) \in Transaction
      BY <3>1, EvidenceType
    <3>3. controls' = [controls EXCEPT ![1] = SampledAndAcked(controls[1])]
      BY <1>4, <2>3 DEF WeightConfirms
    <3>4. controls' \in Seq(Transaction) /\ Len(controls') <= ControlLimit
      BY <3>1, <3>2, <3>3 DEF TypeOK
    <3> QED BY <1>2, <1>4, <2>2, <3>4 DEF WeightConfirms
  <2>4. CASE ~Matches(pending)
    BY <1>2, <1>4, <2>2, <2>4, SampleType DEF WeightConfirms
  <2> QED BY <2>3, <2>4
<1>5. CASE SourceAnswers
  <2>1. wire[1] \in Write /\ Tail(wire) \in Seq(Write)
    BY <1>5 DEF SourceAnswers, TypeOK
  <2>2. performed' \in Seq(Commands)
    BY <1>5, <2>1 DEF SourceAnswers, RecordConfirmation, TypeOK, Write
  <2>3. controls' \in Seq(Transaction) /\ Len(controls') <= ControlLimit
    BY <1>5, AckType DEF SourceAnswers
  <2>4. pending' \in Commands \cup {NoOperation}
    BY <1>5 DEF SourceAnswers, PendingAfter, TypeOK
  <2> QED BY <1>5, <2>1, <2>2, <2>3, <2>4 DEF SourceAnswers, TypeOK
<1>6. CASE SourceOmitsAnswer
  <2>1. wire' \in Seq(Write)
    BY <1>6 DEF SourceOmitsAnswer, TypeOK
  <2> QED BY <1>6, <2>1 DEF SourceOmitsAnswer, TypeOK
<1> QED BY <1>1, <1>3, <1>4, <1>5, <1>6 DEF Source

LEMMA UnansweredType ==
  ASSUME NEW id \in 1 .. MaxId, NEW c \in Commands, NEW op \in Commands,
         NEW resetFirst \in BOOLEAN, NEW sent \in BOOLEAN
  PROVE  Unanswered(id, c, op, resetFirst, sent) \in Transaction
BY DEF Unanswered, Transaction

LEMMA NewTransactionType ==
  ASSUME TypeOK, NEW c \in Commands, nextId < MaxId
  PROVE  NewTransaction(c) \in Transaction
<1>1. OperationsOf(c)[1] \in Commands
  BY DEF OperationsOf, Commands
<1>2. nextId + 1 \in 1 .. MaxId /\ (c = "start") \in BOOLEAN
  BY DEF TypeOK
<1> QED BY <1>1, <1>2, UnansweredType DEF NewTransaction

LEMMA GatewayType == TypeOK /\ Gateway => TypeOK'
<1> SUFFICES ASSUME TypeOK, Gateway PROVE TypeOK'
  OBVIOUS
<1> USE DEF sourceVars, gatewayVars, idVars, driverVars, physicalVars
<1>1. CASE RejectCommand
  BY <1>1 DEF TypeOK, RejectCommand, Fail, Errors
<1>2. TarePending \in BOOLEAN
  BY DEF TarePending
<1>3. CASE Pair
  <2>1. paired' \in BOOLEAN /\ streaming' \in BOOLEAN /\ weightPending' \in BOOLEAN
    BY <1>3 DEF Pair
  <2>2. QueueReply(0) /\ 0 \in 0 .. MaxId
    BY <1>3 DEF Pair
  <2> QED BY <1>3, <2>1, <2>2, QueueReplyType DEF TypeOK, Pair
<1>4. CASE StartStream
  BY <1>2, <1>4 DEF TypeOK, StartStream
<1>5. ASSUME NEW endsStream \in BOOLEAN, ApplySetting(endsStream) PROVE TypeOK'
  <2>1. streaming' \in BOOLEAN /\ weightPending' \in BOOLEAN
    BY <1>5 DEF ApplySetting, TypeOK
  <2>2. QueueReply(0) /\ 0 \in 0 .. MaxId
    BY <1>5 DEF ApplySetting
  <2> QED BY <1>5, <2>1, <2>2, QueueReplyType DEF TypeOK, ApplySetting
<1>6. ASSUME NEW c \in Commands, RequestControl(c) PROVE TypeOK'
  <2>1. NewTransaction(c) \in Transaction
    BY <1>6, NewTransactionType DEF RequestControl
  <2>2. controls' \in Seq(Transaction) /\ Len(controls') <= ControlLimit
    BY <1>6, <2>1 DEF RequestControl, HasSlot, TypeOK
  <2>3. weightPending' \in BOOLEAN /\ staleSample' \in BOOLEAN
    BY <1>6 DEF RequestControl, TypeOK
  <2>4. nextId' \in 0 .. MaxId /\ lastId' \in 0 .. MaxId /\ lastCommand' \in Commands
    BY <1>6 DEF RequestControl, TypeOK
  <2> QED BY <1>6, <2>2, <2>3, <2>4 DEF RequestControl, TypeOK
<1> QED BY <1>1, <1>3, <1>4, <1>5, <1>6 DEF Gateway

LEMMA TickType == TypeOK /\ Tick => TypeOK'
<1> SUFFICES ASSUME TypeOK, Tick PROVE TypeOK'
  OBVIOUS
<1> USE DEF sourceVars, gatewayVars, idVars, driverVars, physicalVars
<1>1. CASE TickSourceFails \/ TickUnconfirmed
  BY <1>1 DEF TypeOK, TickSourceFails, TickUnconfirmed, Fail, Errors
<1>2. CASE TickWrites
  <2> DEFINE c == controls[1]
             op == IF ResetDone(c) THEN "start" ELSE c.operation
             rf == c.resetFirst /\ ~ResetDone(c)
             next == Unanswered(c.id, c.command, op, rf, TRUE)
  <2>1. controls # <<>> /\ c \in Transaction
    BY <1>2 DEF TickWrites, HasActive, TypeOK
  <2>2. op \in Commands /\ c.id \in 1 .. MaxId
    BY <2>1 DEF Transaction, Commands
  <2>3. next \in Transaction
    <3>1. rf \in BOOLEAN /\ c.command \in Commands
      BY <2>1 DEF Transaction
    <3> HIDE DEF op, rf
    <3> QED BY <2>2, <3>1, UnansweredType
  <2>4. controls' = [controls EXCEPT ![1] = next]
    BY <1>2 DEF TickWrites
  <2>5. wire' \in Seq(Write)
    <3>1. [id |-> c.id, operation |-> op] \in Write
      BY <2>2 DEF Write
    <3>2. wire' = Append(wire, [id |-> c.id, operation |-> op]) \/ wire' = wire
      BY <1>2 DEF TickWrites, WriteTaken
    <3>3. CASE wire' = wire
      BY <3>3 DEF TypeOK
    <3>4. CASE wire' = Append(wire, [id |-> c.id, operation |-> op])
      BY <3>1, <3>4 DEF TypeOK
    <3> QED BY <3>2, <3>3, <3>4
  <2>6. error' \in Errors \cup {NoError} /\ staleSample' \in BOOLEAN
    BY <1>2 DEF TickWrites, Fail, Errors, TypeOK
  <2>7. controls' \in Seq(Transaction) /\ Len(controls') <= ControlLimit
    <3> HIDE DEF next, c
    <3> QED BY <2>1, <2>3, <2>4 DEF TypeOK
  <2>8. pending' \in Commands \cup {NoOperation}
    <3>1. pending' = op \/ pending' = NoOperation \/ pending' = pending
      BY <1>2 DEF TickWrites, WriteTaken
    <3> QED BY <2>2, <3>1 DEF TypeOK
  <2> QED BY <1>2, <2>5, <2>6, <2>7, <2>8 DEF TickWrites, TypeOK
<1>3. CASE TickAnswers
  <2>1. controls # <<>> /\ controls[1] \in Transaction
    BY <1>3 DEF TickAnswers, HasActive, TypeOK
  <2>2. QueueReply(controls[1].id) /\ controls[1].id \in 0 .. MaxId
    BY <1>3, <2>1 DEF TickAnswers, Transaction
  <2>3. [controls[1] EXCEPT !.delivering = TRUE] \in Transaction
    BY <2>1 DEF Transaction
  <2>4. controls' \in Seq(Transaction) /\ Len(controls') <= ControlLimit
    <3>1. CASE Len(replies) = ReplyLimit
      BY <1>3, <3>1 DEF TickAnswers, TypeOK
    <3>2. CASE Len(replies) # ReplyLimit
      <4>1. controls' = [controls EXCEPT ![1] = [controls[1] EXCEPT !.delivering = TRUE]]
        BY <1>3, <2>1, <3>2 DEF TickAnswers, TypeOK
      <4> QED BY <2>1, <2>3, <4>1 DEF TypeOK
    <3> QED BY <3>1, <3>2
  <2>5. weightPending' \in BOOLEAN
    BY <1>3 DEF TickAnswers, TypeOK
  <2> QED BY <1>3, <2>2, <2>4, <2>5, QueueReplyType DEF TickAnswers, TypeOK
<1> QED BY <1>1, <1>2, <1>3 DEF Tick

LEMMA DeliveryType ==
  TypeOK /\ (DeliverReply \/ DeliverWeight \/ EndGateway \/ Stop) => TypeOK'
<1> SUFFICES ASSUME TypeOK, DeliverReply \/ DeliverWeight \/ EndGateway \/ Stop
             PROVE  TypeOK'
  OBVIOUS
<1> USE DEF sourceVars, gatewayVars, idVars, driverVars, physicalVars
<1>1. CASE DeliverReply
  <2>1. replies' \in Seq(Reply) /\ Len(replies') <= ReplyLimit
    BY <1>1 DEF DeliverReply, TypeOK
  <2>2. /\ controls' \in Seq(Transaction) /\ Len(controls') <= ControlLimit
        /\ performed' \in Seq(Commands)
    <3>1. CASE AnswersHead
      <4>1. controls # <<>> /\ controls' = Tail(controls) /\ performed' = <<>>
        BY <1>1, <3>1 DEF DeliverReply, AnswersHead
      <4>2. controls' \in Seq(Transaction) /\ Len(controls') <= ControlLimit
        BY <4>1 DEF TypeOK
      <4> QED BY <4>1, <4>2
    <3>2. CASE ~AnswersHead
      BY <1>1, <3>2 DEF DeliverReply, TypeOK
    <3> QED BY <3>1, <3>2
  <2> QED BY <1>1, <2>1, <2>2 DEF DeliverReply, TypeOK
<1>2. CASE DeliverWeight
  BY <1>2 DEF DeliverWeight, TypeOK
<1>3. CASE EndGateway
  <2>1. paired' \in BOOLEAN /\ streaming' \in BOOLEAN /\ weightPending' \in BOOLEAN
    BY <1>3 DEF EndGateway
  <2> QED BY <1>3, <2>1 DEF EndGateway, TypeOK
<1>4. CASE Stop
  <2>1. /\ ready' \in BOOLEAN /\ hasWeight' \in BOOLEAN /\ paired' \in BOOLEAN
        /\ streaming' \in BOOLEAN /\ weightPending' \in BOOLEAN /\ staleSample' \in BOOLEAN
    BY <1>4 DEF Stop
  <2> QED BY <1>4, <2>1 DEF Stop, TypeOK, Commands
<1> QED BY <1>1, <1>2, <1>3, <1>4

LEMMA TypeInit == Init => TypeOK
<1> SUFFICES ASSUME Init PROVE TypeOK
  OBVIOUS
<1>1. /\ ready \in BOOLEAN /\ hasWeight \in BOOLEAN /\ paired \in BOOLEAN
      /\ streaming \in BOOLEAN /\ weightPending \in BOOLEAN /\ staleSample \in BOOLEAN
  BY DEF Init
<1> QED BY <1>1 DEF Init, TypeOK, Commands

LEMMA TypeStep == TypeOK /\ [Next]_vars => TypeOK'
<1> SUFFICES ASSUME TypeOK, [Next]_vars PROVE TypeOK'
  OBVIOUS
<1>1. CASE UNCHANGED vars
  BY <1>1 DEF vars, TypeOK, sourceVars, gatewayVars, idVars, driverVars, physicalVars
<1>2. CASE Next
  BY <1>2, AdvanceType, SourceType, GatewayType, TickType, DeliveryType DEF Next
<1> QED BY <1>1, <1>2

\* Every variable keeps its type; in particular neither the control queue nor the
\* reply queue of the C arrays ever holds more than its limit.
THEOREM TypeCorrect == Spec => []TypeOK
BY TypeInit, TypeStep, PTL DEF Spec

-----------------------------------------------------------------------------
(* What a step does to the control queue.                                  *)

\* Nothing has happened to the transaction since it was queued.
Untouched(c) == ~c.sent /\ ~c.acknowledged /\ ~c.delivering /\ ~c.sampled

\* The head is replaced by h, for the same request, whose operation is written.
HeadBecomes(h) ==
  /\ controls # <<>> /\ Len(controls') = Len(controls) /\ controls'[1] = h
  /\ \A i \in 2 .. Len(controls) : controls'[i] = controls[i]
  /\ h.id = controls[1].id /\ h.command = controls[1].command /\ h.sent

LEMMA HeadReplaced ==
  ASSUME TypeOK, NEW h, controls # <<>>, controls' = [controls EXCEPT ![1] = h],
         h.id = controls[1].id, h.command = controls[1].command, h.sent
  PROVE  HeadBecomes(h) /\ controls[1] \in Transaction
<1> HIDE DEF Transaction
<1>1. controls \in Seq(Transaction)
  BY DEF TypeOK
<1>2. Len(controls') = Len(controls) /\ controls'[1] = h
  BY <1>1
<1>3. \A i \in 2 .. Len(controls) : controls'[i] = controls[i]
  BY <1>1
<1>4. controls[1] \in Transaction
  BY <1>1
<1> QED BY <1>2, <1>3, <1>4 DEF HeadBecomes

\* The new head is in the same phase as the old one.
SamePhase(h) ==
  /\ h.acknowledged = controls[1].acknowledged
  /\ h.operation = controls[1].operation /\ h.resetFirst = controls[1].resetFirst
  /\ h.sent = controls[1].sent

LEMMA AckHead ==
  ASSUME TypeOK, NEW op, AckEvent(op), Matches(op)
  PROVE  \E h : HeadBecomes(h) /\ ~h.delivering /\ ~controls[1].delivering /\ h.sampled = controls[1].sampled
<1> DEFINE c == controls[1]
           h == [c EXCEPT !.acknowledged = TRUE, !.ackDelay = IF c.acknowledged THEN @ ELSE c.age]
<1>1. controls # <<>> /\ c \in Transaction /\ c.sent /\ ~c.delivering
  BY DEF Matches, TypeOK
<1>2. controls' = [controls EXCEPT ![1] = h]
  BY <1>1 DEF AckEvent, TypeOK
<1>3. h.id = c.id /\ h.command = c.command
  BY <1>1 DEF Transaction
<1>4. h.sent
  BY <1>1 DEF Transaction
<1>5. ~h.delivering
  BY <1>1 DEF Transaction
<1>6. h.sampled = c.sampled
  BY <1>1 DEF Transaction
<1> HIDE DEF h
<1>7. HeadBecomes(h)
  BY <1>1, <1>2, <1>3, <1>4, HeadReplaced
<1> QED BY <1>1, <1>5, <1>6, <1>7

LEMMA SampleHead ==
  ASSUME TypeOK, SampleTaken, controls # <<>>, IsFirstTareSample(controls[1])
  PROVE  \E h : HeadBecomes(h) /\ ~h.delivering /\ ~controls[1].delivering /\ SamePhase(h)
<1> DEFINE c == controls[1]
           h == [c EXCEPT !.sampled = TRUE, !.sampleDelay = c.age]
<1>1. c \in Transaction /\ c.sent /\ ~c.delivering
  BY DEF IsFirstTareSample, TypeOK
<1>2. controls' = [controls EXCEPT ![1] = h]
  BY <1>1 DEF SampleTaken, TypeOK
<1>3. h.id = c.id /\ h.command = c.command /\ h.operation = c.operation
  BY <1>1 DEF Transaction
<1>4. h.sent = c.sent
  BY <1>1 DEF Transaction
<1>5. ~h.delivering
  BY <1>1 DEF Transaction
<1>6. h.acknowledged = c.acknowledged
  BY <1>1 DEF Transaction
<1>7. h.resetFirst = c.resetFirst
  BY <1>1 DEF Transaction
<1> HIDE DEF h
<1>8. HeadBecomes(h)
  BY <1>1, <1>2, <1>3, <1>4, HeadReplaced
<1> QED BY <1>1, <1>3, <1>4, <1>5, <1>6, <1>7, <1>8 DEF SamePhase

\* Evidence that a weight brings, or only the sample.
LEMMA ConfirmHead ==
  ASSUME TypeOK, WeightConfirms, controls' # controls
  PROVE  \E h : HeadBecomes(h) /\ ~h.delivering /\ ~controls[1].delivering
<1>1. CASE Matches(pending)
  <2>1. controls # <<>> /\ controls[1] \in Transaction /\ controls[1].sent /\ ~controls[1].delivering
    BY <1>1 DEF Matches, TypeOK
  <2> DEFINE h == SampledAndAcked(controls[1])
  <2>2. h.id = controls[1].id /\ h.command = controls[1].command /\ h.sent /\ ~h.delivering
    BY <2>1, EvidenceType
  <2>3. controls' = [controls EXCEPT ![1] = h]
    BY <1>1 DEF WeightConfirms
  <2> HIDE DEF h
  <2> QED BY <2>1, <2>2, <2>3, HeadReplaced
<1>2. CASE ~Matches(pending)
  <2>1. SampleTaken
    BY <1>2 DEF WeightConfirms
  <2> QED BY <2>1, SampleHead DEF SampleTaken
<1> QED BY <1>1, <1>2

LEMMA WriteHead ==
  ASSUME TypeOK, TickWrites
  PROVE  \E h : HeadBecomes(h) /\ ~h.delivering /\ ~h.sampled /\ ~controls[1].delivering
<1> DEFINE c == controls[1]
           op == IF ResetDone(c) THEN "start" ELSE c.operation
           rf == c.resetFirst /\ ~ResetDone(c)
           h == Unanswered(c.id, c.command, op, rf, TRUE)
<1>1. controls # <<>> /\ ~c.delivering
  BY DEF TickWrites, HasActive
<1>2. controls' = [controls EXCEPT ![1] = h]
  BY DEF TickWrites
<1>3. h.id = c.id /\ h.command = c.command /\ h.sent /\ ~h.delivering /\ ~h.sampled
  BY DEF Unanswered
<1> HIDE DEF h
<1>4. HeadBecomes(h)
  BY <1>1, <1>2, <1>3, HeadReplaced
<1> QED BY <1>1, <1>3, <1>4

LEMMA AnswerHead ==
  ASSUME TypeOK, TickAnswers, Len(replies) # ReplyLimit
  PROVE  \E h : /\ HeadBecomes(h) /\ h.delivering /\ EvidenceInTime(h) /\ ~controls[1].delivering
                /\ h.sampled = controls[1].sampled /\ SamePhase(h)
<1> DEFINE c == controls[1]
           h == [c EXCEPT !.delivering = TRUE]
<1>1. controls # <<>> /\ c \in Transaction /\ c.sent /\ ~c.delivering /\ ~Late(c) /\ Evident(c)
  BY DEF TickAnswers, HasActive, TypeOK
<1>2. controls' = [controls EXCEPT ![1] = h]
  BY <1>1 DEF TickAnswers, TypeOK
<1>3. h.id = c.id /\ h.command = c.command /\ h.ackDelay = c.ackDelay /\ h.sampleDelay = c.sampleDelay
      /\ h.operation = c.operation
  BY <1>1 DEF Transaction
<1>4. h.sent = c.sent
  BY <1>1 DEF Transaction
<1>5. h.delivering
  BY <1>1 DEF Transaction
<1>6. h.sampled = c.sampled
  BY <1>1 DEF Transaction
<1>7. h.acknowledged = c.acknowledged
  BY <1>1 DEF Transaction
<1>8. EvidenceInTime(c)
  <2>1. c.ackDelay \in Nat /\ c.sampleDelay \in Nat /\ AckMs \in Nat
    BY <1>1 DEF Transaction
  <2> QED BY <1>1, <2>1 DEF Late, Evident, EvidenceDelay, EvidenceInTime
<1>11. h.resetFirst = c.resetFirst
  BY <1>1 DEF Transaction
<1> HIDE DEF h
<1>9. EvidenceInTime(h)
  BY <1>3, <1>6, <1>7, <1>8 DEF EvidenceInTime
<1>10. HeadBecomes(h)
  BY <1>1, <1>2, <1>3, <1>4, HeadReplaced
<1> QED BY <1>1, <1>3, <1>4, <1>5, <1>6, <1>7, <1>9, <1>10, <1>11 DEF SamePhase

LEMMA AdvanceAges ==
  ASSUME TypeOK, Advance
  PROVE  /\ Len(controls') = Len(controls)
         /\ \A i \in 1 .. Len(controls) :
              /\ controls'[i].id = controls[i].id /\ controls'[i].command = controls[i].command
              /\ controls'[i].sent = controls[i].sent
              /\ controls'[i].acknowledged = controls[i].acknowledged
              /\ controls'[i].delivering = controls[i].delivering
              /\ controls'[i].sampled = controls[i].sampled
              /\ controls'[i].ackDelay = controls[i].ackDelay
              /\ controls'[i].sampleDelay = controls[i].sampleDelay
<1>1. DOMAIN controls = 1 .. Len(controls) /\ Len(controls) \in Nat
  BY DEF TypeOK
<1>2. Len(controls') = Len(controls)
  BY <1>1 DEF Advance
<1>3. ASSUME NEW i \in 1 .. Len(controls)
      PROVE  /\ controls[i] \in Transaction
             /\ controls'[i] = [controls[i] EXCEPT !.age = IF controls[i].sent THEN Older(@, AckMs) ELSE @]
  BY <1>1, <1>3 DEF Advance, TypeOK
<1>4. ASSUME NEW c \in Transaction, NEW d, d = [c EXCEPT !.age = IF c.sent THEN Older(@, AckMs) ELSE @]
      PROVE  d.id = c.id /\ d.command = c.command /\ d.ackDelay = c.ackDelay /\ d.sampleDelay = c.sampleDelay
  BY <1>4 DEF Transaction
<1>5. ASSUME NEW c \in Transaction, NEW d, d = [c EXCEPT !.age = IF c.sent THEN Older(@, AckMs) ELSE @]
      PROVE  d.sent = c.sent /\ d.acknowledged = c.acknowledged /\ d.delivering = c.delivering
             /\ d.sampled = c.sampled
  BY <1>5 DEF Transaction
<1> QED BY <1>2, <1>3, <1>4, <1>5

-----------------------------------------------------------------------------
(* The inductive invariant.                                                *)

\* Only the head has been written; identifiers grow, and the latest request is
\* the last one queued.
QueueOK ==
  /\ \A i \in 1 .. Len(controls) : i > 1 \/ ~controls[i].sent => Untouched(controls[i])
  /\ \A i \in 1 .. Len(controls) : controls[i].id <= nextId
  /\ controls # <<>> =>
       lastId = controls[Len(controls)].id /\ lastCommand = controls[Len(controls)].command
  /\ RetriesCoalesced

\* A sample that is too old is one that a queued tare still waits to replace.
StaleOK ==
  staleSample => \E i \in 1 .. Len(controls) : controls[i].command = "tare" /\ ~controls[i].sampled

IInv == TypeOK /\ QueueOK /\ AnswerMatchesControl /\ ConfirmationJudgedByArrival /\ StaleOK

LEMMA QueueStep == TypeOK /\ QueueOK /\ [Next]_vars => QueueOK'
<1> SUFFICES ASSUME TypeOK, QueueOK, [Next]_vars PROVE QueueOK'
  OBVIOUS
<1> USE DEF QueueOK, RetriesCoalesced
<1> HIDE DEF Transaction
<1>0. /\ controls \in Seq(Transaction) /\ Len(controls) \in Nat /\ nextId \in Nat
      /\ controls # <<>> => Len(controls) >= 1
  BY DEF TypeOK
<1>1. CASE UNCHANGED <<controls, idVars>>
  BY <1>1 DEF idVars
<1>2. CASE Advance
  <2>1. ASSUME NEW i \in 1 .. Len(controls), Untouched(controls[i]) PROVE Untouched(controls'[i])
    BY <1>2, <2>1, AdvanceAges DEF Untouched
  <2>2. controls' # <<>> <=> Len(controls') # 0
    BY <1>0, <1>2 DEF Advance
  <2>3. UNCHANGED idVars
    BY <1>2 DEF Advance
  <2>4. controls' # <<>> => controls # <<>>
    BY <1>0, <1>2, <2>2, AdvanceAges
  <2> QED BY <1>0, <1>2, <2>1, <2>2, <2>3, <2>4, AdvanceAges DEF idVars
<1>3. ASSUME NEW h, HeadBecomes(h), UNCHANGED idVars PROVE QueueOK'
  BY <1>0, <1>3 DEF HeadBecomes, idVars
<1>4. ASSUME NEW c \in Commands, RequestControl(c) PROVE QueueOK'
  <2> DEFINE new == NewTransaction(c)
  <2>1. Untouched(new) /\ new.id = nextId + 1 /\ new.command = c
    BY DEF NewTransaction, Unanswered, Untouched
  <2>2. /\ controls' = Append(controls, new) /\ ~IsRetry(c)
        /\ nextId' = nextId + 1 /\ lastId' = nextId + 1 /\ lastCommand' = c
    BY <1>4 DEF RequestControl
  <2> HIDE DEF new
  <2>3. /\ Len(controls') = Len(controls) + 1 /\ controls'[Len(controls) + 1] = new
        /\ \A i \in 1 .. Len(controls) : controls'[i] = controls[i]
    BY <1>0, <2>2
  <2>4. ASSUME controls # <<>> PROVE controls[Len(controls)].command # c
    <3>1. Len(controls) \in DOMAIN controls /\ controls[Len(controls)] \in Transaction
      BY <1>0, <2>4
    <3>2. controls[Len(controls)].id # 0
      BY <3>1 DEF Transaction
    <3> QED BY <2>2, <2>4, <3>1, <3>2 DEF IsRetry
  <2>5. ASSUME NEW i \in 1 .. Len(controls')
        PROVE  /\ i > 1 \/ ~controls'[i].sent => Untouched(controls'[i])
               /\ controls'[i].id <= nextId'
    <3>1. CASE i = Len(controls')
      <4>1. controls'[i] = new
        BY <1>0, <2>3, <3>1
      <4> QED BY <1>0, <2>1, <2>2, <4>1
    <3>2. CASE i # Len(controls')
      <4>1. i \in 1 .. Len(controls) /\ controls'[i] = controls[i] /\ controls[i] \in Transaction
        BY <1>0, <2>3, <3>2
      <4>2. controls[i].id \in Nat
        BY <4>1 DEF Transaction
      <4> QED BY <1>0, <2>2, <4>1, <4>2
    <3> QED BY <3>1, <3>2
  <2>6. lastId' = controls'[Len(controls')].id /\ lastCommand' = controls'[Len(controls')].command
    <3>1. controls'[Len(controls')] = new
      BY <1>0, <2>3
    <3> QED BY <2>1, <2>2, <3>1
  <2>7. ASSUME NEW i \in 1 .. Len(controls') - 1
        PROVE  controls'[i].command # controls'[i + 1].command /\ controls'[i].id < controls'[i + 1].id
    <3>1. CASE i < Len(controls)
      <4>1. i \in 1 .. Len(controls) - 1 /\ controls'[i] = controls[i] /\ controls'[i + 1] = controls[i + 1]
        BY <1>0, <2>3, <3>1
      <4> QED BY <4>1
    <3>2. CASE i = Len(controls)
      <4>1. controls # <<>> /\ controls'[i] = controls[i] /\ controls'[i + 1] = new /\ controls[i] \in Transaction
        BY <1>0, <2>3, <3>2
      <4>2. controls[i].id \in Nat /\ controls[i].id <= nextId
        BY <1>0, <3>2, <4>1 DEF Transaction
      <4> QED BY <1>0, <2>1, <2>4, <3>2, <4>1, <4>2
    <3> QED BY <1>0, <2>3, <3>1, <3>2
  <2> QED BY <2>5, <2>6, <2>7
<1>5. CASE DeliverReply
  <2>1. CASE AnswersHead
    <3>1. controls # <<>> /\ controls' = Tail(controls) /\ UNCHANGED idVars
      BY <1>5, <2>1 DEF DeliverReply, AnswersHead
    <3>2. /\ Len(controls') = Len(controls) - 1
          /\ \A i \in 1 .. Len(controls) - 1 : controls'[i] = controls[i + 1]
          /\ controls' # <<>> => Len(controls) > 1
      BY <1>0, <3>1
    <3> QED BY <1>0, <3>1, <3>2 DEF idVars
  <2> QED BY <1>1, <1>5, <2>1 DEF DeliverReply
<1>6. CASE controls' = <<>>
  BY <1>6
<1> QED
  <2>1. CASE Source
    BY <2>1, <1>1, <1>3, AckHead, SampleHead, ConfirmHead DEF Source, ReadyEvent, InvalidEvent,
       WeightArrives, WeightEvent, SampleTaken, WeightConfirms, SourceAnswers, SourceOmitsAnswer, AckEvent
  <2>2. CASE Gateway
    BY <2>2, <1>1, <1>4 DEF Gateway, RejectCommand, Pair, StartStream, ApplySetting
  <2>3. CASE Tick
    BY <2>3, <1>1, <1>3, WriteHead, AnswerHead DEF Tick, TickSourceFails, TickUnconfirmed,
       TickWrites, TickAnswers
  <2>4. CASE EndGateway \/ Stop
    BY <2>4, <1>6 DEF EndGateway, Stop
  <2>5. CASE DeliverWeight \/ UNCHANGED vars
    BY <2>5, <1>1 DEF DeliverWeight, vars
  <2> QED BY <2>1, <2>2, <2>3, <2>4, <2>5, <1>2, <1>5 DEF Next

LEMMA Popped ==
  ASSUME TypeOK, QueueOK, DeliverReply, AnswersHead
  PROVE  /\ controls # <<>> /\ Len(controls') = Len(controls) - 1
         /\ \A i \in 1 .. Len(controls) - 1 : controls'[i] = controls[i + 1]
         /\ controls' # <<>> => Untouched(controls'[1])
<1> HIDE DEF Transaction
<1>1. controls # <<>> /\ controls' = Tail(controls) /\ controls \in Seq(Transaction)
  BY DEF DeliverReply, AnswersHead, TypeOK
<1>2. /\ Len(controls') = Len(controls) - 1
      /\ \A i \in 1 .. Len(controls) - 1 : controls'[i] = controls[i + 1]
  BY <1>1
<1>3. ASSUME controls' # <<>> PROVE Untouched(controls'[1])
  <2>1. 2 \in 1 .. Len(controls) /\ controls'[1] = controls[2]
    BY <1>1, <1>3
  <2> QED BY <2>1 DEF QueueOK
<1> QED BY <1>1, <1>2, <1>3

LEMMA JudgedStep ==
  TypeOK /\ QueueOK /\ ConfirmationJudgedByArrival /\ [Next]_vars => ConfirmationJudgedByArrival'
<1> SUFFICES ASSUME TypeOK, QueueOK, ConfirmationJudgedByArrival, [Next]_vars
             PROVE  ConfirmationJudgedByArrival'
  OBVIOUS
<1> USE DEF ConfirmationJudgedByArrival
<1> HIDE DEF Transaction
<1>0. /\ controls \in Seq(Transaction) /\ Len(controls) \in Nat
      /\ controls # <<>> => controls[1] \in Transaction
  BY DEF TypeOK
<1>1. ASSUME UNCHANGED controls, error' = error \/ error' # "unconfirmed"
      PROVE  ConfirmationJudgedByArrival'
  BY <1>1
<1>2. CASE Advance
  <2>1. controls' # <<>> => controls # <<>>
    BY <1>2, <1>0 DEF Advance
  <2>2. controls # <<>> => 1 \in 1 .. Len(controls)
    BY <1>0
  <2>3. ASSUME controls # <<>>
        PROVE  /\ controls'[1].delivering = controls[1].delivering
               /\ EvidenceInTime(controls'[1]) <=> EvidenceInTime(controls[1])
    BY <1>2, <2>2, <2>3, AdvanceAges DEF EvidenceInTime
  <2>4. error' = error
    BY <1>2 DEF Advance
  <2> QED BY <2>1, <2>3, <2>4
<1>3. ASSUME NEW h, HeadBecomes(h), ~h.delivering \/ EvidenceInTime(h),
             error = NoError, error' # "unconfirmed"
      PROVE  ConfirmationJudgedByArrival'
  BY <1>3 DEF HeadBecomes
<1>4. CASE TickUnconfirmed
  <2>1. controls # <<>> /\ controls[1] \in Transaction /\ Late(controls[1]) /\ ~controls[1].delivering
    BY <1>0, <1>4 DEF TickUnconfirmed, HasActive
  <2>2. controls[1].ackDelay \in Nat /\ controls[1].sampleDelay \in Nat
    BY <2>1 DEF Transaction
  <2>3. ~EvidenceInTime(controls[1])
    BY <2>1, <2>2 DEF Late, Evident, EvidenceDelay, EvidenceInTime
  <2> QED BY <1>4, <2>1, <2>3 DEF TickUnconfirmed
<1>5. CASE DeliverReply
  <2>1. CASE AnswersHead
    <3>1. error' # "unconfirmed"
      BY <1>5 DEF DeliverReply, Fresh, NoError
    <3> QED BY <1>5, <2>1, <3>1, Popped DEF Untouched
  <2> QED BY <1>1, <1>5, <2>1 DEF DeliverReply
<1>6. ASSUME NEW c \in Commands, RequestControl(c) PROVE ConfirmationJudgedByArrival'
  <2>1. error' = NoError /\ controls' = Append(controls, NewTransaction(c))
    BY <1>6 DEF RequestControl, Fresh
  <2>2. ~NewTransaction(c).delivering
    BY DEF NewTransaction, Unanswered
  <2>3. (controls'[1] = controls[1] /\ controls # <<>>) \/ controls'[1] = NewTransaction(c)
    BY <1>0, <2>1
  <2> QED BY <2>1, <2>2, <2>3 DEF NoError
<1>7. CASE controls' = <<>>
  BY <1>7
<1>8. ASSUME NEW id, QueueReply(id) PROVE error' = error \/ error' # "unconfirmed"
  BY <1>8 DEF QueueReply, Fail
<1> QED
  <2>1. CASE Source
    <3>1. ASSUME NEW op, AckEvent(op), error = NoError, error' = error PROVE ConfirmationJudgedByArrival'
      BY <3>1, <1>1, <1>3, AckHead DEF AckEvent, NoError
    <3>2. CASE WeightEvent
      BY <3>2, <1>1, <1>3, SampleHead DEF WeightEvent, WeightArrives, SampleTaken, NoError
    <3>3. CASE WeightConfirms
      BY <3>3, <1>1, <1>3, ConfirmHead DEF WeightConfirms, WeightArrives, NoError
    <3> QED BY <2>1, <1>1, <3>1, <3>2, <3>3 DEF Source, ReadyEvent, InvalidEvent, SourceAnswers,
            SourceOmitsAnswer, Fail
  <2>2. CASE Gateway
    BY <2>2, <1>1, <1>6, <1>8 DEF Gateway, RejectCommand, Pair, StartStream, ApplySetting, Fail
  <2>3. CASE Tick
    <3>1. CASE TickWrites
      BY <3>1, <1>3, WriteHead DEF TickWrites, Healthy, Fail, NoError
    <3>2. CASE TickAnswers
      <4>1. error = NoError /\ error' # "unconfirmed"
        BY <3>2 DEF TickAnswers, Healthy, NoError, QueueReply, Fail
      <4> QED BY <3>2, <4>1, <1>1, <1>3, AnswerHead DEF TickAnswers
    <3> QED BY <2>3, <1>1, <1>4, <3>1, <3>2 DEF Tick, TickSourceFails, Fail
  <2>4. CASE EndGateway \/ Stop
    BY <2>4, <1>7 DEF EndGateway, Stop
  <2>5. CASE DeliverWeight \/ UNCHANGED vars
    BY <2>5, <1>1 DEF DeliverWeight, vars
  <2> QED BY <2>1, <2>2, <2>3, <2>4, <2>5, <1>2, <1>5 DEF Next

LEMMA AnswersStep ==
  TypeOK /\ QueueOK /\ AnswerMatchesControl /\ [Next]_vars => AnswerMatchesControl'
<1> SUFFICES ASSUME TypeOK, QueueOK, AnswerMatchesControl, [Next]_vars
             PROVE  AnswerMatchesControl'
  OBVIOUS
<1> USE DEF AnswerMatchesControl, AnswerIds
<1> HIDE DEF Transaction, Reply
<1>0. /\ controls \in Seq(Transaction) /\ Len(controls) \in Nat
      /\ replies \in Seq(Reply) /\ Len(replies) \in Nat /\ DOMAIN replies = 1 .. Len(replies)
      /\ controls # <<>> => controls[1] \in Transaction
  BY DEF TypeOK
\* What a reply that answers no control leaves of the answers.
<1>a. ASSUME NEW id, QueueReply(id), id = 0
      PROVE  AnswerIds' = AnswerIds /\ \A i \in AnswerIds : replies'[i] = replies[i]
  <2>1. CASE replies' = replies
    BY <2>1
  <2>2. CASE replies' = Append(replies, [id |-> 0, age |-> 0])
    <3>1. /\ DOMAIN replies' = 1 .. Len(replies) + 1 /\ replies'[Len(replies) + 1] = [id |-> 0, age |-> 0]
          /\ \A i \in 1 .. Len(replies) : replies'[i] = replies[i]
      BY <1>0, <2>2
    <3> QED BY <1>0, <3>1
  <2> QED BY <1>a, <2>1, <2>2 DEF QueueReply
<1>1. ASSUME UNCHANGED controls, AnswerIds' = AnswerIds,
             \A i \in AnswerIds : replies'[i] = replies[i]
      PROVE  AnswerMatchesControl'
  BY <1>1
<1>2. CASE Advance
  <2>1. /\ DOMAIN replies' = DOMAIN replies
        /\ \A i \in DOMAIN replies : replies'[i].id = replies[i].id
    <3>1. ASSUME NEW r \in Reply PROVE [r EXCEPT !.age = Older(@, FreshMs)].id = r.id
      BY DEF Reply
    <3>2. DOMAIN replies' = DOMAIN replies
      BY <1>2 DEF Advance
    <3>3. ASSUME NEW i \in DOMAIN replies
          PROVE  replies[i] \in Reply /\ replies'[i] = [replies[i] EXCEPT !.age = Older(@, FreshMs)]
      BY <1>0, <1>2 DEF Advance
    <3> QED BY <3>1, <3>2, <3>3
  <2>2. controls' # <<>> <=> controls # <<>>
    BY <1>2, <1>0 DEF Advance
  <2>3. controls # <<>> => 1 \in 1 .. Len(controls)
    BY <1>0
  <2>4. ASSUME controls # <<>>
        PROVE  controls'[1].delivering = controls[1].delivering /\ controls'[1].id = controls[1].id
    BY <1>2, <2>3, <2>4, AdvanceAges
  <2> QED BY <2>1, <2>2, <2>4
<1>3. ASSUME NEW h, HeadBecomes(h), ~h.delivering, ~controls[1].delivering, UNCHANGED replies
      PROVE  AnswerMatchesControl'
  BY <1>3 DEF HeadBecomes
<1>4. ASSUME NEW c \in Commands, RequestControl(c) PROVE AnswerMatchesControl'
  <2>1. replies' = replies /\ controls' = Append(controls, NewTransaction(c))
    BY <1>4 DEF RequestControl
  <2>2. ~NewTransaction(c).delivering
    BY DEF NewTransaction, Unanswered
  <2>3. /\ controls' # <<>>
        /\ controls # <<>> => controls'[1] = controls[1]
        /\ controls = <<>> => controls'[1] = NewTransaction(c)
    BY <1>0, <2>1
  <2> QED BY <2>1, <2>2, <2>3
<1>5. CASE TickAnswers
  <2>1. controls # <<>> /\ ~controls[1].delivering /\ QueueReply(controls[1].id)
    BY <1>5 DEF TickAnswers, HasActive
  <2>2. AnswerIds = {}
    BY <2>1
  <2>3. CASE Len(replies) = ReplyLimit
    BY <1>5, <2>1, <2>3 DEF TickAnswers, QueueReply
  <2>4. CASE Len(replies) # ReplyLimit
    <3>1. replies' = Append(replies, [id |-> controls[1].id, age |-> 0])
      BY <2>1, <2>4 DEF QueueReply
    <3>2. /\ DOMAIN replies' = 1 .. Len(replies) + 1
          /\ replies'[Len(replies) + 1] = [id |-> controls[1].id, age |-> 0]
          /\ \A i \in 1 .. Len(replies) : replies'[i] = replies[i]
      BY <1>0, <3>1
    <3>3. controls[1].id # 0
      BY <1>0, <2>1 DEF Transaction
    <3>4. AnswerIds' = {Len(replies) + 1}
      BY <1>0, <2>2, <3>2, <3>3
    <3>5. PICK h : HeadBecomes(h) /\ h.delivering
      BY <1>5, <2>4, AnswerHead
    <3>6. controls' # <<>> /\ controls'[1].delivering /\ controls'[1].id = controls[1].id
      BY <3>5, <1>0 DEF HeadBecomes
    <3> QED BY <3>2, <3>4, <3>6
  <2> QED BY <2>3, <2>4
<1>6. CASE DeliverReply
  <2>1. replies # <<>> /\ replies' = Tail(replies)
    BY <1>6 DEF DeliverReply
  <2>2. /\ DOMAIN replies' = 1 .. Len(replies) - 1 /\ Len(replies) >= 1
        /\ \A i \in 1 .. Len(replies) - 1 : replies'[i] = replies[i + 1] /\ i + 1 \in 1 .. Len(replies)
    BY <1>0, <2>1
  <2>a. \A i \in AnswerIds' : i + 1 \in AnswerIds /\ replies'[i] = replies[i + 1] /\ i \in 1 .. Len(replies)
    BY <1>0, <2>2
  <2>3. CASE AnswersHead
    <3>1. 1 \in AnswerIds
      BY <1>0, <2>2, <2>3 DEF AnswersHead
    <3>2. ASSUME NEW i \in AnswerIds' PROVE FALSE
      BY <1>0, <2>a, <3>1
    <3> QED BY <1>6, <2>3, <3>2, Popped DEF Untouched
  <2>4. CASE ~AnswersHead
    <3>1. controls' = controls
      BY <1>6, <2>4 DEF DeliverReply
    <3>2. 1 \notin AnswerIds
      BY <1>0, <2>2, <2>4 DEF AnswersHead
    <3>3. \A i \in AnswerIds : i - 1 \in AnswerIds' /\ replies'[i - 1] = replies[i]
      BY <1>0, <2>2, <3>2
    <3> QED BY <1>0, <2>a, <3>1, <3>3
  <2> QED BY <2>3, <2>4
<1>7. CASE controls' = <<>> /\ replies' = <<>>
  BY <1>7
<1> QED
  <2>1. CASE Source
    BY <2>1, <1>1, <1>3, AckHead, SampleHead, ConfirmHead DEF Source, ReadyEvent, InvalidEvent,
       WeightArrives, WeightEvent, SampleTaken, WeightConfirms, SourceAnswers, SourceOmitsAnswer, AckEvent
  <2>2. CASE Gateway
    BY <2>2, <1>1, <1>a, <1>4 DEF Gateway, RejectCommand, Pair, StartStream, ApplySetting
  <2>3. CASE Tick
    BY <2>3, <1>1, <1>3, <1>5, WriteHead DEF Tick, TickSourceFails, TickUnconfirmed, TickWrites
  <2>4. CASE EndGateway \/ Stop
    BY <2>4, <1>7 DEF EndGateway, Stop
  <2>5. CASE DeliverWeight \/ UNCHANGED vars
    BY <2>5, <1>1 DEF DeliverWeight, vars
  <2> QED BY <2>1, <2>2, <2>3, <2>4, <2>5, <1>2, <1>6 DEF Next

LEMMA StaleStep ==
  TypeOK /\ QueueOK /\ AnswerMatchesControl /\ ConfirmationJudgedByArrival /\ StaleOK
    /\ [Next]_vars => StaleOK'
<1> SUFFICES ASSUME TypeOK, QueueOK, AnswerMatchesControl, ConfirmationJudgedByArrival, StaleOK,
                    [Next]_vars
             PROVE  StaleOK'
  OBVIOUS
<1> USE DEF StaleOK
<1> HIDE DEF Transaction
<1>0. /\ controls \in Seq(Transaction) /\ Len(controls) \in Nat /\ DOMAIN controls = 1 .. Len(controls)
      /\ controls # <<>> => Len(controls) >= 1
  BY DEF TypeOK
<1>1. ASSUME UNCHANGED controls, staleSample' => staleSample PROVE StaleOK'
  BY <1>1
<1>2. CASE Advance
  <2>1. staleSample' = staleSample
    BY <1>2 DEF Advance
  <2> QED BY <1>2, <2>1, AdvanceAges
<1>3. ASSUME NEW h, HeadBecomes(h), h.sampled => controls[1].sampled, staleSample' => staleSample
      PROVE  StaleOK'
  BY <1>0, <1>3 DEF HeadBecomes
<1>4. CASE WeightEvent \/ WeightConfirms
  <2>1. ASSUME staleSample'
        PROVE  \E i \in 1 .. Len(controls') : controls'[i].command = "tare" /\ ~controls'[i].sampled
    <3>1. PICK i \in 1 .. Len(controls) : controls[i].command = "tare" /\ ~controls[i].sent
      BY <1>0, <1>4, <2>1 DEF WeightEvent, WeightConfirms, WeightArrives, UnsentTare
    <3>2. ~controls[i].sampled
      BY <3>1 DEF QueueOK, Untouched
    <3>3. CASE controls' # controls
      <4>1. controls[1].sent /\ \E h : HeadBecomes(h)
        BY <1>4, <3>3, SampleHead, ConfirmHead
           DEF WeightEvent, WeightConfirms, SampleTaken, IsFirstTareSample, Matches
      <4>2. i \in 2 .. Len(controls)
        BY <1>0, <3>1, <4>1
      <4>3. Len(controls') = Len(controls) /\ controls'[i] = controls[i]
        BY <4>1, <4>2 DEF HeadBecomes
      <4> QED BY <1>0, <3>1, <3>2, <4>2, <4>3
    <3>4. CASE controls' = controls
      BY <3>1, <3>2, <3>4
    <3> QED BY <3>3, <3>4
  <2> QED BY <2>1
<1>5. CASE TickWrites
  <2>1. PICK h : HeadBecomes(h) /\ ~h.sampled
    BY <1>5, WriteHead
  <2>2. staleSample' => staleSample \/ controls[1].command = "tare"
    BY <1>5 DEF TickWrites
  <2>3. CASE controls[1].command = "tare"
    BY <1>0, <2>1, <2>3 DEF HeadBecomes
  <2>4. CASE controls[1].command # "tare"
    BY <1>3, <2>1, <2>2, <2>4
  <2> QED BY <2>3, <2>4
<1>6. ASSUME NEW c \in Commands, RequestControl(c) PROVE StaleOK'
  <2> DEFINE new == NewTransaction(c)
  <2>1. new.command = c /\ ~new.sampled
    BY DEF NewTransaction, Unanswered
  <2>2. controls' = Append(controls, new) /\ (staleSample' => staleSample \/ c = "tare")
    BY <1>6 DEF RequestControl
  <2> HIDE DEF new
  <2>3. /\ Len(controls') = Len(controls) + 1 /\ controls'[Len(controls) + 1] = new
        /\ \A i \in 1 .. Len(controls) : controls'[i] = controls[i]
    BY <1>0, <2>2
  <2> QED BY <1>0, <2>1, <2>2, <2>3
<1>7. CASE DeliverReply
  <2>1. CASE AnswersHead
    <3>1. replies # <<>> /\ 1 \in AnswerIds
      BY <1>7, <2>1 DEF DeliverReply, AnswersHead, AnswerIds, TypeOK
    <3>2. controls # <<>> /\ controls[1].command = "tare" => controls[1].sampled
      BY <3>1 DEF AnswerMatchesControl, ConfirmationJudgedByArrival, EvidenceInTime
    <3>3. /\ Len(controls') = Len(controls) - 1
          /\ \A i \in 1 .. Len(controls) - 1 : controls'[i] = controls[i + 1]
      BY <1>7, <2>1, Popped
    <3>4. ASSUME NEW i \in 1 .. Len(controls), i # 1
          PROVE  i - 1 \in 1 .. Len(controls') /\ controls'[i - 1] = controls[i]
      BY <1>0, <3>3, <3>4
    <3>5. staleSample' = staleSample
      BY <1>7 DEF DeliverReply
    <3>6. ASSUME staleSample
          PROVE  \E i \in 1 .. Len(controls') : controls'[i].command = "tare" /\ ~controls'[i].sampled
      <4>1. PICK i \in 1 .. Len(controls) : controls[i].command = "tare" /\ ~controls[i].sampled
        BY <3>6
      <4>2. i # 1
        BY <3>2, <4>1
      <4> QED BY <3>4, <4>1, <4>2
    <3> QED BY <3>5, <3>6
  <2> QED BY <1>1, <1>7, <2>1 DEF DeliverReply
<1>8. CASE Stop
  BY <1>8 DEF Stop
<1>9. CASE TickAnswers
  BY <1>1, <1>3, <1>9, AnswerHead DEF TickAnswers
<1> QED
  <2>1. CASE Source
    BY <2>1, <1>1, <1>3, <1>4, AckHead DEF Source, ReadyEvent, InvalidEvent,
       SourceAnswers, SourceOmitsAnswer, AckEvent
  <2>2. CASE Gateway
    BY <2>2, <1>1, <1>6 DEF Gateway, RejectCommand, Pair, StartStream, ApplySetting
  <2>3. CASE Tick
    BY <2>3, <1>1, <1>5, <1>9 DEF Tick, TickSourceFails, TickUnconfirmed
  <2>4. CASE EndGateway \/ DeliverWeight \/ UNCHANGED vars
    BY <2>4, <1>1 DEF EndGateway, DeliverWeight, vars
  <2> QED BY <2>1, <2>2, <2>3, <2>4, <1>2, <1>7, <1>8 DEF Next

LEMMA StaleMeansWithheld ==
  ASSUME TypeOK, QueueOK, ConfirmationJudgedByArrival, StaleOK
  PROVE  TareWithholdsOldWeight
<1>1. ASSUME staleSample PROVE TarePending
  <2>1. PICK i \in 1 .. Len(controls) : controls[i].command = "tare" /\ ~controls[i].sampled
    BY <1>1 DEF StaleOK
  <2>2. i \in DOMAIN controls /\ controls # <<>>
    BY DEF TypeOK
  <2>3. ~controls[i].delivering
    <3>1. CASE i = 1
      BY <2>1, <2>2, <3>1 DEF ConfirmationJudgedByArrival, EvidenceInTime
    <3>2. CASE i > 1
      BY <3>2 DEF QueueOK, Untouched
    <3> QED BY <3>1, <3>2
  <2> QED BY <2>1, <2>2, <2>3 DEF TarePending
<1> QED BY <1>1 DEF TareWithholdsOldWeight, WeightVisible

LEMMA InvariantInit == Init => IInv
<1> SUFFICES ASSUME Init PROVE IInv
  OBVIOUS
<1>1. controls = <<>> /\ replies = <<>> /\ ~staleSample
  BY DEF Init
<1> QED BY <1>1, TypeInit DEF IInv, QueueOK, RetriesCoalesced, AnswerMatchesControl, AnswerIds, StaleOK,
           ConfirmationJudgedByArrival

LEMMA InvariantHolds == Spec => []IInv
<1>1. IInv /\ [Next]_vars => IInv'
  BY TypeStep, QueueStep, AnswersStep, JudgedStep, StaleStep DEF IInv
<1> QED BY <1>1, InvariantInit, PTL DEF Spec

\* An ACK in the reply queue belongs to the oldest control, and a control that
\* waits for its delivery has exactly one.
THEOREM AnswersMatch == Spec => []AnswerMatchesControl
<1>1. IInv => AnswerMatchesControl
  BY DEF IInv
<1> QED BY <1>1, InvariantHolds, PTL

\* From the moment a tare is accepted, no weight frame can be read before a
\* sample has arrived after its write: however many tares are queued and
\* however slowly the worker ticks.
THEOREM TareWithholds == Spec => []TareWithholdsOldWeight
<1>1. IInv => TareWithholdsOldWeight
  BY StaleMeansWithheld DEF IInv
<1> QED BY <1>1, InvariantHolds, PTL

\* Repeats of the latest request never make a second control; others queue in
\* the order they came.
THEOREM Coalesced == Spec => []RetriesCoalesced
<1>1. IInv => RetriesCoalesced
  BY DEF IInv, QueueOK
<1> QED BY <1>1, InvariantHolds, PTL

\* A control is answered only if its evidence arrived in time, and fails as
\* unconfirmed only if it did not, however late the worker looks.
THEOREM JudgedByArrival == Spec => []ConfirmationJudgedByArrival
<1>1. IInv => ConfirmationJudgedByArrival
  BY DEF IInv
<1> QED BY <1>1, InvariantHolds, PTL

-----------------------------------------------------------------------------
(* What the source has confirmed, for every driver.                        *)

\* What the source has confirmed for a control.
Done(c) == (IF c.command = "start" /\ ~c.resetFirst THEN <<"reset">> ELSE <<>>)
           \o (IF c.acknowledged THEN <<c.operation>> ELSE <<>>)

\* The operation to write follows from the command and its phase.
OperationOK(c) ==
  /\ ~c.sent => (c.resetFirst <=> c.command = "start")
  /\ c.resetFirst => c.command = "start"
  /\ c.operation = IF c.command # "start" THEN c.command
                   ELSE IF c.resetFirst THEN "reset" ELSE "start"
OperationsOK == \A i \in 1 .. Len(controls) : OperationOK(controls[i])

\* The history agrees with the phase of the head, but for an operation that
\* the evidence of an earlier write may have ended.
HistoryOK ==
  /\ controls = <<>> => performed = <<>>
  /\ controls # <<>> =>
       /\ \/ performed = Done(controls[1])
          \/ controls[1].command \in Doubtful(driver) /\ performed = <<>>
       /\ controls[1].delivering => ~controls[1].resetFirst

\* A write that nothing but its ACK can end is the head's, and the last.
Unique(w) == w.operation \notin Doubtful(driver)
WireOK ==
  \A i \in 1 .. Len(wire) :
    /\ wire[i].operation \in WireAcks(driver)
    /\ Unique(wire[i]) => /\ i = Len(wire)
                          /\ Confirming(wire[i].operation) /\ wire[i].id = controls[1].id

DriverOK == pending # NoOperation => pending \in Inferred(driver) /\ Confirming(pending)

PhaseOK == OperationsOK /\ HistoryOK /\ WireOK /\ DriverOK

LEMMA DoubtfulIsTare == Doubtful(driver) \in {{}, {"tare"}}
BY DEF Doubtful, WireAcks, Inferred, Commands

\* While the head awaits its evidence the history is exact.
LEMMA HistoryExact ==
  ASSUME TypeOK, PhaseOK, controls # <<>>, ~controls[1].acknowledged
  PROVE  performed = Done(controls[1])
<1>1. controls[1].command \in Doubtful(driver) => controls[1].command = "tare"
  BY DoubtfulIsTare
<1>2. controls[1].command = "tare" => Done(controls[1]) = <<>>
  BY DEF Done
<1> QED BY <1>1, <1>2 DEF PhaseOK, HistoryOK

\* A step that evidence of the source is: of the head's operation, or of none.
Credited(h) ==
  /\ HeadBecomes(h) /\ h.acknowledged /\ ~h.delivering
  /\ controls[1].sent /\ ~controls[1].delivering
  /\ h.operation = controls[1].operation /\ h.resetFirst = controls[1].resetFirst
  /\ \/ ~controls[1].acknowledged /\ performed' = Append(performed, controls[1].operation)
     \/ controls[1].operation \in Doubtful(driver) /\ performed' = performed

LEMMA AnswerConfirms ==
  ASSUME TypeOK, PhaseOK, SourceAnswers, Matches(wire[1].operation)
  PROVE  \E h : Credited(h)
<1> DEFINE c == controls[1]
           w == wire[1]
           h == [c EXCEPT !.acknowledged = TRUE, !.ackDelay = IF c.acknowledged THEN @ ELSE c.age]
<1>1. controls # <<>> /\ c.sent /\ ~c.delivering /\ w.operation = c.operation /\ c \in Transaction
  BY DEF Matches, TypeOK
<1>2. controls' = [controls EXCEPT ![1] = h]
  BY <1>1 DEF SourceAnswers, AckEvent, TypeOK
<1>3. h.id = c.id /\ h.command = c.command /\ h.operation = c.operation
  BY <1>1 DEF Transaction
<1>4. h.sent
  BY <1>1 DEF Transaction
<1>5. ~h.delivering
  BY <1>1 DEF Transaction
<1>6. h.acknowledged
  BY <1>1 DEF Transaction
<1>7. h.resetFirst = c.resetFirst
  BY <1>1 DEF Transaction
<1> HIDE DEF h
<1>8. HeadBecomes(h)
  BY <1>1, <1>2, <1>3, <1>4, HeadReplaced
<1>9. \/ ~c.acknowledged /\ performed' = Append(performed, c.operation)
      \/ c.operation \in Doubtful(driver) /\ performed' = performed
  <2>1. CASE c.id = w.id /\ ~c.acknowledged
    BY <1>1, <2>1 DEF SourceAnswers, RecordConfirmation
  <2>2. CASE ~(c.id = w.id /\ ~c.acknowledged)
    <3>1. performed' = performed
      BY <2>2 DEF SourceAnswers, RecordConfirmation
    <3>2. 1 \in 1 .. Len(wire)
      BY DEF SourceAnswers, TypeOK
    <3>3. ~Unique(w)
      BY <2>2, <3>2 DEF PhaseOK, WireOK, Confirming
    <3> QED BY <1>1, <3>1, <3>3 DEF Unique
  <2> QED BY <2>1, <2>2
<1> QED BY <1>1, <1>3, <1>5, <1>6, <1>7, <1>8, <1>9 DEF Credited

LEMMA WeightCredits ==
  ASSUME TypeOK, PhaseOK, WeightConfirms
  PROVE  /\ \E h : Credited(h)
         /\ controls # <<>> /\ ~controls[1].acknowledged /\ controls[1].operation = pending
         /\ performed' = Append(performed, controls[1].operation)
<1> DEFINE c == controls[1]
           h == SampledAndAcked(c)
<1>1. Confirming(pending)
  BY DEF WeightConfirms, PhaseOK, DriverOK
<1>2. /\ controls # <<>> /\ c.sent /\ ~c.delivering /\ ~c.acknowledged /\ c.operation = pending
      /\ c \in Transaction /\ Matches(pending)
  BY <1>1 DEF Confirming, Matches, TypeOK
<1>3. controls' = [controls EXCEPT ![1] = h] /\ performed' = Append(performed, c.operation)
  BY <1>2 DEF WeightConfirms
<1>4. /\ h.id = c.id /\ h.command = c.command /\ h.operation = c.operation /\ h.sent
      /\ h.acknowledged /\ ~h.delivering /\ h.resetFirst = c.resetFirst
  BY <1>2, EvidenceType
<1> HIDE DEF h
<1>5. HeadBecomes(h)
  BY <1>2, <1>3, <1>4, HeadReplaced
<1>6. Credited(h)
  BY <1>2, <1>3, <1>4, <1>5 DEF Credited
<1> QED BY <1>2, <1>3, <1>6

\* A write happens when nothing is awaited: every write left on the wire is one
\* that was inferred.
LEMMA WriteStarts ==
  ASSUME TypeOK, QueueOK, PhaseOK, TickWrites
  PROVE  /\ controls # <<>> /\ performed' = performed /\ driver' = driver
         /\ pending = NoOperation /\ \A i \in 1 .. Len(wire) : ~Unique(wire[i])
         /\ \E h : /\ HeadBecomes(h) /\ ~h.acknowledged /\ ~h.delivering /\ OperationOK(h)
                   /\ Done(h) = Done(controls[1])
                   /\ (wire' = wire /\ pending' = pending) \/ WriteTaken(h.id, h.operation)
<1> DEFINE c == controls[1]
           op == IF ResetDone(c) THEN "start" ELSE c.operation
           rf == c.resetFirst /\ ~ResetDone(c)
           h == Unanswered(c.id, c.command, op, rf, TRUE)
<1>1. controls # <<>> /\ ~c.delivering /\ (~c.sent \/ ResetDone(c))
  BY DEF TickWrites, HasActive
<1>2. controls' = [controls EXCEPT ![1] = h] /\ performed' = performed /\ driver' = driver
  BY DEF TickWrites
<1>3. h.id = c.id /\ h.command = c.command /\ h.sent /\ ~h.delivering /\ ~h.acknowledged
  BY DEF Unanswered
<1>4. h.operation = op /\ (h.resetFirst <=> rf)
  BY DEF Unanswered
<1>5. (wire' = wire /\ pending' = pending) \/ WriteTaken(c.id, op)
  BY DEF TickWrites
<1>6. OperationOK(c) /\ (~c.sent => ~c.acknowledged)
  <2>1. 1 \in 1 .. Len(controls)
    BY <1>1 DEF TypeOK
  <2> QED BY <2>1 DEF PhaseOK, OperationsOK, QueueOK, Untouched
<1>7. \A any : ~Confirming(any)
  BY <1>1 DEF Confirming, Matches, ResetDone
<1>8. pending = NoOperation /\ \A i \in 1 .. Len(wire) : ~Unique(wire[i])
  BY <1>7 DEF PhaseOK, WireOK, DriverOK
<1> HIDE DEF h
<1>9. HeadBecomes(h)
  BY <1>1, <1>2, <1>3, HeadReplaced
<1>10. OperationOK(h) /\ Done(h) = Done(c)
  <2>1. CASE ~c.sent
    <3>1. ~ResetDone(c)
      BY <2>1 DEF ResetDone
    <3> QED BY <1>3, <1>4, <1>6, <2>1, <3>1 DEF OperationOK, Done
  <2>2. CASE ResetDone(c)
    <3>1. c.acknowledged /\ c.resetFirst /\ c.command = "start" /\ c.operation = "reset"
      BY <1>6, <2>2 DEF ResetDone, OperationOK
    <3>2. Done(c) = <<"reset">>
      BY <3>1 DEF Done
    <3>3. ~h.resetFirst /\ h.operation = "start" /\ h.command = "start"
      BY <1>3, <1>4, <2>2, <3>1
    <3>4. Done(h) = <<"reset">>
      BY <1>3, <3>3 DEF Done
    <3> QED BY <1>3, <3>2, <3>3, <3>4 DEF OperationOK
  <2> QED BY <1>1, <2>1, <2>2
<1> QED BY <1>1, <1>2, <1>3, <1>4, <1>5, <1>8, <1>9, <1>10

\* A step that leaves alone what the phase is about.
Steady ==
  /\ controls # <<>> /\ controls' # <<>>
  /\ controls'[1].id = controls[1].id /\ controls'[1].command = controls[1].command
  /\ controls'[1].operation = controls[1].operation
  /\ controls'[1].resetFirst = controls[1].resetFirst /\ controls'[1].sent = controls[1].sent
  /\ controls'[1].acknowledged = controls[1].acknowledged
  /\ controls'[1].delivering <=> controls[1].delivering

LEMMA SteadyStep ==
  ASSUME PhaseOK, Steady, OperationsOK', UNCHANGED physicalVars
  PROVE  PhaseOK'
<1>1. wire' = wire /\ performed' = performed /\ driver' = driver /\ pending' = pending
  BY DEF physicalVars, driverVars
<1>2. HistoryOK'
  <2>1. Done(controls'[1]) = Done(controls[1])
    BY DEF Steady, Done
  <2> QED BY <1>1, <2>1 DEF Steady, PhaseOK, HistoryOK
<1>3. \A op : Confirming(op)' <=> Confirming(op)
  BY DEF Steady, Confirming, Matches
<1>4. WireOK'
  BY <1>1, <1>3 DEF Steady, PhaseOK, WireOK, Unique
<1>5. DriverOK'
  BY <1>1, <1>3 DEF PhaseOK, DriverOK
<1> QED BY <1>2, <1>4, <1>5 DEF PhaseOK

LEMMA HeadOperations ==
  ASSUME TypeOK, OperationsOK, NEW h, HeadBecomes(h),
         OperationOK(h) \/ (h.operation = controls[1].operation /\ h.resetFirst = controls[1].resetFirst)
  PROVE  OperationsOK' /\ controls' # <<>> /\ controls'[1] = h
<1> HIDE DEF Transaction
<1>1. controls \in Seq(Transaction) /\ Len(controls) \in Nat /\ controls # <<>> /\ Len(controls) >= 1
  BY DEF TypeOK, HeadBecomes
<1>2. OperationOK(h)
  BY <1>1 DEF OperationsOK, HeadBecomes, OperationOK
<1>3. ASSUME NEW i \in 1 .. Len(controls') PROVE OperationOK(controls'[i])
  BY <1>1, <1>2 DEF OperationsOK, HeadBecomes
<1>4. controls' # <<>>
  BY <1>1 DEF HeadBecomes
<1> QED BY <1>3, <1>4 DEF OperationsOK, HeadBecomes

LEMMA CreditedHistory ==
  ASSUME TypeOK, PhaseOK, NEW h, Credited(h), driver' = driver
  PROVE  OperationsOK' /\ HistoryOK'
<1>1. OperationsOK' /\ controls' # <<>> /\ controls'[1] = h /\ h.command = controls[1].command
  BY HeadOperations DEF Credited, HeadBecomes, PhaseOK
<1>2. OperationOK(controls[1]) /\ controls # <<>>
  <2>1. controls # <<>> /\ 1 \in 1 .. Len(controls)
    BY DEF Credited, HeadBecomes, TypeOK
  <2> QED BY <2>1 DEF PhaseOK, OperationsOK
<1>3. performed' = Done(h) \/ (h.command \in Doubtful(driver) /\ performed' = <<>>)
  <2>1. CASE ~controls[1].acknowledged /\ performed' = Append(performed, controls[1].operation)
    <3>1. performed = Done(controls[1])
      BY <1>2, <2>1, HistoryExact
    <3>2. performed = IF controls[1].command = "start" /\ ~controls[1].resetFirst THEN <<"reset">> ELSE <<>>
      BY <2>1, <3>1 DEF Done
    <3>3. Done(h) = (IF h.command = "start" /\ ~h.resetFirst THEN <<"reset">> ELSE <<>>) \o <<h.operation>>
      BY DEF Done, Credited
    <3> QED BY <1>1, <2>1, <3>2, <3>3 DEF Credited
  <2>2. CASE controls[1].operation \in Doubtful(driver) /\ performed' = performed
    <3>1. controls[1].operation = "tare" /\ controls[1].command = "tare"
      BY <1>2, <2>2, DoubtfulIsTare DEF OperationOK
    <3>2. CASE controls[1].acknowledged
      <4>1. Done(h) = Done(controls[1])
        BY <1>1, <3>2 DEF Done, Credited
      <4> QED BY <1>1, <1>2, <2>2, <4>1 DEF PhaseOK, HistoryOK
    <3>3. CASE ~controls[1].acknowledged
      <4>1. performed = Done(controls[1])
        BY <1>2, <3>3, HistoryExact
      <4>2. Done(controls[1]) = <<>>
        BY <3>1, <3>3 DEF Done
      <4> QED BY <1>1, <2>2, <3>1, <4>1, <4>2
    <3> QED BY <3>2, <3>3
  <2> QED BY <2>1, <2>2 DEF Credited
<1> QED BY <1>1, <1>3 DEF HistoryOK, Credited

\* The wire after the source answered or dropped its oldest write.
LEMMA WireShorter ==
  ASSUME TypeOK, WireOK, wire # <<>>, wire' = Tail(wire), driver' = driver,
         \A w \in Write : w.operation \in WireAcks(driver) /\ Unique(w) /\ Len(wire) > 1
                            /\ Confirming(w.operation) /\ w.id = controls[1].id =>
           Confirming(w.operation)' /\ w.id = controls'[1].id
  PROVE  WireOK'
<1>1. /\ Len(wire) \in Nat /\ Len(wire) >= 1 /\ Len(wire') = Len(wire) - 1
      /\ \A i \in 1 .. Len(wire') : wire'[i] = wire[i + 1] /\ i + 1 \in 1 .. Len(wire) /\ wire[i + 1] \in Write
  <2> HIDE DEF Write
  <2> QED BY DEF TypeOK
<1>2. ASSUME NEW i \in 1 .. Len(wire')
      PROVE  /\ wire'[i].operation \in WireAcks(driver)
             /\ Unique(wire'[i]) => /\ i = Len(wire')
                                    /\ Confirming(wire[i].operation)' /\ wire'[i].id = controls'[1].id
  <2>0. PICK w \in Write : w = wire[i + 1]
    BY <1>1
  <2>1. wire'[i] = w /\ i + 1 \in 1 .. Len(wire) /\ i + 1 > 1 /\ Len(wire) > 1
    BY <1>1, <2>0
  <2>2. /\ w.operation \in WireAcks(driver)
        /\ Unique(w) => /\ i + 1 = Len(wire)
                        /\ Confirming(w.operation) /\ w.id = controls[1].id
    BY <2>0, <2>1 DEF WireOK
  <2>3. ASSUME Unique(w) PROVE i = Len(wire')
    <3>1. i + 1 = Len(wire) /\ i \in Nat
      BY <2>2, <2>3
    <3>2. Len(wire') = Len(wire) - 1 /\ Len(wire) \in Nat
      BY <1>1
    <3> QED BY <3>1, <3>2
  <2>4. Unique(w) => Confirming(w.operation)' /\ w.id = controls'[1].id
    BY <2>1, <2>2 DEF Confirming, Matches
  <2> QED BY <2>1, <2>2, <2>3, <2>4
<1> QED BY <1>2 DEF WireOK, Unique

LEMMA PhaseStep ==
  ASSUME TypeOK, QueueOK, AnswerMatchesControl, ConfirmationJudgedByArrival, PhaseOK, [Next]_vars
  PROVE  PhaseOK'
<1> HIDE DEF Transaction, Write
<1>0. /\ controls \in Seq(Transaction) /\ Len(controls) \in Nat
      /\ controls # <<>> => Len(controls) >= 1
      /\ wire \in Seq(Write) /\ Len(wire) \in Nat
  BY DEF TypeOK
<1>1. CASE UNCHANGED <<controls, physicalVars>>
  BY <1>1 DEF physicalVars, driverVars, PhaseOK, OperationsOK, HistoryOK, WireOK, Unique, DriverOK,
     Confirming, Matches
<1>2. CASE Advance
  <2>1. ASSUME NEW i \in 1 .. Len(controls)
        PROVE  /\ controls'[i].operation = controls[i].operation
               /\ controls'[i].resetFirst = controls[i].resetFirst
    <3>a. i \in DOMAIN controls
      BY <1>0, <2>1
    <3>1. /\ controls[i] \in Transaction
          /\ controls'[i] = [controls[i] EXCEPT !.age = IF controls[i].sent THEN Older(@, AckMs) ELSE @]
      BY <1>0, <1>2, <3>a DEF Advance
    <3>2. controls'[i].operation = controls[i].operation
      BY <3>1 DEF Transaction
    <3>3. controls'[i].resetFirst = controls[i].resetFirst
      BY <3>1 DEF Transaction
    <3> QED BY <3>2, <3>3
  <2>2. /\ controls' # <<>> <=> controls # <<>>
        /\ controls # <<>> => 1 \in 1 .. Len(controls)
    BY <1>0, <1>2 DEF Advance
  <2>3. UNCHANGED physicalVars
    BY <1>2 DEF Advance
  <2>4. ASSUME NEW i \in 1 .. Len(controls') PROVE OperationOK(controls'[i])
    <3>1. i \in 1 .. Len(controls)
      BY <1>2, AdvanceAges
    <3>2. OperationOK(controls[i])
      BY <3>1 DEF PhaseOK, OperationsOK
    <3> QED BY <1>2, <2>1, <3>1, <3>2, AdvanceAges DEF OperationOK
  <2>5. CASE controls # <<>>
    <3>1. Steady
      BY <1>2, <2>1, <2>2, <2>5, AdvanceAges DEF Steady
    <3> QED BY <2>3, <2>4, <3>1, SteadyStep DEF OperationsOK
  <2>6. CASE controls = <<>>
    BY <1>1, <2>2, <2>3, <2>6
  <2> QED BY <2>5, <2>6
<1>3. CASE SourceAnswers
  <2> DEFINE op == wire[1].operation
  <2>1. /\ wire # <<>> /\ wire' = Tail(wire) /\ driver' = driver
        /\ pending' = PendingAfter(op) /\ AckEvent(op)
    BY <1>3 DEF SourceAnswers
  <2>2. 1 \in 1 .. Len(wire)
    BY <1>0, <2>1
  <2>3. CASE Matches(op)
    <3>1. PICK h : Credited(h)
      BY <1>3, <2>3, AnswerConfirms
    <3>2. OperationsOK' /\ HistoryOK'
      BY <2>1, <3>1, CreditedHistory
    <3>3. ASSUME NEW w \in Write, Unique(w), Len(wire) > 1, Confirming(w.operation) PROVE FALSE
      <4>1. w.operation = op
        BY <2>3, <3>3 DEF Matches, Confirming
      <4>2. ~Unique(wire[1])
        BY <2>2, <3>3 DEF PhaseOK, WireOK
      <4> QED BY <3>3, <4>1, <4>2 DEF Unique
    <3>4. WireOK'
      BY <2>1, <3>3, WireShorter DEF PhaseOK
    <3>5. pending' = NoOperation
      BY <2>1, <2>3 DEF PendingAfter, PhaseOK, DriverOK, Confirming, Matches
    <3> QED BY <3>2, <3>4, <3>5 DEF PhaseOK, DriverOK
  <2>4. CASE ~Matches(op)
    <3>1. controls' = controls /\ performed' = performed
      BY <1>3, <2>4 DEF SourceAnswers, AckEvent, RecordConfirmation
    <3>2. \A o : Confirming(o)' <=> Confirming(o)
      BY <3>1 DEF Confirming, Matches
    <3>3. WireOK'
      BY <2>1, <3>1, <3>2, WireShorter DEF PhaseOK
    <3>4. DriverOK'
      BY <2>1, <3>2 DEF PhaseOK, DriverOK, PendingAfter
    <3> QED BY <2>1, <3>1, <3>3, <3>4 DEF PhaseOK, OperationsOK, HistoryOK
  <2> QED BY <2>3, <2>4
<1>4. CASE SourceOmitsAnswer
  <2>1. /\ wire # <<>> /\ wire' = Tail(wire) /\ controls' = controls /\ performed' = performed
        /\ driver' = driver /\ pending' = pending
    BY <1>4 DEF SourceOmitsAnswer, driverVars
  <2>2. \A o : Confirming(o)' <=> Confirming(o)
    BY <2>1 DEF Confirming, Matches
  <2>3. WireOK'
    BY <2>1, <2>2, WireShorter DEF PhaseOK
  <2> QED BY <2>1, <2>2, <2>3 DEF PhaseOK, OperationsOK, HistoryOK, DriverOK
<1>5. CASE WeightConfirms
  <2>1. wire' = wire /\ driver' = driver /\ pending' = NoOperation
    BY <1>5 DEF WeightConfirms, WeightArrives
  <2>2. PICK h : Credited(h)
    BY <1>5, WeightCredits
  <2>3. OperationsOK' /\ HistoryOK'
    BY <2>1, <2>2, CreditedHistory
  <2>4. ASSUME NEW i \in 1 .. Len(wire), Unique(wire[i]) PROVE FALSE
    <3>1. wire[i].operation = controls[1].operation /\ wire[i].operation \in WireAcks(driver)
      BY <2>4 DEF PhaseOK, WireOK, Confirming, Matches
    <3>2. controls[1].operation \in Inferred(driver)
      BY <1>5, WeightCredits DEF WeightConfirms, PhaseOK, DriverOK
    <3> QED BY <2>4, <3>1, <3>2 DEF Unique, Doubtful
  <2>5. WireOK'
    BY <2>1, <2>4 DEF PhaseOK, WireOK, Unique
  <2> QED BY <2>1, <2>3, <2>5 DEF PhaseOK, DriverOK
<1>6. CASE WeightEvent /\ controls' # controls
  <2>1. PICK h : HeadBecomes(h) /\ ~h.delivering /\ ~controls[1].delivering /\ SamePhase(h)
    BY <1>6, SampleHead DEF WeightEvent, SampleTaken
  <2>2. UNCHANGED physicalVars
    BY <1>6 DEF WeightEvent, WeightArrives, physicalVars, driverVars
  <2>3. OperationsOK' /\ controls' # <<>> /\ controls'[1] = h
    BY <2>1, HeadOperations DEF PhaseOK, SamePhase
  <2>4. Steady
    BY <2>1, <2>3 DEF Steady, HeadBecomes, SamePhase
  <2> QED BY <2>2, <2>3, <2>4, SteadyStep
<1>7. CASE TickAnswers /\ Len(replies) # ReplyLimit
  <2>1. PICK h : HeadBecomes(h) /\ h.delivering /\ SamePhase(h)
    BY <1>7, AnswerHead
  <2>2. /\ performed' = performed /\ wire' = wire /\ driver' = driver /\ pending' = pending
        /\ controls[1].acknowledged /\ ~controls[1].resetFirst
    BY <1>7 DEF TickAnswers, Evident, physicalVars, driverVars
  <2>3. OperationsOK' /\ controls' # <<>> /\ controls'[1] = h
    BY <2>1, HeadOperations DEF PhaseOK, SamePhase
  <2>4. Done(h) = Done(controls[1]) /\ h.command = controls[1].command /\ controls # <<>> /\ ~h.resetFirst
    BY <2>1, <2>2 DEF Done, HeadBecomes, SamePhase
  <2>5. HistoryOK'
    BY <2>2, <2>3, <2>4 DEF PhaseOK, HistoryOK
  <2>6. \A o : ~Confirming(o)
    BY <2>2 DEF Confirming
  <2>7. WireOK' /\ DriverOK'
    BY <2>2, <2>6 DEF PhaseOK, WireOK, DriverOK, Unique
  <2> QED BY <2>3, <2>5, <2>7 DEF PhaseOK
<1>8. CASE TickWrites
  <2>1. PICK h : /\ HeadBecomes(h) /\ ~h.acknowledged /\ ~h.delivering /\ OperationOK(h)
                 /\ Done(h) = Done(controls[1])
                 /\ (wire' = wire /\ pending' = pending) \/ WriteTaken(h.id, h.operation)
    BY <1>8, WriteStarts
  <2>2. /\ controls # <<>> /\ performed' = performed /\ driver' = driver /\ pending = NoOperation
        /\ \A i \in 1 .. Len(wire) : ~Unique(wire[i])
    BY <1>8, WriteStarts
  <2>3. OperationsOK' /\ controls' # <<>> /\ controls'[1] = h
    BY <2>1, HeadOperations DEF PhaseOK
  <2>4. HistoryOK'
    BY <2>1, <2>2, <2>3 DEF PhaseOK, HistoryOK, HeadBecomes
  <2>5. Confirming(h.operation)'
    BY <2>1, <2>3 DEF Confirming, Matches, HeadBecomes
  <2>6. DriverOK'
    BY <2>1, <2>2, <2>5 DEF DriverOK, WriteTaken
  <2>7. WireOK'
    <3>1. CASE wire' = wire
      BY <2>2, <3>1 DEF PhaseOK, WireOK, Unique
    <3>2. CASE wire' # wire
      <4> DEFINE w == [id |-> h.id, operation |-> h.operation]
      <4>1. wire' = Append(wire, w) /\ h.operation \in WireAcks(driver)
        BY <2>1, <3>2 DEF WriteTaken
      <4>2. w.id = h.id /\ w.operation = h.operation
        OBVIOUS
      <4> HIDE DEF w
      <4>3. /\ Len(wire') = Len(wire) + 1 /\ wire'[Len(wire) + 1] = w
            /\ \A i \in 1 .. Len(wire) : wire'[i] = wire[i]
        BY <1>0, <4>1
      <4>4. ASSUME NEW i \in 1 .. Len(wire')
            PROVE  /\ wire'[i].operation \in WireAcks(driver)
                   /\ Unique(wire'[i]) => /\ i = Len(wire')
                                          /\ Confirming(wire[i].operation)' /\ wire'[i].id = controls'[1].id
        <5>1. CASE i = Len(wire) + 1
          BY <2>3, <2>5, <4>1, <4>2, <4>3, <5>1
        <5>2. CASE i # Len(wire) + 1
          <6>1. i \in 1 .. Len(wire) /\ wire'[i] = wire[i]
            BY <1>0, <4>3, <5>2
          <6> QED BY <2>2, <6>1 DEF PhaseOK, WireOK
        <5> QED BY <5>1, <5>2
      <4> QED BY <2>2, <4>4 DEF WireOK, Unique
    <3> QED BY <3>1, <3>2
  <2> QED BY <2>3, <2>4, <2>6, <2>7 DEF PhaseOK
<1>9. ASSUME NEW c \in Commands, RequestControl(c) PROVE PhaseOK'
  <2> DEFINE new == NewTransaction(c)
  <2>1. controls' = Append(controls, new) /\ UNCHANGED physicalVars
    BY <1>9 DEF RequestControl
  <2>2. /\ OperationOK(new) /\ new.command = c /\ (new.resetFirst <=> c = "start")
        /\ ~new.acknowledged /\ ~new.delivering
    BY DEF NewTransaction, Unanswered, OperationsOf, OperationOK, Commands
  <2>3. Done(new) = <<>>
    BY <2>2 DEF Done
  <2> HIDE DEF new
  <2>4. /\ Len(controls') = Len(controls) + 1 /\ controls'[Len(controls) + 1] = new
        /\ \A i \in 1 .. Len(controls) : controls'[i] = controls[i]
        /\ controls' # <<>>
    BY <1>0, <2>1
  <2>5. OperationsOK'
    BY <1>0, <2>2, <2>4 DEF PhaseOK, OperationsOK
  <2>6. CASE controls = <<>>
    <3>1. controls'[1] = new
      BY <1>0, <2>4, <2>6
    <3>2. wire' = wire /\ performed' = performed /\ driver' = driver /\ pending' = pending
      BY <2>1 DEF physicalVars, driverVars
    <3>3. \A o : ~Confirming(o)
      BY <2>6 DEF Confirming, Matches
    <3>4. WireOK' /\ DriverOK'
      BY <3>2, <3>3 DEF PhaseOK, WireOK, DriverOK, Unique
    <3>5. HistoryOK'
      BY <2>2, <2>3, <2>4, <2>6, <3>1, <3>2 DEF PhaseOK, HistoryOK
    <3> QED BY <2>5, <3>4, <3>5 DEF PhaseOK
  <2>7. CASE controls # <<>>
    <3>1. controls'[1] = controls[1]
      BY <1>0, <2>4, <2>7
    <3>2. Steady
      BY <2>4, <2>7, <3>1 DEF Steady
    <3> QED BY <2>1, <2>5, <3>2, SteadyStep
  <2> QED BY <2>6, <2>7
<1>10. CASE DeliverReply /\ AnswersHead
  <2>1. /\ Len(controls') = Len(controls) - 1 /\ controls # <<>>
        /\ \A i \in 1 .. Len(controls) - 1 : controls'[i] = controls[i + 1]
        /\ controls' # <<>> => Untouched(controls'[1])
    BY <1>10, Popped
  <2>2. ASSUME NEW i \in 1 .. Len(controls') PROVE OperationOK(controls'[i])
    <3>1. i \in 1 .. Len(controls) - 1 /\ i + 1 \in 1 .. Len(controls)
      BY <1>0, <2>1
    <3> QED BY <2>1, <3>1 DEF PhaseOK, OperationsOK
  <2>3. performed' = <<>> /\ wire' = wire /\ driver' = driver /\ pending' = pending
    BY <1>10 DEF DeliverReply, driverVars
  <2>4. \A o : ~Confirming(o)
    <3>1. replies # <<>> /\ 1 \in AnswerIds
      BY <1>10 DEF DeliverReply, AnswersHead, AnswerIds, TypeOK
    <3>2. controls[1].delivering
      BY <3>1 DEF AnswerMatchesControl
    <3> QED BY <3>2 DEF Confirming, Matches
  <2>5. ASSUME controls' # <<>> PROVE Done(controls'[1]) = <<>>
    <3>1. 1 \in 1 .. Len(controls')
      BY <1>0, <1>10, <2>5 DEF DeliverReply
    <3> QED BY <2>1, <2>2, <2>5, <3>1 DEF OperationOK, Untouched, Done
  <2>6. HistoryOK'
    BY <2>1, <2>3, <2>5 DEF HistoryOK, Untouched
  <2>7. WireOK' /\ DriverOK'
    BY <2>3, <2>4 DEF PhaseOK, WireOK, DriverOK, Unique
  <2> QED BY <2>2, <2>6, <2>7 DEF PhaseOK, OperationsOK
<1>11. CASE Stop
  <2>1. controls' = <<>> /\ performed' = <<>> /\ wire' = <<>> /\ pending' = NoOperation
    BY <1>11 DEF Stop
  <2> QED BY <2>1 DEF PhaseOK, OperationsOK, HistoryOK, WireOK, DriverOK
<1> QED
  <2>1. CASE Source
    <3>1. CASE WeightEvent /\ controls' = controls
      BY <1>1, <3>1 DEF WeightEvent, WeightArrives, physicalVars, driverVars
    <3> QED BY <2>1, <1>1, <1>3, <1>4, <1>5, <1>6, <3>1 DEF Source, ReadyEvent, InvalidEvent
  <2>2. CASE Gateway
    BY <2>2, <1>1, <1>9 DEF Gateway, RejectCommand, Pair, StartStream, ApplySetting
  <2>3. CASE Tick
    BY <2>3, <1>1, <1>7, <1>8 DEF Tick, TickSourceFails, TickUnconfirmed, TickAnswers
  <2>4. CASE DeliverReply /\ ~AnswersHead
    BY <2>4, <1>1 DEF DeliverReply, physicalVars
  <2>5. CASE EndGateway \/ DeliverWeight \/ UNCHANGED vars
    BY <2>5, <1>1 DEF EndGateway, DeliverWeight, vars
  <2> QED BY <2>1, <2>2, <2>3, <2>4, <2>5, <1>2, <1>10, <1>11 DEF Next

LEMMA PhaseMeansSingle ==
  ASSUME TypeOK, PhaseOK PROVE OneWriteInFlight
<1>1. DOMAIN wire = 1 .. Len(wire)
  BY DEF TypeOK
<1> QED BY <1>1 DEF OneWriteInFlight, PhaseOK, WireOK, Unique

LEMMA PairAppend == <<"reset">> \o <<"start">> = <<"reset", "start">>
<1>1. ASSUME NEW s \in Seq({"reset", "start"}), Len(s) = 2, s[1] = "reset", s[2] = "start"
      PROVE  s = <<"reset", "start">>
  BY <1>1
<1>2. ASSUME NEW s, NEW t, s = <<"reset">>, t = <<"start">>
      PROVE  /\ s \o t \in Seq({"reset", "start"}) /\ Len(s \o t) = 2
             /\ (s \o t)[1] = "reset" /\ (s \o t)[2] = "start"
  BY <1>2
<1> QED BY <1>1, <1>2

LEMMA PhaseMeansConfirmed ==
  ASSUME TypeOK, PhaseOK, ConfirmationJudgedByArrival PROVE ConfirmedBeforeAnswered
<1> SUFFICES ASSUME controls # <<>>, controls[1].delivering, controls[1].command \notin Doubtful(driver)
             PROVE  performed = OperationsOf(controls[1].command)
  BY DEF ConfirmedBeforeAnswered, AnswerConfirmed
<1> DEFINE c == controls[1]
<1>1. c.acknowledged /\ ~c.resetFirst /\ performed = Done(c)
  BY DEF PhaseOK, HistoryOK, ConfirmationJudgedByArrival, EvidenceInTime
<1>2. OperationOK(c)
  <2>1. 1 \in 1 .. Len(controls)
    BY DEF TypeOK
  <2> QED BY <2>1 DEF PhaseOK, OperationsOK
<1>3. CASE c.command = "start"
  <2>1. performed = <<"reset">> \o <<"start">>
    BY <1>1, <1>2, <1>3 DEF OperationOK, Done
  <2>2. OperationsOf(c.command) = <<"reset", "start">>
    BY <1>3 DEF OperationsOf
  <2> QED BY <2>1, <2>2, PairAppend
<1>4. CASE c.command # "start"
  BY <1>1, <1>2, <1>4 DEF OperationOK, Done, OperationsOf
<1> QED BY <1>3, <1>4

LEMMA PhaseHolds == Spec => []PhaseOK
<1>1. Init => PhaseOK
  <2> SUFFICES ASSUME Init PROVE PhaseOK
    OBVIOUS
  <2>1. controls = <<>> /\ performed = <<>> /\ wire = <<>> /\ pending = NoOperation
    BY DEF Init
  <2> QED BY <2>1 DEF PhaseOK, OperationsOK, HistoryOK, WireOK, DriverOK
<1>2. IInv /\ PhaseOK /\ [Next]_vars => PhaseOK'
  BY PhaseStep DEF IInv
<1> QED BY <1>1, <1>2, InvariantHolds, PTL DEF Spec

\* A physical operation is written only when there is evidence of the one
\* before; what may still await its ACK was inferred.
THEOREM SingleWrite == Spec => []OneWriteInFlight
<1>1. IInv /\ PhaseOK => OneWriteInFlight
  BY PhaseMeansSingle DEF IInv
<1> QED BY <1>1, InvariantHolds, PhaseHolds, PTL

\* The driver waits for evidence only when the core does, and for the same
\* operation, whatever order ACKs, weights and writes come in.
THEOREM DriverInStep == Spec => []DriverAgrees
<1>1. PhaseOK => DriverAgrees
  BY DEF PhaseOK, DriverOK, DriverAgrees
<1> QED BY <1>1, PhaseHolds, PTL

\* The gateway is answered only when the source has confirmed every operation
\* of the control, in order - with any driver, for the commands it confirms in
\* one way.
THEOREM AnsweredWhenConfirmed == Spec => []ConfirmedBeforeAnswered
<1>1. IInv /\ PhaseOK => ConfirmedBeforeAnswered
  BY PhaseMeansConfirmed DEF IInv
<1> QED BY <1>1, InvariantHolds, PhaseHolds, PTL

-----------------------------------------------------------------------------
(* ScaleCore implements ScaleRequests.                                     *)

Summary(c) == [id |-> c.id, command |-> c.command]
Summaries(s) == [i \in DOMAIN s |-> Summary(s[i])]
Outstanding == Summaries(controls)

LEMMA SummariesOf ==
  ASSUME NEW s \in Seq(Transaction)
  PROVE  /\ Summaries(s) \in Seq([id : 1 .. MaxId, command : Commands])
         /\ Len(Summaries(s)) = Len(s)
         /\ \A i \in 1 .. Len(s) : Summaries(s)[i] = Summary(s[i])
<1>1. DOMAIN s = 1 .. Len(s) /\ Len(s) \in Nat
  OBVIOUS
<1>2. ASSUME NEW i \in 1 .. Len(s)
      PROVE  Summary(s[i]) \in [id : 1 .. MaxId, command : Commands]
  <2>1. s[i] \in Transaction
    BY <1>1
  <2> QED BY <2>1 DEF Transaction, Summary
<1> HIDE DEF Summary
<1> QED BY <1>1, <1>2 DEF Summaries

LEMMA SummariesAppend ==
  ASSUME NEW s \in Seq(Transaction), NEW c \in Transaction
  PROVE  Summaries(Append(s, c)) = Append(Summaries(s), Summary(c))
<1> HIDE DEF Transaction
<1> DEFINE t == Append(s, c)
           a == Summaries(t)
           b == Append(Summaries(s), Summary(c))
<1>1. /\ t \in Seq(Transaction) /\ Len(t) = Len(s) + 1 /\ t[Len(s) + 1] = c /\ Len(s) \in Nat
      /\ \A i \in 1 .. Len(s) : t[i] = s[i]
  OBVIOUS
<1> HIDE DEF t
<1>2. /\ a \in Seq([id : 1 .. MaxId, command : Commands]) /\ Len(a) = Len(s) + 1
      /\ \A i \in 1 .. Len(s) + 1 : a[i] = Summary(t[i])
  BY <1>1, SummariesOf
<1>3. Summary(c) \in [id : 1 .. MaxId, command : Commands]
  BY DEF Summary, Transaction
<1> DEFINE R == [id : 1 .. MaxId, command : Commands]
           u == Summaries(s)
           v == Summary(c)
<1>4. u \in Seq(R) /\ Len(u) = Len(s) /\ \A i \in 1 .. Len(s) : u[i] = Summary(s[i])
  BY SummariesOf
<1>a. v \in R /\ v = Summary(c) /\ a \in Seq(R)
  BY <1>2, <1>3
<1> HIDE DEF u, v, R, a, Summary
<1>5. /\ Append(u, v) \in Seq(R) /\ Len(Append(u, v)) = Len(s) + 1
      /\ Append(u, v)[Len(s) + 1] = v
      /\ \A i \in 1 .. Len(s) : Append(u, v)[i] = u[i]
  BY <1>4, <1>a
<1>6. \A i \in 1 .. Len(s) + 1 : a[i] = Append(u, v)[i]
  BY <1>1, <1>2, <1>4, <1>5, <1>a
<1>7. a = Append(u, v)
  BY <1>1, <1>2, <1>5, <1>6, <1>a
<1> QED BY <1>7, <1>a DEF a, t, u

LEMMA SummariesTail ==
  ASSUME NEW s \in Seq(Transaction), s # <<>>
  PROVE  Summaries(Tail(s)) = Tail(Summaries(s)) /\ Summaries(s) # <<>>
         /\ Head(Summaries(s)) = Summary(s[1])
<1> HIDE DEF Transaction
<1> DEFINE t == Tail(s)
           a == Summaries(t)
           u == Summaries(s)
           R == [id : 1 .. MaxId, command : Commands]
<1>1. /\ t \in Seq(Transaction) /\ Len(t) = Len(s) - 1 /\ Len(s) \in Nat /\ Len(s) >= 1
      /\ \A i \in 1 .. Len(s) - 1 : t[i] = s[i + 1]
  OBVIOUS
<1> HIDE DEF t
<1>2. a \in Seq(R) /\ Len(a) = Len(s) - 1 /\ \A i \in 1 .. Len(s) - 1 : a[i] = Summary(t[i])
  BY <1>1, SummariesOf
<1>3. u \in Seq(R) /\ Len(u) = Len(s) /\ \A i \in 1 .. Len(s) : u[i] = Summary(s[i])
  BY SummariesOf
<1> HIDE DEF u, R, a, Summary
<1>4. u # <<>> /\ Head(u) = u[1]
  BY <1>1, <1>3
<1>5. /\ Tail(u) \in Seq(R) /\ Len(Tail(u)) = Len(s) - 1
      /\ \A i \in 1 .. Len(s) - 1 : Tail(u)[i] = u[i + 1]
  BY <1>1, <1>3, <1>4
<1>6. \A i \in 1 .. Len(s) - 1 : a[i] = Tail(u)[i]
  <2>1. ASSUME NEW i \in 1 .. Len(s) - 1 PROVE i + 1 \in 1 .. Len(s)
    BY <1>1, <2>1
  <2> QED BY <1>1, <1>2, <1>3, <1>5, <2>1
<1>7. a = Tail(u)
  <2> DEFINE v == Tail(u)
  <2>1. v \in Seq(R) /\ Len(v) = Len(a) /\ \A i \in 1 .. Len(a) : a[i] = v[i]
    BY <1>2, <1>5, <1>6
  <2> HIDE DEF v
  <2>2. a = v
    BY <1>2, <2>1
  <2> QED BY <2>2 DEF v
<1>8. Head(u) = Summary(s[1])
  BY <1>1, <1>3, <1>4
<1> QED BY <1>4, <1>7, <1>8 DEF a, t, u

LEMMA OutstandingSame ==
  ASSUME TypeOK, TypeOK', Len(controls') = Len(controls),
         \A i \in 1 .. Len(controls) :
           controls'[i].id = controls[i].id /\ controls'[i].command = controls[i].command
  PROVE  Outstanding' = Outstanding
<1>1. DOMAIN controls = 1 .. Len(controls) /\ DOMAIN controls' = 1 .. Len(controls)
  BY DEF TypeOK
<1> QED BY <1>1 DEF Outstanding, Summaries, Summary

LEMMA HeadKeepsOutstanding ==
  ASSUME TypeOK, TypeOK', NEW h, HeadBecomes(h)
  PROVE  Outstanding' = Outstanding
BY OutstandingSame DEF HeadBecomes

LEMMA RefinementStep ==
  ASSUME TypeOK, TypeOK', QueueOK, AnswerMatchesControl,
         ConfirmationJudgedByArrival, PhaseOK, [Next]_vars
  PROVE  [Requests!Next]_(Requests!vars)
<1> HIDE DEF Transaction
<1>0. /\ controls \in Seq(Transaction) /\ Len(controls) \in Nat /\ DOMAIN controls = 1 .. Len(controls)
      /\ controls # <<>> => Len(controls) >= 1
  BY DEF TypeOK
<1>1. ASSUME Outstanding' = Outstanding, performed' = performed, driver' = driver
      PROVE  [Requests!Next]_(Requests!vars)
  BY <1>1 DEF Doubtful, WireAcks, Inferred, Requests!vars, Outstanding, Summaries, Summary
<1>2. CASE Advance
  <2>1. performed' = performed /\ driver' = driver
    BY <1>2 DEF Advance, physicalVars, driverVars
  <2>2. Outstanding' = Outstanding
    BY <1>2, AdvanceAges, OutstandingSame
  <2> QED BY <2>1, <2>2, <1>1
<1>3. ASSUME NEW h, Credited(h), driver' = driver PROVE [Requests!Next]_(Requests!vars)
  <2> DEFINE c == controls[1]
             ops == Requests!OperationsOf(c.command)
  <2>1. controls # <<>> /\ Outstanding' = Outstanding
    BY <1>3, HeadKeepsOutstanding DEF Credited, HeadBecomes
  <2>2. Outstanding # <<>> /\ Head(Outstanding).command = c.command
    BY <1>0, <2>1, SummariesTail DEF Outstanding, Summary
  <2>3. CASE performed' = performed
    BY <1>1, <1>3, <2>1, <2>3
  <2>4. CASE ~c.acknowledged /\ performed' = Append(performed, c.operation)
    <3>1. OperationOK(c) /\ performed = Done(c)
      BY <1>0, <2>1, <2>4, HistoryExact DEF PhaseOK, OperationsOK
    <3>2. Len(performed) < Len(ops) /\ performed' = Append(performed, ops[Len(performed) + 1])
      <4>1. CASE c.command # "start"
        BY <2>4, <3>1, <4>1 DEF OperationOK, Done, Requests!OperationsOf
      <4>2. CASE c.command = "start" /\ c.resetFirst
        BY <2>4, <3>1, <4>2 DEF OperationOK, Done, Requests!OperationsOf
      <4>3. CASE c.command = "start" /\ ~c.resetFirst
        <5>1. performed = <<"reset">> /\ c.operation = "start"
          BY <2>4, <3>1, <4>3 DEF OperationOK, Done
        <5>2. ops = <<"reset", "start">>
          BY <4>3 DEF Requests!OperationsOf
        <5> QED BY <2>4, <5>1, <5>2
      <4> QED BY <4>1, <4>2, <4>3
    <3>3. Requests!Confirm
      BY <1>3, <2>1, <2>2, <3>2
         DEF Requests!Confirm, Outstanding, Summaries, Summary, Doubtful, WireAcks, Inferred
    <3> QED BY <3>3 DEF Requests!Next
  <2> QED BY <1>3, <2>3, <2>4 DEF Credited
<1>4. ASSUME NEW c \in Commands, RequestControl(c) PROVE Requests!Accept(c)
  <2> DEFINE new == NewTransaction(c)
  <2>1. new.id = nextId + 1 /\ new.command = c
    BY DEF NewTransaction, Unanswered
  <2>2. /\ controls' = Append(controls, new) /\ performed' = performed /\ driver' = driver
        /\ Len(controls) < ControlLimit /\ nextId + 1 \in 1 .. MaxId
    BY <1>4 DEF RequestControl, physicalVars, driverVars, HasSlot, TypeOK
  <2>3. new \in Transaction
    BY <1>4, <2>2, UnansweredType DEF OperationsOf, Commands, NewTransaction
  <2>4. Outstanding' = Append(Outstanding, [id |-> nextId + 1, command |-> c])
    BY <1>0, <2>1, <2>2, <2>3, SummariesAppend DEF Outstanding, Summary
  <2>5. \A i \in DOMAIN Outstanding : nextId + 1 > Outstanding[i].id
    <3>1. ASSUME NEW i \in 1 .. Len(controls) PROVE nextId + 1 > Summary(controls[i]).id
      <4>1. controls[i] \in Transaction /\ controls[i].id <= nextId
        BY <1>0 DEF QueueOK
      <4>2. controls[i].id \in Nat
        BY <4>1 DEF Transaction
      <4>3. nextId \in Nat
        BY DEF TypeOK
      <4> QED BY <4>1, <4>2, <4>3 DEF Summary
    <3>2. DOMAIN Outstanding = 1 .. Len(controls)
      BY <1>0 DEF Outstanding, Summaries
    <3> QED BY <1>0, <3>1, <3>2, SummariesOf DEF Outstanding
  <2>6. Len(Outstanding) < ControlLimit
    BY <1>0, <2>2, SummariesOf DEF Outstanding
  <2> QED BY <2>2, <2>4, <2>5, <2>6
         DEF Requests!Accept, Outstanding, Summaries, Summary, Doubtful, WireAcks, Inferred
<1>5. CASE DeliverReply /\ AnswersHead
  <2>1. controls # <<>> /\ controls' = Tail(controls) /\ performed' = <<>> /\ driver' = driver
    BY <1>5 DEF DeliverReply, AnswersHead, driverVars
  <2>2. performed = OperationsOf(controls[1].command) \/ controls[1].command \in Doubtful(driver)
    <3>1. replies # <<>> /\ 1 \in AnswerIds
      BY <1>5 DEF DeliverReply, AnswersHead, AnswerIds, TypeOK
    <3>2. controls[1].delivering
      BY <2>1, <3>1 DEF AnswerMatchesControl
    <3>3. controls[1].command \in Commands
      <4>1. controls[1] \in Transaction
        BY <1>0, <2>1
      <4> QED BY <4>1 DEF Transaction
    <3> QED BY <2>1, <3>2, <3>3, PhaseMeansConfirmed DEF ConfirmedBeforeAnswered, AnswerConfirmed
  <2>3. Outstanding # <<>> /\ Outstanding' = Tail(Outstanding)
    BY <1>0, <2>1, SummariesTail DEF Outstanding
  <2>4. Head(Outstanding).command = controls[1].command
    BY <1>0, <2>1, SummariesTail DEF Outstanding, Summary
  <2>5. Requests!Answer
    BY <2>1, <2>2, <2>3, <2>4
       DEF Requests!Answer, Requests!OperationsOf, OperationsOf, Outstanding, Summaries, Summary,
           Doubtful, WireAcks, Inferred
  <2> QED BY <2>5 DEF Requests!Next
<1>6. CASE Stop
  <2>1. Outstanding' = <<>> /\ performed' = <<>>
    BY <1>6 DEF Stop, Outstanding, Summaries
  <2>2. Doubtful(driver)' \in {{}, {"tare"}}
    BY DEF Doubtful, WireAcks, Inferred, Commands
  <2>3. Requests!Abandon
    BY <2>1, <2>2 DEF Requests!Abandon, Requests!Scale, Outstanding, Summaries, Summary
  <2> QED BY <2>3 DEF Requests!Next
<1>7. ASSUME UNCHANGED <<controls, performed, driver>> PROVE [Requests!Next]_(Requests!vars)
  BY <1>1, <1>7 DEF Outstanding
<1>8. ASSUME NEW h, HeadBecomes(h), UNCHANGED <<performed, driver>> PROVE [Requests!Next]_(Requests!vars)
  BY <1>1, <1>8, HeadKeepsOutstanding
<1> QED
  <2>1. CASE Source
    <3>1. CASE WeightEvent
      BY <3>1, <1>7, <1>8, SampleHead DEF WeightEvent, WeightArrives, SampleTaken
    <3>2. CASE WeightConfirms
      BY <3>2, <1>3, WeightCredits DEF WeightConfirms, WeightArrives
    <3>3. CASE SourceAnswers
      <4>1. driver' = driver
        BY <3>3 DEF SourceAnswers
      <4>2. CASE Matches(wire[1].operation)
        BY <3>3, <4>1, <4>2, <1>3, AnswerConfirms
      <4>3. CASE ~Matches(wire[1].operation)
        BY <3>3, <4>1, <4>3, <1>7 DEF SourceAnswers, AckEvent, RecordConfirmation
      <4> QED BY <4>2, <4>3
    <3> QED BY <2>1, <3>1, <3>2, <3>3, <1>7 DEF Source, ReadyEvent, InvalidEvent,
            SourceOmitsAnswer, physicalVars, driverVars
  <2>2. CASE Gateway
    <3>1. CASE \E c \in Commands : RequestControl(c)
      BY <3>1, <1>4 DEF Requests!Next, Requests!Commands, Commands
    <3> QED BY <2>2, <1>7, <3>1 DEF Gateway, RejectCommand, Pair, StartStream, ApplySetting,
            physicalVars, driverVars
  <2>3. CASE Tick
    BY <2>3, <1>7, <1>8, WriteHead, AnswerHead DEF Tick, TickSourceFails, TickUnconfirmed,
       TickWrites, TickAnswers, physicalVars, driverVars
  <2>4. CASE DeliverReply /\ ~AnswersHead
    BY <2>4, <1>7 DEF DeliverReply, driverVars
  <2>5. CASE EndGateway \/ DeliverWeight \/ UNCHANGED vars
    BY <2>5, <1>7 DEF EndGateway, DeliverWeight, vars, physicalVars, driverVars
  <2> QED BY <2>1, <2>2, <2>3, <2>4, <2>5, <1>2, <1>5, <1>6 DEF Next

\* Every step of the core is a step of the request queue it promises, or one
\* the gateway cannot tell: accept, confirm, answer, or abandon with the session.
THEOREM Refinement == Spec => RequestsKept
<1>1. Init => Requests!Init
  <2> SUFFICES ASSUME Init PROVE Requests!Init
    OBVIOUS
  <2>1. Outstanding = <<>> /\ performed = <<>>
    BY DEF Init, Outstanding, Summaries
  <2>2. Doubtful(driver) \in {{}, {"tare"}}
    BY DoubtfulIsTare
  <2> QED BY <2>1, <2>2 DEF Requests!Init, Requests!Scale, Outstanding, Summaries, Summary
<1>2. IInv /\ IInv' /\ PhaseOK /\ [Next]_vars => [Requests!Next]_(Requests!vars)
  BY RefinementStep DEF IInv
<1> QED BY <1>1, <1>2, InvariantHolds, PhaseHolds, PTL DEF Spec, RequestsKept, Requests!Spec
=============================================================================
