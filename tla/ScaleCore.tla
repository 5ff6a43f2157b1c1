----------------------------- MODULE ScaleCore -----------------------------
(***************************************************************************)
(* The virtual scale's session and transaction core                        *)
(* (scale_adapter_core.c).  It sits between the physical scale (source)    *)
(* and the machine's gateway: control requests of the gateway become       *)
(* writes to the source, one at a time, and are answered when the source   *)
(* has confirmed them.  A driver (scale_acaia.c, scale_bookoo.c) turns the *)
(* notifications of the source into evidence: an ACK on the wire names an  *)
(* operation but no write, and observe_control infers that an operation    *)
(* was done from what the source measures after the write.                 *)
(*                                                                         *)
(* Every timestamp of the code is kept as its age, which stops growing one *)
(* past the only limit it is compared with: `now - x > limit' is           *)
(* `age > limit'.  Weight values are abstracted; what is kept is whether   *)
(* the latest sample predates the newest tare write.                       *)
(***************************************************************************)
EXTENDS Naturals, Sequences

CONSTANTS ControlLimit,   \* LM_SCALE_CONTROL_LIMIT
          ReplyLimit,     \* LM_SCALE_REPLY_LIMIT
          FreshMs,        \* LM_SCALE_FRESH_MS, in clock units
          AckMs,          \* control_timeout_ms, in clock units
          MaxId,          \* bound: control requests accepted per source session
          Drivers         \* the drivers a source session may use

ASSUME CoreAssumption ==
  /\ ControlLimit \in Nat \ {0}
  /\ ReplyLimit \in Nat \ {0}
  /\ FreshMs \in Nat
  /\ AckMs \in Nat
  /\ MaxId \in Nat
  /\ Drivers \subseteq {"acaia", "bookoo"}

VARIABLES
  ready, hasWeight, weightAge,        \* the source session
  paired, streaming, weightPending,   \* the gateway session
  nextId, lastId, lastCommand,
  controls, replies, error,
  driver, pending,  \* the driver, and the operation its observe_control waits for
  wire,         \* the source: writes it has not answered yet, oldest first
  performed,    \* history: operations the source confirmed for controls[1]
  staleSample   \* history: no sample arrived since the newest accepted tare was written

sourceVars == <<ready, hasWeight, weightAge>>
gatewayVars == <<paired, streaming, weightPending>>
idVars == <<nextId, lastId, lastCommand>>
driverVars == <<driver, pending>>
physicalVars == <<driverVars, wire, performed>>
vars == <<sourceVars, gatewayVars, idVars, controls, replies, error,
          physicalVars, staleSample>>

Commands == {"tare", "start", "stop", "reset"}
NoOperation == "none"
NoError == "none"
Errors == {"source", "gateway", "unconfirmed", "write"}

OperationsOf(c) == IF c = "start" THEN <<"reset", "start">> ELSE <<c>>

\* The Acaia scales acknowledge every operation, and the driver also infers a
\* tare; the BOOKOO scales acknowledge nothing, and the driver infers everything.
WireAcks(d) == IF d = "acaia" THEN Commands ELSE {}
Inferred(d) == IF d = "acaia" THEN {"tare"} ELSE Commands

\* Operations with evidence of both kinds: the ACK of a write that was inferred
\* already may still be on its way when the next one is written.
Doubtful(d) == WireAcks(d) \cap Inferred(d)

\* lm_scale_transaction_t; delays are ages at the moment of the evidence.
Transaction ==
  [command : Commands, operation : Commands, id : 1 .. MaxId,
   sent : BOOLEAN, acknowledged : BOOLEAN, delivering : BOOLEAN,
   resetFirst : BOOLEAN, sampled : BOOLEAN,
   age : 0 .. AckMs + 1, ackDelay : 0 .. AckMs + 1,
   sampleDelay : 0 .. AckMs + 1]
Reply == [id : 0 .. MaxId, age : 0 .. FreshMs + 1]
Write == [id : 1 .. MaxId, operation : Commands]

TypeOK ==
  /\ ready \in BOOLEAN /\ hasWeight \in BOOLEAN /\ weightAge \in 0 .. FreshMs + 1
  /\ paired \in BOOLEAN /\ streaming \in BOOLEAN /\ weightPending \in BOOLEAN
  /\ nextId \in 0 .. MaxId /\ lastId \in 0 .. MaxId /\ lastCommand \in Commands
  /\ controls \in Seq(Transaction) /\ Len(controls) <= ControlLimit
  /\ replies \in Seq(Reply) /\ Len(replies) <= ReplyLimit
  /\ error \in Errors \cup {NoError}
  /\ driver \in Drivers /\ pending \in Commands \cup {NoOperation}
  /\ wire \in Seq(Write)
  /\ performed \in Seq(Commands)
  /\ staleSample \in BOOLEAN

-----------------------------------------------------------------------------
\* lm_scale_core_init: zeroed memory.
Init ==
  /\ ready = FALSE /\ hasWeight = FALSE /\ weightAge = 0
  /\ paired = FALSE /\ streaming = FALSE /\ weightPending = FALSE
  /\ nextId = 0 /\ lastId = 0 /\ lastCommand = "tare"
  /\ controls = <<>> /\ replies = <<>> /\ error = NoError
  /\ driver \in Drivers /\ pending = NoOperation
  /\ wire = <<>> /\ performed = <<>> /\ staleSample = FALSE

Fresh == error = NoError /\ ready /\ hasWeight /\ weightAge <= FreshMs

\* Mutant: the ACK alone releases the weight, without a new sample.
TarePending_AckOnly ==
  \E i \in DOMAIN controls :
    controls[i].command = "tare" /\ ~controls[i].acknowledged
TarePending ==
  \E i \in DOMAIN controls :
    controls[i].command = "tare" /\ ~controls[i].delivering

UnsentTare == \E i \in DOMAIN controls : controls[i].command = "tare" /\ ~controls[i].sent

Fail(e) == error' = e

\* reply(): a full queue is an error of the session.
QueueReply(id) ==
  IF Len(replies) = ReplyLimit
  THEN Fail("gateway") /\ UNCHANGED replies
  ELSE replies' = Append(replies, [id |-> id, age |-> 0]) /\ UNCHANGED error

Older(age, limit) == IF age > limit THEN age ELSE age + 1

Advance ==
  /\ weightAge' = Older(weightAge, FreshMs)
  /\ controls' = [i \in DOMAIN controls |->
       [controls[i] EXCEPT !.age = IF controls[i].sent THEN Older(@, AckMs) ELSE @]]
  /\ replies' = [i \in DOMAIN replies |-> [replies[i] EXCEPT !.age = Older(@, FreshMs)]]
  /\ UNCHANGED <<ready, hasWeight, gatewayVars, idVars, error, physicalVars, staleSample>>

-----------------------------------------------------------------------------
(* Events of the source: lm_scale_core_event.                              *)

ReadyEvent ==
  /\ error = NoError
  /\ ready' = TRUE
  /\ UNCHANGED <<hasWeight, weightAge, gatewayVars, idVars, controls, replies, error,
                 physicalVars, staleSample>>

\* A battery level above 100 or a weight that is not a representable number.
InvalidEvent ==
  /\ error = NoError
  /\ Fail("source")
  /\ UNCHANGED <<sourceVars, gatewayVars, idVars, controls, replies, physicalVars, staleSample>>

\* The first sample after a tare write is the one whose arrival counts.
IsFirstTareSample(c) == c.sent /\ ~c.delivering /\ c.command = "tare" /\ ~c.sampled

SampleTaken ==
  controls' = IF controls # <<>> /\ IsFirstTareSample(controls[1])
              THEN [controls EXCEPT ![1].sampled = TRUE, ![1].sampleDelay = controls[1].age]
              ELSE controls

WeightArrives ==
  /\ error = NoError
  /\ hasWeight' = TRUE
  /\ weightAge' = 0
  /\ weightPending' = (weightPending \/ (streaming /\ ~TarePending))
  /\ staleSample' = UnsentTare
  /\ UNCHANGED <<ready, paired, streaming, idVars, replies, error, driver, wire>>

\* A weight of which observe_control concludes nothing.
WeightEvent ==
  /\ WeightArrives
  /\ SampleTaken
  /\ UNCHANGED <<pending, performed>>

\* An ACK names an operation, never the write it answers.
Matches(op) == /\ controls # <<>>
               /\ controls[1].sent /\ ~controls[1].delivering
               /\ controls[1].operation = op
AckEvent(op) ==
  controls' = IF Matches(op)
              THEN [controls EXCEPT ![1].acknowledged = TRUE,
                      ![1].ackDelay = IF controls[1].acknowledged THEN @ ELSE controls[1].age]
              ELSE controls

\* performed records what was confirmed for the write of controls[1] itself.
RecordConfirmation(id, op) ==
  performed' = IF Matches(op) /\ controls[1].id = id /\ ~controls[1].acknowledged
               THEN Append(performed, op) ELSE performed

\* The head with the sample and the ACK of one notification.
SampledAndAcked(c) ==
  LET s == IF IsFirstTareSample(c) THEN [c EXCEPT !.sampled = TRUE, !.sampleDelay = c.age] ELSE c
  IN [s EXCEPT !.acknowledged = TRUE, !.ackDelay = IF c.acknowledged THEN @ ELSE c.age]

\* The same notification lets observe_control conclude that the operation it
\* waits for was done: zero weights for a tare, a timer that is zero, advances
\* or stands still for the others.
WeightConfirms ==
  /\ pending # NoOperation
  /\ WeightArrives
  /\ IF Matches(pending) THEN controls' = [controls EXCEPT ![1] = SampledAndAcked(controls[1])]
     ELSE SampleTaken
  /\ performed' = IF Matches(pending) /\ ~controls[1].acknowledged
                  THEN Append(performed, pending) ELSE performed
  /\ pending' = NoOperation

\* What is left of pending when the source answers op on the wire.
PendingAfter_Kept(op) == pending \* Mutant: the wire ACK leaves the driver waiting.
PendingAfter(op) == IF pending = op THEN NoOperation ELSE pending

SourceAnswers ==
  /\ error = NoError /\ wire # <<>>
  /\ AckEvent(wire[1].operation)
  /\ RecordConfirmation(wire[1].id, wire[1].operation)
  /\ pending' = PendingAfter(wire[1].operation)
  /\ wire' = Tail(wire)
  /\ UNCHANGED <<sourceVars, gatewayVars, idVars, replies, error, driver, staleSample>>

\* The ACK never comes.
SourceOmitsAnswer ==
  /\ wire # <<>> /\ wire' = Tail(wire)
  /\ UNCHANGED <<sourceVars, gatewayVars, idVars, controls, replies, error,
                 driverVars, performed, staleSample>>

-----------------------------------------------------------------------------
(* Frames of the gateway: lm_scale_core_command and command_frame.         *)

\* Stale source, bad frame, command before pairing or not one of those below.
RejectCommand ==
  /\ error = NoError
  /\ Fail("gateway")
  /\ UNCHANGED <<sourceVars, gatewayVars, idVars, controls, replies, physicalVars, staleSample>>

Pair ==
  /\ Fresh /\ controls = <<>>
  /\ paired' = TRUE /\ streaming' = FALSE /\ weightPending' = FALSE
  /\ QueueReply(0)
  /\ UNCHANGED <<sourceVars, idVars, controls, physicalVars, staleSample>>

StartStream ==
  /\ Fresh /\ paired
  /\ streaming' = TRUE /\ weightPending' = ~TarePending
  /\ UNCHANGED <<sourceVars, paired, idVars, controls, replies, error, physicalVars, staleSample>>

\* Settings the facade answers itself; one of them ends the weight stream.
ApplySetting(endsStream) ==
  /\ Fresh /\ paired
  /\ streaming' = (streaming /\ ~endsStream)
  /\ weightPending' = (weightPending /\ ~endsStream)
  /\ QueueReply(0)
  /\ UNCHANGED <<sourceVars, paired, idVars, controls, physicalVars, staleSample>>

\* A repeat of the latest request while that is still queued is coalesced.
IsRetry_Unsent(c) == \* Mutant: only requests not yet written are coalesced.
  /\ lastId # 0 /\ lastCommand = c
  /\ \E i \in DOMAIN controls : controls[i].id = lastId /\ ~controls[i].sent
IsRetry(c) == /\ lastId # 0 /\ lastCommand = c
              /\ \E i \in DOMAIN controls : controls[i].id = lastId

HasSlot_OffByOne == Len(controls) <= ControlLimit \* Mutant: one control too many.
HasSlot == Len(controls) < ControlLimit

\* A transaction with no evidence yet, its operation written or not.
Unanswered(id, c, op, resetFirst, sent) ==
  [command |-> c, operation |-> op, id |-> id, sent |-> sent,
   acknowledged |-> FALSE, delivering |-> FALSE, resetFirst |-> resetFirst,
   sampled |-> FALSE, age |-> 0, ackDelay |-> 0, sampleDelay |-> 0]
NewTransaction(c) ==
  Unanswered(nextId + 1, c, OperationsOf(c)[1], c = "start", FALSE)

RequestControl(c) ==
  /\ Fresh /\ paired /\ ~IsRetry(c)
  /\ HasSlot /\ nextId < MaxId
  /\ nextId' = nextId + 1 /\ lastId' = nextId + 1 /\ lastCommand' = c
  /\ controls' = Append(controls, NewTransaction(c))
  /\ weightPending' = (weightPending /\ c # "tare")
  /\ staleSample' = (staleSample \/ c = "tare")
  /\ UNCHANGED <<sourceVars, paired, streaming, replies, error, physicalVars>>

-----------------------------------------------------------------------------
(* lm_scale_core_tick, one action per way out of the function.             *)

SourceTimedOut == hasWeight /\ ~Fresh
Backpressured == replies # <<>> /\ replies[1].age > FreshMs
Healthy == error = NoError /\ ~SourceTimedOut /\ ~Backpressured
HasActive == controls # <<>> /\ ~controls[1].delivering

\* The evidence a control needs, and how long after the write it was complete.
Evident_Written(c) == c.sent \* Mutant: a successful write counts as confirmation.
Evident(c) == c.acknowledged /\ (c.command = "tare" => c.sampled)
EvidenceDelay_AtTick(c) == c.age \* Mutant: judged when the worker looks at it.
EvidenceDelay(c) ==
  IF c.command = "tare" /\ c.sampleDelay > c.ackDelay THEN c.sampleDelay ELSE c.ackDelay
Late_OnlyEvident(c) == Evident(c) /\ EvidenceDelay(c) > AckMs \* Mutant: waits for ever.
Late(c) == (IF Evident(c) THEN EvidenceDelay(c) ELSE c.age) > AckMs

TickSourceFails ==
  /\ error = NoError
  /\ SourceTimedOut \/ Backpressured \/ (HasActive /\ ~Fresh)
  /\ Fail("source")
  /\ UNCHANGED <<sourceVars, gatewayVars, idVars, controls, replies, physicalVars, staleSample>>

TickUnconfirmed ==
  /\ Healthy /\ HasActive /\ Fresh
  /\ controls[1].sent /\ Late(controls[1])
  /\ Fail("unconfirmed")
  /\ UNCHANGED <<sourceVars, gatewayVars, idVars, controls, replies, physicalVars, staleSample>>

\* The reset in front of a start is confirmed.
ResetDone_Unanswered(c) == c.sent /\ c.resetFirst \* Mutant: does not wait for the ACK.
ResetDone(c) == c.sent /\ ~Late(c) /\ c.acknowledged /\ c.resetFirst

\* source_write and control_written both succeed: the driver takes no write while
\* it waits for the evidence of an earlier one.
WriteTaken(id, op) ==
  /\ pending = NoOperation
  /\ pending' = IF op \in Inferred(driver) THEN op ELSE NoOperation
  /\ wire' = IF op \in WireAcks(driver)
             THEN Append(wire, [id |-> id, operation |-> op]) ELSE wire

\* Write the operation of controls[1]: the first one, or the start after its reset.
TickWrites ==
  /\ Healthy /\ HasActive /\ Fresh
  /\ LET c == controls[1]
         resetDone == ResetDone(c)
         op == IF resetDone THEN "start" ELSE c.operation
     IN /\ ~c.sent \/ resetDone
        /\ controls' = [controls EXCEPT ![1] =
             Unanswered(c.id, c.command, op, c.resetFirst /\ ~resetDone, TRUE)]
        /\ staleSample' = (staleSample \/ c.command = "tare")
        /\ \/ WriteTaken(c.id, op) /\ UNCHANGED error
           \/ Fail("write") /\ UNCHANGED <<wire, pending>>
  /\ UNCHANGED <<sourceVars, gatewayVars, idVars, replies, driver, performed>>

TickAnswers ==
  /\ Healthy /\ HasActive /\ Fresh
  /\ LET c == controls[1] IN
       /\ c.sent /\ ~Late(c) /\ Evident(c) /\ ~c.resetFirst
       /\ QueueReply(c.id)
       /\ IF Len(replies) = ReplyLimit
          THEN UNCHANGED <<controls, weightPending>>
          ELSE /\ controls' = [controls EXCEPT ![1].delivering = TRUE]
               /\ weightPending' = (weightPending \/ (c.command = "tare" /\ streaming))
  /\ UNCHANGED <<sourceVars, paired, streaming, idVars, physicalVars, staleSample>>

Tick == TickSourceFails \/ TickUnconfirmed \/ TickWrites \/ TickAnswers

-----------------------------------------------------------------------------
(* A notification NimBLE took: lm_scale_core_peek, then _delivered.        *)

AnswersHead_Latest == \* Mutant: compared with the latest request, not the oldest.
  replies[1].id # 0 /\ controls # <<>> /\ lastId = replies[1].id
AnswersHead_AnyReply == controls # <<>> \* Mutant: every delivered reply ends a control.
AnswersHead == replies[1].id # 0 /\ controls # <<>> /\ controls[1].id = replies[1].id

DeliverReply ==
  /\ Fresh /\ replies # <<>>
  /\ replies' = Tail(replies)
  /\ IF AnswersHead THEN controls' = Tail(controls) /\ performed' = <<>>
                    ELSE UNCHANGED <<controls, performed>>
  /\ UNCHANGED <<sourceVars, gatewayVars, idVars, error, driverVars, wire, staleSample>>

WeightVisible == Fresh /\ replies = <<>> /\ weightPending /\ streaming /\ ~TarePending

DeliverWeight ==
  /\ WeightVisible
  /\ weightPending' = FALSE
  /\ UNCHANGED <<sourceVars, paired, streaming, idVars, controls, replies, error,
                 physicalVars, staleSample>>

\* lm_scale_core_end_gateway, when the gateway comes or goes with no control
\* pending; with one pending, gateway_gap also stops the source (Stop).
EndGateway ==
  /\ error = NoError /\ controls = <<>>
  /\ paired' = FALSE /\ streaming' = FALSE /\ weightPending' = FALSE
  /\ lastId' = 0 /\ replies' = <<>>
  /\ UNCHANGED <<sourceVars, nextId, lastCommand, controls, error, physicalVars, staleSample>>

\* stop_links: lm_scale_core_init and the source link closed, so answers of
\* the source still on their way are lost.  Failures lead here, as does a
\* lost source or a gateway that leaves during a control.  The next session
\* resets its driver, another one when the settings say so.
Stop ==
  /\ ready' = FALSE /\ hasWeight' = FALSE /\ weightAge' = 0
  /\ paired' = FALSE /\ streaming' = FALSE /\ weightPending' = FALSE
  /\ nextId' = 0 /\ lastId' = 0 /\ lastCommand' = "tare"
  /\ controls' = <<>> /\ replies' = <<>> /\ error' = NoError
  /\ driver' \in Drivers /\ pending' = NoOperation
  /\ wire' = <<>> /\ performed' = <<>> /\ staleSample' = FALSE

StopOnError == error # NoError /\ Stop

Source == \/ ReadyEvent \/ InvalidEvent \/ WeightEvent \/ WeightConfirms
          \/ SourceAnswers \/ SourceOmitsAnswer
Gateway == \/ RejectCommand \/ Pair \/ StartStream
           \/ \E endsStream \in BOOLEAN : ApplySetting(endsStream)
           \/ \E c \in Commands : RequestControl(c)
Next == Advance \/ Source \/ Gateway \/ Tick \/ DeliverReply \/ DeliverWeight
        \/ EndGateway \/ Stop

Spec == Init /\ [][Next]_vars

\* The 25 ms callout re-arms itself at the end of every tick and time passes; a
\* failed call is followed by stop_links in the same callback.  Nothing is
\* assumed of the source, of the gateway or of notifications getting through.
FairSpec == Spec /\ WF_vars(Advance) /\ WF_vars(Tick) /\ WF_vars(StopOnError)

-----------------------------------------------------------------------------
(* Properties.                                                             *)

\* The gateway is answered only for what the source confirmed for this very
\* control: a start needs the reset, then the start, and a late ACK of the
\* operation before does not count (firmware/esp32/README.md: real operations
\* use driver confirmations).  True of every control a driver confirms in one
\* way: all those of the BOOKOO scales, the timer's of the Acaia scales.
AnswerConfirmed(commands) ==
  controls # <<>> /\ controls[1].delivering /\ controls[1].command \in commands =>
    performed = OperationsOf(controls[1].command)
ConfirmedBeforeAnswered == AnswerConfirmed(Commands \ Doubtful(driver))

\* "Tare accepts its explicit ACK plus a new sample, or a verified post-write
\* zero state" (firmware/esp32/README.md).  The Acaia driver breaks it: the ACK
\* of a tare that was inferred and answered already confirms the next one.
TareConfirmed == AnswerConfirmed({"tare"})

\* The ACK of a control and the control live and die together: an ACK in the
\* reply queue belongs to the oldest control, and a control that waits for
\* delivery has exactly one ACK queued - else it would block the queue for ever.
AnswerIds == {i \in DOMAIN replies : replies[i].id # 0}
AnswerMatchesControl ==
  /\ \A i \in AnswerIds : /\ controls # <<>>
                          /\ controls[1].delivering
                          /\ controls[1].id = replies[i].id
                          /\ \A j \in AnswerIds : i = j
  /\ controls # <<>> /\ controls[1].delivering => AnswerIds # {}

\* "Tare withholds old readings" (README): from the moment a tare is accepted
\* no weight frame can be read until a sample has arrived after its write.
TareWithholdsOldWeight == staleSample => ~WeightVisible

\* A delayed worker tick neither fails a control whose evidence arrived in time
\* nor accepts one whose evidence was late ("judge completion by when evidence
\* arrived, not a delayed worker tick").
EvidenceInTime(c) ==
  /\ c.acknowledged /\ c.ackDelay <= AckMs
  /\ c.command = "tare" => c.sampled /\ c.sampleDelay <= AckMs
ConfirmationJudgedByArrival ==
  controls # <<>> =>
    /\ controls[1].delivering => EvidenceInTime(controls[1])
    /\ error = "unconfirmed" => ~EvidenceInTime(controls[1])

\* A physical operation is written only when there is evidence of the one
\* before: an ACK, which names no write, can then answer only one of them.  Only
\* writes that were inferred meanwhile may still await theirs.
Confirming(op) == Matches(op) /\ ~controls[1].acknowledged
OneWriteInFlight ==
  \A i \in DOMAIN wire :
    wire[i].operation \notin Doubtful(driver) =>
      /\ i = Len(wire)
      /\ Confirming(wire[i].operation) /\ wire[i].id = controls[1].id

\* The driver and the core wait for the same operation: whatever order ACKs,
\* weights and writes come in, control_written never refuses a write of the core
\* (which would end the session) for evidence the core has already.
DriverAgrees == pending # NoOperation => Confirming(pending)

\* Consecutive retries are coalesced: two neighbours in the queue differ, while
\* start, stop, start stay three controls in that order.
RetriesCoalesced ==
  \A i \in 1 .. Len(controls) - 1 :
    /\ controls[i].command # controls[i + 1].command
    /\ controls[i].id < controls[i + 1].id

\* The core keeps the promise ScaleRequests states.
Requests == INSTANCE ScaleRequests WITH
  QueueLimit <- ControlLimit,
  doubtful <- Doubtful(driver),
  outstanding <- [i \in DOMAIN controls |-> [id |-> controls[i].id, command |-> controls[i].command]]
RequestsKept == Requests!Spec

\* Every accepted control leaves the queue - answered, or its session stopped -
\* even if the source goes silent or no notification gets through.
Queued(id) == \E i \in DOMAIN controls : controls[i].id = id
EveryControlEnds == \A id \in 1 .. MaxId : Queued(id) ~> ~Queued(id)
=============================================================================
