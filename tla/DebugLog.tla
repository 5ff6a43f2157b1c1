------------------------------ MODULE DebugLog ------------------------------
(***************************************************************************)
(* The scale's connection log (scale_debug.c): events are queued by any    *)
(* task, a worker writes them into the store of DebugStore, and the setup  *)
(* portal switches capture on and off, exports and clears.  The flash      *)
(* survives a restart, at any point of an erase or a write; calls to the   *)
(* flash may also fail.                                                    *)
(*                                                                         *)
(* The worker and the portal hold store_lock from the moment they enter to *)
(* their last access; capture may be switched meanwhile.                   *)
(***************************************************************************)
EXTENDS DebugStore

CONSTANTS QueueSize,  \* length of s_queue
          MaxSeq,     \* bound: sequence numbers
          MaxFaults   \* bound: restarts and flash calls that fail

ASSUME LogAssumption == QueueSize \in Nat /\ MaxSeq \in Nat /\ MaxFaults \in Nat

VARIABLES
  header, flash,      \* what the flash holds; the header is "blank", "ours" or "torn"
  saved,              \* capture is on, in NVS
  store,              \* s_store
  enabled,            \* s_info.enabled
  changed,            \* s_generation is not the worker's generation
  queue,              \* events in s_queue
  lost,               \* events were dropped since the last report of it
  pc, got, on, recording,  \* the worker and its locals
  portal,             \* what the portal's handler waits for
  newest,             \* history: the last record whose append returned, 0 after a clear
  wiped,              \* history: cleared, and capture not switched on since
  failed,             \* history: a flash call failed since capture was switched on
  faults              \* counter for the bound

disk == <<header, flash>>
worker == <<pc, got, on, recording>>
history == <<newest, wiped, failed>>
vars == <<disk, saved, store, enabled, changed, queue, lost, worker, portal, history, faults>>

Booted(capture) ==
  /\ store' = Closed /\ enabled' = capture /\ changed' = TRUE /\ queue' = 0 /\ lost' = FALSE
  /\ pc' = "receive" /\ got' = FALSE /\ on' = FALSE /\ recording' = FALSE /\ portal' = "idle"

Init ==
  /\ header = "blank" /\ flash = AllBlank /\ saved = FALSE
  /\ store = Closed /\ enabled = FALSE /\ changed = TRUE /\ queue = 0 /\ lost = FALSE
  /\ pc = "receive" /\ got = FALSE /\ on = FALSE /\ recording = FALSE /\ portal = "idle"
  /\ newest = 0 /\ wiped = FALSE /\ failed = FALSE /\ faults = 0

-----------------------------------------------------------------------------
(* The store, opened and appended to under the lock.                       *)

\* open_store: the store as it is, or as the flash has it.
Opened == IF store.ready THEN store ELSE Scan(flash)
Usable == store.ready \/ OpenResult(header, flash) = "ok"
Creatable == ~store.ready /\ OpenResult(header, flash) = "empty"

\* An append to an open store, which returns ...
Appends(s) ==
  LET at == Place(flash, s.next) IN
    /\ s.seq <= MaxSeq
    /\ flash' = Programmed(Prepared(flash, at), at, s.seq)
    /\ store' = Appended(s, flash, at)
    /\ newest' = s.seq /\ recording' = TRUE
    /\ UNCHANGED <<wiped, failed, faults>>
\* ... or fails, and closes the store.
Fault == faults < MaxFaults /\ faults' = faults + 1
AppendFails(s) ==
  /\ s.seq <= MaxSeq /\ Fault
  /\ flash' \in HalfAppended(flash, Place(flash, s.next))
  /\ store' = Closed /\ recording' = FALSE /\ failed' = TRUE
  /\ UNCHANGED <<newest, wiped>>

-----------------------------------------------------------------------------
(* The worker.                                                             *)

Receives ==
  /\ pc = "receive" /\ pc' = "enter"
  /\ got' = (queue > 0) /\ queue' = IF queue > 0 THEN queue - 1 ELSE queue
  /\ UNCHANGED <<disk, saved, store, enabled, changed, lost, on, recording, portal, history, faults>>

\* With the lock: has capture been switched since the last time?
Enters ==
  /\ pc = "enter" /\ pc' = "record" /\ changed' = FALSE
  /\ UNCHANGED <<saved, enabled, queue, lost, got, on, portal>>
MustStart == changed /\ enabled
\* The store is opened, created if it is not there, and gets a first record ...
Starts ==
  /\ Enters /\ MustStart /\ (Usable \/ Creatable)
  /\ header' = IF Creatable THEN "ours" ELSE header
  /\ Appends(Opened) \/ AppendFails(Opened)
\* ... or is not opened.
OpenFails ==
  /\ Enters /\ MustStart /\ ~store.ready /\ Fault
  /\ header' \in IF Creatable THEN {"blank", "torn"} ELSE {header}
  /\ recording' = FALSE /\ failed' = TRUE
  /\ UNCHANGED <<flash, store, newest, wiped>>
FindsForeign ==
  /\ Enters /\ MustStart /\ ~Usable /\ ~Creatable
  /\ recording' = FALSE
  /\ UNCHANGED <<disk, store, history, faults>>
StopsCapture ==
  /\ Enters /\ changed /\ ~enabled
  /\ recording' = FALSE /\ store' = IF Usable THEN Opened ELSE store
  /\ UNCHANGED <<disk, history, faults>>
Continues ==
  /\ Enters /\ ~changed
  /\ UNCHANGED <<disk, store, recording, history, faults>>

\* Capture is looked at again, and the event is written.
MayRecord == got /\ enabled /\ recording /\ store.ready
Records ==
  /\ pc = "record" /\ pc' = "report" /\ on' = enabled /\ got' = FALSE
  /\ \/ MayRecord /\ (Appends(store) \/ AppendFails(store))
     \/ ~MayRecord /\ UNCHANGED <<flash, store, recording, history, faults>>
  /\ UNCHANGED <<header, saved, enabled, changed, queue, lost, portal>>

\* Lost events are reported, at most once a minute.
MayReport == on /\ recording /\ store.ready /\ lost
Reports ==
  /\ pc = "report" /\ pc' = "receive" /\ on' = FALSE
  /\ \/ MayReport /\ (Appends(store) \/ AppendFails(store)) /\ lost' = FALSE
     \/ UNCHANGED <<flash, store, recording, lost, history, faults>>
  /\ UNCHANGED <<header, saved, enabled, changed, queue, got, portal>>

Worker == Receives \/ Starts \/ OpenFails \/ FindsForeign \/ StopsCapture \/ Continues \/ Records \/ Reports

-----------------------------------------------------------------------------
(* The other tasks, and the setup portal's handlers, which run in turn.    *)

\* lm_scale_debug_record: queued, or counted as lost when the queue is full or
\* the minute has had its sixty events.
Event ==
  /\ enabled
  /\ \/ queue < QueueSize /\ queue' = queue + 1 /\ UNCHANGED lost
     \/ ~lost /\ lost' = TRUE /\ UNCHANGED queue
  /\ UNCHANGED <<disk, saved, store, enabled, changed, worker, portal, history, faults>>

Switched_Changes(capture) == \* Mutant: only a change of the setting reaches the worker.
  /\ saved' = capture /\ enabled' = capture /\ changed' = (changed \/ capture # enabled)
  /\ wiped' = (wiped /\ ~capture) /\ failed' = FALSE
  /\ UNCHANGED <<disk, store, queue, lost, worker, newest, faults>>
Switched(capture) ==
  /\ saved' = capture /\ enabled' = capture /\ changed' = TRUE
  /\ wiped' = (wiped /\ ~capture) /\ failed' = FALSE
  /\ UNCHANGED <<disk, store, queue, lost, worker, newest, faults>>
Configure(capture) == portal = "idle" /\ Switched(capture) /\ UNCHANGED portal

LockFree == pc \in {"receive", "enter"}
Exports ==
  /\ portal = "idle" /\ LockFree
  /\ store' = IF Usable THEN Opened ELSE store
  /\ UNCHANGED <<disk, saved, enabled, changed, queue, lost, worker, portal, history, faults>>

\* lm_scale_debug_clear: capture is switched off, then the lock is taken, or
\* not in time ...
ClearBegins_On == \* Mutant: the log is cleared with capture on.
  /\ portal = "idle" /\ portal' = "clear"
  /\ UNCHANGED <<disk, saved, store, enabled, changed, queue, lost, worker, history, faults>>
ClearBegins == portal = "idle" /\ Switched(FALSE) /\ portal' = "clear"
ClearTimesOut ==
  /\ portal = "clear" /\ ~LockFree /\ portal' = "idle"
  /\ UNCHANGED <<disk, saved, store, enabled, changed, queue, lost, worker, history, faults>>
\* ... and the flash erased, unless there is nothing or something foreign.
ClearEnds ==
  /\ portal = "clear" /\ LockFree /\ portal' = "idle" /\ queue' = 0
  /\ UNCHANGED <<saved, enabled, changed, lost, worker>>
Clears ==
  /\ ClearEnds /\ Usable
  /\ header' = "ours" /\ flash' = AllBlank /\ store' = Scan(AllBlank)
  /\ newest' = 0 /\ wiped' = TRUE /\ UNCHANGED <<failed, faults>>
\* An erase that fails leaves the store open; a header that is not written does not.
ClearFails ==
  /\ ClearEnds /\ Usable /\ Fault
  /\ \E left \in HalfCleared(flash) : header' = left[1] /\ flash' = left[2]
  /\ store' \in {Opened} \cup (IF flash' = AllBlank THEN {Closed} ELSE {})
  /\ newest' = 0 /\ UNCHANGED <<wiped, failed>>
ClearsNothing ==
  /\ ClearEnds /\ ~Usable
  /\ wiped' = (Creatable \/ wiped) /\ UNCHANGED <<disk, store, newest, failed, faults>>
ClearFindsNoStore ==
  /\ ClearEnds /\ ~store.ready /\ Fault
  /\ UNCHANGED <<disk, store, history>>

-----------------------------------------------------------------------------
(* Restarts.                                                               *)

Restarts ==
  /\ Fault
  /\ Booted(saved) /\ failed' = FALSE
  /\ UNCHANGED <<saved, wiped>>
Crash == Restarts /\ UNCHANGED <<disk, newest>>
\* The power is lost while a record is written: the first one of a capture, an
\* event, or the report of lost events ...
PowerLostInAppend ==
  /\ Restarts /\ UNCHANGED newest
  /\ \/ /\ pc = "enter" /\ MustStart /\ (Usable \/ Creatable)
        /\ header' = IF Creatable THEN "ours" ELSE header
        /\ flash' \in HalfAppended(flash, Place(flash, Opened.next))
     \/ /\ (pc = "record" /\ MayRecord) \/ (pc = "report" /\ MayReport)
        /\ flash' \in HalfAppended(flash, Place(flash, store.next))
        /\ UNCHANGED header
\* ... while the header is written ...
PowerLostInCreate ==
  /\ Restarts /\ UNCHANGED <<flash, newest>>
  /\ pc = "enter" /\ MustStart /\ Creatable /\ header' = "torn"
\* ... or while the log is cleared.
PowerLostInClear ==
  /\ Restarts /\ portal = "clear" /\ LockFree /\ Usable
  /\ \E left \in HalfCleared(flash) : header' = left[1] /\ flash' = left[2]
  /\ newest' = 0

Portal ==
  \/ \E capture \in BOOLEAN : Configure(capture)
  \/ Exports \/ ClearBegins \/ ClearTimesOut \/ Clears \/ ClearFails \/ ClearsNothing
  \/ ClearFindsNoStore
PowerLost == Crash \/ PowerLostInAppend \/ PowerLostInCreate \/ PowerLostInClear
Next == Worker \/ Event \/ Portal \/ PowerLost

\* The worker waits for an event 250 ms at most, and its calls return.
Spec == Init /\ [][Next]_vars /\ WF_vars(Worker)

-----------------------------------------------------------------------------
(* Properties.                                                             *)

\* An export, which reads the ring from the next slot on, lists the records from
\* the oldest to the newest, whatever was torn or skipped.
OldestToNewest ==
  store.ready =>
    LET read(i) == flash[(store.next + i) % Capacity] IN
      \A i, j \in Slots : i < j /\ read(i) > 0 /\ read(j) > 0 => read(i) < read(j)

\* A record whose append returned stays in the flash until it is the oldest, or
\* the log is cleared: no later append, failure or restart damages the newest.
NewestSurvives == newest # 0 => \E s \in Slots : flash[s] = newest

\* The number of retained records, from which an erase subtracts those it
\* removes, is never below what the flash holds: it cannot wrap.
CountCovers == store.ready => Cardinality(Valid(flash)) <= store.count

\* A cleared log stays empty until capture is switched on again: no event that
\* was queued, or taken by the worker, before the clear is written into it.
ClearedStaysEmpty == wiped => Valid(flash) = {}

\* Capture that is on records, unless the flash fails or holds something else
\* (or the bound on sequence numbers is reached): no switch is missed.
Full == Opened.seq > MaxSeq
CaptureRecords ==
  enabled ~> recording \/ ~enabled \/ failed \/ (~Usable /\ ~Creatable) \/ Full
=============================================================================
