------------------------- MODULE ControllerRuntime -------------------------
(***************************************************************************)
(* The controller's main task (controller_runtime.c, app_main.c): edits of *)
(* the user, which are shown at once and sent later, against the values    *)
(* the machine link reports meanwhile.  An iteration of its loop handles   *)
(* an event, merges the reported values if there are news, and sends what  *)
(* is due; the link's tasks run between the steps.                         *)
(***************************************************************************)
EXTENDS Naturals

CONSTANTS Deferred,   \* fields that are sent after a pause: temperature, times, doses
          Immediate,  \* fields that are sent at once: steam, standby, dose mode
          Recipe,     \* fields that a preset stores
          Values,     \* values of a field
          Unknown,    \* what the link reports of a field that was never loaded
          MaxEdits,   \* bound: edits of the user
          MaxReports  \* bound: changes at the machine

Fields == Deferred \cup Immediate

ASSUME RuntimeAssumption ==
  /\ Deferred \cap Immediate = {} /\ Recipe \subseteq Fields
  /\ Values # {} /\ Unknown \notin Values
  /\ MaxEdits \in Nat /\ MaxReports \in Nat

VARIABLES
  values,           \* state.values, which are shown
  screen,           \* state.screen: the values, or the presets
  hold, held,       \* local_value_hold: mask and values
  fresh,            \* it has not expired
  delayed, due,     \* delayed_machine_send: mask; its time has come
  link,             \* the values of lm_ctrl_machine_link_get_values
  news,             \* the link's status version is not the one last seen
  pc,               \* where the loop is
  chosen, wish,     \* history: choices neither sent nor reported yet
  loaded,           \* history: stored values replaced those shown since a merge
  edits, reports    \* counters for the bounds

local == <<values, hold, held, fresh, delayed, due>>
remote == <<link, news>>
history == <<chosen, wish, loaded>>
counts == <<edits, reports>>
vars == <<local, screen, remote, pc, history, counts>>

TypeOK ==
  /\ values \in [Fields -> Values] /\ held \in [Fields -> Values] /\ wish \in [Fields -> Values]
  /\ link \in [Fields -> Values \cup {Unknown}]
  /\ hold \subseteq Fields /\ delayed \subseteq Fields /\ chosen \subseteq Fields
  /\ fresh \in BOOLEAN /\ due \in BOOLEAN /\ news \in BOOLEAN /\ loaded \in BOOLEAN
  /\ screen \in {"main", "presets"} /\ pc \in {"wait", "merge", "send"}
  /\ edits \in 0 .. MaxEdits /\ reports \in 0 .. MaxReports

Init ==
  /\ values \in [Fields -> Values] /\ screen = "main"
  /\ link = [f \in Fields |-> Unknown]
  /\ held = values /\ wish = values
  /\ hold = {} /\ delayed = {} /\ chosen = {}
  /\ fresh = FALSE /\ due = FALSE /\ news = FALSE /\ loaded = FALSE /\ pc = "wait"
  /\ edits = 0 /\ reports = 0

-----------------------------------------------------------------------------
(* Holds and sends.                                                        *)

\* f with g's values on the fields of mask.
Over(f, g, mask) == [x \in Fields |-> IF x \in mask THEN g[x] ELSE f[x]]

\* note_local_value_hold, which takes over all values and renews every hold.
Held_Fields(mask) == mask \* Mutant: the hold of a field replaces that of another.
Held(mask) == hold \cup mask
Note(mask, vals) == hold' = Held(mask) /\ held' = vals /\ fresh' = TRUE

\* lm_ctrl_machine_link_queue_values: the link reports what it is to send.
Queue(mask, vals) ==
  /\ link' = Over(link, vals, mask)
  /\ news' = (news \/ \E f \in mask : vals[f] # link[f])

Edits(new, mask) ==
  /\ pc = "wait" /\ edits < MaxEdits
  /\ edits' = edits + 1 /\ pc' = "merge"
  /\ values' = new /\ Note(mask, new)
  /\ UNCHANGED reports
\* To be sent after a pause, which starts anew ...
Defers(new, mask) ==
  /\ Edits(new, mask)
  /\ delayed' = delayed \cup mask /\ due' = FALSE
  /\ UNCHANGED remote
\* ... or at once.
Sends(new, mask) ==
  /\ Edits(new, mask) /\ Queue(mask, new)
  /\ delayed' = delayed \ mask /\ due' = (due /\ delayed' # {})
  /\ chosen' = chosen \ mask /\ UNCHANGED <<wish, loaded>>

\* lm_ctrl_runtime_handle_input_event: the ring changes the field in focus ...
Rotates(f, v) ==
  /\ screen = "main" /\ f \in Deferred
  /\ Defers([values EXCEPT ![f] = v], {f})
  /\ chosen' = chosen \cup {f} /\ wish' = [wish EXCEPT ![f] = v]
  /\ UNCHANGED <<screen, loaded>>
RotatesSwitch(f, v) ==
  /\ screen = "main" /\ f \in Immediate
  /\ Sends([values EXCEPT ![f] = v], {f}) /\ UNCHANGED screen
\* ... or selects a preset, and treats the field in focus as if it was changed.
Selects(f) ==
  /\ screen = "presets" /\ f \in Deferred
  /\ Defers(values, {f}) /\ UNCHANGED <<history, screen>>
SelectsSwitch(f) ==
  /\ screen = "presets" /\ f \in Immediate
  /\ Sends(values, {f}) /\ UNCHANGED screen
Toggles(f, v) == Sends([values EXCEPT ![f] = v], {f}) /\ screen' = "main"
LoadsPreset(preset) ==
  /\ screen = "presets" /\ screen' = "main"
  /\ Sends(Over(values, preset, Recipe), Recipe)

\* A tick of the timer, or an event that edits nothing.
Wakes == pc = "wait" /\ pc' = "merge" /\ UNCHANGED <<local, screen, remote, history, counts>>
OpensOrCloses ==
  /\ pc = "wait" /\ pc' = "merge" /\ edits < MaxEdits
  /\ screen' \in {"main", "presets"} \ {screen}
  /\ UNCHANGED <<local, remote, history, counts>>

\* reconcile_local_value_hold: a held value that is reported is held no more.
Reported == {f \in hold : link[f] = held[f]}
\* should_keep_local_float, should_keep_local_bool, should_keep_local_int
Keeps_ForEver(f) == f \in hold \ Reported \* Mutant: a hold never expires.
Keeps(f) == f \in hold \ Reported /\ fresh
\* merge_loaded_values
Merged_Unloaded == Over(link, values, {f \in Fields : Keeps(f)}) \* Mutant: loaded_mask is not asked.
Merged_Anyway == Over(link, values, {f \in Fields : link[f] = Unknown}) \* Mutant: holds are ignored.
Merged == Over(link, values, {f \in Fields : Keeps(f) \/ link[f] = Unknown})

\* lm_ctrl_runtime_handle_machine_status_change
Merges ==
  /\ pc = "merge" /\ news
  /\ values' = Merged /\ hold' = hold \ Reported
  /\ chosen' = chosen \ Reported /\ loaded' = FALSE
  /\ news' = FALSE /\ pc' = "send"
  /\ UNCHANGED <<held, fresh, delayed, due, screen, link, wish, counts>>
MergesNothing ==
  /\ pc = "merge" /\ ~news /\ pc' = "send"
  /\ UNCHANGED <<local, screen, remote, history, counts>>

\* lm_ctrl_runtime_handle_preset_change: the portal stored a preset or a
\* setting.  ctrl_state_refresh_presets takes over the values stored last with
\* the presets, in place of what is shown and of what the user chose.
Refreshes(stored) ==
  /\ pc = "send" /\ edits < MaxEdits /\ edits' = edits + 1
  /\ values' = stored /\ chosen' = {} /\ wish' = stored /\ loaded' = TRUE
  /\ UNCHANGED <<hold, held, fresh, delayed, due, screen, remote, pc, reports>>

\* maybe_flush_delayed_machine_send
Flushes ==
  /\ pc = "send" /\ due /\ pc' = "wait"
  /\ Queue(delayed, values) /\ Note(delayed, values)
  /\ delayed' = {} /\ due' = FALSE /\ chosen' = chosen \ delayed /\ wish' = values
  /\ UNCHANGED <<values, screen, loaded, counts>>
FlushesNothing ==
  /\ pc = "send" /\ ~due /\ pc' = "wait"
  /\ UNCHANGED <<local, screen, remote, history, counts>>

-----------------------------------------------------------------------------
(* Time and the machine link.                                              *)

\* DELAYED_MACHINE_SEND_US are over.
DelayEnds ==
  /\ delayed # {} /\ ~due /\ due' = TRUE
  /\ UNCHANGED <<values, hold, held, fresh, delayed, screen, remote, pc, history, counts>>
\* LOCAL_VALUE_HOLD_US are over, which is long after the send.
HoldEnds ==
  /\ fresh /\ delayed = {} /\ fresh' = FALSE
  /\ UNCHANGED <<values, hold, held, delayed, due, screen, remote, pc, history, counts>>
\* A dashboard, a confirmation or a refusal changes a reported value.
Reports(f, v) ==
  /\ reports < MaxReports /\ reports' = reports + 1
  /\ v # link[f] /\ link' = [link EXCEPT ![f] = v] /\ news' = TRUE
  /\ UNCHANGED <<local, screen, pc, history, edits>>
\* A synchronisation, which the loop requests now and then, ends.
Synchronizes ==
  /\ ~news /\ news' = TRUE
  /\ UNCHANGED <<local, screen, link, pc, history, counts>>

Loop == Wakes \/ Merges \/ MergesNothing \/ Flushes \/ FlushesNothing
Next ==
  \/ Loop \/ OpensOrCloses
  \/ \E f \in Fields :
       \/ Selects(f) \/ SelectsSwitch(f)
       \/ \E v \in Values : Rotates(f, v) \/ RotatesSwitch(f, v) \/ Reports(f, v)
  \/ \E f \in Immediate, v \in Values : Toggles(f, v)
  \/ \E preset \in [Recipe -> Values] : LoadsPreset(preset)
  \/ \E stored \in [Fields -> Values] : Refreshes(stored)
  \/ DelayEnds \/ HoldEnds \/ Synchronizes

\* The loop is woken again and again, time passes, and the link synchronizes.
Spec ==
  /\ Init /\ [][Next]_vars
  /\ WF_vars(Loop) /\ WF_vars(DelayEnds) /\ WF_vars(HoldEnds) /\ WF_vars(Synchronizes)

-----------------------------------------------------------------------------
(* Properties.                                                             *)

\* What the user chose and neither was sent nor is reported by the machine yet
\* waits to be sent, and it is what maybe_flush_delayed_machine_send, which
\* takes the values that are shown then, will send: no report that was merged
\* meanwhile, no other edit and no hold that was lost replaces it.  (A refresh of
\* the presets does: Refreshes ends the claim.)
ChoiceIsSent ==
  \A f \in chosen : f \in delayed /\ f \in hold /\ fresh /\ values[f] = wish[f]

\* What is shown differs from what the link reports only for a field that is
\* held, or until news are merged, or since stored values were loaded over it:
\* nothing that was reported is lost.
DifferenceIsHeld ==
  \A f \in Fields : values[f] # link[f] => link[f] = Unknown \/ f \in hold \/ news \/ loaded

\* When the user and the machine rest, what is shown is what the machine has:
\* no hold and no merge leaves an older value for ever.
FollowsMachine == <>[](\A f \in Fields : link[f] \in {values[f], Unknown})
=============================================================================
