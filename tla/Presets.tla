------------------------------- MODULE Presets -------------------------------
(***************************************************************************)
(* The recipes and presets that the controller keeps in NVS                *)
(* (controller_state.c): one key for the schema, the current recipe, the   *)
(* settings and each preset, written one after the other by                *)
(* ctrl_state_persist, and read the same way by ctrl_state_load, which     *)
(* also understands the three older schemas and the single legacy blob.    *)
(* Two tasks do so without a lock: the main loop, which keeps a copy in    *)
(* RAM, and the portal, which loads, changes and persists, and then bumps  *)
(* the version that makes the main loop refresh its copy.  Power can fail  *)
(* between any two writes.                                                 *)
(*                                                                         *)
(* A recipe is a number in units of the fine step; 0 stands for the value  *)
(* that ctrl_state_init gives.  NVS itself is external: a key is written   *)
(* whole or not at all, and a write that returned survives a restart.      *)
(***************************************************************************)
EXTENDS Naturals, FiniteSets, SequencesExt

CONSTANTS MaxCount,      \* preset slots (CTRL_PRESET_MAX_COUNT)
          MinCount,      \* fewest active slots
          DefaultCount,  \* slots active by default, and in the legacy blob
          Inputs,        \* recipes a user can enter
          Top,           \* the largest recipe
          MaxEvents      \* bound: inputs, portal requests, failed writes and
                         \* power losses, together

ASSUME CountsAssumption ==
  /\ {MinCount, DefaultCount, MaxCount} \subseteq Nat \ {0}
  /\ MinCount <= DefaultCount /\ DefaultCount <= MaxCount
  /\ Top \in Nat /\ Inputs \subseteq 0..Top /\ MaxEvents \in Nat

VARIABLES nvs,     \* the keys of the namespace "ctrl_state"
          ram,     \* the main loop's ctrl_state_t
          task,    \* where "main" and "portal" are
          news,    \* ctrl_state_preset_version() # last_preset_version
          told,    \* history: what the last undisturbed persist stored
          failed,  \* history: since the boot a write has failed, or a load has
                   \* found a Stray key
          left     \* events that the bound still allows

vars == <<nvs, ram, task, news, told, failed, left>>

Slots == 1..MaxCount
Fine == 1
Coarse == 2
Schema == 4

(***************************************************************************)
(* What a controller state holds, and its normalisation.                   *)
(***************************************************************************)
Defaults == [current |-> 0, count |-> DefaultCount, step |-> Fine,
             presets |-> [p \in Slots |-> 0]]

\* Rounds to the nearest step, half up, and stays within the limits.
Snap(v, step) == LET n == step * ((v + step \div 2) \div step)
                 IN IF n > Top THEN Top ELSE n

\* apply_advanced_settings without deletion.
Applied(s) ==
  [s EXCEPT !.current = Snap(s.current, s.step),
            !.presets = [p \in Slots |-> Snap(s.presets[p], s.step)]]

\* apply_advanced_settings with deletion: the slots hidden by a smaller
\* count are reset.
Configured(s, count, step) ==
  LET t == Applied([s EXCEPT !.count = count, !.step = step])
  IN IF count < s.count
     THEN [t EXCEPT !.presets = [p \in Slots |-> IF p > count THEN 0 ELSE @[p]]]
     ELSE t

(***************************************************************************)
(* The keys, in the orders in which they are read and written.             *)
(***************************************************************************)
SchemaKey == <<"schema", 0>>
Current == <<"current", 0>>
Settings == <<"settings", 0>>
Legacy == <<"persisted", 0>>
Preset(p) == <<"preset", p>>
Presets == [p \in Slots |-> Preset(p)]
ReadOrder == <<SchemaKey, Current>> \o Presets \o <<Settings, Legacy>>
WriteOrder == <<SchemaKey, Current, Settings>> \o Presets \o <<Legacy>>
Keys == ToSet(ReadOrder)

Missing == [form |-> "none", value |-> <<>>]
Blob(form, value) == [form |-> form, value |-> value]
Empty == [k \in Keys |-> Missing]

\* The size that the reader of a schema expects of a key: three floats
\* ("short"), the recipe with brew-by-weight, or a named preset.
FormOf(schema, k) ==
  CASE k = Current      -> IF schema >= 2 THEN "recipe" ELSE "short"
    [] k = Settings     -> IF schema = Schema THEN "settings" ELSE "unknown"
    [] k[1] = "preset"  -> IF schema >= 3 THEN "preset"
                           ELSE IF schema = 2 THEN "recipe" ELSE "short"
    [] OTHER            -> "unknown"

Readable(n, k) == /\ n[SchemaKey] # Missing
                  /\ n[k].form = FormOf(n[SchemaKey].value[1], k)

Versioned(n) == \E k \in Keys : Readable(n, k)

FromKeys(n) ==
  LET of(k) == IF Readable(n, k) THEN n[k].value[1] ELSE 0
      set   == IF Readable(n, Settings) THEN n[Settings].value
               ELSE <<DefaultCount, Fine>>
  IN [current |-> of(Current), count |-> set[1], step |-> set[2],
      presets |-> [p \in Slots |-> of(Preset(p))]]

FromLegacy(n) ==
  [Defaults EXCEPT !.current = n[Legacy].value[1],
     !.presets = [p \in Slots |-> IF p <= DefaultCount
                                  THEN n[Legacy].value[p + 1] ELSE 0]]

\* What ctrl_state_load makes of these keys.
Loaded(n) == IF Versioned(n) THEN Applied(FromKeys(n))
             ELSE IF n[Legacy] # Missing THEN Applied(FromLegacy(n)) ELSE Defaults

\* Whether it then writes them again in the current schema.
IsOld(n) == IF Versioned(n) THEN n[SchemaKey].value[1] # Schema
            ELSE n[Legacy] # Missing

\* An erase that power cut off can leave the key of an older schema with no key
\* to read under it; the load then leaves it.
Stray(n) == ~IsOld(n) /\ n[SchemaKey] \notin {Missing, Blob("u8", <<Schema>>)}

Stored_Recipe(s, k) == \* Mutant: presets stay in the form of the second schema
  CASE k = SchemaKey -> Blob("u8", <<Schema>>)
    [] k = Current   -> Blob("recipe", <<s.current>>)
    [] k = Settings  -> Blob("settings", <<s.count, s.step>>)
    [] k = Legacy    -> Missing
    [] OTHER         -> Blob("recipe", <<s.presets[k[2]]>>)

\* What ctrl_state_persist stores under a key; the legacy blob is erased.
Stored(s, k) ==
  CASE k = SchemaKey -> Blob("u8", <<Schema>>)
    [] k = Current   -> Blob("recipe", <<s.current>>)
    [] k = Settings  -> Blob("settings", <<s.count, s.step>>)
    [] k = Legacy    -> Missing
    [] OTHER         -> Blob("preset", <<s.presets[k[2]]>>)

(***************************************************************************)
(* The tasks.  "seen" are the keys read so far, "copy" is the state on the *)
(* stack, "next" says where a persist that ends goes: back to the load it  *)
(* migrated for, to the bump of the version, or to the main loop's check.  *)
(***************************************************************************)
Tasks == {"main", "portal"}
Nothing == [kind |-> "none"]
Rest == [pc |-> "idle", op |-> Nothing, at |-> 1, seen |-> Empty,
         copy |-> Defaults, next |-> "idle", alone |-> FALSE]

Reading(op) == [Rest EXCEPT !.pc = "read", !.op = op]
Writing(t, s, next) ==
  [t EXCEPT !.pc = "write", !.at = 1, !.seen = Empty, !.copy = Applied(s),
            !.next = next, !.alone = TRUE]

Happens == left > 0 /\ left' = left - 1

\* The keys of an older firmware, or of this one, or none.
Blobs(schema, v) ==
  [k \in Keys |->
     CASE k = SchemaKey -> Blob("u8", <<schema>>)
       [] k = Legacy -> Missing
       [] k = Settings -> IF schema = Schema THEN Blob("settings", <<MaxCount, Coarse>>)
                          ELSE Missing
       [] OTHER -> Blob(FormOf(schema, k), <<v>>)]
OldBlob(v) == [Empty EXCEPT ![Legacy] = Blob("legacy", [i \in 1..DefaultCount + 1 |-> v])]

Boots == [q \in Tasks |-> IF q = "main" THEN Reading([kind |-> "boot"]) ELSE Rest]

Init ==
  /\ nvs \in {Empty, OldBlob(Top)} \cup {Blobs(schema, Top) : schema \in 1..Schema}
  /\ ram = Defaults /\ task = Boots /\ news = FALSE
  /\ told = {} /\ failed = FALSE
  /\ left = MaxEvents

\* ctrl_state_load, one key at a time.
Reads(q) ==
  LET t == task[q] IN
  /\ t.pc = "read" /\ t.at <= Len(ReadOrder)
  /\ task' = [task EXCEPT ![q] = [t EXCEPT !.seen[ReadOrder[t.at]] = nvs[ReadOrder[t.at]],
                                           !.at = @ + 1]]
  /\ UNCHANGED <<nvs, ram, news, told, failed, left>>

\* Its end: old keys are persisted at once in the current schema.
Loads(q) ==
  LET t == task[q]
      s == Loaded(t.seen)
  IN
  /\ t.pc = "read" /\ t.at > Len(ReadOrder)
  /\ task' = [task EXCEPT ![q] = IF IsOld(t.seen) THEN Writing(t, s, "loaded")
                ELSE [t EXCEPT !.pc = "loaded", !.at = 1, !.seen = Empty, !.copy = s]]
  /\ failed' = (failed \/ Stray(t.seen))
  /\ UNCHANGED <<nvs, ram, news, told, left>>

Disturb(ts, q) == [r \in Tasks |-> IF r = q THEN ts[r] ELSE [ts[r] EXCEPT !.alone = FALSE]]

\* ctrl_state_persist, one key at a time.
Writes(q) ==
  LET t == task[q]
      k == WriteOrder[t.at]
      last == t.at = Len(WriteOrder)
  IN
  /\ t.pc = "write"
  /\ nvs' = [nvs EXCEPT ![k] = Stored(t.copy, k)]
  /\ task' = Disturb([task EXCEPT ![q] =
       IF last THEN [t EXCEPT !.pc = t.next, !.at = 1, !.alone = FALSE]
       ELSE [t EXCEPT !.at = @ + 1]], q)
  /\ told' = IF last /\ t.alone THEN {t.copy} ELSE {}
  /\ UNCHANGED <<ram, news, failed, left>>

\* A write that fails ends the persist: a load goes on with what it has, the
\* portal reports an error and does not bump the version.
WriteFails(q) ==
  LET t == task[q] IN
  /\ t.pc = "write" /\ Happens
  /\ task' = [task EXCEPT ![q] =
       IF t.next = "bump" THEN Rest ELSE [t EXCEPT !.pc = t.next, !.at = 1, !.alone = FALSE]]
  /\ failed' = TRUE
  /\ UNCHANGED <<nvs, ram, news, told>>

(***************************************************************************)
(* The main loop.                                                          *)
(***************************************************************************)
MainAt(pc) == task["main"].pc = pc
Idle == MainAt("idle")
Persists(s) ==
  /\ ram' = s
  /\ task' = [task EXCEPT !["main"] = Writing(Rest, s, "check")]
  /\ UNCHANGED <<nvs, told, failed>>

\* A rotation of a recipe field on the main screen.
Edits(v) ==
  /\ Idle /\ Happens /\ Persists([ram EXCEPT !.current = v]) /\ UNCHANGED news

LoadsPreset(p) ==
  /\ Idle /\ Happens /\ p <= ram.count
  /\ Persists([ram EXCEPT !.current = Snap(ram.presets[p], ram.step)])
  /\ UNCHANGED news

\* ctrl_save_preset bumps the version before the state is persisted.
SavesPreset(p) ==
  /\ Idle /\ Happens /\ p <= ram.count
  /\ Persists([ram EXCEPT !.presets[p] = Snap(ram.current, ram.step)])
  /\ news' = TRUE

\* Values of the machine replace the current recipe, without a persist.
Merges(v) ==
  /\ Idle /\ Happens /\ ram' = [ram EXCEPT !.current = v]
  /\ UNCHANGED <<nvs, task, news, told, failed>>

\* lm_ctrl_runtime_handle_preset_change, after an event or a tick.
Refreshes ==
  /\ (Idle \/ MainAt("check")) /\ news /\ news' = FALSE
  /\ task' = [task EXCEPT !["main"] = Reading([kind |-> "refresh"])]
  /\ UNCHANGED <<nvs, ram, told, failed, left>>

NothingNew ==
  /\ MainAt("check") /\ ~news
  /\ task' = [task EXCEPT !["main"] = Rest]
  /\ UNCHANGED <<nvs, ram, news, told, failed, left>>

Takes_Late == \* Mutant: the version is noted when the load has ended
  /\ MainAt("loaded") /\ ram' = task["main"].copy /\ news' = FALSE
  /\ task' = [task EXCEPT !["main"] = Rest]
  /\ UNCHANGED <<nvs, told, failed, left>>

\* A load of the boot or of a refresh: every field of the copy is taken.
Takes ==
  /\ MainAt("loaded") /\ ram' = task["main"].copy
  /\ task' = [task EXCEPT !["main"] = Rest]
  /\ UNCHANGED <<nvs, news, told, failed, left>>

Main == \/ \E v \in Inputs : Edits(v) \/ Merges(v)
        \/ \E p \in Slots : LoadsPreset(p) \/ SavesPreset(p)
        \/ Refreshes \/ NothingNew \/ Takes

(***************************************************************************)
(* The portal's requests, one at a time; none comes before the main loop   *)
(* runs.                                                                   *)
(***************************************************************************)
PortalAt(pc) == task["portal"].pc = pc
Begins(op) ==
  /\ PortalAt("idle") /\ task["main"].op.kind # "boot" /\ Happens
  /\ task' = [task EXCEPT !["portal"] = Reading(op)]
  /\ UNCHANGED <<nvs, ram, news, told, failed>>

\* A page, or the check of a form: a load.
Views == Begins([kind |-> "view"])
\* ctrl_state_store_preset_slot.
Stores(p, v) == Begins([kind |-> "store", slot |-> p, value |-> v])
\* ctrl_state_update_advanced_settings.
Configures(count, step) == Begins([kind |-> "settings", count |-> count, step |-> step])

PortalGoesOn ==
  LET t == task["portal"]
      o == t.op
  IN
  /\ PortalAt("loaded")
  /\ task' = [task EXCEPT !["portal"] =
       CASE o.kind = "store" /\ o.slot <= t.copy.count ->
              Writing(t, [t.copy EXCEPT !.presets[o.slot] = Snap(o.value, t.copy.step)], "bump")
         [] o.kind = "settings" -> Writing(t, Configured(t.copy, o.count, o.step), "bump")
         [] OTHER -> Rest]
  /\ UNCHANGED <<nvs, ram, news, told, failed, left>>

Bumps ==
  /\ PortalAt("bump") /\ news' = TRUE
  /\ task' = [task EXCEPT !["portal"] = Rest]
  /\ UNCHANGED <<nvs, ram, told, failed, left>>

\* ctrl_state_reset_persisted of the factory reset.
Resets ==
  /\ PortalAt("idle") /\ task["main"].op.kind # "boot" /\ Happens
  /\ nvs' = Empty /\ told' = {}
  /\ task' = Disturb([task EXCEPT !["portal"] = [Rest EXCEPT !.pc = "bump"]], "portal")
  /\ UNCHANGED <<ram, news, failed>>

Portal == \/ Views
          \/ \E p \in Slots, v \in Inputs : Stores(p, v)
          \/ \E count \in MinCount..MaxCount, step \in {Fine, Coarse} : Configures(count, step)
          \/ PortalGoesOn \/ Bumps \/ Resets

(***************************************************************************)
(* Restarts and power losses.                                              *)
(***************************************************************************)
Reboots == /\ Happens /\ task' = Boots /\ ram' = Defaults
           /\ news' = FALSE /\ failed' = FALSE

PowerLost == Reboots /\ UNCHANGED <<nvs, told>>

\* An erase that the power loss interrupts has erased some of the keys.
PowerLostInReset ==
  /\ PortalAt("idle") /\ task["main"].op.kind # "boot"
  /\ \E erased \in SUBSET Keys :
       nvs' = [k \in Keys |-> IF k \in erased THEN Missing ELSE nvs[k]]
  /\ told' = {} /\ Reboots

Next == \/ \E q \in Tasks : Reads(q) \/ Loads(q) \/ Writes(q) \/ WriteFails(q)
        \/ Main \/ Portal \/ PowerLost \/ PowerLostInReset

Spec == Init /\ [][Next]_vars

-----------------------------------------------------------------------------
\* What a persist stored, without another write in between, is what the next
\* load gives, whatever schema or blob was there before: all keys agree with
\* the schema that is written first, and the older formats are not read again
\* (controller_state.c:572-636, 836-883).
ReadsBack == \A s \in told : Loaded(nvs) = s /\ ~IsOld(nvs)

\* When the main loop rests and has no news, its presets and settings are the
\* stored ones: no change made in the portal, while the main loop loads, saves
\* or refreshes itself, is missed for good, and its next persist cannot bring
\* an older preset back.  Only two things can leave them apart, as no bump
\* announces them: a persist that fails half way, and the migration by a load
\* that read a Stray key before another task persisted the current schema
\* (controller_runtime.c:974-991).
PresetsAgree ==
  LET s == Loaded(nvs) IN
  Idle /\ ~news /\ ~failed /\ ~PortalAt("write") /\ ~PortalAt("bump") =>
    ram.presets = s.presets /\ ram.count = s.count /\ ram.step = s.step
=============================================================================
