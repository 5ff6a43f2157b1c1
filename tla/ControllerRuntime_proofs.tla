----------------------- MODULE ControllerRuntime_proofs -----------------------
(***************************************************************************)
(* Proofs about ControllerRuntime, for every set of fields and of values,  *)
(* every choice of the fields that are deferred and of those a preset      *)
(* stores, and any number of edits and of reports.                         *)
(*                                                                         *)
(* Each invariant is inductive next to TypeOK: that a choice waits behind *)
(* its hold is why a merge leaves it alone, and that a shown value differs *)
(* from the reported one only behind a hold is why an ended hold is seen.  *)
(***************************************************************************)
EXTENDS ControllerRuntime, TLAPS

USE RuntimeAssumption DEF RuntimeAssumption

\* The values of f where mask does not name g's are values again.
LEMMA OverType ==
  ASSUME NEW S, NEW f \in [Fields -> S], NEW g, NEW mask,
         \A x \in Fields : x \in mask => g[x] \in S
  PROVE  Over(f, g, mask) \in [Fields -> S]
BY DEF Over

-----------------------------------------------------------------------------
(* Type correctness.                                                       *)

\* An edit keeps the types, if the values it shows are values.
LEMMA EditsType ==
  ASSUME TypeOK, NEW new \in [Fields -> Values], NEW mask \in SUBSET Fields, Edits(new, mask)
  PROVE  /\ values' \in [Fields -> Values] /\ held' \in [Fields -> Values]
         /\ hold' \subseteq Fields /\ fresh' \in BOOLEAN /\ pc' \in {"wait", "merge", "send"}
         /\ edits' \in 0 .. MaxEdits /\ reports' \in 0 .. MaxReports
<1>1. values' = new /\ held' = new /\ fresh' = TRUE /\ hold' = hold \cup mask
  BY DEF Edits, Note, Held
<1>2. pc' = "merge" /\ edits' = edits + 1 /\ edits < MaxEdits /\ reports' = reports
  BY DEF Edits
<1>3. hold \subseteq Fields /\ edits \in 0 .. MaxEdits /\ reports \in 0 .. MaxReports
  BY DEF TypeOK
<1>4. edits' \in 0 .. MaxEdits
  BY <1>2, <1>3
<1> QED BY <1>1, <1>2, <1>3, <1>4

LEMMA DefersType ==
  ASSUME TypeOK, NEW new \in [Fields -> Values], NEW mask \in SUBSET Fields, Defers(new, mask),
         chosen' \subseteq Fields, wish' \in [Fields -> Values], screen' = screen,
         loaded' = loaded
  PROVE  TypeOK'
<1>1. Edits(new, mask) /\ delayed' = delayed \cup mask /\ due' = FALSE /\ link' = link /\ news' = news
  BY DEF Defers, remote
<1>2. delayed' \subseteq Fields /\ due' \in BOOLEAN /\ news' \in BOOLEAN
      /\ link' \in [Fields -> Values \cup {Unknown}] /\ screen' \in {"main", "presets"}
  BY <1>1 DEF TypeOK
<1> QED BY <1>1, <1>2, EditsType DEF TypeOK

LEMMA QueueType ==
  ASSUME TypeOK, NEW vals \in [Fields -> Values], NEW mask \in SUBSET Fields, Queue(mask, vals)
  PROVE  link' \in [Fields -> Values \cup {Unknown}] /\ news' \in BOOLEAN
<1>1. link \in [Fields -> Values \cup {Unknown}]
  BY DEF TypeOK
<1>2. Over(link, vals, mask) \in [Fields -> Values \cup {Unknown}]
  BY <1>1, OverType
<1>3. link' = Over(link, vals, mask)
  BY DEF Queue
<1>4. news' \in BOOLEAN
  BY Zenon DEF Queue
<1> QED BY <1>2, <1>3, <1>4

LEMMA SendsType ==
  ASSUME TypeOK, NEW new \in [Fields -> Values], NEW mask \in SUBSET Fields, Sends(new, mask),
         screen' \in {"main", "presets"}
  PROVE  TypeOK'
<1>1. Edits(new, mask) /\ Queue(mask, new) /\ delayed' = delayed \ mask
      /\ chosen' = chosen \ mask /\ wish' = wish /\ loaded' = loaded
  BY DEF Sends
<1>2. due' \in BOOLEAN
  BY Zenon DEF Sends
<1>3. delayed' \subseteq Fields /\ chosen' \subseteq Fields /\ wish' \in [Fields -> Values]
      /\ loaded' \in BOOLEAN
  BY <1>1 DEF TypeOK
<1> QED BY <1>1, <1>2, <1>3, EditsType, QueueType DEF TypeOK

LEMMA MergedType == ASSUME TypeOK PROVE Merged \in [Fields -> Values]
<1> DEFINE Kept == {f \in Fields : Keeps(f) \/ link[f] = Unknown}
<1>1. link \in [Fields -> Values \cup {Unknown}] /\ values \in [Fields -> Values]
  BY DEF TypeOK
<1>2. \A x \in Fields : x \notin Kept => link[x] # Unknown
  OBVIOUS
<1>3. Merged = Over(link, values, Kept)
  BY DEF Merged
<1> HIDE DEF Kept
<1> QED BY <1>1, <1>2, <1>3 DEF Over

\* The values shown, held and reported are values of the fields, a report may
\* be missing, and the masks hold fields.
THEOREM TypeCorrect == Spec => []TypeOK
<1>1. Init => TypeOK
  <2> SUFFICES ASSUME Init PROVE TypeOK
    OBVIOUS
  <2>1. values \in [Fields -> Values] /\ link \in [Fields -> Values \cup {Unknown}]
        /\ edits \in 0 .. MaxEdits /\ reports \in 0 .. MaxReports
    BY DEF Init
  <2> QED BY <2>1 DEF Init, TypeOK
<1>2. TypeOK /\ [Next]_vars => TypeOK'
  <2> SUFFICES ASSUME TypeOK, [Next]_vars PROVE TypeOK'
    OBVIOUS
  <2> USE DEF local, remote, history, counts
  <2>1. ASSUME NEW f \in Fields, NEW v \in Values, Rotates(f, v) PROVE TypeOK'
    <3>1. Defers([values EXCEPT ![f] = v], {f}) /\ screen' = screen
          /\ chosen' = chosen \cup {f} /\ wish' = [wish EXCEPT ![f] = v] /\ loaded' = loaded
      BY <2>1 DEF Rotates
    <3>2. [values EXCEPT ![f] = v] \in [Fields -> Values] /\ wish' \in [Fields -> Values]
          /\ chosen' \subseteq Fields
      BY <3>1 DEF TypeOK
    <3> QED BY <3>1, <3>2, DefersType
  <2>2. ASSUME NEW f \in Fields, Selects(f) PROVE TypeOK'
    <3>1. Defers(values, {f}) /\ screen' = screen /\ chosen' = chosen /\ wish' = wish /\ loaded' = loaded
      BY <2>2 DEF Selects
    <3>2. values \in [Fields -> Values] /\ wish' \in [Fields -> Values] /\ chosen' \subseteq Fields
      BY <3>1 DEF TypeOK
    <3> QED BY <3>1, <3>2, DefersType
  <2>3. ASSUME NEW f \in Fields, NEW v \in Values, RotatesSwitch(f, v) \/ Toggles(f, v)
        PROVE  TypeOK'
    <3>1. Sends([values EXCEPT ![f] = v], {f}) /\ screen' \in {"main", "presets"}
      BY <2>3 DEF RotatesSwitch, Toggles, TypeOK
    <3>2. [values EXCEPT ![f] = v] \in [Fields -> Values] /\ {f} \in SUBSET Fields
      BY DEF TypeOK
    <3> DEFINE new == [values EXCEPT ![f] = v]
    <3> HIDE DEF new
    <3>3. Sends(new, {f}) /\ new \in [Fields -> Values]
      BY <3>1, <3>2 DEF new
    <3> QED BY <3>1, <3>2, <3>3, SendsType
  <2>4. ASSUME NEW f \in Fields, SelectsSwitch(f) PROVE TypeOK'
    BY <2>4, SendsType DEF SelectsSwitch, TypeOK
  <2>5. ASSUME NEW preset \in [Recipe -> Values], LoadsPreset(preset) PROVE TypeOK'
    <3>1. Sends(Over(values, preset, Recipe), Recipe) /\ screen' = "main"
      BY <2>5 DEF LoadsPreset
    <3>2. Over(values, preset, Recipe) \in [Fields -> Values]
      BY OverType DEF TypeOK
    <3> QED BY <3>1, <3>2, SendsType
  <2>6. CASE Merges
    <3>1. values' \in [Fields -> Values]
      BY <2>6, MergedType DEF Merges
    <3> QED BY <2>6, <3>1 DEF Merges, TypeOK
  <2>7. CASE Flushes
    <3>1. delayed \subseteq Fields /\ values \in [Fields -> Values]
      BY DEF TypeOK
    <3>2. link' \in [Fields -> Values \cup {Unknown}] /\ news' \in BOOLEAN
      BY <2>7, <3>1, QueueType DEF Flushes
    <3>3. /\ hold' = hold \cup delayed /\ held' = values /\ fresh' = TRUE
          /\ delayed' = {} /\ due' = FALSE /\ chosen' = chosen \ delayed /\ pc' = "wait"
          /\ wish' = values /\ UNCHANGED <<values, screen, loaded, edits, reports>>
      BY <2>7 DEF Flushes, Note, Held
    <3> QED BY <3>1, <3>2, <3>3 DEF TypeOK
  <2>8. CASE OpensOrCloses
    BY <2>8 DEF OpensOrCloses, TypeOK
  <2>9. CASE Wakes \/ MergesNothing \/ FlushesNothing
    BY <2>9 DEF Wakes, MergesNothing, FlushesNothing, TypeOK
  <2>10. CASE DelayEnds \/ HoldEnds \/ Synchronizes
    BY <2>10 DEF DelayEnds, HoldEnds, Synchronizes, TypeOK
  <2>11. ASSUME NEW f \in Fields, NEW v \in Values, Reports(f, v) PROVE TypeOK'
    <3>1. link' \in [Fields -> Values \cup {Unknown}]
      BY <2>11 DEF Reports, TypeOK
    <3>2. reports' \in 0 .. MaxReports
      BY <2>11 DEF Reports, TypeOK
    <3> QED BY <2>11, <3>1, <3>2 DEF Reports, TypeOK
  <2>12. CASE UNCHANGED vars
    BY <2>12 DEF vars, TypeOK
  <2>13. Immediate \subseteq Fields
    BY DEF Fields
  <2>14. ASSUME NEW stored \in [Fields -> Values], Refreshes(stored) PROVE TypeOK'
    <3>1. edits' \in 0 .. MaxEdits
      BY <2>14 DEF Refreshes, TypeOK
    <3> QED BY <2>14, <3>1 DEF Refreshes, TypeOK
  <2> QED
    BY <2>1, <2>2, <2>3, <2>4, <2>5, <2>6, <2>7, <2>8, <2>9, <2>10, <2>11, <2>12, <2>13, <2>14
    DEF Next, Loop
<1> QED BY <1>1, <1>2, PTL DEF Spec

-----------------------------------------------------------------------------
(* What the user chose.                                                    *)

\* An edit of other fields leaves a choice where it is.
LEMMA EditKeepsChoices ==
  ASSUME TypeOK, ChoiceIsSent, NEW new \in [Fields -> Values], NEW mask \in SUBSET Fields,
         Edits(new, mask), NEW f \in chosen, new[f] = values[f]
  PROVE  f \in hold' /\ fresh' /\ values'[f] = wish[f]
BY DEF Edits, Note, Held, ChoiceIsSent

LEMMA SendsKeepsChoices ==
  ASSUME TypeOK, ChoiceIsSent, NEW new \in [Fields -> Values], NEW mask \in SUBSET Fields,
         Sends(new, mask), \A f \in Fields : f \notin mask => new[f] = values[f]
  PROVE  ChoiceIsSent'
<1>1. /\ Edits(new, mask) /\ delayed' = delayed \ mask
      /\ chosen' = chosen \ mask /\ wish' = wish
  BY DEF Sends
<1>2. ASSUME NEW f \in chosen'
      PROVE  f \in delayed' /\ f \in hold' /\ fresh' /\ values'[f] = wish'[f]
  <2>1. f \in chosen /\ f \notin mask /\ f \in delayed /\ f \in Fields
    BY <1>1, <1>2 DEF ChoiceIsSent, TypeOK
  <2>2. f \in hold' /\ fresh' /\ values'[f] = wish[f]
    BY <1>1, <2>1, EditKeepsChoices
  <2> QED BY <1>1, <2>1, <2>2
<1> QED BY <1>2 DEF ChoiceIsSent

LEMMA ChoiceStep == TypeOK /\ ChoiceIsSent /\ [Next]_vars => ChoiceIsSent'
<1> SUFFICES ASSUME TypeOK, ChoiceIsSent, [Next]_vars PROVE ChoiceIsSent'
  OBVIOUS
<1> USE DEF local, remote, history, counts
<1>1. ASSUME NEW f \in Fields, NEW v \in Values, Rotates(f, v) PROVE ChoiceIsSent'
  <2> DEFINE new == [values EXCEPT ![f] = v]
  <2>1. /\ Edits(new, {f}) /\ delayed' = delayed \cup {f}
        /\ chosen' = chosen \cup {f} /\ wish' = [wish EXCEPT ![f] = v]
    BY <1>1 DEF Rotates, Defers
  <2>2. /\ new \in [Fields -> Values] /\ new[f] = v /\ wish'[f] = v
        /\ \A g \in Fields : g # f => new[g] = values[g] /\ wish'[g] = wish[g]
    BY <2>1 DEF TypeOK
  <2> HIDE DEF new
  <2>3. values' = new /\ hold' = hold \cup {f} /\ fresh' = TRUE
    BY <2>1 DEF Edits, Note, Held
  <2>4. ASSUME NEW g \in chosen' 
        PROVE  g \in delayed' /\ g \in hold' /\ fresh' /\ values'[g] = wish'[g]
    <3>1. CASE g = f
      BY <2>1, <2>2, <2>3, <3>1
    <3>2. CASE g # f
      <4>1. g \in chosen /\ g \in Fields
        BY <2>1, <2>4, <3>2 DEF TypeOK
      <4> QED BY <2>1, <2>2, <2>3, <3>2, <4>1 DEF ChoiceIsSent
    <3> QED BY <3>1, <3>2
  <2> QED BY <2>4 DEF ChoiceIsSent
<1>2. ASSUME NEW f \in Fields, Selects(f) PROVE ChoiceIsSent'
  <2>1. /\ values' = values /\ hold' = hold \cup {f} /\ fresh' = TRUE
        /\ delayed' = delayed \cup {f} /\ chosen' = chosen /\ wish' = wish
    BY <1>2 DEF Selects, Defers, Edits, Note, Held
  <2> QED BY <2>1 DEF ChoiceIsSent
<1>3. ASSUME NEW f \in Fields, NEW v \in Values, RotatesSwitch(f, v) \/ Toggles(f, v)
      PROVE  ChoiceIsSent'
  <2> DEFINE new == [values EXCEPT ![f] = v]
  <2>1. Sends(new, {f})
    BY <1>3 DEF RotatesSwitch, Toggles
  <2>2. /\ new \in [Fields -> Values] /\ {f} \in SUBSET Fields
        /\ \A g \in Fields : g \notin {f} => new[g] = values[g]
    BY DEF TypeOK
  <2> HIDE DEF new
  <2> QED BY <2>1, <2>2, SendsKeepsChoices
<1>4. ASSUME NEW f \in Fields, SelectsSwitch(f) PROVE ChoiceIsSent'
  BY <1>4, SendsKeepsChoices DEF SelectsSwitch, TypeOK
<1>5. ASSUME NEW preset \in [Recipe -> Values], LoadsPreset(preset) PROVE ChoiceIsSent'
  <2> DEFINE new == Over(values, preset, Recipe)
  <2>1. Sends(new, Recipe)
    BY <1>5 DEF LoadsPreset
  <2>2. new \in [Fields -> Values]
    BY OverType DEF TypeOK
  <2>3. \A g \in Fields : g \notin Recipe => new[g] = values[g]
    BY DEF Over
  <2> HIDE DEF new
  <2> QED BY <2>1, <2>2, <2>3, SendsKeepsChoices
<1>6. CASE Merges
  <2>1. ASSUME NEW f \in chosen'
        PROVE  f \in delayed' /\ f \in hold' /\ fresh' /\ values'[f] = wish'[f]
    <3>1. f \in chosen /\ f \notin Reported /\ f \in Fields
      BY <1>6, <2>1 DEF Merges, TypeOK
    <3>2. Keeps(f)
      BY <3>1 DEF ChoiceIsSent, Keeps
    <3>3. Merged[f] = values[f]
      BY <3>1, <3>2 DEF Merged, Over
    <3> QED BY <1>6, <3>1, <3>3 DEF Merges, ChoiceIsSent
  <2> QED BY <2>1 DEF ChoiceIsSent
<1>7. CASE Flushes
  <2>1. chosen' = {}
    BY <1>7 DEF Flushes, ChoiceIsSent
  <2> QED BY <2>1 DEF ChoiceIsSent
<1>8. CASE HoldEnds
  <2>1. chosen' = {}
    BY <1>8 DEF HoldEnds, ChoiceIsSent
  <2> QED BY <2>1 DEF ChoiceIsSent
<1>9. CASE OpensOrCloses \/ Wakes \/ MergesNothing \/ FlushesNothing
  BY <1>9 DEF OpensOrCloses, Wakes, MergesNothing, FlushesNothing, ChoiceIsSent
<1>10. CASE DelayEnds \/ Synchronizes
  BY <1>10 DEF DelayEnds, Synchronizes, ChoiceIsSent
<1>11. ASSUME NEW f \in Fields, NEW v \in Values, Reports(f, v) PROVE ChoiceIsSent'
  BY <1>11 DEF Reports, ChoiceIsSent
<1>12. CASE UNCHANGED vars
  BY <1>12 DEF vars, ChoiceIsSent
<1>13. Immediate \subseteq Fields
  BY DEF Fields
<1>14. ASSUME NEW stored \in [Fields -> Values], Refreshes(stored) PROVE ChoiceIsSent'
  BY <1>14 DEF Refreshes, ChoiceIsSent
<1> QED
  BY <1>1, <1>2, <1>3, <1>4, <1>5, <1>6, <1>7, <1>8, <1>9, <1>10, <1>11, <1>12, <1>13, <1>14
  DEF Next, Loop

\* A merge of reported values never replaces what the user chose and what is
\* still to be sent, and no other edit drops it from what waits.
THEOREM ChosenIsSent == Spec => []ChoiceIsSent
<1>1. Init => ChoiceIsSent
  BY DEF Init, ChoiceIsSent
<1> QED BY <1>1, ChoiceStep, TypeCorrect, PTL DEF Spec

-----------------------------------------------------------------------------
(* What is shown.                                                          *)

\* The link reports what it is asked to send.
LEMMA SendsKeepsShown ==
  ASSUME TypeOK, DifferenceIsHeld, NEW new \in [Fields -> Values], NEW mask \in SUBSET Fields,
         Sends(new, mask), \A f \in Fields : f \notin mask => new[f] = values[f]
  PROVE  DifferenceIsHeld'
<1>1. /\ values' = new /\ hold' = hold \cup mask /\ link' = Over(link, new, mask)
      /\ loaded' = loaded
  BY DEF Sends, Edits, Note, Held, Queue
<1>3. news => news'
  BY Zenon DEF Sends, Queue
<1>2. ASSUME NEW f \in Fields, values'[f] # link'[f]
      PROVE  link'[f] = Unknown \/ f \in hold' \/ news' \/ loaded'
  <2>1. CASE f \in mask
    <3>1. link'[f] = new[f]
      BY <1>1, <2>1 DEF Over
    <3> QED BY <1>1, <1>2, <3>1
  <2>2. CASE f \notin mask
    <3>1. link'[f] = link[f] /\ values'[f] = values[f]
      BY <1>1, <2>2 DEF Over
    <3>2. link[f] = Unknown \/ f \in hold \/ news \/ loaded
      BY <1>2, <3>1 DEF DifferenceIsHeld
    <3>3. CASE news
      BY <1>3, <3>3, Zenon
    <3> QED BY <1>1, <3>1, <3>2, <3>3
  <2> QED BY <2>1, <2>2
<1> QED BY <1>2 DEF DifferenceIsHeld

LEMMA ShownStep == TypeOK /\ DifferenceIsHeld /\ [Next]_vars => DifferenceIsHeld'
<1> SUFFICES ASSUME TypeOK, DifferenceIsHeld, [Next]_vars PROVE DifferenceIsHeld'
  OBVIOUS
<1> USE DEF local, remote, history, counts
<1>1. ASSUME NEW f \in Fields, NEW v \in Values, Rotates(f, v) PROVE DifferenceIsHeld'
  <2>1. /\ values' = [values EXCEPT ![f] = v] /\ hold' = hold \cup {f}
        /\ link' = link /\ news' = news /\ loaded' = loaded
    BY <1>1 DEF Rotates, Defers, Edits, Note, Held
  <2> QED BY <2>1 DEF DifferenceIsHeld, TypeOK
<1>2. ASSUME NEW f \in Fields, Selects(f) PROVE DifferenceIsHeld'
  <2>1. /\ values' = values /\ hold' = hold \cup {f} /\ link' = link /\ news' = news
        /\ loaded' = loaded
    BY <1>2 DEF Selects, Defers, Edits, Note, Held
  <2> QED BY <2>1 DEF DifferenceIsHeld
<1>3. ASSUME NEW f \in Fields, NEW v \in Values, RotatesSwitch(f, v) \/ Toggles(f, v)
      PROVE  DifferenceIsHeld'
  <2> DEFINE new == [values EXCEPT ![f] = v]
  <2>1. Sends(new, {f})
    BY <1>3 DEF RotatesSwitch, Toggles
  <2>2. /\ new \in [Fields -> Values] /\ {f} \in SUBSET Fields
        /\ \A g \in Fields : g \notin {f} => new[g] = values[g]
    BY DEF TypeOK
  <2> HIDE DEF new
  <2> QED BY <2>1, <2>2, SendsKeepsShown
<1>4. ASSUME NEW f \in Fields, SelectsSwitch(f) PROVE DifferenceIsHeld'
  BY <1>4, SendsKeepsShown DEF SelectsSwitch, TypeOK
<1>5. ASSUME NEW preset \in [Recipe -> Values], LoadsPreset(preset) PROVE DifferenceIsHeld'
  <2> DEFINE new == Over(values, preset, Recipe)
  <2>1. Sends(new, Recipe)
    BY <1>5 DEF LoadsPreset
  <2>2. new \in [Fields -> Values]
    BY OverType DEF TypeOK
  <2>3. \A g \in Fields : g \notin Recipe => new[g] = values[g]
    BY DEF Over
  <2> HIDE DEF new
  <2> QED BY <2>1, <2>2, <2>3, SendsKeepsShown
<1>6. CASE Merges
  <2>1. values' = Merged /\ hold' = hold \ Reported /\ link' = link
    BY <1>6 DEF Merges
  <2>2. ASSUME NEW f \in Fields, Merged[f] # link[f], link[f] # Unknown
        PROVE  f \in hold \ Reported
    BY <2>2 DEF Merged, Over, Keeps
  <2> QED BY <2>1, <2>2 DEF DifferenceIsHeld
<1>7. CASE Flushes
  <2>1. /\ values' = values /\ hold' = hold \cup delayed /\ link' = Over(link, values, delayed)
        /\ loaded' = loaded
    BY <1>7 DEF Flushes, Queue, Note, Held
  <2>3. news => news'
    BY <1>7, Zenon DEF Flushes, Queue
  <2>2. ASSUME NEW f \in Fields, values'[f] # link'[f]
        PROVE  link'[f] = Unknown \/ f \in hold' \/ news' \/ loaded'
    <3>1. f \notin delayed /\ link'[f] = link[f]
      BY <2>1, <2>2 DEF Over
    <3>2. link[f] = Unknown \/ f \in hold \/ news \/ loaded
      BY <2>1, <2>2, <3>1 DEF DifferenceIsHeld
    <3>3. CASE news
      BY <2>3, <3>3, Zenon
    <3> QED BY <2>1, <3>1, <3>2, <3>3
  <2> QED BY <2>2 DEF DifferenceIsHeld
<1>8. CASE HoldEnds \/ DelayEnds \/ Synchronizes
  BY <1>8 DEF HoldEnds, DelayEnds, Synchronizes, DifferenceIsHeld
<1>9. CASE OpensOrCloses \/ Wakes \/ MergesNothing \/ FlushesNothing
  BY <1>9 DEF OpensOrCloses, Wakes, MergesNothing, FlushesNothing, DifferenceIsHeld
<1>10. ASSUME NEW f \in Fields, NEW v \in Values, Reports(f, v) PROVE DifferenceIsHeld'
  BY <1>10 DEF Reports, DifferenceIsHeld
<1>11. CASE UNCHANGED vars
  BY <1>11 DEF vars, DifferenceIsHeld
<1>12. Immediate \subseteq Fields
  BY DEF Fields
<1>13. ASSUME NEW stored \in [Fields -> Values], Refreshes(stored) PROVE DifferenceIsHeld'
  BY <1>13 DEF Refreshes, DifferenceIsHeld
<1> QED
  BY <1>1, <1>2, <1>3, <1>4, <1>5, <1>6, <1>7, <1>8, <1>9, <1>10, <1>11, <1>12, <1>13
  DEF Next, Loop

\* No report is lost: a shown value that is not the reported one is held, or
\* the loop has not seen the report yet.
THEOREM ShownIsReported == Spec => []DifferenceIsHeld
<1>1. Init => DifferenceIsHeld
  BY DEF Init, DifferenceIsHeld
<1> QED BY <1>1, ShownStep, TypeCorrect, PTL DEF Spec
=============================================================================
