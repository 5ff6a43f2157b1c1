---------------------------- MODULE Presets_proofs ----------------------------
(***************************************************************************)
(* Proofs about Presets, for every number of slots, every set of inputs,   *)
(* every largest recipe and every number of events.                        *)
(***************************************************************************)
EXTENDS Presets, SequenceTheorems, TLAPS

USE CountsAssumption DEF CountsAssumption

-----------------------------------------------------------------------------
(* The keys and their orders.                                              *)

Total == MaxCount + 4

LEMMA JoinedThree ==
  ASSUME NEW K, NEW s \in Seq(K), NEW t \in Seq(K), NEW u \in Seq(K)
  PROVE  LET r == (s \o t) \o u IN
         /\ Len(r) = Len(s) + Len(t) + Len(u)
         /\ \A i \in 1 .. Len(s) : r[i] = s[i]
         /\ \A i \in 1 .. Len(t) : r[i + Len(s)] = t[i]
         /\ \A i \in 1 .. Len(u) : r[i + (Len(s) + Len(t))] = u[i]
<1> DEFINE l == Len(s)
           m == Len(t)
           n == Len(u)
           r == (s \o t) \o u
<1>0. l \in Nat /\ Len(s) = l /\ m \in Nat /\ Len(t) = m /\ n \in Nat /\ Len(u) = n
  OBVIOUS
<1> HIDE DEF l, m, n
<1> DEFINE st == s \o t
           lm == l + m
<1>1. /\ st \in Seq(K) /\ Len(st) = lm
      /\ \A i \in 1 .. l + m : st[i] = IF i <= l THEN s[i] ELSE t[i - l]
  <2>1. /\ st \in Seq(K) /\ Len(st) = Len(s) + Len(t)
        /\ \A i \in 1 .. Len(s) + Len(t) : st[i] = IF i <= Len(s) THEN s[i] ELSE t[i - Len(s)]
    BY ConcatProperties
  <2> HIDE DEF st
  <2> QED BY <1>0, <2>1
<1>2. lm \in Nat /\ r = st \o u
  BY <1>0
<1> HIDE DEF st, r
<1>3. /\ Len(r) = lm + n
      /\ \A i \in 1 .. lm + n : r[i] = IF i <= lm THEN st[i] ELSE u[i - lm]
  <2>1. /\ Len(st \o u) = Len(st) + Len(u)
        /\ \A i \in 1 .. Len(st) + Len(u) :
             (st \o u)[i] = IF i <= Len(st) THEN st[i] ELSE u[i - Len(st)]
    BY <1>1, ConcatProperties
  <2> HIDE DEF lm
  <2> QED BY <1>0, <1>1, <1>2, <2>1
<1> HIDE DEF lm
<1>4. \A i \in 1 .. l : i \in 1 .. lm + n /\ i <= lm /\ i \in 1 .. l + m
  BY <1>0 DEF lm
<1>5. \A i \in 1 .. m : /\ i + l \in 1 .. lm + n /\ i + l <= lm /\ i + l \in 1 .. l + m
                        /\ ~(i + l <= l) /\ (i + l) - l = i
  BY <1>0 DEF lm
<1>6. \A i \in 1 .. n : i + lm \in 1 .. lm + n /\ ~(i + lm <= lm) /\ (i + lm) - lm = i
  BY <1>0, <1>2
<1>7. \A i \in 1 .. l : r[i] = s[i]
  BY <1>1, <1>3, <1>4
<1>8. \A i \in 1 .. m : r[i + l] = t[i]
  BY <1>1, <1>3, <1>5
<1>9. \A i \in 1 .. n : r[i + lm] = u[i]
  BY <1>3, <1>6
<1> QED BY <1>3, <1>7, <1>8, <1>9 DEF l, m, n, r, lm

LEMMA Orders ==
  /\ Total \in Nat /\ Total >= 5 /\ MaxCount \in Nat /\ MaxCount >= 1
  /\ Len(ReadOrder) = Total /\ Len(WriteOrder) = Total
  /\ ReadOrder[1] = SchemaKey /\ ReadOrder[2] = Current
  /\ \A p \in Slots : ReadOrder[p + 2] = Preset(p)
  /\ ReadOrder[MaxCount + 3] = Settings /\ ReadOrder[Total] = Legacy
  /\ WriteOrder[1] = SchemaKey /\ WriteOrder[2] = Current /\ WriteOrder[3] = Settings
  /\ \A p \in Slots : WriteOrder[p + 3] = Preset(p)
  /\ WriteOrder[Total] = Legacy
<1>1. Total \in Nat /\ Total >= 5 /\ MaxCount \in Nat /\ MaxCount >= 1
  BY DEF Total
<1> DEFINE P == [p \in 1 .. MaxCount |-> Preset(p)]
           K == {Preset(p) : p \in 1 .. MaxCount}
                  \cup {SchemaKey, Current, Settings, Legacy}
<1>2. P \in Seq(K) /\ Len(P) = MaxCount /\ \A p \in 1 .. MaxCount : P[p] = Preset(p)
  <2>1. P \in [1 .. MaxCount -> K]
    OBVIOUS
  <2> QED BY <1>1, <2>1
<1>3. <<SchemaKey, Current>> \in Seq(K) /\ <<Settings, Legacy>> \in Seq(K)
      /\ <<SchemaKey, Current, Settings>> \in Seq(K) /\ <<Legacy>> \in Seq(K)
  OBVIOUS
<1>4. ReadOrder = (<<SchemaKey, Current>> \o P) \o <<Settings, Legacy>>
      /\ WriteOrder = (<<SchemaKey, Current, Settings>> \o P) \o <<Legacy>>
  BY DEF ReadOrder, WriteOrder, Presets, Slots
<1> HIDE DEF P, K
<1>5. /\ Len(ReadOrder) = MaxCount + 4
      /\ ReadOrder[1] = SchemaKey /\ ReadOrder[2] = Current
      /\ \A p \in 1 .. MaxCount : ReadOrder[p + 2] = Preset(p)
      /\ ReadOrder[MaxCount + 3] = Settings /\ ReadOrder[MaxCount + 4] = Legacy
  <2> DEFINE l == 2
             n == 2
             A == <<SchemaKey, Current>>
             B == <<Settings, Legacy>>
  <2>1. A \in Seq(K) /\ Len(A) = l /\ l \in Nat /\ B \in Seq(K) /\ Len(B) = n /\ n \in Nat
        /\ ReadOrder = (A \o P) \o B
    BY <1>3, <1>4
  <2>2. A[1] = SchemaKey /\ A[2] = Current
        /\ B[1] = Settings /\ B[2] = Legacy
    OBVIOUS
  <2> HIDE DEF A, B, l, n
  <2>3. /\ Len(ReadOrder) = l + MaxCount + n
        /\ \A i \in 1 .. l : ReadOrder[i] = A[i]
        /\ \A i \in 1 .. MaxCount : ReadOrder[i + l] = P[i]
        /\ \A i \in 1 .. n : ReadOrder[i + (l + MaxCount)] = B[i]
    <3> DEFINE r == (A \o P) \o B
    <3>1. /\ Len(r) = Len(A) + Len(P) + Len(B)
          /\ \A i \in 1 .. Len(A) : r[i] = A[i]
          /\ \A i \in 1 .. Len(P) : r[i + Len(A)] = P[i]
          /\ \A i \in 1 .. Len(B) : r[i + (Len(A) + Len(P))] = B[i]
      <4>1. A \in Seq(K) /\ P \in Seq(K) /\ B \in Seq(K)
        BY <1>2, <2>1
      <4> QED BY <4>1, JoinedThree
    <3> HIDE DEF r
    <3> QED BY <1>2, <2>1, <3>1 DEF r
  <2>4. l = 2 /\ n = 2
    BY DEF l, n
  <2> QED BY <1>1, <1>2, <2>2, <2>3, <2>4
<1>6. /\ Len(WriteOrder) = MaxCount + 4
      /\ WriteOrder[1] = SchemaKey /\ WriteOrder[2] = Current /\ WriteOrder[3] = Settings
      /\ \A p \in 1 .. MaxCount : WriteOrder[p + 3] = Preset(p)
      /\ WriteOrder[MaxCount + 4] = Legacy
  <2> DEFINE l == 3
             n == 1
             A == <<SchemaKey, Current, Settings>>
             B == <<Legacy>>
  <2>1. A \in Seq(K) /\ Len(A) = l /\ l \in Nat /\ B \in Seq(K) /\ Len(B) = n /\ n \in Nat
        /\ WriteOrder = (A \o P) \o B
    BY <1>3, <1>4
  <2>2. A[1] = SchemaKey /\ A[2] = Current /\ A[3] = Settings
        /\ B[1] = Legacy
    OBVIOUS
  <2> HIDE DEF A, B, l, n
  <2>3. /\ Len(WriteOrder) = l + MaxCount + n
        /\ \A i \in 1 .. l : WriteOrder[i] = A[i]
        /\ \A i \in 1 .. MaxCount : WriteOrder[i + l] = P[i]
        /\ \A i \in 1 .. n : WriteOrder[i + (l + MaxCount)] = B[i]
    <3> DEFINE r == (A \o P) \o B
    <3>1. /\ Len(r) = Len(A) + Len(P) + Len(B)
          /\ \A i \in 1 .. Len(A) : r[i] = A[i]
          /\ \A i \in 1 .. Len(P) : r[i + Len(A)] = P[i]
          /\ \A i \in 1 .. Len(B) : r[i + (Len(A) + Len(P))] = B[i]
      <4>1. A \in Seq(K) /\ P \in Seq(K) /\ B \in Seq(K)
        BY <1>2, <2>1
      <4> QED BY <4>1, JoinedThree
    <3> HIDE DEF r
    <3> QED BY <1>2, <2>1, <3>1 DEF r
  <2>4. l = 3 /\ n = 1
    BY DEF l, n
  <2> QED BY <1>1, <1>2, <2>2, <2>3, <2>4
<1> QED BY <1>1, <1>5, <1>6 DEF Slots, Total

LEMMA Distinct ==
  /\ SchemaKey # Current /\ SchemaKey # Settings /\ SchemaKey # Legacy
  /\ Current # Settings /\ Current # Legacy /\ Settings # Legacy
  /\ \A p \in Slots : /\ Preset(p) \notin {SchemaKey, Current, Settings, Legacy}
                      /\ Preset(p)[1] = "preset" /\ Preset(p)[2] = p
  /\ SchemaKey[1] # "preset" /\ Current[1] # "preset" /\ Settings[1] # "preset"
  /\ Legacy[1] # "preset"
BY DEF SchemaKey, Current, Settings, Legacy, Preset

LEMMA InOrder ==
  /\ Keys = {SchemaKey, Current, Settings, Legacy} \cup {Preset(p) : p \in Slots}
  /\ \A i \in 1 .. Total : ReadOrder[i] \in Keys /\ WriteOrder[i] \in Keys
  /\ \A k \in Keys : /\ \E i \in 1 .. Total : ReadOrder[i] = k
                     /\ \E i \in 1 .. Total : WriteOrder[i] = k
  /\ \A i \in 1 .. Total : ReadOrder[i] = Legacy => i = Total
<1> DEFINE K == {SchemaKey, Current, Settings, Legacy} \cup {Preset(p) : p \in Slots}
<1>1. \A i \in 1 .. Total : \/ i = 1 \/ i = 2 \/ i - 2 \in Slots
                            \/ i = MaxCount + 3 \/ i = Total
  BY Orders DEF Slots, Total
<1>2. \A i \in 1 .. Total : \/ i = 1 \/ i = 2 \/ i = 3 \/ i - 3 \in Slots \/ i = Total
  BY Orders DEF Slots, Total
<1>3. \A p \in Slots : p + 2 \in 1 .. Total /\ p + 3 \in 1 .. Total
  BY Orders DEF Slots, Total
<1>4. 1 \in 1 .. Total /\ 2 \in 1 .. Total /\ 3 \in 1 .. Total /\ MaxCount + 3 \in 1 .. Total
      /\ Total \in 1 .. Total
  BY Orders DEF Total
<1>5. ASSUME NEW i \in 1 .. Total
      PROVE  ReadOrder[i] \in K /\ (ReadOrder[i] = Legacy => i = Total)
  <2>1. CASE i - 2 \in Slots
    <3>1. ReadOrder[(i - 2) + 2] = Preset(i - 2) /\ (i - 2) + 2 = i
      BY <2>1, Orders
    <3> QED BY <2>1, <3>1, Distinct
  <2> QED BY <1>1, <2>1, Orders, Distinct
<1>6. ASSUME NEW i \in 1 .. Total PROVE WriteOrder[i] \in K
  <2>1. CASE i - 3 \in Slots
    <3>1. WriteOrder[(i - 3) + 3] = Preset(i - 3) /\ (i - 3) + 3 = i
      BY <2>1, Orders
    <3> QED BY <2>1, <3>1
  <2> QED BY <1>2, <2>1, Orders
<1>7. ASSUME NEW k \in K
      PROVE  (\E i \in 1 .. Total : ReadOrder[i] = k) /\ (\E i \in 1 .. Total : WriteOrder[i] = k)
  <2>1. CASE \E p \in Slots : k = Preset(p)
    BY <1>3, <2>1, Orders
  <2> QED BY <1>4, <2>1, Orders
<1>8. Keys = {ReadOrder[i] : i \in 1 .. Total}
  <2>1. DOMAIN ReadOrder = 1 .. Len(ReadOrder)
    BY Orders DEF ReadOrder, Presets, Slots
  <2> QED BY <2>1, Orders DEF Keys, ToSet
<1>9. Keys = K
  BY <1>5, <1>7, <1>8
<1> QED BY <1>5, <1>6, <1>7, <1>9

-----------------------------------------------------------------------------
(* Rounding and settings.                                                  *)

Values == 0 .. Top
Steps == {Fine, Coarse}
States == [current : Values, count : MinCount .. MaxCount, step : Steps,
           presets : [Slots -> Values]]

\* A state whose presets, or whose presets and current recipe, are rounded.
Steady(s) == \A p \in Slots : Snap(s.presets[p], s.step) = s.presets[p]
Settled(s) == Steady(s) /\ Snap(s.current, s.step) = s.current

Same(a, b) == a.presets = b.presets /\ a.count = b.count /\ a.step = b.step

LEMMA SnapFacts ==
  ASSUME NEW v \in Nat, NEW step \in Steps
  PROVE  /\ Snap(v, step) \in Values /\ Snap(Snap(v, step), step) = Snap(v, step)
         /\ Snap(0, step) = 0
<1>1. CASE step = 1
  <2>1. \A x \in Nat : Snap(x, 1) = IF x > Top THEN Top ELSE x
    <3>1. 1 \div 2 = 0
      OBVIOUS
    <3>2. \A x \in Nat : 1 * ((x + 0) \div 1) = x
      OBVIOUS
    <3> QED BY <3>1, <3>2 DEF Snap
  <2> QED BY <1>1, <2>1 DEF Values
<1>2. CASE step = 2
  <2> DEFINE Half(x) == (x + 1) \div 2
  <2>1. \A x \in Nat : Snap(x, 2) = IF 2 * Half(x) > Top THEN Top ELSE 2 * Half(x)
    <3>1. 2 \div 2 = 1
      OBVIOUS
    <3> QED BY <3>1 DEF Snap
  <2>2. \A x \in Nat : Half(x) \in Nat /\ 2 * Half(x) >= x /\ Half(2 * Half(x)) = Half(x)
                       /\ Half(0) = 0
    OBVIOUS
  <2> HIDE DEF Half
  <2> QED BY <1>2, <2>1, <2>2 DEF Values
<1> QED BY <1>1, <1>2 DEF Steps, Fine, Coarse

LEMMA SameFields ==
  ASSUME NEW a \in States, NEW b \in States, a.current = b.current, Same(a, b)
  PROVE  a = b
<1>1. /\ a = [current |-> a.current, count |-> a.count, step |-> a.step,
              presets |-> a.presets]
      /\ b = [current |-> b.current, count |-> b.count, step |-> b.step,
              presets |-> b.presets]
  BY DEF States
<1> QED BY <1>1 DEF Same

LEMMA AppliedFacts ==
  ASSUME NEW s \in States
  PROVE  /\ Applied(s) \in States /\ Settled(Applied(s))
         /\ Applied(s).count = s.count /\ Applied(s).step = s.step
         /\ Steady(s) => Same(Applied(s), s)
         /\ Settled(s) => Applied(s) = s
<1> DEFINE c == Snap(s.current, s.step)
           ps == [p \in Slots |-> Snap(s.presets[p], s.step)]
<1>1. /\ s.current \in Nat /\ s.step \in Steps /\ s.count \in MinCount .. MaxCount
      /\ \A p \in Slots : s.presets[p] \in Nat
      /\ s.presets = [p \in Slots |-> s.presets[p]]
      /\ s = [current |-> s.current, count |-> s.count, step |-> s.step,
              presets |-> s.presets]
  BY DEF States, Values
<1>2. /\ Applied(s).current = c /\ Applied(s).count = s.count /\ Applied(s).step = s.step
      /\ Applied(s).presets = ps
      /\ c \in Values /\ ps \in [Slots -> Values] => Applied(s) \in States
  <2>1. Applied(s) = [s EXCEPT !.current = c, !.presets = ps]
    BY DEF Applied
  <2> HIDE DEF c, ps
  <2> QED BY <2>1 DEF States
<1>3. c \in Values /\ Snap(c, s.step) = c
  BY <1>1, SnapFacts
<1>4. ps \in [Slots -> Values] /\ \A p \in Slots : Snap(ps[p], s.step) = ps[p]
  BY <1>1, SnapFacts
<1>5. Steady(s) => ps = s.presets
  BY <1>1 DEF Steady
<1>6. Snap(s.current, s.step) = s.current => c = s.current
  OBVIOUS
<1> HIDE DEF c, ps
<1>7. Applied(s) \in States
  BY <1>2, <1>3, <1>4
<1>8. Settled(s) => Applied(s) = s
  BY <1>2, <1>5, <1>6, <1>7, SameFields DEF Settled, Same
<1> QED BY <1>2, <1>3, <1>4, <1>5, <1>7, <1>8 DEF Settled, Steady, Same

LEMMA DefaultFacts == Defaults \in States /\ Settled(Defaults)
<1>1. 0 \in Values /\ Fine \in Steps /\ DefaultCount \in MinCount .. MaxCount
  BY DEF Values, Steps
<1>2. Snap(0, Fine) = 0
  BY <1>1, SnapFacts
<1> QED BY <1>1, <1>2 DEF Defaults, States, Settled, Steady

LEMMA ConfiguredFacts ==
  ASSUME NEW s \in States, NEW count \in MinCount .. MaxCount, NEW step \in Steps
  PROVE  Configured(s, count, step) \in States
<1> DEFINE u == [s EXCEPT !.count = count, !.step = step]
           t == Applied(u)
<1>1. u \in States
  BY DEF States
<1> HIDE DEF u
<1>2. t \in States
  BY <1>1, AppliedFacts
<1> HIDE DEF t
<1>3. 0 \in Values
  BY DEF Values
<1>4. [t EXCEPT !.presets = [p \in Slots |-> IF p > count THEN 0 ELSE @[p]]] \in States
  BY <1>2, <1>3 DEF States
<1> QED BY <1>2, <1>4 DEF Configured, t, u

-----------------------------------------------------------------------------
(* What the keys hold, and what a load makes of it.                        *)

\* The blobs that some firmware stores under a key.
BlobOK(k, b) ==
  \/ b = Missing
  \/ k = SchemaKey /\ \E v \in 1 .. Schema : b = Blob("u8", <<v>>)
  \/ k = Settings /\ \E c \in MinCount .. MaxCount, s \in Steps : b = Blob("settings", <<c, s>>)
  \/ k = Legacy /\ \E v \in [1 .. DefaultCount + 1 -> Values] : b = Blob("legacy", v)
  \/ k = Current /\ \E v \in Values, form \in {"short", "recipe"} : b = Blob(form, <<v>>)
  \/ /\ \E p \in Slots : k = Preset(p)
     /\ \E v \in Values, form \in {"short", "recipe", "preset"} : b = Blob(form, <<v>>)
KeysOK(n) == n = [k \in Keys |-> n[k]] /\ \A k \in Keys : BlobOK(k, n[k])

CurrentSchema == Blob("u8", <<Schema>>)
NewSchema(b) == b \in {Missing, CurrentSchema}

\* Keys that a load need not migrate, nor misreads.
Covered(n) == NewSchema(n[SchemaKey]) /\ (n[Legacy] # Missing => Versioned(n))

LEMMA FormFacts ==
  ASSUME NEW schema \in 1 .. Schema
  PROVE  /\ FormOf(schema, Current) \in {"recipe", "short"}
         /\ FormOf(schema, Settings) \in {"settings", "unknown"}
         /\ \A p \in Slots : FormOf(schema, Preset(p)) \in {"preset", "recipe", "short"}
         /\ FormOf(schema, SchemaKey) = "unknown" /\ FormOf(schema, Legacy) = "unknown"
         /\ FormOf(Schema, Current) = "recipe" /\ FormOf(Schema, Settings) = "settings"
         /\ \A p \in Slots : FormOf(Schema, Preset(p)) = "preset"
<1>1. Schema >= 2 /\ Schema >= 3
  BY DEF Schema
<1> QED BY <1>1, Distinct DEF FormOf

\* A readable key is no schema and no legacy blob, and has a value of its type.
LEMMA ReadableFacts ==
  ASSUME NEW n, KeysOK(n), NEW k \in Keys, Readable(n, k)
  PROVE  /\ n[SchemaKey].value[1] \in 1 .. Schema /\ n[SchemaKey] # Missing
         /\ n[SchemaKey] = Blob("u8", <<n[SchemaKey].value[1]>>)
         /\ k # SchemaKey /\ k # Legacy
         /\ k # Settings => n[k].value[1] \in Values
         /\ k = Settings => /\ n[k].value[1] \in MinCount .. MaxCount
                            /\ n[k].value[2] \in Steps
<1>1. SchemaKey \in Keys /\ BlobOK(SchemaKey, n[SchemaKey]) /\ BlobOK(k, n[k])
  BY InOrder DEF KeysOK
<1>2. PICK v \in 1 .. Schema : n[SchemaKey] = Blob("u8", <<v>>)
  BY <1>1, Distinct DEF BlobOK, Readable
<1>3. n[SchemaKey].value[1] = v
  BY <1>2 DEF Blob
<1>4. n[k].form = FormOf(v, k)
  BY <1>3 DEF Readable
<1>5. k # SchemaKey
  <2>1. n[SchemaKey].form = "u8"
    BY <1>2 DEF Blob
  <2> QED BY <1>4, <2>1, FormFacts
<1>6. k # Legacy /\ n[k] # Missing
  <2>1. n[k] # Missing
    <3>1. n[k].form # "none"
      BY <1>4, <1>5, FormFacts, InOrder
    <3> QED BY <3>1 DEF Missing
  <2>2. ASSUME k = Legacy PROVE FALSE
    <3>1. n[k].form = "unknown"
      BY <1>4, <2>2, FormFacts
    <3>2. \E w \in [1 .. DefaultCount + 1 -> Values] : n[k] = Blob("legacy", w)
      BY <1>1, <2>1, <2>2, Distinct DEF BlobOK
    <3>3. n[k].form = "legacy"
      BY <3>2 DEF Blob
    <3> QED BY <3>1, <3>3
  <2> QED BY <2>1, <2>2
<1>7. ASSUME k # Settings PROVE n[k].value[1] \in Values
  <2>1. \E w \in Values, form \in {"short", "recipe", "preset"} : n[k] = Blob(form, <<w>>)
    BY <1>1, <1>5, <1>6, <1>7 DEF BlobOK
  <2> QED BY <2>1 DEF Blob
<1>8. ASSUME k = Settings
      PROVE  n[k].value[1] \in MinCount .. MaxCount /\ n[k].value[2] \in Steps
  <2>1. \E c \in MinCount .. MaxCount, s \in Steps : n[k] = Blob("settings", <<c, s>>)
    BY <1>1, <1>6, <1>8, Distinct DEF BlobOK
  <2> QED BY <2>1 DEF Blob
<1> QED BY <1>2, <1>3, <1>5, <1>6, <1>7, <1>8 DEF Blob, Missing

LEMMA LoadedFacts ==
  ASSUME NEW n, KeysOK(n)
  PROVE  Loaded(n) \in States /\ Settled(Loaded(n))
<1>1. Current \in Keys /\ Settings \in Keys /\ Legacy \in Keys
      /\ \A p \in Slots : Preset(p) \in Keys
  BY InOrder
<1>2. FromKeys(n) \in States
  <2> DEFINE of(k) == IF Readable(n, k) THEN n[k].value[1] ELSE 0
             set == IF Readable(n, Settings) THEN n[Settings].value
                    ELSE <<DefaultCount, Fine>>
  <2>1. 0 \in Values /\ DefaultCount \in MinCount .. MaxCount /\ Fine \in Steps
    BY DEF Values, Steps
  <2>2. of(Current) \in Values /\ \A p \in Slots : of(Preset(p)) \in Values
    BY <1>1, <2>1, ReadableFacts, Distinct
  <2>3. set[1] \in MinCount .. MaxCount /\ set[2] \in Steps
    BY <1>1, <2>1, ReadableFacts
  <2>4. FromKeys(n) = [current |-> of(Current), count |-> set[1], step |-> set[2],
                       presets |-> [p \in Slots |-> of(Preset(p))]]
    BY DEF FromKeys
  <2> HIDE DEF of, set
  <2> QED BY <2>2, <2>3, <2>4 DEF States
<1>3. ASSUME n[Legacy] # Missing PROVE FromLegacy(n) \in States
  <2>1. PICK v \in [1 .. DefaultCount + 1 -> Values] : n[Legacy] = Blob("legacy", v)
    BY <1>1, <1>3, Distinct DEF KeysOK, BlobOK
  <2>2. n[Legacy].value = v /\ v[1] \in Values
        /\ \A p \in Slots : p <= DefaultCount => v[p + 1] \in Values
    BY <2>1 DEF Blob, Slots
  <2>3. 0 \in Values
    BY DEF Values
  <2> DEFINE ps == [p \in Slots |-> IF p <= DefaultCount THEN v[p + 1] ELSE 0]
  <2>4. FromLegacy(n) = [Defaults EXCEPT !.current = v[1], !.presets = ps]
    BY <2>2 DEF FromLegacy
  <2>5. ps \in [Slots -> Values]
    BY <2>2, <2>3
  <2> HIDE DEF ps
  <2> QED BY <2>2, <2>4, <2>5, DefaultFacts DEF States
<1> QED BY <1>2, <1>3, AppliedFacts, DefaultFacts DEF Loaded

LEMMA CoveredNotOld ==
  ASSUME NEW n, KeysOK(n)
  PROVE  /\ Covered(n) => ~IsOld(n) /\ ~Stray(n)
         /\ ~IsOld(n) /\ ~Stray(n) => Covered(n)
<1>1. ASSUME Versioned(n) PROVE n[SchemaKey] # Missing
  BY <1>1 DEF Versioned, Readable
<1>2. CurrentSchema.value[1] = Schema
  BY DEF CurrentSchema, Blob
<1> QED BY <1>1, <1>2 DEF Covered, NewSchema, IsOld, Stray, CurrentSchema

LEMMA EmptyFacts == KeysOK(Empty) /\ Covered(Empty) /\ \A k \in Keys : Empty[k] = Missing
BY InOrder DEF Empty, KeysOK, BlobOK, Covered, NewSchema

LEMMA StoredFacts ==
  ASSUME NEW s \in States
  PROVE  /\ \A k \in Keys : BlobOK(k, Stored(s, k))
         /\ Stored(s, SchemaKey) = CurrentSchema /\ Stored(s, Legacy) = Missing
         /\ Stored(s, Current) = Blob("recipe", <<s.current>>)
         /\ Stored(s, Settings) = Blob("settings", <<s.count, s.step>>)
         /\ \A p \in Slots : Stored(s, Preset(p)) = Blob("preset", <<s.presets[p]>>)
         /\ \A k \in Keys : k \notin {SchemaKey, Legacy} =>
              Stored(s, k).form = FormOf(Schema, k)
<1>1. /\ Stored(s, SchemaKey) = CurrentSchema /\ Stored(s, Legacy) = Missing
      /\ Stored(s, Current) = Blob("recipe", <<s.current>>)
      /\ Stored(s, Settings) = Blob("settings", <<s.count, s.step>>)
      /\ \A p \in Slots : Stored(s, Preset(p)) = Blob("preset", <<s.presets[p]>>)
  BY Distinct DEF Stored, CurrentSchema
<1>2. s.current \in Values /\ s.count \in MinCount .. MaxCount /\ s.step \in Steps
      /\ \A p \in Slots : s.presets[p] \in Values
  BY DEF States
<1>3. Schema \in 1 .. Schema
  BY DEF Schema
<1>4. ASSUME NEW k \in Keys PROVE BlobOK(k, Stored(s, k))
  BY <1>1, <1>2, <1>3, InOrder DEF BlobOK, CurrentSchema
<1>5. ASSUME NEW k \in Keys, k \notin {SchemaKey, Legacy}
      PROVE  Stored(s, k).form = FormOf(Schema, k)
  BY <1>1, <1>3, <1>5, InOrder, FormFacts DEF Blob
<1> QED BY <1>1, <1>4, <1>5

\* What a persist stored under all keys is what a load gives.
LEMMA StoredLoads ==
  ASSUME NEW n, KeysOK(n), NEW s \in States, Settled(s), \A k \in Keys : n[k] = Stored(s, k)
  PROVE  Loaded(n) = s /\ Covered(n) /\ ~IsOld(n)
<1>1. /\ Current \in Keys /\ Settings \in Keys /\ Legacy \in Keys /\ SchemaKey \in Keys
      /\ \A p \in Slots : Preset(p) \in Keys
  BY InOrder
<1>2. n[SchemaKey] = CurrentSchema /\ n[SchemaKey] # Missing /\ n[Legacy] = Missing
      /\ n[SchemaKey].value[1] = Schema
  BY <1>1, StoredFacts DEF CurrentSchema, Blob, Missing
<1>3. \A k \in Keys : k \notin {SchemaKey, Legacy} => Readable(n, k)
  BY <1>2, StoredFacts DEF Readable
<1>4. Readable(n, Current) /\ Readable(n, Settings) /\ \A p \in Slots : Readable(n, Preset(p))
  BY <1>1, <1>3, Distinct
<1>5. /\ n[Current].value[1] = s.current
      /\ n[Settings].value[1] = s.count /\ n[Settings].value[2] = s.step
      /\ \A p \in Slots : n[Preset(p)].value[1] = s.presets[p]
  BY <1>1, StoredFacts DEF Blob
<1>6. FromKeys(n) = [current |-> s.current, count |-> s.count, step |-> s.step,
                     presets |-> [p \in Slots |-> s.presets[p]]]
  BY <1>4, <1>5 DEF FromKeys
<1>7. FromKeys(n) = s
  <2>1. s = [current |-> s.current, count |-> s.count, step |-> s.step,
             presets |-> s.presets] /\ s.presets = [p \in Slots |-> s.presets[p]]
    BY DEF States
  <2> QED BY <1>6, <2>1
<1>8. Versioned(n)
  BY <1>1, <1>4 DEF Versioned
<1>9. Loaded(n) = s
  BY <1>7, <1>8, AppliedFacts DEF Loaded
<1>10. Covered(n)
  BY <1>2 DEF Covered, NewSchema
<1> QED BY <1>9, <1>10, CoveredNotOld

\* One write of a persist keeps the keys in the form that a load understands.
WriteOne(n, s, k) == [n EXCEPT ![k] = Stored(s, k)]
LEMMA WriteKeeps ==
  ASSUME NEW n, KeysOK(n), NEW s \in States, NEW k \in Keys,
         NEW m, m = WriteOne(n, s, k)
  PROVE  /\ KeysOK(m) /\ m[k] = Stored(s, k)
         /\ \A j \in Keys : j # k => m[j] = n[j]
         /\ Covered(n) => Covered(m)
         /\ n[SchemaKey] = CurrentSchema => m[SchemaKey] = CurrentSchema
         /\ m[Legacy] # Missing => n[Legacy] # Missing
         /\ \A j \in Keys : n[SchemaKey] = CurrentSchema /\ Readable(n, j) /\ m[Legacy] # Missing
              => Readable(m, j) /\ m[j].form = n[j].form
<1>1. SchemaKey \in Keys /\ Legacy \in Keys
  BY InOrder
<1>2. m[k] = Stored(s, k) /\ \A j \in Keys : j # k => m[j] = n[j]
  BY DEF KeysOK, WriteOne
<1>3. KeysOK(m)
  <2>1. m = [j \in Keys |-> m[j]]
    BY DEF KeysOK, WriteOne
  <2>2. \A j \in Keys : BlobOK(j, m[j])
    BY <1>2, StoredFacts DEF KeysOK
  <2> QED BY <2>1, <2>2 DEF KeysOK
<1>4. /\ n[SchemaKey] = CurrentSchema => m[SchemaKey] = CurrentSchema
      /\ NewSchema(n[SchemaKey]) => NewSchema(m[SchemaKey])
  BY <1>1, <1>2, StoredFacts DEF NewSchema
<1>5. m[Legacy] # Missing => n[Legacy] # Missing /\ k # Legacy
  BY <1>1, <1>2, StoredFacts
<1>6. ASSUME NEW j \in Keys, n[SchemaKey] = CurrentSchema, Readable(n, j)
      PROVE  Readable(m, j) /\ m[j].form = n[j].form
  <2>1. j # SchemaKey /\ j # Legacy
    BY <1>6, ReadableFacts
  <2>2. CurrentSchema.value[1] = Schema /\ CurrentSchema # Missing
    BY DEF CurrentSchema, Blob, Missing
  <2>3. n[j].form = FormOf(Schema, j)
    BY <1>6, <2>2 DEF Readable
  <2>4. m[j].form = FormOf(Schema, j)
    <3>1. Stored(s, j).form = FormOf(Schema, j)
      BY <2>1, StoredFacts
    <3>2. m[j] = n[j] \/ m[j] = Stored(s, j)
      BY <1>2
    <3> QED BY <2>3, <3>1, <3>2
  <2> QED BY <1>4, <1>6, <2>2, <2>3, <2>4 DEF Readable
<1>7. ASSUME Covered(n) PROVE Covered(m)
  <2>1. ASSUME m[Legacy] # Missing PROVE Versioned(m)
    <3>1. Versioned(n) /\ NewSchema(n[SchemaKey])
      BY <1>5, <1>7, <2>1 DEF Covered
    <3>2. PICK j \in Keys : Readable(n, j)
      BY <3>1 DEF Versioned
    <3>3. n[SchemaKey] = CurrentSchema
      BY <3>1, <3>2 DEF NewSchema, Readable
    <3> QED BY <1>6, <3>2, <3>3 DEF Versioned
  <2> QED BY <1>4, <1>7, <2>1 DEF Covered
<1> QED BY <1>2, <1>3, <1>4, <1>5, <1>6, <1>7

-----------------------------------------------------------------------------
(* The tasks.                                                              *)

AnyBlob == {Missing} \cup {Blob("u8", <<v>>) : v \in 1 .. Schema}
           \cup {Blob("settings", <<c, s>>) : c \in MinCount .. MaxCount, s \in Steps}
           \cup {Blob("legacy", v) : v \in [1 .. DefaultCount + 1 -> Values]}
           \cup {Blob(form, <<v>>) : form \in {"short", "recipe", "preset"}, v \in Values}
Images == {n \in [Keys -> AnyBlob] : \A k \in Keys : BlobOK(k, n[k])}

Ops == {Nothing, [kind |-> "boot"], [kind |-> "refresh"], [kind |-> "view"]}
       \cup [kind : {"store"}, slot : Slots, value : Inputs]
       \cup [kind : {"settings"}, count : MinCount .. MaxCount, step : Steps]

TaskStates ==
  [pc : {"idle", "read", "write", "loaded", "check", "bump"}, op : Ops,
   at : 1 .. Total + 1, seen : Images, copy : States,
   next : {"idle", "loaded", "check", "bump"}, alone : BOOLEAN]

LEMMA ImageFacts == \A n : n \in Images <=> KeysOK(n)
<1>1. ASSUME NEW n, KeysOK(n) PROVE n \in Images
  <2>1. ASSUME NEW k \in Keys PROVE n[k] \in AnyBlob
    <3>1. BlobOK(k, n[k])
      BY <1>1 DEF KeysOK
    <3>2. CASE \E v \in 1 .. Schema : n[k] = Blob("u8", <<v>>)
      BY <3>2 DEF AnyBlob
    <3>3. CASE \E c \in MinCount .. MaxCount, s \in Steps : n[k] = Blob("settings", <<c, s>>)
      BY <3>3 DEF AnyBlob
    <3>4. CASE \E v \in [1 .. DefaultCount + 1 -> Values] : n[k] = Blob("legacy", v)
      BY <3>4 DEF AnyBlob
    <3>5. CASE \E v \in Values, form \in {"short", "recipe", "preset"} : n[k] = Blob(form, <<v>>)
      BY <3>5 DEF AnyBlob
    <3>6. CASE n[k] = Missing
      BY <3>6 DEF AnyBlob
    <3> QED BY <3>1, <3>2, <3>3, <3>4, <3>5, <3>6 DEF BlobOK
  <2>2. n \in [Keys -> AnyBlob]
    BY <1>1, <2>1 DEF KeysOK
  <2> QED BY <1>1, <2>2 DEF Images, KeysOK
<1>2. ASSUME NEW n \in Images PROVE KeysOK(n)
  BY DEF Images, KeysOK
<1> QED BY <1>1, <1>2

LEMMA RestFacts ==
  /\ Rest \in TaskStates /\ Rest.pc = "idle" /\ Rest.op.kind = "none" /\ Rest.at = 1
  /\ Settled(Rest.copy) /\ Rest.alone = FALSE
<1>1. Empty \in Images /\ Defaults \in States /\ Settled(Defaults) /\ 1 \in 1 .. Total + 1
  BY EmptyFacts, ImageFacts, DefaultFacts, Orders
<1> QED BY <1>1 DEF Rest, TaskStates, Ops, Nothing

LEMMA ReadingFacts ==
  ASSUME NEW op \in Ops
  PROVE  /\ Reading(op) \in TaskStates /\ Reading(op).pc = "read" /\ Reading(op).op = op
         /\ Reading(op).at = 1 /\ Reading(op).seen = Empty /\ Settled(Reading(op).copy)
         /\ Reading(op).alone = FALSE
<1>1. Empty \in Images /\ Defaults \in States /\ Settled(Defaults) /\ 1 \in 1 .. Total + 1
  BY EmptyFacts, ImageFacts, DefaultFacts, Orders
<1> QED BY <1>1 DEF Reading, Rest, TaskStates

LEMMA WritingFacts ==
  ASSUME NEW t \in TaskStates, NEW s \in States, NEW next \in {"loaded", "check", "bump"}
  PROVE  LET w == Writing(t, s, next) IN
         /\ w \in TaskStates /\ w.pc = "write" /\ w.op = t.op /\ w.at = 1
         /\ w.copy = Applied(s) /\ Settled(w.copy) /\ w.next = next
<1>1. Empty \in Images /\ Applied(s) \in States /\ Settled(Applied(s)) /\ 1 \in 1 .. Total + 1
  BY EmptyFacts, ImageFacts, AppliedFacts, Orders
<1> DEFINE c == Applied(s)
<1> HIDE DEF c
<1>2. LET w == [t EXCEPT !.pc = "write", !.at = 1, !.seen = Empty, !.copy = c,
                         !.next = next, !.alone = TRUE] IN
      /\ w \in TaskStates /\ w.pc = "write" /\ w.op = t.op /\ w.at = 1
      /\ w.copy = c /\ w.next = next
  BY <1>1 DEF TaskStates, c
<1> QED BY <1>1, <1>2 DEF Writing, c

\* A load reads one key, and ends.
ReadOne(t, n) == [t EXCEPT !.seen[ReadOrder[t.at]] = n[ReadOrder[t.at]], !.at = @ + 1]
LEMMA ReadTask ==
  ASSUME NEW t \in TaskStates, t.at <= Total, NEW n \in Images, NEW r, r = ReadOne(t, n)
  PROVE  /\ r \in TaskStates /\ r.pc = t.pc /\ r.op = t.op /\ r.at = t.at + 1
         /\ r.copy = t.copy /\ r.next = t.next /\ r.alone = t.alone
         /\ r.seen[ReadOrder[t.at]] = n[ReadOrder[t.at]]
         /\ \A k \in Keys : k # ReadOrder[t.at] => r.seen[k] = t.seen[k]
<1> DEFINE k == ReadOrder[t.at]
<1>1. t.at \in 1 .. Total /\ k \in Keys
  BY Orders, InOrder DEF TaskStates
<1>2. r = [t EXCEPT !.seen[k] = n[k], !.at = @ + 1]
  BY DEF ReadOne
<1> HIDE DEF k
<1>3. t.seen \in Images /\ [t.seen EXCEPT ![k] = n[k]] \in Images
  BY <1>1 DEF Images, TaskStates
<1>4. /\ r.pc = t.pc /\ r.op = t.op /\ r.at = t.at + 1
      /\ r.copy = t.copy /\ r.next = t.next /\ r.alone = t.alone
      /\ r.seen = [t.seen EXCEPT ![k] = n[k]]
  BY <1>2 DEF TaskStates
<1>5. t.at + 1 \in 1 .. Total + 1
  BY <1>1, Orders
<1>6. r \in TaskStates
  <2> DEFINE i == [t.seen EXCEPT ![k] = n[k]]
             a == t.at + 1
  <2>1. i \in Images /\ a \in 1 .. Total + 1 /\ r = [t EXCEPT !.seen = i, !.at = a]
    BY <1>2, <1>3, <1>5
  <2> HIDE DEF i, a
  <2> QED BY <2>1 DEF TaskStates
<1>7. r.seen[k] = n[k] /\ \A j \in Keys : j # k => r.seen[j] = t.seen[j]
  BY <1>1, <1>3, <1>4 DEF Images
<1> QED BY <1>4, <1>6, <1>7 DEF k

LoadEnds(t, s) == [t EXCEPT !.pc = "loaded", !.at = 1, !.seen = Empty, !.copy = s]
LEMMA LoadedTask ==
  ASSUME NEW t \in TaskStates, NEW s \in States, NEW r, r = LoadEnds(t, s)
  PROVE  /\ r \in TaskStates /\ r.pc = "loaded" /\ r.op = t.op /\ r.copy = s
         /\ r.next = t.next /\ r.at = 1
<1>1. Empty \in Images /\ 1 \in 1 .. Total + 1
  BY EmptyFacts, ImageFacts, Orders
<1> QED BY <1>1 DEF TaskStates, LoadEnds

\* A persist writes one key, and ends; another task is disturbed.
GoesOn(t) == [t EXCEPT !.at = @ + 1]
Ends(t) == [t EXCEPT !.pc = t.next, !.at = 1, !.alone = FALSE]
Disturbed(t) == [t EXCEPT !.alone = FALSE]
LEMMA WroteTask ==
  ASSUME NEW t \in TaskStates
  PROVE  /\ t.at <= Total =>
              LET r == GoesOn(t) IN
              /\ r \in TaskStates /\ r.at = t.at + 1 /\ r.pc = t.pc /\ r.op = t.op
              /\ r.seen = t.seen /\ r.copy = t.copy /\ r.next = t.next /\ r.alone = t.alone
         /\ LET r == Ends(t) IN
              /\ r \in TaskStates /\ r.at = 1 /\ r.pc = t.next /\ r.op = t.op
              /\ r.seen = t.seen /\ r.copy = t.copy /\ r.next = t.next /\ r.alone = FALSE
         /\ LET r == Disturbed(t) IN
              /\ r \in TaskStates /\ r.at = t.at /\ r.pc = t.pc /\ r.op = t.op
              /\ r.seen = t.seen /\ r.copy = t.copy /\ r.next = t.next /\ r.alone = FALSE
<1>1. ASSUME t.at <= Total
      PROVE  LET r == GoesOn(t) IN
              /\ r \in TaskStates /\ r.at = t.at + 1 /\ r.pc = t.pc /\ r.op = t.op
              /\ r.seen = t.seen /\ r.copy = t.copy /\ r.next = t.next /\ r.alone = t.alone
  <2> DEFINE a == t.at + 1
  <2>1. a \in 1 .. Total + 1
    BY <1>1, Orders DEF TaskStates
  <2> HIDE DEF a
  <2>2. LET r == [t EXCEPT !.at = a] IN
              /\ r \in TaskStates /\ r.at = a /\ r.pc = t.pc /\ r.op = t.op
              /\ r.seen = t.seen /\ r.copy = t.copy /\ r.next = t.next /\ r.alone = t.alone
    BY <2>1 DEF TaskStates
  <2> QED BY <2>2 DEF a, GoesOn
<1>2. 1 \in 1 .. Total + 1
  BY Orders
<1>3. LET r == Ends(t) IN
              /\ r \in TaskStates /\ r.at = 1 /\ r.pc = t.next /\ r.op = t.op
              /\ r.seen = t.seen /\ r.copy = t.copy /\ r.next = t.next /\ r.alone = FALSE
  BY <1>2 DEF TaskStates, Ends
<1>4. LET r == Disturbed(t) IN
              /\ r \in TaskStates /\ r.at = t.at /\ r.pc = t.pc /\ r.op = t.op
              /\ r.seen = t.seen /\ r.copy = t.copy /\ r.next = t.next /\ r.alone = FALSE
  BY DEF TaskStates, Disturbed
<1> QED BY <1>1, <1>3, <1>4

-----------------------------------------------------------------------------
(* The inductive invariant.                                                *)

loop == task["main"]
web == task["portal"]
Booting == loop.op.kind = "boot"

TypeOK ==
  /\ nvs \in Images /\ ram \in States /\ task \in [Tasks -> TaskStates]
  /\ news \in BOOLEAN /\ told \subseteq States /\ failed \in BOOLEAN /\ left \in 0 .. MaxEvents

\* What is taken over is rounded; where each task can be; while the main loop
\* boots, the portal is idle.
TaskOK(t) == Settled(t.copy) /\ (t.pc = "write" => t.at <= Total)
TasksOK ==
  /\ TaskOK(loop) /\ TaskOK(web) /\ Steady(ram)
  /\ loop.pc # "bump" /\ (loop.pc = "write" => loop.next \in {"loaded", "check"})
  /\ web.pc # "check" /\ (web.pc = "write" => web.next \in {"loaded", "bump"})
  /\ Booting => /\ web.pc = "idle" /\ ~news /\ loop.pc \in {"read", "write", "loaded"}
                /\ loop.pc = "write" => loop.next = "loaded"

\* A persist that nobody disturbed has stored the keys up to its own.
Written(t, n) == \A i \in 1 .. t.at - 1 : n[WriteOrder[i]] = Stored(t.copy, WriteOrder[i])
ToldOK ==
  /\ \A s \in told : Settled(s) /\ \A k \in Keys : nvs[k] = Stored(s, k)
  /\ \A q \in Tasks : task[q].pc = "write" /\ task[q].alone => Written(task[q], nvs)

\* Once the boot has migrated the keys, no load finds older ones.
Migrated == ~failed /\ (~Booting \/ loop.pc = "loaded") => Covered(nvs)
NotOld(t) ==
  /\ t.pc = "write" => t.next # "loaded"
  /\ t.pc = "read" =>
       /\ NewSchema(t.seen[SchemaKey])
       /\ t.at <= Total => t.seen[Legacy] = Missing
       /\ t.seen[Legacy] # Missing => Versioned(t.seen)
NoneOld == ~failed /\ ~Booting => NotOld(loop) /\ NotOld(web)

\* A load that will find the legacy blob finds a key that replaces it before.
Finds(t, k, n) ==
  t.pc = "read" =>
    /\ t.at > 1 => t.seen[SchemaKey] = n[SchemaKey]
    /\ (\E i \in 1 .. t.at - 1 : ReadOrder[i] = k) => t.seen[k].form = n[k].form
LegacyOK ==
  ~failed /\ ~Booting /\ nvs[Legacy] # Missing =>
    \E k \in Keys : Readable(nvs, k) /\ Finds(loop, k, nvs) /\ Finds(web, k, nvs)

\* Unless the portal writes or has news, the main loop has, is reading or is
\* writing what the keys hold.
ReadSoFar(t, n) == \A i \in 1 .. t.at - 1 : t.seen[ReadOrder[i]] = n[ReadOrder[i]]
Pending == news \/ web.pc \in {"write", "bump"}
InStep(t, r, n) ==
  /\ t.pc \in {"idle", "check"} => Same(r, Loaded(n))
  /\ t.pc = "read" => ReadSoFar(t, n)
  /\ t.pc = "loaded" => t.copy = Loaded(n)
  /\ t.pc = "write" => Written(t, n) /\ (t.next = "check" => Same(r, t.copy))
Agreed == ~failed /\ ~Pending => InStep(loop, ram, nvs)

IInv == TypeOK /\ TasksOK /\ ToldOK /\ Migrated /\ NoneOld /\ LegacyOK /\ Agreed

LEMMA TwoTasks ==
  ASSUME TypeOK
  PROVE  /\ loop \in TaskStates /\ web \in TaskStates /\ Tasks = {"main", "portal"}
         /\ \A f \in [Tasks -> TaskStates] :
              \A x \in TaskStates :
                /\ [f EXCEPT !["main"] = x] \in [Tasks -> TaskStates]
                /\ [f EXCEPT !["main"] = x]["main"] = x
                /\ [f EXCEPT !["main"] = x]["portal"] = f["portal"]
                /\ [f EXCEPT !["portal"] = x] \in [Tasks -> TaskStates]
                /\ [f EXCEPT !["portal"] = x]["portal"] = x
                /\ [f EXCEPT !["portal"] = x]["main"] = f["main"]
BY DEF TypeOK, loop, web, Tasks

\* Steps that leave the keys alone.
LEMMA KeysKept ==
  ASSUME IInv, UNCHANGED <<nvs, told>>,
         \A q \in Tasks : \/ task'[q].pc # "write" \/ task'[q].at = 1
                          \/ task'[q] = task[q] \/ task'[q].alone = FALSE
  PROVE  ToldOK'
<1>1. ASSUME NEW q \in Tasks, task'[q].pc = "write", task'[q].alone
      PROVE  Written(task'[q], nvs)
  <2>1. CASE task'[q].at = 1
    BY <2>1 DEF Written
  <2>2. CASE task'[q] = task[q]
    BY <1>1, <2>2 DEF IInv, ToldOK
  <2> QED BY <1>1, <2>1, <2>2
<1> QED BY <1>1 DEF IInv, ToldOK

LEMMA FailedStep ==
  ASSUME failed'
  PROVE  Migrated' /\ NoneOld' /\ LegacyOK' /\ Agreed'
BY DEF Migrated, NoneOld, LegacyOK, Agreed

\* A failure of a write.
LEMMA WriteFailsStep == ASSUME IInv, NEW q \in Tasks, WriteFails(q) PROVE IInv'
<1> DEFINE t == task[q]
           r == Ends(t)
           x == IF t.next = "bump" THEN Rest ELSE r
<1>1. TypeOK /\ TasksOK /\ t \in TaskStates /\ TaskOK(t) /\ (q = "main" \/ q = "portal")
  BY TwoTasks DEF IInv, TasksOK, loop, web, TypeOK
<1>2. /\ r \in TaskStates /\ r.at = 1 /\ r.pc = t.next /\ r.op = t.op
      /\ r.copy = t.copy /\ r.next = t.next /\ r.alone = FALSE
  BY <1>1, WroteTask
<1>3. /\ t.pc = "write" /\ left > 0 /\ left' = left - 1 /\ task' = [task EXCEPT ![q] = x]
      /\ failed' = TRUE /\ UNCHANGED <<nvs, ram, news, told>>
  BY DEF WriteFails, Happens, Ends
<1> HIDE DEF r
<1>4. /\ x \in TaskStates /\ x.at = 1 /\ x.alone = FALSE /\ Settled(x.copy)
      /\ x.pc \in {t.next, "idle"} /\ (t.next = "bump" => x.pc = "idle")
      /\ (t.next # "bump" => x.op = t.op /\ x.pc = t.next)
      /\ (t.next = "bump" => x.op.kind = "none")
  BY <1>1, <1>2, RestFacts DEF TaskOK
<1> HIDE DEF x
<1>5. TypeOK'
  BY <1>1, <1>3, <1>4, TwoTasks DEF TypeOK
<1>6. ToldOK'
  <2>1. task'[q] = x /\ \A p \in Tasks : p # q => task'[p] = task[p]
    BY <1>1, <1>3 DEF TypeOK
  <2>2. \A p \in Tasks : task'[p].alone = FALSE \/ task'[p] = task[p]
    BY <1>4, <2>1
  <2> QED BY <1>3, <2>2, KeysKept
<1>7. Migrated' /\ NoneOld' /\ LegacyOK' /\ Agreed'
  BY <1>3, FailedStep
<1>8. CASE q = "main"
  <2>1. loop' = x /\ web' = web /\ t = loop
    BY <1>1, <1>3, <1>4, <1>8, TwoTasks DEF loop, web, TypeOK
  <2>2. TasksOK'
    BY <1>1, <1>3, <1>4, <2>1 DEF TasksOK, TaskOK, Booting
  <2> QED BY <1>5, <1>6, <1>7, <2>2 DEF IInv
<1>9. CASE q = "portal"
  <2>1. web' = x /\ loop' = loop /\ t = web
    BY <1>1, <1>3, <1>4, <1>9, TwoTasks DEF loop, web, TypeOK
  <2>2. TasksOK'
    BY <1>1, <1>3, <1>4, <2>1 DEF TasksOK, TaskOK, Booting
  <2> QED BY <1>5, <1>6, <1>7, <2>2 DEF IInv
<1> QED BY <1>1, <1>8, <1>9

LEMMA MainMoves ==
  ASSUME TypeOK, NEW x \in TaskStates, task' = [task EXCEPT !["main"] = x]
  PROVE  task' \in [Tasks -> TaskStates] /\ loop' = x /\ web' = web
BY TwoTasks DEF TypeOK, loop, web

LEMMA PortalMoves ==
  ASSUME TypeOK, NEW x \in TaskStates, task' = [task EXCEPT !["portal"] = x]
  PROVE  task' \in [Tasks -> TaskStates] /\ loop' = loop /\ web' = x
BY TwoTasks DEF TypeOK, loop, web

\* A step that leaves the keys alone, by which a task at most begins a load or
\* a persist of its own.
Fresh(t) == /\ t.pc = "write" => t.next # "loaded" /\ t.at = 1
            /\ t.pc = "read" => t.at = 1 /\ t.seen = Empty
LEMMA KeptStep ==
  ASSUME IInv, UNCHANGED <<nvs, told, failed>>,
         loop' = loop \/ Fresh(loop'), web' = web \/ Fresh(web'),
         Booting' => Booting /\ loop' = loop,
         ~Booting' => ~Booting \/ (loop.pc = "loaded" /\ web' = web)
  PROVE  ToldOK' /\ Migrated' /\ NoneOld' /\ LegacyOK'
<1>1. Tasks = {"main", "portal"} /\ loop' = task'["main"] /\ web' = task'["portal"]
      /\ loop = task["main"] /\ web = task["portal"]
  BY DEF Tasks, loop, web
<1>2. ToldOK'
  <2>1. \A q \in Tasks : \/ task'[q].pc # "write" \/ task'[q].at = 1
                         \/ task'[q] = task[q]
    BY <1>1 DEF Fresh
  <2> QED BY <2>1, KeysKept
<1>3. Migrated'
  BY DEF IInv, Migrated
<1>4. Booting => web.pc = "idle"
  BY DEF IInv, TasksOK
<1>5. \A t : Fresh(t) => NotOld(t)
  BY Orders, EmptyFacts, InOrder DEF Fresh, NotOld, NewSchema
<1>6. NoneOld'
  <2>1. ASSUME ~failed', ~Booting' PROVE NotOld(loop') /\ NotOld(web')
    <3>1. CASE ~Booting
      BY <1>5, <2>1, <3>1 DEF IInv, NoneOld
    <3>2. CASE Booting
      <4>1. loop.pc = "loaded" /\ web' = web /\ web.pc = "idle"
        BY <1>4, <2>1, <3>2
      <4> QED BY <1>5, <4>1 DEF NotOld
    <3> QED BY <3>1, <3>2
  <2> QED BY <2>1 DEF NoneOld
<1>7. \A t, k : Fresh(t) => Finds(t, k, nvs)
  BY DEF Fresh, Finds
<1>8. LegacyOK'
  <2> SUFFICES ASSUME ~failed, ~Booting', nvs[Legacy] # Missing
               PROVE  \E k \in Keys : Readable(nvs, k) /\ Finds(loop', k, nvs)
                                      /\ Finds(web', k, nvs)
    BY DEF LegacyOK
  <2>1. CASE ~Booting
    <3>1. PICK k \in Keys : Readable(nvs, k) /\ Finds(loop, k, nvs) /\ Finds(web, k, nvs)
      BY <2>1 DEF IInv, LegacyOK
    <3> QED BY <1>7, <3>1
  <2>2. CASE Booting
    <3>1. loop.pc = "loaded" /\ web' = web /\ web.pc = "idle"
      BY <1>4, <2>2
    <3>2. PICK k \in Keys : Readable(nvs, k)
      BY <3>1 DEF IInv, Migrated, Covered, Versioned
    <3>3. Finds(loop', k, nvs) /\ Finds(web', k, nvs)
      BY <1>7, <3>1 DEF Finds
    <3> QED BY <3>2, <3>3
  <2> QED BY <2>1, <2>2
<1> QED BY <1>2, <1>3, <1>6, <1>8

-----------------------------------------------------------------------------
(* The steps of the main loop between a load and a persist.                *)

LEMMA PersistStep ==
  ASSUME IInv, Idle, NEW s \in States, Steady(s), Persists(s), news' \in {news, TRUE},
         left' \in 0 .. MaxEvents
  PROVE  IInv'
<1> DEFINE x == Writing(Rest, s, "check")
<1>1. TypeOK /\ TasksOK /\ loop.pc = "idle" /\ ~Booting
  BY DEF IInv, TasksOK, Idle, MainAt, loop
<1>2. /\ x \in TaskStates /\ x.pc = "write" /\ x.op = Rest.op /\ x.at = 1
      /\ x.copy = Applied(s) /\ Settled(x.copy) /\ x.next = "check"
  BY RestFacts, WritingFacts
<1>3. ram' = s /\ task' = [task EXCEPT !["main"] = x] /\ UNCHANGED <<nvs, told, failed>>
  BY DEF Persists
<1> HIDE DEF x
<1>4. loop' = x /\ web' = web /\ task' \in [Tasks -> TaskStates]
  BY <1>1, <1>2, <1>3, MainMoves
<1>5. ~Booting'
  BY <1>2, <1>4, RestFacts DEF Booting
<1>6. TypeOK'
  BY <1>1, <1>3, <1>4 DEF TypeOK
<1>7. TasksOK'
  <2>1. x.at <= Total
    BY <1>2, Orders
  <2> QED BY <1>1, <1>2, <1>3, <1>4, <1>5, <2>1 DEF TasksOK, TaskOK
<1>8. ToldOK' /\ Migrated' /\ NoneOld' /\ LegacyOK'
  BY <1>1, <1>2, <1>3, <1>4, <1>5, KeptStep DEF Fresh
<1>9. Agreed'
  <2>1. Same(ram', x.copy)
    BY <1>2, <1>3, AppliedFacts DEF Same
  <2>2. Written(x, nvs')
    BY <1>2 DEF Written
  <2> QED BY <1>2, <1>4, <2>1, <2>2 DEF Agreed, InStep
<1> QED BY <1>6, <1>7, <1>8, <1>9 DEF IInv

LEMMA Counted == ASSUME TypeOK, Happens PROVE left' \in 0 .. MaxEvents
BY DEF TypeOK, Happens

LEMMA EditStep ==
  ASSUME IInv, NEW v \in Inputs, Edits(v)
  PROVE  IInv'
<1>1. [ram EXCEPT !.current = v] \in States /\ Steady([ram EXCEPT !.current = v])
  <2>1. ram \in States /\ Steady(ram) /\ v \in Values
    BY DEF IInv, TypeOK, TasksOK, Values
  <2> QED BY <2>1 DEF States, Steady
<1> QED BY <1>1, PersistStep, Counted DEF Edits, IInv

LEMMA LoadsPresetStep ==
  ASSUME IInv, NEW p \in Slots, LoadsPreset(p)
  PROVE  IInv'
<1> DEFINE v == Snap(ram.presets[p], ram.step)
<1>1. ram \in States /\ Steady(ram)
  BY DEF IInv, TypeOK, TasksOK
<1>2. v \in Values
  BY <1>1, SnapFacts DEF States, Values
<1>3. Idle /\ Happens /\ Persists([ram EXCEPT !.current = v]) /\ news' = news
  BY DEF LoadsPreset
<1> HIDE DEF v
<1>4. [ram EXCEPT !.current = v] \in States /\ Steady([ram EXCEPT !.current = v])
  BY <1>1, <1>2 DEF States, Steady
<1> QED BY <1>3, <1>4, PersistStep, Counted DEF IInv

LEMMA SavesPresetStep ==
  ASSUME IInv, NEW p \in Slots, SavesPreset(p)
  PROVE  IInv'
<1> DEFINE v == Snap(ram.current, ram.step)
           s == [ram EXCEPT !.presets[p] = v]
<1>1. ram \in States /\ Steady(ram)
  BY DEF IInv, TypeOK, TasksOK
<1>2. v \in Values /\ Snap(v, ram.step) = v
  BY <1>1, SnapFacts DEF States, Values
<1>3. Idle /\ Happens /\ Persists(s) /\ news' = TRUE
  BY DEF SavesPreset
<1> HIDE DEF v
<1>4. /\ s \in States /\ s.step = ram.step
      /\ \A j \in Slots : s.presets[j] = IF j = p THEN v ELSE ram.presets[j]
  BY <1>1, <1>2 DEF States
<1> HIDE DEF s
<1>5. Steady(s)
  BY <1>1, <1>2, <1>4 DEF Steady
<1> QED BY <1>3, <1>4, <1>5, PersistStep, Counted DEF IInv

LEMMA MergeStep ==
  ASSUME IInv, NEW v \in Inputs, Merges(v)
  PROVE  IInv'
<1>1. /\ ram \in States /\ Steady(ram) /\ v \in Values /\ TypeOK /\ TasksOK
      /\ loop.pc = "idle" /\ ~Booting
  BY DEF IInv, TypeOK, TasksOK, Values, Merges, Idle, MainAt, loop
<1>2. /\ ram' = [ram EXCEPT !.current = v] /\ UNCHANGED <<nvs, task, news, told, failed>>
      /\ left' \in 0 .. MaxEvents
  BY <1>1, Counted DEF Merges
<1>3. ram' \in States /\ Same(ram', ram) /\ Steady(ram')
  BY <1>1, <1>2 DEF States, Steady, Same
<1>4. loop' = loop /\ web' = web
  BY <1>2 DEF loop, web
<1>5. TypeOK' /\ TasksOK'
  BY <1>1, <1>2, <1>3, <1>4 DEF TypeOK, TasksOK, Booting
<1>6. ToldOK' /\ Migrated' /\ NoneOld' /\ LegacyOK'
  BY <1>1, <1>2, <1>4, KeptStep DEF Booting
<1>7. Agreed'
  BY <1>1, <1>2, <1>3, <1>4 DEF IInv, Agreed, InStep, Pending, Same
<1> QED BY <1>5, <1>6, <1>7 DEF IInv

\* The main loop rests, or begins the load of a refresh.
LEMMA RefreshStep == ASSUME IInv, Refreshes PROVE IInv'
<1> DEFINE x == Reading([kind |-> "refresh"])
<1>1. TypeOK /\ TasksOK /\ loop.pc \in {"idle", "check"} /\ ~Booting
  BY DEF IInv, TasksOK, Refreshes, Idle, MainAt, loop
<1>2. /\ x \in TaskStates /\ x.pc = "read" /\ x.op.kind = "refresh" /\ x.at = 1
      /\ x.seen = Empty /\ Settled(x.copy)
  <2> DEFINE op == [kind |-> "refresh"]
  <2>1. op \in Ops /\ op.kind = "refresh"
    BY DEF Ops
  <2> HIDE DEF op
  <2> QED BY <2>1, ReadingFacts DEF op
<1>3. /\ news' = FALSE /\ task' = [task EXCEPT !["main"] = x]
      /\ UNCHANGED <<nvs, ram, told, failed, left>>
  BY DEF Refreshes
<1> HIDE DEF x
<1>4. loop' = x /\ web' = web /\ task' \in [Tasks -> TaskStates]
  BY <1>1, <1>2, <1>3, MainMoves
<1>5. ~Booting'
  BY <1>2, <1>4 DEF Booting
<1>6. TypeOK'
  BY <1>1, <1>3, <1>4 DEF TypeOK
<1>7. TasksOK'
  BY <1>1, <1>2, <1>3, <1>4, <1>5 DEF TasksOK, TaskOK
<1>8. ToldOK' /\ Migrated' /\ NoneOld' /\ LegacyOK'
  BY <1>1, <1>2, <1>3, <1>4, <1>5, KeptStep DEF Fresh
<1>9. Agreed'
  <2>1. ReadSoFar(x, nvs')
    BY <1>2 DEF ReadSoFar
  <2> QED BY <1>2, <1>4, <2>1 DEF Agreed, InStep
<1> QED BY <1>6, <1>7, <1>8, <1>9 DEF IInv

LEMMA NothingNewStep == ASSUME IInv, NothingNew PROVE IInv'
<1>1. TypeOK /\ TasksOK /\ loop.pc = "check" /\ ~Booting
  BY DEF IInv, TasksOK, NothingNew, MainAt, loop
<1>2. /\ task' = [task EXCEPT !["main"] = Rest]
      /\ UNCHANGED <<nvs, ram, news, told, failed, left>>
  BY DEF NothingNew
<1>3. loop' = Rest /\ web' = web /\ task' \in [Tasks -> TaskStates]
  BY <1>1, <1>2, RestFacts, MainMoves
<1>4. ~Booting'
  BY <1>3, RestFacts DEF Booting
<1>5. TypeOK'
  BY <1>1, <1>2, <1>3 DEF TypeOK
<1>6. TasksOK'
  BY <1>1, <1>2, <1>3, <1>4, RestFacts DEF TasksOK, TaskOK
<1>7. ToldOK' /\ Migrated' /\ NoneOld' /\ LegacyOK'
  BY <1>1, <1>2, <1>3, <1>4, KeptStep, RestFacts DEF Fresh
<1>8. Agreed'
  BY <1>1, <1>2, <1>3, RestFacts DEF IInv, Agreed, InStep, Pending
<1> QED BY <1>5, <1>6, <1>7, <1>8 DEF IInv

\* The main loop takes over what its load gave; this ends the boot.
LEMMA TakeStep == ASSUME IInv, Takes PROVE IInv'
<1>1. TypeOK /\ TasksOK /\ loop.pc = "loaded" /\ loop \in TaskStates
  BY TwoTasks DEF IInv, TasksOK, Takes, MainAt, loop
<1>2. /\ task' = [task EXCEPT !["main"] = Rest] /\ ram' = loop.copy
      /\ UNCHANGED <<nvs, news, told, failed, left>>
  BY DEF Takes, loop
<1>3. loop' = Rest /\ web' = web /\ task' \in [Tasks -> TaskStates]
  BY <1>1, <1>2, RestFacts, MainMoves
<1>4. ~Booting'
  BY <1>3, RestFacts DEF Booting
<1>5. ram' \in States /\ Steady(ram')
  BY <1>1, <1>2 DEF TasksOK, TaskOK, Settled, TaskStates
<1>6. TypeOK'
  BY <1>1, <1>2, <1>3, <1>5 DEF TypeOK
<1>7. TasksOK'
  BY <1>1, <1>2, <1>3, <1>4, <1>5, RestFacts DEF TasksOK, TaskOK
<1>8. ToldOK' /\ Migrated' /\ NoneOld' /\ LegacyOK'
  BY <1>1, <1>2, <1>3, <1>4, KeptStep, RestFacts DEF Fresh
<1>9. Agreed'
  BY <1>1, <1>2, <1>3, RestFacts DEF IInv, Agreed, InStep, Pending, Same
<1> QED BY <1>6, <1>7, <1>8, <1>9 DEF IInv

-----------------------------------------------------------------------------
(* The steps of the portal between a load and a persist.                   *)

\* The portal's next state, from which the rest follows.
LEMMA PortalStep ==
  ASSUME IInv, NEW x \in TaskStates, task' = [task EXCEPT !["portal"] = x],
         UNCHANGED <<nvs, ram, told, failed>>, news' \in BOOLEAN, left' \in 0 .. MaxEvents,
         ~Booting, Fresh(x), Settled(x.copy), x.pc # "check",
         x.pc = "write" => x.next = "bump",
         x.pc # "write" /\ ~news' => ~Pending \/ failed
  PROVE  IInv'
<1>1. TypeOK /\ TasksOK
  BY DEF IInv
<1>2. loop' = loop /\ web' = x /\ task' \in [Tasks -> TaskStates]
  BY <1>1, PortalMoves
<1>3. TypeOK'
  BY <1>1, <1>2 DEF TypeOK
<1>4. TasksOK'
  BY <1>1, <1>2, Orders DEF TasksOK, TaskOK, Booting, Fresh
<1>5. ToldOK' /\ Migrated' /\ NoneOld' /\ LegacyOK'
  BY <1>1, <1>2, KeptStep DEF Booting
<1>6. Agreed'
  <2>1. ASSUME ~failed', ~Pending' PROVE InStep(loop', ram', nvs')
    <3>1. ~Pending
      BY <1>2, <2>1 DEF Pending
    <3>2. InStep(loop, ram, nvs)
      BY <2>1, <3>1 DEF IInv, Agreed
    <3> QED BY <1>2, <3>2
  <2> QED BY <2>1 DEF Agreed
<1> QED BY <1>3, <1>4, <1>5, <1>6 DEF IInv

LEMMA BeginStep ==
  ASSUME IInv, NEW op \in Ops, Begins(op)
  PROVE  IInv'
<1> DEFINE x == Reading(op)
<1>1. TypeOK /\ web.pc = "idle" /\ ~Booting /\ Happens
  BY DEF IInv, Begins, PortalAt, web, Booting, loop
<1>2. /\ task' = [task EXCEPT !["portal"] = x] /\ UNCHANGED <<nvs, ram, news, told, failed>>
  BY DEF Begins
<1>3. x \in TaskStates /\ x.pc = "read" /\ x.at = 1 /\ x.seen = Empty /\ Settled(x.copy)
  BY ReadingFacts
<1> HIDE DEF x
<1>4. news' \in BOOLEAN /\ left' \in 0 .. MaxEvents
  BY <1>1, <1>2, Counted DEF TypeOK
<1>5. ~news' => ~Pending
  BY <1>1, <1>2 DEF Pending
<1>6. Fresh(x)
  BY <1>3 DEF Fresh
<1> QED BY <1>1, <1>2, <1>3, <1>4, <1>5, <1>6, PortalStep

LEMMA GoesOnStep == ASSUME IInv, PortalGoesOn PROVE IInv'
<1>1. TypeOK /\ TasksOK /\ web \in TaskStates /\ web.pc = "loaded" /\ ~Booting
  BY TwoTasks DEF IInv, TasksOK, PortalGoesOn, PortalAt, web
<1>2. UNCHANGED <<nvs, ram, news, told, failed, left>>
  BY DEF PortalGoesOn
<1>3. news' \in BOOLEAN /\ left' \in 0 .. MaxEvents
  BY <1>1, <1>2 DEF TypeOK
<1>4. ~news' => ~Pending
  BY <1>1, <1>2 DEF Pending
<1>5. web.copy \in States /\ web.op \in Ops
  BY <1>1 DEF TaskStates
<1>6. ASSUME NEW s \in States, task' = [task EXCEPT !["portal"] = Writing(web, s, "bump")]
      PROVE  IInv'
  <2> DEFINE x == Writing(web, s, "bump")
  <2>1. /\ x \in TaskStates /\ x.pc = "write" /\ x.at = 1 /\ x.next = "bump" /\ Settled(x.copy)
    BY <1>1, WritingFacts
  <2>2. task' = [task EXCEPT !["portal"] = x]
    BY <1>6
  <2> HIDE DEF x
  <2>3. Fresh(x)
    BY <2>1 DEF Fresh
  <2> QED BY <1>1, <1>2, <1>3, <2>1, <2>2, <2>3, PortalStep
<1>7. CASE web.op.kind = "store" /\ web.op.slot <= web.copy.count
  <2> DEFINE v == Snap(web.op.value, web.copy.step)
             s == [web.copy EXCEPT !.presets[web.op.slot] = v]
  <2>1. web.op.slot \in Slots /\ web.op.value \in Inputs
    BY <1>5, <1>7 DEF Ops, Nothing
  <2>2. v \in Values
    <3>1. web.op.value \in Nat
      <4>1. \A w \in Inputs : w \in Nat
        OBVIOUS
      <4> QED BY <2>1, <4>1
    <3>2. web.copy.step \in Steps
      BY <1>5 DEF States
    <3> QED BY <3>1, <3>2, SnapFacts
  <2>3. task' = [task EXCEPT !["portal"] = Writing(web, s, "bump")]
    BY <1>7 DEF PortalGoesOn, web
  <2> HIDE DEF v
  <2>4. s \in States
    BY <1>5, <2>2 DEF States
  <2> QED BY <1>6, <2>3, <2>4
<1>8. CASE web.op.kind = "settings"
  <2> DEFINE s == Configured(web.copy, web.op.count, web.op.step)
  <2>1. web.op.count \in MinCount .. MaxCount /\ web.op.step \in Steps
    BY <1>5, <1>8 DEF Ops, Nothing
  <2>2. s \in States
    BY <1>5, <2>1, ConfiguredFacts
  <2>3. task' = [task EXCEPT !["portal"] = Writing(web, s, "bump")]
    BY <1>8 DEF PortalGoesOn, web
  <2> HIDE DEF s
  <2> QED BY <1>6, <2>2, <2>3
<1>9. CASE /\ ~(web.op.kind = "store" /\ web.op.slot <= web.copy.count)
           /\ web.op.kind # "settings"
  <2>1. task' = [task EXCEPT !["portal"] = Rest]
    BY <1>9 DEF PortalGoesOn, web
  <2>2. Fresh(Rest)
    BY RestFacts DEF Fresh
  <2> QED BY <1>1, <1>2, <1>3, <1>4, <2>1, <2>2, RestFacts, PortalStep
<1> QED BY <1>7, <1>8, <1>9

LEMMA BumpStep == ASSUME IInv, Bumps PROVE IInv'
<1>1. TypeOK /\ TasksOK /\ web.pc = "bump" /\ ~Booting
  BY DEF IInv, TasksOK, Bumps, PortalAt, web
<1>2. /\ news' = TRUE /\ task' = [task EXCEPT !["portal"] = Rest]
      /\ UNCHANGED <<nvs, ram, told, failed, left>>
  BY DEF Bumps
<1>3. Fresh(Rest) /\ left' \in 0 .. MaxEvents /\ news' \in BOOLEAN
  BY <1>1, <1>2, RestFacts DEF Fresh, TypeOK
<1> QED BY <1>1, <1>2, <1>3, RestFacts, PortalStep

-----------------------------------------------------------------------------
(* The factory reset, restarts and power losses.                           *)

LEMMA BootFacts ==
  /\ Boots \in [Tasks -> TaskStates] /\ Boots["portal"] = Rest
  /\ LET t == Boots["main"] IN
     /\ t.pc = "read" /\ t.op.kind = "boot" /\ t.at = 1 /\ t.seen = Empty
     /\ Settled(t.copy) /\ t.alone = FALSE
<1> DEFINE op == [kind |-> "boot"]
           t == Reading(op)
<1>1. op \in Ops /\ op.kind = "boot"
  BY DEF Ops
<1>2. Boots = [q \in Tasks |-> IF q = "main" THEN t ELSE Rest]
  BY DEF Boots
<1> HIDE DEF op
<1>3. /\ t \in TaskStates /\ t.pc = "read" /\ t.op = op /\ t.at = 1 /\ t.seen = Empty
      /\ Settled(t.copy) /\ t.alone = FALSE
  BY <1>1, ReadingFacts
<1> HIDE DEF t
<1> QED BY <1>1, <1>2, <1>3, RestFacts DEF Tasks

\* Where every boot begins.
LEMMA BootInv ==
  ASSUME nvs \in Images, ram = Defaults, task = Boots, news = FALSE, failed = FALSE,
         told \subseteq States, left \in 0 .. MaxEvents,
         \A s \in told : Settled(s) /\ \A k \in Keys : nvs[k] = Stored(s, k)
  PROVE  IInv
<1>1. /\ loop = Boots["main"] /\ web = Rest /\ Booting /\ loop.pc = "read" /\ loop.at = 1
      /\ web.pc = "idle"
  BY BootFacts, RestFacts DEF loop, web, Booting
<1>2. TypeOK
  BY BootFacts, DefaultFacts DEF TypeOK
<1>3. TasksOK
  BY <1>1, BootFacts, RestFacts, DefaultFacts DEF TasksOK, TaskOK, Settled
<1>4. ToldOK
  BY <1>1 DEF ToldOK, Tasks, loop, web
<1>5. Migrated /\ NoneOld /\ LegacyOK
  BY <1>1 DEF Migrated, NoneOld, LegacyOK
<1>6. Agreed
  BY <1>1 DEF Agreed, InStep, ReadSoFar
<1> QED BY <1>2, <1>3, <1>4, <1>5, <1>6 DEF IInv

LEMMA BootedStep ==
  ASSUME IInv, Reboots, nvs' \in Images, told' \subseteq told,
         \A s \in told' : \A k \in Keys : nvs'[k] = Stored(s, k)
  PROVE  IInv'
<1>1. /\ ram' = Defaults /\ task' = Boots /\ news' = FALSE /\ failed' = FALSE
      /\ left' \in 0 .. MaxEvents
  BY Counted DEF Reboots, IInv
<1>2. told' \subseteq States /\ \A s \in told' : Settled(s)
  BY DEF IInv, TypeOK, ToldOK
<1>3. /\ loop' = Boots["main"] /\ web' = Rest /\ Booting' /\ loop'.pc = "read" /\ loop'.at = 1
      /\ web'.pc = "idle"
  BY <1>1, BootFacts, RestFacts DEF loop, web, Booting
<1>4. TypeOK'
  BY <1>1, <1>2, BootFacts, DefaultFacts DEF TypeOK
<1>5. TasksOK'
  BY <1>1, <1>3, BootFacts, RestFacts, DefaultFacts DEF TasksOK, TaskOK, Settled
<1>6. ToldOK'
  BY <1>2, <1>3 DEF ToldOK, Tasks, loop, web
<1>7. Migrated' /\ NoneOld' /\ LegacyOK'
  BY <1>3 DEF Migrated, NoneOld, LegacyOK
<1>8. Agreed'
  BY <1>3 DEF Agreed, InStep, ReadSoFar
<1> QED BY <1>4, <1>5, <1>6, <1>7, <1>8 DEF IInv

LEMMA PowerLostStep == ASSUME IInv, PowerLost PROVE IInv'
<1>1. Reboots /\ UNCHANGED <<nvs, told>>
  BY DEF PowerLost
<1> QED BY <1>1, BootedStep DEF IInv, TypeOK, ToldOK

LEMMA PowerLostInResetStep == ASSUME IInv, PowerLostInReset PROVE IInv'
<1>1. Reboots /\ told' = {}
  BY DEF PowerLostInReset
<1>2. PICK erased \in SUBSET Keys :
        nvs' = [k \in Keys |-> IF k \in erased THEN Missing ELSE nvs[k]]
  BY DEF PowerLostInReset
<1>3. nvs \in Images /\ \A k \in Keys : BlobOK(k, Missing)
  BY DEF IInv, TypeOK, BlobOK
<1>4. KeysOK(nvs')
  <2>1. KeysOK(nvs)
    BY <1>3, ImageFacts
  <2> QED BY <1>2, <1>3, <2>1 DEF KeysOK
<1>5. nvs' \in Images
  BY <1>4, ImageFacts
<1> QED BY <1>1, <1>5, BootedStep

LEMMA ResetStep == ASSUME IInv, Resets PROVE IInv'
<1> DEFINE y == [Rest EXCEPT !.pc = "bump"]
           x == Disturbed(loop)
<1>1. /\ TypeOK /\ TasksOK /\ web.pc = "idle" /\ ~Booting
      /\ loop \in TaskStates /\ Happens
  BY TwoTasks DEF IInv, TasksOK, Resets, PortalAt, web, loop, Booting
<1>2. /\ nvs' = Empty /\ told' = {} /\ UNCHANGED <<ram, news, failed>>
  BY DEF Resets
<1>3. y \in TaskStates /\ y.pc = "bump" /\ Settled(y.copy)
  BY RestFacts DEF TaskStates
<1>4. /\ x \in TaskStates /\ x.at = loop.at /\ x.pc = loop.pc /\ x.op = loop.op
      /\ x.seen = loop.seen /\ x.copy = loop.copy /\ x.next = loop.next /\ x.alone = FALSE
  BY <1>1, WroteTask
<1>5. loop' = x /\ web' = y /\ task' = [q \in Tasks |-> IF q = "portal" THEN y ELSE x]
  <2>1. task' = Disturb([task EXCEPT !["portal"] = y], "portal")
    BY DEF Resets
  <2> HIDE DEF y
  <2>2. task' = [q \in Tasks |-> IF q = "portal" THEN y ELSE x]
    BY <1>1, <2>1 DEF Disturb, Disturbed, TypeOK, Tasks, loop
  <2> HIDE DEF x
  <2> QED BY <2>2 DEF loop, web, Tasks
<1> HIDE DEF x, y
<1>6. TypeOK'
  <2>1. Empty \in Images
    BY EmptyFacts, ImageFacts
  <2> QED BY <1>1, <1>2, <1>3, <1>4, <1>5, <2>1, Counted DEF TypeOK
<1>7. ~Booting'
  BY <1>1, <1>4, <1>5 DEF Booting
<1>8. TasksOK'
  BY <1>1, <1>2, <1>3, <1>4, <1>5, <1>7 DEF TasksOK, TaskOK
<1>9. ToldOK'
  BY <1>2, <1>3, <1>4, <1>5 DEF ToldOK, Tasks
<1>10. Migrated' /\ LegacyOK'
  BY <1>2, EmptyFacts, InOrder DEF Migrated, LegacyOK
<1>11. NoneOld'
  BY <1>1, <1>2, <1>3, <1>4, <1>5 DEF IInv, NoneOld, NotOld
<1>12. Agreed'
  BY <1>3, <1>5 DEF Agreed, Pending
<1> QED BY <1>6, <1>8, <1>9, <1>10, <1>11, <1>12 DEF IInv

-----------------------------------------------------------------------------
(* The steps of a load and of a persist.                                   *)

LEMMA ReadOn ==
  ASSUME NEW t \in TaskStates, t.pc = "read", t.at <= Total, NEW n \in Images,
         NEW x, x = ReadOne(t, n)
  PROVE  /\ \A k \in Keys : Finds(t, k, n) => Finds(x, k, n)
         /\ ReadSoFar(t, n) => ReadSoFar(x, n)
         /\ /\ NotOld(t) /\ Covered(n)
            /\ n[Legacy] # Missing => \E k \in Keys : Readable(n, k) /\ Finds(t, k, n)
            => NotOld(x)
<1> DEFINE k0 == ReadOrder[t.at]
<1>1. /\ x \in TaskStates /\ x.pc = "read" /\ x.at = t.at + 1
      /\ x.seen[k0] = n[k0] /\ \A k \in Keys : k # k0 => x.seen[k] = t.seen[k]
  BY ReadTask
<1>2. /\ t.at \in 1 .. Total /\ k0 \in Keys /\ (t.at = 1 => k0 = SchemaKey)
      /\ (t.at = Total => k0 = Legacy) /\ (k0 = Legacy => t.at = Total)
  BY Orders, InOrder DEF TaskStates
<1>3. \A i \in 1 .. x.at - 1 : i = t.at \/ i \in 1 .. t.at - 1
  BY <1>1, <1>2, Orders
<1>4. SchemaKey \in Keys /\ Legacy \in Keys /\ Total \in Nat /\ Total >= 5
      /\ SchemaKey # Legacy
  BY InOrder, Orders, Distinct
<1>5. ReadOrder[t.at] = k0 /\ \A i \in 1 .. Total : ReadOrder[i] \in Keys
  BY InOrder
<1> HIDE DEF k0
<1>6. ASSUME NEW k \in Keys, Finds(t, k, n) PROVE Finds(x, k, n)
  <2>1. x.seen[SchemaKey] = n[SchemaKey]
    <3>1. CASE t.at = 1
      BY <1>1, <1>2, <3>1
    <3>2. CASE t.at # 1
      <4>1. t.at > 1
        BY <1>2, <1>4, <3>2
      <4>2. t.seen[SchemaKey] = n[SchemaKey]
        BY <1>6, <4>1 DEF Finds
      <4> QED BY <1>1, <1>4, <4>2
    <3> QED BY <3>1, <3>2
  <2>2. ASSUME NEW i \in 1 .. x.at - 1, ReadOrder[i] = k
        PROVE  x.seen[k].form = n[k].form
    <3>1. CASE k = k0
      BY <1>1, <3>1
    <3>2. CASE k # k0
      <4>1. i \in 1 .. t.at - 1
        BY <1>3, <1>5, <2>2, <3>2
      <4>2. t.seen[k].form = n[k].form
        BY <1>6, <2>2, <4>1 DEF Finds
      <4> QED BY <1>1, <3>2, <4>2
    <3> QED BY <3>1, <3>2
  <2> QED BY <2>1, <2>2 DEF Finds
<1>7. ASSUME ReadSoFar(t, n) PROVE ReadSoFar(x, n)
  <2> SUFFICES ASSUME NEW i \in 1 .. x.at - 1
               PROVE  x.seen[ReadOrder[i]] = n[ReadOrder[i]]
    BY DEF ReadSoFar
  <2>1. CASE ReadOrder[i] = k0
    BY <1>1, <2>1
  <2>2. CASE ReadOrder[i] # k0
    <3>1. i \in 1 .. t.at - 1
      BY <1>3, <1>5, <2>2
    <3>2. i \in 1 .. Total
      BY <1>2, <1>4, <3>1
    <3>3. t.seen[ReadOrder[i]] = n[ReadOrder[i]]
      BY <1>7, <3>1 DEF ReadSoFar
    <3> QED BY <1>1, <1>5, <2>2, <3>2, <3>3
  <2> QED BY <2>1, <2>2
<1>8. ASSUME NotOld(t), Covered(n),
             n[Legacy] # Missing => \E k \in Keys : Readable(n, k) /\ Finds(t, k, n)
      PROVE  NotOld(x)
  <2>1. NewSchema(x.seen[SchemaKey])
    BY <1>1, <1>4, <1>8 DEF NotOld, Covered
  <2>2. t.seen[Legacy] = Missing
    BY <1>2, <1>8 DEF NotOld
  <2>3. ASSUME t.at # Total PROVE x.seen[Legacy] = Missing
    BY <1>1, <1>2, <1>4, <2>2, <2>3
  <2>4. x.at <= Total => t.at # Total
    BY <1>1, <1>2, <1>4
  <2>5. ASSUME x.seen[Legacy] # Missing PROVE Versioned(x.seen)
    <3>1. t.at = Total /\ k0 = Legacy /\ n[Legacy] # Missing
      BY <1>1, <1>2, <2>3, <2>5
    <3>2. PICK k \in Keys : Readable(n, k) /\ Finds(t, k, n)
      BY <1>8, <3>1
    <3>3. k # Legacy
      BY <3>2, ImageFacts, ReadableFacts
    <3>4. t.at > 1
      BY <1>4, <3>1
    <3>5. x.seen[SchemaKey] = n[SchemaKey]
      BY <1>1, <1>4, <3>1, <3>2, <3>4 DEF Finds
    <3>6. PICK i \in 1 .. Total : ReadOrder[i] = k
      BY InOrder
    <3>7. i \in 1 .. t.at - 1
      BY <1>4, <1>5, <3>1, <3>3, <3>6
    <3>8. x.seen[k].form = n[k].form
      BY <1>1, <3>1, <3>2, <3>3, <3>6, <3>7 DEF Finds
    <3> QED BY <3>2, <3>5, <3>8 DEF Versioned, Readable
  <2> QED BY <1>1, <2>1, <2>3, <2>4, <2>5 DEF NotOld
<1> QED BY <1>6, <1>7, <1>8

LEMMA ReadStep == ASSUME IInv, NEW q \in Tasks, Reads(q) PROVE IInv'
<1> DEFINE t == task[q]
           x == ReadOne(t, nvs)
<1>1. /\ TypeOK /\ TasksOK /\ t \in TaskStates /\ TaskOK(t) /\ (q = "main" \/ q = "portal")
      /\ nvs \in Images
  BY TwoTasks DEF IInv, TasksOK, loop, web, TypeOK
<1>2. /\ t.pc = "read" /\ t.at <= Total /\ task' = [task EXCEPT ![q] = x]
      /\ UNCHANGED <<nvs, ram, news, told, failed, left>>
  BY Orders DEF Reads, ReadOne
<1>3. /\ x \in TaskStates /\ x.pc = "read" /\ x.op = t.op /\ x.copy = t.copy
  BY <1>1, <1>2, ReadTask
<1>4. /\ \A k \in Keys : Finds(t, k, nvs) => Finds(x, k, nvs)
      /\ ReadSoFar(t, nvs) => ReadSoFar(x, nvs)
      /\ /\ NotOld(t) /\ Covered(nvs)
         /\ nvs[Legacy] # Missing => \E k \in Keys : Readable(nvs, k) /\ Finds(t, k, nvs)
         => NotOld(x)
  BY <1>1, <1>2, ReadOn
<1> HIDE DEF x
<1>5. ToldOK'
  <2>1. \A p \in Tasks : task'[p].pc # "write" \/ task'[p] = task[p]
    BY <1>1, <1>2, <1>3 DEF TypeOK
  <2> QED BY <1>2, <2>1, KeysKept
<1>6. CASE q = "main"
  <2>1. loop' = x /\ web' = web /\ t = loop /\ task' \in [Tasks -> TaskStates]
    BY <1>1, <1>2, <1>3, <1>6, MainMoves DEF loop
  <2>2. TypeOK' /\ (Booting' <=> Booting)
    BY <1>1, <1>2, <1>3, <2>1 DEF TypeOK, Booting
  <2>3. TasksOK'
    BY <1>1, <1>2, <1>3, <2>1, <2>2 DEF TasksOK, TaskOK
  <2>4. Migrated' /\ LegacyOK'
    BY <1>2, <1>3, <1>4, <2>1, <2>2 DEF IInv, Migrated, LegacyOK
  <2>5. NoneOld'
    BY <1>2, <1>3, <1>4, <2>1, <2>2 DEF IInv, Migrated, LegacyOK, NoneOld
  <2>6. Agreed'
    BY <1>2, <1>3, <1>4, <2>1 DEF IInv, Agreed, InStep, Pending
  <2> QED BY <1>5, <2>2, <2>3, <2>4, <2>5, <2>6 DEF IInv
<1>7. CASE q = "portal"
  <2>1. loop' = loop /\ web' = x /\ t = web /\ task' \in [Tasks -> TaskStates]
    BY <1>1, <1>2, <1>3, <1>7, PortalMoves DEF web
  <2>2. TypeOK' /\ (Booting' <=> Booting)
    BY <1>1, <1>2, <1>3, <2>1 DEF TypeOK, Booting
  <2>3. TasksOK'
    BY <1>1, <1>2, <1>3, <2>1, <2>2 DEF TasksOK, TaskOK
  <2>4. Migrated' /\ LegacyOK'
    BY <1>2, <1>3, <1>4, <2>1, <2>2 DEF IInv, Migrated, LegacyOK
  <2>5. NoneOld'
    BY <1>2, <1>3, <1>4, <2>1, <2>2 DEF IInv, Migrated, LegacyOK, NoneOld
  <2>6. Agreed'
    BY <1>2, <1>3, <2>1 DEF IInv, Agreed, InStep, Pending
  <2> QED BY <1>5, <2>2, <2>3, <2>4, <2>5, <2>6 DEF IInv
<1> QED BY <1>1, <1>6, <1>7

LEMMA AllRead ==
  ASSUME NEW t \in TaskStates, t.at = Total + 1, NEW n \in Images, ReadSoFar(t, n)
  PROVE  t.seen = n
<1>1. \A i \in 1 .. Total : t.seen[ReadOrder[i]] = n[ReadOrder[i]]
  BY Orders DEF ReadSoFar
<1>2. \A k \in Keys : t.seen[k] = n[k]
  BY <1>1, InOrder
<1>3. t.seen \in Images
  BY DEF TaskStates
<1> QED BY <1>2, <1>3 DEF Images

LEMMA LoadStep == ASSUME IInv, NEW q \in Tasks, Loads(q) PROVE IInv'
<1> DEFINE t == task[q]
           s == Loaded(t.seen)
           w == Writing(t, s, "loaded")
           l == LoadEnds(t, s)
           x == IF IsOld(t.seen) THEN w ELSE l
<1>1. /\ TypeOK /\ TasksOK /\ t \in TaskStates /\ TaskOK(t) /\ (q = "main" \/ q = "portal")
      /\ nvs \in Images /\ t.seen \in Images
  BY TwoTasks DEF IInv, TasksOK, loop, web, TypeOK, TaskStates
<1>2. /\ t.pc = "read" /\ t.at = Total + 1 /\ task' = [task EXCEPT ![q] = x]
      /\ failed' = (failed \/ Stray(t.seen)) /\ UNCHANGED <<nvs, ram, news, told, left>>
  BY <1>1, Orders DEF Loads, TaskStates, LoadEnds
<1>3. s \in States /\ Settled(s) /\ Applied(s) = s
  BY <1>1, ImageFacts, LoadedFacts, AppliedFacts
<1>4. /\ w \in TaskStates /\ w.pc = "write" /\ w.op = t.op /\ w.at = 1 /\ w.copy = s
      /\ w.next = "loaded"
  BY <1>1, <1>3, WritingFacts
<1>5. l \in TaskStates /\ l.pc = "loaded" /\ l.op = t.op /\ l.copy = s /\ l.at = 1
  BY <1>1, <1>3, LoadedTask
<1> HIDE DEF w, l
<1>6. /\ x \in TaskStates /\ x.op = t.op /\ x.at = 1 /\ x.copy = s
      /\ \/ IsOld(t.seen) /\ x.pc = "write" /\ x.next = "loaded"
         \/ ~IsOld(t.seen) /\ x.pc = "loaded"
  BY <1>4, <1>5
<1> HIDE DEF x
<1>7. ToldOK'
  <2>1. \A p \in Tasks : task'[p].at = 1 \/ task'[p] = task[p]
    BY <1>1, <1>2, <1>6 DEF TypeOK
  <2> QED BY <1>2, <2>1, KeysKept
<1>8. /\ Covered(t.seen) => x.pc = "loaded" /\ ~Stray(t.seen)
      /\ x.pc = "loaded" /\ ~Stray(t.seen) => Covered(t.seen)
  BY <1>1, <1>6, ImageFacts, CoveredNotOld
<1>9. NotOld(t) => Covered(t.seen)
  BY <1>2 DEF NotOld, Covered
<1>10. ReadSoFar(t, nvs) => t.seen = nvs
  BY <1>1, <1>2, AllRead
<1>11. failed' \in BOOLEAN
  BY <1>1, <1>2 DEF TypeOK, Stray, IsOld
<1> DEFINE c == Loaded(nvs)
<1>12. t.seen = nvs => s = c
  OBVIOUS
<1> HIDE DEF s
<1>13. CASE q = "main"
  <2>1. loop' = x /\ web' = web /\ t = loop /\ task' \in [Tasks -> TaskStates]
    BY <1>1, <1>2, <1>6, <1>13, MainMoves DEF loop
  <2>2. TypeOK' /\ (Booting' <=> Booting)
    BY <1>1, <1>2, <1>6, <1>11, <2>1 DEF TypeOK, Booting
  <2>3. TasksOK'
    <3>1. 1 <= Total
      BY Orders
    <3> QED BY <1>1, <1>2, <1>3, <1>6, <2>1, <2>2, <3>1 DEF TasksOK, TaskOK
  <2>4. CASE failed'
    BY <1>7, <2>2, <2>3, <2>4, FailedStep DEF IInv
  <2>5. CASE ~failed'
    <3>1. ~failed /\ ~Stray(t.seen)
      BY <1>2, <2>5
    <3>2. ~Pending => t.seen = nvs
      BY <1>2, <1>10, <2>1, <3>1 DEF IInv, Agreed, InStep
    <3>3. Booting => ~Pending
      BY <1>1 DEF TasksOK, Pending
    <3>4. ~Booting => x.pc = "loaded"
      BY <1>8, <1>9, <2>1, <3>1 DEF IInv, NoneOld
    <3>5. Migrated'
      BY <1>2, <1>8, <2>1, <2>2, <3>1, <3>2, <3>3 DEF IInv, Migrated
    <3>6. NoneOld' /\ LegacyOK'
      BY <1>2, <1>6, <2>1, <2>2, <3>1, <3>4 DEF IInv, NoneOld, NotOld, LegacyOK, Finds
    <3>7. Agreed'
      <4>1. Pending' = Pending
        BY <1>2, <2>1 DEF Pending
      <4>2. Written(x, nvs')
        BY <1>6 DEF Written
      <4>3. ~Pending => x.copy = Loaded(nvs')
        BY <1>2, <1>6, <1>12, <3>2
      <4> HIDE DEF c
      <4> QED BY <1>6, <2>1, <4>1, <4>2, <4>3 DEF Agreed, InStep
    <3> QED BY <1>7, <2>2, <2>3, <3>5, <3>6, <3>7 DEF IInv
  <2> QED BY <2>4, <2>5
<1>14. CASE q = "portal"
  <2>1. loop' = loop /\ web' = x /\ t = web /\ task' \in [Tasks -> TaskStates]
    BY <1>1, <1>2, <1>6, <1>14, PortalMoves DEF web
  <2>2. TypeOK' /\ ~Booting' /\ ~Booting
    BY <1>1, <1>2, <1>6, <1>11, <2>1 DEF TypeOK, Booting, TasksOK
  <2>3. TasksOK'
    <3>1. 1 <= Total
      BY Orders
    <3> QED BY <1>1, <1>2, <1>3, <1>6, <2>1, <2>2, <3>1 DEF TasksOK, TaskOK
  <2>4. CASE failed'
    BY <1>7, <2>2, <2>3, <2>4, FailedStep DEF IInv
  <2>5. CASE ~failed'
    <3>1. ~failed /\ ~Stray(t.seen)
      BY <1>2, <2>5
    <3>2. x.pc = "loaded"
      BY <1>8, <1>9, <2>1, <2>2, <3>1 DEF IInv, NoneOld
    <3>3. Migrated' /\ LegacyOK'
      BY <1>2, <2>1, <2>2, <3>1, <3>2 DEF IInv, Migrated, LegacyOK, Finds
    <3>4. NoneOld'
      BY <2>1, <2>2, <3>1, <3>2 DEF IInv, NoneOld, NotOld
    <3>5. Agreed'
      BY <1>2, <2>1, <3>1, <3>2 DEF IInv, Agreed, Pending
    <3> QED BY <1>7, <2>2, <2>3, <3>3, <3>4, <3>5 DEF IInv
  <2> QED BY <2>4, <2>5
<1> QED BY <1>1, <1>13, <1>14

\* What a persist has stored, with one key more.
LEMMA WrittenOn ==
  ASSUME NEW t \in TaskStates, t.at <= Total, Settled(t.copy), NEW n \in Images, NEW m,
         m = WriteOne(n, t.copy, WriteOrder[t.at]), Written(t, n)
  PROVE  /\ \A i \in 1 .. t.at : m[WriteOrder[i]] = Stored(t.copy, WriteOrder[i])
         /\ t.at = Total => /\ \A k \in Keys : m[k] = Stored(t.copy, k)
                            /\ Loaded(m) = t.copy /\ Covered(m)
<1> DEFINE k0 == WriteOrder[t.at]
<1>1. t.at \in 1 .. Total /\ k0 \in Keys /\ t.copy \in States /\ KeysOK(n)
  BY Orders, InOrder, ImageFacts DEF TaskStates
<1>2. m = WriteOne(n, t.copy, k0) /\ WriteOrder[t.at] = k0
  OBVIOUS
<1> HIDE DEF k0
<1>3. KeysOK(m) /\ m[k0] = Stored(t.copy, k0) /\ \A k \in Keys : k # k0 => m[k] = n[k]
  BY <1>1, <1>2, WriteKeeps
<1>4. ASSUME NEW i \in 1 .. t.at PROVE m[WriteOrder[i]] = Stored(t.copy, WriteOrder[i])
  <2>1. CASE WriteOrder[i] = k0
    BY <1>3, <2>1
  <2>2. CASE WriteOrder[i] # k0
    <3>1. i \in 1 .. t.at - 1 /\ i \in 1 .. Total
      BY <1>1, <1>2, <2>2, Orders
    <3>2. WriteOrder[i] \in Keys /\ n[WriteOrder[i]] = Stored(t.copy, WriteOrder[i])
      BY <3>1, InOrder DEF Written
    <3> QED BY <1>3, <2>2, <3>2
  <2> QED BY <2>1, <2>2
<1>5. ASSUME t.at = Total PROVE \A k \in Keys : m[k] = Stored(t.copy, k)
  BY <1>4, <1>5, InOrder
<1>6. ASSUME t.at = Total PROVE Loaded(m) = t.copy /\ Covered(m)
  <2>1. \A k \in Keys : m[k] = Stored(t.copy, k)
    BY <1>5, <1>6
  <2>2. t.copy \in States /\ Settled(t.copy)
    BY <1>1
  <2> DEFINE s == t.copy
  <2> HIDE DEF s
  <2>3. s \in States /\ Settled(s) /\ \A k \in Keys : m[k] = Stored(s, k)
    BY <2>1, <2>2 DEF s
  <2>4. Loaded(m) = s /\ Covered(m)
    BY <1>3, <2>3, StoredLoads
  <2> QED BY <2>4 DEF s
<1> QED BY <1>4, <1>5, <1>6

LEMMA WriteStep == ASSUME IInv, NEW q \in Tasks, Writes(q) PROVE IInv'
<1> DEFINE t == task[q]
           k0 == WriteOrder[t.at]
           e == Ends(t)
           g == GoesOn(t)
           y == IF t.at = Len(WriteOrder) THEN e ELSE g
<1>1. /\ TypeOK /\ TasksOK /\ t \in TaskStates /\ TaskOK(t) /\ (q = "main" \/ q = "portal")
      /\ nvs \in Images /\ loop \in TaskStates /\ web \in TaskStates
  BY TwoTasks DEF IInv, TasksOK, loop, web, TypeOK
<1>2. /\ t.pc = "write" /\ t.at \in 1 .. Total /\ Settled(t.copy) /\ t.copy \in States
      /\ nvs' = WriteOne(nvs, t.copy, k0)
      /\ task' = [r \in Tasks |-> IF r = q THEN y ELSE Disturbed(task[r])]
      /\ told' = (IF t.at = Total /\ t.alone THEN {t.copy} ELSE {})
      /\ UNCHANGED <<ram, news, failed, left>>
  <2>1. t.pc = "write" /\ t.at \in 1 .. Total /\ Settled(t.copy) /\ t.copy \in States
    BY <1>1, Orders DEF Writes, TaskOK, TaskStates
  <2>2. /\ nvs' = WriteOne(nvs, t.copy, k0)
        /\ told' = (IF t.at = Total /\ t.alone THEN {t.copy} ELSE {})
        /\ UNCHANGED <<ram, news, failed, left>>
    BY Orders DEF Writes, WriteOne
  <2>3. task' = Disturb([task EXCEPT ![q] = y], q)
    BY DEF Writes, Ends, GoesOn
  <2> HIDE DEF y
  <2>4. task' = [r \in Tasks |-> IF r = q THEN y ELSE Disturbed(task[r])]
    BY <1>1, <2>3 DEF Disturb, Disturbed, TypeOK
  <2> QED BY <2>1, <2>2, <2>4
<1>3. /\ e \in TaskStates /\ e.at = 1 /\ e.pc = t.next /\ e.op = t.op
      /\ e.copy = t.copy /\ e.next = t.next
      /\ g \in TaskStates /\ g.at = t.at + 1 /\ g.pc = t.pc /\ g.op = t.op
      /\ g.copy = t.copy /\ g.next = t.next /\ g.alone = t.alone
  <2>1. t.at <= Total
    BY <1>2, Orders
  <2> QED BY <1>1, <2>1, WroteTask
<1>4. \A u \in TaskStates :
        /\ Disturbed(u) \in TaskStates /\ Disturbed(u).at = u.at
        /\ Disturbed(u).pc = u.pc /\ Disturbed(u).op = u.op
        /\ Disturbed(u).seen = u.seen /\ Disturbed(u).copy = u.copy /\ Disturbed(u).next = u.next
        /\ Disturbed(u).alone = FALSE
  BY WroteTask
<1> HIDE DEF e, g
<1>5. /\ y \in TaskStates /\ y.op = t.op /\ y.copy = t.copy /\ y.next = t.next
      /\ t.at = Total \/ t.at < Total
      /\ t.at = Total => y.pc = t.next /\ y.at = 1
      /\ t.at < Total => y.pc = "write" /\ y.at = t.at + 1 /\ y.alone = t.alone
  BY <1>2, <1>3, Orders
<1>6. t.next \in {"loaded", "check", "bump"}
  BY <1>1, <1>2 DEF TasksOK, loop, web
<1> HIDE DEF y
<1>7. k0 \in Keys /\ KeysOK(nvs)
  BY <1>1, <1>2, InOrder, ImageFacts
<1>8. /\ nvs' \in Images
      /\ Covered(nvs) => Covered(nvs')
      /\ nvs[SchemaKey] = CurrentSchema => nvs'[SchemaKey] = CurrentSchema
      /\ nvs'[Legacy] # Missing => nvs[Legacy] # Missing
      /\ \A j \in Keys :
           nvs[SchemaKey] = CurrentSchema /\ Readable(nvs, j) /\ nvs'[Legacy] # Missing
             => Readable(nvs', j) /\ nvs'[j].form = nvs[j].form
  <2> HIDE DEF k0
  <2>1. nvs' = WriteOne(nvs, t.copy, k0) /\ t.copy \in States
    BY <1>2
  <2> HIDE DEF t
  <2> QED BY <1>7, <2>1, WriteKeeps, ImageFacts
<1>9. Written(t, nvs) =>
        /\ \A i \in 1 .. t.at : nvs'[WriteOrder[i]] = Stored(t.copy, WriteOrder[i])
        /\ t.at = Total => /\ \A k \in Keys : nvs'[k] = Stored(t.copy, k)
                           /\ Loaded(nvs') = t.copy /\ Covered(nvs')
  BY <1>1, <1>2, WrittenOn
<1>10. Written(t, nvs) /\ t.at < Total => Written(y, nvs')
  <2>1. t.at < Total => y.at - 1 = t.at /\ y.copy = t.copy
    BY <1>2, <1>5, Orders
  <2> QED BY <1>9, <2>1 DEF Written
<1>11. task'[q] = y /\ \A r \in Tasks : r # q => task'[r] = Disturbed(task[r])
  BY <1>2
<1>12. ToldOK'
  <2>1. ASSUME NEW s \in told' PROVE Settled(s) /\ \A k \in Keys : nvs'[k] = Stored(s, k)
    <3>1. s = t.copy /\ t.at = Total /\ t.alone
      BY <1>2, <2>1
    <3>2. Written(t, nvs)
      BY <1>2, <3>1 DEF IInv, ToldOK
    <3> QED BY <1>2, <1>9, <3>1, <3>2
  <2>2. ASSUME NEW r \in Tasks, task'[r].pc = "write", task'[r].alone
        PROVE  Written(task'[r], nvs')
    <3>1. CASE r = q
      <4>1. CASE t.at < Total
        <5>1. t.alone
          <6>1. y.alone = t.alone
            BY <1>5, <4>1
          <6>2. y.alone
            BY <1>11, <2>2, <3>1
          <6> QED BY <6>1, <6>2
        <5>2. Written(t, nvs)
          BY <1>2, <5>1 DEF IInv, ToldOK
        <5> QED BY <1>10, <1>11, <3>1, <4>1, <5>2
      <4>2. CASE ~(t.at < Total)
        BY <1>5, <1>6, <1>11, <2>2, <3>1, <4>2
      <4> QED BY <4>1, <4>2
    <3>2. CASE r # q
      BY <1>1, <1>4, <1>11, <2>2, <3>2 DEF TypeOK
    <3> QED BY <3>1, <3>2
  <2> QED BY <2>1, <2>2 DEF ToldOK
<1>13. task' \in [Tasks -> TaskStates] /\ told' \subseteq States
  <2>1. \A r \in Tasks : task[r] \in TaskStates
    BY <1>1 DEF TypeOK
  <2> QED BY <1>2, <1>4, <1>5, <2>1
<1>14. TypeOK'
  BY <1>1, <1>2, <1>8, <1>13 DEF TypeOK
<1>15. \A u \in TaskStates : NotOld(u) => NotOld(Disturbed(u))
  BY <1>4 DEF NotOld
<1>16. \A k, n, m : \A u \in TaskStates :
         Finds(u, k, n) /\ m[SchemaKey] = n[SchemaKey] /\ m[k].form = n[k].form
           => Finds(Disturbed(u), k, m)
  BY <1>4 DEF Finds
<1>17. \A k, n : y.pc # "read" /\ Finds(y, k, n)
  BY <1>5, <1>6 DEF Finds
<1>18. NotOld(t) => NotOld(y)
  BY <1>2, <1>5, <1>6 DEF NotOld
\* What a reader would have found is still found.
<1>19. ASSUME ~failed, ~Booting, nvs'[Legacy] # Missing
       PROVE  \E k \in Keys : /\ Readable(nvs', k) /\ Finds(loop, k, nvs) /\ Finds(web, k, nvs)
                              /\ nvs'[SchemaKey] = nvs[SchemaKey]
                              /\ nvs'[k].form = nvs[k].form
  <2>1. PICK k \in Keys : Readable(nvs, k) /\ Finds(loop, k, nvs) /\ Finds(web, k, nvs)
    BY <1>8, <1>19 DEF IInv, LegacyOK
  <2>2. nvs[SchemaKey] = CurrentSchema
    BY <1>19, <2>1 DEF IInv, Migrated, Covered, NewSchema, Readable
  <2> QED BY <1>8, <1>19, <2>1, <2>2
<1> HIDE DEF k0
<1>20. CASE q = "main"
  <2>1. loop' = y /\ web' = Disturbed(web) /\ t = loop
    BY <1>11, <1>20 DEF loop, web, Tasks
  <2>2. Booting' <=> Booting
    BY <1>5, <2>1 DEF Booting
  <2>3. /\ web'.pc = web.pc /\ web'.next = web.next /\ web'.at = web.at
        /\ web'.copy = web.copy
    BY <1>1, <1>4, <2>1
  <2>4. TasksOK'
    <3>1. TaskOK(y)
      BY <1>2, <1>5, <1>6, Orders DEF TaskOK
    <3>2. y.pc # "bump" /\ (y.pc = "write" => y.next \in {"loaded", "check"})
      BY <1>1, <1>2, <1>5, <2>1 DEF TasksOK
    <3>3. Booting => y.pc \in {"write", "loaded"} /\ y.next = "loaded"
      BY <1>1, <1>2, <1>5, <2>1 DEF TasksOK
    <3> QED BY <1>1, <1>2, <2>1, <2>2, <2>3, <3>1, <3>2, <3>3 DEF TasksOK, TaskOK
  <2>5. Pending' = Pending
    BY <1>2, <2>3 DEF Pending
  <2>6. ~failed /\ ~Pending => Written(t, nvs) /\ (t.next = "check" => Same(ram, t.copy))
    BY <1>2, <2>1 DEF IInv, Agreed, InStep
  <2>7. Migrated'
    <3>1. ASSUME ~failed, Booting, y.pc = "loaded" PROVE Covered(nvs')
      <4>1. ~Pending
        BY <1>1, <3>1 DEF TasksOK, Pending
      <4>2. t.at = Total
        BY <1>5, <3>1
      <4> QED BY <1>9, <2>6, <3>1, <4>1, <4>2
    <3>2. ~failed /\ ~Booting => Covered(nvs')
      BY <1>8 DEF IInv, Migrated
    <3> QED BY <1>2, <2>1, <2>2, <3>1, <3>2 DEF Migrated
  <2>8. NoneOld'
    BY <1>1, <1>2, <1>15, <1>18, <2>1, <2>2 DEF IInv, NoneOld
  <2>9. LegacyOK'
    BY <1>1, <1>2, <1>16, <1>17, <1>19, <2>1, <2>2 DEF LegacyOK
  <2>10. Agreed'
    <3> SUFFICES ASSUME ~failed, ~Pending PROVE InStep(y, ram, nvs')
      BY <1>2, <2>1, <2>5 DEF Agreed
    <3>1. CASE t.at = Total
      <4>1. Loaded(nvs') = t.copy
        BY <1>9, <2>6, <3>1
      <4>2. y.pc = t.next /\ y.copy = t.copy /\ t.next \in {"loaded", "check"}
        BY <1>1, <1>2, <1>5, <2>1, <3>1 DEF TasksOK
      <4> QED BY <2>6, <4>1, <4>2 DEF InStep
    <3>2. CASE t.at < Total
      <4>1. y.pc = "write" /\ y.copy = t.copy /\ y.next = t.next
        BY <1>2, <1>5, <3>2, Orders
      <4> QED BY <1>10, <2>6, <3>2, <4>1 DEF InStep
    <3> QED BY <1>5, <3>1, <3>2
  <2> QED BY <1>12, <1>14, <2>4, <2>7, <2>8, <2>9, <2>10 DEF IInv
<1>21. CASE q = "portal"
  <2>1. loop' = Disturbed(loop) /\ web' = y /\ t = web
    BY <1>11, <1>21 DEF loop, web, Tasks
  <2>2. /\ loop'.pc = loop.pc /\ loop'.next = loop.next /\ loop'.at = loop.at
        /\ loop'.copy = loop.copy /\ loop'.op = loop.op
    BY <1>1, <1>4, <2>1
  <2>3. ~Booting /\ ~Booting'
    BY <1>1, <1>2, <2>1, <2>2 DEF TasksOK, Booting
  <2>4. TasksOK'
    <3>1. TaskOK(y)
      BY <1>2, <1>5, <1>6, Orders DEF TaskOK
    <3>2. y.pc # "check" /\ (y.pc = "write" => y.next \in {"loaded", "bump"})
      BY <1>1, <1>2, <1>5, <2>1 DEF TasksOK
    <3> QED BY <1>1, <1>2, <2>1, <2>2, <2>3, <3>1, <3>2 DEF TasksOK, TaskOK
  <2>5. Migrated'
    BY <1>2, <1>8, <2>3 DEF IInv, Migrated
  <2>6. NoneOld'
    BY <1>1, <1>2, <1>15, <1>18, <2>1, <2>3 DEF IInv, NoneOld
  <2>7. LegacyOK'
    BY <1>1, <1>2, <1>16, <1>17, <1>19, <2>1, <2>3 DEF LegacyOK
  <2>8. Agreed'
    <3>1. ASSUME ~failed PROVE Pending'
      <4>1. t.next = "bump"
        BY <1>1, <1>2, <2>1, <2>3, <3>1 DEF IInv, NoneOld, NotOld, TasksOK
      <4> QED BY <1>5, <2>1, <4>1 DEF Pending
    <3> QED BY <1>2, <3>1 DEF Agreed
  <2> QED BY <1>12, <1>14, <2>4, <2>5, <2>6, <2>7, <2>8 DEF IInv
<1> QED BY <1>1, <1>20, <1>21

-----------------------------------------------------------------------------
(* The theorems.                                                           *)

LEMMA InitHolds == Init => IInv
<1> SUFFICES ASSUME Init PROVE IInv
  OBVIOUS
<1>1. Top \in Values /\ 0 \in Values /\ MaxCount \in MinCount .. MaxCount /\ Coarse \in Steps
  BY DEF Values, Steps
<1>2. KeysOK(Empty)
  BY EmptyFacts
<1>3. KeysOK(OldBlob(Top))
  <2> DEFINE v == [i \in 1 .. DefaultCount + 1 |-> Top]
             n == OldBlob(Top)
  <2>1. v \in [1 .. DefaultCount + 1 -> Values]
    BY <1>1
  <2>2. n = [Empty EXCEPT ![Legacy] = Blob("legacy", v)]
    BY DEF OldBlob
  <2> HIDE DEF v, n
  <2>3. n = [k \in Keys |-> n[k]]
    BY <2>2 DEF Empty
  <2>4. \A k \in Keys : n[k] = IF k = Legacy THEN Blob("legacy", v) ELSE Missing
    BY <2>2, EmptyFacts DEF Empty
  <2>5. \A k \in Keys : BlobOK(k, n[k])
    BY <2>1, <2>4 DEF BlobOK
  <2> QED BY <2>3, <2>5 DEF KeysOK, n
<1>4. ASSUME NEW schema \in 1 .. Schema PROVE KeysOK(Blobs(schema, Top))
  <2> DEFINE n == Blobs(schema, Top)
  <2>1. n = [k \in Keys |-> n[k]]
    BY DEF Blobs
  <2>2. /\ n[SchemaKey] = Blob("u8", <<schema>>) /\ n[Legacy] = Missing
        /\ n[Settings] \in {Missing, Blob("settings", <<MaxCount, Coarse>>)}
    BY InOrder, Distinct DEF Blobs
  <2>3. /\ n[Current] = Blob(FormOf(schema, Current), <<Top>>)
        /\ \A p \in Slots : n[Preset(p)] = Blob(FormOf(schema, Preset(p)), <<Top>>)
    BY InOrder, Distinct DEF Blobs
  <2> HIDE DEF n
  <2>4. BlobOK(SchemaKey, n[SchemaKey]) /\ BlobOK(Legacy, n[Legacy])
        /\ BlobOK(Settings, n[Settings])
    BY <1>1, <2>2 DEF BlobOK
  <2>5. BlobOK(Current, n[Current]) /\ \A p \in Slots : BlobOK(Preset(p), n[Preset(p)])
    BY <1>1, <2>3, FormFacts DEF BlobOK
  <2> QED BY <2>1, <2>4, <2>5, InOrder DEF KeysOK, n
<1>5. nvs \in Images
  BY <1>2, <1>3, <1>4, ImageFacts DEF Init
<1>6. MaxEvents \in 0 .. MaxEvents
  OBVIOUS
<1> QED BY <1>5, <1>6, BootInv DEF Init

LEMMA NextHolds == IInv /\ [Next]_vars => IInv'
<1> SUFFICES ASSUME IInv, [Next]_vars PROVE IInv'
  OBVIOUS
<1>1. CASE \E q \in Tasks : Reads(q) \/ Loads(q) \/ Writes(q) \/ WriteFails(q)
  BY <1>1, ReadStep, LoadStep, WriteStep, WriteFailsStep
<1>2. CASE Main
  BY <1>2, EditStep, MergeStep, LoadsPresetStep, SavesPresetStep, RefreshStep, NothingNewStep,
     TakeStep DEF Main
<1>3. CASE Portal
  <2>1. CASE Views
    <3> DEFINE op == [kind |-> "view"]
    <3>1. op \in Ops /\ Begins(op)
      BY <2>1 DEF Ops, Views
    <3> HIDE DEF op
    <3> QED BY <3>1, BeginStep
  <2>2. CASE \E p \in Slots, v \in Inputs : Stores(p, v)
    <3>1. PICK p \in Slots, v \in Inputs : Stores(p, v)
      BY <2>2
    <3> DEFINE op == [kind |-> "store", slot |-> p, value |-> v]
    <3>2. op \in Ops /\ Begins(op)
      BY <3>1 DEF Ops, Stores
    <3> HIDE DEF op
    <3> QED BY <3>2, BeginStep
  <2>3. CASE \E count \in MinCount .. MaxCount, step \in {Fine, Coarse} :
               Configures(count, step)
    <3>1. PICK count \in MinCount .. MaxCount, step \in {Fine, Coarse} : Configures(count, step)
      BY <2>3
    <3> DEFINE op == [kind |-> "settings", count |-> count, step |-> step]
    <3>2. op \in Ops /\ Begins(op)
      BY <3>1 DEF Ops, Configures, Steps
    <3> HIDE DEF op
    <3> QED BY <3>2, BeginStep
  <2> QED BY <1>3, <2>1, <2>2, <2>3, GoesOnStep, BumpStep, ResetStep DEF Portal
<1>4. CASE UNCHANGED vars
  <2>1. UNCHANGED <<nvs, ram, task, news, told, failed, left>>
    BY <1>4 DEF vars
  <2>2. loop' = loop /\ web' = web
    BY <2>1 DEF loop, web
  <2>3. TypeOK' /\ TasksOK' /\ ToldOK'
    BY <2>1, <2>2 DEF IInv, TypeOK, TasksOK, ToldOK, Booting
  <2>4. Migrated' /\ NoneOld' /\ LegacyOK'
    BY <2>1, <2>2 DEF IInv, Migrated, NoneOld, LegacyOK, Booting
  <2>5. Agreed'
    BY <2>1, <2>2 DEF IInv, Agreed, Pending
  <2> QED BY <2>3, <2>4, <2>5 DEF IInv
<1> QED BY <1>1, <1>2, <1>3, <1>4, PowerLostStep, PowerLostInResetStep DEF Next

LEMMA Inductive == Spec => []IInv
BY InitHolds, NextHolds, PTL DEF Spec

\* Every variable keeps its type: the keys hold only blobs that some firmware
\* stores under them, the two tasks stay within their programs, and what they
\* carry is rounded to the step (controller_state.c:95-170, 608-655, 836-883).
THEOREM TypeCorrect == Spec => [](TypeOK /\ TasksOK)
<1>1. IInv => TypeOK /\ TasksOK
  BY DEF IInv
<1> QED BY <1>1, Inductive, PTL

\* What an undisturbed persist stored is what the next load gives, and that load
\* migrates nothing, whatever was stored before and however often power fails
\* (controller_state.c:572-636, 836-883).
THEOREM ReadBack == Spec => []ReadsBack
<1>1. IInv => ReadsBack
  <2> SUFFICES ASSUME IInv, NEW s \in told PROVE Loaded(nvs) = s /\ ~IsOld(nvs)
    BY DEF ReadsBack
  <2>1. KeysOK(nvs) /\ s \in States /\ Settled(s) /\ \A k \in Keys : nvs[k] = Stored(s, k)
    BY ImageFacts DEF IInv, TypeOK, ToldOK
  <2> QED BY <2>1, StoredLoads
<1> QED BY <1>1, Inductive, PTL

\* A main loop at rest with no news has the stored presets and settings: no
\* change of the portal is missed for good, whatever the main loop does in
\* between (controller_runtime.c:974-991).
THEOREM InAgreement == Spec => []PresetsAgree
<1>1. IInv => PresetsAgree
  BY DEF IInv, Agreed, InStep, Pending, PresetsAgree, Same, Idle, MainAt, PortalAt, loop, web
<1> QED BY <1>1, Inductive, PTL
=============================================================================
