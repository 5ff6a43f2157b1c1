--------------------------- MODULE DebugLog_proofs ---------------------------
(***************************************************************************)
(* Proofs about DebugStore and DebugLog, for every number and size of      *)
(* sectors, queue length and number of faults.                             *)
(***************************************************************************)
EXTENDS DebugLog, FiniteSetTheorems, TLAPS

USE StoreAssumption, LogAssumption DEF StoreAssumption, LogAssumption

-----------------------------------------------------------------------------
(* Sectors: the slots Base(s) .. Base(s) + PerSector - 1.                  *)

Base(s) == (s \div PerSector) * PerSector

LEMMA Quotient ==
  ASSUME NEW s \in Nat, NEW p \in Nat, p > 0
  PROVE  s \div p \in Nat /\ p * (s \div p) <= s /\ s < p * (s \div p) + p
<1>1. p * (s \div p) <= s /\ s < p * (s \div p) + p
  BY SMTT(30)
<1>2. s \div p \in Nat
  OBVIOUS
<1> QED BY <1>1, <1>2

LEMMA QuotientUnique ==
  ASSUME NEW s \in Nat, NEW p \in Nat, p > 0, NEW q \in Nat, q * p <= s, s < q * p + p
  PROVE  s \div p = q /\ (s % p = 0 <=> s = q * p)
<1>1. ASSUME NEW r \in 0 .. p - 1 PROVE (q * p + r) \div p = q /\ (q * p + r) % p = r
  BY <1>1
<1>2. s - q * p \in 0 .. p - 1 /\ s = q * p + (s - q * p)
  OBVIOUS
<1> QED BY <1>1, <1>2

LEMMA Multiples ==
  ASSUME NEW a \in Nat, NEW b \in Nat, NEW p \in Nat, p > 0
  PROVE  /\ a * p \in Nat
         /\ a < b => a * p + p <= b * p
         /\ a * p < b * p => a < b
         /\ (a + 1) * p = a * p + p
OBVIOUS

LEMMA Remainder ==
  ASSUME NEW c \in Nat, c > 0, NEW x \in 0 .. 2 * c - 1
  PROVE  x % c = IF x < c THEN x ELSE x - c
OBVIOUS

LEMMA CapacityFacts ==
  /\ Capacity \in Nat /\ PerSector \in Nat /\ PerSector > 0
  /\ Capacity >= 2 * PerSector
  /\ \A s : s \in Slots <=> s \in Nat /\ s < Capacity
  /\ Slots \subseteq Nat
<1>1. Sectors * PerSector \in Nat /\ 1 * PerSector + PerSector <= Sectors * PerSector
  BY Multiples
<1>2. Capacity \in Nat /\ Capacity >= 2 * PerSector /\ PerSector > 0
  BY <1>1 DEF Capacity
<1> HIDE DEF Capacity
<1> QED BY <1>2 DEF Slots

LEMMA SectorFacts ==
  ASSUME NEW s \in Slots
  PROVE  /\ Base(s) \in Slots /\ Base(s) <= s /\ s < Base(s) + PerSector
         /\ Base(s) + PerSector <= Capacity
         /\ StartsSector(s) <=> s = Base(s)
         /\ \A t \in Slots : Base(s) <= t /\ t < Base(s) + PerSector => Base(t) = Base(s)
         /\ \A t : t \in SectorOf(s) <=> t \in Slots /\ Base(s) <= t /\ t < Base(s) + PerSector
         /\ (s \div PerSector + 1) * PerSector = Base(s) + PerSector
         /\ Base(s) + PerSector < Capacity =>
              Base(Base(s) + PerSector) = Base(s) + PerSector
         /\ Base(0) = 0
<1> DEFINE q == s \div PerSector
<1>1. q \in Nat /\ PerSector * q <= s /\ s < PerSector * q + PerSector /\ s \in Nat
  BY Quotient, CapacityFacts
<1>2. Base(s) = q * PerSector /\ q * PerSector \in Nat /\ q * PerSector = PerSector * q
      /\ (q + 1) * PerSector = q * PerSector + PerSector /\ q + 1 \in Nat
  BY <1>1, Multiples DEF Base
<1>3. Base(s) <= s /\ s < Base(s) + PerSector /\ Base(s) \in Nat
  BY <1>1, <1>2
<1>4. Base(s) + PerSector <= Capacity
  <2>1. s < Sectors * PerSector
    BY CapacityFacts DEF Capacity
  <2>2. q * PerSector < Sectors * PerSector
    BY <1>1, <1>2, <1>3, <2>1, CapacityFacts DEF Capacity
  <2>3. q < Sectors
    BY <1>1, <2>2, Multiples
  <2>4. q * PerSector + PerSector <= Sectors * PerSector
    BY <1>1, <2>3, Multiples
  <2> QED BY <1>2, <2>4 DEF Capacity
<1>5. ASSUME NEW t \in Nat, Base(s) <= t, t < Base(s) + PerSector
      PROVE  t \div PerSector = q /\ (t % PerSector = 0 <=> t = Base(s)) /\ Base(t) = Base(s)
  <2>1. t \div PerSector = q /\ (t % PerSector = 0 <=> t = q * PerSector)
    BY <1>1, <1>2, <1>5, QuotientUnique
  <2> QED BY <1>2, <2>1 DEF Base
<1>6. StartsSector(s) <=> s = Base(s)
  BY <1>1, <1>3, <1>5 DEF StartsSector
<1>7. ASSUME NEW t \in Slots, t \div PerSector = q
      PROVE  Base(s) <= t /\ t < Base(s) + PerSector
  <2>1. PerSector * q <= t /\ t < PerSector * q + PerSector
    BY <1>7, Quotient, CapacityFacts
  <2> QED BY <1>2, <2>1
<1>8. \A t : t \in SectorOf(s) <=> t \in Slots /\ Base(s) <= t /\ t < Base(s) + PerSector
  BY <1>5, <1>7, CapacityFacts DEF SectorOf
<1>9. Base(Base(s) + PerSector) = Base(s) + PerSector
  <2>1. (q * PerSector + PerSector) \div PerSector = q + 1
    BY <1>1, <1>2, QuotientUnique
  <2> QED BY <1>2, <2>1 DEF Base
<1>10. Base(0) = 0
  <2>1. 0 \div PerSector = 0
    BY QuotientUnique
  <2> QED BY <2>1 DEF Base
<1> HIDE DEF q
<1> QED BY <1>2, <1>3, <1>4, <1>5, <1>6, <1>8, <1>9, <1>10, CapacityFacts DEF q

-----------------------------------------------------------------------------
(* Smallest and largest elements, from the well-foundedness of the strict  *)
(* subsets of a finite set.                                                *)

LEMMA SmallestElement ==
  ASSUME NEW U \in SUBSET Nat, U # {}
  PROVE  \E m \in U : \A k \in U : m <= k
<1> DEFINE T == {0 .. n : n \in U}
<1>1. T \subseteq FiniteSubsetsOf(Nat) /\ T # {}
  <2>1. \A n \in U : IsFiniteSet(0 .. n) /\ 0 .. n \subseteq Nat
    BY FS_Interval
  <2> QED BY <2>1 DEF FiniteSubsetsOf
<1>2. PICK x \in T : \A y \in T : ~(<<y, x>> \in StrictSubsetOrdering(Nat))
  <2> HIDE DEF T
  <2> QED BY <1>1, WFMin, FS_StrictSubsetOrderingWellFounded
<1>3. PICK m \in U : x = 0 .. m
  BY <1>2
<1>4. ASSUME NEW k \in U, k < m PROVE FALSE
  <2>1. 0 .. k \in SUBSET Nat /\ 0 .. m \in SUBSET Nat /\ 0 .. k \subseteq 0 .. m
    BY <1>4
  <2>2. m \in 0 .. m /\ m \notin 0 .. k
    BY <1>4
  <2>3. <<0 .. k, 0 .. m>> \in StrictSubsetOrdering(Nat)
    BY <2>1, <2>2 DEF StrictSubsetOrdering
  <2> QED BY <1>2, <1>3, <2>3
<1> QED BY <1>4

LEMMA LargestValue ==
  ASSUME NEW V, IsFiniteSet(V), V # {}, NEW f, \A v \in V : f[v] \in Int
  PROVE  \E m \in V : \A v \in V : f[v] <= f[m]
<1> DEFINE Above(s) == {t \in V : f[t] > f[s]}
           T == {Above(s) : s \in V}
<1>1. T \subseteq FiniteSubsetsOf(V) /\ T # {}
  <2>1. \A s \in V : Above(s) \in SUBSET V /\ IsFiniteSet(Above(s))
    BY FS_Subset
  <2> QED BY <2>1 DEF FiniteSubsetsOf
<1>2. PICK x \in T : \A y \in T : ~(<<y, x>> \in StrictSubsetOrdering(V))
  <2> HIDE DEF T
  <2> QED BY <1>1, WFMin, FS_StrictSubsetOrderingWellFounded
<1>3. PICK m \in V : x = Above(m)
  BY <1>2
<1>4. ASSUME NEW v \in V, f[v] > f[m] PROVE FALSE
  <2>1. Above(v) \subseteq Above(m) /\ v \in Above(m) /\ v \notin Above(v)
    BY <1>4
  <2>2. <<Above(v), Above(m)>> \in StrictSubsetOrdering(V)
    BY <2>1 DEF StrictSubsetOrdering
  <2> QED BY <1>2, <1>3, <2>2
<1> QED BY <1>4

-----------------------------------------------------------------------------
(* The order of the ring.                                                  *)

Flashes == [Slots -> {x \in Int : x >= Torn}]

\* Slot s is read before slot t when the ring is read from slot n on.
Precedes(n, s, t) == (s < t /\ (n <= s \/ t < n)) \/ (t < n /\ n <= s)

\* Read from n on, the records get newer; and behind n, in a sector that is
\* being filled, there is none.
Ring(f, n) ==
  /\ \A s, t \in Valid(f) : Precedes(n, s, t) => f[s] < f[t]
  /\ n # Base(n) => \A s \in Valid(f) : ~(n <= s /\ s < Base(n) + PerSector)

\* What failures and erases do: a slot keeps its record or holds none.
Thins(f, g) == \A s \in Slots : g[s] = f[s] \/ g[s] \in {Blank, Torn}

Follows(s, n) == n = IF s + 1 < Capacity THEN s + 1 ELSE 0

LEMMA NextSlot ==
  ASSUME NEW s \in Slots
  PROVE  (s + 1) % Capacity \in Slots /\ Follows(s, (s + 1) % Capacity)
<1>1. s + 1 \in 0 .. 2 * Capacity - 1
  BY CapacityFacts
<1>2. (s + 1) % Capacity = IF s + 1 < Capacity THEN s + 1 ELSE s + 1 - Capacity
  BY <1>1, CapacityFacts, Remainder
<1> QED BY <1>2, CapacityFacts DEF Follows

LEMMA ValidFacts ==
  ASSUME NEW f \in Flashes
  PROVE  /\ \A s : s \in Valid(f) <=> s \in Slots /\ f[s] > 0
         /\ \A s \in Slots : f[s] \in Int
         /\ IsFiniteSet(Valid(f)) /\ Cardinality(Valid(f)) \in Nat
<1>1. IsFiniteSet(Slots)
  BY FS_Interval, CapacityFacts DEF Slots
<1>2. IsFiniteSet(Valid(f))
  BY <1>1, FS_Subset DEF Valid
<1> QED BY <1>2, FS_CardinalityType DEF Valid, Flashes

LEMMA ThinsKeeps ==
  ASSUME NEW f \in Flashes, NEW g \in Flashes, Thins(f, g)
  PROVE  /\ Valid(g) \subseteq Valid(f) /\ \A s \in Valid(g) : g[s] = f[s]
         /\ Cardinality(Valid(g)) <= Cardinality(Valid(f))
         /\ \A n : Ring(f, n) => Ring(g, n)
<1>1. Valid(g) \subseteq Valid(f) /\ \A s \in Valid(g) : g[s] = f[s]
  BY ValidFacts DEF Thins, Blank, Torn
<1>2. Cardinality(Valid(g)) <= Cardinality(Valid(f))
  BY <1>1, ValidFacts, FS_Subset
<1>3. \A n : Ring(f, n) => Ring(g, n)
  BY <1>1 DEF Ring
<1> QED BY <1>1, <1>2, <1>3

\* The scan finds the newest record, and the slot behind it.
LEMMA NewestFacts ==
  ASSUME NEW f \in Flashes, Valid(f) # {}
  PROVE  /\ Newest(f) \in Valid(f)
         /\ \A t \in Valid(f) : f[t] <= f[Newest(f)]
<1>1. \A v \in Valid(f) : f[v] \in Int
  BY ValidFacts
<1>2. \E m \in Valid(f) : \A v \in Valid(f) : f[v] <= f[m]
  BY <1>1, ValidFacts, LargestValue
<1> QED BY <1>2 DEF Newest

LEMMA AfterFacts ==
  ASSUME NEW f \in Flashes, Valid(f) # {}, NEW n \in Slots, Ring(f, n)
  PROVE  /\ After(f) \in Slots /\ Follows(Newest(f), After(f))
         /\ Ring(f, After(f))
<1> DEFINE m == Newest(f)
           k == After(f)
<1>1. m \in Slots /\ f[m] > 0 /\ m \in Valid(f) /\ \A t \in Valid(f) : f[t] <= f[m]
  BY NewestFacts, ValidFacts
<1>2. k \in Slots /\ Follows(m, k)
  BY <1>1, NextSlot DEF After
<1> HIDE DEF m, k
<1>3. \A t \in Valid(f) : ~Precedes(n, m, t)
  BY <1>1, ValidFacts DEF Ring
<1>4. ASSUME NEW s \in Valid(f), NEW t \in Valid(f), Precedes(k, s, t)
      PROVE  f[s] < f[t]
  <2>1. s \in Slots /\ t \in Slots /\ ~Precedes(n, m, t) /\ ~Precedes(n, m, s)
    BY <1>3, ValidFacts
  <2>2. Precedes(n, s, t)
    BY <2>1, <1>1, <1>2, <1>4, CapacityFacts DEF Precedes, Follows
  <2> QED BY <2>2 DEF Ring
<1>5. ASSUME k # Base(k), NEW s \in Valid(f), k <= s, s < Base(k) + PerSector
      PROVE  FALSE
  <2>1. s \in Slots /\ ~Precedes(n, m, s)
    BY <1>3, ValidFacts
  <2>2. Base(k) <= k /\ Base(0) = 0 /\ Base(k) + PerSector <= Capacity /\ Base(k) \in Slots
    BY <1>2, SectorFacts
  <2>3. k = m + 1 /\ Base(k) <= m
    BY <1>1, <1>2, <1>5, <2>2, CapacityFacts DEF Follows
  <2>4. n > m /\ n <= s
    BY <1>1, <1>2, <1>5, <2>1, <2>3, CapacityFacts DEF Precedes
  <2>5. Base(n) = Base(k)
    <3>1. Base(k) <= n /\ n < Base(k) + PerSector
      BY <1>1, <1>2, <1>5, <2>1, <2>2, <2>3, <2>4, CapacityFacts
    <3>2. \A t \in Slots : Base(k) <= t /\ t < Base(k) + PerSector => Base(t) = Base(k)
      BY <1>2, SectorFacts
    <3> QED BY <3>1, <3>2
  <2>6. n # Base(n)
    BY <2>2, <2>3, <2>4, <2>5, <1>1, CapacityFacts
  <2> QED BY <1>5, <2>1, <2>4, <2>5, <2>6 DEF Ring
<1> QED BY <1>2, <1>4, <1>5 DEF Ring, m, k

\* An append goes to a blank slot or to the start of a sector; the slots it
\* skips hold no record, and the newest record is not in the sector it erases.
LEMMA PlaceFacts ==
  ASSUME NEW f \in Flashes, NEW n \in Slots, Ring(f, n)
  PROVE  /\ Place(f, n) \in Slots /\ Ring(f, Place(f, n))
         /\ StartsSector(Place(f, n)) \/ f[Place(f, n)] = Blank
         /\ \A s \in Slots : Follows(s, n) =>
              /\ s # Place(f, n)
              /\ StartsSector(Place(f, n)) => s \notin SectorOf(Place(f, n))
<1>1. CASE n = Base(n)
  <2>1. Place(f, n) = n /\ StartsSector(n)
    BY <1>1, SectorFacts DEF Place
  <2>2. ASSUME NEW s \in Slots, Follows(s, n)
        PROVE  s # n /\ s \notin SectorOf(n)
    BY <1>1, <2>2, SectorFacts, CapacityFacts DEF Follows
  <2> QED BY <2>1, <2>2
<1>2. CASE n # Base(n)
  <2> DEFINE end == Base(n) + PerSector
             fits(s) == s = end \/ f[s] = Blank
             First(s) == fits(s) /\ \A t \in n .. s - 1 : ~fits(t)
             w == CHOOSE s \in n .. end : First(s)
             at == w % Capacity
  <2>1. Place(f, n) = at
    <3>1. ~StartsSector(n) /\ (n \div PerSector + 1) * PerSector = end
      BY <1>2, SectorFacts
    <3> QED BY <3>1 DEF Place
  <2>2. n \in Nat /\ Base(n) \in Nat /\ end \in Nat /\ Base(n) < n /\ n < end
        /\ end <= Capacity
    <3>1. Base(n) \in Slots /\ Base(n) <= n /\ n < end /\ end <= Capacity
      BY SectorFacts
    <3> QED BY <1>2, <3>1, CapacityFacts
  <2>3. w \in n .. end /\ First(w)
    <3> DEFINE U == {s \in n .. end : fits(s)}
    <3>1. U \in SUBSET Nat /\ end \in U
      BY <2>2
    <3>2. PICK m \in U : \A k \in U : m <= k
      <4> HIDE DEF U
      <4> QED BY <3>1, SmallestElement
    <3>3. m \in n .. end /\ First(m)
      <4>1. ASSUME NEW t \in n .. m - 1, fits(t) PROVE FALSE
        <5>1. t \in U /\ t < m
          BY <4>1, <3>1, <2>2
        <5> QED BY <5>1, <3>2, <3>1, <2>2
      <4> QED BY <4>1
    <3> QED BY <3>3
  <2> HIDE DEF w, end
  <2>4. at = IF w < Capacity THEN w ELSE 0
    <3>1. w \in 0 .. 2 * Capacity - 1 /\ w <= Capacity
      BY <2>2, <2>3, CapacityFacts
    <3> QED BY <3>1, CapacityFacts, Remainder
  <2> HIDE DEF at
  <2>5. at \in Slots /\ w \in Nat
    BY <2>2, <2>3, <2>4, CapacityFacts
  <2>6. \A s \in Valid(f) : s \in Slots /\ ~(n <= s /\ s < end)
    BY <1>2, ValidFacts DEF Ring, end
  <2>7. CASE w < end
    <3>1. at = w /\ n <= at
      <4>1. w \in n .. end
        BY <2>3
      <4>2. w < Capacity /\ n <= w
        BY <2>2, <2>7, <4>1, CapacityFacts
      <4> QED BY <2>4, <4>2
    <3>2. Base(at) = Base(n) /\ f[at] = Blank /\ at # Base(at) /\ ~StartsSector(at)
      <4>1. \A t \in Slots : Base(n) <= t /\ t < end => Base(t) = Base(n)
        BY SectorFacts DEF end
      <4>2. Base(at) = Base(n)
        BY <2>2, <2>5, <2>7, <3>1, <4>1, CapacityFacts
      <4>3. StartsSector(at) <=> at = Base(at)
        BY <2>5, SectorFacts
      <4> QED BY <2>2, <2>3, <2>7, <3>1, <4>2, <4>3
    <3>3. ASSUME NEW s \in Valid(f), NEW t \in Valid(f), Precedes(at, s, t)
          PROVE  f[s] < f[t]
      <4>1. Precedes(n, s, t)
        BY <2>2, <2>5, <2>6, <2>7, <3>1, <3>3, CapacityFacts DEF Precedes
      <4> QED BY <4>1 DEF Ring
    <3>4. \A s \in Valid(f) : ~(at <= s /\ s < Base(at) + PerSector)
      BY <2>2, <2>5, <2>6, <3>1, <3>2, CapacityFacts DEF end
    <3>5. \A s \in Slots : Follows(s, n) => s # at
      BY <2>2, <3>1, CapacityFacts DEF Follows
    <3> QED BY <2>1, <2>5, <3>2, <3>3, <3>4, <3>5 DEF Ring
  <2>8. CASE w = end
    <3>1. at = Base(at) /\ StartsSector(at) /\ (at = w \/ (at = 0 /\ w = Capacity))
      <4>1. end < Capacity => Base(end) = end
        BY SectorFacts DEF end
      <4>2. Base(0) = 0
        BY SectorFacts
      <4>3. at = Base(at) /\ (at = w \/ (at = 0 /\ w = Capacity))
        BY <2>2, <2>4, <2>8, <4>1, <4>2, CapacityFacts
      <4> QED BY <2>5, <4>3, SectorFacts
    <3>2. ASSUME NEW s \in Valid(f), NEW t \in Valid(f), Precedes(at, s, t)
          PROVE  f[s] < f[t]
      <4>1. Precedes(n, s, t)
        BY <2>2, <2>5, <2>6, <2>8, <3>1, <3>2, CapacityFacts DEF Precedes
      <4> QED BY <4>1 DEF Ring
    <3>3. ASSUME NEW s \in Slots, Follows(s, n)
          PROVE  s # at /\ s \notin SectorOf(at)
      <4>1. s = n - 1 /\ Base(n) <= s
        BY <2>2, <3>3, CapacityFacts DEF Follows
      <4>2. CASE at = w
        BY <2>2, <2>5, <2>8, <3>1, <4>1, <4>2, SectorFacts, CapacityFacts
      <4>3. CASE at = 0 /\ w = Capacity
        <5>1. s >= PerSector
          BY <2>2, <2>8, <4>1, <4>3, CapacityFacts DEF end
        <5>2. s \notin SectorOf(at)
          BY <2>5, <3>1, <4>3, <5>1, SectorFacts, CapacityFacts
        <5> QED BY <4>3, <5>1, <5>2, CapacityFacts
      <4> QED BY <3>1, <4>2, <4>3
    <3> QED BY <2>1, <2>5, <3>1, <3>2, <3>3 DEF Ring
  <2> QED BY <2>2, <2>3, <2>7, <2>8
<1> QED BY <1>1, <1>2

\* The store as the worker holds it: it counts at least the records there are,
\* its next sequence number is above theirs, and its next slot ends the ring.
Fits(f, st) ==
  /\ st.next \in Slots /\ st.count \in Nat /\ st.seq \in Nat \ {0}
  /\ Ring(f, st.next)
  /\ \A s \in Valid(f) : f[s] < st.seq
  /\ Cardinality(Valid(f)) <= st.count

\* Record v is in slot s, and none is newer.
Last(f, v, s) == s \in Slots /\ f[s] = v /\ \A t \in Valid(f) : f[t] <= v

LEMMA BlankFacts ==
  /\ AllBlank \in Flashes /\ Valid(AllBlank) = {} /\ 0 \in Slots
  /\ \A n : Ring(AllBlank, n)
  /\ Cardinality(Valid(AllBlank)) = 0
<1>1. AllBlank \in Flashes /\ Valid(AllBlank) = {} /\ 0 \in Slots
  BY CapacityFacts DEF AllBlank, Blank, Torn, Flashes, Valid
<1>2. \A n : Ring(AllBlank, n)
  BY <1>1 DEF Ring
<1> QED BY <1>1, <1>2, FS_EmptySet

\* What the scan of the flash finds fits the flash, and the slot behind the
\* newest record is its next one.
LEMMA ScanFits ==
  ASSUME NEW f \in Flashes, NEW n \in Slots, Ring(f, n)
  PROVE  /\ Scan(f).ready = TRUE /\ Fits(f, Scan(f))
         /\ \A v \in Nat \ {0} : \A s : Last(f, v, s) => Follows(s, Scan(f).next)
<1>1. CASE Valid(f) = {}
  <2>1. Scan(f) = [ready |-> TRUE, next |-> 0, count |-> 0, seq |-> 1]
    BY <1>1 DEF Scan, Closed
  <2>2. Cardinality(Valid(f)) = 0 /\ 0 \in Slots /\ Base(0) = 0
    BY <1>1, FS_EmptySet, BlankFacts, SectorFacts
  <2>3. Fits(f, Scan(f))
    BY <1>1, <2>1, <2>2 DEF Fits, Ring
  <2>4. \A v \in Nat \ {0} : \A s : ~Last(f, v, s)
    BY <1>1, ValidFacts DEF Last
  <2> QED BY <2>1, <2>3, <2>4
<1>2. CASE Valid(f) # {}
  <2> DEFINE m == Newest(f)
  <2>1. Scan(f) = [ready |-> TRUE, next |-> After(f), count |-> Cardinality(Valid(f)),
                   seq |-> f[m] + 1]
    BY <1>2 DEF Scan
  <2>2. m \in Valid(f) /\ \A t \in Valid(f) : f[t] <= f[m]
    BY <1>2, NewestFacts
  <2>3. m \in Slots /\ f[m] \in Int /\ f[m] > 0
    BY <2>2, ValidFacts
  <2>4. After(f) \in Slots /\ Follows(m, After(f)) /\ Ring(f, After(f))
    BY <1>2, AfterFacts
  <2> HIDE DEF m
  <2>5. Fits(f, Scan(f))
    <3>1. \A t \in Valid(f) : f[t] \in Int /\ f[t] < f[m] + 1
      BY <2>2, <2>3, ValidFacts
    <3>2. f[m] + 1 \in Nat \ {0} /\ Cardinality(Valid(f)) \in Nat
      BY <2>3, ValidFacts
    <3> QED BY <2>1, <2>4, <3>1, <3>2 DEF Fits
  <2>6. ASSUME NEW v \in Nat \ {0}, NEW s, Last(f, v, s) PROVE s = m
    <3>1. s \in Valid(f) /\ f[s] = f[m] /\ s \in Slots
      BY <2>2, <2>3, <2>6, ValidFacts DEF Last
    <3>2. Precedes(n, s, m) \/ Precedes(n, m, s) \/ s = m
      BY <2>3, <3>1, CapacityFacts DEF Precedes
    <3> QED BY <2>2, <2>3, <3>1, <3>2 DEF Ring
  <2> QED BY <2>1, <2>4, <2>5, <2>6
<1> QED BY <1>1, <1>2

\* Erasing the sector an append starts removes the records of that sector.
LEMMA PreparedFacts ==
  ASSUME NEW f \in Flashes, NEW at \in Slots, StartsSector(at) \/ f[at] = Blank
  PROVE  /\ Prepared(f, at) \in Flashes /\ Thins(f, Prepared(f, at))
         /\ Prepared(f, at)[at] = Blank
         /\ \A s \in Slots : ~(StartsSector(at) /\ s \in SectorOf(at)) =>
                               Prepared(f, at)[s] = f[s]
         /\ StartsSector(at) => \A s \in SectorOf(at) : s \notin Valid(Prepared(f, at))
<1>1. CASE StartsSector(at)
  <2>1. Prepared(f, at) = [s \in Slots |-> IF s \in SectorOf(at) THEN Blank ELSE f[s]]
    BY <1>1 DEF Prepared
  <2>2. at \in SectorOf(at) /\ SectorOf(at) \subseteq Slots
    BY DEF SectorOf
  <2>3. Blank \in {x \in Int : x >= Torn}
    BY DEF Blank, Torn
  <2> QED BY <1>1, <2>1, <2>2, <2>3 DEF Flashes, Thins, Valid, Blank
<1>2. CASE ~StartsSector(at)
  BY <1>2 DEF Prepared, Thins
<1> QED BY <1>1, <1>2

\* A store that fits, fits after an append: the new record is the newest, and
\* the slot behind it is the next one.
LEMMA AppendFits ==
  ASSUME NEW f \in Flashes, NEW st, Fits(f, st), NEW at, at = Place(f, st.next),
         NEW g, g = Programmed(Prepared(f, at), at, st.seq),
         NEW after, after.next = (at + 1) % Capacity, after.seq = st.seq + 1,
         after.count = Counted(st.count, f, at)
  PROVE  /\ g \in Flashes /\ Fits(g, after)
         /\ Last(g, st.seq, at) /\ Follows(at, after.next)
<1> DEFINE p == Prepared(f, at)
           q == st.seq
           n == (at + 1) % Capacity
<1>1. at \in Slots /\ Ring(f, at) /\ (StartsSector(at) \/ f[at] = Blank)
  BY PlaceFacts DEF Fits
<1>2. /\ p \in Flashes /\ Thins(f, p) /\ p[at] = Blank
      /\ \A s \in Slots : ~(StartsSector(at) /\ s \in SectorOf(at)) => p[s] = f[s]
      /\ StartsSector(at) => \A s \in SectorOf(at) : s \notin Valid(p)
  BY <1>1, PreparedFacts
<1>3. q \in Nat \ {0} /\ \A s \in Valid(f) : f[s] < q
  BY DEF Fits
<1> HIDE DEF p, q
<1>4. g = [p EXCEPT ![at] = q]
  BY <1>2 DEF Programmed, p, q
<1> HIDE DEF n
<1>5. n \in Slots /\ Follows(at, n)
  BY <1>1, NextSlot DEF n
<1>6. Ring(p, at) /\ Valid(p) \subseteq Valid(f) /\ \A s \in Valid(p) : p[s] = f[s]
  BY <1>1, <1>2, ThinsKeeps
<1>7. /\ g \in Flashes /\ g[at] = q /\ \A s \in Slots : s # at => g[s] = p[s]
      /\ Valid(g) = Valid(p) \cup {at} /\ at \notin Valid(p)
  <2>1. g[at] = q /\ \A s \in Slots : s # at => g[s] = p[s]
    BY <1>1, <1>2, <1>4 DEF Flashes
  <2>2. q \in {x \in Int : x >= Torn}
    BY <1>3 DEF Torn
  <2>3. g \in Flashes
    BY <1>1, <1>2, <1>4, <2>2 DEF Flashes
  <2>4. q > 0 /\ ~(p[at] > 0)
    BY <1>2, <1>3 DEF Blank
  <2> QED BY <1>1, <2>1, <2>3, <2>4 DEF Valid
<1>8. \A s \in Valid(p) : s # at /\ s \in Slots /\ g[s] = p[s] /\ g[s] < q
  BY <1>2, <1>3, <1>6, <1>7, ValidFacts
<1>9. Ring(g, n)
  <2>1. ASSUME NEW s \in Valid(g), NEW t \in Valid(g), Precedes(n, s, t)
        PROVE  g[s] < g[t]
    <3>1. s # at
      BY <1>1, <1>5, <1>7, <1>8, <2>1, CapacityFacts DEF Precedes, Follows
    <3>2. s \in Valid(p)
      BY <1>7, <3>1
    <3>3. CASE t = at
      BY <1>7, <1>8, <3>2, <3>3
    <3>4. CASE t # at
      <4>1. t \in Valid(p)
        BY <1>7, <3>4
      <4>2. Precedes(at, s, t)
        BY <1>1, <1>5, <1>8, <2>1, <3>2, <4>1, CapacityFacts DEF Precedes, Follows
      <4> QED BY <1>6, <1>8, <3>2, <4>1, <4>2 DEF Ring
    <3> QED BY <3>3, <3>4
  <2>2. ASSUME n # Base(n), NEW s \in Valid(g), n <= s, s < Base(n) + PerSector
        PROVE  FALSE
    <3>1. Base(n) \in Slots /\ Base(n) <= n /\ n < Base(n) + PerSector /\ Base(0) = 0
      BY <1>5, SectorFacts
    <3>2. n = at + 1 /\ Base(n) <= at /\ at < Base(n) + PerSector
      BY <1>1, <1>5, <2>2, <3>1, CapacityFacts DEF Follows
    <3>3. Base(at) = Base(n)
      BY <1>1, <1>5, <3>2, SectorFacts
    <3>4. s # at /\ s \in Valid(p)
      BY <1>1, <1>7, <2>2, <3>2, CapacityFacts
    <3>5. s \in Slots /\ at <= s /\ s < Base(at) + PerSector /\ Base(at) <= s
      BY <1>1, <1>8, <2>2, <3>1, <3>2, <3>3, <3>4, CapacityFacts
    <3>6. CASE StartsSector(at)
      BY <1>1, <1>2, <3>4, <3>5, <3>6, SectorFacts
    <3>7. CASE ~StartsSector(at)
      <4>1. at # Base(at)
        BY <1>1, <3>7, SectorFacts
      <4> QED BY <1>6, <3>4, <3>5, <4>1 DEF Ring
    <3> QED BY <3>6, <3>7
  <2> QED BY <2>1, <2>2 DEF Ring
<1>10. /\ after.count \in Nat
       /\ Cardinality(Valid(g)) <= after.count
  <2>1. IsFiniteSet(Valid(f)) /\ IsFiniteSet(Valid(p))
        /\ Cardinality(Valid(f)) \in Nat /\ Cardinality(Valid(p)) \in Nat
    BY <1>2, ValidFacts
  <2>2. Cardinality(Valid(g)) = Cardinality(Valid(p)) + 1
    <3>1. Cardinality(Valid(p) \cup {at}) = Cardinality(Valid(p)) + 1
      <4> DEFINE V == Valid(p)
      <4>1. IsFiniteSet(V) /\ at \notin V
        BY <1>7, <2>1
      <4> HIDE DEF V
      <4>2. Cardinality(V \cup {at}) = Cardinality(V) + 1
        BY <4>1, FS_AddElement
      <4> QED BY <4>2 DEF V
    <3> QED BY <1>7, <3>1
  <2>3. st.count \in Nat /\ Cardinality(Valid(f)) <= st.count
    BY DEF Fits
  <2>4. CASE StartsSector(at)
    <3>1. Valid(p) \subseteq Valid(f) \ SectorOf(at)
      BY <1>2, <1>6, <2>4
    <3>2. IsFiniteSet(Valid(f) \ SectorOf(at))
          /\ Cardinality(Valid(f) \ SectorOf(at))
               = Cardinality(Valid(f)) - Cardinality(Valid(f) \cap SectorOf(at))
      BY <2>1, FS_Difference
    <3>3. Cardinality(Valid(p)) <= Cardinality(Valid(f) \ SectorOf(at))
      BY <3>1, <3>2, FS_Subset
    <3>4. Cardinality(Valid(f) \cap SectorOf(at)) \in Nat
      <4>1. IsFiniteSet(Valid(f) \cap SectorOf(at))
        BY <2>1, FS_Subset
      <4> QED BY <4>1, FS_CardinalityType
    <3>5. after.count = st.count + 1 - Cardinality(Valid(f) \cap SectorOf(at))
      BY <2>4 DEF Counted
    <3> QED BY <2>1, <2>2, <2>3, <3>2, <3>3, <3>4, <3>5
  <2>5. CASE ~StartsSector(at)
    <3>1. after.count = st.count + 1 - 0
      BY <2>5 DEF Counted
    <3>2. Cardinality(Valid(p)) <= Cardinality(Valid(f))
      BY <1>2, ThinsKeeps
    <3> QED BY <2>1, <2>2, <2>3, <3>1, <3>2
  <2> QED BY <2>4, <2>5
<1>11. \A s \in Valid(g) : g[s] \in Int /\ g[s] <= q /\ g[s] < q + 1
  BY <1>3, <1>7, <1>8, ValidFacts
<1>12. Fits(g, after)
  BY <1>3, <1>5, <1>9, <1>10, <1>11 DEF Fits, n, q
<1> QED BY <1>1, <1>5, <1>7, <1>11, <1>12 DEF Last, n, q

-----------------------------------------------------------------------------
(* What erases and appends that do not end leave.                          *)

LEMMA PartlyErasedFacts ==
  ASSUME NEW f \in Flashes, NEW E \in SUBSET Slots, NEW g \in PartlyErased(f, E)
  PROVE  /\ g \in Flashes /\ Thins(f, g)
         /\ \A s \in Slots : s \notin E => g[s] = f[s]
<1>1. PICK part : /\ \A s \in E : part[s] \in {Blank, Torn, f[s]}
                  /\ g = [s \in Slots |-> IF s \in E THEN part[s] ELSE f[s]]
  BY DEF PartlyErased
<1>2. Blank \in {x \in Int : x >= Torn} /\ Torn \in {x \in Int : x >= Torn}
  BY DEF Blank, Torn
<1>3. \A s \in Slots : g[s] \in {Blank, Torn, f[s]} /\ (s \notin E => g[s] = f[s])
  BY <1>1
<1>4. g \in Flashes
  BY <1>1, <1>2, <1>3 DEF Flashes
<1> QED BY <1>3, <1>4 DEF Thins

\* An append that does not end adds no record, and spares the newest.
LEMMA HalfAppendedFacts ==
  ASSUME NEW f \in Flashes, NEW n \in Slots, Ring(f, n),
         NEW g \in HalfAppended(f, Place(f, n))
  PROVE  /\ g \in Flashes /\ Thins(f, g)
         /\ \A v, s : Last(f, v, s) /\ Follows(s, n) => Last(g, v, s)
<1> DEFINE at == Place(f, n)
           p == Prepared(f, at)
           Spares(s) == s # at /\ ~(StartsSector(at) /\ s \in SectorOf(at))
<1>1. /\ at \in Slots /\ (StartsSector(at) \/ f[at] = Blank)
      /\ \A s \in Slots : Follows(s, n) => Spares(s)
  BY PlaceFacts
<1> HIDE DEF at
<1>2. p \in Flashes /\ Thins(f, p) /\ \A s \in Slots : Spares(s) => p[s] = f[s]
  BY <1>1, PreparedFacts
<1>3. /\ g \in Flashes /\ Thins(f, g) /\ \A s \in Slots : Spares(s) => g[s] = f[s]
  <2>1. CASE g = [p EXCEPT ![at] = Torn]
    <3>1. Torn \in {x \in Int : x >= Torn}
      BY DEF Torn
    <3> HIDE DEF p
    <3>2. g \in Flashes /\ g[at] = Torn /\ \A s \in Slots : s # at => g[s] = p[s]
      BY <1>1, <1>2, <2>1, <3>1 DEF Flashes
    <3> QED BY <1>2, <3>2 DEF Thins
  <2>2. CASE g = f
    BY <2>2 DEF Thins
  <2>3. CASE StartsSector(at) /\ g \in PartlyErased(f, SectorOf(at))
    <3>1. SectorOf(at) \in SUBSET Slots
      BY DEF SectorOf
    <3> QED BY <2>3, <3>1, PartlyErasedFacts
  <2>4. g \in HalfAppended(f, at)
    BY DEF at
  <2> QED BY <2>1, <2>2, <2>3, <2>4 DEF HalfAppended
<1>4. \A t \in Valid(g) : t \in Valid(f) /\ g[t] = f[t]
  BY <1>3, ThinsKeeps
<1> HIDE DEF Spares
<1>5. ASSUME NEW v, NEW s, Last(f, v, s), Follows(s, n) PROVE Last(g, v, s)
  BY <1>1, <1>3, <1>4, <1>5 DEF Last
<1> QED BY <1>3, <1>5

\* A clear that does not end adds no record.
LEMMA HalfClearedFacts ==
  ASSUME NEW f \in Flashes, NEW left \in HalfCleared(f)
  PROVE  left[2] \in Flashes /\ Thins(f, left[2])
<1>1. AllBlank \in Flashes /\ Thins(f, AllBlank)
  BY BlankFacts DEF Thins, AllBlank
<1>2. Thins(f, f)
  BY DEF Thins
<1>3. ASSUME NEW x \in Slots,
             NEW g \in PartlyErased([t \in Slots |-> IF t < x THEN Blank ELSE f[t]],
                                    SectorOf(x))
      PROVE  g \in Flashes /\ Thins(f, g)
  <2> DEFINE h == [t \in Slots |-> IF t < x THEN Blank ELSE f[t]]
  <2>1. Blank \in {y \in Int : y >= Torn}
    BY DEF Blank, Torn
  <2>2. h \in Flashes /\ Thins(f, h)
    BY <2>1 DEF Flashes, Thins
  <2>3. SectorOf(x) \in SUBSET Slots
    BY DEF SectorOf
  <2> HIDE DEF h
  <2>4. g \in PartlyErased(h, SectorOf(x))
    BY DEF h
  <2>5. g \in Flashes /\ Thins(h, g)
    BY <2>2, <2>3, <2>4, PartlyErasedFacts
  <2> QED BY <2>2, <2>5 DEF Thins
<1>4. left[2] \in {f, AllBlank}
      \/ \E x \in Slots : left[2] \in
           PartlyErased([t \in Slots |-> IF t < x THEN Blank ELSE f[t]], SectorOf(x))
  BY DEF HalfCleared
<1> QED BY <1>1, <1>2, <1>3, <1>4

-----------------------------------------------------------------------------
(* What the flash f, the store st in memory and the newest record v keep   *)
(* to, and the steps that change them.                                     *)

Stores == [ready : BOOLEAN, next : Slots, count : Nat, seq : Nat \ {0}]

Agree(f, st, v) ==
  /\ f \in Flashes /\ \E n \in Slots : Ring(f, n)
  /\ st \in Stores /\ (st.ready => Fits(f, st))
  /\ v \in Nat
  /\ v # 0 => \E s : Last(f, v, s) /\ (st.ready => Follows(s, st.next))

LEMMA AppendedFields ==
  ASSUME NEW st \in Stores, NEW f, NEW at
  PROVE  LET r == Appended(st, f, at) IN
           /\ r.next = (at + 1) % Capacity /\ r.seq = st.seq + 1
           /\ r.count = Counted(st.count, f, at)
           /\ r.next \in Slots /\ r.seq \in Nat \ {0} /\ r.count \in Nat => r \in Stores
<1> DEFINE n == (at + 1) % Capacity
           q == st.seq + 1
           c == Counted(st.count, f, at)
           r == [st EXCEPT !.next = n, !.seq = q, !.count = c]
<1>1. Appended(st, f, at) = r
  BY DEF Appended
<1> HIDE DEF n, q, c
<1>2. r.next = n /\ r.seq = q /\ r.count = c
  BY DEF Stores
<1>3. ASSUME n \in Slots, q \in Nat \ {0}, c \in Nat PROVE r \in Stores
  BY <1>3 DEF Stores
<1> HIDE DEF r
<1> QED BY <1>1, <1>2, <1>3 DEF n, q, c

LEMMA ClosedAgrees ==
  ASSUME NEW f, NEW st, NEW v, Agree(f, st, v)
  PROVE  Agree(f, Closed, v)
<1>1. Closed \in Stores /\ ~Closed.ready
  BY BlankFacts DEF Closed, Stores
<1> QED BY <1>1 DEF Agree

LEMMA ScanAgrees ==
  ASSUME NEW f, NEW st, NEW v, Agree(f, st, v)
  PROVE  Agree(f, Scan(f), v) /\ Scan(f).ready
<1>1. PICK n \in Slots : Ring(f, n)
  BY DEF Agree
<1>2. /\ f \in Flashes /\ Scan(f).ready = TRUE /\ Fits(f, Scan(f))
      /\ \A w \in Nat \ {0} : \A s : Last(f, w, s) => Follows(s, Scan(f).next)
  BY <1>1, ScanFits DEF Agree
<1>3. Scan(f) \in Stores
  <2>1. Scan(f) = [ready |-> TRUE, next |-> Scan(f).next, count |-> Scan(f).count,
                   seq |-> Scan(f).seq]
    BY DEF Scan, Closed
  <2> QED BY <1>2, <2>1 DEF Stores, Fits
<1> QED BY <1>2, <1>3 DEF Agree

LEMMA OpenedAgrees ==
  ASSUME Agree(flash, store, newest)
  PROVE  Agree(flash, Opened, newest) /\ Opened.ready
<1>1. CASE store.ready
  BY <1>1 DEF Opened
<1>2. CASE ~store.ready
  BY <1>2, ScanAgrees DEF Opened
<1> QED BY <1>1, <1>2

LEMMA AppendAgrees ==
  ASSUME NEW f, NEW st, NEW v, Agree(f, st, v), st.ready,
         NEW at, at = Place(f, st.next)
  PROVE  Agree(Programmed(Prepared(f, at), at, st.seq), Appended(st, f, at), st.seq)
<1> DEFINE g == Programmed(Prepared(f, at), at, st.seq)
           after == Appended(st, f, at)
<1>1. f \in Flashes /\ Fits(f, st) /\ st \in Stores
  BY DEF Agree
<1>2. /\ after.next = (at + 1) % Capacity /\ after.seq = st.seq + 1
      /\ after.count = Counted(st.count, f, at)
      /\ after.next \in Slots /\ after.seq \in Nat \ {0} /\ after.count \in Nat =>
           after \in Stores
  BY <1>1, AppendedFields
<1> HIDE DEF g, after
<1>3. g \in Flashes /\ Fits(g, after) /\ Last(g, st.seq, at) /\ Follows(at, after.next)
  BY <1>1, <1>2, AppendFits DEF g
<1>4. after \in Stores
  BY <1>2, <1>3 DEF Fits
<1>5. st.seq \in Nat \ {0}
  BY <1>1 DEF Stores
<1> QED BY <1>3, <1>4, <1>5 DEF Agree, Fits, g, after

LEMMA HalfAppendedAgrees ==
  ASSUME NEW f, NEW st, NEW v, Agree(f, st, v), st.ready,
         NEW g \in HalfAppended(f, Place(f, st.next))
  PROVE  Agree(g, Closed, v)
<1>1. f \in Flashes /\ st.next \in Slots /\ Ring(f, st.next)
  BY DEF Agree, Fits
<1>2. /\ g \in Flashes /\ Thins(f, g)
      /\ \A w, s : Last(f, w, s) /\ Follows(s, st.next) => Last(g, w, s)
  BY <1>1, HalfAppendedFacts
<1>3. Ring(g, st.next)
  BY <1>1, <1>2, ThinsKeeps
<1>4. Closed \in Stores /\ ~Closed.ready
  BY BlankFacts DEF Closed, Stores
<1> QED BY <1>1, <1>2, <1>3, <1>4 DEF Agree

LEMMA ThinnedAgrees ==
  ASSUME NEW f, NEW st, NEW v, Agree(f, st, v), NEW g \in Flashes, Thins(f, g)
  PROVE  Agree(g, st, 0)
<1>1. /\ Valid(g) \subseteq Valid(f) /\ \A s \in Valid(g) : g[s] = f[s]
      /\ Cardinality(Valid(g)) <= Cardinality(Valid(f))
      /\ \A n : Ring(f, n) => Ring(g, n)
  BY ThinsKeeps DEF Agree
<1>2. Cardinality(Valid(g)) \in Nat /\ Cardinality(Valid(f)) \in Nat
  BY ValidFacts DEF Agree
<1>3. st.ready => Fits(g, st)
  BY <1>1, <1>2 DEF Agree, Fits
<1> QED BY <1>1, <1>3 DEF Agree

-----------------------------------------------------------------------------
(* The inductive invariant.                                                *)

\* Types of the variables; those of the flash and the store are in Agree.
FlagsOK ==
  /\ header \in {"blank", "ours", "torn"} /\ saved \in BOOLEAN
  /\ enabled \in BOOLEAN /\ changed \in BOOLEAN /\ queue \in 0 .. QueueSize /\ lost \in BOOLEAN
  /\ pc \in {"receive", "enter", "record", "report"}
  /\ got \in BOOLEAN /\ on \in BOOLEAN /\ recording \in BOOLEAN
  /\ portal \in {"idle", "clear"}
  /\ wiped \in BOOLEAN /\ failed \in BOOLEAN /\ faults \in 0 .. MaxFaults
TypeOK == FlagsOK /\ flash \in Flashes /\ store \in Stores /\ newest \in Nat

\* While a clear waits for the lock, and from a clear until capture is switched
\* on, capture is off, and the worker writes nothing.
ClearOK ==
  /\ portal = "clear" => ~enabled /\ ~saved
  /\ on => pc = "report"
  /\ wiped => ~enabled /\ ~saved /\ ~on /\ Valid(flash) = {}

IInv == FlagsOK /\ Agree(flash, store, newest) /\ ClearOK

LEMMA InitIInv == Init => IInv
<1> SUFFICES ASSUME Init PROVE IInv
  OBVIOUS
<1>1. FlagsOK
  <2>1. 0 \in 0 .. QueueSize /\ 0 \in 0 .. MaxFaults
    OBVIOUS
  <2> QED BY <2>1 DEF Init, FlagsOK
<1>2. Closed \in Stores /\ ~Closed.ready
  BY BlankFacts DEF Closed, Stores
<1>3. Agree(flash, store, newest)
  BY <1>2, BlankFacts DEF Init, Agree
<1>4. ClearOK
  BY BlankFacts DEF Init, ClearOK
<1> QED BY <1>1, <1>3, <1>4 DEF IInv

LEMMA AppendStep ==
  ASSUME NEW s, Agree(flash, s, newest), s.ready, Appends(s) \/ AppendFails(s)
  PROVE  Agree(flash, store, newest)'
<1>1. CASE Appends(s)
  BY <1>1, AppendAgrees DEF Appends
<1>2. CASE AppendFails(s)
  BY <1>2, HalfAppendedAgrees DEF AppendFails
<1> QED BY <1>1, <1>2

LEMMA WorkerAgrees == IInv /\ Worker => Agree(flash, store, newest)'
<1> SUFFICES ASSUME IInv, Worker PROVE Agree(flash, store, newest)'
  OBVIOUS
<1>1. Agree(flash, store, newest) /\ Agree(flash, Opened, newest) /\ Opened.ready
  BY OpenedAgrees DEF IInv
<1>2. CASE UNCHANGED <<flash, store, newest>>
  BY <1>1, <1>2
<1>3. CASE Receives
  BY <1>2, <1>3 DEF Receives, disk, history
<1>4. CASE Starts
  BY <1>1, <1>4, AppendStep DEF Starts
<1>5. CASE OpenFails
  BY <1>2, <1>5 DEF OpenFails
<1>6. CASE FindsForeign
  BY <1>2, <1>6 DEF FindsForeign, disk, history
<1>7. CASE StopsCapture
  <2>1. store' = Opened \/ store' = store
    BY <1>7 DEF StopsCapture
  <2> QED BY <1>1, <1>7, <2>1 DEF StopsCapture, disk, history
<1>8. CASE Continues
  BY <1>2, <1>8 DEF Continues, disk, history
<1>9. CASE Records
  <2>1. CASE MayRecord /\ (Appends(store) \/ AppendFails(store))
    BY <1>1, <2>1, AppendStep DEF MayRecord
  <2> QED BY <1>2, <1>9, <2>1 DEF Records, history
<1>10. CASE Reports
  <2>1. CASE MayReport /\ (Appends(store) \/ AppendFails(store))
    BY <1>1, <2>1, AppendStep DEF MayReport
  <2> QED BY <1>2, <1>10, <2>1 DEF Reports, history
<1> QED BY <1>3, <1>4, <1>5, <1>6, <1>7, <1>8, <1>9, <1>10 DEF Worker

LEMMA ClearAgrees == IInv /\ (Clears \/ ClearFails) => Agree(flash, store, newest)'
<1> SUFFICES ASSUME IInv, Clears \/ ClearFails PROVE Agree(flash, store, newest)'
  OBVIOUS
<1>1. Agree(flash, store, newest) /\ Agree(flash, Opened, newest)
  BY OpenedAgrees DEF IInv
<1>2. flash \in Flashes
  BY <1>1 DEF Agree
<1>3. AllBlank \in Flashes /\ Thins(flash, AllBlank)
  BY BlankFacts DEF Thins, AllBlank
<1>4. CASE Clears
  <2>1. Agree(AllBlank, Opened, 0)
    BY <1>1, <1>3, ThinnedAgrees
  <2> QED BY <1>4, <2>1, ScanAgrees DEF Clears
<1>5. CASE ClearFails
  <2>1. flash' \in Flashes /\ Thins(flash, flash') /\ newest' = 0
    BY <1>2, <1>5, HalfClearedFacts DEF ClearFails
  <2>2. Agree(flash', Opened, 0)
    BY <1>1, <2>1, ThinnedAgrees
  <2>3. Agree(flash', Closed, 0)
    BY <2>2, ClosedAgrees
  <2>4. store' = Opened \/ store' = Closed
    BY <1>5 DEF ClearFails
  <2> QED BY <2>1, <2>2, <2>3, <2>4
<1> QED BY <1>4, <1>5

LEMMA PowerLostAgrees == IInv /\ PowerLost => Agree(flash, store, newest)'
<1> SUFFICES ASSUME IInv, PowerLost PROVE Agree(flash, store, newest)'
  OBVIOUS
<1>1. /\ Agree(flash, store, newest)
      /\ Agree(flash, Opened, newest) /\ Opened.ready
  BY OpenedAgrees DEF IInv
<1>2. flash \in Flashes
  BY <1>1 DEF Agree
<1>3. store' = Closed
  BY DEF PowerLost, Crash, PowerLostInAppend, PowerLostInCreate, PowerLostInClear,
         Restarts, Booted
<1>4. CASE UNCHANGED <<flash, newest>>
  BY <1>1, <1>3, <1>4, ClosedAgrees
<1>5. CASE PowerLostInAppend
  <2>1. newest' = newest
    BY <1>5 DEF PowerLostInAppend
  <2>2. CASE flash' \in HalfAppended(flash, Place(flash, Opened.next))
    BY <1>1, <1>3, <2>1, <2>2, HalfAppendedAgrees
  <2>3. CASE store.ready /\ flash' \in HalfAppended(flash, Place(flash, store.next))
    BY <1>1, <1>3, <2>1, <2>3, HalfAppendedAgrees
  <2> QED BY <1>5, <2>2, <2>3 DEF PowerLostInAppend, MayRecord, MayReport
<1>6. CASE PowerLostInClear
  <2>1. flash' \in Flashes /\ Thins(flash, flash') /\ newest' = 0
    BY <1>2, <1>6, HalfClearedFacts DEF PowerLostInClear
  <2>2. Agree(flash', Opened, 0)
    BY <1>1, <2>1, ThinnedAgrees
  <2> QED BY <1>3, <2>1, <2>2, ClosedAgrees
<1>7. CASE Crash \/ PowerLostInCreate
  BY <1>4, <1>7 DEF Crash, PowerLostInCreate, disk
<1> QED BY <1>5, <1>6, <1>7 DEF PowerLost

LEMMA AgreeStep == IInv /\ [Next]_vars => Agree(flash, store, newest)'
<1> SUFFICES ASSUME IInv, [Next]_vars PROVE Agree(flash, store, newest)'
  OBVIOUS
<1>1. Agree(flash, store, newest) /\ Agree(flash, Opened, newest)
  BY OpenedAgrees DEF IInv
<1>2. CASE UNCHANGED <<flash, store, newest>>
  BY <1>1, <1>2
<1>3. CASE Worker
  BY <1>3, WorkerAgrees
<1>4. CASE Event
  BY <1>2, <1>4 DEF Event, disk, history
<1>5. CASE Portal
  <2>1. CASE \E capture \in BOOLEAN : Configure(capture)
    BY <1>2, <2>1 DEF Configure, Switched, disk
  <2>2. CASE Exports
    <3>1. store' = Opened \/ store' = store
      BY <2>2 DEF Exports
    <3> QED BY <1>1, <2>2, <3>1 DEF Exports, disk, history
  <2>3. CASE ClearBegins
    BY <1>2, <2>3 DEF ClearBegins, Switched, disk
  <2>4. CASE ClearTimesOut
    BY <1>2, <2>4 DEF ClearTimesOut, disk, history
  <2>5. CASE Clears \/ ClearFails
    BY <2>5, ClearAgrees
  <2>6. CASE ClearsNothing
    BY <1>2, <2>6 DEF ClearsNothing, disk
  <2>7. CASE ClearFindsNoStore
    BY <1>2, <2>7 DEF ClearFindsNoStore, disk, history
  <2> QED BY <1>5, <2>1, <2>2, <2>3, <2>4, <2>5, <2>6, <2>7 DEF Portal
<1>6. CASE PowerLost
  BY <1>6, PowerLostAgrees
<1>7. CASE UNCHANGED vars
  BY <1>2, <1>7 DEF vars, disk, history
<1> QED BY <1>3, <1>4, <1>5, <1>6, <1>7 DEF Next

LEMMA FlagsStep == IInv /\ [Next]_vars => FlagsOK'
<1> SUFFICES ASSUME IInv, [Next]_vars PROVE FlagsOK'
  OBVIOUS
<1>1. FlagsOK
  BY DEF IInv
<1>2. faults' = faults \/ (faults < MaxFaults /\ faults' = faults + 1)
  <2>1. ASSUME NEW s, Appends(s) \/ AppendFails(s)
        PROVE  faults' = faults \/ (faults < MaxFaults /\ faults' = faults + 1)
    BY <2>1 DEF Appends, AppendFails, Fault
  <2>2. CASE Worker
    BY <2>1, <2>2 DEF Worker, Receives, Starts, OpenFails, FindsForeign, StopsCapture, Continues,
         Records, Reports, Fault
  <2>3. CASE PowerLost
    BY <2>3 DEF PowerLost, Crash, PowerLostInAppend, PowerLostInCreate, PowerLostInClear,
         Restarts, Fault
  <2>4. CASE Portal
    BY <2>4 DEF Portal, Configure, Switched, Exports, ClearBegins, ClearTimesOut, Clears,
         ClearFails, ClearsNothing, ClearFindsNoStore, Fault
  <2>5. CASE Event \/ UNCHANGED vars
    BY <2>5 DEF Event, vars
  <2> QED BY <2>2, <2>3, <2>4, <2>5 DEF Next
<1>3. faults' \in 0 .. MaxFaults
  BY <1>1, <1>2 DEF FlagsOK
<1>4. queue' = queue \/ queue' = 0 \/ (queue > 0 /\ queue' = queue - 1)
      \/ (queue < QueueSize /\ queue' = queue + 1)
  <2>1. CASE Worker
    BY <2>1 DEF Worker, Enters, Receives, Starts, OpenFails, FindsForeign, StopsCapture,
         Continues, Records, Reports
  <2>2. CASE PowerLost
    BY <2>2 DEF PowerLost, Crash, PowerLostInAppend, PowerLostInCreate, PowerLostInClear,
         Restarts, Booted
  <2>3. CASE Portal
    BY <2>3 DEF Portal, Configure, Switched, Exports, ClearBegins, ClearTimesOut, Clears,
         ClearFails, ClearsNothing, ClearFindsNoStore, ClearEnds
  <2>4. CASE Event \/ UNCHANGED vars
    BY <2>4 DEF Event, vars
  <2> QED BY <2>1, <2>2, <2>3, <2>4 DEF Next
<1>5. queue' \in 0 .. QueueSize
  BY <1>1, <1>4 DEF FlagsOK
<1> DEFINE Rest ==
  /\ header \in {"blank", "ours", "torn"} /\ saved \in BOOLEAN
  /\ enabled \in BOOLEAN /\ changed \in BOOLEAN /\ lost \in BOOLEAN
  /\ pc \in {"receive", "enter", "record", "report"}
  /\ got \in BOOLEAN /\ on \in BOOLEAN /\ recording \in BOOLEAN
  /\ portal \in {"idle", "clear"} /\ wiped \in BOOLEAN /\ failed \in BOOLEAN
<1>6. Rest
  BY <1>1 DEF FlagsOK
<1>7. Rest'
  <2>1. ASSUME NEW s, Appends(s) \/ AppendFails(s)
        PROVE  recording' \in BOOLEAN /\ wiped' \in BOOLEAN /\ failed' \in BOOLEAN
    BY <1>6, <2>1 DEF Appends, AppendFails
  <2>2. CASE Receives
    BY <1>6, <2>2 DEF Receives, disk, history
  <2>3. CASE Starts
    BY <1>6, <2>1, <2>3 DEF Starts, Enters
  <2>4. CASE OpenFails \/ FindsForeign \/ StopsCapture \/ Continues
    BY <1>6, <2>4 DEF OpenFails, FindsForeign, StopsCapture, Continues, Enters, disk, history
  <2>5. CASE Records \/ Reports
    BY <1>6, <2>1, <2>5 DEF Records, Reports, history
  <2>6. CASE Event
    <3>1. lost' \in BOOLEAN
      BY <1>6, <2>6 DEF Event
    <3>2. UNCHANGED <<disk, saved, enabled, changed, worker, portal, history>>
      BY <2>6 DEF Event
    <3> QED BY <1>6, <3>1, <3>2 DEF disk, worker, history
  <2>7. CASE \E capture \in BOOLEAN : Configure(capture)
    BY <1>6, <2>7 DEF Configure, Switched, disk, worker
  <2>8. CASE Exports \/ ClearTimesOut
    BY <1>6, <2>8 DEF Exports, ClearTimesOut, disk, worker, history
  <2>9. CASE ClearBegins
    BY <1>6, <2>9 DEF ClearBegins, Switched, disk, worker
  <2>10. CASE Clears \/ ClearsNothing \/ ClearFindsNoStore
    <3>1. CASE Clears
      BY <1>6, <3>1 DEF Clears, ClearEnds, worker
    <3>2. CASE ClearsNothing
      <4>1. wiped' \in BOOLEAN
        BY <1>6, <3>2 DEF ClearsNothing, Creatable
      <4> QED BY <1>6, <3>2, <4>1 DEF ClearsNothing, ClearEnds, disk, worker
    <3>3. CASE ClearFindsNoStore
      BY <1>6, <3>3 DEF ClearFindsNoStore, ClearEnds, disk, worker, history
    <3> QED BY <2>10, <3>1, <3>2, <3>3
  <2>11. CASE ClearFails
    <3>1. header' \in {"blank", "torn"}
      BY <2>11 DEF ClearFails, HalfCleared
    <3> QED BY <1>6, <2>11, <3>1 DEF ClearFails, ClearEnds, worker
  <2>12. CASE Crash \/ PowerLostInCreate
    BY <1>6, <2>12 DEF Crash, PowerLostInCreate, Restarts, Booted, disk
  <2>13. CASE PowerLostInAppend
    BY <1>6, <2>13 DEF PowerLostInAppend, Restarts, Booted
  <2>14. CASE PowerLostInClear
    <3>1. header' \in {"blank", "torn"}
      BY <2>14 DEF PowerLostInClear, HalfCleared
    <3> QED BY <1>6, <2>14, <3>1 DEF PowerLostInClear, Restarts, Booted
  <2>15. CASE UNCHANGED vars
    BY <1>6, <2>15 DEF vars, disk, worker, history
  <2> HIDE DEF Rest
  <2> QED BY <2>2, <2>3, <2>4, <2>5, <2>6, <2>7, <2>8, <2>9, <2>10, <2>11, <2>12, <2>13, <2>14,
            <2>15 DEF Next, Worker, Portal, PowerLost
<1> QED BY <1>3, <1>5, <1>7 DEF FlagsOK

LEMMA ThinnedEmpty ==
  ASSUME NEW f \in Flashes, NEW g \in Flashes, Thins(f, g), Valid(f) = {}
  PROVE  Valid(g) = {}
BY ThinsKeeps

LEMMA ClearStep == IInv /\ [Next]_vars => ClearOK'
<1> SUFFICES ASSUME IInv, [Next]_vars PROVE ClearOK'
  OBVIOUS
<1>1. ClearOK /\ flash \in Flashes
  BY DEF IInv, Agree
<1>2. flash' \in Flashes
  BY AgreeStep DEF Agree
<1>3. ASSUME UNCHANGED <<saved, enabled, portal, wiped>>,
             on' => pc' = "report", wiped => ~on' /\ flash' = flash
      PROVE  ClearOK'
  BY <1>1, <1>3 DEF ClearOK, Valid
<1>4. CASE Worker
  <2>1. ASSUME NEW s, Appends(s) \/ AppendFails(s) PROVE wiped' = wiped
    BY <2>1 DEF Appends, AppendFails
  <2>2. CASE Receives
    BY <1>1, <1>3, <2>2 DEF Receives, ClearOK, disk, history
  <2>3. CASE Starts
    BY <1>1, <1>3, <2>1, <2>3 DEF Starts, Enters, MustStart, ClearOK
  <2>4. CASE OpenFails \/ FindsForeign \/ StopsCapture \/ Continues
    BY <1>1, <1>3, <2>4 DEF OpenFails, FindsForeign, StopsCapture, Continues, Enters, ClearOK,
         disk, history
  <2>5. CASE Records
    <3>1. CASE MayRecord /\ (Appends(store) \/ AppendFails(store))
      BY <1>1, <1>3, <2>1, <2>5, <3>1 DEF Records, MayRecord, ClearOK
    <3>2. CASE UNCHANGED <<flash, store, recording, history, faults>>
      BY <1>1, <1>3, <2>5, <3>2 DEF Records, ClearOK, history
    <3> QED BY <2>5, <3>1, <3>2 DEF Records
  <2>6. CASE Reports
    <3>1. CASE MayReport /\ (Appends(store) \/ AppendFails(store))
      BY <1>1, <1>3, <2>1, <2>6, <3>1 DEF Reports, MayReport, ClearOK
    <3>2. CASE UNCHANGED <<flash, store, recording, lost, history, faults>>
      BY <1>1, <1>3, <2>6, <3>2 DEF Reports, ClearOK, history
    <3> QED BY <2>6, <3>1, <3>2 DEF Reports
  <2> QED BY <1>4, <2>2, <2>3, <2>4, <2>5, <2>6 DEF Worker
<1>5. CASE Event
  BY <1>1, <1>3, <1>5 DEF Event, ClearOK, disk, worker, history
<1>6. CASE Portal
  <2>1. CASE \E capture \in BOOLEAN : Configure(capture)
    <3>1. PICK capture \in BOOLEAN : Configure(capture)
      BY <2>1
    <3>2. /\ portal = "idle" /\ portal' = portal /\ saved' = capture /\ enabled' = capture
          /\ wiped' = (wiped /\ ~capture) /\ flash' = flash /\ on' = on /\ pc' = pc
      BY <3>1 DEF Configure, Switched, disk, worker
    <3> QED BY <1>1, <3>2 DEF ClearOK, Valid
  <2>2. CASE Exports \/ ClearTimesOut
    BY <1>1, <2>2 DEF Exports, ClearTimesOut, ClearOK, Valid, disk, worker, history
  <2>3. CASE ClearBegins
    <3>1. /\ saved' = FALSE /\ enabled' = FALSE /\ wiped' = (wiped /\ ~FALSE)
          /\ flash' = flash /\ on' = on /\ pc' = pc
      BY <2>3 DEF ClearBegins, Switched, disk, worker
    <3> QED BY <1>1, <3>1 DEF ClearOK, Valid
  <2>4. CASE Clears \/ ClearFails \/ ClearsNothing \/ ClearFindsNoStore
    <3>1. /\ portal = "clear" /\ pc \in {"receive", "enter"} /\ portal' = "idle"
          /\ UNCHANGED <<saved, enabled, on, pc>>
      BY <2>4 DEF Clears, ClearFails, ClearsNothing, ClearFindsNoStore, ClearEnds, LockFree, worker
    <3>2. wiped' => Valid(flash)' = {}
      <4>1. CASE Clears
        BY <4>1, BlankFacts DEF Clears, Valid
      <4>2. CASE ClearFails
        <5>1. Thins(flash, flash') /\ wiped' = wiped
          BY <1>1, <4>2, HalfClearedFacts DEF ClearFails
        <5>2. wiped => Valid(flash') = {}
          BY <1>1, <1>2, <5>1, ThinnedEmpty DEF ClearOK
        <5> QED BY <5>1, <5>2 DEF Valid
      <4>3. CASE ClearsNothing
        <5>1. flash' = flash /\ (wiped' => wiped \/ flash = AllBlank)
          BY <4>3 DEF ClearsNothing, Creatable, OpenResult, disk
        <5> QED BY <1>1, <5>1, BlankFacts DEF ClearOK, Valid
      <4>4. CASE ClearFindsNoStore
        BY <1>1, <4>4 DEF ClearFindsNoStore, ClearOK, Valid, disk, history
      <4> QED BY <2>4, <4>1, <4>2, <4>3, <4>4
    <3> QED BY <1>1, <3>1, <3>2 DEF ClearOK
  <2> QED BY <1>6, <2>1, <2>2, <2>3, <2>4 DEF Portal
<1>7. CASE PowerLost
  <2>1. /\ enabled' = saved /\ on' = FALSE /\ portal' = "idle"
        /\ UNCHANGED <<saved, wiped>>
    BY <1>7 DEF PowerLost, Crash, PowerLostInAppend, PowerLostInCreate, PowerLostInClear,
         Restarts, Booted
  <2>2. wiped => Valid(flash)' = {}
    <3>1. CASE Crash \/ PowerLostInCreate
      BY <1>1, <3>1 DEF Crash, PowerLostInCreate, ClearOK, Valid, disk
    <3>2. CASE PowerLostInAppend
      BY <1>1, <3>2 DEF PowerLostInAppend, MustStart, MayRecord, MayReport, ClearOK
    <3>3. CASE PowerLostInClear
      <4>1. Thins(flash, flash')
        BY <1>1, <3>3, HalfClearedFacts DEF PowerLostInClear
      <4>2. wiped => Valid(flash') = {}
        BY <1>1, <1>2, <4>1, ThinnedEmpty DEF ClearOK
      <4> QED BY <4>2 DEF Valid
    <3> QED BY <1>7, <3>1, <3>2, <3>3 DEF PowerLost
  <2> QED BY <1>1, <2>1, <2>2 DEF ClearOK
<1>8. CASE UNCHANGED vars
  BY <1>1, <1>3, <1>8 DEF vars, ClearOK, disk, worker, history
<1> QED BY <1>4, <1>5, <1>6, <1>7, <1>8 DEF Next

-----------------------------------------------------------------------------

LEMMA Invariance == Spec => []IInv
<1>1. IInv /\ [Next]_vars => IInv'
  BY FlagsStep, AgreeStep, ClearStep DEF IInv
<1> QED BY InitIInv, <1>1, PTL DEF Spec

\* Every variable stays in its type: the next slot inside the ring, the number
\* of records never below zero (appended(), scale_debug_store.c).
THEOREM TypeCorrect == Spec => []TypeOK
<1>1. IInv => TypeOK
  BY DEF IInv, Agree, TypeOK
<1> QED BY Invariance, <1>1, PTL

\* For every geometry and any restarts and flash failures: an export lists the
\* records from the oldest to the newest.
THEOREM ReadInOrder == Spec => []OldestToNewest
<1>1. ASSUME IInv, store.ready PROVE OldestToNewest
  <2> DEFINE n == store.next
             slot(i) == (n + i) % Capacity
  <2>1. n \in Slots /\ Ring(flash, n) /\ flash \in Flashes
    BY <1>1 DEF IInv, Agree, Fits
  <2> HIDE DEF n
  <2>2. ASSUME NEW i \in Slots
        PROVE  slot(i) \in Slots /\ slot(i) = IF n + i < Capacity THEN n + i ELSE n + i - Capacity
    <3>1. n + i \in 0 .. 2 * Capacity - 1
      BY <2>1, CapacityFacts
    <3>2. slot(i) = IF n + i < Capacity THEN n + i ELSE n + i - Capacity
      <4> DEFINE x == n + i
      <4>1. x \in 0 .. 2 * Capacity - 1
        BY <3>1
      <4> HIDE DEF x
      <4>2. x % Capacity = IF x < Capacity THEN x ELSE x - Capacity
        BY <4>1, CapacityFacts, Remainder
      <4>3. slot(i) = x % Capacity
        BY DEF x
      <4> HIDE DEF slot
      <4> QED BY <2>1, <4>2, <4>3, CapacityFacts DEF x
    <3> QED BY <2>1, <3>2, CapacityFacts
  <2> HIDE DEF slot
  <2>3. ASSUME NEW i \in Slots, NEW j \in Slots, i < j, flash[slot(i)] > 0, flash[slot(j)] > 0
        PROVE  flash[slot(i)] < flash[slot(j)]
    <3>1. slot(i) \in Valid(flash) /\ slot(j) \in Valid(flash)
      BY <2>1, <2>2, <2>3, ValidFacts
    <3>2. Precedes(n, slot(i), slot(j))
      BY <2>1, <2>2, <2>3, CapacityFacts DEF Precedes
    <3> QED BY <2>1, <3>1, <3>2 DEF Ring
  <2> QED BY <2>3 DEF OldestToNewest, slot, n
<1>2. IInv => OldestToNewest
  BY <1>1 DEF OldestToNewest
<1> QED BY Invariance, <1>2, PTL

\* For every geometry and any restarts and flash failures: the newest record
\* whose append returned is in the flash.
THEOREM NewestKept == Spec => []NewestSurvives
<1>1. IInv => NewestSurvives
  BY DEF IInv, Agree, Last, NewestSurvives
<1> QED BY Invariance, <1>1, PTL

\* The count in memory covers the records in the flash, so that what an erase
\* subtracts from it never wraps.
THEOREM CountCorrect == Spec => []CountCovers
<1>1. IInv => CountCovers
  BY DEF IInv, Agree, Fits, CountCovers
<1> QED BY Invariance, <1>1, PTL

\* No event from before a clear is written after it.
THEOREM ClearedEmpty == Spec => []ClearedStaysEmpty
<1>1. IInv => ClearedStaysEmpty
  BY DEF IInv, ClearOK, ClearedStaysEmpty
<1> QED BY Invariance, <1>1, PTL
=============================================================================
