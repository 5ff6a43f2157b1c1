----------------------------- MODULE DebugStore -----------------------------
(***************************************************************************)
(* The store of the scale's connection log in flash (scale_debug_store.c): *)
(* a header sector, then sectors of fixed-size records written in a ring.  *)
(* A slot holds the sequence number of a record that passes its checks; a  *)
(* record that was torn or damaged counts as Torn.                         *)
(***************************************************************************)
EXTENDS Integers, FiniteSets

CONSTANTS Sectors,   \* sectors that hold records
          PerSector  \* records in a sector

ASSUME StoreAssumption ==
  /\ Sectors \in Nat /\ Sectors > 1
  /\ PerSector \in Nat /\ PerSector > 0

Capacity == Sectors * PerSector
Slots == 0 .. Capacity - 1
Blank == 0
Torn == -1

Valid(flash) == {s \in Slots : flash[s] > 0}
AllBlank == [s \in Slots |-> Blank]
SectorOf(s) == {t \in Slots : t \div PerSector = s \div PerSector}
StartsSector(s) == s % PerSector = 0

\* A store that is not ready; its other fields mean nothing.
Closed == [ready |-> FALSE, next |-> 0, count |-> 0, seq |-> 1]
\* What lm_scale_debug_store_open finds: the next record follows the newest.
Newest(flash) == CHOOSE s \in Valid(flash) : \A t \in Valid(flash) : flash[t] <= flash[s]
After_Newest(flash) == Newest(flash) \* Mutant: the search stops at the newest record.
After(flash) == (Newest(flash) + 1) % Capacity
Scan(flash) ==
  IF Valid(flash) = {} THEN [Closed EXCEPT !.ready = TRUE]
  ELSE [ready |-> TRUE, next |-> After(flash), count |-> Cardinality(Valid(flash)),
        seq |-> flash[Newest(flash)] + 1]

OpenResult(header, flash) ==
  CASE header = "ours" -> "ok"
    [] header = "blank" /\ flash = AllBlank -> "empty"
    [] OTHER -> "foreign"

\* lm_scale_debug_store_append: past the slots left by a power loss, to a blank
\* one or to the start of a sector ...
Place_Next(flash, next) == next \* Mutant: a torn slot is programmed over.
Place(flash, next) ==
  LET end == (next \div PerSector + 1) * PerSector
      fits(s) == s = end \/ flash[s] = Blank
  IN IF StartsSector(next) THEN next
     ELSE (CHOOSE s \in next .. end : fits(s) /\ \A t \in next .. s - 1 : ~fits(t)) % Capacity
\* ... which is erased first.
Prepared(flash, at) ==
  IF StartsSector(at) THEN [s \in Slots |-> IF s \in SectorOf(at) THEN Blank ELSE flash[s]]
  ELSE flash
\* Programming clears bits: over anything but blank it damages what is there.
Programmed(flash, at, seq) == [flash EXCEPT ![at] = IF flash[at] = Blank THEN seq ELSE Torn]
\* A stale count of records only ever grows smaller by what an erase removes.
Counted_Full(count, flash, at) == \* Mutant: an erased sector counts as full.
  count + 1 - (IF StartsSector(at) THEN PerSector ELSE 0)
Counted(count, flash, at) ==
  count + 1 - (IF StartsSector(at) THEN Cardinality(Valid(flash) \cap SectorOf(at)) ELSE 0)
Appended(store, flash, at) ==
  [store EXCEPT !.next = (at + 1) % Capacity, !.seq = store.seq + 1,
                !.count = Counted(store.count, flash, at)]

\* What an erase of the slots E leaves when it does not end.
PartlyErased(flash, E) ==
  {[s \in Slots |-> IF s \in E THEN part[s] ELSE flash[s]] :
     part \in {p \in [E -> {Blank, Torn} \cup {flash[s] : s \in E}] :
                 \A s \in E : p[s] \in {Blank, Torn, flash[s]}}}
\* What an append that does not end leaves.
HalfAppended(flash, at) ==
  {[Prepared(flash, at) EXCEPT ![at] = Torn], flash}
  \cup (IF StartsSector(at) THEN PartlyErased(flash, SectorOf(at)) ELSE {})
\* What a clear that does not end leaves: the header's sector is erased first,
\* and the header is written last.
HalfCleared(flash) ==
  {<<"torn", flash>>, <<"torn", AllBlank>>, <<"blank", AllBlank>>}
  \cup {<<"blank", f>> :
          f \in UNION {PartlyErased([t \in Slots |-> IF t < s THEN Blank ELSE flash[t]],
                                    SectorOf(s)) : s \in {x \in Slots : StartsSector(x)}}}
=============================================================================
