------------------------------ MODULE MCBitMap ------------------------------
(***************************************************************************)
(* Checks BitMapIterator against its reference meaning over every bitmap  *)
(* that BitMap::new, set and clear can produce for arrays of up to        *)
(* MaxSize entries.                                                        *)
(***************************************************************************)
EXTENDS BitMap, FiniteSets

CONSTANT MaxSize   \* the longest relocation array considered

VARIABLES size,    \* the array length the bitmap was created for
          bm       \* the bitmap

vars == <<size, bm>>

Init ==
    /\ size \in 0 .. MaxSize
    /\ bm = New(size)

\* deal_fail: clear the bit of a failed entry.
ClearEntry(i) ==
    /\ bm' = Clear(bm, i)
    /\ UNCHANGED size

\* The Relocating pass sets the bit of the entry it is about to retry.
SetEntry(i) ==
    /\ bm' = Set(bm, i)
    /\ UNCHANGED size

Next == \E i \in 0 .. size - 1 : ClearEntry(i) \/ SetEntry(i)

Spec == Init /\ [][Next]_vars

TypeOK ==
    /\ size \in 0 .. MaxSize
    /\ bm \in Seq([Bits -> BOOLEAN])
    /\ UnitCount(bm) = (size + UnitBits - 1) \div UnitBits

\* The entries that have not been relocated, in increasing order.
ClearedInOrder ==
    LET c == {i \in 0 .. size - 1 : ~Bit(bm, i)}
    IN [k \in 1 .. Cardinality(c) |->
          CHOOSE i \in c : Cardinality({j \in c : j < i}) = k - 1]

(* BitMapIterator yields exactly the indices of the array entries whose   *)
(* bit is clear, each once and in increasing order, and never a padding   *)
(* bit of the last unit, whatever the set/clear history of the bitmap.    *)
(* This is what the Relocating pass and not_relocated rely on.            *)
IteratorVisitsCleared ==
    ~IterPanics(bm) => Visit(bm) = ClearedInOrder

=============================================================================
