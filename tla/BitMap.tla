------------------------------- MODULE BitMap -------------------------------
(***************************************************************************)
(* The relocation bitmap of src/src/relocation.rs: struct BitMap (a        *)
(* Vec<u32> of units, bit set = "entry relocated") and BitMapIterator,    *)
(* which yields the index of every CLEARED bit, walking one unit at a     *)
(* time through a private copy (cur_bit) of the current unit.             *)
(*                                                                         *)
(* A bitmap is a sequence of units; unit k of the code (bitmap[k]) is     *)
(* element k+1.  A unit is a function 0..UnitBits-1 -> BOOLEAN, TRUE for   *)
(* a 1 bit.  The code's unit is a u32 (UnitBits = 32); the algorithm is   *)
(* generic in the width, and the models use a small width so that bitmaps *)
(* of several units, and a last unit with padding bits, occur at small    *)
(* array lengths.                                                          *)
(***************************************************************************)
EXTENDS Naturals, Sequences

CONSTANT UnitBits   \* bits per unit: u32 in the code

ASSUME UnitBits \in Nat \ {0}

Bits == 0 .. UnitBits - 1

\* A unit with every bit set: u32::MAX.
FullUnit == [j \in Bits |-> TRUE]

\* Mutant: the unit count is rounded down.
NewFloor(size) == [k \in 1 .. size \div UnitBits |-> FullUnit]

\* BitMap::new: (size + 31) / 32 units, all bits set ("relocated").
New(size) == [k \in 1 .. (size + UnitBits - 1) \div UnitBits |-> FullUnit]

\* BitMap::unit and BitMap::unit_count.
Unit(bm, index) == bm[index + 1]
UnitCount(bm) == Len(bm)

\* The value of bit b, read as the code's set/clear address it.
Bit(bm, b) == bm[b \div UnitBits + 1][b % UnitBits]

\* BitMap::set and BitMap::clear.
Set(bm, b) == [bm EXCEPT ![b \div UnitBits + 1][b % UnitBits] = TRUE]
Clear(bm, b) == [bm EXCEPT ![b \div UnitBits + 1][b % UnitBits] = FALSE]

\* u32::trailing_ones: the number of set bits below the lowest clear bit.
TrailingOnes(u) ==
    IF \A j \in Bits : u[j] THEN UnitBits
    ELSE CHOOSE j \in Bits : ~u[j] /\ \A k \in 0 .. j - 1 : u[k]

(***************************************************************************)
(* BitMapIterator.  `it` is the iterator's [cur |-> cur_bit, index |->    *)
(* index].  IterNew reads unit 0, so it is only defined when the bitmap   *)
(* has a unit: on an empty bitmap the code indexes out of bounds and      *)
(* panics (IterPanics).                                                    *)
(***************************************************************************)
IterPanics(bm) == UnitCount(bm) = 0

IterNew(bm) == [cur |-> Unit(bm, 0), index |-> 0]

RECURSIVE IterNext(_, _)

\* Mutant: the yielded index forgets the unit offset.
IterNextNoOffset(it, bm) ==
    LET idx == TrailingOnes(it.cur) IN
    IF idx = UnitBits
    THEN IF it.index + 1 = UnitCount(bm)
         THEN [it |-> [it EXCEPT !.index = @ + 1], found |-> FALSE, idx |-> 0]
         ELSE IterNext([cur |-> Unit(bm, it.index + 1), index |-> it.index + 1], bm)
    ELSE [it |-> [it EXCEPT !.cur[idx] = TRUE], found |-> TRUE, idx |-> idx]

\* BitMapIterator::next: the result of one call, [it, found, idx].  When
\* the copy of the current unit has no clear bit the loop moves to the
\* next unit, reading it from the (possibly mutated) bitmap bm; after the
\* last unit it returns None (found = FALSE).
IterNext(it, bm) ==
    LET idx == TrailingOnes(it.cur) IN
    IF idx = UnitBits
    THEN IF it.index + 1 = UnitCount(bm)
         THEN [it |-> [it EXCEPT !.index = @ + 1], found |-> FALSE, idx |-> 0]
         ELSE IterNext([cur |-> Unit(bm, it.index + 1), index |-> it.index + 1], bm)
    ELSE [it |-> [it EXCEPT !.cur[idx] = TRUE], found |-> TRUE,
          idx |-> it.index * UnitBits + idx]

\* The indices an iterator over an unchanging bitmap yields, in order.
RECURSIVE VisitFrom(_, _)
VisitFrom(it, bm) ==
    LET nx == IterNext(it, bm) IN
    IF nx.found THEN <<nx.idx>> \o VisitFrom(nx.it, bm) ELSE <<>>

Visit(bm) == VisitFrom(IterNew(bm), bm)

=============================================================================
