------------------------- MODULE RelocationAbstract -------------------------
(***************************************************************************)
(* What the relocation engine promises (spec.md 4.6, "Partial relocation  *)
(* bookkeeping"), without bitmaps or stages.  Every entry of a walked     *)
(* array is a word that is either still unwritten (None) or written with  *)
(* the definition it was resolved to.  A relocate call writes, in every   *)
(* walked array, exactly the unwritten words its dependencies and symbol  *)
(* finder resolve, and leaves every written word alone; the arrays lazy   *)
(* binding skips are never written.  Once the image leaves the unrelocated *)
(* state (finish, or drop) no call writes any more.                        *)
(***************************************************************************)
EXTENDS Naturals

CONSTANTS
    Arrays,        \* the relocation arrays of the image
    Size(_),       \* Size(a): entries of array a
    Calls,         \* the arguments a relocate call may be given
    Outcome(_, _), \* Outcome(a, c)[i]: what call c resolves entry i of a to
    None

VARIABLES
    walk,   \* the arrays relocate walks (all but .rela.plt under lazy binding)
    word,   \* word[a][i]: the word of entry i of array a, or None
    open    \* the image is still an unrelocated ElfDylib

avars == <<walk, word, open>>

AInit ==
    /\ walk \in SUBSET Arrays
    /\ word = [a \in Arrays |-> [i \in 0 .. Size(a) - 1 |-> None]]
    /\ open = TRUE

\* One relocate call with arguments c.
ARelocate(c) ==
    /\ open
    /\ word' = [a \in Arrays |->
                  IF a \notin walk THEN word[a]
                  ELSE [i \in 0 .. Size(a) - 1 |->
                          IF word[a][i] # None THEN word[a][i]
                          ELSE Outcome(a, c)[i]]]
    /\ UNCHANGED <<walk, open>>

\* The image is finished, fails to finish, or is dropped.
AClose ==
    /\ open
    /\ open' = FALSE
    /\ UNCHANGED <<walk, word>>

ANext == (\E c \in Calls : ARelocate(c)) \/ AClose

ASpec == AInit /\ [][ANext]_avars

=============================================================================
