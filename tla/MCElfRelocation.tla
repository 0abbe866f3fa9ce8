--------------------------- MODULE MCElfRelocation ---------------------------
(***************************************************************************)
(* Constants for checking ElfRelocation.                                   *)
(*                                                                         *)
(* The image defines o itself; dependency L1 defines f, L2 defines f and  *)
(* g; m is defined by no dependency, only by a symbol finder.  .rela.plt  *)
(* has two JUMP_SLOTs (f, m); .rela.dyn has five entries of every class,  *)
(* so with 2-bit units its bitmap has three units, the last with a        *)
(* padding bit, and the unresolvable-for-now entries (g, f) sit in units  *)
(* 1 and 2.                                                                *)
(***************************************************************************)
EXTENDS ElfRelocation

CONSTANTS f, g, o, m, L1, L2

MCNames == {f, g, o, m}
MCLibs == {L1, L2}
MCLibDefs == [l \in MCLibs |-> IF l = L1 THEN {f} ELSE {f, g}]
MCOwnDefs == {o}

MCPltRelas ==
    << [type |-> "JUMP_SLOT", sym |-> f],
       [type |-> "JUMP_SLOT", sym |-> m] >>

\* A present but empty .rela.plt (DT_JMPREL with DT_PLTRELSZ = 0).
MCPltEmpty == << >>

MCDynRelas ==
    << [type |-> "RELATIVE", sym |-> NoSym],
       [type |-> "SYMBOLIC", sym |-> o],
       [type |-> "GOT",      sym |-> g],
       [type |-> "DTPMOD",   sym |-> NoSym],
       [type |-> "DTPOFF",   sym |-> f] >>

\* relocate (no finder), a finder for the missing m, and a finder that
\* also answers for the image's own o.
MCClosures == {{}, {m}, {o}}

\* The image's own o and L2's g are IFUNCs: an own resolver and a
\* dependency's, one answered by a finder as well.
MCIfuncs == {o, g}

=============================================================================
