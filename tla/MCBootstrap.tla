---------------------------- MODULE MCBootstrap ----------------------------
(***************************************************************************)
(* Initial stacks for Bootstrap: argv of one to three pointers, an empty   *)
(* or one-entry envp, and the auxv the kernel builds when it starts the   *)
(* loader directly (AT_PHDR = the loader's own headers, AT_BASE = 0) or as *)
(* the PT_INTERP of a program (AT_PHDR = the program's headers, AT_BASE = *)
(* the loader's base).  The word after AT_NULL stands for what lies above *)
(* auxv on the stack.  The loader's own dynamic table comes with          *)
(* DT_RELA and DT_RELACOUNT, with packed relative relocations (DT_RELR,   *)
(* no DT_RELA / DT_RELACOUNT), or with a DT_RELACOUNT that also covers    *)
(* the GLOB_DAT entry after the RELATIVE ones.                            *)
(***************************************************************************)
EXTENDS Bootstrap

D(t, v) == [tag |-> t, val |-> v]
P(t, v) == [type |-> t, vaddr |-> v]

MCLoadBase == 1000

MCSelfPhdrs == <<P("PT_PHDR", 64), P("PT_LOAD", 0), P("PT_DYNAMIC", 200)>>
MCProgPhdrs == <<P("PT_PHDR", 64), P("PT_INTERP", 100), P("PT_LOAD", 0),
                 P("PT_DYNAMIC", 300)>>
MCPhdrAt == (1064 :> MCSelfPhdrs) @@ (5064 :> MCProgPhdrs)

\* AT_PHDR, AT_PHENT, AT_PHNUM, AT_PAGESZ, AT_BASE, AT_ENTRY, AT_EXECFN, AT_NULL
MCDirectAux == <<3, 1064, 4, 56, 5, 3, 6, 4096, 7, 0, 9, 1300, 31, 101, 0, 0>>
MCInterpAux == <<3, 5064, 4, 56, 5, 4, 6, 4096, 7, 1000, 9, 5400, 31, 101, 0, 0>>

MCStacks ==
    {<<Len(argv)>> \o argv \o <<0>> \o env \o <<0>> \o aux \o <<77>> :
        argv \in {<<101>>, <<101, 102>>, <<101, 102, 103>>},
        env \in {<<>>, <<201>>},
        aux \in {MCDirectAux, MCInterpAux}}

MCSelfRelas == <<[type |-> "R_RELATIVE", off |-> 16, addend |-> 512],
                 [type |-> "R_RELATIVE", off |-> 24, addend |-> 520],
                 [type |-> "R_GLOB_DAT", off |-> 32, addend |-> 0]>>

MCSelfDyns ==
    {<<D("DT_RELA", 400), D("DT_RELASZ", 72), D("DT_RELACOUNT", 2),
       D("DT_OTHER", 0), D("DT_NULL", 0)>>,
     <<D("DT_RELR", 500), D("DT_RELRSZ", 16), D("DT_NULL", 0)>>,
     <<D("DT_RELA", 400), D("DT_RELACOUNT", 3), D("DT_NULL", 0)>>}

MCTargets == {[phaddr |-> 7064, phnum |-> 5, entry |-> 7400, interp |-> FALSE],
              [phaddr |-> 7064, phnum |-> 6, entry |-> 7400, interp |-> TRUE]}

=============================================================================
