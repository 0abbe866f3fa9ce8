----------------------------- MODULE Bootstrap -----------------------------
(***************************************************************************)
(* rust_main of src/mini-loader/src/main.rs: the loader finds argc, argv, *)
(* envp and auxv on the initial stack, walks its own dynamic table for    *)
(* DT_RELA / DT_RELACOUNT, computes its own base from AT_BASE or from the *)
(* PT_DYNAMIC program header, applies its RELATIVE self-relocations,      *)
(* loads the target (and its PT_INTERP interpreter), rewrites auxv,       *)
(* shifts argv one word down over its own argv[0] and jumps through the   *)
(* trampoline.                                                             *)
(*                                                                         *)
(* The stack is a sequence of words: word i is sp + (i - 1) words.        *)
(* Pointers (argv, envp strings) are distinct non-zero naturals.  The     *)
(* loader's relocated words are `mem`, a function from addresses.  A      *)
(* loaded image is [phaddr, phnum, entry, interp] (phdrs().as_ptr(),      *)
(* phdrs().len(), entry(), whether it has PT_INTERP).                     *)
(***************************************************************************)
EXTENDS Naturals, Sequences, SequencesExt, TLC

CONSTANTS
    Stacks,       \* initial stacks the kernel may build
    LoadBase,     \* where the kernel mapped the mini-loader
    DynVaddr,     \* p_vaddr of the loader's PT_DYNAMIC: dynv = LoadBase + DynVaddr
    SelfDyns,     \* the loader's own dynamic tables ([tag, val] up to DT_NULL)
    SelfRelas,    \* the loader's .rela.dyn: [type, off, addend]
    PhdrAt,       \* PhdrAt[a]: the program-header table at address a
    Targets,      \* what load_dylib may return for the target
    InterpEntry,  \* entry() of the interpreter
    PhentSize,    \* size_of::<Phdr>()
    Raw,          \* a word no self-relocation has written
    None

AT_NULL == 0
AT_PHDR == 3
AT_PHENT == 4
AT_PHNUM == 5
AT_BASE == 7
AT_ENTRY == 9
AT_EXECFN == 31

Dynv == LoadBase + DynVaddr

VARIABLES
    pc,        \* where rust_main is
    selfDyn,   \* the loader's own dynamic table (fixed by its build)
    stack,     \* the words from sp on
    kstack,    \* history: the stack the kernel built
    mem,       \* the loader's words written by self-relocation
    auxv,      \* index of the first auxv entry
    target,    \* the loaded target image
    interp,    \* whether the interpreter was loaded
    curAux,    \* cur_aux_ptr after the rewrite loop: index of AT_NULL
    jump       \* the entry passed to trampoline

vars == <<pc, selfDyn, stack, kstack, mem, auxv, target, interp, curAux, jump>>

-----------------------------------------------------------------------------
(* The loops of rust_main, each over the words it reads.                   *)

\* while cur_env.read() != 0: the index of the first zero word from i on.
RECURSIVE ZeroFrom(_, _)
ZeroFrom(st, i) == IF i > Len(st) \/ st[i] = 0 THEN i ELSE ZeroFrom(st, i + 1)

\* The walk of the loader's own dynamic table (lines 78-87).
RECURSIVE SelfDynWalk(_, _, _)
SelfDynWalk(tbl, i, acc) ==
    CASE tbl[i].tag = "DT_NULL" -> acc
      [] tbl[i].tag = "DT_RELA" -> SelfDynWalk(tbl, i + 1, [acc EXCEPT !.rela = tbl[i].val])
      [] tbl[i].tag = "DT_RELACOUNT" -> SelfDynWalk(tbl, i + 1, [acc EXCEPT !.count = tbl[i].val])
      [] OTHER -> SelfDynWalk(tbl, i + 1, acc)

\* The first auxv walk (lines 94-106): AT_PHDR, AT_PHNUM, AT_BASE.
RECURSIVE AuxScan(_, _, _)
AuxScan(st, i, acc) ==
    CASE st[i] = AT_NULL -> acc
      [] st[i] = AT_PHDR -> AuxScan(st, i + 2, [acc EXCEPT !.ph = st[i + 1]])
      [] st[i] = AT_PHNUM -> AuxScan(st, i + 2, [acc EXCEPT !.phnum = st[i + 1]])
      [] st[i] = AT_BASE -> AuxScan(st, i + 2, [acc EXCEPT !.base = st[i + 1]])
      [] OTHER -> AuxScan(st, i + 2, acc)

\* Mutant: the first program header is taken whatever its type.
SelfBaseFirstPhdr(aux) ==
    IF aux.base # 0 THEN aux.base
    ELSE IF aux.phnum = 0 THEN 0
    ELSE Dynv - PhdrAt[aux.ph][1].vaddr

\* Lines 109-117: AT_BASE when non-zero, else the address of the dynamic
\* table minus the p_vaddr of the first PT_DYNAMIC header; 0 without one.
SelfBase(aux) ==
    IF aux.base # 0 THEN aux.base
    ELSE LET phdrs == IF aux.phnum = 0 THEN <<>> ELSE SubSeq(PhdrAt[aux.ph], 1, aux.phnum)
             k == SelectInSeq(phdrs, LAMBDA p : p.type = "PT_DYNAMIC")
         IN IF k = 0 THEN 0 ELSE Dynv - phdrs[k].vaddr

\* Mutant: the word gets the addend without the base.
SelfRelocateNoBase(m, base, count) ==
    FoldLeft(LAMBDA acc, e : (base + e.off :> e.addend) @@ acc,
             m, SubSeq(SelfRelas, 1, count))

\* Lines 119-127: every one of the first count entries writes base + r_addend
\* at base + r_offset; a type other than RELATIVE is only reported.
SelfRelocate(m, base, count) ==
    FoldLeft(LAMBDA acc, e : (base + e.off :> base + e.addend) @@ acc,
             m, SubSeq(SelfRelas, 1, count))

\* The value the rewrite loop (lines 155-170) stores for an aux entry.
NewAuxVal(tag, val, t, execfn) ==
    CASE tag = AT_PHDR -> t.phaddr
      [] tag = AT_PHNUM -> t.phnum
      [] tag = AT_PHENT -> PhentSize
      [] tag = AT_ENTRY -> t.entry
      [] tag = AT_EXECFN -> execfn
      [] tag = AT_BASE -> 0
      [] OTHER -> val

RECURSIVE AuxRewrite(_, _, _, _)
AuxRewrite(st, i, t, execfn) ==
    IF st[i] = AT_NULL THEN [st |-> st, at |-> i]
    ELSE AuxRewrite([st EXCEPT ![i + 1] = NewAuxVal(st[i], @, t, execfn)],
                    i + 2, t, execfn)

\* Mutant: the copy stops at the start of the AT_NULL entry.
ShiftShort(st, n) == [i \in DOMAIN st |-> IF i =< n - 2 THEN st[i + 1] ELSE st[i]]

\* core::ptr::copy(sp.add(1), sp, n): words 2 .. n+1 move to 1 .. n.
Shift(st, n) == [i \in DOMAIN st |-> IF i =< n THEN st[i + 1] ELSE st[i]]

-----------------------------------------------------------------------------

Init ==
    /\ stack \in Stacks
    /\ selfDyn \in SelfDyns
    /\ kstack = stack
    /\ mem = [a \in {LoadBase + SelfRelas[i].off : i \in DOMAIN SelfRelas} |-> Raw]
    /\ pc = "start"
    /\ auxv = 0 /\ curAux = 0 /\ target = None /\ interp = FALSE /\ jump = None

\* Lines 63-127: the stack layout, the loader's dynamic table, its base and
\* the self-relocation.  rela.unwrap() / rela_count.unwrap() panic when a
\* tag is missing, before any word is relocated.
SelfRelocation ==
    /\ pc = "start"
    /\ LET d == SelfDynWalk(selfDyn, 1, [rela |-> None, count |-> None])
           aux == ZeroFrom(stack, stack[1] + 3) + 1
           base == SelfBase(AuxScan(stack, aux, [base |-> 0, phnum |-> 0, ph |-> None]))
       IN \/ /\ d.rela = None \/ d.count = None
             /\ pc' = "prereloc_panic"
             /\ UNCHANGED <<mem, auxv>>
          \/ /\ d.rela # None /\ d.count # None
             /\ mem' = SelfRelocate(mem, base, d.count)
             /\ auxv' = aux
             /\ pc' = "relocated"
    /\ UNCHANGED <<selfDyn, stack, kstack, target, interp, curAux, jump>>

\* The panic handler: print the location and message, then exit(-1).
Panic == pc' = "exited"

\* Lines 129-153: argc == 1 panics; load_dylib(...).unwrap() of the target,
\* then of its PT_INTERP interpreter, may fail and panic.  The panic
\* handler exits the process.
LoadTarget ==
    /\ pc = "relocated"
    /\ \/ stack[1] = 1 /\ Panic /\ UNCHANGED <<target, interp>>
       \/ stack[1] > 1 /\ Panic /\ UNCHANGED <<target, interp>>
       \/ /\ stack[1] > 1
          /\ \E t \in Targets :
               /\ target' = t
               /\ \/ ~t.interp /\ interp' = FALSE /\ pc' = "loaded"
                  \/ t.interp /\ interp' = TRUE /\ pc' = "loaded"
                  \/ t.interp /\ interp' = FALSE /\ Panic
    /\ UNCHANGED <<selfDyn, stack, kstack, mem, auxv, curAux, jump>>

\* Lines 155-170: rewrite auxv in place; AT_EXECFN takes argv[1].
RewriteAuxv ==
    /\ pc = "loaded"
    /\ LET r == AuxRewrite(stack, auxv, target, stack[3])
       IN stack' = r.st /\ curAux' = r.at
    /\ pc' = "rewritten"
    /\ UNCHANGED <<selfDyn, kstack, mem, auxv, target, interp, jump>>

\* Lines 176-185: copy (cur_aux_ptr + 1 - (sp + 1)) / 8 words from sp + 1
\* to sp, store argc - 1 at sp and jump to the interpreter if loaded, else
\* to the target.
Transfer ==
    /\ pc = "rewritten"
    /\ stack' = [Shift(stack, curAux) EXCEPT ![1] = stack[1] - 1]
    /\ jump' = IF interp THEN InterpEntry ELSE target.entry
    /\ pc' = "transferred"
    /\ UNCHANGED <<selfDyn, kstack, mem, auxv, target, interp, curAux>>

Next == SelfRelocation \/ LoadTarget \/ RewriteAuxv \/ Transfer

Spec == Init /\ [][Next]_vars

-----------------------------------------------------------------------------
(* Reference: the SysV initial-stack layout, read without the code's       *)
(* pointers: argc, argv[argc], 0, envp..., 0, auxv pairs through AT_NULL.  *)

RECURSIVE DecodeAux(_, _)
DecodeAux(st, i) ==
    IF i + 1 > Len(st) THEN <<>>
    ELSE IF st[i] = AT_NULL THEN <<[tag |-> st[i], val |-> st[i + 1]]>>
    ELSE <<[tag |-> st[i], val |-> st[i + 1]]>> \o DecodeAux(st, i + 2)

Decode(st) ==
    LET argc == st[1]
        envEnd == ZeroFrom(st, argc + 3)
    IN [argv |-> SubSeq(st, 2, argc + 1),
        sep |-> st[argc + 2],
        env |-> SubSeq(st, argc + 3, envEnd - 1),
        auxv |-> DecodeAux(st, envEnd + 1)]

\* spec.md "Auxiliary vector rewrite": the touched entries and their values.
Touched(e, t, execfn) ==
    [tag |-> e.tag,
     val |-> CASE e.tag = AT_PHDR -> t.phaddr
               [] e.tag = AT_PHNUM -> t.phnum
               [] e.tag = AT_PHENT -> PhentSize
               [] e.tag = AT_ENTRY -> t.entry
               [] e.tag = AT_EXECFN -> execfn
               [] e.tag = AT_BASE -> 0
               [] OTHER -> e.val]

-----------------------------------------------------------------------------

TypeOK ==
    /\ selfDyn \in SelfDyns
    /\ pc \in {"start", "prereloc_panic", "relocated", "exited", "loaded",
               "rewritten", "transferred"}
    /\ Len(stack) = Len(kstack)
    \* self-relocation writes only the loader's own relocated words
    /\ DOMAIN mem = {LoadBase + SelfRelas[i].off : i \in DOMAIN SelfRelas}
    /\ target = None \/ target \in Targets
    /\ interp \in BOOLEAN

\* After self-relocation every one of the first DT_RELACOUNT words holds
\* the real load base plus its addend, at the real load base plus its
\* offset, however the kernel started the loader (the base computation
\* and relocation loop of rust_main).
SelfRelocated ==
    pc \notin {"start", "prereloc_panic"} =>
        LET n == SelfDynWalk(selfDyn, 1, [rela |-> None, count |-> None]).count
        IN \A i \in 1 .. n :
               mem[LoadBase + SelfRelas[i].off] = LoadBase + SelfRelas[i].addend

\* When control reaches the trampoline the stack is the kernel's stack for
\* the target: argc one less, argv without the loader's argv[0], envp
\* unchanged, and auxv with AT_PHDR, AT_PHNUM, AT_PHENT, AT_ENTRY,
\* AT_EXECFN, AT_BASE describing the target and every other entry, the
\* AT_NULL terminator included, passed through; the jump goes to the
\* interpreter when the target has one (auxv rewrite, argv shift, jump).
HandOff ==
    pc = "transferred" =>
        LET k == Decode(kstack)
            n == Decode(stack)
        IN /\ stack[1] = kstack[1] - 1
           /\ n.argv = Tail(k.argv)
           /\ n.sep = 0
           /\ n.env = k.env
           /\ n.auxv = [i \in DOMAIN k.auxv |-> Touched(k.auxv[i], target, k.argv[2])]
           /\ jump = IF target.interp THEN InterpEntry ELSE target.entry

\* spec.md 4.9 ("Pre-reloc: no call through GOT permitted"): the loader
\* does not panic before it has relocated itself; its panic handler
\* formats through data that needs relocating (rela.unwrap() and
\* rela_count.unwrap() in rust_main).
NoPanicBeforeSelfReloc == pc # "prereloc_panic"

\* spec.md 4.9: the first DT_RELACOUNT entries "must be RELATIVE ... unknown
\* types abort with a message": a word of any other type is never written
\* with base + addend (the self-relocation loop of rust_main).
UnknownSelfRelocNotApplied ==
    \A i \in DOMAIN SelfRelas :
        SelfRelas[i].type # "R_RELATIVE" =>
            mem[LoadBase + SelfRelas[i].off] # LoadBase + SelfRelas[i].addend

=============================================================================
