---------------------------- MODULE ElfRelocation ----------------------------
(***************************************************************************)
(* The relocation engine and finalisation of one image, as in             *)
(* src/src/relocation.rs and src/src/lib.rs: ElfDylib::relocate /         *)
(* relocate_with (relocate_impl), ElfRelaArray::relocate with its Init    *)
(* and Relocating passes over the bitmap, is_finished, finish             *)
(* (not_relocated, init, init_array, RELRO) and the drop of the relocated *)
(* image (Dylib::drop: fini, fini_array).                                  *)
(*                                                                         *)
(* Data abstraction.  A relocation entry is its type class and its symbol *)
(* (a name, or NoSym for r_sym = 0).  The word an entry writes at         *)
(* base + r_offset is abstracted to the definition it points at: "base"   *)
(* (B + A of RELATIVE), "selfmod" (the image's own TLS module id), "self" *)
(* (a definition in the image itself), "closure" (the user's symbol       *)
(* finder), or the dependency that defined the name.  None is a word not  *)
(* written yet.  Addends and addresses are left out.  A call of an IFUNC  *)
(* resolver (From<SymDef> for *const ()) is recorded in the array's call  *)
(* history together with whether its result became the word.             *)
(***************************************************************************)
EXTENDS Naturals, Sequences, SequencesExt, FiniteSets, BitMap

CONSTANTS
    Names,         \* symbol names used by relocation entries
    NoSym,         \* the symbol of an entry with r_sym = 0
    Libs,          \* already relocated dependency images (RelocatedDylib)
    LibDefs,       \* LibDefs[l]: the names dependency l defines
    OwnDefs,       \* names whose dynamic symbol is defined in the image itself
    PltRelas,      \* .rela.plt entries, or NoArray when DT_JMPREL is absent
    DynRelas,      \* .rela.dyn entries, or NoArray when DT_RELA is absent
    NoArray,
    Closures,      \* name sets a symbol finder passed to relocate_with resolves
    Ifuncs,        \* names whose definitions are STT_GNU_IFUNC
    LazyModes,     \* the lazy-binding settings the image may be loaded with
    HasRelro,      \* the image has a PT_GNU_RELRO segment
    HasInit,       \* DT_INIT present
    InitArrayLen,  \* entries of DT_INIT_ARRAY
    HasFini,       \* DT_FINI present
    FiniArrayLen,  \* entries of DT_FINI_ARRAY
    None

Types == {"RELATIVE", "GOT", "SYMBOLIC", "JUMP_SLOT", "DTPMOD", "DTPOFF"}
Rela == [type : Types, sym : Names \cup {NoSym}]

ASSUME /\ NoSym \notin Names /\ None \notin Libs
       /\ LibDefs \in [Libs -> SUBSET Names] /\ OwnDefs \subseteq Names
       /\ Closures \subseteq SUBSET Names /\ {} \in Closures
       /\ Ifuncs \subseteq Names
       /\ LazyModes \subseteq BOOLEAN /\ LazyModes # {}
       /\ DynRelas = NoArray \/ DynRelas \in Seq(Rela)
       \* .rela.plt holds JUMP_SLOT entries with a symbol: any other entry
       \* reaches the code's assert!(r_sym != 0) or unreachable!().
       /\ PltRelas = NoArray \/ PltRelas \in Seq([type : {"JUMP_SLOT"}, sym : Names])

RelasOf(a) == IF a = "plt" THEN PltRelas ELSE DynRelas

\* ElfRelocation { pltrel: Option<_>, dynrel: Option<_> }: the arrays present.
Arrays == {a \in {"plt", "dyn"} : RelasOf(a) # NoArray}

Size(a) == Len(RelasOf(a))

Targets == {"base", "selfmod", "self", "closure"} \cup Libs

Stages == {"Init", "Relocating", "Finish"}

\* A constructor or destructor call: fn is the function kind, k the
\* position in its array (0 for DT_INIT / DT_FINI).
Call(fn, k) == [fn |-> fn, k |-> k]
RelroCall == Call("relro", 0)

VARIABLES
    lazy,        \* ElfDylib.lazy
    relocation,  \* relocation[a] = [bm, stage, got, calls]: RelocateState,
                 \* memory, and the history of IFUNC resolver calls
    phase,       \* which value owns the image: see PhaseSet
    depLibs,     \* ElfDylib.dep_libs, as a set
    log,         \* history: constructor, RELRO and destructor calls in order
    errNames,    \* names listed by the RelocateError of a failed finish
    lastCall     \* history: the arguments of the latest relocate call

vars == <<lazy, relocation, phase, depLibs, log, errNames, lastCall>>

\* "loaded": an ElfDylib; "relocated": a RelocatedDylib; "dropped": its last
\* handle dropped; "discarded": the ElfDylib dropped unrelocated;
\* "unresolved" / "relro_failed": finish returned Err; "panicked".
PhaseSet == {"loaded", "relocated", "dropped", "discarded", "unresolved",
             "relro_failed", "panicked"}

-----------------------------------------------------------------------------
(* Symbol resolution (relocate_impl)                                       *)

\* find_symdef: a symbol defined in the image (st_shndx != SHN_UNDEF) is
\* taken from it; otherwise the first of libs that defines the name.
SymDef(sym, libs) ==
    IF sym = NoSym THEN None
    ELSE IF sym \in OwnDefs THEN "self"
    ELSE LET k == SelectInSeq(libs, LAMBDA l : sym \in LibDefs[l])
         IN IF k = 0 THEN None ELSE libs[k]

\* What the handler of entry e writes, or None when it calls deal_fail.
\* JUMP_SLOT (plt), GOT and SYMBOLIC ask the symbol finder first:
\* find_symbol(name).or(symdef); r_sym = 0 gives the name "", which no
\* finder resolves.  DTPMOD / DTPOFF use symdef alone.
Target(e, libs, closure) ==
    CASE e.type = "RELATIVE" -> "base"
      [] e.type \in {"JUMP_SLOT", "GOT", "SYMBOLIC"} ->
            IF e.sym \in closure THEN "closure" ELSE SymDef(e.sym, libs)
      [] e.type = "DTPMOD" /\ e.sym = NoSym -> "selfmod"
      [] OTHER -> SymDef(e.sym, libs)

\* Whether the handler of e runs an IFUNC resolver: JUMP_SLOT, GOT and
\* SYMBOLIC evaluate symdef.map(|symdef| symdef.into()) as the argument of
\* .or(), before and whatever the finder answers; into() calls the
\* resolver of an STT_GNU_IFUNC definition.
CallsIfunc(e, libs) ==
    /\ e.type \in {"JUMP_SLOT", "GOT", "SYMBOLIC"}
    /\ e.sym \in Ifuncs
    /\ SymDef(e.sym, libs) # None

\* The handler's outcome for every entry of array a: index i is entry i+1;
\* w is the word written (None: deal_fail), ifunc whether it ran a resolver.
Resolve(a, libs, closure) ==
    [i \in 0 .. Size(a) - 1 |->
        [w     |-> Target(RelasOf(a)[i + 1], libs, closure),
         ifunc |-> CallsIfunc(RelasOf(a)[i + 1], libs)]]

\* A resolver call for entry idx, and whether its result became the word
\* (it does not when the finder answered).
IfuncCall(idx, r) == [idx |-> idx, used |-> r[idx].w # "closure"]

\* The call history after the handler of entry idx.
CallHistory(st, idx, r) ==
    IF r[idx].ifunc THEN Append(st.calls, IfuncCall(idx, r)) ELSE st.calls

-----------------------------------------------------------------------------
(* ElfRelaArray::relocate                                                  *)

\* Mutant: deal_fail clears the bit but leaves the stage alone.
ApplyNoStage(st, idx, r) ==
    IF r[idx].w = None THEN [st EXCEPT !.bm = Clear(@, idx), !.calls = CallHistory(st, idx, r)]
    ELSE [st EXCEPT !.got[idx] = r[idx].w, !.calls = CallHistory(st, idx, r)]

\* The handler f on entry idx with outcome r[idx]: write the word, or
\* deal_fail (clear the bit, stage = Relocating); a resolver it ran is
\* recorded either way.
Apply(st, idx, r) ==
    IF r[idx].w = None
    THEN [st EXCEPT !.bm = Clear(@, idx), !.stage = "Relocating",
                    !.calls = CallHistory(st, idx, r)]
    ELSE [st EXCEPT !.got[idx] = r[idx].w, !.calls = CallHistory(st, idx, r)]

\* Stage Init: every entry in order.
RECURSIVE InitLoop(_, _, _)
InitLoop(st, idx, r) ==
    IF idx \notin DOMAIN r THEN st
    ELSE InitLoop(Apply(st, idx, r), idx + 1, r)

RECURSIVE RelocatingLoop(_, _, _)

\* Mutant: the retried entry's bit is not set before the handler runs.
RelocatingLoopNoSet(st, it, r) ==
    LET nx == IterNext(it, st.bm) IN
    IF ~nx.found THEN st
    ELSE RelocatingLoop(Apply(st, nx.idx, r), nx.it, r)

\* Stage Relocating: the entries whose bit is clear, through the
\* BitMapIterator; each bit is set before the handler, which clears it
\* again on failure.
RelocatingLoop(st, it, r) ==
    LET nx == IterNext(it, st.bm) IN
    IF ~nx.found THEN st
    ELSE RelocatingLoop(Apply([st EXCEPT !.bm = Set(@, nx.idx)], nx.idx, r),
                        nx.it, r)

\* Mutant: an array in stage Relocating is never retried.
ArrayRelocateNoRetry(st, r) ==
    IF st.stage = "Init" THEN InitLoop([st EXCEPT !.stage = "Finish"], 0, r)
    ELSE st

\* Mutant: every pass walks the whole array, as the Init pass does.
ArrayRelocateRewalk(st, r) ==
    IF st.stage = "Finish" THEN st
    ELSE InitLoop([st EXCEPT !.stage = "Finish"], 0, r)

\* ElfRelaArray::relocate: stage is set to Finish before the walk.
ArrayRelocate(st, r) ==
    CASE st.stage = "Init" ->
            InitLoop([st EXCEPT !.stage = "Finish"], 0, r)
      [] st.stage = "Relocating" ->
            RelocatingLoop([st EXCEPT !.stage = "Finish"], IterNew(st.bm), r)
      [] st.stage = "Finish" -> st

-----------------------------------------------------------------------------
(* Queries                                                                 *)

\* ElfRelaArray::is_finished: the array's stage is Finish.
ArrayFinished(a) == relocation[a].stage = "Finish"

\* ElfDylib::is_finished, as written: the dynrel result overwrites the
\* pltrel result instead of being combined with it.
IsFinished ==
    LET plt == IF ~lazy /\ "plt" \in Arrays
               THEN ArrayFinished("plt") ELSE TRUE
    IN IF "dyn" \in Arrays THEN ArrayFinished("dyn") ELSE plt

\* not_relocated creates a BitMapIterator on each present array, which
\* reads unit 0 of its bitmap.
NotRelocatedPanics == \E a \in Arrays : IterPanics(relocation[a].bm)

\* Mutant: only .rela.dyn is reported.
NotRelocatedDynOnly ==
    UNION {{RelasOf(a)[i + 1].sym : i \in ToSet(Visit(relocation[a].bm))} :
             a \in Arrays \cap {"dyn"}} \ {NoSym}

\* not_relocated: the names of the entries whose bit is clear (r_sym != 0).
NotRelocated ==
    UNION {{RelasOf(a)[i + 1].sym : i \in ToSet(Visit(relocation[a].bm))} :
             a \in Arrays} \ {NoSym}

\* finish: DT_INIT, then DT_INIT_ARRAY in order.
InitCalls ==
    (IF HasInit THEN <<Call("init", 0)>> ELSE <<>>)
      \o [k \in 1 .. InitArrayLen |-> Call("init_array", k)]

\* Mutant: the fini array runs before DT_FINI.
FiniCallsSwapped ==
    [k \in 1 .. FiniArrayLen |-> Call("fini_array", k)]
      \o (IF HasFini THEN <<Call("fini", 0)>> ELSE <<>>)

\* Dylib::drop: DT_FINI, then DT_FINI_ARRAY in order.
FiniCalls ==
    (IF HasFini THEN <<Call("fini", 0)>> ELSE <<>>)
      \o [k \in 1 .. FiniArrayLen |-> Call("fini_array", k)]

-----------------------------------------------------------------------------
(* Actions                                                                 *)

\* ElfRelocation::new, with the lazy flag the Loader was configured with.
Init ==
    /\ lazy \in LazyModes
    /\ relocation = [a \in Arrays |->
                       [bm    |-> New(Size(a)),
                        stage |-> "Init",
                        got   |-> [i \in 0 .. Size(a) - 1 |-> None],
                        calls |-> <<>>]]
    /\ phase = "loaded"
    /\ depLibs = {}
    /\ log = <<>>
    /\ errNames = {}
    /\ lastCall = None

\* relocate(libs) (closure = {}) and relocate_with(libs, func): the PLT
\* array unless lazy, then the dynamic array; libs are added to dep_libs.
Relocate(libs, closure) ==
    /\ phase = "loaded"
    /\ LET withPlt ==
             IF ~lazy /\ "plt" \in Arrays
             THEN [relocation EXCEPT !["plt"] =
                     ArrayRelocate(@, Resolve("plt", libs, closure))]
             ELSE relocation
       IN relocation' =
             IF "dyn" \in Arrays
             THEN [withPlt EXCEPT !["dyn"] =
                     ArrayRelocate(@, Resolve("dyn", libs, closure))]
             ELSE withPlt
    /\ depLibs' = depLibs \cup ToSet(libs)
    /\ lastCall' = [libs |-> libs, closure |-> closure]
    /\ UNCHANGED <<lazy, phase, log, errNames>>

\* finish: Err(not_relocated) when not finished; otherwise init,
\* init_array, then (unless lazy) mprotect of the RELRO range, whose
\* failure returns Err after the constructors have run.
Finish ==
    /\ phase = "loaded"
    /\ \/ /\ ~IsFinished
          /\ IF NotRelocatedPanics
             THEN phase' = "panicked" /\ UNCHANGED errNames
             ELSE phase' = "unresolved" /\ errNames' = NotRelocated
          /\ UNCHANGED log
       \/ /\ IsFinished
          /\ ~(~lazy /\ HasRelro)
          /\ log' = log \o InitCalls
          /\ phase' = "relocated"
          /\ UNCHANGED errNames
       \/ /\ IsFinished
          /\ ~lazy /\ HasRelro
          /\ \/ /\ log' = log \o InitCalls \o <<RelroCall>>
                /\ phase' = "relocated"
             \/ /\ log' = log \o InitCalls
                /\ phase' = "relro_failed"
          /\ UNCHANGED errNames
    /\ UNCHANGED <<lazy, relocation, depLibs, lastCall>>

\* The last RelocatedDylib handle is dropped: Dylib::drop.
Drop ==
    /\ phase = "relocated"
    /\ log' = log \o FiniCalls
    /\ phase' = "dropped"
    /\ UNCHANGED <<lazy, relocation, depLibs, errNames, lastCall>>

\* An ElfDylib dropped without finish: no destructor runs.
Discard ==
    /\ phase = "loaded"
    /\ phase' = "discarded"
    /\ UNCHANGED <<lazy, relocation, depLibs, log, errNames, lastCall>>

\* The libs argument: distinct dependencies in any order.
LibSeqs == UNION {SetToSeqs(S) : S \in SUBSET Libs}

Next ==
    \/ \E libs \in LibSeqs, closure \in Closures : Relocate(libs, closure)
    \/ Finish
    \/ Drop
    \/ Discard

Spec == Init /\ [][Next]_vars

-----------------------------------------------------------------------------
(* Properties                                                              *)

TypeOK ==
    /\ lazy \in BOOLEAN
    /\ DOMAIN relocation = Arrays
    /\ \A a \in Arrays :
         /\ relocation[a].bm \in Seq([Bits -> BOOLEAN])
         /\ UnitCount(relocation[a].bm) = (Size(a) + UnitBits - 1) \div UnitBits
         /\ relocation[a].stage \in Stages
         /\ relocation[a].got \in [0 .. Size(a) - 1 -> Targets \cup {None}]
         /\ relocation[a].calls \in Seq([idx : 0 .. Size(a) - 1, used : BOOLEAN])
    /\ phase \in PhaseSet
    /\ depLibs \subseteq Libs
    /\ errNames \subseteq Names
    /\ lastCall \in {None} \cup [libs : LibSeqs, closure : Closures]

\* The arrays relocate walks: .rela.plt only without lazy binding.
Processed == {a \in Arrays : a = "dyn" \/ ~lazy}

(* The bitmap tells the truth about memory across any number of relocate  *)
(* calls with changing dependencies: before the first pass every bit is   *)
(* set and nothing is written; afterwards an entry's bit is set exactly   *)
(* when its word has been written.  Padding bits of the last unit stay    *)
(* set, so the iterator never hands out an index past the array.  This is *)
(* the inverted bitmap protocol of ElfRelaArray::relocate (set before the *)
(* handler, clear in deal_fail).                                           *)
BitmapTruthful ==
    \A a \in Arrays :
      LET st == relocation[a] IN
      /\ \A b \in Size(a) .. UnitCount(st.bm) * UnitBits - 1 : Bit(st.bm, b)
      /\ \A i \in 0 .. Size(a) - 1 :
           IF st.stage = "Init" THEN Bit(st.bm, i) /\ st.got[i] = None
           ELSE Bit(st.bm, i) <=> st.got[i] # None

(* An array reports stage Finish exactly when a pass has run and every    *)
(* entry has been written: deal_fail in either pass must undo the         *)
(* optimistic "stage = Finish" set before the walk.                       *)
FinishTruthful ==
    \A a \in Arrays :
      relocation[a].stage = "Finish" <=>
        /\ relocation[a].stage # "Init"
        /\ \A i \in 0 .. Size(a) - 1 : relocation[a].got[i] # None

(* A relocate call whose dependencies and symbol finder resolve every     *)
(* entry it walks leaves every walked array finished, whatever earlier    *)
(* partial calls left behind: the Relocating pass reaches every cleared   *)
(* bit in every unit of the bitmap.                                        *)
CompleteCallFinishes ==
    (/\ phase = "loaded" /\ lastCall # None
     /\ \A a \in Processed : \A i \in 0 .. Size(a) - 1 :
          Target(RelasOf(a)[i + 1], lastCall.libs, lastCall.closure) # None)
      => \A a \in Processed : relocation[a].stage = "Finish"

(* The RelocateError of a failed finish names every symbol that a         *)
(* relocate pass failed to resolve and that is still unresolved, in       *)
(* either array, and nothing else (not_relocated).  An array no pass has  *)
(* walked yet (finish before relocate) has all bits set and contributes   *)
(* no name.                                                                *)
ErrorListsUnresolved ==
    phase = "unresolved" =>
      errNames =
        UNION {{RelasOf(a)[i + 1].sym :
                  i \in {j \in 0 .. Size(a) - 1 : relocation[a].got[j] = None}} :
               a \in {b \in Processed : relocation[b].stage # "Init"}}
        \ {NoSym}

\* The arguments of a relocate call, and what it resolves array a to.
CallArgs == [libs : LibSeqs, closure : Closures]
CallOutcome(a, c) == [i \in 0 .. Size(a) - 1 |-> Resolve(a, c.libs, c.closure)[i].w]

Abstract == INSTANCE RelocationAbstract
              WITH walk <- Processed,
                   word <- [a \in Arrays |-> relocation[a].got],
                   open <- (phase = "loaded"),
                   Calls <- CallArgs,
                   Outcome <- CallOutcome

(* The engine implements the write-once promise of spec.md 4.6: across   *)
(* any number of relocate calls with changing dependencies and finders,  *)
(* a call writes only still-unwritten words of the arrays it walks, each  *)
(* with what some relocate arguments resolve it to; it never rewrites a  *)
(* written word, never touches .rela.plt under lazy binding, and nothing *)
(* is written once finish has run.  (That a call writes every word it    *)
(* resolves is CompleteCallFinishes.)  The bitmap, the stages and the     *)
(* BitMapIterator of ElfRelaArray::relocate are the hidden mechanism.    *)
RelocationRefinement == Abstract!ASpec

\* The log without the RELRO call.
Lifecycle == SelectSeq(log, LAMBDA c : c.fn # "relro")

(* Constructors and destructors: DT_INIT then DT_INIT_ARRAY in order, each *)
(* once, and destructors only after them, DT_FINI first and then          *)
(* DT_FINI_ARRAY in declaration order, each once, exactly when the last   *)
(* handle of the relocated image is dropped (finish, Dylib::drop).        *)
LifecycleOrder ==
    LET ctors == (IF HasInit THEN <<"init">> ELSE <<>>)
                   \o [k \in 1 .. InitArrayLen |-> "init_array"]
        dtors == (IF HasFini THEN <<"fini">> ELSE <<>>)
                   \o [k \in 1 .. FiniArrayLen |-> "fini_array"]
        order == [i \in 1 .. Len(Lifecycle) |-> Lifecycle[i].fn]
        arrayPos == SelectSeq(Lifecycle, LAMBDA c : c.fn # "init" /\ c.fn # "fini")
    IN /\ IsPrefix(order, ctors \o dtors)
       /\ \A i \in 1 .. Len(arrayPos) - 1 :
            arrayPos[i].fn = arrayPos[i + 1].fn => arrayPos[i].k < arrayPos[i + 1].k
       /\ phase = "dropped" <=> Len(order) = Len(ctors \o dtors)

(* An IFUNC resolver whose result became an entry's word is the last one  *)
(* run for that entry: across any number of relocate calls, a bound       *)
(* entry is never handled again, so its resolver (which may have side     *)
(* effects) never runs twice.  This rests on the Relocating pass visiting *)
(* only cleared bits (ElfRelaArray::relocate, BitMapIterator).            *)
IfuncBoundOnce ==
    \A a \in Arrays : LET c == relocation[a].calls IN
      \A p, q \in DOMAIN c : p < q /\ c[p].idx = c[q].idx => ~c[p].used

(* Spec 4.6/5.x: a finished (relocated) image has every walked entry      *)
(* resolved, i.e. is_finished is the conjunction over both arrays.        *)
FinishedImpliesResolved ==
    phase \in {"relocated", "dropped"} =>
      \A a \in Processed : \A i \in 0 .. Size(a) - 1 :
        relocation[a].got[i] # None

(* Spec 5: init and fini each run exactly once: once a constructor has    *)
(* run, the image is owned by a RelocatedDylib whose drop runs fini.      *)
InitImpliesFiniOwner ==
    (\E i \in 1 .. Len(log) : log[i].fn \in {"init", "init_array"})
      => phase \in {"relocated", "dropped"}

(* Spec 4.6: symbol resolution order is (1) the image's own definition,   *)
(* (2) the dependencies, (3) the fallback resolver: an entry whose symbol *)
(* the image defines is bound to the image.                               *)
OwnDefinitionFirst ==
    \A a \in Arrays : \A i \in 0 .. Size(a) - 1 :
      LET e == RelasOf(a)[i + 1] IN
      (e.sym \in OwnDefs /\ relocation[a].got[i] # None)
        => relocation[a].got[i] = "self"

(* Spec 7: a failed finish returns a RelocateError (errors are returned,  *)
(* panics are reserved for internal invariant violations).                *)
FinishNeverPanics == phase # "panicked"

=============================================================================
