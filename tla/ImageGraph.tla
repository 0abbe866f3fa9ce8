----------------------------- MODULE ImageGraph -----------------------------
(***************************************************************************)
(* Several images and the reference counts that keep them alive           *)
(* (src/src/lib.rs, src/src/relocation.rs).  A RelocatedDylib is an       *)
(* Arc<Dylib>; relocate(libs) clones every Arc of libs into the image's   *)
(* dep_libs (extend_from_slice), finish moves dep_libs into the new Dylib *)
(* or, on Err, drops the ElfDylib and with it dep_libs; dropping the last *)
(* Arc runs Dylib::drop (fini, then fini_array: one "fini" event here)    *)
(* and then drops the fields in declaration order, dep_libs in element    *)
(* order, which may free dependencies in turn.                            *)
(*                                                                         *)
(* The user owns `handles[i]` clones of image i's RelocatedDylib.  rc[i]  *)
(* is the Arc's strong count.                                              *)
(***************************************************************************)
EXTENDS Naturals, Sequences, SequencesExt

CONSTANTS
    Images,      \* the shared objects the program loads
    MaxHandles,  \* bound on the user's clones of one RelocatedDylib
    MaxDeps      \* bound on the length of one image's dep_libs

VARIABLES
    st,       \* "unloaded", "loaded" (ElfDylib), "relocated" (Arc alive),
              \* "freed" (Dylib dropped), "discarded" (ElfDylib dropped)
    deps,     \* dep_libs, in order, with repetitions
    rc,       \* Arc strong count of each relocated image
    handles,  \* the user's RelocatedDylib clones
    log       \* history: the images whose Dylib::drop ran, in order

vars == <<st, deps, rc, handles, log>>

-----------------------------------------------------------------------------
(* Dropping Arcs.  h is [st, rc, log]; Release drops one Arc of image i.  *)

RECURSIVE Release(_, _), ReleaseAll(_, _)

\* Mutant: the last reference is taken for one more than it is.
ReleaseOffByOne(h, i) ==
    IF h.rc[i] > 0 THEN [h EXCEPT !.rc[i] = @ - 1]
    ELSE ReleaseAll([h EXCEPT !.rc[i] = 0, !.st[i] = "freed",
                              !.log = Append(@, i)],
                    deps[i])

\* Mutant: the dependencies are released before Dylib::drop runs fini.
ReleaseDepsFirst(h, i) ==
    IF h.rc[i] > 1 THEN [h EXCEPT !.rc[i] = @ - 1]
    ELSE LET h1 == ReleaseAll([h EXCEPT !.rc[i] = 0, !.st[i] = "freed"], deps[i])
         IN [h1 EXCEPT !.log = Append(@, i)]

\* Arc::drop: the last strong reference runs Dylib::drop (fini, fini_array)
\* and then the field drops, dep_libs among them.
Release(h, i) ==
    IF h.rc[i] > 1 THEN [h EXCEPT !.rc[i] = @ - 1]
    ELSE ReleaseAll([h EXCEPT !.rc[i] = 0, !.st[i] = "freed",
                              !.log = Append(@, i)],
                    deps[i])

\* Dropping a Vec / Box<[RelocatedDylib]>: its elements in order.
ReleaseAll(h, seq) ==
    IF seq = <<>> THEN h ELSE ReleaseAll(Release(h, Head(seq)), Tail(seq))

\* Apply a cascade result to the state.
Commit(h) == st' = h.st /\ rc' = h.rc /\ log' = h.log

-----------------------------------------------------------------------------

Init ==
    /\ st = [i \in Images |-> "unloaded"]
    /\ deps = [i \in Images |-> <<>>]
    /\ rc = [i \in Images |-> 0]
    /\ handles = [i \in Images |-> 0]
    /\ log = <<>>

\* Loader::load_dylib: a new ElfDylib with empty dep_libs.
Load(i) ==
    /\ st[i] = "unloaded"
    /\ st' = [st EXCEPT ![i] = "loaded"]
    /\ UNCHANGED <<deps, rc, handles, log>>

\* Dylib::from_raw: an image the program did not load (no fini, no
\* fini_array, empty dep_libs), wrapped by the user in a RelocatedDylib.
FromRaw(i) ==
    /\ st[i] = "unloaded"
    /\ st' = [st EXCEPT ![i] = "relocated"]
    /\ rc' = [rc EXCEPT ![i] = 1]
    /\ handles' = [handles EXCEPT ![i] = 1]
    /\ UNCHANGED <<deps, log>>

\* Mutant: dep_libs keeps the user's RelocatedDylibs without cloning them.
RelocateNoClone(i, libs) ==
    /\ st[i] = "loaded"
    /\ \A k \in DOMAIN libs : handles[libs[k]] > 0
    /\ Len(deps[i]) + Len(libs) =< MaxDeps
    /\ deps' = [deps EXCEPT ![i] = @ \o libs]
    /\ UNCHANGED <<st, rc, handles, log>>

\* relocate(libs) / relocate_with(libs, f): dep_libs.extend_from_slice(libs)
\* clones each Arc the user passes.
Relocate(i, libs) ==
    /\ st[i] = "loaded"
    /\ \A k \in DOMAIN libs : handles[libs[k]] > 0
    /\ Len(deps[i]) + Len(libs) =< MaxDeps
    /\ deps' = [deps EXCEPT ![i] = @ \o libs]
    /\ rc' = [l \in Images |-> rc[l] + Len(SelectSeq(libs, LAMBDA x : x = l))]
    /\ UNCHANGED <<st, handles, log>>

\* finish returns Ok: Arc::new(RelocatedInner { dep_libs, .. }).
FinishOk(i) ==
    /\ st[i] = "loaded"
    /\ st' = [st EXCEPT ![i] = "relocated"]
    /\ rc' = [rc EXCEPT ![i] = 1]
    /\ handles' = [handles EXCEPT ![i] = 1]
    /\ UNCHANGED <<deps, log>>

\* Mutant: the dropped ElfDylib does not release its dep_libs.
DropUnrelocatedLeak(i) ==
    /\ st[i] = "loaded"
    /\ st' = [st EXCEPT ![i] = "discarded"]
    /\ UNCHANGED <<deps, rc, handles, log>>

\* finish returns Err (unresolved symbols, RELRO failure), or the user drops
\* the ElfDylib: no fini runs, and dep_libs is dropped with it.
DropUnrelocated(i) ==
    /\ st[i] = "loaded"
    /\ Commit(ReleaseAll([st |-> [st EXCEPT ![i] = "discarded"], rc |-> rc, log |-> log],
                          deps[i]))
    /\ UNCHANGED <<deps, handles>>

\* RelocatedDylib::clone.
CloneHandle(i) ==
    /\ handles[i] > 0 /\ handles[i] < MaxHandles
    /\ handles' = [handles EXCEPT ![i] = @ + 1]
    /\ rc' = [rc EXCEPT ![i] = @ + 1]
    /\ UNCHANGED <<st, deps, log>>

\* The user drops one RelocatedDylib.
DropHandle(i) ==
    /\ handles[i] > 0
    /\ handles' = [handles EXCEPT ![i] = @ - 1]
    /\ Commit(Release([st |-> st, rc |-> rc, log |-> log], i))
    /\ UNCHANGED deps

\* The libs argument: relocated images the user holds, in any order.
LibSeqs == UNION {SetToSeqs(S) : S \in SUBSET Images} \ {<<>>}

Next ==
    \E i \in Images :
        \/ Load(i)
        \/ FromRaw(i)
        \/ \E libs \in LibSeqs : Relocate(i, libs)
        \/ FinishOk(i)
        \/ DropUnrelocated(i)
        \/ CloneHandle(i)
        \/ DropHandle(i)

Spec == Init /\ [][Next]_vars

-----------------------------------------------------------------------------

TypeOK ==
    /\ st \in [Images -> {"unloaded", "loaded", "relocated", "freed", "discarded"}]
    /\ deps \in [Images -> Seq(Images)]
    /\ handles \in [Images -> 0 .. MaxHandles]
    /\ log \in Seq(Images)
    \* an Arc has a strong count exactly while its Dylib is alive
    /\ rc \in [Images -> Nat]
    /\ \A i \in Images : rc[i] > 0 <=> st[i] = "relocated"

\* The image a holder depends on.
DependsOn(i, j) == \E k \in DOMAIN deps[i] : deps[i][k] = j

(* No use after free: while an image, relocated or not, is alive, every   *)
(* image in its dep_libs is alive, whatever order the user drops handles  *)
(* and images in (Arc clones made by relocate, released by Dylib field    *)
(* drops and by the drop of an unrelocated ElfDylib).                      *)
DepsOutliveDependants ==
    \A i, j \in Images :
        st[i] \in {"loaded", "relocated"} /\ DependsOn(i, j) => st[j] = "relocated"

(* Destructors run dependants first: an image's fini (Dylib::drop) runs   *)
(* before the fini of every image in its dep_libs, and no image's fini    *)
(* runs twice, however drops cascade through shared dependencies.          *)
FiniOrder ==
    /\ \A p, q \in DOMAIN log : DependsOn(log[p], log[q]) => p < q
    /\ \A p, q \in DOMAIN log : log[p] = log[q] => p = q

(* Nothing leaks: once the user holds no RelocatedDylib and no ElfDylib   *)
(* is left, every relocated image has been dropped and its fini has run   *)
(* (the dep_libs of failed or discarded images are released too).         *)
NoLeak ==
    (\A i \in Images : handles[i] = 0 /\ st[i] # "loaded")
        => \A i \in Images : st[i] # "relocated"

=============================================================================
