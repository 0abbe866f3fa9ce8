---------------------------- MODULE DynamicParse ----------------------------
(***************************************************************************)
(* The dynamic-section parser of src/src/dynamic.rs: ElfRawDynamic::new    *)
(* walks the Dyn entries at dynamic_ptr up to the first DT_NULL, keeping  *)
(* one Option per known tag and the list of DT_NEEDED values, and fails   *)
(* when a required tag is missing; ElfRawDynamic::finish(base) turns the  *)
(* offsets into addresses and the byte sizes into element counts.         *)
(*                                                                         *)
(* A Dyn entry is [tag, val] (d_tag, d_un).  Tags keep their DT_* names;  *)
(* "DT_OTHER" stands for every tag the match ignores.  Addresses and      *)
(* sizes are naturals.  An ElfDynamic slice is [addr, len].               *)
(***************************************************************************)
EXTENDS Naturals, Sequences, SequencesExt

CONSTANTS
    Base,       \* the load base passed to finish
    RelaSize,   \* size_of::<Rela>()
    UsizeSize,  \* size_of::<usize>()
    Garbage,    \* the values unwrap_unchecked may produce on None
    Tables,     \* the dynamic tables PT_DYNAMIC may point at
    None,
    NoArray

\* The tags with an Option field in ElfRawDynamic.
FieldTags ==
    {"DT_GNU_HASH", "DT_SYMTAB", "DT_STRTAB", "DT_STRSZ", "DT_PLTRELSZ",
     "DT_JMPREL", "DT_RELA", "DT_RELASZ", "DT_INIT", "DT_FINI",
     "DT_INIT_ARRAY", "DT_INIT_ARRAYSZ", "DT_FINI_ARRAY", "DT_FINI_ARRAYSZ",
     "DT_VERSYM", "DT_VERNEED", "DT_VERNEEDNUM", "DT_VERDEF", "DT_VERDEFNUM"}

Tags == FieldTags \cup {"DT_NEEDED", "DT_NULL", "DT_OTHER"}

\* The required tags, in the order new() checks them.
Required == <<"DT_GNU_HASH", "DT_SYMTAB", "DT_STRTAB", "DT_STRSZ">>

Dyn == [tag : Tags, val : Nat]

\* A dynamic table as the linker emits it: it holds a DT_NULL.
IsTable(tbl) == tbl \in Seq(Dyn) /\ \E i \in DOMAIN tbl : tbl[i].tag = "DT_NULL"

ASSUME /\ None \notin Nat /\ Garbage \subseteq Nat /\ Garbage # {}
       /\ \A tbl \in Tables : IsTable(tbl)

\* The locals of new() before the loop: every Option None, no needed libs.
EmptyRaw == [fields |-> [t \in FieldTags |-> None], needed |-> <<>>]

RECURSIVE Walk(_, _, _)

\* Mutant: a repeated tag keeps its first value.
WalkFirstWins(tbl, i, raw) ==
    LET d == tbl[i] IN
    IF d.tag = "DT_NULL" THEN raw
    ELSE Walk(tbl, i + 1,
              CASE d.tag = "DT_NEEDED" -> [raw EXCEPT !.needed = Append(@, d.val)]
                [] d.tag \in FieldTags /\ raw.fields[d.tag] = None ->
                       [raw EXCEPT !.fields[d.tag] = d.val]
                [] OTHER -> raw)

\* The loop of new(): entry i updates its field (a later entry of the same
\* tag overwrites an earlier one) or pushes a needed lib; DT_NULL breaks.
Walk(tbl, i, raw) ==
    LET d == tbl[i] IN
    IF d.tag = "DT_NULL" THEN raw
    ELSE Walk(tbl, i + 1,
              CASE d.tag = "DT_NEEDED" -> [raw EXCEPT !.needed = Append(@, d.val)]
                [] d.tag \in FieldTags -> [raw EXCEPT !.fields[d.tag] = d.val]
                [] OTHER -> raw)

\* Mutant: the required tags are not checked.
NewNoCheck(tbl) == [ok |-> TRUE, raw |-> Walk(tbl, 1, EmptyRaw)]

\* ElfRawDynamic::new: the walk, then ok_or on the required tags in order;
\* the first missing one is the error.
New(tbl) ==
    LET raw == Walk(tbl, 1, EmptyRaw)
        missing == SelectSeq(Required, LAMBDA t : raw.fields[t] = None)
    IN IF missing = <<>> THEN [ok |-> TRUE, raw |-> raw]
       ELSE [ok |-> FALSE, err |-> Head(missing)]

(***************************************************************************)
(* finish(base).  unwrap_unchecked on a None size is undefined behaviour: *)
(* the build reads whatever the register holds, so the size is any of     *)
(* Garbage.  `g` is the choice made for every unwrap_unchecked: a         *)
(* function from the size tags to the value used when the tag is absent. *)
(***************************************************************************)
SizeTags == {"DT_PLTRELSZ", "DT_RELASZ", "DT_INIT_ARRAYSZ",
             "DT_FINI_ARRAYSZ", "DT_VERNEEDNUM", "DT_VERDEFNUM"}

\* The offset/size pairs finish reads together.
SizeOf == [t \in {"DT_JMPREL", "DT_RELA", "DT_INIT_ARRAY", "DT_FINI_ARRAY",
                  "DT_VERNEED", "DT_VERDEF"} |->
              CASE t = "DT_JMPREL" -> "DT_PLTRELSZ"
                [] t = "DT_RELA" -> "DT_RELASZ"
                [] t = "DT_INIT_ARRAY" -> "DT_INIT_ARRAYSZ"
                [] t = "DT_FINI_ARRAY" -> "DT_FINI_ARRAYSZ"
                [] t = "DT_VERNEED" -> "DT_VERNEEDNUM"
                [] t = "DT_VERDEF" -> "DT_VERDEFNUM"]

\* unwrap_unchecked of size tag s, with g the value read on None.
Unchecked(raw, s, g) == IF raw.fields[s] = None THEN g[s] ELSE raw.fields[s]

\* off + base when the offset tag is present (Option::map), else None.
Addr(raw, t) == IF raw.fields[t] = None THEN None ELSE raw.fields[t] + Base

\* Mutant: every slice is counted in words, whatever its element type.
SliceUsize(raw, t, elem, g) ==
    IF raw.fields[t] = None THEN NoArray
    ELSE [addr |-> raw.fields[t] + Base,
          len |-> Unchecked(raw, SizeOf[t], g) \div UsizeSize]

\* from_raw_parts(base + off, size / elem): a slice, or NoArray for None.
Slice(raw, t, elem, g) ==
    IF raw.fields[t] = None THEN NoArray
    ELSE [addr |-> raw.fields[t] + Base,
          len |-> Unchecked(raw, SizeOf[t], g) \div elem]

\* (off + base, num) of verneed / verdef.
Pair(raw, t, g) ==
    IF raw.fields[t] = None THEN NoArray
    ELSE [addr |-> raw.fields[t] + Base, len |-> Unchecked(raw, SizeOf[t], g)]

\* ElfRawDynamic::finish: the ElfDynamic it returns.
Finish(raw, g) ==
    [hashtab |-> raw.fields["DT_GNU_HASH"] + Base,
     symtab |-> raw.fields["DT_SYMTAB"] + Base,
     strtab |-> raw.fields["DT_STRTAB"] + Base,
     strtab_size |-> raw.fields["DT_STRSZ"],
     init_fn |-> Addr(raw, "DT_INIT"),
     init_array_fn |-> Slice(raw, "DT_INIT_ARRAY", UsizeSize, g),
     fini_fn |-> Addr(raw, "DT_FINI"),
     fini_array_fn |-> Slice(raw, "DT_FINI_ARRAY", UsizeSize, g),
     pltrel |-> Slice(raw, "DT_JMPREL", RelaSize, g),
     dynrel |-> Slice(raw, "DT_RELA", RelaSize, g),
     needed_libs |-> raw.needed,
     version_idx |-> Addr(raw, "DT_VERSYM"),
     verneed |-> Pair(raw, "DT_VERNEED", g),
     verdef |-> Pair(raw, "DT_VERDEF", g)]

\* finish unwraps a None size: an offset tag present without its size.
ReadsAbsentSize(raw) ==
    \E t \in DOMAIN SizeOf : raw.fields[t] # None /\ raw.fields[SizeOf[t]] = None

-----------------------------------------------------------------------------
(* The parser as a state machine: the loader builds the raw dynamic from   *)
(* the table (new) and, when that succeeds, folds it to absolute addresses *)
(* (finish) once the base is known.                                        *)

VARIABLES
    table,   \* the Dyn entries at dynamic_ptr
    parsed,  \* the Result of ElfRawDynamic::new, or None before the call
    dyn      \* the ElfDynamic of finish, or None before the call

vars == <<table, parsed, dyn>>

Init == table \in Tables /\ parsed = None /\ dyn = None

ParseDynamic ==
    /\ parsed = None
    /\ parsed' = New(table)
    /\ UNCHANGED <<table, dyn>>

FinishDynamic ==
    /\ parsed # None /\ parsed.ok /\ dyn = None
    /\ \E g \in [SizeTags -> Garbage] : dyn' = Finish(parsed.raw, g)
    /\ UNCHANGED <<table, parsed>>

Next == ParseDynamic \/ FinishDynamic

Spec == Init /\ [][Next]_vars

-----------------------------------------------------------------------------
(* Reference: what the table declares, read off the entries before the    *)
(* first DT_NULL without a loop.                                           *)

Live(tbl) == SubSeq(tbl, 1, SelectInSeq(tbl, LAMBDA d : d.tag = "DT_NULL") - 1)

\* The value of the last live entry with tag t, or None.
Declared(tbl, t) ==
    LET k == SelectLastInSeq(Live(tbl), LAMBDA d : d.tag = t)
    IN IF k = 0 THEN None ELSE Live(tbl)[k].val

RefParse(tbl) ==
    LET missing == {i \in DOMAIN Required : Declared(tbl, Required[i]) = None}
        needed == SelectSeq(Live(tbl), LAMBDA d : d.tag = "DT_NEEDED")
    IN IF missing = {}
       THEN [ok |-> TRUE,
             raw |-> [fields |-> [t \in FieldTags |-> Declared(tbl, t)],
                      needed |-> [i \in DOMAIN needed |-> needed[i].val]]]
       ELSE [ok |-> FALSE,
             err |-> Required[CHOOSE i \in missing : \A j \in missing : i =< j]]

\* The slice the table declares for offset tag t and size tag s.
RefArray(tbl, t, s, elem) ==
    IF Declared(tbl, t) = None THEN NoArray
    ELSE [addr |-> Base + Declared(tbl, t), len |-> Declared(tbl, s) \div elem]

-----------------------------------------------------------------------------

TypeOK ==
    /\ IsTable(table)
    /\ parsed = None \/ parsed.ok \in BOOLEAN
    \* hash_off, symtab_off, strtab_off, strtab_size are usize, not Option
    /\ parsed # None /\ parsed.ok =>
           \A i \in DOMAIN Required : parsed.raw.fields[Required[i]] \in Nat
    /\ dyn # None => parsed # None /\ parsed.ok

\* new() is the table's meaning: it succeeds exactly when every required
\* tag is declared before the first DT_NULL, reports the first missing one
\* otherwise, and keeps the last live value of every tag and every live
\* DT_NEEDED in order (the walk of ElfRawDynamic::new).
ParseMatchesReference == parsed # None => parsed = RefParse(table)

\* The relocation, init and fini arrays that finish hands to the relocation
\* engine and to finalisation span exactly the entries the table declares,
\* whenever every offset tag comes with its size tag (ElfRawDynamic::finish).
ArraysMatchDeclared ==
    dyn # None /\ ~ReadsAbsentSize(parsed.raw) =>
        /\ dyn.pltrel = RefArray(table, "DT_JMPREL", "DT_PLTRELSZ", RelaSize)
        /\ dyn.dynrel = RefArray(table, "DT_RELA", "DT_RELASZ", RelaSize)
        /\ dyn.init_array_fn = RefArray(table, "DT_INIT_ARRAY", "DT_INIT_ARRAYSZ", UsizeSize)
        /\ dyn.fini_array_fn = RefArray(table, "DT_FINI_ARRAY", "DT_FINI_ARRAYSZ", UsizeSize)

\* spec.md 3 lists JMPREL/PLTRELSZ, RELA/RELASZ, INIT_ARRAY/SZ, ... as
\* pairs: new() should accept only tables whose offsets come with their
\* sizes, so that finish never unwraps an absent size
\* (unwrap_unchecked in ElfRawDynamic::finish).
FinishReadsDeclaredSizes == dyn # None => ~ReadsAbsentSize(parsed.raw)

=============================================================================
