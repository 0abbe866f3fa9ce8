--------------------------- MODULE MCDynamicParse ---------------------------
(***************************************************************************)
(* Dynamic tables for DynamicParse: the four required entries (any subset *)
(* of them, in order) followed by up to three further entries and the     *)
(* terminating DT_NULL.  The further entries repeat a required tag with a *)
(* new value, name two needed libs, declare relocation and init arrays    *)
(* (a RELASZ that is not a multiple of the entry size included), an       *)
(* ignored tag, and an early DT_NULL that hides what follows it.          *)
(***************************************************************************)
EXTENDS DynamicParse

E(t, v) == [tag |-> t, val |-> v]

MCRequired == <<E("DT_GNU_HASH", 8), E("DT_SYMTAB", 16),
                E("DT_STRTAB", 24), E("DT_STRSZ", 10)>>

MCExtras == {E("DT_NEEDED", 1), E("DT_NEEDED", 2), E("DT_SYMTAB", 40),
             E("DT_JMPREL", 64), E("DT_PLTRELSZ", 48), E("DT_RELA", 96),
             E("DT_RELASZ", 30), E("DT_INIT_ARRAY", 128),
             E("DT_INIT_ARRAYSZ", 16), E("DT_OTHER", 5), E("DT_NULL", 0)}

MCTables ==
    {SelectSeq(MCRequired, LAMBDA d : d.tag \in m) \o s \o <<E("DT_NULL", 0)>> :
        m \in SUBSET {"DT_GNU_HASH", "DT_SYMTAB", "DT_STRTAB", "DT_STRSZ"},
        s \in SeqOf(MCExtras, 3)}

=============================================================================
