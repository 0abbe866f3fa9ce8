# TLA+ models of elf_loader

TLA+ models of the `elf_loader` library and its `mini-loader` bootstrap. The
models are checked with TLC. Every definition is written from the source
under `src/`. `PROJECT.json` maps each definition to the lines it models.

## 1. Inventory

### Components, state and operations

| Component | Source | State it keeps | Operations that change state |
|---|---|---|---|
| Relocation bitmap | `src/src/relocation.rs` 345–456 | `BitMap.bitmap: Vec<u32>` (bit set = entry relocated); `BitMapIterator { cur_bit, index }` | `BitMap::new/set/clear`, `BitMapIterator::new/next` |
| Relocation engine | `src/src/relocation.rs` 28–343, 377–417 | per array (`pltrel`, `dynrel`): `RelocateState { relocated, stage ∈ Init/Relocating/Finish }`; the relocated words in memory; `ElfDylib.dep_libs`, `closures`, `lazy` | `relocate`, `relocate_with` (`relocate_impl`), `ElfRelaArray::relocate` (Init pass, Relocating pass, `deal_fail`), `is_finished`, `not_relocated` |
| Finalisation and relocated image | `src/src/relocation.rs` 213–261, `src/src/lib.rs` 198–437 | the `ElfDylib` is moved into an `Arc<Dylib>` (`RelocatedDylib`); `user_data`; `dep_libs` as Arcs | `finish` (init, init_array, RELRO mprotect, user_data pushes), `Dylib::drop` (fini, fini_array), `get`/`get_version` (read-only) |
| Arch constants | `src/src/arch/riscv64.rs` | constants only | none (`REL_GOT = u32::MAX` on riscv64 never matches) |
| Dynamic parser | `src/src/dynamic.rs` | the `ElfRawDynamic` built from the DT_* walk | `ElfRawDynamic::new` (walk to DT_NULL, required-tag errors), `finish(base)` (fold offsets to addresses, bytes to counts) |
| ELF object source | `src/src/object.rs` | a byte slice or a `File` | `read`, `transport`, `file_name` (I/O only) |
| Bootstrap (`mini-loader`) | `src/mini-loader/src/main.rs` | the initial process stack (argc, argv, envp, auxv), the loader's own relocated words, the heap | `rust_main`: parse the stack, walk its own dynamic table, compute its base, self-relocate, initialise the heap, load the target and its interpreter, rewrite auxv, shift argv, `trampoline` |
| Loader, segments, symbol index, versions, mmap | `loader.rs`, `segment.rs`, `symbol.rs`, `version.rs`, `mmap.rs` | — | These files are not among the sources available here. They are known only from `spec.md`. |

### How the components interact

The user builds a `Loader` over an `ElfObject` and calls `load_dylib`. The
loader reads the header and the program headers. The segment manager maps the
segments. The dynamic parser decodes PT_DYNAMIC. `ElfRelocation::new` wraps
`.rela.plt` and `.rela.dyn` with all-ones bitmaps. The result is an
unrelocated `ElfDylib`.

The user then calls `relocate(libs)` or `relocate_with(libs, finder)` any
number of times. The argument `libs` holds `RelocatedDylib`s that are already
finished. Each call walks the arrays once:
- the Init pass walks every entry;
- the Relocating pass walks only the entries whose bit is clear.

A handler resolves an entry's symbol in this order: the user's finder, then
the image's own definition, then the first dependency in `libs` that defines
the name. On failure the handler calls `deal_fail`. After the calls, `finish`
checks `is_finished` and runs the constructors. It applies RELRO and moves
the image into an `Arc`. Dependants keep their dependencies alive through
`dep_libs`. Dropping the last `Arc` runs `fini` and then `fini_array`.

The library runs on one thread. There is no concurrency inside it. What is
hard is the following:
- sequences of calls: repeated partial relocation against changing
  dependency sets;
- the bitmap iterator running while the handler mutates the same bitmap;
- unit and padding boundaries of the bitmap;
- partial failure of `finish` (RELRO after init);
- ordering: resolution order, init before RELRO, and fini order across
  dependent images.

The bootstrap runs once, in one address space. What is hard there is the
ordering around self-relocation, and off-by-one errors in the stack rewrite.

### What makes each component correct

- **Bitmap:** the iterator yields exactly the cleared bits below the array
  length. It yields each one once, in order, and never a padding bit.
- **Relocation engine:** each bit is set exactly when its word has been
  written. A stage is Finish exactly when every entry is written. A written
  word is never rewritten. A call that can resolve everything finishes every
  array. `is_finished` is the conjunction over both arrays. The error of a
  failed `finish` names exactly the unresolved symbols. Resolution follows the
  documented order.
- **Finalisation:** init and init_array run once and in order. RELRO is
  applied (spec §5 wants it before init). fini then fini_array run once, when
  the last handle drops. A failed `finish` leaves no constructor without its
  destructor.
- **Dynamic parser:** the result equals the reference reading of the tags up
  to DT_NULL. Missing required tags give the documented error. Each size
  becomes an element count.
- **Bootstrap:** every RELATIVE self-relocation writes base + addend. The
  rewritten auxv and argv describe the target. argc drops by one. AT_NULL
  and the environment survive the shift.
- **Image handles:** while an image lives, every image in its `dep_libs`
  lives. Fini runs once per image, a dependant's before its dependency's.
  Nothing is left alive once the user holds nothing.

The hazards, each tied to the line where it bites, are listed in
`PROJECT.json` under `"hazards"`.

## 2. Plan

Done:
1. **`BitMap`**: the bitmap and its iterator, checked against a reference
   by `MCBitMap`.
2. **`ElfRelocation`**: one image through relocate, finish and drop.
3. **`RelocationAbstract`**: the write-once promise of the relocation
   engine. `ElfRelocation` implements it, and the `relocation` run checks
   the refinement.
4. **`ImageGraph`**: several images sharing dependencies through `Arc`.
5. **`DynamicParse`**: `ElfRawDynamic::new` and `finish`.
6. **`Bootstrap`**: `rust_main` of the mini-loader.

7. **IFUNC resolver calls** in `ElfRelocation`: a call history per array,
   with `IfuncBoundOnce` checked by the relocation run.
8. **`Dylib::from_raw`** in `ImageGraph`, and the panic handler in
   `Bootstrap`.
9. **`ElfRelaArray::is_finished`** (`ArrayFinished`) in `ElfRelocation`.

Next:
- A violation run for the eager `.or()` at relocation.rs:99/137. The
  resolver of an IFUNC definition runs even when the finder answered, so it
  is called without its result being used. The spec's glossary says an
  IFUNC is invoked once, at relocation time. The call history already
  records this; only the run is missing.
- Providers without TLS (the `unwrap` panics at relocation.rs:160/163).

## 3. Modules and how they correspond to the code

### `BitMap.tla`
A bitmap is a sequence of units, and element k+1 is `bitmap[k]`. A unit is a
function `0..UnitBits-1 -> BOOLEAN`. The code's unit is a `u32`. The
algorithm does not depend on the width, so the models use `UnitBits = 2`.
With that width, arrays of 3–7 entries have several units and a partly used
last unit.

The operators:
- `New`, `Unit`, `UnitCount`, `Set`, `Clear` are the `BitMap` methods.
- `TrailingOnes` is `u32::trailing_ones`.
- `IterNew`/`IterNext` are `BitMapIterator::new/next`. `IterNext` is
  RECURSIVE over the code's `loop`, and returns `[it, found, idx]`.
- `IterPanics` is the out-of-bounds `unit(0)` on an empty bitmap.
- `Visit` is the full walk that `not_relocated` performs.

### `MCBitMap.tla`
Starts from `BitMap::new(size)` for every size in 0..7. Its actions are
`deal_fail`'s `clear` and the Relocating pass's `set`, on any entry. An empty
array has no operation, so the run sets `CHECK_DEADLOCK FALSE`.

### `ElfRelocation.tla`
State:
- `relocation[a] = [bm, stage, got, calls]` for each present array `a`.
  `RelocateState` is `bm` and `stage`. `got[i]` is the word of entry i,
  abstracted to the definition it points at: `"base"`, `"selfmod"`, `"self"`,
  `"closure"`, or a dependency. `None` means the word is not written yet.
  `calls` is the history of IFUNC resolver calls of the array's handlers:
  the entry, and whether its result was written (`IfuncCall`).
- `lazy`.
- `depLibs`.
- `phase`: who owns the image.
- `log`: a history of the constructor, RELRO and destructor calls.
- `errNames`: the names in the `RelocateError`.
- `lastCall`: a history of the latest relocate arguments.

Actions:
- `Relocate(libs, closure)` is the whole of `relocate_impl`. It walks the PLT
  array (unless `lazy`) and then the dynamic array, and it extends
  `dep_libs`. `closure = {}` is `relocate`. It and the other arguments are
  chosen with `\E`:
  - `libs`: any sequence of distinct dependencies;
  - `closure`: any name set from `Closures`.
- `ArrayRelocate` is `ElfRelaArray::relocate`. Its Init and Relocating passes
  are the RECURSIVE `InitLoop` and `RelocatingLoop`. `RelocatingLoop` drives
  `IterNext` on the bitmap that the handler (`Apply`, i.e. the handler plus
  `deal_fail`) mutates.
- `Finish` is `finish`. It has three outcomes:
  - `Err(not_relocated)`, or a panic when a present array is empty;
  - success, when there is no RELRO to apply or `lazy` is set;
  - with RELRO due, mprotect either succeeds or fails. The failure comes
    after the constructors have run.
- `Drop` is `Dylib::drop` of the last handle.
- `Discard` drops an unrelocated `ElfDylib`.

`IsFinished` is written as the code is: the dynrel result overwrites the
pltrel result.

A JUMP_SLOT, GOT or SYMBOLIC handler calls the resolver when the name is in
`Ifuncs` and `SymDef` finds a definition (`CallsIfunc`). This is `From<SymDef>`
at relocation.rs:16-26. `Option::or` evaluates its argument eagerly, so the
call happens even when the finder answered, and then its result is not used.
`Resolve` computes an array's words and resolver calls together, and
`CallHistory` appends them to `calls` when the handler runs.

Abstracted:
- addends and addresses;
- `write_val`'s target address;
- the `closures` vector that `relocate_with` keeps alive;
- the `user_data` pushes;
- what a resolver returns (a word is the definition it resolves to).

The model assumes every TLS provider has a module id (see the hazards).

### `MCElfRelocation.tla`
- The image defines `o`. `L1` defines `f`, `L2` defines `f` and `g`, and `m`
  is defined only by a finder.
- `.rela.plt` is `JUMP_SLOT f`, `JUMP_SLOT m`.
- `.rela.dyn` is `RELATIVE`, `SYMBOLIC o`, `GOT g`, `DTPMOD (r_sym 0)`,
  `DTPOFF f`. That is three 2-bit units, with one padding bit. The entries
  that can fail, `g` and `f`, sit in units 1 and 2.
- Finders: none, one resolving `m`, and one resolving `o`.
- `Ifuncs = {o, g}`: the image's own `o` is an IFUNC, so is `g` from `L2`.
  With the finder resolving `o`, the eager call is discarded. `g` can fail
  and be retried.
- `lazy` is either value.
- The image has RELRO, DT_INIT, a two-entry DT_INIT_ARRAY, DT_FINI and a
  two-entry DT_FINI_ARRAY.

These inputs make every path happen: partial failure in each array, a retry
that crosses units, the dynamic array finishing while the PLT array does not,
and each finish outcome. `MCPltEmpty` replaces `.rela.plt` by a present,
empty array.

### `RelocationAbstract.tla`
What the engine promises, without bitmaps or stages:
- `walk` is the set of arrays relocate walks.
- `word[a][i]` is the word of entry i, or `None`.
- `open` means the image is still an unrelocated `ElfDylib`.

`ARelocate(c)` writes exactly the unwritten words of the walked arrays with
what call `c` resolves them to, and never touches a written word. `AClose`
ends the image. In `ElfRelocation`, `Abstract == INSTANCE RelocationAbstract
WITH ...` maps:
- `walk` to `Processed`;
- `word` to the `got` words;
- `open` to `phase = "loaded"`;
- a call's outcome to `Resolve`.

`RelocationRefinement == Abstract!ASpec` is a PROPERTY of the relocation
run.

### `ImageGraph.tla`
Several images (`lib.rs` `Dylib`, `RelocatedDylib`; `relocation.rs`
`relocate_impl`, `finish`).

State:
- `st[i]`: unloaded, loaded (`ElfDylib`), relocated (the `Arc` is alive),
  freed, or discarded.
- `deps[i]`: `dep_libs` in order.
- `rc[i]`: the `Arc` strong count.
- `handles[i]`: the user's clones.
- `log`: the order in which `Dylib::drop` ran.

Actions:
- `Relocate` appends `libs` to `dep_libs` and counts one clone per element
  (`extend_from_slice`).
- `FinishOk` makes the `Arc` with one handle.
- `FromRaw` is `Dylib::from_raw`, wrapped by the user in a `RelocatedDylib`
  (its `inner` field is public). The image has no fini and empty `dep_libs`.
- `DropUnrelocated` is finish's `Err` or the user dropping the `ElfDylib`.
  It releases `dep_libs` and runs no fini.
- `CloneHandle` and `DropHandle` are the user's clones and drops.
- `Release` is the drop of one `Arc`. The last one runs `Dylib::drop` (fini
  and fini_array, one log event) and then drops the fields in declaration
  order, `dep_libs` element by element (`ReleaseAll`). It is mutually
  RECURSIVE, so a cascade through shared dependencies is one step, as it is
  one `drop` call in the code.

`Load` stands for `Loader::load_dylib`, which is not available; it is
`spec_modelled`.

### `DynamicParse.tla`
State:
- `table`: one `PT_DYNAMIC` table;
- `parsed`: the result of `ElfRawDynamic::new`;
- `dyn`: the result of `finish`.

Operators:
- `Walk` is the `loop` of `new`. Its cases: `DT_NEEDED` appends, a field tag
  overwrites its field, and `DT_NULL` stops.
- `New` adds the required-tag checks in the code's order (GNU_HASH, SYMTAB,
  STRTAB, STRSZ).
- `Finish` adds the base to every offset and divides each size by its
  element size (24 for `Rela`, 8 for `usize`).
- `unwrap_unchecked` on an absent size is undefined behaviour. It is a
  choice from `Garbage`.

The reference `RefParse` states the meaning with `SelectLastInSeq` over the
entries before the first `DT_NULL`.

### `MCDynamicParse.tla`
The tables are any subset of the four required entries, followed by up to
three entries drawn from eleven, and a final `DT_NULL`. The eleven include:
- `DT_NEEDED` twice;
- a second `DT_SYMTAB`, so a later duplicate overrides;
- `DT_JMPREL` with and without `DT_PLTRELSZ`;
- `DT_RELA` with a `DT_RELASZ` of 30, which is not a multiple of 24;
- `DT_INIT_ARRAY` with its size;
- an unknown tag;
- an inner `DT_NULL`, so the walk stops early.

### `Bootstrap.tla`
The process stack is a sequence of words: argc, argv, 0, envp, 0, auxv
pairs, AT_NULL. `mem` holds the loader's own relocated words.

Actions:
- `SelfRelocation`: lines 63-127.
  - It walks the stack to auxv, and walks the loader's dynamic table for
    `DT_RELA`/`DT_RELACOUNT`. If one is missing, the `unwrap` panics.
  - It computes the base from `AT_BASE`, or from the first `PT_DYNAMIC`
    phdr.
  - It writes base + addend at base + offset for the first `DT_RELACOUNT`
    entries, whatever their type.
- `LoadTarget`: the argc check and the `load_dylib(...).unwrap()` outcomes
  for the target and its `PT_INTERP`.
- `RewriteAuxv`: the in-place auxv rewrite.
- `Transfer`: the `core::ptr::copy` shift, argc - 1, and the jump.
- `Panic` is the panic handler (main.rs:33-44): it prints, then exits.

`kstack` keeps the kernel's stack for the properties.

### `MCBootstrap.tla`
- argv has 1, 2 or 3 words, and env has none or one.
- auxv comes in two forms:
  - the loader is started directly: `AT_BASE` is 0, and `AT_PHDR` gives the
    loader's own phdrs with `PT_DYNAMIC` third;
  - the loader is started as an interpreter: `AT_BASE` gives the base.
- There are three self dynamic tables:
  - RELA with RELACOUNT 2;
  - RELR only, with no DT_RELA;
  - RELACOUNT 3, which covers a GLOB_DAT entry.
- There are two targets: without and with `PT_INTERP`.

## 4. Runs

| Run | cfg | Expect | What it shows |
|---|---|---|---|
| bitmap_iterator | `MCBitMap.cfg` | pass | `IteratorVisitsCleared`: over every bitmap that `new`/`set`/`clear` reach for arrays of 0..7 entries, the iterator yields exactly the cleared entries, in order, and no padding bit (255 states). |
| relocation | `MCElfRelocation.cfg` | pass | Over any sequence of relocate calls with changing deps and finders, followed by finish and drop (1038 states). `BitmapTruthful`: bits agree with written words, and padding stays set. `FinishTruthful`: stage Finish iff every entry is written. `RelocationRefinement`: the engine implements `RelocationAbstract`: each call writes only unwritten words of the walked arrays, never rewrites a written one, and nothing is written after finish or drop. `CompleteCallFinishes`: a call that resolves everything finishes every walked array. `ErrorListsUnresolved`: the error names exactly the unresolved symbols. `LifecycleOrder`: init, init_array, fini, fini_array each run once, in that order. `IfuncBoundOnce`: once a resolver's result has been written, no later relocate calls that entry's resolver again. This is the retry walking only cleared bits. |
| finished_overwrite | `ElfRelocation_finished_overwrite.cfg` | violation | `FinishedImpliesResolved` fails. `relocate(<<L2>>)` leaves `JUMP_SLOT m` unresolved while `.rela.dyn` finishes, and `finish` succeeds anyway. |
| relro_failure | `ElfRelocation_relro_failure.cfg` | violation | `InitImpliesFiniOwner` fails. The RELRO mprotect fails after init, `finish` returns Err, and fini can never run. |
| resolution_order | `ElfRelocation_resolution_order.cfg` | violation | `OwnDefinitionFirst` fails. A finder resolving `o` overrides the image's own `o` (spec §4.6 puts the image's own definition first). |
| empty_plt | `ElfRelocation_empty_plt.cfg` | violation | `FinishNeverPanics` fails. A finish before relocation completes, with an empty `.rela.plt`, panics in `BitMapIterator::new`. |
| dynamic_parse | `MCDynamicParse.cfg` | pass | `ParseMatchesReference`: `new` gives the last value of each tag before the first `DT_NULL`, the needed libraries in order, or the first missing required tag's error. `ArraysMatchDeclared`: when the sizes are present, `finish` builds the declared arrays. `TypeOK`: a parsed table has its required fields, and only a parsed table is finished (49,744 states). |
| dynamic_unpaired_size | `DynamicParse_unpaired_size.cfg` | violation | `FinishReadsDeclaredSizes` fails. A table with an offset tag and no size tag (the trace: `DT_RELA` without `DT_RELASZ`) is accepted, and `finish` reads the absent size with `unwrap_unchecked`. |
| bootstrap | `MCBootstrap.cfg` | pass | `SelfRelocated`: the loader's words hold the real base plus the addend, whether it was started directly or as an interpreter. `HandOff`: the target gets argc - 1, argv without the loader, the same envp and a rewritten auxv ending in AT_NULL, and the jump goes to the interpreter when there is one (208 states). |
| bootstrap_relr | `Bootstrap_relr.cfg` | violation | `NoPanicBeforeSelfReloc` fails. A loader without `DT_RELA`/`DT_RELACOUNT` panics before relocating itself. |
| bootstrap_unknown_type | `Bootstrap_unknown_type.cfg` | violation | `UnknownSelfRelocNotApplied` fails. A GLOB_DAT entry among the first RELACOUNT entries is written as base + addend. |
| image_graph | `MCImageGraph.cfg` | pass | Three images relocate against each other while the user clones and drops handles in any order. `DepsOutliveDependants`: no live image has a freed dependency. `FiniOrder`: a dependant's fini runs before its dependency's, and each runs once. `NoLeak`: with no handle and no `ElfDylib` left, nothing is still alive. `TypeOK`: the strong count is positive exactly while the image is alive (4,754 states). |

Each property of a passing run has a mutant in `PROJECT.json`: a plausible
bug in the mapped code that TLC catches with that run's cfg.

### Bounds and why they are enough
- **`UnitBits = 2`.** With this width, 3–7 entries give 2–4 units, so a unit
  boundary, a padding bit and an empty bitmap all occur. The iterator's
  behaviour depends only on the position of bits relative to unit
  boundaries. 32 bits would need arrays of more than 32 entries to reach
  these cases.
- **Inputs of `ElfRelocation`.** Two dependencies make the order of `libs`
  matter. Three finders cover the resolution paths: none, a missing name, and
  a name that shadows the image's own definition. The state space is finite
  without counters. A relocate on finished arrays leaves the state unchanged,
  and `finish` and `drop` end the lifecycle.

- **`MCImageGraph`.** Three images allow a chain A -> B -> C, a diamond
  of shared dependencies, and two images holding the same dependency.
  With `MaxDeps = 2`, a dependency can appear twice in one `dep_libs`
  (relocate called twice with the same lib). With `MaxHandles = 2`, a user
  clone keeps an image alive after its dependant is gone.
- **`MCDynamicParse`.** Three optional entries are enough to place a
  duplicate, a missing size, or an inner `DT_NULL` before or after any
  other entry.

### Fairness
- **The library: no fairness.** It has no scheduler. `relocate`,
  `finish`, a clone and a drop are calls the user may or may not make, so
  no fairness is justified. "Every image is eventually freed" would hold
  only under an assumption about the user. `NoLeak` states the safety half
  instead: once the user has let go of everything, nothing is alive.
- **The mini-loader: none.** `rust_main` is straight-line code on the
  process's only thread. It has no waits, so every state of `Bootstrap`
  that is not final has an enabled step. A termination property would hold
  because of the model's shape, whatever the code does. The bootstrap
  cfgs turn off the deadlock check because `rust_main` really does stop:
  at the jump, at an exit, or at a panic.

## 5. Not modelled, and why
- **`loader.rs`, `segment.rs`, `symbol.rs`, `version.rs`, `mmap.rs`.** These
  files are not available. `ImageGraph`'s `Load` stands for `load_dylib`
  (`spec_modelled`). `ElfRelocation` abstracts the symbol lookup to `SymDef`:
  the image's own definition first, then the dependencies in order, with
  the first match winning. The GNU-hash bucket and chain walk of spec 4.5
  and the segment layout of spec 4.3 are not modelled. Nothing in the
  available code calls them except through this lookup, and only their
  spec text is known.
- **The mini-loader's file reading, `CStr`, `print_str` and the
  `trampoline` assembly.** These are I/O. `load_dylib` is an outcome:
  success with the target's phdrs and entry, or a panic.
- **`object.rs`.** It is I/O with no state machine. `ElfBinary::read`
  (object.rs:36) slices the byte buffer and panics on a short image. Spec
  4.2 says a short read fails with an error, and `ElfFile::read` returns
  one. The difference is listed as a hazard. The caller that would observe
  it is in `loader.rs`, which is not available.
- **`Error` and its `Display`, `UserData`.** These are formatting and opaque
  storage.
- **Word values (addends, `TLS_DTV_OFFSET`, addresses).** They are abstracted
  to the definition a word points at. No property here is about arithmetic.
  `Bootstrap` keeps base + addend, because its properties are about those
  values.
- **The 4 KiB bootstrap heap.** How much it allocates depends on `loader.rs`.
