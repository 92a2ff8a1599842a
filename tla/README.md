# TLA+ models of mold's Mach-O input files and symbol resolution

This directory holds formal models of `src/macho/input-files.cc`: how mold's
Mach-O port reads object files and dylibs, cuts sections into subsections,
and resolves global symbols across files in parallel. The models are
model-checked with TLC, and the main resolver invariants, and the absence
of common symbols after materialisation, are proved with TLAPS.

## 1. The system

`input-files.cc` implements the per-file half of the linker's front end.
Its parts, in the order a link uses them:

| Part | Code | What it does |
|---|---|---|
| Mach-O reader | `parse_sections`, `find_load_command` | Walks the load commands. Builds an `InputSection` per section, with an empty slot for `__LD,__compact_unwind` and debug sections. |
| Symbol-table builder | `parse_symbols` | Interns extern symbols (`get_symbol`) and creates local ones. A local `N_UNDF` is fatal. |
| Subsection splitter | `split_regular_sections`, `split_subsections_via_symbols`, `init_subsections`, the sort in `parse`, `fix_subsec_members`, `find_subsection` | Cuts every section into subsections: at symbol boundaries when the header has `MH_SUBSECTIONS_VIA_SYMBOLS`, and one per section otherwise. `__cstring` is cut per string. |
| Compact-unwind parser | `parse_compact_unwind`, `find_symbol` | Attaches unwind records to subsections. |
| LTO shim | bitcode branch of `parse`, `parse_lto_symbols` | Turns plugin symbol attributes into `MachSym`s. |
| Dylib/TBD ingester | `DylibFile::create`, `parse_dylib`, `read_trie`, `parse_tapi`, `find_external_lib` | Export and weak-export sets. Reexported libraries are opened recursively and merged in. |
| Global resolver | `get_rank`, `ObjectFile::resolve_symbols`, `DylibFile::resolve_symbols`, `mark_live_objects`, `clear_symbols` | Decides which file owns each symbol and which archive members are loaded. |
| Common materialisation | `convert_common_symbols`, `get_common_sec` | Gives each common symbol a `__common` subsection after resolution. |
| Duplicate check | `check_duplicate_symbols` | Reports strong definitions that lost. |
| Auxiliary extractors | `get_linker_options`, `is_objc_object`, `parse_data_in_code` | Read-only queries. |

How the parts interact:

- Parsing runs once per file, with files in parallel. The splitter produces
  `subsections` and `sym_to_subsec`. The resolver later dereferences
  `sym_to_subsec[i]` for every winning `N_SECT` definition.
- Resolution runs one thread per file. All threads share one `Symbol` record
  per name, and each update to a record is made under that record's mutex.
- The driver (not in `src/`; modelled from spec sections 2 and 4.7) runs
  resolution in this order:
  1. resolve every file;
  2. run `mark_live_objects` to a fixed point over a parallel work list,
     whose feeder enqueues each archive member whose `is_alive` exchange a
     thread wins;
  3. `clear_symbols` on the files still dead;
  4. resolve the live files again.

## 2. Modules

### `Resolver.tla`: the global resolver, modelled

**Constants.**

- Objects and dylibs, and symbol names.
- `Prio`, the file priorities.
- The creation flags: archive membership (`is_alive` false), stripped
  dylibs (`-dead_strip_dylibs`), hidden objects (`-hidden-l`) and weak
  dylibs (`-weak-l`).
- Each object's `MachSym` table: name, extern, type (undef, common, abs or
  sect), `N_WEAK_DEF`, `N_WEAK_REF` and private-extern.
- Each dylib's final export list with `is_weak_symbol`.

**State.**

- `sym`: the shared `Symbol` records, holding `file`, `scope`,
  `is_imported`, `is_weak`, `is_common`, and a `def` tag that stands for
  `subsec`/`value`.
- `alive`: the `is_alive` flags.
- `rpc` and `mpc`: each thread's loop index in `resolve_symbols` and in
  `mark_live_objects`.
- `queued`: how many times the feeder enqueued each object.
- `phase` and `cleared`: the driver's progress.

**Actions.** One step is one iteration of a loop body, taken under the
symbol's lock. This is the granularity at which threads interleave.

| Action | Code |
|---|---|
| `ResolveObjSym(f)` | one symbol of `ObjectFile::resolve_symbols`: the skip, `merge_scope`, the rank comparison and the winner's writes |
| `ResolveDylibSym(d)` | one symbol of `DylibFile::resolve_symbols` |
| `MarkLiveSym(o)` | one symbol of `mark_live_objects`, including the `is_alive.exchange` and the feeder |
| `ClearSymbols(f)` | `clear_symbols` for one dead file |
| `EndResolve1`, `EndMark`, `EndClear`, `EndResolve2` | the driver's barriers |

`GetRank` is `get_rank`'s table with `RankShift = 2^24`.

### `Splitter.tla`: the subsection splitter, modelled

**Inputs.** `Init` picks the object:

- a section table of headers: kind, address, size, `p2align`, and the bytes
  of `__cstring` with NUL as 0;
- a `MachSym` table;
- the `MH_SUBSECTIONS_VIA_SYMBOLS` flag.

One thread parses one object, so each outcome of `ObjectFile::parse` is one
step: `ParseViaSymbols`, `ParseCorrupt` (the `__cstring` Fatal) or
`ParseBySections`. Each step includes the trailing sort of `subsections`
and `fix_subsec_members`.

**How the code maps to operators.**

| Code | Operator |
|---|---|
| `parse_sections` slots | `Present` |
| region collection | `RawRegions` |
| the region of a section with no symbol, and the prepended gap | `FixRegions`, `Gap` |
| the alt-entry fix-up loop with its `r[i++]` | `PromoteAltEntries`, written as a recursive function: region k is promoted iff it collides with k-1 and k-1 was not promoted |
| the size-closing loop | `CloseSizes` |
| `add`, and `sym_to_subsec = subsections.back()` | `NewSubsec`, `BackAfter` |
| the `__cstring` loop, including `countr_zero` | `CStrStarts`, `CStrPieces`, `Ctz` |
| `init_subsections` | `SectionSubsecs`, `SectionSymToSubsec` |
| `find_subsection` (upper_bound, then the element before) | `FindSubsection` |
| `fix_subsec_members` | `FixSubsecMembers` |

**Representation.** A subsection pointer is the subsection's creation index,
0 is null, and `Dangling` (-1) is `subsections.back()` of an empty vector.
mold's `sort` helper is not in this repository; it wraps
`std::stable_sort`. `StableSort` models it at each call: the region sort
by offset (lines 212-214, mapped with `FixRegions`, whose alt-entry fix-up
depends on the order of equal keys), the section sort (`SplitOrder`) and
the subsection sort (`SortByAddr`).

### `Unwind.tla`: the compact-unwind parser, modelled

`parse_compact_unwind` runs at the end of `ObjectFile::parse`, on the
subsections the split has just produced. So `Unwind` extends `Splitter`,
and each parse outcome is `Splitter`'s step followed by
`CompactUnwind(subsections')` in the same step:
`UParseViaSymbols`, `UParseBySections` and `UParseCorrupt` (the
`__cstring` Fatal, where the unwind parser never runs).

**Inputs.** `UInit` adds to `Splitter`'s inputs the unwind entries (their
`code_start` and the words at the personality and LSDA fields) and the
section's relocations (`r_address`, `r_pcrel`, `r_length`, `r_type`,
`r_extern`, `r_symbolnum`). `code_len` and `encoding` are copied and never
read, so they are left out.

| Code | Operator |
|---|---|
| `find_symbol` | `FindSymbol`: the first extern `MachSym` whose value is the address |
| the relocation loop, with its `error()` and `Fatal` branches and the `find_subsection` calls | `RelocStep`, folded over the table by `ReadRelocs` |
| the personality of an extern relocation | `PersonalityOf` |
| the missing-`code_start` check | in `CompactUnwind` |
| the sort by `(input_addr, offset)` | `RecLess`, `SortRecords` |
| the association loop (`unwind_offset`, `nunwind`) | `RunStart`, `RunEnd`, `Associate` |

### `Dylib.tla`: the dylib and TBD ingester, partly modelled

`DylibFile::create` is recursive. The model keeps its call stack explicit:
a frame is a `DylibFile` of `ctx.dylib_pool` and the index of its reexport
loop. A file system, chosen by `Init` and never changed, says which paths
exist and what each holds: a binary dylib (load commands and an export
trie as a node table), a TBD stub (already parsed), or something else.

| Action | Code |
|---|---|
| `CreateTop` | the driver's `create()` of a command-line dylib: `Parse` (`parse_tapi`, or `parse_dylib` with `LoadCmd` and `ReadTrie`) |
| `OpenReexport` | one iteration of the reexport loop: `FindExternalLib` (syslibroot candidates, then the path), then a nested `create()` pushed on the stack |
| `Finish` | the end of a `create()`: `MergeChild` (`std::set::merge` of the child's exports and weak exports into the parent's) and the `syms` materialisation `SymsOf` |
| `AllCreated` | the driver moves on once every command-line dylib exists |

Names are short sequences of letters, so that `ReadTrie` can build them
and `std::set` can order them (`LexLess`). Not modelled: `parse_tbd` (the
YAML reader, outside this file), which is abstracted to the stub it
returns; and ULEB decoding, which is abstracted to the values it yields.

### `PostResolve.tla`: materialisation and the duplicate check, modelled

`PostResolve` extends `Resolver` with the driver's two phases after
resolution (spec section 4.7), each a parallel loop over the live objects.

| Action | Code |
|---|---|
| `ConvertCommon(o)` | the whole of `convert_common_symbols`: for each extern entry whose symbol `o` owns and that is still common, a new `__common` subsection (`ConvertLoop`, a fold over the entries that carries the names already converted, i.e. whose `is_common` the loop has cleared) and the symbol rewritten as a section definition (`ConvertedNames`) |
| `CheckDuplicates(o)` | the whole of `check_duplicate_symbols`: one report per strong entry (`StrongDefAt`) whose symbol another file owns |
| `EndCommon`, `EndDups` | the driver's barriers |

A file only writes the `Symbol` records it owns, so each call is one step.
A report is the triple (file, name, owner) instead of a message.

### `ResolutionSpec.tla`: what resolution promises

This is the abstract specification of the global resolver, with no threads
and no locks. It has three atomic steps:

1. `Round1`: every name goes to its best definer among all files.
2. `Mark`: the live set becomes the least set that contains the initially
   live files and is closed under "a live object needs the owner of this
   name" (`Closure`).
3. `Round2`: every name goes to its best live definer.

A rank is the pair `<<kind, priority>>` of the precedence table, compared
lexicographically. That is `get_rank`'s intent without its 24-bit shift.
`Resolver` defines the refinement mapping (`AbsStage`, `AbsLive`,
`AbsOwner`) and `Abs == INSTANCE ResolutionSpec WITH ...`:

- the abstract rounds happen at the driver's barriers `EndResolve1`,
  `EndMark` and `EndResolve2`;
- every thread step and every `clear_symbols` is a stutter;
- the abstract owners are visible only when a round has just ended.

`ResolutionSpec` follows the code where the code and spec section 4.7
differ. The code's mark-live step sets `is_alive` for a referenced owner
even when the owner is a dead-stripped dylib; only the feeder skips dylibs.
So a stripped dylib that is referenced becomes live in the abstract spec
too.

### `ResolverProofs.tla`, `ResolverRefinement.tla`, `PostResolveProofs.tla` and `DuplicatesProofs.tla`: TLAPS proofs (section 6)

### `MC_*.tla`

These are the model-checking instances: model values, symbol tables,
section tables, file systems and relocation tables. TLC configurations
cannot hold sequences, so these tables are defined here and substituted
with `<-`.

## 3. Runs

| Run | Config | Expect | Checks |
|---|---|---|---|
| `resolve` | `MC_Resolver.cfg` | pass | `TypeOK`, `OwnerViewMatches`, `FedOnce`, `MarkLiveClosure`, `FinalOwnerIsBest`, `ImplementsSpec`, `RankNeverWorsens` |
| `weak_dylib_order` | `MC_ResolverWeak.cfg` | violation | `FinalOwnerIsBest` |
| `scope_leak` | `MC_ResolverScope.cfg` | violation | `ScopeFromLiveDefiners` |
| `split` | `MC_Splitter.cfg` | pass | `TypeOK`, `SubsecCover`, `SymToSubsecContains`, `LocalSubsecCorrect`, `FindAgrees` |
| `alt_entry_order` | `MC_SplitterAltFirst.cfg` | violation | `SubsecCover` |
| `unwind_label` | `MC_SplitterUnwindLabel.cfg` | violation | `LocalSubsecCorrect` |
| `extern_cstring` | `MC_SplitterExternCStr.cfg` | violation | `ExternSubsecSet` |
| `post_resolve` | `MC_PostResolve.cfg` | pass | `PostTypeOK`, `CommonsCleared`, `CommonsMaterialised`, `DuplicatesReported`, `Termination` |
| `dylib` | `MC_Dylib.cfg` | pass | `TypeOK`, `ReexportClosure` |
| `reexport_cycle` | `MC_DylibCycle.cfg` | violation | `NoUnboundedRecursion` |
| `unwind` | `MC_Unwind.cfg` | pass | `UnwindTypeOK`, `UnwindAttach`, `RecordInSubsec` |
| `personality_undef` | `MC_UnwindPersonality.cfg` | violation | `PersonalityLocalDefined` |

### What the passing runs show

**`resolve`** explores every interleaving of the per-symbol steps of six
threads.

- **`OwnerViewMatches`** (spec invariant 4): a symbol's owner is one of its
  definers, and its flags are that definer's own view, never a mix of two
  racing threads.
- **`FedOnce`**: the `is_alive` exchange enqueues each member at most once.
- **`MarkLiveClosure`** (spec invariant 5): when the mark-live loop returns,
  every reference a live object keeps points to a live file.
- **`FinalOwnerIsBest`** (the precedence table and "rank monotone" of
  section 8): at the end, each symbol belongs to the live definer of least
  rank.
- **`RankNeverWorsens`** ("rank monotone", one step at a time): an action
  property. No step of either round leaves a symbol owned at a worse
  `get_rank` than before it. The compare and the write happen under
  `sym.mu`, so racing threads cannot undo each other's improvement. On the
  `MC_ResolverWeak.cfg` input this property fails too, at the dylib step of
  the `weak_dylib_order` finding. A dylib wins with a strong rank and then
  records a weak one.

- **`ImplementsSpec`** (sections 2 and 4.7): every behaviour of `Resolver`
  is, under the refinement mapping, a behaviour of `ResolutionSpec`. Each
  round's owners are the best definers of the precedence table whatever the
  lock order, and the sweep makes live exactly the least closure, no file
  more. By `weak_dylib_order`, this can hold only for inputs without weak
  dylib exports. `MC_Resolver`'s tables have none; the weak ones are in
  `MC_ResolverWeak.cfg`.

**`split`** covers every symbol table of up to three symbols, in both modes,
with three `__cstring` contents.

- **`SubsecCover`** (spec invariant 2): the subsections of each section tile
  it exactly.
- **`SymToSubsecContains`**: `sym_to_subsec` of every split symbol is a
  subsection of its own section that holds it.
- **`LocalSubsecCorrect`** (spec invariant 1 and the comment in
  `fix_subsec_members`): each local symbol gets a subsection of its own
  section, or null with its address as value.
- **`FindAgrees`** ("sym-to-subsec correctness" of section 8):
  `find_subsection` finds the non-empty subsection holding a symbol, even
  with the zero-size subsections the fix-up leaves at the same address.

The pass run's symbol tables give every alt-entry symbol a primary placed
before it (`AltFollowsPrimary`). The `alt_entry_order` run drops that
restriction.

**`post_resolve`** runs `FairSpec`: resolution, then both post-resolution
loops, with every thread of each loop interleaved.

- **`CommonsCleared`** (section 4.7): once every live object has run
  `convert_common_symbols`, no symbol is left common. This needs
  `clear_symbols` to have reset the dead member's common `u`.
- **`CommonsMaterialised`** (scenario 3): once every live object has run
  `convert_common_symbols`, no name has two `__common` subsections, whether
  from two objects or from two entries of one object. `o1` lists the common
  `y` twice, so this rests on the per-entry `sym.is_common` re-check (line
  639): the first entry clears it and the second reads it cleared.
- **`DuplicatesReported`** (scenario 7): the reports are exactly one per
  strong definer after the first, each naming that first definer.
- **`Termination`**: the pipeline reaches the end of the duplicate check
  under the pool's fairness alone.

**`dylib`** creates `libbar`, which reexports `libfoo` and `libbaz`, and
`libfoo` reexports `libbaz` too. The file systems vary which syslibroot
holds `libfoo` (as a stub or a binary), and whether `libbaz` is a dylib at
all. **`ReexportClosure`**: when creation is over, a command-line dylib's
exports are its own and those of every library it reaches through
reexports, and a name is weak only where no library of the closure exports
it strongly.

**`unwind`** covers two `__compact_unwind` sizes (a whole number of
records, and one that is not), a corrupt `__cstring`, four relocation tables
(a good one, one with a `code_start` missing, one with an extra relocation,
one with an out-of-range offset), and records whose `code_start` is in
`__text`, in `__data`, or in no subsection at all.

- **`UnwindAttach`** (the "unwind attach" property of section 8): after
  parse, each subsection's range `[unwind_offset, unwind_offset + nunwind)`
  holds exactly the records attached to it, in offset order.
- **`RecordInSubsec`**: a record's `code_start` lies inside its subsection.

### What the violation runs show

Each is a finding, recorded in `PROJECT.json`.

- **`weak_dylib_order`.** `DylibFile::resolve_symbols` competes with the
  strong rank (`get_rank(this, false, false)`) but records `is_weak`. The
  stored rank is then worse than the rank that won, so a later strong
  export can take the symbol. The final owner depends on lock order,
  against spec section 5 ("outcomes are deterministic").
- **`scope_leak`.** `merge_scope` runs for archive members that are never
  loaded, and `clear_symbols` resets the scope only where the dead file owns
  the symbol. The result: a `-hidden-l` definition is exported because of a
  dead member.
- **`alt_entry_order`.** Extern symbols are listed by name. So `_a`
  (`N_ALT_ENTRY`) can precede its primary `_z` at the same address. The
  fix-up then promotes `_z` as well, no subsection covers the address, and
  both symbols get `subsections.back()` of nothing.
- **`unwind_label`.** A local label in `__compact_unwind` (such as an
  assembler `ltmp` label) gets the previous section's last subsection from
  `find_subsection`. The comment says it gets null.
- **`extern_cstring`.** An extern symbol in `__cstring` keeps a null
  `sym_to_subsec`, and `resolve_symbols` dereferences it (line 585).

- **`reexport_cycle`.** `create()` recurses into reexports with no visited
  set, and `read_trie` follows child offsets with no bound. A reexport
  cycle, or a trie whose child leads back to an ancestor, overflows the
  stack (`stage = "crash"`) instead of ending with a diagnostic.
- **`personality_undef`.** `find_symbol` matches on value alone. A local
  personality reference holding 0 resolves to an undefined extern (value 0).
  Spec section 4.3 asks for the extern symbol defined there.

### Mutants

Each property of a passing run has a mutant in `PROJECT.json`: a plausible
bug in the mapped code that TLC shows the property catches. They are:

- the undefined-symbol skip dropped;
- the winner's `is_weak` not written;
- the exchange result ignored;
- the feeder dropped;
- `clear_symbols` skipped;
- region offsets not rebased;
- the gap region not prepended;
- `sym_to_subsec` taken before `add`;
- the local value not rebased;
- equal addresses sorted unstably;
- `get_rank` ignoring liveness (breaks `ImplementsSpec`);
- an object's candidate competing as non-common, as a dylib's does (breaks
  `RankNeverWorsens`);
- the `is_common` re-check of `convert_common_symbols` reading the symbol as it was before the loop;
- weak definitions reported as duplicates;
- a skipped entry not advancing the loop (breaks `Termination`);
- the reexport loop index advanced before the child is created;
- the weak-export merge dropped;
- the personality taken from the next symbol;
- unwind records sorted by offset only;
- `find_subsection` as a lower bound.

## 4. Bounds and why they suffice

**`MC_Resolver`** has four objects: one on the command line and three
archive members, one of them hidden. It has two dylibs, one dead-stripped,
and five names. d1 exports only z. The cases each bound makes happen:

- a member loaded only through another member (o1 needs x from o2, and o2
  needs y and z);
- a common symbol against a strong definition (y);
- a weak, weak-referenced, hence private, definition (z in o3) against a
  dylib export;
- a dead member whose definitions must be cleared: o4's absolute `w` wins
  round 1 and has no other definer;
- a dead-stripped dylib activated by a reference (v in d2).

Every action and branch fires. The run has 3,082 states.

**`MC_Splitter`** uses `__text` (4 bytes), `__cstring` (4 bytes),
`__compact_unwind` (2 bytes) and `__data` (2 bytes). Tables hold up to three
symbols, so three symbols at one offset exercise the `r[i++]` skip. The
`__cstring` contents include a leading NUL, a NUL run, and a missing final
NUL. The run has 15,216 states.

**`MC_PostResolve`** has two command-line objects, two archive members and
one dylib, with six names:

- `x` has two strong definers, so it is a duplicate, and it is also a
  dylib export;
- `y` is common in three objects;
- `w` is a weak definition beaten by a strong one in a loaded member;
- `v` is common against a dylib export;
- `u` is common only in a member that stays dead, so it must be cleared.

It has 1,661 states.

**`MC_Dylib`** has two top-level dylibs, up to three library images, and
18 file systems. Together they reach both syslibroot candidates, a
`.tbd` preferred to a `.dylib`, a missing library, and a library reached
twice. It has 134 states, since creation is sequential and the file system
is the only branching.

**`MC_Unwind`** uses section tables of 96 and 40 bytes of
`__compact_unwind` (three records, and one bad size), plus one with a
corrupt `__cstring`. It has four relocation tables and 128 entry tables. It
has 12,288 states.

## 5. Fairness and liveness

`PostResolve`'s `FairSpec` assumes weak fairness of:

- each thread's next step in each parallel loop;
- each driver barrier.

The code justifies this. Every loop is a `tbb::parallel_for` (or a
`parallel_for_each` with a feeder), whose pool runs every task it was
given. The driver moves on once a loop has returned. No step waits on
another thread except through the per-symbol mutex, which each step holds
only for its own iteration.

Under this fairness, `Termination` holds: every `resolve_symbols` and
`mark_live_objects` loop finishes, the work list drains, and the duplicate
check is reached. The mutant in which a skipped entry does not advance the
loop stalls forever and breaks it. The other modules are sequential (one
`parse` or one `create()` call chain) and check safety only.

## 6. What is proved (TLAPS)

Each theorem holds for every finite set of files and names, every
injective priority map below 2^24, and every symbol table. The assumptions
are `FilesAssumption`, `PrioAssumption` and `TabAssumption` in
`Resolver.tla`.

- **`TypeCorrect`: `Spec => []TypeOK`.** `TypeOK` is inductive by itself.
  The proof takes one step per action. It rests on lemmas for the types of
  table entries (`ObjEntryType`, `DylibEntryType`) and on `NumSymsNat`.
- **`OwnerViewInvariant`: `Spec => []OwnerViewMatches`.** This is proved
  from `TypeOK` as a further inductive conjunct.
  - A winning resolve step writes exactly `ObjOwnerRec` or the dylib record,
    whose view is the entry's own.
  - A losing step changes only `scope`.
  - `ClearSymbols` writes `NullSym`.
  - The other steps leave `sym` alone. This is the frame lemma
    `OwnerViewFrame`.
- **`FedOnceInvariant`: `Spec => []FedOnce`.** `FedOnce` alone is not
  inductive, because a step might feed an object already queued. The
  strengthening is `FeedInv == TypeOK /\ FedOnce /\ QueuedAlive`, where
  `QueuedAlive` says every queued object is already alive. With it, the
  exchange that feeds an object must have seen `is_alive = FALSE`, so the
  object's count was 0.

- **`CommonsClearedInvariant`: `PostSpec => []CommonsCleared`**, in
  `PostResolveProofs.tla`. `CommonsCleared` is not inductive, so the proof
  uses the strengthening `CInv`, built from `TypeOK` and three conjuncts:
  - `CommonOwnerOk`: a common symbol is owned by an object with an extern
    common entry of that name.
  - `PhaseFrame`: before the sweep nothing is cleared. During the clear
    phase, every cleared file is dead and owns nothing. From the second
    round on, every dead file's loop is finished and every owner is live.
  - `PostFrame`: before `done` nothing is converted. After `done`, no
    common symbol has a converted owner. After the conversion barrier,
    every live object is converted.

  Then, at the end of the conversion phase, a common symbol's owner would
  be a live object. Such an object is converted, yet it owns a common
  symbol, which `PostFrame` forbids. Lemmas: `ResolverStepCInv` (one step
  per `Resolver` action), `PostStepCInv` (one per post-resolution action)
  and `OwnerRecCommon`.

- **`MarkLiveClosureInvariant`: `Spec => []MarkLiveClosure`.** The
  property speaks only of the moment the mark-live loop has returned. The
  strengthening `MarkInv` states what the loop keeps true while it runs:
  - `MpcIdle`: an object's thread has not started before it is queued;
  - `LiveQueued`: during the sweep every live object is queued, because
    the first round's live objects form the work list and the exchange
    that makes an object live feeds it;
  - `MarkedCovered`: every entry a queued object has passed is covered:
    if it keeps a reference, the owner is live.

  When the loop returns, every queued object has passed all its entries,
  so every live object is covered. `CoveredMono` shows that a covered
  entry stays covered, because files only become live.
- **`FinalOwnerIsBestInvariant`: `NoWeakDylibExports => (Spec =>
  []FinalOwnerIsBest)`.** The strengthening is `BestInv`: `TypeOK`,
  `OwnerViewMatches`, `PhaseFrame`, `DoneFrame` and `RankBound`.
  `RankBound` says that in the second round, a name's owner ranks no worse
  than any entry a live file's thread has already passed. Two step lemmas
  carry it:
  - `ObjStepRank` and `DylibStepRank`: a resolve step never makes an
    owner's rank worse, and leaves the entry it read bounding the owner.
  - `RankFrame`: ranks do not change while `alive` does not.

  At the end, every live file has passed all its entries. The owner is a
  live definer (`OwnerViewMatches`, `PhaseFrame`), so it is the least.
  The hypothesis `NoWeakDylibExports` (no `-weak-l` dylib, no weak
  export) is needed. A dylib competes as strong in `resolve_symbols` but
  records its weakness, so the record can rank worse than the entry that
  won. The `weak_dylib_order` run shows the violation.
- **`RankNeverWorsensHolds`: `NoWeakDylibExports => (Spec =>
  RankNeverWorsens)`**, the action property. `RankStep` shows that a step
  which stays in a resolution round is an object or dylib
  `resolve_symbols` iteration, or a stutter. `ObjStepRank` and
  `DylibStepRank` bound such an iteration, and `RankFrame` relates the
  primed rank to the new record. The invariant used is `TypeOK`. The
  hypothesis is the one `FinalOwnerIsBest` needs, for the same reason.
- **`ImplementsSpecGivenSweep`: `NoWeakDylibExports => (Spec /\
  [][SweepMatchesClosure]_vars => ImplementsSpec)`**, in
  `ResolverRefinement.tla`. This is the refinement of `ResolutionSpec`,
  step by step:
  - `InitRefines`: the initial state maps to `Abs!Init`.
  - `Round1Refines`: `EndResolve1` is `Abs!Round1`.
  - `Round2Refines`: `EndResolve2` is `Abs!Round2`.
  - `MarkRefines`: `EndMark` is `Abs!Mark`.
  - `StutterRefines`: every other step leaves the mapped state unchanged.

  The invariant is `RefInv`, which is `BestInv` plus two first-round
  conjuncts. `Round1Frame` says liveness is still the initial one.
  `RankBound1` is `RankBound` for every file, since dead archive members
  also run the first round. TLC checked `RefInv` on the `MC_Resolver`
  instance before it was proved.

  The rank lemmas connect the two rank notions:
  - `PackedRankOrder`: `kind * 2^24 + priority` orders exactly as the
    pair `<<kind, priority>>` does, because `PrioAssumption` keeps
    priorities below 2^24. This is the overflow question of
    `get_rank`'s shift.
  - `KindMatches` and `RanksAgree`: `get_rank`'s packed rank is the
    packed form of `ResolutionSpec`'s `Kind`.
  - `BestIs` and `OwnerIsBest`: an owner that ranks no worse than every
    competing entry is the one `Best` chooses.

  One hypothesis is left: `SweepMatchesClosure`. It says that when the
  mark-live loop returns, the live set is `ResolutionSpec`'s `Closure` of
  the first round's owners. `MarkLiveClosureInvariant` proves that the
  live set is closed. The other half, that no file beyond the least
  fixed point is live, needs to unfold `Closure`, a recursive function.
  The installed provers cannot do that (see below). TLC checks the
  hypothesis through `ImplementsSpec` on the `resolve` run.

- **`DuplicatesReportedInvariant`: `PostSpec => []DuplicatesReported`**,
  in `DuplicatesProofs.tla`. This theorem has no dylib hypothesis: it holds
  with `-weak-l` dylibs and weak exports. The argument is about ranks. A
  strong definition (extern, `N_SECT` or `N_ABS`, no `N_WEAK_DEF`) of a
  live object ranks `1 << 24` plus its priority (`StrongRank`). Any rank
  below `2 << 24` belongs to such a definition (`RankBelowTwo`). A dylib
  competes at `3 << 24`, so it never displaces an owner ranked below
  `2 << 24` (`DylibKeepsStrong`), whatever weakness it would record. The
  strengthening `DInv` is `CInv` plus four conjuncts:
  - `OwnerViewBefore`: `OwnerViewMatches` until resolution is done;
  - `StrongBound`: in the second round, the owner of a name ranks no
    worse than every strong entry a live object's thread has passed. This
    is `RankBound` restricted to strong entries, and it is kept by dylib
    steps too;
  - `StrongOwner`: once resolution is done, a name with a strong definer
    is owned by a strong definer of least priority (`StrongOwnerAtEnd`
    derives it at `EndResolve2`);
  - `DupFrame`: the checked objects are live, the reports are the union
    of `DupsOf` over them, and at the end every live object is checked.

  A report names the owner. `StrongOwner` puts that owner no later than the
  reporter, and priorities are distinct, so it is strictly earlier and is
  the first strong definer. Conversely, the first strong definer is the
  owner, so every later strong definer reports it. TLC checked `DInv` on the
  `MC_PostResolve` instance, with a weak dylib, before it was proved.

`GetRank` and `ResolutionSpec`'s `Kind` are written as `IF` chains. This
follows the early returns of `get_rank`. An overlapping `CASE` would be a
nondeterministic choice in TLA+, and nothing could be proved about it.

Left to TLC:

- liveness and `ENABLED`, which are out of the prover's reach;
- the minimality half of the sweep (`SweepMatchesClosure`). `Closure`
  is defined as a recursive function, and unfolding it needs the
  library's inductive-definition theorems. Those take an operator
  parameter that no installed prover can instantiate.
- `CommonsMaterialised` and `PostTypeOK`, which reason about the
  sequence that `ConvertLoop` builds. It is a recursive function over the
  entries, and what it computes for every table needs induction over data;
- `ScopeFromLiveDefiners`;
- the Splitter and Unwind properties. They are pure computations over
  bounded data, and the Splitter's recursive functions (`PromoteAltEntries`,
  `CStrStarts`) would need induction over data;
- the Dylib properties. `Dylib` declares a `RECURSIVE` operator
  (`ReadTrie`), which would cost a proof module its SMT backend.

## 7. Not modelled, and the plan

| Part | Status | Why, or the plan |
|---|---|---|
| LTO shim (`parse_lto_symbols`, the bitcode branch of `parse`) | not modelled | A conversion of plugin attributes into `MachSym`s, with no concurrency and no control beyond a loop. It leaves nothing the properties tell apart from a parsed table. |
| Auxiliary extractors (`get_linker_options`, `is_objc_object`, `parse_data_in_code`) | not modelled | Read-only queries on the mapped file. They change no state. |
| Byte decoding (string tables, load-command layout, ULEB) | abstracted | Replaced by the values it yields. |
| `parse_tbd` | abstracted | The YAML stub reader lives outside this file. `Dylib` starts from the stub it returns. |
| Drained reexported export sets (line 792) | not checked | `std::set::merge` empties a reexported child's `exports` of the names its parent lacked. `Dylib` models this in `Finish` (`Drained`), but nothing in `src/` reads a child's `exports` afterwards: its `syms` were built before `create()` returned. |
| `r.idx` bound in `parse_compact_unwind` (line 451) | excluded by `UnwindInputAssumption` | The index is read from the file with no check. An out-of-range index is undefined behaviour that the model does not enumerate. It is listed as a hazard. |

Further proof targets:

- the minimality half of the sweep, which would discharge
  `SweepMatchesClosure`;
- `ScopeFromLiveDefiners`, from a strengthening that tracks the scope
  merged so far.
