# TLA+ models of the eld linker

eld is an ELF linker written in C++ (`lib/`, `include/eld/`). Its core is not
concurrent in the usual sense: it is a long, mostly sequential program whose
results must not depend on things a user does not think of. The order in which
symbols meet, how often an archive is scanned, which section is marked first,
which thread takes which input. This directory models the parts where such an
order matters, checks the models with TLC, and proves some of the results with
TLAPS for all instances.

1. [The system](#1-the-system)
2. [The modules](#2-the-modules)
3. [The runs](#3-the-runs)
4. [The proofs](#4-the-proofs)
5. [Findings](#5-findings)
6. [What is not modelled](#6-what-is-not-modelled)
7. [Plan](#7-plan)

To check a run: `tlc -config <run>.cfg <module>.tla`. To check the proofs, `tlapm` on each of
`GarbageCollection_proofs.tla`, `NamePool_proofs.tla`, `ArchiveReader_proofs.tla`,
`RelocationScan_proofs.tla`, `SettleLoop_proofs.tla`, `RiscvRelaxation_proofs.tla`,
`Layout_proofs.tla` and `SectionRules_proofs.tla`.

## 1. The system

### The order of a link

`Linker::prepare` (`lib/Core/Linker.cpp:82`) activates the inputs and reads them.
Reading an input inserts its symbols in the name pool and resolves each of them
at once; archives and groups decide from the pool which members they read. When
there is bitcode, `ObjectLinker::createLTOObject` reads the relocations of the
objects, calls plugins (one may run a garbage collection), decides which symbols
the optimizer must preserve and runs it; `beginPostLTO` and `insertPostLTOELF`
insert the generated objects into the same pool and the archives are read again.

`Linker::resolve` (`lib/Core/Linker.cpp:458`) reads the relocations, allocates
commons, matches input sections to the rules of the script, adds the symbols
that the script assigns, collects unused sections, and scans the relocations in
several threads, which creates the slots of `.got` and `.plt`, the dynamic
relocations and the copies of library data. `Linker::layout` assigns addresses
until they are stable (`GNULDBackend::layout`, `convergeLayout`, relaxation), and
the image is emitted. Plugins are called at fixed points in between.

### The components

| component | state it keeps | operations | talks to |
|---|---|---|---|
| Symbol resolution: `StaticResolver`, `ResolveInfo` | the attributes of one symbol | `resolve(old, new)`, `override*` | called for each insertion |
| Name pool and symbol reading: `NamePool`, `IRBuilder`, `Module` | name to symbol, output symbol, used marks | `insertSymbol`, `addSymbolFromObject`, `...DynObj`, `...BitCode` | every reader, LTO, output |
| Archives and groups: `ArchiveParser`, `GroupReader` | status of each table entry, the group's position, the size of the pool | `parseFile`, `readGroup` | reads the pool, reads members |
| LTO driver: `ObjectLinker`, `BitcodeFile` | the preserved names, the phase | `finalizeLtoSymbolResolution`, `beginPostLTO` | pool, garbage collection, plugins |
| Garbage collection: `GarbageCollection` | the reference graph, the live set, section kinds, ignore marks | `run` for the linker or for a plugin | script assignments, pool, LTO |
| Relocation scan: `Relocator`, a target's relocator, `ObjectLinker` | positions deferred, slots, reserve marks, copies | `scanRelocations` | threads, layout, the applier |
| Section rules: `ObjectBuilder`, `SectionMap`, `ObjectLinker` | output and rule of each section, the sections to merge, the chunks of each rule | `assignOutputSections`, `reAssignOutputSections`, `mergeSections`, `createOutputSection` | script, plugins, garbage collection |
| COMDAT groups | signature to the group that won | reading a group section | readers |
| Layout: `GNULDBackend`, segments, memory regions | addresses, load addresses, cursors, segments of the pass, the previous snapshot | `createProgramHdrs`, `convergeLayout`, `relax` | script expressions, trampolines, relaxation |
| RISC-V relaxation: `RelaxPlan`, `RISCVLDBackend` | pending edits, rejected decisions, rounds | `mayBeRelax`, `postRelax`, the commit | asks for layouts, reads their addresses |
| Script: `Expression`, `Assignment` | the values of symbols and of the dot | `eval` | layout, garbage collection |
| `PROVIDE` | the provide map | `provideSymbols` | pool, scan |
| Plugins and the link state: `Module`, `LinkerScript`, `Plugin` | `LinkState`, pending overrides, unbalanced adds and removes of chunks | the calls of `LinkerWrapper` | everything |
| Readers, writers, dynamic sections, fragments, map files, drivers, diagnostics | - | input and output | - |

### What is hard, and what must hold

*Resolution.* The outcome for a name is a fold over the inputs of an 11 by 11
table of actions (`lib/SymbolResolver/StaticResolver.cpp:48`), some of which keep
attributes of the symbol they replace. It must keep the strongest contribution,
diagnose two strong definitions wherever they stand, keep the most constrained
visibility, the largest common, and marks that have been set (export, preserve).
Bitcode symbols are replaced in the middle of it. Nothing may be lost there.

*Archives.* Whether a member is read is decided from the pool of the moment. The
loops must close (nothing that resolves a reference is left) and must end, and no
member may come in without a reason. The group's loop counts names, which is only
a proxy for progress.

*Garbage collection.* The result must be reachability, whatever the order of the
work list and the shape of the graph; every kind of root must survive on the code
paths of executables and of shared libraries; a pass of a plugin must not harm the
pass of the linker or the choice of preserved symbols.

*Relocation scan.* The only parallel loop of the core that writes shared state.
Slots, their order, dynamic relocations and reports must be those of the serial
scan for every schedule; a decision taken for one reference must not spoil another
reference to the same symbol.

*Layout.* Addresses feed expressions and expressions feed addresses. A pass starts
again whenever it creates a segment, passes are repeated until two snapshots agree,
four at most, and relaxation asks for all of it again. Each value is computed from a
mixture of this pass and the one before; when the passes agree it must be what the
script says.

*RISC-V relaxation.* An edit is decided against one layout and applied after another.
What a later layout refutes is rejected for good, which moves other code away from its
targets; padding is decided anew after every rejection. It must end, and what is
committed must still reach.

*Section rules.* A section is matched at one time, may be sent elsewhere by a plugin at a
second, and is merged at a third, from a list that was gathered at a fourth; sections arrive in
between (generated objects, commons, copies). The image must be what the script says of every
section that no plugin has touched, whichever of the two matchers is used, and references must find
it there.

*Plugins* ask for output sections at one hook and may have them carried out at another, or by the
linker. No request may be lost or carried out for somebody else. Later they move chunks by pairs of
calls that need not be adjacent; accounts of what each has added and removed are the only thing that
shows a chunk lost or duplicated.

The hazards are listed with their lines in `PROJECT.json`.

## 2. The modules

Names of operators and actions are those of the functions they model where TLA+
allows it; `PROJECT.json` ("map") gives the lines of every definition. Operators
introduced by "A fault:" are mutated forms of the definition that follows them.
Each is a plausible mistake, and each is shown to break a property; no
specification uses them.

| module | models | builds on |
|---|---|---|
| `ResolveInfo` | the attributes of a symbol and how they are overridden and merged | |
| `StaticResolver` | the resolution table and all its actions, as one function of the old and the new symbol | `ResolveInfo` |
| `NamePool` | insertion of the symbols of objects, bitcode files and libraries in any order; the replacement of bitcode symbols after LTO; the choice of output symbols | `StaticResolver` |
| `NamePool_proofs` | theorems about it | `NamePool` |
| `MarkSweep` | abstract: a sweep drops exactly what no chain of references reaches | |
| `GarbageCollection` | `GarbageCollection::run`, step by step, for the passes of the linker and of plugins | implements `MarkSweep` |
| `GarbageCollection_proofs` | theorems about it | `GarbageCollection` |
| `MemberExtraction` | abstract: a member becomes part of the link only when needed | |
| `ArchiveReader` | the reading of a command line with archives, whole archives and groups | `StaticResolver`, implements `MemberExtraction` |
| `ArchiveReader_proofs` | theorems about it | `ArchiveReader` |
| `DynamicSlots` | what the scan of one relocation creates for x86-64 | |
| `SerialScan` | abstract: the scan in one thread | `DynamicSlots` |
| `RelocationScan` | the parallel scan and its replay | `DynamicSlots`, implements `SerialScan` |
| `RelocationScan_proofs` | theorems about it: the scan and its reports; the slots | `RelocationScan` |
| `ScriptExpressions` | expressions of a linker script and what they read | |
| `Layout` | the passes over output sections and assignments, `convergeLayout`, and `relax` with trampolines | `ScriptExpressions` |
| `Layout_proofs` | theorems about it: the restarts; types; sections apart; values that agree solve the script; one distance in a segment | `Layout` |
| `RelaxPlan` | the deferred edits of a section and how they shift offsets | |
| `SettleLoop` | abstract: candidates are rejected round after round until nothing changes | |
| `RiscvRelaxation` | the passes over calls, pairs and padding, the settling and the commit | `RelaxPlan`, implements `SettleLoop` |
| `SettleLoop_proofs`, `RiscvRelaxation_proofs` | theorems about them | `SettleLoop`, `RiscvRelaxation` |
| `RuleMatching` | the two matchers, the search of an override, the sort policies of a rule | |
| `SectionRules` | matching before and after LTO, overrides at the hooks, merging, the chunks that plugins move, the check of the link state | `RuleMatching` |
| `SectionRules_proofs` | theorems about it | `SectionRules` |
| `MC...` | the instances that TLC checks | |

**NamePool.** A state is the pool in the course of reading. `addSymbolFromObject`,
`addSymbolFromDynObj` and `addSymbolFromBitCode` each insert one symbol of one file
and do all that the code does with it: the check of thread local types, the
resolution, the output symbol, the used mark of an as-needed library. The order of
the files is free, which covers every command line and every extraction from
archives. `beginPostLTO` fixes what the optimizer is handed; the optimizer is
external, and its objects may say of a name whatever is consistent with the
definition that was handed to it. `read` is a history variable, and the properties
compare the pool with it.

**GarbageCollection.** One state variable per member of the class that the
algorithm keeps (`reachedSects`, `reachedSyms`, `referenced`, `liveSet`, the queue).
Building the graph is one step for objects and one step per bitcode section; choosing
the roots is one step; marking takes one step for each root and for each section taken
from the queue, in any order, which is more than the code's order; the sweep is one
step. A link (`LinkType`) is everything that was read before.

**ArchiveReader.** One action per turn of the loops of `readInputs`, `parseFile` and
`readGroup`: an object is read, a member is included, a scan starts again, a parse
ends, a group starts, ends or is gone through again. The pool keeps only ordinates;
that this loses nothing is checked against `StaticResolver` by the assumption
`OrdinatesAgree` of `MCArchiveReader`, which TLC evaluates. Reading stops at the first
multiple definition, since the others do not change what is read.

**RelocationScan.** `Fetch` is `NextInput.fetch_add`, `ScanOne` is one turn of
`scanRelocationsHelper` for one relocation, with the reports under `m_RelocMutex`,
`Join` is the end of `llvm::parallelFor`, `Replay` is one turn of
`replayScanRelocations`, `Copy` one turn of the loop over the symbols to copy. What a
worker does outside the mutex touches only the bits of its own input, so one relocation
is one step. What the replay of one relocation creates is the function
`scanDeferredRelocation` of `DynamicSlots`, which follows the cases of
`x86_64Relocator`. A link holds the relocations that `maySkipRelocProcessing` lets
through.

**Layout.** `walk` holds the local variables of `createProgramHdrs`, which a restart keeps or
resets as `reset_state` does. An assignment, the address of a section, a fragment, the end of a
section and the decision about its segment are one step each, so a value is always read where the
code reads it, from this pass or from the one before. `source` is the binding of a symbol in an
expression to one of its assignments, which the code fixes when the expression is first evaluated.
Three loops are nested: `Restart` (a new segment), `Iterate` (`convergeLayout`), `LayOutAgain` and
`InsertStub` (`relax`: a backend may ask for a layout with nothing changed, or after a trampoline
went in behind any code).

**RiscvRelaxation.** A pass of `mayBeRelax` is one loop of the actions over the relocations; the
layout between two passes is one step and gives addresses to the sections from the sizes that the
pending edits leave. `postRelax` is the loop over the records that verifies, rejects and undoes.
Values are those of the edited section while addresses of sections are those of the last layout,
as in the code. A section has its output and the largest alignment in its load segment, 0 when it is not loaded,
from which `fitsInGP` takes the margin; which section is asked is `TargetSection` for a decision and that of
the high part's symbol for the verification. The commit writes to `output`, with the three walks over the edits for bytes,
relocations and symbols. An error of the link is the state `error`.

**SectionRules.** `phase` says what comes next in `Linker::resolve` and
`ObjectLinker::mergeSections`; every phase in which a hook of plugins runs lets the plugins that have
the hook act any number of times before the link goes on. `setOutputSection` only appends to the
overrides of the plugin; `finishAssignOutputSections` and `runSectionIteratorPlugin` carry them out, for
one plugin and for all. `all` is `AllInputSections`, which is gathered by whoever needs it first.
With threads, the output and the rule of a section are two fields that two overrides write without a
lock, so they are chosen independently. The last round of overrides is for all plugins, whose order is
that of a hash table: any order is possible. `updateChunks` is one step that empties the rule and one for
each chunk that it adds, since the add may be refused. A section is one chunk. What a rule accepts is a
set of sections, which stands for the patterns, archive members and `EXCLUDE_FILE`. `merged`, `asked`,
`late` and `movers` are history variables.

## 3. The runs

| run | kind | distinct states | shows |
|---|---|---|---|
| `NamePoolLinks` | pass | 819,000 | objects alone, and objects with bitcode, as-needed libraries and a late member around LTO: diagnostics, visibility, commons, thread locality, the strongest contribution, what is preserved and exported |
| `GarbageCollectionPasses` | pass | 111,000 | the collector implements `MarkSweep`, keeps live references, and ends; a plugin's pass harms no other |
| `ArchiveReaderLines` | pass | 133,000 | members are read only when wanted, the loops close and end |
| `RelocationScan` | pass | 405,000 | the parallel scan is the serial scan; every reference finds its slot |
| `RiscvRelaxation` | pass | 13,000 | what is committed reaches, padding aligns, offsets follow the bytes, the loops end as `SettleLoop` says |
| `Layout` | pass | 211,000 | values solve the script, sections do not overlap, segments keep their distance, the loops end |
| `SectionRules` | pass | 448,000 | the image is what the script and the plugins say; no chunk is lost or duplicated |
| `NamePoolProtectedReference`, `GarbageCollectionAssignments`, `RiscvRelaxationRounds`, `RiscvRelaxationPairs`, `LayoutSizes` | violation | | one finding each, section 5 |

**Bounds of NamePool.** One name: resolution never looks at another name, so names
are independent. Three objects are the fewest for the interesting orders (two strong
definitions with something weaker between them; a restriction, a definition and an
override). Two of the files are objects with every binding, three visibilities, two sizes and
two absolute values, and a third has a part of them; links that also have bitcode files or
shared libraries give up the sizes and most visibilities. These have two objects (one of which may
be read after LTO), two bitcode files, two as-needed libraries and one generated object. The
properties ask of a state only what its inputs allow: without
libraries the most constrained visibility is kept; with them it is not always (a library's
definition carries its own visibility, and what an object said before it is not merged when
the definition is overridden again), so `VisibilityMostConstrained` is a property of links of
objects. Symmetry permutes the bitcode files, which play the same role; no liveness is checked under it.

**Bounds of GarbageCollection.** Three sections are a root, something it reaches and
something reached through it or through a cycle; all graphs over them are checked
(`graphs`), with each kind of section in turn. The families `specials`, `exports`, `plugin`
and `lto` add script assignments, `__start_` symbols and references of the target, the roots
of shared libraries and `--export-dynamic`, and the two kinds of passes of a plugin.

**Bounds of ArchiveReader.** Two archives of two members and an object, four names, and
three command lines: a group, an archive named again after another, and a group that
contains an archive named before together with `--whole-archive`. Chains from archive to
archive (`alternating`) need up to four members, more than one pass of a group and more
than one scan of an archive; each of the loops turns at least twice in some behaviour, since
stopping any of them after one turn breaks a property.

**Bounds of RelocationScan.** Two workers and two or three inputs with three relocations
among them, in every order, over two symbols. Three relocations suffice for a slot that is
shared, wanted after a relaxed reference, and passed by another symbol's slot; two workers
suffice for each pair of steps to interleave, and three inputs for one worker to take two.
The families are GOT loads, copies, calls, thread local storage and undefined references, for
static, dynamic, PIE and shared outputs.

**Bounds of RiscvRelaxation.** A link has two to five sections and up to four relocations, placed so
that a displacement lies within eight bytes of the limit of its instruction, where a decision can
change. The families: chains of calls in which one rejection causes the next (`cascades`), calls
that are rejected alone (`isolated`), accesses to the zero page and calls to it (`zero page`), code
with padding between two sections that follow each other, for executables and PIE (`moving`) and
for shared objects (`shared`), and a pair whose target is in its own section, with GP a number, or before and
behind the code in another section that moves only with the next layout (`own section`); and code and data in
load segments of their own, with GP in the data or a number, where the section of the code asks for less, as
much or more alignment behind GP than that of the data, or the data is not loaded (`segments`). The
arithmetic is that of the instructions: no range is scaled down.

**Bounds of Layout.** A script has two or three output sections and up to three assignments; a page
is 16 bytes, a trampoline 8, and the layout is asked for twice, so that one trampoline may go in.
The families: chains of forward references that need every pass there is and one more (`chains`),
values that read a size ahead (`sizes`), names assigned several times (`twice`), every sequence of
three kinds of sections (`kinds`), memory regions for addresses and load addresses (`regions`), given
addresses and load addresses (`addresses`), overlays (`overlays`). Nothing in a pass looks further
back than one section, and a restart, a disagreement and a second call each happen.
`LoadsDisjoint` asks only of scripts that give no address themselves, since those may overlap by
order of the user; `SegmentsKeepDistance` asks of scripts in which the sections of a region are
loaded from one region, and not when a section lies at its own load address or at that of one before
it (`AtLoadAddress`). In other scripts the properties fail, and the code says no more of them
(see the observations in section 5). Twelve of the scripts of `regions` put the second section at
the load address of the first, just before or just behind it, or give it an address that padding
takes to its own load address.

**Bounds of SectionRules.** Three sections and two plugins. The families: scripts of two outputs whose
rules overlap in every way, that require read-only or writable sections, discard, keep or sort, for
either matcher, a section that has the name of the output that discards, and sections that arrive as
generated objects, commons or copies (`rules`); two plugins
with every pair of hooks that ask twice, with and without LTO and threads (`asks`); one plugin that moves
chunks three times, or twice when it may ask too late as well (`moves`); two plugins that move chunks twice
(`two`). Three
moves are a remove and an add with another call between them, and the two calls with which an account
comes back to even through different rules; two requests of two plugins suffice for each pair of
hooks, requests and carrying out to interleave.

**Deadlock** is not checked: every model is of a program that ends, and in its last state
nothing is enabled. That it does not stop earlier is what `Termination` says of the collector
and of the archive reader; the layout and the relaxation have the same under `Termination` and
`Settles`; the models of the pool, of the relocation scan and of the section rules claim no progress.

**Fairness.** `Termination` of `GarbageCollection` and of `ArchiveReader` assumes
`WF_vars(Next)`: both are loops of one thread, and the thread goes on while it can. Nothing
else is assumed, so each order of the work list terminates. `Layout` and `RiscvRelaxation` assume
`WF_vars(Next)` for the same reason: one thread runs the loops, and none of them waits for anything.

## 4. The proofs

`GarbageCollection_proofs` proves for all sets of sections and symbols and all links:

- `TypeCorrect`: `Spec => []TypeOK`.
- `RootsSurvive`: `Spec => []RootsKept`. No pass drops the entry, a section of `KEEP`, a
  retained section or one of a symbol of the command line.
- `ReferencesSurvive`: `Spec => []LiveReferencesKept`. When a pass is over, nothing that a live section
  refers to has been collected, and no symbol it refers to is marked as garbage.
- `PluginPasses`: `Spec => []PassesHarmless`. A pass of a plugin takes nothing from the pass of the
  linker, and a pass before link time optimization that drops commons leaves the definitions marked that
  the optimizer must preserve.
- `Refinement`: `Spec => CollectsTheUnreachable`. The collector implements `MarkSweep`: each
  sweep drops exactly the candidates outside the set of sections that chains of references
  from the roots reach.

They rest on the assumption `LinksAssumption` (a symbol that the script defines has no section
of its own; `KEEP` and `SHF_GNU_RETAIN` name sections of objects, not of bitcode), which TLC
evaluates on every run.

`TypeOK` is inductive. `Refinement` needs more: when the sweep runs, `liveSet` must be the
least closed set. The inductive invariant is `IInv == TypeOK /\ KindsKept /\ Marking`.

- `KindsKept`: a section has the kind it was read with or has become `Ignore`; without it the
  candidates of the second pass would not be known, and neither would the roots be the same
  in both passes.
- `Marking`: the classical invariant of marking. The live set lies in every closed set that
  contains the roots (soundness); every root is still pending or in the live set, every live
  section that is followed waits in the queue or is in `referenced`, and what a section in
  `referenced` reaches is in the live set (completeness). When nothing is pending and the queue
  is empty, the live set is the least closed set, which is what `MarkSweep` asks of `live`.

What the passes do to each other needs a second invariant, `PassInv`, which speaks of the graph itself and
not only of the pass that goes over it. `Graphed`: the graph that is being built has exactly the
edges of the bitcode sections traversed so far, and those are never more than the least set that must
be (`Least`), so that every pass builds the same graph. `Sheltered`: there is a set that holds the roots,
is closed under the references that any pass would follow, and of which nothing has been collected; a sweep
keeps it (the closure of its own live set, by `Refinement`'s invariant). `Settled` and `Optimizing` are
what the two properties ask, between the passes.

The lemmas at the start give the types of the operators from which the graph and the roots are
built; `NextType`, `NextKinds` and `NextMarking` have one step per action; `StripSweeps` and
`OnlySweepsCollect` say that the sweep maps to `Sweep` and that every other action stutters.

`NamePool_proofs` proves for all files, names and symbols and every order of the inputs:

- `TypeCorrect`: `Spec => []TypeOK`.
- `TypesNeverMix`: `Spec => []ThreadLocalityAgrees`.
- `StrongIsFinal`: `Spec => StrongDefinitionIsFinal`, an action property.
- `ClashesDiagnosed`: `Spec => []MultipleDefinitionsDiagnosed`.
- `CommonsGrow`: `Spec => []CommonIsLargest`.
- `UsedIsReferenced`: `Spec => []UsedLibrariesAreReferenced`.
- `MentionedIsExported`: the same for `DefinitionsExportedToLibs`, when the output is no library.
- `RestrictionsAccumulate` and `StrongestIsKept`: the same for `VisibilityMostConstrained` and
  `StrongestContributionKept`, without shared libraries.
- `OptimizedIsKept`: `Spec => []OptimizedForObjects`. A bitcode definition that is mentioned outside of the
  bitcode is marked to be preserved in every order of the inputs, and what an object mentioned is in the
  end defined by an object, whatever is read after link time optimization.

They assume that the kinds of files are disjoint (`FilesAssumption`), that each input has symbols of
its kind, of which an absolute one is a definition and none in bitcode (`SymbolsAssumption`), and that sizes are numbers (`SizesAssumption`). The first part follows
the resolver's table: one lemma for each action of `resolve` says what it does to the old symbol, and
together they say that a merge keeps the entry or takes the new symbol (`Kept`), except that commons
grow. On this rests `PoolInv` (types, and that all that is said of a name agrees on thread locality).
No property is inductive alone, since the pool forgets what it merged; each has an invariant that ties
the entry of a name to the history `read` of what was said of it:

- `DefinitionsInv`: the entry is strong when a strong definition was read, and is then one of those; a name
  is diagnosed when, and only when, two of those clash.
- `CommonsInv`: once a common of an object has been read, the entry is a common at least as large or a strong
  definition; and a common in the entry has the size and the file of one that was read.
- `OriginsInv`: the origin of an entry has said something of the name, and the mark of bitcode and an output
  symbol each show that some input which is no library has. What `UsedIsReferenced` asks follows from them
  when a library is marked at the end, when the inputs themselves are no longer looked at.
- `RestrictionsInv` and `StrongestReadInv`: the entry is at least as restricted, and as strong, as anything
  read. With libraries these two are false as invariants of the table and stay model checked.
- `OptimizedInv`: `MarkInv` says of a name whose entry is bitcode that it carries the mark when it was mentioned
  outside, and what an entry that is no definition, or comes from a library, must look like until a
  bitcode definition takes its place; `HandedInv` follows what was handed to the optimizer until
  its objects have been read. The proof showed that a library's mention does not set the mark when some
  object restricts the visibility of the name, and `MentionedOutside` says so.

`ArchiveReader_proofs` proves for all archives, files and command lines:

- `TypeCorrect`: `Spec => []TypeOK`.
- `ScansComplete`: `Spec => ScansClosed`. When an archive has been parsed, or a group ends, no member of it
  would still be read.
- `ExtractionRefined`: `Spec => ExtractedWhenWanted`. The reader implements `MemberExtraction`: a member is
  read only when a symbol of it was wanted at that moment, or when its archive is read as a whole.

They assume the types of the inputs and that the names have an order (`ArchivesAssumption`). Everything rests
on what the pool says of a name: it is the strongest of what the files read have said, by the order
`Rank` in which the resolver's actions override (`HigherReplaces`, from the actions themselves). That is
`PoolStands`, and the order in which the files came is gone from it. `Placed` says where the
reader is; `PassedClosed`, that in a pass over a group which has added no name, the archives already
passed have nothing to give: a member that is read adds a name, or makes the entry of a known name
stronger, which for a reference that is wanted means that it no longer is. This is where the loop's count
of names suffices, and it does not when a name is known by a weak reference or when a common
replaces a weak definition: `GroupClosedByNames` excepts both, and TLC finds such a group when it does not.

`RelocationScan_proofs` proves for every number of workers, all inputs and all schedules:

- `SerialRefinement`: `Spec => SameAsSerialScan`. The parallel scan and its replay create the
  slots, the dynamic relocations and the copies of the serial scan, in its order.

It assumes that the workers are numbered from one and that there is at least one
(`WorkersAssumption`), and the types of a link (`LinksAssumption`). A step of the replay is a
step of the serial scan only when nothing that the serial scan would scan is missing from
`deferred` when the replay starts. That is not inductive; the inductive invariant is
`Scanning == WorkersType /\ WorkersHonest /\ NothingLost /\ AllDeferred`.

- `NothingLost`: a position that the serial scan scans is deferred, or at or after the position
  that some worker holds in the same input, or in an input that no worker has taken yet.
- `WorkersHonest`: a worker ends only when every input has been taken, and only positions that
  the serial scan scans are deferred. When all have ended, as `Join` asks, `NothingLost` leaves
  only the first case, which is `AllDeferred`.

Fetch, scan, join and the other steps each have a lemma; `NextSerial` maps `Replay` to `Scan`,
`Copy` to `Copy` and every other step to a stutter. That one input goes to two workers would
not break this theorem (`deferred` is a set); it would break the next one.

- `ReportsComplete`: `Spec => []ReportsLikeSerial`. Each undefined reference is reported once. The
  invariant `Reporting` reads off the state what has been scanned (`Scanned`: what no worker holds, of
  the inputs that were taken), says that no two workers hold the same input (`WorkersApart`), and ties
  the number of reports, the names held back by `--warn-once` and the failure to `Scanned`.

The second half of the module is about the slots. Under the same assumptions and `StaticAssumption` (a
static link has no symbols of shared libraries) it proves:

- `GotServed`: `Spec => []GotReferencesServed`.
- `CopiesPreemptible`: `Spec => []CopiedSymbolsStayPreemptible`.
- `TypeCorrect`: `Spec => []TypeOK`.

It first follows the code of the scan: a lemma for each helper of `x86_64Relocator` says what it
does to the slots, and `ScanOutcome` sums them up. A relocation leaves the slots alone, or is relaxed,
or its symbol has a slot already, or gets one of the kind it expects. `SlotsHonest` is the invariant: the
bit of a symbol implies a slot; a slot was made for a relocation that has been replayed and expects its
kind; one that has been replayed, expects a slot and was not relaxed has one; slots of library symbols are filled
by the loader; and copies are only ever wanted of library data. Copies start when the replay has ended,
so a symbol is never scanned after it was copied.

`SettleLoop_proofs` proves for every finite set of candidates and every bound on the rounds:

- `RoundsBounded`: the rounds that have begun are at most twice the rejections and one.
- `EnoughRounds`: a loop that is allowed two rounds for each candidate and one more never gives up.

The invariant counts: a round that rejects is followed by one that only lays out again, and a
candidate is rejected once. `RiscvRelaxation_proofs` proves for all links:

- `SettleRefinement`: `Spec => ImplementsSettleLoop`. The relaxation is a settle loop whose
  candidates are the relocations of the link. A rejection is for good, and nothing is recorded once
  the settling has begun. The invariant `RefInv` says where the code is in its loops (`CodeInv`) and
  that the rejected relocations of the code are those of the loop (`LoopInv`).
- `TypeCorrect`: `Spec => []TypeOK`.
- `OffsetsFollow`: `Spec => []OffsetsFollowBytes`. In what is committed, a relocation or a symbol lies at
  the byte at which it lay in the object, however the edits of its section were decided, rejected and
  decided again.
- `RangesHold`: `Spec => []CommittedInRange`. A relaxed instruction reaches its target in the image, with the
  addresses and offsets of the image; the layouts between the decisions and the commit may have moved
  both.
- `PaddingHolds`: `Spec => []AlignmentsHold`. Padding in the image ends on its alignment.
- `PairsAgreeHold`: `Spec => []PairsAgreeElsewhere`. The upper instruction of a pair is only deleted with the
  lower one rewritten, when their target is in another section and the section that the lower one asks for
  has no larger alignment behind GP than that of the target (`FitsWithHigh`): for every LUI, and for an AUIPC
  whose code has no larger alignment than its data. `PairsAgree`, without these conditions, is what the run
  `RiscvRelaxationPairs` refutes; the code does not keep it.

They assume of a link (`LinksAssumption`) what an assembler guarantees: relocations are given in the order of
the code, within their sections and apart; a label does not lie inside the instructions of a relocation
that may be relaxed, nor inside padding; and a section whose address follows from the one before it has an alignment
that is a multiple of each alignment of its padding. A low part has the symbol and value of the high part that it
names, in the same section, and may be relaxed when the high part may (`PairFits`), which is the compiler's; and
the relocations of a section are visited together, which is the loop over relocation sections
(`SectionBySection`). `RISCVLDBackend` relies on each: an edit that
overlaps another is refused as a duplicate (`wouldOverlap`), a label within a deleted range has no place
in the image, and no layout could keep an alignment that its section does not have. TLC evaluates the
assumption on all links of the runs.

The first part of the proof is about edits that lie apart (`Apart`). `mapOffset` adds the bytes of all edits before an offset; that is the number of deleted
bytes before it (`ShiftCounts`, from the sums over sets). The commit walks over the edits in their
order and moves the bytes between them; the section it leaves is the increasing listing of the bytes that
no edit deletes (`CommitKeeps`, by the least set of places at which the fold and the listing would
differ). So both sides of `OffsetsFollowBytes` count the same bytes (`CommittedBytes`). The second part is
four invariants, each resting on the one before.

- `ShapeInv`: each edit lies in the instruction or padding of its relocation, one for each
  (`PlanFits`, which gives `Apart`); what is listed for the verification is recorded, once; a relocation
  that is no longer what it was in the object has been recorded or applied; a pass has
  visited exactly those before its cursor.
- `SyncInv`: the code keeps flags to know when the layout is stale (`m_PostRelaxLayoutChanged`,
  `m_PostRelaxNeedsAlignRedecision`, the result of the verification). The invariant says what they mean: when
  a round has rejected nothing and no layout is due, the sections lie where the pending edits put them
  (`Synced`), and each record before the cursor is rejected or fits under those edits and addresses.
- `AlignInv`: relative to an anchor of its section (0 where the section follows, its address where that is given)
  padding that has been decided ends on its alignment. A decision about padding is made from the front
  of a section to its end, so no later one moves what is decided (`BehindKeeps`); after a rejection,
  nothing is decided.
- `CommitInv`: there is a plan, that of the last round, which is synced, whose records fit and whose padding
  is aligned (`Settled`), and the output is what the commit makes of it for the sections before the
  cursor and untouched for the others (`Written`). The plan is under a quantifier because the commit
  takes the edits of a section out of the pending ones as it writes it.

The theorems about the image follow when all sections are written.

`PairsAgreeHold` has an argument of its own, since the halves of a pair are decided, verified and rejected
one by one. They have the same target. The verification takes the section of the high part for both, so under one
state of the link one fits when the other does (`HalvesFit`). The decision does not: the low part of an AUIPC is
decided with the section of its label, so its margin is another. What `FitsWithHigh` says of the two sections
carries from the high part to the low one (`LowPartFits`, `HalvesAgree`), and not back: a low part may be
rewritten and its high part kept, which is harmless. Between the visits of the two only code of their own section changes
(`SectionAtOnce`, from `SectionBySection`), and that moves nothing that lies elsewhere before the next
layout: not the target (`ElsewhereStays`), and not GP, which is a stored value (`GPBehind`). Hence the passes
record of the low part what they record of the high part (`AlikeInv`; `OrderInv` says what a pass
has still to visit, `EditsInv` that what is recorded has its edit); a verification sees one state of the link, so it
rejects both or neither, which a round in progress may have done only for one of them (`DropInv`); and the
commit joins what the records left (`JoinInv`). For a larger alignment of the code the first step is false, for a
target in the section of the pair the second, and without either condition so is the theorem.
The proof changed the model: GP followed pending edits in it and does not in the code.

Together they say what the bound in `postRelax` would have to be; the one it has is a finding.

`Layout_proofs` proves for all scripts, page sizes and trampolines, assuming that a script has a finite
sequence of sections, that its sections and expressions name only what it has, with natural
numbers, and that its assignments are numbered as they stand in it, each once (`LayoutAssumption`,
`InScriptOrder`):

- `RestartsBounded`: `Spec => [](segments <= Len(script.sections))`. A pass starts again at most once
  for each output section, so a pass ends. The inductive invariant says that every segment which has been
  created holds a section, except one for which the walk is about to restart (`SegmentsHeld`), and
  that what asked for that one stays true until the section is put into it (`PendingAttaches`): the
  assignments behind a section change neither its size nor its segment. That the number of segments
  is then bounded follows from a surjection of the sections onto the segments.
- `TypeCorrect`: `Spec => [](Orderly => TypeOK)`, and
- `LoadsApart`: `Spec => []((Orderly /\ RegionsContained) => LoadsDisjoint)`, and
- `GrowingSolved`: `Spec => [](Growing => Solved)`, and
- `DistanceKept`: `Spec => []((Static \/ InOnePlace) => SegmentsKeepDistance)`.

`Orderly` is a condition on the script alone. No section is in an overlay or has an address or load
address of its own; the assignments to `.` inside sections move it forward (`. = . + n`,
`. = ALIGN(n)`); and either there are no memory regions and the assignments behind sections move it
forward as well (`Consecutive`), or every section is in a region (`InMemory`), where the assignments
behind a section may set `.` to anything, since the cursors of the regions decide. Without it sections may
overlap by order of the user. `RegionsContained` says that the regions
have different origins and that no cursor has passed the next origin; the code keeps placing sections in a
region that is full and reports the overflow at the end (`verifyMemoryUsage`), so it cannot be proved.

The invariant is `OrderlyInv == Orderly => Typed /\ Ordered`. `Typed` is more than `TypeOK`: what is
evaluated is an assignment of the script whatever the pass, the assignment that a symbol was read from
exists (`SourcesTyped`), and the local variables of the walk are numbers where the pass reads them (`WalkTyped`).
`Ordered` is the argument why sections are apart. Without regions (`BehindCounter`): what this pass
has finished ends before the counter, a section ends before every later one begins, and its load address is its
address. With regions (`BehindCursors`): the same of each region, with its cursor for the counter, for
addresses and load addresses separately, because a section may be placed in one and loaded from another. A
restart empties both, and a trampoline is inserted between two layouts. The lemmas in the middle
say that the sum of the terms of an expression is a natural number (`SumOfNaturals`; a fold over a set of
pairs, one pair at a time), and that a sum with `.` or `ALIGN` among its terms is not less than `.`
(`MovesForward`). The model had to change for these proofs, and twice it was wrong or blind: a `CASE` in `StartOf`
had two arms for a section that is not loaded and in a region, and the section that lies at the load
address of the one before it (section 5) was in no run.

`GrowingSolved` says that when two snapshots agree, the values are those that the script gives of the
final layout. `Growing` is `Orderly` with two more conditions on the script: every section is loaded where it
lies, and `SIZEOF` is asked only of sections in which no assignment sets `.` (`Rigid`), and not inside of
the section itself. It is hard because a pass mixes three layouts: behind the walk lies what this pass has laid
out, before it what the last one has left, and in the middle of both the pass starts again for a new
segment; and because an expression is bound for good to the assignments that its names stand for when it is first
evaluated. The inductive invariant is `GrowingInv`. It has four witnesses (`Growth`): what the
counter was at each point of the script when the walk was there last, what each size was when the walk left its
section, and the number of assignments evaluated in this pass and in all.

- `Upward`: a counter of the past is never more than what it would be if its section, or the assignment
  before it, were left now (`Sound`). So addresses only rise from one visit to the next
  (`StepUp`, `SizesUp`), and a trampoline, which makes a section longer, leaves the invariant as it is (`StubIn`).
- `Filled`: a size that may be asked for is that of the contents, whenever it is asked for.
- `UpTo` and `Meant`: which assignments have been evaluated in this pass, and that a name is read of the nearest
  assignment before it, or of the last one of all if there is none (`MeantBy`). This rests on `InScriptOrder`: what
  was evaluated last when an expression is evaluated first is the nearest.
- `Risen`: no address and no value is less than in the snapshot.
- `Solves`: as long as nothing differs from the snapshot, the values of the assignments evaluated so far in this
  pass are what their expressions are worth now. Since nothing shrinks, what is equal at
  the end has not moved in between, so what was read early is what is found at the end.

That `GrowingInv` holds was checked by TLC before it was proved, with the witnesses as history variables. Of the scripts
of the runs, `Growing` holds of most `chains`, half of the `sizes`, all `twice`, most `kinds` and the `regions`
without load regions (about two thirds of all states); of `addresses` and `overlays`, where sections have
addresses of their own, nearly none.

`DistanceKept` says that the sections of a segment have one distance between addresses and load
addresses. In `InOnePlace` (`Orderly`, and no section has a load region of its own) the distance is 0.
`Static` is the case where the regions for load addresses, whose cursors go on without the padding of addresses,
matter: `Orderly` with every section loaded and in a region, and what an assignment to `.` in a section
reads is constant or the counter. Symbols may have any values, and assignments behind sections may be anything, since
the regions place the sections. `SegmentsKeepDistance` itself asks only of scripts in which the sections of a region
are loaded from one region, and of layouts without `AtLoadAddress`. The difficulty is that a segment is created
as the pass comes to a section, from what lies behind it, and then the pass starts again and may come by
with other addresses; and that the code skips sections without contents and `.tbss` when it asks what lies behind.
The inductive invariant is `StaticInv`, with two witnesses, the offsets inside each section and the number `k`
of a section:

- `Steady`: the first `k` sections have the addresses that every later pass will give them. The cursor of a
  region in front of a section depends on the sections before it only (`CursorOf`), and these on what they hold, so
  a section that has been filled once is filled alike from then on (`FinishBodySteady`). The witness `k` grows with the
  walk, survives restarts and iterations, and falls to 0 when a trampoline goes in (`InsertStubSteady`),
  after which there are no segments either.
- `Parted`: sections among the first `k` that share a segment have one distance (`Gathered`); `prev`, its flags and its
  regions are those of the last section that was put into a segment (`FollowsOn`); and what has been decided about the
  section at hand is what its address, load address and `prev` say (`Decided`, `Concluded`). Without
  `Steady` it is not inductive: the segments of one run of the pass would be judged by the addresses of the next.

TLC checked the invariant on the family `regions`, all of whose scripts are `Static`, and on some ten thousand other scripts
before it was proved. The proof found two flaws in the model. The property was false for a section that comes
to lie at its own load address, which the code takes for one that is loaded where it lies (section 5); no bound of
the runs had reached that, and the family has such scripts now. And `prev` may be null where the distance is taken, which the
model left out.

`SectionRules_proofs` proves for every finite set of sections, all plugins, scripts and links:

- `ChunksOnce`: `Spec => []EachChunkOnce`. Whatever a plugin adds, removes and replaces, when the checks
  let the link go on, a chunk that no other plugin has moved is in the image exactly once if it was
  merged, and nowhere otherwise.
- `ScriptFollowed`: `Spec => []ImageFollowsScript`. What no plugin has touched lies in the closest of the
  rules that accept it, and every rule that no plugin has changed is sorted by its policy.
- `PluginsPrevail`: `Spec => []OverridesPrevail`. A plugin that alone asks for a section has its way,
  whatever the others ask, finish or carry out, in whatever order.
- `TypeCorrect`: `Spec => []TypeOK`.

They assume that there are finitely many sections (`SectionsAssumption`), that their ranks differ, that every
output ends with its special rule, and the other types of a link (`LinksAssumption`); `Bss` is a name
(`BssAssumption`). The first part is about sorting: the ranks of the elements of a
finite set in a strict order are all the numbers up to its size (`RankedOnce`), so that what a rule holds
after the merging is a permutation of the sections that have matched it, whatever its policy
(`SectionsSorted`). The second says what an `Append`, a `RemoveAt` and an emptied rule do to the places
of a chunk. `EachChunkOnce` is far from inductive; the invariant is the balance of a chunk (`Balance`)
against the accounts of the one plugin that has moved it: on neither account it lies as the merging has
left it, among the removed it lies nowhere, and among the added it lies once too often. `addChunkOp` is
balanced because an add that would lie a second time too often is refused, and `updateChunks` because
it records a chunk that lies twice in the rule twice. The other conjuncts of `AccountsInv` say that only
who moves a chunk has it on an account, that nothing is moved before the merging, and that all accounts
are even when the link goes on.

The other theorems need the result of the search. The matchers are folds over the rules in the order of the
script. `FoundAmong` says in one expression what a search has found when it has seen a set of the rules
that accept a section: the foremost that is not special, or the hindmost. `OneMoreRule` shows that one more
rule changes that expression as the code changes its state, so the fold and the expression are
the same function of the first rules, and therefore of all (`AlikeUpTo`, by the least place where they would
differ); `MatchersAgree` draws from it that the two matchers find the same. The invariant is
`Inv == AccountsInv /\ TypeInv /\ ScriptInv`. In each phase, `ScriptInv` says which sections are inputs (`Arrived`)
and gathered (`Gathered`), what has been asked of a section and still waits (`Requests`), where a section
that nobody asked for is (`Follows`), where one is whose requests have been carried out and which ones
still count (`Prevail`), and, after the merging, that the chunks lie where their sections say (`Lying`) and in order
(`Ordered`). It has one lemma for each action (`AskScript` to `CreateScript`). The proof brought up a case that the
runs did not have: the special rule of an output that is discarded may accept a section on the way to a
closer rule, and the section is then ignored although it has the output of that rule
(`DiscardedOnTheWay`, section 5); the family `rules` now has it.

Only model checked: liveness (`Termination`, `Settles`), which is outside what the prover does, and
what recursive functions compute, which needs induction over data; of `NamePool`, what is said above of links with
libraries; of `Layout`, `TypeOK` and `LoadsDisjoint` for
scripts that are not `Orderly`, `Solved` for those that are not `Growing`, and `SegmentsKeepDistance` for those
with load regions that are not `Static`: overlays, given addresses, sections in regions mixed with others, and
symbols that move the counter inside sections of such regions. Whether
such a script places sections over one another is a condition on the values that expressions take in a
layout that is not yet known, and in some of them the values that agree are no solution (section 5).
They are checked on the families of section 3.

## 5. Findings

Each is a run that violates a property which a comment, a document or a test states.

- `NamePoolProtectedReference`: a hidden or protected reference read after the library that
  defines the name is bound to the library; read before it, it stays undefined as the test
  `Visibility.test` expects.
- `GarbageCollectionAssignments`: a relocation to an assigned symbol keeps the sections of the
  symbols of the assignment, but not of those of the assignments behind them.
- `RiscvRelaxationRounds`: the bound on the rounds of the settling counts one for each candidate and
  one more, but a round that rejects is followed by one that only writes the headers again. A link with
  one recorded call that is rejected fails.
- `RiscvRelaxationPairs`: the two halves of a pair are decided one after the other. When the target
  lies behind them in their own section, the deletion of the high part moves it at once, and GP
  only with the next layout; the low part may not fit and is kept, and the pair is committed halfway.
  The same comes of alignments, for a target anywhere: `fitsInGP` takes its margin from a section, which is
  that of the symbol for the high part and, since the symbol of a `PCREL_LO12` is a label, the code for the
  low part (`reloc->targetSection()`, `RISCVLDBackend.cpp:1565`). When the code, or the segment it is in,
  has the larger alignment, the high part fits and the low part does not. The families `own section`
  and `segments` each refute the property.
- `LayoutSizes`: sizes are not part of the snapshots that `convergeLayout` compares. When padding
  absorbs a trampoline, the first pass of the next layout agrees with the layout before, and a value
  that read the size ahead keeps the old one.

Observations made while reading, for which there is no run:

- Two commons of shared libraries reach the assertion `!isDyn()` of `ResolveInfo::overrideVisibility`
  through the action `MBIG` (`StaticResolver.cpp:234`).
- Sections with symbols that shared libraries mention are collected in an executable
  (`GarbageCollection.cpp:813`), though `linker_optimizations.md:11` counts them among the roots.
- The loop over a group counts the names of the pool (`GroupReader.cpp:92`). When weak references
  came first, a pass can read a member that makes one of them strong and adds no name, and the loop
  stops although the group could still resolve it. The same happens when a common replaces a weak definition
  and a member with a strong one is wanted from then on. `ScansClosed` states what does hold.
- When a bitcode reference with restricted visibility was read first, a library's symbol leaves no trace in
  the entry (`StaticResolver.cpp:97`), and a bitcode definition that comes later is not marked to be
  preserved for the library. It could not be bound to the library's reference either.
- A special rule of an output that discards makes a section ignored also when the search goes on and finds a
  closer rule elsewhere (`ObjectBuilder.cpp:387`): the section has an output and a rule, and is left out of
  the image.
- `relocAbs` does not write a place when its symbol is marked with `ReserveRel`
  (`x86_64Relocator.cpp:632`). The mark may be set by another reference, in a writable section;
  a read-only reference to the same copied data is then neither written nor relocated, in contrast
  to the comment in `ObjectLinker.cpp:2254`.
- `R_X86_64_64` to a weak undefined symbol with hidden visibility creates `R_X86_64_RELATIVE` in
  position independent output, so the pointer is the load address and not zero
  (`x86_64Relocator.cpp:323`). The GOT path has the exception, this one does not.
- The pass over padding never runs for shared objects (`RISCVLDBackend.cpp:1654`), in contrast to
  the comment behind it; `addRequiredNops` writes to the section at once, so padding whose decision
  is undone and then needs no deletion keeps the instructions of the first decision (`:1291`,
  `:1303`); sizes of symbols are compared with the size of the section that has already shrunk
  (`RegionFragmentEx.cpp:126`).
- A load address that equals the address cancels a segment that was asked for because the load
  address before it differs (`CreateProgramHeaders.hpp:565`): with `.a : AT(64)` before it,
  `.c : AT(ADDR(.c))` shares the segment of `.a`, contrary to `linker_faq.md:2054`. Likewise for a
  section in `>RAM` after one in `>RAM AT>FLASH`.
- Whether a section is loaded elsewhere than it lies is asked with the load address of the section before it
  (`CreateProgramHeaders.hpp:478`: `pma` is set only afterwards). A section in `>RAM AT>FLASH` whose
  address happens to be the load address of the one before it goes into the same `PT_LOAD` at whatever
  distance, contrary to `linker_faq.md:2054`. So does one whose own load address comes out as its
  address, because padding has made up for the difference (`:563`). `SegmentsKeepDistance` leaves both
  out (`AtLoadAddress`).
- If a `.tbss` comes before every other section of the image and has a load region of its own, the distance
  is measured from the section before it although there is none: `prev` is null at
  `CreateProgramHeaders.hpp:567`. The model leaves the result open.
- `AllInputSections` is gathered once (`ObjectLinker.cpp:1269`). A plugin that calls
  `finishAssignOutputSections` at an early hook, as `examples.md:314` asks after overrides, fixes
  the list before generated objects, commons or copies are inputs, and those are left out of the image
  though the comment there reads "Gather all input sections."
- An override of a section that the script discards has no effect: its kind stays `Ignore`
  (`ObjectBuilder.cpp:393`). The search of an override passes no file to `matched`
  (`SectionMap.cpp:123`), which asks it for the archive of a rule with a member.
- With threads, two overrides of one section write its output and its rule separately
  (`ObjectBuilder.cpp:862`), so that the rule may belong to another output; `OverridesPrevail` leaves
  such sections out.
- Overrides that a plugin asks for in `CreatingSections` are never carried out unless it finishes them, and
  never diagnosed: the check runs on entry to that state (`Module.cpp:894`). Carrying them out changes the
  output of a section whose chunk is merged already.
- The accounts of chunks are kept per plugin (`Plugin.cpp:449`): two plugins that remove and add one chunk
  between them can lose or duplicate it unnoticed, for instance when one removes and the other adds what
  both hold on even accounts after `updateChunks`. `EachChunkOnce` asks only of chunks that one plugin
  has moved.
- A chunk that a plugin adds elsewhere and removes again keeps the output and rule of the other place when
  no call has touched its own rule (`ObjectLinker.cpp:1225`). `updateChunks` with an empty list does not set
  the rule dirty (`LinkerScript.cpp:429`).
- `readInputs` does not look at the result of `readGroup` (`ObjectLinker.cpp:294`).
- Two snapshots can agree on values that are not those of the script when a size that an assignment to `.`
  makes is asked for. With `x = SIZEOF(.s2);` before the sections, four bytes and `. = . + x;` in `.s1`, and four
  bytes and `. = ALIGN(8);` in `.s2`, whose alignment is 1, the model ends with `x` at 8 and `.s2` 4 bytes long: within
  each pass, which starts again for the segment of `.s2`, the size is first 8 and then 4, and the snapshots see it
  at the end only. This is the condition of `GrowingSolved` on sizes; without it the theorem is false.
- A chain of five forward references, the example in `linker_script.md:740`, is not resolved
  within four passes; the link goes on with a note.

## 6. What is not modelled

- Readers and writers of ELF, script parsing, map files, drivers: input and output of bytes and
  text. What they read is a constant of the models.
- In `NamePool`: local symbols, versions, `--wrap`, symbol tracing. `StaticResolver` leaves out the
  set of commons in bitcode, which the code only writes.
- In `ArchiveReader`: the second reading after LTO, `--start-lib`, thin archives, `INPUT` and
  `GROUP` of a script in a nested file, read errors.
- In `GarbageCollection`: tracing, the cross reference table, partial links, sections of the linker's
  own files (never collected), the option by which LTO runs without a pass.
- In `RelocationScan`: targets other than x86-64, callbacks of plugins (which run before, in serial
  order), partial links, `-z notext`, `--unresolved-symbols`, static PIE, standard symbols such as
  `__ehdr_start`, absolute and empty symbols, aliases of copied data. `R_X86_64_TLSLD` in a static
  link ends in an assertion and is not among the inputs. The values that are written are not
  modelled: the applier appears only as the question whether a place is written.
- In `Layout`: `PHDRS`, file offsets and the headers in the image, segments other than `PT_LOAD`,
  `SUBALIGN` and `ALIGN_WITH_INPUT`, fills, lengths of regions, `PROVIDE` and `ASSERT`, several
  input sections in a rule with different alignments, wrapping addresses. The operators of expressions
  other than sums.
- In `RiscvRelaxation`: table jumps, Xqci instructions, GOT loads and TLS descriptors, whose
  edits are applied where they are decided. GP is absolute or in a section behind the code. A decision
  about padding that fails after a rejection ends in the state `error`.
- In `SectionRules`: partial links, groups, unique output sections, `INSERT`, sorting by init priority,
  rules and chunks that plugins create, sections that the target merges itself, and the properties of
  output sections (type, flags, alignment). Garbage collection is the set `unreferenced`; which sections
  that are is the subject of `GarbageCollection`.
- `PROVIDE`, COMDAT groups, symbol versions, merged strings, the other targets: each is a table or a
  matching of names whose result is an input of the models above, or waits for section 7.

## 7. Plan

Order of work, most important first. Runs of one module are merged when a new one is added, so that
each run keeps asking a question of its own.

1. Done: symbol resolution and the pool, archives, garbage collection, the relocation scan, the
   layout by a script, RISC-V relaxation, the section rules with the plugins that change them; the
   proofs of section 4.
2. The rest of the plugin interface: rules and chunks that plugins create, callbacks for relocations,
   and the effect of an unload.
3. `SectionRules` composed with `GarbageCollection` through `keep` and the sections that are collected.
4. `Comdat` with the name pool: one group wins, and no symbol of a losing group stays defined in
   a discarded section; composed with `NamePool` insertions.
5. `PHDRS` in `Layout`, and the second reading of archives after LTO in `ArchiveReader`.
6. Theorems. `Layout`: `SegmentsKeepDistance` for scripts whose symbols move the counter in sections, which needs the
   invariant of `GrowingSolved` for two spaces; the sections apart also with overlays and mixed regions.
