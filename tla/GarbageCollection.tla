--------------------------- MODULE GarbageCollection ---------------------------
(***************************************************************************)
(* The garbage collection of sections (--gc-sections): a graph of sections *)
(* and symbols is built from the relocations, the root sections are        *)
(* chosen, everything they reach is marked, and the rest is ignored by the *)
(* link.  A plugin may run a pass of its own before link time optimization *)
(* or before the pass of the linker.                                       *)
(*                                                                         *)
(* lib/GarbageCollection/GarbageCollection.cpp, and its callers in         *)
(* lib/Object/ObjectLinker.cpp and lib/LinkerWrapper/LinkerWrapper.cpp.    *)
(***************************************************************************)
EXTENDS Sequences, FiniteSets

CONSTANTS
  Sections,     \* the input sections, those of bitcode files included
  Symbols,      \* the symbols that relocations and expressions refer to
  NoSection,    \* not a section
  NoSymbol,     \* not a symbol
  Links         \* the links considered, each a member of LinkType

\* The kinds of sections as far as garbage collection tells them apart.
\* "Regular" stands for every kind that can be collected but "Common";
\* "Unhandled" for the kinds that are always kept (.eh_frame, notes, debug).
Kinds == {"Regular", "Common", "Unhandled", "Ignore", "Discard", "Bitcode"}

\* A run of the collector: of the linker, of a plugin, or of a plugin with
\* link time optimization to follow.
Passes == {<<"full">>, <<"common", "full">>, <<"common", "lto">>}
Remaining == Passes \cup {<<>>, <<"lto">>}

SymbolType ==
  [desc   : {"Define", "Undefined", "Common"},
   home   : Sections \cup {NoSection},   \* the section it is defined in
   global : BOOLEAN,
   hidden : BOOLEAN,                     \* its visibility is hidden
   script : BOOLEAN,                     \* the script assigns it
   uses   : SUBSET Symbols,              \* the symbols of the assignment
   names  : SUBSET Sections]             \* for __start_x, __stop_x: those named x

LinkType ==
  [kind     : [Sections -> Kinds],
   alloc    : SUBSET Sections,
   rels     : [Sections -> SUBSET Symbols],     \* relocations, plugin references
   backend  : [Sections -> SUBSET Sections],    \* references the target adds
   symbol   : [Symbols -> SymbolType],
   entry    : Symbols \cup {NoSymbol},
   firstText : Sections \cup {NoSection},       \* the first code of the objects
   keep     : SUBSET Sections,                  \* KEEP of the script
   retain   : SUBSET Sections,                  \* SHF_GNU_RETAIN
   undefs   : SUBSET Symbols,                   \* -u, --export-dynamic-symbol
   shared   : BOOLEAN,                          \* the output is a shared library
   exportDynamic : BOOLEAN,
   local    : SUBSET Symbols,                   \* local in the version script of a
                                                \* dynamic output
   preserve : SUBSET Symbols,                   \* marked by symbol resolution
   passes   : Passes]

\* A symbol that the script defines has no section of its own; only sections of
\* objects are named by KEEP or carry a flag.
ASSUME LinksAssumption ==
  /\ NoSection \notin Sections /\ NoSymbol \notin Symbols
  /\ Links \subseteq LinkType
  /\ \A l \in Links :
       /\ \A x \in Symbols : l.symbol[x].script /\ l.symbol[x].desc = "Define"
                              => l.symbol[x].home = NoSection
       /\ \A s \in l.keep \cup l.retain : l.kind[s] # "Bitcode"

VARIABLES
  link,           \* the link: what was read from the inputs
  todo,           \* the passes still to run
  phase,          \* the step of the current pass
  kind,           \* section -> its kind now
  reachedSects,   \* section -> the sections it refers to
  reachedSyms,    \* section -> the symbols it refers to
  listed,         \* the bitcode sections that have been traversed
  bitcodeQueue,   \* the bitcode sections to traverse
  entries,        \* the root sections
  pending,        \* the roots not yet marked from
  workList,       \* the sections waiting to be processed
  referenced,     \* MReferencedSections
  liveSet,        \* LiveSet: the roots and everything pushed
  ignored,        \* the symbols with ShouldIgnore set
  preserved       \* the bitcode symbols that optimization must keep

graph == <<reachedSects, reachedSyms, listed, bitcodeQueue>>
marks == <<entries, pending, workList, referenced, liveSet>>
vars  == <<link, todo, phase, kind, graph, marks, ignored, preserved>>

Sym(x)     == link.symbol[x]
HasHome(x) == Sym(x).home # NoSection
Homes(X)   == {Sym(x).home : x \in {y \in X : HasHome(y)}}

IsBitcodeSection(s) == link.kind[s] = "Bitcode"
IsBitCode(x)  == HasHome(x) /\ IsBitcodeSection(Sym(x).home)
\* A symbol with a fragment: one defined in a section of an object.
HasFragRef(x) == HasHome(x) /\ ~IsBitCode(x)
WithFragRef(X) == {x \in X : HasFragRef(x)}
\* An assignment of the script defines it.
Scripted(x) == Sym(x).script /\ Sym(x).desc = "Define"

mayProcessGC(s) == kind[s] \in {"Regular", "Common"}

Init ==
  /\ link \in Links
  /\ todo = link.passes
  /\ phase = "graph"
  /\ kind = link.kind
  /\ reachedSects = [s \in Sections |-> {}]
  /\ reachedSyms = [s \in Sections |-> {}]
  /\ listed = {} /\ bitcodeQueue = {}
  /\ entries = {} /\ pending = {} /\ workList = {}
  /\ referenced = {} /\ liveSet = {}
  /\ ignored = {x \in Symbols : ~Scripted(x)}
  /\ preserved = {}

------------------------------------------------------------------------------
(***************************************************************************)
(* The graph: setUpReachedSectionsAndSymbols, where RecordOneRef adds what *)
(* one relocation refers to.                                               *)
(***************************************************************************)
\* A fault: a symbol that the script assigns has no section.
SectionsWithoutAssignments(x) == Sym(x).names \cup Homes({x})

SectionsOf(x) ==
  IF IsBitCode(x) THEN {Sym(x).home}
  ELSE IF Scripted(x) THEN Homes(WithFragRef(Sym(x).uses))
  ELSE IF Sym(x).desc = "Define" /\ HasFragRef(x) THEN {Sym(x).home}
  ELSE Sym(x).names \cup Homes({x})

\* A fault: only the symbols with a fragment are recorded.
SymbolsWithFragment(x) ==
  IF Scripted(x) THEN WithFragRef(Sym(x).uses) ELSE WithFragRef({x})

SymbolsOf(x) ==
  IF ~IsBitCode(x) /\ Scripted(x) THEN WithFragRef(Sym(x).uses) ELSE {x}

\* The references of an object's section, with those the target adds.
ReachedFromObject(s) ==
  link.backend[s] \cup UNION {SectionsOf(x) : x \in link.rels[s]}

setUpReachedSectionsAndSymbols ==
  LET objects == {s \in Sections : ~IsBitcodeSection(s)}
  IN /\ phase = "graph" /\ todo # <<>> /\ Head(todo) # "lto"
     /\ reachedSects' = [s \in Sections |->
                           IF s \in objects THEN ReachedFromObject(s) ELSE {}]
     /\ reachedSyms' = [s \in Sections |->
                          IF s \in objects
                            THEN UNION {SymbolsOf(x) : x \in link.rels[s]} ELSE {}]
     /\ bitcodeQueue' = {Sym(x).home : x \in
                           {y \in UNION {link.rels[s] : s \in objects} : IsBitCode(y)}}
     /\ listed' = {}
     /\ phase' = "bitcode"
     /\ UNCHANGED <<link, todo, kind, marks, ignored, preserved>>

\* What the reference of a bitcode section to x stands for (ProcessSym).
FromBitcode(x) == IF Scripted(x) THEN Sym(x).uses ELSE {x}

\* One section popped by findReachedBitCodeSectionsAndSymbols.  The queue of the
\* code may hold a section twice, and skips it the second time.
findReachedBitCodeSections(s) ==
  LET targets == UNION {FromBitcode(x) : x \in link.rels[s]}
      found   == Homes({x \in targets : IsBitCode(x)})
  IN /\ phase = "bitcode" /\ s \in bitcodeQueue
     /\ listed' = listed \cup {s}
     /\ reachedSects' = [reachedSects EXCEPT ![s] = Homes(targets)]
     /\ reachedSyms' = [reachedSyms EXCEPT ![s] = WithFragRef(targets)]
     /\ bitcodeQueue' = (bitcodeQueue \cup found) \ listed'
     /\ UNCHANGED <<link, todo, phase, kind, marks, ignored, preserved>>

------------------------------------------------------------------------------
(***************************************************************************)
(* The roots: getEntrySections.                                            *)
(***************************************************************************)
\* The named roots, by symbol: the entry, -u and --export-dynamic-symbol.
NamedSymbols == link.undefs \cup ({link.entry} \ {NoSymbol})
NamedRoots   == Homes(NamedSymbols)

\* An executable without an entry symbol falls back to its first code.
FallbackRoots ==
  IF link.entry # NoSymbol /\ HasHome(link.entry) THEN {}
  ELSE {link.firstText} \ {NoSection}

ScriptRoots == link.keep \cup link.retain

\* The commons that an assignment of the script defines again.
AssignedCommons ==
  Homes({x \in Symbols : Sym(x).script /\ Sym(x).desc = "Common"})

\* treatSymbolAsEntry, for an executable.
treatSymbolAsEntry(x) ==
  \/ Sym(x).home \in link.retain
  \/ /\ Sym(x).desc = "Define" /\ Sym(x).global /\ ~Sym(x).hidden
     /\ link.exportDynamic

ExecutableEntries ==
  {x \in Symbols : HasFragRef(x) /\ Sym(x).global /\ x \notin link.local
                     /\ treatSymbolAsEntry(x)}

\* A shared library keeps what others can see; every common is an entry.
SharedDefinitions ==
  {x \in Symbols : HasFragRef(x) /\ Sym(x).global /\ ~Sym(x).hidden
                     /\ Sym(x).desc = "Define" /\ x \notin link.local}
SharedCommons ==
  {x \in Symbols : HasFragRef(x) /\ Sym(x).global /\ Sym(x).desc = "Common"}

Collectable(S) == {s \in S : mayProcessGC(s)}

CommonRoots == NamedRoots \cup ScriptRoots \cup AssignedCommons

EntrySections ==
  IF link.shared
    THEN CommonRoots \cup Homes(SharedCommons) \cup Collectable(Homes(SharedDefinitions))
    ELSE CommonRoots \cup FallbackRoots \cup Collectable(Homes(ExecutableEntries))

\* An executable with no root at all is an error: the pass does nothing.
NoEntry == ~link.shared /\ CommonRoots \cup FallbackRoots = {}

EndPass == todo' = Tail(todo) /\ phase' = "graph"

getEntrySections ==
  /\ phase = "bitcode" /\ bitcodeQueue = {}
  /\ preserved' = preserved \cup {x \in NamedSymbols : IsBitCode(x)}
  /\ ignored' = (ignored \ link.undefs)
                  \ (IF link.shared \/ NoEntry THEN {}
                     ELSE {x \in ExecutableEntries : Sym(x).home \in link.retain})
  /\ IF NoEntry
     THEN EndPass /\ UNCHANGED marks
     ELSE /\ phase' = "mark"
          /\ entries' = EntrySections /\ pending' = EntrySections
          /\ workList' = {} /\ referenced' = {} /\ liveSet' = {}
          /\ UNCHANGED todo
  /\ UNCHANGED <<link, kind, graph>>

------------------------------------------------------------------------------
(***************************************************************************)
(* The marking: findReferencedSectionsAndSymbols.                          *)
(***************************************************************************)
\* Faults: the root is not live itself; only the first root is visited.
PushEntryUnmarked(e) ==
  /\ phase = "mark" /\ workList = {} /\ e \in pending
  /\ pending' = pending \ {e} /\ workList' = {e}
  /\ UNCHANGED <<link, todo, phase, kind, graph, entries, referenced, liveSet,
                 ignored, preserved>>
PushOneEntry(e) ==
  /\ phase = "mark" /\ workList = {} /\ e \in pending
  /\ pending' = {} /\ workList' = {e} /\ liveSet' = liveSet \cup {e}
  /\ UNCHANGED <<link, todo, phase, kind, graph, entries, referenced, ignored,
                 preserved>>

\* A root is pushed once nothing is left to process from the roots before it.
PushEntry(e) ==
  /\ phase = "mark" /\ workList = {} /\ e \in pending
  /\ pending' = pending \ {e}
  /\ workList' = {e}
  /\ liveSet' = liveSet \cup {e}
  /\ UNCHANGED <<link, todo, phase, kind, graph, entries, referenced, ignored,
                 preserved>>

\* A section that a discarded rule keeps is followed too.
Followed(s) ==
  IsBitcodeSection(s) \/ mayProcessGC(s) \/ (kind[s] = "Ignore" /\ s \in entries)

\* A fault: a section is processed every time it is reached.
ProcessSectionAgain(s) ==
  /\ phase = "mark" /\ s \in workList
  /\ referenced' = referenced \cup {s}
  /\ workList' = (workList \ {s}) \cup reachedSects[s]
  /\ liveSet' = liveSet \cup reachedSects[s]
  /\ UNCHANGED <<link, todo, phase, kind, graph, entries, pending, ignored,
                 preserved>>

ProcessSection(s) ==
  /\ phase = "mark" /\ s \in workList
  /\ IF Followed(s) /\ s \notin referenced
     THEN LET found == reachedSects[s] \ (referenced \cup {s})
          IN /\ referenced' = referenced \cup {s}
             /\ workList' = (workList \ {s}) \cup found
             /\ liveSet' = liveSet \cup found
     ELSE workList' = workList \ {s} /\ UNCHANGED <<referenced, liveSet>>
  /\ UNCHANGED <<link, todo, phase, kind, graph, entries, pending, ignored,
                 preserved>>

------------------------------------------------------------------------------
(***************************************************************************)
(* The sweep: stripSections.  A plugin's pass only drops commons: the      *)
(* other sections are ignored while the symbols are visited and restored   *)
(* afterwards.                                                             *)
(***************************************************************************)
Unreferenced ==
  {s \in Sections : ~IsBitcodeSection(s) /\ mayProcessGC(s) /\ s \notin referenced}

\* The symbols that the sections left refer to; those without memory at run time
\* only keep what nothing else can.
StillReferred ==
  UNION {{x \in reachedSyms[s] : s \in link.alloc \cup liveSet \/ ~Sym(x).global} :
         s \in {t \in Sections : /\ ~IsBitcodeSection(t) /\ t \notin Unreferenced
                                 /\ kind[t] \notin {"Ignore", "Discard"}}}

stripSections ==
  /\ phase = "mark" /\ pending = {} /\ workList = {}
  /\ kind' = [s \in Sections |->
                IF s \in Unreferenced /\ (Head(todo) = "full" \/ kind[s] = "Common")
                  THEN "Ignore" ELSE kind[s]]
  /\ ignored' = ignored \ StillReferred
  /\ EndPass
  /\ UNCHANGED <<link, graph, marks, preserved>>

\* ObjectLinker::finalizeLtoSymbolResolution: of the marked bitcode symbols, the
\* ones that the plugin's pass has found in use are preserved, and so are the
\* definitions that a shared library shows.
finalizeLtoSymbolResolution ==
  LET marked  == IF link.exportDynamic THEN Symbols ELSE link.preserve \cup preserved
      visible == {x \in Symbols : /\ link.shared /\ Sym(x).desc # "Undefined"
                                  /\ Sym(x).global /\ ~Sym(x).hidden
                                  /\ x \notin link.local}
  IN /\ phase = "graph" /\ todo = <<"lto">>
     /\ preserved' = {x \in (marked \ ignored) \cup visible : IsBitCode(x)}
     /\ EndPass
     /\ UNCHANGED <<link, kind, graph, marks, ignored>>

Next ==
  \/ setUpReachedSectionsAndSymbols
  \/ getEntrySections
  \/ \E s \in Sections : \/ findReachedBitCodeSections(s)
                         \/ PushEntry(s)
                         \/ ProcessSection(s)
  \/ stripSections
  \/ finalizeLtoSymbolResolution

Spec == Init /\ [][Next]_vars
FairSpec == Spec /\ WF_vars(Next)

------------------------------------------------------------------------------
(***************************************************************************)
(* Properties.                                                             *)
(***************************************************************************)
TypeOK ==
  /\ link \in LinkType
  /\ todo \in Remaining
  /\ phase \in {"graph", "bitcode", "mark"}
  /\ phase # "graph" => todo # <<>>
  /\ kind \in [Sections -> Kinds]
  /\ reachedSects \in [Sections -> SUBSET Sections]
  /\ reachedSyms \in [Sections -> SUBSET Symbols]
  /\ listed \subseteq Sections /\ bitcodeQueue \subseteq Sections
  /\ entries \subseteq Sections /\ pending \subseteq entries
  /\ workList \subseteq liveSet /\ referenced \subseteq liveSet
  /\ liveSet \subseteq Sections
  /\ ignored \subseteq Symbols /\ preserved \subseteq Symbols

\* What the passes so far have dropped.
Collected == {s \in Sections : kind[s] # link.kind[s]}

\* The sweep drops exactly the sections that no chain of references leads to from
\* a root: the order in which roots and sections are visited does not show, and
\* a section reached twice, or through a cycle, is marked all the same.
Reachability == INSTANCE MarkSweep WITH
  roots      <- EntrySections,
  edges      <- reachedSects,
  followed   <- {s \in Sections : Followed(s)},
  candidates <- {s \in Sections :
                   todo # <<>> /\ (kind[s] = "Common"
                                     \/ (kind[s] = "Regular" /\ Head(todo) = "full"))},
  collected  <- Collected

CollectsTheUnreachable == Reachability!Spec

BetweenPasses == phase = "graph"
Ended == todo = <<>>

\* What an assignment or a relocation of x makes live when the section with the
\* relocation is.
Targets(x) == IF Scripted(x) THEN Sym(x).uses ELSE {x}

\* A relocation of a section that is kept and followed never points at something
\* the sweep has dropped: the section of its symbol is still there, and so are the
\* sections of the symbols that a script assignment names, and the symbol is not
\* marked as garbage (its relocations would be patched to a dummy address).
LiveReferencesKept ==
  BetweenPasses =>
    \A s \in referenced : ~IsBitcodeSection(s) =>
      \A x \in link.rels[s] :
        /\ Homes(Targets(x)) \cap Collected = {}
        /\ kind[s] # "Ignore" /\ ~Scripted(x) => x \notin ignored

\* What the user asked to keep is never collected: the entry, the sections of
\* KEEP, the retained ones and those of the symbols given on the command line.
RootsKept == (NamedRoots \cup ScriptRoots) \cap Collected = {}

\* The pass of a plugin drops nothing that the pass of the linker then reaches.
PluginPassHarmless == Ended => liveSet \cap Collected = {}

\* A bitcode definition that a section in use refers to is preserved by the
\* optimizer when it is marked, though a plugin ran a pass of its own.
UsedDefinitionsPreserved ==
  Ended /\ link.passes = <<"common", "lto">> =>
    \A s \in referenced : link.kind[s] = "Regular" =>
      \A x \in link.rels[s] : IsBitCode(x) /\ x \in link.preserve => x \in preserved

\* A plugin's pass over commons takes nothing away from the passes behind it: no
\* section that they reach, and no definition that the optimizer must preserve.
PassesHarmless == PluginPassHarmless /\ UsedDefinitionsPreserved

\* The collector stops: marking a graph with cycles comes to an end.
Termination == <>Ended

\* The symbols of the assignment behind a relocation are live, and so are the
\* symbols of their own assignments in turn.
AssignmentChainsFollowed ==
  BetweenPasses =>
    \A s \in referenced : ~IsBitcodeSection(s) =>
      \A x \in link.rels[s] : Scripted(x) =>
        \A y \in Sym(x).uses : Homes(Targets(y)) \cap Collected = {}
================================================================================
