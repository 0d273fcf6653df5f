----------------------------- MODULE SectionRules -----------------------------
(***************************************************************************)
(* From input sections to the contents of output sections: the matching of *)
(* the rules before and after link time optimization, what plugins may ask *)
(* for at the hooks in between, the merging of the sections into the       *)
(* rules, and the chunks that plugins move afterwards.                     *)
(*                                                                         *)
(* lib/Object/ObjectBuilder.cpp, lib/Object/ObjectLinker.cpp,              *)
(* lib/Core/LinkerScript.cpp, lib/Core/Linker.cpp, lib/Script/Plugin.cpp   *)
(* and lib/Core/Module.cpp.  A section is one chunk; partial links, groups *)
(* and unique output sections are left out.                                *)
(***************************************************************************)
EXTENDS RuleMatching, FiniteSets

CONSTANTS
  Sections,   \* input sections
  Plugins,
  Targets,    \* names of outputs that plugins ask for; a name is a number
  Bss,        \* the name .bss
  Links       \* the links considered

\* When a section becomes an input: with the objects, with those of link time
\* optimization, as a common of the linker's own file, or as the copy of a symbol
\* that the scan of the relocations makes.
Arrivals == {"object", "lto", "common", "copy"}

Hooks == {"before lto", "before matching", "matcher", "iterator",
          "before merging", "before layout", "creating"}

ASSUME SectionsAssumption == IsFiniteSet(Sections)

ASSUME BssAssumption == Bss \in Nat

\* rank is the order of the sections in the files and of the files in the link.
ASSUME LinksAssumption ==
  \A l \in Links :
    /\ l.rank \in [Sections -> Nat]
    /\ \A s, t \in Sections : l.rank[s] = l.rank[t] => s = t
    /\ l.arrives \in [Sections -> Arrivals] /\ l.name \in [Sections -> Nat]
    /\ l.align \in [Sections -> Nat]
    /\ l.lto \in BOOLEAN /\ l.legacy \in BOOLEAN /\ l.threads \in BOOLEAN
    /\ l.writable \subseteq Sections /\ l.unreferenced \subseteq Sections
    /\ l.hooks \in [Plugins -> SUBSET Hooks]
    /\ l.calls \in Nat /\ l.moves \in Nat
    /\ l.script \in Seq(OutputRecords(Sections))
    /\ \A o \in DOMAIN l.script :
         l.script[o].rules # <<>> /\ l.script[o].rules[Len(l.script[o].rules)].special

VARIABLES
  link,        \* the script, the sections and the options
  phase,       \* how far the link is, by what comes next
  inputs,      \* the sections of the files of the link
  all,         \* the sections of AllInputSections, gathered once
  output,      \* the output of a section, 0 for none ...
  rule,        \* ... and the rule it has matched
  ignored,     \* sections of kind Ignore
  entries,     \* sections of KEEP rules
  overrides,   \* plugin -> overrides that wait: <<section, name of an output>>
  contents,    \* rule -> the chunks it holds
  dirty,       \* rules whose chunks a plugin has changed
  updating,    \* updateChunks at work: the plugin, the rule and the chunks to add
  added,       \* plugin -> UnbalancedAdds
  removed,     \* plugin -> UnbalancedRemoves
  merged,      \* history: the sections that were merged
  asked,       \* history: section -> overrides asked for it, in order
  late,        \* history: a plugin has asked when the chunks were already merged
  movers,      \* history: section -> the plugins that have moved its chunk
  moves        \* history: how often a plugin has moved chunks

asking == <<overrides, asked, late>>
moving == <<contents, dirty, updating, added, removed, merged, movers, moves>>
vars == <<link, phase, inputs, all, output, rule, ignored, entries, asking, moving>>

------------------------------------------------------------------------------
\* The places of a link: the rules of the script and, for a name that no rule
\* has, the default rule of an output that is created when it is needed.

Orphanage(name) == <<Len(link.script) + 1 + name, 1>>

Slots ==
  Places(link.script) \cup {Orphanage(n) : n \in {Bss} \cup {link.name[s] : s \in Sections}}

Arriving(kind) == {s \in Sections : link.arrives[s] = kind}

Discards(o) == o \in DOMAIN link.script /\ link.script[o].discard

Init ==
  /\ link \in Links
  /\ phase = IF link.lto THEN "match for lto" ELSE "resolve"
  /\ inputs = Arriving("object")
  /\ all = {}
  /\ output = [s \in Sections |-> 0]
  /\ rule = [s \in Sections |-> Unplaced]
  /\ ignored = {} /\ entries = {}
  /\ overrides = [p \in Plugins |-> <<>>]
  /\ asked = [s \in Sections |-> <<>>]
  /\ late = FALSE
  /\ contents = [p \in Slots |-> <<>>]
  /\ dirty = {}
  /\ updating = <<>>
  /\ added = [p \in Plugins |-> {}]
  /\ removed = [p \in Plugins |-> {}]
  /\ merged = {}
  /\ movers = [s \in Sections |-> {}]
  /\ moves = 0

------------------------------------------------------------------------------
\* Matching.

\* The sections that have no output yet get one; a section that the script
\* discards is ignored.  What a KEEP rule has matched becomes an entry.
assignOutputSections ==
  LET sects   == {s \in inputs \ ignored : output[s] = 0}
      matches == IF link.legacy
                 THEN assignInputFromOutputLegacy(link.script, sects, link.writable)
                 ELSE assignInputFromOutput(link.script, sects, link.writable)
      hit     == {s \in sects : matches[s].place # Unplaced}
  IN /\ rule' = [s \in Sections |-> IF s \in hit THEN matches[s].place ELSE rule[s]]
     /\ output' = [s \in Sections |-> IF s \in hit THEN matches[s].place[1] ELSE output[s]]
     /\ ignored' = ignored \cup {s \in sects : matches[s].discarded}
     /\ entries' = entries \cup
                     {s \in inputs : rule'[s] # Unplaced /\ RuleAt(link.script, rule'[s]).keep}

MatchForLTO ==
  /\ phase = "match for lto"
  /\ assignOutputSections
  /\ phase' = "before lto"
  /\ UNCHANGED <<link, inputs, all, asking, moving>>

\* The optimizer's objects are read.
createLTOObject ==
  /\ phase = "before lto"
  /\ inputs' = inputs \cup Arriving("lto")
  /\ phase' = "resolve"
  /\ UNCHANGED <<link, all, output, rule, ignored, entries, asking, moving>>

resolve ==
  /\ phase = "resolve"
  /\ inputs' = inputs \cup Arriving("common")
  /\ phase' = "before matching"
  /\ UNCHANGED <<link, all, output, rule, ignored, entries, asking, moving>>

MatchRules ==
  /\ phase = "before matching"
  /\ assignOutputSections
  /\ phase' = "matcher"
  /\ UNCHANGED <<link, inputs, all, asking, moving>>

dataStrippingOpt ==
  /\ phase = "matcher"
  /\ ignored' = ignored \cup ((inputs \cap link.unreferenced) \ entries)
  /\ phase' = "iterator"
  /\ UNCHANGED <<link, inputs, all, output, rule, entries, asking, moving>>

------------------------------------------------------------------------------
\* Overrides.

\* A plugin asks for an output; nothing else happens yet.
setOutputSection(p, s, name) ==
  /\ phase \in link.hooks[p] /\ updating = <<>>
  /\ s \in inputs
  /\ overrides' = [overrides EXCEPT ![p] = Append(@, <<s, name>>)]
  /\ asked' = [asked EXCEPT ![s] = Append(@, <<p, name>>)]
  /\ late' = (late \/ phase = "creating")
  /\ UNCHANGED <<link, phase, inputs, all, output, rule, ignored, entries, moving>>

\* The overrides that wait for some plugins: a plugin and a position in its list.
\* Those that name no output are dropped.
Pending(who) ==
  {op \in UNION {{p} \X DOMAIN overrides[p] : p \in who} :
     findIter(link.script, overrides[op[1]][op[2]][2]) # 0}

\* The output and the rule of each section named by overrides.  In one thread the
\* last for a section wins, where rank orders the plugins; in several the two
\* fields are written without a lock.
reAssignOutputSections(who, rank) ==
  LET Section(op) == overrides[op[1]][op[2]][1]
      Target(op)  == findIter(link.script, overrides[op[1]][op[2]][2])
      moved       == {Section(op) : op \in Pending(who)}
      For(s)      == {op \in Pending(who) : Section(op) = s}
      After(a, b) == rank[a[1]] > rank[b[1]] \/ (a[1] = b[1] /\ a[2] > b[2])
      Latest(s)   == {op \in For(s) : \A other \in For(s) \ {op} : After(op, other)}
      Wins(s)     == {Target(op) : op \in IF link.threads THEN For(s) ELSE Latest(s)}
  IN \E outputs, rules \in [moved -> DOMAIN link.script] :
       /\ \A s \in moved : outputs[s] \in Wins(s) /\ rules[s] \in Wins(s)
       /\ output' = [s \in Sections |-> IF s \in moved THEN outputs[s] ELSE output[s]]
       /\ rule' = [s \in Sections |-> IF s \in moved THEN findOnlyIn(link.script, rules[s], s)
                                      ELSE rule[s]]

\* All input sections are gathered, unless they have been.
initializeMerge ==
  all' = IF all = {} THEN inputs ELSE all

\* Fault: the overrides of the other plugins are gone as well.
clearAllSectionOverrides(p) == [q \in Plugins |-> <<>>]

clearSectionOverrides(p) == [overrides EXCEPT ![p] = <<>>]

\* A plugin wants its overrides to be done at once.
finishAssignOutputSections(p) ==
  /\ phase \in link.hooks[p] /\ updating = <<>>
  /\ reAssignOutputSections({p}, [q \in Plugins |-> 0])
  /\ overrides' = clearSectionOverrides(p)
  /\ initializeMerge
  /\ UNCHANGED <<link, phase, inputs, ignored, entries, asked, late, moving>>

\* What waits after the last hook before the scan is done for all plugins, in the
\* order of a hash table.
runSectionIteratorPlugin ==
  /\ phase = "iterator"
  /\ \E rank \in Injection(Plugins, 1..Cardinality(Plugins)) :
       reAssignOutputSections(Plugins, rank)
  /\ overrides' = [p \in Plugins |-> <<>>]
  /\ phase' = "scan"
  /\ UNCHANGED <<link, inputs, all, ignored, entries, asked, late, moving>>

scanRelocations ==
  /\ phase = "scan"
  /\ inputs' = inputs \cup Arriving("copy")
  /\ phase' = "merge"
  /\ UNCHANGED <<link, all, output, rule, ignored, entries, asking, moving>>

------------------------------------------------------------------------------
\* Merging.

\* The last rule of .bss.
FallbackBSS ==
  LET bss == findIter(link.script, Bss)
  IN IF bss = 0 THEN Orphanage(Bss) ELSE <<bss, Len(link.script[bss].rules)>>

\* Before the hooks: sections are gathered, and commons and copies without a rule
\* fall to .bss.
beginMergeSections ==
  LET fall == {s \in inputs : link.arrives[s] \in {"common", "copy"} /\ output[s] = 0}
  IN /\ phase = "merge"
     /\ initializeMerge
     /\ output' = [s \in Sections |-> IF s \in fall THEN FallbackBSS[1] ELSE output[s]]
     /\ rule' = [s \in Sections |-> IF s \in fall THEN FallbackBSS ELSE rule[s]]
     /\ phase' = "before merging"
     /\ UNCHANGED <<link, inputs, ignored, entries, asking, moving>>

\* The hook of the plugins that look at output sections.
runOutputSectionIteratorPlugin ==
  /\ phase = "before merging"
  /\ phase' = "before layout"
  /\ UNCHANGED <<link, inputs, all, output, rule, ignored, entries, asking, moving>>

\* The rule that a section is merged into.
HomeOf(s) == IF output[s] = 0 THEN Orphanage(link.name[s]) ELSE rule[s]

Mergeable(s) == s \notin ignored /\ ~Discards(output[s])

PolicyOf(p) ==
  IF p \in Places(link.script) THEN RuleAt(link.script, p).sort ELSE "none"

\* The sections are merged into their rules in the order of the files, and the
\* rules are sorted.  Sections without an output get one of their name.
mergeInputSections ==
  LET sects   == {s \in all : Mergeable(s)}
      orphans == {s \in sects : output[s] = 0}
      Home(p) == {s \in sects : HomeOf(s) = p}
  IN /\ contents' = [p \in Slots |->
           sortSections(InOrder(Home(p), link.rank), PolicyOf(p), link.name, link.align)]
     /\ merged' = UNION {Home(p) : p \in Slots}
     /\ output' = [s \in Sections |-> IF s \in orphans THEN HomeOf(s)[1] ELSE output[s]]
     /\ rule' = [s \in Sections |-> IF s \in orphans THEN HomeOf(s) ELSE rule[s]]

verifyInvariantsForCreatingSectionsState == \A p \in Plugins : overrides[p] = <<>>

\* The link ends when an override is still pending.
mergeSections ==
  /\ phase = "before layout"
  /\ mergeInputSections
  /\ phase' = IF verifyInvariantsForCreatingSectionsState THEN "creating" ELSE "failed"
  /\ UNCHANGED <<link, inputs, all, ignored, entries, asking, dirty, updating, added,
                 removed, movers, moves>>

------------------------------------------------------------------------------
\* Chunks.

\* An add takes back a remove of the same chunk by the plugin, and the reverse.
recordFragmentAdd(p, s) ==
  /\ removed' = [removed EXCEPT ![p] = @ \ {s}]
  /\ added' = IF s \in removed[p] THEN added ELSE [added EXCEPT ![p] = @ \cup {s}]

recordFragmentRemove(p, s) ==
  /\ added' = [added EXCEPT ![p] = @ \ {s}]
  /\ removed' = IF s \in added[p] THEN removed ELSE [removed EXCEPT ![p] = @ \cup {s}]

\* A plugin that has added a chunk cannot add it once more.
addChunkOp(p, r, s) ==
  /\ output' = [output EXCEPT ![s] = r[1]]
  /\ rule' = [rule EXCEPT ![s] = r]
  /\ contents' = [contents EXCEPT ![r] = Append(@, s)]
  /\ dirty' = dirty \cup {r}
  /\ recordFragmentAdd(p, s)
  /\ movers' = [movers EXCEPT ![s] = @ \cup {p}]

MayMove(p) ==
  /\ phase = "creating" /\ phase \in link.hooks[p]
  /\ updating = <<>>
  /\ moves' = moves + 1

addChunk(p, r, s) ==
  /\ MayMove(p) /\ s \notin added[p]
  /\ addChunkOp(p, r, s)
  /\ UNCHANGED <<link, phase, inputs, all, ignored, entries, asking, updating, merged>>

\* The first occurrence of the chunk goes; the rule is dirty even when there is none.
removeChunk(p, r, s) ==
  LET At == {i \in DOMAIN contents[r] : contents[r][i] = s}
  IN /\ MayMove(p)
     /\ dirty' = dirty \cup {r}
     /\ \/ /\ \E first \in At :
                /\ \A i \in At : first <= i
                /\ contents' = [contents EXCEPT ![r] = RemoveAt(@, first)]
           /\ recordFragmentRemove(p, s)
           /\ movers' = [movers EXCEPT ![s] = @ \cup {p}]
        \/ At = {} /\ UNCHANGED <<contents, added, removed, movers>>
     /\ UNCHANGED <<link, phase, inputs, all, output, rule, ignored, entries, asking, updating,
                    merged>>

\* All chunks of a rule are replaced: those it holds are recorded as removed, one
\* by one, and dropped ...
updateChunks(p, r, chunks) ==
  LET held  == ToSet(contents[r])
      again == {s \in held : \E i, j \in DOMAIN contents[r] :
                                i # j /\ contents[r][i] = s /\ contents[r][j] = s}
  IN /\ MayMove(p)
     /\ added' = [added EXCEPT ![p] = @ \ held]
     /\ removed' = [removed EXCEPT ![p] = @ \cup (held \ added[p]) \cup again]
     /\ contents' = [contents EXCEPT ![r] = <<>>]
     /\ movers' = [s \in Sections |-> IF s \in held THEN movers[s] \cup {p} ELSE movers[s]]
     /\ updating' = <<p, r, chunks>>
     /\ UNCHANGED <<link, phase, inputs, all, output, rule, ignored, entries, asking, dirty,
                    merged>>

\* ... and the new ones are added until an add is refused.
updateNextChunk ==
  /\ updating # <<>>
  /\ LET p == updating[1]
         chunks == updating[3]
     IN IF chunks # <<>> /\ Head(chunks) \notin added[p]
        THEN /\ addChunkOp(p, updating[2], Head(chunks))
             /\ updating' = [updating EXCEPT ![3] = Tail(@)]
        ELSE /\ updating' = <<>>
             /\ UNCHANGED <<output, rule, contents, dirty, added, removed, movers>>
  /\ UNCHANGED <<link, phase, inputs, all, ignored, entries, asking, merged, moves>>

\* Fault: only what was added must be removed again.
AddsRemoved(p) == added[p] = {}

\* Every chunk that a plugin has removed must be added and the other way round.
verifyFragmentMovements(p) == added[p] = {} /\ removed[p] = {}

\* The sections whose chunk is in a rule that has been changed belong to that rule
\* and its output.
createOutputSections ==
  LET Holders(s) == {r \in dirty : s \in ToSet(contents[r])}
      Holder(s)  == CHOOSE r \in Holders(s) : TRUE
  IN /\ phase = "creating" /\ updating = <<>>
     /\ phase' = IF \A p \in Plugins : verifyFragmentMovements(p) THEN "done" ELSE "failed"
     /\ output' = [s \in Sections |-> IF Holders(s) # {} THEN Holder(s)[1] ELSE output[s]]
     /\ rule' = [s \in Sections |-> IF Holders(s) # {} THEN Holder(s) ELSE rule[s]]
     /\ UNCHANGED <<link, inputs, all, ignored, entries, asking, moving>>

Asks ==
  /\ phase # "failed"
  /\ \E p \in Plugins :
       \/ /\ FoldFunction(LAMBDA a, n : n + Len(a), 0, asked) < link.calls
          /\ \E s \in inputs, name \in Targets : setOutputSection(p, s, name)
       \/ finishAssignOutputSections(p)

\* What a plugin may list in a call of updateChunks.
ChunkLists == {<<>>} \cup {<<s>> : s \in inputs} \cup (inputs \X inputs)

Moves ==
  /\ moves < link.moves
  /\ \E p \in Plugins, r \in Places(link.script) :
       \/ \E s \in inputs : addChunk(p, r, s) \/ removeChunk(p, r, s)
       \/ \E chunks \in ChunkLists : updateChunks(p, r, chunks)

Advances ==
  \/ MatchForLTO \/ createLTOObject \/ resolve \/ MatchRules \/ dataStrippingOpt
  \/ runSectionIteratorPlugin \/ scanRelocations \/ beginMergeSections
  \/ runOutputSectionIteratorPlugin \/ mergeSections \/ createOutputSections

Next == Asks \/ Moves \/ updateNextChunk \/ Advances

Spec == Init /\ [][Next]_vars

------------------------------------------------------------------------------
\* Properties.

Rules == Slots \cup {Unplaced}

TypeOK ==
  /\ inputs \in SUBSET Sections
  /\ all \in SUBSET Sections
  /\ output \in [Sections -> {0} \cup {p[1] : p \in Slots}]
  /\ rule \in [Sections -> Rules]
  /\ ignored \in SUBSET Sections /\ entries \in SUBSET Sections
  /\ overrides \in [Plugins -> Seq(Sections \X Targets)]
  /\ asked \in [Sections -> Seq(Plugins \X Targets)]
  /\ late \in BOOLEAN
  /\ contents \in [Slots -> Seq(Sections)]
  /\ dirty \in SUBSET Places(link.script)
  /\ updating \in {<<>>} \cup (Plugins \X Places(link.script) \X Seq(Sections))
  /\ added \in [Plugins -> SUBSET Sections] /\ removed \in [Plugins -> SUBSET Sections]
  /\ merged \in SUBSET Sections
  /\ movers \in [Sections -> SUBSET Plugins]
  /\ moves \in Nat

Merged == phase \in {"creating", "done"}

InNoRule(s) == \A p \in Slots : s \notin ToSet(contents[p])

\* The chunk of s is in the rule p and nowhere else, and references to it find it
\* there.
LiesIn(s, p) ==
  /\ {q \in Slots : s \in ToSet(contents[q])} = {p}
  /\ output[s] = p[1] /\ rule[s] = p

\* What the script says, without a search: among the rules that accept a section,
\* the first that is not special, or the last special one when there is no other.
Accepting(s) == {p \in Places(link.script) : matched(link.script, p, s, s \in link.writable)}

Closest(s) ==
  LET plain == {p \in Accepting(s) : ~RuleAt(link.script, p).special}
  IN IF plain # {} THEN CHOOSE p \in plain : \A q \in plain \ {p} : Precedes(p, q)
     ELSE CHOOSE p \in Accepting(s) : \A q \in Accepting(s) \ {p} : Precedes(q, p)

\* A special rule of an output that is discarded accepts the section before a closer
\* rule does: the section is ignored although it gets the output of that rule.
DiscardedOnTheWay(s) ==
  \E p \in Accepting(s) :
    Discards(p[1]) /\ \A q \in Accepting(s) : RuleAt(link.script, q).special \/ ~Precedes(q, p)

\* The place of a section that no plugin has asked for.
ScriptPlace(s) ==
  CASE link.arrives[s] # "copy" /\ Accepting(s) # {} -> Closest(s)
    [] link.arrives[s] = "object" /\ Accepting(s) = {} -> Orphanage(link.name[s])
    [] link.arrives[s] = "lto" /\ Accepting(s) = {} -> Orphanage(link.name[s])
    [] OTHER -> FallbackBSS

\* Sections that are collected: nothing refers to them and no KEEP rule has them.
Collected(s) ==
  /\ s \in link.unreferenced /\ link.arrives[s] # "copy"
  /\ ~(Accepting(s) # {} /\ RuleAt(link.script, Closest(s)).keep)

\* Two chunks of a rule are in the order of its sort policy, and otherwise in that
\* of the inputs.
SortedPair(policy, s, t) ==
  LET name  == link.name
      align == link.align
      First == link.rank[s] < link.rank[t]
  IN CASE policy = "none" -> First
       [] policy = "name" -> name[s] < name[t] \/ (name[s] = name[t] /\ First)
       [] policy = "alignment" -> align[s] > align[t] \/ (align[s] = align[t] /\ First)
       [] policy = "name alignment" ->
            name[s] < name[t]
            \/ (name[s] = name[t] /\ (align[s] > align[t] \/ (align[s] = align[t] /\ First)))
       [] policy = "alignment name" ->
            align[s] > align[t]
            \/ (align[s] = align[t] /\ (name[s] < name[t] \/ (name[s] = name[t] /\ First)))

\* The sections that must be merged: all, unless a plugin may have had them gathered
\* when some were still to come.
Due ==
  IF \A p \in Plugins : link.hooks[p] \subseteq {"before merging", "before layout", "creating"}
  THEN inputs ELSE all

\* The image is what the script says, whichever matcher finds it, before or after
\* optimization: every section that no plugin has touched lies in the closest of
\* the rules that accept it, or in the fallback, unless it is discarded or
\* collected, and references find it there; a rule that no plugin has changed is
\* sorted.
ImageFollowsScript ==
  Merged =>
    /\ \A s \in Due : asked[s] = <<>> /\ movers[s] = {} =>
         IF Discards(ScriptPlace(s)[1]) \/ Collected(s)
              \/ (link.arrives[s] # "copy" /\ DiscardedOnTheWay(s))
         THEN InNoRule(s) ELSE LiesIn(s, ScriptPlace(s))
    /\ \A p \in Slots \ dirty : \A i, j \in DOMAIN contents[p] :
         i < j => SortedPair(PolicyOf(p), contents[p][i], contents[p][j])

\* A plugin that alone asks for a section has its way: whatever other plugins ask
\* for or finish, the section lies in the output that it named last, in the first
\* rule there that accepts it or else in the last rule.  Requests for an output
\* that does not exist do not count.  Excepted are sections that the script has
\* discarded, or that are collected; requests that come when sections have been
\* merged; and requests for one section that threads carry out at the same time.
OverridesPrevail ==
  LET Known(s) == {i \in DOMAIN asked[s] : findIter(link.script, asked[s][i][2]) # 0}
  IN Merged /\ ~late =>
       \A s \in all \ ignored : \A last \in Known(s) :
         /\ movers[s] = {}
         /\ \A i \in Known(s) : i <= last /\ asked[s][i][1] = asked[s][last][1]
         /\ link.threads => Known(s) = {last}
         => LET o     == findIter(link.script, asked[s][last][2])
                rules == link.script[o].rules
                first == SelectInSeq(rules, LAMBDA r : s \in r.accepts)
            IN IF Discards(o) THEN InNoRule(s)
               ELSE LiesIn(s, <<o, IF first = 0 THEN Len(rules) ELSE first>>)

\* A chunk that one plugin has moved, through whatever calls, or that none has, is
\* in the image exactly once, or the link has failed; what was not merged is not.
EachChunkOnce ==
  phase = "done" => \A s \in Sections :
    (\A p, q \in movers[s] : p = q) =>
      IF s \in merged
      THEN \E p \in Slots : \E i \in DOMAIN contents[p] :
             \A q \in Slots : \A j \in DOMAIN contents[q] :
               contents[q][j] = s <=> q = p /\ j = i
      ELSE InNoRule(s)
===============================================================================
