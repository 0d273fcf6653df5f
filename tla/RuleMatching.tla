----------------------------- MODULE RuleMatching -----------------------------
(***************************************************************************)
(* Which rule of the linker script an input section matches, and in which  *)
(* order a rule keeps what it has matched.                                 *)
(*                                                                         *)
(* lib/Object/ObjectBuilder.cpp, lib/Object/SectionMap.cpp and the sorting *)
(* of lib/Object/ObjectLinker.cpp.  What a rule accepts is a set of        *)
(* sections: patterns for files, archives and names, EXCLUDE_FILE and the  *)
(* hashes that speed them up decide that set.                              *)
(***************************************************************************)
EXTENDS Integers, Sequences, FiniteSets, SequencesExt

\* A script is a sequence of outputs, an output a sequence of rules.
\*   output: its name, whether it is /DISCARD/, what ONLY_IF_RO and ONLY_IF_RW
\*           require ("any", "ro", "rw"), its rules
\*   rule:   the sections it accepts, KEEP, its sort policy, and whether it is
\*           special: the rule *(<name of the output>) that ends every output
SortPolicies == {"none", "name", "alignment", "name alignment", "alignment name"}

Places(script) == UNION {{o} \X DOMAIN script[o].rules : o \in DOMAIN script}

OutputRecords(sections) ==
  [name : Nat, discard : BOOLEAN, needs : {"any", "ro", "rw"},
   rules : Seq([accepts : SUBSET sections, special : BOOLEAN, keep : BOOLEAN,
                sort : SortPolicies])]

RuleAt(script, p) == script[p[1]].rules[p[2]]

\* The place of a section that has no output yet.
Unplaced == <<0, 0>>

Precedes(p, q) == p[1] < q[1] \/ (p[1] = q[1] /\ p[2] < q[2])

\* The elements of a finite set in a strict order, given as a set of pairs: the
\* k-th has k - 1 elements before it.
Ranked(S, order) ==
  [k \in 1..Cardinality(S) |->
     CHOOSE x \in S : Cardinality({y \in S : <<y, x>> \in order}) = k - 1]

InScriptOrder(script) ==
  Ranked(Places(script), {p \in Places(script) \X Places(script) : Precedes(p[1], p[2])})

\* The first output of a name, 0 without one.
findIter(script, name) ==
  SelectInSeq(script, LAMBDA o : o.name = name)

Admits(output, writable) ==
  output.needs = "any" \/ (output.needs = "rw") = writable

\* A rule matches; an output that admits nothing of the kind is passed over.
matched(script, p, s, writable) ==
  Admits(script[p[1]], writable) /\ s \in RuleAt(script, p).accepts

------------------------------------------------------------------------------
\* Matching, section by section: the first rule that matches has the section,
\* unless it is special; then the search goes on for a closer match.

NoMatch == [place |-> Unplaced, retry |-> FALSE, discarded |-> FALSE]

\* Fault: a special rule ends the search as any other does.
TryRuleOnce(script, s, writable, m, p) ==
  IF m.place = Unplaced /\ matched(script, p, s, writable)
  THEN [place |-> p, retry |-> FALSE, discarded |-> script[p[1]].discard]
  ELSE m

TryRule(script, s, writable, m, p) ==
  IF (m.place = Unplaced \/ m.retry) /\ matched(script, p, s, writable)
  THEN [place |-> p, retry |-> RuleAt(script, p).special,
        discarded |-> m.discarded \/ script[p[1]].discard]
  ELSE m

\* sects are those of the sections to match, writable are the writable ones.
assignInputFromOutput(script, sects, writable) ==
  [s \in sects |->
     FoldLeft(LAMBDA m, p : TryRule(script, s, s \in writable, m, p),
              NoMatch, InScriptOrder(script))]

\* The older matcher: one pass over the rules for all sections, which remembers
\* the sections to retry.
assignInputFromOutputLegacy(script, sects, writable) ==
  FoldLeft(LAMBDA ms, p : [s \in sects |-> TryRule(script, s, s \in writable, ms[s], p)],
           [s \in sects |-> NoMatch], InScriptOrder(script))

------------------------------------------------------------------------------
\* The rule for a section that a plugin sends to an output: the first that
\* accepts it, or the special one.  What the output requires is not asked.

\* Fault: without a match there is no rule.
MatchedOnly(script, o, s) ==
  <<o, SelectInSeq(script[o].rules, LAMBDA r : s \in r.accepts)>>

findOnlyIn(script, o, s) ==
  LET rules == script[o].rules
      hit   == SelectInSeq(rules, LAMBDA r : s \in r.accepts)
  IN <<o, IF hit # 0 THEN hit ELSE SelectLastInSeq(rules, LAMBDA r : r.special)>>

------------------------------------------------------------------------------
\* Sorting of what a rule holds.

InOrder(S, rank) == Ranked(S, {p \in S \X S : rank[p[1]] < rank[p[2]]})

\* A sort by a key, smallest first, that leaves what is equal as it was.
StableSort(seq, key) ==
  LET Indices == DOMAIN seq
      Before == {p \in Indices \X Indices :
                   \/ key[seq[p[1]]] < key[seq[p[2]]]
                   \/ key[seq[p[1]]] = key[seq[p[2]]] /\ p[1] < p[2]}
  IN [k \in Indices |-> seq[Ranked(Indices, Before)[k]]]

sortByName(seq, name) == StableSort(seq, name)

sortByAlignment(seq, align) == StableSort(seq, [s \in DOMAIN align |-> -align[s]])

sortSections(seq, policy, name, align) ==
  CASE policy = "none" -> seq
    [] policy = "name" -> sortByName(seq, name)
    [] policy = "alignment" -> sortByAlignment(seq, align)
    [] policy = "name alignment" -> sortByName(sortByAlignment(seq, align), name)
    [] policy = "alignment name" -> sortByAlignment(sortByName(seq, name), align)
===============================================================================
