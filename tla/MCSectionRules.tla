---------------------------- MODULE MCSectionRules ----------------------------
\* The links of the model checking runs.
EXTENDS SectionRules, TLC

CONSTANT Families   \* which kinds of links a run has

MCSections == {"a", "b", "c"}

\* Names in alphabetical order.
BssName     == 0
DataName    == 1
TextName    == 2
DiscardName == 3
NoSuchName  == 4

Basic ==
  [rank |-> [a |-> 1, b |-> 2, c |-> 3], arrives |-> [s \in MCSections |-> "object"],
   name  |-> [a |-> TextName, b |-> DataName, c |-> TextName],
   align |-> [a |-> 4, b |-> 4, c |-> 8],
   writable |-> {"b"}, unreferenced |-> {},
   lto |-> FALSE, legacy |-> FALSE, threads |-> FALSE,
   hooks |-> [p \in Plugins |-> {}], calls |-> 0, moves |-> 0]

Plain(accepts, sort) ==
  [accepts |-> accepts, special |-> FALSE, keep |-> FALSE, sort |-> sort]

Kept(accepts) == [Plain(accepts, "none") EXCEPT !.keep = TRUE]

Special(name) ==
  [Plain({s \in MCSections : Basic.name[s] = name}, "none") EXCEPT !.special = TRUE]

Output(name, needs, rules) ==
  [name |-> name, needs |-> needs, discard |-> name = DiscardName,
   rules |-> Append(rules, Special(name))]

With(l, script) ==
  [f \in DOMAIN l \cup {"script"} |-> IF f = "script" THEN script ELSE l[f]]

\* No plugin: scripts whose rules overlap, that require or discard, that keep or
\* sort, with either matcher.
RuleLinks ==
  {With([Basic EXCEPT !.legacy = old, !.unreferenced = {"b", "c"}],
        <<Output(TextName, needs, <<Plain(x, "none")>>), Output(other, "any", <<Kept(y)>>)>>) :
     x, y \in SUBSET MCSections, needs \in {"any", "ro", "rw"},
     other \in {DataName, TextName, DiscardName}, old \in BOOLEAN}

\* A section whose name is that of the output that discards.
DiscardLinks ==
  {With([Basic EXCEPT !.name["a"] = DiscardName],
        <<[Output(DiscardName, "any", <<>>) EXCEPT !.rules[1].accepts = {"a"}],
          Output(TextName, "any", <<Plain(x, "none")>>)>>) : x \in SUBSET MCSections}

SortedLinks ==
  {With([Basic EXCEPT !.rank = rank],
        <<Output(DataName, needs, <<Plain(x, "alignment")>>),
          Output(TextName, "any", <<Plain(MCSections, sort)>>)>>) :
     rank \in {Basic.rank, [a |-> 3, b |-> 2, c |-> 1], [a |-> 3, b |-> 1, c |-> 2]},
     x \in SUBSET MCSections, needs \in {"any", "rw"}, sort \in SortPolicies}

LateLinks ==
  {With([Basic EXCEPT !.arrives["c"] = kind, !.lto = opt],
        <<Output(DataName, "any", <<Plain(x, "none")>>)>> \o more) :
     kind \in Arrivals, opt \in BOOLEAN, x \in SUBSET MCSections,
     more \in {<<>>, <<Output(BssName, "any", <<Plain({}, "none")>>)>>}}

\* Plugins that ask for outputs at their hooks.
Matcher  == {"before lto", "matcher"}
Iterator == {"iterator"}
Observer == {"before matching", "before merging"}
Viewer   == {"before layout", "creating"}

AskedScript ==
  <<Output(TextName, "any", <<Plain({"a"}, "none"), Plain({"b"}, "none")>>),
    Output(DataName, "ro", <<Plain({"b", "c"}, "none")>>), Output(DiscardName, "any", <<>>)>>

Roles == <<Matcher, Iterator, Observer, Viewer>>

OnePlugin == {CHOOSE p \in Plugins : TRUE}

\* The plugins are alike, so that it does not matter which has which hooks.
AskingLinks(calls) ==
  {With([Basic EXCEPT !.arrives["c"] = kind[1], !.lto = kind[1] = "lto", !.threads = kind[2],
                      !.calls = calls,
                      !.hooks = [p \in Plugins |-> Roles[IF p \in OnePlugin THEN h[1] ELSE h[2]]]],
        AskedScript) :
     kind \in {<<"lto", FALSE>>, <<"lto", TRUE>>, <<"copy", FALSE>>},
     h \in {i \in (1..4) \X (1..4) : i[1] <= i[2]}}

\* Plugins that move chunks, and may ask as well.
MovingLinks(moving_, n, calls) ==
  {With([Basic EXCEPT !.moves = n, !.unreferenced = {"c"}, !.calls = k,
                      !.hooks = [q \in Plugins |-> IF q \in moving_ THEN {"creating"} ELSE {}]],
        <<Output(TextName, "any", <<Plain({"a", "b"}, "none")>>), Output(DataName, "any", <<>>)>>) :
     k \in calls}

MCLinks ==
  UNION {CASE f = "rules" -> RuleLinks \cup DiscardLinks \cup SortedLinks \cup LateLinks
           [] f = "asks"  -> AskingLinks(2)
           [] f = "moves" -> MovingLinks(OnePlugin, 3, {0}) \cup MovingLinks(OnePlugin, 2, {1})
           [] f = "two"   -> MovingLinks(Plugins, 2, {0}) : f \in Families}
===============================================================================
