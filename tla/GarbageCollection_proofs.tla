----------------------- MODULE GarbageCollection_proofs -----------------------
(***************************************************************************)
(* Proofs about the garbage collector, for every set of sections, of       *)
(* symbols and of links: its types, that the roots survive, and that the   *)
(* marking computes what MarkSweep asks for.                               *)
(***************************************************************************)
EXTENDS GarbageCollection, TLAPS

\* A section keeps the kind it was read with until a sweep drops it, and only a
\* section that can be collected is dropped.
KindsKept ==
  \A s \in Sections :
    kind[s] # link.kind[s] => kind[s] = "Ignore" /\ link.kind[s] \in {"Regular", "Common"}

\* The marking: every root is pending or live, a live section that is followed is
\* waiting or referenced, what a referenced section reaches is live, and nothing
\* is live that a closed set of sections leaves out.
Marking ==
  phase = "mark" =>
    /\ entries = EntrySections
    /\ entries \subseteq pending \cup liveSet
    /\ \A s \in liveSet : Followed(s) => s \in workList \cup referenced
    /\ \A s \in referenced : reachedSects[s] \subseteq liveSet
    /\ \A T \in SUBSET Sections : Reachability!Closed(T) => liveSet \subseteq T

IInv == TypeOK /\ KindsKept /\ Marking

------------------------------------------------------------------------------
\* What the members of Links are made of.
LEMMA LinkFields ==
  ASSUME link \in LinkType
  PROVE  /\ link.kind \in [Sections -> Kinds]
         /\ link.alloc \subseteq Sections
         /\ link.rels \in [Sections -> SUBSET Symbols]
         /\ link.backend \in [Sections -> SUBSET Sections]
         /\ link.symbol \in [Symbols -> SymbolType]
         /\ link.entry \in Symbols \cup {NoSymbol}
         /\ link.firstText \in Sections \cup {NoSection}
         /\ link.keep \subseteq Sections /\ link.retain \subseteq Sections
         /\ link.undefs \subseteq Symbols /\ link.preserve \subseteq Symbols
         /\ link.passes \in Passes
BY DEF LinkType

\* The sections and the symbols that a symbol leads to are those of the link.
LEMMA SymbolFields ==
  ASSUME link \in LinkType, NEW x \in Symbols
  PROVE  /\ Sym(x) \in SymbolType
         /\ Sym(x).home \in Sections \cup {NoSection}
         /\ Sym(x).uses \subseteq Symbols
         /\ Sym(x).names \subseteq Sections
BY LinkFields DEF Sym, SymbolType

LEMMA HomesAreSections ==
  ASSUME link \in LinkType, NEW X \in SUBSET Symbols
  PROVE  Homes(X) \subseteq Sections
BY SymbolFields DEF Homes, HasHome

LEMMA SectionsOfType ==
  ASSUME link \in LinkType, NEW x \in Symbols
  PROVE  SectionsOf(x) \subseteq Sections /\ SymbolsOf(x) \subseteq Symbols
<1>1. WithFragRef(Sym(x).uses) \subseteq Symbols
  BY SymbolFields DEF WithFragRef
<1>2. Homes(WithFragRef(Sym(x).uses)) \subseteq Sections /\ Homes({x}) \subseteq Sections
  BY <1>1, HomesAreSections
<1>3. IsBitCode(x) => Sym(x).home \in Sections
  BY SymbolFields DEF IsBitCode, HasHome
<1>4. HasFragRef(x) => Sym(x).home \in Sections
  BY SymbolFields DEF HasFragRef, HasHome
<1> QED
  BY <1>1, <1>2, <1>3, <1>4, SymbolFields DEF SectionsOf, SymbolsOf

LEMMA ReachedFromObjectType ==
  ASSUME link \in LinkType, NEW s \in Sections
  PROVE  /\ ReachedFromObject(s) \subseteq Sections
         /\ UNION {SymbolsOf(x) : x \in link.rels[s]} \subseteq Symbols
<1>1. link.rels[s] \subseteq Symbols /\ link.backend[s] \subseteq Sections
  BY LinkFields
<1> QED
  BY <1>1, SectionsOfType DEF ReachedFromObject

LEMMA FromBitcodeType ==
  ASSUME link \in LinkType, NEW s \in Sections
  PROVE  UNION {FromBitcode(x) : x \in link.rels[s]} \subseteq Symbols
<1>1. link.rels[s] \subseteq Symbols
  BY LinkFields
<1>2. \A x \in Symbols : FromBitcode(x) \subseteq Symbols
  BY SymbolFields DEF FromBitcode
<1> QED
  BY <1>1, <1>2

\* The roots are sections of the link.
LEMMA EntrySectionsType ==
  ASSUME link \in LinkType
  PROVE  EntrySections \subseteq Sections
<1>1. NamedSymbols \subseteq Symbols
  BY LinkFields DEF NamedSymbols
<1>2. /\ NamedRoots \subseteq Sections /\ AssignedCommons \subseteq Sections
      /\ Homes(SharedCommons) \subseteq Sections
      /\ Homes(SharedDefinitions) \subseteq Sections
      /\ Homes(ExecutableEntries) \subseteq Sections
  BY <1>1, HomesAreSections
     DEF NamedRoots, AssignedCommons, SharedCommons, SharedDefinitions,
         ExecutableEntries
<1>3. ScriptRoots \subseteq Sections /\ FallbackRoots \subseteq Sections
  BY LinkFields DEF ScriptRoots, FallbackRoots
<1> QED
  BY <1>2, <1>3 DEF EntrySections, CommonRoots, Collectable

LEMMA TailRemains ==
  ASSUME todo \in Remaining, todo # <<>>
  PROVE  Tail(todo) \in Remaining
<1>1. CASE todo = <<"full">>
  BY <1>1, Tail(<<"full">>) = <<>> DEF Remaining
<1>2. CASE todo = <<"lto">>
  BY <1>2, Tail(<<"lto">>) = <<>> DEF Remaining
<1>3. CASE todo = <<"common", "full">>
  BY <1>3, Tail(<<"common", "full">>) = <<"full">> DEF Remaining, Passes
<1>4. CASE todo = <<"common", "lto">>
  BY <1>4, Tail(<<"common", "lto">>) = <<"lto">> DEF Remaining
<1> QED
  BY <1>1, <1>2, <1>3, <1>4 DEF Remaining, Passes

------------------------------------------------------------------------------
\* The types hold at the start, and every step keeps them.
LEMMA InitType == Init => TypeOK
<1> SUFFICES ASSUME Init PROVE TypeOK
  OBVIOUS
<1>1. link \in LinkType
  BY LinksAssumption DEF Init
<1>2. todo \in Remaining /\ kind \in [Sections -> Kinds]
  BY <1>1, LinkFields DEF Init, Remaining
<1> QED
  BY <1>1, <1>2 DEF Init, TypeOK

LEMMA NextType == TypeOK /\ [Next]_vars => TypeOK'
<1> SUFFICES ASSUME TypeOK, [Next]_vars PROVE TypeOK'
  OBVIOUS
<1>0. link \in LinkType
  BY DEF TypeOK
<1>1. CASE setUpReachedSectionsAndSymbols
  <2>1. reachedSects' \in [Sections -> SUBSET Sections]
    BY <1>0, <1>1, ReachedFromObjectType DEF setUpReachedSectionsAndSymbols
  <2>2. reachedSyms' \in [Sections -> SUBSET Symbols]
    BY <1>0, <1>1, ReachedFromObjectType DEF setUpReachedSectionsAndSymbols
  <2>3. bitcodeQueue' \subseteq Sections
    <3> DEFINE refs == UNION {link.rels[s] : s \in {t \in Sections : ~IsBitcodeSection(t)}}
    <3>1. refs \subseteq Symbols
      BY <1>0, LinkFields
    <3>2. \A x \in Symbols : IsBitCode(x) => Sym(x).home \in Sections
      BY <1>0, SymbolFields DEF IsBitCode, HasHome
    <3> QED
      BY <1>1, <3>1, <3>2 DEF setUpReachedSectionsAndSymbols
  <2> QED
    BY <1>1, <2>1, <2>2, <2>3 DEF setUpReachedSectionsAndSymbols, TypeOK, marks
<1>2. ASSUME NEW s \in Sections, findReachedBitCodeSections(s) PROVE TypeOK'
  <2> DEFINE targets == UNION {FromBitcode(x) : x \in link.rels[s]}
             found   == Homes({x \in targets : IsBitCode(x)})
  <2>1. targets \subseteq Symbols
    BY <1>0, FromBitcodeType
  <2>2. Homes(targets) \subseteq Sections /\ found \subseteq Sections
    BY <1>0, <2>1, HomesAreSections
  <2>3. WithFragRef(targets) \subseteq Symbols
    BY <2>1 DEF WithFragRef
  <2>4. /\ reachedSects' = [reachedSects EXCEPT ![s] = Homes(targets)]
        /\ reachedSyms' = [reachedSyms EXCEPT ![s] = WithFragRef(targets)]
        /\ listed' = listed \cup {s}
        /\ bitcodeQueue' = (bitcodeQueue \cup found) \ listed'
        /\ UNCHANGED <<link, todo, phase, kind, marks, ignored, preserved>>
    BY <1>2 DEF findReachedBitCodeSections
  <2> HIDE DEF targets, found
  <2> QED
    BY <2>2, <2>3, <2>4 DEF TypeOK, marks
<1>3. CASE getEntrySections
  <2>1. EntrySections \subseteq Sections
    BY <1>0, EntrySectionsType
  <2>2. preserved' \subseteq Symbols /\ ignored' \subseteq Symbols
    <3>1. NamedSymbols \subseteq Symbols
      BY <1>0, LinkFields DEF NamedSymbols
    <3> QED
      BY <1>3, <3>1 DEF getEntrySections, TypeOK
  <2>3. CASE NoEntry
    <3>1. todo' \in Remaining
      BY <1>3, <2>3, TailRemains DEF getEntrySections, EndPass, TypeOK
    <3> QED
      BY <1>3, <2>2, <2>3, <3>1
         DEF getEntrySections, EndPass, TypeOK, marks, graph
  <2>4. CASE ~NoEntry
    BY <1>3, <2>1, <2>2, <2>4 DEF getEntrySections, TypeOK, graph
  <2> QED
    BY <2>3, <2>4
<1>4. ASSUME NEW e \in Sections, PushEntry(e) PROVE TypeOK'
  BY <1>4 DEF PushEntry, TypeOK, graph
<1>5. ASSUME NEW s \in Sections, ProcessSection(s) PROVE TypeOK'
  <2>1. reachedSects[s] \subseteq Sections
    BY DEF TypeOK
  <2> QED
    BY <1>5, <2>1 DEF ProcessSection, TypeOK, graph
<1>6. CASE stripSections
  <2>1. todo' \in Remaining
    BY <1>6, TailRemains DEF stripSections, EndPass, TypeOK
  <2>2. kind' \in [Sections -> Kinds]
    BY <1>6 DEF stripSections, TypeOK, Kinds
  <2>3. ignored' \subseteq Symbols
    BY <1>6 DEF stripSections, TypeOK
  <2> QED
    BY <1>6, <2>1, <2>2, <2>3 DEF stripSections, EndPass, TypeOK, graph, marks
<1>7. CASE finalizeLtoSymbolResolution
  <2>1. todo' \in Remaining
    BY <1>7, TailRemains DEF finalizeLtoSymbolResolution, EndPass, TypeOK
  <2>2. preserved' \subseteq Symbols
    <3>1. link.preserve \subseteq Symbols
      BY <1>0, LinkFields
    <3> QED
      BY <1>7, <3>1 DEF finalizeLtoSymbolResolution, TypeOK
  <2> QED
    BY <1>7, <2>1, <2>2
       DEF finalizeLtoSymbolResolution, EndPass, TypeOK, graph, marks
<1>8. CASE UNCHANGED vars
  BY <1>8 DEF vars, graph, marks, TypeOK
<1> QED
  BY <1>1, <1>2, <1>3, <1>4, <1>5, <1>6, <1>7, <1>8 DEF Next

------------------------------------------------------------------------------
\* Only the sweep changes a kind.
LEMMA NextKinds == TypeOK /\ KindsKept /\ [Next]_vars => KindsKept'
<1> SUFFICES ASSUME TypeOK, KindsKept, [Next]_vars PROVE KindsKept'
  OBVIOUS
<1>1. CASE stripSections
  <2> SUFFICES ASSUME NEW s \in Sections, kind'[s] # link.kind[s]
               PROVE  kind'[s] = "Ignore" /\ link.kind[s] \in {"Regular", "Common"}
    BY <1>1 DEF stripSections, KindsKept
  <2>1. CASE kind'[s] = kind[s]
    BY <2>1 DEF KindsKept
  <2>2. CASE kind'[s] # kind[s]
    <3>1. kind'[s] = "Ignore" /\ kind[s] \in {"Regular", "Common"}
      BY <1>1, <2>2 DEF stripSections, Unreferenced, mayProcessGC
    <3> QED
      BY <3>1 DEF KindsKept
  <2> QED
    BY <2>1, <2>2
<1>2. CASE ~stripSections
  <2>1. UNCHANGED <<link, kind>>
    BY <1>2 DEF Next, vars, setUpReachedSectionsAndSymbols,
       findReachedBitCodeSections, getEntrySections, PushEntry, ProcessSection,
       finalizeLtoSymbolResolution
  <2> QED
    BY <2>1 DEF KindsKept
<1> QED
  BY <1>1, <1>2

\* The state the roots and the followed sections depend on.
LEMMA SameRoots ==
  ASSUME UNCHANGED <<link, kind>>
  PROVE  EntrySections' = EntrySections /\ NoEntry' = NoEntry
BY DEF EntrySections, NoEntry, CommonRoots, FallbackRoots, NamedRoots,
   NamedSymbols, ScriptRoots, AssignedCommons, SharedCommons, SharedDefinitions,
   ExecutableEntries, treatSymbolAsEntry, Collectable, mayProcessGC, Homes,
   HasFragRef, IsBitCode, IsBitcodeSection, HasHome, Sym

LEMMA SameFollowed ==
  ASSUME UNCHANGED <<link, kind, entries>>, NEW s \in Sections
  PROVE  Followed(s)' = Followed(s)
BY DEF Followed, IsBitcodeSection, mayProcessGC

\* A set that is closed after a step that leaves the graph alone was closed before.
LEMMA SameClosed ==
  ASSUME UNCHANGED <<link, kind, entries, reachedSects>>, NEW T \in SUBSET Sections
  PROVE  Reachability!Closed(T)' = Reachability!Closed(T)
BY SameRoots, SameFollowed DEF Reachability!Closed

\* The marking invariant is kept: a root is live when it is pushed, and what a
\* processed section reaches lies in every closed set that holds the section.
LEMMA NextMarking == IInv /\ [Next]_vars => Marking'
<1> SUFFICES ASSUME IInv, [Next]_vars, phase' = "mark"
             PROVE  /\ entries' = EntrySections'
                    /\ entries' \subseteq pending' \cup liveSet'
                    /\ \A s \in liveSet' : Followed(s)' => s \in workList' \cup referenced'
                    /\ \A s \in referenced' : reachedSects'[s] \subseteq liveSet'
                    /\ \A T \in SUBSET Sections :
                         Reachability!Closed(T)' => liveSet' \subseteq T
  BY DEF Marking
<1> USE DEF IInv
<1>1. CASE getEntrySections
  <2>1. ~NoEntry
    BY <1>1 DEF getEntrySections, EndPass
  <2>2. /\ UNCHANGED <<link, kind>>
        /\ entries' = EntrySections /\ pending' = EntrySections
        /\ liveSet' = {} /\ referenced' = {}
    BY <1>1, <2>1 DEF getEntrySections
  <2> QED
    BY <2>2, SameRoots
<1>2. ASSUME NEW e \in Sections, PushEntry(e) PROVE Marking'
  <2>1. /\ UNCHANGED <<link, kind, entries, reachedSects, referenced>>
        /\ phase = "mark" /\ workList = {} /\ e \in pending
        /\ pending' = pending \ {e} /\ workList' = {e}
        /\ liveSet' = liveSet \cup {e}
    BY <1>2 DEF PushEntry, graph
  <2>2. entries' = EntrySections'
    BY <2>1, SameRoots DEF Marking
  <2>3. entries' \subseteq pending' \cup liveSet'
    BY <2>1 DEF Marking
  <2>4. \A s \in liveSet' : Followed(s)' => s \in workList' \cup referenced'
    BY <2>1, SameFollowed DEF Marking, TypeOK
  <2>5. \A s \in referenced' : reachedSects'[s] \subseteq liveSet'
    BY <2>1 DEF Marking
  <2>6. ASSUME NEW T \in SUBSET Sections, Reachability!Closed(T)'
        PROVE  liveSet' \subseteq T
    <3>1. Reachability!Closed(T)
      BY <2>1, <2>6, SameClosed
    <3>2. liveSet \subseteq T
      BY <2>1, <3>1 DEF Marking
    <3>3. e \in T
      BY <2>1, <3>1 DEF Marking, TypeOK, Reachability!Closed
    <3> QED
      BY <2>1, <3>2, <3>3
  <2> QED
    BY <2>2, <2>3, <2>4, <2>5, <2>6 DEF Marking
<1>3. ASSUME NEW s \in Sections, ProcessSection(s) PROVE Marking'
  <2> DEFINE found == reachedSects[s] \ (referenced \cup {s})
  <2>1. /\ UNCHANGED <<link, kind, entries, reachedSects, pending>>
        /\ phase = "mark" /\ s \in workList /\ s \in liveSet
    BY <1>3 DEF ProcessSection, graph, TypeOK
  <2>2. entries' = EntrySections'
    BY <2>1, SameRoots DEF Marking
  <2>3. CASE Followed(s) /\ s \notin referenced
    <3>1. /\ referenced' = referenced \cup {s}
          /\ workList' = (workList \ {s}) \cup found
          /\ liveSet' = liveSet \cup found
      BY <1>3, <2>3 DEF ProcessSection
    <3>2. entries' \subseteq pending' \cup liveSet'
      BY <2>1, <3>1 DEF Marking
    <3>3. \A t \in liveSet' : Followed(t)' => t \in workList' \cup referenced'
      BY <2>1, <3>1, SameFollowed DEF Marking, TypeOK
    <3>4. \A t \in referenced' : reachedSects'[t] \subseteq liveSet'
      BY <2>1, <3>1 DEF Marking, TypeOK
    <3>5. ASSUME NEW T \in SUBSET Sections, Reachability!Closed(T)'
          PROVE  liveSet' \subseteq T
      <4>1. Reachability!Closed(T)
        BY <2>1, <3>5, SameClosed
      <4>2. liveSet \subseteq T
        BY <2>1, <4>1 DEF Marking
      <4>3. reachedSects[s] \subseteq T
        BY <2>1, <2>3, <4>1, <4>2 DEF Reachability!Closed
      <4> QED
        BY <3>1, <4>2, <4>3
    <3> QED
      BY <2>2, <3>2, <3>3, <3>4, <3>5 DEF Marking
  <2>4. CASE ~(Followed(s) /\ s \notin referenced)
    <3>1. workList' = workList \ {s} /\ UNCHANGED <<referenced, liveSet>>
      BY <1>3, <2>4 DEF ProcessSection
    <3>2. \A t \in liveSet' : Followed(t)' => t \in workList' \cup referenced'
      BY <2>1, <2>4, <3>1, SameFollowed DEF Marking, TypeOK
    <3>3. \A T \in SUBSET Sections : Reachability!Closed(T)' => liveSet' \subseteq T
      BY <2>1, <3>1, SameClosed DEF Marking
    <3> QED
      BY <2>1, <2>2, <3>1, <3>2, <3>3 DEF Marking
  <2> QED
    BY <2>3, <2>4
<1>4. CASE setUpReachedSectionsAndSymbols
  BY <1>4 DEF setUpReachedSectionsAndSymbols
<1>5. ASSUME NEW s \in Sections, findReachedBitCodeSections(s) PROVE FALSE
  BY <1>5 DEF findReachedBitCodeSections
<1>6. CASE stripSections
  BY <1>6 DEF stripSections, EndPass
<1>7. CASE finalizeLtoSymbolResolution
  BY <1>7 DEF finalizeLtoSymbolResolution, EndPass
<1>8. CASE UNCHANGED vars
  <2>1. UNCHANGED <<link, kind, entries, reachedSects, pending, liveSet, workList,
                    referenced, phase>>
    BY <1>8 DEF vars, graph, marks
  <2> QED
    BY <2>1, SameRoots, SameFollowed, SameClosed DEF Marking, TypeOK
<1> QED
  BY <1>1, <1>2, <1>3, <1>4, <1>5, <1>6, <1>7, <1>8 DEF Next, Marking

\* The types and the marking invariant hold in every state.
LEMMA Invariance == Spec => []IInv
<1>1. Init => IInv
  BY InitType DEF Init, IInv, KindsKept, Marking
<1>2. IInv /\ [Next]_vars => IInv'
  BY NextType, NextKinds, NextMarking DEF IInv
<1> QED
  BY <1>1, <1>2, PTL DEF Spec
\* Every variable keeps its type, and the sections marked, listed or waiting are
\* those that were pushed, in every step of a pass.
THEOREM TypeCorrect == Spec => []TypeOK
<1>1. IInv => TypeOK
  BY DEF IInv
<1> QED
  BY <1>1, Invariance, PTL

------------------------------------------------------------------------------
\* A sweep drops the candidates outside liveSet, which is the set of the sections
\* that chains of references lead to from the roots.
LEMMA StripSweeps ==
  ASSUME IInv, stripSections
  PROVE  /\ Reachability!IsLive(liveSet)
         /\ entries = EntrySections /\ entries \subseteq liveSet
         /\ Collected' = Collected \cup
              ({s \in Sections :
                  todo # <<>> /\ (kind[s] = "Common"
                                   \/ (kind[s] = "Regular" /\ Head(todo) = "full"))}
               \ liveSet)
<1>1. /\ phase = "mark" /\ pending = {} /\ workList = {} /\ todo # <<>>
      /\ link' = link
  BY DEF stripSections, IInv, TypeOK
<1>2. entries = EntrySections /\ entries \subseteq liveSet
  BY <1>1 DEF IInv, Marking
<1>3. \A s \in liveSet : Followed(s) => s \in referenced
  BY <1>1 DEF IInv, Marking
<1>4. Reachability!Closed(liveSet)
  BY <1>1, <1>2, <1>3 DEF IInv, Marking, TypeOK, Reachability!Closed
<1>5. Reachability!IsLive(liveSet)
  BY <1>1, <1>4 DEF IInv, Marking, Reachability!IsLive
<1>6. ASSUME NEW s \in Sections
      PROVE  kind'[s] # link'.kind[s] <=>
               \/ kind[s] # link.kind[s]
               \/ /\ kind[s] = "Common" \/ (kind[s] = "Regular" /\ Head(todo) = "full")
                  /\ s \notin liveSet
  <2>1. mayProcessGC(s) => kind[s] = link.kind[s] /\ ~IsBitcodeSection(s)
    BY DEF IInv, KindsKept, mayProcessGC, IsBitcodeSection
  <2>2. mayProcessGC(s) => (s \in liveSet <=> s \in referenced)
    BY <1>3 DEF IInv, TypeOK, Followed
  <2>3. kind'[s] = IF s \in Unreferenced /\ (Head(todo) = "full" \/ kind[s] = "Common")
                     THEN "Ignore" ELSE kind[s]
    BY DEF stripSections
  <2>4. s \in Unreferenced <=> mayProcessGC(s) /\ s \notin liveSet
    BY <2>1, <2>2 DEF Unreferenced
  <2>5. CASE mayProcessGC(s)
    BY <1>1, <2>1, <2>3, <2>4, <2>5 DEF mayProcessGC
  <2>6. CASE ~mayProcessGC(s)
    BY <1>1, <2>3, <2>4, <2>6 DEF mayProcessGC
  <2> QED
    BY <2>5, <2>6
<1>7. Collected' = Collected \cup
        ({s \in Sections :
            todo # <<>> /\ (kind[s] = "Common"
                             \/ (kind[s] = "Regular" /\ Head(todo) = "full"))}
         \ liveSet)
  BY <1>1, <1>6 DEF Collected
<1> QED
  BY <1>2, <1>5, <1>7

\* No other step drops a section.
LEMMA OnlySweepsCollect ==
  ASSUME [Next]_vars, ~stripSections
  PROVE  UNCHANGED <<link, kind, Collected>>
<1>1. UNCHANGED <<link, kind>>
  BY DEF Next, vars, setUpReachedSectionsAndSymbols, findReachedBitCodeSections,
     getEntrySections, PushEntry, ProcessSection, finalizeLtoSymbolResolution
<1> QED
  BY <1>1 DEF Collected

------------------------------------------------------------------------------
(***************************************************************************)
(* What a pass leaves behind.  The graph that a pass builds is a function  *)
(* of the link alone, though its bitcode part is found by a walk; and what *)
(* a pass has found to be live is a set that every later pass stays in.    *)
(***************************************************************************)
\* The bitcode sections that objects refer to, and those that a bitcode section
\* refers to.
FromObjects ==
  {Sym(x).home : x \in {y \in UNION {link.rels[s] : s \in {t \in Sections : ~IsBitcodeSection(t)}} :
                          IsBitCode(y)}}
Means(s)     == UNION {FromBitcode(x) : x \in link.rels[s]}
BitcodeOf(s) == Homes({x \in Means(s) : IsBitCode(x)})

Spreads(B) == FromObjects \subseteq B /\ \A s \in B : BitcodeOf(s) \subseteq B
Least(B)   == Spreads(B) /\ \A C \in SUBSET Sections : Spreads(C) => B \subseteq C

\* The edges of the graph when the bitcode sections of B have been traversed.
Edges(s, B) ==
  IF ~IsBitcodeSection(s) THEN ReachedFromObject(s)
  ELSE IF s \in B THEN Homes(Means(s)) ELSE {}

Graphed ==
  phase \in {"bitcode", "mark"} =>
    /\ \A s \in Sections : reachedSects[s] = Edges(s, listed)
    /\ \A s \in Sections : ~IsBitcodeSection(s) =>
         reachedSyms[s] = UNION {SymbolsOf(x) : x \in link.rels[s]}
    /\ \A s \in listed \cup bitcodeQueue : IsBitcodeSection(s)
    /\ FromObjects \subseteq listed \cup bitcodeQueue
    /\ \A s \in listed : BitcodeOf(s) \subseteq listed \cup bitcodeQueue
    /\ \A B \in SUBSET Sections : Spreads(B) => listed \cup bitcodeQueue \subseteq B
    /\ phase = "mark" => bitcodeQueue = {}

\* The sections that a pass which starts now would follow.
WouldFollow(s) ==
  IsBitcodeSection(s) \/ mayProcessGC(s) \/ (kind[s] = "Ignore" /\ s \in EntrySections)

\* A set that holds the roots, is closed under references and has lost nothing.
Shelters(T) ==
  /\ T \cap Collected = {} /\ EntrySections \subseteq T
  /\ \A B \in SUBSET Sections : Least(B) =>
       \A s \in T : WouldFollow(s) => Edges(s, B) \subseteq T

Sheltered == \E T \in SUBSET Sections : Shelters(T)

\* Between the passes nothing live has been lost, and what is still referred to
\* is not marked as garbage.
ReferencesKept ==
  \A s \in referenced : ~IsBitcodeSection(s) =>
    \A x \in link.rels[s] :
      /\ Homes(Targets(x)) \cap Collected = {}
      /\ kind[s] # "Ignore" /\ ~Scripted(x) => x \notin ignored

Settled == phase # "mark" => liveSet \cap Collected = {} /\ ReferencesKept

\* With link time optimization to follow, only commons have been dropped.
Optimizing ==
  link.passes = <<"common", "lto">> =>
    /\ todo \in {<<"common", "lto">>, <<"lto">>, <<>>}
    /\ \A s \in Sections : kind[s] # link.kind[s] => link.kind[s] = "Common"
    /\ UsedDefinitionsPreserved

\* Only sections that are followed are marked, and the collector works on a pass of
\* its own.
MarkedFollowed == phase = "mark" => \A s \in referenced : Followed(s)
CollectorRuns  == phase # "graph" => Head(todo) # "lto"

PassInv == link \in Links /\ MarkedFollowed /\ CollectorRuns /\ Graphed /\ Sheltered /\ Settled /\ Optimizing

LEMMA SameLink ==
  ASSUME UNCHANGED link
  PROVE  /\ FromObjects' = FromObjects
         /\ \A s : BitcodeOf(s)' = BitcodeOf(s)
         /\ \A s, B : Edges(s, B)' = Edges(s, B)
         /\ \A B : Spreads(B)' = Spreads(B) /\ Least(B)' = Least(B)
         /\ \A x : /\ Homes(Targets(x))' = Homes(Targets(x))
                   /\ Scripted(x)' = Scripted(x)
                   /\ SymbolsOf(x)' = SymbolsOf(x)
         /\ \A s : IsBitcodeSection(s)' = IsBitcodeSection(s)
<1>1. \A X : Homes(X)' = Homes(X)
  BY DEF Homes, HasHome, Sym
<1>2. \A x : IsBitCode(x)' = IsBitCode(x) /\ HasFragRef(x)' = HasFragRef(x)
  BY DEF IsBitCode, HasFragRef, HasHome, IsBitcodeSection, Sym
<1>3. \A s : IsBitcodeSection(s)' = IsBitcodeSection(s)
  BY DEF IsBitcodeSection
<1>4. \A x : Scripted(x)' = Scripted(x)
  BY DEF Scripted, Sym
<1>5. \A X : WithFragRef(X)' = WithFragRef(X)
  BY <1>2 DEF WithFragRef
<1>6. \A x : /\ SectionsOf(x)' = SectionsOf(x) /\ SymbolsOf(x)' = SymbolsOf(x)
             /\ FromBitcode(x)' = FromBitcode(x) /\ Homes(Targets(x))' = Homes(Targets(x))
  BY <1>1, <1>2, <1>4, <1>5 DEF SectionsOf, SymbolsOf, FromBitcode, Targets, Sym
<1>7. FromObjects' = FromObjects
  BY <1>2, <1>3 DEF FromObjects, Sym
<1>8. \A s : Means(s)' = Means(s)
  BY <1>6 DEF Means
<1>9. \A s : BitcodeOf(s)' = BitcodeOf(s)
  BY <1>1, <1>2, <1>8 DEF BitcodeOf
<1>10. \A s, B : Edges(s, B)' = Edges(s, B)
  BY <1>1, <1>3, <1>6, <1>8 DEF Edges, ReachedFromObject
<1>11. \A B : Spreads(B)' = Spreads(B)
  BY <1>7, <1>9 DEF Spreads
<1>12. \A B : Least(B)' = Least(B)
  BY <1>11 DEF Least
<1> QED
  BY <1>3, <1>4, <1>6, <1>7, <1>9, <1>10, <1>11, <1>12

\* A relocation of an object leads to the sections of its targets, those of
\* bitcode that an assignment uses left out.
LEMMA TargetsReached ==
  ASSUME link \in Links, NEW s \in Sections, ~IsBitcodeSection(s), NEW x \in link.rels[s],
         NEW t \in Homes(Targets(x)), ~IsBitcodeSection(t)
  PROVE  t \in ReachedFromObject(s)
<1>1. x \in Symbols /\ link \in LinkType
  BY LinksAssumption, LinkFields
<1>2. t \in SectionsOf(x)
  <2>1. CASE Scripted(x)
    <3>1. PICK y \in Sym(x).uses : HasHome(y) /\ t = Sym(y).home
      BY <2>1 DEF Targets, Homes
    <3>2. y \in WithFragRef(Sym(x).uses)
      BY <3>1 DEF WithFragRef, HasFragRef, IsBitCode
    <3>3. t \in Homes(WithFragRef(Sym(x).uses))
      BY <3>1, <3>2 DEF Homes
    <3>4. ~IsBitCode(x)
      BY <1>1, <2>1, LinksAssumption DEF IsBitCode, HasHome, Scripted, Sym
    <3> QED
      BY <2>1, <3>3, <3>4 DEF SectionsOf
  <2>2. CASE ~Scripted(x)
    <3>1. HasHome(x) /\ t = Sym(x).home
      BY <2>2 DEF Targets, Homes
    <3>2. ~IsBitCode(x)
      BY <3>1 DEF IsBitCode
    <3> QED
      BY <2>2, <3>1, <3>2 DEF SectionsOf, Homes
  <2> QED
    BY <2>1, <2>2
<1> QED
  BY <1>2 DEF ReachedFromObject

\* The symbol of a relocation is one that its section reaches.
LEMMA SymbolsReached ==
  ASSUME NEW x, ~Scripted(x)
  PROVE  x \in SymbolsOf(x)
BY DEF SymbolsOf

------------------------------------------------------------------------------
\* The graph is the same whichever pass builds it.
LEMMA NextGraphed == IInv /\ link \in Links /\ Graphed /\ [Next]_vars => Graphed'
<1> SUFFICES ASSUME IInv, Graphed, link \in Links, [Next]_vars PROVE Graphed'
  OBVIOUS
<1>0. link \in LinkType
  BY DEF IInv, TypeOK
<1>1. CASE setUpReachedSectionsAndSymbols
  <2>1. /\ phase' = "bitcode" /\ UNCHANGED link /\ listed' = {}
        /\ bitcodeQueue' = FromObjects
    BY <1>1 DEF setUpReachedSectionsAndSymbols, FromObjects
  <2>2. ASSUME NEW s \in Sections PROVE reachedSects'[s] = Edges(s, {})
    BY <1>1 DEF setUpReachedSectionsAndSymbols, Edges
  <2>3. ASSUME NEW s \in Sections, ~IsBitcodeSection(s)
        PROVE reachedSyms'[s] = UNION {SymbolsOf(x) : x \in link.rels[s]}
    BY <1>1, <2>3 DEF setUpReachedSectionsAndSymbols
  <2>4. \A s \in FromObjects : IsBitcodeSection(s)
    BY DEF FromObjects, IsBitCode
  <2> QED
    BY <2>1, <2>2, <2>3, <2>4, SameLink DEF Graphed, Spreads
<1>2. ASSUME NEW s \in Sections, findReachedBitCodeSections(s) PROVE Graphed'
  <2>1. /\ phase = "bitcode" /\ phase' = "bitcode" /\ UNCHANGED link
        /\ s \in bitcodeQueue /\ IsBitcodeSection(s)
        /\ listed' = listed \cup {s}
        /\ reachedSects' = [reachedSects EXCEPT ![s] = Homes(Means(s))]
        /\ bitcodeQueue' = (bitcodeQueue \cup BitcodeOf(s)) \ listed'
    BY <1>2 DEF findReachedBitCodeSections, Graphed, Means, BitcodeOf
  <2>2. ASSUME NEW t \in Sections PROVE reachedSects'[t] = Edges(t, listed')
    <3>1. reachedSects[t] = Edges(t, listed)
      BY <2>1 DEF Graphed
    <3>2. t # s => Edges(t, listed') = Edges(t, listed)
      BY <2>1 DEF Edges
    <3>3. Edges(s, listed') = Homes(Means(s))
      BY <2>1 DEF Edges
    <3> QED
      BY <2>1, <3>1, <3>2, <3>3 DEF IInv, TypeOK
  <2>3. ASSUME NEW t \in Sections, ~IsBitcodeSection(t)
        PROVE  reachedSyms'[t] = UNION {SymbolsOf(x) : x \in link.rels[t]}
    <3>1. reachedSyms'[t] = reachedSyms[t]
      BY <1>2, <2>1, <2>3 DEF findReachedBitCodeSections, IInv, TypeOK
    <3> QED
      BY <2>1, <2>3, <3>1 DEF Graphed
  <2>4. \A t \in BitcodeOf(s) : IsBitcodeSection(t)
    BY DEF BitcodeOf, Homes, IsBitCode
  <2>5. \A t \in listed' \cup bitcodeQueue' : IsBitcodeSection(t)
    BY <2>1, <2>4 DEF Graphed
  <2>6. listed \cup bitcodeQueue \cup BitcodeOf(s) = listed' \cup bitcodeQueue'
    BY <2>1
  <2>7. \A B \in SUBSET Sections : Spreads(B) => listed' \cup bitcodeQueue' \subseteq B
    BY <2>1, <2>6 DEF Graphed, Spreads
  <2>8. /\ FromObjects \subseteq listed' \cup bitcodeQueue'
        /\ \A t \in listed' : BitcodeOf(t) \subseteq listed' \cup bitcodeQueue'
    BY <2>1, <2>6 DEF Graphed
  <2>9. \A t \in Sections : reachedSects'[t] = Edges(t, listed)'
    BY <2>1, <2>2, SameLink
  <2>10. \A t \in Sections : ~IsBitcodeSection(t)' =>
           reachedSyms'[t] = UNION {SymbolsOf(x)' : x \in link'.rels[t]}
    BY <2>1, <2>3, SameLink
  <2>11. /\ \A t \in listed' \cup bitcodeQueue' : IsBitcodeSection(t)'
         /\ FromObjects' \subseteq listed' \cup bitcodeQueue'
         /\ \A t \in listed' : BitcodeOf(t)' \subseteq listed' \cup bitcodeQueue'
    BY <2>1, <2>5, <2>8, SameLink
  <2>12. \A B \in SUBSET Sections : Spreads(B)' => listed' \cup bitcodeQueue' \subseteq B
    BY <2>1, <2>7, SameLink
  <2> QED
    BY <2>1, <2>9, <2>10, <2>11, <2>12 DEF Graphed
<1>3. CASE getEntrySections
  <2>1. /\ phase = "bitcode" /\ bitcodeQueue = {} /\ UNCHANGED <<link, graph>>
    BY <1>3 DEF getEntrySections
  <2> QED
    BY <2>1, SameLink DEF Graphed, graph
<1>4. CASE stripSections \/ finalizeLtoSymbolResolution
  BY <1>4 DEF stripSections, finalizeLtoSymbolResolution, EndPass, Graphed
<1>5. CASE (\E s \in Sections : PushEntry(s) \/ ProcessSection(s)) \/ UNCHANGED vars
  <2>1. UNCHANGED <<link, graph, phase>>
    BY <1>5 DEF PushEntry, ProcessSection, vars
  <2> QED
    BY <2>1, SameLink DEF Graphed, graph
<1> QED
  BY <1>1, <1>2, <1>3, <1>4, <1>5 DEF Next

\* What has been traversed when the marking begins is the least set that spreads.
LEMMA ListedIsLeast ==
  ASSUME IInv, Graphed, phase = "mark"
  PROVE  Least(listed) /\ listed \in SUBSET Sections
BY DEF Graphed, Least, Spreads, IInv, TypeOK

\* A pass stays within a shelter, and leaves one behind: what it has found live.
LEMMA LiveSheltered ==
  ASSUME IInv, Graphed, Sheltered, stripSections
  PROVE  liveSet \cap Collected' = {} /\ Sheltered'
<1>1. /\ phase = "mark" /\ entries = EntrySections /\ entries \subseteq liveSet
      /\ UNCHANGED link /\ liveSet \in SUBSET Sections
  BY StripSweeps DEF stripSections, IInv, TypeOK
<1>2. PICK T \in SUBSET Sections : Shelters(T)
  BY DEF Sheltered
<1>3. \A s \in Sections : Followed(s) <=> WouldFollow(s)
  BY <1>1 DEF Followed, WouldFollow
<1>4. Reachability!Closed(T)
  BY <1>1, <1>2, <1>3, ListedIsLeast DEF Reachability!Closed, Shelters, Graphed
<1>5. liveSet \subseteq T
  BY <1>1, <1>4 DEF IInv, Marking
<1>6. liveSet \cap Collected' = {}
  BY <1>2, <1>5, StripSweeps DEF Shelters
<1>7. \A s \in Sections : mayProcessGC(s)' => mayProcessGC(s)
  BY DEF stripSections, mayProcessGC
<1>8. EntrySections' \subseteq EntrySections
  <2>1. /\ CommonRoots' = CommonRoots /\ FallbackRoots' = FallbackRoots
        /\ Homes(SharedCommons)' = Homes(SharedCommons)
        /\ Homes(SharedDefinitions)' = Homes(SharedDefinitions)
        /\ Homes(ExecutableEntries)' = Homes(ExecutableEntries)
    BY <1>1 DEF CommonRoots, FallbackRoots, NamedRoots, NamedSymbols, ScriptRoots,
       AssignedCommons, SharedCommons, SharedDefinitions, ExecutableEntries,
       treatSymbolAsEntry, Homes, HasFragRef, IsBitCode, IsBitcodeSection, HasHome, Sym
  <2>2. /\ Homes(SharedDefinitions) \subseteq Sections
        /\ Homes(ExecutableEntries) \subseteq Sections
    BY HomesAreSections DEF SharedDefinitions, ExecutableEntries, IInv, TypeOK
  <2> QED
    BY <1>1, <1>7, <2>1, <2>2 DEF EntrySections, Collectable
<1>9. ASSUME NEW s \in liveSet, WouldFollow(s)' PROVE WouldFollow(s)
  <2>1. kind'[s] = kind[s]
    BY <1>1, <1>6, <1>9 DEF Collected, IInv, KindsKept, stripSections, Unreferenced,
       mayProcessGC
  <2> QED
    BY <1>1, <1>8, <1>9, <2>1, SameLink DEF WouldFollow, mayProcessGC
<1>10. ASSUME NEW B \in SUBSET Sections, Least(B), NEW s \in liveSet, WouldFollow(s)
       PROVE  Edges(s, B) \subseteq liveSet
  <2>1. B = listed
    BY <1>1, <1>10, ListedIsLeast DEF Least
  <2>2. reachedSects[s] = Edges(s, B)
    BY <1>1, <2>1 DEF Graphed
  <2>3. s \in referenced
    BY <1>1, <1>3, <1>10 DEF stripSections, IInv, Marking
  <2> QED
    BY <1>1, <2>2, <2>3 DEF IInv, Marking
<1>11. Shelters(liveSet)'
  <2>1. liveSet' = liveSet
    BY DEF stripSections, marks
  <2>2. EntrySections' \subseteq liveSet
    BY <1>1, <1>8
  <2>3. ASSUME NEW B \in SUBSET Sections, Least(B)', NEW s \in liveSet, WouldFollow(s)'
        PROVE  Edges(s, B)' \subseteq liveSet
    BY <1>1, <1>9, <1>10, <2>3, SameLink
  <2> QED
    BY <1>6, <2>1, <2>2, <2>3 DEF Shelters
<1> QED
  BY <1>1, <1>6, <1>11, StripSweeps DEF Sheltered, stripSections, marks

LEMMA NextSheltered ==
  IInv /\ Graphed /\ Sheltered /\ [Next]_vars => Sheltered'
<1> SUFFICES ASSUME IInv, Graphed, Sheltered, [Next]_vars PROVE Sheltered'
  OBVIOUS
<1>1. CASE stripSections
  BY <1>1, LiveSheltered
<1>2. CASE ~stripSections
  <2>1. UNCHANGED <<link, kind, Collected>>
    BY <1>2, OnlySweepsCollect
  <2>2. EntrySections' = EntrySections
    BY <2>1, SameRoots
  <2>3. \A s : WouldFollow(s)' = WouldFollow(s)
    BY <2>1, <2>2 DEF WouldFollow, IsBitcodeSection, mayProcessGC
  <2>4. \A T : Shelters(T)' = Shelters(T)
    BY <2>1, <2>2, <2>3, SameLink DEF Shelters
  <2> QED
    BY <2>4 DEF Sheltered
<1> QED
  BY <1>1, <1>2

\* A sweep keeps what the sections in use refer to.
LEMMA SweepSettles ==
  ASSUME IInv, link \in Links, Graphed, MarkedFollowed, Sheltered, stripSections
  PROVE  Settled'
<1>1. /\ phase = "mark" /\ UNCHANGED <<link, liveSet, referenced>>
      /\ referenced \subseteq liveSet /\ liveSet \in SUBSET Sections
      /\ ignored' = ignored \ StillReferred
  BY DEF stripSections, IInv, TypeOK, marks
<1>2. liveSet \cap Collected' = {}
  BY LiveSheltered
<1>3. ASSUME NEW s \in referenced, ~IsBitcodeSection(s), NEW x \in link.rels[s]
      PROVE  /\ Homes(Targets(x)) \cap Collected' = {}
             /\ kind'[s] # "Ignore" /\ ~Scripted(x) => x \notin ignored'
  <2>1. ASSUME NEW t \in Homes(Targets(x)) \cap Collected' PROVE FALSE
    <3>1. ~IsBitcodeSection(t)
      <4>1. KindsKept'
        BY NextKinds DEF IInv, Next
      <4> QED
        BY <1>1, <2>1, <4>1 DEF Collected, KindsKept, IsBitcodeSection
    <3>2. t \in ReachedFromObject(s)
      BY <1>1, <1>3, <3>1, TargetsReached
    <3>3. t \in liveSet
      BY <1>1, <1>3, <3>2 DEF Graphed, Edges, IInv, Marking
    <3> QED
      BY <1>2, <2>1, <3>3
  <2>2. ASSUME kind'[s] # "Ignore", ~Scripted(x) PROVE x \notin ignored'
    <3>1. kind[s] \notin {"Ignore", "Discard"}
      <4>1. kind[s] # "Ignore"
        BY <1>1, <2>2 DEF stripSections
      <4>2. Followed(s)
        BY <1>1 DEF MarkedFollowed
      <4> QED
        BY <1>3, <4>1, <4>2 DEF Followed, mayProcessGC
    <3>2. x \in reachedSyms[s]
      BY <1>1, <1>3, <2>2, SymbolsReached DEF Graphed
    <3>3. s \notin Unreferenced /\ s \in liveSet /\ s \in Sections
      BY <1>1 DEF Unreferenced
    <3>4. x \in StillReferred
      BY <1>3, <3>1, <3>2, <3>3 DEF StillReferred
    <3> QED
      BY <1>1, <3>4
  <2> QED
    BY <2>1, <2>2
<1> QED
  BY <1>1, <1>2, <1>3, SameLink DEF Settled, ReferencesKept

LEMMA NextMarkedFollowed == IInv /\ MarkedFollowed /\ [Next]_vars => MarkedFollowed'
<1> SUFFICES ASSUME IInv, MarkedFollowed, [Next]_vars, phase' = "mark", NEW s \in referenced'
             PROVE  Followed(s)'
  BY DEF MarkedFollowed
<1>0. s \in Sections
  <2>1. TypeOK'
    BY NextType DEF IInv
  <2> QED
    BY <2>1 DEF TypeOK
<1>1. CASE getEntrySections
  BY <1>1 DEF getEntrySections, EndPass, IInv, TypeOK, marks
<1>2. ASSUME NEW t \in Sections, ProcessSection(t) PROVE Followed(s)'
  <2>1. UNCHANGED <<link, kind, entries>> /\ phase = "mark"
    BY <1>2 DEF ProcessSection
  <2>2. s \in referenced \/ (s = t /\ Followed(t))
    BY <1>2 DEF ProcessSection
  <2> QED
    BY <1>0, <2>1, <2>2, SameFollowed DEF MarkedFollowed
<1>3. CASE (\E t \in Sections : PushEntry(t)) \/ UNCHANGED vars
  <2>1. UNCHANGED <<link, kind, entries, referenced, phase>>
    BY <1>3 DEF PushEntry, vars, marks
  <2> QED
    BY <1>0, <2>1, SameFollowed DEF MarkedFollowed
<1>4. CASE \/ setUpReachedSectionsAndSymbols \/ stripSections \/ finalizeLtoSymbolResolution
           \/ \E t \in Sections : findReachedBitCodeSections(t)
  BY <1>4 DEF setUpReachedSectionsAndSymbols, stripSections, finalizeLtoSymbolResolution,
     findReachedBitCodeSections, EndPass
<1> QED
  BY <1>1, <1>2, <1>3, <1>4 DEF Next

LEMMA NextSettled ==
  IInv /\ PassInv /\ [Next]_vars => Settled'
<1> SUFFICES ASSUME IInv, PassInv, [Next]_vars, ~stripSections, phase' # "mark" PROVE Settled'
  BY SweepSettles DEF PassInv, Settled
<1>1. UNCHANGED <<link, kind, Collected>>
  BY OnlySweepsCollect
<1>2. /\ phase # "mark" /\ UNCHANGED <<liveSet, referenced>>
      /\ ignored' \subseteq ignored
  <2>1. CASE getEntrySections
    BY <2>1 DEF getEntrySections, EndPass, marks
  <2>2. CASE ~getEntrySections
    BY <2>2 DEF Next, vars, setUpReachedSectionsAndSymbols, findReachedBitCodeSections,
       PushEntry, ProcessSection, finalizeLtoSymbolResolution, EndPass, marks
  <2> QED
    BY <2>1, <2>2
<1>3. Settled
  BY DEF PassInv
<1>4. liveSet' \cap Collected' = {}
  BY <1>1, <1>2, <1>3 DEF Settled
<1>5. ReferencesKept'
  BY <1>1, <1>2, <1>3, SameLink DEF Settled, ReferencesKept
<1> QED
  BY <1>4, <1>5 DEF Settled

\* A pass is over when it has swept, or has no roots, or has preserved.
LEMMA TodoSteps ==
  ASSUME [Next]_vars
  PROVE  \/ UNCHANGED todo
         \/ /\ todo' = Tail(todo)
            /\ \/ stripSections \/ getEntrySections
               \/ finalizeLtoSymbolResolution /\ todo = <<"lto">>
<1>1. CASE getEntrySections
  BY <1>1 DEF getEntrySections, EndPass
<1>2. CASE stripSections \/ finalizeLtoSymbolResolution
  BY <1>2 DEF stripSections, finalizeLtoSymbolResolution, EndPass
<1>3. CASE ~(getEntrySections \/ stripSections \/ finalizeLtoSymbolResolution)
  BY <1>3 DEF Next, vars, setUpReachedSectionsAndSymbols, findReachedBitCodeSections,
     PushEntry, ProcessSection
<1> QED
  BY <1>1, <1>2, <1>3

\* The optimizer preserves what is marked and not ignored.
LEMMA NextOptimizing ==
  IInv /\ PassInv /\ [Next]_vars => Optimizing'
<1> SUFFICES ASSUME IInv, PassInv, [Next]_vars, link'.passes = <<"common", "lto">>
             PROVE  /\ todo' \in {<<"common", "lto">>, <<"lto">>, <<>>}
                    /\ \A s \in Sections : kind'[s] # link'.kind[s] => link'.kind[s] = "Common"
                    /\ UsedDefinitionsPreserved'
  BY DEF Optimizing
<1>0. /\ UNCHANGED link /\ todo \in {<<"common", "lto">>, <<"lto">>, <<>>}
      /\ \A s \in Sections : kind[s] # link.kind[s] => link.kind[s] = "Common"
  <2>1. UNCHANGED link
    BY DEF Next, vars, setUpReachedSectionsAndSymbols, findReachedBitCodeSections,
       getEntrySections, PushEntry, ProcessSection, stripSections, finalizeLtoSymbolResolution
  <2> QED
    BY <2>1 DEF PassInv, Optimizing
<1>1. /\ Tail(<<"common", "lto">>) = <<"lto">> /\ Tail(<<"lto">>) = <<>>
      /\ Head(<<"common", "lto">>) = "common" /\ Head(<<"lto">>) = "lto"
  OBVIOUS
<1>2. CASE finalizeLtoSymbolResolution
  <2>1. /\ UNCHANGED <<kind, referenced, ignored>> /\ todo' = <<>> /\ phase = "graph"
        /\ \A x \in link.preserve : IsBitCode(x) /\ x \notin ignored /\ x \in Symbols => x \in preserved'
    BY <1>1, <1>2 DEF finalizeLtoSymbolResolution, EndPass, marks
  <2>2. ASSUME NEW s \in referenced, link.kind[s] = "Regular", NEW x \in link.rels[s],
               IsBitCode(x), x \in link.preserve
        PROVE  x \in preserved'
    <3>1. s \in Sections /\ x \in Symbols
      BY LinkFields DEF IInv, TypeOK
    <3>2. ~IsBitcodeSection(s) /\ kind[s] # "Ignore"
      BY <1>0, <2>2, <3>1 DEF IsBitcodeSection
    <3>3. ~Scripted(x)
      BY <2>2, <3>1, LinksAssumption DEF PassInv, IsBitCode, HasHome, Scripted, Sym
    <3>4. x \notin ignored
      BY <2>1, <2>2, <3>2, <3>3 DEF PassInv, Settled, ReferencesKept
    <3> QED
      BY <2>1, <2>2, <3>1, <3>4
  <2>3. \A x : IsBitCode(x)' = IsBitCode(x)
    BY <1>0 DEF IsBitCode, HasHome, IsBitcodeSection, Sym
  <2> QED
    BY <1>0, <2>1, <2>2, <2>3 DEF UsedDefinitionsPreserved
<1>3. CASE todo' = <<>> /\ ~finalizeLtoSymbolResolution
  <2>1. CASE todo = <<>>
    <3>1. UNCHANGED <<link, kind, todo, referenced, preserved>>
      BY <1>3, <2>1 DEF Next, vars, setUpReachedSectionsAndSymbols, findReachedBitCodeSections,
         getEntrySections, PushEntry, ProcessSection, stripSections,
         finalizeLtoSymbolResolution, IInv, TypeOK, marks
    <3>2. \A x : IsBitCode(x)' = IsBitCode(x)
      BY <1>0 DEF IsBitCode, HasHome, IsBitcodeSection, Sym
    <3> QED
      BY <1>0, <3>1, <3>2 DEF PassInv, Optimizing, UsedDefinitionsPreserved, Ended
  <2>2. CASE todo # <<>>
    <3>1. todo = <<"lto">> /\ (stripSections \/ getEntrySections)
      BY <1>0, <1>1, <1>3, <2>2, TodoSteps
    <3>2. phase \in {"bitcode", "mark"}
      BY <3>1 DEF stripSections, getEntrySections
    <3> QED
      BY <3>1, <3>2 DEF PassInv, CollectorRuns
  <2> QED
    BY <2>1, <2>2
<1>4. CASE todo' # <<>>
  <2>1. todo' \in {<<"common", "lto">>, <<"lto">>}
    <3>1. stripSections \/ getEntrySections => todo # <<>>
      BY DEF stripSections, getEntrySections, IInv, TypeOK
    <3> QED
      BY <1>0, <1>1, <1>4, <3>1, TodoSteps
  <2>2. ASSUME NEW s \in Sections, kind'[s] # link.kind[s] PROVE link.kind[s] = "Common"
    <3>1. CASE stripSections
      <4>1. Head(todo) = "common"
        BY <1>0, <1>1, <1>4, <3>1 DEF stripSections, EndPass
      <4> QED
        BY <1>0, <2>2, <3>1, <4>1 DEF stripSections
    <3>2. CASE ~stripSections
      BY <1>0, <2>2, <3>2, OnlySweepsCollect
    <3> QED
      BY <3>1, <3>2
  <2> QED
    BY <1>0, <1>4, <2>1, <2>2 DEF UsedDefinitionsPreserved, Ended
<1> QED
  BY <1>2, <1>3, <1>4

LEMMA NextRuns == IInv /\ CollectorRuns /\ [Next]_vars => CollectorRuns'
<1> SUFFICES ASSUME IInv, CollectorRuns, [Next]_vars, phase' # "graph" PROVE Head(todo') # "lto"
  BY DEF CollectorRuns
<1>1. CASE setUpReachedSectionsAndSymbols
  BY <1>1 DEF setUpReachedSectionsAndSymbols
<1>2. CASE ~setUpReachedSectionsAndSymbols
  <2>1. phase # "graph"
    BY <1>2 DEF Next, vars, findReachedBitCodeSections, getEntrySections, PushEntry,
       ProcessSection, stripSections, finalizeLtoSymbolResolution, EndPass
  <2>2. ~(stripSections \/ finalizeLtoSymbolResolution) /\ (getEntrySections => UNCHANGED todo)
    BY DEF stripSections, finalizeLtoSymbolResolution, getEntrySections, EndPass
  <2> QED
    BY <2>1, <2>2, TodoSteps DEF CollectorRuns
<1> QED
  BY <1>1, <1>2

LEMMA InitPasses == Init => PassInv
<1> SUFFICES ASSUME Init PROVE PassInv
  OBVIOUS
<1>1. link \in Links /\ phase = "graph" /\ kind = link.kind /\ todo = link.passes
      /\ liveSet = {} /\ referenced = {} /\ Collected = {}
  BY DEF Init, Collected
<1>2. EntrySections \subseteq Sections
  BY <1>1, LinksAssumption, EntrySectionsType
<1>3. \A s \in Sections, B \in SUBSET Sections : Edges(s, B) \subseteq Sections
  <2> SUFFICES ASSUME NEW s \in Sections, NEW B PROVE Edges(s, B) \subseteq Sections
    OBVIOUS
  <2>1. link \in LinkType
    BY <1>1, LinksAssumption
  <2>2. Homes(Means(s)) \subseteq Sections
    BY <2>1, FromBitcodeType, HomesAreSections DEF Means
  <2> QED
    BY <2>1, <2>2, ReachedFromObjectType DEF Edges
<1>4. Shelters(Sections)
  BY <1>1, <1>2, <1>3 DEF Shelters
<1> QED
  BY <1>1, <1>4 DEF PassInv, MarkedFollowed, CollectorRuns, Graphed, Sheltered, Settled,
     ReferencesKept, Optimizing, UsedDefinitionsPreserved, Ended

LEMMA PassesKept == Spec => [](IInv /\ PassInv)
<1>1. IInv /\ PassInv /\ [Next]_vars => PassInv'
  <2> SUFFICES ASSUME IInv, PassInv, [Next]_vars PROVE PassInv'
    OBVIOUS
  <2>1. UNCHANGED link
    BY DEF Next, vars, setUpReachedSectionsAndSymbols, findReachedBitCodeSections,
       getEntrySections, PushEntry, ProcessSection, stripSections, finalizeLtoSymbolResolution
  <2> QED
    BY <2>1, NextMarkedFollowed, NextRuns, NextGraphed, NextSheltered, NextSettled,
       NextOptimizing DEF PassInv
<1> QED
  BY <1>1, InitPasses, Invariance, PTL DEF Spec

\* Whatever passes run, and in whatever order sections are visited, a section in use
\* refers to nothing that was dropped or marked as garbage: the relocations of what is
\* kept are never patched to a dummy address, and the symbols of a script assignment
\* behind them are there.
THEOREM ReferencesSurvive == Spec => []LiveReferencesKept
<1>1. PassInv => LiveReferencesKept
  BY DEF PassInv, Settled, ReferencesKept, LiveReferencesKept, BetweenPasses
<1> QED
  BY <1>1, PassesKept, PTL

\* A plugin may run a pass of its own: it drops no common that the linker's pass needs,
\* and hides no definition from the optimizer.
THEOREM PluginPasses == Spec => []PassesHarmless
<1>1. IInv /\ PassInv => PassesHarmless
  <2> SUFFICES ASSUME IInv, PassInv PROVE PluginPassHarmless /\ UsedDefinitionsPreserved
    BY DEF PassesHarmless
  <2>1. PluginPassHarmless
    BY DEF PassInv, Settled, PluginPassHarmless, Ended, IInv, TypeOK
  <2>2. UsedDefinitionsPreserved
    BY DEF PassInv, Optimizing, UsedDefinitionsPreserved
  <2> QED
    BY <2>1, <2>2
<1> QED
  BY <1>1, PassesKept, PTL

\* What the user asked to keep is never collected, whatever the graph is, whichever
\* passes run, and in whatever order the worklist is processed: the entry, the
\* sections of KEEP and SHF_GNU_RETAIN, and those of -u and of
\* --export-dynamic-symbol are roots, and every root is live at the sweep.
THEOREM RootsSurvive == Spec => []RootsKept
<1>1. Init => RootsKept
  BY DEF Init, RootsKept, Collected
<1>2. ASSUME IInv, RootsKept, [Next]_vars PROVE RootsKept'
  <2>1. CASE stripSections
    <3>1. NamedRoots \cup ScriptRoots \subseteq liveSet
      BY <1>2, <2>1, StripSweeps DEF EntrySections, CommonRoots
    <3>2. (NamedRoots \cup ScriptRoots)' = NamedRoots \cup ScriptRoots
      BY <2>1 DEF stripSections, NamedRoots, NamedSymbols, ScriptRoots, Homes,
         HasHome, Sym
    <3> QED
      BY <1>2, <2>1, <3>1, <3>2, StripSweeps DEF RootsKept
  <2>2. CASE ~stripSections
    <3>1. UNCHANGED <<link, Collected>>
      BY <1>2, <2>2, OnlySweepsCollect
    <3> QED
      BY <1>2, <3>1 DEF RootsKept, NamedRoots, NamedSymbols, ScriptRoots, Homes,
         HasHome, Sym
  <2> QED
    BY <2>1, <2>2
<1> QED
  BY <1>1, <1>2, Invariance, PTL DEF Spec

\* The collector implements the abstract one: the marking, with its queue and its
\* order of visits, computes the least set of sections that holds the roots and
\* what its members refer to, and a sweep drops the candidates outside it.
THEOREM Refinement == Spec => CollectsTheUnreachable
<1>1. Init => Reachability!Init
  BY DEF Init, Reachability!Init, Collected
<1>2. ASSUME IInv, [Next]_vars PROVE [Reachability!Sweep]_Collected
  <2>1. CASE stripSections
    <3>1. liveSet \in SUBSET Sections
      BY <1>2 DEF IInv, TypeOK
    <3> QED
      BY <1>2, <2>1, <3>1, StripSweeps DEF Reachability!Sweep
  <2>2. CASE ~stripSections
    BY <1>2, <2>2, OnlySweepsCollect
  <2> QED
    BY <2>1, <2>2
<1> QED
  BY <1>1, <1>2, Invariance, PTL
     DEF Spec, CollectsTheUnreachable, Reachability!Spec
===============================================================================
