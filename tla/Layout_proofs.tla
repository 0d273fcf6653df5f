----------------------------- MODULE Layout_proofs -----------------------------
(***************************************************************************)
(* Proofs about Layout, for every script, page size and stub.              *)
(*                                                                         *)
(* A pass starts again at most once for each section, since every segment  *)
(* that it has created holds a section or is about to (RestartsBounded).   *)
(*                                                                         *)
(* Of a script that leaves addresses to the linker and moves the counter   *)
(* forward only, the numbers of the layout are numbers (TypeCorrect), and  *)
(* sections do not overlap (LoadsApart): what has been laid out in a pass  *)
(* ends where the counter is, or the cursors of the memory regions are,    *)
(* and the next section starts there or behind.  The values of expressions *)
(* are sums, of which the lemmas in the middle say what they are.          *)
(*                                                                         *)
(* The second half is about scripts in which nothing shrinks between two   *)
(* visits of the walk: when the snapshots agree, their values are what the *)
(* script says of the final addresses, sizes and values (GrowingSolved).   *)
(* The invariant, Growth, keeps what the counter has been at every point   *)
(* of the script when the walk was there last: it is never more than it    *)
(* would be if the point before it were left now, so that addresses and    *)
(* values only rise.  What equals its snapshot at the end has therefore    *)
(* not moved at any time of the pass, and whatever was read early in it is *)
(* what is found there in the end.                                         *)
(*                                                                         *)
(* The last part is about scripts with memory regions in which no symbol   *)
(* has a say in where anything is: every segment has one distance between  *)
(* addresses and load addresses (DistanceKept).  The invariant has two     *)
(* halves.  Steady: up to a section k, the addresses are already those of  *)
(* every later pass, since the cursors of the regions depend on the        *)
(* sections before only; k grows as the pass goes on and falls to 0 when a *)
(* trampoline goes in.  Parted: among these sections the segments created  *)
(* so far part those whose distances differ, and the local variables of    *)
(* the pass describe the last section that it has put into a segment.      *)
(***************************************************************************)
EXTENDS Layout, FiniteSetTheorems, SequenceTheorems, WellFoundedInduction, TLAPS

\* A segment has been created for the section that the pass is at, which is about
\* to be put into it.
Pending == pc = "after" /\ walk.newSegment

\* What NeedsNewSegment has found stays true until the section is attached.
PendingAttaches ==
  Pending =>
    /\ segment[walk.out] = 0
    /\ walk.loadSeg = segments /\ segments # 0
    /\ Attaches

\* Every segment is that of a section, but for the one that is pending.
SegmentsHeld ==
  \A k \in 1..segments : (\E s \in Sections : segment[s] = k) \/ (Pending /\ k = segments)

\* The local variables of the pass that have a say in this.
WalkFields ==
  {"out", "loadSeg", "needsSegment", "create", "enters", "newSegment",
   "item", "offset", "saved", "disconnect", "touched"}

Shape ==
  /\ script \in Scripts
  /\ WalkFields \subseteq DOMAIN walk
  /\ walk.loadSeg \in Nat
  /\ DOMAIN size = Sections
  /\ segments \in Nat
  /\ segment \in [Sections -> Nat]
  /\ walk.out \in Nat \ {0}
  /\ pc \in {"body", "after"} => walk.out \in Sections
  /\ pc = "body" => (walk.enters => Loaded(walk.out))

Inv == Shape /\ PendingAttaches /\ SegmentsHeld

\* A script has a sequence of sections.
LEMMA SectionsAreNumbered ==
  ASSUME script \in Scripts
  PROVE  Len(script.sections) \in Nat /\ Sections = 1..Len(script.sections)
BY LayoutAssumption DEF LayoutAssumption, Sections

\* As many segments as the invariant allows: to each belongs another section.
LEMMA HeldSegmentsAreFew ==
  ASSUME Inv
  PROVE  segments <= Len(script.sections)
<1> DEFINE h == [s \in Sections |-> IF s = walk.out /\ segment[s] = 0 THEN segments ELSE segment[s]]
           T == {t \in 0..segments : \E s \in Sections : h[s] = t}
           D == {s \in Sections : h[s] \in 0..segments}
           g == [s \in D |-> h[s]]
<1>1. Len(script.sections) \in Nat /\ Sections = 1..Len(script.sections)
  BY SectionsAreNumbered DEF Inv, Shape
<1>2. IsFiniteSet(Sections) /\ Cardinality(Sections) = Len(script.sections)
  BY <1>1, FS_Interval
<1>3. IsFiniteSet(D) /\ Cardinality(D) <= Cardinality(Sections)
  BY <1>2, FS_Subset
<1>4. g \in Surjection(D, T)
  BY DEF Surjection
<1>5. IsFiniteSet(T) /\ Cardinality(T) <= Cardinality(D)
  BY <1>3, <1>4, FS_Surjection
<1>6. 1..segments \subseteq T
  <2> SUFFICES ASSUME NEW k \in 1..segments
               PROVE  \E s \in Sections : h[s] = k
    BY DEF Inv, Shape
  <2>1. CASE \E s \in Sections : segment[s] = k
    BY <2>1 DEF Inv, Shape
  <2>2. CASE Pending /\ k = segments
    BY <2>2 DEF Inv, Shape, Pending, PendingAttaches
  <2> QED  BY <2>1, <2>2 DEF Inv, SegmentsHeld
<1>7. IsFiniteSet(1..segments) /\ Cardinality(1..segments) = segments
  <2>1. segments \in Nat
    BY DEF Inv, Shape
  <2> QED  BY <2>1, FS_Interval
<1>8. Cardinality(1..segments) <= Cardinality(T)
  BY <1>5, <1>6, FS_Subset
<1>9. Cardinality(T) \in Nat /\ Cardinality(D) \in Nat
  BY <1>3, <1>5, FS_CardinalityType
<1> QED  BY <1>1, <1>2, <1>3, <1>5, <1>7, <1>8, <1>9 DEF Inv, Shape

------------------------------------------------------------------------------
\* The passes preserve the invariant.

\* A layout begins without segments.
LEMMA InitInv == Init => Inv
<1> SUFFICES ASSUME Init PROVE Inv
  OBVIOUS
<1>1. /\ pc = "before" /\ segments = 0 /\ script \in Scripts
      /\ segment = [s \in Sections |-> 0] /\ DOMAIN size = Sections
  BY DEF Init
<1>2. WalkFields \subseteq DOMAIN walk /\ walk.loadSeg = 0 /\ walk.out = 1
  BY DEF Init, FreshWalk, WalkFields
<1>3. Shape
  BY <1>1, <1>2 DEF Shape
<1>4. ~Pending
  BY <1>1 DEF Pending
<1>5. SegmentsHeld
  BY <1>1 DEF SegmentsHeld
<1> QED  BY <1>3, <1>4, <1>5 DEF Inv, PendingAttaches

\* A step between two sections or outside of them: nothing is pending, no segment
\* is created.
LEMMA OutsideKeepsInv ==
  ASSUME Inv, pc \in {"before", "place", "laid_out"}, pc' \in {"before", "place", "laid_out", "done"},
         script' = script, DOMAIN size' = DOMAIN size,
         segment' = segment, segments' = segments,
         WalkFields \subseteq DOMAIN walk', walk'.loadSeg = walk.loadSeg, walk'.out = walk.out
  PROVE  Inv'
<1>1. ~Pending /\ ~Pending'
  BY DEF Pending
<1>2. Sections' = Sections
  BY DEF Sections
<1>3. Shape'
  BY <1>2 DEF Inv, Shape
<1>4. SegmentsHeld'
  BY <1>1, <1>2 DEF Inv, SegmentsHeld
<1> QED  BY <1>1, <1>3, <1>4 DEF Inv, PendingAttaches

\* Another pass begins without segments.
LEMMA NextPassKeepsInv ==
  ASSUME Inv, NextPass, script' = script, size' = size
  PROVE  Inv'
<1>1. Sections' = Sections
  BY DEF Sections
<1>2. pc' = "before" /\ segments' = 0 /\ segment' = [s \in Sections |-> 0]
  BY DEF NextPass, StartAgain
<1>3. WalkFields \subseteq DOMAIN walk' /\ walk'.loadSeg = 0 /\ walk'.out = 1
  BY DEF NextPass, FreshWalk, WalkFields
<1>4. Shape'
  BY <1>1, <1>2, <1>3 DEF Inv, Shape
<1>5. ~Pending'
  BY <1>2 DEF Pending
<1>6. SegmentsHeld'
  BY <1>2 DEF SegmentsHeld
<1> QED  BY <1>4, <1>5, <1>6 DEF Inv, PendingAttaches

\* A section is placed, or a part of it: it is not pending yet.
LEMMA PlacingKeepsInv ==
  ASSUME Inv, pc \in {"place", "body"}, pc' = "body",
         script' = script, DOMAIN size' = DOMAIN size,
         segment' = segment, segments' = segments,
         WalkFields \subseteq DOMAIN walk', walk'.loadSeg \in Nat, walk'.out = walk.out,
         walk.out \in Sections, walk'.enters => Loaded(walk.out)
  PROVE  Inv'
<1>1. ~Pending /\ ~Pending'
  BY DEF Pending
<1>2. Sections' = Sections /\ (Loaded(walk.out))' = Loaded(walk'.out)
  BY DEF Sections, Loaded, Section
<1>3. Shape'
  BY <1>2 DEF Inv, Shape
<1>4. SegmentsHeld'
  BY <1>1, <1>2 DEF Inv, SegmentsHeld
<1> QED  BY <1>1, <1>3, <1>4 DEF Inv, PendingAttaches

\* A section that has been laid out is put into the segment that the walk is in.
LEMMA GroupedHolds ==
  ASSUME Inv, pc = "after", segment' = Grouped(walk.out), segments' = segments,
         script' = script, Attaches \/ ~walk.newSegment
  PROVE  /\ segment' \in [Sections -> Nat]
         /\ \A k \in 1..segments : \E s \in Sections : segment'[s] = k
<1>1. segment' \in [Sections -> Nat]
  BY DEF Inv, Shape, Grouped
<1>2. ASSUME NEW k \in 1..segments PROVE \E s \in Sections : segment'[s] = k
  <2>1. CASE \E s \in Sections : segment[s] = k
    <3>1. PICK s \in Sections : segment[s] = k
      BY <2>1
    <3>2. segment'[s] = k
      BY <3>1, <1>2 DEF Inv, Shape, Grouped
    <3> QED  BY <3>2
  <2>2. CASE Pending /\ k = segments
    <3>1. Attaches /\ segment[walk.out] = 0 /\ walk.loadSeg = k /\ walk.out \in Sections
      BY <2>2 DEF Inv, PendingAttaches, Shape
    <3>2. segment'[walk.out] = k
      BY <3>1 DEF Inv, Shape, Grouped
    <3> QED  BY <3>1, <3>2
  <2> QED  BY <2>1, <2>2 DEF Inv, SegmentsHeld
<1> QED  BY <1>1, <1>2

\* A segment is created only for a section in none, which is then attached to it.
LEMMA FinishBodyKeepsInv ==
  ASSUME Inv, FinishBody
  PROVE  Inv'
<1> DEFINE s == walk.out
<1>1. /\ pc = "body" /\ pc' = "after" /\ segment' = segment
      /\ script' = script /\ DOMAIN size' = DOMAIN size
      /\ segments' = IF NeedsNewSegment(s) THEN segments + 1 ELSE segments
  BY DEF FinishBody
<1>2. /\ WalkFields \subseteq DOMAIN walk' /\ walk'.out = s
      /\ walk'.newSegment = NeedsNewSegment(s)
      /\ walk'.loadSeg = IF NeedsNewSegment(s) THEN segments + 1 ELSE walk.loadSeg
      /\ walk'.needsSegment = IF ~walk.enters THEN walk.needsSegment
                              ELSE ~IsWanted(s, SizeAtEnd) \/ IsTBSS(s)
      /\ walk'.create = walk.create
  BY DEF FinishBody, Inv, Shape, WalkFields
<1>3. Sections' = Sections
  BY <1>1 DEF Sections
<1>4. Shape'
  BY <1>1, <1>2, <1>3 DEF Inv, Shape
<1>5. SegmentsHeld'
  <2>1. ~Pending
    BY <1>1 DEF Pending
  <2>2. CASE NeedsNewSegment(s)
    <3>1. Pending' /\ segments' = segments + 1
      BY <2>2, <1>1, <1>2 DEF Pending
    <3> QED  BY <3>1, <2>1, <1>1, <1>3 DEF Inv, Shape, SegmentsHeld
  <2>3. CASE ~NeedsNewSegment(s)
    BY <2>3, <2>1, <1>1, <1>3 DEF Inv, SegmentsHeld
  <2> QED  BY <2>2, <2>3
<1>6. ASSUME Pending'
      PROVE  segment'[walk'.out] = 0 /\ walk'.loadSeg = segments' /\ segments' # 0 /\ Attaches'
  <2>1. NeedsNewSegment(s)
    BY <1>6, <1>2 DEF Pending
  <2>2. segment'[walk'.out] = 0 /\ walk'.loadSeg = segments' /\ segments' # 0
    BY <2>1, <1>1, <1>2 DEF NeedsNewSegment, Inv, Shape
  <2>3. Loaded(s) /\ s \in Sections
    BY <2>1, <1>1 DEF NeedsNewSegment, Inv, Shape
  <2>4. IsWanted(s, SizeAtEnd) /\ ~walk'.needsSegment
    BY <2>1, <1>2 DEF NeedsNewSegment
  <2>5. size'[s] = SizeAtEnd
    BY <2>3 DEF FinishBody, Inv, Shape
  <2>6. (Loaded(walk.out))' /\ (IsWanted(walk.out, size[walk.out]))'
    BY <2>3, <2>4, <2>5, <1>1, <1>2 DEF Loaded, IsWanted, Section
  <2> QED  BY <2>2, <2>4, <2>6 DEF Attaches
<1> QED  BY <1>4, <1>5, <1>6 DEF Inv, PendingAttaches

\* The assignments behind a section change nothing that decides on its segment.
LEMMA EvaluateAfterKeepsInv ==
  ASSUME Inv, EvaluateAfter
  PROVE  Inv'
<1>1. /\ pc = "after" /\ pc' = "after" /\ script' = script /\ size' = size
      /\ segment' = segment /\ segments' = segments
  BY DEF EvaluateAfter, placed
<1>2. /\ WalkFields \subseteq DOMAIN walk' /\ walk'.out = walk.out
      /\ walk'.newSegment = walk.newSegment /\ walk'.loadSeg = walk.loadSeg
      /\ walk'.needsSegment = walk.needsSegment /\ walk'.create = walk.create
  BY DEF EvaluateAfter, Inv, Shape, WalkFields
<1>3. Sections' = Sections /\ Pending' = Pending /\ (Loaded(walk.out))' = Loaded(walk.out)
  BY <1>1, <1>2 DEF Sections, Pending, Loaded, Section
<1>4. (IsWanted(walk.out, size[walk.out]))' = IsWanted(walk.out, size[walk.out])
  BY <1>1, <1>2 DEF IsWanted, Section
<1>5. Attaches' = Attaches
  BY <1>2, <1>3, <1>4 DEF Attaches
<1>6. Shape'
  BY <1>1, <1>2, <1>3 DEF Inv, Shape
<1>7. PendingAttaches'
  BY <1>1, <1>2, <1>3, <1>5 DEF Inv, PendingAttaches
<1>8. SegmentsHeld'
  BY <1>1, <1>3 DEF Inv, SegmentsHeld
<1> QED  BY <1>6, <1>7, <1>8 DEF Inv

\* The walk goes on, or starts again, with every segment held by a section.
LEMMA LeavingKeepsInv ==
  ASSUME Inv, NextSection \/ Restart
  PROVE  Inv'
<1>1. /\ pc = "after" /\ pc' \in {"before", "place"}
      /\ script' = script /\ size' = size
      /\ segment' = Grouped(walk.out) /\ segments' = segments
      /\ Attaches \/ ~walk.newSegment \/ NextSection
  BY DEF NextSection, Restart, EndOfSection, StartAgain, placed
<1>2. Attaches \/ ~walk.newSegment
  BY <1>1 DEF Inv, PendingAttaches, Pending
<1>3. WalkFields \subseteq DOMAIN walk' /\ walk'.loadSeg = walk.loadSeg
  <2>1. CASE NextSection
    BY <2>1 DEF NextSection, Passed, Inv, Shape, WalkFields
  <2>2. CASE Restart
    BY <2>2 DEF Restart, ResetWalk, KeptOnReset, Inv, Shape, WalkFields
  <2> QED  BY <2>1, <2>2
<1>4. walk'.out \in Nat \ {0}
  <2>1. CASE NextSection
    BY <2>1 DEF NextSection, Passed, Inv, Shape, WalkFields
  <2>2. CASE Restart
    BY <2>2 DEF Restart, ResetWalk, KeptOnReset, FreshWalk, Inv, Shape, WalkFields
  <2> QED  BY <2>1, <2>2
<1>5. Sections' = Sections /\ ~Pending'
  BY <1>1 DEF Sections, Pending
<1>6. /\ segment' \in [Sections -> Nat]
      /\ \A k \in 1..segments : \E s \in Sections : segment'[s] = k
  BY <1>1, <1>2, GroupedHolds
<1>7. Shape'
  BY <1>1, <1>3, <1>4, <1>5, <1>6 DEF Inv, Shape
<1>8. SegmentsHeld'
  BY <1>1, <1>5, <1>6 DEF SegmentsHeld
<1> QED  BY <1>5, <1>7, <1>8 DEF Inv, PendingAttaches

\* A section is entered for a new segment only if it is loaded.
LEMMA PlacementKeepsInv ==
  ASSUME Inv, PlaceUnloaded \/ PlaceSection \/ EvaluateInside \/ PlaceFragment
  PROVE  Inv'
<1>1. /\ pc \in {"place", "body"} /\ pc' = "body"
      /\ script' = script /\ DOMAIN size' = DOMAIN size
      /\ segment' = segment /\ segments' = segments
  BY DEF PlaceUnloaded, PlaceSection, EvaluateInside, PlaceFragment, InBody, placed
<1>2. walk.out \in Sections
  <2>1. CASE pc = "body"
    BY <2>1 DEF Inv, Shape
  <2>2. CASE pc = "place"
    <3>1. walk.out \in 1..Len(script.sections)
      BY <2>2, SectionsAreNumbered
      DEF PlaceUnloaded, PlaceSection, EvaluateInside, PlaceFragment, InBody, Inv, Shape
    <3> QED  BY <3>1, SectionsAreNumbered DEF Inv, Shape
  <2> QED  BY <1>1, <2>1, <2>2
<1>3. WalkFields \subseteq DOMAIN walk' /\ walk'.out = walk.out
  BY DEF PlaceUnloaded, PlaceSection, EvaluateInside, PlaceFragment, Inv, Shape, WalkFields
<1>4. walk'.loadSeg \in Nat
  <2>1. CASE PlaceSection
    BY <2>1, <1>2 DEF PlaceSection, Inv, Shape, WalkFields
  <2>2. CASE PlaceUnloaded \/ EvaluateInside \/ PlaceFragment
    BY <2>2 DEF PlaceUnloaded, EvaluateInside, PlaceFragment, Inv, Shape, WalkFields
  <2> QED  BY <2>1, <2>2
<1>5. walk'.enters => Loaded(walk.out)
  <2>1. CASE PlaceUnloaded
    BY <2>1 DEF PlaceUnloaded, Inv, Shape, WalkFields
  <2>2. CASE PlaceSection
    BY <2>2 DEF PlaceSection, Enters, Inv, Shape, WalkFields
  <2>3. CASE EvaluateInside \/ PlaceFragment
    BY <2>3 DEF EvaluateInside, PlaceFragment, InBody, Inv, Shape, WalkFields
  <2> QED  BY <2>1, <2>2, <2>3
<1> QED  BY <1>1, <1>2, <1>3, <1>4, <1>5, PlacingKeepsInv

\* Every step keeps the invariant.
LEMMA NextInv == Inv /\ [Next]_vars => Inv'
<1> SUFFICES ASSUME Inv, [Next]_vars PROVE Inv'
  OBVIOUS
<1>1. CASE EvaluateBefore \/ BeginSections
  <2>1. WalkFields \subseteq DOMAIN walk' /\ walk'.loadSeg = walk.loadSeg /\ walk'.out = walk.out
    BY <1>1 DEF EvaluateBefore, BeginSections, Inv, Shape, WalkFields
  <2> QED  BY <1>1, <2>1, OutsideKeepsInv DEF EvaluateBefore, BeginSections, placed
<1>2. CASE PlaceUnloaded \/ PlaceSection \/ EvaluateInside \/ PlaceFragment
  BY <1>2, PlacementKeepsInv
<1>3. CASE FinishBody
  BY <1>3, FinishBodyKeepsInv
<1>4. CASE EvaluateAfter
  BY <1>4, EvaluateAfterKeepsInv
<1>5. CASE NextSection \/ Restart
  BY <1>5, LeavingKeepsInv
<1>6. CASE Iterate \/ LayOutAgain \/ InsertStub
  BY <1>6, NextPassKeepsInv DEF Iterate, LayOutAgain, InsertStub, Again, placed
<1>7. CASE Converge \/ GiveUp \/ Finish
  BY <1>7, OutsideKeepsInv
  DEF Converge, GiveUp, Stop, EndOfPass, Finish, placed, Inv, Shape
<1>8. CASE UNCHANGED vars
  BY <1>8 DEF vars, Inv, Shape, PendingAttaches, SegmentsHeld, Pending, Attaches, Sections,
              Loaded, IsWanted, Section
<1> QED  BY <1>1, <1>2, <1>3, <1>4, <1>5, <1>6, <1>7, <1>8 DEF Next

\* A pass over the output sections starts again whenever it has created a segment
\* (CreateProgramHeaders.hpp:808); it does so at most once for each section of the
\* script, because the section is put into the segment before the pass is left and
\* asks for none a second time.
THEOREM RestartsBounded == Spec => [](segments <= Len(script.sections))
<1>1. Inv => segments <= Len(script.sections)
  BY HeldSegmentsAreFew
<1> QED  BY InitInv, NextInv, <1>1, PTL DEF Spec

------------------------------------------------------------------------------
\* Scripts that leave the addresses to the linker, and what holds of their layout.

\* An assignment that may set the counter moves it forward: it adds to the counter
\* or aligns it, as in ". = . + 8" and ". = ALIGN(8)".
MovesForward(a) ==
  Assigned(a).name = "." => Asks(Assigned(a).expr, "dot") \/ Asks(Assigned(a).expr, "align")

\* A script that leaves the addresses to the linker.
PlacedByLinker ==
  \A s \in Sections :
    /\ Overlay(s) = 0 /\ Section(s).vma = NoExpression /\ Section(s).lma = NoExpression
    /\ \A i \in DOMAIN Section(s).body :
         Section(s).body[i].op = "assign" => MovesForward(Section(s).body[i].n)

\* One section follows another.
Consecutive ==
  \A s \in Sections :
    /\ Section(s).region = 0 /\ Section(s).loadRegion = 0
    /\ \A i \in DOMAIN Section(s).after : MovesForward(Section(s).after[i])

\* Every section is in a memory region.
InMemory == \A s \in Sections : Section(s).region # 0

Orderly == PlacedByLinker /\ (Consecutive \/ InMemory)

\* What may be in a section.
Items == [op : {"bytes"}, n : Nat] \cup [op : {"assign"}, n : {a \in Assignments : MovesForward(a)}]

BodiesTyped == bodies \in [Sections -> Seq(Items)]

PlacesTyped ==
  /\ addr \in [Sections -> Nat] /\ paddr \in [Sections -> Nat] /\ size \in [Sections -> Nat]

Names == {Assigned(a).name : a \in Assignments}

SourcesTyped ==
  \A p \in DOMAIN source : p = <<p[1], p[2]>> /\ source[p] \in Assignments

ValuesTyped ==
  /\ dot \in Nat
  /\ value \in [Assignments -> Nat]
  /\ latest \in [Names -> Assignments \cup {0}]
  /\ SourcesTyped

\* A cursor is not before its region.
CursorsTyped ==
  /\ DOMAIN cursor = DOMAIN script.regions
  /\ \A r \in DOMAIN cursor :
       cursor[r] \in Nat \cup {Unset} /\ script.regions[r].origin <= RegionCursor(r)

SegmentsTyped == walk.loadSeg \in 0..segments /\ segment \in [Sections -> 0..segments]

\* The walk is at a section of the script, or behind the last one.
WalkTyped ==
  /\ walk.item \in Nat \ {0} /\ walk.offset \in Nat /\ walk.saved \in Nat
  /\ walk.out \in 1..(Len(script.sections) + 1)
  /\ pc = "before" => walk.out = 1
  /\ pc \in {"laid_out", "done"} => walk.out = Len(script.sections) + 1
  /\ pc = "body" => addr[walk.out] <= dot
  /\ Consecutive => ~walk.disconnect

LoopTyped ==
  /\ iteration \in 0..(MaxIterations - 1)
  /\ agreed \in {"no", "once", "twice"}
  /\ calls \in 1..MaxCalls
  /\ pc \in {"before", "place", "body", "after", "laid_out", "done"}

Typed ==
  /\ BodiesTyped /\ PlacesTyped /\ ValuesTyped /\ CursorsTyped /\ SegmentsTyped
  /\ WalkTyped /\ LoopTyped

Finished(s) == s < walk.out \/ (s = walk.out /\ pc = "after")

Occupied == {s \in Sections : Finished(s) /\ Occupies(s)}

\* Where the counter is, or will be behind a section that is not loaded.
Counter == IF pc = "body" THEN walk.saved ELSE dot

\* The section that is being laid out has been placed.
InPlace == pc = "body" /\ Loaded(walk.out)

\* The sections behind one another.
BehindCounter ==
  /\ \A s \in Occupied : paddr[s] = addr[s] /\ End(s) <= Counter
  /\ \A s, t \in Occupied : s < t => End(s) <= addr[t]
  /\ InPlace => addr[walk.out] = walk.saved /\ paddr[walk.out] = walk.saved

BehindCursors ==
  /\ \A s \in Occupied :
       /\ script.regions[Section(s).region].origin <= addr[s] /\ End(s) <= cursor[Section(s).region]
       /\ script.regions[LoadRegion(s)].origin <= paddr[s] /\ LoadEnd(s) <= cursor[LoadRegion(s)]
       /\ ~HasLoadRegion(s) => paddr[s] = addr[s]
  /\ \A s, t \in Occupied : s < t =>
       /\ Section(s).region = Section(t).region => End(s) <= addr[t]
       /\ LoadRegion(s) = LoadRegion(t) => LoadEnd(s) <= paddr[t]
  /\ InPlace =>
       /\ RegionCursor(Section(walk.out).region) <= addr[walk.out]
       /\ RegionCursor(LoadRegion(walk.out)) <= paddr[walk.out]
       /\ ~HasLoadRegion(walk.out) => paddr[walk.out] = addr[walk.out]

Ordered == (Consecutive => BehindCounter) /\ (InMemory => BehindCursors)

OrderlyInv == Orderly => Typed /\ Ordered

\* The regions are apart and large enough.
RegionsContained ==
  \A r, q \in DOMAIN script.regions :
    /\ r # q => script.regions[r].origin # script.regions[q].origin
    /\ script.regions[r].origin < script.regions[q].origin =>
         RegionCursor(r) <= script.regions[q].origin

------------------------------------------------------------------------------
\* Sums and multiples.

\* Two functions of the parts of a finite set are equal on the set when they are
\* equal on a part as soon as they are equal on its parts.
LEMMA AlikeOnParts ==
  ASSUME NEW S, IsFiniteSet(S), NEW f, NEW g,
         \A T \in SUBSET S :
           (\A U \in SUBSET T : U # T => f[U] = g[U]) => f[T] = g[T]
  PROVE  f[S] = g[S]
<1> DEFINE D == {T \in SUBSET S : f[T] # g[T]}
<1>1. ASSUME D # {} PROVE FALSE
  <2>1. D \subseteq FiniteSubsetsOf(S)
    BY FS_FiniteSubsetsOfFinite
  <2>2. PICK T \in D : \A U \in D : ~(<<U, T>> \in StrictSubsetOrdering(S))
    BY <1>1, <2>1, FS_StrictSubsetOrderingWellFounded, WFMin, Zenon
  <2>3. ASSUME NEW U \in SUBSET T, U # T PROVE f[U] = g[U]
    <3>1. U \in SUBSET S /\ T \in SUBSET S
      BY <2>2
    <3>2. <<U, T>> \in StrictSubsetOrdering(S)
      BY <3>1, <2>3 DEF StrictSubsetOrdering
    <3> QED BY <2>2, <3>1, <3>2
  <2> QED BY <2>2, <2>3
<1> QED BY <1>1

\* As many pairs as the numbers of the function add up to.
Pairs(f, T) == {p \in T \X Nat : p[2] < f[p[1]]}

\* The pairs of finitely many numbers are finitely many.
LEMMA PairsFinite ==
  ASSUME NEW f, NEW T, IsFiniteSet(T), \A x \in T : f[x] \in Nat
  PROVE  IsFiniteSet(Pairs(f, T))
<1> DEFINE X(x) == {x} \X (0..f[x] - 1)
           D == {X(x) : x \in T}
<1>1. IsFiniteSet(D)
  <2> DEFINE d == [x \in T |-> X(x)]
  <2>1. d \in Surjection(T, D)
    BY DEF Surjection
  <2> HIDE DEF d, D
  <2> QED BY <2>1, FS_Surjection
<1>2. ASSUME NEW x \in T PROVE IsFiniteSet(X(x))
  <2>1. IsFiniteSet({x})
    BY FS_Singleton
  <2>2. 0 \in Int /\ f[x] - 1 \in Int
    OBVIOUS
  <2>3. IsFiniteSet(0..f[x] - 1)
    BY <2>2, FS_Interval
  <2> QED BY <2>1, <2>3, FS_Product
<1>3. IsFiniteSet(UNION D)
  <2>1. \A d \in D : IsFiniteSet(d)
    BY <1>2
  <2> HIDE DEF D
  <2> QED BY <1>1, <2>1, FS_UNION
<1>4. Pairs(f, T) \subseteq UNION D
  <2> SUFFICES ASSUME NEW p \in Pairs(f, T) PROVE \E x \in T : p \in X(x)
    OBVIOUS
  <2>1. PICK x \in T, n \in Nat : p = <<x, n>> /\ n < f[x]
    BY DEF Pairs
  <2>2. p \in X(x)
    BY <2>1
  <2> QED BY <2>2
<1> QED BY <1>3, <1>4, FS_Subset

\* The pairs of one more element.
LEMMA PairsOfOneMore ==
  ASSUME NEW f, NEW T, IsFiniteSet(Pairs(f, T)), NEW x, x \notin T, f[x] \in Nat
  PROVE  /\ IsFiniteSet(Pairs(f, T \cup {x}))
         /\ Cardinality(Pairs(f, T \cup {x})) = f[x] + Cardinality(Pairs(f, T))
<1> DEFINE P == Pairs(f, T)
           X == {x} \X (0..f[x] - 1)
<1>1. IsFiniteSet({x}) /\ Cardinality({x}) = 1
  BY FS_Singleton
<1>2. IsFiniteSet(0..f[x] - 1) /\ Cardinality(0..f[x] - 1) = f[x]
  <2> DEFINE n == f[x]
  <2>1. n \in Nat
    OBVIOUS
  <2> HIDE DEF n
  <2> DEFINE I == 0..n - 1
  <2>2. n - 1 \in Int /\ 0 \in Int
    BY <2>1
  <2>3. IsFiniteSet(I) /\ Cardinality(I) = IF 0 > n - 1 THEN 0 ELSE n - 1 - 0 + 1
    BY <2>2, FS_Interval
  <2> HIDE DEF I
  <2>4. Cardinality(I) = n
    BY <2>1, <2>3
  <2> QED BY <2>3, <2>4 DEF n, I
<1>3. IsFiniteSet(X) /\ Cardinality(X) = f[x]
  <2> DEFINE I == 0..f[x] - 1
  <2>1. IsFiniteSet({x} \X I) /\ Cardinality({x} \X I) = Cardinality({x}) * Cardinality(I)
    BY <1>1, <1>2, FS_Product
  <2> HIDE DEF I
  <2>2. Cardinality(I) = f[x]
    BY <1>2 DEF I
  <2> QED BY <1>1, <2>1, <2>2 DEF I
<1>4. P \cap X = {}
  BY DEF Pairs
<1>5. Pairs(f, T \cup {x}) = P \cup X
  <2>1. \A p \in (T \cup {x}) \X Nat : p[2] < f[p[1]] <=> p \in P \/ p \in X
    <3> SUFFICES ASSUME NEW t \in T \cup {x}, NEW n \in Nat
                 PROVE  n < f[t] <=> <<t, n>> \in P \/ <<t, n>> \in X
      OBVIOUS
    <3>1. CASE t = x
      BY <3>1 DEF Pairs
    <3>2. CASE t \in T /\ t # x
      BY <3>2 DEF Pairs
    <3> QED BY <3>1, <3>2
  <2>2. \A p \in P \cup X : p \in (T \cup {x}) \X Nat
    BY DEF Pairs
  <2> QED BY <2>1, <2>2 DEF Pairs
<1> HIDE DEF P, X
<1>6. IsFiniteSet(P \cup X) /\ Cardinality(P \cup X) = Cardinality(P) + Cardinality(X) - Cardinality({})
  BY <1>3, <1>4, FS_Union DEF P
<1>7. Cardinality({}) = 0 /\ Cardinality(P) \in Nat
  BY FS_EmptySet, FS_CardinalityType DEF P
<1>8. Cardinality(P \cup X) = f[x] + Cardinality(P)
  <2> DEFINE n == f[x]
             m == Cardinality(P)
             k == Cardinality(X)
  <2>1. n \in Nat /\ m \in Nat /\ k = n
    BY <1>3, <1>7
  <2>2. Cardinality(P \cup X) = m + k - 0
    BY <1>6, <1>7
  <2> HIDE DEF n, m, k
  <2>3. Cardinality(P \cup X) = n + m
    BY <2>1, <2>2
  <2> QED BY <2>3 DEF n, m
<1> QED BY <1>5, <1>6, <1>8 DEF P

\* A sum of natural numbers counts the pairs.
LEMMA SumIsPairs ==
  ASSUME NEW f, IsFiniteSet(DOMAIN f), \A i \in DOMAIN f : f[i] \in Nat
  PROVE  FoldFunction(+, 0, f) = Cardinality(Pairs(f, DOMAIN f))
<1> DEFINE S == DOMAIN f
           g == [T \in SUBSET S |-> Cardinality(Pairs(f, T))]
           One(T) == CHOOSE x \in T : TRUE
           Sums(h) == h = [T \in SUBSET S |-> IF T = {} THEN 0 ELSE f[One(T)] + h[T \ {One(T)}]]
           sum == CHOOSE h : Sums(h)
<1>1. FoldFunction(+, 0, f) = sum[S]
  BY DEF FoldFunction, FoldFunctionOnSet, MapThenFoldSet
<1>2. \A T \in SUBSET S : T # {} => One(T) \in T
  OBVIOUS
<1> HIDE DEF One
<1>3. \A T \in SUBSET S : IsFiniteSet(Pairs(f, T))
  <2> SUFFICES ASSUME NEW T \in SUBSET S PROVE IsFiniteSet(Pairs(f, T))
    OBVIOUS
  <2>1. IsFiniteSet(T)
    BY FS_Subset
  <2> QED BY <2>1, PairsFinite
<1>4. ASSUME NEW T \in SUBSET S, T # {}
      PROVE  Cardinality(Pairs(f, T)) = f[One(T)] + Cardinality(Pairs(f, T \ {One(T)}))
  <2> DEFINE x == One(T)
             U == T \ {x}
  <2>1. x \in T /\ f[x] \in Nat /\ x \notin U /\ T = U \cup {x} /\ U \in SUBSET S
    BY <1>2, <1>4
  <2> HIDE DEF x, U
  <2>2. Cardinality(Pairs(f, U \cup {x})) = f[x] + Cardinality(Pairs(f, U))
    BY <1>3, <2>1, PairsOfOneMore
  <2> QED BY <2>1, <2>2 DEF x, U
<1>5. Cardinality(Pairs(f, {})) = 0
  BY FS_EmptySet DEF Pairs
<1>6. Sums(g)
  <2>1. \A T \in SUBSET S : T \ {One(T)} \in SUBSET S
    OBVIOUS
  <2> HIDE DEF S
  <2> QED BY <1>4, <1>5, <2>1
<1>7. Sums(sum)
  BY <1>6
<1> HIDE DEF sum
<1>8. ASSUME NEW T \in SUBSET S, \A U \in SUBSET T : U # T => sum[U] = g[U]
      PROVE  sum[T] = g[T]
  <2> HIDE DEF g, S
  <2>1. CASE T = {}
    BY <1>6, <1>7, <2>1
  <2>2. CASE T # {}
    <3>1. sum[T \ {One(T)}] = g[T \ {One(T)}]
      BY <1>2, <1>8, <2>2
    <3>2. sum[T] = f[One(T)] + sum[T \ {One(T)}]
      BY <1>7, <2>2
    <3>3. g[T] = f[One(T)] + g[T \ {One(T)}]
      BY <1>6, <2>2
    <3> QED BY <3>1, <3>2, <3>3
  <2> QED BY <2>1, <2>2
<1>9. sum[S] = Cardinality(Pairs(f, S))
  <2> HIDE DEF g
  <2>1. IsFiniteSet(S)
    OBVIOUS
  <2> HIDE DEF S, Sums
  <2>2. sum[S] = g[S]
    BY <1>8, <2>1, AlikeOnParts
  <2> QED BY <2>2 DEF g
<1> QED BY <1>1, <1>9

\* A sum of natural numbers is one, and at least each of them.
LEMMA SumOfNaturals ==
  ASSUME NEW f, IsFiniteSet(DOMAIN f), \A i \in DOMAIN f : f[i] \in Nat
  PROVE  /\ FoldFunction(+, 0, f) \in Nat
         /\ \A i \in DOMAIN f : f[i] <= FoldFunction(+, 0, f)
<1> DEFINE S == DOMAIN f
<1>1. FoldFunction(+, 0, f) = Cardinality(Pairs(f, S))
  BY SumIsPairs
<1>2. \A T \in SUBSET S : IsFiniteSet(Pairs(f, T))
  <2> SUFFICES ASSUME NEW T \in SUBSET S PROVE IsFiniteSet(Pairs(f, T))
    OBVIOUS
  <2>1. IsFiniteSet(T)
    BY FS_Subset
  <2> QED BY <2>1, PairsFinite
<1>3. Cardinality(Pairs(f, S)) \in Nat
  BY <1>2, FS_CardinalityType
<1>4. ASSUME NEW i \in S PROVE f[i] <= Cardinality(Pairs(f, S))
  <2> DEFINE U == S \ {i}
  <2>1. U \in SUBSET S /\ i \notin U /\ S = U \cup {i} /\ f[i] \in Nat
    OBVIOUS
  <2> HIDE DEF U, S
  <2>2. Cardinality(Pairs(f, U \cup {i})) = f[i] + Cardinality(Pairs(f, U))
    BY <1>2, <2>1, PairsOfOneMore
  <2>3. Cardinality(Pairs(f, U)) \in Nat
    BY <1>2, <2>1, FS_CardinalityType
  <2> DEFINE n == Cardinality(Pairs(f, U))
             m == Cardinality(Pairs(f, S))
  <2>4. m = f[i] + n /\ n \in Nat
    BY <2>1, <2>2, <2>3
  <2> HIDE DEF n, m
  <2> QED BY <2>1, <2>4 DEF m
<1> QED BY <1>1, <1>3, <1>4

\* AlignUp takes a number to one that is not less.
LEMMA AlignUpIs ==
  ASSUME NEW v \in Nat, NEW a \in Nat \ {0}
  PROVE  AlignUp(v, a) \in Nat /\ v <= AlignUp(v, a)
BY DEF AlignUp

\* A term has a value, and one that reads the counter is not behind it.
LEMMA TermIsNatural ==
  ASSUME NEW p, NEW t, TermFits(p, t), NEW env, env.dot \in Nat,
         \A s \in DOMAIN p.sections :
           env.addr[s] \in Nat /\ env.paddr[s] \in Nat /\ env.size[s] \in Nat,
         t.op = "symbol" => env.value[env.means[t.sym]] \in Nat
  PROVE  /\ TermValue(t, env) \in Nat
         /\ t.op \in {"dot", "align"} => env.dot <= TermValue(t, env)
<1>1. CASE t.op = "align"
  BY <1>1, AlignUpIs DEF TermFits, TermValue
<1>2. CASE t.op = "dot"
  BY <1>2 DEF TermValue
<1>5. CASE t.op = "constant"
  BY <1>5 DEF TermFits, TermValue
<1>3. CASE t.op \in {"addr", "loadaddr", "sizeof"}
  BY <1>3 DEF TermFits, TermValue
<1>4. CASE t.op = "symbol"
  BY <1>4 DEF TermFits, TermValue
<1> QED BY <1>1, <1>2, <1>3, <1>4, <1>5 DEF TermFits

\* So has an expression.
LEMMA ExpressionIsNatural ==
  ASSUME NEW p, NEW e, ExpressionFits(p, e), NEW env, env.dot \in Nat,
         \A s \in DOMAIN p.sections :
           env.addr[s] \in Nat /\ env.paddr[s] \in Nat /\ env.size[s] \in Nat,
         \A x \in NamesIn(e) : env.value[env.means[x]] \in Nat
  PROVE  /\ Evaluate(e, env) \in Nat
         /\ Asks(e, "dot") \/ Asks(e, "align") => env.dot <= Evaluate(e, env)
<1> DEFINE f == [i \in DOMAIN e |-> TermValue(e[i], env)]
<1>1. IsFiniteSet(DOMAIN f)
  <2>1. Len(e) \in Nat /\ DOMAIN f = 1..Len(e)
    BY DEF ExpressionFits
  <2> HIDE DEF f
  <2> QED BY <2>1, FS_Interval
<1>2. ASSUME NEW i \in DOMAIN e
      PROVE  f[i] \in Nat /\ (e[i].op \in {"dot", "align"} => env.dot <= f[i])
  <2>1. TermFits(p, e[i])
    BY DEF ExpressionFits
  <2>2. e[i].op = "symbol" => e[i].sym \in NamesIn(e)
    BY <2>1 DEF TermFits, NamesIn
  <2> QED BY <2>1, <2>2, TermIsNatural
<1>3. Evaluate(e, env) = FoldFunction(+, 0, f)
  BY DEF Evaluate
<1>4. DOMAIN f = DOMAIN e
  OBVIOUS
<1> HIDE DEF f
<1>5. /\ FoldFunction(+, 0, f) \in Nat
      /\ \A i \in DOMAIN f : f[i] <= FoldFunction(+, 0, f)
  BY <1>1, <1>2, <1>4, SumOfNaturals
<1> DEFINE sum == FoldFunction(+, 0, f)
<1>6. sum \in Nat /\ \A i \in DOMAIN e : f[i] <= sum
  BY <1>4, <1>5
<1>7. Evaluate(e, env) = sum
  BY <1>3
<1> HIDE DEF sum
<1>8. ASSUME Asks(e, "dot") \/ Asks(e, "align") PROVE env.dot <= sum
  <2>1. PICK i \in DOMAIN e : e[i].op \in {"dot", "align"}
    BY <1>8 DEF Asks
  <2>2. f[i] \in Nat /\ env.dot <= f[i] /\ f[i] <= sum
    BY <1>2, <1>6, <2>1
  <2> QED BY <1>6, <2>2
<1> QED BY <1>6, <1>7, <1>8

------------------------------------------------------------------------------
\* Contents and expressions have values.

\* A set of natural numbers that is not empty has a least element.
LEMMA LeastNatural ==
  ASSUME NEW S, S \subseteq Nat, S # {}
  PROVE  \E x \in S : \A y \in S : x <= y
<1> DEFINE Below(n) == 0..n - 1
           T == {Below(n) : n \in S}
<1>1. T \subseteq FiniteSubsetsOf(Nat) /\ T # {}
  <2>1. ASSUME NEW n \in S PROVE Below(n) \in FiniteSubsetsOf(Nat)
    BY FS_Interval DEF FiniteSubsetsOf
  <2> QED BY <2>1
<1>2. PICK X \in T : \A Y \in T : ~(<<Y, X>> \in StrictSubsetOrdering(Nat))
  BY <1>1, FS_StrictSubsetOrderingWellFounded, WFMin, Zenon
<1>3. PICK x \in S : X = Below(x)
  BY <1>2
<1>4. ASSUME NEW y \in S, y < x PROVE FALSE
  <2>1. Below(y) \subseteq Below(x) /\ Below(y) # Below(x)
    <3>1. y \in Below(x) /\ y \notin Below(y)
      BY <1>4
    <3> QED BY <3>1, <1>4
  <2>2. Below(y) \in SUBSET Nat /\ Below(x) \in SUBSET Nat
    BY <1>4
  <2> HIDE DEF Below
  <2>3. ASSUME NEW A \in SUBSET Nat, NEW B \in SUBSET Nat, A \subseteq B, A # B
        PROVE  <<A, B>> \in StrictSubsetOrdering(Nat)
    BY <2>3 DEF StrictSubsetOrdering
  <2> QED BY <2>1, <2>2, <2>3, <1>2, <1>3
<1>5. ASSUME NEW y \in S PROVE x <= y
  <2>1. x \in Nat /\ y \in Nat /\ ~(y < x)
    BY <1>4
  <2> QED BY <2>1
<1> QED BY <1>5

\* The bytes up to an item of x.
EndAt(x, al, k) ==
  LET end[i \in 0..Len(x)] ==
        IF i = 0 THEN 0
        ELSE IF x[i].op = "assign" THEN end[i - 1]
        ELSE AlignUp(end[i - 1], al) + x[i].n
  IN  end[k]

\* They add up.
LEMMA EndIs ==
  ASSUME NEW S, NEW x \in Seq([op : {"bytes"}, n : Nat] \cup [op : {"assign"}, n : S]), NEW al \in Nat \ {0}
  PROVE  \A k \in 0..Len(x) :
           /\ EndAt(x, al, k) \in Nat
           /\ EndAt(x, al, k) = IF k = 0 THEN 0
                                ELSE IF x[k].op = "assign" THEN EndAt(x, al, k - 1)
                                ELSE AlignUp(EndAt(x, al, k - 1), al) + x[k].n
<1> DEFINE n == Len(x)
           step(e, i) == IF i = 0 THEN 0
                         ELSE IF x[i].op = "assign" THEN e[i - 1]
                         ELSE AlignUp(e[i - 1], al) + x[i].n
           Ends(e) == e = [i \in 0..n |-> step(e, i)]
           end == CHOOSE e : Ends(e)
           Is(m, e) == /\ e \in [0..m -> Nat]
                       /\ \A i \in 0..m : e[i] = step(e, i)
           Lacking == {m \in 0..n : ~\E e : Is(m, e)}
<1>1. \A k : EndAt(x, al, k) = end[k]
  BY DEF EndAt
<1>2. n \in Nat /\ \A i \in 1..n : x[i].op = "assign" \/ x[i].n \in Nat
  OBVIOUS
<1> HIDE DEF n
<1>4. ASSUME NEW m \in Lacking, \A k \in Lacking : m <= k PROVE FALSE
  <2>1. m \in 0..n /\ ~\E e : Is(m, e)
    BY <1>4
  <2>2. CASE m = 0
    <3>1. Is(0, [i \in 0..0 |-> 0])
      OBVIOUS
    <3> QED BY <2>1, <2>2, <3>1
  <2>3. CASE m # 0
    <3>1. m - 1 \in 0..n /\ ~(m <= m - 1)
      BY <1>2, <2>1, <2>3
    <3>2. PICK e : Is(m - 1, e)
      <4>1. m - 1 \notin Lacking
        <5> HIDE DEF Lacking
        <5> QED BY <1>4, <3>1
      <4> HIDE DEF Is
      <4> QED BY <3>1, <4>1
    <3> DEFINE last == IF x[m].op = "assign" THEN e[m - 1] ELSE AlignUp(e[m - 1], al) + x[m].n
               f == [i \in 0..m |-> IF i = m THEN last ELSE e[i]]
    <3>3. last \in Nat
      <4>1. e[m - 1] \in Nat
        BY <1>2, <2>1, <2>3, <3>2
      <4>2. AlignUp(e[m - 1], al) \in Nat
        BY <4>1, AlignUpIs
      <4>3. x[m].op = "assign" \/ x[m].n \in Nat
        BY <1>2, <2>1, <2>3
      <4> QED BY <4>1, <4>2, <4>3
    <3>4. f \in [0..m -> Nat]
      BY <1>2, <2>1, <2>3, <3>2, <3>3
    <3>5. ASSUME NEW i \in 0..m PROVE f[i] = step(f, i)
      <4>1. CASE i = m
        <5>1. f[m - 1] = e[m - 1] /\ f[m] = last
          BY <1>2, <2>1, <2>3
        <5> QED BY <2>3, <4>1, <5>1
      <4>2. CASE i # m
        <5>1. i \in 0..m - 1 /\ f[i] = e[i] /\ (i # 0 => f[i - 1] = e[i - 1])
          BY <1>2, <2>1, <4>2
        <5>2. e[i] = step(e, i)
          BY <3>2, <5>1
        <5> QED BY <5>1, <5>2
      <4> QED BY <4>1, <4>2
    <3>6. Is(m, f)
      BY <3>4, <3>5
    <3> QED BY <2>1, <3>6
  <2> QED BY <2>2, <2>3
<1>5. Lacking = {}
  <2>1. Lacking \subseteq Nat
    BY <1>2
  <2> HIDE DEF Lacking
  <2> QED BY <1>4, <2>1, LeastNatural
<1>6. PICK e : Is(n, e)
  <2>1. n \in 0..n
    BY <1>2
  <2> HIDE DEF Is
  <2> QED BY <1>5, <2>1
<1>7. Ends(e)
  BY <1>2, <1>6
<1>8. Ends(end)
  BY <1>7
<1> HIDE DEF end
<1>9. ASSUME NEW m \in 0..n, end[m] # e[m], \A k \in 0..n : end[k] # e[k] => m <= k
      PROVE  FALSE
  <2>1. end[m] = step(end, m) /\ e[m] = step(e, m)
    BY <1>8, <1>7
  <2>2. CASE m = 0
    BY <2>1, <2>2, <1>9
  <2>3. CASE m # 0
    <3>1. m - 1 \in 0..n /\ ~(m <= m - 1)
      BY <1>2, <2>3
    <3>2. end[m - 1] = e[m - 1]
      BY <3>1, <1>9
    <3> QED BY <2>1, <2>3, <3>2, <1>9
  <2> QED BY <2>2, <2>3
<1>10. \A m \in 0..n : end[m] = e[m]
  <2> DEFINE T == {m \in 0..n : end[m] # e[m]}
  <2>1. T \subseteq Nat
    BY <1>2
  <2>2. T # {} => \E y \in T : \A z \in T : y <= z
    <3> HIDE DEF T
    <3> QED BY <2>1, LeastNatural
  <2> QED BY <2>2, <1>9
<1>11. \A k \in 0..n : end[k] \in Nat /\ end[k] = step(end, k)
  BY <1>6, <1>8, <1>10
<1> QED BY <1>1, <1>11 DEF n

\* What a section holds at first is a number of bytes.
LEMMA ContentIs ==
  ASSUME script \in Scripts, NEW s \in Sections, bodies[s] \in Seq(Items)
  PROVE  ContentOf(s) = EndAt(bodies[s], Section(s).align, Len(bodies[s])) /\ ContentOf(s) \in Nat
<1>1. ContentOf(s) = EndAt(bodies[s], Section(s).align, Len(bodies[s]))
  BY DEF ContentOf, EndAt
<1>2. Section(s).align \in Nat \ {0}
  BY LayoutAssumption DEF LayoutAssumption, Sections, Section, SectionFits
<1>3. EndAt(bodies[s], Section(s).align, Len(bodies[s])) \in Nat
  <2> DEFINE x == bodies[s]
  <2>1. x \in Seq([op : {"bytes"}, n : Nat] \cup [op : {"assign"}, n : {a \in Assignments : MovesForward(a)}])
    BY DEF Items
  <2>2. Len(x) \in 0..Len(x)
    BY <2>1
  <2> HIDE DEF x
  <2>3. EndAt(x, Section(s).align, Len(x)) \in Nat
    BY <1>2, <2>1, <2>2, EndIs
  <2> QED BY <2>3 DEF x
<1> QED BY <1>1, <1>3

\* Among the assignments to a name there is a last one.
LEMMA LastIsAssigned ==
  ASSUME script \in Scripts, NEW x \in Names
  PROVE  LastAssignment(x) \in Assignments
<1> DEFINE S == {a \in Assignments : Assigned(a).name = x}
           n == Len(script.assignments)
           T == {n - a : a \in S}
<1>1. n \in Nat /\ Assignments = 1..n
  BY LayoutAssumption DEF LayoutAssumption, Assignments
<1> HIDE DEF n
<1>2. S \subseteq 1..n /\ S # {}
  BY <1>1 DEF Names
<1> HIDE DEF S
<1>3. \E t \in T : \A u \in T : t <= u
  <2>1. T # {}
    BY <1>2
  <2>2. \A a \in S : n - a \in Nat
    BY <1>1, <1>2
  <2>3. T \subseteq Nat
    BY <2>2
  <2> HIDE DEF T
  <2> QED BY <2>1, <2>3, LeastNatural
<1>4. PICK a \in S : \A b \in S : n - a <= n - b
  BY <1>3
<1>5. \A b \in S : b <= a
  <2> SUFFICES ASSUME NEW b \in S PROVE b <= a
    OBVIOUS
  <2>1. a \in Int /\ b \in Int /\ n - a <= n - b
    BY <1>1, <1>2, <1>4
  <2> QED BY <1>1, <2>1
<1>6. \E c \in Assignments :
        /\ Assigned(c).name = x
        /\ \A b \in Assignments : Assigned(b).name = x => b <= c
  BY <1>5 DEF S
<1> QED BY <1>6 DEF LastAssignment

\* A symbol in an expression stands for an assignment.
LEMMA SourceIsAssigned ==
  ASSUME script \in Scripts, ValuesTyped, NEW key, NEW x \in Names
  PROVE  Source(key, x) \in Assignments
<1>1. LastAssignment(x) \in Assignments
  BY LastIsAssigned
<1>2. latest[x] \in Assignments \cup {0}
  BY DEF ValuesTyped, Names
<1>3. <<key, x>> \in DOMAIN source => source[<<key, x>>] \in Assignments
  BY DEF ValuesTyped, SourcesTyped
<1> QED BY <1>1, <1>2, <1>3 DEF Source

\* The names in an expression of the script are assigned in it.
LEMMA NamesAreAssigned ==
  ASSUME NEW e, ExpressionFits(script, e)
  PROVE  NamesIn(e) \subseteq Names
<1> SUFFICES ASSUME NEW i \in DOMAIN e, e[i].sym # "" PROVE e[i].sym \in Names
  BY DEF NamesIn
<1>1. TermFits(script, e[i])
  BY DEF ExpressionFits
<1>2. PICK a \in DOMAIN script.assignments : script.assignments[a].name = e[i].sym
  BY <1>1 DEF TermFits
<1> QED BY <1>2 DEF Names, Assigned, Assignments

\* An expression of the script has a value, which is not behind the counter if the
\* expression reads it.
LEMMA ValueIsNatural ==
  ASSUME script \in Scripts, ValuesTyped, NEW key, NEW e, ExpressionFits(script, e),
         addr \in [Sections -> Nat], paddr \in [Sections -> Nat], size \in [Sections -> Nat]
  PROVE  /\ Value(key, e, addr, dot) \in Nat
         /\ Asks(e, "dot") \/ Asks(e, "align") => dot <= Value(key, e, addr, dot)
<1> DEFINE env == [dot |-> dot, addr |-> addr, paddr |-> paddr, size |-> size, value |-> value,
                   means |-> [x \in NamesIn(e) |-> Source(key, x)]]
<1>1. env.dot \in Nat
  BY DEF ValuesTyped
<1>2. \A s \in DOMAIN script.sections : env.addr[s] \in Nat /\ env.paddr[s] \in Nat /\ env.size[s] \in Nat
  BY DEF Sections
<1>3. ASSUME NEW x \in NamesIn(e) PROVE env.value[env.means[x]] \in Nat
  <2>1. Source(key, x) \in Assignments
    BY NamesAreAssigned, SourceIsAssigned
  <2> QED BY <2>1 DEF ValuesTyped
<1>4. Value(key, e, addr, dot) = Evaluate(e, env) /\ env.dot = dot
  BY DEF Value
<1> HIDE DEF env
<1> QED BY <1>1, <1>2, <1>3, <1>4, ExpressionIsNatural

\* What is remembered of symbols are assignments.
LEMMA RememberedAreAssigned ==
  ASSUME script \in Scripts, ValuesTyped, script' = script,
         NEW P, \A p \in P : p = <<p[1], p[2]>> /\ p[2] \in Names,
         source' = [p \in DOMAIN source \cup P |-> Source(p[1], p[2])]
  PROVE  SourcesTyped'
<1>1. Assignments' = Assignments
  BY DEF Assignments
<1>2. ASSUME NEW p \in DOMAIN source PROVE p = <<p[1], p[2]>> /\ Source(p[1], p[2]) \in Assignments
  BY DEF ValuesTyped, SourcesTyped, Source
<1>3. ASSUME NEW p \in P PROVE p = <<p[1], p[2]>> /\ Source(p[1], p[2]) \in Assignments
  BY SourceIsAssigned
<1> QED BY <1>1, <1>2, <1>3 DEF SourcesTyped

\* An assignment leaves a value, and the counter where it was or behind.
LEMMA AssignIsTyped ==
  ASSUME script \in Scripts, ValuesTyped, script' = script, NEW a \in Assignments, Assign(a),
         addr \in [Sections -> Nat], paddr \in [Sections -> Nat], size \in [Sections -> Nat]
  PROVE  ValuesTyped' /\ (MovesForward(a) => dot <= dot')
<1> DEFINE e == Assigned(a).expr
           to == Value(<<"assign", a>>, e, addr, dot)
<1>1. ExpressionFits(script, e)
  BY LayoutAssumption DEF LayoutAssumption, Assigned, Assignments
<1>2. to \in Nat /\ (Asks(e, "dot") \/ Asks(e, "align") => dot <= to)
  BY <1>1, ValueIsNatural
<1>3. /\ value' = [value EXCEPT ![a] = to]
      /\ dot' = IF Assigned(a).name = "." THEN to ELSE dot
      /\ latest' = [latest EXCEPT ![Assigned(a).name] = a]
      /\ Remember(<<"assign", a>>, e)
  BY DEF Assign
<1>4. SourcesTyped'
  <2> DEFINE P == {<<<<"assign", a>>, x>> : x \in NamesIn(e)}
  <2>1. \A p \in P : p = <<p[1], p[2]>> /\ p[2] \in Names
    BY <1>1, NamesAreAssigned
  <2>2. source' = [p \in DOMAIN source \cup P |-> Source(p[1], p[2])]
    BY <1>3 DEF Remember
  <2> HIDE DEF P
  <2> QED BY <2>1, <2>2, RememberedAreAssigned
<1> HIDE DEF to
<1>5. dot' \in Nat /\ (MovesForward(a) => dot <= dot')
  BY <1>2, <1>3 DEF ValuesTyped, MovesForward
<1>6. Assignments' = Assignments /\ {Assigned(b).name : b \in Assignments}' = Names
  BY DEF Assignments, Assigned, Names
<1>7. value' \in [Assignments -> Nat]
  BY <1>2, <1>3 DEF ValuesTyped
<1>8. latest' \in [Names -> Assignments \cup {0}]
  BY <1>3 DEF ValuesTyped, Names
<1> QED BY <1>4, <1>5, <1>6, <1>7, <1>8 DEF ValuesTyped, Names

------------------------------------------------------------------------------
\* Where sections are placed.

\* A section of the script.
LEMMA SectionIs ==
  ASSUME script \in Scripts, NEW s \in Sections
  PROVE  /\ Section(s).align \in Nat \ {0}
         /\ Section(s).region \in DOMAIN script.regions \cup {0}
         /\ Section(s).loadRegion \in DOMAIN script.regions \cup {0}
         /\ LoadRegion(s) \in DOMAIN script.regions \cup {0}
         /\ 0 \notin DOMAIN script.regions
         /\ Section(s).after \in Seq(Assignments)
BY LayoutAssumption DEF LayoutAssumption, Sections, Section, SectionFits, LoadRegion, Assignments

\* The cursor of a region is a number.
LEMMA CursorIs ==
  ASSUME script \in Scripts, CursorsTyped, NEW r \in DOMAIN script.regions
  PROVE  RegionCursor(r) \in Nat /\ script.regions[r].origin \in Nat
         /\ script.regions[r].origin <= RegionCursor(r)
BY LayoutAssumption DEF LayoutAssumption, CursorsTyped, RegionCursor, Unset

\* Where the linker places a section.
LEMMA AddressIs ==
  ASSUME script \in Scripts, Orderly, ValuesTyped, CursorsTyped, NEW s \in Sections
  PROVE  /\ StartOf(s) =
              IF Loaded(s) /\ Section(s).region # 0 THEN RegionCursor(Section(s).region) ELSE dot
         /\ AddressOf(s) = AlignUp(StartOf(s), Section(s).align)
         /\ AddressOf(s) \in Nat /\ StartOf(s) <= AddressOf(s)
<1>1. Overlay(s) = 0 /\ Section(s).vma = NoExpression
  BY DEF Orderly, PlacedByLinker
<1>2. StartOf(s) = IF Loaded(s) /\ Section(s).region # 0 THEN RegionCursor(Section(s).region) ELSE dot
  BY <1>1 DEF StartOf
<1>3. AddressOf(s) = AlignUp(StartOf(s), Section(s).align)
  BY <1>1 DEF AddressOf
<1>4. StartOf(s) \in Nat
  BY <1>2, SectionIs, CursorIs DEF ValuesTyped
<1> QED BY <1>2, <1>3, <1>4, SectionIs, AlignUpIs

\* Where it is loaded.
LEMMA LoadAddressIs ==
  ASSUME script \in Scripts, Orderly, ValuesTyped, CursorsTyped, NEW s \in Sections,
         Consecutive => ~walk.disconnect
  PROVE  /\ LoadAddress(s, AddressOf(s)) \in Nat
         /\ Consecutive => LoadAddress(s, AddressOf(s)) = AddressOf(s) /\ ~Disconnects(s)
         /\ InMemory =>
              /\ RegionCursor(LoadRegion(s)) <= LoadAddress(s, AddressOf(s))
              /\ Loaded(s) /\ ~HasLoadRegion(s) => LoadAddress(s, AddressOf(s)) = AddressOf(s)
<1> DEFINE pma == LoadAddress(s, AddressOf(s))
<1>1. Overlay(s) = 0 /\ Section(s).lma = NoExpression
  BY DEF Orderly, PlacedByLinker
<1>2. CASE Consecutive
  <2>1. LoadRegion(s) = 0 /\ ~HasLoadRegion(s)
    BY <1>2 DEF Consecutive, LoadRegion, HasLoadRegion
  <2>2. ~Disconnects(s)
    BY <1>1, <1>2, <2>1 DEF Disconnects
  <2>3. pma = AddressOf(s)
    BY <1>1, <2>1, <2>2 DEF LoadAddress
  <2>4. ~InMemory
    BY <1>2 DEF Consecutive, InMemory
  <2> QED BY <2>2, <2>3, <2>4, AddressIs
<1>3. CASE InMemory
  <2>1. Section(s).region # 0 /\ LoadRegion(s) # 0
    BY <1>3 DEF InMemory, LoadRegion
  <2>2. pma = IF HasLoadRegion(s) THEN RegionCursor(LoadRegion(s))
              ELSE AlignUp(RegionCursor(LoadRegion(s)), Section(s).align)
    BY <1>1, <2>1 DEF LoadAddress
  <2>3. LoadRegion(s) \in DOMAIN script.regions /\ RegionCursor(LoadRegion(s)) \in Nat
    BY <2>1, SectionIs, CursorIs
  <2>4. pma \in Nat /\ RegionCursor(LoadRegion(s)) <= pma
    <3> HIDE DEF pma
    <3>1. Section(s).align \in Nat \ {0}
      BY SectionIs
    <3>2. /\ AlignUp(RegionCursor(LoadRegion(s)), Section(s).align) \in Nat
          /\ RegionCursor(LoadRegion(s)) <= AlignUp(RegionCursor(LoadRegion(s)), Section(s).align)
      BY <2>3, <3>1, AlignUpIs
    <3>3. RegionCursor(LoadRegion(s)) <= RegionCursor(LoadRegion(s))
      BY <2>3
    <3> QED BY <2>2, <2>3, <3>2, <3>3
  <2>5. Loaded(s) /\ ~HasLoadRegion(s) => pma = AddressOf(s)
    BY <2>1, <2>2, AddressIs DEF HasLoadRegion
  <2>6. ~Consecutive
    BY <1>3 DEF Consecutive, InMemory
  <2> QED BY <2>4, <2>5, <2>6
<1> QED BY <1>2, <1>3 DEF Orderly

\* What the script says does not change.
LEMMA ScriptStays ==
  ASSUME script' = script
  PROVE  /\ Sections' = Sections /\ Assignments' = Assignments /\ Names' = Names /\ Items' = Items
         /\ (Orderly <=> Orderly') /\ (Consecutive <=> Consecutive') /\ (InMemory <=> InMemory')
         /\ \A s \in Sections : /\ Loaded(s) = Loaded(s)' /\ LoadRegion(s) = LoadRegion(s)'
                                /\ HasLoadRegion(s) = HasLoadRegion(s)'
BY DEF Sections, Assignments, Names, Items, Orderly, PlacedByLinker, Consecutive, InMemory,
       Section, Assigned, Overlay, MovesForward, Loaded, LoadRegion, HasLoadRegion

\* Where the walk is.
LEMMA WalkIsAtSection ==
  ASSUME Inv, pc \in {"body", "after"} \/ (pc = "place" /\ walk.out <= Len(script.sections))
  PROVE  walk.out \in Sections
<1>1. Len(script.sections) \in Nat /\ Sections = 1..Len(script.sections)
  BY SectionsAreNumbered DEF Inv, Shape
<1> QED BY <1>1 DEF Inv, Shape

\* The script is the same in every step.
LEMMA NextKeepsScript == ASSUME Next PROVE script' = script
BY DEF Next, EvaluateBefore, BeginSections, PlaceUnloaded, PlaceSection, EvaluateInside,
       PlaceFragment, FinishBody, EvaluateAfter, NextSection, Restart, Iterate, Converge, GiveUp, Stop,
       LayOutAgain, InsertStub, Again, Finish

------------------------------------------------------------------------------
\* The types are kept.

\* The bodies of an orderly script are made of such items.
LEMMA BodyIsOfItems ==
  ASSUME script \in Scripts, Orderly, NEW s \in Sections
  PROVE  Section(s).body \in Seq(Items)
<1> DEFINE b == Section(s).body
           I == [op : {"bytes"}, n : Nat] \cup [op : {"assign"}, n : Assignments]
<1>1. b \in Seq(I)
  BY LayoutAssumption DEF LayoutAssumption, Sections, Section, SectionFits, Assignments
<1>2. \A i \in DOMAIN b : b[i].op = "assign" => MovesForward(b[i].n)
  BY DEF Orderly, PlacedByLinker
<1> HIDE DEF b
<1>3. Len(b) \in Nat /\ DOMAIN b = 1..Len(b) /\ b = [i \in 1..Len(b) |-> b[i]]
  BY <1>1
<1>4. \A i \in 1..Len(b) : b[i] \in Items
  <2> SUFFICES ASSUME NEW i \in 1..Len(b) PROVE b[i] \in Items
    OBVIOUS
  <2>1. b[i] \in I
    BY <1>1
  <2> QED BY <1>2, <1>3, <2>1 DEF Items
<1>5. b \in Seq(Items)
  BY <1>3, <1>4
<1> QED BY <1>5 DEF b

\* A layout begins with the types.
LEMMA InitTyped == Init /\ Orderly => Typed
<1> SUFFICES ASSUME Init, Orderly PROVE Typed
  OBVIOUS
<1>1. script \in Scripts /\ Len(script.sections) \in Nat /\ Sections = 1..Len(script.sections)
  BY SectionsAreNumbered DEF Init
<1>2. BodiesTyped
  BY <1>1, BodyIsOfItems DEF Init, BodiesTyped
<1>3. PlacesTyped
  <2>1. \A s \in Sections : ContentOf(s) \in Nat
    BY <1>1, <1>2, ContentIs DEF BodiesTyped
  <2> QED BY <2>1 DEF Init, PlacesTyped
<1>4. ValuesTyped
  BY DEF Init, ValuesTyped, SourcesTyped, Names
<1>5. CursorsTyped
  BY <1>1, LayoutAssumption DEF LayoutAssumption, Init, CursorsTyped, RegionCursor, Unset
<1>6. walk.loadSeg = 0 /\ walk.item = 1 /\ walk.out = 1 /\ walk.offset = 0 /\ walk.saved = 0
      /\ ~walk.disconnect
  BY DEF Init, FreshWalk
<1>7. SegmentsTyped
  BY <1>6 DEF Init, SegmentsTyped
<1>8. WalkTyped
  BY <1>1, <1>6 DEF Init, WalkTyped
<1>9. LoopTyped
  BY LayoutAssumption DEF LayoutAssumption, Init, LoopTyped, MaxIterations
<1> QED BY <1>2, <1>3, <1>4, <1>5, <1>7, <1>8, <1>9 DEF Typed

\* A trampoline is one more item.
LEMMA NextKeepsBodies ==
  ASSUME script \in Scripts, BodiesTyped, Next
  PROVE  BodiesTyped'
<1>1. script' = script /\ Sections' = Sections /\ Items' = Items
  BY NextKeepsScript, ScriptStays
<1>2. CASE InsertStub
  <2>0. PICK s \in Sections : \E i \in DOMAIN bodies[s] :
          bodies' = [bodies EXCEPT ![s] =
            SubSeq(bodies[s], 1, i) \o <<[op |-> "bytes", n |-> StubSize]>>
              \o SubSeq(bodies[s], i + 1, Len(bodies[s]))]
    BY <1>2 DEF InsertStub
  <2>1. PICK i \in DOMAIN bodies[s] :
          bodies' = [bodies EXCEPT ![s] =
            SubSeq(bodies[s], 1, i) \o <<[op |-> "bytes", n |-> StubSize]>>
              \o SubSeq(bodies[s], i + 1, Len(bodies[s]))]
    BY <2>0
  <2> DEFINE b == bodies[s]
             stub == [op |-> "bytes", n |-> StubSize]
  <2>2. b \in Seq(Items) /\ i \in 1..Len(b)
    BY DEF BodiesTyped
  <2>3. stub \in Items
    BY LayoutAssumption DEF LayoutAssumption, Items
  <2> HIDE DEF b, stub
  <2>4. SubSeq(b, 1, i) \in Seq(Items)
    BY <2>2, SubSeqProperties
  <2>5. SubSeq(b, i + 1, Len(b)) \in Seq(Items)
    BY <2>2, SubSeqProperties
  <2>6. SubSeq(b, 1, i) \o <<stub>> \in Seq(Items)
    BY <2>3, <2>4
  <2>7. SubSeq(b, 1, i) \o <<stub>> \o SubSeq(b, i + 1, Len(b)) \in Seq(Items)
    BY <2>5, <2>6, ConcatProperties
  <2> QED BY <1>1, <2>1, <2>7 DEF b, stub, BodiesTyped
<1>3. CASE ~InsertStub
  <2>1. bodies' = bodies
    BY <1>3 DEF Next, EvaluateBefore, BeginSections, PlaceUnloaded, PlaceSection, EvaluateInside,
           PlaceFragment, FinishBody, EvaluateAfter, NextSection, Restart, Iterate, Converge,
           GiveUp, Stop, LayOutAgain, Finish
  <2> QED BY <1>1, <2>1 DEF BodiesTyped
<1> QED BY <1>2, <1>3

\* The item that the walk is at.
LEMMA ItemIs ==
  ASSUME Inv, BodiesTyped, WalkTyped, InBody
  PROVE  walk.out \in Sections /\ Item \in Items
<1>1. walk.out \in Sections
  BY WalkIsAtSection DEF InBody
<1>2. bodies[walk.out] \in Seq(Items)
  BY <1>1 DEF BodiesTyped
<1> QED BY <1>1, <1>2 DEF InBody, Item, WalkTyped

\* What is evaluated before, in and behind the sections is an assignment.
LEMMA EvaluationIs ==
  ASSUME Inv, Orderly, Typed
  PROVE  /\ EvaluateBefore => script.before[walk.item] \in Assignments
         /\ EvaluateInside => Item.n \in Assignments /\ MovesForward(Item.n)
         /\ EvaluateAfter => /\ walk.out \in Sections
                             /\ Section(walk.out).after[walk.item] \in Assignments
                             /\ Consecutive => MovesForward(Section(walk.out).after[walk.item])
<1>1. ASSUME EvaluateBefore PROVE script.before[walk.item] \in Assignments
  <2>1. script.before \in Seq(Assignments)
    BY LayoutAssumption DEF LayoutAssumption, Assignments, Inv, Shape
  <2> QED BY <1>1, <2>1 DEF EvaluateBefore, Typed, WalkTyped
<1>2. ASSUME EvaluateInside PROVE Item.n \in Assignments /\ MovesForward(Item.n)
  <2>1. Item \in Items /\ Item.op = "assign"
    BY <1>2, ItemIs DEF EvaluateInside, Typed
  <2> QED BY <2>1 DEF Items
<1>3. ASSUME EvaluateAfter
      PROVE  /\ walk.out \in Sections
             /\ Section(walk.out).after[walk.item] \in Assignments
             /\ Consecutive => MovesForward(Section(walk.out).after[walk.item])
  <2>1. walk.out \in Sections
    BY <1>3, WalkIsAtSection DEF EvaluateAfter
  <2>2. Section(walk.out).after \in Seq(Assignments)
    BY <2>1, SectionIs DEF Inv, Shape
  <2>3. walk.item \in DOMAIN Section(walk.out).after
    BY <1>3, <2>2 DEF EvaluateAfter, Typed, WalkTyped
  <2> QED BY <2>1, <2>2, <2>3 DEF Consecutive
<1> QED BY <1>1, <1>2, <1>3

\* An assignment that is evaluated leaves the values typed, and the counter where it
\* was or behind in a section, or between consecutive sections.
LEMMA EvaluationKeepsValues ==
  ASSUME Inv, Orderly, Typed, EvaluateBefore \/ EvaluateInside \/ EvaluateAfter
  PROVE  /\ ValuesTyped'
         /\ EvaluateInside => dot <= dot'
         /\ (EvaluateAfter /\ Consecutive) => dot <= dot'
<1>1. script \in Scripts /\ script' = script
  BY NextKeepsScript DEF Inv, Shape, Next
<1>2. ASSUME NEW a \in Assignments, Assign(a) PROVE ValuesTyped' /\ (MovesForward(a) => dot <= dot')
  BY <1>1, <1>2, AssignIsTyped DEF Typed, PlacesTyped
<1>3. CASE EvaluateBefore
  <2>1. pc = "before" /\ Assign(script.before[walk.item]) /\ script.before[walk.item] \in Assignments
    BY <1>3, EvaluationIs DEF EvaluateBefore
  <2>2. ~EvaluateInside /\ ~EvaluateAfter
    BY <2>1 DEF EvaluateInside, InBody, EvaluateAfter
  <2> QED BY <1>2, <2>1, <2>2
<1>4. CASE EvaluateInside
  <2>1. pc = "body" /\ Assign(Item.n) /\ Item.n \in Assignments /\ MovesForward(Item.n)
    BY <1>4, EvaluationIs DEF EvaluateInside, InBody
  <2>2. ~EvaluateAfter
    BY <2>1 DEF EvaluateAfter
  <2> QED BY <1>2, <2>1, <2>2
<1>5. CASE EvaluateAfter
  <2> DEFINE a == Section(walk.out).after[walk.item]
  <2>1. pc = "after" /\ Assign(a) /\ a \in Assignments /\ (Consecutive => MovesForward(a))
    BY <1>5, EvaluationIs DEF EvaluateAfter
  <2>2. ~EvaluateInside
    BY <2>1 DEF EvaluateInside, InBody
  <2> QED BY <1>2, <2>1, <2>2
<1> QED BY <1>3, <1>4, <1>5

\* A section that is placed.
LEMMA PlacementIs ==
  ASSUME Inv, Orderly, Typed, PlaceSection
  PROVE  /\ walk.out \in Sections
         /\ AddressOf(walk.out) \in Nat /\ StartOf(walk.out) <= AddressOf(walk.out)
         /\ LoadAddress(walk.out, AddressOf(walk.out)) \in Nat
<1>1. script \in Scripts /\ walk.out \in Sections
  BY WalkIsAtSection DEF PlaceSection, Inv, Shape
<1> QED BY <1>1, AddressIs, LoadAddressIs DEF Typed, WalkTyped

\* A section has a size when its body is finished.
LEMMA SizeAtEndIs ==
  ASSUME PlacesTyped, WalkTyped, walk.out \in Sections
  PROVE  SizeAtEnd \in Nat
BY DEF PlacesTyped, WalkTyped, SizeAtEnd

\* Addresses and sizes stay natural numbers: an assignment in a section never moves the
\* counter before the section.
LEMMA NextKeepsPlaces ==
  ASSUME Inv, Orderly, Typed, Next
  PROVE  PlacesTyped'
<1>1. Sections' = Sections
  BY NextKeepsScript, ScriptStays
<1>2. PlacesTyped /\ WalkTyped
  BY DEF Typed
<1>3. CASE PlaceUnloaded
  BY <1>1, <1>2, <1>3 DEF PlaceUnloaded, PlacesTyped
<1>4. CASE PlaceSection
  BY <1>1, <1>2, <1>4, PlacementIs DEF PlaceSection, PlacesTyped
<1>5. CASE EvaluateInside
  <2>1. dot \in Nat /\ dot' \in Nat /\ dot <= dot'
    BY <1>5, EvaluationKeepsValues DEF Typed, ValuesTyped
  <2>2. walk.out \in Sections /\ pc = "body"
    BY <1>2, <1>5, ItemIs DEF EvaluateInside, InBody, Typed
  <2>3. addr[walk.out] \in Nat /\ addr[walk.out] <= dot
    BY <1>2, <2>2 DEF PlacesTyped, WalkTyped
  <2>4. dot' - addr[walk.out] \in Nat
    BY <2>1, <2>3
  <2>5. /\ size' = [size EXCEPT ![walk.out] = dot' - addr[walk.out]]
        /\ addr' = addr /\ paddr' = paddr
    BY <1>5 DEF EvaluateInside
  <2> QED BY <1>1, <1>2, <2>4, <2>5 DEF PlacesTyped
<1>6. CASE FinishBody
  <2>1. walk.out \in Sections
    BY <1>6, WalkIsAtSection DEF FinishBody
  <2> QED BY <1>1, <1>2, <1>6, <2>1, SizeAtEndIs DEF FinishBody, PlacesTyped
<1>7. CASE ~(PlaceUnloaded \/ PlaceSection \/ EvaluateInside \/ FinishBody)
  <2>1. addr' = addr /\ paddr' = paddr /\ size' = size
    BY <1>7 DEF Next, EvaluateBefore, BeginSections, PlaceFragment, EvaluateAfter, NextSection,
           Restart, Iterate, Converge, GiveUp, Stop, LayOutAgain, InsertStub, Again, Finish, placed
  <2> QED BY <1>1, <1>2, <2>1 DEF PlacesTyped
<1> QED BY <1>3, <1>4, <1>5, <1>6, <1>7

\* The counter behind a section.
LEMMA CounterBehindIs ==
  ASSUME PlacesTyped, WalkTyped, walk.out \in Sections
  PROVE  CounterBehind(walk.out) \in Nat
<1>1. SizeAtEnd \in Nat /\ addr[walk.out] \in Nat /\ walk.saved \in Nat
  BY SizeAtEndIs DEF PlacesTyped, WalkTyped
<1> QED BY <1>1 DEF CounterBehind

\* Such a script has no overlays.
LEMMA NoOverlay ==
  ASSUME Orderly, NEW s \in Sections
  PROVE  ~IsFirstMember(s) /\ ~IsLastMember(s) /\ CounterBehindOverlay(s) = dot
BY DEF Orderly, PlacedByLinker, IsFirstMember, IsLastMember, CounterBehindOverlay

\* Values and the counter stay natural numbers.
LEMMA NextKeepsValues ==
  ASSUME Inv, Orderly, Typed, Next
  PROVE  ValuesTyped'
<1>1. script \in Scripts /\ script' = script /\ Assignments' = Assignments /\ Names' = Names
  BY NextKeepsScript, ScriptStays DEF Inv, Shape
<1>2. ValuesTyped /\ PlacesTyped /\ WalkTyped
  BY DEF Typed
<1>3. ASSUME value' = value, latest' = latest, source' = source, dot' \in Nat PROVE ValuesTyped'
  BY <1>1, <1>2, <1>3 DEF ValuesTyped, SourcesTyped
<1>4. CASE EvaluateBefore \/ EvaluateInside \/ EvaluateAfter
  BY <1>4, EvaluationKeepsValues
<1>5. CASE PlaceSection
  <2> DEFINE s == walk.out
             P == UNION {{<<r[1], x>> : x \in NamesIn(r[2])} :
                    r \in {<<<<"vma", s>>, Section(s).vma>>, <<<<"lma", s>>, Section(s).lma>>}}
  <2>1. s \in Sections /\ Overlay(s) = 0 /\ Section(s).vma = NoExpression /\ Section(s).lma = NoExpression
    BY <1>5, PlacementIs DEF Orderly, PlacedByLinker
  <2>2. RememberAddress(s) /\ value' = value /\ latest' = latest /\ dot' = AddressOf(s)
    BY <1>5 DEF PlaceSection
  <2>3. source' = [p \in DOMAIN source \cup P |-> Source(p[1], p[2])]
    BY <2>1, <2>2 DEF RememberAddress
  <2>4. P = {}
    <3>1. NamesIn(NoExpression) = {}
      BY DEF NamesIn, NoExpression
    <3> QED BY <2>1, <3>1
  <2> HIDE DEF P
  <2>5. SourcesTyped'
    BY <1>1, <1>2, <2>3, <2>4, RememberedAreAssigned
  <2>6. dot' \in Nat
    BY <1>5, <2>2, PlacementIs
  <2> QED BY <1>1, <1>2, <2>2, <2>5, <2>6 DEF ValuesTyped
<1>6. CASE PlaceUnloaded
  BY <1>3, <1>6 DEF PlaceUnloaded, values
<1>7. CASE PlaceFragment
  <2> DEFINE s == walk.out
             to == AlignUp(walk.offset, Section(s).align) + Item.n
  <2>1. s \in Sections /\ Item \in Items /\ Item.op = "bytes"
    BY <1>2, <1>7, ItemIs DEF PlaceFragment, Typed
  <2>2. Item.n \in Nat
    BY <2>1 DEF Items
  <2>3. AlignUp(walk.offset, Section(s).align) \in Nat
    BY <1>1, <1>2, <2>1, SectionIs, AlignUpIs DEF WalkTyped
  <2>4. to \in Nat /\ addr[s] \in Nat
    BY <1>2, <2>1, <2>2, <2>3 DEF PlacesTyped
  <2> QED BY <1>3, <1>7, <2>4 DEF PlaceFragment, values
<1>8. CASE FinishBody
  <2>1. walk.out \in Sections
    BY <1>8, WalkIsAtSection DEF FinishBody
  <2> QED BY <1>2, <1>3, <1>8, <2>1, CounterBehindIs DEF FinishBody, values
<1>9. CASE NextSection
  <2>1. walk.out \in Sections
    BY <1>9, WalkIsAtSection DEF NextSection, EndOfSection
  <2> QED BY <1>2, <1>3, <1>9, <2>1, NoOverlay DEF NextSection, values, ValuesTyped
<1>10. CASE Restart \/ Iterate \/ LayOutAgain \/ InsertStub
  <2>1. dot' = 0
    BY <1>10 DEF Restart, Iterate, LayOutAgain, InsertStub, Again, NextPass, StartAgain
  <2>2. value' = value /\ latest' = latest /\ source' = source
    BY <1>10 DEF Restart, Iterate, LayOutAgain, InsertStub, Again, values
  <2> QED BY <1>3, <2>1, <2>2
<1>11. CASE BeginSections \/ Converge \/ GiveUp \/ Finish
  BY <1>2, <1>3, <1>11 DEF BeginSections, Converge, GiveUp, Stop, Finish, values, ValuesTyped
<1> QED BY <1>4, <1>5, <1>6, <1>7, <1>8, <1>9, <1>10, <1>11 DEF Next

\* What a section takes of its regions.
Used == IF IsTBSS(walk.out) THEN 0 ELSE SizeAtEnd

\* The cursors behind a section: those of its regions have passed it, the others
\* are where they were.
LEMMA AdvancedIs ==
  ASSUME Inv, Orderly, Typed, Ordered, pc = "body"
  PROVE  /\ DOMAIN Advanced(walk.out) = DOMAIN cursor
         /\ \A r \in DOMAIN cursor :
              \/ Advanced(walk.out)[r] = cursor[r]
              \/ Advanced(walk.out)[r] \in Nat /\ RegionCursor(r) <= Advanced(walk.out)[r]
         /\ (InMemory /\ Loaded(walk.out)) =>
              /\ Advanced(walk.out)[Section(walk.out).region] = addr[walk.out] + Used
              /\ Advanced(walk.out)[LoadRegion(walk.out)] = paddr[walk.out] + Used
<1> DEFINE s == walk.out
           r1 == Section(s).region
           r2 == LoadRegion(s)
<1>1. script \in Scripts /\ s \in Sections
  BY WalkIsAtSection DEF Inv, Shape
<1>2. Section(s).lma = NoExpression
  BY <1>1 DEF Orderly, PlacedByLinker
<1>3. CASE Consecutive \/ ~Loaded(s)
  <2>1. Consecutive => r1 = 0 /\ ~HasLoadRegion(s) /\ ~InMemory
    BY <1>1 DEF Consecutive, InMemory, LoadRegion, HasLoadRegion
  <2>2. Advanced(s) = cursor
    BY <1>3, <2>1 DEF Advanced
  <2> QED BY <1>3, <2>1, <2>2
<1>4. CASE InMemory /\ Loaded(s)
  <2>1. r1 # 0 /\ r2 # 0
    BY <1>1, <1>4 DEF InMemory, LoadRegion
  <2>2. r1 \in DOMAIN cursor /\ r2 \in DOMAIN cursor
    BY <1>1, <2>1, SectionIs DEF Typed, CursorsTyped
  <2>3. /\ RegionCursor(r1) <= addr[s] /\ RegionCursor(r2) <= paddr[s]
        /\ ~HasLoadRegion(s) => paddr[s] = addr[s]
    BY <1>4 DEF Ordered, BehindCursors, InPlace
  <2>4. Used \in Nat
    BY <1>1, SizeAtEndIs DEF Typed, Used
  <2>5. RegionCursor(r1) \in Nat /\ RegionCursor(r2) \in Nat
    BY <1>1, <2>2, CursorIs DEF Typed, CursorsTyped
  <2>6. addr[s] \in Nat /\ paddr[s] \in Nat
    BY <1>1 DEF Typed, PlacesTyped
  <2>7. /\ addr[s] + Used \in Nat /\ RegionCursor(r1) <= addr[s] + Used
        /\ paddr[s] + Used \in Nat /\ RegionCursor(r2) <= paddr[s] + Used
    BY <2>3, <2>4, <2>5, <2>6
  <2>8. Advanced(s) = IF HasLoadRegion(s)
                      THEN [[cursor EXCEPT ![r1] = addr[s] + Used] EXCEPT ![r2] = paddr[s] + Used]
                      ELSE [cursor EXCEPT ![r1] = addr[s] + Used]
    BY <1>2, <1>4, <2>1 DEF Advanced, Used
  <2>9. HasLoadRegion(s) <=> r2 # r1
    BY DEF HasLoadRegion
  <2> QED BY <2>2, <2>3, <2>7, <2>8, <2>9
<1> QED BY <1>3, <1>4 DEF Orderly

\* No cursor goes back before its region.
LEMMA NextKeepsCursors ==
  ASSUME Inv, Orderly, Typed, Ordered, Next
  PROVE  CursorsTyped'
<1>1. script \in Scripts /\ script' = script
  BY NextKeepsScript DEF Inv, Shape
<1>2. CursorsTyped
  BY DEF Typed
<1>3. \A r \in DOMAIN script.regions : script.regions[r].origin \in Nat
  BY <1>1, LayoutAssumption DEF LayoutAssumption
<1>4. CASE FinishBody
  <2>1. cursor' = Advanced(walk.out) /\ pc = "body"
    BY <1>4 DEF FinishBody
  <2>2. /\ DOMAIN cursor' = DOMAIN cursor
        /\ \A r \in DOMAIN cursor : \/ cursor'[r] = cursor[r]
                                    \/ cursor'[r] \in Nat /\ RegionCursor(r) <= cursor'[r]
    BY <2>1, AdvancedIs
  <2>3. ASSUME NEW r \in DOMAIN cursor
        PROVE  cursor'[r] \in Nat \cup {Unset} /\ script.regions[r].origin <= RegionCursor(r)'
    <3>1. CASE cursor'[r] = cursor[r]
      BY <1>1, <1>2, <3>1 DEF CursorsTyped, RegionCursor
    <3>2. CASE cursor'[r] \in Nat /\ RegionCursor(r) <= cursor'[r]
      <4>1. RegionCursor(r)' = cursor'[r]
        BY <3>2 DEF RegionCursor, Unset
      <4>2. script.regions[r].origin <= RegionCursor(r) /\ RegionCursor(r) \in Nat
        BY <1>1, <1>2, CursorIs DEF CursorsTyped
      <4> QED BY <1>2, <1>3, <3>2, <4>1, <4>2 DEF CursorsTyped
    <3> QED BY <2>2, <3>1, <3>2
  <2> QED BY <1>1, <1>2, <2>2, <2>3 DEF CursorsTyped
<1>5. CASE Restart \/ Iterate \/ LayOutAgain \/ InsertStub
  <2>1. cursor' = [r \in DOMAIN cursor |-> Unset]
    BY <1>5 DEF Restart, Iterate, LayOutAgain, InsertStub, Again, NextPass, StartAgain
  <2> QED BY <1>1, <1>2, <1>3, <2>1 DEF CursorsTyped, RegionCursor
<1>6. CASE ~(FinishBody \/ Restart \/ Iterate \/ LayOutAgain \/ InsertStub)
  <2>1. cursor' = cursor
    BY <1>6 DEF Next, EvaluateBefore, BeginSections, PlaceUnloaded, PlaceSection, EvaluateInside,
           PlaceFragment, EvaluateAfter, NextSection, Converge, GiveUp, Stop, Finish
  <2> QED BY <1>1, <1>2, <2>1 DEF CursorsTyped, RegionCursor
<1> QED BY <1>4, <1>5, <1>6

\* Sections are in segments of this pass, or the walk will start again with them.
LEMMA NextKeepsSegments ==
  ASSUME Inv, Typed, Next
  PROVE  SegmentsTyped'
<1>1. Sections' = Sections
  BY NextKeepsScript, ScriptStays
<1>2. /\ SegmentsTyped /\ segments \in Nat
      /\ WalkFields \subseteq DOMAIN walk /\ {"loadSeg"} \subseteq DOMAIN walk
  BY DEF Typed, Inv, Shape, WalkFields
<1>3. ASSUME segment' = segment, segments' = segments, walk'.loadSeg = walk.loadSeg PROVE SegmentsTyped'
  BY <1>1, <1>2, <1>3 DEF SegmentsTyped
<1>4. CASE PlaceSection
  <2>1. walk.out \in Sections
    BY <1>4, WalkIsAtSection DEF PlaceSection
  <2>2. /\ segment' = segment /\ segments' = segments
        /\ walk'.loadSeg = IF segment[walk.out] # 0 THEN segment[walk.out] ELSE walk.loadSeg
    BY <1>2, <1>4 DEF PlaceSection
  <2> QED BY <1>1, <1>2, <2>1, <2>2 DEF SegmentsTyped
<1>5. CASE FinishBody
  <2>1. \/ /\ segment' = segment /\ segments' = segments /\ walk'.loadSeg = walk.loadSeg
        \/ /\ segment' = segment /\ segments' = segments + 1 /\ walk'.loadSeg = segments + 1
    BY <1>2, <1>5 DEF FinishBody
  <2> QED BY <1>1, <1>2, <2>1 DEF SegmentsTyped
<1>6. CASE NextSection \/ Restart
  <2>1. walk.out \in Sections
    BY <1>6, WalkIsAtSection DEF NextSection, Restart, EndOfSection
  <2>2. segment' = Grouped(walk.out) /\ segments' = segments
    BY <1>6 DEF NextSection, Restart
  <2>3. walk'.loadSeg = walk.loadSeg
    BY <1>2, <1>6 DEF NextSection, Passed, Restart, ResetWalk, KeptOnReset
  <2> QED BY <1>1, <1>2, <2>1, <2>2, <2>3 DEF SegmentsTyped, Grouped
<1>7. CASE Iterate \/ LayOutAgain \/ InsertStub
  <2>1. NextPass
    BY <1>7 DEF Iterate, LayOutAgain, InsertStub, Again
  <2>2. walk'.loadSeg = 0 /\ segments' = 0 /\ segment' = [s \in Sections |-> 0]
    BY <2>1 DEF NextPass, FreshWalk
  <2> QED BY <1>1, <2>2 DEF SegmentsTyped
<1>8. CASE EvaluateBefore \/ BeginSections \/ PlaceUnloaded \/ EvaluateInside \/ PlaceFragment
           \/ EvaluateAfter \/ Converge \/ GiveUp \/ Finish
  BY <1>2, <1>3, <1>8 DEF EvaluateBefore, BeginSections, PlaceUnloaded, EvaluateInside, PlaceFragment,
         EvaluateAfter, Converge, GiveUp, Stop, Finish
<1> QED BY <1>4, <1>5, <1>6, <1>7, <1>8 DEF Next

\* The loop of convergeLayout stays within its bounds.
LEMMA NextKeepsLoop ==
  ASSUME Typed, Next
  PROVE  LoopTyped'
<1>1. LoopTyped /\ MaxCalls \in Nat /\ pc \in {"before", "place", "body", "after", "laid_out", "done"}
  BY LayoutAssumption DEF LayoutAssumption, Typed, LoopTyped
<1>2. CASE Iterate
  <2>1. pc' = "before" /\ iteration < MaxIterations - 1 /\ iteration' = iteration + 1
        /\ agreed' = agreed /\ calls' = calls
    BY <1>2 DEF Iterate, NextPass, StartAgain
  <2>2. iteration \in Nat /\ MaxIterations \in Int
    BY <1>1 DEF LoopTyped, MaxIterations
  <2>3. iteration' \in 0..(MaxIterations - 1)
    BY <2>1, <2>2
  <2> QED BY <1>1, <2>1, <2>3 DEF LoopTyped
<1>3. CASE Converge \/ GiveUp
  BY <1>1, <1>3 DEF Converge, GiveUp, Stop, LoopTyped
<1>4. CASE LayOutAgain \/ InsertStub
  <2>1. Again
    BY <1>4 DEF LayOutAgain, InsertStub
  <2>2. pc' = "before" /\ iteration' = 0 /\ calls < MaxCalls /\ calls' = calls + 1
    BY <2>1 DEF Again, NextPass, StartAgain
  <2>3. agreed' \in {agreed, "no"}
    BY <1>4 DEF LayOutAgain, InsertStub
  <2>4. 0 \in 0..(MaxIterations - 1)
    BY DEF MaxIterations
  <2>5. calls' \in 1..MaxCalls
    BY <1>1, <2>2 DEF LoopTyped
  <2> QED BY <1>1, <2>2, <2>3, <2>4, <2>5 DEF LoopTyped
<1>5. CASE ~(Iterate \/ Converge \/ GiveUp \/ LayOutAgain \/ InsertStub)
  <2>1. iteration' = iteration /\ agreed' = agreed /\ calls' = calls
    BY <1>5 DEF Next, EvaluateBefore, BeginSections, PlaceUnloaded, PlaceSection, EvaluateInside,
           PlaceFragment, FinishBody, EvaluateAfter, NextSection, Restart, Finish, loop
  <2>2. pc' \in {"before", "place", "body", "after", "laid_out", "done"}
    BY <1>1, <1>5 DEF Next, EvaluateBefore, BeginSections, PlaceUnloaded, PlaceSection, EvaluateInside,
           PlaceFragment, FinishBody, EvaluateAfter, NextSection, Restart, StartAgain, Finish
  <2> QED BY <1>1, <2>1, <2>2 DEF LoopTyped
<1> QED BY <1>2, <1>3, <1>4, <1>5

\* A fragment is placed behind what is in the section.
LEMMA FragmentIs ==
  ASSUME Inv, Typed, PlaceFragment
  PROVE  /\ walk.out \in Sections /\ walk'.offset \in Nat
         /\ dot' = addr[walk.out] + walk'.offset
<1> DEFINE s == walk.out
           to == AlignUp(walk.offset, Section(s).align) + Item.n
<1>1. script \in Scripts /\ WalkTyped /\ PlacesTyped
  BY DEF Typed, Inv, Shape
<1>2. s \in Sections /\ Item \in Items /\ Item.op = "bytes"
  BY ItemIs DEF PlaceFragment, Typed
<1>3. Item.n \in Nat
  BY <1>2 DEF Items
<1>4. AlignUp(walk.offset, Section(s).align) \in Nat
  BY <1>1, <1>2, SectionIs, AlignUpIs DEF WalkTyped
<1>5. to \in Nat
  BY <1>3, <1>4
<1>6. walk'.offset = to /\ dot' = addr[s] + to
  BY DEF PlaceFragment, Inv, Shape, WalkFields
<1> QED BY <1>2, <1>5, <1>6

\* An assignment in a section moves the counter from its start.
LEMMA InsideIs ==
  ASSUME Inv, Orderly, Typed, EvaluateInside
  PROVE  /\ walk.out \in Sections /\ walk'.offset \in Nat
         /\ addr[walk.out] <= dot' /\ dot <= dot'
<1>1. WalkTyped /\ PlacesTyped /\ dot \in Nat
  BY DEF Typed, ValuesTyped
<1>2. dot' \in Nat /\ dot <= dot'
  BY EvaluationKeepsValues DEF ValuesTyped
<1>3. walk.out \in Sections /\ pc = "body"
  BY <1>1, ItemIs DEF EvaluateInside, InBody, Typed
<1>4. addr[walk.out] \in Nat /\ addr[walk.out] <= dot
  BY <1>1, <1>3 DEF PlacesTyped, WalkTyped
<1>5. walk'.offset = dot' - addr[walk.out]
  BY DEF EvaluateInside, Inv, Shape, WalkFields
<1> QED BY <1>1, <1>2, <1>3, <1>4, <1>5

\* The walk stays within the script.
LEMMA NextKeepsWalk ==
  ASSUME Inv, Orderly, Typed, Next
  PROVE  WalkTyped'
<1> DEFINE N == Len(script.sections)
           At(item, offset, saved, out) ==
             /\ item \in Nat \ {0} /\ offset \in Nat /\ saved \in Nat /\ out \in 1..(N + 1)
<1>1. /\ script \in Scripts /\ script' = script /\ Len(script.sections)' = N
      /\ Consecutive' <=> Consecutive
  BY NextKeepsScript, ScriptStays DEF Inv, Shape
<1>2. N \in Nat /\ Sections = 1..N
  BY <1>1, SectionsAreNumbered
<1>3. /\ WalkTyped /\ PlacesTyped /\ dot \in Nat /\ WalkFields \subseteq DOMAIN walk
  BY DEF Typed, ValuesTyped, Inv, Shape
<1>4. At(walk.item, walk.offset, walk.saved, walk.out) /\ walk.item + 1 \in Nat \ {0}
  BY <1>3 DEF WalkTyped
<1>5. CASE EvaluateBefore
  <2>1. walk' = [walk EXCEPT !.item = walk.item + 1] /\ pc = "before" /\ pc' = pc
    BY <1>5 DEF EvaluateBefore
  <2> QED BY <1>1, <1>3, <1>4, <2>1 DEF WalkTyped, WalkFields
<1>6. CASE BeginSections
  <2>1. walk' = [walk EXCEPT !.item = 1] /\ pc' = "place"
    BY <1>6 DEF BeginSections
  <2> QED BY <1>1, <1>3, <1>4, <2>1 DEF WalkTyped, WalkFields
<1>7. CASE PlaceUnloaded
  <2>1. walk.out \in Sections
    BY <1>7, WalkIsAtSection DEF PlaceUnloaded
  <2>2. /\ walk'.item = 1 /\ walk'.saved = dot /\ walk'.offset = 0 /\ walk'.out = walk.out
        /\ walk'.disconnect = walk.disconnect /\ pc' = "body"
        /\ addr' = [addr EXCEPT ![walk.out] = 0] /\ dot' = 0
    BY <1>3, <1>7 DEF PlaceUnloaded, WalkFields
  <2>3. addr'[walk'.out] <= dot'
    BY <1>3, <2>1, <2>2 DEF PlacesTyped
  <2> QED BY <1>1, <1>3, <1>4, <2>2, <2>3 DEF WalkTyped
<1>8. CASE PlaceSection
  <2> DEFINE vma == AddressOf(walk.out)
  <2>1. walk.out \in Sections /\ vma \in Nat
    BY <1>8, PlacementIs
  <2>2. Consecutive => ~Disconnects(walk.out)
    BY <1>1, <1>3, <2>1, LoadAddressIs DEF Typed, WalkTyped
  <2> HIDE DEF vma
  <2>3. /\ walk'.item = 1 /\ walk'.saved = vma /\ walk'.offset = 0 /\ walk'.out = walk.out
        /\ walk'.disconnect = Disconnects(walk.out) /\ pc' = "body"
        /\ addr' = [addr EXCEPT ![walk.out] = vma] /\ dot' = vma
    BY <1>3, <1>8 DEF PlaceSection, WalkFields, vma
  <2>4. addr'[walk'.out] <= dot'
    BY <1>3, <2>1, <2>3 DEF PlacesTyped
  <2> QED BY <1>1, <1>3, <1>4, <2>1, <2>2, <2>3, <2>4 DEF WalkTyped
<1>9. CASE EvaluateInside
  <2>1. /\ walk'.item = walk.item + 1 /\ walk'.saved = walk.saved /\ walk'.out = walk.out
        /\ walk'.disconnect = walk.disconnect /\ pc' = "body" /\ addr' = addr
    BY <1>3, <1>9 DEF EvaluateInside, InBody, WalkFields
  <2> QED BY <1>1, <1>3, <1>4, <1>9, <2>1, InsideIs DEF WalkTyped
<1>10. CASE PlaceFragment
  <2>1. /\ walk'.item = walk.item + 1 /\ walk'.saved = walk.saved /\ walk'.out = walk.out
        /\ walk'.disconnect = walk.disconnect /\ pc' = "body" /\ addr' = addr
    BY <1>3, <1>10 DEF PlaceFragment, InBody, WalkFields, placed
  <2>2. walk'.offset \in Nat /\ addr[walk.out] \in Nat /\ dot' = addr[walk.out] + walk'.offset
    BY <1>3, <1>10, FragmentIs DEF PlacesTyped
  <2>3. addr'[walk'.out] <= dot'
    BY <2>1, <2>2
  <2> QED BY <1>1, <1>3, <1>4, <2>1, <2>2, <2>3 DEF WalkTyped
<1>11. CASE FinishBody
  <2>1. walk.out \in Sections
    BY <1>11, WalkIsAtSection DEF FinishBody
  <2>2. /\ walk'.item = 1 /\ walk'.saved = CounterBehind(walk.out) /\ walk'.offset = walk.offset
        /\ walk'.out = walk.out /\ walk'.disconnect = walk.disconnect /\ pc' = "after"
    BY <1>3, <1>11 DEF FinishBody, WalkFields
  <2> QED BY <1>1, <1>3, <1>4, <2>1, <2>2, CounterBehindIs DEF WalkTyped
<1>12. CASE EvaluateAfter
  <2>1. walk' = [walk EXCEPT !.item = walk.item + 1] /\ pc' = "after"
    BY <1>12 DEF EvaluateAfter
  <2> QED BY <1>1, <1>3, <1>4, <2>1 DEF WalkTyped, WalkFields
<1>13. CASE NextSection
  <2>1. walk.out \in 1..N
    BY <1>2, <1>13, WalkIsAtSection DEF NextSection, EndOfSection
  <2>2. /\ walk'.item = walk.item /\ walk'.offset = walk.offset /\ walk'.saved = walk.saved
        /\ walk'.out = walk.out + 1 /\ walk'.disconnect = walk.disconnect /\ pc' = "place"
    BY <1>3, <1>13 DEF NextSection, Passed, WalkFields
  <2> QED BY <1>1, <1>2, <1>3, <1>4, <2>1, <2>2 DEF WalkTyped
<1>14. CASE Restart
  <2>1. /\ walk'.item = 1 /\ walk'.offset = 0 /\ walk'.saved = 0 /\ walk'.out = 1
        /\ walk'.disconnect = FALSE /\ pc' = "before"
    BY <1>3, <1>14 DEF Restart, ResetWalk, KeptOnReset, FreshWalk, StartAgain, WalkFields
  <2> QED BY <1>1, <1>2, <2>1 DEF WalkTyped
<1>15. CASE Iterate \/ LayOutAgain \/ InsertStub
  <2>1. NextPass
    BY <1>15 DEF Iterate, LayOutAgain, InsertStub, Again
  <2>2. /\ walk'.item = 1 /\ walk'.offset = 0 /\ walk'.saved = 0 /\ walk'.out = 1
        /\ walk'.disconnect = FALSE /\ pc' = "before"
    BY <2>1 DEF NextPass, FreshWalk, StartAgain
  <2> QED BY <1>1, <1>2, <2>2 DEF WalkTyped
<1>16. CASE Converge \/ GiveUp
  <2>1. walk' = walk /\ walk.out > N /\ pc' = "laid_out"
    BY <1>16 DEF Converge, GiveUp, Stop, EndOfPass
  <2>2. walk.out = N + 1
    BY <1>2, <1>4, <2>1
  <2> QED BY <1>1, <1>3, <1>4, <2>1, <2>2 DEF WalkTyped
<1>17. CASE Finish
  <2>1. walk' = walk /\ pc = "laid_out" /\ pc' = "done"
    BY <1>17 DEF Finish
  <2> QED BY <1>1, <1>3, <1>4, <2>1 DEF WalkTyped
<1> QED BY <1>5, <1>6, <1>7, <1>8, <1>9, <1>10, <1>11, <1>12, <1>13, <1>14, <1>15, <1>16, <1>17 DEF Next

------------------------------------------------------------------------------
\* The order is kept.

\* A section that has been laid out stays as it is until the walk starts again.
LEMMA OccupiedStay ==
  ASSUME Inv, Orderly, Typed, Next, ~FinishBody
  PROVE  /\ Occupied' \subseteq Occupied
         /\ \A s \in Occupied' : addr'[s] = addr[s] /\ paddr'[s] = paddr[s] /\ size'[s] = size[s]
<1>1. /\ script' = script /\ Sections' = Sections
      /\ Sections \subseteq Nat \ {0} /\ walk.out \in Nat \ {0}
  BY NextKeepsScript, ScriptStays, SectionsAreNumbered DEF Inv, Shape
<1>2. PlacesTyped /\ WalkTyped /\ WalkFields \subseteq DOMAIN walk
  BY DEF Typed, Inv, Shape
<1>3. ASSUME NEW s \in Sections, size'[s] = size[s] PROVE Occupies(s)' = Occupies(s)
  BY <1>1, <1>3 DEF Occupies, Loaded, IsTBSS, Section
<1>4. ASSUME walk'.out = 1, pc' # "after" PROVE Occupied' = {}
  <2>1. \A s \in Sections : s \in Nat \ {0} /\ ~(s < walk'.out)
    BY <1>1, <1>4
  <2> QED BY <1>1, <1>4, <2>1 DEF Occupied, Finished
<1>5. ASSUME walk'.out = walk.out, pc' = "body", pc # "after",
             \A s \in Sections : s # walk.out =>
               addr'[s] = addr[s] /\ paddr'[s] = paddr[s] /\ size'[s] = size[s]
      PROVE  /\ Occupied' \subseteq Occupied
             /\ \A s \in Occupied' : addr'[s] = addr[s] /\ paddr'[s] = paddr[s] /\ size'[s] = size[s]
  <2>1. \A s \in Occupied' : s \in Sections /\ s < walk.out
    BY <1>1, <1>5 DEF Occupied, Finished
  <2>2. \A s \in Occupied' : s # walk.out
    BY <1>1, <2>1
  <2>3. \A s \in Occupied' : Occupies(s) /\ Finished(s)
    BY <1>1, <1>3, <1>5, <2>1, <2>2 DEF Occupied, Finished
  <2> QED BY <1>5, <2>1, <2>2, <2>3 DEF Occupied
<1>6. ASSUME addr' = addr, paddr' = paddr, size' = size,
             \A s \in Sections : Finished(s)' => Finished(s)
      PROVE  /\ Occupied' \subseteq Occupied
             /\ \A s \in Occupied' : addr'[s] = addr[s] /\ paddr'[s] = paddr[s] /\ size'[s] = size[s]
  BY <1>1, <1>3, <1>6 DEF Occupied
<1>7. CASE EvaluateBefore \/ BeginSections
  <2>1. walk'.out = walk.out /\ pc = "before" /\ pc' # "after"
    BY <1>2, <1>7 DEF EvaluateBefore, BeginSections, WalkFields
  <2> QED BY <1>2, <1>4, <2>1 DEF WalkTyped
<1>8. CASE PlaceUnloaded \/ PlaceSection \/ EvaluateInside
  <2>1. walk'.out = walk.out /\ pc' = "body" /\ pc # "after"
    BY <1>2, <1>8 DEF PlaceUnloaded, PlaceSection, EvaluateInside, InBody, WalkFields
  <2>2. ASSUME NEW s \in Sections, s # walk.out
        PROVE  addr'[s] = addr[s] /\ paddr'[s] = paddr[s] /\ size'[s] = size[s]
    BY <1>2, <1>8, <2>2 DEF PlaceUnloaded, PlaceSection, EvaluateInside, PlacesTyped
  <2> QED BY <1>5, <2>1, <2>2
<1>9. CASE PlaceFragment
  <2>1. walk'.out = walk.out /\ pc' = "body" /\ pc # "after"
    BY <1>2, <1>9 DEF PlaceFragment, InBody, WalkFields
  <2> QED BY <1>5, <1>9, <2>1 DEF PlaceFragment, placed
<1>10. CASE EvaluateAfter \/ NextSection
  <2>1. /\ addr' = addr /\ paddr' = paddr /\ size' = size /\ pc = "after"
        /\ \/ walk'.out = walk.out /\ pc' = pc
           \/ walk'.out = walk.out + 1 /\ pc' = "place"
    BY <1>2, <1>10 DEF EvaluateAfter, NextSection, EndOfSection, Passed, WalkFields, placed
  <2>2. \A s \in Sections : Finished(s)' => Finished(s)
    BY <1>1, <2>1 DEF Finished
  <2> QED BY <1>6, <2>1, <2>2
<1>11. CASE Restart
  <2>1. walk'.out = 1 /\ pc' = "before"
    BY <1>2, <1>11 DEF Restart, ResetWalk, KeptOnReset, FreshWalk, StartAgain, WalkFields
  <2> QED BY <1>4, <2>1
<1>12. CASE Iterate \/ LayOutAgain \/ InsertStub
  <2>1. NextPass
    BY <1>12 DEF Iterate, LayOutAgain, InsertStub, Again
  <2>2. walk'.out = 1 /\ pc' = "before"
    BY <2>1 DEF NextPass, FreshWalk, StartAgain
  <2> QED BY <1>4, <2>2
<1>13. CASE Converge \/ GiveUp \/ Finish
  <2>1. addr' = addr /\ paddr' = paddr /\ size' = size /\ walk' = walk /\ pc' # "after"
    BY <1>13 DEF Converge, GiveUp, Stop, Finish, placed
  <2>2. \A s \in Sections : Finished(s)' => Finished(s)
    BY <2>1 DEF Finished
  <2> QED BY <1>6, <2>1, <2>2
<1> QED BY <1>7, <1>8, <1>9, <1>10, <1>11, <1>12, <1>13 DEF Next

\* The section that has been laid out is one more.
LEMMA OccupiedGrow ==
  ASSUME Inv, Orderly, Typed, FinishBody
  PROVE  /\ walk.out \in Sections /\ SizeAtEnd \in Nat
         /\ addr' = addr /\ paddr' = paddr /\ size'[walk.out] = SizeAtEnd
         /\ \A s \in Occupied : s < walk.out /\ size'[s] = size[s]
         /\ \A s \in Occupied' : s \in Occupied \/ (s = walk.out /\ Loaded(s) /\ ~IsTBSS(s))
<1>1. /\ script' = script /\ Sections' = Sections
      /\ Sections \subseteq Nat /\ walk.out \in Nat \ {0} /\ walk.out \in Sections
  <2>1. script' = script /\ walk.out \in Sections
    BY WalkIsAtSection DEF FinishBody
  <2> QED BY <2>1, ScriptStays, SectionsAreNumbered DEF Inv, Shape
<1>2. PlacesTyped /\ WalkTyped /\ WalkFields \subseteq DOMAIN walk
  BY DEF Typed, Inv, Shape
<1>3. SizeAtEnd \in Nat
  BY <1>1, <1>2, SizeAtEndIs
<1>4. /\ addr' = addr /\ paddr' = paddr /\ size' = [size EXCEPT ![walk.out] = SizeAtEnd]
      /\ walk'.out = walk.out /\ pc = "body" /\ pc' = "after"
  BY <1>2 DEF FinishBody, WalkFields
<1>5. \A s \in Occupied : s \in Sections /\ s < walk.out
  BY <1>4 DEF Occupied, Finished
<1>6. \A s \in Sections : s # walk.out => size'[s] = size[s]
  BY <1>2, <1>4 DEF PlacesTyped
<1>7. ASSUME NEW s \in Occupied' PROVE s \in Occupied \/ (s = walk.out /\ Loaded(s) /\ ~IsTBSS(s))
  <2>1. s \in Sections /\ (s < walk.out \/ s = walk.out) /\ Occupies(s)'
    BY <1>1, <1>4 DEF Occupied, Finished
  <2>2. Loaded(s) /\ ~IsTBSS(s) /\ size'[s] > 0
    BY <1>1, <2>1 DEF Occupies, Loaded, IsTBSS, Section
  <2>3. CASE s = walk.out
    BY <2>2, <2>3
  <2>4. CASE s # walk.out
    BY <1>6, <2>1, <2>2, <2>4 DEF Occupied, Finished, Occupies
  <2> QED BY <2>3, <2>4
<1>8. \A s \in Occupied : s # walk.out
  BY <1>1, <1>5
<1> QED BY <1>1, <1>2, <1>3, <1>4, <1>5, <1>6, <1>7, <1>8 DEF PlacesTyped

\* What the numbers of a section are.
LEMMA NumbersAre ==
  ASSUME Inv, PlacesTyped, NEW s \in Sections
  PROVE  /\ addr[s] \in Nat /\ paddr[s] \in Nat /\ size[s] \in Nat
         /\ End(s) = addr[s] + size[s] /\ LoadEnd(s) = paddr[s] + size[s]
         /\ End(s) \in Nat /\ LoadEnd(s) \in Nat
<1>1. addr[s] \in Nat /\ paddr[s] \in Nat /\ size[s] \in Nat
  BY DEF PlacesTyped
<1> QED BY <1>1 DEF End, LoadEnd

\* The section that is being laid out stays where it has been placed.
LEMMA InPlaceStays ==
  ASSUME Inv, Orderly, Typed, Next, InPlace'
  PROVE  /\ walk'.out = walk.out /\ walk.out \in Sections /\ Loaded(walk.out)
         /\ cursor' = cursor
         /\ \/ PlaceSection
            \/ /\ InPlace /\ addr' = addr /\ paddr' = paddr /\ walk'.saved = walk.saved
<1>1. script' = script /\ WalkFields \subseteq DOMAIN walk /\ pc' = "body"
  BY NextKeepsScript DEF Inv, Shape, InPlace
<1>2. PlaceUnloaded \/ PlaceSection \/ EvaluateInside \/ PlaceFragment
  BY <1>1 DEF Next, EvaluateBefore, BeginSections, FinishBody, EvaluateAfter, NextSection, Restart,
         Iterate, Converge, GiveUp, Stop, LayOutAgain, InsertStub, Again, NextPass, StartAgain, Finish
<1>3. walk'.out = walk.out /\ cursor' = cursor
  BY <1>1, <1>2 DEF PlaceUnloaded, PlaceSection, EvaluateInside, PlaceFragment, WalkFields
<1>4. Loaded(walk.out)
  BY <1>1, <1>3 DEF InPlace, Loaded, Section
<1>5. walk.out \in Sections
  BY <1>2, WalkIsAtSection DEF PlaceUnloaded, PlaceSection, EvaluateInside, PlaceFragment, InBody
<1>6. ~PlaceUnloaded
  BY <1>4 DEF PlaceUnloaded
<1>7. CASE EvaluateInside \/ PlaceFragment
  BY <1>1, <1>3, <1>4, <1>5, <1>7
  DEF EvaluateInside, PlaceFragment, InBody, InPlace, WalkFields, placed
<1> QED BY <1>2, <1>3, <1>4, <1>5, <1>6, <1>7

\* Between consecutive sections the counter goes forward.
LEMMA CounterGoesForward ==
  ASSUME Inv, Orderly, Typed, Consecutive, Next, ~FinishBody
  PROVE  Occupied' = {} \/ Counter <= Counter'
<1>1. /\ dot \in Nat /\ walk.saved \in Nat /\ WalkFields \subseteq DOMAIN walk
      /\ script' = script /\ script \in Scripts
  BY NextKeepsScript DEF Typed, ValuesTyped, WalkTyped, Inv, Shape
<1>2. CASE EvaluateBefore \/ BeginSections
  <2>1. Occupied = {}
    <3>1. pc = "before" /\ walk.out = 1
      BY <1>2 DEF EvaluateBefore, BeginSections, Typed, WalkTyped
    <3>2. \A s \in Sections : s \in Nat \ {0} /\ ~(s < walk.out)
      BY <1>1, <3>1, SectionsAreNumbered
    <3> QED BY <3>1, <3>2 DEF Occupied, Finished
  <2>2. ~FinishBody /\ Occupied' \subseteq Occupied
    BY OccupiedStay
  <2> QED BY <2>1, <2>2
<1>3. CASE PlaceUnloaded
  <2>1. Counter = dot /\ Counter' = dot
    BY <1>1, <1>3 DEF PlaceUnloaded, Counter, WalkFields
  <2> QED BY <1>1, <2>1
<1>4. CASE PlaceSection
  <2>1. Counter = dot /\ Counter' = AddressOf(walk.out)
    BY <1>1, <1>4 DEF PlaceSection, Counter, WalkFields
  <2>2. walk.out \in Sections /\ StartOf(walk.out) <= AddressOf(walk.out)
    BY <1>4, PlacementIs
  <2>3. StartOf(walk.out) = dot
    BY <1>1, <2>2, AddressIs DEF Consecutive, Typed
  <2> QED BY <2>1, <2>2, <2>3
<1>5. CASE EvaluateInside \/ PlaceFragment
  <2>1. Counter = walk.saved /\ Counter' = walk.saved
    BY <1>1, <1>5 DEF EvaluateInside, PlaceFragment, InBody, Counter, WalkFields
  <2> QED BY <1>1, <2>1
<1>6. CASE EvaluateAfter
  <2>1. Counter = dot /\ Counter' = dot'
    BY <1>6 DEF EvaluateAfter, Counter
  <2> QED BY <1>6, <2>1, EvaluationKeepsValues
<1>7. CASE NextSection
  <2>1. walk.out \in Sections
    BY <1>7, WalkIsAtSection DEF NextSection, EndOfSection
  <2>2. Counter = dot /\ Counter' = dot
    BY <1>7, <2>1, NoOverlay DEF NextSection, EndOfSection, Counter
  <2> QED BY <1>1, <2>2
<1>8. CASE Restart \/ Iterate \/ LayOutAgain \/ InsertStub
  <2>1. walk'.out = 1 /\ pc' = "before"
    <3>1. CASE Restart
      BY <1>1, <3>1 DEF Restart, ResetWalk, KeptOnReset, FreshWalk, StartAgain, WalkFields
    <3>2. CASE Iterate \/ LayOutAgain \/ InsertStub
      <4>1. NextPass
        BY <3>2 DEF Iterate, LayOutAgain, InsertStub, Again
      <4> QED BY <4>1 DEF NextPass, FreshWalk, StartAgain
    <3> QED BY <1>8, <3>1, <3>2
  <2>2. \A s \in Sections : s \in Nat \ {0} /\ ~(s < walk'.out)
    BY <1>1, <2>1, SectionsAreNumbered
  <2>3. Sections' = Sections
    BY <1>1, ScriptStays
  <2> QED BY <2>1, <2>2, <2>3 DEF Occupied, Finished
<1>9. CASE Converge \/ GiveUp \/ Finish
  <2>1. Counter = dot /\ Counter' = dot
    BY <1>9 DEF Converge, GiveUp, Stop, EndOfPass, Finish, Counter
  <2> QED BY <1>1, <2>1
<1> QED BY <1>2, <1>3, <1>4, <1>5, <1>6, <1>7, <1>8, <1>9 DEF Next

\* Consecutive sections stay behind one another.
LEMMA NextKeepsBehindCounter ==
  ASSUME Inv, Orderly, Typed, Consecutive, BehindCounter, Next
  PROVE  BehindCounter'
<1>1. /\ script' = script /\ Sections' = Sections /\ Occupied \subseteq Sections
      /\ PlacesTyped /\ Sections \subseteq Nat
  BY NextKeepsScript, ScriptStays, SectionsAreNumbered DEF Typed, Occupied, Inv, Shape
<1>2. \A s \in Sections : addr[s] \in Nat /\ size[s] \in Nat /\ End(s) = addr[s] + size[s]
  BY <1>1, NumbersAre
<1>3. Counter \in Nat
  BY DEF Typed, ValuesTyped, WalkTyped, Counter
<1>4. InPlace' => addr'[walk'.out] = walk'.saved /\ paddr'[walk'.out] = walk'.saved
  <2> SUFFICES ASSUME InPlace' PROVE addr'[walk'.out] = walk'.saved /\ paddr'[walk'.out] = walk'.saved
    OBVIOUS
  <2>1. walk'.out = walk.out /\ walk.out \in Sections /\ Loaded(walk.out)
    BY InPlaceStays
  <2>2. CASE PlaceSection
    <3>1. /\ addr' = [addr EXCEPT ![walk.out] = AddressOf(walk.out)]
          /\ paddr' = [paddr EXCEPT ![walk.out] = LoadAddress(walk.out, AddressOf(walk.out))]
          /\ walk'.saved = AddressOf(walk.out)
      BY <2>2 DEF PlaceSection, Inv, Shape, WalkFields
    <3>2. LoadAddress(walk.out, AddressOf(walk.out)) = AddressOf(walk.out)
      BY <2>1, LoadAddressIs DEF Typed, WalkTyped, Inv, Shape
    <3> QED BY <1>1, <2>1, <3>1, <3>2 DEF PlacesTyped
  <2>3. CASE InPlace /\ addr' = addr /\ paddr' = paddr /\ walk'.saved = walk.saved
    BY <2>1, <2>3 DEF BehindCounter
  <2> QED BY <2>2, <2>3, InPlaceStays
<1>5. CASE ~FinishBody
  <2>1. /\ Occupied' \subseteq Occupied
        /\ \A s \in Occupied' : addr'[s] = addr[s] /\ paddr'[s] = paddr[s] /\ size'[s] = size[s]
    BY <1>5, OccupiedStay
  <2>2. \A s \in Occupied' : End(s)' = End(s)
    BY <2>1 DEF End
  <2>3. Occupied' # {} => Counter <= Counter' /\ Counter' \in Nat
    <3>1. Counter' \in Nat
      BY NextKeepsValues, NextKeepsWalk DEF ValuesTyped, WalkTyped, Counter
    <3> QED BY <1>5, <3>1, CounterGoesForward
  <2>4. ASSUME NEW s \in Occupied' PROVE paddr'[s] = addr'[s] /\ End(s)' <= Counter'
    <3>1. paddr[s] = addr[s] /\ End(s) <= Counter /\ End(s) \in Nat
      BY <1>1, <1>2, <2>1 DEF BehindCounter
    <3> QED BY <1>3, <2>1, <2>2, <2>3, <3>1
  <2>5. ASSUME NEW s \in Occupied', NEW t \in Occupied', s < t PROVE End(s)' <= addr'[t]
    BY <2>1, <2>2, <2>5 DEF BehindCounter
  <2> QED BY <1>4, <2>4, <2>5 DEF BehindCounter
<1>6. CASE FinishBody
  <2> DEFINE o == walk.out
  <2>1. /\ o \in Sections /\ SizeAtEnd \in Nat
        /\ addr' = addr /\ paddr' = paddr /\ size'[o] = SizeAtEnd
        /\ \A s \in Occupied : s < o /\ size'[s] = size[s]
        /\ \A s \in Occupied' : s \in Occupied \/ (s = o /\ Loaded(s) /\ ~IsTBSS(s))
    BY <1>6, OccupiedGrow
  <2>2. pc = "body" /\ Counter = walk.saved /\ Counter' = CounterBehind(o)
    BY <1>6 DEF FinishBody, Counter
  <2>3. Loaded(o) => addr[o] = walk.saved /\ paddr[o] = walk.saved
    BY <2>2 DEF BehindCounter, InPlace
  <2>4. /\ walk.saved \in Nat /\ walk.saved <= Counter'
        /\ (Loaded(o) /\ ~IsTBSS(o)) => Counter' = addr[o] + SizeAtEnd
    BY <1>2, <1>3, <2>1, <2>2, <2>3 DEF CounterBehind
  <2>5. \A s \in Occupied : End(s)' = End(s) /\ End(s) <= walk.saved /\ paddr[s] = addr[s]
    BY <2>1, <2>2 DEF End, BehindCounter
  <2>6. \A s \in Sections : s = o => End(s)' = addr[o] + SizeAtEnd
    BY <2>1 DEF End
  <2>7. ASSUME NEW s \in Occupied' PROVE paddr'[s] = addr'[s] /\ End(s)' <= Counter'
    <3>1. CASE s \in Occupied
      <4>1. End(s) \in Nat /\ Counter' \in Nat
        <5>1. Counter' \in Nat
          BY NextKeepsValues, NextKeepsWalk DEF ValuesTyped, WalkTyped, Counter
        <5> QED BY <1>1, <1>2, <3>1, <5>1
      <4> QED BY <2>1, <2>4, <2>5, <3>1, <4>1
    <3>2. CASE s = o /\ Loaded(s) /\ ~IsTBSS(s)
      <4>1. addr[o] \in Nat /\ End(s)' = addr[o] + SizeAtEnd /\ Counter' = addr[o] + SizeAtEnd
        BY <1>2, <2>1, <2>4, <2>6, <3>2
      <4>2. addr[o] + SizeAtEnd <= addr[o] + SizeAtEnd
        BY <2>1, <4>1
      <4> QED BY <2>1, <2>3, <3>2, <4>1, <4>2
    <3> QED BY <2>1, <3>1, <3>2
  <2>8. ASSUME NEW s \in Occupied', NEW t \in Occupied', s < t PROVE End(s)' <= addr'[t]
    <3>1. s \in Occupied
      <4>1. \A u \in Occupied' : u \in Nat /\ (u \in Occupied => u < o) /\ (u \in Occupied \/ u = o)
        BY <1>1, <2>1
      <4> QED BY <1>1, <2>1, <2>8, <4>1
    <3>2. CASE t \in Occupied
      BY <2>1, <2>5, <2>8, <3>1, <3>2 DEF BehindCounter
    <3>3. CASE t = o /\ Loaded(t)
      BY <2>1, <2>3, <2>5, <3>1, <3>3
    <3> QED BY <2>1, <3>2, <3>3
  <2> QED BY <1>4, <2>7, <2>8 DEF BehindCounter
<1> QED BY <1>5, <1>6

\* The regions of a section.
LEMMA RegionsAre ==
  ASSUME script \in Scripts, InMemory, CursorsTyped, NEW s \in Sections
  PROVE  /\ Section(s).region \in DOMAIN cursor /\ LoadRegion(s) \in DOMAIN cursor
         /\ RegionCursor(Section(s).region) \in Nat /\ RegionCursor(LoadRegion(s)) \in Nat
         /\ script.regions[Section(s).region].origin \in Nat
         /\ script.regions[LoadRegion(s)].origin \in Nat
         /\ script.regions[Section(s).region].origin <= RegionCursor(Section(s).region)
         /\ script.regions[LoadRegion(s)].origin <= RegionCursor(LoadRegion(s))
<1>1. Section(s).region # 0 /\ LoadRegion(s) # 0
  BY DEF InMemory, LoadRegion
<1>2. Section(s).region \in DOMAIN script.regions /\ LoadRegion(s) \in DOMAIN script.regions
  BY <1>1, SectionIs
<1> QED BY <1>2, CursorIs DEF CursorsTyped

\* A cursor with a value is where the region goes on.
LEMMA SetCursorIs ==
  ASSUME NEW r, cursor[r] # Unset
  PROVE  RegionCursor(r) = cursor[r]
BY DEF RegionCursor

\* A placed section is not before the cursors of its regions.
LEMMA PlacedBehindCursors ==
  ASSUME Inv, Orderly, Typed, InMemory, BehindCursors, Next, InPlace'
  PROVE  /\ RegionCursor(Section(walk.out).region)' <= addr'[walk'.out]
         /\ RegionCursor(LoadRegion(walk.out))' <= paddr'[walk'.out]
         /\ ~HasLoadRegion(walk.out)' => paddr'[walk'.out] = addr'[walk'.out]
<1> DEFINE o == walk.out
<1>1. /\ script' = script /\ script \in Scripts /\ PlacesTyped
      /\ walk'.out = o /\ o \in Sections /\ Loaded(o) /\ cursor' = cursor
  BY NextKeepsScript, InPlaceStays DEF Typed, Inv, Shape
<1>2. /\ RegionCursor(Section(walk.out).region)' = RegionCursor(Section(o).region)
      /\ RegionCursor(LoadRegion(walk.out))' = RegionCursor(LoadRegion(o))
      /\ HasLoadRegion(walk.out)' = HasLoadRegion(o)
  BY <1>1 DEF RegionCursor, LoadRegion, HasLoadRegion, Section
<1>3. CASE PlaceSection
  <2>1. /\ addr' = [addr EXCEPT ![o] = AddressOf(o)]
        /\ paddr' = [paddr EXCEPT ![o] = LoadAddress(o, AddressOf(o))]
    BY <1>3 DEF PlaceSection
  <2>2. addr'[o] = AddressOf(o) /\ paddr'[o] = LoadAddress(o, AddressOf(o))
    BY <1>1, <2>1 DEF PlacesTyped
  <2>3. StartOf(o) = RegionCursor(Section(o).region) /\ StartOf(o) <= AddressOf(o)
    BY <1>1, AddressIs DEF InMemory, Typed
  <2>4. /\ RegionCursor(LoadRegion(o)) <= LoadAddress(o, AddressOf(o))
        /\ ~HasLoadRegion(o) => LoadAddress(o, AddressOf(o)) = AddressOf(o)
    BY <1>1, LoadAddressIs DEF Typed, WalkTyped
  <2> QED BY <1>1, <1>2, <2>2, <2>3, <2>4
<1>4. CASE InPlace /\ addr' = addr /\ paddr' = paddr
  BY <1>1, <1>2, <1>4 DEF BehindCursors
<1> QED BY <1>3, <1>4, InPlaceStays

\* The sections of a memory region stay behind one another.
LEMMA NextKeepsBehindCursors ==
  ASSUME Inv, Orderly, Typed, InMemory, BehindCursors, Next
  PROVE  BehindCursors'
<1>1. /\ script' = script /\ Sections' = Sections /\ script \in Scripts
      /\ Occupied \subseteq Sections /\ Occupied' \subseteq Sections
      /\ PlacesTyped /\ CursorsTyped /\ Sections \subseteq Nat
  BY NextKeepsScript, ScriptStays, SectionsAreNumbered DEF Typed, Occupied, Inv, Shape
<1>2. \A s \in Sections :
        /\ addr[s] \in Nat /\ size[s] \in Nat /\ End(s) \in Nat
        /\ paddr[s] \in Nat /\ LoadEnd(s) \in Nat
  BY <1>1, NumbersAre
<1>3. \A s \in Sections : Section(s)' = Section(s) /\ LoadRegion(s)' = LoadRegion(s)
  BY <1>1 DEF Section, LoadRegion
<1>4. InPlace' =>
        /\ RegionCursor(Section(walk.out).region)' <= addr'[walk'.out]
        /\ RegionCursor(LoadRegion(walk.out))' <= paddr'[walk'.out]
        /\ ~HasLoadRegion(walk.out)' => paddr'[walk'.out] = addr'[walk'.out]
  BY PlacedBehindCursors
<1>5. CASE ~FinishBody
  <2>1. /\ Occupied' \subseteq Occupied
        /\ \A s \in Occupied' : addr'[s] = addr[s] /\ paddr'[s] = paddr[s] /\ size'[s] = size[s]
    BY <1>5, OccupiedStay
  <2>2. \A s \in Occupied' : End(s)' = End(s) /\ LoadEnd(s)' = LoadEnd(s)
    BY <2>1 DEF End, LoadEnd
  <2>3. CASE cursor' = cursor
    <3>1. ASSUME NEW s \in Occupied'
          PROVE  /\ script.regions[Section(s).region].origin <= addr'[s]
                 /\ End(s)' <= cursor'[Section(s).region]
                 /\ script.regions[LoadRegion(s)].origin <= paddr'[s]
                 /\ LoadEnd(s)' <= cursor'[LoadRegion(s)]
                 /\ LoadRegion(s) = Section(s).region => paddr'[s] = addr'[s]
      BY <2>1, <2>2, <2>3 DEF BehindCursors, HasLoadRegion
    <3>2. ASSUME NEW s \in Occupied', NEW t \in Occupied', s < t
          PROVE  /\ Section(s).region = Section(t).region => End(s)' <= addr'[t]
                 /\ LoadRegion(s) = LoadRegion(t) => LoadEnd(s)' <= paddr'[t]
      BY <2>1, <2>2, <3>2 DEF BehindCursors
    <3> QED BY <1>1, <1>3, <1>4, <3>1, <3>2 DEF BehindCursors, HasLoadRegion
  <2>4. CASE cursor' # cursor
    <3>1. Restart \/ Iterate \/ LayOutAgain \/ InsertStub
      BY <1>5, <2>4 DEF Next, EvaluateBefore, BeginSections, PlaceUnloaded, PlaceSection,
             EvaluateInside, PlaceFragment, EvaluateAfter, NextSection, Converge, GiveUp, Stop, Finish
    <3>2. walk'.out = 1 /\ pc' = "before"
      <4>1. CASE Restart
        BY <4>1 DEF Restart, ResetWalk, KeptOnReset, FreshWalk, StartAgain, WalkFields, Inv, Shape
      <4>2. CASE Iterate \/ LayOutAgain \/ InsertStub
        <5>1. NextPass
          BY <4>2 DEF Iterate, LayOutAgain, InsertStub, Again
        <5> QED BY <5>1 DEF NextPass, FreshWalk, StartAgain
      <4> QED BY <3>1, <4>1, <4>2
    <3>3. Occupied' = {}
      <4>1. \A s \in Sections : s \in Nat \ {0} /\ ~(s < walk'.out)
        BY <1>1, <3>2, SectionsAreNumbered
      <4> QED BY <1>1, <3>2, <4>1 DEF Occupied, Finished
    <3> QED BY <1>4, <3>3 DEF BehindCursors
  <2> QED BY <2>3, <2>4
<1>6. CASE FinishBody
  <2> DEFINE o == walk.out
  <2>1. /\ o \in Sections /\ SizeAtEnd \in Nat
        /\ addr' = addr /\ paddr' = paddr /\ size'[o] = SizeAtEnd
        /\ \A s \in Occupied : s < o /\ size'[s] = size[s]
        /\ \A s \in Occupied' : s \in Occupied \/ (s = o /\ Loaded(s) /\ ~IsTBSS(s))
    BY <1>6, OccupiedGrow
  <2>2. pc = "body" /\ cursor' = Advanced(o)
    BY <1>6 DEF FinishBody
  <2>3. /\ \A r \in DOMAIN cursor : \/ cursor'[r] = cursor[r]
                                    \/ cursor'[r] \in Nat /\ RegionCursor(r) <= cursor'[r]
        /\ Loaded(o) => /\ cursor'[Section(o).region] = addr[o] + Used
                        /\ cursor'[LoadRegion(o)] = paddr[o] + Used
    <3>1. ~Consecutive
      BY <2>1 DEF Consecutive, InMemory
    <3>2. Ordered
      BY <3>1 DEF Ordered
    <3> QED BY <2>2, <3>2, AdvancedIs
  <2>4. Loaded(o) => /\ RegionCursor(Section(o).region) <= addr[o]
                     /\ RegionCursor(LoadRegion(o)) <= paddr[o]
    BY <2>2 DEF BehindCursors, InPlace
  <2>5. Loaded(o) /\ LoadRegion(o) = Section(o).region => paddr[o] = addr[o]
    BY <2>2 DEF BehindCursors, InPlace, HasLoadRegion
  <2>6. \A s \in Occupied : End(s)' = End(s) /\ LoadEnd(s)' = LoadEnd(s)
    BY <2>1 DEF End, LoadEnd
  <2>7. ASSUME NEW s \in Occupied
        PROVE  /\ Section(s).region \in DOMAIN cursor /\ LoadRegion(s) \in DOMAIN cursor
               /\ RegionCursor(Section(s).region) = cursor[Section(s).region]
               /\ RegionCursor(LoadRegion(s)) = cursor[LoadRegion(s)]
               /\ End(s) <= RegionCursor(Section(s).region) /\ LoadEnd(s) <= RegionCursor(LoadRegion(s))
    <3>1. s \in Sections /\ End(s) \in Nat /\ LoadEnd(s) \in Nat
      BY <1>1, <1>2
    <3>2. End(s) <= cursor[Section(s).region] /\ LoadEnd(s) <= cursor[LoadRegion(s)]
      BY DEF BehindCursors
    <3>3. cursor[Section(s).region] # Unset /\ cursor[LoadRegion(s)] # Unset
      BY <3>1, <3>2 DEF Unset
    <3> QED BY <1>1, <3>1, <3>2, <3>3, RegionsAre, SetCursorIs
  <2>8. ASSUME NEW s \in Occupied'
        PROVE  /\ script.regions[Section(s).region].origin <= addr'[s]
               /\ End(s)' <= cursor'[Section(s).region]
               /\ script.regions[LoadRegion(s)].origin <= paddr'[s]
               /\ LoadEnd(s)' <= cursor'[LoadRegion(s)]
               /\ LoadRegion(s) = Section(s).region => paddr'[s] = addr'[s]
    <3>1. CASE s \in Occupied
      <4>1. /\ script.regions[Section(s).region].origin <= addr[s]
            /\ script.regions[LoadRegion(s)].origin <= paddr[s]
            /\ LoadRegion(s) = Section(s).region => paddr[s] = addr[s]
        BY <3>1 DEF BehindCursors, HasLoadRegion
      <4>2. End(s) \in Nat /\ LoadEnd(s) \in Nat /\ s \in Sections
        BY <1>1, <1>2, <3>1
      <4>3. /\ RegionCursor(Section(s).region) \in Nat /\ RegionCursor(LoadRegion(s)) \in Nat
        BY <1>1, <4>2, RegionsAre
      <4>4. /\ RegionCursor(Section(s).region) <= cursor'[Section(s).region]
            /\ cursor'[Section(s).region] \in Nat
            /\ RegionCursor(LoadRegion(s)) <= cursor'[LoadRegion(s)] /\ cursor'[LoadRegion(s)] \in Nat
        BY <2>3, <2>7, <3>1, <4>3
      <4>5. End(s) <= RegionCursor(Section(s).region) /\ LoadEnd(s) <= RegionCursor(LoadRegion(s))
        BY <2>7, <3>1
      <4>6. End(s) <= cursor'[Section(s).region] /\ LoadEnd(s) <= cursor'[LoadRegion(s)]
        BY <4>2, <4>3, <4>4, <4>5
      <4> QED BY <2>1, <2>6, <3>1, <4>1, <4>6
    <3>2. CASE s = o /\ Loaded(s) /\ ~IsTBSS(s)
      <4>1. Used = SizeAtEnd
        BY <3>2 DEF Used
      <4>2. size'[s] = SizeAtEnd
        BY <2>1, <3>2
      <4>3. End(s)' = addr[s] + SizeAtEnd /\ LoadEnd(s)' = paddr[s] + SizeAtEnd
        BY <2>1, <4>2 DEF End, LoadEnd
      <4>4. /\ RegionCursor(Section(s).region) <= addr[s] /\ RegionCursor(LoadRegion(s)) <= paddr[s]
            /\ cursor'[Section(s).region] = addr[s] + SizeAtEnd
            /\ cursor'[LoadRegion(s)] = paddr[s] + SizeAtEnd
        BY <2>3, <2>4, <3>2, <4>1
      <4>5. /\ RegionCursor(Section(s).region) \in Nat /\ RegionCursor(LoadRegion(s)) \in Nat
            /\ script.regions[Section(s).region].origin \in Nat
            /\ script.regions[LoadRegion(s)].origin \in Nat
            /\ script.regions[Section(s).region].origin <= RegionCursor(Section(s).region)
            /\ script.regions[LoadRegion(s)].origin <= RegionCursor(LoadRegion(s))
        BY <1>1, <2>1, <3>2, RegionsAre
      <4>6. addr[s] \in Nat /\ paddr[s] \in Nat
        BY <1>2, <2>1, <3>2
      <4> QED BY <2>1, <2>5, <3>2, <4>3, <4>4, <4>5, <4>6
    <3> QED BY <2>1, <3>1, <3>2
  <2>9. ASSUME NEW s \in Occupied', NEW t \in Occupied', s < t
        PROVE  /\ Section(s).region = Section(t).region => End(s)' <= addr'[t]
               /\ LoadRegion(s) = LoadRegion(t) => LoadEnd(s)' <= paddr'[t]
    <3>1. s \in Occupied
      <4>1. \A u \in Occupied' : u \in Nat /\ (u \in Occupied => u < o) /\ (u \in Occupied \/ u = o)
        BY <1>1, <2>1
      <4> QED BY <1>1, <2>1, <2>9, <4>1
    <3>2. CASE t \in Occupied
      BY <2>1, <2>6, <2>9, <3>1, <3>2 DEF BehindCursors
    <3>3. CASE t = o /\ Loaded(t)
      <4>1. /\ s \in Sections /\ End(s) \in Nat /\ LoadEnd(s) \in Nat
            /\ addr[t] \in Nat /\ paddr[t] \in Nat
        BY <1>1, <1>2, <2>1, <3>1, <3>3
      <4>2. RegionCursor(Section(t).region) \in Nat /\ RegionCursor(LoadRegion(t)) \in Nat
        BY <1>1, <2>1, <3>3, RegionsAre
      <4>3. End(s) <= RegionCursor(Section(s).region) /\ LoadEnd(s) <= RegionCursor(LoadRegion(s))
        BY <2>7, <3>1
      <4>4. RegionCursor(Section(t).region) <= addr[t] /\ RegionCursor(LoadRegion(t)) <= paddr[t]
        BY <2>4, <3>3
      <4>5. Section(s).region = Section(t).region => End(s) <= addr[t]
        BY <4>1, <4>2, <4>3, <4>4
      <4>6. LoadRegion(s) = LoadRegion(t) => LoadEnd(s) <= paddr[t]
        BY <4>1, <4>2, <4>3, <4>4
      <4> QED BY <2>1, <2>6, <3>1, <4>5, <4>6
    <3> QED BY <2>1, <3>2, <3>3
  <2>10. ~InPlace'
    BY <1>6 DEF FinishBody, InPlace
  <2> QED BY <1>1, <1>3, <2>8, <2>9, <2>10 DEF BehindCursors, HasLoadRegion
<1> QED BY <1>5, <1>6

\* A pass begins with no section laid out.
LEMMA InitOrdered == Init /\ Orderly => Ordered
<1> SUFFICES ASSUME Init, Orderly PROVE Ordered
  OBVIOUS
<1>1. script \in Scripts /\ walk.out = 1 /\ pc = "before"
  BY DEF Init, FreshWalk
<1>2. \A s \in Sections : s \in Nat \ {0} /\ ~(s < walk.out)
  BY <1>1, SectionsAreNumbered
<1>3. Occupied = {} /\ ~InPlace
  BY <1>1, <1>2 DEF Occupied, Finished, InPlace
<1> QED BY <1>3 DEF Ordered, BehindCounter, BehindCursors

\* A stutter changes nothing of this.
LEMMA StutterKeepsOrderly ==
  ASSUME UNCHANGED vars, Typed, Ordered
  PROVE  Typed' /\ Ordered'
<1>1. /\ Sections' = Sections /\ Assignments' = Assignments /\ Names' = Names /\ Items' = Items
      /\ (Consecutive' <=> Consecutive) /\ (InMemory' <=> InMemory)
  BY ScriptStays DEF vars
<1>2. BodiesTyped' /\ PlacesTyped' /\ ValuesTyped' /\ SegmentsTyped' /\ WalkTyped' /\ LoopTyped'
  BY <1>1 DEF vars, Typed, BodiesTyped, PlacesTyped, ValuesTyped, SourcesTyped, SegmentsTyped,
         WalkTyped, LoopTyped
<1>3. CursorsTyped'
  BY DEF vars, Typed, CursorsTyped, RegionCursor
<1>4. Occupied' = Occupied /\ Counter' = Counter /\ InPlace' = InPlace
  BY DEF vars, Occupied, Sections, Finished, Occupies, Loaded, IsTBSS, Section, Counter, InPlace
<1>5. BehindCounter => BehindCounter'
  BY <1>4 DEF vars, BehindCounter, End
<1>6. BehindCursors => BehindCursors'
  BY <1>4 DEF vars, BehindCursors, End, LoadEnd, RegionCursor, LoadRegion, HasLoadRegion, Section
<1> QED BY <1>1, <1>2, <1>3, <1>5, <1>6 DEF Typed, Ordered

\* Every step keeps types and order.
LEMMA NextOrderly == Inv /\ OrderlyInv /\ [Next]_vars => OrderlyInv'
<1> SUFFICES ASSUME Inv, OrderlyInv, [Next]_vars, Orderly' PROVE (Typed /\ Ordered)'
  BY DEF OrderlyInv
<1>1. script' = script
  BY NextKeepsScript DEF vars
<1>2. Orderly /\ (Consecutive' <=> Consecutive) /\ (InMemory' <=> InMemory)
  BY <1>1, ScriptStays
<1>3. Typed /\ Ordered
  BY <1>2 DEF OrderlyInv
<1>4. CASE Next
  <2>1. BodiesTyped'
    BY <1>3, <1>4, NextKeepsBodies DEF Typed, Inv, Shape
  <2>2. PlacesTyped' /\ ValuesTyped' /\ CursorsTyped' /\ SegmentsTyped' /\ WalkTyped' /\ LoopTyped'
    BY <1>2, <1>3, <1>4, NextKeepsPlaces, NextKeepsValues, NextKeepsCursors, NextKeepsSegments,
       NextKeepsWalk, NextKeepsLoop
  <2>3. Ordered'
    BY <1>2, <1>3, <1>4, NextKeepsBehindCounter, NextKeepsBehindCursors DEF Ordered
  <2> QED BY <2>1, <2>2, <2>3 DEF Typed
<1>5. CASE UNCHANGED vars
  BY <1>3, <1>5, StutterKeepsOrderly
<1> QED BY <1>4, <1>5

\* The types and the number of segments give the type invariant.
LEMMA TypedImpliesTypeOK == Inv /\ Typed => TypeOK
<1> SUFFICES ASSUME Inv, Typed PROVE TypeOK
  OBVIOUS
<1>1. Len(script.sections) \in Nat /\ segments \in Nat
  BY SectionsAreNumbered DEF Inv, Shape
<1>2. segments \in 0..Len(script.sections)
  BY <1>1, HeldSegmentsAreFew
<1>3. value \in [Assignments -> Int]
  BY DEF Typed, ValuesTyped
<1> QED BY <1>2, <1>3
        DEF TypeOK, Typed, PlacesTyped, ValuesTyped, SourcesTyped, CursorsTyped, SegmentsTyped,
            WalkTyped, LoopTyped, Names

\* What the invariant says of two sections when the pass has ended.
LEMMA OrderedIsApart ==
  ASSUME Inv, Orderly, Typed, Ordered, RegionsContained, pc \in {"laid_out", "done"},
         NEW s \in Sections, NEW t \in Sections, s < t, Occupies(s), Occupies(t)
  PROVE  Apart(addr, s, t) /\ Apart(paddr, s, t)
<1>1. /\ script \in Scripts /\ PlacesTyped /\ CursorsTyped
      /\ Len(script.sections) \in Nat /\ Sections = 1..Len(script.sections)
      /\ walk.out = Len(script.sections) + 1
  BY SectionsAreNumbered DEF Typed, WalkTyped, Inv, Shape
<1>2. s \in Occupied /\ t \in Occupied
  <2>1. s < walk.out /\ t < walk.out
    BY <1>1
  <2> QED BY <2>1 DEF Occupied, Finished
<1>3. /\ addr[s] \in Nat /\ paddr[s] \in Nat /\ size[s] \in Nat
      /\ End(s) = addr[s] + size[s] /\ LoadEnd(s) = paddr[s] + size[s]
      /\ addr[t] \in Nat /\ paddr[t] \in Nat /\ size[t] \in Nat
      /\ End(t) = addr[t] + size[t] /\ LoadEnd(t) = paddr[t] + size[t]
  BY <1>1, NumbersAre
<1>4. CASE Consecutive
  <2>1. End(s) <= addr[t] /\ paddr[s] = addr[s] /\ paddr[t] = addr[t]
    BY <1>2, <1>4 DEF Ordered, BehindCounter
  <2> QED BY <1>3, <2>1 DEF Apart
<1>5. CASE InMemory
  <2> DEFINE Origin(r) == script.regions[r].origin
  <2>1. ASSUME NEW r \in DOMAIN cursor, NEW q \in DOMAIN cursor, r # q,
               NEW f \in Nat, NEW m \in Nat, NEW g \in Nat, NEW n \in Nat,
               Origin(r) <= f, f + m <= cursor[r], Origin(q) <= g, g + n <= cursor[q]
        PROVE  f + m <= g \/ g + n <= f
    <3>1. /\ RegionCursor(r) = cursor[r] /\ RegionCursor(q) = cursor[q]
          /\ cursor[r] \in Nat /\ cursor[q] \in Nat
      BY <1>1, <2>1 DEF RegionCursor, Unset, CursorsTyped
    <3>2. Origin(r) \in Nat /\ Origin(q) \in Nat
      BY <1>1, CursorIs DEF CursorsTyped
    <3>3. /\ Origin(r) # Origin(q)
          /\ Origin(r) < Origin(q) => RegionCursor(r) <= Origin(q)
          /\ Origin(q) < Origin(r) => RegionCursor(q) <= Origin(r)
      BY <1>1, <2>1 DEF RegionsContained, CursorsTyped
    <3> HIDE DEF Origin
    <3>4. CASE Origin(r) < Origin(q)
      BY <2>1, <3>1, <3>2, <3>3, <3>4
    <3>5. CASE Origin(q) < Origin(r)
      BY <2>1, <3>1, <3>2, <3>3, <3>5
    <3> QED BY <3>2, <3>3, <3>4, <3>5
  <2>2. /\ Section(s).region \in DOMAIN cursor /\ LoadRegion(s) \in DOMAIN cursor
        /\ Section(t).region \in DOMAIN cursor /\ LoadRegion(t) \in DOMAIN cursor
    BY <1>1, <1>5, RegionsAre
  <2>3. /\ Origin(Section(s).region) <= addr[s] /\ addr[s] + size[s] <= cursor[Section(s).region]
        /\ Origin(Section(t).region) <= addr[t] /\ addr[t] + size[t] <= cursor[Section(t).region]
        /\ Origin(LoadRegion(s)) <= paddr[s] /\ paddr[s] + size[s] <= cursor[LoadRegion(s)]
        /\ Origin(LoadRegion(t)) <= paddr[t] /\ paddr[t] + size[t] <= cursor[LoadRegion(t)]
        /\ Section(s).region = Section(t).region => addr[s] + size[s] <= addr[t]
        /\ LoadRegion(s) = LoadRegion(t) => paddr[s] + size[s] <= paddr[t]
    BY <1>2, <1>3, <1>5 DEF Ordered, BehindCursors
  <2> HIDE DEF Origin
  <2>4. addr[s] + size[s] <= addr[t] \/ addr[t] + size[t] <= addr[s]
    BY <1>3, <2>1, <2>2, <2>3
  <2>5. paddr[s] + size[s] <= paddr[t] \/ paddr[t] + size[t] <= paddr[s]
    BY <1>3, <2>1, <2>2, <2>3
  <2> QED BY <2>4, <2>5 DEF Apart
<1> QED BY <1>4, <1>5 DEF Orderly

\* The location counter, addresses, sizes, values and cursors of a layout are natural
\* numbers, its segments are at most as many as its sections and its passes at most
\* MaxIterations (GNULDBackend.cpp:3316), for every script of consecutive sections or of
\* sections in memory regions that moves the counter forward where it may move it: the
\* size of a section, which the code computes as a difference of unsigned addresses, does
\* not wrap around.
THEOREM TypeCorrect == Spec => [](Orderly => TypeOK)
<1>1. Init => Inv /\ OrderlyInv
  BY InitInv, InitTyped, InitOrdered DEF OrderlyInv
<1>2. Inv /\ OrderlyInv => (Orderly => TypeOK)
  BY TypedImpliesTypeOK DEF OrderlyInv
<1> QED BY <1>1, <1>2, NextInv, NextOrderly, PTL DEF Spec

\* Sections that the linker places (CreateProgramHeaders.hpp:322-395) do not overlap, in
\* memory or where they are loaded from, after any number of passes, restarts and
\* trampolines: consecutive ones always, those in memory regions when the regions are
\* apart and none has run into the next. (The LENGTH of a region does not hold the layout
\* back: that a region is too short is reported at the end, ScriptMemoryRegion.cpp:18-66.)
THEOREM LoadsApart == Spec => []((Orderly /\ RegionsContained) => LoadsDisjoint)
<1>1. Init => Inv /\ OrderlyInv
  BY InitInv, InitTyped, InitOrdered DEF OrderlyInv
<1>2. Inv /\ OrderlyInv => ((Orderly /\ RegionsContained) => LoadsDisjoint)
  BY OrderedIsApart DEF OrderlyInv, LoadsDisjoint, Converged
<1> QED BY <1>1, <1>2, NextInv, NextOrderly, PTL DEF Spec

------------------------------------------------------------------------------
\* Numbers that grow.

\* A greater number is aligned to one that is not less.
LEMMA AlignUpMonotone ==
  ASSUME NEW v \in Nat, NEW w \in Nat, v <= w, NEW a \in Nat \ {0}
  PROVE  AlignUp(v, a) <= AlignUp(w, a)
<1> DEFINE p == (v + a - 1) \div a
           q == (w + a - 1) \div a
<1>1. p \in Nat /\ q \in Nat
  OBVIOUS
<1>2. p <= q
  OBVIOUS
<1> HIDE DEF p, q
<1>3. p * a <= q * a
  BY <1>1, <1>2
<1> QED BY <1>3 DEF AlignUp, p, q

\* Behind an aligned address it is the same to align the address or the offset.
LEMMA AlignedOffset ==
  ASSUME NEW v \in Nat, NEW o \in Nat, NEW a \in Nat \ {0}
  PROVE  AlignUp(AlignUp(v, a) + o, a) = AlignUp(v, a) + AlignUp(o, a)
<1> DEFINE k == (v + a - 1) \div a
           n == o + a - 1
<1>1. k \in Nat /\ n \in Nat
  OBVIOUS
<1>2. AlignUp(v, a) = k * a /\ AlignUp(o, a) = (n \div a) * a
  BY DEF AlignUp
<1>3. AlignUp(AlignUp(v, a) + o, a) = ((k * a + n) \div a) * a
  <2>1. k * a \in Nat
    BY <1>1
  <2>2. k * a + o + a - 1 = k * a + n
    BY <2>1
  <2> QED BY <1>2, <2>2 DEF AlignUp
<1> HIDE DEF k, n
<1>4. (k * a + n) \div a = k + (n \div a)
  BY <1>1
<1>5. n \div a \in Nat
  BY <1>1
<1>6. (k + (n \div a)) * a = k * a + (n \div a) * a
  BY <1>1, <1>5
<1> QED BY <1>2, <1>3, <1>4, <1>6

\* The greater the numbers, the greater the sum.
LEMMA SumMonotone ==
  ASSUME NEW f, NEW g, IsFiniteSet(DOMAIN f), DOMAIN g = DOMAIN f,
         \A i \in DOMAIN f : f[i] \in Nat /\ g[i] \in Nat /\ f[i] <= g[i]
  PROVE  FoldFunction(+, 0, f) <= FoldFunction(+, 0, g)
<1> DEFINE S == DOMAIN f
<1>1. FoldFunction(+, 0, f) = Cardinality(Pairs(f, S)) /\ FoldFunction(+, 0, g) = Cardinality(Pairs(g, S))
  BY SumIsPairs
<1>2. IsFiniteSet(Pairs(g, S))
  BY PairsFinite
<1>3. Pairs(f, S) \subseteq Pairs(g, S)
  BY DEF Pairs
<1> QED BY <1>1, <1>2, <1>3, FS_Subset

\* What an expression reads of two states.
ReadsLess(e, v, w) ==
  /\ Asks(e, "dot") \/ Asks(e, "align") => v.dot <= w.dot
  /\ \A i \in DOMAIN e :
       /\ e[i].op = "symbol" => v.value[v.means[e[i].sym]] <= w.value[w.means[e[i].sym]]
       /\ e[i].op = "addr" => v.addr[e[i].sect] <= w.addr[e[i].sect]
       /\ e[i].op = "loadaddr" => v.paddr[e[i].sect] <= w.paddr[e[i].sect]
       /\ e[i].op = "sizeof" => v.size[e[i].sect] <= w.size[e[i].sect]

ReadsNaturals(p, e, v) ==
  /\ v.dot \in Nat
  /\ \A s \in DOMAIN p.sections : v.addr[s] \in Nat /\ v.paddr[s] \in Nat /\ v.size[s] \in Nat
  /\ \A x \in NamesIn(e) : v.value[v.means[x]] \in Nat

\* An expression that reads no less is worth no less.
LEMMA ExpressionMonotone ==
  ASSUME NEW p, NEW e, ExpressionFits(p, e), NEW v, NEW w,
         ReadsNaturals(p, e, v), ReadsNaturals(p, e, w), ReadsLess(e, v, w)
  PROVE  Evaluate(e, v) <= Evaluate(e, w)
<1> DEFINE f == [i \in DOMAIN e |-> TermValue(e[i], v)]
           g == [i \in DOMAIN e |-> TermValue(e[i], w)]
<1>1. IsFiniteSet(DOMAIN f)
  <2>1. Len(e) \in Nat /\ DOMAIN f = 1..Len(e)
    BY DEF ExpressionFits
  <2> HIDE DEF f
  <2> QED BY <2>1, FS_Interval
<1>2. ASSUME NEW i \in DOMAIN e
      PROVE  f[i] \in Nat /\ g[i] \in Nat /\ f[i] <= g[i]
  <2> DEFINE t == e[i]
  <2>1. TermFits(p, t)
    BY DEF ExpressionFits
  <2>2. t.op = "symbol" => t.sym \in NamesIn(e)
    BY <2>1 DEF TermFits, NamesIn
  <2>3. TermValue(t, v) \in Nat /\ TermValue(t, w) \in Nat
    BY <2>1, <2>2, TermIsNatural DEF ReadsNaturals
  <2>4. CASE t.op \in {"dot", "align"}
    <3>1. v.dot \in Nat /\ w.dot \in Nat /\ v.dot <= w.dot
      BY <2>4 DEF ReadsLess, ReadsNaturals, Asks
    <3>2. t.op = "align" => t.n \in Nat \ {0}
      BY <2>1 DEF TermFits
    <3>3. t.op = "align" => AlignUp(v.dot, t.n) <= AlignUp(w.dot, t.n)
      BY <3>1, <3>2, AlignUpMonotone
    <3> QED BY <2>3, <2>4, <3>1, <3>3 DEF TermValue
  <2>5. CASE t.op = "constant"
    BY <2>3, <2>5 DEF TermValue
  <2>6. CASE t.op \in {"symbol", "addr", "loadaddr", "sizeof"}
    BY <2>3, <2>6 DEF TermValue, ReadsLess
  <2> QED BY <2>1, <2>3, <2>4, <2>5, <2>6 DEF TermFits
<1>3. Evaluate(e, v) = FoldFunction(+, 0, f) /\ Evaluate(e, w) = FoldFunction(+, 0, g)
  BY DEF Evaluate
<1>4. DOMAIN f = DOMAIN e /\ DOMAIN g = DOMAIN e
  OBVIOUS
<1> HIDE DEF f, g
<1> QED BY <1>1, <1>2, <1>3, <1>4, SumMonotone

\* An expression that reads the same is worth the same.
LEMMA ExpressionAlike ==
  ASSUME NEW e, NEW v, NEW w,
         \A i \in DOMAIN e : TermValue(e[i], v) = TermValue(e[i], w)
  PROVE  Evaluate(e, v) = Evaluate(e, w)
<1>1. [i \in DOMAIN e |-> TermValue(e[i], v)] = [i \in DOMAIN e |-> TermValue(e[i], w)]
  OBVIOUS
<1> QED BY <1>1 DEF Evaluate

------------------------------------------------------------------------------
\* Scripts in which nothing shrinks.

AsksSizeOf(a, s) == \E i \in DOMAIN Assigned(a).expr :
  Assigned(a).expr[i].op = "sizeof" /\ Assigned(a).expr[i].sect = s

\* The counter is not assigned in the section.
Rigid(s) ==
  \A i \in DOMAIN Section(s).body :
    Section(s).body[i].op = "assign" => Assigned(Section(s).body[i].n).name # "."

\* Every section is loaded where it lies, and a size is asked only of a section in
\* which the counter is not assigned, and not inside of it: there it is the part
\* before the assignment.
Growing ==
  /\ Orderly
  /\ \A s \in Sections : Loaded(s) /\ ~HasLoadRegion(s)
  /\ \A s \in Sections, a \in Assignments : AsksSizeOf(a, s) =>
       /\ Rigid(s)
       /\ \A i \in DOMAIN Section(s).body :
            Section(s).body[i].op = "assign" => Section(s).body[i].n # a

\* The points of a pass: in front of a section, of an item of a section, of an
\* assignment behind a section; those before the sections are behind section 0.
Point == Nat \X Nat \X Nat

AfterOf(s) == IF s = 0 THEN script.before ELSE Section(s).after

Points(b) ==
  {q \in Point :
     \/ q[2] = 1 /\ q[1] \in Sections /\ q[3] = 1
     \/ q[2] = 2 /\ q[1] \in Sections /\ q[3] \in 1..Len(b[q[1]]) + 1
     \/ q[2] = 3 /\ q[1] \in 0..Len(script.sections) /\ q[3] \in 1..Len(AfterOf(q[1])) + 1}

Walking == pc \in {"before", "place", "body", "after"}

Here ==
  CASE pc = "before" -> <<0, 3, walk.item>>
    [] pc = "place"  -> <<walk.out, 1, 1>>
    [] pc = "body"   -> <<walk.out, 2, walk.item>>
    [] OTHER         -> <<walk.out, 3, walk.item>>

\* The assignment at a point, 0 if there is none.
Standing(b, q) ==
  IF q[2] = 3 /\ q[3] <= Len(AfterOf(q[1])) THEN AfterOf(q[1])[q[3]]
  ELSE IF q[2] = 2 /\ q[3] <= Len(b[q[1]]) /\ b[q[1]][q[3]].op = "assign" THEN b[q[1]][q[3]].n
  ELSE 0

Following(b, q) ==
  IF q[2] = 1 THEN <<q[1], 2, 1>>
  ELSE IF q[2] = 2 THEN IF q[3] <= Len(b[q[1]]) THEN <<q[1], 2, q[3] + 1>> ELSE <<q[1], 3, 1>>
  ELSE IF q[3] <= Len(AfterOf(q[1])) THEN <<q[1], 3, q[3] + 1>> ELSE <<q[1] + 1, 1, 1>>

\* d is the counter at each point when the walk was there last, z the sizes of
\* sections when they were finished last, v the values.

At(d) == [s \in Sections |-> d[<<s, 2, 1>>]]

Hindmost(T) == CHOOSE t \in T : \A u \in T : u <= t

InRegion(r, k) == {t \in Sections : t <= k /\ Section(t).region = r}

\* The cursor of a region behind the sections up to k.
CursorAt(d, r, k) ==
  IF InRegion(r, k) = {} THEN script.regions[r].origin ELSE d[<<Hindmost(InRegion(r, k)), 3, 1>>]

StartAt(d, s) ==
  IF Section(s).region = 0 THEN d[<<s, 1, 1>>] ELSE CursorAt(d, Section(s).region, s - 1)

Env(a, p, d, z, v) ==
  [dot |-> p, addr |-> At(d), paddr |-> At(d), size |-> z, value |-> v,
   means |-> [x \in NamesIn(Assigned(a).expr) |-> MeantBy(a, x)]]

Worth(a, p, d, z, v) == Evaluate(Assigned(a).expr, Env(a, p, d, z, v))

\* The counter at the next point.
Reached(b, d, z, v, q) ==
  IF q[2] = 1 THEN AlignUp(StartAt(d, q[1]), Section(q[1]).align)
  ELSE IF Standing(b, q) # 0
       THEN IF Assigned(Standing(b, q)).name = "." THEN Worth(Standing(b, q), d[q], d, z, v) ELSE d[q]
  ELSE IF q[2] = 2 /\ q[3] <= Len(b[q[1]]) THEN AlignUp(d[q], Section(q[1]).align) + b[q[1]][q[3]].n
  ELSE IF q[2] = 2 /\ IsTBSS(q[1]) THEN d[<<q[1], 2, 1>>]
  ELSE d[q]

\* What stands would be no less if it were evaluated now.
Sound(b, d, z, v) ==
  /\ \A q \in Points(b) : d[Following(b, q)] <= Reached(b, d, z, v, q)
  /\ \A q \in Points(b) : Standing(b, q) # 0 =>
       v[Standing(b, q)] <= Worth(Standing(b, q), d[q], d, z, v)

\* Each assignment stands at one point, in the order of the points.
Arranged(b) ==
  /\ \A a \in Assignments : \E q \in Points(b) : Standing(b, q) = a
  /\ \A q, r \in Points(b) :
       Standing(b, q) # 0 /\ Standing(b, r) # 0 /\ Precedes(q, r) => Standing(b, q) < Standing(b, r)

Counters == [Point -> Nat]
Sizes    == [Sections -> Nat]
Values   == [Assignments -> Nat]
Contents == [Sections -> Seq(Items)]

------------------------------------------------------------------------------
\* Points.

\* What follows a point.
LEMMA PointIs ==
  ASSUME script \in Scripts, NEW b \in Contents, NEW q \in Points(b)
  PROVE  /\ q \in Point /\ q = <<q[1], q[2], q[3]>>
         /\ Following(b, q) \in Points(b) \cup {<<Len(script.sections) + 1, 1, 1>>}
         /\ Following(b, q) \in Point
         /\ Following(b, q) # <<0, 3, 1>>
         /\ Standing(b, q) \in Assignments \cup {0}
         /\ Standing(b, q) # 0 => Following(b, q) = <<q[1], q[2], q[3] + 1>> /\ q[2] # 1
<1> DEFINE N == Len(script.sections)
<1>1. N \in Nat /\ Sections = 1..N
  BY SectionsAreNumbered
<1>2. \A s \in 0..N : AfterOf(s) \in Seq(Assignments)
  BY <1>1, SectionIs, LayoutAssumption DEF LayoutAssumption, AfterOf, Assignments
<1>3. \A s \in Sections : b[s] \in Seq(Items)
  BY DEF Contents
<1>4. \A s \in Sections : Len(b[s]) \in Nat /\ \A i \in 1..Len(b[s]) : b[s][i] \in Items
  BY <1>3
<1>5. \A s \in 0..N : Len(AfterOf(s)) \in Nat /\ \A i \in 1..Len(AfterOf(s)) : AfterOf(s)[i] \in Assignments
  BY <1>2
<1> HIDE DEF N
<1>6. q \in Point /\ q = <<q[1], q[2], q[3]>> /\ q[1] \in Nat /\ q[2] \in Nat /\ q[3] \in Nat
  BY DEF Points, Point
<1>7. CASE q[2] = 1
  <2>1. q[1] \in Sections /\ q[3] = 1 /\ Following(b, q) = <<q[1], 2, 1>> /\ Standing(b, q) = 0
    BY <1>7 DEF Points, Following, Standing
  <2>2. Following(b, q) \in Point
    BY <1>1, <2>1 DEF Point
  <2>3. Following(b, q) \in Points(b)
    BY <1>4, <2>1, <2>2 DEF Points
  <2> QED BY <1>6, <2>1, <2>2, <2>3
<1>8. CASE q[2] = 2
  <2>1. q[1] \in Sections /\ q[3] \in 1..Len(b[q[1]]) + 1
    BY <1>8 DEF Points
  <2>2. CASE q[3] <= Len(b[q[1]])
    <3>1. Following(b, q) = <<q[1], 2, q[3] + 1>>
      BY <1>8, <2>2 DEF Following
    <3>2. Following(b, q) \in Point
      BY <1>6, <3>1 DEF Point
    <3>3. q[3] + 1 \in 1..Len(b[q[1]]) + 1
      BY <1>4, <2>1, <2>2
    <3>4. Following(b, q) \in Points(b)
      BY <2>1, <3>1, <3>2, <3>3 DEF Points
    <3>5. q[3] \in 1..Len(b[q[1]])
      BY <1>4, <2>1, <2>2
    <3>6. b[q[1]][q[3]] \in Items
      BY <1>4, <2>1, <3>5
    <3>7. Standing(b, q) \in Assignments \cup {0}
      BY <1>8, <3>6 DEF Standing, Items
    <3> QED BY <1>6, <1>8, <3>1, <3>2, <3>4, <3>7
  <2>3. CASE ~(q[3] <= Len(b[q[1]]))
    <3>1. Following(b, q) = <<q[1], 3, 1>> /\ Standing(b, q) = 0
      BY <1>8, <2>3 DEF Following, Standing
    <3>2. Following(b, q) \in Point /\ q[1] \in 0..N /\ q[1] # 0
      BY <1>1, <1>6, <2>1, <3>1 DEF Point
    <3>3. 1 \in 1..Len(AfterOf(q[1])) + 1
      BY <1>5, <3>2
    <3>4. Following(b, q) \in Points(b)
      BY <3>1, <3>2, <3>3 DEF Points, N
    <3> QED BY <1>6, <3>1, <3>2, <3>4
  <2> QED BY <2>2, <2>3
<1>9. CASE q[2] = 3
  <2>1. q[1] \in 0..N /\ q[3] \in 1..Len(AfterOf(q[1])) + 1
    BY <1>9 DEF Points, N
  <2>2. CASE q[3] <= Len(AfterOf(q[1]))
    <3>1. Following(b, q) = <<q[1], 3, q[3] + 1>>
      BY <1>9, <2>2 DEF Following
    <3>2. Following(b, q) \in Point
      BY <1>6, <3>1 DEF Point
    <3>3. q[3] + 1 \in 1..Len(AfterOf(q[1])) + 1 /\ q[3] \in 1..Len(AfterOf(q[1])) /\ q[3] + 1 # 1
      BY <1>5, <2>1, <2>2
    <3>4. Following(b, q) \in Points(b)
      BY <2>1, <3>1, <3>2, <3>3 DEF Points, N
    <3>5. Standing(b, q) \in Assignments
      BY <1>5, <1>9, <2>1, <2>2, <3>3 DEF Standing
    <3> QED BY <1>6, <1>9, <3>1, <3>2, <3>3, <3>4, <3>5
  <2>3. CASE ~(q[3] <= Len(AfterOf(q[1])))
    <3>1. Following(b, q) = <<q[1] + 1, 1, 1>> /\ Standing(b, q) = 0
      BY <1>9, <2>3 DEF Following, Standing
    <3>2. Following(b, q) \in Point
      BY <1>6, <3>1 DEF Point
    <3>3. q[1] + 1 \in Sections \/ q[1] + 1 = N + 1
      BY <1>1, <2>1
    <3>4. Following(b, q) \in Points(b) \cup {<<N + 1, 1, 1>>}
      BY <3>1, <3>2, <3>3 DEF Points
    <3> QED BY <1>6, <3>1, <3>2, <3>4 DEF N
  <2> QED BY <2>2, <2>3
<1> QED BY <1>7, <1>8, <1>9 DEF Points

\* Between a point and the one that follows it there is none.
LEMMA NothingBetween ==
  ASSUME script \in Scripts, NEW b \in Contents, NEW q \in Points(b), NEW r \in Points(b)
  PROVE  /\ Precedes(r, Following(b, q)) <=> r = q \/ Precedes(r, q)
         /\ r # q => Precedes(r, q) \/ Precedes(q, r)
         /\ ~(Precedes(r, q) /\ Precedes(q, r)) /\ ~Precedes(q, q)
         /\ ~Precedes(q, <<0, 3, 1>>)
<1> DEFINE N == Len(script.sections)
<1>1. N \in Nat /\ Sections = 1..N
  BY SectionsAreNumbered
<1>2. \A s \in Sections : Len(b[s]) \in Nat
  BY DEF Contents
<1>3. \A s \in 0..N : Len(AfterOf(s)) \in Nat
  BY <1>1, SectionIs, LayoutAssumption DEF LayoutAssumption, AfterOf
<1>4. /\ q = <<q[1], q[2], q[3]>> /\ q[1] \in Nat /\ q[2] \in Nat /\ q[3] \in Nat
      /\ r = <<r[1], r[2], r[3]>> /\ r[1] \in Nat /\ r[2] \in Nat /\ r[3] \in Nat
  BY DEF Points, Point
<1>5. r # q <=> r[1] # q[1] \/ r[2] # q[2] \/ r[3] # q[3]
  BY <1>4
<1>6. /\ r # q => Precedes(r, q) \/ Precedes(q, r)
      /\ ~(Precedes(r, q) /\ Precedes(q, r)) /\ ~Precedes(q, q)
  BY <1>4, <1>5 DEF Precedes
<1>7. ~Precedes(q, <<0, 3, 1>>)
  <2>1. q[1] \in Sections \/ (q[1] = 0 /\ q[2] = 3 /\ q[3] >= 1) \/ q[1] > 0
    BY <1>3, <1>4 DEF Points
  <2> QED BY <1>1, <1>4, <2>1 DEF Precedes
<1>8. r[1] = q[1] /\ r[2] = q[2] /\ q[2] = 2 => r[3] <= Len(b[q[1]]) + 1 /\ Len(b[q[1]]) \in Nat /\ r[3] >= 1
  BY <1>2, <1>4 DEF Points
<1>9. r[1] = q[1] /\ r[2] = q[2] /\ q[2] = 3 => r[3] <= Len(AfterOf(q[1])) + 1 /\ Len(AfterOf(q[1])) \in Nat /\ r[3] >= 1
  BY <1>3, <1>4 DEF Points
<1>10. r[2] \in 1..3 /\ (r[2] = 1 => r[3] = 1) /\ r[3] >= 1 /\ q[3] >= 1
  <2>1. (q[2] = 2 => q[1] \in Sections) /\ (r[2] = 2 => r[1] \in Sections)
    BY DEF Points
  <2> QED BY <1>2, <1>3, <1>4, <2>1 DEF Points
<1>11. Precedes(r, Following(b, q)) <=> r = q \/ Precedes(r, q)
  <2>1. CASE q[2] = 1
    <3>1. Following(b, q) = <<q[1], 2, 1>> /\ q[3] = 1
      BY <2>1 DEF Following, Points
    <3> QED BY <1>4, <1>5, <1>10, <2>1, <3>1 DEF Precedes
  <2>2. CASE q[2] = 2 /\ q[3] <= Len(b[q[1]])
    <3>1. Following(b, q) = <<q[1], 2, q[3] + 1>>
      BY <2>2 DEF Following
    <3> QED BY <1>4, <1>5, <1>10, <2>2, <3>1 DEF Precedes
  <2>3. CASE q[2] = 2 /\ ~(q[3] <= Len(b[q[1]]))
    <3>1. Following(b, q) = <<q[1], 3, 1>> /\ q[3] = Len(b[q[1]]) + 1
      BY <1>2, <2>3 DEF Following, Points
    <3> QED BY <1>4, <1>5, <1>8, <1>10, <2>3, <3>1 DEF Precedes
  <2>4. CASE q[2] = 3 /\ q[3] <= Len(AfterOf(q[1]))
    <3>1. Following(b, q) = <<q[1], 3, q[3] + 1>>
      BY <2>4 DEF Following
    <3> QED BY <1>4, <1>5, <1>10, <2>4, <3>1 DEF Precedes
  <2>5. CASE q[2] = 3 /\ ~(q[3] <= Len(AfterOf(q[1])))
    <3>1. Following(b, q) = <<q[1] + 1, 1, 1>> /\ q[3] = Len(AfterOf(q[1])) + 1
      BY <1>3, <2>5 DEF Following, Points
    <3> QED BY <1>4, <1>5, <1>9, <1>10, <2>5, <3>1 DEF Precedes
  <2> QED BY <2>1, <2>2, <2>3, <2>4, <2>5 DEF Points
<1> QED BY <1>6, <1>7, <1>11

\* Different points are followed by different ones.
LEMMA FollowingDiffers ==
  ASSUME script \in Scripts, NEW b \in Contents, NEW q \in Points(b), NEW r \in Points(b),
         Following(b, q) = Following(b, r)
  PROVE  q = r
<1>1. Precedes(q, Following(b, r)) /\ Precedes(r, Following(b, q))
  BY NothingBetween
<1> QED BY <1>1, NothingBetween

\* An assignment stands at one point.
LEMMA StandsOnce ==
  ASSUME script \in Scripts, NEW b \in Contents, Arranged(b), NEW q \in Points(b), NEW r \in Points(b),
         Standing(b, q) # 0, Standing(b, q) = Standing(b, r)
  PROVE  q = r
<1>1. Standing(b, q) \in Nat
  <2>1. Standing(b, q) \in Assignments
    BY PointIs
  <2> QED BY <2>1, LayoutAssumption DEF LayoutAssumption, Assignments
<1> QED BY <1>1, NothingBetween DEF Arranged

------------------------------------------------------------------------------
\* What is less stays less.

\* Numbers up to a bound have a greatest one.
LEMMA HindmostIs ==
  ASSUME NEW n \in Nat, NEW S, S \subseteq 1..n, S # {}
  PROVE  Hindmost(S) \in S /\ \A u \in S : u <= Hindmost(S)
<1> DEFINE T == {n - a : a \in S}
<1>1. \E t \in T : \A u \in T : t <= u
  <2>1. T # {}
    OBVIOUS
  <2>2. \A a \in S : n - a \in Nat
    OBVIOUS
  <2>3. T \subseteq Nat
    BY <2>2
  <2> HIDE DEF T
  <2> QED BY <2>1, <2>3, LeastNatural
<1>2. PICK a \in S : \A b \in S : n - a <= n - b
  BY <1>1
<1>3. \A b \in S : b <= a
  <2> SUFFICES ASSUME NEW b \in S PROVE b <= a
    OBVIOUS
  <2>1. a \in Int /\ b \in Int /\ n - a <= n - b
    BY <1>2
  <2> QED BY <2>1
<1> QED BY <1>3 DEF Hindmost

\* A name stands for an assignment.
LEMMA MeantIsAssigned ==
  ASSUME script \in Scripts, NEW a \in Assignments, NEW x \in Names
  PROVE  MeantBy(a, x) \in Assignments
<1> DEFINE before == {b \in Assignments : Assigned(b).name = x /\ b < a}
<1>1. CASE before = {}
  BY <1>1, LastIsAssigned DEF MeantBy
<1>2. CASE before # {}
  <2>1. before \subseteq 1..Len(script.assignments) /\ Len(script.assignments) \in Nat
    BY LayoutAssumption DEF LayoutAssumption, Assignments
  <2>2. MeantBy(a, x) = Hindmost(before)
    BY <1>2 DEF MeantBy, Hindmost
  <2> HIDE DEF before
  <2>3. Hindmost(before) \in before
    BY <1>2, <2>1, HindmostIs
  <2> QED BY <2>2, <2>3 DEF before
<1> QED BY <1>1, <1>2

\* What is read when an assignment is evaluated.
LEMMA EnvIs ==
  ASSUME script \in Scripts, NEW a \in Assignments, NEW p \in Nat,
         NEW d \in Counters, NEW z \in Sizes, NEW v \in Values
  PROVE  /\ ExpressionFits(script, Assigned(a).expr)
         /\ ReadsNaturals(script, Assigned(a).expr, Env(a, p, d, z, v))
         /\ \A x \in NamesIn(Assigned(a).expr) : MeantBy(a, x) \in Assignments
<1>1. ExpressionFits(script, Assigned(a).expr)
  BY LayoutAssumption DEF LayoutAssumption, Assigned, Assignments
<1>2. \A x \in NamesIn(Assigned(a).expr) : MeantBy(a, x) \in Assignments
  BY <1>1, NamesAreAssigned, MeantIsAssigned
<1>3. ASSUME NEW s \in Sections PROVE d[<<s, 2, 1>>] \in Nat
  <2>1. <<s, 2, 1>> \in Point
    BY SectionsAreNumbered DEF Point
  <2> QED BY <2>1 DEF Counters
<1>4. ReadsNaturals(script, Assigned(a).expr, Env(a, p, d, z, v))
  BY <1>2, <1>3 DEF ReadsNaturals, Env, At, Sizes, Values, Sections
<1> QED BY <1>1, <1>2, <1>4

\* Its value is a number.
LEMMA WorthIsNatural ==
  ASSUME script \in Scripts, NEW a \in Assignments, NEW p \in Nat,
         NEW d \in Counters, NEW z \in Sizes, NEW v \in Values
  PROVE  Worth(a, p, d, z, v) \in Nat
BY EnvIs, ExpressionIsNatural DEF ReadsNaturals, Worth

\* It is worth no less when nothing that it may read is less.
LEMMA WorthMonotone ==
  ASSUME script \in Scripts, NEW a \in Assignments, NEW p \in Nat, NEW p2 \in Nat, p <= p2,
         NEW d \in Counters, NEW z \in Sizes, NEW v \in Values,
         NEW d2 \in Counters, NEW z2 \in Sizes, NEW v2 \in Values,
         \A q \in Point : d[q] <= d2[q], \A s \in Sections : z[s] <= z2[s],
         \A b \in Assignments : v[b] <= v2[b]
  PROVE  Worth(a, p, d, z, v) <= Worth(a, p2, d2, z2, v2)
<1> DEFINE e == Assigned(a).expr
           env == Env(a, p, d, z, v)
           env2 == Env(a, p2, d2, z2, v2)
<1>1. /\ ExpressionFits(script, e)
      /\ ReadsNaturals(script, e, env) /\ ReadsNaturals(script, e, env2)
      /\ \A x \in NamesIn(e) : MeantBy(a, x) \in Assignments
  BY EnvIs
<1>2. ASSUME NEW i \in DOMAIN e
      PROVE  /\ e[i].op = "symbol" => e[i].sym \in NamesIn(e)
             /\ e[i].op \in {"addr", "loadaddr", "sizeof"} => e[i].sect \in Sections
  BY <1>1, <1>2 DEF ExpressionFits, TermFits, NamesIn, Sections
<1>3. ASSUME NEW s \in Sections PROVE At(d)[s] <= At(d2)[s]
  <2>1. <<s, 2, 1>> \in Point
    BY SectionsAreNumbered DEF Point
  <2> QED BY <2>1 DEF At
<1>4. ReadsLess(e, env, env2)
  <2>1. env.dot <= env2.dot
    BY DEF Env
  <2>2. ASSUME NEW i \in DOMAIN e
        PROVE /\ e[i].op = "symbol" => env.value[env.means[e[i].sym]] <= env2.value[env2.means[e[i].sym]]
              /\ e[i].op = "addr" => env.addr[e[i].sect] <= env2.addr[e[i].sect]
              /\ e[i].op = "loadaddr" => env.paddr[e[i].sect] <= env2.paddr[e[i].sect]
              /\ e[i].op = "sizeof" => env.size[e[i].sect] <= env2.size[e[i].sect]
    <3> DEFINE t == e[i]
    <3>1. t.op = "symbol" => t.sym \in NamesIn(e) /\ MeantBy(a, t.sym) \in Assignments
      BY <1>1, <1>2
    <3>2. t.op \in {"addr", "loadaddr", "sizeof"} => t.sect \in Sections
      BY <1>2
    <3> HIDE DEF t
    <3>3. t.op = "symbol" => env.value[env.means[t.sym]] <= env2.value[env2.means[t.sym]]
      BY <3>1 DEF Env
    <3>4. t.op \in {"addr", "loadaddr", "sizeof"} =>
            /\ env.addr[t.sect] <= env2.addr[t.sect] /\ env.paddr[t.sect] <= env2.paddr[t.sect]
            /\ env.size[t.sect] <= env2.size[t.sect]
      BY <1>3, <3>2 DEF Env
    <3> QED BY <3>3, <3>4 DEF t
  <2> HIDE DEF env, env2, e
  <2> QED BY <2>1, <2>2 DEF ReadsLess
<1> HIDE DEF env, env2, e
<1>5. Evaluate(e, env) <= Evaluate(e, env2)
  BY <1>1, <1>4, ExpressionMonotone
<1> QED BY <1>5 DEF Worth, e, env, env2

\* The cursor of a region, and where a section starts.
LEMMA StartIs ==
  ASSUME script \in Scripts, NEW d \in Counters, NEW d2 \in Counters, \A q \in Point : d[q] <= d2[q]
  PROVE  /\ \A r \in DOMAIN script.regions, k \in Int :
              CursorAt(d, r, k) \in Nat /\ CursorAt(d, r, k) <= CursorAt(d2, r, k)
         /\ \A s \in Sections : StartAt(d, s) \in Nat /\ StartAt(d, s) <= StartAt(d2, s)
<1>1. \A r \in DOMAIN script.regions : script.regions[r].origin \in Nat
  BY LayoutAssumption DEF LayoutAssumption
<1>2. ASSUME NEW r \in DOMAIN script.regions, NEW k \in Int
      PROVE  CursorAt(d, r, k) \in Nat /\ CursorAt(d, r, k) <= CursorAt(d2, r, k)
  <2>1. CASE InRegion(r, k) = {}
    <3>1. CursorAt(d, r, k) = script.regions[r].origin /\ CursorAt(d2, r, k) = script.regions[r].origin
      BY <2>1 DEF CursorAt
    <3> QED BY <1>1, <3>1
  <2>2. CASE InRegion(r, k) # {}
    <3>1. InRegion(r, k) \subseteq 1..Len(script.sections) /\ Len(script.sections) \in Nat
      BY SectionsAreNumbered DEF InRegion
    <3>2. Hindmost(InRegion(r, k)) \in InRegion(r, k)
      BY <2>2, <3>1, HindmostIs
    <3>3. <<Hindmost(InRegion(r, k)), 3, 1>> \in Point
      BY <3>1, <3>2 DEF Point
    <3> QED BY <2>2, <3>3 DEF CursorAt, Counters
  <2> QED BY <2>1, <2>2
<1>3. ASSUME NEW s \in Sections PROVE StartAt(d, s) \in Nat /\ StartAt(d, s) <= StartAt(d2, s)
  <2>1. s \in Nat /\ s - 1 \in Int /\ <<s, 1, 1>> \in Point
    BY SectionsAreNumbered DEF Point
  <2>2. Section(s).region # 0 => Section(s).region \in DOMAIN script.regions
    BY SectionIs
  <2> QED BY <1>2, <2>1, <2>2 DEF StartAt, Counters
<1> QED BY <1>2, <1>3

\* The bytes at a point.
LEMMA BytesAre ==
  ASSUME script \in Scripts, NEW b \in Contents, NEW q \in Points(b),
         q[2] = 2, q[3] <= Len(b[q[1]]), Standing(b, q) = 0
  PROVE  b[q[1]][q[3]].n \in Nat
<1>1. q[1] \in Sections
  BY DEF Points
<1>2. b[q[1]] \in Seq(Items) /\ q[3] \in 1..Len(b[q[1]])
  BY <1>1 DEF Contents, Points
<1>3. b[q[1]][q[3]] \in Items
  BY <1>2
<1>4. Assignments \subseteq Nat
  BY LayoutAssumption DEF LayoutAssumption, Assignments
<1> QED BY <1>3, <1>4 DEF Items

\* The counter at the next point is a number.
LEMMA ReachedIsNatural ==
  ASSUME script \in Scripts, NEW b \in Contents, NEW q \in Points(b),
         NEW d \in Counters, NEW z \in Sizes, NEW v \in Values
  PROVE  Reached(b, d, z, v, q) \in Nat
<1>1. d[q] \in Nat /\ \A s \in Sections : d[<<s, 2, 1>>] \in Nat
  <2>1. \A s \in Sections : <<s, 2, 1>> \in Point
    BY SectionsAreNumbered DEF Point
  <2> QED BY <2>1, PointIs DEF Counters
<1>2. Standing(b, q) # 0 => Worth(Standing(b, q), d[q], d, z, v) \in Nat
  BY <1>1, PointIs, WorthIsNatural
<1>3. q[2] \in {1, 2} => q[1] \in Sections /\ Section(q[1]).align \in Nat \ {0}
  BY SectionIs DEF Points
<1>4. q[2] = 1 => AlignUp(StartAt(d, q[1]), Section(q[1]).align) \in Nat
  <2>1. \A p \in Point : d[p] <= d[p]
    BY DEF Counters
  <2> QED BY <1>3, <2>1, StartIs, AlignUpIs
<1>5. q[2] = 2 => AlignUp(d[q], Section(q[1]).align) \in Nat
  BY <1>1, <1>3, AlignUpIs
<1>6. q[2] = 2 /\ q[3] <= Len(b[q[1]]) /\ Standing(b, q) = 0 => b[q[1]][q[3]].n \in Nat
  BY BytesAre
<1> QED BY <1>1, <1>2, <1>3, <1>4, <1>5, <1>6 DEF Reached

\* It is greater when everything else is.
LEMMA ReachedMonotone ==
  ASSUME script \in Scripts, NEW b \in Contents, NEW q \in Points(b),
         NEW d \in Counters, NEW z \in Sizes, NEW v \in Values,
         NEW d2 \in Counters, NEW z2 \in Sizes, NEW v2 \in Values,
         \A r \in Point : d[r] <= d2[r], \A s \in Sections : z[s] <= z2[s],
         \A a \in Assignments : v[a] <= v2[a]
  PROVE  Reached(b, d, z, v, q) <= Reached(b, d2, z2, v2, q)
<1>1. q \in Point /\ d[q] \in Nat /\ d2[q] \in Nat /\ d[q] <= d2[q]
  BY PointIs DEF Counters
<1>2. Standing(b, q) # 0 => Worth(Standing(b, q), d[q], d, z, v) <= Worth(Standing(b, q), d2[q], d2, z2, v2)
  BY <1>1, PointIs, WorthMonotone
<1>3. q[2] \in {1, 2} => q[1] \in Sections /\ Section(q[1]).align \in Nat \ {0} /\ <<q[1], 2, 1>> \in Point
  BY SectionIs, SectionsAreNumbered DEF Points, Point
<1>4. q[2] = 1 => AlignUp(StartAt(d, q[1]), Section(q[1]).align) <= AlignUp(StartAt(d2, q[1]), Section(q[1]).align)
  <2>1. \A p \in Point : d2[p] <= d2[p]
    BY DEF Counters
  <2>2. q[2] = 1 => StartAt(d, q[1]) \in Nat /\ StartAt(d2, q[1]) \in Nat /\ StartAt(d, q[1]) <= StartAt(d2, q[1])
    BY <1>3, <2>1, StartIs
  <2> QED BY <1>3, <2>2, AlignUpMonotone
<1>5. q[2] = 2 => AlignUp(d[q], Section(q[1]).align) <= AlignUp(d2[q], Section(q[1]).align)
  BY <1>1, <1>3, AlignUpMonotone
<1>6. Reached(b, d, z, v, q) \in Nat /\ Reached(b, d2, z2, v2, q) \in Nat
  BY ReachedIsNatural
<1>7. q[2] = 2 => AlignUp(d[q], Section(q[1]).align) \in Nat /\ AlignUp(d2[q], Section(q[1]).align) \in Nat
  BY <1>1, <1>3, AlignUpIs
<1>8. q[2] = 2 /\ q[3] <= Len(b[q[1]]) /\ Standing(b, q) = 0 => b[q[1]][q[3]].n \in Nat
  BY BytesAre
<1>9. q[2] = 2 => d[<<q[1], 2, 1>>] <= d2[<<q[1], 2, 1>>]
  BY <1>3
<1> QED BY <1>1, <1>2, <1>3, <1>4, <1>5, <1>7, <1>8, <1>9 DEF Reached

\* What a step of the walk leaves.
Evaluates(b, d, z, v, q) ==
  IF Standing(b, q) = 0 THEN v
  ELSE [v EXCEPT ![Standing(b, q)] = Worth(Standing(b, q), d[q], d, z, v)]

Arrives(b, d, z, v, q) == [d EXCEPT ![Following(b, q)] = Reached(b, d, z, v, q)]

\* A walk goes up: at each point the counter and the value are no less than at the
\* last visit.
LEMMA StepUp ==
  ASSUME script \in Scripts, NEW b \in Contents, Arranged(b), NEW q \in Points(b),
         NEW d \in Counters, NEW z \in Sizes, NEW v \in Values, Sound(b, d, z, v)
  PROVE  LET d2 == Arrives(b, d, z, v, q)
             v2 == Evaluates(b, d, z, v, q)
         IN  /\ d2 \in Counters /\ v2 \in Values
             /\ \A r \in Point : d[r] <= d2[r]
             /\ \A a \in Assignments : v[a] <= v2[a]
             /\ Sound(b, d2, z, v2)
<1> DEFINE d2 == Arrives(b, d, z, v, q)
           v2 == Evaluates(b, d, z, v, q)
           a == Standing(b, q)
           f == Following(b, q)
<1>1. q \in Point /\ f \in Point /\ a \in Assignments \cup {0} /\ d[q] \in Nat
  BY PointIs DEF Counters
<1>2. Reached(b, d, z, v, q) \in Nat /\ d[f] <= Reached(b, d, z, v, q)
  BY ReachedIsNatural DEF Sound
<1>3. a # 0 => Worth(a, d[q], d, z, v) \in Nat /\ v[a] <= Worth(a, d[q], d, z, v)
  BY <1>1, WorthIsNatural DEF Sound
<1>4. d2 \in Counters /\ d2[f] = Reached(b, d, z, v, q) /\ \A r \in Point : r # f => d2[r] = d[r]
  BY <1>1, <1>2 DEF Counters, Arrives
<1>5. v2 \in Values /\ (a # 0 => v2[a] = Worth(a, d[q], d, z, v)) /\ \A c \in Assignments : c # a => v2[c] = v[c]
  BY <1>1, <1>3 DEF Values, Evaluates
<1> HIDE DEF d2, v2, f
<1>6. \A r \in Point : d[r] <= d2[r]
  BY <1>1, <1>2, <1>4 DEF Counters
<1>7. ASSUME NEW c \in Assignments PROVE v[c] <= v2[c]
  <2>1. v[c] \in Nat /\ c # 0
    BY LayoutAssumption DEF LayoutAssumption, Assignments, Values
  <2> QED BY <1>3, <1>5, <2>1
<1>8. \A s \in Sections : z[s] <= z[s]
  BY DEF Sizes
<1>9. ASSUME NEW r \in Points(b)
      PROVE  /\ d2[Following(b, r)] <= Reached(b, d2, z, v2, r)
             /\ Standing(b, r) # 0 => v2[Standing(b, r)] <= Worth(Standing(b, r), d2[r], d2, z, v2)
  <2>1. /\ r \in Point /\ Following(b, r) \in Point /\ Standing(b, r) \in Assignments \cup {0}
        /\ d[r] \in Nat /\ d2[r] \in Nat /\ d[r] <= d2[r]
    BY <1>4, <1>6, PointIs DEF Counters
  <2>2. /\ Reached(b, d, z, v, r) <= Reached(b, d2, z, v2, r)
        /\ Reached(b, d, z, v, r) \in Nat /\ Reached(b, d2, z, v2, r) \in Nat
    BY <1>4, <1>5, <1>6, <1>7, <1>8, ReachedMonotone, ReachedIsNatural
  <2>3. d2[Following(b, r)] <= Reached(b, d, z, v, r)
    <3>1. CASE r = q
      BY <1>2, <1>4, <3>1 DEF f
    <3>2. CASE r # q
      <4>1. Following(b, r) # f
        BY <3>2, FollowingDiffers DEF f
      <4> QED BY <1>4, <2>1, <4>1 DEF Sound
    <3> QED BY <3>1, <3>2
  <2>4. ASSUME Standing(b, r) # 0
        PROVE  v2[Standing(b, r)] <= Worth(Standing(b, r), d2[r], d2, z, v2)
    <3> DEFINE c == Standing(b, r)
    <3>1. c \in Assignments
      BY <2>1, <2>4
    <3>2. /\ Worth(c, d[r], d, z, v) <= Worth(c, d2[r], d2, z, v2)
          /\ Worth(c, d[r], d, z, v) \in Nat /\ Worth(c, d2[r], d2, z, v2) \in Nat
      BY <1>4, <1>5, <1>6, <1>7, <1>8, <2>1, <3>1, WorthMonotone, WorthIsNatural
    <3>3. v2[c] <= Worth(c, d[r], d, z, v)
      <4>1. CASE r = q
        BY <1>3, <1>5, <3>1, <4>1, <2>4
      <4>2. CASE r # q
        <5>1. c # a
          BY <2>4, <4>2, StandsOnce
        <5> QED BY <1>5, <2>4, <3>1, <5>1 DEF Sound
      <4> QED BY <4>1, <4>2
    <3>4. v2[c] \in Nat
      BY <1>5, <3>1 DEF Values
    <3> HIDE DEF c
    <3>5. v2[c] <= Worth(c, d2[r], d2, z, v2)
      BY <3>2, <3>3, <3>4
    <3> QED BY <3>5 DEF c
  <2>5. d2[Following(b, r)] \in Nat
    BY <1>4, <2>1 DEF Counters
  <2> QED BY <2>2, <2>3, <2>4, <2>5
<1>10. Sound(b, d2, z, v2)
  BY <1>9 DEF Sound
<1> QED BY <1>4, <1>5, <1>6, <1>7, <1>10 DEF d2, v2

\* So does a section that has grown.
LEMMA SizesUp ==
  ASSUME script \in Scripts, NEW b \in Contents, NEW d \in Counters, NEW z \in Sizes, NEW v \in Values,
         NEW z2 \in Sizes, \A s \in Sections : z[s] <= z2[s], Sound(b, d, z, v)
  PROVE  Sound(b, d, z2, v)
<1>1. (\A r \in Point : d[r] <= d[r]) /\ (\A a \in Assignments : v[a] <= v[a])
  BY DEF Counters, Values
<1>2. ASSUME NEW r \in Points(b)
      PROVE  /\ d[Following(b, r)] <= Reached(b, d, z2, v, r)
             /\ Standing(b, r) # 0 => v[Standing(b, r)] <= Worth(Standing(b, r), d[r], d, z2, v)
  <2>1. /\ r \in Point /\ d[Following(b, r)] \in Nat /\ Standing(b, r) \in Assignments \cup {0}
        /\ d[r] \in Nat /\ d[r] <= d[r]
    BY PointIs DEF Counters
  <2>2. /\ Reached(b, d, z, v, r) <= Reached(b, d, z2, v, r)
        /\ Reached(b, d, z, v, r) \in Nat /\ Reached(b, d, z2, v, r) \in Nat
    BY <1>1, ReachedMonotone, ReachedIsNatural
  <2>3. ASSUME Standing(b, r) # 0
        PROVE  v[Standing(b, r)] <= Worth(Standing(b, r), d[r], d, z2, v)
    <3> DEFINE c == Standing(b, r)
    <3>1. c \in Assignments /\ v[c] \in Nat /\ v[c] <= Worth(c, d[r], d, z, v)
      BY <2>1, <2>3 DEF Values, Sound
    <3>2. /\ Worth(c, d[r], d, z, v) <= Worth(c, d[r], d, z2, v)
          /\ Worth(c, d[r], d, z, v) \in Nat /\ Worth(c, d[r], d, z2, v) \in Nat
      BY <1>1, <2>1, <3>1, WorthMonotone, WorthIsNatural
    <3> HIDE DEF c
    <3>3. v[c] <= Worth(c, d[r], d, z2, v)
      BY <3>1, <3>2
    <3> QED BY <3>3 DEF c
  <2>4. d[Following(b, r)] <= Reached(b, d, z, v, r)
    BY DEF Sound
  <2> QED BY <2>1, <2>2, <2>3, <2>4
<1> QED BY <1>2 DEF Sound

------------------------------------------------------------------------------
\* A trampoline.

\* The point that a point was before item i + 1 was put into section s.
Back(s, i, q) == IF q[1] = s /\ q[2] = 2 /\ q[3] > i + 1 THEN <<s, 2, q[3] - 1>> ELSE q

Inserted(b, s, i, c) ==
  /\ c \in Contents /\ s \in Sections /\ i \in DOMAIN b[s]
  /\ \A t \in Sections : t # s => c[t] = b[t]
  /\ Len(c[s]) = Len(b[s]) + 1
  /\ \A j \in 1..i : c[s][j] = b[s][j]
  /\ c[s][i + 1].op = "bytes"
  /\ \A j \in i + 1..Len(b[s]) : c[s][j + 1] = b[s][j]

\* Every point but that of the trampoline was one.
LEMMA BackIs ==
  ASSUME script \in Scripts, NEW b \in Contents, NEW c, NEW s, NEW i, Inserted(b, s, i, c),
         NEW q \in Points(c)
  PROVE  /\ Back(s, i, q) \in Points(b) /\ Back(s, i, Following(c, q)) \in Point
         /\ q = <<s, 2, i + 1>> =>
              Standing(c, q) = 0 /\ Following(c, q) = <<s, 2, i + 2>> /\ i + 1 <= Len(c[s]) /\ Back(s, i, q) = q
         /\ q # <<s, 2, i + 1>> =>
              /\ Standing(b, Back(s, i, q)) = Standing(c, q)
              /\ Following(b, Back(s, i, q)) = Back(s, i, Following(c, q))
              /\ Back(s, i, q)[1] = q[1] /\ Back(s, i, q)[2] = q[2]
              /\ q[2] = 2 => /\ Back(s, i, q)[3] <= Len(b[q[1]]) <=> q[3] <= Len(c[q[1]])
                             /\ q[3] <= Len(c[q[1]]) => b[q[1]][Back(s, i, q)[3]] = c[q[1]][q[3]]
<1> DEFINE n == Len(b[s])
           p == Back(s, i, q)
<1>1. s \in Sections /\ s \in Nat /\ s # 0 /\ n \in Nat /\ i \in 1..n /\ Len(c[s]) = n + 1
  BY SectionsAreNumbered DEF Inserted, Contents
<1>2. /\ q \in Point /\ q = <<q[1], q[2], q[3]>> /\ q[1] \in Nat /\ q[2] \in Nat /\ q[3] \in Nat
      /\ Following(c, q) \in Point
  BY PointIs DEF Inserted, Points, Point
<1> HIDE DEF n
<1>3. CASE q[1] = s /\ q[2] = 2
  <2>1. q[3] \in 1..n + 2
    BY <1>1, <1>3 DEF Points
  <2>2. CASE q[3] > i + 1
    <3>1. p = <<s, 2, q[3] - 1>> /\ q[3] - 1 \in i + 1..n + 1
      BY <1>1, <1>3, <2>1, <2>2 DEF Back
    <3>2. p \in Point
      BY <1>1, <3>1 DEF Point
    <3>3. p \in Points(b)
      BY <1>1, <3>1, <3>2 DEF Points, n
    <3>4. p[3] <= n <=> q[3] <= n + 1
      <4>1. p[3] = q[3] - 1
        BY <3>1
      <4> HIDE DEF p
      <4> QED BY <1>1, <1>2, <4>1
    <3>5. CASE q[3] <= n + 1
      <4>1. q[3] - 1 \in i + 1..n
        BY <1>1, <1>2, <2>2, <3>5
      <4>2. c[s][q[3] - 1 + 1] = b[s][q[3] - 1]
        BY <4>1 DEF Inserted, n
      <4>3. q[3] - 1 + 1 = q[3]
        BY <1>2
      <4>4. c[s][q[3]] = b[s][p[3]]
        BY <3>1, <4>2, <4>3
      <4>5. Standing(b, p) = Standing(c, q)
        BY <1>1, <1>3, <3>1, <3>4, <3>5, <4>4 DEF Standing, n
      <4>6. Following(c, q) = <<s, 2, q[3] + 1>>
        BY <1>1, <1>3, <3>5 DEF Following
      <4>7. Following(b, p) = <<s, 2, q[3] - 1 + 1>>
        BY <3>1, <3>4, <3>5 DEF Following, n
      <4>8. Back(s, i, Following(c, q)) = <<s, 2, q[3] + 1 - 1>> /\ q[3] + 1 - 1 = q[3] - 1 + 1
        BY <1>1, <1>2, <2>2, <4>6 DEF Back
      <4>9. q # <<s, 2, i + 1>>
        BY <1>1, <1>2, <2>2
      <4>10. <<s, 2, q[3] + 1 - 1>> \in Point
        BY <1>1, <1>2 DEF Point
      <4> QED BY <1>1, <1>3, <3>1, <3>3, <3>4, <3>5, <4>4, <4>5, <4>7, <4>8, <4>9, <4>10 DEF n
    <3>6. CASE ~(q[3] <= n + 1)
      <4>1. Standing(b, p) = 0 /\ Standing(c, q) = 0
        BY <1>1, <1>3, <3>1, <3>4, <3>6 DEF Standing, n
      <4>2. Following(c, q) = <<s, 3, 1>> /\ Following(b, p) = <<s, 3, 1>>
        BY <1>1, <1>3, <3>1, <3>4, <3>6 DEF Following, n
      <4>3. Back(s, i, Following(c, q)) = <<s, 3, 1>>
        BY <4>2 DEF Back
      <4>4. q # <<s, 2, i + 1>>
        BY <1>1, <1>2, <2>2
      <4> QED BY <1>1, <1>2, <1>3, <3>1, <3>3, <3>4, <3>6, <4>1, <4>2, <4>3, <4>4 DEF n
    <3> QED BY <3>5, <3>6
  <2>3. CASE q[3] = i + 1
    <3>1. q = <<s, 2, i + 1>> /\ p = q
      BY <1>1, <1>2, <1>3, <2>3 DEF Back
    <3>2. i + 1 \in 1..n + 1
      BY <1>1
    <3>3. p \in Points(b)
      BY <1>1, <1>2, <3>1, <3>2 DEF Points, n
    <3>4. Standing(c, q) = 0
      BY <3>1 DEF Standing, Inserted
    <3>5. Following(c, q) = <<s, 2, i + 2>> /\ i + 1 <= Len(c[s])
      BY <1>1, <3>1, <3>2 DEF Following
    <3>6. Back(s, i, Following(c, q)) = <<s, 2, i + 2 - 1>>
      BY <1>1, <3>5 DEF Back
    <3>7. <<s, 2, i + 2 - 1>> \in Point
      BY <1>1 DEF Point
    <3> QED BY <3>1, <3>3, <3>4, <3>5, <3>6, <3>7
  <2>4. CASE q[3] <= i
    <3>1. p = q /\ q[3] \in 1..i /\ q[3] \in 1..n + 1 /\ q[3] <= n /\ q[3] <= n + 1
      BY <1>1, <1>2, <1>3, <2>1, <2>4 DEF Back
    <3>2. p \in Points(b)
      BY <1>1, <1>2, <1>3, <3>1 DEF Points, n
    <3>3. c[s][q[3]] = b[s][q[3]]
      BY <3>1 DEF Inserted
    <3>4. Standing(b, p) = Standing(c, q)
      BY <1>1, <1>3, <3>1, <3>3 DEF Standing, n
    <3>5. Following(c, q) = <<s, 2, q[3] + 1>> /\ Following(b, p) = <<s, 2, q[3] + 1>>
      BY <1>1, <1>3, <3>1 DEF Following, n
    <3>6. Back(s, i, Following(c, q)) = Following(c, q)
      BY <1>1, <1>2, <2>4, <3>5 DEF Back
    <3>7. q # <<s, 2, i + 1>>
      BY <1>1, <1>2, <2>4
    <3> QED BY <1>1, <1>2, <1>3, <3>1, <3>2, <3>3, <3>4, <3>5, <3>6, <3>7 DEF n
  <2> QED BY <1>1, <2>1, <2>2, <2>3, <2>4
<1>4. CASE ~(q[1] = s /\ q[2] = 2)
  <2>1. p = q /\ q # <<s, 2, i + 1>>
    BY <1>2, <1>4 DEF Back
  <2>2. q[2] = 2 => q[1] \in Sections /\ c[q[1]] = b[q[1]]
    BY <1>4 DEF Inserted, Points
  <2>3. p \in Points(b)
    BY <2>1, <2>2 DEF Points
  <2>4. Standing(b, q) = Standing(c, q) /\ Following(b, q) = Following(c, q)
    BY <2>2 DEF Standing, Following
  <2>5. Back(s, i, Following(c, q)) = Following(c, q)
    <3>1. q[2] = 1 /\ q[1] # s => Following(c, q) = <<q[1], 2, 1>>
      BY DEF Following
    <3>2. q[2] = 1 /\ q[1] = s => Following(c, q) = <<s, 2, 1>> /\ ~(1 > i + 1)
      BY <1>1 DEF Following
    <3>3. q[2] = 2 => q[1] # s /\ (Following(c, q) = <<q[1], 2, q[3] + 1>> \/ Following(c, q) = <<q[1], 3, 1>>)
      BY <1>4 DEF Following
    <3>4. q[2] = 3 => Following(c, q) = <<q[1], 3, q[3] + 1>> \/ Following(c, q) = <<q[1] + 1, 1, 1>>
      BY DEF Following
    <3>5. q[2] \in {1, 2, 3}
      BY DEF Points
    <3> QED BY <3>1, <3>2, <3>3, <3>4, <3>5 DEF Back
  <2> QED BY <1>2, <2>1, <2>2, <2>3, <2>4, <2>5
<1> QED BY <1>3, <1>4

\* The counters at the points when a trampoline has come in.
Shifted(d, s, i) == [q \in Point |-> d[Back(s, i, q)]]

\* A trampoline makes room: what stands behind it is less than it would be now.
LEMMA StubIn ==
  ASSUME script \in Scripts, NEW b \in Contents, NEW c, NEW s, NEW i, Inserted(b, s, i, c),
         NEW d \in Counters, NEW z \in Sizes, NEW v \in Values, Sound(b, d, z, v), Arranged(b)
  PROVE  /\ Shifted(d, s, i) \in Counters /\ At(Shifted(d, s, i)) = At(d)
         /\ Shifted(d, s, i)[<<0, 3, 1>>] = d[<<0, 3, 1>>]
         /\ Sound(c, Shifted(d, s, i), z, v)
         /\ Arranged(c)
<1> DEFINE e == Shifted(d, s, i)
           n == Len(b[s])
<1>1. s \in Sections /\ s \in Nat /\ s # 0 /\ n \in Nat /\ i \in 1..n /\ c \in Contents
  BY SectionsAreNumbered DEF Inserted, Contents
<1>2. ASSUME NEW q \in Point PROVE Back(s, i, q) \in Point /\ e[q] = d[Back(s, i, q)] /\ e[q] \in Nat
  <2>1. Back(s, i, q) \in Point
    BY <1>1 DEF Back, Point
  <2> QED BY <2>1 DEF Shifted, Counters
<1>3. e \in Counters
  BY <1>2 DEF Counters, Shifted
<1>4. ASSUME NEW t \in Nat
      PROVE  e[<<t, 1, 1>>] = d[<<t, 1, 1>>] /\ e[<<t, 3, 1>>] = d[<<t, 3, 1>>] /\ e[<<t, 2, 1>>] = d[<<t, 2, 1>>]
  <2>1. <<t, 1, 1>> \in Point /\ <<t, 3, 1>> \in Point /\ <<t, 2, 1>> \in Point
    BY DEF Point
  <2>2. ~(1 > i + 1)
    BY <1>1
  <2>3. Back(s, i, <<t, 1, 1>>) = <<t, 1, 1>> /\ Back(s, i, <<t, 3, 1>>) = <<t, 3, 1>> /\ Back(s, i, <<t, 2, 1>>) = <<t, 2, 1>>
    BY <2>2 DEF Back
  <2> QED BY <1>2, <2>1, <2>3
<1>5. Sections \subseteq Nat
  BY SectionsAreNumbered
<1>6. At(e) = At(d)
  BY <1>4, <1>5 DEF At
<1> HIDE DEF e, n
<1>7. \A a \in Assignments, p \in Nat : Worth(a, p, e, z, v) = Worth(a, p, d, z, v)
  BY <1>6 DEF Worth, Env
<1>8. ASSUME NEW t \in Sections PROVE StartAt(e, t) = StartAt(d, t)
  <2>1. ASSUME NEW r, NEW k \in Int PROVE CursorAt(e, r, k) = CursorAt(d, r, k)
    <3>1. CASE InRegion(r, k) = {}
      BY <3>1 DEF CursorAt
    <3>2. CASE InRegion(r, k) # {}
      <4>1. InRegion(r, k) \subseteq 1..Len(script.sections) /\ Len(script.sections) \in Nat
        BY SectionsAreNumbered DEF InRegion
      <4>2. Hindmost(InRegion(r, k)) \in Nat
        BY <3>2, <4>1, HindmostIs
      <4> QED BY <1>4, <4>2 DEF CursorAt
    <3> QED BY <3>1, <3>2
  <2>2. t - 1 \in Int /\ t \in Nat
    BY <1>5
  <2> QED BY <1>4, <2>1, <2>2 DEF StartAt
<1>9. ASSUME NEW q \in Points(c)
      PROVE  /\ e[Following(c, q)] <= Reached(c, e, z, v, q)
             /\ Standing(c, q) # 0 => v[Standing(c, q)] <= Worth(Standing(c, q), e[q], e, z, v)
  <2> DEFINE p == Back(s, i, q)
  <2>1. p \in Points(b) /\ q \in Point /\ Following(c, q) \in Point /\ Following(b, p) \in Point
    BY <1>1, BackIs, PointIs
  <2>2. e[q] = d[p] /\ e[q] \in Nat /\ e[Following(c, q)] = d[Back(s, i, Following(c, q))]
    BY <1>2, <2>1
  <2>3. q[1] \in Nat /\ q[2] \in {1, 2, 3} /\ (q[2] # 3 => q[1] \in Sections)
    BY DEF Points, Point
  <2>4. CASE q = <<s, 2, i + 1>>
    <3>1. Standing(c, q) = 0 /\ Following(c, q) = <<s, 2, i + 2>> /\ i + 1 <= Len(c[s]) /\ p = q
      BY <2>4, BackIs
    <3>2. Reached(c, e, z, v, q) = AlignUp(e[q], Section(s).align) + c[s][i + 1].n
      BY <2>4, <3>1 DEF Reached
    <3>3. c[s][i + 1].n \in Nat
      BY <1>1, <2>4, <3>1, BytesAre
    <3>4. AlignUp(e[q], Section(s).align) \in Nat /\ e[q] <= AlignUp(e[q], Section(s).align)
      BY <1>1, <2>2, SectionIs, AlignUpIs
    <3>5. Back(s, i, Following(c, q)) = <<s, 2, i + 2 - 1>> /\ i + 2 - 1 = i + 1
      BY <1>1, <3>1 DEF Back
    <3>6. e[Following(c, q)] = e[q]
      BY <2>2, <2>4, <3>1, <3>5
    <3> QED BY <2>2, <3>1, <3>2, <3>3, <3>4, <3>6
  <2>5. CASE q # <<s, 2, i + 1>>
    <3>1. /\ Standing(b, p) = Standing(c, q) /\ Following(b, p) = Back(s, i, Following(c, q))
          /\ p[1] = q[1] /\ p[2] = q[2]
          /\ q[2] = 2 => /\ p[3] <= Len(b[q[1]]) <=> q[3] <= Len(c[q[1]])
                         /\ q[3] <= Len(c[q[1]]) => b[q[1]][p[3]] = c[q[1]][q[3]]
      BY <2>5, BackIs
    <3> HIDE DEF p
    <3>2. Standing(c, q) # 0 => Worth(Standing(c, q), e[q], e, z, v) = Worth(Standing(b, p), d[p], d, z, v)
      BY <1>1, <1>7, <2>2, <3>1, PointIs
    <3>3. Reached(c, e, z, v, q) = Reached(b, d, z, v, p)
      <4>1. CASE q[2] = 1
        BY <1>8, <2>3, <3>1, <4>1 DEF Reached
      <4>2. CASE q[2] # 1 /\ Standing(c, q) # 0
        BY <2>2, <3>1, <3>2, <4>2 DEF Reached
      <4>3. CASE q[2] # 1 /\ Standing(c, q) = 0
        BY <1>4, <2>2, <2>3, <3>1, <4>3 DEF Reached
      <4> QED BY <4>1, <4>2, <4>3
    <3> QED BY <2>1, <2>2, <3>1, <3>2, <3>3 DEF Sound
  <2> QED BY <2>4, <2>5
<1>10. Sound(c, e, z, v)
  BY <1>9 DEF Sound
<1>11. ASSUME NEW q \in Points(c), NEW r \in Points(c),
             Standing(c, q) # 0, Standing(c, r) # 0, Precedes(q, r)
       PROVE  Standing(c, q) < Standing(c, r)
  <2> DEFINE p == Back(s, i, q)
             o == Back(s, i, r)
  <2>1. /\ p \in Points(b) /\ o \in Points(b)
        /\ Standing(b, p) = Standing(c, q) /\ Standing(b, o) = Standing(c, r)
    BY <1>11, BackIs
  <2>2. Precedes(p, o)
    <3>1. q[1] \in Nat /\ q[2] \in Nat /\ q[3] \in Nat /\ r[1] \in Nat /\ r[2] \in Nat /\ r[3] \in Nat
      BY DEF Points, Point
    <3>2. q[3] # i + 1 \/ q[1] # s \/ q[2] # 2
      <4>1. q = <<q[1], q[2], q[3]>>
        BY DEF Points, Point
      <4> QED BY <1>11, <4>1, BackIs
    <3> QED BY <1>1, <1>11, <3>1, <3>2 DEF Back, Precedes
  <2> HIDE DEF p, o
  <2> QED BY <1>11, <2>1, <2>2 DEF Arranged
<1>12. ASSUME NEW a \in Assignments PROVE \E q \in Points(c) : Standing(c, q) = a
  <2>1. PICK p \in Points(b) : Standing(b, p) = a
    BY DEF Arranged
  <2>2. a # 0
    BY LayoutAssumption DEF LayoutAssumption, Assignments
  <2>3. p = <<p[1], p[2], p[3]>> /\ p[1] \in Nat /\ p[2] \in Nat /\ p[3] \in Nat /\ p \in Point
    BY DEF Points, Point
  <2>4. CASE p[1] = s /\ p[2] = 2 /\ p[3] > i
    <3> DEFINE q == <<s, 2, p[3] + 1>>
    <3>1. p[3] \in i + 1..n
      BY <1>1, <2>1, <2>2, <2>3, <2>4 DEF Standing, n
    <3>2. c[s][p[3] + 1] = b[s][p[3]] /\ Len(c[s]) = n + 1
      BY <3>1 DEF Inserted, n
    <3>3. q \in Points(c)
      <4>1. s \in Nat /\ p[3] + 1 \in Nat /\ p[3] + 1 \in 1..Len(c[s]) + 1
        BY <1>1, <3>1, <3>2 DEF Sections
      <4>2. q \in Point
        BY <4>1 DEF Point
      <4> QED BY <1>1, <4>1, <4>2 DEF Points
    <3>4. Standing(c, q) = Standing(b, p)
      BY <1>1, <2>4, <3>1, <3>2 DEF Standing, n
    <3> QED BY <2>1, <3>3, <3>4
  <2>5. CASE p[1] = s /\ p[2] = 2 /\ ~(p[3] > i)
    <3>1. p[3] \in 1..i /\ p[3] \in 1..n
      BY <1>1, <2>3, <2>5 DEF Points
    <3>2. c[s][p[3]] = b[s][p[3]] /\ Len(c[s]) = n + 1
      BY <3>1 DEF Inserted, n
    <3>3. p \in Points(c)
      BY <1>1, <2>3, <2>5, <3>1, <3>2 DEF Points
    <3>4. Standing(c, p) = Standing(b, p)
      BY <1>1, <2>5, <3>1, <3>2 DEF Standing, n
    <3> QED BY <2>1, <3>3, <3>4
  <2>6. CASE ~(p[1] = s /\ p[2] = 2)
    <3>1. p[2] = 2 => p[1] \in Sections /\ c[p[1]] = b[p[1]]
      BY <2>6 DEF Inserted, Points
    <3>2. p \in Points(c)
      BY <3>1 DEF Points
    <3>3. Standing(c, p) = Standing(b, p)
      BY <3>1 DEF Standing
    <3> QED BY <2>1, <3>2, <3>3
  <2> QED BY <2>4, <2>5, <2>6
<1>13. Arranged(c)
  BY <1>11, <1>12 DEF Arranged
<1>14. e[<<0, 3, 1>>] = d[<<0, 3, 1>>]
  BY <1>4
<1> QED BY <1>3, <1>6, <1>10, <1>13, <1>14 DEF e

------------------------------------------------------------------------------
\* What depends on the script alone stays.

\* The parts of the script, and the kind of script that it is.
LEMMA ScriptFixes ==
  ASSUME script' = script
  PROVE  /\ Sections' = Sections /\ Assignments' = Assignments /\ Names' = Names /\ Items' = Items
         /\ \A s : (Section(s))' = Section(s)
         /\ \A a : (Assigned(a))' = Assigned(a)
         /\ \A s : (Rigid(s) <=> Rigid(s)')
         /\ Growing' = Growing
         /\ Counters' = Counters /\ Sizes' = Sizes /\ Values' = Values /\ Contents' = Contents
<1>1. Sections' = Sections /\ Assignments' = Assignments /\ Names' = Names
  BY DEF Sections, Assignments, Names, Assigned
<1>2. \A s : (Section(s))' = Section(s)
  BY DEF Section
<1>3. \A a : (Assigned(a))' = Assigned(a)
  BY DEF Assigned
<1>4. \A s : (Rigid(s) <=> Rigid(s)')
  BY DEF Rigid, Section, Assigned
<1>5. Items' = Items
  BY <1>1, <1>3 DEF Items, MovesForward
<1>6. Growing' = Growing
  BY DEF Growing, Orderly, PlacedByLinker, Consecutive, InMemory, Sections, Assignments, Section, Assigned,
         Overlay, MovesForward, Loaded, HasLoadRegion, LoadRegion, AsksSizeOf, Rigid
<1>7. Counters' = Counters /\ Sizes' = Sizes /\ Values' = Values
  BY <1>1 DEF Counters, Sizes, Values, Point
<1>8. Contents' = Contents
  BY <1>1, <1>5 DEF Contents
<1> QED BY <1>1, <1>2, <1>3, <1>4, <1>5, <1>6, <1>7, <1>8

\* The points, and what is reached and read from them.
LEMMA WalkFixes ==
  ASSUME script' = script
  PROVE  /\ \A b : Points(b)' = Points(b)
         /\ \A b, q : Standing(b, q)' = Standing(b, q)
         /\ \A b, q : Following(b, q)' = Following(b, q)
         /\ \A b : Arranged(b) <=> Arranged(b)'
         /\ \A a, x : MeantBy(a, x)' = MeantBy(a, x)
         /\ \A d : At(d)' = At(d)
         /\ \A d, r, k : CursorAt(d, r, k)' = CursorAt(d, r, k)
         /\ \A a, p, d, z, v : Worth(a, p, d, z, v)' = Worth(a, p, d, z, v)
         /\ \A b, d, z, v : Sound(b, d, z, v) <=> Sound(b, d, z, v)'
<1>1. \A s : (AfterOf(s))' = AfterOf(s)
  BY DEF AfterOf, Section
<1>2. \A b : Points(b)' = Points(b)
  BY DEF Points, AfterOf, Section, Point, Sections
<1>3. \A b, q : Standing(b, q)' = Standing(b, q)
  BY DEF Standing, AfterOf, Section
<1>4. \A b, q : Following(b, q)' = Following(b, q)
  BY DEF Following, AfterOf, Section
<1>5. \A b : Arranged(b) <=> Arranged(b)'
  <2>1. Assignments' = Assignments
    BY ScriptFixes
  <2> QED BY <1>2, <1>3, <2>1 DEF Arranged
<1>6. \A a, x : MeantBy(a, x)' = MeantBy(a, x)
  BY DEF MeantBy, Assignments, Assigned, LastAssignment
<1>7. \A d : At(d)' = At(d)
  BY DEF At, Sections
<1>8. \A r, k : InRegion(r, k)' = InRegion(r, k)
  BY DEF InRegion, Sections, Section
<1>9. \A d, r, k : CursorAt(d, r, k)' = CursorAt(d, r, k)
  BY <1>8 DEF CursorAt
<1>10. \A d, s : StartAt(d, s)' = StartAt(d, s)
  BY <1>9 DEF StartAt, Section
<1>11. \A a, p, d, z, v : Worth(a, p, d, z, v)' = Worth(a, p, d, z, v)
  <2>1. \A a : (Assigned(a))' = Assigned(a)
    BY ScriptFixes
  <2>2. \A a, p, d, z, v : Env(a, p, d, z, v)' = Env(a, p, d, z, v)
    BY <1>6, <1>7, <2>1 DEF Env
  <2> QED BY <2>1, <2>2 DEF Worth
<1>12. \A b, d, z, v, q : Reached(b, d, z, v, q)' = Reached(b, d, z, v, q)
  <2>1. /\ \A s : (Section(s))' = Section(s)
        /\ \A a : (Assigned(a))' = Assigned(a)
        /\ \A s : IsTBSS(s) <=> IsTBSS(s)'
    BY DEF Section, Assigned, IsTBSS
  <2> QED BY <1>3, <1>10, <1>11, <2>1 DEF Reached
<1>13. \A b, d, z, v : Sound(b, d, z, v) <=> Sound(b, d, z, v)'
  BY <1>2, <1>3, <1>4, <1>11, <1>12 DEF Sound
<1> QED BY <1>2, <1>3, <1>4, <1>5, <1>6, <1>7, <1>9, <1>11, <1>13

\* More bytes in between do not make it less.
LEMMA EndGrows ==
  ASSUME NEW S, NEW x \in Seq([op : {"bytes"}, n : Nat] \cup [op : {"assign"}, n : S]), NEW al \in Nat \ {0},
         NEW y \in Seq([op : {"bytes"}, n : Nat] \cup [op : {"assign"}, n : S]), NEW i \in 0..Len(x),
         Len(y) = Len(x) + 1, \A j \in 1..i : y[j] = x[j], y[i + 1].op = "bytes",
         \A j \in i + 1..Len(x) : y[j + 1] = x[j]
  PROVE  EndAt(x, al, Len(x)) <= EndAt(y, al, Len(y))
<1> DEFINE n == Len(x)
           e(k) == EndAt(x, al, k)
           f(k) == EndAt(y, al, k)
           Less(k) == e(k) <= f(IF k < i THEN k ELSE k + 1)
           S1 == {k \in 0..n : ~Less(k)}
<1>1. n \in Nat /\ Len(y) = n + 1
  OBVIOUS
<1>2. /\ \A k \in 0..n : e(k) \in Nat
      /\ \A k \in 1..n : e(k) = IF x[k].op = "assign" THEN e(k - 1) ELSE AlignUp(e(k - 1), al) + x[k].n
      /\ \A k \in 0..n + 1 : f(k) \in Nat
      /\ \A k \in 1..n + 1 : f(k) = IF y[k].op = "assign" THEN f(k - 1) ELSE AlignUp(f(k - 1), al) + y[k].n
      /\ e(0) = 0
  <2>1. \A k \in 0..n : e(k) \in Nat /\ e(k) = IF k = 0 THEN 0 ELSE IF x[k].op = "assign" THEN e(k - 1)
                                                 ELSE AlignUp(e(k - 1), al) + x[k].n
    BY EndIs
  <2>2. \A k \in 0..Len(y) : f(k) \in Nat /\ f(k) = IF k = 0 THEN 0 ELSE IF y[k].op = "assign" THEN f(k - 1)
                                                 ELSE AlignUp(f(k - 1), al) + y[k].n
    BY EndIs
  <2> HIDE DEF e, f, n
  <2>3. 0 \in 0..n /\ (\A k \in 1..n : k \in 0..n /\ k # 0) /\ \A k \in 1..n + 1 : k \in 0..n + 1 /\ k # 0
    BY <1>1
  <2> QED BY <1>1, <2>1, <2>2, <2>3
<1>3. /\ \A k \in 1..n : x[k].op = "assign" \/ x[k].n \in Nat
      /\ \A k \in 1..n + 1 : y[k].op = "assign" \/ y[k].n \in Nat
  BY <1>1
<1> HIDE DEF e, f, n
<1>4. f(i) <= f(i + 1)
  <2>1. i + 1 \in 1..n + 1 /\ i \in 0..n + 1 /\ i + 1 - 1 = i
    BY <1>1 DEF n
  <2>2. f(i + 1) = AlignUp(f(i), al) + y[i + 1].n /\ y[i + 1].n \in Nat /\ f(i) \in Nat
    BY <1>2, <1>3, <2>1
  <2>3. AlignUp(f(i), al) \in Nat /\ f(i) <= AlignUp(f(i), al)
    BY <2>2, AlignUpIs
  <2> QED BY <2>2, <2>3
<1>5. ASSUME NEW k \in S1, \A j \in S1 : k <= j PROVE FALSE
  <2>1. k \in 0..n /\ ~Less(k)
    BY <1>5
  <2>2. CASE k = 0
    <3>1. f(IF 0 < i THEN 0 ELSE 1) \in Nat
      BY <1>1, <1>2
    <3> QED BY <1>2, <2>1, <2>2, <3>1
  <2>3. CASE k # 0
    <3>1. k - 1 \in 0..n /\ ~(k <= k - 1) /\ k \in 1..n
      BY <1>1, <2>1, <2>3
    <3>2. Less(k - 1)
      <4>1. k - 1 \notin S1
        <5> HIDE DEF S1
        <5> QED BY <1>5, <3>1
      <4> QED BY <3>1, <4>1
    <3> DEFINE at == IF k <= i THEN k ELSE k + 1
    <3>3. at \in 1..n + 1 /\ at - 1 \in 0..n + 1 /\ y[at] = x[k]
      <4>1. i \in 0..n
        BY DEF n
      <4>2. CASE k <= i
        BY <1>1, <3>1, <4>1, <4>2 DEF n
      <4>3. CASE ~(k <= i)
        <5>1. k \in i + 1..n
          BY <3>1, <4>1, <4>3
        <5>2. y[k + 1] = x[k]
          BY <5>1 DEF n
        <5> QED BY <1>1, <3>1, <4>1, <4>3, <5>2
      <4> QED BY <4>2, <4>3
    <3>4. e(k - 1) <= f(at - 1)
      <4>1. i \in 0..n /\ e(k - 1) \in Nat
        BY <1>2, <3>1 DEF n
      <4>2. at - 1 = IF k - 1 < i THEN k - 1 ELSE k
        BY <3>1, <4>1
      <4>3. f(k - 1) \in Nat
        <5>1. k - 1 \in 0..n + 1
          BY <1>1, <3>1
        <5> QED BY <1>2, <5>1
      <4> QED BY <3>2, <4>2, <3>1
    <3>5. e(k) <= f(at)
      <4>1. e(k) = IF x[k].op = "assign" THEN e(k - 1) ELSE AlignUp(e(k - 1), al) + x[k].n
        BY <1>2, <3>1
      <4>2. f(at) = IF x[k].op = "assign" THEN f(at - 1) ELSE AlignUp(f(at - 1), al) + x[k].n
        BY <1>2, <3>3
      <4>3. e(k - 1) \in Nat /\ f(at - 1) \in Nat /\ (x[k].op = "assign" \/ x[k].n \in Nat)
        BY <1>2, <1>3, <3>1, <3>3
      <4>4. AlignUp(e(k - 1), al) \in Nat /\ AlignUp(f(at - 1), al) \in Nat
            /\ AlignUp(e(k - 1), al) <= AlignUp(f(at - 1), al)
        BY <3>4, <4>3, AlignUpMonotone, AlignUpIs
      <4> HIDE DEF at
      <4> QED BY <3>4, <4>1, <4>2, <4>3, <4>4
    <3>6. f(at) <= f(IF k < i THEN k ELSE k + 1)
      <4>1. CASE k = i
        BY <1>4, <4>1
      <4>2. CASE k # i
        <5>1. at = IF k < i THEN k ELSE k + 1
          BY <3>1, <4>2 DEF n
        <5>2. f(at) \in Nat
          BY <1>2, <1>1, <3>3
        <5> QED BY <5>1, <5>2
      <4> QED BY <4>1, <4>2
    <3>7. e(k) \in Nat /\ f(at) \in Nat /\ f(IF k < i THEN k ELSE k + 1) \in Nat
      <4>1. (IF k < i THEN k ELSE k + 1) \in 0..n + 1 /\ at \in 0..n + 1 /\ k \in 0..n
        BY <1>1, <3>1, <3>3 DEF n
      <4> HIDE DEF at
      <4> QED BY <1>2, <4>1
    <3> HIDE DEF at
    <3> QED BY <2>1, <3>5, <3>6, <3>7
  <2> QED BY <2>2, <2>3
<1>6. S1 = {}
  <2>1. S1 \subseteq Nat
    BY <1>1
  <2> HIDE DEF S1
  <2> QED BY <1>5, <2>1, LeastNatural
<1>7. Less(n)
  <2>1. n \in 0..n
    BY <1>1
  <2> QED BY <1>6, <2>1
<1>8. (IF n < i THEN n ELSE n + 1) = n + 1
  BY <1>1 DEF n
<1> QED BY <1>1, <1>7, <1>8 DEF e, f, n

------------------------------------------------------------------------------
\* The invariant of scripts in which nothing shrinks.

\* The sections up to this one have been finished.
Behind == IF pc = "after" THEN walk.out ELSE walk.out - 1

\* The addresses and the counter are those of the points, and less than what they
\* would be now.
Upward(d, z) ==
  /\ Sound(bodies, d, z, value)
  /\ d[<<0, 3, 1>>] = 0
  /\ addr = At(d) /\ paddr = addr
  /\ Walking => dot = d[Here]
  /\ \A r \in DOMAIN script.regions : RegionCursor(r) = CursorAt(d, r, Behind)

\* The walk is at an item of the script, and has come to it.
WithinSection ==
  /\ \A s \in Sections : \A i \in DOMAIN bodies[s] : bodies[s][i].op = "assign" =>
       \E j \in DOMAIN Section(s).body : Section(s).body[j] = bodies[s][i]
  /\ \A s \in Sections : bodies[s] = <<>> => size[s] = 0
  /\ pc = "before" => walk.item <= Len(script.before) + 1
  /\ pc = "after" => walk.out # Len(script.sections) + 1 /\ walk.item <= Len(Section(walk.out).after) + 1
  /\ pc = "body" =>
       /\ walk.out # Len(script.sections) + 1
       /\ walk.item <= Len(bodies[walk.out]) + 1
       /\ walk.offset = dot - addr[walk.out]
       /\ walk.touched <=> walk.item > 1
       /\ AlignUp(addr[walk.out], Section(walk.out).align) = addr[walk.out]

\* A size that may be asked for is that of what is in the section as soon as the
\* section has been finished.
Filled(z) ==
  /\ \A s \in Sections : Rigid(s) =>
       /\ size[s] = z[s] \/ (pc = "body" /\ s = walk.out)
       /\ z[s] <= ContentOf(s)
       /\ iteration > 0 \/ Finished(s) => z[s] = ContentOf(s)
  /\ pc = "body" /\ Rigid(walk.out) =>
       walk.offset = EndAt(bodies[walk.out], Section(walk.out).align, walk.item - 1)

\* The assignments up to m have been evaluated since the pass has started.
UpTo(m) ==
  /\ Arranged(bodies)
  /\ m <= Len(script.assignments)
  /\ Walking => \A q \in Points(bodies) : Standing(bodies, q) # 0 =>
       (Standing(bodies, q) <= m <=> Precedes(q, Here))
  /\ ~Walking => m = Len(script.assignments)

Named(x, k) == {b \in 1..k : Assigned(b).name = x}

\* Those up to n have been evaluated before, and each has read what is nearest before it.
Meant(m, n) ==
  /\ m <= n /\ n <= Len(script.assignments)
  /\ \A p \in DOMAIN source : \E a \in 1..n : \E x \in NamesIn(Assigned(a).expr) :
       p = <<<<"assign", a>>, x>> /\ source[p] = MeantBy(a, x)
  /\ \A a \in 1..n : \A x \in NamesIn(Assigned(a).expr) : <<<<"assign", a>>, x>> \in DOMAIN source
  /\ \A x \in Names :
       /\ Named(x, m) # {} => latest[x] \in Named(x, m) /\ \A b \in Named(x, m) : b <= latest[x]
       /\ latest[x] \in {0} \cup Named(x, n)

\* Nothing is less than in the snapshot.
Risen ==
  /\ snapshot.addr \in [Sections -> Nat] /\ snapshot.value \in [Assignments -> Nat]
  /\ \A s \in Sections : snapshot.addr[s] <= addr[s]
  /\ \A a \in Assignments : snapshot.value[a] <= value[a]

Same == snapshot.addr = addr /\ snapshot.value = value

SizesKnown == iteration > 0 \/ \A a \in Assignments : ~Asks(Assigned(a).expr, "sizeof")

Places(a) == Asks(Assigned(a).expr, "dot") \/ Asks(Assigned(a).expr, "align")

\* As long as nothing has changed since the snapshot, what has been evaluated is what
\* it would be now.
Solves(m, d, z) ==
  Same /\ SizesKnown => \A a \in 1..m : ~Places(a) => value[a] = Worth(a, 0, d, z, value)

Agreement == Converged => Same /\ (agreed = "twice" => iteration > 0)

Growth(d, z, m, n) ==
  /\ d \in Counters /\ z \in Sizes /\ m \in Nat /\ n \in Nat
  /\ Upward(d, z) /\ WithinSection /\ Filled(z) /\ UpTo(m) /\ Meant(m, n) /\ Risen
  /\ Solves(m, d, z) /\ Agreement

GrowingInv == Growing => \E d, z, m, n : Growth(d, z, m, n)

\* What the other invariants say of the variables.
LEMMA GrowingIs ==
  ASSUME Inv, Typed, Growing
  PROVE  /\ script \in Scripts /\ Orderly
         /\ bodies \in Contents /\ value \in Values
         /\ addr \in [Sections -> Nat] /\ size \in Sizes /\ dot \in Nat
         /\ walk.item \in Nat \ {0} /\ walk.offset \in Nat
         /\ Len(script.sections) \in Nat /\ Sections = 1..Len(script.sections)
         /\ walk.out \in 1..Len(script.sections) + 1
         /\ Len(script.assignments) \in Nat /\ Assignments = 1..Len(script.assignments)
         /\ script.before \in Seq(Assignments)
         /\ \A s \in Sections : Section(s).after \in Seq(Assignments)
<1>1. script \in Scripts
  BY DEF Inv, Shape
<1>2. bodies \in Contents /\ value \in Values /\ addr \in [Sections -> Nat] /\ size \in Sizes /\ dot \in Nat
  BY DEF Typed, BodiesTyped, ValuesTyped, PlacesTyped, Contents, Values, Sizes
<1>3. walk.item \in Nat \ {0} /\ walk.offset \in Nat /\ walk.out \in 1..Len(script.sections) + 1
  BY DEF Typed, WalkTyped
<1>4. Len(script.assignments) \in Nat /\ Assignments = 1..Len(script.assignments)
      /\ script.before \in Seq(Assignments)
  BY <1>1, LayoutAssumption DEF LayoutAssumption, Assignments
<1>5. Len(script.sections) \in Nat /\ Sections = 1..Len(script.sections)
  BY <1>1, SectionsAreNumbered
<1> QED BY <1>1, <1>2, <1>3, <1>4, <1>5, SectionIs DEF Growing

\* Where the walk is.
LEMMA HereIs ==
  ASSUME Inv, Typed, Growing, WithinSection, Walking, walk.out <= Len(script.sections) \/ pc # "place"
  PROVE  Here \in Points(bodies)
<1>1. /\ script \in Scripts /\ walk.item \in Nat \ {0} /\ walk.out \in 1..Len(script.sections) + 1
      /\ Len(script.sections) \in Nat /\ Sections = 1..Len(script.sections)
      /\ script.before \in Seq(Assignments)
      /\ \A s \in Sections : Section(s).after \in Seq(Assignments)
      /\ bodies \in Contents
  BY GrowingIs
<1>2. CASE pc = "before"
  <2>1. Here = <<0, 3, walk.item>> /\ AfterOf(0) = script.before /\ Len(script.before) \in Nat
    BY <1>1, <1>2 DEF Here, AfterOf
  <2>2. walk.item \in 1..Len(AfterOf(0)) + 1
    BY <1>1, <1>2, <2>1 DEF WithinSection
  <2> QED BY <1>1, <2>1, <2>2 DEF Points, Point
<1>3. CASE pc = "place"
  BY <1>1, <1>3 DEF Here, Points, Point
<1>4. CASE pc = "body"
  <2>1. Here = <<walk.out, 2, walk.item>> /\ walk.out \in Sections
    BY <1>1, <1>4 DEF Here, WithinSection
  <2>2. bodies[walk.out] \in Seq(Items)
    BY <1>1, <2>1 DEF Contents
  <2>3. walk.item \in 1..Len(bodies[walk.out]) + 1
    BY <1>1, <1>4, <2>2 DEF WithinSection
  <2> QED BY <1>1, <2>1, <2>3 DEF Points, Point
<1>5. CASE pc = "after"
  <2>1. Here = <<walk.out, 3, walk.item>> /\ walk.out \in Sections /\ walk.out # 0
    BY <1>1, <1>5 DEF Here, WithinSection
  <2>2. AfterOf(walk.out) = Section(walk.out).after /\ Section(walk.out).after \in Seq(Assignments)
    BY <1>1, <2>1 DEF AfterOf
  <2>3. walk.item \in 1..Len(AfterOf(walk.out)) + 1
    BY <1>1, <1>5, <2>2 DEF WithinSection
  <2> QED BY <1>1, <2>1, <2>3 DEF Points, Point
<1> QED BY <1>2, <1>3, <1>4, <1>5 DEF Walking

\* The assignments stand in the order of the script.
LEMMA ArrangedIs ==
  ASSUME script \in Scripts, NEW b \in Contents,
         \A s \in Sections : b[s] = Section(s).body
  PROVE  Arranged(b)
<1>1. /\ Len(script.sections) \in Nat /\ Sections = 1..Len(script.sections)
      /\ script.before \in Seq(Assignments) /\ InScriptOrder(script)
  BY SectionsAreNumbered, LayoutAssumption DEF LayoutAssumption, Assignments
<1>2. \A s \in Sections : Section(s).after \in Seq(Assignments)
  BY SectionIs
<1>3. Assignments = DOMAIN script.assignments /\ Sections = DOMAIN script.sections
      /\ (\A s : Section(s) = script.sections[s]) /\ 0 \notin Assignments
  BY LayoutAssumption DEF LayoutAssumption, Assignments, Sections, Section
<1>4. \A s \in Sections : b[s] \in Seq(Items)
  BY DEF Contents
<1>5. ASSUME NEW q, NEW a, a # 0
      PROVE  q \in Points(b) /\ Standing(b, q) = a <=> <<q, a>> \in Stands(script)
  <2>1. ASSUME q \in Points(b), Standing(b, q) = a
        PROVE  <<q, a>> \in Stands(script)
    <3>1. q = <<q[1], q[2], q[3]>> /\ q[1] \in Nat /\ q[2] \in Nat /\ q[3] \in Nat
      BY <2>1 DEF Points, Point
    <3>2. CASE q[2] = 3 /\ q[1] = 0
      <4>1. q[3] \in 1..Len(script.before) /\ a = script.before[q[3]]
        BY <1>5, <2>1, <3>2, <1>1 DEF Standing, AfterOf, Points
      <4>2. q[3] \in DOMAIN script.before
        BY <1>1, <4>1
      <4> QED BY <3>1, <3>2, <4>1, <4>2 DEF Stands
    <3>3. CASE q[2] = 3 /\ q[1] # 0
      <4>1. q[1] \in Sections
        BY <1>1, <2>1, <3>3 DEF Points
      <4>2. q[3] \in 1..Len(Section(q[1]).after) /\ a = Section(q[1]).after[q[3]]
        BY <1>2, <1>5, <2>1, <3>3, <4>1 DEF Standing, AfterOf, Points
      <4>3. q[3] \in DOMAIN Section(q[1]).after
        BY <1>2, <4>1, <4>2
      <4> QED BY <1>3, <3>1, <3>3, <4>1, <4>2, <4>3 DEF Stands
    <3>4. CASE q[2] # 3
      <4>1. q[2] = 2 /\ q[1] \in Sections /\ q[3] \in 1..Len(b[q[1]]) /\ b[q[1]][q[3]].op = "assign"
            /\ a = b[q[1]][q[3]].n
        BY <1>4, <1>5, <2>1, <3>4 DEF Standing, Points
      <4>2. q[3] \in DOMAIN b[q[1]] /\ b[q[1]] = Section(q[1]).body
        BY <1>4, <4>1
      <4> QED BY <1>3, <3>1, <4>1, <4>2 DEF Stands
    <3> QED BY <3>2, <3>3, <3>4
  <2>2. ASSUME <<q, a>> \in Stands(script)
        PROVE  q \in Points(b) /\ Standing(b, q) = a
    <3>1. CASE \E i \in DOMAIN script.before : <<q, a>> = <<<<0, 3, i>>, script.before[i]>>
      <4>1. PICK i \in DOMAIN script.before : q = <<0, 3, i>> /\ a = script.before[i]
        BY <3>1
      <4>2. i \in Nat /\ i \in 1..Len(script.before) /\ Len(script.before) \in Nat
        BY <1>1
      <4> QED BY <1>1, <4>1, <4>2 DEF Points, Point, AfterOf, Standing
    <3>2. CASE \E s \in Sections : \E i \in DOMAIN Section(s).after :
                 <<q, a>> = <<<<s, 3, i>>, Section(s).after[i]>>
      <4>0. PICK s \in Sections : \E i \in DOMAIN Section(s).after :
                 <<q, a>> = <<<<s, 3, i>>, Section(s).after[i]>>
        BY <3>2
      <4>1. PICK i \in DOMAIN Section(s).after : q = <<s, 3, i>> /\ a = Section(s).after[i]
        BY <4>0
      <4>2. i \in 1..Len(Section(s).after) /\ Len(Section(s).after) \in Nat /\ s # 0 /\ s \in Nat
        BY <1>1, <1>2
      <4> QED BY <1>1, <4>1, <4>2 DEF Points, Point, AfterOf, Standing
    <3>3. CASE \E s \in Sections : \E i \in DOMAIN Section(s).body :
                 Section(s).body[i].op = "assign" /\ <<q, a>> = <<<<s, 2, i>>, Section(s).body[i].n>>
      <4>0. PICK s \in Sections : \E i \in DOMAIN Section(s).body :
                 Section(s).body[i].op = "assign" /\ <<q, a>> = <<<<s, 2, i>>, Section(s).body[i].n>>
        BY <3>3
      <4>1. PICK i \in DOMAIN Section(s).body :
                 Section(s).body[i].op = "assign" /\ q = <<s, 2, i>> /\ a = Section(s).body[i].n
        BY <4>0
      <4>2. b[s] = Section(s).body /\ i \in 1..Len(b[s]) /\ Len(b[s]) \in Nat /\ s \in Nat
        BY <1>1, <1>4
      <4> QED BY <1>1, <4>1, <4>2 DEF Points, Point, Standing
    <3> QED BY <1>3, <2>2, <3>1, <3>2, <3>3 DEF Stands
  <2> QED BY <2>1, <2>2
<1>6. ASSUME NEW a \in Assignments PROVE \E q \in Points(b) : Standing(b, q) = a
  <2>1. PICK w \in Stands(script) : w[2] = a
    BY <1>1, <1>3 DEF InScriptOrder
  <2>2. w = <<w[1], a>>
    BY <2>1 DEF Stands
  <2> QED BY <1>3, <1>5, <2>1, <2>2
<1>7. ASSUME NEW q \in Points(b), NEW r \in Points(b), Standing(b, q) # 0, Standing(b, r) # 0, Precedes(q, r)
      PROVE  Standing(b, q) < Standing(b, r)
  <2>1. <<q, Standing(b, q)>> \in Stands(script) /\ <<r, Standing(b, r)>> \in Stands(script)
    BY <1>5, <1>7
  <2>2. \A v, w \in Stands(script) : Precedes(v[1], w[1]) => v[2] < w[2]
    BY <1>1 DEF InScriptOrder
  <2> QED BY <1>7, <2>1, <2>2
<1> QED BY <1>6, <1>7 DEF Arranged

------------------------------------------------------------------------------
\* A step to the next point.

\* The point, the counter, the values and the addresses behind a step.
Moves(d, z) ==
  /\ Walking /\ Walking' /\ Here \in Points(bodies)
  /\ UNCHANGED <<script, bodies, iteration, snapshot>>
  /\ Here' = Following(bodies, Here)
  /\ value' = Evaluates(bodies, d, z, value, Here)
  /\ dot' = Reached(bodies, d, z, value, Here)
  /\ addr' = At(Arrives(bodies, d, z, value, Here)) /\ paddr' = addr'

\* It goes up.
LEMMA MovesUp ==
  ASSUME Inv, Typed, Growing, NEW d, NEW z, NEW m, NEW n, Growth(d, z, m, n), Moves(d, z),
         NEW z2 \in Sizes, \A s \in Sections : z[s] <= z2[s],
         NEW d2, d2 = Arrives(bodies, d, z, value, Here),
         \A r \in DOMAIN script.regions : (RegionCursor(r))' = CursorAt(d2, r, Behind')
  PROVE  /\ d2 \in Counters /\ Upward(d2, z2)' /\ value' \in Values /\ addr' \in [Sections -> Nat]
         /\ \A s \in Sections : addr[s] <= addr'[s]
         /\ \A a \in Assignments : value[a] <= value'[a]
<1> DEFINE q == Here
           v2 == Evaluates(bodies, d, z, value, q)
<1>1. /\ script \in Scripts /\ bodies \in Contents /\ value \in Values /\ d \in Counters /\ z \in Sizes
      /\ Arranged(bodies) /\ Sound(bodies, d, z, value) /\ q \in Points(bodies)
      /\ Len(script.sections) \in Nat /\ Sections = 1..Len(script.sections)
  BY GrowingIs DEF Growth, UpTo, Upward, Moves
<1>2. /\ d2 \in Counters /\ v2 \in Values
      /\ \A r \in Point : d[r] <= d2[r]
      /\ \A a \in Assignments : value[a] <= v2[a]
      /\ Sound(bodies, d2, z, v2)
  BY <1>1, StepUp
<1>3. Sound(bodies, d2, z2, v2)
  BY <1>1, <1>2, SizesUp
<1>4. script' = script /\ bodies' = bodies /\ value' = v2 /\ addr' = At(d2) /\ paddr' = addr'
      /\ Here' = Following(bodies, q) /\ dot' = Reached(bodies, d, z, value, q) /\ Walking'
  BY DEF Moves
<1>5. Following(bodies, q) \in Point /\ Following(bodies, q) # <<0, 3, 1>> /\ q \in Point
  BY <1>1, PointIs
<1>6. dot' = d2[Here']
  BY <1>1, <1>4, <1>5 DEF Arrives, Counters
<1>7. d2[<<0, 3, 1>>] = 0
  BY <1>1, <1>5 DEF Arrives, Counters, Growth, Upward
<1>8. Sound(bodies, d2, z2, value)'
  BY <1>3, <1>4, WalkFixes
<1>9. At(d2)' = At(d2) /\ \A r, k : CursorAt(d2, r, k)' = CursorAt(d2, r, k)
  BY <1>4, WalkFixes
<1>10. \A r \in DOMAIN script.regions : (RegionCursor(r))' = CursorAt(d2, r, Behind)'
  BY <1>9
<1>11. Upward(d2, z2)'
  BY <1>4, <1>6, <1>7, <1>8, <1>9, <1>10 DEF Upward
<1>12. ASSUME NEW s \in Sections PROVE addr[s] <= addr'[s]
  <2>1. <<s, 2, 1>> \in Point
    BY <1>1 DEF Point
  <2>2. addr[s] = d[<<s, 2, 1>>] /\ addr'[s] = d2[<<s, 2, 1>>]
    BY <1>4 DEF Growth, Upward, At
  <2> QED BY <1>2, <2>1, <2>2
<1>13. At(d2) \in [Sections -> Nat]
  <2>1. \A s \in Sections : <<s, 2, 1>> \in Point
    BY <1>1 DEF Point
  <2> QED BY <1>2, <2>1 DEF At, Counters
<1> QED BY <1>2, <1>4, <1>11, <1>12, <1>13

\* One assignment more has been evaluated, or as many as before.
Reaches(m) == IF Standing(bodies, Here) = 0 THEN m ELSE Standing(bodies, Here)

\* The assignment at a point comes directly behind those that have been evaluated.
LEMMA ReachesIs ==
  ASSUME Inv, Typed, Growing, NEW m \in Nat, UpTo(m), Walking, Here \in Points(bodies)
  PROVE  /\ Reaches(m) \in Nat /\ m <= Reaches(m) /\ Reaches(m) <= Len(script.assignments)
         /\ Standing(bodies, Here) # 0 =>
              /\ m < Reaches(m) /\ Reaches(m) \in Assignments
              /\ \A a \in Assignments : a < Reaches(m) <=> a <= m
<1> DEFINE q == Here
           a == Standing(bodies, q)
<1>1. /\ script \in Scripts /\ bodies \in Contents /\ Arranged(bodies) /\ q \in Points(bodies)
      /\ Len(script.assignments) \in Nat /\ Assignments = 1..Len(script.assignments)
  BY GrowingIs DEF UpTo
<1>2. a \in Assignments \cup {0}
  BY <1>1, PointIs
<1>3. CASE a = 0
  BY <1>1, <1>3 DEF Reaches, UpTo
<1>4. CASE a # 0
  <2>1. Reaches(m) = a /\ a \in Assignments /\ a \in Nat
    BY <1>1, <1>2, <1>4 DEF Reaches
  <2>2. m < a
    <3>1. ~Precedes(q, q)
      BY <1>1, NothingBetween
    <3> QED BY <1>1, <1>4, <2>1, <3>1 DEF UpTo
  <2>3. ASSUME NEW c \in Assignments, c < a PROVE c <= m
    <3>1. PICK r \in Points(bodies) : Standing(bodies, r) = c
      BY <1>1 DEF Arranged
    <3>2. c # 0
      BY <1>1
    <3>3. r # q /\ ~Precedes(q, r)
      BY <1>1, <1>4, <2>1, <2>3, <3>1, <3>2 DEF Arranged
    <3>4. Precedes(r, q)
      BY <1>1, <3>3, NothingBetween
    <3> QED BY <3>1, <3>2, <3>4, <1>1 DEF UpTo
  <2> QED BY <1>1, <2>1, <2>2, <2>3
<1> QED BY <1>3, <1>4

\* The next point is behind as many assignments as have been evaluated.
LEMMA MovesUpTo ==
  ASSUME Inv, Typed, Growing, NEW d, NEW z, NEW m \in Nat, UpTo(m), Moves(d, z),
         NEW k, k = Reaches(m)
  PROVE  UpTo(k)'
<1> DEFINE q == Here
<1>1. /\ script \in Scripts /\ bodies \in Contents /\ Arranged(bodies) /\ q \in Points(bodies)
      /\ Len(script.assignments) \in Nat /\ Assignments = 1..Len(script.assignments)
  BY GrowingIs DEF UpTo, Moves
<1>2. script' = script /\ bodies' = bodies /\ Here' = Following(bodies, q) /\ Walking' /\ Walking
  BY DEF Moves
<1>3. k \in Nat /\ k <= Len(script.assignments) /\ m <= k
  BY <1>1, <1>2, ReachesIs
<1>4. ASSUME NEW r \in Points(bodies), Standing(bodies, r) # 0
      PROVE  Standing(bodies, r) <= k <=> Precedes(r, Following(bodies, q))
  <2> DEFINE c == Standing(bodies, r)
  <2>1. c \in Assignments /\ c \in Nat
    BY <1>1, <1>4, PointIs
  <2>2. Precedes(r, Following(bodies, q)) <=> r = q \/ Precedes(r, q)
    BY <1>1, NothingBetween
  <2>3. c <= m <=> Precedes(r, q)
    BY <1>1, <1>2, <1>4 DEF UpTo
  <2>4. CASE Standing(bodies, q) = 0
    <3>1. k = m /\ r # q
      BY <1>4, <2>4 DEF Reaches
    <3> QED BY <2>2, <2>3, <3>1
  <2>5. CASE Standing(bodies, q) # 0
    <3>1. k = Standing(bodies, q) /\ (c < k <=> c <= m)
      BY <1>1, <1>2, <2>1, <2>5, ReachesIs DEF Reaches
    <3>2. c = k <=> r = q
      BY <1>1, <1>4, <2>5, <3>1, StandsOnce
    <3> QED BY <1>3, <2>1, <2>2, <2>3, <3>1, <3>2
  <2> QED BY <2>4, <2>5
<1> HIDE DEF q
<1>5. /\ Arranged(bodies)' /\ Points(bodies)' = Points(bodies)
      /\ \A r : Standing(bodies, r)' = Standing(bodies, r)
  BY <1>1, <1>2, WalkFixes
<1>6. \A r : (Precedes(r, Here)' <=> Precedes(r, Following(bodies, q)))
  BY <1>2 DEF Precedes
<1> QED BY <1>2, <1>3, <1>4, <1>5, <1>6 DEF UpTo

\* An assignment is worth the same if what it reads is the same.
LEMMA WorthAlike ==
  ASSUME script \in Scripts, NEW a \in Assignments, NEW p, NEW p2, NEW d, NEW d2, NEW z, NEW z2, NEW v,
         At(d) = At(d2), \A s : AsksSizeOf(a, s) => z[s] = z2[s], Places(a) => p = p2
  PROVE  Worth(a, p, d, z, v) = Worth(a, p2, d2, z2, v)
<1> DEFINE e == Assigned(a).expr
           E1 == Env(a, p, d, z, v)
           E2 == Env(a, p2, d2, z2, v)
<1>1. ExpressionFits(script, e)
  BY LayoutAssumption DEF LayoutAssumption, Assigned, Assignments
<1>2. /\ E1.addr = E2.addr /\ E1.paddr = E2.paddr /\ E1.value = E2.value /\ E1.means = E2.means
      /\ E1.dot = p /\ E2.dot = p2 /\ E1.size = z /\ E2.size = z2
  BY DEF Env
<1> HIDE DEF E1, E2
<1>3. ASSUME NEW i \in DOMAIN e PROVE TermValue(e[i], E1) = TermValue(e[i], E2)
  <2>1. TermFits(script, e[i])
    BY <1>1 DEF ExpressionFits
  <2>2. e[i].op = "sizeof" => z[e[i].sect] = z2[e[i].sect]
    BY DEF AsksSizeOf
  <2>3. e[i].op \in {"dot", "align"} => p = p2
    BY DEF Places, Asks
  <2> QED BY <1>2, <2>1, <2>2, <2>3 DEF TermFits, TermValue
<1> HIDE DEF e
<1>4. Evaluate(e, E1) = Evaluate(e, E2)
  BY <1>3, ExpressionAlike
<1> QED BY <1>4 DEF e, E1, E2, Worth

\* Nothing is less than in the snapshot.
LEMMA MovesRisen ==
  ASSUME script' = script, snapshot' = snapshot, Risen,
         addr \in [Sections -> Nat], addr' \in [Sections -> Nat], value \in Values, value' \in Values,
         \A s \in Sections : addr[s] <= addr'[s], \A a \in Assignments : value[a] <= value'[a]
  PROVE  Risen'
<1>1. Sections' = Sections /\ Assignments' = Assignments
  BY ScriptFixes
<1>2. ASSUME NEW s \in Sections PROVE snapshot.addr[s] <= addr'[s]
  <2>1. snapshot.addr[s] \in Nat /\ addr[s] \in Nat /\ addr'[s] \in Nat
    BY DEF Risen
  <2> QED BY <2>1 DEF Risen
<1>3. ASSUME NEW a \in Assignments PROVE snapshot.value[a] <= value'[a]
  <2>1. snapshot.value[a] \in Nat /\ value[a] \in Nat /\ value'[a] \in Nat
    BY DEF Risen, Values
  <2> QED BY <2>1 DEF Risen
<1> QED BY <1>1, <1>2, <1>3 DEF Risen

\* What is the same as in the snapshot was the same before.
LEMMA SameBefore ==
  ASSUME snapshot' = snapshot, Risen, Same',
         addr \in [Sections -> Nat], addr' \in [Sections -> Nat], value \in Values, value' \in Values,
         \A s \in Sections : addr[s] <= addr'[s], \A a \in Assignments : value[a] <= value'[a]
  PROVE  Same /\ addr' = addr /\ value' = value
<1>1. snapshot.addr = addr' /\ snapshot.value = value'
  BY DEF Same
<1>2. ASSUME NEW s \in Sections PROVE addr[s] = addr'[s]
  <2>1. addr[s] \in Nat /\ addr'[s] \in Nat /\ addr'[s] <= addr[s]
    BY <1>1 DEF Risen
  <2> QED BY <2>1
<1>3. ASSUME NEW a \in Assignments PROVE value[a] = value'[a]
  <2>1. value[a] \in Nat /\ value'[a] \in Nat /\ value'[a] <= value[a]
    BY <1>1 DEF Risen, Values
  <2> QED BY <2>1
<1>4. addr' = addr
  BY <1>2
<1>5. value' = value
  BY <1>3 DEF Values
<1> QED BY <1>1, <1>4, <1>5 DEF Same

\* An assignment that is evaluated is worth what it will be worth in the end, if nothing
\* changes any more.
LEMMA MovesSolve ==
  ASSUME Inv, Typed, Growing, NEW d, NEW z, NEW m, NEW n, Growth(d, z, m, n), Moves(d, z),
         NEW d2, d2 = Arrives(bodies, d, z, value, Here), NEW k, k = Reaches(m),
         NEW z2, SizesKnown => \A a \in Assignments : \A s : AsksSizeOf(a, s) => z[s] = z2[s],
         addr' \in [Sections -> Nat], value' \in Values,
         \A s \in Sections : addr[s] <= addr'[s], \A a \in Assignments : value[a] <= value'[a]
  PROVE  Solves(k, d2, z2)'
<1>1. /\ script \in Scripts /\ bodies \in Contents /\ value \in Values /\ d \in Counters /\ z \in Sizes
      /\ UpTo(m) /\ m \in Nat /\ Here \in Points(bodies) /\ addr \in [Sections -> Nat]
      /\ Len(script.assignments) \in Nat /\ Assignments = 1..Len(script.assignments)
      /\ Walking /\ Risen /\ Solves(m, d, z) /\ addr = At(d)
  BY GrowingIs DEF Growth, Moves, Upward
<1>2. /\ script' = script /\ snapshot' = snapshot /\ iteration' = iteration
      /\ value' = Evaluates(bodies, d, z, value, Here) /\ addr' = At(d2)
  BY DEF Moves
<1> SUFFICES ASSUME Same', SizesKnown', NEW a \in 1..k, ~Places(a)
             PROVE  value'[a] = Worth(a, 0, d2, z2, value')
  <2>1. \A c : Places(c)' <=> Places(c)
    BY <1>2 DEF Places, Assigned
  <2>2. \A c : Worth(c, 0, d2, z2, value)' = Worth(c, 0, d2, z2, value')
    BY <1>2, WalkFixes
  <2> QED BY <2>1, <2>2 DEF Solves
<1>3. k \in Nat /\ m <= k /\ k <= Len(script.assignments)
  BY <1>1, ReachesIs
<1>4. a \in Assignments
  BY <1>1, <1>3
<1>5. Same /\ addr' = addr /\ value' = value
  BY <1>1, <1>2, SameBefore
<1>6. SizesKnown
  <2>1. Assignments' = Assignments /\ \A c : (Assigned(c))' = Assigned(c)
    BY <1>2, ScriptFixes
  <2> QED BY <1>2, <2>1 DEF SizesKnown
<1>7. At(d) = At(d2) /\ \A s : AsksSizeOf(a, s) => z[s] = z2[s]
  BY <1>1, <1>2, <1>4, <1>5, <1>6
<1>8. Worth(a, 0, d2, z2, value) = Worth(a, 0, d, z, value)
  BY <1>1, <1>4, <1>7, WorthAlike
<1>9. CASE a <= m
  BY <1>1, <1>3, <1>5, <1>6, <1>8, <1>9 DEF Solves
<1>10. CASE ~(a <= m)
  <2>1. Standing(bodies, Here) # 0 /\ k = Standing(bodies, Here)
    BY <1>3, <1>10 DEF Reaches
  <2>2. a = k
    <3>1. a < k <=> a <= m
      BY <1>1, <1>4, <2>1, ReachesIs
    <3> QED BY <1>1, <1>3, <1>10, <3>1
  <2>3. value'[a] = Worth(a, d[Here], d, z, value)
    BY <1>1, <1>2, <1>4, <2>1, <2>2 DEF Evaluates, Values
  <2>4. Worth(a, d[Here], d, z, value) = Worth(a, 0, d, z, value)
    BY <1>1, <1>4, WorthAlike
  <2> QED BY <1>5, <1>8, <2>3, <2>4
<1> QED BY <1>9, <1>10

------------------------------------------------------------------------------
\* An assignment is evaluated.

\* A name is read of the assignment that it stands for.
LEMMA ReadsMeant ==
  ASSUME Inv, Typed, Growing, NEW m \in Nat, NEW n \in Nat, UpTo(m), Meant(m, n),
         Walking, Here \in Points(bodies), NEW a \in Assignments, Standing(bodies, Here) = a,
         NEW x \in NamesIn(Assigned(a).expr)
  PROVE  Source(<<"assign", a>>, x) = MeantBy(a, x)
<1>1. /\ script \in Scripts /\ Len(script.assignments) \in Nat /\ Assignments = 1..Len(script.assignments)
  BY GrowingIs
<1>2. a \in Nat /\ a # 0 /\ Reaches(m) = a /\ m < a /\ m <= n /\ n <= Len(script.assignments)
      /\ \A c \in Assignments : c < a <=> c <= m
  BY <1>1, ReachesIs DEF Reaches, Meant
<1>3. x \in Names
  <2>1. ExpressionFits(script, Assigned(a).expr)
    BY <1>1, LayoutAssumption DEF LayoutAssumption, Assigned, Assignments
  <2> QED BY <2>1, NamesAreAssigned
<1> DEFINE p == <<<<"assign", a>>, x>>
           before == {b \in Assignments : Assigned(b).name = x /\ b < a}
<1>4. \A q \in DOMAIN source : \E b \in 1..n : \E y \in NamesIn(Assigned(b).expr) :
        q = <<<<"assign", b>>, y>> /\ source[q] = MeantBy(b, y)
  BY DEF Meant
<1>5. CASE a <= n
  <2>1. p \in DOMAIN source
    BY <1>2, <1>5 DEF Meant
  <2>2. PICK b \in 1..n : \E y \in NamesIn(Assigned(b).expr) :
          p = <<<<"assign", b>>, y>> /\ source[p] = MeantBy(b, y)
    BY <1>4, <2>1
  <2>3. source[p] = MeantBy(a, x)
    BY <2>2
  <2> QED BY <2>1, <2>3 DEF Source
<1>6. CASE ~(a <= n)
  <2>1. n = m
    <3>1. CASE n = 0
      BY <1>2, <3>1
    <3>2. CASE n # 0
      <4>1. n \in Assignments
        BY <1>1, <1>2, <3>2
      <4> QED BY <1>2, <1>6, <4>1
    <3> QED BY <3>1, <3>2
  <2>2. p \notin DOMAIN source
    <3> SUFFICES ASSUME p \in DOMAIN source PROVE FALSE
      OBVIOUS
    <3>1. PICK b \in 1..n : \E y \in NamesIn(Assigned(b).expr) : p = <<<<"assign", b>>, y>>
      BY <1>4
    <3>2. a = b
      BY <3>1
    <3> QED BY <1>6, <3>1, <3>2
  <2>3. before = Named(x, m)
    <3>1. \A b : b \in 1..m <=> b \in Assignments /\ b < a
      BY <1>1, <1>2
    <3> QED BY <3>1 DEF Named
  <2>4. MeantBy(a, x) = IF before = {} THEN LastAssignment(x) ELSE CHOOSE b \in before : \A c \in before : c <= b
    BY DEF MeantBy
  <2>5. /\ before # {} => latest[x] \in before /\ \A b \in before : b <= latest[x]
        /\ latest[x] \in {0} \cup before
    BY <1>3, <2>1, <2>3 DEF Meant
  <2>6. before \subseteq Nat \ {0}
    BY <1>1
  <2> HIDE DEF before
  <2>7. CASE before = {}
    <3>1. latest[x] = 0
      BY <2>5, <2>7
    <3> QED BY <2>2, <2>4, <2>7, <3>1 DEF Source
  <2>8. CASE before # {}
    <3>1. latest[x] \in before /\ latest[x] # 0 /\ \A b \in before : b <= latest[x]
      BY <2>5, <2>6, <2>8
    <3>2. \A b \in before : (\A c \in before : c <= b) => b = latest[x]
      <4> TAKE b \in before
      <4> HAVE \A c \in before : c <= b
      <4>1. latest[x] <= b /\ b <= latest[x] /\ b \in Nat /\ latest[x] \in Nat
        BY <2>6, <3>1
      <4> QED BY <4>1
    <3>3. latest[x] = CHOOSE b \in before : \A c \in before : c <= b
      BY <3>1, <3>2
    <3> QED BY <2>2, <2>4, <2>8, <3>1, <3>3 DEF Source
  <2> QED BY <2>7, <2>8
<1> QED BY <1>2, <1>5, <1>6

\* A size is asked of a section that has it.
LEMMA AskedIs ==
  ASSUME Inv, Typed, Growing, NEW z, Filled(z), WithinSection,
         Walking, Here \in Points(bodies), NEW a \in Assignments, Standing(bodies, Here) = a,
         NEW s \in Sections, AsksSizeOf(a, s)
  PROVE  size[s] = z[s]
<1>1. /\ script \in Scripts /\ bodies \in Contents
      /\ Assignments = 1..Len(script.assignments)
  BY GrowingIs
<1>2. Rigid(s) /\ \A i \in DOMAIN Section(s).body :
        Section(s).body[i].op = "assign" => Section(s).body[i].n # a
  BY DEF Growing
<1>3. ~(pc = "body" /\ s = walk.out)
  <2> SUFFICES ASSUME pc = "body", s = walk.out PROVE FALSE
    OBVIOUS
  <2>1. Here = <<s, 2, walk.item>> /\ a # 0
    BY <1>1 DEF Here
  <2>2. walk.item <= Len(bodies[s]) /\ bodies[s][walk.item].op = "assign" /\ bodies[s][walk.item].n = a
    BY <2>1 DEF Standing
  <2>3. bodies[s] \in Seq(Items) /\ walk.item \in Nat \ {0}
    BY <1>1, GrowingIs DEF Contents
  <2>4. walk.item \in DOMAIN bodies[s]
    BY <2>2, <2>3
  <2>5. \E j \in DOMAIN Section(s).body : Section(s).body[j] = bodies[s][walk.item]
    BY <2>2, <2>4 DEF WithinSection
  <2> QED BY <1>2, <2>2, <2>5
<1> QED BY <1>2, <1>3 DEF Filled

\* So it is worth what its expression says at this point.
LEMMA ValueIsWorth ==
  ASSUME Inv, Typed, Growing, NEW d, NEW z, NEW m, NEW n, Growth(d, z, m, n),
         Walking, Here \in Points(bodies), NEW a \in Assignments, Standing(bodies, Here) = a
  PROVE  Value(<<"assign", a>>, Assigned(a).expr, addr, dot) = Worth(a, d[Here], d, z, value)
<1> DEFINE e == Assigned(a).expr
           E1 == [dot |-> dot, addr |-> addr, paddr |-> paddr, size |-> size, value |-> value,
                  means |-> [x \in NamesIn(e) |-> Source(<<"assign", a>>, x)]]
           E2 == Env(a, d[Here], d, z, value)
<1>1. /\ m \in Nat /\ n \in Nat /\ UpTo(m) /\ Meant(m, n) /\ Filled(z) /\ WithinSection
      /\ dot = d[Here] /\ addr = At(d) /\ paddr = At(d)
  BY DEF Growth, Upward
<1>2. ExpressionFits(script, e)
  BY GrowingIs, LayoutAssumption DEF LayoutAssumption, Assigned, Assignments
<1>3. E1.means = E2.means
  <2>1. \A x \in NamesIn(e) : Source(<<"assign", a>>, x) = MeantBy(a, x)
    BY <1>1, ReadsMeant
  <2> QED BY <2>1 DEF Env
<1>4. /\ E1.addr = E2.addr /\ E1.paddr = E2.paddr /\ E1.value = E2.value
      /\ E1.dot = E2.dot /\ E1.size = size /\ E2.size = z
  BY <1>1 DEF Env
<1>5. Value(<<"assign", a>>, e, addr, dot) = Evaluate(e, E1) /\ Worth(a, d[Here], d, z, value) = Evaluate(e, E2)
  BY DEF Value, Worth
<1> HIDE DEF E1, E2
<1>6. ASSUME NEW i \in DOMAIN e PROVE TermValue(e[i], E1) = TermValue(e[i], E2)
  <2>1. TermFits(script, e[i])
    BY <1>2 DEF ExpressionFits
  <2>2. e[i].op = "sizeof" => size[e[i].sect] = z[e[i].sect]
    <3> SUFFICES ASSUME e[i].op = "sizeof" PROVE size[e[i].sect] = z[e[i].sect]
      OBVIOUS
    <3>1. e[i].sect \in Sections /\ AsksSizeOf(a, e[i].sect)
      BY <2>1 DEF TermFits, AsksSizeOf, Sections
    <3> QED BY <1>1, <3>1, AskedIs
  <2> QED BY <1>3, <1>4, <2>1, <2>2 DEF TermFits, TermValue
<1> HIDE DEF e
<1>7. Evaluate(e, E1) = Evaluate(e, E2)
  BY <1>6, ExpressionAlike
<1> QED BY <1>5, <1>7 DEF e

\* An assignment that has been evaluated is the latest to its name.
LEMMA AssignMeant ==
  ASSUME Inv, Typed, Growing, NEW m \in Nat, NEW n \in Nat, UpTo(m), Meant(m, n),
         Walking, Here \in Points(bodies), NEW a \in Assignments, Standing(bodies, Here) = a,
         Assign(a), script' = script, NEW n2, n2 = IF n < a THEN a ELSE n
  PROVE  Meant(a, n2)'
<1>1. /\ script \in Scripts /\ Len(script.assignments) \in Nat /\ Assignments = 1..Len(script.assignments)
  BY GrowingIs
<1>2. a \in Nat /\ a # 0 /\ Reaches(m) = a /\ m < a /\ m <= n /\ n <= Len(script.assignments)
      /\ \A c \in Assignments : c < a <=> c <= m
  BY <1>1, ReachesIs DEF Reaches, Meant
<1>3. n2 \in Nat /\ a <= n2 /\ n <= n2 /\ n2 <= Len(script.assignments) /\ \A c \in 1..n2 : c \in 1..n \/ c = a
  <2>1. \A c \in 1..n2 : c \in 1..n \/ c = a
    <3> SUFFICES ASSUME NEW c \in 1..n2, ~(c <= n), c # a PROVE FALSE
      BY <1>2
    <3>1. c < a /\ c \in Assignments
      BY <1>1, <1>2
    <3> QED BY <1>2, <3>1
  <2> QED BY <1>1, <1>2, <2>1
<1> DEFINE e == Assigned(a).expr
           R == {<<<<"assign", a>>, x>> : x \in NamesIn(e)}
<1>4. /\ latest' = [latest EXCEPT ![Assigned(a).name] = a]
      /\ source' = [p \in DOMAIN source \cup R |-> Source(p[1], p[2])]
  BY DEF Assign, Remember
<1>5. ASSUME NEW p \in DOMAIN source'
      PROVE  \E c \in 1..n2 : \E x \in NamesIn(Assigned(c).expr) :
               p = <<<<"assign", c>>, x>> /\ source'[p] = MeantBy(c, x)
  <2>1. source'[p] = Source(p[1], p[2])
    BY <1>4, <1>5
  <2>2. CASE p \in DOMAIN source
    <3>1. PICK c \in 1..n : \E x \in NamesIn(Assigned(c).expr) :
            p = <<<<"assign", c>>, x>> /\ source[p] = MeantBy(c, x)
      BY <2>2 DEF Meant
    <3>2. p = <<p[1], p[2]>>
      BY <3>1
    <3>3. Source(p[1], p[2]) = source[p]
      BY <2>2, <3>2 DEF Source
    <3>4. c \in 1..n2
      BY <1>2, <1>3, <3>1
    <3> QED BY <2>1, <3>1, <3>3, <3>4
  <2>3. CASE p \in R
    <3>1. PICK x \in NamesIn(e) : p = <<<<"assign", a>>, x>>
      BY <2>3
    <3>2. Source(p[1], p[2]) = MeantBy(a, x)
      BY <3>1, ReadsMeant
    <3>3. a \in 1..n2
      BY <1>2, <1>3
    <3> QED BY <2>1, <3>1, <3>2, <3>3
  <2> QED BY <1>4, <1>5, <2>2, <2>3
<1>6. ASSUME NEW c \in 1..n2, NEW x \in NamesIn(Assigned(c).expr)
      PROVE  <<<<"assign", c>>, x>> \in DOMAIN source'
  <2>1. c \in 1..n \/ c = a
    BY <1>3
  <2>2. DOMAIN source' = DOMAIN source \cup R
    BY <1>4
  <2> QED BY <2>1, <2>2 DEF Meant
<1>7. ASSUME NEW y \in Names
      PROVE  /\ Named(y, a) # {} => latest'[y] \in Named(y, a) /\ \A b \in Named(y, a) : b <= latest'[y]
             /\ latest'[y] \in {0} \cup Named(y, n2)
  <2>1. DOMAIN latest = Names
    BY DEF Typed, ValuesTyped
  <2>2. CASE y = Assigned(a).name
    <3>1. latest'[y] = a
      BY <1>4, <2>1, <2>2
    <3>2. a \in Named(y, a) /\ a \in Named(y, n2) /\ \A b \in Named(y, a) : b <= a
      BY <1>2, <1>3, <2>2 DEF Named
    <3> QED BY <3>1, <3>2
  <2>3. CASE y # Assigned(a).name
    <3>1. latest'[y] = latest[y]
      BY <1>4, <2>1, <2>3
    <3>2. \A b : b \in 1..a /\ b # a <=> b \in 1..m
      BY <1>1, <1>2
    <3>3. Named(y, a) = Named(y, m)
      BY <1>2, <2>3, <3>2 DEF Named
    <3>4. Named(y, n) \subseteq Named(y, n2)
      <4>1. 1..n \subseteq 1..n2
        BY <1>2, <1>3
      <4> QED BY <4>1 DEF Named
    <3> QED BY <3>1, <3>3, <3>4 DEF Meant
  <2> QED BY <2>2, <2>3
<1>8. /\ Names' = Names /\ \A c : (Assigned(c))' = Assigned(c)
      /\ \A c, x : MeantBy(c, x)' = MeantBy(c, x)
      /\ \A x, k : Named(x, k)' = Named(x, k)
  BY ScriptFixes, WalkFixes DEF Named
<1> HIDE DEF e, R
<1> QED BY <1>3, <1>5, <1>6, <1>7, <1>8 DEF Meant

\* What is not evaluated changes nothing of this.
LEMMA KeepsMeant ==
  ASSUME NEW m, NEW n, Meant(m, n), script' = script, latest' = latest,
         DOMAIN source' = DOMAIN source, \A p \in DOMAIN source : source'[p] = source[p]
  PROVE  Meant(m, n)'
<1>1. /\ Names' = Names /\ \A c : (Assigned(c))' = Assigned(c)
      /\ \A c, x : MeantBy(c, x)' = MeantBy(c, x)
      /\ \A x, k : Named(x, k)' = Named(x, k)
  BY ScriptFixes, WalkFixes DEF Named
<1> QED BY <1>1 DEF Meant

\* The cursor of a region depends on the counter behind its sections.
LEMMA CursorAlike ==
  ASSUME script \in Scripts, NEW d, NEW d2, NEW r, NEW k,
         \A t \in Sections : t <= k => d[<<t, 3, 1>>] = d2[<<t, 3, 1>>]
  PROVE  CursorAt(d, r, k) = CursorAt(d2, r, k)
<1>1. Len(script.sections) \in Nat /\ Sections = 1..Len(script.sections)
  BY SectionsAreNumbered
<1>2. InRegion(r, k) \subseteq 1..Len(script.sections)
  BY <1>1 DEF InRegion
<1>3. ASSUME InRegion(r, k) # {} PROVE Hindmost(InRegion(r, k)) \in InRegion(r, k)
  BY <1>1, <1>2, <1>3, HindmostIs
<1>4. InRegion(r, k) # {} => d[<<Hindmost(InRegion(r, k)), 3, 1>>] = d2[<<Hindmost(InRegion(r, k)), 3, 1>>]
  BY <1>3 DEF InRegion
<1> QED BY <1>4 DEF CursorAt

\* A section that has been finished in a region sets its cursor.
LEMMA CursorBehind ==
  ASSUME script \in Scripts, NEW s \in Sections, NEW d, NEW r
  PROVE  CursorAt(d, r, s) = IF Section(s).region = r THEN d[<<s, 3, 1>>] ELSE CursorAt(d, r, s - 1)
<1>1. Len(script.sections) \in Nat /\ Sections = 1..Len(script.sections)
  BY SectionsAreNumbered
<1>2. InRegion(r, s) \subseteq 1..Len(script.sections)
  BY <1>1 DEF InRegion
<1>3. CASE Section(s).region = r
  <2>1. s \in InRegion(r, s) /\ s \in Nat
    BY <1>1, <1>3 DEF InRegion
  <2>2. Hindmost(InRegion(r, s)) \in InRegion(r, s) /\ s <= Hindmost(InRegion(r, s))
    BY <1>1, <1>2, <2>1, HindmostIs
  <2>3. Hindmost(InRegion(r, s)) = s
    BY <1>1, <2>1, <2>2 DEF InRegion
  <2> QED BY <1>3, <2>1, <2>3 DEF CursorAt
<1>4. CASE Section(s).region # r
  <2>1. InRegion(r, s) = InRegion(r, s - 1)
    BY <1>1, <1>4 DEF InRegion
  <2> QED BY <1>4, <2>1 DEF CursorAt
<1> QED BY <1>3, <1>4

\* A step that finishes no section leaves the cursors.
LEMMA CursorsStay ==
  ASSUME Inv, Typed, Growing, NEW d, NEW z, NEW m, NEW n, Growth(d, z, m, n), Moves(d, z),
         cursor' = cursor, Behind' = Behind,
         Here[2] = 2 => Here[3] <= Len(bodies[Here[1]])
  PROVE  LET d2 == Arrives(bodies, d, z, value, Here)
         IN  \A r \in DOMAIN script.regions : (RegionCursor(r))' = CursorAt(d2, r, Behind')
<1> DEFINE q == Here
           d2 == Arrives(bodies, d, z, value, q)
<1>1. /\ script \in Scripts /\ bodies \in Contents /\ q \in Points(bodies) /\ script' = script
      /\ Sections = 1..Len(script.sections) /\ Len(script.sections) \in Nat /\ d \in Counters
  BY GrowingIs DEF Moves, Growth
<1>2. \A r \in DOMAIN script.regions : RegionCursor(r) = CursorAt(d, r, Behind)
  BY DEF Growth, Upward
<1>3. \A r : (RegionCursor(r))' = RegionCursor(r)
  BY <1>1 DEF RegionCursor
<1>4. ASSUME NEW t \in Sections PROVE d[<<t, 3, 1>>] = d2[<<t, 3, 1>>]
  <2>1. Following(bodies, q) # <<t, 3, 1>>
    <3>1. q[2] = 3 => q[3] \in Nat \ {0}
      BY <1>1 DEF Points
    <3>2. q[2] = 2 => q[3] <= Len(bodies[q[1]])
      OBVIOUS
    <3> HIDE DEF q
    <3>3. CASE q[2] = 3
      <4>1. q[3] + 1 # 1
        BY <3>1, <3>3
      <4>2. Following(bodies, q) \in {<<q[1], 3, q[3] + 1>>, <<q[1] + 1, 1, 1>>}
        BY <3>3 DEF Following
      <4> QED BY <4>1, <4>2
    <3>4. CASE q[2] # 3
      <4>1. Following(bodies, q) \in {<<q[1], 2, 1>>, <<q[1], 2, q[3] + 1>>}
        BY <1>1, <3>2, <3>4 DEF Following, Points
      <4> QED BY <4>1
    <3> QED BY <3>3, <3>4
  <2> QED BY <2>1, <1>1 DEF Arrives, Counters
<1> HIDE DEF d2
<1>5. \A r : CursorAt(d, r, Behind) = CursorAt(d2, r, Behind)
  BY <1>1, <1>4, CursorAlike
<1> QED BY <1>2, <1>3, <1>5 DEF d2

\* All that a step to the next point has to show.
LEMMA MovesGrow ==
  ASSUME Inv, Typed, Growing, NEW d, NEW z, NEW m, NEW n, Growth(d, z, m, n), Moves(d, z),
         NEW z2 \in Sizes, \A s \in Sections : z[s] <= z2[s],
         SizesKnown => \A a \in Assignments : \A s : AsksSizeOf(a, s) => z[s] = z2[s],
         LET d2 == Arrives(bodies, d, z, value, Here)
         IN  \A r \in DOMAIN script.regions : (RegionCursor(r))' = CursorAt(d2, r, Behind'),
         WithinSection', Filled(z2)',
         NEW k, k = Reaches(m), NEW n2 \in Nat, Meant(k, n2)'
  PROVE  \E e, y, l, p : Growth(e, y, l, p)'
<1> DEFINE e1 == Arrives(bodies, d, z, value, Here)
<1>1. \E e : e = e1
  OBVIOUS
<1>2. PICK e : e = e1
  BY <1>1
<1>3. m \in Nat /\ UpTo(m) /\ Risen /\ Walking /\ Here \in Points(bodies)
  BY DEF Growth, Moves
<1>4. /\ e \in Counters /\ Upward(e, z2)' /\ value' \in Values /\ addr' \in [Sections -> Nat]
      /\ \A s \in Sections : addr[s] <= addr'[s]
      /\ \A a \in Assignments : value[a] <= value'[a]
  BY <1>2, MovesUp
<1>5. script' = script /\ snapshot' = snapshot /\ Walking'
  BY DEF Moves
<1>6. addr \in [Sections -> Nat] /\ value \in Values
  BY GrowingIs
<1>7. UpTo(k)' /\ k \in Nat
  BY <1>3, MovesUpTo, ReachesIs
<1>8. Risen'
  BY <1>3, <1>4, <1>5, <1>6, MovesRisen
<1>9. Solves(k, e, z2)'
  BY <1>2, <1>4, MovesSolve
<1>10. Agreement'
  BY <1>5 DEF Agreement, Converged, Walking
<1>11. e \in Counters' /\ z2 \in Sizes'
  BY <1>4, <1>5, ScriptFixes
<1>12. Growth(e, z2, k, n2)'
  BY <1>4, <1>7, <1>8, <1>9, <1>10, <1>11 DEF Growth
<1> QED BY <1>12

\* A step that finishes no section, and evaluates nothing.
LEMMA MovesOn ==
  ASSUME Inv, Typed, Growing, NEW d, NEW z, NEW m, NEW n, Growth(d, z, m, n), Moves(d, z),
         cursor' = cursor, Behind' = Behind, Here[2] = 2 => Here[3] <= Len(bodies[Here[1]]),
         Standing(bodies, Here) = 0, latest' = latest,
         DOMAIN source' = DOMAIN source, \A p \in DOMAIN source : source'[p] = source[p],
         WithinSection', Filled(z)'
  PROVE  \E e, y, l, p : Growth(e, y, l, p)'
<1>1. z \in Sizes /\ m \in Nat /\ n \in Nat /\ Meant(m, n) /\ script' = script
  BY DEF Growth, Moves
<1>2. \A s \in Sections : z[s] <= z[s]
  BY <1>1 DEF Sizes
<1>3. m = Reaches(m)
  BY DEF Reaches
<1>4. Meant(m, n)'
  BY <1>1, KeepsMeant
<1> QED BY <1>1, <1>2, <1>3, <1>4, CursorsStay, MovesGrow

\* A step that evaluates an assignment.
LEMMA MovesEvaluating ==
  ASSUME Inv, Typed, Growing, NEW d, NEW z, NEW m, NEW n, Growth(d, z, m, n), Moves(d, z),
         cursor' = cursor, Behind' = Behind,
         NEW a \in Assignments, Standing(bodies, Here) = a, Assign(a),
         WithinSection', Filled(z)'
  PROVE  \E e, y, l, p : Growth(e, y, l, p)'
<1>1. /\ z \in Sizes /\ m \in Nat /\ n \in Nat /\ Meant(m, n) /\ UpTo(m) /\ script' = script
      /\ Walking /\ Here \in Points(bodies)
  BY DEF Growth, Moves
<1>2. \A s \in Sections : z[s] <= z[s]
  BY <1>1 DEF Sizes
<1>3. a \in Nat /\ a # 0
  BY GrowingIs
<1>4. a = Reaches(m)
  BY <1>3 DEF Reaches
<1>5. Here[2] = 2 => Here[3] <= Len(bodies[Here[1]])
  BY <1>3 DEF Standing
<1>6. \E n2 : n2 = IF n < a THEN a ELSE n
  OBVIOUS
<1>7. PICK n2 : n2 = IF n < a THEN a ELSE n
  BY <1>6
<1>8. Meant(a, n2)'
  BY <1>1, <1>7, AssignMeant
<1>9. n2 \in Nat
  BY <1>1, <1>3, <1>7
<1> QED BY <1>1, <1>2, <1>4, <1>5, <1>8, <1>9, CursorsStay, MovesGrow

\* A step within a section or behind it leaves the addresses.
LEMMA AtStays ==
  ASSUME script \in Scripts, NEW b \in Contents, NEW d \in Counters, NEW z, NEW v, NEW q \in Points(b), q[2] # 1
  PROVE  At(Arrives(b, d, z, v, q)) = At(d)
<1>1. q[3] \in Nat \ {0}
  BY DEF Points
<1>2. \A t \in Sections : Following(b, q) # <<t, 2, 1>>
  <2>1. q[3] + 1 # 1
    BY <1>1
  <2>2. Following(b, q) \in {<<q[1], 2, q[3] + 1>>, <<q[1], 3, 1>>, <<q[1], 3, q[3] + 1>>, <<q[1] + 1, 1, 1>>}
    BY DEF Following
  <2> QED BY <2>1, <2>2
<1>3. \A t \in Sections : Arrives(b, d, z, v, q)[<<t, 2, 1>>] = d[<<t, 2, 1>>]
  BY <1>2 DEF Arrives, Counters
<1> QED BY <1>3 DEF At

\* An assignment is evaluated and the walk goes on.
LEMMA AssignMoves ==
  ASSUME Inv, Typed, Growing, NEW d, NEW z, NEW m, NEW n, Growth(d, z, m, n),
         Walking, Here \in Points(bodies), NEW a \in Assignments, Standing(bodies, Here) = a, Assign(a),
         UNCHANGED <<script, bodies, addr, paddr, iteration, snapshot>>,
         Here' = Following(bodies, Here), Walking'
  PROVE  Moves(d, z)
<1> DEFINE q == Here
           w == Worth(a, d[q], d, z, value)
           c == Value(<<"assign", a>>, Assigned(a).expr, addr, dot)
<1>1. /\ script \in Scripts /\ bodies \in Contents /\ d \in Counters /\ a # 0
      /\ dot = d[q] /\ addr = At(d) /\ paddr = addr
  BY GrowingIs DEF Growth, Upward
<1>2. c = w
  BY ValueIsWorth
<1>3. value' = [value EXCEPT ![a] = c] /\ dot' = IF Assigned(a).name = "." THEN c ELSE dot
  BY DEF Assign
<1>4. value' = Evaluates(bodies, d, z, value, q)
  BY <1>1, <1>2, <1>3 DEF Evaluates
<1>5. q[2] # 1
  BY <1>1, PointIs
<1>6. dot' = Reached(bodies, d, z, value, q)
  BY <1>1, <1>2, <1>3, <1>5 DEF Reached
<1>7. At(Arrives(bodies, d, z, value, q)) = At(d)
  BY <1>1, <1>5, AtStays
<1> QED BY <1>1, <1>4, <1>6, <1>7 DEF Moves

\* Nothing is evaluated and the walk goes on.
LEMMA OtherMoves ==
  ASSUME Inv, Typed, Growing, NEW d, NEW z, NEW m, NEW n, Growth(d, z, m, n),
         Walking, Here \in Points(bodies), Standing(bodies, Here) = 0, Here[2] # 1,
         UNCHANGED <<script, bodies, addr, paddr, value, iteration, snapshot>>,
         Here' = Following(bodies, Here), Walking', dot' = Reached(bodies, d, z, value, Here)
  PROVE  Moves(d, z)
<1>1. /\ script \in Scripts /\ bodies \in Contents /\ d \in Counters
      /\ addr = At(d) /\ paddr = addr
  BY GrowingIs DEF Growth, Upward
<1>2. At(Arrives(bodies, d, z, value, Here)) = At(d)
  BY <1>1, AtStays
<1>3. value' = Evaluates(bodies, d, z, value, Here)
  BY DEF Evaluates
<1> QED BY <1>1, <1>2, <1>3 DEF Moves

\* What the walk is within of does not depend on sizes that stay.
LEMMA FilledStays ==
  ASSUME NEW z, Filled(z), UNCHANGED <<script, bodies, iteration, size>>,
         pc # "body", pc' # "body", \A s \in Sections : Finished(s)' => Finished(s)
  PROVE  Filled(z)'
<1>1. Sections' = Sections /\ \A s : (Rigid(s) <=> Rigid(s)')
  BY ScriptFixes
<1>2. \A s : ContentOf(s)' = ContentOf(s)
  BY DEF ContentOf, Section
<1> QED BY <1>1, <1>2 DEF Filled

\* The first parts of WithinSection.
LEMMA WithinStays ==
  ASSUME WithinSection, UNCHANGED <<script, bodies>>,
         \A s \in Sections : bodies[s] = <<>> => size'[s] = size[s]
  PROVE  /\ \A s \in Sections' : \A i \in DOMAIN bodies'[s] : bodies'[s][i].op = "assign" =>
              \E j \in DOMAIN Section(s)'.body : Section(s)'.body[j] = bodies'[s][i]
         /\ \A s \in Sections' : bodies'[s] = <<>> => size'[s] = 0
<1>1. Sections' = Sections /\ \A s : (Section(s))' = Section(s)
  BY ScriptFixes
<1> QED BY <1>1 DEF WithinSection

\* The assignments before the sections.
LEMMA EvaluateBeforeGrows ==
  ASSUME Inv, Typed, Growing, NEW d, NEW z, NEW m, NEW n, Growth(d, z, m, n), EvaluateBefore
  PROVE  \E e, y, l, p : Growth(e, y, l, p)'
<1> DEFINE a == script.before[walk.item]
           q == Here
<1>1. /\ pc = "before" /\ walk.item <= Len(script.before) /\ Assign(a)
      /\ walk'.item = walk.item + 1 /\ walk'.out = walk.out
      /\ UNCHANGED <<script, bodies, addr, paddr, size, cursor, iteration, snapshot, pc>>
  BY DEF EvaluateBefore, placed, loop, Inv, Shape, WalkFields
<1>2. /\ walk.item \in Nat \ {0} /\ script.before \in Seq(Assignments) /\ WithinSection /\ Filled(z)
      /\ Assignments = 1..Len(script.assignments)
  BY GrowingIs DEF Growth
<1>3. a \in Assignments /\ a # 0
  BY <1>1, <1>2
<1>4. Walking /\ Walking' /\ q \in Points(bodies) /\ q = <<0, 3, walk.item>> /\ Here' = <<0, 3, walk.item + 1>>
  BY <1>1, <1>2, HereIs DEF Walking, Here
<1>5. Standing(bodies, q) = a /\ Following(bodies, q) = <<0, 3, walk.item + 1>>
  BY <1>1, <1>4 DEF Standing, Following, AfterOf
<1>6. Moves(d, z)
  BY <1>1, <1>3, <1>4, <1>5, AssignMoves
<1>7. Behind' = Behind
  BY <1>1 DEF Behind
<1>8. Filled(z)'
  BY <1>1, <1>2, FilledStays DEF Finished
<1>9. WithinSection'
  <2>1. walk'.item <= Len(script'.before) + 1
    BY <1>1, <1>2
  <2> QED BY <1>1, <1>2, <2>1, WithinStays DEF WithinSection
<1> QED BY <1>1, <1>3, <1>5, <1>6, <1>7, <1>8, <1>9, MovesEvaluating

\* The first section.
LEMMA BeginSectionsGrows ==
  ASSUME Inv, Typed, Growing, NEW d, NEW z, NEW m, NEW n, Growth(d, z, m, n), BeginSections
  PROVE  \E e, y, l, p : Growth(e, y, l, p)'
<1> DEFINE q == Here
<1>1. /\ pc = "before" /\ pc' = "place" /\ walk.item > Len(script.before)
      /\ walk'.item = 1 /\ walk'.out = walk.out
      /\ UNCHANGED <<script, bodies, addr, paddr, size, value, latest, source, dot, cursor, iteration, snapshot>>
  BY DEF BeginSections, placed, values, loop, Inv, Shape, WalkFields
<1>2. /\ walk.item \in Nat \ {0} /\ script.before \in Seq(Assignments) /\ WithinSection /\ Filled(z)
      /\ dot = d[Here] \/ ~Walking
  BY GrowingIs DEF Growth, Upward
<1>3. walk.out = 1
  BY <1>1 DEF Typed, WalkTyped
<1>4. Walking /\ Walking' /\ q \in Points(bodies) /\ q = <<0, 3, walk.item>> /\ Here' = <<1, 1, 1>>
  BY <1>1, <1>2, <1>3, HereIs DEF Walking, Here
<1>5. Standing(bodies, q) = 0 /\ Following(bodies, q) = <<1, 1, 1>>
  <2>1. Len(script.before) \in Nat /\ ~(walk.item <= Len(script.before))
    BY <1>1, <1>2
  <2> QED BY <1>1, <1>4, <2>1 DEF Standing, Following, AfterOf
<1>6. dot' = Reached(bodies, d, z, value, q)
  BY <1>1, <1>2, <1>4, <1>5 DEF Reached
<1>7. Moves(d, z)
  BY <1>1, <1>4, <1>5, <1>6, OtherMoves
<1>8. Behind' = Behind
  BY <1>1 DEF Behind
<1>9. Filled(z)'
  BY <1>1, <1>2, FilledStays DEF Finished
<1>10. WithinSection'
  BY <1>1, <1>2, WithinStays DEF WithinSection
<1> QED BY <1>1, <1>4, <1>5, <1>7, <1>8, <1>9, <1>10, MovesOn

\* The assignments behind a section.
LEMMA EvaluateAfterGrows ==
  ASSUME Inv, Typed, Growing, NEW d, NEW z, NEW m, NEW n, Growth(d, z, m, n), EvaluateAfter
  PROVE  \E e, y, l, p : Growth(e, y, l, p)'
<1> DEFINE s == walk.out
           a == Section(s).after[walk.item]
           q == Here
<1>1. /\ pc = "after" /\ walk.item <= Len(Section(s).after) /\ Assign(a)
      /\ walk'.item = walk.item + 1 /\ walk'.out = walk.out
      /\ UNCHANGED <<script, bodies, addr, paddr, size, cursor, iteration, snapshot, pc>>
  BY DEF EvaluateAfter, placed, loop, Inv, Shape, WalkFields
<1>2. /\ walk.item \in Nat \ {0} /\ WithinSection /\ Filled(z)
      /\ Assignments = 1..Len(script.assignments)
      /\ Sections = 1..Len(script.sections) /\ Len(script.sections) \in Nat
  BY GrowingIs DEF Growth
<1>3. s \in Sections /\ s # 0 /\ Section(s).after \in Seq(Assignments)
  BY <1>1, <1>2, WalkIsAtSection, GrowingIs
<1>4. a \in Assignments /\ a # 0
  BY <1>1, <1>2, <1>3
<1>5. Walking /\ Walking' /\ q \in Points(bodies) /\ q = <<s, 3, walk.item>> /\ Here' = <<s, 3, walk.item + 1>>
  BY <1>1, <1>2, HereIs DEF Walking, Here
<1>6. Standing(bodies, q) = a /\ Following(bodies, q) = <<s, 3, walk.item + 1>>
  BY <1>1, <1>3, <1>5 DEF Standing, Following, AfterOf
<1> HIDE DEF a
<1>7. Moves(d, z)
  BY <1>1, <1>4, <1>5, <1>6, AssignMoves
<1>8. Behind' = Behind
  BY <1>1 DEF Behind
<1>9. Filled(z)'
  BY <1>1, <1>2, FilledStays DEF Finished
<1>10. WithinSection'
  <2>1. (walk.out # Len(script.sections) + 1 /\ walk.item <= Len(Section(walk.out).after) + 1)'
    BY <1>1, <1>2, <1>3 DEF Section
  <2> QED BY <1>1, <1>2, <2>1, WithinStays DEF WithinSection
<1> QED BY <1>1, <1>4, <1>6, <1>7, <1>8, <1>9, <1>10, MovesEvaluating

\* The next section.
LEMMA NextSectionGrows ==
  ASSUME Inv, Typed, Growing, NEW d, NEW z, NEW m, NEW n, Growth(d, z, m, n), NextSection
  PROVE  \E e, y, l, p : Growth(e, y, l, p)'
<1> DEFINE s == walk.out
           q == Here
<1>1. /\ pc = "after" /\ pc' = "place" /\ walk.item > Len(Section(s).after)
      /\ dot' = CounterBehindOverlay(s)
      /\ walk' = [Passed(walk) EXCEPT !.out = @ + 1, !.newSegment = FALSE]
      /\ UNCHANGED <<script, bodies, addr, paddr, size, value, latest, source, cursor, iteration, snapshot>>
  BY DEF NextSection, EndOfSection, placed, values, loop
<1>2. /\ walk.item \in Nat \ {0} /\ WithinSection /\ Filled(z)
      /\ Sections = 1..Len(script.sections) /\ Len(script.sections) \in Nat /\ Orderly
      /\ dot = d[Here] \/ ~Walking
  BY GrowingIs DEF Growth, Upward
<1>3. s \in Sections /\ s # 0 /\ Section(s).after \in Seq(Assignments) /\ s \in Nat
  BY <1>1, <1>2, WalkIsAtSection, GrowingIs
<1>4. walk'.out = s + 1 /\ dot' = dot
  <2>1. "out" \in DOMAIN Passed(walk) /\ Passed(walk).out = s
    BY DEF Passed, Inv, Shape, WalkFields
  <2> QED BY <1>1, <1>2, <1>3, <2>1, NoOverlay
<1>5. Walking /\ Walking' /\ q \in Points(bodies) /\ q = <<s, 3, walk.item>> /\ Here' = <<s + 1, 1, 1>>
  BY <1>1, <1>2, <1>4, HereIs DEF Walking, Here
<1>6. Standing(bodies, q) = 0 /\ Following(bodies, q) = <<s + 1, 1, 1>>
  <2>1. Len(Section(s).after) \in Nat /\ ~(walk.item <= Len(Section(s).after))
    BY <1>1, <1>2, <1>3
  <2> QED BY <1>3, <1>5, <2>1 DEF Standing, Following, AfterOf
<1>7. dot' = Reached(bodies, d, z, value, q)
  BY <1>2, <1>4, <1>5, <1>6 DEF Reached
<1>8. Moves(d, z)
  BY <1>1, <1>5, <1>6, <1>7, OtherMoves
<1>9. Behind' = Behind
  BY <1>1, <1>3, <1>4 DEF Behind
<1>10. Filled(z)'
  <2>1. \A t \in Sections : Finished(t)' => Finished(t)
    BY <1>1, <1>2, <1>3, <1>4 DEF Finished
  <2> QED BY <1>1, <1>2, <2>1, FilledStays
<1>11. WithinSection'
  BY <1>1, <1>2, WithinStays DEF WithinSection
<1> QED BY <1>1, <1>5, <1>6, <1>8, <1>9, <1>10, <1>11, MovesOn

\* A section is placed.
LEMMA PlaceSectionGrows ==
  ASSUME Inv, Typed, Growing, NEW d, NEW z, NEW m, NEW n, Growth(d, z, m, n), PlaceSection
  PROVE  \E e, y, l, p : Growth(e, y, l, p)'
<1> DEFINE s == walk.out
           q == Here
           vma == AddressOf(s)
           d2 == Arrives(bodies, d, z, value, q)
<1>1. /\ pc = "place" /\ pc' = "body" /\ s <= Len(script.sections)
      /\ addr' = [addr EXCEPT ![s] = vma] /\ paddr' = [paddr EXCEPT ![s] = LoadAddress(s, vma)]
      /\ RememberAddress(s) /\ dot' = vma
      /\ walk'.item = 1 /\ walk'.out = s /\ walk'.offset = 0 /\ walk'.touched = FALSE
      /\ UNCHANGED <<script, bodies, size, value, latest, cursor, iteration, snapshot>>
  BY DEF PlaceSection, loop, Inv, Shape, WalkFields
<1>2. /\ WithinSection /\ Filled(z) /\ script \in Scripts /\ bodies \in Contents /\ d \in Counters
      /\ Sections = 1..Len(script.sections) /\ Len(script.sections) \in Nat /\ Orderly
      /\ dot = d[Here] \/ ~Walking
      /\ addr = At(d) /\ paddr = addr /\ addr \in [Sections -> Nat]
      /\ \A r \in DOMAIN script.regions : RegionCursor(r) = CursorAt(d, r, Behind)
      /\ ValuesTyped /\ CursorsTyped /\ WalkTyped
  BY GrowingIs DEF Growth, Upward, Typed
<1>3. s \in Sections /\ s # 0 /\ s \in Nat /\ Section(s).align \in Nat \ {0} /\ Loaded(s) /\ ~HasLoadRegion(s)
      /\ bodies[s] \in Seq(Items)
  BY <1>1, <1>2, WalkIsAtSection, SectionIs DEF Growing, Contents
<1>4. Walking /\ Walking' /\ q \in Points(bodies) /\ q = <<s, 1, 1>> /\ Here' = <<s, 2, 1>>
  BY <1>1, <1>2, HereIs DEF Walking, Here
<1>5. Standing(bodies, q) = 0 /\ Following(bodies, q) = <<s, 2, 1>>
  BY <1>4 DEF Standing, Following
<1>6. vma = AlignUp(StartOf(s), Section(s).align) /\ vma \in Nat /\ StartOf(s) \in Nat
      /\ StartOf(s) = IF Section(s).region # 0 THEN RegionCursor(Section(s).region) ELSE dot
  <2>1. StartOf(s) = IF Section(s).region # 0 THEN RegionCursor(Section(s).region) ELSE dot
    BY <1>2, <1>3, AddressIs
  <2>2. StartOf(s) \in Nat
    BY <1>2, <1>3, <2>1, SectionIs, CursorIs DEF ValuesTyped
  <2> QED BY <1>2, <1>3, <2>1, <2>2, AddressIs
<1>7. vma = Reached(bodies, d, z, value, q)
  <2>1. StartAt(d, s) = StartOf(s)
    <3>1. Section(s).region # 0 => Section(s).region \in DOMAIN script.regions
      BY <1>2, <1>3, SectionIs
    <3>2. Behind = s - 1
      BY <1>1 DEF Behind
    <3> QED BY <1>2, <1>4, <1>6, <3>1, <3>2 DEF StartAt
  <2> QED BY <1>4, <1>6, <2>1 DEF Reached
<1>8. LoadAddress(s, vma) = vma
  <2>1. Section(s).lma = NoExpression /\ Overlay(s) = 0
    BY <1>2, <1>3 DEF Orderly, PlacedByLinker
  <2>2. CASE LoadRegion(s) # 0
    <3>1. Section(s).region = LoadRegion(s)
      BY <1>3 DEF HasLoadRegion
    <3>2. LoadAddress(s, vma) = AlignUp(RegionCursor(LoadRegion(s)), Section(s).align)
      BY <1>3, <2>1, <2>2 DEF LoadAddress
    <3> QED BY <1>6, <2>2, <3>1, <3>2
  <2>3. CASE LoadRegion(s) = 0
    <3>1. Section(s).region = 0
      BY <1>3, <2>3 DEF HasLoadRegion
    <3>2. ~walk.disconnect
      BY <1>2, <1>3, <3>1 DEF Orderly, InMemory, WalkTyped
    <3>3. ~Disconnects(s)
      BY <1>3, <2>1, <3>2 DEF Disconnects
    <3> QED BY <2>1, <2>3, <3>3 DEF LoadAddress
  <2> QED BY <2>2, <2>3
<1> HIDE DEF vma
<1>9. addr' = At(d2) /\ paddr' = addr'
  <2>1. \A t \in Sections : d2[<<t, 2, 1>>] = IF t = s THEN vma ELSE d[<<t, 2, 1>>]
    <3>1. \A t \in Sections : <<t, 2, 1>> \in Point
      BY <1>2 DEF Point
    <3>2. d2 = [d EXCEPT ![<<s, 2, 1>>] = vma]
      BY <1>5, <1>7 DEF Arrives
    <3> HIDE DEF d2
    <3> QED BY <1>2, <1>3, <3>1, <3>2 DEF Counters
  <2>2. At(d2) = [At(d) EXCEPT ![s] = vma]
    BY <2>1, <1>3 DEF At
  <2> QED BY <1>1, <1>2, <1>8, <2>2
<1>10. Moves(d, z)
  <2>1. value' = Evaluates(bodies, d, z, value, q)
    BY <1>1, <1>5 DEF Evaluates
  <2> QED BY <1>1, <1>4, <1>5, <1>7, <1>9, <2>1 DEF Moves
<1>11. Behind' = Behind
  BY <1>1 DEF Behind
<1>12. DOMAIN source' = DOMAIN source /\ \A p \in DOMAIN source : source'[p] = source[p]
  <2>1. Section(s).lma = NoExpression /\ Section(s).vma = NoExpression /\ Overlay(s) = 0
    BY <1>2, <1>3 DEF Orderly, PlacedByLinker
  <2>2. NamesIn(NoExpression) = {}
    BY DEF NamesIn, NoExpression
  <2>3. source' = [p \in DOMAIN source |-> Source(p[1], p[2])]
    <3> DEFINE read == {<<<<"vma", s>>, Section(s).vma>>, <<<<"lma", s>>, Section(s).lma>>}
               symbols == UNION {{<<r[1], x>> : x \in NamesIn(r[2])} : r \in read}
    <3>1. source' = [p \in DOMAIN source \cup symbols |-> Source(p[1], p[2])]
      BY <1>1, <2>1 DEF RememberAddress
    <3>2. \A r \in read : NamesIn(r[2]) = {}
      BY <2>1, <2>2
    <3>3. symbols = {}
      <4> HIDE DEF read
      <4> QED BY <3>2
    <3>4. DOMAIN source \cup symbols = DOMAIN source
      BY <3>3
    <3> HIDE DEF symbols
    <3> QED BY <3>1, <3>4
  <2>4. \A p \in DOMAIN source : p = <<p[1], p[2]>>
    BY <1>2 DEF ValuesTyped, SourcesTyped
  <2> QED BY <2>3, <2>4 DEF Source
<1>13. /\ Sections' = Sections /\ (\A t : (Section(t))' = Section(t)) /\ \A t : (Rigid(t) <=> Rigid(t)')
       /\ (Section(walk.out))' = Section(s)
  <2>1. (Section(walk.out))' = Section(walk'.out)
    BY <1>1 DEF Section
  <2> QED BY <1>1, <2>1, ScriptFixes
<1>14. Filled(z)'
  <2>1. \A t : ContentOf(t)' = ContentOf(t)
    BY <1>1 DEF ContentOf, Section
  <2>2. \A t \in Sections : Finished(t)' => Finished(t)
    BY <1>1 DEF Finished
  <2>3. \A t \in Sections : Rigid(t) => size[t] = z[t] /\ z[t] <= ContentOf(t)
            /\ (iteration > 0 \/ Finished(t) => z[t] = ContentOf(t))
    BY <1>1, <1>2 DEF Filled
  <2>4. EndAt(bodies[s], Section(s).align, 0) = 0
    <3>1. Len(bodies[s]) \in Nat /\ 0 \in 0..Len(bodies[s])
      BY <1>3
    <3> QED BY <1>3, <3>1, EndIs DEF Items
  <2>5. walk'.offset = EndAt(bodies'[walk'.out], (Section(walk.out))'.align, walk'.item - 1)
    <3>1. walk'.item - 1 = 0
      BY <1>1
    <3> QED BY <1>1, <1>13, <2>4, <3>1
  <2>6. (walk.offset = EndAt(bodies[walk.out], Section(walk.out).align, walk.item - 1))'
    BY <2>5, <1>13
  <2> QED BY <1>1, <1>13, <2>1, <2>2, <2>3, <2>6 DEF Filled
<1>15. WithinSection'
  <2>1. AlignUp(vma, Section(s).align) = vma
    <3>1. AlignUp(AlignUp(StartOf(s), Section(s).align) + 0, Section(s).align)
            = AlignUp(StartOf(s), Section(s).align) + AlignUp(0, Section(s).align)
      BY <1>3, <1>6, AlignedOffset
    <3>2. AlignUp(0, Section(s).align) = 0
      <4>1. (Section(s).align - 1) \div Section(s).align = 0
        BY <1>3
      <4>2. 0 + Section(s).align - 1 = Section(s).align - 1
        BY <1>3
      <4> QED BY <1>3, <4>1, <4>2 DEF AlignUp
    <3> QED BY <1>6, <3>1, <3>2
  <2>2. addr'[s] = vma
    BY <1>1, <1>2, <1>3
  <2>3. walk'.item <= Len(bodies'[s]) + 1 /\ s # Len(script'.sections) + 1
    <3>1. Len(bodies[s]) \in Nat
      BY <1>3
    <3> QED BY <1>1, <1>2, <1>3, <3>1
  <2>4. walk'.offset = dot' - addr'[s]
    BY <1>1, <1>6, <2>2
  <2>5. ~(walk'.item > 1)
    BY <1>1
  <2>6. AlignUp(addr'[walk'.out], (Section(walk.out))'.align) = addr'[walk'.out]
    BY <1>1, <1>13, <2>1, <2>2
  <2>7. (pc = "body" =>
           /\ walk.out # Len(script.sections) + 1
           /\ walk.item <= Len(bodies[walk.out]) + 1
           /\ walk.offset = dot - addr[walk.out]
           /\ walk.touched <=> walk.item > 1
           /\ AlignUp(addr[walk.out], Section(walk.out).align) = addr[walk.out])'
    BY <1>1, <1>13, <2>3, <2>4, <2>5, <2>6
  <2> QED BY <1>1, <1>2, <2>7, WithinStays DEF WithinSection
<1> QED BY <1>1, <1>4, <1>5, <1>10, <1>11, <1>12, <1>14, <1>15, MovesOn

\* Within a section the walk is at an item.
LEMMA BodyIs ==
  ASSUME Inv, Typed, Growing, WithinSection, pc = "body"
  PROVE  /\ walk.out \in Sections /\ walk.out # 0 /\ walk.out \in Nat
         /\ bodies[walk.out] \in Seq(Items) /\ Len(bodies[walk.out]) \in Nat
         /\ Section(walk.out).align \in Nat \ {0} /\ Loaded(walk.out)
         /\ walk.item \in 1..Len(bodies[walk.out]) + 1
         /\ Walking /\ Here \in Points(bodies) /\ Here = <<walk.out, 2, walk.item>>
         /\ addr[walk.out] \in Nat /\ dot \in Nat /\ walk.offset \in Nat /\ dot = addr[walk.out] + walk.offset
<1>1. /\ script \in Scripts /\ bodies \in Contents /\ walk.item \in Nat \ {0}
      /\ Sections = 1..Len(script.sections) /\ Len(script.sections) \in Nat
      /\ dot \in Nat /\ walk.offset \in Nat /\ addr \in [Sections -> Nat]
  BY GrowingIs
<1>2. walk.out \in Sections /\ walk.out # 0 /\ walk.out \in Nat
  BY <1>1, WalkIsAtSection
<1>3. bodies[walk.out] \in Seq(Items) /\ Len(bodies[walk.out]) \in Nat /\ Section(walk.out).align \in Nat \ {0}
      /\ Loaded(walk.out)
  BY <1>1, <1>2, SectionIs DEF Contents, Growing
<1>4. walk.item \in 1..Len(bodies[walk.out]) + 1
  BY <1>1, <1>3 DEF WithinSection
<1>5. Walking /\ Here \in Points(bodies) /\ Here = <<walk.out, 2, walk.item>>
  BY HereIs DEF Walking, Here
<1>6. addr[walk.out] \in Nat /\ walk.offset = dot - addr[walk.out]
  BY <1>1, <1>2 DEF WithinSection
<1>7. dot = addr[walk.out] + walk.offset
  BY <1>1, <1>6
<1> QED BY <1>1, <1>2, <1>3, <1>4, <1>5, <1>6, <1>7

\* What the walk has placed in a section so far.
LEMMA FilledOn ==
  ASSUME Inv, Typed, Growing, NEW z, Filled(z), WithinSection, InBody,
         UNCHANGED <<script, bodies, iteration, pc>>, walk'.out = walk.out, walk'.item = walk.item + 1,
         \A s \in Sections : s # walk.out => size'[s] = size[s],
         Rigid(walk.out) => walk'.offset = IF Item.op = "assign" THEN walk.offset
                                           ELSE AlignUp(walk.offset, Section(walk.out).align) + Item.n
  PROVE  Filled(z)'
<1> DEFINE s == walk.out
<1>1. pc = "body" /\ walk.item <= Len(bodies[s])
  BY DEF InBody
<1>2. /\ s \in Sections /\ bodies[s] \in Seq(Items) /\ Len(bodies[s]) \in Nat /\ Section(s).align \in Nat \ {0}
      /\ walk.item \in 1..Len(bodies[s])
  BY <1>1, BodyIs
<1>3. /\ Sections' = Sections /\ (\A t : (Section(t))' = Section(t)) /\ (\A t : (Rigid(t) <=> Rigid(t)'))
      /\ (Section(walk.out))' = Section(s) /\ (Rigid(walk.out)' <=> Rigid(s))
  <2>1. (Section(walk.out))' = Section(walk'.out) /\ (Rigid(walk.out)' <=> Rigid(walk'.out))
    BY DEF Section, Rigid, Assigned
  <2> QED BY <2>1, ScriptFixes
<1>4. \A t : ContentOf(t)' = ContentOf(t)
  BY DEF ContentOf, Section
<1>5. \A t \in Sections : Finished(t)' => Finished(t)
  BY DEF Finished
<1>6. \A t \in Sections : Rigid(t) =>
        /\ size'[t] = z[t] \/ t = s
        /\ z[t] <= ContentOf(t)
        /\ (iteration > 0 \/ Finished(t) => z[t] = ContentOf(t))
  BY <1>1 DEF Filled
<1>7. ASSUME Rigid(s) PROVE walk'.offset = EndAt(bodies[s], Section(s).align, walk.item)
  <2> DEFINE x == bodies[s]
             al == Section(s).align
             k == walk.item
  <2>1. walk.offset = EndAt(x, al, k - 1)
    BY <1>1, <1>7 DEF Filled
  <2>2. x \in Seq([op : {"bytes"}, n : Nat] \cup [op : {"assign"}, n : {a \in Assignments : MovesForward(a)}])
    BY <1>2 DEF Items
  <2>3. k \in 0..Len(x) /\ k # 0 /\ al \in Nat \ {0}
    BY <1>2
  <2>4. EndAt(x, al, k) = IF x[k].op = "assign" THEN EndAt(x, al, k - 1) ELSE AlignUp(EndAt(x, al, k - 1), al) + x[k].n
    <3> HIDE DEF x, al, k
    <3> QED BY <2>2, <2>3, EndIs
  <2>5. Item = x[k]
    BY DEF Item
  <2> HIDE DEF x, al, k
  <2>6. walk'.offset = IF Item.op = "assign" THEN walk.offset ELSE AlignUp(walk.offset, al) + Item.n
    BY <1>7 DEF al
  <2>7. walk'.offset = EndAt(x, al, k)
    BY <2>1, <2>4, <2>5, <2>6
  <2> QED BY <2>7 DEF x, al, k
<1>8. walk'.item - 1 = walk.item
  BY <1>2
<1>9. (Rigid(walk.out) => walk.offset = EndAt(bodies[walk.out], Section(walk.out).align, walk.item - 1))'
  BY <1>3, <1>7, <1>8
<1> QED BY <1>1, <1>3, <1>4, <1>5, <1>6, <1>9 DEF Filled

\* An item of a section is not its last point.
LEMMA WithinOn ==
  ASSUME Inv, Typed, Growing, WithinSection, InBody,
         UNCHANGED <<script, bodies, addr, pc>>, walk'.out = walk.out, walk'.item = walk.item + 1,
         walk'.touched = TRUE, walk'.offset = dot' - addr[walk.out],
         \A s \in Sections : s # walk.out => size'[s] = size[s]
  PROVE  WithinSection'
<1> DEFINE s == walk.out
<1>1. pc = "body" /\ walk.item <= Len(bodies[s])
  BY DEF InBody
<1>2. /\ s \in Sections /\ s # Len(script.sections) + 1 /\ bodies[s] \in Seq(Items) /\ Len(bodies[s]) \in Nat
      /\ walk.item \in 1..Len(bodies[s])
  BY <1>1, BodyIs DEF WithinSection
<1>3. \A t \in Sections : bodies[t] = <<>> => size'[t] = size[t]
  BY <1>2
<1>4. (Section(walk.out))' = Section(s)
  BY DEF Section
<1>5. walk'.item <= Len(bodies[s]) + 1 /\ walk'.item > 1
  BY <1>2
<1>6. AlignUp(addr[s], Section(s).align) = addr[s]
  BY <1>1 DEF WithinSection
<1>7. (pc = "body" =>
         /\ walk.out # Len(script.sections) + 1
         /\ walk.item <= Len(bodies[walk.out]) + 1
         /\ walk.offset = dot - addr[walk.out]
         /\ walk.touched <=> walk.item > 1
         /\ AlignUp(addr[walk.out], Section(walk.out).align) = addr[walk.out])'
  BY <1>2, <1>4, <1>5, <1>6
<1>8. pc' = "body"
  BY <1>1
<1> QED BY <1>3, <1>7, <1>8, WithinStays DEF WithinSection

\* The assignments in a section.
LEMMA EvaluateInsideGrows ==
  ASSUME Inv, Typed, Growing, NEW d, NEW z, NEW m, NEW n, Growth(d, z, m, n), EvaluateInside
  PROVE  \E e, y, l, p : Growth(e, y, l, p)'
<1> DEFINE s == walk.out
           a == Item.n
           q == Here
<1>1. /\ InBody /\ Item.op = "assign" /\ Assign(a) /\ pc = "body" /\ walk.item <= Len(bodies[s])
      /\ Item = bodies[s][walk.item]
      /\ size' = [size EXCEPT ![s] = dot' - addr[s]]
      /\ walk'.item = walk.item + 1 /\ walk'.out = s /\ walk'.touched = TRUE /\ walk'.offset = dot' - addr[s]
      /\ UNCHANGED <<script, bodies, addr, paddr, cursor, iteration, snapshot, pc>>
  BY DEF EvaluateInside, InBody, Item, loop, Inv, Shape, WalkFields
<1>2. WithinSection /\ Filled(z) /\ size \in [Sections -> Nat]
  BY GrowingIs DEF Growth, Sizes
<1>3. /\ s \in Sections /\ s # 0 /\ bodies[s] \in Seq(Items) /\ Walking /\ q \in Points(bodies)
      /\ q = <<s, 2, walk.item>> /\ walk.item \in 1..Len(bodies[s])
      /\ walk.offset = dot - addr[s]
  BY <1>1, <1>2, BodyIs DEF WithinSection
<1>4. a \in Assignments
  BY <1>1, EvaluationIs DEF Growing
<1>5. Walking' /\ Here' = <<s, 2, walk.item + 1>>
  BY <1>1 DEF Walking, Here
<1>6. Standing(bodies, q) = a /\ Following(bodies, q) = <<s, 2, walk.item + 1>>
  BY <1>1, <1>3 DEF Standing, Following
<1>7. Moves(d, z)
  BY <1>1, <1>3, <1>4, <1>5, <1>6, AssignMoves
<1>8. Behind' = Behind
  BY <1>1 DEF Behind
<1>9. \A t \in Sections : t # s => size'[t] = size[t]
  BY <1>1, <1>2
<1>10. Filled(z)'
  <2>1. ASSUME Rigid(s) PROVE walk'.offset = walk.offset
    <3>1. \E j \in DOMAIN Section(s).body : Section(s).body[j] = bodies[s][walk.item]
      <4>1. walk.item \in DOMAIN bodies[s]
        BY <1>3
      <4> QED BY <1>1, <1>2, <1>3, <4>1 DEF WithinSection
    <3>2. Assigned(a).name # "."
      BY <1>1, <2>1, <3>1 DEF Rigid
    <3>3. dot' = dot
      BY <1>1, <3>2 DEF Assign
    <3> QED BY <1>1, <1>3, <3>3
  <2> QED BY <1>1, <1>2, <1>9, <2>1, FilledOn
<1>11. WithinSection'
  BY <1>1, <1>2, <1>9, WithinOn
<1> HIDE DEF a
<1> QED BY <1>1, <1>4, <1>6, <1>7, <1>8, <1>10, <1>11, MovesEvaluating

\* The bytes of a section.
LEMMA PlaceFragmentGrows ==
  ASSUME Inv, Typed, Growing, NEW d, NEW z, NEW m, NEW n, Growth(d, z, m, n), PlaceFragment
  PROVE  \E e, y, l, p : Growth(e, y, l, p)'
<1> DEFINE s == walk.out
           al == Section(s).align
           to == AlignUp(walk.offset, al) + Item.n
           q == Here
<1>1. /\ InBody /\ Item.op = "bytes" /\ pc = "body" /\ walk.item <= Len(bodies[s])
      /\ Item = bodies[s][walk.item]
      /\ walk'.item = walk.item + 1 /\ walk'.out = s /\ walk'.touched = TRUE /\ walk'.offset = to
      /\ dot' = addr[s] + to
      /\ UNCHANGED <<script, bodies, addr, paddr, size, value, latest, source, cursor, iteration, snapshot, pc>>
  BY DEF PlaceFragment, InBody, Item, placed, values, loop, Inv, Shape, WalkFields
<1>2. WithinSection /\ Filled(z) /\ (Walking => dot = d[Here])
  BY DEF Growth, Upward
<1>3. /\ s \in Sections /\ s # 0 /\ bodies[s] \in Seq(Items) /\ Walking /\ q \in Points(bodies)
      /\ q = <<s, 2, walk.item>> /\ walk.item \in 1..Len(bodies[s]) /\ al \in Nat \ {0}
      /\ addr[s] \in Nat /\ dot \in Nat /\ walk.offset \in Nat /\ dot = addr[s] + walk.offset
      /\ AlignUp(addr[s], al) = addr[s]
  BY <1>1, <1>2, BodyIs DEF WithinSection
<1>4. Walking' /\ Here' = <<s, 2, walk.item + 1>>
  BY <1>1 DEF Walking, Here
<1>5. Standing(bodies, q) = 0 /\ Following(bodies, q) = <<s, 2, walk.item + 1>>
  BY <1>1, <1>3 DEF Standing, Following
<1>6. Item.n \in Nat /\ AlignUp(walk.offset, al) \in Nat
  <2>1. Item \in Items
    BY <1>1, <1>3
  <2> QED BY <1>1, <1>3, <2>1, AlignUpIs DEF Items
<1> DEFINE up == AlignUp(walk.offset, al)
<1>7. to = up + Item.n /\ up \in Nat /\ to \in Nat /\ addr[s] \in Nat
  BY <1>3, <1>6
<1>8. dot' = addr[s] + to /\ walk'.offset = to /\ dot' - addr[s] = to
  <2>1. dot' = addr[s] + to /\ walk'.offset = to
    BY <1>1
  <2> HIDE DEF to, up
  <2> QED BY <1>7, <2>1
<1>9. dot' = Reached(bodies, d, z, value, q)
  <2>1. Reached(bodies, d, z, value, q) = AlignUp(d[q], al) + Item.n
    BY <1>1, <1>3, <1>5 DEF Reached
  <2>2. AlignUp(AlignUp(addr[s], al) + walk.offset, al) = AlignUp(addr[s], al) + AlignUp(walk.offset, al)
    BY <1>3, AlignedOffset
  <2>3. AlignUp(d[q], al) = addr[s] + up
    BY <1>2, <1>3, <2>2
  <2> HIDE DEF up, to, q, al
  <2>4. Item.n \in Nat
    BY <1>6
  <2>5. addr[s] + (up + Item.n) = addr[s] + up + Item.n
    BY <1>7, <2>4
  <2> QED BY <1>7, <1>8, <2>1, <2>3, <2>5
<1>10. Moves(d, z)
  <2>1. q[2] # 1
    BY <1>3
  <2>2. UNCHANGED <<script, bodies, addr, paddr, value, iteration, snapshot>>
    BY <1>1
  <2> QED BY <1>3, <1>4, <1>5, <1>9, <2>1, <2>2, OtherMoves
<1>11. Behind' = Behind
  BY <1>1 DEF Behind
<1>12. Filled(z)'
  BY <1>1, <1>2, FilledOn
<1>13. WithinSection'
  <2>1. walk'.offset = dot' - addr[s]
    BY <1>8
  <2> QED BY <1>1, <1>2, <2>1, WithinOn
<1> HIDE DEF to
<1> QED BY <1>1, <1>3, <1>5, <1>10, <1>11, <1>12, <1>13, MovesOn

\* The end of a section: its size is known, and the counter and the cursor of its region
\* are behind it.
LEMMA FinishBodyGrows ==
  ASSUME Inv, Typed, Growing, NEW d, NEW z, NEW m, NEW n, Growth(d, z, m, n), FinishBody
  PROVE  \E e, y, l, p : Growth(e, y, l, p)'
<1> DEFINE s == walk.out
           al == Section(s).align
           q == Here
           d2 == Arrives(bodies, d, z, value, q)
           z2 == IF Rigid(s) THEN [z EXCEPT ![s] = ContentOf(s)] ELSE z
<1>1. /\ pc = "body" /\ pc' = "after" /\ walk.item > Len(bodies[s])
      /\ size' = [size EXCEPT ![s] = SizeAtEnd] /\ dot' = CounterBehind(s) /\ cursor' = Advanced(s)
      /\ walk'.item = 1 /\ walk'.out = s
      /\ UNCHANGED <<script, bodies, addr, paddr, value, latest, source, iteration, snapshot>>
  BY DEF FinishBody, values, loop, Inv, Shape, WalkFields
<1>2. /\ WithinSection /\ Filled(z) /\ (Walking => dot = d[Here]) /\ script \in Scripts /\ bodies \in Contents
      /\ d \in Counters /\ z \in Sizes /\ size \in Sizes /\ addr = At(d) /\ CursorsTyped
      /\ Sections = 1..Len(script.sections) /\ Len(script.sections) \in Nat
      /\ \A r \in DOMAIN script.regions : RegionCursor(r) = CursorAt(d, r, Behind)
      /\ m \in Nat /\ n \in Nat /\ Meant(m, n)
  BY GrowingIs DEF Growth, Upward, Typed
<1>3. /\ s \in Sections /\ s # 0 /\ s \in Nat /\ bodies[s] \in Seq(Items) /\ Len(bodies[s]) \in Nat
      /\ Walking /\ q \in Points(bodies)
      /\ q = <<s, 2, walk.item>> /\ walk.item = Len(bodies[s]) + 1 /\ al \in Nat \ {0}
      /\ addr[s] \in Nat /\ dot \in Nat /\ walk.offset \in Nat /\ dot = addr[s] + walk.offset
      /\ (walk.touched <=> walk.item > 1) /\ Loaded(s) /\ walk.offset = dot - addr[s]
  <2>1. walk.item \in 1..Len(bodies[s]) + 1 /\ Len(bodies[s]) \in Nat /\ q = <<s, 2, walk.item>>
    BY <1>1, <1>2, BodyIs
  <2>2. walk.item = Len(bodies[s]) + 1
    BY <1>1, <2>1
  <2> QED BY <1>1, <1>2, <2>1, <2>2, BodyIs DEF WithinSection
<1>4. Walking' /\ Here' = <<s, 3, 1>>
  BY <1>1 DEF Walking, Here
<1>5. Standing(bodies, q) = 0 /\ Following(bodies, q) = <<s, 3, 1>>
  <2>1. ~(walk.item <= Len(bodies[s]))
    BY <1>3
  <2> QED BY <1>3, <2>1 DEF Standing, Following
<1>6. SizeAtEnd = walk.offset
  <2>1. CASE walk.touched
    BY <2>1 DEF SizeAtEnd
  <2>2. CASE ~walk.touched
    <3>1. Len(bodies[s]) = 0 /\ walk.item = 1
      BY <1>3, <2>2
    <3>2. bodies[s] = <<>>
      BY <1>3, <3>1
    <3>3. size[s] = 0
      BY <1>2, <1>3, <3>2 DEF WithinSection
    <3>4. walk.offset = 0
      <4>1. q = <<s, 2, 1>>
        BY <1>3, <3>1
      <4>2. d[q] = addr[s]
        BY <1>2, <1>3, <4>1 DEF At
      <4> QED BY <1>2, <1>3, <4>2
    <3> QED BY <2>2, <3>3, <3>4 DEF SizeAtEnd
  <2> QED BY <2>1, <2>2
<1>7. dot' = IF IsTBSS(s) THEN addr[s] ELSE dot
  BY <1>1, <1>3, <1>6 DEF CounterBehind
<1>8. dot' = Reached(bodies, d, z, value, q)
  <2>1. ~(q[3] <= Len(bodies[q[1]])) /\ q[1] = s /\ q[2] = 2
    BY <1>3
  <2>2. Reached(bodies, d, z, value, q) = IF IsTBSS(s) THEN d[<<s, 2, 1>>] ELSE d[q]
    BY <1>5, <2>1 DEF Reached
  <2>3. d[<<s, 2, 1>>] = addr[s]
    BY <1>2, <1>3 DEF At
  <2> QED BY <1>2, <1>3, <1>7, <2>2, <2>3
<1>9. Moves(d, z)
  <2>1. q[2] # 1
    BY <1>3
  <2>2. UNCHANGED <<script, bodies, addr, paddr, value, iteration, snapshot>>
    BY <1>1
  <2> QED BY <1>3, <1>4, <1>5, <1>8, <2>1, <2>2, OtherMoves
<1>10. ContentOf(s) \in Nat /\ (Rigid(s) => walk.offset = ContentOf(s))
  <2>1. Section(s).align = al /\ walk.item - 1 = Len(bodies[s])
    BY <1>3
  <2> QED BY <1>1, <1>2, <1>3, <2>1, ContentIs DEF Filled
<1>11. z2 \in Sizes /\ \A t \in Sections : z[t] <= z2[t]
  <2>1. Rigid(s) => z[s] <= ContentOf(s)
    BY <1>2, <1>3 DEF Filled
  <2>2. z2 \in Sizes
    BY <1>2, <1>3, <1>10 DEF Sizes
  <2>3. ASSUME NEW t \in Sections PROVE z[t] <= z2[t]
    <3>1. z[t] \in Nat /\ z2[t] = IF Rigid(s) /\ t = s THEN ContentOf(s) ELSE z[t]
      BY <1>2 DEF Sizes
    <3> HIDE DEF z2
    <3> QED BY <2>1, <3>1
  <2> QED BY <2>2, <2>3
<1>12. SizesKnown => \A a \in Assignments : \A t : AsksSizeOf(a, t) => z[t] = z2[t]
  <2>1. CASE iteration > 0
    <3>1. Rigid(s) => z[s] = ContentOf(s)
      BY <1>2, <1>3, <2>1 DEF Filled
    <3>2. z2 = z
      BY <1>2, <1>3, <3>1 DEF Sizes
    <3> QED BY <3>2
  <2>2. CASE ~(iteration > 0)
    BY <2>2 DEF SizesKnown, AsksSizeOf, Asks
  <2> QED BY <2>1, <2>2
<1>13. \A r \in DOMAIN script.regions : (RegionCursor(r))' = CursorAt(d2, r, Behind')
  <2> TAKE r \in DOMAIN script.regions
  <2>1. Behind' = s /\ Behind = s - 1
    BY <1>1 DEF Behind
  <2>2. d2[<<s, 3, 1>>] = dot'
    <3>1. <<s, 3, 1>> \in Point
      BY <1>3 DEF Point
    <3> QED BY <1>2, <1>5, <1>8, <3>1 DEF Arrives, Counters
  <2>3. CursorAt(d, r, s - 1) = CursorAt(d2, r, s - 1)
    <3>1. ASSUME NEW t \in Sections, t <= s - 1 PROVE d[<<t, 3, 1>>] = d2[<<t, 3, 1>>]
      <4>1. <<t, 3, 1>> # <<s, 3, 1>>
        BY <1>2, <1>3, <3>1
      <4> QED BY <1>2, <1>5, <4>1 DEF Arrives, Counters
    <3> HIDE DEF d2
    <3> QED BY <1>2, <3>1, CursorAlike
  <2>4. CursorAt(d2, r, s) = IF Section(s).region = r THEN dot' ELSE CursorAt(d2, r, s - 1)
    <3> HIDE DEF d2
    <3> QED BY <1>2, <1>3, <2>2, CursorBehind
  <2>5. (RegionCursor(r))' = IF Section(s).region = r THEN dot' ELSE RegionCursor(r)
    <3>1. ~HasLoadRegion(s) /\ DOMAIN cursor = DOMAIN script.regions /\ r # 0
      BY <1>2, <1>3, LayoutAssumption DEF Growing, CursorsTyped, LayoutAssumption
    <3>2. addr[s] + (IF IsTBSS(s) THEN 0 ELSE SizeAtEnd) = dot'
      <4>1. addr[s] + 0 = addr[s] /\ addr[s] + SizeAtEnd = dot
        BY <1>3, <1>6
      <4> QED BY <1>7, <4>1
    <3>3. cursor' = IF Section(s).region = 0 THEN cursor ELSE [cursor EXCEPT ![Section(s).region] = dot']
      BY <1>1, <1>3, <3>1, <3>2 DEF Advanced
    <3>4. dot' # Unset
      BY <1>3, <1>7 DEF Unset
    <3>5. (RegionCursor(r))' = IF cursor'[r] = Unset THEN script.regions[r].origin ELSE cursor'[r]
      BY <1>1 DEF RegionCursor
    <3> QED BY <3>1, <3>3, <3>4, <3>5 DEF RegionCursor
  <2> QED BY <1>2, <2>1, <2>3, <2>4, <2>5
<1>14. /\ Sections' = Sections /\ (\A t : (Section(t))' = Section(t)) /\ (\A t : (Rigid(t) <=> Rigid(t)'))
       /\ (Section(walk.out))' = Section(s)
  <2>1. (Section(walk.out))' = Section(walk'.out)
    BY <1>1 DEF Section
  <2> QED BY <1>1, <2>1, ScriptFixes
<1>15. WithinSection'
  <2>1. \A t \in Sections : bodies[t] = <<>> => size'[t] = size[t]
    <3>1. bodies[s] = <<>> => size[s] = SizeAtEnd
      <4>1. bodies[s] = <<>> => ~walk.touched
        BY <1>3
      <4> QED BY <4>1 DEF SizeAtEnd
    <3> QED BY <1>1, <1>2, <1>3, <3>1 DEF Sizes
  <2>2. Section(s).after \in Seq(Assignments)
    BY <1>3, GrowingIs
  <2>3. (walk.out # Len(script.sections) + 1 /\ walk.item <= Len(Section(walk.out).after) + 1)'
    <3>1. Len(Section(s).after) \in Nat /\ s # Len(script.sections) + 1
      <4>1. s \in 1..Len(script.sections)
        BY <1>2, <1>3
      <4> QED BY <1>2, <2>2, <4>1
    <3> QED BY <1>1, <1>14, <3>1
  <2> QED BY <1>1, <1>2, <2>1, <2>3, WithinStays DEF WithinSection
<1>16. \E y : y = z2
  OBVIOUS
<1>17. PICK y : y = z2
  BY <1>16
<1>18. Filled(y)'
  <2>1. \A t : ContentOf(t)' = ContentOf(t)
    BY <1>1 DEF ContentOf, Section
  <2>2. ASSUME NEW t \in Sections, Rigid(t)
        PROVE  /\ size'[t] = y[t] /\ y[t] <= ContentOf(t)
               /\ iteration > 0 \/ t <= s => y[t] = ContentOf(t)
    <3>1. CASE t = s
      <4>1. size'[s] = SizeAtEnd /\ y[s] = ContentOf(s)
        BY <1>1, <1>2, <1>3, <1>17, <2>2, <3>1 DEF Sizes
      <4> QED BY <1>6, <1>10, <2>2, <3>1, <4>1
    <3>2. CASE t # s
      <4>1. size'[t] = size[t] /\ y[t] = z[t]
        BY <1>1, <1>2, <1>3, <1>17, <3>2 DEF Sizes
      <4>2. t <= s => Finished(t)
        BY <1>2, <1>3, <3>2 DEF Finished
      <4> QED BY <1>1, <1>2, <2>2, <3>2, <4>1, <4>2 DEF Filled
    <3> QED BY <3>1, <3>2
  <2>3. \A t \in Sections : Finished(t)' => t <= s
    BY <1>1, <1>2, <1>3 DEF Finished
  <2> QED BY <1>1, <1>14, <2>1, <2>2, <2>3 DEF Filled
<1>19. m = Reaches(m)
  BY <1>5 DEF Reaches
<1>20. Meant(m, n)'
  BY <1>1, <1>2, KeepsMeant
<1> HIDE DEF z2
<1> QED BY <1>2, <1>9, <1>11, <1>12, <1>13, <1>15, <1>17, <1>18, <1>19, <1>20, MovesGrow

------------------------------------------------------------------------------
\* The pass starts again.

\* Whatever has happened to the contents, if it leaves what has been reached sound.
LEMMA StartsGrow ==
  ASSUME Inv, Typed, Growing, NEW d, NEW z, NEW m, NEW n, Growth(d, z, m, n), pc # "body",
         script' = script, StartAgain, walk'.item = 1, walk'.out = 1,
         UNCHANGED <<addr, paddr, size, value, latest, source>>,
         bodies' \in Contents, NEW e \in Counters, At(e) = At(d), e[<<0, 3, 1>>] = 0,
         Sound(bodies', e, z, value), Arranged(bodies'),
         \A s \in Sections : \A i \in DOMAIN bodies'[s] : bodies'[s][i].op = "assign" =>
           \E j \in DOMAIN Section(s).body : Section(s).body[j] = bodies'[s][i],
         \A s \in Sections : bodies'[s] = <<>> => bodies[s] = <<>>,
         \A s \in Sections : Rigid(s) =>
           z[s] <= ContentOf(s)' /\ (iteration' > 0 => z[s] = ContentOf(s)'),
         snapshot' \in {snapshot, Snapshot}
  PROVE  Growth(e, z, 0, n)'
<1>1. /\ script \in Scripts /\ addr = At(d) /\ paddr = addr /\ z \in Sizes /\ n \in Nat /\ m \in Nat
      /\ WithinSection /\ Filled(z) /\ UpTo(m) /\ Meant(m, n) /\ Risen
      /\ Sections = 1..Len(script.sections) /\ Len(script.sections) \in Nat
      /\ Assignments = 1..Len(script.assignments) /\ Len(script.assignments) \in Nat
      /\ addr \in [Sections -> Nat] /\ value \in Values /\ script.before \in Seq(Assignments)
  BY GrowingIs DEF Growth, Upward
<1>2. /\ cursor' = [r \in DOMAIN script.regions |-> Unset] /\ dot' = 0 /\ pc' = "before"
  BY DEF StartAgain, Typed, CursorsTyped
<1>3. Walking' /\ Here' = <<0, 3, 1>> /\ Behind' = 0
  BY <1>2 DEF Walking, Here, Behind
<1>4. /\ Sections' = Sections /\ Assignments' = Assignments /\ Names' = Names
      /\ (\A s : (Section(s))' = Section(s)) /\ (\A a : (Assigned(a))' = Assigned(a))
      /\ (\A s : (Rigid(s) <=> Rigid(s)')) /\ e \in Counters' /\ z \in Sizes'
  BY <1>1, ScriptFixes
<1>5. Upward(e, z)'
  <2>1. Sound(bodies, e, z, value)'
    BY WalkFixes
  <2>2. At(e)' = At(e) /\ \A r, k : CursorAt(e, r, k)' = CursorAt(e, r, k)
    BY WalkFixes
  <2>3. ASSUME NEW r \in DOMAIN script.regions
        PROVE  (RegionCursor(r))' = script.regions[r].origin /\ CursorAt(e, r, 0) = script.regions[r].origin
    <3>1. InRegion(r, 0) = {}
      BY <1>1 DEF InRegion
    <3>2. (RegionCursor(r))' = IF cursor'[r] = Unset THEN script'.regions[r].origin ELSE cursor'[r]
      BY DEF RegionCursor
    <3> QED BY <1>2, <3>1, <3>2 DEF CursorAt
  <2>4. \A r \in DOMAIN script.regions : (RegionCursor(r))' = CursorAt(e, r, Behind)'
    BY <1>3, <2>2, <2>3
  <2> QED BY <1>1, <1>2, <1>3, <2>1, <2>2, <2>4 DEF Upward
<1>6. WithinSection'
  <2>1. walk'.item <= Len(script'.before) + 1
    <3>1. Len(script.before) \in Nat
      BY <1>1
    <3> QED BY <3>1
  <2>2. \A s \in Sections : bodies'[s] = <<>> => size'[s] = 0
    BY <1>1 DEF WithinSection
  <2> QED BY <1>2, <1>4, <2>1, <2>2 DEF WithinSection
<1>7. Filled(z)'
  <2>1. \A s \in Sections : Rigid(s) => size'[s] = z[s]
    BY <1>1 DEF Filled
  <2>2. \A s \in Sections : ~Finished(s)'
    BY <1>1, <1>2 DEF Finished
  <2> QED BY <1>2, <1>4, <2>1, <2>2 DEF Filled
<1>8. UpTo(0)'
  <2>1. /\ Arranged(bodies)' /\ Points(bodies)' = Points(bodies')
        /\ \A q : Standing(bodies, q)' = Standing(bodies', q)
    BY WalkFixes
  <2>2. ASSUME NEW q \in Points(bodies'), Standing(bodies', q) # 0
        PROVE  ~(Standing(bodies', q) <= 0) /\ ~Precedes(q, <<0, 3, 1>>)
    <3>1. Standing(bodies', q) \in Assignments
      BY <1>1, <2>2, PointIs
    <3>2. ~Precedes(q, <<0, 3, 1>>)
      BY <1>1, NothingBetween
    <3> QED BY <1>1, <3>1, <3>2
  <2>3. \A q : (Precedes(q, Here)' <=> Precedes(q, <<0, 3, 1>>))
    BY <1>3 DEF Precedes
  <2> QED BY <1>1, <1>3, <2>1, <2>2, <2>3 DEF UpTo
<1>9. Meant(0, n)'
  <2>1. /\ \A c, x : MeantBy(c, x)' = MeantBy(c, x)
        /\ \A x, k : Named(x, k)' = Named(x, k)
    BY <1>4, WalkFixes DEF Named
  <2>2. \A x : Named(x, 0) = {}
    BY DEF Named
  <2>3. 0 <= n
    BY <1>1
  <2> QED BY <1>1, <1>4, <2>1, <2>2, <2>3 DEF Meant
<1>10. Risen'
  <2>1. CASE snapshot' = snapshot
    BY <1>1, <1>4, <2>1 DEF Risen
  <2>2. CASE snapshot' = Snapshot
    <3>1. snapshot'.addr = addr /\ snapshot'.value = value
      BY <2>2 DEF Snapshot
    <3>2. \A s \in Sections : addr[s] <= addr[s]
      BY <1>1
    <3>4. \A a \in Assignments : value[a] <= value[a]
      BY <1>1 DEF Values
    <3> QED BY <1>1, <1>4, <3>1, <3>2, <3>4 DEF Risen, Values
  <2> QED BY <2>1, <2>2
<1>11. Solves(0, e, z)'
  BY DEF Solves
<1>12. Agreement'
  BY <1>2 DEF Agreement, Converged
<1> QED BY <1>1, <1>4, <1>5, <1>6, <1>7, <1>8, <1>9, <1>10, <1>11, <1>12 DEF Growth

\* The contents are the same.
LEMMA SameStartsGrow ==
  ASSUME Inv, Typed, Growing, NEW d, NEW z, NEW m, NEW n, Growth(d, z, m, n), pc # "body",
         script' = script, StartAgain, walk'.item = 1, walk'.out = 1,
         UNCHANGED <<bodies, addr, paddr, size, value, latest, source>>,
         \/ iteration' = iteration \/ iteration' = 0 \/ \A s \in Sections : Finished(s),
         snapshot' \in {snapshot, Snapshot}
  PROVE  Growth(d, z, 0, n)'
<1>1. /\ script \in Scripts /\ bodies \in Contents /\ d \in Counters /\ d[<<0, 3, 1>>] = 0
      /\ Sound(bodies, d, z, value) /\ Arranged(bodies) /\ WithinSection /\ Filled(z)
  BY GrowingIs DEF Growth, Upward, UpTo
<1>2. \A s : ContentOf(s)' = ContentOf(s)
  BY DEF ContentOf, Section
<1>3. /\ \A s \in Sections : \A i \in DOMAIN bodies[s] : bodies[s][i].op = "assign" =>
           \E j \in DOMAIN Section(s).body : Section(s).body[j] = bodies[s][i]
      /\ \A s \in Sections : Rigid(s) =>
           z[s] <= ContentOf(s) /\ (iteration' > 0 => z[s] = ContentOf(s))
  BY <1>1 DEF WithinSection, Filled
<1> QED BY <1>1, <1>2, <1>3, StartsGrow

\* A trampoline is put into a section.
LEMMA InsertStubGrows ==
  ASSUME Inv, Typed, Growing, NEW d, NEW z, NEW m, NEW n, Growth(d, z, m, n), InsertStub
  PROVE  \E e, y, l, p : Growth(e, y, l, p)'
<1>1. /\ pc = "laid_out" /\ iteration' = 0 /\ snapshot' = Snapshot /\ StartAgain
      /\ walk' = FreshWalk
      /\ UNCHANGED <<script, addr, paddr, size, value, latest, source>>
  BY DEF InsertStub, Again, NextPass, placed, values
<1>2. walk'.item = 1 /\ walk'.out = 1
  BY <1>1 DEF FreshWalk
<1>3. PICK s \in Sections : \E i \in DOMAIN bodies[s] :
        bodies' = [bodies EXCEPT ![s] =
          SubSeq(@, 1, i) \o <<[op |-> "bytes", n |-> StubSize]>> \o SubSeq(@, i + 1, Len(@))]
  BY DEF InsertStub
<1>4. PICK i \in DOMAIN bodies[s] :
        bodies' = [bodies EXCEPT ![s] =
          SubSeq(@, 1, i) \o <<[op |-> "bytes", n |-> StubSize]>> \o SubSeq(@, i + 1, Len(@))]
  BY <1>3
<1>5. /\ script \in Scripts /\ bodies \in Contents /\ d \in Counters /\ d[<<0, 3, 1>>] = 0
      /\ z \in Sizes /\ value \in Values
      /\ Sound(bodies, d, z, value) /\ Arranged(bodies) /\ WithinSection /\ Filled(z)
  BY GrowingIs DEF Growth, Upward, UpTo
<1> DEFINE x == bodies[s]
           y == SubSeq(x, 1, i) \o <<[op |-> "bytes", n |-> StubSize]>> \o SubSeq(x, i + 1, Len(x))
<1>6. x \in Seq(Items) /\ i \in 1..Len(x) /\ Len(x) \in Nat /\ i \in Int
  <2>1. x \in Seq(Items)
    BY <1>3, <1>5 DEF Contents
  <2>2. i \in DOMAIN x
    BY <1>4
  <2> HIDE DEF x
  <2> QED BY <2>1, <2>2
<1>7. bodies'[s] = y /\ \A t \in Sections : t # s => bodies'[t] = bodies[t]
  BY <1>3, <1>4, <1>5 DEF Contents
<1>8. /\ y \in Seq(Items) /\ Len(y) = Len(x) + 1
      /\ \A j \in 1..i : y[j] = x[j]
      /\ y[i + 1].op = "bytes"
      /\ \A j \in i + 1..Len(x) : y[j + 1] = x[j]
  <2> DEFINE stub == [op |-> "bytes", n |-> StubSize]
             u == SubSeq(x, 1, i)
             v == SubSeq(x, i + 1, Len(x))
             w == u \o <<stub>>
  <2>1. stub \in Items /\ stub.op = "bytes"
    BY LayoutAssumption DEF LayoutAssumption, Items
  <2>2. y = w \o v
    OBVIOUS
  <2> HIDE DEF x, y, stub
  <2>3. u \in Seq(Items) /\ Len(u) = i /\ \A j \in 1..i : u[j] = x[j]
    BY <1>6
  <2>4. v \in Seq(Items) /\ Len(v) = Len(x) - i /\ \A j \in 1..Len(x) - i : v[j] = x[i + j]
    BY <1>6
  <2> HIDE DEF u, v
  <2>5. w \in Seq(Items) /\ Len(w) = i + 1 /\ w[i + 1] = stub /\ \A j \in 1..i : w[j] = u[j]
    BY <1>6, <2>1, <2>3
  <2> HIDE DEF w
  <2>6. /\ w \o v \in Seq(Items) /\ Len(w \o v) = Len(w) + Len(v)
        /\ \A j \in 1..Len(w) + Len(v) : (w \o v)[j] = IF j <= Len(w) THEN w[j] ELSE v[j - Len(w)]
    BY <2>4, <2>5, ConcatProperties
  <2>7. y \in Seq(Items) /\ Len(y) = Len(x) + 1
    BY <1>6, <2>2, <2>4, <2>5, <2>6
  <2>8. ASSUME NEW j \in 1..i PROVE y[j] = x[j]
    <3>1. j \in 1..Len(w) + Len(v) /\ j <= Len(w)
      BY <1>6, <2>4, <2>5
    <3> QED BY <2>2, <2>3, <2>5, <2>6, <3>1
  <2>9. y[i + 1].op = "bytes"
    <3>1. i + 1 \in 1..Len(w) + Len(v) /\ i + 1 <= Len(w)
      BY <1>6, <2>4, <2>5
    <3> QED BY <2>1, <2>2, <2>5, <2>6, <3>1
  <2>10. ASSUME NEW j \in i + 1..Len(x) PROVE y[j + 1] = x[j]
    <3>1. /\ j + 1 \in 1..Len(w) + Len(v) /\ ~(j + 1 <= Len(w)) /\ j + 1 - Len(w) = j - i
          /\ j - i \in 1..Len(x) - i /\ i + (j - i) = j
      BY <1>6, <2>4, <2>5
    <3> QED BY <2>2, <2>4, <2>6, <3>1
  <2> QED BY <2>7, <2>8, <2>9, <2>10
<1>9. bodies' \in Contents
  <2> HIDE DEF y
  <2> QED BY <1>3, <1>5, <1>7, <1>8 DEF Contents
<1>10. Inserted(bodies, s, i, bodies')
  <2> HIDE DEF y
  <2> QED BY <1>3, <1>6, <1>7, <1>8, <1>9 DEF Inserted
<1> DEFINE e == Shifted(d, s, i)
<1>11. /\ e \in Counters /\ At(e) = At(d) /\ e[<<0, 3, 1>>] = 0
       /\ Sound(bodies', e, z, value) /\ Arranged(bodies')
  BY <1>5, <1>10, StubIn
<1>12. ASSUME NEW t \in Sections, NEW k \in DOMAIN bodies'[t], bodies'[t][k].op = "assign"
       PROVE  \E j \in DOMAIN Section(t).body : Section(t).body[j] = bodies'[t][k]
  <2>1. \E l \in DOMAIN bodies[t] : bodies[t][l] = bodies'[t][k]
    <3>1. CASE t # s
      BY <1>7, <1>12, <3>1
    <3>2. CASE t = s
      <4> HIDE DEF y
      <4>1. k \in 1..Len(x) + 1
        BY <1>7, <1>8, <1>12, <3>2
      <4>2. k # i + 1
        BY <1>7, <1>8, <1>12, <3>2
      <4>3. CASE k <= i
        <5>1. k \in 1..i /\ k \in DOMAIN x
          BY <1>6, <4>1, <4>3
        <5> QED BY <1>7, <1>8, <3>2, <5>1
      <4>4. CASE ~(k <= i)
        <5>1. k - 1 \in i + 1..Len(x) /\ k - 1 \in DOMAIN x /\ k - 1 + 1 = k
          BY <1>6, <4>1, <4>2, <4>4
        <5>2. y[k] = x[k - 1]
          BY <1>8, <5>1
        <5> QED BY <1>7, <3>2, <5>1, <5>2
      <4> QED BY <4>3, <4>4
    <3> QED BY <3>1, <3>2
  <2> QED BY <1>5, <1>12, <2>1 DEF WithinSection
<1>13. \A t \in Sections : bodies'[t] = <<>> => bodies[t] = <<>>
  <2>1. bodies'[s] # <<>>
    <3> HIDE DEF y, x
    <3>1. Len(y) # 0
      BY <1>6, <1>8
    <3> QED BY <1>7, <3>1
  <2> QED BY <1>7, <2>1
<1>14. ASSUME NEW t \in Sections, Rigid(t) PROVE z[t] <= ContentOf(t)'
  <2>1. z[t] <= ContentOf(t) /\ z[t] \in Nat
    BY <1>5, <1>14 DEF Filled, Sizes
  <2>2. CASE t # s
    <3>1. bodies'[t] = bodies[t] /\ (Section(t))' = Section(t)
      BY <1>1, <1>7, <2>2 DEF Section
    <3>2. ContentOf(t)' = ContentOf(t)
      BY <3>1 DEF ContentOf
    <3> QED BY <2>1, <3>2
  <2>3. CASE t = s
    <3> DEFINE al == Section(s).align
               T == {a \in Assignments : MovesForward(a)}
    <3>1. al \in Nat \ {0}
      BY <1>3, <1>5, SectionIs
    <3>2. ContentOf(s) = EndAt(x, al, Len(x)) /\ ContentOf(s) \in Nat
      BY <1>3, <1>5, <1>6, ContentIs
    <3>3. ContentOf(t)' = EndAt(y, al, Len(y))
      <4>1. (Section(t))' = Section(s)
        BY <1>1, <2>3 DEF Section
      <4>2. ContentOf(t)' = EndAt(bodies'[t], (Section(t))'.align, Len(bodies'[t]))
        BY DEF ContentOf, EndAt
      <4> HIDE DEF y
      <4> QED BY <1>7, <2>3, <4>1, <4>2
    <3>4. x \in Seq([op : {"bytes"}, n : Nat] \cup [op : {"assign"}, n : T])
          /\ y \in Seq([op : {"bytes"}, n : Nat] \cup [op : {"assign"}, n : T])
      BY <1>6, <1>8 DEF Items
    <3> HIDE DEF x, y, al, T
    <3>5. i \in 0..Len(x)
      BY <1>6
    <3>6. EndAt(x, al, Len(x)) <= EndAt(y, al, Len(y))
      BY <1>8, <3>1, <3>4, <3>5, EndGrows
    <3>7. EndAt(y, al, Len(y)) \in Nat
      <4>1. Len(y) \in 0..Len(y)
        BY <1>6, <1>8
      <4> QED BY <3>1, <3>4, <4>1, EndIs
    <3> QED BY <2>1, <2>3, <3>2, <3>3, <3>6, <3>7
  <2> QED BY <2>2, <2>3
<1>15. PICK e2 : e2 = e
  OBVIOUS
<1> HIDE DEF e
<1>16. Growth(e2, z, 0, n)'
  BY <1>1, <1>2, <1>9, <1>11, <1>12, <1>13, <1>14, <1>15, StartsGrow
<1> QED BY <1>16

\* The counter and the places of the walk are left where they are.
LEMMA RestsGrow ==
  ASSUME Inv, Typed, Growing, NEW d, NEW z, NEW m, NEW n, Growth(d, z, m, n),
         UNCHANGED <<script, bodies, addr, paddr, size, dot, value, latest, source, cursor, walk,
                     iteration, snapshot>>,
         \/ pc' = pc /\ agreed' = agreed
         \/ EndOfPass /\ pc' = "laid_out" /\
            (agreed' # "no" => Snapshot = snapshot /\ (agreed' = "twice" => iteration > 0))
         \/ pc = "laid_out" /\ pc' = "done" /\ agreed' = agreed
  PROVE  Growth(d, z, m, n)'
<1>1. /\ script \in Scripts /\ d \in Counters /\ z \in Sizes /\ n \in Nat /\ m \in Nat
      /\ bodies \in Contents
      /\ Upward(d, z) /\ WithinSection /\ Filled(z) /\ UpTo(m) /\ Meant(m, n) /\ Risen
      /\ Solves(m, d, z) /\ Agreement
      /\ Sections = 1..Len(script.sections) /\ Len(script.sections) \in Nat
      /\ Assignments = 1..Len(script.assignments) /\ Len(script.assignments) \in Nat
      /\ walk.out \in 1..Len(script.sections) + 1
  BY GrowingIs DEF Growth
<1>2. /\ Sections' = Sections /\ Assignments' = Assignments /\ Names' = Names
      /\ (\A s : (Section(s))' = Section(s)) /\ (\A a : (Assigned(a))' = Assigned(a))
      /\ (\A s : (Rigid(s) <=> Rigid(s)')) /\ Counters' = Counters /\ Sizes' = Sizes
  BY ScriptFixes
<1>3. \/ pc' = pc
      \/ pc = "place" /\ pc' = "laid_out"
      \/ pc = "laid_out" /\ pc' = "done"
  BY DEF EndOfPass
<1>4. Behind' = Behind /\ (Walking' => Walking /\ Here' = Here /\ pc' = pc)
  BY <1>3 DEF Behind, Walking, Here
<1>5. (pc' = "body" <=> pc = "body") /\ (pc' = "before" <=> pc = "before") /\ (pc' = "after" <=> pc = "after")
  BY <1>3
<1>6. Upward(d, z)'
  <2>1. Sound(bodies, d, z, value)'
    BY <1>1, WalkFixes DEF Upward
  <2>2. At(d)' = At(d) /\ \A r, k : CursorAt(d, r, k)' = CursorAt(d, r, k)
    BY WalkFixes
  <2>3. \A r : (RegionCursor(r))' = RegionCursor(r)
    BY DEF RegionCursor
  <2>4. \A r \in DOMAIN script.regions : (RegionCursor(r))' = CursorAt(d, r, Behind)'
    BY <1>1, <1>4, <2>2, <2>3 DEF Upward
  <2>5. Walking' => dot' = d[Here']
    BY <1>1, <1>4 DEF Upward
  <2>6. d[<<0, 3, 1>>] = 0 /\ addr = At(d) /\ paddr = addr
    BY <1>1 DEF Upward
  <2> QED BY <2>1, <2>2, <2>4, <2>5, <2>6 DEF Upward
<1>7. WithinSection'
  <2>1. (Section(walk.out))' = Section(walk.out)
    BY DEF Section
  <2> QED BY <1>1, <1>2, <1>5, <2>1 DEF WithinSection
<1>8. Filled(z)'
  <2>1. \A s : ContentOf(s)' = ContentOf(s)
    BY DEF ContentOf, Section
  <2>2. \A s : (Finished(s) <=> Finished(s)')
    BY <1>5 DEF Finished
  <2>3. (Section(walk.out))' = Section(walk.out) /\ (Rigid(walk.out) <=> Rigid(walk.out)')
    BY DEF Section, Rigid, Assigned
  <2> QED BY <1>1, <1>2, <1>5, <2>1, <2>2, <2>3 DEF Filled
<1>9. UpTo(m)'
  <2>1. /\ Arranged(bodies)' /\ Points(bodies)' = Points(bodies)
        /\ \A q : Standing(bodies, q)' = Standing(bodies, q)
    BY <1>1, WalkFixes DEF UpTo
  <2>2. CASE pc' = pc
    <3>1. \A q : (Precedes(q, Here)' <=> Precedes(q, Here)) /\ (Walking' <=> Walking)
      BY <1>4, <2>2 DEF Precedes, Walking, Here
    <3> QED BY <1>1, <2>1, <2>2, <3>1 DEF UpTo
  <2>3. CASE pc = "laid_out"
    <3>1. ~Walking /\ ~Walking'
      BY <1>3, <2>3 DEF Walking
    <3> QED BY <1>1, <2>1, <3>1 DEF UpTo
  <2>4. CASE pc = "place" /\ pc' = "laid_out" /\ EndOfPass
    <3>1. walk.out = Len(script.sections) + 1 /\ Here = <<walk.out, 1, 1>> /\ Walking /\ ~Walking'
      BY <1>1, <2>4 DEF EndOfPass, Here, Walking
    <3>2. ASSUME NEW q \in Points(bodies) PROVE Precedes(q, Here)
      <4>1. q[1] < Len(script.sections) + 1
        BY <1>1 DEF Points
      <4> QED BY <3>1, <4>1 DEF Precedes
    <3>3. m = Len(script.assignments)
      <4>1. CASE Len(script.assignments) = 0
        BY <1>1, <4>1 DEF UpTo
      <4>2. CASE Len(script.assignments) # 0
        <5>1. Len(script.assignments) \in Assignments
          BY <1>1, <4>2
        <5>2. PICK q \in Points(bodies) : Standing(bodies, q) = Len(script.assignments)
          BY <1>1, <5>1 DEF UpTo, Arranged
        <5>3. Standing(bodies, q) <= m
          BY <1>1, <3>1, <3>2, <4>2, <5>2 DEF UpTo
        <5> QED BY <1>1, <5>2, <5>3 DEF UpTo
      <4> QED BY <4>1, <4>2
    <3> QED BY <1>1, <2>1, <3>1, <3>3 DEF UpTo
  <2> QED BY <1>3, <2>2, <2>3, <2>4 DEF EndOfPass
<1>10. Meant(m, n)'
  <2>1. /\ \A c, x : MeantBy(c, x)' = MeantBy(c, x)
        /\ \A x, k : Named(x, k)' = Named(x, k)
    BY <1>2, WalkFixes DEF Named
  <2> QED BY <1>1, <1>2, <2>1 DEF Meant
<1>11. Risen'
  BY <1>1, <1>2 DEF Risen
<1>12. Solves(m, d, z)'
  <2>1. \A a, p : Worth(a, p, d, z, value)' = Worth(a, p, d, z, value)
    BY WalkFixes
  <2>2. \A a : (Places(a) <=> Places(a)')
    BY DEF Places, Assigned
  <2> QED BY <1>1, <1>2, <2>1, <2>2 DEF Solves, Same, SizesKnown
<1>13. Agreement'
  <2>1. Same' <=> Same
    BY DEF Same
  <2>2. CASE pc' = pc /\ agreed' = agreed
    BY <1>1, <2>1, <2>2 DEF Agreement, Converged
  <2>3. CASE pc = "laid_out" /\ pc' = "done" /\ agreed' = agreed
    BY <1>1, <2>1, <2>3 DEF Agreement, Converged
  <2>4. CASE agreed' # "no" => Snapshot = snapshot /\ (agreed' = "twice" => iteration > 0)
    BY <2>1, <2>4 DEF Agreement, Converged, Same, Snapshot
  <2> QED BY <2>2, <2>3, <2>4
<1> QED BY <1>1, <1>2, <1>6, <1>7, <1>8, <1>9, <1>10, <1>11, <1>12, <1>13 DEF Growth

\* At the beginning nothing has been placed.
LEMMA InitGrowth == Init => GrowingInv
<1> SUFFICES ASSUME Init, Growing PROVE \E d, z, m, n : Growth(d, z, m, n)
  BY DEF GrowingInv
<1> DEFINE d == [q \in Point |-> 0]
           z == size
<1>1. Inv /\ Typed
  BY InitInv, InitTyped DEF Growing
<1>2. /\ script \in Scripts /\ bodies \in Contents /\ value \in Values
      /\ size \in Sizes
      /\ Len(script.sections) \in Nat /\ Sections = 1..Len(script.sections)
      /\ Len(script.assignments) \in Nat /\ Assignments = 1..Len(script.assignments)
      /\ script.before \in Seq(Assignments)
  BY <1>1, GrowingIs
<1>3. /\ bodies = [s \in Sections |-> Section(s).body]
      /\ addr = [s \in Sections |-> 0] /\ paddr = addr
      /\ size = [s \in Sections |-> ContentOf(s)] /\ dot = 0
      /\ value = [a \in Assignments |-> 0] /\ latest = [x \in Names |-> 0] /\ source = <<>>
      /\ cursor = [r \in DOMAIN script.regions |-> Unset]
      /\ walk.item = 1 /\ walk.out = 1 /\ snapshot = Snapshot /\ pc = "before"
  BY DEF Init, FreshWalk, Names
<1>4. d \in Counters /\ z \in Sizes
  BY <1>2 DEF Counters
<1>5. Walking /\ Here = <<0, 3, 1>> /\ Behind = 0 /\ <<0, 3, 1>> \in Point
  BY <1>3 DEF Walking, Here, Behind, Point
<1>6. \A q \in Point : d[q] = 0
  OBVIOUS
<1>7. \A s \in Sections : <<s, 2, 1>> \in Point
  BY <1>2 DEF Point
<1> HIDE DEF d, z
<1>8. Sound(bodies, d, z, value)
  <2>1. ASSUME NEW q \in Points(bodies)
        PROVE  d[Following(bodies, q)] <= Reached(bodies, d, z, value, q)
    <3>1. Reached(bodies, d, z, value, q) \in Nat
      BY <1>2, <1>4, ReachedIsNatural
    <3>2. d[Following(bodies, q)] = 0
      BY <1>2, <1>6, PointIs
    <3> QED BY <3>1, <3>2
  <2>2. ASSUME NEW q \in Points(bodies), Standing(bodies, q) # 0
        PROVE  value[Standing(bodies, q)] <= Worth(Standing(bodies, q), d[q], d, z, value)
    <3>1. Standing(bodies, q) \in Assignments /\ q \in Point
      BY <1>2, <2>2, PointIs
    <3>2. Worth(Standing(bodies, q), d[q], d, z, value) \in Nat
      <4>1. d[q] \in Nat
        BY <1>6, <3>1
      <4> QED BY <1>2, <1>4, <3>1, <4>1, WorthIsNatural
    <3>3. value[Standing(bodies, q)] = 0
      BY <1>3, <3>1
    <3> QED BY <3>2, <3>3
  <2> QED BY <2>1, <2>2 DEF Sound
<1>9. Upward(d, z)
  <2>1. At(d) = addr
    BY <1>3, <1>6, <1>7 DEF At
  <2>2. ASSUME NEW r \in DOMAIN script.regions
        PROVE  RegionCursor(r) = CursorAt(d, r, 0)
    <3>1. InRegion(r, 0) = {}
      BY <1>2 DEF InRegion
    <3> QED BY <1>3, <3>1 DEF CursorAt, RegionCursor
  <2> QED BY <1>3, <1>5, <1>6, <1>8, <2>1, <2>2 DEF Upward
<1>10. WithinSection
  <2>1. Len(script.before) \in Nat
    BY <1>2
  <2>2. \A s \in Sections : bodies[s] = Section(s).body
    BY <1>3
  <2>3. ASSUME NEW s \in Sections, bodies[s] = <<>> PROVE size[s] = 0
    <3>1. ContentOf(s) = EndAt(bodies[s], Section(s).align, Len(bodies[s]))
          /\ bodies[s] \in Seq(Items) /\ Len(bodies[s]) = 0
      BY <1>2, <2>3, ContentIs DEF Contents
    <3>2. EndAt(bodies[s], Section(s).align, 0) = 0
      <4>1. /\ bodies[s] \in Seq([op : {"bytes"}, n : Nat]
                         \cup [op : {"assign"}, n : {a \in Assignments : MovesForward(a)}])
            /\ 0 \in 0..Len(bodies[s]) /\ Section(s).align \in Nat \ {0}
        BY <1>2, <3>1, SectionIs DEF Items
      <4> QED BY <4>1, EndIs
    <3> QED BY <1>3, <3>1, <3>2
  <2> QED BY <1>3, <2>1, <2>2, <2>3 DEF WithinSection
<1>11. Filled(z)
  <2>1. \A s \in Sections : size[s] = ContentOf(s) /\ ContentOf(s) \in Nat
    BY <1>2, <1>3 DEF Sizes
  <2> QED BY <1>3, <2>1 DEF Filled, z
<1>12. UpTo(0)
  <2>1. Arranged(bodies)
    BY <1>2, <1>3, ArrangedIs
  <2>2. ASSUME NEW q \in Points(bodies), Standing(bodies, q) # 0
        PROVE  ~(Standing(bodies, q) <= 0) /\ ~Precedes(q, <<0, 3, 1>>)
    <3>1. Standing(bodies, q) \in Assignments
      BY <1>2, <2>2, PointIs
    <3>2. ~Precedes(q, <<0, 3, 1>>)
      BY <1>2, NothingBetween
    <3> QED BY <1>2, <3>1, <3>2
  <2>3. 0 <= Len(script.assignments)
    BY <1>2
  <2> QED BY <1>5, <2>1, <2>2, <2>3 DEF UpTo
<1>13. Meant(0, 0)
  <2>1. \A x : Named(x, 0) = {}
    BY DEF Named
  <2>2. DOMAIN source = {} /\ 0 <= Len(script.assignments)
    BY <1>2, <1>3
  <2> QED BY <1>3, <2>1, <2>2 DEF Meant
<1>14. Risen
  <2>1. snapshot.addr = addr /\ snapshot.value = value
    BY <1>3 DEF Snapshot
  <2> QED BY <1>3, <2>1 DEF Risen
<1>15. Solves(0, d, z) /\ Agreement
  BY <1>3 DEF Solves, Agreement, Converged
<1> QED BY <1>4, <1>9, <1>10, <1>11, <1>12, <1>13, <1>14, <1>15 DEF Growth

\* Every step keeps the invariant of growing scripts.
LEMMA NextGrowing == Inv /\ OrderlyInv /\ GrowingInv /\ [Next]_vars => GrowingInv'
<1> SUFFICES ASSUME Inv, OrderlyInv, GrowingInv, [Next]_vars, Growing'
             PROVE  \E e, y, l, p : Growth(e, y, l, p)'
  BY DEF GrowingInv
<1>1. script' = script
  BY NextKeepsScript DEF vars
<1>2. Growing /\ Typed
  <2>1. Growing
    BY <1>1, ScriptFixes
  <2> QED BY <2>1 DEF Growing, OrderlyInv
<1>3. PICK d, z, m, n : Growth(d, z, m, n)
  BY <1>2 DEF GrowingInv
<1>4. CASE EvaluateBefore
  BY <1>2, <1>3, <1>4, EvaluateBeforeGrows
<1>5. CASE BeginSections
  BY <1>2, <1>3, <1>5, BeginSectionsGrows
<1>6. CASE PlaceUnloaded
  <2>1. walk.out \in Sections
    BY <1>6, WalkIsAtSection DEF PlaceUnloaded
  <2> QED BY <1>2, <1>6, <2>1 DEF PlaceUnloaded, Growing
<1>7. CASE PlaceSection
  BY <1>2, <1>3, <1>7, PlaceSectionGrows
<1>8. CASE EvaluateInside
  BY <1>2, <1>3, <1>8, EvaluateInsideGrows
<1>9. CASE PlaceFragment
  BY <1>2, <1>3, <1>9, PlaceFragmentGrows
<1>10. CASE FinishBody
  BY <1>2, <1>3, <1>10, FinishBodyGrows
<1>11. CASE EvaluateAfter
  BY <1>2, <1>3, <1>11, EvaluateAfterGrows
<1>12. CASE NextSection
  BY <1>2, <1>3, <1>12, NextSectionGrows
<1>13. CASE Restart
  <2>1. /\ pc # "body" /\ StartAgain /\ walk' = ResetWalk(walk)
        /\ UNCHANGED <<bodies, addr, paddr, size, value, latest, source, iteration, snapshot>>
    BY <1>13 DEF Restart, EndOfSection, placed, values, loop
  <2>2. walk'.item = 1 /\ walk'.out = 1
    BY <2>1 DEF ResetWalk, KeptOnReset, FreshWalk, Inv, Shape, WalkFields
  <2>3. Growth(d, z, 0, n)'
    BY <1>1, <1>2, <1>3, <2>1, <2>2, SameStartsGrow
  <2> QED BY <2>3
<1>14. CASE Iterate
  <2>1. /\ pc # "body" /\ StartAgain /\ walk' = FreshWalk /\ walk.out > Len(script.sections)
        /\ snapshot' = Snapshot
        /\ UNCHANGED <<bodies, addr, paddr, size, value, latest, source>>
    BY <1>14 DEF Iterate, EndOfPass, NextPass, placed, values
  <2>2. walk'.item = 1 /\ walk'.out = 1
    BY <2>1 DEF FreshWalk
  <2>3. \A s \in Sections : Finished(s)
    <3>1. walk.out \in 1..Len(script.sections) + 1 /\ Sections = 1..Len(script.sections)
          /\ Len(script.sections) \in Nat
      BY <1>2, GrowingIs
    <3> QED BY <2>1, <3>1 DEF Finished
  <2>4. Growth(d, z, 0, n)'
    BY <1>1, <1>2, <1>3, <2>1, <2>2, <2>3, SameStartsGrow
  <2> QED BY <2>4
<1>15. CASE Converge \/ GiveUp
  <2>1. /\ EndOfPass /\ pc' = "laid_out"
        /\ UNCHANGED <<bodies, addr, paddr, size, dot, value, latest, source, cursor, walk,
                       iteration, snapshot>>
    BY <1>15 DEF Converge, GiveUp, Stop, placed, values
  <2>2. agreed' # "no" => Snapshot = snapshot /\ (agreed' = "twice" => iteration > 0)
    <3>1. CASE Converge
      <4>1. iteration \in Nat
        BY <1>2 DEF Typed, LoopTyped
      <4>2. Snapshot = snapshot /\ agreed' = (IF iteration = 0 THEN "once" ELSE "twice")
        BY <3>1 DEF Converge, Stop
      <4> QED BY <4>1, <4>2
    <3>2. CASE GiveUp
      BY <3>2 DEF GiveUp, Stop
    <3> QED BY <1>15, <3>1, <3>2
  <2>3. Growth(d, z, m, n)'
    BY <1>1, <1>2, <1>3, <2>1, <2>2, RestsGrow
  <2> QED BY <2>3
<1>16. CASE LayOutAgain
  <2>1. /\ pc # "body" /\ StartAgain /\ walk' = FreshWalk /\ snapshot' = Snapshot /\ iteration' = 0
        /\ UNCHANGED <<bodies, addr, paddr, size, value, latest, source>>
    BY <1>16 DEF LayOutAgain, Again, NextPass, placed, values
  <2>2. walk'.item = 1 /\ walk'.out = 1
    BY <2>1 DEF FreshWalk
  <2>3. Growth(d, z, 0, n)'
    BY <1>1, <1>2, <1>3, <2>1, <2>2, SameStartsGrow
  <2> QED BY <2>3
<1>17. CASE InsertStub
  BY <1>2, <1>3, <1>17, InsertStubGrows
<1>18. CASE Finish
  <2>1. /\ pc = "laid_out" /\ pc' = "done"
        /\ UNCHANGED <<bodies, addr, paddr, size, dot, value, latest, source, cursor, walk,
                       iteration, snapshot, agreed>>
    BY <1>18 DEF Finish, placed, values, loop
  <2>2. Growth(d, z, m, n)'
    BY <1>1, <1>2, <1>3, <2>1, RestsGrow
  <2> QED BY <2>2
<1>19. CASE UNCHANGED vars
  <2>1. Growth(d, z, m, n)'
    BY <1>1, <1>2, <1>3, <1>19, RestsGrow DEF vars
  <2> QED BY <2>1
<1> QED BY <1>4, <1>5, <1>6, <1>7, <1>8, <1>9, <1>10, <1>11, <1>12, <1>13, <1>14, <1>15, <1>16,
           <1>17, <1>18, <1>19 DEF Next

\* When the snapshots agree the invariant makes the values a solution.
LEMMA GrowthSolves ==
  ASSUME Inv, Typed, Growing, NEW d, NEW z, NEW m, NEW n, Growth(d, z, m, n), Converged, SizesAgree
  PROVE  Solution
<1>1. /\ script \in Scripts /\ Upward(d, z) /\ Filled(z) /\ UpTo(m) /\ Solves(m, d, z) /\ Agreement
      /\ Sections = 1..Len(script.sections) /\ Len(script.sections) \in Nat
      /\ Assignments = 1..Len(script.assignments)
  BY GrowingIs DEF Growth
<1>2. Same /\ SizesKnown
  BY <1>1 DEF Agreement, SizesAgree, SizesKnown
<1>3. pc # "body" /\ m = Len(script.assignments)
  BY <1>1 DEF Converged, Walking, UpTo
<1>4. SUFFICES ASSUME NEW a \in Assignments, ~Places(a)
               PROVE  LET e == Assigned(a).expr
                      IN  value[a] = Evaluate(e, [dot |-> 0, addr |-> addr, paddr |-> paddr, size |-> size,
                                                  value |-> value,
                                                  means |-> [x \in NamesIn(e) |-> MeantBy(a, x)]])
  BY DEF Solution, Places
<1> DEFINE e == Assigned(a).expr
           E1 == Env(a, 0, d, z, value)
           E2 == [dot |-> 0, addr |-> addr, paddr |-> paddr, size |-> size, value |-> value,
                  means |-> [x \in NamesIn(e) |-> MeantBy(a, x)]]
<1>5. value[a] = Evaluate(e, E1)
  BY <1>1, <1>2, <1>3, <1>4 DEF Solves, Worth
<1>6. /\ E1.addr = E2.addr /\ E1.paddr = E2.paddr /\ E1.value = E2.value /\ E1.means = E2.means
      /\ E1.dot = 0 /\ E2.dot = 0 /\ E1.size = z /\ E2.size = size
  BY <1>1 DEF Env, Upward
<1>7. ExpressionFits(script, e)
  BY <1>1, LayoutAssumption DEF LayoutAssumption, Assigned, Assignments
<1>8. ASSUME NEW i \in DOMAIN e, e[i].op = "sizeof" PROVE z[e[i].sect] = size[e[i].sect]
  <2>1. AsksSizeOf(a, e[i].sect) /\ e[i].sect \in Sections
    BY <1>7, <1>8 DEF AsksSizeOf, ExpressionFits, TermFits, Sections
  <2>2. Rigid(e[i].sect)
    BY <2>1 DEF Growing
  <2> QED BY <1>1, <1>3, <2>1, <2>2 DEF Filled
<1> HIDE DEF E1, E2, e
<1>9. ASSUME NEW i \in DOMAIN e PROVE TermValue(e[i], E1) = TermValue(e[i], E2)
  <2>1. TermFits(script, e[i])
    BY <1>7 DEF ExpressionFits
  <2> QED BY <1>6, <1>8, <2>1 DEF TermFits, TermValue
<1>10. Evaluate(e, E1) = Evaluate(e, E2)
  BY <1>9, ExpressionAlike
<1> QED BY <1>5, <1>10 DEF E2, e

\* When convergeLayout ends because two snapshots agree (GNULDBackend.cpp:3313-3375), every
\* assignment has the value that its expression has of the final addresses, sizes and
\* values, each name standing for the assignment nearest before it: although a pass reads
\* what the pass before has left of everything behind, starts again in the middle for a new
\* segment, and keeps for good the assignment that a symbol was first read from
\* (Expression.cpp:148-155). For every script with any number of sections, one behind the
\* other or all in memory regions, whose sections are loaded where they lie, in which an
\* assignment in a section, or behind one of consecutive sections, adds to the counter or
\* aligns it, and no size is asked for that an assignment to the counter makes: without the
\* last condition it is not true.
THEOREM GrowingSolved == Spec => [](Growing => Solved)
<1>1. Init => Inv /\ OrderlyInv /\ GrowingInv
  BY InitInv, InitTyped, InitOrdered, InitGrowth DEF OrderlyInv
<1>2. Inv /\ OrderlyInv /\ GrowingInv => (Growing => Solved)
  BY GrowthSolves DEF Solved, GrowingInv, Growing, OrderlyInv
<1> QED BY <1>1, <1>2, NextInv, NextOrderly, NextGrowing, PTL DEF Spec

------------------------------------------------------------------------------
\* Scripts with memory regions whose layout does not depend on its symbols.

\* An assignment that may set the counter reads nothing but the counter.
Inert(a) ==
  Assigned(a).name = "." =>
    \A i \in DOMAIN Assigned(a).expr : Assigned(a).expr[i].op \in {"constant", "dot", "align"}

\* A script with memory regions whose layout does not depend on its symbols.
Static ==
  /\ Orderly /\ InMemory
  /\ \A s \in Sections : Loaded(s) /\ \A i \in DOMAIN Section(s).body :
       Section(s).body[i].op = "assign" => Inert(Section(s).body[i].n)

InertItems ==
  [op : {"bytes"}, n : Nat] \cup [op : {"assign"}, n : {a \in Assignments : MovesForward(a) /\ Inert(a)}]

\* How far a section has been filled behind each of its items.
Offsets == [Sections \X Nat -> Nat]

\* The item i of a section at address at, behind an offset.
Filling(s, i, at, o) ==
  LET x == bodies[s][i]
  IN  IF x.op # "assign" THEN AlignUp(o, Section(s).align) + x.n
      ELSE IF Assigned(x.n).name = "."
           THEN Evaluate(Assigned(x.n).expr, [dot |-> at + o]) - at
           ELSE o

FilledTo(e, s, n) == \A i \in 1..n : e[<<s, i>>] = Filling(s, i, addr[s], e[<<s, i - 1>>])

FullSize(e, s) == e[<<s, Len(bodies[s])>>]

\* The sections before s that move the cursor of a region, and where one leaves it.
Movers(r, s) == {t \in Sections : t < s /\ (Section(t).region = r \/ LoadRegion(t) = r)}

LeftAt(e, r, t) ==
  (IF Section(t).region = r THEN addr[t] ELSE paddr[t]) + (IF IsTBSS(t) THEN 0 ELSE FullSize(e, t))

CursorOf(e, r, s) ==
  IF Movers(r, s) = {} THEN script.regions[r].origin ELSE LeftAt(e, r, Hindmost(Movers(r, s)))

PlacedRight(e, s) ==
  /\ addr[s] = AlignUp(CursorOf(e, Section(s).region, s), Section(s).align)
  /\ paddr[s] = IF HasLoadRegion(s) THEN CursorOf(e, LoadRegion(s), s) ELSE addr[s]

\* The sections that this run of the pass has finished.
Upto == IF pc = "after" THEN walk.out ELSE walk.out - 1

SteadyUpTo(e, k) ==
  \A s \in Sections : s <= k =>
    /\ PlacedRight(e, s) /\ FilledTo(e, s, Len(bodies[s]))
    /\ size[s] = FullSize(e, s) \/ (pc = "body" /\ s = walk.out)

SteadyInside(e) ==
  pc = "body" =>
    /\ PlacedRight(e, walk.out)
    /\ walk.item - 1 <= Len(bodies[walk.out]) /\ FilledTo(e, walk.out, walk.item - 1)
    /\ walk.offset = e[<<walk.out, walk.item - 1>>]
    /\ dot = addr[walk.out] + walk.offset
    /\ walk.touched \/ walk.item = 1

Steady(e, k) ==
  /\ e \in Offsets /\ k \in Nat /\ Upto <= k /\ k <= Len(script.sections)
  /\ DOMAIN walk = DOMAIN FreshWalk
  /\ bodies \in [Sections -> Seq(InertItems)]
  /\ \A s \in Sections : e[<<s, 0>>] = 0 /\ (bodies[s] = <<>> => size[s] = 0)
  /\ SteadyUpTo(e, k) /\ SteadyInside(e)
  /\ \A r \in DOMAIN script.regions : RegionCursor(r) = CursorOf(e, r, Upto + 1)

\* The types of a static script.
LEMMA StaticIs ==
  ASSUME Inv, Typed, Static
  PROVE  /\ script \in Scripts /\ Len(script.sections) \in Nat /\ Sections = 1..Len(script.sections)
         /\ addr \in [Sections -> Nat] /\ paddr \in [Sections -> Nat] /\ size \in [Sections -> Nat]
         /\ walk.out \in 1..Len(script.sections) + 1 /\ walk.item \in Nat \ {0} /\ walk.offset \in Nat
         /\ dot \in Nat /\ WalkFields \subseteq DOMAIN walk
         /\ DOMAIN cursor = DOMAIN script.regions
         /\ pc \in {"body", "after"} => walk.out \in Sections
         /\ \A s \in Sections :
              /\ Loaded(s) /\ Section(s).align \in Nat \ {0}
              /\ Section(s).region \in DOMAIN script.regions /\ LoadRegion(s) \in DOMAIN script.regions
              /\ Section(s).lma = NoExpression /\ Section(s).vma = NoExpression /\ Overlay(s) = 0
<1>1. script \in Scripts /\ WalkFields \subseteq DOMAIN walk /\ (pc \in {"body", "after"} => walk.out \in Sections)
  BY DEF Inv, Shape
<1>2. Len(script.sections) \in Nat /\ Sections = 1..Len(script.sections)
  BY <1>1, SectionsAreNumbered
<1>3. ASSUME NEW s \in Sections
      PROVE  /\ Loaded(s) /\ Section(s).align \in Nat \ {0}
             /\ Section(s).region \in DOMAIN script.regions /\ LoadRegion(s) \in DOMAIN script.regions
             /\ Section(s).lma = NoExpression /\ Section(s).vma = NoExpression /\ Overlay(s) = 0
  <2>1. Section(s).region # 0 /\ LoadRegion(s) # 0 /\ Loaded(s)
    BY DEF Static, InMemory, LoadRegion
  <2>2. Section(s).lma = NoExpression /\ Section(s).vma = NoExpression /\ Overlay(s) = 0
    BY DEF Static, Orderly, PlacedByLinker
  <2> QED BY <1>1, <2>1, <2>2, SectionIs
<1> QED BY <1>1, <1>2, <1>3 DEF Typed, PlacesTyped, ValuesTyped, CursorsTyped, WalkTyped

\* What a static script says does not change.
LEMMA StaticStays ==
  ASSUME script' = script
  PROVE  /\ Sections' = Sections /\ (Static' <=> Static) /\ InertItems' = InertItems /\ Offsets' = Offsets
         /\ \A s : /\ (Section(s))' = Section(s) /\ (LoadRegion(s))' = LoadRegion(s)
                   /\ (HasLoadRegion(s) <=> HasLoadRegion(s)') /\ (IsTBSS(s) <=> IsTBSS(s)')
                   /\ (Loaded(s) <=> Loaded(s)') /\ (Flag(s))' = Flag(s) /\ (NoBits(s) <=> NoBits(s)')
         /\ \A r, s : (Movers(r, s))' = Movers(r, s)
<1>1. Sections' = Sections /\ Assignments' = Assignments /\ \A s : (Section(s))' = Section(s)
  BY DEF Sections, Assignments, Section
<1>2. \A a : (Assigned(a))' = Assigned(a)
  BY DEF Assigned
<1>3. \A a : (Inert(a) <=> Inert(a)') /\ (MovesForward(a) <=> MovesForward(a)')
  BY <1>2 DEF Inert, MovesForward
<1>4. \A s : (LoadRegion(s))' = LoadRegion(s)
  BY <1>1 DEF LoadRegion
<1>5. /\ (Orderly <=> Orderly') /\ (InMemory <=> InMemory')
      /\ \A s : Loaded(s) <=> Loaded(s)'
  BY <1>1, ScriptStays DEF Loaded
<1>6. Static' <=> Static
  BY <1>1, <1>3, <1>5 DEF Static
<1>7. InertItems' = InertItems /\ Offsets' = Offsets
  BY <1>1, <1>3 DEF InertItems, Offsets
<1>8. \A r, s : (Movers(r, s))' = Movers(r, s)
  BY <1>1, <1>4 DEF Movers
<1> QED BY <1>1, <1>4, <1>5, <1>6, <1>7, <1>8 DEF HasLoadRegion, IsTBSS, Flag, NoBits

\* The numbers before a section decide where its regions go on.
LEMMA CursorOfAlike ==
  ASSUME script \in Scripts, UNCHANGED <<script, bodies>>, NEW e, NEW f, NEW s \in Int, NEW r,
         \A t \in Sections : t < s =>
           addr'[t] = addr[t] /\ paddr'[t] = paddr[t] /\ FullSize(f, t) = FullSize(e, t)
  PROVE  (CursorOf(f, r, s))' = CursorOf(e, r, s)
<1>1. Sections = 1..Len(script.sections) /\ Len(script.sections) \in Nat
  BY SectionsAreNumbered
<1>2. /\ (Movers(r, s))' = Movers(r, s) /\ \A t : (Section(t))' = Section(t) /\ (IsTBSS(t) <=> IsTBSS(t)')
  BY StaticStays
<1>3. \A t : (FullSize(f, t))' = FullSize(f, t)
  BY DEF FullSize
<1>4. CASE Movers(r, s) = {}
  BY <1>2, <1>4 DEF CursorOf
<1>5. CASE Movers(r, s) # {}
  <2>1. PICK t : t = Hindmost(Movers(r, s))
    OBVIOUS
  <2>2. t \in Sections /\ t < s
    <3>1. Movers(r, s) \subseteq 1..Len(script.sections)
      BY <1>1 DEF Movers
    <3>2. t \in Movers(r, s)
      BY <1>1, <1>5, <2>1, <3>1, HindmostIs
    <3> QED BY <3>2 DEF Movers
  <2>3. (LeftAt(f, r, t))' = LeftAt(e, r, t)
    BY <1>2, <1>3, <2>2 DEF LeftAt
  <2> QED BY <1>2, <1>5, <2>1, <2>3 DEF CursorOf
<1> QED BY <1>4, <1>5

\* A section stays right when nothing of it and before it changes.
LEMMA RightStays ==
  ASSUME script \in Scripts, UNCHANGED <<script, bodies>>, NEW e, NEW f, NEW s \in Sections,
         PlacedRight(e, s), NEW n \in Int, FilledTo(e, s, n),
         \A t \in Sections : t < s =>
           addr'[t] = addr[t] /\ paddr'[t] = paddr[t] /\ FullSize(f, t) = FullSize(e, t),
         addr'[s] = addr[s], paddr'[s] = paddr[s], \A i \in 0..n : f[<<s, i>>] = e[<<s, i>>]
  PROVE  (PlacedRight(f, s))' /\ (FilledTo(f, s, n))'
<1>1. s \in Int
  BY SectionsAreNumbered
<1>2. \A r : (CursorOf(f, r, s))' = CursorOf(e, r, s)
  BY <1>1, CursorOfAlike
<1>3. /\ (Section(s))' = Section(s) /\ (LoadRegion(s))' = LoadRegion(s) /\ (HasLoadRegion(s) <=> HasLoadRegion(s)')
  BY StaticStays
<1>4. (PlacedRight(f, s))'
  BY <1>2, <1>3 DEF PlacedRight
<1>5. ASSUME NEW i \in 1..n PROVE f[<<s, i>>] = (Filling(s, i, addr[s], f[<<s, i - 1>>]))'
  <2>1. e[<<s, i>>] = Filling(s, i, addr[s], e[<<s, i - 1>>])
    BY DEF FilledTo
  <2>2. i \in 0..n /\ i - 1 \in 0..n
    OBVIOUS
  <2>3. f[<<s, i>>] = Filling(s, i, addr[s], f[<<s, i - 1>>])
    BY <2>1, <2>2
  <2>4. \A a : (Assigned(a))' = Assigned(a)
    BY DEF Assigned
  <2> QED BY <1>3, <2>3, <2>4 DEF Filling
<1>6. (FilledTo(f, s, n))'
  BY <1>5 DEF FilledTo
<1> QED BY <1>4, <1>6

\* All sections up to one, and the cursors there.
LEMMA SteadyStays ==
  ASSUME script \in Scripts, UNCHANGED <<script, bodies>>, NEW e, NEW f, NEW k \in Nat, SteadyUpTo(e, k),
         bodies \in [Sections -> Seq(InertItems)],
         \A t \in Sections : t <= k =>
           /\ addr'[t] = addr[t] /\ paddr'[t] = paddr[t] /\ \A i \in Nat : f[<<t, i>>] = e[<<t, i>>]
           /\ (pc' = "body" /\ t = walk'.out) \/ (size'[t] = size[t] /\ ~(pc = "body" /\ t = walk.out))
              \/ size'[t] = FullSize(e, t)
  PROVE  /\ (SteadyUpTo(f, k))'
         /\ \A r : \A s \in Int : s <= k + 1 => (CursorOf(f, r, s))' = CursorOf(e, r, s)
<1>1. /\ Sections = 1..Len(script.sections) /\ Len(script.sections) \in Nat /\ Sections' = Sections
  BY SectionsAreNumbered, StaticStays
<1>2. \A t \in Sections : Len(bodies[t]) \in Nat
  OBVIOUS
<1>3. \A t \in Sections : t <= k => FullSize(f, t) = FullSize(e, t)
  BY <1>2 DEF FullSize
<1>4. ASSUME NEW s \in Sections, s <= k
      PROVE  /\ (PlacedRight(f, s))' /\ (FilledTo(f, s, Len(bodies[s])))'
             /\ size'[s] = (FullSize(f, s))' \/ (pc' = "body" /\ s = walk'.out)
  <2>1. \A t \in Sections : t < s => t <= k
    BY <1>1, <1>4
  <2>2. Len(bodies[s]) \in Int /\ \A i \in 0..Len(bodies[s]) : i \in Nat
    BY <1>2
  <2>3. PlacedRight(e, s) /\ FilledTo(e, s, Len(bodies[s]))
        /\ (size[s] = FullSize(e, s) \/ (pc = "body" /\ s = walk.out))
    BY <1>4 DEF SteadyUpTo
  <2>4. (PlacedRight(f, s))' /\ (FilledTo(f, s, Len(bodies[s])))'
    <3> DEFINE n == Len(bodies[s])
    <3>1. n' = n
      OBVIOUS
    <3>2. n \in Int /\ FilledTo(e, s, n) /\ \A i \in 0..n : f[<<s, i>>] = e[<<s, i>>]
      BY <1>4, <2>2, <2>3
    <3> HIDE DEF n
    <3>3. (PlacedRight(f, s))' /\ (FilledTo(f, s, n))'
      BY <1>3, <1>4, <2>1, <2>3, <3>1, <3>2, RightStays
    <3> QED BY <3>3 DEF n
  <2>5. (FullSize(f, s))' = FullSize(f, s) /\ FullSize(f, s) = FullSize(e, s)
    BY <1>3, <1>4 DEF FullSize
  <2> QED BY <1>4, <2>3, <2>4, <2>5
<1>5. (SteadyUpTo(f, k))'
  BY <1>1, <1>4 DEF SteadyUpTo
<1>6. ASSUME NEW r, NEW s \in Int, s <= k + 1 PROVE (CursorOf(f, r, s))' = CursorOf(e, r, s)
  <2>1. \A t \in Sections : t < s => t <= k
    BY <1>1, <1>6
  <2> QED BY <1>3, <2>1, CursorOfAlike
<1> QED BY <1>5, <1>6

\* The parts of Steady that only a trampoline touches.
LEMMA SteadyRests ==
  ASSUME script \in Scripts, UNCHANGED <<script, bodies>>, NEW e, NEW k, Steady(e, k),
         \A s \in Sections : bodies[s] = <<>> => size'[s] = size[s]
  PROVE  /\ (e \in Offsets)' /\ (k \in Nat)' /\ (k <= Len(script.sections))'
         /\ (bodies \in [Sections -> Seq(InertItems)])'
         /\ (\A s \in Sections : e[<<s, 0>>] = 0 /\ (bodies[s] = <<>> => size[s] = 0))'
<1>1. Sections' = Sections /\ InertItems' = InertItems /\ Offsets' = Offsets
  BY StaticStays
<1> QED BY <1>1 DEF Steady

\* A step between sections that places nothing.
LEMMA QuietSteady ==
  ASSUME Inv, Typed, Static, NEW e, NEW k, Steady(e, k),
         UNCHANGED <<script, bodies, addr, paddr, size, cursor>>,
         DOMAIN walk' = DOMAIN walk, pc # "body", pc' # "body", Upto' = Upto
  PROVE  Steady(e, k)'
<1>1. script \in Scripts /\ walk.out \in Int
  BY StaticIs
<1>2. /\ (SteadyUpTo(e, k))'
      /\ \A r : \A s \in Int : s <= k + 1 => (CursorOf(e, r, s))' = CursorOf(e, r, s)
  BY <1>1, SteadyStays DEF Steady, SteadyUpTo
<1>3. Upto + 1 \in Int /\ Upto + 1 <= k + 1
  BY <1>1 DEF Steady, Upto
<1>4. PICK u : u = Upto + 1
  OBVIOUS
<1>5. \A r : (RegionCursor(r))' = RegionCursor(r)
  BY DEF RegionCursor
<1>6. ASSUME NEW r \in DOMAIN script.regions PROVE (RegionCursor(r))' = (CursorOf(e, r, Upto + 1))'
  <2>1. RegionCursor(r) = CursorOf(e, r, u)
    BY <1>4 DEF Steady
  <2>2. (CursorOf(e, r, u))' = CursorOf(e, r, u)
    BY <1>2, <1>3, <1>4
  <2>3. (Upto + 1)' = u
    BY <1>4
  <2> QED BY <1>5, <2>1, <2>2, <2>3
<1>7. /\ (e \in Offsets)' /\ (k \in Nat)' /\ (k <= Len(script.sections))'
      /\ (bodies \in [Sections -> Seq(InertItems)])'
      /\ (\A s \in Sections : e[<<s, 0>>] = 0 /\ (bodies[s] = <<>> => size[s] = 0))'
  BY <1>1, SteadyRests
<1>8. (SteadyInside(e))'
  BY DEF SteadyInside
<1>9. (DOMAIN walk = DOMAIN FreshWalk)'
  BY DEF Steady, FreshWalk
<1>10. (Upto <= k)'
  BY DEF Steady
<1>11. (\A r \in DOMAIN script.regions : RegionCursor(r) = CursorOf(e, r, Upto + 1))'
  BY <1>6
<1> QED BY <1>2, <1>7, <1>8, <1>9, <1>10, <1>11 DEF Steady

\* Before the first section a region goes on where it starts.
LEMMA CursorsBegin ==
  ASSUME script \in Scripts
  PROVE  \A r, t : Movers(r, 1) = {} /\ CursorOf(t, r, 1) = script.regions[r].origin
<1>1. \A t \in Sections : ~(t < 1)
  BY SectionsAreNumbered
<1>2. ASSUME NEW r PROVE Movers(r, 1) = {}
  BY <1>1 DEF Movers
<1> QED BY <1>2 DEF CursorOf

\* The walk begins again.
LEMMA BeginsSteady ==
  ASSUME Inv, Typed, Static, NEW e, NEW k, Steady(e, k),
         UNCHANGED <<script, bodies, addr, paddr, size>>, StartAgain, walk'.out = 1,
         DOMAIN walk' = DOMAIN walk, pc # "body"
  PROVE  Steady(e, k)'
<1>1. script \in Scripts /\ pc' = "before" /\ DOMAIN cursor = DOMAIN script.regions
  BY StaticIs DEF StartAgain
<1>2. (SteadyUpTo(e, k))'
  BY <1>1, SteadyStays DEF Steady, SteadyUpTo
<1>3. /\ (e \in Offsets)' /\ (k \in Nat)' /\ (k <= Len(script.sections))'
      /\ (bodies \in [Sections -> Seq(InertItems)])'
      /\ (\A s \in Sections : e[<<s, 0>>] = 0 /\ (bodies[s] = <<>> => size[s] = 0))'
  BY <1>1, SteadyRests
<1>4. (SteadyInside(e))'
  BY <1>1 DEF SteadyInside
<1>5. (DOMAIN walk = DOMAIN FreshWalk)'
  BY DEF Steady, FreshWalk
<1>6. Upto' = 0
  BY <1>1 DEF Upto
<1>7. (Upto <= k)' /\ (Upto + 1)' = 1
  BY <1>6 DEF Steady
<1>8. ASSUME NEW r \in DOMAIN script.regions PROVE (RegionCursor(r) = CursorOf(e, r, Upto + 1))'
  <2>1. cursor'[r] = Unset
    BY <1>1 DEF StartAgain
  <2>2. (RegionCursor(r))' = script.regions[r].origin
    BY <2>1 DEF RegionCursor
  <2>3. Movers(r, 1) = {} /\ (Movers(r, 1))' = Movers(r, 1)
    BY <1>1, CursorsBegin, StaticStays
  <2>4. (CursorOf(e, r, Upto + 1))' = (CursorOf(e, r, 1))'
    BY <1>7
  <2>5. (CursorOf(e, r, 1))' = script.regions[r].origin
    BY <2>3 DEF CursorOf
  <2> QED BY <2>2, <2>4, <2>5
<1>10. (\A r \in DOMAIN script.regions : RegionCursor(r) = CursorOf(e, r, Upto + 1))'
  BY <1>8
<1> QED BY <1>2, <1>3, <1>4, <1>5, <1>7, <1>10 DEF Steady

\* What a section leaves its regions.
LEMMA CursorOfNext ==
  ASSUME script \in Scripts, NEW e, NEW s \in Sections, NEW r
  PROVE  CursorOf(e, r, s + 1) =
           IF Section(s).region = r \/ LoadRegion(s) = r THEN LeftAt(e, r, s) ELSE CursorOf(e, r, s)
<1>1. Len(script.sections) \in Nat /\ Sections = 1..Len(script.sections)
  BY SectionsAreNumbered
<1>2. Movers(r, s + 1) \subseteq 1..Len(script.sections)
  BY <1>1 DEF Movers
<1>3. CASE Section(s).region = r \/ LoadRegion(s) = r
  <2>1. s \in Movers(r, s + 1) /\ s \in Nat
    BY <1>1, <1>3 DEF Movers
  <2>2. Hindmost(Movers(r, s + 1)) \in Movers(r, s + 1) /\ s <= Hindmost(Movers(r, s + 1))
    BY <1>1, <1>2, <2>1, HindmostIs
  <2>3. Hindmost(Movers(r, s + 1)) = s
    BY <1>1, <2>1, <2>2 DEF Movers
  <2> QED BY <1>3, <2>1, <2>3 DEF CursorOf
<1>4. CASE ~(Section(s).region = r \/ LoadRegion(s) = r)
  <2>1. Movers(r, s + 1) = Movers(r, s)
    BY <1>1, <1>4 DEF Movers
  <2> QED BY <1>4, <2>1 DEF CursorOf
<1> QED BY <1>3, <1>4

\* Where a section of such a script is placed.
LEMMA StaticPlacement ==
  ASSUME Inv, Typed, Static, NEW e, NEW k, Steady(e, k), PlaceSection
  PROVE  LET s == walk.out
         IN  /\ s \in Sections /\ s - 1 <= k
             /\ AddressOf(s) = AlignUp(CursorOf(e, Section(s).region, s), Section(s).align)
             /\ LoadAddress(s, AddressOf(s)) =
                  IF HasLoadRegion(s) THEN CursorOf(e, LoadRegion(s), s) ELSE AddressOf(s)
<1> DEFINE s == walk.out
<1>1. /\ script \in Scripts /\ s \in Sections /\ s \in Int /\ pc = "place"
      /\ Loaded(s) /\ Overlay(s) = 0 /\ Section(s).lma = NoExpression
      /\ Section(s).region \in DOMAIN script.regions /\ LoadRegion(s) \in DOMAIN script.regions
  <2>1. pc = "place" /\ s <= Len(script.sections)
    BY DEF PlaceSection
  <2>2. s \in Sections
    BY <2>1, WalkIsAtSection
  <2> QED BY <2>1, <2>2, StaticIs
<1>2. Orderly /\ InMemory /\ ValuesTyped /\ CursorsTyped
  BY DEF Static, Typed
<1>3. Section(s).region # 0 /\ LoadRegion(s) # 0
  BY <1>1, <1>2 DEF InMemory, LoadRegion
<1>4. AddressOf(s) = AlignUp(RegionCursor(Section(s).region), Section(s).align)
  BY <1>1, <1>2, <1>3, AddressIs
<1>5. LoadAddress(s, AddressOf(s)) = IF HasLoadRegion(s) THEN RegionCursor(LoadRegion(s)) ELSE AddressOf(s)
  BY <1>1, <1>3, <1>4 DEF LoadAddress, HasLoadRegion
<1>6. Upto + 1 = s /\ s - 1 <= k
  BY <1>1 DEF Steady, Upto
<1>7. \A r \in DOMAIN script.regions : RegionCursor(r) = CursorOf(e, r, s)
  BY <1>6 DEF Steady
<1> QED BY <1>1, <1>4, <1>5, <1>6, <1>7

\* A section placed while the cursors are those of the pass is at the address e gives it.
LEMMA PlaceSectionSteady ==
  ASSUME Inv, Typed, Static, NEW e, NEW k, Steady(e, k), PlaceSection
  PROVE  Steady(e, k)' /\ \A t \in Sections : t <= k => addr'[t] = addr[t] /\ paddr'[t] = paddr[t]
<1>1. PICK s : s = walk.out
  OBVIOUS
<1>2. PICK vma : vma = AddressOf(s)
  OBVIOUS
<1>3. PICK pma : pma = LoadAddress(s, vma)
  OBVIOUS
<1>4. /\ script \in Scripts /\ s \in Sections /\ s \in Nat /\ k \in Nat /\ s - 1 <= k
      /\ vma = AlignUp(CursorOf(e, Section(s).region, s), Section(s).align)
      /\ pma = IF HasLoadRegion(s) THEN CursorOf(e, LoadRegion(s), s) ELSE vma
      /\ addr \in [Sections -> Nat] /\ paddr \in [Sections -> Nat] /\ size \in [Sections -> Nat]
      /\ Sections = 1..Len(script.sections)
  <2>1. /\ s \in Sections /\ s - 1 <= k
        /\ AddressOf(s) = AlignUp(CursorOf(e, Section(s).region, s), Section(s).align)
        /\ LoadAddress(s, AddressOf(s)) = IF HasLoadRegion(s) THEN CursorOf(e, LoadRegion(s), s) ELSE AddressOf(s)
    BY <1>1, StaticPlacement
  <2>2. k \in Nat
    BY DEF Steady
  <2>3. /\ script \in Scripts /\ Len(script.sections) \in Nat /\ Sections = 1..Len(script.sections)
        /\ addr \in [Sections -> Nat] /\ paddr \in [Sections -> Nat] /\ size \in [Sections -> Nat]
    BY StaticIs
  <2> QED BY <1>2, <1>3, <2>1, <2>2, <2>3
<1>5. /\ pc = "place" /\ pc' = "body" /\ dot' = vma
      /\ addr' = [addr EXCEPT ![s] = vma] /\ paddr' = [paddr EXCEPT ![s] = pma]
      /\ UNCHANGED <<script, bodies, size, cursor>>
  BY <1>1, <1>2, <1>3 DEF PlaceSection
<1>6. walk'.out = s /\ walk'.item = 1 /\ walk'.offset = 0 /\ DOMAIN walk' = DOMAIN walk
  <2>1. DOMAIN walk = DOMAIN FreshWalk
    BY DEF Steady
  <2> QED BY <1>1, <2>1 DEF PlaceSection, FreshWalk
<1>7. vma \in Nat
  BY <1>1, <1>2, PlacementIs DEF Static
<1>8. addr'[s] = vma /\ paddr'[s] = pma
  BY <1>4, <1>5
<1>9. ASSUME NEW t \in Sections, t <= k PROVE addr'[t] = addr[t] /\ paddr'[t] = paddr[t]
  <2>1. CASE t = s
    <3>1. PlacedRight(e, s)
      BY <1>9, <2>1 DEF Steady, SteadyUpTo
    <3> QED BY <1>4, <1>8, <2>1, <3>1 DEF PlacedRight
  <2>2. CASE t # s
    BY <1>4, <1>5, <2>2
  <2> QED BY <2>1, <2>2
<1>10. /\ (SteadyUpTo(e, k))'
       /\ \A r : \A t \in Int : t <= k + 1 => (CursorOf(e, r, t))' = CursorOf(e, r, t)
  <2>1. SteadyUpTo(e, k) /\ bodies \in [Sections -> Seq(InertItems)]
    BY DEF Steady
  <2>2. \A t \in Sections : t <= k =>
          /\ addr'[t] = addr[t] /\ paddr'[t] = paddr[t] /\ \A i \in Nat : e[<<t, i>>] = e[<<t, i>>]
          /\ (pc' = "body" /\ t = walk'.out) \/ (size'[t] = size[t] /\ ~(pc = "body" /\ t = walk.out))
             \/ size'[t] = FullSize(e, t)
    BY <1>5, <1>9
  <2>3. script \in Scripts /\ k \in Nat /\ UNCHANGED <<script, bodies>>
    BY <1>4, <1>5
  <2> QED BY <2>1, <2>2, <2>3, SteadyStays
<1>11. \A r : (CursorOf(e, r, s))' = CursorOf(e, r, s)
  BY <1>4, <1>10
<1>12. (PlacedRight(e, walk.out))'
  <2>1. /\ (Section(s))' = Section(s) /\ (LoadRegion(s))' = LoadRegion(s)
        /\ (HasLoadRegion(s) <=> HasLoadRegion(s)')
    BY <1>5, StaticStays
  <2>2. (PlacedRight(e, s))'
    BY <1>4, <1>8, <1>11, <2>1 DEF PlacedRight
  <2> QED BY <1>6, <2>2 DEF PlacedRight, Section, HasLoadRegion, LoadRegion
<1>13. (SteadyInside(e))'
  <2>1. e[<<s, 0>>] = 0
    BY <1>4 DEF Steady
  <2>2. Len(bodies[s]) \in Nat /\ bodies'[s] = bodies[s]
    BY <1>4, <1>5 DEF Steady
  <2>3. (FilledTo(e, walk.out, walk.item - 1))'
    BY <1>6 DEF FilledTo
  <2>4. (walk.item - 1 <= Len(bodies[walk.out]))' /\ (walk.offset = e[<<walk.out, walk.item - 1>>])'
    BY <1>6, <2>1, <2>2
  <2>5. (dot = addr[walk.out] + walk.offset)'
    BY <1>5, <1>6, <1>7, <1>8
  <2> QED BY <1>6, <1>12, <2>3, <2>4, <2>5 DEF SteadyInside
<1>14. Upto = s - 1 /\ Upto' = s - 1 /\ Upto + 1 = s /\ (Upto + 1)' = s
  BY <1>1, <1>4, <1>5, <1>6 DEF Upto
<1>15. ASSUME NEW r \in DOMAIN script.regions PROVE (RegionCursor(r))' = (CursorOf(e, r, Upto + 1))'
  <2>1. RegionCursor(r) = CursorOf(e, r, s)
    BY <1>14 DEF Steady
  <2>2. (RegionCursor(r))' = RegionCursor(r)
    BY <1>5 DEF RegionCursor
  <2> QED BY <1>11, <1>14, <2>1, <2>2
<1>16. (\A r \in DOMAIN script.regions : RegionCursor(r) = CursorOf(e, r, Upto + 1))'
  BY <1>5, <1>15
<1>17. /\ (e \in Offsets)' /\ (k \in Nat)' /\ (k <= Len(script.sections))'
       /\ (bodies \in [Sections -> Seq(InertItems)])'
       /\ (\A t \in Sections : e[<<t, 0>>] = 0 /\ (bodies[t] = <<>> => size[t] = 0))'
  BY <1>4, <1>5, SteadyRests
<1>18. (DOMAIN walk = DOMAIN FreshWalk)'
  BY <1>6 DEF Steady, FreshWalk
<1>19. (Upto <= k)'
  BY <1>4, <1>14
<1>20. Steady(e, k)'
  BY <1>10, <1>13, <1>16, <1>17, <1>18, <1>19 DEF Steady
<1> QED BY <1>9, <1>20

\* Up to k the sections are filled alike.
AsFull(e, f, k) == \A s \in Sections : s <= k => FullSize(f, s) = FullSize(e, s)

\* The walk behind an item of a section.
LEMMA ItemSteady ==
  ASSUME Inv, Typed, Static, NEW e, NEW k, Steady(e, k), InBody,
         UNCHANGED <<script, bodies, addr, paddr, cursor, pc>>, DOMAIN walk' = DOMAIN walk,
         walk'.out = walk.out, walk'.item = walk.item + 1, walk'.touched = TRUE,
         NEW o \in Nat, walk'.offset = o, o = Filling(walk.out, walk.item, addr[walk.out], walk.offset),
         dot' = addr[walk.out] + o,
         \A t \in Sections : t # walk.out => size'[t] = size[t]
  PROVE  \E f : Steady(f, k)' /\ AsFull(e, f, k)
<1>1. PICK s : s = walk.out
  OBVIOUS
<1>2. PICK i : i = walk.item
  OBVIOUS
<1>3. PICK f : f = [e EXCEPT ![<<s, i>>] = o]
  OBVIOUS
<1>4. /\ script \in Scripts /\ s \in Sections /\ s \in Nat /\ i \in Nat \ {0} /\ k \in Nat
      /\ pc = "body" /\ i <= Len(bodies[s]) /\ Len(bodies[s]) \in Nat
      /\ e \in Offsets /\ s - 1 <= k /\ Sections = 1..Len(script.sections)
      /\ bodies \in [Sections -> Seq(InertItems)]
  <2>1. pc = "body" /\ i <= Len(bodies[s])
    BY <1>1, <1>2 DEF InBody
  <2>2. s \in Sections
    BY <1>1, <2>1, StaticIs
  <2>3. Len(bodies[s]) \in Nat /\ e \in Offsets /\ k \in Nat /\ Upto <= k /\ bodies \in [Sections -> Seq(InertItems)]
    BY <2>2 DEF Steady
  <2>4. Upto = s - 1
    BY <1>1, <2>1 DEF Upto
  <2>5. script \in Scripts /\ Len(script.sections) \in Nat /\ Sections = 1..Len(script.sections)
        /\ i \in Nat \ {0}
    BY <1>2, StaticIs
  <2>6. s - 1 <= k
    BY <2>3, <2>4
  <2> QED BY <2>1, <2>2, <2>3, <2>5, <2>6
<1>5. /\ PlacedRight(e, s) /\ FilledTo(e, s, i - 1) /\ walk.offset = e[<<s, i - 1>>]
      /\ o = Filling(s, i, addr[s], e[<<s, i - 1>>])
  <2>1. PlacedRight(e, s) /\ FilledTo(e, s, i - 1) /\ walk.offset = e[<<s, i - 1>>]
    BY <1>1, <1>2, <1>4 DEF Steady, SteadyInside
  <2> QED BY <1>1, <1>2, <2>1
<1>6. f \in Offsets /\ DOMAIN f = Sections \X Nat /\ f[<<s, i>>] = o
      /\ \A t \in Sections : \A j \in Nat : <<t, j>> # <<s, i>> => f[<<t, j>>] = e[<<t, j>>]
  BY <1>3, <1>4 DEF Offsets
<1>7. ASSUME NEW t \in Sections, t <= k PROVE \A j \in Nat : f[<<t, j>>] = e[<<t, j>>]
  <2>1. CASE t = s
    <3>1. FilledTo(e, s, Len(bodies[s]))
      BY <1>7, <2>1 DEF Steady, SteadyUpTo
    <3>2. i \in 1..Len(bodies[s])
      BY <1>4
    <3>3. e[<<s, i>>] = o
      BY <1>5, <3>1, <3>2 DEF FilledTo
    <3> QED BY <1>6, <2>1, <3>3
  <2>2. CASE t # s
    BY <1>6, <2>2
  <2> QED BY <2>1, <2>2
<1>8. (SteadyUpTo(f, k))'
  <2>1. SteadyUpTo(e, k)
    BY DEF Steady
  <2>2. \A t \in Sections : t <= k =>
          /\ addr'[t] = addr[t] /\ paddr'[t] = paddr[t] /\ \A j \in Nat : f[<<t, j>>] = e[<<t, j>>]
          /\ (pc' = "body" /\ t = walk'.out) \/ (size'[t] = size[t] /\ ~(pc = "body" /\ t = walk.out))
             \/ size'[t] = FullSize(e, t)
    BY <1>1, <1>4, <1>7
  <2>3. script \in Scripts /\ k \in Nat /\ UNCHANGED <<script, bodies>> /\ bodies \in [Sections -> Seq(InertItems)]
    BY <1>4
  <2> QED BY <2>1, <2>2, <2>3, SteadyStays
<1>9. /\ \A t \in Sections : t < s =>
           addr'[t] = addr[t] /\ paddr'[t] = paddr[t] /\ FullSize(f, t) = FullSize(e, t)
      /\ \A r : (CursorOf(f, r, s))' = CursorOf(e, r, s)
  <2>1. ASSUME NEW t \in Sections, t < s
        PROVE  addr'[t] = addr[t] /\ paddr'[t] = paddr[t] /\ FullSize(f, t) = FullSize(e, t)
    <3>1. Len(bodies[t]) \in Nat /\ t <= k
      BY <1>4, <2>1
    <3> QED BY <1>7, <3>1 DEF FullSize
  <2>2. s \in Int
    BY <1>4
  <2> QED BY <1>4, <2>1, <2>2, CursorOfAlike
<1>10. /\ (PlacedRight(f, s))' /\ (FilledTo(f, s, i - 1))'
  <2>1. \A j \in 0..i - 1 : f[<<s, j>>] = e[<<s, j>>]
    BY <1>4, <1>6
  <2>2. script \in Scripts /\ UNCHANGED <<script, bodies>> /\ s \in Sections /\ i - 1 \in Int
        /\ addr'[s] = addr[s] /\ paddr'[s] = paddr[s]
    BY <1>4
  <2> QED BY <1>5, <1>9, <2>1, <2>2, RightStays
<1>11. (FilledTo(f, s, i))'
  <2>1. (Filling(s, i, addr[s], f[<<s, i - 1>>]))' = Filling(s, i, addr[s], e[<<s, i - 1>>])
    <3>1. \A a : (Assigned(a))' = Assigned(a)
      BY DEF Assigned
    <3>2. (Section(s))' = Section(s) /\ bodies'[s] = bodies[s] /\ addr'[s] = addr[s]
      BY DEF Section
    <3>3. f[<<s, i - 1>>] = e[<<s, i - 1>>]
      BY <1>4, <1>6
    <3> QED BY <3>1, <3>2, <3>3 DEF Filling
  <2>2. f[<<s, i>>] = (Filling(s, i, addr[s], f[<<s, i - 1>>]))'
    BY <1>5, <1>6, <2>1
  <2>3. \A j \in 1..i : j = i \/ j \in 1..i - 1
    BY <1>4
  <2> QED BY <1>10, <2>2, <2>3 DEF FilledTo
<1>12. (SteadyInside(f))'
  <2>1. walk'.out = s /\ walk'.item = i + 1 /\ walk'.item - 1 = i
    BY <1>1, <1>2, <1>4
  <2>2. (PlacedRight(f, walk.out))'
    BY <1>10, <2>1 DEF PlacedRight, Section, HasLoadRegion, LoadRegion
  <2>3. (FilledTo(f, walk.out, walk.item - 1))'
    BY <1>11, <2>1 DEF FilledTo, Filling, Section
  <2>4. (walk.item - 1 <= Len(bodies[walk.out]))' /\ (walk.offset = f[<<walk.out, walk.item - 1>>])'
    BY <1>4, <1>6, <2>1
  <2>5. (dot = addr[walk.out] + walk.offset)'
    BY <1>1, <2>1
  <2> QED BY <2>2, <2>3, <2>4, <2>5 DEF SteadyInside
<1>13. Upto = s - 1 /\ Upto' = s - 1 /\ Upto + 1 = s /\ (Upto + 1)' = s
  BY <1>1, <1>4 DEF Upto
<1>14. ASSUME NEW r \in DOMAIN script.regions PROVE (RegionCursor(r))' = (CursorOf(f, r, Upto + 1))'
  <2>1. RegionCursor(r) = CursorOf(e, r, s)
    BY <1>13 DEF Steady
  <2>2. (RegionCursor(r))' = RegionCursor(r)
    BY DEF RegionCursor
  <2> QED BY <1>9, <1>13, <2>1, <2>2
<1>15. (\A r \in DOMAIN script.regions : RegionCursor(r) = CursorOf(f, r, Upto + 1))'
  BY <1>14
<1>16. /\ (k \in Nat)' /\ (k <= Len(script.sections))'
       /\ (bodies \in [Sections -> Seq(InertItems)])'
       /\ (\A t \in Sections : e[<<t, 0>>] = 0 /\ (bodies[t] = <<>> => size[t] = 0))'
  <2>1. \A t \in Sections : bodies[t] = <<>> => size'[t] = size[t]
    BY <1>1, <1>4
  <2> QED BY <1>4, <2>1, SteadyRests
<1>17. (\A t \in Sections : f[<<t, 0>>] = 0 /\ (bodies[t] = <<>> => size[t] = 0))' /\ (f \in Offsets)'
  <2>1. Sections' = Sections /\ Offsets' = Offsets
    BY StaticStays
  <2>2. \A t \in Sections : <<t, 0>> # <<s, i>>
    BY <1>4
  <2> QED BY <1>6, <1>16, <2>1, <2>2
<1>18. (DOMAIN walk = DOMAIN FreshWalk)'
  BY DEF Steady, FreshWalk
<1>19. (Upto <= k)'
  BY <1>4, <1>13
<1>20. Steady(f, k)'
  BY <1>8, <1>12, <1>15, <1>16, <1>17, <1>18, <1>19 DEF Steady
<1>21. AsFull(e, f, k)
  <2>1. \A t \in Sections : Len(bodies[t]) \in Nat
    BY <1>4
  <2> QED BY <1>7, <2>1 DEF AsFull, FullSize
<1> QED BY <1>20, <1>21

\* The item at which the walk is.
LEMMA InertItemIs ==
  ASSUME Inv, Typed, Static, NEW e, NEW k, Steady(e, k), InBody
  PROVE  /\ walk.out \in Sections /\ Item = bodies[walk.out][walk.item] /\ Item \in InertItems
         /\ dot = addr[walk.out] + walk.offset /\ pc = "body" /\ walk.item <= Len(bodies[walk.out])
         /\ Item.op \in {"bytes", "assign"}
<1>1. pc = "body" /\ walk.item <= Len(bodies[walk.out]) /\ Item = bodies[walk.out][walk.item]
  BY DEF InBody, Item
<1>2. walk.out \in Sections /\ walk.item \in Nat \ {0}
  BY <1>1, StaticIs
<1>3. bodies[walk.out] \in Seq(InertItems) /\ dot = addr[walk.out] + walk.offset
  BY <1>1, <1>2 DEF Steady, SteadyInside
<1>4. walk.item \in 1..Len(bodies[walk.out])
  BY <1>1, <1>2, <1>3
<1>5. Item \in InertItems
  BY <1>1, <1>3, <1>4
<1> QED BY <1>1, <1>2, <1>3, <1>5 DEF InertItems

\* A fragment moves the walk on by what e counts for it.
LEMMA PlaceFragmentSteady ==
  ASSUME Inv, Typed, Static, NEW e, NEW k, Steady(e, k), PlaceFragment
  PROVE  \E f : Steady(f, k)' /\ AsFull(e, f, k)
<1>1. InBody /\ Item.op = "bytes"
  BY DEF PlaceFragment
<1>2. PICK o \in Nat : o = walk'.offset
  BY FragmentIs
<1>3. DOMAIN walk = DOMAIN FreshWalk
  BY DEF Steady
<1>4. /\ UNCHANGED <<script, bodies, addr, paddr, size, cursor, pc>> /\ DOMAIN walk' = DOMAIN walk
      /\ walk'.out = walk.out /\ walk'.item = walk.item + 1 /\ walk'.touched = TRUE
      /\ walk'.offset = AlignUp(walk.offset, Section(walk.out).align) + Item.n
      /\ dot' = addr[walk.out] + o
  BY <1>2, <1>3, FragmentIs DEF PlaceFragment, placed, FreshWalk
<1>5. o = Filling(walk.out, walk.item, addr[walk.out], walk.offset)
  BY <1>1, <1>2, <1>4, InertItemIs DEF Filling
<1>6. \E f : Steady(f, k)' /\ AsFull(e, f, k)
  BY <1>1, <1>2, <1>4, <1>5, ItemSteady
<1> QED BY <1>6

\* What an inert expression reads.
LEMMA InertValue ==
  ASSUME NEW a, Inert(a), Assigned(a).name = ".", NEW key, NEW at, NEW c
  PROVE  Value(key, Assigned(a).expr, at, c) = Evaluate(Assigned(a).expr, [dot |-> c])
<1> DEFINE x == Assigned(a).expr
           env == [dot |-> c, addr |-> at, paddr |-> paddr, size |-> size, value |-> value,
                   means |-> [n \in NamesIn(x) |-> Source(key, n)]]
           bare == [dot |-> c]
<1>1. \A i \in DOMAIN x : x[i].op \in {"constant", "dot", "align"}
  BY DEF Inert
<1>2. env.dot = c /\ bare.dot = c
  OBVIOUS
<1>3. Value(key, x, at, c) = Evaluate(x, env)
  BY DEF Value
<1> HIDE DEF env, bare, x
<1>4. \A i \in DOMAIN x : TermValue(x[i], env) = TermValue(x[i], bare)
  BY <1>1, <1>2 DEF TermValue
<1>5. Evaluate(x, env) = Evaluate(x, bare)
  BY <1>4, ExpressionAlike
<1> QED BY <1>3, <1>5 DEF x, bare

\* An assignment in a section moves the walk on by what e counts for it.
LEMMA EvaluateInsideSteady ==
  ASSUME Inv, Typed, Static, NEW e, NEW k, Steady(e, k), EvaluateInside
  PROVE  \E f : Steady(f, k)' /\ AsFull(e, f, k)
<1>1. InBody /\ Item.op = "assign" /\ Assign(Item.n)
  BY DEF EvaluateInside
<1>2. PICK o \in Nat : o = walk'.offset
  BY InsideIs DEF Static
<1>3. DOMAIN walk = DOMAIN FreshWalk
  BY DEF Steady
<1>4. /\ UNCHANGED <<script, bodies, addr, paddr, cursor, pc>> /\ DOMAIN walk' = DOMAIN walk
      /\ walk'.out = walk.out /\ walk'.item = walk.item + 1 /\ walk'.touched = TRUE
      /\ o = dot' - addr[walk.out] /\ size' = [size EXCEPT ![walk.out] = dot' - addr[walk.out]]
  BY <1>2, <1>3 DEF EvaluateInside, FreshWalk
<1>5. /\ walk.out \in Sections /\ Item = bodies[walk.out][walk.item]
      /\ dot = addr[walk.out] + walk.offset /\ Item.n \in Assignments /\ Inert(Item.n)
  <2>1. Item \in InertItems
    BY <1>1, InertItemIs
  <2> QED BY <1>1, <2>1, InertItemIs DEF InertItems
<1>6. addr[walk.out] \in Nat /\ walk.offset \in Nat /\ dot' \in Nat /\ size \in [Sections -> Nat]
  <2>1. ValuesTyped'
    BY EvaluationKeepsValues DEF Static
  <2> QED BY <1>5, <2>1, StaticIs DEF ValuesTyped
<1>7. dot' = addr[walk.out] + o
  BY <1>4, <1>6
<1>8. o = Filling(walk.out, walk.item, addr[walk.out], walk.offset)
  <2>1. CASE Assigned(Item.n).name = "."
    <3>1. dot' = Value(<<"assign", Item.n>>, Assigned(Item.n).expr, addr, dot)
      BY <1>1, <2>1 DEF Assign
    <3>2. dot' = Evaluate(Assigned(Item.n).expr, [dot |-> addr[walk.out] + walk.offset])
      BY <1>5, <2>1, <3>1, InertValue
    <3> QED BY <1>1, <1>4, <1>5, <2>1, <3>2 DEF Filling
  <2>2. CASE Assigned(Item.n).name # "."
    <3>1. dot' = dot
      BY <1>1, <2>2 DEF Assign
    <3>2. o = walk.offset
      BY <1>4, <1>5, <1>6, <3>1
    <3> QED BY <1>1, <1>5, <2>2, <3>2 DEF Filling
  <2> QED BY <2>1, <2>2
<1>9. \A t \in Sections : t # walk.out => size'[t] = size[t]
  BY <1>4, <1>6
<1>10. \E f : Steady(f, k)' /\ AsFull(e, f, k)
  BY <1>1, <1>2, <1>4, <1>7, <1>8, <1>9, ItemSteady
<1> QED BY <1>10

\* What the sections of the script are when it is read.
LEMMA StaticBodies ==
  ASSUME script \in Scripts, Static, NEW s \in Sections
  PROVE  Section(s).body \in Seq(InertItems)
<1>1. PICK b : b = Section(s).body
  OBVIOUS
<1>2. b \in Seq(Items)
  BY <1>1, BodyIsOfItems DEF Static
<1>3. \A i \in DOMAIN b : b[i].op = "assign" => Inert(b[i].n)
  BY <1>1 DEF Static
<1>4. Len(b) \in Nat /\ DOMAIN b = 1..Len(b) /\ b = [i \in 1..Len(b) |-> b[i]]
  BY <1>2
<1>5. ASSUME NEW i \in 1..Len(b) PROVE b[i] \in InertItems
  <2>1. b[i] \in Items /\ (b[i].op = "assign" => Inert(b[i].n))
    BY <1>2, <1>3, <1>4
  <2> QED BY <2>1 DEF Items, InertItems
<1>6. b \in Seq(InertItems)
  BY <1>4, <1>5
<1> QED BY <1>1, <1>6

\* Before the first pass nothing has been laid out.
LEMMA InitSteady ==
  ASSUME Init, Static
  PROVE  Steady([p \in Sections \X Nat |-> 0], 0)
<1>1. PICK e : e = [p \in Sections \X Nat |-> 0]
  OBVIOUS
<1>2. /\ script \in Scripts /\ Len(script.sections) \in Nat /\ Sections = 1..Len(script.sections)
  BY SectionsAreNumbered DEF Init
<1>3. bodies \in [Sections -> Seq(InertItems)]
  BY <1>2, StaticBodies DEF Init
<1>4. \A s \in Sections : e[<<s, 0>>] = 0
  BY <1>1
<1>5. ASSUME NEW s \in Sections, bodies[s] = <<>> PROVE size[s] = 0
  <2>1. /\ bodies[s] \in Seq([op : {"bytes"}, n : Nat] \cup [op : {"assign"}, n : {a \in Assignments : MovesForward(a)}])
        /\ bodies[s] \in Seq(Items) /\ size[s] = ContentOf(s) /\ Section(s).align \in Nat \ {0}
    BY <1>2, BodyIsOfItems, SectionIs DEF Static, Init, Items
  <2>2. Len(bodies[s]) = 0 /\ 0 \in 0..Len(bodies[s])
    BY <1>5
  <2>3. EndAt(bodies[s], Section(s).align, 0) = 0
    BY <2>1, <2>2, EndIs
  <2> QED BY <1>2, <2>1, <2>2, <2>3, ContentIs
<1>6. Upto = 0 /\ pc = "before" /\ DOMAIN walk = DOMAIN FreshWalk
  BY DEF Init, Upto, FreshWalk
<1>7. SteadyUpTo(e, 0) /\ SteadyInside(e)
  BY <1>2, <1>6 DEF SteadyUpTo, SteadyInside
<1>8. ASSUME NEW r \in DOMAIN script.regions PROVE RegionCursor(r) = CursorOf(e, r, Upto + 1)
  <2>1. cursor[r] = Unset
    BY DEF Init
  <2>2. CursorOf(e, r, 1) = script.regions[r].origin
    BY <1>2, CursorsBegin
  <2> QED BY <1>6, <2>1, <2>2 DEF RegionCursor
<1>9. e \in Offsets
  BY <1>1 DEF Offsets
<1>10. Steady(e, 0)
  BY <1>2, <1>3, <1>4, <1>5, <1>6, <1>7, <1>8, <1>9 DEF Steady
<1> QED BY <1>1, <1>10

\* A section has got its size.
LEMMA FinishBodySteady ==
  ASSUME Inv, Typed, Ordered, Static, NEW e, NEW k, Steady(e, k), FinishBody,
         NEW l, l = IF walk.out > k THEN walk.out ELSE k
  PROVE  Steady(e, l)' /\ k <= l /\ walk.out <= l /\ SizeAtEnd = FullSize(e, walk.out)
<1>1. PICK s : s = walk.out
  OBVIOUS
<1>2. /\ script \in Scripts /\ s \in Sections /\ s \in Nat /\ k \in Nat /\ s - 1 <= k
      /\ Sections = 1..Len(script.sections) /\ Len(script.sections) \in Nat /\ k <= Len(script.sections)
      /\ e \in Offsets /\ bodies \in [Sections -> Seq(InertItems)] /\ Loaded(s)
      /\ addr \in [Sections -> Nat] /\ paddr \in [Sections -> Nat] /\ size \in [Sections -> Nat]
      /\ DOMAIN cursor = DOMAIN script.regions
      /\ Section(s).region \in DOMAIN script.regions /\ LoadRegion(s) \in DOMAIN script.regions
  <2>1. pc = "body"
    BY DEF FinishBody
  <2>2. s \in Sections
    BY <1>1, <2>1, StaticIs
  <2>3. Upto = s - 1 /\ Upto <= k
    BY <1>1, <2>1 DEF Upto, Steady
  <2>4. e \in Offsets /\ bodies \in [Sections -> Seq(InertItems)] /\ k \in Nat /\ k <= Len(script.sections)
    BY DEF Steady
  <2>5. Sections = 1..Len(script.sections) /\ Len(script.sections) \in Nat
    BY StaticIs
  <2> QED BY <2>2, <2>3, <2>4, <2>5, StaticIs
<1>3. /\ pc = "body" /\ pc' = "after" /\ walk'.out = s /\ DOMAIN walk' = DOMAIN walk
      /\ walk.item > Len(bodies[s]) /\ size' = [size EXCEPT ![s] = SizeAtEnd]
      /\ cursor' = Advanced(s) /\ UNCHANGED <<script, bodies, addr, paddr>>
  <2>1. DOMAIN walk = DOMAIN FreshWalk
    BY DEF Steady
  <2> QED BY <1>1, <2>1 DEF FinishBody, FreshWalk
<1>4. PICK n : n = Len(bodies[s])
  OBVIOUS
<1>5. n \in Nat /\ walk.item \in Nat /\ walk.item - 1 = n
  <2>1. n \in Nat /\ walk.item \in Nat
    BY <1>2, <1>4, StaticIs
  <2>2. walk.item - 1 <= n
    BY <1>1, <1>3, <1>4 DEF Steady, SteadyInside
  <2> QED BY <1>3, <1>4, <2>1, <2>2
<1>6. PlacedRight(e, s) /\ FilledTo(e, s, n) /\ walk.offset = FullSize(e, s)
  BY <1>1, <1>3, <1>4, <1>5 DEF Steady, SteadyInside, FullSize
<1>7. FullSize(e, s) \in Nat
  BY <1>2, <1>4, <1>5 DEF FullSize, Offsets
<1>8. SizeAtEnd = FullSize(e, s)
  <2>1. CASE walk.touched
    BY <1>6, <2>1 DEF SizeAtEnd
  <2>2. CASE ~walk.touched
    <3>1. walk.item = 1
      BY <1>3, <2>2 DEF Steady, SteadyInside
    <3>2. n = 0
      BY <1>5, <3>1
    <3>3. bodies[s] = <<>> /\ e[<<s, 0>>] = 0
      <4>1. bodies[s] \in Seq(InertItems) /\ Len(bodies[s]) = 0
        BY <1>2, <1>4, <3>2
      <4>2. bodies[s] = <<>>
        BY <4>1
      <4> QED BY <1>2, <4>2 DEF Steady
    <3>4. size[s] = 0
      BY <1>2, <3>3 DEF Steady
    <3>5. FullSize(e, s) = 0
      BY <1>4, <3>2, <3>3 DEF FullSize
    <3> QED BY <1>1, <2>2, <3>4, <3>5 DEF SizeAtEnd
  <2> QED BY <2>1, <2>2
<1>9. size'[s] = FullSize(e, s) /\ \A t \in Sections : t # s => size'[t] = size[t]
  BY <1>2, <1>3, <1>8
<1>10. (SteadyUpTo(e, k))'
  <2>1. SteadyUpTo(e, k)
    BY DEF Steady
  <2>2. \A t \in Sections : t <= k =>
          /\ addr'[t] = addr[t] /\ paddr'[t] = paddr[t] /\ \A j \in Nat : e[<<t, j>>] = e[<<t, j>>]
          /\ (pc' = "body" /\ t = walk'.out) \/ (size'[t] = size[t] /\ ~(pc = "body" /\ t = walk.out))
             \/ size'[t] = FullSize(e, t)
    BY <1>1, <1>3, <1>9
  <2>3. script \in Scripts /\ k \in Nat /\ UNCHANGED <<script, bodies>> /\ bodies \in [Sections -> Seq(InertItems)]
    BY <1>2, <1>3
  <2> QED BY <2>1, <2>2, <2>3, SteadyStays
<1>11. (PlacedRight(e, s))' /\ (FilledTo(e, s, n))' /\ \A r : (CursorOf(e, r, s))' = CursorOf(e, r, s)
  <2>1. \A t \in Sections : addr'[t] = addr[t] /\ paddr'[t] = paddr[t] /\ FullSize(e, t) = FullSize(e, t)
    BY <1>3
  <2>2. s \in Int /\ n \in Int /\ UNCHANGED <<script, bodies>>
    BY <1>2, <1>3, <1>5
  <2>3. (PlacedRight(e, s))' /\ (FilledTo(e, s, n))'
    BY <1>2, <1>3, <1>6, <2>1, <2>2, RightStays
  <2> QED BY <1>2, <2>1, <2>2, <2>3, CursorOfAlike
<1>12. (FullSize(e, s))' = FullSize(e, s) /\ (Len(bodies[s]))' = n /\ Sections' = Sections
  BY <1>3, <1>4, StaticStays DEF FullSize
<1>13. l \in Nat /\ k <= l /\ s <= l /\ l <= Len(script.sections) /\ \A t \in Sections : t <= l => t <= k \/ t = s
  BY <1>1, <1>2
<1>14. (SteadyUpTo(e, l))'
  <2>1. ASSUME NEW t \in Sections, t <= l
        PROVE  /\ (PlacedRight(e, t))' /\ (FilledTo(e, t, Len(bodies[t])))'
               /\ size'[t] = (FullSize(e, t))' \/ (pc' = "body" /\ t = walk'.out)
    <3>1. CASE t <= k
      BY <1>10, <1>12, <3>1 DEF SteadyUpTo
    <3>2. CASE t = s
      <4>1. (FilledTo(e, s, Len(bodies[s])))'
        BY <1>11, <1>12 DEF FilledTo
      <4> QED BY <1>9, <1>11, <1>12, <3>2, <4>1
    <3> QED BY <1>13, <2>1, <3>1, <3>2
  <2> QED BY <1>12, <2>1 DEF SteadyUpTo
<1>15. Upto + 1 = s /\ Upto' = s /\ (Upto + 1)' = s + 1 /\ (Upto <= l)'
  BY <1>1, <1>2, <1>3, <1>13 DEF Upto
<1>16. ASSUME NEW r \in DOMAIN script.regions PROVE (RegionCursor(r) = CursorOf(e, r, Upto + 1))'
  <2>1. RegionCursor(r) = CursorOf(e, r, s)
    BY <1>15 DEF Steady
  <2>2. (CursorOf(e, r, s + 1))' = CursorOf(e, r, s + 1)
    <3>1. s + 1 \in Int
      BY <1>2
    <3>2. \A t \in Sections : addr'[t] = addr[t] /\ paddr'[t] = paddr[t] /\ FullSize(e, t) = FullSize(e, t)
      BY <1>3
    <3> QED BY <1>2, <1>3, <3>1, <3>2, CursorOfAlike
  <2>3. CursorOf(e, r, s + 1) =
          IF Section(s).region = r \/ LoadRegion(s) = r THEN LeftAt(e, r, s) ELSE CursorOf(e, r, s)
    BY <1>2, CursorOfNext
  <2>4. Advanced(s)[r] = IF Section(s).region = r \/ LoadRegion(s) = r THEN LeftAt(e, r, s) ELSE cursor[r]
    <3>1. PICK u : u = IF IsTBSS(s) THEN 0 ELSE FullSize(e, s)
      OBVIOUS
    <3>2. Section(s).lma = NoExpression /\ Section(s).region # 0
      BY <1>2, StaticIs DEF Static, InMemory
    <3>3. Advanced(s) = IF HasLoadRegion(s)
                        THEN [[cursor EXCEPT ![Section(s).region] = addr[s] + u] EXCEPT ![LoadRegion(s)] = paddr[s] + u]
                        ELSE [cursor EXCEPT ![Section(s).region] = addr[s] + u]
      BY <1>2, <1>8, <3>1, <3>2 DEF Advanced
    <3>4. LeftAt(e, r, s) = (IF Section(s).region = r THEN addr[s] ELSE paddr[s]) + u
      BY <3>1 DEF LeftAt
    <3>5. HasLoadRegion(s) <=> LoadRegion(s) # Section(s).region
      BY DEF HasLoadRegion
    <3> QED BY <1>2, <3>3, <3>4, <3>5
  <2>5. LeftAt(e, r, s) \in Nat
    <3>1. addr[s] \in Nat /\ paddr[s] \in Nat
      BY <1>2
    <3>2. addr[s] + FullSize(e, s) \in Nat /\ paddr[s] + FullSize(e, s) \in Nat /\ addr[s] + 0 \in Nat
          /\ paddr[s] + 0 \in Nat
      BY <1>7, <3>1
    <3> QED BY <3>2 DEF LeftAt
  <2>6. (RegionCursor(r))' = CursorOf(e, r, s + 1)
    <3>1. (RegionCursor(r))' = IF Advanced(s)[r] = Unset THEN script.regions[r].origin ELSE Advanced(s)[r]
      BY <1>3 DEF RegionCursor
    <3>2. RegionCursor(r) = IF cursor[r] = Unset THEN script.regions[r].origin ELSE cursor[r]
      BY DEF RegionCursor
    <3>3. ~(LeftAt(e, r, s) = Unset)
      BY <2>5 DEF Unset
    <3> QED BY <2>1, <2>3, <2>4, <3>1, <3>2, <3>3
  <2>7. (CursorOf(e, r, Upto + 1))' = (CursorOf(e, r, s + 1))'
    BY <1>15
  <2> QED BY <2>2, <2>6, <2>7
<1>17. (\A r \in DOMAIN script.regions : RegionCursor(r) = CursorOf(e, r, Upto + 1))'
  BY <1>3, <1>16
<1>18. /\ (e \in Offsets)' /\ (bodies \in [Sections -> Seq(InertItems)])'
       /\ (\A t \in Sections : e[<<t, 0>>] = 0 /\ (bodies[t] = <<>> => size[t] = 0))'
  <2>1. Sections' = Sections /\ InertItems' = InertItems /\ Offsets' = Offsets
    BY <1>3, StaticStays
  <2>2. ASSUME NEW t \in Sections, bodies[t] = <<>> PROVE size'[t] = 0
    <3>1. size[t] = 0 /\ e[<<t, 0>>] = 0
      BY <2>2 DEF Steady
    <3>2. t = s => FullSize(e, s) = 0
      BY <2>2, <3>1 DEF FullSize
    <3> QED BY <1>9, <3>1, <3>2
  <2>3. \A t \in Sections : e[<<t, 0>>] = 0
    BY DEF Steady
  <2> QED BY <1>2, <1>3, <2>1, <2>2, <2>3
<1>19. (DOMAIN walk = DOMAIN FreshWalk)'
  BY <1>3 DEF Steady, FreshWalk
<1>20. (SteadyInside(e))'
  BY <1>3 DEF SteadyInside
<1>21. (l \in Nat)' /\ (l <= Len(script.sections))'
  BY <1>3, <1>13
<1>22. Steady(e, l)'
  BY <1>14, <1>15, <1>17, <1>18, <1>19, <1>20, <1>21 DEF Steady
<1> QED BY <1>1, <1>8, <1>13, <1>22

\* A trampoline makes a section longer: what comes behind it has to be placed anew.
LEMMA InsertStubSteady ==
  ASSUME Inv, Typed, Static, NEW e, NEW k, Steady(e, k), InsertStub
  PROVE  Steady(e, 0)'
<1>1. /\ script \in Scripts /\ Len(script.sections) \in Nat /\ Sections = 1..Len(script.sections)
      /\ DOMAIN cursor = DOMAIN script.regions
  BY StaticIs
<1>2. /\ cursor' = [r \in DOMAIN cursor |-> Unset] /\ pc' = "before" /\ walk' = FreshWalk
      /\ UNCHANGED <<script, addr, paddr, size>>
  BY DEF InsertStub, Again, NextPass, StartAgain, placed
<1>3. bodies \in [Sections -> Seq(InertItems)]
  BY DEF Steady
<1>4. bodies' \in [Sections -> Seq(InertItems)] /\ \A s \in Sections : bodies'[s] = <<>> => bodies[s] = <<>>
  <2>0. PICK s \in Sections : \E i \in DOMAIN bodies[s] :
          bodies' = [bodies EXCEPT ![s] =
            SubSeq(bodies[s], 1, i) \o <<[op |-> "bytes", n |-> StubSize]>>
              \o SubSeq(bodies[s], i + 1, Len(bodies[s]))]
    BY DEF InsertStub
  <2>1. PICK i \in DOMAIN bodies[s] :
          bodies' = [bodies EXCEPT ![s] =
            SubSeq(bodies[s], 1, i) \o <<[op |-> "bytes", n |-> StubSize]>>
              \o SubSeq(bodies[s], i + 1, Len(bodies[s]))]
    BY <2>0
  <2> DEFINE b == bodies[s]
             stub == [op |-> "bytes", n |-> StubSize]
  <2>2. b \in Seq(InertItems) /\ i \in 1..Len(b) /\ b # <<>>
    <3>1. b \in Seq(InertItems) /\ i \in 1..Len(b)
      BY <1>3
    <3> QED BY <3>1
  <2>3. stub \in InertItems
    BY LayoutAssumption DEF LayoutAssumption, InertItems
  <2> HIDE DEF b, stub
  <2>4. SubSeq(b, 1, i) \in Seq(InertItems)
    BY <2>2, SubSeqProperties
  <2>5. SubSeq(b, i + 1, Len(b)) \in Seq(InertItems)
    BY <2>2, SubSeqProperties
  <2>6. SubSeq(b, 1, i) \o <<stub>> \in Seq(InertItems)
    BY <2>3, <2>4
  <2>7. SubSeq(b, 1, i) \o <<stub>> \o SubSeq(b, i + 1, Len(b)) \in Seq(InertItems)
    BY <2>5, <2>6, ConcatProperties
  <2>8. bodies' \in [Sections -> Seq(InertItems)]
    BY <1>3, <2>1, <2>7 DEF b, stub
  <2>9. ASSUME NEW t \in Sections, bodies'[t] = <<>> PROVE bodies[t] = <<>>
    <3>1. CASE t = s
      <4>1. bodies'[s] = SubSeq(b, 1, i) \o <<stub>> \o SubSeq(b, i + 1, Len(b))
        BY <1>3, <2>1 DEF b, stub
      <4>2. Len(SubSeq(b, 1, i) \o <<stub>> \o SubSeq(b, i + 1, Len(b))) # 0
        <5>1. SubSeq(b, 1, i) \o <<stub>> \in Seq(InertItems) /\ Len(SubSeq(b, 1, i) \o <<stub>>) # 0
          BY <2>3, <2>4
        <5> QED BY <2>5, <5>1, ConcatProperties
      <4>3. Len(bodies'[s]) = 0
        BY <2>9, <3>1
      <4> QED BY <4>1, <4>2, <4>3
    <3>2. CASE t # s
      BY <1>3, <2>1, <2>9, <3>2
    <3> QED BY <3>1, <3>2
  <2> QED BY <2>8, <2>9
<1>5. Sections' = Sections /\ InertItems' = InertItems /\ Offsets' = Offsets
  BY <1>2, StaticStays
<1>6. Upto' = 0 /\ (Upto + 1)' = 1
  BY <1>2 DEF Upto, FreshWalk
<1>7. (SteadyUpTo(e, 0))' /\ (SteadyInside(e))'
  BY <1>1, <1>2, <1>5 DEF SteadyUpTo, SteadyInside
<1>8. ASSUME NEW r \in DOMAIN script.regions PROVE (RegionCursor(r) = CursorOf(e, r, Upto + 1))'
  <2>1. cursor'[r] = Unset
    BY <1>1, <1>2
  <2>2. (RegionCursor(r))' = script.regions[r].origin
    BY <1>2, <2>1 DEF RegionCursor
  <2>3. Movers(r, 1) = {} /\ (Movers(r, 1))' = Movers(r, 1)
    BY <1>1, <1>2, CursorsBegin, StaticStays
  <2>4. (CursorOf(e, r, Upto + 1))' = (CursorOf(e, r, 1))'
    BY <1>6
  <2>5. (CursorOf(e, r, 1))' = script.regions[r].origin
    BY <1>2, <2>3 DEF CursorOf
  <2> QED BY <2>2, <2>4, <2>5
<1>9. (\A r \in DOMAIN script.regions : RegionCursor(r) = CursorOf(e, r, Upto + 1))'
  BY <1>2, <1>8
<1>10. (\A s \in Sections : e[<<s, 0>>] = 0 /\ (bodies[s] = <<>> => size[s] = 0))'
  <2>1. \A s \in Sections : e[<<s, 0>>] = 0 /\ (bodies[s] = <<>> => size[s] = 0)
    BY DEF Steady
  <2> QED BY <1>2, <1>4, <1>5, <2>1
<1>11. (e \in Offsets)' /\ (0 \in Nat)' /\ (Upto <= 0)' /\ (0 <= Len(script.sections))'
  BY <1>1, <1>2, <1>5, <1>6 DEF Steady
<1>12. (DOMAIN walk = DOMAIN FreshWalk)' /\ (bodies \in [Sections -> Seq(InertItems)])'
  BY <1>2, <1>4, <1>5 DEF FreshWalk
<1> QED BY <1>7, <1>9, <1>10, <1>11, <1>12 DEF Steady

------------------------------------------------------------------------------
\* Which segments its sections are in.

\* A section that the next one follows, and those before s.
Leads(e, s) == ~IsTBSS(s) /\ IsWanted(s, FullSize(e, s))

Leading(e, s) == {t \in Sections : t < s /\ Leads(e, t)}

Distance(s) == paddr[s] - addr[s]

\* A section lies at its own load address, or at that of one before it.
Met(s) == HasLoadRegion(s) /\ \E t \in 1..s : addr[s] = paddr[t]

Meets(k) == \E s \in Sections : s <= k /\ Met(s)

\* What is in the segments so far.
Gathered(e, k) ==
  /\ \A s \in Sections : segment[s] # 0 => s <= k /\ (IsTBSS(s) \/ Leads(e, s))
  /\ \A s \in Sections : (segment[s] # 0 /\ IsTBSS(s) /\ Leading(e, s) # {}) =>
       segment[s] = segment[Hindmost(Leading(e, s))]
  /\ Meets(k) \/ \A s, t \in Sections :
       (~IsTBSS(s) /\ ~IsTBSS(t) /\ segment[s] # 0 /\ segment[s] = segment[t]) => Distance(s) = Distance(t)

\* What the walk follows.
FollowsOn(e) ==
  pc \in {"before", "place", "body", "after"} =>
    /\ walk.prev = IF Leading(e, walk.out) = {} THEN 0 ELSE Hindmost(Leading(e, walk.out))
    /\ walk.prev = 0 => walk.prevFlag = "none"
    /\ walk.prev # 0 =>
         /\ segment[walk.prev] # 0 /\ walk.prevFlag = Flag(walk.prev)
         /\ walk.prevRegion = Section(walk.prev).region
         /\ pc \in {"before", "place"} => walk.loadSeg = segment[walk.prev]
    /\ (pc = "place" /\ walk.out > 1) => walk.pma = paddr[walk.out - 1]

\* What the pass has decided about the section that it is at.
Decided ==
  pc \in {"body", "after"} =>
    /\ walk.pma = paddr[walk.out] /\ walk.region = Section(walk.out).region
    /\ segment[walk.out] # 0 => walk.loadSeg = segment[walk.out]
    /\ (segment[walk.out] = 0 /\ walk.prev # 0 /\ ~walk.newSegment) => walk.loadSeg = segment[walk.prev]
    /\ (~IsTBSS(walk.out) /\ ~walk.create) =>
         walk.prev # 0 /\ (Distance(walk.out) = Distance(walk.prev) \/ Met(walk.out))
    /\ walk.create => walk.enters
    /\ pc = "body" => ~walk.newSegment /\ (walk.enters \/ ~walk.needsSegment)

\* What follows from it behind the section.
Concluded(e) ==
  pc = "after" =>
    /\ (walk.create /\ ~IsWanted(walk.out, FullSize(e, walk.out))) => walk.needsSegment
    /\ Leads(e, walk.out) =>
         /\ ~walk.needsSegment /\ walk.loadSeg # 0
         /\ (walk.create /\ segment[walk.out] = 0) => walk.newSegment
    /\ walk.newSegment =>
         /\ segment[walk.out] = 0 /\ Leads(e, walk.out)
         /\ \A s \in Sections : segment[s] < walk.loadSeg

Parted(e, k) == Gathered(e, k) /\ FollowsOn(e) /\ Decided /\ Concluded(e)

\* The hindmost section that leads.
LEMMA LeadingIs ==
  ASSUME script \in Scripts, NEW e, NEW n \in Int, Leading(e, n) # {}
  PROVE  /\ Hindmost(Leading(e, n)) \in Sections /\ Hindmost(Leading(e, n)) < n
         /\ Leads(e, Hindmost(Leading(e, n)))
         /\ \A t \in Leading(e, n) : t <= Hindmost(Leading(e, n))
<1>1. Len(script.sections) \in Nat /\ Sections = 1..Len(script.sections)
  BY SectionsAreNumbered
<1>2. Leading(e, n) \subseteq 1..Len(script.sections)
  BY <1>1 DEF Leading
<1>3. Hindmost(Leading(e, n)) \in Leading(e, n) /\ \A t \in Leading(e, n) : t <= Hindmost(Leading(e, n))
  BY <1>1, <1>2, HindmostIs
<1> QED BY <1>3 DEF Leading

\* Which section the walk follows once it has left another.
LEMMA LeadingNext ==
  ASSUME script \in Scripts, NEW e, NEW s \in Sections
  PROVE  /\ Leads(e, s) => Leading(e, s + 1) # {} /\ Hindmost(Leading(e, s + 1)) = s
         /\ ~Leads(e, s) => Leading(e, s + 1) = Leading(e, s)
<1>1. Len(script.sections) \in Nat /\ Sections = 1..Len(script.sections)
  BY SectionsAreNumbered
<1>2. ASSUME Leads(e, s) PROVE Leading(e, s + 1) # {} /\ Hindmost(Leading(e, s + 1)) = s
  <2>1. s \in Leading(e, s + 1) /\ s + 1 \in Int
    BY <1>1, <1>2 DEF Leading
  <2>2. /\ Hindmost(Leading(e, s + 1)) \in Sections /\ Hindmost(Leading(e, s + 1)) < s + 1
        /\ s <= Hindmost(Leading(e, s + 1))
    BY <2>1, LeadingIs
  <2> QED BY <1>1, <2>1, <2>2
<1>3. ASSUME ~Leads(e, s) PROVE Leading(e, s + 1) = Leading(e, s)
  BY <1>1, <1>3 DEF Leading
<1> QED BY <1>2, <1>3

\* What is filled alike leads alike.
LEMMA LeadingAlike ==
  ASSUME script \in Scripts, UNCHANGED <<script, bodies>>, NEW e, NEW f, NEW k \in Nat, AsFull(e, f, k)
  PROVE  /\ \A s \in Sections : s <= k => (Leads(f, s)' <=> Leads(e, s))
         /\ \A s \in Int : s <= k + 1 => (Leading(f, s))' = Leading(e, s)
<1>1. Len(script.sections) \in Nat /\ Sections = 1..Len(script.sections) /\ Sections' = Sections
  BY SectionsAreNumbered, StaticStays
<1>2. ASSUME NEW s \in Sections, s <= k PROVE Leads(f, s)' <=> Leads(e, s)
  <2>1. (FullSize(f, s))' = FullSize(f, s) /\ FullSize(f, s) = FullSize(e, s)
    BY <1>2 DEF FullSize, AsFull
  <2>2. (Section(s))' = Section(s) /\ (IsTBSS(s)' <=> IsTBSS(s))
    BY StaticStays
  <2> QED BY <2>1, <2>2 DEF Leads, IsWanted
<1>3. ASSUME NEW s \in Int, s <= k + 1 PROVE (Leading(f, s))' = Leading(e, s)
  <2>1. \A t \in Sections : t < s => t <= k
    BY <1>1, <1>3
  <2> QED BY <1>1, <1>2, <2>1 DEF Leading
<1> QED BY <1>2, <1>3

\* Where a section is does not change when nothing up to it does.
LEMMA MetStays ==
  ASSUME script \in Scripts, script' = script, NEW k \in Nat,
         \A t \in Sections : t <= k => addr'[t] = addr[t] /\ paddr'[t] = paddr[t]
  PROVE  \A s \in Sections : s <= k => (Distance(s))' = Distance(s) /\ (Met(s)' <=> Met(s))
<1>1. Len(script.sections) \in Nat /\ Sections = 1..Len(script.sections)
  BY SectionsAreNumbered
<1>2. ASSUME NEW s \in Sections, s <= k PROVE (Distance(s))' = Distance(s) /\ (Met(s)' <=> Met(s))
  <2>1. addr'[s] = addr[s] /\ paddr'[s] = paddr[s]
    BY <1>2
  <2>2. \A t \in 1..s : t \in Sections /\ t <= k
    BY <1>1, <1>2
  <2>3. HasLoadRegion(s)' <=> HasLoadRegion(s)
    BY StaticStays
  <2> QED BY <2>1, <2>2, <2>3 DEF Distance, Met
<1> QED BY <1>2

\* What is in the segments stays there, however far the sections are steady.
LEMMA GatheredStays ==
  ASSUME script \in Scripts, UNCHANGED <<script, bodies, segment>>, NEW e, NEW f, NEW k \in Nat, NEW l \in Nat,
         k <= l, AsFull(e, f, k), Gathered(e, k),
         \A t \in Sections : t <= k => addr'[t] = addr[t] /\ paddr'[t] = paddr[t]
  PROVE  Gathered(f, l)'
<1>1. Len(script.sections) \in Nat /\ Sections = 1..Len(script.sections) /\ Sections' = Sections
      /\ \A s : IsTBSS(s)' <=> IsTBSS(s)
  BY SectionsAreNumbered, StaticStays
<1>2. \A s \in Sections : s <= k => /\ Leads(f, s)' <=> Leads(e, s)
                                    /\ (Leading(f, s))' = Leading(e, s)
  <2>1. \A s \in Sections : s \in Int /\ (s <= k => s <= k + 1)
    BY <1>1
  <2> QED BY <2>1, LeadingAlike
<1>3. \A s \in Sections : s <= k => (Distance(s))' = Distance(s) /\ (Met(s)' <=> Met(s))
  BY MetStays
<1>4. \A s \in Sections : s <= k => s <= l
  BY <1>1
<1>5. Meets(k) => Meets(l)'
  BY <1>1, <1>3, <1>4 DEF Meets
<1>6. \A s \in Sections : segment[s] # 0 => s <= k /\ (IsTBSS(s) \/ Leads(e, s))
  BY DEF Gathered
<1>7. (\A s \in Sections : segment[s] # 0 => s <= l /\ (IsTBSS(s) \/ Leads(f, s)))'
  BY <1>1, <1>2, <1>4, <1>6
<1>8. (\A s \in Sections : (segment[s] # 0 /\ IsTBSS(s) /\ Leading(f, s) # {}) =>
         segment[s] = segment[Hindmost(Leading(f, s))])'
  <2>1. ASSUME NEW s \in Sections, segment'[s] # 0, IsTBSS(s)', (Leading(f, s))' # {}
        PROVE  segment'[s] = segment'[(Hindmost(Leading(f, s)))']
    <3>1. segment[s] # 0 /\ IsTBSS(s) /\ (Leading(f, s))' = Leading(e, s)
      BY <1>1, <1>2, <1>6, <2>1
    <3>2. (Hindmost(Leading(f, s)))' = Hindmost(Leading(e, s))
      BY <3>1 DEF Hindmost
    <3> QED BY <2>1, <3>1, <3>2 DEF Gathered
  <2> QED BY <1>1, <2>1
<1>9. (Meets(l) \/ \A s, t \in Sections :
       (~IsTBSS(s) /\ ~IsTBSS(t) /\ segment[s] # 0 /\ segment[s] = segment[t]) => Distance(s) = Distance(t))'
  <2>1. CASE Meets(k)
    BY <1>5, <2>1
  <2>2. CASE ~Meets(k)
    <3>1. \A s, t \in Sections :
            (~IsTBSS(s) /\ ~IsTBSS(t) /\ segment[s] # 0 /\ segment[s] = segment[t]) => Distance(s) = Distance(t)
      BY <2>2 DEF Gathered
    <3> QED BY <1>1, <1>3, <1>6, <3>1
  <2> QED BY <2>1, <2>2
<1> QED BY <1>7, <1>8, <1>9 DEF Gathered

\* The numbers of the walk.
LEMMA PartIs ==
  ASSUME Inv, Typed, Static, NEW e, NEW k, Steady(e, k)
  PROVE  /\ script \in Scripts /\ Len(script.sections) \in Nat /\ Sections = 1..Len(script.sections)
         /\ k \in Nat /\ walk.out \in Nat /\ walk.out - 1 <= k /\ walk.out <= k + 1
         /\ pc = "after" => walk.out <= k
         /\ pc \in {"body", "after"} => walk.out \in Sections
         /\ pc = "before" => walk.out = 1
         /\ segments \in Nat /\ segment \in [Sections -> 0..segments] /\ walk.loadSeg \in Nat
         /\ DOMAIN walk = DOMAIN FreshWalk
         /\ addr \in [Sections -> Nat] /\ paddr \in [Sections -> Nat] /\ size \in [Sections -> Nat]
<1>1. k \in Nat /\ Upto <= k /\ DOMAIN walk = DOMAIN FreshWalk
  BY DEF Steady
<1>2. script \in Scripts /\ Len(script.sections) \in Nat /\ Sections = 1..Len(script.sections)
      /\ walk.out \in 1..Len(script.sections) + 1 /\ (pc \in {"body", "after"} => walk.out \in Sections)
  BY StaticIs
<1>3. walk.out \in Nat
  BY <1>2
<1>4. walk.out - 1 <= k /\ walk.out <= k + 1 /\ (pc = "after" => walk.out <= k)
  BY <1>1, <1>3 DEF Upto
<1>5. (pc = "before" => walk.out = 1) /\ segment \in [Sections -> 0..segments]
  BY DEF Typed, WalkTyped, SegmentsTyped
<1>6. segments \in Nat /\ walk.loadSeg \in Nat
  BY DEF Inv, Shape
<1> QED BY <1>1, <1>2, <1>3, <1>4, <1>5, <1>6, StaticIs

\* The section the walk has behind it is the last one that leads.
LEMMA PrevIs ==
  ASSUME Inv, Typed, Static, NEW e, NEW k, Steady(e, k), FollowsOn(e),
         pc \in {"before", "place", "body", "after"}
  PROVE  /\ walk.prev = 0 <=> Leading(e, walk.out) = {}
         /\ walk.prev # 0 =>
              /\ walk.prev \in Sections /\ walk.prev < walk.out /\ walk.prev <= k
              /\ Leads(e, walk.prev) /\ walk.prev = Hindmost(Leading(e, walk.out))
<1>1. /\ script \in Scripts /\ k \in Nat /\ walk.out \in Int /\ walk.out <= k + 1
      /\ Len(script.sections) \in Nat /\ Sections = 1..Len(script.sections)
  BY PartIs
<1>2. walk.prev = IF Leading(e, walk.out) = {} THEN 0 ELSE Hindmost(Leading(e, walk.out))
  BY DEF FollowsOn
<1>3. CASE Leading(e, walk.out) = {}
  BY <1>2, <1>3
<1>4. CASE Leading(e, walk.out) # {}
  <2>1. /\ Hindmost(Leading(e, walk.out)) \in Sections /\ Hindmost(Leading(e, walk.out)) < walk.out
        /\ Leads(e, Hindmost(Leading(e, walk.out)))
    BY <1>1, <1>4, LeadingIs
  <2> QED BY <1>1, <1>2, <1>4, <2>1
<1> QED BY <1>3, <1>4

\* A step in which the walk follows what it followed.
LEMMA PartedStays ==
  ASSUME Inv, Typed, Static, NEW e, NEW k, Steady(e, k), Parted(e, k), NEW f, AsFull(e, f, k),
         UNCHANGED <<script, bodies, segment, addr, paddr>>,
         pc' = pc \/ (pc = "before" /\ pc' = "place"),
         walk'.out = walk.out, walk'.prev = walk.prev, walk'.prevFlag = walk.prevFlag,
         walk'.prevRegion = walk.prevRegion, walk'.region = walk.region, walk'.pma = walk.pma,
         walk'.loadSeg = walk.loadSeg, walk'.needsSegment = walk.needsSegment,
         walk'.create = walk.create, walk'.enters = walk.enters, walk'.newSegment = walk.newSegment
  PROVE  Parted(f, k)'
<1>1. /\ script \in Scripts /\ k \in Nat /\ walk.out \in Int /\ walk.out <= k + 1
      /\ (pc = "after" => walk.out <= k) /\ (pc \in {"body", "after"} => walk.out \in Sections)
      /\ (pc = "before" => walk.out = 1)
  BY PartIs
<1>2. Gathered(f, k)'
  <2>1. k <= k
    BY <1>1
  <2> QED BY <1>1, <2>1, GatheredStays DEF Parted
<1>3. /\ (Leading(f, walk.out))' = Leading(e, walk.out)
      /\ pc = "after" => (Leads(f, walk.out)' <=> Leads(e, walk.out))
  <2>1. /\ \A s \in Sections : s <= k => (Leads(f, s)' <=> Leads(e, s))
        /\ \A s \in Int : s <= k + 1 => (Leading(f, s))' = Leading(e, s)
    BY <1>1, LeadingAlike
  <2>2. PICK s : s = walk.out
    OBVIOUS
  <2>3. (Leading(f, s))' = Leading(e, s) /\ (pc = "after" => (Leads(f, s)' <=> Leads(e, s)))
    BY <1>1, <2>1, <2>2
  <2>4. (Leading(f, walk.out))' = (Leading(f, s))' /\ (Leads(f, walk.out)' <=> Leads(f, s)')
    BY <2>2
  <2> QED BY <2>2, <2>3, <2>4
<1>4. /\ Sections' = Sections
      /\ \A s : /\ (Section(s))' = Section(s) /\ (IsTBSS(s) <=> IsTBSS(s)') /\ (Flag(s))' = Flag(s)
                /\ (HasLoadRegion(s) <=> HasLoadRegion(s)')
  BY StaticStays
<1>5. FollowsOn(f)'
  <2>1. (Hindmost(Leading(f, walk.out)))' = Hindmost(Leading(e, walk.out))
    BY <1>3 DEF Hindmost
  <2>2. pc' = "place" /\ walk.out > 1 => pc = "place"
    BY <1>1
  <2> QED BY <1>1, <1>3, <1>4, <2>1, <2>2 DEF FollowsOn, Parted, Flag, Section
<1>6. Decided'
  <2>1. (Met(walk.out)' <=> Met(walk.out)) /\ (Distance(walk.out))' = Distance(walk.out)
        /\ (Distance(walk.prev))' = Distance(walk.prev) /\ (IsTBSS(walk.out)' <=> IsTBSS(walk.out))
        /\ (Section(walk.out))' = Section(walk.out)
    BY <1>4 DEF Met, Distance, HasLoadRegion, LoadRegion, IsTBSS, Section
  <2> QED BY <2>1 DEF Decided, Parted
<1>7. Concluded(f)'
  <2>1. pc = "after" => (FullSize(f, walk.out))' = FullSize(e, walk.out)
    <3>1. FullSize(f, walk.out)' = FullSize(f, walk.out)
      BY DEF FullSize
    <3> QED BY <1>1, <3>1 DEF AsFull
  <2>2. pc = "after" => (IsWanted(walk.out, FullSize(f, walk.out))' <=> IsWanted(walk.out, FullSize(e, walk.out)))
    BY <2>1 DEF IsWanted, Section
  <2> QED BY <1>3, <1>4, <2>2 DEF Concluded, Parted
<1> QED BY <1>2, <1>5, <1>6, <1>7 DEF Parted

\* A walk that begins follows nothing.
LEMMA PartedBegins ==
  ASSUME script \in Scripts, script' = script, NEW f, NEW l, Gathered(f, l)',
         pc' = "before", walk'.out = 1, walk'.prev = 0, walk'.prevFlag = "none"
  PROVE  Parted(f, l)'
<1>1. (Leading(f, 1))' = {}
  <2>1. Sections' = 1..Len(script.sections)
    BY SectionsAreNumbered, StaticStays
  <2>2. \A t \in Sections' : ~(t < 1)
    BY <2>1
  <2> QED BY <2>2 DEF Leading
<1>2. (Leading(f, walk.out))' = {}
  BY <1>1 DEF Leading
<1>3. FollowsOn(f)'
  BY <1>2 DEF FollowsOn
<1> QED BY <1>3 DEF Parted, Decided, Concluded

\* What an assignment outside the sections leaves to the segments: nothing.
LEMMA NothingGathered ==
  ASSUME script' = script, segment' = [s \in Sections |-> 0], NEW f, NEW l
  PROVE  Gathered(f, l)'
<1>1. Sections' = Sections
  BY StaticStays
<1> QED BY <1>1 DEF Gathered

\* A pass over such a script begins with no segment.
LEMMA NextPassParted ==
  ASSUME script \in Scripts, script' = script, NextPass, NEW f, NEW l
  PROVE  Parted(f, l)'
<1>1. pc' = "before" /\ walk'.out = 1 /\ walk'.prev = 0 /\ walk'.prevFlag = "none"
  BY DEF NextPass, StartAgain, FreshWalk
<1>2. Gathered(f, l)'
  BY NothingGathered DEF NextPass
<1> QED BY <1>1, <1>2, PartedBegins

\* Where no segment is created for a section, it is as far from its load address as the
\* one before it.
LEMMA NotCreated ==
  ASSUME Inv, Typed, Static, LoadedAlike, NEW e, NEW k, Steady(e, k), FollowsOn(e), pc = "place",
         NEW s \in Sections, s = walk.out, ~IsTBSS(s), NEW vma \in Nat, NEW pma \in Nat,
         ~HasLoadRegion(s) => pma = vma, ~Creates(s, vma, pma)
  PROVE  /\ walk.prev # 0
         /\ \/ pma - vma = Distance(walk.prev)
            \/ HasLoadRegion(s) /\ (vma = pma \/ \E t \in Sections : t < s /\ vma = paddr[t])
<1>1. PICK p : p = walk.prev
  OBVIOUS
<1>2. /\ script \in Scripts /\ Len(script.sections) \in Nat /\ Sections = 1..Len(script.sections)
      /\ addr \in [Sections -> Nat] /\ paddr \in [Sections -> Nat] /\ size \in [Sections -> Nat]
      /\ k \in Nat
  BY PartIs
<1>3. /\ p # 0 => p \in Sections /\ p < s /\ p <= k /\ Leads(e, p)
      /\ p = 0 => walk.prevFlag = "none"
      /\ p # 0 => walk.prevFlag = Flag(p) /\ walk.prevRegion = Section(p).region /\ walk.loadSeg = segment[p] /\ segment[p] # 0
  BY <1>1, PrevIs DEF FollowsOn
<1>4. ~Separates(s, vma)
  BY DEF Creates, Decouples
<1>5. p # 0
  BY <1>1, <1>3, <1>4 DEF Separates, Flag
<1>6. /\ p \in Sections /\ p < s /\ addr[p] \in Nat /\ paddr[p] \in Nat /\ size[p] \in Nat
      /\ Section(p).region = Section(s).region
  <2>1. RegionOf(s) = Section(s).region
    BY DEF RegionOf, Static, InMemory
  <2> QED BY <1>1, <1>2, <1>3, <1>4, <1>5, <2>1 DEF Separates
<1>7. CASE Decouples(s, vma)
  <2>1. HasLoadRegion(s) /\ KeepsDistance(s, vma, pma)
    BY <1>2, <1>7, StaticIs DEF Decouples, Creates
  <2>2. ~(vma < addr[p] + size[p])
    BY <1>1, <1>4, <1>5 DEF Separates, End
  <2>3. CASE pma # vma
    <3>1. pma - (paddr[p] + size[p]) = vma - (addr[p] + size[p])
      BY <1>1, <1>6, <2>1, <2>2, <2>3 DEF KeepsDistance, LoadEnd, End
    <3>2. pma - vma = paddr[p] - addr[p]
      BY <1>6, <3>1
    <3> QED BY <1>1, <1>5, <3>2 DEF Distance
  <2> QED BY <1>1, <1>5, <2>1, <2>3
<1>8. CASE ~Decouples(s, vma)
  <2>1. CASE ~HasLoadRegion(s)
    <3>1. ~HasLoadRegion(p)
      BY <1>6, <2>1 DEF LoadedAlike, HasLoadRegion
    <3>2. PlacedRight(e, p)
      BY <1>3, <1>5 DEF Steady, SteadyUpTo
    <3>3. paddr[p] = addr[p]
      BY <3>1, <3>2 DEF PlacedRight
    <3>4. pma - vma = paddr[p] - addr[p]
      BY <1>6, <2>1, <3>3
    <3> QED BY <1>1, <1>5, <3>4 DEF Distance
  <2>2. CASE HasLoadRegion(s)
    <3>1. walk.pma = vma
      BY <1>4, <1>8, <2>2 DEF Decouples
    <3>2. walk.out > 1 /\ s - 1 \in Sections /\ s - 1 < s
      <4>1. PICK n \in Nat : n = Len(script.sections)
        BY <1>2
      <4>2. p \in 1..n /\ s \in 1..n /\ p < s /\ Sections = 1..n
        BY <1>2, <1>6, <4>1
      <4>3. s > 1 /\ s - 1 \in 1..n /\ s - 1 < s
        BY <4>2
      <4> QED BY <4>2, <4>3
    <3>3. walk.pma = paddr[s - 1]
      BY <3>2 DEF FollowsOn
    <3> QED BY <1>1, <1>5, <2>2, <3>1, <3>2, <3>3
  <2> QED BY <2>1, <2>2
<1> QED BY <1>7, <1>8

\* Placing a section: a segment is due where its distance is not that of the one before.
LEMMA PlaceSectionParted ==
  ASSUME Inv, Typed, Static, LoadedAlike, NEW e, NEW k, Steady(e, k), Parted(e, k), PlaceSection
  PROVE  Parted(e, k)'
<1>1. PICK s : s = walk.out
  OBVIOUS
<1>2. PICK vma : vma = AddressOf(s)
  OBVIOUS
<1>3. PICK pma : pma = LoadAddress(s, vma)
  OBVIOUS
<1>4. /\ script \in Scripts /\ s \in Sections /\ s \in Nat /\ k \in Nat /\ s <= k + 1
      /\ addr \in [Sections -> Nat] /\ paddr \in [Sections -> Nat] /\ Sections = 1..Len(script.sections)
  BY <1>1, PartIs, StaticPlacement
<1>5. vma \in Nat /\ pma \in Nat /\ (~HasLoadRegion(s) => pma = vma)
  <2>1. vma \in Nat /\ pma \in Nat
    BY <1>1, <1>2, <1>3, PlacementIs DEF Static
  <2>2. LoadAddress(s, AddressOf(s)) = IF HasLoadRegion(s) THEN CursorOf(e, LoadRegion(s), s) ELSE AddressOf(s)
    BY <1>1, StaticPlacement
  <2> QED BY <1>2, <1>3, <2>1, <2>2
<1>6. Loaded(s) /\ Section(s).region # 0
  BY <1>4 DEF Static, InMemory
<1>7. /\ pc = "place" /\ pc' = "body"
      /\ addr' = [addr EXCEPT ![s] = vma] /\ paddr' = [paddr EXCEPT ![s] = pma]
      /\ UNCHANGED <<script, bodies, segment>>
  BY <1>1, <1>2, <1>3 DEF PlaceSection
<1>8. /\ walk'.out = s /\ walk'.prev = walk.prev /\ walk'.prevFlag = walk.prevFlag
      /\ walk'.prevRegion = walk.prevRegion /\ walk'.region = RegionOf(s) /\ walk'.pma = pma
      /\ walk'.loadSeg = (IF segment[s] # 0 THEN segment[s] ELSE walk.loadSeg)
      /\ walk'.needsSegment = walk.needsSegment /\ walk'.newSegment = FALSE
      /\ walk'.enters = Enters(s, vma) /\ walk'.create = (Creates(s, vma, pma) /\ Loaded(s))
  <2>1. DOMAIN walk = DOMAIN FreshWalk
    BY PartIs
  <2>2. DOMAIN FreshWalk =
          {"out", "item", "prev", "prevFlag", "region", "prevRegion", "pma", "loadSeg", "needsSegment",
           "disconnect", "create", "enters", "newSegment", "maxSize", "start", "saved", "offset", "touched"}
    BY DEF FreshWalk
  <2>3. walk' = [walk EXCEPT
           !.item = 1, !.offset = 0, !.touched = FALSE, !.newSegment = FALSE,
           !.region = RegionOf(s),
           !.pma = pma,
           !.disconnect = Disconnects(s),
           !.enters = Enters(s, vma),
           !.create = Creates(s, vma, pma) /\ Loaded(s),
           !.loadSeg = IF segment[s] # 0 THEN segment[s] ELSE @,
           !.start = StartOf(s),
           !.maxSize = IF Overlay(s) = 0 THEN @
                       ELSE IF IsFirstMember(s) \/ @ < size[s] THEN size[s] ELSE @,
           !.saved = vma]
    BY <1>1, <1>2, <1>3 DEF PlaceSection
  <2> QED BY <1>1, <2>1, <2>2, <2>3
<1>9. addr'[s] = vma /\ paddr'[s] = pma /\ \A t \in Sections : t # s => addr'[t] = addr[t] /\ paddr'[t] = paddr[t]
  BY <1>4, <1>7
<1>10. AsFull(e, e, k)
  BY DEF AsFull
<1>11. Gathered(e, k)'
  <2>1. \A t \in Sections : t <= k => addr'[t] = addr[t] /\ paddr'[t] = paddr[t]
    BY PlaceSectionSteady
  <2>2. k <= k
    BY <1>4
  <2> QED BY <1>4, <1>7, <1>10, <2>1, <2>2, GatheredStays DEF Parted
<1>12. /\ Sections' = Sections
       /\ \A t : /\ (Section(t))' = Section(t) /\ (IsTBSS(t) <=> IsTBSS(t)') /\ (Flag(t))' = Flag(t)
                 /\ (HasLoadRegion(t) <=> HasLoadRegion(t)')
  BY <1>7, StaticStays
<1>13. FollowsOn(e)'
  <2>1. (Leading(e, s))' = Leading(e, s) /\ s \in Int
    BY <1>4, <1>7, <1>10, LeadingAlike
  <2>2. (Leading(e, walk.out))' = Leading(e, walk.out)
    BY <1>1, <1>8, <2>1 DEF Leading
  <2>3. (Hindmost(Leading(e, walk.out)))' = Hindmost(Leading(e, walk.out))
    BY <2>2 DEF Hindmost
  <2>4. (Flag(walk.prev))' = Flag(walk.prev) /\ (Section(walk.prev))' = Section(walk.prev)
    BY <1>8, <1>12 DEF Flag, Section
  <2> QED BY <1>7, <1>8, <2>2, <2>3, <2>4 DEF FollowsOn, Parted
<1>14. (~IsTBSS(s) /\ ~walk'.create) =>
         walk.prev # 0 /\ ((Distance(s))' = (Distance(walk.prev)) \/ Met(s)')
  <2> SUFFICES ASSUME ~IsTBSS(s), ~walk'.create
               PROVE  walk.prev # 0 /\ ((Distance(s))' = (Distance(walk.prev)) \/ Met(s)')
    OBVIOUS
  <2>1. ~Creates(s, vma, pma)
    BY <1>6, <1>8
  <2>2. /\ walk.prev # 0
        /\ \/ pma - vma = Distance(walk.prev)
           \/ HasLoadRegion(s) /\ (vma = pma \/ \E t \in Sections : t < s /\ vma = paddr[t])
    BY <1>1, <1>4, <1>5, <1>7, <2>1, NotCreated DEF Parted
  <2>3. (Distance(s))' = pma - vma
    BY <1>9 DEF Distance
  <2>4. ASSUME HasLoadRegion(s), vma = pma \/ \E t \in Sections : t < s /\ vma = paddr[t] PROVE Met(s)'
    <3>1. \E t \in 1..s : addr'[s] = paddr'[t]
      <4>1. CASE vma = pma
        BY <1>4, <1>9, <4>1
      <4>2. CASE \E t \in Sections : t < s /\ vma = paddr[t]
        BY <1>4, <1>9, <4>2
      <4> QED BY <2>4, <4>1, <4>2
    <3>2. HasLoadRegion(s)'
      BY <1>12, <2>4
    <3> QED BY <3>1, <3>2 DEF Met
  <2> QED BY <2>2, <2>3, <2>4
<1>15. walk.prev # 0 => walk.prev \in Sections /\ walk.prev < s /\ walk.loadSeg = segment[walk.prev]
  BY <1>1, <1>7, PrevIs DEF Parted, FollowsOn
<1>16. Decided'
  <2>1. (walk.pma = paddr[walk.out])'
    BY <1>8, <1>9
  <2>2. (walk.region = Section(walk.out).region)'
    BY <1>6, <1>7, <1>8 DEF RegionOf, Section
  <2>3. (segment[walk.out] # 0 => walk.loadSeg = segment[walk.out])'
        /\ ((segment[walk.out] = 0 /\ walk.prev # 0 /\ ~walk.newSegment) => walk.loadSeg = segment[walk.prev])'
    BY <1>7, <1>8, <1>15
  <2>4. ((~IsTBSS(walk.out) /\ ~walk.create) =>
           walk.prev # 0 /\ (Distance(walk.out) = Distance(walk.prev) \/ Met(walk.out)))'
    <3>1. (IsTBSS(walk.out)' <=> IsTBSS(s)) /\ (Distance(walk.out))' = (Distance(s))' /\ (Met(walk.out)' <=> Met(s)')
      BY <1>8, <1>12 DEF IsTBSS, Distance, Met, Section, HasLoadRegion, LoadRegion
    <3>2. walk.prev # 0 => (Distance(walk.prev))' = Distance(walk.prev)
      BY <1>4, <1>8, <1>9, <1>15 DEF Distance
    <3> QED BY <1>8, <1>14, <3>1, <3>2
  <2>5. Creates(s, vma, pma) => Enters(s, vma)
    BY <1>6 DEF Creates, Enters
  <2>6. Enters(s, vma) \/ ~walk.needsSegment
    BY <1>6 DEF Enters
  <2> QED BY <1>8, <2>1, <2>2, <2>3, <2>4, <2>5, <2>6 DEF Decided
<1>17. Concluded(e)'
  BY <1>7 DEF Concluded
<1> QED BY <1>11, <1>13, <1>16, <1>17 DEF Parted

\* The end of a section, whose size is now the one every later pass gives it.
LEMMA FinishBodyParted ==
  ASSUME Inv, Typed, Ordered, Static, NEW e, NEW k, Steady(e, k), Parted(e, k), FinishBody,
         NEW l, l = IF walk.out > k THEN walk.out ELSE k
  PROVE  Parted(e, l)'
<1>1. PICK s : s = walk.out
  OBVIOUS
<1>2. PICK u : u = FullSize(e, s)
  OBVIOUS
<1>3. /\ script \in Scripts /\ s \in Sections /\ s \in Nat /\ k \in Nat /\ l \in Nat /\ k <= l /\ s <= k + 1
      /\ Sections = 1..Len(script.sections) /\ pc = "body" /\ SizeAtEnd = u
      /\ segments \in Nat /\ segment \in [Sections -> 0..segments] /\ walk.loadSeg \in Nat
  <2>1. pc = "body"
    BY DEF FinishBody
  <2>2. s \in Sections /\ script \in Scripts /\ k \in Nat /\ s <= k + 1 /\ Sections = 1..Len(script.sections) /\ s \in Nat
        /\ segments \in Nat /\ segment \in [Sections -> 0..segments] /\ walk.loadSeg \in Nat
    BY <1>1, <2>1, PartIs
  <2>3. k <= l /\ SizeAtEnd = u
    BY <1>1, <1>2, FinishBodySteady
  <2> QED BY <1>1, <2>1, <2>2, <2>3
<1>4. PICK new \in BOOLEAN : new <=> NeedsNewSegment(s)
  OBVIOUS
<1>5. /\ pc' = "after" /\ UNCHANGED <<script, bodies, addr, paddr, segment>>
      /\ walk'.out = s /\ walk'.prev = walk.prev /\ walk'.prevFlag = walk.prevFlag
      /\ walk'.prevRegion = walk.prevRegion /\ walk'.region = walk.region /\ walk'.pma = walk.pma
      /\ walk'.create = walk.create /\ walk'.enters = walk.enters /\ (walk'.newSegment <=> new)
      /\ walk'.loadSeg = (IF new THEN segments + 1 ELSE walk.loadSeg)
      /\ walk'.needsSegment = (IF ~walk.enters THEN walk.needsSegment ELSE ~IsWanted(s, u) \/ IsTBSS(s))
  <2>1. DOMAIN walk = DOMAIN FreshWalk
    BY PartIs
  <2>2. walk' = [walk EXCEPT
           !.item = 1, !.saved = CounterBehind(s),
           !.newSegment = NeedsNewSegment(s),
           !.loadSeg = IF NeedsNewSegment(s) THEN segments + 1 ELSE @,
           !.needsSegment = IF ~walk.enters THEN @
                            ELSE ~IsWanted(s, u) \/ IsTBSS(s)]
    BY <1>1, <1>3 DEF FinishBody
  <2> QED BY <1>1, <1>4, <2>1, <2>2 DEF FreshWalk, FinishBody
<1>6. new <=> walk.enters /\ Leads(e, s) /\ segment[s] = 0 /\ (walk.create \/ addr[s] < addr[walk.prev])
  BY <1>2, <1>3, <1>4 DEF NeedsNewSegment, Leads
<1>7. AsFull(e, e, k)
  BY DEF AsFull
<1>8. Gathered(e, l)'
  BY <1>3, <1>5, <1>7, GatheredStays DEF Parted
<1>9. /\ Sections' = Sections
      /\ \A t : /\ (Section(t))' = Section(t) /\ (IsTBSS(t) <=> IsTBSS(t)') /\ (Flag(t))' = Flag(t)
                /\ (HasLoadRegion(t) <=> HasLoadRegion(t)') /\ (LoadRegion(t))' = LoadRegion(t)
  BY <1>5, StaticStays
<1>10. FollowsOn(e)'
  <2>1. (Leading(e, s))' = Leading(e, s) /\ s \in Int
    BY <1>3, <1>5, <1>7, LeadingAlike
  <2>2. (Leading(e, walk.out))' = Leading(e, walk.out)
    BY <1>1, <1>5, <2>1 DEF Leading
  <2>3. (Hindmost(Leading(e, walk.out)))' = Hindmost(Leading(e, walk.out))
    BY <2>2 DEF Hindmost
  <2>4. (Flag(walk.prev))' = Flag(walk.prev) /\ (Section(walk.prev))' = Section(walk.prev)
    BY <1>5, <1>9 DEF Flag, Section
  <2> QED BY <1>3, <1>5, <2>2, <2>3, <2>4 DEF FollowsOn, Parted
<1>11. /\ walk.pma = paddr[s] /\ walk.region = Section(s).region
       /\ segment[s] # 0 => walk.loadSeg = segment[s]
       /\ (segment[s] = 0 /\ walk.prev # 0) => walk.loadSeg = segment[walk.prev]
       /\ (~IsTBSS(s) /\ ~walk.create) =>
            walk.prev # 0 /\ (Distance(s) = Distance(walk.prev) \/ Met(s))
       /\ walk.create => walk.enters
       /\ walk.enters \/ ~walk.needsSegment
  BY <1>1, <1>3 DEF Decided, Parted
<1>12. Decided'
  <2>1. (IsTBSS(walk.out)' <=> IsTBSS(s)) /\ (Distance(walk.out))' = Distance(s) /\ (Met(walk.out)' <=> Met(s))
        /\ (Distance(walk.prev))' = Distance(walk.prev) /\ (Section(walk.out))' = Section(s)
    BY <1>5, <1>9 DEF IsTBSS, Distance, Met, HasLoadRegion, LoadRegion, Section
  <2> QED BY <1>5, <1>6, <1>11, <2>1 DEF Decided
<1>13. walk.prev # 0 => segment[walk.prev] # 0 /\ walk.prev \in Sections
  BY <1>3, PrevIs DEF Parted, FollowsOn
<1>14. Concluded(e)'
  <2>1. /\ (Leads(e, walk.out)' <=> Leads(e, s)) /\ (FullSize(e, walk.out))' = u
        /\ (IsWanted(walk.out, FullSize(e, walk.out))' <=> IsWanted(s, u))
    <3>1. (FullSize(e, walk.out))' = u
      BY <1>2, <1>5 DEF FullSize
    <3> QED BY <1>2, <1>5, <3>1 DEF Leads, IsWanted, IsTBSS, Section
  <2>2. Leads(e, s) <=> ~IsTBSS(s) /\ IsWanted(s, u)
    BY <1>2 DEF Leads
  <2>3. (walk.create /\ ~IsWanted(s, u)) => walk'.needsSegment
    BY <1>5, <1>11
  <2>4. Leads(e, s) => ~walk'.needsSegment
    BY <1>5, <1>11, <2>2
  <2>5. Leads(e, s) => walk'.loadSeg # 0
    <3>1. segments + 1 # 0
      BY <1>3
    <3>2. ASSUME Leads(e, s), ~new PROVE walk.loadSeg # 0
      <4>1. CASE segment[s] # 0
        BY <1>11, <4>1
      <4>2. CASE segment[s] = 0
        <5>1. ~walk.create
          BY <1>6, <1>11, <3>2, <4>2
        <5> QED BY <1>11, <1>13, <2>2, <3>2, <4>2, <5>1
      <4> QED BY <4>1, <4>2
    <3> QED BY <1>5, <3>1, <3>2
  <2>6. (Leads(e, s) /\ walk.create /\ segment[s] = 0) => new
    BY <1>6, <1>11
  <2>7. new => segment[s] = 0 /\ Leads(e, s) /\ \A t \in Sections : segment[t] < walk'.loadSeg
    <3> SUFFICES ASSUME new, NEW t \in Sections PROVE segment[t] < walk'.loadSeg
      BY <1>6
    <3>1. segment[t] \in 0..segments /\ walk'.loadSeg = segments + 1
      BY <1>3, <1>5
    <3> QED BY <1>3, <3>1
  <2> QED BY <1>5, <1>9, <2>1, <2>3, <2>4, <2>5, <2>6, <2>7 DEF Concluded
<1> QED BY <1>8, <1>10, <1>12, <1>14 DEF Parted

\* Whether a section is put into a segment.
LEMMA AttachIs ==
  ASSUME Inv, Typed, Static, NEW e, NEW k, Steady(e, k), Parted(e, k), pc = "after"
  PROVE  /\ (Attaches /\ ~IsTBSS(walk.out)) <=> Leads(e, walk.out)
         /\ Attaches => walk.loadSeg # 0
         /\ walk.newSegment => Attaches
<1>1. PICK s : s = walk.out
  OBVIOUS
<1>2. s \in Sections /\ s <= k
  BY <1>1, PartIs
<1>3. size[s] = FullSize(e, s)
  BY <1>2 DEF Steady, SteadyUpTo
<1>4. Loaded(s)
  BY <1>2 DEF Static
<1>5. Attaches <=> walk.loadSeg # 0 /\ ~walk.needsSegment /\ (walk.create \/ IsWanted(s, FullSize(e, s)))
  BY <1>1, <1>3, <1>4 DEF Attaches
<1>6. walk.newSegment => Attaches
  BY DEF Inv, PendingAttaches, Pending
<1> QED BY <1>1, <1>5, <1>6 DEF Parted, Concluded, Leads

\* A section goes into the segment of the one before it, or into one of its own.
LEMMA GroupedParted ==
  ASSUME Inv, Typed, Static, NEW e, NEW k, Steady(e, k), Parted(e, k), pc = "after",
         UNCHANGED <<script, bodies, addr, paddr>>, segment' = Grouped(walk.out)
  PROVE  /\ Gathered(e, k)'
         /\ \A t \in Sections : t # walk.out => segment'[t] = segment[t]
         /\ Attaches => segment'[walk.out] = walk.loadSeg /\ segment'[walk.out] # 0
         /\ ~Attaches => segment' = segment
<1>1. PICK s : s = walk.out
  OBVIOUS
<1>2. /\ script \in Scripts /\ s \in Sections /\ s \in Nat /\ s <= k /\ k \in Nat
      /\ Sections = 1..Len(script.sections) /\ Len(script.sections) \in Nat
      /\ segments \in Nat /\ segment \in [Sections -> 0..segments] /\ walk.loadSeg \in Nat
  BY <1>1, PartIs
<1>3. AsFull(e, e, k) /\ k <= k
  BY <1>2 DEF AsFull
<1>4. /\ segment[s] # 0 => walk.loadSeg = segment[s]
      /\ (segment[s] = 0 /\ walk.prev # 0 /\ ~walk.newSegment) => walk.loadSeg = segment[walk.prev]
      /\ (~IsTBSS(s) /\ ~walk.create) => walk.prev # 0 /\ (Distance(s) = Distance(walk.prev) \/ Met(s))
  BY <1>1 DEF Decided, Parted
<1>5. CASE ~Attaches \/ segment[s] # 0
  <2>1. segment' = segment
    BY <1>1, <1>5 DEF Grouped
  <2>2. Gathered(e, k)'
    BY <1>2, <1>3, <2>1, GatheredStays DEF Parted
  <2> QED BY <1>1, <1>4, <1>5, <2>1, <2>2, AttachIs
<1>6. CASE Attaches /\ segment[s] = 0
  <2>1. PICK n : n = walk.loadSeg
    OBVIOUS
  <2>2. n # 0 /\ segment' = [segment EXCEPT ![s] = n]
    BY <1>1, <1>6, <2>1, AttachIs DEF Grouped
  <2>3. segment'[s] = n /\ \A t \in Sections : t # s => segment'[t] = segment[t]
    BY <1>2, <2>2
  <2>4. /\ Sections' = Sections
        /\ \A t : (IsTBSS(t) <=> IsTBSS(t)')
    BY StaticStays
  <2>5. \A t \in Sections : t <= k => /\ Leads(e, t)' <=> Leads(e, t)
                                      /\ (Leading(e, t))' = Leading(e, t)
    <3>1. \A t \in Sections : t \in Int /\ (t <= k => t <= k + 1)
      BY <1>2
    <3> QED BY <1>2, <1>3, <3>1, LeadingAlike
  <2>6. \A t \in Sections : t <= k => (Distance(t))' = Distance(t) /\ (Met(t)' <=> Met(t))
    <3>1. \A t \in Sections : t <= k => addr'[t] = addr[t] /\ paddr'[t] = paddr[t]
      OBVIOUS
    <3> QED BY <1>2, <3>1, MetStays
  <2>7. \A t \in Sections : segment[t] # 0 => t <= k /\ (IsTBSS(t) \/ Leads(e, t))
    BY DEF Parted, Gathered
  <2>8. IsTBSS(s) \/ Leads(e, s)
    BY <1>1, <1>6, AttachIs
  <2>9. /\ walk.prev = 0 <=> Leading(e, s) = {}
        /\ walk.prev # 0 => /\ walk.prev \in Sections /\ walk.prev < s /\ walk.prev <= k /\ Leads(e, walk.prev)
                            /\ walk.prev = Hindmost(Leading(e, s)) /\ segment[walk.prev] # 0
    BY <1>1, PrevIs DEF Parted, FollowsOn
  <2>10. walk.newSegment => Leads(e, s) /\ \A t \in Sections : segment[t] < n
    BY <1>1, <2>1 DEF Parted, Concluded
  <2>11. (Leads(e, s) /\ walk.create) => walk.newSegment
    BY <1>1, <1>6 DEF Parted, Concluded
  <2>12. (\A t \in Sections : segment[t] # 0 => t <= k /\ (IsTBSS(t) \/ Leads(e, t)))'
    BY <1>2, <2>3, <2>4, <2>5, <2>7, <2>8
  <2>13. (\A t \in Sections : (segment[t] # 0 /\ IsTBSS(t) /\ Leading(e, t) # {}) =>
            segment[t] = segment[Hindmost(Leading(e, t))])'
    <3>1. ASSUME NEW t \in Sections, segment'[t] # 0, IsTBSS(t)', (Leading(e, t))' # {}
          PROVE  segment'[t] = segment'[(Hindmost(Leading(e, t)))']
      <4>1. t <= k
        BY <2>12, <3>1, <2>4
      <4>2. (Leading(e, t))' = Leading(e, t) /\ Leading(e, t) # {} /\ IsTBSS(t)
        BY <2>4, <2>5, <3>1, <4>1
      <4>3. (Hindmost(Leading(e, t)))' = Hindmost(Leading(e, t))
        BY <4>2 DEF Hindmost
      <4>4. CASE t = s
        <5>1. walk.prev # 0 /\ ~Leads(e, s)
          BY <2>9, <4>2, <4>4 DEF Leads
        <5>2. segment[walk.prev] = n /\ walk.prev \in Sections /\ walk.prev # s
          BY <1>2, <1>4, <1>6, <2>1, <2>9, <2>10, <5>1
        <5> QED BY <2>3, <2>9, <4>3, <4>4, <5>1, <5>2
      <4>5. CASE t # s
        <5>1. segment[t] # 0 /\ segment'[t] = segment[t]
          BY <2>3, <3>1, <4>5
        <5>2. segment[t] = segment[Hindmost(Leading(e, t))]
          BY <4>2, <5>1 DEF Parted, Gathered
        <5>3. Hindmost(Leading(e, t)) \in Sections
          <6>1. t \in Int
            BY <1>2
          <6> QED BY <1>2, <4>2, <6>1, LeadingIs
        <5>4. Hindmost(Leading(e, t)) # s
          BY <1>6, <5>1, <5>2
        <5> QED BY <2>3, <4>3, <5>1, <5>2, <5>3, <5>4
      <4> QED BY <4>4, <4>5
    <3> QED BY <2>4, <3>1
  <2>14. (Meets(k) \/ \A a, b \in Sections :
       (~IsTBSS(a) /\ ~IsTBSS(b) /\ segment[a] # 0 /\ segment[a] = segment[b]) => Distance(a) = Distance(b))'
    <3>1. CASE Meets(k)
      BY <2>4, <2>6, <3>1 DEF Meets
    <3>2. CASE ~Meets(k)
      <4>1. \A a, b \in Sections :
              (~IsTBSS(a) /\ ~IsTBSS(b) /\ segment[a] # 0 /\ segment[a] = segment[b]) => Distance(a) = Distance(b)
        BY <3>2 DEF Parted, Gathered
      <4>2. ASSUME NEW b \in Sections, b # s, ~IsTBSS(s), ~IsTBSS(b), segment[b] = n PROVE Distance(b) = Distance(s)
        <5>1. Leads(e, s)
          BY <2>8, <4>2
        <5>2. ~walk.newSegment
          <6>1. segment[b] \in Nat
            BY <1>2
          <6> QED BY <2>10, <4>2, <6>1
        <5>3. walk.prev # 0 /\ (Distance(s) = Distance(walk.prev) \/ Met(s))
          BY <1>4, <2>11, <4>2, <5>1, <5>2
        <5>4. Distance(s) = Distance(walk.prev)
          BY <1>2, <3>2, <5>3 DEF Meets
        <5>5. segment[walk.prev] = n /\ walk.prev \in Sections /\ ~IsTBSS(walk.prev)
          BY <1>4, <1>6, <2>1, <2>9, <5>2, <5>3 DEF Leads
        <5>6. Distance(b) = Distance(walk.prev)
          BY <2>2, <4>1, <4>2, <5>5
        <5> QED BY <5>4, <5>6
      <4>3. ASSUME NEW a \in Sections, NEW b \in Sections, ~IsTBSS(a), ~IsTBSS(b), segment'[a] # 0,
                   segment'[a] = segment'[b]
            PROVE  Distance(a) = Distance(b)
        <5>1. CASE a = s /\ b = s
          BY <5>1
        <5>2. CASE a = s /\ b # s
          <6>1. segment[b] = n
            BY <2>3, <4>3, <5>2
          <6> QED BY <4>2, <4>3, <5>2, <6>1
        <5>3. CASE a # s /\ b = s
          <6>1. segment[a] = n
            BY <2>3, <4>3, <5>3
          <6> QED BY <4>2, <4>3, <5>3, <6>1
        <5>4. CASE a # s /\ b # s
          BY <2>3, <4>1, <4>3, <5>4
        <5> QED BY <5>1, <5>2, <5>3, <5>4
      <4>4. ASSUME NEW a \in Sections, segment'[a] # 0 PROVE (Distance(a))' = Distance(a)
        BY <2>4, <2>6, <2>12, <4>4
      <4>5. ASSUME NEW a \in Sections, NEW b \in Sections, ~IsTBSS(a)', ~IsTBSS(b)', segment'[a] # 0,
                   segment'[a] = segment'[b]
            PROVE  (Distance(a))' = (Distance(b))'
        <5>1. ~IsTBSS(a) /\ ~IsTBSS(b) /\ segment'[b] # 0
          BY <2>4, <4>5
        <5> QED BY <4>3, <4>4, <4>5, <5>1
      <4> QED BY <2>4, <4>5
    <3> QED BY <3>1, <3>2
  <2>15. Gathered(e, k)'
    BY <2>12, <2>13, <2>14 DEF Gathered
  <2> QED BY <1>1, <1>6, <2>1, <2>2, <2>3, <2>15
<1> QED BY <1>5, <1>6

\* A pass that starts again keeps the segments it has made.
LEMMA RestartParted ==
  ASSUME Inv, Typed, Static, NEW e, NEW k, Steady(e, k), Parted(e, k), Restart
  PROVE  Parted(e, k)'
<1>1. pc = "after" /\ UNCHANGED <<script, bodies, addr, paddr>> /\ segment' = Grouped(walk.out)
      /\ pc' = "before" /\ walk' = ResetWalk(walk)
  BY DEF Restart, EndOfSection, StartAgain, placed
<1>2. script \in Scripts /\ DOMAIN walk = DOMAIN FreshWalk
  BY PartIs
<1>3. walk'.out = 1 /\ walk'.prev = 0 /\ walk'.prevFlag = "none"
  BY <1>1, <1>2 DEF ResetWalk, KeptOnReset, FreshWalk
<1>4. Gathered(e, k)'
  BY <1>1, GroupedParted
<1> QED BY <1>1, <1>2, <1>3, <1>4, PartedBegins

\* The walk goes on to the next section, behind the one that it has put into a segment.
LEMMA NextSectionParted ==
  ASSUME Inv, Typed, Static, NEW e, NEW k, Steady(e, k), Parted(e, k), NextSection
  PROVE  Parted(e, k)'
<1>1. PICK s : s = walk.out
  OBVIOUS
<1>2. /\ pc = "after" /\ pc' = "place" /\ UNCHANGED <<script, bodies, addr, paddr>> /\ segment' = Grouped(walk.out)
      /\ ~(Attaches /\ walk.newSegment)
      /\ walk' = [Passed(walk) EXCEPT !.out = s + 1, !.newSegment = FALSE]
  <2>1. walk' = [Passed(walk) EXCEPT !.out = Passed(walk).out + 1, !.newSegment = FALSE]
    BY DEF NextSection
  <2>2. DOMAIN walk = DOMAIN FreshWalk
    BY PartIs
  <2>3. Passed(walk).out = s
    BY <1>1, <2>2 DEF Passed, FreshWalk
  <2> QED BY <2>1, <2>3 DEF NextSection, EndOfSection, placed
<1>3. /\ script \in Scripts /\ s \in Sections /\ s \in Nat /\ s <= k /\ k \in Nat /\ DOMAIN walk = DOMAIN FreshWalk
      /\ Sections = 1..Len(script.sections)
  BY <1>1, <1>2, PartIs
<1>4. /\ walk'.out = s + 1 /\ walk'.pma = walk.pma /\ walk'.loadSeg = walk.loadSeg
      /\ Leads(e, s) => walk'.prev = s /\ walk'.prevFlag = Flag(s)
                        /\ walk'.prevRegion = IF walk.region # 0 THEN walk.region ELSE walk.prevRegion
      /\ ~Leads(e, s) => walk'.prev = walk.prev /\ walk'.prevFlag = walk.prevFlag
                         /\ walk'.prevRegion = walk.prevRegion
  <2>1. (Attaches /\ ~IsTBSS(walk.out)) <=> Leads(e, s)
    BY <1>1, <1>2, AttachIs
  <2>2. CASE Leads(e, s)
    <3>1. Passed(walk) = [walk EXCEPT !.prev = s, !.prevFlag = Flag(s),
                                      !.prevRegion = IF walk.region # 0 THEN walk.region ELSE walk.prevRegion]
      BY <1>1, <2>1, <2>2 DEF Passed
    <3> QED BY <1>2, <1>3, <2>2, <3>1 DEF FreshWalk
  <2>3. CASE ~Leads(e, s)
    <3>1. Passed(walk) = walk
      BY <1>1, <2>1, <2>3 DEF Passed
    <3> QED BY <1>2, <1>3, <2>3, <3>1 DEF FreshWalk
  <2> QED BY <2>2, <2>3
<1>5. /\ Gathered(e, k)'
      /\ \A t \in Sections : t # s => segment'[t] = segment[t]
      /\ Attaches => segment'[s] = walk.loadSeg /\ segment'[s] # 0
      /\ ~Attaches => segment' = segment
  BY <1>1, <1>2, GroupedParted
<1>6. /\ Leads(e, s) => Attaches
      /\ ~walk.newSegment
  BY <1>1, <1>2, AttachIs
<1>7. /\ Sections' = Sections
      /\ \A t : (Section(t))' = Section(t) /\ (Flag(t))' = Flag(t)
  BY <1>2, StaticStays
<1>8. /\ walk.prev = 0 <=> Leading(e, s) = {}
      /\ walk.prev # 0 =>
           /\ walk.prev \in Sections /\ walk.prev < s /\ walk.prev = Hindmost(Leading(e, s))
           /\ segment[walk.prev] # 0 /\ walk.prevFlag = Flag(walk.prev)
           /\ walk.prevRegion = Section(walk.prev).region
      /\ walk.prev = 0 => walk.prevFlag = "none"
  BY <1>1, <1>2, PrevIs DEF Parted, FollowsOn
<1>9. /\ walk.pma = paddr[s] /\ walk.region = Section(s).region
      /\ segment[s] # 0 => walk.loadSeg = segment[s]
      /\ (segment[s] = 0 /\ walk.prev # 0) => walk.loadSeg = segment[walk.prev]
  BY <1>1, <1>2, <1>6 DEF Decided, Parted
<1>10. (Leading(e, walk.out))' = Leading(e, s + 1)
  <2>1. AsFull(e, e, k) /\ s + 1 \in Int /\ s + 1 <= k + 1
    BY <1>3 DEF AsFull
  <2>2. (Leading(e, s + 1))' = Leading(e, s + 1)
    BY <1>2, <1>3, <2>1, LeadingAlike
  <2> QED BY <1>4, <2>2 DEF Leading
<1>11. (Hindmost(Leading(e, walk.out)))' = Hindmost(Leading(e, s + 1))
  BY <1>10 DEF Hindmost
<1>12. pc' = "place" /\ s + 1 # 0 /\ walk'.out - 1 = s /\ paddr'[s] = paddr[s]
  BY <1>2, <1>3, <1>4
<1>13. CASE Leads(e, s)
  <2>1. walk'.prev = s /\ s # 0 /\ walk'.prevFlag = Flag(s) /\ walk'.prevRegion = Section(s).region
    BY <1>3, <1>4, <1>9, <1>13 DEF Static, InMemory
  <2>2. (Leading(e, walk.out))' # {} /\ (Hindmost(Leading(e, walk.out)))' = s
    BY <1>3, <1>10, <1>11, <1>13, LeadingNext
  <2>3. segment'[s] = walk.loadSeg /\ segment'[s] # 0
    BY <1>5, <1>6, <1>13
  <2>4. (Flag(walk.prev))' = Flag(s) /\ (Section(walk.prev))' = Section(s)
    BY <1>7, <2>1 DEF Flag, Section
  <2>5. FollowsOn(e)'
    BY <1>4, <1>9, <1>12, <2>1, <2>2, <2>3, <2>4 DEF FollowsOn
  <2> QED BY <1>5, <1>12, <2>5 DEF Parted, Decided, Concluded
<1>14. CASE ~Leads(e, s)
  <2>1. walk'.prev = walk.prev /\ walk'.prevFlag = walk.prevFlag /\ walk'.prevRegion = walk.prevRegion
    BY <1>4, <1>14
  <2>2. (Leading(e, walk.out))' = Leading(e, s) /\ (Hindmost(Leading(e, walk.out)))' = Hindmost(Leading(e, s))
    BY <1>3, <1>10, <1>11, <1>14, LeadingNext
  <2>3. walk.prev # 0 => segment'[walk.prev] = segment[walk.prev]
    BY <1>3, <1>5, <1>8
  <2>4. walk.prev # 0 => walk.loadSeg = segment[walk.prev]
    <3>1. CASE segment[s] = 0
      BY <1>9, <3>1
    <3>2. CASE segment[s] # 0 /\ walk.prev # 0
      <4>1. IsTBSS(s)
        BY <1>3, <1>14, <3>2 DEF Parted, Gathered
      <4>2. segment[s] = segment[Hindmost(Leading(e, s))]
        BY <1>3, <1>8, <3>2, <4>1 DEF Parted, Gathered
      <4> QED BY <1>8, <1>9, <3>2, <4>2
    <3> QED BY <3>1, <3>2
  <2>5. (Flag(walk.prev))' = Flag(walk.prev) /\ (Section(walk.prev))' = Section(walk.prev)
    BY <1>7, <2>1 DEF Flag, Section
  <2>6. FollowsOn(e)'
    BY <1>4, <1>8, <1>9, <1>12, <2>1, <2>2, <2>3, <2>4, <2>5 DEF FollowsOn
  <2> QED BY <1>5, <1>12, <2>6 DEF Parted, Decided, Concluded
<1> QED BY <1>13, <1>14

StaticInv == (Static /\ LoadedAlike) => \E e, k : Steady(e, k) /\ Parted(e, k)

\* A layout begins without segments.
LEMMA InitParted ==
  ASSUME Init, NEW e
  PROVE  Parted(e, 0)
<1>1. /\ script \in Scripts /\ pc = "before" /\ segment = [s \in Sections |-> 0]
      /\ walk.out = 1 /\ walk.prev = 0 /\ walk.prevFlag = "none"
  BY DEF Init, FreshWalk
<1>2. Gathered(e, 0)
  BY <1>1 DEF Gathered
<1>3. Leading(e, 1) = {}
  <2>1. \A t \in Sections : ~(t < 1)
    BY <1>1, SectionsAreNumbered
  <2> QED BY <2>1 DEF Leading
<1> QED BY <1>1, <1>2, <1>3 DEF Parted, FollowsOn, Decided, Concluded

\* Where nothing changes all stays as it is.
LEMMA StutterSteady ==
  ASSUME Inv, Typed, Static, NEW e, NEW k, Steady(e, k), UNCHANGED vars
  PROVE  Steady(e, k)'
<1>1. UNCHANGED <<script, bodies, addr, paddr, size, dot, cursor, walk, pc>>
  BY DEF vars
<1>2. script \in Scripts /\ walk.out \in Int /\ k \in Nat
  BY StaticIs DEF Steady
<1>3. SteadyUpTo(e, k) /\ bodies \in [Sections -> Seq(InertItems)] /\ Upto <= k
  BY DEF Steady
<1>4. /\ (SteadyUpTo(e, k))'
      /\ \A r : \A s \in Int : s <= k + 1 => (CursorOf(e, r, s))' = CursorOf(e, r, s)
  <2>1. \A t \in Sections : t <= k =>
          /\ addr'[t] = addr[t] /\ paddr'[t] = paddr[t] /\ \A i \in Nat : e[<<t, i>>] = e[<<t, i>>]
          /\ (pc' = "body" /\ t = walk'.out) \/ (size'[t] = size[t] /\ ~(pc = "body" /\ t = walk.out))
             \/ size'[t] = FullSize(e, t)
    BY <1>1
  <2>2. UNCHANGED <<script, bodies>>
    BY <1>1
  <2> QED BY <1>2, <1>3, <2>1, <2>2, SteadyStays
<1>5. PICK u : u = Upto + 1
  OBVIOUS
<1>6. u \in Int /\ u <= k + 1 /\ (Upto + 1)' = u /\ (Upto <= k)'
  BY <1>1, <1>2, <1>3, <1>5 DEF Upto
<1>7. ASSUME NEW r \in DOMAIN script.regions PROVE (RegionCursor(r) = CursorOf(e, r, Upto + 1))'
  <2>1. RegionCursor(r) = CursorOf(e, r, u)
    BY <1>5 DEF Steady
  <2>2. (RegionCursor(r))' = RegionCursor(r)
    BY <1>1 DEF RegionCursor
  <2> QED BY <1>4, <1>6, <2>1, <2>2
<1>8. (\A r \in DOMAIN script.regions : RegionCursor(r) = CursorOf(e, r, Upto + 1))'
  BY <1>1, <1>7
<1>9. (SteadyInside(e))'
  <2>1. CASE pc = "body"
    <3>1. PICK s : s = walk.out
      OBVIOUS
    <3>2. PICK n : n = walk.item - 1
      OBVIOUS
    <3>3. s \in Sections /\ n \in Int
      BY <2>1, <3>1, <3>2, StaticIs
    <3>4. PlacedRight(e, s) /\ FilledTo(e, s, n)
      BY <2>1, <3>1, <3>2 DEF Steady, SteadyInside
    <3>5. (PlacedRight(e, s))' /\ (FilledTo(e, s, n))'
      <4>1. /\ \A t \in Sections : t < s =>
                 addr'[t] = addr[t] /\ paddr'[t] = paddr[t] /\ FullSize(e, t) = FullSize(e, t)
            /\ addr'[s] = addr[s] /\ paddr'[s] = paddr[s] /\ UNCHANGED <<script, bodies>>
        BY <1>1
      <4> QED BY <1>2, <3>3, <3>4, <4>1, RightStays
    <3>6. (PlacedRight(e, walk.out))' /\ (FilledTo(e, walk.out, walk.item - 1))'
      <4>1. walk'.out = s /\ walk'.item - 1 = n
        BY <1>1, <3>1, <3>2
      <4> QED BY <3>5, <4>1 DEF PlacedRight, FilledTo, Filling, Section, HasLoadRegion, LoadRegion
    <3> QED BY <1>1, <2>1, <3>6 DEF Steady, SteadyInside
  <2>2. CASE pc # "body"
    BY <1>1, <2>2 DEF SteadyInside
  <2> QED BY <2>1, <2>2
<1>10. /\ (e \in Offsets)' /\ (k \in Nat)' /\ (k <= Len(script.sections))'
       /\ (bodies \in [Sections -> Seq(InertItems)])'
       /\ (\A s \in Sections : e[<<s, 0>>] = 0 /\ (bodies[s] = <<>> => size[s] = 0))'
  BY <1>1, <1>2, SteadyRests
<1>11. (DOMAIN walk = DOMAIN FreshWalk)'
  BY <1>1 DEF Steady, FreshWalk
<1> QED BY <1>4, <1>6, <1>8, <1>9, <1>10, <1>11 DEF Steady

\* The walk has come to its end.
LEMMA PartedAtEnd ==
  ASSUME Inv, Typed, Static, NEW e, NEW k, Steady(e, k), Parted(e, k),
         UNCHANGED <<script, bodies, segment, addr, paddr>>, pc' \in {"laid_out", "done"}
  PROVE  Parted(e, k)'
<1>1. script \in Scripts /\ k \in Nat /\ k <= k
  BY PartIs
<1>2. AsFull(e, e, k)
  BY DEF AsFull
<1>3. Gathered(e, k)'
  BY <1>1, <1>2, GatheredStays DEF Parted
<1> QED BY <1>3 DEF Parted, FollowsOn, Decided, Concluded

\* One step of the layout.
LEMMA NextStatic == Inv /\ OrderlyInv /\ StaticInv /\ [Next]_vars => StaticInv'
<1> SUFFICES ASSUME Inv, OrderlyInv, StaticInv, [Next]_vars, Static', LoadedAlike'
             PROVE  (\E e, k : Steady(e, k) /\ Parted(e, k))'
  BY DEF StaticInv
<1>1. script' = script
  BY NextKeepsScript DEF vars
<1>2. Static /\ LoadedAlike
  <2>1. (Static' <=> Static) /\ Sections' = Sections
        /\ \A s : (Section(s))' = Section(s) /\ (LoadRegion(s))' = LoadRegion(s)
    BY <1>1, StaticStays
  <2>2. \A s : IsLastMember(s)' <=> IsLastMember(s)
    BY <1>1, <2>1 DEF IsLastMember, Members, Overlay
  <2> QED BY <1>1, <2>1, <2>2 DEF LoadedAlike, LeavesAddresses
<1>3. Typed /\ Ordered
  BY <1>2 DEF OrderlyInv, Static
<1>4. PICK e, k : Steady(e, k) /\ Parted(e, k)
  BY <1>2 DEF StaticInv
<1>5. /\ script \in Scripts /\ AsFull(e, e, k) /\ DOMAIN walk = DOMAIN FreshWalk /\ walk.out \in Nat
      /\ (pc = "before" => walk.out = 1)
  BY <1>2, <1>3, <1>4, PartIs DEF AsFull
<1>6. ASSUME NEW f, NEW l, Steady(f, l)', Parted(f, l)' PROVE (\E x, y : Steady(x, y) /\ Parted(x, y))'
  BY <1>6
<1>7. CASE EvaluateBefore
  <2>1. /\ UNCHANGED <<script, bodies, addr, paddr, size, cursor, segment, pc>> /\ pc = "before"
        /\ walk' = [walk EXCEPT !.item = walk.item + 1]
    BY <1>7 DEF EvaluateBefore, placed
  <2>2. /\ DOMAIN walk' = DOMAIN walk
        /\ walk'.out = walk.out /\ walk'.prev = walk.prev /\ walk'.prevFlag = walk.prevFlag
        /\ walk'.prevRegion = walk.prevRegion /\ walk'.region = walk.region /\ walk'.pma = walk.pma
        /\ walk'.loadSeg = walk.loadSeg /\ walk'.needsSegment = walk.needsSegment
        /\ walk'.create = walk.create /\ walk'.enters = walk.enters /\ walk'.newSegment = walk.newSegment
    BY <1>5, <2>1 DEF FreshWalk
  <2>3. Upto' = Upto
    BY <2>1, <2>2 DEF Upto
  <2>4. Steady(e, k)' /\ Parted(e, k)'
    BY <1>2, <1>3, <1>4, <1>5, <2>1, <2>2, <2>3, QuietSteady, PartedStays
  <2> QED BY <1>6, <2>4
<1>8. CASE BeginSections
  <2>1. /\ UNCHANGED <<script, bodies, addr, paddr, size, cursor, segment>> /\ pc = "before" /\ pc' = "place"
        /\ walk' = [walk EXCEPT !.item = 1]
    BY <1>8 DEF BeginSections, placed
  <2>2. /\ DOMAIN walk' = DOMAIN walk
        /\ walk'.out = walk.out /\ walk'.prev = walk.prev /\ walk'.prevFlag = walk.prevFlag
        /\ walk'.prevRegion = walk.prevRegion /\ walk'.region = walk.region /\ walk'.pma = walk.pma
        /\ walk'.loadSeg = walk.loadSeg /\ walk'.needsSegment = walk.needsSegment
        /\ walk'.create = walk.create /\ walk'.enters = walk.enters /\ walk'.newSegment = walk.newSegment
    BY <1>5, <2>1 DEF FreshWalk
  <2>3. Upto' = Upto
    BY <2>1, <2>2 DEF Upto
  <2>4. Steady(e, k)' /\ Parted(e, k)'
    BY <1>2, <1>3, <1>4, <1>5, <2>1, <2>2, <2>3, QuietSteady, PartedStays
  <2> QED BY <1>6, <2>4
<1>9. CASE PlaceUnloaded
  <2>1. walk.out \in Sections /\ ~Loaded(walk.out)
    BY <1>9, WalkIsAtSection DEF PlaceUnloaded
  <2> QED BY <1>2, <2>1 DEF Static
<1>10. CASE PlaceSection
  BY <1>2, <1>3, <1>4, <1>6, <1>10, PlaceSectionSteady, PlaceSectionParted
<1>11. CASE EvaluateInside \/ PlaceFragment
  <2>1. PICK f : Steady(f, k)' /\ AsFull(e, f, k)
    BY <1>2, <1>3, <1>4, <1>11, EvaluateInsideSteady, PlaceFragmentSteady
  <2>2. /\ UNCHANGED <<script, bodies, addr, paddr, segment, pc>>
        /\ walk'.out = walk.out /\ walk'.prev = walk.prev /\ walk'.prevFlag = walk.prevFlag
        /\ walk'.prevRegion = walk.prevRegion /\ walk'.region = walk.region /\ walk'.pma = walk.pma
        /\ walk'.loadSeg = walk.loadSeg /\ walk'.needsSegment = walk.needsSegment
        /\ walk'.create = walk.create /\ walk'.enters = walk.enters /\ walk'.newSegment = walk.newSegment
    BY <1>5, <1>11 DEF EvaluateInside, PlaceFragment, placed, FreshWalk
  <2>3. Parted(f, k)'
    BY <1>2, <1>3, <1>4, <2>1, <2>2, PartedStays
  <2> QED BY <1>6, <2>1, <2>3
<1>12. CASE FinishBody
  <2>1. PICK l : l = IF walk.out > k THEN walk.out ELSE k
    OBVIOUS
  <2>2. Steady(e, l)' /\ Parted(e, l)'
    BY <1>2, <1>3, <1>4, <1>12, <2>1, FinishBodySteady, FinishBodyParted
  <2> QED BY <1>6, <2>2
<1>13. CASE EvaluateAfter
  <2>1. /\ UNCHANGED <<script, bodies, addr, paddr, size, cursor, segment, pc>> /\ pc = "after"
        /\ walk' = [walk EXCEPT !.item = walk.item + 1]
    BY <1>13 DEF EvaluateAfter, placed
  <2>2. /\ DOMAIN walk' = DOMAIN walk
        /\ walk'.out = walk.out /\ walk'.prev = walk.prev /\ walk'.prevFlag = walk.prevFlag
        /\ walk'.prevRegion = walk.prevRegion /\ walk'.region = walk.region /\ walk'.pma = walk.pma
        /\ walk'.loadSeg = walk.loadSeg /\ walk'.needsSegment = walk.needsSegment
        /\ walk'.create = walk.create /\ walk'.enters = walk.enters /\ walk'.newSegment = walk.newSegment
    BY <1>5, <2>1 DEF FreshWalk
  <2>3. Upto' = Upto
    BY <2>1, <2>2 DEF Upto
  <2>4. Steady(e, k)' /\ Parted(e, k)'
    BY <1>2, <1>3, <1>4, <1>5, <2>1, <2>2, <2>3, QuietSteady, PartedStays
  <2> QED BY <1>6, <2>4
<1>14. CASE NextSection
  <2>1. /\ UNCHANGED <<script, bodies, addr, paddr, size, cursor>> /\ pc = "after" /\ pc' = "place"
    BY <1>14 DEF NextSection, EndOfSection, placed
  <2>2. DOMAIN walk' = DOMAIN walk /\ walk'.out = walk.out + 1
    BY <1>5, <1>14 DEF NextSection, Passed, FreshWalk
  <2>3. Upto' = Upto
    BY <1>5, <2>1, <2>2 DEF Upto
  <2>4. Steady(e, k)'
    BY <1>2, <1>3, <1>4, <2>1, <2>2, <2>3, QuietSteady
  <2>5. Parted(e, k)'
    BY <1>2, <1>3, <1>4, <1>14, NextSectionParted
  <2> QED BY <1>6, <2>4, <2>5
<1>15. CASE Restart
  <2>1. /\ UNCHANGED <<script, bodies, addr, paddr, size>> /\ StartAgain /\ pc # "body"
        /\ walk' = ResetWalk(walk)
    BY <1>15 DEF Restart, EndOfSection, placed
  <2>2. DOMAIN walk' = DOMAIN walk /\ walk'.out = 1
    BY <1>5, <2>1 DEF ResetWalk, KeptOnReset, FreshWalk
  <2>3. Steady(e, k)'
    BY <1>2, <1>3, <1>4, <2>1, <2>2, BeginsSteady
  <2>4. Parted(e, k)'
    BY <1>2, <1>3, <1>4, <1>15, RestartParted
  <2> QED BY <1>6, <2>3, <2>4
<1>16. CASE Iterate \/ LayOutAgain
  <2>1. /\ UNCHANGED <<script, bodies, addr, paddr, size>> /\ NextPass /\ pc # "body"
    BY <1>16 DEF Iterate, LayOutAgain, Again, EndOfPass, placed
  <2>2. DOMAIN walk' = DOMAIN walk /\ walk'.out = 1 /\ StartAgain
    BY <1>5, <2>1 DEF NextPass, FreshWalk
  <2>3. Steady(e, k)'
    BY <1>2, <1>3, <1>4, <2>1, <2>2, BeginsSteady
  <2>4. Parted(e, k)'
    BY <1>5, <2>1, NextPassParted
  <2> QED BY <1>6, <2>3, <2>4
<1>17. CASE InsertStub
  <2>1. NextPass
    BY <1>17 DEF InsertStub, Again
  <2>2. Steady(e, 0)' /\ Parted(e, 0)'
    BY <1>1, <1>2, <1>3, <1>4, <1>5, <1>17, <2>1, InsertStubSteady, NextPassParted
  <2> QED BY <1>6, <2>2
<1>18. CASE Converge \/ GiveUp \/ Finish
  <2>1. /\ UNCHANGED <<script, bodies, addr, paddr, size, cursor, segment, walk>> /\ pc \in {"place", "laid_out"}
        /\ pc' \in {"laid_out", "done"}
    BY <1>18 DEF Converge, GiveUp, Stop, EndOfPass, Finish, placed
  <2>2. Upto' = Upto /\ pc # "body" /\ pc' # "body" /\ DOMAIN walk' = DOMAIN walk
    BY <2>1 DEF Upto
  <2>3. Steady(e, k)'
    BY <1>2, <1>3, <1>4, <2>1, <2>2, QuietSteady
  <2>4. Parted(e, k)'
    BY <1>2, <1>3, <1>4, <2>1, PartedAtEnd
  <2> QED BY <1>6, <2>3, <2>4
<1>19. CASE UNCHANGED vars
  <2>1. Steady(e, k)'
    BY <1>2, <1>3, <1>4, <1>19, StutterSteady
  <2>2. UNCHANGED <<script, bodies, segment, addr, paddr, pc, walk>>
    BY <1>19 DEF vars
  <2>3. Parted(e, k)'
    BY <1>2, <1>3, <1>4, <1>5, <2>2, PartedStays
  <2> QED BY <1>6, <2>1, <2>3
<1> QED BY <1>7, <1>8, <1>9, <1>10, <1>11, <1>12, <1>13, <1>14, <1>15, <1>16, <1>17, <1>18, <1>19 DEF Next

\* What the invariant says of the segments when the pass has ended.
LEMMA PartedKeepsDistance == Inv /\ OrderlyInv /\ StaticInv => (Static => SegmentsKeepDistance)
<1> SUFFICES ASSUME Inv, OrderlyInv, StaticInv, Static, Converged, LoadedAlike, ~AtLoadAddress,
                    NEW s \in Sections, NEW t \in Sections,
                    segment[s] # 0, segment[s] = segment[t], Occupies(s), Occupies(t)
             PROVE  paddr[s] - addr[s] = paddr[t] - addr[t]
  BY DEF SegmentsKeepDistance
<1>1. PICK e, k : Steady(e, k) /\ Parted(e, k)
  BY DEF StaticInv
<1>2. ~IsTBSS(s) /\ ~IsTBSS(t)
  BY DEF Occupies
<1>3. ~Meets(k)
  BY DEF Meets, Met, AtLoadAddress
<1>4. Distance(s) = Distance(t)
  BY <1>1, <1>2, <1>3 DEF Parted, Gathered
<1> QED BY <1>4 DEF Distance

\* A script that leaves addresses to the linker and loads every section where it lies.
InOnePlace == Orderly /\ \A s \in Sections : ~HasLoadRegion(s)

\* In such a script the addresses of the image are the load addresses.
LEMMA OrderedKeepsDistance == Inv /\ OrderlyInv => (InOnePlace => SegmentsKeepDistance)
<1> SUFFICES ASSUME Inv, OrderlyInv, InOnePlace, Converged, NEW s \in Sections, Occupies(s)
             PROVE  paddr[s] - addr[s] = 0
  BY DEF SegmentsKeepDistance
<1>1. /\ Orderly /\ Typed /\ Ordered /\ script \in Scripts /\ pc \in {"laid_out", "done"}
  BY DEF OrderlyInv, InOnePlace, Inv, Shape, Converged
<1>2. walk.out = Len(script.sections) + 1 /\ Len(script.sections) \in Nat /\ Sections = 1..Len(script.sections)
  BY <1>1, SectionsAreNumbered DEF Typed, WalkTyped
<1>3. s \in Occupied
  BY <1>2 DEF Occupied, Finished
<1>4. paddr[s] = addr[s]
  BY <1>1, <1>3 DEF Orderly, Ordered, BehindCounter, BehindCursors, InOnePlace
<1>5. addr[s] \in Nat
  BY <1>1 DEF Typed, PlacesTyped
<1> QED BY <1>4, <1>5

\* A segment has one distance between addresses and load addresses in every script with
\* memory regions whose layout does not depend on its symbols: where the distance changes,
\* the pass creates a segment (CreateProgramHeaders.hpp:478 and 562-574), and restarts,
\* passes and trampolines do not bring together what was kept apart. So it is, more
\* simply, where every section is loaded from where it lies.
THEOREM DistanceKept == Spec => []((Static \/ InOnePlace) => SegmentsKeepDistance)
<1>1. Init => Inv /\ OrderlyInv
  BY InitInv, InitTyped, InitOrdered DEF OrderlyInv
<1>2. Init => StaticInv
  BY InitSteady, InitParted DEF StaticInv
<1>3. Inv /\ OrderlyInv /\ StaticInv => ((Static \/ InOnePlace) => SegmentsKeepDistance)
  BY PartedKeepsDistance, OrderedKeepsDistance
<1> QED BY <1>1, <1>2, <1>3, NextInv, NextOrderly, NextStatic, PTL DEF Spec
================================================================================
