-------------------------------- MODULE Layout --------------------------------
(***************************************************************************)
(* The layout of an image by a linker script without PHDRS: passes over    *)
(* the output sections give them addresses and evaluate the assignments    *)
(* in between, start again whenever a segment is created, and are repeated *)
(* until neither an address nor a value has changed, four times at most.   *)
(* Relaxation then may insert code and ask for another layout.             *)
(*                                                                         *)
(* lib/Target/CreateProgramHeaders.hpp, lib/Target/GNULDBackend.cpp:       *)
(* 2026-2217, 3313-3424, 4252 and 4338, lib/Object/ScriptMemoryRegion.cpp. *)
(* Only PT_LOAD segments are modelled.  The script has a SECTIONS command, *)
(* which leaves the file and program headers out of the image; a section   *)
(* has one fragment in a rule, and no fill expression.  Addresses do not   *)
(* wrap around.                                                            *)
(***************************************************************************)
EXTENDS ScriptExpressions, FiniteSets

CONSTANTS
  Scripts,    \* the scripts considered
  PageSize,   \* abiPageSize()
  StubSize,   \* the bytes of a trampoline
  MaxCalls    \* bound: how often the layout is asked for

MaxIterations == 4

Alloc == {"code", "data", "bss", "tbss"}

\* A term of an expression names something that the script has; its numbers are
\* those of the script, which are unsigned.
TermFits(p, t) ==
  /\ t.op \in {"constant", "dot", "align", "symbol", "addr", "loadaddr", "sizeof"}
  /\ t.n \in Nat /\ (t.op = "align" => t.n # 0)
  /\ t.sym # "" => \E a \in DOMAIN p.assignments : p.assignments[a].name = t.sym
  /\ t.op = "symbol" => t.sym # ""
  /\ t.op \in {"addr", "loadaddr", "sizeof"} => t.sect \in DOMAIN p.sections

ExpressionFits(p, e) ==
  /\ Len(e) \in Nat /\ DOMAIN e = 1..Len(e)
  /\ \A i \in DOMAIN e : TermFits(p, e[i])

SectionFits(p, s) ==
  /\ s.kind \in Alloc \cup {"debug"} /\ s.align \in Nat \ {0}
  /\ s.body \in Seq([op : {"bytes"}, n : Nat] \cup [op : {"assign"}, n : DOMAIN p.assignments])
  /\ s.after \in Seq(DOMAIN p.assignments)
  /\ ExpressionFits(p, s.vma) /\ ExpressionFits(p, s.lma)
  /\ s.overlay \in DOMAIN p.overlays \cup {0}
  /\ s.region \in DOMAIN p.regions \cup {0} /\ s.loadRegion \in DOMAIN p.regions \cup {0}

\* Where the assignments of a script stand: before the sections (part 3 of no
\* section), in a section (part 2) and behind it (part 3).
Stands(p) ==
  {<<<<0, 3, i>>, p.before[i]>> : i \in DOMAIN p.before}
  \cup UNION {LET x == p.sections[s]
              IN  {<<<<s, 2, i>>, x.body[i].n>> : i \in {j \in DOMAIN x.body : x.body[j].op = "assign"}}
                  \cup {<<<<s, 3, i>>, x.after[i]>> : i \in DOMAIN x.after} : s \in DOMAIN p.sections}

Precedes(v, w) ==
  \/ v[1] < w[1]
  \/ v[1] = w[1] /\ (v[2] < w[2] \/ (v[2] = w[2] /\ v[3] < w[3]))

\* The assignments have the numbers in which they stand in the script, each once.
InScriptOrder(p) ==
  /\ \A a \in DOMAIN p.assignments : \E w \in Stands(p) : w[2] = a
  /\ \A v, w \in Stands(p) : Precedes(v[1], w[1]) => v[2] < w[2]

ASSUME LayoutAssumption ==
  /\ PageSize \in Nat \ {0} /\ StubSize \in Nat /\ MaxCalls \in Nat \ {0}
  /\ \A p \in Scripts :
       /\ Len(p.sections) \in Nat /\ DOMAIN p.sections = 1..Len(p.sections)
       /\ Len(p.assignments) \in Nat /\ DOMAIN p.assignments = 1..Len(p.assignments)
       /\ \A s \in DOMAIN p.sections : SectionFits(p, p.sections[s])
       /\ \A a \in DOMAIN p.assignments : ExpressionFits(p, p.assignments[a].expr)
       /\ p.before \in Seq(DOMAIN p.assignments)
       /\ InScriptOrder(p)
       /\ 0 \notin DOMAIN p.overlays /\ 0 \notin DOMAIN p.regions
       /\ \A o \in DOMAIN p.overlays :
            ExpressionFits(p, p.overlays[o].start) /\ ExpressionFits(p, p.overlays[o].lma)
       /\ \A r \in DOMAIN p.regions : p.regions[r].origin \in Nat

VARIABLES
  script,     \* sections, assignments, overlays and memory regions
  bodies,     \* what is in a section: bytes and the assignments between them
  addr,       \* ELFSection::addr()
  paddr,      \* ELFSection::pAddr()
  size,       \* ELFSection::size()
  dot,        \* the location counter
  value,      \* Assignment::value()
  latest,     \* SymbolNameToLatestAssignment, 0 when there is none
  source,     \* SourceAssignment of the symbols in expressions
  base,       \* the result of the start expression of an overlay
  cursor,     \* CurrentCursor of the memory regions
  segment,    \* _segmentsForSection, 0 when there is none
  segments,   \* how many segments the pass has created
  walk,       \* the local variables of the pass
  iteration,  \* the iteration of convergeLayout
  snapshot,   \* PrevSnap
  agreed,     \* whether the last convergeLayout ended because two snapshots agree:
              \* the one before it and the first ("once"), or two of its own ("twice")
  calls,      \* calls of convergeLayout
  pc

vars == <<script, bodies, addr, paddr, size, dot, value, latest, source, base, cursor,
          segment, segments, walk, iteration, snapshot, agreed, calls, pc>>

placed == <<addr, paddr, size>>
values == <<value, latest, source>>
loop   == <<iteration, snapshot, agreed, calls>>

Sections == DOMAIN script.sections

Section(s) == script.sections[s]

Assignments == DOMAIN script.assignments

Assigned(a) == script.assignments[a]

Unset == -1   \* a cursor without a value

Loaded(s)  == Section(s).kind \in Alloc
NoBits(s)  == Section(s).kind \in {"bss", "tbss"}
IsTBSS(s)  == Section(s).kind = "tbss"
Flag(s)    == IF Section(s).kind = "code" THEN "read" ELSE "write"
End(s)     == addr[s] + size[s]
LoadEnd(s) == paddr[s] + size[s]

------------------------------------------------------------------------------
\* Symbols: the first time that an expression reads a symbol decides on the
\* assignment that it reads from then on.

\* Module::getAssignmentForSymbol.
LastAssignment(x) ==
  CHOOSE a \in Assignments :
    /\ Assigned(a).name = x
    /\ \A b \in Assignments : Assigned(b).name = x => b <= a

\* Fault: a symbol is what it was last assigned, wherever the expression is.
SourceLast(key, x) == LastAssignment(x)

\* Symbol::evalImpl.
Source(key, x) ==
  IF <<key, x>> \in DOMAIN source THEN source[<<key, x>>]
  ELSE IF latest[x] # 0 THEN latest[x]
  ELSE LastAssignment(x)

Value(key, e, at, counter) ==
  Evaluate(e, [dot |-> counter, addr |-> at, paddr |-> paddr, size |-> size, value |-> value,
               means |-> [x \in NamesIn(e) |-> Source(key, x)]])

Remember(key, e) ==
  source' = [p \in DOMAIN source \cup {<<key, x>> : x \in NamesIn(e)} |-> Source(p[1], p[2])]

\* Assignment::assign.
Assign(a) ==
  LET to == Value(<<"assign", a>>, Assigned(a).expr, addr, dot)
  IN  /\ value' = [value EXCEPT ![a] = to]
      /\ dot' = IF Assigned(a).name = "." THEN to ELSE dot
      /\ latest' = [latest EXCEPT ![Assigned(a).name] = a]
      /\ Remember(<<"assign", a>>, Assigned(a).expr)

------------------------------------------------------------------------------
\* The pass: createProgramHdrs.

\* The local variables when the pass begins.
FreshWalk ==
  [out |-> 1, item |-> 1, prev |-> 0, prevFlag |-> "none", region |-> 0, prevRegion |-> 0,
   pma |-> 0, loadSeg |-> 0, needsSegment |-> FALSE, disconnect |-> FALSE,
   create |-> FALSE, enters |-> FALSE, newSegment |-> FALSE, maxSize |-> 0, start |-> 0,
   saved |-> 0, offset |-> 0, touched |-> FALSE]

Snapshot == [addr |-> addr, paddr |-> paddr, value |-> value]

\* The bytes of a section before its assignments have been evaluated
\* (ObjectLinker::assignOffset).
ContentOf(s) ==
  LET end[i \in 0..Len(bodies[s])] ==
        IF i = 0 THEN 0
        ELSE IF bodies[s][i].op = "assign" THEN end[i - 1]
        ELSE AlignUp(end[i - 1], Section(s).align) + bodies[s][i].n
  IN  end[Len(bodies[s])]

Init ==
  /\ script \in Scripts
  /\ bodies = [s \in Sections |-> Section(s).body]
  /\ addr = [s \in Sections |-> 0] /\ paddr = addr
  /\ size = [s \in Sections |-> ContentOf(s)]
  /\ dot = 0
  /\ value = [a \in Assignments |-> 0]
  /\ latest = [x \in {Assigned(a).name : a \in Assignments} |-> 0]
  /\ source = <<>>
  /\ base = [o \in DOMAIN script.overlays |-> 0]
  /\ cursor = [r \in DOMAIN script.regions |-> Unset]
  /\ segment = [s \in Sections |-> 0] /\ segments = 0
  /\ walk = FreshWalk
  /\ iteration = 0 /\ snapshot = Snapshot /\ agreed = "no"
  /\ calls = 1
  /\ pc = "before"

\* What reset_state leaves alone when the pass starts again.
KeptOnReset == {"region", "pma", "loadSeg", "needsSegment", "maxSize"}

\* reset_state, with the image at address 0.
ResetWalk(w) == [f \in DOMAIN w |-> IF f \in KeptOnReset THEN w[f] ELSE FreshWalk[f]]

StartAgain ==
  /\ cursor' = [r \in DOMAIN cursor |-> Unset]
  /\ dot' = 0
  /\ pc' = "before"

\* evaluateBeforeSectionsAssignments, one assignment after the other.
EvaluateBefore ==
  /\ pc = "before"
  /\ walk.item <= Len(script.before)
  /\ Assign(script.before[walk.item])
  /\ walk' = [walk EXCEPT !.item = @ + 1]
  /\ UNCHANGED <<script, bodies, placed, base, cursor, segment, segments, loop, pc>>

BeginSections ==
  /\ pc = "before"
  /\ walk.item > Len(script.before)
  /\ walk' = [walk EXCEPT !.item = 1]
  /\ pc' = "place"
  /\ UNCHANGED <<script, bodies, placed, dot, values, base, cursor, segment, segments, loop>>

------------------------------------------------------------------------------
\* The address of an output section.

Overlay(s) == Section(s).overlay

Members(o) == {s \in Sections : Overlay(s) = o}

IsFirstMember(s) == Overlay(s) # 0 /\ \A t \in Members(Overlay(s)) : s <= t
IsLastMember(s)  == Overlay(s) # 0 /\ \A t \in Members(Overlay(s)) : t <= s

RegionCursor(r) == IF cursor[r] = Unset THEN script.regions[r].origin ELSE cursor[r]

\* The region of the load address is that of the address unless the script names
\* another one.
LoadRegion(s) == IF Section(s).loadRegion # 0 THEN Section(s).loadRegion ELSE Section(s).region

HasLoadRegion(s) == LoadRegion(s) # Section(s).region

OverlayStart(s) ==
  LET given == script.overlays[Overlay(s)].start
  IN  IF IsFirstMember(s)
      THEN IF given = NoExpression THEN dot ELSE Value(<<"start", Overlay(s)>>, given, addr, dot)
      ELSE IF given = NoExpression THEN addr[s - 1] ELSE base[Overlay(s)]

\* Where the section starts, before its alignment.
StartOf(s) ==
  IF ~Loaded(s) THEN dot
  ELSE IF Overlay(s) # 0 THEN OverlayStart(s)
  ELSE IF Section(s).vma # NoExpression THEN Value(<<"vma", s>>, Section(s).vma, addr, dot)
  ELSE IF Section(s).region # 0 THEN RegionCursor(Section(s).region)
  ELSE dot

AddressOf(s) ==
  IF Overlay(s) # 0 \/ Section(s).vma # NoExpression
  THEN StartOf(s) ELSE AlignUp(StartOf(s), Section(s).align)

RegionOf(s) == IF Section(s).region # 0 THEN Section(s).region ELSE walk.region

IsWanted(s, bytes) == Section(s).kept \/ bytes # 0

\* The address alone asks for another segment.
Separates(s, vma) ==
  LET p == walk.prev
  IN  \/ IsFirstMember(s) /\ p # 0
      \/ ~IsTBSS(s) /\ Flag(s) # walk.prevFlag
      \/ ~IsTBSS(s) /\ RegionOf(s) # walk.prevRegion
      \/ p # 0 /\ Flag(s) = walk.prevFlag /\ IsWanted(s, size[s]) /\ NoBits(p) /\ ~NoBits(s)
      \/ p # 0 /\ ~IsTBSS(s) /\ (vma < End(p) \/ vma - End(p) > PageSize)

\* The load address of the section before is not this address, and the section
\* has a load address of its own.
Decouples(s, vma) ==
  /\ Section(s).lma # NoExpression \/ HasLoadRegion(s)
  /\ walk.pma # vma
  /\ ~Separates(s, vma)

Disconnects(s) ==
  \/ walk.disconnect
  \/ Overlay(s) # 0 \/ Section(s).lma # NoExpression \/ HasLoadRegion(s)

Enters(s, vma) ==
  /\ Loaded(s)
  /\ Separates(s, vma) \/ Decouples(s, vma) \/ walk.loadSeg = 0 \/ walk.needsSegment

\* Load addresses go on at the distance of the section before.
FollowingLoad(s, vma) ==
  LET p  == walk.prev
      to == paddr[p] + vma - addr[p]
  IN  IF Enters(s, vma) /\ vma % Section(s).align # 0 THEN to
      ELSE AlignUp(to, Section(s).align)

LoadAddress(s, vma) ==
  LET o  == Overlay(s)
      at == [addr EXCEPT ![s] = vma]
  IN  CASE o # 0 /\ IsFirstMember(s) ->
             IF script.overlays[o].lma = NoExpression THEN vma
             ELSE Value(<<"load", o>>, script.overlays[o].lma, at, StartOf(s))
        [] o # 0 /\ ~IsFirstMember(s) -> LoadEnd(s - 1)
        [] o = 0 /\ Section(s).lma # NoExpression ->
             Value(<<"lma", s>>, Section(s).lma, at, StartOf(s))
        [] o = 0 /\ Section(s).lma = NoExpression /\ LoadRegion(s) # 0 ->
             IF HasLoadRegion(s) THEN RegionCursor(LoadRegion(s))
             ELSE AlignUp(RegionCursor(LoadRegion(s)), Section(s).align)
        [] OTHER ->
             IF walk.prev = 0 \/ ~Disconnects(s) THEN vma ELSE FollowingLoad(s, vma)

\* Fault: any load address behind the section before belongs to its segment.
KeepsOrder(s, vma, pma) == pma = vma \/ pma >= LoadEnd(walk.prev)

\* A segment that was only asked for because of load addresses is not needed
\* when the section is as far behind the one before in both spaces.  With no section
\* before, when a .tbss comes first, the code reads through a null pointer: the value
\* is left open.
KeepsDistance(s, vma, pma) ==
  \/ pma = vma
  \/ /\ pma >= LoadEnd(walk.prev)
     /\ pma - LoadEnd(walk.prev) = (IF vma >= End(walk.prev) THEN vma - End(walk.prev) ELSE 0)

Creates(s, vma, pma) ==
  IF Decouples(s, vma) THEN ~KeepsDistance(s, vma, pma)
  ELSE Separates(s, vma) \/ walk.loadSeg = 0

\* The expressions that are read for the address of a section.
RememberAddress(s) ==
  LET o == Overlay(s)
      read == IF o = 0
              THEN {<<<<"vma", s>>, Section(s).vma>>, <<<<"lma", s>>, Section(s).lma>>}
              ELSE IF IsFirstMember(s)
                   THEN {<<<<"start", o>>, script.overlays[o].start>>,
                         <<<<"load", o>>, script.overlays[o].lma>>}
                   ELSE {}
      symbols == UNION {{<<r[1], x>> : x \in NamesIn(r[2])} : r \in read}
  IN  source' = [p \in DOMAIN source \cup symbols |-> Source(p[1], p[2])]

\* A section that is not loaded is at address 0 and leaves the counter alone.
PlaceUnloaded ==
  LET s == walk.out
  IN  /\ pc = "place" /\ s <= Len(script.sections)
      /\ ~Loaded(s) /\ IsWanted(s, size[s])
      /\ addr' = [addr EXCEPT ![s] = 0]
      /\ paddr' = [paddr EXCEPT ![s] = 0]
      /\ walk' = [walk EXCEPT !.item = 1, !.saved = dot, !.offset = 0, !.touched = FALSE,
                             !.enters = FALSE]
      /\ dot' = 0
      /\ pc' = "body"
      /\ UNCHANGED <<script, bodies, size, values, base, cursor, segment, segments, loop>>

PlaceSection ==
  LET s   == walk.out
      vma == AddressOf(s)
      pma == LoadAddress(s, vma)
  IN  /\ pc = "place" /\ s <= Len(script.sections)
      /\ Loaded(s) \/ ~IsWanted(s, size[s])
      /\ addr' = [addr EXCEPT ![s] = vma]
      /\ paddr' = [paddr EXCEPT ![s] = pma]
      /\ RememberAddress(s)
      /\ base' = IF IsFirstMember(s) THEN [base EXCEPT ![Overlay(s)] = StartOf(s)] ELSE base
      /\ walk' = [walk EXCEPT
           !.item = 1, !.offset = 0, !.touched = FALSE, !.newSegment = FALSE,
           !.region = RegionOf(s),
           !.pma = pma,
           !.disconnect = Disconnects(s),
           !.enters = Enters(s, vma),
           !.create = Creates(s, vma, pma) /\ Loaded(s),
           !.loadSeg = IF segment[s] # 0 THEN segment[s] ELSE @,
           !.start = StartOf(s),
           !.maxSize = IF Overlay(s) = 0 THEN @
                       ELSE IF IsFirstMember(s) \/ @ < size[s] THEN size[s] ELSE @,
           !.saved = vma]
      /\ dot' = vma
      /\ pc' = "body"
      /\ UNCHANGED <<script, bodies, size, value, latest, cursor, segment, segments, loop>>

------------------------------------------------------------------------------
\* evaluateAssignments: what is in the section, one after the other.

InBody == pc = "body" /\ walk.item <= Len(bodies[walk.out])

Item == bodies[walk.out][walk.item]

EvaluateInside ==
  LET s == walk.out
  IN  /\ InBody /\ Item.op = "assign"
      /\ Assign(Item.n)
      /\ size' = [size EXCEPT ![s] = dot' - addr[s]]
      /\ walk' = [walk EXCEPT !.item = @ + 1, !.touched = TRUE, !.offset = dot' - addr[s]]
      /\ UNCHANGED <<script, bodies, addr, paddr, base, cursor, segment, segments, loop, pc>>

PlaceFragment ==
  LET s  == walk.out
      to == AlignUp(walk.offset, Section(s).align) + Item.n
  IN  /\ InBody /\ Item.op = "bytes"
      /\ walk' = [walk EXCEPT !.item = @ + 1, !.touched = TRUE, !.offset = to]
      /\ dot' = addr[s] + to
      /\ UNCHANGED <<script, bodies, placed, values, base, cursor, segment, segments, loop, pc>>

SizeAtEnd == IF walk.touched THEN walk.offset ELSE size[walk.out]

CounterBehind(s) ==
  IF ~Loaded(s) THEN walk.saved
  ELSE IF IsTBSS(s) THEN addr[s] ELSE addr[s] + SizeAtEnd

\* addOutputSectionVMA and addOutputSectionLMA.
Advanced(s) ==
  LET used  == IF IsTBSS(s) THEN 0 ELSE SizeAtEnd
      after == IF Section(s).region = 0 \/ ~Loaded(s) THEN cursor
               ELSE [cursor EXCEPT ![Section(s).region] = addr[s] + used]
  IN  IF HasLoadRegion(s) /\ Section(s).lma = NoExpression /\ Loaded(s)
      THEN [after EXCEPT ![LoadRegion(s)] = paddr[s] + used] ELSE after

\* A new PT_LOAD for a section that has bytes and is in none yet.
NeedsNewSegment(s) ==
  /\ walk.enters /\ IsWanted(s, SizeAtEnd) /\ ~IsTBSS(s)
  /\ segment[s] = 0
  /\ walk.create \/ addr[s] < addr[walk.prev]

FinishBody ==
  LET s == walk.out
  IN  /\ pc = "body" /\ walk.item > Len(bodies[s])
      /\ size' = [size EXCEPT ![s] = SizeAtEnd]
      /\ dot' = CounterBehind(s)
      /\ cursor' = Advanced(s)
      /\ segments' = IF NeedsNewSegment(s) THEN segments + 1 ELSE segments
      /\ walk' = [walk EXCEPT
           !.item = 1, !.saved = CounterBehind(s),
           !.newSegment = NeedsNewSegment(s),
           !.loadSeg = IF NeedsNewSegment(s) THEN segments + 1 ELSE @,
           !.needsSegment = IF ~walk.enters THEN @
                            ELSE ~IsWanted(s, SizeAtEnd) \/ IsTBSS(s)]
      /\ pc' = "after"
      /\ UNCHANGED <<script, bodies, addr, paddr, values, base, segment, loop>>

\* evaluatePostOutputSectionAssignments.
EvaluateAfter ==
  LET s == walk.out
  IN  /\ pc = "after" /\ walk.item <= Len(Section(s).after)
      /\ Assign(Section(s).after[walk.item])
      /\ walk' = [walk EXCEPT !.item = @ + 1]
      /\ UNCHANGED <<script, bodies, placed, base, cursor, segment, segments, loop, pc>>

------------------------------------------------------------------------------
\* The segment of the section, and the next one.

EndOfSection == pc = "after" /\ walk.item > Len(Section(walk.out).after)

\* The section belongs to a segment of its own or of the section before.
Attaches ==
  /\ Loaded(walk.out) /\ walk.loadSeg # 0 /\ ~walk.needsSegment
  /\ walk.create \/ IsWanted(walk.out, size[walk.out])

\* .tbss is nothing that the next section could follow.
Passed(w) ==
  IF ~Attaches \/ IsTBSS(w.out) THEN w
  ELSE [w EXCEPT !.prev = w.out, !.prevFlag = Flag(w.out),
                 !.prevRegion = IF w.region # 0 THEN w.region ELSE @]

Grouped(s) ==
  IF Attaches /\ segment[s] = 0 THEN [segment EXCEPT ![s] = walk.loadSeg] ELSE segment

\* Fault: the counter stays behind the last member of an overlay.
CounterBehindMember(s) == dot

\* Behind the last member of an overlay the counter has passed the largest one,
\* unless the script has moved it there.
CounterBehindOverlay(s) ==
  IF IsLastMember(s) /\ Loaded(s) /\ dot = walk.saved THEN walk.start + walk.maxSize ELSE dot

NextSection ==
  LET s == walk.out
  IN  /\ EndOfSection
      /\ ~(Attaches /\ walk.newSegment)
      /\ segment' = Grouped(s)
      /\ dot' = CounterBehindOverlay(s)
      /\ walk' = [Passed(walk) EXCEPT !.out = @ + 1, !.newSegment = FALSE]
      /\ pc' = "place"
      /\ UNCHANGED <<script, bodies, placed, values, base, cursor, segments, loop>>

\* Fault: a segment is created and the section is not put into it.
RestartUngrouped ==
  /\ EndOfSection
  /\ Attaches /\ walk.newSegment
  /\ segments' = 0
  /\ walk' = ResetWalk(walk)
  /\ StartAgain
  /\ UNCHANGED <<script, bodies, placed, values, base, segment, loop>>

\* A segment has been created: the pass starts again from the first section.
Restart ==
  /\ EndOfSection
  /\ Attaches /\ walk.newSegment
  /\ segment' = Grouped(walk.out)
  /\ walk' = ResetWalk(walk)
  /\ StartAgain
  /\ UNCHANGED <<script, bodies, placed, values, base, segments, loop>>

------------------------------------------------------------------------------
\* convergeLayout.

EndOfPass == pc = "place" /\ walk.out > Len(script.sections)

NextPass ==
  /\ walk' = FreshWalk
  /\ segment' = [s \in Sections |-> 0] /\ segments' = 0
  /\ StartAgain

\* Fault: one pass more than there may be.
IterateOnceMore ==
  /\ EndOfPass
  /\ Snapshot # snapshot
  /\ iteration < MaxIterations
  /\ iteration' = iteration + 1
  /\ snapshot' = Snapshot
  /\ NextPass
  /\ UNCHANGED <<script, bodies, placed, values, base, agreed, calls>>

\* Two snapshots differ: another pass.
Iterate ==
  /\ EndOfPass
  /\ Snapshot # snapshot
  /\ iteration < MaxIterations - 1
  /\ iteration' = iteration + 1
  /\ snapshot' = Snapshot
  /\ NextPass
  /\ UNCHANGED <<script, bodies, placed, values, base, agreed, calls>>

Stop(verdict) ==
  /\ EndOfPass
  /\ agreed' = verdict
  /\ pc' = "laid_out"
  /\ UNCHANGED <<script, bodies, placed, dot, values, base, cursor, segment, segments, walk,
                 iteration, snapshot, calls>>

Converge ==
  /\ Snapshot = snapshot
  /\ Stop(IF iteration = 0 THEN "once" ELSE "twice")

\* The last pass has changed something: a note, and the link goes on.
GiveUp ==
  /\ Snapshot # snapshot
  /\ iteration = MaxIterations - 1
  /\ Stop("no")

------------------------------------------------------------------------------
\* relax.

Again ==
  /\ pc = "laid_out" /\ calls < MaxCalls
  /\ calls' = calls + 1
  /\ iteration' = 0 /\ snapshot' = Snapshot
  /\ NextPass
  /\ UNCHANGED <<script, placed, values, base>>

\* A backend asks for another layout without having inserted anything.
LayOutAgain == Again /\ UNCHANGED <<bodies, agreed>>

\* A trampoline behind the code of a section (BranchIslandFactory).
InsertStub ==
  /\ Again
  /\ agreed' = "no"
  /\ \E s \in Sections : \E i \in DOMAIN bodies[s] :
       /\ Section(s).kind = "code" /\ bodies[s][i].op = "bytes"
       /\ bodies' = [bodies EXCEPT ![s] =
            SubSeq(@, 1, i) \o <<[op |-> "bytes", n |-> StubSize]>> \o SubSeq(@, i + 1, Len(@))]

Finish ==
  /\ pc = "laid_out"
  /\ pc' = "done"
  /\ UNCHANGED <<script, bodies, placed, dot, values, base, cursor, segment, segments, walk, loop>>

Next ==
  \/ EvaluateBefore \/ BeginSections
  \/ PlaceUnloaded \/ PlaceSection \/ EvaluateInside \/ PlaceFragment \/ FinishBody
  \/ EvaluateAfter \/ NextSection \/ Restart
  \/ Iterate \/ Converge \/ GiveUp
  \/ LayOutAgain \/ InsertStub \/ Finish

\* One thread runs the loops to their end.
Spec == Init /\ [][Next]_vars /\ WF_vars(Next)

------------------------------------------------------------------------------
\* Properties.

\* The variables keep their types.  A pass creates at most one segment for each
\* section, and convergeLayout makes no more than MaxIterations passes.
TypeOK ==
  /\ \A f \in {addr, paddr, size} : f \in [Sections -> Nat]
  /\ dot \in Nat
  /\ value \in [Assignments -> Int]
  /\ \A x \in DOMAIN latest : latest[x] \in Assignments \cup {0}
  /\ \A p \in DOMAIN source : source[p] \in Assignments
  /\ \A r \in DOMAIN cursor : cursor[r] \in Nat \cup {Unset}
  /\ segments \in 0..Len(script.sections)
  /\ segment \in [Sections -> 0..segments]
  /\ walk.out \in 1..(Len(script.sections) + 1)
  /\ iteration \in 0..(MaxIterations - 1)
  /\ agreed \in {"no", "once", "twice"}
  /\ calls \in 1..MaxCalls
  /\ pc \in {"before", "place", "body", "after", "laid_out", "done"}

\* convergeLayout had no reason to go on.
Converged == pc \in {"laid_out", "done"} /\ agreed # "no"

\* What a name stands for in an assignment, whatever the order of evaluation: the
\* assignment nearest before it in the script, and the last one if there is none.
MeantBy(a, x) ==
  LET before == {b \in Assignments : Assigned(b).name = x /\ b < a}
  IN  IF before = {} THEN LastAssignment(x)
      ELSE CHOOSE b \in before : \A c \in before : c <= b

\* Every value is what its expression says of the final addresses, sizes and
\* values; one that reads the location counter is left to the other properties.
Solution ==
  \A a \in Assignments :
    LET e == Assigned(a).expr
    IN  (~Asks(e, "dot") /\ ~Asks(e, "align")) =>
          value[a] = Evaluate(e, [dot |-> 0, addr |-> addr, paddr |-> paddr, size |-> size,
                                  value |-> value,
                                  means |-> [x \in NamesIn(e) |-> MeantBy(a, x)]])

\* Sizes are not in the snapshots: that the first one of a call agrees with what
\* the call before has left says nothing of values that read a size ahead.
SizesAgree ==
  agreed = "twice" \/ \A a \in Assignments : ~Asks(Assigned(a).expr, "sizeof")

\* Once the passes agree the assignments are a solution of the script, although
\* each value was computed from a mixture of this pass and the one before, and
\* names are assigned more than once (linker_script.md, forward references).
Solved == (Converged /\ SizesAgree) => Solution

\* "The linker reiterates the layout computation until symbol values converge or
\* the max layout iteration count is reached" (SymbolForwReference.test): a layout
\* that ends below the maximum has converged, with a trampoline or without.
SolvedBelowMaximum == (pc = "done" /\ agreed # "no") => Solution

Occupies(s) == Loaded(s) /\ ~IsTBSS(s) /\ size[s] > 0

Apart(from, s, t) == from[s] + size[s] <= from[t] \/ from[t] + size[t] <= from[s]

\* The script gives no address itself, and no load address but by regions, and it
\* does not move the counter behind an overlay, which would stay there.
LeavesAddresses ==
  /\ \A s \in Sections : Section(s).vma = NoExpression /\ Section(s).lma = NoExpression
  /\ \A s \in Sections : IsLastMember(s) => Section(s).after = <<>>
  /\ \A o \in DOMAIN script.overlays :
       script.overlays[o].start = NoExpression /\ script.overlays[o].lma = NoExpression

\* Sections that are placed by the linker do not overlap, in memory or where they
\* are loaded from, whatever moves between the passes and whichever member of an
\* overlay a trampoline lets grow: checkOverlap would fail the link for a script
\* that is right.  The members of an overlay share their memory.
LoadsDisjoint ==
  (Converged /\ LeavesAddresses) =>
    \A s, t \in Sections : (s < t /\ Occupies(s) /\ Occupies(t)) =>
      /\ Overlay(s) = 0 \/ Overlay(s) # Overlay(t) => Apart(addr, s, t)
      /\ ~NoBits(s) /\ ~NoBits(t) => Apart(paddr, s, t)

\* The sections of a memory region are loaded from one region.
LoadedAlike ==
  /\ LeavesAddresses /\ script.overlays = <<>>
  /\ \A s, t \in Sections : Section(s).region = Section(t).region => LoadRegion(s) = LoadRegion(t)

\* A section with a load region that lies at its own load address, or at that of one
\* before it: the code takes it for one that is loaded where it is, and does not look
\* at the distance.
AtLoadAddress == \E s \in Sections : HasLoadRegion(s) /\ \E t \in 1..s : addr[s] = paddr[t]

\* A segment has one physical address: regions for load addresses, whose cursors
\* go on without the padding that aligns addresses, must start a new segment
\* wherever the distance changes (linker_faq.md, image layout using LMA).
SegmentsKeepDistance ==
  (Converged /\ LoadedAlike /\ ~AtLoadAddress) =>
    \A s, t \in Sections :
      (segment[s] # 0 /\ segment[s] = segment[t] /\ Occupies(s) /\ Occupies(t)) =>
        paddr[s] - addr[s] = paddr[t] - addr[t]

\* The layout ends: starting again for every new segment, passing again for every
\* change and laying out again for every stub come to an end together.
Termination == <>(pc = "done")
==============================================================================
