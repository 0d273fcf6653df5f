---------------------------- MODULE RiscvRelaxation ----------------------------
(***************************************************************************)
(* Linker relaxation for RISC-V.  Every pass runs over the relocations     *)
(* after a layout and records edits; calls, GP and zero-page accesses are  *)
(* verified against later layouts, rejected for good when they no longer   *)
(* fit, and what is left is committed.  Offsets within a section follow    *)
(* the pending edits at once, the addresses of sections only when the      *)
(* layout is converged.                                                    *)
(*                                                                         *)
(* lib/Target/RISCV/RISCVLDBackend.cpp:316-1955 and the relaxation loop of *)
(* lib/Target/GNULDBackend.cpp:4252.  Table jumps, the Xqci instructions,  *)
(* GOT loads and TLS descriptors are left out: their edits are applied     *)
(* where they are decided and are never verified.                          *)
(***************************************************************************)
EXTENDS RelaxPlan, FiniteSets

CONSTANT Links   \* the links considered

\* A section has a fixed address or follows the one before; its bytes are one
\* fragment.  It goes to an output section, and that to a load segment, of which
\* the largest alignment counts; a NOLOAD section has none, which is 0.
Follow == -1

Absolute == 0   \* the section of a label whose value is its offset

\* The bytes of code that a relocation is for.
Extent(x) ==
  CASE x.kind = "call"  -> 8
    [] x.kind = "align" -> x.addend
    [] x.kind \notin {"call", "align"} -> 4

\* The smallest power of two greater than the padding.
AlignmentFor(addend) ==
  CHOOSE a \in 1..(2 * addend) : a > addend /\ \E k \in 0..addend : a = 2^k

\* Relocations are in the order of their code, within their section, and apart.
SitesInOrder(sections, sites) ==
  \A i, j \in DOMAIN sites :
    /\ sites[i].off \in Nat /\ sites[i].addend \in Nat /\ sites[i].size \in Nat
    /\ sites[i].sect \in DOMAIN sections
    /\ sites[i].kind \in {"call", "pcrel_hi", "pcrel_lo", "hi20", "lo12", "align"}
    /\ sites[i].off + Extent(sites[i]) <= sections[sites[i].sect].size
    /\ i < j /\ sites[i].sect = sites[j].sect => sites[i].off + Extent(sites[i]) <= sites[j].off

\* A label is a value, or lies in a section outside the code of a relocation.
LabelFits(sections, sites, l) ==
  \/ l.sect = Absolute /\ l.off \in Int
  \/ /\ l.sect \in DOMAIN sections /\ l.off \in Nat
     /\ \A i \in DOMAIN sites :
          sites[i].sect = l.sect =>
            l.off <= sites[i].off \/ sites[i].off + Extent(sites[i]) <= l.off

\* The padding is for an alignment that its section has, whatever its address.
PaddingFits(sections, x) ==
  /\ \E a \in 1..(2 * x.addend) : a > x.addend /\ \E k \in 0..x.addend : a = 2^k
  /\ \/ sections[x.sect].base # Follow
     \/ \E k \in 1..sections[x.sect].align : sections[x.sect].align = k * AlignmentFor(x.addend)

\* The low part of an address comes with the high part of the same address, so of
\* the same symbol, in the same code, and may be relaxed when that may.
PairFits(sites, lo) ==
  LET hi == lo.hi
  IN  /\ hi \in DOMAIN sites
      /\ sites[hi].kind = (IF lo.kind = "pcrel_lo" THEN "pcrel_hi" ELSE "hi20")
      /\ sites[hi].sect = lo.sect /\ sites[hi].to = lo.to /\ sites[hi].size = lo.size
      /\ sites[hi].relax => lo.relax

\* The relocation sections are visited one after the other.
SectionBySection(sites) ==
  \A i, j, k \in DOMAIN sites :
    i < k /\ k < j /\ sites[i].sect = sites[j].sect => sites[k].sect = sites[i].sect

ASSUME LinksAssumption ==
  \A l \in Links :
    /\ l.kind \in {"exec", "pie", "shared"}
    /\ l.compress \in BOOLEAN
    /\ Len(l.sections) \in Nat \ {0} /\ DOMAIN l.sections = 1..Len(l.sections)
    /\ \A s \in DOMAIN l.sections :
         /\ l.sections[s].base \in {Follow} \cup Nat
         /\ l.sections[s].align \in Nat \ {0}
         /\ l.sections[s].size \in Nat
         /\ l.sections[s].output \in Nat
         /\ l.sections[s].segment \in Nat
    /\ Len(l.sites) \in Nat /\ DOMAIN l.sites = 1..Len(l.sites)
    /\ SitesInOrder(l.sections, l.sites)
    /\ \A i \in DOMAIN l.sites :
         /\ LabelFits(l.sections, l.sites, l.sites[i].to)
         /\ l.sites[i].relax \in BOOLEAN
         /\ l.sites[i].kind = "align" => PaddingFits(l.sections, l.sites[i])
         /\ l.sites[i].kind \in {"lo12", "pcrel_lo"} => PairFits(l.sites, l.sites[i])
    /\ SectionBySection(l.sites)
    /\ l.gp.sect \in {Absolute} \cup DOMAIN l.sections /\ l.gp.off \in Int
    /\ \A y \in DOMAIN l.symbols :
         /\ l.symbols[y].sect # Absolute
         /\ LabelFits(l.sections, l.sites, l.symbols[y])

VARIABLES
  link,            \* the sections, relocations, symbols and options
  code,            \* the pending edits and what is known of each relocation
  addr,            \* the addresses that the last layout gave to the sections
  iteration,       \* the pass of mayBeRelax
  cursor,          \* the next relocation, record or section of the loop
  anyDropped,      \* the round has rejected a decision
  rounds,          \* m_PostRelaxRounds
  needsAlign,      \* m_PostRelaxNeedsAlignRedecision
  layoutChanged,   \* m_PostRelaxLayoutChanged
  output,          \* what the commit has written
  pc

vars == <<link, code, addr, iteration, cursor, anyDropped, rounds, needsAlign,
          layoutChanged, output, pc>>

Sites == DOMAIN link.sites

Site(i) == link.sites[i]

Sections == DOMAIN link.sections

------------------------------------------------------------------------------
\* Values and addresses, given the pending edits.

PlanOf(plan, s) == {e \in plan : Site(e.reloc).sect = s}

AlignUp(v, a) == ((v + a - 1) \div a) * a

SizeOf(plan, s) == link.sections[s].size - TotalShift(PlanOf(plan, s))

\* convergeLayout, given the sizes: the sections one behind the other.
Placed(size) ==
  LET at[s \in Sections] ==
        LET sec == link.sections[s]
        IN  IF sec.base # Follow THEN sec.base
            ELSE AlignUp(IF s = 1 THEN 0 ELSE at[s - 1] + size[s - 1], sec.align)
  IN  at

\* The value of a label: its section as last laid out, its offset as of now.
ValueOf(plan, l) ==
  IF l.sect = Absolute THEN l.off
  ELSE addr[l.sect] + MapOffset(PlanOf(plan, l.sect), l.off)

Place(plan, i) == ValueOf(plan, [sect |-> Site(i).sect, off |-> Site(i).off])

\* GP is a value that the layout computes from the address of a section: it does
\* not follow the pending edits.
GPBehind(at) == IF link.gp.sect = Absolute THEN link.gp.off ELSE at[link.gp.sect] + link.gp.off

GP == GPBehind(addr)

IsInt(bits, x) == -(2^(bits - 1)) <= x /\ x < 2^(bits - 1)

InLoadSegment(s) == s = Absolute \/ link.sections[s].segment # 0

GPOutput == IF link.gp.sect = Absolute THEN Absolute ELSE link.sections[link.gp.sect].output

\* The alignment that may come between GP and what lies in a section.
AlignmentTo(s) ==
  IF s = Absolute THEN 0
  ELSE IF GPOutput # link.sections[s].output /\ link.sections[s].size # 0
       THEN link.sections[s].segment
       ELSE link.sections[s].align

\* fitsInGP, given the section that is taken for that of the symbol: the margin
\* is the alignment that may come between, and the size of the symbol.
FitsInGPFrom(plan, i, s) ==
  LET x      == ValueOf(plan, Site(i).to) - GP
      margin == AlignmentTo(s) + Site(i).size
  IN  /\ GP # 0 /\ InLoadSegment(s)
      /\ IsInt(12, IF x >= 0 THEN x + margin ELSE x - margin)

FitsInGP(plan, i) == FitsInGPFrom(plan, i, Site(i).to.sect)

\* Relocation::targetSection.  The symbol of a PCREL_LO12 is the label of its
\* high part, which lies in the code.
TargetSection(i) ==
  IF Site(i).kind = "pcrel_lo" THEN Site(Site(i).hi).sect ELSE Site(i).to.sect

\* Zero is taken for a value that is not known yet.
FitsZeroPage(plan, i) ==
  LET v == ValueOf(plan, Site(i).to) IN v # 0 /\ IsInt(12, v)

Displacement(plan, i) == ValueOf(plan, Site(i).to) - Place(plan, i)

------------------------------------------------------------------------------
\* The decisions.  Each takes what is known of the code and returns it changed.

\* An edit, with the encoding that the commit will give the instruction; the
\* record asks for the decision to be verified.
Deferred(c, i, at, bytes, as, kind) ==
  [c EXCEPT !.plan = AddEdit(@, Edit(i, at, bytes)), !.as[i] = as, !.record[i] = kind]

DeferredCall(c, i, at, bytes, as, kind) ==
  [Deferred(c, i, at, bytes, as, kind) EXCEPT !.calls = Append(@, i)]

DeferredGP(c, i, at, bytes, as, kind) ==
  [Deferred(c, i, at, bytes, as, kind) EXCEPT !.gps = Append(@, i)]

\* doRelaxationCall: the link register decides whether a call can be compressed.
doRelaxationCall(c, i) ==
  LET x  == Displacement(c.plan, i)
      at == Site(i).off
  IN  IF link.compress /\ Site(i).compressible /\ IsInt(12, x)
      THEN DeferredCall(c, i, at + 2, 6, "c.j", "CallToCJ")
      ELSE IF IsInt(21, x) THEN DeferredCall(c, i, at + 4, 4, "jal", "CallToJal")
      ELSE c

\* A pair whose low part comes before its high part keeps its instructions.
DisabledForGP(i) ==
  \E lo \in Sites : /\ Site(lo).kind = "pcrel_lo"
                    /\ i \in {lo, Site(lo).hi}
                    /\ Site(lo).off < Site(Site(lo).hi).off

\* doRelaxationPC: the high part is deleted, the low part rewritten in place.
\* The value is that of the high part for both, the section each one's own.
doRelaxationPC(c, i) ==
  IF \/ link.kind # "exec" \/ DisabledForGP(i)
     \/ ~FitsInGPFrom(c.plan, i, TargetSection(i))
  THEN c
  ELSE IF Site(i).kind = "pcrel_hi"
       THEN DeferredGP(c, i, Site(i).off, 4, "deleted", "PcGp")
       ELSE DeferredGP(c, i, Site(i).off, 0, "gp", "PcGp")

\* The upper immediate of a LUI whose LO part takes the signed low 12 bits.
UpperImmediate(v) == (v + 2048) \div 4096

\* doRelaxationLui: zero page first, then GP, and a LUI that remains is
\* compressed, which is applied at once and not recorded.
doRelaxationLui(c, i) ==
  LET v    == ValueOf(c.plan, Site(i).to)
      zero == FitsZeroPage(c.plan, i)
      gp   == link.kind = "exec" /\ v # 0 /\ FitsInGP(c.plan, i)
      hi   == UpperImmediate(v)
      kind == IF zero THEN "ZeroPage" ELSE "LuiGp"
  IN  IF zero \/ gp
      THEN IF Site(i).kind = "hi20" THEN DeferredGP(c, i, Site(i).off, 4, "deleted", kind)
           ELSE DeferredGP(c, i, Site(i).off, 0, IF zero THEN "zero" ELSE "gp", kind)
      ELSE IF /\ Site(i).kind = "hi20" /\ link.compress
              /\ Site(i).compressible /\ hi # 0 /\ IsInt(6, hi)
           THEN [c EXCEPT !.plan = AddEdit(@, Edit(i, Site(i).off + 2, 2)),
                          !.encoding[i] = "c.lui"]
           ELSE c

\* The padding that the assembler leaves, and nops written over its beginning,
\* byte by byte: a nop is n1 .. n4, a compressed nop c1 c2.
Nop == <<"n1", "n2", "n3", "n4">>
CNop == <<"c1", "c2">>
FullNops(bytes) == [k \in 1..((bytes \div 4) * 4) |-> Nop[((k - 1) % 4) + 1]]
Rest(bytes) == IF bytes % 4 # 0 THEN CNop ELSE <<>>
AssemblerPadding(bytes) == Rest(bytes) \o FullNops(bytes)

\* addRequiredNops: written to the buffer at once.
addRequiredNops(padding, bytes) ==
  LET nops == FullNops(bytes) \o Rest(bytes)
  IN  [k \in DOMAIN padding |-> IF k <= Len(nops) THEN nops[k] ELSE padding[k]]

AlignmentOf(i) == AlignmentFor(Site(i).addend)

\* doRelaxationAlign: the nops needed at the place are kept, the rest of the
\* padding deleted.
doRelaxationAlign(c, i) ==
  LET place   == Place(c.plan, i)
      nops    == AlignUp(place, AlignmentOf(i)) - place
      deleted == Site(i).addend - nops
      plan    == PlanOf(c.plan, Site(i).sect)
      twin    == \E j \in Sites \ {i} : /\ c.encoding[j] = "align"
                                        /\ Site(j).sect = Site(i).sect
                                        /\ Site(j).off = Site(i).off
  IN  IF \/ deleted < 0
         \/ WouldOverlap(plan, Site(i).off + nops, deleted)
         \/ deleted = 0 /\ twin
      THEN [c EXCEPT !.failed = TRUE]
      ELSE IF deleted = 0 THEN c
      ELSE [c EXCEPT !.plan = AddEdit(@, Edit(i, Site(i).off + nops, deleted)),
                     !.encoding[i] = "none",
                     !.padding[i] = addRequiredNops(@, nops),
                     !.applied = @ \cup {i}]

RELAXATION_CALL    == 0
RELAXATION_PC      == 1
RELAXATION_LUI     == 2
RELAXATION_TLSDESC == 3
RELAXATION_ALIGN   == 4
RELAXATION_PASS_COUNT == 5

\* The relocations that a pass looks at.
Handles(pass, i) ==
  \/ pass = RELAXATION_CALL /\ code.encoding[i] = "call" /\ Site(i).relax
  \/ pass = RELAXATION_PC /\ code.encoding[i] \in {"pcrel_hi", "pcrel_lo"} /\ Site(i).relax
  \/ pass = RELAXATION_LUI /\ code.encoding[i] \in {"hi20", "lo12"} /\ Site(i).relax
  \/ pass = RELAXATION_ALIGN /\ code.encoding[i] = "align"

Decided(c, pass, i) ==
  CASE pass = RELAXATION_CALL  -> doRelaxationCall(c, i)
    [] pass = RELAXATION_PC    -> doRelaxationPC(c, i)
    [] pass = RELAXATION_LUI   -> doRelaxationLui(c, i)
    [] pass = RELAXATION_ALIGN -> doRelaxationAlign(c, i)

------------------------------------------------------------------------------
\* The verification.

\* Fault: what is deleted is not verified, only what is rewritten in place.
RecordsOfRewrites ==
  SelectSeq(code.calls \o code.gps, LAMBDA i : Site(i).kind \notin {"hi20", "pcrel_hi"})

\* m_CallRelaxRecords, then m_GPRelaxRecords.
Records == code.calls \o code.gps

\* Fault: a compressed call is given the range of a JAL.
FitsAsJal(plan, i) ==
  CASE code.record[i] \in {"CallToCJ", "CallToJal"} -> IsInt(21, Displacement(plan, i))
    [] code.record[i] = "ZeroPage"  -> FitsZeroPage(plan, i)
    [] code.record[i] \in {"PcGp", "LuiGp"} -> FitsInGP(plan, i)

Fits(plan, i) ==
  CASE code.record[i] = "CallToCJ"  -> IsInt(12, Displacement(plan, i))
    [] code.record[i] = "CallToJal" -> IsInt(21, Displacement(plan, i))
    [] code.record[i] = "ZeroPage"  -> FitsZeroPage(plan, i)
    [] code.record[i] \in {"PcGp", "LuiGp"} -> FitsInGP(plan, i)

Reject(c, i) ==
  [c EXCEPT !.plan = RemoveEdit(@, i), !.as[i] = Site(i).kind, !.dropped = @ \cup {i}]

\* Fault: the list of the edits undone is not cleared.
UndoKeepsList(c) ==
  [c EXCEPT !.plan = {e \in @ : e.reloc \notin c.applied},
            !.encoding = [i \in Sites |-> IF i \in c.applied THEN "align" ELSE @[i]]]

\* undoAlignRelaxations.
UndoAligns(c) ==
  [c EXCEPT !.plan = {e \in @ : e.reloc \notin c.applied},
            !.encoding = [i \in Sites |-> IF i \in c.applied THEN "align" ELSE @[i]],
            !.applied = {}]

------------------------------------------------------------------------------
\* What the commit writes: the bytes of the sections, the offsets of the
\* relocations and of the symbols, and the sizes of the symbols.
Unrelaxed ==
  [image  |-> [s \in Sections |-> Run(0, link.sections[s].size)],
   offset |-> [i \in Sites |-> Site(i).off],
   value  |-> [y \in DOMAIN link.symbols |-> link.symbols[y].off],
   size   |-> [y \in DOMAIN link.symbols |-> link.symbols[y].size]]

InitialCode ==
  [plan     |-> {},
   as       |-> [i \in Sites |-> Site(i).kind],
   encoding |-> [i \in Sites |-> Site(i).kind],
   record   |-> [i \in Sites |-> "none"],
   calls    |-> <<>>,
   gps      |-> <<>>,
   dropped  |-> {},
   applied  |-> {},
   padding  |-> [i \in {j \in Sites : Site(j).kind = "align"} |->
                   AssemblerPadding(Site(i).addend)],
   failed   |-> FALSE]

Init ==
  /\ link \in Links
  /\ code = InitialCode
  /\ addr = [s \in Sections |-> 0]
  /\ iteration = 0 /\ cursor = 1
  /\ anyDropped = FALSE
  /\ rounds = 0 /\ needsAlign = FALSE /\ layoutChanged = FALSE
  /\ output = Unrelaxed
  /\ pc = "layout"

\* What only postRelax changes.
Settling == <<anyDropped, rounds, needsAlign, layoutChanged, output>>

Converge ==
  /\ pc \in {"layout", "resettle"}
  /\ addr' = Placed([s \in Sections |-> SizeOf(code.plan, s)])
  /\ pc' = IF pc = "layout" THEN "pass" ELSE "settle"
  /\ UNCHANGED <<link, code, iteration, cursor, Settling>>

\* The passes that mayBeRelax leaves at once, with pFinished set: behind the
\* last one, and the one over TLS descriptors unless an executable is built.
LeavesAtOnce ==
  \/ iteration = RELAXATION_TLSDESC /\ link.kind = "shared"
  \/ iteration >= RELAXATION_PASS_COUNT

Finish ==
  /\ pc = "pass"
  /\ LeavesAtOnce
  /\ pc' = "settle"
  /\ UNCHANGED <<link, code, addr, iteration, cursor, Settling>>

ToVisit(pass) == {i \in Sites : i >= cursor /\ Handles(pass, i)}

\* The next relocation of a pass; padding that cannot be aligned, or that is
\* reserved twice, ends the link.
Decide(pass) ==
  /\ \E i \in ToVisit(pass) :
       /\ \A j \in ToVisit(pass) : i <= j
       /\ code' = Decided(code, pass, i)
       /\ cursor' = i + 1
  /\ pc' = IF code'.failed THEN "error" ELSE pc
  /\ UNCHANGED <<link, addr, iteration, Settling>>

Visit ==
  /\ pc = "pass"
  /\ ~LeavesAtOnce
  /\ Decide(iteration)

\* Fault: a pass that has recorded an edit is run again.
EndPassAgain ==
  /\ pc = "pass"
  /\ ~LeavesAtOnce
  /\ ToVisit(iteration) = {}
  /\ iteration' = IF code.plan = {} THEN iteration + 1 ELSE iteration
  /\ cursor' = 1
  /\ pc' = "layout"
  /\ UNCHANGED <<link, code, addr, Settling>>

\* The end of mayBeRelax, whose passes are a fixed number.
EndPass ==
  /\ pc = "pass"
  /\ ~LeavesAtOnce
  /\ ToVisit(iteration) = {}
  /\ iteration' = iteration + 1
  /\ cursor' = 1
  /\ pc' = "layout"
  /\ UNCHANGED <<link, code, addr, Settling>>

------------------------------------------------------------------------------
\* postRelax, called after every layout until it has committed.

\* The pass over padding, run again after a rejection.
Redecide ==
  /\ pc = "settle"
  /\ needsAlign
  /\ Decide(RELAXATION_ALIGN)

EndRedecision ==
  /\ pc = "settle"
  /\ needsAlign
  /\ ToVisit(RELAXATION_ALIGN) = {}
  /\ needsAlign' = FALSE
  /\ UNCHANGED <<link, code, addr, iteration, cursor, anyDropped, rounds,
                 layoutChanged, output, pc>>

\* One more than the records.
MaxRounds == [n \in Nat |-> n + 1]

Recorded == {i \in Sites : code.record[i] # "none"}

StartRound ==
  /\ pc = "settle"
  /\ ~needsAlign
  /\ rounds < MaxRounds[Cardinality(Recorded)]
  /\ rounds' = rounds + 1
  /\ anyDropped' = FALSE
  /\ cursor' = 1
  /\ pc' = "verify"
  /\ UNCHANGED <<link, code, addr, iteration, needsAlign, layoutChanged, output>>

\* riscv_relaxation_error.
GiveUp ==
  /\ pc = "settle"
  /\ ~needsAlign
  /\ rounds >= MaxRounds[Cardinality(Recorded)]
  /\ pc' = "error"
  /\ UNCHANGED <<link, code, addr, iteration, cursor, Settling>>

\* An edit that is dropped moves the places behind it at once.
Verify ==
  /\ pc = "verify"
  /\ cursor <= Len(Records)
  /\ cursor' = cursor + 1
  /\ LET i     == Records[cursor]
         drops == i \notin code.dropped /\ ~Fits(code.plan, i)
     IN  /\ code' = IF drops THEN Reject(code, i) ELSE code
         /\ anyDropped' = IF drops THEN TRUE ELSE anyDropped
  /\ UNCHANGED <<link, addr, iteration, rounds, needsAlign, layoutChanged, output, pc>>

EndRound ==
  /\ pc = "verify"
  /\ cursor > Len(Records)
  /\ cursor' = 1
  /\ UNCHANGED <<link, addr, iteration, anyDropped, rounds, output>>

\* Fault: padding decided for the rejected edits stays.
RetryKeepsAlign ==
  /\ EndRound
  /\ anyDropped
  /\ needsAlign' = TRUE /\ layoutChanged' = TRUE
  /\ pc' = "resettle"
  /\ UNCHANGED code

\* Some decision no longer fits: padding is decided again after the next layout.
Retry ==
  /\ EndRound
  /\ anyDropped
  /\ code' = UndoAligns(code)
  /\ needsAlign' = TRUE /\ layoutChanged' = TRUE
  /\ pc' = "resettle"

\* The padding decided last has changed sizes: the headers are written again.
Sync ==
  /\ EndRound
  /\ ~anyDropped /\ layoutChanged
  /\ layoutChanged' = FALSE
  /\ pc' = "resettle"
  /\ UNCHANGED <<code, needsAlign>>

\* Fault: what is left is committed without another layout.
CommitUnsynced ==
  /\ EndRound
  /\ ~anyDropped
  /\ pc' = "commit"
  /\ UNCHANGED <<code, needsAlign, layoutChanged>>

Commit ==
  /\ EndRound
  /\ ~anyDropped /\ ~layoutChanged
  /\ pc' = "commit"
  /\ UNCHANGED <<code, needsAlign, layoutChanged>>

\* commitRelaxEdits of one fragment after the other.
CommitSection ==
  /\ pc = "commit"
  /\ LET s    == cursor
         plan == PlanOf(code.plan, s)
     IN  /\ code' = [code EXCEPT
              !.plan = @ \ plan,
              !.encoding = [i \in Sites |->
                 IF HasEdit(plan, i) /\ @[i] = Site(i).kind THEN code.as[i] ELSE @[i]]]
         /\ output' = [output EXCEPT
              !.image[s] = Compacted(plan, Len(@)),
              !.offset = [i \in Sites |->
                 IF Site(i).sect = s THEN CommittedOffset(plan, Site(i).off) ELSE @[i]],
              !.value = [y \in DOMAIN @ |->
                 LET sym == link.symbols[y]
                 IN  IF sym.sect = s THEN CommittedOffset(plan, sym.off) ELSE @[y]],
              !.size = [y \in DOMAIN @ |->
                 LET sym == link.symbols[y]
                 IN  IF sym.sect = s THEN CommittedSize(plan, sym.off, sym.size) ELSE @[y]]]
  /\ cursor' = cursor + 1
  /\ pc' = IF cursor = Len(link.sections) THEN "committed" ELSE "commit"
  /\ UNCHANGED <<link, addr, iteration, anyDropped, rounds, needsAlign, layoutChanged>>

Next ==
  \/ Converge \/ Visit \/ EndPass \/ Finish
  \/ Redecide \/ EndRedecision \/ StartRound \/ GiveUp
  \/ Verify \/ Retry \/ Sync \/ Commit \/ CommitSection

\* One thread runs the loops to their end.
Spec == Init /\ [][Next]_vars /\ WF_vars(Next)

------------------------------------------------------------------------------
\* The committed code, read from the bytes that are left.

Committed == pc = "committed"

\* A byte is deleted that was in the section and is not in the output.
FinalOffset(s, off) ==
  off - Cardinality({b \in 0..(off - 1) : /\ b < link.sections[s].size
                                         /\ b \notin ToSet(output.image[s])})

FinalAddress == Placed([s \in Sections |-> Len(output.image[s])])

FinalValue(l) ==
  IF l.sect = Absolute THEN l.off ELSE FinalAddress[l.sect] + FinalOffset(l.sect, l.off)

FinalDisplacement(i) ==
  FinalValue(Site(i).to) - FinalValue([sect |-> Site(i).sect, off |-> Site(i).off])

Padded(i) ==
  LET value == FinalValue([sect |-> Site(i).sect, off |-> Site(i).off + Site(i).addend])
  IN  value % AlignmentOf(i) = 0

TypeOK ==
  /\ code.dropped \subseteq Recorded
  /\ ToSet(Records) = Recorded /\ IsInjective(Records)
  /\ pc \in {"commit", "committed"} \/ code.applied \subseteq {e.reloc : e \in code.plan}
  /\ \A e, f \in code.plan : e.reloc = f.reloc => e = f
  /\ \A e \in code.plan : e.at \in 0..(link.sections[Site(e.reloc).sect].size - e.bytes)
  /\ DOMAIN addr = Sections
  /\ iteration \in 0..RELAXATION_PASS_COUNT
  /\ rounds \in 0..MaxRounds[Cardinality(Recorded)]
  /\ anyDropped \in BOOLEAN /\ needsAlign \in BOOLEAN /\ layoutChanged \in BOOLEAN
  /\ pc \in {"layout", "pass", "settle", "resettle", "verify", "commit", "committed", "error"}

\* Whatever was committed reaches its target at the addresses of the output:
\* verifyAndRollbackCallRelaxations and verifyAndRollbackGPRelaxations, the
\* rounds between them and the order of the passes.
CommittedInRange ==
  Committed =>
    \A i \in Sites :
      /\ code.encoding[i] = "c.j" => IsInt(12, FinalDisplacement(i))
      /\ code.encoding[i] = "jal" => IsInt(21, FinalDisplacement(i))
      /\ code.encoding[i] = "zero" => IsInt(12, FinalValue(Site(i).to))
      /\ code.encoding[i] = "gp" => IsInt(12, FinalValue(Site(i).to) - GPBehind(FinalAddress))

KeepsBase(lo) ==
  code.encoding[Site(lo).hi] = "deleted" => code.encoding[lo] \in {"gp", "zero"}

LowParts == {lo \in Sites : Site(lo).kind \in {"lo12", "pcrel_lo"}}

\* The section asked for the low part allows what that of the address allows:
\* true of a LUI, and of an AUIPC whose code has no larger alignment between
\* itself and GP.
FitsWithHigh(lo) ==
  LET own == TargetSection(lo)
      to  == Site(lo).to.sect
  IN  InLoadSegment(to) => InLoadSegment(own) /\ AlignmentTo(own) <= AlignmentTo(to)

\* An instruction that loads the upper part of an address is only deleted when
\* every access through it was rewritten to another base, if the address is not
\* within the code that shrinks between the two and the low part is not asked to
\* fit with more room than the high part: the halves are decided, verified and
\* rejected apart, and with other sections when decided than when verified.
PairsAgreeElsewhere ==
  Committed =>
    \A lo \in LowParts :
      Site(lo).to.sect # Site(lo).sect /\ FitsWithHigh(lo) => KeepsBase(lo)

\* The code behind the padding of an executable is aligned as it asks for,
\* whatever was rejected after the padding was decided.
AlignmentsHold ==
  Committed /\ link.kind # "shared" =>
    \A i \in Sites : Site(i).kind = "align" => Padded(i)

\* After the commit the relocation of an instruction that was kept lies on the
\* byte it was for, a symbol on the first byte left of its code, and the
\* addresses given to the sections are those of the sizes written:
\* commitRelaxEdits maps offsets by shiftAt and moves the bytes by a walk.
OffsetsFollowBytes ==
  Committed =>
    /\ addr = FinalAddress
    /\ \A i \in Sites :
         LET bytes == output.image[Site(i).sect]
         IN  \/ Site(i).off \notin ToSet(bytes)
             \/ bytes[output.offset[i] + 1] = Site(i).off
    /\ \A y \in DOMAIN link.symbols :
         output.value[y] = FinalOffset(link.symbols[y].sect, link.symbols[y].off)

\* The loops of relax() end.
Settles == <>(pc \in {"committed", "error"})

AllSites == UNION {DOMAIN l.sites : l \in Links}

SettleLoop ==
  INSTANCE SettleLoop WITH
    Candidates <- AllSites,
    recorded   <- Recorded,
    rejected   <- code.dropped,
    changed    <- anyDropped,
    unsynced   <- layoutChanged,
    status     <- IF code.failed THEN "aborted"
                  ELSE CASE pc \in {"layout", "pass"} -> "relaxing"
                         [] pc \in {"settle", "resettle"} -> "settling"
                         [] pc = "verify" -> "verifying"
                         [] pc \in {"commit", "committed"} -> "committed"
                         [] pc = "error" -> "error"

\* postRelax is a settle loop: a rejection is for good and is followed by a
\* round that writes the headers again before anything is committed.
ImplementsSettleLoop == SettleLoop!Spec

------------------------------------------------------------------------------
\* What the comments and the design document say of the code.

\* "Settling can never take more rounds than there are candidates to drop; one
\* extra round confirms the final state is clean": postRelax never gives up.
RoundsSuffice == pc = "error" => code.failed

\* "HI will be deleted, Low will be converted to use gp as base": not one
\* without the other, wherever the address lies and whatever the alignments.
PairsAgree == Committed => \A lo \in LowParts : KeepsBase(lo)
================================================================================
