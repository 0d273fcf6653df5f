----------------------------- MODULE DynamicSlots -----------------------------
(***************************************************************************)
(* What the scan of one relocation creates for x86-64: slots in .got and   *)
(* .plt, dynamic relocations and copies of library data.  What exists      *)
(* already decides what the next relocation creates.                       *)
(*                                                                         *)
(* lib/Target/X86/x86_64Relocator.cpp, lib/Target/X86/x86_64LDBackend.cpp, *)
(* the predicates of lib/Target/GNULDBackend.cpp and createCopyRelocation  *)
(* of lib/Object/ObjectLinker.cpp; without symbols of value zero size,     *)
(* absolute symbols, aliases in libraries, and options that change         *)
(* preemption.                                                             *)
(***************************************************************************)
EXTENDS Integers, Sequences, FiniteSets

CONSTANT Symbols

Outputs   == {"static", "dynamic", "pie", "shared"}
Visibles  == {"default", "hidden", "protected"}
SymbolInfos ==
  [local : BOOLEAN, desc : {"Define", "Dyn", "Undef"}, weak : BOOLEAN,
   vis : Visibles, type : {"NoType", "Function", "IndirectFunc"}]

\* R64 is R_X86_64_64; R32 the narrower absolute ones; PC32 the PC relative ones.
RelocTypes ==
  {"R64", "R32", "PC32", "PLT32", "GOTPCREL", "GOTPCRELX", "GOTTPOFF", "TLSGD",
   "TLSLD", "unsupported"}

\* relaxable: --relax is given, and the bytes around the reference allow it.
Relocs == [type : RelocTypes, sym : Symbols, relaxable : BOOLEAN,
           place : {"writable", "readonly", "not allocated"}]

SlotKinds == {"Regular", "TLS_IE", "TLS_GD", "TLS_LD"}
NoSym     == "no symbol"

\* LinkerConfig
isCodeIndep(out)         == out \in {"pie", "shared"}
isCodeStatic(out)        == out = "static"
isBuildingExecutable(out) == out # "shared"

isWeakUndef(s) == s.desc = "Undef" /\ s.weak

------------------------------------------------------------------------------
(***************************************************************************)
(* GNULDBackend: what a symbol needs.                                      *)
(***************************************************************************)
isSymbolPreemptible(s, out) ==
  /\ ~(s.desc = "Define" /\ s.local)
  /\ ~(s.desc = "Undef" /\ s.vis # "default")
  /\ IF s.desc \in {"Dyn", "Undef"} THEN ~isCodeStatic(out)
     ELSE out = "shared" /\ s.vis = "default"

\* For absolute references.
symbolNeedsDynRel(s, hasPLT, out) ==
  /\ s.desc = "Undef" => isCodeIndep(out)
  /\ \/ isCodeIndep(out)
     \/ ~hasPLT /\ (s.desc \in {"Dyn", "Undef"} \/ isSymbolPreemptible(s, out))

symbolNeedsCopyReloc(r, s, out) ==
  /\ ~isCodeIndep(out) /\ s.desc = "Dyn" /\ s.type # "Function"
  /\ r.place # "writable"

\* A reference to an undefined symbol that is reported; those of shared
\* libraries may be defined at run time.
canIssueUndef(s, out) ==
  s.desc = "Undef" /\ ~s.weak /\ (s.vis # "default" \/ out # "shared")

isGOTPCRELXRelaxable(r, s, out) ==
  r.relaxable /\ ~isSymbolPreemptible(s, out) /\ s.type # "IndirectFunc"

\* Without -z notext.
checkDynamicRelocAllowed(r, out) ==
  isCodeIndep(out) => r.place = "writable" /\ r.type # "R32"

------------------------------------------------------------------------------
(***************************************************************************)
(* The slots: what has been reserved for a symbol, the contents of .got    *)
(* and .plt, the map from symbols to slots, the dynamic relocations, the   *)
(* symbols to copy and those copied, the references to be relaxed, the     *)
(* slot of the module's thread local storage, and whether an error was     *)
(* raised.                                                                 *)
(***************************************************************************)
NoSlots ==
  [reserved |-> [x \in Symbols |-> {}], got |-> <<>>,
   gotMap |-> [x \in Symbols |-> 0], plt |-> <<>>, relaDyn |-> <<>>,
   toCopy |-> <<>>, copied |-> {}, relaxed |-> {}, module |-> 0, error |-> FALSE]

Reserve(st, x, bit)    == [st EXCEPT !.reserved[x] = @ \cup {bit}]
IsReserved(st, x, bit) == bit \in st.reserved[x]
Fail(st)               == [st EXCEPT !.error = TRUE]

AddDynRel(st, type, x, at) ==
  [st EXCEPT !.relaDyn = Append(@, [type |-> type, sym |-> x, at |-> at])]

InSlot(n)      == <<"slot", n>>
InReference(p) == <<"reference", p[1], p[2]>>
InCopy(x)      == <<"copy", x>>

\* createGOT, which also records the slot as the symbol's slot.
createGOT(st, kind, x) ==
  [st EXCEPT !.got = Append(@, [kind |-> kind, sym |-> x]),
             !.gotMap[x] = Len(st.got) + 1]

\* A fault: preemption is not asked, as in a static link.
CreateGOTRelative(st, x, s, out) ==
  LET made == createGOT(st, "Regular", x)
  IN AddDynRel(made, "RELATIVE", x, InSlot(Len(made.got)))

\* CreateGOT: a slot with the dynamic relocation that fills it.
CreateGOT(st, x, s, out) ==
  LET made == createGOT(st, "Regular", x)
  IN IF isCodeStatic(out) \/ (s.vis # "default" /\ isWeakUndef(s)) THEN made
     ELSE AddDynRel(made,
                    IF isSymbolPreemptible(s, out) THEN "GLOB_DAT" ELSE "RELATIVE",
                    x, InSlot(Len(made.got)))

GOTOnce(st, x, s, out) ==
  IF IsReserved(st, x, "GOT") THEN st
  ELSE Reserve(CreateGOT(st, x, s, out), x, "GOT")

\* A fault: a relaxed reference reserves the slot it does not need.
RelaxAndReserve(st, r, p, s, out) ==
  IF isGOTPCRELXRelaxable(r, s, out)
  THEN Reserve([st EXCEPT !.relaxed = @ \cup {p}], r.sym, "GOT")
  ELSE GOTOnce(st, r.sym, s, out)

\* Whether a reference is relaxed is asked before, and whatever, slots exist.
RelaxOrGOT(st, r, p, s, out) ==
  IF isGOTPCRELXRelaxable(r, s, out)
  THEN [st EXCEPT !.relaxed = @ \cup {p}]
  ELSE GOTOnce(st, r.sym, s, out)

TLSIE(st, x, s, out) ==
  LET made == createGOT(st, "TLS_IE", x)
      filled == IF isBuildingExecutable(out) /\ ~isSymbolPreemptible(s, out)
                THEN made ELSE AddDynRel(made, "TPOFF64", x, InSlot(Len(made.got)))
  IN IF IsReserved(st, x, "GOT") THEN st ELSE Reserve(filled, x, "GOT")

TLSGD(st, x, s, out) ==
  LET made == createGOT(st, "TLS_GD", x)
      at   == InSlot(Len(made.got))
      mod  == AddDynRel(made, "DTPMOD64", x, at)
      both == IF isSymbolPreemptible(s, out)
              THEN AddDynRel(mod, "DTPOFF64", x, at) ELSE mod
  IN IF IsReserved(st, x, "GOT") THEN st ELSE Reserve(both, x, "GOT")

\* getTLSModuleID: one slot for the module; every symbol is mapped to it.
getTLSModuleID(st, x) ==
  IF st.module # 0 THEN [st EXCEPT !.gotMap[x] = st.module]
  ELSE LET n    == Len(st.got) + 1
           made == [st EXCEPT !.got = Append(@, [kind |-> "TLS_LD", sym |-> NoSym]),
                              !.module = n]
       IN [AddDynRel(made, "DTPMOD64", NoSym, InSlot(n)) EXCEPT !.gotMap[x] = n]

\* A dynamic relocation at the place of the reference itself.
RelocateReference(st, r, p, type, out) ==
  IF checkDynamicRelocAllowed(r, out)
  THEN AddDynRel(Reserve(st, r.sym, "Rel"), type, r.sym, InReference(p))
  ELSE Fail(st)

\* A fault: the copy is made at once, and not when the scan has ended.
InsertAndCopy(st, x) ==
  [st EXCEPT !.toCopy = IF x \in {@[i] : i \in DOMAIN @} THEN @ ELSE Append(@, x),
             !.copied = @ \cup {x}]

\* A set of symbols in the order of their insertion.
Insert(st, x) ==
  [st EXCEPT !.toCopy = IF x \in {@[i] : i \in DOMAIN @} THEN @ ELSE Append(@, x)]

scanLocalReloc(st, r, p, s, out) ==
  CASE r.type = "R64" ->
         IF isCodeIndep(out) THEN RelocateReference(st, r, p, "RELATIVE", out) ELSE st
    [] r.type = "R32"       -> IF isCodeIndep(out) THEN Fail(st) ELSE st
    [] r.type = "GOTTPOFF"  -> TLSIE(st, r.sym, s, out)
    [] r.type = "GOTPCRELX" -> RelaxOrGOT(st, r, p, s, out)
    [] r.type = "GOTPCREL"  -> GOTOnce(st, r.sym, s, out)
    [] r.type = "TLSLD"     -> getTLSModuleID(st, r.sym)
    [] OTHER                -> st

scanAbsolute(st, r, p, s, out) ==
  IF ~symbolNeedsDynRel(s, IsReserved(st, r.sym, "PLT"), out) THEN st
  ELSE IF symbolNeedsCopyReloc(r, s, out) THEN Insert(st, r.sym)
  ELSE IF r.type = "R32" THEN Fail(st)
  ELSE RelocateReference(st, r, p,
         IF isSymbolPreemptible(s, out) THEN "R64" ELSE "RELATIVE", out)

scanPLT32(st, x, s, out) ==
  IF /\ ~IsReserved(st, x, "PLT")
     /\ \/ s.type = "IndirectFunc" /\ isCodeStatic(out)
        \/ isSymbolPreemptible(s, out)
  THEN Reserve([st EXCEPT !.plt = Append(@, x)], x, "PLT") ELSE st

scanGlobalReloc(st, r, p, s, out) ==
  CASE r.type \in {"R64", "R32"} -> scanAbsolute(st, r, p, s, out)
    [] r.type = "PLT32"     -> scanPLT32(st, r.sym, s, out)
    [] r.type = "GOTPCRELX" -> RelaxOrGOT(st, r, p, s, out)
    [] r.type = "GOTPCREL"  -> GOTOnce(st, r.sym, s, out)
    [] r.type = "GOTTPOFF"  -> TLSIE(st, r.sym, s, out)
    [] r.type = "TLSGD"     -> TLSGD(st, r.sym, s, out)
    [] r.type = "TLSLD"     -> getTLSModuleID(st, r.sym)
    [] OTHER                -> st

\* The attributes of a symbol: one that has been copied is defined here.
symInfo(st, link, x) ==
  IF x \in st.copied THEN [link.syms[x] EXCEPT !.desc = "Define"] ELSE link.syms[x]

scanDeferredRelocation(st, link, p) ==
  LET r == link.inputs[p[1]][p[2]]
      s == symInfo(st, link, r.sym)
  IN IF s.local THEN scanLocalReloc(st, r, p, s, link.output)
     ELSE scanGlobalReloc(st, r, p, s, link.output)

\* What the prologue lets through; the positions are pairs of an input and a
\* relocation.
Positions(link) ==
  UNION {{<<i, k>> : k \in DOMAIN link.inputs[i]} : i \in DOMAIN link.inputs}
Deferrable(link, p) ==
  LET r == link.inputs[p[1]][p[2]]
  IN r.type # "unsupported" /\ r.place # "not allocated"
Before(p, q) == p[1] < q[1] \/ (p[1] = q[1] /\ p[2] < q[2])

\* createCopyRelocation, for a symbol that the library does not also call by
\* another name.
createCopyRelocation(st, x) ==
  [AddDynRel(st, "COPY", x, InCopy(x)) EXCEPT !.copied = @ \cup {x}]
===============================================================================
