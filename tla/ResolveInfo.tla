----------------------------- MODULE ResolveInfo -----------------------------
(***************************************************************************)
(* The attributes the linker keeps for a global symbol, and the operations *)
(* that merge the attributes of a newly read symbol into those of the      *)
(* symbol already in the name pool (lib/SymbolResolver/ResolveInfo.cpp).   *)
(* The bit field of the class is a record with one field per bit group.    *)
(***************************************************************************)
EXTENDS Integers, FiniteSets

CONSTANT Files            \* the input files a symbol may come from
CONSTANT Sizes            \* the sizes a definition or a common may have
CONSTANT Values           \* the values an absolute definition may have

ASSUME SizesAssumption == Sizes \subseteq Nat

\* The visibilities, with the values the ELF format gives them.
Default   == 0
Internal  == 1
Hidden    == 2
Protected == 3
Visibilities == Default..Protected

Descs    == {"Undefined", "Define", "Common"}
Bindings == {"Global", "Weak", "Absolute"}
Types    == {"NoType", "ThreadLocal"}

ResolveInfos ==
  [desc : Descs, binding : Bindings, dyn : BOOLEAN, vis : Visibilities,
   type : Types, size : Sizes, value : Values, origin : Files,
   bitcode : BOOLEAN, preserve : BOOLEAN, exportToDyn : BOOLEAN]

isUndef(s)     == s.desc = "Undefined"
isDefine(s)    == s.desc = "Define"
isCommon(s)    == s.desc = "Common"
isWeak(s)      == s.binding = "Weak"
isAbsolute(s)  == s.binding = "Absolute"
isWeakUndef(s) == isWeak(s) /\ isUndef(s)

\* Local symbols never enter the pool, so only the visibility decides.
canBePreemptible(s) == s.vis = Default

\* Two faults of overrideAttributes: the binding is kept, the export mark is lost.
overrideAttributesKeepsBinding(old, from) ==
  [from EXCEPT !.vis = old.vis, !.preserve = old.preserve, !.binding = old.binding,
               !.size = old.size, !.value = old.value, !.origin = old.origin]
overrideAttributesDropsExport(old, from) ==
  [from EXCEPT !.vis = old.vis, !.preserve = old.preserve,
               !.size = old.size, !.value = old.value, !.origin = old.origin]

\* Everything but the visibility and the preserve mark comes from the new
\* symbol; the export mark survives when the new symbol can be preempted.
overrideAttributes(old, from) ==
  [from EXCEPT !.vis = old.vis, !.preserve = old.preserve,
               !.size = old.size, !.value = old.value, !.origin = old.origin,
               !.exportToDyn = @ \/ (old.exportToDyn /\ canBePreemptible(from))]

\* override(from, CurOverrideOrigin): the size, the value and, unless the
\* caller keeps it, the origin follow the attributes.
override(old, from, curOverrideOrigin) ==
  [overrideAttributes(old, from) EXCEPT
     !.size = from.size, !.value = from.value,
     !.origin = IF curOverrideOrigin THEN from.origin ELSE old.origin]

\* A fault: the first restriction stays, whatever the second one is.
FirstConstrained(v, w) == IF v = Default THEN w ELSE v

\* The smallest value that is not Default: internal, then hidden, then
\* protected.
MostConstrained(v, w) ==
  IF v = Default THEN w
  ELSE IF w = Default THEN v
  ELSE IF v < w THEN v ELSE w

overrideVisibility(old, from) ==
  [old EXCEPT !.vis = MostConstrained(old.vis, from.vis)]

\* The code asserts that the symbol is not dynamic before it merges the
\* visibility; its callers test that.
overrideVisibilityUnlessDyn(old, from) ==
  IF old.dyn THEN old ELSE overrideVisibility(old, from)
==============================================================================
