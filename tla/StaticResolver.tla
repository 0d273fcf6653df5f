---------------------------- MODULE StaticResolver ----------------------------
(***************************************************************************)
(* The symbol resolution of the linker: what becomes of a symbol of the    *)
(* name pool when another input brings the same name                       *)
(* (lib/SymbolResolver/StaticResolver.cpp).                                *)
(***************************************************************************)
EXTENDS ResolveInfo

Ordinates == {"U", "w_U", "d_U", "wd_U", "D", "w_D", "d_D", "wd_D",
              "C", "w_C", "Cs"}

\* An absolute symbol counts as a strong definition, and the commons of shared
\* libraries share one row, weak or not.
getOrdinate(s) ==
  CASE isAbsolute(s) /\ s.dyn  -> "d_D"
    [] isAbsolute(s) /\ ~s.dyn -> "D"
    [] isCommon(s) /\ s.dyn    -> "Cs"
    [] isCommon(s) /\ ~s.dyn   -> IF isWeak(s) THEN "w_C" ELSE "C"
    [] isUndef(s) /\ ~isAbsolute(s) ->
         IF s.dyn THEN (IF isWeak(s) THEN "wd_U" ELSE "d_U")
                  ELSE (IF isWeak(s) THEN "w_U" ELSE "U")
    [] isDefine(s) /\ ~isAbsolute(s) ->
         IF s.dyn THEN (IF isWeak(s) THEN "wd_D" ELSE "d_D")
                  ELSE (IF isWeak(s) THEN "w_D" ELSE "D")

Undefs    == {"U", "w_U", "d_U", "wd_U"}
DynUndefs == {"d_U", "wd_U"}
DynDefs   == {"d_D", "wd_D"}
Commons   == {"C", "w_C", "Cs"}

\* The state table: the action for a new symbol of ordinate row against an old
\* one of ordinate col.
LinkAction(row, col) ==
  CASE row = "U" ->
         (CASE col \in {"w_U", "d_U", "wd_U"} -> "UND"
            [] col \in DynDefs                -> "DUND"
            [] OTHER                          -> "NOACT")
    [] row = "w_U" ->
         (CASE col = "wd_U"    -> "WEAK"
            [] col \in DynDefs -> "DUNDW"
            [] OTHER           -> "NOACT")
    [] row \in DynUndefs -> "NOACT"
    [] row = "D" ->
         (CASE col = "D"         -> "MDEF"
            [] col \in Commons   -> "CDEF"
            [] OTHER             -> "DEF")
    [] row = "w_D" ->
         (IF col \in Undefs \cup DynDefs THEN "DEFW" ELSE "NOACT")
    [] row = "d_D" ->
         (CASE col \in DynUndefs    -> "DEFD"
            [] col \in {"U", "w_U"} -> "MDEFD"
            [] OTHER                -> "NOACT")
    [] row = "wd_D" ->
         (CASE col \in DynUndefs    -> "DEFWD"
            [] col \in {"U", "w_U"} -> "MDEFWD"
            [] OTHER                -> "NOACT")
    [] row = "C" ->
         (CASE col = "D"  -> "CREF"
            [] col = "C"  -> "MBIG"
            [] col = "Cs" -> "BIG"
            [] OTHER      -> "COM")
    [] row = "w_C" -> (IF col \in Undefs THEN "COM" ELSE "NOACT")
    [] row = "Cs" ->
         (CASE col \in Undefs  -> "COM"
            [] col \in Commons -> "MBIG"
            [] OTHER           -> "NOACT")

\* What a resolution leaves: the merged symbol, whether the new symbol has
\* overridden the old one, and the diagnostic raised ("none" when there is none).
Resolution(info, curOverride, diag) ==
  [info |-> info, override |-> curOverride, diag |-> diag]

\* A fault: the mark only says what the last symbol merged asked for.
RemarkForLTO(old, cond) == [old EXCEPT !.preserve = cond]

\* Whether a symbol of one kind of file meets one of the other: the two marks
\* that keep link time optimization from dropping a symbol depend on it.
MarkForLTO(old, cond) == [old EXCEPT !.preserve = @ \/ cond]

NoAction(old, new, postLTO) ==
  LET preserved ==
        MarkForLTO(old, ~postLTO /\ ~new.bitcode /\ old.bitcode /\ ~isUndef(old))
      seen ==
        IF ~postLTO /\ isUndef(old) /\ ~new.bitcode /\ isUndef(new)
          THEN [preserved EXCEPT !.bitcode = FALSE] ELSE preserved
      merged == overrideVisibilityUnlessDyn(seen, new)
      exported ==
        canBePreemptible(merged) /\ new.dyn /\ canBePreemptible(new)
  IN Resolution([merged EXCEPT !.exportToDyn = @ \/ exported], FALSE, "none")

\* UND, WEAK, DEF, DEFW, DEFD, DEFWD and COM.
OverrideBy(old, new, postLTO) ==
  LET strongOverWeak ==
        /\ ~isCommon(old) /\ ~isCommon(new)
        /\ isWeak(old) /\ ~isWeak(new) /\ old.bitcode /\ ~new.bitcode
      dropped ==
        IF ~postLTO /\ strongOverWeak
          THEN [old EXCEPT !.bitcode = FALSE, !.preserve = FALSE] ELSE old
      marked ==
        MarkForLTO(dropped,
          /\ ~postLTO
          /\ \/ ~old.bitcode /\ new.bitcode /\ isUndef(old)
             \/ ~new.bitcode /\ dropped.bitcode /\ ~isUndef(old)
             \/ new.bitcode /\ ~isUndef(new) /\ ~old.bitcode)
  IN Resolution(overrideVisibilityUnlessDyn(override(marked, new, TRUE), new),
                TRUE, "none")

\* MDEFD and MDEFWD: a definition of a shared library for a reference of an
\* object. A reference with restricted visibility cannot bind outside the
\* output, and is left as it is.
MarkDynDefined(old, new, postLTO) ==
  IF old.vis # Default
    THEN NoAction(old, new, postLTO)
    ELSE LET merged == override(old, new, TRUE)
         IN Resolution(IF isWeakUndef(old)
                         THEN [merged EXCEPT !.binding = "Weak"] ELSE merged,
                       TRUE, "none")

\* Faults: the commons are laid one after the other; the smaller one stays.
ConcatenatedCommon(old, new, postLTO) ==
  [info |-> [old EXCEPT !.size = @ + new.size], grown |-> TRUE]
SmallerCommon(old, new, postLTO) ==
  [info  |-> IF old.size > new.size
               THEN [old EXCEPT !.size = new.size, !.origin = new.origin] ELSE old,
   grown |-> old.size > new.size]

\* BIG and MBIG: two commons, the larger one stays.
LargerCommon(old, new, postLTO) ==
  LET grown == old.size < new.size
      sized == IF grown
                 THEN [old EXCEPT !.size = new.size, !.bitcode = new.bitcode,
                                  !.origin = new.origin]
                 ELSE old
  IN [info  |-> MarkForLTO(sized, ~postLTO /\ old.bitcode # new.bitcode),
      grown |-> grown]

\* Faults: one absolute definition is enough to be accepted; the values are not
\* compared.
AnyAbsoluteAccepted(old, new) ==
  IF isAbsolute(old) \/ isAbsolute(new)
    THEN Resolution(override(old, new, TRUE), TRUE, "none")
    ELSE Resolution(old, FALSE, "multiple_definitions")
ValuesNotCompared(old, new) ==
  IF isAbsolute(old) /\ isAbsolute(new)
    THEN Resolution(override(old, new, TRUE), TRUE, "none")
    ELSE Resolution(old, FALSE, "multiple_definitions")

\* MDEF: two strong definitions are an error unless both are absolute with one
\* value.
MultipleDefinition(old, new) ==
  CASE ~(isAbsolute(old) /\ isAbsolute(new)) ->
         Resolution(old, FALSE, "multiple_definitions")
    [] isAbsolute(old) /\ isAbsolute(new) /\ old.value # new.value ->
         Resolution(old, FALSE, "multiple_absolute_definitions")
    [] OTHER ->
         Resolution(overrideVisibility(override(old, new, TRUE), new), TRUE, "none")

\* StaticResolver::resolve
resolve(old, new, postLTO) ==
  LET action == LinkAction(getOrdinate(new), getOrdinate(old))
  IN CASE action = "NOACT" -> NoAction(old, new, postLTO)
       [] action \in {"UND", "WEAK", "DEF", "DEFW", "DEFD", "DEFWD", "COM"} ->
            OverrideBy(old, new, postLTO)
       [] action \in {"MDEFD", "MDEFWD"} -> MarkDynDefined(old, new, postLTO)
       [] action \in {"DUND", "DUNDW"} ->
            Resolution([old EXCEPT !.vis = new.vis], FALSE, "none")
       [] action = "CREF" ->
            Resolution(overrideVisibility(
                         MarkForLTO(old, ~postLTO /\ ~new.bitcode /\ old.bitcode),
                         new), FALSE, "none")
       [] action = "CDEF" ->
            LET marked == MarkForLTO(old, ~postLTO /\ (new.bitcode \/ old.bitcode))
            IN Resolution(overrideVisibility(override(marked, new, TRUE), new),
                          TRUE, "none")
       [] action = "BIG" ->
            Resolution(overrideVisibility(
                         overrideAttributes(LargerCommon(old, new, postLTO).info,
                                            new), new), TRUE, "none")
       [] action = "MBIG" ->
            LET larger == LargerCommon(old, new, postLTO)
            IN Resolution(overrideVisibility(larger.info, new), larger.grown, "none")
       [] action = "MDEF" -> MultipleDefinition(old, new)
===============================================================================
