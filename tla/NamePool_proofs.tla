---------------------------- MODULE NamePool_proofs ----------------------------
(***************************************************************************)
(* Proofs about NamePool: what the table of resolutions does to a symbol,  *)
(* action by action, and what follows for the pool, for all files, names   *)
(* and symbols and every order of the inputs.                              *)
(***************************************************************************)
EXTENDS NamePool, TLAPS

\* What decides on the ordinate and on the identity of a symbol is that of another.
Kept(info, old) ==
  /\ info \in ResolveInfos
  /\ info.desc = old.desc /\ info.binding = old.binding /\ info.dyn = old.dyn
  /\ info.type = old.type /\ info.size = old.size /\ info.value = old.value
  /\ info.origin = old.origin

------------------------------------------------------------------------------
\* The operations of ResolveInfo.

LEMMA ConstrainedIsVisibility ==
  ASSUME NEW v \in Visibilities, NEW w \in Visibilities
  PROVE  MostConstrained(v, w) \in Visibilities
BY DEF MostConstrained

LEMMA VisibilityKeeps ==
  ASSUME NEW old \in ResolveInfos, NEW new \in ResolveInfos
  PROVE  Kept(overrideVisibility(old, new), old) /\ Kept(overrideVisibilityUnlessDyn(old, new), old)
<1>1. MostConstrained(old.vis, new.vis) \in Visibilities
  BY ConstrainedIsVisibility DEF ResolveInfos
<1>2. Kept(overrideVisibility(old, new), old)
  BY <1>1 DEF overrideVisibility, Kept, ResolveInfos
<1> QED  BY <1>2 DEF overrideVisibilityUnlessDyn, Kept

LEMMA MarkKeeps ==
  ASSUME NEW old \in ResolveInfos, NEW cond \in BOOLEAN
  PROVE  Kept(MarkForLTO(old, cond), old)
BY DEF MarkForLTO, Kept, ResolveInfos

LEMMA AttributesOverridden ==
  ASSUME NEW old \in ResolveInfos, NEW new \in ResolveInfos
  PROVE  LET o == overrideAttributes(old, new)
         IN  /\ o \in ResolveInfos
             /\ o.desc = new.desc /\ o.binding = new.binding /\ o.dyn = new.dyn
             /\ o.type = new.type
<1>1. canBePreemptible(new) \in BOOLEAN
  BY DEF canBePreemptible
<1> QED  BY <1>1 DEF overrideAttributes, ResolveInfos

LEMMA OverrideTakes ==
  ASSUME NEW old \in ResolveInfos, NEW new \in ResolveInfos
  PROVE  Kept(override(old, new, TRUE), new)
<1>1. canBePreemptible(new) \in BOOLEAN
  BY DEF canBePreemptible
<1> QED  BY <1>1 DEF override, overrideAttributes, Kept, ResolveInfos

------------------------------------------------------------------------------
\* The actions of the table.

LEMMA KeptOfKept ==
  ASSUME NEW a, NEW b, NEW c, Kept(a, b), Kept(b, c)
  PROVE  Kept(a, c)
BY DEF Kept

LEMMA NoActionKeeps ==
  ASSUME NEW old \in ResolveInfos, NEW new \in ResolveInfos, NEW postLTO \in BOOLEAN
  PROVE  Kept(NoAction(old, new, postLTO).info, old)
<1> DEFINE preserved ==
             MarkForLTO(old, ~postLTO /\ ~new.bitcode /\ old.bitcode /\ ~isUndef(old))
           seen == IF ~postLTO /\ isUndef(old) /\ ~new.bitcode /\ isUndef(new)
                   THEN [preserved EXCEPT !.bitcode = FALSE] ELSE preserved
           merged == overrideVisibilityUnlessDyn(seen, new)
           exported == canBePreemptible(merged) /\ new.dyn /\ canBePreemptible(new)
           shown == [merged EXCEPT !.exportToDyn = @ \/ exported]
<1>1. Kept(preserved, old)
  BY MarkKeeps
<1>2. Kept(seen, preserved)
  <2> HIDE DEF preserved
  <2> QED  BY <1>1 DEF Kept, ResolveInfos
<1>3. Kept(merged, seen)
  <2> HIDE DEF seen
  <2> QED  BY <1>2, VisibilityKeeps DEF Kept
<1>4. Kept(shown, merged)
  <2>1. exported \in BOOLEAN
    BY DEF canBePreemptible, ResolveInfos
  <2> HIDE DEF merged, exported
  <2> QED  BY <1>3, <2>1 DEF Kept, ResolveInfos
<1>5. Kept(shown, old)
  <2> HIDE DEF preserved, seen, merged, shown
  <2> QED  BY <1>1, <1>2, <1>3, <1>4, KeptOfKept
<1>6. NoAction(old, new, postLTO).info = shown
  BY DEF NoAction, Resolution
<1> QED  BY <1>5, <1>6

LEMMA OverrideByTakes ==
  ASSUME NEW old \in ResolveInfos, NEW new \in ResolveInfos, NEW postLTO \in BOOLEAN
  PROVE  Kept(OverrideBy(old, new, postLTO).info, new)
<1> DEFINE strongOverWeak ==
             /\ ~isCommon(old) /\ ~isCommon(new)
             /\ isWeak(old) /\ ~isWeak(new) /\ old.bitcode /\ ~new.bitcode
           dropped == IF ~postLTO /\ strongOverWeak
                      THEN [old EXCEPT !.bitcode = FALSE, !.preserve = FALSE] ELSE old
           cond == /\ ~postLTO
                   /\ \/ ~old.bitcode /\ new.bitcode /\ isUndef(old)
                      \/ ~new.bitcode /\ dropped.bitcode /\ ~isUndef(old)
                      \/ new.bitcode /\ ~isUndef(new) /\ ~old.bitcode
           marked == MarkForLTO(dropped, cond)
<1>1. dropped \in ResolveInfos
  BY DEF ResolveInfos
<1>2. marked \in ResolveInfos
  <2>1. cond \in BOOLEAN
    OBVIOUS
  <2> HIDE DEF dropped, cond
  <2> QED  BY <1>1, <2>1, MarkKeeps DEF Kept
<1>3. Kept(override(marked, new, TRUE), new)
  <2> HIDE DEF marked
  <2> QED  BY <1>2, OverrideTakes
<1>4. Kept(overrideVisibilityUnlessDyn(override(marked, new, TRUE), new), override(marked, new, TRUE))
  <2> HIDE DEF marked
  <2> QED  BY <1>3, VisibilityKeeps DEF Kept
<1>5. OverrideBy(old, new, postLTO).info = overrideVisibilityUnlessDyn(override(marked, new, TRUE), new)
  BY DEF OverrideBy, Resolution
<1> HIDE DEF marked
<1> QED  BY <1>3, <1>4, <1>5, KeptOfKept

\* A definition of a shared library leaves a restricted reference alone, and takes
\* over the weak binding of a reference.
LEMMA MarkDynDefinedOutcome ==
  ASSUME NEW old \in ResolveInfos, NEW new \in ResolveInfos, NEW postLTO \in BOOLEAN
  PROVE  LET r == MarkDynDefined(old, new, postLTO)
         IN  IF old.vis # Default THEN Kept(r.info, old)
             ELSE /\ r.info \in ResolveInfos
                  /\ r.info.desc = new.desc /\ r.info.dyn = new.dyn /\ r.info.type = new.type
                  /\ r.info.origin = new.origin /\ r.info.size = new.size
                  /\ r.info.binding = IF isWeakUndef(old) THEN "Weak" ELSE new.binding
<1>1. CASE old.vis # Default
  BY <1>1, NoActionKeeps DEF MarkDynDefined
<1>2. CASE old.vis = Default
  <2> DEFINE merged == override(old, new, TRUE)
  <2>1. Kept(merged, new)
    BY OverrideTakes
  <2>2. MarkDynDefined(old, new, postLTO).info =
          IF isWeakUndef(old) THEN [merged EXCEPT !.binding = "Weak"] ELSE merged
    BY <1>2 DEF MarkDynDefined, Resolution
  <2> HIDE DEF merged
  <2> QED  BY <1>2, <2>1, <2>2 DEF Kept, ResolveInfos, Bindings
<1> QED  BY <1>1, <1>2

LEMMA LargerCommonOutcome ==
  ASSUME NEW old \in ResolveInfos, NEW new \in ResolveInfos, NEW postLTO \in BOOLEAN
  PROVE  LET l == LargerCommon(old, new, postLTO)
         IN  /\ l.info \in ResolveInfos
             /\ l.info.desc = old.desc /\ l.info.binding = old.binding /\ l.info.dyn = old.dyn
             /\ l.info.type = old.type /\ l.info.value = old.value
             /\ l.info.size = IF old.size < new.size THEN new.size ELSE old.size
             /\ l.info.origin = IF old.size < new.size THEN new.origin ELSE old.origin
<1> DEFINE grown == old.size < new.size
           sized == IF grown
                    THEN [old EXCEPT !.size = new.size, !.bitcode = new.bitcode,
                                     !.origin = new.origin]
                    ELSE old
           cond == ~postLTO /\ old.bitcode # new.bitcode
<1>1. /\ sized \in ResolveInfos
      /\ sized.desc = old.desc /\ sized.binding = old.binding /\ sized.dyn = old.dyn
      /\ sized.type = old.type /\ sized.value = old.value
      /\ sized.size = IF grown THEN new.size ELSE old.size
      /\ sized.origin = IF grown THEN new.origin ELSE old.origin
  BY DEF ResolveInfos
<1>2. Kept(MarkForLTO(sized, cond), sized)
  <2>1. cond \in BOOLEAN
    OBVIOUS
  <2> HIDE DEF sized, cond
  <2> QED  BY <1>1, <2>1, MarkKeeps
<1>3. LargerCommon(old, new, postLTO).info = MarkForLTO(sized, cond)
  BY DEF LargerCommon
<1> HIDE DEF sized, cond
<1> QED  BY <1>1, <1>2, <1>3 DEF Kept

------------------------------------------------------------------------------
\* resolve: every pair of ordinates has an action, and what it leaves.

OverrideActions == {"UND", "WEAK", "DEF", "DEFW", "DEFD", "DEFWD", "COM"}

LinkActions ==
  {"NOACT", "DUND", "DUNDW", "CREF", "MDEFD", "MDEFWD", "CDEF", "BIG", "MBIG", "MDEF"}
    \cup OverrideActions

LEMMA OrdinateType ==
  ASSUME NEW s \in ResolveInfos
  PROVE  getOrdinate(s) \in Ordinates
BY DEF getOrdinate, Ordinates, ResolveInfos, Descs, isAbsolute, isCommon, isUndef, isDefine, isWeak

LEMMA ActionType ==
  ASSUME NEW row \in Ordinates, NEW col \in Ordinates
  PROVE  LinkAction(row, col) \in LinkActions
<1>1. CASE row \in {"U", "w_U"} \cup DynUndefs
  BY <1>1 DEF LinkAction, LinkActions, OverrideActions, DynUndefs
<1>2. CASE row \in {"D", "w_D"}
  BY <1>2 DEF LinkAction, LinkActions, OverrideActions, DynUndefs
<1>3. CASE row \in {"d_D", "wd_D"}
  BY <1>3 DEF LinkAction, LinkActions, OverrideActions, DynUndefs
<1>4. CASE row \in Commons
  BY <1>4 DEF LinkAction, LinkActions, OverrideActions, DynUndefs, Commons
<1> QED  BY <1>1, <1>2, <1>3, <1>4 DEF Ordinates, DynUndefs, Commons

ActionFor(old, new) == LinkAction(getOrdinate(new), getOrdinate(old))

\* Two definitions that are the same absolute value.
SameAbsolute(s, t) == isAbsolute(s) /\ isAbsolute(t) /\ s.value = t.value

LEMMA ResolveKeeps ==
  ASSUME NEW old \in ResolveInfos, NEW new \in ResolveInfos, NEW postLTO \in BOOLEAN,
         ActionFor(old, new) \in {"NOACT", "DUND", "DUNDW", "CREF"}
  PROVE  Kept(resolve(old, new, postLTO).info, old) /\ resolve(old, new, postLTO).diag = "none"
<1>1. CASE ActionFor(old, new) = "NOACT"
  <2>1. resolve(old, new, postLTO) = NoAction(old, new, postLTO)
    BY <1>1 DEF resolve, ActionFor
  <2>2. NoAction(old, new, postLTO).diag = "none"
    BY DEF NoAction, Resolution
  <2> QED  BY <2>1, <2>2, NoActionKeeps
<1>2. CASE ActionFor(old, new) \in {"DUND", "DUNDW"}
  <2>1. resolve(old, new, postLTO) = Resolution([old EXCEPT !.vis = new.vis], FALSE, "none")
    BY <1>2 DEF resolve, ActionFor
  <2>2. Kept([old EXCEPT !.vis = new.vis], old)
    BY DEF Kept, ResolveInfos
  <2> QED  BY <2>1, <2>2 DEF Resolution
<1>3. CASE ActionFor(old, new) = "CREF"
  <2> DEFINE marked == MarkForLTO(old, ~postLTO /\ ~new.bitcode /\ old.bitcode)
  <2>1. resolve(old, new, postLTO) = Resolution(overrideVisibility(marked, new), FALSE, "none")
    BY <1>3 DEF resolve, ActionFor
  <2>2. Kept(marked, old)
    BY MarkKeeps
  <2>3. Kept(overrideVisibility(marked, new), marked)
    <3> HIDE DEF marked
    <3> QED  BY <2>2, VisibilityKeeps DEF Kept
  <2> HIDE DEF marked
  <2> QED  BY <2>1, <2>2, <2>3, KeptOfKept DEF Resolution
<1> QED  BY <1>1, <1>2, <1>3

LEMMA ResolveTakes ==
  ASSUME NEW old \in ResolveInfos, NEW new \in ResolveInfos, NEW postLTO \in BOOLEAN,
         ActionFor(old, new) \in OverrideActions \cup {"CDEF"}
  PROVE  Kept(resolve(old, new, postLTO).info, new) /\ resolve(old, new, postLTO).diag = "none"
<1>1. CASE ActionFor(old, new) \in OverrideActions
  <2>1. resolve(old, new, postLTO) = OverrideBy(old, new, postLTO)
    BY <1>1 DEF resolve, ActionFor, OverrideActions
  <2>2. OverrideBy(old, new, postLTO).diag = "none"
    BY DEF OverrideBy, Resolution
  <2> QED  BY <2>1, <2>2, OverrideByTakes
<1>2. CASE ActionFor(old, new) = "CDEF"
  <2> DEFINE marked == MarkForLTO(old, ~postLTO /\ (new.bitcode \/ old.bitcode))
             taken == override(marked, new, TRUE)
  <2>1. resolve(old, new, postLTO) = Resolution(overrideVisibility(taken, new), TRUE, "none")
    BY <1>2 DEF resolve, ActionFor
  <2>2. Kept(marked, old)
    BY MarkKeeps
  <2>3. Kept(taken, new)
    <3> HIDE DEF marked
    <3> QED  BY <2>2, OverrideTakes DEF Kept
  <2>4. Kept(overrideVisibility(taken, new), taken)
    <3> HIDE DEF taken
    <3> QED  BY <2>3, VisibilityKeeps DEF Kept
  <2> HIDE DEF taken
  <2> QED  BY <2>1, <2>3, <2>4, KeptOfKept DEF Resolution
<1> QED  BY <1>1, <1>2

LEMMA ResolveCommons ==
  ASSUME NEW old \in ResolveInfos, NEW new \in ResolveInfos, NEW postLTO \in BOOLEAN,
         ActionFor(old, new) \in {"BIG", "MBIG"}
  PROVE  LET r    == resolve(old, new, postLTO)
             from == IF ActionFor(old, new) = "BIG" THEN new ELSE old
         IN  /\ r.info \in ResolveInfos /\ r.diag = "none"
             /\ r.info.desc = from.desc /\ r.info.binding = from.binding
             /\ r.info.dyn = from.dyn /\ r.info.type = from.type
             /\ r.info.size = IF old.size < new.size THEN new.size ELSE old.size
             /\ r.info.origin = IF old.size < new.size THEN new.origin ELSE old.origin
<1> DEFINE l == LargerCommon(old, new, postLTO)
           all == overrideAttributes(l.info, new)
<1>1. /\ l.info \in ResolveInfos
      /\ l.info.desc = old.desc /\ l.info.binding = old.binding /\ l.info.dyn = old.dyn
      /\ l.info.type = old.type
      /\ l.info.size = IF old.size < new.size THEN new.size ELSE old.size
      /\ l.info.origin = IF old.size < new.size THEN new.origin ELSE old.origin
  BY LargerCommonOutcome
<1>2. CASE ActionFor(old, new) = "BIG"
  <2>1. resolve(old, new, postLTO) = Resolution(overrideVisibility(all, new), TRUE, "none")
    BY <1>2 DEF resolve, ActionFor
  <2>2. /\ all \in ResolveInfos
        /\ all.desc = new.desc /\ all.binding = new.binding /\ all.dyn = new.dyn
        /\ all.type = new.type
    <3> HIDE DEF l
    <3> QED  BY <1>1, AttributesOverridden
  <2>3. all.size = l.info.size /\ all.origin = l.info.origin
    <3>1. canBePreemptible(new) \in BOOLEAN
      BY DEF canBePreemptible
    <3> HIDE DEF l
    <3> QED  BY <1>1, <3>1 DEF overrideAttributes, ResolveInfos
  <2>4. Kept(overrideVisibility(all, new), all)
    <3> HIDE DEF all
    <3> QED  BY <2>2, VisibilityKeeps
  <2> HIDE DEF all, l
  <2> QED  BY <1>1, <1>2, <2>1, <2>2, <2>3, <2>4 DEF Kept, Resolution
<1>3. CASE ActionFor(old, new) = "MBIG"
  <2>1. resolve(old, new, postLTO) = Resolution(overrideVisibility(l.info, new), l.grown, "none")
    BY <1>3 DEF resolve, ActionFor
  <2>2. Kept(overrideVisibility(l.info, new), l.info)
    <3> HIDE DEF l
    <3> QED  BY <1>1, VisibilityKeeps
  <2> HIDE DEF l
  <2> QED  BY <1>1, <1>3, <2>1, <2>2 DEF Kept, Resolution
<1> QED  BY <1>2, <1>3

LEMMA ResolveDynDefined ==
  ASSUME NEW old \in ResolveInfos, NEW new \in ResolveInfos, NEW postLTO \in BOOLEAN,
         ActionFor(old, new) \in {"MDEFD", "MDEFWD"}
  PROVE  LET r == resolve(old, new, postLTO)
         IN  /\ r.info \in ResolveInfos /\ r.diag = "none"
             /\ IF old.vis # Default THEN Kept(r.info, old)
                ELSE /\ r.info.desc = new.desc /\ r.info.dyn = new.dyn
                     /\ r.info.type = new.type /\ r.info.origin = new.origin
                     /\ r.info.size = new.size
                     /\ r.info.binding = IF isWeakUndef(old) THEN "Weak" ELSE new.binding
<1>1. resolve(old, new, postLTO) = MarkDynDefined(old, new, postLTO)
  BY DEF resolve, ActionFor
<1>2. MarkDynDefined(old, new, postLTO).diag = "none"
  BY DEF MarkDynDefined, NoAction, Resolution
<1> QED  BY <1>1, <1>2, MarkDynDefinedOutcome DEF Kept

LEMMA ResolveDefinitions ==
  ASSUME NEW old \in ResolveInfos, NEW new \in ResolveInfos, NEW postLTO \in BOOLEAN,
         ActionFor(old, new) = "MDEF"
  PROVE  LET r == resolve(old, new, postLTO)
         IN  IF SameAbsolute(old, new) THEN Kept(r.info, new) /\ r.diag = "none"
             ELSE r.info = old /\ r.diag # "none"
<1>1. resolve(old, new, postLTO) = MultipleDefinition(old, new)
  BY DEF resolve, ActionFor
<1>2. CASE SameAbsolute(old, new)
  <2> DEFINE taken == override(old, new, TRUE)
  <2>1. MultipleDefinition(old, new) = Resolution(overrideVisibility(taken, new), TRUE, "none")
    BY <1>2 DEF MultipleDefinition, SameAbsolute
  <2>2. Kept(taken, new)
    BY OverrideTakes
  <2>3. Kept(overrideVisibility(taken, new), taken)
    <3> HIDE DEF taken
    <3> QED  BY <2>2, VisibilityKeeps DEF Kept
  <2> HIDE DEF taken
  <2> QED  BY <1>1, <1>2, <2>1, <2>2, <2>3, KeptOfKept DEF Resolution
<1>3. CASE ~SameAbsolute(old, new)
  <2>1. MultipleDefinition(old, new).info = old /\ MultipleDefinition(old, new).diag # "none"
    BY <1>3 DEF MultipleDefinition, SameAbsolute, Resolution
  <2> QED  BY <1>1, <1>3, <2>1
<1> QED  BY <1>2, <1>3

\* Whatever the action, the outcome is a symbol of one of the two types.
LEMMA ResolveType ==
  ASSUME NEW old \in ResolveInfos, NEW new \in ResolveInfos, NEW postLTO \in BOOLEAN
  PROVE  /\ resolve(old, new, postLTO).info \in ResolveInfos
         /\ resolve(old, new, postLTO).info.type \in {old.type, new.type}
<1>1. ActionFor(old, new) \in LinkActions
  BY OrdinateType, ActionType DEF ActionFor
<1>2. CASE ActionFor(old, new) \in {"NOACT", "DUND", "DUNDW", "CREF"}
  BY <1>2, ResolveKeeps DEF Kept
<1>3. CASE ActionFor(old, new) \in OverrideActions \cup {"CDEF"}
  BY <1>3, ResolveTakes DEF Kept
<1>4. CASE ActionFor(old, new) \in {"BIG", "MBIG"}
  BY <1>4, ResolveCommons
<1>5. CASE ActionFor(old, new) \in {"MDEFD", "MDEFWD"}
  BY <1>5, ResolveDynDefined DEF Kept
<1>6. CASE ActionFor(old, new) = "MDEF"
  BY <1>6, ResolveDefinitions DEF Kept
<1> QED  BY <1>1, <1>2, <1>3, <1>4, <1>5, <1>6 DEF LinkActions

------------------------------------------------------------------------------
\* Types, and the agreement of everything that is said of a name on its type.

\* What TypeOK says of the pool, and that the history is a function on the names.
PoolType == TypeOK /\ read \in [Names -> SUBSET ResolveInfos]

\* The symbol in the pool has the type that all the inputs have given to the name.
TypesAgree == \A n \in Names : HasInfo(n) => \A s \in read[n] : s.type = pool[n].type

LEMMA NoInfoIsNone == NoInfo \notin ResolveInfos
BY DEF NoInfo, ResolveInfos, Descs

LEMMA InputSymbolType ==
  ASSUME NEW f \in Files, NEW s \in InputSymbols
  PROVE  /\ createInputSymbolRI(s, f) \in ResolveInfos
         /\ createInputSymbolRI(s, f).origin = f
BY DEF createInputSymbolRI, InputSymbols, ResolveInfos

LEMMA LTOResolutionType ==
  ASSUME NEW old \in ResolveInfos, NEW new \in ResolveInfos
  PROVE  /\ LTOResolution(old, new).info \in ResolveInfos
         /\ LTOResolution(old, new).info.type = new.type
<1> DEFINE moved == override(old, new, FALSE)
           sized == [moved EXCEPT !.size = new.size]
           attributes == overrideAttributes(sized, new)
           seen == overrideVisibility(attributes, new)
<1>1. sized \in ResolveInfos
  <2>1. moved \in ResolveInfos
    <3>1. overrideAttributes(old, new) \in ResolveInfos
      BY AttributesOverridden
    <3> QED  BY <3>1 DEF override, ResolveInfos
  <2> HIDE DEF moved
  <2> QED  BY <2>1 DEF ResolveInfos
<1>2. attributes \in ResolveInfos /\ attributes.type = new.type
  <2> HIDE DEF sized
  <2> QED  BY <1>1, AttributesOverridden
<1>3. seen \in ResolveInfos /\ seen.type = new.type
  <2> HIDE DEF attributes
  <2> QED  BY <1>2, VisibilityKeeps DEF Kept
<1>4. LTOResolution(old, new).info = [seen EXCEPT !.binding = new.binding, !.bitcode = new.bitcode]
  BY DEF LTOResolution, Resolution
<1> HIDE DEF seen
<1> QED  BY <1>3, <1>4 DEF ResolveInfos

\* A symbol that is inserted keeps the type of those before it.
LEMMA InsertedType ==
  ASSUME PoolType, NEW n \in Names, NEW new \in ResolveInfos, Resolvable(n, new)
  PROVE  /\ insertNonLocalSymbol(n, new).info \in ResolveInfos
         /\ insertNonLocalSymbol(n, new).info.type = new.type
         /\ HasInfo(n) => pool[n] \in ResolveInfos /\ pool[n].type = new.type
<1>1. HasInfo(n) => pool[n] \in ResolveInfos
  BY DEF PoolType, TypeOK, HasInfo
<1>2. HasInfo(n) => pool[n].type = new.type
  BY <1>1 DEF Resolvable, checkTLSTypes, ResolveInfos, Types
<1>3. CASE ~HasInfo(n)
  BY <1>3 DEF insertNonLocalSymbol, Resolution
<1>4. CASE HasInfo(n) /\ OverrideByLto(n, new)
  <2>1. insertNonLocalSymbol(n, new) = LTOResolution(pool[n], new)
    BY <1>4 DEF insertNonLocalSymbol
  <2> QED  BY <1>1, <1>2, <1>4, <2>1, LTOResolutionType
<1>5. CASE HasInfo(n) /\ ~OverrideByLto(n, new)
  <2>1. insertNonLocalSymbol(n, new) = resolve(pool[n], new, phase = "postLTO")
    BY <1>5 DEF insertNonLocalSymbol
  <2>2. /\ resolve(pool[n], new, phase = "postLTO").info \in ResolveInfos
        /\ resolve(pool[n], new, phase = "postLTO").info.type \in {pool[n].type, new.type}
    BY <1>1, <1>5, ResolveType
  <2> QED  BY <1>1, <1>2, <1>5, <2>1, <2>2
<1> QED  BY <1>3, <1>4, <1>5

\* One more symbol of a name, whatever is left of it in the pool.
LEMMA InsertionKeepsPool ==
  ASSUME PoolType, TypesAgree, NEW n \in Names, NEW new \in ResolveInfos,
         NEW info \in ResolveInfos, info.type = new.type,
         HasInfo(n) => pool[n].type = new.type,
         pool' = [pool EXCEPT ![n] = info], read' = [read EXCEPT ![n] = @ \cup {new}]
  PROVE  /\ pool' \in [Names -> ResolveInfos \cup {NoInfo}]
         /\ read' \in [Names -> SUBSET ResolveInfos]
         /\ \A m \in Names : HasInfo(m)' <=> read'[m] # {}
         /\ TypesAgree'
<1>1. pool' \in [Names -> ResolveInfos \cup {NoInfo}] /\ read' \in [Names -> SUBSET ResolveInfos]
  BY DEF PoolType, TypeOK
<1>2. ASSUME NEW m \in Names
      PROVE  (HasInfo(m)' <=> read'[m] # {}) /\ (HasInfo(m)' => \A s \in read'[m] : s.type = pool'[m].type)
  <2>1. CASE m # n
    <3>1. pool'[m] = pool[m] /\ read'[m] = read[m]
      BY <2>1 DEF PoolType, TypeOK
    <3> QED  BY <3>1 DEF PoolType, TypeOK, TypesAgree, HasInfo
  <2>2. CASE m = n
    <3>1. pool'[m] = info /\ read'[m] = read[n] \cup {new}
      BY <2>2 DEF PoolType, TypeOK
    <3>2. info # NoInfo
      BY NoInfoIsNone
    <3>3. \A s \in read[n] : s.type = new.type
      BY DEF TypesAgree, PoolType, TypeOK
    <3> QED  BY <3>1, <3>2, <3>3 DEF HasInfo
  <2> QED  BY <2>1, <2>2
<1> QED  BY <1>1, <1>2 DEF TypesAgree

PoolInv == PoolType /\ TypesAgree

LEMMA InitPool == Init => PoolInv
BY DEF Init, PoolInv, PoolType, TypeOK, TypesAgree, HasInfo

\* An error leaves everything but the mark of the error alone.
LEMMA FailKeepsPool ==
  ASSUME PoolInv, NEW n, NEW new, FailToInsert(n, new)
  PROVE  PoolInv'
BY DEF PoolInv, FailToInsert, PoolType, TypeOK, TypesAgree, HasInfo

LEMMA ObjectKeepsPool ==
  ASSUME PoolInv, NEW n \in Names, NEW f \in Objs \cup LTOObjs, NEW s \in ObjSymbols[f],
         addSymbolFromObject(f, n, s)
  PROVE  PoolInv'
<1> DEFINE new == createInputSymbolRI(s, f)
           r == insertNonLocalSymbol(n, new)
<1>1. f \in Files /\ s \in InputSymbols
  BY FilesAssumption, SymbolsAssumption
<1>2. new \in ResolveInfos
  BY <1>1, InputSymbolType
<1>3. CASE FailToInsert(n, new)
  BY <1>3, FailKeepsPool
<1>4. CASE ~FailToInsert(n, new)
  <2>1. /\ Resolvable(n, new) /\ Insert(n, new)
        /\ outSym' = [outSym EXCEPT ![n] = IF r.override THEN f
                                           ELSE IF @ = NoFile THEN libSym[n] ELSE @]
        /\ collected' = IF r.override THEN collected \ {n} ELSE collected
        /\ UNCHANGED <<libSym, used, phase, toLTO>>
    BY <1>4 DEF addSymbolFromObject
  <2> HIDE DEF new
  <2>2. /\ pool' = [pool EXCEPT ![n] = r.info] /\ read' = [read EXCEPT ![n] = @ \cup {new}]
        /\ diags' \in {diags, diags \cup {n}} /\ failed' = FALSE
    BY <2>1 DEF Insert
  <2>3. /\ pool' \in [Names -> ResolveInfos \cup {NoInfo}]
        /\ read' \in [Names -> SUBSET ResolveInfos]
        /\ \A m \in Names : HasInfo(m)' <=> read'[m] # {}
        /\ TypesAgree'
    BY <1>2, <2>1, <2>2, InsertedType, InsertionKeepsPool DEF PoolInv
  <2>4. outSym' \in [Names -> Files \cup {NoFile}]
    <3>1. libSym[n] \in Files \cup {NoFile} /\ outSym \in [Names -> Files \cup {NoFile}]
      BY FilesAssumption DEF PoolInv, PoolType, TypeOK
    <3> HIDE DEF r
    <3> QED  BY <1>1, <2>1, <3>1
  <2>5. diags' \subseteq Names /\ collected' \subseteq Names
    BY <2>1, <2>2 DEF PoolInv, PoolType, TypeOK
  <2> QED  BY <2>1, <2>2, <2>3, <2>4, <2>5 DEF PoolInv, PoolType, TypeOK
<1> QED  BY <1>3, <1>4

LEMMA BitcodeKeepsPool ==
  ASSUME PoolInv, NEW n \in Names, NEW f \in BitcodeFiles, NEW s \in BitcodeSymbols,
         addSymbolFromBitCode(f, n, s)
  PROVE  PoolInv'
<1> DEFINE new == createInputSymbolRI(s, f)
           r == insertNonLocalSymbol(n, new)
<1>1. f \in Files /\ s \in InputSymbols
  BY FilesAssumption, SymbolsAssumption
<1>2. new \in ResolveInfos
  BY <1>1, InputSymbolType
<1>3. CASE FailToInsert(n, new)
  BY <1>3, FailKeepsPool
<1>4. CASE ~FailToInsert(n, new)
  <2>1. /\ Resolvable(n, new) /\ Insert(n, new)
        /\ outSym' = [outSym EXCEPT ![n] = IF @ = NoFile THEN f ELSE @]
        /\ UNCHANGED <<libSym, used, collected, phase, toLTO>>
    BY <1>4 DEF addSymbolFromBitCode
  <2> HIDE DEF new
  <2>2. /\ pool' = [pool EXCEPT ![n] = r.info] /\ read' = [read EXCEPT ![n] = @ \cup {new}]
        /\ diags' \in {diags, diags \cup {n}} /\ failed' = FALSE
    BY <2>1 DEF Insert
  <2>3. /\ pool' \in [Names -> ResolveInfos \cup {NoInfo}]
        /\ read' \in [Names -> SUBSET ResolveInfos]
        /\ \A m \in Names : HasInfo(m)' <=> read'[m] # {}
        /\ TypesAgree'
    BY <1>2, <2>1, <2>2, InsertedType, InsertionKeepsPool DEF PoolInv
  <2>4. outSym' \in [Names -> Files \cup {NoFile}] /\ diags' \subseteq Names
    BY <1>1, <2>1, <2>2 DEF PoolInv, PoolType, TypeOK
  <2> QED  BY <2>1, <2>2, <2>3, <2>4 DEF PoolInv, PoolType, TypeOK
<1> QED  BY <1>3, <1>4

LEMMA DynObjKeepsPool ==
  ASSUME PoolInv, NEW n \in Names, NEW l \in Libs, NEW s \in LibSymbols,
         addSymbolFromDynObj(l, n, s)
  PROVE  PoolInv'
<1> DEFINE new == createInputSymbolRI(s, l)
           r == insertNonLocalSymbol(n, new)
           out == IF r.override /\ outSym[n] # NoFile THEN l ELSE outSym[n]
           exports == ~BuildsLibrary /\ (HasFragRef(n, out) \/ isCommon(r.info))
           info == [r.info EXCEPT !.exportToDyn = @ \/ exports]
<1>1. l \in Files /\ s \in InputSymbols
  BY FilesAssumption, SymbolsAssumption
<1>2. new \in ResolveInfos
  BY <1>1, InputSymbolType
<1>3. CASE FailToInsert(n, new)
  BY <1>3, FailKeepsPool
<1>4. CASE ~FailToInsert(n, new)
  <2>1. /\ Resolvable(n, new)
        /\ pool' = [pool EXCEPT ![n] = info]
        /\ diags' = diags /\ failed' = FALSE
        /\ read' = [read EXCEPT ![n] = @ \cup {new}]
        /\ libSym' = IF r.override THEN [libSym EXCEPT ![n] = l] ELSE libSym
        /\ used' = IF ResolvesReference(n, r) THEN used \cup {l} ELSE used
        /\ outSym' = [outSym EXCEPT ![n] = out]
        /\ UNCHANGED <<collected, phase, toLTO>>
    BY <1>4 DEF addSymbolFromDynObj
  <2> HIDE DEF new
  <2>2. /\ r.info \in ResolveInfos /\ r.info.type = new.type
        /\ HasInfo(n) => pool[n].type = new.type
    BY <1>2, <2>1, InsertedType DEF PoolInv
  <2>3. info \in ResolveInfos /\ info.type = new.type
    <3> HIDE DEF r
    <3>1. (r.info.exportToDyn \/ exports) \in BOOLEAN
      OBVIOUS
    <3> HIDE DEF exports
    <3> QED  BY <2>2, <3>1 DEF ResolveInfos
  <2>4. /\ pool' \in [Names -> ResolveInfos \cup {NoInfo}]
        /\ read' \in [Names -> SUBSET ResolveInfos]
        /\ \A m \in Names : HasInfo(m)' <=> read'[m] # {}
        /\ TypesAgree'
    <3> HIDE DEF info
    <3> QED  BY <1>2, <2>1, <2>2, <2>3, InsertionKeepsPool DEF PoolInv
  <2>5. /\ outSym' \in [Names -> Files \cup {NoFile}] /\ libSym' \in [Names -> Libs \cup {NoFile}]
        /\ used' \subseteq Files
    <3> HIDE DEF r
    <3> QED  BY <1>1, <2>1 DEF PoolInv, PoolType, TypeOK
  <2> QED  BY <2>1, <2>4, <2>5 DEF PoolInv, PoolType, TypeOK
<1> QED  BY <1>3, <1>4

LEMMA PhasesKeepPool ==
  ASSUME PoolInv, beginPostLTO \/ addSymbolsToOutput
  PROVE  PoolInv'
<1>1. \A n \in Names : HasInfo(n) => pool[n] \in ResolveInfos /\ pool[n].origin \in Files
  BY DEF PoolInv, PoolType, TypeOK, HasInfo, ResolveInfos
<1>2. UNCHANGED <<pool, outSym, libSym, diags, failed, read>>
  BY DEF beginPostLTO, addSymbolsToOutput
<1>3. CASE beginPostLTO
  <2>1. used' \subseteq Files /\ collected' \subseteq Names /\ phase' = "postLTO"
    BY <1>1, <1>3 DEF beginPostLTO, PreserveSyms, PoolInv, PoolType, TypeOK
  <2>2. toLTO' \in [Names -> ResolveInfos \cup {NoInfo}]
    BY <1>1, <1>3 DEF beginPostLTO
  <2> QED  BY <1>2, <2>1, <2>2 DEF PoolInv, PoolType, TypeOK, TypesAgree, HasInfo
<1>4. CASE addSymbolsToOutput
  <2>1. used' \subseteq Files /\ phase' = "output" /\ UNCHANGED <<collected, toLTO>>
    BY <1>1, <1>4 DEF addSymbolsToOutput, ToOutput, PoolInv, PoolType, TypeOK
  <2> QED  BY <1>2, <2>1 DEF PoolInv, PoolType, TypeOK, TypesAgree, HasInfo
<1> QED  BY <1>3, <1>4

LEMMA NextPool == PoolInv /\ [Next]_vars => PoolInv'
<1> SUFFICES ASSUME PoolInv, [Next]_vars PROVE PoolInv'
  OBVIOUS
<1>1. ASSUME NEW n \in Names, NEW f \in Objs \cup LTOObjs, NEW s \in ObjSymbols[f],
             addSymbolFromObject(f, n, s)
      PROVE  PoolInv'
  BY <1>1, ObjectKeepsPool
<1>2. ASSUME NEW n \in Names, NEW f \in BitcodeFiles, NEW s \in BitcodeSymbols,
             addSymbolFromBitCode(f, n, s)
      PROVE  PoolInv'
  BY <1>2, BitcodeKeepsPool
<1>3. ASSUME NEW n \in Names, NEW l \in Libs, NEW s \in LibSymbols,
             addSymbolFromDynObj(l, n, s)
      PROVE  PoolInv'
  BY <1>3, DynObjKeepsPool
<1>4. CASE beginPostLTO \/ addSymbolsToOutput
  BY <1>4, PhasesKeepPool
<1>5. CASE UNCHANGED vars
  BY <1>5 DEF vars, PoolInv, PoolType, TypeOK, TypesAgree, HasInfo
<1> QED  BY <1>1, <1>2, <1>3, <1>4, <1>5 DEF Next

LEMMA AlwaysPool == Spec => []PoolInv
BY InitPool, NextPool, PTL DEF Spec

\* The variables keep their types, for all inputs and orders, through link time
\* optimization and to the output.
THEOREM TypeCorrect == Spec => []TypeOK
<1>1. PoolInv => TypeOK
  BY DEF PoolInv, PoolType
<1> QED  BY AlwaysPool, <1>1, PTL

\* No order of inputs brings symbols of one name together that are thread local and
\* not: the first that does not fit is refused before the pool has changed
\* (NamePool.cpp:402), and what was merged of a name never loses its type.
THEOREM TypesNeverMix == Spec => []ThreadLocalityAgrees
<1>1. PoolInv => ThreadLocalityAgrees
  BY DEF PoolInv, PoolType, TypeOK, TypesAgree, ThreadLocalityAgrees
<1> QED  BY AlwaysPool, <1>1, PTL

------------------------------------------------------------------------------
\* Strong definitions.

LEMMA SameOrdinate ==
  ASSUME NEW a, NEW b, a.desc = b.desc, a.binding = b.binding, a.dyn = b.dyn
  PROVE  getOrdinate(a) = getOrdinate(b)
BY DEF getOrdinate, isAbsolute, isCommon, isUndef, isDefine, isWeak

\* What comes from a shared library is not strong, what comes from elsewhere is
\* none of the ordinates of libraries.
LEMMA OrdinateOfLibrary ==
  ASSUME NEW s \in ResolveInfos
  PROVE  getOrdinate(s) \in {"d_U", "wd_U", "d_D", "wd_D", "Cs"} <=> s.dyn
BY DEF getOrdinate, ResolveInfos, Descs, isAbsolute, isCommon, isUndef, isDefine, isWeak

\* The table where a strong definition is read, or is in the pool, and where a library
\* defines what the pool only refers to.
LEMMA StrongInTable ==
  ASSUME NEW row \in Ordinates, NEW col \in Ordinates
  PROVE  /\ row = "D" => LinkAction(row, col) \in
                           {IF col = "D" THEN "MDEF" ELSE IF col \in Commons THEN "CDEF" ELSE "DEF"}
         /\ row # "D" => LinkAction(row, col) # "MDEF"
         /\ row # "D" /\ col = "D" => LinkAction(row, col) \in {"NOACT", "CREF"}
         /\ LinkAction(row, col) \in {"MDEFD", "MDEFWD"} => row \in DynDefs
<1> USE DEF LinkAction, DynUndefs, DynDefs, Undefs, Commons
<1>1. CASE row \in {"U", "w_U"}
  BY <1>1
<1>2. CASE row \in {"d_U", "wd_U"}
  BY <1>2
<1>3. CASE row = "D"
  BY <1>3
<1>4. CASE row = "w_D"
  BY <1>4
<1>5. CASE row \in {"d_D", "wd_D"}
  BY <1>5
<1>6. CASE row = "C"
  BY <1>6
<1>7. CASE row \in {"w_C", "Cs"}
  BY <1>7
<1> QED  BY <1>1, <1>2, <1>3, <1>4, <1>5, <1>6, <1>7 DEF Ordinates

\* A strong definition stays what it is, or is replaced by an equal absolute one.
LEMMA StrongStays ==
  ASSUME NEW old \in ResolveInfos, NEW new \in ResolveInfos, NEW postLTO \in BOOLEAN,
         getOrdinate(old) = "D"
  PROVE  LET r == resolve(old, new, postLTO)
         IN  \/ Kept(r.info, old) /\ r.diag = "none" /\ getOrdinate(new) # "D"
             \/ /\ getOrdinate(new) = "D"
                /\ IF SameAbsolute(old, new) THEN Kept(r.info, new) /\ r.diag = "none"
                   ELSE Kept(r.info, old) /\ r.diag # "none"
<1>1. getOrdinate(new) \in Ordinates
  BY OrdinateType
<1>2. CASE getOrdinate(new) = "D"
  <2>1. ActionFor(old, new) = "MDEF"
    BY <1>1, <1>2, StrongInTable DEF ActionFor, Ordinates
  <2> QED  BY <1>2, <2>1, ResolveDefinitions DEF Kept
<1>3. CASE getOrdinate(new) # "D"
  <2>1. ActionFor(old, new) \in {"NOACT", "CREF"}
    BY <1>1, <1>3, StrongInTable DEF ActionFor, Ordinates
  <2> QED  BY <1>3, <2>1, ResolveKeeps
<1> QED  BY <1>2, <1>3

\* Nothing but a strong definition makes a symbol a strong definition.
LEMMA StrongComes ==
  ASSUME NEW old \in ResolveInfos, NEW new \in ResolveInfos, NEW postLTO \in BOOLEAN,
         getOrdinate(old) # "D"
  PROVE  LET r == resolve(old, new, postLTO)
         IN  /\ r.diag = "none"
             /\ IF getOrdinate(new) = "D" THEN Kept(r.info, new) ELSE getOrdinate(r.info) # "D"
<1> DEFINE r == resolve(old, new, postLTO)
<1>1. getOrdinate(new) \in Ordinates /\ getOrdinate(old) \in Ordinates
  BY OrdinateType
<1>2. CASE getOrdinate(new) = "D"
  <2>1. ActionFor(old, new) \in {"CDEF", "DEF"}
    BY <1>1, <1>2, StrongInTable DEF ActionFor
  <2> QED  BY <1>2, <2>1, ResolveTakes DEF OverrideActions
<1>3. CASE getOrdinate(new) # "D"
  <2>1. ActionFor(old, new) \in LinkActions \ {"MDEF"}
    <3>1. ActionFor(old, new) # "MDEF"
      BY <1>1, <1>3, StrongInTable DEF ActionFor
    <3> QED  BY <1>1, <3>1, ActionType DEF ActionFor
  <2>2. CASE ActionFor(old, new) \in {"NOACT", "DUND", "DUNDW", "CREF"}
    <3>1. Kept(r.info, old) /\ r.diag = "none"
      BY <2>2, ResolveKeeps
    <3>2. getOrdinate(r.info) = getOrdinate(old)
      BY <3>1, SameOrdinate DEF Kept
    <3> QED  BY <1>3, <3>1, <3>2
  <2>3. CASE ActionFor(old, new) \in OverrideActions \cup {"CDEF"}
    <3>1. Kept(r.info, new) /\ r.diag = "none"
      BY <2>3, ResolveTakes
    <3>2. getOrdinate(r.info) = getOrdinate(new)
      BY <3>1, SameOrdinate DEF Kept
    <3> QED  BY <1>3, <3>1, <3>2
  <2>4. CASE ActionFor(old, new) \in {"BIG", "MBIG"}
    BY <1>3, <2>4, ResolveCommons, SameOrdinate
  <2>5. CASE ActionFor(old, new) \in {"MDEFD", "MDEFWD"}
    <3>1. getOrdinate(new) \in {"d_D", "wd_D"}
      BY <1>1, <2>5, StrongInTable DEF ActionFor, DynDefs
    <3>2. new.dyn
      BY <3>1, OrdinateOfLibrary
    <3>3. Kept(r.info, old) \/ r.info.dyn
      BY <2>5, <3>2, ResolveDynDefined
    <3>4. r.info \in ResolveInfos /\ r.diag = "none"
      BY <2>5, ResolveDynDefined
    <3>5. Kept(r.info, old) => getOrdinate(r.info) = getOrdinate(old)
      BY SameOrdinate DEF Kept
    <3>6. r.info.dyn => getOrdinate(r.info) # "D"
      <4> HIDE DEF r
      <4> QED  BY <3>4, OrdinateOfLibrary
    <3>7. getOrdinate(r.info) # "D"
      BY <3>3, <3>5, <3>6
    <3> QED  BY <1>3, <3>4, <3>7
  <2> QED  BY <1>3, <2>1, <2>2, <2>3, <2>4, <2>5 DEF LinkActions
<1> QED  BY <1>2, <1>3

\* While the inputs are read, a name that is in the pool is resolved by the table.
LEMMA ReadByTable ==
  ASSUME PoolInv, NEW n \in Names, NEW new, Reading(n)
  PROVE  /\ pool[n] \in ResolveInfos
         /\ insertNonLocalSymbol(n, new) = resolve(pool[n], new, FALSE)
<1>1. pool[n] \in ResolveInfos
  BY DEF PoolInv, PoolType, TypeOK, Reading, HasInfo
<1>2. ~OverrideByLto(n, new) /\ (phase = "postLTO") = FALSE
  BY DEF OverrideByLto, Reading
<1> QED  BY <1>1, <1>2 DEF insertNonLocalSymbol, Reading

\* What is asked of the symbol that follows a strong definition.
Final(old, info) ==
  /\ getOrdinate(info) = "D" /\ info.value = old.value
  /\ isAbsolute(old) \/ (info.origin = old.origin /\ info.size = old.size)

LEMMA FinalWhenInserted ==
  ASSUME PoolInv, NEW n \in Names, NEW new \in ResolveInfos, Reading(n),
         getOrdinate(pool[n]) = "D"
  PROVE  Final(pool[n], insertNonLocalSymbol(n, new).info)
<1> DEFINE r == resolve(pool[n], new, FALSE)
<1>1. pool[n] \in ResolveInfos /\ insertNonLocalSymbol(n, new) = r
  BY ReadByTable
<1>2. \/ Kept(r.info, pool[n])
      \/ getOrdinate(new) = "D" /\ SameAbsolute(pool[n], new) /\ Kept(r.info, new)
  BY <1>1, StrongStays
<1>3. CASE Kept(r.info, pool[n])
  <2>1. getOrdinate(r.info) = getOrdinate(pool[n])
    BY <1>3, SameOrdinate DEF Kept
  <2> QED  BY <1>1, <1>3, <2>1 DEF Kept, Final
<1>4. CASE getOrdinate(new) = "D" /\ SameAbsolute(pool[n], new) /\ Kept(r.info, new)
  <2>1. getOrdinate(r.info) = getOrdinate(new)
    BY <1>4, SameOrdinate DEF Kept
  <2> QED  BY <1>1, <1>4, <2>1 DEF Kept, Final, SameAbsolute
<1> QED  BY <1>2, <1>3, <1>4

\* What an insertion makes of the pool: one entry is resolved, up to the export mark.
LEMMA OneEntryChanges ==
  ASSUME PoolInv, [Next]_vars, phase = "read"
  PROVE  \/ UNCHANGED <<pool, read, diags>>
         \/ \E m \in Names : \E new \in ResolveInfos :
              /\ Resolvable(m, new) /\ ~HasRead(m, new.origin)
              /\ new.dyn <=> new.origin \in Libs
              /\ new.bitcode <=> new.origin \in BitcodeFiles
              /\ LET r == insertNonLocalSymbol(m, new)
                 IN  /\ \E info \in ResolveInfos :
                          /\ pool' = [pool EXCEPT ![m] = info]
                          /\ Kept(info, r.info) /\ info.vis = r.info.vis
                     /\ read' = [read EXCEPT ![m] = @ \cup {new}]
                     /\ diags' = IF r.diag = "none" \/ new.dyn THEN diags ELSE diags \cup {m}
<1>1. ASSUME NEW m \in Names, NEW f \in Files, NEW s \in InputSymbols,
             LET new == createInputSymbolRI(s, f)
             IN  Resolvable(m, new) /\ ~HasRead(m, f) /\ Insert(m, new),
             f \notin Libs
      PROVE  \E new \in ResolveInfos :
               /\ Resolvable(m, new) /\ ~HasRead(m, new.origin)
               /\ new.dyn <=> new.origin \in Libs
               /\ new.bitcode <=> new.origin \in BitcodeFiles
               /\ LET r == insertNonLocalSymbol(m, new)
                  IN  /\ \E info \in ResolveInfos :
                           /\ pool' = [pool EXCEPT ![m] = info]
                           /\ Kept(info, r.info) /\ info.vis = r.info.vis
                      /\ read' = [read EXCEPT ![m] = @ \cup {new}]
                      /\ diags' = IF r.diag = "none" \/ new.dyn THEN diags ELSE diags \cup {m}
  <2> DEFINE new == createInputSymbolRI(s, f)
             r == insertNonLocalSymbol(m, new)
  <2>1. /\ new \in ResolveInfos /\ new.origin = f
        /\ new.dyn <=> f \in Libs
        /\ new.bitcode <=> f \in BitcodeFiles
    BY InputSymbolType DEF createInputSymbolRI
  <2>2. ~new.dyn
    BY <1>1, <2>1
  <2>3. /\ pool' = [pool EXCEPT ![m] = r.info] /\ read' = [read EXCEPT ![m] = @ \cup {new}]
        /\ diags' = IF r.diag = "none" THEN diags ELSE diags \cup {m}
    BY <1>1 DEF Insert
  <2>4. r.info \in ResolveInfos
    BY <1>1, <2>1, InsertedType DEF PoolInv
  <2>5. Kept(r.info, r.info)
    BY <2>4 DEF Kept
  <2>6. Resolvable(m, new) /\ ~HasRead(m, new.origin)
    BY <1>1, <2>1
  <2> HIDE DEF new
  <2> QED  BY <2>1, <2>2, <2>3, <2>4, <2>5, <2>6
<1>2. ASSUME NEW m \in Names, NEW l \in Libs, NEW s \in LibSymbols, addSymbolFromDynObj(l, m, s),
             ~FailToInsert(m, createInputSymbolRI(s, l))
      PROVE  \E new \in ResolveInfos :
               /\ Resolvable(m, new) /\ ~HasRead(m, new.origin)
               /\ new.dyn <=> new.origin \in Libs
               /\ new.bitcode <=> new.origin \in BitcodeFiles
               /\ LET r == insertNonLocalSymbol(m, new)
                  IN  /\ \E info \in ResolveInfos :
                           /\ pool' = [pool EXCEPT ![m] = info]
                           /\ Kept(info, r.info) /\ info.vis = r.info.vis
                      /\ read' = [read EXCEPT ![m] = @ \cup {new}]
                      /\ diags' = IF r.diag = "none" \/ new.dyn THEN diags ELSE diags \cup {m}
  <2> DEFINE new == createInputSymbolRI(s, l)
             r == insertNonLocalSymbol(m, new)
             out == IF r.override /\ outSym[m] # NoFile THEN l ELSE outSym[m]
             exports == ~BuildsLibrary /\ (HasFragRef(m, out) \/ isCommon(r.info))
             info == [r.info EXCEPT !.exportToDyn = @ \/ exports]
  <2>1. /\ new \in ResolveInfos /\ new.origin = l
        /\ new.dyn <=> l \in Libs
        /\ new.bitcode <=> l \in BitcodeFiles
    BY FilesAssumption, SymbolsAssumption, InputSymbolType DEF createInputSymbolRI
  <2>2. /\ pool' = [pool EXCEPT ![m] = info] /\ read' = [read EXCEPT ![m] = @ \cup {new}]
        /\ diags' = diags /\ Resolvable(m, new) /\ ~HasRead(m, l)
    BY <1>2 DEF addSymbolFromDynObj
  <2>3. r.info \in ResolveInfos
    BY <2>1, <2>2, InsertedType DEF PoolInv
  <2>4. info \in ResolveInfos /\ Kept(info, r.info) /\ info.vis = r.info.vis
    <3>1. (r.info.exportToDyn \/ exports) \in BOOLEAN
      OBVIOUS
    <3> HIDE DEF r, exports
    <3> QED  BY <2>3, <3>1 DEF Kept, ResolveInfos
  <2> HIDE DEF new, info
  <2> QED  BY <2>1, <2>2, <2>4
<1>3. ASSUME NEW m \in Names, NEW f \in Objs \cup LTOObjs, NEW s \in ObjSymbols[f],
             addSymbolFromObject(f, m, s), ~FailToInsert(m, createInputSymbolRI(s, f))
      PROVE  /\ f \in Files /\ f \notin Libs /\ s \in InputSymbols
             /\ LET new == createInputSymbolRI(s, f)
                IN  Resolvable(m, new) /\ ~HasRead(m, f) /\ Insert(m, new)
  BY <1>3, FilesAssumption, SymbolsAssumption DEF addSymbolFromObject
<1>4. ASSUME NEW m \in Names, NEW f \in BitcodeFiles, NEW s \in BitcodeSymbols,
             addSymbolFromBitCode(f, m, s), ~FailToInsert(m, createInputSymbolRI(s, f))
      PROVE  /\ f \in Files /\ f \notin Libs /\ s \in InputSymbols
             /\ LET new == createInputSymbolRI(s, f)
                IN  Resolvable(m, new) /\ ~HasRead(m, f) /\ Insert(m, new)
  BY <1>4, FilesAssumption, SymbolsAssumption DEF addSymbolFromBitCode
<1>5. ASSUME NEW m \in Names, NEW new, FailToInsert(m, new)
      PROVE  UNCHANGED <<pool, read, diags>>
  BY <1>5 DEF FailToInsert
<1>6. CASE beginPostLTO \/ addSymbolsToOutput \/ UNCHANGED vars
  BY <1>6 DEF beginPostLTO, addSymbolsToOutput, vars
<1> QED  BY <1>1, <1>2, <1>3, <1>4, <1>5, <1>6 DEF Next

LEMMA NextFinal ==
  ASSUME PoolInv, [Next]_vars, NEW n \in Names, Reading(n), getOrdinate(pool[n]) = "D"
  PROVE  Final(pool[n], pool'[n])
<1>1. CASE UNCHANGED <<pool, read, diags>>
  BY <1>1 DEF Final
<1>2. CASE ~UNCHANGED <<pool, read, diags>>
  <2>1. PICK m \in Names, new \in ResolveInfos, info \in ResolveInfos :
          /\ pool' = [pool EXCEPT ![m] = info]
          /\ Kept(info, insertNonLocalSymbol(m, new).info)
    BY <1>2, OneEntryChanges DEF Reading
  <2>2. CASE m = n
    <3>1. pool'[n] = info
      BY <2>1, <2>2 DEF PoolInv, PoolType, TypeOK
    <3>2. Final(pool[n], insertNonLocalSymbol(n, new).info)
      BY FinalWhenInserted
    <3>3. getOrdinate(info) = getOrdinate(insertNonLocalSymbol(n, new).info)
      BY <2>1, <2>2, SameOrdinate DEF Kept
    <3> QED  BY <2>1, <2>2, <3>1, <3>2, <3>3 DEF Final, Kept
  <2>3. CASE m # n
    <3>1. pool'[n] = pool[n]
      BY <2>1, <2>3 DEF PoolInv, PoolType, TypeOK
    <3> QED  BY <3>1 DEF Final
  <2> QED  BY <2>2, <2>3
<1> QED  BY <1>1, <1>2

\* Before link time optimization a strong definition, once chosen, is final, for
\* every set of inputs and every order in which they are read; so the output does
\* not depend on what comes after the first one.
THEOREM StrongIsFinal == Spec => StrongDefinitionIsFinal
<1> DEFINE A == \A n \in Names : Reading(n) /\ getOrdinate(pool[n]) = "D" =>
                  /\ getOrdinate(pool'[n]) = "D" /\ pool'[n].value = pool[n].value
                  /\ isAbsolute(pool[n])
                       \/ (pool'[n].origin = pool[n].origin /\ pool'[n].size = pool[n].size)
<1>1. PoolInv /\ [Next]_vars => [A]_vars
  BY NextFinal DEF Final
<1> QED  BY AlwaysPool, <1>1, PTL DEF Spec, StrongDefinitionIsFinal

LEMMA NeverReadAgain ==
  ASSUME PoolInv, [Next]_vars, phase' = "read"
  PROVE  phase = "read"
<1>1. ASSUME NEW m \in Names, NEW new, FailToInsert(m, new)
      PROVE  phase' = phase
  BY <1>1 DEF FailToInsert
<1>2. ASSUME NEW m \in Names, NEW f, NEW s,
             addSymbolFromObject(f, m, s) \/ addSymbolFromBitCode(f, m, s) \/ addSymbolFromDynObj(f, m, s)
      PROVE  phase' = phase
  BY <1>1, <1>2 DEF addSymbolFromObject, addSymbolFromBitCode, addSymbolFromDynObj
<1>3. ~beginPostLTO /\ ~addSymbolsToOutput
  BY DEF beginPostLTO, addSymbolsToOutput
<1> QED  BY <1>2, <1>3 DEF Next, vars

LEMMA OnlyStrongDiagnosed ==
  ASSUME PoolInv, phase = "read", NEW n \in Names, NEW new \in ResolveInfos,
         insertNonLocalSymbol(n, new).diag # "none"
  PROVE  ~new.dyn
<1>1. HasInfo(n)
  BY DEF insertNonLocalSymbol, Resolution
<1>2. pool[n] \in ResolveInfos /\ insertNonLocalSymbol(n, new) = resolve(pool[n], new, FALSE)
  BY <1>1, ReadByTable DEF Reading
<1>3. getOrdinate(new) = "D"
  <2> DEFINE r == resolve(pool[n], new, FALSE)
  <2>1. r.diag # "none"
    BY <1>2
  <2>2. getOrdinate(pool[n]) = "D"
    BY <1>2, <2>1, StrongComes
  <2> QED  BY <1>2, <2>1, <2>2, StrongStays
<1> QED  BY <1>3, OrdinateOfLibrary

\* Two definitions of one name that cannot both be linked.
Clash(s, t) == s.origin # t.origin /\ ~SameAbsolute(s, t)

\* What ties the diagnostics of a name, its entry and its history together: every input
\* has said one thing of the name; the entry is a strong definition exactly if one was
\* read, and is then one of those read; a clash among those read has been reported.
StrongInv(n) ==
  /\ \A s, t \in read[n] : s.origin = t.origin => s = t
  /\ \A s \in StrongDefinitions(n) : HasInfo(n) /\ getOrdinate(pool[n]) = "D"
  /\ HasInfo(n) /\ getOrdinate(pool[n]) = "D"
       => \E s \in StrongDefinitions(n) : Kept(pool[n], s)
  /\ n \in diags <=> \E s, t \in StrongDefinitions(n) : Clash(s, t)

DefinitionsInv == phase = "read" => \A n \in Names : StrongInv(n)

\* An entry follows the symbol inserted for it, and nothing else of the name changes.
Entered(n, new, info, diagnosed) ==
  /\ pool'[n] = info
  /\ read'[n] = read[n] \cup {new}
  /\ n \in diags' <=> n \in diags \/ diagnosed

LEMMA StrongSame ==
  ASSUME NEW info, NEW s, Kept(info, s)
  PROVE  /\ getOrdinate(info) = getOrdinate(s)
         /\ \A t : SameAbsolute(info, t) <=> SameAbsolute(s, t)
<1>1. getOrdinate(info) = getOrdinate(s)
  BY SameOrdinate DEF Kept
<1> QED  BY <1>1 DEF Kept, SameAbsolute, isAbsolute

\* A symbol that is no strong definition leaves all of this alone.
LEMMA OtherSymbolKeepsStrong ==
  ASSUME PoolInv, NEW n \in Names, StrongInv(n), NEW new \in ResolveInfos, NEW info \in ResolveInfos,
         getOrdinate(new) # "D", ~HasRead(n, new.origin), Entered(n, new, info, FALSE),
         IF HasInfo(n) /\ getOrdinate(pool[n]) = "D" THEN Kept(info, pool[n])
         ELSE getOrdinate(info) # "D"
  PROVE  StrongInv(n)'
<1>1. StrongDefinitions(n)' = StrongDefinitions(n)
  BY DEF StrongDefinitions, Entered
<1>2. \A s, t \in read'[n] : s.origin = t.origin => s = t
  BY DEF StrongInv, HasRead, Entered
<1>3. HasInfo(n)' /\ pool'[n] = info
  BY NoInfoIsNone DEF HasInfo, Entered
<1>4. getOrdinate(pool'[n]) = "D" <=> HasInfo(n) /\ getOrdinate(pool[n]) = "D"
  BY <1>3, StrongSame
<1>5. HasInfo(n) /\ getOrdinate(pool[n]) = "D" => \E s \in StrongDefinitions(n) : Kept(pool'[n], s)
  <2> SUFFICES ASSUME HasInfo(n) /\ getOrdinate(pool[n]) = "D"
               PROVE  \E s \in StrongDefinitions(n) : Kept(pool'[n], s)
    OBVIOUS
  <2>1. PICK s \in StrongDefinitions(n) : Kept(pool[n], s)
    BY DEF StrongInv
  <2> QED  BY <1>3, <2>1 DEF Kept
<1>6. n \in diags' <=> n \in diags
  BY DEF Entered
<1> QED  BY <1>1, <1>2, <1>3, <1>4, <1>5, <1>6 DEF StrongInv

\* The first strong definition takes the entry.
LEMMA FirstStrongKeepsStrong ==
  ASSUME PoolInv, NEW n \in Names, StrongInv(n), NEW new \in ResolveInfos, NEW info,
         getOrdinate(new) = "D", ~HasRead(n, new.origin), Entered(n, new, info, FALSE),
         ~(HasInfo(n) /\ getOrdinate(pool[n]) = "D"), Kept(info, new)
  PROVE  StrongInv(n)'
<1>1. StrongDefinitions(n) = {} /\ StrongDefinitions(n)' = {new}
  BY DEF StrongInv, StrongDefinitions, Entered
<1>2. \A s, t \in read'[n] : s.origin = t.origin => s = t
  BY DEF StrongInv, HasRead, Entered
<1>3. HasInfo(n)' /\ pool'[n] = info
  BY NoInfoIsNone DEF HasInfo, Entered, Kept
<1>4. getOrdinate(pool'[n]) = "D"
  BY <1>3, StrongSame
<1>5. n \notin diags' /\ ~ \E s, t \in StrongDefinitions(n)' : Clash(s, t)
  BY <1>1 DEF Clash, StrongInv, Entered
<1> QED  BY <1>1, <1>2, <1>3, <1>4, <1>5 DEF StrongInv

\* A second one clashes with the one in the entry, or is equal to it and then clashes
\* with none that the first one does not clash with.
LEMMA NextStrongKeepsStrong ==
  ASSUME PoolInv, NEW n \in Names, StrongInv(n), NEW new \in ResolveInfos, NEW info,
         getOrdinate(new) = "D", ~HasRead(n, new.origin),
         HasInfo(n), getOrdinate(pool[n]) = "D",
         Entered(n, new, info, ~SameAbsolute(pool[n], new)),
         Kept(info, IF SameAbsolute(pool[n], new) THEN new ELSE pool[n])
  PROVE  StrongInv(n)'
<1>1. PICK first \in StrongDefinitions(n) : Kept(pool[n], first)
  BY DEF StrongInv
<1>2. StrongDefinitions(n)' = StrongDefinitions(n) \cup {new}
  BY DEF StrongDefinitions, Entered
<1>3. \A s, t \in read'[n] : s.origin = t.origin => s = t
  BY DEF StrongInv, HasRead, Entered
<1>4. HasInfo(n)' /\ pool'[n] = info
  BY NoInfoIsNone DEF HasInfo, Entered, Kept
<1>5. getOrdinate(pool'[n]) = "D"
  BY <1>4, StrongSame
<1>6. \E s \in StrongDefinitions(n)' : Kept(pool'[n], s)
  <2>1. CASE SameAbsolute(pool[n], new)
    BY <1>2, <1>4, <2>1
  <2>2. CASE ~SameAbsolute(pool[n], new)
    BY <1>1, <1>2, <1>4, <2>2 DEF Kept
  <2> QED  BY <2>1, <2>2
<1>7. first.origin # new.origin /\ (SameAbsolute(first, new) <=> SameAbsolute(pool[n], new))
  BY <1>1, StrongSame DEF HasRead, StrongDefinitions
<1>8. n \in diags' <=> \E s, t \in StrongDefinitions(n)' : Clash(s, t)
  <2>1. CASE ~SameAbsolute(pool[n], new)
    BY <1>1, <1>2, <1>7, <2>1 DEF Clash, Entered
  <2>2. CASE SameAbsolute(pool[n], new)
    <3>1. n \in diags' <=> n \in diags
      BY <2>2 DEF Entered
    <3>2. ASSUME NEW s \in StrongDefinitions(n), Clash(s, new) \/ Clash(new, s)
          PROVE  Clash(s, first)
      <4>1. ~SameAbsolute(s, first)
        BY <1>7, <2>2, <3>2 DEF Clash, SameAbsolute
      <4>2. s # first
        BY <1>7, <2>2, <4>1 DEF SameAbsolute
      <4>3. s \in read[n] /\ first \in read[n]
        BY <1>1 DEF StrongDefinitions
      <4> QED  BY <4>1, <4>2, <4>3 DEF Clash, StrongInv
    <3>3. ~Clash(new, new)
      BY DEF Clash
    <3>4. ASSUME NEW s \in StrongDefinitions(n)', NEW t \in StrongDefinitions(n)', Clash(s, t)
          PROVE  \E u, v \in StrongDefinitions(n) : Clash(u, v)
      BY <1>1, <1>2, <3>2, <3>3, <3>4
    <3> QED  BY <1>2, <3>1, <3>4 DEF StrongInv
  <2> QED  BY <2>1, <2>2
<1> QED  BY <1>2, <1>3, <1>4, <1>5, <1>6, <1>8 DEF StrongInv

LEMMA InsertionKeepsStrong ==
  ASSUME PoolInv, phase = "read", NEW n \in Names, StrongInv(n),
         NEW new \in ResolveInfos, ~HasRead(n, new.origin),
         NEW info, Kept(info, insertNonLocalSymbol(n, new).info),
         Entered(n, new, info, insertNonLocalSymbol(n, new).diag # "none")
  PROVE  StrongInv(n)'
<1> DEFINE r == insertNonLocalSymbol(n, new)
<1>1. info \in ResolveInfos
  BY DEF Kept
<1>2. CASE ~HasInfo(n)
  <2>1. r.info = new /\ r.diag = "none"
    BY <1>2 DEF insertNonLocalSymbol, Resolution
  <2>2. Kept(info, new) /\ Entered(n, new, info, FALSE)
    BY <2>1 DEF Entered
  <2>3. getOrdinate(info) = getOrdinate(new)
    BY <2>2, StrongSame
  <2> QED  BY <1>1, <1>2, <2>2, <2>3, OtherSymbolKeepsStrong, FirstStrongKeepsStrong
<1>3. CASE HasInfo(n)
  <2>1. pool[n] \in ResolveInfos /\ r = resolve(pool[n], new, FALSE)
    BY <1>3, ReadByTable DEF Reading
  <2>2. getOrdinate(info) = getOrdinate(r.info)
    BY StrongSame
  <2>3. CASE getOrdinate(pool[n]) # "D"
    <3>1. r.diag = "none" /\ IF getOrdinate(new) = "D" THEN Kept(r.info, new) ELSE getOrdinate(r.info) # "D"
      BY <2>1, <2>3, StrongComes
    <3>2. Entered(n, new, info, FALSE)
      BY <3>1 DEF Entered
    <3>3. getOrdinate(new) = "D" => Kept(info, new)
      BY <3>1 DEF Kept
    <3> HIDE DEF r
    <3> QED  BY <1>1, <2>2, <2>3, <3>1, <3>2, <3>3, OtherSymbolKeepsStrong, FirstStrongKeepsStrong
  <2>4. CASE getOrdinate(pool[n]) = "D" /\ getOrdinate(new) # "D"
    <3>1. Kept(r.info, pool[n]) /\ r.diag = "none"
      BY <2>1, <2>4, StrongStays
    <3>2. Entered(n, new, info, FALSE) /\ Kept(info, pool[n])
      BY <3>1 DEF Entered, Kept
    <3> QED  BY <1>1, <1>3, <2>4, <3>2, OtherSymbolKeepsStrong
  <2>5. CASE getOrdinate(pool[n]) = "D" /\ getOrdinate(new) = "D"
    <3>1. /\ Kept(r.info, IF SameAbsolute(pool[n], new) THEN new ELSE pool[n])
          /\ r.diag # "none" <=> ~SameAbsolute(pool[n], new)
      BY <2>1, <2>5, StrongStays
    <3>2. /\ Kept(info, IF SameAbsolute(pool[n], new) THEN new ELSE pool[n])
          /\ Entered(n, new, info, ~SameAbsolute(pool[n], new))
      BY <3>1 DEF Entered, Kept
    <3> QED  BY <1>3, <2>5, <3>2, NextStrongKeepsStrong
  <2> QED  BY <2>3, <2>4, <2>5
<1> QED  BY <1>2, <1>3

LEMMA InitDefinitions == Init => DefinitionsInv
BY DEF Init, DefinitionsInv, StrongInv, StrongDefinitions, HasInfo

LEMMA NextDefinitions == PoolInv /\ DefinitionsInv /\ [Next]_vars => DefinitionsInv'
<1> SUFFICES ASSUME PoolInv, DefinitionsInv, [Next]_vars, phase' = "read", NEW n \in Names
             PROVE  StrongInv(n)'
  BY DEF DefinitionsInv
<1>1. phase = "read"
  BY NeverReadAgain
<1>2. StrongInv(n)
  BY <1>1 DEF DefinitionsInv
<1>3. CASE UNCHANGED <<pool, read, diags>>
  BY <1>2, <1>3 DEF StrongInv, StrongDefinitions, HasInfo
<1>4. CASE ~UNCHANGED <<pool, read, diags>>
  <2>1. PICK m \in Names, new \in ResolveInfos, info \in ResolveInfos :
          LET r == insertNonLocalSymbol(m, new)
          IN  /\ ~HasRead(m, new.origin)
              /\ pool' = [pool EXCEPT ![m] = info] /\ Kept(info, r.info)
              /\ read' = [read EXCEPT ![m] = @ \cup {new}]
              /\ diags' = IF r.diag = "none" \/ new.dyn THEN diags ELSE diags \cup {m}
    BY <1>1, <1>4, OneEntryChanges
  <2>2. CASE m # n
    <3>1. pool'[n] = pool[n] /\ read'[n] = read[n] /\ (n \in diags' <=> n \in diags)
      BY <2>1, <2>2 DEF PoolInv, PoolType, TypeOK
    <3> QED  BY <1>2, <3>1 DEF StrongInv, StrongDefinitions, HasInfo
  <2>3. CASE m = n
    <3>1. insertNonLocalSymbol(n, new).diag # "none" => ~new.dyn
      BY <1>1, OnlyStrongDiagnosed
    <3>2. Entered(n, new, info, insertNonLocalSymbol(n, new).diag # "none")
      BY <2>1, <2>3, <3>1 DEF Entered, PoolInv, PoolType, TypeOK
    <3> QED  BY <1>1, <1>2, <2>1, <2>3, <3>2, InsertionKeepsStrong
  <2> QED  BY <2>2, <2>3
<1> QED  BY <1>3, <1>4

\* Two inputs that cannot both define a name are reported while the inputs are read,
\* and nothing else is: however many inputs lie between the two and whatever was
\* merged meanwhile (StaticResolver.cpp:278).
THEOREM ClashesDiagnosed == Spec => []MultipleDefinitionsDiagnosed
<1>1. DefinitionsInv => MultipleDefinitionsDiagnosed
  BY DEF DefinitionsInv, StrongInv, MultipleDefinitionsDiagnosed, Clash, SameAbsolute, Reading
<1> QED  BY AlwaysPool, InitDefinitions, NextDefinitions, <1>1, PTL DEF Spec

------------------------------------------------------------------------------
\* Commons.

\* The table where a common is read or is in the pool.
LEMMA CommonInTable ==
  ASSUME NEW row \in Ordinates, NEW col \in Ordinates
  PROVE  /\ row = "C" => LinkAction(row, col) =
              IF col = "D" THEN "CREF" ELSE IF col = "C" THEN "MBIG"
              ELSE IF col = "Cs" THEN "BIG" ELSE "COM"
         /\ row # "C" /\ col = "C" => LinkAction(row, col) =
              IF row = "D" THEN "CDEF" ELSE IF row = "Cs" THEN "MBIG" ELSE "NOACT"
         /\ LinkAction(row, col) \in {"BIG", "MBIG"} => row \in {"C", "Cs"} /\ col \in Commons
<1> USE DEF LinkAction, DynUndefs, DynDefs, Undefs, Commons
<1>1. CASE row \in {"U", "w_U"}
  BY <1>1
<1>2. CASE row \in {"d_U", "wd_U"}
  BY <1>2
<1>3. CASE row = "D"
  BY <1>3
<1>4. CASE row = "w_D"
  BY <1>4
<1>5. CASE row \in {"d_D", "wd_D"}
  BY <1>5
<1>6. CASE row = "C"
  BY <1>6
<1>7. CASE row \in {"w_C", "Cs"}
  BY <1>7
<1> QED  BY <1>1, <1>2, <1>3, <1>4, <1>5, <1>6, <1>7 DEF Ordinates

LEMMA CommonOrdinates ==
  ASSUME NEW s \in ResolveInfos
  PROVE  getOrdinate(s) \in Commons => isCommon(s)
BY DEF getOrdinate, Commons, ResolveInfos, Descs, isAbsolute, isCommon, isUndef, isDefine, isWeak

\* Where the size and the file of a merged symbol come from.
LEMMA SizeComesFromOne ==
  ASSUME NEW old \in ResolveInfos, NEW new \in ResolveInfos, NEW postLTO \in BOOLEAN
  PROVE  LET info == resolve(old, new, postLTO).info
         IN  /\ info \in ResolveInfos
             /\ isCommon(info) => \E s \in {old, new} :
                  isCommon(s) /\ info.size = s.size /\ info.origin = s.origin
<1> DEFINE r == resolve(old, new, postLTO)
<1>1. getOrdinate(new) \in Ordinates /\ getOrdinate(old) \in Ordinates
  BY OrdinateType
<1>2. ActionFor(old, new) \in LinkActions
  BY <1>1, ActionType DEF ActionFor
<1>3. CASE ActionFor(old, new) \in {"NOACT", "DUND", "DUNDW", "CREF"}
  BY <1>3, ResolveKeeps DEF Kept, isCommon
<1>4. CASE ActionFor(old, new) \in OverrideActions \cup {"CDEF"}
  BY <1>4, ResolveTakes DEF Kept, isCommon
<1>5. CASE ActionFor(old, new) \in {"BIG", "MBIG"}
  <2>1. isCommon(old) /\ isCommon(new)
    <3>1. getOrdinate(new) \in {"C", "Cs"} /\ getOrdinate(old) \in Commons
      BY <1>1, <1>5, CommonInTable DEF ActionFor
    <3> QED  BY <3>1, CommonOrdinates DEF Commons
  <2> QED  BY <1>5, <2>1, ResolveCommons
<1>6. CASE ActionFor(old, new) \in {"MDEFD", "MDEFWD"}
  BY <1>6, ResolveDynDefined DEF Kept, isCommon
<1>7. CASE ActionFor(old, new) = "MDEF"
  BY <1>7, ResolveDefinitions DEF Kept, isCommon
<1> QED  BY <1>2, <1>3, <1>4, <1>5, <1>6, <1>7 DEF LinkActions

\* A common that is read takes the entry, or leaves a strong definition there.
LEMMA CommonComes ==
  ASSUME NEW old \in ResolveInfos, NEW new \in ResolveInfos, NEW postLTO \in BOOLEAN,
         getOrdinate(new) = "C"
  PROVE  LET info == resolve(old, new, postLTO).info
         IN  IF getOrdinate(old) = "D" THEN getOrdinate(info) = "D"
             ELSE getOrdinate(info) = "C" /\ new.size <= info.size
                  /\ (getOrdinate(old) = "C" => old.size <= info.size)
<1> DEFINE r == resolve(old, new, postLTO)
<1>1. getOrdinate(old) \in Ordinates /\ "C" \in Ordinates
  BY OrdinateType DEF Ordinates
<1>2. old.size \in Nat /\ new.size \in Nat
  BY SizesAssumption DEF ResolveInfos
<1>3. CASE getOrdinate(old) = "D"
  <2>1. ActionFor(old, new) = "CREF"
    BY <1>1, <1>3, CommonInTable DEF ActionFor
  <2>2. Kept(r.info, old)
    BY <2>1, ResolveKeeps
  <2> QED  BY <1>3, <2>2, StrongSame
<1>4. CASE getOrdinate(old) \in {"C", "Cs"}
  <2>1. ActionFor(old, new) = IF getOrdinate(old) = "C" THEN "MBIG" ELSE "BIG"
    BY <1>1, <1>4, CommonInTable DEF ActionFor
  <2> DEFINE from == IF ActionFor(old, new) = "BIG" THEN new ELSE old
  <2>2. /\ r.info.desc = from.desc /\ r.info.binding = from.binding /\ r.info.dyn = from.dyn
        /\ r.info.size = IF old.size < new.size THEN new.size ELSE old.size
    BY <2>1, ResolveCommons
  <2>3. getOrdinate(r.info) = getOrdinate(from)
    BY <2>2, SameOrdinate
  <2>4. getOrdinate(from) = "C"
    BY <1>4, <2>1
  <2>5. new.size <= r.info.size /\ old.size <= r.info.size
    BY <1>2, <2>2
  <2> QED  BY <1>4, <2>3, <2>4, <2>5
<1>5. CASE getOrdinate(old) \notin {"D", "C", "Cs"}
  <2>1. ActionFor(old, new) = "COM"
    BY <1>1, <1>5, CommonInTable DEF ActionFor
  <2>2. Kept(r.info, new)
    BY <2>1, ResolveTakes DEF OverrideActions
  <2>3. getOrdinate(r.info) = "C" /\ r.info.size = new.size
    BY <2>2, StrongSame DEF Kept
  <2> QED  BY <1>2, <1>5, <2>3
<1> QED  BY <1>3, <1>4, <1>5

\* A common in the entry gives way to a strong definition only, and never shrinks.
LEMMA CommonStays ==
  ASSUME NEW old \in ResolveInfos, NEW new \in ResolveInfos, NEW postLTO \in BOOLEAN,
         getOrdinate(old) = "C", getOrdinate(new) # "C"
  PROVE  LET info == resolve(old, new, postLTO).info
         IN  \/ getOrdinate(info) = "D"
             \/ getOrdinate(info) = "C" /\ old.size <= info.size
<1> DEFINE r == resolve(old, new, postLTO)
<1>1. getOrdinate(new) \in Ordinates /\ "C" \in Ordinates
  BY OrdinateType DEF Ordinates
<1>2. old.size \in Nat /\ new.size \in Nat
  BY SizesAssumption DEF ResolveInfos
<1>3. CASE getOrdinate(new) = "D"
  <2>1. Kept(r.info, new)
    BY <1>3, StrongComes
  <2> QED  BY <1>3, <2>1, StrongSame
<1>4. CASE getOrdinate(new) = "Cs"
  <2>1. ActionFor(old, new) = "MBIG"
    BY <1>1, <1>4, CommonInTable DEF ActionFor
  <2>2. /\ r.info.desc = old.desc /\ r.info.binding = old.binding /\ r.info.dyn = old.dyn
        /\ r.info.size = IF old.size < new.size THEN new.size ELSE old.size
    BY <2>1, ResolveCommons
  <2>3. getOrdinate(r.info) = "C"
    BY <2>2, SameOrdinate
  <2>4. old.size <= r.info.size
    BY <1>2, <2>2
  <2> QED  BY <2>3, <2>4
<1>5. CASE getOrdinate(new) \notin {"D", "Cs"}
  <2>1. ActionFor(old, new) = "NOACT"
    BY <1>1, <1>5, CommonInTable DEF ActionFor
  <2>2. Kept(r.info, old)
    BY <2>1, ResolveKeeps
  <2>3. getOrdinate(r.info) = "C" /\ r.info.size = old.size
    BY <2>2, StrongSame DEF Kept
  <2> QED  BY <1>2, <2>3
<1> QED  BY <1>3, <1>4, <1>5

\* A common once read leaves a common or a strong definition in the entry; the common is
\* at least as large as each of them; and any common there has the size and the file of
\* one that was read.
CommonInv(n) ==
  /\ \A s \in read[n] : getOrdinate(s) = "C" =>
       /\ HasInfo(n) /\ getOrdinate(pool[n]) \in {"C", "D"}
       /\ getOrdinate(pool[n]) = "C" => s.size <= pool[n].size
  /\ HasInfo(n) /\ isCommon(pool[n]) =>
       \E s \in read[n] : isCommon(s) /\ s.size = pool[n].size /\ s.origin = pool[n].origin

CommonsInv == phase = "read" => \A n \in Names : CommonInv(n)

LEMMA InsertionKeepsCommons ==
  ASSUME PoolInv, phase = "read", NEW n \in Names, CommonInv(n),
         NEW new \in ResolveInfos, NEW info, Kept(info, insertNonLocalSymbol(n, new).info),
         pool'[n] = info, read'[n] = read[n] \cup {new}
  PROVE  CommonInv(n)'
<1> DEFINE r == insertNonLocalSymbol(n, new)
<1>1. /\ info \in ResolveInfos /\ HasInfo(n)'
      /\ getOrdinate(info) = getOrdinate(r.info)
      /\ info.size = r.info.size /\ info.origin = r.info.origin /\ (isCommon(info) <=> isCommon(r.info))
  BY NoInfoIsNone, StrongSame DEF HasInfo, Kept, isCommon
<1>2. new.size \in Nat /\ info.size \in Nat /\ \A s \in read[n] : s.size \in Nat
  BY <1>1, SizesAssumption DEF ResolveInfos, PoolInv, PoolType, TypeOK
<1>3. CASE ~HasInfo(n)
  <2>1. r.info = new
    BY <1>3 DEF insertNonLocalSymbol, Resolution
  <2>2. read'[n] = {new}
    BY <1>3 DEF PoolInv, PoolType, TypeOK
  <2> HIDE DEF r
  <2> QED  BY <1>1, <1>2, <2>1, <2>2 DEF CommonInv
<1>4. CASE HasInfo(n)
  <2>1. pool[n] \in ResolveInfos /\ r = resolve(pool[n], new, FALSE)
    BY <1>4, ReadByTable DEF Reading
  <2>2. pool[n].size \in Nat
    BY <2>1, SizesAssumption DEF ResolveInfos
  <2>3. isCommon(info) => \E s \in {pool[n], new} :
          isCommon(s) /\ info.size = s.size /\ info.origin = s.origin
    <3>1. isCommon(resolve(pool[n], new, FALSE).info) => \E s \in {pool[n], new} :
            /\ isCommon(s) /\ resolve(pool[n], new, FALSE).info.size = s.size
            /\ resolve(pool[n], new, FALSE).info.origin = s.origin
      BY <2>1, SizeComesFromOne
    <3> HIDE DEF r
    <3> QED  BY <1>1, <2>1, <3>1
  <2>4. isCommon(info) => \E s \in read'[n] :
          isCommon(s) /\ s.size = info.size /\ s.origin = info.origin
    BY <1>4, <2>3 DEF CommonInv
  <2>5. CASE getOrdinate(new) = "C"
    <3>1. IF getOrdinate(pool[n]) = "D" THEN getOrdinate(info) = "D"
          ELSE getOrdinate(info) = "C" /\ new.size <= info.size
               /\ (getOrdinate(pool[n]) = "C" => pool[n].size <= info.size)
      <4> DEFINE merged == resolve(pool[n], new, FALSE).info
      <4>1. IF getOrdinate(pool[n]) = "D" THEN getOrdinate(merged) = "D"
            ELSE getOrdinate(merged) = "C" /\ new.size <= merged.size
                 /\ (getOrdinate(pool[n]) = "C" => pool[n].size <= merged.size)
        BY <2>1, <2>5, CommonComes
      <4>2. getOrdinate(info) = getOrdinate(merged) /\ info.size = merged.size
        BY <1>1, <2>1
      <4> HIDE DEF merged
      <4> QED  BY <4>1, <4>2
    <3>2. ASSUME NEW s \in read[n], getOrdinate(s) = "C"
          PROVE  getOrdinate(info) = "C" => s.size <= info.size
      <4>1. getOrdinate(pool[n]) \in {"C", "D"} /\ (getOrdinate(pool[n]) = "C" => s.size <= pool[n].size)
        BY <3>2 DEF CommonInv
      <4>2. ASSUME getOrdinate(info) = "C" PROVE getOrdinate(pool[n]) = "C" /\ pool[n].size <= info.size
        BY <3>1, <4>1, <4>2
      <4> QED  BY <1>2, <2>2, <4>1, <4>2
    <3> QED  BY <1>1, <2>4, <2>5, <3>1, <3>2 DEF CommonInv
  <2>6. CASE getOrdinate(new) # "C" /\ getOrdinate(pool[n]) = "C"
    <3>1. \/ getOrdinate(info) = "D"
          \/ getOrdinate(info) = "C" /\ pool[n].size <= info.size
      BY <1>1, <2>1, <2>6, CommonStays
    <3>2. ASSUME NEW s \in read[n], getOrdinate(s) = "C"
          PROVE  getOrdinate(info) = "C" => s.size <= info.size
      BY <1>2, <2>2, <2>6, <3>1, <3>2 DEF CommonInv
    <3> QED  BY <1>1, <2>4, <2>6, <3>1, <3>2 DEF CommonInv
  <2>7. CASE getOrdinate(new) # "C" /\ getOrdinate(pool[n]) = "D"
    <3>1. getOrdinate(info) = "D"
      BY <1>4, <2>7, FinalWhenInserted, <1>1 DEF Reading, Final
    <3> QED  BY <1>1, <2>4, <2>7, <3>1 DEF CommonInv
  <2>8. CASE getOrdinate(new) # "C" /\ getOrdinate(pool[n]) \notin {"C", "D"}
    BY <1>1, <2>4, <2>8 DEF CommonInv
  <2> QED  BY <2>5, <2>6, <2>7, <2>8
<1> QED  BY <1>3, <1>4

LEMMA InitCommons == Init => CommonsInv
BY DEF Init, CommonsInv, CommonInv, HasInfo

LEMMA NextCommons == PoolInv /\ CommonsInv /\ [Next]_vars => CommonsInv'
<1> SUFFICES ASSUME PoolInv, CommonsInv, [Next]_vars, phase' = "read", NEW n \in Names
             PROVE  CommonInv(n)'
  BY DEF CommonsInv
<1>1. phase = "read" /\ CommonInv(n)
  BY NeverReadAgain DEF CommonsInv
<1>2. CASE UNCHANGED <<pool, read, diags>>
  BY <1>1, <1>2 DEF CommonInv, HasInfo
<1>3. CASE ~UNCHANGED <<pool, read, diags>>
  <2>1. PICK m \in Names, new \in ResolveInfos, info \in ResolveInfos :
          /\ pool' = [pool EXCEPT ![m] = info] /\ Kept(info, insertNonLocalSymbol(m, new).info)
          /\ read' = [read EXCEPT ![m] = @ \cup {new}]
    BY <1>1, <1>3, OneEntryChanges
  <2>2. CASE m # n
    <3>1. pool'[n] = pool[n] /\ read'[n] = read[n]
      BY <2>1, <2>2 DEF PoolInv, PoolType, TypeOK
    <3> QED  BY <1>1, <3>1 DEF CommonInv, HasInfo
  <2>3. CASE m = n
    <3>1. pool'[n] = info /\ read'[n] = read[n] \cup {new}
      BY <2>1, <2>3 DEF PoolInv, PoolType, TypeOK
    <3> QED  BY <1>1, <2>1, <2>3, <3>1, InsertionKeepsCommons
  <2> QED  BY <2>2, <2>3
<1> QED  BY <1>2, <1>3

\* The common that is left of all that objects, bitcode files and libraries said of a
\* name is as large as the largest, and is credited to a file that brought that size,
\* whatever weak symbols and commons of libraries came between (StaticResolver.cpp:212).
THEOREM CommonsGrow == Spec => []CommonIsLargest
<1>1. PoolInv /\ CommonsInv => CommonIsLargest
  <2> SUFFICES ASSUME PoolInv, CommonsInv, NEW n \in Names, Reading(n), getOrdinate(pool[n]) = "C"
               PROVE  /\ \A s \in read[n] : getOrdinate(s) = "C" => s.size <= pool[n].size
                      /\ \E s \in read[n] :
                           isCommon(s) /\ s.size = pool[n].size /\ s.origin = pool[n].origin
    BY DEF CommonIsLargest
  <2>1. CommonInv(n) /\ HasInfo(n)
    BY DEF CommonsInv, Reading
  <2>2. isCommon(pool[n])
    BY <2>1, CommonOrdinates DEF PoolInv, PoolType, TypeOK, HasInfo, Commons
  <2> QED  BY <2>1, <2>2 DEF CommonInv
<1> QED  BY AlwaysPool, InitCommons, NextCommons, <1>1, PTL DEF Spec

------------------------------------------------------------------------------
\* The marks and the visibility of a merged symbol.

\* What an action may do to the bitcode mark, the visibility and the export mark.
Merged(info, old, new) ==
  /\ info.bitcode => old.bitcode \/ new.bitcode
  /\ info.vis \in {old.vis, new.vis, MostConstrained(old.vis, new.vis)}
  /\ ~old.dyn /\ ~new.dyn => info.vis = MostConstrained(old.vis, new.vis)
  /\ old.exportToDyn /\ new.vis = Default => info.exportToDyn
  /\ new.dyn /\ new.exportToDyn /\ old.vis = Default /\ new.vis = Default
       => info.exportToDyn \/ isCommon(info)

LEMMA MarkLeaves ==
  ASSUME NEW old \in ResolveInfos, NEW cond \in BOOLEAN
  PROVE  LET info == MarkForLTO(old, cond)
         IN  /\ info \in ResolveInfos /\ info.vis = old.vis /\ info.bitcode = old.bitcode
             /\ info.exportToDyn = old.exportToDyn /\ info.dyn = old.dyn /\ info.desc = old.desc
BY DEF MarkForLTO, ResolveInfos

LEMMA VisibilityLeaves ==
  ASSUME NEW old \in ResolveInfos, NEW new \in ResolveInfos
  PROVE  LET info == overrideVisibility(old, new)
         IN  /\ info \in ResolveInfos /\ info.vis = MostConstrained(old.vis, new.vis)
             /\ info.bitcode = old.bitcode /\ info.exportToDyn = old.exportToDyn
             /\ info.dyn = old.dyn /\ info.desc = old.desc
<1>1. MostConstrained(old.vis, new.vis) \in Visibilities
  BY ConstrainedIsVisibility DEF ResolveInfos
<1> QED  BY <1>1 DEF overrideVisibility, ResolveInfos

LEMMA AttributesLeave ==
  ASSUME NEW old \in ResolveInfos, NEW new \in ResolveInfos, NEW origin \in BOOLEAN
  PROVE  \A info \in {overrideAttributes(old, new), override(old, new, origin)} :
           /\ info \in ResolveInfos /\ info.vis = old.vis /\ info.bitcode = new.bitcode
           /\ info.dyn = new.dyn /\ info.desc = new.desc
           /\ info.exportToDyn <=> new.exportToDyn \/ (old.exportToDyn /\ new.vis = Default)
<1> DEFINE export == new.exportToDyn \/ (old.exportToDyn /\ canBePreemptible(new))
<1>1. export \in BOOLEAN /\ (export <=> new.exportToDyn \/ (old.exportToDyn /\ new.vis = Default))
  BY DEF canBePreemptible, ResolveInfos
<1>2. overrideAttributes(old, new) =
        [new EXCEPT !.vis = old.vis, !.preserve = old.preserve, !.size = old.size,
                    !.value = old.value, !.origin = old.origin, !.exportToDyn = export]
  BY DEF overrideAttributes
<1> HIDE DEF export
<1>3. /\ overrideAttributes(old, new) \in ResolveInfos
      /\ overrideAttributes(old, new).vis = old.vis
      /\ overrideAttributes(old, new).bitcode = new.bitcode
      /\ overrideAttributes(old, new).dyn = new.dyn /\ overrideAttributes(old, new).desc = new.desc
      /\ overrideAttributes(old, new).exportToDyn = export
  BY <1>1, <1>2 DEF ResolveInfos
<1>4. /\ override(old, new, origin) \in ResolveInfos
      /\ override(old, new, origin).vis = old.vis
      /\ override(old, new, origin).bitcode = new.bitcode
      /\ override(old, new, origin).dyn = new.dyn /\ override(old, new, origin).desc = new.desc
      /\ override(old, new, origin).exportToDyn = export
  BY <1>3 DEF override, ResolveInfos
<1> QED  BY <1>1, <1>3, <1>4

LEMMA NoActionMerges ==
  ASSUME NEW old \in ResolveInfos, NEW new \in ResolveInfos, NEW postLTO \in BOOLEAN
  PROVE  /\ Merged(NoAction(old, new, postLTO).info, old, new)
         /\ NoAction(old, new, postLTO).info.bitcode => old.bitcode
<1> DEFINE cond == ~postLTO /\ ~new.bitcode /\ old.bitcode /\ ~isUndef(old)
           preserved == MarkForLTO(old, cond)
           seen == IF ~postLTO /\ isUndef(old) /\ ~new.bitcode /\ isUndef(new)
                   THEN [preserved EXCEPT !.bitcode = FALSE] ELSE preserved
           merged == overrideVisibilityUnlessDyn(seen, new)
           exported == canBePreemptible(merged) /\ new.dyn /\ canBePreemptible(new)
           shown == [merged EXCEPT !.exportToDyn = @ \/ exported]
<1>1. /\ preserved \in ResolveInfos /\ preserved.vis = old.vis /\ preserved.bitcode = old.bitcode
      /\ preserved.exportToDyn = old.exportToDyn /\ preserved.dyn = old.dyn
  <2>1. cond \in BOOLEAN
    OBVIOUS
  <2> HIDE DEF cond
  <2> QED  BY <2>1, MarkLeaves
<1>2. /\ seen \in ResolveInfos /\ seen.vis = old.vis /\ (seen.bitcode => old.bitcode)
      /\ seen.exportToDyn = old.exportToDyn /\ seen.dyn = old.dyn
  <2> HIDE DEF preserved
  <2> QED  BY <1>1 DEF ResolveInfos
<1>3. /\ merged \in ResolveInfos /\ (merged.bitcode => old.bitcode)
      /\ merged.vis = IF old.dyn THEN old.vis ELSE MostConstrained(old.vis, new.vis)
      /\ merged.exportToDyn = old.exportToDyn
  <2> HIDE DEF seen
  <2> QED  BY <1>2, VisibilityLeaves DEF overrideVisibilityUnlessDyn
<1>4. /\ shown.bitcode = merged.bitcode /\ shown.vis = merged.vis
      /\ shown.exportToDyn <=> merged.exportToDyn \/ exported
  <2> HIDE DEF merged, exported
  <2> QED  BY <1>3 DEF ResolveInfos
<1>5. old.vis = Default /\ new.vis = Default => merged.vis = Default
  <2> HIDE DEF merged
  <2> QED  BY <1>3 DEF MostConstrained
<1>6. NoAction(old, new, postLTO).info = shown
  BY DEF NoAction, Resolution
<1>7. exported <=> merged.vis = Default /\ new.dyn /\ new.vis = Default
  BY DEF canBePreemptible
<1> HIDE DEF merged, exported, shown
<1> QED  BY <1>3, <1>4, <1>5, <1>6, <1>7 DEF Merged

LEMMA OverrideByMerges ==
  ASSUME NEW old \in ResolveInfos, NEW new \in ResolveInfos, NEW postLTO \in BOOLEAN
  PROVE  /\ Merged(OverrideBy(old, new, postLTO).info, old, new)
         /\ OverrideBy(old, new, postLTO).info.bitcode = new.bitcode
<1> DEFINE strongOverWeak ==
             /\ ~isCommon(old) /\ ~isCommon(new)
             /\ isWeak(old) /\ ~isWeak(new) /\ old.bitcode /\ ~new.bitcode
           dropped == IF ~postLTO /\ strongOverWeak
                      THEN [old EXCEPT !.bitcode = FALSE, !.preserve = FALSE] ELSE old
           cond == /\ ~postLTO
                   /\ \/ ~old.bitcode /\ new.bitcode /\ isUndef(old)
                      \/ ~new.bitcode /\ dropped.bitcode /\ ~isUndef(old)
                      \/ new.bitcode /\ ~isUndef(new) /\ ~old.bitcode
           marked == MarkForLTO(dropped, cond)
           taken == override(marked, new, TRUE)
<1>1. dropped \in ResolveInfos /\ dropped.vis = old.vis /\ dropped.exportToDyn = old.exportToDyn
  BY DEF ResolveInfos
<1>2. marked \in ResolveInfos /\ marked.vis = old.vis /\ marked.exportToDyn = old.exportToDyn
  <2>1. cond \in BOOLEAN
    OBVIOUS
  <2> HIDE DEF dropped, cond
  <2> QED  BY <1>1, <2>1, MarkLeaves
<1>3. /\ taken \in ResolveInfos /\ taken.vis = old.vis /\ taken.bitcode = new.bitcode
      /\ taken.dyn = new.dyn
      /\ taken.exportToDyn <=> new.exportToDyn \/ (old.exportToDyn /\ new.vis = Default)
  <2> HIDE DEF marked
  <2> QED  BY <1>2, AttributesLeave
<1>4. OverrideBy(old, new, postLTO).info = overrideVisibilityUnlessDyn(taken, new)
  BY DEF OverrideBy, Resolution
<1> HIDE DEF taken
<1> QED  BY <1>3, <1>4, VisibilityLeaves DEF Merged, overrideVisibilityUnlessDyn

LEMMA MarkDynDefinedMerges ==
  ASSUME NEW old \in ResolveInfos, NEW new \in ResolveInfos, NEW postLTO \in BOOLEAN,
         new.dyn
  PROVE  Merged(MarkDynDefined(old, new, postLTO).info, old, new)
<1>1. CASE old.vis # Default
  BY <1>1, NoActionMerges DEF MarkDynDefined
<1>2. CASE old.vis = Default
  <2> DEFINE taken == override(old, new, TRUE)
  <2>1. /\ taken \in ResolveInfos /\ taken.vis = old.vis /\ taken.bitcode = new.bitcode
        /\ taken.exportToDyn <=> new.exportToDyn \/ (old.exportToDyn /\ new.vis = Default)
    BY AttributesLeave
  <2>2. MarkDynDefined(old, new, postLTO).info =
          IF isWeakUndef(old) THEN [taken EXCEPT !.binding = "Weak"] ELSE taken
    BY <1>2 DEF MarkDynDefined, Resolution
  <2> HIDE DEF taken
  <2> QED  BY <2>1, <2>2 DEF Merged, ResolveInfos
<1> QED  BY <1>1, <1>2

LEMMA LargerCommonLeaves ==
  ASSUME NEW old \in ResolveInfos, NEW new \in ResolveInfos, NEW postLTO \in BOOLEAN
  PROVE  LET info == LargerCommon(old, new, postLTO).info
         IN  /\ info \in ResolveInfos /\ info.vis = old.vis
             /\ info.bitcode => old.bitcode \/ new.bitcode
             /\ info.exportToDyn = old.exportToDyn /\ info.dyn = old.dyn /\ info.desc = old.desc
<1> DEFINE sized == IF old.size < new.size
                    THEN [old EXCEPT !.size = new.size, !.bitcode = new.bitcode,
                                     !.origin = new.origin]
                    ELSE old
           cond == ~postLTO /\ old.bitcode # new.bitcode
<1>1. /\ sized \in ResolveInfos /\ sized.vis = old.vis /\ (sized.bitcode => old.bitcode \/ new.bitcode)
      /\ sized.exportToDyn = old.exportToDyn /\ sized.dyn = old.dyn /\ sized.desc = old.desc
  BY DEF ResolveInfos
<1>2. cond \in BOOLEAN
  OBVIOUS
<1>3. LargerCommon(old, new, postLTO).info = MarkForLTO(sized, cond)
  BY DEF LargerCommon
<1> HIDE DEF sized, cond
<1> QED  BY <1>1, <1>2, <1>3, MarkLeaves

\* The rows of the table that no symbol of a library has.
LEMMA RowsOfObjects ==
  ASSUME NEW row \in Ordinates, NEW col \in Ordinates
  PROVE  /\ LinkAction(row, col) \in {"DUND", "DUNDW"} => row \in {"U", "w_U"} /\ col \in DynDefs
         /\ LinkAction(row, col) = "CREF" => row = "C"
         /\ LinkAction(row, col) = "CDEF" => row = "D"
         /\ LinkAction(row, col) = "BIG" => row = "C" /\ col = "Cs"
         /\ LinkAction(row, col) = "MDEF" => row = "D" /\ col = "D"
         /\ LinkAction(row, col) \in {"MDEFD", "MDEFWD"} => row \in DynDefs
<1> USE DEF LinkAction, DynUndefs, DynDefs, Undefs, Commons
<1>1. CASE row \in {"U", "w_U"}
  BY <1>1
<1>2. CASE row \in {"d_U", "wd_U"}
  BY <1>2
<1>3. CASE row = "D"
  BY <1>3
<1>4. CASE row = "w_D"
  BY <1>4
<1>5. CASE row \in {"d_D", "wd_D"}
  BY <1>5
<1>6. CASE row = "C"
  BY <1>6
<1>7. CASE row \in {"w_C", "Cs"}
  BY <1>7
<1> QED  BY <1>1, <1>2, <1>3, <1>4, <1>5, <1>6, <1>7 DEF Ordinates

\* Whatever is merged, the marks and the visibility come from the two symbols.
LEMMA ResolveMerges ==
  ASSUME NEW old \in ResolveInfos, NEW new \in ResolveInfos, NEW postLTO \in BOOLEAN
  PROVE  LET r == resolve(old, new, postLTO)
         IN  r.diag = "none" => Merged(r.info, old, new)
<1> DEFINE r == resolve(old, new, postLTO)
           action == ActionFor(old, new)
           m == LargerCommon(old, new, postLTO).info
<1> SUFFICES ASSUME r.diag = "none" PROVE Merged(r.info, old, new)
  OBVIOUS
<1>1. getOrdinate(new) \in Ordinates /\ getOrdinate(old) \in Ordinates
  BY OrdinateType
<1>2. action \in LinkActions
  BY <1>1, ActionType DEF ActionFor
<1>3. CASE action = "NOACT"
  <2>1. r = NoAction(old, new, postLTO)
    BY <1>3 DEF resolve, ActionFor
  <2> QED  BY <2>1, NoActionMerges
<1>4. CASE action \in OverrideActions
  <2>1. r = OverrideBy(old, new, postLTO)
    BY <1>4 DEF resolve, ActionFor, OverrideActions
  <2> QED  BY <2>1, OverrideByMerges
<1>5. CASE action \in {"MDEFD", "MDEFWD"}
  <2>1. r = MarkDynDefined(old, new, postLTO)
    BY <1>5 DEF resolve, ActionFor
  <2>2. new.dyn
    <3>1. getOrdinate(new) \in DynDefs
      BY <1>1, <1>5, RowsOfObjects DEF ActionFor
    <3> QED  BY <3>1, OrdinateOfLibrary DEF DynDefs
  <2> QED  BY <2>1, <2>2, MarkDynDefinedMerges
<1>6. CASE action \in {"DUND", "DUNDW"}
  <2>1. r.info = [old EXCEPT !.vis = new.vis]
    BY <1>6 DEF resolve, ActionFor, Resolution
  <2>2. old.dyn /\ ~new.dyn
    <3>1. getOrdinate(new) \in {"U", "w_U"} /\ getOrdinate(old) \in DynDefs
      BY <1>1, <1>6, RowsOfObjects DEF ActionFor
    <3> QED  BY <3>1, OrdinateOfLibrary DEF DynDefs
  <2> HIDE DEF r
  <2> QED  BY <2>1, <2>2 DEF Merged, ResolveInfos
<1>7. CASE action = "CREF"
  <2> DEFINE marked == MarkForLTO(old, ~postLTO /\ ~new.bitcode /\ old.bitcode)
  <2>1. r.info = overrideVisibility(marked, new)
    BY <1>7 DEF resolve, ActionFor, Resolution
  <2>2. ~new.dyn
    <3>1. getOrdinate(new) = "C"
      BY <1>1, <1>7, RowsOfObjects DEF ActionFor
    <3> QED  BY <3>1, OrdinateOfLibrary
  <2>3. /\ marked \in ResolveInfos /\ marked.vis = old.vis /\ marked.bitcode = old.bitcode
        /\ marked.exportToDyn = old.exportToDyn
    <3>1. (~postLTO /\ ~new.bitcode /\ old.bitcode) \in BOOLEAN
      OBVIOUS
    <3> QED  BY <3>1, MarkLeaves
  <2> HIDE DEF r, marked
  <2> QED  BY <2>1, <2>2, <2>3, VisibilityLeaves DEF Merged
<1>8. CASE action = "CDEF"
  <2> DEFINE cond == ~postLTO /\ (new.bitcode \/ old.bitcode)
             marked == MarkForLTO(old, cond)
             taken == override(marked, new, TRUE)
  <2>1. r.info = overrideVisibility(taken, new)
    BY <1>8 DEF resolve, ActionFor, Resolution
  <2>2. ~new.dyn
    <3>1. getOrdinate(new) = "D"
      BY <1>1, <1>8, RowsOfObjects DEF ActionFor
    <3> QED  BY <3>1, OrdinateOfLibrary
  <2>3. marked \in ResolveInfos /\ marked.vis = old.vis /\ marked.exportToDyn = old.exportToDyn
    <3>1. cond \in BOOLEAN
      OBVIOUS
    <3> HIDE DEF cond
    <3> QED  BY <3>1, MarkLeaves
  <2>4. /\ taken \in ResolveInfos /\ taken.vis = old.vis /\ taken.bitcode = new.bitcode
        /\ taken.exportToDyn <=> new.exportToDyn \/ (old.exportToDyn /\ new.vis = Default)
    <3> HIDE DEF marked
    <3> QED  BY <2>3, AttributesLeave
  <2> HIDE DEF r, taken
  <2> QED  BY <2>1, <2>2, <2>4, VisibilityLeaves DEF Merged
<1>9. CASE action = "BIG"
  <2> DEFINE all == overrideAttributes(m, new)
  <2>1. r.info = overrideVisibility(all, new)
    BY <1>9 DEF resolve, ActionFor, Resolution
  <2>2. ~new.dyn
    <3>1. getOrdinate(new) = "C"
      BY <1>1, <1>9, RowsOfObjects DEF ActionFor
    <3> QED  BY <3>1, OrdinateOfLibrary
  <2>3. m \in ResolveInfos /\ m.vis = old.vis /\ m.exportToDyn = old.exportToDyn
    BY LargerCommonLeaves
  <2>4. /\ all \in ResolveInfos /\ all.vis = old.vis /\ all.bitcode = new.bitcode
        /\ all.exportToDyn <=> new.exportToDyn \/ (old.exportToDyn /\ new.vis = Default)
    <3> HIDE DEF m
    <3> QED  BY <2>3, AttributesLeave
  <2> HIDE DEF r, all
  <2> QED  BY <2>1, <2>2, <2>4, VisibilityLeaves DEF Merged
<1>10. CASE action = "MBIG"
  <2>1. r.info = overrideVisibility(m, new)
    BY <1>10 DEF resolve, ActionFor, Resolution
  <2>2. isCommon(old)
    <3>1. getOrdinate(old) \in Commons
      BY <1>1, <1>10, CommonInTable DEF ActionFor
    <3> QED  BY <3>1, CommonOrdinates
  <2>3. /\ m \in ResolveInfos /\ m.vis = old.vis /\ (m.bitcode => old.bitcode \/ new.bitcode)
        /\ m.exportToDyn = old.exportToDyn /\ m.desc = old.desc
    BY LargerCommonLeaves
  <2> HIDE DEF r, m
  <2> QED  BY <2>1, <2>2, <2>3, VisibilityLeaves DEF Merged, isCommon
<1>11. CASE action = "MDEF"
  <2> DEFINE taken == override(old, new, TRUE)
  <2>1. SameAbsolute(old, new)
    BY <1>11, ResolveDefinitions
  <2>2. r.info = overrideVisibility(taken, new)
    BY <1>11, <2>1 DEF resolve, ActionFor, MultipleDefinition, SameAbsolute, Resolution
  <2>3. ~new.dyn
    <3>1. getOrdinate(new) = "D"
      BY <1>1, <1>11, RowsOfObjects DEF ActionFor
    <3> QED  BY <3>1, OrdinateOfLibrary
  <2>4. /\ taken \in ResolveInfos /\ taken.vis = old.vis /\ taken.bitcode = new.bitcode
        /\ taken.exportToDyn <=> new.exportToDyn \/ (old.exportToDyn /\ new.vis = Default)
    BY AttributesLeave
  <2> HIDE DEF r, taken
  <2> QED  BY <2>2, <2>3, <2>4, VisibilityLeaves DEF Merged
<1> HIDE DEF action, r
<1> QED  BY <1>2, <1>3, <1>4, <1>5, <1>6, <1>7, <1>8, <1>9, <1>10, <1>11 DEF LinkActions

LEMMA LTOResolutionMerges ==
  ASSUME NEW old \in ResolveInfos, NEW new \in ResolveInfos
  PROVE  Merged(LTOResolution(old, new).info, old, new)
<1> DEFINE moved == override(old, new, FALSE)
           sized == [moved EXCEPT !.size = new.size]
           attributes == overrideAttributes(sized, new)
           seen == overrideVisibility(attributes, new)
<1>1. /\ moved \in ResolveInfos /\ moved.vis = old.vis
      /\ moved.exportToDyn <=> new.exportToDyn \/ (old.exportToDyn /\ new.vis = Default)
  BY AttributesLeave
<1>2. /\ sized \in ResolveInfos /\ sized.vis = old.vis
      /\ sized.exportToDyn = moved.exportToDyn
  <2> HIDE DEF moved
  <2> QED  BY <1>1 DEF ResolveInfos
<1>3. /\ attributes \in ResolveInfos /\ attributes.vis = old.vis /\ attributes.bitcode = new.bitcode
      /\ attributes.exportToDyn <=> new.exportToDyn \/ (old.exportToDyn /\ new.vis = Default)
  <2> HIDE DEF moved, sized
  <2> QED  BY <1>1, <1>2, AttributesLeave
<1>4. /\ seen \in ResolveInfos /\ seen.vis = MostConstrained(old.vis, new.vis)
      /\ seen.exportToDyn <=> new.exportToDyn \/ (old.exportToDyn /\ new.vis = Default)
  <2> HIDE DEF attributes
  <2> QED  BY <1>3, VisibilityLeaves
<1>5. LTOResolution(old, new).info = [seen EXCEPT !.binding = new.binding, !.bitcode = new.bitcode]
  BY DEF LTOResolution, Resolution
<1> HIDE DEF seen
<1> QED  BY <1>4, <1>5 DEF Merged, ResolveInfos

LEMMA OriginComesFromOne ==
  ASSUME NEW old \in ResolveInfos, NEW new \in ResolveInfos, NEW postLTO \in BOOLEAN
  PROVE  LET info == resolve(old, new, postLTO).info
         IN  info.origin \in {old.origin, new.origin} /\ info.dyn \in {old.dyn, new.dyn}
<1>1. getOrdinate(new) \in Ordinates /\ getOrdinate(old) \in Ordinates
  BY OrdinateType
<1>2. ActionFor(old, new) \in LinkActions
  BY <1>1, ActionType DEF ActionFor
<1>3. CASE ActionFor(old, new) \in {"NOACT", "DUND", "DUNDW", "CREF"}
  BY <1>3, ResolveKeeps DEF Kept
<1>4. CASE ActionFor(old, new) \in OverrideActions \cup {"CDEF"}
  BY <1>4, ResolveTakes DEF Kept
<1>5. CASE ActionFor(old, new) \in {"BIG", "MBIG"}
  BY <1>5, ResolveCommons
<1>6. CASE ActionFor(old, new) \in {"MDEFD", "MDEFWD"}
  BY <1>6, ResolveDynDefined DEF Kept
<1>7. CASE ActionFor(old, new) = "MDEF"
  BY <1>7, ResolveDefinitions DEF Kept
<1> QED  BY <1>2, <1>3, <1>4, <1>5, <1>6, <1>7 DEF LinkActions

LEMMA LTOKeepsOrigin ==
  ASSUME NEW old \in ResolveInfos, NEW new \in ResolveInfos
  PROVE  LTOResolution(old, new).info.origin = old.origin /\ LTOResolution(old, new).info.dyn = new.dyn
<1> DEFINE moved == override(old, new, FALSE)
           sized == [moved EXCEPT !.size = new.size]
           attributes == overrideAttributes(sized, new)
           seen == overrideVisibility(attributes, new)
<1>1. moved \in ResolveInfos /\ moved.origin = old.origin
  <2>1. moved \in ResolveInfos
    BY AttributesLeave
  <2>2. moved.origin = old.origin
    BY DEF override, overrideAttributes, ResolveInfos
  <2> QED  BY <2>1, <2>2
<1>2. sized \in ResolveInfos /\ sized.origin = old.origin
  <2> HIDE DEF moved
  <2> QED  BY <1>1 DEF ResolveInfos
<1>3. attributes \in ResolveInfos /\ attributes.origin = old.origin /\ attributes.dyn = new.dyn
  <2> HIDE DEF sized
  <2>1. attributes \in ResolveInfos /\ attributes.dyn = new.dyn
    BY <1>2, AttributesLeave
  <2> QED  BY <1>2, <2>1 DEF overrideAttributes, ResolveInfos
<1>4. seen \in ResolveInfos /\ seen.origin = old.origin /\ seen.dyn = new.dyn
  <2> HIDE DEF attributes
  <2> QED  BY <1>3, VisibilityKeeps DEF Kept
<1>5. LTOResolution(old, new).info = [seen EXCEPT !.binding = new.binding, !.bitcode = new.bitcode]
  BY DEF LTOResolution, Resolution
<1> HIDE DEF seen
<1> QED  BY <1>4, <1>5 DEF ResolveInfos

\* A diagnosed definition changes nothing.
LEMMA DiagnosedKeeps ==
  ASSUME NEW old \in ResolveInfos, NEW new \in ResolveInfos, NEW postLTO \in BOOLEAN,
         resolve(old, new, postLTO).diag # "none"
  PROVE  resolve(old, new, postLTO).info = old /\ ~new.dyn
<1>1. getOrdinate(old) = "D"
  BY StrongComes
<1>2. getOrdinate(new) = "D"
  BY <1>1, StrongStays
<1>3. ActionFor(old, new) = "MDEF"
  BY <1>1, <1>2, StrongInTable DEF ActionFor, Ordinates
<1> QED  BY <1>2, <1>3, ResolveDefinitions, OrdinateOfLibrary

\* The same of what is inserted, before and after link time optimization.
LEMMA InsertedMerges ==
  ASSUME PoolInv, NEW n \in Names, NEW new \in ResolveInfos, HasInfo(n)
  PROVE  /\ pool[n] \in ResolveInfos
         /\ insertNonLocalSymbol(n, new).info.origin \in {pool[n].origin, new.origin}
         /\ insertNonLocalSymbol(n, new).info.dyn \in {pool[n].dyn, new.dyn}
         /\ IF insertNonLocalSymbol(n, new).diag = "none"
            THEN Merged(insertNonLocalSymbol(n, new).info, pool[n], new)
            ELSE insertNonLocalSymbol(n, new).info = pool[n] /\ ~new.dyn
<1> DEFINE r == insertNonLocalSymbol(n, new)
<1>1. pool[n] \in ResolveInfos
  BY DEF PoolInv, PoolType, TypeOK, HasInfo
<1>2. CASE OverrideByLto(n, new)
  <2>1. r = LTOResolution(pool[n], new)
    BY <1>2 DEF insertNonLocalSymbol
  <2>2. r.diag = "none"
    BY <2>1 DEF LTOResolution, Resolution
  <2> QED  BY <1>1, <2>1, <2>2, LTOKeepsOrigin, LTOResolutionMerges
<1>3. CASE ~OverrideByLto(n, new)
  <2>1. r = resolve(pool[n], new, phase = "postLTO")
    BY <1>3 DEF insertNonLocalSymbol
  <2>2. (phase = "postLTO") \in BOOLEAN
    OBVIOUS
  <2>3. r.info.origin \in {pool[n].origin, new.origin} /\ r.info.dyn \in {pool[n].dyn, new.dyn}
    BY <1>1, <2>1, <2>2, OriginComesFromOne
  <2>4. r.diag = "none" => Merged(r.info, pool[n], new)
    BY <1>1, <2>1, <2>2, ResolveMerges
  <2>5. r.diag # "none" => r.info = pool[n] /\ ~new.dyn
    <3> DEFINE postLTO == phase = "postLTO"
    <3>1. resolve(pool[n], new, postLTO).diag # "none"
            => resolve(pool[n], new, postLTO).info = pool[n] /\ ~new.dyn
      <4> HIDE DEF postLTO
      <4>1. postLTO \in BOOLEAN
        BY DEF postLTO
      <4> QED  BY <1>1, <4>1, DiagnosedKeeps
    <3> HIDE DEF r
    <3> QED  BY <2>1, <3>1
  <2> QED  BY <1>1, <2>3, <2>4, <2>5
<1> QED  BY <1>2, <1>3

\* The entry of m becomes what was merged, but for the export mark that reading a
\* library may add; a library takes the output symbol only from another file.
EntryMerged(m, new) ==
  LET merged == insertNonLocalSymbol(m, new).info
  IN  \E info \in ResolveInfos :
        /\ pool' = [pool EXCEPT ![m] = info]
        /\ info.vis = merged.vis /\ info.bitcode = merged.bitcode
        /\ info.dyn = merged.dyn /\ info.desc = merged.desc /\ info.origin = merged.origin
        /\ info.binding = merged.binding /\ info.preserve = merged.preserve
        /\ merged.exportToDyn => info.exportToDyn
        /\ new.dyn /\ ~BuildsLibrary /\ isCommon(merged) => info.exportToDyn

OutputTaken(m, new) ==
  \E file : /\ outSym' = [outSym EXCEPT ![m] = file]
            /\ new.dyn /\ file # NoFile => outSym[m] # NoFile

\* A step that reads the symbol new of the name m.
Reads(m, new) ==
  LET r == insertNonLocalSymbol(m, new)
  IN  /\ new \in ResolveInfos /\ ~HasRead(m, new.origin)
      /\ new.dyn <=> new.origin \in Libs
      /\ new.bitcode => ~new.dyn
      /\ new.exportToDyn <=> new.dyn /\ new.vis = Default
      /\ read' = [read EXCEPT ![m] = @ \cup {new}]
      /\ EntryMerged(m, new) /\ OutputTaken(m, new)
      /\ used' = IF new.dyn /\ ResolvesReference(m, r) THEN used \cup {new.origin} ELSE used
      /\ diags' = IF r.diag = "none" \/ new.dyn THEN diags ELSE diags \cup {m}

LEMMA InputSymbolMarks ==
  ASSUME NEW s \in InputSymbols, NEW f \in Files
  PROVE  LET new == createInputSymbolRI(s, f)
         IN  /\ new \in ResolveInfos /\ new.origin = f
             /\ new.dyn <=> new.origin \in Libs
             /\ new.bitcode => ~new.dyn
             /\ new.exportToDyn <=> new.dyn /\ new.vis = Default
BY FilesAssumption, InputSymbolType DEF createInputSymbolRI

LEMMA RegularReads ==
  ASSUME PoolInv, NEW m \in Names, NEW f \in Files \ Libs, NEW s \in InputSymbols,
         Resolvable(m, createInputSymbolRI(s, f)), ~HasRead(m, f),
         Insert(m, createInputSymbolRI(s, f)), UNCHANGED used,
         \E file : outSym' = [outSym EXCEPT ![m] = file]
  PROVE  Reads(m, createInputSymbolRI(s, f))
<1> DEFINE new == createInputSymbolRI(s, f)
           r == insertNonLocalSymbol(m, new)
<1>1. /\ new \in ResolveInfos /\ new.origin = f
      /\ new.dyn <=> new.origin \in Libs
      /\ new.bitcode => ~new.dyn
      /\ new.exportToDyn <=> new.dyn /\ new.vis = Default
  BY InputSymbolMarks
<1>2. /\ pool' = [pool EXCEPT ![m] = r.info]
      /\ diags' = IF r.diag = "none" THEN diags ELSE diags \cup {m}
      /\ read' = [read EXCEPT ![m] = @ \cup {new}]
  BY DEF Insert
<1>3. r.info \in ResolveInfos
  BY <1>1, InsertedType DEF PoolInv
<1>4. ~new.dyn
  BY <1>1
<1> SUFFICES Reads(m, new)
  OBVIOUS
<1>5. EntryMerged(m, new)
  <2> HIDE DEF new
  <2> QED  BY <1>2, <1>3, <1>4 DEF EntryMerged
<1>6. OutputTaken(m, new)
  <2> HIDE DEF new
  <2> QED  BY <1>4 DEF OutputTaken
<1> HIDE DEF new
<1> QED  BY <1>1, <1>2, <1>4, <1>5, <1>6 DEF Reads

LEMMA LibraryReads ==
  ASSUME PoolInv, NEW m \in Names, NEW l \in Libs, NEW s \in LibSymbols,
         addSymbolFromDynObj(l, m, s), ~FailToInsert(m, createInputSymbolRI(s, l))
  PROVE  Reads(m, createInputSymbolRI(s, l))
<1> DEFINE new == createInputSymbolRI(s, l)
           r == insertNonLocalSymbol(m, new)
           out == IF r.override /\ outSym[m] # NoFile THEN l ELSE outSym[m]
           exports == ~BuildsLibrary /\ (HasFragRef(m, out) \/ isCommon(r.info))
           info == [r.info EXCEPT !.exportToDyn = @ \/ exports]
<1>1. /\ new \in ResolveInfos /\ new.origin = l
      /\ new.dyn <=> new.origin \in Libs
      /\ new.bitcode => ~new.dyn
      /\ new.exportToDyn <=> new.dyn /\ new.vis = Default
  BY FilesAssumption, SymbolsAssumption, InputSymbolMarks
<1>2. /\ pool' = [pool EXCEPT ![m] = info] /\ read' = [read EXCEPT ![m] = @ \cup {new}]
      /\ diags' = diags /\ Resolvable(m, new) /\ ~HasRead(m, l)
      /\ used' = IF ResolvesReference(m, r) THEN used \cup {l} ELSE used
      /\ outSym' = [outSym EXCEPT ![m] = out]
  BY DEF addSymbolFromDynObj
<1>3. r.info \in ResolveInfos
  BY <1>1, <1>2, InsertedType DEF PoolInv
<1>4. exports \in BOOLEAN /\ (~BuildsLibrary /\ isCommon(r.info) => exports)
  OBVIOUS
<1>5. /\ info \in ResolveInfos
      /\ info.vis = r.info.vis /\ info.bitcode = r.info.bitcode
      /\ info.dyn = r.info.dyn /\ info.desc = r.info.desc /\ info.origin = r.info.origin
      /\ info.binding = r.info.binding /\ info.preserve = r.info.preserve
      /\ info.exportToDyn = (r.info.exportToDyn \/ exports)
  <2> HIDE DEF r, exports
  <2> QED  BY <1>3, <1>4 DEF ResolveInfos
<1>6. out # NoFile => outSym[m] # NoFile
  OBVIOUS
<1>7. new.dyn
  BY <1>1
<1> SUFFICES Reads(m, new)
  OBVIOUS
<1>8. OutputTaken(m, new)
  <2> HIDE DEF new, out
  <2> QED  BY <1>2, <1>6 DEF OutputTaken
<1>9. EntryMerged(m, new)
  <2> HIDE DEF new, exports, info
  <2> QED  BY <1>2, <1>4, <1>5 DEF EntryMerged
<1>10. /\ used' = IF new.dyn /\ ResolvesReference(m, r) THEN used \cup {new.origin} ELSE used
       /\ diags' = IF r.diag = "none" \/ new.dyn THEN diags ELSE diags \cup {m}
       /\ ~HasRead(m, new.origin) /\ read' = [read EXCEPT ![m] = @ \cup {new}]
  <2> HIDE DEF new, r, out, info
  <2> QED  BY <1>1, <1>2, <1>7
<1> HIDE DEF new, out, exports, info
<1> QED  BY <1>1, <1>8, <1>9, <1>10 DEF Reads

LEMMA StepReads ==
  ASSUME PoolInv, [Next]_vars
  PROVE  \/ UNCHANGED <<pool, read, outSym, used, diags>>
         \/ beginPostLTO \/ addSymbolsToOutput
         \/ \E m \in Names : \E new \in ResolveInfos : Reads(m, new)
<1>1. ASSUME NEW m \in Names, NEW f \in Objs \cup LTOObjs, NEW s \in ObjSymbols[f],
             addSymbolFromObject(f, m, s), ~FailToInsert(m, createInputSymbolRI(s, f))
      PROVE  Reads(m, createInputSymbolRI(s, f))
  <2>1. f \in Files \ Libs /\ s \in InputSymbols
    BY FilesAssumption, SymbolsAssumption
  <2>2. /\ Resolvable(m, createInputSymbolRI(s, f)) /\ ~HasRead(m, f)
        /\ Insert(m, createInputSymbolRI(s, f)) /\ UNCHANGED used
        /\ \E file : outSym' = [outSym EXCEPT ![m] = file]
    BY <1>1 DEF addSymbolFromObject
  <2> QED  BY <2>1, <2>2, RegularReads
<1>2. ASSUME NEW m \in Names, NEW f \in BitcodeFiles, NEW s \in BitcodeSymbols,
             addSymbolFromBitCode(f, m, s), ~FailToInsert(m, createInputSymbolRI(s, f))
      PROVE  Reads(m, createInputSymbolRI(s, f))
  <2>1. f \in Files \ Libs /\ s \in InputSymbols
    BY FilesAssumption, SymbolsAssumption
  <2>2. /\ Resolvable(m, createInputSymbolRI(s, f)) /\ ~HasRead(m, f)
        /\ Insert(m, createInputSymbolRI(s, f)) /\ UNCHANGED used
        /\ \E file : outSym' = [outSym EXCEPT ![m] = file]
    BY <1>2 DEF addSymbolFromBitCode
  <2> QED  BY <2>1, <2>2, RegularReads
<1>3. ASSUME NEW m \in Names, NEW l \in Libs, NEW s \in LibSymbols, addSymbolFromDynObj(l, m, s),
             ~FailToInsert(m, createInputSymbolRI(s, l))
      PROVE  Reads(m, createInputSymbolRI(s, l))
  BY <1>3, LibraryReads
<1>4. ASSUME NEW m \in Names, NEW new, FailToInsert(m, new)
      PROVE  UNCHANGED <<pool, read, outSym, used, diags>>
  BY <1>4 DEF FailToInsert
<1>5. \A m, new : Reads(m, new) => new \in ResolveInfos
  BY DEF Reads
<1> QED  BY <1>1, <1>2, <1>3, <1>4, <1>5 DEF Next, vars

------------------------------------------------------------------------------
\* Shared libraries: which of them are used, and what they make the output export.

\* What an entry, an output symbol and a bitcode mark say of the history.
OriginInv(n) ==
  /\ \A s \in read[n] : s.dyn <=> s.origin \in Libs
  /\ HasInfo(n) => \E s \in read[n] : s.origin = pool[n].origin
  /\ HasInfo(n) /\ pool[n].bitcode => \E s \in read[n] : ~s.dyn
  /\ outSym[n] # NoFile => \E s \in read[n] : ~s.dyn

OriginsInv == (\A n \in Names : OriginInv(n)) /\ UsedLibrariesAreReferenced

LEMMA ReadKeepsOrigin ==
  ASSUME PoolInv, NEW n \in Names, OriginInv(n), NEW m \in Names, NEW new \in ResolveInfos,
         Reads(m, new)
  PROVE  OriginInv(n)'
<1>1. CASE m # n
  <2>1. pool'[n] = pool[n] /\ read'[n] = read[n] /\ outSym'[n] = outSym[n]
    BY <1>1 DEF PoolInv, PoolType, TypeOK, Reads, EntryMerged, OutputTaken
  <2> QED  BY <2>1 DEF OriginInv, HasInfo
<1>2. CASE m = n
  <2> DEFINE r == insertNonLocalSymbol(n, new)
  <2>1. /\ read'[n] = read[n] \cup {new} /\ (new.dyn <=> new.origin \in Libs)
        /\ new.bitcode => ~new.dyn
    BY <1>2 DEF PoolInv, PoolType, TypeOK, Reads
  <2>2. pool'[n].origin = r.info.origin /\ pool'[n].bitcode = r.info.bitcode
    BY <1>2 DEF PoolInv, PoolType, TypeOK, Reads, EntryMerged
  <2>3. outSym'[n] # NoFile => ~new.dyn \/ outSym[n] # NoFile
    BY <1>2 DEF PoolInv, PoolType, TypeOK, Reads, OutputTaken
  <2>4. \/ r.info.origin = new.origin
        \/ HasInfo(n) /\ r.info.origin = pool[n].origin
    BY InsertedMerges DEF insertNonLocalSymbol, Resolution
  <2>5. r.info.bitcode => new.bitcode \/ (HasInfo(n) /\ pool[n].bitcode)
    BY InsertedMerges DEF insertNonLocalSymbol, Resolution, Merged
  <2> HIDE DEF r
  <2> QED  BY <2>1, <2>2, <2>3, <2>4, <2>5 DEF OriginInv
<1> QED  BY <1>1, <1>2

\* What makes a library count as used: it has said something of the name, and so has
\* an object or a library of the output.
Referenced(l, n) ==
  HasRead(n, l) /\ \E s \in read[n] : s.origin # l /\ (s.dyn => isELFNeeded(s.origin))

LEMMA ReferencedForGood ==
  ASSUME NEW l, NEW n, Referenced(l, n), read[n] \subseteq read'[n], used \subseteq used'
  PROVE  Referenced(l, n)'
<1>1. HasRead(n, l)'
  BY DEF Referenced, HasRead
<1>2. PICK s \in read[n] : s.origin # l /\ (s.dyn => isELFNeeded(s.origin))
  BY DEF Referenced
<1>3. s \in read'[n] /\ (s.dyn => isELFNeeded(s.origin)')
  BY <1>2 DEF isELFNeeded
<1> QED  BY <1>1, <1>2, <1>3 DEF Referenced

LEMMA LibraryOfPreserved ==
  ASSUME NEW n \in Names, OriginInv(n), HasInfo(n), pool[n].origin \in Libs,
         outSym[n] # NoFile \/ pool[n].bitcode
  PROVE  Referenced(pool[n].origin, n)
<1>1. PICK s \in read[n] : ~s.dyn
  BY DEF OriginInv
<1>2. s.origin # pool[n].origin
  BY <1>1 DEF OriginInv
<1>3. HasRead(n, pool[n].origin)
  BY DEF OriginInv, HasRead
<1> QED  BY <1>1, <1>2, <1>3 DEF Referenced

LEMMA InitOrigins == Init => OriginsInv
BY DEF Init, OriginsInv, OriginInv, UsedLibrariesAreReferenced, HasInfo

LEMMA NextOrigins == PoolInv /\ OriginsInv /\ [Next]_vars => OriginsInv'
<1> SUFFICES ASSUME PoolInv, OriginsInv, [Next]_vars
             PROVE  OriginsInv'
  OBVIOUS
<1>1. \A l \in used \cap Libs : \E n \in Names : Referenced(l, n)
  BY DEF OriginsInv, UsedLibrariesAreReferenced, Referenced
<1> SUFFICES (\A n \in Names : OriginInv(n)') /\ (\A l \in used' \cap Libs : \E n \in Names : Referenced(l, n)')
  BY DEF OriginsInv, UsedLibrariesAreReferenced, Referenced
<1>2. CASE UNCHANGED <<pool, read, outSym, used, diags>>
  <2>1. \A n \in Names : OriginInv(n)'
    BY <1>2 DEF OriginsInv, OriginInv, HasInfo
  <2>2. \A l, n : Referenced(l, n) => Referenced(l, n)'
    BY <1>2, ReferencedForGood
  <2> QED  BY <1>1, <1>2, <2>1, <2>2
<1>3. ASSUME UNCHANGED <<pool, read, outSym>>,
             \E kept \in SUBSET {n \in Names : HasInfo(n) /\ (outSym[n] # NoFile \/ pool[n].bitcode)} :
               used' = used \cup {pool[n].origin : n \in kept}
      PROVE  /\ \A n \in Names : OriginInv(n)'
             /\ \A l \in used' \cap Libs : \E n \in Names : Referenced(l, n)'
  <2>1. \A n \in Names : OriginInv(n)'
    BY <1>3 DEF OriginsInv, OriginInv, HasInfo
  <2>2. \A l, n : Referenced(l, n) => Referenced(l, n)'
    BY <1>3, ReferencedForGood
  <2>3. ASSUME NEW l \in used' \cap Libs, l \notin used
        PROVE  \E n \in Names : Referenced(l, n)
    <3>1. PICK n \in Names : /\ HasInfo(n) /\ (outSym[n] # NoFile \/ pool[n].bitcode)
                             /\ l = pool[n].origin
      BY <1>3, <2>3
    <3> QED  BY <3>1, LibraryOfPreserved DEF OriginsInv
  <2> QED  BY <1>1, <2>1, <2>2, <2>3
<1>4. CASE beginPostLTO
  <2>1. PICK garbage \in SUBSET Names : used' = used \cup {pool[n].origin : n \in PreserveSyms(garbage)}
    BY <1>4 DEF beginPostLTO
  <2>2. PreserveSyms(garbage) \in
          SUBSET {n \in Names : HasInfo(n) /\ (outSym[n] # NoFile \/ pool[n].bitcode)}
    BY DEF PreserveSyms
  <2>3. UNCHANGED <<pool, read, outSym>>
    BY <1>4 DEF beginPostLTO
  <2> QED  BY <1>3, <2>1, <2>2, <2>3
<1>5. CASE addSymbolsToOutput
  <2>1. /\ used' = used \cup {pool[n].origin : n \in {m \in Names : ToOutput(m)}}
        /\ UNCHANGED <<pool, read, outSym>>
    BY <1>5 DEF addSymbolsToOutput
  <2>2. {m \in Names : ToOutput(m)} \in
          SUBSET {n \in Names : HasInfo(n) /\ (outSym[n] # NoFile \/ pool[n].bitcode)}
    BY DEF ToOutput
  <2> QED  BY <1>3, <2>1, <2>2
<1>6. ASSUME NEW m \in Names, NEW new \in ResolveInfos, Reads(m, new)
      PROVE  /\ \A n \in Names : OriginInv(n)'
             /\ \A l \in used' \cap Libs : \E n \in Names : Referenced(l, n)'
  <2>1. \A n \in Names : OriginInv(n)'
    BY <1>6, ReadKeepsOrigin DEF OriginsInv
  <2>2. /\ \A n \in Names : read[n] \subseteq read'[n]
        /\ read'[m] = read[m] \cup {new} /\ used \subseteq used'
        /\ ~HasRead(m, new.origin)
    BY <1>6 DEF Reads, PoolInv, PoolType, TypeOK
  <2>3. \A l : \A n \in Names : Referenced(l, n) => Referenced(l, n)'
    BY <2>2, ReferencedForGood
  <2>4. ASSUME NEW l \in used' \cap Libs, l \notin used
        PROVE  Referenced(l, m)'
    <3>1. l = new.origin /\ ResolvesReference(m, insertNonLocalSymbol(m, new))
      BY <1>6, <2>4 DEF Reads
    <3>2. HasInfo(m) /\ (pool[m].origin \in Libs => isELFNeeded(pool[m].origin))
      BY <3>1 DEF ResolvesReference
    <3>3. PICK s \in read[m] : s.origin = pool[m].origin
      BY <3>2 DEF OriginsInv, OriginInv
    <3>4. s.origin # l /\ (s.dyn => isELFNeeded(s.origin))
      BY <2>2, <3>1, <3>2, <3>3 DEF OriginsInv, OriginInv, HasRead
    <3>5. s \in read'[m] /\ (s.dyn => isELFNeeded(s.origin)')
      BY <2>2, <3>4 DEF isELFNeeded
    <3>6. HasRead(m, l)'
      BY <2>2, <3>1 DEF HasRead
    <3> QED  BY <3>4, <3>5, <3>6 DEF Referenced
  <2> QED  BY <1>1, <2>1, <2>3, <2>4
<1> QED  BY <1>2, <1>4, <1>5, <1>6, StepReads

\* No library is ever marked as used, and so named by the output under --as-needed, for
\* a name that no object and no needed library mentions: not when its symbol is merged,
\* not when the optimizer's symbols are chosen, not when the output is written
\* (IRBuilder.cpp:430).
THEOREM UsedIsReferenced == Spec => []UsedLibrariesAreReferenced
<1>1. OriginsInv => UsedLibrariesAreReferenced
  BY DEF OriginsInv
<1> QED  BY AlwaysPool, InitOrigins, NextOrigins, <1>1, PTL DEF Spec

\* While no input restricts a name, the entry is visible, and is marked for export from
\* the first library on.
ExportInv(n) ==
  HasInfo(n) /\ (\A s \in read[n] : s.vis = Default) =>
    /\ pool[n].vis = Default
    /\ (\E s \in read[n] : s.dyn) => pool[n].exportToDyn

LEMMA StepElsewhere ==
  ASSUME PoolInv, NEW n \in Names, NEW m \in Names \ {n}, NEW new, Reads(m, new)
  PROVE  pool'[n] = pool[n] /\ read'[n] = read[n] /\ (n \in diags' <=> n \in diags)
BY DEF PoolInv, PoolType, TypeOK, Reads, EntryMerged

LEMMA ReadKeepsExport ==
  ASSUME PoolInv, ~BuildsLibrary, NEW n \in Names, ExportInv(n), NEW new \in ResolveInfos,
         Reads(n, new)
  PROVE  ExportInv(n)'
<1> DEFINE merged == insertNonLocalSymbol(n, new).info
<1> SUFFICES ASSUME \A s \in read'[n] : s.vis = Default
             PROVE  /\ pool'[n].vis = Default
                    /\ (\E s \in read'[n] : s.dyn) => pool'[n].exportToDyn
  BY DEF ExportInv
<1>1. read'[n] = read[n] \cup {new} /\ (new.dyn => new.exportToDyn)
  BY DEF PoolInv, PoolType, TypeOK, Reads
<1>2. /\ pool'[n].vis = merged.vis
      /\ merged.exportToDyn => pool'[n].exportToDyn
      /\ new.dyn /\ isCommon(merged) => pool'[n].exportToDyn
  BY DEF PoolInv, PoolType, TypeOK, Reads, EntryMerged
<1>3. new.vis = Default
  BY <1>1
<1>4. CASE ~HasInfo(n)
  <2>1. merged = new /\ read'[n] = {new}
    BY <1>1, <1>4 DEF insertNonLocalSymbol, Resolution, PoolInv, PoolType, TypeOK
  <2> HIDE DEF merged
  <2> QED  BY <1>1, <1>2, <1>3, <2>1
<1>5. CASE HasInfo(n)
  <2>1. pool[n].vis = Default /\ ((\E s \in read[n] : s.dyn) => pool[n].exportToDyn)
    BY <1>1, <1>5 DEF ExportInv
  <2>2. \/ Merged(merged, pool[n], new)
        \/ merged = pool[n] /\ ~new.dyn
    BY <1>5, InsertedMerges
  <2>3. merged.vis = Default
    BY <1>3, <2>1, <2>2 DEF Merged, MostConstrained
  <2>4. (\E s \in read'[n] : s.dyn) => merged.exportToDyn \/ (new.dyn /\ isCommon(merged))
    <3> HIDE DEF merged
    <3> QED  BY <1>1, <1>3, <2>1, <2>2 DEF Merged
  <2> HIDE DEF merged
  <2> QED  BY <1>2, <2>3, <2>4
<1> QED  BY <1>4, <1>5

\* In an executable, a definition that some library mentions can be found by it at run
\* time: no order of the inputs, no merge with a common or a weak definition and no
\* replacement after link time optimization loses the mark. (An output that is itself a
\* library exports by another rule.)
THEOREM MentionedIsExported ==
  ASSUME ~BuildsLibrary
  PROVE  Spec => []DefinitionsExportedToLibs
<1> DEFINE Inv == \A n \in Names : ExportInv(n)
<1>1. Init => Inv
  BY DEF Init, ExportInv, HasInfo
<1>2. PoolInv /\ Inv /\ [Next]_vars => Inv'
  <2> SUFFICES ASSUME PoolInv, Inv, [Next]_vars PROVE Inv'
    OBVIOUS
  <2>1. CASE UNCHANGED <<pool, read>>
    BY <2>1 DEF ExportInv, HasInfo
  <2>2. ASSUME NEW m \in Names, NEW new \in ResolveInfos, Reads(m, new), NEW n \in Names
        PROVE  ExportInv(n)'
    <3>1. CASE m = n
      BY <2>2, <3>1, ReadKeepsExport
    <3>2. CASE m # n
      BY <2>2, <3>2, StepElsewhere DEF ExportInv, HasInfo
    <3> QED  BY <3>1, <3>2
  <2>3. beginPostLTO \/ addSymbolsToOutput => UNCHANGED <<pool, read>>
    BY DEF beginPostLTO, addSymbolsToOutput
  <2> QED  BY <2>1, <2>2, <2>3, StepReads
<1>3. Inv => DefinitionsExportedToLibs
  BY DEF ExportInv, DefinitionsExportedToLibs
<1> QED  BY AlwaysPool, <1>1, <1>2, <1>3, PTL DEF Spec

------------------------------------------------------------------------------
\* Links of objects and bitcode files alone.

RestrictionsRead(n) == {s.vis : s \in read[n]} \ {Default}

\* Without libraries no entry is one of a library, and its visibility is the most
\* constrained one read.
RestrictedInv(n) ==
  /\ \A s \in read[n] : ~s.dyn
  /\ HasInfo(n) => ~pool[n].dyn
  /\ HasInfo(n) /\ n \notin diags =>
       IF RestrictionsRead(n) = {} THEN pool[n].vis = Default
       ELSE pool[n].vis \in RestrictionsRead(n) /\ \A v \in RestrictionsRead(n) : pool[n].vis <= v

LEMMA ReadKeepsRestrictions ==
  ASSUME PoolInv, Libs = {}, NEW n \in Names, RestrictedInv(n), NEW new \in ResolveInfos,
         Reads(n, new)
  PROVE  RestrictedInv(n)'
<1> DEFINE r == insertNonLocalSymbol(n, new)
<1>1. /\ read'[n] = read[n] \cup {new} /\ ~new.dyn
      /\ n \notin diags' => n \notin diags /\ r.diag = "none"
  BY DEF PoolInv, PoolType, TypeOK, Reads
<1>2. pool'[n].vis = r.info.vis /\ pool'[n].dyn = r.info.dyn
  BY DEF PoolInv, PoolType, TypeOK, Reads, EntryMerged
<1>3. RestrictionsRead(n)' = RestrictionsRead(n) \cup ({new.vis} \ {Default})
  BY <1>1 DEF RestrictionsRead
<1>4. new.vis \in 0..3 /\ RestrictionsRead(n) \subseteq 0..3 /\ 0 \notin RestrictionsRead(n)
  BY DEF ResolveInfos, Visibilities, Default, Protected, RestrictionsRead, PoolInv, PoolType, TypeOK
<1>5. CASE ~HasInfo(n)
  <2>1. r.info = new /\ read[n] = {}
    BY <1>5 DEF insertNonLocalSymbol, Resolution, PoolInv, PoolType, TypeOK
  <2>2. RestrictionsRead(n)' = {new.vis} \ {Default}
    BY <1>3, <2>1 DEF RestrictionsRead
  <2>3. pool'[n].vis = new.vis /\ ~pool'[n].dyn /\ read'[n] = {new}
    BY <1>1, <1>2, <2>1
  <2> QED  BY <1>1, <1>4, <2>2, <2>3 DEF RestrictedInv
<1>6. CASE HasInfo(n)
  <2>1. ~pool[n].dyn /\ ~r.info.dyn
    BY <1>1, <1>6, InsertedMerges DEF RestrictedInv
  <2>2. \A s \in read'[n] : ~s.dyn
    BY <1>1 DEF RestrictedInv
  <2>3. n \notin diags' => pool'[n].vis = MostConstrained(pool[n].vis, new.vis)
    <3> SUFFICES ASSUME r.diag = "none" PROVE r.info.vis = MostConstrained(pool[n].vis, new.vis)
      BY <1>1, <1>2
    <3>1. Merged(r.info, pool[n], new)
      BY <1>6, InsertedMerges
    <3> HIDE DEF r
    <3> QED  BY <1>1, <2>1, <3>1 DEF Merged
  <2>4. ASSUME n \notin diags'
        PROVE  IF RestrictionsRead(n)' = {} THEN pool'[n].vis = Default
               ELSE pool'[n].vis \in RestrictionsRead(n)' /\ \A v \in RestrictionsRead(n)' : pool'[n].vis <= v
    <3>1. IF RestrictionsRead(n) = {} THEN pool[n].vis = Default
          ELSE pool[n].vis \in RestrictionsRead(n) /\ \A v \in RestrictionsRead(n) : pool[n].vis <= v
      BY <1>1, <1>6, <2>4 DEF RestrictedInv
    <3>2. pool[n].vis = Default <=> RestrictionsRead(n) = {}
      BY <1>4, <3>1 DEF Default
    <3>3. CASE new.vis = Default
      BY <1>3, <2>3, <2>4, <3>1, <3>2, <3>3 DEF MostConstrained
    <3>4. CASE new.vis # Default /\ RestrictionsRead(n) = {}
      BY <1>3, <1>4, <2>3, <2>4, <3>1, <3>4 DEF MostConstrained
    <3>5. CASE new.vis # Default /\ RestrictionsRead(n) # {}
      <4>1. pool'[n].vis = IF pool[n].vis < new.vis THEN pool[n].vis ELSE new.vis
        BY <2>3, <2>4, <3>2, <3>5 DEF MostConstrained
      <4>2. RestrictionsRead(n)' = RestrictionsRead(n) \cup {new.vis}
        BY <1>3, <3>5
      <4>3. /\ pool[n].vis \in RestrictionsRead(n) /\ pool[n].vis \in 0..3
            /\ \A v \in RestrictionsRead(n) : pool[n].vis <= v /\ v \in 0..3
        BY <1>4, <3>1, <3>5
      <4>4. \A v \in RestrictionsRead(n)' : pool'[n].vis <= v
        BY <1>4, <4>1, <4>2, <4>3
      <4> QED  BY <4>1, <4>2, <4>3, <4>4
    <3> QED  BY <3>3, <3>4, <3>5
  <2> QED  BY <1>2, <2>1, <2>2, <2>4 DEF RestrictedInv
<1> QED  BY <1>5, <1>6

LEMMA NextRestrictions ==
  ASSUME PoolInv, Libs = {}, \A n \in Names : RestrictedInv(n), [Next]_vars
  PROVE  \A n \in Names : RestrictedInv(n)'
<1>1. CASE UNCHANGED <<pool, read, diags>>
  BY <1>1 DEF RestrictedInv, RestrictionsRead, HasInfo
<1>2. ASSUME NEW m \in Names, NEW new \in ResolveInfos, Reads(m, new), NEW n \in Names
      PROVE  RestrictedInv(n)'
  <2>1. CASE m = n
    BY <1>2, <2>1, ReadKeepsRestrictions
  <2>2. CASE m # n
    BY <1>2, <2>2, StepElsewhere DEF RestrictedInv, RestrictionsRead, HasInfo
  <2> QED  BY <2>1, <2>2
<1>3. beginPostLTO \/ addSymbolsToOutput => UNCHANGED <<pool, read, diags>>
  BY DEF beginPostLTO, addSymbolsToOutput
<1> QED  BY <1>1, <1>2, <1>3, StepReads

RestrictionsInv == \A n \in Names : RestrictedInv(n)

LEMMA AlwaysRestricted ==
  ASSUME Libs = {}
  PROVE  Spec => []RestrictionsInv
<1>1. Init => RestrictionsInv
  BY DEF Init, RestrictionsInv, RestrictedInv, HasInfo
<1>2. PoolInv /\ RestrictionsInv /\ [Next]_vars => RestrictionsInv'
  BY NextRestrictions DEF RestrictionsInv
<1> QED  BY AlwaysPool, <1>1, <1>2, PTL DEF Spec

\* Objects and bitcode files that restrict a name restrict it for good, in every order
\* and through link time optimization (ResolveInfo.cpp:106).
THEOREM RestrictionsAccumulate ==
  ASSUME Libs = {}
  PROVE  Spec => []VisibilityMostConstrained
<1>1. RestrictionsInv => VisibilityMostConstrained
  <2> SUFFICES ASSUME RestrictionsInv, NEW n \in Names \ diags, Reading(n),
                      \A s \in read[n] : ~s.dyn
               PROVE  LET regular == {s.vis : s \in {x \in read[n] : ~x.dyn}} \ {Default}
                      IN  regular # {} /\ ~pool[n].dyn
                            => pool[n].vis \in regular /\ \A v \in regular : pool[n].vis <= v
    BY DEF VisibilityMostConstrained
  <2>1. RestrictedInv(n)
    BY DEF RestrictionsInv
  <2>2. {x \in read[n] : ~x.dyn} = read[n]
    BY <2>1 DEF RestrictedInv
  <2> QED  BY <2>1, <2>2 DEF RestrictedInv, RestrictionsRead, Reading
<1> QED  BY AlwaysRestricted, <1>1, PTL

\* How strong what an object or a bitcode file says is.
ObjectOrdinates == {"w_U", "U", "w_D", "w_C", "C", "D"}
Strength(o) == CASE o = "w_U" -> 0 [] o = "U" -> 1 [] o \in {"w_D", "w_C"} -> 2
                 [] o = "C" -> 3 [] o = "D" -> 4

LEMMA StrengthInTable ==
  ASSUME NEW row \in ObjectOrdinates, NEW col \in ObjectOrdinates
  PROVE  \/ LinkAction(row, col) \in {"NOACT", "CREF"} /\ Strength(row) <= Strength(col)
         \/ LinkAction(row, col) \in {"UND", "DEF", "DEFW", "COM", "CDEF"}
              /\ Strength(col) <= Strength(row)
         \/ LinkAction(row, col) = "MBIG" /\ row = "C" /\ col = "C"
         \/ LinkAction(row, col) = "MDEF" /\ row = "D" /\ col = "D"
<1> USE DEF LinkAction, DynUndefs, DynDefs, Undefs, Commons, ObjectOrdinates, Strength
<1>1. CASE row = "U"
  BY <1>1
<1>2. CASE row = "w_U"
  BY <1>2
<1>3. CASE row = "D"
  BY <1>3
<1>4. CASE row = "w_D"
  BY <1>4
<1>5. CASE row = "C"
  BY <1>5
<1>6. CASE row = "w_C"
  BY <1>6
<1> QED  BY <1>1, <1>2, <1>3, <1>4, <1>5, <1>6

LEMMA ObjectOrdinateType ==
  ASSUME NEW s \in ResolveInfos, ~s.dyn
  PROVE  getOrdinate(s) \in ObjectOrdinates
BY OrdinateType, OrdinateOfLibrary DEF Ordinates, ObjectOrdinates

\* The merged symbol is one of the two, and the stronger one.
LEMMA StrongerStays ==
  ASSUME NEW old \in ResolveInfos, NEW new \in ResolveInfos, ~old.dyn, ~new.dyn
  PROVE  LET now == getOrdinate(resolve(old, new, FALSE).info)
         IN  /\ now \in {getOrdinate(old), getOrdinate(new)}
             /\ Strength(getOrdinate(old)) <= Strength(now)
             /\ Strength(getOrdinate(new)) <= Strength(now)
<1> DEFINE r == resolve(old, new, FALSE)
           now == getOrdinate(r.info)
<1> SUFFICES /\ now \in {getOrdinate(old), getOrdinate(new)}
             /\ Strength(getOrdinate(old)) <= Strength(now)
             /\ Strength(getOrdinate(new)) <= Strength(now)
  OBVIOUS
<1>1. getOrdinate(old) \in ObjectOrdinates /\ getOrdinate(new) \in ObjectOrdinates
  BY ObjectOrdinateType
<1>2. Strength(getOrdinate(old)) \in Int /\ Strength(getOrdinate(new)) \in Int
  BY <1>1 DEF ObjectOrdinates, Strength
<1>3. FALSE \in BOOLEAN
  OBVIOUS
<1>4. CASE /\ ActionFor(old, new) \in {"NOACT", "CREF"}
           /\ Strength(getOrdinate(new)) <= Strength(getOrdinate(old))
  <2>1. Kept(r.info, old)
    BY <1>3, <1>4, ResolveKeeps
  <2>2. now = getOrdinate(old)
    BY <2>1, StrongSame
  <2> HIDE DEF r, now
  <2> QED  BY <1>2, <1>4, <2>2
<1>5. CASE /\ ActionFor(old, new) \in {"UND", "DEF", "DEFW", "COM", "CDEF"}
           /\ Strength(getOrdinate(old)) <= Strength(getOrdinate(new))
  <2>1. Kept(r.info, new)
    BY <1>3, <1>5, ResolveTakes DEF OverrideActions
  <2>2. now = getOrdinate(new)
    BY <2>1, StrongSame
  <2> HIDE DEF r, now
  <2> QED  BY <1>2, <1>5, <2>2
<1>6. CASE getOrdinate(new) = "C" /\ getOrdinate(old) = "C"
  <2>1. now = "C"
    BY <1>3, <1>6, CommonComes
  <2> HIDE DEF r, now
  <2> QED  BY <1>2, <1>6, <2>1
<1>7. CASE getOrdinate(new) = "D" /\ getOrdinate(old) = "D"
  <2>1. Kept(r.info, old) \/ Kept(r.info, new)
    BY <1>3, <1>7, StrongStays
  <2>2. now = "D"
    BY <1>7, <2>1, StrongSame
  <2> HIDE DEF r, now
  <2> QED  BY <1>2, <1>7, <2>2
<1> HIDE DEF r, now
<1> QED  BY <1>1, <1>4, <1>5, <1>6, <1>7, StrengthInTable DEF ActionFor

\* The entry is the strongest thing read.
StrongestInv(n) ==
  HasInfo(n) => /\ getOrdinate(pool[n]) \in OrdinatesRead(n)
                /\ \A o \in OrdinatesRead(n) : Strength(o) <= Strength(getOrdinate(pool[n]))

LEMMA InsertionKeepsStrongest ==
  ASSUME PoolInv, phase = "read", NEW n \in Names, RestrictedInv(n), StrongestInv(n),
         NEW new \in ResolveInfos, ~new.dyn,
         NEW info, Kept(info, insertNonLocalSymbol(n, new).info),
         pool'[n] = info, read'[n] = read[n] \cup {new}
  PROVE  StrongestInv(n)'
<1> DEFINE now == getOrdinate(insertNonLocalSymbol(n, new).info)
<1>1. getOrdinate(pool'[n]) = now
  BY StrongSame
<1>2. OrdinatesRead(n)' = OrdinatesRead(n) \cup {getOrdinate(new)}
  BY DEF OrdinatesRead
<1>3. \A o \in OrdinatesRead(n) \cup {getOrdinate(new)} : Strength(o) \in Int
  <2>1. \A o \in ObjectOrdinates : Strength(o) \in Int
    BY DEF ObjectOrdinates, Strength
  <2> QED  BY <2>1, ObjectOrdinateType DEF OrdinatesRead, RestrictedInv, PoolInv, PoolType, TypeOK
<1>4. CASE ~HasInfo(n)
  <2>1. now = getOrdinate(new) /\ OrdinatesRead(n) = {}
    BY <1>4 DEF insertNonLocalSymbol, Resolution, OrdinatesRead, PoolInv, PoolType, TypeOK
  <2> HIDE DEF now
  <2> QED  BY <1>1, <1>2, <1>3, <2>1 DEF StrongestInv
<1>5. CASE HasInfo(n)
  <2>1. /\ now \in {getOrdinate(pool[n]), getOrdinate(new)}
        /\ Strength(getOrdinate(pool[n])) <= Strength(now)
        /\ Strength(getOrdinate(new)) <= Strength(now)
    <3>1. /\ pool[n] \in ResolveInfos /\ ~pool[n].dyn
          /\ now = getOrdinate(resolve(pool[n], new, FALSE).info)
      BY <1>5, ReadByTable DEF Reading, RestrictedInv
    <3> HIDE DEF now
    <3> QED  BY <3>1, StrongerStays
  <2>2. /\ getOrdinate(pool[n]) \in OrdinatesRead(n)
        /\ \A o \in OrdinatesRead(n) : Strength(o) <= Strength(getOrdinate(pool[n]))
    BY <1>5 DEF StrongestInv
  <2>3. Strength(now) \in Int
    <3> HIDE DEF now
    <3> QED  BY <1>3, <2>1, <2>2
  <2> HIDE DEF now
  <2> QED  BY <1>1, <1>2, <1>3, <2>1, <2>2, <2>3 DEF StrongestInv
<1> QED  BY <1>4, <1>5

StrongestReadInv == phase = "read" => \A n \in Names : StrongestInv(n)

LEMMA NextStrongest ==
  PoolInv /\ RestrictionsInv /\ RestrictionsInv' /\ StrongestReadInv /\ [Next]_vars
    => StrongestReadInv'
<1> SUFFICES ASSUME PoolInv, RestrictionsInv, RestrictionsInv', StrongestReadInv, [Next]_vars,
                    phase' = "read", NEW n \in Names
             PROVE  StrongestInv(n)'
  BY DEF StrongestReadInv
<1>1. phase = "read" /\ StrongestInv(n) /\ RestrictedInv(n)
  BY NeverReadAgain DEF StrongestReadInv, RestrictionsInv
<1>2. CASE UNCHANGED <<pool, read, diags>>
  BY <1>1, <1>2 DEF StrongestInv, OrdinatesRead, HasInfo
<1>3. CASE ~UNCHANGED <<pool, read, diags>>
  <2>1. PICK m \in Names, new \in ResolveInfos, info \in ResolveInfos :
          /\ pool' = [pool EXCEPT ![m] = info] /\ Kept(info, insertNonLocalSymbol(m, new).info)
          /\ read' = [read EXCEPT ![m] = @ \cup {new}]
    BY <1>1, <1>3, OneEntryChanges
  <2>2. CASE m # n
    <3>1. pool'[n] = pool[n] /\ read'[n] = read[n]
      BY <2>1, <2>2 DEF PoolInv, PoolType, TypeOK
    <3> QED  BY <1>1, <3>1 DEF StrongestInv, OrdinatesRead, HasInfo
  <2>3. CASE m = n
    <3>1. pool'[n] = info /\ read'[n] = read[n] \cup {new}
      BY <2>1, <2>3 DEF PoolInv, PoolType, TypeOK
    <3>2. ~new.dyn
      BY <3>1 DEF RestrictionsInv, RestrictedInv
    <3> QED  BY <1>1, <2>1, <2>3, <3>1, <3>2, InsertionKeepsStrongest
  <2> QED  BY <2>2, <2>3
<1> QED  BY <1>2, <1>3

LEMMA StrongestOfRead ==
  ASSUME PoolInv, NEW n \in Names, RestrictedInv(n), StrongestInv(n), HasInfo(n)
  PROVE  LET ords == OrdinatesRead(n)
             now  == getOrdinate(pool[n])
         IN  /\ now \in ords /\ ords \subseteq ObjectOrdinates
             /\ "D" \in ords => now = "D"
             /\ "C" \in ords /\ "D" \notin ords => now = "C"
             /\ ords \cap {"D", "C"} = {} /\ ords \cap {"w_D", "w_C"} # {}
                  => now \in ords \cap {"w_D", "w_C"}
             /\ ords \subseteq Undefs => ("U" \in ords => now = "U")
<1> DEFINE ords == OrdinatesRead(n)
           now  == getOrdinate(pool[n])
<1>1. now \in ords /\ \A o \in ords : Strength(o) <= Strength(now)
  BY DEF StrongestInv
<1>2. ords \subseteq ObjectOrdinates
  BY ObjectOrdinateType DEF OrdinatesRead, RestrictedInv, PoolInv, PoolType, TypeOK
<1> SUFFICES /\ "D" \in ords => now = "D"
             /\ "C" \in ords /\ "D" \notin ords => now = "C"
             /\ ords \cap {"D", "C"} = {} /\ ords \cap {"w_D", "w_C"} # {}
                  => now \in ords \cap {"w_D", "w_C"}
             /\ ords \subseteq Undefs => ("U" \in ords => now = "U")
  BY <1>1, <1>2
<1> HIDE DEF ords, now
<1>3. "D" \in ords => now = "D"
  BY <1>1, <1>2 DEF ObjectOrdinates, Strength
<1>4. "C" \in ords /\ "D" \notin ords => now = "C"
  BY <1>1, <1>2 DEF ObjectOrdinates, Strength
<1>5. ords \cap {"D", "C"} = {} /\ ords \cap {"w_D", "w_C"} # {} => now \in ords \cap {"w_D", "w_C"}
  BY <1>1, <1>2 DEF ObjectOrdinates, Strength
<1>6. ords \subseteq Undefs => ("U" \in ords => now = "U")
  BY <1>1, <1>2 DEF ObjectOrdinates, Strength, Undefs
<1> QED  BY <1>3, <1>4, <1>5, <1>6

\* The whole table of the resolver, taken together, makes the pool a maximum: of the
\* inputs without libraries, in every order, the entry is the strongest symbol read, a
\* reference only if there is nothing else, and a weak one only if there is no strong
\* one (StaticResolver.cpp:45). With libraries this is only model checked, and false
\* of commons in them.
THEOREM StrongestIsKept ==
  ASSUME Libs = {}
  PROVE  Spec => []StrongestContributionKept
<1>1. Init => StrongestReadInv
  BY DEF Init, StrongestReadInv, StrongestInv, HasInfo
<1>2. PoolInv /\ RestrictionsInv /\ StrongestReadInv => StrongestContributionKept
  <2> SUFFICES ASSUME PoolInv, RestrictionsInv, StrongestReadInv, NEW n \in Names, Reading(n)
               PROVE  LET ords == OrdinatesRead(n)
                          now  == getOrdinate(pool[n])
                          refs == {s \in read[n] : getOrdinate(s) \in {"U", "w_U"}}
                      IN CASE "D" \in ords -> now = "D"
                           [] "C" \in ords /\ "D" \notin ords -> now = "C"
                           [] ords \cap {"D", "C"} = {} /\ ords \cap {"w_D", "w_C"} # {} ->
                                now \in ords \cap {"w_D", "w_C"}
                           [] ords \subseteq Undefs \cup DynDefs /\ ords \cap DynDefs # {} ->
                                (\A s \in refs : s.vis = Default) => now \in DynDefs
                           [] ords \subseteq Undefs ->
                                now \in ords /\ ("U" \in ords => now = "U")
    BY DEF StrongestContributionKept
  <2> DEFINE ords == OrdinatesRead(n)
             now  == getOrdinate(pool[n])
  <2>1. /\ now \in ords /\ ords \subseteq ObjectOrdinates
        /\ "D" \in ords => now = "D"
        /\ "C" \in ords /\ "D" \notin ords => now = "C"
        /\ ords \cap {"D", "C"} = {} /\ ords \cap {"w_D", "w_C"} # {}
             => now \in ords \cap {"w_D", "w_C"}
        /\ ords \subseteq Undefs => ("U" \in ords => now = "U")
    <3>1. RestrictedInv(n) /\ StrongestInv(n) /\ HasInfo(n)
      BY DEF RestrictionsInv, StrongestReadInv, Reading
    <3> QED  BY <3>1, StrongestOfRead
  <2>2. ords \cap DynDefs = {}
    <3> HIDE DEF ords
    <3> QED  BY <2>1 DEF ObjectOrdinates, DynDefs
  <2>3. \/ "D" \in ords
        \/ "C" \in ords /\ "D" \notin ords
        \/ ords \cap {"D", "C"} = {} /\ ords \cap {"w_D", "w_C"} # {}
        \/ ords \subseteq Undefs
    <3> HIDE DEF ords
    <3>1. CASE ords \cap {"D", "C", "w_D", "w_C"} # {}
      BY <3>1
    <3>2. CASE ords \cap {"D", "C", "w_D", "w_C"} = {}
      BY <2>1, <3>2 DEF ObjectOrdinates, Undefs
    <3> QED  BY <3>1, <3>2
  <2> HIDE DEF now
  <2> QED  BY <2>1, <2>2, <2>3 DEF now, Undefs
<1> QED  BY AlwaysPool, AlwaysRestricted, NextStrongest, <1>1, <1>2, PTL DEF Spec

------------------------------------------------------------------------------
\* Link time optimization: what is marked for it, and what it gives back.

\* What a merge may do to the mark that keeps a symbol in bitcode.  Only a reference
\* that cannot bind to a library is left without it.
Marked(info, old, new) ==
  /\ old.bitcode /\ old.preserve /\ info.bitcode => info.preserve
  /\ new.bitcode /\ ~old.bitcode /\ info.bitcode => info.preserve
  /\ ~new.bitcode /\ info.bitcode
       => info.preserve \/ (old.bitcode /\ new.dyn /\ old.vis # Default)

LEMMA MarkSets ==
  ASSUME NEW old \in ResolveInfos, NEW cond \in BOOLEAN
  PROVE  MarkForLTO(old, cond).preserve <=> old.preserve \/ cond
BY DEF MarkForLTO, ResolveInfos

LEMMA SeenStaysMarked ==
  ASSUME NEW old \in ResolveInfos, NEW new \in ResolveInfos
  PROVE  LET info == overrideVisibility(old, new)
         IN  info.preserve = old.preserve /\ info.bitcode = old.bitcode
BY DEF overrideVisibility, ResolveInfos

LEMMA TakenStaysMarked ==
  ASSUME NEW old \in ResolveInfos, NEW new \in ResolveInfos
  PROVE  \A info \in {overrideAttributes(old, new), override(old, new, TRUE)} :
           /\ info \in ResolveInfos
           /\ info.preserve = old.preserve /\ info.bitcode = new.bitcode
<1> DEFINE all == overrideAttributes(old, new)
<1>1. all \in ResolveInfos /\ all.preserve = old.preserve /\ all.bitcode = new.bitcode
  <2>1. canBePreemptible(new) \in BOOLEAN
    BY DEF canBePreemptible
  <2> QED  BY <2>1 DEF overrideAttributes, ResolveInfos
<1>2. /\ override(old, new, TRUE) \in ResolveInfos
      /\ override(old, new, TRUE).preserve = all.preserve
      /\ override(old, new, TRUE).bitcode = all.bitcode
  <2> HIDE DEF all
  <2> QED  BY <1>1 DEF all, override, ResolveInfos
<1> HIDE DEF all
<1> QED  BY <1>1, <1>2 DEF all

\* References, and what the table makes of them: only undefined symbols are replaced by
\* references, and references by anything but references, or by what no library defines.
LEMMA UndefsInTable ==
  ASSUME NEW row \in Ordinates, NEW col \in Ordinates
  PROVE  /\ LinkAction(row, col) \in OverrideActions /\ row \in Undefs => col \in Undefs
         /\ LinkAction(row, col) = "CDEF" => row = "D"
         /\ LinkAction(row, col) = "NOACT" /\ col \in {"U", "w_U"} => row \in Undefs
         /\ LinkAction(row, col) \in {"MDEFD", "MDEFWD"} => row \in DynDefs
         /\ LinkAction(row, col) \in {"DUND", "DUNDW", "CREF", "MBIG"} => col \notin Undefs
         /\ LinkAction(row, col) = "BIG" => row = "C"
<1> USE DEF LinkAction, DynUndefs, DynDefs, Undefs, Commons, OverrideActions
<1>1. CASE row \in {"U", "w_U"}
  BY <1>1
<1>2. CASE row \in {"d_U", "wd_U"}
  BY <1>2
<1>3. CASE row = "D"
  BY <1>3
<1>4. CASE row = "w_D"
  BY <1>4
<1>5. CASE row \in {"d_D", "wd_D"}
  BY <1>5
<1>6. CASE row = "C"
  BY <1>6
<1>7. CASE row \in {"w_C", "Cs"}
  BY <1>7
<1> QED  BY <1>1, <1>2, <1>3, <1>4, <1>5, <1>6, <1>7 DEF Ordinates

LEMMA UndefOrdinates ==
  ASSUME NEW s \in ResolveInfos
  PROVE  /\ getOrdinate(s) \in Undefs => isUndef(s)
         /\ isUndef(s) /\ ~isAbsolute(s) => getOrdinate(s) \in Undefs
         /\ isUndef(s) /\ ~isAbsolute(s) /\ ~s.dyn => getOrdinate(s) \in {"U", "w_U"}
<1> USE DEF getOrdinate, isAbsolute, isCommon, isUndef, isDefine, isWeak
<1>1. /\ isUndef(s) /\ ~isAbsolute(s) => getOrdinate(s) \in Undefs
      /\ isUndef(s) /\ ~isAbsolute(s) /\ ~s.dyn => getOrdinate(s) \in {"U", "w_U"}
  BY DEF ResolveInfos, Undefs
<1>2. getOrdinate(s) \in Undefs => isUndef(s)
  BY DEF ResolveInfos, Descs, Undefs
<1> QED  BY <1>1, <1>2

LEMMA NoActionMarks ==
  ASSUME NEW old \in ResolveInfos, NEW new \in ResolveInfos,
         old.bitcode => ~old.dyn, new.bitcode => ~new.dyn,
         isUndef(old) /\ old.bitcode => isUndef(new) \/ (new.dyn /\ old.vis # Default)
  PROVE  Marked(NoAction(old, new, FALSE).info, old, new)
<1> DEFINE cond == ~new.bitcode /\ old.bitcode /\ ~isUndef(old)
           preserved == MarkForLTO(old, cond)
           seen == IF isUndef(old) /\ ~new.bitcode /\ isUndef(new)
                   THEN [preserved EXCEPT !.bitcode = FALSE] ELSE preserved
           merged == overrideVisibilityUnlessDyn(seen, new)
           exported == canBePreemptible(merged) /\ new.dyn /\ canBePreemptible(new)
           shown == [merged EXCEPT !.exportToDyn = @ \/ exported]
<1>1. cond \in BOOLEAN
  OBVIOUS
<1>2. /\ preserved \in ResolveInfos /\ preserved.bitcode = old.bitcode
      /\ preserved.preserve <=> old.preserve \/ cond
  <2> HIDE DEF cond
  <2> QED  BY <1>1, MarkLeaves, MarkSets
<1>3. /\ seen \in ResolveInfos
      /\ seen.bitcode <=> old.bitcode /\ ~(isUndef(old) /\ ~new.bitcode /\ isUndef(new))
      /\ seen.preserve <=> old.preserve \/ cond
  <2> HIDE DEF preserved, cond
  <2> QED  BY <1>2 DEF ResolveInfos
<1>4. merged \in ResolveInfos /\ merged.bitcode = seen.bitcode /\ merged.preserve = seen.preserve
  <2> HIDE DEF seen
  <2> QED  BY <1>3, VisibilityLeaves, SeenStaysMarked DEF overrideVisibilityUnlessDyn
<1>5. shown.bitcode = merged.bitcode /\ shown.preserve = merged.preserve
  <2> HIDE DEF merged, exported
  <2> QED  BY <1>4 DEF ResolveInfos
<1>6. NoAction(old, new, FALSE).info = shown
  BY DEF NoAction, Resolution
<1> HIDE DEF seen, merged, shown
<1> QED  BY <1>3, <1>4, <1>5, <1>6 DEF Marked

LEMMA OverrideByMarks ==
  ASSUME NEW old \in ResolveInfos, NEW new \in ResolveInfos,
         isUndef(new) /\ new.bitcode => isUndef(old)
  PROVE  Marked(OverrideBy(old, new, FALSE).info, old, new)
<1> DEFINE strongOverWeak ==
             /\ ~isCommon(old) /\ ~isCommon(new)
             /\ isWeak(old) /\ ~isWeak(new) /\ old.bitcode /\ ~new.bitcode
           dropped == IF strongOverWeak
                      THEN [old EXCEPT !.bitcode = FALSE, !.preserve = FALSE] ELSE old
           cond == \/ ~old.bitcode /\ new.bitcode /\ isUndef(old)
                   \/ ~new.bitcode /\ dropped.bitcode /\ ~isUndef(old)
                   \/ new.bitcode /\ ~isUndef(new) /\ ~old.bitcode
           marked == MarkForLTO(dropped, cond)
           taken == override(marked, new, TRUE)
<1>1. dropped \in ResolveInfos /\ (new.bitcode => dropped = old)
  BY DEF ResolveInfos
<1>2. marked \in ResolveInfos /\ (marked.preserve <=> dropped.preserve \/ cond)
  <2>1. cond \in BOOLEAN
    OBVIOUS
  <2> HIDE DEF dropped, cond
  <2> QED  BY <1>1, <2>1, MarkLeaves, MarkSets
<1>3. taken \in ResolveInfos /\ taken.bitcode = new.bitcode /\ taken.preserve = marked.preserve
  <2> HIDE DEF marked
  <2> QED  BY <1>2, TakenStaysMarked
<1>4. OverrideBy(old, new, FALSE).info = overrideVisibilityUnlessDyn(taken, new)
  BY DEF OverrideBy, Resolution
<1>5. /\ OverrideBy(old, new, FALSE).info.bitcode = new.bitcode
      /\ OverrideBy(old, new, FALSE).info.preserve = marked.preserve
  <2> DEFINE seen == overrideVisibility(taken, new)
  <2> HIDE DEF taken, marked
  <2>1. seen.bitcode = taken.bitcode /\ seen.preserve = taken.preserve
    BY <1>3, SeenStaysMarked
  <2> HIDE DEF seen
  <2>2. OverrideBy(old, new, FALSE).info = IF taken.dyn THEN taken ELSE seen
    BY <1>4 DEF overrideVisibilityUnlessDyn, seen
  <2> QED  BY <1>3, <2>1, <2>2
<1>6. new.bitcode /\ ~old.bitcode => cond
  OBVIOUS
<1> HIDE DEF dropped, cond, marked
<1> QED  BY <1>1, <1>2, <1>5, <1>6 DEF Marked

LEMMA ResolveMarks ==
  ASSUME NEW old \in ResolveInfos, NEW new \in ResolveInfos,
         old.bitcode => ~old.dyn /\ ~isAbsolute(old),
         new.bitcode => ~new.dyn /\ ~isAbsolute(new)
  PROVE  LET r == resolve(old, new, FALSE)
         IN  r.diag = "none" => Marked(r.info, old, new)
<1> DEFINE r == resolve(old, new, FALSE)
           action == ActionFor(old, new)
           m == LargerCommon(old, new, FALSE).info
<1> SUFFICES ASSUME r.diag = "none" PROVE Marked(r.info, old, new)
  OBVIOUS
<1>1. getOrdinate(new) \in Ordinates /\ getOrdinate(old) \in Ordinates
  BY OrdinateType
<1>2. action \in LinkActions
  BY <1>1, ActionType DEF ActionFor
<1>3. CASE action = "NOACT"
  <2>1. r = NoAction(old, new, FALSE)
    BY <1>3 DEF resolve, ActionFor
  <2>2. isUndef(old) /\ old.bitcode => isUndef(new)
    <3>1. isUndef(old) /\ old.bitcode => getOrdinate(old) \in {"U", "w_U"}
      BY UndefOrdinates
    <3>2. getOrdinate(old) \in {"U", "w_U"} => getOrdinate(new) \in Undefs
      BY <1>1, <1>3, UndefsInTable DEF ActionFor
    <3> QED  BY <3>1, <3>2, UndefOrdinates
  <2> QED  BY <2>1, <2>2, NoActionMarks
<1>4. CASE action \in OverrideActions
  <2>1. r = OverrideBy(old, new, FALSE)
    BY <1>4 DEF resolve, ActionFor, OverrideActions
  <2>2. isUndef(new) /\ new.bitcode => isUndef(old)
    <3>1. isUndef(new) /\ new.bitcode => getOrdinate(new) \in Undefs
      BY UndefOrdinates
    <3>2. getOrdinate(new) \in Undefs => getOrdinate(old) \in Undefs
      BY <1>1, <1>4, UndefsInTable DEF ActionFor
    <3> QED  BY <3>1, <3>2, UndefOrdinates
  <2> QED  BY <2>1, <2>2, OverrideByMarks
<1>5. CASE action \in {"MDEFD", "MDEFWD"}
  <2>1. r = MarkDynDefined(old, new, FALSE)
    BY <1>5 DEF resolve, ActionFor
  <2>2. new.dyn /\ ~new.bitcode
    <3>1. getOrdinate(new) \in DynDefs
      BY <1>1, <1>5, UndefsInTable DEF ActionFor
    <3> QED  BY <3>1, OrdinateOfLibrary DEF DynDefs
  <2>3. CASE old.vis # Default
    BY <2>1, <2>2, <2>3, NoActionMarks DEF MarkDynDefined
  <2>4. CASE old.vis = Default
    <3> DEFINE taken == override(old, new, TRUE)
    <3>1. taken \in ResolveInfos /\ taken.bitcode = new.bitcode
      BY AttributesLeave
    <3>2. MarkDynDefined(old, new, FALSE).info =
            IF isWeakUndef(old) THEN [taken EXCEPT !.binding = "Weak"] ELSE taken
      BY <2>4 DEF MarkDynDefined, Resolution
    <3> HIDE DEF taken, r
    <3>3. ~r.info.bitcode
      BY <2>1, <2>2, <3>1, <3>2 DEF ResolveInfos
    <3> QED  BY <2>2, <3>3 DEF Marked
  <2> QED  BY <2>3, <2>4
<1>6. CASE action \in {"DUND", "DUNDW"}
  <2>1. r.info = [old EXCEPT !.vis = new.vis]
    BY <1>6 DEF resolve, ActionFor, Resolution
  <2>2. ~old.bitcode
    <3>1. getOrdinate(old) \in DynDefs
      BY <1>1, <1>6, RowsOfObjects DEF ActionFor
    <3> QED  BY <3>1, OrdinateOfLibrary DEF DynDefs
  <2>3. ~r.info.bitcode
    <3> HIDE DEF r
    <3> QED  BY <2>1, <2>2 DEF ResolveInfos
  <2> HIDE DEF r
  <2> QED  BY <2>3 DEF Marked
<1>7. CASE action = "CREF"
  <2> DEFINE cond == ~new.bitcode /\ old.bitcode
             marked == MarkForLTO(old, cond)
  <2>1. r.info = overrideVisibility(marked, new)
    BY <1>7 DEF resolve, ActionFor, Resolution
  <2>2. cond \in BOOLEAN
    OBVIOUS
  <2>3. /\ marked \in ResolveInfos /\ marked.bitcode = old.bitcode
        /\ marked.preserve <=> old.preserve \/ cond
    <3> HIDE DEF cond
    <3> QED  BY <2>2, MarkLeaves, MarkSets
  <2> HIDE DEF marked, r
  <2>4. r.info.bitcode = old.bitcode /\ (r.info.preserve <=> old.preserve \/ cond)
    BY <2>1, <2>3, SeenStaysMarked
  <2> QED  BY <2>4 DEF Marked
<1>8. CASE action = "CDEF"
  <2> DEFINE cond == new.bitcode \/ old.bitcode
             marked == MarkForLTO(old, cond)
             taken == override(marked, new, TRUE)
  <2>1. r.info = overrideVisibility(taken, new)
    BY <1>8 DEF resolve, ActionFor, Resolution
  <2>2. cond \in BOOLEAN
    OBVIOUS
  <2>3. marked \in ResolveInfos /\ (marked.preserve <=> old.preserve \/ cond)
    <3> HIDE DEF cond
    <3> QED  BY <2>2, MarkLeaves, MarkSets
  <2>4. taken \in ResolveInfos /\ taken.bitcode = new.bitcode /\ taken.preserve = marked.preserve
    <3> HIDE DEF marked
    <3> QED  BY <2>3, TakenStaysMarked
  <2> HIDE DEF marked, taken, r
  <2>5. r.info.bitcode = new.bitcode /\ (r.info.preserve <=> old.preserve \/ cond)
    BY <2>1, <2>3, <2>4, SeenStaysMarked
  <2> QED  BY <2>5 DEF Marked
<1>9. CASE action \in {"BIG", "MBIG"}
  <2> DEFINE cond == old.bitcode # new.bitcode
             sized == IF old.size < new.size
                      THEN [old EXCEPT !.size = new.size, !.bitcode = new.bitcode,
                                       !.origin = new.origin]
                      ELSE old
             all == overrideAttributes(m, new)
  <2>1. /\ sized \in ResolveInfos /\ sized.bitcode \in {old.bitcode, new.bitcode}
        /\ sized.preserve = old.preserve
    BY DEF ResolveInfos
  <2>2. m = MarkForLTO(sized, cond)
    BY DEF LargerCommon
  <2>3. cond \in BOOLEAN
    OBVIOUS
  <2>4. /\ m \in ResolveInfos /\ m.bitcode \in {old.bitcode, new.bitcode}
        /\ m.preserve <=> old.preserve \/ cond
    <3> HIDE DEF m, sized, cond
    <3> QED  BY <2>1, <2>2, <2>3, MarkLeaves, MarkSets
  <2>5. all \in ResolveInfos /\ all.bitcode = new.bitcode /\ all.preserve = m.preserve
    <3> HIDE DEF m
    <3> QED  BY <2>4, TakenStaysMarked
  <2>6. r.info \in {overrideVisibility(all, new), overrideVisibility(m, new)}
    BY <1>9 DEF resolve, ActionFor, Resolution
  <2> HIDE DEF m, all, r
  <2>7. r.info.bitcode \in {old.bitcode, new.bitcode} /\ (r.info.preserve <=> old.preserve \/ cond)
    BY <2>4, <2>5, <2>6, SeenStaysMarked
  <2> QED  BY <2>7 DEF Marked, ResolveInfos
<1>10. CASE action = "MDEF"
  <2>1. SameAbsolute(old, new)
    BY <1>10, ResolveDefinitions
  <2>2. r.info = overrideVisibility(override(old, new, TRUE), new)
    BY <1>10, <2>1 DEF resolve, ActionFor, MultipleDefinition, SameAbsolute, Resolution
  <2> DEFINE taken == override(old, new, TRUE)
  <2>3. taken \in ResolveInfos /\ taken.bitcode = new.bitcode
    BY TakenStaysMarked
  <2>4. ~new.bitcode /\ ~old.bitcode
    BY <2>1 DEF SameAbsolute
  <2> HIDE DEF r, taken
  <2>5. r.info.bitcode = new.bitcode
    BY <2>2, <2>3, SeenStaysMarked DEF taken
  <2> QED  BY <2>4, <2>5 DEF Marked
<1> HIDE DEF action, r
<1> QED  BY <1>2, <1>3, <1>4, <1>5, <1>6, <1>7, <1>8, <1>9, <1>10 DEF LinkActions

\* A symbol in bitcode is never absolute, and an absolute one is always defined.
Shaped(s) == (s.bitcode => ~s.dyn /\ ~isAbsolute(s)) /\ (isAbsolute(s) => isDefine(s))

LEMMA ResolveShapes ==
  ASSUME NEW old \in ResolveInfos, NEW new \in ResolveInfos, NEW postLTO \in BOOLEAN,
         Shaped(old), Shaped(new)
  PROVE  Shaped(resolve(old, new, postLTO).info)
<1> DEFINE r == resolve(old, new, postLTO)
           action == ActionFor(old, new)
           m == LargerCommon(old, new, postLTO).info
<1>1. getOrdinate(new) \in Ordinates /\ getOrdinate(old) \in Ordinates
  BY OrdinateType
<1>2. action \in LinkActions
  BY <1>1, ActionType DEF ActionFor
<1> SUFFICES Shaped(r.info)
  OBVIOUS
<1> HIDE DEF r
<1>3. CASE action = "NOACT"
  <2>1. r = NoAction(old, new, postLTO)
    BY <1>3 DEF r, resolve, ActionFor
  <2> QED  BY <2>1, NoActionKeeps, NoActionMerges DEF Kept, Shaped, isAbsolute, isDefine
<1>4. CASE action \in OverrideActions
  <2>1. r = OverrideBy(old, new, postLTO)
    BY <1>4 DEF r, resolve, ActionFor, OverrideActions
  <2> QED  BY <2>1, OverrideByTakes, OverrideByMerges DEF Kept, Shaped, isAbsolute, isDefine
<1>5. CASE action \in {"MDEFD", "MDEFWD"}
  <2>1. r = MarkDynDefined(old, new, postLTO)
    BY <1>5 DEF r, resolve, ActionFor
  <2>2. new.dyn
    <3>1. getOrdinate(new) \in DynDefs
      BY <1>1, <1>5, RowsOfObjects DEF ActionFor
    <3> QED  BY <3>1, OrdinateOfLibrary DEF DynDefs
  <2>3. CASE old.vis # Default
    <3>1. r = NoAction(old, new, postLTO)
      BY <2>1, <2>3 DEF MarkDynDefined
    <3> QED  BY <3>1, NoActionKeeps, NoActionMerges DEF Kept, Shaped, isAbsolute, isDefine
  <2>4. CASE old.vis = Default
    <3> DEFINE taken == override(old, new, TRUE)
    <3>1. taken.bitcode = new.bitcode /\ Kept(taken, new)
      BY TakenStaysMarked, OverrideTakes
    <3>2. MarkDynDefined(old, new, postLTO).info =
            IF isWeakUndef(old) THEN [taken EXCEPT !.binding = "Weak"] ELSE taken
      BY <2>4 DEF MarkDynDefined, Resolution
    <3> HIDE DEF taken
    <3> QED  BY <2>1, <2>2, <3>1, <3>2 DEF Kept, Shaped, isAbsolute, isDefine, ResolveInfos
  <2> QED  BY <2>3, <2>4
<1>6. CASE action \in {"DUND", "DUNDW"}
  <2>1. r.info = [old EXCEPT !.vis = new.vis]
    BY <1>6 DEF r, resolve, ActionFor, Resolution
  <2> QED  BY <2>1 DEF Shaped, isAbsolute, isDefine, ResolveInfos
<1>7. CASE action = "CREF"
  <2> DEFINE marked == MarkForLTO(old, ~postLTO /\ ~new.bitcode /\ old.bitcode)
  <2>1. r.info = overrideVisibility(marked, new)
    BY <1>7 DEF r, resolve, ActionFor, Resolution
  <2>2. marked \in ResolveInfos /\ marked.bitcode = old.bitcode
    <3>1. (~postLTO /\ ~new.bitcode /\ old.bitcode) \in BOOLEAN
      OBVIOUS
    <3> QED  BY <3>1, MarkLeaves
  <2>3. Kept(r.info, old)
    BY <1>7, ResolveKeeps DEF r
  <2>4. r.info.bitcode = old.bitcode
    <3> HIDE DEF marked
    <3> QED  BY <2>1, <2>2, SeenStaysMarked
  <2> QED  BY <2>3, <2>4 DEF Kept, Shaped, isAbsolute, isDefine
<1>8. CASE action = "CDEF"
  <2> DEFINE marked == MarkForLTO(old, ~postLTO /\ (new.bitcode \/ old.bitcode))
             taken == override(marked, new, TRUE)
  <2>1. r.info = overrideVisibility(taken, new)
    BY <1>8 DEF r, resolve, ActionFor, Resolution
  <2>2. marked \in ResolveInfos
    <3>1. (~postLTO /\ (new.bitcode \/ old.bitcode)) \in BOOLEAN
      OBVIOUS
    <3> QED  BY <3>1, MarkLeaves
  <2>3. taken \in ResolveInfos /\ taken.bitcode = new.bitcode
    <3> HIDE DEF marked
    <3> QED  BY <2>2, TakenStaysMarked
  <2>4. Kept(r.info, new)
    BY <1>8, ResolveTakes DEF r
  <2>5. r.info.bitcode = new.bitcode
    <3> HIDE DEF taken
    <3> QED  BY <2>1, <2>3, SeenStaysMarked
  <2> QED  BY <2>4, <2>5 DEF Kept, Shaped, isAbsolute, isDefine
<1>9. CASE action = "BIG"
  <2> DEFINE all == overrideAttributes(m, new)
  <2>1. r.info = overrideVisibility(all, new)
    BY <1>9 DEF r, resolve, ActionFor, Resolution
  <2>2. m \in ResolveInfos
    BY LargerCommonLeaves
  <2>3. all \in ResolveInfos /\ all.bitcode = new.bitcode
    <3> HIDE DEF m
    <3> QED  BY <2>2, TakenStaysMarked
  <2>4. r.info.desc = new.desc /\ r.info.binding = new.binding /\ r.info.dyn = new.dyn
    BY <1>9, ResolveCommons DEF r
  <2>5. r.info.bitcode = new.bitcode
    <3> HIDE DEF all
    <3> QED  BY <2>1, <2>3, SeenStaysMarked
  <2> QED  BY <2>4, <2>5 DEF Shaped, isAbsolute, isDefine
<1>10. CASE action = "MBIG"
  <2>1. r.info = overrideVisibility(m, new)
    BY <1>10 DEF r, resolve, ActionFor, Resolution
  <2>2. m \in ResolveInfos /\ (m.bitcode => old.bitcode \/ new.bitcode)
    BY LargerCommonLeaves
  <2>3. r.info.desc = old.desc /\ r.info.binding = old.binding /\ r.info.dyn = old.dyn
    BY <1>10, ResolveCommons DEF r
  <2>4. r.info.bitcode => old.bitcode \/ new.bitcode
    <3> HIDE DEF m
    <3> QED  BY <2>1, <2>2, SeenStaysMarked
  <2>5. isCommon(old)
    <3>1. getOrdinate(old) \in Commons
      BY <1>1, <1>10, CommonInTable DEF ActionFor
    <3> QED  BY <3>1, CommonOrdinates
  <2>6. ~isAbsolute(old)
    BY <2>5 DEF Shaped, isCommon, isDefine
  <2>7. new.bitcode => ~old.dyn
    <3>1. new.bitcode => getOrdinate(new) \notin {"d_U", "wd_U", "d_D", "wd_D", "Cs"}
      BY OrdinateOfLibrary DEF Shaped
    <3>2. getOrdinate(new) # "Cs" => getOrdinate(old) = "C"
      BY <1>1, <1>10, CommonInTable DEF ActionFor, Commons
    <3> QED  BY <3>1, <3>2, OrdinateOfLibrary
  <2> QED  BY <2>3, <2>4, <2>6, <2>7 DEF Shaped, isAbsolute, isDefine
<1>11. CASE action = "MDEF"
  <2>1. CASE ~SameAbsolute(old, new)
    BY <1>11, <2>1, ResolveDefinitions DEF r
  <2>2. CASE SameAbsolute(old, new)
    <3> DEFINE taken == override(old, new, TRUE)
    <3>1. r.info = overrideVisibility(taken, new)
      BY <1>11, <2>2 DEF r, resolve, ActionFor, MultipleDefinition, SameAbsolute, Resolution
    <3>2. taken \in ResolveInfos /\ taken.bitcode = new.bitcode
      BY TakenStaysMarked
    <3>3. Kept(r.info, new)
      BY <1>11, <2>2, ResolveDefinitions DEF r
    <3> HIDE DEF taken
    <3>4. r.info.bitcode = new.bitcode
      BY <3>1, <3>2, SeenStaysMarked
    <3> QED  BY <3>3, <3>4 DEF Kept, Shaped, isAbsolute, isDefine
  <2> QED  BY <2>1, <2>2
<1> HIDE DEF action
<1> QED  BY <1>2, <1>3, <1>4, <1>5, <1>6, <1>7, <1>8, <1>9, <1>10, <1>11 DEF LinkActions

\* Among regular symbols a definition prevails over a reference.
LEMMA ResolveDefined ==
  ASSUME NEW old \in ResolveInfos, NEW new \in ResolveInfos, NEW postLTO \in BOOLEAN,
         Shaped(old), Shaped(new), ~new.dyn
  PROVE  LET info == resolve(old, new, postLTO).info
         IN  /\ isUndef(info) => isUndef(old) /\ isUndef(new)
             /\ info.bitcode => old.bitcode \/ new.bitcode
<1> DEFINE r == resolve(old, new, postLTO)
           action == ActionFor(old, new)
<1>1. getOrdinate(new) \in Ordinates /\ getOrdinate(old) \in Ordinates
  BY OrdinateType
<1>2. action \in LinkActions
  BY <1>1, ActionType DEF ActionFor
<1>3. r.info.bitcode => old.bitcode \/ new.bitcode
  <2>1. CASE r.diag = "none"
    BY <2>1, ResolveMerges DEF Merged
  <2>2. CASE r.diag # "none"
    BY <2>2, DiagnosedKeeps
  <2> QED  BY <2>1, <2>2
<1>4. \A s \in {old, new} : isUndef(s) <=> getOrdinate(s) \in Undefs
  BY UndefOrdinates DEF Shaped, isUndef, isDefine
<1> SUFFICES isUndef(r.info) => isUndef(old) /\ isUndef(new)
  BY <1>3
<1>5. isUndef(old) /\ old.dyn => getOrdinate(old) \in {"d_U", "wd_U"}
  BY <1>4, OrdinateOfLibrary DEF Undefs
<1>6. getOrdinate(new) \notin {"d_U", "wd_U", "d_D", "wd_D", "Cs"}
  BY OrdinateOfLibrary
<1>7. CASE action \in {"NOACT", "DUND", "DUNDW", "CREF"}
  <2>1. isUndef(r.info) <=> isUndef(old)
    BY <1>7, ResolveKeeps DEF Kept, isUndef
  <2>2. getOrdinate(old) \in Undefs => getOrdinate(new) \in Undefs
    <3> HIDE DEF r
    <3> QED  BY <1>1, <1>6, <1>7 DEF ActionFor, LinkAction, Undefs, DynUndefs, DynDefs, Commons, Ordinates
  <2> HIDE DEF r, action
  <2> QED  BY <1>4, <2>1, <2>2
<1>8. CASE action \in OverrideActions \cup {"CDEF"}
  <2>1. isUndef(r.info) <=> isUndef(new)
    BY <1>8, ResolveTakes DEF Kept, isUndef
  <2>2. getOrdinate(new) \in Undefs => getOrdinate(old) \in Undefs
    <3>1. getOrdinate(new) \in Undefs => action # "CDEF"
      BY <1>1, UndefsInTable DEF ActionFor, Undefs
    <3> QED  BY <1>1, <1>8, <3>1, UndefsInTable DEF ActionFor
  <2> HIDE DEF r, action
  <2> QED  BY <1>4, <2>1, <2>2
<1>9. CASE action \in {"BIG", "MBIG"}
  <2>1. getOrdinate(old) \in Commons /\ getOrdinate(new) \in Commons
    BY <1>1, <1>9, CommonInTable DEF ActionFor, Commons
  <2>2. isCommon(old) /\ isCommon(new)
    BY <2>1, CommonOrdinates
  <2>3. r.info.desc \in {old.desc, new.desc}
    BY <1>9, ResolveCommons
  <2> HIDE DEF r
  <2> QED  BY <2>2, <2>3 DEF isCommon, isUndef
<1>10. CASE action \in {"MDEFD", "MDEFWD"}
  BY <1>1, <1>6, <1>10, UndefsInTable DEF ActionFor, DynDefs
<1>11. CASE action = "MDEF"
  <2>1. getOrdinate(old) = "D" /\ getOrdinate(new) = "D"
    BY <1>1, <1>11, RowsOfObjects DEF ActionFor
  <2>2. ~isUndef(old) /\ ~isUndef(new)
    BY <1>4, <2>1 DEF Undefs
  <2>3. r.info.desc \in {old.desc, new.desc}
    BY <1>11, ResolveDefinitions DEF Kept
  <2> HIDE DEF r
  <2> QED  BY <2>2, <2>3 DEF isUndef
<1> HIDE DEF r, action
<1> QED  BY <1>2, <1>7, <1>8, <1>9, <1>10, <1>11 DEF LinkActions

LEMMA LTOResolutionTakes ==
  ASSUME NEW old \in ResolveInfos, NEW new \in ResolveInfos
  PROVE  LET r == LTOResolution(old, new)
         IN  /\ r.info.desc = new.desc /\ r.info.binding = new.binding /\ r.info.dyn = new.dyn
             /\ r.info.bitcode = new.bitcode /\ r.override /\ r.diag = "none"
<1> DEFINE moved == override(old, new, FALSE)
           sized == [moved EXCEPT !.size = new.size]
           attributes == overrideAttributes(sized, new)
           seen == overrideVisibility(attributes, new)
<1>1. moved \in ResolveInfos
  BY AttributesLeave
<1>2. sized \in ResolveInfos
  <2> HIDE DEF moved
  <2> QED  BY <1>1 DEF ResolveInfos
<1>3. attributes \in ResolveInfos /\ attributes.desc = new.desc /\ attributes.dyn = new.dyn
  <2> HIDE DEF sized
  <2> QED  BY <1>2, AttributesOverridden
<1>4. seen \in ResolveInfos /\ seen.desc = new.desc /\ seen.dyn = new.dyn
  <2> HIDE DEF attributes
  <2> QED  BY <1>3, VisibilityKeeps DEF Kept
<1>5. LTOResolution(old, new) =
        Resolution([seen EXCEPT !.binding = new.binding, !.bitcode = new.bitcode], TRUE, "none")
  BY DEF LTOResolution
<1> HIDE DEF seen
<1>6. LTOResolution(old, new).info = [seen EXCEPT !.binding = new.binding, !.bitcode = new.bitcode]
  BY <1>5 DEF Resolution
<1>7. LTOResolution(old, new).override /\ LTOResolution(old, new).diag = "none"
  BY <1>5 DEF Resolution
<1> QED  BY <1>4, <1>6, <1>7 DEF ResolveInfos

\* A step that reads the symbol new of the name m, and the stage it does so in: after
\* link time optimization only generated and late objects are read.
ReadsInPhase(m, new) ==
  LET r == insertNonLocalSymbol(m, new)
  IN  /\ Reads(m, new) /\ UNCHANGED <<phase, toLTO>>
      /\ Shaped(new) /\ (new.origin \in Objs => ~new.bitcode /\ ~new.dyn)
      /\ phase = "read" => new.origin \notin LTOObjs
      /\ phase # "read" =>
           /\ phase = "postLTO" /\ ~new.bitcode /\ ~new.dyn /\ new.origin \notin Objs \ LateObjs
           /\ collected' = IF r.override THEN collected \ {m} ELSE collected

LEMMA InputSymbolShape ==
  ASSUME NEW s, NEW f \in Files,
         f \in BitcodeFiles => ~isAbsolute(s), isAbsolute(s) => isDefine(s)
  PROVE  Shaped(createInputSymbolRI(s, f))
BY FilesAssumption DEF createInputSymbolRI, Shaped, isAbsolute, isDefine

LEMMA StepInPhase ==
  ASSUME PoolInv, [Next]_vars
  PROVE  \/ UNCHANGED <<pool, read, diags, collected, phase, toLTO>>
         \/ beginPostLTO \/ addSymbolsToOutput
         \/ \E m \in Names : \E new \in ResolveInfos : ReadsInPhase(m, new)
<1>1. ASSUME NEW m \in Names, NEW f \in Objs \cup LTOObjs, NEW s \in ObjSymbols[f],
             addSymbolFromObject(f, m, s), ~FailToInsert(m, createInputSymbolRI(s, f))
      PROVE  ReadsInPhase(m, createInputSymbolRI(s, f))
  <2> DEFINE new == createInputSymbolRI(s, f)
  <2>1. f \in Files \ Libs /\ f \notin BitcodeFiles /\ s \in InputSymbols
    BY FilesAssumption, SymbolsAssumption
  <2>2. /\ Resolvable(m, new) /\ ~HasRead(m, f) /\ Insert(m, new) /\ UNCHANGED used
        /\ \E file : outSym' = [outSym EXCEPT ![m] = file]
    BY <1>1 DEF addSymbolFromObject
  <2>3. Reads(m, new)
    BY <2>1, <2>2, RegularReads
  <2>4. UNCHANGED <<phase, toLTO>>
    BY <1>1 DEF addSymbolFromObject
  <2>5. phase = "read" => f \notin LTOObjs
    BY <1>1, FilesAssumption DEF addSymbolFromObject
  <2>6. phase # "read" => phase = "postLTO" /\ f \notin Objs \ LateObjs
    BY <1>1, FilesAssumption DEF addSymbolFromObject
  <2>7. collected' = IF insertNonLocalSymbol(m, new).override THEN collected \ {m} ELSE collected
    BY <1>1 DEF addSymbolFromObject
  <2>8. Shaped(new)
    BY <2>1, InputSymbolShape, SymbolsAssumption
  <2>9. new.origin = f /\ ~new.bitcode /\ ~new.dyn
    BY <2>1 DEF createInputSymbolRI
  <2> SUFFICES ReadsInPhase(m, new)
    OBVIOUS
  <2> HIDE DEF new
  <2> QED  BY <2>3, <2>4, <2>5, <2>6, <2>7, <2>8, <2>9 DEF ReadsInPhase
<1>2. ASSUME NEW m \in Names, NEW f \in BitcodeFiles, NEW s \in BitcodeSymbols,
             addSymbolFromBitCode(f, m, s), ~FailToInsert(m, createInputSymbolRI(s, f))
      PROVE  ReadsInPhase(m, createInputSymbolRI(s, f))
  <2> DEFINE new == createInputSymbolRI(s, f)
  <2>1. f \in Files \ Libs /\ f \notin LTOObjs /\ s \in InputSymbols /\ ~isAbsolute(s)
    BY FilesAssumption, SymbolsAssumption
  <2>2. /\ Resolvable(m, new) /\ ~HasRead(m, f) /\ Insert(m, new) /\ UNCHANGED used
        /\ \E file : outSym' = [outSym EXCEPT ![m] = file]
    BY <1>2 DEF addSymbolFromBitCode
  <2>3. Reads(m, new)
    BY <2>1, <2>2, RegularReads
  <2>4. UNCHANGED <<phase, toLTO>> /\ phase = "read"
    BY <1>2 DEF addSymbolFromBitCode
  <2>5. Shaped(new)
    BY <2>1, InputSymbolShape
  <2>6. new.origin = f /\ f \notin Objs
    BY <2>1, InputSymbolType, FilesAssumption
  <2> SUFFICES ReadsInPhase(m, new)
    OBVIOUS
  <2> HIDE DEF new
  <2> QED  BY <2>1, <2>3, <2>4, <2>5, <2>6 DEF ReadsInPhase
<1>3. ASSUME NEW m \in Names, NEW l \in Libs, NEW s \in LibSymbols, addSymbolFromDynObj(l, m, s),
             ~FailToInsert(m, createInputSymbolRI(s, l))
      PROVE  ReadsInPhase(m, createInputSymbolRI(s, l))
  <2> DEFINE new == createInputSymbolRI(s, l)
  <2>1. l \in Files /\ l \notin LTOObjs /\ l \notin BitcodeFiles /\ s \in InputSymbols
    BY FilesAssumption, SymbolsAssumption
  <2>2. Reads(m, new)
    BY <1>3, LibraryReads
  <2>3. UNCHANGED <<phase, toLTO>> /\ phase = "read"
    BY <1>3 DEF addSymbolFromDynObj
  <2>4. Shaped(new)
    BY <2>1, InputSymbolShape, SymbolsAssumption
  <2>5. new.origin = l /\ l \notin Objs
    BY <2>1, InputSymbolType, FilesAssumption
  <2> SUFFICES ReadsInPhase(m, new)
    OBVIOUS
  <2> HIDE DEF new
  <2> QED  BY <2>1, <2>2, <2>3, <2>4, <2>5 DEF ReadsInPhase
<1>4. ASSUME NEW m \in Names, NEW new, FailToInsert(m, new)
      PROVE  UNCHANGED <<pool, read, diags, collected, phase, toLTO>>
  BY <1>4 DEF FailToInsert
<1>5. \A m, new : ReadsInPhase(m, new) => new \in ResolveInfos
  BY DEF ReadsInPhase, Reads
<1> QED  BY <1>1, <1>2, <1>3, <1>4, <1>5 DEF Next, vars

\* While the inputs are read, a bitcode symbol in the pool that is mentioned outside is
\* marked, be it a reference or a definition; a reference that some bitcode restricts is
\* not, and what is mentioned by nothing else is as visible as the bitcode leaves it.
MarkInv(n) ==
  /\ \A s \in read[n] : s.bitcode => ~s.dyn
  /\ HasInfo(n) =>
    /\ Shaped(pool[n])
    /\ phase = "read" /\ n \notin diags =>
         /\ pool[n].bitcode /\ MentionedOutside(n) => pool[n].preserve
         /\ (\A s \in read[n] : s.bitcode /\ s.vis = Default) => pool[n].vis = Default

LEMMA ReadKeepsMarks ==
  ASSUME PoolInv, NEW n \in Names, MarkInv(n), NEW new \in ResolveInfos, ReadsInPhase(n, new)
  PROVE  MarkInv(n)'
<1> DEFINE merged == insertNonLocalSymbol(n, new).info
<1>1. /\ read'[n] = read[n] \cup {new} /\ Shaped(new) /\ phase' = phase
      /\ n \notin diags' => n \notin diags
      /\ n \notin diags' /\ insertNonLocalSymbol(n, new).diag # "none" => new.dyn
  BY DEF PoolInv, PoolType, TypeOK, Reads, ReadsInPhase
<1>2. \E info \in ResolveInfos :
        /\ pool'[n] = info
        /\ info.vis = merged.vis /\ info.bitcode = merged.bitcode /\ info.dyn = merged.dyn
        /\ info.desc = merged.desc /\ info.binding = merged.binding
        /\ info.preserve = merged.preserve
  BY DEF PoolInv, PoolType, TypeOK, Reads, ReadsInPhase, EntryMerged
<1> SUFFICES HasInfo(n)' =>
               /\ Shaped(pool'[n])
               /\ phase = "read" /\ n \notin diags' =>
                    /\ pool'[n].bitcode /\ MentionedOutside(n)' => pool'[n].preserve
                    /\ (\A s \in read'[n] : s.bitcode /\ s.vis = Default)
                         => pool'[n].vis = Default
  BY <1>1 DEF MarkInv, Shaped
<1>3. CASE ~HasInfo(n)
  <2>1. merged = new /\ read'[n] = {new}
    BY <1>1, <1>3 DEF insertNonLocalSymbol, Resolution, PoolInv, PoolType, TypeOK
  <2> HIDE DEF merged
  <2>2. Shaped(pool'[n])
    BY <1>1, <1>2, <2>1 DEF Shaped, isAbsolute, isDefine
  <2>3. ~(pool'[n].bitcode /\ MentionedOutside(n)')
    BY <1>2, <2>1 DEF MentionedOutside
  <2>4. (\A s \in read'[n] : s.bitcode /\ s.vis = Default) => pool'[n].vis = Default
    BY <1>2, <2>1
  <2> QED  BY <2>2, <2>3, <2>4
<1>4. CASE HasInfo(n)
  <2>1. pool[n] \in ResolveInfos /\ Shaped(pool[n])
    BY <1>4 DEF PoolInv, PoolType, TypeOK, HasInfo, MarkInv
  <2>2. Shaped(merged)
    <3>1. CASE OverrideByLto(n, new)
      BY <1>1, <1>4, <2>1, <3>1, LTOResolutionTakes DEF insertNonLocalSymbol, Shaped, isAbsolute, isDefine
    <3>2. CASE ~OverrideByLto(n, new)
      <4>1. merged = resolve(pool[n], new, phase = "postLTO").info
        BY <1>4, <3>2 DEF insertNonLocalSymbol
      <4>2. (phase = "postLTO") \in BOOLEAN
        OBVIOUS
      <4> QED  BY <1>1, <2>1, <4>1, <4>2, ResolveShapes
    <3> QED  BY <3>1, <3>2
  <2>3. Shaped(pool'[n])
    <3> HIDE DEF merged
    <3> QED  BY <1>2, <2>2 DEF Shaped, isAbsolute, isDefine
  <2>4. ASSUME phase = "read", n \notin diags'
        PROVE  /\ pool'[n].bitcode /\ MentionedOutside(n)' => pool'[n].preserve
               /\ (\A s \in read'[n] : s.bitcode /\ s.vis = Default) => pool'[n].vis = Default
    <3>1. merged = resolve(pool[n], new, FALSE).info
      BY <1>4, <2>4 DEF insertNonLocalSymbol, OverrideByLto
    <3>2. resolve(pool[n], new, FALSE).diag = "none"
      <4>1. insertNonLocalSymbol(n, new) = resolve(pool[n], new, FALSE)
        BY <1>4, <2>4 DEF insertNonLocalSymbol, OverrideByLto
      <4> QED  BY <1>1, <2>1, <2>4, <4>1, DiagnosedKeeps
    <3>3. Marked(merged, pool[n], new) /\ Merged(merged, pool[n], new)
      BY <1>1, <2>1, <3>1, <3>2, ResolveMarks, ResolveMerges DEF Shaped
    <3> HIDE DEF merged
    <3>4. /\ pool[n].bitcode /\ MentionedOutside(n) => pool[n].preserve
          /\ (\A s \in read[n] : s.bitcode /\ s.vis = Default) => pool[n].vis = Default
      BY <1>1, <1>4, <2>4 DEF MarkInv
    <3>5. ASSUME \A s \in read'[n] : s.bitcode /\ s.vis = Default PROVE pool'[n].vis = Default
      <4>1. pool[n].vis = Default /\ new.vis = Default
        BY <1>1, <3>4, <3>5
      <4> QED  BY <1>2, <3>3, <4>1 DEF Merged, MostConstrained
    <3>6. ASSUME pool'[n].bitcode, MentionedOutside(n)', ~merged.preserve PROVE FALSE
      <4>1. merged.bitcode
        BY <1>2, <3>6
      <4>2. ~MentionedOutside(n) \/ ~pool[n].bitcode
        BY <3>3, <3>4, <3>6, <4>1 DEF Marked
      <4>3. CASE new.bitcode
        <5>1. pool[n].bitcode
          BY <3>3, <3>6, <4>1, <4>3 DEF Marked
        <5>2. MentionedOutside(n)
          BY <1>1, <3>6, <4>3 DEF MentionedOutside
        <5> QED  BY <4>2, <5>1, <5>2
      <4>4. CASE ~new.bitcode
        <5>1. pool[n].bitcode /\ new.dyn /\ pool[n].vis # Default
          BY <3>3, <3>6, <4>1, <4>4 DEF Marked
        <5>2. ~MentionedOutside(n)
          BY <4>2, <5>1
        <5>3. \A s \in read'[n] : ~s.dyn => s.vis = Default
          BY <1>1, <3>6, <5>1, <5>2 DEF MentionedOutside
        <5>4. \A s \in read[n] : s.bitcode
          BY <1>1, <5>2, <5>3 DEF MentionedOutside
        <5>5. \A s \in read[n] : s.bitcode => ~s.dyn
          BY DEF MarkInv
        <5> QED  BY <1>1, <3>4, <5>1, <5>3, <5>4, <5>5
      <4> QED  BY <4>3, <4>4
    <3> QED  BY <1>2, <3>5, <3>6
  <2> QED  BY <2>3, <2>4
<1> QED  BY <1>3, <1>4

LEMMA NextMarks ==
  ASSUME PoolInv, \A n \in Names : MarkInv(n), [Next]_vars
  PROVE  \A n \in Names : MarkInv(n)'
<1>1. CASE UNCHANGED <<pool, read, diags, phase>>
  BY <1>1 DEF MarkInv, HasInfo, MentionedOutside
<1>2. ASSUME NEW m \in Names, NEW new \in ResolveInfos, ReadsInPhase(m, new), NEW n \in Names
      PROVE  MarkInv(n)'
  <2>1. CASE m = n
    BY <1>2, <2>1, ReadKeepsMarks
  <2>2. CASE m # n
    <3>1. pool'[n] = pool[n] /\ read'[n] = read[n] /\ (n \in diags' <=> n \in diags)
      BY <1>2, <2>2, StepElsewhere DEF ReadsInPhase
    <3> QED  BY <1>2, <3>1 DEF ReadsInPhase, MarkInv, HasInfo, MentionedOutside
  <2> QED  BY <2>1, <2>2
<1>3. beginPostLTO \/ addSymbolsToOutput => UNCHANGED <<pool, read, diags>> /\ phase' # "read"
  BY DEF beginPostLTO, addSymbolsToOutput
<1> QED  BY <1>1, <1>2, <1>3, StepInPhase DEF MarkInv, HasInfo

\* Something that the optimizer generated for the name n defines it.
Generated(n) == \E s \in read[n] : s.origin \in LTOObjs /\ ~isUndef(s)

\* What was handed to the optimizer is in the pool until an object takes its place; from
\* then on nothing removes what the generated objects define.
HandedInv(n) ==
  /\ \A s \in read[n] : s.origin \in Objs => ~s.bitcode /\ ~s.dyn
  /\ phase = "read" => toLTO[n] = NoInfo /\ \A s \in read[n] : s.origin \notin LTOObjs
  /\ phase # "read" /\ toLTO[n] # NoInfo =>
       /\ HasInfo(n)
       /\ n \notin diags /\ (\E s \in read[n] : s.origin \in Objs \ LateObjs)
            => toLTO[n].preserve
       /\ \/ pool[n].bitcode /\ ~Generated(n)
          \/ ~pool[n].bitcode /\ n \notin collected /\ (Generated(n) => ~isUndef(pool[n]))
  /\ phase = "output" /\ toLTO[n] # NoInfo /\ toLTO[n].preserve => Generated(n)

LEMMA ReadKeepsHanded ==
  ASSUME PoolInv, NEW n \in Names, MarkInv(n), HandedInv(n), NEW new \in ResolveInfos,
         ReadsInPhase(n, new)
  PROVE  HandedInv(n)'
<1> DEFINE r == insertNonLocalSymbol(n, new)
<1>1. /\ read'[n] = read[n] \cup {new} /\ phase' = phase /\ toLTO' = toLTO
      /\ n \notin diags' => n \notin diags
      /\ Shaped(new) /\ (new.origin \in Objs => ~new.bitcode /\ ~new.dyn)
      /\ phase = "read" => new.origin \notin LTOObjs
  BY DEF PoolInv, PoolType, TypeOK, Reads, ReadsInPhase
<1>2. \A s \in read'[n] : s.origin \in Objs => ~s.bitcode /\ ~s.dyn
  BY <1>1 DEF HandedInv
<1>3. CASE phase = "read"
  BY <1>1, <1>2, <1>3 DEF HandedInv
<1>4. CASE phase # "read" /\ toLTO[n] = NoInfo
  BY <1>1, <1>2, <1>4 DEF HandedInv
<1>5. CASE phase # "read" /\ toLTO[n] # NoInfo
  <2>1. /\ phase = "postLTO" /\ ~new.bitcode /\ ~new.dyn /\ new.origin \notin Objs \ LateObjs
        /\ collected' = IF r.override THEN collected \ {n} ELSE collected
    BY <1>5 DEF ReadsInPhase
  <2>2. HasInfo(n) /\ pool[n] \in ResolveInfos /\ Shaped(pool[n])
    BY <1>5 DEF HandedInv, MarkInv, PoolInv, PoolType, TypeOK, HasInfo
  <2>3. pool'[n].bitcode = r.info.bitcode /\ pool'[n].desc = r.info.desc /\ pool'[n] \in ResolveInfos
    BY DEF PoolInv, PoolType, TypeOK, Reads, ReadsInPhase, EntryMerged
  <2>4. pool'[n] # NoInfo
    BY <2>3, NoInfoIsNone
  <2>5. Generated(n)' => Generated(n) \/ (~isUndef(new))
    BY <1>1 DEF Generated
  <2>6. CASE pool[n].bitcode
    <3>1. ~Generated(n)
      BY <1>5, <2>6 DEF HandedInv
    <3>2. r = LTOResolution(pool[n], new)
      BY <2>1, <2>2, <2>6 DEF insertNonLocalSymbol, OverrideByLto
    <3>3. r.info.desc = new.desc /\ ~r.info.bitcode /\ r.override
      BY <2>1, <2>2, <3>2, LTOResolutionTakes
    <3> HIDE DEF r
    <3>4. ~pool'[n].bitcode /\ n \notin collected'
      BY <2>1, <2>3, <3>3
    <3>5. Generated(n)' => ~isUndef(pool'[n])
      BY <2>3, <2>5, <3>1, <3>3 DEF isUndef
    <3> QED  BY <1>1, <1>2, <1>5, <2>1, <2>4, <3>4, <3>5 DEF HandedInv, HasInfo
  <2>7. CASE ~pool[n].bitcode
    <3>1. n \notin collected /\ (Generated(n) => ~isUndef(pool[n]))
      BY <1>5, <2>7 DEF HandedInv
    <3>2. r = resolve(pool[n], new, TRUE)
      BY <2>1, <2>2, <2>7, <3>1 DEF insertNonLocalSymbol, OverrideByLto
    <3>3. /\ isUndef(r.info) => isUndef(pool[n]) /\ isUndef(new)
          /\ r.info.bitcode => pool[n].bitcode \/ new.bitcode
      BY <1>1, <2>1, <2>2, <3>2, ResolveDefined
    <3> HIDE DEF r
    <3>4. ~pool'[n].bitcode /\ n \notin collected'
      BY <2>1, <2>3, <2>7, <3>1, <3>3
    <3>5. Generated(n)' => ~isUndef(pool'[n])
      BY <2>3, <2>5, <3>1, <3>3 DEF isUndef
    <3> QED  BY <1>1, <1>2, <1>5, <2>1, <2>4, <3>4, <3>5 DEF HandedInv, HasInfo
  <2> QED  BY <2>6, <2>7
<1> QED  BY <1>3, <1>4, <1>5

LEMMA NextHanded ==
  ASSUME PoolInv, \A n \in Names : MarkInv(n), \A n \in Names : HandedInv(n), [Next]_vars
  PROVE  \A n \in Names : HandedInv(n)'
<1>1. CASE UNCHANGED <<pool, read, diags, collected, phase, toLTO>>
  BY <1>1 DEF HandedInv, Generated, HasInfo
<1>2. ASSUME NEW m \in Names, NEW new \in ResolveInfos, ReadsInPhase(m, new), NEW n \in Names
      PROVE  HandedInv(n)'
  <2>1. CASE m = n
    BY <1>2, <2>1, ReadKeepsHanded
  <2>2. CASE m # n
    <3>1. pool'[n] = pool[n] /\ read'[n] = read[n] /\ (n \in diags' <=> n \in diags)
      BY <1>2, <2>2, StepElsewhere DEF ReadsInPhase
    <3>2. /\ phase' = phase /\ toLTO' = toLTO
          /\ phase # "read" => (n \in collected' <=> n \in collected)
      BY <1>2, <2>2 DEF ReadsInPhase
    <3> QED  BY <3>1, <3>2 DEF HandedInv, Generated, HasInfo
  <2> QED  BY <2>1, <2>2
<1>3. ASSUME beginPostLTO, NEW n \in Names PROVE HandedInv(n)'
  <2>1. /\ phase = "read" /\ phase' = "postLTO" /\ UNCHANGED <<pool, read, diags>>
        /\ toLTO'[n] = IF HasInfo(n) /\ pool[n].bitcode /\ ~isUndef(pool[n])
                        THEN pool[n] ELSE NoInfo
    BY <1>3 DEF beginPostLTO
  <2>2. ~Generated(n)
    BY <2>1 DEF HandedInv, Generated
  <2>3. ASSUME toLTO'[n] # NoInfo, n \notin diags, NEW s \in read[n], s.origin \in Objs
        PROVE  toLTO'[n].preserve
    <3>1. toLTO'[n] = pool[n] /\ HasInfo(n) /\ pool[n].bitcode
      BY <2>1, <2>3
    <3>2. MentionedOutside(n)
      BY <2>3 DEF HandedInv, MentionedOutside
    <3> QED  BY <2>1, <2>3, <3>1, <3>2 DEF MarkInv
  <2> QED  BY <2>1, <2>2, <2>3 DEF HandedInv, HasInfo, Generated
<1>4. ASSUME addSymbolsToOutput, NEW n \in Names PROVE HandedInv(n)'
  <2>1. UNCHANGED <<pool, read, diags, collected, toLTO>> /\ phase' = "output"
    BY <1>4 DEF addSymbolsToOutput
  <2>2. phase = "read" \/ (toLTO[n] # NoInfo /\ toLTO[n].preserve => Generated(n))
    BY <1>4 DEF addSymbolsToOutput, VisibleDefinitionsGenerated, Generated
  <2>3. phase # "read" \/ toLTO[n] = NoInfo
    BY DEF HandedInv
  <2>4. CASE toLTO[n] = NoInfo
    BY <2>1, <2>4 DEF HandedInv
  <2>5. CASE toLTO[n] # NoInfo
    BY <2>1, <2>2, <2>3, <2>5 DEF HandedInv, HasInfo, Generated
  <2> QED  BY <2>4, <2>5
<1> QED  BY <1>1, <1>2, <1>3, <1>4, StepInPhase

OptimizedInv == \A n \in Names : MarkInv(n) /\ HandedInv(n)

\* In every order of the inputs, the mark that keeps a bitcode definition is set when an
\* object, or a library that can see the name, mentions it; and whatever is read after link
\* time optimization, what an object mentioned is in the end defined by an object.
THEOREM OptimizedIsKept == Spec => []OptimizedForObjects
<1>1. Init => OptimizedInv
  BY DEF Init, OptimizedInv, MarkInv, HandedInv, HasInfo
<1>2. PoolInv /\ OptimizedInv /\ [Next]_vars => OptimizedInv'
  BY NextMarks, NextHanded DEF OptimizedInv
<1>3. OptimizedInv => OptimizedForObjects
  <2>1. OptimizedInv => PreservedForObjects
    BY DEF OptimizedInv, MarkInv, PreservedForObjects, Reading
  <2>2. OptimizedInv => ObjectReferencesSurviveLTO
    BY DEF OptimizedInv, HandedInv, ObjectReferencesSurviveLTO
  <2> QED  BY <2>1, <2>2 DEF OptimizedForObjects
<1> QED  BY AlwaysPool, <1>1, <1>2, <1>3, PTL DEF Spec
===============================================================================
