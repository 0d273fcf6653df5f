------------------------------- MODULE NamePool -------------------------------
(***************************************************************************)
(* The name pool while the inputs are read: every global symbol of every   *)
(* object, bitcode file and shared library is inserted and resolved at     *)
(* once, in whatever order the command line, the archives and the groups   *)
(* bring them.  Link time optimization then replaces the bitcode symbols   *)
(* by those of the objects it generated, and the symbols are put into the  *)
(* output.                                                                 *)
(*                                                                         *)
(* lib/SymbolResolver/NamePool.cpp, lib/SymbolResolver/IRBuilder.cpp,      *)
(* lib/Core/Module.cpp and lib/Object/ObjectLinker.cpp.                    *)
(***************************************************************************)
EXTENDS StaticResolver

CONSTANTS
  Names,            \* the global names
  Objs,             \* relocatable objects, archive members included
  LateObjs,         \* the archive members only extracted after LTO
  BitcodeFiles,     \* bitcode inputs
  Libs,             \* shared libraries
  LTOObjs,          \* objects that link time optimization generates
  AsNeeded,         \* the shared libraries read under --as-needed
  ObjSymbols,       \* object -> what it may say of a name
  BitcodeSymbols,   \* what a bitcode file may say of a name
  LibSymbols,       \* what a shared library may say of a name
  BuildsLibrary     \* whether the output is itself a shared library

ASSUME FilesAssumption ==
  /\ Files = Objs \cup BitcodeFiles \cup Libs \cup LTOObjs
  /\ (Objs \cup LTOObjs) \cap (BitcodeFiles \cup Libs) = {}
  /\ BitcodeFiles \cap Libs = {} /\ Objs \cap LTOObjs = {}
  /\ AsNeeded \subseteq Libs /\ LateObjs \subseteq Objs

InputSymbols ==
  [desc : Descs, binding : Bindings, vis : Visibilities, type : Types,
   size : Sizes, value : Values]

\* Only a symbol of an ELF file is absolute, and it is defined then.
ASSUME SymbolsAssumption ==
  /\ \A f \in Objs \cup LTOObjs : ObjSymbols[f] \subseteq InputSymbols
  /\ BitcodeSymbols \cup LibSymbols \subseteq InputSymbols
  /\ \A s \in BitcodeSymbols : ~isAbsolute(s)
  /\ \A f \in Objs \cup LTOObjs : \A s \in ObjSymbols[f] : isAbsolute(s) => isDefine(s)
  /\ \A s \in LibSymbols : isAbsolute(s) => isDefine(s)

VARIABLES
  pool,        \* name -> its ResolveInfo, or NoInfo before any input has it
  outSym,      \* name -> the file whose symbol goes to the output, or NoFile
  libSym,      \* name -> the library whose symbol an object may later take
  used,        \* the input files marked as used
  diags,       \* names with a multiple definition diagnostic
  failed,      \* a symbol could not be resolved: reading stops
  collected,   \* names whose symbol lies in a section that was ignored
  phase,       \* "read", "postLTO", "output"
  toLTO,       \* name -> the symbol whose definition was handed to the optimizer
  read         \* history: name -> what the inputs have said of it

vars == <<pool, outSym, libSym, used, diags, failed, collected,
          phase, toLTO, read>>

NoInfo == [desc |-> "None"]
NoFile == "no file"

HasInfo(n) == pool[n] # NoInfo

\* NamePool::createInputSymbolRI
createInputSymbolRI(s, f) ==
  [desc |-> s.desc, binding |-> s.binding, dyn |-> f \in Libs, vis |-> s.vis,
   type |-> s.type, size |-> s.size, value |-> s.value, origin |-> f,
   bitcode |-> f \in BitcodeFiles, preserve |-> FALSE,
   exportToDyn |-> f \in Libs /\ s.vis = Default]

\* A fault: only the symbol in the pool is asked.
checkOldTLSType(old, new) == old.type = "ThreadLocal" => new.type = "ThreadLocal"

\* NamePool::checkTLSTypes
checkTLSTypes(old, new) ==
  "ThreadLocal" \in {old.type, new.type} => old.type = new.type

\* A symbol that link time optimization has superseded: it came from bitcode, or
\* its section was ignored before the generated objects were read.
OverrideByLto(n, new) ==
  LET old == pool[n]
  IN /\ phase = "postLTO" /\ ~new.bitcode
     /\ \/ old.bitcode
        \/ /\ ~isUndef(old) /\ ~old.dyn /\ ~isCommon(old)
           /\ outSym[n] # NoFile /\ n \in collected

LTOResolution(old, new) ==
  LET attributes == overrideAttributes(
                      [override(old, new, FALSE) EXCEPT !.size = new.size], new)
  IN Resolution([overrideVisibility(attributes, new) EXCEPT
                   !.binding = new.binding, !.bitcode = new.bitcode],
                TRUE, "none")

\* NamePool::insertNonLocalSymbol, and insertSymbol for bitcode: the outcome
\* for a name that is new, for one that is not.
insertNonLocalSymbol(n, new) ==
  IF ~HasInfo(n) THEN Resolution(new, TRUE, "none")
  ELSE IF OverrideByLto(n, new) THEN LTOResolution(pool[n], new)
  ELSE resolve(pool[n], new, phase = "postLTO")

Resolvable(n, new) == HasInfo(n) => checkTLSTypes(pool[n], new)

HasRead(n, f) == \E s \in read[n] : s.origin = f

\* What the three readers share: the pool, the diagnostics and the history.
Insert(n, new) ==
  LET r == insertNonLocalSymbol(n, new)
  IN /\ pool' = [pool EXCEPT ![n] = r.info]
     /\ diags' = IF r.diag = "none" THEN diags ELSE diags \cup {n}
     /\ read' = [read EXCEPT ![n] = @ \cup {new}]
     /\ failed' = FALSE

\* A mismatch of thread local and ordinary types ends the reading of the inputs.
FailToInsert(n, new) ==
  /\ ~Resolvable(n, new)
  /\ failed' = TRUE
  /\ UNCHANGED <<pool, outSym, libSym, used, diags, collected, phase,
                 toLTO, read>>

Init ==
  /\ pool = [n \in Names |-> NoInfo]
  /\ outSym = [n \in Names |-> NoFile]
  /\ libSym = [n \in Names |-> NoFile]
  /\ used = {}
  /\ diags = {}
  /\ failed = FALSE
  /\ collected = {}
  /\ phase = "read"
  /\ toLTO = [n \in Names |-> NoInfo]
  /\ read = [n \in Names |-> {}]

\* What a generated object may say of a name: it refers to a name some bitcode
\* file mentions, and it defines only what the optimizer was handed, as it was.
GeneratedByLTO(n, s) ==
  /\ \E b \in read[n] : b.bitcode
  /\ \/ s.desc = "Undefined"
     \/ toLTO[n] # NoInfo /\ s.desc = toLTO[n].desc /\ s.binding = toLTO[n].binding
        /\ ~ \E d \in read[n] : d.origin \in LTOObjs /\ ~isUndef(d)

\* IRBuilder::addSymbolFromObject
addSymbolFromObject(f, n, s) ==
  LET new == createInputSymbolRI(s, f)
      r == insertNonLocalSymbol(n, new)
  IN /\ ~failed /\ ~HasRead(n, f)
     /\ \/ phase = "read" /\ f \in Objs \ LateObjs
        \/ phase = "postLTO" /\ f \in LateObjs
        \/ phase = "postLTO" /\ f \in LTOObjs /\ GeneratedByLTO(n, s)
     /\ \/ FailToInsert(n, new)
        \/ /\ Resolvable(n, new)
           /\ Insert(n, new)
           /\ outSym' = [outSym EXCEPT ![n] =
                           IF r.override THEN f
                           ELSE IF @ = NoFile THEN libSym[n] ELSE @]
           /\ collected' = IF r.override THEN collected \ {n} ELSE collected
           /\ UNCHANGED <<libSym, used, phase, toLTO>>

\* Module::addSymbolFromBitCode: the symbol of a bitcode file becomes the output
\* symbol only of a name that has none.
addSymbolFromBitCode(f, n, s) ==
  LET new == createInputSymbolRI(s, f)
  IN /\ phase = "read" /\ ~failed /\ ~HasRead(n, f)
     /\ s.vis # Internal
     /\ \/ FailToInsert(n, new)
        \/ /\ Resolvable(n, new)
           /\ Insert(n, new)
           /\ outSym' = [outSym EXCEPT ![n] = IF @ = NoFile THEN f ELSE @]
           /\ UNCHANGED <<libSym, used, collected, phase, toLTO>>

\* An output symbol that refers to a piece of a section.
HasFragRef(n, file) ==
  \E s \in read[n] : s.origin = file /\ ~s.dyn /\ ~s.bitcode /\ s.desc = "Define"
                     /\ ~isAbsolute(s)

\* ELFDynObjectFile::isELFNeeded
isELFNeeded(l) == l \in AsNeeded => l \in used

\* A fault: the reference of a library that is not needed itself counts.
ResolvesAnyReference(n, r) == r.override /\ HasInfo(n)

\* The library resolves what an object, or a library of the output, refers to.
ResolvesReference(n, r) ==
  /\ r.override /\ HasInfo(n)
  /\ pool[n].origin \in Libs => isELFNeeded(pool[n].origin)

\* IRBuilder::addSymbolFromDynObj: symbols nothing outside the library can see
\* are skipped.
addSymbolFromDynObj(l, n, s) ==
  LET new == createInputSymbolRI(s, l)
      r == insertNonLocalSymbol(n, new)
      out == IF r.override /\ outSym[n] # NoFile THEN l ELSE outSym[n]
      exports == ~BuildsLibrary
                 /\ (HasFragRef(n, out) \/ isCommon(r.info))
  IN /\ phase = "read" /\ ~failed /\ ~HasRead(n, l)
     /\ s.vis \notin {Internal, Hidden}
     /\ \/ FailToInsert(n, new)
        \/ /\ Resolvable(n, new)
           /\ pool' = [pool EXCEPT ![n] =
                         [r.info EXCEPT !.exportToDyn = @ \/ exports]]
           /\ diags' = diags
           /\ read' = [read EXCEPT ![n] = @ \cup {new}]
           /\ failed' = FALSE
           /\ libSym' = IF r.override THEN [libSym EXCEPT ![n] = l] ELSE libSym
           /\ used' = IF ResolvesReference(n, r) THEN used \cup {l} ELSE used
           /\ outSym' = [outSym EXCEPT ![n] = out]
           /\ UNCHANGED <<collected, phase, toLTO>>

\* The symbols that the optimizer must preserve: those marked, unless garbage
\* collection has left them ignored, and what a shared library shows.
PreserveSyms(garbage) ==
  {n \in Names : HasInfo(n) /\
     \/ pool[n].preserve /\ outSym[n] # NoFile /\ n \notin garbage
     \/ /\ BuildsLibrary /\ pool[n].bitcode /\ ~isUndef(pool[n])
        /\ pool[n].vis \in {Default, Protected}}

\* ObjectLinker::finalizeLtoSymbolResolution and beginPostLTO: the prevailing
\* bitcode definitions are handed to the optimizer, and the origins of the
\* preserved ones are used.  Which symbols and which of their sections garbage
\* collection has dropped before, if it has run, is chosen here.
beginPostLTO ==
  /\ phase = "read" /\ ~failed /\ BitcodeFiles # {}
  /\ \E garbage \in SUBSET Names :
       /\ collected' = {n \in garbage : HasFragRef(n, outSym[n])}
       /\ used' = used \cup {pool[n].origin : n \in PreserveSyms(garbage)}
  /\ phase' = "postLTO"
  /\ toLTO' = [n \in Names |->
                IF HasInfo(n) /\ pool[n].bitcode /\ ~isUndef(pool[n])
                  THEN pool[n] ELSE NoInfo]
  /\ UNCHANGED <<pool, outSym, libSym, diags, failed, read>>

\* ObjectLinker::addSymbolToOutput, the conditions that depend on the pool: the
\* origins of the symbols that reach the output are marked as used.
ToOutput(n) ==
  /\ HasInfo(n) /\ ~pool[n].bitcode /\ pool[n].vis # Internal
  /\ outSym[n] # NoFile
  /\ n \notin collected

\* The optimizer keeps the definitions that must stay visible.
VisibleDefinitionsGenerated ==
  \A n \in Names : toLTO[n] # NoInfo /\ toLTO[n].preserve
    => \E s \in read[n] : s.origin \in LTOObjs /\ ~isUndef(s)

addSymbolsToOutput ==
  /\ ~failed
  /\ IF BitcodeFiles = {} THEN phase = "read"
     ELSE phase = "postLTO" /\ VisibleDefinitionsGenerated
  /\ used' = used \cup {pool[n].origin : n \in {m \in Names : ToOutput(m)}}
  /\ phase' = "output"
  /\ UNCHANGED <<pool, outSym, libSym, diags, failed, collected, toLTO,
                 read>>

Next ==
  \/ \E n \in Names :
       \/ \E f \in Objs \cup LTOObjs : \E s \in ObjSymbols[f] : addSymbolFromObject(f, n, s)
       \/ \E f \in BitcodeFiles, s \in BitcodeSymbols : addSymbolFromBitCode(f, n, s)
       \/ \E l \in Libs, s \in LibSymbols : addSymbolFromDynObj(l, n, s)
  \/ beginPostLTO
  \/ addSymbolsToOutput

Spec == Init /\ [][Next]_vars

------------------------------------------------------------------------------
(***************************************************************************)
(* Properties.                                                             *)
(***************************************************************************)
Reading(n) == phase = "read" /\ HasInfo(n)
OrdinatesRead(n) == {getOrdinate(s) : s \in read[n]}
StrongDefinitions(n) == {s \in read[n] : getOrdinate(s) = "D"}

\* The pool, the output symbols and the marks have the shape the code gives them.
TypeOK ==
  /\ pool \in [Names -> ResolveInfos \cup {NoInfo}]
  /\ outSym \in [Names -> Files \cup {NoFile}]
  /\ libSym \in [Names -> Libs \cup {NoFile}]
  /\ used \subseteq Files /\ diags \subseteq Names /\ collected \subseteq Names
  /\ failed \in BOOLEAN
  /\ phase \in {"read", "postLTO", "output"}
  /\ toLTO \in [Names -> ResolveInfos \cup {NoInfo}]
  /\ \A n \in Names : read[n] \subseteq ResolveInfos /\ (HasInfo(n) <=> read[n] # {})

\* Whatever the order of the inputs, the pool holds the strongest thing any of
\* them said: a strong definition, else a strong common, else a weak definition
\* or common, else a definition of a shared library (unless a reference with
\* restricted visibility keeps it out), else a strong reference.
StrongestContributionKept ==
  \A n \in Names : Reading(n) =>
    LET ords == OrdinatesRead(n)
        now  == getOrdinate(pool[n])
        refs == {s \in read[n] : getOrdinate(s) \in {"U", "w_U"}}
    IN CASE "D" \in ords -> now = "D"
         [] "C" \in ords /\ "D" \notin ords -> now = "C"
         [] ords \cap {"D", "C"} = {} /\ ords \cap {"w_D", "w_C"} # {} ->
              now \in ords \cap {"w_D", "w_C"}
         [] ords \subseteq Undefs \cup DynDefs /\ ords \cap DynDefs # {} ->
              (\A s \in refs : s.vis = Default) => now \in DynDefs
         [] ords \subseteq Undefs ->
              now \in ords /\ ("U" \in ords => now = "U")

\* A name is diagnosed as multiply defined exactly when two inputs define it
\* strongly and not as one and the same absolute value, even when the two are
\* not read one after the other.
MultipleDefinitionsDiagnosed ==
  \A n \in Names : Reading(n) =>
    (n \in diags <=>
       \E s, t \in StrongDefinitions(n) :
          s.origin # t.origin
          /\ ~(isAbsolute(s) /\ isAbsolute(t) /\ s.value = t.value))

\* Objects that restrict the visibility of a name restrict it for good: without
\* a shared library in the link, the pool has the most constrained visibility
\* any of them gave it (a multiply defined name fails the link anyway).
VisibilityMostConstrained ==
  \A n \in Names \ diags : Reading(n) /\ (\A s \in read[n] : ~s.dyn) =>
    LET regular == {s.vis : s \in {r \in read[n] : ~r.dyn}} \ {Default}
    IN regular # {} /\ ~pool[n].dyn
         => pool[n].vis \in regular /\ \A v \in regular : pool[n].vis <= v

\* A common symbol is as large as the largest of the commons that were merged.
CommonIsLargest ==
  \A n \in Names : Reading(n) /\ getOrdinate(pool[n]) = "C" =>
    /\ \A s \in read[n] : getOrdinate(s) = "C" => s.size <= pool[n].size
    /\ \E s \in read[n] : isCommon(s) /\ s.size = pool[n].size /\ s.origin = pool[n].origin

\* Before link time optimization a strong definition, once chosen, is final:
\* its file, its size and its value never change, unless an equal absolute
\* definition takes its place.
StrongDefinitionIsFinal ==
  [][\A n \in Names : Reading(n) /\ getOrdinate(pool[n]) = "D" =>
       /\ getOrdinate(pool'[n]) = "D" /\ pool'[n].value = pool[n].value
       /\ isAbsolute(pool[n])
            \/ (pool'[n].origin = pool[n].origin /\ pool'[n].size = pool[n].size)]_vars

\* All that the inputs say of one name agrees on whether it is thread local, or
\* the link has failed.
ThreadLocalityAgrees ==
  \A n \in Names : \A s, t \in read[n] :
    s.type = "ThreadLocal" => t.type = "ThreadLocal"

\* The name is mentioned outside of the bitcode, by an object, or by a library that
\* can see it: a reference with restricted visibility never binds to a library.
MentionedOutside(n) ==
  \E s \in read[n] :
     ~s.bitcode /\ (s.dyn => \A t \in read[n] : ~t.dyn => t.vis = Default)

\* A definition in bitcode that an object or a shared library also mentions is
\* marked to be preserved, in whatever order the two are read.
PreservedForObjects ==
  \A n \in Names \ diags :
    Reading(n) /\ pool[n].bitcode /\ ~isUndef(pool[n]) /\ MentionedOutside(n)
      => pool[n].preserve

\* What an object referred to before link time optimization is still defined
\* by a symbol that can be written when the optimizer is done.
ObjectReferencesSurviveLTO ==
  phase = "output" => \A n \in Names \ diags :
    toLTO[n] # NoInfo /\ (\E s \in read[n] : s.origin \in Objs \ LateObjs)
      => ~isUndef(pool[n]) /\ ~pool[n].bitcode

\* The optimizer is told of every definition that an object or a library mentions,
\* and what an object mentioned is defined when its objects have been read.
OptimizedForObjects == PreservedForObjects /\ ObjectReferencesSurviveLTO

\* A default visible definition that a shared library mentions is exported,
\* whichever of the two is read first and whatever was merged in between.
DefinitionsExportedToLibs ==
  \A n \in Names : HasInfo(n) /\ ~pool[n].dyn /\ ~isUndef(pool[n]) =>
    ((\A s \in read[n] : s.vis = Default) /\ (\E s \in read[n] : s.dyn)
       => pool[n].exportToDyn)

\* A library read under --as-needed is only marked as used for a name it has and
\* that an object, or another library of the output, mentions.
UsedLibrariesAreReferenced ==
  \A l \in used \cap Libs : \E n \in Names :
    /\ HasRead(n, l)
    /\ \E s \in read[n] : s.origin # l /\ (s.dyn => isELFNeeded(s.origin))

\* A reference with restricted visibility is never bound to a definition of a
\* shared library: it must be satisfied inside the output or stay undefined.
RestrictedReferenceStaysUndefined ==
  \A n \in Names : Reading(n) /\ pool[n].dyn /\ isDefine(pool[n]) =>
    \A s \in read[n] : ~s.dyn => s.vis = Default
===============================================================================
