----------------------------- MODULE ArchiveReader -----------------------------
(***************************************************************************)
(* The reading of the command line: objects, archives and groups of        *)
(* archives, in order.  A member of an archive is read when a symbol of    *)
(* the archive's table resolves a strong reference of the name pool, or    *)
(* replaces a common by data; an archive is scanned again while a scan     *)
(* reads something, and the archives of a group while names are added to   *)
(* the pool.                                                               *)
(*                                                                         *)
(* lib/Readers/ArchiveParser.cpp, lib/Object/GroupReader.cpp, and          *)
(* readInputs and readAndProcessInput of lib/Object/ObjectLinker.cpp; the  *)
(* reading that precedes link time optimization, without --wrap.           *)
(***************************************************************************)
EXTENDS StaticResolver, Sequences, FiniteSetsExt

CONSTANTS
  NameOrder,      \* the global names, in the order of every symbol table
  Archives,       \* the archives
  MembersOf,      \* archive -> its members, in order
  Needed,         \* the names of -u, of extern lists and of the entry
  CommandLines,   \* the command lines considered, sequences of nodes
  Contents        \* what the files may say: file -> name -> one of Sayings

Names == {NameOrder[i] : i \in DOMAIN NameOrder}

\* A definition of data or of a function, a weak definition, a common, a strong
\* or a weak reference.
Sayings == {"none", "data", "function", "weak", "common", "ref", "weakref"}

Nodes ==
  [kind : {"object"}, file : Files]
    \cup [kind : {"archive"}, archive : Archives, whole : BOOLEAN]
    \cup [kind : {"group start", "group end"}]

ASSUME ArchivesAssumption ==
  /\ NameOrder \in Seq(Names) /\ Needed \subseteq Names
  /\ CommandLines \subseteq Seq(Nodes)
  /\ MembersOf \in [Archives -> Seq(Files)]
  /\ Contents \subseteq [Files -> [Names -> Sayings]]

VARIABLES
  inputs,     \* the nodes of the command line
  says,       \* the contents of the files
  pool,       \* the name pool
  node,       \* the node being read
  read,       \* the files read: the others are not marked to be skipped
  included,   \* archive -> the entries of its table with status Include
  parse,      \* the archive being parsed, or NoParse
  libs,       \* the archives read, in order (getArchiveLibraryList)
  group,      \* "none", "first" in a group, "again" in the loop after it
  groupFrom,  \* how many archives had been read when the group started
  lib,        \* the archive of the group that the loop has reached
  names,      \* CurNamePoolSize
  failed      \* an error was raised: reading stops

vars == <<node, parse, lib, group, read, included, libs, groupFrom, names,
          failed, pool, inputs, says>>

NoInfo  == "no info"
NoParse == [archive |-> "none"]

Members(a) == {MembersOf[a][i] : i \in DOMAIN MembersOf[a]}

------------------------------------------------------------------------------
\* What a saying is for the resolution of symbols; only that is kept of a symbol.
OrdinateOf(saying) ==
  CASE saying \in {"data", "function"} -> "D"
    [] saying = "weak"                 -> "w_D"
    [] saying = "common"               -> "C"
    [] saying = "ref"                  -> "U"
    [] saying = "weakref"              -> "w_U"

Overriding == {"UND", "WEAK", "DEF", "DEFW", "COM", "CDEF"}

\* StaticResolver::resolve, as far as the ordinate goes.
Merged(n, f) ==
  IF says[f][n] = "none" THEN pool[n]
  ELSE IF pool[n] = NoInfo \/ LinkAction(OrdinateOf(says[f][n]), pool[n]) \in Overriding
    THEN OrdinateOf(says[f][n]) ELSE pool[n]

MultiplyDefined(n, f) ==
  /\ says[f][n] # "none" /\ pool[n] # NoInfo
  /\ LinkAction(OrdinateOf(says[f][n]), pool[n]) = "MDEF"

\* readAndProcessInput for an object: one that was read is skipped.
readObject(f) ==
  IF f \in read THEN UNCHANGED <<pool, read, failed>>
  ELSE /\ pool' = [n \in Names |-> Merged(n, f)]
       /\ failed' = \E n \in Names : MultiplyDefined(n, f)
       /\ read' = read \cup {f}

\* addUndefSymbols, before the first input.
Init ==
  /\ inputs \in CommandLines /\ says \in Contents
  /\ pool = [n \in Names |-> IF n \in Needed THEN "U" ELSE NoInfo]
  /\ node = 1 /\ read = {} /\ failed = FALSE
  /\ included = [a \in Archives |-> {}]
  /\ parse = NoParse /\ libs = <<>>
  /\ group = "none" /\ groupFrom = 0 /\ lib = 0 /\ names = 0

------------------------------------------------------------------------------
(***************************************************************************)
(* The symbol table of an archive, and the scan of it.                     *)
(***************************************************************************)
\* The entries, numbered member by member; the numbers without a definition
\* are not in the table.
TableSize(a) == Len(MembersOf[a]) * Len(NameOrder)
MemberAt(a, i) == MembersOf[a][((i - 1) \div Len(NameOrder)) + 1]
NameAt(i)      == NameOrder[((i - 1) % Len(NameOrder)) + 1]
SymbolTable(a) ==
  {i \in 1..TableSize(a) :
     says[MemberAt(a, i)][NameAt(i)] \in {"data", "function", "weak", "common"}}

\* A fault: a weak reference pulls a member.
includeForWeak(a, i) ==
  CASE pool[NameAt(i)] \in {"U", "w_U"} -> "Include"
    [] pool[NameAt(i)] \notin {"U", "w_U"} -> "Exclude"

shouldIncludeSymbol(a, i) ==
  LET info == pool[NameAt(i)]
  IN CASE info \in {NoInfo, "w_U"} -> "Unknown"
       [] info = "C" ->
            IF says[MemberAt(a, i)][NameAt(i)] = "data" THEN "Include" ELSE "Exclude"
       [] info \in {"D", "w_D"} -> "Exclude"
       [] info = "U" -> "Include"

\* The entries from one on that the scan will include: the ones before them are
\* passed over without an effect.
ToInclude(a, from) ==
  {i \in SymbolTable(a) \ included[a] :
     i >= from /\ shouldIncludeSymbol(a, i) = "Include"}

Parsing == parse # NoParse /\ ~failed

IncludeMember ==
  /\ Parsing
  /\ LET a == parse.archive
     IN /\ ToInclude(a, parse.idx) # {}
        /\ LET i == Min(ToInclude(a, parse.idx))
           IN /\ readObject(MemberAt(a, i))
              /\ included' = [included EXCEPT ![a] = @ \cup {i}]
              /\ parse' = [parse EXCEPT !.idx = i + 1, !.resolved = TRUE]
  /\ UNCHANGED <<inputs, says, node, libs, group, groupFrom, lib, names>>

\* A fault: willSymResolved is not reset before the next scan.
RescanForever ==
  /\ Parsing /\ ToInclude(parse.archive, parse.idx) = {} /\ parse.resolved
  /\ parse' = [parse EXCEPT !.idx = 1]
  /\ UNCHANGED <<inputs, says, pool, node, read, included, libs, group, groupFrom,
                 lib, names, failed>>

\* The end of the table: it is scanned once more when the scan has read a member.
Rescan ==
  /\ Parsing /\ ToInclude(parse.archive, parse.idx) = {} /\ parse.resolved
  /\ parse' = [parse EXCEPT !.idx = 1, !.resolved = FALSE]
  /\ UNCHANGED <<inputs, says, pool, node, read, included, libs, group, groupFrom,
                 lib, names, failed>>

\* A fault: the loop of a group also moves on to the next input.
EndParseMovesOn ==
  /\ Parsing /\ ToInclude(parse.archive, parse.idx) = {} /\ ~parse.resolved
  /\ parse' = NoParse /\ node' = node + 1
  /\ IF group = "again"
       THEN lib' = lib + 1 /\ UNCHANGED libs
       ELSE libs' = Append(libs, inputs[node]) /\ UNCHANGED lib
  /\ UNCHANGED <<inputs, says, pool, read, included, group, groupFrom, names, failed>>

\* An archive in the loop of a group is followed by the next one; one read as an
\* input is added to the list of archives.
EndParse ==
  /\ Parsing /\ ToInclude(parse.archive, parse.idx) = {} /\ ~parse.resolved
  /\ parse' = NoParse
  /\ IF group = "again"
       THEN lib' = lib + 1 /\ UNCHANGED <<libs, node>>
       ELSE /\ libs' = Append(libs, inputs[node])
            /\ node' = node + 1 /\ UNCHANGED lib
  /\ UNCHANGED <<inputs, says, pool, read, included, group, groupFrom, names, failed>>

StartOf(a) == [archive |-> a, idx |-> 1, resolved |-> FALSE]

------------------------------------------------------------------------------
(***************************************************************************)
(* The nodes of the command line: readInputs and readGroup.                *)
(***************************************************************************)
At(kind) ==
  /\ ~failed /\ parse = NoParse /\ group # "again"
  /\ node \in DOMAIN inputs /\ inputs[node].kind = kind

ReadObject ==
  /\ At("object")
  /\ readObject(inputs[node].file)
  /\ node' = node + 1
  /\ UNCHANGED <<inputs, says, included, parse, libs, group, groupFrom, lib, names>>

ReadArchive ==
  /\ At("archive") /\ ~inputs[node].whole
  /\ parse' = StartOf(inputs[node].archive)
  /\ UNCHANGED <<inputs, says, pool, node, read, included, libs, group, groupFrom,
                 lib, names, failed>>

\* includeAllMembers, one member at a time.
IncludeAllMembers ==
  /\ At("archive") /\ inputs[node].whole
  /\ LET a == inputs[node].archive
         unread == {i \in DOMAIN MembersOf[a] : MembersOf[a][i] \notin read}
     IN IF unread # {}
        THEN readObject(MembersOf[a][Min(unread)]) /\ UNCHANGED <<node, libs>>
        ELSE /\ libs' = Append(libs, inputs[node])
             /\ node' = node + 1
             /\ UNCHANGED <<pool, read, failed>>
  /\ UNCHANGED <<inputs, says, included, parse, group, groupFrom, lib, names>>

StartGroup ==
  /\ At("group start")
  /\ group' = "first" /\ groupFrom' = Len(libs)
  /\ node' = node + 1
  /\ UNCHANGED <<inputs, says, pool, read, included, parse, libs, lib, names, failed>>

getNumGlobalSize == Cardinality({n \in Names : pool[n] # NoInfo})

EndGroup ==
  /\ At("group end") /\ group = "first"
  /\ group' = "again" /\ lib' = groupFrom + 1 /\ names' = getNumGlobalSize
  /\ UNCHANGED <<inputs, says, pool, node, read, included, parse, libs, groupFrom,
                 failed>>

\* One archive of the group's loop; one read as a whole is passed over.
ParseAgain ==
  /\ group = "again" /\ ~failed /\ parse = NoParse /\ lib <= Len(libs)
  /\ IF libs[lib].whole
       THEN lib' = lib + 1 /\ UNCHANGED parse
       ELSE parse' = StartOf(libs[lib].archive) /\ UNCHANGED lib
  /\ UNCHANGED <<inputs, says, pool, node, read, included, libs, group, groupFrom,
                 names, failed>>

\* A fault: the archives of the group are searched once more, and no further.
EndPassOnce ==
  /\ group = "again" /\ ~failed /\ parse = NoParse /\ lib > Len(libs)
  /\ group' = "none" /\ node' = node + 1
  /\ UNCHANGED <<inputs, says, pool, read, included, parse, libs, groupFrom, lib,
                 names, failed>>

\* The end of a pass over the group: another one when the pool has new names.
EndPass ==
  /\ group = "again" /\ ~failed /\ parse = NoParse /\ lib > Len(libs)
  /\ IF names # getNumGlobalSize
       THEN lib' = groupFrom + 1 /\ names' = getNumGlobalSize /\ UNCHANGED <<group, node>>
       ELSE group' = "none" /\ node' = node + 1 /\ UNCHANGED <<lib, names>>
  /\ UNCHANGED <<inputs, says, pool, read, included, parse, libs, groupFrom, failed>>

Next == \/ IncludeMember \/ Rescan \/ EndParse
        \/ ReadObject \/ ReadArchive \/ IncludeAllMembers
        \/ StartGroup \/ EndGroup \/ ParseAgain \/ EndPass

Spec == Init /\ [][Next]_vars
FairSpec == Spec /\ WF_vars(Next)

------------------------------------------------------------------------------
(***************************************************************************)
(* Properties.                                                             *)
(***************************************************************************)
Done == failed \/ (parse = NoParse /\ node = Len(inputs) + 1)

TypeOK ==
  /\ inputs \in Seq(Nodes) /\ says \in [Files -> [Names -> Sayings]]
  /\ pool \in [Names -> {"U", "w_U", "D", "w_D", "C", NoInfo}]
  /\ node \in 1..Len(inputs) + 1
  /\ read \subseteq Files /\ failed \in BOOLEAN
  /\ \A a \in Archives : included[a] \subseteq SymbolTable(a)
  /\ parse # NoParse =>
       parse.archive \in Archives /\ parse.idx \in 1..TableSize(parse.archive) + 1
  /\ group \in {"none", "first", "again"}
  /\ groupFrom \in 0..Len(libs) /\ lib \in 0..Len(libs) + 1
  /\ names \in 0..Cardinality(Names)

\* The files that the command line names: objects, and members of whole archives.
Named ==
  {inputs[i].file : i \in {j \in DOMAIN inputs : inputs[j].kind = "object"}}
    \cup UNION {Members(inputs[i].archive) :
                i \in {j \in DOMAIN inputs :
                         inputs[j].kind = "archive" /\ inputs[j].whole}}

\* No member is read without a reason that the files of the link give: whatever
\* was merged into the pool, and in whatever order, a member that is read resolves
\* a name that these files reference strongly and none of them defines, or brings
\* data for what they only reserve.
Extraction == INSTANCE MemberExtraction WITH
  Names <- Names, named <- Named, loaded <- read

ExtractedWhenWanted == Extraction!Spec

\* The members of an archive that would still be read.
Leftover(a) == ToInclude(a, 1)

\* When the parse of an archive ends, no member of it can resolve anything more:
\* references that its own members have made to earlier members included.
ArchiveClosed ==
  [][parse # NoParse /\ parse' = NoParse => Leftover(parse.archive) = {}]_vars

\* The archives of the group, those read as a whole left out.
GroupArchives ==
  {libs[i].archive : i \in {j \in groupFrom + 1..Len(libs) : ~libs[j].whole}}

Closed == \A a \in GroupArchives : Leftover(a) = {}

WeakReferences == \E f \in read, n \in Names : says[f][n] = "weakref"

\* A common replaces a weak definition: data for it is wanted from then on.
CommonsOverWeak ==
  \E f, g \in read, n \in Names : says[f][n] = "weak" /\ says[g][n] = "common"

\* The archives of a group are searched until nothing in the group resolves a
\* reference any more, though the loop only counts the names of the pool: a
\* member that needs the group once more has added a name, unless a name was known
\* by a weak reference or by a weak definition that a common has replaced.
GroupClosedByNames ==
  [][group = "again" /\ group' = "none" /\ ~WeakReferences /\ ~CommonsOverWeak
       => Closed]_vars

\* Neither the scans of one archive nor those of a group stop too early.
ScansClosed == ArchiveClosed /\ GroupClosedByNames

\* The scans of an archive and the loop over a group come to an end.
Termination == <>Done
================================================================================
