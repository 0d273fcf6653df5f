------------------------- MODULE ArchiveReader_proofs -------------------------
(***************************************************************************)
(* Proofs about ArchiveReader, for all command lines and all contents of   *)
(* the files: what the pool says of a name is what the files read say of   *)
(* it, in whatever order they were merged.  That a member is read only     *)
(* when it is wanted, and that the loop over a group may count names,      *)
(* follow from it.                                                         *)
(***************************************************************************)
EXTENDS ArchiveReader, FiniteSetTheorems, TLAPS

------------------------------------------------------------------------------
\* Naturals and tables.

\* A set of naturals with a member has a least one: the sets of the numbers below
\* each of them are finite, and one of these is a strict superset of none.
LEMMA LeastNatural ==
  ASSUME NEW S, S \subseteq Nat, S # {}
  PROVE  Min(S) \in S /\ \A y \in S : Min(S) <= y
<1> DEFINE Below(n) == 0..n - 1
           T == {Below(n) : n \in S}
<1>1. T \subseteq FiniteSubsetsOf(Nat) /\ T # {}
  <2>1. ASSUME NEW n \in S  PROVE Below(n) \in FiniteSubsetsOf(Nat)
    <3>1. IsFiniteSet(Below(n))
      BY FS_Interval
    <3> QED  BY <3>1 DEF FiniteSubsetsOf
  <2> QED  BY <2>1
<1>2. PICK X \in T : \A Y \in T : ~(<<Y, X>> \in StrictSubsetOrdering(Nat))
  BY <1>1, FS_StrictSubsetOrderingWellFounded, WFMin, Zenon
<1>3. PICK x \in S : X = Below(x)
  BY <1>2
<1>4. ASSUME NEW y \in S, y < x
      PROVE  FALSE
  <2>1. Below(y) \subseteq Below(x) /\ Below(y) # Below(x)
    <3>1. y \in Below(x) /\ y \notin Below(y)
      BY <1>4
    <3> QED  BY <3>1, <1>4
  <2>2. <<Below(y), Below(x)>> \in StrictSubsetOrdering(Nat)
    <3>1. Below(y) \in SUBSET Nat /\ Below(x) \in SUBSET Nat
      BY <1>4
    <3> HIDE DEF Below
    <3>2. ASSUME NEW A \in SUBSET Nat, NEW B \in SUBSET Nat, A \subseteq B, A # B
          PROVE  <<A, B>> \in StrictSubsetOrdering(Nat)
      BY <3>2 DEF StrictSubsetOrdering
    <3> QED  BY <2>1, <3>1, <3>2
  <2> QED  BY <2>2, <1>2, <1>3
<1>5. ASSUME NEW y \in S  PROVE x <= y
  <2>1. x \in Nat /\ y \in Nat /\ ~(y < x)
    BY <1>4
  <2> QED  BY <2>1
<1> HIDE DEF T, Below
<1>6. \E z \in S : \A y \in S : z <= y
  BY <1>5
<1> QED  BY <1>6, Zenon DEF Min

LEMMA PlaceInTable ==
  ASSUME NEW M \in Nat, NEW N \in Nat, NEW i \in 1..M * N
  PROVE  /\ ((i - 1) \div N) + 1 \in 1..M
         /\ ((i - 1) % N) + 1 \in 1..N
<1> DEFINE q == (i - 1) \div N
<1>1. N > 0 /\ i - 1 \in Nat
  BY SMT
<1>2. /\ (i - 1) % N \in 0..N - 1 /\ q \in Nat
      /\ i - 1 = N * q + ((i - 1) % N)
  BY <1>1
<1> HIDE DEF q
<1>3. q < M
  <2> SUFFICES ASSUME q >= M  PROVE FALSE
    BY <1>2
  <2>1. N * q >= N * M
    BY <1>1, <1>2
  <2> QED  BY <2>1, <1>2
<1> QED  BY <1>1, <1>2, <1>3 DEF q

\* An entry of a table belongs to a member of the archive and to a global name.
LEMMA EntryPlace ==
  ASSUME NEW a \in Archives, NEW i \in SymbolTable(a)
  PROVE  MemberAt(a, i) \in Files /\ NameAt(i) \in Names /\ i \in 1..TableSize(a)
<1>1. /\ MembersOf[a] \in Seq(Files) /\ NameOrder \in Seq(Names)
      /\ Len(MembersOf[a]) \in Nat /\ Len(NameOrder) \in Nat
  BY ArchivesAssumption
<1>2. i \in 1..TableSize(a)
  BY DEF SymbolTable
<1>3. i \in 1..Len(MembersOf[a]) * Len(NameOrder)
  BY <1>2 DEF TableSize
<1>4. /\ ((i - 1) \div Len(NameOrder)) + 1 \in 1..Len(MembersOf[a])
      /\ ((i - 1) % Len(NameOrder)) + 1 \in 1..Len(NameOrder)
  BY <1>1, <1>3, PlaceInTable
<1> QED  BY <1>1, <1>2, <1>4 DEF MemberAt, NameAt

LEMMA NamesFinite ==
  IsFiniteSet(Names) /\ Cardinality(Names) \in Nat
<1>1. NameOrder \in Seq(Names) /\ Len(NameOrder) \in Nat
  BY ArchivesAssumption
<1>2. NameOrder \in Surjection(1..Len(NameOrder), Names)
  BY <1>1 DEF Names, Surjection
<1>3. IsFiniteSet(Names)
  BY <1>1, <1>2, FS_NatSurjection DEF ExistsSurjection
<1> QED  BY <1>3, FS_CardinalityType

------------------------------------------------------------------------------
\* What the files read say of a name decides what the pool says of it.

Said(n, S) == \E f \in read : says[f][n] \in S

\* The strongest of what was said: a strong definition, a common, a weak
\* definition, a reference, a weak reference.
Strongest(d, c, w, u, x) ==
  IF d THEN "D" ELSE IF c THEN "C" ELSE IF w THEN "w_D"
  ELSE IF u THEN "U" ELSE IF x THEN "w_U" ELSE NoInfo

Standing(n) ==
  Strongest(Said(n, {"data", "function"}), Said(n, {"common"}), Said(n, {"weak"}),
            n \in Needed \/ Said(n, {"ref"}), Said(n, {"weakref"}))

PoolStands == \A n \in Names : pool[n] = Standing(n)

Entries == {"U", "w_U", "D", "w_D", "C"}

Rank(o) ==
  CASE o = "D" -> 5 [] o = "C" -> 4 [] o = "w_D" -> 3 [] o = "U" -> 2 [] o = "w_U" -> 1

\* In the table of resolutions a new symbol replaces the old one when it is of a
\* higher rank.
LEMMA HigherReplaces ==
  ASSUME NEW new \in Entries, NEW old \in Entries
  PROVE  LinkAction(new, old) \in Overriding <=> Rank(new) > Rank(old)
<1>1. CASE new = "U"
  BY <1>1 DEF LinkAction, Overriding, Rank, Entries, Undefs, DynUndefs, DynDefs, Commons
<1>2. CASE new = "w_U"
  BY <1>2 DEF LinkAction, Overriding, Rank, Entries, Undefs, DynUndefs, DynDefs, Commons
<1>3. CASE new = "D"
  BY <1>3 DEF LinkAction, Overriding, Rank, Entries, Undefs, DynUndefs, DynDefs, Commons
<1>4. CASE new = "w_D"
  BY <1>4 DEF LinkAction, Overriding, Rank, Entries, Undefs, DynUndefs, DynDefs, Commons
<1>5. CASE new = "C"
  BY <1>5 DEF LinkAction, Overriding, Rank, Entries, Undefs, DynUndefs, DynDefs, Commons
<1> QED  BY <1>1, <1>2, <1>3, <1>4, <1>5 DEF Entries

LEMMA OrdinateIsEntry ==
  ASSUME NEW s \in Sayings, s # "none"
  PROVE  OrdinateOf(s) \in Entries
BY DEF Sayings, OrdinateOf, Entries

------------------------------------------------------------------------------
\* The inductive invariant, part by part.

ArchiveNodes == [kind : {"archive"}, archive : Archives, whole : BOOLEAN]

Typed ==
  /\ inputs \in Seq(Nodes) /\ says \in [Files -> [Names -> Sayings]]
  /\ pool \in [Names -> Entries \cup {NoInfo}]
  /\ node \in 1..Len(inputs) + 1
  /\ read \subseteq Files /\ failed \in BOOLEAN
  /\ included \in [Archives -> SUBSET Nat]
  /\ \A a \in Archives : included[a] \subseteq SymbolTable(a)
  /\ parse # NoParse =>
       /\ parse \in [archive : Archives, idx : Nat, resolved : BOOLEAN]
       /\ parse.idx \in 1..TableSize(parse.archive) + 1
  /\ group \in {"none", "first", "again"}
  /\ libs \in Seq(ArchiveNodes)
  /\ groupFrom \in 0..Len(libs) /\ lib \in 0..Len(libs) + 1
  /\ names \in 0..Cardinality(Names)

\* Where the reader is: what it parses is the node that it has reached or an archive
\* of the group, and a scan that has resolved nothing yet goes over the whole table.
Placed ==
  /\ (parse # NoParse \/ group = "again") => node \in DOMAIN inputs
  /\ parse # NoParse /\ group # "again" => inputs[node] \in ArchiveNodes
  /\ group = "again" => lib \in groupFrom + 1..Len(libs) + 1 /\ names <= getNumGlobalSize
  /\ group = "again" /\ parse # NoParse =>
       lib <= Len(libs) /\ parse.archive = libs[lib].archive
  /\ parse # NoParse /\ ~parse.resolved => parse.idx = 1

\* In a pass over a group that has added no name so far, the archives passed have
\* nothing left to give.
PassedClosed ==
  group = "again" /\ names = getNumGlobalSize /\ ~WeakReferences /\ ~CommonsOverWeak =>
    \A j \in groupFrom + 1..lib - 1 : ~libs[j].whole => Leftover(libs[j].archive) = {}

ReadingInv == Typed /\ PoolStands /\ Placed /\ PassedClosed

------------------------------------------------------------------------------
\* The reading of a file.

LEMMA SizeOfPool ==
  /\ IsFiniteSet({n \in Names : pool[n] # NoInfo})
  /\ getNumGlobalSize \in 0..Cardinality(Names)
<1>1. {n \in Names : pool[n] # NoInfo} \in SUBSET Names
  OBVIOUS
<1> QED  BY <1>1, NamesFinite, FS_Subset, FS_CardinalityType DEF getNumGlobalSize

\* One more saying, merged as the table has it.
LEMMA StrongestOfOneMore ==
  ASSUME NEW d \in BOOLEAN, NEW c \in BOOLEAN, NEW w \in BOOLEAN, NEW u \in BOOLEAN,
         NEW x \in BOOLEAN, NEW s \in Sayings, s # "none"
  PROVE  LET old == Strongest(d, c, w, u, x)
             new == OrdinateOf(s)
         IN  (IF old = NoInfo \/ LinkAction(new, old) \in Overriding THEN new ELSE old)
               = Strongest(d \/ s \in {"data", "function"}, c \/ s = "common",
                           w \/ s = "weak", u \/ s = "ref", x \/ s = "weakref")
<1> DEFINE old == Strongest(d, c, w, u, x)
           new == OrdinateOf(s)
<1>1. new \in Entries
  BY OrdinateIsEntry
<1>2. old # NoInfo => old \in Entries
  BY DEF Strongest, Entries
<1>3. /\ Rank("D") = 5 /\ Rank("C") = 4 /\ Rank("w_D") = 3 /\ Rank("U") = 2
      /\ Rank("w_U") = 1
  BY DEF Rank
<1>4. old # NoInfo => (LinkAction(new, old) \in Overriding <=> Rank(new) > Rank(old))
  BY <1>1, <1>2, HigherReplaces
<1>5. /\ s \in {"data", "function"} => new = "D"
      /\ s = "common" => new = "C"
      /\ s = "weak" => new = "w_D"
      /\ s = "ref" => new = "U"
      /\ s = "weakref" => new = "w_U"
  BY DEF OrdinateOf
<1>6. old = Strongest(d, c, w, u, x)
  OBVIOUS
<1> HIDE DEF old, new
<1> DEFINE replaces == LinkAction(new, old) \in Overriding
<1>9. old # NoInfo =>
        /\ new = "D" => (replaces <=> old # "D")
        /\ new = "C" => (replaces <=> old \notin {"D", "C"})
        /\ new = "w_D" => (replaces <=> old \in {"U", "w_U"})
        /\ new = "U" => (replaces <=> old = "w_U")
        /\ new = "w_U" => ~replaces
  BY <1>2, <1>3, <1>4 DEF Entries
<1> HIDE DEF replaces
<1>7. (IF old = NoInfo \/ replaces THEN new ELSE old)
        = Strongest(d \/ s \in {"data", "function"}, c \/ s = "common",
                    w \/ s = "weak", u \/ s = "ref", x \/ s = "weakref")
  <2>1. CASE s \in {"data", "function"}
    BY <1>5, <1>6, <1>9, <2>1 DEF Strongest, NoInfo
  <2>2. CASE s = "common"
    BY <1>5, <1>6, <1>9, <2>2 DEF Strongest, NoInfo
  <2>3. CASE s = "weak"
    BY <1>5, <1>6, <1>9, <2>3 DEF Strongest, NoInfo
  <2>4. CASE s = "ref"
    BY <1>5, <1>6, <1>9, <2>4 DEF Strongest, NoInfo
  <2>5. CASE s = "weakref"
    BY <1>5, <1>6, <1>9, <2>5 DEF Strongest, NoInfo
  <2> QED  BY <2>1, <2>2, <2>3, <2>4, <2>5 DEF Sayings
<1> QED  BY <1>7 DEF old, new, replaces

LEMMA MergedStands ==
  ASSUME NEW f \in Files, NEW n \in Names, says \in [Files -> [Names -> Sayings]],
         pool[n] = Standing(n), read' = read \cup {f}, says' = says
  PROVE  Merged(n, f) = Standing(n)'
<1> DEFINE d == Said(n, {"data", "function"})
           c == Said(n, {"common"})
           w == Said(n, {"weak"})
           u == n \in Needed \/ Said(n, {"ref"})
           x == Said(n, {"weakref"})
           s == says[f][n]
<1>1. s \in Sayings
  OBVIOUS
<1>2. /\ d \in BOOLEAN /\ c \in BOOLEAN /\ w \in BOOLEAN /\ u \in BOOLEAN /\ x \in BOOLEAN
  BY DEF Said
<1>3. /\ Said(n, {"data", "function"})' = (d \/ s \in {"data", "function"})
      /\ Said(n, {"common"})' = (c \/ s = "common")
      /\ Said(n, {"weak"})' = (w \/ s = "weak")
      /\ (n \in Needed \/ Said(n, {"ref"}))' = (u \/ s = "ref")
      /\ Said(n, {"weakref"})' = (x \/ s = "weakref")
  BY DEF Said
<1>4. Standing(n)' = Strongest(d \/ s \in {"data", "function"}, c \/ s = "common",
                               w \/ s = "weak", u \/ s = "ref", x \/ s = "weakref")
  BY <1>3, Zenon DEF Standing
<1>5. Standing(n) = Strongest(d, c, w, u, x)
  BY DEF Standing
<1>6. Merged(n, f) =
        IF s = "none" THEN Standing(n)
        ELSE IF Standing(n) = NoInfo \/ LinkAction(OrdinateOf(s), Standing(n)) \in Overriding
          THEN OrdinateOf(s) ELSE Standing(n)
  BY DEF Merged
<1> HIDE DEF d, c, w, u, x, s
<1>7. CASE s # "none"
  BY <1>1, <1>2, <1>4, <1>5, <1>6, <1>7, StrongestOfOneMore
<1>8. CASE s = "none"
  BY <1>2, <1>4, <1>5, <1>6, <1>8 DEF Strongest
<1> QED  BY <1>7, <1>8

LEMMA FileRead ==
  ASSUME NEW f \in Files, Typed, PoolStands, readObject(f), says' = says
  PROVE  /\ PoolStands' /\ pool' \in [Names -> Entries \cup {NoInfo}]
         /\ read' = read \cup {f} /\ failed' \in BOOLEAN
         /\ \A n \in Names : pool[n] # NoInfo => pool'[n] # NoInfo
         /\ getNumGlobalSize <= getNumGlobalSize'
<1>1. CASE f \in read
  <2>1. UNCHANGED <<pool, read, failed, says>>
    BY <1>1 DEF readObject
  <2>2. PoolStands' /\ getNumGlobalSize' = getNumGlobalSize
    BY <2>1 DEF PoolStands, Standing, Said, getNumGlobalSize
  <2>3. getNumGlobalSize \in Int
    BY SizeOfPool, NamesFinite
  <2> QED  BY <1>1, <2>1, <2>2, <2>3 DEF Typed
<1>2. CASE f \notin read
  <2>1. /\ pool' = [n \in Names |-> Merged(n, f)] /\ read' = read \cup {f}
        /\ failed' \in BOOLEAN
    BY <1>2 DEF readObject
  <2>2. ASSUME NEW n \in Names  PROVE Merged(n, f) = Standing(n)'
    BY <2>1, MergedStands DEF Typed, PoolStands
  <2>3. PoolStands'
    BY <2>1, <2>2 DEF PoolStands
  <2>4. \A n \in Names : Standing(n)' \in Entries \cup {NoInfo}
    BY DEF Standing, Strongest, Entries
  <2>5. pool' \in [Names -> Entries \cup {NoInfo}]
    BY <2>1, <2>2, <2>4
  <2>6. ASSUME NEW n \in Names, pool[n] # NoInfo  PROVE pool'[n] # NoInfo
    <3>1. \A S : Said(n, S) => Said(n, S)'
      BY <2>1 DEF Said
    <3> QED  BY <2>3, <2>6, <3>1 DEF PoolStands, Standing, Strongest, NoInfo
  <2>7. getNumGlobalSize <= getNumGlobalSize'
    <3>1. /\ {n \in Names : pool[n] # NoInfo} \in SUBSET {n \in Names : pool'[n] # NoInfo}
          /\ IsFiniteSet({n \in Names : pool'[n] # NoInfo})
      <4>1. {n \in Names : pool'[n] # NoInfo} \in SUBSET Names
        OBVIOUS
      <4> QED  BY <2>6, <4>1, NamesFinite, FS_Subset
    <3> QED  BY <3>1, FS_Subset DEF getNumGlobalSize
  <2> QED  BY <2>1, <2>3, <2>5, <2>6, <2>7
<1> QED  BY <1>1, <1>2

LEMMA PoolUntouched ==
  ASSUME PoolStands, UNCHANGED <<pool, read, says>>
  PROVE  /\ PoolStands' /\ getNumGlobalSize' = getNumGlobalSize
         /\ WeakReferences' = WeakReferences /\ CommonsOverWeak' = CommonsOverWeak
         /\ \A a : SymbolTable(a)' = SymbolTable(a)
         /\ included' = included => \A a : Leftover(a)' = Leftover(a)
<1>1. PoolStands' /\ getNumGlobalSize' = getNumGlobalSize
  BY DEF PoolStands, Standing, Said, getNumGlobalSize
<1>2. WeakReferences' = WeakReferences /\ CommonsOverWeak' = CommonsOverWeak
  BY DEF WeakReferences, CommonsOverWeak
<1>3. \A a : SymbolTable(a)' = SymbolTable(a)
  BY DEF SymbolTable
<1>4. ASSUME included' = included, NEW a
      PROVE  Leftover(a)' = Leftover(a)
  <2>1. \A i : shouldIncludeSymbol(a, i)' = shouldIncludeSymbol(a, i)
    BY DEF shouldIncludeSymbol
  <2> QED  BY <1>3, <1>4, <2>1 DEF Leftover, ToInclude
<1> QED  BY <1>1, <1>2, <1>3, <1>4

Wanted(o, s) == o = "U" \/ (o = "C" /\ s = "data")

LEMMA EntryWanted ==
  ASSUME NEW o \in Entries \cup {NoInfo}, NEW s
  PROVE  (CASE o \in {NoInfo, "w_U"} -> "Unknown"
            [] o = "C" -> IF s = "data" THEN "Include" ELSE "Exclude"
            [] o \in {"D", "w_D"} -> "Exclude"
            [] o = "U" -> "Include") = "Include" <=> Wanted(o, s)
<1>1. CASE o \in {NoInfo, "w_U"}
  BY <1>1 DEF Entries, NoInfo, Wanted
<1>2. CASE o = "C"
  BY <1>2 DEF Entries, NoInfo, Wanted
<1>3. CASE o \in {"D", "w_D"}
  BY <1>3 DEF Entries, NoInfo, Wanted
<1>4. CASE o = "U"
  BY <1>4 DEF Entries, NoInfo, Wanted
<1> QED  BY <1>1, <1>2, <1>3, <1>4 DEF Entries

LEMMA LeftIsWanted ==
  ASSUME NEW a \in Archives, pool \in [Names -> Entries \cup {NoInfo}]
  PROVE  \A i, k : i \in ToInclude(a, k) <=>
           /\ i \in SymbolTable(a) \ included[a] /\ i >= k
           /\ Wanted(pool[NameAt(i)], says[MemberAt(a, i)][NameAt(i)])
<1>1. ASSUME NEW i \in SymbolTable(a)
      PROVE  shouldIncludeSymbol(a, i) = "Include" <=>
               Wanted(pool[NameAt(i)], says[MemberAt(a, i)][NameAt(i)])
  <2>1. pool[NameAt(i)] \in Entries \cup {NoInfo}
    BY EntryPlace
  <2> QED  BY <2>1, EntryWanted DEF shouldIncludeSymbol
<1> QED  BY <1>1 DEF ToInclude

\* Reading a file that adds no name leaves an archive that had nothing to give as it
\* is: a reference that is new was known by a weak one, a common that is new by a
\* weak definition.
LEMMA StaysClosed ==
  ASSUME NEW f \in Files, Typed, Typed', PoolStands, readObject(f), says' = says,
         \A a \in Archives : included[a] \subseteq included'[a],
         getNumGlobalSize' = getNumGlobalSize, ~WeakReferences', ~CommonsOverWeak',
         NEW a \in Archives, Leftover(a) = {}
  PROVE  Leftover(a)' = {}
<1>1. /\ PoolStands' /\ read' = read \cup {f}
      /\ \A n \in Names : pool[n] # NoInfo => pool'[n] # NoInfo
  BY FileRead
<1>2. \A n \in Names : pool'[n] # NoInfo => pool[n] # NoInfo
  <2> DEFINE K == {n \in Names : pool[n] # NoInfo}
             L == {n \in Names : pool'[n] # NoInfo}
  <2>1. K \in SUBSET L /\ L \in SUBSET Names
    BY <1>1
  <2>2. IsFiniteSet(L)
    BY <2>1, NamesFinite, FS_Subset
  <2>3. Cardinality(L) = Cardinality(K)
    BY DEF getNumGlobalSize
  <2>4. L = K
    BY <2>1, <2>2, <2>3, FS_Subset
  <2> QED  BY <2>4
<1>3. SUFFICES ASSUME NEW i \in Leftover(a)'  PROVE FALSE
  OBVIOUS
<1>4. /\ SymbolTable(a)' = SymbolTable(a)
      /\ i \in SymbolTable(a) /\ i \notin included'[a] /\ i >= 1
      /\ shouldIncludeSymbol(a, i)' = "Include"
  BY <1>3 DEF Leftover, ToInclude, SymbolTable
<1>5. i \notin included[a] /\ MemberAt(a, i) \in Files /\ NameAt(i) \in Names
  BY <1>4, EntryPlace
<1> DEFINE n == NameAt(i)
<1>6. \/ pool'[n] = "U"
      \/ pool'[n] = "C" /\ says[MemberAt(a, i)][n] = "data"
  <2>1. pool'[n] \in Entries \cup {NoInfo}
    BY <1>5 DEF Typed
  <2>2. Wanted(pool'[n], says'[MemberAt(a, i)][n])
    BY <1>4, <2>1, EntryWanted DEF shouldIncludeSymbol
  <2> QED  BY <2>2 DEF Wanted
<1>7. pool[n] # "U" /\ (pool[n] = "C" => says[MemberAt(a, i)][n] # "data")
  <2>1. i \notin ToInclude(a, 1)
    BY DEF Leftover
  <2>2. \A k, m : k \in ToInclude(a, m) <=>
           /\ k \in SymbolTable(a) \ included[a] /\ k >= m
           /\ Wanted(pool[NameAt(k)], says[MemberAt(a, k)][NameAt(k)])
    BY LeftIsWanted DEF Typed
  <2>3. ~Wanted(pool[n], says[MemberAt(a, i)][n])
    BY <1>4, <1>5, <2>1, <2>2
  <2> QED  BY <2>3 DEF Wanted
<1>8. pool[n] = Standing(n) /\ pool'[n] = Standing(n)' /\ pool[n] # NoInfo
  BY <1>1, <1>2, <1>5, <1>6 DEF PoolStands, NoInfo
<1>9. \A S : Said(n, S) => Said(n, S)'
  BY <1>1 DEF Said
<1>10. pool[n] \in {"w_U", "w_D"}
  BY <1>6, <1>7, <1>8, <1>9 DEF Standing, Strongest, NoInfo
<1>11. CASE pool[n] = "w_U"
  <2>1. Said(n, {"weakref"})
    BY <1>8, <1>11 DEF Standing, Strongest, NoInfo
  <2> QED  BY <1>1, <1>5, <2>1 DEF Said, WeakReferences
<1>12. CASE pool[n] = "w_D"
  <2>1. Said(n, {"weak"}) /\ pool'[n] = "C"
    BY <1>6, <1>8, <1>9, <1>12 DEF Standing, Strongest, NoInfo
  <2>2. Said(n, {"common"})'
    BY <1>8, <2>1 DEF Standing, Strongest, NoInfo
  <2> QED  BY <1>1, <1>5, <2>1, <2>2 DEF Said, CommonsOverWeak
<1> QED  BY <1>10, <1>11, <1>12

------------------------------------------------------------------------------
\* Every step preserves the invariant.

LEMMA InitReading == Init => ReadingInv
<1> SUFFICES ASSUME Init  PROVE ReadingInv
  OBVIOUS
<1>1. inputs \in Seq(Nodes) /\ says \in [Files -> [Names -> Sayings]]
  BY ArchivesAssumption DEF Init
<1>2. Len(inputs) \in Nat /\ Cardinality(Names) \in Nat
  BY <1>1, NamesFinite
<1>3. pool \in [Names -> Entries \cup {NoInfo}]
  BY DEF Init, Entries
<1>4. Typed
  <2>1. node \in 1..Len(inputs) + 1 /\ names \in 0..Cardinality(Names)
    BY <1>2 DEF Init
  <2>2. libs \in Seq(ArchiveNodes) /\ groupFrom \in 0..Len(libs) /\ lib \in 0..Len(libs) + 1
    BY DEF Init
  <2>3. /\ included \in [Archives -> SUBSET Nat]
        /\ \A a \in Archives : included[a] \subseteq SymbolTable(a)
    BY DEF Init
  <2> QED  BY <1>1, <1>3, <2>1, <2>2, <2>3 DEF Init, Typed
<1>5. PoolStands
  <2>1. \A n, S : ~Said(n, S)
    BY DEF Init, Said
  <2> QED  BY <2>1 DEF Init, PoolStands, Standing, Strongest
<1>6. Placed /\ PassedClosed
  BY DEF Init, Placed, PassedClosed
<1> QED  BY <1>4, <1>5, <1>6 DEF ReadingInv

\* Where nothing is read and no pass over a group is under way, before or after.
LEMMA OutsidePasses ==
  ASSUME PoolStands, UNCHANGED <<pool, read, says>>, group' # "again"
  PROVE  PoolStands' /\ PassedClosed'
BY PoolUntouched DEF PassedClosed

LEMMA MemberIncluded ==
  ASSUME ReadingInv, IncludeMember
  PROVE  ReadingInv'
<1> DEFINE a == parse.archive
           i == Min(ToInclude(a, parse.idx))
<1>1. /\ parse # NoParse /\ ToInclude(a, parse.idx) # {}
      /\ readObject(MemberAt(a, i)) /\ included' = [included EXCEPT ![a] = @ \cup {i}]
      /\ parse' = [parse EXCEPT !.idx = i + 1, !.resolved = TRUE]
      /\ UNCHANGED <<inputs, says, node, libs, group, groupFrom, lib, names>>
  BY DEF IncludeMember, Parsing
<1>2. a \in Archives /\ parse \in [archive : Archives, idx : Nat, resolved : BOOLEAN]
  BY <1>1 DEF ReadingInv, Typed
<1>3. i \in ToInclude(a, parse.idx)
  <2>1. ToInclude(a, parse.idx) \subseteq Nat
    BY DEF ToInclude, SymbolTable
  <2> QED  BY <1>1, <2>1, LeastNatural
<1>4. i \in SymbolTable(a)
  BY <1>3 DEF ToInclude
<1>5. /\ MemberAt(a, i) \in Files /\ i \in 1..TableSize(a) /\ i \in Nat
  BY <1>2, <1>4, EntryPlace
<1> HIDE DEF i
<1>6. /\ PoolStands' /\ pool' \in [Names -> Entries \cup {NoInfo}]
      /\ read' = read \cup {MemberAt(a, i)} /\ failed' \in BOOLEAN
      /\ getNumGlobalSize <= getNumGlobalSize'
  BY <1>1, <1>5, FileRead DEF ReadingInv
<1>7. \A b : SymbolTable(b)' = SymbolTable(b) /\ TableSize(b)' = TableSize(b)
  BY <1>1 DEF SymbolTable, TableSize
<1>8. /\ included' \in [Archives -> SUBSET Nat]
      /\ \A b \in Archives : included[b] \subseteq included'[b] /\ included'[b] \subseteq SymbolTable(b)
  BY <1>1, <1>4, <1>5 DEF ReadingInv, Typed
<1>9. /\ parse' \in [archive : Archives, idx : Nat, resolved : BOOLEAN]
      /\ parse'.archive = a /\ parse'.idx = i + 1 /\ parse'.resolved /\ parse' # NoParse
  <2>1. /\ parse' \in [archive : Archives, idx : Nat, resolved : BOOLEAN]
        /\ parse'.archive = a /\ parse'.idx = i + 1 /\ parse'.resolved
    <3>1. parse' = [archive |-> a, idx |-> i + 1, resolved |-> TRUE]
      BY <1>1, <1>2
    <3> QED  BY <1>2, <1>5, <3>1
  <2>2. "idx" \in DOMAIN parse' /\ "idx" \notin DOMAIN NoParse
    BY <2>1 DEF NoParse
  <2> QED  BY <2>1, <2>2
<1>10. parse'.idx \in 1..TableSize(a) + 1
  <2>1. TableSize(a) \in Int
    BY <1>2, ArchivesAssumption DEF TableSize
  <2> QED  BY <1>5, <1>9, <2>1
<1>11. Typed'
  <2>1. parse' # NoParse =>
          /\ parse' \in [archive : Archives, idx : Nat, resolved : BOOLEAN]
          /\ parse'.idx \in 1..TableSize(parse'.archive) + 1
    <3>1. TableSize(parse'.archive) = TableSize(a)
      BY <1>9
    <3> QED  BY <1>9, <1>10, <3>1
  <2>2. read' \subseteq Files
    BY <1>5, <1>6 DEF ReadingInv, Typed
  <2>3. \A b \in Archives : included'[b] \subseteq SymbolTable(b)'
    BY <1>7, <1>8
  <2>4. (parse # NoParse =>
          /\ parse \in [archive : Archives, idx : Nat, resolved : BOOLEAN]
          /\ parse.idx \in 1..TableSize(parse.archive) + 1)'
    BY <2>1
  <2> QED  BY <1>1, <1>6, <1>8, <2>2, <2>3, <2>4 DEF ReadingInv, Typed
<1>12. Placed'
  <2>1. getNumGlobalSize \in Int /\ getNumGlobalSize' \in Int /\ names \in Int
    <3>1. {n \in Names : pool'[n] # NoInfo} \in SUBSET Names
      OBVIOUS
    <3>2. getNumGlobalSize' \in Int
      BY <3>1, NamesFinite, FS_Subset, FS_CardinalityType DEF getNumGlobalSize
    <3> QED  BY <3>2, SizeOfPool, NamesFinite DEF ReadingInv, Typed
  <2> QED  BY <1>1, <1>6, <1>9, <2>1 DEF ReadingInv, Placed
<1>13. PassedClosed'
  <2> SUFFICES ASSUME group = "again", names = getNumGlobalSize', ~WeakReferences',
                      ~CommonsOverWeak', NEW j \in groupFrom + 1..lib - 1, ~libs[j].whole
               PROVE  Leftover(libs[j].archive)' = {}
    BY <1>1 DEF PassedClosed
  <2>1. getNumGlobalSize' = getNumGlobalSize /\ names = getNumGlobalSize
    <3>1. names <= getNumGlobalSize
      BY <1>1 DEF ReadingInv, Placed
    <3>2. getNumGlobalSize \in Int /\ names \in Int
      BY SizeOfPool, NamesFinite DEF ReadingInv, Typed
    <3> QED  BY <1>6, <3>1, <3>2
  <2>2. ~WeakReferences /\ ~CommonsOverWeak
    BY <1>1, <1>6 DEF WeakReferences, CommonsOverWeak
  <2>3. Leftover(libs[j].archive) = {}
    BY <1>1, <2>1, <2>2 DEF ReadingInv, PassedClosed
  <2>4. libs[j].archive \in Archives
    <3>1. libs \in Seq(ArchiveNodes) /\ groupFrom \in Nat /\ lib <= Len(libs) + 1
      BY DEF ReadingInv, Typed
    <3>2. j \in 1..Len(libs) /\ lib \in Int
      BY <3>1 DEF ReadingInv, Typed
    <3>3. libs[j] \in ArchiveNodes
      BY <3>1, <3>2
    <3> QED  BY <3>3 DEF ArchiveNodes
  <2> QED  BY <1>1, <1>5, <1>8, <1>11, <2>1, <2>2, <2>3, <2>4, StaysClosed DEF ReadingInv
<1> QED  BY <1>6, <1>11, <1>12, <1>13 DEF ReadingInv

LEMMA TableScannedAgain ==
  ASSUME ReadingInv, Rescan
  PROVE  ReadingInv'
<1>1. /\ parse # NoParse /\ parse' = [parse EXCEPT !.idx = 1, !.resolved = FALSE]
      /\ UNCHANGED <<inputs, says, pool, node, read, included, libs, group, groupFrom,
                     lib, names, failed>>
  BY DEF Rescan, Parsing
<1>2. /\ parse \in [archive : Archives, idx : Nat, resolved : BOOLEAN]
      /\ TableSize(parse.archive) \in Nat
  <2>1. parse \in [archive : Archives, idx : Nat, resolved : BOOLEAN]
    BY <1>1 DEF ReadingInv, Typed
  <2> QED  BY <2>1, ArchivesAssumption DEF TableSize
<1>3. parse' = [archive |-> parse.archive, idx |-> 1, resolved |-> FALSE]
  BY <1>1, <1>2
<1>4. /\ parse' \in [archive : Archives, idx : Nat, resolved : BOOLEAN]
      /\ parse'.idx \in 1..TableSize(parse'.archive) + 1
      /\ parse'.archive = parse.archive /\ parse'.idx = 1
  BY <1>2, <1>3
<1>5. PoolStands' /\ PassedClosed' /\ getNumGlobalSize' = getNumGlobalSize
  BY <1>1, PoolUntouched DEF ReadingInv, PassedClosed
<1>6. Typed'
  <2>1. (\A a \in Archives : included[a] \subseteq SymbolTable(a))'
    BY <1>1, PoolUntouched DEF ReadingInv, Typed
  <2>2. (parse # NoParse =>
          /\ parse \in [archive : Archives, idx : Nat, resolved : BOOLEAN]
          /\ parse.idx \in 1..TableSize(parse.archive) + 1)'
    BY <1>4
  <2> QED  BY <1>1, <2>1, <2>2 DEF ReadingInv, Typed
<1>7. Placed'
  BY <1>1, <1>4, <1>5 DEF ReadingInv, Placed
<1> QED  BY <1>5, <1>6, <1>7 DEF ReadingInv

\* The scan that ends has begun with the first entry of the table.
LEMMA ScanEnds ==
  ASSUME ReadingInv, EndParse
  PROVE  parse # NoParse /\ parse.archive \in Archives /\ Leftover(parse.archive) = {}
<1>1. parse # NoParse /\ ToInclude(parse.archive, parse.idx) = {} /\ ~parse.resolved
  BY DEF EndParse, Parsing
<1>2. parse.idx = 1 /\ parse.archive \in Archives
  BY <1>1 DEF ReadingInv, Typed, Placed
<1> QED  BY <1>1, <1>2 DEF Leftover

LEMMA ParseEnded ==
  ASSUME ReadingInv, EndParse
  PROVE  ReadingInv'
<1>1. /\ parse # NoParse /\ parse' = NoParse
      /\ UNCHANGED <<inputs, says, pool, read, included, group, groupFrom, names, failed>>
  BY DEF EndParse, Parsing
<1>2. /\ PoolStands' /\ getNumGlobalSize' = getNumGlobalSize
      /\ WeakReferences' = WeakReferences /\ CommonsOverWeak' = CommonsOverWeak
      /\ \A a : SymbolTable(a)' = SymbolTable(a) /\ Leftover(a)' = Leftover(a)
  BY <1>1, PoolUntouched DEF ReadingInv
<1>3. /\ libs \in Seq(ArchiveNodes) /\ Len(libs) \in Nat /\ node \in DOMAIN inputs
      /\ DOMAIN inputs = 1..Len(inputs) /\ Len(inputs) \in Nat
      /\ groupFrom \in 0..Len(libs) /\ lib \in 0..Len(libs) + 1
  BY <1>1 DEF ReadingInv, Typed, Placed
<1>4. CASE group = "again"
  <2>1. lib' = lib + 1 /\ UNCHANGED <<libs, node>>
    BY <1>4 DEF EndParse
  <2>2. lib \in groupFrom + 1..Len(libs) /\ parse.archive = libs[lib].archive
    BY <1>1, <1>3, <1>4 DEF ReadingInv, Placed
  <2>3. Typed'
    <3>1. lib' \in 0..Len(libs) + 1
      BY <1>3, <2>1, <2>2
    <3> QED  BY <1>1, <1>2, <2>1, <3>1 DEF ReadingInv, Typed
  <2>4. Placed'
    <3>1. lib' \in groupFrom + 1..Len(libs) + 1
      BY <1>3, <2>1, <2>2
    <3> QED  BY <1>1, <1>2, <1>4, <2>1, <3>1 DEF ReadingInv, Placed
  <2>5. PassedClosed'
    <3> SUFFICES ASSUME names = getNumGlobalSize, ~WeakReferences, ~CommonsOverWeak,
                        NEW j \in groupFrom + 1..lib, ~libs[j].whole
                 PROVE  Leftover(libs[j].archive) = {}
      <4>1. groupFrom + 1..lib' - 1 = groupFrom + 1..lib
        BY <1>3, <2>1
      <4> QED  BY <1>1, <1>2, <2>1, <4>1 DEF PassedClosed
    <3>1. CASE j = lib
      BY <2>2, <3>1, ScanEnds
    <3>2. CASE j # lib
      <4>1. j \in groupFrom + 1..lib - 1
        BY <1>3, <3>2
      <4> QED  BY <1>4, <4>1 DEF ReadingInv, PassedClosed
    <3> QED  BY <3>1, <3>2
  <2> QED  BY <1>2, <2>3, <2>4, <2>5 DEF ReadingInv
<1>5. CASE group # "again"
  <2>1. libs' = Append(libs, inputs[node]) /\ node' = node + 1 /\ lib' = lib
    BY <1>5 DEF EndParse
  <2>2. inputs[node] \in ArchiveNodes
    BY <1>1, <1>5 DEF ReadingInv, Placed
  <2>3. libs' \in Seq(ArchiveNodes) /\ Len(libs') = Len(libs) + 1
    BY <1>3, <2>1, <2>2
  <2>4. /\ groupFrom \in 0..Len(libs') /\ lib \in 0..Len(libs') + 1
        /\ node' \in 1..Len(inputs) + 1
    BY <1>3, <2>1, <2>3
  <2>5. Typed'
    BY <1>1, <1>2, <2>1, <2>3, <2>4 DEF ReadingInv, Typed
  <2>6. Placed' /\ PassedClosed'
    BY <1>1, <1>5 DEF Placed, PassedClosed
  <2> QED  BY <1>2, <2>5, <2>6 DEF ReadingInv
<1> QED  BY <1>4, <1>5

\* A step that does not parse, does not read and is not in a group's loop afterwards.
LEMMA NodePassed ==
  ASSUME ReadingInv, parse = NoParse, parse' = NoParse, group' \in {"none", "first"},
         UNCHANGED <<inputs, says, pool, read, included, failed>>,
         node' \in 1..Len(inputs) + 1, libs' \in Seq(ArchiveNodes),
         groupFrom' \in 0..Len(libs'), lib' \in 0..Len(libs') + 1, names' = names
  PROVE  ReadingInv'
<1>1. PoolStands' /\ PassedClosed' /\ \A a : SymbolTable(a)' = SymbolTable(a)
  BY PoolUntouched, OutsidePasses DEF ReadingInv
<1>2. Typed'
  BY <1>1 DEF ReadingInv, Typed
<1>3. Placed'
  BY DEF Placed
<1> QED  BY <1>1, <1>2, <1>3 DEF ReadingInv

\* An object, or a member of an archive read as a whole.
LEMMA NodeRead ==
  ASSUME ReadingInv, NEW f \in Files, readObject(f), parse = NoParse, group # "again",
         UNCHANGED <<inputs, says, included, parse, libs, group, groupFrom, lib, names>>,
         node' \in 1..Len(inputs) + 1
  PROVE  ReadingInv'
<1>1. /\ PoolStands' /\ pool' \in [Names -> Entries \cup {NoInfo}]
      /\ read' = read \cup {f} /\ failed' \in BOOLEAN
  BY FileRead DEF ReadingInv
<1>2. \A a : SymbolTable(a)' = SymbolTable(a)
  BY DEF SymbolTable
<1>3. Typed'
  BY <1>1, <1>2 DEF ReadingInv, Typed
<1>4. Placed' /\ PassedClosed'
  BY DEF Placed, PassedClosed
<1> QED  BY <1>1, <1>3, <1>4 DEF ReadingInv

LEMMA NodeReached ==
  ASSUME ReadingInv, NEW kind, At(kind)
  PROVE  /\ parse = NoParse /\ group \in {"none", "first"} /\ node \in 1..Len(inputs)
         /\ node + 1 \in 1..Len(inputs) + 1 /\ node \in DOMAIN inputs
         /\ inputs[node] \in Nodes /\ inputs[node].kind = kind
<1>1. parse = NoParse /\ group # "again" /\ node \in DOMAIN inputs /\ inputs[node].kind = kind
  BY DEF At
<1>2. inputs \in Seq(Nodes) /\ group \in {"none", "first", "again"}
  BY DEF ReadingInv, Typed
<1>3. DOMAIN inputs = 1..Len(inputs) /\ Len(inputs) \in Nat
  BY <1>2
<1>4. inputs[node] \in Nodes
  BY <1>1, <1>2
<1> QED  BY <1>1, <1>2, <1>3, <1>4

LEMMA NodeKinds ==
  ASSUME NEW nd \in Nodes
  PROVE  /\ nd.kind = "object" => nd.file \in Files
         /\ nd.kind = "archive" => nd \in ArchiveNodes /\ nd.archive \in Archives
BY DEF Nodes, ArchiveNodes

LEMMA ObjectReached ==
  ASSUME ReadingInv, ReadObject
  PROVE  ReadingInv'
<1>1. /\ At("object") /\ readObject(inputs[node].file) /\ node' = node + 1
      /\ UNCHANGED <<inputs, says, included, parse, libs, group, groupFrom, lib, names>>
  BY DEF ReadObject
<1>2. /\ parse = NoParse /\ group # "again" /\ node + 1 \in 1..Len(inputs) + 1
      /\ inputs[node].file \in Files
  BY <1>1, NodeReached, NodeKinds
<1> QED  BY <1>1, <1>2, NodeRead

LEMMA ParseStarts ==
  ASSUME NEW a \in Archives
  PROVE  /\ StartOf(a) \in [archive : Archives, idx : Nat, resolved : BOOLEAN]
         /\ StartOf(a) # NoParse /\ StartOf(a).archive = a
         /\ StartOf(a).idx = 1 /\ 1 \in 1..TableSize(a) + 1
<1>1. /\ StartOf(a) \in [archive : Archives, idx : Nat, resolved : BOOLEAN]
      /\ StartOf(a).archive = a /\ StartOf(a).idx = 1
  BY DEF StartOf
<1>2. "idx" \in DOMAIN StartOf(a) /\ "idx" \notin DOMAIN NoParse
  BY DEF StartOf, NoParse
<1>3. TableSize(a) \in Nat
  BY ArchivesAssumption DEF TableSize
<1> QED  BY <1>1, <1>2, <1>3

LEMMA ArchiveReached ==
  ASSUME ReadingInv, ReadArchive
  PROVE  ReadingInv'
<1> DEFINE a == inputs[node].archive
<1>1. /\ At("archive") /\ parse' = StartOf(a)
      /\ UNCHANGED <<inputs, says, pool, node, read, included, libs, group, groupFrom,
                     lib, names, failed>>
  BY DEF ReadArchive
<1>2. /\ group \in {"none", "first"} /\ node \in DOMAIN inputs
      /\ inputs[node] \in ArchiveNodes /\ a \in Archives
  BY <1>1, NodeReached, NodeKinds
<1> HIDE DEF a
<1>3. PoolStands' /\ PassedClosed' /\ \A b : SymbolTable(b)' = SymbolTable(b)
  BY <1>1, <1>2, PoolUntouched, OutsidePasses DEF ReadingInv
<1>4. Typed'
  <2>1. (parse # NoParse =>
          /\ parse \in [archive : Archives, idx : Nat, resolved : BOOLEAN]
          /\ parse.idx \in 1..TableSize(parse.archive) + 1)'
    BY <1>1, <1>2, ParseStarts
  <2> QED  BY <1>1, <1>3, <2>1 DEF ReadingInv, Typed
<1>5. Placed'
  BY <1>1, <1>2, ParseStarts DEF Placed
<1> QED  BY <1>3, <1>4, <1>5 DEF ReadingInv

LEMMA WholeArchiveReached ==
  ASSUME ReadingInv, IncludeAllMembers
  PROVE  ReadingInv'
<1> DEFINE a == inputs[node].archive
           unread == {i \in DOMAIN MembersOf[a] : MembersOf[a][i] \notin read}
<1>1. At("archive") /\ UNCHANGED <<inputs, says, included, parse, group, groupFrom, lib, names>>
  BY DEF IncludeAllMembers
<1>2. /\ parse = NoParse /\ group \in {"none", "first"} /\ node \in 1..Len(inputs)
      /\ node + 1 \in 1..Len(inputs) + 1 /\ a \in Archives /\ inputs[node] \in ArchiveNodes
  BY <1>1, NodeReached, NodeKinds
<1>3. CASE unread # {}
  <2>1. readObject(MembersOf[a][Min(unread)]) /\ UNCHANGED <<node, libs>>
    BY <1>3 DEF IncludeAllMembers
  <2>2. MembersOf[a] \in Seq(Files)
    BY <1>2, ArchivesAssumption
  <2>3. unread \subseteq Nat
    BY <2>2
  <2>4. Min(unread) \in DOMAIN MembersOf[a]
    BY <1>3, <2>3, LeastNatural
  <2>5. MembersOf[a][Min(unread)] \in Files
    <3>1. \A i \in DOMAIN MembersOf[a] : MembersOf[a][i] \in Files
      BY <2>2
    <3> QED  BY <2>4, <3>1
  <2>6. node' \in 1..Len(inputs) + 1
    BY <2>1 DEF ReadingInv, Typed
  <2> QED  BY <1>1, <1>2, <2>1, <2>5, <2>6, NodeRead
<1>4. CASE unread = {}
  <2>1. /\ libs' = Append(libs, inputs[node]) /\ node' = node + 1
        /\ UNCHANGED <<pool, read, failed>>
    BY <1>4 DEF IncludeAllMembers
  <2>2. libs \in Seq(ArchiveNodes) /\ groupFrom \in 0..Len(libs) /\ lib \in 0..Len(libs) + 1
    BY DEF ReadingInv, Typed
  <2>3. libs' \in Seq(ArchiveNodes) /\ Len(libs') = Len(libs) + 1
    BY <1>2, <2>1, <2>2
  <2>4. groupFrom \in 0..Len(libs') /\ lib \in 0..Len(libs') + 1
    BY <2>2, <2>3
  <2> QED  BY <1>1, <1>2, <2>1, <2>3, <2>4, NodePassed
<1> QED  BY <1>3, <1>4

LEMMA GroupStarted ==
  ASSUME ReadingInv, StartGroup
  PROVE  ReadingInv'
<1>1. /\ At("group start") /\ group' = "first" /\ groupFrom' = Len(libs) /\ node' = node + 1
      /\ UNCHANGED <<inputs, says, pool, read, included, parse, libs, lib, names, failed>>
  BY DEF StartGroup
<1>2. parse = NoParse /\ node + 1 \in 1..Len(inputs) + 1
  BY <1>1, NodeReached
<1>3. /\ libs \in Seq(ArchiveNodes) /\ lib \in 0..Len(libs) + 1
      /\ Len(libs) \in 0..Len(libs)
  BY DEF ReadingInv, Typed
<1> QED  BY <1>1, <1>2, <1>3, NodePassed

\* A pass over the archives of a group is begun: none of them has been passed.
LEMMA PassBegins ==
  ASSUME ReadingInv, parse = NoParse, node \in DOMAIN inputs, group' = "again",
         lib' = groupFrom + 1, names' = getNumGlobalSize,
         UNCHANGED <<inputs, says, pool, node, read, included, parse, libs, groupFrom, failed>>
  PROVE  ReadingInv'
<1>1. /\ PoolStands' /\ getNumGlobalSize' = getNumGlobalSize
      /\ \A a : SymbolTable(a)' = SymbolTable(a)
  BY PoolUntouched DEF ReadingInv
<1>2. groupFrom \in 0..Len(libs) /\ Len(libs) \in Nat
  BY DEF ReadingInv, Typed
<1>3. Typed'
  <2>1. lib' \in 0..Len(libs) + 1 /\ names' \in 0..Cardinality(Names)
    BY <1>2, SizeOfPool
  <2> QED  BY <1>1, <2>1 DEF ReadingInv, Typed
<1>4. Placed'
  <2>1. lib' \in groupFrom + 1..Len(libs) + 1
    BY <1>2
  <2>2. names' <= getNumGlobalSize'
    BY <1>1, SizeOfPool, NamesFinite
  <2> QED  BY <2>1, <2>2 DEF Placed
<1>5. PassedClosed'
  <2>1. groupFrom + 1..lib' - 1 = {}
    BY <1>2
  <2> QED  BY <2>1 DEF PassedClosed
<1> QED  BY <1>1, <1>3, <1>4, <1>5 DEF ReadingInv

LEMMA GroupEnded ==
  ASSUME ReadingInv, EndGroup
  PROVE  ReadingInv'
<1>1. At("group end") /\ group = "first" /\ group' = "again"
      /\ lib' = groupFrom + 1 /\ names' = getNumGlobalSize
      /\ UNCHANGED <<inputs, says, pool, node, read, included, parse, libs, groupFrom, failed>>
  BY DEF EndGroup
<1>2. parse = NoParse /\ node \in DOMAIN inputs
  BY <1>1, NodeReached
<1> QED  BY <1>1, <1>2, PassBegins

LEMMA ArchiveParsedAgain ==
  ASSUME ReadingInv, ParseAgain
  PROVE  ReadingInv'
<1>1. /\ group = "again" /\ parse = NoParse /\ lib <= Len(libs)
      /\ UNCHANGED <<inputs, says, pool, node, read, included, libs, group, groupFrom,
                     names, failed>>
  BY DEF ParseAgain
<1>2. /\ PoolStands' /\ getNumGlobalSize' = getNumGlobalSize
      /\ WeakReferences' = WeakReferences /\ CommonsOverWeak' = CommonsOverWeak
      /\ \A a : SymbolTable(a)' = SymbolTable(a) /\ Leftover(a)' = Leftover(a)
  BY <1>1, PoolUntouched DEF ReadingInv
<1>3. /\ libs \in Seq(ArchiveNodes) /\ Len(libs) \in Nat /\ groupFrom \in 0..Len(libs)
      /\ lib \in groupFrom + 1..Len(libs) /\ node \in DOMAIN inputs
  BY <1>1 DEF ReadingInv, Typed, Placed
<1>4. CASE libs[lib].whole
  <2>1. lib' = lib + 1 /\ parse' = NoParse
    BY <1>1, <1>4 DEF ParseAgain
  <2>2. lib' \in 0..Len(libs) + 1 /\ lib' \in groupFrom + 1..Len(libs) + 1
    BY <1>3, <2>1
  <2>3. Typed'
    BY <1>1, <1>2, <2>1, <2>2 DEF ReadingInv, Typed
  <2>4. Placed'
    BY <1>1, <1>2, <1>3, <2>1, <2>2 DEF ReadingInv, Placed
  <2>5. PassedClosed'
    <3> SUFFICES ASSUME names = getNumGlobalSize, ~WeakReferences, ~CommonsOverWeak,
                        NEW j \in groupFrom + 1..lib, ~libs[j].whole
                 PROVE  Leftover(libs[j].archive) = {}
      <4>1. groupFrom + 1..lib' - 1 = groupFrom + 1..lib
        BY <1>3, <2>1
      <4> QED  BY <1>1, <1>2, <4>1 DEF PassedClosed
    <3>1. j # lib
      BY <1>4
    <3>2. j \in groupFrom + 1..lib - 1
      BY <1>3, <3>1
    <3> QED  BY <1>1, <3>2 DEF ReadingInv, PassedClosed
  <2> QED  BY <1>2, <2>3, <2>4, <2>5 DEF ReadingInv
<1>5. CASE ~libs[lib].whole
  <2>1. parse' = StartOf(libs[lib].archive) /\ lib' = lib
    BY <1>5 DEF ParseAgain
  <2>2. libs[lib].archive \in Archives
    <3>1. libs[lib] \in ArchiveNodes
      BY <1>3
    <3> QED  BY <3>1 DEF ArchiveNodes
  <2>3. Typed'
    <3>1. (parse # NoParse =>
            /\ parse \in [archive : Archives, idx : Nat, resolved : BOOLEAN]
            /\ parse.idx \in 1..TableSize(parse.archive) + 1)'
      BY <2>1, <2>2, ParseStarts
    <3> QED  BY <1>1, <1>2, <2>1, <3>1 DEF ReadingInv, Typed
  <2>4. Placed'
    <3>1. parse'.archive = libs[lib].archive /\ parse'.idx = 1
      BY <2>1, <2>2, ParseStarts
    <3> QED  BY <1>1, <1>2, <1>3, <2>1, <3>1 DEF ReadingInv, Placed
  <2>5. PassedClosed'
    BY <1>1, <1>2, <2>1 DEF ReadingInv, PassedClosed
  <2> QED  BY <1>2, <2>3, <2>4, <2>5 DEF ReadingInv
<1> QED  BY <1>4, <1>5

LEMMA PassEnded ==
  ASSUME ReadingInv, EndPass
  PROVE  ReadingInv'
<1>1. /\ group = "again" /\ parse = NoParse
      /\ UNCHANGED <<inputs, says, pool, read, included, parse, libs, groupFrom, failed>>
  BY DEF EndPass
<1>2. node \in DOMAIN inputs /\ node + 1 \in 1..Len(inputs) + 1
  BY <1>1 DEF ReadingInv, Typed, Placed
<1>3. CASE names # getNumGlobalSize
  <2>1. lib' = groupFrom + 1 /\ names' = getNumGlobalSize /\ UNCHANGED <<group, node>>
    BY <1>3 DEF EndPass
  <2> QED  BY <1>1, <1>2, <2>1, PassBegins
<1>4. CASE names = getNumGlobalSize
  <2>1. group' = "none" /\ node' = node + 1 /\ UNCHANGED <<lib, names>>
    BY <1>4 DEF EndPass
  <2>2. libs \in Seq(ArchiveNodes) /\ groupFrom \in 0..Len(libs) /\ lib \in 0..Len(libs) + 1
    BY DEF ReadingInv, Typed
  <2> QED  BY <1>1, <1>2, <2>1, <2>2, NodePassed
<1> QED  BY <1>3, <1>4

LEMMA NothingHappened ==
  ASSUME ReadingInv, UNCHANGED vars
  PROVE  ReadingInv'
<1>1. /\ PoolStands' /\ getNumGlobalSize' = getNumGlobalSize
      /\ WeakReferences' = WeakReferences /\ CommonsOverWeak' = CommonsOverWeak
      /\ \A a : SymbolTable(a)' = SymbolTable(a) /\ Leftover(a)' = Leftover(a)
  BY PoolUntouched DEF ReadingInv, vars
<1>2. Typed'
  BY <1>1 DEF ReadingInv, Typed, vars
<1>3. Placed' /\ PassedClosed'
  BY <1>1 DEF ReadingInv, Placed, PassedClosed, vars
<1> QED  BY <1>1, <1>2, <1>3 DEF ReadingInv

LEMMA ReadingStep ==
  ASSUME ReadingInv, [Next]_vars
  PROVE  ReadingInv'
<1>1. CASE IncludeMember
  BY <1>1, MemberIncluded
<1>2. CASE Rescan
  BY <1>2, TableScannedAgain
<1>3. CASE EndParse
  BY <1>3, ParseEnded
<1>4. CASE ReadObject
  BY <1>4, ObjectReached
<1>5. CASE ReadArchive
  BY <1>5, ArchiveReached
<1>6. CASE IncludeAllMembers
  BY <1>6, WholeArchiveReached
<1>7. CASE StartGroup
  BY <1>7, GroupStarted
<1>8. CASE EndGroup
  BY <1>8, GroupEnded
<1>9. CASE ParseAgain
  BY <1>9, ArchiveParsedAgain
<1>10. CASE EndPass
  BY <1>10, PassEnded
<1>11. CASE UNCHANGED vars
  BY <1>11, NothingHappened
<1> QED  BY <1>1, <1>2, <1>3, <1>4, <1>5, <1>6, <1>7, <1>8, <1>9, <1>10, <1>11 DEF Next

LEMMA AlwaysReading == Spec => []ReadingInv
<1>1. ReadingInv /\ [Next]_vars => ReadingInv'
  BY ReadingStep
<1> QED  BY <1>1, InitReading, PTL DEF Spec

------------------------------------------------------------------------------
(***************************************************************************)
(* The theorems.                                                           *)
(***************************************************************************)

\* The variables of the reader keep their types, whatever the command line: what a
\* scan includes is in the table of its archive, and the loop over a group stays
\* among the archives that have been read.
THEOREM TypeCorrect == Spec => []TypeOK
<1>1. ReadingInv => TypeOK
  BY DEF ReadingInv, Typed, TypeOK, Entries
<1> QED  BY <1>1, AlwaysReading, PTL

\* When the parse of an archive ends no member of it is wanted any more, and when the
\* loop over a group ends none of any of its archives, if no name was known weakly
\* before it was needed: for the code, the flag willSymResolved and the count of
\* names are enough.
THEOREM ScansComplete == Spec => ScansClosed
<1>1. ReadingInv /\ [Next]_vars =>
        (parse # NoParse /\ parse' = NoParse => Leftover(parse.archive) = {})
  <2> SUFFICES ASSUME ReadingInv, [Next]_vars, parse # NoParse, parse' = NoParse
               PROVE  Leftover(parse.archive) = {}
    OBVIOUS
  <2>1. ASSUME UNCHANGED parse  PROVE FALSE
    BY <2>1
  <2>2. ~IncludeMember /\ ~Rescan
    <3> SUFFICES ASSUME NEW k, NEW b, parse' = [parse EXCEPT !.idx = k, !.resolved = b]
                 PROVE  FALSE
      BY DEF IncludeMember, Rescan
    <3>1. parse \in [archive : Archives, idx : Nat, resolved : BOOLEAN]
      BY DEF ReadingInv, Typed
    <3>2. DOMAIN parse' = {"archive", "idx", "resolved"} /\ DOMAIN NoParse = {"archive"}
      BY <3>1 DEF NoParse
    <3> QED  BY <3>2
  <2>3. ~ReadArchive /\ ~ParseAgain
    BY DEF ReadArchive, ParseAgain, At
  <2>4. EndParse
    BY <2>1, <2>2, <2>3
       DEF Next, vars, ReadObject, IncludeAllMembers, StartGroup, EndGroup, EndPass
  <2> QED  BY <2>4, ScanEnds
<1>2. ReadingInv /\ [Next]_vars =>
        (group = "again" /\ group' = "none" /\ ~WeakReferences /\ ~CommonsOverWeak => Closed)
  <2> SUFFICES ASSUME ReadingInv, [Next]_vars, group = "again", group' = "none",
                      ~WeakReferences, ~CommonsOverWeak,
                      NEW j \in groupFrom + 1..Len(libs), ~libs[j].whole
               PROVE  Leftover(libs[j].archive) = {}
    BY DEF Closed, GroupArchives
  <2>1. EndPass
    BY DEF Next, vars, IncludeMember, Rescan, EndParse, ReadObject, ReadArchive,
           IncludeAllMembers, StartGroup, EndGroup, ParseAgain, At
  <2>2. names = getNumGlobalSize /\ lib > Len(libs)
    BY <2>1 DEF EndPass
  <2>3. j \in groupFrom + 1..lib - 1
    BY <2>2 DEF ReadingInv, Typed
  <2> QED  BY <2>2, <2>3 DEF ReadingInv, PassedClosed
<1>3. ReadingInv /\ [Next]_vars =>
        /\ [parse # NoParse /\ parse' = NoParse => Leftover(parse.archive) = {}]_vars
        /\ [group = "again" /\ group' = "none" /\ ~WeakReferences /\ ~CommonsOverWeak
              => Closed]_vars
  BY <1>1, <1>2
<1> QED  BY <1>3, AlwaysReading, PTL DEF Spec, ScansClosed, ArchiveClosed, GroupClosedByNames

\* A file that the command line names may be loaded.
LEMMA NamedIsLoaded ==
  ASSUME ReadingInv, NEW f \in Files, f \in Named, readObject(f), read' # read
  PROVE  Extraction!Next
<1>1. f \notin read /\ read' = read \cup {f}
  BY DEF readObject
<1>2. f \in DOMAIN says
  BY DEF ReadingInv, Typed
<1> QED  BY <1>1, <1>2 DEF Extraction!Next, Extraction!Load

\* A member that a scan includes is wanted by the files that have been read: what
\* the pool says of the name is what they say.
LEMMA IncludedIsWanted ==
  ASSUME ReadingInv, IncludeMember, read' # read
  PROVE  Extraction!Next
<1> DEFINE a == parse.archive
           i == Min(ToInclude(a, parse.idx))
           f == MemberAt(a, i)
           n == NameAt(i)
<1>1. /\ parse # NoParse /\ ToInclude(a, parse.idx) # {} /\ readObject(f)
  BY DEF IncludeMember, Parsing
<1>2. a \in Archives
  BY <1>1 DEF ReadingInv, Typed
<1>3. i \in ToInclude(a, parse.idx)
  <2>1. ToInclude(a, parse.idx) \subseteq Nat
    BY DEF ToInclude, SymbolTable
  <2> QED  BY <1>1, <2>1, LeastNatural
<1> HIDE DEF i
<1>4. i \in SymbolTable(a) /\ Wanted(pool[n], says[f][n])
  BY <1>2, <1>3, LeftIsWanted DEF ReadingInv, Typed
<1>5. says[f][n] \in {"data", "function", "weak", "common"}
  BY <1>4 DEF SymbolTable
<1>6. f \in Files /\ n \in Names
  BY <1>2, <1>4, EntryPlace
<1>7. f \notin read /\ read' = read \cup {f} /\ f \in DOMAIN says
  BY <1>1, <1>6 DEF readObject, ReadingInv, Typed
<1> HIDE DEF a, f, n
<1>8. pool[n] = Standing(n)
  BY <1>6 DEF ReadingInv, PoolStands
<1>9. CASE pool[n] = "U"
  <2>1. /\ ~Said(n, {"data", "function"}) /\ ~Said(n, {"common"}) /\ ~Said(n, {"weak"})
        /\ n \in Needed \/ Said(n, {"ref"})
    BY <1>8, <1>9 DEF Standing, Strongest, NoInfo
  <2>2. Extraction!Missing(n)
    BY <2>1 DEF Said, Extraction!Missing, Extraction!References, Extraction!Defines,
                Extraction!Reserves
  <2>3. Extraction!WantedFrom(f)
    BY <1>5, <1>6, <2>2 DEF Extraction!WantedFrom, Extraction!Defines, Extraction!Reserves
  <2> QED  BY <1>7, <2>3 DEF Extraction!Next, Extraction!Load
<1>10. CASE pool[n] = "C" /\ says[f][n] = "data"
  <2>1. ~Said(n, {"data", "function"}) /\ Said(n, {"common"})
    BY <1>8, <1>10 DEF Standing, Strongest, NoInfo
  <2>2. Extraction!OnlyReserved(n)
    BY <2>1 DEF Said, Extraction!OnlyReserved, Extraction!Strongly, Extraction!Reserves
  <2>3. Extraction!WantedFrom(f)
    BY <1>6, <1>10, <2>2 DEF Extraction!WantedFrom
  <2> QED  BY <1>7, <2>3 DEF Extraction!Next, Extraction!Load
<1> QED  BY <1>4, <1>9, <1>10 DEF Wanted

\* A member becomes part of the link only for a name that the files of the link need
\* and do not have: the reader, with its tables, positions and passes, implements
\* MemberExtraction.
THEOREM ExtractionRefined == Spec => ExtractedWhenWanted
<1>1. Init => Extraction!Init
  BY DEF Init, Extraction!Init
<1>2. ReadingInv /\ [Next]_vars => [Extraction!Next]_read
  <2> SUFFICES ASSUME ReadingInv, [Next]_vars, read' # read
               PROVE  Extraction!Next
    OBVIOUS
  <2>1. IncludeMember \/ ReadObject \/ IncludeAllMembers
    BY DEF Next, vars, Rescan, EndParse, ReadArchive, StartGroup, EndGroup, ParseAgain, EndPass
  <2>2. CASE IncludeMember
    BY <2>2, IncludedIsWanted
  <2>3. CASE ReadObject
    <3> DEFINE f == inputs[node].file
    <3>1. readObject(f) /\ At("object")
      BY <2>3 DEF ReadObject
    <3>2. f \in Files /\ node \in DOMAIN inputs /\ inputs[node].kind = "object"
      BY <3>1, NodeReached, NodeKinds
    <3>3. f \in Named
      BY <3>2 DEF Named
    <3> HIDE DEF f
    <3> QED  BY <3>1, <3>2, <3>3, NamedIsLoaded
  <2>4. CASE IncludeAllMembers
    <3> DEFINE a == inputs[node].archive
               unread == {i \in DOMAIN MembersOf[a] : MembersOf[a][i] \notin read}
               i == Min(unread)
    <3>1. At("archive") /\ inputs[node].whole
      BY <2>4 DEF IncludeAllMembers
    <3>2. /\ node \in DOMAIN inputs /\ inputs[node].kind = "archive"
          /\ a \in Archives
      BY <3>1, NodeReached, NodeKinds
    <3>3. unread # {} /\ readObject(MembersOf[a][i])
      BY <2>4 DEF IncludeAllMembers
    <3>4. MembersOf[a] \in Seq(Files)
      BY <3>2, ArchivesAssumption
    <3>5. i \in DOMAIN MembersOf[a]
      <4>1. unread \subseteq Nat
        BY <3>4
      <4> QED  BY <3>3, <4>1, LeastNatural
    <3> HIDE DEF i
    <3>6. MembersOf[a][i] \in Files
      BY <3>4, <3>5
    <3>7. MembersOf[a][i] \in Named
      <4>1. MembersOf[a][i] \in Members(a)
        BY <3>5 DEF Members
      <4> QED  BY <3>1, <3>2, <4>1 DEF Named
    <3> QED  BY <3>3, <3>6, <3>7, NamedIsLoaded
  <2> QED  BY <2>1, <2>2, <2>3, <2>4
<1> QED  BY <1>1, <1>2, AlwaysReading, PTL DEF Spec, ExtractedWhenWanted, Extraction!Spec
================================================================================
