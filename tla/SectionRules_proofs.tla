-------------------------- MODULE SectionRules_proofs --------------------------
(***************************************************************************)
(* Proofs about the way of sections into the image: no chunk is lost or    *)
(* duplicated, whatever a plugin adds, removes and replaces; the image is  *)
(* what the script says; and a plugin that alone asks for a section has    *)
(* its way.                                                                *)
(*                                                                         *)
(* First sorting: what a rule holds after the merging is a permutation of  *)
(* the sections that have matched it, in the order of its policy.  Then    *)
(* the balance of a chunk: where it lies, and how often, follows from what *)
(* the plugin has on its account.  Then the search for a rule: both        *)
(* matchers find the closest of the rules that accept a section.  Then the *)
(* types.  Last the invariant of the script: what is known, in each phase, *)
(* of a section that no plugin has asked for, of one that waits for the    *)
(* request of a plugin, and of the rules that hold the chunks.             *)
(***************************************************************************)
EXTENDS SectionRules, FiniteSetTheorems, FunctionTheorems, WellFoundedInduction, TLAPS

------------------------------------------------------------------------------
\* Sorting.

StrictOrder(S, R) ==
  /\ \A x \in S : <<x, x>> \notin R
  /\ \A x, y, z \in S : <<x, y>> \in R /\ <<y, z>> \in R => <<x, z>> \in R
  /\ \A x, y \in S : x = y \/ <<x, y>> \in R \/ <<y, x>> \in R

\* The sequence holds the elements of S, each of them once.
OnceEach(q, S) ==
  /\ q \in Seq(S)
  /\ \A x \in S : \E i \in DOMAIN q : q[i] = x
  /\ \A i, j \in DOMAIN q : q[i] = q[j] => i = j

\* Ranks in a strict order are different, so that every place has an element.
LEMMA RankedOnce ==
  ASSUME NEW S, IsFiniteSet(S), NEW R, StrictOrder(S, R)
  PROVE  /\ Cardinality(S) \in Nat
         /\ Ranked(S, R) \in [1..Cardinality(S) -> S]
         /\ \A x \in S : \E k \in 1..Cardinality(S) : Ranked(S, R)[k] = x
         /\ \A j, k \in 1..Cardinality(S) : Ranked(S, R)[j] = Ranked(S, R)[k] => j = k
         /\ \A j, k \in 1..Cardinality(S) : j < k => <<Ranked(S, R)[j], Ranked(S, R)[k]>> \in R
<1> DEFINE Below(x) == {y \in S : <<y, x>> \in R}
           N == Cardinality(S)
           size(x) == Cardinality(Below(x))
<1>1. N \in Nat
  BY FS_CardinalityType
<1>2. \A x \in S : IsFiniteSet(Below(x)) /\ size(x) \in Nat
  BY FS_Subset, FS_CardinalityType
<1>3. \A x, y \in S : <<x, y>> \in R => size(x) < size(y)
  <2> SUFFICES ASSUME NEW x \in S, NEW y \in S, <<x, y>> \in R
               PROVE  size(x) < size(y)
    OBVIOUS
  <2>1. Below(x) \subseteq Below(y) \ {x} /\ x \in Below(y)
    BY DEF StrictOrder
  <2>2. /\ IsFiniteSet(Below(y) \ {x})
        /\ Cardinality(Below(y) \ {x}) = size(y) - 1
    BY <1>2, <2>1, FS_RemoveElement
  <2>3. size(x) <= Cardinality(Below(y) \ {x})
    BY <2>1, <2>2, FS_Subset
  <2>4. size(x) \in Nat /\ size(y) \in Nat
    BY <1>2
  <2> HIDE DEF size
  <2> QED BY <2>2, <2>3, <2>4
<1>4. \A x \in S : size(x) + 1 \in 1..N
  <2> SUFFICES ASSUME NEW x \in S PROVE size(x) + 1 \in 1..N
    OBVIOUS
  <2>1. Below(x) \subseteq S \ {x}
    BY DEF StrictOrder
  <2>2. IsFiniteSet(S \ {x}) /\ Cardinality(S \ {x}) = N - 1
    BY FS_RemoveElement
  <2>3. size(x) <= Cardinality(S \ {x})
    BY <2>1, <2>2, FS_Subset
  <2>4. size(x) \in Nat
    BY <1>2
  <2> HIDE DEF size, N
  <2> QED BY <1>1, <2>2, <2>3, <2>4
<1>5. Ranked(S, R) = [k \in 1..N |-> CHOOSE x \in S : size(x) = k - 1]
  BY DEF Ranked
<1>6. \A x \in S : size(x) \in Nat
  BY <1>2
<1>7. IsFiniteSet(1..N) /\ Cardinality(1..N) = N
  BY <1>1, FS_Interval
<1> HIDE DEF size
<1> DEFINE rank == [x \in S |-> size(x) + 1]
<1>8. rank \in [S -> 1..N]
  BY <1>4
<1>9. \A x, y \in S : size(x) = size(y) => x = y
  <2>1. \A x, y \in S : x = y \/ <<x, y>> \in R \/ <<y, x>> \in R
    BY DEF StrictOrder
  <2>2. \A x, y \in S : <<x, y>> \in R => size(x) # size(y)
    BY <1>3, <1>6
  <2> QED BY <2>1, <2>2
<1>10. rank \in Injection(S, 1..N)
  <2>1. \A x, y \in S : rank[x] = rank[y] => x = y
    BY <1>6, <1>9
  <2> QED BY <1>8, <2>1, Fun_IsInj
<1>11. rank \in Surjection(S, 1..N)
  BY <1>7, <1>10, FS_Injection
<1>12. \A k \in 1..N : \E x \in S : rank[x] = k
  BY <1>11 DEF Surjection
<1>13. \A k \in 1..N : \E x \in S : size(x) = k - 1
  BY <1>6, <1>12
<1> HIDE DEF rank, N
<1>14. \A k \in 1..N : Ranked(S, R)[k] \in S /\ size(Ranked(S, R)[k]) = k - 1
  BY <1>5, <1>13
<1>15. Ranked(S, R) \in [1..N -> S]
  BY <1>5, <1>14
<1>16. \A x \in S : Ranked(S, R)[size(x) + 1] = x
  BY <1>4, <1>6, <1>9, <1>14
<1>17. \A j, k \in 1..N : Ranked(S, R)[j] = Ranked(S, R)[k] => j = k
  BY <1>1, <1>14
<1>18. ASSUME NEW j \in 1..N, NEW k \in 1..N, j < k
       PROVE  <<Ranked(S, R)[j], Ranked(S, R)[k]>> \in R
  <2> DEFINE x == Ranked(S, R)[j]
             y == Ranked(S, R)[k]
  <2>1. x \in S /\ y \in S /\ size(x) = j - 1 /\ size(y) = k - 1
    BY <1>14
  <2>2. x = y \/ <<x, y>> \in R \/ <<y, x>> \in R
    BY <2>1 DEF StrictOrder
  <2> HIDE DEF x, y
  <2>3. ~(size(y) < size(x)) /\ x # y
    BY <1>1, <1>18, <2>1
  <2>4. <<y, x>> \notin R
    BY <1>3, <2>1, <2>3
  <2> QED BY <2>2, <2>3, <2>4 DEF x, y
<1> QED BY <1>1, <1>4, <1>15, <1>16, <1>17, <1>18 DEF N

\* Sections in the order of the files, without repetitions.
LEMMA InOrderOnce ==
  ASSUME NEW T, NEW S \in SUBSET T, IsFiniteSet(S), NEW rank \in [T -> Int],
         \A s, t \in T : rank[s] = rank[t] => s = t
  PROVE  /\ OnceEach(InOrder(S, rank), S)
         /\ \A i, j \in DOMAIN InOrder(S, rank) :
              i < j => rank[InOrder(S, rank)[i]] < rank[InOrder(S, rank)[j]]
<1> DEFINE R == {p \in S \X S : rank[p[1]] < rank[p[2]]}
           q == Ranked(S, R)
<1>1. \A x, y \in S : <<x, y>> \in R <=> rank[x] < rank[y]
  OBVIOUS
<1>2. \A x, y \in S : rank[x] \in Int /\ (rank[x] = rank[y] => x = y)
  OBVIOUS
<1> HIDE DEF R
<1>3. StrictOrder(S, R)
  <2>1. \A x \in S : <<x, x>> \notin R
    BY <1>1, <1>2
  <2>2. \A x, y, z \in S : <<x, y>> \in R /\ <<y, z>> \in R => <<x, z>> \in R
    BY <1>1, <1>2
  <2>3. ASSUME NEW x \in S, NEW y \in S, x # y PROVE <<x, y>> \in R \/ <<y, x>> \in R
    <3>1. rank[x] < rank[y] \/ rank[y] < rank[x]
      BY <1>2, <2>3
    <3> QED BY <1>1, <3>1
  <2> QED BY <2>1, <2>2, <2>3 DEF StrictOrder
<1>4. /\ Cardinality(S) \in Nat /\ q \in [1..Cardinality(S) -> S]
      /\ \A x \in S : \E k \in 1..Cardinality(S) : q[k] = x
      /\ \A j, k \in 1..Cardinality(S) : q[j] = q[k] => j = k
      /\ \A j, k \in 1..Cardinality(S) : j < k => <<q[j], q[k]>> \in R
  BY <1>3, RankedOnce
<1>5. InOrder(S, rank) = q
  BY DEF InOrder, R
<1> HIDE DEF q
<1>6. DOMAIN q = 1..Cardinality(S) /\ q \in Seq(S)
  BY <1>4
<1>7. \A i, j \in DOMAIN q : i < j => rank[q[i]] < rank[q[j]]
  BY <1>1, <1>4, <1>6
<1> QED BY <1>4, <1>5, <1>6, <1>7 DEF OnceEach

\* Two places of the sorted sequence hold what two places of the other hold, in the
\* order of the keys, or in the old order when these are equal.
Stable(q, sorted, key) ==
  \A i, j \in DOMAIN sorted : i < j =>
    \E a, b \in DOMAIN q :
      /\ sorted[i] = q[a] /\ sorted[j] = q[b]
      /\ key[q[a]] < key[q[b]] \/ (key[q[a]] = key[q[b]] /\ a < b)

\* A sort by a key permutes, and is stable.
LEMMA SortOnce ==
  ASSUME NEW T, NEW S \in SUBSET T, NEW q, OnceEach(q, S), NEW key \in [T -> Int]
  PROVE  OnceEach(StableSort(q, key), S) /\ Stable(q, StableSort(q, key), key)
<1> DEFINE I == DOMAIN q
           R == {p \in I \X I : \/ key[q[p[1]]] < key[q[p[2]]]
                                \/ key[q[p[1]]] = key[q[p[2]]] /\ p[1] < p[2]}
           place == Ranked(I, R)
           sorted == StableSort(q, key)
           k(i) == key[q[i]]
<1>1. q \in Seq(S) /\ I = 1..Len(q) /\ Len(q) \in Nat
  BY DEF OnceEach
<1>2. \A i \in I : q[i] \in S /\ k(i) \in Int /\ i \in Nat
  BY <1>1
<1>3. \A i, j \in I : <<i, j>> \in R <=> k(i) < k(j) \/ (k(i) = k(j) /\ i < j)
  OBVIOUS
<1>4. sorted = [i \in I |-> q[place[i]]]
  BY DEF StableSort
<1>5. IsFiniteSet(I) /\ Cardinality(I) = Len(q)
  <2>1. ASSUME NEW n \in Nat PROVE IsFiniteSet(1..n) /\ Cardinality(1..n) = n
    BY FS_Interval
  <2> QED BY <1>1, <2>1
<1> HIDE DEF R, k
<1>6. StrictOrder(I, R)
  <2>1. \A i \in I : <<i, i>> \notin R
    BY <1>2, <1>3
  <2>2. \A x, y, z \in I : <<x, y>> \in R /\ <<y, z>> \in R => <<x, z>> \in R
    BY <1>2, <1>3
  <2>3. ASSUME NEW x \in I, NEW y \in I, x # y PROVE <<x, y>> \in R \/ <<y, x>> \in R
    <3>1. k(x) \in Int /\ k(y) \in Int /\ x \in Nat /\ y \in Nat
      BY <1>2
    <3>2. k(x) < k(y) \/ k(y) < k(x) \/ (k(x) = k(y) /\ (x < y \/ y < x))
      BY <2>3, <3>1
    <3> QED BY <1>3, <3>2
  <2> QED BY <2>1, <2>2, <2>3 DEF StrictOrder
<1>7. /\ place \in [1..Len(q) -> I]
      /\ \A i \in I : \E j \in 1..Len(q) : place[j] = i
      /\ \A i, j \in 1..Len(q) : place[i] = place[j] => i = j
      /\ \A i, j \in 1..Len(q) : i < j => <<place[i], place[j]>> \in R
  BY <1>5, <1>6, RankedOnce
<1> HIDE DEF place, sorted
<1>8. sorted \in [1..Len(q) -> S] /\ \A i \in I : sorted[i] = q[place[i]]
  BY <1>1, <1>2, <1>4, <1>7
<1>9. sorted \in Seq(S) /\ DOMAIN sorted = I
  BY <1>1, <1>8
<1>10. \A x \in S : \E i \in I : sorted[i] = x
  <2> SUFFICES ASSUME NEW x \in S PROVE \E i \in I : sorted[i] = x
    OBVIOUS
  <2>1. PICK j \in I : q[j] = x
    BY DEF OnceEach
  <2>2. PICK i \in 1..Len(q) : place[i] = j
    BY <1>7
  <2> QED BY <1>1, <1>8, <2>1, <2>2
<1>11. \A i, j \in I : sorted[i] = sorted[j] => i = j
  <2> SUFFICES ASSUME NEW i \in I, NEW j \in I, sorted[i] = sorted[j] PROVE i = j
    OBVIOUS
  <2>1. place[i] \in I /\ place[j] \in I /\ q[place[i]] = q[place[j]]
    BY <1>1, <1>7, <1>8
  <2> QED BY <1>1, <1>7, <2>1 DEF OnceEach
<1>12. ASSUME NEW i \in I, NEW j \in I, i < j
       PROVE  \E a, b \in I : /\ sorted[i] = q[a] /\ sorted[j] = q[b]
                             /\ \/ key[q[a]] < key[q[b]]
                                \/ key[q[a]] = key[q[b]] /\ a < b
  <2> USE DEF k
  <2>1. place[i] \in I /\ place[j] \in I /\ <<place[i], place[j]>> \in R
    BY <1>1, <1>7, <1>12
  <2> QED BY <1>3, <1>8, <2>1
<1>13. Stable(q, sorted, key)
  <2>1. ASSUME NEW i \in DOMAIN sorted, NEW j \in DOMAIN sorted, i < j
        PROVE  \E a, b \in DOMAIN q :
                 /\ sorted[i] = q[a] /\ sorted[j] = q[b]
                 /\ key[q[a]] < key[q[b]] \/ (key[q[a]] = key[q[b]] /\ a < b)
    BY <1>9, <1>12, <2>1
  <2> QED BY <2>1 DEF Stable
<1> QED BY <1>9, <1>10, <1>11, <1>13 DEF OnceEach, sorted

\* Every sort policy permutes, and two chunks are in its order.
LEMMA SectionsSorted ==
  ASSUME link.rank \in [Sections -> Nat], link.name \in [Sections -> Nat],
         link.align \in [Sections -> Nat],
         NEW S \in SUBSET Sections, NEW q, OnceEach(q, S), NEW policy \in SortPolicies,
         \A i, j \in DOMAIN q : i < j => link.rank[q[i]] < link.rank[q[j]]
  PROVE  LET sorted == sortSections(q, policy, link.name, link.align)
         IN /\ OnceEach(sorted, S)
            /\ \A i, j \in DOMAIN sorted : i < j => SortedPair(policy, sorted[i], sorted[j])
<1> DEFINE rank   == link.rank
           name   == link.name
           align  == link.align
           fall   == [s \in DOMAIN align |-> -align[s]]
           byName == StableSort(q, name)
           byAlign == StableSort(q, fall)
           both   == StableSort(byAlign, name)
           other  == StableSort(byName, fall)
<1>1. name \in [Sections -> Int] /\ fall \in [Sections -> Int]
  OBVIOUS
<1>2. /\ OnceEach(byName, S) /\ Stable(q, byName, name)
      /\ OnceEach(byAlign, S) /\ Stable(q, byAlign, fall)
  BY <1>1, SortOnce
<1>3. /\ OnceEach(both, S) /\ Stable(byAlign, both, name)
      /\ OnceEach(other, S) /\ Stable(byName, other, fall)
  BY <1>1, <1>2, SortOnce
<1>4. /\ sortByName(q, name) = byName /\ sortByAlignment(q, align) = byAlign
      /\ sortByName(byAlign, name) = both /\ sortByAlignment(byName, align) = other
  BY DEF sortByName, sortByAlignment
<1> HIDE DEF byName, byAlign, both, other
<1>5. \A x \in DOMAIN q : q[x] \in S
  BY DEF OnceEach
<1>6. \A s, t \in S : /\ fall[s] < fall[t] <=> align[s] > align[t]
                      /\ fall[s] = fall[t] <=> align[s] = align[t]
  OBVIOUS
<1> DEFINE First(s, t)   == rank[s] < rank[t]
           ByName(s, t)  == name[s] < name[t] \/ (name[s] = name[t] /\ First(s, t))
           ByAlign(s, t) == align[s] > align[t] \/ (align[s] = align[t] /\ First(s, t))
<1>7. \A i, j \in DOMAIN byName : i < j => ByName(byName[i], byName[j])
  BY <1>2, <1>5 DEF Stable
<1>8. \A i, j \in DOMAIN byAlign : i < j => ByAlign(byAlign[i], byAlign[j])
  <2> HIDE DEF fall
  <2> QED BY <1>2, <1>5, <1>6 DEF Stable
<1> HIDE DEF ByName, ByAlign
<1>9. \A i, j \in DOMAIN both : i < j =>
        \/ name[both[i]] < name[both[j]]
        \/ name[both[i]] = name[both[j]] /\ ByAlign(both[i], both[j])
  BY <1>3, <1>8 DEF Stable
<1>10. \A x \in DOMAIN byName : byName[x] \in S
  BY <1>2 DEF OnceEach
<1>11. \A i, j \in DOMAIN other : i < j =>
        \/ align[other[i]] > align[other[j]]
        \/ align[other[i]] = align[other[j]] /\ ByName(other[i], other[j])
  <2> HIDE DEF fall
  <2> QED BY <1>3, <1>6, <1>7, <1>10 DEF Stable
<1>12. CASE policy = "none"
  BY <1>12 DEF sortSections, SortedPair
<1>13. CASE policy = "name"
  BY <1>2, <1>4, <1>7, <1>13 DEF sortSections, SortedPair, ByName
<1>14. CASE policy = "alignment"
  BY <1>2, <1>4, <1>8, <1>14 DEF sortSections, SortedPair, ByAlign
<1>15. CASE policy = "name alignment"
  <2>1. sortSections(q, policy, name, align) = both
    BY <1>4, <1>15 DEF sortSections
  <2>2. \A i, j \in DOMAIN both : i < j => SortedPair(policy, both[i], both[j])
    BY <1>9, <1>15 DEF SortedPair, ByAlign
  <2> QED BY <1>3, <2>1, <2>2
<1>16. CASE policy = "alignment name"
  <2>1. sortSections(q, policy, name, align) = other
    BY <1>4, <1>16 DEF sortSections
  <2>2. \A i, j \in DOMAIN other : i < j => SortedPair(policy, other[i], other[j])
    BY <1>11, <1>16 DEF SortedPair, ByName
  <2> QED BY <1>3, <2>1, <2>2
<1> QED BY <1>12, <1>13, <1>14, <1>15, <1>16 DEF SortPolicies

------------------------------------------------------------------------------
\* Where a chunk lies, and how often.

Lies(c, t, r, i) == r \in DOMAIN c /\ i \in DOMAIN c[r] /\ c[r][i] = t

Never(c, t) == \A r, i : ~Lies(c, t, r, i)

OnlyAt(c, t, r, i) ==
  Lies(c, t, r, i) /\ \A q, j : Lies(c, t, q, j) => q = r /\ j = i

Once(c, t) == \E r, i : OnlyAt(c, t, r, i)

OnlyAtBoth(c, t, r, i, q, j) ==
  /\ Lies(c, t, r, i) /\ Lies(c, t, q, j) /\ ~(q = r /\ j = i)
  /\ \A u, k : Lies(c, t, u, k) => (u = r /\ k = i) \/ (u = q /\ k = j)

Twice(c, t) == \E r, i, q, j : OnlyAtBoth(c, t, r, i, q, j)

\* The chunk lies as often as before.
AsOften(c, d, t) ==
  (Never(c, t) => Never(d, t)) /\ (Once(c, t) => Once(d, t)) /\ (Twice(c, t) => Twice(d, t))

LEMMA SamePlaces ==
  ASSUME NEW c, NEW d, NEW t, \A r, i : Lies(d, t, r, i) <=> Lies(c, t, r, i)
  PROVE  AsOften(c, d, t)
<1> USE DEF AsOften
<1>1. Never(c, t) => Never(d, t)
  BY DEF Never
<1>2. Once(c, t) => Once(d, t)
  BY DEF Once, OnlyAt
<1>3. Twice(c, t) => Twice(d, t)
  BY DEF Twice, OnlyAtBoth
<1> QED BY <1>1, <1>2, <1>3

\* The chunk s lies once more, or once less, and the others lie as often.
OnceMore(P, T, c, d, s) ==
  /\ d \in [P -> Seq(T)]
  /\ Never(c, s) => Once(d, s)
  /\ Once(c, s) => Twice(d, s)
  /\ \A t : t # s => AsOften(c, d, t)

OnceLess(P, T, c, d, s) ==
  /\ d \in [P -> Seq(T)]
  /\ ~Never(c, s)
  /\ Once(c, s) => Never(d, s)
  /\ Twice(c, s) => Once(d, s)
  /\ \A t : t # s => AsOften(c, d, t)

LEMMA Appended ==
  ASSUME NEW P, NEW T, NEW c \in [P -> Seq(T)], NEW r \in P, NEW s \in T,
         NEW d, d = [c EXCEPT ![r] = Append(c[r], s)]
  PROVE  OnceMore(P, T, c, d, s)
<1> DEFINE n == Len(c[r]) + 1
<1>1. d \in [P -> Seq(T)]
  OBVIOUS
<1>2. \A t, q, j : Lies(d, t, q, j) <=> Lies(c, t, q, j) \/ (t = s /\ q = r /\ j = n)
  <2> SUFFICES ASSUME NEW t, NEW q, NEW j
               PROVE Lies(d, t, q, j) <=> Lies(c, t, q, j) \/ (t = s /\ q = r /\ j = n)
    OBVIOUS
  <2>1. CASE q = r
    <3>1. d[r] = Append(c[r], s) /\ c[r] \in Seq(T) /\ r \in DOMAIN c /\ r \in DOMAIN d
      OBVIOUS
    <3>2. /\ DOMAIN c[r] = 1..Len(c[r]) /\ DOMAIN d[r] = 1..n
          /\ d[r][n] = s /\ \A i \in 1..Len(c[r]) : d[r][i] = c[r][i]
          /\ Len(c[r]) \in Nat
      BY <3>1
    <3> QED BY <2>1, <3>1, <3>2 DEF Lies
  <2>2. CASE q # r
    BY <2>2 DEF Lies
  <2> QED BY <2>1, <2>2
<1>3. ~Lies(c, s, r, n)
  BY DEF Lies
<1> HIDE DEF n
<1>4. Never(c, s) => Once(d, s)
  <2>1. Never(c, s) => OnlyAt(d, s, r, n)
    BY <1>2 DEF Never, OnlyAt
  <2> QED BY <2>1 DEF Once
<1>5. Once(c, s) => Twice(d, s)
  <2> SUFFICES ASSUME NEW q, NEW j, OnlyAt(c, s, q, j) PROVE Twice(d, s)
    BY DEF Once
  <2>1. Lies(d, s, q, j) /\ Lies(d, s, r, n) /\ ~(r = q /\ n = j)
    BY <1>2, <1>3 DEF OnlyAt
  <2>2. \A u, k : Lies(d, s, u, k) => (u = q /\ k = j) \/ (u = r /\ k = n)
    BY <1>2 DEF OnlyAt
  <2>3. OnlyAtBoth(d, s, q, j, r, n)
    BY <2>1, <2>2 DEF OnlyAtBoth
  <2> QED BY <2>3 DEF Twice
<1>6. \A t : t # s => AsOften(c, d, t)
  BY <1>2, SamePlaces
<1> QED BY <1>1, <1>4, <1>5, <1>6 DEF OnceMore

\* What is removed at a place moves the chunks behind it.
LEMMA RemoveAtShifts ==
  ASSUME NEW T, NEW q \in Seq(T), NEW k \in DOMAIN q
  PROVE  /\ RemoveAt(q, k) \in Seq(T) /\ Len(RemoveAt(q, k)) = Len(q) - 1
         /\ \A i \in DOMAIN RemoveAt(q, k) :
              RemoveAt(q, k)[i] = IF i < k THEN q[i] ELSE q[i + 1]
<1> DEFINE a == SubSeq(q, 1, k - 1)
           b == SubSeq(q, k + 1, Len(q))
<1>1. k \in Nat /\ Len(q) \in Nat /\ 1 <= k /\ k <= Len(q)
  OBVIOUS
<1>2. a \in Seq(T) /\ Len(a) = k - 1 /\ \A i \in 1..k - 1 : a[i] = q[i]
  BY <1>1
<1>3. b \in Seq(T) /\ Len(b) = Len(q) - k /\ \A i \in 1..Len(q) - k : b[i] = q[k + i]
  BY <1>1
<1>4. RemoveAt(q, k) = a \o b
  BY DEF RemoveAt
<1> HIDE DEF a, b
<1>5. /\ a \o b \in Seq(T) /\ Len(a \o b) = Len(q) - 1
      /\ DOMAIN (a \o b) = 1..Len(q) - 1
      /\ \A i \in 1..Len(q) - 1 : (a \o b)[i] = IF i < k THEN a[i] ELSE b[i - k + 1]
  BY <1>1, <1>2, <1>3
<1>6. \A i \in 1..Len(q) - 1 : (a \o b)[i] = IF i < k THEN q[i] ELSE q[i + 1]
  <2> SUFFICES ASSUME NEW i \in 1..Len(q) - 1
               PROVE  (a \o b)[i] = IF i < k THEN q[i] ELSE q[i + 1]
    OBVIOUS
  <2>1. CASE i < k
    BY <1>1, <1>2, <1>5, <2>1
  <2>2. CASE i >= k
    <3>1. i - k + 1 \in 1..Len(q) - k /\ k + (i - k + 1) = i + 1 /\ ~(i < k)
      BY <1>1, <2>2
    <3>2. (a \o b)[i] = q[k + (i - k + 1)]
      BY <1>3, <1>5, <3>1
    <3> QED BY <3>1, <3>2
  <2>3. i < k \/ i >= k
    BY <1>1
  <2> QED BY <2>1, <2>2, <2>3
<1> QED BY <1>4, <1>5, <1>6

LEMMA Removed ==
  ASSUME NEW P, NEW T, NEW c \in [P -> Seq(T)], NEW r \in P, NEW s \in T,
         NEW k \in DOMAIN c[r], c[r][k] = s,
         NEW d, d = [c EXCEPT ![r] = RemoveAt(c[r], k)]
  PROVE  OnceLess(P, T, c, d, s)
<1> DEFINE Back(q, j) == IF q = r /\ j > k THEN j - 1 ELSE j
           Forth(q, j) == IF q = r /\ j >= k THEN j + 1 ELSE j
<1>1. /\ c[r] \in Seq(T) /\ DOMAIN c[r] = 1..Len(c[r]) /\ Len(c[r]) \in Nat
      /\ k \in 1..Len(c[r]) /\ r \in DOMAIN c
  OBVIOUS
<1>2. d[r] = RemoveAt(c[r], k) /\ DOMAIN d = P /\ \A q \in P : q # r => d[q] = c[q]
  OBVIOUS
<1>3. /\ d[r] \in Seq(T) /\ DOMAIN d[r] = 1..Len(c[r]) - 1
      /\ \A i \in DOMAIN d[r] : d[r][i] = IF i < k THEN c[r][i] ELSE c[r][i + 1]
  <2>1. /\ RemoveAt(c[r], k) \in Seq(T) /\ Len(RemoveAt(c[r], k)) = Len(c[r]) - 1
        /\ \A i \in DOMAIN RemoveAt(c[r], k) :
             RemoveAt(c[r], k)[i] = IF i < k THEN c[r][i] ELSE c[r][i + 1]
    BY <1>1, RemoveAtShifts
  <2> QED BY <1>2, <2>1
<1>4. d \in [P -> Seq(T)]
  BY <1>2, <1>3
<1>5. \A t, q, j : Lies(c, t, q, j) /\ ~(q = r /\ j = k) => Lies(d, t, q, Back(q, j))
  <2> SUFFICES ASSUME NEW t, NEW q, NEW j, Lies(c, t, q, j), ~(q = r /\ j = k)
               PROVE  Lies(d, t, q, Back(q, j))
    OBVIOUS
  <2>1. CASE q = r
    BY <1>1, <1>2, <1>3, <2>1 DEF Lies
  <2>2. CASE q # r
    BY <1>2, <2>2 DEF Lies
  <2> QED BY <2>1, <2>2
<1>6. \A t, q, j : Lies(d, t, q, j) =>
        /\ Lies(c, t, q, Forth(q, j)) /\ Back(q, Forth(q, j)) = j
        /\ ~(q = r /\ Forth(q, j) = k)
  <2> SUFFICES ASSUME NEW t, NEW q, NEW j, Lies(d, t, q, j)
               PROVE  /\ Lies(c, t, q, Forth(q, j)) /\ Back(q, Forth(q, j)) = j
                      /\ ~(q = r /\ Forth(q, j) = k)
    OBVIOUS
  <2>1. CASE q = r
    <3>1. j \in 1..Len(c[r]) - 1 /\ d[r][j] = t
      BY <1>3, <2>1 DEF Lies
    <3>2. CASE j < k
      BY <1>1, <1>3, <2>1, <3>1, <3>2 DEF Lies
    <3>3. CASE j >= k
      <4>1. j + 1 \in DOMAIN c[r] /\ c[r][j + 1] = t
        BY <1>1, <1>3, <3>1, <3>3
      <4>2. Forth(q, j) = j + 1 /\ Back(q, j + 1) = j /\ j + 1 # k
        BY <1>1, <2>1, <3>1, <3>3
      <4> QED BY <1>1, <2>1, <4>1, <4>2 DEF Lies
    <3> QED BY <1>1, <3>1, <3>2, <3>3
  <2>2. CASE q # r
    BY <1>2, <2>2 DEF Lies
  <2> QED BY <2>1, <2>2
<1>7. \A i, j \in DOMAIN c[r] : i # k /\ j # k /\ Back(r, i) = Back(r, j) => i = j
  BY <1>1
<1>8. Lies(c, s, r, k)
  BY <1>1 DEF Lies
<1>9. \A t, q, i, j : (/\ Lies(c, t, q, i) /\ ~(q = r /\ i = k)
                       /\ Lies(c, t, q, j) /\ ~(q = r /\ j = k)
                       /\ Back(q, i) = Back(q, j)) => i = j
  <2> SUFFICES ASSUME NEW t, NEW q, NEW i, NEW j,
                      Lies(c, t, q, i), ~(q = r /\ i = k),
                      Lies(c, t, q, j), ~(q = r /\ j = k), Back(q, i) = Back(q, j)
               PROVE  i = j
    OBVIOUS
  <2>1. CASE q = r
    BY <1>7, <2>1 DEF Lies
  <2>2. CASE q # r
    BY <2>2
  <2> QED BY <2>1, <2>2
<1> HIDE DEF Back, Forth
<1>10. ~Never(c, s)
  BY <1>8 DEF Never
<1>11. Once(c, s) => Never(d, s)
  <2> SUFFICES ASSUME NEW q, NEW j, OnlyAt(c, s, q, j) PROVE Never(d, s)
    BY DEF Once
  <2>1. q = r /\ j = k
    BY <1>8 DEF OnlyAt
  <2>2. ASSUME NEW u, NEW l, Lies(d, s, u, l) PROVE FALSE
    <3>1. Lies(c, s, u, Forth(u, l)) /\ ~(u = r /\ Forth(u, l) = k)
      BY <1>6, <2>2
    <3> QED BY <2>1, <3>1 DEF OnlyAt
  <2> QED BY <2>2 DEF Never
<1>12. Twice(c, s) => Once(d, s)
  <2> SUFFICES ASSUME NEW q, NEW j, Lies(c, s, q, j), ~(q = r /\ j = k),
                      \A u, l : Lies(c, s, u, l) => (u = r /\ l = k) \/ (u = q /\ l = j)
               PROVE  Once(d, s)
    <3> SUFFICES ASSUME NEW x, NEW i, NEW y, NEW j, OnlyAtBoth(c, s, x, i, y, j)
                 PROVE  \E q, l : /\ Lies(c, s, q, l) /\ ~(q = r /\ l = k)
                                  /\ \A u, m : Lies(c, s, u, m) =>
                                       (u = r /\ m = k) \/ (u = q /\ m = l)
      BY DEF Twice
    <3>1. CASE x = r /\ i = k
      BY <3>1 DEF OnlyAtBoth
    <3>2. CASE y = r /\ j = k
      BY <3>2 DEF OnlyAtBoth
    <3> QED BY <1>8, <3>1, <3>2 DEF OnlyAtBoth
  <2>1. Lies(d, s, q, Back(q, j))
    BY <1>5
  <2>2. \A u, l : Lies(d, s, u, l) => u = q /\ l = Back(q, j)
    BY <1>6
  <2>3. OnlyAt(d, s, q, Back(q, j))
    BY <2>1, <2>2 DEF OnlyAt
  <2> QED BY <2>3 DEF Once
<1>13. ASSUME NEW t, t # s PROVE AsOften(c, d, t)
  <2>1. \A q, j : Lies(c, t, q, j) => ~(q = r /\ j = k)
    BY <1>1, <1>13 DEF Lies
  <2>2. Never(c, t) => Never(d, t)
    BY <1>6 DEF Never
  <2>3. Once(c, t) => Once(d, t)
    <3> SUFFICES ASSUME NEW q, NEW j, Lies(c, t, q, j),
                        \A u, l : Lies(c, t, u, l) => u = q /\ l = j
                 PROVE  Once(d, t)
      BY DEF Once, OnlyAt
    <3>1. Lies(d, t, q, Back(q, j))
      BY <1>5, <2>1
    <3>2. \A u, l : Lies(d, t, u, l) => u = q /\ l = Back(q, j)
      BY <1>6
    <3>3. OnlyAt(d, t, q, Back(q, j))
      BY <3>1, <3>2 DEF OnlyAt
    <3> QED BY <3>3 DEF Once
  <2>4. Twice(c, t) => Twice(d, t)
    <3> SUFFICES ASSUME NEW q, NEW j, NEW u, NEW l,
                        Lies(c, t, q, j), Lies(c, t, u, l), ~(u = q /\ l = j),
                        \A v, m : Lies(c, t, v, m) => (v = q /\ m = j) \/ (v = u /\ m = l)
                 PROVE  Twice(d, t)
      BY DEF Twice, OnlyAtBoth
    <3>1. Lies(d, t, q, Back(q, j)) /\ Lies(d, t, u, Back(u, l))
      BY <1>5, <2>1
    <3>2. ~(u = q /\ Back(u, l) = Back(q, j))
      BY <1>9, <2>1
    <3>3. \A v, m : Lies(d, t, v, m) => (v = q /\ m = Back(q, j)) \/ (v = u /\ m = Back(u, l))
      BY <1>6
    <3>4. OnlyAtBoth(d, t, q, Back(q, j), u, Back(u, l))
      BY <3>1, <3>2, <3>3 DEF OnlyAtBoth
    <3> QED BY <3>4 DEF Twice
  <2> QED BY <2>2, <2>3, <2>4 DEF AsOften
<1> QED BY <1>4, <1>10, <1>11, <1>12, <1>13 DEF OnceLess

\* When a rule is emptied, the chunks that lie elsewhere as well lie once less.
LEMMA Cleared ==
  ASSUME NEW P, NEW T, NEW c \in [P -> Seq(T)], NEW r \in P,
         NEW d, d = [c EXCEPT ![r] = <<>>], NEW t
  PROVE  /\ d \in [P -> Seq(T)]
         /\ t \notin ToSet(c[r]) => AsOften(c, d, t)
         /\ t \in ToSet(c[r]) => ~Never(c, t)
         /\ t \in ToSet(c[r]) /\ Once(c, t) =>
              /\ Never(d, t)
              /\ ~\E i, j \in DOMAIN c[r] : i # j /\ c[r][i] = t /\ c[r][j] = t
         /\ t \in ToSet(c[r]) /\ Twice(c, t) =>
              IF \E i, j \in DOMAIN c[r] : i # j /\ c[r][i] = t /\ c[r][j] = t
              THEN Never(d, t) ELSE Once(d, t)
<1>1. d \in [P -> Seq(T)] /\ d[r] = <<>> /\ \A q \in P : q # r => d[q] = c[q]
  OBVIOUS
<1>2. \A q, j : Lies(d, t, q, j) <=> Lies(c, t, q, j) /\ q # r
  BY <1>1 DEF Lies
<1>3. t \in ToSet(c[r]) <=> \E i \in DOMAIN c[r] : c[r][i] = t
  BY DEF ToSet
<1>4. \A i : Lies(c, t, r, i) <=> i \in DOMAIN c[r] /\ c[r][i] = t
  BY DEF Lies
<1>5. ASSUME t \notin ToSet(c[r]) PROVE AsOften(c, d, t)
  BY <1>2, <1>3, <1>4, <1>5, SamePlaces
<1>6. ASSUME t \in ToSet(c[r])
      PROVE  \E i : Lies(c, t, r, i)
  BY <1>3, <1>4, <1>6
<1>7. ASSUME t \in ToSet(c[r]), Once(c, t)
      PROVE  /\ Never(d, t)
             /\ ~\E i, j \in DOMAIN c[r] : i # j /\ c[r][i] = t /\ c[r][j] = t
  <2>1. PICK i : Lies(c, t, r, i)
    BY <1>6, <1>7
  <2>2. PICK q, j : OnlyAt(c, t, q, j)
    BY <1>7 DEF Once
  <2>3. \A u, k : Lies(c, t, u, k) => u = r /\ k = i
    BY <2>1, <2>2 DEF OnlyAt
  <2>4. Never(d, t)
    BY <1>2, <2>3 DEF Never
  <2>5. ~\E x, y \in DOMAIN c[r] : x # y /\ c[r][x] = t /\ c[r][y] = t
    BY <1>4, <2>3
  <2> QED BY <2>4, <2>5
<1>8. ASSUME t \in ToSet(c[r]), Twice(c, t)
      PROVE  IF \E i, j \in DOMAIN c[r] : i # j /\ c[r][i] = t /\ c[r][j] = t
             THEN Never(d, t) ELSE Once(d, t)
  <2>1. PICK i : Lies(c, t, r, i)
    BY <1>6, <1>8
  <2>2. PICK q, j : /\ Lies(c, t, q, j) /\ ~(q = r /\ j = i)
                    /\ \A u, k : Lies(c, t, u, k) => (u = r /\ k = i) \/ (u = q /\ k = j)
    <3> SUFFICES ASSUME NEW x, NEW k, NEW y, NEW l, OnlyAtBoth(c, t, x, k, y, l)
                 PROVE  \E q, j : /\ Lies(c, t, q, j) /\ ~(q = r /\ j = i)
                                  /\ \A u, m : Lies(c, t, u, m) =>
                                       (u = r /\ m = i) \/ (u = q /\ m = j)
      BY <1>8 DEF Twice
    <3>1. CASE x = r /\ k = i
      BY <3>1 DEF OnlyAtBoth
    <3>2. CASE y = r /\ l = i
      BY <3>2 DEF OnlyAtBoth
    <3> QED BY <2>1, <3>1, <3>2 DEF OnlyAtBoth
  <2>3. CASE q = r
    <3>1. \E x, y \in DOMAIN c[r] : x # y /\ c[r][x] = t /\ c[r][y] = t
      BY <1>4, <2>1, <2>2, <2>3
    <3>2. Never(d, t)
      BY <1>2, <2>2, <2>3 DEF Never
    <3> QED BY <3>1, <3>2
  <2>4. CASE q # r
    <3>1. ~\E x, y \in DOMAIN c[r] : x # y /\ c[r][x] = t /\ c[r][y] = t
      BY <1>4, <2>2, <2>4
    <3>2. OnlyAt(d, t, q, j)
      BY <1>2, <2>2, <2>4 DEF OnlyAt
    <3> QED BY <3>1, <3>2 DEF Once
  <2> QED BY <2>3, <2>4
<1> QED BY <1>1, <1>5, <1>6, <1>7, <1>8 DEF Never

\* Rules that hold disjoint sets, each element once, hold each chunk once.
LEMMA MergedOnce ==
  ASSUME NEW P, NEW T, NEW home, NEW d,
         d = [p \in P |-> d[p]],
         \A p \in P : OnceEach(d[p], home[p]) /\ home[p] \subseteq T,
         \A p, q \in P : \A t : t \in home[p] /\ t \in home[q] => p = q
  PROVE  /\ d \in [P -> Seq(T)]
         /\ \A t : IF t \in UNION {home[p] : p \in P} THEN Once(d, t) ELSE Never(d, t)
<1>1. ASSUME NEW p \in P PROVE d[p] \in Seq(T)
  <2>1. d[p] \in Seq(home[p]) /\ home[p] \subseteq T
    BY DEF OnceEach
  <2> QED BY <2>1
<1>2. \A t, p, i : Lies(d, t, p, i) => p \in P /\ i \in DOMAIN d[p] /\ d[p][i] = t /\ t \in home[p]
  <2> SUFFICES ASSUME NEW t, NEW p, NEW i, Lies(d, t, p, i)
               PROVE  p \in P /\ i \in DOMAIN d[p] /\ d[p][i] = t /\ t \in home[p]
    OBVIOUS
  <2>1. p \in P /\ i \in DOMAIN d[p] /\ d[p][i] = t
    BY DEF Lies
  <2>2. d[p] \in Seq(home[p])
    BY <2>1 DEF OnceEach
  <2> QED BY <2>1, <2>2
<1>3. ASSUME NEW t, NEW p \in P, t \in home[p] PROVE Once(d, t)
  <2>1. PICK i \in DOMAIN d[p] : d[p][i] = t
    BY <1>3 DEF OnceEach
  <2>2. Lies(d, t, p, i)
    BY <2>1 DEF Lies
  <2>3. \A q, j : Lies(d, t, q, j) => q = p /\ j = i
    BY <1>2, <1>3, <2>1 DEF OnceEach
  <2>4. OnlyAt(d, t, p, i)
    BY <2>2, <2>3 DEF OnlyAt
  <2> QED BY <2>4 DEF Once
<1>4. ASSUME NEW t, t \notin UNION {home[p] : p \in P} PROVE Never(d, t)
  BY <1>2, <1>4 DEF Never
<1>5. d \in [P -> Seq(T)]
  BY <1>1
<1>6. ASSUME NEW t PROVE IF t \in UNION {home[p] : p \in P} THEN Once(d, t) ELSE Never(d, t)
  <2>1. CASE \E p \in P : t \in home[p]
    BY <1>3, <2>1
  <2>2. CASE ~\E p \in P : t \in home[p]
    BY <1>4, <2>2
  <2> QED BY <2>1, <2>2
<1> QED BY <1>5, <1>6

------------------------------------------------------------------------------
\* The balance of a chunk.  plus and minus are what a plugin has on its account:
\* the chunks it has added, or removed, once too often.
Balance(c, mg, plus, minus, t) ==
  /\ ~(t \in plus /\ t \in minus)
  /\ t \in plus => IF t \in mg THEN Twice(c, t) ELSE Once(c, t)
  /\ t \in minus => t \in mg /\ Never(c, t)
  /\ t \notin plus /\ t \notin minus => IF t \in mg THEN Once(c, t) ELSE Never(c, t)

\* A chunk that nobody or only p has moved is balanced.
Balanced(t) ==
  /\ movers[t] = {} => Balance(contents, merged, {}, {}, t)
  /\ \A p \in Plugins : movers[t] = {p} => Balance(contents, merged, added[p], removed[p], t)

AccountTypes ==
  /\ link \in Links
  /\ inputs \in SUBSET Sections /\ all \in SUBSET Sections /\ merged \in SUBSET Sections
  /\ contents \in [Slots -> Seq(Sections)]
  /\ added \in [Plugins -> SUBSET Sections] /\ removed \in [Plugins -> SUBSET Sections]
  /\ movers \in [Sections -> SUBSET Plugins]

\* What waits in updateChunks.
UpdateType ==
  updating # <<>> =>
    updating[1] \in Plugins /\ updating[2] \in Slots /\ updating[3] \in Seq(Sections)

\* Only who moves a chunk has it on its account.
MoversKnown ==
  \A t \in Sections, p \in Plugins : t \in added[p] \/ t \in removed[p] => p \in movers[t]

\* Nothing is moved before the merging.
NotMovedYet ==
  phase \notin {"creating", "done", "failed"} =>
    updating = <<>> /\ \A t \in Sections : movers[t] = {}

\* The link goes on when all accounts are even.
EvenWhenDone ==
  phase = "done" => updating = <<>> /\ \A p \in Plugins : added[p] = {} /\ removed[p] = {}

AccountsInv ==
  /\ AccountTypes /\ UpdateType /\ MoversKnown /\ NotMovedYet /\ EvenWhenDone
  /\ \A t \in Sections : Balanced(t)

\* A chunk that lies as often as before, and on no other accounts, stays balanced.
LEMMA BalanceKept ==
  ASSUME NEW c, NEW d, NEW mg, NEW plus, NEW minus, NEW plus2, NEW minus2, NEW t,
         AsOften(c, d, t), Balance(c, mg, plus, minus, t),
         t \in plus2 <=> t \in plus, t \in minus2 <=> t \in minus
  PROVE  Balance(d, mg, plus2, minus2, t)
BY DEF Balance, AsOften

\* The plugin p moves the chunks X: the others stay balanced, and these do when
\* they do for the accounts of p.
LEMMA MoveBalances ==
  ASSUME AccountTypes, MoversKnown, \A t \in Sections : Balanced(t),
         NEW p \in Plugins, NEW X \in SUBSET Sections, Slots' = Slots, link' = link,
         inputs' = inputs, all' = all, merged' = merged,
         contents' \in [Slots -> Seq(Sections)],
         movers' = [t \in Sections |-> IF t \in X THEN movers[t] \cup {p} ELSE movers[t]],
         NEW plus \in SUBSET Sections, NEW minus \in SUBSET Sections,
         added' = [added EXCEPT ![p] = plus], removed' = [removed EXCEPT ![p] = minus],
         \A t \in Sections \ X :
           /\ t \in plus <=> t \in added[p]
           /\ t \in minus <=> t \in removed[p]
           /\ AsOften(contents, contents', t),
         \A t \in X : Balance(contents, merged, added[p], removed[p], t) =>
                        Balance(contents', merged, plus, minus, t)
  PROVE  AccountTypes' /\ MoversKnown' /\ \A t \in Sections : Balanced(t)'
<1>1. AccountTypes'
  BY DEF AccountTypes
<1>2. /\ added'[p] = plus /\ removed'[p] = minus
      /\ \A q \in Plugins : q # p => added'[q] = added[q] /\ removed'[q] = removed[q]
  BY DEF AccountTypes
<1>3. \A t \in Sections : movers'[t] = IF t \in X THEN movers[t] \cup {p} ELSE movers[t]
  OBVIOUS
<1>4. MoversKnown'
  <2> SUFFICES ASSUME NEW t \in Sections, NEW q \in Plugins,
                      t \in added'[q] \/ t \in removed'[q]
               PROVE  q \in movers'[t]
    BY DEF MoversKnown
  <2>1. CASE q # p
    BY <1>2, <1>3, <2>1 DEF MoversKnown
  <2>2. CASE q = p /\ t \notin X
    BY <1>2, <1>3, <2>2 DEF MoversKnown
  <2>3. CASE q = p /\ t \in X
    BY <1>3, <2>3
  <2> QED BY <2>1, <2>2, <2>3
<1>5. ASSUME NEW t \in Sections PROVE Balanced(t)'
  <2>1. CASE t \in X
    <3>1. \A q \in Plugins : movers'[t] = {q} => q = p
      BY <1>3, <2>1
    <3>2. movers'[t] # {}
      BY <1>3, <2>1
    <3>3. ASSUME movers'[t] = {p} PROVE Balance(contents', merged, plus, minus, t)
      <4>1. CASE movers[t] = {p}
        BY <2>1, <4>1 DEF Balanced
      <4>2. CASE movers[t] = {}
        <5>1. t \notin added[p] /\ t \notin removed[p]
          BY <4>2 DEF MoversKnown
        <5>2. Balance(contents, merged, {}, {}, t)
          BY <4>2 DEF Balanced
        <5>3. Balance(contents, merged, added[p], removed[p], t)
          BY <5>1, <5>2 DEF Balance
        <5> QED BY <2>1, <5>3
      <4> QED BY <1>3, <2>1, <3>3, <4>1, <4>2
    <3> QED BY <1>2, <3>1, <3>2, <3>3 DEF Balanced
  <2>2. CASE t \notin X
    <3>1. movers'[t] = movers[t] /\ AsOften(contents, contents', t)
      BY <1>3, <2>2
    <3>2. \A q \in Plugins : /\ t \in added'[q] <=> t \in added[q]
                             /\ t \in removed'[q] <=> t \in removed[q]
      BY <1>2, <2>2
    <3>3. movers'[t] = {} => Balance(contents', merged, {}, {}, t)
      BY <3>1, BalanceKept DEF Balanced
    <3>4. \A q \in Plugins : movers'[t] = {q} =>
            Balance(contents', merged, added'[q], removed'[q], t)
      BY <3>1, <3>2, BalanceKept DEF Balanced
    <3> QED BY <3>3, <3>4 DEF Balanced
  <2> QED BY <2>1, <2>2
<1> QED BY <1>1, <1>4, <1>5

LEMMA SlotsFixed ==
  ASSUME link' = link PROVE Slots' = Slots
BY DEF Slots, Places, Orphanage

LEMMA PlacesAreSlots == Places(link.script) \subseteq Slots
BY DEF Slots

\* The chunk s is added to the rule r by the plugin p.
LEMMA AddBalances ==
  ASSUME AccountTypes, MoversKnown, \A t \in Sections : Balanced(t), link' = link,
         UNCHANGED <<inputs, all, merged>>,
         NEW p \in Plugins, NEW r \in Slots, NEW s \in Sections, s \notin added[p],
         addChunkOp(p, r, s)
  PROVE  AccountTypes' /\ MoversKnown' /\ \A t \in Sections : Balanced(t)'
<1> DEFINE X     == {s}
           plus  == IF s \in removed[p] THEN added[p] ELSE added[p] \cup {s}
           minus == removed[p] \ {s}
<1>1. /\ contents' = [contents EXCEPT ![r] = Append(@, s)]
      /\ movers' = [movers EXCEPT ![s] = @ \cup {p}]
      /\ removed' = [removed EXCEPT ![p] = minus]
  BY DEF addChunkOp, recordFragmentAdd
<1>2. added' = [added EXCEPT ![p] = plus]
  BY DEF addChunkOp, recordFragmentAdd, AccountTypes
<1>3. plus \in SUBSET Sections /\ minus \in SUBSET Sections
  BY DEF AccountTypes
<1>4. contents \in [Slots -> Seq(Sections)] /\ movers \in [Sections -> SUBSET Plugins]
  BY DEF AccountTypes
<1>5. /\ contents' \in [Slots -> Seq(Sections)]
      /\ Never(contents, s) => Once(contents', s)
      /\ Once(contents, s) => Twice(contents', s)
      /\ \A t : t # s => AsOften(contents, contents', t)
  <2>1. contents' = [contents EXCEPT ![r] = Append(contents[r], s)]
    BY <1>1
  <2>2. OnceMore(Slots, Sections, contents, contents', s)
    BY <1>4, <2>1, Appended
  <2> QED BY <2>2 DEF OnceMore
<1>6. movers' = [t \in Sections |-> IF t \in X THEN movers[t] \cup {p} ELSE movers[t]]
  BY <1>1, <1>4
<1>7. \A t \in Sections \ X : /\ t \in plus <=> t \in added[p]
                              /\ t \in minus <=> t \in removed[p]
                              /\ AsOften(contents, contents', t)
  BY <1>5
<1>8. \A t \in X : Balance(contents, merged, added[p], removed[p], t) =>
                     Balance(contents', merged, plus, minus, t)
  BY <1>5 DEF Balance
<1>9. X \in SUBSET Sections /\ contents' \in [Slots -> Seq(Sections)] /\ Slots' = Slots
  BY <1>5, SlotsFixed
<1>10. removed' = [removed EXCEPT ![p] = minus]
  BY <1>1
<1> HIDE DEF X, plus, minus
<1> QED BY <1>2, <1>3, <1>6, <1>7, <1>8, <1>9, <1>10, MoveBalances

\* The first chunk s of the rule r is removed by the plugin p.
LEMMA RemoveBalances ==
  ASSUME AccountTypes, MoversKnown, \A t \in Sections : Balanced(t), link' = link,
         UNCHANGED <<inputs, all, merged>>,
         NEW p \in Plugins, NEW r \in Slots, NEW s \in Sections,
         NEW k \in DOMAIN contents[r], contents[r][k] = s,
         contents' = [contents EXCEPT ![r] = RemoveAt(@, k)],
         recordFragmentRemove(p, s), movers' = [movers EXCEPT ![s] = @ \cup {p}]
  PROVE  AccountTypes' /\ MoversKnown' /\ \A t \in Sections : Balanced(t)'
<1> DEFINE X     == {s}
           plus  == added[p] \ {s}
           minus == IF s \in added[p] THEN removed[p] ELSE removed[p] \cup {s}
<1>1. added' = [added EXCEPT ![p] = plus]
  BY DEF recordFragmentRemove
<1>2. removed' = [removed EXCEPT ![p] = minus]
  BY DEF recordFragmentRemove, AccountTypes
<1>3. plus \in SUBSET Sections /\ minus \in SUBSET Sections
  BY DEF AccountTypes
<1>4. contents \in [Slots -> Seq(Sections)] /\ movers \in [Sections -> SUBSET Plugins]
  BY DEF AccountTypes
<1>5. /\ contents' \in [Slots -> Seq(Sections)]
      /\ ~Never(contents, s)
      /\ Once(contents, s) => Never(contents', s)
      /\ Twice(contents, s) => Once(contents', s)
      /\ \A t : t # s => AsOften(contents, contents', t)
  <2>1. contents' = [contents EXCEPT ![r] = RemoveAt(contents[r], k)]
    OBVIOUS
  <2>2. OnceLess(Slots, Sections, contents, contents', s)
    BY <1>4, <2>1, Removed
  <2> QED BY <2>2 DEF OnceLess
<1>6. movers' = [t \in Sections |-> IF t \in X THEN movers[t] \cup {p} ELSE movers[t]]
  BY <1>4
<1>7. \A t \in Sections \ X : /\ t \in plus <=> t \in added[p]
                              /\ t \in minus <=> t \in removed[p]
                              /\ AsOften(contents, contents', t)
  BY <1>5
<1>8. \A t \in X : Balance(contents, merged, added[p], removed[p], t) =>
                     Balance(contents', merged, plus, minus, t)
  BY <1>5 DEF Balance
<1>9. X \in SUBSET Sections /\ contents' \in [Slots -> Seq(Sections)] /\ Slots' = Slots
  BY <1>5, SlotsFixed
<1> HIDE DEF X, plus, minus
<1> QED BY <1>1, <1>2, <1>3, <1>6, <1>7, <1>8, <1>9, MoveBalances

\* All chunks of the rule r are removed by the plugin p.
LEMMA ClearBalances ==
  ASSUME AccountTypes, MoversKnown, \A t \in Sections : Balanced(t),
         NEW p \in Plugins, NEW r \in Slots, NEW chunks, updateChunks(p, r, chunks)
  PROVE  AccountTypes' /\ MoversKnown' /\ \A t \in Sections : Balanced(t)'
<1> DEFINE held  == ToSet(contents[r])
           Two(t) == \E i, j \in DOMAIN contents[r] :
                       i # j /\ contents[r][i] = t /\ contents[r][j] = t
           again == {t \in held : Two(t)}
           plus  == added[p] \ held
           minus == removed[p] \cup (held \ added[p]) \cup again
<1>1. contents \in [Slots -> Seq(Sections)] /\ movers \in [Sections -> SUBSET Plugins]
  BY DEF AccountTypes
<1>2. held \subseteq Sections
  BY <1>1 DEF ToSet
<1>3. /\ added' = [added EXCEPT ![p] = plus] /\ removed' = [removed EXCEPT ![p] = minus]
      /\ contents' = [contents EXCEPT ![r] = <<>>]
      /\ movers' = [t \in Sections |-> IF t \in held THEN movers[t] \cup {p} ELSE movers[t]]
      /\ link' = link /\ UNCHANGED <<inputs, all, merged>>
  BY DEF updateChunks
<1>4. plus \in SUBSET Sections /\ minus \in SUBSET Sections
  BY <1>2 DEF AccountTypes
<1>5. ASSUME NEW t
      PROVE  /\ contents' \in [Slots -> Seq(Sections)]
             /\ t \notin held => AsOften(contents, contents', t)
             /\ t \in held => ~Never(contents, t)
             /\ t \in held /\ Once(contents, t) => Never(contents', t) /\ ~Two(t)
             /\ t \in held /\ Twice(contents, t) =>
                  IF Two(t) THEN Never(contents', t) ELSE Once(contents', t)
  BY <1>1, <1>3, Cleared
<1> HIDE DEF Two, held
<1>6. \A t \in Sections \ held : /\ t \in plus <=> t \in added[p]
                                 /\ t \in minus <=> t \in removed[p]
                                 /\ AsOften(contents, contents', t)
  BY <1>5
<1>7. ASSUME NEW t \in held, Balance(contents, merged, added[p], removed[p], t)
      PROVE  Balance(contents', merged, plus, minus, t)
  <2>1. t \notin plus /\ t \notin removed[p]
    BY <1>5, <1>7 DEF Balance
  <2>2. CASE t \in added[p] /\ t \in merged
    BY <1>5, <1>7, <2>1, <2>2 DEF Balance
  <2>3. CASE t \in added[p] /\ t \notin merged
    BY <1>5, <1>7, <2>1, <2>3 DEF Balance
  <2>4. CASE t \notin added[p]
    BY <1>5, <1>7, <2>1, <2>4 DEF Balance
  <2> QED BY <2>2, <2>3, <2>4
<1>8. contents' \in [Slots -> Seq(Sections)]
  BY <1>5
<1> HIDE DEF plus, minus
<1> QED BY <1>2, <1>3, <1>4, <1>6, <1>7, <1>8, SlotsFixed, MoveBalances

\* What the assumption says of the script of a link.
LEMMA ScriptTypes ==
  ASSUME link \in Links
  PROVE  /\ DOMAIN link.script = 1..Len(link.script) /\ Len(link.script) \in Nat
         /\ \A o \in DOMAIN link.script :
              LET rules == link.script[o].rules
              IN /\ link.script[o].name \in Nat /\ link.script[o].discard \in BOOLEAN
                 /\ DOMAIN rules = 1..Len(rules) /\ Len(rules) \in Nat \ {0}
                 /\ rules[Len(rules)].special
                 /\ \A r \in DOMAIN rules :
                      /\ rules[r].accepts \in SUBSET Sections
                      /\ rules[r].special \in BOOLEAN /\ rules[r].keep \in BOOLEAN
                      /\ rules[r].sort \in SortPolicies
<1>1. /\ link.script \in Seq(OutputRecords(Sections))
      /\ \A o \in DOMAIN link.script :
           link.script[o].rules # <<>> /\ link.script[o].rules[Len(link.script[o].rules)].special
  BY LinksAssumption
<1>2. DOMAIN link.script = 1..Len(link.script) /\ Len(link.script) \in Nat
  BY <1>1
<1> SUFFICES ASSUME NEW o \in DOMAIN link.script
             PROVE  LET rules == link.script[o].rules
                    IN /\ link.script[o].name \in Nat /\ link.script[o].discard \in BOOLEAN
                       /\ DOMAIN rules = 1..Len(rules) /\ Len(rules) \in Nat \ {0}
                       /\ rules[Len(rules)].special
                       /\ \A r \in DOMAIN rules :
                            /\ rules[r].accepts \in SUBSET Sections
                            /\ rules[r].special \in BOOLEAN /\ rules[r].keep \in BOOLEAN
                            /\ rules[r].sort \in SortPolicies
  BY <1>2
<1> DEFINE R == [accepts : SUBSET Sections, special : BOOLEAN, keep : BOOLEAN,
                 sort : SortPolicies]
           rules == link.script[o].rules
<1>3. link.script[o] \in OutputRecords(Sections)
  BY <1>1
<1>4. link.script[o].name \in Nat /\ link.script[o].discard \in BOOLEAN /\ rules \in Seq(R)
  BY <1>3 DEF OutputRecords
<1>5. rules # <<>> /\ rules[Len(rules)].special
  BY <1>1
<1> HIDE DEF rules, R
<1>6. DOMAIN rules = 1..Len(rules) /\ Len(rules) \in Nat \ {0}
  BY <1>4, <1>5
<1>7. \A r \in DOMAIN rules : rules[r] \in R
  BY <1>4
<1> QED BY <1>4, <1>5, <1>6, <1>7 DEF rules, R

LEMMA PolicyKnown ==
  ASSUME link \in Links, NEW p PROVE PolicyOf(p) \in SortPolicies
<1>1. CASE p \in Places(link.script)
  <2>1. p[1] \in DOMAIN link.script /\ p[2] \in DOMAIN link.script[p[1]].rules
    BY <1>1 DEF Places
  <2>2. link.script[p[1]].rules[p[2]].sort \in SortPolicies
    BY <2>1, ScriptTypes
  <2> QED BY <1>1, <2>2 DEF PolicyOf, RuleAt
<1>2. CASE p \notin Places(link.script)
  BY <1>2 DEF PolicyOf, SortPolicies
<1> QED BY <1>1, <1>2

\* A rule has the sections whose home it is, each once and in the order of its policy.
LEMMA RulesMerged ==
  ASSUME AccountTypes, mergeInputSections, NEW p \in Slots
  PROVE  /\ OnceEach(contents'[p], {s \in {t \in all : Mergeable(t)} : HomeOf(s) = p})
         /\ \A i, j \in DOMAIN contents'[p] :
              i < j => SortedPair(PolicyOf(p), contents'[p][i], contents'[p][j])
<1> DEFINE Home == {s \in {t \in all : Mergeable(t)} : HomeOf(s) = p}
           q == InOrder(Home, link.rank)
<1>1. contents'[p] = sortSections(q, PolicyOf(p), link.name, link.align)
  BY DEF mergeInputSections
<1>2. /\ link.rank \in [Sections -> Nat] /\ link.rank \in [Sections -> Int]
      /\ \A s, t \in Sections : link.rank[s] = link.rank[t] => s = t
      /\ link.name \in [Sections -> Nat] /\ link.align \in [Sections -> Nat]
  BY LinksAssumption DEF AccountTypes
<1>3. PolicyOf(p) \in SortPolicies
  BY PolicyKnown DEF AccountTypes
<1>4. Home \in SUBSET Sections /\ IsFiniteSet(Home)
  BY SectionsAssumption, FS_Subset DEF AccountTypes
<1> HIDE DEF Home
<1>5. /\ OnceEach(q, Home)
      /\ \A i, j \in DOMAIN q : i < j => link.rank[q[i]] < link.rank[q[j]]
  BY <1>2, <1>4, InOrderOnce
<1> HIDE DEF q
<1> QED BY <1>1, <1>2, <1>3, <1>4, <1>5, SectionsSorted DEF Home

\* Every section is merged into the rule it has matched, once.
LEMMA MergeBalances ==
  ASSUME AccountTypes, mergeInputSections, link' = link
  PROVE  /\ contents' \in [Slots -> Seq(Sections)] /\ merged' \in SUBSET Sections
         /\ \A t \in Sections : Balance(contents', merged', {}, {}, t)
<1> DEFINE sects == {s \in all : Mergeable(s)}
           Home(p) == {s \in sects : HomeOf(s) = p}
           home == [p \in Slots |-> Home(p)]
<1>1. sects \subseteq Sections /\ \A p \in Slots : home[p] \subseteq Sections
  BY DEF AccountTypes
<1>2. /\ contents' = [p \in Slots |->
            sortSections(InOrder(Home(p), link.rank), PolicyOf(p), link.name, link.align)]
      /\ merged' = UNION {Home(p) : p \in Slots}
  BY DEF mergeInputSections
<1>5. ASSUME NEW p \in Slots PROVE OnceEach(contents'[p], home[p])
  BY RulesMerged
<1>6. \A p, q \in Slots : \A t : t \in home[p] /\ t \in home[q] => p = q
  OBVIOUS
<1>7. contents' = [p \in Slots |-> contents'[p]]
  BY <1>2
<1>8. merged' = UNION {home[p] : p \in Slots}
  BY <1>2
<1> HIDE DEF home
<1>9. /\ contents' \in [Slots -> Seq(Sections)]
      /\ \A t : IF t \in UNION {home[p] : p \in Slots} THEN Once(contents', t)
                                                       ELSE Never(contents', t)
  BY <1>1, <1>5, <1>6, <1>7, MergedOnce
<1>10. merged' \in SUBSET Sections
  BY <1>1, <1>8
<1>11. \A t : Balance(contents', merged', {}, {}, t)
  BY <1>8, <1>9 DEF Balance
<1> QED BY <1>9, <1>10, <1>11

------------------------------------------------------------------------------
\* The steps.

LEMMA InitAccounts == Init => AccountsInv
<1> SUFFICES ASSUME Init PROVE AccountsInv
  OBVIOUS
<1>1. /\ link \in Links /\ phase \in {"match for lto", "resolve"} /\ updating = <<>>
      /\ movers = [s \in Sections |-> {}] /\ contents = [p \in Slots |-> <<>>]
  BY DEF Init
<1>2. AccountTypes
  <2>1. contents \in [Slots -> Seq(Sections)]
    <3>1. <<>> \in Seq(Sections)
      OBVIOUS
    <3> QED BY <1>1, <3>1
  <2>2. inputs \in SUBSET Sections /\ all \in SUBSET Sections /\ merged \in SUBSET Sections
    BY DEF Init, Arriving
  <2>3. /\ added \in [Plugins -> SUBSET Sections] /\ removed \in [Plugins -> SUBSET Sections]
        /\ movers \in [Sections -> SUBSET Plugins]
    BY DEF Init
  <2> QED BY <1>1, <2>1, <2>2, <2>3 DEF AccountTypes
<1>3. UpdateType /\ MoversKnown
  BY DEF Init, UpdateType, MoversKnown
<1>4. NotMovedYet /\ EvenWhenDone
  BY <1>1 DEF NotMovedYet, EvenWhenDone
<1>5. ASSUME NEW t \in Sections PROVE Balanced(t)
  <2>1. movers[t] = {}
    BY <1>1
  <2>2. Never(contents, t)
    <3>1. \A i : i \notin DOMAIN << >>
      OBVIOUS
    <3>2. \A r \in DOMAIN contents : contents[r] = <<>>
      BY <1>1
    <3> QED BY <3>1, <3>2 DEF Never, Lies
  <2>3. t \notin merged
    BY DEF Init
  <2>4. Balance(contents, merged, {}, {}, t)
    BY <2>2, <2>3 DEF Balance
  <2> QED BY <2>1, <2>4 DEF Balanced
<1> QED BY <1>2, <1>3, <1>4, <1>5 DEF AccountsInv

\* A step that moves no chunk.
LEMMA StillAccounts ==
  ASSUME AccountsInv, UNCHANGED <<link, moving>>,
         inputs' \in SUBSET Sections, all' \in SUBSET Sections,
         \/ phase' = phase
         \/ {phase, phase'} \cap {"creating", "done", "failed"} = {}
  PROVE  AccountsInv'
<1>1. UNCHANGED <<contents, updating, added, removed, merged, movers>>
  BY DEF moving
<1>2. Slots' = Slots
  BY SlotsFixed
<1>3. AccountTypes'
  BY <1>1, <1>2 DEF AccountsInv, AccountTypes
<1>4. UpdateType' /\ MoversKnown'
  BY <1>1, <1>2 DEF AccountsInv, UpdateType, MoversKnown
<1>5. NotMovedYet'
  BY <1>1 DEF AccountsInv, NotMovedYet
<1>6. EvenWhenDone'
  BY <1>1 DEF AccountsInv, EvenWhenDone
<1>7. ASSUME NEW t \in Sections PROVE Balanced(t)'
  <2>1. Balanced(t)
    BY DEF AccountsInv
  <2> QED BY <1>1, <2>1 DEF Balanced
<1> QED BY <1>3, <1>4, <1>5, <1>6, <1>7 DEF AccountsInv

\* A step of a plugin that moves chunks keeps the phase and what waits.
LEMMA MovedAccounts ==
  ASSUME phase = "creating", UNCHANGED <<link, phase>>, UpdateType',
         AccountTypes', MoversKnown', \A t \in Sections : Balanced(t)'
  PROVE  AccountsInv'
<1>1. NotMovedYet' /\ EvenWhenDone'
  BY DEF NotMovedYet, EvenWhenDone
<1> QED BY <1>1 DEF AccountsInv

LEMMA AskAccounts == ASSUME AccountsInv, Asks PROVE AccountsInv'
<1>1. inputs \in SUBSET Sections /\ all \in SUBSET Sections
  BY DEF AccountsInv, AccountTypes
<1>2. ASSUME NEW p \in Plugins, NEW s \in inputs, NEW n \in Targets, setOutputSection(p, s, n)
      PROVE  AccountsInv'
  BY <1>1, <1>2, StillAccounts DEF setOutputSection
<1>3. ASSUME NEW p \in Plugins, finishAssignOutputSections(p) PROVE AccountsInv'
  BY <1>1, <1>3, StillAccounts DEF finishAssignOutputSections, initializeMerge
<1> QED BY <1>2, <1>3 DEF Asks

LEMMA MoveAccounts ==
  ASSUME AccountsInv, NEW p \in Plugins, NEW r \in Slots
  PROVE  /\ \A s \in Sections : addChunk(p, r, s) \/ removeChunk(p, r, s) => AccountsInv'
         /\ \A chunks \in Seq(Sections) : updateChunks(p, r, chunks) => AccountsInv'
<1>1. /\ AccountTypes /\ MoversKnown /\ UpdateType
      /\ \A t \in Sections : Balanced(t)
  BY DEF AccountsInv
<1>2. ASSUME NEW s \in Sections, addChunk(p, r, s) PROVE AccountsInv'
  <2>1. /\ phase = "creating" /\ s \notin added[p] /\ addChunkOp(p, r, s)
        /\ UNCHANGED <<link, phase, inputs, all, updating, merged>> /\ updating = <<>>
    BY <1>2 DEF addChunk, MayMove
  <2>2. AccountTypes' /\ MoversKnown' /\ \A t \in Sections : Balanced(t)'
    BY <1>1, <2>1, AddBalances
  <2>3. UpdateType'
    BY <2>1 DEF UpdateType
  <2> QED BY <2>1, <2>2, <2>3, MovedAccounts
<1>3. ASSUME NEW s \in Sections, removeChunk(p, r, s) PROVE AccountsInv'
  <2> DEFINE At == {i \in DOMAIN contents[r] : contents[r][i] = s}
  <2>1. /\ phase = "creating" /\ updating = <<>>
        /\ UNCHANGED <<link, phase, inputs, all, updating, merged>>
    BY <1>3 DEF removeChunk, MayMove
  <2>2. UpdateType'
    BY <2>1 DEF UpdateType
  <2>3. CASE UNCHANGED <<contents, added, removed, movers>>
    <3>1. Slots' = Slots
      BY <2>1, SlotsFixed
    <3>2. AccountTypes' /\ MoversKnown'
      BY <1>1, <2>1, <2>3, <3>1 DEF AccountTypes, MoversKnown
    <3>3. ASSUME NEW t \in Sections PROVE Balanced(t)'
      BY <1>1, <2>1, <2>3 DEF Balanced
    <3> QED BY <2>1, <2>2, <3>2, <3>3, MovedAccounts
  <2>4. CASE /\ \E k \in At : contents' = [contents EXCEPT ![r] = RemoveAt(@, k)]
             /\ recordFragmentRemove(p, s)
             /\ movers' = [movers EXCEPT ![s] = @ \cup {p}]
    <3>1. PICK k \in DOMAIN contents[r] :
            contents[r][k] = s /\ contents' = [contents EXCEPT ![r] = RemoveAt(@, k)]
      BY <2>4
    <3>2. AccountTypes' /\ MoversKnown' /\ \A t \in Sections : Balanced(t)'
      BY <1>1, <2>1, <2>4, <3>1, RemoveBalances
    <3> QED BY <2>1, <2>2, <3>2, MovedAccounts
  <2> QED BY <1>3, <2>3, <2>4 DEF removeChunk
<1>4. ASSUME NEW chunks \in Seq(Sections), updateChunks(p, r, chunks) PROVE AccountsInv'
  <2>1. /\ phase = "creating" /\ UNCHANGED <<link, phase>> /\ updating' = <<p, r, chunks>>
    BY <1>4 DEF updateChunks, MayMove
  <2>2. AccountTypes' /\ MoversKnown' /\ \A t \in Sections : Balanced(t)'
    BY <1>1, <1>4, ClearBalances
  <2>3. UpdateType'
    BY <2>1, SlotsFixed DEF UpdateType
  <2> QED BY <2>1, <2>2, <2>3, MovedAccounts
<1> QED BY <1>2, <1>3, <1>4

LEMMA UpdateAccounts == ASSUME AccountsInv, updateNextChunk PROVE AccountsInv'
<1> DEFINE p == updating[1]
           r == updating[2]
           chunks == updating[3]
<1>1. /\ AccountTypes /\ MoversKnown /\ \A t \in Sections : Balanced(t)
      /\ UpdateType /\ NotMovedYet /\ EvenWhenDone
  BY DEF AccountsInv
<1>2. /\ updating # <<>>
      /\ UNCHANGED <<link, phase, inputs, all, merged>>
      /\ IF chunks # <<>> /\ Head(chunks) \notin added[p]
         THEN addChunkOp(p, r, Head(chunks)) /\ updating' = [updating EXCEPT ![3] = Tail(@)]
         ELSE updating' = <<>> /\ UNCHANGED <<contents, added, removed, movers>>
  BY DEF updateNextChunk
<1>3. p \in Plugins /\ r \in Slots /\ chunks \in Seq(Sections)
  BY <1>1, <1>2 DEF UpdateType
<1>4. phase \in {"creating", "failed"}
  BY <1>1, <1>2 DEF NotMovedYet, EvenWhenDone
<1>5. NotMovedYet' /\ EvenWhenDone'
  BY <1>2, <1>4 DEF NotMovedYet, EvenWhenDone
<1>6. CASE chunks # <<>> /\ Head(chunks) \notin added[p]
  <2>1. Head(chunks) \in Sections /\ Tail(chunks) \in Seq(Sections)
    BY <1>3, <1>6
  <2>2. addChunkOp(p, r, Head(chunks)) /\ updating' = [updating EXCEPT ![3] = Tail(@)]
    BY <1>2, <1>6
  <2>3. UpdateType'
    <3>1. Slots' = Slots
      BY <1>2, SlotsFixed
    <3>2. updating'[1] = p /\ updating'[2] = r /\ updating'[3] \in Seq(Sections)
      BY <1>2, <2>1, <2>2 DEF UpdateType
    <3> QED BY <1>3, <3>1, <3>2 DEF UpdateType
  <2> HIDE DEF p, r, chunks
  <2>4. AccountTypes' /\ MoversKnown' /\ \A t \in Sections : Balanced(t)'
    BY <1>1, <1>2, <1>3, <1>6, <2>1, <2>2, AddBalances
  <2> QED BY <1>5, <2>3, <2>4 DEF AccountsInv
<1>7. CASE ~(chunks # <<>> /\ Head(chunks) \notin added[p])
  <2>1. updating' = <<>> /\ UNCHANGED <<contents, added, removed, movers>>
    BY <1>2, <1>7
  <2>2. Slots' = Slots
    BY <1>2, SlotsFixed
  <2>3. AccountTypes' /\ MoversKnown' /\ UpdateType'
    BY <1>1, <1>2, <2>1, <2>2 DEF AccountTypes, MoversKnown, UpdateType
  <2>4. ASSUME NEW t \in Sections PROVE Balanced(t)'
    BY <1>1, <1>2, <2>1 DEF Balanced
  <2> QED BY <1>5, <2>3, <2>4 DEF AccountsInv
<1> QED BY <1>6, <1>7

LEMMA MergeAccounts == ASSUME AccountsInv, mergeSections PROVE AccountsInv'
<1>1. AccountTypes /\ MoversKnown /\ UpdateType /\ NotMovedYet
  BY DEF AccountsInv
<1>2. /\ phase = "before layout" /\ mergeInputSections /\ phase' \in {"creating", "failed"}
      /\ UNCHANGED <<link, inputs, all, updating, added, removed, movers>>
  BY DEF mergeSections
<1>3. updating = <<>> /\ \A t \in Sections : movers[t] = {}
  BY <1>1, <1>2 DEF NotMovedYet
<1>4. /\ contents' \in [Slots -> Seq(Sections)] /\ merged' \in SUBSET Sections
      /\ \A t \in Sections : Balance(contents', merged', {}, {}, t)
  BY <1>1, <1>2, MergeBalances
<1>5. Slots' = Slots
  BY <1>2, SlotsFixed
<1>6. AccountTypes' /\ MoversKnown' /\ UpdateType'
  BY <1>1, <1>2, <1>3, <1>4, <1>5 DEF AccountTypes, MoversKnown, UpdateType
<1>7. NotMovedYet' /\ EvenWhenDone'
  BY <1>2 DEF NotMovedYet, EvenWhenDone
<1>8. ASSUME NEW t \in Sections PROVE Balanced(t)'
  BY <1>2, <1>3, <1>4 DEF Balanced
<1> QED BY <1>6, <1>7, <1>8 DEF AccountsInv

LEMMA FinishAccounts == ASSUME AccountsInv, createOutputSections PROVE AccountsInv'
<1>1. /\ AccountTypes /\ MoversKnown /\ UpdateType /\ NotMovedYet
      /\ \A t \in Sections : Balanced(t)
  BY DEF AccountsInv
<1>2. /\ phase = "creating" /\ updating = <<>>
      /\ phase' = IF \A p \in Plugins : verifyFragmentMovements(p) THEN "done" ELSE "failed"
      /\ UNCHANGED <<link, inputs, all, contents, updating, added, removed, merged, movers>>
  BY DEF createOutputSections, moving
<1>3. Slots' = Slots
  BY <1>2, SlotsFixed
<1>4. AccountTypes' /\ MoversKnown' /\ UpdateType'
  BY <1>1, <1>2, <1>3 DEF AccountTypes, MoversKnown, UpdateType
<1>5. NotMovedYet'
  BY <1>2 DEF NotMovedYet
<1>6. EvenWhenDone'
  BY <1>2 DEF EvenWhenDone, verifyFragmentMovements
<1>7. ASSUME NEW t \in Sections PROVE Balanced(t)'
  BY <1>1, <1>2 DEF Balanced
<1> QED BY <1>4, <1>5, <1>6, <1>7 DEF AccountsInv

LEMMA AdvanceAccounts == ASSUME AccountsInv, Advances PROVE AccountsInv'
<1>1. inputs \in SUBSET Sections /\ all \in SUBSET Sections
  BY DEF AccountsInv, AccountTypes
<1>2. CASE MatchForLTO
  BY <1>1, <1>2, StillAccounts DEF MatchForLTO
<1>3. CASE createLTOObject
  BY <1>1, <1>3, StillAccounts DEF createLTOObject, Arriving
<1>4. CASE resolve
  BY <1>1, <1>4, StillAccounts DEF resolve, Arriving
<1>5. CASE MatchRules
  BY <1>1, <1>5, StillAccounts DEF MatchRules
<1>6. CASE dataStrippingOpt
  BY <1>1, <1>6, StillAccounts DEF dataStrippingOpt
<1>7. CASE runSectionIteratorPlugin
  BY <1>1, <1>7, StillAccounts DEF runSectionIteratorPlugin
<1>8. CASE scanRelocations
  BY <1>1, <1>8, StillAccounts DEF scanRelocations, Arriving
<1>9. CASE beginMergeSections
  BY <1>1, <1>9, StillAccounts DEF beginMergeSections, initializeMerge
<1>10. CASE runOutputSectionIteratorPlugin
  BY <1>1, <1>10, StillAccounts DEF runOutputSectionIteratorPlugin
<1> QED BY <1>2, <1>3, <1>4, <1>5, <1>6, <1>7, <1>8, <1>9, <1>10, MergeAccounts, FinishAccounts
        DEF Advances

LEMMA NextAccounts == AccountsInv /\ [Next]_vars => AccountsInv'
<1> SUFFICES ASSUME AccountsInv, [Next]_vars PROVE AccountsInv'
  OBVIOUS
<1>1. inputs \in SUBSET Sections /\ all \in SUBSET Sections
  BY DEF AccountsInv, AccountTypes
<1>2. CASE Asks
  BY <1>2, AskAccounts
<1>3. CASE Moves
  <2>1. PICK p \in Plugins, r \in Places(link.script) :
          \/ \E s \in inputs : addChunk(p, r, s) \/ removeChunk(p, r, s)
          \/ \E chunks \in ChunkLists : updateChunks(p, r, chunks)
    BY <1>3 DEF Moves
  <2>2. r \in Slots
    BY PlacesAreSlots
  <2>3. ChunkLists \subseteq Seq(Sections)
    <3>1. \A s \in Sections : <<s>> \in Seq(Sections)
      OBVIOUS
    <3>2. \A s, t \in Sections : <<s, t>> \in Seq(Sections)
      OBVIOUS
    <3>3. <<>> \in Seq(Sections)
      OBVIOUS
    <3>4. ASSUME NEW c \in inputs \X inputs PROVE c \in Seq(Sections)
      <4>1. PICK s \in inputs, t \in inputs : c = <<s, t>>
        OBVIOUS
      <4> QED BY <1>1, <3>2, <4>1
    <3> QED BY <1>1, <3>1, <3>3, <3>4 DEF ChunkLists
  <2> QED BY <1>1, <2>1, <2>2, <2>3, MoveAccounts
<1>4. CASE updateNextChunk
  BY <1>4, UpdateAccounts
<1>5. CASE Advances
  BY <1>5, AdvanceAccounts
<1>6. CASE UNCHANGED vars
  BY <1>1, <1>6, StillAccounts DEF vars
<1> QED BY <1>2, <1>3, <1>4, <1>5, <1>6 DEF Next

\* When the accounts are even, a balanced chunk lies where it must.
LEMMA EvenAccounts == AccountsInv => EachChunkOnce
<1> SUFFICES ASSUME AccountsInv, phase = "done", NEW s \in Sections,
                    \A p, q \in movers[s] : p = q
             PROVE  IF s \in merged
                    THEN \E p \in Slots : \E i \in DOMAIN contents[p] :
                           \A q \in Slots : \A j \in DOMAIN contents[q] :
                             contents[q][j] = s <=> q = p /\ j = i
                    ELSE InNoRule(s)
  BY DEF EachChunkOnce
<1>1. /\ contents \in [Slots -> Seq(Sections)] /\ movers[s] \subseteq Plugins
      /\ \A p \in Plugins : added[p] = {} /\ removed[p] = {}
      /\ Balanced(s)
  BY DEF AccountsInv, AccountTypes, EvenWhenDone
<1>2. Balance(contents, merged, {}, {}, s)
  <2>1. CASE movers[s] = {}
    BY <1>1, <2>1 DEF Balanced
  <2>2. CASE movers[s] # {}
    <3>1. PICK p \in Plugins : p \in movers[s]
      BY <1>1, <2>2
    <3>2. movers[s] = {p}
      BY <3>1
    <3> QED BY <1>1, <3>2 DEF Balanced
  <2> QED BY <2>1, <2>2
<1>3. CASE s \in merged
  <2>1. Once(contents, s)
    BY <1>2, <1>3 DEF Balance
  <2>2. PICK p, i : OnlyAt(contents, s, p, i)
    BY <2>1 DEF Once
  <2>3. p \in Slots /\ i \in DOMAIN contents[p] /\ contents[p][i] = s
    BY <1>1, <2>2 DEF OnlyAt, Lies
  <2>4. \A q \in Slots : \A j \in DOMAIN contents[q] : contents[q][j] = s <=> q = p /\ j = i
    BY <1>1, <2>2, <2>3 DEF OnlyAt, Lies
  <2> QED BY <1>3, <2>3, <2>4
<1>4. CASE s \notin merged
  <2>1. Never(contents, s)
    BY <1>2, <1>4 DEF Balance
  <2>2. \A p \in Slots : s \notin ToSet(contents[p])
    BY <1>1, <2>1 DEF Never, Lies, ToSet
  <2> QED BY <1>4, <2>2 DEF InNoRule
<1> QED BY <1>3, <1>4

\* Theorem: in every link, for every script, every number of sections and plugins
\* and every sequence of calls of addChunk, removeChunk and updateChunks that the
\* checks at the end of CreatingSections let pass, no chunk is lost or duplicated
\* by the plugin that moves it.
THEOREM ChunksOnce == Spec => []EachChunkOnce
<1>1. Init => AccountsInv
  BY InitAccounts
<1>2. AccountsInv /\ [Next]_vars => AccountsInv'
  BY NextAccounts
<1>3. AccountsInv => EachChunkOnce
  BY EvenAccounts
<1> QED BY <1>1, <1>2, <1>3, PTL DEF Spec

------------------------------------------------------------------------------
\* Searches.

\* A set of natural numbers that is not empty has a least element.
LEMMA LeastNatural ==
  ASSUME NEW S, S \subseteq Nat, S # {}
  PROVE  Min(S) \in S /\ \A y \in S : Min(S) <= y
<1> DEFINE Below(n) == 0..n - 1
           T == {Below(n) : n \in S}
<1>1. T \subseteq FiniteSubsetsOf(Nat) /\ T # {}
  <2>1. ASSUME NEW n \in S  PROVE Below(n) \in FiniteSubsetsOf(Nat)
    <3>1. IsFiniteSet(Below(n))
      BY FS_Interval
    <3> QED BY <3>1 DEF FiniteSubsetsOf
  <2> QED BY <2>1
<1>2. PICK X \in T : \A Y \in T : ~(<<Y, X>> \in StrictSubsetOrdering(Nat))
  BY <1>1, FS_StrictSubsetOrderingWellFounded, WFMin, Zenon
<1>3. PICK x \in S : X = Below(x)
  BY <1>2
<1>4. ASSUME NEW y \in S, y < x
      PROVE  FALSE
  <2>1. Below(y) \subseteq Below(x) /\ Below(y) # Below(x)
    <3>1. y \in Below(x) /\ y \notin Below(y)
      BY <1>4
    <3> QED BY <3>1, <1>4
  <2>2. <<Below(y), Below(x)>> \in StrictSubsetOrdering(Nat)
    <3>1. Below(y) \in SUBSET Nat /\ Below(x) \in SUBSET Nat
      BY <1>4
    <3> HIDE DEF Below
    <3>2. ASSUME NEW A \in SUBSET Nat, NEW B \in SUBSET Nat, A \subseteq B, A # B
          PROVE  <<A, B>> \in StrictSubsetOrdering(Nat)
      BY <3>2 DEF StrictSubsetOrdering
    <3> QED BY <2>1, <3>1, <3>2
  <2> QED BY <2>2, <1>2, <1>3
<1>5. ASSUME NEW y \in S  PROVE x <= y
  <2>1. x \in Nat /\ y \in Nat /\ ~(y < x)
    BY <1>4
  <2> QED BY <2>1
<1> HIDE DEF T, Below
<1>6. \E z \in S : \A y \in S : z <= y
  BY <1>5
<1> QED BY <1>6, Zenon DEF Min

LEMMA GreatestUpTo ==
  ASSUME NEW n \in Nat, NEW S, S \subseteq 1..n, S # {}
  PROVE  Max(S) \in S /\ \A y \in S : y <= Max(S)
<1> DEFINE T == {n - x : x \in S}
<1>1. T \subseteq Nat /\ T # {}
  <2>1. \A x \in S : n - x \in Nat
    OBVIOUS
  <2> QED BY <2>1
<1>2. Min(T) \in T /\ \A y \in T : Min(T) <= y
  BY <1>1, LeastNatural
<1>3. PICK x \in S : Min(T) = n - x
  BY <1>2
<1>4. \A y \in S : n - x <= n - y
  BY <1>2, <1>3
<1>5. \A y \in S : x >= y
  BY <1>4
<1>6. \E z \in S : \A y \in S : z >= y
  BY <1>5
<1>7. Max(S) \in S /\ \A y \in S : Max(S) >= y
  BY <1>6, Zenon DEF Max
<1> QED BY <1>7

\* The first output of a name.
LEMMA FoundByName ==
  ASSUME link \in Links, NEW name
  PROVE  LET o == findIter(link.script, name)
         IN /\ o \in {0} \cup DOMAIN link.script
            /\ o # 0 => link.script[o].name = name
<1> DEFINE I == {i \in 1..Len(link.script) : link.script[i].name = name}
<1>1. findIter(link.script, name) = IF I # {} THEN Min(I) ELSE 0
  BY DEF findIter, SelectInSeq
<1>2. I # {} => Min(I) \in I
  <2>1. I \subseteq Nat
    OBVIOUS
  <2> HIDE DEF I
  <2> QED BY <2>1, LeastNatural
<1>3. DOMAIN link.script = 1..Len(link.script)
  BY ScriptTypes
<1> QED BY <1>1, <1>2, <1>3

\* The rule for an override: the first of the output that accepts the section, or
\* the last one.
FirstOf(script, o, s) == SelectInSeq(script[o].rules, LAMBDA r : s \in r.accepts)

LEMMA RuleFound ==
  ASSUME link \in Links, NEW o \in DOMAIN link.script, NEW s
  PROVE  LET rules == link.script[o].rules
             first == FirstOf(link.script, o, s)
             r     == IF first = 0 THEN Len(rules) ELSE first
         IN findOnlyIn(link.script, o, s) = <<o, r>> /\ r \in DOMAIN rules
<1> DEFINE rules == link.script[o].rules
           first == FirstOf(link.script, o, s)
           I == {i \in 1..Len(rules) : s \in rules[i].accepts}
           J == {i \in 1..Len(rules) : rules[i].special}
           last == SelectLastInSeq(rules, LAMBDA r : r.special)
<1>1. first = IF I # {} THEN Min(I) ELSE 0
  BY DEF FirstOf, SelectInSeq
<1>2. I # {} => Min(I) \in I
  <2>1. I \subseteq Nat
    OBVIOUS
  <2> HIDE DEF I
  <2> QED BY <2>1, LeastNatural
<1>3. DOMAIN rules = 1..Len(rules) /\ Len(rules) \in Nat \ {0} /\ rules[Len(rules)].special
  BY ScriptTypes
<1>4. last = IF J # {} THEN Max(J) ELSE 0
  BY DEF SelectLastInSeq
<1>5. findOnlyIn(link.script, o, s) = <<o, IF first # 0 THEN first ELSE last>>
  BY DEF findOnlyIn, FirstOf
<1> HIDE DEF rules, first, last
<1>6. Len(rules) \in J /\ J \subseteq 1..Len(rules)
  BY <1>3
<1>7. Max(J) \in J /\ Len(rules) <= Max(J)
  BY <1>3, <1>6, GreatestUpTo
<1>8. last = Len(rules)
  BY <1>3, <1>4, <1>6, <1>7
<1>9. CASE I = {}
  <2>1. first = 0
    BY <1>1, <1>9
  <2>2. Len(rules) \in DOMAIN rules
    BY <1>3
  <2> QED BY <1>5, <1>8, <2>1, <2>2 DEF rules, first
<1>10. CASE I # {}
  <2>1. first \in I
    BY <1>1, <1>2, <1>10
  <2>2. first \in 1..Len(rules) /\ first # 0
    BY <2>1
  <2> QED BY <1>3, <1>5, <2>2 DEF rules, first
<1> QED BY <1>9, <1>10

\* Rules have their places.
LEMMA InPlaces ==
  ASSUME link \in Links
  PROVE  /\ Places(link.script) \subseteq (Nat \ {0}) \X (Nat \ {0})
         /\ \A o, r : <<o, r>> \in Places(link.script) <=>
                        o \in DOMAIN link.script /\ r \in DOMAIN link.script[o].rules
<1>1. \A o, r : <<o, r>> \in Places(link.script) <=>
                   o \in DOMAIN link.script /\ r \in DOMAIN link.script[o].rules
  BY DEF Places
<1>2. ASSUME NEW p \in Places(link.script)
      PROVE  p \in (Nat \ {0}) \X (Nat \ {0})
  <2>1. PICK o \in DOMAIN link.script : p \in {o} \X DOMAIN link.script[o].rules
    BY DEF Places
  <2>2. PICK r \in DOMAIN link.script[o].rules : p = <<o, r>>
    BY <2>1
  <2>3. o \in Nat \ {0} /\ r \in Nat \ {0}
    BY <2>2, ScriptTypes
  <2> QED BY <2>2, <2>3
<1> QED BY <1>1, <1>2

LEMMA OverridePlaces ==
  ASSUME link \in Links, NEW o \in DOMAIN link.script, NEW s
  PROVE  /\ findOnlyIn(link.script, o, s) \in Places(link.script)
         /\ findOnlyIn(link.script, o, s)[1] = o
<1> DEFINE first == FirstOf(link.script, o, s)
           r == IF first = 0 THEN Len(link.script[o].rules) ELSE first
<1>1. findOnlyIn(link.script, o, s) = <<o, r>> /\ r \in DOMAIN link.script[o].rules
  BY RuleFound
<1> HIDE DEF r
<1> QED BY <1>1, InPlaces

LEMMA FallbackPlace ==
  ASSUME link \in Links
  PROVE  FallbackBSS \in Slots /\ FallbackBSS # Unplaced /\ FallbackBSS[1] \in Nat \ {0}
<1> DEFINE bss == findIter(link.script, Bss)
<1>1. bss \in {0} \cup DOMAIN link.script
  BY FoundByName
<1> HIDE DEF bss
<1>2. CASE bss = 0
  <2>1. FallbackBSS = Orphanage(Bss)
    BY <1>2 DEF FallbackBSS, bss
  <2>2. FallbackBSS \in Slots
    BY <2>1 DEF Slots
  <2>3. Len(link.script) \in Nat
    BY ScriptTypes
  <2> QED BY <2>1, <2>2, <2>3, BssAssumption DEF Orphanage, Unplaced
<1>3. CASE bss \in DOMAIN link.script
  <2>1. bss \in Nat \ {0}
    BY <1>3, ScriptTypes
  <2>2. FallbackBSS = <<bss, Len(link.script[bss].rules)>>
    BY <2>1 DEF FallbackBSS, bss
  <2>3. Len(link.script[bss].rules) \in DOMAIN link.script[bss].rules
    BY <1>3, ScriptTypes
  <2>4. FallbackBSS \in Places(link.script)
    BY <1>3, <2>2, <2>3, InPlaces
  <2> QED BY <2>1, <2>2, <2>4, PlacesAreSlots DEF Unplaced
<1> QED BY <1>1, <1>2, <1>3

------------------------------------------------------------------------------
\* Matching.

IsPlace(p) == p \in (Nat \ {0}) \X (Nat \ {0})

LEMMA PrecedesOrders ==
  ASSUME NEW p, NEW q, NEW r, IsPlace(p), IsPlace(q), IsPlace(r)
  PROVE  /\ ~Precedes(p, p)
         /\ Precedes(p, q) /\ Precedes(q, r) => Precedes(p, r)
         /\ p = q \/ Precedes(p, q) \/ Precedes(q, p)
<1>1. /\ p[1] \in Nat /\ p[2] \in Nat /\ q[1] \in Nat /\ q[2] \in Nat
      /\ r[1] \in Nat /\ r[2] \in Nat
  BY DEF IsPlace
<1>2. p[1] = q[1] /\ p[2] = q[2] => p = q
  BY DEF IsPlace
<1>3. ~Precedes(p, p)
  BY <1>1 DEF Precedes
<1>4. Precedes(p, q) /\ Precedes(q, r) => Precedes(p, r)
  BY <1>1 DEF Precedes
<1>5. p = q \/ Precedes(p, q) \/ Precedes(q, p)
  BY <1>1, <1>2 DEF Precedes
<1> QED BY <1>3, <1>4, <1>5

\* The rules of a script have an order, from first to last.
LEMMA ScriptOrdered ==
  ASSUME link \in Links
  PROVE  LET P == Places(link.script)
             n == Cardinality(P)
             order == InScriptOrder(link.script)
         IN /\ n \in Nat /\ order \in [1..n -> P]
            /\ \A p \in P : \E k \in 1..n : order[k] = p
            /\ \A j, k \in 1..n : j < k => Precedes(order[j], order[k])
<1> DEFINE script == link.script
           P == Places(script)
           R == {p \in P \X P : Precedes(p[1], p[2])}
           f == [o \in DOMAIN script |-> {o} \X DOMAIN script[o].rules]
           T == {f[o] : o \in DOMAIN script}
<1>1. IsFiniteSet(DOMAIN script)
  <2>1. DOMAIN script = 1..Len(script) /\ Len(script) \in Nat
    BY ScriptTypes
  <2> QED BY <2>1, FS_Interval
<1>2. IsFiniteSet(T)
  <2>1. f \in Surjection(DOMAIN script, T)
    BY DEF Surjection
  <2> QED BY <1>1, <2>1, FS_Surjection
<1>3. ASSUME NEW X \in T PROVE IsFiniteSet(X)
  <2>1. PICK o \in DOMAIN script : X = {o} \X DOMAIN script[o].rules
    BY <1>3
  <2>2. DOMAIN script[o].rules = 1..Len(script[o].rules) /\ Len(script[o].rules) \in Nat
    BY ScriptTypes
  <2>3. IsFiniteSet(DOMAIN script[o].rules) /\ IsFiniteSet({o})
    <3>1. \A n \in Nat : IsFiniteSet(1..n)
      BY FS_Interval
    <3>2. IsFiniteSet({o})
      BY FS_Singleton
    <3> QED BY <2>2, <3>1, <3>2
  <2> QED BY <2>1, <2>3, FS_Product
<1>4. IsFiniteSet(P)
  <2>1. P = UNION T
    BY DEF Places
  <2> HIDE DEF T
  <2> QED BY <1>2, <1>3, <2>1, FS_UNION
<1>5. \A p, q : p \in P /\ q \in P => (<<p, q>> \in R <=> Precedes(p, q))
  OBVIOUS
<1>6. \A p \in P : IsPlace(p)
  BY InPlaces DEF IsPlace
<1>7. R \subseteq P \X P
  OBVIOUS
<1> HIDE DEF P, R
<1>8. StrictOrder(P, R)
  <2>1. \A x \in P : <<x, x>> \notin R
    BY <1>5, <1>6, PrecedesOrders
  <2>2. \A x, y, z \in P : <<x, y>> \in R /\ <<y, z>> \in R => <<x, z>> \in R
    BY <1>5, <1>6, PrecedesOrders
  <2>3. \A x, y \in P : x = y \/ <<x, y>> \in R \/ <<y, x>> \in R
    BY <1>5, <1>6, PrecedesOrders
  <2> QED BY <2>1, <2>2, <2>3 DEF StrictOrder
<1>9. InScriptOrder(link.script) = Ranked(P, R)
  BY DEF InScriptOrder, P, R
<1>10. /\ Cardinality(P) \in Nat
       /\ Ranked(P, R) \in [1..Cardinality(P) -> P]
       /\ \A x \in P : \E k \in 1..Cardinality(P) : Ranked(P, R)[k] = x
       /\ \A j, k \in 1..Cardinality(P) : j < k => <<Ranked(P, R)[j], Ranked(P, R)[k]>> \in R
  BY <1>4, <1>8, RankedOnce
<1>11. \A j, k \in 1..Cardinality(P) : j < k => Precedes(Ranked(P, R)[j], Ranked(P, R)[k])
  BY <1>5, <1>7, <1>10
<1> QED BY <1>9, <1>10, <1>11 DEF P

\* The first of some places.
Foremost(S) == CHOOSE p \in S : \A q \in S \ {p} : Precedes(p, q)
Hindmost(S) == CHOOSE p \in S : \A q \in S \ {p} : Precedes(q, p)

LEMMA ForemostIs ==
  ASSUME NEW S, \A q \in S : IsPlace(q), NEW p \in S, \A q \in S \ {p} : Precedes(p, q)
  PROVE  Foremost(S) = p
<1>1. Foremost(S) \in S /\ \A q \in S \ {Foremost(S)} : Precedes(Foremost(S), q)
  <2>1. \E r \in S : \A q \in S \ {r} : Precedes(r, q)
    OBVIOUS
  <2> QED BY <2>1, Zenon DEF Foremost
<1> QED BY <1>1, PrecedesOrders

LEMMA HindmostIs ==
  ASSUME NEW S, \A q \in S : IsPlace(q), NEW p \in S, \A q \in S \ {p} : Precedes(q, p)
  PROVE  Hindmost(S) = p
<1>1. Hindmost(S) \in S /\ \A q \in S \ {Hindmost(S)} : Precedes(q, Hindmost(S))
  <2>1. \E r \in S : \A q \in S \ {r} : Precedes(q, r)
    OBVIOUS
  <2> QED BY <2>1, Zenon DEF Hindmost
<1> QED BY <1>1, PrecedesOrders

LEMMA ForemostExists ==
  ASSUME link \in Links, NEW S, S \subseteq Places(link.script), S # {}
  PROVE  Foremost(S) \in S /\ \A q \in S \ {Foremost(S)} : Precedes(Foremost(S), q)
<1> DEFINE n == Cardinality(Places(link.script))
           order == InScriptOrder(link.script)
           I == {k \in 1..n : order[k] \in S}
<1>1. /\ n \in Nat
      /\ \A p \in S : \E k \in 1..n : order[k] = p
      /\ \A j, k \in 1..n : j < k => Precedes(order[j], order[k])
  BY ScriptOrdered
<1> HIDE DEF n, order
<1>2. I \subseteq Nat /\ I # {}
  BY <1>1
<1>3. Min(I) \in I /\ \A k \in I : Min(I) <= k
  BY <1>2, LeastNatural
<1> DEFINE p == order[Min(I)]
<1>4. p \in S
  BY <1>3
<1>5. ASSUME NEW q \in S \ {p} PROVE Precedes(p, q)
  <2>1. PICK k \in 1..n : order[k] = q
    BY <1>1, <1>5
  <2>2. k \in I /\ k # Min(I) /\ Min(I) \in 1..n
    BY <1>3, <1>5, <2>1
  <2>3. Min(I) < k
    BY <1>1, <1>3, <2>2
  <2> QED BY <1>1, <2>1, <2>2, <2>3
<1>6. \E r \in S : \A q \in S \ {r} : Precedes(r, q)
  BY <1>4, <1>5
<1> QED BY <1>6, Zenon DEF Foremost

\* What the search has found among some of the rules that accept the section.
PlainOf(C) == {p \in C : ~RuleAt(link.script, p).special}

FoundAmong(C) ==
  IF C = {} THEN NoMatch
  ELSE [place |-> IF PlainOf(C) # {} THEN Foremost(PlainOf(C)) ELSE Hindmost(C),
        retry |-> PlainOf(C) = {},
        discarded |-> \E p \in C :
          Discards(p[1]) /\ \A q \in C : RuleAt(link.script, q).special \/ ~Precedes(q, p)]

LEMMA RuleFlags ==
  ASSUME link \in Links, NEW p \in Places(link.script)
  PROVE  /\ IsPlace(p) /\ p # Unplaced
         /\ RuleAt(link.script, p).special \in BOOLEAN
         /\ Discards(p[1]) = link.script[p[1]].discard
         /\ Discards(p[1]) \in BOOLEAN
<1>1. IsPlace(p) /\ p # Unplaced
  BY InPlaces DEF IsPlace, Unplaced
<1>2. p[1] \in DOMAIN link.script /\ p[2] \in DOMAIN link.script[p[1]].rules
  BY DEF Places
<1>3. /\ link.script[p[1]].rules[p[2]].special \in BOOLEAN
      /\ link.script[p[1]].discard \in BOOLEAN
  BY <1>2, ScriptTypes
<1> QED BY <1>1, <1>2, <1>3 DEF RuleAt, Discards

\* One more rule is tried, behind all others.
LEMMA OneMoreRule ==
  ASSUME link \in Links, NEW s, NEW C, C \subseteq Accepting(s),
         NEW x \in Places(link.script), \A p \in C : Precedes(p, x)
  PROVE  TryRule(link.script, s, s \in link.writable, FoundAmong(C), x) =
           FoundAmong(IF x \in Accepting(s) THEN C \cup {x} ELSE C)
<1> DEFINE m == FoundAmong(C)
           D == C \cup {x}
           found == TryRule(link.script, s, s \in link.writable, m, x)
<1>1. C \subseteq Places(link.script)
  BY DEF Accepting
<1>2. \A p \in D : /\ IsPlace(p) /\ p # Unplaced
                   /\ RuleAt(link.script, p).special \in BOOLEAN
                   /\ Discards(p[1]) = link.script[p[1]].discard
                   /\ Discards(p[1]) \in BOOLEAN
  BY <1>1, RuleFlags
<1>3. matched(link.script, x, s, s \in link.writable) <=> x \in Accepting(s)
  BY DEF Accepting
<1>4. CASE x \notin Accepting(s)
  BY <1>3, <1>4 DEF TryRule
<1>5. CASE x \in Accepting(s) /\ PlainOf(C) # {}
  <2>1. C # {} /\ m = [place |-> Foremost(PlainOf(C)), retry |-> FALSE, discarded |-> m.discarded]
    BY <1>5 DEF FoundAmong, PlainOf
  <2>2. Foremost(PlainOf(C)) \in PlainOf(C)
        /\ \A q \in PlainOf(C) \ {Foremost(PlainOf(C))} : Precedes(Foremost(PlainOf(C)), q)
    BY <1>1, <1>5, ForemostExists DEF PlainOf
  <2> DEFINE p == Foremost(PlainOf(C))
  <2>3. p \in C /\ p # Unplaced
    BY <1>2, <2>2 DEF PlainOf
  <2>4. found = m
    BY <2>1, <2>3 DEF TryRule
  <2>5. PlainOf(D) \subseteq PlainOf(C) \cup {x} /\ PlainOf(C) \subseteq PlainOf(D)
    BY DEF PlainOf
  <2>6. p \in PlainOf(D) /\ \A q \in PlainOf(D) \ {p} : Precedes(p, q)
    BY <2>2, <2>3, <2>5
  <2>7. Foremost(PlainOf(D)) = p
    <3>1. \A q \in PlainOf(D) : IsPlace(q)
      BY <1>2 DEF PlainOf
    <3> HIDE DEF p
    <3> QED BY <2>6, <3>1, ForemostIs
  <2>8. D # {} /\ PlainOf(D) # {}
    BY <1>5, <2>5
  <2>9. m.discarded = \E r \in C :
           Discards(r[1]) /\ \A q \in C : RuleAt(link.script, q).special \/ ~Precedes(q, r)
    BY <2>1 DEF FoundAmong
  <2>10. (\E r \in C : Discards(r[1])
                      /\ \A q \in C : RuleAt(link.script, q).special \/ ~Precedes(q, r))
       = (\E r \in D : Discards(r[1])
                      /\ \A q \in D : RuleAt(link.script, q).special \/ ~Precedes(q, r))
    <3>1. \A r \in C : ~Precedes(x, r)
      BY <1>2, PrecedesOrders
    <3>2. PICK q \in C : ~RuleAt(link.script, q).special
      BY <1>5 DEF PlainOf
    <3>3. Precedes(q, x)
      BY <3>2
    <3> QED BY <3>1, <3>2, <3>3
  <2>11. FoundAmong(D) = [place |-> p, retry |-> FALSE, discarded |-> m.discarded]
    <3>1. FoundAmong(D) = [place |-> Foremost(PlainOf(D)), retry |-> FALSE,
             discarded |-> \E r \in D : Discards(r[1])
                      /\ \A q \in D : RuleAt(link.script, q).special \/ ~Precedes(q, r)]
      BY <2>8 DEF FoundAmong
    <3> QED BY <2>7, <2>9, <2>10, <3>1
  <2> QED BY <1>5, <2>1, <2>4, <2>11
<1>6. CASE x \in Accepting(s) /\ PlainOf(C) = {}
  <2>1. m.place = Unplaced \/ m.retry
    BY <1>6 DEF FoundAmong, NoMatch
  <2>2. found = [place |-> x, retry |-> RuleAt(link.script, x).special,
                 discarded |-> m.discarded \/ link.script[x[1]].discard]
    BY <1>3, <1>6, <2>1 DEF TryRule
  <2>3. PlainOf(D) = IF RuleAt(link.script, x).special THEN {} ELSE {x}
    BY <1>6 DEF PlainOf
  <2>4. Hindmost(D) = x
    <3>1. x \in D /\ \A q \in D \ {x} : Precedes(q, x)
      OBVIOUS
    <3> QED BY <1>2, <3>1, HindmostIs
  <2>5. Foremost({x}) = x
    BY <1>2, ForemostIs
  <2>6. \A q \in C : RuleAt(link.script, q).special
    BY <1>6 DEF PlainOf
  <2>7. m.discarded = \E r \in C : Discards(r[1])
    BY <2>6 DEF FoundAmong, NoMatch
  <2>8. (\E r \in D : Discards(r[1])
                      /\ \A q \in D : RuleAt(link.script, q).special \/ ~Precedes(q, r))
        = (m.discarded \/ link.script[x[1]].discard)
    <3>1. \A r \in D : ~Precedes(x, r)
      BY <1>2, PrecedesOrders
    <3> DEFINE disc == link.script[x[1]].discard
    <3>2. (\E r \in D : Discards(r[1])
                      /\ \A q \in D : RuleAt(link.script, q).special \/ ~Precedes(q, r))
          <=> \E r \in D : Discards(r[1])
      BY <2>6, <3>1
    <3>3. (\E r \in D : Discards(r[1])) <=> (\E r \in C : Discards(r[1])) \/ disc
      BY <1>2
    <3>4. m.discarded <=> \E r \in C : Discards(r[1])
      BY <2>7
    <3>5. (\E r \in D : Discards(r[1])
                      /\ \A q \in D : RuleAt(link.script, q).special \/ ~Precedes(q, r))
          <=> (m.discarded \/ disc)
      BY <3>2, <3>3, <3>4
    <3> QED BY <3>5
  <2>9. FoundAmong(D) =
          [place |-> IF PlainOf(D) # {} THEN Foremost(PlainOf(D)) ELSE Hindmost(D),
           retry |-> PlainOf(D) = {},
           discarded |-> \E r \in D : Discards(r[1])
                      /\ \A q \in D : RuleAt(link.script, q).special \/ ~Precedes(q, r)]
    BY DEF FoundAmong
  <2>10. FoundAmong(D) = found
    <3>1. CASE RuleAt(link.script, x).special
      BY <2>2, <2>3, <2>4, <2>8, <2>9, <3>1
    <3>2. CASE ~RuleAt(link.script, x).special
      <4>1. RuleAt(link.script, x).special = FALSE
        BY <1>2, <3>2
      <4> QED BY <2>2, <2>3, <2>5, <2>8, <2>9, <4>1
    <3> QED BY <3>1, <3>2
  <2> QED BY <1>6, <2>10
<1> QED BY <1>4, <1>5, <1>6

\* Two functions of the first k places are equal when they go on alike.
LEMMA AlikeUpTo ==
  ASSUME NEW n \in Nat, NEW f, NEW g, f[1..0] = g[1..0],
         \A k \in 1..n : f[1..k - 1] = g[1..k - 1] => f[1..k] = g[1..k]
  PROVE  f[1..n] = g[1..n]
<1> DEFINE S == {k \in 0..n : f[1..k] # g[1..k]}
<1>1. ASSUME S # {} PROVE FALSE
  <2>1. Min(S) \in S /\ \A k \in S : Min(S) <= k
    <3>1. S \subseteq Nat
      OBVIOUS
    <3> HIDE DEF S
    <3> QED BY <1>1, <3>1, LeastNatural
  <2> DEFINE k == Min(S)
  <2>2. k \in 0..n /\ f[1..k] # g[1..k]
    BY <2>1
  <2>3. \A j \in 0..n : j < k => f[1..j] = g[1..j]
    BY <2>1
  <2> HIDE DEF k
  <2>4. k # 0
    BY <2>2
  <2>5. k \in 1..n /\ k - 1 \in 0..n /\ k - 1 < k
    BY <2>2, <2>4
  <2> QED BY <2>2, <2>3, <2>5
<1> QED BY <1>1

LEMMA FirstPlaces ==
  ASSUME NEW n \in Nat, NEW k \in 1..n
  PROVE  /\ 1..k \in SUBSET (1..n) /\ 1..k # {} /\ Max(1..k) = k
         /\ (1..k) \ {Max(1..k)} = 1..k - 1
<1>1. k \in Nat /\ k \in 1..k
  OBVIOUS
<1>2. 1..k # {}
  BY <1>1
<1>3. Max(1..k) \in 1..k /\ k <= Max(1..k)
  BY <1>1, <1>2, GreatestUpTo
<1>4. Max(1..k) = k
  BY <1>3
<1>5. 1..k \in SUBSET (1..n) /\ (1..k) \ {k} = 1..k - 1
  OBVIOUS
<1> QED BY <1>2, <1>4, <1>5

\* The rules that accept the section among those at some places of the order.
AcceptingAt(s, I) == {p \in Accepting(s) : \E i \in I : p = InScriptOrder(link.script)[i]}

LEMMA AcceptingSteps ==
  ASSUME link \in Links, NEW s
  PROVE  LET n == Cardinality(Places(link.script))
             order == InScriptOrder(link.script)
         IN /\ n \in Nat /\ DOMAIN order = 1..n
            /\ \A I \in SUBSET (1..n) : I # {} =>
                 FoundAmong(AcceptingAt(s, I)) =
                   TryRule(link.script, s, s \in link.writable,
                           FoundAmong(AcceptingAt(s, I \ {Max(I)})), order[Max(I)])
            /\ FoundAmong(AcceptingAt(s, {})) = NoMatch
            /\ AcceptingAt(s, 1..n) = Accepting(s)
<1> DEFINE n == Cardinality(Places(link.script))
           order == InScriptOrder(link.script)
<1>1. /\ n \in Nat /\ order \in [1..n -> Places(link.script)]
      /\ \A p \in Places(link.script) : \E k \in 1..n : order[k] = p
      /\ \A j, k \in 1..n : j < k => Precedes(order[j], order[k])
  BY ScriptOrdered
<1> HIDE DEF n, order
<1>2. ASSUME NEW I \in SUBSET (1..n), I # {}
      PROVE  FoundAmong(AcceptingAt(s, I)) =
               TryRule(link.script, s, s \in link.writable,
                       FoundAmong(AcceptingAt(s, I \ {Max(I)})), order[Max(I)])
  <2> DEFINE k == Max(I)
             C == AcceptingAt(s, I \ {k})
             x == order[k]
  <2>1. k \in I /\ \A i \in I : i <= k
    BY <1>1, <1>2, GreatestUpTo
  <2> HIDE DEF k
  <2>2. C \subseteq Accepting(s) /\ x \in Places(link.script)
    BY <1>1, <2>1 DEF AcceptingAt
  <2>3. ASSUME NEW p \in C PROVE Precedes(p, x)
    <3>1. PICK i \in I \ {k} : p = order[i]
      BY DEF AcceptingAt, order
    <3>2. i \in 1..n /\ k \in 1..n /\ i < k
      BY <1>1, <2>1, <3>1
    <3> QED BY <1>1, <3>1, <3>2
  <2>4. AcceptingAt(s, I) = IF x \in Accepting(s) THEN C \cup {x} ELSE C
    BY <2>1 DEF AcceptingAt, order
  <2> HIDE DEF C, x
  <2>5. TryRule(link.script, s, s \in link.writable, FoundAmong(C), x) =
          FoundAmong(IF x \in Accepting(s) THEN C \cup {x} ELSE C)
    BY <2>2, <2>3, OneMoreRule
  <2> QED BY <2>4, <2>5 DEF C, x, k
<1>3. FoundAmong(AcceptingAt(s, {})) = NoMatch
  <2>1. AcceptingAt(s, {}) = {}
    BY DEF AcceptingAt
  <2> QED BY <2>1 DEF FoundAmong
<1>4. AcceptingAt(s, 1..n) = Accepting(s)
  BY <1>1 DEF AcceptingAt, Accepting, order
<1>5. DOMAIN order = 1..n
  BY <1>1
<1> QED BY <1>1, <1>2, <1>3, <1>4, <1>5 DEF n, order

\* The search over all rules of the script, section by section ...
LEMMA SearchFinds ==
  ASSUME link \in Links, NEW s
  PROVE  FoldLeft(LAMBDA m, p : TryRule(link.script, s, s \in link.writable, m, p),
                  NoMatch, InScriptOrder(link.script))
           = FoundAmong(Accepting(s))
<1> DEFINE n == Cardinality(Places(link.script))
           order == InScriptOrder(link.script)
           Try(m, p) == TryRule(link.script, s, s \in link.writable, m, p)
           g == [I \in SUBSET (1..n) |-> FoundAmong(AcceptingAt(s, I))]
           Folds(f) == f = [I \in SUBSET (DOMAIN order) |->
                              IF I = {} THEN NoMatch
                              ELSE Try(f[I \ {Max(I)}], order[Max(I)])]
           fold == CHOOSE f : Folds(f)
<1>1. /\ n \in Nat /\ DOMAIN order = 1..n
      /\ \A I \in SUBSET (1..n) : I # {} =>
           FoundAmong(AcceptingAt(s, I)) =
             Try(FoundAmong(AcceptingAt(s, I \ {Max(I)})), order[Max(I)])
      /\ FoundAmong(AcceptingAt(s, {})) = NoMatch
      /\ AcceptingAt(s, 1..n) = Accepting(s)
  BY AcceptingSteps
<1>2. FoldLeft(LAMBDA m, p : TryRule(link.script, s, s \in link.writable, m, p),
                  NoMatch, order) = fold[DOMAIN order]
  BY DEF FoldLeft, MapThenFoldSet
<1> HIDE DEF Try, n, order
<1>3. Folds(g)
  <2>1. \A I \in SUBSET (1..n) : I \ {Max(I)} \in SUBSET (1..n)
    OBVIOUS
  <2> QED BY <1>1, <2>1
<1>4. Folds(fold)
  BY <1>3
<1> HIDE DEF fold
<1>5. \A k \in 1..n : fold[1..k - 1] = g[1..k - 1] => fold[1..k] = g[1..k]
  <2> SUFFICES ASSUME NEW k \in 1..n, fold[1..k - 1] = g[1..k - 1] PROVE fold[1..k] = g[1..k]
    OBVIOUS
  <2>1. 1..k \in SUBSET (1..n) /\ 1..k # {} /\ (1..k) \ {Max(1..k)} = 1..k - 1 /\ Max(1..k) = k
    BY <1>1, FirstPlaces
  <2>3. fold[1..k] = Try(fold[1..k - 1], order[k]) /\ g[1..k] = Try(g[1..k - 1], order[k])
    BY <1>1, <1>3, <1>4, <2>1
  <2> QED BY <2>3
<1>6. fold[1..0] = g[1..0]
  <2>1. 1..0 = {}
    OBVIOUS
  <2> QED BY <1>1, <1>4, <2>1
<1> HIDE DEF g
<1>7. fold[1..n] = g[1..n]
  BY <1>1, <1>5, <1>6, AlikeUpTo
<1>8. g[1..n] = FoundAmong(Accepting(s))
  BY <1>1 DEF g
<1> QED BY <1>1, <1>2, <1>7, <1>8 DEF order

\* ... and rule by rule, for all sections.
LEMMA SearchesFind ==
  ASSUME link \in Links, NEW sects
  PROVE  FoldLeft(LAMBDA ms, p : [s \in sects |->
                                   TryRule(link.script, s, s \in link.writable, ms[s], p)],
                  [s \in sects |-> NoMatch], InScriptOrder(link.script))
           = [s \in sects |-> FoundAmong(Accepting(s))]
<1> DEFINE n == Cardinality(Places(link.script))
           order == InScriptOrder(link.script)
           Try(s, m, p) == TryRule(link.script, s, s \in link.writable, m, p)
           At(s, I) == FoundAmong(AcceptingAt(s, I))
           g == [I \in SUBSET (1..n) |-> [s \in sects |-> At(s, I)]]
           Folds(f) == f = [I \in SUBSET (DOMAIN order) |->
                              IF I = {} THEN [s \in sects |-> NoMatch]
                              ELSE [s \in sects |-> Try(s, f[I \ {Max(I)}][s], order[Max(I)])]]
           fold == CHOOSE f : Folds(f)
<1>1. /\ n \in Nat /\ DOMAIN order = 1..n
      /\ \A s \in sects : \A I \in SUBSET (1..n) : I # {} =>
           At(s, I) = Try(s, At(s, I \ {Max(I)}), order[Max(I)])
      /\ \A s \in sects : At(s, {}) = NoMatch
      /\ \A s \in sects : AcceptingAt(s, 1..n) = Accepting(s)
  BY ScriptOrdered, AcceptingSteps
<1>2. FoldLeft(LAMBDA ms, p : [s \in sects |->
                                 TryRule(link.script, s, s \in link.writable, ms[s], p)],
               [s \in sects |-> NoMatch], order) = fold[DOMAIN order]
  BY DEF FoldLeft, MapThenFoldSet
<1>3. [s \in sects |-> At(s, 1..n)] = [s \in sects |-> FoundAmong(Accepting(s))]
  BY <1>1
<1> HIDE DEF Try, At, n, order
<1>4. Folds(g)
  <2>1. \A I \in SUBSET (1..n) : I \ {Max(I)} \in SUBSET (1..n)
    OBVIOUS
  <2>2. \A I \in SUBSET (1..n) : I # {} => \A s \in sects :
          At(s, I) = Try(s, g[I \ {Max(I)}][s], order[Max(I)])
    BY <1>1, <2>1
  <2>3. ASSUME NEW I \in SUBSET (1..n)
        PROVE  g[I] = IF I = {} THEN [s \in sects |-> NoMatch]
                      ELSE [s \in sects |-> Try(s, g[I \ {Max(I)}][s], order[Max(I)])]
    <3>1. g[I] = [s \in sects |-> At(s, I)]
      OBVIOUS
    <3> HIDE DEF g
    <3> QED BY <1>1, <2>2, <3>1
  <2>4. g = [I \in SUBSET (1..n) |-> g[I]]
    OBVIOUS
  <2> HIDE DEF g
  <2> QED BY <1>1, <2>3, <2>4
<1>5. Folds(fold)
  BY <1>4
<1> HIDE DEF fold
<1>6. \A k \in 1..n : fold[1..k - 1] = g[1..k - 1] => fold[1..k] = g[1..k]
  <2> SUFFICES ASSUME NEW k \in 1..n, fold[1..k - 1] = g[1..k - 1] PROVE fold[1..k] = g[1..k]
    OBVIOUS
  <2>1. 1..k \in SUBSET (1..n) /\ 1..k # {} /\ (1..k) \ {Max(1..k)} = 1..k - 1 /\ Max(1..k) = k
    BY <1>1, FirstPlaces
  <2> HIDE DEF g
  <2>2. /\ fold[1..k] = [s \in sects |-> Try(s, fold[1..k - 1][s], order[k])]
        /\ g[1..k] = [s \in sects |-> Try(s, g[1..k - 1][s], order[k])]
    <3>1. ASSUME NEW f, Folds(f), NEW I \in SUBSET (1..n), I # {}
          PROVE  f[I] = [s \in sects |-> Try(s, f[I \ {Max(I)}][s], order[Max(I)])]
      <4>1. f[I] = [J \in SUBSET (DOMAIN order) |->
                      IF J = {} THEN [s \in sects |-> NoMatch]
                      ELSE [s \in sects |-> Try(s, f[J \ {Max(J)}][s], order[Max(J)])]][I]
        BY <3>1
      <4>2. I \in SUBSET (DOMAIN order)
        BY <1>1
      <4> QED BY <3>1, <4>1, <4>2
    <3> DEFINE I == 1..k
    <3>2. I \in SUBSET (1..n) /\ I # {} /\ I \ {Max(I)} = 1..k - 1 /\ Max(I) = k
      BY <2>1
    <3> HIDE DEF I, Folds
    <3>3. /\ fold[I] = [s \in sects |-> Try(s, fold[I \ {Max(I)}][s], order[Max(I)])]
          /\ g[I] = [s \in sects |-> Try(s, g[I \ {Max(I)}][s], order[Max(I)])]
      BY <1>4, <1>5, <3>1, <3>2
    <3> QED BY <3>2, <3>3 DEF I
  <2> QED BY <2>2
<1>7. fold[1..0] = g[1..0]
  <2>1. 1..0 = {} /\ {} \in SUBSET (1..n)
    OBVIOUS
  <2> HIDE DEF g
  <2>2. fold[{}] = [s \in sects |-> NoMatch] /\ g[{}] = [s \in sects |-> NoMatch]
    BY <1>1, <1>4, <1>5
  <2> QED BY <2>1, <2>2
<1>8. g[1..n] = [s \in sects |-> At(s, 1..n)]
  OBVIOUS
<1> HIDE DEF g
<1>9. fold[1..n] = g[1..n]
  BY <1>1, <1>6, <1>7, AlikeUpTo
<1> QED BY <1>1, <1>2, <1>3, <1>8, <1>9 DEF order

\* What the script decides about a section.
MatchOf(s) == IF Accepting(s) = {} THEN Unplaced ELSE Closest(s)

LEMMA ClosestAccepts ==
  ASSUME link \in Links, NEW s, Accepting(s) # {} PROVE Closest(s) \in Accepting(s)
<1> DEFINE A == Accepting(s)
<1>1. A \subseteq Places(link.script)
  BY DEF Accepting
<1>2. CASE PlainOf(A) # {}
  <2>1. PlainOf(A) \subseteq A
    BY DEF PlainOf
  <2>2. Closest(s) = Foremost(PlainOf(A))
    BY <1>2 DEF Closest, Foremost, PlainOf
  <2> QED BY <1>1, <1>2, <2>1, <2>2, ForemostExists
<1>3. CASE PlainOf(A) = {}
  <2> DEFINE n == Cardinality(Places(link.script))
             order == InScriptOrder(link.script)
             I == {k \in 1..n : order[k] \in A}
  <2>1. /\ n \in Nat
        /\ \A p \in A : \E k \in 1..n : order[k] = p
        /\ \A j, k \in 1..n : j < k => Precedes(order[j], order[k])
    BY <1>1, ScriptOrdered
  <2> HIDE DEF n, order, A
  <2>2. I \subseteq 1..n /\ I # {}
    BY <2>1 DEF A
  <2> DEFINE k == Max(I)
  <2>3. k \in I /\ \A i \in I : i <= k
    BY <2>1, <2>2, GreatestUpTo
  <2> HIDE DEF k
  <2>4. order[k] \in A /\ \A q \in A \ {order[k]} : Precedes(q, order[k])
    <3> SUFFICES ASSUME NEW q \in A \ {order[k]} PROVE Precedes(q, order[k])
      BY <2>3
    <3>1. PICK i \in 1..n : order[i] = q
      BY <2>1
    <3>2. i \in I /\ i # k /\ k \in 1..n
      BY <2>3, <3>1
    <3>3. i < k
      BY <2>1, <2>3, <3>2
    <3> QED BY <2>1, <3>1, <3>2, <3>3
  <2>5. \A q \in A : IsPlace(q)
    BY <1>1, RuleFlags
  <2>6. Hindmost(A) = order[k]
    BY <2>4, <2>5, HindmostIs
  <2>7. Closest(s) = Hindmost(A)
    BY <1>3 DEF Closest, Hindmost, PlainOf, A
  <2> QED BY <2>4, <2>6, <2>7 DEF A
<1> QED BY <1>2, <1>3

\* Both matchers find what the script says.
LEMMA MatchersAgree ==
  ASSUME link \in Links, NEW sects,
         NEW found, found \in {assignInputFromOutput(link.script, sects, link.writable),
                               assignInputFromOutputLegacy(link.script, sects, link.writable)}
  PROVE  \A s \in sects : /\ found[s].place = MatchOf(s)
                          /\ found[s].discarded <=> DiscardedOnTheWay(s)
<1>1. found = [s \in sects |-> FoundAmong(Accepting(s))]
  <2>1. assignInputFromOutput(link.script, sects, link.writable)
          = [s \in sects |-> FoundAmong(Accepting(s))]
    BY SearchFinds DEF assignInputFromOutput
  <2>2. assignInputFromOutputLegacy(link.script, sects, link.writable)
          = [s \in sects |-> FoundAmong(Accepting(s))]
    BY SearchesFind DEF assignInputFromOutputLegacy
  <2> QED BY <2>1, <2>2
<1>2. ASSUME NEW s \in sects
      PROVE  /\ FoundAmong(Accepting(s)).place = MatchOf(s)
             /\ FoundAmong(Accepting(s)).discarded <=> DiscardedOnTheWay(s)
  <2>1. CASE Accepting(s) = {}
    BY <2>1 DEF FoundAmong, NoMatch, MatchOf, DiscardedOnTheWay
  <2>2. CASE Accepting(s) # {}
    <3>1. MatchOf(s) = Closest(s)
      BY <2>2 DEF MatchOf
    <3>2. Closest(s) = IF PlainOf(Accepting(s)) # {} THEN Foremost(PlainOf(Accepting(s)))
                       ELSE Hindmost(Accepting(s))
      BY DEF Closest, PlainOf, Foremost, Hindmost
    <3> QED BY <2>2, <3>1, <3>2 DEF FoundAmong, DiscardedOnTheWay
  <2> QED BY <2>1, <2>2
<1> QED BY <1>1, <1>2

------------------------------------------------------------------------------
\* Outputs and rules come together.

PlacesTyped ==
  /\ output \in [Sections -> {0} \cup {p[1] : p \in Slots}] /\ rule \in [Sections -> Rules]
  /\ \A s \in Sections : output[s] = 0 <=> rule[s] = Unplaced

LEMMA SlotsArePlaces ==
  ASSUME link \in Links
  PROVE  /\ \A p \in Slots : IsPlace(p) /\ p # Unplaced /\ p[1] # 0
         /\ \A s \in Sections : Orphanage(link.name[s]) \in Slots
<1>1. /\ Len(link.script) \in Nat /\ \A s \in Sections : link.name[s] \in Nat
      /\ Bss \in Nat
  BY ScriptTypes, LinksAssumption, BssAssumption
<1>2. \A n \in {Bss} \cup {link.name[s] : s \in Sections} :
        IsPlace(Orphanage(n)) /\ Orphanage(n) # Unplaced /\ Orphanage(n)[1] # 0
  BY <1>1 DEF Orphanage, IsPlace, Unplaced
<1>3. \A p \in Places(link.script) : IsPlace(p) /\ p # Unplaced /\ p[1] # 0
  BY InPlaces DEF IsPlace, Unplaced
<1> QED BY <1>2, <1>3 DEF Slots

\* A section keeps its place or gets another one.
LEMMA PlacesKept ==
  ASSUME link \in Links, link' = link, PlacesTyped,
         DOMAIN output' = Sections, DOMAIN rule' = Sections,
         output' = [s \in Sections |-> output'[s]], rule' = [s \in Sections |-> rule'[s]],
         \A s \in Sections : \/ output'[s] = output[s] /\ rule'[s] = rule[s]
                             \/ /\ rule'[s] \in Slots
                                /\ \E p \in Slots : output'[s] = p[1]
  PROVE  PlacesTyped'
<1>1. Slots' = Slots
  BY SlotsFixed
<1>2. \A p \in Slots : p # Unplaced /\ p[1] # 0
  BY SlotsArePlaces
<1>3. ASSUME NEW s \in Sections
      PROVE  /\ output'[s] \in {0} \cup {p[1] : p \in Slots} /\ rule'[s] \in Slots \cup {Unplaced}
             /\ output'[s] = 0 <=> rule'[s] = Unplaced
  <2>1. CASE output'[s] = output[s] /\ rule'[s] = rule[s]
    BY <2>1 DEF PlacesTyped, Rules
  <2>2. CASE rule'[s] \in Slots /\ \E p \in Slots : output'[s] = p[1]
    BY <1>2, <2>2
  <2> QED BY <2>1, <2>2
<1> QED BY <1>1, <1>3 DEF PlacesTyped, Rules

\* What the matching does, in the words of the script.
LEMMA MatchingFollows ==
  ASSUME link \in Links, assignOutputSections
  PROVE  LET sects == {s \in inputs \ ignored : output[s] = 0}
         IN /\ output' = [s \in Sections |-> output'[s]] /\ rule' = [s \in Sections |-> rule'[s]]
            /\ \A s \in Sections :
                 IF s \in sects /\ Accepting(s) # {}
                 THEN rule'[s] = Closest(s) /\ output'[s] = Closest(s)[1]
                 ELSE rule'[s] = rule[s] /\ output'[s] = output[s]
            /\ ignored' = ignored \cup {s \in sects : DiscardedOnTheWay(s)}
            /\ entries' = entries \cup
                 {s \in inputs : rule'[s] # Unplaced /\ RuleAt(link.script, rule'[s]).keep}
<1> DEFINE sects   == {s \in inputs \ ignored : output[s] = 0}
           matches == IF link.legacy
                      THEN assignInputFromOutputLegacy(link.script, sects, link.writable)
                      ELSE assignInputFromOutput(link.script, sects, link.writable)
           hit     == {s \in sects : matches[s].place # Unplaced}
<1>1. /\ rule' = [s \in Sections |-> IF s \in hit THEN matches[s].place ELSE rule[s]]
      /\ output' = [s \in Sections |-> IF s \in hit THEN matches[s].place[1] ELSE output[s]]
      /\ ignored' = ignored \cup {s \in sects : matches[s].discarded}
      /\ entries' = entries \cup
           {s \in inputs : rule'[s] # Unplaced /\ RuleAt(link.script, rule'[s]).keep}
  BY DEF assignOutputSections
<1>2. \A s \in sects : /\ matches[s].place = MatchOf(s)
                       /\ matches[s].discarded <=> DiscardedOnTheWay(s)
  BY MatchersAgree
<1> HIDE DEF matches, sects
<1>3. ASSUME NEW s \in sects PROVE s \in hit <=> Accepting(s) # {}
  <2>1. Accepting(s) # {} => Closest(s) \in Places(link.script)
    BY ClosestAccepts DEF Accepting
  <2>2. Accepting(s) # {} => Closest(s) # Unplaced
    BY <2>1, RuleFlags
  <2> QED BY <1>2, <1>3, <2>2 DEF MatchOf
<1>4. \A s \in Sections :
        IF s \in sects /\ Accepting(s) # {}
        THEN rule'[s] = Closest(s) /\ output'[s] = Closest(s)[1]
        ELSE rule'[s] = rule[s] /\ output'[s] = output[s]
  <2> SUFFICES ASSUME NEW s \in Sections
               PROVE  IF s \in sects /\ Accepting(s) # {}
                      THEN rule'[s] = Closest(s) /\ output'[s] = Closest(s)[1]
                      ELSE rule'[s] = rule[s] /\ output'[s] = output[s]
    OBVIOUS
  <2>1. s \in hit <=> s \in sects /\ Accepting(s) # {}
    BY <1>3
  <2>2. s \in sects /\ Accepting(s) # {} => matches[s].place = Closest(s)
    BY <1>2 DEF MatchOf
  <2> HIDE DEF hit
  <2> QED BY <1>1, <2>1, <2>2
<1>5. {s \in sects : matches[s].discarded} = {s \in sects : DiscardedOnTheWay(s)}
  BY <1>2
<1>6. output' = [s \in Sections |-> output'[s]] /\ rule' = [s \in Sections |-> rule'[s]]
  BY <1>1
<1> QED BY <1>1, <1>4, <1>5, <1>6 DEF sects

\* What the overrides that wait for some plugins do.
LEMMA OverridesMove ==
  ASSUME link \in Links, NEW who, NEW rank, reAssignOutputSections(who, rank)
  PROVE  /\ output' = [s \in Sections |-> output'[s]] /\ rule' = [s \in Sections |-> rule'[s]]
         /\ \A s \in Sections :
              LET For == {op \in Pending(who) : overrides[op[1]][op[2]][1] = s}
                  Wins == {op \in For : link.threads \/ \A other \in For \ {op} :
                             rank[op[1]] > rank[other[1]] \/ (op[1] = other[1] /\ op[2] > other[2])}
                  Target(op) == findIter(link.script, overrides[op[1]][op[2]][2])
              IN IF For = {} THEN output'[s] = output[s] /\ rule'[s] = rule[s]
                 ELSE \E a, b \in Wins :
                        output'[s] = Target(a) /\ rule'[s] = findOnlyIn(link.script, Target(b), s)
         /\ \A op \in Pending(who) :
              findIter(link.script, overrides[op[1]][op[2]][2]) \in DOMAIN link.script
<1> DEFINE Section(op) == overrides[op[1]][op[2]][1]
           Target(op)  == findIter(link.script, overrides[op[1]][op[2]][2])
           moved       == {Section(op) : op \in Pending(who)}
           For(s)      == {op \in Pending(who) : Section(op) = s}
           After(a, b) == rank[a[1]] > rank[b[1]] \/ (a[1] = b[1] /\ a[2] > b[2])
           Latest(s)   == {op \in For(s) : \A other \in For(s) \ {op} : After(op, other)}
           Wins(s)     == {Target(op) : op \in IF link.threads THEN For(s) ELSE Latest(s)}
<1>1. PICK outputs, rules \in [moved -> DOMAIN link.script] :
        /\ \A s \in moved : outputs[s] \in Wins(s) /\ rules[s] \in Wins(s)
        /\ output' = [s \in Sections |-> IF s \in moved THEN outputs[s] ELSE output[s]]
        /\ rule' = [s \in Sections |-> IF s \in moved THEN findOnlyIn(link.script, rules[s], s)
                                       ELSE rule[s]]
  BY DEF reAssignOutputSections
<1>2. output' = [s \in Sections |-> output'[s]] /\ rule' = [s \in Sections |-> rule'[s]]
  BY <1>1
<1> DEFINE Winners(s) == {op \in For(s) : link.threads \/ \A other \in For(s) \ {op} : After(op, other)}
<1>3. ASSUME NEW s \in Sections
      PROVE  IF For(s) = {} THEN output'[s] = output[s] /\ rule'[s] = rule[s]
             ELSE \E a, b \in Winners(s) :
                    output'[s] = Target(a) /\ rule'[s] = findOnlyIn(link.script, Target(b), s)
  <2>1. s \in moved <=> For(s) # {}
    OBVIOUS
  <2>2. Winners(s) = IF link.threads THEN For(s) ELSE Latest(s)
    OBVIOUS
  <2>3. Wins(s) = {Target(op) : op \in Winners(s)}
    BY <2>2
  <2> HIDE DEF moved, For, Wins, Winners, Target
  <2>4. CASE For(s) = {}
    BY <1>1, <2>1, <2>4
  <2>5. CASE For(s) # {}
    <3>1. outputs[s] \in Wins(s) /\ rules[s] \in Wins(s)
      BY <1>1, <2>1, <2>5
    <3>2. output'[s] = outputs[s] /\ rule'[s] = findOnlyIn(link.script, rules[s], s)
      BY <1>1, <2>1, <2>5
    <3>3. PICK a \in Winners(s) : outputs[s] = Target(a)
      BY <2>3, <3>1
    <3>4. PICK b \in Winners(s) : rules[s] = Target(b)
      BY <2>3, <3>1
    <3> QED BY <2>5, <3>2, <3>3, <3>4
  <2> QED BY <2>4, <2>5
<1>4. \A op \in Pending(who) : Target(op) \in DOMAIN link.script
  BY FoundByName DEF Pending
<1> QED BY <1>2, <1>3, <1>4

------------------------------------------------------------------------------
\* Types.

OthersTyped ==
  /\ link \in Links
  /\ ignored \in SUBSET Sections /\ entries \in SUBSET Sections
  /\ overrides \in [Plugins -> Seq(Sections \X Targets)]
  /\ asked \in [Sections -> Seq(Plugins \X Targets)]
  /\ late \in BOOLEAN
  /\ dirty \in SUBSET Places(link.script)
  /\ updating \in {<<>>} \cup (Plugins \X Places(link.script) \X Seq(Sections))
  /\ moves \in Nat

TypeInv == PlacesTyped /\ OthersTyped

LEMMA MatchingTyped ==
  ASSUME link \in Links, link' = link, PlacesTyped, assignOutputSections
  PROVE  PlacesTyped'
<1>1. /\ output' = [s \in Sections |-> output'[s]] /\ rule' = [s \in Sections |-> rule'[s]]
      /\ \A s \in Sections : \/ rule'[s] = rule[s] /\ output'[s] = output[s]
                             \/ /\ rule'[s] = Closest(s) /\ output'[s] = Closest(s)[1]
                                /\ Accepting(s) # {}
  BY MatchingFollows
<1>2. \A s \in Sections : Accepting(s) # {} => Closest(s) \in Slots
  BY ClosestAccepts, PlacesAreSlots DEF Accepting
<1>3. \A s \in Sections : \/ output'[s] = output[s] /\ rule'[s] = rule[s]
                          \/ rule'[s] \in Slots /\ \E p \in Slots : output'[s] = p[1]
  BY <1>1, <1>2
<1> QED BY <1>1, <1>3, PlacesKept

LEMMA OverridesTyped ==
  ASSUME link \in Links, link' = link, PlacesTyped, NEW who, NEW rank,
         reAssignOutputSections(who, rank)
  PROVE  PlacesTyped'
<1> DEFINE Target(op) == findIter(link.script, overrides[op[1]][op[2]][2])
<1>1. /\ output' = [s \in Sections |-> output'[s]] /\ rule' = [s \in Sections |-> rule'[s]]
      /\ \A s \in Sections :
           \/ output'[s] = output[s] /\ rule'[s] = rule[s]
           \/ \E a, b \in Pending(who) :
                output'[s] = Target(a) /\ rule'[s] = findOnlyIn(link.script, Target(b), s)
      /\ \A op \in Pending(who) : Target(op) \in DOMAIN link.script
  BY OverridesMove
<1> HIDE DEF Target
<1>2. \A o \in DOMAIN link.script : \A s :
        findOnlyIn(link.script, o, s) \in Slots /\ findOnlyIn(link.script, o, s)[1] = o
  BY OverridePlaces, PlacesAreSlots
<1>3. ASSUME NEW s \in Sections
      PROVE  \/ output'[s] = output[s] /\ rule'[s] = rule[s]
             \/ rule'[s] \in Slots /\ \E p \in Slots : output'[s] = p[1]
  <2>1. CASE output'[s] = output[s] /\ rule'[s] = rule[s]
    BY <2>1
  <2>2. ASSUME NEW a \in Pending(who), NEW b \in Pending(who),
               output'[s] = Target(a), rule'[s] = findOnlyIn(link.script, Target(b), s)
        PROVE  rule'[s] \in Slots /\ \E p \in Slots : output'[s] = p[1]
    BY <1>1, <1>2, <2>2
  <2> QED BY <1>1, <2>1, <2>2
<1> QED BY <1>1, <1>3, PlacesKept

LEMMA FallTyped ==
  ASSUME link \in Links, link' = link, PlacesTyped, beginMergeSections
  PROVE  PlacesTyped'
<1> DEFINE fall == {s \in inputs : link.arrives[s] \in {"common", "copy"} /\ output[s] = 0}
<1>1. /\ output' = [s \in Sections |-> IF s \in fall THEN FallbackBSS[1] ELSE output[s]]
      /\ rule' = [s \in Sections |-> IF s \in fall THEN FallbackBSS ELSE rule[s]]
  BY DEF beginMergeSections
<1>2. FallbackBSS \in Slots
  BY FallbackPlace
<1> HIDE DEF fall
<1>3. /\ output' = [s \in Sections |-> output'[s]] /\ rule' = [s \in Sections |-> rule'[s]]
      /\ \A s \in Sections : \/ output'[s] = output[s] /\ rule'[s] = rule[s]
                             \/ rule'[s] \in Slots /\ \E p \in Slots : output'[s] = p[1]
  BY <1>1, <1>2
<1> QED BY <1>3, PlacesKept

LEMMA MergeTyped ==
  ASSUME link \in Links, link' = link, PlacesTyped, mergeInputSections
  PROVE  PlacesTyped'
<1> DEFINE orphans == {s \in {t \in all : Mergeable(t)} : output[s] = 0}
<1>1. /\ output' = [s \in Sections |-> IF s \in orphans THEN HomeOf(s)[1] ELSE output[s]]
      /\ rule' = [s \in Sections |-> IF s \in orphans THEN HomeOf(s) ELSE rule[s]]
  BY DEF mergeInputSections
<1>2. \A s \in Sections : s \in orphans => HomeOf(s) \in Slots
  BY SlotsArePlaces DEF HomeOf
<1> HIDE DEF orphans
<1>3. /\ output' = [s \in Sections |-> output'[s]] /\ rule' = [s \in Sections |-> rule'[s]]
      /\ \A s \in Sections : \/ output'[s] = output[s] /\ rule'[s] = rule[s]
                             \/ rule'[s] \in Slots /\ \E p \in Slots : output'[s] = p[1]
  BY <1>1, <1>2
<1> QED BY <1>3, PlacesKept

\* The rule that the end of CreatingSections finds a chunk in.
LEMMA ChunkFound ==
  ASSUME createOutputSections, NEW s \in Sections
  PROVE  \/ /\ output'[s] = output[s] /\ rule'[s] = rule[s]
            /\ \A r \in dirty : s \notin ToSet(contents[r])
         \/ \E r \in dirty : /\ s \in ToSet(contents[r])
                             /\ output'[s] = r[1] /\ rule'[s] = r
<1> DEFINE Holders == {r \in dirty : s \in ToSet(contents[r])}
           Holder  == CHOOSE r \in Holders : TRUE
<1>1. /\ output'[s] = (IF Holders # {} THEN Holder[1] ELSE output[s])
      /\ rule'[s] = (IF Holders # {} THEN Holder ELSE rule[s])
  BY DEF createOutputSections
<1>2. Holders # {} => Holder \in Holders
  OBVIOUS
<1> HIDE DEF Holder
<1> QED BY <1>1, <1>2

LEMMA CreateTyped ==
  ASSUME link \in Links, link' = link, PlacesTyped, dirty \in SUBSET Places(link.script),
         createOutputSections
  PROVE  PlacesTyped'
<1>1. /\ output' = [s \in Sections |-> output'[s]] /\ rule' = [s \in Sections |-> rule'[s]]
  BY DEF createOutputSections
<1>2. \A s \in Sections : \/ output'[s] = output[s] /\ rule'[s] = rule[s]
                          \/ rule'[s] \in Slots /\ \E p \in Slots : output'[s] = p[1]
  BY ChunkFound, PlacesAreSlots
<1> QED BY <1>1, <1>2, PlacesKept

LEMMA AddTyped ==
  ASSUME TypeInv, link' = link, NEW p, NEW r \in Places(link.script), NEW s \in Sections,
         addChunkOp(p, r, s)
  PROVE  PlacesTyped' /\ dirty' \in SUBSET Places(link.script)
<1>1. /\ output' = [output EXCEPT ![s] = r[1]] /\ rule' = [rule EXCEPT ![s] = r]
      /\ dirty' = dirty \cup {r}
  BY DEF addChunkOp
<1>2. /\ DOMAIN output = Sections /\ DOMAIN rule = Sections
      /\ output = [t \in Sections |-> output[t]] /\ rule = [t \in Sections |-> rule[t]]
  BY DEF TypeInv, PlacesTyped
<1>3. r \in Slots
  BY PlacesAreSlots
<1>4. /\ output' = [t \in Sections |-> output'[t]] /\ rule' = [t \in Sections |-> rule'[t]]
  BY <1>1, <1>2
<1>5. \A t \in Sections : \/ output'[t] = output[t] /\ rule'[t] = rule[t]
                          \/ rule'[t] \in Slots /\ \E q \in Slots : output'[t] = q[1]
  BY <1>1, <1>2, <1>3
<1>6. PlacesTyped'
  BY <1>4, <1>5, PlacesKept DEF TypeInv, OthersTyped
<1> QED BY <1>1, <1>6 DEF TypeInv, OthersTyped

LEMMA InitTyped == Init => TypeInv
<1> SUFFICES ASSUME Init PROVE TypeInv
  OBVIOUS
<1>1. link \in Links /\ PlacesTyped
  BY DEF Init, PlacesTyped, Rules, Unplaced
<1>2. overrides \in [Plugins -> Seq(Sections \X Targets)]
  <2>1. overrides = [p \in Plugins |-> <<>>]
    BY DEF Init
  <2> QED BY <2>1
<1>3. asked \in [Sections -> Seq(Plugins \X Targets)]
  <2>1. asked = [s \in Sections |-> <<>>]
    BY DEF Init
  <2> QED BY <2>1
<1>4. /\ ignored = {} /\ entries = {} /\ late = FALSE /\ dirty = {} /\ updating = <<>>
      /\ moves = 0
  BY DEF Init
<1> QED BY <1>1, <1>2, <1>3, <1>4 DEF TypeInv, OthersTyped

LEMMA AskTyped == ASSUME TypeInv, AccountTypes, Asks PROVE TypeInv'
<1>1. PICK p \in Plugins :
        \/ \E s \in inputs, name \in Targets : setOutputSection(p, s, name)
        \/ finishAssignOutputSections(p)
  BY DEF Asks
<1>2. ASSUME NEW s \in inputs, NEW name \in Targets, setOutputSection(p, s, name)
      PROVE  TypeInv'
  <2>1. /\ overrides' = [overrides EXCEPT ![p] = Append(@, <<s, name>>)]
        /\ asked' = [asked EXCEPT ![s] = Append(@, <<p, name>>)]
        /\ late' = (late \/ phase = "creating")
        /\ UNCHANGED <<link, output, rule, ignored, entries, dirty, updating, moves>>
    BY <1>2 DEF setOutputSection, moving
  <2>2. s \in Sections
    BY DEF AccountTypes
  <2>3. PlacesTyped'
    BY <2>1, SlotsFixed DEF TypeInv, PlacesTyped, Rules
  <2>4. overrides' \in [Plugins -> Seq(Sections \X Targets)]
    <3>1. Append(overrides[p], <<s, name>>) \in Seq(Sections \X Targets)
      BY <2>2 DEF TypeInv, OthersTyped
    <3> QED BY <2>1, <3>1 DEF TypeInv, OthersTyped
  <2>5. asked' \in [Sections -> Seq(Plugins \X Targets)]
    <3>1. Append(asked[s], <<p, name>>) \in Seq(Plugins \X Targets)
      BY <2>2 DEF TypeInv, OthersTyped
    <3> QED BY <2>1, <3>1 DEF TypeInv, OthersTyped
  <2>6. late' \in BOOLEAN
    BY <2>1
  <2> QED BY <2>1, <2>3, <2>4, <2>5, <2>6 DEF TypeInv, OthersTyped
<1>3. ASSUME finishAssignOutputSections(p) PROVE TypeInv'
  <2>1. /\ reAssignOutputSections({p}, [q \in Plugins |-> 0])
        /\ overrides' = [overrides EXCEPT ![p] = <<>>]
        /\ UNCHANGED <<link, ignored, entries, asked, late, dirty, updating, moves>>
    BY <1>3 DEF finishAssignOutputSections, clearSectionOverrides, moving
  <2>2. PlacesTyped'
    BY <2>1, OverridesTyped DEF TypeInv, OthersTyped
  <2>3. overrides' \in [Plugins -> Seq(Sections \X Targets)]
    BY <2>1 DEF TypeInv, OthersTyped
  <2> QED BY <2>1, <2>2, <2>3 DEF TypeInv, OthersTyped
<1> QED BY <1>1, <1>2, <1>3

LEMMA MoveTyped == ASSUME TypeInv, AccountTypes, Moves PROVE TypeInv'
<1>1. PICK p \in Plugins, r \in Places(link.script) :
        \/ \E s \in inputs : addChunk(p, r, s) \/ removeChunk(p, r, s)
        \/ \E chunks \in ChunkLists : updateChunks(p, r, chunks)
  BY DEF Moves
<1>2. ASSUME NEW s \in inputs, addChunk(p, r, s) PROVE TypeInv'
  <2>1. /\ addChunkOp(p, r, s) /\ moves' = moves + 1
        /\ UNCHANGED <<link, ignored, entries, overrides, asked, late, updating>>
    BY <1>2 DEF addChunk, MayMove, asking
  <2>2. s \in Sections
    BY DEF AccountTypes
  <2>3. PlacesTyped' /\ dirty' \in SUBSET Places(link.script)
    BY <2>1, <2>2, AddTyped
  <2> QED BY <2>1, <2>3 DEF TypeInv, OthersTyped
<1>3. ASSUME NEW s \in inputs, removeChunk(p, r, s) PROVE TypeInv'
  <2>1. /\ dirty' = dirty \cup {r} /\ moves' = moves + 1
        /\ UNCHANGED <<link, output, rule, ignored, entries, overrides, asked, late, updating>>
    BY <1>3 DEF removeChunk, MayMove, asking
  <2>2. PlacesTyped'
    BY <2>1, SlotsFixed DEF TypeInv, PlacesTyped, Rules
  <2> QED BY <2>1, <2>2 DEF TypeInv, OthersTyped
<1>4. ASSUME NEW chunks \in ChunkLists, updateChunks(p, r, chunks) PROVE TypeInv'
  <2>1. /\ updating' = <<p, r, chunks>> /\ moves' = moves + 1
        /\ UNCHANGED <<link, output, rule, ignored, entries, overrides, asked, late, dirty>>
    BY <1>4 DEF updateChunks, MayMove, asking
  <2>2. chunks \in Seq(Sections)
    <3>1. inputs \subseteq Sections
      BY DEF AccountTypes
    <3>2. CASE chunks = <<>>
      BY <3>2
    <3>3. ASSUME NEW s \in inputs, chunks = <<s>> PROVE chunks \in Seq(Sections)
      BY <3>1, <3>3
    <3>4. ASSUME NEW s \in inputs, NEW t \in inputs, chunks = <<s, t>>
          PROVE  chunks \in Seq(Sections)
      BY <3>1, <3>4
    <3> QED BY <3>2, <3>3, <3>4 DEF ChunkLists
  <2>3. PlacesTyped'
    BY <2>1, SlotsFixed DEF TypeInv, PlacesTyped, Rules
  <2> QED BY <2>1, <2>2, <2>3 DEF TypeInv, OthersTyped
<1> QED BY <1>1, <1>2, <1>3, <1>4

LEMMA UpdateTyped == ASSUME TypeInv, AccountTypes, updateNextChunk PROVE TypeInv'
<1> DEFINE p == updating[1]
           r == updating[2]
           chunks == updating[3]
<1>1. /\ updating \in Plugins \X Places(link.script) \X Seq(Sections)
      /\ UNCHANGED <<link, ignored, entries, overrides, asked, late, moves>>
  BY DEF updateNextChunk, TypeInv, OthersTyped, asking
<1>2. \/ /\ chunks # <<>> /\ addChunkOp(p, r, Head(chunks))
         /\ updating' = [updating EXCEPT ![3] = Tail(@)]
      \/ updating' = <<>> /\ UNCHANGED <<output, rule, dirty>>
  BY DEF updateNextChunk
<1>3. r \in Places(link.script) /\ chunks \in Seq(Sections)
  BY <1>1
<1> HIDE DEF p, r, chunks
<1>4. CASE chunks # <<>> /\ addChunkOp(p, r, Head(chunks))
           /\ updating' = [updating EXCEPT ![3] = Tail(@)]
  <2>1. Head(chunks) \in Sections /\ Tail(chunks) \in Seq(Sections)
    BY <1>3, <1>4
  <2>2. PlacesTyped' /\ dirty' \in SUBSET Places(link.script)
    BY <1>1, <1>3, <1>4, <2>1, AddTyped
  <2>3. updating' \in Plugins \X Places(link.script) \X Seq(Sections)
    <3>1. updating = <<p, r, chunks>> /\ p \in Plugins
      BY <1>1 DEF p, r, chunks
    <3>2. updating' = <<p, r, Tail(chunks)>>
      BY <1>4, <3>1
    <3> QED BY <1>3, <2>1, <3>1, <3>2
  <2> QED BY <1>1, <2>2, <2>3 DEF TypeInv, OthersTyped
<1>5. CASE updating' = <<>> /\ UNCHANGED <<output, rule, dirty>>
  <2>1. PlacesTyped'
    BY <1>1, <1>5, SlotsFixed DEF TypeInv, PlacesTyped, Rules
  <2> QED BY <1>1, <1>5, <2>1 DEF TypeInv, OthersTyped
<1> QED BY <1>2, <1>4, <1>5

LEMMA AdvanceTyped == ASSUME TypeInv, AccountTypes, Advances PROVE TypeInv'
<1> USE DEF asking, moving
<1> DEFINE Rest == UNCHANGED <<link, overrides, asked, late, dirty, updating, moves>>
<1>1. ASSUME UNCHANGED <<link, output, rule>> PROVE PlacesTyped'
  BY <1>1, SlotsFixed DEF TypeInv, PlacesTyped, Rules
<1>2. CASE MatchForLTO \/ MatchRules
  <2>1. assignOutputSections /\ Rest
    BY <1>2 DEF MatchForLTO, MatchRules
  <2>2. PlacesTyped'
    BY <2>1, MatchingTyped DEF TypeInv, OthersTyped
  <2>3. ignored' \in SUBSET Sections /\ entries' \in SUBSET Sections
    <3>1. /\ ignored' \subseteq ignored \cup inputs /\ entries' \subseteq entries \cup inputs
      BY <2>1 DEF assignOutputSections
    <3> QED BY <3>1 DEF TypeInv, OthersTyped, AccountTypes
  <2> QED BY <2>1, <2>2, <2>3 DEF TypeInv, OthersTyped
<1>3. CASE createLTOObject
  BY <1>1, <1>3 DEF createLTOObject, TypeInv, OthersTyped
<1>4. CASE resolve
  BY <1>1, <1>4 DEF resolve, TypeInv, OthersTyped
<1>5. CASE scanRelocations
  BY <1>1, <1>5 DEF scanRelocations, TypeInv, OthersTyped
<1>6. CASE runOutputSectionIteratorPlugin
  BY <1>1, <1>6 DEF runOutputSectionIteratorPlugin, TypeInv, OthersTyped
<1>7. CASE dataStrippingOpt
  <2>1. PlacesTyped' /\ Rest /\ entries' = entries
    BY <1>1, <1>7 DEF dataStrippingOpt
  <2>2. ignored' \in SUBSET Sections
    BY <1>7 DEF dataStrippingOpt, TypeInv, OthersTyped, AccountTypes
  <2> QED BY <2>1, <2>2 DEF TypeInv, OthersTyped
<1>8. CASE runSectionIteratorPlugin
  <2>1. PICK rank : reAssignOutputSections(Plugins, rank)
    BY <1>8 DEF runSectionIteratorPlugin
  <2>2. /\ overrides' = [p \in Plugins |-> <<>>]
        /\ UNCHANGED <<link, ignored, entries, asked, late, dirty, updating, moves>>
    BY <1>8 DEF runSectionIteratorPlugin
  <2>3. PlacesTyped'
    BY <2>1, <2>2, OverridesTyped DEF TypeInv, OthersTyped
  <2>4. overrides' \in [Plugins -> Seq(Sections \X Targets)]
    BY <2>2
  <2> QED BY <2>2, <2>3, <2>4 DEF TypeInv, OthersTyped
<1>9. CASE beginMergeSections
  <2>1. Rest /\ UNCHANGED <<ignored, entries>>
    BY <1>9 DEF beginMergeSections
  <2>2. PlacesTyped'
    BY <1>9, <2>1, FallTyped DEF TypeInv, OthersTyped
  <2> QED BY <2>1, <2>2 DEF TypeInv, OthersTyped
<1>10. CASE mergeSections
  <2>1. mergeInputSections /\ Rest /\ UNCHANGED <<ignored, entries>>
    BY <1>10 DEF mergeSections
  <2>2. PlacesTyped'
    BY <2>1, MergeTyped DEF TypeInv, OthersTyped
  <2> QED BY <2>1, <2>2 DEF TypeInv, OthersTyped
<1>11. CASE createOutputSections
  <2>1. Rest /\ UNCHANGED <<ignored, entries>>
    BY <1>11 DEF createOutputSections
  <2>2. PlacesTyped'
    BY <1>11, <2>1, CreateTyped DEF TypeInv, OthersTyped
  <2> QED BY <2>1, <2>2 DEF TypeInv, OthersTyped
<1> QED BY <1>2, <1>3, <1>4, <1>5, <1>6, <1>7, <1>8, <1>9, <1>10, <1>11 DEF Advances

LEMMA NextTyped == TypeInv /\ AccountTypes /\ [Next]_vars => TypeInv'
<1> SUFFICES ASSUME TypeInv, AccountTypes, [Next]_vars PROVE TypeInv'
  OBVIOUS
<1>1. CASE Next
  BY <1>1, AskTyped, MoveTyped, UpdateTyped, AdvanceTyped DEF Next
<1>2. CASE UNCHANGED vars
  BY <1>2, SlotsFixed DEF vars, asking, moving, TypeInv, OthersTyped, PlacesTyped, Rules
<1> QED BY <1>1, <1>2

LEMMA AllTyped == TypeInv /\ AccountTypes => TypeOK
BY DEF TypeInv, PlacesTyped, OthersTyped, AccountTypes, TypeOK

\* Theorem: the state of the rules and chunks has its types: an output and a rule of
\* a section are places of the script or of a default output, and what plugins ask
\* for, move and list are sections of the link.
THEOREM TypeCorrect == Spec => []TypeOK
<1>1. Init => AccountsInv /\ TypeInv
  BY InitAccounts, InitTyped
<1>2. AccountsInv /\ TypeInv /\ [Next]_vars => (AccountsInv /\ TypeInv)'
  BY NextAccounts, NextTyped DEF AccountsInv
<1>3. AccountsInv /\ TypeInv => TypeOK
  BY AllTyped DEF AccountsInv
<1> QED BY <1>1, <1>2, <1>3, PTL DEF Spec

------------------------------------------------------------------------------
\* What holds of every section on its way into the image.

Waiting == {"match for lto", "before lto", "resolve", "before matching"}
Early == Waiting \cup {"matcher", "iterator", "scan", "merge"}
Gathering == {"before merging", "before layout"}

\* Nothing is known of a section that is still to come; copies come last.
Arrived ==
  phase \in Early => \A s \in Sections :
    /\ s \notin inputs => output[s] = 0 /\ s \notin ignored /\ s \notin entries /\ asked[s] = <<>>
    /\ link.arrives[s] = "copy" /\ phase # "merge" => s \notin inputs

\* No plugin may have the sections gathered before all have come.
Unhurried ==
  \A p \in Plugins : link.hooks[p] \subseteq {"before merging", "before layout", "creating"}

Gathered ==
  /\ all \subseteq inputs
  /\ phase \notin Early => (all = {} => inputs = {})
  /\ Unhurried => IF phase \in Early THEN all = {} ELSE all = inputs

\* What the script decides about a section that no plugin asks for.
Keeps(s) == Accepting(s) # {} /\ RuleAt(link.script, Closest(s)).keep

Ignored(s) == Collected(s) \/ (link.arrives[s] # "copy" /\ DiscardedOnTheWay(s))

Untouched(s) == output[s] = 0 /\ s \notin ignored /\ s \notin entries

AsMatched(s) ==
  rule[s] = MatchOf(s) /\ output[s] = MatchOf(s)[1] /\ (s \in entries <=> Keeps(s))

\* Before link time optimization a section is matched or not; then it is matched,
\* stripped, given its place and merged.
ByScript(s) ==
  /\ phase \in Waiting =>
       Untouched(s) \/ (AsMatched(s) /\ (s \in ignored <=> DiscardedOnTheWay(s)))
  /\ phase = "matcher" => AsMatched(s) /\ (s \in ignored <=> DiscardedOnTheWay(s))
  /\ phase \in {"iterator", "scan"} => AsMatched(s) /\ (s \in ignored <=> Ignored(s))
  /\ phase = "merge" =>
       IF link.arrives[s] = "copy" THEN Untouched(s)
       ELSE AsMatched(s) /\ (s \in ignored <=> Ignored(s))
  /\ phase \in Gathering =>
       /\ HomeOf(s) = ScriptPlace(s)
       /\ output[s] # 0 => output[s] = ScriptPlace(s)[1]
       /\ s \in ignored <=> Ignored(s)
  /\ Merged /\ movers[s] = {} =>
       /\ s \in ignored <=> Ignored(s)
       /\ s \in all /\ s \notin ignored =>
            rule[s] = ScriptPlace(s) /\ output[s] = ScriptPlace(s)[1]

Follows == \A s \in inputs : asked[s] = <<>> => ByScript(s)

\* The requests for a section that name an output, and those that still wait.
Known(s) == {i \in DOMAIN asked[s] : findIter(link.script, asked[s][i][2]) # 0}

PendingFor(s) == {op \in Pending(Plugins) : overrides[op[1]][op[2]][1] = s}

\* Every override that waits has been asked for.
Recorded ==
  \A p \in Plugins : \A k \in DOMAIN overrides[p] :
    \E i \in DOMAIN asked[overrides[p][k][1]] :
      asked[overrides[p][k][1]][i] = <<p, overrides[p][k][2]>>

NoneLeft == Merged /\ ~late => \A p \in Plugins : overrides[p] = <<>>

\* A section that is asked for once has one override at most that waits.
Single ==
  \A s \in Sections : \A i \in DOMAIN asked[s] :
    Known(s) = {i} => \A op1, op2 \in PendingFor(s) : op1 = op2

\* last is the last request for the section, all come from one plugin, and threads
\* do not compete.
Clear(s, last) ==
  /\ last \in Known(s)
  /\ \A i \in Known(s) : i <= last /\ asked[s][i][1] = asked[s][last][1]
  /\ link.threads => Known(s) = {last}

LastOfPlugin(s, op) ==
  op \in PendingFor(s) /\ \A other \in PendingFor(s) : other[1] = op[1] => other[2] <= op[2]

\* The last override that waits is the last request; when none waits, the request
\* has been carried out.
WaitsFor(s, last) ==
  /\ \A op : LastOfPlugin(s, op) => overrides[op[1]][op[2]][2] = asked[s][last][2]
  /\ PendingFor(s) = {} /\ movers[s] = {} /\ ~late =>
       LET o == findIter(link.script, asked[s][last][2])
       IN rule[s] = findOnlyIn(link.script, o, s) /\ output[s] = o

Prevail == \A s \in inputs : \A last \in DOMAIN asked[s] : Clear(s, last) => WaitsFor(s, last)

\* Sections that neither moves of chunks nor late requests have made unclear.
Undisturbed(s) == movers[s] = {} /\ (asked[s] = <<>> \/ ~late)

Clean(s) ==
  movers[s] = {} /\ (asked[s] = <<>> \/ (~late /\ \E last \in DOMAIN asked[s] : Clear(s, last)))

\* A section that is merged lies in its rule and in no other.
Lying ==
  Merged => \A s \in Sections :
    /\ Undisturbed(s) =>
        /\ s \in merged => rule[s] \in Slots
        /\ \A q \in Slots : s \in ToSet(contents[q]) <=> s \in merged /\ q = rule[s]
    /\ Clean(s) => (s \in merged <=> s \in all /\ Mergeable(s))

Ordered ==
  Merged => \A p \in Slots \ dirty : \A i, j \in DOMAIN contents[p] :
    i < j => SortedPair(PolicyOf(p), contents[p][i], contents[p][j])

Requests == Recorded /\ NoneLeft /\ Single

ScriptInv == Arrived /\ Gathered /\ Requests /\ Follows /\ Prevail /\ Lying /\ Ordered

Inv == AccountsInv /\ TypeInv /\ ScriptInv

\* What depends on the script alone.
LEMMA ScriptFixed ==
  ASSUME link' = link, NEW s
  PROVE  /\ Accepting(s)' = Accepting(s) /\ MatchOf(s)' = MatchOf(s)
         /\ Keeps(s)' <=> Keeps(s)
         /\ DiscardedOnTheWay(s)' <=> DiscardedOnTheWay(s)
         /\ Collected(s)' <=> Collected(s)
         /\ Ignored(s)' <=> Ignored(s)
         /\ ScriptPlace(s)' = ScriptPlace(s)
<1>1. Accepting(s)' = Accepting(s)
  BY DEF Accepting, Places
<1>2. Closest(s)' = Closest(s)
  BY <1>1 DEF Closest
<1>3. DiscardedOnTheWay(s)' <=> DiscardedOnTheWay(s)
  BY <1>1 DEF DiscardedOnTheWay, Discards
<1>4. Collected(s)' <=> Collected(s)
  BY <1>1, <1>2 DEF Collected
<1>5. ScriptPlace(s)' = ScriptPlace(s)
  BY <1>1, <1>2 DEF ScriptPlace, Orphanage, FallbackBSS
<1> QED BY <1>1, <1>2, <1>3, <1>4, <1>5 DEF MatchOf, Keeps, Ignored

\* What depends on the requests.
LEMMA RequestsFixed ==
  ASSUME UNCHANGED <<link, overrides, asked>>, NEW s
  PROVE  /\ PendingFor(s)' = PendingFor(s) /\ Known(s)' = Known(s)
         /\ \A last : Clear(s, last)' <=> Clear(s, last)
         /\ \A op : LastOfPlugin(s, op)' <=> LastOfPlugin(s, op)
<1>1. PendingFor(s)' = PendingFor(s) /\ Known(s)' = Known(s)
  BY DEF PendingFor, Pending, Known
<1>2. \A last : Clear(s, last)' <=> Clear(s, last)
  BY <1>1 DEF Clear
<1>3. \A op : LastOfPlugin(s, op)' <=> LastOfPlugin(s, op)
  BY <1>1 DEF LastOfPlugin
<1> QED BY <1>1, <1>2, <1>3

------------------------------------------------------------------------------
\* Requests.

\* An override that waits has a request that names its output.
LEMMA AskedFor ==
  ASSUME Recorded, NEW s, NEW op \in PendingFor(s)
  PROVE  \E i \in Known(s) : asked[s][i] = <<op[1], overrides[op[1]][op[2]][2]>>
<1>1. /\ op[1] \in Plugins /\ op[2] \in DOMAIN overrides[op[1]]
      /\ overrides[op[1]][op[2]][1] = s
      /\ findIter(link.script, overrides[op[1]][op[2]][2]) # 0
  BY DEF PendingFor, Pending
<1>2. PICK i \in DOMAIN asked[s] : asked[s][i] = <<op[1], overrides[op[1]][op[2]][2]>>
  BY <1>1 DEF Recorded
<1> QED BY <1>1, <1>2 DEF Known

LEMMA NothingWaits ==
  ASSUME Recorded, NEW s, asked[s] = <<>> PROVE PendingFor(s) = {}
<1>1. Known(s) = {}
  BY DEF Known
<1> QED BY <1>1, AskedFor

\* A request is recorded.
Recording(p, t, name) ==
  /\ link' = link
  /\ overrides' = [overrides EXCEPT ![p] = Append(@, <<t, name>>)]
  /\ asked' = [asked EXCEPT ![t] = Append(@, <<p, name>>)]

LEMMA RequestAppended ==
  ASSUME TypeInv, NEW p \in Plugins, NEW t \in Sections, NEW name \in Targets,
         Recording(p, t, name)
  PROVE  LET op  == <<p, Len(overrides[p]) + 1>>
             i   == Len(asked[t]) + 1
             new == findIter(link.script, name) # 0
         IN /\ overrides'[p][op[2]] = <<t, name>> /\ asked'[t][i] = <<p, name>>
            /\ DOMAIN asked'[t] = DOMAIN asked[t] \cup {i}
            /\ i \in Nat /\ \A j \in DOMAIN asked[t] : j \in Nat /\ j < i
            /\ op[2] \in Nat /\ \A k \in DOMAIN overrides[p] : k \in Nat /\ k < op[2]
            /\ \A j \in DOMAIN asked[t] : asked'[t][j] = asked[t][j]
            /\ \A k \in DOMAIN overrides[p] : overrides'[p][k] = overrides[p][k]
            /\ DOMAIN overrides'[p] = DOMAIN overrides[p] \cup {op[2]}
            /\ \A q \in Plugins \ {p} : overrides'[q] = overrides[q]
            /\ \A s \in Sections \ {t} : asked'[s] = asked[s] /\ Known(s)' = Known(s)
            /\ \A s \in Sections \ {t} : PendingFor(s)' = PendingFor(s)
            /\ Known(t)' = IF new THEN Known(t) \cup {i} ELSE Known(t)
            /\ PendingFor(t)' = IF new THEN PendingFor(t) \cup {op} ELSE PendingFor(t)
<1> DEFINE k0 == Len(overrides[p]) + 1
           i0 == Len(asked[t]) + 1
           new == findIter(link.script, name) # 0
<1>1. /\ link' = link
      /\ overrides' = [overrides EXCEPT ![p] = Append(@, <<t, name>>)]
      /\ asked' = [asked EXCEPT ![t] = Append(@, <<p, name>>)]
  BY DEF Recording
<1>2. /\ overrides[p] \in Seq(Sections \X Targets) /\ asked[t] \in Seq(Plugins \X Targets)
      /\ DOMAIN overrides = Plugins /\ DOMAIN asked = Sections
  BY DEF TypeInv, OthersTyped
<1>3. /\ overrides'[p] = Append(overrides[p], <<t, name>>)
      /\ asked'[t] = Append(asked[t], <<p, name>>)
      /\ \A q \in Plugins \ {p} : overrides'[q] = overrides[q]
      /\ \A s \in Sections \ {t} : asked'[s] = asked[s]
  BY <1>1, <1>2
<1>4. /\ overrides'[p][k0] = <<t, name>>
      /\ DOMAIN overrides'[p] = DOMAIN overrides[p] \cup {k0}
      /\ k0 \in Nat /\ \A k \in DOMAIN overrides[p] : k \in Nat /\ k < k0
      /\ \A k \in DOMAIN overrides[p] : overrides'[p][k] = overrides[p][k]
  BY <1>1, <1>2, <1>3
<1>5. /\ asked'[t][i0] = <<p, name>>
      /\ DOMAIN asked'[t] = DOMAIN asked[t] \cup {i0}
      /\ i0 \in Nat /\ \A j \in DOMAIN asked[t] : j \in Nat /\ j < i0
      /\ \A j \in DOMAIN asked[t] : asked'[t][j] = asked[t][j]
  BY <1>1, <1>2, <1>3
<1> HIDE DEF k0, i0
<1>6. \A s \in Sections \ {t} : Known(s)' = Known(s)
  BY <1>1, <1>3 DEF Known
<1>7. Known(t)' = IF new THEN Known(t) \cup {i0} ELSE Known(t)
  BY <1>1, <1>5 DEF Known
<1>8. Pending(Plugins)' = IF new THEN Pending(Plugins) \cup {<<p, k0>>} ELSE Pending(Plugins)
  <2>1. \A q, k : <<q, k>> \in Pending(Plugins)' <=>
          /\ q \in Plugins /\ k \in DOMAIN overrides'[q]
          /\ findIter(link.script, overrides'[q][k][2]) # 0
    BY <1>1 DEF Pending
  <2>2. \A q, k : <<q, k>> \in Pending(Plugins) <=>
          /\ q \in Plugins /\ k \in DOMAIN overrides[q]
          /\ findIter(link.script, overrides[q][k][2]) # 0
    BY DEF Pending
  <2>3. \A q, k : <<q, k>> \in Pending(Plugins)' <=>
                    <<q, k>> \in Pending(Plugins) \/ (new /\ q = p /\ k = k0)
    <3> SUFFICES ASSUME NEW q, NEW k
                 PROVE  <<q, k>> \in Pending(Plugins)' <=>
                          <<q, k>> \in Pending(Plugins) \/ (new /\ q = p /\ k = k0)
      OBVIOUS
    <3>1. CASE q # p
      BY <1>3, <2>1, <2>2, <3>1
    <3>2. CASE q = p /\ k # k0
      BY <1>4, <2>1, <2>2, <3>2
    <3>3. CASE q = p /\ k = k0
      <4>1. k0 \notin DOMAIN overrides[p]
        BY <1>4
      <4> QED BY <1>4, <2>1, <2>2, <3>3, <4>1
    <3> QED BY <3>1, <3>2, <3>3
  <2>4. /\ \A op \in Pending(Plugins) : op = <<op[1], op[2]>>
        /\ \A op \in Pending(Plugins)' : op = <<op[1], op[2]>>
    BY DEF Pending
  <2>5. \A op : op \in Pending(Plugins)' <=> op \in Pending(Plugins) \/ (new /\ op = <<p, k0>>)
    BY <2>3, <2>4
  <2> QED BY <2>5
<1>9. \A op \in Pending(Plugins) : overrides'[op[1]][op[2]] = overrides[op[1]][op[2]]
  <2> SUFFICES ASSUME NEW op \in Pending(Plugins)
               PROVE  overrides'[op[1]][op[2]] = overrides[op[1]][op[2]]
    OBVIOUS
  <2>1. op[1] \in Plugins /\ op[2] \in DOMAIN overrides[op[1]]
    BY DEF Pending
  <2> QED BY <1>3, <1>4, <2>1
<1>10. \A s : PendingFor(s)' = {op \in Pending(Plugins)' : overrides'[op[1]][op[2]][1] = s}
  BY DEF PendingFor
<1>11. <<p, k0>> \notin Pending(Plugins) /\ overrides'[<<p, k0>>[1]][<<p, k0>>[2]][1] = t
  <2>1. k0 \notin DOMAIN overrides[p]
    BY <1>4
  <2> QED BY <1>4, <2>1 DEF Pending
<1>12. \A s, op : op \in PendingFor(s)' <=>
                    op \in PendingFor(s) \/ (new /\ op = <<p, k0>> /\ s = t)
  <2> SUFFICES ASSUME NEW s, NEW op
               PROVE  op \in PendingFor(s)' <=>
                        op \in PendingFor(s) \/ (new /\ op = <<p, k0>> /\ s = t)
    OBVIOUS
  <2>1. CASE op \in Pending(Plugins)
    <3>1. op # <<p, k0>> /\ op \in Pending(Plugins)'
      BY <1>8, <1>11, <2>1
    <3>2. overrides'[op[1]][op[2]] = overrides[op[1]][op[2]]
      BY <1>9, <2>1
    <3> QED BY <1>10, <2>1, <3>1, <3>2 DEF PendingFor
  <2>2. CASE op \notin Pending(Plugins) /\ op = <<p, k0>>
    BY <1>8, <1>10, <1>11, <2>2 DEF PendingFor
  <2>3. CASE op \notin Pending(Plugins) /\ op # <<p, k0>>
    BY <1>8, <1>10, <2>3 DEF PendingFor
  <2> QED BY <2>1, <2>2, <2>3
<1>13. \A s : PendingFor(s)' = {op \in PendingFor(s)' : TRUE}
  BY <1>10
<1>14. \A s \in Sections \ {t} : PendingFor(s)' = PendingFor(s)
  BY <1>12 DEF PendingFor
<1>15. PendingFor(t)' = IF new THEN PendingFor(t) \cup {<<p, k0>>} ELSE PendingFor(t)
  BY <1>12, <1>13 DEF PendingFor
<1> QED BY <1>3, <1>4, <1>5, <1>6, <1>7, <1>14, <1>15 DEF k0, i0

\* The overrides of some plugins are carried out and dropped.
Dropped(who) == [q \in Plugins |-> IF q \in who THEN <<>> ELSE overrides[q]]

LEMMA OverridesDropped ==
  ASSUME link' = link, NEW who, overrides' = Dropped(who), NEW s
  PROVE  /\ \A op : op \in PendingFor(s)' <=> op \in PendingFor(s) /\ op[1] \notin who
         /\ \A op \in PendingFor(s)' : overrides'[op[1]][op[2]] = overrides[op[1]][op[2]]
<1>1. \A q \in Plugins : overrides'[q] = IF q \in who THEN <<>> ELSE overrides[q]
  BY DEF Dropped
<1>2. \A q, k : <<q, k>> \in Pending(Plugins) <=>
        /\ q \in Plugins /\ k \in DOMAIN overrides[q]
        /\ findIter(link.script, overrides[q][k][2]) # 0
  BY DEF Pending
<1>3. \A q, k : <<q, k>> \in Pending(Plugins)' <=>
        /\ q \in Plugins /\ k \in DOMAIN overrides'[q]
        /\ findIter(link.script, overrides'[q][k][2]) # 0
  BY DEF Pending
<1>4. \A op : op \in Pending(Plugins) \/ op \in Pending(Plugins)' => op = <<op[1], op[2]>>
  BY DEF Pending
<1>5. DOMAIN << >> = {}
  OBVIOUS
<1>6. ASSUME NEW op
      PROVE  op \in Pending(Plugins)' <=> op \in Pending(Plugins) /\ op[1] \notin who
  <2>1. CASE op # <<op[1], op[2]>>
    BY <1>4, <2>1
  <2>2. CASE op = <<op[1], op[2]>>
    BY <1>1, <1>2, <1>3, <1>5, <2>2
  <2> QED BY <2>1, <2>2
<1>7. \A op \in Pending(Plugins)' : overrides'[op[1]][op[2]] = overrides[op[1]][op[2]]
  BY <1>1, <1>3, <1>4, <1>6
<1>8. \A op : op \in PendingFor(s)' <=>
                op \in Pending(Plugins)' /\ overrides'[op[1]][op[2]][1] = s
  BY DEF PendingFor
<1> QED BY <1>6, <1>7, <1>8 DEF PendingFor

\* The overrides for a section that is asked for clearly.
LEMMA ClearRequests ==
  ASSUME Recorded, NEW s, NEW last, Clear(s, last), NEW op \in PendingFor(s)
  PROVE  op[1] = asked[s][last][1]
<1>1. PICK i \in Known(s) : asked[s][i] = <<op[1], overrides[op[1]][op[2]][2]>>
  BY AskedFor
<1> QED BY <1>1 DEF Clear

LEMMA OverridesDone ==
  ASSUME TypeInv, Recorded, Single, NEW who \in SUBSET Plugins, NEW rank,
         \A q \in Plugins : rank[q] \in Int,
         reAssignOutputSections(who, rank), NEW s \in Sections
  PROVE  /\ PendingFor(s) = {} => output'[s] = output[s] /\ rule'[s] = rule[s]
         /\ \A last : Clear(s, last) /\ WaitsFor(s, last) /\ PendingFor(s) # {} =>
              LET o == findIter(link.script, asked[s][last][2])
              IN IF asked[s][last][1] \in who
                 THEN output'[s] = o /\ rule'[s] = findOnlyIn(link.script, o, s)
                 ELSE output'[s] = output[s] /\ rule'[s] = rule[s]
<1> DEFINE For == {op \in Pending(who) : overrides[op[1]][op[2]][1] = s}
           Wins == {op \in For : link.threads \/ \A other \in For \ {op} :
                      rank[op[1]] > rank[other[1]] \/ (op[1] = other[1] /\ op[2] > other[2])}
           Target(op) == findIter(link.script, overrides[op[1]][op[2]][2])
<1>1. IF For = {} THEN output'[s] = output[s] /\ rule'[s] = rule[s]
      ELSE \E a, b \in Wins :
             output'[s] = Target(a) /\ rule'[s] = findOnlyIn(link.script, Target(b), s)
  <2>1. link \in Links
    BY DEF TypeInv, OthersTyped
  <2> QED BY <2>1, OverridesMove
<1>2. \A op : op \in For <=> op \in PendingFor(s) /\ op[1] \in who
  BY DEF PendingFor, Pending
<1>3. \A op \in PendingFor(s) : op[1] \in Plugins /\ op[2] \in Nat
  <2>1. \A p \in Plugins : overrides[p] \in Seq(Sections \X Targets)
    BY DEF TypeInv, OthersTyped
  <2>2. \A p \in Plugins : DOMAIN overrides[p] \subseteq Nat
    BY <2>1
  <2>3. \A op \in PendingFor(s) : op[1] \in Plugins /\ op[2] \in DOMAIN overrides[op[1]]
    BY DEF PendingFor, Pending
  <2> QED BY <2>2, <2>3
<1> HIDE DEF For, Target
<1>4. PendingFor(s) = {} => output'[s] = output[s] /\ rule'[s] = rule[s]
  BY <1>1, <1>2
<1>5. ASSUME NEW last, Clear(s, last), WaitsFor(s, last), PendingFor(s) # {}
      PROVE  LET o == findIter(link.script, asked[s][last][2])
             IN IF asked[s][last][1] \in who
                THEN output'[s] = o /\ rule'[s] = findOnlyIn(link.script, o, s)
                ELSE output'[s] = output[s] /\ rule'[s] = rule[s]
  <2>1. \A op \in PendingFor(s) : op[1] = asked[s][last][1]
    BY <1>5, ClearRequests
  <2>2. CASE asked[s][last][1] \notin who
    BY <1>1, <1>2, <2>1, <2>2
  <2>3. CASE asked[s][last][1] \in who
    <3>1. For = PendingFor(s)
      BY <1>2, <2>1, <2>3
    <3>2. PICK a, b \in Wins :
            output'[s] = Target(a) /\ rule'[s] = findOnlyIn(link.script, Target(b), s)
      BY <1>1, <1>5, <3>1
    <3>3. ASSUME NEW op \in Wins PROVE LastOfPlugin(s, op)
      <4>1. op \in PendingFor(s)
        BY <3>1
      <4>2. CASE link.threads
        <5>1. last \in DOMAIN asked[s] /\ Known(s) = {last}
          BY <1>5, <4>2 DEF Clear, Known
        <5>2. \A other \in PendingFor(s) : other = op
          BY <4>1, <5>1 DEF Single
        <5>3. op[2] \in Nat
          BY <1>3, <4>1
        <5>4. \A other \in PendingFor(s) : other[2] <= op[2]
          BY <5>2, <5>3
        <5> QED BY <4>1, <5>4 DEF LastOfPlugin
      <4>3. CASE ~link.threads
        <5>1. \A other \in PendingFor(s) \ {op} :
                rank[op[1]] > rank[other[1]] \/ (op[1] = other[1] /\ op[2] > other[2])
          BY <3>1, <4>3
        <5>2. ASSUME NEW other \in PendingFor(s), other[1] = op[1] PROVE other[2] <= op[2]
          <6>1. op[2] \in Nat /\ other[2] \in Nat /\ rank[op[1]] \in Int
            BY <1>3, <4>1
          <6>2. CASE other = op
            BY <6>1, <6>2
          <6>3. CASE other # op
            BY <5>1, <5>2, <6>1, <6>3
          <6> QED BY <6>2, <6>3
        <5> QED BY <4>1, <5>2 DEF LastOfPlugin
      <4> QED BY <4>2, <4>3
    <3>4. \A op \in Wins : Target(op) = findIter(link.script, asked[s][last][2])
      BY <1>5, <3>3 DEF WaitsFor, Target
    <3> HIDE DEF Wins
    <3> QED BY <2>3, <3>2, <3>4
  <2> QED BY <2>2, <2>3
<1> QED BY <1>4, <1>5

\* Requests that are carried out are gone, the others still wait.
LEMMA RequestsDropped ==
  ASSUME TypeInv, Recorded, Single, NEW who \in SUBSET Plugins,
         UNCHANGED <<link, asked>>, overrides' = Dropped(who)
  PROVE  Recorded' /\ Single'
<1>1. \A q \in Plugins : overrides'[q] = <<>> \/ overrides'[q] = overrides[q]
  BY DEF Dropped
<1>2. Recorded'
  <2> SUFFICES ASSUME NEW p \in Plugins, NEW k \in DOMAIN overrides'[p]
               PROVE  \E i \in DOMAIN asked'[overrides'[p][k][1]] :
                        asked'[overrides'[p][k][1]][i] = <<p, overrides'[p][k][2]>>
    BY DEF Recorded
  <2>1. overrides'[p] = overrides[p]
    <3>1. DOMAIN << >> = {}
      OBVIOUS
    <3> QED BY <1>1, <3>1
  <2> QED BY <2>1 DEF Recorded
<1>3. Single'
  <2> SUFFICES ASSUME NEW s \in Sections, NEW i \in DOMAIN asked'[s], Known(s)' = {i},
                      NEW op1 \in PendingFor(s)', NEW op2 \in PendingFor(s)'
               PROVE  op1 = op2
    BY DEF Single
  <2>1. op1 \in PendingFor(s) /\ op2 \in PendingFor(s)
    BY OverridesDropped
  <2>2. Known(s)' = Known(s)
    BY DEF Known
  <2> QED BY <2>1, <2>2 DEF Single
<1> QED BY <1>2, <1>3

------------------------------------------------------------------------------
\* Steps of plugins that ask.

\* A section that a step leaves where it is.
LEMMA ByScriptKept ==
  ASSUME UNCHANGED <<link, phase>>, NEW s, ByScript(s),
         movers'[s] = {} => movers[s] = {},
         ~Merged \/ movers'[s] = {} => output'[s] = output[s] /\ rule'[s] = rule[s],
         s \in ignored' <=> s \in ignored, s \in entries' <=> s \in entries,
         Merged => (s \in all' => s \in all)
  PROVE  ByScript(s)'
<1>1. /\ MatchOf(s)' = MatchOf(s) /\ (Keeps(s)' <=> Keeps(s))
      /\ DiscardedOnTheWay(s)' <=> DiscardedOnTheWay(s)
      /\ Ignored(s)' <=> Ignored(s)
      /\ ScriptPlace(s)' = ScriptPlace(s)
  BY ScriptFixed
<1>2. CASE Merged
  <2>1. phase \notin Waiting \cup Gathering \cup {"matcher", "iterator", "scan", "merge"}
    BY <1>2 DEF Merged, Waiting, Gathering
  <2> QED BY <1>1, <1>2, <2>1 DEF ByScript, Merged
<1>3. CASE ~Merged
  <2>1. output'[s] = output[s] /\ rule'[s] = rule[s] /\ ~Merged'
    BY <1>3 DEF Merged
  <2>2. /\ Untouched(s)' <=> Untouched(s)
        /\ AsMatched(s)' <=> AsMatched(s)
        /\ HomeOf(s)' = HomeOf(s)
    BY <1>1, <2>1 DEF Untouched, AsMatched, HomeOf, Orphanage
  <2> QED BY <1>1, <1>3, <2>1, <2>2 DEF ByScript
<1> QED BY <1>2, <1>3

LEMMA OrderFixed ==
  ASSUME link \in Links, link' = link, NEW q, NEW a, NEW b
  PROVE  SortedPair(PolicyOf(q), a, b)' <=> SortedPair(PolicyOf(q), a, b)
<1>1. PolicyOf(q)' = PolicyOf(q)
  BY DEF PolicyOf, Places, RuleAt
<1>2. PolicyOf(q) \in SortPolicies
  BY PolicyKnown
<1> QED BY <1>1, <1>2 DEF SortedPair, SortPolicies

LEMMA WaitsKept ==
  ASSUME UNCHANGED <<link, overrides, asked, late>>, NEW s, NEW last, WaitsFor(s, last),
         movers'[s] = {} => movers[s] = {},
         movers'[s] = {} /\ PendingFor(s) = {} /\ ~late =>
           output'[s] = output[s] /\ rule'[s] = rule[s]
  PROVE  WaitsFor(s, last)'
BY RequestsFixed DEF WaitsFor

\* Late or in time, only the sections that wait can be moved by overrides.
LEMMA AskScript ==
  ASSUME Inv, NEW p \in Plugins, NEW t \in inputs, NEW name \in Targets,
         setOutputSection(p, t, name)
  PROVE  ScriptInv'
<1> DEFINE op  == <<p, Len(overrides[p]) + 1>>
           i   == Len(asked[t]) + 1
           new == findIter(link.script, name) # 0
<1>1. /\ TypeInv /\ AccountTypes /\ Arrived /\ Gathered /\ Recorded /\ NoneLeft /\ Single
      /\ Follows /\ Prevail /\ Lying /\ Ordered
  BY DEF Inv, AccountsInv, ScriptInv, Requests
<1>2. /\ phase \in link.hooks[p]
      /\ overrides' = [overrides EXCEPT ![p] = Append(@, <<t, name>>)]
      /\ asked' = [asked EXCEPT ![t] = Append(@, <<p, name>>)]
      /\ late' = (late \/ phase = "creating")
      /\ UNCHANGED <<link, phase, inputs, all, output, rule, ignored, entries, contents, dirty,
                     merged, movers>>
  BY DEF setOutputSection, moving
<1>3. t \in Sections
  BY <1>1 DEF AccountTypes
<1>4. /\ overrides'[p][op[2]] = <<t, name>> /\ asked'[t][i] = <<p, name>>
      /\ DOMAIN asked'[t] = DOMAIN asked[t] \cup {i}
      /\ i \in Nat /\ \A j \in DOMAIN asked[t] : j \in Nat /\ j < i
      /\ op[2] \in Nat /\ \A k \in DOMAIN overrides[p] : k \in Nat /\ k < op[2]
      /\ \A j \in DOMAIN asked[t] : asked'[t][j] = asked[t][j]
      /\ \A k \in DOMAIN overrides[p] : overrides'[p][k] = overrides[p][k]
      /\ DOMAIN overrides'[p] = DOMAIN overrides[p] \cup {op[2]}
      /\ \A q \in Plugins \ {p} : overrides'[q] = overrides[q]
  <2>1. TypeInv /\ Recording(p, t, name)
    BY <1>1, <1>2 DEF Recording
  <2> QED BY <1>3, <2>1, RequestAppended
<1>5. /\ \A s \in Sections \ {t} : asked'[s] = asked[s] /\ Known(s)' = Known(s)
      /\ \A s \in Sections \ {t} : PendingFor(s)' = PendingFor(s)
      /\ Known(t)' = IF new THEN Known(t) \cup {i} ELSE Known(t)
      /\ PendingFor(t)' = IF new THEN PendingFor(t) \cup {op} ELSE PendingFor(t)
  <2>1. TypeInv /\ Recording(p, t, name)
    BY <1>1, <1>2 DEF Recording
  <2> QED BY <1>3, <2>1, RequestAppended
<1>6. phase \in Hooks
  BY <1>2, LinksAssumption DEF Inv, AccountsInv, AccountTypes
<1>7. asked'[t] # <<>>
  <2>1. i \in DOMAIN asked'[t]
    BY <1>4
  <2>2. DOMAIN << >> = {}
    OBVIOUS
  <2> QED BY <2>1, <2>2
<1> HIDE DEF i, new
<1>8. Arrived' /\ Gathered'
  <2>1. Arrived'
    BY <1>1, <1>2, <1>5 DEF Arrived
  <2>2. Gathered'
    BY <1>1, <1>2 DEF Gathered, Unhurried
  <2> QED BY <2>1, <2>2
<1>9. Recorded'
  <2> SUFFICES ASSUME NEW q \in Plugins, NEW k \in DOMAIN overrides'[q]
               PROVE  \E j \in DOMAIN asked'[overrides'[q][k][1]] :
                        asked'[overrides'[q][k][1]][j] = <<q, overrides'[q][k][2]>>
    BY DEF Recorded
  <2>1. CASE q = p /\ k = op[2]
    <3>1. overrides'[q][k] = <<t, name>> /\ asked'[t][i] = <<p, name>> /\ i \in DOMAIN asked'[t]
      BY <1>4, <2>1
    <3>2. overrides'[q][k][1] = t /\ overrides'[q][k][2] = name
      BY <3>1
    <3> QED BY <2>1, <3>1, <3>2
  <2>2. CASE ~(q = p /\ k = op[2])
    <3>1. k \in DOMAIN overrides[q] /\ overrides'[q][k] = overrides[q][k]
      BY <1>4, <2>2
    <3>2. PICK j \in DOMAIN asked[overrides[q][k][1]] :
            asked[overrides[q][k][1]][j] = <<q, overrides[q][k][2]>>
      BY <1>1, <3>1 DEF Recorded
    <3>3. overrides[q][k][1] \in Sections
      <4>1. overrides[q] \in Seq(Sections \X Targets)
        BY <1>1 DEF TypeInv, OthersTyped
      <4>2. overrides[q][k] \in Sections \X Targets
        BY <3>1, <4>1
      <4> QED BY <4>2
    <3>4. /\ j \in DOMAIN asked'[overrides[q][k][1]]
          /\ asked'[overrides[q][k][1]][j] = asked[overrides[q][k][1]][j]
      <4>1. CASE overrides[q][k][1] = t
        BY <1>4, <3>2, <4>1
      <4>2. CASE overrides[q][k][1] # t
        BY <1>5, <3>2, <3>3, <4>2
      <4> QED BY <4>1, <4>2
    <3> QED BY <3>1, <3>2, <3>4
  <2> QED BY <2>1, <2>2
<1>10. NoneLeft'
  <2>1. Merged' => late'
    BY <1>2, <1>6 DEF Merged, Hooks
  <2> QED BY <2>1 DEF NoneLeft
<1>11. Single'
  <2> SUFFICES ASSUME NEW s \in Sections, NEW j \in DOMAIN asked'[s], Known(s)' = {j},
                      NEW op1 \in PendingFor(s)', NEW op2 \in PendingFor(s)'
               PROVE  op1 = op2
    BY DEF Single
  <2>1. Known(s) # {j} => s = t /\ new
    BY <1>5
  <2>2. CASE s = t /\ new
    <3>1. \A l \in Known(t) : l \in DOMAIN asked[t]
      BY DEF Known
    <3>2. i \notin Known(t)
      BY <1>4, <3>1
    <3>3. Known(t) = {}
      BY <1>5, <2>2, <3>2
    <3>4. PendingFor(t) = {}
      BY <1>1, <3>3, AskedFor
    <3> QED BY <1>5, <2>2, <3>4
  <2>3. CASE ~(s = t /\ new)
    <3>1. PendingFor(s)' = PendingFor(s) /\ Known(s) = {j}
      BY <1>5, <2>1, <2>3
    <3>2. j \in DOMAIN asked[s]
      BY <3>1 DEF Known
    <3> QED BY <1>1, <3>1, <3>2 DEF Single
  <2> QED BY <2>2, <2>3
<1>12. Follows'
  <2> SUFFICES ASSUME NEW s \in inputs, asked'[s] = <<>> PROVE ByScript(s)'
    BY <1>2 DEF Follows
  <2>1. s \in Sections /\ s # t
    BY <1>1, <1>7 DEF AccountTypes
  <2>2. ByScript(s)
    BY <1>1, <1>5, <2>1 DEF Follows
  <2> QED BY <1>2, <2>2, ByScriptKept
<1>13. Prevail'
  <2> SUFFICES ASSUME NEW s \in inputs, NEW last \in DOMAIN asked'[s], Clear(s, last)'
               PROVE  WaitsFor(s, last)'
    BY <1>2 DEF Prevail
  <2>1. s \in Sections
    BY <1>1 DEF AccountTypes
  <2>2. Pending(Plugins) = {o \in Pending(Plugins) : o[1] \in Plugins /\ o[2] \in DOMAIN overrides[o[1]]}
    BY DEF Pending
  <2>3. \A o \in PendingFor(s) : overrides'[o[1]][o[2]] = overrides[o[1]][o[2]]
    <3>1. \A o \in PendingFor(s) : o[1] \in Plugins /\ o[2] \in DOMAIN overrides[o[1]]
      BY <2>2 DEF PendingFor
    <3> QED BY <1>4, <3>1
  <2>4. /\ last \in Known(s)'
        /\ \A j \in Known(s)' : j <= last /\ asked'[s][j][1] = asked'[s][last][1]
        /\ link.threads => Known(s)' = {last}
    BY <1>2 DEF Clear
  <2>5. CASE s = t /\ new
    <3>1. Known(s)' = Known(s) \cup {i} /\ PendingFor(s)' = PendingFor(s) \cup {op}
      BY <1>5, <2>5
    <3>2. \A j \in Known(s) : j \in DOMAIN asked[t]
      BY <2>5 DEF Known
    <3>3. last = i
      <4>1. i <= last
        BY <2>4, <3>1
      <4>2. \A j \in Known(s) : j \in Nat /\ j < i
        BY <1>4, <3>2
      <4>3. last \in Known(s) \cup {i}
        BY <2>4, <3>1
      <4> QED BY <1>4, <4>1, <4>2, <4>3
    <3>4. \A o \in PendingFor(s) : o[1] = p
      <4> SUFFICES ASSUME NEW o \in PendingFor(s) PROVE o[1] = p
        OBVIOUS
      <4>1. PICK j \in Known(s) : asked[s][j] = <<o[1], overrides[o[1]][o[2]][2]>>
        BY <1>1, AskedFor
      <4>2. asked'[s][j][1] = asked'[s][i][1]
        BY <2>4, <3>1, <3>3
      <4> QED BY <1>4, <2>5, <3>2, <4>1, <4>2
    <3>5. \A o \in PendingFor(s) : o[2] \in Nat /\ o[2] < op[2]
      <4>1. \A o \in PendingFor(s) : o[2] \in DOMAIN overrides[p]
        BY <2>2, <3>4 DEF PendingFor
      <4> QED BY <1>4, <4>1
    <3>6. ASSUME NEW o, LastOfPlugin(s, o)' PROVE o = op
      <4>1. o \in PendingFor(s) \cup {op} /\ (op[1] = o[1] => op[2] <= o[2])
        BY <3>1, <3>6 DEF LastOfPlugin
      <4> HIDE DEF op
      <4>2. CASE o \in PendingFor(s)
        <5>1. op[1] = p
          BY DEF op
        <5>2. op[2] <= o[2] /\ o[2] \in Nat /\ o[2] < op[2]
          BY <3>4, <3>5, <4>1, <4>2, <5>1
        <5> QED BY <1>4, <5>2
      <4> QED BY <4>1, <4>2
    <3>7. overrides'[op[1]][op[2]][2] = asked'[s][last][2]
      BY <1>4, <2>5, <3>3
    <3> HIDE DEF op
    <3>8. PendingFor(s)' # {}
      BY <3>1
    <3> QED BY <3>6, <3>7, <3>8 DEF WaitsFor
  <2>6. CASE ~(s = t /\ new)
    <3>1. Known(s)' = Known(s) /\ PendingFor(s)' = PendingFor(s)
      BY <1>5, <2>1, <2>6
    <3>2. \A j \in DOMAIN asked[s] : asked'[s][j] = asked[s][j]
      BY <1>4, <1>5, <2>1
    <3>3. last \in DOMAIN asked[s] /\ \A j \in Known(s) : j \in DOMAIN asked[s]
      BY <2>4, <3>1 DEF Known
    <3>4. Clear(s, last)
      BY <2>4, <3>1, <3>2, <3>3 DEF Clear
    <3>5. WaitsFor(s, last)
      BY <1>1, <3>3, <3>4 DEF Prevail
    <3>6. \A o : LastOfPlugin(s, o)' => LastOfPlugin(s, o) /\ o \in PendingFor(s)
      BY <3>1 DEF LastOfPlugin
    <3>7. asked'[s][last] = asked[s][last] /\ (~late' => ~late)
      BY <1>2, <3>2, <3>3
    <3> QED BY <1>2, <2>3, <3>1, <3>5, <3>6, <3>7 DEF WaitsFor
  <2> QED BY <2>5, <2>6
<1>14. Lying'
  <2> SUFFICES ASSUME Merged', NEW s \in Sections
               PROVE  /\ Undisturbed(s)' =>
                          /\ s \in merged' => rule'[s] \in Slots'
                          /\ \A q \in Slots' : s \in ToSet(contents'[q])
                                                 <=> s \in merged' /\ q = rule'[s]
                      /\ Clean(s)' => (s \in merged' <=> s \in all' /\ Mergeable(s)')
    BY DEF Lying
  <2>1. Merged /\ late'
    BY <1>2, <1>6 DEF Merged, Hooks
  <2>2. Undisturbed(s)' \/ Clean(s)' => movers[s] = {} /\ asked'[s] = <<>>
    BY <1>2, <2>1 DEF Undisturbed, Clean
  <2>3. asked'[s] = <<>> => asked[s] = <<>>
    BY <1>5, <1>7
  <2>4. Undisturbed(s)' \/ Clean(s)' => Undisturbed(s) /\ Clean(s)
    BY <2>2, <2>3 DEF Undisturbed, Clean
  <2>5. Slots' = Slots /\ (Mergeable(s)' <=> Mergeable(s))
    BY <1>2, SlotsFixed DEF Mergeable, Discards
  <2> QED BY <1>1, <1>2, <2>1, <2>4, <2>5 DEF Lying
<1>15. Ordered'
  <2>1. Slots' = Slots /\ Merged' = Merged
    BY <1>2, SlotsFixed DEF Merged
  <2>2. link \in Links
    BY <1>1 DEF AccountTypes
  <2> QED BY <1>1, <1>2, <2>1, <2>2, OrderFixed DEF Ordered
<1> QED BY <1>8, <1>9, <1>10, <1>11, <1>12, <1>13, <1>14, <1>15 DEF ScriptInv, Requests

\* Requests that are carried out prevail, the others wait on.
LEMMA PrevailDone ==
  ASSUME TypeInv, Recorded, Single, Prevail, NEW who \in SUBSET Plugins, NEW rank,
         \A q \in Plugins : rank[q] \in Int,
         reAssignOutputSections(who, rank), overrides' = Dropped(who),
         inputs \subseteq Sections, UNCHANGED <<link, inputs, asked, late, movers>>
  PROVE  Prevail'
<1> SUFFICES ASSUME NEW s \in inputs, NEW last \in DOMAIN asked[s], Clear(s, last)'
             PROVE  WaitsFor(s, last)'
  BY DEF Prevail
<1> DEFINE o == findIter(link.script, asked[s][last][2])
           by == asked[s][last][1]
<1>1. s \in Sections
  OBVIOUS
<1>2. Clear(s, last)
  BY DEF Clear, Known
<1>3. WaitsFor(s, last)
  BY <1>2 DEF Prevail
<1>4. /\ PendingFor(s) = {} => output'[s] = output[s] /\ rule'[s] = rule[s]
      /\ PendingFor(s) # {} =>
           IF by \in who THEN output'[s] = o /\ rule'[s] = findOnlyIn(link.script, o, s)
           ELSE output'[s] = output[s] /\ rule'[s] = rule[s]
  BY <1>1, <1>2, <1>3, OverridesDone
<1>5. /\ \A op : op \in PendingFor(s)' <=> op \in PendingFor(s) /\ op[1] \notin who
      /\ \A op \in PendingFor(s)' : overrides'[op[1]][op[2]] = overrides[op[1]][op[2]]
  BY OverridesDropped
<1>6. \A op \in PendingFor(s) : op[1] = by
  BY <1>2, ClearRequests
<1>7. CASE PendingFor(s) = {}
  <2>1. PendingFor(s)' = {}
    BY <1>5, <1>7
  <2>2. \A op : ~LastOfPlugin(s, op)'
    BY <2>1 DEF LastOfPlugin
  <2> QED BY <1>3, <1>4, <1>7, <2>1, <2>2 DEF WaitsFor
<1>8. CASE PendingFor(s) # {} /\ by \in who
  <2>1. PendingFor(s)' = {}
    BY <1>5, <1>6, <1>8
  <2>2. \A op : ~LastOfPlugin(s, op)'
    BY <2>1 DEF LastOfPlugin
  <2>3. output'[s] = o /\ rule'[s] = findOnlyIn(link.script, o, s)
    BY <1>4, <1>8
  <2> QED BY <2>1, <2>2, <2>3 DEF WaitsFor
<1>9. CASE PendingFor(s) # {} /\ by \notin who
  <2>1. \A op : op \in PendingFor(s)' <=> op \in PendingFor(s)
    BY <1>5, <1>6, <1>9
  <2>2. PendingFor(s)' # {}
    BY <1>9, <2>1
  <2>3. \A op : LastOfPlugin(s, op)' => LastOfPlugin(s, op) /\ op \in PendingFor(s)'
    BY <2>1 DEF LastOfPlugin
  <2>4. \A op : LastOfPlugin(s, op)' => overrides'[op[1]][op[2]][2] = asked'[s][last][2]
    BY <1>3, <1>5, <2>3 DEF WaitsFor
  <2> QED BY <2>2, <2>4 DEF WaitsFor
<1> QED BY <1>7, <1>8, <1>9

LEMMA LyingKept ==
  ASSUME Lying, UNCHANGED <<link, phase, contents, merged, movers, asked, late, ignored>>,
         NoneLeft, Recorded, Merged => all' = all,
         \A s \in Sections : PendingFor(s) = {} => output'[s] = output[s] /\ rule'[s] = rule[s]
  PROVE  Lying'
<1> SUFFICES ASSUME Merged', NEW s \in Sections
             PROVE  /\ Undisturbed(s)' =>
                        /\ s \in merged' => rule'[s] \in Slots'
                        /\ \A q \in Slots' : s \in ToSet(contents'[q])
                                               <=> s \in merged' /\ q = rule'[s]
                    /\ Clean(s)' => (s \in merged' <=> s \in all' /\ Mergeable(s)')
  BY DEF Lying
<1>1. Merged
  BY DEF Merged
<1>2. /\ Undisturbed(s)' <=> Undisturbed(s)
      /\ Clean(s)' <=> Clean(s)
  BY DEF Undisturbed, Clean, Clear, Known
<1>3. ASSUME Undisturbed(s) \/ Clean(s) PROVE PendingFor(s) = {}
  <2>1. asked[s] = <<>> \/ ~late
    BY <1>3 DEF Undisturbed, Clean
  <2>2. CASE asked[s] = <<>>
    BY <2>2, NothingWaits
  <2>3. CASE ~late
    <3>1. \A p \in Plugins : overrides[p] = <<>>
      BY <1>1, <2>3 DEF NoneLeft
    <3>2. DOMAIN << >> = {}
      OBVIOUS
    <3>3. \A op \in PendingFor(s) : op[1] \in Plugins /\ op[2] \in DOMAIN overrides[op[1]]
      BY DEF PendingFor, Pending
    <3> QED BY <3>1, <3>2, <3>3
  <2> QED BY <2>1, <2>2, <2>3
<1>4. Undisturbed(s) \/ Clean(s) =>
        rule'[s] = rule[s] /\ (Mergeable(s)' <=> Mergeable(s))
  BY <1>3 DEF Mergeable, Discards
<1>5. Slots' = Slots
  BY SlotsFixed
<1> QED BY <1>1, <1>2, <1>4, <1>5 DEF Lying

LEMMA OrderedKept ==
  ASSUME Ordered, link \in Links, link' = link, Merged' => Merged,
         dirty \subseteq dirty', \A p \in Slots \ dirty' : contents'[p] \in {contents[p], <<>>}
  PROVE  Ordered'
<1>1. Slots' = Slots
  BY SlotsFixed
<1>2. \A p \in Slots \ dirty' : \A i \in DOMAIN contents'[p] : contents'[p] = contents[p]
  <2>1. DOMAIN << >> = {}
    OBVIOUS
  <2> QED BY <2>1
<1> QED BY <1>1, <1>2, OrderFixed DEF Ordered

LEMMA FinishScript ==
  ASSUME Inv, NEW p \in Plugins, finishAssignOutputSections(p)
  PROVE  ScriptInv'
<1> DEFINE rank == [q \in Plugins |-> 0]
<1>1. /\ TypeInv /\ AccountTypes /\ Arrived /\ Gathered /\ Recorded /\ NoneLeft /\ Single
      /\ Follows /\ Prevail /\ Lying /\ Ordered
  BY DEF Inv, AccountsInv, ScriptInv, Requests
<1>2. /\ phase \in link.hooks[p] /\ reAssignOutputSections({p}, rank)
      /\ overrides' = [overrides EXCEPT ![p] = <<>>]
      /\ all' = IF all = {} THEN inputs ELSE all
      /\ UNCHANGED <<link, phase, inputs, ignored, entries, asked, late, contents, dirty, merged,
                     movers>>
  BY DEF finishAssignOutputSections, clearSectionOverrides, initializeMerge, moving
<1>3. overrides' = Dropped({p})
  <2>1. overrides = [q \in Plugins |-> overrides[q]]
    BY <1>1 DEF TypeInv, OthersTyped
  <2> QED BY <1>2, <2>1 DEF Dropped
<1>4. inputs \subseteq Sections /\ link \in Links /\ {p} \in SUBSET Plugins
      /\ \A q \in Plugins : rank[q] \in Int
  BY <1>1 DEF AccountTypes
<1> HIDE DEF rank
<1>5. \A s \in Sections : PendingFor(s) = {} => output'[s] = output[s] /\ rule'[s] = rule[s]
  BY <1>1, <1>2, <1>4, OverridesDone
<1>6. phase \notin Early => all' = all
  BY <1>1, <1>2 DEF Gathered
<1>7. Merged => phase \notin Early
  BY DEF Merged, Early, Waiting
<1>8. Arrived'
  BY <1>1, <1>2, <1>5, NothingWaits DEF Arrived
<1>9. Gathered'
  <2>1. Unhurried => phase \notin Early
    BY <1>2 DEF Unhurried, Early, Waiting
  <2>2. Unhurried' <=> Unhurried
    BY <1>2 DEF Unhurried
  <2> QED BY <1>1, <1>2, <2>1, <2>2 DEF Gathered
<1>10. Recorded' /\ Single'
  BY <1>1, <1>2, <1>3, <1>4, RequestsDropped
<1>11. NoneLeft'
  <2>1. Merged' /\ ~late' => Merged /\ ~late
    BY <1>2 DEF Merged
  <2> QED BY <1>1, <1>3, <2>1 DEF NoneLeft, Dropped
<1>12. Follows'
  <2> SUFFICES ASSUME NEW s \in inputs, asked[s] = <<>> PROVE ByScript(s)'
    BY <1>2 DEF Follows
  <2>1. ByScript(s) /\ output'[s] = output[s] /\ rule'[s] = rule[s]
    BY <1>1, <1>4, <1>5, NothingWaits DEF Follows
  <2> QED BY <1>2, <1>6, <1>7, <2>1, ByScriptKept
<1>13. Prevail'
  BY <1>1, <1>2, <1>3, <1>4, PrevailDone
<1>14. Lying'
  BY <1>1, <1>2, <1>5, <1>6, <1>7, LyingKept
<1>15. Ordered'
  <2>1. Merged' => Merged
    BY <1>2 DEF Merged
  <2> QED BY <1>1, <1>2, <1>4, <2>1, OrderedKept
<1> QED BY <1>8, <1>9, <1>10, <1>11, <1>12, <1>13, <1>14, <1>15 DEF ScriptInv, Requests

------------------------------------------------------------------------------
\* The link goes on.

LEMMA BeforeMerging ==
  ASSUME ~Merged', Arrived', Gathered', Recorded', Single', Follows', Prevail' PROVE ScriptInv'
BY DEF ScriptInv, Requests, NoneLeft, Lying, Ordered

LEMMA RequestsKept ==
  ASSUME UNCHANGED <<link, overrides, asked>>, Recorded, Single PROVE Recorded' /\ Single'
BY RequestsFixed DEF Recorded, Single

\* A section that has been sent to an output is not matched any more.
LEMMA PrevailKept ==
  ASSUME UNCHANGED <<link, overrides, asked, late>>, Prevail, inputs \subseteq inputs',
         \A s \in inputs' \ inputs : asked[s] = <<>>,
         \A s \in inputs : movers'[s] = {} => movers[s] = {},
         \A s \in inputs : movers'[s] = {} /\ ~late /\ PendingFor(s) = {} /\ output[s] # 0 =>
           output'[s] = output[s] /\ rule'[s] = rule[s]
  PROVE  Prevail'
<1> SUFFICES ASSUME NEW s \in inputs', NEW last \in DOMAIN asked[s], Clear(s, last)'
             PROVE  WaitsFor(s, last)'
  BY DEF Prevail
<1>1. s \in inputs
  <2>1. DOMAIN << >> = {}
    OBVIOUS
  <2> QED BY <2>1
<1>2. Clear(s, last)
  BY RequestsFixed
<1>3. WaitsFor(s, last)
  BY <1>1, <1>2 DEF Prevail
<1>4. findIter(link.script, asked[s][last][2]) # 0
  BY <1>2 DEF Clear, Known
<1>5. movers'[s] = {} /\ PendingFor(s) = {} /\ ~late => output[s] # 0
  BY <1>1, <1>3, <1>4 DEF WaitsFor
<1> QED BY <1>1, <1>3, <1>5, WaitsKept

\* After the matching a section is where the script has it.
LEMMA MatchedAsScript ==
  ASSUME TypeInv, link' = link, assignOutputSections, NEW s \in inputs, s \in Sections,
         Untouched(s) \/ (AsMatched(s) /\ (s \in ignored <=> DiscardedOnTheWay(s)))
  PROVE  (AsMatched(s) /\ (s \in ignored <=> DiscardedOnTheWay(s)))'
<1> DEFINE sects == {t \in inputs \ ignored : output[t] = 0}
<1>1. link \in Links /\ (output[s] = 0 <=> rule[s] = Unplaced)
  BY DEF TypeInv, OthersTyped, PlacesTyped
<1>2. /\ IF s \in sects /\ Accepting(s) # {}
         THEN rule'[s] = Closest(s) /\ output'[s] = Closest(s)[1]
         ELSE rule'[s] = rule[s] /\ output'[s] = output[s]
      /\ ignored' = ignored \cup {t \in sects : DiscardedOnTheWay(t)}
      /\ entries' = entries \cup
           {t \in inputs : rule'[t] # Unplaced /\ RuleAt(link.script, rule'[t]).keep}
  BY <1>1, MatchingFollows
<1>3. Accepting(s) # {} => /\ Closest(s) \in Accepting(s) /\ Closest(s) # Unplaced
                           /\ Closest(s)[1] # 0
  <2>1. Accepting(s) # {} => Closest(s) \in Accepting(s)
    BY <1>1, ClosestAccepts
  <2>2. Accepting(s) \subseteq Slots
    BY PlacesAreSlots DEF Accepting
  <2> QED BY <1>1, <2>1, <2>2, SlotsArePlaces
<1>4. Accepting(s) = {} => ~DiscardedOnTheWay(s) /\ ~Keeps(s) /\ MatchOf(s) = Unplaced
  BY DEF DiscardedOnTheWay, Keeps, MatchOf
<1>5. Accepting(s) # {} => /\ MatchOf(s) = Closest(s)
                           /\ Keeps(s) <=> RuleAt(link.script, Closest(s)).keep
  BY DEF Keeps, MatchOf
<1>6. Unplaced[1] = 0
  BY DEF Unplaced
<1>7. rule'[s] = MatchOf(s) /\ output'[s] = MatchOf(s)[1]
  BY <1>1, <1>2, <1>3, <1>4, <1>5, <1>6 DEF Untouched, AsMatched
<1>8. s \in ignored' <=> DiscardedOnTheWay(s)
  BY <1>2, <1>3, <1>4, <1>5, <1>6 DEF Untouched, AsMatched
<1>9. s \in entries' <=> Keeps(s)
  <2>1. s \in entries' <=>
          s \in entries \/ (rule'[s] # Unplaced /\ RuleAt(link.script, rule'[s]).keep)
    BY <1>2
  <2>2. rule'[s] # Unplaced /\ RuleAt(link.script, rule'[s]).keep <=> Keeps(s)
    BY <1>3, <1>4, <1>5, <1>7
  <2> QED BY <2>1, <2>2 DEF Untouched, AsMatched
<1> QED BY <1>7, <1>8, <1>9, ScriptFixed DEF AsMatched

LEMMA MatchScript == ASSUME Inv, MatchForLTO \/ MatchRules PROVE ScriptInv'
<1>1. /\ TypeInv /\ AccountTypes /\ Arrived /\ Gathered /\ Recorded /\ Single
      /\ Follows /\ Prevail
  BY DEF Inv, AccountsInv, ScriptInv, Requests
<1>2. /\ \/ phase = "match for lto" /\ phase' = "before lto"
         \/ phase = "before matching" /\ phase' = "matcher"
      /\ assignOutputSections
      /\ UNCHANGED <<link, inputs, all, overrides, asked, late, movers>>
  BY DEF MatchForLTO, MatchRules, asking, moving
<1>3. inputs \subseteq Sections /\ link \in Links
  BY <1>1 DEF AccountTypes
<1>4. \A s \in Sections : s \notin inputs \/ output[s] # 0 =>
        output'[s] = output[s] /\ rule'[s] = rule[s]
  BY <1>2, <1>3, MatchingFollows
<1>5. Arrived'
  <2>1. ignored' \subseteq ignored \cup inputs /\ entries' \subseteq entries \cup inputs
    BY <1>2 DEF assignOutputSections
  <2> QED BY <1>1, <1>2, <1>4, <2>1 DEF Arrived, Early, Waiting
<1>6. Gathered'
  BY <1>1, <1>2 DEF Gathered, Unhurried, Early, Waiting
<1>7. Recorded' /\ Single'
  BY <1>1, <1>2, RequestsKept
<1>8. Follows'
  <2> SUFFICES ASSUME NEW s \in inputs, asked[s] = <<>> PROVE ByScript(s)'
    BY <1>2 DEF Follows
  <2>1. Untouched(s) \/ (AsMatched(s) /\ (s \in ignored <=> DiscardedOnTheWay(s)))
    BY <1>1, <1>2 DEF Follows, ByScript, Waiting
  <2>2. (AsMatched(s) /\ (s \in ignored <=> DiscardedOnTheWay(s)))'
    BY <1>1, <1>2, <1>3, <2>1, MatchedAsScript
  <2>3. phase' \in {"before lto", "matcher"}
    BY <1>2
  <2> QED BY <2>2, <2>3 DEF ByScript, Gathering, Merged
<1>9. Prevail'
  BY <1>1, <1>2, <1>3, <1>4, PrevailKept
<1>10. ~Merged'
  BY <1>2 DEF Merged
<1> QED BY <1>5, <1>6, <1>7, <1>8, <1>9, <1>10, BeforeMerging

\* Sections that come are untouched.
LEMMA ArrivalScript ==
  ASSUME Inv, createLTOObject \/ resolve \/ scanRelocations PROVE ScriptInv'
<1>1. /\ TypeInv /\ AccountTypes /\ Arrived /\ Gathered /\ Recorded /\ Single
      /\ Follows /\ Prevail
  BY DEF Inv, AccountsInv, ScriptInv, Requests
<1>2. /\ \/ phase = "before lto" /\ phase' = "resolve" /\ inputs' = inputs \cup Arriving("lto")
         \/ phase = "resolve" /\ phase' = "before matching"
            /\ inputs' = inputs \cup Arriving("common")
         \/ phase = "scan" /\ phase' = "merge" /\ inputs' = inputs \cup Arriving("copy")
      /\ UNCHANGED <<link, all, output, rule, ignored, entries, overrides, asked, late, movers>>
  BY DEF createLTOObject, resolve, scanRelocations, asking, moving
<1>3. inputs \subseteq Sections /\ inputs' \subseteq Sections /\ link \in Links
  BY <1>1, <1>2 DEF AccountTypes, Arriving
<1>4. phase \in Early /\ phase' \in Early /\ phase # "merge"
  BY <1>2 DEF Early, Waiting
<1>5. \A s \in Sections \ inputs : Untouched(s) /\ asked[s] = <<>>
  BY <1>1, <1>4 DEF Arrived, Untouched
<1>6. \A s \in inputs : link.arrives[s] # "copy"
  BY <1>1, <1>3, <1>4 DEF Arrived
<1>7. Arrived'
  BY <1>1, <1>2, <1>4, <1>5, <1>6 DEF Arrived, Arriving, Untouched
<1>8. Gathered'
  BY <1>1, <1>2, <1>4 DEF Gathered, Unhurried
<1>9. Recorded' /\ Single'
  BY <1>1, <1>2, RequestsKept
<1>10. Follows'
  <2> SUFFICES ASSUME NEW s \in inputs', asked[s] = <<>> PROVE ByScript(s)'
    BY <1>2 DEF Follows
  <2>1. /\ Untouched(s)' <=> Untouched(s)
        /\ AsMatched(s)' <=> AsMatched(s)
        /\ DiscardedOnTheWay(s)' <=> DiscardedOnTheWay(s)
        /\ Ignored(s)' <=> Ignored(s)
    BY <1>2, ScriptFixed DEF Untouched, AsMatched
  <2>2. s \in ignored' <=> s \in ignored
    BY <1>2
  <2>3. s \in inputs => ByScript(s)
    BY <1>1 DEF Follows
  <2>4. CASE phase' \in Waiting
    <3>1. phase \in Waiting /\ phase' \notin {"matcher", "iterator", "scan", "merge"} \cup Gathering
          /\ ~Merged'
      BY <1>2, <2>4 DEF Waiting, Gathering, Merged
    <3>2. Untouched(s) \/ (AsMatched(s) /\ (s \in ignored <=> DiscardedOnTheWay(s)))
      BY <1>3, <1>5, <2>3, <3>1 DEF ByScript
    <3> QED BY <2>1, <2>2, <3>1, <3>2 DEF ByScript
  <2>5. CASE phase' = "merge"
    <3>1. phase = "scan" /\ phase' \notin {"matcher", "iterator", "scan"} \cup Gathering \cup Waiting
          /\ ~Merged' /\ inputs' = inputs \cup Arriving("copy")
      BY <1>2, <2>5 DEF Waiting, Gathering, Merged
    <3>2. CASE s \in inputs
      <4>1. link.arrives[s] # "copy" /\ AsMatched(s) /\ (s \in ignored <=> Ignored(s))
        BY <1>6, <2>3, <3>1, <3>2 DEF ByScript
      <4> QED BY <1>2, <2>1, <2>2, <3>1, <4>1 DEF ByScript
    <3>3. CASE s \notin inputs
      <4>1. link.arrives[s] = "copy" /\ Untouched(s)
        BY <1>3, <1>5, <3>1, <3>3 DEF Arriving
      <4> QED BY <1>2, <2>1, <3>1, <4>1 DEF ByScript
    <3> QED BY <3>2, <3>3
  <2> QED BY <1>2, <2>4, <2>5 DEF Waiting
<1>11. Prevail'
  BY <1>1, <1>2, <1>3, <1>5, PrevailKept
<1>12. ~Merged'
  BY <1>2 DEF Merged
<1> QED BY <1>7, <1>8, <1>9, <1>10, <1>11, <1>12, BeforeMerging

LEMMA StripScript == ASSUME Inv, dataStrippingOpt PROVE ScriptInv'
<1>1. /\ TypeInv /\ AccountTypes /\ Arrived /\ Gathered /\ Recorded /\ Single
      /\ Follows /\ Prevail
  BY DEF Inv, AccountsInv, ScriptInv, Requests
<1>2. /\ phase = "matcher" /\ phase' = "iterator"
      /\ ignored' = ignored \cup ((inputs \cap link.unreferenced) \ entries)
      /\ UNCHANGED <<link, inputs, all, output, rule, entries, overrides, asked, late, movers>>
  BY DEF dataStrippingOpt, asking, moving
<1>3. inputs \subseteq Sections
  BY <1>1 DEF AccountTypes
<1>4. phase \in Early /\ phase' \in Early /\ phase # "merge"
  BY <1>2 DEF Early
<1>5. Arrived'
  BY <1>1, <1>2, <1>4 DEF Arrived
<1>6. Gathered'
  BY <1>1, <1>2, <1>4 DEF Gathered, Unhurried
<1>7. Recorded' /\ Single'
  BY <1>1, <1>2, RequestsKept
<1>8. Follows'
  <2> SUFFICES ASSUME NEW s \in inputs, asked[s] = <<>> PROVE ByScript(s)'
    BY <1>2 DEF Follows
  <2>1. AsMatched(s) /\ (s \in ignored <=> DiscardedOnTheWay(s))
    BY <1>1, <1>2 DEF Follows, ByScript
  <2>2. link.arrives[s] # "copy"
    BY <1>1, <1>3, <1>4 DEF Arrived
  <2>3. s \in ignored' <=> Ignored(s)
    BY <1>2, <2>1, <2>2 DEF Ignored, Collected, AsMatched, Keeps
  <2>4. AsMatched(s)' /\ (Ignored(s)' <=> Ignored(s))
    BY <1>2, <2>1, ScriptFixed DEF AsMatched
  <2> QED BY <1>2, <2>3, <2>4 DEF ByScript, Waiting, Gathering, Merged
<1>9. Prevail'
  BY <1>1, <1>2, PrevailKept
<1>10. ~Merged'
  BY <1>2 DEF Merged
<1> QED BY <1>5, <1>6, <1>7, <1>8, <1>9, <1>10, BeforeMerging

LEMMA IterateScript == ASSUME Inv, runSectionIteratorPlugin PROVE ScriptInv'
<1>1. /\ TypeInv /\ AccountTypes /\ Arrived /\ Gathered /\ Recorded /\ Single
      /\ Follows /\ Prevail
  BY DEF Inv, AccountsInv, ScriptInv, Requests
<1>2. /\ phase = "iterator" /\ phase' = "scan"
      /\ \E rank \in Injection(Plugins, 1..Cardinality(Plugins)) :
           reAssignOutputSections(Plugins, rank)
      /\ overrides' = [p \in Plugins |-> <<>>]
      /\ UNCHANGED <<link, inputs, all, ignored, entries, asked, late, movers>>
  BY DEF runSectionIteratorPlugin, moving
<1>3. PICK rank \in Injection(Plugins, 1..Cardinality(Plugins)) :
        reAssignOutputSections(Plugins, rank)
  BY <1>2
<1>4. \A q \in Plugins : rank[q] \in Int
  BY DEF Injection, IsInjective
<1>5. overrides' = Dropped(Plugins)
  BY <1>2 DEF Dropped
<1>6. inputs \subseteq Sections
  BY <1>1 DEF AccountTypes
<1>7. \A s \in Sections : PendingFor(s) = {} => output'[s] = output[s] /\ rule'[s] = rule[s]
  BY <1>1, <1>3, <1>4, OverridesDone
<1>8. phase \in Early /\ phase' \in Early /\ phase # "merge"
  BY <1>2 DEF Early
<1>9. Arrived'
  BY <1>1, <1>2, <1>7, <1>8, NothingWaits DEF Arrived
<1>10. Gathered'
  BY <1>1, <1>2, <1>8 DEF Gathered, Unhurried
<1>11. Recorded' /\ Single'
  BY <1>1, <1>2, <1>5, RequestsDropped
<1>12. Follows'
  <2> SUFFICES ASSUME NEW s \in inputs, asked[s] = <<>> PROVE ByScript(s)'
    BY <1>2 DEF Follows
  <2>1. AsMatched(s) /\ (s \in ignored <=> Ignored(s))
    BY <1>1, <1>2 DEF Follows, ByScript
  <2>2. output'[s] = output[s] /\ rule'[s] = rule[s]
    BY <1>1, <1>6, <1>7, NothingWaits
  <2>3. AsMatched(s)' /\ (s \in ignored' <=> Ignored(s)')
    BY <1>2, <2>1, <2>2, ScriptFixed DEF AsMatched
  <2> QED BY <1>2, <2>3 DEF ByScript, Waiting, Gathering, Merged
<1>13. Prevail'
  BY <1>1, <1>2, <1>3, <1>4, <1>5, <1>6, PrevailDone
<1>14. ~Merged'
  BY <1>2 DEF Merged
<1> QED BY <1>9, <1>10, <1>11, <1>12, <1>13, <1>14, BeforeMerging

\* Commons and copies without a rule fall to .bss.
LEMMA BeginScript == ASSUME Inv, beginMergeSections PROVE ScriptInv'
<1> DEFINE fall == {s \in inputs : link.arrives[s] \in {"common", "copy"} /\ output[s] = 0}
<1>1. /\ TypeInv /\ AccountTypes /\ Arrived /\ Gathered /\ Recorded /\ Single
      /\ Follows /\ Prevail
  BY DEF Inv, AccountsInv, ScriptInv, Requests
<1>2. /\ phase = "merge" /\ phase' = "before merging"
      /\ all' = IF all = {} THEN inputs ELSE all
      /\ output' = [s \in Sections |-> IF s \in fall THEN FallbackBSS[1] ELSE output[s]]
      /\ rule' = [s \in Sections |-> IF s \in fall THEN FallbackBSS ELSE rule[s]]
      /\ UNCHANGED <<link, inputs, ignored, entries, overrides, asked, late, movers>>
  BY DEF beginMergeSections, initializeMerge, asking, moving
<1>3. inputs \subseteq Sections /\ link \in Links
  BY <1>1 DEF AccountTypes
<1>4. phase \in Early /\ phase' \notin Early
  BY <1>2 DEF Early, Waiting
<1>5. Arrived'
  BY <1>4 DEF Arrived
<1>6. Gathered'
  BY <1>1, <1>2, <1>4 DEF Gathered, Unhurried
<1>7. Recorded' /\ Single'
  BY <1>1, <1>2, RequestsKept
<1>8. Follows'
  <2> SUFFICES ASSUME NEW s \in inputs, asked[s] = <<>> PROVE ByScript(s)'
    BY <1>2 DEF Follows
  <2>1. IF link.arrives[s] = "copy" THEN Untouched(s)
        ELSE AsMatched(s) /\ (s \in ignored <=> Ignored(s))
    BY <1>1, <1>2 DEF Follows, ByScript
  <2>2. /\ link.arrives[s] \in Arrivals /\ FallbackBSS[1] # 0
        /\ output[s] = 0 <=> rule[s] = Unplaced
    BY <1>1, <1>3, FallbackPlace, LinksAssumption DEF TypeInv, PlacesTyped
  <2>3. Accepting(s) # {} => Closest(s)[1] # 0
    <3>1. Accepting(s) # {} => Closest(s) \in Slots
      BY <1>3, ClosestAccepts, PlacesAreSlots DEF Accepting
    <3> QED BY <1>3, <3>1, SlotsArePlaces
  <2>4. /\ Accepting(s) = {} => MatchOf(s)[1] = 0
        /\ Accepting(s) # {} => MatchOf(s) = Closest(s)
    BY DEF MatchOf, Unplaced
  <2>5. s \in ignored <=> Ignored(s)
    BY <2>1 DEF Untouched, Ignored, Collected
  <2>6. /\ s \in Sections
        /\ output'[s] = IF s \in fall THEN FallbackBSS[1] ELSE output[s]
        /\ rule'[s] = IF s \in fall THEN FallbackBSS ELSE rule[s]
    BY <1>2, <1>3
  <2>7. HomeOf(s)' = IF output'[s] = 0 THEN Orphanage(link.name[s]) ELSE rule'[s]
    <3>1. link' = link
      BY <1>2
    <3> QED BY <3>1 DEF HomeOf, Orphanage
  <2>8. /\ HomeOf(s)' = ScriptPlace(s)
        /\ output'[s] # 0 => output'[s] = ScriptPlace(s)[1]
    <3>1. CASE link.arrives[s] = "copy"
      BY <2>1, <2>2, <2>6, <2>7, <3>1 DEF Untouched, ScriptPlace
    <3>2. CASE link.arrives[s] # "copy" /\ Accepting(s) # {}
      <4>1. output[s] = Closest(s)[1] /\ rule[s] = Closest(s) /\ output[s] # 0
        BY <2>1, <2>3, <2>4, <3>2 DEF AsMatched
      <4>2. ScriptPlace(s) = Closest(s)
        BY <3>2 DEF ScriptPlace
      <4> QED BY <2>6, <2>7, <4>1, <4>2
    <3>3. CASE link.arrives[s] # "copy" /\ Accepting(s) = {}
      <4>1. output[s] = 0
        BY <2>1, <2>4, <3>3 DEF AsMatched
      <4>2. CASE link.arrives[s] = "common"
        <5>1. ScriptPlace(s) = FallbackBSS
          BY <3>3, <4>2 DEF ScriptPlace
        <5> QED BY <2>2, <2>6, <2>7, <4>1, <4>2, <5>1
      <4>3. CASE link.arrives[s] \in {"object", "lto"}
        <5>1. ScriptPlace(s) = Orphanage(link.name[s])
          BY <3>3, <4>3 DEF ScriptPlace
        <5> QED BY <2>6, <2>7, <4>1, <4>3, <5>1
      <4> QED BY <2>2, <3>3, <4>2, <4>3 DEF Arrivals
    <3> QED BY <3>1, <3>2, <3>3
  <2>9. ScriptPlace(s)' = ScriptPlace(s) /\ (Ignored(s)' <=> Ignored(s))
    BY <1>2, ScriptFixed
  <2> QED BY <1>2, <2>5, <2>8, <2>9 DEF ByScript, Waiting, Merged
<1>9. Prevail'
  <2>1. \A s \in inputs : output[s] # 0 => output'[s] = output[s] /\ rule'[s] = rule[s]
    BY <1>2, <1>3
  <2> QED BY <1>1, <1>2, <2>1, PrevailKept
<1>10. ~Merged'
  BY <1>2 DEF Merged
<1> QED BY <1>5, <1>6, <1>7, <1>8, <1>9, <1>10, BeforeMerging

LEMMA LookScript == ASSUME Inv, runOutputSectionIteratorPlugin PROVE ScriptInv'
<1>1. /\ TypeInv /\ AccountTypes /\ Arrived /\ Gathered /\ Recorded /\ Single
      /\ Follows /\ Prevail
  BY DEF Inv, AccountsInv, ScriptInv, Requests
<1>2. /\ phase = "before merging" /\ phase' = "before layout"
      /\ UNCHANGED <<link, inputs, all, output, rule, ignored, entries, overrides, asked, late,
                     movers>>
  BY DEF runOutputSectionIteratorPlugin, asking, moving
<1>3. phase \notin Early /\ phase' \notin Early
  BY <1>2 DEF Early, Waiting
<1>4. Arrived' /\ Gathered'
  BY <1>1, <1>2, <1>3 DEF Arrived, Gathered, Unhurried
<1>5. Recorded' /\ Single'
  BY <1>1, <1>2, RequestsKept
<1>6. Follows'
  <2> SUFFICES ASSUME NEW s \in inputs, asked[s] = <<>> PROVE ByScript(s)'
    BY <1>2 DEF Follows
  <2>1. /\ HomeOf(s) = ScriptPlace(s)
        /\ output[s] # 0 => output[s] = ScriptPlace(s)[1]
        /\ s \in ignored <=> Ignored(s)
    BY <1>1, <1>2 DEF Follows, ByScript, Gathering
  <2>2. /\ HomeOf(s)' = HomeOf(s) /\ ScriptPlace(s)' = ScriptPlace(s)
        /\ Ignored(s)' <=> Ignored(s)
    BY <1>2, ScriptFixed DEF HomeOf, Orphanage
  <2> QED BY <1>2, <2>1, <2>2 DEF ByScript, Waiting, Merged
<1>7. Prevail'
  BY <1>1, <1>2, PrevailKept
<1>8. ~Merged'
  BY <1>2 DEF Merged
<1> QED BY <1>4, <1>5, <1>6, <1>7, <1>8, BeforeMerging

LEMMA HomeIsPlace ==
  ASSUME link \in Links, PlacesTyped, NEW s \in Sections PROVE HomeOf(s) \in Slots
<1>1. Orphanage(link.name[s]) \in Slots
  BY SlotsArePlaces
<1>2. output[s] # 0 => rule[s] \in Slots
  BY DEF PlacesTyped, Rules
<1> QED BY <1>1, <1>2 DEF HomeOf

\* A default output is not discarded.
LEMMA OrphansStay ==
  ASSUME link \in Links, NEW s \in Sections
  PROVE  ~Discards(0) /\ ~Discards(Orphanage(link.name[s])[1])
<1>1. DOMAIN link.script = 1..Len(link.script) /\ Len(link.script) \in Nat
  BY ScriptTypes
<1>2. link.name[s] \in Nat
  BY LinksAssumption
<1> QED BY <1>1, <1>2 DEF Discards, Orphanage

\* Every section is merged into its rule, and into no other.
LEMMA MergedHome ==
  ASSUME AccountTypes, PlacesTyped, link' = link, mergeInputSections
  PROVE  /\ merged' = {s \in all : Mergeable(s)}
         /\ \A q \in Slots : \A s : s \in ToSet(contents'[q]) <=> s \in merged' /\ HomeOf(s) = q
         /\ \A s \in merged' : rule'[s] = HomeOf(s) /\ rule'[s] \in Slots
         /\ \A s \in Sections :
              IF s \in merged' /\ output[s] = 0 THEN output'[s] = HomeOf(s)[1]
              ELSE output'[s] = output[s] /\ rule'[s] = rule[s]
<1> DEFINE sects   == {s \in all : Mergeable(s)}
           orphans == {s \in sects : output[s] = 0}
           Home(p) == {s \in sects : HomeOf(s) = p}
<1>1. /\ merged' = UNION {Home(p) : p \in Slots}
      /\ output' = [s \in Sections |-> IF s \in orphans THEN HomeOf(s)[1] ELSE output[s]]
      /\ rule' = [s \in Sections |-> IF s \in orphans THEN HomeOf(s) ELSE rule[s]]
  BY DEF mergeInputSections
<1>2. sects \subseteq Sections
  BY DEF AccountTypes
<1>3. ASSUME NEW q \in Slots, NEW s PROVE s \in ToSet(contents'[q]) <=> s \in Home(q)
  <2>1. OnceEach(contents'[q], Home(q))
    BY RulesMerged
  <2> HIDE DEF Home
  <2> QED BY <2>1 DEF OnceEach, ToSet
<1> HIDE DEF sects
<1>4. merged' = sects
  <2>1. \A s \in sects : HomeOf(s) \in Slots
    BY <1>2, HomeIsPlace DEF AccountTypes
  <2> QED BY <1>1, <2>1
<1>5. \A s \in sects : rule'[s] = HomeOf(s) /\ rule'[s] \in Slots
  <2> SUFFICES ASSUME NEW s \in sects PROVE rule'[s] = HomeOf(s) /\ rule'[s] \in Slots
    OBVIOUS
  <2>1. HomeOf(s) \in Slots
    BY <1>2, HomeIsPlace DEF AccountTypes
  <2>2. rule'[s] = IF output[s] = 0 THEN HomeOf(s) ELSE rule[s]
    BY <1>1, <1>2
  <2>3. output[s] # 0 => HomeOf(s) = rule[s]
    BY DEF HomeOf
  <2> QED BY <2>1, <2>2, <2>3
<1>6. \A s \in Sections :
        IF s \in sects /\ output[s] = 0 THEN output'[s] = HomeOf(s)[1]
        ELSE output'[s] = output[s] /\ rule'[s] = rule[s]
  BY <1>1
<1> QED BY <1>3, <1>4, <1>5, <1>6 DEF sects

LEMMA MergeScript == ASSUME Inv, mergeSections PROVE ScriptInv'
<1>1. /\ TypeInv /\ AccountTypes /\ Gathered /\ Recorded /\ Single /\ Follows /\ Prevail
      /\ PlacesTyped
  BY DEF Inv, AccountsInv, ScriptInv, Requests, TypeInv
<1>2. /\ phase = "before layout" /\ mergeInputSections
      /\ phase' = IF \A p \in Plugins : overrides[p] = <<>> THEN "creating" ELSE "failed"
      /\ UNCHANGED <<link, inputs, all, ignored, entries, overrides, asked, late, dirty, movers>>
  BY DEF mergeSections, verifyInvariantsForCreatingSectionsState, asking
<1>3. inputs \subseteq Sections /\ all \subseteq inputs /\ link \in Links
  BY <1>1 DEF AccountTypes, Gathered
<1>4. /\ merged' = {s \in all : Mergeable(s)}
      /\ \A q \in Slots : \A s : s \in ToSet(contents'[q]) <=> s \in merged' /\ HomeOf(s) = q
      /\ \A s \in merged' : rule'[s] = HomeOf(s) /\ rule'[s] \in Slots
      /\ \A s \in Sections :
           IF s \in merged' /\ output[s] = 0 THEN output'[s] = HomeOf(s)[1]
           ELSE output'[s] = output[s] /\ rule'[s] = rule[s]
  BY <1>1, <1>2, MergedHome
<1>5. phase \notin Early /\ phase' \notin Early
  BY <1>2 DEF Early, Waiting
<1>6. Arrived' /\ Gathered'
  BY <1>1, <1>2, <1>5 DEF Arrived, Gathered, Unhurried
<1>7. Recorded' /\ Single'
  BY <1>1, <1>2, RequestsKept
<1>8. NoneLeft'
  BY <1>2 DEF NoneLeft, Merged
<1>9. Follows'
  <2> SUFFICES ASSUME NEW s \in inputs, asked[s] = <<>> PROVE ByScript(s)'
    BY <1>2 DEF Follows
  <2>1. /\ HomeOf(s) = ScriptPlace(s)
        /\ output[s] # 0 => output[s] = ScriptPlace(s)[1]
        /\ s \in ignored <=> Ignored(s)
    BY <1>1, <1>2 DEF Follows, ByScript, Gathering
  <2>2. ASSUME s \in all, s \notin ignored
        PROVE  rule'[s] = ScriptPlace(s) /\ output'[s] = ScriptPlace(s)[1]
    <3>1. CASE output[s] = 0
      <4>1. s \in merged'
        BY <1>3, <1>4, <2>2, <3>1, OrphansStay DEF Mergeable
      <4> QED BY <1>3, <1>4, <2>1, <3>1, <4>1
    <3>2. CASE output[s] # 0
      <4>1. HomeOf(s) = rule[s]
        BY <3>2 DEF HomeOf
      <4> QED BY <1>3, <1>4, <2>1, <3>2, <4>1
    <3> QED BY <3>1, <3>2
  <2>3. ScriptPlace(s)' = ScriptPlace(s) /\ (Ignored(s)' <=> Ignored(s))
    BY <1>2, ScriptFixed
  <2>4. phase' \in {"creating", "failed"}
    BY <1>2
  <2> QED BY <1>2, <2>1, <2>2, <2>3, <2>4 DEF ByScript, Waiting, Gathering
<1>10. Prevail'
  <2>1. \A s \in inputs : output[s] # 0 => output'[s] = output[s] /\ rule'[s] = rule[s]
    BY <1>3, <1>4
  <2> QED BY <1>1, <1>2, <2>1, PrevailKept
<1>11. Lying'
  <2> SUFFICES ASSUME NEW s \in Sections
               PROVE  /\ s \in merged' => rule'[s] \in Slots'
                      /\ \A q \in Slots' : s \in ToSet(contents'[q])
                                             <=> s \in merged' /\ q = rule'[s]
                      /\ s \in merged' <=> s \in all' /\ Mergeable(s)'
    BY DEF Lying
  <2>1. Slots' = Slots
    BY <1>2, SlotsFixed
  <2>2. s \in merged' <=> s \in all /\ Mergeable(s)
    BY <1>4
  <2>3. Mergeable(s)' <=> s \notin ignored /\ ~Discards(output'[s])
    BY <1>2 DEF Mergeable, Discards
  <2>4. s \in all => (Mergeable(s)' <=> Mergeable(s))
    <3>1. CASE s \in merged' /\ output[s] = 0
      <4>1. output'[s] = Orphanage(link.name[s])[1]
        BY <1>4, <3>1 DEF HomeOf
      <4> QED BY <1>3, <2>2, <2>3, <3>1, <4>1, OrphansStay DEF Mergeable
    <3>2. CASE ~(s \in merged' /\ output[s] = 0)
      <4>1. output'[s] = output[s]
        BY <1>4, <3>2
      <4> QED BY <2>3, <4>1 DEF Mergeable
    <3> QED BY <3>1, <3>2
  <2> QED BY <1>2, <1>4, <2>1, <2>2, <2>4
<1>12. Ordered'
  <2>1. Slots' = Slots
    BY <1>2, SlotsFixed
  <2>2. \A p \in Slots : \A i, j \in DOMAIN contents'[p] :
          i < j => SortedPair(PolicyOf(p), contents'[p][i], contents'[p][j])
    BY <1>1, <1>2, RulesMerged
  <2> QED BY <1>2, <1>3, <2>1, <2>2, OrderFixed DEF Ordered
<1> QED BY <1>6, <1>7, <1>8, <1>9, <1>10, <1>11, <1>12 DEF ScriptInv, Requests

------------------------------------------------------------------------------
\* Chunks that are moved.

\* Only the chunks that are moved leave their rules, and only rules that are dirty or
\* empty change.
Leaves ==
  /\ \A t \in Sections : movers'[t] = {} =>
       /\ movers[t] = {} /\ output'[t] = output[t] /\ rule'[t] = rule[t]
       /\ \A q \in Slots : t \in ToSet(contents'[q]) <=> t \in ToSet(contents[q])
  /\ dirty \subseteq dirty'
  /\ \A q \in Slots \ dirty' : contents'[q] \in {contents[q], <<>>}

LEMMA AppendHolds ==
  ASSUME NEW T, NEW q \in Seq(T), NEW s, NEW t, t # s
  PROVE  t \in ToSet(Append(q, s)) <=> t \in ToSet(q)
<1>1. /\ DOMAIN Append(q, s) = 1..Len(q) + 1 /\ DOMAIN q = 1..Len(q) /\ Len(q) \in Nat
      /\ \A i \in 1..Len(q) : Append(q, s)[i] = q[i]
      /\ Append(q, s)[Len(q) + 1] = s
  OBVIOUS
<1>2. 1..Len(q) + 1 = (1..Len(q)) \cup {Len(q) + 1}
  BY <1>1
<1> QED BY <1>1, <1>2 DEF ToSet

LEMMA RemoveHolds ==
  ASSUME NEW T, NEW q \in Seq(T), NEW k \in DOMAIN q, NEW t, t # q[k]
  PROVE  t \in ToSet(RemoveAt(q, k)) <=> t \in ToSet(q)
<1> DEFINE d == RemoveAt(q, k)
<1>1. /\ d \in Seq(T) /\ Len(d) = Len(q) - 1
      /\ \A i \in DOMAIN d : d[i] = IF i < k THEN q[i] ELSE q[i + 1]
  BY RemoveAtShifts
<1> HIDE DEF d
<1>2. /\ DOMAIN d = 1..Len(q) - 1 /\ DOMAIN q = 1..Len(q) /\ Len(q) \in Nat /\ k \in 1..Len(q)
  BY <1>1
<1>3. ASSUME NEW i \in DOMAIN d PROVE \E j \in DOMAIN q : d[i] = q[j]
  <2>1. i \in DOMAIN q /\ i + 1 \in DOMAIN q
    BY <1>2
  <2> QED BY <1>1, <2>1
<1>4. ASSUME NEW j \in DOMAIN q, j # k PROVE \E i \in DOMAIN d : d[i] = q[j]
  <2>1. CASE j < k
    <3>1. j \in DOMAIN d
      BY <1>2, <2>1
    <3> QED BY <1>1, <2>1, <3>1
  <2>2. CASE j > k
    <3>1. j - 1 \in DOMAIN d /\ ~(j - 1 < k) /\ (j - 1) + 1 = j
      BY <1>2, <2>2
    <3> QED BY <1>1, <3>1
  <2>3. j < k \/ j > k
    BY <1>2, <1>4
  <2> QED BY <2>1, <2>2, <2>3
<1>5. (\E i \in DOMAIN d : d[i] = t) <=> (\E j \in DOMAIN q : q[j] = t)
  BY <1>3, <1>4
<1> QED BY <1>5 DEF ToSet, d

LEMMA AddLeaves ==
  ASSUME TypeInv, AccountTypes, NEW p \in Plugins, NEW r \in Slots, NEW s \in Sections,
         addChunkOp(p, r, s)
  PROVE  Leaves
<1>1. /\ output' = [output EXCEPT ![s] = r[1]] /\ rule' = [rule EXCEPT ![s] = r]
      /\ contents' = [contents EXCEPT ![r] = Append(@, s)]
      /\ dirty' = dirty \cup {r} /\ movers' = [movers EXCEPT ![s] = @ \cup {p}]
  BY DEF addChunkOp
<1>2. /\ output = [t \in Sections |-> output[t]] /\ rule = [t \in Sections |-> rule[t]]
      /\ contents \in [Slots -> Seq(Sections)] /\ movers \in [Sections -> SUBSET Plugins]
  BY DEF TypeInv, PlacesTyped, AccountTypes
<1>3. \A q \in Slots : contents'[q] = IF q = r THEN Append(contents[r], s) ELSE contents[q]
  BY <1>1, <1>2
<1>4. \A t \in Sections : t # s =>
        \A q \in Slots : t \in ToSet(contents'[q]) <=> t \in ToSet(contents[q])
  BY <1>2, <1>3, AppendHolds
<1>5. \A t \in Sections : t # s =>
        output'[t] = output[t] /\ rule'[t] = rule[t] /\ movers'[t] = movers[t]
  BY <1>1, <1>2
<1>6. movers'[s] # {}
  BY <1>1, <1>2
<1> QED BY <1>1, <1>3, <1>4, <1>5, <1>6 DEF Leaves

LEMMA RemoveLeaves ==
  ASSUME TypeInv, AccountTypes, NEW p \in Plugins, NEW r \in Slots, NEW s \in Sections,
         removeChunk(p, r, s)
  PROVE  Leaves
<1>1. /\ dirty' = dirty \cup {r} /\ UNCHANGED <<output, rule>>
      /\ \/ /\ \E first \in DOMAIN contents[r] :
                 /\ contents[r][first] = s
                 /\ contents' = [contents EXCEPT ![r] = RemoveAt(@, first)]
            /\ movers' = [movers EXCEPT ![s] = @ \cup {p}]
         \/ UNCHANGED <<contents, movers>>
  BY DEF removeChunk
<1>2. contents \in [Slots -> Seq(Sections)] /\ movers \in [Sections -> SUBSET Plugins]
  BY DEF AccountTypes
<1>3. CASE UNCHANGED <<contents, movers>>
  BY <1>1, <1>3 DEF Leaves
<1>4. ASSUME NEW first \in DOMAIN contents[r], contents[r][first] = s,
             contents' = [contents EXCEPT ![r] = RemoveAt(@, first)],
             movers' = [movers EXCEPT ![s] = @ \cup {p}]
      PROVE  Leaves
  <2>1. \A q \in Slots :
          contents'[q] = IF q = r THEN RemoveAt(contents[r], first) ELSE contents[q]
    BY <1>2, <1>4
  <2>2. \A t \in Sections : t # s =>
          \A q \in Slots : t \in ToSet(contents'[q]) <=> t \in ToSet(contents[q])
    BY <1>2, <1>4, <2>1, RemoveHolds
  <2>3. movers'[s] # {} /\ \A t \in Sections : t # s => movers'[t] = movers[t]
    BY <1>2, <1>4
  <2> QED BY <1>1, <2>1, <2>2, <2>3 DEF Leaves
<1> QED BY <1>1, <1>3, <1>4

LEMMA UpdateLeaves ==
  ASSUME AccountTypes, NEW p \in Plugins, NEW r \in Slots, NEW chunks, updateChunks(p, r, chunks)
  PROVE  Leaves
<1>1. /\ contents' = [contents EXCEPT ![r] = <<>>]
      /\ movers' = [s \in Sections |-> IF s \in ToSet(contents[r]) THEN movers[s] \cup {p}
                                       ELSE movers[s]]
      /\ UNCHANGED <<output, rule, dirty>>
  BY DEF updateChunks
<1>2. contents \in [Slots -> Seq(Sections)]
  BY DEF AccountTypes
<1>3. \A q \in Slots : contents'[q] = IF q = r THEN <<>> ELSE contents[q]
  BY <1>1, <1>2
<1>4. ToSet(<<>>) = {}
  BY DEF ToSet
<1>5. ASSUME NEW t \in Sections, movers'[t] = {}
      PROVE  movers[t] = {} /\ t \notin ToSet(contents[r])
  BY <1>1, <1>5
<1>6. \A t \in Sections : movers'[t] = {} =>
        \A q \in Slots : t \in ToSet(contents'[q]) <=> t \in ToSet(contents[q])
  BY <1>3, <1>4, <1>5
<1> QED BY <1>1, <1>3, <1>5, <1>6 DEF Leaves

LEMMA MovedScript ==
  ASSUME Inv, Leaves, phase \in {"creating", "failed"},
         UNCHANGED <<link, phase, inputs, all, ignored, entries, overrides, asked, late, merged>>
  PROVE  ScriptInv'
<1>1. /\ AccountTypes /\ Gathered /\ Recorded /\ Single /\ NoneLeft
      /\ Follows /\ Prevail /\ Lying /\ Ordered
  BY DEF Inv, AccountsInv, ScriptInv, Requests
<1>2. inputs \subseteq Sections /\ link \in Links
  BY <1>1 DEF AccountTypes
<1>3. \A t \in Sections : movers'[t] = {} =>
        /\ movers[t] = {} /\ output'[t] = output[t] /\ rule'[t] = rule[t]
        /\ \A q \in Slots : t \in ToSet(contents'[q]) <=> t \in ToSet(contents[q])
  BY DEF Leaves
<1>4. Arrived' /\ Gathered'
  BY <1>1 DEF Arrived, Gathered, Unhurried, Early, Waiting
<1>5. Recorded' /\ Single' /\ NoneLeft'
  BY <1>1, RequestsKept DEF NoneLeft, Merged
<1>6. Follows'
  <2> SUFFICES ASSUME NEW s \in inputs, asked[s] = <<>> PROVE ByScript(s)'
    BY DEF Follows
  <2>1. ByScript(s)
    BY <1>1 DEF Follows
  <2>2. CASE phase = "creating"
    <3>1. Merged
      BY <2>2 DEF Merged
    <3> QED BY <1>2, <1>3, <2>1, <3>1, ByScriptKept
  <2>3. CASE phase = "failed"
    BY <2>3 DEF ByScript, Merged, Waiting, Gathering
  <2> QED BY <2>2, <2>3
<1>7. Prevail'
  BY <1>1, <1>2, <1>3, PrevailKept
<1>8. Lying'
  <2> SUFFICES ASSUME Merged', NEW s \in Sections
               PROVE  /\ Undisturbed(s)' =>
                          /\ s \in merged' => rule'[s] \in Slots'
                          /\ \A q \in Slots' : s \in ToSet(contents'[q])
                                                 <=> s \in merged' /\ q = rule'[s]
                      /\ Clean(s)' => (s \in merged' <=> s \in all' /\ Mergeable(s)')
    BY DEF Lying
  <2>1. Merged
    BY DEF Merged
  <2>2. Slots' = Slots
    BY SlotsFixed
  <2>3. /\ Undisturbed(s)' => Undisturbed(s) /\ movers'[s] = {}
        /\ Clean(s)' => Clean(s) /\ movers'[s] = {}
    BY <1>3 DEF Undisturbed, Clean, Clear, Known
  <2>4. movers'[s] = {} => (Mergeable(s)' <=> Mergeable(s))
    BY <1>3 DEF Mergeable, Discards
  <2> QED BY <1>1, <1>3, <2>1, <2>2, <2>3, <2>4 DEF Lying
<1>9. Ordered'
  <2>1. /\ Merged' => Merged
        /\ dirty \subseteq dirty' /\ \A q \in Slots \ dirty' : contents'[q] \in {contents[q], <<>>}
    BY DEF Merged, Leaves
  <2> QED BY <1>1, <1>2, <2>1, OrderedKept
<1> QED BY <1>4, <1>5, <1>6, <1>7, <1>8, <1>9 DEF ScriptInv, Requests

LEMMA MoveScript == ASSUME Inv, Moves PROVE ScriptInv'
<1>1. PICK p \in Plugins, r \in Places(link.script) :
        \/ \E s \in inputs : addChunk(p, r, s) \/ removeChunk(p, r, s)
        \/ \E chunks \in ChunkLists : updateChunks(p, r, chunks)
  BY DEF Moves
<1>2. TypeInv /\ AccountTypes /\ r \in Slots /\ inputs \subseteq Sections
  BY PlacesAreSlots DEF Inv, AccountsInv, AccountTypes
<1>3. ASSUME NEW s \in inputs, addChunk(p, r, s) PROVE ScriptInv'
  <2>1. addChunkOp(p, r, s)
    BY <1>3 DEF addChunk
  <2>2. Leaves
    BY <1>2, <2>1, AddLeaves
  <2> QED BY <1>3, <2>2, MovedScript DEF addChunk, MayMove, asking
<1>4. ASSUME NEW s \in inputs, removeChunk(p, r, s) PROVE ScriptInv'
  <2>1. Leaves
    BY <1>2, <1>4, RemoveLeaves
  <2> QED BY <1>4, <2>1, MovedScript DEF removeChunk, MayMove, asking
<1>5. ASSUME NEW chunks, updateChunks(p, r, chunks) PROVE ScriptInv'
  <2>1. Leaves
    BY <1>2, <1>5, UpdateLeaves
  <2> QED BY <1>5, <2>1, MovedScript DEF updateChunks, MayMove, asking
<1> QED BY <1>1, <1>3, <1>4, <1>5

LEMMA UpdateScript == ASSUME Inv, updateNextChunk PROVE ScriptInv'
<1> DEFINE p == updating[1]
           r == updating[2]
           chunks == updating[3]
<1>1. /\ TypeInv /\ AccountTypes /\ UpdateType /\ NotMovedYet /\ EvenWhenDone
  BY DEF Inv, AccountsInv
<1>2. /\ updating # <<>>
      /\ UNCHANGED <<link, phase, inputs, all, ignored, entries, overrides, asked, late, merged>>
      /\ \/ chunks # <<>> /\ addChunkOp(p, r, Head(chunks))
         \/ UNCHANGED <<output, rule, contents, dirty, movers>>
  BY DEF updateNextChunk, asking
<1>3. p \in Plugins /\ r \in Slots /\ chunks \in Seq(Sections)
  BY <1>1, <1>2 DEF UpdateType
<1>4. phase \in {"creating", "failed"}
  BY <1>1, <1>2 DEF NotMovedYet, EvenWhenDone
<1> HIDE DEF p, r, chunks
<1>5. Leaves
  <2>1. CASE chunks # <<>> /\ addChunkOp(p, r, Head(chunks))
    <3>1. Head(chunks) \in Sections
      BY <1>3, <2>1
    <3> QED BY <1>1, <1>3, <2>1, <3>1, AddLeaves
  <2>2. CASE UNCHANGED <<output, rule, contents, dirty, movers>>
    BY <2>2 DEF Leaves
  <2> QED BY <1>2, <2>1, <2>2
<1> QED BY <1>2, <1>4, <1>5, MovedScript

\* At the end of CreatingSections only chunks that were moved find another rule.
LEMMA CreateLeaves ==
  ASSUME Inv, phase = "creating", createOutputSections, NEW s \in Sections
  PROVE  /\ Undisturbed(s) => rule'[s] = rule[s]
         /\ Clean(s) => output'[s] = output[s]
<1>1. /\ TypeInv /\ AccountTypes /\ Gathered /\ Recorded /\ NoneLeft /\ Follows /\ Prevail
      /\ Lying
  BY DEF Inv, AccountsInv, ScriptInv, Requests
<1>2. Merged /\ dirty \subseteq Slots
  BY <1>1, PlacesAreSlots DEF Merged, TypeInv, OthersTyped
<1>3. /\ \A q \in Slots : Undisturbed(s) =>
           (s \in ToSet(contents[q]) <=> s \in merged /\ q = rule[s])
      /\ Clean(s) => (s \in merged <=> s \in all /\ Mergeable(s))
  BY <1>1, <1>2 DEF Lying
<1>4. CASE output'[s] = output[s] /\ rule'[s] = rule[s]
  BY <1>4
<1>5. ASSUME NEW r \in dirty, s \in ToSet(contents[r]), output'[s] = r[1], rule'[s] = r
      PROVE  /\ Undisturbed(s) => rule'[s] = rule[s]
             /\ Clean(s) => output'[s] = output[s]
  <2>1. Undisturbed(s) => s \in merged /\ r = rule[s]
    BY <1>2, <1>3, <1>5
  <2>2. ASSUME Clean(s) PROVE r[1] = output[s]
    <3>1. Undisturbed(s)
      BY <2>2 DEF Clean, Undisturbed
    <3>2. s \in all /\ s \notin ignored /\ s \in inputs /\ r = rule[s] /\ movers[s] = {}
      BY <1>1, <1>3, <2>1, <2>2, <3>1 DEF Mergeable, Gathered, Clean
    <3>3. CASE asked[s] = <<>>
      <4>1. rule[s] = ScriptPlace(s) /\ output[s] = ScriptPlace(s)[1]
        BY <1>1, <1>2, <3>2, <3>3 DEF Follows, ByScript
      <4> QED BY <3>2, <4>1
    <3>4. ASSUME ~late, NEW last \in DOMAIN asked[s], Clear(s, last) PROVE r[1] = output[s]
      <4> DEFINE o == findIter(link.script, asked[s][last][2])
      <4>1. WaitsFor(s, last)
        BY <1>1, <3>2, <3>4 DEF Prevail
      <4>2. PendingFor(s) = {}
        <5>1. \A p \in Plugins : overrides[p] = <<>>
          BY <1>1, <1>2, <3>4 DEF NoneLeft
        <5>2. DOMAIN << >> = {}
          OBVIOUS
        <5>3. \A op \in PendingFor(s) : op[1] \in Plugins /\ op[2] \in DOMAIN overrides[op[1]]
          BY DEF PendingFor, Pending
        <5> QED BY <5>1, <5>2, <5>3
      <4>3. rule[s] = findOnlyIn(link.script, o, s) /\ output[s] = o
        BY <3>2, <3>4, <4>1, <4>2 DEF WaitsFor
      <4>4. findOnlyIn(link.script, o, s)[1] = o
        BY DEF findOnlyIn
      <4> QED BY <3>2, <4>3, <4>4
    <3> QED BY <2>2, <3>3, <3>4 DEF Clean
  <2> QED BY <1>5, <2>1, <2>2
<1> QED BY <1>4, <1>5, ChunkFound

LEMMA CreateScript == ASSUME Inv, createOutputSections PROVE ScriptInv'
<1>1. /\ TypeInv /\ AccountTypes /\ Gathered /\ Recorded /\ Single /\ NoneLeft
      /\ Follows /\ Prevail /\ Lying /\ Ordered
  BY DEF Inv, AccountsInv, ScriptInv, Requests
<1>2. /\ phase = "creating" /\ phase' \in {"done", "failed"}
      /\ UNCHANGED <<link, inputs, all, ignored, entries, overrides, asked, late, contents,
                     dirty, merged, movers>>
  BY DEF createOutputSections, asking, moving
<1>3. inputs \subseteq Sections /\ all \subseteq inputs /\ link \in Links /\ Merged
  BY <1>1, <1>2 DEF AccountTypes, Gathered, Merged
<1>4. \A s \in Sections : /\ Undisturbed(s) => rule'[s] = rule[s]
                          /\ Clean(s) => output'[s] = output[s]
  BY <1>2, CreateLeaves
<1>5. Arrived' /\ Gathered'
  BY <1>1, <1>2 DEF Arrived, Gathered, Unhurried, Early, Waiting
<1>6. Recorded' /\ Single' /\ NoneLeft'
  BY <1>1, <1>2, <1>3, RequestsKept DEF NoneLeft
<1>7. Follows'
  <2> SUFFICES ASSUME NEW s \in inputs, asked[s] = <<>> PROVE ByScript(s)'
    BY <1>2 DEF Follows
  <2>1. ByScript(s)
    BY <1>1 DEF Follows
  <2>2. movers[s] = {} => output'[s] = output[s] /\ rule'[s] = rule[s]
    BY <1>3, <1>4 DEF Undisturbed, Clean
  <2>3. ScriptPlace(s)' = ScriptPlace(s) /\ (Ignored(s)' <=> Ignored(s))
    BY <1>2, ScriptFixed
  <2> QED BY <1>2, <1>3, <2>1, <2>2, <2>3 DEF ByScript, Waiting, Gathering
<1>8. Prevail'
  <2> SUFFICES ASSUME NEW s \in inputs, NEW last \in DOMAIN asked[s], Clear(s, last)'
               PROVE  WaitsFor(s, last)'
    BY <1>2 DEF Prevail
  <2>1. Clear(s, last)
    BY <1>2, RequestsFixed
  <2>2. WaitsFor(s, last)
    BY <1>1, <2>1 DEF Prevail
  <2>3. movers[s] = {} /\ ~late => output'[s] = output[s] /\ rule'[s] = rule[s]
    BY <1>3, <1>4, <2>1 DEF Undisturbed, Clean
  <2> QED BY <1>2, <2>2, <2>3, WaitsKept
<1>9. Lying'
  <2> SUFFICES ASSUME NEW s \in Sections
               PROVE  /\ Undisturbed(s)' =>
                          /\ s \in merged' => rule'[s] \in Slots'
                          /\ \A q \in Slots' : s \in ToSet(contents'[q])
                                                 <=> s \in merged' /\ q = rule'[s]
                      /\ Clean(s)' => (s \in merged' <=> s \in all' /\ Mergeable(s)')
    BY DEF Lying
  <2>1. Slots' = Slots
    BY <1>2, SlotsFixed
  <2>2. /\ Undisturbed(s)' <=> Undisturbed(s)
        /\ Clean(s)' <=> Clean(s)
    BY <1>2 DEF Undisturbed, Clean, Clear, Known
  <2>3. Clean(s) => (Mergeable(s)' <=> Mergeable(s))
    BY <1>2, <1>4 DEF Mergeable, Discards
  <2> QED BY <1>1, <1>2, <1>3, <1>4, <2>1, <2>2, <2>3 DEF Lying
<1>10. Ordered'
  BY <1>1, <1>2, <1>3, OrderedKept
<1> QED BY <1>5, <1>6, <1>7, <1>8, <1>9, <1>10 DEF ScriptInv, Requests

------------------------------------------------------------------------------
\* The script is followed, and plugins prevail.

LEMMA InitScript == Init => ScriptInv
<1> SUFFICES ASSUME Init PROVE ScriptInv
  OBVIOUS
<1>1. /\ link \in Links /\ phase \in {"match for lto", "resolve"} /\ inputs = Arriving("object")
      /\ all = {} /\ ignored = {} /\ entries = {}
  BY DEF Init
<1>2. /\ output = [s \in Sections |-> 0] /\ asked = [s \in Sections |-> <<>>]
      /\ overrides = [p \in Plugins |-> <<>>]
  BY DEF Init
<1>3. DOMAIN << >> = {}
  OBVIOUS
<1>4. inputs \subseteq Sections
  BY <1>1 DEF Arriving
<1>5. ~Merged /\ phase \in Waiting /\ phase \in Early
  BY <1>1 DEF Merged, Waiting, Early
<1>6. Arrived
  BY <1>1, <1>2 DEF Arrived, Arriving
<1>7. Gathered
  BY <1>1, <1>5 DEF Gathered
<1>8. Requests
  BY <1>2, <1>3, <1>5 DEF Requests, Recorded, NoneLeft, Single
<1>9. Follows
  <2>1. phase \notin {"matcher", "iterator", "scan", "merge"} \cup Gathering
    BY <1>1 DEF Gathering
  <2> QED BY <1>1, <1>2, <1>4, <1>5, <2>1 DEF Follows, ByScript, Untouched
<1>10. Prevail
  BY <1>2, <1>3, <1>4 DEF Prevail
<1> QED BY <1>5, <1>6, <1>7, <1>8, <1>9, <1>10 DEF ScriptInv, Lying, Ordered

LEMMA SameScript == ASSUME Inv, UNCHANGED vars PROVE ScriptInv'
<1>1. /\ AccountTypes /\ Arrived /\ Gathered /\ Recorded /\ Single /\ NoneLeft
      /\ Follows /\ Prevail /\ Lying /\ Ordered
  BY DEF Inv, AccountsInv, ScriptInv, Requests
<1>2. UNCHANGED <<link, phase, inputs, all, output, rule, ignored, entries, overrides, asked,
                  late, contents, dirty, merged, movers>>
  BY DEF vars, asking, moving
<1>3. link \in Links
  BY <1>1 DEF AccountTypes
<1>4. Arrived' /\ Gathered' /\ NoneLeft'
  BY <1>1, <1>2 DEF Arrived, Gathered, Unhurried, NoneLeft, Merged
<1>5. Recorded' /\ Single'
  BY <1>1, <1>2, RequestsKept
<1>6. Follows'
  BY <1>1, <1>2, ByScriptKept DEF Follows
<1>7. Prevail'
  BY <1>1, <1>2, PrevailKept
<1>8. Lying'
  BY <1>1, <1>2, LyingKept
<1>9. Ordered'
  <2>1. Merged' => Merged
    BY <1>2 DEF Merged
  <2> QED BY <1>1, <1>2, <1>3, <2>1, OrderedKept
<1> QED BY <1>4, <1>5, <1>6, <1>7, <1>8, <1>9 DEF ScriptInv, Requests

LEMMA NextScript == Inv /\ [Next]_vars => ScriptInv'
<1> SUFFICES ASSUME Inv, [Next]_vars PROVE ScriptInv'
  OBVIOUS
<1>1. CASE Asks
  BY <1>1, AskScript, FinishScript DEF Asks
<1>2. CASE Advances
  BY <1>2, MatchScript, ArrivalScript, StripScript, IterateScript, BeginScript, LookScript,
     MergeScript, CreateScript DEF Advances
<1> QED BY <1>1, <1>2, MoveScript, UpdateScript, SameScript DEF Next

LEMMA InvHolds == Spec => []Inv
<1>1. Init => Inv
  BY InitAccounts, InitTyped, InitScript DEF Inv
<1>2. Inv /\ [Next]_vars => Inv'
  BY NextAccounts, NextTyped, NextScript DEF Inv, AccountsInv
<1> QED BY <1>1, <1>2, PTL DEF Spec

LEMMA InScript == Inv => ImageFollowsScript
<1> SUFFICES ASSUME Inv, Merged PROVE ImageFollowsScript
  BY DEF ImageFollowsScript
<1>1. Gathered /\ Follows /\ Lying /\ Ordered /\ AccountTypes
  BY DEF Inv, AccountsInv, ScriptInv
<1>2. ASSUME NEW s \in Due, asked[s] = <<>>, movers[s] = {}
      PROVE  IF Discards(ScriptPlace(s)[1]) \/ Collected(s)
                  \/ (link.arrives[s] # "copy" /\ DiscardedOnTheWay(s))
             THEN InNoRule(s) ELSE LiesIn(s, ScriptPlace(s))
  <2>1. phase \notin Early
    BY DEF Merged, Early, Waiting
  <2>2. s \in all /\ s \in inputs /\ s \in Sections
    BY <1>1, <2>1 DEF Due, Gathered, Unhurried, AccountTypes
  <2>3. Undisturbed(s) /\ Clean(s)
    BY <1>2 DEF Undisturbed, Clean
  <2>4. /\ s \in ignored <=> Ignored(s)
        /\ s \notin ignored => rule[s] = ScriptPlace(s) /\ output[s] = ScriptPlace(s)[1]
    BY <1>1, <1>2, <2>2 DEF Follows, ByScript
  <2>5. /\ s \in merged => rule[s] \in Slots
        /\ \A q \in Slots : s \in ToSet(contents[q]) <=> s \in merged /\ q = rule[s]
        /\ s \in merged <=> s \in all /\ Mergeable(s)
    BY <1>1, <2>2, <2>3 DEF Lying
  <2>6. s \in merged <=> ~Ignored(s) /\ ~Discards(ScriptPlace(s)[1])
    BY <2>2, <2>4, <2>5 DEF Mergeable
  <2>7. CASE Ignored(s) \/ Discards(ScriptPlace(s)[1])
    BY <2>5, <2>6, <2>7 DEF InNoRule, Ignored
  <2>8. CASE ~(Ignored(s) \/ Discards(ScriptPlace(s)[1]))
    <3>1. rule[s] = ScriptPlace(s) /\ output[s] = ScriptPlace(s)[1]
          /\ s \in merged /\ ScriptPlace(s) \in Slots
      BY <2>4, <2>5, <2>6, <2>8
    <3>2. {q \in Slots : s \in ToSet(contents[q])} = {ScriptPlace(s)}
      BY <2>5, <3>1
    <3> QED BY <2>8, <3>1, <3>2 DEF LiesIn, Ignored
  <2> QED BY <2>7, <2>8
<1> QED BY <1>1, <1>2 DEF ImageFollowsScript, Ordered

LEMMA HasItsWay ==
  ASSUME Inv, Merged, ~late, NEW s \in all \ ignored, NEW last \in Known(s),
         Clear(s, last), movers[s] = {}
  PROVE  LET o     == findIter(link.script, asked[s][last][2])
             rules == link.script[o].rules
             first == SelectInSeq(rules, LAMBDA r : s \in r.accepts)
         IN IF Discards(o) THEN InNoRule(s)
            ELSE LiesIn(s, <<o, IF first = 0 THEN Len(rules) ELSE first>>)
<1> DEFINE o     == findIter(link.script, asked[s][last][2])
           place == findOnlyIn(link.script, o, s)
<1>1. Gathered /\ Recorded /\ NoneLeft /\ Prevail /\ Lying /\ AccountTypes
  BY DEF Inv, AccountsInv, ScriptInv, Requests
<1>2. s \in inputs /\ s \in Sections /\ last \in DOMAIN asked[s] /\ o # 0
  BY <1>1 DEF Gathered, AccountTypes, Known
<1>3. PendingFor(s) = {}
  <2>1. \A p \in Plugins : overrides[p] = <<>>
    BY <1>1 DEF NoneLeft
  <2>2. DOMAIN << >> = {}
    OBVIOUS
  <2>3. \A op \in PendingFor(s) : op[1] \in Plugins /\ op[2] \in DOMAIN overrides[op[1]]
    BY DEF PendingFor, Pending
  <2> QED BY <2>1, <2>2, <2>3
<1>4. rule[s] = place /\ output[s] = o
  BY <1>1, <1>2, <1>3 DEF Prevail, WaitsFor
<1>5. Undisturbed(s) /\ Clean(s)
  BY <1>2 DEF Undisturbed, Clean
<1>6. /\ \A q \in Slots : s \in ToSet(contents[q]) <=> s \in merged /\ q = rule[s]
      /\ s \in merged <=> ~Discards(o)
      /\ s \in merged => rule[s] \in Slots
  BY <1>1, <1>2, <1>4, <1>5 DEF Lying, Mergeable
<1>7. o \in DOMAIN link.script /\ link \in Links
  BY <1>1, <1>2, FoundByName DEF AccountTypes
<1> HIDE DEF o
<1>8. /\ place = <<o, IF FirstOf(link.script, o, s) = 0 THEN Len(link.script[o].rules)
                      ELSE FirstOf(link.script, o, s)>>
      /\ place[1] = o
  BY <1>7, RuleFound
<1>9. CASE Discards(o)
  BY <1>6, <1>9 DEF InNoRule, o
<1>10. CASE ~Discards(o)
  <2>1. {q \in Slots : s \in ToSet(contents[q])} = {place}
    BY <1>4, <1>6, <1>10
  <2>2. LiesIn(s, place)
    BY <1>4, <1>8, <2>1 DEF LiesIn
  <2> QED BY <1>8, <1>10, <2>2 DEF FirstOf, o
<1> QED BY <1>9, <1>10

LEMMA InTheirWay == Inv => OverridesPrevail
BY HasItsWay DEF OverridesPrevail, Known, Clear

\* Theorem: whichever matcher has been used, before or after link time optimization,
\* and whatever plugins have asked for other sections, a section that no plugin has
\* touched lies where the script says, and rules that no plugin has changed are sorted.
THEOREM ScriptFollowed == Spec => []ImageFollowsScript
<1>1. Inv => ImageFollowsScript
  BY InScript
<1> QED BY <1>1, InvHolds, PTL

\* Theorem: a plugin that alone asks for a section has its way, whatever other plugins
\* ask for, whoever finishes its assignments first, in whichever order the rest is done.
THEOREM PluginsPrevail == Spec => []OverridesPrevail
<1>1. Inv => OverridesPrevail
  BY InTheirWay
<1> QED BY <1>1, InvHolds, PTL
===============================================================================
