------------------------ MODULE RiscvRelaxation_proofs ------------------------
(***************************************************************************)
(* Proofs about the relaxation of RISC-V, for all links.                   *)
(*                                                                         *)
(* The relaxation loop is a settle loop: whatever the passes decide and    *)
(* the layouts move, a round either rejects decisions for good, or writes  *)
(* the headers again after a rejection, or commits, and nothing is         *)
(* recorded once the settling has begun.                                   *)
(*                                                                         *)
(* What is committed is right: what refers to code refers to the same code *)
(* (OffsetsFollow), the values that remain fit the instructions that       *)
(* remain (RangesHold), and padding ends on its alignment (PaddingHolds).  *)
(* The argument has four layers, each an invariant:                        *)
(*   ShapeInv   the pending edits lie in their instructions, apart;        *)
(*   SyncInv    a round that rejects nothing has verified its records      *)
(*              under the layout of the edits that are pending;            *)
(*   AlignInv   padding that is decided ends on its alignment under them;  *)
(*   CommitInv  the output is what those edits make of the sections before *)
(*              the cursor, and of the others nothing.                     *)
(* The two halves of an address elsewhere are relaxed together             *)
(* (PairsAgreeHold): what the passes record of the high part (AlikeInv),   *)
(* the rounds let stand (DropInv) and the commit writes (JoinInv) they     *)
(* record, let stand and write of the low part.  In between only code of   *)
(* the same section changes, which does not move what is elsewhere.        *)
(*                                                                         *)
(* All rest on the lemmas about edits, which come first: what a section    *)
(* keeps of its bytes, and where a byte of it goes, is counted the same    *)
(* way by the map of offsets and by the writing of the section.            *)
(***************************************************************************)
EXTENDS RiscvRelaxation, FiniteSetTheorems, FunctionTheorems, SequenceTheorems,
        WellFoundedInduction, TLAPS

------------------------------------------------------------------------------
\* Counting and sorting.

\* A set of natural numbers that is not empty has a least element.
LEMMA LeastNatural ==
  ASSUME NEW S, S \subseteq Nat, S # {}
  PROVE  Min(S) \in S /\ \A y \in S : Min(S) <= y
<1> DEFINE Below(n) == 0..n - 1
           T == {Below(n) : n \in S}
<1>1. T \subseteq FiniteSubsetsOf(Nat) /\ T # {}
  <2>1. ASSUME NEW n \in S  PROVE Below(n) \in FiniteSubsetsOf(Nat)
    <3>1. IsFiniteSet(Below(n))
      BY FS_Interval
    <3> QED BY <3>1 DEF FiniteSubsetsOf
  <2> QED BY <2>1
<1>2. PICK X \in T : \A Y \in T : ~(<<Y, X>> \in StrictSubsetOrdering(Nat))
  BY <1>1, FS_StrictSubsetOrderingWellFounded, WFMin, Zenon
<1>3. PICK x \in S : X = Below(x)
  BY <1>2
<1>4. ASSUME NEW y \in S, y < x
      PROVE  FALSE
  <2>1. Below(y) \subseteq Below(x) /\ Below(y) # Below(x)
    <3>1. y \in Below(x) /\ y \notin Below(y)
      BY <1>4
    <3> QED BY <3>1, <1>4
  <2>2. <<Below(y), Below(x)>> \in StrictSubsetOrdering(Nat)
    <3>1. Below(y) \in SUBSET Nat /\ Below(x) \in SUBSET Nat
      BY <1>4
    <3> HIDE DEF Below
    <3>2. ASSUME NEW A \in SUBSET Nat, NEW B \in SUBSET Nat, A \subseteq B, A # B
          PROVE  <<A, B>> \in StrictSubsetOrdering(Nat)
      BY <3>2 DEF StrictSubsetOrdering
    <3> QED BY <2>1, <3>1, <3>2
  <2> QED BY <2>2, <1>2, <1>3
<1>5. ASSUME NEW y \in S  PROVE x <= y
  <2>1. x \in Nat /\ y \in Nat /\ ~(y < x)
    BY <1>4
  <2> QED BY <2>1
<1> HIDE DEF T, Below
<1>6. \E z \in S : \A y \in S : z <= y
  BY <1>5
<1> QED BY <1>6, Zenon DEF Min

\* A set of numbers up to n that is not empty has a greatest element.
LEMMA GreatestUpTo ==
  ASSUME NEW n \in Nat, NEW S, S \subseteq 1..n, S # {}
  PROVE  Max(S) \in S /\ \A y \in S : y <= Max(S)
<1> DEFINE T == {n - x : x \in S}
<1>1. T \subseteq Nat /\ T # {}
  <2>1. \A x \in S : n - x \in Nat
    OBVIOUS
  <2> QED BY <2>1
<1>2. Min(T) \in T /\ \A y \in T : Min(T) <= y
  BY <1>1, LeastNatural
<1>3. PICK x \in S : Min(T) = n - x
  BY <1>2
<1>4. \A y \in S : n - x <= n - y
  BY <1>2, <1>3
<1>5. \A y \in S : x >= y
  BY <1>4
<1>6. \E z \in S : \A y \in S : z >= y
  BY <1>5
<1>7. Max(S) \in S /\ \A y \in S : Max(S) >= y
  BY <1>6, Zenon DEF Max
<1> QED BY <1>7

\* R orders S strictly and totally.
StrictOrder(S, R) ==
  /\ \A x \in S : <<x, x>> \notin R
  /\ \A x, y, z \in S : <<x, y>> \in R /\ <<y, z>> \in R => <<x, z>> \in R
  /\ \A x, y \in S : x = y \/ <<x, y>> \in R \/ <<y, x>> \in R

\* The elements of S before x.
Lower(S, R, x) == {y \in S : <<y, x>> \in R}

\* The elements of S by their rank.
Ranked(S, R) ==
  [k \in 1..Cardinality(S) |-> CHOOSE x \in S : Cardinality(Lower(S, R, x)) = k - 1]

\* Ranks in a strict order are different, so that every place has an element.
LEMMA RankedOnce ==
  ASSUME NEW S, IsFiniteSet(S), NEW R, StrictOrder(S, R)
  PROVE  /\ Cardinality(S) \in Nat
         /\ Ranked(S, R) \in [1..Cardinality(S) -> S]
         /\ \A x \in S : \E k \in 1..Cardinality(S) : Ranked(S, R)[k] = x
         /\ \A j, k \in 1..Cardinality(S) : Ranked(S, R)[j] = Ranked(S, R)[k] => j = k
         /\ \A j, k \in 1..Cardinality(S) : j < k => <<Ranked(S, R)[j], Ranked(S, R)[k]>> \in R
         /\ \A x \in S : /\ Cardinality(Lower(S, R, x)) + 1 \in 1..Cardinality(S)
                         /\ Ranked(S, R)[Cardinality(Lower(S, R, x)) + 1] = x
<1> DEFINE Below(x) == {y \in S : <<y, x>> \in R}
           N == Cardinality(S)
           size(x) == Cardinality(Below(x))
<1>1. N \in Nat
  BY FS_CardinalityType
<1>2. \A x \in S : IsFiniteSet(Below(x)) /\ size(x) \in Nat
  BY FS_Subset, FS_CardinalityType
<1>3. \A x, y \in S : <<x, y>> \in R => size(x) < size(y)
  <2> SUFFICES ASSUME NEW x \in S, NEW y \in S, <<x, y>> \in R
               PROVE  size(x) < size(y)
    OBVIOUS
  <2>1. Below(x) \subseteq Below(y) \ {x} /\ x \in Below(y)
    BY DEF StrictOrder
  <2>2. /\ IsFiniteSet(Below(y) \ {x})
        /\ Cardinality(Below(y) \ {x}) = size(y) - 1
    BY <1>2, <2>1, FS_RemoveElement
  <2>3. size(x) <= Cardinality(Below(y) \ {x})
    BY <2>1, <2>2, FS_Subset
  <2>4. size(x) \in Nat /\ size(y) \in Nat
    BY <1>2
  <2> HIDE DEF size
  <2> QED BY <2>2, <2>3, <2>4
<1>4. \A x \in S : size(x) + 1 \in 1..N
  <2> SUFFICES ASSUME NEW x \in S PROVE size(x) + 1 \in 1..N
    OBVIOUS
  <2>1. Below(x) \subseteq S \ {x}
    BY DEF StrictOrder
  <2>2. IsFiniteSet(S \ {x}) /\ Cardinality(S \ {x}) = N - 1
    BY FS_RemoveElement
  <2>3. size(x) <= Cardinality(S \ {x})
    BY <2>1, <2>2, FS_Subset
  <2>4. size(x) \in Nat
    BY <1>2
  <2> HIDE DEF size, N
  <2> QED BY <1>1, <2>2, <2>3, <2>4
<1>5. Ranked(S, R) = [k \in 1..N |-> CHOOSE x \in S : size(x) = k - 1]
  BY DEF Ranked, Lower
<1>6. \A x \in S : size(x) \in Nat
  BY <1>2
<1>7. IsFiniteSet(1..N) /\ Cardinality(1..N) = N
  BY <1>1, FS_Interval
<1> HIDE DEF size
<1> DEFINE rank == [x \in S |-> size(x) + 1]
<1>8. rank \in [S -> 1..N]
  BY <1>4
<1>9. \A x, y \in S : size(x) = size(y) => x = y
  <2>1. \A x, y \in S : x = y \/ <<x, y>> \in R \/ <<y, x>> \in R
    BY DEF StrictOrder
  <2>2. \A x, y \in S : <<x, y>> \in R => size(x) # size(y)
    BY <1>3, <1>6
  <2> QED BY <2>1, <2>2
<1>10. rank \in Injection(S, 1..N)
  <2>1. \A x, y \in S : rank[x] = rank[y] => x = y
    BY <1>6, <1>9
  <2> QED BY <1>8, <2>1, Fun_IsInj
<1>11. rank \in Surjection(S, 1..N)
  BY <1>7, <1>10, FS_Injection
<1>12. \A k \in 1..N : \E x \in S : rank[x] = k
  BY <1>11 DEF Surjection
<1>13. \A k \in 1..N : \E x \in S : size(x) = k - 1
  BY <1>6, <1>12
<1> HIDE DEF rank, N
<1>14. \A k \in 1..N : Ranked(S, R)[k] \in S /\ size(Ranked(S, R)[k]) = k - 1
  BY <1>5, <1>13
<1>15. Ranked(S, R) \in [1..N -> S]
  BY <1>5, <1>14
<1>16. \A x \in S : Ranked(S, R)[size(x) + 1] = x
  BY <1>4, <1>6, <1>9, <1>14
<1>17. \A j, k \in 1..N : Ranked(S, R)[j] = Ranked(S, R)[k] => j = k
  BY <1>1, <1>14
<1>18. ASSUME NEW j \in 1..N, NEW k \in 1..N, j < k
       PROVE  <<Ranked(S, R)[j], Ranked(S, R)[k]>> \in R
  <2> DEFINE x == Ranked(S, R)[j]
             y == Ranked(S, R)[k]
  <2>1. x \in S /\ y \in S /\ size(x) = j - 1 /\ size(y) = k - 1
    BY <1>14
  <2>2. x = y \/ <<x, y>> \in R \/ <<y, x>> \in R
    BY <2>1 DEF StrictOrder
  <2> HIDE DEF x, y
  <2>3. ~(size(y) < size(x)) /\ x # y
    BY <1>1, <1>18, <2>1
  <2>4. <<y, x>> \notin R
    BY <1>3, <2>1, <2>3
  <2> QED BY <2>2, <2>3, <2>4 DEF x, y
<1>19. \A x \in S : size(x) = Cardinality(Lower(S, R, x))
  BY DEF Lower, size
<1> QED BY <1>1, <1>4, <1>15, <1>16, <1>17, <1>18, <1>19 DEF N

\* Two functions of the first k places are equal when they go on alike.
LEMMA AlikeUpTo ==
  ASSUME NEW n \in Nat, NEW f, NEW g, f[1..0] = g[1..0],
         \A k \in 1..n : f[1..k - 1] = g[1..k - 1] => f[1..k] = g[1..k]
  PROVE  f[1..n] = g[1..n]
<1> DEFINE S == {k \in 0..n : f[1..k] # g[1..k]}
<1>1. ASSUME S # {} PROVE FALSE
  <2>1. Min(S) \in S /\ \A k \in S : Min(S) <= k
    <3>1. S \subseteq Nat
      OBVIOUS
    <3> HIDE DEF S
    <3> QED BY <1>1, <3>1, LeastNatural
  <2> DEFINE k == Min(S)
  <2>2. k \in 0..n /\ f[1..k] # g[1..k]
    BY <2>1
  <2>3. \A j \in 0..n : j < k => f[1..j] = g[1..j]
    BY <2>1
  <2> HIDE DEF k
  <2>4. k # 0
    BY <2>2
  <2>5. k \in 1..n /\ k - 1 \in 0..n /\ k - 1 < k
    BY <2>2, <2>4
  <2> QED BY <2>2, <2>3, <2>5
<1> QED BY <1>1

\* The greatest of the places 1 to k is k.
LEMMA FirstPlaces ==
  ASSUME NEW n \in Nat, NEW k \in 1..n
  PROVE  /\ 1..k \in SUBSET (1..n) /\ 1..k # {} /\ Max(1..k) = k
         /\ (1..k) \ {Max(1..k)} = 1..k - 1
<1>1. k \in Nat /\ k \in 1..k
  OBVIOUS
<1>2. 1..k # {}
  BY <1>1
<1>3. Max(1..k) \in 1..k /\ k <= Max(1..k)
  BY <1>1, <1>2, GreatestUpTo
<1>4. Max(1..k) = k
  BY <1>3
<1>5. 1..k \in SUBSET (1..n) /\ (1..k) \ {k} = 1..k - 1
  OBVIOUS
<1> QED BY <1>2, <1>4, <1>5

\* The bytes that a plan deletes.
Gone(plan) == UNION {e.at..(e.at + e.bytes - 1) : e \in plan}

\* The edits of a plan start at different bytes and delete none of them twice.
Apart(plan) ==
  /\ IsFiniteSet(plan)
  /\ \A e \in plan : e.at \in Nat /\ e.bytes \in Nat /\ e.reloc \in Int
  /\ \A e, f \in plan : \/ e = f
                        \/ e.at < f.at /\ e.at + e.bytes <= f.at
                        \/ f.at < e.at /\ f.at + f.bytes <= e.at

\* What is left of a plan has edits that lie apart.
LEMMA SmallerPlan ==
  ASSUME NEW plan, Apart(plan), NEW T \in SUBSET plan
  PROVE  Apart(T)
<1>1. IsFiniteSet(T)
  BY FS_Subset DEF Apart
<1> QED BY <1>1 DEF Apart

\* The bytes that a plan deletes are finitely many: those that an edit spans.
LEMMA GoneBytes ==
  ASSUME NEW plan, Apart(plan)
  PROVE  /\ IsFiniteSet(Gone(plan)) /\ Gone(plan) \subseteq Nat
         /\ \A b : b \in Gone(plan) <=>
                     b \in Nat /\ \E e \in plan : e.at <= b /\ b < e.at + e.bytes
<1> DEFINE Deleted(e) == e.at..(e.at + e.bytes - 1)
           D == {Deleted(e) : e \in plan}
<1>1. IsFiniteSet(D)
  <2> DEFINE d == [e \in plan |-> Deleted(e)]
  <2>1. d \in Surjection(plan, D)
    BY DEF Surjection
  <2> HIDE DEF d, D
  <2> QED BY <2>1, FS_Surjection DEF Apart
<1>2. \A d \in D : IsFiniteSet(d)
  <2> SUFFICES ASSUME NEW e \in plan
               PROVE  IsFiniteSet(Deleted(e))
    OBVIOUS
  <2>1. e.at \in Int /\ e.at + e.bytes - 1 \in Int
    BY DEF Apart
  <2> QED BY <2>1, FS_Interval
<1>3. Gone(plan) = UNION D
  BY DEF Gone
<1>4. \A b : b \in Gone(plan) <=> \E e \in plan : b \in Deleted(e)
  BY <1>3
<1>5. \A e \in plan : \A b : b \in Deleted(e) <=> b \in Nat /\ e.at <= b /\ b < e.at + e.bytes
  BY DEF Apart
<1> HIDE DEF D, Deleted
<1>6. IsFiniteSet(Gone(plan))
  BY <1>1, <1>2, <1>3, FS_UNION
<1> QED BY <1>4, <1>5, <1>6

\* What one edit adds to the bytes deleted.
LEMMA GoneOfOne ==
  ASSUME NEW plan, Apart(plan), NEW e \in plan
  PROVE  Cardinality(Gone(plan)) = e.bytes + Cardinality(Gone(plan \ {e}))
<1> DEFINE D == e.at..(e.at + e.bytes - 1)
           G == Gone(plan \ {e})
<1>1. Apart(plan \ {e})
  BY SmallerPlan
<1>2. IsFiniteSet(G) /\ Cardinality(G) \in Nat
  BY <1>1, GoneBytes, FS_CardinalityType
<1>3. e.at \in Nat /\ e.bytes \in Nat
  BY DEF Apart
<1>4. IsFiniteSet(D) /\ Cardinality(D) = e.bytes
  <2>1. e.at \in Int /\ e.at + e.bytes - 1 \in Int
    BY <1>3
  <2>2. \A a, b \in Int : /\ IsFiniteSet(a..b)
                           /\ Cardinality(a..b) = IF a > b THEN 0 ELSE b - a + 1
    BY FS_Interval
  <2> DEFINE a == e.at
             b == e.at + e.bytes - 1
  <2>3. IsFiniteSet(a..b) /\ Cardinality(a..b) = IF a > b THEN 0 ELSE b - a + 1
    BY <2>1, <2>2
  <2> QED BY <1>3, <2>3
<1>5. Gone(plan) = D \cup G
  BY DEF Gone
<1>6. D \cap G = {}
  <2> SUFFICES ASSUME NEW b \in D, b \in G PROVE FALSE
    OBVIOUS
  <2>1. PICK f \in plan \ {e} : f.at <= b /\ b < f.at + f.bytes
    BY <1>1, GoneBytes
  <2>2. f.at \in Nat /\ f.bytes \in Nat /\ f # e
    BY DEF Apart
  <2>3. b \in Nat /\ e.at <= b /\ b < e.at + e.bytes
    BY <1>3
  <2>4. \/ e.at < f.at /\ e.at + e.bytes <= f.at
        \/ f.at < e.at /\ f.at + f.bytes <= e.at
    BY <2>2 DEF Apart
  <2> QED BY <1>3, <2>1, <2>2, <2>3, <2>4
<1> HIDE DEF D, G
<1>7. Cardinality(D \cap G) = 0
  BY <1>6, FS_EmptySet
<1>8. Cardinality(D \cup G) = Cardinality(D) + Cardinality(G) - Cardinality(D \cap G)
  BY <1>2, <1>4, FS_Union
<1> QED BY <1>2, <1>3, <1>4, <1>5, <1>7, <1>8 DEF G

\* Two functions of the parts of a finite set are equal when they agree on a set
\* as soon as they agree on its parts.
LEMMA AlikeOnParts ==
  ASSUME NEW S, IsFiniteSet(S), NEW f, NEW g,
         \A T \in SUBSET S :
           (\A U \in SUBSET T : U # T => f[U] = g[U]) => f[T] = g[T]
  PROVE  f[S] = g[S]
<1> DEFINE D == {T \in SUBSET S : f[T] # g[T]}
<1>1. ASSUME D # {} PROVE FALSE
  <2>1. D \subseteq FiniteSubsetsOf(S)
    BY FS_FiniteSubsetsOfFinite
  <2>2. PICK T \in D : \A U \in D : ~(<<U, T>> \in StrictSubsetOrdering(S))
    BY <1>1, <2>1, FS_StrictSubsetOrderingWellFounded, WFMin, Zenon
  <2>3. ASSUME NEW U \in SUBSET T, U # T PROVE f[U] = g[U]
    <3>1. U \in SUBSET S /\ T \in SUBSET S
      BY <2>2
    <3>2. <<U, T>> \in StrictSubsetOrdering(S)
      BY <3>1, <2>3 DEF StrictSubsetOrdering
    <3> QED BY <2>2, <3>1, <3>2
  <2> QED BY <2>2, <2>3
<1> QED BY <1>1

\* The bytes that the edits of a plan delete, counted edit by edit.
LEMMA ShiftCounts ==
  ASSUME NEW plan, Apart(plan)
  PROVE  TotalShift(plan) = Cardinality(Gone(plan))
<1> DEFINE g == [T \in SUBSET plan |-> Cardinality(Gone(T))]
           One(T) == CHOOSE x \in T : TRUE
           Sums(f) == f = [T \in SUBSET plan |->
                             IF T = {} THEN 0 ELSE One(T).bytes + f[T \ {One(T)}]]
           sum == CHOOSE f : Sums(f)
<1>1. TotalShift(plan) = sum[plan]
  BY DEF TotalShift, MapThenSumSet, MapThenFoldSet, Bytes
<1>2. \A T \in SUBSET plan : T # {} => One(T) \in T
  OBVIOUS
<1> HIDE DEF One
<1>3. ASSUME NEW T \in SUBSET plan, T # {}
      PROVE  Cardinality(Gone(T)) = One(T).bytes + Cardinality(Gone(T \ {One(T)}))
  BY <1>2, <1>3, SmallerPlan, GoneOfOne
<1>4. Cardinality(Gone({})) = 0
  BY FS_EmptySet DEF Gone
<1>5. Sums(g)
  <2>1. \A T \in SUBSET plan : T \ {One(T)} \in SUBSET plan
    OBVIOUS
  <2> QED BY <1>3, <1>4, <2>1
<1>6. Sums(sum)
  BY <1>5
<1> HIDE DEF sum
<1>7. ASSUME NEW T \in SUBSET plan, \A U \in SUBSET T : U # T => sum[U] = g[U]
      PROVE  sum[T] = g[T]
  <2>1. CASE T = {}
    BY <1>5, <1>6, <2>1
  <2>2. CASE T # {}
    <3>1. sum[T \ {One(T)}] = g[T \ {One(T)}]
      BY <1>2, <1>7, <2>2
    <3>2. sum[T] = One(T).bytes + sum[T \ {One(T)}]
      BY <1>6, <2>2
    <3>3. g[T] = One(T).bytes + g[T \ {One(T)}]
      BY <1>5, <2>2
    <3> QED BY <3>1, <3>2, <3>3
  <2> QED BY <2>1, <2>2
<1>8. IsFiniteSet(plan)
  BY DEF Apart
<1> HIDE DEF g
<1>9. sum[plan] = g[plan]
  BY <1>7, <1>8, AlikeOnParts
<1> QED BY <1>1, <1>9 DEF g

\* The bytes deleted before an offset that no deletion spans.
LEMMA ShiftBefore ==
  ASSUME NEW plan, Apart(plan), NEW off \in Nat,
         \A e \in plan : e.at < off => e.at + e.bytes <= off
  PROVE  /\ ShiftAt(plan, off) = Cardinality(Gone(plan) \cap (0..off - 1))
         /\ MapOffset(plan, off) = Cardinality((0..off - 1) \ Gone(plan))
         /\ MapOffset(plan, off) = off - Cardinality(Gone(plan) \cap (0..off - 1))
         /\ MapOffset(plan, off) \in Nat
<1> DEFINE P == {e \in plan : e.at < off}
           I == 0..off - 1
<1>1. Apart(P)
  BY SmallerPlan
<1>2. Gone(P) = Gone(plan) \cap I
  <2>1. \A b \in Gone(P) : b \in Gone(plan) /\ b \in I
    <3> SUFFICES ASSUME NEW b \in Gone(P) PROVE b \in Gone(plan) /\ b \in I
      OBVIOUS
    <3>1. PICK e \in P : e.at <= b /\ b < e.at + e.bytes /\ b \in Nat
      BY <1>1, GoneBytes
    <3>2. e.at + e.bytes <= off /\ e.at \in Nat /\ e.bytes \in Nat
      BY DEF Apart
    <3> QED BY <3>1, <3>2, GoneBytes
  <2>2. \A b \in Gone(plan) : b \in I => b \in Gone(P)
    <3> SUFFICES ASSUME NEW b \in Gone(plan), b \in I PROVE b \in Gone(P)
      OBVIOUS
    <3>1. PICK e \in plan : e.at <= b /\ b < e.at + e.bytes /\ b \in Nat
      BY GoneBytes
    <3>2. e.at < off
      BY <3>1 DEF Apart
    <3> QED BY <1>1, <3>1, <3>2, GoneBytes
  <2> QED BY <2>1, <2>2
<1>3. ShiftAt(plan, off) = Cardinality(Gone(plan) \cap I)
  BY <1>1, <1>2, ShiftCounts DEF ShiftAt
<1>4. IsFiniteSet(I) /\ Cardinality(I) = off
  BY FS_Interval
<1>5. Cardinality(I \ Gone(plan)) = Cardinality(I) - Cardinality(I \cap Gone(plan))
  BY <1>4, FS_Difference
<1>6. I \cap Gone(plan) = Gone(plan) \cap I
  OBVIOUS
<1> HIDE DEF I
<1>7. Cardinality(I \ Gone(plan)) \in Nat
  BY <1>4, FS_Difference, FS_CardinalityType
<1> QED BY <1>3, <1>4, <1>5, <1>6, <1>7 DEF MapOffset, I

\* The order of the natural numbers, for sorting bytes.
Increasing == {p \in Nat \X Nat : p[1] < p[2]}

\* The numbers of a set in increasing order.
Listing(B) == Ranked(B, Increasing)

\* The listing of a set of bytes has each of them once, in their order.
LEMMA ListingIs ==
  ASSUME NEW B, IsFiniteSet(B), B \subseteq Nat
  PROVE  /\ Cardinality(B) \in Nat
         /\ Listing(B) \in [1..Cardinality(B) -> B]
         /\ Listing(B) \in Seq(Nat) /\ Len(Listing(B)) = Cardinality(B)
         /\ ToSet(Listing(B)) = B
         /\ \A x \in B : /\ Cardinality(B \cap (0..x - 1)) + 1 \in 1..Cardinality(B)
                         /\ Listing(B)[Cardinality(B \cap (0..x - 1)) + 1] = x
<1>1. StrictOrder(B, Increasing)
  <2>1. \A x, y \in B : <<x, y>> \in Increasing <=> x < y
    BY DEF Increasing
  <2>2. \A x \in B : x \in Nat
    OBVIOUS
  <2> QED BY <2>1, <2>2 DEF StrictOrder
<1>2. \A x \in B : Lower(B, Increasing, x) = B \cap (0..x - 1)
  BY DEF Lower, Increasing
<1> DEFINE N == Cardinality(B)
<1>3. /\ N \in Nat /\ Listing(B) \in [1..N -> B]
      /\ \A x \in B : \E k \in 1..N : Listing(B)[k] = x
      /\ \A x \in B : /\ Cardinality(B \cap (0..x - 1)) + 1 \in 1..N
                      /\ Listing(B)[Cardinality(B \cap (0..x - 1)) + 1] = x
  <2>1. /\ N \in Nat /\ Ranked(B, Increasing) \in [1..N -> B]
        /\ \A x \in B : \E k \in 1..N : Ranked(B, Increasing)[k] = x
    BY <1>1, RankedOnce
  <2>2. \A x \in B : /\ Cardinality(Lower(B, Increasing, x)) + 1 \in 1..N
                     /\ Ranked(B, Increasing)[Cardinality(Lower(B, Increasing, x)) + 1] = x
    BY <1>1, RankedOnce
  <2> HIDE DEF N
  <2> QED BY <1>2, <2>1, <2>2 DEF Listing
<1> HIDE DEF N
<1>4. Listing(B) \in Seq(Nat) /\ Len(Listing(B)) = N
  <2>1. Listing(B) \in [1..N -> Nat]
    BY <1>3
  <2> QED BY <1>3, <2>1
<1>5. ToSet(Listing(B)) = B
  BY <1>3 DEF ToSet
<1> QED BY <1>3, <1>4, <1>5 DEF N

\* A listing increases.
LEMMA ListedOnce ==
  ASSUME NEW B, IsFiniteSet(B), B \subseteq Nat
  PROVE  \A j, k \in 1..Cardinality(B) : /\ Listing(B)[j] = Listing(B)[k] => j = k
                                         /\ j < k => Listing(B)[j] < Listing(B)[k]
<1>1. StrictOrder(B, Increasing)
  <2>1. \A x, y \in B : <<x, y>> \in Increasing <=> x < y
    BY DEF Increasing
  <2>2. \A x \in B : x \in Nat
    OBVIOUS
  <2> QED BY <2>1, <2>2 DEF StrictOrder
<1>2. \A j, k \in 1..Cardinality(B) :
        /\ Listing(B)[j] = Listing(B)[k] => j = k
        /\ j < k => <<Listing(B)[j], Listing(B)[k]>> \in Increasing
  BY <1>1, RankedOnce DEF Listing
<1> QED BY <1>2 DEF Increasing

\* The bytes of a run follow each other.
LEMMA RunIs ==
  ASSUME NEW a \in Nat, NEW b \in Nat, a <= b
  PROVE  /\ Run(a, b) \in Seq(Nat) /\ Len(Run(a, b)) = b - a
         /\ \A k \in 1..b - a : Run(a, b)[k] = a + k - 1
<1>1. b - a \in Nat
  OBVIOUS
<1>2. \A k \in 1..b - a : a + k - 1 \in Nat
  OBVIOUS
<1> QED BY <1>1, <1>2 DEF Run

\* The bytes of a run behind others follow them.
LEMMA ListingThenRun ==
  ASSUME NEW a \in Nat, NEW b \in Nat, a <= b, NEW B, B \subseteq 0..a - 1
  PROVE  Listing(B) \o Run(a, b) = Listing(B \cup (a..b - 1))
<1> DEFINE C == B \cup (a..b - 1)
           n == Cardinality(B)
           l == Listing(B)
           r == Run(a, b)
<1>1. IsFiniteSet(B) /\ B \subseteq Nat
  <2> DEFINE A == 0..a - 1
  <2>1. IsFiniteSet(A) /\ A \subseteq Nat /\ B \subseteq A
    BY FS_Interval
  <2> HIDE DEF A
  <2> QED BY <2>1, FS_Subset
<1>2. \A d \in a..b : IsFiniteSet(B \cup (a..d - 1)) /\ Cardinality(B \cup (a..d - 1)) = n + (d - a)
  <2> SUFFICES ASSUME NEW d \in a..b
               PROVE  IsFiniteSet(B \cup (a..d - 1)) /\ Cardinality(B \cup (a..d - 1)) = n + (d - a)
    OBVIOUS
  <2> DEFINE D == a..d - 1
  <2>1. IsFiniteSet(D) /\ Cardinality(D) = d - a
    <3>1. \A x, y \in Int : /\ IsFiniteSet(x..y)
                            /\ Cardinality(x..y) = IF x > y THEN 0 ELSE y - x + 1
      BY FS_Interval
    <3>2. a \in Int /\ d - 1 \in Int
      OBVIOUS
    <3>3. /\ IsFiniteSet(a..d - 1)
          /\ Cardinality(a..d - 1) = IF a > d - 1 THEN 0 ELSE d - 1 - a + 1
      BY <3>1, <3>2
    <3> QED BY <3>3
  <2>2. B \cap D = {}
    OBVIOUS
  <2> HIDE DEF D
  <2>3. Cardinality(B \cap D) = 0
    BY <2>2, FS_EmptySet
  <2>4. n \in Nat
    BY <1>1, FS_CardinalityType
  <2>5. IsFiniteSet(B \cup D) /\ Cardinality(B \cup D) = n + Cardinality(D) - Cardinality(B \cap D)
    BY <1>1, <2>1, FS_Union
  <2> HIDE DEF n
  <2> QED BY <2>1, <2>3, <2>4, <2>5 DEF D
<1>3. IsFiniteSet(C) /\ C \subseteq Nat /\ Cardinality(C) = n + (b - a)
  <2>1. b \in a..b
    OBVIOUS
  <2> HIDE DEF n
  <2> QED BY <1>1, <1>2, <2>1
<1>4. /\ n \in Nat /\ l \in Seq(Nat) /\ Len(l) = n /\ l \in [1..n -> B]
      /\ \A x \in B : /\ Cardinality(B \cap (0..x - 1)) + 1 \in 1..n
                      /\ l[Cardinality(B \cap (0..x - 1)) + 1] = x
  BY <1>1, ListingIs
<1>5. /\ Listing(C) \in Seq(Nat) /\ Len(Listing(C)) = n + (b - a)
      /\ \A x \in C : Listing(C)[Cardinality(C \cap (0..x - 1)) + 1] = x
  BY <1>3, ListingIs
<1>6. r \in Seq(Nat) /\ Len(r) = b - a /\ \A k \in 1..b - a : r[k] = a + k - 1
  BY RunIs
<1> HIDE DEF l, r, n
<1>7. /\ l \o r \in Seq(Nat) /\ Len(l \o r) = n + (b - a)
      /\ \A k \in 1..n + (b - a) : (l \o r)[k] = IF k <= n THEN l[k] ELSE r[k - n]
  <2>1. l \in Seq(Nat) /\ r \in Seq(Nat)
    BY <1>4, <1>6
  <2>2. /\ l \o r \in Seq(Nat) /\ Len(l \o r) = Len(l) + Len(r)
        /\ \A k \in 1..Len(l) + Len(r) : (l \o r)[k] = IF k <= Len(l) THEN l[k] ELSE r[k - Len(l)]
    BY <2>1, ConcatProperties
  <2>3. Len(l) = n /\ Len(r) = b - a
    BY <1>4, <1>6
  <2> QED BY <2>2, <2>3, Zenon
<1>8. ASSUME NEW k \in 1..n + (b - a) PROVE (l \o r)[k] = Listing(C)[k]
  <2>1. CASE k <= n
    <3> DEFINE x == l[k]
    <3>1. k \in 1..n /\ x \in B
      BY <1>4, <2>1
    <3>2. C \cap (0..x - 1) = B \cap (0..x - 1)
      <4> HIDE DEF x
      <4>1. x \in Nat /\ x < a
        BY <3>1
      <4> QED BY <4>1
    <3>3. PICK j \in 1..n : j = Cardinality(B \cap (0..x - 1)) + 1
      BY <1>4, <3>1
    <3>4. l[j] = l[k]
      BY <1>4, <3>1, <3>3
    <3>5. j = k
      <4>1. \A i, m \in 1..n : l[i] = l[m] => i = m
        BY <1>1, <1>4, ListedOnce DEF l, n
      <4> QED BY <3>1, <3>3, <3>4, <4>1
    <3>6. Listing(C)[k] = x
      BY <1>5, <3>1, <3>2, <3>3, <3>5
    <3> QED BY <1>7, <2>1, <3>6
  <2>2. CASE k > n
    <3> DEFINE x == a + (k - n) - 1
    <3>1. k - n \in 1..b - a /\ x \in a..b - 1 /\ x \in a..b
      BY <1>4, <2>2
    <3>2. C \cap (0..x - 1) = B \cup (a..x - 1)
      <4> HIDE DEF x
      <4>1. x \in Nat /\ a <= x /\ x <= b - 1
        BY <3>1
      <4>2. \A y : y \in C \cap (0..x - 1) <=> y \in B \cup (a..x - 1)
        <5>1. \A y \in B : y \in 0..x - 1
          BY <4>1
        <5>2. \A y \in a..b - 1 : y \in 0..x - 1 <=> y \in a..x - 1
          BY <4>1
        <5>3. \A y \in a..x - 1 : y \in a..b - 1
          BY <4>1
        <5> QED BY <5>1, <5>2, <5>3
      <4> QED BY <4>2, Zenon
    <3>3. Cardinality(C \cap (0..x - 1)) = n + (x - a)
      BY <1>2, <3>1, <3>2
    <3>4. x \in C
      BY <3>1
    <3>5. Listing(C)[n + (x - a) + 1] = x
      BY <1>5, <3>3, <3>4
    <3>6. n + (x - a) + 1 = k
      BY <1>4
    <3>7. r[k - n] = x
      BY <1>6, <3>1
    <3> QED BY <1>4, <1>7, <2>2, <3>5, <3>6, <3>7
  <2>3. k <= n \/ k > n
    <3>1. n \in Int /\ k \in Int
      BY <1>4
    <3> QED BY <3>1
  <2> QED BY <2>1, <2>2, <2>3, Zenon
<1> HIDE DEF C
<1>9. Len(l \o r) = Len(Listing(C))
  BY <1>5, <1>7
<1>10. l \o r = Listing(C)
  BY <1>5, <1>7, <1>8, <1>9, SeqEqual
<1> QED BY <1>10 DEF l, r, C

\* The edits of a plan, each of them once, by the bytes that they delete.
LEMMA OrderedEditsAre ==
  ASSUME NEW plan, Apart(plan)
  PROVE  LET n == Cardinality(plan)
             E == OrderedEdits(plan)
         IN  /\ n \in Nat /\ E \in [1..n -> plan]
             /\ \A e \in plan : \E k \in 1..n : E[k] = e
             /\ \A j, k \in 1..n : j < k => E[j].at + E[j].bytes <= E[k].at
<1> DEFINE n == Cardinality(plan)
           E == OrderedEdits(plan)
           R == {p \in plan \X plan : Before(p[1], p[2])}
<1>1. \A e, f \in plan : /\ <<e, f>> \in R <=> Before(e, f)
                         /\ Before(e, f) <=> e.at < f.at
  BY DEF Apart, Before
<1>2. \A e \in plan : e.at \in Nat /\ e.bytes \in Nat
  BY DEF Apart
<1>3. \A e, f \in plan : e.at < f.at => e.at + e.bytes <= f.at
  BY <1>2 DEF Apart
<1>4. StrictOrder(plan, R)
  <2>1. \A e, f \in plan : e = f \/ e.at < f.at \/ f.at < e.at
    BY DEF Apart
  <2>2. \A e \in plan : ~(e.at < e.at)
    BY <1>2
  <2>3. \A e, f, g \in plan : e.at < f.at /\ f.at < g.at => e.at < g.at
    BY <1>2
  <2> HIDE DEF R
  <2> QED BY <1>1, <2>1, <2>2, <2>3 DEF StrictOrder
<1>5. \A e \in plan : Lower(plan, R, e) = {x \in plan : Before(x, e)}
  BY <1>1 DEF Lower
<1> HIDE DEF R
<1>6. IsFiniteSet(plan)
  BY DEF Apart
<1>7. /\ n \in Nat /\ Ranked(plan, R) \in [1..n -> plan]
      /\ \A e \in plan : \E k \in 1..n : Ranked(plan, R)[k] = e
      /\ \A j, k \in 1..n : Ranked(plan, R)[j] = Ranked(plan, R)[k] => j = k
      /\ \A j, k \in 1..n : j < k => <<Ranked(plan, R)[j], Ranked(plan, R)[k]>> \in R
      /\ \A e \in plan : /\ Cardinality(Lower(plan, R, e)) + 1 \in 1..n
                         /\ Ranked(plan, R)[Cardinality(Lower(plan, R, e)) + 1] = e
  BY <1>4, <1>6, RankedOnce
<1> DEFINE rank(e) == Cardinality({x \in plan : Before(x, e)})
<1>8. \A e \in plan : rank(e) + 1 \in 1..n /\ Ranked(plan, R)[rank(e) + 1] = e
  BY <1>5, <1>7
<1>9. \A e \in plan : rank(e) \in Nat
  BY <1>6, FS_Subset, FS_CardinalityType
<1>10. E = [k \in 1..n |-> CHOOSE e \in plan : rank(e) = k - 1]
  BY DEF OrderedEdits
<1> HIDE DEF rank, n, E
<1>11. ASSUME NEW k \in 1..n PROVE E[k] = Ranked(plan, R)[k]
  <2> DEFINE e == Ranked(plan, R)[k]
  <2>1. e \in plan /\ rank(e) + 1 \in 1..n /\ Ranked(plan, R)[rank(e) + 1] = e
    BY <1>7, <1>8
  <2>2. rank(e) + 1 = k
    BY <1>7, <2>1
  <2>3. rank(e) = k - 1
    BY <1>7, <1>9, <2>1, <2>2
  <2>4. E[k] \in plan /\ rank(E[k]) = k - 1
    BY <1>10, <2>1, <2>3
  <2>5. rank(E[k]) + 1 = k
    BY <1>7, <2>4
  <2> QED BY <1>8, <2>4, <2>5
<1>12. E = Ranked(plan, R)
  <2>1. DOMAIN E = 1..n /\ DOMAIN Ranked(plan, R) = 1..n
    BY <1>7, <1>10
  <2>2. E = [k \in 1..n |-> E[k]]
    BY <1>10, <2>1
  <2>3. Ranked(plan, R) = [k \in 1..n |-> Ranked(plan, R)[k]]
    BY <1>7
  <2> QED BY <1>11, <2>2, <2>3
<1>13. \A j, k \in 1..n : j < k => E[j].at < E[k].at
  BY <1>1, <1>7, <1>12
<1>14. \A j, k \in 1..n : j < k => E[j].at + E[j].bytes <= E[k].at
  BY <1>3, <1>7, <1>12, <1>13
<1> QED BY <1>7, <1>12, <1>14 DEF n, E

\* Where the walk stands after the edits at some places of the order.
Resumed(E, I) == IF I = {} THEN 0 ELSE E[Max(I)].at + E[Max(I)].bytes

\* The edits at the places I of their order.
EditsAt(E, I) == {E[i] : i \in I}

\* What the writing of a section has after the edits at the places I.
Walked(E, I) ==
  [out |-> Listing((0..Resumed(E, I) - 1) \ Gone(EditsAt(E, I))), src |-> Resumed(E, I)]

\* The edit at the last place of I takes the walk from the places before it.
LEMMA WalkSteps ==
  ASSUME NEW plan, Apart(plan), NEW n \in Nat, NEW E \in [1..n -> plan],
         \A j, k \in 1..n : j < k => E[j].at + E[j].bytes <= E[k].at,
         NEW I \in SUBSET (1..n), I # {}
  PROVE  /\ Max(I) \in I
         /\ Walked(E, I) = MoveUpTo(Walked(E, I \ {Max(I)}), E[Max(I)])
         /\ Resumed(E, I) \in Nat
<1> DEFINE k == Max(I)
           J == I \ {k}
           e == E[k]
           a == Resumed(E, J)
           b == e.at
           c == e.at + e.bytes
           G == Gone(EditsAt(E, J))
           H == Gone(EditsAt(E, I))
<1>1. k \in I /\ \A i \in I : i <= k
  BY GreatestUpTo
<1>0. k \in 1..n /\ J \subseteq 1..n /\ \A i : i \in J <=> i \in I /\ i # k
  BY <1>1
<1> HIDE DEF k
<1>2. /\ e \in plan /\ b \in Nat /\ c \in Nat /\ b <= c
      /\ \A i \in 1..n : E[i].at \in Nat /\ E[i].bytes \in Nat /\ E[i] \in plan
  <2>1. \A i \in 1..n : E[i] \in plan
    OBVIOUS
  <2>2. \A i \in 1..n : E[i].at \in Nat /\ E[i].bytes \in Nat
    BY <2>1 DEF Apart
  <2> QED BY <1>0, <2>1, <2>2
<1>3. \A i \in J : i \in 1..n /\ i < k /\ E[i].at + E[i].bytes <= b
  <2>1. \A i \in J : i \in 1..n /\ k \in 1..n /\ i <= k /\ i # k
    BY <1>0, <1>1
  <2>2. \A i \in J : i < k
    BY <2>1
  <2> QED BY <2>1, <2>2
<1>4. J = {} \/ (Max(J) \in J /\ \A i \in J : i <= Max(J))
  BY <1>0, GreatestUpTo
<1> HIDE DEF J
<1>5. \A i \in J : E[i].at + E[i].bytes <= a
  <2> SUFFICES ASSUME NEW i \in J PROVE E[i].at + E[i].bytes <= a
    OBVIOUS
  <2> DEFINE m == Max(J)
  <2>1. m \in J /\ i <= m /\ m \in 1..n /\ i \in 1..n
    BY <1>3, <1>4
  <2>2. a = E[m].at + E[m].bytes
    BY DEF Resumed
  <2> HIDE DEF m, a
  <2>3. CASE i = m
    BY <1>2, <2>1, <2>2, <2>3
  <2>4. CASE i < m
    <3>1. E[i].at + E[i].bytes <= E[m].at
      BY <2>1, <2>4
    <3> QED BY <1>2, <2>1, <2>2, <3>1
  <2> QED BY <2>1, <2>3, <2>4
<1>6. a \in Nat /\ a <= b
  <2>1. CASE J = {}
    BY <1>2, <2>1 DEF Resumed
  <2>2. CASE J # {}
    <3> DEFINE m == Max(J)
    <3>1. m \in J /\ m \in 1..n /\ a = E[m].at + E[m].bytes
      BY <1>3, <1>4, <2>2 DEF Resumed
    <3> HIDE DEF m, a
    <3> QED BY <1>2, <1>3, <3>1
  <2> QED BY <2>1, <2>2
<1>7. Apart(EditsAt(E, J)) /\ Apart(EditsAt(E, I))
  <2>1. EditsAt(E, J) \in SUBSET plan /\ EditsAt(E, I) \in SUBSET plan
    BY <1>0, <1>2 DEF EditsAt
  <2> QED BY <2>1, SmallerPlan
<1>8. \A x : x \in G <=> x \in Nat /\ \E i \in J : E[i].at <= x /\ x < E[i].at + E[i].bytes
  BY <1>7, GoneBytes DEF EditsAt
<1>9. \A x : x \in H <=> x \in Nat /\ \E i \in I : E[i].at <= x /\ x < E[i].at + E[i].bytes
  BY <1>7, GoneBytes DEF EditsAt
<1>10. Resumed(E, I) = c
  BY DEF Resumed, k
<1> HIDE DEF a, b, c, G, H
<1>11. G \subseteq 0..a - 1
  <2> SUFFICES ASSUME NEW x \in G PROVE x \in 0..a - 1
    OBVIOUS
  <2>1. PICK i \in J : x \in Nat /\ x < E[i].at + E[i].bytes
    BY <1>8
  <2>2. E[i].at \in Nat /\ E[i].bytes \in Nat /\ E[i].at + E[i].bytes <= a
    BY <1>2, <1>3, <1>5
  <2> QED BY <1>6, <2>1, <2>2
<1>12. \A x \in Nat : x \in H <=> x \in G \/ (b <= x /\ x < c)
  <2>1. \A i : i \in I <=> i \in J \/ i = k
    BY <1>0, <1>1
  <2> QED BY <1>8, <1>9, <2>1 DEF b, c
<1>13. (0..c - 1) \ H = ((0..a - 1) \ G) \cup (a..b - 1)
  <2>1. \A x \in 0..c - 1 : x \notin H => x \in ((0..a - 1) \ G) \cup (a..b - 1)
    BY <1>2, <1>6, <1>12
  <2>2. \A x \in (0..a - 1) \ G : x \in 0..c - 1 /\ x \notin H
    BY <1>2, <1>6, <1>12
  <2>3. \A x \in a..b - 1 : x \in 0..c - 1 /\ x \notin H
    BY <1>2, <1>6, <1>11, <1>12
  <2> QED BY <2>1, <2>2, <2>3
<1>14. Listing((0..c - 1) \ H) = Listing((0..a - 1) \ G) \o Run(a, b)
  <2> DEFINE B == (0..a - 1) \ G
  <2>1. B \subseteq 0..a - 1
    OBVIOUS
  <2> HIDE DEF B
  <2>2. Listing(B) \o Run(a, b) = Listing(B \cup (a..b - 1))
    BY <1>2, <1>6, <2>1, ListingThenRun
  <2> QED BY <1>13, <2>2 DEF B
<1>15. Walked(E, I) = [out |-> Listing((0..c - 1) \ H), src |-> c]
  BY <1>10 DEF Walked, H
<1>16. Walked(E, J) = [out |-> Listing((0..a - 1) \ G), src |-> a]
  BY DEF Walked, a, G
<1>17. MoveUpTo(Walked(E, J), e) = [out |-> Listing((0..a - 1) \ G) \o Run(a, b), src |-> c]
  <2>1. MoveUpTo(Walked(E, J), e) =
          [out |-> Walked(E, J).out \o Run(Walked(E, J).src, b), src |-> c]
    BY DEF MoveUpTo, b, c
  <2>2. Walked(E, J).out = Listing((0..a - 1) \ G) /\ Walked(E, J).src = a
    BY <1>16
  <2> QED BY <2>1, <2>2
<1> HIDE DEF e
<1>18. Walked(E, I) = MoveUpTo(Walked(E, J), e)
  BY <1>14, <1>15, <1>17
<1> QED BY <1>1, <1>2, <1>10, <1>18 DEF J, k, e

\* The commit keeps the bytes that are not deleted, in their order.
LEMMA CommitKeeps ==
  ASSUME NEW plan, Apart(plan), NEW size \in Nat,
         \A e \in plan : e.at + e.bytes <= size
  PROVE  Compacted(plan, size) = Listing((0..size - 1) \ Gone(plan))
<1> DEFINE n == Cardinality(plan)
           E == OrderedEdits(plan)
           start == [out |-> <<>>, src |-> 0]
           g == [I \in SUBSET (1..n) |-> Walked(E, I)]
           Folds(f) == f = [I \in SUBSET (DOMAIN E) |->
                              IF I = {} THEN start
                              ELSE MoveUpTo(f[I \ {Max(I)}], E[Max(I)])]
           fold == CHOOSE f : Folds(f)
<1>1. /\ n \in Nat /\ E \in [1..n -> plan] /\ DOMAIN E = 1..n
      /\ \A e \in plan : \E k \in 1..n : E[k] = e
      /\ \A j, k \in 1..n : j < k => E[j].at + E[j].bytes <= E[k].at
  BY OrderedEditsAre
<1>2. FoldLeft(MoveUpTo, start, E) = fold[DOMAIN E]
  BY DEF FoldLeft, MapThenFoldSet
<1> HIDE DEF n, E
<1>3. \A I \in SUBSET (1..n) : I # {} =>
        /\ Max(I) \in I /\ Resumed(E, I) \in Nat
        /\ Walked(E, I) = MoveUpTo(Walked(E, I \ {Max(I)}), E[Max(I)])
  <2> SUFFICES ASSUME NEW I \in SUBSET (1..n), I # {}
               PROVE  /\ Max(I) \in I /\ Resumed(E, I) \in Nat
                      /\ Walked(E, I) = MoveUpTo(Walked(E, I \ {Max(I)}), E[Max(I)])
    OBVIOUS
  <2>1. n \in Nat /\ E \in [1..n -> plan]
    BY <1>1
  <2>2. \A j, k \in 1..n : j < k => E[j].at + E[j].bytes <= E[k].at
    BY <1>1
  <2> HIDE DEF g, fold, start, Folds
  <2>3. Apart(plan)
    OBVIOUS
  <2>4. /\ Max(I) \in I
        /\ Walked(E, I) = MoveUpTo(Walked(E, I \ {Max(I)}), E[Max(I)])
        /\ Resumed(E, I) \in Nat
    BY <2>1, <2>2, <2>3, WalkSteps, Zenon
  <2> QED BY <2>4
<1>4. Walked(E, {}) = start
  <2>1. 0..0 - 1 = {}
    OBVIOUS
  <2>2. Listing({}) = <<>>
    <3>1. IsFiniteSet({}) /\ Cardinality({}) = 0 /\ {} \subseteq Nat
      BY FS_EmptySet
    <3>2. Listing({}) \in Seq(Nat) /\ Len(Listing({})) = 0
      BY <3>1, ListingIs
    <3> QED BY <3>2, EmptySeq
  <2>3. Resumed(E, {}) = 0
    BY DEF Resumed
  <2>4. (0..0 - 1) \ Gone(EditsAt(E, {})) = {}
    BY <2>1
  <2> QED BY <2>2, <2>3, <2>4 DEF Walked
<1> HIDE DEF start
<1>5. Folds(g)
  <2>1. \A I \in SUBSET (1..n) : I \ {Max(I)} \in SUBSET (1..n)
    OBVIOUS
  <2> QED BY <1>1, <1>3, <1>4, <2>1
<1>6. Folds(fold)
  BY <1>5
<1> HIDE DEF fold
<1>7. \A k \in 1..n : fold[1..k - 1] = g[1..k - 1] => fold[1..k] = g[1..k]
  <2> SUFFICES ASSUME NEW k \in 1..n, fold[1..k - 1] = g[1..k - 1] PROVE fold[1..k] = g[1..k]
    OBVIOUS
  <2>1. 1..k \in SUBSET (1..n) /\ 1..k # {} /\ (1..k) \ {Max(1..k)} = 1..k - 1 /\ Max(1..k) = k
    BY <1>1, FirstPlaces
  <2>2. fold[1..k] = MoveUpTo(fold[1..k - 1], E[k]) /\ g[1..k] = MoveUpTo(g[1..k - 1], E[k])
    BY <1>1, <1>5, <1>6, <2>1
  <2> QED BY <2>2
<1>8. fold[1..0] = g[1..0]
  <2>1. 1..0 = {}
    OBVIOUS
  <2> QED BY <1>1, <1>5, <1>6, <2>1
<1> HIDE DEF g
<1>9. fold[1..n] = g[1..n]
  BY <1>1, <1>7, <1>8, AlikeUpTo
<1>10. FoldLeft(MoveUpTo, start, E) = Walked(E, 1..n)
  BY <1>1, <1>2, <1>9 DEF g
<1> DEFINE a == Resumed(E, 1..n)
<1>11. EditsAt(E, 1..n) = plan
  BY <1>1 DEF EditsAt
<1>12. a \in Nat /\ a <= size /\ Gone(plan) \subseteq 0..a - 1
  <2>1. CASE n = 0
    <3>1. 1..n = {} /\ plan = {}
      BY <1>1, <2>1
    <3> QED BY <3>1 DEF Resumed, Gone
  <2>2. CASE n # 0
    <3>1. 1..n # {} /\ 1..n \in SUBSET (1..n) /\ Max(1..n) = n /\ n \in 1..n
      BY <1>1, <2>2, FirstPlaces
    <3>2. a = E[n].at + E[n].bytes /\ E[n] \in plan /\ a \in Nat
      BY <1>1, <1>3, <3>1 DEF Resumed
    <3>3. \A e \in plan : e.at + e.bytes <= a
      <4> SUFFICES ASSUME NEW k \in 1..n PROVE E[k].at + E[k].bytes <= a
        BY <1>1
      <4>1. E[k] \in plan /\ E[k].at \in Nat /\ E[k].bytes \in Nat /\ E[n].at \in Nat /\ E[n].bytes \in Nat
        BY <1>1, <3>2 DEF Apart
      <4>2. k = n \/ E[k].at + E[k].bytes <= E[n].at
        BY <1>1, <3>1
      <4> QED BY <3>2, <4>1, <4>2
    <3>4. \A b \in Gone(plan) : b \in Nat /\ b < a
      <4> HIDE DEF a
      <4> SUFFICES ASSUME NEW b \in Gone(plan) PROVE b \in Nat /\ b < a
        OBVIOUS
      <4>1. PICK e \in plan : b \in Nat /\ e.at <= b /\ b < e.at + e.bytes
        BY GoneBytes
      <4>2. e.at \in Nat /\ e.bytes \in Nat
        BY DEF Apart
      <4> QED BY <3>2, <3>3, <4>1, <4>2
    <3> HIDE DEF a
    <3>5. a <= size
      BY <3>2 DEF a
    <3> QED BY <3>2, <3>4, <3>5
  <2> QED BY <2>1, <2>2
<1>13. Compacted(plan, size) = Listing((0..a - 1) \ Gone(plan)) \o Run(a, size)
  <2>1. Compacted(plan, size) = Walked(E, 1..n).out \o Run(Walked(E, 1..n).src, size)
    BY <1>10 DEF Compacted, start, E
  <2>2. Walked(E, 1..n).out = Listing((0..a - 1) \ Gone(plan)) /\ Walked(E, 1..n).src = a
    BY <1>11 DEF Walked
  <2> QED BY <2>1, <2>2
<1> HIDE DEF a
<1> DEFINE B == (0..a - 1) \ Gone(plan)
<1>14. B \subseteq 0..a - 1
  OBVIOUS
<1>15. B \cup (a..size - 1) = (0..size - 1) \ Gone(plan)
  <2>1. \A x \in a..size - 1 : x \in 0..size - 1 /\ x \notin Gone(plan)
    BY <1>12
  <2>2. \A x \in 0..size - 1 : x \in 0..a - 1 \/ x \in a..size - 1
    BY <1>12
  <2>3. \A x \in 0..a - 1 : x \in 0..size - 1
    BY <1>12
  <2> QED BY <2>1, <2>2, <2>3
<1> HIDE DEF B
<1>16. Listing(B) \o Run(a, size) = Listing(B \cup (a..size - 1))
  BY <1>12, <1>14, ListingThenRun
<1> QED BY <1>13, <1>15, <1>16 DEF B

\* What the commit writes: the bytes that are left, as many as the shift leaves;
\* the byte at a committed offset; and the bytes left of an offset.
LEMMA CommittedBytes ==
  ASSUME NEW plan, Apart(plan), NEW size \in Nat,
         \A e \in plan : e.at + e.bytes <= size
  PROVE  LET bytes == Compacted(plan, size)
         IN  /\ Len(bytes) = size - TotalShift(plan)
             /\ \A off \in Nat :
                  (\A e \in plan : e.at < off => e.at + e.bytes <= off) =>
                    /\ off \in ToSet(bytes) => bytes[CommittedOffset(plan, off) + 1] = off
                    /\ off - Cardinality({b \in 0..(off - 1) : b < size /\ b \notin ToSet(bytes)})
                         = MapOffset(plan, off)
<1> DEFINE bytes == Compacted(plan, size)
           G == Gone(plan)
           B == (0..size - 1) \ G
<1>1. bytes = Listing(B)
  BY CommitKeeps
<1>2. IsFiniteSet(G) /\ G \subseteq 0..size - 1
  <2>1. \A b \in G : b \in Nat /\ b < size
    <3> SUFFICES ASSUME NEW b \in G PROVE b \in Nat /\ b < size
      OBVIOUS
    <3>1. PICK e \in plan : b \in Nat /\ e.at <= b /\ b < e.at + e.bytes
      BY GoneBytes
    <3>2. e.at \in Nat /\ e.bytes \in Nat /\ e.at + e.bytes <= size
      BY DEF Apart
    <3> QED BY <3>1, <3>2
  <2> QED BY <2>1, GoneBytes
<1>3. TotalShift(plan) = Cardinality(G)
  BY ShiftCounts
<1>4. IsFiniteSet(B) /\ B \subseteq Nat /\ Cardinality(B) = size - Cardinality(G)
  <2> DEFINE I == 0..size - 1
  <2>1. IsFiniteSet(I) /\ Cardinality(I) = size
    BY FS_Interval
  <2>2. I \cap G = G
    BY <1>2
  <2> HIDE DEF I
  <2>3. IsFiniteSet(I \ G) /\ Cardinality(I \ G) = Cardinality(I) - Cardinality(I \cap G)
    BY <2>1, FS_Difference
  <2>4. B = I \ G /\ B \subseteq Nat
    BY DEF I
  <2> HIDE DEF B
  <2> QED BY <2>1, <2>2, <2>3, <2>4
<1> HIDE DEF B, G, bytes
<1>5. /\ Len(bytes) = Cardinality(B) /\ ToSet(bytes) = B
      /\ \A x \in B : bytes[Cardinality(B \cap (0..x - 1)) + 1] = x
  BY <1>1, <1>4, ListingIs
<1>6. ASSUME NEW off \in Nat, \A e \in plan : e.at < off => e.at + e.bytes <= off,
             off \in ToSet(bytes)
      PROVE  bytes[CommittedOffset(plan, off) + 1] = off
  <2>1. MapOffset(plan, off) = Cardinality((0..off - 1) \ G)
    BY <1>6, ShiftBefore DEF G
  <2>2. off \in B
    BY <1>5, <1>6
  <2>3. B \cap (0..off - 1) = (0..off - 1) \ G
    <3>1. off \in 0..size - 1
      BY <2>2 DEF B
    <3>2. \A x \in 0..off - 1 : x \in 0..size - 1
      BY <3>1
    <3> QED BY <3>2 DEF B
  <2> QED BY <1>5, <2>1, <2>2, <2>3 DEF CommittedOffset
<1>7. ASSUME NEW off \in Nat, \A e \in plan : e.at < off => e.at + e.bytes <= off
      PROVE  off - Cardinality({b \in 0..(off - 1) : b < size /\ b \notin ToSet(bytes)})
               = MapOffset(plan, off)
  <2>1. MapOffset(plan, off) = off - Cardinality(G \cap (0..off - 1))
    BY <1>7, ShiftBefore DEF G
  <2>2. {b \in 0..(off - 1) : b < size /\ b \notin B} = G \cap (0..off - 1)
    <3>1. \A b \in 0..off - 1 : b < size /\ b \notin B <=> b \in G
      BY <1>2 DEF B
    <3> QED BY <3>1
  <2> QED BY <1>5, <2>1, <2>2
<1> QED BY <1>3, <1>4, <1>5, <1>6, <1>7 DEF bytes

\* What the code is made of.
Fields ==
  {"plan", "as", "encoding", "record", "calls", "gps", "dropped", "applied",
   "padding", "failed"}

\* The code has its fields, and what is listed for the verification is recorded.
CodeInv ==
  /\ link \in Links
  /\ DOMAIN code = Fields
  /\ DOMAIN code.record = Sites
  /\ code.calls \in Seq(Recorded) /\ code.gps \in Seq(Recorded)

\* The cursor of a round counts its records, and an error ends the passes.
LoopInv ==
  /\ pc = "verify" => cursor \in Nat \ {0}
  /\ code.failed => pc = "error"
  /\ pc = "error" \/ code.failed = FALSE

\* What the refinement of the settle loop needs.
RefInv == CodeInv /\ LoopInv

------------------------------------------------------------------------------
\* What the decisions change of the code: a decision records its relocation, or
\* nothing, and padding is never recorded.
RecordsOne(d, c, i) ==
  /\ DOMAIN d = Fields /\ DOMAIN d.record = Sites
  /\ d.dropped = c.dropped /\ d.failed = c.failed
  /\ \A j \in Sites : j # i => d.record[j] = c.record[j]
  /\ d.record[i] # "none"
  /\ \/ d.calls = Append(c.calls, i) /\ d.gps = c.gps
     \/ d.calls = c.calls /\ d.gps = Append(c.gps, i)

\* A decision that records nothing.
RecordsNothing(d, c) ==
  /\ DOMAIN d = Fields
  /\ d.record = c.record /\ d.calls = c.calls /\ d.gps = c.gps
  /\ d.dropped = c.dropped

\* What is deferred to a verification is recorded.
LEMMA DeferredRecords ==
  ASSUME NEW c, NEW i \in Sites, NEW at, NEW bytes, NEW as, NEW kind,
         DOMAIN c = Fields, DOMAIN c.record = Sites, kind # "none"
  PROVE  /\ RecordsOne(DeferredCall(c, i, at, bytes, as, kind), c, i)
         /\ RecordsOne(DeferredGP(c, i, at, bytes, as, kind), c, i)
<1> DEFINE d == Deferred(c, i, at, bytes, as, kind)
<1>1. /\ DOMAIN d = Fields /\ DOMAIN d.record = Sites
      /\ d.dropped = c.dropped /\ d.failed = c.failed
      /\ d.calls = c.calls /\ d.gps = c.gps
      /\ \A j \in Sites : j # i => d.record[j] = c.record[j]
      /\ d.record[i] = kind
  BY DEF Deferred, Fields
<1> HIDE DEF d
<1>2. RecordsOne([d EXCEPT !.calls = Append(@, i)], c, i)
  BY <1>1 DEF RecordsOne, Fields
<1>3. RecordsOne([d EXCEPT !.gps = Append(@, i)], c, i)
  BY <1>1 DEF RecordsOne, Fields
<1> QED  BY <1>2, <1>3 DEF DeferredCall, DeferredGP, d

\* Padding is not recorded.
LEMMA AlignRecordsNothing ==
  ASSUME NEW c, NEW i \in Sites, DOMAIN c = Fields, c.failed = FALSE
  PROVE  /\ RecordsNothing(doRelaxationAlign(c, i), c)
         /\ doRelaxationAlign(c, i).failed \in BOOLEAN
BY DEF doRelaxationAlign, RecordsNothing, Fields

\* A decision records its relocation or nothing.
LEMMA DecidedRecords ==
  ASSUME NEW c, NEW i \in Sites, NEW pass,
         DOMAIN c = Fields, DOMAIN c.record = Sites, c.failed = FALSE,
         pass \in {RELAXATION_CALL, RELAXATION_PC, RELAXATION_LUI, RELAXATION_ALIGN}
  PROVE  LET d == Decided(c, pass, i)
         IN  \/ RecordsOne(d, c, i) /\ pass # RELAXATION_ALIGN
             \/ RecordsNothing(d, c) /\ d.failed \in BOOLEAN
<1> USE DEF RELAXATION_CALL, RELAXATION_PC, RELAXATION_LUI, RELAXATION_ALIGN
<1>1. RecordsNothing(c, c) /\ c.failed \in BOOLEAN
  BY Zenon DEF RecordsNothing
<1>2. CASE pass = RELAXATION_CALL
  <2>1. \/ RecordsOne(doRelaxationCall(c, i), c, i)
        \/ doRelaxationCall(c, i) = c
    BY DeferredRecords DEF doRelaxationCall
  <2>2. Decided(c, pass, i) = doRelaxationCall(c, i)
    BY <1>2 DEF Decided
  <2>3. pass # RELAXATION_ALIGN
    BY <1>2
  <2> QED  BY <1>1, <2>1, <2>2, <2>3, Zenon
<1>3. CASE pass = RELAXATION_PC
  <2>1. \/ RecordsOne(doRelaxationPC(c, i), c, i)
        \/ doRelaxationPC(c, i) = c
    BY DeferredRecords DEF doRelaxationPC
  <2>2. Decided(c, pass, i) = doRelaxationPC(c, i)
    BY <1>3 DEF Decided
  <2>3. pass # RELAXATION_ALIGN
    BY <1>3
  <2> QED  BY <1>1, <2>1, <2>2, <2>3, Zenon
<1>4. CASE pass = RELAXATION_LUI
  <2> DEFINE e == [c EXCEPT !.plan = AddEdit(@, Edit(i, Site(i).off + 2, 2)),
                            !.encoding[i] = "c.lui"]
  <2>1. RecordsNothing(e, c) /\ e.failed = c.failed
    BY DEF RecordsNothing, Fields
  <2>2. \/ RecordsOne(doRelaxationLui(c, i), c, i)
        \/ doRelaxationLui(c, i) = c
        \/ doRelaxationLui(c, i) = e
    BY DeferredRecords DEF doRelaxationLui
  <2>3. Decided(c, pass, i) = doRelaxationLui(c, i)
    BY <1>4 DEF Decided
  <2>4. pass # RELAXATION_ALIGN
    BY <1>4
  <2> HIDE DEF e
  <2>5. e.failed \in BOOLEAN
    BY <2>1, <1>1, Zenon
  <2> QED  BY <1>1, <2>1, <2>2, <2>3, <2>4, <2>5, Zenon
<1>5. CASE pass = RELAXATION_ALIGN
  <2>1. Decided(c, pass, i) = doRelaxationAlign(c, i)
    BY <1>5 DEF Decided
  <2> QED  BY <2>1, AlignRecordsNothing
<1> QED  BY <1>2, <1>3, <1>4, <1>5

------------------------------------------------------------------------------
\* A decision keeps what is listed among what is recorded.
LEMMA RecordedGrows ==
  ASSUME NEW d, NEW i \in Sites, CodeInv,
         RecordsOne(d, code, i) \/ RecordsNothing(d, code),
         code' = d, link' = link
  PROVE  /\ CodeInv'
         /\ code'.dropped = code.dropped
         /\ Recorded' \in {Recorded, Recorded \cup {i}}
<1> DEFINE R == {j \in Sites : d.record[j] # "none"}
<1>1. Recorded' = R /\ Sites' = Sites
  BY DEF Recorded, Sites
<1>2. CASE RecordsNothing(d, code)
  BY <1>2, <1>1 DEF RecordsNothing, CodeInv, Recorded
<1>3. CASE RecordsOne(d, code, i)
  <2>1. R = Recorded \cup {i}
    BY <1>3 DEF RecordsOne, Recorded
  <2>2. code.calls \in Seq(R) /\ code.gps \in Seq(R) /\ i \in R
    BY <2>1 DEF CodeInv
  <2> HIDE DEF R
  <2>3. d.calls \in Seq(R) /\ d.gps \in Seq(R)
    <3>1. Append(code.calls, i) \in Seq(R) /\ Append(code.gps, i) \in Seq(R)
      BY <2>2, AppendProperties
    <3> QED  BY <2>2, <1>3, <3>1 DEF RecordsOne
  <2>4. DOMAIN d = Fields /\ DOMAIN d.record = Sites /\ d.dropped = code.dropped
    BY <1>3 DEF RecordsOne
  <2>5. CodeInv'
    BY <1>1, <2>3, <2>4 DEF CodeInv
  <2> QED  BY <1>1, <2>1, <2>4, <2>5
<1> QED  BY <1>2, <1>3

\* A record of the verification is of something recorded.
LEMMA RecordsRecorded ==
  ASSUME CodeInv
  PROVE  \A k \in 1..Len(Records) : Records[k] \in Recorded
<1>1. Records \in Seq(Recorded)
  BY ConcatProperties DEF CodeInv, Records
<1> QED  BY <1>1

\* One step of a pass.
LEMMA DecideKeeps ==
  ASSUME NEW pass \in {RELAXATION_CALL, RELAXATION_PC, RELAXATION_LUI, RELAXATION_ALIGN},
         RefInv, pc # "error", pc # "verify", Decide(pass)
  PROVE  /\ RefInv'
         /\ code'.dropped = code.dropped
         /\ \/ Recorded' = Recorded
            \/ /\ \E i \in Sites : Recorded' = Recorded \cup {i}
               /\ code'.failed = FALSE
               /\ pass # RELAXATION_ALIGN
         /\ pc' = IF code'.failed THEN "error" ELSE pc
<1>1. PICK i \in Sites : code' = Decided(code, pass, i)
  BY DEF Decide, ToVisit
<1> DEFINE d == Decided(code, pass, i)
<1>2. code.failed = FALSE
  BY DEF RefInv, LoopInv
<1>3. \/ RecordsOne(d, code, i) /\ pass # RELAXATION_ALIGN
      \/ RecordsNothing(d, code) /\ d.failed \in BOOLEAN
  BY <1>2, DecidedRecords DEF RefInv, CodeInv
<1>4. UNCHANGED link /\ pc' = IF code'.failed THEN "error" ELSE pc
  BY DEF Decide
<1> HIDE DEF d
<1>5. code' = d
  BY <1>1 DEF d
<1>6. /\ CodeInv' /\ code'.dropped = code.dropped
      /\ Recorded' \in {Recorded, Recorded \cup {i}}
  BY <1>3, <1>4, <1>5, RecordedGrows DEF RefInv
<1>7. CASE RecordsOne(d, code, i) /\ pass # RELAXATION_ALIGN
  <2>1. code'.failed = FALSE
    BY <1>7, <1>5, <1>2 DEF RecordsOne
  <2> QED  BY <1>4, <1>6, <1>7, <2>1 DEF RefInv, LoopInv
<1>8. CASE RecordsNothing(d, code) /\ d.failed \in BOOLEAN
  <2>1. Recorded' = Recorded
    BY <1>8, <1>5, <1>4 DEF RecordsNothing, Recorded, Sites
  <2>2. (code.failed => pc = "error")' /\ (pc = "error" \/ code.failed = FALSE)'
    BY <1>4, <1>5, <1>8, Zenon
  <2>3. (pc = "verify" => cursor \in Nat \ {0})'
    BY <1>4
  <2> QED  BY <1>4, <1>6, <2>1, <2>2, <2>3 DEF RefInv, LoopInv
<1> QED  BY <1>3, <1>7, <1>8

\* A pass that visits a relocation is one of the four.
LEMMA PassesThatVisit ==
  ASSUME NEW pass, Decide(pass)
  PROVE  pass \in {RELAXATION_CALL, RELAXATION_PC, RELAXATION_LUI, RELAXATION_ALIGN}
BY DEF Decide, ToVisit, Handles

------------------------------------------------------------------------------
\* The invariant of the refinement.
LEMMA RefInvHolds == Spec => []RefInv
<1>1. Init => RefInv
  <2> SUFFICES ASSUME Init
               PROVE  RefInv
    OBVIOUS
  <2>1. /\ DOMAIN code = Fields /\ DOMAIN code.record = Sites
        /\ code.calls = <<>> /\ code.gps = <<>> /\ code.failed = FALSE
    BY DEF Init, InitialCode, Fields
  <2>2. code.calls \in Seq(Recorded) /\ code.gps \in Seq(Recorded)
    BY <2>1
  <2> QED  BY <2>1, <2>2 DEF Init, RefInv, CodeInv, LoopInv
<1>2. RefInv /\ [Next]_vars => RefInv'
  <2> SUFFICES ASSUME RefInv, [Next]_vars
               PROVE  RefInv'
    OBVIOUS
  <2>1. ASSUME UNCHANGED <<link, code>>, pc' # "verify",
               (pc # "error" /\ code.failed = FALSE) \/ UNCHANGED pc
        PROVE  RefInv'
    BY <2>1, Zenon DEF RefInv, CodeInv, LoopInv, Recorded, Sites
  <2>2. CASE Converge
    BY <2>2, <2>1 DEF Converge, RefInv, LoopInv
  <2>3. CASE Visit
    BY <2>3, DecideKeeps, PassesThatVisit DEF Visit
  <2>4. CASE Redecide
    BY <2>4, DecideKeeps, PassesThatVisit DEF Redecide
  <2>5. CASE EndPass \/ Finish \/ EndRedecision \/ GiveUp
    BY <2>5, <2>1 DEF EndPass, Finish, EndRedecision, GiveUp, RefInv, LoopInv
  <2>6. CASE StartRound
    BY <2>6 DEF StartRound, RefInv, CodeInv, LoopInv, Recorded, Sites
  <2>7. CASE Verify
    <3>1. UNCHANGED <<link, pc>> /\ cursor' \in Nat \ {0} /\ code.failed = FALSE
      BY <2>7 DEF Verify, RefInv, LoopInv
    <3>2. /\ DOMAIN code' = Fields /\ code'.record = code.record
          /\ code'.calls = code.calls /\ code'.gps = code.gps
          /\ code'.failed = code.failed
      BY <2>7 DEF Verify, Reject, RefInv, CodeInv, Fields
    <3> QED  BY <3>1, <3>2 DEF RefInv, CodeInv, LoopInv, Recorded, Sites
  <2>8. CASE Retry
    <3>1. UNCHANGED link /\ pc' = "resettle" /\ code.failed = FALSE
      BY <2>8 DEF Retry, EndRound, RefInv, LoopInv
    <3>2. /\ DOMAIN code' = Fields /\ code'.record = code.record
          /\ code'.calls = code.calls /\ code'.gps = code.gps
          /\ code'.failed = code.failed
      BY <2>8 DEF Retry, UndoAligns, RefInv, CodeInv, Fields
    <3> QED  BY <3>1, <3>2 DEF RefInv, CodeInv, LoopInv, Recorded, Sites
  <2>9. CASE Sync \/ Commit
    BY <2>9, <2>1 DEF Sync, Commit, EndRound, RefInv, LoopInv
  <2>10. CASE CommitSection
    <3>1. UNCHANGED link /\ pc' # "verify" /\ code.failed = FALSE /\ pc' # "error"
      BY <2>10 DEF CommitSection, RefInv, LoopInv
    <3>2. /\ DOMAIN code' = Fields /\ code'.record = code.record
          /\ code'.calls = code.calls /\ code'.gps = code.gps
          /\ code'.failed = code.failed
      BY <2>10 DEF CommitSection, RefInv, CodeInv, Fields
    <3> QED  BY <3>1, <3>2 DEF RefInv, CodeInv, LoopInv, Recorded, Sites
  <2>11. CASE UNCHANGED vars
    BY <2>11 DEF vars, RefInv, CodeInv, LoopInv, Recorded, Sites
  <2> QED  BY <2>2, <2>3, <2>4, <2>5, <2>6, <2>7, <2>8, <2>9, <2>10, <2>11 DEF Next
<1> QED  BY <1>1, <1>2, PTL DEF Spec

------------------------------------------------------------------------------
\* A step that changes neither the records nor the rounds is a stutter, or one
\* that only the status tells.
Quiet == UNCHANGED <<Recorded, code.dropped, anyDropped, layoutChanged, rounds>>

\* These steps record nothing and find no error.
LEMMA QuietSteps ==
  ASSUME RefInv,
         Converge \/ EndPass \/ Finish \/ EndRedecision \/ GiveUp \/ Commit \/ CommitSection
  PROVE  Quiet /\ code.failed = FALSE /\ code'.failed = FALSE
<1>1. code.failed = FALSE
  BY DEF RefInv, LoopInv, Converge, EndPass, Finish, EndRedecision, GiveUp, Commit,
         EndRound, CommitSection
<1>2. CASE Converge \/ EndPass \/ Finish \/ EndRedecision \/ GiveUp
  BY <1>1, <1>2 DEF Converge, EndPass, Finish, EndRedecision, GiveUp, Quiet, Settling,
                    Recorded, Sites
<1>3. CASE Commit
  BY <1>1, <1>3 DEF Commit, EndRound, Quiet, Recorded, Sites
<1>4. CASE CommitSection
  <2>1. code'.record = code.record /\ code'.dropped = code.dropped
        /\ code'.failed = code.failed
    BY <1>4 DEF CommitSection, RefInv, CodeInv, Fields
  <2>2. UNCHANGED <<link, anyDropped, layoutChanged, rounds>>
    BY <1>4 DEF CommitSection
  <2> QED  BY <1>1, <2>1, <2>2 DEF Quiet, Recorded, Sites
<1> QED  BY <1>2, <1>3, <1>4

\* The count of the abstract loop, reached through INSTANCE, is that of
\* FiniteSets.
LEMMA SameCardinality ==
  ASSUME NEW S
  PROVE  SettleLoop!Cardinality(S) = Cardinality(S)
BY DEF SettleLoop!Cardinality, Cardinality, SettleLoop!IsFiniteSet, IsFiniteSet

\* The relocations of a link are among those of all links.
LEMMA SitesAmongAll ==
  ASSUME RefInv
  PROVE  Sites \subseteq AllSites /\ Recorded \subseteq Sites
BY DEF RefInv, CodeInv, Sites, AllSites, Recorded

\* A step of a pass records, aborts, or is a stutter.
LEMMA DecideRefines ==
  ASSUME NEW pass, RefInv, Decide(pass), pc \in {"pass", "settle"},
         pc = "settle" => pass = RELAXATION_ALIGN
  PROVE  [SettleLoop!Next]_(SettleLoop!vars)
<1>1. /\ code'.dropped = code.dropped
      /\ \/ Recorded' = Recorded
         \/ /\ \E i \in Sites : Recorded' = Recorded \cup {i}
            /\ code'.failed = FALSE
            /\ pass # RELAXATION_ALIGN
      /\ pc' = IF code'.failed THEN "error" ELSE pc
  BY PassesThatVisit, DecideKeeps
<1>2. code.failed = FALSE /\ UNCHANGED <<anyDropped, rounds, layoutChanged>>
  BY DEF Decide, Settling, RefInv, LoopInv
<1>3. CASE Recorded' = Recorded /\ code'.failed
  <2>1. SettleLoop!Abort
    BY <1>1, <1>2, <1>3 DEF SettleLoop!Abort
  <2> QED  BY <2>1 DEF SettleLoop!Next
<1>4. CASE Recorded' = Recorded /\ ~code'.failed
  BY <1>1, <1>2, <1>4 DEF SettleLoop!vars
<1>5. CASE /\ \E i \in Sites : Recorded' = Recorded \cup {i}
           /\ code'.failed = FALSE
           /\ pass # RELAXATION_ALIGN
  <2>1. SettleLoop!Record
    BY <1>1, <1>2, <1>5, SitesAmongAll DEF SettleLoop!Record
  <2> QED  BY <2>1 DEF SettleLoop!Next
<1> QED  BY <1>1, <1>3, <1>4, <1>5

\* postRelax is a settle loop, for all links.
THEOREM SettleRefinement == Spec => ImplementsSettleLoop
<1>1. Init => SettleLoop!Init
  <2> SUFFICES ASSUME Init
               PROVE  SettleLoop!Init
    OBVIOUS
  <2>1. code.failed = FALSE /\ code.dropped = {} /\ code.record = [i \in Sites |-> "none"]
    BY DEF Init, InitialCode
  <2>2. Recorded = {}
    BY <2>1 DEF Recorded
  <2>3. anyDropped = FALSE /\ layoutChanged = FALSE /\ rounds = 0 /\ pc = "layout"
    BY DEF Init
  <2> QED  BY <2>1, <2>2, <2>3 DEF SettleLoop!Init
<1>2. RefInv /\ [Next]_vars => [SettleLoop!Next]_(SettleLoop!vars)
  <2> SUFFICES ASSUME RefInv, [Next]_vars
               PROVE  [SettleLoop!Next]_(SettleLoop!vars)
    OBVIOUS
  <2>1. CASE Converge
    BY <2>1, QuietSteps DEF Converge, Quiet, SettleLoop!vars
  <2>2. CASE Visit
    BY <2>2, DecideRefines DEF Visit
  <2>3. CASE EndPass
    BY <2>3, QuietSteps DEF EndPass, Quiet, SettleLoop!vars
  <2>4. CASE Finish
    <3>1. SettleLoop!Settle
      BY <2>4, QuietSteps DEF Finish, Quiet, SettleLoop!Settle
    <3> QED  BY <3>1 DEF SettleLoop!Next
  <2>5. CASE Redecide
    BY <2>5, DecideRefines DEF Redecide
  <2>6. CASE EndRedecision
    BY <2>6, QuietSteps DEF EndRedecision, Quiet, SettleLoop!vars
  <2>7. CASE StartRound
    <3>1. code.failed = FALSE /\ Recorded' = Recorded
      BY <2>7 DEF StartRound, RefInv, LoopInv, Recorded, Sites
    <3>2. SettleLoop!StartRound
      BY <2>7, <3>1, SameCardinality DEF StartRound, SettleLoop!StartRound
    <3> QED  BY <3>2 DEF SettleLoop!Next
  <2>8. CASE GiveUp
    <3>1. SettleLoop!GiveUp
      BY <2>8, QuietSteps, SameCardinality DEF GiveUp, Quiet, SettleLoop!GiveUp
    <3> QED  BY <3>1 DEF SettleLoop!Next
  <2>9. CASE Verify
    <3> DEFINE i == Records[cursor]
               drops == i \notin code.dropped /\ ~Fits(code.plan, i)
    <3>1. /\ pc = "verify" /\ code.failed = FALSE
          /\ UNCHANGED <<link, rounds, layoutChanged, pc>>
          /\ anyDropped' = IF drops THEN TRUE ELSE anyDropped
          /\ code' = IF drops THEN Reject(code, i) ELSE code
      BY <2>9 DEF Verify, RefInv, LoopInv
    <3>2. i \in Recorded
      BY <2>9, RecordsRecorded DEF Verify, RefInv, LoopInv
    <3> HIDE DEF i
    <3>3. CASE drops
      <4>1. /\ code'.record = code.record /\ code'.failed = code.failed
            /\ code'.dropped = code.dropped \cup {i}
        BY <3>1, <3>3 DEF Reject, RefInv, CodeInv, Fields
      <4>2. Recorded' = Recorded
        BY <4>1, <3>1 DEF Recorded, Sites
      <4>3. SettleLoop!Reject
        BY <3>1, <3>2, <3>3, <4>1, <4>2 DEF SettleLoop!Reject
      <4> QED  BY <4>3 DEF SettleLoop!Next
    <3>4. CASE ~drops
      <4>1. code' = code /\ Recorded' = Recorded
        BY <3>1, <3>4 DEF Recorded, Sites
      <4>2. anyDropped' = anyDropped
        BY <3>1, <3>4
      <4> QED  BY <3>1, <4>1, <4>2 DEF SettleLoop!vars
    <3> QED  BY <3>3, <3>4
  <2>10. CASE Retry
    <3>1. /\ code'.record = code.record /\ code'.failed = code.failed
          /\ code'.dropped = code.dropped
      BY <2>10 DEF Retry, UndoAligns, RefInv, CodeInv, Fields
    <3>2. code.failed = FALSE /\ Recorded' = Recorded
      BY <2>10, <3>1 DEF Retry, EndRound, RefInv, LoopInv, Recorded, Sites
    <3>3. SettleLoop!Retry
      BY <2>10, <3>1, <3>2 DEF Retry, EndRound, SettleLoop!Retry
    <3> QED  BY <3>3 DEF SettleLoop!Next
  <2>11. CASE Sync
    <3>1. code.failed = FALSE /\ Recorded' = Recorded
      BY <2>11 DEF Sync, EndRound, RefInv, LoopInv, Recorded, Sites
    <3>2. SettleLoop!Sync
      BY <2>11, <3>1 DEF Sync, EndRound, SettleLoop!Sync
    <3> QED  BY <3>2 DEF SettleLoop!Next
  <2>12. CASE Commit
    <3>1. SettleLoop!Commit
      BY <2>12, QuietSteps DEF Commit, EndRound, Quiet, SettleLoop!Commit
    <3> QED  BY <3>1 DEF SettleLoop!Next
  <2>13. CASE CommitSection
    BY <2>13, QuietSteps DEF CommitSection, Quiet, SettleLoop!vars
  <2>14. CASE UNCHANGED vars
    BY <2>14 DEF vars, SettleLoop!vars, Recorded, Sites
  <2> QED  BY <2>1, <2>2, <2>3, <2>4, <2>5, <2>6, <2>7, <2>8, <2>9, <2>10, <2>11, <2>12,
              <2>13, <2>14 DEF Next
<1> QED  BY <1>1, <1>2, RefInvHolds, PTL DEF Spec, ImplementsSettleLoop, SettleLoop!Spec

------------------------------------------------------------------------------
\* Numbers.

\* AlignUp takes a number to the next multiple.
LEMMA AlignUpIs ==
  ASSUME NEW v \in Int, NEW a \in Nat \ {0}
  PROVE  /\ AlignUp(v, a) \in Int /\ v <= AlignUp(v, a) /\ AlignUp(v, a) < v + a
         /\ \E k \in Int : AlignUp(v, a) = k * a
<1>1. AlignUp(v, a) \in Int /\ v <= AlignUp(v, a) /\ AlignUp(v, a) < v + a
  BY DEF AlignUp
<1>2. \E k \in Int : AlignUp(v, a) = k * a
  BY DEF AlignUp
<1> QED BY <1>1, <1>2

\* Sums and differences of multiples are multiples.
LEMMA Multiples ==
  ASSUME NEW a \in Nat \ {0}, NEW j \in Int, NEW k \in Int
  PROVE  /\ j * a + k * a = (j + k) * a
         /\ j * a - k * a = (j - k) * a
         /\ (k * a) % a = 0
<1>1. j * a + k * a = (j + k) * a
  OBVIOUS
<1>2. j * a - k * a = (j - k) * a
  OBVIOUS
<1>3. (k * a) % a = 0
  OBVIOUS
<1> QED BY <1>1, <1>2, <1>3

\* A multiple of a multiple is a multiple.
LEMMA MultipleOfMultiple ==
  ASSUME NEW a \in Nat, NEW j \in Int, NEW k \in Int
  PROVE  k * (j * a) = (k * j) * a
OBVIOUS

------------------------------------------------------------------------------
\* Addresses.

\* The address of a section, given those of the sections before.
Behind(at, size, s) ==
  LET sec == link.sections[s]
  IN  IF sec.base # Follow THEN sec.base
      ELSE AlignUp(IF s = 1 THEN 0 ELSE at[s - 1] + size[s - 1], sec.align)

\* What the assumption on links says of sections.
LEMMA SectionFacts ==
  ASSUME link \in Links
  PROVE  /\ Len(link.sections) \in Nat \ {0} /\ Sections = 1..Len(link.sections)
         /\ \A s \in Sections : /\ link.sections[s].base \in {Follow} \cup Nat
                                /\ link.sections[s].align \in Nat \ {0}
                                /\ link.sections[s].size \in Nat
BY LinksAssumption DEF Sections

\* The recursive function that places sections behind each other exists.
LEMMA PlacedExists ==
  ASSUME link \in Links, NEW size
  PROVE  Placed(size) = [s \in Sections |-> Behind(Placed(size), size, s)]
<1> DEFINE N == Len(link.sections)
           Places(f, k) == f = [s \in 1..k |-> Behind(f, size, s)]
           Fails == {k \in 0..N : ~ \E f : Places(f, k)}
<1>1. N \in Nat /\ Sections = 1..N
  BY SectionFacts
<1>2. ASSUME Fails # {} PROVE FALSE
  <2> DEFINE k == Min(Fails)
  <2>1. k \in Fails /\ \A j \in Fails : k <= j
    <3>1. Fails \subseteq Nat
      OBVIOUS
    <3> HIDE DEF Fails
    <3> QED BY <1>2, <3>1, LeastNatural
  <2> HIDE DEF k
  <2>2. k \in 0..N /\ ~ \E f : Places(f, k)
    BY <2>1
  <2>3. k # 0
    <3>1. Places([s \in 1..0 |-> 0], 0)
      OBVIOUS
    <3> QED BY <2>2, <3>1
  <2>4. k - 1 \in 0..N /\ k - 1 \notin Fails
    BY <1>1, <2>1, <2>2, <2>3
  <2>5. PICK g : Places(g, k - 1)
    BY <2>4
  <2> DEFINE f == [s \in 1..k |-> IF s = k THEN Behind(g, size, k) ELSE g[s]]
  <2>6. \A s \in 1..k : s # k => s \in 1..k - 1 /\ (s # 1 => s - 1 \in 1..k - 1)
    BY <2>2
  <2>7. k # 1 => k - 1 \in 1..k - 1
    BY <2>2, <2>3
  <2>8. \A j \in 1..k - 1 : f[j] = g[j]
    BY <2>2
  <2>9. \A s \in 1..k : f[s] = Behind(g, size, s)
    BY <2>5, <2>6
  <2>10. \A s \in 1..k : Behind(f, size, s) = Behind(g, size, s)
    <3> SUFFICES ASSUME NEW s \in 1..k PROVE Behind(f, size, s) = Behind(g, size, s)
      OBVIOUS
    <3>1. CASE s = 1
      BY <3>1 DEF Behind
    <3>2. CASE s # 1
      <4>1. s - 1 \in 1..k - 1
        BY <2>2, <3>2
      <4>2. f[s - 1] = g[s - 1]
        BY <2>8, <4>1
      <4> HIDE DEF f
      <4> QED BY <4>2 DEF Behind
    <3> QED BY <3>1, <3>2
  <2>11. DOMAIN f = 1..k /\ f = [s \in 1..k |-> f[s]]
    OBVIOUS
  <2> HIDE DEF f
  <2>12. Places(f, k)
    BY <2>9, <2>10, <2>11
  <2> QED BY <2>2, <2>12
<1>3. \E f : Places(f, N)
  <2>1. N \in 0..N
    BY <1>1
  <2> QED BY <1>2, <2>1
<1>4. \E f : f = [s \in Sections |-> Behind(f, size, s)]
  BY <1>1, <1>3
<1> HIDE DEF Places, Fails
<1>5. Placed(size) = CHOOSE f : f = [s \in Sections |-> Behind(f, size, s)]
  BY DEF Placed, Behind
<1> QED BY <1>4, <1>5, Zenon

\* Sections have addresses, and one that follows another has its own alignment.
LEMMA PlacedIs ==
  ASSUME link \in Links, NEW size \in [Sections -> Int]
  PROVE  /\ Placed(size) \in [Sections -> Int]
         /\ \A s \in Sections :
              /\ link.sections[s].base # Follow => Placed(size)[s] = link.sections[s].base
              /\ link.sections[s].base = Follow =>
                   \E k \in Int : Placed(size)[s] = k * link.sections[s].align
<1> DEFINE at == Placed(size)
           Fails == {s \in Sections : at[s] \notin Int}
<1>1. at = [s \in Sections |-> Behind(at, size, s)]
  BY PlacedExists
<1>2. /\ Len(link.sections) \in Nat \ {0} /\ Sections = 1..Len(link.sections)
      /\ \A s \in Sections : /\ link.sections[s].base \in {Follow} \cup Nat
                             /\ link.sections[s].align \in Nat \ {0}
  BY SectionFacts
<1> HIDE DEF at
<1>3. ASSUME NEW s \in Sections, s # 1 => at[s - 1] \in Int
      PROVE  /\ at[s] \in Int
             /\ link.sections[s].base # Follow => at[s] = link.sections[s].base
             /\ link.sections[s].base = Follow =>
                  \E k \in Int : at[s] = k * link.sections[s].align
  <2> DEFINE sec == link.sections[s]
             v == IF s = 1 THEN 0 ELSE at[s - 1] + size[s - 1]
  <2>1. v \in Int
    <3>1. s # 1 => s - 1 \in Sections
      BY <1>2
    <3> QED BY <1>3, <3>1
  <2>2. at[s] = IF sec.base # Follow THEN sec.base ELSE AlignUp(v, sec.align)
    BY <1>1 DEF Behind
  <2>3. sec.base \in {Follow} \cup Nat /\ sec.align \in Nat \ {0}
    BY <1>2
  <2> HIDE DEF v, sec
  <2>4. AlignUp(v, sec.align) \in Int /\ \E k \in Int : AlignUp(v, sec.align) = k * sec.align
    BY <2>1, <2>3, AlignUpIs
  <2> QED BY <2>2, <2>3, <2>4 DEF sec
<1>4. ASSUME Fails # {} PROVE FALSE
  <2> DEFINE k == Min(Fails)
  <2>1. k \in Fails /\ \A j \in Fails : k <= j
    <3>1. Fails \subseteq Nat
      BY <1>2
    <3> HIDE DEF Fails
    <3> QED BY <1>4, <3>1, LeastNatural
  <2> HIDE DEF k
  <2>2. k \in Sections /\ at[k] \notin Int
    BY <2>1
  <2>3. k # 1 => at[k - 1] \in Int
    <3>1. k # 1 => k - 1 \in Sections /\ ~(k <= k - 1)
      BY <1>2, <2>2
    <3> QED BY <2>1, <3>1
  <2> QED BY <1>3, <2>2, <2>3
<1>5. \A s \in Sections : at[s] \in Int
  BY <1>4
<1>6. \A s \in Sections : s # 1 => s - 1 \in Sections
  BY <1>2
<1> QED BY <1>1, <1>3, <1>5, <1>6 DEF at

------------------------------------------------------------------------------
\* Relocations, labels and plans.

\* Where the code of a relocation ends.
End(i) == Site(i).off + Extent(Site(i))

\* What the assumption on links says of relocations.
LEMMA SiteFacts ==
  ASSUME link \in Links
  PROVE  /\ Len(link.sites) \in Nat /\ Sites = 1..Len(link.sites) /\ IsFiniteSet(Sites)
         /\ \A i \in Sites :
              /\ i \in Nat \ {0}
              /\ Site(i).off \in Nat /\ Site(i).addend \in Nat /\ Site(i).size \in Nat
              /\ Site(i).kind \in {"call", "pcrel_hi", "pcrel_lo", "hi20", "lo12", "align"}
              /\ Site(i).sect \in Sections
              /\ Extent(Site(i)) \in Nat /\ End(i) \in Nat
              /\ Site(i).kind = "call" => End(i) = Site(i).off + 8
              /\ Site(i).kind = "align" => End(i) = Site(i).off + Site(i).addend
              /\ Site(i).kind \notin {"call", "align"} => End(i) = Site(i).off + 4
              /\ Site(i).off <= End(i) /\ End(i) <= link.sections[Site(i).sect].size
         /\ \A i, j \in Sites : i < j /\ Site(i).sect = Site(j).sect => End(i) <= Site(j).off
<1>1. /\ Len(link.sites) \in Nat /\ Sites = 1..Len(link.sites)
      /\ SitesInOrder(link.sections, link.sites)
  BY LinksAssumption DEF Sites
<1>2. IsFiniteSet(Sites)
  BY <1>1, FS_Interval
<1>3. ASSUME NEW i \in Sites
      PROVE  /\ i \in Nat \ {0}
             /\ Site(i).off \in Nat /\ Site(i).addend \in Nat /\ Site(i).size \in Nat
             /\ Site(i).kind \in {"call", "pcrel_hi", "pcrel_lo", "hi20", "lo12", "align"}
             /\ Site(i).sect \in Sections
             /\ End(i) <= link.sections[Site(i).sect].size
  BY <1>1 DEF SitesInOrder, Sites, Site, Sections, End
<1>4. \A i \in Sites :
        /\ Site(i).kind = "call" => Extent(Site(i)) = 8
        /\ Site(i).kind = "align" => Extent(Site(i)) = Site(i).addend
        /\ Site(i).kind \notin {"call", "align"} => Extent(Site(i)) = 4
  BY DEF Extent
<1>5. ASSUME NEW i \in Sites
      PROVE  /\ Extent(Site(i)) \in Nat /\ End(i) \in Nat /\ Site(i).off <= End(i)
             /\ Site(i).kind = "call" => End(i) = Site(i).off + 8
             /\ Site(i).kind = "align" => End(i) = Site(i).off + Site(i).addend
             /\ Site(i).kind \notin {"call", "align"} => End(i) = Site(i).off + 4
  <2>1. Extent(Site(i)) \in Nat
    BY <1>3, <1>4
  <2> QED BY <1>3, <1>4, <2>1 DEF End
<1>6. \A i, j \in Sites : i < j /\ Site(i).sect = Site(j).sect => End(i) <= Site(j).off
  BY <1>1 DEF SitesInOrder, Sites, Site, End
<1> QED BY <1>1, <1>2, <1>3, <1>5, <1>6

\* An edit lies in the code of its relocation.
EditFits(e) ==
  /\ e.reloc \in Sites /\ e.at \in Nat /\ e.bytes \in Nat
  /\ Site(e.reloc).off <= e.at /\ e.at < End(e.reloc) /\ e.at + e.bytes <= End(e.reloc)

\* A relocation has one edit at most.
PlanFits(plan) ==
  /\ IsFiniteSet(plan)
  /\ \A e \in plan : EditFits(e)
  /\ \A e, f \in plan : e.reloc = f.reloc => e = f

\* The edits of a section lie apart, and within the section.
LEMMA PlansApart ==
  ASSUME link \in Links, NEW plan, PlanFits(plan), NEW s
  PROVE  /\ Apart(PlanOf(plan, s))
         /\ s \in Sections =>
              \A e \in PlanOf(plan, s) : e.at + e.bytes <= link.sections[s].size
<1>1. PlanOf(plan, s) \subseteq plan /\ IsFiniteSet(PlanOf(plan, s))
  BY FS_Subset DEF PlanOf, PlanFits
<1>2. \A e \in PlanOf(plan, s) : e.reloc \in Sites /\ EditFits(e) /\ Site(e.reloc).sect = s
  BY DEF PlanOf, PlanFits, EditFits
<1>3. ASSUME NEW e \in PlanOf(plan, s), NEW f \in PlanOf(plan, s), e.reloc < f.reloc
      PROVE  e.at < f.at /\ e.at + e.bytes <= f.at
  <2>1. End(e.reloc) <= Site(f.reloc).off
    BY <1>2, <1>3, SiteFacts
  <2>2. /\ e.at \in Nat /\ e.bytes \in Nat /\ e.at < End(e.reloc) /\ e.at + e.bytes <= End(e.reloc)
        /\ f.at \in Nat /\ Site(f.reloc).off <= f.at
    BY <1>2 DEF EditFits
  <2>3. End(e.reloc) \in Nat /\ Site(f.reloc).off \in Nat
    BY <1>2, SiteFacts
  <2> QED BY <2>1, <2>2, <2>3
<1>4. \A e, f \in PlanOf(plan, s) : e = f \/ e.reloc < f.reloc \/ f.reloc < e.reloc
  <2> SUFFICES ASSUME NEW e \in PlanOf(plan, s), NEW f \in PlanOf(plan, s), e # f
               PROVE  e.reloc < f.reloc \/ f.reloc < e.reloc
    OBVIOUS
  <2>1. e.reloc # f.reloc
    BY <1>1 DEF PlanFits
  <2>2. e.reloc \in Nat /\ f.reloc \in Nat
    BY <1>2, SiteFacts
  <2> QED BY <2>1, <2>2
<1>5. \A e \in PlanOf(plan, s) : e.at \in Nat /\ e.bytes \in Nat /\ e.reloc \in Int
  BY <1>2, SiteFacts DEF EditFits
<1>6. Apart(PlanOf(plan, s))
  BY <1>1, <1>3, <1>4, <1>5 DEF Apart
<1>7. ASSUME s \in Sections, NEW e \in PlanOf(plan, s)
      PROVE  e.at + e.bytes <= link.sections[s].size
  <2>1. e.at + e.bytes <= End(e.reloc) /\ End(e.reloc) <= link.sections[s].size
    BY <1>2, SiteFacts DEF EditFits
  <2>2. e.at \in Nat /\ e.bytes \in Nat /\ End(e.reloc) \in Nat /\ link.sections[s].size \in Nat
    BY <1>2, <1>5, <1>7, SiteFacts, SectionFacts
  <2> QED BY <2>1, <2>2
<1> QED BY <1>6, <1>7

\* A plan that fits still does without some of its edits.
LEMMA SmallerFits ==
  ASSUME NEW plan, PlanFits(plan), NEW part \in SUBSET plan
  PROVE  PlanFits(part)
<1>1. IsFiniteSet(part)
  BY FS_Subset DEF PlanFits
<1> QED BY <1>1 DEF PlanFits

\* A plan that fits still does with an edit that fits.
LEMMA AddedFits ==
  ASSUME NEW plan, PlanFits(plan), NEW e, EditFits(e)
  PROVE  PlanFits(AddEdit(plan, e))
<1> DEFINE P == {x \in plan : x.reloc # e.reloc}
<1>1. PlanFits(P)
  BY SmallerFits
<1>2. IsFiniteSet(P \cup {e})
  BY <1>1, FS_AddElement DEF PlanFits
<1> QED BY <1>1, <1>2 DEF PlanFits, AddEdit

\* A label with the parts that matter.
Fitting(l) == LabelFits(link.sections, link.sites, l)

\* No edit of a plan that fits spans a label.
LEMMA Unspanned ==
  ASSUME link \in Links, NEW plan, PlanFits(plan), NEW l, Fitting(l), l.sect # Absolute
  PROVE  /\ l.sect \in Sections /\ l.off \in Nat
         /\ \A e \in PlanOf(plan, l.sect) : e.at < l.off => e.at + e.bytes <= l.off
<1>1. /\ l.sect \in Sections /\ l.off \in Nat
      /\ \A i \in Sites : Site(i).sect = l.sect => l.off <= Site(i).off \/ End(i) <= l.off
  BY DEF Fitting, LabelFits, Sections, Sites, Site, End
<1>2. ASSUME NEW e \in PlanOf(plan, l.sect), e.at < l.off PROVE e.at + e.bytes <= l.off
  <2>1. EditFits(e) /\ Site(e.reloc).sect = l.sect
    BY DEF PlanOf, PlanFits
  <2>2. e.reloc \in Sites /\ Site(e.reloc).off \in Nat /\ End(e.reloc) \in Nat
    BY <2>1, SiteFacts DEF EditFits
  <2>3. l.off <= Site(e.reloc).off \/ End(e.reloc) <= l.off
    BY <1>1, <2>1, <2>2
  <2> QED BY <1>1, <1>2, <2>1, <2>2, <2>3 DEF EditFits
<1> QED BY <1>1, <1>2

\* The places that are labels: those of the relocations, the ends of paddings,
\* their targets and the symbols.
LEMMA FittingLabels ==
  ASSUME link \in Links
  PROVE  /\ \A i \in Sites : /\ Fitting([sect |-> Site(i).sect, off |-> Site(i).off])
                             /\ Fitting([sect |-> Site(i).sect, off |-> End(i)])
                             /\ Fitting(Site(i).to)
         /\ \A y \in DOMAIN link.symbols : Fitting(link.symbols[y]) /\ link.symbols[y].sect # Absolute
<1>1. ASSUME NEW i \in Sites
      PROVE  /\ Fitting([sect |-> Site(i).sect, off |-> Site(i).off])
             /\ Fitting([sect |-> Site(i).sect, off |-> End(i)])
  <2>1. Site(i).sect \in Sections /\ Site(i).off \in Nat /\ End(i) \in Nat /\ Site(i).off <= End(i)
    BY SiteFacts
  <2>2. ASSUME NEW j \in Sites, Site(j).sect = Site(i).sect
        PROVE  /\ Site(i).off <= Site(j).off \/ End(j) <= Site(i).off
               /\ End(i) <= Site(j).off \/ End(j) <= End(i)
    <3>1. i \in Nat /\ j \in Nat /\ Site(j).off \in Nat /\ End(j) \in Nat
      BY SiteFacts
    <3>2. i < j => End(i) <= Site(j).off
      BY <2>2, SiteFacts
    <3>3. j < i => End(j) <= Site(i).off
      BY <2>2, SiteFacts
    <3> QED BY <2>1, <3>1, <3>2, <3>3
  <2> QED BY <2>1, <2>2 DEF Fitting, LabelFits, Sections, Sites, Site, End
<1>2. /\ \A i \in Sites : Fitting(Site(i).to)
      /\ \A y \in DOMAIN link.symbols : Fitting(link.symbols[y]) /\ link.symbols[y].sect # Absolute
  BY LinksAssumption DEF Fitting, Sites, Site
<1> QED BY <1>1, <1>2

\* Labels have values.
LEMMA ValuesAreNumbers ==
  ASSUME link \in Links, addr \in [Sections -> Int], NEW plan, PlanFits(plan)
  PROVE  /\ \A l : Fitting(l) => ValueOf(plan, l) \in Int
         /\ \A l : Fitting(l) /\ l.sect # Absolute => MapOffset(PlanOf(plan, l.sect), l.off) \in Nat
<1>1. ASSUME NEW l, Fitting(l), l.sect # Absolute
      PROVE  MapOffset(PlanOf(plan, l.sect), l.off) \in Nat /\ l.sect \in Sections
  BY <1>1, Unspanned, PlansApart, ShiftBefore
<1>2. ASSUME NEW l, Fitting(l) PROVE ValueOf(plan, l) \in Int
  <2>1. CASE l.sect = Absolute
    <3>1. Absolute \notin Sections
      BY SectionFacts DEF Absolute
    <3> QED BY <1>2, <2>1, <3>1 DEF Fitting, LabelFits, ValueOf, Sections
  <2>2. CASE l.sect # Absolute
    BY <1>1, <1>2, <2>2 DEF ValueOf
  <2> QED BY <2>1, <2>2
<1> QED BY <1>1, <1>2

\* The sizes that a plan leaves.
Sizes(plan) == [s \in Sections |-> SizeOf(plan, s)]

\* Sections have sizes.
LEMMA SizesAreNumbers ==
  ASSUME link \in Links, NEW plan, PlanFits(plan)
  PROVE  Sizes(plan) \in [Sections -> Int]
<1>1. ASSUME NEW s \in Sections PROVE SizeOf(plan, s) \in Int
  <2>1. Apart(PlanOf(plan, s))
    BY PlansApart
  <2>2. TotalShift(PlanOf(plan, s)) = Cardinality(Gone(PlanOf(plan, s)))
    BY <2>1, ShiftCounts
  <2>3. Cardinality(Gone(PlanOf(plan, s))) \in Nat
    BY <2>1, GoneBytes, FS_CardinalityType
  <2>4. link.sections[s].size \in Nat
    BY SectionFacts
  <2> QED BY <2>2, <2>3, <2>4 DEF SizeOf
<1> QED BY <1>1 DEF Sizes

------------------------------------------------------------------------------
\* What the decisions do.

\* The pass that decides on a relocation.
PassOf(i) ==
  CASE Site(i).kind = "call" -> RELAXATION_CALL
    [] Site(i).kind \in {"pcrel_hi", "pcrel_lo"} -> RELAXATION_PC
    [] Site(i).kind \in {"hi20", "lo12"} -> RELAXATION_LUI
    [] Site(i).kind = "align" -> RELAXATION_ALIGN

\* The encodings that a record verifies.
Verifiable(as, kind) ==
  \/ as = "c.j" /\ kind = "CallToCJ"
  \/ as = "jal" /\ kind = "CallToJal"
  \/ as = "zero" /\ kind = "ZeroPage"
  \/ as = "gp" /\ kind \in {"PcGp", "LuiGp"}
  \/ as = "deleted" /\ kind \in {"PcGp", "LuiGp", "ZeroPage"}

\* An edit that is recorded, in one of the two lists.
Defers(d, c, i) ==
  \E at, bytes, as, kind :
    /\ EditFits(Edit(i, at, bytes)) /\ Verifiable(as, kind)
    /\ d.plan = AddEdit(c.plan, Edit(i, at, bytes))
    /\ d.as = [c.as EXCEPT ![i] = as]
    /\ d.record = [c.record EXCEPT ![i] = kind]
    /\ \/ d.calls = Append(c.calls, i) /\ d.gps = c.gps
       \/ d.calls = c.calls /\ d.gps = Append(c.gps, i)
    /\ d.encoding = c.encoding
    /\ d.dropped = c.dropped /\ d.applied = c.applied /\ d.failed = c.failed

\* An edit that is applied, with the encoding given at once.
Applies(d, c, i, at, bytes, as, applied) ==
  /\ EditFits(Edit(i, at, bytes))
  /\ d.plan = AddEdit(c.plan, Edit(i, at, bytes))
  /\ d.encoding = [c.encoding EXCEPT ![i] = as]
  /\ d.applied = applied
  /\ d.as = c.as /\ d.record = c.record
  /\ d.calls = c.calls /\ d.gps = c.gps
  /\ d.dropped = c.dropped /\ d.failed = c.failed

\* A lui is compressed at once: nothing is left to verify of it.
Compresses(d, c, i) ==
  /\ Site(i).kind = "hi20"
  /\ Applies(d, c, i, Site(i).off + 2, 2, "c.lui", c.applied)

\* Padding is cut to the nops that its place needs.
Aligns(d, c, i) ==
  \E nops \in Nat, k \in Int :
    /\ Place(c.plan, i) + nops = k * AlignmentOf(i)
    /\ nops <= Site(i).addend
    /\ \/ nops = Site(i).addend /\ d = c
       \/ /\ nops < Site(i).addend
          /\ Applies(d, c, i, Site(i).off + nops, Site(i).addend - nops, "none", c.applied \cup {i})

\* What both lists of deferred relocations are given has that shape.
LEMMA DeferredDefers ==
  ASSUME NEW c, NEW i \in Sites, NEW at, NEW bytes, NEW as, NEW kind,
         DOMAIN c = Fields, EditFits(Edit(i, at, bytes)), Verifiable(as, kind)
  PROVE  /\ Defers(DeferredCall(c, i, at, bytes, as, kind), c, i)
         /\ Defers(DeferredGP(c, i, at, bytes, as, kind), c, i)
<1> DEFINE d == Deferred(c, i, at, bytes, as, kind)
<1>1. /\ d.plan = AddEdit(c.plan, Edit(i, at, bytes))
      /\ d.as = [c.as EXCEPT ![i] = as]
      /\ d.record = [c.record EXCEPT ![i] = kind]
      /\ d.calls = c.calls /\ d.gps = c.gps
      /\ d.encoding = c.encoding
      /\ d.dropped = c.dropped /\ d.applied = c.applied /\ d.failed = c.failed
      /\ DOMAIN d = Fields
  BY DEF Deferred, Fields
<1> HIDE DEF d
<1>2. Defers([d EXCEPT !.calls = Append(@, i)], c, i)
  <2> DEFINE e == [d EXCEPT !.calls = Append(@, i)]
  <2>1. /\ e.plan = d.plan /\ e.as = d.as /\ e.record = d.record
        /\ e.calls = Append(d.calls, i) /\ e.gps = d.gps
        /\ e.encoding = d.encoding
        /\ e.dropped = d.dropped /\ e.applied = d.applied /\ e.failed = d.failed
    BY <1>1 DEF Fields
  <2> HIDE DEF e
  <2> QED BY <1>1, <2>1 DEF Defers, e
<1>3. Defers([d EXCEPT !.gps = Append(@, i)], c, i)
  <2> DEFINE e == [d EXCEPT !.gps = Append(@, i)]
  <2>1. /\ e.plan = d.plan /\ e.as = d.as /\ e.record = d.record
        /\ e.calls = d.calls /\ e.gps = Append(d.gps, i)
        /\ e.encoding = d.encoding
        /\ e.dropped = d.dropped /\ e.applied = d.applied /\ e.failed = d.failed
    BY <1>1 DEF Fields
  <2> HIDE DEF e
  <2> QED BY <1>1, <2>1 DEF Defers, e
<1> QED BY <1>2, <1>3 DEF DeferredCall, DeferredGP, d

\* A call is deferred or left alone.
LEMMA CallDefers ==
  ASSUME link \in Links, NEW c, DOMAIN c = Fields, NEW i \in Sites, Site(i).kind = "call"
  PROVE  Defers(doRelaxationCall(c, i), c, i) \/ doRelaxationCall(c, i) = c
<1>1. Site(i).off \in Nat /\ End(i) = Site(i).off + 8
  BY SiteFacts
<1>2. /\ EditFits(Edit(i, Site(i).off + 2, 6))
      /\ EditFits(Edit(i, Site(i).off + 4, 4))
  BY <1>1 DEF EditFits, Edit
<1>3. /\ Verifiable("c.j", "CallToCJ") /\ Verifiable("jal", "CallToJal")
  BY DEF Verifiable
<1>4. /\ Defers(DeferredCall(c, i, Site(i).off + 2, 6, "c.j", "CallToCJ"), c, i)
      /\ Defers(DeferredCall(c, i, Site(i).off + 4, 4, "jal", "CallToJal"), c, i)
  BY <1>2, <1>3, DeferredDefers
<1> QED BY <1>4, Zenon DEF doRelaxationCall

\* A relocation relative to the pc is deferred or left alone.
LEMMA PCDefers ==
  ASSUME link \in Links, NEW c, DOMAIN c = Fields, NEW i \in Sites,
         Site(i).kind \in {"pcrel_hi", "pcrel_lo"}
  PROVE  Defers(doRelaxationPC(c, i), c, i) \/ doRelaxationPC(c, i) = c
<1>1. Site(i).off \in Nat /\ End(i) = Site(i).off + 4
  BY SiteFacts
<1>2. /\ EditFits(Edit(i, Site(i).off, 4))
      /\ EditFits(Edit(i, Site(i).off, 0))
  BY <1>1 DEF EditFits, Edit
<1>3. /\ Verifiable("deleted", "PcGp") /\ Verifiable("gp", "PcGp")
  BY DEF Verifiable
<1>4. /\ Defers(DeferredGP(c, i, Site(i).off, 4, "deleted", "PcGp"), c, i)
      /\ Defers(DeferredGP(c, i, Site(i).off, 0, "gp", "PcGp"), c, i)
  BY <1>2, <1>3, DeferredDefers
<1> QED BY <1>4, Zenon DEF doRelaxationPC

\* An absolute relocation is deferred, compressed or left alone.
LEMMA LuiDefers ==
  ASSUME link \in Links, NEW c, DOMAIN c = Fields, NEW i \in Sites,
         Site(i).kind \in {"hi20", "lo12"}
  PROVE  \/ Defers(doRelaxationLui(c, i), c, i)
         \/ Compresses(doRelaxationLui(c, i), c, i)
         \/ doRelaxationLui(c, i) = c
<1> DEFINE e == [c EXCEPT !.plan = AddEdit(@, Edit(i, Site(i).off + 2, 2)),
                          !.encoding[i] = "c.lui"]
<1>1. Site(i).off \in Nat /\ End(i) = Site(i).off + 4
  BY SiteFacts
<1>2. /\ EditFits(Edit(i, Site(i).off, 4))
      /\ EditFits(Edit(i, Site(i).off, 0))
      /\ EditFits(Edit(i, Site(i).off + 2, 2))
  BY <1>1 DEF EditFits, Edit
<1>3. /\ \A kind \in {"ZeroPage", "LuiGp"} : Verifiable("deleted", kind)
      /\ Verifiable("zero", "ZeroPage") /\ Verifiable("gp", "LuiGp")
  BY DEF Verifiable
<1>4. /\ \A kind \in {"ZeroPage", "LuiGp"} :
           Defers(DeferredGP(c, i, Site(i).off, 4, "deleted", kind), c, i)
      /\ Defers(DeferredGP(c, i, Site(i).off, 0, "zero", "ZeroPage"), c, i)
      /\ Defers(DeferredGP(c, i, Site(i).off, 0, "gp", "LuiGp"), c, i)
  BY <1>2, <1>3, DeferredDefers
<1>5. /\ e.plan = AddEdit(c.plan, Edit(i, Site(i).off + 2, 2))
      /\ e.encoding = [c.encoding EXCEPT ![i] = "c.lui"]
      /\ e.applied = c.applied
      /\ e.as = c.as /\ e.record = c.record
      /\ e.calls = c.calls /\ e.gps = c.gps
      /\ e.dropped = c.dropped /\ e.failed = c.failed
  BY DEF Fields
<1>6. Site(i).kind = "hi20" => Compresses(e, c, i)
  <2> HIDE DEF e
  <2> QED BY <1>2, <1>5 DEF Compresses, Applies
<1>7. \/ doRelaxationLui(c, i) = DeferredGP(c, i, Site(i).off, 4, "deleted", "ZeroPage")
      \/ doRelaxationLui(c, i) = DeferredGP(c, i, Site(i).off, 4, "deleted", "LuiGp")
      \/ doRelaxationLui(c, i) = DeferredGP(c, i, Site(i).off, 0, "zero", "ZeroPage")
      \/ doRelaxationLui(c, i) = DeferredGP(c, i, Site(i).off, 0, "gp", "LuiGp")
      \/ Site(i).kind = "hi20" /\ doRelaxationLui(c, i) = e
      \/ doRelaxationLui(c, i) = c
  BY DEF doRelaxationLui
<1> HIDE DEF e
<1> QED BY <1>4, <1>6, <1>7

\* Padding has an alignment, and the section it lies in has a multiple of it.
LEMMA AlignmentIs ==
  ASSUME link \in Links, NEW i \in Sites, Site(i).kind = "align"
  PROVE  /\ AlignmentOf(i) \in Nat \ {0}
         /\ \/ link.sections[Site(i).sect].base # Follow
            \/ \E k \in Int : link.sections[Site(i).sect].align = k * AlignmentOf(i)
<1>1. PaddingFits(link.sections, Site(i))
  BY LinksAssumption DEF Sites, Site
<1> DEFINE n == Site(i).addend
           P(a) == a > n /\ \E k \in 0..n : a = 2^k
<1>2. n \in Nat
  BY SiteFacts
<1>3. AlignmentOf(i) = CHOOSE a \in 1..(2 * n) : P(a)
  BY DEF AlignmentOf, AlignmentFor
<1>4. \E a \in 1..(2 * n) : P(a)
  BY <1>1 DEF PaddingFits
<1> HIDE DEF P
<1>5. AlignmentOf(i) \in 1..(2 * n)
  BY <1>3, <1>4
<1>6. AlignmentOf(i) \in Nat \ {0}
  BY <1>2, <1>5
<1>7. \/ link.sections[Site(i).sect].base # Follow
      \/ \E k \in Int : link.sections[Site(i).sect].align = k * AlignmentOf(i)
  BY <1>1 DEF PaddingFits, AlignmentOf
<1> QED BY <1>6, <1>7

\* Padding is cut to its alignment, or is too short, which is an error.
LEMMA AlignCuts ==
  ASSUME link \in Links, addr \in [Sections -> Int],
         NEW c, DOMAIN c = Fields, PlanFits(c.plan), NEW i \in Sites, Site(i).kind = "align"
  PROVE  \/ doRelaxationAlign(c, i) = [c EXCEPT !.failed = TRUE]
         \/ Aligns(doRelaxationAlign(c, i), c, i)
<1> DEFINE a == AlignmentOf(i)
           place == Place(c.plan, i)
           nops == AlignUp(place, a) - place
           deleted == Site(i).addend - nops
           d == [c EXCEPT !.plan = AddEdit(@, Edit(i, Site(i).off + nops, deleted)),
                          !.encoding[i] = "none",
                          !.padding[i] = addRequiredNops(@, nops),
                          !.applied = @ \cup {i}]
<1>1. a \in Nat \ {0} /\ place \in Int
  BY AlignmentIs, FittingLabels, ValuesAreNumbers DEF Place
<1>2. Site(i).addend \in Nat /\ Site(i).off \in Nat /\ End(i) = Site(i).off + Site(i).addend
  BY SiteFacts
<1>3. AlignUp(place, a) \in Int /\ place <= AlignUp(place, a)
  BY <1>1, AlignUpIs
<1>4. PICK k \in Int : AlignUp(place, a) = k * a
  BY <1>1, AlignUpIs
<1>5. \/ doRelaxationAlign(c, i) = [c EXCEPT !.failed = TRUE]
      \/ ~(deleted < 0) /\ deleted = 0 /\ doRelaxationAlign(c, i) = c
      \/ ~(deleted < 0) /\ deleted # 0 /\ doRelaxationAlign(c, i) = d
  BY Zenon DEF doRelaxationAlign
<1>6. /\ d.plan = AddEdit(c.plan, Edit(i, Site(i).off + nops, deleted))
      /\ d.encoding = [c.encoding EXCEPT ![i] = "none"]
      /\ d.applied = c.applied \cup {i}
      /\ d.as = c.as /\ d.record = c.record
      /\ d.calls = c.calls /\ d.gps = c.gps
      /\ d.dropped = c.dropped /\ d.failed = c.failed
  BY DEF Fields
<1> HIDE DEF d, a, place
<1>7. nops \in Nat /\ place + nops = k * a
  BY <1>1, <1>3, <1>4
<1> HIDE DEF nops
<1>8. CASE deleted = 0 /\ doRelaxationAlign(c, i) = c
  <2>1. nops = Site(i).addend /\ nops <= Site(i).addend
    BY <1>2, <1>7, <1>8
  <2> QED BY <1>7, <1>8, <2>1 DEF Aligns, a, place
<1>9. CASE ~(deleted < 0) /\ deleted # 0 /\ doRelaxationAlign(c, i) = d
  <2>1. nops < Site(i).addend /\ nops <= Site(i).addend
    BY <1>2, <1>7, <1>9
  <2>2. EditFits(Edit(i, Site(i).off + nops, deleted))
    BY <1>2, <1>7, <2>1 DEF EditFits, Edit
  <2>3. Applies(d, c, i, Site(i).off + nops, deleted, "none", c.applied \cup {i})
    BY <1>6, <2>2 DEF Applies
  <2> QED BY <1>7, <1>9, <2>1, <2>3 DEF Aligns, a, place
<1> QED BY <1>5, <1>8, <1>9

\* The encoding of an instruction before the commit is that of its relocation,
\* unless it was given at once.
EncodingsFit(encoding) ==
  /\ DOMAIN encoding = Sites
  /\ \A i \in Sites : \/ encoding[i] = Site(i).kind
                      \/ encoding[i] = "c.lui" /\ Site(i).kind = "hi20"
                      \/ encoding[i] = "none" /\ Site(i).kind = "align"

\* A pass handles its own kinds of relocations, and none twice.
LEMMA HandledKinds ==
  ASSUME link \in Links, EncodingsFit(code.encoding), NEW pass, NEW i \in Sites, Handles(pass, i)
  PROVE  /\ pass = PassOf(i) /\ code.encoding[i] = Site(i).kind
         /\ pass = RELAXATION_CALL => Site(i).kind = "call"
         /\ pass = RELAXATION_PC => Site(i).kind \in {"pcrel_hi", "pcrel_lo"}
         /\ pass = RELAXATION_LUI => Site(i).kind \in {"hi20", "lo12"}
         /\ pass = RELAXATION_ALIGN => Site(i).kind = "align"
         /\ pass \in {RELAXATION_CALL, RELAXATION_PC, RELAXATION_LUI, RELAXATION_ALIGN}
<1> USE DEF RELAXATION_CALL, RELAXATION_PC, RELAXATION_LUI, RELAXATION_ALIGN
<1>1. \/ code.encoding[i] = Site(i).kind
      \/ code.encoding[i] = "c.lui" \/ code.encoding[i] = "none"
  BY DEF EncodingsFit
<1>2. /\ pass = 0 => code.encoding[i] = "call"
      /\ pass = 1 => code.encoding[i] \in {"pcrel_hi", "pcrel_lo"}
      /\ pass = 2 => code.encoding[i] \in {"hi20", "lo12"}
      /\ pass = 4 => code.encoding[i] = "align"
      /\ pass \in {0, 1, 2, 4}
  BY DEF Handles
<1>3. code.encoding[i] = Site(i).kind
  BY <1>1, <1>2
<1> QED BY <1>2, <1>3 DEF PassOf

\* What a pass decides.
LEMMA DecidedIs ==
  ASSUME link \in Links, addr \in [Sections -> Int], DOMAIN code = Fields,
         PlanFits(code.plan), EncodingsFit(code.encoding),
         NEW pass, NEW i \in Sites, Handles(pass, i)
  PROVE  LET d == Decided(code, pass, i)
         IN  /\ pass = PassOf(i)
             /\ pass \in {RELAXATION_CALL, RELAXATION_PC, RELAXATION_LUI, RELAXATION_ALIGN}
             /\ pass # RELAXATION_ALIGN =>
                  Site(i).kind # "align" /\ (Defers(d, code, i) \/ Compresses(d, code, i) \/ d = code)
             /\ pass = RELAXATION_ALIGN =>
                  /\ Site(i).kind = "align"
                  /\ d = [code EXCEPT !.failed = TRUE] \/ Aligns(d, code, i)
<1> USE DEF RELAXATION_CALL, RELAXATION_PC, RELAXATION_LUI, RELAXATION_ALIGN
<1> DEFINE d == Decided(code, pass, i)
<1>1. /\ pass = PassOf(i) /\ pass \in {0, 1, 2, 4}
      /\ pass = 0 => Site(i).kind = "call"
      /\ pass = 1 => Site(i).kind \in {"pcrel_hi", "pcrel_lo"}
      /\ pass = 2 => Site(i).kind \in {"hi20", "lo12"}
      /\ pass = 4 => Site(i).kind = "align"
  BY HandledKinds
<1>2. /\ pass = 0 => d = doRelaxationCall(code, i)
      /\ pass = 1 => d = doRelaxationPC(code, i)
      /\ pass = 2 => d = doRelaxationLui(code, i)
      /\ pass = 4 => d = doRelaxationAlign(code, i)
  BY DEF Decided
<1> HIDE DEF d
<1>3. CASE pass = 0
  BY <1>1, <1>2, <1>3, CallDefers DEF d
<1>4. CASE pass = 1
  BY <1>1, <1>2, <1>4, PCDefers DEF d
<1>5. CASE pass = 2
  BY <1>1, <1>2, <1>5, LuiDefers DEF d
<1>6. CASE pass = 4
  BY <1>1, <1>2, <1>6, AlignCuts DEF d
<1> QED BY <1>1, <1>3, <1>4, <1>5, <1>6

------------------------------------------------------------------------------
\* The shape of what is known of the code.

\* The relocations that code c has recorded.
RecordedOf(c) == {i \in Sites : c.record[i] # "none"}

\* A decision that stands has a record that verifies its encoding, what was
\* rejected was recorded, and padding is applied and never recorded.
CodeShape(c) ==
  /\ DOMAIN c = Fields /\ DOMAIN c.record = Sites
  /\ DOMAIN c.as = Sites
  /\ PlanFits(c.plan)
  /\ \A i \in Sites : \/ c.as[i] = Site(i).kind
                      \/ i \notin c.dropped /\ Verifiable(c.as[i], c.record[i])
  /\ \A i \in RecordedOf(c) : Site(i).kind # "align"
  /\ c.dropped \subseteq RecordedOf(c)
  /\ \A i \in c.applied : i \in Sites /\ Site(i).kind = "align"
  /\ \A e \in c.plan : Site(e.reloc).kind = "align" => e.reloc \in c.applied

\* Until the commit: padding that is applied has an edit and is not visited again.
Pending(c) ==
  /\ EncodingsFit(c.encoding)
  /\ \A i \in Sites : Site(i).kind = "align" => (c.encoding[i] = "none" <=> i \in c.applied)
  /\ \A i \in c.applied : \E e \in c.plan : e.reloc = i

\* A list has i.
Listed(q, i) == \E k \in DOMAIN q : q[k] = i

\* The two lists hold what is recorded, once.
ListShape(c) ==
  /\ c.calls \in Seq(RecordedOf(c)) /\ c.gps \in Seq(RecordedOf(c))
  /\ IsInjective(c.calls) /\ IsInjective(c.gps)
  /\ \A i \in RecordedOf(c) : Listed(c.calls, i) \/ Listed(c.gps, i)
  /\ \A i \in Sites : ~(Listed(c.calls, i) /\ Listed(c.gps, i))

\* The shape of the code depends on the code and the link alone.
LEMMA ShapeStays ==
  ASSUME NEW d, UNCHANGED link, code' = d
  PROVE  /\ CodeShape(d) => CodeShape(code)'
         /\ Pending(d) => Pending(code)'
         /\ ListShape(d) => ListShape(code)'
         /\ RecordedOf(d) = RecordedOf(code)'
<1>1. RecordedOf(d) = RecordedOf(code)'
  BY DEF RecordedOf, Sites
<1>2. PlanFits(d.plan) => PlanFits(code.plan)'
  BY DEF PlanFits, EditFits, End, Sites, Site
<1>3. EncodingsFit(d.encoding) => EncodingsFit(code.encoding)'
  BY DEF EncodingsFit, Sites, Site
<1>4. CodeShape(d) => CodeShape(code)'
  BY <1>1, <1>2 DEF CodeShape, Sites, Site
<1>5. Pending(d) => Pending(code)'
  BY <1>3 DEF Pending, Sites, Site
<1>6. ListShape(d) => ListShape(code)'
  BY <1>1 DEF ListShape, Sites
<1> QED BY <1>1, <1>4, <1>5, <1>6

\* A list without repetitions stays one when a new element is appended.
LEMMA AppendedOnce ==
  ASSUME NEW R, NEW q \in Seq(R), NEW i, IsInjective(q), ~Listed(q, i)
  PROVE  /\ Append(q, i) \in Seq(R \cup {i})
         /\ IsInjective(Append(q, i))
         /\ \A j : Listed(Append(q, i), j) <=> Listed(q, j) \/ j = i
<1> DEFINE a == Append(q, i)
<1>1. q \in Seq(R \cup {i})
  OBVIOUS
<1>2. /\ a \in Seq(R \cup {i}) /\ Len(a) = Len(q) + 1
      /\ \A k \in 1..Len(q) : a[k] = q[k]
      /\ a[Len(q) + 1] = i
  BY <1>1, AppendProperties
<1>3. Len(q) \in Nat /\ DOMAIN q = 1..Len(q) /\ DOMAIN a = 1..Len(q) + 1
  BY <1>2
<1> HIDE DEF a
<1>4. \A k \in DOMAIN a : k \in DOMAIN q \/ k = Len(q) + 1
  BY <1>3
<1>5. IsInjective(a)
  BY <1>2, <1>3, <1>4 DEF IsInjective, Listed
<1>6. \A j : Listed(a, j) <=> Listed(q, j) \/ j = i
  BY <1>2, <1>3, <1>4 DEF Listed
<1> QED BY <1>2, <1>5, <1>6 DEF a

\* A decision that is deferred keeps the shape of the code and records i.
LEMMA DefersKeeps ==
  ASSUME link \in Links, NEW c, NEW d, NEW i \in Sites, CodeShape(c), Pending(c), ListShape(c),
         i \notin RecordedOf(c), Site(i).kind # "align", DOMAIN d = Fields, Defers(d, c, i)
  PROVE  /\ CodeShape(d) /\ Pending(d) /\ ListShape(d)
         /\ RecordedOf(d) = RecordedOf(c) \cup {i}
         /\ d.applied = c.applied
<1>1. PICK at, bytes, as, kind :
        /\ EditFits(Edit(i, at, bytes)) /\ Verifiable(as, kind)
        /\ d.plan = AddEdit(c.plan, Edit(i, at, bytes))
        /\ d.as = [c.as EXCEPT ![i] = as]
        /\ d.record = [c.record EXCEPT ![i] = kind]
        /\ \/ d.calls = Append(c.calls, i) /\ d.gps = c.gps
           \/ d.calls = c.calls /\ d.gps = Append(c.gps, i)
        /\ d.encoding = c.encoding
        /\ d.dropped = c.dropped /\ d.applied = c.applied /\ d.failed = c.failed
  BY DEF Defers
<1>2. kind # "none"
  BY <1>1 DEF Verifiable
<1>3. RecordedOf(d) = RecordedOf(c) \cup {i}
  BY <1>1, <1>2 DEF RecordedOf, CodeShape
<1>4. PlanFits(d.plan)
  BY <1>1, AddedFits DEF CodeShape
<1>5. /\ \A e \in d.plan : e \in c.plan \/ e.reloc = i
      /\ \A e \in c.plan : e.reloc # i => e \in d.plan
  BY <1>1 DEF AddEdit, Edit
<1>6. CodeShape(d)
  <2>1. \A j \in Sites : \/ d.as[j] = Site(j).kind
                         \/ j \notin d.dropped /\ Verifiable(d.as[j], d.record[j])
    BY <1>1 DEF CodeShape
  <2>2. \A j \in RecordedOf(d) : Site(j).kind # "align"
    BY <1>3 DEF CodeShape
  <2>3. \A e \in d.plan : Site(e.reloc).kind = "align" => e.reloc \in d.applied
    BY <1>1, <1>5 DEF CodeShape
  <2>4. DOMAIN d.as = Sites /\ DOMAIN d.record = Sites
    BY <1>1 DEF CodeShape
  <2> QED BY <1>1, <1>3, <1>4, <2>1, <2>2, <2>3, <2>4 DEF CodeShape
<1>7. Pending(d)
  <2>1. \A j \in d.applied : \E e \in d.plan : e.reloc = j
    BY <1>1, <1>5 DEF Pending, CodeShape
  <2> QED BY <1>1, <2>1 DEF Pending
<1>8. ListShape(d)
  <2> DEFINE R == RecordedOf(c) \cup {i}
  <2>1. ~Listed(c.calls, i) /\ ~Listed(c.gps, i)
    <3>1. \A q \in Seq(RecordedOf(c)) : ~Listed(q, i)
      BY DEF Listed
    <3> QED BY <3>1 DEF ListShape
  <2>2. c.calls \in Seq(R) /\ c.gps \in Seq(R)
    BY DEF ListShape
  <2>3. \A q \in {c.calls, c.gps} :
          /\ Append(q, i) \in Seq(R) /\ IsInjective(Append(q, i))
          /\ \A j : Listed(Append(q, i), j) <=> Listed(q, j) \/ j = i
    <3>1. /\ c.calls \in Seq(RecordedOf(c)) /\ IsInjective(c.calls)
          /\ c.gps \in Seq(RecordedOf(c)) /\ IsInjective(c.gps)
      BY DEF ListShape
    <3>2. /\ Append(c.calls, i) \in Seq(R) /\ IsInjective(Append(c.calls, i))
          /\ \A j : Listed(Append(c.calls, i), j) <=> Listed(c.calls, j) \/ j = i
      BY <2>1, <3>1, AppendedOnce, Zenon
    <3>3. /\ Append(c.gps, i) \in Seq(R) /\ IsInjective(Append(c.gps, i))
          /\ \A j : Listed(Append(c.gps, i), j) <=> Listed(c.gps, j) \/ j = i
      BY <2>1, <3>1, AppendedOnce, Zenon
    <3> QED BY <3>2, <3>3
  <2> HIDE DEF R
  <2>4. CASE d.calls = Append(c.calls, i) /\ d.gps = c.gps
    <3>1. /\ d.calls \in Seq(R) /\ IsInjective(d.calls) /\ d.gps \in Seq(R) /\ IsInjective(d.gps)
          /\ \A j : Listed(d.calls, j) <=> Listed(c.calls, j) \/ j = i
          /\ \A j : Listed(d.gps, j) <=> Listed(c.gps, j)
      BY <2>2, <2>3, <2>4 DEF ListShape
    <3> QED BY <1>3, <2>1, <3>1 DEF ListShape, R
  <2>5. CASE d.calls = c.calls /\ d.gps = Append(c.gps, i)
    <3>1. /\ d.calls \in Seq(R) /\ IsInjective(d.calls) /\ d.gps \in Seq(R) /\ IsInjective(d.gps)
          /\ \A j : Listed(d.gps, j) <=> Listed(c.gps, j) \/ j = i
          /\ \A j : Listed(d.calls, j) <=> Listed(c.calls, j)
      BY <2>2, <2>3, <2>5 DEF ListShape
    <3> QED BY <1>3, <2>1, <3>1 DEF ListShape, R
  <2> QED BY <1>1, <2>4, <2>5
<1> QED BY <1>1, <1>3, <1>6, <1>7, <1>8

\* A decision that is applied at once keeps the shape of the code.
LEMMA AppliesKeeps ==
  ASSUME link \in Links, NEW c, NEW d, NEW i \in Sites, CodeShape(c), Pending(c), ListShape(c),
         NEW at, NEW bytes, NEW as, NEW applied, DOMAIN d = Fields,
         Applies(d, c, i, at, bytes, as, applied),
         \/ Site(i).kind = "hi20" /\ as = "c.lui" /\ applied = c.applied
         \/ Site(i).kind = "align" /\ as = "none" /\ applied = c.applied \cup {i}
  PROVE  /\ CodeShape(d) /\ Pending(d) /\ ListShape(d)
         /\ RecordedOf(d) = RecordedOf(c)
<1>1. /\ EditFits(Edit(i, at, bytes))
      /\ d.plan = AddEdit(c.plan, Edit(i, at, bytes))
      /\ d.encoding = [c.encoding EXCEPT ![i] = as]
      /\ d.applied = applied
      /\ d.as = c.as /\ d.record = c.record
      /\ d.calls = c.calls /\ d.gps = c.gps
      /\ d.dropped = c.dropped /\ d.failed = c.failed
  BY DEF Applies
<1>2. RecordedOf(d) = RecordedOf(c)
  BY <1>1 DEF RecordedOf
<1>3. PlanFits(d.plan)
  BY <1>1, AddedFits DEF CodeShape
<1>4. /\ \A e \in d.plan : e \in c.plan \/ e.reloc = i
      /\ \A e \in c.plan : e.reloc # i => e \in d.plan
      /\ \E e \in d.plan : e.reloc = i
  BY <1>1 DEF AddEdit, Edit
<1>5. CodeShape(d)
  <2>1. \A e \in d.plan : Site(e.reloc).kind = "align" => e.reloc \in d.applied
    BY <1>1, <1>4 DEF CodeShape
  <2>2. \A j \in d.applied : j \in Sites /\ Site(j).kind = "align"
    BY <1>1 DEF CodeShape
  <2> QED BY <1>1, <1>2, <1>3, <2>1, <2>2 DEF CodeShape
<1>6. Pending(d)
  <2>1. \A j \in d.applied : \E e \in d.plan : e.reloc = j
    <3> SUFFICES ASSUME NEW j \in d.applied PROVE \E e \in d.plan : e.reloc = j
      OBVIOUS
    <3>1. CASE j = i
      BY <1>4, <3>1
    <3>2. CASE j # i
      <4>1. j \in c.applied
        BY <1>1, <3>2
      <4>2. PICK e \in c.plan : e.reloc = j
        BY <4>1 DEF Pending
      <4> QED BY <1>4, <3>2, <4>2
    <3> QED BY <3>1, <3>2
  <2>2. DOMAIN c.encoding = Sites /\ DOMAIN d.encoding = Sites
    BY <1>1 DEF Pending, EncodingsFit
  <2>3. d.encoding[i] = as /\ \A j \in Sites : j # i => d.encoding[j] = c.encoding[j]
    BY <1>1, <2>2
  <2>4. EncodingsFit(d.encoding)
    <3>1. ASSUME NEW j \in Sites
          PROVE  \/ d.encoding[j] = Site(j).kind
                 \/ d.encoding[j] = "c.lui" /\ Site(j).kind = "hi20"
                 \/ d.encoding[j] = "none" /\ Site(j).kind = "align"
      BY <2>3 DEF Pending, EncodingsFit
    <3> QED BY <2>2, <3>1 DEF EncodingsFit
  <2>5. \A j \in Sites : Site(j).kind = "align" => (d.encoding[j] = "none" <=> j \in d.applied)
    BY <1>1, <2>3 DEF Pending
  <2> QED BY <2>1, <2>4, <2>5 DEF Pending
<1>7. ListShape(d)
  BY <1>1, <1>2 DEF ListShape
<1> QED BY <1>2, <1>5, <1>6, <1>7

\* A rejection keeps the shape of the code.
LEMMA RejectKeeps ==
  ASSUME link \in Links, NEW c, NEW i \in RecordedOf(c), CodeShape(c), Pending(c), ListShape(c)
  PROVE  LET d == Reject(c, i)
         IN  /\ CodeShape(d) /\ Pending(d) /\ ListShape(d)
             /\ RecordedOf(d) = RecordedOf(c)
<1> DEFINE d == Reject(c, i)
<1>1. /\ DOMAIN d = Fields
      /\ d.plan = {e \in c.plan : e.reloc # i}
      /\ d.as = [c.as EXCEPT ![i] = Site(i).kind]
      /\ d.dropped = c.dropped \cup {i}
      /\ d.encoding = c.encoding /\ d.applied = c.applied
      /\ d.record = c.record /\ d.calls = c.calls /\ d.gps = c.gps
  BY DEF Reject, RemoveEdit, CodeShape, Fields
<1> HIDE DEF d
<1>2. RecordedOf(d) = RecordedOf(c)
  BY <1>1 DEF RecordedOf
<1>3. PlanFits(d.plan)
  BY <1>1, SmallerFits DEF CodeShape
<1>4. i \in Sites /\ Site(i).kind # "align"
  BY DEF CodeShape, RecordedOf
<1>5. CodeShape(d)
  <2>1. \A j \in Sites : \/ d.as[j] = Site(j).kind
                         \/ j \notin d.dropped /\ Verifiable(d.as[j], d.record[j])
    BY <1>1 DEF CodeShape
  <2> QED BY <1>1, <1>2, <1>3, <1>4, <2>1 DEF CodeShape
<1>6. Pending(d)
  <2>1. \A j \in d.applied : \E e \in d.plan : e.reloc = j
    BY <1>1, <1>4 DEF Pending, CodeShape
  <2> QED BY <1>1, <2>1 DEF Pending
<1>7. ListShape(d)
  BY <1>1, <1>2 DEF ListShape
<1> QED BY <1>2, <1>5, <1>6, <1>7 DEF d

\* Undoing the padding keeps the shape of the code.
LEMMA UndoKeeps ==
  ASSUME link \in Links, NEW c, CodeShape(c), Pending(c), ListShape(c)
  PROVE  LET d == UndoAligns(c)
         IN  /\ CodeShape(d) /\ Pending(d) /\ ListShape(d)
             /\ RecordedOf(d) = RecordedOf(c) /\ d.applied = {}
<1> DEFINE d == UndoAligns(c)
<1>1. /\ DOMAIN d = Fields
      /\ d.plan = {e \in c.plan : e.reloc \notin c.applied}
      /\ d.encoding = [i \in Sites |-> IF i \in c.applied THEN "align" ELSE c.encoding[i]]
      /\ d.applied = {}
      /\ d.as = c.as /\ d.dropped = c.dropped
      /\ d.record = c.record /\ d.calls = c.calls /\ d.gps = c.gps
  BY DEF UndoAligns, CodeShape, Fields
<1> HIDE DEF d
<1>2. RecordedOf(d) = RecordedOf(c)
  BY <1>1 DEF RecordedOf
<1>3. PlanFits(d.plan)
  BY <1>1, SmallerFits DEF CodeShape
<1>4. CodeShape(d)
  BY <1>1, <1>2, <1>3 DEF CodeShape
<1>5. Pending(d)
  <2>1. EncodingsFit(d.encoding)
    BY <1>1 DEF Pending, EncodingsFit, CodeShape
  <2>2. \A j \in Sites : Site(j).kind = "align" => (d.encoding[j] = "none" <=> j \in d.applied)
    BY <1>1 DEF Pending, EncodingsFit
  <2> QED BY <1>1, <2>1, <2>2 DEF Pending
<1>6. ListShape(d)
  BY <1>1, <1>2 DEF ListShape
<1> QED BY <1>1, <1>2, <1>4, <1>5, <1>6 DEF d

\* The passes are not over.
Relaxing == pc \in {"layout", "pass"}

\* The rounds are over.
Committing == pc \in {"commit", "committed"}

\* The passes record in their order, each relocation once, before any round.
LoopShape ==
  /\ addr \in [Sections -> Int]
  /\ iteration \in 0..RELAXATION_PASS_COUNT
  /\ cursor \in Nat \ {0}
  /\ anyDropped \in BOOLEAN /\ needsAlign \in BOOLEAN /\ layoutChanged \in BOOLEAN
  /\ pc \in {"layout", "pass", "settle", "resettle", "verify", "commit", "committed", "error"}
  /\ Relaxing =>
       /\ rounds = 0
       /\ \A i \in Recorded : PassOf(i) < iteration \/ (PassOf(i) = iteration /\ i < cursor)
  /\ rounds \in 0..MaxRounds[Cardinality(Recorded)]

\* Edits, records and lists agree, and the loop is where its counters say.
ShapeInv ==
  /\ link \in Links
  /\ CodeShape(code) /\ ListShape(code)
  /\ Committing \/ Pending(code)
  /\ LoopShape

\* Finitely many relocations are recorded, which bounds the rounds.
LEMMA RecordedFinite ==
  ASSUME link \in Links
  PROVE  /\ IsFiniteSet(Recorded) /\ Cardinality(Recorded) \in Nat
         /\ MaxRounds[Cardinality(Recorded)] = Cardinality(Recorded) + 1
         /\ Recorded = RecordedOf(code)
<1>1. IsFiniteSet(Recorded)
  BY SiteFacts, FS_Subset DEF Recorded
<1>2. Cardinality(Recorded) \in Nat
  BY <1>1, FS_CardinalityType
<1>3. Recorded = RecordedOf(code)
  BY DEF Recorded, RecordedOf
<1> QED BY <1>1, <1>2, <1>3 DEF MaxRounds

\* Every relocation has a pass.
LEMMA PassNumbers ==
  ASSUME link \in Links
  PROVE  \A i \in Sites : PassOf(i) \in 0..4
BY SiteFacts DEF PassOf, RELAXATION_CALL, RELAXATION_PC, RELAXATION_LUI, RELAXATION_ALIGN

\* An error keeps the shape of the code.
LEMMA FailKeeps ==
  ASSUME link \in Links, NEW c, CodeShape(c), Pending(c), ListShape(c)
  PROVE  LET d == [c EXCEPT !.failed = TRUE]
         IN  /\ CodeShape(d) /\ Pending(d) /\ ListShape(d)
             /\ RecordedOf(d) = RecordedOf(c)
<1> DEFINE d == [c EXCEPT !.failed = TRUE]
<1>1. /\ DOMAIN d = Fields
      /\ d.plan = c.plan /\ d.encoding = c.encoding /\ d.applied = c.applied
      /\ d.as = c.as /\ d.dropped = c.dropped
      /\ d.record = c.record /\ d.calls = c.calls /\ d.gps = c.gps
  BY DEF CodeShape, Fields
<1> HIDE DEF d
<1>2. RecordedOf(d) = RecordedOf(c)
  BY <1>1 DEF RecordedOf
<1> QED BY <1>1, <1>2 DEF CodeShape, Pending, ListShape, d

\* The fields of the code that a decision returns.
LEMMA DecidedFields ==
  ASSUME NEW c, DOMAIN c = Fields, NEW pass, NEW i,
         pass \in {RELAXATION_CALL, RELAXATION_PC, RELAXATION_LUI, RELAXATION_ALIGN}
  PROVE  DOMAIN Decided(c, pass, i) = Fields
<1>1. /\ DOMAIN doRelaxationCall(c, i) = Fields
      /\ DOMAIN doRelaxationPC(c, i) = Fields
      /\ DOMAIN doRelaxationLui(c, i) = Fields
      /\ DOMAIN doRelaxationAlign(c, i) = Fields
  BY DEF doRelaxationCall, doRelaxationPC, doRelaxationLui, doRelaxationAlign,
         DeferredCall, DeferredGP, Deferred
<1> QED BY <1>1 DEF Decided, RELAXATION_CALL, RELAXATION_PC, RELAXATION_LUI, RELAXATION_ALIGN

\* A step of a pass: which relocation it decides on, and how.
LEMMA DecideSteps ==
  ASSUME ShapeInv, NEW pass, Decide(pass), pc \in {"pass", "settle"},
         pc = "pass" => pass = iteration, pc = "settle" => pass = RELAXATION_ALIGN
  PROVE  \E i \in Sites :
           /\ Handles(pass, i) /\ i >= cursor /\ cursor' = i + 1
           /\ code' = Decided(code, pass, i)
           /\ \A j \in Sites : j >= cursor /\ Handles(pass, j) => i <= j
           /\ pass = PassOf(i)
           /\ pass # RELAXATION_ALIGN =>
                /\ Site(i).kind # "align" /\ i \notin Recorded /\ pc = "pass"
                /\ Defers(code', code, i) \/ Compresses(code', code, i) \/ code' = code
           /\ pass = RELAXATION_ALIGN =>
                /\ Site(i).kind = "align"
                /\ code' = [code EXCEPT !.failed = TRUE] \/ Aligns(code', code, i)
<1>1. PICK i \in ToVisit(pass) :
        /\ \A j \in ToVisit(pass) : i <= j
        /\ code' = Decided(code, pass, i)
        /\ cursor' = i + 1
  BY DEF Decide
<1>2. /\ i \in Sites /\ Handles(pass, i) /\ i >= cursor
      /\ \A j \in Sites : j >= cursor /\ Handles(pass, j) => i <= j
  BY <1>1 DEF ToVisit
<1>3. /\ link \in Links /\ addr \in [Sections -> Int] /\ DOMAIN code = Fields
      /\ PlanFits(code.plan) /\ EncodingsFit(code.encoding)
  BY DEF ShapeInv, CodeShape, Pending, LoopShape, Committing
<1>4. /\ pass = PassOf(i)
      /\ pass \in {RELAXATION_CALL, RELAXATION_PC, RELAXATION_LUI, RELAXATION_ALIGN}
      /\ pass # RELAXATION_ALIGN =>
           Site(i).kind # "align" /\ (Defers(code', code, i) \/ Compresses(code', code, i) \/ code' = code)
      /\ pass = RELAXATION_ALIGN =>
           /\ Site(i).kind = "align"
           /\ code' = [code EXCEPT !.failed = TRUE] \/ Aligns(code', code, i)
  BY <1>1, <1>2, <1>3, DecidedIs
<1>5. ASSUME pass # RELAXATION_ALIGN PROVE i \notin Recorded /\ pc = "pass"
  <2>1. pc = "pass" /\ pass = iteration
    BY <1>5
  <2>2. i \in Recorded => PassOf(i) < iteration \/ i < cursor
    BY <2>1 DEF ShapeInv, LoopShape, Relaxing
  <2>3. PassOf(i) \in 0..4 /\ i \in Nat /\ cursor \in Nat
    BY <1>2, <1>3, PassNumbers, SiteFacts DEF ShapeInv, LoopShape
  <2> QED BY <1>2, <1>4, <2>1, <2>2, <2>3
<1> QED BY <1>1, <1>2, <1>4, <1>5

\* A decision of a pass keeps the shape.
LEMMA DecideShape ==
  ASSUME ShapeInv, NEW pass, Decide(pass), pc \in {"pass", "settle"},
         pc = "pass" => pass = iteration, pc = "settle" => pass = RELAXATION_ALIGN
  PROVE  ShapeInv'
<1>1. PICK i \in Sites :
        /\ i >= cursor /\ cursor' = i + 1 /\ pass = PassOf(i)
        /\ pass # RELAXATION_ALIGN =>
             /\ Site(i).kind # "align" /\ i \notin Recorded /\ pc = "pass"
             /\ Defers(code', code, i) \/ Compresses(code', code, i) \/ code' = code
        /\ pass = RELAXATION_ALIGN =>
             /\ Site(i).kind = "align"
             /\ code' = [code EXCEPT !.failed = TRUE] \/ Aligns(code', code, i)
  BY DecideSteps
<1>2. /\ link \in Links /\ CodeShape(code) /\ ListShape(code) /\ Pending(code)
      /\ Recorded = RecordedOf(code) /\ UNCHANGED <<link, addr, iteration, Settling>>
      /\ pc' \in {pc, "error"}
  BY RecordedFinite DEF ShapeInv, Committing, Decide
<1>3. DOMAIN code' = Fields
  <2>1. pass \in {RELAXATION_CALL, RELAXATION_PC, RELAXATION_LUI, RELAXATION_ALIGN}
    BY PassesThatVisit
  <2>2. \E j : code' = Decided(code, pass, j)
    BY DEF Decide
  <2> QED BY <1>2, <2>1, <2>2, DecidedFields DEF CodeShape
<1> DEFINE d == code'
<1>4. /\ CodeShape(d) /\ ListShape(d) /\ Pending(d)
      /\ \/ RecordedOf(d) = RecordedOf(code)
         \/ RecordedOf(d) = RecordedOf(code) \cup {i} /\ pc = "pass"
  <2> HIDE DEF d
  <2>1. CASE pass # RELAXATION_ALIGN /\ Defers(d, code, i)
    BY <1>1, <1>2, <1>3, <2>1, DefersKeeps DEF d
  <2>2. CASE pass # RELAXATION_ALIGN /\ Compresses(d, code, i)
    <3>1. Site(i).kind = "hi20" /\ Applies(d, code, i, Site(i).off + 2, 2, "c.lui", code.applied)
      BY <2>2 DEF Compresses
    <3>2. DOMAIN d = Fields
      BY <1>3 DEF d
    <3> QED BY <1>2, <3>1, <3>2, AppliesKeeps
  <2>3. CASE d = code
    BY <1>2, <2>3
  <2>4. CASE d = [code EXCEPT !.failed = TRUE]
    BY <1>2, <2>4, FailKeeps
  <2>5. CASE pass = RELAXATION_ALIGN /\ Aligns(d, code, i) /\ d # code
    <3>1. PICK nops \in Nat :
            Applies(d, code, i, Site(i).off + nops, Site(i).addend - nops, "none", code.applied \cup {i})
      BY <2>5 DEF Aligns
    <3>2. DOMAIN d = Fields /\ Site(i).kind = "align"
      BY <1>1, <1>3, <2>5 DEF d
    <3> QED BY <1>2, <3>1, <3>2, AppliesKeeps
  <2> QED BY <1>1, <2>1, <2>2, <2>3, <2>4, <2>5 DEF d
<1>5. CodeShape(code)' /\ ListShape(code)' /\ Pending(code)' /\ Recorded' = RecordedOf(d)
  <2> HIDE DEF d
  <2>1. code' = d /\ UNCHANGED link
    BY <1>2 DEF d
  <2>2. Recorded' = RecordedOf(code)'
    BY DEF Recorded, RecordedOf
  <2> QED BY <1>4, <2>1, <2>2, ShapeStays
<1>6. LoopShape'
  <2>1. /\ addr' \in [Sections' -> Int] /\ iteration' \in 0..RELAXATION_PASS_COUNT
        /\ anyDropped' \in BOOLEAN /\ needsAlign' \in BOOLEAN /\ layoutChanged' \in BOOLEAN
    BY <1>2 DEF ShapeInv, LoopShape, Settling, Sections
  <2>2. /\ cursor' \in Nat \ {0} /\ i \in Nat /\ cursor \in Nat
        /\ \A j \in Recorded : j \in Nat
    BY <1>1, <1>2, SiteFacts DEF ShapeInv, LoopShape, Recorded
  <2>3. pc' \in {"layout", "pass", "settle", "resettle", "verify", "commit", "committed", "error"}
    BY <1>2 DEF ShapeInv, LoopShape
  <2>4. /\ link' \in Links /\ \A j : PassOf(j)' = PassOf(j)
    BY <1>2 DEF PassOf, Site
  <2>5. Relaxing' => rounds' = 0 /\ \A j \in Recorded' : PassOf(j)' < iteration' \/ (PassOf(j)' = iteration' /\ j < cursor')
    <3> SUFFICES ASSUME Relaxing'
                 PROVE  rounds' = 0 /\ \A j \in Recorded' : PassOf(j)' < iteration' \/ (PassOf(j)' = iteration' /\ j < cursor')
      OBVIOUS
    <3>1. pc = "pass" /\ pass = iteration /\ rounds = 0 /\ rounds' = rounds /\ iteration' = iteration
      BY <1>2 DEF Relaxing, Settling, ShapeInv, LoopShape
    <3>2. \A j \in Recorded : PassOf(j) < iteration \/ (PassOf(j) = iteration /\ j < cursor)
      BY <3>1 DEF ShapeInv, LoopShape, Relaxing
    <3>3. \A j \in Recorded' : j \in Recorded \/ j = i
      BY <1>2, <1>4, <1>5
    <3>4. \A j \in Recorded : j < cursor => j < cursor'
      BY <1>1, <2>2
    <3>5. i < cursor'
      BY <1>1, <2>2
    <3> QED BY <1>1, <2>4, <3>1, <3>2, <3>3, <3>4, <3>5
  <2>6. rounds' \in 0..MaxRounds[Cardinality(Recorded')]
    <3>1. Cardinality(Recorded') \in Nat /\ MaxRounds[Cardinality(Recorded')] = Cardinality(Recorded') + 1
      <4>1. IsFiniteSet(Recorded')
        BY <1>2, SiteFacts, FS_Subset DEF Recorded, Sites
      <4> QED BY <4>1, FS_CardinalityType DEF MaxRounds
    <3>2. rounds' = rounds
      BY <1>2 DEF Settling
    <3>3. CASE pc = "pass"
      <4>1. rounds = 0
        BY <3>3 DEF ShapeInv, LoopShape, Relaxing
      <4> QED BY <3>1, <3>2, <4>1
    <3>4. CASE pc # "pass"
      <4>1. Recorded' = Recorded
        BY <1>2, <1>4, <1>5, <3>4
      <4> QED BY <3>2, <4>1 DEF ShapeInv, LoopShape
    <3> QED BY <3>3, <3>4
  <2> QED BY <2>1, <2>2, <2>3, <2>5, <2>6 DEF LoopShape
<1> QED BY <1>2, <1>5, <1>6 DEF ShapeInv

\* A step that leaves the code alone keeps its shape.
LEMMA CodeStays ==
  ASSUME ShapeInv, UNCHANGED <<link, code>>, Committing => Committing', LoopShape'
  PROVE  ShapeInv'
<1>1. CodeShape(code)' /\ ListShape(code)' /\ (Pending(code) => Pending(code)')
  BY ShapeStays DEF ShapeInv
<1> QED BY <1>1 DEF ShapeInv

\* A step that leaves the numbers of the loop alone, or starts it again.
LEMMA LoopStays ==
  ASSUME ShapeInv, UNCHANGED <<link, Recorded>>, addr' \in [Sections -> Int],
         iteration' \in 0..RELAXATION_PASS_COUNT, cursor' \in Nat \ {0},
         anyDropped' \in BOOLEAN /\ needsAlign' \in BOOLEAN /\ layoutChanged' \in BOOLEAN,
         pc' \in {"layout", "pass", "settle", "resettle", "verify", "commit", "committed", "error"},
         rounds' \in 0..MaxRounds[Cardinality(Recorded)],
         Relaxing' => /\ Relaxing /\ rounds' = rounds
                      /\ \/ UNCHANGED <<iteration, cursor>>
                         \/ iteration' = iteration + 1
  PROVE  LoopShape'
<1>1. \A j : PassOf(j)' = PassOf(j)
  BY DEF PassOf, Site
<1>2. addr' \in [Sections' -> Int]
  BY DEF Sections
<1>3. ASSUME Relaxing'
      PROVE  rounds' = 0 /\ \A i \in Recorded' : PassOf(i)' < iteration' \/ (PassOf(i)' = iteration' /\ i < cursor')
  <2>1. /\ rounds = 0 /\ iteration \in Nat /\ link \in Links
        /\ \A i \in Recorded : PassOf(i) < iteration \/ (PassOf(i) = iteration /\ i < cursor)
    BY <1>3 DEF ShapeInv, LoopShape, RELAXATION_PASS_COUNT
  <2>2. \A i \in Recorded : PassOf(i) \in 0..4
    BY <2>1, PassNumbers DEF Recorded
  <2>3. CASE UNCHANGED <<iteration, cursor>>
    BY <1>1, <1>3, <2>1, <2>3
  <2>4. CASE iteration' = iteration + 1
    <3>1. ASSUME NEW i \in Recorded PROVE PassOf(i) < iteration + 1
      BY <2>1, <2>2
    <3>2. Recorded' = Recorded /\ rounds' = 0
      BY <1>3, <2>1
    <3>3. ASSUME NEW i \in Recorded PROVE PassOf(i)' < iteration'
      BY <1>1, <2>4, <3>1
    <3> QED BY <3>2, <3>3
  <2> QED BY <1>3, <2>3, <2>4
<1> QED BY <1>2, <1>3 DEF LoopShape

\* The layout places the sections with the sizes the edits leave.
LEMMA ConvergedAddresses ==
  ASSUME link \in Links, NEW plan, PlanFits(plan)
  PROVE  /\ Placed([s \in Sections |-> SizeOf(plan, s)]) = Placed(Sizes(plan))
         /\ Placed(Sizes(plan)) \in [Sections -> Int]
BY SizesAreNumbers, PlacedIs DEF Sizes

\* The shape holds before the first layout.
LEMMA ShapeInit ==
  ASSUME Init
  PROVE  ShapeInv
<1> DEFINE N == [i \in Sites |-> Site(i).kind]
<1>1. /\ DOMAIN code = Fields /\ code.plan = {} /\ code.as = N /\ code.encoding = N
      /\ code.record = [i \in Sites |-> "none"] /\ code.calls = <<>> /\ code.gps = <<>>
      /\ code.dropped = {} /\ code.applied = {} /\ link \in Links
  BY DEF Init, InitialCode, Fields
<1>2. Recorded = {} /\ RecordedOf(code) = {}
  BY <1>1 DEF Recorded, RecordedOf
<1>3. PlanFits(code.plan)
  BY <1>1, FS_EmptySet DEF PlanFits
<1>4. CodeShape(code)
  BY <1>1, <1>2, <1>3 DEF CodeShape
<1>5. Pending(code)
  BY <1>1 DEF Pending, EncodingsFit
<1>6. ListShape(code)
  BY <1>1, <1>2 DEF ListShape, IsInjective, Listed
<1>7. LoopShape
  <2>1. MaxRounds[Cardinality(Recorded)] \in Nat
    BY <1>1, RecordedFinite
  <2>2. addr \in [Sections -> Int]
    BY DEF Init
  <2>3. /\ iteration = 0 /\ cursor = 1 /\ anyDropped = FALSE /\ needsAlign = FALSE
        /\ layoutChanged = FALSE /\ rounds = 0 /\ pc = "layout"
    BY DEF Init
  <2>4. rounds \in 0..MaxRounds[Cardinality(Recorded)]
    BY <2>1, <2>3
  <2>5. iteration \in 0..RELAXATION_PASS_COUNT
    BY <2>3 DEF RELAXATION_PASS_COUNT
  <2>6. \A i \in Recorded : PassOf(i) < iteration \/ (PassOf(i) = iteration /\ i < cursor)
    BY <1>2
  <2>7. anyDropped \in BOOLEAN /\ needsAlign \in BOOLEAN /\ layoutChanged \in BOOLEAN
    BY <2>3
  <2>8. pc \in {"layout", "pass", "settle", "resettle", "verify", "commit", "committed", "error"}
    BY <2>3
  <2>9. cursor \in Nat \ {0} /\ rounds = 0
    BY <2>3
  <2> QED BY <2>2, <2>4, <2>5, <2>6, <2>7, <2>8, <2>9 DEF LoopShape
<1> QED BY <1>1, <1>4, <1>5, <1>6, <1>7 DEF ShapeInv

\* There are passes left until they are left at once.
LEMMA LeavesEarly ==
  ASSUME ShapeInv, ~LeavesAtOnce
  PROVE  iteration \in 0..4
BY DEF ShapeInv, LoopShape, LeavesAtOnce, RELAXATION_PASS_COUNT

\* A step of the verification takes a record that is recorded.
LEMMA VerifyTakes ==
  ASSUME RefInv, ShapeInv, Verify
  PROVE  /\ cursor \in 1..Len(Records) /\ Records[cursor] \in Recorded
         /\ Records[cursor] \in RecordedOf(code)
<1>1. cursor \in 1..Len(Records)
  <2>1. Records \in Seq(Recorded)
    BY ConcatProperties DEF RefInv, CodeInv, Records
  <2>2. Len(Records) \in Nat
    BY <2>1
  <2> QED BY <2>2 DEF Verify, ShapeInv, LoopShape
<1>2. Records[cursor] \in Recorded
  BY <1>1, RecordsRecorded DEF RefInv
<1> QED BY <1>1, <1>2, RecordedFinite DEF ShapeInv

\* What the commit of a section does with what is known of the code.
LEMMA CommitSectionShape ==
  ASSUME link \in Links, NEW c, NEW d, CodeShape(c), ListShape(c), DOMAIN d = Fields,
         d.plan \subseteq c.plan, d.as = c.as, d.record = c.record, d.calls = c.calls,
         d.gps = c.gps, d.dropped = c.dropped, d.applied = c.applied
  PROVE  CodeShape(d) /\ ListShape(d) /\ RecordedOf(d) = RecordedOf(c)
<1>1. RecordedOf(d) = RecordedOf(c)
  BY DEF RecordedOf
<1>2. PlanFits(d.plan)
  BY SmallerFits DEF CodeShape
<1>3. CodeShape(d)
  BY <1>1, <1>2 DEF CodeShape
<1>4. ListShape(d)
  BY <1>1 DEF ListShape
<1> QED BY <1>1, <1>3, <1>4

\* The shape is an invariant.
LEMMA ShapeHolds == Spec => []ShapeInv
<1>1. ShapeInv /\ RefInv /\ [Next]_vars => ShapeInv'
  <2> SUFFICES ASSUME ShapeInv, RefInv, [Next]_vars
               PROVE  ShapeInv'
    OBVIOUS
  <2>1. /\ link \in Links /\ CodeShape(code) /\ ListShape(code) /\ LoopShape
        /\ Committing \/ Pending(code)
    BY DEF ShapeInv
  <2>2. /\ addr \in [Sections -> Int] /\ iteration \in 0..5 /\ cursor \in Nat \ {0}
        /\ anyDropped \in BOOLEAN /\ needsAlign \in BOOLEAN /\ layoutChanged \in BOOLEAN
        /\ rounds \in 0..MaxRounds[Cardinality(Recorded)]
    BY <2>1 DEF LoopShape, RELAXATION_PASS_COUNT
  <2>3. MaxRounds[Cardinality(Recorded)] \in Nat
    BY <2>1, RecordedFinite
  <2>4. UNCHANGED <<link, code>> => UNCHANGED Recorded
    BY DEF Recorded, Sites
  <2>5. CASE Converge
    <3>1. /\ UNCHANGED <<link, code, iteration, cursor, Settling>>
          /\ addr' = Placed([s \in Sections |-> SizeOf(code.plan, s)])
          /\ pc \in {"layout", "resettle"}
          /\ pc' = IF pc = "layout" THEN "pass" ELSE "settle"
      BY <2>5 DEF Converge
    <3>2. addr' \in [Sections -> Int]
      BY <2>1, <3>1, ConvergedAddresses DEF CodeShape
    <3>3. LoopShape'
      BY <2>2, <2>4, <3>1, <3>2, LoopStays DEF Settling, Relaxing, RELAXATION_PASS_COUNT
    <3> QED BY <3>1, <3>3, CodeStays DEF Committing
  <2>6. CASE Visit
    BY <2>6, DecideShape DEF Visit
  <2>7. CASE EndPass
    <3>1. iteration \in 0..4
      BY <2>7, LeavesEarly DEF EndPass
    <3>2. /\ UNCHANGED <<link, code, addr, Settling>> /\ iteration' = iteration + 1
          /\ cursor' = 1 /\ pc = "pass" /\ pc' = "layout"
      BY <2>7 DEF EndPass
    <3>3. LoopShape'
      BY <2>2, <2>4, <3>1, <3>2, LoopStays DEF Settling, Relaxing, RELAXATION_PASS_COUNT
    <3> QED BY <3>2, <3>3, CodeStays DEF Committing
  <2>8. CASE Finish \/ GiveUp \/ EndRedecision
    <3>1. /\ UNCHANGED <<link, code, addr, iteration, cursor, anyDropped, rounds, layoutChanged>>
          /\ needsAlign' \in BOOLEAN
          /\ pc \notin {"commit", "committed"} /\ pc' \in {"settle", "error"}
      BY <2>2, <2>8 DEF Finish, GiveUp, EndRedecision, Settling
    <3>2. LoopShape'
      BY <2>2, <2>4, <3>1, LoopStays DEF Relaxing, RELAXATION_PASS_COUNT
    <3> QED BY <3>1, <3>2, CodeStays DEF Committing
  <2>9. CASE Redecide
    BY <2>9, DecideShape DEF Redecide
  <2>10. CASE StartRound
    <3>1. /\ UNCHANGED <<link, code, addr, iteration, needsAlign, layoutChanged>>
          /\ anyDropped' = FALSE /\ cursor' = 1 /\ rounds' = rounds + 1
          /\ rounds < MaxRounds[Cardinality(Recorded)]
          /\ pc = "settle" /\ pc' = "verify"
      BY <2>10 DEF StartRound
    <3>3. rounds' \in 0..MaxRounds[Cardinality(Recorded)]
      BY <2>2, <2>3, <3>1
    <3>4. anyDropped' \in BOOLEAN /\ needsAlign' \in BOOLEAN /\ layoutChanged' \in BOOLEAN
      BY <2>2, <3>1
    <3>2. LoopShape'
      BY <2>2, <2>4, <3>1, <3>3, <3>4, LoopStays DEF Relaxing, RELAXATION_PASS_COUNT
    <3> QED BY <3>1, <3>2, CodeStays DEF Committing
  <2>11. CASE Verify
    <3> DEFINE i == Records[cursor]
               drops == i \notin code.dropped /\ ~Fits(code.plan, i)
    <3>1. /\ UNCHANGED <<link, addr, iteration, rounds, needsAlign, layoutChanged, pc>>
          /\ cursor' = cursor + 1 /\ pc = "verify"
          /\ code' = IF drops THEN Reject(code, i) ELSE code
          /\ anyDropped' = IF drops THEN TRUE ELSE anyDropped
      BY <2>11 DEF Verify
    <3>2. i \in RecordedOf(code)
      BY <2>11, VerifyTakes
    <3> HIDE DEF i, drops
    <3>3. code' = code \/ code' = Reject(code, i)
      BY <3>1
    <3> DEFINE d == Reject(code, i)
    <3>4. CodeShape(d) /\ Pending(d) /\ ListShape(d) /\ RecordedOf(d) = RecordedOf(code)
      BY <2>1, <3>1, <3>2, RejectKeeps DEF Committing
    <3> HIDE DEF d
    <3>5. /\ CodeShape(code)' /\ Pending(code)' /\ ListShape(code)'
          /\ UNCHANGED Recorded
      <4>1. CASE code' = code
        BY <2>1, <2>4, <3>1, <4>1, ShapeStays DEF Committing
      <4>2. CASE code' = d
        <5>1. CodeShape(code)' /\ Pending(code)' /\ ListShape(code)' /\ RecordedOf(code)' = RecordedOf(d)
          BY <3>1, <3>4, <4>2, ShapeStays
        <5>2. Recorded' = RecordedOf(code)' /\ Recorded = RecordedOf(code)
          BY DEF Recorded, RecordedOf
        <5> QED BY <3>4, <5>1, <5>2
      <4> QED BY <3>3, <4>1, <4>2 DEF d
    <3>6. anyDropped' \in BOOLEAN /\ cursor' \in Nat \ {0}
      <4>1. cursor' \in Nat \ {0}
        BY <2>2, <3>1
      <4>2. anyDropped' = TRUE \/ anyDropped' = anyDropped
        BY <3>1, Zenon
      <4> QED BY <2>2, <4>1, <4>2
    <3>7. LoopShape'
      BY <2>2, <3>1, <3>5, <3>6, LoopStays DEF Relaxing, RELAXATION_PASS_COUNT
    <3> QED BY <2>1, <3>1, <3>5, <3>7 DEF ShapeInv
  <2>12. CASE Retry
    <3> DEFINE d == UndoAligns(code)
    <3>1. /\ UNCHANGED <<link, addr, iteration, anyDropped, rounds>> /\ cursor' = 1
          /\ code' = d
          /\ needsAlign' = TRUE /\ layoutChanged' = TRUE /\ pc = "verify" /\ pc' = "resettle"
      BY <2>12 DEF Retry, EndRound
    <3>2. CodeShape(d) /\ Pending(d) /\ ListShape(d) /\ RecordedOf(d) = RecordedOf(code)
      BY <2>1, <3>1, UndoKeeps DEF Committing
    <3> HIDE DEF d
    <3>3. CodeShape(code)' /\ Pending(code)' /\ ListShape(code)' /\ RecordedOf(code)' = RecordedOf(d)
      BY <3>1, <3>2, ShapeStays
    <3>4. UNCHANGED Recorded
      BY <3>2, <3>3 DEF Recorded, RecordedOf
    <3>5. LoopShape'
      BY <2>2, <3>1, <3>4, LoopStays DEF Relaxing, RELAXATION_PASS_COUNT
    <3> QED BY <2>1, <3>1, <3>3, <3>5 DEF ShapeInv
  <2>13. CASE Sync \/ Commit
    <3>1. /\ UNCHANGED <<link, code, addr, iteration, anyDropped, rounds, needsAlign>>
          /\ cursor' = 1 /\ layoutChanged' \in BOOLEAN
          /\ pc = "verify" /\ pc' \in {"resettle", "commit"}
      BY <2>2, <2>13 DEF Sync, Commit, EndRound
    <3>2. LoopShape'
      BY <2>2, <2>4, <3>1, LoopStays DEF Relaxing, RELAXATION_PASS_COUNT
    <3> QED BY <3>1, <3>2, CodeStays DEF Committing
  <2>14. CASE CommitSection
    <3>1. /\ UNCHANGED <<link, addr, iteration, anyDropped, rounds, needsAlign, layoutChanged>>
          /\ cursor' = cursor + 1 /\ pc = "commit" /\ pc' \in {"commit", "committed"}
      BY <2>14 DEF CommitSection
    <3> DEFINE d == code'
    <3>2. /\ DOMAIN d = Fields /\ d.plan \subseteq code.plan /\ d.as = code.as
          /\ d.record = code.record /\ d.calls = code.calls
          /\ d.gps = code.gps /\ d.dropped = code.dropped /\ d.applied = code.applied
      BY <2>1, <2>14 DEF CommitSection, CodeShape, Fields
    <3> HIDE DEF d
    <3>3. CodeShape(d) /\ ListShape(d) /\ RecordedOf(d) = RecordedOf(code)
      BY <2>1, <3>2, CommitSectionShape
    <3>4. CodeShape(code)' /\ ListShape(code)' /\ RecordedOf(code)' = RecordedOf(d)
      BY <3>1, <3>3, ShapeStays DEF d
    <3>5. UNCHANGED Recorded
      BY <3>3, <3>4 DEF Recorded, RecordedOf
    <3>6. LoopShape'
      BY <2>2, <3>1, <3>5, LoopStays DEF Relaxing, RELAXATION_PASS_COUNT
    <3> QED BY <2>1, <3>1, <3>4, <3>6 DEF ShapeInv, Committing
  <2>15. CASE UNCHANGED vars
    <3>1. /\ UNCHANGED <<link, code, addr, iteration, cursor, anyDropped, rounds, needsAlign,
                         layoutChanged, pc>>
      BY <2>15 DEF vars
    <3>2. LoopShape'
      BY <2>1, <2>2, <2>4, <3>1, LoopStays DEF LoopShape, Relaxing, RELAXATION_PASS_COUNT
    <3> QED BY <3>1, <3>2, CodeStays DEF Committing
  <2> QED BY <2>5, <2>6, <2>7, <2>8, <2>9, <2>10, <2>11, <2>12, <2>13, <2>14, <2>15 DEF Next
<1> QED BY <1>1, ShapeInit, RefInvHolds, PTL DEF Spec

\* The records are what is recorded, once.
LEMMA RecordsAre ==
  ASSUME ShapeInv
  PROVE  /\ Records \in Seq(Recorded)
         /\ ToSet(Records) = Recorded /\ IsInjective(Records)
<1> DEFINE m == Len(code.calls)
           n == Len(code.gps)
<1>1. /\ link \in Links /\ ListShape(code) /\ Recorded = RecordedOf(code)
  BY RecordedFinite DEF ShapeInv
<1>2. /\ code.calls \in Seq(Recorded) /\ code.gps \in Seq(Recorded)
      /\ m \in Nat /\ n \in Nat /\ DOMAIN code.calls = 1..m /\ DOMAIN code.gps = 1..n
  BY <1>1 DEF ListShape
<1>3. /\ Records \in Seq(Recorded)
      /\ Len(Records) = m + n
      /\ \A k \in 1..m + n : Records[k] = IF k <= m THEN code.calls[k] ELSE code.gps[k - m]
  <2>1. code.calls \o code.gps \in Seq(Recorded)
    BY <1>2
  <2>2. Len(code.calls \o code.gps) = m + n
    BY <1>2
  <2>3. \A k \in 1..m + n : (code.calls \o code.gps)[k] = IF k <= m THEN code.calls[k] ELSE code.gps[k - m]
    BY <1>2
  <2> QED BY <2>1, <2>2, <2>3 DEF Records
<1>4. DOMAIN Records = 1..m + n
  BY <1>2, <1>3
<1> HIDE DEF m, n
<1>5. ToSet(Records) = Recorded
  <2>1. ASSUME NEW i \in Recorded PROVE \E k \in DOMAIN Records : Records[k] = i
    <3>1. CASE Listed(code.calls, i)
      <4>1. PICK k \in 1..m : code.calls[k] = i
        BY <1>2, <3>1 DEF Listed
      <4>2. k \in 1..m + n /\ k <= m
        BY <1>2
      <4> QED BY <1>3, <1>4, <4>1, <4>2
    <3>2. CASE Listed(code.gps, i)
      <4>1. PICK k \in 1..n : code.gps[k] = i
        BY <1>2, <3>2 DEF Listed
      <4>2. k + m \in 1..m + n /\ ~(k + m <= m) /\ (k + m) - m = k
        BY <1>2
      <4> QED BY <1>3, <1>4, <4>1, <4>2
    <3> QED BY <1>1, <3>1, <3>2 DEF ListShape
  <2>2. \A k \in DOMAIN Records : Records[k] \in Recorded
    BY <1>3, <1>4
  <2> QED BY <2>1, <2>2 DEF ToSet
<1>6. IsInjective(Records)
  <2> SUFFICES ASSUME NEW j \in 1..m + n, NEW k \in 1..m + n, Records[j] = Records[k]
               PROVE  j = k
    BY <1>4 DEF IsInjective
  <2>1. j <= m => j \in 1..m
    BY <1>2
  <2>2. k <= m => k \in 1..m
    BY <1>2
  <2>3. ~(j <= m) => j - m \in 1..n /\ (j - m) + m = j
    BY <1>2
  <2>4. ~(k <= m) => k - m \in 1..n /\ (k - m) + m = k
    BY <1>2
  <2>5. CASE j <= m /\ k <= m
    BY <1>1, <1>2, <1>3, <2>1, <2>2, <2>5 DEF ListShape, IsInjective
  <2>6. CASE ~(j <= m) /\ ~(k <= m)
    <3>1. code.gps[j - m] = code.gps[k - m]
      BY <1>3, <2>6
    <3>2. j - m = k - m
      BY <1>1, <1>2, <2>3, <2>4, <2>6, <3>1 DEF ListShape, IsInjective
    <3> QED BY <2>3, <2>4, <2>6, <3>2
  <2>7. ASSUME NEW x \in 1..m, NEW y \in 1..n PROVE code.calls[x] # code.gps[y]
    <3>1. code.calls[x] \in Sites
      BY <1>2 DEF Recorded
    <3> QED BY <1>1, <1>2, <3>1 DEF ListShape, Listed
  <2>8. CASE j <= m /\ ~(k <= m)
    BY <1>3, <2>1, <2>4, <2>7, <2>8
  <2>9. CASE ~(j <= m) /\ k <= m
    BY <1>3, <2>2, <2>3, <2>7, <2>9
  <2> QED BY <2>5, <2>6, <2>8, <2>9
<1> QED BY <1>3, <1>5, <1>6

\* The records, the pending edits and the loop are of their kinds, for all links.
THEOREM TypeCorrect == Spec => []TypeOK
<1>1. ShapeInv => TypeOK
  <2> SUFFICES ASSUME ShapeInv
               PROVE  TypeOK
    OBVIOUS
  <2>1. /\ link \in Links /\ CodeShape(code) /\ LoopShape /\ Recorded = RecordedOf(code)
        /\ Committing \/ Pending(code)
    BY RecordedFinite DEF ShapeInv
  <2>2. ToSet(Records) = Recorded /\ IsInjective(Records)
    BY RecordsAre
  <2>3. ASSUME NEW e \in code.plan
        PROVE  e.at \in 0..(link.sections[Site(e.reloc).sect].size - e.bytes)
    <3>1. EditFits(e)
      BY <2>1 DEF CodeShape, PlanFits
    <3>2. /\ e.at \in Nat /\ e.bytes \in Nat /\ e.at + e.bytes <= End(e.reloc)
          /\ e.reloc \in Sites
      BY <3>1 DEF EditFits
    <3>3. /\ End(e.reloc) \in Nat /\ End(e.reloc) <= link.sections[Site(e.reloc).sect].size
          /\ link.sections[Site(e.reloc).sect].size \in Nat
      BY <2>1, <3>2, SiteFacts, SectionFacts
    <3> QED BY <3>2, <3>3
  <2>4. Committing \/ code.applied \subseteq {e.reloc : e \in code.plan}
    BY <2>1 DEF Pending
  <2>5. \A e, f \in code.plan : e.reloc = f.reloc => e = f
    BY <2>1 DEF CodeShape, PlanFits
  <2>6. code.dropped \subseteq Recorded /\ DOMAIN addr = Sections
    BY <2>1 DEF CodeShape, LoopShape
  <2> QED BY <2>1, <2>2, <2>3, <2>4, <2>5, <2>6 DEF TypeOK, LoopShape, Committing
<1> QED BY <1>1, ShapeHolds, PTL

\* The sections are where the pending edits put them.
Synced == addr = Placed(Sizes(code.plan))

\* The decision on i has been rejected, or its value fits.
Stands(i) == i \in code.dropped \/ Fits(code.plan, i)

\* Padding is only decided again after a rejection; what is not followed by a
\* layout is Synced, and a round without a rejection has verified what it passed.
SyncInv ==
  /\ needsAlign => layoutChanged /\ pc \in {"settle", "resettle", "error"}
  /\ pc = "pass" /\ LeavesAtOnce => Synced
  /\ pc = "settle" /\ ~layoutChanged => Synced
  /\ pc = "verify" /\ ~layoutChanged /\ ~anyDropped => Synced
  /\ pc = "verify" /\ ~anyDropped => \A k \in 1..Len(Records) : k < cursor => Stands(Records[k])

\* What the sections ask for between GP and what they hold depends on the link alone.
LEMMA SectionsStay ==
  ASSUME UNCHANGED link
  PROVE  \A s : AlignmentTo(s)' = AlignmentTo(s) /\ InLoadSegment(s)' = InLoadSegment(s)
BY DEF AlignmentTo, InLoadSegment, GPOutput

\* What fits depends on the link, the layout and the records alone.
LEMMA FitsStays ==
  ASSUME UNCHANGED <<link, addr>>, code'.record = code.record
  PROVE  \A plan, i : Fits(plan, i)' = Fits(plan, i)
<1>1. \A plan, l : ValueOf(plan, l)' = ValueOf(plan, l)
  BY DEF ValueOf, PlanOf, Site
<1> SUFFICES ASSUME NEW plan, NEW i
             PROVE  Fits(plan, i)' = Fits(plan, i)
  OBVIOUS
<1>2. /\ ValueOf(plan, Site(i).to)' = ValueOf(plan, Site(i).to)
      /\ Place(plan, i)' = Place(plan, i)
      /\ GP' = GP
      /\ Site(i)' = Site(i)
  BY <1>1 DEF Place, GP, GPBehind, Site
<1>3. /\ Displacement(plan, i)' = Displacement(plan, i)
      /\ FitsZeroPage(plan, i)' = FitsZeroPage(plan, i)
      /\ FitsInGP(plan, i)' = FitsInGP(plan, i)
  BY <1>2, SectionsStay DEF Displacement, FitsZeroPage, FitsInGP, FitsInGPFrom
<1> QED BY <1>2, <1>3 DEF Fits

\* What is synced and what stands depend on the link, the code and the layout alone.
LEMMA SyncedStays ==
  ASSUME UNCHANGED <<link, code, addr>>
  PROVE  /\ Synced' = Synced
         /\ Records' = Records
         /\ \A i : Stands(i)' = Stands(i)
<1>1. Synced' = Synced
  BY DEF Synced, Sizes, SizeOf, Placed, PlanOf, Site, Sections
<1>2. \A plan, i : Fits(plan, i)' = Fits(plan, i)
  BY FitsStays
<1>3. \A i : Stands(i)' = Stands(i)
  BY <1>2 DEF Stands
<1> QED BY <1>1, <1>3 DEF Records

\* What a round has verified is what is pending.
LEMMA SyncHolds == Spec => []SyncInv
<1>1. Init => SyncInv
  BY DEF Init, SyncInv
<1>2. SyncInv /\ ShapeInv /\ RefInv /\ ShapeInv' /\ [Next]_vars => SyncInv'
  <2> SUFFICES ASSUME SyncInv, ShapeInv, RefInv, [Next]_vars
               PROVE  SyncInv'
    OBVIOUS
  <2>1. CASE Converge
    <3>1. /\ UNCHANGED <<link, code, iteration, cursor, Settling>>
          /\ addr' = Placed([s \in Sections |-> SizeOf(code.plan, s)])
          /\ pc \in {"layout", "resettle"}
          /\ pc' = IF pc = "layout" THEN "pass" ELSE "settle"
      BY <2>1 DEF Converge
    <3>2. Synced'
      BY <3>1 DEF Synced, Sizes, SizeOf, Placed, PlanOf, Site, Sections
    <3>3. pc' # "verify" /\ needsAlign' = needsAlign /\ layoutChanged' = layoutChanged
      BY <3>1 DEF Settling
    <3>4. pc = "layout" => ~needsAlign
      BY DEF SyncInv
    <3> QED BY <3>1, <3>2, <3>3, <3>4 DEF SyncInv
  <2>2. CASE Visit
    <3>1. /\ ~LeavesAtOnce /\ pc = "pass" /\ pc' \in {"pass", "error"}
          /\ UNCHANGED <<link, iteration, Settling>>
      BY <2>2 DEF Visit, Decide
    <3>2. ~LeavesAtOnce'
      BY <3>1 DEF LeavesAtOnce
    <3> QED BY <3>1, <3>2 DEF SyncInv, Settling
  <2>3. CASE EndPass
    <3>1. pc = "pass" /\ pc' = "layout" /\ UNCHANGED Settling
      BY <2>3 DEF EndPass
    <3> QED BY <3>1 DEF SyncInv, Settling
  <2>4. CASE Finish
    <3>1. /\ pc = "pass" /\ LeavesAtOnce /\ pc' = "settle"
          /\ UNCHANGED <<link, code, addr, Settling>>
      BY <2>4 DEF Finish
    <3>2. Synced'
      BY <3>1, SyncedStays DEF SyncInv
    <3> QED BY <3>1, <3>2 DEF SyncInv, Settling
  <2>5. CASE Redecide
    <3>1. /\ pc = "settle" /\ needsAlign /\ pc' \in {"settle", "error"} /\ UNCHANGED Settling
      BY <2>5 DEF Redecide, Decide
    <3>2. layoutChanged' /\ needsAlign'
      BY <3>1 DEF SyncInv, Settling
    <3> QED BY <3>1, <3>2 DEF SyncInv
  <2>6. CASE EndRedecision
    <3>1. /\ pc = "settle" /\ needsAlign /\ pc' = "settle" /\ ~needsAlign'
          /\ layoutChanged' = layoutChanged
      BY <2>6 DEF EndRedecision
    <3>2. layoutChanged'
      BY <3>1 DEF SyncInv
    <3> QED BY <3>1, <3>2 DEF SyncInv
  <2>7. CASE StartRound
    <3>1. /\ pc = "settle" /\ ~needsAlign /\ pc' = "verify" /\ cursor' = 1
          /\ UNCHANGED <<link, code, addr, needsAlign, layoutChanged>>
      BY <2>7 DEF StartRound
    <3>2. ~layoutChanged' => Synced'
      BY <3>1, SyncedStays DEF SyncInv
    <3>3. \A k \in 1..Len(Records') : ~(k < cursor')
      BY <3>1
    <3> QED BY <3>1, <3>2, <3>3 DEF SyncInv
  <2>8. CASE GiveUp
    <3>1. pc' = "error" /\ ~needsAlign /\ needsAlign' = needsAlign
      BY <2>8 DEF GiveUp, Settling
    <3> QED BY <3>1 DEF SyncInv
  <2>9. CASE Verify
    <3> DEFINE i == Records[cursor]
               drops == i \notin code.dropped /\ ~Fits(code.plan, i)
    <3>1. /\ UNCHANGED <<link, addr, needsAlign, layoutChanged, pc>>
          /\ cursor' = cursor + 1 /\ pc = "verify"
          /\ code' = IF drops THEN Reject(code, i) ELSE code
          /\ anyDropped' = IF drops THEN TRUE ELSE anyDropped
      BY <2>9 DEF Verify
    <3>2. ~needsAlign'
      BY <3>1 DEF SyncInv
    <3> HIDE DEF i, drops
    <3>3. CASE drops
      BY <3>1, <3>2, <3>3 DEF SyncInv
    <3>4. CASE ~drops
      <4>1. UNCHANGED <<code, anyDropped>>
        BY <3>1, <3>4, Zenon
      <4>2. /\ Synced' = Synced /\ Records' = Records
            /\ \A k \in 1..Len(Records) : Stands(Records[k])' = Stands(Records[k])
        BY <3>1, <4>1, SyncedStays
      <4>3. Stands(Records[cursor])
        BY <3>4 DEF drops, i, Stands
      <4>4. ASSUME ~anyDropped, NEW k \in 1..Len(Records), k < cursor'
            PROVE  Stands(Records[k])
        <5>1. k < cursor \/ k = cursor
          BY <3>1, <4>4 DEF ShapeInv, LoopShape
        <5> QED BY <3>1, <4>3, <4>4, <5>1 DEF SyncInv
      <4>5. ~anyDropped' => \A k \in 1..Len(Records') : k < cursor' => Stands(Records[k])'
        BY <4>1, <4>2, <4>4
      <4>6. ~layoutChanged' /\ ~anyDropped' => Synced'
        BY <3>1, <4>1, <4>2 DEF SyncInv
      <4> QED BY <3>1, <3>2, <4>2, <4>5, <4>6 DEF SyncInv
    <3> QED BY <3>3, <3>4
  <2>10. CASE Retry
    <3>1. layoutChanged' = TRUE /\ pc' = "resettle"
      BY <2>10 DEF Retry
    <3> QED BY <3>1 DEF SyncInv
  <2>11. CASE Sync \/ Commit
    <3>1. pc = "verify" /\ pc' \in {"resettle", "commit"} /\ UNCHANGED needsAlign
      BY <2>11 DEF Sync, Commit, EndRound
    <3> QED BY <3>1 DEF SyncInv
  <2>12. CASE CommitSection
    <3>1. pc = "commit" /\ pc' \in {"commit", "committed"} /\ UNCHANGED needsAlign
      BY <2>12 DEF CommitSection
    <3> QED BY <3>1 DEF SyncInv
  <2>13. CASE UNCHANGED vars
    <3>1. UNCHANGED <<link, code, addr, iteration, cursor, anyDropped, needsAlign, layoutChanged, pc>>
      BY <2>13 DEF vars
    <3>2. /\ Synced' = Synced /\ Records' = Records
          /\ \A k : Stands(Records[k])' = Stands(Records[k])
          /\ LeavesAtOnce' = LeavesAtOnce
      BY <3>1, SyncedStays DEF LeavesAtOnce
    <3> QED BY <3>1, <3>2 DEF SyncInv
  <2> QED BY <2>1, <2>2, <2>3, <2>4, <2>5, <2>6, <2>7, <2>8, <2>9, <2>10, <2>11, <2>12, <2>13 DEF Next
<1> QED BY <1>1, <1>2, ShapeHolds, RefInvHolds, PTL DEF Spec

------------------------------------------------------------------------------
\* Alignment.

\* What the address of a section is a multiple of its alignment behind.
Anchor(s) == IF link.sections[s].base # Follow THEN link.sections[s].base ELSE 0

\* A layout gives every section its base or a multiple of its alignment.
Anchored(at) ==
  \A s \in Sections :
    /\ link.sections[s].base # Follow => at[s] = link.sections[s].base
    /\ link.sections[s].base = Follow => \E k \in Int : at[s] = k * link.sections[s].align

\* The code behind a padding is aligned, wherever a layout puts its section.
Aligned(plan, i) ==
  \E k \in Int :
    Anchor(Site(i).sect) + MapOffset(PlanOf(plan, Site(i).sect), End(i)) = k * AlignmentOf(i)

\* An anchored section keeps the alignments of its padding, wherever it lies.
LEMMA AnchoredAligned ==
  ASSUME link \in Links, NEW at \in [Sections -> Int], Anchored(at),
         NEW i \in Sites, Site(i).kind = "align"
  PROVE  /\ Anchor(Site(i).sect) \in Int
         /\ \E k \in Int : at[Site(i).sect] = Anchor(Site(i).sect) + k * AlignmentOf(i)
<1> DEFINE s == Site(i).sect
           a == AlignmentOf(i)
<1>1. s \in Sections /\ link.sections[s].base \in {Follow} \cup Nat
  BY SiteFacts, SectionFacts
<1>2. a \in Nat \ {0}
  BY AlignmentIs
<1>3. CASE link.sections[s].base # Follow
  <2>1. Anchor(s) = link.sections[s].base /\ at[s] = link.sections[s].base
    BY <1>1, <1>3 DEF Anchor, Anchored
  <2> HIDE DEF s, a
  <2>2. at[s] = Anchor(s) + 0 * a /\ Anchor(s) \in Int
    BY <1>1, <1>2, <1>3, <2>1
  <2> QED BY <2>2 DEF s, a
<1>4. CASE link.sections[s].base = Follow
  <2>1. Anchor(s) = 0
    BY <1>4 DEF Anchor
  <2>2. PICK k \in Int : at[s] = k * link.sections[s].align
    BY <1>1, <1>4 DEF Anchored
  <2>3. PICK j \in Int : link.sections[s].align = j * a
    BY <1>4, AlignmentIs
  <2> HIDE DEF s, a
  <2>4. k * (j * a) = (k * j) * a
    BY <1>2, MultipleOfMultiple
  <2>5. k * j \in Int
    OBVIOUS
  <2> DEFINE m == k * j
  <2>6. at[s] = m * a
    BY <2>2, <2>3, <2>4
  <2> HIDE DEF m
  <2>7. m \in Int
    BY <2>5 DEF m
  <2>8. at[s] = 0 + m * a
    BY <1>2, <2>6, <2>7
  <2> QED BY <2>1, <2>7, <2>8 DEF s, a
<1> QED BY <1>3, <1>4

\* The edits of other relocations lie before the code of one, or behind it.
LEMMA BeforeOrBehind ==
  ASSUME link \in Links, NEW e, EditFits(e), NEW i \in Sites,
         Site(e.reloc).sect = Site(i).sect, e.reloc # i
  PROVE  \/ e.reloc < i /\ e.at < Site(i).off /\ e.at < End(i)
         \/ i < e.reloc /\ ~(e.at < End(i)) /\ ~(e.at < Site(i).off)
<1>1. /\ e.reloc \in Sites /\ e.at \in Nat /\ e.at < End(e.reloc) /\ Site(e.reloc).off <= e.at
  BY DEF EditFits
<1>2. /\ e.reloc \in Nat /\ i \in Nat /\ End(e.reloc) \in Nat /\ Site(e.reloc).off \in Nat
      /\ End(i) \in Nat /\ Site(i).off \in Nat /\ Site(i).off <= End(i)
  BY <1>1, SiteFacts
<1>3. e.reloc < i => End(e.reloc) <= Site(i).off
  BY <1>1, SiteFacts
<1>4. i < e.reloc => End(i) <= Site(e.reloc).off
  BY <1>1, SiteFacts
<1> QED BY <1>1, <1>2, <1>3, <1>4

\* An edit behind a padding leaves it aligned.
LEMMA BehindKeeps ==
  ASSUME link \in Links, NEW plan, PlanFits(plan), NEW e, EditFits(e), NEW i \in Sites,
         i < e.reloc, Aligned(plan, i)
  PROVE  Aligned(AddEdit(plan, e), i)
<1> DEFINE s == Site(i).sect
           P == PlanOf(plan, s)
           Q == PlanOf(AddEdit(plan, e), s)
<1>1. i \in Nat /\ e.reloc \in Nat /\ e.reloc # i
  BY SiteFacts DEF EditFits
<1>2. ASSUME NEW f, EditFits(f), f.reloc = e.reloc, Site(f.reloc).sect = s
      PROVE  ~(f.at < End(i))
  BY <1>1, <1>2, BeforeOrBehind
<1>3. \A f \in plan : EditFits(f)
  BY DEF PlanFits
<1>4. {f \in P : f.at < End(i)} = {f \in Q : f.at < End(i)}
  <2>1. \A f \in P : f.at < End(i) => f \in Q
    BY <1>2, <1>3 DEF PlanOf, AddEdit
  <2>2. \A f \in Q : f.at < End(i) => f \in P
    BY <1>2 DEF PlanOf, AddEdit
  <2> QED BY <2>1, <2>2
<1>5. MapOffset(Q, End(i)) = MapOffset(P, End(i))
  BY <1>4 DEF MapOffset, ShiftAt
<1> QED BY <1>5 DEF Aligned

\* Padding that is cut is aligned.
LEMMA CutAligns ==
  ASSUME link \in Links, addr \in [Sections -> Int], Anchored(addr),
         NEW c, PlanFits(c.plan), NEW d, NEW i \in Sites, Site(i).kind = "align",
         \A e \in c.plan : e.reloc # i, Aligns(d, c, i)
  PROVE  Aligned(d.plan, i)
<1> DEFINE s == Site(i).sect
           a == AlignmentOf(i)
           P == PlanOf(c.plan, s)
           Q == PlanOf(d.plan, s)
           A == {e \in P : e.at < Site(i).off}
<1>1. PICK nops \in Nat, k \in Int :
        /\ Place(c.plan, i) + nops = k * a
        /\ nops <= Site(i).addend
        /\ \/ nops = Site(i).addend /\ d = c
           \/ /\ nops < Site(i).addend
              /\ Applies(d, c, i, Site(i).off + nops, Site(i).addend - nops, "none", c.applied \cup {i})
  BY DEF Aligns
<1>2. /\ s \in Sections /\ Site(i).off \in Nat /\ Site(i).addend \in Nat
      /\ End(i) = Site(i).off + Site(i).addend /\ End(i) \in Nat /\ Site(i).off <= End(i)
  BY SiteFacts
<1>3. a \in Nat \ {0}
  BY AlignmentIs
<1>4. Place(c.plan, i) = addr[s] + MapOffset(P, Site(i).off) /\ MapOffset(P, Site(i).off) \in Nat
  <2>1. s # Absolute
    BY <1>2, SectionFacts DEF Absolute
  <2> DEFINE l == [sect |-> s, off |-> Site(i).off]
  <2>2. l.sect = s /\ l.off = Site(i).off /\ Fitting(l)
    BY FittingLabels
  <2> HIDE DEF l
  <2>3. MapOffset(P, Site(i).off) \in Nat
    BY <2>1, <2>2, ValuesAreNumbers
  <2>4. Place(c.plan, i) = ValueOf(c.plan, l)
    BY DEF Place, l
  <2> QED BY <2>1, <2>2, <2>3, <2>4 DEF ValueOf
<1>5. {e \in P : e.at < End(i)} = A
  <2>1. ASSUME NEW e \in P PROVE e.at < End(i) <=> e.at < Site(i).off
    <3>1. EditFits(e) /\ Site(e.reloc).sect = s /\ e.reloc # i
      BY DEF PlanOf, PlanFits
    <3> QED BY <3>1, BeforeOrBehind
  <2> QED BY <2>1
<1>6. MapOffset(P, Site(i).off) = Site(i).off - TotalShift(A)
  BY DEF MapOffset, ShiftAt
<1>7. TotalShift(A) \in Nat
  <2>1. Apart(P)
    BY PlansApart
  <2>2. Apart(A)
    BY <2>1, SmallerPlan
  <2> QED BY <2>2, ShiftCounts, GoneBytes, FS_CardinalityType
<1>8. MapOffset(Q, End(i)) = MapOffset(P, Site(i).off) + nops
  <2>1. CASE nops = Site(i).addend /\ d = c
    <3>1. MapOffset(Q, End(i)) = End(i) - TotalShift(A)
      BY <1>5, <2>1 DEF MapOffset, ShiftAt
    <3> HIDE DEF A, P, Q
    <3> QED BY <1>1, <1>2, <1>6, <1>7, <2>1, <3>1
  <2>2. CASE /\ nops < Site(i).addend
             /\ Applies(d, c, i, Site(i).off + nops, Site(i).addend - nops, "none", c.applied \cup {i})
    <3> DEFINE e == Edit(i, Site(i).off + nops, Site(i).addend - nops)
    <3>1. /\ EditFits(e) /\ d.plan = AddEdit(c.plan, e)
          /\ e.reloc = i /\ e.at = Site(i).off + nops /\ e.bytes = Site(i).addend - nops
      BY <2>2 DEF Applies, Edit
    <3> HIDE DEF e
    <3>2. d.plan = c.plan \cup {e}
      BY <3>1 DEF AddEdit
    <3>3. {f \in Q : f.at < End(i)} = A \cup {e}
      <4>1. e.at < End(i) /\ e \in Q
        BY <3>1, <3>2 DEF EditFits, PlanOf
      <4>2. \A f \in Q : f \in P \/ f = e
        BY <3>2 DEF PlanOf
      <4>3. \A f \in P : f \in Q
        BY <3>2 DEF PlanOf
      <4>4. \A f \in P : f.at < End(i) <=> f \in A
        BY <1>5
      <4> HIDE DEF P, Q
      <4>5. \A f \in A : f \in P
        OBVIOUS
      <4> QED BY <4>1, <4>2, <4>3, <4>4, <4>5
    <3>4. Apart(A \cup {e})
      <4>1. PlanFits(d.plan)
        BY <3>1, AddedFits
      <4>2. Apart(Q)
        BY <4>1, PlansApart
      <4>3. A \cup {e} \subseteq Q
        BY <3>3
      <4> HIDE DEF A, Q
      <4> QED BY <4>2, <4>3, SmallerPlan
    <3>5. e \notin A
      BY <3>1 DEF PlanOf
    <3> HIDE DEF A
    <3>6. TotalShift(A \cup {e}) = e.bytes + TotalShift(A)
      <4>1. (A \cup {e}) \ {e} = A
        BY <3>5
      <4>2. Apart(A)
        BY <3>4, SmallerPlan
      <4>3. Cardinality(Gone(A \cup {e})) = e.bytes + Cardinality(Gone(A))
        BY <3>4, <4>1, GoneOfOne
      <4> QED BY <3>4, <4>2, <4>3, ShiftCounts
    <3>7. MapOffset(Q, End(i)) = End(i) - (e.bytes + TotalShift(A))
      BY <3>3, <3>6 DEF MapOffset, ShiftAt
    <3> HIDE DEF P, Q
    <3> QED BY <1>1, <1>2, <1>6, <1>7, <2>2, <3>1, <3>7
  <2> QED BY <1>1, <2>1, <2>2
<1>9. PICK m \in Int : addr[s] = Anchor(s) + m * a
  BY AnchoredAligned
<1>10. Anchor(s) \in Int
  BY AnchoredAligned
<1> HIDE DEF s, a, P, Q, A
<1>11. k * a - m * a = (k - m) * a /\ k * a \in Int /\ m * a \in Int /\ k - m \in Int
  BY <1>3, Multiples
<1>12. Anchor(s) + MapOffset(Q, End(i)) = (k - m) * a
  <2> DEFINE ka == k * a
             ma == m * a
             x == (k - m) * a
  <2>1. /\ ka - ma = x /\ ka \in Int /\ ma \in Int
        /\ Place(c.plan, i) + nops = ka /\ addr[s] = Anchor(s) + ma
    BY <1>1, <1>9, <1>11
  <2> HIDE DEF ka, ma, x
  <2>2. Anchor(s) + MapOffset(Q, End(i)) = x
    BY <1>1, <1>4, <1>8, <1>10, <2>1
  <2> QED BY <2>2 DEF x
<1> QED BY <1>11, <1>12 DEF Aligned, s, a, Q

\* The paddings that the pass has passed since it was started last.
Reached(i) ==
  /\ link.kind # "shared"
  /\ IF Relaxing THEN \/ iteration = RELAXATION_PASS_COUNT
                      \/ iteration = RELAXATION_ALIGN /\ i < cursor
     ELSE needsAlign => i < cursor

\* Nothing was rejected since padding was decided.
Aligning == Relaxing \/ pc \in {"settle", "resettle"} \/ (pc = "verify" /\ ~anyDropped)

\* Padding is decided in the order of the code, so what is aligned stays so until
\* an edit is rejected.
AlignInv ==
  /\ pc # "layout" => Anchored(addr)
  /\ Relaxing /\ iteration < RELAXATION_ALIGN => code.applied = {}
  /\ (Relaxing /\ iteration = RELAXATION_ALIGN) \/ (~Relaxing /\ needsAlign) =>
       \A i \in code.applied : i < cursor
  /\ Aligning =>
       \A i \in Sites :
         Site(i).kind = "align" /\ (i \in code.applied \/ Reached(i)) => Aligned(code.plan, i)

\* Alignments depend on the link alone.
LEMMA AlignedStays ==
  ASSUME UNCHANGED link
  PROVE  /\ \A i : Site(i)' = Site(i) /\ Sites' = Sites /\ Sections' = Sections
         /\ \A plan, i : Aligned(plan, i)' = Aligned(plan, i)
         /\ \A at : Anchored(at)' = Anchored(at)
BY DEF Site, Sites, Sections, Aligned, Anchored, Anchor, PlanOf, End, AlignmentOf

\* A pass over padding that finds none to decide has decided all.
LEMMA NoneLeft ==
  ASSUME ShapeInv, ~Committing, ToVisit(RELAXATION_ALIGN) = {},
         NEW i \in Sites, Site(i).kind = "align"
  PROVE  i < cursor \/ i \in code.applied
<1>1. CASE code.encoding[i] = "align"
  <2>1. ~(i >= cursor)
    BY <1>1 DEF ToVisit, Handles
  <2>2. i \in Nat /\ cursor \in Nat
    BY SiteFacts DEF ShapeInv, LoopShape
  <2> QED BY <2>1, <2>2
<1>2. CASE code.encoding[i] # "align"
  BY <1>2 DEF ShapeInv, Pending, EncodingsFit
<1> QED BY <1>1, <1>2

\* Padding that is decided ends on its alignment, and what is decided behind it
\* keeps it there.
LEMMA DecideAligns ==
  ASSUME ShapeInv, AlignInv, Decide(RELAXATION_ALIGN), pc \in {"pass", "settle"},
         pc = "pass" => iteration = RELAXATION_ALIGN, pc = "settle" => needsAlign
  PROVE  AlignInv'
<1>1. PICK i \in Sites :
        /\ Handles(RELAXATION_ALIGN, i) /\ i >= cursor /\ cursor' = i + 1
        /\ \A j \in Sites : j >= cursor /\ Handles(RELAXATION_ALIGN, j) => i <= j
        /\ Site(i).kind = "align"
        /\ code' = [code EXCEPT !.failed = TRUE] \/ Aligns(code', code, i)
  BY DecideSteps
<1>2. /\ UNCHANGED <<link, addr, iteration, Settling>>
      /\ pc' = IF code'.failed THEN "error" ELSE pc
  BY DEF Decide
<1>3. /\ link \in Links /\ CodeShape(code) /\ Pending(code) /\ addr \in [Sections -> Int]
      /\ PlanFits(code.plan) /\ cursor \in Nat
  BY DEF ShapeInv, Committing, CodeShape, LoopShape
<1>4. Anchored(addr) /\ Anchored(addr)'
  BY <1>2, AlignedStays DEF AlignInv
<1>5. CASE code' = [code EXCEPT !.failed = TRUE]
  <2>1. pc' = "error"
    BY <1>2, <1>3, <1>5 DEF CodeShape, Fields
  <2>2. code'.applied = code.applied
    BY <1>3, <1>5 DEF CodeShape, Fields
  <2>3. /\ (Relaxing /\ iteration = RELAXATION_ALIGN) \/ (~Relaxing /\ needsAlign)
        /\ ~Relaxing'
    BY <2>1 DEF Relaxing
  <2>4. \A j \in code'.applied : j < cursor'
    <3>1. \A j \in code.applied : j < cursor /\ j \in Nat
      BY <1>3, <2>3, SiteFacts DEF AlignInv, CodeShape
    <3>2. i \in Nat
      BY <1>3, SiteFacts
    <3> QED BY <1>1, <1>3, <2>2, <3>1, <3>2
  <2> QED BY <1>4, <2>1, <2>3, <2>4 DEF AlignInv, Aligning
<1>6. CASE Aligns(code', code, i)
  <2> DEFINE d == code'
  <2>1. \/ d = code
        \/ \E at, bytes : Applies(d, code, i, at, bytes, "none", code.applied \cup {i})
    BY <1>6 DEF Aligns
  <2>2. d.applied \subseteq code.applied \cup {i}
    BY <2>1 DEF Applies
  <2>3. \A e \in code.plan : e.reloc # i
    <3>1. i \notin code.applied
      BY <1>1, <1>3 DEF Handles, Pending, RELAXATION_ALIGN, RELAXATION_CALL, RELAXATION_PC, RELAXATION_LUI
    <3> QED BY <1>1, <1>3, <3>1 DEF CodeShape
  <2>4. Aligned(d.plan, i)
    BY <1>1, <1>3, <1>4, <1>6, <2>3, CutAligns
  <2>5. \A j \in code.applied : j < cursor
    BY DEF AlignInv, Relaxing
  <2>6. /\ i \in Nat /\ \A j \in Sites : j \in Nat
        /\ \A j \in code.applied : j \in Nat
    BY <1>3, SiteFacts DEF CodeShape
  <2>7. ASSUME NEW j \in Sites, Site(j).kind = "align", j < i,
               link.kind # "shared" \/ j \in code.applied
        PROVE  Aligned(d.plan, j)
    <3>1. Aligned(code.plan, j)
      <4>1. CASE j < cursor /\ link.kind # "shared"
        <5>1. Reached(j) /\ Aligning
          BY <4>1 DEF Reached, Aligning, Relaxing
        <5> QED BY <2>7, <5>1 DEF AlignInv
      <4>2. CASE j \in code.applied
        BY <2>7, <4>2 DEF AlignInv, Aligning, Relaxing
      <4>3. CASE ~(j < cursor)
        <5>1. ~Handles(RELAXATION_ALIGN, j)
          BY <1>1, <1>3, <2>6, <2>7, <4>3
        <5>2. code.encoding[j] # "align"
          BY <5>1 DEF Handles
        <5>3. j \in code.applied
          BY <1>3, <2>7, <5>2 DEF Pending, EncodingsFit
        <5> QED BY <4>2, <5>3
      <4> QED BY <2>7, <4>1, <4>2, <4>3
    <3>2. CASE d = code
      BY <3>1, <3>2
    <3>3. CASE d # code
      <4>1. PICK at, bytes : Applies(d, code, i, at, bytes, "none", code.applied \cup {i})
        BY <2>1, <3>3
      <4> DEFINE e == Edit(i, at, bytes)
      <4>2. EditFits(e) /\ d.plan = AddEdit(code.plan, e) /\ e.reloc = i
        BY <4>1 DEF Applies, Edit
      <4> HIDE DEF e, d
      <4> QED BY <1>3, <2>7, <3>1, <4>2, BehindKeeps
    <3> QED BY <3>2, <3>3
  <2>8. ASSUME NEW j \in Sites, Site(j).kind = "align", j \in d.applied \/ Reached(j)',
               pc' # "error"
        PROVE  Aligned(d.plan, j)
    <3>1. CASE j = i
      BY <2>4, <3>1
    <3>2. CASE j # i /\ j \in d.applied
      <4>1. j \in code.applied /\ j < i
        BY <1>1, <1>3, <2>2, <2>5, <2>6, <3>2
      <4> QED BY <2>7, <2>8, <4>1
    <3>3. CASE j # i /\ Reached(j)'
      <4>1. link.kind # "shared" /\ j < cursor'
        <5>1. pc' = pc \/ pc' = "error"
          BY <1>2, Zenon
        <5>2. Relaxing' => iteration' = RELAXATION_ALIGN
          BY <1>2, <5>1 DEF Relaxing
        <5>3. ~Relaxing' => needsAlign' \/ pc' = "error"
          BY <1>2, <5>1 DEF Relaxing, Settling
        <5> QED BY <1>2, <2>8, <3>3, <5>2, <5>3 DEF Reached, RELAXATION_ALIGN, RELAXATION_PASS_COUNT
      <4>2. j < i
        BY <1>1, <2>6, <3>3, <4>1
      <4> QED BY <2>7, <2>8, <4>1, <4>2
    <3> QED BY <2>8, <3>1, <3>2, <3>3
  <2>9. \A j \in d.applied : j < cursor'
    BY <1>1, <1>3, <2>2, <2>5, <2>6
  <2>10. ~(Relaxing' /\ iteration' < RELAXATION_ALIGN)
    BY <1>2 DEF Relaxing, RELAXATION_ALIGN
  <2>11. /\ Sites' = Sites
         /\ \A j \in Sites : Site(j)' = Site(j)
         /\ \A plan, j : Aligned(plan, j)' = Aligned(plan, j)
    BY <1>2, AlignedStays
  <2>12. Aligning' =>
           \A j \in Sites' :
             Site(j)'.kind = "align" /\ (j \in code'.applied \/ Reached(j)') => Aligned(code.plan, j)'
    BY <2>8, <2>11 DEF Aligning, Relaxing
  <2> QED BY <1>4, <2>9, <2>10, <2>12 DEF AlignInv
<1> QED BY <1>1, <1>5, <1>6

\* A step that leaves the code alone, and what of the padding has been reached.
LEMMA AlignStays ==
  ASSUME AlignInv, UNCHANGED <<link, code>>,
         pc' # "layout" => Anchored(addr)',
         Relaxing' /\ iteration' < RELAXATION_ALIGN => code.applied = {},
         (Relaxing' /\ iteration' = RELAXATION_ALIGN) \/ (~Relaxing' /\ needsAlign') =>
           \A i \in code.applied : i < cursor',
         Aligning' => /\ Aligning
                      /\ \A i \in Sites : Site(i).kind = "align" /\ Reached(i)' =>
                           Reached(i) \/ i \in code.applied
  PROVE  AlignInv'
<1>1. /\ Sites' = Sites
      /\ \A i \in Sites : Site(i)' = Site(i)
      /\ \A plan, i : Aligned(plan, i)' = Aligned(plan, i)
  BY AlignedStays
<1>2. ASSUME Aligning', NEW i \in Sites, Site(i).kind = "align", i \in code.applied \/ Reached(i)'
      PROVE  Aligned(code.plan, i)
  BY <1>2 DEF AlignInv
<1>3. Aligning' =>
        \A i \in Sites' :
          Site(i)'.kind = "align" /\ (i \in code'.applied \/ Reached(i)') => Aligned(code.plan, i)'
  BY <1>1, <1>2
<1> QED BY <1>3 DEF AlignInv

\* Padding that has been decided ends on its alignment.
LEMMA AlignHolds == Spec => []AlignInv
<1>1. Init => AlignInv
  <2> SUFFICES ASSUME Init
               PROVE  AlignInv
    OBVIOUS
  <2>1. code.applied = {} /\ iteration = 0 /\ cursor = 1 /\ pc = "layout"
    BY DEF Init, InitialCode
  <2>2. \A i : ~Reached(i)
    BY <2>1 DEF Reached, Relaxing, RELAXATION_ALIGN, RELAXATION_PASS_COUNT
  <2> QED BY <2>1, <2>2 DEF AlignInv
<1>2. AlignInv /\ SyncInv /\ ShapeInv /\ RefInv /\ [Next]_vars => AlignInv'
  <2> SUFFICES ASSUME AlignInv, SyncInv, ShapeInv, RefInv, [Next]_vars
               PROVE  AlignInv'
    OBVIOUS
  <2>1. /\ link \in Links /\ CodeShape(code) /\ addr \in [Sections -> Int]
        /\ iteration \in 0..5 /\ cursor \in Nat
        /\ \A i \in Sites : i \in Nat \ {0}
    BY SiteFacts DEF ShapeInv, LoopShape, RELAXATION_PASS_COUNT
  <2>2. UNCHANGED <<link, addr>> => Anchored(addr)' = Anchored(addr)
    BY AlignedStays
  <2>3. CASE Converge
    <3>1. /\ UNCHANGED <<link, code, iteration, cursor, Settling>>
          /\ addr' = Placed([s \in Sections |-> SizeOf(code.plan, s)])
          /\ pc \in {"layout", "resettle"}
          /\ pc' = IF pc = "layout" THEN "pass" ELSE "settle"
      BY <2>3 DEF Converge
    <3>2. Anchored(addr)'
      <4>1. addr' = Placed(Sizes(code.plan)) /\ Sizes(code.plan) \in [Sections -> Int]
        BY <2>1, <3>1, ConvergedAddresses, SizesAreNumbers DEF CodeShape
      <4>2. Anchored(addr')
        BY <2>1, <4>1, PlacedIs DEF Anchored
      <4> QED BY <3>1, <4>2 DEF Anchored, Sections
    <3>3. Relaxing' = Relaxing /\ Aligning
      <4>1. CASE pc = "layout"
        BY <3>1, <4>1 DEF Relaxing, Aligning
      <4>2. CASE pc = "resettle"
        BY <3>1, <4>2 DEF Relaxing, Aligning
      <4> QED BY <3>1, <4>1, <4>2
    <3>4. \A i : Reached(i)' = Reached(i)
      BY <3>1, <3>3 DEF Reached, Settling
    <3> QED BY <3>1, <3>2, <3>3, <3>4, AlignStays DEF AlignInv, Settling
  <2>4. CASE Visit
    <3>1. CASE iteration = RELAXATION_ALIGN
      BY <2>4, <3>1, DecideAligns DEF Visit
    <3>2. CASE iteration # RELAXATION_ALIGN
      <4>1. PICK i \in Sites : Defers(code', code, i) \/ Compresses(code', code, i) \/ code' = code
        BY <2>4, <3>2, DecideSteps DEF Visit
      <4>2. code'.applied = code.applied
        BY <4>1 DEF Defers, Compresses, Applies
      <4>3. /\ pc = "pass" /\ pc' \in {"pass", "error"} /\ UNCHANGED <<link, addr, iteration, Settling>>
            /\ Decide(iteration)
        BY <2>4 DEF Visit, Decide
      <4>4. iteration < RELAXATION_ALIGN
        BY <2>1, <3>2, <4>3, PassesThatVisit
           DEF RELAXATION_CALL, RELAXATION_PC, RELAXATION_LUI, RELAXATION_ALIGN
      <4>5. code'.applied = {}
        BY <4>2, <4>3, <4>4 DEF AlignInv, Relaxing
      <4>6. Aligning' => \A j : ~Reached(j)'
        BY <4>3, <4>4 DEF Reached, Relaxing, Aligning, RELAXATION_ALIGN, RELAXATION_PASS_COUNT
      <4>7. Anchored(addr)'
        BY <2>2, <4>3 DEF AlignInv
      <4>8. code'.applied = {} => AlignInv'
        BY <4>6, <4>7 DEF AlignInv
      <4> QED BY <4>5, <4>8
    <3> QED BY <3>1, <3>2
  <2>5. CASE EndPass
    <3>1. /\ pc = "pass" /\ pc' = "layout" /\ iteration' = iteration + 1 /\ cursor' = 1
          /\ ~LeavesAtOnce /\ ToVisit(iteration) = {}
          /\ UNCHANGED <<link, code, addr, Settling>>
      BY <2>5 DEF EndPass
    <3>2. iteration \in 0..4
      BY <3>1, LeavesEarly
    <3>3. Aligning /\ Relaxing /\ Relaxing'
      BY <3>1 DEF Aligning, Relaxing
    <3>4. ASSUME NEW i \in Sites, Site(i).kind = "align", Reached(i)'
          PROVE  Reached(i) \/ i \in code.applied
      <4>1. link.kind # "shared" /\ iteration = RELAXATION_ALIGN
        BY <2>1, <3>1, <3>2, <3>3, <3>4 DEF Reached, RELAXATION_ALIGN, RELAXATION_PASS_COUNT
      <4>2. i < cursor \/ i \in code.applied
        BY <3>1, <3>4, <4>1, NoneLeft DEF Committing
      <4> QED BY <3>3, <4>1, <4>2 DEF Reached
    <3>5. iteration' <= RELAXATION_ALIGN => code.applied = {}
      BY <3>1, <3>2, <3>3 DEF AlignInv, RELAXATION_ALIGN
    <3> QED BY <3>1, <3>2, <3>3, <3>4, <3>5, AlignStays DEF RELAXATION_ALIGN
  <2>6. CASE Finish
    <3>1. /\ pc = "pass" /\ pc' = "settle" /\ LeavesAtOnce
          /\ UNCHANGED <<link, code, addr, iteration, cursor, Settling>>
      BY <2>6 DEF Finish
    <3>2. Aligning /\ Relaxing /\ ~Relaxing' /\ ~needsAlign /\ ~needsAlign'
      BY <3>1 DEF Aligning, Relaxing, SyncInv, Settling
    <3>3. \A i : Reached(i)' => Reached(i)
      BY <2>1, <3>1, <3>2 DEF Reached, LeavesAtOnce, RELAXATION_TLSDESC, RELAXATION_PASS_COUNT
    <3>4. Anchored(addr)'
      BY <2>2, <3>1 DEF AlignInv
    <3> QED BY <3>1, <3>2, <3>3, <3>4, AlignStays
  <2>7. CASE Redecide
    BY <2>7, DecideAligns DEF Redecide
  <2>8. CASE EndRedecision
    <3>1. /\ pc = "settle" /\ pc' = "settle" /\ needsAlign /\ ~needsAlign'
          /\ ToVisit(RELAXATION_ALIGN) = {}
          /\ UNCHANGED <<link, code, addr, iteration, cursor, anyDropped>>
      BY <2>8 DEF EndRedecision
    <3>2. Aligning /\ ~Relaxing /\ ~Relaxing'
      BY <3>1 DEF Aligning, Relaxing
    <3>3. ASSUME NEW i \in Sites, Site(i).kind = "align", Reached(i)'
          PROVE  Reached(i) \/ i \in code.applied
      <4>1. i < cursor \/ i \in code.applied
        BY <3>1, <3>3, NoneLeft DEF Committing
      <4> QED BY <3>1, <3>2, <3>3, <4>1 DEF Reached
    <3>4. Anchored(addr)'
      BY <2>2, <3>1 DEF AlignInv
    <3> QED BY <3>1, <3>2, <3>3, <3>4, AlignStays
  <2>9. CASE StartRound
    <3>1. /\ pc = "settle" /\ pc' = "verify" /\ ~needsAlign /\ ~needsAlign'
          /\ UNCHANGED <<link, code, addr>>
      BY <2>9 DEF StartRound
    <3>2. Aligning /\ ~Relaxing /\ ~Relaxing'
      BY <3>1 DEF Aligning, Relaxing
    <3>3. \A i : Reached(i)' => Reached(i)
      BY <3>1, <3>2 DEF Reached
    <3>4. Anchored(addr)'
      BY <2>2, <3>1 DEF AlignInv
    <3> QED BY <3>1, <3>2, <3>3, <3>4, AlignStays
  <2>10. CASE GiveUp
    <3>1. /\ pc = "settle" /\ pc' = "error" /\ ~needsAlign'
          /\ UNCHANGED <<link, code, addr>>
      BY <2>10 DEF GiveUp, Settling
    <3>2. ~Aligning' /\ ~Relaxing'
      BY <3>1 DEF Aligning, Relaxing
    <3>4. Anchored(addr)'
      BY <2>2, <3>1 DEF AlignInv
    <3> QED BY <3>1, <3>2, <3>4, AlignStays
  <2>11. CASE Verify
    <3> DEFINE i == Records[cursor]
               drops == i \notin code.dropped /\ ~Fits(code.plan, i)
    <3>1. /\ UNCHANGED <<link, addr, needsAlign, pc>> /\ pc = "verify"
          /\ code' = IF drops THEN Reject(code, i) ELSE code
          /\ anyDropped' = IF drops THEN TRUE ELSE anyDropped
      BY <2>11 DEF Verify
    <3> HIDE DEF i, drops
    <3>2. ~needsAlign /\ ~needsAlign' /\ ~Relaxing /\ ~Relaxing'
      BY <3>1 DEF SyncInv, Relaxing
    <3>3. Anchored(addr)'
      BY <2>2, <3>1 DEF AlignInv
    <3>4. CASE drops
      <4>1. ~Aligning'
        BY <3>1, <3>2, <3>4 DEF Aligning
      <4> QED BY <3>2, <3>3, <4>1 DEF AlignInv
    <3>5. CASE ~drops
      <4>1. UNCHANGED <<code, anyDropped>>
        BY <3>1, <3>5, Zenon
      <4>2. (Aligning' => Aligning) /\ \A j : Reached(j)' => Reached(j)
        BY <3>1, <3>2, <4>1 DEF Aligning, Reached
      <4> QED BY <3>1, <3>2, <3>3, <4>1, <4>2, AlignStays
    <3> QED BY <3>4, <3>5
  <2>12. CASE Retry
    <3>1. /\ UNCHANGED <<link, addr>> /\ code' = UndoAligns(code) /\ cursor' = 1
          /\ needsAlign' /\ pc = "verify" /\ pc' = "resettle"
      BY <2>12 DEF Retry, EndRound
    <3>2. code'.applied = {}
      BY <2>1, <3>1 DEF UndoAligns, CodeShape, Fields
    <3>3. \A i \in Sites : ~Reached(i)'
      BY <2>1, <3>1 DEF Reached, Relaxing
    <3>4. Sites' = Sites /\ ~Relaxing'
      BY <3>1 DEF Sites, Relaxing
    <3>5. Anchored(addr)'
      BY <2>2, <3>1 DEF AlignInv
    <3>6. code'.applied = {} => AlignInv'
      BY <3>3, <3>4, <3>5 DEF AlignInv
    <3> QED BY <3>2, <3>6
  <2>13. CASE Sync
    <3>1. /\ UNCHANGED <<link, code, addr, needsAlign>> /\ ~anyDropped
          /\ pc = "verify" /\ pc' = "resettle"
      BY <2>13 DEF Sync, EndRound
    <3>2. ~needsAlign /\ ~needsAlign' /\ ~Relaxing /\ ~Relaxing' /\ Aligning
      BY <3>1 DEF SyncInv, Relaxing, Aligning
    <3>3. \A i : Reached(i)' => Reached(i)
      BY <3>1, <3>2 DEF Reached
    <3>4. Anchored(addr)'
      BY <2>2, <3>1 DEF AlignInv
    <3> QED BY <3>1, <3>2, <3>3, <3>4, AlignStays
  <2>14. CASE Commit
    <3>1. /\ UNCHANGED <<link, code, addr, needsAlign>> /\ pc = "verify" /\ pc' = "commit"
      BY <2>14 DEF Commit, EndRound
    <3>2. ~needsAlign' /\ ~Relaxing' /\ ~Aligning'
      BY <3>1 DEF SyncInv, Relaxing, Aligning
    <3>4. Anchored(addr)'
      BY <2>2, <3>1 DEF AlignInv
    <3> QED BY <3>1, <3>2, <3>4, AlignStays
  <2>15. CASE CommitSection
    <3>1. /\ UNCHANGED <<link, addr, needsAlign>> /\ pc = "commit" /\ pc' \in {"commit", "committed"}
      BY <2>15 DEF CommitSection
    <3>2. ~needsAlign' /\ ~Relaxing' /\ ~Aligning'
      BY <3>1 DEF SyncInv, Relaxing, Aligning
    <3>3. Anchored(addr)'
      BY <2>2, <3>1 DEF AlignInv
    <3> QED BY <3>2, <3>3 DEF AlignInv
  <2>16. CASE UNCHANGED vars
    <3>1. UNCHANGED <<link, code, addr, iteration, cursor, anyDropped, needsAlign, pc>>
      BY <2>16 DEF vars
    <3>2. /\ Relaxing' = Relaxing /\ Aligning' = Aligning
          /\ \A i : Reached(i)' = Reached(i)
      BY <3>1 DEF Relaxing, Aligning, Reached
    <3> QED BY <2>2, <3>1, <3>2, AlignStays DEF AlignInv
  <2> QED BY <2>3, <2>4, <2>5, <2>6, <2>7, <2>8, <2>9, <2>10, <2>11, <2>12, <2>13, <2>14,
             <2>15, <2>16 DEF Next
<1> QED BY <1>1, <1>2, SyncHolds, ShapeHolds, RefInvHolds, PTL DEF Spec

------------------------------------------------------------------------------
\* The commit.

\* What the last round leaves: the layout is that of the pending edits, what
\* stands fits, and padding is aligned.
Settled(plan) ==
  /\ PlanFits(plan)
  /\ addr = Placed(Sizes(plan))
  /\ \A i \in Sites : code.as[i] # Site(i).kind =>
                        Verifiable(code.as[i], code.record[i]) /\ Fits(plan, i)
  /\ link.kind # "shared" =>
       \A i \in Sites : Site(i).kind = "align" => Aligned(plan, i)

\* The sections before the cursor are written.
Written(plan) ==
  /\ code.plan = {e \in plan : Site(e.reloc).sect >= cursor}
  /\ \A s \in Sections :
       output.image[s] = IF s < cursor THEN Compacted(PlanOf(plan, s), link.sections[s].size)
                         ELSE Run(0, link.sections[s].size)
  /\ \A i \in Sites :
       output.offset[i] = IF Site(i).sect < cursor
                          THEN CommittedOffset(PlanOf(plan, Site(i).sect), Site(i).off)
                          ELSE Site(i).off
  /\ \A y \in DOMAIN link.symbols :
       output.value[y] = IF link.symbols[y].sect < cursor
                         THEN CommittedOffset(PlanOf(plan, link.symbols[y].sect), link.symbols[y].off)
                         ELSE link.symbols[y].off
  /\ \A i \in Sites : code.encoding[i] \in {Site(i).kind, "c.lui", "none", code.as[i]}

\* The output has its fields.
OutputShape ==
  /\ DOMAIN output = {"image", "offset", "value", "size"}
  /\ DOMAIN output.image = Sections
  /\ DOMAIN output.offset = Sites
  /\ DOMAIN output.value = DOMAIN link.symbols

\* Nothing is written before the commit, which writes what the last round verified.
CommitInv ==
  /\ OutputShape
  /\ ~Committing => output = Unrelaxed
  /\ Committing =>
       /\ \E plan : Settled(plan) /\ Written(plan)
       /\ cursor \in 1..Len(link.sections) + 1
       /\ pc = "commit" <=> cursor # Len(link.sections) + 1

\* What is settled is so until the layout or a decision changes.
LEMMA SettledStays ==
  ASSUME UNCHANGED <<link, addr>>, code'.record = code.record, code'.as = code.as
  PROVE  \A plan : Settled(plan)' = Settled(plan)
<1>1. \A plan, i : Fits(plan, i)' = Fits(plan, i)
  BY FitsStays
<1>2. /\ Sites' = Sites /\ \A i : Site(i)' = Site(i)
      /\ \A plan, i : Aligned(plan, i)' = Aligned(plan, i)
  BY AlignedStays
<1>3. \A plan : PlanFits(plan)' = PlanFits(plan)
  BY DEF PlanFits, EditFits, End, Sites, Site
<1>4. \A plan : Placed(Sizes(plan))' = Placed(Sizes(plan))
  BY DEF Sizes, SizeOf, Placed, PlanOf, Site, Sections
<1> QED BY <1>1, <1>2, <1>3, <1>4 DEF Settled

\* What is committed has been verified.
LEMMA CommitSettles ==
  ASSUME Commit, ShapeInv, SyncInv, AlignInv
  PROVE  Settled(code.plan)
<1>1. /\ pc = "verify" /\ ~anyDropped /\ ~layoutChanged /\ cursor > Len(Records)
      /\ link \in Links /\ CodeShape(code) /\ Pending(code)
  BY DEF Commit, EndRound, ShapeInv, Committing
<1>2. addr = Placed(Sizes(code.plan))
  BY <1>1 DEF SyncInv, Synced
<1>3. ASSUME NEW i \in Sites, code.as[i] # Site(i).kind
      PROVE  Verifiable(code.as[i], code.record[i]) /\ Fits(code.plan, i)
  <2>1. i \notin code.dropped /\ Verifiable(code.as[i], code.record[i])
    BY <1>1, <1>3 DEF CodeShape
  <2>2. i \in Recorded
    BY <2>1 DEF Verifiable, Recorded
  <2>3. Records \in Seq(Recorded) /\ i \in ToSet(Records)
    BY <2>2, RecordsAre
  <2>4. PICK k \in 1..Len(Records) : Records[k] = i
    BY <2>3 DEF ToSet
  <2>5. k < cursor
    <3>1. Len(Records) \in Nat /\ cursor \in Nat
      BY <2>3 DEF ShapeInv, LoopShape
    <3> QED BY <1>1, <3>1
  <2>6. Stands(i)
    BY <1>1, <2>4, <2>5 DEF SyncInv
  <2> QED BY <2>1, <2>6 DEF Stands
<1>4. ASSUME link.kind # "shared", NEW i \in Sites, Site(i).kind = "align"
      PROVE  Aligned(code.plan, i)
  <2>1. ~needsAlign
    BY <1>1 DEF SyncInv
  <2>2. Reached(i) /\ Aligning
    BY <1>1, <1>4, <2>1 DEF Reached, Relaxing, Aligning
  <2> QED BY <1>4, <2>2 DEF AlignInv
<1> QED BY <1>1, <1>2, <1>3, <1>4 DEF Settled, CodeShape

\* The commit starts with a settled plan, and nothing written.
LEMMA CommitStarts ==
  ASSUME Commit, ShapeInv, SyncInv, AlignInv, CommitInv
  PROVE  CommitInv'
<1>1. /\ UNCHANGED <<link, code, addr, output>> /\ cursor' = 1 /\ pc = "verify" /\ pc' = "commit"
      /\ link \in Links /\ CodeShape(code) /\ Pending(code)
  BY DEF Commit, EndRound, ShapeInv, Committing
<1>10. PICK plan : plan = code.plan
  OBVIOUS
<1>2. Settled(plan)'
  BY <1>1, <1>10, CommitSettles, SettledStays
<1>3. Len(link.sections) \in Nat \ {0} /\ Sections = 1..Len(link.sections)
  BY <1>1, SectionFacts
<1>4. output = Unrelaxed
  BY <1>1 DEF CommitInv, Committing
<1>5. \A s \in Sections : s >= 1 /\ ~(s < 1)
  BY <1>3
<1>6. Written(plan)'
  <2>1. code.plan = {e \in code.plan : Site(e.reloc).sect >= 1}
    <3>1. \A e \in code.plan : Site(e.reloc).sect \in Sections
      BY <1>1, SiteFacts DEF CodeShape, PlanFits, EditFits
    <3> QED BY <1>5, <3>1
  <2>2. /\ \A s \in Sections : output.image[s] = Run(0, link.sections[s].size) /\ ~(s < 1)
        /\ \A i \in Sites : output.offset[i] = Site(i).off /\ ~(Site(i).sect < 1)
        /\ \A y \in DOMAIN link.symbols :
             output.value[y] = link.symbols[y].off /\ ~(link.symbols[y].sect < 1)
    <3>1. \A i \in Sites : Site(i).sect \in Sections
      BY <1>1, SiteFacts
    <3>2. \A y \in DOMAIN link.symbols : link.symbols[y].sect \in Sections
      BY <1>1, FittingLabels DEF Fitting, LabelFits, Sections
    <3> QED BY <1>4, <1>5, <3>1, <3>2 DEF Unrelaxed
  <2>3. \A i \in Sites : code.encoding[i] \in {Site(i).kind, "c.lui", "none", code.as[i]}
    BY <1>1 DEF Pending, EncodingsFit
  <2>4. /\ code.plan' = {e \in plan : Site(e.reloc)'.sect >= cursor'}
        /\ \A s \in Sections' : output'.image[s] = Run(0, link'.sections[s].size) /\ ~(s < cursor')
        /\ \A i \in Sites' : output'.offset[i] = Site(i)'.off /\ ~(Site(i)'.sect < cursor')
        /\ \A y \in DOMAIN link'.symbols :
             output'.value[y] = link'.symbols[y].off /\ ~(link'.symbols[y].sect < cursor')
        /\ \A i \in Sites' : code'.encoding[i] \in {Site(i)'.kind, "c.lui", "none", code'.as[i]}
    BY <1>1, <1>10, <2>1, <2>2, <2>3 DEF Sections, Sites, Site
  <2> QED BY <2>4 DEF Written
<1>7. OutputShape'
  BY <1>1 DEF CommitInv, OutputShape, Sections, Sites
<1>8. cursor' \in 1..Len(link'.sections) + 1 /\ cursor' # Len(link'.sections) + 1
  BY <1>1, <1>3
<1>9. \E p : Settled(p)' /\ Written(p)'
  BY <1>2, <1>6
<1> QED BY <1>1, <1>7, <1>8, <1>9 DEF CommitInv, Committing

\* The fields that the commit of a section changes.
LEMMA SectionWritten ==
  ASSUME CommitSection, ShapeInv, OutputShape
  PROVE  LET plan == PlanOf(code.plan, cursor)
         IN  /\ UNCHANGED <<link, addr>>
             /\ pc = "commit" /\ cursor' = cursor + 1
             /\ pc' = IF cursor = Len(link.sections) THEN "committed" ELSE "commit"
             /\ code'.plan = code.plan \ plan /\ code'.as = code.as /\ code'.record = code.record
             /\ \A i \in Sites : code'.encoding[i] \in {code.encoding[i], code.as[i]}
             /\ OutputShape'
             /\ \A s \in Sections :
                  output'.image[s] = IF s = cursor THEN Compacted(plan, Len(output.image[s]))
                                     ELSE output.image[s]
             /\ \A i \in Sites :
                  output'.offset[i] = IF Site(i).sect = cursor
                                      THEN CommittedOffset(plan, Site(i).off)
                                      ELSE output.offset[i]
             /\ \A y \in DOMAIN link.symbols :
                  output'.value[y] = IF link.symbols[y].sect = cursor
                                     THEN CommittedOffset(plan, link.symbols[y].off)
                                     ELSE output.value[y]
<1> DEFINE plan == PlanOf(code.plan, cursor)
<1>1. /\ UNCHANGED <<link, addr>>
      /\ pc = "commit" /\ cursor' = cursor + 1
      /\ pc' = IF cursor = Len(link.sections) THEN "committed" ELSE "commit"
  BY DEF CommitSection
<1>2. DOMAIN code = Fields
  BY DEF ShapeInv, CodeShape
<1>3. code' = [code EXCEPT
              !.plan = @ \ plan,
              !.encoding = [i \in Sites |->
                 IF HasEdit(plan, i) /\ @[i] = Site(i).kind THEN code.as[i] ELSE @[i]]]
  BY DEF CommitSection
<1>4. output' = [output EXCEPT
              !.image[cursor] = Compacted(plan, Len(@)),
              !.offset = [i \in Sites |->
                 IF Site(i).sect = cursor THEN CommittedOffset(plan, Site(i).off) ELSE @[i]],
              !.value = [y \in DOMAIN @ |->
                 LET sym == link.symbols[y]
                 IN  IF sym.sect = cursor THEN CommittedOffset(plan, sym.off) ELSE @[y]],
              !.size = [y \in DOMAIN @ |->
                 LET sym == link.symbols[y]
                 IN  IF sym.sect = cursor THEN CommittedSize(plan, sym.off, sym.size) ELSE @[y]]]
  BY DEF CommitSection
<1>5. /\ DOMAIN output = {"image", "offset", "value", "size"}
      /\ DOMAIN output.image = Sections /\ DOMAIN output.offset = Sites
      /\ DOMAIN output.value = DOMAIN link.symbols
  BY DEF OutputShape
<1> HIDE DEF plan
<1>6. /\ code'.plan = code.plan \ plan /\ code'.as = code.as /\ code'.record = code.record
      /\ \A i \in Sites : code'.encoding[i] \in {code.encoding[i], code.as[i]}
  BY <1>2, <1>3 DEF Fields
<1>7. /\ DOMAIN output' = DOMAIN output
      /\ output'.image = [output.image EXCEPT ![cursor] = Compacted(plan, Len(@))]
      /\ output'.offset = [i \in Sites |->
           IF Site(i).sect = cursor THEN CommittedOffset(plan, Site(i).off) ELSE output.offset[i]]
      /\ output'.value = [y \in DOMAIN output.value |->
           IF link.symbols[y].sect = cursor THEN CommittedOffset(plan, link.symbols[y].off)
           ELSE output.value[y]]
  BY <1>4, <1>5
<1>8. OutputShape'
  BY <1>1, <1>5, <1>7 DEF OutputShape, Sections, Sites
<1> QED BY <1>1, <1>5, <1>6, <1>7, <1>8 DEF plan

\* The commit of a section writes it by the settled plan, and no other.
LEMMA CommitAdvances ==
  ASSUME CommitSection, ShapeInv, CommitInv
  PROVE  CommitInv'
<1> DEFINE now == PlanOf(code.plan, cursor)
<1>1. /\ UNCHANGED <<link, addr>>
      /\ pc = "commit" /\ cursor' = cursor + 1
      /\ pc' = IF cursor = Len(link.sections) THEN "committed" ELSE "commit"
      /\ code'.plan = code.plan \ now /\ code'.as = code.as /\ code'.record = code.record
      /\ \A i \in Sites : code'.encoding[i] \in {code.encoding[i], code.as[i]}
      /\ OutputShape'
      /\ \A s \in Sections :
           output'.image[s] = IF s = cursor THEN Compacted(now, Len(output.image[s]))
                              ELSE output.image[s]
      /\ \A i \in Sites :
           output'.offset[i] = IF Site(i).sect = cursor THEN CommittedOffset(now, Site(i).off)
                               ELSE output.offset[i]
      /\ \A y \in DOMAIN link.symbols :
           output'.value[y] = IF link.symbols[y].sect = cursor
                              THEN CommittedOffset(now, link.symbols[y].off)
                              ELSE output.value[y]
  BY SectionWritten DEF CommitInv
<1>2. link \in Links /\ Len(link.sections) \in Nat \ {0} /\ Sections = 1..Len(link.sections)
  BY SectionFacts DEF ShapeInv
<1>3. PICK plan : Settled(plan) /\ Written(plan)
  BY <1>1 DEF CommitInv, Committing
<1>4. cursor \in 1..Len(link.sections)
  BY <1>1, <1>2 DEF CommitInv, Committing
<1>5. /\ \A i \in Sites : Site(i).sect \in Sections
      /\ \A y \in DOMAIN link.symbols : link.symbols[y].sect \in Sections
      /\ \A e \in plan : Site(e.reloc).sect \in Sections
  <2>1. \A i \in Sites : Site(i).sect \in Sections
    BY <1>2, SiteFacts
  <2>2. \A y \in DOMAIN link.symbols : link.symbols[y].sect \in Sections
    BY <1>2, FittingLabels DEF Fitting, LabelFits, Sections
  <2> QED BY <1>3, <2>1, <2>2 DEF Settled, PlanFits, EditFits
<1>6. \A s \in Sections : /\ s < cursor + 1 <=> s < cursor \/ s = cursor
                          /\ ~(s < cursor /\ s = cursor)
                          /\ s >= cursor + 1 <=> s >= cursor /\ s # cursor
  BY <1>2, <1>4
<1>7. now = PlanOf(plan, cursor)
  <2>1. \A s \in Sections : s = cursor => s >= cursor
    BY <1>2, <1>4
  <2> QED BY <1>3, <1>5, <2>1 DEF Written, PlanOf
<1> HIDE DEF now
<1>8. code'.plan = {e \in plan : Site(e.reloc).sect >= cursor + 1}
  <2>1. code'.plan = {e \in {f \in plan : Site(f.reloc).sect >= cursor} : e \notin PlanOf(plan, cursor)}
    BY <1>1, <1>3, <1>7 DEF Written
  <2> QED BY <1>5, <1>6, <2>1 DEF PlanOf
<1>9. ASSUME NEW s \in Sections
      PROVE  output'.image[s] = IF s < cursor + 1 THEN Compacted(PlanOf(plan, s), link.sections[s].size)
                                ELSE Run(0, link.sections[s].size)
  <2>1. output.image[s] = IF s < cursor THEN Compacted(PlanOf(plan, s), link.sections[s].size)
                          ELSE Run(0, link.sections[s].size)
    BY <1>3 DEF Written
  <2>2. Len(Run(0, link.sections[s].size)) = link.sections[s].size
    <3>1. link.sections[s].size \in Nat
      BY <1>2, SectionFacts
    <3>2. \A n \in Nat : n - 0 = n /\ 0 <= n
      OBVIOUS
    <3> QED BY <3>1, <3>2, RunIs
  <2>3. CASE s = cursor
    <3>1. ~(s < cursor) /\ s < cursor + 1
      BY <1>6, <2>3
    <3>2. output.image[s] = Run(0, link.sections[s].size)
      BY <2>1, <3>1
    <3>3. output'.image[s] = Compacted(PlanOf(plan, s), Len(output.image[s]))
      BY <1>1, <1>7, <2>3
    <3> QED BY <2>2, <3>1, <3>2, <3>3
  <2>4. CASE s # cursor
    <3>1. (s < cursor + 1) <=> (s < cursor)
      BY <1>6, <2>4
    <3>2. output'.image[s] = output.image[s]
      BY <1>1, <2>4
    <3> QED BY <2>1, <3>1, <3>2
  <2> QED BY <2>3, <2>4
<1>10. \A i \in Sites :
         output'.offset[i] = IF Site(i).sect < cursor + 1
                             THEN CommittedOffset(PlanOf(plan, Site(i).sect), Site(i).off)
                             ELSE Site(i).off
  <2> SUFFICES ASSUME NEW i \in Sites
               PROVE  output'.offset[i] = IF Site(i).sect < cursor + 1
                                          THEN CommittedOffset(PlanOf(plan, Site(i).sect), Site(i).off)
                                          ELSE Site(i).off
    OBVIOUS
  <2>1. output.offset[i] = IF Site(i).sect < cursor
                           THEN CommittedOffset(PlanOf(plan, Site(i).sect), Site(i).off)
                           ELSE Site(i).off
    BY <1>3 DEF Written
  <2>2. CASE Site(i).sect = cursor
    BY <1>1, <1>5, <1>6, <1>7, <2>2
  <2>3. CASE Site(i).sect # cursor
    BY <1>1, <1>5, <1>6, <2>1, <2>3
  <2> QED BY <2>2, <2>3
<1>11. \A y \in DOMAIN link.symbols :
         output'.value[y] = IF link.symbols[y].sect < cursor + 1
                            THEN CommittedOffset(PlanOf(plan, link.symbols[y].sect), link.symbols[y].off)
                            ELSE link.symbols[y].off
  <2> SUFFICES ASSUME NEW y \in DOMAIN link.symbols
               PROVE  output'.value[y] =
                        IF link.symbols[y].sect < cursor + 1
                        THEN CommittedOffset(PlanOf(plan, link.symbols[y].sect), link.symbols[y].off)
                        ELSE link.symbols[y].off
    OBVIOUS
  <2>1. output.value[y] = IF link.symbols[y].sect < cursor
                          THEN CommittedOffset(PlanOf(plan, link.symbols[y].sect), link.symbols[y].off)
                          ELSE link.symbols[y].off
    BY <1>3 DEF Written
  <2>2. CASE link.symbols[y].sect = cursor
    BY <1>1, <1>5, <1>6, <1>7, <2>2
  <2>3. CASE link.symbols[y].sect # cursor
    BY <1>1, <1>5, <1>6, <2>1, <2>3
  <2> QED BY <2>2, <2>3
<1>12. \A i \in Sites : code'.encoding[i] \in {Site(i).kind, "c.lui", "none", code'.as[i]}
  BY <1>1, <1>3 DEF Written
<1>13. Written(plan)'
  <2>1. \A s : PlanOf(plan, s)' = PlanOf(plan, s)
    BY <1>1 DEF PlanOf, Site
  <2>2. /\ Sections' = Sections /\ Sites' = Sites /\ \A i : Site(i)' = Site(i)
        /\ link' = link /\ cursor' = cursor + 1
    BY <1>1 DEF Sections, Sites, Site
  <2> QED BY <1>8, <1>9, <1>10, <1>11, <1>12, <2>1, <2>2 DEF Written
<1>14. Settled(plan)'
  BY <1>1, <1>3, SettledStays
<1>15. /\ cursor' \in 1..Len(link'.sections) + 1
       /\ pc' = "commit" <=> cursor' # Len(link'.sections) + 1
       /\ pc' \in {"commit", "committed"}
  BY <1>1, <1>2, <1>4
<1> QED BY <1>1, <1>13, <1>14, <1>15 DEF CommitInv, Committing

\* The output follows a settled plan.
LEMMA CommitHolds == Spec => []CommitInv
<1>1. Init => CommitInv
  BY DEF Init, Unrelaxed, CommitInv, OutputShape, Committing
<1>2. CommitInv /\ ShapeInv /\ SyncInv /\ AlignInv /\ [Next]_vars => CommitInv'
  <2> SUFFICES ASSUME CommitInv, ShapeInv, SyncInv, AlignInv, [Next]_vars
               PROVE  CommitInv'
    OBVIOUS
  <2>1. ASSUME UNCHANGED <<link, output>>, ~Committing, ~Committing'
        PROVE  CommitInv'
    BY <2>1 DEF CommitInv, OutputShape, Unrelaxed, Sections, Sites, Site
  <2>2. CASE Commit
    BY <2>2, CommitStarts
  <2>3. CASE CommitSection
    BY <2>3, CommitAdvances
  <2>4. CASE Converge \/ EndPass \/ Finish \/ EndRedecision \/ StartRound \/ GiveUp
    BY <2>1, <2>4 DEF Converge, EndPass, Finish, EndRedecision, StartRound, GiveUp, Settling, Committing
  <2>5. CASE Visit \/ Redecide
    <3>1. /\ UNCHANGED <<link, output>> /\ pc \in {"pass", "settle"}
          /\ pc' = IF code'.failed THEN "error" ELSE pc
      BY <2>5 DEF Visit, Redecide, Decide, Settling
    <3> QED BY <2>1, <3>1 DEF Committing
  <2>6. CASE Verify \/ Retry \/ Sync
    BY <2>1, <2>6 DEF Verify, Retry, Sync, EndRound, Committing
  <2>7. CASE UNCHANGED vars
    <3>1. UNCHANGED <<link, code, addr, cursor, output, pc>>
      BY <2>7 DEF vars
    <3>2. /\ \A plan : Settled(plan)' = Settled(plan)
          /\ Sections' = Sections /\ Sites' = Sites /\ \A i : Site(i)' = Site(i)
      BY <3>1, SettledStays, AlignedStays
    <3>3. \A plan : Written(plan)' = Written(plan)
      BY <3>1 DEF Written, Sections, Sites, Site, PlanOf
    <3>4. OutputShape' /\ Unrelaxed' = Unrelaxed /\ Committing' = Committing
      BY <3>1 DEF CommitInv, OutputShape, Unrelaxed, Sections, Sites, Site, Committing
    <3> QED BY <3>1, <3>2, <3>3, <3>4 DEF CommitInv
  <2> QED BY <2>2, <2>3, <2>4, <2>5, <2>6, <2>7 DEF Next
<1> QED BY <1>1, <1>2, AlignHolds, SyncHolds, ShapeHolds, PTL DEF Spec

------------------------------------------------------------------------------
\* The committed code.

\* A plan has been committed: the bytes, offsets and addresses are those it gives.
LEMMA CommittedFacts ==
  ASSUME ShapeInv, CommitInv, Committed
  PROVE  \E plan :
           /\ Settled(plan)
           /\ FinalAddress = addr
           /\ \A l : Fitting(l) /\ l.sect # Absolute =>
                FinalOffset(l.sect, l.off) = MapOffset(PlanOf(plan, l.sect), l.off)
           /\ \A l : Fitting(l) => FinalValue(l) = ValueOf(plan, l)
           /\ \A i \in Sites :
                LET bytes == output.image[Site(i).sect]
                IN  \/ Site(i).off \notin ToSet(bytes)
                    \/ bytes[output.offset[i] + 1] = Site(i).off
           /\ \A y \in DOMAIN link.symbols :
                output.value[y] = MapOffset(PlanOf(plan, link.symbols[y].sect), link.symbols[y].off)
           /\ \A i \in Sites : code.encoding[i] \in {Site(i).kind, "c.lui", "none", code.as[i]}
<1>1. pc = "committed" /\ link \in Links
  BY DEF Committed, ShapeInv
<1>2. PICK plan : Settled(plan) /\ Written(plan)
  BY <1>1 DEF CommitInv, Committing
<1>3. cursor = Len(link.sections) + 1
  BY <1>1 DEF CommitInv, Committing
<1>4. \A s \in Sections : s < cursor /\ link.sections[s].size \in Nat
  BY <1>1, <1>3, SectionFacts
<1>5. PlanFits(plan) /\ addr = Placed(Sizes(plan))
  BY <1>2 DEF Settled
<1>6. \A s \in Sections :
        /\ Apart(PlanOf(plan, s))
        /\ \A e \in PlanOf(plan, s) : e.at + e.bytes <= link.sections[s].size
  BY <1>1, <1>5, PlansApart
<1>7. \A s \in Sections : output.image[s] = Compacted(PlanOf(plan, s), link.sections[s].size)
  BY <1>2, <1>4 DEF Written
<1>8. ASSUME NEW s \in Sections
      PROVE  /\ Len(output.image[s]) = SizeOf(plan, s)
             /\ \A off \in Nat :
                  (\A e \in PlanOf(plan, s) : e.at < off => e.at + e.bytes <= off) =>
                    /\ off \in ToSet(output.image[s]) =>
                         output.image[s][CommittedOffset(PlanOf(plan, s), off) + 1] = off
                    /\ FinalOffset(s, off) = MapOffset(PlanOf(plan, s), off)
  <2> DEFINE P == PlanOf(plan, s)
             size == link.sections[s].size
  <2>1. Apart(P) /\ size \in Nat /\ \A e \in P : e.at + e.bytes <= size
    BY <1>4, <1>6
  <2>2. output.image[s] = Compacted(P, size)
    BY <1>7
  <2>3. SizeOf(plan, s) = size - TotalShift(P)
    BY DEF SizeOf
  <2>4. \A off : FinalOffset(s, off) =
                   off - Cardinality({b \in 0..(off - 1) : b < size /\ b \notin ToSet(output.image[s])})
    BY DEF FinalOffset
  <2> HIDE DEF P, size
  <2>5. /\ Len(output.image[s]) = size - TotalShift(P)
        /\ \A off \in Nat :
             (\A e \in P : e.at < off => e.at + e.bytes <= off) =>
               /\ off \in ToSet(output.image[s]) =>
                    output.image[s][CommittedOffset(P, off) + 1] = off
               /\ off - Cardinality({b \in 0..(off - 1) : b < size /\ b \notin ToSet(output.image[s])})
                    = MapOffset(P, off)
    BY <2>1, <2>2, CommittedBytes
  <2>6. \A off \in Nat :
          (\A e \in P : e.at < off => e.at + e.bytes <= off) =>
            FinalOffset(s, off) = MapOffset(P, off)
    BY <2>4, <2>5
  <2> QED BY <2>3, <2>5, <2>6 DEF P
<1>9. FinalAddress = addr
  <2>1. [s \in Sections |-> Len(output.image[s])] = Sizes(plan)
    BY <1>8 DEF Sizes
  <2> QED BY <1>5, <2>1 DEF FinalAddress
<1>10. ASSUME NEW l, Fitting(l), l.sect # Absolute
       PROVE  /\ FinalOffset(l.sect, l.off) = MapOffset(PlanOf(plan, l.sect), l.off)
              /\ FinalValue(l) = ValueOf(plan, l)
  <2>1. /\ l.sect \in Sections /\ l.off \in Nat
        /\ \A e \in PlanOf(plan, l.sect) : e.at < l.off => e.at + e.bytes <= l.off
    BY <1>1, <1>5, <1>10, Unspanned
  <2>2. FinalOffset(l.sect, l.off) = MapOffset(PlanOf(plan, l.sect), l.off)
    BY <1>8, <2>1
  <2> QED BY <1>9, <1>10, <2>2 DEF FinalValue, ValueOf
<1>11. \A l : l.sect = Absolute => FinalValue(l) = ValueOf(plan, l)
  BY DEF FinalValue, ValueOf
<1>12. ASSUME NEW i \in Sites
       PROVE  LET bytes == output.image[Site(i).sect]
              IN  \/ Site(i).off \notin ToSet(bytes)
                  \/ bytes[output.offset[i] + 1] = Site(i).off
  <2> DEFINE l == [sect |-> Site(i).sect, off |-> Site(i).off]
  <2>1. Site(i).sect \in Sections /\ l.sect = Site(i).sect /\ l.off = Site(i).off
    BY <1>1, SiteFacts
  <2>2. Fitting(l) /\ l.sect # Absolute
    <3>1. Fitting(l)
      BY <1>1, FittingLabels
    <3>2. Absolute \notin Sections
      BY <1>1, SectionFacts DEF Absolute
    <3> QED BY <2>1, <3>1, <3>2
  <2> HIDE DEF l
  <2>3. /\ Site(i).off \in Nat
        /\ \A e \in PlanOf(plan, Site(i).sect) : e.at < Site(i).off => e.at + e.bytes <= Site(i).off
    BY <1>1, <1>5, <2>1, <2>2, Unspanned
  <2>4. output.offset[i] = CommittedOffset(PlanOf(plan, Site(i).sect), Site(i).off)
    BY <1>2, <1>4, <2>1 DEF Written
  <2> QED BY <1>8, <2>1, <2>3, <2>4
<1>13. ASSUME NEW y \in DOMAIN link.symbols
       PROVE  output.value[y] = MapOffset(PlanOf(plan, link.symbols[y].sect), link.symbols[y].off)
  <2>1. link.symbols[y].sect \in Sections
    BY <1>1, FittingLabels DEF Fitting, LabelFits, Sections
  <2> QED BY <1>2, <1>4, <2>1 DEF Written, CommittedOffset
<1>14. \A i \in Sites : code.encoding[i] \in {Site(i).kind, "c.lui", "none", code.as[i]}
  BY <1>2 DEF Written
<1>15. \A l : Fitting(l) => FinalValue(l) = ValueOf(plan, l)
  BY <1>10, <1>11
<1>16. \A l : Fitting(l) /\ l.sect # Absolute =>
         FinalOffset(l.sect, l.off) = MapOffset(PlanOf(plan, l.sect), l.off)
  BY <1>10
<1> QED BY <1>2, <1>9, <1>12, <1>13, <1>14, <1>15, <1>16

\* What fits with a margin behind GP fits with a smaller one.
LEMMA SmallerMargin ==
  ASSUME NEW x \in Int, NEW m \in Nat, NEW n \in Nat, n <= m,
         IsInt(12, IF x >= 0 THEN x + m ELSE x - m)
  PROVE  IsInt(12, IF x >= 0 THEN x + n ELSE x - n)
<1> DEFINE b == 2^(12 - 1)
<1>1. b = 2048
  OBVIOUS
<1>2. \A y : IsInt(12, y) <=> -b <= y /\ y < b
  BY DEF IsInt
<1> HIDE DEF b
<1>3. CASE x >= 0
  BY <1>1, <1>2, <1>3
<1>4. CASE ~(x >= 0)
  BY <1>1, <1>2, <1>4
<1> QED BY <1>3, <1>4

\* The margin is a number, whatever the section.
LEMMA MarginIsNumber ==
  ASSUME link \in Links, NEW s \in {Absolute} \cup Sections
  PROVE  AlignmentTo(s) \in Nat
<1>1. s \in Sections => link.sections[s].align \in Nat /\ link.sections[s].segment \in Nat
  BY LinksAssumption DEF Sections
<1> QED BY <1>1 DEF AlignmentTo

\* The value of an access and GP are numbers; its symbol is in a section or none.
LEMMA AccessFacts ==
  ASSUME link \in Links, addr \in [Sections -> Int], NEW plan, PlanFits(plan), NEW i \in Sites
  PROVE  /\ ValueOf(plan, Site(i).to) \in Int /\ GP \in Int
         /\ Site(i).to.sect \in {Absolute} \cup Sections
<1>1. GP \in Int
  BY LinksAssumption DEF GP, GPBehind, Sections
<1>2. Fitting(Site(i).to)
  BY FittingLabels
<1>3. Site(i).to.sect \in {Absolute} \cup Sections
  BY <1>2 DEF Fitting, LabelFits, Sections
<1> QED BY <1>1, <1>2, <1>3, ValuesAreNumbers

\* After the commit the relocation of an instruction that was kept lies on its
\* byte, a symbol on the first byte left of its code, and the addresses are those
\* of the sizes written, for all links.
THEOREM OffsetsFollow == Spec => []OffsetsFollowBytes
<1>1. ShapeInv /\ CommitInv => OffsetsFollowBytes
  <2> SUFFICES ASSUME ShapeInv, CommitInv, Committed
               PROVE  OffsetsFollowBytes
    BY DEF OffsetsFollowBytes
  <2>1. PICK plan :
          /\ FinalAddress = addr
          /\ \A l : Fitting(l) /\ l.sect # Absolute =>
               FinalOffset(l.sect, l.off) = MapOffset(PlanOf(plan, l.sect), l.off)
          /\ \A i \in Sites :
               LET bytes == output.image[Site(i).sect]
               IN  \/ Site(i).off \notin ToSet(bytes)
                   \/ bytes[output.offset[i] + 1] = Site(i).off
          /\ \A y \in DOMAIN link.symbols :
               output.value[y] = MapOffset(PlanOf(plan, link.symbols[y].sect), link.symbols[y].off)
    BY CommittedFacts
  <2>2. \A y \in DOMAIN link.symbols : Fitting(link.symbols[y]) /\ link.symbols[y].sect # Absolute
    BY FittingLabels DEF ShapeInv
  <2> QED BY <2>1, <2>2 DEF OffsetsFollowBytes
<1> QED BY <1>1, CommitHolds, ShapeHolds, PTL

\* Whatever was committed reaches its target in the output, for all links.
THEOREM RangesHold == Spec => []CommittedInRange
<1>1. ShapeInv /\ CommitInv => CommittedInRange
  <2> SUFFICES ASSUME ShapeInv, CommitInv, Committed, NEW i \in Sites
               PROVE  /\ code.encoding[i] = "c.j" => IsInt(12, FinalDisplacement(i))
                      /\ code.encoding[i] = "jal" => IsInt(21, FinalDisplacement(i))
                      /\ code.encoding[i] = "zero" => IsInt(12, FinalValue(Site(i).to))
                      /\ code.encoding[i] = "gp" =>
                           IsInt(12, FinalValue(Site(i).to) - GPBehind(FinalAddress))
    BY DEF CommittedInRange
  <2>1. PICK plan :
          /\ Settled(plan) /\ FinalAddress = addr
          /\ \A l : Fitting(l) => FinalValue(l) = ValueOf(plan, l)
          /\ \A j \in Sites : code.encoding[j] \in {Site(j).kind, "c.lui", "none", code.as[j]}
    BY CommittedFacts
  <2>2. link \in Links /\ addr \in [Sections -> Int]
    BY DEF ShapeInv, LoopShape
  <2>3. /\ Fitting([sect |-> Site(i).sect, off |-> Site(i).off])
        /\ Fitting(Site(i).to)
    BY <2>2, FittingLabels
  <2>4. /\ FinalValue(Site(i).to) = ValueOf(plan, Site(i).to)
        /\ FinalDisplacement(i) = Displacement(plan, i)
        /\ GPBehind(FinalAddress) = GP
    BY <2>1, <2>3 DEF FinalDisplacement, Displacement, Place, GP
  <2>5. /\ ValueOf(plan, Site(i).to) \in Int /\ GP \in Int
        /\ AlignmentTo(Site(i).to.sect) \in Nat /\ Site(i).size \in Nat
    BY <2>1, <2>2, AccessFacts, MarginIsNumber, SiteFacts DEF Settled
  <2>6. /\ Site(i).kind \notin {"c.j", "jal", "zero", "gp"}
        /\ code.encoding[i] \in {"c.j", "jal", "zero", "gp"} =>
             /\ code.as[i] = code.encoding[i]
             /\ Verifiable(code.as[i], code.record[i]) /\ Fits(plan, i)
    <3>1. Site(i).kind \notin {"c.j", "jal", "zero", "gp"}
      BY <2>2, SiteFacts
    <3>2. code.encoding[i] \in {Site(i).kind, "c.lui", "none", code.as[i]}
      BY <2>1
    <3>3. code.as[i] # Site(i).kind => Verifiable(code.as[i], code.record[i]) /\ Fits(plan, i)
      BY <2>1 DEF Settled
    <3> QED BY <3>1, <3>2, <3>3
  <2>7. CASE code.encoding[i] = "c.j"
    <3>1. code.record[i] = "CallToCJ" /\ Fits(plan, i)
      BY <2>6, <2>7 DEF Verifiable
    <3>2. IsInt(12, Displacement(plan, i))
      BY <3>1 DEF Fits
    <3> QED BY <2>4, <2>7, <3>2
  <2>8. CASE code.encoding[i] = "jal"
    <3>1. code.record[i] = "CallToJal" /\ Fits(plan, i)
      BY <2>6, <2>8 DEF Verifiable
    <3>2. IsInt(21, Displacement(plan, i))
      BY <3>1 DEF Fits
    <3> QED BY <2>4, <2>8, <3>2
  <2>9. CASE code.encoding[i] = "zero"
    <3>1. code.record[i] = "ZeroPage" /\ Fits(plan, i)
      BY <2>6, <2>9 DEF Verifiable
    <3>2. FitsZeroPage(plan, i)
      BY <3>1 DEF Fits
    <3> QED BY <2>4, <2>9, <3>2 DEF FitsZeroPage
  <2>10. CASE code.encoding[i] = "gp"
    <3>1. code.record[i] \in {"PcGp", "LuiGp"} /\ Fits(plan, i)
      BY <2>6, <2>10 DEF Verifiable
    <3>2. FitsInGP(plan, i)
      BY <3>1 DEF Fits
    <3> DEFINE x == ValueOf(plan, Site(i).to) - GP
               margin == AlignmentTo(Site(i).to.sect) + Site(i).size
    <3>3. IsInt(12, IF x >= 0 THEN x + margin ELSE x - margin)
      BY <3>2 DEF FitsInGP, FitsInGPFrom
    <3>4. x \in Int /\ margin \in Nat
      BY <2>5
    <3>5. IsInt(12, x)
      <4> HIDE DEF x, margin
      <4>1. \A n \in Nat : n <= margin => IsInt(12, IF x >= 0 THEN x + n ELSE x - n)
        BY <3>3, <3>4, SmallerMargin
      <4>2. 0 <= margin /\ x + 0 = x /\ x - 0 = x
        BY <3>4
      <4>3. IsInt(12, IF x >= 0 THEN x + 0 ELSE x - 0)
        BY <4>1, <4>2
      <4>4. (IF x >= 0 THEN x + 0 ELSE x - 0) = x
        BY <4>2
      <4> QED BY <4>3, <4>4
    <3> QED BY <2>4, <2>10, <3>5
  <2> QED BY <2>7, <2>8, <2>9, <2>10
<1> QED BY <1>1, CommitHolds, ShapeHolds, PTL

\* The code behind the padding of an executable is aligned as it asks for, for
\* all links.
THEOREM PaddingHolds == Spec => []AlignmentsHold
<1>1. ShapeInv /\ CommitInv => AlignmentsHold
  <2> SUFFICES ASSUME ShapeInv, CommitInv, Committed, link.kind # "shared",
                      NEW i \in Sites, Site(i).kind = "align"
               PROVE  Padded(i)
    BY DEF AlignmentsHold
  <2> DEFINE s == Site(i).sect
             a == AlignmentOf(i)
             l == [sect |-> s, off |-> Site(i).off + Site(i).addend]
  <2>1. PICK plan :
          /\ Settled(plan)
          /\ \A m : Fitting(m) => FinalValue(m) = ValueOf(plan, m)
    BY CommittedFacts
  <2>2. link \in Links /\ addr \in [Sections -> Int] /\ s \in Sections
    BY SiteFacts DEF ShapeInv, LoopShape
  <2>3. Site(i).off + Site(i).addend = End(i)
    BY <2>2, SiteFacts
  <2>4. Fitting(l)
    BY <2>2, <2>3, FittingLabels
  <2>5. s # Absolute
    BY <2>2, SectionFacts DEF Absolute
  <2>6. ValueOf(plan, l) = addr[s] + MapOffset(PlanOf(plan, s), End(i))
    BY <2>3, <2>5 DEF ValueOf
  <2>7. MapOffset(PlanOf(plan, s), End(i)) \in Nat
    <3>1. l.sect = s /\ l.off = End(i)
      BY <2>3
    <3> HIDE DEF l, s
    <3> QED BY <2>1, <2>2, <2>4, <2>5, <3>1, ValuesAreNumbers DEF Settled
  <2>8. Anchored(addr)
    <3>1. addr = Placed(Sizes(plan)) /\ Sizes(plan) \in [Sections -> Int]
      BY <2>1, <2>2, SizesAreNumbers DEF Settled
    <3> QED BY <2>2, <3>1, PlacedIs DEF Anchored
  <2>9. PICK m \in Int : addr[s] = Anchor(s) + m * a
    BY <2>2, <2>8, AnchoredAligned
  <2>10. Anchor(s) \in Int
    BY <2>2, <2>8, AnchoredAligned
  <2>11. PICK k \in Int : Anchor(s) + MapOffset(PlanOf(plan, s), End(i)) = k * a
    BY <2>1 DEF Settled, Aligned
  <2>12. a \in Nat \ {0}
    BY <2>2, AlignmentIs
  <2> HIDE DEF s, a, l
  <2>13. k * a + m * a = (k + m) * a /\ k * a \in Int /\ m * a \in Int /\ ((k + m) * a) % a = 0
    BY <2>12, Multiples
  <2>14. ValueOf(plan, l) = (k + m) * a
    <3> DEFINE ka == k * a
               ma == m * a
               x == (k + m) * a
    <3>1. /\ ka + ma = x /\ ka \in Int /\ ma \in Int
          /\ Anchor(s) + MapOffset(PlanOf(plan, s), End(i)) = ka /\ addr[s] = Anchor(s) + ma
      BY <2>9, <2>11, <2>13
    <3> HIDE DEF ka, ma, x
    <3>2. addr[s] + MapOffset(PlanOf(plan, s), End(i)) = x
      BY <2>7, <2>10, <3>1
    <3> QED BY <2>6, <3>2 DEF x
  <2>15. FinalValue(l) = (k + m) * a
    BY <2>1, <2>4, <2>14
  <2> QED BY <2>13, <2>15 DEF Padded, l, s, a
<1> QED BY <1>1, CommitHolds, ShapeHolds, PTL

------------------------------------------------------------------------------
\* The halves of a pair.

GPKinds == {"PcGp", "LuiGp", "ZeroPage"}

\* The low parts of addresses in other sections, if not asked to fit with more
\* room than their high parts.
Elsewhere == {lo \in LowParts : Site(lo).to.sect # Site(lo).sect /\ FitsWithHigh(lo)}

\* What the assumption on links says of a pair.
LEMMA PairIs ==
  ASSUME link \in Links, NEW lo \in LowParts
  PROVE  LET hi == Site(lo).hi
         IN  /\ lo \in Sites /\ hi \in Sites /\ hi # lo
             /\ Site(hi).kind = IF Site(lo).kind = "pcrel_lo" THEN "pcrel_hi" ELSE "hi20"
             /\ Site(lo).kind \in {"lo12", "pcrel_lo"}
             /\ Site(hi).sect = Site(lo).sect /\ Site(hi).to = Site(lo).to
             /\ Site(hi).size = Site(lo).size
             /\ Site(hi).relax => Site(lo).relax
             /\ PassOf(hi) = PassOf(lo) /\ PassOf(lo) \in {1, 2}
<1> DEFINE hi == Site(lo).hi
<1>1. lo \in Sites /\ Site(lo).kind \in {"lo12", "pcrel_lo"}
  BY DEF LowParts
<1>2. PairFits(link.sites, link.sites[lo])
  BY <1>1, LinksAssumption DEF Sites, Site
<1>3. /\ hi \in Sites
      /\ Site(hi).kind = IF Site(lo).kind = "pcrel_lo" THEN "pcrel_hi" ELSE "hi20"
      /\ Site(hi).sect = Site(lo).sect /\ Site(hi).to = Site(lo).to
      /\ Site(hi).size = Site(lo).size
      /\ Site(hi).relax => Site(lo).relax
  BY <1>2 DEF PairFits, Site, Sites
<1>4. hi # lo
  BY <1>1, <1>3
<1> HIDE DEF hi
<1>5. PassOf(hi) = PassOf(lo) /\ PassOf(lo) \in {1, 2}
  <2>1. CASE Site(lo).kind = "pcrel_lo"
    BY <1>3, <2>1 DEF PassOf, RELAXATION_PC
  <2>2. CASE Site(lo).kind = "lo12"
    BY <1>3, <2>2 DEF PassOf, RELAXATION_LUI
  <2> QED BY <1>1, <2>1, <2>2
<1> QED BY <1>1, <1>3, <1>4, <1>5 DEF hi

\* A pass does not leave a section and come back to it.
LEMMA SectionAtOnce ==
  ASSUME link \in Links, NEW i \in Sites, NEW j \in Sites, NEW k \in Sites,
         i < k, k < j, Site(i).sect = Site(j).sect
  PROVE  Site(k).sect = Site(i).sect
<1>1. SectionBySection(link.sites)
  BY LinksAssumption
<1> QED BY <1>1 DEF SectionBySection, Sites, Site

\* Two plans that differ in the edits of one section at most.
DifferIn(s, p, q) == \A t : t # s => PlanOf(q, t) = PlanOf(p, t)

\* The record that a pass would make of a relocation now.
Verdict(plan, i) ==
  IF ~Site(i).relax THEN "none"
  ELSE IF Site(i).kind \in {"pcrel_hi", "pcrel_lo"}
       THEN IF \/ link.kind # "exec" \/ DisabledForGP(i)
               \/ ~FitsInGPFrom(plan, i, TargetSection(i))
            THEN "none" ELSE "PcGp"
  ELSE IF FitsZeroPage(plan, i) THEN "ZeroPage"
  ELSE IF link.kind = "exec" /\ ValueOf(plan, Site(i).to) # 0 /\ FitsInGP(plan, i) THEN "LuiGp"
  ELSE "none"

\* The edits of the code of a pair do not move what it addresses elsewhere.
LEMMA ElsewhereStays ==
  ASSUME link \in Links, NEW lo \in Elsewhere, NEW p, NEW q, DifferIn(Site(lo).sect, p, q),
         NEW i \in {lo, Site(lo).hi}
  PROVE  /\ Verdict(q, i) = Verdict(p, i)
         /\ code.record[i] \in GPKinds => Fits(q, i) = Fits(p, i)
<1>1. Site(i).to = Site(lo).to /\ Site(lo).to.sect # Site(lo).sect
  BY PairIs DEF Elsewhere
<1>2. ValueOf(q, Site(i).to) = ValueOf(p, Site(i).to)
  BY <1>1 DEF ValueOf, DifferIn
<1>3. /\ \A s : FitsInGPFrom(q, i, s) = FitsInGPFrom(p, i, s)
      /\ FitsInGP(q, i) = FitsInGP(p, i) /\ FitsZeroPage(q, i) = FitsZeroPage(p, i)
  BY <1>2 DEF FitsInGP, FitsInGPFrom, FitsZeroPage
<1> QED BY <1>2, <1>3 DEF Verdict, Fits, GPKinds

\* The halves of a pair fit together.
LEMMA HalvesFit ==
  ASSUME link \in Links, NEW lo \in LowParts, NEW plan
  PROVE  LET hi == Site(lo).hi
         IN  /\ FitsInGP(plan, lo) = FitsInGP(plan, hi)
             /\ FitsZeroPage(plan, lo) = FitsZeroPage(plan, hi)
             /\ code.record[hi] \in GPKinds /\ code.record[lo] = code.record[hi] =>
                  Fits(plan, lo) = Fits(plan, hi)
<1> DEFINE hi == Site(lo).hi
<1>1. Site(hi).to = Site(lo).to /\ Site(hi).size = Site(lo).size
  BY PairIs
<1> HIDE DEF hi
<1>2. FitsInGP(plan, lo) = FitsInGP(plan, hi) /\ FitsZeroPage(plan, lo) = FitsZeroPage(plan, hi)
  BY <1>1 DEF FitsInGP, FitsInGPFrom, FitsZeroPage
<1>3. ASSUME code.record[hi] \in GPKinds, code.record[lo] = code.record[hi]
      PROVE  Fits(plan, lo) = Fits(plan, hi)
  BY <1>2, <1>3 DEF Fits, GPKinds
<1> QED BY <1>2, <1>3 DEF hi

\* The section asked for the low part allows what that of the address allows.
LEMMA LowPartFits ==
  ASSUME link \in Links, addr \in [Sections -> Int], NEW plan, PlanFits(plan),
         NEW lo \in Elsewhere, FitsInGP(plan, lo)
  PROVE  FitsInGPFrom(plan, lo, TargetSection(lo))
<1> DEFINE own == TargetSection(lo)
           to == Site(lo).to.sect
           x == ValueOf(plan, Site(lo).to) - GP
           m == AlignmentTo(to) + Site(lo).size
           n == AlignmentTo(own) + Site(lo).size
<1>1. /\ lo \in Sites /\ own \in {Absolute} \cup Sections /\ to \in {Absolute} \cup Sections
      /\ x \in Int
  <2>1. lo \in Sites /\ Site(lo).hi \in Sites
    BY PairIs DEF Elsewhere
  <2>2. Site(Site(lo).hi).sect \in Sections
    BY <2>1, SiteFacts
  <2>3. to \in {Absolute} \cup Sections /\ x \in Int
    BY <2>1, AccessFacts
  <2> QED BY <2>1, <2>2, <2>3 DEF TargetSection
<1>2. InLoadSegment(to) /\ GP # 0 /\ IsInt(12, IF x >= 0 THEN x + m ELSE x - m)
  BY DEF FitsInGP, FitsInGPFrom
<1>3. InLoadSegment(own) /\ AlignmentTo(own) <= AlignmentTo(to)
  BY <1>2 DEF Elsewhere, FitsWithHigh
<1>4. m \in Nat /\ n \in Nat /\ n <= m
  BY <1>1, <1>3, MarginIsNumber, SiteFacts
<1>5. IsInt(12, IF x >= 0 THEN x + n ELSE x - n)
  <2> HIDE DEF x, m, n
  <2> QED BY <1>1, <1>2, <1>4, SmallerMargin
<1> QED BY <1>2, <1>3, <1>5 DEF FitsInGPFrom

\* What is decided of the high part is decided of the low part.
LEMMA HalvesAgree ==
  ASSUME link \in Links, addr \in [Sections -> Int], NEW plan, PlanFits(plan), NEW lo \in Elsewhere
  PROVE  LET hi == Site(lo).hi
         IN  Verdict(plan, hi) # "none" => Verdict(plan, lo) = Verdict(plan, hi)
<1> DEFINE hi == Site(lo).hi
<1>1. /\ lo \in Sites /\ hi \in Sites /\ lo \in LowParts
      /\ Site(hi).kind = IF Site(lo).kind = "pcrel_lo" THEN "pcrel_hi" ELSE "hi20"
      /\ Site(lo).kind \in {"lo12", "pcrel_lo"}
      /\ Site(hi).to = Site(lo).to
      /\ Site(hi).relax => Site(lo).relax
  BY PairIs DEF Elsewhere
<1>2. FitsInGP(plan, lo) = FitsInGP(plan, hi) /\ FitsZeroPage(plan, lo) = FitsZeroPage(plan, hi)
  BY <1>1, HalvesFit
<1>3. Site(lo).kind = "pcrel_lo" /\ DisabledForGP(lo) => DisabledForGP(hi)
  <2> SUFFICES ASSUME Site(lo).kind = "pcrel_lo", DisabledForGP(lo)
               PROVE  DisabledForGP(hi)
    OBVIOUS
  <2>1. PICK x \in Sites : /\ Site(x).kind = "pcrel_lo" /\ lo \in {x, Site(x).hi}
                           /\ Site(x).off < Site(Site(x).hi).off
    BY DEF DisabledForGP
  <2>2. x \in LowParts
    BY <2>1 DEF LowParts
  <2>3. Site(Site(x).hi).kind = "pcrel_hi"
    BY <2>1, <2>2, PairIs
  <2>4. x = lo
    BY <2>1, <2>3
  <2> QED BY <2>1, <2>4 DEF DisabledForGP
<1> HIDE DEF hi
<1>4. Verdict(plan, hi) # "none" => Verdict(plan, lo) = Verdict(plan, hi)
  <2>1. CASE Site(lo).kind = "pcrel_lo"
    <3> SUFFICES ASSUME Verdict(plan, hi) # "none"
                 PROVE  Verdict(plan, lo) = Verdict(plan, hi)
      OBVIOUS
    <3>1. /\ Site(hi).relax /\ link.kind = "exec" /\ ~DisabledForGP(hi)
          /\ FitsInGPFrom(plan, hi, TargetSection(hi)) /\ Verdict(plan, hi) = "PcGp"
      BY <1>1, <2>1 DEF Verdict
    <3>2. FitsInGP(plan, hi)
      BY <1>1, <2>1, <3>1 DEF FitsInGP, TargetSection
    <3>3. FitsInGPFrom(plan, lo, TargetSection(lo))
      BY <1>2, <3>2, LowPartFits
    <3> QED BY <1>1, <1>3, <2>1, <3>1, <3>3 DEF Verdict
  <2>2. CASE Site(lo).kind = "lo12"
    BY <1>1, <1>2, <2>2 DEF Verdict
  <2> QED BY <1>1, <2>1, <2>2
<1> QED BY <1>4 DEF hi

------------------------------------------------------------------------------
\* What a decision records.

\* A decision on i changes no other edit.
EditsOnly(i, d) ==
  /\ \A j : j # i => (HasEdit(d.plan, j) <=> HasEdit(code.plan, j))
  /\ DifferIn(Site(i).sect, code.plan, d.plan)

\* An edit that is added, removed or replaced is one of its section.
LEMMA OneEdit ==
  ASSUME NEW i, NEW p, NEW q, \A e : e.reloc # i => (e \in q <=> e \in p)
  PROVE  /\ \A j : j # i => (HasEdit(q, j) <=> HasEdit(p, j))
         /\ DifferIn(Site(i).sect, p, q)
<1>1. \A j : j # i => (HasEdit(q, j) <=> HasEdit(p, j))
  BY DEF HasEdit
<1>2. ASSUME NEW t, t # Site(i).sect PROVE PlanOf(q, t) = PlanOf(p, t)
  <2>1. \A e : e \in PlanOf(q, t) <=> e \in q /\ Site(e.reloc).sect = t
    BY DEF PlanOf
  <2>2. \A e : e \in PlanOf(p, t) <=> e \in p /\ Site(e.reloc).sect = t
    BY DEF PlanOf
  <2>3. \A e : Site(e.reloc).sect = t => e.reloc # i
    BY <1>2
  <2> QED BY <2>1, <2>2, <2>3
<1> QED BY <1>1, <1>2 DEF DifferIn

\* What a pass over the accesses through GP or the zero page decides.
RecordsVerdict(i, d) ==
  /\ d.calls = code.calls
  /\ \/ /\ Verdict(code.plan, i) = "none"
        /\ d.record = code.record /\ d.gps = code.gps /\ d.as = code.as
     \/ \E kind, as :
          /\ kind \in GPKinds /\ Verdict(code.plan, i) = kind
          /\ d.record = [code.record EXCEPT ![i] = kind]
          /\ d.gps = Append(code.gps, i)
          /\ d.as = [code.as EXCEPT ![i] = as]
          /\ HasEdit(d.plan, i)
          /\ i \in LowParts => as \in {"gp", "zero"}

\* A pass over calls.
RecordsCall(i, d) ==
  /\ d.gps = code.gps
  /\ \/ d.calls = code.calls /\ d.record = code.record /\ d.as = code.as
     \/ \E kind, as :
          /\ d.calls = Append(code.calls, i)
          /\ d.record = [code.record EXCEPT ![i] = kind]
          /\ d.as = [code.as EXCEPT ![i] = as]

\* An edit of i is added.
LEMMA AddedOnly ==
  ASSUME NEW i, NEW at, NEW bytes, NEW p
  PROVE  LET q == AddEdit(p, Edit(i, at, bytes))
         IN  /\ \A e : e.reloc # i => (e \in q <=> e \in p)
             /\ HasEdit(q, i)
<1>1. Edit(i, at, bytes).reloc = i
  BY DEF Edit
<1> QED BY <1>1 DEF AddEdit, HasEdit

\* The decisions of the pass over relocations relative to the pc.
LEMMA PCVerdict ==
  ASSUME link \in Links, DOMAIN code = Fields, NEW i \in Sites, Site(i).relax,
         Site(i).kind \in {"pcrel_hi", "pcrel_lo"}
  PROVE  RecordsVerdict(i, doRelaxationPC(code, i))
<1>1. CASE Verdict(code.plan, i) = "none"
  <2>1. doRelaxationPC(code, i) = code
    BY <1>1 DEF Verdict, doRelaxationPC
  <2> QED BY <1>1, <2>1 DEF RecordsVerdict
<1>2. CASE Verdict(code.plan, i) # "none"
  <2>1. /\ Verdict(code.plan, i) = "PcGp"
        /\ ~(\/ link.kind # "exec" \/ DisabledForGP(i)
             \/ ~FitsInGPFrom(code.plan, i, TargetSection(i)))
    BY <1>2 DEF Verdict
  <2>2. PICK bytes, as :
          /\ doRelaxationPC(code, i) = DeferredGP(code, i, Site(i).off, bytes, as, "PcGp")
          /\ Site(i).kind = "pcrel_lo" => as = "gp"
    <3>1. CASE Site(i).kind = "pcrel_hi"
      BY <2>1, <3>1 DEF doRelaxationPC
    <3>2. CASE Site(i).kind = "pcrel_lo"
      BY <2>1, <3>2 DEF doRelaxationPC
    <3> QED BY <3>1, <3>2
  <2>3. i \in LowParts => as = "gp"
    BY <2>2 DEF LowParts
  <2> DEFINE d == DeferredGP(code, i, Site(i).off, bytes, as, "PcGp")
  <2>4. /\ d.plan = AddEdit(code.plan, Edit(i, Site(i).off, bytes))
        /\ d.as = [code.as EXCEPT ![i] = as]
        /\ d.record = [code.record EXCEPT ![i] = "PcGp"]
        /\ d.calls = code.calls /\ d.gps = Append(code.gps, i)
    BY DEF DeferredGP, Deferred, Fields
  <2> HIDE DEF d
  <2>5. HasEdit(d.plan, i)
    BY <2>4, AddedOnly
  <2>6. RecordsVerdict(i, d)
    BY <2>1, <2>3, <2>4, <2>5 DEF RecordsVerdict, GPKinds
  <2> QED BY <2>2, <2>6 DEF d
<1> QED BY <1>1, <1>2

\* The decisions of the pass over absolute relocations.
LEMMA LuiVerdict ==
  ASSUME link \in Links, DOMAIN code = Fields, NEW i \in Sites, Site(i).relax,
         Site(i).kind \in {"hi20", "lo12"}
  PROVE  RecordsVerdict(i, doRelaxationLui(code, i))
<1> DEFINE e == [code EXCEPT !.plan = AddEdit(@, Edit(i, Site(i).off + 2, 2)),
                             !.encoding[i] = "c.lui"]
           v == ValueOf(code.plan, Site(i).to)
           zero == FitsZeroPage(code.plan, i)
           gp == link.kind = "exec" /\ v # 0 /\ FitsInGP(code.plan, i)
<1>1. Verdict(code.plan, i) = IF zero THEN "ZeroPage" ELSE IF gp THEN "LuiGp" ELSE "none"
  BY DEF Verdict
<1>2. e.calls = code.calls /\ e.gps = code.gps /\ e.record = code.record /\ e.as = code.as
  BY DEF Fields
<1>3. CASE ~zero /\ ~gp
  <2>1. doRelaxationLui(code, i) \in {e, code}
    BY <1>3 DEF doRelaxationLui
  <2> HIDE DEF e
  <2> QED BY <1>1, <1>2, <1>3, <2>1 DEF RecordsVerdict
<1>4. CASE zero \/ gp
  <2> DEFINE kind == IF zero THEN "ZeroPage" ELSE "LuiGp"
  <2>1. PICK bytes, as :
          /\ doRelaxationLui(code, i) = DeferredGP(code, i, Site(i).off, bytes, as, kind)
          /\ Site(i).kind = "lo12" => as \in {"gp", "zero"}
    <3>1. CASE Site(i).kind = "hi20"
      BY <1>4, <3>1 DEF doRelaxationLui
    <3>2. CASE Site(i).kind = "lo12"
      BY <1>4, <3>2 DEF doRelaxationLui
    <3> QED BY <3>1, <3>2
  <2>2. i \in LowParts => as \in {"gp", "zero"}
    BY <2>1 DEF LowParts
  <2>3. Verdict(code.plan, i) = kind /\ kind \in GPKinds
    BY <1>1, <1>4 DEF GPKinds
  <2> HIDE DEF kind
  <2> DEFINE d == DeferredGP(code, i, Site(i).off, bytes, as, kind)
  <2>4. /\ d.plan = AddEdit(code.plan, Edit(i, Site(i).off, bytes))
        /\ d.as = [code.as EXCEPT ![i] = as]
        /\ d.record = [code.record EXCEPT ![i] = kind]
        /\ d.calls = code.calls /\ d.gps = Append(code.gps, i)
    BY DEF DeferredGP, Deferred, Fields
  <2> HIDE DEF d
  <2>5. HasEdit(d.plan, i)
    BY <2>4, AddedOnly
  <2>6. RecordsVerdict(i, d)
    BY <2>2, <2>3, <2>4, <2>5 DEF RecordsVerdict
  <2> QED BY <2>1, <2>6 DEF d
<1> QED BY <1>3, <1>4

\* The decisions of the pass over calls.
LEMMA CallRecorded ==
  ASSUME DOMAIN code = Fields, NEW i \in Sites
  PROVE  RecordsCall(i, doRelaxationCall(code, i))
<1>1. ASSUME NEW at, NEW bytes, NEW as, NEW kind
      PROVE  RecordsCall(i, DeferredCall(code, i, at, bytes, as, kind))
  <2> DEFINE d == DeferredCall(code, i, at, bytes, as, kind)
  <2>1. /\ d.as = [code.as EXCEPT ![i] = as]
        /\ d.record = [code.record EXCEPT ![i] = kind]
        /\ d.calls = Append(code.calls, i) /\ d.gps = code.gps
    BY DEF DeferredCall, Deferred, Fields
  <2> HIDE DEF d
  <2>2. RecordsCall(i, d)
    BY <2>1 DEF RecordsCall
  <2> QED BY <2>2 DEF d
<1>2. RecordsCall(i, code)
  BY DEF RecordsCall
<1>3. \/ doRelaxationCall(code, i) = DeferredCall(code, i, Site(i).off + 2, 6, "c.j", "CallToCJ")
      \/ doRelaxationCall(code, i) = DeferredCall(code, i, Site(i).off + 4, 4, "jal", "CallToJal")
      \/ doRelaxationCall(code, i) = code
  BY DEF doRelaxationCall
<1> QED BY <1>1, <1>2, <1>3

\* What a step of a pass records and which edits it changes.
LEMMA DecideRecords ==
  ASSUME ShapeInv, NEW pass, Decide(pass), pc \in {"pass", "settle"},
         pc = "pass" => pass = iteration, pc = "settle" => pass = RELAXATION_ALIGN
  PROVE  \E i \in Sites :
           /\ Handles(pass, i) /\ i >= cursor /\ cursor' = i + 1
           /\ \A j \in Sites : j >= cursor /\ Handles(pass, j) => i <= j
           /\ pass = PassOf(i) /\ UNCHANGED <<link, addr, iteration>>
           /\ code'.dropped = code.dropped
           /\ EditsOnly(i, code')
           /\ \/ pass \in {1, 2} /\ RecordsVerdict(i, code') /\ i \notin Recorded
              \/ pass = 0 /\ RecordsCall(i, code') /\ i \notin Recorded
              \/ /\ pass = 4 /\ code'.record = code.record /\ code'.gps = code.gps
                 /\ code'.calls = code.calls /\ code'.as = code.as
<1> USE DEF RELAXATION_CALL, RELAXATION_PC, RELAXATION_LUI, RELAXATION_ALIGN
<1>1. PICK i \in Sites :
        /\ Handles(pass, i) /\ i >= cursor /\ cursor' = i + 1
        /\ code' = Decided(code, pass, i)
        /\ \A j \in Sites : j >= cursor /\ Handles(pass, j) => i <= j
        /\ pass = PassOf(i)
        /\ pass # RELAXATION_ALIGN =>
             /\ Site(i).kind # "align" /\ i \notin Recorded /\ pc = "pass"
             /\ Defers(code', code, i) \/ Compresses(code', code, i) \/ code' = code
        /\ pass = RELAXATION_ALIGN =>
             /\ Site(i).kind = "align"
             /\ code' = [code EXCEPT !.failed = TRUE] \/ Aligns(code', code, i)
  BY DecideSteps
<1>2. UNCHANGED <<link, addr, iteration>>
  BY DEF Decide
<1>3. /\ link \in Links /\ DOMAIN code = Fields
      /\ EncodingsFit(code.encoding)
  BY DEF ShapeInv, CodeShape, Pending, Committing
<1>4. /\ pass \in {0, 1, 2, 4}
      /\ pass = 0 => Site(i).kind = "call"
      /\ pass = 1 => Site(i).kind \in {"pcrel_hi", "pcrel_lo"}
      /\ pass = 2 => Site(i).kind \in {"hi20", "lo12"}
      /\ pass = 4 => Site(i).kind = "align"
  BY <1>1, <1>3, HandledKinds
<1>5. /\ code'.dropped = code.dropped
      /\ code'.plan = code.plan \/ \E at, bytes : code'.plan = AddEdit(code.plan, Edit(i, at, bytes))
  <2>1. CASE Defers(code', code, i)
    BY <2>1 DEF Defers
  <2>2. CASE Compresses(code', code, i)
    BY <2>2 DEF Compresses, Applies
  <2>3. CASE code' = code
    BY <2>3
  <2>4. CASE code' = [code EXCEPT !.failed = TRUE]
    BY <1>3, <2>4 DEF Fields
  <2>5. CASE Aligns(code', code, i)
    BY <2>5 DEF Aligns, Applies
  <2> QED BY <1>1, <2>1, <2>2, <2>3, <2>4, <2>5
<1>6. \A e : e.reloc # i => (e \in code'.plan <=> e \in code.plan)
  BY <1>5, AddedOnly
<1>7. EditsOnly(i, code')
  BY <1>6, OneEdit DEF EditsOnly
<1> DEFINE Known ==
      \/ pass \in {1, 2} /\ RecordsVerdict(i, code') /\ i \notin Recorded
      \/ pass = 0 /\ RecordsCall(i, code') /\ i \notin Recorded
      \/ /\ pass = 4 /\ code'.record = code.record /\ code'.gps = code.gps
         /\ code'.calls = code.calls /\ code'.as = code.as
<1>8. Known
  <2>1. CASE pass = 0
    <3>1. code' = doRelaxationCall(code, i)
      BY <1>1, <2>1 DEF Decided
    <3>2. RecordsCall(i, code')
      BY <1>3, <3>1, CallRecorded
    <3> QED BY <1>1, <2>1, <3>2
  <2>2. CASE pass = 1
    <3>1. code' = doRelaxationPC(code, i) /\ Site(i).relax
      BY <1>1, <2>2 DEF Decided, Handles
    <3>2. RecordsVerdict(i, code')
      BY <1>3, <1>4, <2>2, <3>1, PCVerdict
    <3> QED BY <1>1, <2>2, <3>2
  <2>3. CASE pass = 2
    <3>1. code' = doRelaxationLui(code, i) /\ Site(i).relax
      BY <1>1, <2>3 DEF Decided, Handles
    <3>2. RecordsVerdict(i, code')
      BY <1>3, <1>4, <2>3, <3>1, LuiVerdict
    <3> QED BY <1>1, <2>3, <3>2
  <2>4. CASE pass = 4
    <3>1. /\ code'.record = code.record /\ code'.gps = code.gps
          /\ code'.calls = code.calls /\ code'.as = code.as
      <4>1. CASE code' = [code EXCEPT !.failed = TRUE]
        BY <1>3, <4>1 DEF Fields
      <4>2. CASE Aligns(code', code, i)
        BY <4>2 DEF Aligns, Applies
      <4> QED BY <1>1, <2>4, <4>1, <4>2
    <3> QED BY <2>4, <3>1
  <2> QED BY <1>4, <2>1, <2>2, <2>3, <2>4
<1> QED BY <1>1, <1>2, <1>5, <1>7, <1>8

------------------------------------------------------------------------------
\* The order of the records, and the edits of what stands.

\* The order in which the passes visit the relocations.
Earlier(x, y) == PassOf(x) < PassOf(y) \/ (PassOf(x) = PassOf(y) /\ x < y)

GPSites == {i \in Sites : Site(i).kind \in {"pcrel_hi", "pcrel_lo", "hi20", "lo12"}}

\* The calls are listed apart from the accesses, which are in the order of the passes.
ListOrder ==
  /\ \A k \in DOMAIN code.calls : Site(code.calls[k]).kind = "call"
  /\ \A j, k \in DOMAIN code.gps : j < k => Earlier(code.gps[j], code.gps[k])
  /\ \A i \in GPSites : code.record[i] # "none" => code.record[i] \in GPKinds

OrderInv == (pc = "layout" => cursor = 1) /\ ListOrder

\* The order of the lists depends on the lists and the records alone.
LEMMA OrderStays ==
  ASSUME ListOrder, UNCHANGED link,
         code'.calls = code.calls, code'.gps = code.gps, code'.record = code.record
  PROVE  ListOrder'
<1>1. /\ \A i : Site(i)' = Site(i) /\ PassOf(i)' = PassOf(i)
      /\ GPSites' = GPSites
  BY DEF Site, Sites, PassOf, GPSites
<1>2. \A x, y : Earlier(x, y)' = Earlier(x, y)
  BY <1>1 DEF Earlier
<1> QED BY <1>1, <1>2 DEF ListOrder

\* Passes and relocations are numbers.
LEMMA SiteNumbers ==
  ASSUME link \in Links
  PROVE  /\ \A i \in Sites : i \in Nat \ {0} /\ PassOf(i) \in 0..4
         /\ \A i \in Sites : Site(i).kind = "call" <=> PassOf(i) = 0
         /\ \A i \in Sites : i \in GPSites <=> PassOf(i) \in {1, 2}
         /\ LowParts \subseteq GPSites
<1>1. \A i \in Sites : i \in Nat \ {0} /\ PassOf(i) \in 0..4
  BY SiteFacts, PassNumbers
<1>2. ASSUME NEW i \in Sites
      PROVE  /\ Site(i).kind = "call" <=> PassOf(i) = 0
             /\ i \in GPSites <=> PassOf(i) \in {1, 2}
  <2>1. Site(i).kind \in {"call", "pcrel_hi", "pcrel_lo", "hi20", "lo12", "align"}
    BY SiteFacts
  <2> QED BY <2>1 DEF PassOf, GPSites, RELAXATION_CALL, RELAXATION_PC, RELAXATION_LUI, RELAXATION_ALIGN
<1>3. LowParts \subseteq GPSites
  BY DEF LowParts, GPSites
<1> QED BY <1>1, <1>2, <1>3

\* A decision keeps the order of the lists.
LEMMA DecideOrders ==
  ASSUME ShapeInv, ListOrder, NEW pass, Decide(pass), pc \in {"pass", "settle"},
         pc = "pass" => pass = iteration, pc = "settle" => pass = RELAXATION_ALIGN
  PROVE  ListOrder'
<1>1. PICK i \in Sites :
        /\ i >= cursor /\ pass = PassOf(i) /\ UNCHANGED link
        /\ \/ pass \in {1, 2} /\ RecordsVerdict(i, code') /\ i \notin Recorded
           \/ pass = 0 /\ RecordsCall(i, code') /\ i \notin Recorded
           \/ /\ pass = 4 /\ code'.record = code.record /\ code'.gps = code.gps
              /\ code'.calls = code.calls /\ code'.as = code.as
  BY DecideRecords
<1>2. /\ link \in Links /\ DOMAIN code.record = Sites
      /\ code.gps \in Seq(Recorded) /\ code.calls \in Seq(Recorded)
      /\ cursor \in Nat /\ Recorded \subseteq Sites
      /\ \A j \in Sites : j \in Nat \ {0} /\ PassOf(j) \in 0..4
      /\ \A j \in Sites : Site(j).kind = "call" <=> PassOf(j) = 0
      /\ \A j \in Sites : j \in GPSites <=> PassOf(j) \in {1, 2}
  BY RecordedFinite, SiteNumbers DEF ShapeInv, CodeShape, ListShape, LoopShape, Recorded
<1>3. /\ \A j : Site(j)' = Site(j) /\ PassOf(j)' = PassOf(j)
      /\ GPSites' = GPSites
  BY <1>1 DEF Site, Sites, PassOf, GPSites
<1>4. \A x, y : Earlier(x, y)' = Earlier(x, y)
  BY <1>3 DEF Earlier
<1>5. CASE code'.record = code.record /\ code'.gps = code.gps /\ code'.calls = code.calls
  BY <1>1, <1>5, OrderStays
<1>6. CASE pass \in {1, 2} /\ RecordsVerdict(i, code') /\ code'.gps # code.gps
  <2>1. PICK kind \in GPKinds :
          /\ code'.record = [code.record EXCEPT ![i] = kind]
          /\ code'.gps = Append(code.gps, i) /\ code'.calls = code.calls
    BY <1>6 DEF RecordsVerdict
  <2> DEFINE n == Len(code.gps)
             q == code'.gps
  <2>2. /\ n \in Nat /\ DOMAIN code.gps = 1..n /\ DOMAIN q = 1..n + 1
        /\ \A k \in 1..n : q[k] = code.gps[k] /\ code.gps[k] \in Recorded
        /\ q[n + 1] = i
    BY <1>2, <2>1
  <2>3. pc = "pass" /\ pass = iteration
    BY <1>6 DEF RELAXATION_ALIGN
  <2>4. \A x \in Recorded : PassOf(x) < iteration \/ (PassOf(x) = iteration /\ x < cursor)
    BY <2>3 DEF ShapeInv, LoopShape, Relaxing
  <2>5. ASSUME NEW x \in Recorded PROVE Earlier(x, i)
    <3>1. x \in Sites /\ x \in Nat /\ i \in Nat
      BY <1>2
    <3> QED BY <1>1, <1>2, <2>3, <2>4, <3>1 DEF Earlier
  <2> HIDE DEF n
  <2>6. ASSUME NEW j \in 1..n + 1, NEW k \in 1..n + 1, j < k
        PROVE  Earlier(q[j], q[k])
    <3>1. j \in 1..n
      BY <2>2, <2>6
    <3>2. CASE k \in 1..n
      <4>1. Earlier(code.gps[j], code.gps[k])
        BY <2>2, <2>6, <3>1, <3>2 DEF ListOrder
      <4> QED BY <2>2, <3>1, <3>2, <4>1
    <3>3. CASE k = n + 1
      BY <2>2, <2>5, <3>1, <3>3
    <3> QED BY <2>2, <3>2, <3>3
  <2>7. \A j, k \in DOMAIN q : j < k => Earlier(q[j], q[k])
    BY <2>2, <2>6
  <2>8. \A j \in GPSites : code'.record[j] # "none" => code'.record[j] \in GPKinds
    BY <1>2, <2>1 DEF ListOrder, GPSites
  <2>9. \A k \in DOMAIN code'.calls : Site(code'.calls[k]).kind = "call"
    BY <2>1 DEF ListOrder
  <2> QED BY <1>3, <1>4, <2>7, <2>8, <2>9 DEF ListOrder
<1>7. CASE pass = 0 /\ RecordsCall(i, code') /\ code'.calls # code.calls
  <2>1. PICK kind :
          /\ code'.record = [code.record EXCEPT ![i] = kind]
          /\ code'.calls = Append(code.calls, i) /\ code'.gps = code.gps
    BY <1>7 DEF RecordsCall
  <2> DEFINE n == Len(code.calls)
             q == code'.calls
  <2>2. /\ n \in Nat /\ DOMAIN code.calls = 1..n /\ DOMAIN q = 1..n + 1
        /\ \A k \in 1..n : q[k] = code.calls[k]
        /\ q[n + 1] = i
    BY <1>2, <2>1
  <2>3. Site(i).kind = "call" /\ i \notin GPSites
    <3>1. PassOf(i) = 0
      BY <1>1, <1>7
    <3>2. Site(i).kind = "call"
      BY <1>2, <3>1
    <3> QED BY <3>2 DEF GPSites
  <2>4. \A k \in DOMAIN q : Site(q[k]).kind = "call"
    <3>1. \A k \in 1..n : Site(code.calls[k]).kind = "call"
      BY <2>2 DEF ListOrder
    <3>2. \A k \in 1..n + 1 : k \in 1..n \/ k = n + 1
      BY <2>2
    <3> HIDE DEF n, q
    <3> QED BY <2>2, <2>3, <3>1, <3>2
  <2>5. \A j \in GPSites : code'.record[j] = code.record[j]
    BY <1>2, <2>1, <2>3 DEF GPSites
  <2> QED BY <1>3, <1>4, <2>1, <2>4, <2>5 DEF ListOrder
<1>8. RecordsVerdict(i, code') /\ code'.gps = code.gps => code'.record = code.record /\ code'.calls = code.calls
  <2>1. Append(code.gps, i) # code.gps
    <3>1. Len(Append(code.gps, i)) = Len(code.gps) + 1 /\ Len(code.gps) \in Nat
      BY <1>2
    <3> QED BY <3>1
  <2> QED BY <2>1 DEF RecordsVerdict
<1>9. RecordsCall(i, code') /\ code'.calls = code.calls => code'.record = code.record /\ code'.gps = code.gps
  <2>1. Append(code.calls, i) # code.calls
    <3>1. Len(Append(code.calls, i)) = Len(code.calls) + 1 /\ Len(code.calls) \in Nat
      BY <1>2
    <3> QED BY <3>1
  <2> QED BY <2>1 DEF RecordsCall
<1>10. RecordsVerdict(i, code') => code'.calls = code.calls
  BY DEF RecordsVerdict
<1>11. RecordsCall(i, code') => code'.gps = code.gps
  BY DEF RecordsCall
<1> QED BY <1>1, <1>5, <1>6, <1>7, <1>8, <1>9, <1>10, <1>11

\* The fields that a rejection, the undoing of padding and a commit leave alone.
LEMMA RejectFields ==
  ASSUME DOMAIN code = Fields, NEW i
  PROVE  LET d == Reject(code, i)
         IN  /\ d.plan = RemoveEdit(code.plan, i)
             /\ d.as = [code.as EXCEPT ![i] = Site(i).kind]
             /\ d.dropped = code.dropped \cup {i}
             /\ d.calls = code.calls /\ d.gps = code.gps /\ d.record = code.record
             /\ d.encoding = code.encoding
BY DEF Reject, Fields

LEMMA UndoFields ==
  ASSUME DOMAIN code = Fields
  PROVE  LET d == UndoAligns(code)
         IN  /\ d.plan = {e \in code.plan : e.reloc \notin code.applied}
             /\ d.as = code.as /\ d.dropped = code.dropped
             /\ d.calls = code.calls /\ d.gps = code.gps /\ d.record = code.record
BY DEF UndoAligns, Fields

LEMMA CommitFields ==
  ASSUME DOMAIN code = Fields, CommitSection
  PROVE  /\ code'.plan = code.plan \ PlanOf(code.plan, cursor)
         /\ code'.encoding = [i \in Sites |->
              IF HasEdit(PlanOf(code.plan, cursor), i) /\ code.encoding[i] = Site(i).kind
              THEN code.as[i] ELSE code.encoding[i]]
         /\ code'.as = code.as /\ code'.dropped = code.dropped
         /\ code'.calls = code.calls /\ code'.gps = code.gps /\ code'.record = code.record
BY DEF CommitSection, Fields

\* A verification rejects the record at the cursor or leaves the code alone.
LEMMA VerifyFields ==
  ASSUME ShapeInv, RefInv, Verify
  PROVE  LET i == Records[cursor]
         IN  /\ UNCHANGED <<link, addr, iteration, pc>> /\ cursor' = cursor + 1 /\ pc = "verify"
             /\ i \in Recorded /\ cursor \in 1..Len(Records)
             /\ code'.calls = code.calls /\ code'.gps = code.gps /\ code'.record = code.record
             /\ code'.encoding = code.encoding
             /\ \/ /\ i \notin code.dropped /\ ~Fits(code.plan, i)
                   /\ code'.plan = RemoveEdit(code.plan, i)
                   /\ code'.as = [code.as EXCEPT ![i] = Site(i).kind]
                   /\ code'.dropped = code.dropped \cup {i}
                \/ /\ i \in code.dropped \/ Fits(code.plan, i)
                   /\ UNCHANGED code
<1> DEFINE i == Records[cursor]
           drops == i \notin code.dropped /\ ~Fits(code.plan, i)
<1>1. /\ UNCHANGED <<link, addr, iteration, pc>> /\ cursor' = cursor + 1 /\ pc = "verify"
      /\ code' = IF drops THEN Reject(code, i) ELSE code
  BY DEF Verify
<1>2. i \in Recorded /\ cursor \in 1..Len(Records)
  BY VerifyTakes
<1>3. DOMAIN code = Fields
  BY DEF ShapeInv, CodeShape
<1> HIDE DEF i
<1>4. CASE drops
  <2>1. code' = Reject(code, i)
    BY <1>1, <1>4
  <2>2. /\ code'.plan = RemoveEdit(code.plan, i)
        /\ code'.as = [code.as EXCEPT ![i] = Site(i).kind]
        /\ code'.dropped = code.dropped \cup {i}
        /\ code'.calls = code.calls /\ code'.gps = code.gps /\ code'.record = code.record
        /\ code'.encoding = code.encoding
    BY <1>3, <2>1, RejectFields
  <2> QED BY <1>1, <1>2, <1>4, <2>2 DEF i
<1>5. CASE ~drops
  <2>1. code' = code
    BY <1>1, <1>5
  <2> QED BY <1>1, <1>2, <1>5, <2>1 DEF i
<1> QED BY <1>4, <1>5

\* The lists stay in the order of the passes.
LEMMA OrderHolds == Spec => []OrderInv
<1>1. Init => OrderInv
  <2> SUFFICES ASSUME Init PROVE OrderInv
    OBVIOUS
  <2>1. /\ code.calls = <<>> /\ code.gps = <<>> /\ cursor = 1
        /\ code.record = [i \in Sites |-> "none"]
    BY DEF Init, InitialCode
  <2> QED BY <2>1 DEF OrderInv, ListOrder, GPSites
<1>2. OrderInv /\ ShapeInv /\ RefInv /\ [Next]_vars => OrderInv'
  <2> SUFFICES ASSUME OrderInv, ShapeInv, RefInv, [Next]_vars
               PROVE  OrderInv'
    OBVIOUS
  <2>1. DOMAIN code = Fields /\ ListOrder /\ (pc = "layout" => cursor = 1)
    BY DEF ShapeInv, CodeShape, OrderInv
  <2>2. ASSUME UNCHANGED <<link, code>>, pc' = "layout" => cursor' = 1
        PROVE  OrderInv'
    BY <2>1, <2>2, OrderStays DEF OrderInv
  <2>3. CASE Converge
    BY <2>2, <2>3 DEF Converge
  <2>4. CASE EndPass \/ Finish
    BY <2>2, <2>4 DEF EndPass, Finish
  <2>5. CASE EndRedecision \/ StartRound \/ GiveUp
    BY <2>2, <2>5 DEF EndRedecision, StartRound, GiveUp
  <2>6. CASE Sync \/ Commit
    BY <2>2, <2>6 DEF Sync, Commit, EndRound
  <2>7. CASE UNCHANGED vars
    BY <2>1, <2>2, <2>7 DEF vars
  <2>8. CASE Visit \/ Redecide
    <3>1. PICK pass : /\ Decide(pass) /\ pc \in {"pass", "settle"}
                      /\ pc = "pass" => pass = iteration
                      /\ pc = "settle" => pass = RELAXATION_ALIGN
                      /\ pc' \in {pc, "error"}
      BY <2>8 DEF Visit, Redecide, Decide
    <3>2. ListOrder'
      BY <2>1, <3>1, DecideOrders
    <3> QED BY <3>1, <3>2 DEF OrderInv
  <2>9. CASE Verify
    BY <2>1, <2>9, VerifyFields, OrderStays DEF OrderInv
  <2>10. CASE Retry
    <3>1. code' = UndoAligns(code) /\ pc' = "resettle" /\ UNCHANGED link
      BY <2>10 DEF Retry, EndRound
    <3>2. ListOrder'
      BY <2>1, <3>1, UndoFields, OrderStays
    <3> QED BY <3>1, <3>2 DEF OrderInv
  <2>11. CASE CommitSection
    <3>1. pc' # "layout" /\ UNCHANGED link
      BY <2>11 DEF CommitSection
    <3>2. ListOrder'
      BY <2>1, <2>11, <3>1, CommitFields, OrderStays
    <3> QED BY <3>1, <3>2 DEF OrderInv
  <2> QED BY <2>3, <2>4, <2>5, <2>6, <2>7, <2>8, <2>9, <2>10, <2>11 DEF Next
<1> QED BY <1>1, <1>2, ShapeHolds, RefInvHolds, PTL DEF Spec

\* What stands of the low parts has an edit that rewrites its base.
Live(i) == code.record[i] # "none" /\ i \notin code.dropped

BaseRewritten(i) == HasEdit(code.plan, i) /\ code.as[i] \in {"gp", "zero"}

EditsInv == Committing \/ \A i \in LowParts : Live(i) => BaseRewritten(i)

\* The edits stand until the commit.
LEMMA EditsHold == Spec => []EditsInv
<1>1. Init => EditsInv
  <2> SUFFICES ASSUME Init PROVE EditsInv
    OBVIOUS
  <2>1. code.record = [i \in Sites |-> "none"]
    BY DEF Init, InitialCode
  <2> QED BY <2>1 DEF EditsInv, Live, LowParts
<1>2. EditsInv /\ ShapeInv /\ RefInv /\ [Next]_vars => EditsInv'
  <2> SUFFICES ASSUME EditsInv, ShapeInv, RefInv, [Next]_vars, ~Committing'
               PROVE  \A i \in LowParts' : Live(i)' => BaseRewritten(i)'
    BY DEF EditsInv
  <2>1. /\ link \in Links /\ DOMAIN code = Fields /\ CodeShape(code)
        /\ Committing \/ Pending(code)
    BY DEF ShapeInv, CodeShape
  <2>2. UNCHANGED link
    BY DEF Next, Converge, EndPass, Finish, EndRedecision, StartRound, GiveUp, Sync, Commit,
           Retry, EndRound, Visit, Redecide, Decide, Verify, CommitSection, vars
  <2>3. LowParts' = LowParts /\ LowParts \subseteq Sites /\ \A j : Site(j)' = Site(j)
    BY <2>2 DEF LowParts, Sites, Site
  <2>4. ASSUME UNCHANGED code, ~Committing
        PROVE  \A i \in LowParts' : Live(i)' => BaseRewritten(i)'
    BY <2>3, <2>4 DEF EditsInv, Live, BaseRewritten
  <2>5. CASE Converge \/ EndPass \/ Finish \/ EndRedecision \/ StartRound \/ GiveUp
    BY <2>4, <2>5 DEF Converge, EndPass, Finish, EndRedecision, StartRound, GiveUp, Committing
  <2>6. CASE Sync \/ Commit
    BY <2>4, <2>6 DEF Sync, Commit, EndRound, Committing
  <2>7. CASE UNCHANGED vars
    BY <2>4, <2>7 DEF vars, Committing
  <2>8. CASE Visit \/ Redecide
    <3>1. PICK pass : /\ Decide(pass) /\ pc \in {"pass", "settle"}
                      /\ pc = "pass" => pass = iteration
                      /\ pc = "settle" => pass = RELAXATION_ALIGN
      BY <2>8 DEF Visit, Redecide
    <3>2. PICK i \in Sites :
            /\ pass = PassOf(i) /\ code'.dropped = code.dropped /\ EditsOnly(i, code')
            /\ \/ pass \in {1, 2} /\ RecordsVerdict(i, code') /\ i \notin Recorded
               \/ pass = 0 /\ RecordsCall(i, code') /\ i \notin Recorded
               \/ /\ pass = 4 /\ code'.record = code.record /\ code'.gps = code.gps
                  /\ code'.calls = code.calls /\ code'.as = code.as
      BY <3>1, DecideRecords
    <3>3. ~Committing /\ DOMAIN code.as = Sites /\ DOMAIN code.record = Sites
      BY <2>1, <3>1 DEF Committing, CodeShape
    <3>4. ASSUME NEW j \in LowParts, Live(j)', j # i PROVE BaseRewritten(j)'
      <4>1. code'.record[j] = code.record[j] /\ code'.as[j] = code.as[j]
        BY <2>3, <3>2, <3>3, <3>4 DEF RecordsVerdict, RecordsCall
      <4>2. HasEdit(code'.plan, j) <=> HasEdit(code.plan, j)
        BY <3>2, <3>4 DEF EditsOnly
      <4>3. Live(j)
        BY <3>2, <3>4, <4>1 DEF Live
      <4>4. BaseRewritten(j)
        BY <3>3, <3>4, <4>3 DEF EditsInv
      <4> QED BY <4>1, <4>2, <4>4 DEF BaseRewritten
    <3>5. ASSUME i \in LowParts, Live(i)' PROVE BaseRewritten(i)'
      <4>1. pass \in {1, 2}
        BY <2>1, <3>2, <3>5, SiteNumbers
      <4>2. RecordsVerdict(i, code') /\ i \notin Recorded
        BY <3>2, <4>1
      <4>3. code.record[i] = "none"
        BY <4>2 DEF Recorded
      <4>4. PICK as : HasEdit(code'.plan, i) /\ code'.as = [code.as EXCEPT ![i] = as] /\ as \in {"gp", "zero"}
        BY <3>5, <4>2, <4>3 DEF RecordsVerdict, Live
      <4> QED BY <3>3, <4>4 DEF BaseRewritten
    <3> QED BY <2>3, <3>4, <3>5
  <2>9. CASE Verify
    <3> DEFINE i == Records[cursor]
    <3>1. /\ code'.record = code.record /\ pc = "verify"
          /\ \/ /\ code'.plan = RemoveEdit(code.plan, i)
                /\ code'.as = [code.as EXCEPT ![i] = Site(i).kind]
                /\ code'.dropped = code.dropped \cup {i}
             \/ UNCHANGED code
      BY <2>9, VerifyFields
    <3> HIDE DEF i
    <3>2. ~Committing /\ DOMAIN code.as = Sites
      BY <2>1, <3>1 DEF Committing, CodeShape
    <3>3. ASSUME code'.plan = RemoveEdit(code.plan, i),
                 code'.as = [code.as EXCEPT ![i] = Site(i).kind],
                 code'.dropped = code.dropped \cup {i}, NEW j \in LowParts, Live(j)'
          PROVE  BaseRewritten(j)'
      <4>1. j # i /\ Live(j)
        BY <3>1, <3>3 DEF Live
      <4>2. BaseRewritten(j)
        BY <3>2, <4>1 DEF EditsInv
      <4>3. code'.as[j] = code.as[j]
        BY <2>3, <3>2, <3>3, <4>1
      <4>4. HasEdit(code'.plan, j)
        BY <3>3, <4>1, <4>2 DEF BaseRewritten, HasEdit, RemoveEdit
      <4> QED BY <4>2, <4>3, <4>4 DEF BaseRewritten
    <3> QED BY <2>3, <2>4, <3>1, <3>2, <3>3
  <2>10. CASE Retry
    <3>1. code' = UndoAligns(code) /\ pc = "verify"
      BY <2>10 DEF Retry, EndRound
    <3>2. /\ code'.plan = {e \in code.plan : e.reloc \notin code.applied}
          /\ code'.as = code.as /\ code'.dropped = code.dropped /\ code'.record = code.record
      BY <2>1, <3>1, UndoFields
    <3>3. ASSUME NEW j \in LowParts PROVE j \notin code.applied
      <4>1. Site(j).kind # "align"
        BY DEF LowParts
      <4> QED BY <2>1, <4>1 DEF CodeShape
    <3>4. \A j \in LowParts : HasEdit(code'.plan, j) <=> HasEdit(code.plan, j)
      BY <3>2, <3>3 DEF HasEdit
    <3>5. ~Committing
      BY <3>1 DEF Committing
    <3> QED BY <2>3, <3>2, <3>4, <3>5 DEF EditsInv, Live, BaseRewritten
  <2>11. CASE CommitSection
    BY <2>11 DEF CommitSection, Committing
  <2> QED BY <2>5, <2>6, <2>7, <2>8, <2>9, <2>10, <2>11 DEF Next
<1> QED BY <1>1, <1>2, ShapeHolds, RefInvHolds, PTL DEF Spec

------------------------------------------------------------------------------
\* The passes.

\* The passes have been at i.
Passed(i) == Relaxing => PassOf(i) < iteration \/ (PassOf(i) = iteration /\ i < cursor)

\* What is recorded of the high part of a pair is recorded of the low part as
\* well, or would be if the pass were there: in between only edits of the section
\* of the pair are made.
RecordedAlike(lo) ==
  LET hi == Site(lo).hi
  IN  /\ Passed(hi) /\ Passed(lo) /\ code.record[hi] # "none" => code.record[lo] = code.record[hi]
      /\ Passed(hi) /\ ~Passed(lo) /\ code.record[hi] # "none" => Verdict(code.plan, lo) = code.record[hi]
      /\ Passed(lo) /\ ~Passed(hi) /\ Verdict(code.plan, hi) # "none" =>
           code.record[lo] = Verdict(code.plan, hi)

AlikeInv == pc = "error" \/ \A lo \in Elsewhere : RecordedAlike(lo)

\* A relocation that a pass has skipped on the way to the cursor was not to be
\* relaxed, if it is the low part of a pair.
LEMMA SkippedLow ==
  ASSUME ShapeInv, ~Committing, NEW lo \in LowParts, NEW pass,
         pass = PassOf(lo), ~Handles(pass, lo)
  PROVE  ~Site(lo).relax
<1>1. /\ link \in Links /\ EncodingsFit(code.encoding) /\ lo \in Sites
      /\ Site(lo).kind \in {"lo12", "pcrel_lo"}
  BY DEF ShapeInv, Pending, LowParts
<1>2. code.encoding[lo] = Site(lo).kind
  BY <1>1 DEF EncodingsFit
<1>3. CASE Site(lo).kind = "pcrel_lo"
  BY <1>2, <1>3 DEF Handles, PassOf
<1>4. CASE Site(lo).kind = "lo12"
  BY <1>2, <1>4 DEF Handles, PassOf
<1> QED BY <1>1, <1>3, <1>4

\* The pairs considered depend on the link alone.
LEMMA ElsewhereSame ==
  ASSUME UNCHANGED link
  PROVE  /\ Elsewhere' = Elsewhere
         /\ \A i : Site(i)' = Site(i) /\ TargetSection(i)' = TargetSection(i)
<1>1. \A i : Site(i)' = Site(i)
  BY DEF Site
<1>2. \A i : TargetSection(i)' = TargetSection(i)
  BY <1>1 DEF TargetSection
<1>3. LowParts' = LowParts
  BY <1>1 DEF LowParts, Sites
<1>4. \A lo : FitsWithHigh(lo)' = FitsWithHigh(lo)
  BY <1>1, <1>2, SectionsStay DEF FitsWithHigh
<1> QED BY <1>1, <1>2, <1>3, <1>4 DEF Elsewhere

\* The definitions of this part depend on the link, the layout, the code and the loop.
LEMMA PairsStay ==
  ASSUME UNCHANGED <<link, addr>>
  PROVE  /\ Sites' = Sites /\ LowParts' = LowParts /\ Elsewhere' = Elsewhere
         /\ \A i : Site(i)' = Site(i) /\ PassOf(i)' = PassOf(i)
         /\ \A plan, i : Verdict(plan, i)' = Verdict(plan, i)
<1>1. /\ Sites' = Sites /\ \A i : Site(i)' = Site(i) /\ PassOf(i)' = PassOf(i)
      /\ GP' = GP
  BY DEF Sites, Site, PassOf, GP, GPBehind
<1>2. LowParts' = LowParts
  BY <1>1 DEF LowParts
<1>3. Elsewhere' = Elsewhere /\ \A i : TargetSection(i)' = TargetSection(i)
  BY ElsewhereSame
<1>4. \A i : DisabledForGP(i)' = DisabledForGP(i)
  BY <1>1 DEF DisabledForGP
<1> SUFFICES ASSUME NEW plan, NEW i
             PROVE  Verdict(plan, i)' = Verdict(plan, i)
  BY <1>1, <1>2, <1>3
<1>5. \A l : ValueOf(plan, l)' = ValueOf(plan, l)
  BY DEF ValueOf, PlanOf, Site
<1>6. /\ \A s : FitsInGPFrom(plan, i, s)' = FitsInGPFrom(plan, i, s)
      /\ FitsInGP(plan, i)' = FitsInGP(plan, i) /\ FitsZeroPage(plan, i)' = FitsZeroPage(plan, i)
  BY <1>1, <1>5, SectionsStay DEF FitsInGP, FitsInGPFrom, FitsZeroPage
<1>7. FitsInGPFrom(plan, i, TargetSection(i))' = FitsInGPFrom(plan, i, TargetSection(i))
  BY <1>3, <1>6
<1> QED BY <1>1, <1>4, <1>5, <1>6, <1>7 DEF Verdict

\* A visit of the pass of a pair.
LEMMA VisitAlike ==
  ASSUME ShapeInv, OrderInv, Visit, NEW lo \in Elsewhere, RecordedAlike(lo)
  PROVE  pc' = "error" \/ RecordedAlike(lo)'
<1> DEFINE pass == iteration
<1>1. /\ Decide(pass) /\ pc = "pass" /\ pc' \in {"pass", "error"}
  BY DEF Visit, Decide
<1> SUFFICES ASSUME pc' = "pass" PROVE RecordedAlike(lo)'
  BY <1>1
<1>2. PICK i \in Sites :
        /\ Handles(pass, i) /\ i >= cursor /\ cursor' = i + 1
        /\ \A j \in Sites : j >= cursor /\ Handles(pass, j) => i <= j
        /\ pass = PassOf(i) /\ UNCHANGED <<link, addr, iteration>>
        /\ EditsOnly(i, code')
        /\ \/ pass \in {1, 2} /\ RecordsVerdict(i, code') /\ i \notin Recorded
           \/ pass = 0 /\ RecordsCall(i, code') /\ i \notin Recorded
           \/ /\ pass = 4 /\ code'.record = code.record /\ code'.gps = code.gps
              /\ code'.calls = code.calls /\ code'.as = code.as
  BY <1>1, DecideRecords
<1>3. /\ link \in Links /\ DOMAIN code.record = Sites /\ iteration \in Nat /\ cursor \in Nat
      /\ Relaxing /\ Relaxing' /\ ~Committing
      /\ \A j \in Recorded : PassOf(j) < iteration \/ (PassOf(j) = iteration /\ j < cursor)
  BY <1>1 DEF ShapeInv, CodeShape, LoopShape, Relaxing, Committing, RELAXATION_PASS_COUNT
<1>4. PICK hi \in Sites :
        /\ hi = Site(lo).hi
        /\ lo \in LowParts /\ lo \in Sites /\ hi # lo
        /\ Site(hi).sect = Site(lo).sect
        /\ Site(hi).relax => Site(lo).relax
        /\ PassOf(hi) = PassOf(lo) /\ PassOf(lo) \in {1, 2}
  BY <1>3, PairIs DEF Elsewhere
<1>5. i \in Nat /\ lo \in Nat /\ hi \in Nat
  BY <1>3, <1>4, SiteNumbers
<1>6. /\ Site(lo)' = Site(lo) /\ \A j : PassOf(j)' = PassOf(j)
      /\ \A plan, j : Verdict(plan, j)' = Verdict(plan, j)
  BY <1>2, PairsStay
<1>7. \A j \in Sites : j # i => code'.record[j] = code.record[j]
  BY <1>2, <1>3 DEF RecordsVerdict, RecordsCall
<1>8. \A j \in Sites : code.record[j] # "none" => PassOf(j) < iteration \/ (PassOf(j) = iteration /\ j < cursor)
  BY <1>3 DEF Recorded
<1> HIDE DEF pass
<1>9. \A j : /\ Passed(j) <=> PassOf(j) < iteration \/ (PassOf(j) = iteration /\ j < cursor)
             /\ Passed(j)' <=> PassOf(j) < iteration \/ (PassOf(j) = iteration /\ j < i + 1)
  BY <1>2, <1>3, <1>6 DEF Passed
<1>10. CASE PassOf(lo) # iteration
  <2>1. (Passed(lo)' <=> Passed(lo)) /\ (Passed(hi)' <=> Passed(hi))
    BY <1>4, <1>9, <1>10
  <2>2. i # lo /\ i # hi
    BY <1>2, <1>4, <1>10 DEF pass
  <2>3. code'.record[lo] = code.record[lo] /\ code'.record[hi] = code.record[hi]
    BY <1>4, <1>7, <2>2
  <2>4. Passed(hi) <=> Passed(lo)
    BY <1>4, <1>9, <1>10
  <2> QED BY <1>4, <1>6, <2>1, <2>3, <2>4 DEF RecordedAlike
<1>11. CASE PassOf(lo) = iteration
  <2>1. /\ Passed(lo) <=> lo < cursor
        /\ Passed(hi) <=> hi < cursor
        /\ Passed(lo)' <=> lo <= i
        /\ Passed(hi)' <=> hi <= i
    BY <1>3, <1>4, <1>5, <1>9, <1>11
  <2>2. lo >= cursor /\ lo < i => ~Site(lo).relax /\ ~Site(hi).relax
    <3>1. lo >= cursor /\ lo < i => ~Handles(pass, lo)
      BY <1>2, <1>4, <1>5
    <3> QED BY <1>3, <1>4, <1>11, <3>1, SkippedLow DEF pass
  <2>3. hi >= cursor => code.record[hi] = "none"
    BY <1>3, <1>4, <1>5, <1>8, <1>11
  <2>4. \A plan, j : ~Site(j).relax => Verdict(plan, j) = "none"
    BY DEF Verdict
  <2>5. pass \in {1, 2} /\ RecordsVerdict(i, code')
    BY <1>2, <1>4, <1>11 DEF pass
  <2>6. code.record[i] = "none"
    BY <1>2, <1>4, <1>11 DEF pass, Recorded
  <2>7. code'.record[i] = Verdict(code.plan, i)
    BY <1>2, <1>3, <2>5, <2>6 DEF RecordsVerdict
  <2>8. Verdict(code.plan, hi) # "none" => Verdict(code.plan, lo) = Verdict(code.plan, hi)
    <3>1. link \in Links /\ addr \in [Sections -> Int] /\ PlanFits(code.plan)
      BY <1>3 DEF ShapeInv, CodeShape, LoopShape
    <3> QED BY <1>4, <3>1, HalvesAgree
  <2>9. Site(i).sect = Site(lo).sect =>
          /\ Verdict(code'.plan, lo) = Verdict(code.plan, lo)
          /\ Verdict(code'.plan, hi) = Verdict(code.plan, hi)
    BY <1>2, <1>3, <1>4, ElsewhereStays DEF EditsOnly
  <2>10. /\ lo <= i /\ hi <= i /\ code'.record[hi] # "none" => code'.record[lo] = code'.record[hi]
         /\ hi <= i /\ ~(lo <= i) /\ code'.record[hi] # "none" => Verdict(code'.plan, lo) = code'.record[hi]
         /\ lo <= i /\ ~(hi <= i) /\ Verdict(code'.plan, hi) # "none" =>
              code'.record[lo] = Verdict(code'.plan, hi)
    <3>1. /\ lo < cursor /\ hi < cursor /\ code.record[hi] # "none" => code.record[lo] = code.record[hi]
          /\ hi < cursor /\ ~(lo < cursor) /\ code.record[hi] # "none" => Verdict(code.plan, lo) = code.record[hi]
          /\ lo < cursor /\ ~(hi < cursor) /\ Verdict(code.plan, hi) # "none" =>
               code.record[lo] = Verdict(code.plan, hi)
      BY <1>4, <2>1 DEF RecordedAlike
    <3>2. CASE i = hi
      <4>1. code'.record[hi] = Verdict(code.plan, hi) /\ code'.record[lo] = code.record[lo]
        BY <1>4, <1>7, <2>7, <3>2
      <4>2. cursor <= hi
        BY <1>2, <3>2
      <4>3. Site(i).sect = Site(lo).sect
        BY <1>4, <3>2
      <4> QED BY <1>3, <1>4, <1>5, <2>2, <2>4, <2>8, <2>9, <3>1, <3>2, <4>1, <4>2, <4>3
    <3>3. CASE i = lo
      <4>1. code'.record[lo] = Verdict(code.plan, lo) /\ code'.record[hi] = code.record[hi]
        BY <1>4, <1>7, <2>7, <3>3
      <4>2. cursor <= lo
        BY <1>2, <3>3
      <4>3. Site(i).sect = Site(lo).sect
        BY <3>3
      <4> QED BY <1>3, <1>4, <1>5, <2>3, <2>8, <2>9, <3>1, <3>3, <4>1, <4>2, <4>3
    <3>4. CASE i # hi /\ i # lo
      <4>1. code'.record[lo] = code.record[lo] /\ code'.record[hi] = code.record[hi]
        BY <1>4, <1>7, <3>4
      <4>3. cursor <= i
        BY <1>2
      <4> DEFINE same == Site(i).sect = Site(lo).sect
      <4>4. /\ Verdict(code.plan, lo) = Verdict(code'.plan, lo) \/ ~same
            /\ Verdict(code.plan, hi) = Verdict(code'.plan, hi) \/ ~same
        BY <2>9
      <4> HIDE DEF same
      <4>5. /\ hi < cursor /\ i < lo => same
            /\ lo < cursor /\ i < hi => same
        <5>1. ASSUME hi < cursor, i < lo PROVE same
          <6>1. hi < i
            BY <1>3, <1>5, <4>3, <5>1
          <6>2. Site(i).sect = Site(hi).sect
            BY <1>3, <1>4, <5>1, <6>1, SectionAtOnce
          <6> QED BY <1>4, <6>2 DEF same
        <5>2. ASSUME lo < cursor, i < hi PROVE same
          <6>1. lo < i
            BY <1>3, <1>5, <4>3, <5>2
          <6>2. Site(i).sect = Site(lo).sect
            BY <1>3, <1>4, <5>2, <6>1, SectionAtOnce
          <6> QED BY <6>2 DEF same
        <5> QED BY <5>1, <5>2
      <4>6. lo <= i /\ hi <= i /\ code.record[hi] # "none" => code.record[lo] = code.record[hi]
        <5>1. lo >= cursor => lo < i \/ ~(lo <= i)
          BY <1>5, <3>4
        <5> QED BY <1>3, <1>5, <2>2, <2>3, <2>4, <3>1, <5>1
      <4>7. hi <= i /\ ~(lo <= i) /\ code.record[hi] # "none" => Verdict(code'.plan, lo) = code.record[hi]
        BY <1>3, <1>5, <2>3, <3>1, <4>3, <4>4, <4>5
      <4>8. ASSUME lo <= i, ~(hi <= i), Verdict(code'.plan, hi) # "none"
            PROVE  code.record[lo] = Verdict(code'.plan, hi)
        <5>1. CASE lo < cursor
          <6>1. Verdict(code.plan, hi) = Verdict(code'.plan, hi)
            BY <1>5, <4>4, <4>5, <4>8, <5>1
          <6>2. ~(hi < cursor)
            BY <1>3, <1>5, <4>3, <4>8
          <6> QED BY <3>1, <4>8, <5>1, <6>1, <6>2
        <5>2. CASE ~(lo < cursor)
          <6>1. ~Site(hi).relax
            BY <1>3, <1>5, <2>2, <3>4, <4>8, <5>2
          <6> QED BY <2>4, <4>8, <6>1
        <5> QED BY <5>1, <5>2
      <4> QED BY <4>1, <4>6, <4>7, <4>8
    <3> QED BY <3>2, <3>3, <3>4
  <2> QED BY <1>4, <1>6, <2>1, <2>10 DEF RecordedAlike
<1> QED BY <1>10, <1>11

\* What is recorded of the high part is recorded of the low part.
LEMMA AlikeHolds == Spec => []AlikeInv
<1>1. Init => AlikeInv
  <2> SUFFICES ASSUME Init, NEW lo \in Elsewhere PROVE RecordedAlike(lo)
    BY DEF AlikeInv
  <2>1. /\ link \in Links /\ iteration = 0 /\ cursor = 1 /\ pc = "layout"
    BY DEF Init
  <2>2. Site(lo).hi \in Sites /\ PassOf(Site(lo).hi) \in {1, 2} /\ PassOf(lo) \in {1, 2}
    BY <2>1, PairIs DEF Elsewhere
  <2>3. ~Passed(lo) /\ ~Passed(Site(lo).hi)
    BY <2>1, <2>2 DEF Passed, Relaxing
  <2> QED BY <2>3 DEF RecordedAlike
<1>2. AlikeInv /\ OrderInv /\ ShapeInv /\ RefInv /\ [Next]_vars => AlikeInv'
  <2> SUFFICES ASSUME AlikeInv, OrderInv, ShapeInv, RefInv, [Next]_vars,
                      pc' # "error", NEW lo \in Elsewhere'
               PROVE  RecordedAlike(lo)'
    BY DEF AlikeInv
  <2>1. /\ link \in Links /\ DOMAIN code = Fields /\ iteration \in Nat /\ cursor \in Nat
        /\ Committing \/ Pending(code)
    BY DEF ShapeInv, CodeShape, LoopShape, RELAXATION_PASS_COUNT
  <2>2. UNCHANGED link
    BY DEF Next, Converge, EndPass, Finish, EndRedecision, StartRound, GiveUp, Sync, Commit,
           Retry, EndRound, Visit, Redecide, Decide, Verify, CommitSection, vars
  <2>3. Site(lo)' = Site(lo) /\ lo \in Elsewhere /\ \A j : PassOf(j)' = PassOf(j)
    BY <2>2, ElsewhereSame DEF PassOf
  <2>4. PICK hi \in Sites :
          /\ hi = Site(lo).hi
          /\ lo \in LowParts /\ lo \in Sites /\ hi # lo
          /\ Site(hi).relax => Site(lo).relax
          /\ PassOf(hi) = PassOf(lo) /\ PassOf(lo) \in {1, 2}
          /\ lo \in Nat \ {0} /\ hi \in Nat \ {0}
    BY <2>1, <2>3, PairIs, SiteNumbers DEF Elsewhere
  <2>5. pc # "error" => RecordedAlike(lo)
    BY <2>3 DEF AlikeInv
  <2>6. ASSUME pc # "error", Passed(lo), Passed(hi), Passed(lo)', Passed(hi)',
               code'.record = code.record
        PROVE  RecordedAlike(lo)'
    BY <2>3, <2>4, <2>5, <2>6 DEF RecordedAlike
  <2>7. ASSUME ~Passed(lo)', ~Passed(hi)'
        PROVE  RecordedAlike(lo)'
    BY <2>3, <2>4, <2>7 DEF RecordedAlike
  <2>8. ASSUME ~Relaxing, ~Relaxing', pc # "error", code'.record = code.record
        PROVE  RecordedAlike(lo)'
    BY <2>6, <2>8 DEF Passed
  <2>9. CASE Converge
    <3>1. /\ UNCHANGED <<link, code, iteration, cursor>> /\ pc \in {"layout", "resettle"}
          /\ pc' = IF pc = "layout" THEN "pass" ELSE "settle"
      BY <2>9 DEF Converge
    <3>2. CASE pc = "layout"
      <4>1. cursor = 1 /\ Relaxing /\ Relaxing'
        BY <3>1, <3>2 DEF OrderInv, Relaxing
      <4>2. /\ Passed(lo) <=> PassOf(lo) < iteration
            /\ Passed(hi) <=> PassOf(hi) < iteration
            /\ Passed(lo)' <=> Passed(lo)
            /\ Passed(hi)' <=> Passed(hi)
        BY <2>3, <2>4, <3>1, <4>1 DEF Passed
      <4> QED BY <2>4, <2>6, <2>7, <3>1, <3>2, <4>2
    <3>3. CASE pc = "resettle"
      BY <2>8, <3>1, <3>3 DEF Relaxing
    <3> QED BY <3>1, <3>2, <3>3
  <2>10. CASE Visit
    BY <2>3, <2>5, <2>10, VisitAlike DEF Visit
  <2>11. CASE EndPass
    <3>1. /\ UNCHANGED <<link, code, addr>> /\ pc = "pass" /\ pc' = "layout"
          /\ iteration' = iteration + 1 /\ cursor' = 1 /\ ToVisit(iteration) = {}
      BY <2>11 DEF EndPass
    <3>2. /\ Relaxing /\ Relaxing' /\ ~Committing
      BY <3>1 DEF Relaxing, Committing
    <3>3. /\ Passed(lo) <=> PassOf(lo) < iteration \/ (PassOf(lo) = iteration /\ lo < cursor)
          /\ Passed(hi) <=> PassOf(hi) < iteration \/ (PassOf(hi) = iteration /\ hi < cursor)
          /\ Passed(lo)' <=> PassOf(lo) < iteration + 1
          /\ Passed(hi)' <=> PassOf(hi) < iteration + 1
      BY <2>1, <2>3, <2>4, <3>1, <3>2 DEF Passed
    <3>4. CASE PassOf(lo) < iteration
      BY <2>1, <2>4, <2>6, <3>1, <3>3, <3>4
    <3>5. CASE PassOf(lo) > iteration
      BY <2>1, <2>4, <2>7, <3>3, <3>5
    <3>6. CASE PassOf(lo) = iteration
      <4>1. lo >= cursor => ~Site(lo).relax /\ ~Site(hi).relax
        <5>1. lo >= cursor => ~Handles(iteration, lo)
          BY <2>4, <3>1 DEF ToVisit
        <5> QED BY <2>4, <3>2, <3>6, <5>1, SkippedLow
      <4>2. hi >= cursor => code.record[hi] = "none"
        <5>1. \A j \in Recorded : PassOf(j) < iteration \/ (PassOf(j) = iteration /\ j < cursor)
          BY <3>2 DEF ShapeInv, LoopShape
        <5> QED BY <2>1, <2>4, <3>6, <5>1 DEF Recorded
      <4>3. \A plan, j : ~Site(j).relax => Verdict(plan, j) = "none"
        BY DEF Verdict
      <4>4. code.record[hi] # "none" => code.record[lo] = code.record[hi]
        <5>1. CASE hi >= cursor
          BY <4>2, <5>1
        <5>2. CASE hi < cursor /\ lo < cursor
          BY <2>4, <2>5, <3>1, <3>3, <3>6, <5>2 DEF RecordedAlike
        <5>3. CASE hi < cursor /\ lo >= cursor
          <6>1. Passed(hi) /\ ~Passed(lo)
            BY <2>1, <2>4, <3>3, <3>6, <5>3
          <6>2. code.record[hi] # "none" => Verdict(code.plan, lo) = code.record[hi]
            BY <2>4, <2>5, <3>1, <6>1 DEF RecordedAlike
          <6> QED BY <4>1, <4>3, <5>3, <6>2
        <5> QED BY <2>1, <2>4, <5>1, <5>2, <5>3
      <4>5. Passed(lo)' /\ Passed(hi)'
        BY <2>1, <2>4, <3>3, <3>6
      <4> QED BY <2>3, <2>4, <3>1, <4>4, <4>5 DEF RecordedAlike
    <3> QED BY <2>1, <2>4, <3>4, <3>5, <3>6
  <2>12. CASE Finish
    <3>1. /\ UNCHANGED code /\ pc = "pass" /\ pc' = "settle" /\ LeavesAtOnce
      BY <2>12 DEF Finish
    <3>2. iteration >= 3
      BY <2>1, <3>1 DEF LeavesAtOnce, RELAXATION_TLSDESC, RELAXATION_PASS_COUNT
    <3>3. Passed(lo) /\ Passed(hi) /\ Passed(lo)' /\ Passed(hi)'
      BY <2>1, <2>4, <3>1, <3>2 DEF Passed, Relaxing
    <3> QED BY <2>6, <3>1, <3>3
  <2>13. CASE Redecide
    <3>1. /\ Decide(RELAXATION_ALIGN) /\ pc = "settle" /\ pc' = "settle"
      BY <2>13 DEF Redecide, Decide
    <3>2. code'.record = code.record
      BY <3>1, DecideRecords DEF RELAXATION_ALIGN
    <3> QED BY <2>8, <3>1, <3>2 DEF Relaxing
  <2>14. CASE EndRedecision \/ StartRound \/ GiveUp
    BY <2>8, <2>14 DEF EndRedecision, StartRound, GiveUp, Relaxing
  <2>15. CASE Verify
    BY <2>8, <2>15, VerifyFields DEF Relaxing
  <2>16. CASE Retry
    <3>1. code' = UndoAligns(code) /\ pc = "verify" /\ pc' = "resettle"
      BY <2>16 DEF Retry, EndRound
    <3> QED BY <2>1, <2>8, <3>1, UndoFields DEF Relaxing
  <2>17. CASE Sync \/ Commit
    BY <2>8, <2>17 DEF Sync, Commit, EndRound, Relaxing
  <2>18. CASE CommitSection
    <3>1. pc = "commit" /\ pc' \in {"commit", "committed"}
      BY <2>18 DEF CommitSection
    <3> QED BY <2>1, <2>8, <2>18, <3>1, CommitFields DEF Relaxing
  <2>19. CASE UNCHANGED vars
    <3>1. UNCHANGED <<link, addr, code, iteration, cursor, pc>>
      BY <2>19 DEF vars
    <3>2. /\ \A j : Passed(j)' = Passed(j)
          /\ \A plan, j : Verdict(plan, j)' = Verdict(plan, j)
      BY <2>3, <3>1, PairsStay DEF Passed, Relaxing
    <3> QED BY <2>3, <2>5, <3>1, <3>2 DEF RecordedAlike
  <2> QED BY <2>9, <2>10, <2>11, <2>12, <2>13, <2>14, <2>15, <2>16, <2>17, <2>18, <2>19 DEF Next
<1> QED BY <1>1, <1>2, OrderHolds, ShapeHolds, RefInvHolds, PTL DEF Spec

------------------------------------------------------------------------------
\* The rounds.

\* The calls are verified before the accesses, and these in the order of the passes.
LEMMA RecordPlaces ==
  ASSUME ShapeInv, OrderInv
  PROVE  /\ Len(Records) \in Nat
         /\ \A k \in 1..Len(Records) : Records[k] \in Sites /\ Records[k] \in Recorded
         /\ \A i \in Recorded : \E k \in 1..Len(Records) : Records[k] = i
         /\ \A j, k \in 1..Len(Records) : Records[j] = Records[k] => j = k
         /\ \A j, k \in 1..Len(Records) :
              j < k /\ Records[j] \in GPSites => Earlier(Records[j], Records[k])
<1> DEFINE m == Len(code.calls)
           n == Len(code.gps)
<1>1. Records \in Seq(Recorded) /\ ToSet(Records) = Recorded /\ IsInjective(Records)
  BY RecordsAre
<1>2. /\ code.calls \in Seq(Recorded) /\ code.gps \in Seq(Recorded)
      /\ m \in Nat /\ n \in Nat /\ DOMAIN code.calls = 1..m /\ DOMAIN code.gps = 1..n
  BY RecordedFinite DEF ShapeInv, ListShape
<1>3. /\ Len(Records) \in Nat /\ DOMAIN Records = 1..Len(Records)
      /\ \A k \in 1..Len(Records) : Records[k] \in Recorded
  BY <1>1
<1>4. Recorded \subseteq Sites
  BY DEF Recorded
<1>5. \A i \in Recorded : \E k \in 1..Len(Records) : Records[k] = i
  BY <1>1, <1>3 DEF ToSet
<1>6. \A j, k \in 1..Len(Records) : Records[j] = Records[k] => j = k
  BY <1>1, <1>3 DEF IsInjective
<1>7. /\ Len(Records) = m + n
      /\ \A k \in 1..m + n : Records[k] = IF k <= m THEN code.calls[k] ELSE code.gps[k - m]
  <2>1. Len(code.calls \o code.gps) = m + n
    BY <1>2
  <2>2. \A k \in 1..m + n : (code.calls \o code.gps)[k] = IF k <= m THEN code.calls[k] ELSE code.gps[k - m]
    BY <1>2
  <2> QED BY <2>1, <2>2 DEF Records
<1> HIDE DEF m, n
<1>8. ASSUME NEW j \in 1..Len(Records), NEW k \in 1..Len(Records), j < k, Records[j] \in GPSites
      PROVE  Earlier(Records[j], Records[k])
  <2>1. ~(j <= m)
    <3> SUFFICES ASSUME j <= m PROVE FALSE
      OBVIOUS
    <3>1. j \in DOMAIN code.calls /\ Records[j] = code.calls[j]
      BY <1>2, <1>7
    <3>2. Site(Records[j]).kind = "call"
      BY <3>1 DEF OrderInv, ListOrder
    <3> QED BY <1>8, <3>2 DEF GPSites
  <2>2. /\ Records[j] = code.gps[j - m] /\ Records[k] = code.gps[k - m]
        /\ j - m \in DOMAIN code.gps /\ k - m \in DOMAIN code.gps /\ j - m < k - m
    BY <1>2, <1>7, <1>8, <2>1
  <2>3. \A x, y \in DOMAIN code.gps : x < y => Earlier(code.gps[x], code.gps[y])
    BY DEF OrderInv, ListOrder
  <2> QED BY <2>2, <2>3
<1> QED BY <1>3, <1>4, <1>5, <1>6, <1>8

\* What is verified between the halves of a pair lies in their section.
LEMMA VerifiedBetween ==
  ASSUME ShapeInv, OrderInv,
         NEW p \in 1..Len(Records), NEW q \in 1..Len(Records), NEW r \in 1..Len(Records),
         p < q, q < r, Records[p] \in GPSites, PassOf(Records[p]) = PassOf(Records[r]),
         Site(Records[p]).sect = Site(Records[r]).sect
  PROVE  Site(Records[q]).sect = Site(Records[p]).sect
<1> DEFINE x == Records[p]
           y == Records[q]
           z == Records[r]
<1>1. /\ link \in Links /\ x \in Sites /\ y \in Sites /\ z \in Sites
  BY RecordPlaces DEF ShapeInv
<1>2. /\ x \in Nat /\ y \in Nat /\ z \in Nat
      /\ PassOf(x) \in Nat /\ PassOf(y) \in Nat /\ PassOf(z) \in Nat
      /\ PassOf(x) = PassOf(z) /\ Site(x).sect = Site(z).sect
  <2>1. \A i \in Sites : i \in Nat /\ PassOf(i) \in Nat
    BY <1>1, SiteNumbers
  <2> QED BY <1>1, <2>1
<1>3. Earlier(x, y)
  BY RecordPlaces
<1>4. PassOf(y) \in {1, 2} => y \in GPSites
  BY <1>1, SiteNumbers
<1>5. y \in GPSites => Earlier(y, z)
  BY RecordPlaces
<1>6. PassOf(x) \in {1, 2}
  BY <1>1, SiteNumbers
<1>7. y \in GPSites
  <2>1. PassOf(y) # 0
    BY <1>2, <1>3, <1>6 DEF Earlier
  <2>2. Site(y).kind # "align"
    BY RecordPlaces, RecordedFinite DEF ShapeInv, CodeShape
  <2>3. Site(y).kind \in {"call", "pcrel_hi", "pcrel_lo", "hi20", "lo12", "align"}
    BY <1>1, SiteFacts
  <2>4. Site(y).kind # "call"
    BY <1>1, <2>1, SiteNumbers
  <2> QED BY <1>1, <2>2, <2>3, <2>4 DEF GPSites
<1> HIDE DEF x, y, z
<1>8. x < y /\ y < z
  BY <1>2, <1>3, <1>5, <1>7 DEF Earlier
<1>9. Site(y).sect = Site(x).sect
  BY <1>1, <1>2, <1>8, SectionAtOnce
<1> QED BY <1>9 DEF x, y

\* The round has been at i.
Checked(i) == pc = "verify" /\ \E k \in 1..Len(Records) : k < cursor /\ Records[k] = i

\* When the high part of a pair stands, its low part does: between rounds, and
\* within a round for the halves that it has been at.
DroppedAlike(lo) ==
  LET hi == Site(lo).hi
  IN  Live(hi) =>
        /\ (Checked(hi) <=> Checked(lo)) => lo \notin code.dropped
        /\ Checked(hi) /\ ~Checked(lo) => lo \notin code.dropped /\ Fits(code.plan, hi)
        /\ Checked(lo) /\ ~Checked(hi) /\ lo \in code.dropped => ~Fits(code.plan, hi)

StandsAlike(lo) == Live(Site(lo).hi) => lo \notin code.dropped

DropInv ==
  \/ pc = "error"
  \/ /\ Relaxing => code.dropped = {}
     /\ pc # "verify" => \A lo \in Elsewhere : StandsAlike(lo)
     /\ pc = "verify" => \A lo \in Elsewhere : DroppedAlike(lo)

\* What is recorded of both halves of a pair when the passes are over.
LEMMA BothRecorded ==
  ASSUME ShapeInv, OrderInv, AlikeInv, pc # "error", ~Relaxing,
         NEW lo \in Elsewhere, Live(Site(lo).hi)
  PROVE  LET hi == Site(lo).hi
         IN  /\ hi \in Recorded /\ lo \in Recorded
             /\ code.record[hi] \in GPKinds /\ code.record[lo] = code.record[hi]
<1> DEFINE hi == Site(lo).hi
<1>1. link \in Links
  BY DEF ShapeInv
<1>2. /\ lo \in Sites /\ hi \in Sites /\ PassOf(hi) = PassOf(lo) /\ PassOf(lo) \in {1, 2}
  BY <1>1, PairIs DEF Elsewhere
<1>3. RecordedAlike(lo) /\ Passed(lo) /\ Passed(hi)
  BY DEF AlikeInv, Passed
<1>4. code.record[hi] # "none"
  BY DEF Live
<1>5. code.record[lo] = code.record[hi]
  BY <1>3, <1>4 DEF RecordedAlike
<1>6. hi \in GPSites
  BY <1>1, <1>2, SiteNumbers
<1>7. code.record[hi] \in GPKinds
  BY <1>4, <1>6 DEF OrderInv, ListOrder
<1> HIDE DEF hi
<1>8. hi \in Recorded /\ lo \in Recorded
  BY <1>2, <1>4, <1>5 DEF Recorded
<1> QED BY <1>5, <1>7, <1>8 DEF hi

\* A round that is over has been at everything recorded.
LEMMA AllChecked ==
  ASSUME ShapeInv, OrderInv, pc = "verify", cursor > Len(Records), NEW i \in Recorded
  PROVE  Checked(i)
<1>1. PICK k \in 1..Len(Records) : Records[k] = i
  BY RecordPlaces
<1>2. cursor \in Nat /\ Len(Records) \in Nat
  BY RecordPlaces DEF ShapeInv, LoopShape
<1>3. k < cursor
  BY <1>2
<1> QED BY <1>1, <1>3 DEF Checked

\* A step that leaves the records and what was dropped alone.
LEMMA DropStays ==
  ASSUME UNCHANGED link, code'.record = code.record, code'.dropped = code.dropped,
         NEW lo, StandsAlike(lo)
  PROVE  StandsAlike(lo)'
<1>1. Site(lo)' = Site(lo)
  BY DEF Site
<1> QED BY <1>1 DEF StandsAlike, Live

\* A step of a round keeps what stands of the pairs alike.
LEMMA VerifyAlike ==
  ASSUME ShapeInv, RefInv, OrderInv, AlikeInv, Verify, NEW lo \in Elsewhere, DroppedAlike(lo)
  PROVE  DroppedAlike(lo)'
<1> DEFINE x == Records[cursor]
           drops == x \notin code.dropped /\ ~Fits(code.plan, x)
<1>1. /\ UNCHANGED <<link, addr, pc>> /\ cursor' = cursor + 1 /\ pc = "verify"
      /\ x \in Recorded /\ cursor \in 1..Len(Records)
      /\ code'.calls = code.calls /\ code'.gps = code.gps /\ code'.record = code.record
      /\ \/ drops /\ code'.plan = RemoveEdit(code.plan, x) /\ code'.dropped = code.dropped \cup {x}
         \/ ~drops /\ code'.plan = code.plan /\ code'.dropped = code.dropped
  BY VerifyFields
<1>2. PICK hi \in Sites :
        /\ hi = Site(lo).hi
        /\ lo \in LowParts /\ lo \in Sites /\ hi # lo
        /\ Site(hi).sect = Site(lo).sect
        /\ PassOf(hi) = PassOf(lo) /\ lo \in GPSites /\ hi \in GPSites
  <2>1. link \in Links
    BY DEF ShapeInv
  <2> QED BY <2>1, PairIs, SiteNumbers DEF Elsewhere
<1>3. Site(lo)' = Site(lo) /\ Records' = Records
  BY <1>1 DEF Site, Records
<1>4. link \in Links /\ Len(Records) \in Nat /\ cursor \in Nat /\ ~Relaxing /\ pc # "error"
  BY <1>1, RecordPlaces DEF ShapeInv, LoopShape, Relaxing
<1> SUFFICES ASSUME Live(hi)'
             PROVE  /\ (Checked(hi)' <=> Checked(lo)') => lo \notin code'.dropped
                    /\ Checked(hi)' /\ ~Checked(lo)' => lo \notin code'.dropped /\ Fits(code.plan, hi)'
                    /\ Checked(lo)' /\ ~Checked(hi)' /\ lo \in code'.dropped => ~Fits(code.plan, hi)'
  BY <1>2, <1>3 DEF DroppedAlike
<1>5. Live(hi) /\ hi \notin code'.dropped
  BY <1>1 DEF Live
<1>6. /\ (Checked(hi) <=> Checked(lo)) => lo \notin code.dropped
      /\ Checked(hi) /\ ~Checked(lo) => lo \notin code.dropped /\ Fits(code.plan, hi)
      /\ Checked(lo) /\ ~Checked(hi) /\ lo \in code.dropped => ~Fits(code.plan, hi)
  BY <1>2, <1>5 DEF DroppedAlike
<1>7. /\ hi \in Recorded /\ lo \in Recorded
      /\ code.record[hi] \in GPKinds /\ code.record[lo] = code.record[hi]
  BY <1>2, <1>4, <1>5, BothRecorded
<1>8. Fits(code.plan, lo) = Fits(code.plan, hi)
  BY <1>2, <1>4, <1>7, HalvesFit
<1>9. /\ \A plan, i : Fits(plan, i)' = Fits(plan, i)
      /\ Fits(code.plan, hi)' = Fits(code'.plan, hi)
  <2>1. \A plan, i : Fits(plan, i)' = Fits(plan, i)
    BY <1>1, FitsStays
  <2> QED BY <2>1
<1>10. Site(x).sect = Site(lo).sect => Fits(code'.plan, hi) = Fits(code.plan, hi)
  <2> SUFFICES ASSUME Site(x).sect = Site(lo).sect, code'.plan = RemoveEdit(code.plan, x)
               PROVE  Fits(code'.plan, hi) = Fits(code.plan, hi)
    BY <1>1
  <2>1. \A e : e.reloc # x => (e \in code'.plan <=> e \in code.plan)
    BY DEF RemoveEdit
  <2>2. DifferIn(Site(lo).sect, code.plan, code'.plan)
    BY <2>1, OneEdit
  <2> QED BY <1>2, <1>4, <1>7, <2>2, ElsewhereStays
<1>11. \A i : Checked(i)' <=> Checked(i) \/ i = x
  <2>1. \A k \in 1..Len(Records) : k < cursor + 1 <=> k < cursor \/ k = cursor
    BY <1>4
  <2> QED BY <1>1, <1>3, <2>1 DEF Checked
<1>12. ~Checked(x)
  <2> SUFFICES ASSUME NEW k \in 1..Len(Records), k < cursor, Records[k] = x
               PROVE  FALSE
    BY DEF Checked
  <2>1. k = cursor
    BY <1>1, RecordPlaces
  <2> QED BY <1>4, <2>1
<1>13. x # hi /\ x # lo /\ ~(Checked(hi) <=> Checked(lo)) => Site(x).sect = Site(lo).sect
  <2>1. ASSUME NEW y \in {hi, lo}, NEW z \in {hi, lo}, Checked(y), ~Checked(z), x # y, x # z
        PROVE  Site(x).sect = Site(lo).sect
    <3>1. PICK p \in 1..Len(Records) : p < cursor /\ Records[p] = y
      BY <2>1 DEF Checked
    <3>2. PICK r \in 1..Len(Records) : Records[r] = z
      BY <1>7, RecordPlaces
    <3>3. ~(r < cursor)
      BY <1>1, <2>1, <3>2 DEF Checked
    <3>4. r # cursor
      BY <2>1, <3>2
    <3>5. cursor < r
      BY <1>4, <3>3, <3>4
    <3>6. /\ y \in GPSites /\ PassOf(y) = PassOf(z)
          /\ Site(y).sect = Site(z).sect /\ Site(y).sect = Site(lo).sect
      BY <1>2
    <3>7. Site(Records[cursor]).sect = Site(Records[p]).sect
      BY <1>1, <3>1, <3>2, <3>5, <3>6, VerifiedBetween
    <3> QED BY <3>1, <3>6, <3>7
  <2> QED BY <2>1
<1> HIDE DEF x
<1>14. CASE x = hi
  <2>1. ~drops /\ code'.plan = code.plan /\ code'.dropped = code.dropped
    BY <1>1, <1>5, <1>14
  <2>2. hi \notin code.dropped /\ Fits(code.plan, hi)
    BY <1>5, <1>14, <2>1 DEF Live
  <2>3. Checked(hi)' /\ (Checked(lo)' <=> Checked(lo)) /\ ~Checked(hi)
    BY <1>2, <1>11, <1>12, <1>14
  <2> QED BY <1>6, <1>9, <2>1, <2>2, <2>3
<1>15. CASE x = lo
  <2>1. Checked(lo)' /\ (Checked(hi)' <=> Checked(hi)) /\ ~Checked(lo)
    BY <1>2, <1>11, <1>12, <1>15
  <2>2. lo \notin code.dropped
    BY <1>6, <2>1
  <2>3. lo \in code'.dropped => ~Fits(code.plan, hi)
    BY <1>1, <1>8, <1>15, <2>2
  <2>4. Fits(code.plan, hi)' = Fits(code.plan, hi)
    BY <1>9, <1>10, <1>15
  <2> QED BY <1>6, <2>1, <2>2, <2>3, <2>4
<1>16. CASE x # hi /\ x # lo
  <2>1. (Checked(hi)' <=> Checked(hi)) /\ (Checked(lo)' <=> Checked(lo))
    BY <1>11, <1>16
  <2>2. lo \in code'.dropped <=> lo \in code.dropped
    BY <1>1, <1>16
  <2>3. ~(Checked(hi) <=> Checked(lo)) => (Fits(code.plan, hi)' <=> Fits(code.plan, hi))
    BY <1>9, <1>10, <1>13, <1>16
  <2> QED BY <1>6, <2>1, <2>2, <2>3
<1> QED BY <1>14, <1>15, <1>16

\* When the high part of a pair stands, its low part does.
LEMMA DropHolds == Spec => []DropInv
<1>1. Init => DropInv
  <2> SUFFICES ASSUME Init PROVE DropInv
    OBVIOUS
  <2>1. code.dropped = {} /\ pc = "layout"
    BY DEF Init, InitialCode
  <2> QED BY <2>1 DEF DropInv, StandsAlike
<1>2. DropInv /\ AlikeInv /\ OrderInv /\ ShapeInv /\ RefInv /\ [Next]_vars => DropInv'
  <2> SUFFICES ASSUME DropInv, AlikeInv, OrderInv, ShapeInv, RefInv, [Next]_vars, pc' # "error"
               PROVE  /\ Relaxing' => code'.dropped = {}
                      /\ pc' # "verify" => \A lo \in Elsewhere' : StandsAlike(lo)'
                      /\ pc' = "verify" => \A lo \in Elsewhere' : DroppedAlike(lo)'
    BY DEF DropInv
  <2>1. DOMAIN code = Fields
    BY DEF ShapeInv, CodeShape
  <2>2. UNCHANGED link
    BY DEF Next, Converge, EndPass, Finish, EndRedecision, StartRound, GiveUp, Sync, Commit,
           Retry, EndRound, Visit, Redecide, Decide, Verify, CommitSection, vars
  <2>3. Elsewhere' = Elsewhere /\ \A i : Site(i)' = Site(i)
    BY <2>2, ElsewhereSame
  <2>4. ASSUME pc \notin {"verify", "error"}, pc' # "verify", Relaxing' => Relaxing,
               code'.record = code.record \/ Relaxing', code'.dropped = code.dropped
        PROVE  /\ Relaxing' => code'.dropped = {}
               /\ \A lo \in Elsewhere' : StandsAlike(lo)'
    <3>1. Relaxing' => code'.dropped = {}
      BY <2>4 DEF DropInv
    <3>2. CASE Relaxing'
      BY <3>1, <3>2 DEF StandsAlike
    <3>3. CASE code'.record = code.record
      BY <2>2, <2>3, <2>4, <3>3, DropStays DEF DropInv
    <3> QED BY <2>4, <3>1, <3>2, <3>3
  <2>5. CASE Converge \/ EndPass \/ Finish \/ EndRedecision
    <3>1. /\ UNCHANGED code /\ pc \notin {"verify", "error"} /\ pc' # "verify"
          /\ Relaxing' => Relaxing
      BY <2>5 DEF Converge, EndPass, Finish, EndRedecision, Relaxing
    <3> QED BY <2>4, <3>1
  <2>6. CASE GiveUp
    BY <2>6 DEF GiveUp
  <2>7. CASE Visit
    <3>1. Decide(iteration) /\ pc = "pass" /\ pc' = "pass"
      BY <2>7 DEF Visit, Decide
    <3>2. code'.dropped = code.dropped
      BY <3>1, DecideRecords
    <3> QED BY <2>4, <3>1, <3>2 DEF Relaxing
  <2>8. CASE Redecide
    <3>1. Decide(RELAXATION_ALIGN) /\ pc = "settle" /\ pc' = "settle"
      BY <2>8 DEF Redecide, Decide
    <3>2. code'.dropped = code.dropped /\ code'.record = code.record
      BY <3>1, DecideRecords DEF RELAXATION_ALIGN
    <3> QED BY <2>4, <3>1, <3>2 DEF Relaxing
  <2>9. CASE StartRound
    <3>1. UNCHANGED code /\ cursor' = 1 /\ pc = "settle" /\ pc' = "verify"
      BY <2>9 DEF StartRound
    <3>2. \A i : ~Checked(i)'
      BY <3>1 DEF Checked
    <3>3. ASSUME NEW lo \in Elsewhere PROVE DroppedAlike(lo)'
      <4>1. StandsAlike(lo)
        BY <3>1 DEF DropInv
      <4>2. StandsAlike(lo)'
        BY <2>2, <3>1, <4>1, DropStays
      <4> QED BY <3>2, <4>2 DEF DroppedAlike, StandsAlike
    <3> QED BY <2>3, <3>1, <3>3 DEF Relaxing
  <2>10. CASE Verify
    <3>1. pc = "verify" /\ pc' = "verify"
      BY <2>10 DEF Verify
    <3>2. \A lo \in Elsewhere : DroppedAlike(lo)'
      BY <2>10, <3>1, VerifyAlike DEF DropInv
    <3> QED BY <2>3, <3>1, <3>2 DEF Relaxing
  <2>11. CASE Retry \/ Sync \/ Commit
    <3>1. /\ pc = "verify" /\ cursor > Len(Records) /\ pc' \in {"resettle", "commit"}
          /\ code' = UndoAligns(code) \/ UNCHANGED code
      BY <2>11 DEF Retry, Sync, Commit, EndRound
    <3>2. code'.record = code.record /\ code'.dropped = code.dropped
      BY <2>1, <3>1, UndoFields
    <3>3. ASSUME NEW lo \in Elsewhere PROVE StandsAlike(lo)
      <4> SUFFICES ASSUME Live(Site(lo).hi) PROVE lo \notin code.dropped
        BY DEF StandsAlike
      <4>1. Site(lo).hi \in Recorded /\ lo \in Recorded
        BY <3>1, BothRecorded DEF Relaxing
      <4>2. Checked(Site(lo).hi) /\ Checked(lo)
        BY <3>1, <4>1, AllChecked
      <4>3. DroppedAlike(lo)
        BY <3>1 DEF DropInv
      <4> QED BY <4>2, <4>3 DEF DroppedAlike
    <3>4. \A lo \in Elsewhere : StandsAlike(lo)'
      BY <2>2, <3>2, <3>3, DropStays
    <3> QED BY <2>3, <3>1, <3>4 DEF Relaxing
  <2>12. CASE CommitSection
    <3>1. pc = "commit" /\ pc' \in {"commit", "committed"}
      BY <2>12 DEF CommitSection
    <3>2. code'.record = code.record /\ code'.dropped = code.dropped
      BY <2>1, <2>12, CommitFields
    <3> QED BY <2>4, <3>1, <3>2 DEF Relaxing
  <2>13. CASE UNCHANGED vars
    <3>1. UNCHANGED <<link, addr, code, cursor, pc>>
      BY <2>13 DEF vars
    <3>2. \A plan, i : Fits(plan, i)' = Fits(plan, i)
      BY <3>1, FitsStays
    <3>3. \A i : Checked(i)' <=> Checked(i)
      BY <3>1 DEF Checked, Records
    <3>4. \A lo \in Elsewhere : DroppedAlike(lo) => DroppedAlike(lo)'
      BY <2>3, <3>1, <3>2, <3>3 DEF DroppedAlike, Live
    <3>5. \A lo \in Elsewhere : StandsAlike(lo) => StandsAlike(lo)'
      BY <2>2, <3>1, DropStays
    <3>6. Relaxing' <=> Relaxing
      BY <3>1 DEF Relaxing
    <3> QED BY <2>3, <3>1, <3>4, <3>5, <3>6 DEF DropInv
  <2> QED BY <2>5, <2>6, <2>7, <2>8, <2>9, <2>10, <2>11, <2>12, <2>13 DEF Next
<1> QED BY <1>1, <1>2, AlikeHolds, OrderHolds, ShapeHolds, RefInvHolds, PTL DEF Spec

------------------------------------------------------------------------------
\* The commit.

\* The base is kept or rewritten, and what the commit of the section has still to
\* write of the two halves goes together.
Joined(lo) ==
  LET hi == Site(lo).hi
  IN  /\ KeepsBase(lo)
      /\ HasEdit(code.plan, hi) /\ code.as[hi] = "deleted" =>
           BaseRewritten(lo) /\ code.encoding[lo] = Site(lo).kind

JoinInv == Committing => \A lo \in Elsewhere : Joined(lo)

\* What a round without a rejection leaves is committed together.
LEMMA CommitJoins ==
  ASSUME ShapeInv, OrderInv, AlikeInv, EditsInv, DropInv, Commit, NEW lo \in Elsewhere
  PROVE  Joined(lo)'
<1> DEFINE hi == Site(lo).hi
<1>1. UNCHANGED <<link, code>> /\ pc = "verify" /\ cursor > Len(Records)
  BY DEF Commit, EndRound
<1>2. link \in Links /\ CodeShape(code) /\ EncodingsFit(code.encoding) /\ ~Committing
      /\ ~Relaxing /\ pc # "error"
  BY <1>1 DEF ShapeInv, Pending, Committing, Relaxing
<1>3. /\ lo \in LowParts /\ lo \in Sites /\ hi \in Sites
      /\ Site(hi).kind \in {"pcrel_hi", "hi20"} /\ Site(lo).kind \in {"lo12", "pcrel_lo"}
  BY <1>2, PairIs DEF Elsewhere
<1>4. code.encoding[hi] # "deleted" /\ code.encoding[lo] = Site(lo).kind
  BY <1>2, <1>3 DEF EncodingsFit
<1>5. ASSUME code.as[hi] = "deleted" PROVE BaseRewritten(lo)
  <2>1. hi \notin code.dropped /\ Verifiable("deleted", code.record[hi])
    BY <1>2, <1>3, <1>5 DEF CodeShape
  <2>2. Live(hi)
    BY <2>1 DEF Live, Verifiable
  <2>3. hi \in Recorded /\ lo \in Recorded
    BY <1>1, <1>2, <2>2, BothRecorded
  <2>4. Checked(hi) /\ Checked(lo)
    BY <1>1, <2>3, AllChecked
  <2>5. lo \notin code.dropped
    BY <1>1, <2>2, <2>4 DEF DropInv, DroppedAlike
  <2>6. Live(lo)
    BY <2>3, <2>5 DEF Live, Recorded
  <2> QED BY <1>2, <1>3, <2>6 DEF EditsInv
<1>6. Joined(lo)
  BY <1>4, <1>5 DEF Joined, KeepsBase
<1> QED BY <1>1, <1>6 DEF Joined, KeepsBase, BaseRewritten, Site

\* The two halves are written by the commit of one section.
LEMMA SectionJoins ==
  ASSUME ShapeInv, CommitSection, NEW lo \in Elsewhere, Joined(lo)
  PROVE  Joined(lo)'
<1> DEFINE part == PlanOf(code.plan, cursor)
<1>1. /\ UNCHANGED link /\ link \in Links /\ DOMAIN code = Fields
  BY DEF ShapeInv, CodeShape, CommitSection
<1>2. /\ code'.plan = code.plan \ part
      /\ code'.encoding = [i \in Sites |->
           IF HasEdit(part, i) /\ code.encoding[i] = Site(i).kind
           THEN code.as[i] ELSE code.encoding[i]]
      /\ code'.as = code.as
  BY <1>1, CommitFields
<1>3. PICK hi \in Sites :
        /\ hi = Site(lo).hi /\ lo \in Sites
        /\ Site(hi).sect = Site(lo).sect
        /\ Site(hi).kind \in {"pcrel_hi", "hi20"} /\ Site(lo).kind \in {"lo12", "pcrel_lo"}
  BY <1>1, PairIs DEF Elsewhere
<1>4. \A i : Site(i)' = Site(i)
  BY <1>1 DEF Site
<1>5. \A i : HasEdit(part, i) <=> HasEdit(code.plan, i) /\ Site(i).sect = cursor
  BY DEF HasEdit, PlanOf
<1>6. \A i : HasEdit(code'.plan, i) <=> HasEdit(code.plan, i) /\ Site(i).sect # cursor
  BY <1>2 DEF HasEdit, PlanOf
<1>7. /\ code.encoding[hi] = "deleted" => code.encoding[lo] \in {"gp", "zero"}
      /\ HasEdit(code.plan, hi) /\ code.as[hi] = "deleted" =>
           /\ HasEdit(code.plan, lo) /\ code.as[lo] \in {"gp", "zero"}
           /\ code.encoding[lo] = Site(lo).kind
  BY <1>3 DEF Joined, KeepsBase, BaseRewritten
<1> HIDE DEF part
<1>8. CASE Site(lo).sect = cursor
  <2>1. ~HasEdit(code'.plan, hi)
    BY <1>3, <1>6, <1>8
  <2>2. code'.encoding[hi] = "deleted" => code'.encoding[lo] \in {"gp", "zero"}
    BY <1>2, <1>3, <1>5, <1>7, <1>8
  <2> QED BY <1>3, <1>4, <2>1, <2>2 DEF Joined, KeepsBase
<1>9. CASE Site(lo).sect # cursor
  <2>1. code'.encoding[hi] = code.encoding[hi] /\ code'.encoding[lo] = code.encoding[lo]
    BY <1>2, <1>3, <1>5, <1>9
  <2>2. /\ HasEdit(code'.plan, hi) <=> HasEdit(code.plan, hi)
        /\ HasEdit(code'.plan, lo) <=> HasEdit(code.plan, lo)
    BY <1>3, <1>6, <1>9
  <2> QED BY <1>2, <1>3, <1>4, <1>7, <2>1, <2>2 DEF Joined, KeepsBase, BaseRewritten
<1> QED BY <1>8, <1>9

\* The commit keeps the halves together.
LEMMA JoinHolds == Spec => []JoinInv
<1>1. Init => JoinInv
  BY DEF Init, JoinInv, Committing
<1>2. JoinInv /\ DropInv /\ EditsInv /\ AlikeInv /\ OrderInv /\ ShapeInv /\ [Next]_vars => JoinInv'
  <2> SUFFICES ASSUME JoinInv, DropInv, EditsInv, AlikeInv, OrderInv, ShapeInv, [Next]_vars,
                      Committing', NEW lo \in Elsewhere'
               PROVE  Joined(lo)'
    BY DEF JoinInv
  <2>1. UNCHANGED link
    BY DEF Next, Converge, EndPass, Finish, EndRedecision, StartRound, GiveUp, Sync, Commit,
           Retry, EndRound, Visit, Redecide, Decide, Verify, CommitSection, vars
  <2>2. lo \in Elsewhere
    BY <2>1, ElsewhereSame
  <2>3. CASE Converge \/ EndPass \/ Finish \/ EndRedecision \/ StartRound \/ GiveUp \/ Sync \/ Retry
    BY <2>3 DEF Converge, EndPass, Finish, EndRedecision, StartRound, GiveUp, Sync, Retry, Committing
  <2>4. CASE Visit \/ Redecide \/ Verify
    BY <2>4 DEF Visit, Redecide, Decide, Verify, Committing
  <2>5. CASE Commit
    BY <2>2, <2>5, CommitJoins
  <2>6. CASE CommitSection
    <3>1. Joined(lo)
      BY <2>2, <2>6 DEF CommitSection, JoinInv, Committing
    <3> QED BY <2>2, <2>6, <3>1, SectionJoins
  <2>7. CASE UNCHANGED vars
    <3>1. UNCHANGED <<link, code, pc>>
      BY <2>7 DEF vars
    <3>2. Joined(lo)
      BY <2>2, <3>1 DEF JoinInv, Committing
    <3> QED BY <3>1, <3>2 DEF Joined, KeepsBase, BaseRewritten, Site
  <2> QED BY <2>3, <2>4, <2>5, <2>6, <2>7 DEF Next
<1> QED BY <1>1, <1>2, DropHolds, EditsHold, AlikeHolds, OrderHolds, ShapeHolds, PTL DEF Spec

\* An instruction that loads the upper part of an address in another section is
\* only deleted when the access through it was given another base, for all links
\* and all pairs whose low part is not asked to fit with more room than the high
\* part: the passes and the rounds come to the two halves apart, decide them with
\* different margins, and what is decided of the high part is decided of the low.
THEOREM PairsAgreeHold == Spec => []PairsAgreeElsewhere
<1>1. JoinInv => PairsAgreeElsewhere
  <2> SUFFICES ASSUME JoinInv, Committed, NEW lo \in LowParts,
                      Site(lo).to.sect # Site(lo).sect, FitsWithHigh(lo)
               PROVE  KeepsBase(lo)
    BY DEF PairsAgreeElsewhere
  <2>1. Committing /\ lo \in Elsewhere
    BY DEF Committed, Committing, Elsewhere
  <2> QED BY <2>1 DEF JoinInv, Joined
<1> QED BY <1>1, JoinHolds, PTL
===============================================================================
