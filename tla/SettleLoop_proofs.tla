--------------------------- MODULE SettleLoop_proofs ---------------------------
(***************************************************************************)
(* Proofs about SettleLoop: every round is paid for by a rejection, so the *)
(* settling never gives up when it is allowed two rounds for a candidate   *)
(* and one more.                                                           *)
(***************************************************************************)
EXTENDS SettleLoop, FiniteSetTheorems, TLAPS

\* The number of a set of candidates is a natural number, and one candidate
\* more makes one more.
LEMMA CandidateCount ==
  ASSUME IsFiniteSet(Candidates), NEW S \in SUBSET Candidates
  PROVE  /\ IsFiniteSet(S)
         /\ Cardinality(S) \in Nat
         /\ \A c \in Candidates \ S : Cardinality(S \cup {c}) = Cardinality(S) + 1
<1>1. IsFiniteSet(S)
  BY FS_Subset
<1>2. Cardinality(S) \in Nat
  BY <1>1, FS_CardinalityType
<1>3. \A c \in Candidates \ S : Cardinality(S \cup {c}) = Cardinality(S) + 1
  BY <1>1, FS_AddElement
<1> QED  BY <1>1, <1>2, <1>3

\* The variables keep their types.
THEOREM SettleTypeCorrect == Spec => []TypeOK
<1>1. Init => TypeOK
  <2> SUFFICES ASSUME Init
               PROVE  TypeOK
    OBVIOUS
  <2>1. rounds \in Nat
    BY DEF Init
  <2>2. changed \in BOOLEAN /\ unsynced \in BOOLEAN
    BY Zenon DEF Init
  <2> QED  BY <2>1, <2>2, Zenon DEF Init, TypeOK
<1>2. TypeOK /\ [Next]_vars => TypeOK'
  <2> SUFFICES ASSUME TypeOK, [Next]_vars
               PROVE  TypeOK'
    OBVIOUS
  <2>1. CASE Record
    BY <2>1 DEF TypeOK, Record
  <2>2. CASE Settle
    BY <2>2 DEF TypeOK, Settle
  <2>3. CASE StartRound
    <3>1. rounds' \in Nat
      BY <2>3 DEF TypeOK, StartRound
    <3>2. changed' \in BOOLEAN
      BY <2>3, Zenon DEF StartRound
    <3> QED  BY <2>3, <3>1, <3>2, Zenon DEF TypeOK, StartRound
  <2>4. CASE Reject
    BY <2>4 DEF TypeOK, Reject
  <2>5. CASE Retry \/ Sync \/ Commit
    BY <2>5 DEF TypeOK, Retry, Sync, Commit
  <2>6. CASE GiveUp \/ Abort
    BY <2>6 DEF TypeOK, GiveUp, Abort
  <2>7. CASE UNCHANGED vars
    BY <2>7 DEF TypeOK, vars
  <2> QED  BY <2>1, <2>2, <2>3, <2>4, <2>5, <2>6, <2>7 DEF Next
<1> QED  BY <1>1, <1>2, PTL DEF Spec

\* What is rejected was recorded, and is counted by RoundsPaidFor.
SettleInv ==
  /\ TypeOK
  /\ rejected \subseteq recorded
  /\ RoundsPaidFor

LEMMA SettleInvHolds ==
  ASSUME IsFiniteSet(Candidates)
  PROVE  Spec => []SettleInv
<1>1. Init => (rejected \subseteq recorded) /\ RoundsPaidFor
  <2> SUFFICES ASSUME Init
               PROVE  (rejected \subseteq recorded) /\ RoundsPaidFor
    OBVIOUS
  <2>1. Cardinality(rejected) = 0
    BY FS_EmptySet DEF Init
  <2>2. ~unsynced /\ rounds = 0 /\ status = "relaxing"
    BY DEF Init
  <2> QED  BY <2>1, <2>2 DEF Init, RoundsPaidFor
<1>2. SettleInv /\ TypeOK' /\ [Next]_vars => SettleInv'
  <2> SUFFICES ASSUME SettleInv, TypeOK', [Next]_vars
               PROVE  (rejected \subseteq recorded)' /\ RoundsPaidFor'
    BY DEF SettleInv
  <2> DEFINE n == Cardinality(rejected)
  <2>1. n \in Nat /\ rounds \in Nat /\ rejected \in SUBSET Candidates
    BY CandidateCount DEF SettleInv, TypeOK
  <2>2. CASE Record \/ Settle
    <3>1. status = "relaxing" /\ status' \in {"relaxing", "settling"}
      BY <2>2 DEF Record, Settle
    <3>2. UNCHANGED <<rejected, changed, unsynced, rounds>> /\ recorded \subseteq recorded'
      BY <2>2 DEF Record, Settle
    <3> QED  BY <3>1, <3>2, <2>1 DEF SettleInv, RoundsPaidFor
  <2>3. CASE StartRound
    BY <2>3, <2>1 DEF StartRound, SettleInv, TypeOK, RoundsPaidFor
  <2>4. CASE Reject
    <3>1. PICK c \in recorded \ rejected : rejected' = rejected \cup {c}
      BY <2>4 DEF Reject
    <3>2. Cardinality(rejected') = n + 1
      BY <3>1, <2>1, CandidateCount DEF SettleInv, TypeOK
    <3>3. status = "verifying" /\ changed' /\ UNCHANGED <<recorded, unsynced, rounds, status>>
      BY <2>4 DEF Reject
    <3>4. CASE changed
      BY <3>2, <3>3, <3>4, <2>1, <3>1 DEF SettleInv, RoundsPaidFor
    <3>5. CASE ~changed
      BY <3>2, <3>3, <3>5, <2>1, <3>1 DEF SettleInv, RoundsPaidFor
    <3> QED  BY <3>4, <3>5
  <2>5. CASE Retry
    BY <2>5, <2>1 DEF Retry, SettleInv, RoundsPaidFor
  <2>6. CASE Sync
    BY <2>6, <2>1 DEF Sync, SettleInv, RoundsPaidFor
  <2>7. CASE Commit
    BY <2>7, <2>1 DEF Commit, SettleInv, RoundsPaidFor
  <2>8. CASE GiveUp
    BY <2>8, <2>1 DEF GiveUp, SettleInv, RoundsPaidFor
  <2>9. CASE Abort
    BY <2>9, <2>1 DEF Abort, SettleInv, RoundsPaidFor
  <2>10. CASE UNCHANGED vars
    BY <2>10 DEF vars, SettleInv, RoundsPaidFor
  <2> QED  BY <2>2, <2>3, <2>4, <2>5, <2>6, <2>7, <2>8, <2>9, <2>10 DEF Next
<1> QED  BY <1>1, <1>2, SettleTypeCorrect, PTL DEF Spec, SettleInv

\* The number of rounds that have been begun is bounded by twice the rejections
\* and one: the retries of postRelax.
THEOREM RoundsBounded ==
  ASSUME IsFiniteSet(Candidates)
  PROVE  Spec => []RoundsPaidFor
<1>1. SettleInv => RoundsPaidFor
  BY DEF SettleInv
<1> QED  BY <1>1, SettleInvHolds, PTL

\* Nothing is recorded once the settling has begun, and it has not given up yet:
\* with two rounds for a candidate and one more, it never does.
THEOREM EnoughRounds ==
  ASSUME IsFiniteSet(Candidates),
         \A n \in Nat : MaxRounds[n] \in Nat /\ MaxRounds[n] >= 2 * n + 1
  PROVE  Spec => []NeverGivesUp
<1>1. Init => NeverGivesUp
  BY DEF Init, NeverGivesUp
<1>2. NeverGivesUp /\ SettleInv /\ [Next]_vars => NeverGivesUp'
  <2> SUFFICES ASSUME NeverGivesUp, SettleInv, [Next]_vars
               PROVE  NeverGivesUp'
    OBVIOUS
  <2>1. ~GiveUp
    <3> SUFFICES ASSUME GiveUp
                 PROVE  FALSE
      OBVIOUS
    <3>1. /\ IsFiniteSet(recorded) /\ Cardinality(recorded) \in Nat
          /\ Cardinality(rejected) \in Nat
      BY CandidateCount DEF SettleInv, TypeOK
    <3>2. Cardinality(rejected) <= Cardinality(recorded)
      BY <3>1, FS_Subset DEF SettleInv
    <3>3. rounds <= 2 * Cardinality(rejected)
      BY <3>1 DEF GiveUp, SettleInv, TypeOK, RoundsPaidFor
    <3>4. rounds >= 2 * Cardinality(recorded) + 1
      BY <3>1 DEF GiveUp, SettleInv, TypeOK
    <3> QED  BY <3>1, <3>2, <3>3, <3>4 DEF SettleInv, TypeOK
  <2>2. CASE Record \/ Settle \/ StartRound \/ Reject
    BY <2>2 DEF NeverGivesUp, Record, Settle, StartRound, Reject
  <2>3. CASE Retry \/ Sync \/ Commit \/ Abort
    BY <2>3 DEF NeverGivesUp, Retry, Sync, Commit, Abort
  <2>4. CASE UNCHANGED vars
    BY <2>4 DEF NeverGivesUp, vars
  <2> QED  BY <2>1, <2>2, <2>3, <2>4 DEF Next
<1> QED  BY <1>1, <1>2, SettleInvHolds, PTL DEF Spec
================================================================================
