------------------------- MODULE RelocationScan_proofs -------------------------
(***************************************************************************)
(* Proofs about the scan of the relocations, for every number of workers,  *)
(* every sequence of inputs and every schedule: that the parallel scan     *)
(* implements the serial one, and what it creates.                         *)
(***************************************************************************)
EXTENDS RelocationScan, FiniteSetTheorems, SequenceTheorems, TLAPS

\* A worker holds the position of a relocation, or the one after the last of its
\* input.
HeldAt(w, p) ==
  /\ worker[w] \notin {Idle, WorkerDone}
  /\ worker[w][1] = p[1] /\ worker[w][2] <= p[2]

\* What the workers hold and the counter are what Fetch and ScanOne make them.
WorkersType ==
  /\ link \in LinkType /\ nextInput \in Nat \ {0}
  /\ phase \in {"scan", "replay", "done"}
  /\ worker \in [Workers -> {Idle, WorkerDone} \cup (Nat \X Nat)]
  /\ \A w \in Workers : worker[w] \notin {Idle, WorkerDone} =>
       worker[w][1] \in 1..NumInputs /\ worker[w][2] \in Nat \ {0}

\* A worker that has ended has found no input left, only the workers that run move,
\* and only relocations that the serial scan scans are deferred.
WorkersHonest ==
  /\ \A w \in Workers \ Running : worker[w] = Idle
  /\ \A w \in Workers : worker[w] = WorkerDone => nextInput > NumInputs
  /\ deferred \subseteq Serial!ToScan

\* No relocation is lost: it is deferred, or ahead of a worker, or its input has
\* not been taken.
NothingLost ==
  \A p \in Serial!ToScan :
    p \in deferred \/ p[1] >= nextInput \/ \E w \in Workers : HeldAt(w, p)

\* The replay starts with everything that the serial scan scans.
AllDeferred == phase # "scan" => deferred = Serial!ToScan

Scanning == WorkersType /\ WorkersHonest /\ NothingLost /\ AllDeferred

------------------------------------------------------------------------------
\* The operators of the serial scan, reached through INSTANCE, are those of
\* DynamicSlots.
LEMMA SameToScan == Serial!ToScan = {p \in Positions(link) : Deferrable(link, p)}
BY DEF Serial!ToScan, Serial!Positions, Positions, Serial!Deferrable, Deferrable

LEMMA SameScan ==
  ASSUME NEW st, NEW l, NEW p
  PROVE  Serial!scanDeferredRelocation(st, l, p) = scanDeferredRelocation(st, l, p)
BY DEF
       isCodeIndep, isCodeStatic, isBuildingExecutable, isWeakUndef,
       isSymbolPreemptible, symbolNeedsDynRel, symbolNeedsCopyReloc,
       isGOTPCRELXRelaxable, checkDynamicRelocAllowed, NoSym, Reserve,
       IsReserved, Fail, AddDynRel, InSlot, InReference, createGOT,
       CreateGOT, GOTOnce, RelaxOrGOT, TLSIE, TLSGD, getTLSModuleID,
       RelocateReference, Insert, scanLocalReloc, scanAbsolute,
       scanPLT32, scanGlobalReloc, symInfo, scanDeferredRelocation,
       Serial!isCodeIndep, Serial!isCodeStatic,
       Serial!isBuildingExecutable, Serial!isWeakUndef,
       Serial!isSymbolPreemptible, Serial!symbolNeedsDynRel,
       Serial!symbolNeedsCopyReloc, Serial!isGOTPCRELXRelaxable,
       Serial!checkDynamicRelocAllowed, Serial!NoSym, Serial!Reserve,
       Serial!IsReserved, Serial!Fail, Serial!AddDynRel, Serial!InSlot,
       Serial!InReference, Serial!createGOT, Serial!CreateGOT,
       Serial!GOTOnce, Serial!RelaxOrGOT, Serial!TLSIE, Serial!TLSGD,
       Serial!getTLSModuleID, Serial!RelocateReference, Serial!Insert,
       Serial!scanLocalReloc, Serial!scanAbsolute, Serial!scanPLT32,
       Serial!scanGlobalReloc, Serial!symInfo,
       Serial!scanDeferredRelocation

LEMMA SameCardinality == ASSUME NEW S PROVE Serial!Cardinality(S) = Cardinality(S)
BY DEF Cardinality, Serial!Cardinality

LEMMA SameCopy ==
  ASSUME NEW st, NEW x
  PROVE  Serial!createCopyRelocation(st, x) = createCopyRelocation(st, x)
BY DEF createCopyRelocation, AddDynRel, InCopy, Serial!createCopyRelocation,
       Serial!AddDynRel, Serial!InCopy

\* What a position to scan is made of.
LEMMA PositionParts ==
  ASSUME link \in LinkType, NEW p
  PROVE  /\ p \in Serial!ToScan => /\ p = <<p[1], p[2]>>
                                   /\ p[1] \in 1..NumInputs
                                   /\ p[2] \in 1..Len(link.inputs[p[1]])
                                   /\ Deferrable(link, p)
         /\ \A i \in 1..NumInputs : \A k \in 1..Len(link.inputs[i]) :
              Deferrable(link, <<i, k>>) => <<i, k>> \in Serial!ToScan
<1>1. link.inputs \in Seq(Seq(Relocs))
  BY DEF LinkType
<1>2. DOMAIN link.inputs = 1..NumInputs
  BY <1>1 DEF NumInputs
<1>3. \A i \in 1..NumInputs : DOMAIN link.inputs[i] = 1..Len(link.inputs[i])
  BY <1>1, <1>2
<1>4. p \in Serial!ToScan => \E i \in 1..NumInputs : \E k \in 1..Len(link.inputs[i]) :
                               p = <<i, k>>
  BY <1>2, <1>3, SameToScan DEF Positions
<1>5. p \in Serial!ToScan => Deferrable(link, p)
  BY SameToScan
<1>6. ASSUME NEW i \in 1..NumInputs, NEW k \in 1..Len(link.inputs[i]),
             Deferrable(link, <<i, k>>)
      PROVE  <<i, k>> \in Serial!ToScan
  BY <1>2, <1>3, <1>6, SameToScan DEF Positions
<1> QED BY <1>4, <1>5, <1>6

\* The names of the two states without a position are no positions.
LEMMA StatesDiffer ==
  /\ Idle # WorkerDone
  /\ \A i, k : <<i, k>> \notin {Idle, WorkerDone}
BY DEF Idle, WorkerDone

\* There is work for a first worker when there is an input.
LEMMA SomeoneRuns ==
  ASSUME link \in LinkType, NumInputs # 0
  PROVE  Running # {}
<1>1. NumInputs \in Nat
  BY DEF LinkType, NumInputs
<1>2. Cardinality(Workers) \in Nat
  BY WorkersAssumption, FS_CardinalityType
<1>3. 1 \in Workers /\ Cardinality(Workers) >= 1
  BY <1>2, WorkersAssumption
<1>4. NumWorkers >= 1 /\ NumWorkers \in Nat
  BY <1>1, <1>2, <1>3 DEF NumWorkers
<1> QED BY <1>3, <1>4 DEF Running

\* Fetch and ScanOne leave alone the inputs and the choice of the workers that run.
LEMMA SameRunning ==
  ASSUME link' = link
  PROVE  NumInputs' = NumInputs /\ Serial!ToScan' = Serial!ToScan /\ Running' = Running
BY DEF NumInputs, Serial!ToScan, Running, NumWorkers

LEMMA InitScanning == Init => Scanning
<1> SUFFICES ASSUME Init PROVE Scanning
  OBVIOUS
<1>1. link \in LinkType
  BY LinksAssumption DEF Init
<1>2. WorkersType
  BY <1>1 DEF Init, WorkersType
<1>3. WorkersHonest
  BY StatesDiffer DEF Init, WorkersHonest
<1>4. NothingLost
  BY <1>1, PositionParts DEF Init, NothingLost
<1> QED BY <1>2, <1>3, <1>4 DEF Init, AllDeferred, Scanning

------------------------------------------------------------------------------
LEMMA FetchScanning ==
  ASSUME Scanning, NEW w \in Workers, Fetch(w)
  PROVE  Scanning'
<1> USE DEF Scanning
<1>1. link' = link /\ deferred' = deferred /\ phase' = phase /\ phase = "scan"
  BY DEF Fetch
<1>2. /\ NumInputs' = NumInputs /\ Serial!ToScan' = Serial!ToScan /\ Running' = Running
      /\ NumInputs \in Nat
  BY <1>1, SameRunning DEF NumInputs, WorkersType, LinkType
<1>3. CASE nextInput <= NumInputs
  <2>1. worker' = [worker EXCEPT ![w] = <<nextInput, 1>>]
    BY <1>3 DEF Fetch
  <2>2. WorkersType'
    BY <1>1, <1>2, <1>3, <2>1, StatesDiffer DEF WorkersType, Fetch
  <2>3. WorkersHonest'
    BY <1>1, <1>2, <1>3, <2>1, StatesDiffer DEF WorkersHonest, WorkersType, Fetch, Running
  <2>4. ASSUME NEW p \in Serial!ToScan, p \notin deferred, ~(p[1] >= nextInput')
        PROVE  \E v \in Workers : HeldAt(v, p)'
    <3>1. p[1] \in 1..NumInputs /\ p[2] \in Nat \ {0}
      BY PositionParts DEF WorkersType
    <3>2. CASE p[1] = nextInput
      BY <2>1, <3>1, <3>2, StatesDiffer DEF HeldAt, WorkersType
    <3>3. CASE p[1] # nextInput
      <4>1. PICK v \in Workers : HeldAt(v, p)
        BY <2>4, <3>1, <3>3 DEF NothingLost, Fetch, WorkersType
      <4>2. v # w
        BY <4>1 DEF HeldAt, Fetch
      <4> QED BY <2>1, <4>1, <4>2 DEF HeldAt, WorkersType
    <3> QED BY <3>2, <3>3
  <2>5. NothingLost'
    BY <1>1, <1>2, <2>4 DEF NothingLost
  <2> QED BY <1>1, <2>2, <2>3, <2>5 DEF AllDeferred
<1>4. CASE ~(nextInput <= NumInputs)
  <2>1. worker' = [worker EXCEPT ![w] = WorkerDone] /\ nextInput' = nextInput + 1
    BY <1>4 DEF Fetch
  <2>2. WorkersType'
    BY <1>1, <1>2, <2>1, StatesDiffer DEF WorkersType
  <2>3. WorkersHonest'
    <3>1. w \in Running
      BY DEF Fetch
    <3> QED BY <1>1, <1>2, <1>4, <2>1, <3>1, StatesDiffer DEF WorkersHonest, WorkersType
  <2>4. ASSUME NEW p \in Serial!ToScan, p \notin deferred
        PROVE  \E v \in Workers : HeldAt(v, p)'
    <3>1. p[1] \in 1..NumInputs
      BY PositionParts DEF WorkersType
    <3>2. PICK v \in Workers : HeldAt(v, p)
      BY <1>2, <1>4, <2>4, <3>1 DEF NothingLost, WorkersType
    <3>3. v # w
      BY <3>2 DEF HeldAt, Fetch
    <3> QED BY <2>1, <3>2, <3>3 DEF HeldAt, WorkersType
  <2>5. NothingLost'
    BY <1>1, <1>2, <2>4 DEF NothingLost
  <2> QED BY <1>1, <2>2, <2>3, <2>5 DEF AllDeferred
<1> QED BY <1>3, <1>4

LEMMA ScanOneScanning ==
  ASSUME Scanning, NEW w \in Workers, ScanOne(w)
  PROVE  Scanning'
<1> USE DEF Scanning
<1> DEFINE i == worker[w][1]
           k == worker[w][2]
<1>1. link' = link /\ nextInput' = nextInput /\ phase' = phase /\ phase = "scan"
  BY DEF ScanOne
<1>2. NumInputs' = NumInputs /\ Serial!ToScan' = Serial!ToScan /\ Running' = Running
  BY <1>1, SameRunning
<1>3. /\ worker[w] \notin {Idle, WorkerDone} /\ worker[w] = <<i, k>>
      /\ i \in 1..NumInputs /\ k \in Nat \ {0}
  BY DEF ScanOne, WorkersType
<1>4. CASE k > Len(link.inputs[i])
  <2>1. worker' = [worker EXCEPT ![w] = Idle] /\ deferred' = deferred
    BY <1>4 DEF ScanOne
  <2>2. WorkersType'
    BY <1>1, <1>2, <2>1, StatesDiffer DEF WorkersType
  <2>3. WorkersHonest'
    BY <1>1, <1>2, <1>3, <2>1, StatesDiffer DEF WorkersHonest, WorkersType
  <2>4. ASSUME NEW p \in Serial!ToScan, NEW v \in Workers, HeldAt(v, p)
        PROVE  HeldAt(v, p)'
    <3>1. p[1] \in 1..NumInputs /\ p[2] \in 1..Len(link.inputs[p[1]])
      BY PositionParts DEF WorkersType
    <3>2. v # w
      <4>1. Len(link.inputs[i]) \in Nat
        BY <1>3 DEF WorkersType, LinkType, NumInputs
      <4> QED BY <1>3, <1>4, <2>4, <3>1, <4>1 DEF HeldAt
    <3> QED BY <2>1, <2>4, <3>2 DEF HeldAt, WorkersType
  <2>5. NothingLost'
    BY <1>1, <1>2, <2>1, <2>4 DEF NothingLost
  <2> QED BY <1>1, <2>2, <2>3, <2>5 DEF AllDeferred
<1>5. CASE ~(k > Len(link.inputs[i]))
  <2>1. /\ worker' = [worker EXCEPT ![w] = <<i, k + 1>>]
        /\ deferred' = deferred \cup {q \in {<<i, k>>} : Deferrable(link, q)}
    BY <1>3, <1>5 DEF ScanOne
  <2>2. WorkersType'
    BY <1>1, <1>2, <1>3, <2>1, StatesDiffer DEF WorkersType
  <2>3. WorkersHonest'
    <3>1. Len(link.inputs[i]) \in Nat
      BY <1>3 DEF WorkersType, LinkType, NumInputs
    <3>2. k \in 1..Len(link.inputs[i])
      BY <1>3, <1>5, <3>1
    <3>3. deferred' \subseteq Serial!ToScan
      BY <1>3, <2>1, <3>2, PositionParts DEF WorkersHonest, WorkersType
    <3>4. w \in Running
      BY <1>3 DEF WorkersHonest
    <3> QED BY <1>1, <1>2, <2>1, <3>3, <3>4, StatesDiffer DEF WorkersHonest, WorkersType
  <2>4. ASSUME NEW p \in Serial!ToScan, NEW v \in Workers, HeldAt(v, p), p \notin deferred'
        PROVE  HeldAt(v, p)'
    <3>1. p = <<p[1], p[2]>> /\ p[1] \in 1..NumInputs /\ p[2] \in Nat /\ Deferrable(link, p)
      BY PositionParts DEF WorkersType
    <3>2. CASE v = w
      <4>1. p # <<i, k>>
        BY <2>1, <2>4, <3>1
      <4>2. p[1] = i /\ p[2] > k
        BY <1>3, <2>4, <3>1, <3>2, <4>1 DEF HeldAt
      <4> QED BY <1>3, <2>1, <3>1, <3>2, <4>2, StatesDiffer DEF HeldAt, WorkersType
    <3>3. CASE v # w
      BY <2>1, <2>4, <3>3 DEF HeldAt, WorkersType
    <3> QED BY <3>2, <3>3
  <2>5. NothingLost'
    BY <1>1, <1>2, <2>1, <2>4 DEF NothingLost
  <2> QED BY <1>1, <2>2, <2>3, <2>5 DEF AllDeferred
<1> QED BY <1>4, <1>5

LEMMA JoinScanning ==
  ASSUME Scanning, Join
  PROVE  Scanning'
<1> USE DEF Scanning
<1>1. /\ link' = link /\ nextInput' = nextInput /\ worker' = worker
      /\ deferred' = deferred /\ phase' = "replay"
  BY DEF Join
<1>2. /\ NumInputs' = NumInputs /\ Serial!ToScan' = Serial!ToScan /\ Running' = Running
      /\ NumInputs \in Nat
  BY <1>1, SameRunning DEF NumInputs, WorkersType, LinkType
<1>3. WorkersType' /\ WorkersHonest' /\ NothingLost'
  BY <1>1, <1>2 DEF WorkersType, WorkersHonest, NothingLost, HeldAt
<1>4. ASSUME NEW p \in Serial!ToScan
      PROVE  p \in deferred
  <2>1. p[1] \in 1..NumInputs
    BY PositionParts DEF WorkersType
  <2>2. nextInput > NumInputs
    <3>1. PICK w \in Running : TRUE
      BY <2>1, <1>2, SomeoneRuns DEF WorkersType
    <3> QED BY <3>1 DEF Join, Running, WorkersHonest
  <2>3. \A w \in Workers : ~HeldAt(w, p)
    BY DEF Join, HeldAt, WorkersHonest
  <2> QED BY <1>2, <2>1, <2>2, <2>3 DEF NothingLost, WorkersType
<1>5. AllDeferred'
  BY <1>1, <1>2, <1>4 DEF AllDeferred, WorkersHonest
<1> QED BY <1>3, <1>5

\* The replay and the copies leave the scan as it is.
LEMMA OtherScanning ==
  ASSUME Scanning,
         UNCHANGED <<link, nextInput, worker, deferred>>,
         phase' = phase \/ (phase = "replay" /\ phase' = "done")
  PROVE  Scanning'
<1>1. NumInputs' = NumInputs /\ Serial!ToScan' = Serial!ToScan /\ Running' = Running
  BY SameRunning
<1> QED BY <1>1 DEF Scanning, WorkersType, WorkersHonest, NothingLost, AllDeferred, HeldAt

LEMMA NextScanning == Scanning /\ [Next]_vars => Scanning'
<1> SUFFICES ASSUME Scanning, [Next]_vars PROVE Scanning'
  OBVIOUS
<1>1. ASSUME NEW w \in Workers, Fetch(w) PROVE Scanning'
  BY <1>1, FetchScanning
<1>2. ASSUME NEW w \in Workers, ScanOne(w) PROVE Scanning'
  BY <1>2, ScanOneScanning
<1>3. CASE Join
  BY <1>3, JoinScanning
<1>4. ASSUME NEW p \in deferred, Replay(p) PROVE Scanning'
  BY <1>4, OtherScanning DEF Replay
<1>5. CASE Copy
  BY <1>5, OtherScanning DEF Copy
<1>6. CASE Finish
  BY <1>6, OtherScanning DEF Finish
<1>7. CASE UNCHANGED vars
  BY <1>7, OtherScanning DEF vars
<1> QED BY <1>1, <1>2, <1>3, <1>4, <1>5, <1>6, <1>7 DEF Next

LEMMA AlwaysScanning == Spec => []Scanning
BY InitScanning, NextScanning, PTL DEF Spec

------------------------------------------------------------------------------
\* A step of the parallel scan is a step of the serial one, on the relocations
\* replayed so far, or leaves these and the slots alone.
LEMMA NextSerial ==
  Scanning /\ [Next]_vars => [Serial!Next]_<<link, replayed, slots>>
<1> SUFFICES ASSUME Scanning, [Next]_vars
             PROVE  [Serial!Next]_<<link, replayed, slots>>
  OBVIOUS
<1>1. ASSUME NEW w \in Workers, Fetch(w) \/ ScanOne(w)
      PROVE  UNCHANGED <<link, replayed, slots>>
  BY <1>1 DEF Fetch, ScanOne
<1>2. CASE Join
  BY <1>2 DEF Join
<1>3. ASSUME NEW p \in deferred, Replay(p)
      PROVE  Serial!Next
  <2>1. deferred = Serial!ToScan /\ p \in Serial!ToScan \ replayed
    BY <1>3 DEF Replay, Scanning, AllDeferred
  <2>2. Serial!Scan(p)
    BY <1>3, <2>1, SameScan DEF Replay, Serial!Scan, Before, Serial!Before
  <2>3. UNCHANGED link
    BY <1>3 DEF Replay
  <2> QED BY <2>1, <2>2, <2>3 DEF Serial!Next
<1>4. CASE Copy
  <2>1. replayed = Serial!ToScan
    BY <1>4 DEF Copy, Scanning, AllDeferred
  <2>2. Serial!Copy
    BY <1>4, <2>1, SameCopy, SameCardinality DEF Copy, CopiesLeft, Serial!Copy
  <2>3. UNCHANGED link
    BY <1>4 DEF Copy
  <2> QED BY <2>2, <2>3 DEF Serial!Next
<1>5. CASE Finish
  BY <1>5 DEF Finish
<1>6. CASE UNCHANGED vars
  BY <1>6 DEF vars
<1> QED BY <1>1, <1>2, <1>3, <1>4, <1>5, <1>6 DEF Next

LEMMA InitSerial == Init => Serial!Init
BY DEF Init, NoSlots, Serial!Init, Serial!NoSlots

\* Whatever the number of workers, the inputs and the schedule, the slots, their
\* order, the dynamic relocations and the copies are those of the serial scan:
\* scanRelocations with several threads implements the one with one.
THEOREM SerialRefinement == Spec => SameAsSerialScan
BY AlwaysScanning, InitSerial, NextSerial, PTL
   DEF Spec, SameAsSerialScan, Serial!Spec

------------------------------------------------------------------------------
\* The reports.  What has been scanned so far is what no worker holds, of the inputs
\* that have been taken.
Scanned ==
  {p \in Positions(link) : p[1] < nextInput /\ \A w \in Workers : ~HeldAt(w, p)}

Holding(w) == worker[w] \notin {Idle, WorkerDone}

\* No two workers hold the same input, and none stands more than one position behind
\* the end of its own.
WorkersApart ==
  /\ \A w \in Workers : Holding(w) => /\ worker[w][1] < nextInput
                                      /\ worker[w][2] <= Len(link.inputs[worker[w][1]]) + 1
  /\ \A v, w \in Workers : Holding(v) /\ Holding(w) /\ worker[v][1] = worker[w][1] => v = w

\* Each worker takes the counter past the end once.
CounterBounded ==
  nextInput <= NumInputs + 1 + Cardinality({w \in Running : worker[w] = WorkerDone})

\* What a set of positions gives rise to.
DueAmong(S, x, k) == {p \in S : RelocAt(p).sym = x /\ k \in Due(RelocAt(p))}
CountOf(n)        == IF link.warnOnce /\ n > 1 THEN 1 ELSE n

ReportsMatch ==
  /\ reports \in [Symbols -> [Reports -> Nat]] /\ hits \subseteq Symbols \X Reports
  /\ failed \in BOOLEAN
  /\ IsFiniteSet(Scanned)
  /\ \A x \in Symbols, k \in Reports :
       /\ reports[x][k] = CountOf(Cardinality(DueAmong(Scanned, x, k)))
       /\ link.warnOnce => (<<x, k>> \in hits <=> DueAmong(Scanned, x, k) # {})
  /\ phase # "scan" => Scanned = Positions(link)

FailedMatches ==
  failed <=> \/ \E x \in Symbols : reports[x]["Undef"] > 0
             \/ \E p \in Scanned : RelocAt(p).type = "unsupported"
             \/ phase = "done" /\ slots.error

Reporting == WorkersApart /\ CounterBounded /\ ReportsMatch /\ FailedMatches

\* What a position is.
LEMMA PositionType ==
  ASSUME link \in LinkType, NEW p \in Positions(link)
  PROVE  /\ p = <<p[1], p[2]>> /\ p[1] \in 1..NumInputs /\ NumInputs \in Nat
         /\ p[2] \in 1..Len(link.inputs[p[1]]) /\ Len(link.inputs[p[1]]) \in Nat
         /\ RelocAt(p) \in Relocs
<1>1. link.inputs \in Seq(Seq(Relocs))
  BY DEF LinkType
<1>2. DOMAIN link.inputs = 1..NumInputs /\ NumInputs \in Nat
  BY <1>1 DEF NumInputs
<1>3. PICK i \in 1..NumInputs : \E k \in DOMAIN link.inputs[i] : p = <<i, k>>
  BY <1>2 DEF Positions
<1>4. link.inputs[i] \in Seq(Relocs)
  BY <1>1, <1>2
<1>5. PICK k \in 1..Len(link.inputs[i]) : p = <<i, k>>
  BY <1>3, <1>4
<1>6. link.inputs[i][k] \in Relocs /\ Len(link.inputs[i]) \in Nat
  BY <1>4, <1>5
<1> QED  BY <1>2, <1>5, <1>6 DEF RelocAt

LEMMA IsPosition ==
  ASSUME link \in LinkType, NEW i \in 1..NumInputs, NEW k \in 1..Len(link.inputs[i])
  PROVE  <<i, k>> \in Positions(link)
<1>1. link.inputs \in Seq(Seq(Relocs))
  BY DEF LinkType
<1>2. DOMAIN link.inputs = 1..NumInputs
  BY <1>1 DEF NumInputs
<1>3. DOMAIN link.inputs[i] = 1..Len(link.inputs[i])
  BY <1>1, <1>2
<1> QED  BY <1>2, <1>3 DEF Positions

LEMMA InitReporting == Init => Reporting
<1> SUFFICES ASSUME Init PROVE Reporting
  OBVIOUS
<1>1. link \in LinkType
  BY LinksAssumption DEF Init
<1>2. \A w \in Workers : ~Holding(w) /\ worker[w] # WorkerDone
  BY StatesDiffer DEF Init, Holding
<1>3. Scanned = {}
  BY <1>1, PositionType DEF Init, Scanned
<1>4. WorkersApart
  BY <1>2 DEF WorkersApart
<1>5. CounterBounded
  <2>1. {w \in Running : worker[w] = WorkerDone} = {}
    BY <1>2 DEF Running
  <2>2. NumInputs \in Nat
    BY <1>1 DEF NumInputs, LinkType
  <2>3. Cardinality({w \in Running : worker[w] = WorkerDone}) = 0
    BY <2>1, FS_EmptySet
  <2> QED  BY <2>2, <2>3 DEF CounterBounded, Init
<1>6. \A x, k : DueAmong(Scanned, x, k) = {}
  BY <1>3 DEF DueAmong
<1>7. ReportsMatch
  <2>1. \A x \in Symbols, k \in Reports : reports[x][k] = 0
    BY DEF Init
  <2>2. \A x, k : Cardinality(DueAmong(Scanned, x, k)) = 0
    BY <1>6, FS_EmptySet
  <2>3. CountOf(0) = 0
    BY DEF CountOf
  <2>4. \A x \in Symbols, k \in Reports :
          /\ reports[x][k] = CountOf(Cardinality(DueAmong(Scanned, x, k)))
          /\ link.warnOnce => (<<x, k>> \in hits <=> DueAmong(Scanned, x, k) # {})
    BY <1>6, <2>1, <2>2, <2>3 DEF Init
  <2>5. /\ reports \in [Symbols -> [Reports -> Nat]] /\ hits \subseteq Symbols \X Reports
        /\ failed \in BOOLEAN /\ phase = "scan"
    BY DEF Init
  <2>6. IsFiniteSet(Scanned)
    BY <1>3, FS_EmptySet
  <2> QED  BY <2>4, <2>5, <2>6 DEF ReportsMatch
<1>8. FailedMatches
  BY <1>3 DEF FailedMatches, Init, Reports
<1> QED  BY <1>4, <1>5, <1>7, <1>8 DEF Reporting

\* Nothing is scanned by what leaves alone the counter and what is held.
LEMMA SameScanned ==
  ASSUME link' = link, Scanned' = Scanned, reports' = reports, hits' = hits, failed' = failed,
         phase' = phase, slots' = slots, ReportsMatch, FailedMatches
  PROVE  ReportsMatch' /\ FailedMatches'
<1>1. \A q : RelocAt(q)' = RelocAt(q)
  BY DEF RelocAt
<1>2. \A r : Due(r)' = Due(r)
  BY DEF Due
<1>3. Positions(link)' = Positions(link)
  OBVIOUS
<1>4. \A S, x, k : DueAmong(S, x, k)' = DueAmong(S, x, k)
  BY <1>1, <1>2 DEF DueAmong
<1>5. \A n : CountOf(n)' = CountOf(n)
  BY DEF CountOf
<1>6. ReportsMatch'
  BY <1>3, <1>4, <1>5 DEF ReportsMatch
<1> QED  BY <1>1, <1>6 DEF FailedMatches

LEMMA RunningFinite == IsFiniteSet(Running) /\ \A S \in SUBSET Running : IsFiniteSet(S)
<1>1. IsFiniteSet(Workers) /\ Running \subseteq Workers
  BY WorkersAssumption DEF Running
<1>2. IsFiniteSet(Running)
  BY <1>1, FS_Subset
<1> QED  BY <1>2, FS_Subset

\* Taking an input, or finding that none is left.
LEMMA FetchReporting ==
  ASSUME Scanning, Reporting, NEW w \in Workers, Fetch(w)
  PROVE  Reporting'
<1>1. /\ link' = link /\ phase' = phase /\ slots' = slots /\ w \in Running /\ worker[w] = Idle
      /\ hits' = hits /\ reports' = reports /\ failed' = failed /\ nextInput' = nextInput + 1
  BY DEF Fetch
<1>2. /\ WorkersType /\ link \in LinkType /\ nextInput \in Nat \ {0}
      /\ NumInputs' = NumInputs /\ Running' = Running /\ NumInputs \in Nat
  BY <1>1, SameRunning DEF Scanning, WorkersType, NumInputs, LinkType
<1>3. WorkersApart /\ CounterBounded
  BY DEF Reporting
<1>4. DEFINE done == {v \in Running : worker[v] = WorkerDone}
<1>5. IsFiniteSet(done) /\ Cardinality(done) \in Nat
  BY RunningFinite, FS_CardinalityType
<1>6. CASE nextInput <= NumInputs
  <2>1. worker' = [worker EXCEPT ![w] = <<nextInput, 1>>]
    BY <1>6 DEF Fetch
  <2>2. \A v \in Workers : v # w => worker'[v] = worker[v] /\ Holding(v)' = Holding(v)
    BY <1>2, <2>1 DEF Holding, WorkersType
  <2>3. worker'[w] = <<nextInput, 1>> /\ ~Holding(w)
    BY <1>1, <1>2, <2>1 DEF WorkersType, Holding
  <2>4. Len(link.inputs[nextInput]) \in Nat
    BY <1>2, <1>6 DEF LinkType, NumInputs
  <2>5. \A v \in Workers : Holding(v) => worker[v][1] < nextInput /\ worker[v][1] \in Nat
    BY <1>2, <1>3 DEF WorkersApart, WorkersType, Holding
  <2>6. WorkersApart'
    <3>1. ASSUME NEW v \in Workers, Holding(v)'
          PROVE  /\ worker'[v][1] < nextInput'
                 /\ worker'[v][2] <= Len(link.inputs[worker'[v][1]]) + 1
      <4>1. CASE v = w
        BY <1>1, <1>2, <2>3, <2>4, <4>1
      <4>2. CASE v # w
        <5>1. /\ worker'[v] = worker[v] /\ Holding(v)
          BY <2>2, <3>1, <4>2
        <5>2. worker[v][1] < nextInput /\ worker[v][1] \in Nat
          BY <2>5, <5>1
        <5>3. worker[v][2] <= Len(link.inputs[worker[v][1]]) + 1
          BY <1>3, <5>1 DEF WorkersApart
        <5> QED  BY <1>1, <1>2, <5>1, <5>2, <5>3
      <4> QED  BY <4>1, <4>2
    <3>2. ASSUME NEW v \in Workers, NEW u \in Workers, Holding(v)', Holding(u)',
                 worker'[v][1] = worker'[u][1]
          PROVE  v = u
      BY <1>2, <1>3, <2>2, <2>3, <2>5, <3>2 DEF WorkersApart
    <3> QED  BY <1>1, <3>1, <3>2 DEF WorkersApart
  <2>7. {v \in Running : worker'[v] = WorkerDone} = done
    BY <1>1, <2>2, <2>3, StatesDiffer DEF Running
  <2>8. CounterBounded'
    BY <1>1, <1>2, <1>5, <1>6, <2>7 DEF CounterBounded
  <2>9. ASSUME NEW p \in Positions(link)
        PROVE  (p[1] < nextInput' /\ \A v \in Workers : ~HeldAt(v, p)')
                 <=> (p[1] < nextInput /\ \A v \in Workers : ~HeldAt(v, p))
    <3>1. p[1] \in 1..NumInputs /\ p[2] \in Nat \ {0}
      BY <1>2, PositionType
    <3>2. \A v \in Workers : v # w => (HeldAt(v, p)' <=> HeldAt(v, p))
      BY <2>2 DEF HeldAt
    <3>3. ~HeldAt(w, p) /\ (HeldAt(w, p)' <=> p[1] = nextInput)
      BY <1>1, <2>3, <3>1, StatesDiffer DEF HeldAt
    <3> QED  BY <1>1, <1>2, <3>1, <3>2, <3>3
  <2>10. Scanned' = Scanned
    BY <1>1, <2>9 DEF Scanned
  <2> QED  BY <1>1, <2>6, <2>8, <2>10, SameScanned DEF Reporting
<1>7. CASE nextInput > NumInputs
  <2>1. worker' = [worker EXCEPT ![w] = WorkerDone]
    <3>1. ~(nextInput <= NumInputs)
      BY <1>2, <1>7
    <3> QED  BY <3>1 DEF Fetch
  <2>2. \A v \in Workers : v # w => worker'[v] = worker[v] /\ Holding(v)' = Holding(v)
    BY <1>2, <2>1 DEF Holding, WorkersType
  <2>3. worker'[w] = WorkerDone /\ ~Holding(w) /\ ~Holding(w)'
    BY <1>1, <1>2, <2>1 DEF WorkersType, Holding
  <2>4. \A v \in Workers : Holding(v) => worker[v][1] < nextInput /\ worker[v][1] \in Nat
    BY <1>2, <1>3 DEF WorkersApart, WorkersType, Holding
  <2>5. WorkersApart'
    <3>1. \A v \in Workers : Holding(v)' => Holding(v) /\ worker'[v] = worker[v]
      BY <2>2, <2>3
    <3>2. \A v \in Workers : Holding(v)' => worker'[v][1] < nextInput'
      BY <1>1, <1>2, <2>4, <3>1
    <3>3. \A v \in Workers : Holding(v)' => worker'[v][2] <= Len(link.inputs[worker'[v][1]]) + 1
      BY <1>3, <3>1 DEF WorkersApart
    <3>4. \A u, v \in Workers : Holding(u)' /\ Holding(v)' /\ worker'[u][1] = worker'[v][1] => u = v
      BY <1>3, <3>1 DEF WorkersApart
    <3> QED  BY <1>1, <3>2, <3>3, <3>4 DEF WorkersApart
  <2>6. {v \in Running : worker'[v] = WorkerDone} = done \cup {w}
    BY <1>1, <2>2, <2>3 DEF Running
  <2>7. w \notin done
    BY <1>1, StatesDiffer
  <2>8. Cardinality(done \cup {w}) = Cardinality(done) + 1
    BY <1>5, <2>7, FS_AddElement
  <2>9. CounterBounded'
    <3>1. nextInput <= NumInputs + 1 + Cardinality(done)
      BY <1>3 DEF CounterBounded
    <3>2. {v \in Running : worker[v] = WorkerDone}' = done \cup {w}
      BY <1>2, <2>6
    <3> HIDE DEF done
    <3>3. Cardinality({v \in Running : worker[v] = WorkerDone}') = Cardinality(done) + 1
      BY <2>8, <3>2
    <3>4. nextInput' <= NumInputs' + 1 + (Cardinality(done) + 1)
      BY <1>1, <1>2, <1>5, <3>1
    <3> QED  BY <3>3, <3>4 DEF CounterBounded
  <2>10. ASSUME NEW p \in Positions(link)
         PROVE  (p[1] < nextInput' /\ \A v \in Workers : ~HeldAt(v, p)')
                  <=> (p[1] < nextInput /\ \A v \in Workers : ~HeldAt(v, p))
    <3>1. p[1] \in 1..NumInputs
      BY <1>2, PositionType
    <3>2. \A v \in Workers : HeldAt(v, p)' <=> HeldAt(v, p)
      BY <2>2, <2>3 DEF HeldAt, Holding
    <3> QED  BY <1>1, <1>2, <1>7, <3>1, <3>2
  <2>11. Scanned' = Scanned
    BY <1>1, <2>10 DEF Scanned
  <2> QED  BY <1>1, <2>5, <2>9, <2>11, SameScanned DEF Reporting
<1> QED  BY <1>2, <1>6, <1>7

\* One more reference among those that have been scanned.
DueOneMore(among, more, p, x, k) ==
  /\ Cardinality(among) \in Nat /\ (Cardinality(among) = 0 <=> among = {})
  /\ RelocAt(p).sym = x /\ k \in Due(RelocAt(p)) =>
       more = among \cup {p} /\ Cardinality(more) = Cardinality(among) + 1
  /\ ~(RelocAt(p).sym = x /\ k \in Due(RelocAt(p))) => more = among

LEMMA DueAmongMore ==
  ASSUME NEW S, IsFiniteSet(S), NEW p, p \notin S, NEW x, NEW k,
         NEW among, among = DueAmong(S, x, k), NEW more, more = DueAmong(S \cup {p}, x, k)
  PROVE  DueOneMore(among, more, p, x, k)
<1>1. among \subseteq S
  BY DEF DueAmong
<1>2. IsFiniteSet(among)
  BY <1>1, FS_Subset
<1>3. Cardinality(among) \in Nat /\ (Cardinality(among) = 0 <=> among = {})
  BY <1>2, FS_CardinalityType, FS_EmptySet
<1>4. RelocAt(p).sym = x /\ k \in Due(RelocAt(p)) => more = among \cup {p}
  BY DEF DueAmong
<1>5. Cardinality(among \cup {p}) = Cardinality(among) + 1
  BY <1>1, <1>2, FS_AddElement
<1>6. ~(RelocAt(p).sym = x /\ k \in Due(RelocAt(p))) => more = among
  BY DEF DueAmong
<1> QED  BY <1>3, <1>4, <1>5, <1>6 DEF DueOneMore

LEMMA DueKinds ==
  ASSUME NEW r
  PROVE  Due(r) \subseteq Reports /\ (Due(r) # {} => "Undef" \in Due(r))
BY DEF Due, Reports

\* Scanning one reference more.
LEMMA ReportOne ==
  ASSUME link \in LinkType, ReportsMatch, FailedMatches,
         NEW p \in Positions(link), p \notin Scanned, Scanned' = Scanned \cup {p},
         ReportUndefined(RelocAt(p)), link' = link, phase = "scan", phase' = "scan"
  PROVE  ReportsMatch' /\ FailedMatches'
<1>1. PICK r : r = RelocAt(p)
  OBVIOUS
<1>2. PICK raised : raised = {k \in Due(r) : ~(link.warnOnce /\ <<r.sym, k>> \in hits)}
  OBVIOUS
<1>3. /\ reports' = [reports EXCEPT ![r.sym] =
                       [k \in Reports |-> @[k] + IF k \in raised THEN 1 ELSE 0]]
      /\ hits' = IF link.warnOnce THEN hits \cup {<<r.sym, k>> : k \in raised} ELSE hits
      /\ failed' = (failed \/ r.type = "unsupported" \/ raised # {})
  BY <1>1, <1>2 DEF ReportUndefined
<1>4. r.sym \in Symbols /\ Due(r) \subseteq Reports /\ (Due(r) # {} => "Undef" \in Due(r))
  BY <1>1, PositionType, DueKinds DEF Relocs
<1>5. /\ reports \in [Symbols -> [Reports -> Nat]] /\ hits \subseteq Symbols \X Reports
      /\ failed \in BOOLEAN /\ IsFiniteSet(Scanned)
      /\ \A x \in Symbols, k \in Reports :
           /\ reports[x][k] = CountOf(Cardinality(DueAmong(Scanned, x, k)))
           /\ link.warnOnce => (<<x, k>> \in hits <=> DueAmong(Scanned, x, k) # {})
  BY DEF ReportsMatch
<1>6. \A x \in Symbols, k \in Reports :
        reports'[x][k] = reports[x][k] + IF x = r.sym /\ k \in raised THEN 1 ELSE 0
  BY <1>3, <1>4, <1>5
<1>7. reports' \in [Symbols -> [Reports -> Nat]]
  BY <1>3, <1>4, <1>5
<1>8. /\ \A q : RelocAt(q)' = RelocAt(q)
      /\ \A S, x, k : DueAmong(S, x, k)' = DueAmong(S, x, k)
      /\ \A n : CountOf(n)' = CountOf(n)
      /\ link.warnOnce' = link.warnOnce
  BY DEF RelocAt, DueAmong, CountOf, Due
<1>9. ASSUME NEW x \in Symbols, NEW k \in Reports
      PROVE  /\ reports'[x][k] = CountOf(Cardinality(DueAmong(Scanned', x, k)))
             /\ link.warnOnce => (<<x, k>> \in hits' <=> DueAmong(Scanned', x, k) # {})
             /\ x = r.sym /\ k \in Due(r) => reports'[x][k] > 0
  <2>1. PICK among : among = DueAmong(Scanned, x, k)
    OBVIOUS
  <2>2. PICK more : more = DueAmong(Scanned', x, k)
    OBVIOUS
  <2>3. /\ Cardinality(among) \in Nat /\ (Cardinality(among) = 0 <=> among = {})
        /\ x = r.sym /\ k \in Due(r) =>
             more = among \cup {p} /\ Cardinality(more) = Cardinality(among) + 1
        /\ ~(x = r.sym /\ k \in Due(r)) => more = among
    <3>1. more = DueAmong(Scanned \cup {p}, x, k) /\ IsFiniteSet(Scanned) /\ p \notin Scanned
      BY <1>5, <2>2
    <3>2. DueOneMore(among, more, p, x, k)
      BY <2>1, <3>1, DueAmongMore
    <3> QED  BY <1>1, <3>2 DEF DueOneMore
  <2>4. /\ reports[x][k] = CountOf(Cardinality(among))
        /\ link.warnOnce => (<<x, k>> \in hits <=> among # {})
    BY <1>5, <2>1
  <2>5. k \in raised => k \in Due(r)
    BY <1>2
  <2>6. CASE ~(x = r.sym /\ k \in Due(r))
    <3>1. more = among /\ reports'[x][k] = reports[x][k]
      BY <1>5, <1>6, <2>3, <2>5, <2>6
    <3>2. link.warnOnce => (<<x, k>> \in hits' <=> <<x, k>> \in hits)
      BY <1>3, <2>5, <2>6
    <3> QED  BY <2>1, <2>2, <2>4, <2>6, <3>1, <3>2
  <2>7. CASE x = r.sym /\ k \in Due(r) /\ ~link.warnOnce
    <3>1. k \in raised
      BY <1>2, <2>7
    <3>2. reports'[x][k] = Cardinality(among) + 1
      BY <1>5, <1>6, <2>4, <2>7, <3>1 DEF CountOf
    <3> QED  BY <2>2, <2>3, <2>7, <3>2 DEF CountOf
  <2>8. CASE x = r.sym /\ k \in Due(r) /\ link.warnOnce
    <3>1. more # {} /\ Cardinality(more) = Cardinality(among) + 1
      BY <2>3, <2>8
    <3>2. CountOf(Cardinality(more)) = 1
      BY <2>3, <2>8, <3>1 DEF CountOf
    <3>3. k \in raised <=> <<x, k>> \notin hits
      BY <1>2, <2>8
    <3>4. <<x, k>> \in hits'
      BY <1>3, <2>8, <3>3
    <3>5. reports'[x][k] = 1
      <4>1. CASE <<x, k>> \in hits
        <5>1. Cardinality(among) > 0
          BY <2>3, <2>4, <2>8, <4>1
        <5>2. reports[x][k] = 1
          BY <2>3, <2>4, <2>8, <5>1 DEF CountOf
        <5> QED  BY <1>6, <3>3, <4>1, <5>2
      <4>2. CASE <<x, k>> \notin hits
        <5>1. reports[x][k] = 0
          BY <2>3, <2>4, <2>8, <4>2 DEF CountOf
        <5> QED  BY <1>6, <2>8, <3>3, <4>2, <5>1
      <4> QED  BY <4>1, <4>2
    <3> QED  BY <2>2, <3>1, <3>2, <3>4, <3>5
  <2> QED  BY <2>6, <2>7, <2>8
<1>10. ReportsMatch'
  <2>1. failed' \in BOOLEAN
    BY <1>3
  <2>2. hits' \subseteq Symbols \X Reports
    <3>1. raised \subseteq Reports
      BY <1>2, <1>4
    <3> QED  BY <1>3, <1>4, <1>5, <3>1
  <2>3. IsFiniteSet(Scanned')
    BY <1>5, FS_AddElement
  <2> QED  BY <1>7, <1>8, <1>9, <2>1, <2>2, <2>3 DEF ReportsMatch
<1>11. FailedMatches'
  <2>1. failed <=> \/ \E x \in Symbols : reports[x]["Undef"] > 0
                   \/ \E q \in Scanned : RelocAt(q).type = "unsupported"
    BY DEF FailedMatches
  <2>2. "Undef" \in Reports
    BY DEF Reports
  <2>3. \A x \in Symbols : reports[x]["Undef"] \in Nat
    BY <1>5, <2>2
  <2>4. ASSUME raised # {} PROVE \E x \in Symbols : reports'[x]["Undef"] > 0
    <3>1. "Undef" \in Due(r)
      BY <1>2, <1>4, <2>4
    <3> QED  BY <1>4, <1>9, <2>2, <3>1
  <2>5. \A x \in Symbols : reports[x]["Undef"] > 0 => reports'[x]["Undef"] > 0
    BY <1>6, <2>2, <2>3
  <2>6. \A x \in Symbols : reports'[x]["Undef"] > 0 => reports[x]["Undef"] > 0 \/ raised # {}
    BY <1>6, <2>2, <2>3
  <2>7. failed' <=> \/ \E x \in Symbols : reports'[x]["Undef"] > 0
                    \/ \E q \in Scanned' : RelocAt(q).type = "unsupported"
    BY <1>1, <1>3, <2>1, <2>4, <2>5, <2>6
  <2> QED  BY <1>8, <2>7 DEF FailedMatches
<1> QED  BY <1>10, <1>11

\* A worker scans a relocation, or gives its input back.
LEMMA ScanOneReporting ==
  ASSUME Scanning, Reporting, NEW w \in Workers, ScanOne(w)
  PROVE  Reporting'
<1>1. /\ link' = link /\ phase' = phase /\ phase = "scan" /\ slots' = slots
      /\ nextInput' = nextInput /\ worker[w] \notin {Idle, WorkerDone}
  BY DEF ScanOne
<1>2. /\ WorkersType /\ link \in LinkType /\ nextInput \in Nat \ {0}
      /\ NumInputs' = NumInputs /\ Running' = Running
  BY <1>1, SameRunning DEF Scanning, WorkersType
<1>3. WorkersApart /\ CounterBounded /\ ReportsMatch /\ FailedMatches /\ Holding(w)
  BY <1>1 DEF Reporting, Holding
<1>4. PICK i : i = worker[w][1]
  OBVIOUS
<1>5. PICK k : k = worker[w][2]
  OBVIOUS
<1>6. /\ worker[w] = <<i, k>> /\ i \in 1..NumInputs /\ k \in Nat \ {0} /\ i < nextInput
      /\ k <= Len(link.inputs[i]) + 1 /\ Len(link.inputs[i]) \in Nat
  BY <1>1, <1>2, <1>3, <1>4, <1>5 DEF WorkersType, WorkersApart, LinkType, NumInputs
<1>7. ASSUME NEW held, worker' = [worker EXCEPT ![w] = held], held # WorkerDone,
             held \notin {Idle, WorkerDone} => held[1] = i /\ held[2] <= Len(link.inputs[i]) + 1
      PROVE  /\ WorkersApart' /\ CounterBounded'
             /\ worker'[w] = held /\ \A v \in Workers : v # w => worker'[v] = worker[v]
  <2>1. worker'[w] = held /\ \A v \in Workers : v # w => worker'[v] = worker[v]
    BY <1>2, <1>7 DEF WorkersType
  <2>2. \A v \in Workers : v # w => Holding(v)' = Holding(v)
    BY <2>1 DEF Holding
  <2>3. \A v \in Workers : Holding(v)' => Holding(v) /\ worker'[v][1] = worker[v][1]
    BY <1>3, <1>4, <1>7, <2>1, <2>2 DEF Holding
  <2>4. \A v \in Workers : Holding(v)' => worker'[v][2] <= Len(link.inputs[worker'[v][1]]) + 1
    <3>1. ASSUME NEW v \in Workers, Holding(v)', v # w
          PROVE  worker'[v][2] <= Len(link.inputs[worker'[v][1]]) + 1
      BY <1>3, <2>1, <2>2, <3>1 DEF WorkersApart
    <3>2. Holding(w)' => worker'[w][2] <= Len(link.inputs[worker'[w][1]]) + 1
      BY <1>7, <2>1 DEF Holding
    <3> QED  BY <3>1, <3>2
  <2>5. WorkersApart'
    BY <1>1, <1>3, <2>3, <2>4 DEF WorkersApart
  <2>6. {v \in Running : worker'[v] = WorkerDone} = {v \in Running : worker[v] = WorkerDone}
    BY <1>1, <1>7, <2>1 DEF Running
  <2>7. CounterBounded'
    BY <1>1, <1>2, <1>3, <2>6 DEF CounterBounded
  <2> QED  BY <2>1, <2>5, <2>7
<1>8. CASE k > Len(link.inputs[i])
  <2>1. /\ worker' = [worker EXCEPT ![w] = Idle]
        /\ hits' = hits /\ reports' = reports /\ failed' = failed
    BY <1>4, <1>5, <1>8 DEF ScanOne
  <2>2. /\ WorkersApart' /\ CounterBounded'
        /\ worker'[w] = Idle /\ \A v \in Workers : v # w => worker'[v] = worker[v]
    BY <1>7, <2>1, StatesDiffer
  <2>3. ASSUME NEW p \in Positions(link), NEW v \in Workers
        PROVE  HeldAt(v, p)' <=> HeldAt(v, p)
    <3>1. CASE v # w
      BY <2>2, <3>1 DEF HeldAt
    <3>2. CASE v = w
      <4>1. ~HeldAt(w, p)'
        BY <2>2 DEF HeldAt
      <4>2. ~HeldAt(w, p)
        <5>1. p[2] \in Nat /\ p[2] <= Len(link.inputs[p[1]])
          BY <1>2, PositionType
        <5>2. HeldAt(w, p) => i = p[1] /\ k <= p[2]
          BY <1>4, <1>5 DEF HeldAt
        <5>3. ASSUME i = p[1], k <= p[2] PROVE FALSE
          BY <1>6, <1>8, <5>1, <5>3
        <5> QED  BY <5>2, <5>3
      <4> QED  BY <3>2, <4>1, <4>2
    <3> QED  BY <3>1, <3>2
  <2>4. Scanned' = Scanned
    BY <1>1, <2>3 DEF Scanned
  <2> QED  BY <1>1, <1>3, <2>1, <2>2, <2>4, SameScanned DEF Reporting
<1>9. CASE ~(k > Len(link.inputs[i]))
  <2>1. PICK p : p = <<i, k>>
    OBVIOUS
  <2>2. p \in Positions(link) /\ p = worker[w]
    BY <1>2, <1>6, <1>9, <2>1, IsPosition
  <2>3. worker' = [worker EXCEPT ![w] = <<i, k + 1>>] /\ ReportUndefined(RelocAt(p))
    BY <1>6, <1>9, <2>1, <2>2 DEF ScanOne
  <2>4. /\ WorkersApart' /\ CounterBounded' /\ worker'[w] = <<i, k + 1>>
        /\ \A v \in Workers : v # w => worker'[v] = worker[v]
    <3>1. k + 1 <= Len(link.inputs[i]) + 1
      BY <1>6, <1>9
    <3> QED  BY <1>7, <2>3, <3>1, StatesDiffer
  <2>5. p \notin Scanned
    <3>1. p[1] = i /\ p[2] = k /\ k <= k
      BY <1>6, <2>1
    <3>2. HeldAt(w, p)
      BY <1>1, <1>4, <1>5, <3>1 DEF HeldAt
    <3> QED  BY <3>2 DEF Scanned
  <2>6. ASSUME NEW q \in Positions(link)
        PROVE  (\A v \in Workers : ~HeldAt(v, q)') <=> (q = p \/ \A v \in Workers : ~HeldAt(v, q))
    <3>1. q = <<q[1], q[2]>> /\ q[2] \in Nat
      BY <1>2, PositionType
    <3>2. \A v \in Workers : v # w => (HeldAt(v, q)' <=> HeldAt(v, q))
      BY <2>4 DEF HeldAt
    <3>3. HeldAt(w, q)' <=> HeldAt(w, q) /\ q # p
      <4>1. HeldAt(w, q) <=> q[1] = i /\ k <= q[2]
        BY <1>1, <1>4, <1>5 DEF HeldAt
      <4>2. HeldAt(w, q)' <=> q[1] = i /\ k + 1 <= q[2]
        BY <2>4, StatesDiffer DEF HeldAt
      <4>3. q # p <=> ~(q[1] = i /\ q[2] = k)
        BY <2>1, <3>1
      <4> QED  BY <1>6, <3>1, <4>1, <4>2, <4>3
    <3>4. q = p => \A v \in Workers : v # w => ~HeldAt(v, q)
      BY <1>1, <1>3, <1>4, <2>1 DEF WorkersApart, HeldAt, Holding
    <3> QED  BY <3>2, <3>3, <3>4
  <2>7. Scanned' = Scanned \cup {p}
    <3>1. p[1] < nextInput
      BY <1>6, <2>1
    <3> QED  BY <1>1, <2>2, <2>6, <3>1 DEF Scanned
  <2> QED  BY <1>1, <1>2, <1>3, <2>2, <2>3, <2>4, <2>5, <2>7, ReportOne DEF Reporting
<1> QED  BY <1>8, <1>9

\* The scan is over when every input has been taken and given back.
LEMMA JoinReporting ==
  ASSUME Scanning, Reporting, Join
  PROVE  Reporting'
<1>1. /\ link' = link /\ nextInput' = nextInput /\ worker' = worker /\ phase = "scan"
      /\ phase' = "replay" /\ hits' = hits /\ reports' = reports /\ failed' = failed
      /\ slots' = slots
  BY DEF Join
<1>2. /\ WorkersType /\ WorkersHonest /\ link \in LinkType /\ nextInput \in Nat \ {0}
      /\ NumInputs' = NumInputs /\ Running' = Running
  BY <1>1, SameRunning DEF Scanning, WorkersType
<1>3. WorkersApart' /\ CounterBounded'
  BY <1>1, <1>2 DEF Reporting, WorkersApart, CounterBounded, Holding
<1>4. Scanned' = Scanned
  BY <1>1 DEF Scanned, HeldAt
<1>5. Scanned = Positions(link)
  <2>1. \A w \in Workers : \A p : ~HeldAt(w, p)
    BY <1>2 DEF Join, WorkersHonest, HeldAt
  <2>2. ASSUME NEW p \in Positions(link) PROVE p[1] < nextInput
    <3>1. p[1] \in 1..NumInputs /\ NumInputs \in Nat
      BY <1>2, PositionType
    <3>2. PICK w \in Running : TRUE
      BY <1>2, <3>1, SomeoneRuns
    <3>3. nextInput > NumInputs
      BY <1>2, <3>2 DEF Join, Running, WorkersHonest
    <3> QED  BY <1>2, <3>1, <3>3
  <2> QED  BY <2>1, <2>2 DEF Scanned
<1>6. \A q : RelocAt(q)' = RelocAt(q)
  BY <1>1 DEF RelocAt
<1>7. /\ \A S, x, k : DueAmong(S, x, k)' = DueAmong(S, x, k)
      /\ \A n : CountOf(n)' = CountOf(n)
  BY <1>1, <1>6 DEF DueAmong, CountOf, Due
<1>8. ReportsMatch'
  BY <1>1, <1>4, <1>5, <1>7 DEF Reporting, ReportsMatch
<1>9. FailedMatches'
  BY <1>1, <1>4, <1>6 DEF Reporting, FailedMatches
<1> QED  BY <1>3, <1>8, <1>9 DEF Reporting

\* The replay and the copies report nothing; at the end their errors count.
LEMMA LaterReporting ==
  ASSUME Reporting, UNCHANGED <<link, nextInput, worker, hits, reports>>,
         \/ phase' = phase /\ failed' = failed /\ (slots' = slots \/ phase # "done")
         \/ phase = "replay" /\ phase' = "done" /\ failed' = (failed \/ slots.error) /\ slots' = slots
  PROVE  Reporting'
<1>1. /\ NumInputs' = NumInputs /\ Running' = Running /\ Scanned' = Scanned
      /\ \A w : Holding(w)' = Holding(w)
  BY SameRunning DEF Scanned, HeldAt, Holding
<1>2. WorkersApart' /\ CounterBounded'
  BY <1>1 DEF Reporting, WorkersApart, CounterBounded
<1>3. \A q : RelocAt(q)' = RelocAt(q)
  BY DEF RelocAt
<1>4. /\ \A S, x, k : DueAmong(S, x, k)' = DueAmong(S, x, k)
      /\ \A n : CountOf(n)' = CountOf(n)
  BY <1>3 DEF DueAmong, CountOf, Due
<1>5. failed' \in BOOLEAN
  BY DEF Reporting, ReportsMatch
<1>6. ReportsMatch'
  BY <1>1, <1>4, <1>5 DEF Reporting, ReportsMatch
<1>7. FailedMatches'
  <2>1. failed <=> \/ \E x \in Symbols : reports[x]["Undef"] > 0
                   \/ \E p \in Scanned : RelocAt(p).type = "unsupported"
                   \/ phase = "done" /\ slots.error
    BY DEF Reporting, FailedMatches
  <2>2. CASE phase' = phase /\ failed' = failed /\ (slots' = slots \/ phase # "done")
    <3>1. (phase' = "done" /\ slots'.error) <=> (phase = "done" /\ slots.error)
      BY <2>2
    <3> QED  BY <1>1, <1>3, <2>1, <2>2, <3>1 DEF FailedMatches
  <2>3. CASE /\ phase = "replay" /\ phase' = "done" /\ failed' = (failed \/ slots.error)
             /\ slots' = slots
    BY <1>1, <1>3, <2>1, <2>3 DEF FailedMatches
  <2> QED  BY <2>2, <2>3
<1> QED  BY <1>2, <1>6, <1>7 DEF Reporting

LEMMA NextReporting == Scanning /\ Reporting /\ [Next]_vars => Reporting'
<1> SUFFICES ASSUME Scanning, Reporting, [Next]_vars PROVE Reporting'
  OBVIOUS
<1>1. ASSUME NEW w \in Workers, Fetch(w) PROVE Reporting'
  BY <1>1, FetchReporting
<1>2. ASSUME NEW w \in Workers, ScanOne(w) PROVE Reporting'
  BY <1>2, ScanOneReporting
<1>3. CASE Join
  BY <1>3, JoinReporting
<1>4. ASSUME NEW p \in deferred, Replay(p) PROVE Reporting'
  BY <1>4, LaterReporting DEF Replay
<1>5. CASE Copy
  BY <1>5, LaterReporting DEF Copy
<1>6. CASE Finish
  BY <1>6, LaterReporting DEF Finish
<1>7. CASE UNCHANGED vars
  BY <1>7, LaterReporting DEF vars
<1> QED BY <1>1, <1>2, <1>3, <1>4, <1>5, <1>6, <1>7 DEF Next

LEMMA AlwaysReporting == Spec => [](Scanning /\ Reporting)
<1>1. Init => Scanning /\ Reporting
  BY InitScanning, InitReporting
<1>2. Scanning /\ Reporting /\ [Next]_vars => (Scanning /\ Reporting)'
  BY NextScanning, NextReporting
<1> QED  BY <1>1, <1>2, PTL DEF Spec

\* Every undefined reference is reported once, whatever the number of workers and the
\* schedule: no input is scanned twice and none is missed, and with --warn-once each name
\* is reported once, by whichever worker meets it first (Relocator.cpp:183).
THEOREM ReportsComplete == Spec => []ReportsLikeSerial
<1>1. Scanning /\ Reporting => ReportsLikeSerial
  <2> SUFFICES ASSUME Scanning, Reporting, phase # "scan"
               PROVE  /\ \A x \in Symbols, k \in Reports : reports[x][k] = Counted(x, k)
                      /\ failed <=> \/ \E x \in Symbols : reports[x]["Undef"] > 0
                                    \/ \E p \in Positions(link) : RelocAt(p).type = "unsupported"
                                    \/ phase = "done" /\ slots.error
    BY DEF ReportsLikeSerial
  <2>1. Scanned = Positions(link)
    BY DEF Reporting, ReportsMatch
  <2>2. \A x \in Symbols, k \in Reports : reports[x][k] = CountOf(Cardinality(DueAmong(Scanned, x, k)))
    BY DEF Reporting, ReportsMatch
  <2>3. \A x, k : Counted(x, k) = CountOf(Cardinality(DueAmong(Positions(link), x, k)))
    BY DEF Counted, CountOf, DueAmong
  <2> QED  BY <2>1, <2>2, <2>3 DEF Reporting, FailedMatches
<1> QED  BY <1>1, AlwaysReporting, PTL

------------------------------------------------------------------------------
(***************************************************************************)
(* What the scan of the relocations creates: every reference through the   *)
(* .got finds a slot of its kind, and a slot of a symbol that is copied    *)
(* into the output is filled by the loader.                                *)
(***************************************************************************)

Bits   == {"GOT", "PLT", "Rel"}
Places == {InSlot(n) : n \in Nat} \cup {InReference(p) : p \in Nat \X Nat}
            \cup {InCopy(x) : x \in Symbols}

DynTypes == {"RELATIVE", "GLOB_DAT", "R64", "TPOFF64", "DTPMOD64", "DTPOFF64", "COPY"}

SlotStates ==
  [reserved : [Symbols -> SUBSET Bits],
   got : Seq([kind : SlotKinds, sym : Symbols \cup {NoSym}]),
   gotMap : [Symbols -> Nat], plt : Seq(Symbols),
   relaDyn : Seq([type : DynTypes, sym : Symbols \cup {NoSym}, at : Places]),
   toCopy : Seq(Symbols), copied : SUBSET Symbols, relaxed : SUBSET (Nat \X Nat),
   module : Nat, error : BOOLEAN]

\* What a step may leave alone: the slots, and what is to be done about references.
SameSlots(st, new) == new.got = st.got /\ new.gotMap = st.gotMap /\ new.module = st.module
SameLists(st, new) == new.toCopy = st.toCopy /\ new.copied = st.copied /\ new.relaxed = st.relaxed

------------------------------------------------------------------------------
\* The operations the scan is made of.

LEMMA ReserveLeaves ==
  ASSUME NEW st \in SlotStates, NEW x \in Symbols, NEW bit \in Bits,
         NEW new, new = Reserve(st, x, bit)
  PROVE  /\ new \in SlotStates /\ SameSlots(st, new) /\ SameLists(st, new)
         /\ new.relaDyn = st.relaDyn
         /\ new.reserved = [st.reserved EXCEPT ![x] = @ \cup {bit}]
<1> DEFINE bits == [st.reserved EXCEPT ![x] = @ \cup {bit}]
<1>1. bits \in [Symbols -> SUBSET Bits]
  BY DEF SlotStates
<1>2. new = [st EXCEPT !.reserved = bits]
  BY DEF Reserve, SlotStates
<1> SUFFICES /\ new \in SlotStates /\ SameSlots(st, new) /\ SameLists(st, new)
             /\ new.relaDyn = st.relaDyn /\ new.reserved = bits
  OBVIOUS
<1> HIDE DEF bits
<1> QED  BY <1>1, <1>2 DEF SlotStates, SameSlots, SameLists

LEMMA AddDynRelLeaves ==
  ASSUME NEW st \in SlotStates, NEW type \in DynTypes, NEW x \in Symbols \cup {NoSym},
         NEW at \in Places, NEW new, new = AddDynRel(st, type, x, at)
  PROVE  /\ new \in SlotStates /\ SameSlots(st, new) /\ SameLists(st, new)
         /\ new.reserved = st.reserved
         /\ new.relaDyn = Append(st.relaDyn, [type |-> type, sym |-> x, at |-> at])
<1> DEFINE rels == Append(st.relaDyn, [type |-> type, sym |-> x, at |-> at])
<1>1. rels \in Seq([type : DynTypes, sym : Symbols \cup {NoSym}, at : Places])
  BY DEF SlotStates
<1>2. new = [st EXCEPT !.relaDyn = rels]
  BY DEF AddDynRel, SlotStates
<1> SUFFICES /\ new \in SlotStates /\ SameSlots(st, new) /\ SameLists(st, new)
             /\ new.reserved = st.reserved /\ new.relaDyn = rels
  OBVIOUS
<1> HIDE DEF rels
<1> QED  BY <1>1, <1>2 DEF SlotStates, SameSlots, SameLists

LEMMA createGOTLeaves ==
  ASSUME NEW st \in SlotStates, NEW kind \in SlotKinds, NEW x \in Symbols,
         NEW new, new = createGOT(st, kind, x)
  PROVE  /\ new \in SlotStates /\ SameLists(st, new)
         /\ new.got = Append(st.got, [kind |-> kind, sym |-> x])
         /\ new.gotMap = [st.gotMap EXCEPT ![x] = Len(st.got) + 1]
         /\ new.module = st.module /\ new.reserved = st.reserved /\ new.relaDyn = st.relaDyn
<1> DEFINE slots1 == Append(st.got, [kind |-> kind, sym |-> x])
           map1   == [st.gotMap EXCEPT ![x] = Len(st.got) + 1]
<1>1. /\ slots1 \in Seq([kind : SlotKinds, sym : Symbols \cup {NoSym}])
      /\ map1 \in [Symbols -> Nat]
  BY DEF SlotStates
<1>2. new = [st EXCEPT !.got = slots1, !.gotMap = map1]
  BY DEF createGOT, SlotStates
<1> SUFFICES /\ new \in SlotStates /\ SameLists(st, new)
             /\ new.got = slots1 /\ new.gotMap = map1
             /\ new.module = st.module /\ new.reserved = st.reserved
             /\ new.relaDyn = st.relaDyn
  OBVIOUS
<1> HIDE DEF slots1, map1
<1> QED  BY <1>1, <1>2 DEF SlotStates, SameLists

LEMMA InsertLeaves ==
  ASSUME NEW st \in SlotStates, NEW x \in Symbols, NEW new, new = Insert(st, x)
  PROVE  /\ new \in SlotStates /\ SameSlots(st, new)
         /\ new.copied = st.copied /\ new.relaxed = st.relaxed
         /\ new.reserved = st.reserved /\ new.relaDyn = st.relaDyn
         /\ new.toCopy = st.toCopy \/ new.toCopy = Append(st.toCopy, x)
<1> DEFINE copies == IF x \in {st.toCopy[i] : i \in DOMAIN st.toCopy} THEN st.toCopy
                     ELSE Append(st.toCopy, x)
<1>1. copies \in Seq(Symbols) /\ (copies = st.toCopy \/ copies = Append(st.toCopy, x))
  BY DEF SlotStates
<1>2. new = [st EXCEPT !.toCopy = copies]
  BY DEF Insert, SlotStates
<1> HIDE DEF copies
<1>3. /\ new \in SlotStates /\ SameSlots(st, new)
      /\ new.copied = st.copied /\ new.relaxed = st.relaxed
      /\ new.reserved = st.reserved /\ new.relaDyn = st.relaDyn /\ new.toCopy = copies
  BY <1>1, <1>2 DEF SlotStates, SameSlots
<1> QED  BY <1>1, <1>3

LEMMA FailLeaves ==
  ASSUME NEW st \in SlotStates, NEW new, new = Fail(st)
  PROVE  /\ new \in SlotStates /\ SameSlots(st, new) /\ SameLists(st, new)
         /\ new.reserved = st.reserved /\ new.relaDyn = st.relaDyn
BY DEF Fail, SlotStates, SameSlots, SameLists

------------------------------------------------------------------------------
\* What one relocation may do.

\* The dynamic relocations are only added to.
OnlyAdds(st, new) ==
  \A i \in 1..Len(st.relaDyn) : i \in 1..Len(new.relaDyn) /\ new.relaDyn[i] = st.relaDyn[i]

Holds(st, rel) == \E i \in 1..Len(st.relaDyn) : st.relaDyn[i] = rel

SameGOT(st, new) == \A y \in Symbols : "GOT" \in new.reserved[y] <=> "GOT" \in st.reserved[y]

FilledByLoader(st, n) ==
  \E i \in 1..Len(st.relaDyn) : st.relaDyn[i].at = InSlot(n) /\ st.relaDyn[i].type = "GLOB_DAT"

\* A slot for x; that of a library's symbol is filled by the loader.
NewSlot(st, new, kind, x, s, out) ==
  /\ SameLists(st, new)
  /\ new.got = Append(st.got, [kind |-> kind, sym |-> x])
  /\ new.gotMap = [st.gotMap EXCEPT ![x] = Len(st.got) + 1]
  /\ new.module = st.module
  /\ \A y \in Symbols \ {x} : "GOT" \in new.reserved[y] <=> "GOT" \in st.reserved[y]
  /\ kind = "Regular" /\ s.desc = "Dyn" /\ out # "static" => FilledByLoader(new, Len(st.got) + 1)

NewModule(st, new, x) ==
  /\ SameLists(st, new) /\ SameGOT(st, new)
  /\ new.gotMap = [st.gotMap EXCEPT ![x] = new.module]
  /\ \/ new.module = st.module /\ st.module # 0 /\ new.got = st.got
     \/ /\ new.module = Len(st.got) + 1
        /\ new.got = Append(st.got, [kind |-> "TLS_LD", sym |-> NoSym])

LEMMA AppendAdds ==
  ASSUME NEW st \in SlotStates, NEW new \in SlotStates, NEW rel,
         new.relaDyn = Append(st.relaDyn, rel)
  PROVE  OnlyAdds(st, new) /\ Holds(new, rel)
<1>1. Len(new.relaDyn) \in 1..Len(new.relaDyn) /\ new.relaDyn[Len(new.relaDyn)] = rel
  BY DEF SlotStates
<1> QED  BY <1>1 DEF OnlyAdds, Holds, SlotStates

LEMMA SameAdds ==
  ASSUME NEW st, NEW new, new.relaDyn = st.relaDyn
  PROVE  OnlyAdds(st, new)
BY DEF OnlyAdds

LEMMA AddsMore ==
  ASSUME NEW a, NEW b, NEW c, OnlyAdds(a, b), OnlyAdds(b, c)
  PROVE  OnlyAdds(a, c)
BY DEF OnlyAdds

LEMMA StillFilled ==
  ASSUME NEW st, NEW new, NEW n, OnlyAdds(st, new), FilledByLoader(st, n)
  PROVE  FilledByLoader(new, n)
BY DEF OnlyAdds, FilledByLoader

\* A dynamic relocation at the reference itself makes no slot.
LEMMA RelocateReferenceOutcome ==
  ASSUME NEW st \in SlotStates, NEW r, r.sym \in Symbols, NEW p \in Nat \X Nat,
         NEW type \in DynTypes, NEW out,
         NEW new, new = RelocateReference(st, r, p, type, out)
  PROVE  /\ new \in SlotStates /\ OnlyAdds(st, new)
         /\ SameSlots(st, new) /\ SameLists(st, new) /\ SameGOT(st, new)
<1>1. CASE checkDynamicRelocAllowed(r, out)
  <2>1. PICK held : held = Reserve(st, r.sym, "Rel")
    OBVIOUS
  <2>2. "Rel" \in Bits /\ InReference(p) \in Places
    BY DEF Bits, Places
  <2>3. /\ held \in SlotStates /\ SameSlots(st, held) /\ SameLists(st, held)
        /\ held.relaDyn = st.relaDyn
        /\ held.reserved = [st.reserved EXCEPT ![r.sym] = @ \cup {"Rel"}]
    BY <2>1, <2>2, ReserveLeaves
  <2>4. new = AddDynRel(held, type, r.sym, InReference(p))
    BY <1>1, <2>1 DEF RelocateReference
  <2>5. /\ new \in SlotStates /\ SameSlots(held, new) /\ SameLists(held, new)
        /\ new.reserved = held.reserved
        /\ new.relaDyn = Append(held.relaDyn, [type |-> type, sym |-> r.sym, at |-> InReference(p)])
    <3>1. held \in SlotStates /\ r.sym \in Symbols \cup {NoSym} /\ InReference(p) \in Places
      BY <2>2, <2>3
    <3> QED BY <2>4, <3>1, AddDynRelLeaves
  <2>6. OnlyAdds(st, new)
    BY <2>3, <2>5, AppendAdds
  <2>7. ASSUME NEW y \in Symbols
        PROVE  "GOT" \in new.reserved[y] <=> "GOT" \in st.reserved[y]
    <3>1. st.reserved \in [Symbols -> SUBSET Bits] /\ new.reserved = held.reserved
      BY <2>5 DEF SlotStates
    <3>2. CASE y = r.sym
      BY <2>3, <3>1, <3>2
    <3>3. CASE y # r.sym
      BY <2>3, <3>1, <3>3
    <3> QED  BY <3>2, <3>3
  <2> QED  BY <2>3, <2>5, <2>6, <2>7 DEF SameSlots, SameLists, SameGOT
<1>2. CASE ~checkDynamicRelocAllowed(r, out)
  <2>1. new = Fail(st)
    BY <1>2 DEF RelocateReference
  <2> QED  BY <2>1, FailLeaves, SameAdds DEF SameGOT
<1> QED  BY <1>1, <1>2

\* CreateGOT makes one slot; the loader fills that of a library's symbol.
LEMMA CreateGOTOutcome ==
  ASSUME NEW st \in SlotStates, NEW x \in Symbols, NEW s, NEW out,
         NEW new, new = CreateGOT(st, x, s, out)
  PROVE  /\ new \in SlotStates /\ OnlyAdds(st, new) /\ NewSlot(st, new, "Regular", x, s, out)
         /\ new.reserved = st.reserved
<1>1. PICK made : made = createGOT(st, "Regular", x)
  OBVIOUS
<1>2. /\ made \in SlotStates /\ SameLists(st, made)
      /\ made.got = Append(st.got, [kind |-> "Regular", sym |-> x])
      /\ made.gotMap = [st.gotMap EXCEPT ![x] = Len(st.got) + 1]
      /\ made.module = st.module /\ made.reserved = st.reserved /\ made.relaDyn = st.relaDyn
  BY <1>1, createGOTLeaves DEF SlotKinds
<1>3. Len(made.got) = Len(st.got) + 1 /\ InSlot(Len(made.got)) \in Places
  BY <1>2 DEF Places, SlotStates
<1>4. CASE isCodeStatic(out) \/ (s.vis # "default" /\ isWeakUndef(s))
  <2>1. new = made
    BY <1>1, <1>4 DEF CreateGOT
  <2>2. ~(s.desc = "Dyn" /\ out # "static")
    BY <1>4 DEF isCodeStatic, isWeakUndef
  <2> QED  BY <1>2, <2>1, <2>2, SameAdds DEF NewSlot
<1>5. CASE ~(isCodeStatic(out) \/ (s.vis # "default" /\ isWeakUndef(s)))
  <2>1. PICK type : type = IF isSymbolPreemptible(s, out) THEN "GLOB_DAT" ELSE "RELATIVE"
    OBVIOUS
  <2>2. type \in DynTypes
    BY <2>1 DEF DynTypes
  <2>3. new = AddDynRel(made, type, x, InSlot(Len(made.got)))
    BY <1>1, <1>5, <2>1 DEF CreateGOT
  <2>4. PICK rel : rel = [type |-> type, sym |-> x, at |-> InSlot(Len(made.got))]
    OBVIOUS
  <2>5. /\ new \in SlotStates /\ SameSlots(made, new) /\ SameLists(made, new)
        /\ new.reserved = made.reserved /\ new.relaDyn = Append(made.relaDyn, rel)
    BY <1>2, <1>3, <2>2, <2>3, <2>4, AddDynRelLeaves
  <2>6. OnlyAdds(made, new) /\ Holds(new, rel)
    BY <1>2, <2>5, AppendAdds
  <2>7. OnlyAdds(st, new)
    BY <1>2, <2>6 DEF OnlyAdds
  <2>8. s.desc = "Dyn" => type = "GLOB_DAT"
    BY <1>5, <2>1 DEF isSymbolPreemptible, isCodeStatic
  <2>9. s.desc = "Dyn" => FilledByLoader(new, Len(st.got) + 1)
    BY <1>3, <2>4, <2>6, <2>8 DEF FilledByLoader, Holds
  <2> QED  BY <1>2, <2>5, <2>7, <2>9 DEF NewSlot, SameSlots, SameLists
<1> QED  BY <1>4, <1>5

------------------------------------------------------------------------------
\* A slot is made, whatever is done about it before the relocation has been scanned.
SlotMade(st, new, kind, x, s, out) ==
  new \in SlotStates /\ OnlyAdds(st, new) /\ NewSlot(st, new, kind, x, s, out)

LEMMA SlotFilled ==
  ASSUME NEW st \in SlotStates, NEW made, NEW kind, NEW x \in Symbols, NEW s, NEW out,
         kind # "Regular", SlotMade(st, made, kind, x, s, out),
         NEW type \in DynTypes, NEW n \in Nat, NEW new, new = AddDynRel(made, type, x, InSlot(n))
  PROVE  SlotMade(st, new, kind, x, s, out)
<1>1. made \in SlotStates /\ InSlot(n) \in Places
  BY DEF SlotMade, Places
<1>2. PICK rel : rel = [type |-> type, sym |-> x, at |-> InSlot(n)]
  OBVIOUS
<1>3. /\ new \in SlotStates /\ SameSlots(made, new) /\ SameLists(made, new)
      /\ new.reserved = made.reserved /\ new.relaDyn = Append(made.relaDyn, rel)
  BY <1>1, <1>2, AddDynRelLeaves
<1>4. OnlyAdds(made, new)
  BY <1>1, <1>3, AppendAdds
<1>5. OnlyAdds(st, new)
  BY <1>4, AddsMore DEF SlotMade
<1>6. NewSlot(st, new, kind, x, s, out)
  BY <1>3 DEF SlotMade, NewSlot, SameSlots, SameLists
<1> QED  BY <1>3, <1>5, <1>6 DEF SlotMade

LEMMA SlotReserved ==
  ASSUME NEW st \in SlotStates, NEW made, NEW kind, NEW x \in Symbols, NEW s, NEW out,
         SlotMade(st, made, kind, x, s, out), NEW new, new = Reserve(made, x, "GOT")
  PROVE  SlotMade(st, new, kind, x, s, out)
<1>1. made \in SlotStates /\ "GOT" \in Bits
  BY DEF SlotMade, Bits
<1>2. /\ new \in SlotStates /\ SameSlots(made, new) /\ SameLists(made, new)
      /\ new.relaDyn = made.relaDyn
      /\ new.reserved = [made.reserved EXCEPT ![x] = @ \cup {"GOT"}]
  BY <1>1, ReserveLeaves
<1>3. \A y \in Symbols \ {x} : new.reserved[y] = made.reserved[y]
  BY <1>1, <1>2 DEF SlotStates
<1>4. OnlyAdds(st, new)
  BY <1>2 DEF SlotMade, OnlyAdds
<1>5. kind = "Regular" /\ s.desc = "Dyn" /\ out # "static" => FilledByLoader(new, Len(st.got) + 1)
  BY <1>2 DEF SlotMade, NewSlot, FilledByLoader
<1>6. /\ SameLists(st, new)
      /\ new.got = Append(st.got, [kind |-> kind, sym |-> x])
      /\ new.gotMap = [st.gotMap EXCEPT ![x] = Len(st.got) + 1]
      /\ new.module = st.module
  BY <1>2 DEF SlotMade, NewSlot, SameSlots, SameLists
<1>7. \A y \in Symbols \ {x} : "GOT" \in new.reserved[y] <=> "GOT" \in st.reserved[y]
  BY <1>3 DEF SlotMade, NewSlot
<1> QED  BY <1>2, <1>4, <1>5, <1>6, <1>7 DEF SlotMade, NewSlot

\* The bit of a symbol says that a slot has been made.
LEMMA GOTOnceOutcome ==
  ASSUME NEW st \in SlotStates, NEW x \in Symbols, NEW s, NEW out,
         NEW new, new = GOTOnce(st, x, s, out)
  PROVE  \/ new = st /\ "GOT" \in st.reserved[x]
         \/ SlotMade(st, new, "Regular", x, s, out)
<1>1. CASE IsReserved(st, x, "GOT")
  BY <1>1 DEF GOTOnce, IsReserved
<1>2. CASE ~IsReserved(st, x, "GOT")
  <2>1. PICK made : made = CreateGOT(st, x, s, out)
    OBVIOUS
  <2>2. SlotMade(st, made, "Regular", x, s, out)
    BY <2>1, CreateGOTOutcome DEF SlotMade
  <2>3. new = Reserve(made, x, "GOT")
    BY <1>2, <2>1 DEF GOTOnce
  <2> QED  BY <2>2, <2>3, SlotReserved
<1> QED  BY <1>1, <1>2

LEMMA createGOTMakes ==
  ASSUME NEW st \in SlotStates, NEW kind \in SlotKinds, kind # "Regular", NEW x \in Symbols,
         NEW s, NEW out, NEW new, new = createGOT(st, kind, x)
  PROVE  SlotMade(st, new, kind, x, s, out) /\ Len(new.got) \in Nat
<1>1. /\ new \in SlotStates /\ SameLists(st, new)
      /\ new.got = Append(st.got, [kind |-> kind, sym |-> x])
      /\ new.gotMap = [st.gotMap EXCEPT ![x] = Len(st.got) + 1]
      /\ new.module = st.module /\ new.reserved = st.reserved /\ new.relaDyn = st.relaDyn
  BY createGOTLeaves
<1>2. Len(new.got) \in Nat
  BY <1>1 DEF SlotStates
<1> QED  BY <1>1, <1>2, SameAdds DEF SlotMade, NewSlot

LEMMA TLSIEOutcome ==
  ASSUME NEW st \in SlotStates, NEW x \in Symbols, NEW s, NEW out,
         NEW new, new = TLSIE(st, x, s, out)
  PROVE  \/ new = st /\ "GOT" \in st.reserved[x]
         \/ SlotMade(st, new, "TLS_IE", x, s, out)
<1>1. CASE IsReserved(st, x, "GOT")
  BY <1>1 DEF TLSIE, IsReserved
<1>2. CASE ~IsReserved(st, x, "GOT")
  <2>1. PICK made : made = createGOT(st, "TLS_IE", x)
    OBVIOUS
  <2>2. SlotMade(st, made, "TLS_IE", x, s, out) /\ Len(made.got) \in Nat
    BY <2>1, createGOTMakes DEF SlotKinds
  <2>3. PICK filled : filled = AddDynRel(made, "TPOFF64", x, InSlot(Len(made.got)))
    OBVIOUS
  <2>4. SlotMade(st, filled, "TLS_IE", x, s, out)
    BY <2>2, <2>3, SlotFilled DEF DynTypes
  <2>5. new = Reserve(made, x, "GOT") \/ new = Reserve(filled, x, "GOT")
    BY <1>2, <2>1, <2>3 DEF TLSIE
  <2> QED  BY <2>2, <2>4, <2>5, SlotReserved
<1> QED  BY <1>1, <1>2

LEMMA TLSGDOutcome ==
  ASSUME NEW st \in SlotStates, NEW x \in Symbols, NEW s, NEW out,
         NEW new, new = TLSGD(st, x, s, out)
  PROVE  \/ new = st /\ "GOT" \in st.reserved[x]
         \/ SlotMade(st, new, "TLS_GD", x, s, out)
<1>1. CASE IsReserved(st, x, "GOT")
  BY <1>1 DEF TLSGD, IsReserved
<1>2. CASE ~IsReserved(st, x, "GOT")
  <2>1. PICK made : made = createGOT(st, "TLS_GD", x)
    OBVIOUS
  <2>2. SlotMade(st, made, "TLS_GD", x, s, out) /\ Len(made.got) \in Nat
    BY <2>1, createGOTMakes DEF SlotKinds
  <2>3. PICK n : n = Len(made.got)
    OBVIOUS
  <2>4. PICK mod : mod = AddDynRel(made, "DTPMOD64", x, InSlot(n))
    OBVIOUS
  <2>5. PICK both : both = AddDynRel(mod, "DTPOFF64", x, InSlot(n))
    OBVIOUS
  <2>6. SlotMade(st, mod, "TLS_GD", x, s, out)
    BY <2>2, <2>3, <2>4, SlotFilled DEF DynTypes
  <2>7. SlotMade(st, both, "TLS_GD", x, s, out)
    BY <2>2, <2>3, <2>5, <2>6, SlotFilled DEF DynTypes
  <2>8. new = Reserve(mod, x, "GOT") \/ new = Reserve(both, x, "GOT")
    BY <1>2, <2>1, <2>3, <2>4, <2>5 DEF TLSGD
  <2> QED  BY <2>6, <2>7, <2>8, SlotReserved
<1> QED  BY <1>1, <1>2

\* The module has one slot, which every symbol that asks for it gets.
LEMMA getTLSModuleIDOutcome ==
  ASSUME NEW st \in SlotStates, NEW x \in Symbols, NEW new, new = getTLSModuleID(st, x)
  PROVE  new \in SlotStates /\ OnlyAdds(st, new) /\ NewModule(st, new, x)
<1>1. CASE st.module # 0
  <2>1. new = [st EXCEPT !.gotMap = [st.gotMap EXCEPT ![x] = st.module]]
    BY <1>1 DEF getTLSModuleID, SlotStates
  <2>2. PICK map : map = [st.gotMap EXCEPT ![x] = st.module]
    OBVIOUS
  <2>3. map \in [Symbols -> Nat]
    BY <2>2 DEF SlotStates
  <2>4. /\ new \in SlotStates /\ new.gotMap = map /\ SameLists(st, new) /\ SameGOT(st, new)
        /\ new.module = st.module /\ new.got = st.got /\ new.relaDyn = st.relaDyn
    BY <2>1, <2>2, <2>3 DEF SlotStates, SameLists, SameGOT
  <2> QED  BY <1>1, <2>2, <2>4, SameAdds DEF NewModule
<1>2. CASE st.module = 0
  <2>1. PICK n : n = Len(st.got) + 1
    OBVIOUS
  <2>2. PICK slots1 : slots1 = Append(st.got, [kind |-> "TLS_LD", sym |-> NoSym])
    OBVIOUS
  <2>3. PICK made : made = [st EXCEPT !.got = slots1, !.module = n]
    OBVIOUS
  <2>4. n \in Nat /\ slots1 \in Seq([kind : SlotKinds, sym : Symbols \cup {NoSym}])
        /\ InSlot(n) \in Places /\ NoSym \in Symbols \cup {NoSym} /\ "DTPMOD64" \in DynTypes
    BY <2>1, <2>2 DEF SlotStates, SlotKinds, Places, DynTypes
  <2>5. /\ made \in SlotStates /\ SameLists(st, made) /\ made.gotMap = st.gotMap
        /\ made.got = slots1 /\ made.module = n
        /\ made.reserved = st.reserved /\ made.relaDyn = st.relaDyn
    BY <2>3, <2>4 DEF SlotStates, SameLists
  <2>6. PICK filled : filled = AddDynRel(made, "DTPMOD64", NoSym, InSlot(n))
    OBVIOUS
  <2>7. PICK rel : rel = [type |-> "DTPMOD64", sym |-> NoSym, at |-> InSlot(n)]
    OBVIOUS
  <2>8. /\ filled \in SlotStates /\ SameSlots(made, filled) /\ SameLists(made, filled)
        /\ filled.reserved = made.reserved /\ filled.relaDyn = Append(made.relaDyn, rel)
    BY <2>4, <2>5, <2>6, <2>7, AddDynRelLeaves
  <2>9. PICK map : map = [st.gotMap EXCEPT ![x] = n]
    OBVIOUS
  <2>10. map \in [Symbols -> Nat]
    BY <2>4, <2>9 DEF SlotStates
  <2>11. new = [filled EXCEPT !.gotMap = map]
    <3>1. new = [filled EXCEPT !.gotMap[x] = n]
      <4>1. [st EXCEPT !.got = Append(@, [kind |-> "TLS_LD", sym |-> NoSym]), !.module = n] = made
        BY <2>2, <2>3 DEF SlotStates
      <4> QED  BY <1>2, <2>1, <2>6, <4>1 DEF getTLSModuleID
    <3> QED  BY <2>5, <2>8, <2>9, <3>1 DEF SlotStates, SameSlots
  <2>12. /\ new \in SlotStates /\ new.gotMap = map /\ SameLists(filled, new)
         /\ new.reserved = filled.reserved
         /\ new.module = filled.module /\ new.got = filled.got /\ new.relaDyn = filled.relaDyn
    BY <2>8, <2>10, <2>11 DEF SlotStates, SameLists
  <2>13. OnlyAdds(st, new)
    <3>1. OnlyAdds(made, filled)
      BY <2>5, <2>8, AppendAdds
    <3> QED  BY <2>5, <2>12, <3>1 DEF OnlyAdds
  <2> QED  BY <2>1, <2>2, <2>5, <2>8, <2>9, <2>12, <2>13
           DEF NewModule, SameSlots, SameLists, SameGOT
<1> QED  BY <1>1, <1>2

LEMMA scanPLT32Outcome ==
  ASSUME NEW st \in SlotStates, NEW x \in Symbols, NEW s, NEW out,
         NEW new, new = scanPLT32(st, x, s, out)
  PROVE  /\ new \in SlotStates /\ OnlyAdds(st, new)
         /\ SameSlots(st, new) /\ SameLists(st, new) /\ SameGOT(st, new)
<1>1. CASE new = st
  BY <1>1, SameAdds DEF SameSlots, SameLists, SameGOT
<1>2. CASE new # st
  <2>1. PICK plts : plts = Append(st.plt, x)
    OBVIOUS
  <2>2. PICK made : made = [st EXCEPT !.plt = plts]
    OBVIOUS
  <2>3. plts \in Seq(Symbols)
    BY <2>1 DEF SlotStates
  <2>4. /\ made \in SlotStates /\ SameSlots(st, made) /\ SameLists(st, made)
        /\ made.reserved = st.reserved /\ made.relaDyn = st.relaDyn
    BY <2>2, <2>3 DEF SlotStates, SameSlots, SameLists
  <2>5. [st EXCEPT !.plt = Append(@, x)] = made
    BY <2>1, <2>2 DEF SlotStates
  <2>6. new = Reserve(made, x, "PLT") /\ "PLT" \in Bits
    BY <1>2, <2>5 DEF scanPLT32, Bits
  <2>7. /\ new \in SlotStates /\ SameSlots(made, new) /\ SameLists(made, new)
        /\ new.relaDyn = made.relaDyn
        /\ new.reserved = [made.reserved EXCEPT ![x] = @ \cup {"PLT"}]
    BY <2>4, <2>6, ReserveLeaves
  <2>8. ASSUME NEW y \in Symbols
        PROVE  "GOT" \in new.reserved[y] <=> "GOT" \in st.reserved[y]
    <3>1. st.reserved \in [Symbols -> SUBSET Bits]
      BY DEF SlotStates
    <3>2. CASE y = x
      BY <2>4, <2>7, <3>1, <3>2
    <3>3. CASE y # x
      BY <2>4, <2>7, <3>1, <3>3
    <3> QED  BY <3>2, <3>3
  <2> QED  BY <2>4, <2>7, <2>8, SameAdds DEF SameSlots, SameLists, SameGOT
<1> QED  BY <1>1, <1>2

------------------------------------------------------------------------------
\* What the scan of one relocation does to the slots, when nothing has been copied yet.
\* Nothing is expected of the relocation, and only a copy may be asked for;
NothingExpected(st, new, r) ==
  /\ Expects(r) = {} /\ SameSlots(st, new) /\ SameGOT(st, new)
  /\ new.relaxed = st.relaxed
  /\ \/ new.toCopy = st.toCopy
     \/ new.toCopy = Append(st.toCopy, r.sym) /\ link.syms[r.sym].desc = "Dyn"

\* or it is relaxed and will not look for a slot;
Relaxed(st, new, p) ==
  /\ SameSlots(st, new) /\ SameGOT(st, new)
  /\ new.toCopy = st.toCopy /\ new.relaxed = st.relaxed \cup {p}

\* or the symbol has a slot, or gets one of the kind expected.
Served(st, new, r) ==
  \/ new = st /\ "GOT" \in st.reserved[r.sym]
  \/ \E kind \in Expects(r) :
       NewSlot(st, new, kind, r.sym, link.syms[r.sym], link.output)
  \/ NewModule(st, new, r.sym) /\ "TLS_LD" \in Expects(r)

Outcome(st, new, p) ==
  /\ new \in SlotStates /\ OnlyAdds(st, new) /\ new.copied = st.copied
  /\ \/ NothingExpected(st, new, RelocAt(p))
     \/ Relaxed(st, new, p)
     \/ Served(st, new, RelocAt(p))

LEMMA RelaxOrGOTOutcome ==
  ASSUME NEW st \in SlotStates, NEW p \in Nat \X Nat, NEW r, r.sym \in Symbols, NEW s, NEW out,
         NEW new, new = RelaxOrGOT(st, r, p, s, out)
  PROVE  \/ /\ new \in SlotStates /\ OnlyAdds(st, new) /\ Relaxed(st, new, p)
            /\ new.copied = st.copied
         \/ new = st /\ "GOT" \in st.reserved[r.sym]
         \/ SlotMade(st, new, "Regular", r.sym, s, out)
<1>1. CASE isGOTPCRELXRelaxable(r, s, out)
  <2>1. PICK set : set = st.relaxed \cup {p}
    OBVIOUS
  <2>2. set \in SUBSET (Nat \X Nat)
    BY <2>1 DEF SlotStates
  <2>3. new = [st EXCEPT !.relaxed = set]
    BY <1>1, <2>1 DEF RelaxOrGOT, SlotStates
  <2>4. /\ new \in SlotStates /\ SameSlots(st, new) /\ new.reserved = st.reserved
        /\ new.toCopy = st.toCopy /\ new.relaxed = set /\ new.copied = st.copied
        /\ new.relaDyn = st.relaDyn
    BY <2>2, <2>3 DEF SlotStates, SameSlots
  <2> QED  BY <2>1, <2>4, SameAdds DEF Relaxed, SameGOT
<1>2. CASE ~isGOTPCRELXRelaxable(r, s, out)
  <2>1. new = GOTOnce(st, r.sym, s, out)
    BY <1>2 DEF RelaxOrGOT
  <2> QED  BY <2>1, GOTOnceOutcome
<1> QED  BY <1>1, <1>2

LEMMA UntouchedIsOutcome ==
  ASSUME NEW st \in SlotStates, NEW p, Expects(RelocAt(p)) = {}, NEW new \in SlotStates,
         OnlyAdds(st, new), SameSlots(st, new), SameLists(st, new), SameGOT(st, new)
  PROVE  Outcome(st, new, p)
BY DEF Outcome, NothingExpected, SameLists

LEMMA StutterIsOutcome ==
  ASSUME NEW st \in SlotStates, NEW p, Expects(RelocAt(p)) = {}
  PROVE  Outcome(st, st, p)
BY SameAdds, UntouchedIsOutcome DEF SameSlots, SameLists, SameGOT

LEMMA SlotIsOutcome ==
  ASSUME NEW st \in SlotStates, NEW p, NEW new, NEW kind \in Expects(RelocAt(p)),
         \/ new = st /\ "GOT" \in st.reserved[RelocAt(p).sym]
         \/ SlotMade(st, new, kind, RelocAt(p).sym, link.syms[RelocAt(p).sym], link.output)
  PROVE  Outcome(st, new, p)
<1>1. CASE new = st /\ "GOT" \in st.reserved[RelocAt(p).sym]
  BY <1>1, SameAdds DEF Outcome, Served
<1>2. CASE SlotMade(st, new, kind, RelocAt(p).sym, link.syms[RelocAt(p).sym], link.output)
  BY <1>2 DEF Outcome, Served, SlotMade, NewSlot, SameLists
<1> QED  BY <1>1, <1>2

LEMMA RelaxIsOutcome ==
  ASSUME NEW st \in SlotStates, NEW p \in Nat \X Nat, RelocAt(p).sym \in Symbols,
         "Regular" \in Expects(RelocAt(p)),
         NEW new, new = RelaxOrGOT(st, RelocAt(p), p, link.syms[RelocAt(p).sym], link.output)
  PROVE  Outcome(st, new, p)
<1>1. CASE /\ new \in SlotStates /\ OnlyAdds(st, new) /\ Relaxed(st, new, p)
           /\ new.copied = st.copied
  BY <1>1 DEF Outcome
<1>2. CASE ~(/\ new \in SlotStates /\ OnlyAdds(st, new) /\ Relaxed(st, new, p)
             /\ new.copied = st.copied)
  <2>1. \/ new = st /\ "GOT" \in st.reserved[RelocAt(p).sym]
        \/ SlotMade(st, new, "Regular", RelocAt(p).sym, link.syms[RelocAt(p).sym], link.output)
    BY <1>2, RelaxOrGOTOutcome
  <2> QED  BY <2>1, SlotIsOutcome
<1> QED  BY <1>1, <1>2

\* What is deferred may be scanned.
LEMMA DeferredParts ==
  ASSUME link \in LinkType, NEW p \in Serial!ToScan
  PROVE  /\ p \in Nat \X Nat /\ RelocAt(p) \in Relocs
         /\ RelocAt(p).sym \in Symbols /\ RelocAt(p).type # "unsupported"
         /\ link.syms[RelocAt(p).sym] \in SymbolInfos
<1>1. /\ p = <<p[1], p[2]>> /\ p[1] \in 1..NumInputs /\ p[2] \in 1..Len(link.inputs[p[1]])
      /\ Deferrable(link, p)
  BY PositionParts
<1>2. link.inputs \in Seq(Seq(Relocs)) /\ link.syms \in [Symbols -> SymbolInfos]
  BY DEF LinkType
<1>3. link.inputs[p[1]] \in Seq(Relocs)
  BY <1>1, <1>2 DEF NumInputs
<1>4. RelocAt(p) \in Relocs
  BY <1>1, <1>3 DEF RelocAt
<1>5. p[1] \in Nat /\ p[2] \in Nat
  BY <1>1, <1>2, <1>3 DEF NumInputs
<1>6. p \in Nat \X Nat
  BY <1>1, <1>5
<1> QED  BY <1>1, <1>2, <1>4, <1>6 DEF Relocs, Deferrable, RelocAt

LEMMA LocalOutcome ==
  ASSUME link \in LinkType, NEW p \in Serial!ToScan, NEW st \in SlotStates, NEW new,
         link.syms[RelocAt(p).sym].local,
         new = scanLocalReloc(st, RelocAt(p), p, link.syms[RelocAt(p).sym], link.output)
  PROVE  Outcome(st, new, p)
<1>1. PICK r : r = RelocAt(p)
  OBVIOUS
<1>2. PICK s : s = link.syms[r.sym]
  OBVIOUS
<1>3. p \in Nat \X Nat /\ r.sym \in Symbols /\ r.type \in RelocTypes /\ s.local
  BY <1>1, <1>2, DeferredParts DEF Relocs
<1>4. new = scanLocalReloc(st, r, p, s, link.output)
  BY <1>1, <1>2
<1>5. CASE r.type = "R64"
  <2>1. Expects(r) = {}
    BY <1>5 DEF Expects
  <2>2. new = st \/ new = RelocateReference(st, r, p, "RELATIVE", link.output)
    BY <1>4, <1>5 DEF scanLocalReloc
  <2>3. "RELATIVE" \in DynTypes
    BY DEF DynTypes
  <2> QED  BY <1>1, <1>3, <2>1, <2>2, <2>3, StutterIsOutcome, RelocateReferenceOutcome,
              UntouchedIsOutcome
<1>6. CASE r.type = "R32"
  <2>1. Expects(r) = {}
    BY <1>6 DEF Expects
  <2>2. new = st \/ new = Fail(st)
    BY <1>4, <1>6 DEF scanLocalReloc
  <2>3. \A f : f = Fail(st) => /\ f \in SlotStates /\ SameSlots(st, f) /\ SameLists(st, f)
                               /\ SameGOT(st, f) /\ OnlyAdds(st, f)
    BY FailLeaves, SameAdds DEF SameGOT
  <2> QED  BY <1>1, <2>1, <2>2, <2>3, StutterIsOutcome, UntouchedIsOutcome
<1>7. CASE r.type = "GOTTPOFF"
  <2>1. "TLS_IE" \in Expects(r)
    BY <1>7 DEF Expects
  <2>2. new = TLSIE(st, r.sym, s, link.output)
    BY <1>4, <1>7 DEF scanLocalReloc
  <2> QED  BY <1>1, <1>2, <1>3, <2>1, <2>2, TLSIEOutcome, SlotIsOutcome
<1>8. CASE r.type = "GOTPCRELX"
  <2>1. "Regular" \in Expects(r)
    BY <1>8 DEF Expects
  <2>2. new = RelaxOrGOT(st, r, p, s, link.output)
    BY <1>4, <1>8 DEF scanLocalReloc
  <2> QED  BY <1>1, <1>2, <1>3, <2>1, <2>2, RelaxIsOutcome
<1>9. CASE r.type = "GOTPCREL"
  <2>1. "Regular" \in Expects(r)
    BY <1>9 DEF Expects
  <2>2. new = GOTOnce(st, r.sym, s, link.output)
    BY <1>4, <1>9 DEF scanLocalReloc
  <2> QED  BY <1>1, <1>2, <1>3, <2>1, <2>2, GOTOnceOutcome, SlotIsOutcome
<1>10. CASE r.type = "TLSLD"
  <2>1. "TLS_LD" \in Expects(r)
    BY <1>10 DEF Expects
  <2>2. new = getTLSModuleID(st, r.sym)
    BY <1>4, <1>10 DEF scanLocalReloc
  <2> QED  BY <1>1, <1>3, <2>1, <2>2, getTLSModuleIDOutcome DEF Outcome, Served, NewModule, SameLists
<1>11. CASE r.type \notin {"R64", "R32", "GOTTPOFF", "GOTPCRELX", "GOTPCREL", "TLSLD"}
  <2>1. Expects(r) = {}
    BY <1>1, <1>2, <1>3, <1>11 DEF Expects
  <2>2. new = st
    BY <1>4, <1>11 DEF scanLocalReloc
  <2> QED  BY <1>1, <2>1, <2>2, StutterIsOutcome
<1> QED  BY <1>5, <1>6, <1>7, <1>8, <1>9, <1>10, <1>11

LEMMA AbsoluteOutcome ==
  ASSUME NEW st \in SlotStates, NEW p \in Nat \X Nat, NEW r, r = RelocAt(p), r.sym \in Symbols,
         r.type \in {"R64", "R32"}, NEW s, s = link.syms[r.sym],
         NEW new, new = scanAbsolute(st, r, p, s, link.output)
  PROVE  Outcome(st, new, p)
<1>1. Expects(r) = {}
  BY DEF Expects
<1>2. CASE new = st
  BY <1>1, <1>2, StutterIsOutcome
<1>3. CASE new = Insert(st, r.sym) /\ symbolNeedsCopyReloc(r, s, link.output)
  <2>1. /\ new \in SlotStates /\ SameSlots(st, new)
        /\ new.copied = st.copied /\ new.relaxed = st.relaxed
        /\ new.reserved = st.reserved /\ new.relaDyn = st.relaDyn
        /\ new.toCopy = st.toCopy \/ new.toCopy = Append(st.toCopy, r.sym)
    BY <1>3, InsertLeaves
  <2>2. s.desc = "Dyn"
    BY <1>3 DEF symbolNeedsCopyReloc
  <2> QED  BY <1>1, <2>1, <2>2, SameAdds DEF Outcome, NothingExpected, SameGOT
<1>4. CASE new = Fail(st)
  BY <1>1, <1>4, FailLeaves, SameAdds, UntouchedIsOutcome DEF SameGOT
<1>5. CASE \E type \in DynTypes : new = RelocateReference(st, r, p, type, link.output)
  BY <1>1, <1>5, RelocateReferenceOutcome, UntouchedIsOutcome
<1>6. PICK type : type = IF isSymbolPreemptible(s, link.output) THEN "R64" ELSE "RELATIVE"
  OBVIOUS
<1>7. type \in DynTypes
  BY <1>6 DEF DynTypes
<1>8. \/ new = st
      \/ new = Insert(st, r.sym) /\ symbolNeedsCopyReloc(r, s, link.output)
      \/ new = Fail(st)
      \/ new = RelocateReference(st, r, p, type, link.output)
  BY <1>6 DEF scanAbsolute
<1> QED  BY <1>2, <1>3, <1>4, <1>5, <1>7, <1>8

LEMMA GlobalOutcome ==
  ASSUME link \in LinkType, NEW p \in Serial!ToScan, NEW st \in SlotStates, NEW new,
         ~link.syms[RelocAt(p).sym].local,
         new = scanGlobalReloc(st, RelocAt(p), p, link.syms[RelocAt(p).sym], link.output)
  PROVE  Outcome(st, new, p)
<1>1. PICK r : r = RelocAt(p)
  OBVIOUS
<1>2. PICK s : s = link.syms[r.sym]
  OBVIOUS
<1>3. p \in Nat \X Nat /\ r.sym \in Symbols /\ r.type \in RelocTypes /\ ~s.local
  BY <1>1, <1>2, DeferredParts DEF Relocs
<1>4. new = scanGlobalReloc(st, r, p, s, link.output)
  BY <1>1, <1>2
<1>5. CASE r.type \in {"R64", "R32"}
  <2>1. new = scanAbsolute(st, r, p, s, link.output)
    BY <1>4, <1>5 DEF scanGlobalReloc
  <2> QED  BY <1>1, <1>2, <1>3, <1>5, <2>1, AbsoluteOutcome
<1>6. CASE r.type = "PLT32"
  <2>1. Expects(r) = {}
    BY <1>6 DEF Expects
  <2>2. new = scanPLT32(st, r.sym, s, link.output)
    BY <1>4, <1>6 DEF scanGlobalReloc
  <2> QED  BY <1>1, <1>3, <2>1, <2>2, scanPLT32Outcome, UntouchedIsOutcome
<1>7. CASE r.type = "GOTPCRELX"
  <2>1. "Regular" \in Expects(r)
    BY <1>7 DEF Expects
  <2>2. new = RelaxOrGOT(st, r, p, s, link.output)
    BY <1>4, <1>7 DEF scanGlobalReloc
  <2> QED  BY <1>1, <1>2, <1>3, <2>1, <2>2, RelaxIsOutcome
<1>8. CASE r.type = "GOTPCREL"
  <2>1. "Regular" \in Expects(r)
    BY <1>8 DEF Expects
  <2>2. new = GOTOnce(st, r.sym, s, link.output)
    BY <1>4, <1>8 DEF scanGlobalReloc
  <2> QED  BY <1>1, <1>2, <1>3, <2>1, <2>2, GOTOnceOutcome, SlotIsOutcome
<1>9. CASE r.type = "GOTTPOFF"
  <2>1. "TLS_IE" \in Expects(r)
    BY <1>9 DEF Expects
  <2>2. new = TLSIE(st, r.sym, s, link.output)
    BY <1>4, <1>9 DEF scanGlobalReloc
  <2> QED  BY <1>1, <1>2, <1>3, <2>1, <2>2, TLSIEOutcome, SlotIsOutcome
<1>10. CASE r.type = "TLSGD"
  <2>1. "TLS_GD" \in Expects(r)
    BY <1>2, <1>3, <1>10 DEF Expects
  <2>2. new = TLSGD(st, r.sym, s, link.output)
    BY <1>4, <1>10 DEF scanGlobalReloc
  <2> QED  BY <1>1, <1>2, <1>3, <2>1, <2>2, TLSGDOutcome, SlotIsOutcome
<1>11. CASE r.type = "TLSLD"
  <2>1. "TLS_LD" \in Expects(r)
    BY <1>11 DEF Expects
  <2>2. new = getTLSModuleID(st, r.sym)
    BY <1>4, <1>11 DEF scanGlobalReloc
  <2> QED  BY <1>1, <1>3, <2>1, <2>2, getTLSModuleIDOutcome DEF Outcome, Served, NewModule, SameLists
<1>12. CASE r.type \in {"PC32", "unsupported"}
  <2>1. Expects(r) = {}
    BY <1>12 DEF Expects
  <2>2. new = st
    BY <1>4, <1>12 DEF scanGlobalReloc
  <2> QED  BY <1>1, <2>1, <2>2, StutterIsOutcome
<1> QED  BY <1>3, <1>5, <1>6, <1>7, <1>8, <1>9, <1>10, <1>11, <1>12 DEF RelocTypes

\* The scan of a deferred relocation.
LEMMA ScanOutcome ==
  ASSUME link \in LinkType, NEW p \in Serial!ToScan, NEW st \in SlotStates, st.copied = {},
         NEW new, new = scanDeferredRelocation(st, link, p)
  PROVE  Outcome(st, new, p)
<1>1. PICK s : s = link.syms[RelocAt(p).sym]
  OBVIOUS
<1>2. \/ s.local /\ new = scanLocalReloc(st, RelocAt(p), p, s, link.output)
      \/ ~s.local /\ new = scanGlobalReloc(st, RelocAt(p), p, s, link.output)
  BY <1>1 DEF scanDeferredRelocation, symInfo, RelocAt
<1> QED  BY <1>1, <1>2, LocalOutcome, GlobalOutcome

------------------------------------------------------------------------------
\* The invariant, of slots and the relocations that they were made for.

\* Slots are numbered in the order of their creation.
SlotsTyped(st) ==
  /\ st \in SlotStates
  /\ \A x \in Symbols : st.gotMap[x] <= Len(st.got)
  /\ st.module <= Len(st.got)

\* Copies are made of library data only, and only of what has been asked for.
CopiesImported(st) ==
  /\ \A i \in 1..Len(st.toCopy) : link.syms[st.toCopy[i]].desc = "Dyn"
  /\ IsFiniteSet(st.copied) /\ \A x \in st.copied : \E i \in 1..Len(st.toCopy) : st.toCopy[i] = x

\* The slot of a library's symbol is filled by the loader, copied or not.
ImportsFilled(st) ==
  \A n \in 1..Len(st.got) :
    (/\ st.got[n].kind = "Regular" /\ st.got[n].sym \in Symbols
     /\ link.syms[st.got[n].sym].desc = "Dyn") => FilledByLoader(st, n)

\* A slot exists for what is marked and for what has been scanned and not relaxed, and
\* it was made for some relocation that expects one of its kind.
SlotsMapped(st, done) ==
  /\ st.relaxed \subseteq done
  /\ \A x \in Symbols : "GOT" \in st.reserved[x] => st.gotMap[x] # 0
  /\ st.module # 0 => st.got[st.module].kind = "TLS_LD"
  /\ \A x \in Symbols : st.gotMap[x] # 0 =>
       \E q \in done : RelocAt(q).sym = x /\ st.got[st.gotMap[x]].kind \in Expects(RelocAt(q))
  /\ \A q \in done : q \notin st.relaxed /\ Expects(RelocAt(q)) # {} =>
       st.gotMap[RelocAt(q).sym] # 0

SlotsHonest(st, done) ==
  SlotsTyped(st) /\ CopiesImported(st) /\ ImportsFilled(st) /\ SlotsMapped(st, done)

\* What a new slot changes of the list, of the map and of what is in it.
LEMMA NewSlotAppends ==
  ASSUME NEW st, SlotsTyped(st), NEW new \in SlotStates, NEW kind, NEW x \in Symbols, NEW s, NEW out,
         NewSlot(st, new, kind, x, s, out)
  PROVE  /\ SlotsTyped(new) /\ Len(new.got) = Len(st.got) + 1 /\ Len(st.got) \in Nat
         /\ \A n \in 1..Len(st.got) : new.got[n] = st.got[n]
         /\ new.got[Len(st.got) + 1] = [kind |-> kind, sym |-> x]
         /\ \A y \in Symbols : new.gotMap[y] = IF y = x THEN Len(st.got) + 1 ELSE st.gotMap[y]
<1>1. Len(st.got) \in Nat /\ new.got = Append(st.got, [kind |-> kind, sym |-> x])
  BY DEF SlotsTyped, SlotStates, NewSlot
<1>2. /\ Len(new.got) = Len(st.got) + 1
      /\ \A n \in 1..Len(st.got) : new.got[n] = st.got[n]
      /\ new.got[Len(st.got) + 1] = [kind |-> kind, sym |-> x]
  BY <1>1 DEF SlotsTyped, SlotStates
<1>3. \A y \in Symbols : new.gotMap[y] = IF y = x THEN Len(st.got) + 1 ELSE st.gotMap[y]
  BY DEF NewSlot, SlotsTyped, SlotStates
<1>4. SlotsTyped(new)
  BY <1>1, <1>2, <1>3 DEF SlotsTyped, NewSlot, SlotStates
<1> QED  BY <1>1, <1>2, <1>3, <1>4

LEMMA NewModuleAppends ==
  ASSUME NEW st, SlotsTyped(st), NEW new \in SlotStates, NEW x \in Symbols,
         NewModule(st, new, x)
  PROVE  /\ SlotsTyped(new) /\ Len(st.got) \in Nat /\ Len(new.got) \in Nat
         /\ Len(new.got) >= Len(st.got)
         /\ \A n \in 1..Len(st.got) : new.got[n] = st.got[n]
         /\ \A n \in 1..Len(new.got) : n > Len(st.got) => new.got[n].kind = "TLS_LD"
         /\ \A y \in Symbols : new.gotMap[y] = IF y = x THEN new.module ELSE st.gotMap[y]
         /\ new.module # 0 /\ (new.module = st.module \/ new.module > Len(st.got))
<1>1. Len(st.got) \in Nat /\ st.module \in Nat /\ st.module <= Len(st.got)
  BY DEF SlotsTyped, SlotStates
<1>2. \A y \in Symbols : new.gotMap[y] = IF y = x THEN new.module ELSE st.gotMap[y]
  BY DEF NewModule, SlotsTyped, SlotStates
<1>3. CASE new.module = st.module /\ st.module # 0 /\ new.got = st.got
  <2>1. SlotsTyped(new)
    BY <1>1, <1>2, <1>3 DEF SlotsTyped
  <2> QED  BY <1>1, <1>2, <1>3, <2>1
<1>4. CASE /\ new.module = Len(st.got) + 1
           /\ new.got = Append(st.got, [kind |-> "TLS_LD", sym |-> NoSym])
  <2>1. /\ Len(new.got) = Len(st.got) + 1
        /\ \A n \in 1..Len(st.got) : new.got[n] = st.got[n]
        /\ new.got[Len(st.got) + 1] = [kind |-> "TLS_LD", sym |-> NoSym]
    BY <1>1, <1>4 DEF SlotsTyped, SlotStates
  <2>2. \A y \in Symbols : st.gotMap[y] \in Nat /\ st.gotMap[y] <= Len(st.got)
    BY DEF SlotsTyped, SlotStates
  <2>3. \A y \in Symbols : new.gotMap[y] <= Len(new.got)
    BY <1>1, <1>2, <1>4, <2>1, <2>2
  <2>4. SlotsTyped(new)
    BY <1>1, <1>4, <2>1, <2>3 DEF SlotsTyped
  <2> QED  BY <1>1, <1>2, <1>4, <2>1, <2>4
<1> QED  BY <1>3, <1>4 DEF NewModule

LEMMA SameSlotsTyped ==
  ASSUME NEW st, SlotsTyped(st), NEW new \in SlotStates, SameSlots(st, new)
  PROVE  SlotsTyped(new)
BY DEF SlotsTyped, SameSlots

LEMMA TypedScan ==
  ASSUME NEW st, SlotsTyped(st), NEW new, NEW p, RelocAt(p).sym \in Symbols, Outcome(st, new, p)
  PROVE  SlotsTyped(new)
<1>1. new \in SlotStates
  BY DEF Outcome
<1>2. CASE NothingExpected(st, new, RelocAt(p)) \/ Relaxed(st, new, p)
  BY <1>1, <1>2, SameSlotsTyped DEF NothingExpected, Relaxed
<1>3. CASE Served(st, new, RelocAt(p))
  BY <1>1, <1>3, NewSlotAppends, NewModuleAppends DEF Served
<1> QED  BY <1>2, <1>3 DEF Outcome

LEMMA CopiesScan ==
  ASSUME NEW st, SlotsTyped(st), CopiesImported(st), NEW new, NEW p, RelocAt(p).sym \in Symbols,
         Outcome(st, new, p)
  PROVE  CopiesImported(new)
<1>1. new.copied = st.copied
  BY DEF Outcome
<1>2. CASE new.toCopy = st.toCopy
  BY <1>1, <1>2 DEF CopiesImported
<1>3. CASE /\ new.toCopy = Append(st.toCopy, RelocAt(p).sym)
           /\ link.syms[RelocAt(p).sym].desc = "Dyn"
  <2>1. /\ Len(new.toCopy) = Len(st.toCopy) + 1 /\ Len(st.toCopy) \in Nat
        /\ \A i \in 1..Len(st.toCopy) : new.toCopy[i] = st.toCopy[i]
        /\ new.toCopy[Len(st.toCopy) + 1] = RelocAt(p).sym
    BY <1>3 DEF SlotsTyped, SlotStates
  <2>2. \A i \in 1..Len(new.toCopy) : link.syms[new.toCopy[i]].desc = "Dyn"
    BY <1>3, <2>1 DEF CopiesImported
  <2>3. \A x \in st.copied : \E i \in 1..Len(new.toCopy) : new.toCopy[i] = x
    BY <2>1 DEF CopiesImported
  <2> QED  BY <1>1, <2>2, <2>3 DEF CopiesImported
<1> QED  BY <1>2, <1>3 DEF Outcome, NothingExpected, Relaxed, Served, NewSlot, NewModule, SameLists

LEMMA FilledScan ==
  ASSUME NEW st, SlotsTyped(st), ImportsFilled(st), NEW new, NEW p, RelocAt(p).sym \in Symbols,
         Outcome(st, new, p),
         link.output = "static" => link.syms[RelocAt(p).sym].desc # "Dyn"
  PROVE  ImportsFilled(new)
<1>1. new \in SlotStates /\ OnlyAdds(st, new)
  BY DEF Outcome
<1>2. \A n : FilledByLoader(st, n) => FilledByLoader(new, n)
  BY <1>1, StillFilled
<1>3. CASE new.got = st.got
  BY <1>2, <1>3 DEF ImportsFilled
<1>4. ASSUME NEW kind, NewSlot(st, new, kind, RelocAt(p).sym, link.syms[RelocAt(p).sym], link.output)
      PROVE  ImportsFilled(new)
  <2>1. /\ Len(new.got) = Len(st.got) + 1 /\ Len(st.got) \in Nat
        /\ \A n \in 1..Len(st.got) : new.got[n] = st.got[n]
        /\ new.got[Len(st.got) + 1] = [kind |-> kind, sym |-> RelocAt(p).sym]
    BY <1>1, <1>4, NewSlotAppends
  <2>2. kind = "Regular" /\ link.syms[RelocAt(p).sym].desc = "Dyn" => FilledByLoader(new, Len(st.got) + 1)
    BY <1>4 DEF NewSlot
  <2>3. ASSUME NEW n \in 1..Len(new.got), new.got[n].kind = "Regular", new.got[n].sym \in Symbols,
               link.syms[new.got[n].sym].desc = "Dyn"
        PROVE  FilledByLoader(new, n)
    <3>1. CASE n \in 1..Len(st.got)
      BY <1>2, <2>1, <2>3, <3>1 DEF ImportsFilled
    <3>2. CASE n \notin 1..Len(st.got)
      <4>1. n = Len(st.got) + 1
        BY <2>1, <3>2
      <4>2. kind = "Regular" /\ link.syms[RelocAt(p).sym].desc = "Dyn"
        BY <2>1, <2>3, <4>1
      <4> QED  BY <2>2, <4>1, <4>2
    <3> QED  BY <3>1, <3>2
  <2> QED  BY <2>3 DEF ImportsFilled
<1>5. CASE NewModule(st, new, RelocAt(p).sym)
  <2>1. /\ Len(new.got) \in Nat /\ Len(st.got) \in Nat
        /\ \A n \in 1..Len(st.got) : new.got[n] = st.got[n]
        /\ \A n \in 1..Len(new.got) : n > Len(st.got) => new.got[n].kind = "TLS_LD"
    BY <1>1, <1>5, NewModuleAppends
  <2>2. ASSUME NEW n \in 1..Len(new.got), new.got[n].kind = "Regular"
        PROVE  n \in 1..Len(st.got)
    BY <2>1, <2>2
  <2> QED  BY <1>2, <2>1, <2>2 DEF ImportsFilled
<1> QED  BY <1>3, <1>4, <1>5 DEF Outcome, NothingExpected, Relaxed, Served, SameSlots

LEMMA MappedScan ==
  ASSUME NEW st, SlotsTyped(st), NEW done, SlotsMapped(st, done), NEW new, NEW p,
         RelocAt(p).sym \in Symbols, \A q \in done : RelocAt(q).sym \in Symbols,
         Outcome(st, new, p)
  PROVE  SlotsMapped(new, done \cup {p})
<1>1. new \in SlotStates /\ st \in SlotStates
  BY DEF Outcome, SlotsTyped
<1>2. /\ Len(st.got) \in Nat
      /\ \A y \in Symbols : st.gotMap[y] \in Nat /\ st.gotMap[y] <= Len(st.got)
      /\ st.module \in Nat /\ st.module <= Len(st.got)
  BY DEF SlotsTyped, SlotStates
<1>3. CASE /\ SameSlots(st, new) /\ SameGOT(st, new)
           /\ st.relaxed \subseteq new.relaxed /\ new.relaxed \subseteq st.relaxed \cup {p}
           /\ \/ Expects(RelocAt(p)) = {} \/ p \in new.relaxed
              \/ st.gotMap[RelocAt(p).sym] # 0
  BY <1>3 DEF SlotsMapped, SameSlots, SameGOT
<1>4. ASSUME NEW kind \in Expects(RelocAt(p)),
             NewSlot(st, new, kind, RelocAt(p).sym, link.syms[RelocAt(p).sym], link.output)
      PROVE  SlotsMapped(new, done \cup {p})
  <2>1. /\ \A n \in 1..Len(st.got) : new.got[n] = st.got[n]
        /\ new.got[Len(st.got) + 1] = [kind |-> kind, sym |-> RelocAt(p).sym]
        /\ \A y \in Symbols : new.gotMap[y] = IF y = RelocAt(p).sym THEN Len(st.got) + 1
                                              ELSE st.gotMap[y]
    BY <1>1, <1>4, NewSlotAppends
  <2>2. \A y \in Symbols : "GOT" \in new.reserved[y] => new.gotMap[y] # 0
    BY <1>2, <1>4, <2>1 DEF SlotsMapped, NewSlot
  <2>3. new.module # 0 => new.got[new.module].kind = "TLS_LD"
    BY <1>2, <1>4, <2>1 DEF SlotsMapped, NewSlot
  <2>4. ASSUME NEW x \in Symbols, new.gotMap[x] # 0
        PROVE  \E q \in done \cup {p} :
                 RelocAt(q).sym = x /\ new.got[new.gotMap[x]].kind \in Expects(RelocAt(q))
    <3>1. CASE x = RelocAt(p).sym
      BY <2>1, <3>1
    <3>2. CASE x # RelocAt(p).sym
      <4>1. new.gotMap[x] = st.gotMap[x] /\ new.got[st.gotMap[x]] = st.got[st.gotMap[x]]
        BY <1>2, <2>1, <2>4, <3>2
      <4> QED  BY <2>4, <4>1 DEF SlotsMapped
    <3> QED  BY <3>1, <3>2
  <2>5. ASSUME NEW q \in done \cup {p}, q \notin new.relaxed, Expects(RelocAt(q)) # {}
        PROVE  new.gotMap[RelocAt(q).sym] # 0
    <3>1. CASE RelocAt(q).sym = RelocAt(p).sym
      BY <1>2, <2>1, <3>1
    <3>2. CASE RelocAt(q).sym # RelocAt(p).sym
      <4>1. q \in done /\ q \notin st.relaxed
        BY <1>4, <2>5, <3>2 DEF NewSlot, SameLists
      <4> QED  BY <2>1, <2>5, <3>2, <4>1 DEF SlotsMapped
    <3> QED  BY <3>1, <3>2
  <2>6. new.relaxed \subseteq done \cup {p}
    BY <1>4 DEF SlotsMapped, NewSlot, SameLists
  <2> QED  BY <2>2, <2>3, <2>4, <2>5, <2>6 DEF SlotsMapped
<1>5. CASE NewModule(st, new, RelocAt(p).sym) /\ "TLS_LD" \in Expects(RelocAt(p))
  <2>1. /\ \A n \in 1..Len(st.got) : new.got[n] = st.got[n]
        /\ \A n \in 1..Len(new.got) : n > Len(st.got) => new.got[n].kind = "TLS_LD"
        /\ \A y \in Symbols : new.gotMap[y] = IF y = RelocAt(p).sym THEN new.module
                                              ELSE st.gotMap[y]
        /\ new.module # 0 /\ (new.module = st.module \/ new.module > Len(st.got))
        /\ SlotsTyped(new)
    BY <1>1, <1>5, NewModuleAppends
  <2>2. new.module \in Nat /\ new.module <= Len(new.got) /\ Len(new.got) \in Nat
    BY <2>1 DEF SlotsTyped, SlotStates
  <2>3. new.got[new.module].kind = "TLS_LD"
    <3>1. CASE new.module = st.module
      BY <1>2, <2>1, <3>1 DEF SlotsMapped
    <3>2. CASE new.module > Len(st.got)
      BY <1>2, <2>1, <2>2, <3>2
    <3> QED  BY <2>1, <3>1, <3>2
  <2>4. \A y \in Symbols : "GOT" \in new.reserved[y] => new.gotMap[y] # 0
    BY <1>5, <2>1 DEF SlotsMapped, NewModule, SameGOT
  <2>5. ASSUME NEW x \in Symbols, new.gotMap[x] # 0
        PROVE  \E q \in done \cup {p} :
                 RelocAt(q).sym = x /\ new.got[new.gotMap[x]].kind \in Expects(RelocAt(q))
    <3>1. CASE x = RelocAt(p).sym
      BY <1>5, <2>1, <2>3, <3>1
    <3>2. CASE x # RelocAt(p).sym
      <4>1. new.gotMap[x] = st.gotMap[x] /\ new.got[st.gotMap[x]] = st.got[st.gotMap[x]]
        BY <1>2, <2>1, <2>5, <3>2
      <4> QED  BY <2>5, <4>1 DEF SlotsMapped
    <3> QED  BY <3>1, <3>2
  <2>6. ASSUME NEW q \in done \cup {p}, q \notin new.relaxed, Expects(RelocAt(q)) # {}
        PROVE  new.gotMap[RelocAt(q).sym] # 0
    <3>1. CASE RelocAt(q).sym = RelocAt(p).sym
      BY <2>1, <3>1
    <3>2. CASE RelocAt(q).sym # RelocAt(p).sym
      <4>1. q \in done /\ q \notin st.relaxed
        BY <1>5, <2>6, <3>2 DEF NewModule, SameLists
      <4> QED  BY <2>1, <2>6, <3>2, <4>1 DEF SlotsMapped
    <3> QED  BY <3>1, <3>2
  <2>7. new.relaxed \subseteq done \cup {p}
    BY <1>5 DEF SlotsMapped, NewModule, SameLists
  <2> QED  BY <2>3, <2>4, <2>5, <2>6, <2>7 DEF SlotsMapped
<1>6. CASE NothingExpected(st, new, RelocAt(p))
  BY <1>3, <1>6 DEF NothingExpected
<1>7. CASE Relaxed(st, new, p)
  BY <1>3, <1>7 DEF Relaxed
<1>8. CASE new = st /\ "GOT" \in st.reserved[RelocAt(p).sym]
  <2>1. st.gotMap[RelocAt(p).sym] # 0
    BY <1>8 DEF SlotsMapped
  <2>2. /\ SameSlots(st, new) /\ SameGOT(st, new)
        /\ st.relaxed \subseteq new.relaxed /\ new.relaxed \subseteq st.relaxed \cup {p}
    BY <1>8 DEF SameSlots, SameGOT
  <2> QED  BY <1>3, <2>1, <2>2
<1> QED  BY <1>4, <1>5, <1>6, <1>7, <1>8 DEF Outcome, Served

LEMMA HonestScan ==
  ASSUME NEW st, NEW done, SlotsHonest(st, done), NEW new, NEW p, Outcome(st, new, p),
         RelocAt(p).sym \in Symbols, \A q \in done : RelocAt(q).sym \in Symbols,
         link.output = "static" => link.syms[RelocAt(p).sym].desc # "Dyn"
  PROVE  SlotsHonest(new, done \cup {p})
<1>1. SlotsTyped(st) /\ CopiesImported(st) /\ ImportsFilled(st) /\ SlotsMapped(st, done)
  BY DEF SlotsHonest
<1>2. SlotsTyped(new)
  BY <1>1, TypedScan
<1>3. CopiesImported(new)
  BY <1>1, CopiesScan
<1>4. ImportsFilled(new)
  BY <1>1, FilledScan
<1>5. SlotsMapped(new, done \cup {p})
  BY <1>1, MappedScan
<1> QED  BY <1>2, <1>3, <1>4, <1>5 DEF SlotsHonest

\* A copy changes no slot.
LEMMA HonestCopy ==
  ASSUME NEW st, NEW done, SlotsHonest(st, done), NEW i \in 1..Len(st.toCopy),
         NEW new, new = createCopyRelocation(st, st.toCopy[i])
  PROVE  SlotsHonest(new, done)
<1>1. st \in SlotStates
  BY DEF SlotsHonest, SlotsTyped
<1>2. PICK x : x = st.toCopy[i]
  OBVIOUS
<1>3. x \in Symbols /\ InCopy(x) \in Places /\ "COPY" \in DynTypes
  BY <1>1, <1>2 DEF SlotStates, Places, DynTypes
<1>4. PICK added : added = AddDynRel(st, "COPY", x, InCopy(x))
  OBVIOUS
<1>5. PICK rel : rel = [type |-> "COPY", sym |-> x, at |-> InCopy(x)]
  OBVIOUS
<1>6. /\ added \in SlotStates /\ SameSlots(st, added) /\ SameLists(st, added)
      /\ added.reserved = st.reserved /\ added.relaDyn = Append(st.relaDyn, rel)
  BY <1>1, <1>3, <1>4, <1>5, AddDynRelLeaves
<1>7. OnlyAdds(st, added)
  BY <1>1, <1>6, AppendAdds
<1>8. PICK set : set = added.copied \cup {x}
  OBVIOUS
<1>9. set \in SUBSET Symbols
  BY <1>3, <1>6, <1>8 DEF SlotStates
<1>10. new = [added EXCEPT !.copied = set]
  BY <1>2, <1>4, <1>6, <1>8 DEF createCopyRelocation, SlotStates
<1>11. /\ new \in SlotStates /\ SameSlots(added, new) /\ new.copied = set
       /\ new.toCopy = added.toCopy /\ new.relaxed = added.relaxed
       /\ new.reserved = added.reserved /\ new.relaDyn = added.relaDyn
  BY <1>6, <1>9, <1>10 DEF SlotStates, SameSlots
<1>12. /\ SameSlots(st, new) /\ new.toCopy = st.toCopy /\ new.relaxed = st.relaxed
       /\ new.reserved = st.reserved /\ new.copied = st.copied \cup {x}
       /\ OnlyAdds(st, new)
  BY <1>6, <1>7, <1>8, <1>11 DEF SameSlots, SameLists, OnlyAdds
<1>13. SlotsTyped(new)
  BY <1>11, <1>12, SameSlotsTyped DEF SlotsHonest
<1>14. CopiesImported(new)
  <2>1. IsFiniteSet(new.copied)
    BY <1>12, FS_AddElement DEF SlotsHonest, CopiesImported
  <2> QED  BY <1>2, <1>12, <2>1 DEF SlotsHonest, CopiesImported
<1>15. ImportsFilled(new)
  BY <1>12, StillFilled DEF SlotsHonest, ImportsFilled, SameSlots
<1>16. SlotsMapped(new, done)
  BY <1>12 DEF SlotsHonest, SlotsMapped, SameSlots
<1> QED  BY <1>13, <1>14, <1>15, <1>16 DEF SlotsHonest

------------------------------------------------------------------------------
\* The slots in the course of the link.

ReplayedInv ==
  /\ replayed \subseteq deferred
  /\ phase = "scan" => replayed = {}
  /\ slots.copied # {} => phase # "scan" /\ replayed = deferred
  /\ phase = "done" => replayed = deferred

SlotsInv == ReplayedInv /\ SlotsHonest(slots, replayed)

LEMMA InitSlots == Init => SlotsInv
<1> SUFFICES ASSUME Init PROVE SlotsInv
  OBVIOUS
<1>1. replayed = {} /\ phase = "scan" /\ slots = NoSlots
  BY DEF Init
<1>2. NoSlots \in SlotStates
  BY DEF NoSlots, SlotStates
<1>3. SlotsTyped(NoSlots)
  BY <1>2 DEF SlotsTyped, NoSlots
<1>4. NoSlots.copied = {} /\ NoSlots.toCopy = <<>> /\ NoSlots.got = <<>>
  BY DEF NoSlots
<1>5. CopiesImported(NoSlots)
  BY <1>4, FS_EmptySet DEF CopiesImported
<1>6. ImportsFilled(NoSlots)
  BY <1>4 DEF ImportsFilled
<1>7. SlotsMapped(NoSlots, {})
  BY DEF SlotsMapped, NoSlots
<1> QED  BY <1>1, <1>3, <1>4, <1>5, <1>6, <1>7 DEF SlotsInv, ReplayedInv, SlotsHonest

LEMMA SameLinkHonest ==
  ASSUME link' = link, SlotsHonest(slots', replayed')
  PROVE  SlotsHonest(slots, replayed)'
<1>1. SlotsTyped(slots)'
  BY DEF SlotsHonest, SlotsTyped
<1>2. CopiesImported(slots)'
  BY DEF SlotsHonest, CopiesImported
<1>3. ImportsFilled(slots)'
  BY DEF SlotsHonest, ImportsFilled, FilledByLoader
<1>4. SlotsMapped(slots, replayed)'
  <2>1. \A q : RelocAt(q)' = RelocAt(q)
    BY DEF RelocAt
  <2>2. \A r : Expects(r)' = Expects(r)
    BY DEF Expects
  <2> QED  BY <2>1, <2>2 DEF SlotsHonest, SlotsMapped
<1> QED  BY <1>1, <1>2, <1>3, <1>4 DEF SlotsHonest

LEMMA NextSlots ==
  ASSUME Scanning, link \in Links, SlotsInv, [Next]_vars
  PROVE  SlotsInv'
<1>1. link \in LinkType /\ (link.output = "static" => \A x \in Symbols : link.syms[x].desc # "Dyn")
  BY StaticAssumption DEF Scanning, WorkersType
<1>2. deferred \subseteq Serial!ToScan
  BY DEF Scanning, WorkersHonest
<1>3. \A q \in deferred : RelocAt(q).sym \in Symbols
  BY <1>1, <1>2, DeferredParts
<1>4. ASSUME NEW w \in Workers, Fetch(w) \/ ScanOne(w)
      PROVE  SlotsInv'
  BY <1>4, SameLinkHonest DEF Fetch, ScanOne, SlotsInv, ReplayedInv
<1>5. CASE Join
  BY <1>5, SameLinkHonest DEF Join, SlotsInv, ReplayedInv
<1>6. CASE Finish
  BY <1>6, SameLinkHonest DEF Finish, SlotsInv, ReplayedInv
<1>7. ASSUME NEW p \in deferred, Replay(p)
      PROVE  SlotsInv'
  <2>1. /\ p \in deferred \ replayed /\ phase = "replay" /\ replayed' = replayed \cup {p}
        /\ slots' = scanDeferredRelocation(slots, link, p)
        /\ link' = link /\ deferred' = deferred /\ phase' = phase
    BY <1>7 DEF Replay
  <2>2. slots.copied = {} /\ slots \in SlotStates
    BY <2>1 DEF SlotsInv, ReplayedInv, SlotsHonest, SlotsTyped
  <2>3. Outcome(slots, slots', p)
    BY <1>1, <1>2, <2>1, <2>2, ScanOutcome
  <2>4. SlotsHonest(slots', replayed \cup {p})
    BY <1>1, <1>3, <2>1, <2>3, HonestScan DEF SlotsInv, ReplayedInv
  <2>5. slots'.copied = {}
    BY <2>2, <2>3 DEF Outcome
  <2> QED  BY <2>1, <2>4, <2>5, SameLinkHonest DEF SlotsInv, ReplayedInv
<1>8. CASE Copy
  <2>1. /\ phase = "replay" /\ replayed = deferred /\ CopiesLeft
        /\ slots' = createCopyRelocation(slots, slots.toCopy[Cardinality(slots.copied) + 1])
        /\ link' = link /\ deferred' = deferred /\ phase' = phase /\ replayed' = replayed
    BY <1>8 DEF Copy
  <2>2. Cardinality(slots.copied) \in Nat
    BY FS_CardinalityType DEF SlotsInv, SlotsHonest, CopiesImported
  <2>3. Len(slots.toCopy) \in Nat
    BY DEF SlotsInv, SlotsHonest, SlotsTyped, SlotStates
  <2>4. Cardinality(slots.copied) + 1 \in 1..Len(slots.toCopy)
    BY <2>1, <2>2, <2>3 DEF CopiesLeft
  <2>5. SlotsHonest(slots', replayed')
    BY <2>1, <2>4, HonestCopy DEF SlotsInv
  <2> QED  BY <2>1, <2>5, SameLinkHonest DEF SlotsInv, ReplayedInv
<1>9. CASE UNCHANGED vars
  BY <1>9, SameLinkHonest DEF vars, SlotsInv, ReplayedInv
<1> QED  BY <1>4, <1>5, <1>6, <1>7, <1>8, <1>9 DEF Next

LEMMA AlwaysSlots == Spec => [](Scanning /\ link \in Links /\ SlotsInv)
<1> DEFINE Inv == Scanning /\ link \in Links /\ SlotsInv
<1>1. Init => Inv
  BY InitScanning, InitSlots DEF Init
<1>2. Inv /\ [Next]_vars => Inv'
  <2>1. Inv /\ [Next]_vars => link' = link
    BY DEF Next, vars, Fetch, ScanOne, Join, Replay, Copy, Finish
  <2> QED  BY <2>1, NextScanning, NextSlots
<1> QED  BY <1>1, <1>2, PTL DEF Spec

\* Every reference through the .got has a slot of the kind that the code expects when
\* it applies it, for every set of relocations and every order of the inputs: neither a
\* relaxed reference, nor the bit of another kind of slot, nor the slot that all
\* symbols share for the module takes it away (x86_64Relocator.cpp:246,
\* x86_64LDBackend.cpp:368).
THEOREM GotServed == Spec => []GotReferencesServed
<1>1. SlotsInv /\ Scanning => GotReferencesServed
  <2> SUFFICES ASSUME SlotsInv, Scanning, phase = "done", NEW p \in deferred \ slots.relaxed,
                      NEW x, x = RelocAt(p).sym,
                      NEW kinds, kinds = UNION {Expects(RelocAt(q)) :
                                               q \in {d \in deferred : RelocAt(d).sym = x}},
                      Expects(RelocAt(p)) # {}
               PROVE  slots.gotMap[x] # 0 /\ slots.got[slots.gotMap[x]].kind \in kinds
    BY DEF GotReferencesServed
  <2>1. replayed = deferred /\ SlotsMapped(slots, deferred)
    BY DEF SlotsInv, ReplayedInv, SlotsHonest
  <2>2. x \in Symbols
    BY DeferredParts DEF Scanning, WorkersType, WorkersHonest
  <2>3. slots.gotMap[x] # 0
    BY <2>1 DEF SlotsMapped
  <2>4. PICK q \in deferred : /\ RelocAt(q).sym = x
                              /\ slots.got[slots.gotMap[x]].kind \in Expects(RelocAt(q))
    BY <2>1, <2>2, <2>3 DEF SlotsMapped
  <2> QED  BY <2>3, <2>4
<1> QED  BY <1>1, AlwaysSlots, PTL

\* The copy of a library's data never finds a slot whose content the linker has fixed:
\* whatever came first, the slot or the wish for a copy, the loader fills it, with the
\* address of the copy (ObjectLinker.cpp:2254).
THEOREM CopiesPreemptible == Spec => []CopiedSymbolsStayPreemptible
<1>1. SlotsInv => CopiedSymbolsStayPreemptible
  <2> SUFFICES ASSUME SlotsInv, NEW n \in DOMAIN slots.got,
                      slots.got[n].kind = "Regular", slots.got[n].sym \in slots.copied
               PROVE  \E i \in DOMAIN slots.relaDyn :
                        slots.relaDyn[i].at = InSlot(n) /\ slots.relaDyn[i].type = "GLOB_DAT"
    BY DEF CopiedSymbolsStayPreemptible
  <2>1. slots \in SlotStates /\ CopiesImported(slots) /\ ImportsFilled(slots)
    BY DEF SlotsInv, SlotsHonest, SlotsTyped
  <2>2. n \in 1..Len(slots.got) /\ DOMAIN slots.relaDyn = 1..Len(slots.relaDyn)
    BY <2>1 DEF SlotStates
  <2>3. slots.got[n].sym \in Symbols /\ link.syms[slots.got[n].sym].desc = "Dyn"
    <3>1. slots.copied \subseteq Symbols
      BY <2>1 DEF SlotStates
    <3>2. PICK i \in 1..Len(slots.toCopy) : slots.toCopy[i] = slots.got[n].sym
      BY <2>1 DEF CopiesImported
    <3>3. link.syms[slots.toCopy[i]].desc = "Dyn"
      BY <2>1 DEF CopiesImported
    <3> QED  BY <3>1, <3>2, <3>3
  <2>4. FilledByLoader(slots, n)
    BY <2>1, <2>2, <2>3 DEF ImportsFilled
  <2> QED  BY <2>2, <2>4 DEF FilledByLoader
<1> QED  BY <1>1, AlwaysSlots, PTL

\* The variables keep their types, for every number of workers and all inputs: the
\* workers together pass the end of the inputs at most once each and never look at an
\* input that does not exist (ObjectLinker.cpp:2190), and every slot that the map names
\* has been made.
THEOREM TypeCorrect == Spec => []TypeOK
<1>1. ASSUME Scanning, Reporting, SlotsInv PROVE TypeOK
  <2>1. /\ link \in LinkType /\ nextInput \in Nat \ {0} /\ phase \in {"scan", "replay", "done"}
        /\ worker \in [Workers -> {Idle, WorkerDone} \cup (Nat \X Nat)]
    BY <1>1 DEF Scanning, WorkersType
  <2>2. NumInputs \in Nat /\ Cardinality(Workers) \in Nat
    BY <2>1, WorkersAssumption, FS_CardinalityType DEF NumInputs, LinkType
  <2>3. nextInput \in 1..NumInputs + 1 + NumWorkers
    <3>1. NumWorkers \in Nat /\ NumWorkers <= Cardinality(Workers)
      BY <2>2 DEF NumWorkers
    <3>2. Running = 1..NumWorkers
      BY <2>2, <3>1, WorkersAssumption DEF Running
    <3>3. IsFiniteSet(Running) /\ Cardinality(Running) = NumWorkers
      BY <3>1, <3>2, FS_Interval
    <3>4. PICK ended : ended = {w \in Running : worker[w] = WorkerDone}
      OBVIOUS
    <3>5. Cardinality(ended) <= NumWorkers /\ Cardinality(ended) \in Nat
      BY <3>3, <3>4, FS_Subset, FS_CardinalityType
    <3>6. nextInput <= NumInputs + 1 + Cardinality(ended)
      BY <1>1, <3>4 DEF Reporting, CounterBounded
    <3> QED  BY <2>1, <2>2, <3>1, <3>5, <3>6
  <2>4. ASSUME NEW w \in Workers
        PROVE  \/ worker[w] \in {Idle, WorkerDone}
               \/ /\ worker[w][1] \in 1..NumInputs
                  /\ worker[w][2] \in 1..Len(link.inputs[worker[w][1]]) + 1
    <3>1. CASE worker[w] \notin {Idle, WorkerDone}
      <4>1. worker[w][1] \in 1..NumInputs /\ worker[w][2] \in Nat \ {0}
        BY <1>1, <3>1 DEF Scanning, WorkersType
      <4>2. worker[w][2] <= Len(link.inputs[worker[w][1]]) + 1
        BY <1>1, <3>1 DEF Reporting, WorkersApart, Holding
      <4>3. Len(link.inputs[worker[w][1]]) \in Nat
        BY <2>1, <4>1 DEF LinkType, NumInputs
      <4> QED  BY <4>1, <4>2, <4>3
    <3> QED  BY <3>1
  <2>5. replayed \subseteq deferred /\ deferred \subseteq Positions(link)
    BY <1>1, SameToScan DEF SlotsInv, ReplayedInv, Scanning, WorkersHonest
  <2>6. SlotsType
    <3>1. /\ slots \in SlotStates /\ slots.module <= Len(slots.got)
          /\ \A x \in Symbols : slots.gotMap[x] <= Len(slots.got)
      BY <1>1 DEF SlotsInv, SlotsHonest, SlotsTyped
    <3>2. slots.relaxed \subseteq Positions(link)
      BY <1>1, <2>5 DEF SlotsInv, SlotsHonest, SlotsMapped
    <3>3. /\ slots.reserved \in [Symbols -> SUBSET {"GOT", "PLT", "Rel"}]
          /\ slots.copied \subseteq Symbols /\ slots.error \in BOOLEAN
      BY <3>1 DEF SlotStates, Bits
    <3>4. \A n \in DOMAIN slots.got :
            slots.got[n] \in [kind : SlotKinds, sym : Symbols \cup {NoSym}]
      <4>1. PICK Slot : Slot = [kind : SlotKinds, sym : Symbols \cup {NoSym}]
        OBVIOUS
      <4>2. slots.got \in Seq(Slot)
        BY <3>1, <4>1 DEF SlotStates
      <4>3. \A n \in DOMAIN slots.got : slots.got[n] \in Slot
        BY <4>2
      <4> QED  BY <4>1, <4>3
    <3>5. /\ slots.gotMap \in [Symbols -> Nat] /\ slots.module \in Nat
          /\ Len(slots.got) \in Nat
      BY <3>1 DEF SlotStates
    <3>6. slots.gotMap \in [Symbols -> 0..Len(slots.got)] /\ slots.module \in 0..Len(slots.got)
      BY <3>1, <3>5
    <3> QED  BY <3>2, <3>3, <3>4, <3>6 DEF SlotsType
  <2>7. hits \subseteq Symbols \X Reports /\ reports \in [Symbols -> [Reports -> Nat]]
        /\ failed \in BOOLEAN
    BY <1>1 DEF Reporting, ReportsMatch
  <2> QED  BY <2>1, <2>3, <2>4, <2>5, <2>6, <2>7 DEF TypeOK
<1> QED  BY <1>1, AlwaysReporting, AlwaysSlots, PTL
===============================================================================
