---------------------------- MODULE RelocationScan ----------------------------
(***************************************************************************)
(* The scan of the relocations in several threads.  Workers take inputs    *)
(* from a shared counter, report undefined references and only mark the    *)
(* relocations that may need slots; the main thread then replays those in  *)
(* the order of the inputs, and creates the copies of library data last.   *)
(*                                                                         *)
(* ObjectLinker::scanRelocations and scanRelocationsHelper of              *)
(* lib/Object/ObjectLinker.cpp, and lib/Target/Relocator.cpp.  The inputs  *)
(* hold the relocations that maySkipRelocProcessing does not skip.         *)
(***************************************************************************)
EXTENDS DynamicSlots

CONSTANTS
  Workers,   \* the threads of the pool, 1..n
  Links      \* the links: [inputs, syms, output, warnOnce]

LinkType ==
  [inputs : Seq(Seq(Relocs)), syms : [Symbols -> SymbolInfos], output : Outputs,
   warnOnce : BOOLEAN]

ASSUME LinksAssumption == Links \subseteq LinkType
\* A link without shared libraries is static, and only that.
ASSUME StaticAssumption ==
  \A l \in Links : l.output = "static" => \A x \in Symbols : l.syms[x].desc # "Dyn"
ASSUME WorkersAssumption ==
  IsFiniteSet(Workers) /\ Workers # {} /\ Workers = 1..Cardinality(Workers)

VARIABLES
  link,       \* the inputs, the symbols and the kind of output
  nextInput,  \* the shared counter of the inputs taken
  worker,     \* the next position of each worker, or "idle", or "done"
  deferred,   \* DeferredRelocations: the positions marked for the replay
  hits,       \* UndefHits: the reports that --warn-once holds back
  reports,    \* the diagnostics raised, by symbol and kind
  failed,     \* an error was raised
  phase,      \* "scan", "replay" or "done"
  replayed,   \* the positions replayed
  slots       \* what the replay and the copies have created

vars == <<link, nextInput, worker, deferred, hits, reports, failed, phase,
          replayed, slots>>

Reports    == {"Undef", "Invisible"}
Idle       == <<"idle">>
WorkerDone == <<"done">>
NumInputs  == Len(link.inputs)
RelocAt(p) == link.inputs[p[1]][p[2]]
NumWorkers == IF Cardinality(Workers) < NumInputs THEN Cardinality(Workers)
              ELSE NumInputs
Running    == {w \in Workers : w <= NumWorkers}

Init ==
  /\ link \in Links
  /\ nextInput = 1 /\ worker = [w \in Workers |-> Idle]
  /\ deferred = {} /\ hits = {} /\ failed = FALSE
  /\ reports = [x \in Symbols |-> [k \in Reports |-> 0]]
  /\ phase = "scan" /\ replayed = {} /\ slots = NoSlots

\* A fault: the counter is compared before it is advanced.
FetchPastEnd(w) ==
  /\ phase = "scan" /\ w \in Running /\ worker[w] = Idle
  /\ nextInput' = nextInput + 1
  /\ worker' = [worker EXCEPT ![w] =
                  IF nextInput <= NumInputs + 1 THEN <<nextInput, 1>> ELSE WorkerDone]
  /\ UNCHANGED <<link, deferred, hits, reports, failed, phase, replayed, slots>>

\* A fault: reading and advancing the counter are not one step, and a worker that
\* is waiting too reads the same value.
FetchWithoutClaim(w) ==
  /\ phase = "scan" /\ w \in Running /\ worker[w] = Idle
  /\ nextInput' = IF \E v \in Running \ {w} : worker[v] = Idle
                  THEN nextInput ELSE nextInput + 1
  /\ worker' = [worker EXCEPT ![w] =
                  IF nextInput <= NumInputs THEN <<nextInput, 1>> ELSE WorkerDone]
  /\ UNCHANGED <<link, deferred, hits, reports, failed, phase, replayed, slots>>

\* NextInput.fetch_add: each input goes to one worker.
Fetch(w) ==
  /\ phase = "scan" /\ w \in Running /\ worker[w] = Idle
  /\ nextInput' = nextInput + 1
  /\ worker' = [worker EXCEPT ![w] =
                  IF nextInput <= NumInputs THEN <<nextInput, 1>> ELSE WorkerDone]
  /\ UNCHANGED <<link, deferred, hits, reports, failed, phase, replayed, slots>>

\* The diagnostics due for a reference: issueInvisibleRef and issueUndefRef.
Due(r) ==
  LET s == link.syms[r.sym]
  IN IF r.type = "unsupported" \/ ~canIssueUndef(s, link.output) THEN {}
     ELSE IF s.vis # "default" THEN Reports ELSE {"Undef"}

ReportUndefined(r) ==
  LET due    == Due(r)
      raised == {k \in due : ~(link.warnOnce /\ <<r.sym, k>> \in hits)}
  IN /\ reports' = [reports EXCEPT ![r.sym] =
                      [k \in Reports |-> @[k] + IF k \in raised THEN 1 ELSE 0]]
     /\ hits' = IF link.warnOnce THEN hits \cup {<<r.sym, k>> : k \in raised} ELSE hits
     /\ failed' = (failed \/ r.type = "unsupported" \/ raised # {})

\* scanRelocationsHelper and scanRelocationParallel for the worker's next
\* relocation.  The reports of one reference are made under m_RelocMutex, and
\* nothing else that is shared is written.
ScanOne(w) ==
  /\ phase = "scan" /\ worker[w] \notin {Idle, WorkerDone}
  /\ LET p == worker[w]
     IN IF p[2] > Len(link.inputs[p[1]])
        THEN /\ worker' = [worker EXCEPT ![w] = Idle]
             /\ UNCHANGED <<deferred, hits, reports, failed>>
        ELSE /\ ReportUndefined(RelocAt(p))
             /\ deferred' = deferred \cup {q \in {p} : Deferrable(link, q)}
             /\ worker' = [worker EXCEPT ![w] = <<p[1], p[2] + 1>>]
  /\ UNCHANGED <<link, nextInput, phase, replayed, slots>>

\* llvm::parallelFor returns when every task has ended.
Join ==
  /\ phase = "scan" /\ \A w \in Running : worker[w] = WorkerDone
  /\ phase' = "replay"
  /\ UNCHANGED <<link, nextInput, worker, deferred, hits, reports, failed, replayed,
                 slots>>

\* A fault: the first relocations of all inputs are replayed first.
ReplayLater(p) ==
  /\ phase = "replay" /\ p \in deferred \ replayed
  /\ \A q \in deferred \ replayed :
       q # p => p[2] < q[2] \/ (p[2] = q[2] /\ p[1] < q[1])
  /\ replayed' = replayed \cup {p}
  /\ slots' = scanDeferredRelocation(slots, link, p)
  /\ UNCHANGED <<link, nextInput, worker, deferred, hits, reports, failed, phase>>

\* replayScanRelocations, one relocation after the other.
Replay(p) ==
  /\ phase = "replay" /\ p \in deferred \ replayed
  /\ \A q \in deferred \ replayed : q # p => Before(p, q)
  /\ replayed' = replayed \cup {p}
  /\ slots' = scanDeferredRelocation(slots, link, p)
  /\ UNCHANGED <<link, nextInput, worker, deferred, hits, reports, failed, phase>>

CopiesLeft == Cardinality(slots.copied) < Len(slots.toCopy)

Copy ==
  /\ phase = "replay" /\ replayed = deferred /\ CopiesLeft
  /\ slots' = createCopyRelocation(slots, slots.toCopy[Cardinality(slots.copied) + 1])
  /\ UNCHANGED <<link, nextInput, worker, deferred, hits, reports, failed, phase,
                 replayed>>

\* scanRelocations returns, with diagnose().
Finish ==
  /\ phase = "replay" /\ replayed = deferred /\ ~CopiesLeft
  /\ phase' = "done" /\ failed' = (failed \/ slots.error)
  /\ UNCHANGED <<link, nextInput, worker, deferred, hits, reports, replayed, slots>>

Next ==
  \/ \E w \in Workers : Fetch(w) \/ ScanOne(w)
  \/ Join
  \/ \E p \in deferred : Replay(p)
  \/ Copy
  \/ Finish

Spec == Init /\ [][Next]_vars

------------------------------------------------------------------------------
SlotsType ==
  /\ slots.reserved \in [Symbols -> SUBSET {"GOT", "PLT", "Rel"}]
  /\ \A n \in DOMAIN slots.got :
       slots.got[n] \in [kind : SlotKinds, sym : Symbols \cup {NoSym}]
  /\ slots.gotMap \in [Symbols -> 0..Len(slots.got)]
  /\ slots.relaxed \subseteq Positions(link) /\ slots.copied \subseteq Symbols
  /\ slots.module \in 0..Len(slots.got) /\ slots.error \in BOOLEAN

\* The types of the variables.  The workers together never take more than one
\* turn each past the last input, and no worker ever stands at an input that does
\* not exist.
TypeOK ==
  /\ nextInput \in 1..NumInputs + 1 + NumWorkers
  /\ \A w \in Workers :
       \/ worker[w] \in {Idle, WorkerDone}
       \/ /\ worker[w][1] \in 1..NumInputs
          /\ worker[w][2] \in 1..Len(link.inputs[worker[w][1]]) + 1
  /\ replayed \subseteq deferred /\ deferred \subseteq Positions(link)
  /\ hits \subseteq Symbols \X Reports
  /\ reports \in [Symbols -> [Reports -> Nat]]
  /\ failed \in BOOLEAN /\ phase \in {"scan", "replay", "done"}
  /\ SlotsType

Serial == INSTANCE SerialScan WITH scanned <- replayed

\* Whatever the schedule of the workers, the slots, their order, the dynamic
\* relocations and the copies are those of the serial scan.
SameAsSerialScan == Serial!Spec

Counted(x, k) ==
  LET n == Cardinality({p \in Positions(link) :
                          RelocAt(p).sym = x /\ k \in Due(RelocAt(p))})
  IN IF link.warnOnce /\ n > 1 THEN 1 ELSE n

\* Every undefined reference is reported once, with --warn-once every name, by
\* whichever worker meets it; and the link fails when the serial scan would.
ReportsLikeSerial ==
  phase # "scan" =>
    /\ \A x \in Symbols, k \in Reports : reports[x][k] = Counted(x, k)
    /\ failed <=> \/ \E x \in Symbols : reports[x]["Undef"] > 0
                  \/ \E p \in Positions(link) : RelocAt(p).type = "unsupported"
                  \/ phase = "done" /\ slots.error

\* The slot that the code expects to find when it applies a reference.
Expects(r) ==
  CASE r.type \in {"GOTPCREL", "GOTPCRELX"} -> {"Regular"}
    [] r.type = "GOTTPOFF" -> {"TLS_IE"}
    [] r.type = "TLSLD"    -> {"TLS_LD"}
    [] r.type = "TLSGD" /\ ~link.syms[r.sym].local -> {"TLS_GD"}
    [] OTHER -> {}

\* Every reference through the .got has a slot of its kind: relaxing one reference
\* must not take it from another, in whatever order they are met.  A symbol that is
\* referenced through two kinds of slots shares one entry of the map and is left
\* out, as is a local symbol with R_X86_64_TLSGD, for which there is no slot.
GotReferencesServed ==
  phase = "done" =>
    \A p \in deferred \ slots.relaxed :
      LET x     == RelocAt(p).sym
          kinds == UNION {Expects(RelocAt(q)) :
                          q \in {d \in deferred : RelocAt(d).sym = x}}
      IN (Cardinality(kinds) = 1 /\ Expects(RelocAt(p)) # {}) =>
           /\ slots.gotMap[x] # 0
           /\ slots.got[slots.gotMap[x]].kind \in kinds

\* A copy of a library's data must not change how references through the .got to
\* it were scanned: their slot is filled by the loader, wherever the copy was asked
\* for first.
CopiedSymbolsStayPreemptible ==
  phase = "done" =>
    \A n \in DOMAIN slots.got :
      slots.got[n].kind = "Regular" /\ slots.got[n].sym \in slots.copied =>
        \E i \in DOMAIN slots.relaDyn :
          slots.relaDyn[i].at = InSlot(n) /\ slots.relaDyn[i].type = "GLOB_DAT"

===============================================================================
