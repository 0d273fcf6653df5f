------------------------------ MODULE SettleLoop ------------------------------
(***************************************************************************)
(* What the settling of deferred relaxations promises, whatever the layout *)
(* does between its rounds: a round rejects candidates for good, or        *)
(* rewrites the program headers once after a rejection, or commits what is *)
(* left.  Candidates are recorded before the settling starts, and it gives *)
(* up when the rounds reach a bound.                                       *)
(*                                                                         *)
(* The postRelax that a backend of lib/Target/GNULDBackend.cpp:4292 may    *)
(* supply, as RISCVLDBackend does.                                         *)
(***************************************************************************)
EXTENDS Integers, FiniteSets

CONSTANTS
  Candidates,   \* whatever may be recorded
  MaxRounds     \* number of candidates -> the bound on the rounds

VARIABLES
  recorded,   \* the candidates recorded by the relaxation passes
  rejected,   \* those that a round has rejected
  changed,    \* this round has rejected some
  unsynced,   \* the layout has changed since the headers were last written
  rounds,     \* how many rounds have been begun
  status      \* "relaxing", "settling" between rounds, "verifying" in one,
              \* "committed", "error", or "aborted" by an error of another kind

vars == <<recorded, rejected, changed, unsynced, rounds, status>>

TypeOK ==
  /\ recorded \subseteq Candidates
  /\ rejected \subseteq Candidates
  /\ changed \in BOOLEAN /\ unsynced \in BOOLEAN
  /\ rounds \in Nat
  /\ status \in {"relaxing", "settling", "verifying", "committed", "error", "aborted"}

Init ==
  /\ recorded = {} /\ rejected = {}
  /\ changed = FALSE /\ unsynced = FALSE
  /\ rounds = 0
  /\ status = "relaxing"

Record ==
  /\ status = "relaxing"
  /\ \E c \in Candidates : recorded' = recorded \cup {c}
  /\ UNCHANGED <<rejected, changed, unsynced, rounds, status>>

Settle ==
  /\ status = "relaxing"
  /\ status' = "settling"
  /\ UNCHANGED <<recorded, rejected, changed, unsynced, rounds>>

StartRound ==
  /\ status = "settling"
  /\ rounds < MaxRounds[Cardinality(recorded)]
  /\ rounds' = rounds + 1
  /\ changed' = FALSE
  /\ status' = "verifying"
  /\ UNCHANGED <<recorded, rejected, unsynced>>

Reject ==
  /\ status = "verifying"
  /\ \E c \in recorded \ rejected : rejected' = rejected \cup {c}
  /\ changed' = TRUE
  /\ UNCHANGED <<recorded, unsynced, rounds, status>>

\* The layout has to be computed again, and the headers after it.
Retry ==
  /\ status = "verifying"
  /\ changed
  /\ unsynced' = TRUE
  /\ status' = "settling"
  /\ UNCHANGED <<recorded, rejected, changed, rounds>>

Sync ==
  /\ status = "verifying"
  /\ ~changed /\ unsynced
  /\ unsynced' = FALSE
  /\ status' = "settling"
  /\ UNCHANGED <<recorded, rejected, changed, rounds>>

Commit ==
  /\ status = "verifying"
  /\ ~changed /\ ~unsynced
  /\ status' = "committed"
  /\ UNCHANGED <<recorded, rejected, changed, unsynced, rounds>>

GiveUp ==
  /\ status = "settling"
  /\ rounds >= MaxRounds[Cardinality(recorded)]
  /\ status' = "error"
  /\ UNCHANGED <<recorded, rejected, changed, unsynced, rounds>>

Abort ==
  /\ status \in {"relaxing", "settling"}
  /\ status' = "aborted"
  /\ UNCHANGED <<recorded, rejected, changed, unsynced, rounds>>

Next ==
  \/ Record \/ Settle
  \/ StartRound \/ Reject \/ Retry \/ Sync \/ Commit
  \/ GiveUp \/ Abort

Spec == Init /\ [][Next]_vars

------------------------------------------------------------------------------
\* A round of the settling is paid for by a rejection, by the rejection that a
\* synchronization follows, or is the one under way.
RoundsPaidFor ==
  rounds + (IF unsynced THEN 1 ELSE 0)
    <= 2 * Cardinality(rejected) +
       (IF status = "verifying" /\ changed THEN -1
        ELSE IF status \in {"verifying", "committed"} THEN 1
        ELSE 0)

\* The settling never gives up.
NeverGivesUp == status # "error"
================================================================================
