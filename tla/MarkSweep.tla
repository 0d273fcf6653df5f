------------------------------- MODULE MarkSweep -------------------------------
(***************************************************************************)
(* What section garbage collection promises, without saying how it visits  *)
(* the sections: a sweep drops, at once, the candidates that no chain of   *)
(* references from a root leads to, and drops nothing else.                *)
(***************************************************************************)
EXTENDS FiniteSets

CONSTANT Sections

VARIABLES
  roots,        \* the sections that must stay
  edges,        \* section -> the sections it refers to
  followed,     \* the sections whose references are followed
  candidates,   \* the sections a sweep may drop
  collected     \* the sections dropped so far

Closed(S) ==
  /\ S \subseteq Sections /\ roots \subseteq S
  /\ \A s \in S \cap followed : edges[s] \subseteq S

\* The sections that chains of references lead to.
IsLive(S) == Closed(S) /\ \A T \in SUBSET Sections : Closed(T) => S \subseteq T

Init == collected = {}

Sweep ==
  \E live \in SUBSET Sections :
    /\ IsLive(live)
    /\ collected' = collected \cup (candidates \ live)

Spec == Init /\ [][Sweep]_collected
================================================================================
