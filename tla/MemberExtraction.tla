--------------------------- MODULE MemberExtraction ---------------------------
(***************************************************************************)
(* What reading a command line promises about the members of archives,     *)
(* without the symbol tables, the positions and the passes: a member       *)
(* becomes part of the link only for a name that the files of the link     *)
(* need and do not have, and a file is never dropped again.                *)
(***************************************************************************)
EXTENDS FiniteSets

CONSTANTS Names, Needed     \* Needed: the names asked for on the command line

VARIABLES
  says,     \* file -> name -> what the file says of the name
  named,    \* the files that the command line names itself
  loaded    \* the files that are part of the link

References(f, n) == says[f][n] = "ref"
Defines(f, n)    == says[f][n] \in {"data", "function", "weak"}
Strongly(f, n)   == says[f][n] \in {"data", "function"}
Reserves(f, n)   == says[f][n] = "common"

\* A name that is needed and missing, or only reserved: a common is stronger than
\* a weak definition.
Missing(n) ==
  /\ n \in Needed \/ \E f \in loaded : References(f, n)
  /\ ~ \E f \in loaded : Defines(f, n) \/ Reserves(f, n)
OnlyReserved(n) ==
  (\E f \in loaded : Reserves(f, n)) /\ ~ \E f \in loaded : Strongly(f, n)

WantedFrom(f) ==
  \E n \in Names : \/ Missing(n) /\ (Defines(f, n) \/ Reserves(f, n))
                   \/ OnlyReserved(n) /\ says[f][n] = "data"

Init == loaded = {}

Load(f) == /\ f \notin loaded /\ (f \in named \/ WantedFrom(f))
           /\ loaded' = loaded \cup {f}

\* The members of a whole archive come together, each of them named.
Next == \/ \E f \in DOMAIN says : Load(f)
        \/ \E F \in SUBSET named : loaded' = loaded \cup F

Spec == Init /\ [][Next]_loaded
================================================================================
