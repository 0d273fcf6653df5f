-------------------------- MODULE MCGarbageCollection --------------------------
\* The links of the model checking runs: three sections, a symbol defined in
\* each, and a fourth symbol that the script or the linker defines.
EXTENDS GarbageCollection, TLC

CONSTANT Families   \* the families of links that a run checks

MCSections == {"a", "b", "c"}
MCSymbols  == {"in a", "in b", "in c", "p"}

Defined(s) == [desc |-> "Define", home |-> s, global |-> TRUE, hidden |-> FALSE,
               script |-> FALSE, uses |-> {}, names |-> {}]
UndefinedSymbol == [Defined("a") EXCEPT !.desc = "Undefined", !.home = NoSection]
StartOf(S) == [UndefinedSymbol EXCEPT !.names = S]
AssignedTo(X) ==
  [UndefinedSymbol EXCEPT !.desc = "Define", !.script = TRUE, !.uses = X]

Kinded(k, s) ==
  [Defined(s) EXCEPT !.desc = IF k[s] = "Common" THEN "Common" ELSE "Define"]

\* An executable that starts in section a.
Basic(k, r, p) ==
  [kind |-> k, alloc |-> {"a", "b"}, rels |-> r,
   backend |-> "a" :> {} @@ "b" :> {} @@ "c" :> {},
   symbol |-> "in a" :> Kinded(k, "a") @@ "in b" :> Kinded(k, "b")
                @@ "in c" :> Kinded(k, "c") @@ "p" :> p,
   entry |-> "in a", firstText |-> "a", keep |-> {}, retain |-> {}, undefs |-> {},
   shared |-> FALSE, exportDynamic |-> FALSE, local |-> {},
   preserve |-> {}, passes |-> <<"full">>]

KindsOf(A, B, C) ==
  {k \in [MCSections -> Kinds] : k["a"] \in A /\ k["b"] \in B /\ k["c"] \in C}

\* Commons hold no relocations.
RelsOf(X, k) ==
  {r \in [MCSections -> SUBSET X] : \A s \in MCSections : k[s] = "Common" => r[s] = {}}

Plain == {"in a", "in b", "in c"}

AllRegular == [s \in MCSections |-> "Regular"]
BitcodeIn(b) == [s \in MCSections |-> IF s = b THEN "Bitcode" ELSE "Regular"]

LinksOf(family) ==
  CASE family = "graphs" ->       \* every graph over the three sections
         UNION {{[Basic(k, r, UndefinedSymbol) EXCEPT !.keep = kept] :
                   r \in RelsOf(Plain, k), kept \in {{}, {"c"}}} :
                k \in KindsOf({"Regular"}, {"Regular", "Unhandled"},
                              {"Regular", "Common", "Ignore"})}
    [] family = "specials" ->     \* the script, the target and the other roots
         {[Basic(AllRegular, r, p) EXCEPT
             !.backend["b"] = t, !.entry = e, !.firstText = NoSection,
             !.retain = kept] :
            r \in {q \in RelsOf(MCSymbols, AllRegular) :
                   q["b"] \subseteq {"in c", "p"} /\ q["c"] = {}},
            p \in {AssignedTo({"in b", "in c"}), StartOf({"c"}), UndefinedSymbol},
            t \in {{}, {"c"}}, e \in {"in b", "p"}, kept \in {{}, {"c"}}}
    [] family = "exports" ->      \* shared libraries, and --export-dynamic
         {[Basic(AllRegular, r, UndefinedSymbol) EXCEPT
             !.shared = sh, !.exportDynamic = ~sh, !.entry = NoSymbol, !.local = l,
             !.symbol["in b"].hidden = h, !.symbol["in c"].global = g,
             !.undefs = u] :
            r \in {q \in [MCSections -> SUBSET Plain] : q["c"] = {}},
            sh, h, g \in BOOLEAN, l \in {{}, {"in a"}}, u \in {{}, {"in c"}}}
    [] family = "plugin" ->       \* a plugin's pass before the linker's
         UNION {{[Basic(k, r, UndefinedSymbol) EXCEPT
                    !.passes = <<"common", "full">>, !.undefs = u] :
                   r \in RelsOf(Plain, k), u \in {{}, {"in b"}}} :
                k \in KindsOf({"Regular"}, {"Regular", "Common"}, {"Common"})}
    [] family = "lto" ->          \* a plugin's pass before the optimizer's
         {[Basic(BitcodeIn("c"), r, AssignedTo({"in b", "in c"})) EXCEPT
             !.passes = <<"common", "lto">>, !.preserve = {"in c"}] :
            r \in {q \in [MCSections -> SUBSET MCSymbols] : q["a"] \subseteq Plain}}
    [] family = "assignments" ->  \* an assignment that uses another one
         {[Basic(AllRegular, r, AssignedTo({"in b"})) EXCEPT
             !.symbol["in c"] = AssignedTo({"p", "in a"})] :
            r \in [MCSections -> SUBSET {"in a", "in c"}]}

MCLinks == UNION {LinksOf(f) : f \in Families}
================================================================================
