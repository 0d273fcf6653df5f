--------------------------- MODULE MCArchiveReader ---------------------------
\* The command lines and the contents of the files of the model checking runs:
\* an object and two archives of two members.
EXTENDS ArchiveReader, TLC

CONSTANT Families   \* the families of contents that a run considers

MCFiles == {"o", "m1", "m2", "m3", "m4"}
MCNameOrder == <<"foo", "bar", "baz", "qux">>
MCMembersOf == "a1" :> <<"m1", "m2">> @@ "a2" :> <<"m3", "m4">>

Object(f)   == [kind |-> "object", file |-> f]
Archive(a)  == [kind |-> "archive", archive |-> a, whole |-> FALSE]
Whole(a)    == [kind |-> "archive", archive |-> a, whole |-> TRUE]
GroupStart  == [kind |-> "group start"]
GroupEnd    == [kind |-> "group end"]

Grouped == <<Object("o"), GroupStart, Archive("a1"), Archive("a2"), GroupEnd>>

MCCommandLines ==
  {Grouped,
   <<Object("o"), Archive("a1"), Archive("a2"), Archive("a1")>>,
   <<Archive("a1"), Object("o"), GroupStart, Archive("a2"), Whole("a1"), GroupEnd>>}
GroupOnly == {Grouped}

Nothing == [n \in Names |-> "none"]
Silent  == [f \in Files |-> Nothing]

\* What a file may say: D of the name n, R of the names X, and nothing of others.
Defining(n, D, R, X) ==
  {s \in [Names -> Sayings] :
     s[n] \in D /\ \A x \in Names \ {n} : s[x] \in IF x \in X THEN R ELSE {"none"}}
Three == {"foo", "bar", "baz"}

ContentsOf(family) ==
  CASE family = "references" ->   \* every graph of references among three members
         {[Silent EXCEPT !["o"] = o, !["m1"] = m1, !["m2"] = m2, !["m3"] = m3] :
            o \in Defining("foo", {"ref"}, {"none", "weakref"}, Three),
            m1 \in Defining("bar", {"function"}, {"none", "ref"}, Three),
            m2 \in Defining("baz", {"function"}, {"none", "ref", "weakref"}, Three),
            m3 \in Defining("foo", {"function"}, {"none", "ref"}, Three)}
    [] family = "definitions" ->  \* every kind of definition of the names needed
         {[Silent EXCEPT !["o"] = o, !["m1"] = m1, !["m2"] = m2, !["m3"] = m3] :
            o \in Defining("baz", {"none"}, {"none", "ref", "common"}, Three),
            m1 \in Defining("foo", {"data", "function", "common"}, {"none"}, {}),
            m2 \in Defining("bar", {"data", "weak", "common"}, {"none", "common"}, {"baz"}),
            m3 \in Defining("foo", {"data", "weak"}, {"none", "data"}, Three)}
    [] family = "alternating" ->  \* chains that lead from archive to archive
         {[Silent EXCEPT !["o"] = o, !["m1"] = m1, !["m2"] = m2, !["m3"] = m3,
                         !["m4"] = m4] :
            o \in Defining("foo", {"none", "ref"}, {"none"}, {}),
            m1 \in Defining("bar", {"function"}, {"none", "ref"}, Names),
            m2 \in Defining("foo", {"function"}, {"none", "ref"}, {"bar"}),
            m3 \in Defining("baz", {"function"}, {"none", "ref"}, Names),
            m4 \in Defining("qux", {"function"}, {"none", "ref"}, {"foo", "bar"})}
    [] family = "weak first" ->   \* names that are referenced weakly beforehand
         {[Silent EXCEPT !["o"] = o, !["m1"] = m1, !["m2"] = m2, !["m3"] = m3,
                         !["m4"] = m4] :
            o \in Defining("foo", {"ref"}, {"weakref"}, Names),
            m1 \in Defining("bar", {"function"}, {"none", "ref"}, Names),
            m2 \in Defining("qux", {"function"}, {"none"}, {}),
            m3 \in Defining("foo", {"function"}, {"none", "ref"}, Names),
            m4 \in Defining("baz", {"function"}, {"none", "ref"}, Names)}
    [] family = "reserved" ->     \* a common of a later archive meets a weak definition
         {[Silent EXCEPT !["o"] = o, !["m1"] = m1, !["m2"] = m2, !["m3"] = m3,
                         !["m4"] = m4] :
            o \in Defining("foo", {"ref"}, {"none", "weak"}, {"bar", "baz", "qux"}),
            m1 \in Defining("bar", {"data"}, {"common"}, {"baz"}),
            m2 \in Defining("qux", {"data"}, {"none"}, {}),
            m3 \in Defining("foo", {"function"}, {"common"}, {"bar"}),
            m4 \in Defining("baz", {"data"}, {"common"}, {"qux"})}

\* The ordinates that ArchiveReader keeps are those that resolve gives.
SymbolOf(saying) ==
  [desc |-> CASE saying \in {"ref", "weakref"} -> "Undefined"
              [] saying = "common"            -> "Common"
              [] OTHER                        -> "Define",
   binding |-> IF saying \in {"weak", "weakref"} THEN "Weak" ELSE "Global",
   dyn |-> FALSE, vis |-> Default, type |-> "NoType", size |-> 1, value |-> 0,
   origin |-> "o", bitcode |-> FALSE, preserve |-> FALSE, exportToDyn |-> FALSE]

ASSUME OrdinatesAgree ==
  \A x, y \in Sayings \ {"none"} :
    LET r == resolve(SymbolOf(x), SymbolOf(y), FALSE)
        action == LinkAction(OrdinateOf(y), OrdinateOf(x))
    IN /\ getOrdinate(r.info) =
            IF action \in Overriding THEN OrdinateOf(y) ELSE OrdinateOf(x)
       /\ r.diag # "none" <=> action = "MDEF"

MCContents == UNION {ContentsOf(f) : f \in Families}
================================================================================
