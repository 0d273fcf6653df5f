--------------------------- MODULE MCRelocationScan ---------------------------
(***************************************************************************)
(* Links of two or three inputs with three relocations among them, in      *)
(* every order, and two symbols.                                           *)
(***************************************************************************)
EXTENDS RelocationScan

CONSTANT Families

Sym(desc, type) ==
  [local |-> FALSE, desc |-> desc, weak |-> FALSE, vis |-> "default", type |-> type]
Local(s)  == [s EXCEPT !.local = TRUE]
Hidden(s) == [s EXCEPT !.vis = "hidden"]
Weak(s)   == [s EXCEPT !.weak = TRUE]

At(type, x, place) ==
  [type |-> type, sym |-> x, relaxable |-> FALSE, place |-> place]
Code(type, x) == At(type, x, "readonly")
Relaxable(x)  == [Code("GOTPCRELX", x) EXCEPT !.relaxable = TRUE]

Define == Sym("Define", "NoType")
Import == Sym("Dyn", "NoType")
Undef  == Sym("Undef", "NoType")

\* The relocations of a family, what its symbols may be, and its outputs.
RelocsOf(family) ==
  CASE family = "got" ->
         {Code("GOTPCREL", "x"), Code("GOTPCRELX", "x"), Relaxable("x"), Relaxable("y")}
    [] family = "copies" ->
         {At("R64", z, p) : z \in {"x", "y"}, p \in {"writable", "readonly"}}
           \cup {Code("R32", "x"), Code("GOTPCREL", "x"), Code("GOTPCREL", "y")}
    [] family = "calls" ->
         {Code("PLT32", "x"), At("R64", "x", "writable"), Code("R64", "x"),
          At("R32", "x", "writable")}
    [] family = "tls" ->
         {Code("GOTTPOFF", "x"), Code("TLSGD", "x"), Code("TLSLD", "x"),
          Code("TLSLD", "y")}
    [] family = "undefined" ->
         {At("R64", "x", "writable"), At("PC32", "x", "not allocated"),
          Code("GOTPCREL", "y"), Code("unsupported", "x")}

XsOf(family) ==
  CASE family = "got" ->
         {Define, Local(Define), Hidden(Define), Import, Hidden(Weak(Undef)), Weak(Undef),
          Sym("Define", "IndirectFunc")}
    [] family = "copies" -> {Import}
    [] family = "calls"  ->
         {Sym("Dyn", "Function"), Sym("Define", "Function"),
          Local(Sym("Define", "Function")), Sym("Define", "IndirectFunc"), Weak(Undef)}
    [] family = "tls" -> {Define, Local(Define), Import}
    [] family = "undefined" -> {Undef, Hidden(Undef), Hidden(Weak(Undef))}

Y(family) == CASE family = "copies" -> Import [] family = "undefined" -> Undef
               [] OTHER -> Define

OutputsOf(family) ==
  CASE family = "copies" -> {"dynamic"}
    [] family = "tls" -> Outputs \ {"static"}
    [] family = "undefined" -> {"dynamic", "shared"}
    [] OTHER -> Outputs

\* A link without shared libraries is static, and only that.
Possible(l) ==
  l.output = "static" => \A x \in Symbols : l.syms[x].desc # "Dyn"

\* Two inputs, or three for the two workers.
Two   == <<<<1, 2>>, <<3>>>>
Three == <<<<1>>, <<2>>, <<3>>>>
ShapesOf(family) == IF family \in {"got", "undefined"} THEN {Two, Three} ELSE {Two}
Fill(shape, rs) == [i \in DOMAIN shape |-> [k \in DOMAIN shape[i] |-> rs[shape[i][k]]]]

LinksOf(family) ==
  {[inputs |-> Fill(shape, rs), syms |-> [z \in Symbols |-> IF z = "x" THEN x ELSE Y(family)],
    output |-> out, warnOnce |-> once] :
     shape \in ShapesOf(family), rs \in [1..3 -> RelocsOf(family)], x \in XsOf(family),
     out \in OutputsOf(family),
     once \in IF family = "undefined" THEN BOOLEAN ELSE {FALSE}}

MCLinks == {l \in UNION {LinksOf(f) : f \in Families} : Possible(l)}
===============================================================================
