--------------------------- MODULE ScriptExpressions ---------------------------
(***************************************************************************)
(* The expressions of a linker script, as far as the layout tells them     *)
(* apart: a sum of constants, of the location counter, of symbols and of   *)
(* what is asked of an output section.                                     *)
(*                                                                         *)
(* lib/Script/Expression.cpp.                                              *)
(***************************************************************************)
EXTENDS Integers, Sequences, Functions

Term(op, n, sect, sym) == [op |-> op, n |-> n, sect |-> sect, sym |-> sym]

Constant(n)   == Term("constant", n, 0, "")
Dot           == Term("dot", 0, 0, "")
Aligned(n)    == Term("align", n, 0, "")
Symbol(x)     == Term("symbol", 0, 0, x)
AddrOf(s)     == Term("addr", 0, s, "")
LoadAddrOf(s) == Term("loadaddr", 0, s, "")
SizeOf(s)     == Term("sizeof", 0, s, "")

NoExpression == <<>>

AlignUp(v, a) == ((v + a - 1) \div a) * a

NamesIn(e) == {t.sym : t \in {e[i] : i \in DOMAIN e}} \ {""}

Asks(e, op) == \E i \in DOMAIN e : e[i].op = op

\* What a term reads; env.means tells of every name the assignment that it
\* stands for in this expression.
TermValue(t, env) ==
  CASE t.op = "constant" -> t.n
    [] t.op = "dot"      -> env.dot
    [] t.op = "align"    -> AlignUp(env.dot, t.n)
    [] t.op = "symbol"   -> env.value[env.means[t.sym]]
    [] t.op = "addr"     -> env.addr[t.sect]
    [] t.op = "loadaddr" -> env.paddr[t.sect]
    [] t.op = "sizeof"   -> env.size[t.sect]

Evaluate(e, env) == FoldFunction(+, 0, [i \in DOMAIN e |-> TermValue(e[i], env)])
================================================================================
