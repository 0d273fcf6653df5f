------------------------------ MODULE MCNamePool ------------------------------
\* What the inputs of the model checking runs may say of a name.
EXTENDS NamePool, TLC

Sym(desc, binding, vis, size) ==
  [desc |-> desc, binding |-> binding, vis |-> vis, type |-> "NoType",
   size |-> size, value |-> 0]

Says(descs, bindings, viss, sizes) ==
  {Sym(d, b, v, s) : d \in descs, b \in bindings, v \in viss, s \in sizes}

Absolute(v) == [Sym("Define", "Absolute", Default, 1) EXCEPT !.value = v]
TLS(s)      == [s EXCEPT !.type = "ThreadLocal"]

Both == {"Global", "Weak"}

\* Objects only: references, definitions and commons of every binding with every
\* visibility a source gives, two sizes of commons, absolute definitions.
ObjectSymbols ==
  Says({"Undefined", "Define"}, Both, {Default, Hidden, Protected}, {1})
    \cup Says({"Common"}, {"Global"}, {Default, Hidden}, {1, 2})
    \cup Says({"Common"}, {"Weak"}, {Default}, {2})
    \cup {Absolute(0), Absolute(1)}
    \cup {TLS(Sym("Undefined", "Global", Default, 1)),
          TLS(Sym("Define", "Weak", Hidden, 1))}

\* Objects and libraries together.
LinkedObjectSymbols ==
  Says({"Undefined", "Define"}, Both, {Default, Hidden}, {1})
    \cup Says({"Common"}, {"Global"}, {Default}, {1})

SharedSymbols ==
  Says({"Undefined"}, Both, {Default}, {1})
    \cup Says({"Define"}, Both, {Default, Protected}, {1})

\* All kinds of inputs together.  A library or a bitcode file that disagrees with
\* the others on thread local storage ends the reading.
OptimizedSymbols ==
  Says({"Undefined", "Define"}, Both, {Default}, {1})
    \cup Says({"Common"}, {"Global"}, {Default}, {1})
    \cup Says({"Undefined"}, {"Global"}, {Hidden}, {1})

InBitcode ==
  Says({"Define"}, Both, {Default}, {1})
    \cup Says({"Undefined", "Common"}, {"Global"}, {Default}, {1})

Shared ==
  Says({"Define"}, Both, {Default}, {1}) \cup Says({"Undefined"}, {"Global"}, {Default}, {1})

OrTLS(symbols) == symbols \cup {TLS(Sym("Define", "Global", Default, 1))}
InBitcodeOrTLS == OrTLS(InBitcode)
SharedOrTLS    == OrTLS(Shared)

NoSymbols == {}

\* One object is read with libraries, whatever it says.
LinkedSymbols == [f \in Objs \cup LTOObjs |-> LinkedObjectSymbols]

\* Several early objects are read, and all that an object can say is said, only
\* where nothing but early objects is read.
EarlyObjects == Objs \ LateObjs
PlainObject  == CHOOSE o \in EarlyObjects : TRUE
RichObjects  == EarlyObjects \ {PlainObject}
MixedSymbols ==
  [f \in Objs \cup LTOObjs |-> IF f \in RichObjects THEN ObjectSymbols ELSE OptimizedSymbols]
RichAlone ==
  \A n \in Names :
     (\E r \in read'[n] : r.origin \in RichObjects) =>
        phase' = "read" /\ \A r \in read'[n] : r.origin \in EarlyObjects
SpecAlone == Init /\ [][Next /\ RichAlone]_vars

Symmetric == Permutations(BitcodeFiles)
===============================================================================
