------------------------------- MODULE MCLayout -------------------------------
\* The scripts of the model checking runs.
EXTENDS Layout, SequencesExt

CONSTANT Families   \* the families of scripts that a run considers

Bytes(n)   == [op |-> "bytes", n |-> n]
Evaluated(a) == [op |-> "assign", n |-> a]

Sec(kind, align, body, after) ==
  [kind |-> kind, align |-> align, body |-> body, after |-> after, vma |-> NoExpression,
   lma |-> NoExpression, overlay |-> 0, region |-> 0, loadRegion |-> 0, kept |-> FALSE]

Is(x, expr) == [name |-> x, expr |-> expr]

Script(before, sections, assignments) ==
  [before |-> before, sections |-> sections, assignments |-> assignments,
   overlays |-> <<>>, regions |-> <<>>]

------------------------------------------------------------------------------
\* A chain of forward references that ends with a size (linker_script.md), each
\* link where the script has room for it; the first one moves the section whose
\* size is asked for.
Link(k) == <<"u", "v1", "v2", "v3", "v4">>[k]

Chain(n, moves) ==
  LET to(k) == IF k = n THEN <<SizeOf(2)>> ELSE <<Symbol(Link(k + 1))>>
      use   == IF moves THEN Is(".", <<Dot, Symbol("u"), Constant(4)>>)
               ELSE Is("w", <<Symbol("u")>>)
  IN  Script(<<1>>,
             <<Sec("code", 4, <<Bytes(4)>>, <<2>>),
               Sec("data", 4, <<Bytes(4)>> \o (IF n > 1 THEN <<Evaluated(3)>> ELSE <<>>),
                   [k \in 1..(IF n > 2 THEN n - 2 ELSE 0) |-> k + 3])>>,
             <<Is("u", to(1)), use>> \o [k \in 1..n - 1 |-> Is(Link(k + 1), to(k + 1))])

Chains == {Chain(n, moves) : n \in 1..5, moves \in BOOLEAN}

\* The size of code that a trampoline may enlarge, and data behind it, near, at the
\* next page or at an address of its own.
Sizes ==
  {Script(IF ahead THEN <<1>> ELSE <<>>,
          <<Sec("code", 4, <<Bytes(4)>>, <<>>), Sec("code", 4, <<Bytes(4)>>, <<>>),
            [Sec(k, align, <<Bytes(4)>>, IF ahead THEN <<>> ELSE <<1>>) EXCEPT !.vma = vma]>>,
          <<Is("x", <<SizeOf(2)>> \o more)>>) :
     k \in {"code", "data"}, ahead \in BOOLEAN, align \in {4, 16},
     vma \in {NoExpression, <<Constant(64)>>}, more \in {<<>>, <<AddrOf(3)>>}}

\* Names that are assigned more than once, before and behind their uses.
Twice ==
  {Script(<<1, 2>>,
          <<Sec("code", 4, <<Bytes(4), Evaluated(3)>>, <<4>>), Sec(k, 4, <<Bytes(8)>>, <<5, 6>>)>>,
          <<Is("w", first), Is("x", <<Constant(8)>>), Is(".", <<Dot, Symbol("x")>>),
            Is("x", second), Is("y", <<Symbol("x"), AddrOf(1)>>), Is("x", third)>>) :
     k \in {"code", "data"},
     first \in {<<Symbol("x")>>, <<Symbol("y")>>, <<AddrOf(2)>>},
     second \in {<<Symbol("x"), Constant(4)>>, <<Symbol("y")>>, <<Symbol("w")>>, <<Dot>>},
     third \in {<<Constant(16)>>, <<LoadAddrOf(2)>>}}

\* Three sections of any kind, with or without bytes, aligned or not, and the
\* counter moved in between, beyond a page or not at all.
Kinds ==
  {Script(<<>>,
          <<Sec("code", 4, <<Bytes(4)>>, <<>>),
            [Sec(k[1], a, IF empty THEN <<>> ELSE <<Bytes(4)>>, <<1>>) EXCEPT !.kept = kept],
            Sec(k[2], 8, <<Bytes(4), Evaluated(2)>>, <<>>),
            Sec(k[3], 4, <<Bytes(8)>>, <<>>)>>,
          <<Is(".", <<Dot, Constant(gap)>>), Is(".", <<Aligned(8)>>)>>) :
     k \in (Alloc \cup {"debug"}) \X Alloc \X {"data", "bss"},
     a \in {4, 8}, empty \in BOOLEAN, kept \in {FALSE}, gap \in {0, 24}}
  \cup
  {Script(<<>>,
          <<Sec("code", 4, <<>>, <<>>), [Sec(k, 4, <<>>, <<1>>) EXCEPT !.kept = TRUE],
            Sec("data", 8, <<Bytes(4)>>, <<>>)>>,
          <<Is(".", <<Dot, Constant(4)>>)>>) : k \in Alloc}

\* Memory for code and for data, and a memory from which data is loaded.
InRegions(s, vma, lma) == [s EXCEPT !.region = vma, !.loadRegion = lma]

Regions ==
  {[Script(<<1>>,
           <<InRegions(Sec("code", 4, <<Bytes(4)>>, <<>>), 1, own),
             InRegions(Sec(k[1], 4, <<Bytes(n)>>, <<>>), 2, l),
             InRegions(Sec(k[2], 8, <<Bytes(4), Evaluated(2)>>, <<>>), 2, l),
             InRegions(Sec(k[3], 4, <<Bytes(4)>>, <<>>), r, IF r = 2 THEN l ELSE own)>>,
           <<Is("x", <<LoadAddrOf(3)>>), Is(".", <<Dot, Constant(2)>>)>>)
      EXCEPT !.regions = <<[origin |-> 16], [origin |-> 256]>>] :
     k \in {<<"data", "data", "data">>, <<"data", "bss", "data">>, <<"data", "tbss", "bss">>,
            <<"code", "data", "code">>, <<"bss", "data", "bss">>},
     n \in {0, 4, 6}, own \in {0, 1}, l \in {0, 1, 2}, r \in {1, 2}}
  \cup
  \* The second section at the load address of the first, or near it; at its own
  \* load address, which the padding has caught up with, or not quite.
  {[Script(<<>>,
           <<InRegions(Sec("data", 4, <<Bytes(n)>>, <<>>), 1, 2),
             InRegions(Sec("data", 8, <<Bytes(4)>>, <<>>), 1, 2)>>, <<>>)
      EXCEPT !.regions = <<[origin |-> 16], [origin |-> o]>>] :
     n \in {4, 228, 236, 244}, o \in {20, 24, 256}}

\* Addresses of the script.
Addresses ==
  {Script(<<1>>,
          <<[Sec("code", 4, <<Bytes(4)>>, <<>>) EXCEPT !.vma = v1, !.lma = l1],
            Sec("code", 4, <<Bytes(4)>>, <<>>),
            [Sec(k, 8, <<Bytes(4)>>, <<2>>) EXCEPT !.lma = l3]>>,
          <<Is("x", <<LoadAddrOf(3)>>), Is("y", <<AddrOf(3), SizeOf(3)>>)>>) :
     k \in {"code", "data"},
     v1 \in {NoExpression, <<Constant(8)>>, <<Symbol("y")>>},
     l1 \in {NoExpression, <<Constant(64)>>},
     l3 \in {NoExpression, <<AddrOf(3)>>, <<Constant(96)>>, <<LoadAddrOf(2), Constant(4)>>}}

\* An overlay of two members between two sections; a trampoline may grow either.
Overlays ==
  {[Script(<<>>,
           <<Sec("code", 4, <<Bytes(4)>>, <<>>),
             [Sec("code", 4, <<Bytes(n[1])>>, <<>>) EXCEPT !.overlay = 1],
             [Sec(k, 4, <<Bytes(n[2])>>, after) EXCEPT !.overlay = 1],
             Sec("code", 8, <<Bytes(4)>>, <<>>)>>,
           [i \in DOMAIN after |-> Is(".", <<Dot, Constant(8)>>)])
      EXCEPT !.overlays = <<[start |-> start, lma |-> lma]>>] :
     n \in {<<4, 8>>, <<8, 4>>, <<8, 0>>}, k \in {"code", "data"},
     after \in {<<>>, <<1>>},
     start \in {NoExpression, <<Constant(32)>>}, lma \in {NoExpression, <<Constant(128)>>}}

MCScripts ==
  UNION {CASE f = "chains" -> Chains [] f = "sizes" -> Sizes [] f = "twice" -> Twice [] f = "kinds" -> Kinds
           [] f = "regions" -> Regions [] f = "addresses" -> Addresses
           [] f = "overlays" -> Overlays : f \in Families}
===============================================================================
