------------------------- MODULE MCRiscvRelaxation -------------------------
\* The links of the model checking runs.  The code of a section is a sequence of
\* templates; the distances are those at which a decision may change.
EXTENDS RiscvRelaxation, TLC

CONSTANT Families   \* the families of links that a run considers

\* Templates: what a relocation is, and how many bytes its code takes.
Template(kind, len, to) ==
  [kind |-> kind, len |-> len, to |-> to, addend |-> 0, size |-> 0, hi |-> 0,
   compressible |-> TRUE, relax |-> TRUE]
Label(s, off) == [sect |-> s, off |-> off]
Plain(len)    == Template("plain", len, Label(0, 0))
Call(to)      == <<Template("call", 8, to)>>
FarCall(to)   == <<[Template("call", 8, to) EXCEPT !.compressible = FALSE]>>
Lui(to)       == <<Template("hi20", 4, to), [Template("lo12", 4, to) EXCEPT !.hi = -1]>>
Auipc(to)     == <<Template("pcrel_hi", 4, to),
                   [Template("pcrel_lo", 4, to) EXCEPT !.hi = -1]>>
Backward(to)  == <<[Template("pcrel_lo", 4, to) EXCEPT !.hi = 1],
                   Template("pcrel_hi", 4, to)>>
Align(bytes)  == <<[Template("align", bytes, Label(0, 0)) EXCEPT !.addend = bytes]>>
Sized(pair, n) == [k \in DOMAIN pair |-> [pair[k] EXCEPT !.size = n]]

\* The offset at which the k-th template starts.
StartOf(text) ==
  LET at[k \in 1..(Len(text) + 1)] == IF k = 1 THEN 0 ELSE at[k - 1] + text[k - 1].len
  IN  at

SitesOf(sections) ==
  LET One(s) == [k \in DOMAIN sections[s].text |->
                   [sect |-> s, off |-> StartOf(sections[s].text)[k]]
                     @@ sections[s].text[k]]
      all == SelectSeq(FlattenSeq([s \in DOMAIN sections |-> One(s)]),
                       LAMBDA x : x.kind # "plain")
  IN  [k \in DOMAIN all |-> [all[k] EXCEPT !.hi = IF @ = 0 THEN 0 ELSE k + @]]

Section(base, align, text) == [base |-> base, align |-> align, text |-> text]

\* Sections are outputs of their own, in the load segments whose largest
\* alignments are given.  A symbol starts at every relocation and ends with the
\* section.
LinkedIn(segments, kind, compress, sections, gp) ==
  LET sites == SitesOf(sections)
      size  == [s \in DOMAIN sections |->
                  StartOf(sections[s].text)[Len(sections[s].text) + 1]]
  IN  [kind |-> kind, compress |-> compress, gp |-> gp,
       sections |-> [s \in DOMAIN sections |->
                       [base |-> sections[s].base, align |-> sections[s].align,
                        size |-> size[s], output |-> s, segment |-> segments[s]]],
       sites |-> sites,
       symbols |-> [k \in DOMAIN sites |->
                      [sect |-> sites[k].sect, off |-> sites[k].off,
                       size |-> size[sites[k].sect] - sites[k].off]]]

\* All in one load segment.
Linked(kind, compress, sections, gp) ==
  LET largest == CHOOSE a \in {sections[s].align : s \in DOMAIN sections} :
                   \A s \in DOMAIN sections : sections[s].align <= a
  IN  LinkedIn([s \in DOMAIN sections |-> largest], kind, compress, sections, gp)

NoGP == Label(0, 0)

\* Calls in sections of their own, each further from its target by what the one
\* before gives back: a rejection leads to the next, one in a round.
Cascade(n, d) ==
  Linked("exec", FALSE,
         <<Section(1048566, 1, <<Plain(2)>> \o Call(Label(1, 0)) \o Align(6) \o <<Plain(8 * n)>>)>>
           \o [k \in 1..n |->
                 Section(IF k = 1 THEN 2097152 + d ELSE Follow, 1,
                         Call(Label(1, 16 + 8 * (k - 1))))],
         NoGP)

\* Calls to fixed addresses ahead, that padding before them moves away from
\* their targets once they have been decided.
Isolated(n, d) ==
  Linked("exec", FALSE,
         <<Section(4096, 8,
                   Align(6) \o FlattenSeq([k \in 1..n |->
                     Call(Label(0, 4102 + 8 * (k - 1) + 1048574 + d))]))>>,
         NoGP)

\* A symbol of the script behind the code, near the end of the zero page.
ZeroPage(text, d) ==
  Linked("exec", TRUE, <<Section(0, 1, text), Section(Follow, 1, <<>>)>>, Label(0, 2048 + d))

Behind(d) == Label(2, 2031 + d)

\* Code with padding before and behind it, and accesses to what follows the
\* code, with GP at the limit of its range.
Moving(kind, compress, d, text) ==
  Linked(kind, compress,
         <<Section(8, 8, text), Section(Follow, 8, <<Plain(4)>> \o Call(Label(2, 0)) \o <<Plain(4)>>)>>,
         Label(0, 2048 + StartOf(text)[Len(text) + 1] + d))

Distances == {-8, -6, -4, -2, 0, 2, 4, 6}

Texts ==
  {Align(6) \o Call(Label(0, 2058)) \o <<Plain(2)>> \o Align(6),
   Auipc(Label(2, 0)) \o Align(6) \o Call(Label(0, 2062)) \o Align(2),
   Align(6) \o Call(Label(0, 1048588)) \o Align(6) \o Auipc(Label(2, 0)),
   FarCall(Label(2, 12)) \o Align(2) \o Call(Label(0, 2062)) \o Align(6) \o <<Plain(4)>>,
   Backward(Label(2, 0)) \o Auipc(Label(2, 4)) \o Align(6),
   Sized(Lui(Label(2, 4)), 4) \o Call(Label(2, 12)) \o Align(6)}

\* Code and data in load segments of their own, with GP in the data or nowhere:
\* the two parts of an access ask for different alignments.  A segment of 0 is
\* that of data that is not loaded.
Segments(text, data, sect, d) ==
  LinkedIn(<<text, data>>, "exec", FALSE,
           <<Section(4096, 4, Auipc(Label(2, 8)) \o Call(Label(2, 0)) \o <<Plain(4)>>),
             Section(8192, 4, <<Plain(16)>>)>>,
           Label(sect, (IF sect = Absolute THEN 8200 ELSE 8) + 2048 + d))

LinksOf(family) ==
  CASE family = "cascades" ->
         {Cascade(n, d) : n \in 1..4, d \in {-2, 0, 2, 4, 6}}
    [] family = "isolated" -> {Isolated(n, d) : n \in 1..3, d \in Distances}
    [] family = "zero page" ->
         {ZeroPage(Lui(Behind(d)) \o Call(Label(0, 2054 + e)) \o <<Plain(6)>>, d) :
            d \in Distances, e \in Distances}
           \cup {ZeroPage(Call(Label(0, 2048 + e)) \o Lui(Behind(d)) \o Align(6), d) :
                   d \in Distances, e \in Distances}
    [] family = "moving" ->
         {Moving(kind, compress, d, text) :
            kind \in {"exec", "pie"}, compress \in BOOLEAN, d \in Distances, text \in Texts}
    [] family = "shared" ->
         {Moving("shared", compress, 0, text) : compress \in BOOLEAN, text \in Texts}
    [] family = "own section" ->
         {Linked("exec", FALSE,
                 <<Section(4096, 4, Auipc(Label(1, 8)) \o <<Plain(8)>>),
                   Section(Follow, 4, <<Plain(16)>>)>>,
                 Label(2, 2036 + d)) : d \in Distances}
           \cup {Linked("exec", FALSE,
                        <<Section(4096, 4, Auipc(Label(2, 8)) \o Call(Label(2, 0)) \o <<Plain(8)>>),
                          Section(Follow, 4, <<Plain(16)>>)>>,
                        Label(1, s * 2048 + d)) : d \in Distances, s \in {-1, 1}}
    [] family = "segments" ->
         {Segments(text, data, sect, d) :
            text \in {4, 16}, data \in {0, 4, 8}, sect \in {0, 2},
            d \in {-20, -16, -12, -8, -6, -4, -2, 0}}

MCLinks == UNION {LinksOf(f) : f \in Families}
================================================================================
