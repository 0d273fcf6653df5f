------------------------------- MODULE RelaxPlan -------------------------------
(***************************************************************************)
(* The deferred edits of one fragment of code.  Every edit is keyed by its *)
(* relocation and expressed in the offsets of the unrelaxed fragment; the  *)
(* queries answer as if the bytes were already gone, and the commit        *)
(* deletes them in one walk over the edits.                                *)
(*                                                                         *)
(* lib/Fragment/RelaxPlan.cpp and lib/Fragment/RegionFragmentEx.cpp.  The  *)
(* derived cache of ordered edits answers as the plain scan does and is    *)
(* not represented; a fragment's bytes are the offsets they come from.     *)
(***************************************************************************)
EXTENDS Integers, FiniteSets, FiniteSetsExt, SequencesExt

\* An edit deletes the bytes at, ..., at + bytes - 1; with no byte it is a
\* rewrite in place.  A plan is a set of edits, one for a relocation at most.
Edit(reloc, at, bytes) == [reloc |-> reloc, at |-> at, bytes |-> bytes]

AddEdit(plan, e) == {x \in plan : x.reloc # e.reloc} \cup {e}

RemoveEdit(plan, reloc) == {x \in plan : x.reloc # reloc}

HasEdit(plan, reloc) == \E e \in plan : e.reloc = reloc

Bytes(e) == e.bytes

TotalShift(plan) == MapThenSumSet(Bytes, plan)

\* Fault: the edit that starts at the offset itself is counted as well.
ShiftThrough(plan, off) == TotalShift({e \in plan : e.at <= off})

\* The bytes deleted before an offset.
ShiftAt(plan, off) == TotalShift({e \in plan : e.at < off})

MapOffset(plan, off) == off - ShiftAt(plan, off)

WouldOverlap(plan, at, bytes) ==
  \E e \in plan : e.at < at + bytes /\ at < e.at + e.bytes

------------------------------------------------------------------------------
\* The commit.

Before(l, r) == l.at < r.at \/ (l.at = r.at /\ l.reloc < r.reloc)

\* The edits by the offset they delete at.
OrderedEdits(plan) ==
  [k \in 1..Cardinality(plan) |->
     CHOOSE e \in plan : Cardinality({x \in plan : Before(x, e)}) = k - 1]

\* The bytes from .. to - 1 of the unrelaxed fragment.
Run(from, to) == [i \in 1..(to - from) |-> from + i - 1]

\* Fault: the walk resumes at the deletion, not after it.
KeepDeleted(walk, e) ==
  [out |-> walk.out \o Run(walk.src, e.at), src |-> e.at]

\* One step of the walk: the bytes up to the deletion are moved, the deleted
\* ones are skipped.
MoveUpTo(walk, e) ==
  [out |-> walk.out \o Run(walk.src, e.at), src |-> e.at + e.bytes]

\* The fragment after the walk, and the bytes behind the last deletion.
Compacted(plan, size) ==
  LET walk == FoldLeft(MoveUpTo, [out |-> <<>>, src |-> 0], OrderedEdits(plan))
  IN  walk.out \o Run(walk.src, size)

\* The size of a symbol: a deletion counts when it lies within what is left of
\* the size at that point of the loop.
CommittedSize(plan, off, size) ==
  LET Shrink(s, e) == IF e.at >= off /\ e.at - off < s THEN s - e.bytes ELSE s
  IN  FoldLeft(Shrink, size, OrderedEdits(plan))

\* The offset of a relocation or a symbol after the commit.
CommittedOffset(plan, off) == MapOffset(plan, off)
================================================================================
