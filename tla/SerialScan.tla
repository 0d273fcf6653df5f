------------------------------ MODULE SerialScan ------------------------------
(***************************************************************************)
(* The scan of the relocations as one thread does it: relocation after     *)
(* relocation, in the order of the inputs, then the copy relocations in    *)
(* the order in which the scan has met them.  This is what every schedule  *)
(* of the parallel scan has to create.                                     *)
(***************************************************************************)
EXTENDS DynamicSlots

VARIABLES
  link,      \* the inputs, the symbols and the kind of output
  scanned,   \* the relocations that have been scanned for slots
  slots      \* what they have created

Init == scanned = {} /\ slots = NoSlots

ToScan == {p \in Positions(link) : Deferrable(link, p)}

Scan(p) ==
  /\ \A q \in ToScan \ scanned : q # p => Before(p, q)
  /\ scanned' = scanned \cup {p}
  /\ slots' = scanDeferredRelocation(slots, link, p)

Copy ==
  /\ scanned = ToScan /\ Cardinality(slots.copied) < Len(slots.toCopy)
  /\ slots' = createCopyRelocation(slots, slots.toCopy[Cardinality(slots.copied) + 1])
  /\ UNCHANGED scanned

Next == UNCHANGED link /\ ((\E p \in ToScan \ scanned : Scan(p)) \/ Copy)

Spec == Init /\ [][Next]_<<link, scanned, slots>>
===============================================================================
