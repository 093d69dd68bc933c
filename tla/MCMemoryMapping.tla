-------------------------- MODULE MCMemoryMapping --------------------------
(* Mappings of up to MaxRegions regions in an address space of 16 bytes,   *)
(* with empty, adjacent, overlapping and gapped regions among them.        *)
EXTENDS MemoryMapping

CONSTANT MaxRegions

R(vm, len, shift, writable) ==
    [host_addr |-> vm, vm_addr |-> vm, len |-> len, vm_gap_shift |-> shift,
     writable |-> writable]

(* What mappings are made of; the last one is gapped, with frames of one   *)
(* byte.                                                                   *)
MCGiven ==
    { R(0, 2, 3, FALSE), R(4, 0, 3, TRUE), R(4, 3, 3, TRUE), R(9, 2, 3, FALSE),
      R(4, 2, 0, TRUE) }

MCRegionSets == {S \in SUBSET MCGiven : Cardinality(S) <= MaxRegions}

(* A handler or the host may also make one writable, shrink it, and grow   *)
(* it up to the next one or the end, or too far, and back an empty slot.   *)
MCRegions == MCGiven \cup
    { R(0, 2, 3, TRUE), R(0, 4, 3, FALSE), R(4, 1, 3, TRUE), R(4, 5, 3, TRUE),
      R(4, 6, 3, TRUE), R(4, 4, 0, TRUE), R(8, 2, 3, TRUE), R(9, 6, 3, FALSE) }

=============================================================================
