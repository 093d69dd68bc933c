---------------------------- MODULE MemoryRegion ----------------------------
(***************************************************************************)
(* MemoryRegion (memory_region.rs): the range of virtual addresses a       *)
(* region covers and the translation of an address inside it.  A gapped    *)
(* region spreads its frames of 2^vm_gap_shift bytes so that a gap of the  *)
(* same size follows each of them.                                         *)
(***************************************************************************)
EXTENDS Integers

CONSTANTS
    AddrBits,       \* width of an address (64 in the code)
    RegionSize      \* ebpf::MM_REGION_SIZE

ASSUME AddressAssumption ==
    /\ AddrBits \in Nat \ {0}
    /\ RegionSize \in 1..2^AddrBits-1

MaxAddr == 2^AddrBits - 1
Addrs == 0..MaxAddr
Continuous == AddrBits - 1      \* the vm_gap_shift of a region without gaps

(* No slice is longer than isize::MAX, and none wraps around.              *)
IsRegion(r) ==
    /\ r.vm_addr \in Addrs /\ r.host_addr \in Addrs
    /\ r.len \in 0..2^(AddrBits - 1)-1 /\ r.host_addr + r.len <= MaxAddr
    /\ r.vm_gap_shift \in 0..Continuous
    /\ r.writable \in BOOLEAN

(* MemoryRegion::new_readonly(&[], vm_addr)                                *)
EmptyRegion(at) ==
    [host_addr |-> 0, vm_addr |-> at, len |-> 0, vm_gap_shift |-> Continuous,
     writable |-> FALSE]

Saturating(x) == IF x > MaxAddr THEN MaxAddr ELSE x

(* The end of vm_addr_range.                                               *)
RangeEnd(r) ==
    Saturating(r.vm_addr + IF r.vm_gap_shift = Continuous THEN r.len
                           ELSE Saturating(2 * r.len))

vm_addr_range(r) == r.vm_addr..RangeEnd(r)-1

NoAddr == -1

(* Mutants: gaps are not told from frames; only the first byte of an       *)
(* access is compared with the length of the region.                       *)
vm_to_host_through_gaps(r, access, vm_addr, len) ==
    LET begin_offset == vm_addr - r.vm_addr
        frame == begin_offset \div 2^r.vm_gap_shift
        gapped_offset == (frame * 2^r.vm_gap_shift) \div 2
                            + (begin_offset % 2^r.vm_gap_shift)
    IN  IF access = "Store" /\ ~r.writable THEN NoAddr
        ELSE IF vm_addr < r.vm_addr THEN NoAddr
        ELSE IF gapped_offset + len <= r.len THEN Saturating(r.host_addr + gapped_offset)
        ELSE NoAddr

vm_to_host_first_byte(r, access, vm_addr, len) ==
    LET begin_offset == vm_addr - r.vm_addr
        frame == begin_offset \div 2^r.vm_gap_shift
        gapped_offset == (frame * 2^r.vm_gap_shift) \div 2
                            + (begin_offset % 2^r.vm_gap_shift)
    IN  IF access = "Store" /\ ~r.writable THEN NoAddr
        ELSE IF vm_addr < r.vm_addr THEN NoAddr
        ELSE IF gapped_offset < r.len /\ frame % 2 = 0
        THEN Saturating(r.host_addr + gapped_offset)
        ELSE NoAddr

vm_to_host(r, access, vm_addr, len) ==
    LET begin_offset == vm_addr - r.vm_addr
        frame == begin_offset \div 2^r.vm_gap_shift
        is_in_gap == frame % 2 = 1
        gapped_offset == (frame * 2^r.vm_gap_shift) \div 2
                            + (begin_offset % 2^r.vm_gap_shift)
    IN  IF access = "Store" /\ ~r.writable THEN NoAddr
        ELSE IF vm_addr < r.vm_addr THEN NoAddr
        ELSE IF gapped_offset + len <= r.len /\ ~is_in_gap
        THEN Saturating(r.host_addr + gapped_offset)
        ELSE NoAddr

(* The upper half of an address.                                           *)
Slot(vm_addr) == vm_addr \div RegionSize

=============================================================================
