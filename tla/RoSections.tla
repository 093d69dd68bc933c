----------------------------- MODULE RoSections -----------------------------
(***************************************************************************)
(* Executable::parse_ro_sections and get_ro_region (elf.rs): the read-only *)
(* sections of a file become one region of memory.  Either the region is   *)
(* the part of the file that holds them (Borrowed), or they are copied to  *)
(* their places in a buffer of zeroes (Owned).  A byte of the file is      *)
(* known by its offset.                                                    *)
(***************************************************************************)
EXTENDS Integers, Sequences, FiniteSetsExt

CONSTANTS
    RegionSize,     \* ebpf::MM_REGION_SIZE
    UsizeMax

HasBytes(s) == s.type # "NOBITS"

VARIABLES
    input,          \* the sections, the length of the file, the Config
    i,              \* the section the loop is at
    lowest_addr, highest_addr, ro_fill_length, invalid_offsets,
    first_ro_section, last_ro_section, n_ro_sections,
    ro_slices,      \* sections to copy: address and range of the file
    result          \* what parse_ro_sections returned

bounds == <<lowest_addr, highest_addr, ro_fill_length, invalid_offsets>>
group == <<first_ro_section, last_ro_section, n_ro_sections>>
vars == <<input, i, bounds, group, ro_slices, result>>

Saturating(x) == IF x > UsizeMax THEN UsizeMax ELSE IF x < 0 THEN 0 ELSE x

Pending == [kind |-> "pending"]
ValueOutOfBounds == [kind |-> "ValueOutOfBounds"]
Panic == [kind |-> "panic"]         \* a slice index out of bounds
Owned(vaddr, bytes) == [kind |-> "Owned", vaddr |-> vaddr, bytes |-> bytes]
Borrowed(vaddr, start, end) ==
    [kind |-> "Borrowed", vaddr |-> vaddr, start |-> start, end |-> end]

(* What Elf64::parse and Executable::validate must have established: every *)
(* section lies inside the file, those that have bytes there follow one    *)
(* another, and .text is among them.                                       *)
InputAssumption ==
    LET s == input.sections
    IN  /\ \A k, l \in DOMAIN s : k < l /\ HasBytes(s[k]) /\ HasBytes(s[l])
                                     => s[k].sh_offset + s[k].sh_size <= s[l].sh_offset
        /\ \A k \in DOMAIN s : s[k].sh_offset + s[k].sh_size <= input.len
        /\ \E k \in DOMAIN s : s[k].ro

Init ==
    /\ i = 1
    /\ lowest_addr = UsizeMax /\ highest_addr = 0
    /\ ro_fill_length = 0 /\ invalid_offsets = FALSE
    /\ first_ro_section = 0 /\ last_ro_section = 0 /\ n_ro_sections = 0
    /\ ro_slices = <<>> /\ result = Pending

Section == input.sections[i]
FileLen(s) == IF HasBytes(s) THEN s.sh_size ELSE 0
FileStart(s) == IF HasBytes(s) THEN s.sh_offset ELSE 0

SkipSection ==
    /\ result = Pending /\ i <= Len(input.sections) /\ ~Section.ro
    /\ i' = i + 1
    /\ UNCHANGED <<input, bounds, group, ro_slices, result>>

Grouped ==
    /\ first_ro_section' = IF n_ro_sections = 0 THEN i ELSE first_ro_section
    /\ last_ro_section' = i
    /\ n_ro_sections' = n_ro_sections + 1

Invalid == invalid_offsets \/ Section.sh_addr # Section.sh_offset

Rejected ==
    \/ input.reject_broken_elfs /\ Invalid
    \/ Section.sh_addr + RegionSize > 2 * RegionSize

RejectSection ==
    /\ result = Pending /\ i <= Len(input.sections) /\ Section.ro
    /\ Rejected
    /\ Grouped
    /\ invalid_offsets' = Invalid
    /\ result' = ValueOutOfBounds
    /\ UNCHANGED <<input, i, lowest_addr, highest_addr, ro_fill_length, ro_slices>>

(* The file has the range of the section: validate has checked it.         *)
AddSection ==
    /\ result = Pending /\ i <= Len(input.sections) /\ Section.ro
    /\ ~Rejected
    /\ Grouped
    /\ invalid_offsets' = Invalid
    /\ lowest_addr' = Min({lowest_addr, Section.sh_addr})
    /\ highest_addr' = Max({highest_addr, Section.sh_addr + FileLen(Section)})
    /\ ro_fill_length' = ro_fill_length + FileLen(Section)
    /\ ro_slices' = Append(ro_slices, [addr |-> Section.sh_addr, start |-> FileStart(Section),
                                       len |-> FileLen(Section)])
    /\ i' = i + 1
    /\ UNCHANGED <<input, result>>

-----------------------------------------------------------------------------
(* Behind the loop.                                                        *)

CanBorrow ==
    /\ ~invalid_offsets
    /\ last_ro_section + 1 - first_ro_section = n_ro_sections

AddrOffset(lowest) == IF lowest >= RegionSize THEN lowest ELSE lowest + RegionSize

Zero == -1      \* a byte that comes from no offset of the file

(* The buffer: later sections are copied over earlier ones.                *)
Copied(lowest, len) ==
    [b \in 0..len-1 |->
        LET over == {k \in DOMAIN ro_slices :
                        LET at == Saturating(ro_slices[k].addr - lowest)
                        IN  b \in at..at + ro_slices[k].len - 1}
        IN  IF over = {} THEN Zero
            ELSE ro_slices[Max(over)].start + b - Saturating(ro_slices[Max(over)].addr - lowest)]

CopyFits(lowest, len) ==
    \A k \in DOMAIN ro_slices : Saturating(ro_slices[k].addr - lowest) + ro_slices[k].len <= len

MergedFrom(lowest, len) ==
    IF len > input.len THEN ValueOutOfBounds
    ELSE IF ~CopyFits(lowest, len) THEN Panic
    ELSE Owned(AddrOffset(lowest), Copied(lowest, len))

MergedAtRegionStart ==      \* mutant: the address does not follow the buffer
    IF ~input.optimize_rodata THEN MergedFrom(0, highest_addr)
    ELSE LET m == MergedFrom(lowest_addr, Saturating(highest_addr - lowest_addr))
         IN  IF m.kind = "Owned" THEN Owned(RegionSize, m.bytes) ELSE m

Merged ==
    IF input.optimize_rodata
    THEN MergedFrom(lowest_addr, Saturating(highest_addr - lowest_addr))
    ELSE MergedFrom(0, highest_addr)

(* An overlap is an error, a group of sections is borrowed, others merged. *)
Finish ==
    /\ result = Pending /\ i > Len(input.sections)
    /\ result' = IF /\ input.reject_broken_elfs
                    /\ lowest_addr + ro_fill_length > highest_addr
                 THEN ValueOutOfBounds
                 ELSE IF input.optimize_rodata /\ CanBorrow
                 THEN Borrowed(AddrOffset(lowest_addr), lowest_addr, highest_addr)
                 ELSE Merged
    /\ UNCHANGED <<input, i, bounds, group, ro_slices>>

Next == SkipSection \/ RejectSection \/ AddSection \/ Finish

(* get_ro_region: the region of memory a program sees, a byte of the file  *)
(* for each of its addresses.                                              *)
RoRegion ==
    IF result.kind = "Owned"
    THEN [a \in result.vaddr..result.vaddr + Max(DOMAIN result.bytes \cup {-1}) |->
             result.bytes[a - result.vaddr]]
    ELSE [a \in result.vaddr..result.vaddr + result.end - result.start - 1 |->
             result.start + a - result.vaddr]

-----------------------------------------------------------------------------
Returned == result.kind \in {"Owned", "Borrowed"}
ReadOnly == {k \in DOMAIN input.sections : input.sections[k].ro}
BytesOf(s) == FileStart(s)..FileStart(s) + FileLen(s) - 1

(* Whichever form the region has, no slice is indexed out of bounds, and a *)
(* program that reads at the address the linker gave a byte of a read-only *)
(* section sees that byte; only in a broken file may a later section lie   *)
(* over it.  When broken files are rejected, the region ends below the     *)
(* stack, so that no address of another region is taken from it.           *)
SectionsReadable ==
    /\ result.kind # "panic"
    /\ result.kind = "Borrowed" => result.start <= result.end /\ result.end <= input.len
    /\ Returned /\ input.reject_broken_elfs =>
           DOMAIN RoRegion \subseteq RegionSize..2 * RegionSize - 1
    /\ Returned =>
           \A k \in ReadOnly :
               LET s == input.sections[k]
                   base == IF lowest_addr >= RegionSize THEN s.sh_addr
                           ELSE s.sh_addr + RegionSize
               IN  \A b \in 0..FileLen(s)-1 :
                       /\ base + b \in DOMAIN RoRegion
                       /\ \/ RoRegion[base + b] = FileStart(s) + b
                          \/ \E l \in ReadOnly : l > k /\ invalid_offsets
                                 /\ RoRegion[base + b] \in BytesOf(input.sections[l])

=============================================================================
