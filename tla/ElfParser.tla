----------------------------- MODULE ElfParser -----------------------------
(***************************************************************************)
(* Elf64::parse (elf_parser/mod.rs) and Executable::validate (elf.rs): the *)
(* headers of a file are read in the order of the code and every early     *)
(* return is kept.  Offsets and sizes are in units of 32 bits, half the    *)
(* alignment of the tables.                                                *)
(***************************************************************************)
EXTENDS Integers, Sequences, FiniteSets

CONSTANTS
    EhdrSize, PhdrSize, ShdrSize, RelSize, SymSize, DynSize,
    Align           \* alignment of the types of the tables

VARIABLES
    file,
    phase, next,    \* the loop that is running and the header it is at
    bound,          \* vaddr or offset: what the loop has come to
    special,        \* fields of Elf64: the section headers of known names
    dynamic_relocations_table, dynamic_symbol_table,
    error

tables == <<dynamic_relocations_table, dynamic_symbol_table>>
vars == <<file, phase, next, bound, special, tables, error>>

Span(start, len) == [start |-> start, end |-> start + len]
Absent == Span(0, 0)
Disjoint(a, b) == a.end <= b.start \/ b.end <= a.start
Contains(r, x) == r.start <= x /\ x < r.end

FileHeaderRange == Span(0, EhdrSize)
ProgramHeaderTable == Span(file.e_phoff, PhdrSize * Len(file.phdrs))
SectionHeaderTable == Span(file.e_shoff, ShdrSize * Len(file.shdrs))
FileRange(s) == Span(s.sh_offset, s.sh_size)
VmRange(s) == Span(s.sh_addr, s.sh_size)

(* The error of slice_from_bytes for entries of a size.                    *)
SliceFromBytes(r, size) ==
    IF (r.end - r.start) % size # 0 THEN "InvalidSize"
    ELSE IF r.end > file.len THEN "OutOfBounds"
    ELSE IF r.start % Align # 0 THEN "InvalidAlignment"
    ELSE "none"

Init ==
    /\ bound = 0 /\ special = <<>>
    /\ dynamic_relocations_table = Absent /\ dynamic_symbol_table = Absent

Fail(e) ==
    /\ phase' = "failed" /\ error' = e
    /\ UNCHANGED <<file, next, bound, special, tables>>

Enter(p) ==
    /\ phase' = p /\ next' = 1 /\ bound' = 0
    /\ UNCHANGED <<file, special, tables, error>>

Advance(b) ==
    /\ next' = next + 1 /\ bound' = b
    /\ UNCHANGED <<file, phase, special, tables, error>>

(* parse_file_header, parse_program_header_table and                       *)
(* parse_section_header_table.                                             *)
HeaderError ==
    LET segments == SliceFromBytes(ProgramHeaderTable, PhdrSize)
        sections == SliceFromBytes(SectionHeaderTable, ShdrSize)
    IN  CASE file.len < EhdrSize -> "OutOfBounds"
          [] file.len >= EhdrSize /\ (~file.ident \/ file.e_shstrndx >= Len(file.shdrs))
                -> "InvalidFileHeader"
          [] OTHER ->
             IF ~Disjoint(FileHeaderRange, ProgramHeaderTable) THEN "Overlap"
             ELSE IF segments # "none" THEN segments
             ELSE IF \/ ~Disjoint(FileHeaderRange, SectionHeaderTable)
                     \/ ~Disjoint(ProgramHeaderTable, SectionHeaderTable) THEN "Overlap"
             ELSE IF sections # "none" THEN sections
             ELSE IF Len(file.shdrs) = 0 \/ file.shdrs[1].type # "NULL"
             THEN "InvalidSectionHeader"
             ELSE "none"

ParseHeaders ==
    /\ phase = "headers"
    /\ IF HeaderError = "none" THEN Enter("segments") ELSE Fail(HeaderError)

ParseSegment ==
    /\ phase = "segments" /\ next <= Len(file.phdrs)
    /\ LET p == file.phdrs[next]
       IN  IF p.type # "LOAD" THEN Advance(bound)
           ELSE IF p.p_vaddr < bound THEN Fail("InvalidProgramHeader")
           ELSE IF p.p_offset + p.p_filesz > file.len THEN Fail("OutOfBounds")
           ELSE Advance(p.p_vaddr)

SegmentsDone == phase = "segments" /\ next > Len(file.phdrs) /\ Enter("sections")

-----------------------------------------------------------------------------
(* The loop over the sections.                                             *)

SectionOverlaps(r) ==
    \/ ~Disjoint(r, FileHeaderRange)
    \/ ~Disjoint(r, ProgramHeaderTable)
    \/ ~Disjoint(r, SectionHeaderTable)

ParseSectionFromStart ==        \* mutant: only the starts of sections ascend
    /\ phase = "sections" /\ next <= Len(file.shdrs)
    /\ LET r == FileRange(file.shdrs[next])
       IN  IF file.shdrs[next].type = "NOBITS" THEN Advance(bound)
           ELSE IF SectionOverlaps(r) THEN Fail("Overlap")
           ELSE IF r.start < bound THEN Fail("SectionNotInOrder")
           ELSE IF r.end > file.len THEN Fail("OutOfBounds")
           ELSE Advance(r.start)

ParseSection ==
    /\ phase = "sections" /\ next <= Len(file.shdrs)
    /\ LET r == FileRange(file.shdrs[next])
       IN  IF file.shdrs[next].type = "NOBITS" THEN Advance(bound)
           ELSE IF SectionOverlaps(r) THEN Fail("Overlap")
           ELSE IF r.start < bound THEN Fail("SectionNotInOrder")
           ELSE IF r.end > file.len THEN Fail("OutOfBounds")
           ELSE Advance(r.end)

SectionsDone ==
    /\ phase = "sections" /\ next > Len(file.shdrs)
    /\ IF file.e_shstrndx = 0 THEN Fail("NoSectionNameStringTable") ELSE Enter("names")

-----------------------------------------------------------------------------
(* parse_sections                                                          *)

Known == {".symtab", ".strtab", ".dynstr"}
Unreadable == "?"           \* a name longer than allowed, or without an end
NamesSection == file.shdrs[file.e_shstrndx + 1]

ParseSectionName ==
    /\ phase = "names" /\ next <= Len(file.shdrs)
    /\ LET name == file.shdrs[next].name
       IN  IF NamesSection.type # "STRTAB" THEN Fail("InvalidSectionHeader")
           ELSE IF name = Unreadable THEN Fail("StringTooLong")
           ELSE IF name \notin Known THEN Advance(bound)
           ELSE IF name \in DOMAIN special THEN Fail("InvalidSectionHeader")
           ELSE /\ special' = [n \in DOMAIN special \cup {name} |->
                                  IF n = name THEN next ELSE special[n]]
                /\ next' = next + 1
                /\ UNCHANGED <<file, phase, bound, tables, error>>

SectionNamesDone == phase = "names" /\ next > Len(file.shdrs) /\ Enter("dynamic")

-----------------------------------------------------------------------------
(* parse_dynamic: the dynamic table is that of the first PT_DYNAMIC if it  *)
(* can be read, else that of the first SHT_DYNAMIC.                        *)

First(s, Test(_)) ==
    LET found == {k \in DOMAIN s : Test(s[k])}
    IN  IF found = {} THEN {} ELSE {s[CHOOSE k \in found : \A l \in found : k <= l]}

DynamicSegment ==
    {p \in First(file.phdrs, LAMBDA p : p.type = "DYNAMIC") :
        SliceFromBytes(Span(p.p_offset, p.p_filesz), DynSize) = "none"}
DynamicSection == First(file.shdrs, LAMBDA s : s.type = "DYNAMIC")
DynamicError ==
    DynamicSegment = {} /\ \E s \in DynamicSection :
                               SliceFromBytes(FileRange(s), DynSize) # "none"
Tags == file.dynamic_table      \* the values of DT_REL, DT_RELENT, ...

SegmentOf(vaddr) ==
    First(file.phdrs, LAMBDA p : Contains(Span(p.p_vaddr, p.p_memsz), vaddr))
SectionAt(vaddr) == First(file.shdrs, LAMBDA s : s.sh_addr = vaddr)

RelocationOffsets ==
    IF SegmentOf(Tags.rel) # {}
    THEN {Tags.rel - p.p_vaddr + p.p_offset : p \in SegmentOf(Tags.rel)}
    ELSE {s.sh_offset : s \in SectionAt(Tags.rel)}

(* The range of parse_dynamic_relocations, or none for an error.           *)
RelocationRanges ==
    IF Tags.rel = 0 THEN {Absent}
    ELSE {r \in {Span(o, Tags.relsz) : o \in RelocationOffsets} :
              /\ Tags.relent = RelSize /\ Tags.relsz # 0
              /\ SliceFromBytes(r, RelSize) = "none"}

IsSymbolTable(s) == s.type \in {"SYMTAB", "DYNSYM"}
SymbolRanges ==
    IF Tags.symtab = 0 THEN {Absent}
    ELSE {FileRange(s) : s \in {t \in SectionAt(Tags.symtab) :
              IsSymbolTable(t) /\ SliceFromBytes(FileRange(t), SymSize) = "none"}}

ParseDynamic ==
    /\ phase = "dynamic"
    /\ IF DynamicError THEN Fail("InvalidDynamicSectionTable")
       ELSE IF DynamicSegment \cup DynamicSection = {} THEN Enter("validate")
       ELSE IF RelocationRanges = {} \/ SymbolRanges = {} THEN Fail("InvalidDynamicSectionTable")
       ELSE /\ dynamic_relocations_table' \in RelocationRanges
            /\ dynamic_symbol_table' \in SymbolRanges
            /\ phase' = "validate" /\ next' = 1 /\ bound' = 0
            /\ UNCHANGED <<file, special, error>>

-----------------------------------------------------------------------------
(* Executable::validate                                                    *)

TextSections == {k \in DOMAIN file.shdrs : file.shdrs[k].name = ".text"}
Text == file.shdrs[CHOOSE k \in TextSections : TRUE]

WritableData(s) == s.name = ".bss" \/ (s.name = ".data" /\ s.writable)

ValidateEntryless ==        \* mutant: the entrypoint is not checked
    /\ phase = "validate"
    /\ IF ~file.machine THEN Fail("WrongMachine")
       ELSE IF Cardinality(TextSections) # 1 THEN Fail("NotOneTextSection")
       ELSE IF \E k \in DOMAIN file.shdrs : WritableData(file.shdrs[k])
       THEN Fail("WritableSectionNotSupported")
       ELSE IF \E k \in DOMAIN file.shdrs : FileRange(file.shdrs[k]).end > file.len
       THEN Fail("ValueOutOfBounds")
       ELSE Enter("valid")

Validate ==
    /\ phase = "validate"
    /\ IF ~file.machine THEN Fail("WrongMachine")
       ELSE IF Cardinality(TextSections) # 1 THEN Fail("NotOneTextSection")
       ELSE IF \E k \in DOMAIN file.shdrs : WritableData(file.shdrs[k])
       THEN Fail("WritableSectionNotSupported")
       ELSE IF \E k \in DOMAIN file.shdrs : FileRange(file.shdrs[k]).end > file.len
       THEN Fail("ValueOutOfBounds")
       ELSE IF ~Contains(VmRange(Text), file.e_entry) THEN Fail("EntrypointOutOfBounds")
       ELSE Enter("valid")

Next ==
    \/ ParseHeaders \/ ParseSegment \/ SegmentsDone \/ ParseSection \/ SectionsDone
    \/ ParseSectionName \/ SectionNamesDone \/ ParseDynamic \/ Validate

-----------------------------------------------------------------------------
Parsed == phase \in {"validate", "valid"}
InBytes == {k \in DOMAIN file.shdrs : file.shdrs[k].type # "NOBITS"}

(* In a file that is parsed, the file header, the tables and the sections  *)
(* share no byte, and every table the parser hands out lies in the file,   *)
(* starts aligned and holds whole entries, wherever its address came from: *)
(* what a relocation writes to one of them is read as no other.            *)
TablesSound ==
    Parsed =>
        LET fixed == <<FileHeaderRange, ProgramHeaderTable, SectionHeaderTable>>
        IN  /\ \A a, b \in 1..3 : a < b => Disjoint(fixed[a], fixed[b])
            /\ \A k \in InBytes :
                   /\ \A a \in 1..3 : Disjoint(FileRange(file.shdrs[k]), fixed[a])
                   /\ \A l \in InBytes \ {k} :
                          Disjoint(FileRange(file.shdrs[k]), FileRange(file.shdrs[l]))
            /\ \A t \in {<<ProgramHeaderTable, PhdrSize>>, <<SectionHeaderTable, ShdrSize>>,
                          <<dynamic_relocations_table, RelSize>>,
                          <<dynamic_symbol_table, SymSize>>} :
                   /\ t[1].end <= file.len
                   /\ t[1].start % Align = 0 /\ (t[1].end - t[1].start) % t[2] = 0

=============================================================================
