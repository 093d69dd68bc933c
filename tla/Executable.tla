----------------------------- MODULE Executable -----------------------------
(***************************************************************************)
(* Executable::load (elf.rs): the version in the file header selects the   *)
(* strict parser, or the lenient one, which parses and validates the file  *)
(* (ElfParser), relocates a copy of it (LenientLoader) and collects its    *)
(* read-only sections (RoSections).  Each part sees of the file what the   *)
(* part before it has found there.                                         *)
(***************************************************************************)
EXTENDS FunctionRegistry, Sequences, SequencesExt

CONSTANTS
    Word, CallImm, UsizeMax,
    EhdrSize, PhdrSize, ShdrSize, RelSize, SymSize, DynSize, Align,
    Builtins,       \* the functions of the loader: name to pointer
    Inputs          \* families of files with a Config, the loader's syscalls and a hash

VARIABLES
    file, hash, loader,
    phase, next, error,
    bound, special, dynamic_relocations_table, dynamic_symbol_table,
    elf_bytes, function_registry, entry_pc,
    i, lowest_addr, highest_addr, ro_fill_length, invalid_offsets,
    first_ro_section, last_ro_section, n_ro_sections, ro_slices, result,
    expected_offset, ro_section, text_section_range

input == <<file, hash, loader>>
progress == <<phase, next, error>>
parsed == <<bound, special, dynamic_relocations_table, dynamic_symbol_table>>
relocated == <<elf_bytes, function_registry, entry_pc>>
merged == <<i, lowest_addr, highest_addr, ro_fill_length, invalid_offsets, first_ro_section,
            last_ro_section, n_ro_sections, ro_slices, result>>
strict == <<expected_offset, ro_section, text_section_range>>
vars == <<input, progress, parsed, relocated, merged, strict>>

Parser == INSTANCE ElfParser

-----------------------------------------------------------------------------
(* The file as relocate sees it through Elf64: tables of as many entries   *)
(* as their sections hold, names only where there is a string table.       *)
Entries(table, range, size) ==
    SubSeq(table, 1, (range.end - range.start) \div size)

StringsOf(name) ==
    name \in DOMAIN special /\ file.shdrs[special[name]].type = "STRTAB"
WithNames(table, strings) ==
    [k \in DOMAIN table |->
        [table[k] EXCEPT !.name = IF StringsOf(strings) THEN @ ELSE Parser!Unreadable]]

SymbolTable ==
    IF ".symtab" \notin DOMAIN special THEN <<>>
    ELSE LET s == file.shdrs[special[".symtab"]]
         IN  IF /\ Parser!IsSymbolTable(s)
                /\ Parser!SliceFromBytes(Parser!FileRange(s), SymSize) = "none"
             THEN Entries(file.symbols, Parser!FileRange(s), SymSize) ELSE <<>>

Elf == [len |-> file.len, units |-> file.units, text |-> Parser!Text,
        e_entry |-> file.e_entry,
        relocations |-> Entries(file.relocations, dynamic_relocations_table, RelSize),
        dynamic_symbols |->
            WithNames(Entries(file.dynamic_symbols, dynamic_symbol_table, SymSize), ".dynstr"),
        symbols |-> WithNames(SymbolTable, ".strtab"),
        labels |-> file.labels, reject_broken_elfs |-> file.reject_broken_elfs]

ReadOnlyNames == {".text", ".rodata", ".data.rel.ro", ".eh_frame"}

(* The sections as parse_ro_sections sees them.                            *)
Sections ==
    [sections |-> [k \in DOMAIN file.shdrs |->
                      [ro |-> file.shdrs[k].name \in ReadOnlyNames] @@ file.shdrs[k]],
     len |-> file.len, reject_broken_elfs |-> file.reject_broken_elfs,
     optimize_rodata |-> file.optimize_rodata]

Lenient == INSTANCE LenientLoader WITH file <- Elf
ReadOnly == INSTANCE RoSections WITH input <- Sections, RegionSize <- Word
Strict == INSTANCE StrictLoader WITH RegionSize <- Word

-----------------------------------------------------------------------------
(* The embedder fills the loader's registry before it loads a program; a   *)
(* collision is reported to it and leaves the registry as it was.          *)
RegisterSyscalls(names, h) ==
    FoldLeft(LAMBDA map, b : RegisterBuiltin(map, h, b, Builtins[b]).map, NoFunctions, names)

Init ==
    /\ \E f \in DOMAIN Inputs : \E x \in Inputs[f] :
           /\ file = x.file /\ hash = x.hash
           /\ loader = RegisterSyscalls(x.syscalls, x.hash)
    /\ phase = "flags" /\ next = 1 /\ error = "none"
    /\ elf_bytes = <<>>
    /\ Parser!Init /\ Lenient!Init /\ ReadOnly!Init /\ Strict!Init

Goto(p, e) ==
    /\ phase' = p /\ error' = e
    /\ UNCHANGED <<input, next, parsed, function_registry, entry_pc, merged, strict>>

(* The flags end where the header does not yet.                            *)
FlagsEnd == EhdrSize - 1
StricterHeaders == file.e_flags \in 3..4
Supported == file.e_flags \in 0..4 /\ file.e_flags \in file.enabled_sbpf_versions

Load ==
    /\ phase = "flags"
    /\ IF file.len < FlagsEnd THEN Goto("failed", "OutOfBounds") /\ UNCHANGED elf_bytes
       ELSE IF ~Supported THEN Goto("failed", "UnsupportedSBPFVersion") /\ UNCHANGED elf_bytes
       ELSE IF StricterHeaders THEN Goto("strict_header", "none") /\ UNCHANGED elf_bytes
       ELSE Goto("headers", "none") /\ elf_bytes' = file.units

ParserStep == Parser!Next /\ UNCHANGED <<hash, loader, relocated, merged, strict>>

LenientStep ==
    /\ UNCHANGED <<file, parsed, merged, strict>>
    /\ Lenient!Next

ReadOnlyStep ==
    /\ phase = "ro_sections"
    /\ UNCHANGED <<input, progress, parsed, relocated, strict>>
    /\ ReadOnly!Next

StrictStep == Strict!Next /\ UNCHANGED <<hash, loader, parsed, elf_bytes, merged>>

RegionIndex == result.vaddr \div Word

(* Behind parse_ro_sections: the sections belong into the first region.    *)
LoadedLenient ==
    /\ phase = "ro_sections" /\ result # ReadOnly!Pending
    /\ UNCHANGED elf_bytes
    /\ IF ~ReadOnly!Returned THEN Goto("failed", result.kind)
       ELSE IF file.optimize_rodata /\ RegionIndex # 1 THEN Goto("failed", "ValueOutOfBounds")
       ELSE Goto("loaded", "none")

Next == Load \/ ParserStep \/ LenientStep \/ ReadOnlyStep \/ LoadedLenient \/ StrictStep

Spec == Init /\ [][Next]_vars

-----------------------------------------------------------------------------
(* What relocate and parse_ro_sections unwrap and index without a check    *)
(* holds of every file that Elf64::parse and validate let pass.            *)
LoaderAssumptions ==
    phase = "valid" => Lenient!FileAssumption /\ ReadOnly!InputAssumption

(* In a parsed file headers, tables and sections share no byte, and every  *)
(* table lies in the file, aligned and of whole entries.                   *)
TablesSound == Parser!TablesSound

(* A call of a relocated program, relative or by symbol, leads to the      *)
(* function or the syscall it named in the file, and to that alone: no key *)
(* names both a syscall and a function, which CALL_IMM would both call.    *)
CallsResolve == Lenient!KeysDisjoint /\ (~StricterHeaders => Lenient!CallsResolve)

(* An address that a relocation has written lies in the first region or    *)
(* above, at the offset the linker gave it.                                *)
AddressesPlaced == ~StricterHeaders => Lenient!AddressesPlaced

(* A program reads every byte of a read-only section at the address the    *)
(* linker gave it, whether the region is borrowed from the file or merged. *)
SectionsReadable == ReadOnly!SectionsReadable

(* Data and code of a file of the strict parser lie side by side inside    *)
(* the file and inside their regions, the entrypoint inside the code.      *)
StrictImageSound == StricterHeaders => Strict!StrictImageSound

=============================================================================
