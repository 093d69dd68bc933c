--------------------------- MODULE LenientLoader ---------------------------
(***************************************************************************)
(* Executable::load_with_lenient_parser (elf.rs) from the check of .text   *)
(* to the registration of the entrypoint: the file is copied, its relative *)
(* calls and its relocations are resolved in the copy, and every function  *)
(* they lead to is registered.  The file and its addresses are measured in *)
(* units of 32 bits, so that an instruction is two units and its immediate *)
(* the second of them.                                                     *)
(***************************************************************************)
EXTENDS FunctionRegistry, Sequences

CONSTANTS
    Word,           \* number of values of a unit, and ebpf::MM_REGION_SIZE
    CallImm         \* the first unit of a CALL_IMM instruction

InsnSize == 2
Immediate == 1      \* BYTE_OFFSET_IMMEDIATE
Units == 0..Word-1
RegionSize == Word

Within(range, x) == range.start <= x /\ x < range.start + range.len
Unreadable == "?"   \* a name that does not end inside its string section

(* The dynamic table is asked for functions of any binding, the symbol     *)
(* table for local and global ones.                                        *)
IsFunction(symbol) == symbol.type \in {"FUNC", "WEAK_FUNC"}
IsStrongFunction(symbol) == symbol.type = "FUNC"

VARIABLES
    file, hash,     \* the parsed file and the function hash_symbol_name
    loader,         \* the registry of the loader, a BuiltinProgram
    elf_bytes,      \* the copy of the file that is relocated
    function_registry,
    phase, next,    \* the loop that is running and the item it is at
    entry_pc, error

vars == <<file, hash, loader, elf_bytes, function_registry, phase, next, entry_pc, error>>
input == <<file, hash>>

TextRange == IF file.text.type = "NOBITS" THEN [start |-> 0, len |-> 0]
             ELSE [start |-> file.text.sh_offset, len |-> file.text.sh_size]
TextVmRange == [start |-> file.text.sh_addr, len |-> file.text.sh_size]
InstructionCount == TextRange.len \div InsnSize
PcOf(addr) == (addr - file.text.sh_addr) \div InsnSize
Signed(u) == IF u >= Word \div 2 THEN u - Word ELSE u
InFile(u, len) == u + len <= file.len

(* What Elf64::parse and Executable::validate must have established.       *)
FileAssumption ==
    /\ DOMAIN file.units = 0..file.len-1 /\ \A u \in 0..file.len-1 : file.units[u] \in Units
    /\ file.text.sh_offset + file.text.sh_size <= file.len
    /\ file.text.sh_addr <= file.e_entry /\ file.e_entry < file.text.sh_addr + file.text.sh_size

Init == function_registry = NoFunctions /\ entry_pc = 0

Fail(e) ==
    /\ phase' = "failed" /\ error' = e
    /\ UNCHANGED <<input, loader, next, entry_pc>>

Advance ==
    /\ next' = next + 1
    /\ UNCHANGED <<input, loader, phase, entry_pc, error>>

Enter(p) ==
    /\ phase' = p /\ next' = 0
    /\ UNCHANGED <<input, loader, elf_bytes, function_registry, entry_pc, error>>

CheckText ==
    /\ phase = "valid"
    /\ IF \/ file.reject_broken_elfs /\ file.text.sh_addr # file.text.sh_offset
          \/ file.text.sh_addr > RegionSize      \* .text beyond MM_STACK_START
       THEN Fail("ValueOutOfBounds") /\ UNCHANGED <<elf_bytes, function_registry>>
       ELSE Enter("calls")

(* Registers the function at pc and writes its key to unit u.              *)
RegisterAndWrite(name, pc, u) ==
    LET r == RegisterHashed(function_registry, loader, hash, file.labels, name, pc)
    IN  /\ function_registry' = r.map
        /\ IF r.error # "none" THEN Fail(r.error) /\ UNCHANGED elf_bytes
           ELSE IF ~InFile(u, 1)
           THEN Fail("ValueOutOfBounds") /\ UNCHANGED elf_bytes
           ELSE elf_bytes' = [elf_bytes EXCEPT ![u] = r.key] /\ Advance

-----------------------------------------------------------------------------
(* relocate: the calls relative to the program counter.                    *)

Slot(i) == TextRange.start + i * InsnSize

FixupCallFrom(base) ==
    LET imm == elf_bytes[Slot(next) + Immediate]
        target_pc == next + base + Signed(imm)
    IN  /\ phase = "calls" /\ next < InstructionCount
        /\ IF elf_bytes[Slot(next)] # CallImm \/ Signed(imm) = -1
           THEN Advance /\ UNCHANGED <<elf_bytes, function_registry>>
           ELSE IF target_pc < 0 \/ target_pc >= InstructionCount
           THEN Fail("RelativeJumpOutOfBounds") /\ UNCHANGED <<elf_bytes, function_registry>>
           ELSE RegisterAndWrite(IF file.labels THEN [symbol |-> "function_", pc |-> target_pc]
                                 ELSE NoName,
                                 target_pc, Slot(next) + Immediate)

FixupCallAtSlot == FixupCallFrom(0)     \* mutant: relative to the call itself

FixupCall == FixupCallFrom(1)

FixupCallsDone == phase = "calls" /\ next >= InstructionCount /\ Enter("relocations")

-----------------------------------------------------------------------------
(* relocate: the entries of the dynamic relocation table.                  *)

Relocation == file.relocations[next + 1]
HasSymbol(i) == i < Len(file.dynamic_symbols)
Symbol(i) == file.dynamic_symbols[i + 1]

PlacedAgain(addr) == RegionSize + addr      \* mutant

(* An address below the first region is moved into it.                     *)
Placed(addr) == IF addr < RegionSize THEN RegionSize + addr ELSE addr

WriteAddress(u, addr) ==
    elf_bytes' = [elf_bytes EXCEPT ![u] = addr % Word,
                                   ![u + InsnSize] = (addr \div Word) % Word]

Relocating(type) ==
    phase = "relocations" /\ next < Len(file.relocations) /\ Relocation.type = type

Relocate_64_64 ==
    /\ Relocating("64_64")
    /\ UNCHANGED function_registry
    /\ LET imm == Relocation.r_offset + Immediate
       IN  IF ~InFile(imm, 1) THEN Fail("ValueOutOfBounds") /\ UNCHANGED elf_bytes
           ELSE IF ~HasSymbol(Relocation.sym) THEN Fail("UnknownSymbol") /\ UNCHANGED elf_bytes
           ELSE IF ~InFile(imm + InsnSize, 1)
           THEN Fail("ValueOutOfBounds") /\ UNCHANGED elf_bytes
           ELSE /\ WriteAddress(imm, Placed(Symbol(Relocation.sym).st_value + elf_bytes[imm]))
                /\ Advance

(* In .text an address is split over the immediates of a lddw; elsewhere   *)
(* its lower half is found in the upper unit of a 64 bit value.            *)
Relocate_Relative ==
    /\ Relocating("Relative")
    /\ UNCHANGED function_registry
    /\ LET imm == Relocation.r_offset + Immediate
           high == imm + InsnSize
           refd == elf_bytes[high] * Word + elf_bytes[imm]
       IN  IF Within(TextRange, Relocation.r_offset)
           THEN IF ~InFile(high, 1) THEN Fail("ValueOutOfBounds") /\ UNCHANGED elf_bytes
                ELSE IF refd = 0 THEN Fail("InvalidVirtualAddress") /\ UNCHANGED elf_bytes
                ELSE WriteAddress(imm, Placed(refd)) /\ Advance
           ELSE IF ~InFile(imm, 1) THEN Fail("ValueOutOfBounds") /\ UNCHANGED elf_bytes
           ELSE /\ elf_bytes' = [elf_bytes EXCEPT ![Relocation.r_offset] = elf_bytes[imm],
                                                  ![imm] = 1]
                /\ Advance

(* A defined function is a call inside the program, any other symbol a     *)
(* syscall.                                                                *)
Relocate_64_32 ==
    /\ Relocating("64_32")
    /\ LET imm == Relocation.r_offset + Immediate
           symbol == Symbol(Relocation.sym)
           Stop(e) == Fail(e) /\ UNCHANGED <<elf_bytes, function_registry>>
       IN  IF ~HasSymbol(Relocation.sym) THEN Stop("UnknownSymbol")
           ELSE IF symbol.name = Unreadable THEN Stop("UnknownSymbol")
           ELSE IF IsFunction(symbol) /\ symbol.st_value # 0
           THEN IF ~Within(TextVmRange, symbol.st_value) THEN Stop("ValueOutOfBounds")
                ELSE RegisterAndWrite(Named(symbol.name), PcOf(symbol.st_value), imm)
           ELSE IF /\ file.reject_broken_elfs
                   /\ LookupByKey(loader, hash.name[symbol.name]) = {}
           THEN Stop("UnresolvedSymbol")
           ELSE IF ~InFile(imm, 1) THEN Stop("ValueOutOfBounds")
           ELSE /\ elf_bytes' = [elf_bytes EXCEPT ![imm] = hash.name[symbol.name]]
                /\ Advance /\ UNCHANGED function_registry

Relocate_Unknown ==
    /\ Relocating("unknown")
    /\ Fail("UnknownRelocation")
    /\ UNCHANGED <<elf_bytes, function_registry>>

RelocationsDone ==
    /\ phase = "relocations" /\ next >= Len(file.relocations)
    /\ Enter(IF file.labels THEN "symbols" ELSE "entrypoint")

-----------------------------------------------------------------------------
(* relocate: the names of the symbol table, when labels are wanted.        *)

SymbolToRegister == file.symbols[next + 1]

RegisterSymbol ==
    /\ phase = "symbols" /\ next < Len(file.symbols)
    /\ UNCHANGED elf_bytes
    /\ LET symbol == SymbolToRegister
           r == RegisterHashed(function_registry, loader, hash, file.labels,
                               Named(symbol.name), PcOf(symbol.st_value))
       IN  IF ~IsStrongFunction(symbol) THEN Advance /\ UNCHANGED function_registry
           ELSE IF ~Within(TextVmRange, symbol.st_value)
           THEN Fail("ValueOutOfBounds") /\ UNCHANGED function_registry
           ELSE IF symbol.name = Unreadable
           THEN Fail("UnknownSymbol") /\ UNCHANGED function_registry
           ELSE /\ function_registry' = r.map
                /\ IF r.error # "none" THEN Fail(r.error) ELSE Advance

SymbolsDone == phase = "symbols" /\ next >= Len(file.symbols) /\ Enter("entrypoint")

(* Whatever symbol had the name of the entrypoint makes room for the entry *)
(* of the file header.                                                     *)
RegisterEntrypoint ==
    /\ phase = "entrypoint"
    /\ UNCHANGED elf_bytes
    /\ LET pc == PcOf(file.e_entry)
           room == UnregisterFunction(function_registry, hash.name["entrypoint"])
           r == RegisterHashed(room, loader, hash, file.labels, Entrypoint, pc)
       IN  IF (file.e_entry - file.text.sh_addr) % InsnSize # 0
           THEN Fail("InvalidEntrypoint") /\ UNCHANGED function_registry
           ELSE IF r.error # "none"
           THEN Fail(r.error) /\ function_registry' = room
           ELSE /\ function_registry' = r.map
                /\ entry_pc' = pc /\ phase' = "ro_sections"
                /\ UNCHANGED <<input, loader, next, error>>

Next ==
    \/ CheckText
    \/ FixupCall \/ FixupCallsDone
    \/ Relocate_64_64 \/ Relocate_Relative \/ Relocate_64_32 \/ Relocate_Unknown
    \/ RelocationsDone
    \/ RegisterSymbol \/ SymbolsDone
    \/ RegisterEntrypoint

-----------------------------------------------------------------------------
(* No key names both a syscall and a function of the program: CALL_IMM     *)
(* asks the registries one after the other, and would do both.             *)
KeysDisjoint == Keys(loader) \cap Keys(function_registry) = {}

(* The units the relocation table writes.                                  *)
Writers(u) ==
    {j \in DOMAIN file.relocations :
        LET r == file.relocations[j]
            imm == r.r_offset + Immediate
        IN  \/ r.type # "Relative" /\ u = imm
            \/ r.type = "64_64" /\ u = imm + InsnSize
            \/ r.type = "Relative" /\ u = imm
            \/ r.type = "Relative" /\ ~Within(TextRange, r.r_offset) /\ u = r.r_offset
            \/ r.type = "Relative" /\ Within(TextRange, r.r_offset) /\ u = imm + InsnSize}

Relocated == phase \in {"ro_sections", "loaded"}

(* In a loaded program a relative call that no relocation touches holds a  *)
(* key that leads to the instruction it was relative to, also when the     *)
(* functions of other calls, symbols and the entrypoint came later.  A     *)
(* call relocated by one entry only leads to the function of its symbol,   *)
(* or holds the key of the syscall of that name, which the loader knows    *)
(* when broken files are rejected.  A symbol with the name entrypoint is   *)
(* different: a call of it leads to the entry of the file header, wherever *)
(* the symbol itself may be.                                               *)
CallsResolve ==
    Relocated =>
        /\ \A i \in 0..InstructionCount-1 :
               LET imm == Slot(i) + Immediate
                   key == elf_bytes[imm]
               IN  /\ file.units[Slot(i)] = CallImm /\ Signed(file.units[imm]) # -1
                   /\ Writers(imm) = {} /\ Writers(Slot(i)) = {}
                   => /\ key \in Keys(function_registry)
                      /\ function_registry[key].value = i + 1 + Signed(file.units[imm])
        /\ \A j \in DOMAIN file.relocations :
               LET r == file.relocations[j]
                   symbol == Symbol(r.sym)
                   key == elf_bytes[r.r_offset + Immediate]
               IN  r.type = "64_32" /\ Writers(r.r_offset + Immediate) = {j} =>
                   IF IsFunction(symbol) /\ symbol.st_value # 0
                   THEN /\ key \in Keys(function_registry)
                        /\ function_registry[key].value =
                               IF symbol.name = "entrypoint" THEN entry_pc
                               ELSE PcOf(symbol.st_value)
                   ELSE /\ key = hash.name[symbol.name]
                        /\ file.reject_broken_elfs => key \in Keys(loader)

(* In a loaded program an address that one relocation has written lies in  *)
(* the first region or above, at the offset the linker gave it.            *)
AddressesPlaced ==
    Relocated =>
        \A j \in DOMAIN file.relocations :
            LET r == file.relocations[j]
                imm == r.r_offset + Immediate
                split == r.type = "64_64" \/ Within(TextRange, r.r_offset)
                low == IF split THEN imm ELSE r.r_offset
                high == IF split THEN imm + InsnSize ELSE imm
                base == IF r.type = "64_64" THEN Symbol(r.sym).st_value + file.units[imm]
                        ELSE IF split THEN file.units[high] * Word + file.units[imm]
                        ELSE file.units[imm]
            IN  /\ r.type \in {"64_64", "Relative"}
                /\ Writers(low) = {j} /\ Writers(high) = {j}
                /\ \A i \in 0..InstructionCount-1 : file.units[Slot(i)] = CallImm
                                        => Slot(i) + Immediate \notin {imm, low, high}
                => LET addr == elf_bytes[high] * Word + elf_bytes[low]
                   IN  addr = IF base < RegionSize THEN RegionSize + base ELSE base

=============================================================================
