---------------------------- MODULE MCExecutable ----------------------------
EXTENDS Executable

MCBuiltins == [log |-> "f", abort |-> "g"]

(* Injective; a function, or the entrypoint, that collides with a syscall; *)
(* two functions and two syscalls that collide with one another.           *)
Injective == [name |-> [entrypoint |-> 20, log |-> 21, abort |-> 22, helper |-> 23],
              pc |-> (0 :> 10 @@ 1 :> 11 @@ 2 :> 12)]
MeetsSyscall == [Injective EXCEPT !.pc[1] = 21]
MeetsEntrypoint == [Injective EXCEPT !.name["abort"] = 20]
Meeting == [Injective EXCEPT !.pc[1] = 10, !.name["abort"] = 21]

Shdr(n, t, o, s, a) ==
    [name |-> n, type |-> t, sh_offset |-> o, sh_size |-> s, sh_addr |-> a,
     writable |-> n = ".data"]
NullShdr == Shdr("", "NULL", 0, 0, 0)
Names(o) == Shdr(".shstrtab", "STRTAB", o, 1, 0)
TextShdr(o, s) == Shdr(".text", "PROGBITS", o, s, o)
Seg(t, o, f, v) == [type |-> t, p_offset |-> o, p_filesz |-> f, p_vaddr |-> v, p_memsz |-> f]
Sym(t, v, n) == [type |-> t, st_value |-> v, name |-> n]
Rel(t, o, s) == [type |-> t, r_offset |-> o, sym |-> s]
Dyn(r, e, z, s) == [rel |-> r, relent |-> e, relsz |-> z, symtab |-> s]
NoDyn == Dyn(0, 0, 0, 0)

Base == [e_flags |-> 0, enabled_sbpf_versions |-> 0..3,
         len |-> 20, ident |-> TRUE, machine |-> TRUE, e_phoff |-> 2, phdrs |-> <<>>,
         e_shoff |-> 10, shdrs |-> <<>>, e_shstrndx |-> 1, e_entry |-> 4,
         dynamic_table |-> NoDyn, units |-> [u \in 0..19 |-> 0],
         relocations |-> [k \in 1..6 |-> Rel("Relative", 24, 0)],
         dynamic_symbols |-> [k \in 1..6 |-> Sym("OBJECT", 2, "helper")],
         symbols |-> [k \in 1..6 |-> Sym("OBJECT", 2, "helper")], labels |-> FALSE,
         reject_broken_elfs |-> FALSE, optimize_rodata |-> TRUE]

Sized(f) == [f EXCEPT !.units = [u \in 0..f.len-1 |-> 0]]
Plain(files) == {[file |-> Sized(f), hash |-> Injective, syscalls |-> <<>>] : f \in files}

-----------------------------------------------------------------------------
(* Headers: tables at every place, aligned or not, inside the file or not. *)
Layouts ==
    {[Base EXCEPT !.len = n, !.e_phoff = p, !.e_shoff = s, !.e_shstrndx = x, !.shdrs = t,
                  !.phdrs = IF k = 1 THEN <<Seg("LOAD", 2, 2, 2)>> ELSE <<>>] :
        n \in {18, 20}, p \in {1, 2, 3, 10, 20}, s \in {1, 4, 11, 12, 16},
        x \in {0, 1, 2}, k \in {0, 1},
        t \in {<<NullShdr, Names(6)>>, <<Names(6), NullShdr>>, <<>>, <<NullShdr, Names(30)>>,
               <<NullShdr, [Names(6) EXCEPT !.type = "PROGBITS"]>>}}
    \cup {[Base EXCEPT !.len = n, !.ident = FALSE, !.e_flags = v] : n \in 0..2, v \in 0..5}

SomeSections ==
    {Shdr(n, t, o, s, o) : n \in {".text", ".symtab", ".data", "?"},
        t \in {"PROGBITS", "NOBITS"}, o \in {5, 6, 7, 18}, s \in {1, 3}}

WithSections ==
    {[Base EXCEPT !.shdrs = <<NullShdr, Names(4), a, b>>, !.e_entry = 5] : a, b \in SomeSections}
    \cup {[Base EXCEPT !.shdrs = <<NullShdr, Names(4), a>>, !.e_entry = e, !.machine = m] :
              a \in SomeSections, e \in {4, 5, 6, 7, 8}, m \in BOOLEAN}

Segments ==
    {[Base EXCEPT !.e_shoff = 6, !.shdrs = <<NullShdr, Names(14), TextShdr(15, 2)>>, !.e_entry = 15,
                  !.phdrs = <<Seg(a[1], 15, a[2], v), Seg(b[1], 15, b[2], w)>>] :
        a, b \in {<<"LOAD", 2>>, <<"LOAD", 6>>, <<"DYNAMIC", 2>>, <<"DYNAMIC", 3>>},
        v, w \in {14, 15}}

Dynamic ==
    {[Base EXCEPT !.e_phoff = 2, !.e_shoff = 6, !.len = 28, !.e_entry = 18, !.dynamic_table = d,
                  !.phdrs = <<Seg("LOAD", 18, 6, 18), Seg(p, 24, 2, 0)>>,
                  !.shdrs = <<NullShdr, Names(16), TextShdr(18, 2), Shdr("", x, 20, z, 20),
                              Shdr("", y, 24, w, 40)>>] :
        p \in {"DYNAMIC", "NOTE"}, x \in {"DYNSYM", "PROGBITS"}, y \in {"DYNAMIC", "NOTE"},
        z \in {2, 3}, w \in {2, 3},
        d \in {NoDyn} \cup {Dyn(r, e, c, s) : r \in {18, 20, 40, 41}, e \in {1, 2},
                                             c \in {0, 2, 9, 12}, s \in {0, 20, 24}}}

-----------------------------------------------------------------------------
(* Relocations: .text of up to three instructions, data, the tables.       *)
DynSymbols == <<Sym("FUNC", 26, "helper"), Sym("WEAK_FUNC", 24, "entrypoint"),
                Sym("FUNC", 0, "log"), Sym("OBJECT", 62, "helper"),
                Sym("FUNC", 42, "helper"), Sym("OBJECT", 2, "?")>>

Relocations ==
    {Rel("64_64", 24, 3), Rel("64_64", 24, 0), Rel("64_64", 28, 6), Rel("64_64", 30, 0),
     Rel("64_64", 55, 0), Rel("64_64", 56, 0), Rel("64_32", 56, 0),
     Rel("Relative", 24, 0), Rel("Relative", 26, 0), Rel("Relative", 29, 0),
     Rel("Relative", 30, 0), Rel("Relative", 56, 0),
     Rel("64_32", 24, 0), Rel("64_32", 26, 1), Rel("64_32", 26, 2), Rel("64_32", 24, 4),
     Rel("64_32", 24, 5), Rel("64_32", 56, 2), Rel("64_32", 28, 7), Rel("unknown", 24, 0)}

SymbolTables ==
    {<<>>, <<Sym("FUNC", 26, "helper")>>,
     <<Sym("WEAK_FUNC", 26, "helper"), Sym("FUNC", 26, "entrypoint")>>,
     <<Sym("FUNC", 28, "helper"), Sym("FUNC", 42, "log")>>, <<Sym("FUNC", 24, "?")>>}

Strings(present, name, o) == Shdr(IF present THEN name ELSE "", "STRTAB", o, 1, 0)

FileOf(type, code, table, symbols, size, addr, entry, reject, strings) ==
    [Base EXCEPT !.len = 57, !.e_phoff = 2, !.e_shoff = 2, !.e_entry = entry,
                 !.units = [u \in 0..56 |-> CASE u \in 24..29 -> code[u - 23] [] u = 31 -> 3
                                              [] OTHER -> 0],
                 !.shdrs = <<NullShdr, Names(22), Shdr(".text", type, 24, size, addr),
                             Shdr(".rodata", "PROGBITS", 30, 2, 30),
                             Shdr(".rel.dyn", "REL", 32, 2 * Len(table), 32),
                             Shdr(".dynsym", "DYNSYM", 36, 12, 36),
                             Shdr(".symtab", "SYMTAB", 48, 2 * Len(symbols), 0),
                             Shdr(".dynamic", "DYNAMIC", 52, 2, 0),
                             Strings(strings, ".dynstr", 54)>>
                            \o IF symbols = <<>> THEN <<>> ELSE <<Strings(strings, ".strtab", 55)>>,
                 !.dynamic_table = IF table = <<>> THEN NoDyn
                                   ELSE Dyn(32, RelSize, 2 * Len(table), 36),
                 !.relocations = table, !.dynamic_symbols = DynSymbols, !.symbols = symbols,
                 !.labels = symbols # <<>>, !.reject_broken_elfs = reject]

Insns == {<<CallImm, 63>>, <<CallImm, 0>>, <<CallImm, 62>>, <<7, 4>>}
Codes == {a \o b \o <<0, 0>> : a, b \in Insns}
PairCodes == {<<CallImm, 63>> \o b \o <<CallImm, 61>> : b \in {<<CallImm, 63>>, <<7, 4>>}}
Singles == {<<>>} \cup {<<r>> : r \in Relocations}
Pairs == {<<r, s>> : r, s \in Relocations}

RelocatedTwice ==
    {[file |-> FileOf("PROGBITS", code, table, <<>>, 6, 24, 24, TRUE, TRUE), hash |-> h,
      syscalls |-> <<"log">>] : code \in PairCodes, table \in Pairs, h \in {Injective, MeetsSyscall}}
RelocatedWithSymbols ==
    {[file |-> FileOf("PROGBITS", code, table, symbols, 6, 24, 26, FALSE, TRUE), hash |-> h,
      syscalls |-> <<>>] : code \in Codes, table \in Singles, symbols \in SymbolTables,
                          h \in {Injective}}
RelocatedWithSyscalls ==
    {[file |-> FileOf("PROGBITS", code, table, <<>>, 6, 24, 26, TRUE, TRUE), hash |-> h,
      syscalls |-> <<"log", "abort">>] : code \in Codes, table \in Singles,
                                        h \in {MeetsSyscall, Meeting}}
Placings ==
    {[file |-> FileOf(type, <<CallImm, 0, CallImm, 62, 0, 0>>, table, <<Sym("FUNC", 28, "helper")>>,
                      size, addr, addr + entry, reject, strings),
      hash |-> h, syscalls |-> <<"abort">>] : h \in {Injective, MeetsEntrypoint},
        type \in {"PROGBITS", "NOBITS"}, size \in {4, 5}, addr \in {24, 25, Word + 1},
        entry \in 0..3, reject \in BOOLEAN, strings \in BOOLEAN,
        table \in {<<>>, <<Rel("64_32", 26, 1)>>}}

-----------------------------------------------------------------------------
(* Read-only sections: .text and one or two others, placed or not.         *)
Contents ==
    {Shdr(k[1], k[2], o, s, a) :
        k \in {<<".rodata", "PROGBITS">>, <<".eh_frame", "NOBITS">>, <<".comment", "PROGBITS">>},
        o \in {14, 16, 19}, s \in {1, 2}, a \in {14, 16, 19, Word - 1, Word, Word + 1}}
Placed == {h \in Contents : h.sh_addr = h.sh_offset}
Texts == {Shdr(".text", "PROGBITS", o, 2, a) : o \in {14, 17}, a \in {14, 17, Word}}

Tables ==
    {<<t, c>> : t \in Texts, c \in Contents} \cup {<<c, t>> : t \in Texts, c \in Contents}
    \cup {<<t, c, d>> : t \in {TextShdr(14, 2)}, c, d \in Placed}
    \cup {<<c, d, t>> : t \in {TextShdr(17, 2)}, c, d \in Placed}
    \cup {<<c, t, d>> : t \in {TextShdr(17, 2)}, c, d \in Placed}

WithReadOnly ==
    {[Base EXCEPT !.len = n, !.e_shoff = 2, !.shdrs = <<NullShdr, Names(12)>> \o t,
                  !.e_entry = (CHOOSE k \in {t[j] : j \in DOMAIN t} : k.name = ".text").sh_addr,
                  !.reject_broken_elfs = r, !.optimize_rodata = o] :
        n \in {21}, t \in Tables, r \in BOOLEAN, o \in BOOLEAN}

-----------------------------------------------------------------------------
(* The strict parser.                                                      *)
StrictPhdr(flags, offset, size, vaddr) ==
    [load |-> TRUE, p_flags |-> flags, p_offset |-> offset, p_filesz |-> size, p_memsz |-> size,
     p_vaddr |-> vaddr]

Rodata == {StrictPhdr("R", o, s, v) : o \in {6, 8}, s \in {0, 2, 3, Word + 2}, v \in {0, 2}}
Bytecode == {StrictPhdr("X", o, s, v) : o \in {4, 5, 6, 8, Word + 8}, s \in {0, 2, 4, Word},
                                        v \in {Word, Word + 2}}

StrictTables ==
    {<<c>> : c \in Bytecode \cup {[p EXCEPT !.p_memsz = @ + 2] : p \in Bytecode}
                            \cup {[p EXCEPT !.load = FALSE] : p \in Bytecode}}
    \cup {<<r>> : r \in Rodata} \cup {<<r, c>> : r \in Rodata, c \in Bytecode}
    \cup {<<c, c>> : c \in Bytecode}

StrictFile(n, i_, t, e, l) ==
    [e_flags |-> 3, enabled_sbpf_versions |-> 0..3, len |-> n, ident |-> i_,
     e_phnum |-> Len(t), phdrs |-> t, e_entry |-> e, labels |-> l # <<>>, symbols |-> l]

StrictSymbols == <<Sym("FUNC", Word, "a"), Sym("OBJECT", Word + 1, "b"),
                   Sym("WEAK_FUNC", Word + 1, "c"), Sym("SECTION", 2, "d")>>
FarSymbols == <<Sym("FUNC", 2 * Word, "a"), Sym("FUNC", 4 * Word, "b")>>

StrictFiles ==
    {StrictFile(n, TRUE, t, Word + e, <<>>) :
        n \in {5, 10, 14, 90}, t \in StrictTables, e \in {-1, 0, 2, 4}}
    \cup {StrictFile(14, TRUE, t, Word, l) : t \in StrictTables, l \in {StrictSymbols, FarSymbols}}
    \cup {StrictFile(n, i_, <<>>, Word, <<>>) : n \in {1, 2}, i_ \in BOOLEAN}

MCInputs ==
    <<Plain(Layouts), Plain(WithSections), Plain(Segments), Plain(Dynamic), Plain(WithReadOnly),
      RelocatedTwice, RelocatedWithSymbols, RelocatedWithSyscalls, Placings,
      {[file |-> f, hash |-> Injective, syscalls |-> <<>>] : f \in StrictFiles}>>

=============================================================================
