--------------------------- MODULE AlignedMemory ---------------------------
(***************************************************************************)
(* AlignedMemory (aligned_memory.rs): a vector of bytes of which a prefix  *)
(* is skipped so that the rest starts aligned.  The allocator may place a  *)
(* vector anywhere, and does so again whenever the vector outgrows its     *)
(* capacity.  Memory that was never written is Uninit.                     *)
(***************************************************************************)
EXTENDS Integers, Sequences, FiniteSetsExt

CONSTANTS
    ALIGN,
    Addresses,      \* where the allocator may place a vector
    Values,         \* byte values, 0 among them
    MaxLen          \* bound on max_len and on the size of a write

ASSUME AlignAssumption ==
    /\ ALIGN \in Nat \ {0} /\ Addresses \subseteq Nat
    /\ 0 \in Values /\ MaxLen \in Nat

VARIABLES
    max_len, align_offset, zero_up_to_max_len,
    base, capacity, len,    \* the vector mem: its place, capacity and length
    cells,                  \* what its capacity holds
    written                 \* what the caller has put into the memory

mem == <<base, capacity, len, cells>>
vars == <<max_len, align_offset, zero_up_to_max_len, mem, written>>

Uninit == -1
AlignOffset(addr) == (ALIGN - (addr % ALIGN)) % ALIGN

Repeat(v, n) == [k \in 1..n |-> v]
Zeroes(n) == Repeat(0, n)
Buffers == UNION {[1..n -> Values] : n \in 0..MaxLen}

(* A vector keeps its place as long as the new length fits its capacity,   *)
(* and otherwise doubles, from MinCapacity up, wherever there is room.     *)
MinCapacity == 8
Grown(at, size, new_len) ==
    IF new_len <= size THEN {[at |-> at, size |-> size]}
    ELSE [at : Addresses, size : {Max({2 * size, new_len, MinCapacity})}]

(* mem.extend_from_slice(data)                                             *)
Extend(data) ==
    \E grown \in Grown(base, capacity, len + Len(data)) :
        /\ base' = grown.at /\ capacity' = grown.size
        /\ len' = len + Len(data)
        /\ cells' = [c \in 0..grown.size-1 |->
                        IF c \in len..len' - 1 THEN data[c - len + 1]
                        ELSE IF c < capacity THEN cells[c]
                        ELSE Uninit]

-----------------------------------------------------------------------------
(* The constructors.  get_mem allocates room for any offset; the offset    *)
(* of get_mem_zeroed makes the vector grow, and so it may move.            *)

GetMem(n, data) ==
    \E addr \in Addresses :
        LET offset == AlignOffset(addr)
        IN  /\ base' = addr /\ capacity' = n + ALIGN
            /\ align_offset' = offset
            /\ len' = offset + Len(data)
            /\ cells' = [c \in 0..n + ALIGN - 1 |->
                            IF c < offset THEN 0
                            ELSE IF c < offset + Len(data) THEN data[c - offset + 1]
                            ELSE Uninit]

GetMemZeroed(n, filled) ==
    \E addr \in Addresses :
        LET offset == AlignOffset(addr)
        IN  \E grown \in Grown(addr, n, n + offset) :
                /\ base' = grown.at /\ capacity' = grown.size
                /\ align_offset' = offset
                /\ len' = offset + (IF filled THEN n ELSE 0)
                /\ cells' = [c \in 0..grown.size-1 |-> IF c < n + offset THEN 0 ELSE Uninit]

FromSlice(data) ==
    /\ GetMem(Len(data), data)
    /\ max_len' = Len(data) /\ zero_up_to_max_len' = FALSE
    /\ written' = data

WithCapacityAsZeroed(n) ==      \* mutant: uninitialized memory passes for zeroed
    /\ GetMem(n, <<>>)
    /\ max_len' = n /\ zero_up_to_max_len' = TRUE
    /\ written' = <<>>

WithCapacity(n) ==
    /\ GetMem(n, <<>>)
    /\ max_len' = n /\ zero_up_to_max_len' = FALSE
    /\ written' = <<>>

WithCapacityZeroed(n) ==
    /\ GetMemZeroed(n, FALSE)
    /\ max_len' = n /\ zero_up_to_max_len' = TRUE
    /\ written' = <<>>

ZeroFilled(n) ==
    /\ GetMemZeroed(n, TRUE)
    /\ max_len' = n /\ zero_up_to_max_len' = TRUE
    /\ written' = Zeroes(n)

AsSlice == [k \in 1..len - align_offset |-> cells[align_offset + k - 1]]

(* Clone copies the bytes, not the vector.                                 *)
Clone ==
    /\ GetMem(Len(AsSlice), AsSlice)
    /\ max_len' = Len(AsSlice) /\ zero_up_to_max_len' = FALSE
    /\ UNCHANGED written

-----------------------------------------------------------------------------
(* The writers.  One that finds no room returns an error.                  *)

HasRoomInVector(n) == len - align_offset + n <= capacity     \* mutant
HasRoom(n) == len + n <= align_offset + max_len

(* A fill with zeroes may only move the length (set_len).                  *)
FillWrite(num, value) ==
    /\ HasRoom(num)
    /\ IF zero_up_to_max_len /\ value = 0
       THEN len' = len + num /\ UNCHANGED <<base, capacity, cells>>
       ELSE Extend(Repeat(value, num))
    /\ written' = written \o Repeat(value, num)
    /\ UNCHANGED <<max_len, align_offset, zero_up_to_max_len>>

(* Write::write; write_unchecked and write_all_unchecked leave the test    *)
(* for room to their caller.                                               *)
Write(buf) ==
    /\ HasRoom(Len(buf))
    /\ Extend(buf)
    /\ written' = written \o buf
    /\ UNCHANGED <<max_len, align_offset, zero_up_to_max_len>>

WriteFails(n) ==
    /\ ~HasRoom(n)
    /\ UNCHANGED vars

(* A caller changes a byte through as_slice_mut.                           *)
SetByte(k, value) ==
    /\ k \in DOMAIN AsSlice
    /\ cells' = [cells EXCEPT ![align_offset + k - 1] = value]
    /\ written' = [written EXCEPT ![k] = value]
    /\ UNCHANGED <<max_len, align_offset, zero_up_to_max_len, base, capacity, len>>

Init ==
    /\ max_len = 0 /\ align_offset = 0 /\ zero_up_to_max_len = FALSE
    /\ base = 0 /\ capacity = 0 /\ len = 0
    /\ cells = <<>> /\ written = <<>>

Next ==
    \/ \E n \in 0..MaxLen : WithCapacity(n) \/ WithCapacityZeroed(n) \/ ZeroFilled(n)
    \/ \E data \in Buffers : FromSlice(data)
    \/ Clone
    \/ \E num \in 0..MaxLen, value \in Values : FillWrite(num, value)
    \/ \E buf \in Buffers : Write(buf)
    \/ \E n \in 1..MaxLen : WriteFails(n)
    \/ \E k \in 1..MaxLen, value \in Values : SetByte(k, value)

Spec == Init /\ [][Next]_vars

-----------------------------------------------------------------------------
(* as_slice is what has been written, also where fill_write only moved the *)
(* length over memory it takes for zeroed; and unless the memory was       *)
(* allocated as zeroes, the slice starts at the specified alignment, in a  *)
(* clone as well.                                                          *)
ContentsAsWritten ==
    /\ AsSlice = written
    /\ ~zero_up_to_max_len => (base + align_offset) % ALIGN = 0

(* Once constructed, the memory never moves: a write that has room never   *)
(* makes the vector grow, so addresses that were handed out stay valid.    *)
Writing ==
    \/ \E num \in 0..MaxLen, value \in Values : FillWrite(num, value)
    \/ \E buf \in Buffers : Write(buf)
NeverMoves == [][Writing => base' = base]_vars

=============================================================================
