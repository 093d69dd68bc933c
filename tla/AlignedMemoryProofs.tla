------------------------ MODULE AlignedMemoryProofs ------------------------
(***************************************************************************)
(* Proofs about AlignedMemory, for every alignment, allocator, set of byte *)
(* values and bound on the length.                                         *)
(***************************************************************************)
EXTENDS AlignedMemory, SequenceTheorems, TLAPS

(* Zenon first: in large contexts it is much the faster of the two.        *)
USE ZenonT(5), SMTT(60)

TypeOK ==
    /\ max_len \in Nat /\ align_offset \in Nat /\ zero_up_to_max_len \in BOOLEAN
    /\ base \in Nat /\ capacity \in Nat /\ len \in Nat
    /\ cells \in [0..capacity-1 -> Values \cup {Uninit}]
    /\ written \in Seq(Values)

(* The vector has room for max_len bytes behind the skipped ones, so that  *)
(* it never grows; what is taken for zeroed is zero.                       *)
Roomy ==
    /\ align_offset <= len /\ len <= align_offset + max_len
    /\ align_offset + max_len <= capacity

Faithful ==
    /\ Len(written) = len - align_offset
    /\ \A k \in 1..Len(written) : cells[align_offset + k - 1] = written[k]
    /\ zero_up_to_max_len => \A c \in len..align_offset + max_len - 1 : cells[c] = 0
    /\ ~zero_up_to_max_len => (base + align_offset) % ALIGN = 0

MemoryInv == TypeOK /\ Roomy /\ Faithful

-----------------------------------------------------------------------------
(* The offset skips fewer bytes than an aligned block has, and what        *)
(* follows it is aligned.                                                  *)
LEMMA OffsetAligns ==
  ASSUME NEW addr \in Nat
  PROVE  /\ AlignOffset(addr) \in 0..ALIGN-1
         /\ (addr + AlignOffset(addr)) % ALIGN = 0
  <1> DEFINE r == addr % ALIGN
             q == addr \div ALIGN
  <1>1. r \in 0..ALIGN-1 /\ q \in Nat /\ addr = ALIGN * q + r
    BY AlignAssumption
  <1>2. CASE r = 0
    <2>1. AlignOffset(addr) = 0
      BY <1>2, AlignAssumption DEF AlignOffset
    <2> QED
      BY <2>1, <1>2, AlignAssumption
  <1>3. CASE r # 0
    <2>1. AlignOffset(addr) = ALIGN - r
      BY <1>1, <1>3, AlignAssumption DEF AlignOffset
    <2>2. addr + AlignOffset(addr) = ALIGN * (q + 1)
      BY <1>1, <2>1, AlignAssumption
    <2>3. (ALIGN * (q + 1)) % ALIGN = 0
      BY <1>1, AlignAssumption
    <2> QED
      BY <1>1, <1>3, <2>1, <2>2, <2>3, AlignAssumption
  <1> QED
    BY <1>2, <1>3

(* A vector that grows has room for its new length.                        *)
LEMMA GrownHasRoom ==
  ASSUME NEW at \in Nat, NEW size \in Nat, NEW new_len \in Nat,
         NEW grown \in Grown(at, size, new_len)
  PROVE  grown.at \in Nat /\ grown.size \in Nat /\ grown.size >= new_len
  <1>1. CASE new_len <= size
    BY <1>1 DEF Grown
  <1>2. CASE ~(new_len <= size)
    <2> DEFINE S == {2 * size, new_len, MinCapacity}
    <2>1. \E x \in S : \A y \in S : x >= y
      BY DEF MinCapacity
    <2>2. Max(S) \in S /\ \A y \in S : Max(S) >= y
      BY <2>1 DEF Max
    <2>3. S \subseteq Nat
      BY DEF MinCapacity
    <2>4. grown.at \in Addresses /\ grown.size = Max(S)
      BY <1>2 DEF Grown
    <2> QED
      BY <2>2, <2>3, <2>4, AlignAssumption
  <1> QED
    BY <1>1, <1>2

(* The slice is what the invariant says about its bytes.                   *)
LEMMA SliceIsWritten == MemoryInv => AsSlice = written
  BY DEF MemoryInv, TypeOK, Faithful, AsSlice

(* What the writers append is a sequence of byte values.                   *)
LEMMA RepeatIsSeq ==
  ASSUME NEW v \in Values, NEW n \in Nat
  PROVE  /\ Repeat(v, n) \in Seq(Values) /\ Len(Repeat(v, n)) = n
         /\ \A k \in 1..n : Repeat(v, n)[k] = v
  BY DEF Repeat

LEMMA BuffersAreSeqs == Buffers \subseteq Seq(Values)
  BY AlignAssumption DEF Buffers

(* extend_from_slice within the capacity stays where it is, keeps what is  *)
(* there and adds the data behind it.                                      *)
LEMMA ExtendInPlace ==
  ASSUME MemoryInv, NEW data \in Seq(Values), HasRoom(Len(data)), Extend(data)
  PROVE  /\ base' = base /\ capacity' = capacity /\ len' = len + Len(data)
         /\ cells' \in [0..capacity-1 -> Values \cup {Uninit}]
         /\ \A c \in 0..capacity-1 :
                cells'[c] = IF c \in len..len' - 1 THEN data[c - len + 1] ELSE cells[c]
  <1>1. Len(data) \in Nat /\ len + Len(data) <= capacity
    BY DEF MemoryInv, TypeOK, Roomy, HasRoom
  <1>2. Grown(base, capacity, len + Len(data)) = {[at |-> base, size |-> capacity]}
    BY <1>1 DEF Grown
  <1>3. /\ base' = base /\ capacity' = capacity /\ len' = len + Len(data)
        /\ cells' = [c \in 0..capacity-1 |->
                        IF c \in len..len' - 1 THEN data[c - len + 1]
                        ELSE IF c < capacity THEN cells[c]
                        ELSE Uninit]
    BY <1>2 DEF Extend
  <1>4. \A c \in 0..capacity-1 : c \in len..len' - 1 => data[c - len + 1] \in Values
    BY <1>1, <1>3 DEF MemoryInv, TypeOK
  <1> QED
    BY <1>1, <1>3, <1>4 DEF MemoryInv, TypeOK

(* Appending data the writer has room for keeps the invariant.             *)
LEMMA AppendKeeps ==
  ASSUME MemoryInv, NEW data \in Seq(Values), HasRoom(Len(data)),
         base' = base, capacity' = capacity, len' = len + Len(data),
         cells' \in [0..capacity-1 -> Values \cup {Uninit}],
         \A c \in 0..capacity-1 : c \notin len..len' - 1 => cells'[c] = cells[c],
         \A k \in 1..Len(data) : cells'[len + k - 1] = data[k],
         written' = written \o data,
         UNCHANGED <<max_len, align_offset, zero_up_to_max_len>>
  PROVE  MemoryInv'
  <1> USE DEF MemoryInv
  <1>1. /\ written' \in Seq(Values)
        /\ Len(written') = Len(written) + Len(data)
        /\ \A k \in 1..Len(written) + Len(data) :
               written'[k] = IF k <= Len(written) THEN written[k] ELSE data[k - Len(written)]
    BY ConcatProperties DEF TypeOK
  <1>2. TypeOK'
    BY <1>1 DEF TypeOK
  <1>3. Roomy'
    BY DEF TypeOK, Roomy, HasRoom
  <1>4. \A k \in 1..Len(written') : cells'[align_offset' + k - 1] = written'[k]
    <2> SUFFICES ASSUME NEW k \in 1..Len(written) + Len(data)
                 PROVE  cells'[align_offset + k - 1] = written'[k]
      BY <1>1
    <2>1. CASE k <= Len(written)
      <3>1. align_offset + k - 1 \in 0..capacity-1 /\ align_offset + k - 1 \notin len..len' - 1
        BY <2>1 DEF TypeOK, Roomy, Faithful
      <3> QED
        BY <1>1, <2>1, <3>1 DEF TypeOK, Faithful
    <2>2. CASE k > Len(written)
      <3>1. k - Len(written) \in 1..Len(data)
        BY <2>2 DEF TypeOK
      <3>2. align_offset + k - 1 = len + (k - Len(written)) - 1
        BY DEF TypeOK, Faithful
      <3>3. cells'[len + (k - Len(written)) - 1] = data[k - Len(written)]
        BY <3>1
      <3>4. written'[k] = data[k - Len(written)]
        BY <1>1, <2>2 DEF TypeOK
      <3> QED
        BY <3>2, <3>3, <3>4
    <2> QED
      BY <2>1, <2>2 DEF TypeOK
  <1>5. zero_up_to_max_len' => \A c \in len'..align_offset' + max_len' - 1 : cells'[c] = 0
    BY DEF TypeOK, Roomy, Faithful, HasRoom
  <1>6. Faithful'
    BY <1>1, <1>4, <1>5 DEF TypeOK, Faithful
  <1> QED
    BY <1>2, <1>3, <1>6

LEMMA ExtendKeeps ==
  ASSUME MemoryInv, NEW data \in Seq(Values), HasRoom(Len(data)), Extend(data),
         written' = written \o data,
         UNCHANGED <<max_len, align_offset, zero_up_to_max_len>>
  PROVE  MemoryInv' /\ base' = base
  <1>1. /\ base' = base /\ capacity' = capacity /\ len' = len + Len(data)
        /\ cells' \in [0..capacity-1 -> Values \cup {Uninit}]
        /\ \A c \in 0..capacity-1 :
               cells'[c] = IF c \in len..len' - 1 THEN data[c - len + 1] ELSE cells[c]
    BY ExtendInPlace
  <1>2. \A k \in 1..Len(data) : cells'[len + k - 1] = data[k]
    <2> SUFFICES ASSUME NEW k \in 1..Len(data)
                 PROVE  cells'[len + k - 1] = data[k]
      OBVIOUS
    <2>1. /\ len + k - 1 \in len..len' - 1 /\ len + k - 1 \in 0..capacity-1
          /\ (len + k - 1) - len + 1 = k
      BY <1>1 DEF MemoryInv, TypeOK, Roomy, HasRoom
    <2> QED
      BY <1>1, <2>1
  <1> QED
    BY <1>1, <1>2, AppendKeeps

-----------------------------------------------------------------------------
(* The constructors establish the invariant, whatever was there before.    *)

(* get_mem: n bytes of room behind the offset, the first of them data.     *)
LEMMA GetMemEstablishes ==
  ASSUME NEW data \in Seq(Values), NEW n \in Nat, Len(data) <= n, GetMem(n, data),
         max_len' = n, zero_up_to_max_len' = FALSE, written' = data
  PROVE  MemoryInv'
  <1> USE DEF MemoryInv
  <1>1. PICK addr \in Addresses :
           LET offset == AlignOffset(addr)
           IN  /\ base' = addr /\ capacity' = n + ALIGN
               /\ align_offset' = offset
               /\ len' = offset + Len(data)
               /\ cells' = [c \in 0..n + ALIGN - 1 |->
                               IF c < offset THEN 0
                               ELSE IF c < offset + Len(data) THEN data[c - offset + 1]
                               ELSE Uninit]
    BY DEF GetMem
  <1> DEFINE offset == AlignOffset(addr)
  <1>2. addr \in Nat /\ offset \in 0..ALIGN-1 /\ (addr + offset) % ALIGN = 0
    BY OffsetAligns, AlignAssumption
  <1> HIDE DEF offset
  <1>3. /\ base' = addr /\ capacity' = n + ALIGN /\ align_offset' = offset
        /\ len' = offset + Len(data)
        /\ cells' = [c \in 0..n + ALIGN - 1 |->
                        IF c < offset THEN 0
                        ELSE IF c < offset + Len(data) THEN data[c - offset + 1]
                        ELSE Uninit]
    BY <1>1 DEF offset
  <1>4. Len(data) \in Nat /\ ALIGN \in Nat /\ offset \in Nat /\ offset < ALIGN
    BY <1>2, AlignAssumption
  <1>5. cells' \in [0..capacity' - 1 -> Values \cup {Uninit}]
    <2>1. \A c \in 0..n + ALIGN - 1 :
            ~(c < offset) /\ c < offset + Len(data) => data[c - offset + 1] \in Values
      BY <1>4
    <2> QED
      BY <1>3, <2>1, AlignAssumption
  <1>6. TypeOK'
    <2>1. base' \in Nat /\ capacity' \in Nat /\ align_offset' \in Nat /\ len' \in Nat
      BY <1>2, <1>3, <1>4
    <2> QED
      BY <1>5, <2>1 DEF TypeOK
  <1>7. Roomy'
    BY <1>3, <1>4 DEF Roomy
  <1>8. \A k \in 1..Len(data) : cells'[offset + k - 1] = data[k]
    <2> SUFFICES ASSUME NEW k \in 1..Len(data)
                 PROVE  cells'[offset + k - 1] = data[k]
      OBVIOUS
    <2>1. /\ offset + k - 1 \in 0..n + ALIGN - 1
          /\ ~(offset + k - 1 < offset) /\ offset + k - 1 < offset + Len(data)
          /\ (offset + k - 1) - offset + 1 = k
      BY <1>4
    <2> QED
      BY <1>3, <2>1
  <1>9. Faithful'
    BY <1>2, <1>3, <1>4, <1>8 DEF Faithful
  <1> QED
    BY <1>6, <1>7, <1>9

(* get_mem_zeroed: n zeroes behind the offset, wherever the vector went.   *)
LEMMA GetMemZeroedEstablishes ==
  ASSUME NEW n \in Nat, NEW filled \in BOOLEAN, GetMemZeroed(n, filled),
         max_len' = n, zero_up_to_max_len' = TRUE,
         written' = IF filled THEN Zeroes(n) ELSE <<>>
  PROVE  MemoryInv'
  <1> USE DEF MemoryInv
  <1>1. PICK addr \in Addresses :
           \E grown \in Grown(addr, n, n + AlignOffset(addr)) :
               /\ base' = grown.at /\ capacity' = grown.size
               /\ align_offset' = AlignOffset(addr)
               /\ len' = AlignOffset(addr) + (IF filled THEN n ELSE 0)
               /\ cells' = [c \in 0..grown.size-1 |->
                               IF c < n + AlignOffset(addr) THEN 0 ELSE Uninit]
    BY DEF GetMemZeroed
  <1> DEFINE offset == AlignOffset(addr)
  <1>2. addr \in Nat /\ offset \in Nat
    BY OffsetAligns, AlignAssumption
  <1>3. PICK grown \in Grown(addr, n, n + offset) :
           /\ base' = grown.at /\ capacity' = grown.size
           /\ align_offset' = offset
           /\ len' = offset + (IF filled THEN n ELSE 0)
           /\ cells' = [c \in 0..grown.size-1 |-> IF c < n + offset THEN 0 ELSE Uninit]
    BY <1>1
  <1> HIDE DEF offset
  <1>4. grown.at \in Nat /\ grown.size \in Nat /\ grown.size >= n + offset
    BY <1>2, GrownHasRoom
  <1>5. /\ written' \in Seq(Values) /\ Len(written') = IF filled THEN n ELSE 0
        /\ \A k \in 1..Len(written') : written'[k] = 0
    BY RepeatIsSeq, AlignAssumption DEF Zeroes
  <1>6. cells' \in [0..capacity'-1 -> Values \cup {Uninit}]
    BY <1>3, <1>4, AlignAssumption
  <1>7. TypeOK'
    BY <1>2, <1>3, <1>4, <1>5, <1>6 DEF TypeOK
  <1>8. Roomy'
    BY <1>2, <1>3, <1>4 DEF Roomy
  <1>9. Faithful'
    BY <1>2, <1>3, <1>4, <1>5 DEF Faithful
  <1> QED
    BY <1>7, <1>8, <1>9

-----------------------------------------------------------------------------
LEMMA InitEstablishes == Init => MemoryInv
  <1> SUFFICES ASSUME Init
               PROVE  MemoryInv
    OBVIOUS
  <1>1. cells \in [0..capacity-1 -> Values \cup {Uninit}]
    <2>1. <<>> \in [1..0 -> Values \cup {Uninit}]
      OBVIOUS
    <2>2. 1..0 = 0..capacity-1
      BY DEF Init
    <2> QED
      BY <2>1, <2>2 DEF Init
  <1>2. 0 % ALIGN = 0
    BY AlignAssumption
  <1>3. written \in Seq(Values) /\ Len(written) = 0
    BY DEF Init
  <1>4. TypeOK
    BY <1>1, <1>3 DEF Init, TypeOK
  <1>5. Roomy
    BY DEF Init, Roomy
  <1>6. Faithful
    BY <1>2, <1>3 DEF Init, Faithful
  <1> QED
    BY <1>4, <1>5, <1>6 DEF MemoryInv

LEMMA FillWriteKeeps ==
  ASSUME MemoryInv, NEW num \in 0..MaxLen, NEW value \in Values, FillWrite(num, value)
  PROVE  MemoryInv' /\ base' = base
  <1> DEFINE data == Repeat(value, num)
  <1>1. /\ num \in Nat /\ data \in Seq(Values) /\ Len(data) = num
        /\ \A k \in 1..num : data[k] = value
    BY RepeatIsSeq, AlignAssumption
  <1>2. /\ HasRoom(num) /\ written' = written \o data
        /\ UNCHANGED <<max_len, align_offset, zero_up_to_max_len>>
    BY DEF FillWrite
  <1> HIDE DEF data
  <1>3. CASE zero_up_to_max_len /\ value = 0
    <2>1. len' = len + num /\ UNCHANGED <<base, capacity, cells>>
      BY <1>3 DEF FillWrite
    <2>2. \A k \in 1..Len(data) : cells'[len + k - 1] = data[k]
      BY <1>1, <1>2, <1>3, <2>1 DEF MemoryInv, TypeOK, Roomy, Faithful, HasRoom
    <2>3. cells' \in [0..capacity-1 -> Values \cup {Uninit}]
      BY <2>1 DEF MemoryInv, TypeOK
    <2> QED
      BY <1>1, <1>2, <2>1, <2>2, <2>3, AppendKeeps
  <1>4. CASE ~(zero_up_to_max_len /\ value = 0)
    <2>1. Extend(data)
      BY <1>4 DEF FillWrite, data
    <2> QED
      BY <1>1, <1>2, <2>1, ExtendKeeps
  <1> QED
    BY <1>3, <1>4

LEMMA WriteKeeps ==
  ASSUME MemoryInv, NEW buf \in Buffers, Write(buf)
  PROVE  MemoryInv' /\ base' = base
  <1>1. buf \in Seq(Values) /\ HasRoom(Len(buf)) /\ Extend(buf)
    BY BuffersAreSeqs DEF Write
  <1> QED
    BY <1>1, ExtendKeeps DEF Write

LEMMA SetByteKeeps ==
  ASSUME MemoryInv, NEW k \in 1..MaxLen, NEW value \in Values, SetByte(k, value)
  PROVE  MemoryInv'
  <1> USE DEF MemoryInv
  <1> DEFINE at == align_offset + k - 1
  <1>1. /\ k \in 1..Len(written)
        /\ cells' = [cells EXCEPT ![at] = value] /\ written' = [written EXCEPT ![k] = value]
        /\ UNCHANGED <<max_len, align_offset, zero_up_to_max_len, base, capacity, len>>
    BY SliceIsWritten DEF SetByte, TypeOK
  <1>2. at \in align_offset..len-1 /\ at \in 0..capacity-1
    BY <1>1 DEF TypeOK, Roomy, Faithful
  <1>3. /\ written' \in Seq(Values) /\ Len(written') = Len(written)
        /\ \A j \in 1..Len(written) : written'[j] = IF j = k THEN value ELSE written[j]
    BY <1>1 DEF TypeOK
  <1>4. /\ cells' \in [0..capacity-1 -> Values \cup {Uninit}]
        /\ \A c \in 0..capacity-1 : cells'[c] = IF c = at THEN value ELSE cells[c]
    BY <1>1, <1>2 DEF TypeOK
  <1>5. TypeOK'
    BY <1>1, <1>3, <1>4 DEF TypeOK
  <1>6. Roomy'
    BY <1>1 DEF Roomy
  <1>7. \A j \in 1..Len(written) : cells'[align_offset + j - 1] = written'[j]
    BY <1>1, <1>3, <1>4 DEF TypeOK, Roomy, Faithful
  <1>8. zero_up_to_max_len => \A c \in len..align_offset + max_len - 1 : cells'[c] = 0
    BY <1>2, <1>4 DEF TypeOK, Roomy, Faithful
  <1>9. Faithful'
    BY <1>1, <1>3, <1>7, <1>8 DEF Faithful
  <1> QED
    BY <1>5, <1>6, <1>9

LEMMA MemoryInvKept == MemoryInv /\ [Next]_vars => MemoryInv'
  <1> SUFFICES ASSUME MemoryInv, [Next]_vars
               PROVE  MemoryInv'
    OBVIOUS
  <1>1. CASE UNCHANGED vars
    BY <1>1 DEF vars, mem, MemoryInv, TypeOK, Roomy, Faithful
  <1>2. ASSUME NEW n \in 0..MaxLen, WithCapacity(n)
        PROVE  MemoryInv'
    <2>1. n \in Nat /\ <<>> \in Seq(Values) /\ Len(<<>>) <= n
      BY AlignAssumption
    <2>2. /\ GetMem(n, <<>>)
          /\ max_len' = n /\ zero_up_to_max_len' = FALSE /\ written' = <<>>
      BY <1>2 DEF WithCapacity
    <2> QED
      BY <2>1, <2>2, GetMemEstablishes
  <1>3. ASSUME NEW n \in 0..MaxLen, WithCapacityZeroed(n)
        PROVE  MemoryInv'
    <2>1. n \in Nat
      BY AlignAssumption
    <2>2. /\ GetMemZeroed(n, FALSE)
          /\ max_len' = n /\ zero_up_to_max_len' = TRUE
          /\ written' = IF FALSE THEN Zeroes(n) ELSE <<>>
      BY <1>3 DEF WithCapacityZeroed
    <2> QED
      BY <2>1, <2>2, GetMemZeroedEstablishes
  <1>4. ASSUME NEW n \in 0..MaxLen, ZeroFilled(n)
        PROVE  MemoryInv'
    <2>1. n \in Nat
      BY AlignAssumption
    <2>2. /\ GetMemZeroed(n, TRUE)
          /\ max_len' = n /\ zero_up_to_max_len' = TRUE
          /\ written' = IF TRUE THEN Zeroes(n) ELSE <<>>
      BY <1>4 DEF ZeroFilled
    <2> QED
      BY <2>1, <2>2, GetMemZeroedEstablishes
  <1>5. ASSUME NEW data \in Buffers, FromSlice(data)
        PROVE  MemoryInv'
    <2>1. data \in Seq(Values) /\ Len(data) \in Nat /\ Len(data) <= Len(data)
      BY BuffersAreSeqs
    <2>2. /\ GetMem(Len(data), data)
          /\ max_len' = Len(data) /\ zero_up_to_max_len' = FALSE /\ written' = data
      BY <1>5 DEF FromSlice
    <2> QED
      BY <2>1, <2>2, GetMemEstablishes
  <1>6. CASE Clone
    <2>1. PICK data : data = AsSlice
      OBVIOUS
    <2>2. data \in Seq(Values) /\ Len(data) \in Nat /\ Len(data) <= Len(data)
      BY <2>1, SliceIsWritten DEF MemoryInv, TypeOK
    <2>3. /\ GetMem(Len(data), data)
          /\ max_len' = Len(data) /\ zero_up_to_max_len' = FALSE /\ written' = data
      BY <1>6, <2>1, SliceIsWritten DEF Clone
    <2> QED
      BY <2>2, <2>3, GetMemEstablishes
  <1>7. ASSUME NEW n \in 1..MaxLen, WriteFails(n)
        PROVE  MemoryInv'
    BY <1>7, <1>1 DEF WriteFails
  <1> QED
    BY <1>1, <1>2, <1>3, <1>4, <1>5, <1>6, <1>7, FillWriteKeeps, WriteKeeps, SetByteKeeps DEF Next

LEMMA MemoryInvariant == Spec => []MemoryInv
  BY InitEstablishes, MemoryInvKept, PTL DEF Spec

(* Whatever the allocator does, as_slice is what has been written, and     *)
(* memory that was not allocated as zeroes is aligned: for every alignment *)
(* and every length (aligned_memory.rs).                                   *)
THEOREM SliceFaithful == Spec => []ContentsAsWritten
  <1>1. MemoryInv => ContentsAsWritten
    BY SliceIsWritten DEF MemoryInv, Faithful, ContentsAsWritten
  <1> QED
    BY <1>1, MemoryInvariant, PTL

(* No write that is accepted makes the vector grow, so the memory stays    *)
(* where it is (aligned_memory.rs).                                        *)
THEOREM WritesStayInPlace == Spec => NeverMoves
  <1>1. MemoryInv /\ [Next]_vars => [Writing => base' = base]_vars
    BY FillWriteKeeps, WriteKeeps DEF Writing
  <1> QED
    BY <1>1, MemoryInvariant, PTL DEF Spec, NeverMoves

=============================================================================
