------------------------------- MODULE MachineWords ----------------------------
(***************************************************************************)
(* Machine words whose byte has ByteBits bits: u8, u16, u32 and u64 keep   *)
(* their relative sizes, so truncation, sign extension, overflow and the   *)
(* boundary values of every width are all there, in numbers TLC can count. *)
(***************************************************************************)
EXTENDS Integers, Bitwise

CONSTANT ByteBits

(* Words of a size, their unsigned and their signed value.                 *)
Bits == [S8 |-> ByteBits, S16 |-> 2 * ByteBits, S32 |-> 4 * ByteBits, S64 |-> 8 * ByteBits]
Span == [s \in DOMAIN Bits |-> 2^Bits[s]]

Low(size, x)  == x % Span[size]
U64(x)        == Low("S64", x)
Sign(size, x) == LET l == Low(size, x)
                 IN  IF l < Span[size] \div 2 THEN l ELSE l - Span[size]
I32Min == -(Span["S32"] \div 2)
I32Max == (Span["S32"] \div 2) - 1
U32Max == Span["S32"] - 1

(* Shifts by a count reduced to the width, and the order of bytes.         *)
Shl(size, x, n)  == Low(size, Low(size, x) * 2^(n % Bits[size]))
Shr(size, x, n)  == Low(size, x) \div 2^(n % Bits[size])
Sar(size, x, n)  == Low(size, Sign(size, x) \div 2^(n % Bits[size]))
Ror(size, x, n)  == LET l == Low(size, x) k == n % Bits[size]
                    IN  (l \div 2^k) + (l % 2^k) * 2^(Bits[size] - k)
ByteOf(x, i)     == (x \div 2^(i * ByteBits)) % 2^ByteBits
SwapBytes(size, x) ==
    LET n == Bits[size] \div ByteBits
        swapped[i \in 0..n] ==
            IF i = 0 THEN 0 ELSE swapped[i-1] + ByteOf(x, i-1) * 2^((n - i) * ByteBits)
    IN  swapped[n]

(* Products of two words, in two parts as they exceed a machine integer,   *)
(* and division that rounds towards zero.                                  *)
MulLow(size, a, b) ==
    LET h == Span["S32"]
    IN  Low(size, ((Low(size, a) \div h) * (b % h) % h) * h + (Low(size, a) % h) * (b % h)
                  + ((a % h) * (Low(size, b) \div h) % h) * h)
MulHigh(a, b) ==
    LET h == Span["S32"]
    IN  ((a \div h) * b + ((a % h) * b) \div h) \div h
Quot(a, b) ==
    LET q == (IF a < 0 THEN -a ELSE a) \div (IF b < 0 THEN -b ELSE b)
    IN  IF (a < 0) = (b < 0) THEN q ELSE -q
Rem(a, b) == a - b * Quot(a, b)
=============================================================================
