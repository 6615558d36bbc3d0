------------------------------ MODULE BitWords ------------------------------
(***************************************************************************)
(* The bit helpers of bits.hpp on one integer.  A word is the set of its   *)
(* bits that are one, bit 0 being the lowest; the shifts drop what leaves  *)
(* the word on either side.                                                *)
(***************************************************************************)
EXTENDS Integers, FiniteSets, Sequences

CONSTANT digits  \* bits of the type, a power of two

Bits == 0 .. digits - 1
Shr(x, n) == {b - n : b \in {c \in x : c >= n}}
Shl(x, n) == {b + n : b \in {c \in x : c + n < digits}}

bit(x, i) == i \in x
set_bit(x, i, value) == IF i >= digits THEN x ELSE IF value THEN x \cup {i} ELSE x \ {i}
toggle_bit(x, i) == IF i >= digits THEN x ELSE (x \cup {i}) \ (x \cap {i})

popcount(x)       == Cardinality(x)
count_zeros(x)    == digits - popcount(x)
leading_zeros(x)  == IF x = {} THEN digits ELSE digits - 1 - (CHOOSE b \in x : \A c \in x : c <= b)
trailing_zeros(x) == IF x = {} THEN digits ELSE CHOOSE b \in x : \A c \in x : b <= c
bit_width(x)      == digits - leading_zeros(x)
has_single_bit(x) == popcount(x) = 1
sign_bit(x)       == digits - 1 \in x  \* of a signed integer, and of a float

\* Ranges include both ends; one that is empty or leaves the word has no bits.
OutOfRange(lo, hi) == lo > hi \/ hi >= digits
low_mask(n) == IF n >= digits THEN Bits ELSE 0 .. n - 1
bit_mask(lo, hi) == IF OutOfRange(lo, hi) THEN {} ELSE Shl(low_mask(hi - lo + 1), lo)
extract_bits(x, lo, hi) == IF OutOfRange(lo, hi) THEN {} ELSE Shr(x, lo) \cap low_mask(hi - lo + 1)
insert_bits(x, lo, hi, value) ==
  IF OutOfRange(lo, hi) THEN x
  ELSE (x \ bit_mask(lo, hi)) \cup (Shl(value, lo) \cap bit_mask(lo, hi))

\* The remainder is brought into 0 .. digits - 1 before anything is shifted.
rotl(x, n) == LET s == n % digits IN IF s = 0 THEN x ELSE Shl(x, s) \cup Shr(x, digits - s)
rotr(x, n) == rotl(x, (digits - (n % digits)) % digits)

\* Swap neighbouring groups of 1, 2, 4, ... bits; the two halves come last.
bit_reverse(x) ==
  LET Swap(w, s) == LET mask == {b \in Bits : (b \div s) % 2 = 0}
                    IN  (Shr(w, s) \cap mask) \cup Shl(w \cap mask, s)
      Round[s \in 1 .. digits] == IF s = 1 THEN Swap(x, 1)
                                  ELSE IF s % 2 = 1 THEN {} ELSE Swap(Round[s \div 2], s)
      half == digits \div 2
  IN  Shr(Round[digits \div 4], half) \cup Shl(Round[digits \div 4], half)

\* The other widths go through a table of reversed bytes, here of `byte` bits.
bit_reverse_bytes(x, byte) ==
  LET Reversed(b) == {byte - 1 - k : k \in b}
      Byte(i)     == Shr(x, i * byte) \cap (0 .. byte - 1)
  IN  UNION {Shl(Reversed(Byte(i)), (digits \div byte - 1 - i) * byte) : i \in 0 .. digits \div byte - 1}

bit_reverse_low(x, width) ==
  IF width = 0 THEN {} ELSE IF width >= digits THEN bit_reverse(x) ELSE Shr(bit_reverse(x), digits - width)

\* byteswap: each byte is masked out and shifted to its mirrored place.
byte_reverse(x, byte) ==
  LET last == digits \div byte - 1
      Moved(i) == LET b == x \cap (i * byte .. (i + 1) * byte - 1)
                  IN  IF last - i >= i THEN Shl(b, (last - 2 * i) * byte) ELSE Shr(b, (2 * i - last) * byte)
  IN  UNION {Moved(i) : i \in 0 .. last}

\* Objects that are no word of 1, 2, 4 or 8 bytes are reversed as arrays; this machine is little-endian.
bytes_of(x, byte) == [i \in 1 .. digits \div byte |-> Shr(x, (i - 1) * byte) \cap (0 .. byte - 1)]
OfBytes(bytes, byte) == UNION {Shl(bytes[i], (i - 1) * byte) : i \in DOMAIN bytes}
byteswap(x, byte) ==
  LET count == digits \div byte
  IN  IF count \in {1, 2, 4, 8} THEN byte_reverse(x, byte)
      ELSE OfBytes([i \in 1 .. count |-> bytes_of(x, byte)[count + 1 - i]], byte)
to_little_endian(x, byte)   == x
from_little_endian(x, byte) == to_little_endian(x, byte)
to_big_endian(x, byte)      == byteswap(x, byte)
from_big_endian(x, byte)    == to_big_endian(x, byte)

\* Consecutive fields from bit 0 up, given their widths.
split_offset(I, W) == LET Sum[i \in 0 .. Len(W)] == IF i = 0 THEN 0 ELSE Sum[i - 1] + W[i] IN Sum[I - 1]
bit_split(x, W) == [I \in DOMAIN W |-> extract_bits(x, split_offset(I, W), split_offset(I, W) + W[I] - 1)]

\* A named section of a word: what reads it, and the word after it is assigned to.
get(x, f)        == extract_bits(x, f.lo, f.hi)
set(x, f, value) == insert_bits(x, f.lo, f.hi, value)
assign(x, f, g)  == set(x, f, get(x, g))
bit_field(lo, hi)    == [lo |-> lo, hi |-> hi]
split_field(I, W)    == bit_field(split_offset(I, W), split_offset(I, W) + W[I] - 1)

\* Bitwise operations on values without an integer type of their size go byte by byte.
bit_zip(a, b, byte, op) ==
  UNION {LET x == a \cap (i * byte .. (i + 1) * byte - 1)
             y == b \cap (i * byte .. (i + 1) * byte - 1)
         IN  CASE op = "&" -> x \cap y [] op = "|" -> x \cup y [] op = "^" -> (x \cup y) \ (x \cap y) :
         i \in 0 .. digits \div byte - 1}
bit_and(a, b, byte) == bit_zip(a, b, byte, "&")
bit_or(a, b, byte)  == bit_zip(a, b, byte, "|")
bit_xor(a, b, byte) == bit_zip(a, b, byte, "^")
bit_not(a, byte) == UNION {(i * byte .. (i + 1) * byte - 1) \ a : i \in 0 .. digits \div byte - 1}

\* Each group of four digits is stored over the spaces the text is filled with, highest first.
to_binary(x, group) ==
  LET nibbles == (digits + 3) \div 4
      stride  == IF group THEN 5 ELSE 4
      filled  == [c \in 1 .. digits + (IF group THEN nibbles - 1 ELSE 0) |-> " "]
      Nibble(k) == Shr(x, (nibbles - 1 - k) * 4) \cap (0 .. 3)
  IN  [c \in DOMAIN filled |-> LET k == (c - 1) \div stride b == (c - 1) % stride
                               IN  IF b = 4 THEN filled[c] ELSE IF 3 - b \in Nibble(k) THEN "1" ELSE "0"]

-----------------------------------------------------------------------------
\* Fields of a word read, replace and rearrange exactly the bits they name, whatever lo and hi:
\* an inserted value reads back and leaves every other bit alone, rotations by any amount undo
\* each other, both ways of reversing bits mirror them, split fields cover the word once and take assignments
\* of their own, and the text holds every digit.
WordAgrees(x, lo, hi, v) ==
  LET y == insert_bits(x, lo, hi, v)
      w == hi - lo + 1
  IN  /\ \A i \in 0 .. digits : /\ bit(y, i) = IF ~OutOfRange(lo, hi) /\ i \in lo .. hi THEN i - lo \in v ELSE i \in x
                                /\ toggle_bit(toggle_bit(x, i), i) = x
                                /\ i \in Bits => set_bit(toggle_bit(x, i), i, bit(x, i)) = x
      /\ ~OutOfRange(lo, hi) => extract_bits(y, lo, hi) = v \cap (0 .. w - 1)
      /\ rotl(x, lo - hi) = {(b + lo - hi) % digits : b \in x} /\ rotr(rotl(x, lo - hi), lo - hi) = x
      /\ bit_reverse(x) = {digits - 1 - b : b \in x}
      /\ bit_reverse_bytes(x, digits \div 2) = bit_reverse(x)
      /\ bit_reverse_low(x, lo) = {lo - 1 - b : b \in x \cap (0 .. lo - 1)} \/ lo > digits
      /\ \A byte \in {digits \div 2, digits \div 4} :
           byte_reverse(x, byte) = {b + (digits - byte) - 2 * byte * (b \div byte) : b \in x}
      /\ bit_not(bit_and(x, y, digits \div 4), digits \div 4)
           = bit_or(bit_not(x, digits \div 2), bit_not(y, digits \div 2), digits \div 2)
      /\ bit_xor(x, y, digits \div 4) = bit_or(x \ y, y \ x, digits \div 2)
      /\ popcount(y) = popcount(x) - popcount(get(x, bit_field(lo, hi))) + popcount(get(y, bit_field(lo, hi)))
      /\ has_single_bit(x) <=> leading_zeros(x) + trailing_zeros(x) + 1 = digits
      /\ bit_width(x) + leading_zeros(x) = count_zeros(x) + popcount(x) /\ (sign_bit(x) <=> bit_width(x) = digits)
      /\ \A g \in BOOLEAN : {digits - i : i \in {j \in 1 .. digits :
                             SelectSeq(to_binary(x, g), LAMBDA c : c # " ")[j] = "1"}} = x
      /\ to_binary(x, TRUE)[5] = " " /\ Len(to_binary(x, TRUE)) = digits + digits \div 4 - 1
      /\ lo > 0 /\ lo < digits =>
           LET W == <<lo, digits - lo>>
               f == bit_split(x, W)
               z == assign(x, split_field(1, W), split_field(2, W))
           IN  /\ x = f[1] \cup Shl(f[2], lo)
               /\ bit_split(z, W) = <<f[2] \cap (0 .. lo - 1), f[2]>>

\* Whichever way its bytes are reversed, an object in a fixed byte order has them in that order and comes back.
OrderAgrees(x, byte) ==
  LET n == digits \div byte
      y == to_big_endian(x, byte)
  IN  /\ from_big_endian(y, byte) = from_little_endian(to_little_endian(x, byte), byte)
      /\ bytes_of(y, byte) = [i \in 1 .. n |-> bytes_of(x, byte)[n + 1 - i]]
=============================================================================
