----------------------------- MODULE BitStreams -----------------------------
(***************************************************************************)
(* basic_bit_writer and basic_bit_reader of bits.hpp.  The writer packs    *)
(* fields into bytes from the bottom up ("lsb") or from the top down       *)
(* ("msb"), and a field may be given in the other order than the stream's. *)
(* Bytes and values are numbers.                                           *)
(***************************************************************************)
EXTENDS Integers, Sequences

CONSTANTS Byte,      \* bits of a byte
          Order,     \* the order of the stream
          Fields,    \* the fields and sections written: [order, value, bits]
          Most,      \* the bits one read or write handles
          MaxWrites  \* bound: how many

VARIABLES bytes_, bits_,
          written    \* what was written, paddings of align_to_byte included

Least(a, b) == IF a <= b THEN a ELSE b
Low(v, n)   == v % 2 ^ n
Bit(v, i)   == (v \div 2 ^ i) % 2
Last        == Len(bytes_)

\* bit_reverse(value, bits): see BitWords for how it gets there.
bit_reverse(v, n) == LET R[k \in 0 .. n] == IF k = 0 THEN 0 ELSE 2 * R[k - 1] + Bit(v, k - 1) IN R[n]

Stream(order, v, n) == IF order = Order THEN Low(v, n) ELSE bit_reverse(Low(v, n), n)

\* First the rest of the last byte, then whole bytes, then a new byte for what is left; OR-ing
\* into free bits adds.
RECURSIVE PushLsb(_, _, _)
PushLsb(bytes, v, n) == IF n = 0 THEN bytes
                        ELSE PushLsb(Append(bytes, Low(v, Least(n, Byte))), v \div 2 ^ Least(n, Byte), n - Least(n, Byte))
WriteLsb(bytes, bits, v, n) ==
  LET pos  == bits % Byte
      take == IF pos = 0 THEN 0 ELSE Least(n, Byte - pos)
      back == IF take = 0 THEN bytes ELSE [bytes EXCEPT ![Len(bytes)] = @ + Low(v, take) * 2 ^ pos]
  IN  PushLsb(back, v \div 2 ^ take, n - take)

RECURSIVE PushMsb(_, _, _)
PushMsb(bytes, v, n) ==
  IF n = 0 THEN bytes
  ELSE IF n >= Byte THEN PushMsb(Append(bytes, Low(v \div 2 ^ (n - Byte), Byte)), v, n - Byte)
  ELSE Append(bytes, Low(v, n) * 2 ^ (Byte - n))

WriteMsb(bytes, bits, v, n) ==
  LET used == bits % Byte
      take == IF used = 0 THEN 0 ELSE Least(n, Byte - used)
      back == IF take = 0 THEN bytes
              ELSE [bytes EXCEPT ![Len(bytes)] = @ + Low(v \div 2 ^ (n - take), take) * 2 ^ (Byte - used - take)]
  IN  PushMsb(back, v, n - take)

Write(bytes, bits, v, n) == IF Order = "lsb" THEN WriteLsb(bytes, bits, v, n) ELSE WriteMsb(bytes, bits, v, n)

\* write(section): piece by piece, the first bit of a piece in bit 0.
RECURSIVE WriteSection(_, _, _, _)
WriteSection(bytes, bits, v, n) ==
  LET piece == Least(Most, n)
  IN  IF n = 0 THEN bytes
      ELSE WriteSection(Write(bytes, bits, Low(v, piece), piece), bits + piece, v \div 2 ^ piece, n - piece)

Written(f) == IF f.bits = 0 THEN bytes_
              ELSE IF f.order = "section" THEN WriteSection(bytes_, bits_, f.value, f.bits)
              ELSE Write(bytes_, bits_, Stream(f.order, f.value, f.bits), f.bits)

-----------------------------------------------------------------------------
Init == bytes_ = <<>> /\ bits_ = 0 /\ written = <<>>

\* write<order>(value, bits) and write(section); a field of no bits changes nothing.
Writes == /\ Len(written) < MaxWrites
          /\ \E f \in Fields :
               /\ bytes_' = Written(f)
               /\ bits_' = bits_ + f.bits
               /\ written' = Append(written, f)

\* align_to_byte(pad) writes single bits until the byte is full.
Aligns == /\ Len(written) < MaxWrites
          /\ \E pad \in 0 .. 1 :
               LET missing == (Byte - (bits_ % Byte)) % Byte
                   Padded[k \in 0 .. missing] == IF k = 0 THEN bytes_ ELSE Write(Padded[k - 1], bits_ + k - 1, pad, 1)
               IN  /\ bytes_' = Padded[missing]
                   /\ bits_' = bits_ + missing
                   /\ written' = Append(written, [order |-> Order, value |-> pad * (2 ^ missing - 1), bits |-> missing])

\* release() hands the bytes over and leaves the writer empty.
Releases == /\ written # <<>> /\ Len(written) < MaxWrites
            /\ bytes_' = <<>> /\ bits_' = 0 /\ written' = <<>>

Next == Writes \/ Aligns \/ Releases

-----------------------------------------------------------------------------
\* A reader bounded to the bits [first, past) of the bytes; pos_ counts from the first byte.
None == -1
remaining(past, pos) == past - pos
at_end(past, pos)    == remaining(past, pos) = 0
position(first, pos) == pos - first
reset(first)         == first

\* The section read of the lsb order, and the byte-wise one of the msb order.
read_lsb(pos, n) == LET V[k \in 0 .. n] == IF k = 0 THEN 0
                                           ELSE V[k - 1] + Bit(bytes_[(pos + k - 1) \div Byte + 1], (pos + k - 1) % Byte) * 2 ^ (k - 1)
                    IN  V[n]
RECURSIVE read_msb(_, _, _)
read_msb(pos, n, out) ==
  IF n = 0 THEN out
  ELSE LET off  == pos % Byte
           take == Least(n, Byte - off)
           chunk == Low(bytes_[pos \div Byte + 1] \div 2 ^ (Byte - off - take), take)
       IN  read_msb(pos + take, n - take, out * 2 ^ take + chunk)
read_raw(pos, n) == IF Order = "lsb" THEN read_lsb(pos, n) ELSE read_msb(pos, n, 0)

\* read and peek refuse what the section does not hold and more than a word, and then pos_ stays;
\* peek never moves.
read(past, pos, order, n) == IF n > Most \/ remaining(past, pos) < n THEN [value |-> None, pos |-> pos]
                             ELSE [value |-> Stream(order, read_raw(pos, n), n), pos |-> pos + n]
peek(past, pos, order, n) == [read(past, pos, order, n) EXCEPT !.pos = pos]
read_bit(past, pos) == IF at_end(past, pos) THEN [value |-> None, pos |-> pos] ELSE [value |-> read_raw(pos, 1), pos |-> pos + 1]
\* A view of the next bits; it stays where it is when the reader goes on.
peek_bits(past, pos, n) == IF n = 0 THEN [first |-> 0, past |-> 0]
                           ELSE IF remaining(past, pos) < n THEN [first |-> None, past |-> None]
                           ELSE [first |-> pos, past |-> pos + n]
\* read_into fills a section piece by piece; skip only moves.
read_raw_checked(past, pos, n) == IF remaining(past, pos) < n THEN [value |-> None, pos |-> pos]
                                  ELSE [value |-> read_raw(pos, n), pos |-> pos + n]
RECURSIVE Pieces(_, _, _)
Pieces(past, pos, n) ==
  LET piece == Least(Most, n)
      r     == read_raw_checked(past, pos, piece)
      rest  == Pieces(past, r.pos, n - piece)
  IN  IF n = 0 THEN [value |-> 0, pos |-> pos]
      ELSE IF r.value = None THEN r
      ELSE [value |-> r.value + 2 ^ piece * rest.value, pos |-> rest.pos]
read_into(past, pos, n) == IF remaining(past, pos) < n THEN [value |-> None, pos |-> pos] ELSE Pieces(past, pos, n)
skip(past, pos, n) == IF remaining(past, pos) < n THEN pos ELSE pos + n
\* align_to_byte goes to the next byte boundary of the storage.
align(past, pos) == LET pad == (Byte - (pos % Byte)) % Byte
                    IN  IF remaining(past, pos) < pad THEN pos ELSE pos + pad

-----------------------------------------------------------------------------
Start(k) == LET Sum[i \in 0 .. k] == IF i = 0 THEN 0 ELSE Sum[i - 1] + written[i].bits IN Sum[k - 1]

\* The bits of a field one after the other, and a reader over them alone that starts again.
RECURSIVE BitByBit(_, _)
BitByBit(past, pos) == IF read_bit(past, pos).value = None THEN <<>>
                       ELSE <<read_bit(past, pos).value>> \o BitByBit(past, read_bit(past, pos).pos)
ReaderAgrees(first, past, order, n) ==
  LET r == read(past, first, order, n)
  IN  /\ peek(past, first, order, n) = [r EXCEPT !.pos = first] /\ reset(first) = first
      /\ at_end(past, r.pos) <=> r.value # None \/ n = 0
      /\ position(first, r.pos) + remaining(past, r.pos) = past - first
      /\ n > 0 => peek_bits(past, first, n) = [first |-> first, past |-> past] /\ peek_bits(past, first, n + 1).first = None
      /\ Len(BitByBit(past, first)) = past - first
      /\ \A i \in 1 .. past - first :
           BitByBit(past, first)[i] = IF Order = "lsb" THEN Bit(read_raw(first, n), i - 1) ELSE Bit(read_raw(first, n), n - i)

\* Whatever mixture of fields, sections, orders and alignments was written, the k-th read gives the
\* k-th of them back, the byte count fits, free bits of the last byte are zero, a reader bounded to
\* the end of a field refuses to go past it and gives its bits one by one as it gives them at once, and aligning skips exactly what aligning padded.
ReadsBack ==
  /\ Last = (bits_ + Byte - 1) \div Byte
  /\ \A i \in 1 .. Last : bytes_[i] < 2 ^ Byte
  /\ bits_ % Byte # 0 => IF Order = "lsb" THEN bytes_[Last] < 2 ^ (bits_ % Byte)
                         ELSE bytes_[Last] % 2 ^ (Byte - (bits_ % Byte)) = 0
  /\ \A k \in DOMAIN written :
       LET f == written[k]
           past == Start(k) + f.bits
           Read(n) == IF f.order = "section" THEN read_into(past, Start(k), n) ELSE read(past, Start(k), f.order, n)
       IN  /\ f.bits <= Most => ReaderAgrees(Start(k), past, f.order, f.bits)
           /\ Read(f.bits) = [value |-> Low(f.value, f.bits), pos |-> past]
           /\ Read(f.bits + 1) = [value |-> None, pos |-> Start(k)]
           /\ skip(past, Start(k), f.bits) = past /\ skip(past, Start(k), f.bits + 1) = Start(k)
           /\ align(Last * Byte, past) = Byte * ((past + Byte - 1) \div Byte)
           /\ align(past, past) = past
=============================================================================
