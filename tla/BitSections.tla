----------------------------- MODULE BitSections -----------------------------
(***************************************************************************)
(* basic_bit_span of bits.hpp: a view of size bits from bit offset on of   *)
(* some bytes.  The bytes are the set of their bits that are one.  Reads   *)
(* and writes of up to a word take one load of 8, 4, 2 or 1 bytes when one *)
(* fits, or go byte by byte; everything longer goes word by word.          *)
(***************************************************************************)
EXTENDS Integers, FiniteSets, Sequences

CONSTANTS Byte,       \* bits of a byte
          WordBytes,  \* bytes of the widest load
          Bytes       \* bytes of storage

Word    == WordBytes * Byte
total   == Bytes * Byte
Modulus == 2 ^ 16     \* bound: of size_t
Least(a, b) == IF a <= b THEN a ELSE b
Bound(x, n) == {b \in x : b < n}
Down(x, n) == {b - n : b \in {c \in x : c >= n}}
Up(x, n)   == {b + n : b \in x}
MaxOf(S)   == CHOOSE m \in S : \A s \in S : s <= m
MinOf(S)   == CHOOSE m \in S : \A s \in S : m <= s
None == -1

\* A view of bits [lo, hi], clamped to its storage.
clamp_to_storage(offset, size) == [offset |-> Least(offset, total), size |-> Least(size, total - Least(offset, total))]
Span(lo, hi) == clamp_to_storage(lo, (hi - lo + 1) % Modulus)
section(s, lo, hi) == Span(s.offset + lo, s.offset + hi)
split(s, at) == <<section(s, 0, at - 1), section(s, at, s.size - 1)>>

get_bit(x, s, i) == i < s.size /\ s.offset + i \in x
set_bit(x, s, i, value) == IF i >= s.size THEN x
                           ELSE IF value THEN x \cup {s.offset + i} ELSE x \ {s.offset + i}
toggle_bit(x, s, i) == IF i >= s.size THEN x
                       ELSE (x \ {s.offset + i}) \cup ({s.offset + i} \ x)
\* What operator[] assigns through; it knows the storage and not the section.
assign(x, s, i, value) == IF s.offset + i >= total THEN x
                          ELSE IF value THEN x \cup {s.offset + i} ELSE x \ {s.offset + i}

flip_at(x, s, i) == IF s.offset + i >= total THEN x ELSE (x \ {s.offset + i}) \cup ({s.offset + i} \ x)
\* An iterator is a view with an index, and reads through operator[]; the end is at the size.
Deref(x, s, i) == s.offset + i < total /\ s.offset + i \in x
Iterated(x, s) == LET From[i \in 0 .. s.size] == IF i = s.size THEN <<>> ELSE <<Deref(x, s, i)>> \o From[i + 1] IN From[0]

\* The widest load that covers `need` bytes and stays in the storage, 0 for none.
load_size(first, need) ==
  LET fits == {n \in {1, 2, 4, 8} : n <= WordBytes /\ need <= n /\ first + n <= Bytes}
  IN  IF fits = {} THEN 0 ELSE MaxOf(fits)
load_word(x, first, n)     == Bound(Down(x, first * Byte), n * Byte)
store_word(x, first, n, w) == {b \in x : b \div Byte \notin first .. first + n - 1}
                              \cup Up(Bound(w, n * Byte), first * Byte)

\* A word read from any byte on; bytes past the end are zero.
word_at(x, first) == IF first >= Bytes THEN {}
                     ELSE IF first + WordBytes <= Bytes THEN load_word(x, first, WordBytes)
                     ELSE UNION {Up(load_word(x, first + i, 1), i * Byte) : i \in {j \in 0 .. WordBytes - 1 : first + j < Bytes}}

Need(start, count) == ((start % Byte) + count + Byte - 1) \div Byte

RECURSIVE Gather(_, _, _, _)
Gather(x, pos, filled, count) ==
  IF filled >= count \/ pos \div Byte >= Bytes THEN {}
  ELSE LET off  == pos % Byte
           take == Least(count - filled, Byte - off)
           byte == load_word(x, pos \div Byte, 1)
       IN  Up(Bound(Down(byte, off), take), filled) \cup Gather(x, pos + take, filled + take, count)

RECURSIVE Scatter(_, _, _, _, _)
Scatter(x, pos, value, filled, count) ==
  IF filled >= count \/ pos \div Byte >= Bytes THEN x
  ELSE LET off  == pos % Byte
           take == Least(count - filled, Byte - off)
           byte == load_word(x, pos \div Byte, 1)
           merged == (byte \ Up(0 .. take - 1, off)) \cup Up(Bound(Down(value, filled), take), off)
       IN  Scatter(store_word(x, pos \div Byte, 1, merged), pos + take, value, filled + take, count)

read_at(x, s, bit, asked) ==
  LET count  == Least(asked, Word)
      start  == s.offset + bit
      loaded == load_size(start \div Byte, Need(start, count))
  IN  IF loaded # 0 THEN Bound(Down(load_word(x, start \div Byte, loaded), start % Byte), count)
      ELSE Gather(x, start, 0, count)

write_at(x, s, bit, value, asked) ==
  LET count  == Least(asked, Word)
      kept   == Bound(value, count)
      start  == s.offset + bit
      loaded == load_size(start \div Byte, Need(start, count))
      mask   == Up(0 .. count - 1, start % Byte)
      word   == load_word(x, start \div Byte, loaded)
  IN  IF loaded # 0 THEN store_word(x, start \div Byte, loaded, (word \ mask) \cup (Up(kept, start % Byte) \cap mask))
      ELSE Scatter(x, start, kept, 0, count)

size_bytes(s) == (s.size + Byte - 1) \div Byte
read(x, s) == read_at(x, s, 0, s.size)
write(x, s, value) == write_at(x, s, 0, value, s.size)

\* Where the loops over a whole section start, and how far each step goes.
Steps(s) == {k * Word : k \in {j \in 0 .. total : j * Word < s.size}}
Chunk(s, done) == Least(Word, s.size - done)

\* The bits of byte i that fill and flip touch.
Touched(s, i) ==
  LET used == (s.offset + s.size) % Byte
      low  == IF i = s.offset \div Byte THEN s.offset % Byte ELSE 0
      high == IF i = (s.offset + s.size - 1) \div Byte /\ used # 0 THEN used ELSE Byte
  IN  Up(low .. high - 1, i * Byte)
TouchedBits(s) == IF s.size = 0 THEN {}
                  ELSE UNION {Touched(s, i) : i \in s.offset \div Byte .. (s.offset + s.size - 1) \div Byte}
fill(x, s, value) == IF value THEN x \cup TouchedBits(s) ELSE x \ TouchedBits(s)
flip(x, s) == (x \ TouchedBits(s)) \cup (TouchedBits(s) \ x)

RECURSIVE CountFrom(_, _, _)
CountFrom(x, s, done) == IF done >= s.size THEN 0
                         ELSE Cardinality(read_at(x, s, done, Chunk(s, done))) + CountFrom(x, s, done + Word)
popcount(x, s) == CountFrom(x, s, 0)

any(x, s)  == popcount(x, s) # 0
none(x, s) == popcount(x, s) = 0
all(x, s)  == popcount(x, s) = s.size

equal(x, s, o) == /\ s.size = o.size
                  /\ \A d \in Steps(s) : read_at(x, s, d, Chunk(s, d)) = read_at(x, o, d, Chunk(s, d))

RECURSIVE find_next_set(_, _, _)
find_next_set(x, s, from) ==
  IF from >= s.size THEN None
  ELSE LET word == read_at(x, s, from, Chunk(s, from))
       IN  IF word # {} THEN from + MinOf(word) ELSE find_next_set(x, s, from + Chunk(s, from))

RECURSIVE find_next_clear(_, _, _)
find_next_clear(x, s, from) ==
  IF from >= s.size THEN None
  ELSE LET zeros == (0 .. Chunk(s, from) - 1) \ read_at(x, s, from, Chunk(s, from))
       IN  IF zeros # {} THEN from + MinOf(zeros) ELSE find_next_clear(x, s, from + Chunk(s, from))

RECURSIVE find_last_set(_, _, _)
find_last_set(x, s, end) ==
  IF end = 0 THEN None
  ELSE LET start == IF end >= Word THEN end - Word ELSE 0
           word  == read_at(x, s, start, end - start)
       IN  IF word # {} THEN start + MaxOf(word) ELSE find_last_set(x, s, start)

RECURSIVE Forward(_, _, _, _)
Forward(x, s, src, done) ==
  IF done >= s.size THEN x
  ELSE LET n == Chunk(s, done) IN Forward(write_at(x, s, done, read_at(x, src, done, n), n), s, src, done + n)

RECURSIVE Backward(_, _, _, _)
Backward(x, s, src, remaining) ==
  IF remaining = 0 THEN x
  ELSE LET n  == Least(Word, remaining)
           at == remaining - n
       IN  Backward(write_at(x, s, at, read_at(x, src, at, n), n), s, src, at)

find_first_set(x, s)   == find_next_set(x, s, 0)
find_first_clear(x, s) == find_next_clear(x, s, 0)

\* overlaps compares bytes, starts_before compares bytes and then bits.
first_byte(s) == s.offset \div Byte
last_byte(s)  == (s.offset + s.size - 1) \div Byte
overlaps(s, o) == /\ s.size # 0 /\ o.size # 0
                  /\ last_byte(s) >= first_byte(o) /\ last_byte(o) >= first_byte(s)
starts_before(s, o) == \/ first_byte(s) < first_byte(o)
                       \/ first_byte(s) = first_byte(o) /\ s.offset % Byte < o.offset % Byte

\* Mutant: two views that start in the same byte are taken to start together.
copy_from_by_byte(x, s, src) ==
  IF ~overlaps(s, src) \/ s.offset \div Byte <= src.offset \div Byte THEN Forward(x, s, src, 0)
  ELSE Backward(x, s, src, s.size)

copy_from(x, s, src) == IF ~overlaps(s, src) \/ starts_before(s, src) THEN Forward(x, s, src, 0)
                        ELSE Backward(x, s, src, s.size)

\* Highest bit first: a leading partial nibble, then as many nibbles as a word holds at a time.
Nibble == 4
Text(word, n, at, group) ==
  LET One(k) == IF k - 1 \in word THEN "1" ELSE "0"
      Rest[k \in 0 .. n] == IF k = 0 THEN <<>>
                            ELSE <<One(k)>> \o (IF group /\ (k - 1) % Nibble = 0 /\ (k > 1 \/ at > 0) THEN <<" ">> ELSE <<>>)
                                 \o Rest[k - 1]
  IN  Rest[n]
RECURSIVE Batches(_, _, _, _)
Batches(x, s, top, group) ==
  IF top = 0 THEN <<>>
  ELSE LET batch == Least(Word \div Nibble, top \div Nibble)
           at    == top - batch * Nibble
       IN  Text(read_at(x, s, at, batch * Nibble), batch * Nibble, at, group) \o Batches(x, s, at, group)
to_binary(x, s, group) ==
  LET lead == s.size % Nibble
      top  == s.size - lead
  IN  Text(read_at(x, s, top, lead), lead, top, group) \o Batches(x, s, top, group)

\* Two digits for each byte, the high half first; a digit is the set of its bits, no digit is the space.
Gap == {-1}
to_hex(x, group) ==
  LET Pair(i) == LET b == load_word(x, i, 1) IN <<Down(b, Byte \div 2), Bound(b, Byte \div 2)>>
      Out[i \in 0 .. Bytes] == IF i = Bytes THEN <<>>
                               ELSE Pair(i) \o (IF group /\ i + 1 < Bytes THEN <<Gap>> ELSE <<>>) \o Out[i + 1]
  IN  Out[0]

-----------------------------------------------------------------------------
\* What the bits of a section are, and the storage with those bits replaced.
Of(x, s) == {i \in 0 .. s.size - 1 : s.offset + i \in x}
With(x, s, v) == {b \in x : b < s.offset \/ b >= s.offset + s.size} \cup Up(Bound(v, s.size), s.offset)

\* A section reads and changes its own bits and no other bit of the storage, whichever path a read
\* or a write takes and however many words the section is long.
SectionAgrees(x, s, values) ==
  /\ \A lo \in 0 .. s.size - 1 : \A hi \in lo .. s.size - 1 :
       LET part == section(s, lo, hi)
       IN  hi - lo < Word => /\ read_at(x, s, lo, hi - lo + 1) = Of(x, part)
                             /\ \A v \in values : write_at(x, s, lo, v, hi - lo + 1) = With(x, part, v)
  /\ fill(x, s, TRUE) = With(x, s, 0 .. s.size - 1) /\ fill(x, s, FALSE) = With(x, s, {})
  /\ flip(x, s) = With(x, s, (0 .. s.size - 1) \ Of(x, s))
  /\ popcount(x, s) = Cardinality(Of(x, s))
  /\ none(x, s) = (find_first_set(x, s) = None) /\ any(x, s) = (find_last_set(x, s, s.size) # None)
  /\ all(x, s) = (find_first_clear(x, s) = None)
  /\ s.size <= Word => /\ read(x, s) = Of(x, s) /\ read(write(x, s, read(flip(x, s), s)), s) = read(flip(x, s), s)
                       /\ \A i \in 0 .. size_bytes(s) : i * Byte < s.size \/ i = size_bytes(s)
  /\ \A i \in 0 .. s.size - 1 : Iterated(x, s)[i + 1] = get_bit(x, s, i)
  /\ find_last_set(x, s, s.size) = IF Of(x, s) = {} THEN None ELSE MaxOf(Of(x, s))
  /\ \A from \in 0 .. s.size :
       LET ones == {i \in Of(x, s) : i >= from} zeros == (from .. s.size - 1) \ Of(x, s)
       IN  /\ find_next_set(x, s, from) = IF ones = {} THEN None ELSE MinOf(ones)
           /\ find_next_clear(x, s, from) = IF zeros = {} THEN None ELSE MinOf(zeros)

\* A copy between two sections of the same storage gives the target what the source held before it,
\* however the two overlap.
CopyAgrees(x, s) ==
  \A start \in 0 .. total - s.size :
    LET src == [s EXCEPT !.offset = start]
    IN  /\ copy_from(x, s, src) = With(x, s, Of(x, src))
        /\ equal(x, s, src) <=> Of(x, s) = Of(x, src)

\* The text has one digit for each bit, highest first, and a space before each full nibble but the first;
\* the hex dump holds every byte once, and a word from any byte on holds what is left of the storage.
TextAgrees(x, s) ==
  LET Digits[k \in 0 .. s.size] ==
        IF k = 0 THEN <<>>
        ELSE <<IF k - 1 \in Of(x, s) THEN "1" ELSE "0">> \o (IF k > 1 /\ k % Nibble = 1 THEN <<" ">> ELSE <<>>) \o Digits[k - 1]
  IN  /\ to_binary(x, s, TRUE) = Digits[s.size]
      /\ to_binary(x, s, FALSE) = SelectSeq(Digits[s.size], LAMBDA c : c # " ")
      /\ UNION {Up(to_hex(x, FALSE)[k + 1], (k + 1 - 2 * (k % 2)) * (Byte \div 2)) : k \in 0 .. 2 * Bytes - 1} = x
      /\ Len(to_hex(x, TRUE)) = 3 * Bytes - 1 /\ SelectSeq(to_hex(x, TRUE), LAMBDA d : d # Gap) = to_hex(x, FALSE)
      /\ \A first \in 0 .. Bytes : word_at(x, first) = Bound(Down(x, first * Byte), Word)

\* Whatever lo and hi are given, a view stays in its storage, and what a bit past its end reads or
\* writes through get_bit and set_bit is nothing.
ClampAgrees(x, lo, hi) ==
  LET s == Span(lo, hi)
  IN  /\ s.offset + s.size <= total
      /\ lo <= hi /\ hi < total => s = [offset |-> lo, size |-> hi - lo + 1]
      /\ \A i \in s.size .. total : ~get_bit(x, s, i) /\ set_bit(x, s, i, TRUE) = x /\ toggle_bit(x, s, i) = x
      /\ \A i \in 0 .. s.size - 1 : /\ get_bit(x, s, i) <=> i \in Of(x, s)
                                    /\ toggle_bit(x, s, i) = flip_at(x, s, i) /\ flip_at(x, s, i) = flip(x, section(s, i, i))
                                    /\ assign(x, s, i, ~get_bit(x, s, i)) = set_bit(x, s, i, ~get_bit(x, s, i))
      /\ \A at \in 1 .. s.size - 1 : Of(x, s) = Of(x, split(s, at)[1]) \cup Up(Of(x, split(s, at)[2]), at)
==============================================================================
