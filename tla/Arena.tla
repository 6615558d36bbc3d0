--------------------------------- MODULE Arena ---------------------------------
(***************************************************************************)
(* fp::Arena, a bump allocator over blocks, with the checkpoints mark and  *)
(* reset_to; with_arena_scope is a mark and the reset_to at its end.       *)
(*                                                                         *)
(* Addresses are offsets in a block; a block starts aligned.  The arena    *)
(* knows its blocks only.  What was handed out (live) and which marks the  *)
(* program still holds (marks) is what the program remembers.  Requests    *)
(* stay below half of the address space, as every object does, so the sums *)
(* of sizes do not wrap; alignments are powers of two, as those of types   *)
(* are, for which masking rounds up to a multiple.                         *)
(***************************************************************************)
EXTENDS Integers, Sequences

CONSTANTS alignment,  \* of the blocks, 64 in the code
          block_,     \* the size of an ordinary block
          Requests,   \* the pairs <<bytes, align>> that the program asks for
          MaxAllocs, MaxMarks, MaxBlocks   \* bounds of the instance

VARIABLES blocks,  \* sequence of [size, used]
          live,    \* the allocations the program may still use, oldest first
          marks    \* the marks it holds, oldest first: [mark, live]

vars == <<blocks, live, marks>>

\* The bytes used in the first k blocks of s.
UpTo(s) == LET total[k \in 0 .. Len(s)] == IF k = 0 THEN 0 ELSE total[k - 1] + s[k].used IN total

used == UpTo(blocks)[Len(blocks)]

RoundUp(off, align) == ((off + align - 1) \div align) * align
Clamped(align) == IF align > alignment THEN alignment ELSE IF align = 0 THEN 1 ELSE align

Offset(b, align) == RoundUp(b.used, align)
\* Mutant: the padding before an aligned address is not counted.
fitsUnpadded(b, align, bytes) == b.used + bytes <= b.size

fits(b, align, bytes) == Offset(b, align) + bytes <= b.size

NewBlock(align, bytes) ==
  [size |-> IF bytes + align > block_ THEN bytes + align ELSE block_, used |-> 0]

Init == blocks = <<>> /\ live = <<>> /\ marks = <<>>

\* alloc, alloc_bytes, alloc_span, make: only the last block is looked at.
Alloc(bytes, wanted) ==
  LET align == Clamped(wanted)
      grown == IF blocks # <<>> /\ fits(blocks[Len(blocks)], align, bytes) THEN blocks
               ELSE Append(blocks, NewBlock(align, bytes))
      off   == Offset(grown[Len(grown)], align)
  IN  /\ Len(live) < MaxAllocs /\ Len(grown) <= MaxBlocks
      /\ blocks' = [grown EXCEPT ![Len(grown)].used = off + bytes]
      /\ live' = Append(live, [block |-> Len(grown), from |-> off, to |-> off + bytes, align |-> align])
      /\ UNCHANGED marks

Mark == /\ Len(marks) < MaxMarks
        /\ marks' = Append(marks, [mark |-> used, live |-> live])
        /\ UNCHANGED <<blocks, live>>

Least(a, b) == IF a < b THEN a ELSE b

\* From the last block to the first, what exceeds the mark is taken off: the bytes still to take
\* once the blocks from i on are done.
Excess(s, mark) ==
  LET after[i \in 1 .. Len(s) + 1] ==
        IF i = Len(s) + 1 THEN UpTo(s)[Len(s)] - mark ELSE after[i + 1] - Least(after[i + 1], s[i].used)
  IN  after

Rewound(mark) ==
  IF used <= mark THEN blocks
  ELSE [i \in DOMAIN blocks |-> [blocks[i] EXCEPT !.used = @ - Least(Excess(blocks, mark)[i + 1], @)]]

\* Back to the mark at i: the marks taken since are gone, and what was allocated since.
ResetTo(i) == /\ blocks' = Rewound(marks[i].mark)
              /\ live' = marks[i].live
              /\ marks' = SubSeq(marks, 1, i)

\* A scope that ends gives up its mark and keeps what was allocated.
Forget == marks # <<>> /\ marks' = SubSeq(marks, 1, Len(marks) - 1) /\ UNCHANGED <<blocks, live>>

\* Everything at once, from the outermost scope.
Reset == /\ blocks' = [i \in DOMAIN blocks |-> [blocks[i] EXCEPT !.used = 0]]
         /\ live' = <<>> /\ marks' = <<>>

Next == \/ \E r \in Requests : Alloc(r[1], r[2])
        \/ Mark \/ Forget \/ Reset
        \/ \E i \in DOMAIN marks : ResetTo(i)

Spec == Init /\ [][Next]_vars

-----------------------------------------------------------------------------
Disjoint(p, q) == p.block # q.block \/ p.to <= q.from \/ q.to <= p.from

\* Whatever sequence of allocations, nested checkpoints and resets comes before: the memory the
\* program may use is aligned, inside its block, below what the block counts as used, and no two
\* allocations overlap; so an allocation stays valid until a reset to a mark from before it.
LiveDisjoint ==
  /\ \A i \in DOMAIN live :
       LET p == live[i] IN /\ p.block \in DOMAIN blocks
                           /\ p.to <= blocks[p.block].used /\ blocks[p.block].used <= blocks[p.block].size
                           /\ p.from % p.align = 0
  /\ \A i, j \in DOMAIN live : i < j => Disjoint(live[i], live[j])
  /\ \A i \in DOMAIN marks : marks[i].mark <= used
==============================================================================
