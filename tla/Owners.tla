--------------------------------- MODULE Owners ---------------------------------
(***************************************************************************)
(* The owning types of memory.hpp (Buffer, AlignedBuffer, Box, Shared) and *)
(* of gpu.hpp (HostBuffer, and Buffer on the device): a pointer with the   *)
(* size and the alignment that its block has to be given back with.  All   *)
(* but Shared are move-only and free what they hold when they are assigned *)
(* to, reset or destroyed.  An allocation may fail at any time; then the   *)
(* operation answers with an error and nothing has changed: no step.       *)
(***************************************************************************)
EXTENDS Naturals, Sequences, FiniteSets

CONSTANTS Owners,     \* places where an owner can live
          Families,   \* the types a behaviour handles: "buffer", "aligned", "box" or "gpu"
          Sizes, Alignments,
          Contents,   \* what the program puts into a block
          Junk,       \* what an uninitialised element holds
          SizeMax,    \* the largest size_t
          MaxBlocks   \* bound: blocks allocated

VARIABLES family,
          holds,    \* what each owner holds: its type, the block's number or 0, the size, and
                    \* the alignment of an AlignedBuffer or whether a device block is shared
          heap,     \* the blocks allocated and not freed
          raw,      \* the blocks that release() gave to the program
          misfreed, \* whether a block was freed twice, or not as it was allocated
          next_id,
          value     \* the elements that the program believes an owner to have

vars == <<family, holds, heap, raw, misfreed, next_id, value>>

Unborn == [type |-> "unborn", id |-> 0, size |-> 0, mode |-> 0]
Empty(type, mode) == [type |-> type, id |-> 0, size |-> 0, mode |-> mode]
Exists(o)  == holds[o] # Unborn
Is(o, type) == holds[o].type = type
Repeated(v, n) == [i \in 1 .. n |-> v]
Over(data, new) == new \o SubSeq(data, Len(new) + 1, Len(data))
Data(id) == IF id = 0 THEN <<>> ELSE (CHOOSE h \in heap : h.id = id).data
Least(a, b) == IF a <= b THEN a ELSE b

\* Sizes are rounded up to the alignment, so that a block of an aligned buffer is whole; the sum may wrap.
PowerOfTwo(a) == a # 0 /\ a \in {2^k : k \in 0 .. a}
Rounded(size, align) == (((size + align - 1) % (SizeMax + 1)) \div align) * align

\* free_memory, release, reset: an owner that holds nothing frees nothing, and a Shared only the last one.
Shares(o) == {p \in Owners \ {o} : Is(p, "shared") /\ holds[p].id = holds[o].id}
Freeing(o) ==
  LET b == holds[o]
      found == {h \in heap : h.id = b.id}
  IN  IF b.id = 0 \/ (b.type = "shared" /\ Shares(o) # {}) THEN UNCHANGED <<heap, misfreed>>
      ELSE /\ heap' = heap \ found
           /\ misfreed' = (misfreed \/ ~\E h \in found : h.size = b.size /\ h.mode = b.mode)

Init == /\ family \in Families
        /\ holds = [o \in Owners |-> Unborn]
        /\ heap = {} /\ raw = {} /\ misfreed = FALSE /\ next_id = 1
        /\ value = [o \in Owners |-> <<>>]

\* A new owner of a block with this data; no block for none.
Create(o, type, mode, data) ==
  /\ ~Exists(o)
  /\ value' = [value EXCEPT ![o] = data]
  /\ IF data = <<>>
     THEN holds' = [holds EXCEPT ![o] = Empty(type, IF type = "device" THEN 0 ELSE mode)] /\ UNCHANGED <<heap, next_id>>
     ELSE LET b == [id |-> next_id, size |-> Len(data), mode |-> mode]
          IN  /\ next_id <= MaxBlocks
              /\ holds' = [holds EXCEPT ![o] = [type |-> type, id |-> b.id, size |-> b.size, mode |-> mode]]
              /\ heap' = heap \cup {[id |-> b.id, size |-> b.size, mode |-> mode, data |-> data]}
              /\ next_id' = next_id + 1
  /\ UNCHANGED <<family, raw, misfreed>>

\* The elements of a block change; only owners that share it are to see that.
Seers(o) == {o} \cup IF Is(o, "shared") THEN Shares(o) ELSE {}
Store(o, data) == /\ heap' = {IF h.id = holds[o].id THEN [h EXCEPT !.data = data] ELSE h : h \in heap}
                  /\ value' = [p \in Owners |-> IF p \in Seers(o) THEN data ELSE value[p]]
                  /\ UNCHANGED <<family, holds, raw, misfreed, next_id>>
Seen(o) == Data(holds[o].id)

-----------------------------------------------------------------------------
\* What all of them share.
TypesOf(f) == CASE f = "buffer" -> {"buffer"} [] f = "aligned" -> {"aligned"} [] f = "box" -> {"box", "shared"}
                [] f = "gpu" -> {"host", "device"} [] OTHER -> {}
DefaultConstruct(o) == \E type \in TypesOf(family) : Create(o, type, 0, <<>>)

MovedFrom(p) == Empty(holds[p].type, 0)
Move(to, from) == /\ holds' = [holds EXCEPT ![to] = holds[from], ![from] = MovedFrom(from)]
                  /\ value' = [value EXCEPT ![to] = value[from], ![from] = <<>>]

MoveConstruct(o, p) == /\ ~Exists(o) /\ Exists(p)
                       /\ Move(o, p)
                       /\ UNCHANGED <<family, heap, raw, misfreed, next_id>>

\* Mutant: the other owner keeps its pointer.
MoveAssignCopies(o, p) == /\ Exists(o) /\ Is(p, holds[o].type)
                          /\ IF o = p THEN UNCHANGED <<holds, heap, misfreed, value>>
                                      ELSE /\ Freeing(o)
                                           /\ holds' = [holds EXCEPT ![o] = holds[p]]
                                           /\ value' = [value EXCEPT ![o] = value[p], ![p] = <<>>]
                          /\ UNCHANGED <<family, raw, next_id>>

MoveAssign(o, p) == /\ Exists(o) /\ Is(p, holds[o].type)
                    /\ IF o = p THEN UNCHANGED <<holds, heap, misfreed, value>>
                                ELSE Freeing(o) /\ Move(o, p)
                    /\ UNCHANGED <<family, raw, next_id>>

\* exchange(o, move(p)) into a new owner q: a self-assignment at the end when o is p.
Exchange(q, o, p) ==
  /\ ~Exists(q) /\ Exists(o) /\ Is(p, holds[o].type)
  /\ holds' = [holds EXCEPT ![q] = holds[o], ![p] = MovedFrom(p), ![o] = IF o = p THEN MovedFrom(o) ELSE holds[p]]
  /\ value' = [value EXCEPT ![q] = value[o], ![p] = <<>>, ![o] = IF o = p THEN <<>> ELSE value[p]]
  /\ UNCHANGED <<family, heap, raw, misfreed, next_id>>

Destroy(o) == /\ Exists(o)
              /\ Freeing(o)
              /\ holds' = [holds EXCEPT ![o] = Unborn]
              /\ value' = [value EXCEPT ![o] = <<>>]
              /\ UNCHANGED <<family, raw, next_id>>

\* Through operator[], operator*, the span, or data().
Write(o, i, v) == /\ i \in 1 .. holds[o].size
                  /\ Is(o, "device") => holds[o].mode = 1
                  /\ Store(o, [Seen(o) EXCEPT ![i] = v])

\* fill, and fill_bytes of the span.
Fill(o, v) == holds[o].size > 0 /\ Store(o, Repeated(v, holds[o].size))

\* with_buffer, with_ptr: the block is gone when they answer.
WithBuffer(n) == /\ n > 0 /\ next_id <= MaxBlocks
                 /\ next_id' = next_id + 1
                 /\ UNCHANGED <<family, holds, heap, raw, misfreed, value>>

\* release and adopt of Buffer, release and the constructor of Box.
Release(o) == /\ Exists(o) /\ holds[o].id # 0
              /\ raw' = raw \cup {[owner |-> holds[o], value |-> value[o]]}
              /\ holds' = [holds EXCEPT ![o] = MovedFrom(o)]
              /\ value' = [value EXCEPT ![o] = <<>>]
              /\ UNCHANGED <<family, heap, misfreed, next_id>>

Adopt(o, r) == /\ ~Exists(o) /\ r \in raw
               /\ raw' = raw \ {r}
               /\ holds' = [holds EXCEPT ![o] = r.owner]
               /\ value' = [value EXCEPT ![o] = r.value]
               /\ UNCHANGED <<family, heap, misfreed, next_id>>

-----------------------------------------------------------------------------
\* Buffer.
Alloc(o, n) == Create(o, "buffer", 0, Repeated(Junk, n))
Zeros(o, n) == Create(o, "buffer", 0, Repeated(0, n))
From(o, init) == Create(o, "buffer", 0, init)
CopyOf(o, p) == Exists(p) /\ Create(o, "buffer", 0, Seen(p))   \* copy_of, clone
Resized(o, p, n) ==
  /\ Exists(p)
  /\ Create(o, "buffer", 0, Over(Repeated(Junk, n), SubSeq(Seen(p), 1, Least(holds[p].size, n))))
\* copy_into refuses a target that is too small, copy_bytes must not be given one.
CopyInto(o, p) == Exists(o) /\ Exists(p) /\ holds[o].size >= holds[p].size /\ Store(o, Over(Seen(o), Seen(p)))

NewBuffer(o) == \/ \E n \in Sizes : Alloc(o, n) \/ Zeros(o, n) \/ WithBuffer(n)
                \/ \E init \in Contents : From(o, init)
                \/ Release(o) \/ \E r \in raw : Adopt(o, r)
BetweenBuffers(o, p) == CopyOf(o, p) \/ CopyInto(o, p) \/ \E n \in Sizes : Resized(o, p, n)

\* AlignedBuffer; the default alignment is the one of a clone of a moved-from buffer.
DefaultAlignment == 2
AllocAligned(o, n, align) == PowerOfTwo(align) /\ Create(o, "aligned", align, Repeated(Junk, Rounded(n, align)))
CloneAligned(o, p) ==
  Exists(p) /\ Create(o, "aligned", IF holds[p].mode = 0 THEN DefaultAlignment ELSE holds[p].mode, Seen(p))

\* Box and Shared.
Make(o, type, v) == Create(o, type, 0, <<v>>)   \* Box::make, make_shared
ResetTo(o, r) == /\ Is(o, "box") /\ r \in raw
                 /\ Freeing(o)
                 /\ raw' = raw \ {r}
                 /\ holds' = [holds EXCEPT ![o] = r.owner]
                 /\ value' = [value EXCEPT ![o] = r.value]
                 /\ UNCHANGED <<family, next_id>>
\* reset of a Box or a Shared, and a share() that fails: the block went with the Box that was moved in.
Reset(o) == /\ Is(o, "box") \/ Is(o, "shared")
            /\ Freeing(o)
            /\ holds' = [holds EXCEPT ![o] = MovedFrom(o)]
            /\ value' = [value EXCEPT ![o] = <<>>]
            /\ UNCHANGED <<family, raw, next_id>>
Share(o, p) == /\ ~Exists(o) /\ Is(p, "box")
               /\ holds' = [holds EXCEPT ![o] = [holds[p] EXCEPT !.type = "shared"], ![p] = MovedFrom(p)]
               /\ value' = [value EXCEPT ![o] = value[p], ![p] = <<>>]
               /\ UNCHANGED <<family, heap, raw, misfreed, next_id>>
CopyShared(o, p) == /\ ~Exists(o) /\ Is(p, "shared")
                    /\ holds' = [holds EXCEPT ![o] = holds[p]]
                    /\ value' = [value EXCEPT ![o] = value[p]]
                    /\ UNCHANGED <<family, heap, raw, misfreed, next_id>>
NewBox(o) == \/ \E v \in {x[1] : x \in Contents \ {<<>>}}, type \in {"box", "shared"} : Make(o, type, v)
             \/ (Is(o, "box") /\ Release(o)) \/ Reset(o)
             \/ \E r \in raw : Adopt(o, r) \/ ResetTo(o, r)

\* HostBuffer, and the Buffer of a device. A clone goes through the host and is not shared.
AllocDevice(o, n, shared) == Create(o, "device", shared, Repeated(Junk, n))
AllocHost(o, n) == Create(o, "host", 0, Repeated(Junk, n))
FromHost(o, data) == Create(o, "device", 0, data)
CloneDevice(o, p) == Is(p, "device") /\ FromHost(o, Seen(p))
ToHost(o, p) == /\ Is(o, "host") /\ Is(p, "device") /\ holds[o].size >= holds[p].size
                /\ Store(o, Over(Seen(o), Seen(p)))
CopyFrom(o, p) == /\ Is(o, "device") /\ Is(p, "host") /\ holds[p].size >= holds[o].size
                  /\ Store(o, SubSeq(Seen(p), 1, holds[o].size))
NewGpu(o) == \/ \E n \in Sizes : AllocHost(o, n) \/ \E shared \in {0, 1} : AllocDevice(o, n, shared)
             \/ \E data \in Contents : FromHost(o, data)

Next == \E o \in Owners :
          \/ DefaultConstruct(o) \/ Destroy(o) \/ \E i \in 1 .. holds[o].size : Write(o, i, 1)
          \/ (family # "box" /\ Fill(o, 0))
          \/ (family = "buffer" /\ NewBuffer(o))
          \/ (family = "aligned" /\ \E n \in Sizes, align \in Alignments : AllocAligned(o, n, align))
          \/ (family = "box" /\ NewBox(o))
          \/ (family = "gpu" /\ NewGpu(o))
          \/ \E p \in Owners : \/ MoveConstruct(o, p) \/ MoveAssign(o, p)
                              \/ \E q \in Owners : Exchange(q, o, p)
                              \/ (family = "buffer" /\ BetweenBuffers(o, p))
                              \/ (family = "aligned" /\ CloneAligned(o, p))
                              \/ (family = "box" /\ (Share(o, p) \/ CopyShared(o, p)))
                              \/ (family = "gpu" /\ (CloneDevice(o, p) \/ ToHost(o, p) \/ CopyFrom(o, p)))

Spec == Init /\ [][Next]_vars

-----------------------------------------------------------------------------
Holders(h) == {o \in Owners : holds[o].id = h.id}

\* Owners are values, whatever moves, exchanges, copies between host and device and assignments to oneself:
\* each has the elements the program put into it, though others with copies of them were written to; a block
\* that was not freed belongs to exactly one owner, to the program or to Shareds alone, and goes back once,
\* with the size and the alignment it was allocated with.
OwnedOnce ==
  /\ ~misfreed
  /\ \A h \in heap : /\ \/ Cardinality(Holders(h)) + Cardinality({r \in raw : r.owner.id = h.id}) = 1
                        \/ Holders(h) # {} /\ \A o \in Holders(h) : Is(o, "shared")
  /\ \A r \in raw : \E h \in heap : h.id = r.owner.id /\ h.data = r.value
  /\ \A o \in Owners : /\ holds[o].id # 0 => \E h \in heap : h.id = holds[o].id
                       /\ Seen(o) = value[o] /\ Len(value[o]) = holds[o].size
                       /\ Is(o, "aligned") /\ holds[o].mode # 0 => holds[o].size % holds[o].mode = 0
=============================================================================
