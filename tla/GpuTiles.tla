------------------------------ MODULE GpuTiles ------------------------------
(***************************************************************************)
(* The tiled kernels of gpu.hpp: transpose, batched_matmul and             *)
(* softmax_rows_wg.  The work-items of a group run the same instructions,  *)
(* share local memory, and meet at barriers only; between barriers they    *)
(* run in any order.  Groups share no local memory and store different     *)
(* elements: they run one after the other here.  Elements are pairs, a     *)
(* number x being <<x, 1>> and the quotients of softmax <<e, sum>>.        *)
(***************************************************************************)
EXTENDS Integers, Sequences, SequencesExt, FiniteSets

CONSTANTS Jobs,             \* what is launched: [op, a, b, batches, m, k, n]
          tile,             \* side of a group, 16 in the code
          work_group_size,  \* lanes of a softmax group, 256
          Exp, Junk

VARIABLES job, group,
          pc, reg,   \* of each work-item of the group
          local,     \* memory of the group, by array and place
          out

vars == <<job, group, pc, reg, local, out>>

NegInf == -1000
Padded(n) == ((n + tile - 1) \div tile) * tile

I(op) == [op |-> op, t |-> 0]
At(op, t) == [op |-> op, t |-> t]
\* Strides of the halving loop.
Strides == LET S[s \in 0 .. work_group_size] == IF s = 0 THEN <<>> ELSE <<s>> \o S[s \div 2] IN S[work_group_size \div 2]
Halving(op) == FlattenSeq([i \in DOMAIN Strides |-> <<At(op, Strides[i]), I("barrier")>>])

TransposeProgram == <<I("load"), I("barrier"), I("store")>>
\* Mutant: the tiles are loaded again without waiting for the work-items that still read them.
OneBarrier ==
  FlattenSeq([s \in 1 .. Padded(job.k) \div tile |->
                <<At("load_a", (s - 1) * tile), At("load_b", (s - 1) * tile), I("barrier")>>
                \o [kk \in 1 .. tile |-> At("multiply", kk - 1)]])
  \o <<I("store_c")>>
MatmulProgram ==
  FlattenSeq([s \in 1 .. Padded(job.k) \div tile |->
                <<At("load_a", (s - 1) * tile), At("load_b", (s - 1) * tile), I("barrier")>>
                \o [kk \in 1 .. tile |-> At("multiply", kk - 1)] \o <<I("barrier")>>])
  \o <<I("store_c")>>
SoftmaxProgram == <<I("load_row"), I("barrier")>> \o Halving("max") \o <<I("take_max"), I("barrier"), I("put_exp"), I("barrier")>>
                  \o Halving("sum") \o <<I("divide")>>
Program == CASE job.op = "transpose" -> TransposeProgram [] job.op = "matmul" -> MatmulProgram [] OTHER -> SoftmaxProgram

\* Groups in rows and columns of the launch, and the work-items of one.
Rows   == IF job.op = "softmax" THEN job.m ELSE (job.batches * Padded(job.m)) \div tile
Across == IF job.op = "softmax" THEN 1 ELSE Padded(job.n) \div tile
WorkItems == IF job.op = "softmax" THEN {<<lane, 0>> : lane \in 0 .. work_group_size - 1} ELSE (0 .. tile - 1) \X (0 .. tile - 1)
g0 == group \div Across
g1 == group % Across
Fresh == /\ pc = [i \in WorkItems |-> 1] /\ reg = [i \in WorkItems |-> 0]
         /\ local = [c \in {"a", "b"} \X WorkItems |-> Junk]

Init == /\ job \in Jobs /\ group = 0 /\ Fresh
        /\ out = IF job.op = "softmax" THEN job.a
                  ELSE [i \in 1 .. job.batches * job.m * job.n |-> <<IF job.op = "matmul" /\ job.k = 0 THEN 0 ELSE Junk, 1>>]

Instr(i) == Program[pc[i]]
Runs(i, op) == pc[i] <= Len(Program) /\ Instr(i).op = op /\ pc' = [pc EXCEPT ![i] = @ + 1] /\ UNCHANGED <<job, group>>
Sets(array, i, x) == local' = [local EXCEPT ![<<array, i>>] = x] /\ UNCHANGED <<reg, out>>
Keeps(i, x)       == reg' = [reg EXCEPT ![i] = x] /\ UNCHANGED <<local, out>>
Stores(fits, at, x) == out' = (IF fits THEN [out EXCEPT ![at + 1] = x] ELSE out) /\ UNCHANGED <<local, reg>>

\* A work-item passes a barrier when every one of its group has come to it.
Barrier(i) == Runs(i, "barrier") /\ (\A j \in WorkItems : pc[j] >= pc[i]) /\ UNCHANGED <<reg, local, out>>

\* transpose: a is job.m x job.n.
Load(i) == /\ Runs(i, "load")
           /\ LET r == g0 * tile + i[1] c == g1 * tile + i[2]
              IN  IF r < job.m /\ c < job.n THEN Sets("a", i, job.a[r * job.n + c + 1][1]) ELSE UNCHANGED <<reg, local, out>>
Store(i) == /\ Runs(i, "store")
            /\ LET orow == g1 * tile + i[1] ocol == g0 * tile + i[2]
               IN  Stores(orow < job.n /\ ocol < job.m, orow * job.m + ocol, <<local[<<"a", <<i[2], i[1]>>>>], 1>>)

\* batched_matmul: the rows of every batch are padded to whole tiles.
Batch  == (g0 * tile) \div Padded(job.m)
RowOf(i) == (g0 * tile + i[1]) % Padded(job.m)
ColOf(i) == g1 * tile + i[2]
LoadA(i) == /\ Runs(i, "load_a")
            /\ LET kc == Instr(i).t + i[2]
               IN  Sets("a", i, IF RowOf(i) < job.m /\ kc < job.k THEN job.a[Batch * job.m * job.k + RowOf(i) * job.k + kc + 1][1] ELSE 0)
LoadB(i) == /\ Runs(i, "load_b")
            /\ LET kr == Instr(i).t + i[1]
               IN  Sets("b", i, IF kr < job.k /\ ColOf(i) < job.n THEN job.b[Batch * job.k * job.n + kr * job.n + ColOf(i) + 1][1] ELSE 0)
Multiply(i) == Runs(i, "multiply") /\ LET kk == Instr(i).t IN Keeps(i, reg[i] + local[<<"a", <<i[1], kk>>>>] * local[<<"b", <<kk, i[2]>>>>])
StoreC(i) == /\ Runs(i, "store_c")
             /\ Stores(RowOf(i) < job.m /\ ColOf(i) < job.n, Batch * job.m * job.n + RowOf(i) * job.n + ColOf(i), <<reg[i], 1>>)

\* softmax_rows_wg: the lanes reduce a row of job.n elements by halves.
Scratch(lane) == local[<<"a", <<lane, 0>>>>]
Cell(lane)    == g0 * job.n + lane
LoadRow(i) == Runs(i, "load_row") /\ Sets("a", i, IF i[1] < job.n THEN out[Cell(i[1]) + 1][1] ELSE NegInf)
HalveMax(i) == /\ Runs(i, "max")
               /\ LET s == Instr(i).t x == Scratch(i[1]) y == Scratch(i[1] + s)
                  IN  IF i[1] < s THEN Sets("a", i, IF x < y THEN y ELSE x) ELSE UNCHANGED <<reg, local, out>>
TakeMax(i) == Runs(i, "take_max") /\ Keeps(i, Scratch(0))
PutExp(i) == /\ Runs(i, "put_exp")
             /\ LET e == IF i[1] < job.n THEN Exp[out[Cell(i[1]) + 1][1] - reg[i]] ELSE 0
                IN  local' = [local EXCEPT ![<<"a", i>>] = e] /\ reg' = [reg EXCEPT ![i] = e] /\ UNCHANGED out
HalveSum(i) == /\ Runs(i, "sum")
               /\ LET s == Instr(i).t
                  IN  IF i[1] < s THEN Sets("a", i, Scratch(i[1]) + Scratch(i[1] + s)) ELSE UNCHANGED <<reg, local, out>>
Divide(i) == Runs(i, "divide") /\ Stores(i[1] < job.n /\ Scratch(0) > 0, Cell(i[1]), <<reg[i], Scratch(0)>>)

\* What is refused before a launch: other shapes than those of the buffers, and rows no group can hold.
Refused == CASE job.op = "softmax"   -> job.m * job.n # Len(job.a) \/ job.n > work_group_size
             [] job.op = "transpose" -> Len(job.a) # job.m * job.n
             [] job.op = "matmul"    -> Len(job.a) # job.batches * job.m * job.k \/ Len(job.b) # job.batches * job.k * job.n
\* There is nothing to launch for an empty output, nor for products of no terms, which are filled with zeros.
Launched == ~Refused /\ out # <<>> /\ (job.op = "matmul" => job.k > 0)
Finished == group = IF Launched THEN Rows * Across ELSE 0
NextGroup == /\ ~Finished /\ \A i \in WorkItems : pc[i] > Len(Program)
             /\ group' = group + 1
             /\ pc' = [i \in WorkItems |-> 1] /\ reg' = [i \in WorkItems |-> 0] /\ local' = [c \in DOMAIN local |-> Junk]
             /\ UNCHANGED <<job, out>>

Next == \/ ~Finished /\ \E i \in WorkItems : \/ Barrier(i) \/ Load(i) \/ Store(i) \/ LoadA(i) \/ LoadB(i) \/ Multiply(i) \/ StoreC(i)
                                         \/ LoadRow(i) \/ HalveMax(i) \/ TakeMax(i) \/ PutExp(i) \/ HalveSum(i) \/ Divide(i)
        \/ NextGroup

Spec == Init /\ [][Next]_vars

-----------------------------------------------------------------------------
\* Whatever the order of the work-items between barriers, the tiled kernels give what the kernels with
\* one work-item per output give: no element is missing, junk or half reduced.  They refuse no more than those,
\* but rows that are too long, and leave a refused buffer as it was.
TilesExact ==
  LET K == INSTANCE GpuKernels
      Numbers(v) == [i \in DOMAIN v |-> v[i][1]]
      answer == CASE job.op = "softmax"   -> K!softmax_rows(TRUE, Numbers(job.a), job.m, job.n)
                  [] job.op = "transpose" -> K!transpose(TRUE, Numbers(job.a), job.m, job.n)
                  [] job.op = "matmul"    -> K!batched_matmul(TRUE, Numbers(job.a), Numbers(job.b), job.batches, job.m, job.k, job.n)
  IN  Finished => CASE Refused -> /\ answer.ok => job.op = "softmax" /\ job.n > work_group_size
                                  /\ job.op = "softmax" => out = job.a
                    [] ~Refused /\ job.op = "softmax" -> answer.ok /\ out = answer.out
                    [] OTHER -> answer.ok /\ Numbers(out) = answer.out
=============================================================================
