----------------------------- MODULE GpuKernels -----------------------------
(***************************************************************************)
(* The kernels of gpu.hpp that give every work-item its own output, beside *)
(* the loops that take their place without SYCL.  A buffer is a sequence;  *)
(* a shape that does not fit is an error.  Exp is the table of exp for     *)
(* differences to the largest element, and a quotient a pair.              *)
(***************************************************************************)
EXTENDS Integers, SequencesExt, FiniteSetsExt

CONSTANTS work_group_size, tile, Exp

Host  == INSTANCE Kernels WITH Chains <- 4, Tile <- tile, Lanes <- 1, SizeMax <- 0, Tiny <- <<0, 1>>, Top <- 0
Grids == INSTANCE Collections WITH Block <- tile

Failed  == [ok |-> FALSE, out |-> <<>>]
Done(v) == [ok |-> TRUE, out |-> v]

\* The indices a launch hands out: whole groups, of which the last is masked.
launched(n) == LET groups == (n + work_group_size - 1) \div work_group_size
               IN  {i \in 0 .. groups * work_group_size - 1 : i < n}
\* The elements that a work-item or a turn of the loop updates.
Touched(device, n) == IF device THEN {i + 1 : i \in launched(n)} ELSE 1 .. n
Updated(device, v, n, new) == Done([i \in DOMAIN v |-> IF i \in Touched(device, n) THEN new[i] ELSE v[i]])

map_to(device, dst, src, f) ==
  IF Len(dst) < Len(src) THEN Failed ELSE Updated(device, dst, Len(src), [i \in DOMAIN src |-> f[src[i]]])
transform_inplace(device, v, f) == Updated(device, v, Len(v), [i \in DOMAIN v |-> f[v[i]]])
transform_inplace_indexed(device, v, op) == Updated(device, v, Len(v), [i \in DOMAIN v |-> op[i - 1, v[i]]])
map(device, src, f) == IF device THEN map_to(TRUE, src, src, f) ELSE Done(Grids!map(src, f))
axpy_inplace(device, y, a, x) ==
  IF Len(y) < Len(x) THEN Failed ELSE Updated(device, y, Len(x), [i \in DOMAIN x |-> y[i] + a * x[i]])
zip_transform_inplace(device, a, b, op) ==
  IF Len(a) < Len(b) THEN Failed ELSE Updated(device, a, Len(b), [i \in DOMAIN b |-> op[a[i], b[i]]])
zip3_transform_inplace(device, a, b, c, op) ==
  LET n == Min({Len(b), Len(c)})
  IN  IF Len(a) < n THEN Failed ELSE Updated(device, a, n, [i \in 1 .. n |-> op[op[a[i], b[i]], c[i]]])

\* Moving a block between the device and staging memory that may be larger.
to_host(v, staging)   == IF Len(staging) < Len(v) THEN Failed ELSE Updated(FALSE, staging, Len(v), v)
copy_from(v, staging) == IF Len(staging) < Len(v) THEN Failed ELSE Done(SubSeq(staging, 1, Len(v)))

\* Rows and columns of a block of rows * cols elements.
Row(v, cols, r)  == SubSeq(v, r * cols + 1, (r + 1) * cols)
Plus(s)          == FoldLeft(LAMBDA x, y : x + y, 0, s)
row_sums(device, v, rows, cols) ==
  IF Len(v) # rows * cols THEN Failed ELSE Updated(device, [r \in 1 .. rows |-> 0], rows, [r \in 1 .. rows |-> Plus(Row(v, cols, r - 1))])
row_means(device, v, rows, cols) ==
  IF Len(v) # rows * cols \/ cols = 0 THEN Failed
  ELSE Updated(device, [r \in 1 .. rows |-> <<0, 0>>], rows, [r \in 1 .. rows |-> <<Plus(Row(v, cols, r - 1)), cols>>])
col_sums(device, v, rows, cols) ==
  IF Len(v) # rows * cols THEN Failed
  ELSE Updated(device, [c \in 1 .. cols |-> 0], cols, [c \in 1 .. cols |-> Plus([r \in 1 .. rows |-> v[(r - 1) * cols + c]])])
add_row_broadcast(device, v, rows, cols, bias) ==
  IF Len(v) # rows * cols \/ Len(bias) # cols THEN Failed
  ELSE IF device THEN Updated(TRUE, v, rows * cols, [i \in DOMAIN v |-> v[i] + bias[((i - 1) % cols) + 1]])
       ELSE Done(FlattenSeq([r \in 1 .. rows |-> [j \in 1 .. cols |-> Row(v, cols, r - 1)[j] + bias[j]]]))

\* Softmax of each row: a work-item starts from the first element, the loop from below all of them.
Softmax(row, m) == [j \in DOMAIN row |-> <<Exp[row[j] - m], Plus([k \in DOMAIN row |-> Exp[row[k] - m]])>>]
Largest(from, row) == FoldLeft(LAMBDA m, x : IF m < x THEN x ELSE m, from, row)
softmax_rows(device, v, rows, cols) ==
  IF rows * cols # Len(v) THEN Failed
  ELSE Done(FlattenSeq([r \in 1 .. rows |-> LET row == Row(v, cols, r - 1)
                                            IN  IF row = <<>> THEN <<>>
                                                ELSE Softmax(row, Largest(IF device THEN row[1] ELSE -1000, row))]))

\* A work-item per element stores it at its mirrored place; the loop goes through a grid.
transpose(device, v, rows, cols) ==
  LET Place(i) == (i % cols) * rows + i \div cols
      t == Grids!transpose([r \in 1 .. rows |-> Row(v, cols, r - 1)])
  IN  IF Len(v) # rows * cols THEN Failed
      ELSE IF rows = 0 \/ cols = 0 THEN Done(<<>>)
      ELSE IF device THEN Done([o \in 1 .. Len(v) |-> v[(CHOOSE i \in launched(Len(v)) : Place(i) = o - 1) + 1]])
           ELSE Done(FlattenSeq(t))

\* A work-item per element of the product; the loop copies each pair of matrices into grids.
matmul_host(a, b, m, k, n) ==
  LET g == Host!matmul([i \in 1 .. m |-> Row(a, k, i - 1)], [i \in 1 .. k |-> Row(b, n, i - 1)])
  IN  [c \in 1 .. m * n |-> g[(c - 1) \div n][(c - 1) % n]]
batched_matmul(device, a, b, batches, m, k, n) ==
  LET Element(index) ==
        LET batch == index \div (m * n)
            row   == (index % (m * n)) \div n
            col   == (index % (m * n)) % n
        IN  Plus([i \in 1 .. k |-> a[batch * m * k + row * k + i] * b[batch * k * n + (i - 1) * n + col + 1]])
  IN  IF Len(a) # batches * m * k \/ Len(b) # batches * k * n THEN Failed
      ELSE IF batches = 0 \/ m = 0 \/ n = 0 THEN Done(<<>>)
      ELSE IF k = 0 THEN Done([i \in 1 .. batches * m * n |-> 0])
      ELSE IF device THEN Updated(TRUE, [i \in 1 .. batches * m * n |-> 0], batches * m * n, [i \in 1 .. batches * m * n |-> Element(i - 1)])
           ELSE Done(FlattenSeq([q \in 1 .. batches |-> matmul_host(Row(a, m * k, q - 1), Row(b, k * n, q - 1), m, k, n)]))

-----------------------------------------------------------------------------
\* With and without a device the results are the same, errors included; elements past the shorter
\* input stay, and blocks come back from staging as they were sent.
DeviceAgrees(v, w, rows, cols, f, op) ==
  LET Same(Kernel(_)) == Kernel(TRUE) = Kernel(FALSE)
  IN  /\ Same(LAMBDA d : map_to(d, v, w, f)) /\ map_to(TRUE, w, v, f).ok = (Len(w) >= Len(v))
      /\ Same(LAMBDA d : transform_inplace(d, v, f)) /\ Same(LAMBDA d : map(d, v, f)) /\ map(TRUE, v, f) = transform_inplace(TRUE, v, f)
      /\ Same(LAMBDA d : transform_inplace_indexed(d, v, op)) /\ Same(LAMBDA d : axpy_inplace(d, v, 3, w))
      /\ Same(LAMBDA d : zip_transform_inplace(d, v, w, op)) /\ Same(LAMBDA d : zip3_transform_inplace(d, v, w, v, op))
      /\ Same(LAMBDA d : row_sums(d, v, rows, cols)) /\ Same(LAMBDA d : row_means(d, v, rows, cols)) /\ Same(LAMBDA d : col_sums(d, v, rows, cols))
      /\ Same(LAMBDA d : add_row_broadcast(d, v, rows, cols, w)) /\ Same(LAMBDA d : softmax_rows(d, v, rows, cols))
      /\ Same(LAMBDA d : transpose(d, v, rows, cols))
      /\ to_host(v, w).ok => copy_from(v, to_host(v, w).out) = Done(v) /\ Len(to_host(v, w).out) = Len(w)
      /\ transpose(TRUE, v, rows, cols).ok => /\ transpose(TRUE, transpose(TRUE, v, rows, cols).out, cols, rows).out = v
                                              /\ row_sums(TRUE, transpose(TRUE, v, rows, cols).out, cols, rows) = col_sums(TRUE, v, rows, cols) \/ rows = 0
      /\ add_row_broadcast(TRUE, v, rows, cols, w).ok =>
           col_sums(TRUE, add_row_broadcast(TRUE, v, rows, cols, w).out, rows, cols).out
             = [c \in 1 .. cols |-> col_sums(TRUE, v, rows, cols).out[c] + rows * w[c]]
BatchesAgree(v, w, batches, m, k, n) ==
  batched_matmul(TRUE, v, w, batches, m, k, n) = batched_matmul(FALSE, v, w, batches, m, k, n)
=============================================================================
