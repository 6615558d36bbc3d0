------------------------------ MODULE Kernels ------------------------------
(***************************************************************************)
(* The loops of linalg.hpp and simd.hpp that work on several elements at a *)
(* time and finish with what is left over.  Numbers are integers, so the   *)
(* order of the additions does not show; solve works on exact fractions in *)
(* the place of doubles.                                                   *)
(* On them, numerics.hpp, autodiff.hpp, ops.hpp and what is built from the *)
(* loops.  The exponential has base two, which is exact as well; one of    *)
(* too large a number is infinite.  A logarithm is kept as the number it   *)
(* is of.  Last, the draws of random.hpp.                                  *)
(***************************************************************************)
EXTENDS Integers, FiniteSets, SequencesExt, FiniteSetsExt, Functions

CONSTANTS Chains,   \* independent accumulators, and the rows and columns of matmul_4row
          Tile,     \* matmul_tile
          Lanes,    \* of a vector register
          SizeMax,  \* bound: of size_t
          Tiny,     \* the least pivot of solve, a fraction in the place of 1e-12
          Top       \* bound: of what has a finite exponential

Abs(x)  == IF x < 0 THEN -x ELSE x
Plain(S, f(_)) == MapThenSumSet(f, S)

\* Whole groups of w of n elements, and the loop that takes one at a time after them.
Whole(n, w) == w * (n \div w)
Chained(terms) ==
  LET whole == Whole(Len(terms), Chains)
      At(i) == terms[i]
  IN  Plain(0 .. Chains - 1, LAMBDA c : Plain({i \in 1 .. whole : i % Chains = c}, At)) + Plain(whole + 1 .. Len(terms), At)

\* linalg: reductions.
dot(a, b)    == Chained([i \in DOMAIN a |-> a[i] * b[i]])
norm_l1(v)   == Chained([i \in DOMAIN v |-> Abs(v[i])])
norm_l2_squared(v) == Chained([i \in DOMAIN v |-> v[i] * v[i]])
row_sums(g)  == [r \in DOMAIN g |-> Chained(g[r])]
matvec(g, x) == [r \in DOMAIN g |-> Chained([i \in DOMAIN x |-> g[r][i] * x[i]])]
col_sums(g)  == FoldLeft(LAMBDA out, row : [j \in DOMAIN out |-> out[j] + row[j]], [j \in DOMAIN g[1] |-> 0], g)
\* mean feeds the chains in turn and can stop after any of them; it gives the sum and the count.
mean(v) == LET Step(s, x) == [acc |-> [s.acc EXCEPT ![s.n % Chains] = @ + x], n |-> s.n + 1]
               end == FoldLeft(Step, [acc |-> [c \in 0 .. Chains - 1 |-> 0], n |-> 0], v)
           IN  <<Plain(0 .. Chains - 1, LAMBDA c : end.acc[c]), end.n>>
argmax(v) == FoldLeft(LAMBDA best, i : IF v[i] > v[best] THEN i ELSE best, 1, [i \in DOMAIN v |-> i])
argmin(v) == FoldLeft(LAMBDA best, i : IF v[i] < v[best] THEN i ELSE best, 1, [i \in DOMAIN v |-> i])

\* linalg: products of matrices given as functions of <<row, column>>, both from 0.  Cell says how one row
\* of a meets one column of b, Written which cells a pass of some rows stores, tile by tile and then
\* column by column.
Cell(a, i, k, b, j) == Plain(0 .. k - 1, LAMBDA p : a[<<i, p>>] * b[<<p, j>>])
Written(n, tile) == {j \in 0 .. n - 1 : \E s \in 0 .. n : s % tile = 0 /\ s + tile <= n /\ j \in s .. s + tile - 1}
                    \cup Whole(n, tile) .. n - 1
matmul_row(i, k, n, a, b) == [j \in Written(n, Tile) |-> Cell(a, i, k, b, j)]
matmul_4row(i, k, n, a, b) ==
  [r \in i .. i + Chains - 1 |-> [j \in Written(n, Chains) |-> Cell(a, r, k, b, j)]]
Product(m, k, n, a, b) ==
  LET group(i) == i - (i % Chains)
  IN  [i \in 0 .. m - 1 |-> IF i < Whole(m, Chains) THEN matmul_4row(group(i), k, n, a, b)[i] ELSE matmul_row(i, k, n, a, b)]
Cells(m, n) == (0 .. m - 1) \X (0 .. n - 1)
FromRows(g) == [c \in Cells(Len(g), Len(g[1])) |-> g[c[1] + 1][c[2] + 1]]
FromFlat(v, m, n) == [c \in Cells(m, n) |-> v[c[1] * n + c[2] + 1]]
matmul(a, b) == Product(Len(a), Len(a[1]), Len(b[1]), FromRows(a), FromRows(b))
\* Both matrices and the result in row-major buffers.
matmul_flat(a, m, k, b, n) ==
  LET out == Product(m, k, n, FromFlat(a, m, k), FromFlat(b, k, n))
  IN  [c \in 1 .. m * n |-> out[(c - 1) \div n][(c - 1) % n]]
outer(a, b) == [i \in DOMAIN a |-> [j \in DOMAIN b |-> a[i] * b[j]]]

-----------------------------------------------------------------------------
\* Fractions <<n, d>> with d > 0, in lowest terms so that equal ones are the same.
RECURSIVE gcd(_, _)
gcd(a, b) == IF b = 0 THEN a ELSE gcd(b, a % b)
Frac(n, d) == LET g == gcd(Abs(n), Abs(d)) s == IF d < 0 THEN -1 ELSE 1 IN <<s * (n \div g), s * (d \div g)>>
Less(x, y) == x[1] * y[2] < y[1] * x[2]
Minus(x, y) == Frac(x[1] * y[2] - y[1] * x[2], x[2] * y[2])
Times(x, y) == Frac(x[1] * y[1], x[2] * y[2])
Over(x, y)  == Frac(x[1] * y[2], x[2] * y[1])
AbsF(x)     == <<Abs(x[1]), x[2]>>
Zero        == <<0, 1>>
NotSquare   == "solve: system is not n x n"
Singular    == "solve: singular matrix"

Exchange(s, i, j) == [s EXCEPT ![i] = s[j], ![j] = s[i]]

Pivoted(s, col, pivot) == [error |-> "", m |-> Exchange(s.m, col, pivot), rhs |-> Exchange(s.rhs, col, pivot)]

\* The first row with the largest entry of the column becomes the pivot row, unless the entry is too small; rows
\* below lose theirs.
Eliminated(s, col, n) ==
  LET pivot  == CHOOSE r \in col .. n : \A q \in col .. n : /\ ~Less(AbsF(s.m[r][col]), AbsF(s.m[q][col]))
                                                            /\ q < r => Less(AbsF(s.m[q][col]), AbsF(s.m[r][col]))
      t      == Pivoted(s, col, pivot)
      factor == [r \in col + 1 .. n |-> Over(t.m[r][col], t.m[col][col])]
      Kept(r) == r <= col \/ factor[r] = Zero
  IN  IF s.error # "" THEN s
      ELSE IF Less(AbsF(s.m[pivot][col]), Tiny) THEN [s EXCEPT !.error = Singular]
      ELSE [error |-> "",
            m |-> [r \in 1 .. n |-> IF Kept(r) THEN t.m[r]
                                    ELSE [c \in 1 .. n |-> IF c < col THEN t.m[r][c] ELSE Minus(t.m[r][c], Times(factor[r], t.m[col][c]))]],
            rhs |-> [r \in 1 .. n |-> IF Kept(r) THEN t.rhs[r] ELSE Minus(t.rhs[r], Times(factor[r], t.rhs[col]))]]
\* A matrix is given by its rows, which are as long as the first one: no other length is looked at.
solve(a, b) ==
  LET n == Len(a)
      start == [error |-> "", m |-> a, rhs |-> b]
      Upto[col \in 0 .. n] == IF col = 0 THEN start ELSE Eliminated(Upto[col - 1], col, n)
      end == Upto[n]
      X[i \in 1 .. n] == LET Acc[j \in i .. n] == IF j = i THEN end.rhs[i] ELSE Minus(Acc[j - 1], Times(end.m[i][j], X[j]))
                         IN  Over(Acc[n], end.m[i][i])
  IN  IF n = 0 \/ Len(b) # n \/ Len(a[1]) # n THEN [error |-> NotSquare, x |-> <<>>]
      ELSE IF end.error # "" THEN [error |-> end.error, x |-> <<>>] ELSE [error |-> "", x |-> X]

-----------------------------------------------------------------------------
\* simd: whole registers first; what is left goes through a register filled with one element.
\* f works lane by lane.
map_inplace(v, f) == LET Lane(i) == IF i <= Whole(Len(v), Lanes) THEN f[v[i]] ELSE [k \in 1 .. Lanes |-> f[v[i]]][1]
                     IN  [i \in DOMAIN v |-> Lane(i)]
reduce(v, init) == Plain(0 .. Lanes - 1, LAMBDA k : init + Plain({i \in 0 .. Whole(Len(v), Lanes) - 1 : i % Lanes = k}, LAMBDA i : v[i + 1]))
                   + init + Plain(Whole(Len(v), Lanes) + 1 .. Len(v), LAMBDA i : v[i])
dot_simd(a, b) == LET n == Min({Len(a), Len(b)})
                  IN  Plain(0 .. Lanes - 1, LAMBDA k : Plain({i \in 0 .. Whole(n, Lanes) - 1 : i % Lanes = k}, LAMBDA i : a[i + 1] * b[i + 1]))
                      + Plain(Whole(n, Lanes) + 1 .. n, LAMBDA i : a[i] * b[i])
axpy_inplace(y, a, x) == LET n == Min({Len(y), Len(x)}) IN [i \in DOMAIN y |-> IF i <= n THEN y[i] + a * x[i] ELSE y[i]]
gather(v, idx) == [i \in DOMAIN idx |-> v[idx[i] + 1]]

\* par_map_inplace: where chunk c begins and how many elements its span has; the difference of two
\* sizes is a size.
Slice(n, workers, c) ==
  LET chunks == Min({n, 4 * Max({1, workers})})
      chunk  == (n + chunks - 1) \div chunks
      s      == c * chunk
      e      == Min({n, s + chunk})
  IN  [chunks |-> chunks, first |-> s, size |-> (e - s) % (SizeMax + 1)]

-----------------------------------------------------------------------------
\* Every reduction counts each element once, however the length and the width of the groups fit.
ReductionsAgree(v, w) ==
  LET Sum(f(_)) == Plain(DOMAIN v, f)
      g == <<v, v>>
      least(op(_, _)) == CHOOSE i \in DOMAIN v : \A j \in DOMAIN v : op(v[i], v[j]) \/ (v[i] = v[j] /\ i <= j)
  IN  Len(w) = Len(v) =>
        /\ dot(v, w) = Sum(LAMBDA i : v[i] * w[i]) /\ dot_simd(v, w) = dot(v, w) /\ matvec(g, w) = <<dot(v, w), dot(v, w)>>
        /\ norm_l1(v) = Sum(LAMBDA i : Abs(v[i])) /\ norm_l2_squared(v) = dot(v, v)
        /\ mean(v) = <<Sum(LAMBDA i : v[i]), Len(v)>> /\ row_sums(g)[2] = mean(v)[1] /\ reduce(v, 0) = mean(v)[1]
        /\ v # <<>> => /\ argmax(v) = least(LAMBDA x, y : x > y) /\ argmin(v) = least(LAMBDA x, y : x < y)
                       /\ col_sums(outer(v, w)) = [j \in DOMAIN w |-> w[j] * mean(v)[1]]

\* Elementwise loops treat every element once and nothing past the shorter sequence.
LanesAgree(v, w, a, f) ==
  /\ map_inplace(v, f) = [i \in DOMAIN v |-> f[v[i]]]
  /\ axpy_inplace(v, a, w) = [i \in DOMAIN v |-> IF i \in DOMAIN w THEN v[i] + a * w[i] ELSE v[i]]
  /\ gather(v, [i \in DOMAIN v |-> Len(v) - i]) = Reverse(v)

\* The product of matrices of any shape has every cell, both layouts agree, and the columns of the
\* product are the products with the columns.
ProductsAgree(a, b) ==
  LET m == Len(a) k == Len(b) n == Len(b[1])
      out == matmul(a, b)
      flat(g) == FlattenSeq(g)
  IN  Len(a[1]) = k =>
        /\ DOMAIN out = 0 .. m - 1 /\ \A i \in 0 .. m - 1 : DOMAIN out[i] = 0 .. n - 1
        /\ matmul_flat(flat(a), m, k, flat(b), n) = [c \in 1 .. m * n |-> out[(c - 1) \div n][(c - 1) % n]]
        /\ \A j \in 1 .. n : matvec(a, [p \in 1 .. k |-> b[p][j]]) = [i \in 1 .. m |-> out[i - 1][j - 1]]

\* What is no square system is refused for that.  A system of two is refused as singular exactly when the pivots, the
\* largest entry of its first column and what the determinant leaves for the second, are not both large enough, so that a
\* scaled down system is refused although it has an answer; one of three with whole numbers exactly when its determinant
\* is zero.  What is not refused is solved.
Solves(a, b) ==
  LET n == Len(a)
      answer == solve(a, b)
      x == answer.x
      Plus(p, q) == Minus(p, Times(<<-1, 1>>, q))
      minor(i, j) == Minus(Times(a[i][2], a[j][3]), Times(a[j][2], a[i][3]))
      det == IF n = 2 THEN Minus(Times(a[1][1], a[2][2]), Times(a[1][2], a[2][1]))
             ELSE Plus(Minus(Times(a[1][1], minor(2, 3)), Times(a[2][1], minor(1, 3))), Times(a[3][1], minor(1, 2)))
      largest == IF Less(AbsF(a[1][1]), AbsF(a[2][1])) THEN AbsF(a[2][1]) ELSE AbsF(a[1][1])
      refused == IF n = 2 THEN Less(largest, Tiny) \/ Less(AbsF(det), Times(Tiny, largest)) ELSE det = Zero
  IN  IF n = 0 \/ Len(b) # n \/ \E r \in 1 .. n : Len(a[r]) # n THEN answer.error = NotSquare
      ELSE answer.error = (IF refused THEN Singular ELSE "") /\
           (~refused => \A r \in 1 .. n : LET Left[c \in 0 .. n] == IF c = 0 THEN Minus(Zero, b[r]) ELSE Plus(Left[c - 1], Times(a[r][c], x[c]))
                                      IN  Left[n] = Zero)

\* Each chunk maps its own slice of the buffer: a slice lies in it, and no two share an element.
OwnSlices(n, workers) ==
  \A c \in 0 .. Slice(n, workers, 0).chunks - 1 :
    LET s == Slice(n, workers, c)
    IN  /\ s.first + s.size <= n
        /\ \A d \in 0 .. c - 1 : LET t == Slice(n, workers, d) IN t.first + t.size <= s.first
-----------------------------------------------------------------------------
One        == <<1, 1>>
Infinite   == <<1, 0>>
Plus(x, y) == Frac(x[1] * y[2] + y[1] * x[2], x[2] * y[2])
Number(n)  == <<n, 1>>
SumF(s)    == FoldLeft(Plus, Zero, s)
Exp(x)     == IF x > Top THEN Infinite ELSE IF x >= 0 THEN <<2 ^ x, 1>> ELSE <<1, 2 ^ (-x)>>

sigmoid(z) == IF z >= 0 THEN Over(One, Plus(One, Exp(-z))) ELSE LET e == Exp(z) IN Over(e, Plus(One, e))
relu(z)    == IF z > 0 THEN z ELSE 0
clamp(value, lo, hi) == IF value < lo THEN lo ELSE IF hi < value THEN hi ELSE value

\* Each element less the largest one, so no exponential is of more than zero.
Shifted(r)     == LET m == Max(ToSet(r)) IN [i \in DOMAIN r |-> Exp(r[i] - m)]
logsumexp(r)   == IF r = <<>> THEN <<>> ELSE [m |-> Max(ToSet(r)), sum |-> SumF(Shifted(r))]
softmax(r)     == IF r = <<>> THEN <<>> ELSE LET e == Shifted(r) IN [i \in DOMAIN r |-> Over(e[i], SumF(e))]
log_softmax(r) == [i \in DOMAIN r |-> [m |-> r[i] - logsumexp(r).m, sum |-> logsumexp(r).sum]]
\* In place: a row is first its exponentials, added while they are written, then divided.
softmax_rows(g) ==
  LET First(row)  == FoldLeft(LAMBDA s, i : [row |-> [s.row EXCEPT ![i] = Exp(row[i] - s.m)], m |-> s.m, sum |-> Plus(s.sum, Exp(row[i] - s.m))],
                              [row |-> row, m |-> FoldLeft(LAMBDA m, x : Max({m, x}), row[1], row), sum |-> Zero], [i \in DOMAIN row |-> i])
      Second(s)   == IF Less(Zero, s.sum) THEN [i \in DOMAIN s.row |-> Over(s.row[i], s.sum)] ELSE s.row
  IN  [k \in DOMAIN g |-> IF g[k] = <<>> THEN g[k] ELSE Second(First(g[k]))]

linspace(from, to, n) ==
  LET step == Over(Minus(to, from), Number(n - 1))
  IN  IF n = 0 THEN <<>> ELSE IF n = 1 THEN <<from>>
      ELSE [i \in 1 .. n |-> IF i = n THEN to ELSE Plus(from, Times(step, Number(i - 1)))]
\* Half open, in either direction; a step of zero gives nothing.
arange(from, to, step) ==
  LET Goes(x) == (step > 0 /\ x < to) \/ (step < 0 /\ x > to)
  IN  [i \in 1 .. Cardinality({k \in 0 .. Abs(to - from) : Goes(from + k * step)}) |-> from + (i - 1) * step]

approx_equal(a, b, eps) ==
  LET larger == IF Less(AbsF(a), AbsF(b)) THEN AbsF(b) ELSE AbsF(a)
  IN  ~Less(Times(eps, Plus(One, larger)), AbsF(Minus(a, b)))

-----------------------------------------------------------------------------
\* autodiff: numbers with a derivative.
Dual(v, d)  == [value |-> v, deriv |-> d]
Constant(v) == Dual(v, Zero)
DualPlus(a, b)  == Dual(Plus(a.value, b.value), Plus(a.deriv, b.deriv))
DualMinus(a, b) == Dual(Minus(a.value, b.value), Minus(a.deriv, b.deriv))
DualTimes(a, b) == Dual(Times(a.value, b.value), Plus(Times(a.deriv, b.value), Times(a.value, b.deriv)))
DualOver(a, b)  == Dual(Over(a.value, b.value),
                        Over(Minus(Times(a.deriv, b.value), Times(a.value, b.deriv)), Times(b.value, b.value)))
Negated(a)      == Dual(Minus(Zero, a.value), Minus(Zero, a.deriv))
\* The overloads with a plain number on one side.
ScalarForms(a, s) ==
  [plus    |-> Dual(Plus(a.value, s), a.deriv),   minus    |-> Dual(Minus(a.value, s), a.deriv),
   minusOf |-> Dual(Minus(s, a.value), Minus(Zero, a.deriv)),
   times   |-> Dual(Times(a.value, s), Times(a.deriv, s)), over |-> Dual(Over(a.value, s), Over(a.deriv, s))]
\* a op= b, by parts or through op; b is a copy.
Assigned(op, a, b) == CASE op = "plus"  -> [a EXCEPT !.value = Plus(@, b.value), !.deriv = Plus(@, b.deriv)]
                        [] op = "minus" -> [a EXCEPT !.value = Minus(@, b.value), !.deriv = Minus(@, b.deriv)]
                        [] op = "times" -> DualTimes(a, b)
                        [] op = "over"  -> DualOver(a, b)
ScalarOver(s, a) == Dual(Over(s, a.value), Over(Minus(Zero, Times(s, a.deriv)), Times(a.value, a.value)))
Compared(a, b) == [lt |-> Less(a.value, b.value), gt |-> Less(b.value, a.value), le |-> ~Less(b.value, a.value),
                   ge |-> ~Less(a.value, b.value), eq |-> a.value = b.value]

\* The elementary functions, given the values the library's function has there.
DualExp(x, e)    == Dual(e, Times(e, x.deriv))
DualLog(x, l)    == Dual(l, Over(x.deriv, x.value))
DualSqrt(x, s)   == Dual(s, Over(x.deriv, Times(Number(2), s)))
DualSin(x, s, c) == Dual(s, Times(c, x.deriv))
DualCos(x, s, c) == Dual(c, Times(Minus(Zero, s), x.deriv))
DualTanh(x, t)   == Dual(t, Times(Minus(One, Times(t, t)), x.deriv))
DualPow(x, k, powk, powk1) == Dual(powk, Times(Times(Number(k), powk1), x.deriv))
DualRelu(x)      == IF Less(Zero, x.value) THEN Dual(x.value, x.deriv) ELSE Constant(Zero)

\* A function is a tree over its argument "x" and numbers; a plain number goes the way of its value.
RECURSIVE Eval(_, _)
Eval(e, x) == CASE e.op = "x" -> x
                [] e.op = "number" -> Constant(e.k)
                [] e.op = "plus" -> DualPlus(Eval(e.l, x), Eval(e.r, x))
                [] e.op = "minus" -> DualMinus(Eval(e.l, x), Eval(e.r, x))
                [] e.op = "times" -> DualTimes(Eval(e.l, x), Eval(e.r, x))
derivative(f, x) == Eval(f, Dual(x, One)).deriv
central_difference(f, x, h) ==
  LET Value(y) == Eval(f, Constant(y)).value IN Over(Minus(Value(Plus(x, h)), Value(Minus(x, h))), Times(Number(2), h))

-----------------------------------------------------------------------------
\* ops: an operator is a function of pairs; the curried forms keep one of the two.
Seconds(op) == {q[2] : q \in DOMAIN op}
left_curried(op, a)    == [b \in Seconds(op) |-> op[<<a, b>>]]
flipped_curried(op, a) == [b \in Seconds(op) |-> op[<<b, a>>]]
min_op(a, b) == IF b < a THEN b ELSE a
max_op(a, b) == IF a < b THEN b ELSE a
Operator(S) == [plus |-> [q \in S \X S |-> q[1] + q[2]], minus |-> [q \in S \X S |-> q[1] - q[2]], times |-> [q \in S \X S |-> q[1] * q[2]],
                eq |-> [q \in S \X S |-> q[1] = q[2]], ne |-> [q \in S \X S |-> q[1] # q[2]], lt |-> [q \in S \X S |-> q[1] < q[2]],
                le |-> [q \in S \X S |-> q[1] <= q[2]], gt |-> [q \in S \X S |-> q[1] > q[2]], ge |-> [q \in S \X S |-> q[1] >= q[2]]]
Logic == [and_ |-> [q \in BOOLEAN \X BOOLEAN |-> q[1] /\ q[2]], or_ |-> [q \in BOOLEAN \X BOOLEAN |-> q[1] \/ q[2]]]
min_(S) == [q \in S \X S |-> min_op(q[1], q[2])]
max_(S) == [q \in S \X S |-> max_op(q[1], q[2])]
sign(x) == (IF x > 0 THEN 1 ELSE 0) - (IF x < 0 THEN 1 ELSE 0)
Unary(x) == [negate |-> -x, increment |-> x + 1, decrement |-> x - 1, abs |-> IF x < 0 THEN -x ELSE x]

-----------------------------------------------------------------------------
\* linalg: the rest.  Indices of columns are from 0, as the code's.
batched_matmul(as, bs) == [i \in DOMAIN as |-> matmul(as[i], bs[i])]
hadamard(a, b) == [i \in DOMAIN a |-> a[i] * b[i]]
scale(v, k)    == [i \in DOMAIN v |-> v[i] * k]
add_row_broadcast(g, row) == [r \in DOMAIN g |-> [j \in DOMAIN g[r] |-> g[r][j] + row[j]]]
\* Differences from the mean are kept times the length.
variance(v, ddof) ==
  LET n == Len(v) total == mean(v)[1] IN Frac(mean([i \in DOMAIN v |-> (n * v[i] - total) * (n * v[i] - total)])[1], n * n * (n - ddof))
row_means(g) == [r \in DOMAIN g |-> IF g[r] = <<>> THEN Zero ELSE Frac(Chained(g[r]), Len(g[r]))]
col_means(g) == IF g = <<>> THEN <<>> ELSE [j \in DOMAIN g[1] |-> Frac(col_sums(g)[j], Len(g))]
argmax_rows(g) == [r \in DOMAIN g |-> IF g[r] = <<>> THEN 0 ELSE argmax(g[r]) - 1]
argmin_rows(g) == [r \in DOMAIN g |-> IF g[r] = <<>> THEN 0 ELSE argmin(g[r]) - 1]

\* simd: the rest.
map_to(v, f) == [i \in DOMAIN v |-> IF i <= Whole(Len(v), Lanes) THEN f[v[i]] ELSE [k \in 1 .. Lanes |-> f[v[i]]][1]]
clamp_inplace(v, lo, hi) == map_inplace(v, [x \in ToSet(v) |-> Min({Max({x, lo}), hi})])
normalize(v) == LET m == FoldLeft(LAMBDA most, x : Max({most, Abs(x)}), 0, v)
                IN  IF m = 0 THEN [i \in DOMAIN v |-> Number(v[i])] ELSE map_inplace(v, [x \in ToSet(v) |-> Frac(x, m)])
threshold_inplace(v, lo, hi, replace) == map_inplace(v, [x \in ToSet(v) |-> IF x < lo \/ x > hi THEN replace ELSE x])

-----------------------------------------------------------------------------
\* However large the logits are, the shares are finite, add up to one, are the same for shifted logits, and
\* are what log_softmax and the rows in place have; two shares relate as sigmoid says.
SharesAgree(r, shift) ==
  LET p == softmax(r)
  IN  /\ r # <<>> => SumF(p) = One /\ \A i \in DOMAIN p : Less(Zero, p[i])
      /\ softmax([i \in DOMAIN r |-> r[i] + shift]) = p
      /\ \A i \in DOMAIN r : Over(Exp(log_softmax(r)[i].m), log_softmax(r)[i].sum) = p[i]
      /\ softmax_rows(<<r, <<>>, Reverse(r)>>) = <<p, <<>>, Reverse(p)>>
      /\ Len(r) = 2 => p[1] = sigmoid(r[1] - r[2]) /\ Minus(One, p[1]) = sigmoid(r[2] - r[1])

\* Points are as many as asked, evenly spaced, and end where they should.
PointsAgree(from, to, n, step) ==
  LET p == linspace(Number(from), Number(to), n)
      q == arange(from, to, step)
      Inside(x) == (from <= x /\ x < to) \/ (to < x /\ x <= from)
  IN  /\ Len(p) = n /\ (n > 0 => p[1] = Number(from)) /\ (n > 1 => p[n] = Number(to))
      /\ \A i \in 2 .. n - 1 : Minus(p[i + 1], p[i]) = Minus(p[i], p[i - 1])
      /\ ToSet(q) = {x \in from - 9 .. from + 9 : step # 0 /\ Inside(x) /\ (x - from) % Abs(step) = 0 /\ step * (to - from) > 0}
      /\ approx_equal(Number(from), Number(to), <<1, 2>>) = approx_equal(Number(to), Number(from), <<1, 2>>)
      /\ approx_equal(Number(from), Number(from), Zero)

\* The derivatives are those of the functions: of sums and products of linear functions exactly their
\* central difference, of a quotient what gives back the numerator, of the others by their identities.
DualsAgree(a, b, x, h) ==
  LET X == Dual(x, One)
      A == Eval(a, X)
      B == Eval(b, X)
      forms == ScalarForms(A, b.k)
      s == Constant(b.k)
      E == DualExp(A, <<3, 2>>)
      E2 == DualTimes(E, E)
      T == DualOver(DualMinus(E2, Constant(One)), DualPlus(E2, Constant(One)))
      Sin == DualSin(A, <<3, 5>>, <<4, 5>>)
      Cos == DualCos(A, <<3, 5>>, <<4, 5>>)
      Power[k \in 0 .. 3] == IF k = 0 THEN Constant(One) ELSE DualTimes(Power[k - 1], A)
  IN  /\ \A op \in {"plus", "minus", "times"} :
           LET f == [op |-> op, l |-> a, r |-> b] IN derivative(f, x) = central_difference(f, x, h)
      /\ B.value # Zero => DualTimes(DualOver(A, B), B) = A
      /\ Assigned("minus", Assigned("plus", A, B), B) = A /\ Assigned("plus", A, A) = Assigned("times", A, Constant(Number(2)))
      /\ B.value # Zero => Assigned("over", Assigned("times", A, B), B) = A
      /\ forms.plus = DualPlus(A, s) /\ forms.minus = DualMinus(A, s) /\ forms.minusOf = DualMinus(s, A) /\ forms.times = DualTimes(s, A)
      /\ forms.over = DualOver(A, s) /\ (A.value # Zero => ScalarOver(b.k, A) = DualOver(s, A)) /\ Negated(A) = DualMinus(Constant(Zero), A)
      /\ DualLog(E, A.value) = A /\ T = DualTanh(A, T.value)
      /\ DualPlus(DualTimes(Sin, Sin), DualTimes(Cos, Cos)) = Constant(One)
      /\ Less(Zero, A.value) => DualSqrt(DualTimes(A, A), A.value) = A
      /\ A.value # Zero => DualMinus(DualRelu(A), DualRelu(Negated(A))) = A
      /\ \A k \in 1 .. 3 : DualPow(A, k, Power[k].value, Power[k - 1].value) = Power[k]
      /\ Cardinality({rel \in {"lt", "eq", "gt"} : Compared(A, B)[rel]}) = 1
      /\ Compared(A, B).le = (Compared(A, B).lt \/ Compared(A, B).eq) /\ Compared(A, B).ge = Compared(B, A).le

\* Of two operands the curried arithmetic keeps the left one and the curried comparison the right one.
OperatorsAgree(S) ==
  LET op == Operator(S)
  IN  \A a, b \in S :
        /\ left_curried(op.minus, a)[b] = -left_curried(op.minus, b)[a] /\ left_curried(op.plus, b)[a] = left_curried(op.minus, a)[b] + 2 * b
        /\ flipped_curried(op.gt, a)[b] = left_curried(op.lt, a)[b] /\ flipped_curried(op.le, a)[b] = ~flipped_curried(op.gt, a)[b]
        /\ flipped_curried(op.ge, a)[b] = ~flipped_curried(op.lt, a)[b] /\ flipped_curried(op.eq, a)[b] = ~flipped_curried(op.ne, a)[b]
        /\ left_curried(op.times, a)[sign(a)] = Unary(a).abs /\ Unary(Unary(a).increment).decrement = -Unary(a).negate
        /\ a <= b => \A x \in S : clamp(x, a, b) = flipped_curried(min_(S), b)[flipped_curried(max_(S), a)[x]]
        /\ \A p, q \in BOOLEAN : left_curried(Logic.and_, p)[q] = ~left_curried(Logic.or_, ~p)[~q]

\* Moments, means and elementwise loops agree with one another, whatever the shape.
MomentsAgree(v, w, lo, hi) ==
  LET n == Len(v)
      g == outer(v, w)
      most == FoldLeft(LAMBDA m, x : Max({m, Abs(x)}), 0, v)
      ones == [i \in DOMAIN v |-> 1]
      r == relu(lo)
  IN  /\ \A ddof \in 0 .. 1 : n > ddof => variance(v, ddof) = Frac(n * norm_l2_squared(v) - mean(v)[1] * mean(v)[1], n * (n - ddof))
      /\ row_means(<<v, <<>>>>) = <<IF v = <<>> THEN Zero ELSE Frac(mean(v)[1], n), Zero>>
      /\ v # <<>> /\ w # <<>> => /\ col_means(g) = row_means(outer(w, v))
                                 /\ argmax_rows(<<v, <<>>>>) = argmin_rows(<<scale(v, -1), <<>>>>)
                                 /\ add_row_broadcast(outer(ones, w), w) = outer(scale(ones, 2), w)
                                 /\ batched_matmul(<<g, <<w>>>>, <<<<w>>, outer(w, ones)>>)[2][0] = matmul(<<w>>, outer(w, ones))[0]
      /\ Len(w) = n => mean(hadamard(v, w))[1] = dot(v, w)
      /\ map_to(v, [x \in ToSet(v) |-> <<x>>]) = [i \in DOMAIN v |-> <<v[i]>>]
      /\ lo <= hi => /\ clamp_inplace(v, lo, hi) = [i \in DOMAIN v |-> clamp(v[i], lo, hi)]
                     /\ threshold_inplace(v, lo, hi, lo - 1) = [i \in DOMAIN v |-> IF clamp(v[i], lo, hi) = v[i] THEN v[i] ELSE lo - 1]
      /\ \A i \in DOMAIN v : Times(normalize(v)[i], Number(Max({1, most}))) = Number(v[i])
      /\ r = clamp(lo, 0, Max({lo, 0}))

-----------------------------------------------------------------------------
\* The draws of random.hpp, as functions of what the generator returned: below(n) gives any of 0 .. n - 1
\* and next_double() any multiple of 1/total in [0, 1).  Weights are naturals, so every quotient by total
\* is exact and is written times total (1.0 is total).
Swap(s, i, j) == [s EXCEPT ![i] = s[j], ![j] = s[i]]

\* A word of the engine has kept and dropped bits; the upper ones make a double, written times 2^kept here.
next_double(word, dropped)     == word \div 2 ^ dropped
uniform(word, dropped, lo, hi, kept) == lo * 2 ^ kept + (hi - lo) * next_double(word, dropped)
bernoulli(word, dropped, p)    == next_double(word, dropped) < p

\* Fisher-Yates prefix: the i-th draw is below(n - i + 1).
SampleDense(n, k, draws) ==
  LET idx == [i \in 1 .. n |-> i - 1]
  IN  SubSeq(FoldLeft(LAMBDA s, i : Swap(s, i, i + draws[i]), idx, [i \in 1 .. k |-> i]), 1, k)

\* Mutant: a draw seen before is kept.
SampleSparseRepeats(n, k, draws) == SubSeq(draws, 1, k)

\* Rejection: every draw is below(n), one already seen is dropped.
SampleSparse(n, k, draws) ==
  FoldLeft(LAMBDA out, i : IF Len(out) = k \/ \E j \in DOMAIN out : out[j] = i THEN out ELSE Append(out, i), <<>>, draws)

IsDense(n, k) == k >= (n + 3) \div 4
Draws(n, k, retries) == IF IsDense(n, k) THEN {d \in [1 .. k -> 0 .. n - 1] : \A i \in 1 .. k : d[i] <= n - i}
                        ELSE [1 .. k + retries -> 0 .. n - 1]
sample_indices(n, asked, draws) ==
  LET k == Min({asked, n})
  IN  IF k = 0 THEN <<>> ELSE IF IsDense(n, k) THEN SampleDense(n, k, draws) ELSE SampleSparse(n, k, draws)

\* categorical: one scan with the running sum.
Total(w) == FoldLeft(LAMBDA a, b : a + b, 0, w)
categorical(w, r) ==
  LET hit == {i \in DOMAIN w : r < Total(SubSeq(w, 1, i))}
  IN  IF hit = {} THEN Len(w) ELSE Min(hit)

\* Vose's tables.  The two loops at the end set prob_ to 1.0 for whatever is left.
RECURSIVE Vose(_, _)
Vose(t, total) ==
  IF t.small = <<>> \/ t.large = <<>>
  THEN [t EXCEPT !.prob = [i \in DOMAIN @ |-> IF Contains(t.small \o t.large, i) THEN total ELSE @[i]]]
  ELSE LET s == Last(t.small)
           l == Last(t.large)
           left == t.scaled[l] + t.scaled[s] - total
           large == Front(t.large)
           small == Front(t.small)
       IN  Vose([prob   |-> [t.prob EXCEPT ![s] = t.scaled[s]],
                 alias  |-> [t.alias EXCEPT ![s] = l],
                 scaled |-> [t.scaled EXCEPT ![l] = left],
                 small  |-> IF left < total THEN Append(small, l) ELSE small,
                 large  |-> IF left < total THEN large ELSE Append(large, l)], total)
Categorical(w) ==
  LET n      == Len(w)
      total  == Total(w)
      scaled == [i \in 1 .. n |-> w[i] * n]
      ids    == [i \in 1 .. n |-> i]
  IN  Vose([prob |-> [i \in 1 .. n |-> total], alias |-> ids, scaled |-> scaled,
            small |-> SelectSeq(ids, LAMBDA i : scaled[i] < total),
            large |-> SelectSeq(ids, LAMBDA i : scaled[i] >= total)], total)
draw(t, n, i, u) == IF n = 1 THEN 1 ELSE IF u < t.prob[i] THEN i ELSE t.alias[i]


Ordered(n, k) == {s \in [1 .. k -> 0 .. n - 1] : \A i, j \in 1 .. k : i # j => s[i] # s[j]}

\* Of all words, exactly the share p is below p: never for 0, always for 1; uniform stays in [lo, hi) and every
\* value comes from equally many words.
WordsExact(kept, dropped) ==
  LET words == 0 .. 2 ^ (kept + dropped) - 1
  IN  /\ \A p \in 0 .. 2 ^ kept : Cardinality({w \in words : bernoulli(w, dropped, p)}) = p * 2 ^ dropped
      /\ \A lo, hi \in -1 .. 2 : lo < hi =>
           /\ \A w \in words : uniform(w, dropped, lo, hi, kept) \in lo * 2 ^ kept .. hi * 2 ^ kept - 1
           /\ Cardinality({uniform(w, dropped, lo, hi, kept) : w \in words}) = 2 ^ kept

\* Every ordered choice of k distinct indices comes from equally many draws of the generator, on the
\* dense and on the sparse path (there, among the draws that end within the given retries).
SampleExact(n, k, retries) ==
  LET from(s) == {d \in Draws(n, k, retries) : sample_indices(n, k, d) = s}
      outs    == {sample_indices(n, k, d) : d \in Draws(n, k, retries)}
      counts  == {Cardinality(from(s)) : s \in Ordered(n, k)}
  IN  /\ Cardinality(counts) = 1 /\ 0 \notin counts
      /\ IsDense(n, k) => outs = Ordered(n, k)
      /\ \A s \in outs : s \in Ordered(n, Len(s))
      /\ \A d \in Draws(n, k, retries) : sample_indices(k, k + n, [i \in 1 .. k |-> d[i] % (k - i + 1)]) \in Ordered(k, k)

\* Both ways of drawing give index i for exactly its share of what the generator may return, so an
\* index of weight zero never, and the table's entries stay probabilities.
WeightsExact(w) ==
  LET n == Len(w)
      total == Total(w)
      t == Categorical(w)
  IN  /\ \A i \in 1 .. n : /\ t.prob[i] \in 0 .. total
                           /\ Cardinality({r \in 0 .. total - 1 : categorical(w, r) = i}) = w[i]
                           /\ Cardinality({p \in (1 .. n) \X (0 .. total - 1) : draw(t, n, p[1], p[2]) = i}) = w[i] * n
=============================================================================
