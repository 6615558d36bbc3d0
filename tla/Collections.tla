---------------------------- MODULE Collections ----------------------------
(***************************************************************************)
(* The helpers on sequences of vec.hpp, ranges.hpp, views.hpp and          *)
(* inplace.hpp, on associative containers of map.hpp and on grids of       *)
(* grid.hpp.  What several headers implement in different ways is written  *)
(* once for each way (_v, _r, _w), and the ways are compared.  A predicate *)
(* is the set of what satisfies it, a callable is a function.              *)
(***************************************************************************)
EXTENDS Integers, FiniteSets, SequencesExt, FiniteSetsExt

CONSTANT Block  \* side of a transposed tile

Least(a, b) == IF a <= b THEN a ELSE b
Size(v) == Len(v)

\* Elementwise.
map(v, f)         == [i \in DOMAIN v |-> f[v[i]]]
filter(v, p)      == SelectSeq(v, LAMBDA x : x \in p)
enumerate(v)      == [i \in DOMAIN v |-> <<i - 1, v[i]>>]
zip(a, b)         == [i \in 1 .. Least(Size(a), Size(b)) |-> <<a[i], b[i]>>]
zip3(a, b, c)     == [i \in 1 .. Min({Size(a), Size(b), Size(c)}) |-> <<a[i], b[i], c[i]>>]
unzip(ps)         == <<[i \in DOMAIN ps |-> ps[i][1]], [i \in DOMAIN ps |-> ps[i][2]]>>
zip_r(a, b)       == LET Walk[i \in 0 .. Size(a)] == IF i = Size(a) \/ i = Size(b) THEN <<>>
                                                     ELSE <<<<a[i + 1], b[i + 1]>>>> \o Walk[i + 1]
                     IN  Walk[0]
map_to(src, dst, f) == [i \in DOMAIN dst |-> IF i \in DOMAIN src THEN f[src[i]] ELSE dst[i]]

\* Folds; op is a function of two values.
fold_left(v, init, op)  == FoldLeft(LAMBDA acc, x : op[acc, x], init, v)
fold_right(v, init, op) == FoldRight(LAMBDA x, acc : op[x, acc], v, init)
scan(v, init, op) == FoldLeft(LAMBDA out, x : Append(out, op[IF out = <<>> THEN init ELSE Last(out), x]), <<>>, v)
concat(vs)        == FoldLeft(LAMBDA out, v : out \o v, <<>>, vs)
flat_map(v, f)    == FoldLeft(LAMBDA out, x : out \o f[x], <<>>, v)
replicate(n, x)   == FoldLeft(LAMBDA out, i : Append(out, x), <<>>, [i \in 1 .. n |-> i])
intersperse(v, sep)    == FoldLeft(LAMBDA out, x : (IF out = <<>> THEN out ELSE Append(out, sep)) \o <<x>>, <<>>, v)
intercalate(vs, sep)   == LET Out[i \in 0 .. Size(vs)] == IF i = 0 THEN <<>>
                                                          ELSE Out[i - 1] \o (IF i > 1 THEN sep ELSE <<>>) \o vs[i]
                          IN  Out[Size(vs)]

\* Parts.  find_if_not of the algorithm header gives the first place that does not satisfy p.
find_if_not(v, p) == Min({i \in DOMAIN v : v[i] \notin p} \cup {Size(v) + 1})
take_v(v, n)  == SubSeq(v, 1, Least(n, Size(v)))
drop_v(v, n)  == SubSeq(v, Least(n, Size(v)) + 1, Size(v))
take_r(v, n)  == LET Walk[i \in 0 .. n] == IF i = n \/ i = Size(v) THEN <<>> ELSE <<v[i + 1]>> \o Walk[i + 1] IN Walk[0]
take_last(v, n)  == drop_v(v, IF Size(v) > n THEN Size(v) - n ELSE 0)
take_while(v, p) == LET Walk[i \in 1 .. Size(v) + 1] == IF i > Size(v) THEN <<>> ELSE IF v[i] \notin p THEN <<>> ELSE <<v[i]>> \o Walk[i + 1]
                    IN  Walk[1]
drop_while(v, p) == SubSeq(v, find_if_not(v, p), Size(v))
span_v(v, p)     == <<SubSeq(v, 1, find_if_not(v, p) - 1), SubSeq(v, find_if_not(v, p), Size(v))>>
\* One pass with a flag, for ranges that can be read once.
span_r(v, p) == LET Step(s, x) == LET in == s.in /\ x \in p
                                  IN  IF in THEN [s EXCEPT !.head = Append(@, x)]
                                      ELSE [s EXCEPT !.in = FALSE, !.rest = Append(@, x)]
                    end == FoldLeft(Step, [in |-> TRUE, head |-> <<>>, rest |-> <<>>], v)
                IN  <<end.head, end.rest>>
partition(v, p) == FoldLeft(LAMBDA s, x : IF x \in p THEN <<Append(s[1], x), s[2]>> ELSE <<s[1], Append(s[2], x)>>, <<<<>>, <<>>>>, v)
unique(v)       == FoldLeft(LAMBDA out, x : IF out # <<>> /\ Last(out) = x THEN out ELSE Append(out, x), <<>>, v)

\* Groups.
chunk_v(v, n) == LET Walk[i \in 0 .. Size(v) + n] == IF i >= Size(v) THEN <<>>
                                                     ELSE <<SubSeq(v, i + 1, Least(Size(v), i + n))>> \o Walk[i + n]
                 IN  IF n = 0 THEN <<>> ELSE Walk[0]
\* Mutant: the group begun last is not handed out.
chunk_r_full(v, n) ==
  LET Step(s, x) == IF Size(s[2]) + 1 = n THEN <<Append(s[1], Append(s[2], x)), <<>>>> ELSE <<s[1], Append(s[2], x)>>
  IN  IF n = 0 THEN <<>> ELSE FoldLeft(Step, <<<<>>, <<>>>>, v)[1]
chunk_r(v, n) ==
  LET Step(s, x) == IF Size(s[2]) + 1 = n THEN <<Append(s[1], Append(s[2], x)), <<>>>> ELSE <<s[1], Append(s[2], x)>>
      end == FoldLeft(Step, <<<<>>, <<>>>>, v)
  IN  IF n = 0 THEN <<>> ELSE IF end[2] # <<>> THEN Append(end[1], end[2]) ELSE end[1]
chunk_w(v, n) == LET count == IF n = 0 THEN 0 ELSE (Size(v) + n - 1) \div n
                 IN  [k \in 1 .. count |-> SubSeq(v, (k - 1) * n + 1, (k - 1) * n + Least(n, Size(v) - (k - 1) * n))]
stride(v, n)  == [k \in 1 .. IF n = 0 THEN 0 ELSE (Size(v) + n - 1) \div n |-> v[(k - 1) * n + 1]]
\* A ring keeps the last n; the oldest sits where the next one will go.
windows(v, n) ==
  LET Step(s, i) == LET ring == [s.ring EXCEPT ![((i - 1) % n) + 1] = v[i]]
                        off  == i % n
                    IN  [ring |-> ring,
                         out |-> IF i >= n THEN Append(s.out, SubSeq(ring, off + 1, n) \o SubSeq(ring, 1, off)) ELSE s.out]
  IN  IF n = 0 THEN <<>>
      ELSE FoldLeft(Step, [ring |-> replicate(n, 0), out |-> <<>>], [i \in DOMAIN v |-> i]).out
slide(v, n) == [i \in 1 .. IF n > 0 /\ Size(v) >= n THEN Size(v) - n + 1 ELSE 0 |-> SubSeq(v, i, i + n - 1)]

\* Orders by a key.  stable_sort keeps equals in their order; sort does not promise to.
Sorted(v, key) == \A i \in 1 .. Size(v) - 1 : key[v[i]] <= key[v[i + 1]]
sort_by(v, key) == {w \in {[i \in DOMAIN v |-> v[p[i]]] : p \in Permutations(DOMAIN v)} : Sorted(w, key)}
sort_by_cached(v, key) ==
  LET Insert(out, x) == LET at == Cardinality({i \in DOMAIN out : out[i][1] <= x[1]}) IN InsertAt(out, at + 1, x)
      keyed == FoldLeft(Insert, <<>>, [i \in DOMAIN v |-> <<key[v[i]], v[i]>>])
  IN  [i \in DOMAIN keyed |-> keyed[i][2]]
group_by(v, key) == LET Step(m, x) == IF key[x] \in DOMAIN m THEN [m EXCEPT ![key[x]] = Append(@, x)] ELSE m @@ (key[x] :> <<x>>)
                    IN  FoldLeft(Step, <<>>, v)

\* Associative containers; emplace keeps what a key has.
Emplace(m, k, x)  == IF k \in DOMAIN m THEN m ELSE m @@ (k :> x)
to_map(ps)        == FoldLeft(LAMBDA m, p : Emplace(m, p[1], p[2]), <<>>, ps)
map_values(m, f)  == [k \in DOMAIN m |-> f[m[k]]]
filter_values(m, p) == [k \in {j \in DOMAIN m : m[j] \in p} |-> m[k]]
merge_with(a, b, op) == LET Step(m, k) == IF k \in DOMAIN m THEN [m EXCEPT ![k] = op[@, b[k]]] ELSE m @@ (k :> b[k])
                        IN  FoldLeft(Step, a, SetToSeq(DOMAIN b))
lookup(m, k)      == IF k \in DOMAIN m THEN {m[k]} ELSE {}

\* Grids.  The transposition goes tile by tile; windows2d drops incomplete edges.
Columns(g) == Size(g[1])
transpose(g) ==
  LET Tiles(n) == {k * Block : k \in 0 .. (n + Block - 1) \div Block - 1}
      Cells(i0, j0) == (i0 .. Least(Size(g), i0 + Block) - 1) \X (j0 .. Least(Columns(g), j0 + Block) - 1)
      blank == [j \in 1 .. Columns(g) |-> [i \in 1 .. Size(g) |-> 0]]
      Copy(out, t) == [j \in DOMAIN out |-> [i \in DOMAIN out[j] |-> IF <<i - 1, j - 1>> \in Cells(t[1], t[2]) THEN g[i][j] ELSE out[j][i]]]
  IN  IF g = <<>> THEN <<>> ELSE FoldLeft(Copy, blank, SetToSeq(Tiles(Size(g)) \X Tiles(Columns(g))))
column(g, j) == [i \in DOMAIN g |-> g[i][j]]
windows2d(g, kh, kw) ==
  LET down   == Size(g) \div kh
      across == Columns(g) \div kw
      Patch(k) == [r \in 1 .. kh |-> [c \in 1 .. kw |-> g[(k \div across) * kh + r][(k % across) * kw + c]]]
  IN  IF g = <<>> \/ kh = 0 \/ kw = 0 THEN <<>> ELSE [k \in 1 .. down * across |-> Patch(k - 1)]
cartesian_product(as, bs) == concat([i \in DOMAIN as |-> [j \in DOMAIN bs |-> <<as[i], bs[j]>>]])
tabulate(n, f) == [i \in 1 .. n |-> f[i - 1]]

-----------------------------------------------------------------------------
\* The ways of taking a sequence apart agree with each other and put together again give it back.
PartsAgree(v, n, p) ==
  /\ take_r(v, n) = take_v(v, n) /\ take_v(v, n) \o drop_v(v, n) = v
  /\ take_last(v, n) = Reverse(take_v(Reverse(v), n))
  /\ span_v(v, p) = <<take_while(v, p), drop_while(v, p)>> /\ span_r(v, p) = span_v(v, p)
  /\ span_v(v, p)[1] \o span_v(v, p)[2] = v
  /\ chunk_r(v, n) = chunk_v(v, n) /\ chunk_w(v, n) = chunk_v(v, n) /\ windows(v, n) = slide(v, n)
  /\ n > 0 => /\ concat(chunk_v(v, n)) = v
              /\ \A k \in DOMAIN chunk_v(v, n) : IF k < Size(chunk_v(v, n)) THEN Size(chunk_v(v, n)[k]) = n
                                                 ELSE Size(chunk_v(v, n)[k]) \in 1 .. n
              /\ stride(v, n) = [k \in DOMAIN chunk_v(v, n) |-> chunk_v(v, n)[k][1]]
              /\ \A k \in DOMAIN windows(v, n) : windows(v, n)[k] = take_v(drop_v(v, k - 1), n)

\* Partition, sorting and grouping by the same key tell one story: a stable sort by "is not in p"
\* is the partition, groups in the order of their keys are the stable sort, and it is one that sort allows.
OrdersAgree(v, p, key) ==
  LET halves == partition(v, p)
      bool   == [x \in ToSet(v) |-> IF x \in p THEN 0 ELSE 1]
      groups == group_by(v, key)
      keys   == SetToSortSeq(DOMAIN groups, <)
  IN  /\ sort_by_cached(v, bool) = halves[1] \o halves[2] /\ halves[1] = filter(v, p)
      /\ sort_by_cached(v, key) = concat([i \in DOMAIN keys |-> groups[keys[i]]])
      /\ sort_by_cached(v, key) \in sort_by(v, key)
      /\ unique(sort_by_cached(v, [x \in ToSet(v) |-> x])) = SetToSortSeq(ToSet(v), <)
      /\ unique(Reverse(v)) = Reverse(unique(v))

\* Folds from both sides, running folds and separators agree; op need not be associative.
FoldsAgree(v, w, init, op, f) ==
  LET flipped == [q \in DOMAIN op |-> op[q[2], q[1]]]
      lists   == [x \in DOMAIN f |-> <<x, f[x]>>]
  IN  /\ fold_right(v, init, op) = fold_left(Reverse(v), init, flipped)
      /\ scan(v, init, op) = [i \in DOMAIN v |-> fold_left(take_v(v, i), init, op)]
      /\ intersperse(v, init) = intercalate([i \in DOMAIN v |-> <<v[i]>>], <<init>>)
      /\ intercalate(<<v, w>>, <<>>) = v \o w
      /\ flat_map(v, lists) = concat(map(v, lists))
      /\ stride(flat_map(v, lists), 2) = v /\ stride(drop_v(flat_map(v, lists), 1), 2) = map(v, f)
      /\ zip_r(v, w) = zip(v, w)
      /\ unzip(zip(v, w)) = <<take_v(v, Size(w)), take_v(w, Size(v))>>
      /\ unzip(enumerate(v)) = <<tabulate(Size(v), [i \in 0 .. Size(v) |-> i]), v>>
      /\ LET t == zip3(v, w, v) IN \A i \in DOMAIN t : t[i] = <<zip(v, w)[i][1], zip(v, w)[i][2], v[i]>>
      /\ map_to(v, w, f) = take_v(map(v, f), Size(w)) \o drop_v(w, Size(v))

\* Among pairs with the same key the first stays, and merging two containers combines exactly the keys both have.
MapsAgree(v, w, op, p) ==
  LET a == to_map(zip(v, w))
      b == to_map(zip(w, v))
      m == merge_with(a, b, op)
  IN  /\ DOMAIN m = DOMAIN a \cup DOMAIN b
      /\ \A k \in DOMAIN m : lookup(m, k) = IF lookup(a, k) = {} THEN lookup(b, k) ELSE IF lookup(b, k) = {} THEN lookup(a, k)
                                            ELSE {op[a[k], b[k]]}
      /\ \A k \in DOMAIN a : \E i \in DOMAIN zip(v, w) : v[i] = k /\ w[i] = a[k] /\ \A j \in 1 .. i - 1 : v[j] # k
      /\ DOMAIN filter_values(m, p) = {k \in DOMAIN m : m[k] \in p}

\* A grid transposed tile by tile has its columns as rows, and the patches of a grid tile its upper left part.
GridAgrees(g, kh, kw) ==
  LET t == transpose(g)
      patches == windows2d(g, kh, kw)
      across == Columns(g) \div kw
  IN  /\ t = [j \in 1 .. Columns(g) |-> column(g, j)]
      /\ concat(concat(patches)) # <<>> =>
           \A i \in 1 .. kh * (Size(g) \div kh), j \in 1 .. kw * across :
             g[i][j] = patches[((i - 1) \div kh) * across + (j - 1) \div kw + 1][((i - 1) % kh) + 1][((j - 1) % kw) + 1]
      /\ Size(patches) = (Size(g) \div kh) * across
      /\ cartesian_product([i \in DOMAIN g |-> i], [j \in 1 .. Columns(g) |-> j])
           = concat([i \in DOMAIN g |-> [j \in 1 .. Columns(g) |-> <<i, j>>]])
=============================================================================
