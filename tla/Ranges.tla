------------------------------- MODULE Ranges -------------------------------
(***************************************************************************)
(* The loops of ranges.hpp over ranges that are read once, their curried   *)
(* forms, and the lazy adaptors of views.hpp, beside the helpers on        *)
(* vectors of vec.hpp (module Collections).  A predicate is a set, a       *)
(* callable a function; an optional result is a sequence of at most one.   *)
(* Then the loops that write where they read (inplace.hpp), the ends,      *)
(* searches and sums of vectors (vec.hpp), and cell by cell loops over     *)
(* grids (grid.hpp); there a callable that may change its arguments is a   *)
(* function to what they are afterwards.                                   *)
(***************************************************************************)
EXTENDS Integers, FiniteSets, SequencesExt, FiniteSetsExt

V == INSTANCE Collections WITH Block <- 2

\* Elements as they come.
Each(r, Body(_)) == FoldLeft(LAMBDA out, x : out \o Body(x), <<>>, r)
map(r, f)        == Each(r, LAMBDA x : <<f[x]>>)
filter(r, p)     == Each(r, LAMBDA x : IF x \in p THEN <<x>> ELSE <<>>)
filter_map(r, f) == Each(r, LAMBDA x : IF f[x] # <<>> THEN <<f[x][1]>> ELSE <<>>)
flat_map(r, f)   == Each(r, LAMBDA x : Each(f[x], LAMBDA y : <<y>>))
concat(rs)       == Each(rs, LAMBDA r : Each(r, LAMBDA x : <<x>>))
to_vector(r)     == Each(r, LAMBDA x : <<x>>)
enumerate(r)     == FoldLeft(LAMBDA out, x : Append(out, <<Len(out), x>>), <<>>, r)
scan(r, init, op) == FoldLeft(LAMBDA s, x : LET y == op[s.acc, x] IN [acc |-> y, out |-> Append(s.out, y)], [acc |-> init, out |-> <<>>], r).out
drop(r, n) == LET Skip[i \in 0 .. Len(r)] == IF i < n /\ i # Len(r) THEN Skip[i + 1] ELSE SubSeq(r, i + 1, Len(r)) IN Skip[0]
take_while(r, p) ==
  LET Step(s, x) == IF s.going /\ x \in p THEN [s EXCEPT !.out = Append(@, x)] ELSE [s EXCEPT !.going = FALSE]
  IN  FoldLeft(Step, [going |-> TRUE, out |-> <<>>], r).out
partition(r, p)  == FoldLeft(LAMBDA s, x : [s EXCEPT ![IF x \in p THEN 1 ELSE 2] = Append(@, x)], <<<<>>, <<>>>>, r)
group_by(r, key) == [k \in {key[x] : x \in ToSet(r)} |-> Each(r, LAMBDA x : IF key[x] = k THEN <<x>> ELSE <<>>)]

\* Questions about all elements.
all(r, p)   == \A i \in DOMAIN r : r[i] \in p
any(r, p)   == \E i \in DOMAIN r : r[i] \in p
none(r, p)  == ~ \E i \in DOMAIN r : r[i] \in p
count(r, p) == Cardinality({i \in DOMAIN r : r[i] \in p})
minimum(r)  == IF r = <<>> THEN <<>> ELSE <<FoldLeft(LAMBDA m, x : IF x < m THEN x ELSE m, r[1], r)>>
maximum(r)  == IF r = <<>> THEN <<>> ELSE <<FoldLeft(LAMBDA m, x : IF m < x THEN x ELSE m, r[1], r)>>

\* Copies that are sorted or thinned out.
unique(r) == V!unique(to_vector(r))
sort(r)   == SortSeq(to_vector(r), <)
sort_by(r, key)        == V!sort_by(to_vector(r), key)
sort_by_cached(r, key) == V!sort_by_cached(r, key)
reverse(r) == Reverse(to_vector(r))

-----------------------------------------------------------------------------
\* Curried forms: [op, with, init, text], of which text says what init is.  A closure is kept and used on one range after another.
Folds == {"fold_left", "fold_right", "scan"}
Apply(s, r) ==
  CASE s.op = "map"            -> map(r, s.with)
    [] s.op = "filter"         -> filter(r, s.with)
    [] s.op = "take_while"     -> take_while(r, s.with)
    [] s.op = "drop_while"     -> V!drop_while(r, s.with)
    [] s.op = "flat_map"       -> flat_map(r, s.with)
    [] s.op = "filter_map"     -> filter_map(r, s.with)
    [] s.op = "take"           -> V!take_r(r, s.with)
    [] s.op = "drop"           -> drop(r, s.with)
    [] s.op = "chunk"          -> V!chunk_r(r, s.with)
    [] s.op = "fold_left"      -> V!fold_left(r, s.init, s.with)
    [] s.op = "fold_right"     -> V!fold_right(r, s.init, s.with)
    [] s.op = "scan"           -> scan(r, s.init, s.with)
    [] s.op = "sort_by_cached" -> sort_by_cached(r, s.with)
    [] s.op = "partition"      -> partition(r, s.with)
    [] s.op = "span"           -> V!span_r(r, s.with)
    [] s.op = "unique"         -> unique(r)
    [] s.op = "sort"           -> sort(r)
    [] s.op = "reverse"        -> reverse(r)
    [] s.op = "enumerate"      -> enumerate(r)
\* A fold hands its initial value on by moving it: a number stays, a text is empty afterwards.
Used(s) == IF s.op \in Folds /\ s.text THEN [s EXCEPT !.init = <<>>] ELSE s
Twice(s, r, t) == <<Apply(s, r), Apply(Used(s), t)>>

-----------------------------------------------------------------------------
\* Views.  The standard adaptors give each element when it is asked for.
filter_map_view(r, f) == LET shown == [i \in DOMAIN r |-> f[r[i]]] IN map(SelectSeq(shown, LAMBDA o : o # <<>>), [o \in ToSet(shown) |-> IF o = <<>> THEN 0 ELSE o[1]])
flat_map_view(r, f)   == FlattenSeq([i \in DOMAIN r |-> f[r[i]]])

\* What a view keeps of a range: a reference to a variable, or a copy of a temporary.  A view is the
\* ranges it keeps, its length when it was made, and what element i is.
hold(range) == IF range.lvalue THEN [of |-> range.of, own |-> <<>>] ELSE [of |-> "view", own |-> range.value]
Elements(kept, memory) == IF kept.of = "view" THEN kept.own ELSE memory[kept.of]
Held(ranges, memory) == LET vs == [i \in DOMAIN ranges |-> hold(ranges[i])]
                        IN  [kept |-> vs, n |-> Min({Len(Elements(vs[i], memory)) : i \in DOMAIN vs})]
At(view, memory, k, i) == Elements(view.kept[k], memory)[i]
enumerate_view(r, memory)  == Held(<<r>>, memory)
zip_view(a, b, memory)     == Held(<<a, b>>, memory)
zip3_view(a, b, c, memory) == Held(<<a, b, c>>, memory)
\* The closures keep the other range.  That of zip gives it on as a variable of its own; that of zip_with by value.
zip_closure(a, b, memory)      == Held(<<a, IF b.lvalue THEN b ELSE [lvalue |-> TRUE, of |-> "closure", value |-> <<>>]>>,
                                       [memory EXCEPT !["closure"] = b.value])
zip_with_closure(a, b, memory) == Held(<<a, b>>, memory)
Enumerated(view, memory) == [i \in 1 .. view.n |-> <<i - 1, At(view, memory, 1, i)>>]
Zipped(view, memory)     == [i \in 1 .. view.n |-> [k \in DOMAIN view.kept |-> At(view, memory, k, i)]]
ZippedWith(view, memory, f) == [i \in 1 .. view.n |-> f[At(view, memory, 1, i), At(view, memory, 2, i)]]
\* Groups, windows and steps of a range, as many as it had when the view was made.  `r | closure` keeps what
\* the call keeps.
Piped(r, memory) == Held(<<r>>, memory)
Part(view, memory, start, n) == [j \in 1 .. n |-> At(view, memory, 1, start + j)]
Groups(total, n) == IF n = 0 THEN 0 ELSE (total + n - 1) \div n
Chunks(view, memory, n)  == [k \in 1 .. Groups(view.n, n) |-> Part(view, memory, (k - 1) * n, V!Least(n, view.n - (k - 1) * n))]
Slides(view, memory, n)  == [k \in 1 .. IF n > 0 /\ view.n >= n THEN view.n - n + 1 ELSE 0 |-> Part(view, memory, k - 1, n)]
Strides(view, memory, n) == [k \in 1 .. Groups(view.n, n) |-> At(view, memory, 1, (k - 1) * n + 1)]
\* take_last hands its own copy of a temporary on as a variable, which is gone when it returns.
take_last_view(r, memory) == [Held(<<r>>, memory) EXCEPT !.kept[1] = IF r.lvalue THEN @ ELSE [of |-> "local", own |-> <<>>]]
Lasts(view, memory, n)    == LET skip == IF view.n > n THEN view.n - n ELSE 0 IN Part(view, memory, skip, view.n - skip)
\* Every place the view refers to is there.
Readable(view, there) == \A k \in DOMAIN view.kept : view.kept[k].of = "view" \/ view.kept[k].of \in there

-----------------------------------------------------------------------------
\* Loops, vectors and lazy adaptors give the same elements, and questions agree with what is kept.
LoopsAgree(r, w, p, f, op) ==
  LET maybe == [x \in DOMAIN f |-> IF x \in p THEN <<f[x]>> ELSE <<>>]
      lists == [x \in DOMAIN f |-> [i \in 1 .. x |-> f[x]]]
      self  == [x \in DOMAIN f |-> x]
  IN  /\ map(r, f) = V!map(r, f) /\ filter(r, p) = V!filter(r, p) /\ enumerate(r) = V!enumerate(r)
      /\ filter_map(r, maybe) = map(filter(r, p), f) /\ filter_map_view(r, maybe) = filter_map(r, maybe)
      /\ flat_map(r, lists) = concat(map(r, lists)) /\ flat_map_view(r, lists) = V!flat_map(r, lists)
      /\ concat(<<r, w, r>>) = V!concat(<<r, w, r>>) /\ scan(r, 1, op) = V!scan(r, 1, op)
      /\ \A n \in 0 .. 5 : drop(r, n) = V!drop_v(r, n)
      /\ take_while(r, p) = V!span_v(r, p)[1] /\ partition(r, p) = V!partition(r, p)
      /\ \A k \in {f[x] : x \in ToSet(r)} : group_by(r, f)[k] = V!group_by(r, f)[k]
      /\ all(r, p) = (filter(r, p) = r) /\ none(r, p) = (filter(r, p) = <<>>) /\ any(r, p) = ~none(r, p)
      /\ count(r, p) = Len(filter(r, p))
      /\ minimum(r) = V!take_v(sort(r), 1) /\ maximum(r) = V!take_last(sort(r), 1)
      /\ sort(r) \in sort_by(r, self) /\ sort(r) = sort_by_cached(reverse(r), self)
      /\ Len(unique(sort(r))) = Cardinality(ToSet(r))

\* A closure of a curried form does the same on every range, but for folds that begin with a text.
ClosuresAgree(s, r, t) ==
  LET twice == Twice(s, r, t)
  IN  twice[1] = Apply(s, r) /\ (~s.text => twice[2] = Apply(s, t))

\* A view of temporaries can be read when they are gone and does not change with the variables; a view of
\* variables shows what they hold when it is read.  The exceptions: the view of the closure of zip needs the
\* closure, and that of the last of a temporary what has gone.
ViewsAgree(a, b, later) ==
  LET memory == [x \in {"a", "b", "closure", "local"} |-> IF x = "a" THEN a ELSE IF x = "b" THEN b ELSE <<>>]
      after  == [memory EXCEPT !["a"] = later]
      Of(x, lvalue) == [lvalue |-> lvalue, of |-> x, value |-> memory[x]]
      Sum == [q \in (0 .. 9) \X (0 .. 9) |-> q[1] + q[2]]
  IN  \A la, lb \in BOOLEAN :
        LET now   == IF la THEN later ELSE a
            there == (IF la THEN {"a"} ELSE {}) \cup (IF lb THEN {"b"} ELSE {})
            z == zip_view(Of("a", la), Of("b", lb), memory)
            w == zip_with_closure(Of("a", la), Of("b", lb), memory)
            c == zip_closure(Of("a", la), Of("b", lb), memory)
            e == enumerate_view(Of("a", la), memory)
            t == zip3_view(Of("a", la), Of("b", lb), Of("a", la), memory)
            g == Piped(Of("a", la), memory)
            l == take_last_view(Of("a", la), memory)
        IN  /\ \A v \in {z, w, e, t, g} : Readable(v, there)
            /\ Readable(l, there) = la
            /\ Readable(c, there \cup {"closure"}) /\ Readable(c, there) = lb
            /\ Len(later) = Len(a) =>
                 /\ Zipped(z, after) = V!zip(now, b) /\ Enumerated(e, after) = enumerate(now)
                 /\ Zipped(t, after) = V!zip3(now, b, now)
                 /\ ZippedWith(w, after, Sum) = map(V!zip(now, b), Sum)
                 /\ Zipped(c, [after EXCEPT !["closure"] = b]) = V!zip(now, b)
                 /\ \A n \in 0 .. 3 : /\ Chunks(g, after, n) = V!chunk_w(now, n) /\ Slides(g, after, n) = V!slide(now, n)
                                     /\ Strides(g, after, n) = V!stride(now, n)
                                     /\ Lasts(l, [after EXCEPT !["local"] = a], n) = V!take_last(now, n)
-----------------------------------------------------------------------------
Places(r) == [i \in DOMAIN r |-> i]

\* inplace.hpp: each place is read and written once, front to back.
for_each(r, f)       == FoldLeft(LAMBDA s, i : [s EXCEPT ![i] = f[@]], r, Places(r))
for_each_index(r, f) == FoldLeft(LAMBDA s, i : [s EXCEPT ![i] = f[i - 1, @]], r, Places(r))
transform_inplace(r, f) == for_each(r, f)
fill(r, x)           == FoldLeft(LAMBDA s, i : [s EXCEPT ![i] = x], r, Places(r))
zip_for_each(a, b, f) ==
  LET Step(s, i) == IF i > Len(b) THEN s
                    ELSE LET q == f[s[1][i], s[2][i]] IN <<[s[1] EXCEPT ![i] = q[1]], [s[2] EXCEPT ![i] = q[2]]>>
  IN  FoldLeft(Step, <<a, b>>, Places(a))
zip3_for_each(a, b, c, f) ==
  FoldLeft(LAMBDA s, i : IF i > Len(b) \/ i > Len(c) THEN s ELSE [s EXCEPT ![i] = f[@, b[i], c[i]]], a, Places(a))
zip_transform_inplace(a, b, f) == FoldLeft(LAMBDA s, i : IF i > Len(b) THEN s ELSE [s EXCEPT ![i] = f[@, b[i]]], a, Places(a))

\* Swapping the ends towards the middle.
reverse_inplace(r) == FoldLeft(LAMBDA s, i : [s EXCEPT ![i] = s[Len(r) + 1 - i], ![Len(r) + 1 - i] = s[i]], r, [i \in 1 .. Len(r) \div 2 |-> i])
sort_inplace(r)         == SortSeq(r, <)
sort_by_inplace(r, key) == V!sort_by(r, key)
stable_sort_by_inplace(r, key) == V!sort_by_cached(r, key)
\* The elements move out beside their keys and back into the places from the first on.
sort_by_cached_inplace(r, key) ==
  LET keyed == V!sort_by_cached([i \in DOMAIN r |-> <<key[r[i]], r[i]>>], [q \in {<<key[r[i]], r[i]>> : i \in DOMAIN r} |-> q[1]])
  IN  FoldLeft(LAMBDA s, i : [s EXCEPT ![i] = keyed[i][2]], r, Places(r))
\* What stays moves forward over what goes, and the rest is erased.
Keep(r, Stays(_, _)) ==
  LET Step(s, i) == IF Stays(s, i) THEN [r |-> [s.r EXCEPT ![s.end + 1] = r[i]], end |-> s.end + 1] ELSE s
      kept == FoldLeft(Step, [r |-> r, end |-> 0], Places(r))
  IN  SubSeq(kept.r, 1, kept.end)
unique_inplace(r)       == Keep(r, LAMBDA s, i : s.end = 0 \/ s.r[s.end] # r[i])
remove_if_inplace(r, p) == Keep(r, LAMBDA s, i : r[i] \notin p)

-----------------------------------------------------------------------------
\* vec.hpp.  Ends of a vector, none for an empty one.
head(v) == IF v = <<>> THEN <<>> ELSE <<v[1]>>
tail(v) == IF v = <<>> THEN <<>> ELSE SubSeq(v, 2, Len(v))
last(v) == IF v = <<>> THEN <<>> ELSE <<v[Len(v)]>>
init(v) == IF v = <<>> THEN <<>> ELSE SubSeq(v, 1, Len(v) - 1)
reverse_v(v) == reverse_inplace(v)
sort_v(v)    == sort_inplace(v)
find(v, p) == LET at == {i \in DOMAIN v : v[i] \in p} IN IF at = {} THEN <<>> ELSE <<Min(at) - 1>>
contains(v, x) == \E i \in DOMAIN v : v[i] = x
count_if(v, p) == Cardinality({i \in DOMAIN v : v[i] \in p})
zip_with(a, b, f)     == [i \in 1 .. V!Least(Len(a), Len(b)) |-> f[a[i], b[i]]]
zip_with3(a, b, c, f) == [i \in 1 .. Min({Len(a), Len(b), Len(c)}) |-> f[a[i], b[i], c[i]]]
sum(v)     == FoldLeft(LAMBDA s, x : s + x, 0, v)
product(v) == FoldLeft(LAMBDA s, x : s * x, 1, v)
maximum_v(v) == IF v = <<>> THEN <<>> ELSE <<Max(ToSet(v))>>
minimum_v(v) == IF v = <<>> THEN <<>> ELSE <<Min(ToSet(v))>>
\* Steps are not negative here: from a smaller number the code would not stop.
range(from, to, step) == IF step = 0 THEN <<>> ELSE [k \in 1 .. IF from < to THEN (to - from + step - 1) \div step ELSE 0 |-> from + (k - 1) * step]

-----------------------------------------------------------------------------
\* grid.hpp.  Rows need not have one length.
Mapped(row, f)      == FoldLeft(LAMBDA out, x : Append(out, f[x]), <<>>, row)
map2d(g, f)         == FoldLeft(LAMBDA out, row : Append(out, Mapped(row, f)), <<>>, g)
map3d(c, f)         == FoldLeft(LAMBDA out, plane : Append(out, map2d(plane, f)), <<>>, c)
flatten(g)          == FoldLeft(LAMBDA out, row : out \o row, <<>>, g)
for_each_cell(rows, cols) == [k \in 1 .. rows * cols |-> <<(k - 1) \div cols, (k - 1) % cols>>]
map2d_indexed(g, f) == [i \in DOMAIN g |-> [j \in DOMAIN g[i] |-> f[i - 1, j - 1, g[i][j]]]]
map2d_inplace(g, f) == FoldLeft(LAMBDA s, i : [s EXCEPT ![i] = for_each(@, f)], g, Places(g))

-----------------------------------------------------------------------------
\* Writing in place gives what the copying helper gives, and what is past the shorter range stays.
PlacesAgree(r, w, p, f, op, key) ==
  LET swap  == [q \in DOMAIN op |-> <<q[2], q[1]>>]
      later == [t \in (DOMAIN f) \X (DOMAIN f) \X (DOMAIN f) |-> op[t[1], t[3]] + t[2]]
      n     == V!Least(Len(r), Len(w))
      swapped == zip_for_each(r, w, swap)
  IN  /\ transform_inplace(r, f) = V!map(r, f) /\ for_each_index(r, op) = zip_with([i \in DOMAIN r |-> i - 1], r, op)
      /\ fill(r, 7) = V!replicate(Len(r), 7)
      /\ swapped = <<V!take_v(w, n) \o V!drop_v(r, n), V!take_v(r, n) \o V!drop_v(w, n)>>
      /\ zip_for_each(swapped[1], swapped[2], swap) = <<r, w>>
      /\ zip_transform_inplace(r, w, op) = zip_with(r, w, op) \o V!drop_v(r, n)
      /\ zip3_for_each(r, w, w, later) = zip_with3(r, w, w, later) \o V!drop_v(r, n)
      /\ reverse_v(r) = Reverse(r)
      /\ sort_by_cached_inplace(r, key) = stable_sort_by_inplace(r, key) /\ stable_sort_by_inplace(r, key) \in sort_by_inplace(r, key)
      /\ sort_v(r) = V!sort_by_cached(r, [x \in ToSet(r) |-> x])
      /\ unique_inplace(r) = V!unique(r) /\ remove_if_inplace(r, p) = V!partition(r, p)[2]

\* Ends put together again, searches, counts and sums.
EndsAgree(v, p, x) ==
  /\ head(v) \o tail(v) = v /\ init(v) \o last(v) = v
  /\ head(reverse_v(v)) = last(v) /\ tail(reverse_v(v)) = reverse_v(init(v))
  /\ find(v, p) = IF V!drop_while(v, {y \in ToSet(v) : y \notin p}) = <<>> THEN <<>>
                  ELSE <<Len(V!take_while(v, {y \in ToSet(v) : y \notin p}))>>
  /\ contains(v, x) = (find(v, {x}) # <<>>) /\ count_if(v, p) = Len(V!filter(v, p))
  /\ sum(v) = sum(sort_v(v)) /\ (product(v) = 0) = contains(v, 0) /\ sum(range(0, Len(v), 1)) * 2 = Len(v) * Len(v) - Len(v)
  /\ minimum_v(v) = head(sort_v(v)) /\ maximum_v(v) = last(sort_v(v))
  /\ \A step \in 1 .. 3 : range(0, x, step) = V!stride(range(0, x, 1), step)

\* Nested loops visit every cell once, row by row.
CellsAgree(g, f) ==
  LET cells == for_each_cell(Len(g), Len(g[1]))
      third == [t \in (0 .. Len(g) - 1) \X (0 .. Len(g[1]) - 1) \X ToSet(flatten(g)) |-> <<t[1], t[2]>>]
  IN  /\ map2d(g, f) = map2d_inplace(g, f) /\ map3d(<<g, g>>, f) = <<map2d(g, f), map2d(g, f)>>
      /\ flatten(map2d(g, f)) = V!map(flatten(g), f) /\ flatten(g) = [k \in DOMAIN cells |-> g[cells[k][1] + 1][cells[k][2] + 1]]
      /\ flatten(map2d_indexed(g, third)) = cells
=============================================================================
