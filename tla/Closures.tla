------------------------------ MODULE Closures ------------------------------
(***************************************************************************)
(* compose.hpp, curry.hpp, combinators.hpp, memoize.hpp and the matching   *)
(* of adt.hpp.  A callable is a function of TLA+ on a finite domain, of    *)
(* several arguments a function of sequences; what an effect does is the   *)
(* entry it leaves in a log.                                               *)
(***************************************************************************)
EXTENDS Integers, FiniteSets, SequencesExt

identity(x) == x
const_(x, S) == [s \in S |-> x]
flip(f) == [q \in {<<r[2], r[1]>> : r \in DOMAIN f} |-> f[<<q[2], q[1]>>]]
on(f, g) == [q \in (DOMAIN g) \X (DOMAIN g) |-> f[<<g[q[1]], g[q[2]]>>]]
compose2(f, g) == [x \in DOMAIN g |-> f[g[x]]]
\* compose ends with the first of its functions, pipe with the last.
compose(fs) == FoldRight(LAMBDA f, rest : compose2(f, rest), Front(fs), Last(fs))
RECURSIVE pipe(_)
pipe(fs) == IF Len(fs) = 1 THEN fs[1] ELSE LET rest == pipe(Tail(fs)) IN [x \in DOMAIN fs[1] |-> rest[fs[1][x]]]

\* A step of a pipeline gives a value, or only has an effect and passes the value on.
Step(f) == [f |-> f, log |-> FALSE]
tap     == [f |-> <<>>, log |-> TRUE]
into(x) == [value |-> x, log |-> <<>>]
out(p)  == p.value
Pipe(p, step) == IF step.log THEN [p EXCEPT !.log = Append(@, p.value)] ELSE [p EXCEPT !.value = step.f[@]]
pipeline(x, steps) == FoldLeft(Pipe, into(x), steps)

when(cond, step, p) == IF cond THEN Pipe(p, step) ELSE p
unless(cond, step, p) == when(~cond, step, p)
first(f, p)  == <<f[p[1]], p[2]>>
second(f, p) == <<p[1], f[p[2]]>>
unpack(f, p) == f[<<p[1], p[2]>>]

\* curry collects the arguments of its calls until there are as many as f takes; uncurry hands its arguments
\* to one call each.
Waiting(bound) == [waiting |-> bound]
RECURSIVE Curried(_, _, _, _)
Curried(f, arity, bound, calls) ==
  IF calls = <<>> THEN Waiting(bound)
  ELSE LET now == bound \o Head(calls)
       IN  IF Len(now) = arity THEN [result |-> f[now], rest |-> Tail(calls)] ELSE Curried(f, arity, now, Tail(calls))
curry(f, arity, calls) == Curried(f, arity, <<>>, calls)
uncurry(f, args) == FoldLeft(LAMBDA g, t : g[t], f, args)

-----------------------------------------------------------------------------
\* adt: alternatives are tried in order; a condition no arm has ends in an exception.
Arm(pred, fn) == [pred |-> pred, fn |-> fn]
otherwise(S, fn) == Arm(S, fn)
NoArm == "no arm matched"
RECURSIVE cond(_, _)
cond(v, arms) == IF arms = <<>> THEN NoArm ELSE IF v \in arms[1].pred THEN arms[1].fn[v] ELSE cond(v, Tail(arms))
\* A variant <<alternative, value>> goes to the arm of its alternative.
match(variant, arms) == arms[variant[1]][variant[2]]
match_optional(o, some, none) == IF o = {} THEN none ELSE some[CHOOSE x \in o : TRUE]
match_either(e, ok_f, err_f) == IF e.ok THEN ok_f[e.value] ELSE err_f[e.error]
value_or(o, fallback) == IF o = {} THEN fallback ELSE CHOOSE x \in o : TRUE

\* maybe: of an optional.
map(o, f)         == {f[x] : x \in o}
and_then(o, f)    == UNION {f[x] : x \in o}
filter(o, pred)   == o \cap pred
or_else(o, fallback) == match_optional(o, [x \in o |-> x], fallback)
flatten(o)        == UNION o
apply(of, o)      == {f[x] : f \in of, x \in o}

-----------------------------------------------------------------------------
\* A recursive callable: to know x it asks itself for the values of needs[x], in order, and adds them to own[x].
Total(s) == FoldLeft(LAMBDA a, b : a + b, 0, s)
RECURSIVE fix(_, _)
fix(f, x) == f.own[x] + Total([i \in DOMAIN f.needs[x] |-> fix(f, f.needs[x][i])])

\* A memoized callable has a cache, shared by its copies, and here a log of the arguments f ran for.
Fresh == [cache |-> <<>>, ran |-> <<>>, value |-> 0]
Find(cache, x) == {i \in DOMAIN cache : cache[i][1] = x}
\* emplace leaves an entry that is there.
Emplace(cache, x, r) == IF Find(cache, x) = {} THEN Append(cache, <<x, r>>) ELSE cache
ValueAt(cache, x) == cache[CHOOSE i \in Find(cache, x) : TRUE][2]
\* A call of f that asks the memoized callable itself.
Through(memo(_, _, _), f, s, x) ==
  LET Ask(t, y) == LET u == memo(f, t, y) IN [u EXCEPT !.value = t.value + u.value]
      start == [s EXCEPT !.ran = Append(@, x), !.value = f.own[x]]
  IN  FoldLeft(Ask, start, f.needs[x])
RECURSIVE memoize(_, _, _)
memoize(f, s, x) ==
  IF Find(s.cache, x) # {} THEN [s EXCEPT !.value = ValueAt(s.cache, x)]
  ELSE LET t == Through(memoize, f, s, x) c == Emplace(t.cache, x, t.value) IN [t EXCEPT !.cache = c, !.value = ValueAt(c, x)]
\* memoize2 and memoizeN: the key is all arguments, and the caller gets what f returned, not the entry.
RECURSIVE memoizeN(_, _, _)
memoizeN(f, s, x) ==
  IF Find(s.cache, x) # {} THEN [s EXCEPT !.value = ValueAt(s.cache, x)]
  ELSE LET t == Through(memoizeN, f, s, x) IN [t EXCEPT !.cache = Emplace(@, x, t.value)]

-----------------------------------------------------------------------------
\* All ways of applying the same functions in the same order give the same, effects included.
ChainsAgree(fs, x, cond_) ==
  LET n == Len(fs)
      steps == [i \in 1 .. n |-> Step(fs[i])]
      seen == pipeline(x, FlattenSeq([i \in 1 .. n |-> <<tap, steps[i]>>]))
      Id(f) == when(cond_, Step(f), into(x))
  IN  /\ compose(Reverse(fs))[x] = pipe(fs)[x] /\ out(pipeline(x, steps)) = pipe(fs)[x] /\ pipeline(x, steps).log = <<>>
      /\ out(seen) = pipe(fs)[x] /\ Len(seen.log) = n /\ seen.log[1] = x /\ \A i \in 2 .. n : seen.log[i] = fs[i - 1][seen.log[i - 1]]
      /\ out(Id(fs[1])) = (IF cond_ THEN fs[1][x] ELSE identity(x)) /\ unless(~cond_, steps[1], into(x)) = Id(fs[1])
      /\ second(fs[1], first(fs[n], <<x, x>>)) = first(fs[n], second(fs[1], <<x, x>>))
      /\ map({x}, pipe(fs)) = FoldLeft(map, {x}, fs) /\ map({}, fs[1]) = {} /\ apply({fs[1]}, {x}) = map({x}, fs[1]) /\ apply({}, {x}) = {}
      /\ and_then({x}, [y \in {x} |-> filter(map({y}, fs[1]), {x})]) = filter(map({x}, fs[1]), {x}) /\ flatten({{x}}) = {x}

\* However the arguments are grouped into calls, curry calls f once with all of them in order, and with fewer it waits.
CallsAgree(f, args, cut) ==
  LET n == Len(args)
      groups == <<SubSeq(args, 1, cut), <<>>, SubSeq(args, cut + 1, n)>>
      singles == [i \in 1 .. n |-> <<args[i]>>]
      chain == [a \in {args[1]} |-> [b \in {args[2]} |-> f[<<a, b>>]]]
      same == [a \in {args[1], args[2]} |-> args[1]]
  IN  /\ curry(f, n, singles).result = f[args] /\ curry(f, n, <<args>>).result = f[args]
      /\ curry(f, n, groups).result = f[args] /\ curry(f, n, Front(singles)) = Waiting(Front(args))
      /\ cut < n => curry(f, n, groups).rest = <<>>
      /\ n = 2 => /\ flip(flip(f))[args] = f[args] /\ flip(f)[Reverse(args)] = f[args] /\ uncurry(chain, args) = f[args]
                  /\ on(f, same)[args] = f[<<args[1], args[1]>>] /\ unpack(f, args) = f[args] /\ on(f, same)[args] = on(f, const_(args[1], {args[1], args[2]}))[args]

\* The first arm that holds decides; without one and without otherwise there is an exception.
ArmsAgree(v, preds, f, g) ==
  LET arms == [i \in DOMAIN preds |-> Arm(preds[i], IF i = 1 THEN f ELSE g)]
      any  == \E i \in DOMAIN preds : v \in preds[i]
      e(b) == IF b THEN [ok |-> TRUE, value |-> v] ELSE [ok |-> FALSE, error |-> v]
  IN  /\ cond(v, arms) = (IF ~any THEN NoArm ELSE IF v \in preds[1] THEN f[v] ELSE g[v])
      /\ cond(v, Append(arms, otherwise(DOMAIN f, f))) = IF any THEN cond(v, arms) ELSE f[v]
      /\ \A b \in BOOLEAN : match_either(e(b), f, g) = match(<<IF b THEN 2 ELSE 1, v>>, <<g, f>>)
      /\ match_optional({v}, f, 0) = value_or(map({v}, f), 0) /\ match_optional({}, f, 0) = value_or({}, 0)
      /\ or_else({v}, 0) = v /\ or_else({}, v) = v

\* Memoized or not the values are the same, and f runs once for each argument that comes up; memoized around
\* fix, the arguments of the recursion never come to the cache.
MemoAgrees(f, calls) ==
  LET Values(s) == [i \in DOMAIN s |-> fix(f, s[i])]
      Around == [own |-> [x \in DOMAIN f.own |-> fix(f, x)], needs |-> [x \in DOMAIN f.own |-> <<>>]]
      Run(memo(_, _, _), g) ==
        LET Asked(t, x) == LET u == memo(g, t.s, x) IN [s |-> u, out |-> Append(t.out, u.value)]
        IN  FoldLeft(Asked, [s |-> Fresh, out |-> <<>>], calls)
      Sound(end, g) ==
        /\ end.out = Values(calls) /\ IsInjective(end.s.ran) /\ ToSet(calls) \subseteq ToSet(end.s.ran)
        /\ \A x \in ToSet(end.s.ran) : ToSet(g.needs[x]) \subseteq ToSet(end.s.ran)
        /\ \A i, j \in DOMAIN end.s.cache : end.s.cache[i][1] = end.s.cache[j][1] => i = j
  IN  /\ Sound(Run(memoize, f), f) /\ Sound(Run(memoizeN, f), f)
      /\ Sound(Run(memoizeN, Around), Around) /\ ToSet(Run(memoizeN, Around).s.ran) = ToSet(calls)
=============================================================================
