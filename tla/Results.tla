------------------------------ MODULE Results ------------------------------
(***************************************************************************)
(* Either and what is built on it: Result (one message), Validation (a     *)
(* list of messages) and Outcome (an Error with a code and a cause), of    *)
(* either.hpp, maybe.hpp, result.hpp, validation.hpp and error.hpp.  An    *)
(* optional is a set of at most one value, void the value Unit, a call that  *)
(* may throw a record of what it returns or throws, and a side effect an     *)
(* entry of a log.                                                           *)
(***************************************************************************)
EXTENDS Integers, FiniteSets, SequencesExt

ok(v)       == [ok |-> TRUE, value |-> v]
err(e)      == [ok |-> FALSE, error |-> e]
invalid(m)  == err(<<m>>)
valid(v)    == ok(v)
Unit        == <<>>
fail(m)     == <<err(m), err(<<m>>)>>  \* what a Failure converts to, as a Result and as a Validation

\* either.hpp
map(e, f)         == IF e.ok THEN ok(f[e.value]) ELSE e
and_then(e, f)    == IF e.ok THEN f[e.value] ELSE e
or_else(e, f)     == IF e.ok THEN e.value ELSE f[e.error]
map_error(e, f)   == IF e.ok THEN e ELSE err(f[e.error])
flatten(e)        == IF e.ok THEN e.value ELSE e
to_optional(e)    == IF e.ok THEN {e.value} ELSE {}
rights(es)        == LET oks == SelectSeq(es, LAMBDA e : e.ok) IN [i \in DOMAIN oks |-> oks[i].value]
lefts(es)         == LET bad == SelectSeq(es, LAMBDA e : ~e.ok) IN [i \in DOMAIN bad |-> bad[i].error]
bimap(e, f, g)    == IF e.ok THEN ok(g[e.value]) ELSE err(f[e.error])
swap(e)           == IF e.ok THEN err(e.value) ELSE ok(e.error)
ok_or(o, e)       == IF o # {} THEN ok(CHOOSE v \in o : TRUE) ELSE err(e)
bind(e, f)        == and_then(e, f)              \* e >>= f
pipe(e, fs)       == FoldLeft(map, e, fs)        \* into(e) | f | g ...
tap_ok(s, e)      == [e |-> e, log |-> IF e.ok THEN Append(s, <<"ok", e.value>>) ELSE s]
tap_err(s, e)     == [e |-> e, log |-> IF e.ok THEN s ELSE Append(s, <<"err", e.error>>)]

\* What a call that may throw does; an exception that is no std::exception has no text.
returns(v)        == [throws |-> FALSE, value |-> v]
throws(what)      == [throws |-> TRUE, what |-> what]
value(e)          == IF e.ok THEN returns(e.value) ELSE throws({"bad_variant_access"})
error_of(e)       == IF e.ok THEN throws({"bad_variant_access"}) ELSE returns(e.error)
expect(e, msg)    == IF e.ok THEN returns(e.value) ELSE throws({msg})

\* maybe.hpp: collect stops at the first that has nothing.
collect(os) == IF \E i \in DOMAIN os : os[i] = {} THEN {} ELSE {[i \in DOMAIN os |-> CHOOSE v \in os[i] : TRUE]}

\* result.hpp: the first error ends the loop.
RECURSIVE SequenceFrom(_, _, _)
SequenceFrom(rs, i, out) == IF i > Len(rs) THEN ok(out) ELSE IF ~rs[i].ok THEN rs[i] ELSE SequenceFrom(rs, i + 1, Append(out, rs[i].value))
from_optional(o, msg) == IF o # {} THEN ok(CHOOSE v \in o : TRUE) ELSE err(msg)
try_(call)         == IF ~call.throws THEN ok(call.value)
                      ELSE err(IF call.what = {} THEN "unknown exception" ELSE CHOOSE m \in call.what : TRUE)
unwrap(r)          == IF r.ok THEN returns(r.value) ELSE throws({<<"unwrap on error: ">> \o r.error})
to_expected(r)     == IF r.ok THEN [has_value |-> TRUE, held |-> r.value] ELSE [has_value |-> FALSE, held |-> r.error]
from_expected(x)   == IF x.has_value THEN ok(x.held) ELSE err(x.held)
sequence(rs)       == SequenceFrom(rs, 1, <<>>)
RECURSIVE TraverseFrom(_, _, _, _)
TraverseFrom(v, f, i, out) == IF i > Len(v) THEN ok(out) ELSE LET r == f[v[i]] IN IF ~r.ok THEN r ELSE TraverseFrom(v, f, i + 1, Append(out, r.value))
traverse(v, f)     == TraverseFrom(v, f, 1, <<>>)
transpose_o(o)     == IF o = {} THEN ok({}) ELSE LET r == CHOOSE r \in o : TRUE IN IF r.ok THEN ok({r.value}) ELSE r
transpose_r(r)     == IF ~r.ok THEN {r} ELSE IF r.value = {} THEN {} ELSE {ok(CHOOSE v \in r.value : TRUE)}
combine2(a, b)     == IF ~a.ok THEN a ELSE IF ~b.ok THEN b ELSE ok(<<a.value, b.value>>)
context(r, prefix) == IF r.ok THEN r ELSE err(prefix \o r.error)
\* Messages are sequences here, joined with a separator.
collect_all(rs, sep) ==
  LET errors == lefts(rs)
  IN  IF errors = <<>> THEN ok(rights(rs))
      ELSE err(FoldLeft(LAMBDA out, i : out \o (IF i > 1 THEN sep ELSE <<>>) \o errors[i], <<>>, [i \in DOMAIN errors |-> i]))

-----------------------------------------------------------------------------
\* validation.hpp: all messages, in the order of the inputs.
validate_all(vs) ==
  LET Step(s, v) == IF v.ok THEN [s EXCEPT !.out = Append(@, v.value)] ELSE [s EXCEPT !.errs = @ \o v.error]
      end == FoldLeft(Step, [errs |-> <<>>, out |-> <<>>], vs)
  IN  IF end.errs = <<>> THEN ok(end.out) ELSE err(end.errs)
ErrorsOf(v) == IF v.ok THEN <<>> ELSE v.error
\* combine2 and combine call the maker when there are no messages; value() of a failed one throws.
Throws == [ok |-> FALSE, error |-> "bad_variant_access"]
combine(vs, make) == LET errors == FoldLeft(LAMBDA all, v : all \o ErrorsOf(v), <<>>, vs)
                     IN  IF errors # <<>> THEN err(errors)
                         ELSE IF \E i \in DOMAIN vs : ~vs[i].ok THEN Throws ELSE ok(make[[i \in DOMAIN vs |-> vs[i].value]])
combine2_v(a, b, make) == LET errs == ErrorsOf(a) \o ErrorsOf(b)
                          IN  IF errs # <<>> THEN err(errs) ELSE IF ~a.ok \/ ~b.ok THEN Throws ELSE ok(make[<<a.value, b.value>>])
merge(a, b)        == IF a.ok /\ b.ok THEN ok(a.value) ELSE err(ErrorsOf(a) \o ErrorsOf(b))
traverse_v(v, f)   == LET rs == [i \in DOMAIN v |-> f[v[i]]]
                          errors == FlattenSeq(lefts(rs))
                      IN  IF errors # <<>> THEN err(errors) ELSE ok(rights(rs))
to_result(v)       == IF v.ok THEN v ELSE err(IF v.error = <<>> THEN "validation failed" ELSE Head(v.error))
check(p, msg, x)   == IF x \in p THEN valid(x) ELSE invalid(msg)
validate_none(vs, p, msg) == LET bad == SelectSeq(vs, LAMBDA x : x \in p)
                             IN  IF bad = <<>> THEN valid(vs) ELSE err([i \in DOMAIN bad |-> msg])
validate_any(vs, p, msg)  == IF \E i \in DOMAIN vs : vs[i] \in p THEN valid(vs) ELSE invalid(msg)

-----------------------------------------------------------------------------
\* error.hpp: a chain of errors, the outermost first.  where is the place an error was made at, which == ignores.
errc               == {"cancelled", "timeout", "invalid", "not_found"}
error(msg, code, where) == [code |-> code, message |-> msg, causes |-> <<>>, where |-> where]
to_error(x, where) == CASE x.kind = "error" -> x.held
                        [] x.kind = "text"  -> error(x.held, "none", where)
                        [] x.kind = "code"  -> error(<<"message of", x.held>>, x.held, where)
with_context(o, msg, where) == IF o.ok THEN o ELSE err([code |-> o.error.code, message |-> msg, causes |-> <<o.error>>, where |-> where])
RECURSIVE root_cause(_), to_string(_), Same(_, _)
root_cause(e) == IF e.causes = <<>> THEN e ELSE root_cause(Last(e.causes))
to_string(e)  == FoldLeft(LAMBDA out, c : out \o to_string(c), <<e.message>>, e.causes)
Same(a, b)    == /\ a.code = b.code /\ a.message = b.message /\ Len(a.causes) = Len(b.causes)
                 /\ \A i \in DOMAIN a.causes : Same(a.causes[i], b.causes[i])
outcome_to_result(o)    == IF o.ok THEN o ELSE err(to_string(o.error))
from_result(r, code, where) == IF r.ok THEN r ELSE err(error(r.error, code, where))
RECURSIVE Wrapped(_, _, _)
Wrapped(o, msgs, place) == IF msgs = <<>> THEN o ELSE with_context(Wrapped(o, Tail(msgs), place), Head(msgs), place + Len(msgs))

-----------------------------------------------------------------------------
\* The combinators of one Either keep to one story.
EitherAgrees(e, f, g, k) ==
  LET wrap  == [v \in DOMAIN f |-> ok(f[v])]
      id    == [v \in {ok(w) : w \in DOMAIN f} \cup {err(m) : m \in DOMAIN g} |-> v]
  IN  /\ map(e, f) = and_then(e, wrap)
      /\ and_then(ok(e), id) = flatten(ok(e)) /\ flatten(ok(e)) = e
      /\ bimap(e, g, f) = map_error(map(e, f), g) /\ swap(swap(e)) = e
      /\ bimap(e, g, f) = swap(bimap(swap(e), f, g))
      /\ and_then(and_then(e, k), k) = and_then(e, [v \in DOMAIN k |-> and_then(k[v], k)])
      /\ ok_or(to_optional(e), e) = (IF e.ok THEN e ELSE err(e)) /\ to_optional(e) = {rights(<<e>>)[i] : i \in DOMAIN rights(<<e>>)}
      /\ transpose_o(transpose_r(map(e, [v \in DOMAIN f |-> {v}]))) = map(e, [v \in DOMAIN f |-> {v}])
      /\ transpose_r(transpose_o({e})) = {e} /\ transpose_r(transpose_o({})) = {}
      /\ or_else(map(e, f), g) = IF e.ok THEN f[e.value] ELSE g[e.error]
      /\ bind(bind(e, k), wrap) = map(bind(e, k), f) /\ pipe(e, <<f, f>>) = map(e, [v \in DOMAIN f |-> f[f[v]]])

\* What leaves an Either comes back: through an optional, an std::expected or an exception, whose text is the
\* error with what the thrower puts before it.  A pair of taps runs one of its two effects, once, and changes nothing.
ExitsAgree(e, msg) ==
  LET text == IF e.ok THEN e ELSE err(<<e.error>>)
      seen == tap_err(<<>>, e)
      both == tap_ok(seen.log, seen.e)
  IN  /\ try_(unwrap(text)) = context(text, <<"unwrap on error: ">>)
      /\ try_(expect(e, msg)) = from_optional(to_optional(e), msg)
      /\ value(e).throws # error_of(e).throws /\ swap(e).ok = value(e).throws /\ try_(throws({})) = err("unknown exception")
      /\ from_expected(to_expected(e)) = e /\ from_optional(to_optional(e), msg) = ok_or(to_optional(e), msg)
      /\ both.e = e /\ both.log = <<IF e.ok THEN <<"ok", e.value>> ELSE <<"err", e.error>>>>

\* A list of results: those that stop at the first error report it, those that collect report all errors
\* in order, and all of them succeed with the same values exactly when nothing failed.  A Validation that
\* fails without a message is left out.
ListsAgree(rs) ==
  LET vs    == [i \in DOMAIN rs |-> IF rs[i].ok THEN rs[i] ELSE err(<<rs[i].error>>)]
      id    == [r \in ToSet(rs) |-> r]
      idv   == [r \in ToSet(vs) |-> r]
      all   == validate_all(vs)
      texts == [i \in DOMAIN rs |-> IF rs[i].ok THEN rs[i] ELSE err(<<rs[i].error>>)]
      bag   == [s \in {rights(rs)} |-> s]
  IN  /\ traverse(rs, id) = sequence(rs)
      /\ to_result(all) = sequence(rs) /\ traverse_v(vs, idv) = all
      /\ all = IF lefts(rs) = <<>> THEN ok(rights(rs)) ELSE err(lefts(rs))
      /\ collect_all(texts, <<>>) = all
      /\ combine(vs, bag) = all
      /\ to_optional(sequence(rs)) = collect([i \in DOMAIN rs |-> to_optional(rs[i])])
      /\ Len(rs) = 2 => /\ combine2(rs[1], rs[2]) = sequence(rs) /\ combine2_v(vs[1], vs[2], bag) = all
                        /\ merge(vs[1], vs[2]) = IF all.ok THEN vs[1] ELSE all
      /\ \A i \in DOMAIN rs : rs[i].ok \/ fail(rs[i].error) = <<rs[i], vs[i]>>

\* The predicates on a whole list agree with a check of each element.
ChecksAgree(xs, p, msg) ==
  LET each == validate_all([i \in DOMAIN xs |-> check(p, msg, xs[i])])
  IN  /\ validate_none(xs, ToSet(xs) \ p, msg) = each
      /\ validate_any(xs, p, msg).ok <=> xs # <<>> /\ ~validate_none(xs, p, msg).ok

\* Contexts are added at the outside: the text lists them outermost first and the root keeps its message, its code
\* and the place it was made at, while == takes chains made at other places for the same.
ChainsAgree(msgs, root, code) ==
  LET start == from_result(err(root), code, 0)
      o     == Wrapped(start, msgs, 0)
      moved == Wrapped(from_result(err(root), code, 9), msgs, 9)
  IN  /\ outcome_to_result(o) = err(Append(msgs, root)) /\ root_cause(o.error) = error(root, code, 0) /\ o.error.code = code
      /\ o.error.where = Len(msgs) /\ Same(o.error, moved.error) /\ o # moved
      /\ \A i \in DOMAIN msgs : ~Same(o.error, Wrapped(start, RemoveAt(msgs, i), 0).error)
      /\ Wrapped(from_result(ok(Unit), code, 0), msgs, 0) = ok(Unit)
      /\ to_error([kind |-> "error", held |-> o.error], 5) = o.error
      /\ Same(to_error([kind |-> "text", held |-> root], 5), from_result(err(root), "none", 0).error)
      /\ code \in errc => to_error([kind |-> "code", held |-> code], 0).code = code
=============================================================================
