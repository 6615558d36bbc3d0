------------------------------- MODULE Parsers -------------------------------
(***************************************************************************)
(* The parser combinators of parse.hpp.  A parser is an expression         *)
(* [op, p, q, f] and Parse runs it on the remaining input s, which starts  *)
(* at offset off of the whole input.  A failure gives the offset it        *)
(* reports, `left`, how much input there was where it really failed, and   *)
(* the labels put before its message.                                      *)
(***************************************************************************)
EXTENDS Integers, Sequences, SequencesExt

CONSTANT Grammar  \* the parsers that others refer to before they are defined, by name

\* Expressions and values.
Expr(op, p, q, f) == [op |-> op, p |-> p, q |-> q, f |-> f]
Leaf(op, f) == Expr(op, {}, {}, f)
Char(c)     == <<"char", c>>
List(vs)    == <<"list", vs>>
Text(s)     == List([i \in DOMAIN s |-> Char(s[i])])
Nothing     == <<"nothing">>

Ok(v, rest)  == [ok |-> TRUE, value |-> v, rest |-> rest]
Err(off, s)  == [ok |-> FALSE, off |-> off, left |-> Len(s), labels |-> <<>>]
Drop(s, n)   == SubSeq(s, n + 1, Len(s))
Consumed(s, rest) == Len(s) - Len(rest)

satisfy(cs)    == Leaf("satisfy", cs)
string_(t)     == Leaf("string", t)
scan_while(cs) == Leaf("scan_while", cs)
scan_while1(cs) == Leaf("scan_while1", cs)
eof            == Leaf("eof", {})
succeed(v)     == Leaf("succeed", v)
unary(op, p)   == Expr(op, p, {}, {})
many(p)        == unary("many", p)
some(p)        == unary("some", p)
optional(p)    == unary("optional", p)
alt(p, q)      == Expr("alt", p, q, {})
sep_by(p, q)   == Expr("sep_by", p, q, {})
chainl1(p, q)  == Expr("chainl1", p, q, {})
map(p, f)      == Expr("map", p, {}, f)
and_then(p, f) == Expr("and_then", p, {}, f)
label(p, msg)  == Expr("label", p, {}, msg)
context(p, msg) == label(p, msg)
ref(name)      == Leaf("ref", name)
choice(ps)     == FoldRight(alt, SubSeq(ps, 1, Len(ps) - 1), Last(ps))

\* and_then continues with a parser made from the value: these are the ones the header builds,
\* and one that wants the same character again.
seq(a, b)        == and_then(a, [keep |-> "both", then |-> b])
preceded(a, b)   == and_then(a, [keep |-> "second", then |-> b])
terminated(a, b) == and_then(a, [keep |-> "first", then |-> b])
again(a)         == and_then(a, [keep |-> "same", then |-> eof])
between(open, close, p) == terminated(preceded(open, p), close)
lexeme(p, space)        == terminated(p, many(space))
\* a >> b, a << b, a | b, a >>= f, *a and a % b.
Operators(a, b, f) == {preceded(a, b), terminated(a, b), alt(a, b), and_then(a, f), many(a), sep_by(a, b)}
Continue(f, v) == CASE f.keep = "second" -> f.then
                    [] f.keep = "same"   -> satisfy({v[2]})
                    [] OTHER             -> map(f.then, [keep |-> f.keep, with |-> v])
Apply(f, v) == IF f.keep = "both" THEN <<"pair", f.with, v>> ELSE f.with

RECURSIVE Prefix(_, _)
Prefix(s, cs) == IF s = <<>> \/ Head(s) \notin cs THEN 0 ELSE 1 + Prefix(Tail(s), cs)

RECURSIVE Parse(_, _, _), Repeat(_, _, _, _), Separated(_, _, _, _), Folded(_, _, _, _)

\* The loop of many and some stops at a failure and at a parser that consumes nothing.
Repeat(p, s, cur, out) ==
  LET r == Parse(p, s, cur)
  IN  IF ~r.ok \/ Len(r.rest) = Len(s) THEN [items |-> out, rest |-> s]
      ELSE Repeat(p, r.rest, cur + Consumed(s, r.rest), Append(out, r.value))

Separated(e, s, cur, out) ==
  LET sp   == Parse(e.q, s, cur)
      at   == cur + Consumed(s, sp.rest)
      item == Parse(e.p, sp.rest, at)
  IN  IF ~sp.ok THEN Ok(List(out), s)
      ELSE IF ~item.ok THEN Err(at, sp.rest)
      ELSE Separated(e, item.rest, at + Consumed(sp.rest, item.rest), Append(out, item.value))

\* Mutant: the offset is not moved past the right operand.
FoldedStale(e, s, cur, acc) ==
  LET o   == Parse(e.q, s, cur)
      at  == cur + Consumed(s, o.rest)
      rhs == Parse(e.p, o.rest, at)
  IN  IF ~o.ok THEN Ok(acc, s)
      ELSE IF ~rhs.ok THEN rhs
      ELSE Folded(e, rhs.rest, at, <<"pair", acc, rhs.value>>)

Folded(e, s, cur, acc) ==
  LET o   == Parse(e.q, s, cur)
      at  == cur + Consumed(s, o.rest)
      rhs == Parse(e.p, o.rest, at)
  IN  IF ~o.ok THEN Ok(acc, s)
      ELSE IF ~rhs.ok THEN rhs
      ELSE Folded(e, rhs.rest, at + Consumed(o.rest, rhs.rest), <<"pair", acc, rhs.value>>)

ParseLeaf(e, s, off) ==
  CASE e.op = "satisfy" -> IF s # <<>> /\ Head(s) \in e.f THEN Ok(Char(Head(s)), Tail(s)) ELSE Err(off, s)
    [] e.op = "string"  -> IF IsPrefix(e.f, s) THEN Ok(Text(e.f), Drop(s, Len(e.f))) ELSE Err(off, s)
    [] e.op \in {"scan_while", "scan_while1"} ->
         LET n == Prefix(s, e.f)
         IN  IF n = 0 /\ e.op = "scan_while1" THEN Err(off, s) ELSE Ok(Text(SubSeq(s, 1, n)), Drop(s, n))
    [] e.op = "eof"     -> IF s = <<>> THEN Ok(Nothing, s) ELSE Err(off, s)
    [] e.op = "succeed" -> Ok(e.f, s)

Leaves == {"satisfy", "string", "scan_while", "scan_while1", "eof", "succeed"}

Parse(e, s, off) ==
  IF e.op \in Leaves THEN ParseLeaf(e, s, off)
  ELSE IF e.op = "ref" THEN Parse(Grammar[e.f], s, off)
  ELSE LET r == Parse(e.p, s, off)
       IN  CASE e.op \in {"many", "some"} ->
                  LET out == Repeat(e.p, s, off, <<>>)
                  IN  IF e.op = "some" /\ out.items = <<>> THEN Err(off, s) ELSE Ok(List(out.items), out.rest)
             [] e.op = "sep_by" -> IF ~r.ok THEN Ok(List(<<>>), s)
                                   ELSE Separated(e, r.rest, off + Consumed(s, r.rest), <<r.value>>)
             [] e.op = "chainl1" -> IF ~r.ok THEN r ELSE Folded(e, r.rest, off + Consumed(s, r.rest), r.value)
             [] e.op = "optional" -> IF r.ok THEN Ok(List(<<r.value>>), r.rest) ELSE Ok(List(<<>>), s)
             [] e.op = "alt" -> IF r.ok THEN r ELSE Parse(e.q, s, off)
             [] e.op = "map" -> IF r.ok THEN Ok(Apply(e.f, r.value), r.rest) ELSE r
             [] e.op = "and_then" -> IF ~r.ok THEN r
                                     ELSE Parse(Continue(e.f, r.value), r.rest, off + Consumed(s, r.rest))
             [] e.op = "label" -> IF r.ok THEN r ELSE [r EXCEPT !.labels = <<e.f>> \o @]
             [] e.op = "peek" -> IF r.ok THEN Ok(r.value, s) ELSE r
             [] e.op = "not_followed" -> IF r.ok THEN Err(off, s) ELSE Ok(Nothing, s)

\* run() turns the offset of an error into a line and a column; "n" stands for '\n'.
line_col(input, offset) ==
  LET At[i \in 0 .. Len(input)] == IF i = 0 THEN <<1, 1>>
                                   ELSE IF input[i] = "n" THEN <<At[i - 1][1] + 1, 1>>
                                   ELSE <<At[i - 1][1], At[i - 1][2] + 1>>
  IN  At[IF offset <= Len(input) THEN offset ELSE Len(input)]

\* run answers with the value, or with the line, the column and the message.
run(p, input) == LET r == Parse(p, input, 0)
                 IN  IF r.ok THEN [ok |-> TRUE, value |-> r.value]
                     ELSE [ok |-> FALSE, at |-> line_col(input, r.off), labels |-> r.labels]

-----------------------------------------------------------------------------
\* sep_by and chainl1 have no guard against consuming nothing: one of their two parsers must consume.
RECURSIVE Consumes(_)
Consumes(e) == CASE e.op \in {"satisfy", "scan_while1"} -> TRUE
                 [] e.op = "string" -> e.f # <<>>
                 [] e.op \in {"some", "chainl1"} -> e.op = "some" \/ Consumes(e.p)
                 [] e.op \in {"map", "label"} -> Consumes(e.p)
                 [] e.op = "and_then" -> Consumes(e.p) \/ e.f.keep = "same" \/ Consumes(e.f.then)
                 [] e.op = "alt" -> Consumes(e.p) /\ Consumes(e.q)
                 [] OTHER -> FALSE
RECURSIVE Terminates(_)
Terminates(e) == \/ e.op \in Leaves \cup {"ref"}
                 \/ /\ Terminates(e.p)
                    /\ e.op = "and_then" => e.f.keep = "same" \/ Terminates(e.f.then)
                    /\ e.op \in {"alt", "sep_by", "chainl1"} => Terminates(e.q)
                    /\ e.op \in {"sep_by", "chainl1"} => Consumes(e.p) \/ Consumes(e.q)

RECURSIVE LeftFold(_, _)
LeftFold(acc, items) == IF items = <<>> THEN acc ELSE LeftFold(<<"pair", acc, Head(items)>>, Tail(items))

\* A parser that succeeds leaves a suffix of its input, and one that fails reports the place in the
\* whole input where it really failed, however many loops and sequences it went through.
Positions(e, s, off) ==
  LET r == Parse(e, s, off)
  IN  IF r.ok THEN Drop(s, Consumed(s, r.rest)) = r.rest ELSE r.off + r.left = off + Len(s)

\* The loops agree with each other: many with some, scan_while with many, sep_by with many, and
\* chainl1 with the items sep_by finds, folded to the left.  Of sep_by this is about a list with a first
\* item: without one the code answers with an empty list, and its documentation asks for an item.
LoopsAgree(p, q, s, off) ==
  LET P(e) == Parse(e, s, off)
      list == P(sep_by(p, q))
      tail == P(seq(p, many(preceded(q, p))))
      chain == P(chainl1(p, q))
  IN  /\ P(many(p)) = P(alt(some(p), succeed(List(<<>>))))
      /\ p.op = "satisfy" => P(many(p)) = P(scan_while(p.f)) /\ P(some(p)) = P(scan_while1(p.f))
      /\ Consumes(p) => (chain.ok <=> P(p).ok /\ list.ok)
      /\ Consumes(p) /\ P(p).ok =>
           /\ chain.ok => /\ chain.rest = list.rest /\ list.rest = tail.rest
                          /\ chain.value = LeftFold(list.value[2][1], Tail(list.value[2]))
                          /\ list.value[2] = <<tail.value[2]>> \o tail.value[3][2]
           /\ ~list.ok => tail.ok /\ LET sp == Parse(q, tail.rest, off) IN sp.ok /\ ~Parse(p, sp.rest, off).ok

\* Labels change the message of a failure and nothing else, outermost first, and a choice is the first of its
\* parsers that succeeds, or fails as the last of them.
LabelsAgree(e, ps, s) ==
  LET plain == run(e, s)
      named == run(context(label(e, "inner"), "outer"), s)
      wins  == {i \in DOMAIN ps : Parse(ps[i], s, 0).ok}
      first == IF wins = {} THEN Len(ps) ELSE CHOOSE i \in wins : \A j \in wins : i <= j
  IN  /\ named = IF plain.ok THEN plain ELSE [plain EXCEPT !.labels = <<"outer", "inner">> \o @]
      /\ Parse(choice(ps), s, 0) = Parse(ps[first], s, 0)

\* A parser that refers to itself before it is defined takes balanced brackets: as many of the second
\* character as it took of the first, and nothing when there are too few.
Nests(name, open, close, s) ==
  LET n    == Prefix(s, {open})
      m    == Prefix(Drop(s, n), {close})
      r    == Parse(ref(name), s, 0)
  IN  r.ok /\ Consumed(s, r.rest) = IF m >= n THEN 2 * n ELSE 0

\* The line and the column of an offset lead back to it.
LinesAgree(s, off) ==
  LET at == line_col(s, off)
      breaks == {i \in 1 .. Len(s) : s[i] = "n"}
      before == {i \in breaks : i <= off}
      start  == IF before = {} THEN 0 ELSE CHOOSE i \in before : \A j \in before : j <= i
  IN  off <= Len(s) => at = <<Cardinality(before) + 1, off - start + 1>>
==============================================================================
