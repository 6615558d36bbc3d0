-------------------------------- MODULE MCTasks --------------------------------
(***************************************************************************)
(* Instances of Futures for TLC: one expression for each way in which the  *)
(* combinators meet.                                                       *)
(***************************************************************************)
EXTENDS Futures

Node(kind, of, source, ends) ==
  [kind |-> kind, of |-> of, inner |-> 0, source |-> source, token |-> FALSE, ends |-> ends]
WithToken(n)    == [n EXCEPT !.token = TRUE]
WithInner(n, i) == [n EXCEPT !.inner = i]

Endless == {"cancelled"}   \* polls its token and does nothing else
NoEnd   == {}

\* spawn(tok).then().and_then(-> endless task).recover().then()
ChainGraph == <<WithToken(Node("producer", <<>>, 1, {"ok", "error", "cancelled", "thrown"})),
                Node("then", <<1>>, 1, {"ok", "thrown"}),
                WithInner(Node("and_then", <<2>>, 1, {"thrown"}), 4),
                Node("producer", <<>>, 4, Endless),
                Node("recover", <<3>>, 1, {"ok", "error"})>>

\* timeout(race({endless, task.then()}))
RaceGraph == <<WithToken(Node("producer", <<>>, 1, Endless)),
               Node("producer", <<>>, 2, {"ok", "cancelled"}),
               Node("then", <<2>>, 2, {"ok"}),
               Node("race", <<1, 3>>, 4, NoEnd),
               Node("timeout", <<4>>, 4, NoEnd)>>

\* join({race({}), retry(tok).then()}), join({})
JoinGraph == <<Node("race", <<>>, 1, NoEnd),
               WithToken(Node("retry", <<>>, 2, {"ok", "error", "thrown"})),
               Node("then", <<2>>, 2, {"ok"}),
               Node("join", <<1, 3>>, 0, NoEnd),
               Node("join", <<>>, 0, NoEnd)>>

\* a race in which a contestant may throw
ThrowGraph == <<Node("producer", <<>>, 1, {"ok", "thrown"}),
                Node("producer", <<>>, 2, Endless),
                Node("race", <<1, 2>>, 3, NoEnd)>>

\* async_map(timeout(race({a, b}))), async_sequence({a', b', c'}), async_sequence({})
FutureGraph == <<Node("async", <<>>, 0, {"ok", "error", "thrown"}),
                 Node("async", <<>>, 0, {"ok", "thrown"}),
                 Node("first", <<1, 2>>, 0, NoEnd),
                 Node("deadline", <<3>>, 0, NoEnd),
                 Node("map", <<4>>, 0, {"ok", "thrown"})>>
SequenceGraph == <<Node("async", <<>>, 0, {"ok", "error", "thrown"}),
                   Node("again", <<>>, 0, {"ok", "error"}),
                   Node("async", <<>>, 0, {"ok", "error"}),
                   Node("sequence", <<1, 2, 3>>, 0, NoEnd),
                   Node("sequence", <<>>, 0, NoEnd)>>

\* Async::then().and_then(), with a detached retry that may throw
AsyncGraph == <<Node("async", <<>>, 0, {"ok", "thrown"}),
                Node("async_then", <<1>>, 0, {"ok", "thrown"}),
                WithInner(Node("async_and_then", <<2>>, 0, {"thrown"}), 4),
                Node("async", <<>>, 0, {"ok", "thrown"}),
                Node("again", <<>>, 0, {"ok", "thrown"})>>

AllGraphs == {ChainGraph, RaceGraph, JoinGraph, ThrowGraph, FutureGraph, SequenceGraph, AsyncGraph}
=============================================================================
