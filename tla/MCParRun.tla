------------------------------ MODULE MCParRun ------------------------------
(***************************************************************************)
(* MCParRun.cfg: pools of one, two and three workers; a call from outside  *)
(* and one from inside a task of the pool.  With one worker five elements  *)
(* make four chunks of two, the last of them empty.                        *)
(*                                                                         *)
(* MCParNested.cfg: both workers of a pool run a task that calls par_map   *)
(* on that pool.  MCParReduce.cfg: par_reduce over one to nine elements.   *)
(***************************************************************************)
EXTENDS ParRun

CONSTANTS w1, w2, w3, outside, inside, none

MCPools == {{w1}, {w1, w2}, {w1, w2, w3}}
MCCalls == {outside, inside}
MCOuter == {inside}
MCKind  == [k \in MCCalls |-> IF k = outside THEN "map" ELSE "reduce"]
MCSizes == [k \in MCCalls |-> IF k = outside THEN <<{0, 5}, {3}, {2}>> ELSE <<{0, 2}, {2}, {1}>>]

NestedPools == {{w1, w2}}
NestedSizes == [k \in MCCalls |-> <<{}, {2}, {}>>]

ReducePools == {{w1}, {w1, w2}}
ReduceCalls == {outside}
ReduceOuter == {}
ReduceKind  == [k \in ReduceCalls |-> "reduce"]
ReduceSizes == [k \in ReduceCalls |-> <<1 .. 9, 1 .. 9, {}>>]
=============================================================================
