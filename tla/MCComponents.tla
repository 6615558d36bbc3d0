------------------------------ MODULE MCComponents ------------------------------
(***************************************************************************)
(* Instances for TLC of the components that keep state and run in one      *)
(* thread, or in few: each behaviour exercises one of them.                *)
(***************************************************************************)
EXTENDS Components, FiniteSets, TLC

VARIABLES component

\* An arena with blocks of eight bytes, aligned to four.
ArenaRequests == {<<1, 1>>, <<3, 2>>, <<6, 8>>, <<9, 0>>}

\* Two threads, two types, an alias of one of them, and a name that is given twice.
ThreeInfos == {[id |-> "Point", name |-> "Point"], [id |-> "Point", name |-> "Pt"],
               [id |-> "Pair", name |-> "Pt"], [id |-> "Pair", name |-> ""]}

\* Places where owners live are alike. What is put into a block of an owner:
AlikeOwners == Permutations(Owners)
SomeContents == {<<>>, <<1>>}

\* Pipelines with every stage, with stages that end before and after others, and the channel alone.
StreamItems == 0 .. 3
map == [op |-> "map", n |-> 0, f |-> [i \in StreamItems |-> (2 * i) % 4], pred |-> StreamItems, init |-> 0,
        step |-> [q \in StreamItems \X StreamItems |-> (3 * q[1] + q[2]) % 4]]
scan          == [map EXCEPT !.op = "scan"]
concat        == [map EXCEPT !.op = "concat"]
filter(S)     == [map EXCEPT !.op = "filter", !.pred = S]
take(k)       == [map EXCEPT !.op = "take", !.n = k]
take_while(S) == [map EXCEPT !.op = "take_while", !.pred = S]
SomePipelines == {<<map, filter({2}), take(2)>>, <<take(2), concat, scan>>, <<filter({1}), take_while({1}), concat>>, <<concat, concat>>,
                  <<concat, take_while({1})>>, <<concat, take(3), scan>>, <<scan, filter({0, 1, 2}), map>>, <<>>}

VARIABLES settings, original, saved, in_raw, before, enabled
ATerminal == INSTANCE Terminal WITH Flags <- {"ICANON", "ECHO", "ISIG"}, MaxCalls <- 3

\* Chunks of two, inputs of none to three chunks.
SumInputs == {<<>>, <<1>>, <<1, 2, 3>>, <<3, 2, 1, 3, 2>>}

\* Tiles of two by two and groups of four lanes, on shapes that fill them and that do not; launches of three.
VARIABLES job, group, item_pc, reg, local, out
ExpTable == [d \in -8 .. 0 |-> 2 ^ (8 + d)]
Elements(k, q) == [i \in 1 .. k |-> ((i * q) % 5) - 1]
Pairs(v) == [i \in DOMAIN v |-> <<v[i], 1>>]
Job(op, batches, m, k, cols) ==
  [op |-> op, batches |-> batches, m |-> m, k |-> k, n |-> cols,
   a |-> Pairs(Elements(IF op = "matmul" THEN batches * m * k ELSE m * cols, 2)),
   b |-> Pairs(Elements(IF op = "matmul" THEN batches * k * cols ELSE 0, 3))]
SomeJobs == {Job("matmul", 1, 3, 3, 2), Job("matmul", 2, 1, 1, 2), Job("transpose", 1, 3, 0, 2), Job("transpose", 1, 1, 0, 3),
             Job("softmax", 1, 2, 0, 3), Job("softmax", 1, 1, 0, 4),
             \* refused, empty, or without terms
             Job("softmax", 1, 1, 0, 5), [Job("softmax", 1, 2, 0, 3) EXCEPT !.n = 4], [Job("transpose", 1, 2, 0, 3) EXCEPT !.m = 1],
             [Job("matmul", 1, 2, 2, 2) EXCEPT !.k = 3], Job("softmax", 1, 0, 0, 3), Job("transpose", 1, 0, 0, 3), Job("matmul", 1, 2, 0, 2)}
Tiles == INSTANCE GpuTiles WITH tile <- 2, work_group_size <- 4, Junk <- 77, Exp <- ExpTable, Jobs <- SomeJobs, pc <- item_pc
SequencesTo(S, k) == UNION {[1 .. l -> S] : l \in 0 .. k}
DeviceOperands == SequencesTo(0 .. 2, 4) \X {<<>>, <<2>>, <<1, 2>>, <<0, 2, 1>>}
Twice == [x \in 0 .. 9 |-> 2 * x]
TwiceAndMore == [q \in (0 .. 30) \X (0 .. 9) |-> q[1] * 2 + q[2]]
Kernels == INSTANCE GpuKernels WITH tile <- 2, work_group_size <- 3, Exp <- ExpTable

\* Types with the same fields in another order, of other types, nested, by index and by a table; one has
\* more fields than are detected.
Leaf(name, form, traits) == [name |-> name, form |-> form, traits |-> traits, fields |-> <<>>, names |-> <<>>, pointers |-> <<>>]
int    == Leaf("int", "number", {"integral"})
float  == Leaf("float", "number", {"floating"})
bool   == Leaf("bool", "number", {"integral", "bool"})
string == Leaf("string", "text", {"class"})
Struct(name, form, names, types) ==
  [name |-> name, form |-> form, traits |-> {IF form = "array" THEN "array" ELSE "class"}, fields |-> types,
   names |-> [i \in DOMAIN names |-> <<names[i]>>], pointers |-> IF form = "access" THEN <<2, 1>> ELSE <<>>]
Point == Struct("Point", "aggregate", <<"a", "b">>, <<int, float>>)
Types == {Point, Struct("Q", "aggregate", <<"b", "a">>, <<float, int>>), Struct("N", "aggregate", <<"p", "a">>, <<Point, int>>),
          Struct("M", "aggregate", <<"a", "p">>, <<float, Point>>), Struct("R", "aggregate", <<"b", "s", "r">>, <<int, string, Leaf("raw", "plain", {"union"})>>),
          Struct("V", "aggregate", <<"a", "v">>, <<int, Leaf("vector", "opaque", {"class"})>>), Struct("S", "aggregate", <<"a">>, <<string>>),
          Struct("F", "aggregate", <<"a", "b", "c", "d">>, <<int, int, int, int>>), Struct("int[3]", "array", <<"", "", "">>, <<int, int, int>>),
          Struct("pair", "tuple", <<"first", "second">>, <<bool, float>>), Struct("W", "access", <<"v", "a">>, <<int, int>>)}
ValuesOf(t) == IF t.fields = <<>> THEN {0, 1} ELSE {<<x, y>> : x \in {0, 1}, y \in {0, 1}}
Objects(t) == CASE Len(t.fields) = 1 -> {<<x>> : x \in ValuesOf(t.fields[1])}
                [] Len(t.fields) = 2 -> {<<x, y>> : x \in ValuesOf(t.fields[1]), y \in ValuesOf(t.fields[2])}
                [] OTHER             -> [DOMAIN t.fields -> {0, 1}]
Spellings == (SequencesTo({"x", "y"}, 3) \ {<<>>}) \X {<<>>, <<"<", "A", ",", "B", ">">>, <<"(", ")">>}
Enums == {e \in {[signed |-> s, bits |-> b, names |-> SubSeq(<<"A", "B", "C">>, 1, Len(v)), values |-> v] :
                    s \in BOOLEAN, b \in {3, 5}, v \in SequencesTo(-3 .. 9, 3)} :
            \A i \in DOMAIN e.values : e.values[i] \in IF ~e.signed THEN 0 .. 2 ^ e.bits - 1 ELSE -(2 ^ (e.bits - 1)) .. 2 ^ (e.bits - 1) - 1}
Reflected == INSTANCE Reflection WITH max_fields <- 3, ScanBits <- 3

VARIABLES operand
None == <<>>

arenaVars    == <<blocks, live, marks>>
registryVars == <<snapshot, mutex_, copy, view, written, pending>>
ownerVars    == <<family, holds, heap, raw, misfreed, next_id, value>>
guardVars    == <<scopes, uncaught, ended>>
reduceVars   == <<input, pc, partials, readback, commands, loose, result, calls>>
terminalVars == <<settings, original, saved, in_raw, before, enabled>>
parVars      == <<kind, n, pool, stop, submitted, at, status, done, caller, got>>

tileVars     == <<job, group, item_pc, reg, local, out>>
streamVars   == <<stages, queue, own, acc, sent, log, collected, vectors, turn, back>>

Components == {"Arena", "Registry", "Owners", "ScopeGuards", "GpuReduce", "GpuTiles", "Terminal", "CancellablePar", "Streams", "Pure"}

\* What Terminal and CancellablePar choose is chosen only where they are exercised.
Init == /\ component \in Components
        /\ AnArena!Init /\ ARegistry!Init /\ SomeOwners!Init /\ Guards!Init /\ Reduction!Init
        /\ ATerminal!Init /\ Chunked!Init /\ Tiles!Init /\ AStream!Init /\ operand = None
        /\ component # "Terminal" => settings = {"ICANON", "ECHO"}
        /\ component # "Owners" => family = "buffer"
        /\ component # "GpuTiles" => job = Job("transpose", 1, 1, 0, 3)
        /\ component # "CancellablePar" => kind = "map" /\ n = 0 /\ pool = 1
        /\ component # "Streams" => stages = <<>>

\* What an algorithm without state is given.
Given(name, operands) == operand = None /\ operand' \in {name} \X operands
Pure == \/ Given("fields", Types \X Types)
        \/ Given("names", Spellings)
        \/ Given("enum", Enums)
        \/ Given("device", DeviceOperands)
        \/ Given("batches", (0 .. 7) \X (0 .. 7))

Next ==
  \/ component = "Arena" /\ AnArena!Next
     /\ UNCHANGED <<component, operand, registryVars, ownerVars, guardVars, reduceVars, tileVars, terminalVars, parVars, streamVars>>
  \/ component = "Registry" /\ ARegistry!Next
     /\ UNCHANGED <<component, operand, arenaVars, ownerVars, guardVars, reduceVars, tileVars, terminalVars, parVars, streamVars>>
  \/ component = "Owners" /\ SomeOwners!Next
     /\ UNCHANGED <<component, operand, arenaVars, registryVars, guardVars, reduceVars, tileVars, terminalVars, parVars, streamVars>>
  \/ component = "ScopeGuards" /\ Guards!Next
     /\ UNCHANGED <<component, operand, arenaVars, registryVars, ownerVars, reduceVars, tileVars, terminalVars, parVars, streamVars>>
  \/ component = "GpuReduce" /\ Reduction!Next
     /\ UNCHANGED <<component, operand, arenaVars, registryVars, ownerVars, guardVars, tileVars, terminalVars, parVars, streamVars>>
  \/ component = "GpuTiles" /\ Tiles!Next
     /\ UNCHANGED <<component, operand, arenaVars, registryVars, ownerVars, guardVars, reduceVars, terminalVars, parVars, streamVars>>
  \/ component = "Terminal" /\ ATerminal!Next
     /\ UNCHANGED <<component, operand, arenaVars, registryVars, ownerVars, guardVars, reduceVars, tileVars, parVars, streamVars>>
  \/ component = "CancellablePar" /\ Chunked!Next
     /\ UNCHANGED <<component, operand, arenaVars, registryVars, ownerVars, guardVars, reduceVars, tileVars, terminalVars, streamVars>>
  \/ component = "Streams" /\ AStream!Next
     /\ UNCHANGED <<component, operand, arenaVars, registryVars, ownerVars, guardVars, reduceVars, tileVars, terminalVars, parVars>>
  \/ component = "Pure" /\ Pure
     /\ UNCHANGED <<component, arenaVars, registryVars, ownerVars, guardVars, reduceVars, tileVars, terminalVars, parVars, streamVars>>

Spec == Init /\ [][Next]_<<component, operand, arenaVars, registryVars, ownerVars, guardVars, reduceVars, tileVars, terminalVars, parVars, streamVars>>

On(name, Holds(_)) == (operand # None /\ operand[1] = name) => Holds(operand[2])

\* Every way to the same thing leads to it. A reduction with reused scratch blocks is exact, see GpuReduce; the tiled
\* kernels give what the kernels without local memory give, see GpuTiles, and those what the loops on the host give, see
\* GpuKernels; a field or an enumerator of a described type is the same by its index, its name and its table, see Reflection.
WaysAgree ==
  /\ ReduceIsExact
  /\ Tiles!TilesExact
  /\ On("device", LAMBDA o : \A rows, cols \in 0 .. 3 : Kernels!DeviceAgrees(o[1], o[2], rows, cols, Twice, TwiceAndMore))
  /\ On("batches", LAMBDA o : \A batches, m, k, cols \in 0 .. 2 : Kernels!BatchesAgree(Elements(o[1], 2), Elements(o[2], 3), batches, m, k, cols))
  /\ On("fields", LAMBDA o : \A a \in Objects(o[1]), b \in Objects(o[2]) : Reflected!FieldsAgree(o[1], a, o[2], b))
  /\ On("names", LAMBDA o : Reflected!NamesAgree(o[1], o[2]))
  /\ On("enum", Reflected!EnumsAgree)

\* Disabling raw mode restores the settings from before it, see Terminal.
OriginalComesBack == ATerminal!OriginalComesBack
=============================================================================
