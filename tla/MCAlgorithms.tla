---------------------------- MODULE MCAlgorithms ----------------------------
(***************************************************************************)
(* Instances for TLC of the pure algorithms and of bit streams.  A         *)
(* behaviour picks one operand of its topic, or runs the state machine of  *)
(* it.                                                                     *)
(***************************************************************************)
EXTENDS Integers, Sequences, FiniteSets

VARIABLES topic, operand
None == <<>>
SeqsTo(S, n) == UNION {[1 .. k -> S] : k \in 0 .. n}

-----------------------------------------------------------------------------
\* Words of eight bits, and objects of six that are no word, with ranges that are empty, whole or past the end.
Words8 == INSTANCE BitWords WITH digits <- 8
Words6 == INSTANCE BitWords WITH digits <- 6
Patterns(n) == {{b \in lo .. hi : (b - lo) % step = 0} : lo \in 0 .. n - 1, hi \in 0 .. n - 1, step \in {1, 3}}
WordOperands == Patterns(8) \X (0 .. 8) \X {0, 1, 2, 3, 5, 8} \X {{}, {0, 2}, 0 .. 7}

\* Sections of three and of five bytes of two bits, with words of two and of four bytes.
Sections3 == INSTANCE BitSections WITH Byte <- 2, WordBytes <- 2, Bytes <- 3
Sections5 == INSTANCE BitSections WITH Byte <- 2, WordBytes <- 4, Bytes <- 5
Sections(n) == {[offset |-> o, size |-> z] : o \in 0 .. n, z \in 0 .. n}
Inside(n)   == {s \in Sections(n) : s.offset + s.size <= n}
Narrow == (SUBSET (0 .. 5)) \X Inside(6)
Wide   == Patterns(10) \X Inside(10)

\* Fields narrower and wider than a byte of three bits, in both orders, in streams of both orders.
VARIABLES bytes_, bits_, written
AllFields == [order : {"lsb", "msb"}, value : {0, 13, 31}, bits : {0, 1, 3, 5}]
             \cup [order : {"section"}, value : {39, 89}, bits : {4, 7}]
LsbStream == INSTANCE BitStreams WITH Byte <- 3, Order <- "lsb", Fields <- AllFields, Most <- 5, MaxWrites <- 3
MsbStream == INSTANCE BitStreams WITH Byte <- 3, Order <- "msb", Fields <- AllFields, Most <- 5, MaxWrites <- 3

-----------------------------------------------------------------------------
\* Parsers of depth three over two characters and newlines, on inputs of up to three characters.
Bare == INSTANCE Parsers WITH Grammar <- <<>>
BracketsOf(a, b) == Bare!alt(Bare!between(Bare!satisfy({a}), Bare!satisfy({b}), Bare!ref("nested")), Bare!succeed(Bare!Nothing))
Nestings == [name \in {"nested"} |-> BracketsOf("a", "b")]
P == INSTANCE Parsers WITH Grammar <- Nestings
Simple == {P!satisfy({"a"}), P!satisfy({"a", "b"}), P!string_(<<"a", "b">>), P!scan_while({"a"}), P!eof}
Second == {P!satisfy({"b"}), P!string_(<<"a">>), P!succeed(P!Nothing)}
Unary(ps) == {P!unary(op, p) : op \in {"many", "some", "optional", "peek", "not_followed"}, p \in ps}
             \cup {P!again(p) : p \in ps \cap {P!satisfy({"a", "b"})}}
Binary(ps, qs) == UNION {P!Operators(p, q, [keep |-> "both", then |-> q]) \cup {P!chainl1(p, q), P!label(P!seq(p, q), "pair")} :
                         p \in ps, q \in qs}
Nested == Simple \cup Unary(Simple) \cup Binary(Simple, Second)
Brackets == {P!between(P!satisfy({"a"}), P!satisfy({"n"}), p) : p \in Nested} \cup {P!lexeme(p, P!satisfy({"n"})) : p \in Nested}
Expressions == {e \in Unary(Nested) \cup Binary(Nested, Second) \cup Brackets : P!Terminates(e)}
Inputs == SeqsTo({"a", "b"}, 3) \cup {<<"a", "n", "b">>, <<"n", "n">>, <<"a", "b", "a", "b">>, <<"a", "a", "b", "b">>}

-----------------------------------------------------------------------------
\* Tiles of two; sequences of up to four of three values.
C == INSTANCE Collections WITH Block <- 2
Lists  == SeqsTo(0 .. 2, 4)
Others == {<<>>, <<2, 0>>, <<0, 1, 2>>, <<2, 2, 1, 0, 1>>}
ListOperands == Lists \X Others \X (0 .. 5)
Mod7 == [q \in (0 .. 9) \X (0 .. 9) |-> (2 * q[1] + 3 * q[2]) % 7]
Plus4 == [x \in 0 .. 9 |-> x + 4]
Loops == INSTANCE Ranges
Doubles == [x \in 0 .. 2 |-> <<x, x>>]
Evens == [x \in 0 .. 2 |-> IF x = 1 THEN <<>> ELSE <<x>>]
Texts == [q \in SeqsTo(0 .. 2, 5) \X (0 .. 2) |-> Append(q[1], q[2])]
TextsBefore == [q \in (0 .. 2) \X SeqsTo(0 .. 2, 5) |-> <<q[1]>> \o q[2]]
Curry(op, with) == [op |-> op, with |-> with, init |-> 3, text |-> FALSE]
Curries == {Curry(op, [x \in 0 .. 2 |-> (x * 2) % 3]) : op \in {"map", "sort_by_cached"}} \cup {Curry(op, 2) : op \in {"take", "drop", "chunk"}}
           \cup {Curry(op, {0, 1}) : op \in {"filter", "take_while", "drop_while", "partition", "span"}}
           \cup {Curry(op, None) : op \in {"unique", "sort", "reverse", "enumerate"}} \cup {Curry("flat_map", Doubles), Curry("filter_map", Evens)}
           \cup UNION {{Curry(op, Mod7), [op |-> op, with |-> IF op = "fold_right" THEN TextsBefore ELSE Texts, init |-> <<0>>, text |-> TRUE]} :
                         op \in {"fold_left", "fold_right", "scan"}}
Grids(m, n) == {[i \in 1 .. k |-> [j \in 1 .. l |-> 10 * i + j]] : k \in 1 .. m, l \in 1 .. n}

UpperCase == [c \in {"a"} |-> "A"]
S == INSTANCE Strings WITH White <- {" ", "n"}, Digits <- {"1"}, Upper <- UpperCase, MaxDigits <- 3
SplitOperands  == SeqsTo({"a", "b"}, 5) \X SeqsTo({"a", "b"}, 2) \X {<<>>, <<"b", "a">>}
WidthOperands  == SeqsTo({"a", " ", "A"}, 4) \X (0 .. 5) \X {<<>>, <<".">>, <<".", ".">>}
NumberOperands == SeqsTo({"1", "-", "+", " ", ",", "n", "."}, 4)
                  \X {<<>>, <<<<"-", "1">>, <<"1", "1">>>>, <<<<"a">>, <<>>>>, <<<<>>, <<"a">>>>}

R == INSTANCE Results
Eithers == {R!ok(1), R!ok(2), R!err("a"), R!err("b")}
Other == [v \in 1 .. 2 |-> 3 - v]
OtherMessage == [m \in {"a", "b"} |-> IF m = "a" THEN "b" ELSE "a"]

\* Callables of three values and of pairs and triples of them; recursions through smaller arguments.
F == INSTANCE Closures
Maps == {[x \in 0 .. 2 |-> (x * a + b) % 3] : a \in {0, 1, 2}, b \in {0, 1}}
Weigh(n) == [args \in [1 .. n -> 0 .. 2] |-> args[1] + 3 * args[2] + 9 * (IF n = 3 THEN args[3] ELSE 0)]
Recursions == {[own |-> [x \in 0 .. 4 |-> x + 1], needs |-> [x \in 0 .. 4 |-> IF x < 2 THEN <<>> ELSE <<x - a, x - b>>]] : a \in 1 .. 2, b \in 1 .. 2}

-----------------------------------------------------------------------------
SampleOperands == {<<n, k, 1>> : n \in 1 .. 5, k \in 1 .. 3} \cup {<<9, 2, 1>>}
WeightOperands == {w \in UNION {[1 .. n -> 0 .. 3] : n \in 1 .. 4} : \E i \in DOMAIN w : w[i] > 0}

\* Two accumulators and lanes, tiles of three, sizes of five bits, pivots of a sixteenth.
K == INSTANCE Kernels WITH Chains <- 2, Tile <- 3, Lanes <- 2, SizeMax <- 31, Tiny <- <<1, 16>>, Top <- 6
Linear(k, c) == [op |-> "plus", l |-> [op |-> "times", l |-> [op |-> "number", k |-> <<k, 1>>], r |-> [op |-> "x"]],
                 r |-> [op |-> "number", k |-> <<c, 1>>], k |-> <<c, 1>>]
Lines == {Linear(k, c) : k \in -1 .. 2, c \in {-3, 2}}
DualOperands == Lines \X Lines \X {<<-1, 1>>, <<1, 2>>, <<3, 2>>}
Numbers == SeqsTo({-1, 0, 2}, 4) \X SeqsTo({1, 3}, 4)
TwiceAndOne == [x \in -5 .. 9 |-> 2 * x + 1]
Matrix(m, n, q) == [i \in 1 .. m |-> [j \in 1 .. n |-> ((i * i + q * j * 3 + i * j * j) % 7) - 3]]
Products == {Matrix(m, n, 1) : m \in 1 .. 5, n \in 1 .. 3} \X {Matrix(m, n, 2) : m \in 1 .. 3, n \in 1 .. 8}
\* Systems of two with both rows, one or none scaled down to around the least pivot, systems of three, and no systems.
Over(v, d) == [c \in DOMAIN v |-> K!Frac(v[c], d)]
Systems ==
  {<<[r \in 1 .. 2 |-> Over(g[r], d[r])], Over(b, d[1])>> :
     g \in [1 .. 2 -> [1 .. 2 -> -2 .. 2]], b \in {<<1, -1>>, <<0, 2>>}, d \in {<<1, 1>>, <<1, 32>>, <<32, 32>>}}
  \cup {<<[r \in 1 .. 3 |-> Over(g[r], 1)], Over(<<1, 2, 3>>, 1)>> : g \in [1 .. 3 -> [1 .. 3 -> 0 .. 1]]}
  \cup {<<[r \in 1 .. m |-> Over(<<1, 0, 2>>, 1)], Over(SubSeq(<<3, 1>>, 1, k), 1)>> : m \in 0 .. 2, k \in 0 .. 2}
  \cup {<<[r \in 1 .. 2 |-> Over(<<r, 1>>, 1)], Over(SubSeq(<<3, 1, 2>>, 1, k), 1)>> : k \in {0, 1, 3}}
Sizes == (1 .. 20) \X (0 .. 2)

-----------------------------------------------------------------------------
bitVars == <<bytes_, bits_, written>>
Topics == {"algorithms", "lsb", "msb"}

Init == /\ topic \in Topics /\ operand = None
        /\ LsbStream!Init

\* What an algorithm is given.
Given(name, operands) == operand = None /\ operand' \in {name} \X operands

Algorithm ==
  \/ Given("word", WordOperands)
  \/ Given("narrow", Narrow)
  \/ Given("wide", Wide)
  \/ Given("parser", Expressions)
  \/ Given("list", ListOperands)
  \/ Given("curry", Curries)
  \/ Given("grid", Grids(5, 4))
  \/ Given("split", SplitOperands)
  \/ Given("width", WidthOperands)
  \/ Given("number", NumberOperands)
  \/ Given("either", Eithers \X [1 .. 2 -> Eithers])
  \/ Given("results", SeqsTo(Eithers, 4))
  \/ Given("checks", SeqsTo(1 .. 3, 3) \X (SUBSET (1 .. 3)))
  \/ Given("chain", SeqsTo({"a", "b"}, 3))
  \/ Given("closures", (Maps \X Maps \X Maps) \X (0 .. 2))
  \/ Given("calls", (UNION {[1 .. n -> 0 .. 2] : n \in 2 .. 3}) \X (0 .. 3))
  \/ Given("arms", (0 .. 2) \X [1 .. 2 -> SUBSET (0 .. 2)])
  \/ Given("memo", Recursions \X SeqsTo(0 .. 4, 3))
  \/ Given("sample", SampleOperands)
  \/ Given("weights", WeightOperands)
  \/ Given("sums", Numbers)
  \/ Given("product", Products)
  \/ Given("system", Systems)
  \/ Given("slices", Sizes)
  \/ Given("logits", SeqsTo({-5, 0, 7}, 3) \X {0, 4})
  \/ Given("points", (-2 .. 2) \X (-3 .. 5) \X (0 .. 4) \X (-2 .. 3))
  \/ Given("duals", DualOperands)
  \/ Given("operators", SUBSET (-2 .. 2))

Next == \/ topic = "algorithms" /\ Algorithm /\ UNCHANGED <<topic, bitVars>>
        \/ topic = "lsb" /\ LsbStream!Next /\ UNCHANGED <<topic, operand>>
        \/ topic = "msb" /\ MsbStream!Next /\ UNCHANGED <<topic, operand>>

Spec == Init /\ [][Next]_<<topic, operand, bitVars>>

-----------------------------------------------------------------------------
On(name, Holds(_)) == (operand # None /\ operand[1] = name) => Holds(operand[2])

\* Bit fields of words, sections of bytes and bit streams keep every bit, see BitWords, BitSections and BitStreams.
BitsKept ==
  /\ On("word", LAMBDA o : /\ Words8!WordAgrees(o[1], o[2], o[3], o[4])
                           /\ \A byte \in {1, 2, 4} : Words8!OrderAgrees(o[1], byte)
                           /\ \A byte \in {1, 2} : Words6!OrderAgrees(o[1] \cap (0 .. 5), byte))
  /\ On("narrow", LAMBDA o : /\ Sections3!SectionAgrees(o[1], o[2], {{}, {0, 2}, 0 .. 3}) /\ Sections3!CopyAgrees(o[1], o[2])
                             /\ Sections3!TextAgrees(o[1], o[2]) /\ Sections3!ClampAgrees(o[1], o[2].offset, o[2].size))
  /\ On("wide", LAMBDA o : /\ Sections5!SectionAgrees(o[1], o[2], {{0, 3}, 0 .. 7}) /\ Sections5!CopyAgrees(o[1], o[2])
                           /\ Sections5!TextAgrees(o[1], o[2]))
  /\ topic = "lsb" => LsbStream!ReadsBack
  /\ topic = "msb" => MsbStream!ReadsBack

\* Parsers report places of their input, and the loops agree, see Parsers.
ParsersAgree ==
  On("parser", LAMBDA e :
    \A s \in Inputs : /\ P!Positions(e, s, 2) /\ \A off \in 0 .. Len(s) : P!LinesAgree(s, off)
                      /\ P!LabelsAgree(e, <<e, P!satisfy({"a"}), P!label(P!eof, "end")>>, s)
                      /\ P!Nests("nested", "a", "b", s)
                      /\ e.op \in {"sep_by", "chainl1", "many"} => P!LoopsAgree(e.p, P!satisfy({"b"}), s, 1))

\* The different ways of handling sequences, grids, texts and results agree, see Collections, Strings and Results.
CollectionsAgree ==
  /\ On("list", LAMBDA o : /\ C!PartsAgree(o[1], o[3], {0, 1}) /\ C!OrdersAgree(o[1], {o[3]}, [x \in 0 .. 2 |-> (x * o[3]) % 2])
                           /\ C!FoldsAgree(o[1], o[2], o[3], Mod7, Plus4) /\ C!MapsAgree(o[1], o[2], Mod7, {0, 1}))
  /\ On("list", LAMBDA o : o[3] < 3 => /\ Loops!LoopsAgree(o[1], o[2], {0, o[3]}, Plus4, Mod7)
                                       /\ Loops!ViewsAgree(o[1], o[2], [i \in DOMAIN o[1] |-> 2 - o[1][i]]))
  /\ On("curry", LAMBDA o : \A r, t \in SeqsTo(0 .. 2, 3) : Loops!ClosuresAgree(o, r, t))
  /\ On("list", LAMBDA o : o[3] < 3 => /\ Loops!PlacesAgree(o[1], o[2], {0, o[3]}, [x \in 0 .. 9 |-> x + 4], Mod7, [x \in 0 .. 2 |-> (x * o[3]) % 2])
                                       /\ Loops!EndsAgree(o[1], {1, o[3]}, o[3]))
  /\ On("grid", LAMBDA g : Loops!CellsAgree(g, [x \in 0 .. 99 |-> x * 2]))
  /\ On("grid", LAMBDA g : \A kh, kw \in 1 .. 3 : C!GridAgrees(g, kh, kw))
  /\ On("split", LAMBDA o : S!SplitsAgree(o[1], o[2], o[3]))
  /\ On("width", LAMBDA o : S!WidthsAgree(o[1], o[2], o[3], " "))
  /\ On("number", LAMBDA o : S!ReadsBack(o[1], o[2]))
  /\ On("number", LAMBDA o : (o[2] = <<>>) => \A n \in 0 .. 3, seekable \in BOOLEAN : S!InputAgrees(o[1], n, seekable))
  /\ On("number", LAMBDA o : \A old \in {{}, {o[1]}}, fault \in S!Faults : S!FilesAgree(o[2], old, fault))
  /\ On("either", LAMBDA o : /\ R!EitherAgrees(o[1], Other, OtherMessage, o[2])
                             /\ R!ExitsAgree(o[1], "missing"))
  /\ On("results", LAMBDA rs : R!ListsAgree(rs))
  /\ On("checks", LAMBDA o : R!ChecksAgree(o[1], o[2], "m"))
  /\ On("chain", LAMBDA ms : R!ChainsAgree(ms, "root", "timeout"))
  /\ On("closures", LAMBDA o : F!ChainsAgree(o[1], o[2], o[2] = 1))
  /\ On("calls", LAMBDA o : o[2] <= Len(o[1]) => F!CallsAgree(Weigh(Len(o[1])), o[1], o[2]))
  /\ On("arms", LAMBDA o : F!ArmsAgree(o[1], o[2], [x \in 0 .. 2 |-> x + 3], [x \in 0 .. 2 |-> x + 6]))
  /\ On("memo", LAMBDA o : F!MemoAgrees(o[1], o[2]))

\* Draws have exactly the probabilities asked for, and unrolled loops count each element once, see Kernels.
NumbersExact ==
  /\ On("sample", LAMBDA o : o[2] <= o[1] => K!SampleExact(o[1], o[2], o[3]))
  /\ On("sample", LAMBDA o : K!WordsExact(o[1] % 4, o[2] % 3))
  /\ On("weights", LAMBDA w : K!WeightsExact(w))
  /\ On("sums", LAMBDA o : K!ReductionsAgree(o[1], o[2]) /\ K!LanesAgree(o[1], o[2], 2, TwiceAndOne)
                           /\ K!MomentsAgree(o[1], o[2], -1, 1) /\ K!MomentsAgree(o[1], o[2], 1, 0))
  /\ On("logits", LAMBDA o : K!SharesAgree(o[1], o[2]))
  /\ On("points", LAMBDA o : K!PointsAgree(o[1], o[2], o[3], o[4]))
  /\ On("duals", LAMBDA o : K!DualsAgree(o[1], o[2], o[3], <<1, 2>>))
  /\ On("operators", LAMBDA given : K!OperatorsAgree({-2, -1, 0, 1, 2} \cup given))
  /\ On("product", LAMBDA o : K!ProductsAgree(o[1], o[2]))
  /\ On("system", LAMBDA o : K!Solves(o[1], o[2]))

\* Each chunk of par_map_inplace maps a slice of the buffer that is its own, see Kernels.
OwnSlices == On("slices", LAMBDA o : K!OwnSlices(o[1], o[2]))
=============================================================================
