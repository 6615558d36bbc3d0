------------------------------ MODULE StreamProofs ------------------------------
(***************************************************************************)
(* Streams, for every pipeline over channels, every type of items and      *)
(* every function of a stage: nothing is lost and nothing is invented,     *)
(* however senders and pulls interleave and however often a stream is      *)
(* drained.                                                                *)
(***************************************************************************)
EXTENDS Components, SequenceTheorems, WellFoundedInduction, TLAPS

Options == {<<>>} \cup {<<v>> : v \in Items}

-----------------------------------------------------------------------------
\* Sequences.

\* A set of numbers has a least one.
LEMMA LeastOf ==
  ASSUME NEW S, S \subseteq Nat, S # {}
  PROVE  \E i \in S : \A j \in S : i <= j
<1>1. IsWellFoundedOn(OpToRel(<, Nat), Nat)
  BY NatLessThanWellFounded
<1>2. PICK i \in S : \A j \in S : ~ (<<j, i>> \in OpToRel(<, Nat))
  BY <1>1, WFMin
<1>3. \A j \in S : ~ (j < i)
  BY <1>2 DEF OpToRel
<1>. QED BY <1>3

\* The end of a sequence that something was appended to.
LEMMA FrontOfAppend ==
  ASSUME NEW S, NEW s \in Seq(S), NEW e \in S
  PROVE  /\ AStream!Front(Append(s, e)) = s /\ AStream!Last(Append(s, e)) = e
         /\ Append(s, e) # <<>> /\ Append(s, e) \in Seq(S)
<1>1. Append(s, e) \in Seq(S) /\ Len(Append(s, e)) = Len(s) + 1 /\ Append(s, e)[Len(s) + 1] = e
  OBVIOUS
<1>2. SubSeq(Append(s, e), 1, Len(s)) = s
  <2>1. \A i \in 1 .. Len(s) : Append(s, e)[i] = s[i]
    OBVIOUS
  <2>. QED BY <1>1, <2>1
<1>. QED BY <1>1, <1>2 DEF AStream!Front, AStream!Last

\* A sequence that is not empty is its front with its last element appended.
LEMMA FrontAndLast ==
  ASSUME NEW S, NEW s \in Seq(S), s # <<>>
  PROVE  /\ AStream!Front(s) \in Seq(S) /\ AStream!Last(s) \in S
         /\ s = Append(AStream!Front(s), AStream!Last(s))
         /\ Len(AStream!Front(s)) = Len(s) - 1
<1>1. Len(s) \in Nat \ {0}
  OBVIOUS
<1>2. AStream!Front(s) = SubSeq(s, 1, Len(s) - 1) /\ AStream!Last(s) = s[Len(s)]
  BY DEF AStream!Front, AStream!Last
<1>3. /\ SubSeq(s, 1, Len(s) - 1) \in Seq(S) /\ Len(SubSeq(s, 1, Len(s) - 1)) = Len(s) - 1
      /\ \A i \in 1 .. Len(s) - 1 : SubSeq(s, 1, Len(s) - 1)[i] = s[i]
  <2> DEFINE m == Len(s) - 1
             p == SubSeq(s, 1, m)
  <2>1. 1 \in Int /\ m \in Nat /\ m \in Int /\ \A i \in 1 .. m : s[i] \in S
    BY <1>1, ElementOfSeq
  <2> HIDE DEF m
  <2>2. p \in Seq(S) /\ Len(p) = (IF 1 <= m THEN m - 1 + 1 ELSE 0) /\ \A i \in 1 .. m - 1 + 1 : p[i] = s[1 + i - 1]
    BY <2>1, SubSeqProperties
  <2> HIDE DEF p
  <2>3. Len(p) = m
    BY <2>1, <2>2
  <2>4. ASSUME NEW i \in 1 .. m  PROVE p[i] = s[i]
    <3>1. i \in 1 .. m - 1 + 1 /\ 1 + i - 1 = i
      BY <2>1
    <3>. QED BY <2>2, <3>1
  <2>. QED BY <2>2, <2>3, <2>4 DEF p, m
<1>4. Append(SubSeq(s, 1, Len(s) - 1), s[Len(s)]) = s
  BY <1>1, <1>3
<1>5. s[Len(s)] \in S
  BY <1>1, Len(s) \in 1 .. Len(s), ElementOfSeq
<1>. QED BY <1>2, <1>3, <1>4, <1>5

\* Append, element by element.
LEMMA AppendIs ==
  ASSUME NEW S, NEW s \in Seq(S), NEW e \in S, NEW m, Len(s) = m
  PROVE  /\ m \in Nat /\ DOMAIN s = 1 .. m /\ DOMAIN Append(s, e) = 1 .. m + 1
         /\ Append(s, e) \in Seq(S) /\ Append(s, e) \in [1 .. m + 1 -> S] /\ Len(Append(s, e)) = m + 1
         /\ Append(s, e)[m + 1] = e /\ \A i \in 1 .. m : Append(s, e)[i] = s[i]
<1>1. Append(s, e) \in Seq(S) /\ Len(Append(s, e)) = m + 1
  BY AppendProperties
<1>2. Append(s, e) \in [1 .. m + 1 -> S] /\ DOMAIN Append(s, e) = 1 .. m + 1
  BY <1>1, LenProperties
<1>3. m \in Nat /\ DOMAIN s = 1 .. m
  BY LenProperties
<1>4. Append(s, e)[m + 1] = e /\ \A i \in 1 .. m : Append(s, e)[i] = s[i]
  BY AppendProperties
<1>. QED BY <1>1, <1>2, <1>3, <1>4

\* Flattening: a function that satisfies the recursion up to i extends to i + 1.
Flats(S, s, f, m) == /\ f \in [1 .. m -> Seq(S)] /\ f[1] = s[1]
                     /\ \A i \in 2 .. m : f[i] = f[i - 1] \o s[i]

\* The recursion of FlattenSeq has a solution: the concatenation of the first n sequences.
LEMMA FlatExists ==
  ASSUME NEW S, NEW s \in Seq(Seq(S)), NEW m \in 1 .. Len(s)
  PROVE  \E f : Flats(S, s, f, m)
<1> DEFINE Bad == {i \in 1 .. Len(s) : ~(\E f : Flats(S, s, f, i))}
<1>1. SUFFICES ASSUME Bad # {}  PROVE FALSE
  OBVIOUS
<1>2. PICK i \in Bad : \A j \in Bad : i <= j
  <2>1. Bad \subseteq Nat
    OBVIOUS
  <2> HIDE DEF Bad
  <2>. QED BY <1>1, <2>1, LeastOf
<1>3. i \in 1 .. Len(s) /\ ~(\E f : Flats(S, s, f, i)) /\ s[i] \in Seq(S)
  OBVIOUS
<1>4. i # 1
  <2> DEFINE f == [j \in 1 .. 1 |-> s[j]]
  <2>1. Flats(S, s, f, 1)
    BY DEF Flats
  <2>. QED BY <1>3, <2>1
<1>5. PICK f : Flats(S, s, f, i - 1)
  <2>1. i - 1 \in 1 .. Len(s) /\ ~(i <= i - 1)
    BY <1>3, <1>4
  <2>2. i - 1 \notin Bad
    <3> HIDE DEF Bad
    <3>. QED BY <1>2, <2>1
  <2>. QED BY <2>1, <2>2
<1> DEFINE g == [j \in 1 .. i |-> IF j = i THEN f[i - 1] \o s[i] ELSE f[j]]
<1>6. f[i - 1] \in Seq(S) /\ f[i - 1] \o s[i] \in Seq(S) /\ \A j \in 1 .. i - 1 : f[j] \in Seq(S)
  <2>1. i - 1 \in 1 .. i - 1
    BY <1>3, <1>4
  <2>2. \A j \in 1 .. i - 1 : f[j] \in Seq(S)
    BY <1>5 DEF Flats
  <2>. QED BY <1>3, <2>1, <2>2, ConcatProperties
<1>7. g \in [1 .. i -> Seq(S)] /\ g[1] = s[1]
  <2>1. \A j \in 1 .. i : g[j] \in Seq(S)
    BY <1>3, <1>6
  <2>2. f[1] = s[1] /\ g[1] = f[1]
    BY <1>3, <1>4, <1>5 DEF Flats
  <2>. QED BY <2>1, <2>2
<1>8. ASSUME NEW j \in 2 .. i  PROVE g[j] = g[j - 1] \o s[j]
  <2>1. g[j - 1] = f[j - 1]
    BY <1>3
  <2>2. CASE j = i
    <3>1. j \in 1 .. i
      BY <1>3, <2>2
    <3>2. g[j] = f[i - 1] \o s[i]
      BY <2>2, <3>1
    <3> HIDE DEF g
    <3>. QED BY <2>1, <2>2, <3>2
  <2>3. CASE j # i
    <3>1. j \in 2 .. i - 1 /\ g[j] = f[j]
      BY <1>3, <2>3
    <3>. QED BY <1>5, <2>1, <3>1 DEF Flats
  <2>. QED BY <2>2, <2>3
<1> HIDE DEF g
<1>9. Flats(S, s, g, i)
  BY <1>7, <1>8 DEF Flats
<1>. QED BY <1>3, <1>9

\* The recursion itself, and two sequences that are the same up to k.
Joins(s, f, k) == f[1] = s[1] /\ \A i \in 2 .. k : f[i] = f[i - 1] \o s[i]

Alike(s, t, k) == \A i \in 1 .. k : s[i] = t[i]

\* Two solutions agree as far as their sequences do.
LEMMA FlatUnique ==
  ASSUME NEW s, NEW t, NEW f, NEW g, NEW k \in Nat \ {0}, Joins(s, f, k), Joins(t, g, k), Alike(s, t, k)
  PROVE  f[k] = g[k]
<1> DEFINE Bad == {i \in 1 .. k : f[i] # g[i]}
<1>1. SUFFICES ASSUME Bad # {}  PROVE FALSE
  OBVIOUS
<1>2. PICK i \in Bad : \A j \in Bad : i <= j
  <2>1. Bad \subseteq Nat
    OBVIOUS
  <2> HIDE DEF Bad
  <2>. QED BY <1>1, <2>1, LeastOf
<1>3. i \in 1 .. k /\ f[i] # g[i] /\ s[i] = t[i]
  BY DEF Alike
<1>4. i # 1
  <2>1. s[1] = t[1]
    BY DEF Alike
  <2>. QED BY <1>3, <2>1 DEF Joins
<1>5. f[i - 1] = g[i - 1]
  <2>1. i - 1 \in 1 .. k /\ ~(i <= i - 1)
    BY <1>3, <1>4
  <2>2. i - 1 \notin Bad
    <3> HIDE DEF Bad
    <3>. QED BY <1>2, <2>1
  <2>. QED BY <2>1, <2>2
<1>6. i \in 2 .. k
  BY <1>3, <1>4
<1>7. f[i] = f[i - 1] \o s[i] /\ g[i] = g[i - 1] \o t[i]
  BY <1>6 DEF Joins
<1>. QED BY <1>3, <1>5, <1>7

\* FlattenSeq is that solution at the length.
LEMMA FlattenIs ==
  ASSUME NEW S, NEW s \in Seq(Seq(S)), s # <<>>
  PROVE  \E f : Flats(S, s, f, Len(s)) /\ AStream!FlattenSeq(s) = f[Len(s)]
<1>1. Len(s) \in 1 .. Len(s) /\ Len(s) # 0 /\ Len(s) \in Nat
  OBVIOUS
<1>2. PICK f : Flats(S, s, f, Len(s))
  BY <1>1, FlatExists
<1>3. f = [i \in 1 .. Len(s) |-> IF i = 1 THEN s[i] ELSE f[i - 1] \o s[i]]
  <2>1. \A i \in 1 .. Len(s) : i # 1 => i \in 2 .. Len(s)
    OBVIOUS
  <2>2. \A i \in 1 .. Len(s) : f[i] = IF i = 1 THEN s[i] ELSE f[i - 1] \o s[i]
    BY <1>2, <2>1, Zenon DEF Flats
  <2>3. f = [i \in 1 .. Len(s) |-> f[i]]
    BY <1>2 DEF Flats
  <2>. QED BY <2>2, <2>3, Zenon
<1> DEFINE h == CHOOSE f_1 : f_1 = [i \in 1 .. Len(s) |-> IF i = 1 THEN s[i] ELSE f_1[i - 1] \o s[i]]
<1>4. h = [i \in 1 .. Len(s) |-> IF i = 1 THEN s[i] ELSE h[i - 1] \o s[i]]
  BY <1>3
<1>5. AStream!FlattenSeq(s) = h[Len(s)]
  BY <1>1 DEF AStream!FlattenSeq
<1> HIDE DEF h
<1>6. Joins(s, h, Len(s))
  <2>1. \A i \in 1 .. Len(s) : h[i] = IF i = 1 THEN s[i] ELSE h[i - 1] \o s[i]
    BY <1>4, Zenon
  <2>2. \A i \in 2 .. Len(s) : i \in 1 .. Len(s) /\ i # 1
    OBVIOUS
  <2>3. 1 \in 1 .. Len(s)
    BY <1>1
  <2>. QED BY <2>1, <2>2, <2>3, Zenon DEF Joins
<1>7. Joins(s, f, Len(s))
  BY <1>2 DEF Flats, Joins
<1>8. h[Len(s)] = f[Len(s)]
  <2>1. Len(s) \in Nat \ {0} /\ Alike(s, s, Len(s))
    BY <1>1 DEF Alike
  <2>. QED BY <1>6, <1>7, <2>1, FlatUnique
<1>. QED BY <1>2, <1>5, <1>8

\* Flattening a sequence that v was appended to appends v.
LEMMA FlattenAppend ==
  ASSUME NEW S, NEW s \in Seq(Seq(S)), NEW v \in Seq(S)
  PROVE  /\ AStream!FlattenSeq(s) \in Seq(S)
         /\ AStream!FlattenSeq(Append(s, v)) = AStream!FlattenSeq(s) \o v
<1> DEFINE t == Append(s, v)
<1>1. /\ t \in Seq(Seq(S)) /\ t # <<>> /\ Len(t) = Len(s) + 1 /\ Len(s) \in Nat
      /\ t[Len(s) + 1] = v /\ \A i \in 1 .. Len(s) : t[i] = s[i]
  BY AppendProperties, LenProperties
<1> HIDE DEF t
<1>2. PICK g : Flats(S, t, g, Len(s) + 1) /\ AStream!FlattenSeq(t) = g[Len(s) + 1]
  BY <1>1, FlattenIs
<1>3. CASE s = <<>>
  <2>1. AStream!FlattenSeq(s) = <<>> /\ Len(s) = 0
    BY <1>3 DEF AStream!FlattenSeq
  <2>2. g[1] = v
    BY <1>1, <1>2, <2>1 DEF Flats
  <2>3. <<>> \o v = v /\ <<>> \in Seq(S)
    OBVIOUS
  <2>. QED BY <1>1, <1>2, <2>1, <2>2, <2>3 DEF t
<1>4. CASE s # <<>>
  <2>1. PICK f : Flats(S, s, f, Len(s)) /\ AStream!FlattenSeq(s) = f[Len(s)]
    BY <1>4, FlattenIs
  <2>2. Len(s) \in 1 .. Len(s) /\ Len(s) <= Len(s) + 1 /\ Len(s) + 1 \in Nat /\ Len(s) + 1 \in 2 .. Len(s) + 1
    BY <1>1, <1>4
  <2>3. Joins(s, f, Len(s))
    BY <2>1 DEF Flats, Joins
  <2>4. g[1] = t[1] /\ \A i \in 2 .. Len(s) + 1 : g[i] = g[i - 1] \o t[i]
    BY <1>2 DEF Flats
  <2>5. f[Len(s)] = g[Len(s)]
    <3>1. Len(s) \in Nat \ {0} /\ Alike(s, t, Len(s))
      BY <1>1, <2>2 DEF Alike
    <3>2. Joins(t, g, Len(s))
      <4>1. \A i \in 2 .. Len(s) : i \in 2 .. Len(s) + 1
        BY <1>1
      <4>. QED BY <2>4, <4>1, Zenon DEF Joins
    <3>. QED BY <2>3, <3>1, <3>2, FlatUnique
  <2>6. f[Len(s)] \in Seq(S)
    BY <2>1, <2>2 DEF Flats
  <2>7. ASSUME NEW i, i = Len(s) + 1  PROVE g[i] = g[i - 1] \o t[i]
    <3>1. i \in 2 .. Len(s) + 1
      BY <2>2, <2>7
    <3>. QED BY <2>4, <3>1, Zenon
  <2>8. ASSUME NEW i, NEW j, i = Len(s) + 1, j = i - 1  PROVE j = Len(s)
    BY <1>1, <2>8
  <2>9. g[Len(s) + 1] = g[Len(s)] \o v
    BY <1>1, <2>7, <2>8, Zenon
  <2>. QED BY <1>2, <2>1, <2>5, <2>6, <2>9 DEF t
<1>. QED BY <1>3, <1>4

-----------------------------------------------------------------------------
\* What a stage answers, one answer of its source at a time.

\* An answer is a sequence of at most one item.
LEMMA OptionIs ==
  ASSUME NEW o \in Options
  PROVE  /\ o = <<>> \/ (o[1] \in Items /\ o = <<o[1]>>)
         /\ o \in Seq(Items) /\ Len(o) = (IF o = <<>> THEN 0 ELSE 1)
<1>1. CASE o = <<>>
  BY <1>1, EmptySeq
<1>2. ASSUME NEW v \in Items, o = <<v>>
      PROVE  o[1] \in Items /\ o = <<o[1]>> /\ o \in Seq(Items) /\ Len(o) = 1 /\ o # <<>>
  BY <1>2
<1>. QED BY <1>1, <1>2 DEF Options

\* A log of answers can be flattened.
LEMMA LogIsFlat ==
  ASSUME NEW in \in Seq(Options)
  PROVE  in \in Seq(Seq(Items))
BY OptionIs, SeqMonotonic

\* Concatenation is associative.
LEMMA Regroup ==
  ASSUME NEW p \in Seq(Items), NEW q \in Seq(Items), NEW r \in Seq(Items)
  PROVE  (p \o q) \o r = p \o (q \o r)
BY ConcatAssociative

\* A map with one more answer of its source and what it makes of it.
LEMMA MapsAppend ==
  ASSUME NEW s \in AStream!Stage, NEW in \in Seq(Options), NEW out \in Seq(Options), NEW o \in Options, NEW y,
         y = IF o = <<>> THEN <<>> ELSE <<s.f[o[1]]>>, AStream!Maps(s, in, out)
  PROVE  y \in Options /\ AStream!Maps(s, Append(in, o), Append(out, y))
<1>1. y \in Options
  <2>1. s.f \in [Items -> Items]
    BY DEF AStream!Stage
  <2>. QED BY <2>1, OptionIs DEF Options
<1> DEFINE in1 == Append(in, o)
           out1 == Append(out, y)
           Image(i) == IF in1[i] = <<>> THEN <<>> ELSE <<s.f[in1[i][1]]>>
<1>2. /\ DOMAIN in = 1 .. Len(in) /\ Len(in) \in Nat /\ DOMAIN in1 = 1 .. Len(in) + 1 /\ in1[Len(in) + 1] = o
      /\ \A i \in 1 .. Len(in) : in1[i] = in[i]
  BY AppendProperties, LenProperties
<1>3. Len(out) = Len(in) /\ \A i \in 1 .. Len(in) : out[i] = IF in[i] = <<>> THEN <<>> ELSE <<s.f[in[i][1]]>>
  <2>1. out = [i \in 1 .. Len(in) |-> IF in[i] = <<>> THEN <<>> ELSE <<s.f[in[i][1]]>>]
    BY <1>2 DEF AStream!Maps, AStream!nullopt
  <2>2. DOMAIN out = 1 .. Len(out) /\ Len(out) \in Nat
    BY LenProperties
  <2>. QED BY <1>2, <2>1, <2>2
<1>4. /\ out1 \in [1 .. Len(in) + 1 -> Options] /\ out1[Len(in) + 1] = y
      /\ \A i \in 1 .. Len(in) : out1[i] = out[i]
  BY <1>1, <1>3, AppendIs
<1> HIDE DEF in1, out1
<1>5. ASSUME NEW i \in 1 .. Len(in) + 1  PROVE out1[i] = Image(i)
  <2>1. CASE i = Len(in) + 1
    BY <1>2, <1>4, <2>1
  <2>2. CASE i # Len(in) + 1
    <3>1. i \in 1 .. Len(in)
      BY <1>2, <2>2
    <3>. QED BY <1>2, <1>3, <1>4, <3>1
  <2>. QED BY <2>1, <2>2
<1>6. out1 = [i \in 1 .. Len(in) + 1 |-> Image(i)]
  <2>1. out1 = [i \in 1 .. Len(in) + 1 |-> out1[i]]
    BY <1>4
  <2> HIDE DEF Image
  <2>. QED BY <1>5, <2>1, Zenon
<1>. QED BY <1>1, <1>2, <1>6 DEF in1, out1, AStream!Maps, AStream!nullopt

\* What a filter keeps of one answer.
Kept(s, o) == IF o = <<>> \/ AStream!Passes(s, o) THEN <<o>> ELSE <<>>

\* A filter with one more answer of its source, which it hands on or drops.
LEMMA FiltersAppend ==
  ASSUME NEW s \in AStream!Stage, NEW in \in Seq(Options), NEW out \in Seq(Options), NEW o \in Options,
         AStream!Filters(s, in, out)
  PROVE  AStream!Filters(s, Append(in, o), out \o Kept(s, o))
<1> DEFINE in1 == Append(in, o)
           g  == [i \in 1 .. Len(in) |-> Kept(s, in[i])]
           g1 == [i \in 1 .. Len(in) + 1 |-> Kept(s, in1[i])]
<1>1. /\ DOMAIN in = 1 .. Len(in) /\ Len(in) \in Nat /\ DOMAIN in1 = 1 .. Len(in) + 1 /\ in1[Len(in) + 1] = o
      /\ \A i \in 1 .. Len(in) : in1[i] = in[i]
      /\ in1 \in Seq(Options)
  BY AppendProperties, LenProperties
<1>2. \A p \in Options : Kept(s, p) \in Seq(Options)
  BY DEF Kept
<1>3. g \in Seq(Seq(Options)) /\ Len(g) = Len(in)
  <2>1. \A i \in 1 .. Len(in) : Kept(s, in[i]) \in Seq(Options)
    BY <1>2, ElementOfSeq
  <2> HIDE DEF Kept
  <2>. QED BY <1>1, <2>1, IsASeq
<1>4. Kept(s, o) \in Seq(Options)
  BY <1>2
<1>5. g1 = Append(g, Kept(s, o))
  <2>1. /\ Append(g, Kept(s, o)) \in [1 .. Len(in) + 1 -> Seq(Options)]
        /\ \A i \in 1 .. Len(in) : Append(g, Kept(s, o))[i] = g[i]
        /\ Append(g, Kept(s, o))[Len(in) + 1] = Kept(s, o)
    <3> DEFINE T == Seq(Options)
               e == Kept(s, o)
               l == Len(in)
    <3>1. g \in Seq(T) /\ e \in T /\ Len(g) = l
      BY <1>3, <1>4
    <3> HIDE DEF g, T, e, l
    <3>2. Append(g, e) \in [1 .. l + 1 -> T] /\ Append(g, e)[l + 1] = e /\ \A i \in 1 .. l : Append(g, e)[i] = g[i]
      BY <3>1, AppendIs
    <3>. QED BY <3>2 DEF T, e, l
  <2> DEFINE a == Append(g, Kept(s, o))
  <2>2. ASSUME NEW i \in 1 .. Len(in) + 1  PROVE a[i] = Kept(s, in1[i])
    <3>1. CASE i = Len(in) + 1
      BY <1>1, <2>1, <3>1
    <3>2. CASE i # Len(in) + 1
      <4>1. i \in 1 .. Len(in)
        BY <1>1, <3>2
      <4>2. g[i] = Kept(s, in[i])
        BY <4>1
      <4> HIDE DEF in1, g
      <4>. QED BY <1>1, <2>1, <4>1, <4>2
    <3>. QED BY <3>1, <3>2
  <2>3. a = [i \in 1 .. Len(in) + 1 |-> a[i]]
    BY <2>1
  <2> HIDE DEF a, in1
  <2>. QED BY <2>2, <2>3, Zenon DEF a
<1>6. out = AStream!FlattenSeq(g)
  BY <1>1 DEF AStream!Filters, AStream!nullopt, Kept
<1> HIDE DEF g
<1>7. AStream!FlattenSeq(g1) = out \o Kept(s, o)
  BY <1>3, <1>4, <1>5, <1>6, FlattenAppend
<1>. QED BY <1>1, <1>7 DEF in1, g1, AStream!Filters, AStream!nullopt, Kept

\* The items in a log with one more answer.
LEMMA FlattenMore ==
  ASSUME NEW in \in Seq(Options), NEW o \in Options
  PROVE  /\ AStream!FlattenSeq(in) \in Seq(Items) /\ Len(AStream!FlattenSeq(in)) \in Nat
         /\ AStream!FlattenSeq(Append(in, o)) = AStream!FlattenSeq(in) \o o
         /\ Len(AStream!FlattenSeq(Append(in, o))) = Len(AStream!FlattenSeq(in)) + Len(o)
<1>1. in \in Seq(Seq(Items)) /\ o \in Seq(Items)
  BY LogIsFlat, OptionIs
<1>2. AStream!FlattenSeq(in) \in Seq(Items) /\ AStream!FlattenSeq(Append(in, o)) = AStream!FlattenSeq(in) \o o
  BY <1>1, FlattenAppend
<1>. QED BY <1>1, <1>2, ConcatProperties, LenProperties

\* A take that has not taken all passes on what comes, ends included.
LEMMA TakesAppend ==
  ASSUME NEW s \in AStream!Stage, NEW in \in Seq(Options), NEW out \in Seq(Options), NEW o \in Options,
         AStream!Takes(s, in, out), Len(AStream!FlattenSeq(in)) < s.n
  PROVE  AStream!Takes(s, Append(in, o), Append(out, o))
<1> DEFINE in1 == Append(in, o)
           out1 == Append(out, o)
           l == Len(in)
           taken == Len(AStream!FlattenSeq(in))
<1>1. s.n \in Nat /\ taken \in Nat /\ Len(AStream!FlattenSeq(in1)) = taken + Len(o) /\ Len(o) \in {0, 1}
  BY FlattenMore, OptionIs DEF AStream!Stage
<1>2. /\ l <= Len(out) /\ \A i \in DOMAIN out : out[i] = IF i <= l THEN in[i] ELSE <<>>
      /\ l < Len(out) => taken = s.n
  BY DEF AStream!Takes, AStream!nullopt
<1> HIDE DEF taken
<1>3. Len(out) = l /\ l \in Nat
  <2>1. taken < s.n /\ Len(out) \in Nat /\ l \in Nat
    BY LenProperties DEF taken
  <2> HIDE DEF l
  <2>. QED BY <1>1, <1>2, <2>1
<1>4. /\ in1[l + 1] = o /\ Len(in1) = l + 1 /\ \A i \in 1 .. l : in1[i] = in[i]
      /\ out1[l + 1] = o /\ DOMAIN out1 = 1 .. l + 1 /\ Len(out1) = l + 1
      /\ DOMAIN out = 1 .. l /\ \A i \in 1 .. l : out1[i] = out[i]
  BY <1>3, AppendIs
<1> HIDE DEF in1, out1, l
<1>5. \A i \in DOMAIN out1 : out1[i] = IF i <= Len(in1) THEN in1[i] ELSE <<>>
  BY <1>2, <1>3, <1>4
<1>6. taken < s.n
  BY DEF taken
<1>7. Len(AStream!FlattenSeq(in1)) <= s.n
  <2> DEFINE new == Len(o)
             all == Len(AStream!FlattenSeq(in1))
  <2>1. s.n \in Nat /\ taken \in Nat /\ all = taken + new /\ new \in {0, 1} /\ taken < s.n
    BY <1>1, <1>6
  <2> HIDE DEF new, all
  <2>2. all <= s.n
    BY <2>1
  <2>. QED BY <2>2 DEF all
<1>. QED BY <1>3, <1>4, <1>5, <1>7 DEF AStream!Takes, AStream!nullopt, in1, out1

\* One that has answers without asking.
LEMMA TakesEnd ==
  ASSUME NEW s \in AStream!Stage, NEW in \in Seq(Options), NEW out \in Seq(Options),
         AStream!Takes(s, in, out), Len(AStream!FlattenSeq(in)) >= s.n
  PROVE  AStream!Takes(s, in, Append(out, <<>>))
<1> DEFINE out1 == Append(out, <<>>)
           l == Len(in)
           k == Len(out)
           taken == Len(AStream!FlattenSeq(in))
<1>1. s.n \in Nat /\ taken \in Nat /\ taken >= s.n /\ <<>> \in Options
  BY FlattenMore DEF AStream!Stage, Options
<1>2. /\ l <= k /\ \A i \in DOMAIN out : out[i] = IF i <= l THEN in[i] ELSE <<>>
      /\ taken <= s.n
  BY DEF AStream!Takes, AStream!nullopt
<1>3. l \in Nat /\ k \in Nat
  BY LenProperties
<1>4. /\ out1[k + 1] = <<>> /\ DOMAIN out1 = 1 .. k + 1 /\ Len(out1) = k + 1
      /\ DOMAIN out = 1 .. k /\ \A i \in 1 .. k : out1[i] = out[i]
  BY <1>1, AppendIs
<1> HIDE DEF taken, out1, l, k
<1>5. taken = s.n
  BY <1>1, <1>2
<1>6. \A i \in DOMAIN out1 : out1[i] = IF i <= l THEN in[i] ELSE <<>>
  BY <1>2, <1>3, <1>4
<1>7. l <= Len(out1)
  BY <1>2, <1>3, <1>4
<1>. QED BY <1>2, <1>5, <1>6, <1>7 DEF AStream!Takes, AStream!nullopt, out1, l, taken

\* A take_while that has heard nothing but items that pass.
Passing(s, in) == in # <<>> => AStream!Passes(s, AStream!Last(in))

\* A take_while that every item has passed, with one more answer of its source.
LEMMA TakesWhileAppend ==
  ASSUME NEW s \in AStream!Stage, NEW in \in Seq(Options), NEW out \in Seq(Options), NEW o \in Options,
         AStream!TakesWhile(s, in, out), Passing(s, in)
  PROVE  AStream!TakesWhile(s, Append(in, o), Append(out, IF AStream!Passes(s, o) THEN o ELSE <<>>))
<1> DEFINE in1 == Append(in, o)
           y == IF AStream!Passes(s, o) THEN o ELSE <<>>
           out1 == Append(out, y)
           l == Len(in)
           k == Len(out)
<1>1. y \in Options /\ l \in Nat /\ k \in Nat
  BY LenProperties DEF Options
<1>2. /\ l <= k /\ \A i \in DOMAIN out : out[i] = IF i <= l /\ AStream!Passes(s, in[i]) THEN in[i] ELSE <<>>
      /\ \A i \in 1 .. l - 1 : AStream!Passes(s, in[i])
      /\ l < k => in # <<>> /\ ~AStream!Passes(s, AStream!Last(in))
  BY DEF AStream!TakesWhile, AStream!nullopt
<1>3. k = l
  <2> HIDE DEF l, k
  <2>. QED BY <1>1, <1>2 DEF Passing
<1>4. \A i \in 1 .. l : AStream!Passes(s, in[i])
  <2>1. CASE in = <<>>
    BY <2>1
  <2>2. CASE in # <<>>
    <3>1. AStream!Passes(s, in[l])
      BY <2>2 DEF Passing, AStream!Last
    <3> HIDE DEF l
    <3>2. \A i \in 1 .. l : i = l \/ i \in 1 .. l - 1
      BY <1>1
    <3>. QED BY <1>2, <3>1, <3>2
  <2>. QED BY <2>1, <2>2
<1> HIDE DEF y
<1>5. /\ in1[l + 1] = o /\ Len(in1) = l + 1 /\ \A i \in 1 .. l : in1[i] = in[i]
      /\ out1[l + 1] = y /\ DOMAIN out1 = 1 .. l + 1 /\ Len(out1) = l + 1
      /\ DOMAIN out = 1 .. l /\ \A i \in 1 .. l : out1[i] = out[i]
  BY <1>1, <1>3, AppendIs
<1> HIDE DEF in1, out1, l, k
<1>6. ASSUME NEW i \in DOMAIN out1
      PROVE  out1[i] = IF i <= Len(in1) /\ AStream!Passes(s, in1[i]) THEN in1[i] ELSE <<>>
  <2>1. CASE i = l + 1
    BY <1>1, <1>5, <2>1 DEF y
  <2>2. CASE i # l + 1
    <3>1. i \in 1 .. l /\ i <= l + 1 /\ i <= l
      BY <1>1, <1>5, <2>2
    <3>. QED BY <1>2, <1>4, <1>5, <3>1
  <2>. QED BY <2>1, <2>2
<1>7. \A i \in 1 .. Len(in1) - 1 : AStream!Passes(s, in1[i])
  <2>1. \A i \in 1 .. Len(in1) - 1 : i \in 1 .. l
    BY <1>1, <1>5
  <2>. QED BY <1>4, <1>5, <2>1
<1>8. Len(in1) <= Len(out1) /\ ~(Len(in1) < Len(out1))
  BY <1>1, <1>5
<1>. QED BY <1>6, <1>7, <1>8 DEF AStream!TakesWhile, AStream!nullopt, in1, out1, y

\* A take_while that is done answers nullopt.
LEMMA TakesWhileEnd ==
  ASSUME NEW s \in AStream!Stage, NEW in \in Seq(Options), NEW out \in Seq(Options),
         AStream!TakesWhile(s, in, out), ~Passing(s, in)
  PROVE  AStream!TakesWhile(s, in, Append(out, <<>>))
<1> DEFINE out1 == Append(out, <<>>)
           l == Len(in)
           k == Len(out)
<1>1. <<>> \in Options /\ l \in Nat /\ k \in Nat
  BY LenProperties DEF Options
<1>2. /\ l <= k /\ \A i \in DOMAIN out : out[i] = IF i <= l /\ AStream!Passes(s, in[i]) THEN in[i] ELSE <<>>
      /\ \A i \in 1 .. l - 1 : AStream!Passes(s, in[i])
  BY DEF AStream!TakesWhile, AStream!nullopt
<1>3. /\ out1[k + 1] = <<>> /\ DOMAIN out1 = 1 .. k + 1 /\ Len(out1) = k + 1
      /\ DOMAIN out = 1 .. k /\ \A i \in 1 .. k : out1[i] = out[i]
  BY <1>1, AppendIs
<1> HIDE DEF out1, l, k
<1>4. \A i \in DOMAIN out1 : out1[i] = IF i <= l /\ AStream!Passes(s, in[i]) THEN in[i] ELSE <<>>
  BY <1>1, <1>2, <1>3
<1>5. l <= Len(out1)
  BY <1>1, <1>2, <1>3
<1>6. in # <<>> /\ ~AStream!Passes(s, AStream!Last(in))
  BY DEF Passing
<1>. QED BY <1>2, <1>4, <1>5, <1>6 DEF AStream!TakesWhile, AStream!nullopt, out1, l

\* The accumulator of a scan after one more answer.
After(s, a, o) == IF o = <<>> THEN a ELSE s.step[a, o[1]]

Folds(s, in, f, m) == /\ f \in [0 .. m -> Items] /\ f[0] = s.init
                      /\ \A i \in 1 .. m : f[i] = After(s, f[i - 1], in[i])

\* The recursion itself.
Accumulates(s, in, f, k) == f[0] = s.init /\ \A i \in 1 .. k : f[i] = After(s, f[i - 1], in[i])

\* The accumulator of a scan stays in its type.
LEMMA AfterType ==
  ASSUME NEW s \in AStream!Stage, NEW a \in Items, NEW o \in Options
  PROVE  After(s, a, o) \in Items
<1>1. s.step \in [Items \X Items -> Items]
  BY DEF AStream!Stage
<1>. QED BY <1>1, OptionIs DEF After

\* The recursion of Folded has a solution.
LEMMA FoldExists ==
  ASSUME NEW s \in AStream!Stage, NEW in \in Seq(Options), NEW m \in 0 .. Len(in)
  PROVE  \E f : Folds(s, in, f, m)
<1> DEFINE Bad == {i \in 0 .. Len(in) : ~(\E f : Folds(s, in, f, i))}
<1>1. SUFFICES ASSUME Bad # {}  PROVE FALSE
  OBVIOUS
<1>2. PICK i \in Bad : \A j \in Bad : i <= j
  <2>1. Bad \subseteq Nat
    OBVIOUS
  <2> HIDE DEF Bad
  <2>. QED BY <1>1, <2>1, LeastOf
<1>3. i \in 0 .. Len(in) /\ ~(\E f : Folds(s, in, f, i)) /\ Len(in) \in Nat
  BY LenProperties
<1>4. i # 0
  <2> DEFINE f == [j \in 0 .. 0 |-> s.init]
  <2>1. Folds(s, in, f, 0)
    BY DEF Folds, AStream!Stage
  <2>. QED BY <1>3, <2>1
<1>5. PICK f : Folds(s, in, f, i - 1)
  <2>1. i - 1 \in 0 .. Len(in) /\ ~(i <= i - 1)
    BY <1>3, <1>4
  <2>2. i - 1 \notin Bad
    <3> HIDE DEF Bad
    <3>. QED BY <1>2, <2>1
  <2>. QED BY <2>1, <2>2
<1> DEFINE new == After(s, f[i - 1], in[i])
           g == [j \in 0 .. i |-> IF j = i THEN new ELSE f[j]]
<1>6. new \in Items /\ \A j \in 0 .. i - 1 : f[j] \in Items
  <2>1. i - 1 \in 0 .. i - 1 /\ i \in 1 .. Len(in)
    BY <1>3, <1>4
  <2>2. \A j \in 0 .. i - 1 : f[j] \in Items
    BY <1>5 DEF Folds
  <2>3. in[i] \in Options
    BY <2>1, ElementOfSeq
  <2>. QED BY <2>1, <2>2, <2>3, AfterType
<1> HIDE DEF new
<1>7. g \in [0 .. i -> Items] /\ g[0] = s.init
  <2>1. \A j \in 0 .. i : g[j] \in Items
    BY <1>3, <1>6
  <2>2. f[0] = s.init /\ g[0] = f[0]
    BY <1>3, <1>4, <1>5 DEF Folds
  <2>. QED BY <2>1, <2>2
<1>8. ASSUME NEW j \in 1 .. i  PROVE g[j] = After(s, g[j - 1], in[j])
  <2>1. g[j - 1] = f[j - 1] /\ j \in 0 .. i
    BY <1>3
  <2>2. CASE j = i
    <3>1. g[j] = new
      BY <2>1, <2>2
    <3> HIDE DEF g
    <3>. QED BY <2>1, <2>2, <3>1 DEF new
  <2>3. CASE j # i
    <3>1. j \in 1 .. i - 1 /\ g[j] = f[j]
      BY <1>3, <2>1, <2>3
    <3> HIDE DEF g
    <3>. QED BY <1>5, <2>1, <3>1 DEF Folds
  <2>. QED BY <2>2, <2>3
<1> HIDE DEF g
<1>9. Folds(s, in, g, i)
  BY <1>7, <1>8 DEF Folds
<1>. QED BY <1>3, <1>9

\* It has one solution only.
LEMMA FoldUnique ==
  ASSUME NEW s, NEW in, NEW in1, NEW f, NEW g, NEW k \in Nat,
         Accumulates(s, in, f, k), Accumulates(s, in1, g, k), Alike(in, in1, k)
  PROVE  f[k] = g[k]
<1> DEFINE Bad == {i \in 0 .. k : f[i] # g[i]}
<1>1. SUFFICES ASSUME Bad # {}  PROVE FALSE
  OBVIOUS
<1>2. PICK i \in Bad : \A j \in Bad : i <= j
  <2>1. Bad \subseteq Nat
    OBVIOUS
  <2> HIDE DEF Bad
  <2>. QED BY <1>1, <2>1, LeastOf
<1>3. i \in 0 .. k /\ f[i] # g[i]
  OBVIOUS
<1>4. i \in 1 .. k
  BY <1>3 DEF Accumulates
<1>5. f[i - 1] = g[i - 1]
  <2>1. i - 1 \in 0 .. k /\ ~(i <= i - 1)
    BY <1>4
  <2>2. i - 1 \notin Bad
    <3> HIDE DEF Bad
    <3>. QED BY <1>2, <2>1
  <2>. QED BY <2>1, <2>2
<1>6. f[i] = After(s, f[i - 1], in[i]) /\ g[i] = After(s, g[i - 1], in1[i]) /\ in[i] = in1[i]
  BY <1>4, Zenon DEF Accumulates, Alike
<1>. QED BY <1>3, <1>5, <1>6

\* Folded is that solution.
LEMMA FoldedIs ==
  ASSUME NEW s \in AStream!Stage, NEW in \in Seq(Options)
  PROVE  Folds(s, in, AStream!Folded(s, in), Len(in))
<1>1. Len(in) \in 0 .. Len(in) /\ Len(in) \in Nat
  BY LenProperties
<1>2. PICK f : Folds(s, in, f, Len(in))
  BY <1>1, FoldExists
<1>3. f = [i \in 0 .. Len(in) |-> IF i = 0 THEN s.init
                                  ELSE IF in[i] = <<>> THEN f[i - 1] ELSE s.step[f[i - 1], in[i][1]]]
  <2>1. \A i \in 0 .. Len(in) : i # 0 => i \in 1 .. Len(in)
    OBVIOUS
  <2>2. \A i \in 0 .. Len(in) : f[i] = IF i = 0 THEN s.init
                                       ELSE IF in[i] = <<>> THEN f[i - 1] ELSE s.step[f[i - 1], in[i][1]]
    BY <1>2, <2>1, Zenon DEF Folds, After
  <2>3. f = [i \in 0 .. Len(in) |-> f[i]]
    BY <1>2 DEF Folds
  <2>. QED BY <2>2, <2>3, Zenon
<1> DEFINE h == CHOOSE a : a = [i \in 0 .. Len(in) |->
                                  IF i = 0 THEN s.init
                                  ELSE IF in[i] = <<>> THEN a[i - 1] ELSE s.step[a[i - 1], in[i][1]]]
<1>4. h = [i \in 0 .. Len(in) |-> IF i = 0 THEN s.init
                                  ELSE IF in[i] = <<>> THEN h[i - 1] ELSE s.step[h[i - 1], in[i][1]]]
  BY <1>3
<1>5. AStream!Folded(s, in) = h
  BY DEF AStream!Folded, AStream!nullopt
<1> HIDE DEF h
<1>6. h[0] = s.init /\ \A i \in 1 .. Len(in) : h[i] = After(s, h[i - 1], in[i])
  <2>1. \A i \in 0 .. Len(in) : h[i] = IF i = 0 THEN s.init
                                       ELSE IF in[i] = <<>> THEN h[i - 1] ELSE s.step[h[i - 1], in[i][1]]
    BY <1>4, Zenon
  <2>2. 0 \in 0 .. Len(in) /\ \A i \in 1 .. Len(in) : i \in 0 .. Len(in) /\ i # 0
    BY <1>1
  <2>. QED BY <2>1, <2>2, Zenon DEF After
<1>7. f[0] = s.init /\ \A i \in 1 .. Len(in) : f[i] = After(s, f[i - 1], in[i])
  BY <1>2 DEF Folds
<1>8. ASSUME NEW k \in 0 .. Len(in)  PROVE h[k] = f[k]
  <2>1. k \in Nat /\ \A i \in 1 .. k : i \in 1 .. Len(in)
    BY <1>1
  <2>2. Accumulates(s, in, h, k) /\ Accumulates(s, in, f, k) /\ Alike(in, in, k)
    BY <1>6, <1>7, <2>1, Zenon DEF Accumulates, Alike
  <2>. QED BY <2>1, <2>2, FoldUnique
<1>9. h = f
  <2>1. h = [i \in 0 .. Len(in) |-> h[i]]
    BY <1>4, Zenon
  <2>2. f = [i \in 0 .. Len(in) |-> f[i]]
    BY <1>2 DEF Folds
  <2>. QED BY <1>8, <2>1, <2>2, Zenon
<1>. QED BY <1>2, <1>5, <1>9

\* One more answer makes one more step of the accumulator, and the earlier ones stay.
LEMMA FoldedAppend ==
  ASSUME NEW s \in AStream!Stage, NEW in \in Seq(Options), NEW o \in Options
  PROVE  /\ \A i \in 0 .. Len(in) : AStream!Folded(s, Append(in, o))[i] = AStream!Folded(s, in)[i]
         /\ AStream!Folded(s, Append(in, o))[Len(in) + 1] = After(s, AStream!Folded(s, in)[Len(in)], o)
         /\ AStream!Folded(s, in)[Len(in)] \in Items
<1> DEFINE in1 == Append(in, o)
           f == AStream!Folded(s, in)
           g == AStream!Folded(s, in1)
           l == Len(in)
<1>1. /\ l \in Nat /\ in1 \in Seq(Options) /\ Len(in1) = l + 1 /\ in1[l + 1] = o
      /\ \A i \in 1 .. l : in1[i] = in[i]
  BY AppendIs
<1>2. Folds(s, in, f, l)
  BY FoldedIs
<1> HIDE DEF in1
<1>3. Folds(s, in1, g, l + 1)
  BY <1>1, FoldedIs
<1> HIDE DEF f, g, l
<1>4. f[0] = s.init /\ \A i \in 1 .. l : f[i] = After(s, f[i - 1], in[i])
  BY <1>2 DEF Folds
<1>5. g[0] = s.init /\ \A i \in 1 .. l + 1 : g[i] = After(s, g[i - 1], in1[i])
  BY <1>3 DEF Folds
<1>6. ASSUME NEW k \in 0 .. l  PROVE g[k] = f[k]
  <2>1. k \in Nat /\ \A i \in 1 .. k : i \in 1 .. l /\ i \in 1 .. l + 1
    BY <1>1
  <2>2. Accumulates(s, in, f, k) /\ Accumulates(s, in1, g, k) /\ Alike(in, in1, k)
    BY <1>1, <1>4, <1>5, <2>1, Zenon DEF Accumulates, Alike
  <2>3. f[k] = g[k]
    BY <2>1, <2>2, FoldUnique
  <2>. QED BY <2>3
<1>7. g[l + 1] = After(s, f[l], o)
  <2>1. l + 1 \in 1 .. l + 1 /\ l \in 0 .. l /\ l + 1 - 1 = l
    BY <1>1
  <2>2. g[l + 1] = After(s, g[l + 1 - 1], in1[l + 1])
    BY <1>5, <2>1
  <2>. QED BY <1>1, <1>6, <2>1, <2>2
<1>8. f[l] \in Items
  BY <1>1, <1>2 DEF Folds
<1>. QED BY <1>6, <1>7, <1>8 DEF in1, f, g, l

\* A scan with one more answer of its source.
LEMMA ScansAppend ==
  ASSUME NEW s \in AStream!Stage, NEW in \in Seq(Options), NEW out \in Seq(Options), NEW o \in Options,
         NEW a, a = AStream!Folded(s, in)[Len(in)], NEW y, y = IF o = <<>> THEN <<>> ELSE <<After(s, a, o)>>,
         AStream!Scans(s, in, out)
  PROVE  y \in Options /\ AStream!Scans(s, Append(in, o), Append(out, y))
<1> DEFINE in1 == Append(in, o)
           out1 == Append(out, y)
           f == AStream!Folded(s, in)
           g == AStream!Folded(s, in1)
           l == Len(in)
<1>1. /\ \A i \in 0 .. l : g[i] = f[i]
      /\ g[l + 1] = After(s, f[l], o) /\ f[l] \in Items
  BY FoldedAppend
<1>2. y \in Options
  BY <1>1, AfterType DEF Options
<1>3. /\ l \in Nat /\ DOMAIN in = 1 .. l /\ DOMAIN in1 = 1 .. l + 1 /\ in1[l + 1] = o
      /\ \A i \in 1 .. l : in1[i] = in[i]
  BY AppendIs
<1> HIDE DEF f, g
<1>4. Len(out) = l /\ \A i \in 1 .. l : out[i] = IF in[i] = <<>> THEN <<>> ELSE <<f[i]>>
  <2>1. out = [i \in 1 .. l |-> IF in[i] = <<>> THEN <<>> ELSE <<f[i]>>]
    BY <1>3 DEF AStream!Scans, AStream!nullopt, f
  <2>2. DOMAIN out = 1 .. Len(out) /\ Len(out) \in Nat
    BY LenProperties
  <2>. QED BY <1>3, <2>1, <2>2
<1>5. /\ out1 \in [1 .. l + 1 -> Options] /\ out1[l + 1] = y
      /\ \A i \in 1 .. l : out1[i] = out[i]
  BY <1>2, <1>4, AppendIs
<1> HIDE DEF in1, out1, l
<1>6. ASSUME NEW i \in 1 .. l + 1  PROVE out1[i] = IF in1[i] = <<>> THEN <<>> ELSE <<g[i]>>
  <2>1. CASE i = l + 1
    BY <1>1, <1>3, <1>5, <2>1 DEF f, l
  <2>2. CASE i # l + 1
    <3>1. i \in 1 .. l /\ i \in 0 .. l
      BY <1>3, <2>2
    <3>. QED BY <1>1, <1>3, <1>4, <1>5, <3>1
  <2>. QED BY <2>1, <2>2
<1>7. out1 = [i \in 1 .. l + 1 |-> IF in1[i] = <<>> THEN <<>> ELSE <<g[i]>>]
  <2>1. out1 = [i \in 1 .. l + 1 |-> out1[i]]
    BY <1>5
  <2>. QED BY <1>6, <2>1, Zenon
<1>. QED BY <1>2, <1>3, <1>7 DEF in1, out1, g, AStream!Scans, AStream!nullopt

\* A concat before and at the end of its first stream, and after it.
LEMMA ConcatsAppend ==
  ASSUME NEW in \in Seq(Options), NEW out \in Seq(Options), NEW o \in Options,
         AStream!Concats(in, <<>>, out), ~AStream!Ended(in)
  PROVE  /\ AStream!Ended(Append(in, o)) <=> o = <<>>
         /\ AStream!Concats(Append(in, o), <<>>, IF o = <<>> THEN out ELSE Append(out, o))
<1> DEFINE in1 == Append(in, o)
           l == Len(in)
<1>1. AStream!Front(in1) = in /\ AStream!Last(in1) = o /\ in1 # <<>>
  BY FrontOfAppend
<1>2. in \o <<>> = in /\ in1 \o <<>> = in1 /\ in1 \in Seq(Options)
  BY ConcatEmptySeq, AppendIs
<1>3. out = in /\ \A i \in 1 .. l - 1 : in[i] # <<>>
  BY <1>2 DEF AStream!Concats, AStream!nullopt
<1>4. l \in Nat /\ Len(in1) = l + 1 /\ \A i \in 1 .. l : in1[i] = in[i]
  BY AppendIs
<1>5. \A i \in 1 .. Len(in1) - 1 : in1[i] # <<>>
  <2>1. in # <<>> => in[l] # <<>>
    BY DEF AStream!Ended, AStream!Last, AStream!nullopt
  <2>2. ASSUME NEW i \in 1 .. l  PROVE in[i] # <<>>
    <3>1. in # <<>>
      BY <1>4, <2>2
    <3>2. i = l \/ i \in 1 .. l - 1
      BY <1>4
    <3>. QED BY <1>3, <2>1, <3>1, <3>2
  <2>3. \A i \in 1 .. Len(in1) - 1 : i \in 1 .. l
    BY <1>4
  <2> HIDE DEF in1, l
  <2>. QED BY <1>4, <2>2, <2>3
<1> HIDE DEF in1
<1>6. AStream!Ended(in1) <=> o = <<>>
  BY <1>1 DEF AStream!Ended, AStream!nullopt
<1>7. AStream!Concats(in1, <<>>, IF o = <<>> THEN out ELSE Append(out, o))
  <2>1. CASE o = <<>>
    BY <1>1, <1>2, <1>3, <1>5, <1>6, <2>1, Zenon DEF AStream!Concats, AStream!nullopt
  <2>2. CASE o # <<>>
    BY <1>1, <1>2, <1>3, <1>5, <1>6, <2>2, Zenon DEF AStream!Concats, AStream!nullopt, in1
  <2>. QED BY <2>1, <2>2
<1>. QED BY <1>6, <1>7 DEF in1

\* A concat on its second stream hands on what that one answers.
LEMMA ConcatsMore ==
  ASSUME NEW in \in Seq(Options), NEW after \in Seq(Options), NEW out \in Seq(Options), NEW o \in Options,
         AStream!Concats(in, after, out), AStream!Ended(in)
  PROVE  AStream!Concats(in, Append(after, o), Append(out, o))
<1>1. AStream!Front(in) \in Seq(Options) /\ out = AStream!Front(in) \o after
  BY FrontAndLast DEF AStream!Concats, AStream!Ended
<1>2. Append(out, o) = AStream!Front(in) \o Append(after, o)
  <2> DEFINE p == AStream!Front(in)
  <2> HIDE DEF p
  <2>1. /\ <<o>> \in Seq(Options) /\ p \in Seq(Options)
        /\ Append(out, o) = out \o <<o>> /\ Append(after, o) = after \o <<o>> /\ out = p \o after
    BY <1>1, AppendIsConcat DEF p
  <2>2. (p \o after) \o <<o>> = p \o (after \o <<o>>)
    BY <2>1, ConcatAssociative, SMTT(30)
  <2>. QED BY <2>1, <2>2 DEF p
<1>. QED BY <1>2 DEF AStream!Concats

\* Before the first answer.
LEMMA StagesStart ==
  ASSUME NEW s \in AStream!Stage
  PROVE  /\ AStream!Maps(s, <<>>, <<>>) /\ AStream!Filters(s, <<>>, <<>>) /\ AStream!Takes(s, <<>>, <<>>)
         /\ AStream!TakesWhile(s, <<>>, <<>>) /\ AStream!Scans(s, <<>>, <<>>) /\ AStream!Concats(<<>>, <<>>, <<>>)
         /\ AStream!FlattenSeq(<<>>) = <<>> /\ AStream!Folded(s, <<>>)[0] = s.init
<1>1. AStream!FlattenSeq(<<>>) = <<>>
  BY DEF AStream!FlattenSeq
<1>2. AStream!Maps(s, <<>>, <<>>) /\ AStream!Scans(s, <<>>, <<>>)
  BY DEF AStream!Maps, AStream!Scans
<1>3. AStream!Filters(s, <<>>, <<>>)
  <2>1. [i \in DOMAIN <<>> |-> IF <<>>[i] = AStream!nullopt \/ AStream!Passes(s, <<>>[i]) THEN <<<<>>[i]>> ELSE <<>>] = <<>>
    OBVIOUS
  <2>. QED BY <1>1, <2>1 DEF AStream!Filters
<1>4. AStream!Takes(s, <<>>, <<>>) /\ AStream!TakesWhile(s, <<>>, <<>>) /\ AStream!Concats(<<>>, <<>>, <<>>)
  BY <1>1 DEF AStream!Takes, AStream!TakesWhile, AStream!Concats, AStream!Ended, AStream!Stage
<1>5. AStream!Folded(s, <<>>)[0] = s.init
  <2>1. <<>> \in Seq(Options) /\ Len(<<>>) = 0
    BY EmptySeq
  <2>2. Folds(s, <<>>, AStream!Folded(s, <<>>), Len(<<>>))
    BY <2>1, FoldedIs
  <2>. QED BY <2>2 DEF Folds
<1>. QED BY <1>1, <1>2, <1>3, <1>4, <1>5

-----------------------------------------------------------------------------
\* The invariant.

Places == AStream!Channels \cup DOMAIN stages

StreamType ==
  /\ stages \in Seq(AStream!Stage)
  /\ queue \in [AStream!Channels -> Seq(Items)] /\ sent \in [AStream!Channels -> Seq(Items)]
  /\ own \in [DOMAIN stages -> Nat] /\ acc \in [DOMAIN stages -> Items]
  /\ log \in [Places -> Seq(Options)]
  /\ collected \in Seq(Items) /\ vectors \in Seq(Seq(Items))
  /\ turn \in 0 .. Len(stages) + 1 /\ back \in BOOLEAN
  /\ back => turn # 0 /\ log[turn - 1] # <<>>

\* The callables that have called their sources and not answered yet.
Pulling(k) == turn < k \/ (turn = k /\ back)

\* What a callable holds is what it has to know of the answers it has dealt with; one that has answered
\* its last item does not pull.
OwnAgrees(k, in) ==
  /\ k \in AStream!Calls("take")       => own[k] = Len(AStream!FlattenSeq(in))
  /\ k \in AStream!Calls("take_while") => own[k] = IF Passing(stages[k], in) THEN 0 ELSE 1
  /\ k \in AStream!Calls("concat")     => own[k] = IF AStream!Ended(in) THEN 1 ELSE 0
  /\ k \in AStream!Calls("scan")       => acc[k] = AStream!Folded(stages[k], in)[Len(in)]
  /\ Pulling(k) => ~AStream!Done(k) /\ ~AStream!Turned(k)

StageInv(k) == AStream!StageAgrees(k, AStream!Heard(k), log[k]) /\ OwnAgrees(k, AStream!Heard(k))
ChannelInv  == \A c \in AStream!Channels : sent[c] = AStream!FlattenSeq(log[c]) \o queue[c]
ConsumerInv == AStream!FlattenSeq(vectors) \o collected = AStream!FlattenSeq(AStream!Heard(Len(stages) + 1))

StreamInv == StreamType /\ ChannelInv /\ ConsumerInv /\ \A k \in DOMAIN stages : StageInv(k)

\* Channels and stages are numbered apart.
LEMMA PlacesAre ==
  ASSUME StreamType
  PROVE  /\ Len(stages) \in Nat /\ DOMAIN stages = 1 .. Len(stages)
         /\ 0 \in AStream!Channels /\ \A k \in 1 .. Len(stages) + 1 : k - 1 \in Places
         /\ \A k \in AStream!Calls("concat") : -k \in AStream!Channels /\ k \in DOMAIN stages
         /\ AStream!Channels \subseteq Int /\ \A c \in AStream!Channels : c <= 0
<1>1. Len(stages) \in Nat /\ DOMAIN stages = 1 .. Len(stages)
  BY LenProperties DEF StreamType
<1>2. /\ 0 \in AStream!Channels /\ \A k \in AStream!Calls("concat") : -k \in AStream!Channels /\ k \in DOMAIN stages
      /\ AStream!Channels \subseteq Int /\ \A c \in AStream!Channels : c <= 0
  BY <1>1 DEF AStream!Channels, AStream!src, AStream!other, AStream!Calls
<1>3. \A k \in 1 .. Len(stages) + 1 : k - 1 = 0 \/ k - 1 \in 1 .. Len(stages)
  BY <1>1
<1>. QED BY <1>1, <1>2, <1>3 DEF Places

\* A stage has heard all that its source answered, but for an answer that has just come.
LEMMA HeardIs ==
  ASSUME StreamType, NEW k \in 1 .. Len(stages) + 1
  PROVE  /\ k - 1 \in Places /\ log[k - 1] \in Seq(Options) /\ AStream!Heard(k) \in Seq(Options)
         /\ ~(back /\ turn = k) => AStream!Heard(k) = log[k - 1]
         /\ back /\ turn = k => AStream!answer \in Options /\ log[k - 1] = Append(AStream!Heard(k), AStream!answer)
<1>1. k - 1 \in Places /\ log[k - 1] \in Seq(Options)
  BY PlacesAre DEF StreamType
<1>2. CASE back /\ turn = k
  <2>1. log[k - 1] # <<>> /\ AStream!Heard(k) = AStream!Front(log[k - 1]) /\ AStream!answer = AStream!Last(log[k - 1])
    BY <1>2 DEF StreamType, AStream!Heard, AStream!answer
  <2>. QED BY <1>1, <1>2, <2>1, FrontAndLast
<1>3. CASE ~(back /\ turn = k)
  BY <1>1, <1>3 DEF AStream!Heard
<1>. QED BY <1>2, <1>3

\* A stage that a step does not touch.
LEMMA StageKeeps ==
  ASSUME NEW k \in DOMAIN stages, StageInv(k), stages' = stages, AStream!Heard(k)' = AStream!Heard(k),
         log'[k] = log[k], own'[k] = own[k], acc'[k] = acc[k],
         k \in AStream!Calls("concat") => log'[-k] = log[-k], Pulling(k)' => Pulling(k) \/ (~AStream!Done(k) /\ ~AStream!Turned(k))
  PROVE  StageInv(k)'
<1> DEFINE in == AStream!Heard(k)
           Is(op) == k \in AStream!Calls(op)
<1>1. \A op : Is(op)' <=> Is(op)
  BY DEF AStream!Calls
<1> HIDE DEF in
<1>2. in' = in
  BY DEF in
<1>3. AStream!StageAgrees(k, in, log[k]) /\ OwnAgrees(k, in)
  BY DEF StageInv, in
<1> HIDE DEF Is
<1>4. AStream!StageAgrees(k, in, log[k])'
  <2>1. /\ Is("map") => AStream!Maps(stages[k], in, log[k])
        /\ Is("filter") => AStream!Filters(stages[k], in, log[k])
        /\ Is("take") => AStream!Takes(stages[k], in, log[k])
        /\ Is("take_while") => AStream!TakesWhile(stages[k], in, log[k])
        /\ Is("scan") => AStream!Scans(stages[k], in, log[k])
        /\ Is("concat") => AStream!Concats(in, log[-k], log[k])
    BY <1>3 DEF AStream!StageAgrees, AStream!other, Is
  <2>2. /\ Is("map")' => AStream!Maps(stages'[k], in', log'[k])
        /\ Is("filter")' => AStream!Filters(stages'[k], in', log'[k])
        /\ Is("take")' => AStream!Takes(stages'[k], in', log'[k])
        /\ Is("take_while")' => AStream!TakesWhile(stages'[k], in', log'[k])
        /\ Is("scan")' => AStream!Scans(stages'[k], in', log'[k])
        /\ Is("concat")' => AStream!Concats(in', log'[-k], log'[k])
    <3>1. Is("concat") => log'[-k] = log[-k]
      BY DEF Is
    <3>. QED BY <1>1, <1>2, <2>1, <3>1
  <2>. QED BY <2>2 DEF AStream!StageAgrees, AStream!other, Is
<1>5. OwnAgrees(k, in)'
  <2>1. /\ Is("take") => own[k] = Len(AStream!FlattenSeq(in))
        /\ Is("take_while") => own[k] = IF Passing(stages[k], in) THEN 0 ELSE 1
        /\ Is("concat") => own[k] = IF AStream!Ended(in) THEN 1 ELSE 0
        /\ Is("scan") => acc[k] = AStream!Folded(stages[k], in)[Len(in)]
    BY <1>3 DEF OwnAgrees, Is
  <2>2. /\ Is("take")' => own'[k] = Len(AStream!FlattenSeq(in'))
        /\ Is("take_while")' => own'[k] = IF Passing(stages'[k], in') THEN 0 ELSE 1
        /\ Is("concat")' => own'[k] = IF AStream!Ended(in') THEN 1 ELSE 0
        /\ Is("scan")' => acc'[k] = AStream!Folded(stages'[k], in')[Len(in')]
    BY <1>1, <1>2, <2>1
  <2>3. Pulling(k)' => ~AStream!Done(k)' /\ ~AStream!Turned(k)'
    <3>1. Pulling(k)' => ~AStream!Done(k) /\ ~AStream!Turned(k)
      BY <1>3 DEF OwnAgrees
    <3>2. (AStream!Done(k)' <=> AStream!Done(k)) /\ (AStream!Turned(k)' <=> AStream!Turned(k))
      BY DEF AStream!Done, AStream!Turned, AStream!Calls
    <3>. QED BY <3>1, <3>2
  <2>. QED BY <2>2, <2>3 DEF OwnAgrees, Is
<1>. QED BY <1>4, <1>5 DEF StageInv, in

\* When a callable answers, the other stages and the consumer have dealt with what they had dealt with.
LEMMA AnswerKeeps ==
  ASSUME StreamInv, NEW t \in DOMAIN stages, turn = t, NEW o \in Options, stages' = stages,
         \A j \in DOMAIN stages \ {t} : own'[j] = own[j] /\ acc'[j] = acc[j],
         log' \in [Places -> Seq(Options)], log'[t] = Append(log[t], o),
         \A w \in Places \ {t, -t} : log'[w] = log[w],
         turn' = t + 1, back' = TRUE
  PROVE  /\ \A j \in DOMAIN stages \ {t} : StageInv(j)'
         /\ AStream!Heard(Len(stages) + 1)' = AStream!Heard(Len(stages) + 1)
         /\ AStream!Heard(t)' = log[t - 1]
         /\ turn' \in 0 .. Len(stages) + 1 /\ turn' # 0 /\ log'[turn' - 1] # <<>>
<1>1. /\ StreamType /\ t \in 1 .. Len(stages) /\ Len(stages) \in Nat /\ DOMAIN stages = 1 .. Len(stages)
      /\ \A k \in DOMAIN stages : StageInv(k)
  BY PlacesAre DEF StreamInv
<1>2. /\ \A k \in AStream!Calls("concat") : -k \in Places /\ k \in DOMAIN stages
      /\ \A k \in 1 .. Len(stages) + 1 : k - 1 \in Places
  BY <1>1, PlacesAre DEF Places
<1>3. AStream!Front(Append(log[t], o)) = log[t] /\ Append(log[t], o) # <<>>
  <2>1. log[t] \in Seq(Options)
    BY <1>1 DEF StreamType, Places
  <2>. QED BY <2>1, FrontOfAppend
<1>4. turn' \in 0 .. Len(stages) + 1 /\ turn' # 0 /\ log'[turn' - 1] # <<>>
  BY <1>1, <1>3
<1>5. ASSUME NEW k \in 1 .. Len(stages) + 1, k # t  PROVE AStream!Heard(k)' = AStream!Heard(k)
  <2>1. AStream!Heard(k) = log[k - 1]
    BY <1>1, <1>5, HeardIs
  <2>2. CASE k = t + 1
    <3>1. k - 1 = t /\ turn' = k
      BY <1>1, <2>2
    <3>2. AStream!Heard(k)' = AStream!Front(log'[k - 1])
      BY <3>1 DEF AStream!Heard
    <3>. QED BY <1>3, <2>1, <3>1, <3>2
  <2>3. CASE k # t + 1
    <3>1. k - 1 # t /\ k - 1 # -t /\ turn' # k
      BY <1>1, <1>5, <2>3
    <3>2. AStream!Heard(k)' = log'[k - 1]
      BY <3>1 DEF AStream!Heard
    <3>3. log'[k - 1] = log[k - 1]
      BY <1>2, <3>1
    <3>. QED BY <2>1, <3>2, <3>3
  <2>. QED BY <2>2, <2>3
<1>6. AStream!Heard(t)' = log[t - 1]
  <2>1. t - 1 # t /\ t - 1 # -t /\ turn' # t /\ t - 1 \in Places
    BY <1>1, <1>2
  <2>2. AStream!Heard(t)' = log'[t - 1]
    BY <2>1 DEF AStream!Heard
  <2>. QED BY <2>1, <2>2
<1>7. ASSUME NEW j \in DOMAIN stages \ {t}  PROVE StageInv(j)'
  <2>1. StageInv(j) /\ AStream!Heard(j)' = AStream!Heard(j)
    BY <1>1, <1>5
  <2>2. log'[j] = log[j]
    <3>1. j # t /\ j # -t /\ j \in Places
      BY <1>1 DEF Places
    <3>. QED BY <3>1
  <2>3. j \in AStream!Calls("concat") => log'[-j] = log[-j]
    <3>1. -j # t /\ -j # -t
      BY <1>1
    <3>. QED BY <1>2, <3>1
  <2>4. Pulling(j)' => Pulling(j)
    BY <1>1 DEF Pulling
  <2>. QED BY <2>1, <2>2, <2>3, <2>4, StageKeeps
<1>8. AStream!Heard(Len(stages) + 1)' = AStream!Heard(Len(stages) + 1)
  <2>1. Len(stages) + 1 \in 1 .. Len(stages) + 1 /\ Len(stages) + 1 # t
    BY <1>1
  <2>2. ASSUME NEW m, m = Len(stages) + 1  PROVE AStream!Heard(m)' = AStream!Heard(m)
    BY <1>5, <2>1, <2>2
  <2>3. Len(stages)' = Len(stages)
    OBVIOUS
  <2>. QED BY <2>2, <2>3 DEF AStream!Heard
<1>. QED BY <1>4, <1>6, <1>7, <1>8

\* A step that gives the accumulator of stage t the value a.
Sets(t, a) == acc' = [acc EXCEPT ![t] = a]

\* A stage that answers o: what is left to show is that it agrees itself.
LEMMA ReturnKeeps ==
  ASSUME StreamInv, NEW t \in DOMAIN stages, turn = t, NEW o \in Options, NEW m \in Nat, NEW a \in Items,
         AStream!Return(o, m), Sets(t, a), UNCHANGED <<stages, sent, collected, vectors>>
  PROVE  /\ AStream!Heard(t)' = log[t - 1] /\ log'[t] = Append(log[t], o) /\ own'[t] = m /\ acc'[t] = a
         /\ ~Pulling(t)'
         /\ t \in AStream!Calls("concat") => log'[-t] = log[-t]
         /\ StageInv(t)' => StreamInv'
<1>1. /\ StreamType /\ t \in 1 .. Len(stages) /\ Len(stages) \in Nat /\ DOMAIN stages = 1 .. Len(stages)
      /\ t \in Places /\ log[t] \in Seq(Options)
  BY PlacesAre DEF StreamInv, StreamType, Places
<1>2. /\ log' = [log EXCEPT ![t] = Append(log[t], o)] /\ own' = [own EXCEPT ![t] = m] /\ turn' = t + 1 /\ back' = TRUE
      /\ queue' = queue
  BY DEF AStream!Return
<1>3. Append(log[t], o) \in Seq(Options)
  BY <1>1, AppendIs
<1>4. log' \in [Places -> Seq(Options)] /\ log'[t] = Append(log[t], o) /\ \A w \in Places \ {t} : log'[w] = log[w]
  BY <1>1, <1>2, <1>3 DEF StreamType
<1>5. own' \in [DOMAIN stages -> Nat] /\ own'[t] = m /\ \A j \in DOMAIN stages \ {t} : own'[j] = own[j]
  BY <1>1, <1>2 DEF StreamType
<1>6. acc' \in [DOMAIN stages -> Items] /\ acc'[t] = a /\ \A j \in DOMAIN stages \ {t} : acc'[j] = acc[j]
  BY <1>1 DEF StreamType, Sets
<1>7. /\ \A j \in DOMAIN stages \ {t} : StageInv(j)'
      /\ AStream!Heard(Len(stages) + 1)' = AStream!Heard(Len(stages) + 1)
      /\ AStream!Heard(t)' = log[t - 1]
      /\ turn' \in 0 .. Len(stages) + 1 /\ turn' # 0 /\ log'[turn' - 1] # <<>>
  BY <1>2, <1>4, <1>5, <1>6, AnswerKeeps
<1>8. ~Pulling(t)'
  BY <1>1, <1>2 DEF Pulling
<1>9. t \in AStream!Calls("concat") => log'[-t] = log[-t]
  <2>1. -t # t
    BY <1>1
  <2>. QED BY <1>1, <1>4, <2>1, PlacesAre DEF Places
<1>10. StreamType'
  <2>1. AStream!Channels' = AStream!Channels /\ Places' = Places
    BY DEF Places, AStream!Channels, AStream!Calls
  <2>. QED BY <1>1, <1>2, <1>4, <1>5, <1>6, <1>7, <2>1 DEF StreamType
<1>11. ChannelInv'
  <2>1. AStream!Channels' = AStream!Channels
    BY DEF AStream!Channels, AStream!Calls
  <2>2. ASSUME NEW c \in AStream!Channels  PROVE log'[c] = log[c]
    <3>1. c # t /\ c \in Places
      BY <1>1, PlacesAre DEF Places
    <3>. QED BY <1>4, <3>1
  <2>3. \A c \in AStream!Channels : sent[c] = AStream!FlattenSeq(log[c]) \o queue[c]
    BY DEF StreamInv, ChannelInv
  <2>. QED BY <1>2, <2>1, <2>2, <2>3 DEF ChannelInv
<1>12. ConsumerInv'
  BY <1>7 DEF StreamInv, ConsumerInv
<1>13. StageInv(t)' => \A k \in DOMAIN stages' : StageInv(k)'
  BY <1>7
<1>. QED BY <1>4, <1>5, <1>6, <1>7, <1>8, <1>9, <1>10, <1>11, <1>12, <1>13 DEF StreamInv

\* What there is to know when a stage deals with an answer.
LEMMA DealsWith ==
  ASSUME StreamInv, NEW op, AStream!Answered(op)
  PROVE  /\ turn \in DOMAIN stages /\ back /\ stages[turn] \in AStream!Stage /\ stages[turn].op = op
         /\ turn \in 1 .. Len(stages) + 1 /\ turn \in Nat
         /\ AStream!answer \in Options /\ log[turn - 1] = Append(AStream!Heard(turn), AStream!answer)
         /\ AStream!Heard(turn) \in Seq(Options) /\ log[turn] \in Seq(Options)
         /\ StageInv(turn) /\ Pulling(turn) /\ own[turn] \in Nat /\ acc[turn] \in Items
         /\ acc' = acc => Sets(turn, acc[turn])
<1>1. StreamType /\ turn \in DOMAIN stages /\ back /\ stages[turn].op = op
  BY DEF StreamInv, AStream!Answered, AStream!Calls
<1>2. turn \in 1 .. Len(stages) + 1 /\ turn \in Nat /\ turn \in Places
  BY <1>1, PlacesAre DEF Places
<1>3. stages[turn] \in AStream!Stage
  BY <1>1, PlacesAre, ElementOfSeq DEF StreamType
<1>4. log[turn] \in Seq(Options) /\ own[turn] \in Nat /\ acc[turn] \in Items /\ (acc' = acc => Sets(turn, acc[turn]))
  BY <1>1, <1>2 DEF StreamType, Sets
<1>5. StageInv(turn) /\ Pulling(turn)
  BY <1>1 DEF StreamInv, Pulling
<1>. QED BY <1>1, <1>2, <1>3, <1>4, <1>5, HeardIs

\* The callable of a map keeps the invariant.
LEMMA MapKeeps ==
  ASSUME StreamInv, NEW t, turn = t, AStream!Map
  PROVE  StreamInv'
<1> DEFINE in == AStream!Heard(t)
           o  == AStream!answer
           y  == IF o = <<>> THEN <<>> ELSE <<stages[t].f[o[1]]>>
<1>1. AStream!Answered("map") /\ AStream!Return(y, 0) /\ acc' = acc /\ UNCHANGED <<stages, sent, collected, vectors>>
  BY DEF AStream!Map, AStream!Answered, AStream!nullopt
<1>2. /\ t \in DOMAIN stages /\ stages[t] \in AStream!Stage /\ stages[t].op = "map" /\ o \in Options
      /\ log[t - 1] = Append(in, o) /\ in \in Seq(Options) /\ log[t] \in Seq(Options) /\ StageInv(t)
      /\ acc[t] \in Items /\ (acc' = acc => Sets(t, acc[t]))
  BY <1>1, DealsWith
<1>3. AStream!Maps(stages[t], in, log[t])
  BY <1>2 DEF StageInv, AStream!StageAgrees, AStream!Calls
<1> HIDE DEF in, o
<1>4. y \in Options /\ AStream!Maps(stages[t], Append(in, o), Append(log[t], y))
  BY <1>2, <1>3, MapsAppend
<1> HIDE DEF y
<1>5. /\ AStream!Heard(t)' = log[t - 1] /\ log'[t] = Append(log[t], y)
      /\ StageInv(t)' => StreamInv'
  BY <1>1, <1>2, <1>4, ReturnKeeps
<1>6. stages' = stages /\ AStream!Maps(stages'[t], AStream!Heard(t)', log'[t])
  BY <1>1, <1>2, <1>4, <1>5
<1>7. StageInv(t)'
  BY <1>2, <1>6 DEF StageInv, OwnAgrees, AStream!StageAgrees, AStream!Calls, AStream!Done, AStream!Turned
<1>. QED BY <1>5, <1>7

\* The callable of a take keeps the invariant: the count is that of the items it delivered.
LEMMA TakeKeeps ==
  ASSUME StreamInv, NEW t, turn = t, AStream!Take
  PROVE  StreamInv'
<1> DEFINE in == AStream!Heard(t)
           o  == AStream!answer
           m  == own[t] + Len(o)
<1>1. AStream!Answered("take") /\ AStream!Return(o, m) /\ acc' = acc /\ UNCHANGED <<stages, sent, collected, vectors>>
  BY DEF AStream!Take, AStream!Answered
<1>2. /\ t \in DOMAIN stages /\ stages[t] \in AStream!Stage /\ stages[t].op = "take" /\ o \in Options
      /\ log[t - 1] = Append(in, o) /\ in \in Seq(Options) /\ log[t] \in Seq(Options) /\ StageInv(t)
      /\ Pulling(t) /\ own[t] \in Nat /\ acc[t] \in Items /\ (acc' = acc => Sets(t, acc[t]))
  BY <1>1, DealsWith
<1>3. AStream!Takes(stages[t], in, log[t]) /\ own[t] = Len(AStream!FlattenSeq(in)) /\ own[t] < stages[t].n
  <2>1. AStream!Takes(stages[t], in, log[t]) /\ own[t] = Len(AStream!FlattenSeq(in)) /\ ~(own[t] >= stages[t].n)
    BY <1>2 DEF StageInv, OwnAgrees, AStream!StageAgrees, AStream!Calls, AStream!Done
  <2>. QED BY <1>2, <2>1 DEF AStream!Stage
<1> HIDE DEF in, o
<1>4. AStream!Takes(stages[t], Append(in, o), Append(log[t], o))
  BY <1>2, <1>3, TakesAppend
<1>5. m \in Nat /\ m = Len(AStream!FlattenSeq(Append(in, o)))
  BY <1>2, <1>3, FlattenMore, OptionIs
<1> HIDE DEF m
<1>6. /\ AStream!Heard(t)' = log[t - 1] /\ log'[t] = Append(log[t], o) /\ own'[t] = m /\ ~Pulling(t)'
      /\ StageInv(t)' => StreamInv'
  BY <1>1, <1>2, <1>5, ReturnKeeps
<1>7. /\ stages' = stages /\ AStream!Takes(stages'[t], AStream!Heard(t)', log'[t])
      /\ own'[t] = Len(AStream!FlattenSeq(AStream!Heard(t)'))
  BY <1>1, <1>2, <1>4, <1>5, <1>6
<1>8. StageInv(t)'
  BY <1>2, <1>6, <1>7 DEF StageInv, OwnAgrees, AStream!StageAgrees, AStream!Calls
<1>. QED BY <1>6, <1>8

\* The callable of a take_while keeps the invariant: the first failing item is the last it asks for.
LEMMA TakeWhileKeeps ==
  ASSUME StreamInv, NEW t, turn = t, AStream!TakeWhile
  PROVE  StreamInv'
<1> DEFINE in == AStream!Heard(t)
           o  == AStream!answer
           passes == AStream!Passes(stages[t], o)
           y  == IF passes THEN o ELSE <<>>
           m  == IF passes THEN 0 ELSE 1
<1>1. AStream!Answered("take_while") /\ AStream!Return(y, m) /\ acc' = acc /\ UNCHANGED <<stages, sent, collected, vectors>>
  BY DEF AStream!TakeWhile, AStream!Answered, AStream!nullopt
<1>2. /\ t \in DOMAIN stages /\ stages[t] \in AStream!Stage /\ stages[t].op = "take_while" /\ o \in Options
      /\ log[t - 1] = Append(in, o) /\ in \in Seq(Options) /\ log[t] \in Seq(Options) /\ StageInv(t)
      /\ Pulling(t) /\ acc[t] \in Items /\ (acc' = acc => Sets(t, acc[t]))
  BY <1>1, DealsWith
<1>3. AStream!TakesWhile(stages[t], in, log[t]) /\ Passing(stages[t], in)
  BY <1>2 DEF StageInv, OwnAgrees, AStream!StageAgrees, AStream!Calls, AStream!Done
<1> HIDE DEF in, o
<1>4. AStream!TakesWhile(stages[t], Append(in, o), Append(log[t], y))
  BY <1>2, <1>3, TakesWhileAppend
<1>5. Passing(stages[t], Append(in, o)) <=> passes
  BY <1>2, FrontOfAppend DEF Passing
<1>6. y \in Options /\ m \in Nat
  BY <1>2 DEF Options
<1>7. m = IF Passing(stages[t], Append(in, o)) THEN 0 ELSE 1
  BY <1>5
<1> HIDE DEF y, m, passes
<1>8. /\ AStream!Heard(t)' = log[t - 1] /\ log'[t] = Append(log[t], y) /\ own'[t] = m /\ ~Pulling(t)'
      /\ StageInv(t)' => StreamInv'
  BY <1>1, <1>2, <1>6, ReturnKeeps
<1>9. /\ stages' = stages /\ AStream!TakesWhile(stages'[t], AStream!Heard(t)', log'[t])
      /\ own'[t] = IF Passing(stages'[t], AStream!Heard(t)') THEN 0 ELSE 1
  BY <1>1, <1>2, <1>4, <1>7, <1>8
<1>10. StageInv(t)'
  BY <1>2, <1>8, <1>9 DEF StageInv, OwnAgrees, AStream!StageAgrees, AStream!Calls
<1>. QED BY <1>8, <1>10

\* The callable of a scan keeps the invariant: its accumulator is that of the answers it had.
LEMMA ScanKeeps ==
  ASSUME StreamInv, NEW t, turn = t, AStream!Scan
  PROVE  StreamInv'
<1> DEFINE in == AStream!Heard(t)
           o  == AStream!answer
           a  == After(stages[t], acc[t], o)
           y  == IF o = <<>> THEN <<>> ELSE <<a>>
<1>1. /\ t \in DOMAIN stages /\ stages[t] \in AStream!Stage /\ stages[t].op = "scan" /\ o \in Options
      /\ log[t - 1] = Append(in, o) /\ in \in Seq(Options) /\ log[t] \in Seq(Options) /\ StageInv(t)
      /\ acc[t] \in Items /\ (acc' = acc => Sets(t, acc[t]))
  BY DealsWith DEF AStream!Scan
<1>2. AStream!Return(y, 0) /\ Sets(t, a) /\ UNCHANGED <<stages, sent, collected, vectors>>
  BY <1>1 DEF AStream!Scan, AStream!Answered, AStream!nullopt, After, Sets
<1>3. AStream!Scans(stages[t], in, log[t]) /\ acc[t] = AStream!Folded(stages[t], in)[Len(in)]
  BY <1>1 DEF StageInv, OwnAgrees, AStream!StageAgrees, AStream!Calls
<1> HIDE DEF in, o
<1>4. y \in Options /\ AStream!Scans(stages[t], Append(in, o), Append(log[t], y))
  BY <1>1, <1>3, ScansAppend
<1>5. a = AStream!Folded(stages[t], Append(in, o))[Len(Append(in, o))]
  <2>1. Len(Append(in, o)) = Len(in) + 1
    BY <1>1, AppendIs
  <2>. QED BY <1>1, <1>3, <2>1, FoldedAppend
<1>6. a \in Items
  BY <1>1, AfterType
<1> DEFINE m == 0
<1>7. /\ AStream!Return(y, m) /\ m \in Nat /\ Sets(t, a)
      /\ UNCHANGED <<stages, sent, collected, vectors>> /\ t \in DOMAIN stages /\ y \in Options
  BY <1>1, <1>2, <1>4
<1> HIDE DEF y, a, m
<1>8. /\ AStream!Heard(t)' = log[t - 1] /\ log'[t] = Append(log[t], y) /\ acc'[t] = a
      /\ StageInv(t)' => StreamInv'
  BY <1>6, <1>7, ReturnKeeps
<1>9. /\ stages' = stages /\ AStream!Scans(stages'[t], AStream!Heard(t)', log'[t])
      /\ acc'[t] = AStream!Folded(stages'[t], AStream!Heard(t)')[Len(AStream!Heard(t)')]
  BY <1>1, <1>2, <1>4, <1>5, <1>8
<1>10. StageInv(t)'
  BY <1>1, <1>9 DEF StageInv, OwnAgrees, AStream!StageAgrees, AStream!Calls, AStream!Done, AStream!Turned
<1>. QED BY <1>8, <1>10

\* A stage that deals with an answer and goes on: the filter asks its source again, the concat the other stream.
LEMMA GoesOn ==
  ASSUME StreamInv, NEW t \in DOMAIN stages, turn = t, turn' \in {t - 1, t}, back' = FALSE,
         UNCHANGED <<stages, queue, acc, sent, log, collected, vectors>>,
         own' \in [DOMAIN stages -> Nat], \A j \in DOMAIN stages \ {t} : own'[j] = own[j]
  PROVE  /\ AStream!Heard(t)' = log[t - 1] /\ log'[t] = log[t] /\ log'[-t] = log[-t]
         /\ StageInv(t)' => StreamInv'
<1>1. /\ StreamType /\ t \in 1 .. Len(stages) /\ Len(stages) \in Nat /\ DOMAIN stages = 1 .. Len(stages)
  BY PlacesAre DEF StreamInv
<1>2. \A k \in 1 .. Len(stages) + 1 : AStream!Heard(k)' = log[k - 1]
  BY DEF AStream!Heard
<1>3. \A k \in 1 .. Len(stages) + 1 : k # t => AStream!Heard(k) = log[k - 1]
  BY DEF AStream!Heard
<1>4. ASSUME NEW j \in DOMAIN stages \ {t}  PROVE StageInv(j)'
  <2>1. StageInv(j) /\ AStream!Heard(j)' = AStream!Heard(j)
    BY <1>1, <1>2, <1>3 DEF StreamInv
  <2>2. Pulling(j)' => Pulling(j)
    BY <1>1 DEF Pulling
  <2>. QED BY <2>1, <2>2, StageKeeps
<1>5. StreamType'
  <2>1. AStream!Channels' = AStream!Channels /\ Places' = Places
    BY DEF Places, AStream!Channels, AStream!Calls
  <2>2. turn' \in 0 .. Len(stages) + 1
    BY <1>1
  <2>. QED BY <1>1, <2>1, <2>2 DEF StreamType
<1>6. ChannelInv'
  <2>1. AStream!Channels' = AStream!Channels
    BY DEF AStream!Channels, AStream!Calls
  <2>. QED BY <2>1 DEF StreamInv, ChannelInv
<1>7. ConsumerInv'
  <2>1. Len(stages) + 1 \in 1 .. Len(stages) + 1 /\ Len(stages) + 1 # t
    BY <1>1
  <2>2. AStream!Heard(Len(stages) + 1) = log[Len(stages) + 1 - 1]
    BY <2>1 DEF AStream!Heard
  <2>3. AStream!Heard(Len(stages) + 1)' = log'[Len(stages') + 1 - 1]
    BY DEF AStream!Heard
  <2>. QED BY <2>2, <2>3 DEF StreamInv, ConsumerInv
<1>8. AStream!Heard(t)' = log[t - 1]
  BY <1>1, <1>2
<1>. QED BY <1>4, <1>5, <1>6, <1>7, <1>8 DEF StreamInv

\* The callable of a filter keeps the invariant: it answers, or drops the item and asks again.
LEMMA FilterKeeps ==
  ASSUME StreamInv, NEW t, turn = t, AStream!Filter
  PROVE  StreamInv'
<1> DEFINE in == AStream!Heard(t)
           o  == AStream!answer
           kept == o = <<>> \/ AStream!Passes(stages[t], o)
<1>1. /\ t \in DOMAIN stages /\ stages[t] \in AStream!Stage /\ stages[t].op = "filter" /\ o \in Options
      /\ log[t - 1] = Append(in, o) /\ in \in Seq(Options) /\ log[t] \in Seq(Options) /\ StageInv(t) /\ back
      /\ acc[t] \in Items /\ (acc' = acc => Sets(t, acc[t]))
  BY DealsWith DEF AStream!Filter
<1>2. /\ \/ kept /\ AStream!Return(o, 0)
         \/ ~kept /\ turn' = t - 1 /\ back' = FALSE /\ UNCHANGED <<queue, own, log>>
      /\ UNCHANGED <<stages, acc, sent, collected, vectors>>
  BY DEF AStream!Filter, AStream!Answered, AStream!nullopt
<1>3. AStream!Filters(stages[t], in, log[t])
  BY <1>1 DEF StageInv, AStream!StageAgrees, AStream!Calls
<1> HIDE DEF in, o
<1>4. AStream!Filters(stages[t], Append(in, o), log[t] \o Kept(stages[t], o))
  BY <1>1, <1>3, FiltersAppend
<1>5. CASE kept /\ AStream!Return(o, 0)
  <2>1. log[t] \o Kept(stages[t], o) = Append(log[t], o)
    BY <1>1, <1>5, AppendIsConcat DEF Kept
  <2>2. /\ AStream!Heard(t)' = log[t - 1] /\ log'[t] = Append(log[t], o)
        /\ StageInv(t)' => StreamInv'
    BY <1>1, <1>2, <1>5, ReturnKeeps
  <2>3. stages' = stages /\ AStream!Filters(stages'[t], AStream!Heard(t)', log'[t])
    BY <1>1, <1>2, <1>4, <2>1, <2>2
  <2>4. StageInv(t)'
    BY <1>1, <2>3 DEF StageInv, OwnAgrees, AStream!StageAgrees, AStream!Calls, AStream!Done, AStream!Turned
  <2>. QED BY <2>2, <2>4
<1>6. CASE ~kept /\ turn' = t - 1 /\ back' = FALSE /\ UNCHANGED <<queue, own, log>>
  <2>1. log[t] \o Kept(stages[t], o) = log[t]
    BY <1>1, <1>6, ConcatEmptySeq DEF Kept
  <2>2. own \in [DOMAIN stages -> Nat]
    BY DEF StreamInv, StreamType
  <2>3. AStream!Heard(t)' = log[t - 1] /\ log'[t] = log[t] /\ (StageInv(t)' => StreamInv')
    BY <1>1, <1>2, <1>6, <2>2, GoesOn
  <2>4. stages' = stages /\ AStream!Filters(stages'[t], AStream!Heard(t)', log'[t])
    BY <1>1, <1>2, <1>4, <2>1, <2>3
  <2>5. StageInv(t)'
    BY <1>1, <2>4 DEF StageInv, OwnAgrees, AStream!StageAgrees, AStream!Calls, AStream!Done, AStream!Turned
  <2>. QED BY <2>3, <2>5
<1>. QED BY <1>2, <1>5, <1>6

\* The callable of a concat keeps the invariant: it answers, or goes on with the other stream.
LEMMA ConcatKeeps ==
  ASSUME StreamInv, NEW t, turn = t, AStream!Concat
  PROVE  StreamInv'
<1> DEFINE in == AStream!Heard(t)
           o  == AStream!answer
<1>1. /\ t \in DOMAIN stages /\ stages[t] \in AStream!Stage /\ stages[t].op = "concat" /\ o \in Options
      /\ log[t - 1] = Append(in, o) /\ in \in Seq(Options) /\ log[t] \in Seq(Options) /\ StageInv(t) /\ back
      /\ Pulling(t) /\ acc[t] \in Items /\ (acc' = acc => Sets(t, acc[t]))
  BY DealsWith DEF AStream!Concat
<1>2. /\ \/ o # <<>> /\ AStream!Return(o, 0)
         \/ o = <<>> /\ own' = [own EXCEPT ![t] = 1] /\ back' = FALSE /\ UNCHANGED <<queue, log, turn>>
      /\ UNCHANGED <<stages, acc, sent, collected, vectors>>
  BY DEF AStream!Concat, AStream!Answered, AStream!nullopt
<1>3. AStream!Concats(in, log[-t], log[t]) /\ ~AStream!Ended(in)
  BY <1>1 DEF StageInv, OwnAgrees, AStream!StageAgrees, AStream!Calls, AStream!other, AStream!Turned
<1>4. log[-t] = <<>>
  BY <1>3 DEF AStream!Concats
<1>5. t \in AStream!Calls("concat")
  BY <1>1 DEF AStream!Calls
<1> HIDE DEF in, o
<1>6. /\ AStream!Ended(Append(in, o)) <=> o = <<>>
      /\ AStream!Concats(Append(in, o), <<>>, IF o = <<>> THEN log[t] ELSE Append(log[t], o))
  BY <1>1, <1>3, <1>4, ConcatsAppend
<1>7. CASE o # <<>> /\ AStream!Return(o, 0)
  <2>1. /\ AStream!Heard(t)' = log[t - 1] /\ log'[t] = Append(log[t], o) /\ own'[t] = 0 /\ ~Pulling(t)'
        /\ log'[-t] = log[-t]
        /\ StageInv(t)' => StreamInv'
    BY <1>1, <1>2, <1>5, <1>7, ReturnKeeps
  <2>2. /\ stages' = stages /\ AStream!Concats(AStream!Heard(t)', log'[-t], log'[t])
        /\ ~AStream!Ended(AStream!Heard(t)')
    BY <1>1, <1>2, <1>4, <1>6, <1>7, <2>1
  <2>3. StageInv(t)'
    BY <1>1, <2>1, <2>2 DEF StageInv, OwnAgrees, AStream!StageAgrees, AStream!Calls, AStream!other
  <2>. QED BY <2>1, <2>3
<1>8. CASE o = <<>> /\ own' = [own EXCEPT ![t] = 1] /\ back' = FALSE /\ UNCHANGED <<queue, log, turn>>
  <2>1. own' \in [DOMAIN stages -> Nat] /\ own'[t] = 1 /\ \A j \in DOMAIN stages \ {t} : own'[j] = own[j]
    BY <1>1, <1>8 DEF StreamInv, StreamType
  <2>2. /\ AStream!Heard(t)' = log[t - 1] /\ log'[t] = log[t] /\ log'[-t] = log[-t]
        /\ StageInv(t)' => StreamInv'
    BY <1>1, <1>2, <1>8, <2>1, GoesOn
  <2>3. /\ stages' = stages /\ AStream!Concats(AStream!Heard(t)', log'[-t], log'[t])
        /\ AStream!Ended(AStream!Heard(t)')
    BY <1>1, <1>2, <1>4, <1>6, <1>8, <2>2
  <2>4. ~Pulling(t)'
    <3>1. t \in Nat
      BY <1>1, PlacesAre DEF StreamInv
    <3>. QED BY <1>8, <3>1 DEF Pulling
  <2>5. StageInv(t)'
    BY <1>1, <2>1, <2>3, <2>4 DEF StageInv, OwnAgrees, AStream!StageAgrees, AStream!Calls, AStream!other
  <2>. QED BY <2>2, <2>5
<1>. QED BY <1>2, <1>7, <1>8

\* A channel gives up its first item, or answers that it has none.
LEMMA Given ==
  ASSUME StreamType, NEW c \in AStream!Channels
  PROVE  /\ AStream!try_recv(c) \in Options /\ AStream!Rest(c) \in Seq(Items)
         /\ AStream!try_recv(c) \o AStream!Rest(c) = queue[c]
<1>1. queue[c] \in Seq(Items)
  BY DEF StreamType
<1>2. CASE queue[c] = <<>>
  BY <1>2, EmptySeq DEF AStream!try_recv, AStream!Rest, AStream!nullopt, Options
<1>3. CASE queue[c] # <<>>
  <2>1. Head(queue[c]) \in Items /\ Tail(queue[c]) \in Seq(Items) /\ queue[c] = <<Head(queue[c])>> \o Tail(queue[c])
    BY <1>1, <1>3
  <2>. QED BY <1>3, <2>1 DEF AStream!try_recv, AStream!Rest, Options
<1>. QED BY <1>2, <1>3

\* What it gave up and what it has left is what was sent, after a try_recv as before it.
LEMMA ChannelKeeps ==
  ASSUME StreamInv, NEW c \in AStream!Channels
  PROVE  sent[c] = AStream!FlattenSeq(Append(log[c], AStream!try_recv(c))) \o AStream!Rest(c)
<1>1. log[c] \in Seq(Options) /\ sent[c] = AStream!FlattenSeq(log[c]) \o queue[c]
  BY DEF StreamInv, StreamType, Places, ChannelInv
<1>2. AStream!try_recv(c) \in Options /\ AStream!Rest(c) \in Seq(Items) /\ AStream!try_recv(c) \o AStream!Rest(c) = queue[c]
  BY Given DEF StreamInv
<1>3. /\ AStream!FlattenSeq(log[c]) \in Seq(Items)
      /\ AStream!FlattenSeq(Append(log[c], AStream!try_recv(c))) = AStream!FlattenSeq(log[c]) \o AStream!try_recv(c)
  BY <1>1, <1>2, FlattenMore
<1>4. AStream!try_recv(c) \in Seq(Items)
  BY <1>2, OptionIs
<1>5. (AStream!FlattenSeq(log[c]) \o AStream!try_recv(c)) \o AStream!Rest(c)
        = AStream!FlattenSeq(log[c]) \o (AStream!try_recv(c) \o AStream!Rest(c))
  BY <1>2, <1>3, <1>4, Regroup, Zenon
<1>. QED BY <1>1, <1>2, <1>3, <1>5

\* A send keeps the invariant: what the channel has left grows as what was sent.
LEMMA SendKeeps ==
  ASSUME StreamInv, AStream!Send
  PROVE  StreamInv'
<1>1. PICK c \in AStream!Channels, v \in Values :
        /\ queue' = [queue EXCEPT ![c] = Append(queue[c], v)] /\ sent' = [sent EXCEPT ![c] = Append(sent[c], v)]
        /\ UNCHANGED <<stages, own, acc, log, collected, vectors, turn, back>>
  BY DEF AStream!Send
<1>2. StreamType /\ v \in Items /\ queue[c] \in Seq(Items) /\ sent[c] \in Seq(Items)
  BY ComponentsAssumption DEF StreamInv, StreamType
<1>3. AStream!Channels' = AStream!Channels /\ Places' = Places
  BY <1>1 DEF Places, AStream!Channels, AStream!Calls
<1>4. Append(queue[c], v) \in Seq(Items) /\ Append(sent[c], v) \in Seq(Items)
  BY <1>2, AppendIs
<1>5. StreamType'
  BY <1>1, <1>2, <1>3, <1>4 DEF StreamType
<1>6. ChannelInv'
  <2>1. ASSUME NEW d \in AStream!Channels  PROVE sent'[d] = AStream!FlattenSeq(log[d]) \o queue'[d]
    <3>1. log[d] \in Seq(Options) /\ sent[d] = AStream!FlattenSeq(log[d]) \o queue[d]
      BY DEF StreamInv, StreamType, Places, ChannelInv
    <3>2. CASE d = c
      <4> DEFINE p == AStream!FlattenSeq(log[c])
      <4>1. p \in Seq(Items) /\ <<v>> \in Seq(Items)
        BY <1>2, <3>1, <3>2, LogIsFlat, FlattenAppend, EmptySeq
      <4> HIDE DEF p
      <4>2. (p \o queue[c]) \o <<v>> = p \o (queue[c] \o <<v>>)
        BY <1>2, <4>1, Regroup, ZenonT(60)
      <4>3. Append(queue[c], v) = queue[c] \o <<v>> /\ Append(sent[c], v) = sent[c] \o <<v>>
        BY <1>2, AppendIsConcat
      <4>4. sent'[c] = Append(sent[c], v) /\ queue'[c] = Append(queue[c], v)
        BY <1>1, <1>2 DEF StreamType
      <4>. QED BY <3>1, <3>2, <4>2, <4>3, <4>4 DEF p
    <3>3. CASE d # c
      BY <1>1, <1>2, <3>1, <3>3 DEF StreamType
    <3>. QED BY <3>2, <3>3
  <2>. QED BY <1>1, <1>3, <2>1 DEF ChannelInv
<1>7. \A k : AStream!Heard(k)' = AStream!Heard(k)
  BY <1>1 DEF AStream!Heard
<1>8. ConsumerInv'
  <2>1. AStream!Heard(Len(stages) + 1)' = AStream!Heard(Len(stages) + 1)
    BY <1>1 DEF AStream!Heard
  <2>. QED BY <1>1, <2>1 DEF StreamInv, ConsumerInv
<1>9. ASSUME NEW k \in DOMAIN stages  PROVE StageInv(k)'
  BY <1>1, <1>7, StageKeeps DEF StreamInv, Pulling
<1>. QED BY <1>1, <1>5, <1>6, <1>8, <1>9 DEF StreamInv

\* The source keeps the invariant: what it gives up goes into its log.
LEMMA ReceiveKeeps ==
  ASSUME StreamInv, AStream!Receive
  PROVE  StreamInv'
<1> DEFINE o == AStream!try_recv(0)
           r == AStream!Rest(0)
<1>1. /\ turn = 0 /\ ~back /\ queue' = [queue EXCEPT ![0] = r] /\ log' = [log EXCEPT ![0] = Append(log[0], o)]
      /\ turn' = 1 /\ back' = TRUE /\ UNCHANGED <<stages, own, acc, sent, collected, vectors>>
  BY DEF AStream!Receive, AStream!src
<1>2. /\ StreamType /\ 0 \in AStream!Channels /\ 0 \in Places /\ log[0] \in Seq(Options)
      /\ Len(stages) \in Nat /\ DOMAIN stages = 1 .. Len(stages)
      /\ \A k \in AStream!Calls("concat") : -k \in AStream!Channels /\ k \in DOMAIN stages
      /\ \A k \in 1 .. Len(stages) + 1 : k - 1 \in Places
  BY PlacesAre DEF StreamInv, StreamType, Places
<1>3. o \in Options /\ r \in Seq(Items) /\ sent[0] = AStream!FlattenSeq(Append(log[0], o)) \o r
  BY <1>2, Given, ChannelKeeps DEF StreamInv
<1> HIDE DEF o, r
<1>4. Append(log[0], o) \in Seq(Options) /\ AStream!Front(Append(log[0], o)) = log[0] /\ Append(log[0], o) # <<>>
  BY <1>2, <1>3, FrontOfAppend
<1>5. log' \in [Places -> Seq(Options)] /\ log'[0] = Append(log[0], o) /\ \A w \in Places \ {0} : log'[w] = log[w]
  BY <1>1, <1>2, <1>4 DEF StreamType
<1>6. queue' \in [AStream!Channels -> Seq(Items)] /\ queue'[0] = r /\ \A c \in AStream!Channels \ {0} : queue'[c] = queue[c]
  BY <1>1, <1>2, <1>3 DEF StreamType
<1>7. AStream!Channels' = AStream!Channels /\ Places' = Places
  BY <1>1 DEF Places, AStream!Channels, AStream!Calls
<1>8. StreamType'
  BY <1>1, <1>2, <1>4, <1>5, <1>6, <1>7 DEF StreamType
<1>9. ChannelInv'
  <2>1. ASSUME NEW c \in AStream!Channels  PROVE sent[c] = AStream!FlattenSeq(log'[c]) \o queue'[c]
    <3>1. CASE c = 0
      BY <1>3, <1>5, <1>6, <3>1
    <3>2. CASE c # 0
      <4>1. log'[c] = log[c] /\ queue'[c] = queue[c]
        BY <1>5, <1>6, <3>2 DEF Places
      <4>. QED BY <4>1 DEF StreamInv, ChannelInv
    <3>. QED BY <3>1, <3>2
  <2>. QED BY <1>1, <1>7, <2>1 DEF ChannelInv
<1>10. ASSUME NEW k \in 1 .. Len(stages) + 1  PROVE AStream!Heard(k)' = AStream!Heard(k)
  <2>1. AStream!Heard(k) = log[k - 1]
    BY <1>1, <1>10 DEF AStream!Heard
  <2>2. CASE k = 1
    <3>1. AStream!Heard(k)' = AStream!Front(log'[0])
      BY <1>1, <2>2 DEF AStream!Heard
    <3>. QED BY <1>4, <1>5, <2>1, <2>2, <3>1
  <2>3. CASE k # 1
    <3>1. AStream!Heard(k)' = log'[k - 1]
      BY <1>1, <2>3 DEF AStream!Heard
    <3>2. k - 1 \in Places \ {0}
      BY <1>2, <2>3
    <3>. QED BY <1>5, <2>1, <3>1, <3>2
  <2>. QED BY <2>2, <2>3
<1>11. ConsumerInv'
  <2>1. ASSUME NEW m, m = Len(stages) + 1  PROVE AStream!Heard(m)' = AStream!Heard(m)
    BY <1>2, <1>10, <2>1
  <2>2. AStream!Heard(Len(stages) + 1)' = AStream!Heard(Len(stages) + 1)
    BY <1>1, <2>1 DEF AStream!Heard
  <2>. QED BY <1>1, <2>2 DEF StreamInv, ConsumerInv
<1>12. ASSUME NEW k \in DOMAIN stages  PROVE StageInv(k)'
  <2>1. StageInv(k) /\ AStream!Heard(k)' = AStream!Heard(k)
    BY <1>2, <1>10 DEF StreamInv
  <2>2. log'[k] = log[k]
    <3>1. k \in Places \ {0}
      BY <1>2 DEF Places
    <3>. QED BY <1>5, <3>1
  <2>3. k \in AStream!Calls("concat") => log'[-k] = log[-k]
    <3>1. -k # 0
      BY <1>2
    <3>. QED BY <1>2, <1>5, <3>1 DEF Places
  <2>4. Pulling(k)
    BY <1>1, <1>2 DEF Pulling
  <2>. QED BY <1>1, <2>1, <2>2, <2>3, <2>4, StageKeeps
<1>. QED BY <1>1, <1>8, <1>9, <1>11, <1>12 DEF StreamInv

\* collect keeps the invariant: an item goes into its vector, and an end closes the vector.
LEMMA CollectKeeps ==
  ASSUME StreamInv, AStream!Collect
  PROVE  StreamInv'
<1>1. /\ turn = Len(stages) + 1
      /\ \/ /\ ~back /\ turn' = turn - 1
            /\ UNCHANGED <<collected, vectors, back>>
         \/ /\ back /\ back' = FALSE /\ turn' = turn
            /\ collected' = IF AStream!answer = <<>> THEN <<>> ELSE collected \o AStream!answer
            /\ vectors' = IF AStream!answer = <<>> THEN Append(vectors, collected) ELSE vectors
      /\ UNCHANGED <<stages, queue, own, acc, sent, log>>
  BY DEF AStream!Collect, AStream!consumer, AStream!nullopt
<1>2. /\ StreamType /\ Len(stages) \in Nat /\ DOMAIN stages = 1 .. Len(stages) /\ turn \in 1 .. Len(stages) + 1
      /\ collected \in Seq(Items) /\ vectors \in Seq(Seq(Items))
  BY <1>1, PlacesAre DEF StreamInv, StreamType
<1>3. AStream!Channels' = AStream!Channels /\ Places' = Places
  BY <1>1 DEF Places, AStream!Channels, AStream!Calls
<1>4. ChannelInv'
  BY <1>1, <1>3 DEF StreamInv, ChannelInv
<1>5. ~back' /\ turn' \in 0 .. Len(stages) + 1
  BY <1>1, <1>2
<1>6. ASSUME NEW k \in DOMAIN stages  PROVE StageInv(k)'
  <2>1. AStream!Heard(k) = log[k - 1] /\ AStream!Heard(k)' = log'[k - 1]
    BY <1>1, <1>2, <1>5 DEF AStream!Heard
  <2>2. ~Pulling(k)'
    BY <1>1, <1>2, <1>5 DEF Pulling
  <2>. QED BY <1>1, <2>1, <2>2, StageKeeps DEF StreamInv
<1> DEFINE in == AStream!Heard(Len(stages) + 1)
           o  == AStream!answer
<1>7. AStream!FlattenSeq(vectors) \o collected = AStream!FlattenSeq(in)
  BY DEF StreamInv, ConsumerInv
<1>8. /\ in \in Seq(Options)
      /\ ~back => in = log[turn - 1]
      /\ back => o \in Options /\ log[turn - 1] = Append(in, o)
  BY <1>1, <1>2, HeardIs
<1>9. AStream!Heard(Len(stages) + 1)' = log[turn - 1]
  BY <1>1, <1>5 DEF AStream!Heard
<1> HIDE DEF in, o
<1>10. CASE ~back /\ UNCHANGED <<collected, vectors, back>>
  <2>1. StreamType'
    BY <1>1, <1>2, <1>3, <1>5, <1>10 DEF StreamType
  <2>2. ConsumerInv'
    <3>1. AStream!FlattenSeq(vectors') \o collected' = AStream!FlattenSeq(AStream!Heard(Len(stages) + 1)')
      <4>1. AStream!Heard(Len(stages) + 1)' = in
        BY <1>8, <1>9, <1>10
      <4>. QED BY <1>7, <1>10, <4>1
    <3>. QED BY <3>1 DEF ConsumerInv
  <2>. QED BY <1>1, <1>4, <1>6, <2>1, <2>2 DEF StreamInv
<1>11. CASE /\ back
            /\ collected' = IF o = <<>> THEN <<>> ELSE collected \o o
            /\ vectors' = IF o = <<>> THEN Append(vectors, collected) ELSE vectors
  <2>1. o \in Options /\ o \in Seq(Items)
    BY <1>8, <1>11, OptionIs
  <2> DEFINE p == AStream!FlattenSeq(vectors)
             q == AStream!FlattenSeq(in)
             h == AStream!FlattenSeq(Append(in, o))
             g == AStream!FlattenSeq(Append(vectors, collected))
  <2>2. p \in Seq(Items) /\ g = p \o collected
    BY <1>2, FlattenAppend
  <2>3. q \in Seq(Items) /\ h = q \o o
    BY <1>8, <2>1, FlattenMore, Zenon
  <2>4. AStream!Heard(Len(stages) + 1)' = Append(in, o)
    BY <1>8, <1>9, <1>11
  <2>5. CASE o = <<>>
    <3>1. vectors' = Append(vectors, collected) /\ collected' = <<>>
      BY <1>11, <2>5
    <3>2. vectors' \in Seq(Seq(Items)) /\ collected' \in Seq(Items)
      BY <1>2, <3>1, AppendProperties, EmptySeq
    <3>3. StreamType'
      BY <1>1, <1>2, <1>3, <1>5, <3>2 DEF StreamType
    <3>4. g \o <<>> = h
      <4> HIDE DEF p, q, h, g
      <4>1. g = q
        BY <1>7, <2>2 DEF p, q
      <4>. QED BY <2>3, <2>5, <4>1
    <3>5. AStream!FlattenSeq(vectors') \o collected' = AStream!FlattenSeq(AStream!Heard(Len(stages) + 1)')
      BY <2>4, <3>1, <3>4
    <3>6. ConsumerInv'
      BY <3>5 DEF ConsumerInv
    <3>. QED BY <1>1, <1>4, <1>6, <3>3, <3>6 DEF StreamInv
  <2>6. CASE o # <<>>
    <3>1. vectors' = vectors /\ collected' = collected \o o
      BY <1>11, <2>6
    <3>2. collected' \in Seq(Items)
      BY <1>2, <2>1, <3>1, ConcatProperties
    <3>3. StreamType'
      BY <1>1, <1>2, <1>3, <1>5, <3>1, <3>2 DEF StreamType
    <3>4. p \o (collected \o o) = h
      <4> HIDE DEF p, q, h, g
      <4>1. (p \o collected) \o o = p \o (collected \o o)
        BY <1>2, <2>1, <2>2, Regroup, Zenon
      <4>2. p \o collected = q
        BY <1>7 DEF p, q
      <4>. QED BY <2>3, <4>1, <4>2
    <3>5. AStream!FlattenSeq(vectors') \o collected' = AStream!FlattenSeq(AStream!Heard(Len(stages) + 1)')
      BY <2>4, <3>1, <3>4
    <3>6. ConsumerInv'
      BY <3>5 DEF ConsumerInv
    <3>. QED BY <1>1, <1>4, <1>6, <3>3, <3>6 DEF StreamInv
  <2>. QED BY <2>5, <2>6
<1>. QED BY <1>1, <1>10, <1>11 DEF o

\* A take or take_while that is done answers without a pull.
LEMMA EndKeeps ==
  ASSUME StreamInv, NEW t \in DOMAIN stages, turn = t, ~back, AStream!Done(t), AStream!Return(<<>>, own[t]),
         UNCHANGED <<stages, acc, sent, collected, vectors>>
  PROVE  StreamInv'
<1> DEFINE in == AStream!Heard(t)
<1>1. /\ StreamType /\ t \in 1 .. Len(stages) + 1 /\ t \in Places /\ <<>> \in Options
      /\ stages[t] \in AStream!Stage /\ StageInv(t) /\ own[t] \in Nat /\ acc[t] \in Items
      /\ Sets(t, acc[t])
  <2>1. StreamType /\ t \in 1 .. Len(stages) + 1 /\ t \in Places /\ <<>> \in Options
    BY PlacesAre DEF StreamInv, Places, Options
  <2>2. stages[t] \in AStream!Stage
    BY <2>1, PlacesAre, ElementOfSeq DEF StreamType
  <2>3. acc \in [DOMAIN stages -> Items] /\ acc' = acc
    BY <2>1 DEF StreamType
  <2>4. acc[t] \in Items /\ Sets(t, acc[t])
    BY <2>3 DEF Sets
  <2>. QED BY <2>1, <2>2, <2>4 DEF StreamInv, StreamType
<1>2. in = log[t - 1] /\ in \in Seq(Options) /\ log[t] \in Seq(Options)
  BY <1>1, HeardIs DEF StreamType
<1>3. /\ AStream!Heard(t)' = log[t - 1] /\ log'[t] = Append(log[t], <<>>) /\ own'[t] = own[t] /\ ~Pulling(t)'
      /\ StageInv(t)' => StreamInv'
  BY <1>1, ReturnKeeps
<1> HIDE DEF in
<1>4. CASE t \in AStream!Calls("take") /\ own[t] >= stages[t].n
  <2>1. stages[t].op = "take"
    BY <1>4 DEF AStream!Calls
  <2>2. AStream!Takes(stages[t], in, log[t]) /\ own[t] = Len(AStream!FlattenSeq(in))
    BY <1>1, <1>4 DEF StageInv, OwnAgrees, AStream!StageAgrees, in
  <2>3. AStream!Takes(stages[t], in, Append(log[t], <<>>))
    BY <1>1, <1>2, <1>4, <2>2, TakesEnd
  <2>4. /\ stages' = stages /\ AStream!Takes(stages'[t], AStream!Heard(t)', log'[t])
        /\ own'[t] = Len(AStream!FlattenSeq(AStream!Heard(t)'))
    BY <1>2, <1>3, <2>2, <2>3
  <2>5. StageInv(t)'
    BY <1>3, <2>1, <2>4 DEF StageInv, OwnAgrees, AStream!StageAgrees, AStream!Calls
  <2>. QED BY <1>3, <2>5
<1>5. CASE t \in AStream!Calls("take_while") /\ own[t] = 1
  <2>1. stages[t].op = "take_while"
    BY <1>5 DEF AStream!Calls
  <2>2. AStream!TakesWhile(stages[t], in, log[t]) /\ own[t] = (IF Passing(stages[t], in) THEN 0 ELSE 1)
    BY <1>1, <1>5 DEF StageInv, OwnAgrees, AStream!StageAgrees, in
  <2>3. ~Passing(stages[t], in)
    BY <1>5, <2>2
  <2>4. AStream!TakesWhile(stages[t], in, Append(log[t], <<>>))
    BY <1>1, <1>2, <2>2, <2>3, TakesWhileEnd
  <2>5. /\ stages' = stages /\ AStream!TakesWhile(stages'[t], AStream!Heard(t)', log'[t])
        /\ own'[t] = IF Passing(stages'[t], AStream!Heard(t)') THEN 0 ELSE 1
    BY <1>2, <1>3, <2>2, <2>4
  <2>6. StageInv(t)'
    BY <1>3, <2>1, <2>5 DEF StageInv, OwnAgrees, AStream!StageAgrees, AStream!Calls
  <2>. QED BY <1>3, <2>6
<1>. QED BY <1>4, <1>5 DEF AStream!Done

\* A concat that has left its first stream asks the other channel itself.
LEMMA TurnedKeeps ==
  ASSUME StreamInv, NEW t \in DOMAIN stages, turn = t, ~back, AStream!Turned(t), NEW o, o = AStream!try_recv(-t),
         queue' = [queue EXCEPT ![-t] = AStream!Rest(-t)],
         log' = [log EXCEPT ![-t] = Append(@, o), ![t] = Append(@, o)],
         turn' = t + 1, back' = TRUE, UNCHANGED <<stages, own, acc, sent, collected, vectors>>
  PROVE  StreamInv'
<1> DEFINE in == AStream!Heard(t)
           r  == AStream!Rest(-t)
<1>1. /\ StreamType /\ Len(stages) \in Nat /\ DOMAIN stages = 1 .. Len(stages)
      /\ t \in 1 .. Len(stages) + 1 /\ t \in Places /\ -t \in AStream!Channels /\ -t \in Places /\ -t # t
      /\ AStream!Channels \subseteq Places /\ t \notin AStream!Channels
      /\ StageInv(t) /\ log[t] \in Seq(Options) /\ log[-t] \in Seq(Options)
  <2>1. /\ StreamType /\ Len(stages) \in Nat /\ DOMAIN stages = 1 .. Len(stages)
        /\ -t \in AStream!Channels /\ AStream!Channels \subseteq Int /\ \A c \in AStream!Channels : c <= 0
    BY PlacesAre DEF StreamInv, AStream!Turned
  <2>2. t \in 1 .. Len(stages) + 1 /\ -t # t /\ t \notin AStream!Channels /\ t \in Places /\ -t \in Places
    BY <2>1 DEF Places
  <2>. QED BY <2>1, <2>2 DEF StreamInv, StreamType, Places
<1>2. o \in Options /\ r \in Seq(Items) /\ sent[-t] = AStream!FlattenSeq(Append(log[-t], o)) \o r
  BY <1>1, Given, ChannelKeeps
<1>3. in = log[t - 1] /\ in \in Seq(Options)
  BY <1>1, HeardIs
<1>4. stages[t].op = "concat"
  BY DEF AStream!Turned, AStream!Calls
<1>5. own[t] = 1 /\ AStream!Concats(in, log[-t], log[t]) /\ AStream!Ended(in)
  BY <1>1 DEF StageInv, OwnAgrees, AStream!StageAgrees, AStream!Turned, AStream!other
<1> HIDE DEF in, r
<1>6. Append(log[-t], o) \in Seq(Options) /\ Append(log[t], o) \in Seq(Options)
  BY <1>1, <1>2, AppendIs
<1>7. /\ log' \in [Places -> Seq(Options)] /\ log'[t] = Append(log[t], o) /\ log'[-t] = Append(log[-t], o)
      /\ \A w \in Places \ {t, -t} : log'[w] = log[w]
  BY <1>1, <1>6 DEF StreamType
<1>8. /\ queue' \in [AStream!Channels -> Seq(Items)] /\ queue'[-t] = r
      /\ \A c \in AStream!Channels \ {-t} : queue'[c] = queue[c]
  BY <1>1, <1>2 DEF StreamType, r
<1>9. /\ \A j \in DOMAIN stages \ {t} : StageInv(j)'
      /\ AStream!Heard(Len(stages) + 1)' = AStream!Heard(Len(stages) + 1)
      /\ AStream!Heard(t)' = log[t - 1]
      /\ turn' \in 0 .. Len(stages) + 1 /\ turn' # 0 /\ log'[turn' - 1] # <<>>
  BY <1>2, <1>7, AnswerKeeps, Zenon
<1>10. AStream!Channels' = AStream!Channels /\ Places' = Places
  BY DEF Places, AStream!Channels, AStream!Calls
<1>11. StreamType'
  BY <1>1, <1>7, <1>8, <1>9, <1>10 DEF StreamType
<1>12. ChannelInv'
  <2>1. ASSUME NEW c \in AStream!Channels  PROVE sent[c] = AStream!FlattenSeq(log'[c]) \o queue'[c]
    <3>1. CASE c = -t
      BY <1>2, <1>7, <1>8, <3>1
    <3>2. CASE c # -t
      <4>1. log'[c] = log[c] /\ queue'[c] = queue[c]
        BY <1>1, <1>7, <1>8, <3>2
      <4>. QED BY <4>1 DEF StreamInv, ChannelInv
    <3>. QED BY <3>1, <3>2
  <2>. QED BY <1>10, <2>1 DEF ChannelInv
<1>13. ConsumerInv'
  BY <1>9 DEF StreamInv, ConsumerInv
<1>14. StageInv(t)'
  <2>1. AStream!Concats(in, Append(log[-t], o), Append(log[t], o))
    BY <1>1, <1>2, <1>3, <1>5, ConcatsMore
  <2>2. /\ stages' = stages /\ AStream!Concats(AStream!Heard(t)', log'[-t], log'[t])
        /\ AStream!Ended(AStream!Heard(t)') /\ own'[t] = 1
    BY <1>3, <1>5, <1>7, <1>9, <2>1
  <2>3. ~Pulling(t)'
    BY <1>1 DEF Pulling
  <2>. QED BY <1>4, <2>2, <2>3 DEF StageInv, OwnAgrees, AStream!StageAgrees, AStream!Calls, AStream!other
<1>. QED BY <1>9, <1>11, <1>12, <1>13, <1>14 DEF StreamInv

\* A call of a callable keeps the invariant.
LEMMA PullKeeps ==
  ASSUME StreamInv, NEW t, turn = t, AStream!Pull
  PROVE  StreamInv'
<1>1. /\ t \in DOMAIN stages /\ ~back /\ UNCHANGED <<stages, acc, sent, collected, vectors>>
      /\ \/ AStream!Done(t) /\ AStream!Return(<<>>, own[t])
         \/ /\ AStream!Turned(t)
            /\ queue' = [queue EXCEPT ![-t] = AStream!Rest(-t)]
            /\ log' = [log EXCEPT ![-t] = Append(@, AStream!try_recv(-t)), ![t] = Append(@, AStream!try_recv(-t))]
            /\ turn' = t + 1 /\ back' = TRUE /\ own' = own
         \/ /\ ~AStream!Done(t) /\ ~AStream!Turned(t) /\ turn' = t - 1
            /\ UNCHANGED <<queue, own, log, back>>
  BY DEF AStream!Pull, AStream!other, AStream!nullopt
<1>2. CASE AStream!Done(t) /\ AStream!Return(<<>>, own[t])
  BY <1>1, <1>2, EndKeeps
<1>3. CASE /\ AStream!Turned(t)
           /\ queue' = [queue EXCEPT ![-t] = AStream!Rest(-t)]
           /\ log' = [log EXCEPT ![-t] = Append(@, AStream!try_recv(-t)), ![t] = Append(@, AStream!try_recv(-t))]
           /\ turn' = t + 1 /\ back' = TRUE /\ own' = own
  BY <1>1, <1>3, TurnedKeeps
<1>4. CASE ~AStream!Done(t) /\ ~AStream!Turned(t) /\ turn' = t - 1 /\ UNCHANGED <<queue, own, log, back>>
  <2>1. /\ StreamType /\ t \in 1 .. Len(stages) /\ Len(stages) \in Nat /\ DOMAIN stages = 1 .. Len(stages)
        /\ own \in [DOMAIN stages -> Nat]
    BY <1>1, PlacesAre DEF StreamInv, StreamType
  <2>2. turn' \in {t - 1, t} /\ back' = FALSE /\ \A j \in DOMAIN stages \ {t} : own'[j] = own[j]
    BY <1>1, <1>4, <2>1
  <2>3. StageInv(t)' => StreamInv'
    BY <1>1, <1>4, <2>1, <2>2, GoesOn
  <2>4. AStream!Heard(t) = log[t - 1] /\ AStream!Heard(t)' = log'[t - 1]
    BY <1>1, <1>4 DEF AStream!Heard
  <2>5. StageInv(t)'
    BY <1>1, <1>4, <2>4, StageKeeps DEF StreamInv
  <2>. QED BY <2>3, <2>5
<1>. QED BY <1>1, <1>2, <1>3, <1>4

-----------------------------------------------------------------------------
\* The invariant holds at first.
LEMMA StreamInit ==
  ASSUME AStream!Init
  PROVE  StreamInv
<1>1. /\ stages \in Pipelines /\ queue = [c \in AStream!Channels |-> <<>>] /\ sent = queue
      /\ own = [k \in DOMAIN stages |-> 0] /\ acc = [k \in DOMAIN stages |-> stages[k].init]
      /\ log = [w \in Places |-> <<>>] /\ collected = <<>> /\ vectors = <<>>
      /\ turn = Len(stages) + 1 /\ back = FALSE
  BY DEF AStream!Init, Places, AStream!consumer
<1>2. stages \in Seq(AStream!Stage)
  BY <1>1, ComponentsAssumption
<1>3. Len(stages) \in Nat /\ DOMAIN stages = 1 .. Len(stages) /\ \A k \in DOMAIN stages : stages[k] \in AStream!Stage
  BY <1>2, LenProperties, ElementOfSeq
<1>4. \A S : <<>> \in Seq(S)
  BY EmptySeq
<1>5. StreamType
  <2>1. \A k \in DOMAIN stages : stages[k].init \in Items
    BY <1>3 DEF AStream!Stage
  <2>2. turn \in 0 .. Len(stages) + 1
    BY <1>1, <1>3
  <2>. QED BY <1>1, <1>2, <1>4, <2>1, <2>2 DEF StreamType
<1>6. AStream!FlattenSeq(<<>>) = <<>> /\ <<>> \o <<>> = <<>>
  BY EmptySeq DEF AStream!FlattenSeq
<1>7. ChannelInv
  BY <1>1, <1>6 DEF ChannelInv, Places
<1>8. \A k \in 1 .. Len(stages) + 1 : k - 1 \in Places
  BY <1>5, PlacesAre
<1>9. \A k \in 1 .. Len(stages) + 1 : AStream!Heard(k) = <<>>
  BY <1>1, <1>8 DEF AStream!Heard
<1>10. ConsumerInv
  <2>1. Len(stages) + 1 \in 1 .. Len(stages) + 1
    BY <1>3
  <2>. QED BY <1>1, <1>6, <1>9, <2>1 DEF ConsumerInv
<1>11. ASSUME NEW k \in DOMAIN stages  PROVE StageInv(k)
  <2>1. /\ stages[k] \in AStream!Stage /\ AStream!Heard(k) = <<>> /\ log[k] = <<>> /\ own[k] = 0 /\ acc[k] = stages[k].init
        /\ k \in 1 .. Len(stages)
    BY <1>1, <1>3, <1>9 DEF Places
  <2>2. k \in AStream!Calls("concat") => log[-k] = <<>>
    BY <1>1, <1>5, PlacesAre DEF Places
  <2>3. AStream!StageAgrees(k, <<>>, <<>>)
    BY <2>1, <2>2, StagesStart DEF AStream!StageAgrees, AStream!other
  <2>4. Len(<<>>) = 0 /\ Passing(stages[k], <<>>) /\ ~AStream!Ended(<<>>)
    BY EmptySeq DEF Passing, AStream!Ended
  <2>5. ~Pulling(k)
    BY <1>1, <1>3, <2>1 DEF Pulling
  <2>6. OwnAgrees(k, <<>>)
    BY <2>1, <2>4, <2>5, StagesStart DEF OwnAgrees
  <2>. QED BY <2>1, <2>3, <2>6 DEF StageInv
<1>. QED BY <1>5, <1>7, <1>10, <1>11 DEF StreamInv

\* Every step keeps the invariant.
LEMMA StreamStep ==
  ASSUME StreamInv, [AStream!Next]_(AStream!vars)
  PROVE  StreamInv'
<1>1. PICK t : turn = t
  OBVIOUS
<1>2. CASE UNCHANGED AStream!vars
  <2>1. \A k : AStream!Heard(k)' = AStream!Heard(k) /\ (Pulling(k)' <=> Pulling(k))
    BY <1>2 DEF AStream!Heard, AStream!vars, Pulling
  <2>2. \A k \in DOMAIN stages' : StageInv(k)'
    BY <1>2, <2>1, StageKeeps DEF StreamInv, AStream!vars
  <2>3. StreamType' /\ ChannelInv'
    BY <1>2 DEF StreamInv, StreamType, ChannelInv, Places, AStream!Channels, AStream!Calls, AStream!vars
  <2>4. ConsumerInv'
    BY <1>2, <2>1 DEF StreamInv, ConsumerInv, AStream!vars
  <2>. QED BY <2>2, <2>3, <2>4 DEF StreamInv
<1>. QED BY <1>1, <1>2, SendKeeps, CollectKeeps, ReceiveKeeps, PullKeeps, MapKeeps, FilterKeeps, TakeKeeps, TakeWhileKeeps,
            ScanKeeps, ConcatKeeps DEF AStream!Next

\* StreamAgrees: however sends fall into the pulls of a pipeline of any stages, and however often it is
\* drained, every stage of stream.hpp answers what its definition makes of what its source answered, and
\* no item is lost but by a stage that turns it down.
THEOREM StreamTheorem == AStream!Spec => []StreamAgrees
<1>1. AStream!Init => StreamInv
  BY StreamInit
<1>2. StreamInv /\ [AStream!Next]_(AStream!vars) => StreamInv'
  BY StreamStep
<1>3. StreamInv => StreamAgrees
  BY DEF StreamInv, ChannelInv, ConsumerInv, StageInv, StreamAgrees, AStream!StreamAgrees, AStream!consumer
<1>. QED BY <1>1, <1>2, <1>3, PTL DEF AStream!Spec
=============================================================================
