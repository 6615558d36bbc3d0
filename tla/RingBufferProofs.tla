-------------------------- MODULE RingBufferProofs --------------------------
(***************************************************************************)
(* Safety of fp::RingBuffer for every width of the indices, every set of   *)
(* requested capacities and every number of pushes: no access to a slot    *)
(* races, size() stays sane, and the buffer implements BoundedFifo.        *)
(***************************************************************************)
EXTENDS RingBuffer, SequenceTheorems, WellFoundedInduction, TLAPS

TypeOK ==
  /\ cap_ \in Powers
  /\ buf_ \in [0 .. cap_ - 1 -> Nat]
  /\ pushed \in 0 .. MaxPushes /\ popped \in Nat
  /\ producer \in {"idle", "write", "store"} /\ headSeen \in Nat /\ popsVisible \in Nat
  /\ consumer \in {"idle", "read", "store"} /\ tailSeen \in Nat /\ pushesVisible \in Nat
  /\ item \in Nat
  /\ knew \in Seq(Nat)
  /\ observer \in {"idle", "tail"} /\ obsHead \in Nat /\ obsTail \in Nat

\* What the producer knows of head_ is old but true, and leaves it room for what it is pushing.
ProducerInv ==
  /\ headSeen <= popped /\ popsVisible = headSeen
  /\ pushed - headSeen <= cap_
  /\ producer \in {"write", "store"} => pushed < MaxPushes /\ pushed - headSeen < cap_

\* What the consumer knows of tail_ likewise covers what it is popping.
ConsumerInv ==
  /\ popped <= tailSeen /\ tailSeen <= pushed /\ pushesVisible = tailSeen
  /\ consumer \in {"read", "store"} => popped < tailSeen
  /\ item = IF consumer = "store" THEN popped + 1 ELSE 0

\* A store to head_ carries a view of tail_ that is not behind it.
ObserverInv ==
  /\ Len(knew) = popped
  /\ \A k \in 1 .. popped : knew[k] \in k .. tailSeen
  /\ obsHead <= popped /\ obsTail <= pushed
  /\ observer = "tail" => obsHead <= obsTail

\* The slots of the elements inside hold them, and so does the slot the producer has written.
Inside == First .. (IF producer = "store" THEN pushed ELSE pushed - 1)
SlotsInv == \A i \in Inside : buf_[Slot(i)] = i + 1

IInv == TypeOK /\ ProducerInv /\ ConsumerInv /\ ObserverInv /\ SlotsInv

-----------------------------------------------------------------------------
\* Arithmetic of indices that wrap around.

LEMMA LeastOf ==
  ASSUME NEW S, S \subseteq Nat, S # {}
  PROVE  \E x \in S : \A y \in S : x <= y
<1>1. IsWellFoundedOn(OpToRel(<, Nat), Nat)
  BY NatLessThanWellFounded
<1>2. PICK x \in S : \A y \in S : ~ (<<y, x>> \in OpToRel(<, Nat))
  BY <1>1, WFMin
<1>3. \A y \in S : ~ (y < x)
  BY <1>2 DEF OpToRel
<1>. QED BY <1>3

LEMMA Quotient ==
  ASSUME NEW a \in Nat, NEW c \in Nat, 0 < c
  PROVE  a \div c \in Nat /\ a % c \in 0 .. c - 1 /\ a = c * (a \div c) + (a % c)
OBVIOUS

\* A remainder is the only number below the divisor that is a multiple away.
LEMMA Remainder ==
  ASSUME NEW a \in Nat, NEW c \in Nat, 0 < c, NEW m \in Int, NEW r \in 0 .. c - 1, a = c * m + r
  PROVE  a % c = r
<1> DEFINE d == m - a \div c
<1>1. c * d = (a % c) - r /\ d \in Int
  BY Quotient
<1>2. (a % c) - r < c /\ (a % c) - r > -c
  BY Quotient
<1>3. ~ (d >= 1) /\ ~ (d <= -1)
  <2> HIDE DEF d
  <2>1. ASSUME d >= 1 PROVE c * d >= c
    BY <1>1, <2>1
  <2>2. ASSUME d <= -1 PROVE c * d <= -c
    BY <1>1, <2>2
  <2>. QED BY <1>1, <1>2, <2>1, <2>2
<1>4. d = 0
  BY <1>1, <1>3
<1>. QED BY <1>1, <1>4, Quotient

LEMMA TimesAssociative ==
  ASSUME NEW a \in Nat, NEW b \in Nat, NEW c \in Nat
  PROVE  (a * b) * c = a * (b * c) /\ b * c \in Nat
OBVIOUS

LEMMA MultipleRemainder ==
  ASSUME NEW a \in Nat, NEW c \in Nat, 0 < c, NEW m \in Nat, a = c * m
  PROVE  a % c = 0
<1> DEFINE r == 0
<1>1. a = c * m + r /\ r \in 0 .. c - 1 /\ m \in Int
  OBVIOUS
<1> HIDE DEF r
<1>2. a % c = r
  BY <1>1, Remainder
<1>. QED BY <1>2 DEF r

\* What divides a divisor of p divides p.
LEMMA DividesMultiple ==
  ASSUME NEW p \in Nat, NEW h \in Nat, NEW d \in Nat \ {0}, NEW x \in Nat,
         p = x * h, h % d = 0
  PROVE  p % d = 0
<1> DEFINE q == h \div d
<1>1. h = d * q /\ q \in Nat
  BY Quotient
<1> HIDE DEF q
<1>2. p = d * (x * q) /\ x * q \in Nat
  <2>1. d * (x * q) = (d * x) * q /\ x * (d * q) = (x * d) * q /\ x * q \in Nat
    BY <1>1, TimesAssociative
  <2>2. d * x = x * d
    OBVIOUS
  <2>. QED BY <1>1, <2>1, <2>2
<1>3. PICK m \in Nat : p = d * m
  BY <1>2
<1>4. d \in Nat /\ 0 < d
  OBVIOUS
<1>. QED BY Zenon, <1>3, <1>4, MultipleRemainder

LEMMA HalfIsPower ==
  ASSUME NEW p \in Nat \ {0, 1}, PowerOfTwo(p)
  PROVE  \E h \in Nat \ {0} : p = 2 * h /\ PowerOfTwo(h)
<1> DEFINE h == p \div 2
<1>1. p % 2 = 0
  <2>1. p % p = 0
    BY MultipleRemainder
  <2>. QED BY <2>1 DEF PowerOfTwo
<1>2. p = 2 * h /\ h \in Nat \ {0}
  BY <1>1, Quotient
<1> HIDE DEF h
<1>3. ASSUME NEW d \in 1 .. h, h % d = 0  PROVE d = 1 \/ d % 2 = 0
  <2>1. d \in 1 .. p /\ d \in Nat \ {0} /\ h \in Nat /\ 2 \in Nat /\ p \in Nat
    BY <1>2
  <2>2. p % d = 0
    BY <1>2, <1>3, <2>1, DividesMultiple
  <2>. QED BY <2>1, <2>2 DEF PowerOfTwo
<1>. QED BY <1>2, <1>3 DEF PowerOfTwo

\* The smaller of two powers of two divides the larger: halve both.
LEMMA SmallerDivides ==
  ASSUME NEW a \in Nat \ {0}, NEW b \in Nat \ {0}, a < b, PowerOfTwo(a), PowerOfTwo(b)
  PROVE  b % a = 0
<1> DEFINE Divides(p) == \A m \in Nat \ {0} : p < m /\ PowerOfTwo(m) => m % p = 0
           Bad == {p \in Nat \ {0} : PowerOfTwo(p) /\ ~Divides(p)}
<1>1. SUFFICES Bad = {}
  OBVIOUS
<1>2. SUFFICES ASSUME Bad # {}  PROVE FALSE
  OBVIOUS
<1>3. PICK p \in Bad : \A q \in Bad : p <= q
  BY <1>2, LeastOf
<1>4. PICK m \in Nat \ {0} : p < m /\ PowerOfTwo(m) /\ m % p # 0
  BY <1>3
<1>5. p # 1
  <2>1. m % 1 = 0
    BY MultipleRemainder
  <2>. QED BY <1>4, <2>1
<1>6. PICK h \in Nat \ {0} : p = 2 * h /\ PowerOfTwo(h)
  BY <1>3, <1>5, HalfIsPower
<1>7. PICK k \in Nat \ {0} : m = 2 * k /\ PowerOfTwo(k)
  BY <1>4, HalfIsPower
<1>8. k % h # 0
  <2>1. SUFFICES ASSUME k % h = 0  PROVE FALSE
    OBVIOUS
  <2> DEFINE q == k \div h
  <2>2. k = h * q /\ q \in Nat
    BY <2>1, Quotient
  <2> HIDE DEF q
  <2>3. m = p * q
    BY <1>6, <1>7, <2>2
  <2>. QED BY <1>4, <2>2, <2>3, MultipleRemainder
<1>9. h \in Bad
  BY <1>4, <1>6, <1>7, <1>8
<1>. QED BY <1>3, <1>6, <1>9

LEMMA PowerLaw ==
  ASSUME NEW p \in Powers
  PROVE  p \in Nat /\ 0 < p /\ p < Modulus /\ Modulus \in Nat /\ Modulus % p = 0
<1>1. p \in Nat \ {0} /\ p < Modulus /\ Modulus \in Nat \ {0} /\ PowerOfTwo(p) /\ PowerOfTwo(Modulus)
  BY RingAssumption DEF RingAssumption, Powers
<1>. QED BY <1>1, SmallerDivides

LEMMA RoundedIsPower ==
  ASSUME NEW c \in Requested
  PROVE  Rounded(c) \in Powers
<1> DEFINE Fitting == {p \in Powers : c <= p}
<1>1. Fitting # {} /\ Fitting \subseteq Nat
  BY RingAssumption, PowerLaw DEF RingAssumption
<1>2. PICK p \in Fitting : \A q \in Fitting : p <= q
  BY <1>1, LeastOf
<1>. QED BY <1>2 DEF Rounded

LEMMA CapFits ==
  ASSUME cap_ \in Powers
  PROVE  cap_ \in Nat /\ 0 < cap_ /\ Modulus \in Nat /\ cap_ < Modulus /\ Modulus % cap_ = 0
BY PowerLaw

\* The mask picks the slot of the unwrapped index, because the capacity divides the modulus.
LEMMA SlotOf ==
  ASSUME cap_ \in Powers, NEW p \in Nat
  PROVE  Slot(p) = p % cap_ /\ Slot(p) \in 0 .. cap_ - 1
<1> USE CapFits
<1> DEFINE m == Modulus \div cap_
           w == p \div Modulus
           s == (p % Modulus) \div cap_
<1>0. Modulus \in Nat /\ 0 < Modulus
  OBVIOUS
<1>1. Modulus = cap_ * m /\ m \in Nat
  <2>1. Modulus = cap_ * (Modulus \div cap_) + (Modulus % cap_) /\ Modulus \div cap_ \in Nat
    BY Quotient
  <2>. QED BY <2>1
<1>2. p = Modulus * w + (p % Modulus) /\ w \in Nat /\ p % Modulus \in Nat
  BY <1>0, Quotient
<1>3. p % Modulus = cap_ * s + Slot(p) /\ s \in Nat /\ Slot(p) \in 0 .. cap_ - 1
  BY <1>2, Quotient DEF Slot
<1> HIDE DEF m, w, s
<1>4. Modulus * w = cap_ * (m * w)
  BY <1>1, <1>2, TimesAssociative
<1>5. p = cap_ * (m * w + s) + Slot(p) /\ m * w + s \in Int
  BY <1>1, <1>2, <1>3, <1>4
<1>. QED BY <1>3, <1>5, Remainder

\* Indices less than the capacity apart have different slots.
LEMMA DistinctSlots ==
  ASSUME cap_ \in Powers, NEW p \in Nat, NEW q \in Nat, p < q, q - p < cap_
  PROVE  Slot(p) # Slot(q)
<1> USE CapFits
<1> DEFINE d == q \div cap_ - p \div cap_
<1>1. SUFFICES ASSUME q % cap_ = p % cap_ PROVE FALSE
  BY SlotOf
<1>2. q - p = cap_ * d /\ d \in Int
  BY <1>1, Quotient
<1> HIDE DEF d
<1>3. d >= 1
  BY <1>2
<1>. QED BY <1>2, <1>3

\* Subtraction of wrapped indices is exact, because no two are a modulus apart.
LEMMA WrappedDifference ==
  ASSUME NEW M \in Nat, NEW a \in Nat, NEW b \in Nat, 0 < M, a <= b, b - a < M
  PROVE  ((b % M) + M - (a % M)) % M = b - a
<1> DEFINE i == a \div M
           j == b \div M
           k == 1 - (j - i)
<1>1. a = M * i + (a % M) /\ i \in Nat /\ a % M \in 0 .. M - 1
  BY Quotient
<1>2. b = M * j + (b % M) /\ j \in Nat /\ b % M \in 0 .. M - 1
  BY Quotient
<1>3. (b % M) + M - (a % M) = M * k + (b - a) /\ k \in Int
  <2> HIDE DEF i, j
  <2>1. M * k = M - M * j + M * i
    BY <1>1, <1>2
  <2>. QED BY <1>1, <1>2, <2>1
<1>4. (b % M) + M - (a % M) \in Nat /\ b - a \in 0 .. M - 1
  BY <1>1, <1>2
<1> HIDE DEF k
<1>. QED BY <1>3, <1>4, Remainder

LEMMA DistanceExact ==
  ASSUME cap_ \in Powers, NEW a \in Nat, NEW b \in Nat, a <= b, b - a < Modulus
  PROVE  Distance(b, a) = b - a /\ (a % Modulus = b % Modulus <=> a = b)
<1>0. Modulus \in Nat /\ 0 < Modulus
  BY CapFits
<1>1. Distance(b, a) = b - a
  BY <1>0, WrappedDifference DEF Distance
<1>2. ASSUME a % Modulus = b % Modulus PROVE a = b
  <2>1. ((a % Modulus) + Modulus - (a % Modulus)) % Modulus = b - a
    BY <1>1, <1>2 DEF Distance
  <2>2. ((a % Modulus) + Modulus - (a % Modulus)) % Modulus = 0
    BY <1>0, WrappedDifference
  <2>. QED BY <2>1, <2>2
<1>. QED BY <1>1, <1>2

-----------------------------------------------------------------------------
LEMMA InitIInv == Init => IInv
<1> SUFFICES ASSUME Init PROVE IInv
  OBVIOUS
<1>1. cap_ \in Powers
  BY RoundedIsPower DEF Init
<1>2. MaxPushes \in Nat
  BY RingAssumption DEF RingAssumption
<1>3. TypeOK
  BY <1>1, <1>2, CapFits DEF Init, TypeOK
<1>4. ProducerInv /\ ConsumerInv /\ ObserverInv
  BY <1>1, CapFits DEF Init, ProducerInv, ConsumerInv, ObserverInv
<1>5. SlotsInv
  BY DEF Init, SlotsInv, Inside, First
<1>. QED BY <1>3, <1>4, <1>5 DEF IInv

\* What the other lemmas need of the bounds: everything inside fits into the buffer.
LEMMA InsideFits ==
  ASSUME IInv
  PROVE  /\ cap_ \in Nat /\ 0 < cap_ /\ Modulus \in Nat /\ cap_ < Modulus /\ MaxPushes \in Nat
         /\ pushed \in Nat /\ popped \in Nat /\ First \in Nat
         /\ popped <= pushed /\ pushed - popped <= cap_ /\ First <= pushed
         /\ producer = "store" => pushed - popped < cap_
BY RingAssumption, CapFits DEF RingAssumption, IInv, TypeOK, ProducerInv, ConsumerInv, First

LEMMA SameSlots ==
  ASSUME IInv, UNCHANGED <<cap_, buf_, popped, pushed>>,
         consumer' = "store" <=> consumer = "store", producer' = "store" <=> producer = "store"
  PROVE  SlotsInv'
BY DEF IInv, SlotsInv, Inside, First, Slot

LEMMA PushLoadsStep == ASSUME IInv, PushLoads PROVE IInv'
<1> USE InsideFits
<1>1. PICK h \in headSeen .. popped :
        /\ headSeen' = h
        /\ popsVisible' = Greatest(popsVisible, Released(h))
        /\ producer' = IF Distance(pushed, h) >= cap_ THEN "idle" ELSE "write"
  BY DEF PushLoads
<1>2. h \in Nat /\ h <= pushed /\ pushed - h <= cap_ /\ headSeen <= h /\ h <= popped
  BY DEF IInv, TypeOK, ProducerInv
<1>3. Distance(pushed, h) = pushed - h
  BY <1>2, DistanceExact DEF IInv, TypeOK
<1>4. popsVisible' = h
  BY <1>1, <1>2 DEF IInv, TypeOK, ProducerInv, Greatest, Released
<1>5. TypeOK'
  BY <1>1, <1>2, <1>4 DEF IInv, TypeOK, PushLoads, consumerVars, observerVars
<1>6. ProducerInv'
  BY <1>1, <1>2, <1>3, <1>4 DEF ProducerInv, PushLoads
<1>7. ConsumerInv' /\ ObserverInv'
  BY DEF PushLoads, IInv, ConsumerInv, ObserverInv, consumerVars, observerVars
<1>8. SlotsInv'
  BY <1>1, SameSlots DEF PushLoads, consumerVars
<1>. QED BY <1>5, <1>6, <1>7, <1>8 DEF IInv

LEMMA PushWritesStep == ASSUME IInv, PushWrites PROVE IInv'
<1> USE InsideFits DEF PushWrites, consumerVars, observerVars
<1>1. Slot(pushed) \in 0 .. cap_ - 1 /\ cap_ \in Powers
  BY SlotOf DEF IInv, TypeOK
<1>2. TypeOK' /\ ProducerInv' /\ ConsumerInv' /\ ObserverInv'
  BY <1>1 DEF IInv, TypeOK, ProducerInv, ConsumerInv, ObserverInv
<1>3. ASSUME NEW i \in Inside' PROVE buf_'[Slot(i)'] = i + 1
  <2>1. i \in First .. pushed /\ i \in Nat /\ popped <= i /\ Slot(i)' = Slot(i)
    BY DEF Inside, First, Slot
  <2>2. CASE i = pushed
    BY <1>1, <2>1, <2>2 DEF IInv, TypeOK
  <2>3. CASE i # pushed
    <3>1. i < pushed /\ pushed - i < cap_ /\ i \in Inside
      BY <2>1, <2>3 DEF IInv, ProducerInv, TypeOK, Inside
    <3>2. Slot(i) # Slot(pushed) /\ Slot(i) \in 0 .. cap_ - 1
      BY <1>1, <2>1, <3>1, DistinctSlots, SlotOf
    <3>. QED BY <1>1, <2>1, <3>1, <3>2 DEF IInv, TypeOK, SlotsInv
  <2>. QED BY <2>2, <2>3
<1>. QED BY <1>2, <1>3 DEF IInv, SlotsInv

LEMMA PushStoresStep == ASSUME IInv, PushStores PROVE IInv'
<1> USE InsideFits DEF PushStores, consumerVars, observerVars
<1>1. TypeOK' /\ ProducerInv' /\ ConsumerInv' /\ ObserverInv'
  BY DEF IInv, TypeOK, ProducerInv, ConsumerInv, ObserverInv
<1>2. Inside' = Inside /\ \A i : Slot(i)' = Slot(i)
  BY DEF Inside, First, Slot
<1>3. SlotsInv'
  BY <1>2 DEF IInv, SlotsInv
<1>. QED BY <1>1, <1>3 DEF IInv

LEMMA PopLoadsStep == ASSUME IInv, PopLoads PROVE IInv'
<1> USE InsideFits
<1>1. PICK t \in tailSeen .. pushed :
        /\ tailSeen' = t
        /\ pushesVisible' = Greatest(pushesVisible, Released(t))
        /\ consumer' = IF t % Modulus = popped % Modulus THEN "idle" ELSE "read"
  BY DEF PopLoads
<1>2. t \in Nat /\ popped <= t /\ t <= pushed /\ tailSeen <= t /\ t - popped < Modulus
  BY SMTT(30), <1>1 DEF IInv, TypeOK, ConsumerInv
<1>3. t % Modulus = popped % Modulus <=> t = popped
  BY <1>2, DistanceExact DEF IInv, TypeOK
<1>4. pushesVisible' = t
  BY <1>1, <1>2 DEF IInv, TypeOK, ConsumerInv, Greatest, Released
<1>5. TypeOK' /\ ProducerInv'
  BY <1>1, <1>2, <1>4 DEF IInv, TypeOK, ProducerInv, PopLoads, producerVars, observerVars
<1>6. ConsumerInv'
  BY <1>1, <1>2, <1>3, <1>4 DEF IInv, ConsumerInv, PopLoads
<1>7. ObserverInv'
  BY SMTT(30), <1>1, <1>2 DEF PopLoads, IInv, TypeOK, ConsumerInv, ObserverInv, producerVars, observerVars
<1>8. SlotsInv'
  BY <1>1, SameSlots DEF PopLoads, producerVars
<1>. QED BY <1>5, <1>6, <1>7, <1>8 DEF IInv

LEMMA PopReadsStep == ASSUME IInv, PopReads PROVE IInv' /\ item' = popped + 1
<1> USE InsideFits DEF PopReads, producerVars, observerVars
<1>1. Slot(popped) \in 0 .. cap_ - 1 /\ cap_ \in Powers
  BY SlotOf DEF IInv, TypeOK
<1>2. popped < pushed /\ popped \in Inside
  BY DEF IInv, TypeOK, ConsumerInv, Inside, First
<1>3. item' = popped + 1
  BY <1>2 DEF IInv, SlotsInv
<1>4. TypeOK' /\ ProducerInv' /\ ConsumerInv' /\ ObserverInv'
  BY <1>1, <1>3 DEF IInv, TypeOK, ProducerInv, ConsumerInv, ObserverInv
<1>5. ASSUME NEW i \in Inside' PROVE buf_'[Slot(i)'] = i + 1
  <2>1. i \in Inside /\ popped < i /\ i \in Nat /\ Slot(i)' = Slot(i) /\ i - popped < cap_
    BY DEF Inside, First, Slot
  <2>2. Slot(i) # Slot(popped) /\ Slot(i) \in 0 .. cap_ - 1
    BY <1>1, <2>1, DistinctSlots, SlotOf
  <2>. QED BY <1>1, <2>1, <2>2 DEF IInv, TypeOK, SlotsInv
<1>. QED BY <1>3, <1>4, <1>5 DEF IInv, SlotsInv

LEMMA PopStoresStep == ASSUME IInv, PopStores PROVE IInv'
<1> USE InsideFits DEF PopStores, producerVars, observerVars
<1>1. knew' \in Seq(Nat) /\ Len(knew') = popped + 1
  BY AppendProperties DEF IInv, TypeOK, ObserverInv
<1>2. \A k \in 1 .. popped + 1 : knew'[k] = IF k = popped + 1 THEN tailSeen ELSE knew[k]
  BY AppendProperties DEF IInv, TypeOK, ObserverInv
<1>3. TypeOK' /\ ProducerInv' /\ ConsumerInv'
  BY <1>1 DEF IInv, TypeOK, ProducerInv, ConsumerInv
<1>4. ObserverInv'
  BY SMTT(30), <1>1, <1>2 DEF IInv, TypeOK, ConsumerInv, ObserverInv
<1>5. Inside' = Inside /\ \A i : Slot(i)' = Slot(i)
  BY DEF Inside, First, Slot
<1>6. SlotsInv'
  BY <1>5 DEF IInv, SlotsInv
<1>. QED BY <1>3, <1>4, <1>6 DEF IInv

LEMMA ObserveStep == ASSUME IInv, Observe PROVE IInv'
<1> USE InsideFits
<1>1. SlotsInv'
  BY SameSlots DEF Observe, SizeLoadsHead, SizeLoadsTail, producerVars, consumerVars
<1>2. CASE SizeLoadsHead
  <2>1. PICK h \in 0 .. popped : obsHead' = h /\ obsTail' = IF Released(h) = 0 THEN 0 ELSE knew[Released(h)]
    BY <1>2 DEF SizeLoadsHead
  <2>2. obsTail' \in Nat /\ h <= obsTail' /\ obsTail' <= pushed
    BY <2>1 DEF Released, IInv, TypeOK, ObserverInv, ConsumerInv
  <2>. QED BY <1>1, <1>2, <2>1, <2>2
           DEF SizeLoadsHead, IInv, TypeOK, ProducerInv, ConsumerInv, ObserverInv, producerVars, consumerVars
<1>3. CASE SizeLoadsTail
  BY <1>1, <1>3 DEF SizeLoadsTail, IInv, TypeOK, ProducerInv, ConsumerInv, ObserverInv, producerVars, consumerVars
<1>. QED BY <1>2, <1>3 DEF Observe

LEMMA NextIInv == IInv /\ [Next]_vars => IInv'
<1>1. ASSUME IInv, UNCHANGED vars PROVE IInv'
  <2>1. SlotsInv'
    BY <1>1, SameSlots DEF vars, producerVars, consumerVars
  <2>. QED BY <1>1, <2>1
           DEF vars, producerVars, consumerVars, observerVars, IInv, TypeOK, ProducerInv, ConsumerInv, ObserverInv
<1>. QED BY <1>1, PushLoadsStep, PushWritesStep, PushStoresStep, PopLoadsStep, PopReadsStep, PopStoresStep,
            ObserveStep DEF Next, Produce, Consume

\* What the threads and size() know of the indices, and what the slots hold, in every state.
THEOREM Inductive == Spec => []IInv
BY InitIInv, NextIInv, PTL DEF Spec

-----------------------------------------------------------------------------
\* Whatever old index it reads, the producer writes a slot only after the read of the element
\* before happened, and the consumer reads one only after it was written.
THEOREM NoRace == Spec => []NoDataRace
<1>1. IInv => NoDataRace
  BY CapFits DEF IInv, TypeOK, ProducerInv, ConsumerInv, NoDataRace
<1>. QED BY <1>1, Inductive, PTL

\* size() never exceeds the capacity, and never wraps below zero on a third thread.
THEOREM SizeTheorem == Spec => []SizeSane
<1>1. IInv => SizeSane
  BY DEF IInv, ProducerInv, ObserverInv, SizeSane
<1>. QED BY <1>1, Inductive, PTL

-----------------------------------------------------------------------------
\* The refinement: between the indices stand the elements that were pushed and not yet popped.
QueuedInOrder == Queued = [i \in 1 .. pushed - First |-> First + i]

LEMMA QueuedElements == IInv => QueuedInOrder
<1> SUFFICES ASSUME IInv PROVE QueuedInOrder
  OBVIOUS
<1> USE InsideFits
<1>1. ASSUME NEW i \in 1 .. pushed - First PROVE buf_[Slot(First + i - 1)] = First + i
  <2>1. First + i - 1 \in Inside /\ First + i - 1 \in Nat
    BY DEF Inside
  <2>. QED BY <2>1 DEF IInv, SlotsInv
<1>. QED BY <1>1 DEF Queued, QueuedInOrder

LEMMA QueuedElementsNext == IInv' => QueuedInOrder'
BY QueuedElements, PTL

\* What append, Head and Tail do to the run of numbers a + 1 .. b.
LEMMA RunOfNumbers ==
  ASSUME NEW a \in Nat, NEW b \in Nat, a <= b, NEW s, s = [i \in 1 .. b - a |-> a + i]
  PROVE  /\ s \in Seq(Nat) /\ Len(s) = b - a
         /\ [i \in 1 .. (b + 1) - a |-> a + i] = Append(s, b + 1)
         /\ a < b => /\ s # <<>> /\ Head(s) = a + 1
                     /\ [i \in 1 .. b - (a + 1) |-> (a + 1) + i] = Tail(s)
<1>1. s \in [1 .. b - a -> Nat] /\ b - a \in Nat
  OBVIOUS
<1>2. s \in Seq(Nat) /\ Len(s) = b - a
  BY <1>1
<1>3. [i \in 1 .. (b + 1) - a |-> a + i] = Append(s, b + 1)
  <2> DEFINE u == [i \in 1 .. (b + 1) - a |-> a + i]
  <2>1. u \in [1 .. (b + 1) - a -> Nat] /\ (b + 1) - a \in Nat
    OBVIOUS
  <2>2. u \in Seq(Nat) /\ Len(u) = (b + 1) - a
    BY <2>1
  <2>3. Append(s, b + 1) \in Seq(Nat) /\ Len(Append(s, b + 1)) = (b + 1) - a
    BY <1>2, AppendProperties
  <2>4. \A i \in 1 .. (b + 1) - a : u[i] = Append(s, b + 1)[i]
    BY <1>2, AppendProperties
  <2> HIDE DEF u
  <2>5. u = Append(s, b + 1)
    BY <2>2, <2>3, <2>4, SeqEqual
  <2>. QED BY <2>5 DEF u
<1>4. ASSUME a < b
      PROVE  s # <<>> /\ Head(s) = a + 1 /\ [i \in 1 .. b - (a + 1) |-> (a + 1) + i] = Tail(s)
  <2> DEFINE u == [i \in 1 .. b - (a + 1) |-> (a + 1) + i]
  <2>1. u \in [1 .. b - (a + 1) -> Nat] /\ b - (a + 1) \in Nat
    BY <1>4
  <2>2. u \in Seq(Nat) /\ Len(u) = b - (a + 1)
    BY <2>1
  <2>3. s # <<>> /\ Len(s) >= 1
    BY <1>2, <1>4
  <2>4. Head(s) = a + 1
    BY <1>2, <2>3
  <2>5. Tail(s) \in Seq(Nat) /\ Len(Tail(s)) = b - (a + 1)
    <3>1. Len(s) - 1 = b - (a + 1)
      BY <1>2
    <3>2. Tail(s) \in Seq(Nat) /\ Len(Tail(s)) = Len(s) - 1
      BY <1>2, <2>3, HeadTailProperties
    <3>. QED BY <3>1, <3>2
  <2>6. \A i \in 1 .. b - (a + 1) : Tail(s)[i] = s[i + 1]
    BY <1>2, <2>3, <2>5, HeadTailProperties
  <2>7. \A i \in 1 .. b - (a + 1) : u[i] = Tail(s)[i]
    BY <2>6
  <2> HIDE DEF u
  <2>8. u = Tail(s)
    BY <2>2, <2>5, <2>7, SeqEqual
  <2>. QED BY <2>3, <2>4, <2>8 DEF u
<1>. QED BY <1>2, <1>3, <1>4

LEMMA StepImplements ==
  ASSUME IInv, [Next]_vars PROVE [Queue!Next]_(Queue!vars)
<1> USE InsideFits DEF Queue!vars
<1>0. IInv'
  BY NextIInv
<1>1. cap_' = cap_
  BY DEF Next, Produce, Consume, Observe, PushLoads, PushWrites, PushStores, PopLoads, PopReads, PopStores,
         SizeLoadsHead, SizeLoadsTail, vars
<1>2. /\ Queued = [i \in 1 .. pushed - First |-> First + i]
      /\ Queued' = [i \in 1 .. pushed' - First' |-> First' + i]
  BY <1>0, QueuedElements, QueuedElementsNext DEF QueuedInOrder
<1>3. CASE PushStores
  <2>1. pushed' = pushed + 1 /\ First' = First /\ item' = item
    BY <1>3 DEF PushStores, consumerVars, First
  <2>2. Queued' = Append(Queued, pushed + 1) /\ Len(Queued) = pushed - First
    BY SMTT(30), <1>2, <2>1, RunOfNumbers
  <2>3. pushed < MaxPushes /\ pushed - First + (IF item = 0 THEN 0 ELSE 1) < cap_
    BY <1>3 DEF PushStores, IInv, TypeOK, ProducerInv, ConsumerInv, First
  <2>. QED BY <1>1, <2>1, <2>2, <2>3 DEF Queue!Next, Queue!Push
<1>4. CASE PopReads
  <2>1. pushed' = pushed /\ First' = First + 1 /\ item' = popped + 1 /\ item = 0 /\ First = popped /\ First < pushed
    BY <1>4, PopReadsStep DEF PopReads, producerVars, IInv, TypeOK, ConsumerInv, First
  <2>2. Queued' = [i \in 1 .. pushed - (First + 1) |-> (First + 1) + i]
    BY <1>2, <2>1
  <2>3. Queued # <<>> /\ Head(Queued) = First + 1 /\ Queued' = Tail(Queued)
    <3>1. First \in Nat /\ pushed \in Nat /\ First < pushed /\ First <= pushed
      BY <2>1
    <3>2. Queued = [i \in 1 .. pushed - First |-> First + i]
      BY <1>2
    <3>. QED BY ONLY <2>2, <3>1, <3>2, RunOfNumbers
  <2>. QED BY <1>1, <2>1, <2>3 DEF Queue!Next, Queue!Take
<1>5. CASE PopStores
  <2>1. pushed' = pushed /\ First' = First /\ item' = 0 /\ item # 0
    BY <1>5 DEF PopStores, producerVars, IInv, TypeOK, ConsumerInv, First
  <2>. QED BY <1>1, <1>2, <2>1 DEF Queue!Next, Queue!Return
<1>6. CASE PushLoads \/ PushWrites \/ PopLoads \/ Observe \/ UNCHANGED vars
  <2>1. pushed' = pushed /\ First' = First /\ item' = item
    BY <1>6 DEF PushLoads, PushWrites, PopLoads, Observe, SizeLoadsHead, SizeLoadsTail, vars, producerVars, consumerVars, First
  <2>. QED BY <1>1, <1>2, <2>1
<1>. QED BY <1>3, <1>4, <1>5, <1>6 DEF Next, Produce, Consume

\* The buffer implements the bounded queue of BoundedFifo, its progress left aside: each element
\* comes out once, in the order it went in, and no more than the capacity are inside.
THEOREM ImplementsQueue == Spec => Queue!Init /\ [][Queue!Next]_(Queue!vars)
<1>1. Init => Queue!Init
  <2> SUFFICES ASSUME Init PROVE Queue!Init
    OBVIOUS
  <2>1. Queued = <<>>
    BY DEF Init, Queued, First
  <2>. QED BY <2>1 DEF Init, Queue!Init
<1>. QED BY InitIInv, NextIInv, StepImplements, <1>1, PTL DEF Spec
=============================================================================
