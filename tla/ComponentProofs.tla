---------------------------- MODULE ComponentProofs ----------------------------
(***************************************************************************)
(* The properties of Components, for every value of their constants: the   *)
(* parallel calls that hold one future per chunk, the scope guards, the    *)
(* type registry, the owning types, the arena and the reductions on a      *)
(* device.                                                                 *)
(***************************************************************************)
EXTENDS Components, FiniteSetTheorems, SequenceTheorems, WellFoundedInduction, TLAPS

-----------------------------------------------------------------------------
\* CancellablePar.

ChunkedType ==
  /\ kind \in Kinds /\ n \in Ns /\ pool \in Pools /\ stop \in BOOLEAN
  /\ submitted \in 0 .. Chunked!Count /\ got \in 0 .. Chunked!Count
  /\ at \in [Chunked!All -> Nat]
  /\ status \in [Chunked!All -> {"none", "queued", "running", "done", "thrown"}]
  /\ caller \in {"begins", "submits", "waits", "unwinds", "ok", "cancelled", "thrown", "crashed"}
  /\ ~Chunked!Token => ~stop

\* Each chunk works through its own elements, and they are what is done.
ProgressInv ==
  /\ \A c \in Chunked!All : /\ Chunked!First(c) <= at[c] /\ at[c] <= Chunked!Past(c)
                            /\ status[c] = "done" => at[c] = Chunked!Past(c) \/ stop
  /\ \A i : i \in done <=> \E c \in Chunked!All : i \in Nat /\ Chunked!First(c) <= i /\ i < at[c]

\* A chunk is at work once it was submitted; the caller waits for all of them, and goes through in order.  It does
\* so only if there are chunks for all elements, and a call that does not divide by zero does not crash.
CallerInv ==
  /\ caller \in {"submits", "waits", "ok", "cancelled"} => ~Chunked!NoThreads
  /\ caller = "crashed" => Chunked!ZeroDivisor
  /\ \A c \in Chunked!All : status[c] = "none" <=> submitted < c
  /\ caller \in {"waits", "ok", "cancelled"} => submitted = Chunked!Count
  /\ \A c \in 1 .. got : status[c] = "done"
  /\ caller \in {"ok", "cancelled"} => got = Chunked!Count
  /\ caller = "ok" => \A c \in Chunked!All : at[c] = Chunked!Past(c)
  /\ caller = "thrown" /\ kind = "async" => \A c \in Chunked!All : Chunked!Ended(c)

ChunkedInv == ChunkedType /\ ProgressInv /\ CallerInv

LEMMA DivisionBounds ==
  ASSUME NEW a \in Nat, NEW c \in Nat, 0 < c
  PROVE  a \div c \in Nat /\ c * (a \div c) <= a /\ a < c * (a \div c) + c
OBVIOUS

LEMMA CeilDivBounds ==
  ASSUME NEW m \in Nat, NEW parts \in Nat, 0 < m, 0 < parts
  PROVE  /\ Chunked!Cut!CeilDiv(m, parts) \in Nat /\ 0 < Chunked!Cut!CeilDiv(m, parts)
         /\ m <= parts * Chunked!Cut!CeilDiv(m, parts)
         /\ parts * Chunked!Cut!CeilDiv(m, parts) < m + parts
<1> DEFINE a == m + parts - 1
           q == Chunked!Cut!CeilDiv(m, parts)
<1>1. a \in Nat /\ q = a \div parts
  BY DEF Chunked!Cut!CeilDiv
<1>2. q \in Nat /\ parts * q <= a /\ a < parts * q + parts
  BY <1>1, DivisionBounds
<1> HIDE DEF q
<1>3. m <= parts * q
  BY <1>2
<1>4. q # 0
  BY <1>3
<1>. QED BY <1>2, <1>3, <1>4 DEF q

LEMMA MultiplesApart ==
  ASSUME NEW b \in Nat, NEW c \in Nat, NEW d \in Nat, c < d
  PROVE  c * b + b <= d * b
<1>1. d = c + 1 + (d - (c + 1)) /\ d - (c + 1) \in Nat
  OBVIOUS
<1>2. ASSUME NEW e \in Nat PROVE (c + 1 + e) * b = c * b + b + e * b /\ e * b >= 0
  OBVIOUS
<1>. QED BY <1>1, <1>2

\* The chunks of an input are not empty and follow one another, and cover it unless there are no threads for it.
LEMMA ChunksOfCall ==
  ASSUME kind \in Kinds, n \in Ns, pool \in Pools
  PROVE  /\ n \in Nat /\ Chunked!Count \in Nat
         /\ \A c \in Chunked!All : /\ Chunked!First(c) \in Nat /\ Chunked!Past(c) \in Nat
                                   /\ Chunked!First(c) < Chunked!Past(c) /\ Chunked!Past(c) <= n
         /\ \A c, d \in Chunked!All : c < d => Chunked!Past(c) <= Chunked!First(d)
         /\ Chunked!NoThreads \/ \A i \in 0 .. n - 1 : \E c \in Chunked!All : Chunked!First(c) <= i /\ i < Chunked!Past(c)
<1> DEFINE t == Chunked!threads
           b == Chunked!chunk
           k == Chunked!Count
<1>1. n \in Nat /\ pool \in Nat
  BY ComponentsAssumption DEF ComponentsAssumption
<1>2. t \in Nat /\ (t = 0 => n = 0 \/ Chunked!NoThreads)
  BY <1>1 DEF Chunked!threads, Chunked!Cut!Least, Chunked!AtLeastOne, Chunked!NoThreads, Chunked!Immediate
<1>3. CASE n = 0 \/ t = 0
  BY <1>1, <1>2, <1>3 DEF Chunked!Count, Chunked!All
<1>4. CASE 0 < n /\ 0 < t
  <2>1. t \in Nat /\ 0 < t
    BY <1>2, <1>4
  <2> HIDE DEF t
  <2>2. b \in Nat /\ 0 < b
    BY <1>1, <1>4, <2>1, CeilDivBounds DEF Chunked!chunk, t
  <2> HIDE DEF b
  <2>3. k = Chunked!Cut!CeilDiv(n, b)
    BY <1>4, <2>1 DEF Chunked!Count, b, t
  <2>4. k \in Nat /\ n <= b * k /\ b * k < n + b
    BY <1>1, <1>4, <2>2, <2>3, CeilDivBounds
  <2> HIDE DEF k
  <2>5. Chunked!All = 1 .. k
    BY DEF Chunked!All, k
  <2>6. ASSUME NEW c \in 1 .. k
        PROVE  /\ c \in Nat /\ c - 1 \in Nat /\ Chunked!First(c) = (c - 1) * b /\ (c - 1) * b \in Nat
               /\ c * b \in Nat /\ c * b = (c - 1) * b + b
               /\ Chunked!Past(c) = IF n <= c * b THEN n ELSE c * b
    BY <2>2, <2>4, <2>5, MultiplesApart DEF Chunked!First, Chunked!Past, Chunked!Cut!Least, b
  <2>7. ASSUME NEW c \in 1 .. k PROVE (c - 1) * b < n
    <3>1. (c - 1) * b + b <= k * b
      BY <2>2, <2>4, <2>6, MultiplesApart, c - 1 < k
    <3>. QED BY <1>1, <2>2, <2>4, <2>6, <3>1
  <2>8. \A c \in 1 .. k : /\ Chunked!First(c) \in Nat /\ Chunked!Past(c) \in Nat
                          /\ Chunked!First(c) < Chunked!Past(c) /\ Chunked!Past(c) <= n
    BY <1>1, <2>2, <2>6, <2>7
  <2>9. ASSUME NEW c \in 1 .. k, NEW d \in 1 .. k, c < d PROVE Chunked!Past(c) <= Chunked!First(d)
    <3>1. c * b <= (d - 1) * b
      <4>1. CASE c = d - 1
        BY <4>1, <2>6
      <4>2. CASE c < d - 1
        BY <4>2, <2>2, <2>6, MultiplesApart
      <4>. QED BY <2>9, <4>1, <4>2
    <3>. QED BY <1>1, <2>6, <2>9, <3>1
  <2>10. ASSUME NEW i \in 0 .. n - 1 PROVE \E c \in 1 .. k : Chunked!First(c) <= i /\ i < Chunked!Past(c)
    <3> DEFINE q == i \div b
    <3>1. i \in Nat /\ q \in Nat /\ b * q <= i /\ i < b * q + b
      BY <2>2, <2>10, DivisionBounds
    <3> HIDE DEF q
    <3>2. q < k
      <4>1. ASSUME k <= q PROVE k * b <= q * b
        BY <2>2, <2>4, <3>1, <4>1, MultiplesApart
      <4>. QED BY <1>1, <2>2, <2>4, <2>10, <3>1, <4>1
    <3>3. q + 1 \in 1 .. k /\ Chunked!First(q + 1) <= i /\ i < Chunked!Past(q + 1)
      BY <1>1, <2>2, <2>4, <2>6, <2>10, <3>1, <3>2
    <3>. QED BY <3>3
  <2>. QED BY <1>1, <2>4, <2>5, <2>8, <2>9, <2>10 DEF k
<1>. QED BY <1>1, <1>2, <1>3, <1>4

LEMMA ChunkedInit == Chunked!Init => ChunkedInv
<1> SUFFICES ASSUME Chunked!Init PROVE ChunkedInv
  OBVIOUS
<1> USE DEF Chunked!Init
<1>1. ChunkedType
  <2>1. /\ Chunked!Count \in Nat
        /\ \A c \in Chunked!All : Chunked!First(c) \in Nat
    BY ChunksOfCall
  <2>2. at \in [Chunked!All -> Nat]
    BY <2>1
  <2>3. submitted \in 0 .. Chunked!Count /\ got \in 0 .. Chunked!Count
    BY <2>1
  <2>4. ~stop /\ stop \in BOOLEAN /\ caller = "begins" /\ kind \in Kinds /\ n \in Ns /\ pool \in Pools
        /\ status \in [Chunked!All -> {"none", "queued", "running", "done", "thrown"}]
    OBVIOUS
  <2>. QED BY <2>2, <2>3, <2>4 DEF ChunkedType
<1>2. ProgressInv
  BY ChunksOfCall DEF ProgressInv
<1>3. CallerInv
  BY ChunksOfCall DEF CallerInv, Chunked!All
<1>. QED BY <1>1, <1>2, <1>3 DEF ChunkedInv

\* What the chunks are does not change during a call.
LEMMA SameChunks ==
  ASSUME UNCHANGED <<kind, n, pool>>
  PROVE  /\ Chunked!Count' = Chunked!Count /\ Chunked!All' = Chunked!All /\ Chunked!Token' = Chunked!Token
         /\ Chunked!NoThreads' = Chunked!NoThreads /\ Chunked!ZeroDivisor' = Chunked!ZeroDivisor
         /\ \A c : Chunked!First(c)' = Chunked!First(c) /\ Chunked!Past(c)' = Chunked!Past(c)
BY DEF Chunked!Count, Chunked!All, Chunked!Token, Chunked!First, Chunked!Past, Chunked!chunk, Chunked!threads,
       Chunked!NoThreads, Chunked!Immediate, Chunked!ZeroDivisor

LEMMA ChunkedStep == ChunkedInv /\ [Chunked!Next]_(Chunked!vars) => ChunkedInv'
<1> SUFFICES ASSUME ChunkedInv, [Chunked!Next]_(Chunked!vars) PROVE ChunkedInv'
  OBVIOUS
<1>0. ChunkedType /\ ProgressInv /\ CallerInv
  BY DEF ChunkedInv
<1>1. UNCHANGED <<kind, n, pool>>
  BY DEF Chunked!Next, Chunked!vars, Chunked!Begin, Chunked!RequestStop, Chunked!Submit, Chunked!Submitted, Chunked!Get,
         Chunked!Answer, Chunked!Unwind, Chunked!Start, Chunked!Step, Chunked!Finish
<1> DEFINE All == Chunked!All
           Count == Chunked!Count
           First(c) == Chunked!First(c)
           Past(c) == Chunked!Past(c)
<1>2. /\ Chunked!Count' = Count /\ Chunked!All' = All /\ Chunked!Token' = Chunked!Token
      /\ Chunked!NoThreads' = Chunked!NoThreads /\ Chunked!ZeroDivisor' = Chunked!ZeroDivisor
      /\ \A c : Chunked!First(c)' = First(c) /\ Chunked!Past(c)' = Past(c)
  BY <1>1, SameChunks
<1>3. /\ Count \in Nat /\ All = 1 .. Count /\ n \in Nat
      /\ \A c \in All : /\ First(c) \in Nat /\ Past(c) \in Nat
                        /\ First(c) < Past(c) /\ Past(c) <= n
      /\ \A c, d \in All : c < d => Past(c) <= First(d)
  BY <1>0, ChunksOfCall DEF ChunkedType, Chunked!All
<1> HIDE DEF All, Count, First, Past
<1>4. /\ kind \in Kinds /\ n \in Ns /\ pool \in Pools /\ stop \in BOOLEAN
      /\ submitted \in 0 .. Count /\ got \in 0 .. Count
      /\ at \in [All -> Nat]
      /\ status \in [All -> {"none", "queued", "running", "done", "thrown"}]
      /\ caller \in {"begins", "submits", "waits", "unwinds", "ok", "cancelled", "thrown", "crashed"}
      /\ ~Chunked!Token => ~stop
  BY <1>0 DEF ChunkedType, All, Count
<1>5. /\ \A c \in All : /\ First(c) <= at[c] /\ at[c] <= Past(c)
                        /\ status[c] = "done" => at[c] = Past(c) \/ stop
      /\ \A i : i \in done <=> \E c \in All : i \in Nat /\ First(c) <= i /\ i < at[c]
  BY <1>0 DEF ProgressInv, All, First, Past
<1>6. /\ caller \in {"submits", "waits", "ok", "cancelled"} => ~Chunked!NoThreads
      /\ caller = "crashed" => Chunked!ZeroDivisor
      /\ \A c \in All : status[c] = "none" <=> submitted < c
      /\ caller \in {"waits", "ok", "cancelled"} => submitted = Count
      /\ \A c \in 1 .. got : status[c] = "done"
      /\ caller \in {"ok", "cancelled"} => got = Count
      /\ caller = "ok" => \A c \in All : at[c] = Past(c)
      /\ caller = "thrown" /\ kind = "async" => \A c \in All : status[c] \in {"none", "done", "thrown"}
  BY <1>0 DEF CallerInv, Chunked!Ended, All, Count, Past
<1> DEFINE TypeNext == /\ stop' \in BOOLEAN
                       /\ submitted' \in 0 .. Count /\ got' \in 0 .. Count
                       /\ at' \in [All -> Nat]
                       /\ status' \in [All -> {"none", "queued", "running", "done", "thrown"}]
                       /\ caller' \in {"begins", "submits", "waits", "unwinds", "ok", "cancelled", "thrown", "crashed"}
                       /\ ~Chunked!Token => ~stop'
           ProgressNext == /\ \A c \in All : /\ First(c) <= at'[c] /\ at'[c] <= Past(c)
                                             /\ status'[c] = "done" => at'[c] = Past(c) \/ stop'
                           /\ \A i : i \in done' <=> \E c \in All : i \in Nat /\ First(c) <= i /\ i < at'[c]
           CallerNext == /\ caller' \in {"submits", "waits", "ok", "cancelled"} => ~Chunked!NoThreads
                         /\ caller' = "crashed" => Chunked!ZeroDivisor
                         /\ \A c \in All : status'[c] = "none" <=> submitted' < c
                         /\ caller' \in {"waits", "ok", "cancelled"} => submitted' = Count
                         /\ \A c \in 1 .. got' : status'[c] = "done"
                         /\ caller' \in {"ok", "cancelled"} => got' = Count
                         /\ caller' = "ok" => \A c \in All : at'[c] = Past(c)
                         /\ caller' = "thrown" /\ kind = "async" => \A c \in All : status'[c] \in {"none", "done", "thrown"}
           Good == TypeNext /\ ProgressNext /\ CallerNext
<1>7. ASSUME UNCHANGED Chunked!vars PROVE Good
  BY <1>4, <1>5, <1>6, <1>7 DEF Chunked!vars
<1>8. ASSUME Chunked!RequestStop PROVE Good
  BY <1>4, <1>5, <1>6, <1>8 DEF Chunked!RequestStop
<1>9. ASSUME Chunked!Submit PROVE Good
  <2>1. caller = "submits" /\ submitted < Count /\ UNCHANGED <<stop, at, done, got>>
    BY <1>9 DEF Chunked!Submit, Count
  <2>2. CASE caller' = "unwinds" /\ UNCHANGED <<submitted, status>>
    <3>1. TypeNext
      BY <1>4, <2>1, <2>2
    <3>2. ProgressNext
      BY <1>5, <2>1, <2>2
    <3>3. CallerNext
      BY <1>6, <2>1, <2>2
    <3>. QED BY <3>1, <3>2, <3>3
  <2>3. CASE /\ submitted' = submitted + 1 /\ status' = [status EXCEPT ![submitted + 1] = "queued"]
             /\ UNCHANGED caller
    <3>1. submitted \in Nat /\ submitted + 1 \in All /\ submitted + 1 \in 0 .. Count
      BY <1>3, <1>4, <2>1
    <3>2. \A c \in All : status'[c] = IF c = submitted + 1 THEN "queued" ELSE status[c]
      BY <1>4, <2>3
    <3>3. TypeNext
      <4>1. status' \in [All -> {"none", "queued", "running", "done", "thrown"}]
        BY <1>4, <2>3
      <4>. QED BY <1>4, <2>1, <2>3, <3>1, <4>1
    <3>4. ProgressNext
      BY <1>5, <2>1, <3>2
    <3>5. CallerNext
      <4>1. \A c \in All : status'[c] = "none" <=> submitted' < c
        BY <1>3, <1>6, <2>3, <3>1, <3>2
      <4>2. \A c \in 1 .. got : c \in All
        BY <1>3, <1>4
      <4>3. status[submitted + 1] = "none"
        BY <1>6, <3>1
      <4>4. \A c \in 1 .. got' : status'[c] = "done"
        BY <1>6, <2>1, <3>2, <4>2, <4>3
      <4>. QED BY <1>6, <2>1, <2>3, <4>1, <4>4
    <3>. QED BY <3>3, <3>4, <3>5
  <2>. QED BY <1>9, <2>2, <2>3 DEF Chunked!Submit
<1>10. ASSUME Chunked!Submitted PROVE Good
  BY <1>4, <1>5, <1>6, <1>10 DEF Chunked!Submitted, Count
<1>11. ASSUME NEW c \in All, Chunked!Start(c) PROVE Good
  <2>1. TypeNext
    BY <1>4, <1>11 DEF Chunked!Start
  <2>2. ProgressNext
    BY <1>4, <1>5, <1>11 DEF Chunked!Start
  <2>3. CallerNext
    BY <1>3, <1>4, <1>6, <1>11 DEF Chunked!Start
  <2>. QED BY <2>1, <2>2, <2>3
<1>12. ASSUME NEW c \in All, Chunked!Step(c) PROVE Good
  <2>1. at[c] \in Nat /\ at[c] < Past(c) /\ status[c] = "running"
    BY <1>4, <1>12 DEF Chunked!Step, Past
  <2>2. TypeNext
    BY <1>4, <1>12, <2>1 DEF Chunked!Step
  <2>3. ProgressNext
    <3>1. CASE UNCHANGED <<at, done>>
      BY <1>4, <1>5, <1>12, <3>1 DEF Chunked!Step
    <3>2. CASE at' = [at EXCEPT ![c] = @ + 1] /\ done' = done \cup {at[c]} /\ UNCHANGED status
      <4>1. \A d \in All : at'[d] = IF d = c THEN at[c] + 1 ELSE at[d]
        BY <1>4, <3>2
      <4>2. \A d \in All : /\ First(d) <= at'[d] /\ at'[d] <= Past(d)
                           /\ status'[d] = "done" => at'[d] = Past(d) \/ stop'
        <5>1. stop' = stop
          BY <1>12 DEF Chunked!Step
        <5>. QED BY SMTT(30), <1>3, <1>4, <1>5, <2>1, <3>2, <4>1, <5>1
      <4>3. ASSUME NEW i PROVE i \in done' <=> \E d \in All : i \in Nat /\ First(d) <= i /\ i < at'[d]
        <5>1. i \in done' <=> i \in done \/ i = at[c]
          BY <3>2
        <5>2. ASSUME i \in done PROVE \E d \in All : i \in Nat /\ First(d) <= i /\ i < at'[d]
          BY <1>4, <1>5, <4>1, <5>2
        <5>3. First(c) <= at[c] /\ at[c] < at'[c]
          BY <1>5, <2>1, <4>1
        <5>4. ASSUME NEW d \in All, i \in Nat, First(d) <= i, i < at'[d] PROVE i \in done \/ i = at[c]
          BY <1>4, <1>5, <2>1, <4>1, <5>4
        <5>. QED BY <2>1, <5>1, <5>2, <5>3, <5>4
      <4>. QED BY <4>2, <4>3
    <3>. QED BY <1>12, <3>1, <3>2 DEF Chunked!Step
  <2>4. CallerNext
    <3>1. caller # "ok"
      BY <1>3, <1>6, <2>1
    <3>2. ~(caller = "thrown" /\ kind = "async")
      BY <1>6, <2>1
    <3>3. UNCHANGED <<caller, got, submitted>>
      BY <1>12 DEF Chunked!Step
    <3>4. status' = status \/ status' = [status EXCEPT ![c] = "thrown"]
      BY <1>12 DEF Chunked!Step
    <3>5. \A d \in All : status'[d] = status[d] \/ (d = c /\ status'[d] = "thrown")
      BY <1>4, <3>4
    <3>6. \A d \in 1 .. got : d \in All /\ d # c
      BY SMTT(30), <1>3, <1>4, <1>6, <2>1
    <3>7. \A d \in All : status'[d] = "none" <=> submitted' < d
      BY <1>6, <2>1, <3>3, <3>5
    <3>8. \A d \in 1 .. got' : status'[d] = "done"
      BY <1>6, <3>3, <3>5, <3>6
    <3>. QED BY <1>6, <3>1, <3>2, <3>3, <3>7, <3>8
  <2>. QED BY <2>2, <2>3, <2>4
<1>13. ASSUME NEW c \in All, Chunked!Finish(c) PROVE Good
  <2>1. TypeNext
    BY <1>4, <1>13 DEF Chunked!Finish
  <2>2. ProgressNext
    BY <1>4, <1>5, <1>13 DEF Chunked!Finish, Past
  <2>3. CallerNext
    BY <1>3, <1>4, <1>6, <1>13 DEF Chunked!Finish
  <2>. QED BY <2>1, <2>2, <2>3
<1>14. ASSUME Chunked!Get PROVE Good
  <2>1. caller = "waits" /\ got < Count /\ UNCHANGED <<stop, submitted, at, status, done>>
    BY <1>14 DEF Chunked!Get, Count
  <2>2. \/ status[got + 1] = "done" /\ got' = got + 1 /\ UNCHANGED caller
        \/ caller' = "unwinds" /\ UNCHANGED got
    BY <1>14 DEF Chunked!Get
  <2>3. got' \in 0 .. Count /\ caller' \in {"waits", "unwinds"}
    BY <1>3, <1>4, <2>1, <2>2
  <2>4. TypeNext
    BY <1>4, <2>1, <2>3
  <2>5. ProgressNext
    BY <1>5, <2>1
  <2>6. \A c \in 1 .. got' : status'[c] = "done"
    BY <1>3, <1>4, <1>6, <2>1, <2>2
  <2>7. CallerNext
    BY <1>6, <2>1, <2>3, <2>6
  <2>. QED BY <2>4, <2>5, <2>7
<1>15. ASSUME Chunked!Answer PROVE Good
  <2>1. TypeNext
    BY <1>4, <1>15 DEF Chunked!Answer
  <2>2. ProgressNext
    BY <1>4, <1>5, <1>15 DEF Chunked!Answer
  <2>3. got = Count /\ submitted = Count /\ \A c \in All : status[c] = "done"
    BY <1>3, <1>6, <1>15 DEF Chunked!Answer, Count
  <2>4. caller' = "ok" => ~stop
    BY <1>4, <1>15 DEF Chunked!Answer
  <2>5. CallerNext
    BY <1>4, <1>5, <1>6, <1>15, <2>3, <2>4 DEF Chunked!Answer
  <2>. QED BY <2>1, <2>2, <2>5
<1>16. ASSUME Chunked!Unwind PROVE Good
  BY <1>4, <1>5, <1>6, <1>16 DEF Chunked!Unwind, Chunked!Ended, All
<1>17. ASSUME Chunked!Begin PROVE Good
  <2>1. /\ UNCHANGED <<stop, submitted, at, status, done, got>> /\ caller = "begins"
        /\ \/ Chunked!Immediate /\ caller' = "ok"
           \/ ~Chunked!NoThreads /\ caller' = "submits"
           \/ caller' = "unwinds"
           \/ Chunked!ZeroDivisor /\ caller' = "crashed"
    BY <1>17 DEF Chunked!Begin
  <2>2. Chunked!Immediate => Count = 0 /\ All = {} /\ ~Chunked!NoThreads
    BY <1>3 DEF Chunked!Immediate, Chunked!NoThreads, Chunked!Count, Count
  <2>3. TypeNext
    BY <1>4, <2>1
  <2>4. ProgressNext
    BY <1>5, <2>1
  <2>5. CallerNext
    BY <1>4, <1>6, <2>1, <2>2
  <2>. QED BY <2>3, <2>4, <2>5
<1>18. Good
  BY <1>7, <1>8, <1>9, <1>10, <1>11, <1>12, <1>13, <1>14, <1>15, <1>16, <1>17 DEF Chunked!Next, All
<1>19. ChunkedType'
  BY <1>1, <1>2, <1>4, <1>18 DEF ChunkedType, All, Count
<1>20. ProgressInv'
  BY <1>2, <1>18 DEF ProgressInv, All, First, Past
<1>21. CallerInv'
  BY <1>1, <1>2, <1>18 DEF CallerInv, Chunked!Ended, All, Count, Past
<1>. QED BY <1>19, <1>20, <1>21 DEF ChunkedInv

LEMMA ChunkedImplies == ChunkedInv => OkIsComplete
<1> SUFFICES ASSUME ChunkedInv PROVE OkIsComplete
  OBVIOUS
<1> USE DEF ChunkedInv, ChunkedType, ProgressInv, CallerInv
<1>1. caller = "ok" => done = Chunked!Elements
  <2> SUFFICES ASSUME caller = "ok" PROVE \A i : i \in done <=> i \in 0 .. n - 1
    BY DEF Chunked!Elements
  <2>1. \A c \in Chunked!All : at[c] = Chunked!Past(c)
    OBVIOUS
  <2>2. \A i : i \in done <=> \E c \in Chunked!All : i \in Nat /\ Chunked!First(c) <= i /\ i < at[c]
    OBVIOUS
  <2>3. n \in Nat /\ \A c \in Chunked!All : Chunked!Past(c) \in Nat /\ Chunked!Past(c) <= n
    BY ChunksOfCall
  <2>4. \A i \in 0 .. n - 1 : \E c \in Chunked!All : Chunked!First(c) <= i /\ i < Chunked!Past(c)
    BY ChunksOfCall, caller = "ok"
  <2>. QED BY <2>1, <2>2, <2>3, <2>4
<1>2. Chunked!Gone /\ (caller # "thrown" \/ kind = "async") => \A c \in Chunked!All : Chunked!Ended(c)
  BY DEF Chunked!Gone, Chunked!Ended, Chunked!All
<1>3. \A c, d \in Chunked!All : c < d => Chunked!Past(c) <= Chunked!First(d) /\ Chunked!First(d) < Chunked!Past(d)
  BY ChunksOfCall
<1>4. caller = "crashed" => (kind = "each" /\ n = 0) \/ (kind = "reduce" /\ pool = 0)
  <2>1. n \in Nat /\ pool \in Nat
    BY ComponentsAssumption DEF ComponentsAssumption
  <2>. QED BY <2>1 DEF Chunked!ZeroDivisor, Chunked!NoThreads, Chunked!Immediate, Chunked!threads,
                      Chunked!AtLeastOne, Chunked!Cut!Least
<1>. QED BY <1>1, <1>2, <1>3, <1>4 DEF OkIsComplete, Chunked!OkIsComplete

\* A parallel call that answers ok has computed every element of its input, and no chunk refers to the frame of
\* one that answered, or that threw out of std::async futures, for any input, any pool and whenever it is stopped.
\* The program ends by a division by zero only in the cancellable par_for_each over an empty input, and in the
\* cancellable par_reduce over a pool without workers.
THEOREM CompleteTheorem == Chunked!Spec => []OkIsComplete
BY ChunkedInit, ChunkedStep, ChunkedImplies, PTL DEF Chunked!Spec

-----------------------------------------------------------------------------
\* ScopeGuards.

One(condition) == IF condition THEN 1 ELSE 0

ScopeRecord == [kind : Guards!GuardKinds, count : Nat, active_ : BOOLEAN, unwinding : BOOLEAN]

\* A guard remembers the exceptions in flight below its scope: one more than the scope around it if that unwinds.
CountsInv ==
  /\ scopes \in Seq(ScopeRecord)
  /\ scopes = <<>> => uncaught = 0
  /\ scopes # <<>> => /\ scopes[1].count = 0
                      /\ uncaught = scopes[Len(scopes)].count + One(scopes[Len(scopes)].unwinding)
  /\ \A i \in 1 .. Len(scopes) - 1 : scopes[i + 1].count = scopes[i].count + One(scopes[i].unwinding)

GuardsInv == CountsInv /\ GuardsMatchExit

LEMMA GuardsInit == Guards!Init => GuardsInv
<1> SUFFICES ASSUME Guards!Init PROVE GuardsInv
  OBVIOUS
<1>1. scopes = <<>> /\ uncaught = 0 /\ ended.active = FALSE /\ ended.ran = FALSE
  BY DEF Guards!Init, Guards!Nobody
<1>2. CountsInv
  BY <1>1 DEF CountsInv
<1>3. GuardsMatchExit
  BY <1>1 DEF GuardsMatchExit, Guards!GuardsMatchExit
<1>. QED BY <1>2, <1>3 DEF GuardsInv

LEMMA DestroyedMatches ==
  ASSUME CountsInv, scopes # <<>>, Guards!Destroyed
  PROVE  GuardsMatchExit'
<1> DEFINE g == scopes[Len(scopes)]
<1>1. g \in ScopeRecord /\ uncaught = g.count + One(g.unwinding) /\ Guards!Top = g
  BY DEF CountsInv, Guards!Top, Guards!Last
<1> HIDE DEF g
<1>2. g.kind \in {"exit", "success", "fail"} /\ g.count \in Nat /\ g.unwinding \in BOOLEAN
  BY <1>1 DEF ScopeRecord, Guards!GuardKinds
<1>3. Guards!Runs(g) <=> CASE g.kind = "exit"    -> TRUE
                           [] g.kind = "success" -> ~g.unwinding
                           [] g.kind = "fail"    -> g.unwinding
  BY <1>1, <1>2 DEF Guards!Runs, One
<1>4. ended' = [kind |-> g.kind, active |-> g.active_, thrown |-> g.unwinding, ran |-> g.active_ /\ Guards!Runs(g)]
  BY <1>1 DEF Guards!Destroyed
<1>. QED BY <1>3, <1>4 DEF GuardsMatchExit, Guards!GuardsMatchExit

LEMMA FrontOfScopes ==
  ASSUME CountsInv, scopes # <<>>
  PROVE  /\ Len(scopes) \in Nat \ {0} /\ Guards!Front(scopes) \in Seq(ScopeRecord)
         /\ Len(Guards!Front(scopes)) = Len(scopes) - 1
         /\ \A i \in 1 .. Len(scopes) - 1 : Guards!Front(scopes)[i] = scopes[i]
         /\ \A i \in 1 .. Len(scopes) : scopes[i] \in ScopeRecord
         /\ Guards!Top = scopes[Len(scopes)]
<1>1. scopes \in Seq(ScopeRecord) /\ Len(scopes) \in Nat \ {0}
  BY DEF CountsInv
<1>2. \A i \in 1 .. Len(scopes) : scopes[i] \in ScopeRecord
  BY <1>1
<1>3. Guards!Front(scopes) = SubSeq(scopes, 1, Len(scopes) - 1) /\ Guards!Top = scopes[Len(scopes)]
  BY DEF Guards!Front, Guards!Top, Guards!Last
<1>4. \A i \in 1 .. Len(scopes) - 1 : SubSeq(scopes, 1, Len(scopes) - 1)[i] = scopes[i]
  BY <1>1
<1>5. /\ SubSeq(scopes, 1, Len(scopes) - 1) \in Seq(ScopeRecord)
      /\ Len(SubSeq(scopes, 1, Len(scopes) - 1)) = Len(scopes) - 1
  <2> DEFINE front == SubSeq(scopes, 1, Len(scopes) - 1)
  <2>1. 1 \in Int /\ Len(scopes) - 1 \in Int /\ \A i \in 1 .. Len(scopes) - 1 : scopes[i] \in ScopeRecord
    BY <1>1, <1>2
  <2>2. front \in Seq(ScopeRecord) /\ Len(front) = IF 1 <= Len(scopes) - 1 THEN Len(scopes) - 1 - 1 + 1 ELSE 0
    BY <2>1, SubSeqProperties
  <2> HIDE DEF front
  <2>3. Len(front) = Len(scopes) - 1
    <3> DEFINE len == Len(scopes)
    <3>1. len \in Nat \ {0} /\ Len(front) = IF 1 <= len - 1 THEN len - 1 - 1 + 1 ELSE 0
      BY <1>1, <2>2
    <3> HIDE DEF len
    <3>2. Len(front) = len - 1
      BY <3>1
    <3>. QED BY <3>2 DEF len
  <2>. QED BY <2>2, <2>3 DEF front
<1>. QED BY <1>1, <1>2, <1>3, <1>4, <1>5

\* The scope on top is the only one whose guard changes.
LEMMA TopChanges ==
  ASSUME CountsInv, scopes # <<>>, NEW g \in ScopeRecord,
         g.count = scopes[Len(scopes)].count,
         scopes' = [scopes EXCEPT ![Len(scopes)] = g],
         uncaught' = g.count + One(g.unwinding)
  PROVE  CountsInv'
<1>1. Len(scopes) \in Nat \ {0} /\ scopes \in Seq(ScopeRecord)
  BY FrontOfScopes DEF CountsInv
<1>2. /\ scopes' \in Seq(ScopeRecord) /\ Len(scopes') = Len(scopes)
      /\ \A i \in 1 .. Len(scopes) : scopes'[i] = IF i = Len(scopes) THEN g ELSE scopes[i]
  BY <1>1
<1>3. scopes' # <<>> /\ scopes'[1].count = 0
  BY <1>1, <1>2 DEF CountsInv
<1>4. ASSUME NEW i \in 1 .. Len(scopes') - 1
      PROVE  scopes'[i + 1].count = scopes'[i].count + One(scopes'[i].unwinding)
  <2>1. i \in 1 .. Len(scopes) - 1 /\ scopes'[i] = scopes[i] /\ scopes'[i + 1].count = scopes[i + 1].count
    <3>1. i \in 1 .. Len(scopes) /\ i # Len(scopes) /\ i + 1 \in 1 .. Len(scopes) /\ i \in 1 .. Len(scopes) - 1
      BY <1>1, <1>2, <1>4
    <3>2. scopes'[i] = scopes[i]
      BY <1>2, <3>1
    <3>3. scopes'[i + 1] = IF i + 1 = Len(scopes) THEN g ELSE scopes[i + 1]
      BY <1>2, <3>1
    <3>. QED BY <3>1, <3>2, <3>3
  <2>. QED BY <2>1 DEF CountsInv
<1>5. scopes'[Len(scopes')] = g
  BY <1>1, <1>2
<1>6. uncaught' = scopes'[Len(scopes')].count + One(scopes'[Len(scopes')].unwinding)
  BY <1>5
<1>. QED BY <1>2, <1>3, <1>4, <1>6 DEF CountsInv

\* Without its last scope; the one below may have begun to unwind.
LEMMA TopEnds ==
  ASSUME CountsInv, scopes # <<>>, scopes' = Guards!Front(scopes),
         uncaught' = scopes[Len(scopes)].count
  PROVE  CountsInv'
<1>1. /\ Len(scopes) \in Nat \ {0} /\ scopes' \in Seq(ScopeRecord) /\ Len(scopes') = Len(scopes) - 1
      /\ \A i \in 1 .. Len(scopes) - 1 : scopes'[i] = scopes[i]
  BY FrontOfScopes
<1>2. CASE Len(scopes) = 1
  <2>1. scopes' = <<>> /\ uncaught' = 0
    BY <1>1, <1>2 DEF CountsInv
  <2>. QED BY <1>1, <2>1 DEF CountsInv
<1>3. CASE Len(scopes) > 1
  <2>1. uncaught' = scopes'[Len(scopes')].count + One(scopes'[Len(scopes')].unwinding)
    BY <1>1, <1>3 DEF CountsInv
  <2>2. scopes'[1].count = 0 /\ scopes' # <<>>
    BY <1>1, <1>3 DEF CountsInv
  <2>3. \A i \in 1 .. Len(scopes') - 1 : scopes'[i + 1].count = scopes'[i].count + One(scopes'[i].unwinding)
    BY <1>1 DEF CountsInv
  <2>. QED BY <1>1, <2>1, <2>2, <2>3 DEF CountsInv
<1>. QED BY <1>1, <1>2, <1>3

LEMMA OpenKeeps ==
  ASSUME CountsInv, uncaught \in Nat, NEW k \in Guards!GuardKinds, Guards!Open(k)
  PROVE  CountsInv'
<1> DEFINE g == [kind |-> k, count |-> uncaught, active_ |-> TRUE, unwinding |-> FALSE]
<1>1. g \in ScopeRecord /\ g.count = uncaught /\ One(g.unwinding) = 0
  BY DEF ScopeRecord, One
<1>2. scopes' = Append(scopes, g) /\ uncaught' = uncaught
  BY DEF Guards!Open
<1> HIDE DEF g
<1>3. /\ scopes \in Seq(ScopeRecord) /\ Len(scopes) \in Nat /\ scopes' \in Seq(ScopeRecord) /\ Len(scopes') = Len(scopes) + 1
      /\ \A i \in 1 .. Len(scopes) : scopes'[i] = scopes[i]
      /\ scopes'[Len(scopes) + 1] = g
  BY <1>1, <1>2 DEF CountsInv
<1>4. scopes' # <<>> /\ scopes'[1].count = 0
  BY <1>1, <1>3 DEF CountsInv
<1>5. uncaught' = scopes'[Len(scopes')].count + One(scopes'[Len(scopes')].unwinding)
  BY <1>1, <1>2, <1>3
<1>6. ASSUME NEW i \in 1 .. Len(scopes') - 1
      PROVE  scopes'[i + 1].count = scopes'[i].count + One(scopes'[i].unwinding)
  <2>1. CASE i = Len(scopes)
    BY <1>1, <1>3, <1>6, <2>1 DEF CountsInv
  <2>2. CASE i # Len(scopes)
    BY <1>3, <1>6, <2>2 DEF CountsInv
  <2>. QED BY <2>1, <2>2
<1>. QED BY <1>3, <1>4, <1>5, <1>6 DEF CountsInv

LEMMA GuardsStep == GuardsInv /\ [Guards!Next]_(Guards!vars) => GuardsInv'
<1> SUFFICES ASSUME GuardsInv, [Guards!Next]_(Guards!vars) PROVE GuardsInv'
  OBVIOUS
<1>0. CountsInv /\ GuardsMatchExit
  BY DEF GuardsInv
<1> DEFINE top == scopes[Len(scopes)]
<1>1. scopes # <<>> => /\ top \in ScopeRecord /\ uncaught = top.count + One(top.unwinding) /\ Guards!Top = top
                       /\ top.count \in Nat /\ top.unwinding \in BOOLEAN /\ top.kind \in Guards!GuardKinds /\ top.active_ \in BOOLEAN
  BY <1>0, FrontOfScopes DEF CountsInv, ScopeRecord
<1>2. uncaught \in Nat
  BY <1>0, <1>1 DEF CountsInv, One
<1>3. UNCHANGED ended => GuardsMatchExit'
  BY <1>0 DEF GuardsMatchExit, Guards!GuardsMatchExit
<1> HIDE DEF top
<1>4. ASSUME UNCHANGED Guards!vars PROVE GuardsInv'
  BY <1>0, <1>3, <1>4 DEF Guards!vars, GuardsInv, CountsInv
<1>5. ASSUME NEW k \in Guards!GuardKinds, Guards!Open(k) PROVE GuardsInv'
  BY <1>0, <1>2, <1>3, <1>5, OpenKeeps DEF Guards!Open, GuardsInv
<1>6. ASSUME Guards!Release PROVE GuardsInv'
  <2> DEFINE g == [top EXCEPT !.active_ = FALSE]
  <2>1. scopes # <<>> /\ ~top.unwinding /\ UNCHANGED <<uncaught, ended>>
    BY <1>1, <1>6 DEF Guards!Release
  <2>2. g \in ScopeRecord /\ g.count = top.count /\ g.unwinding = top.unwinding
    BY <1>1, <2>1 DEF ScopeRecord
  <2>3. scopes' = [scopes EXCEPT ![Len(scopes)] = g]
    BY <1>0, <1>6 DEF Guards!Release, top
  <2> HIDE DEF g
  <2>. QED BY <1>0, <1>1, <1>3, <2>1, <2>2, <2>3, TopChanges DEF GuardsInv, top
<1>7. ASSUME Guards!MoveOut PROVE GuardsInv'
  <2>1. UNCHANGED <<scopes, uncaught>> /\ ended'.active = FALSE /\ ended'.ran = FALSE
    BY <1>7 DEF Guards!MoveOut
  <2>2. CountsInv'
    BY <1>0, <2>1 DEF CountsInv
  <2>3. GuardsMatchExit'
    BY <2>1 DEF GuardsMatchExit, Guards!GuardsMatchExit
  <2>. QED BY <2>2, <2>3 DEF GuardsInv
<1>8. ASSUME Guards!Leave PROVE GuardsInv'
  <2>1. scopes # <<>> /\ ~top.unwinding /\ Guards!Destroyed /\ scopes' = Guards!Front(scopes) /\ uncaught' = uncaught
    BY <1>1, <1>8 DEF Guards!Leave
  <2>2. uncaught' = top.count
    BY <1>1, <2>1 DEF One
  <2>. QED BY <1>0, <2>1, <2>2, TopEnds, DestroyedMatches DEF GuardsInv, top
<1>9. ASSUME Guards!Throw PROVE GuardsInv'
  <2> DEFINE g == [top EXCEPT !.unwinding = TRUE]
  <2>1. scopes # <<>> /\ ~top.unwinding /\ uncaught' = uncaught + 1 /\ UNCHANGED ended
    BY <1>1, <1>9 DEF Guards!Throw
  <2>2. g \in ScopeRecord /\ g.count = top.count /\ g.unwinding
    BY <1>1, <2>1 DEF ScopeRecord
  <2>3. scopes' = [scopes EXCEPT ![Len(scopes)] = g]
    BY <1>0, <1>9 DEF Guards!Throw, top
  <2> HIDE DEF g
  <2>4. uncaught' = g.count + One(g.unwinding)
    BY <1>1, <2>1, <2>2 DEF One
  <2>. QED BY <1>0, <1>1, <1>3, <2>1, <2>2, <2>3, <2>4, TopChanges DEF GuardsInv, top
<1>10. ASSUME Guards!Caught PROVE GuardsInv'
  <2>1. scopes # <<>> /\ top.unwinding /\ Guards!Destroyed /\ scopes' = Guards!Front(scopes) /\ uncaught' = uncaught - 1
    BY <1>1, <1>10 DEF Guards!Caught
  <2>2. uncaught' = top.count
    BY <1>1, <2>1 DEF One
  <2>. QED BY <1>0, <2>1, <2>2, TopEnds, DestroyedMatches DEF GuardsInv, top
<1>11. ASSUME Guards!GoesOn PROVE GuardsInv'
  <2>1. /\ Len(scopes) > 1 /\ ~scopes[Len(scopes) - 1].unwinding /\ Guards!Destroyed /\ UNCHANGED uncaught
        /\ scopes' = [Guards!Front(scopes) EXCEPT ![Len(scopes) - 1].unwinding = TRUE]
    BY <1>11 DEF Guards!GoesOn
  <2>2. scopes # <<>> /\ top.unwinding
    BY <1>0, <1>1, <1>11, <2>1 DEF Guards!GoesOn, CountsInv
  <2> DEFINE l == Len(scopes) - 1
             g == [scopes[l] EXCEPT !.unwinding = TRUE]
             front == Guards!Front(scopes)
  <2>3. /\ l \in Nat \ {0} /\ front \in Seq(ScopeRecord) /\ Len(front) = l /\ \A i \in 1 .. l : front[i] = scopes[i]
        /\ scopes[l] \in ScopeRecord /\ Len(scopes) = l + 1
    BY <1>0, <2>1, <2>2, FrontOfScopes
  <2>4. g \in ScopeRecord /\ g.count = scopes[l].count /\ g.unwinding
    BY <2>3 DEF ScopeRecord
  <2>5. scopes' = [front EXCEPT ![l] = g]
    <3>1. front[l] = scopes[l]
      BY <2>3
    <3>. QED BY <2>1, <3>1
  <2>6. top.count = scopes[l].count /\ uncaught' = top.count + 1
    <3>1. uncaught' = top.count + 1
      BY <1>1, <2>1, <2>2 DEF One
    <3>2. scopes[l + 1].count = scopes[l].count + One(scopes[l].unwinding) /\ ~scopes[l].unwinding
      BY <1>0, <2>1, <2>3 DEF CountsInv
    <3>3. scopes[l].count \in Nat
      BY <2>3 DEF ScopeRecord
    <3>. QED BY <2>3, <3>1, <3>2, <3>3 DEF One, top
  <2>7. scopes[1].count = 0 /\ \A i \in 1 .. l - 1 : scopes[i + 1].count = scopes[i].count + One(scopes[i].unwinding)
    BY <1>0, <2>2, <2>3 DEF CountsInv
  <2> HIDE DEF l, g, front
  <2>8. /\ scopes' \in Seq(ScopeRecord) /\ Len(scopes') = l
        /\ \A i \in 1 .. l : scopes'[i] = IF i = l THEN g ELSE scopes[i]
    BY <2>3, <2>4, <2>5
  <2>9. scopes' # <<>> /\ scopes'[1].count = 0
    BY <2>3, <2>4, <2>7, <2>8
  <2>10. uncaught' = scopes'[l].count + One(scopes'[l].unwinding)
    BY <2>3, <2>4, <2>6, <2>8 DEF One
  <2>11. \A i \in 1 .. l - 1 : scopes'[i + 1].count = scopes'[i].count + One(scopes'[i].unwinding)
    <3>1. ASSUME NEW i \in 1 .. l - 1
          PROVE  scopes'[i] = scopes[i] /\ scopes'[i + 1].count = scopes[i + 1].count
      <4>1. i \in 1 .. l /\ i + 1 \in 1 .. l /\ i # l
        BY <2>3
      <4>2. scopes'[i] = scopes[i] /\ scopes'[i + 1] = IF i + 1 = l THEN g ELSE scopes[i + 1]
        BY <2>8, <4>1
      <4>. QED BY <2>4, <4>2
    <3>. QED BY <2>7, <3>1
  <2>12. CountsInv'
    BY <2>8, <2>9, <2>10, <2>11 DEF CountsInv
  <2>. QED BY <1>0, <2>1, <2>2, <2>12, DestroyedMatches DEF GuardsInv
<1>. QED BY <1>4, <1>5, <1>6, <1>7, <1>8, <1>9, <1>10, <1>11 DEF Guards!Next

\* A guard that was not released runs in exactly the exits it is for, however deep the scopes and the
\* exceptions in flight.
THEOREM GuardsTheorem == Guards!Spec => []GuardsMatchExit
<1>1. GuardsInv => GuardsMatchExit
  BY DEF GuardsInv
<1>. QED BY <1>1, GuardsInit, GuardsStep, PTL DEF Guards!Spec

-----------------------------------------------------------------------------
\* Registry.

Writes == Infos \cup {ARegistry!Cleared}

\* The last clear of a log is at k, and a snapshot is what the log wrote since.
LastClearAt(entries, k) == /\ k \in 0 .. Len(entries)
                           /\ k = 0 \/ entries[k] = ARegistry!Cleared
                           /\ \A i \in k + 1 .. Len(entries) : entries[i] # ARegistry!Cleared

Reflects(snap, entries, k) ==
  /\ DOMAIN snap.by_id = {entries[i].id : i \in k + 1 .. Len(entries)}
  /\ DOMAIN snap.by_name = {entries[i].name : i \in k + 1 .. Len(entries)} \ {""}
  /\ \A i \in k + 1 .. Len(entries) :
       /\ (\A j \in k + 1 .. Len(entries) : j < i => entries[j].id # entries[i].id) => snap.by_id[entries[i].id] = entries[i]
       /\ (\A j \in k + 1 .. Len(entries) : j > i => entries[j].name # entries[i].name) /\ entries[i].name # ""
            => snap.by_name[entries[i].name] = entries[i]

Closed(snap) == /\ \A name \in DOMAIN snap.by_name : snap.by_name[name].id \in DOMAIN snap.by_id
                /\ \A id \in DOMAIN snap.by_id : snap.by_id[id].name \in DOMAIN snap.by_name \cup {""}

\* Who has something to write holds the mutex, and what it is about to store is the snapshot with that.
WriterInv == /\ pending \in [Threads -> Writes \cup {ARegistry!Nothing}]
             /\ mutex_ \in Threads \cup {ARegistry!NoThread}
             /\ copy = [t \in Threads |-> copy[t]]
             /\ \A t \in Threads : pending[t] # ARegistry!Nothing =>
                  /\ mutex_ = t
                  /\ copy[t] = IF pending[t] = ARegistry!Cleared THEN ARegistry!Empty ELSE ARegistry!Added(snapshot, pending[t])

LogInv == /\ written \in Seq(Writes)
          /\ \E k \in Nat : LastClearAt(written, k) /\ Reflects(snapshot, written, k)

ClosedInv == /\ Closed(snapshot)
             /\ view = [t \in Threads |-> view[t]]
             /\ \A t \in Threads : Closed(view[t])

RegistryInv == WriterInv /\ LogInv /\ ClosedInv

LEMMA AddedDomains ==
  ASSUME NEW snap, NEW info
  PROVE  /\ DOMAIN ARegistry!Added(snap, info).by_id = DOMAIN snap.by_id \cup {info.id}
         /\ DOMAIN ARegistry!Added(snap, info).by_name
              = IF info.name = "" THEN DOMAIN snap.by_name ELSE DOMAIN snap.by_name \cup {info.name}
         /\ \A id \in DOMAIN snap.by_id : ARegistry!Added(snap, info).by_id[id] = snap.by_id[id]
         /\ info.id \notin DOMAIN snap.by_id => ARegistry!Added(snap, info).by_id[info.id] = info
         /\ \A name \in DOMAIN snap.by_name :
              name # info.name \/ info.name = "" => ARegistry!Added(snap, info).by_name[name] = snap.by_name[name]
         /\ info.name # "" => ARegistry!Added(snap, info).by_name[info.name] = info
BY DEF ARegistry!Added, ARegistry!insert, ARegistry!insert_or_assign

LEMMA AddedClosed ==
  ASSUME NEW snap, NEW info, Closed(snap)
  PROVE  Closed(ARegistry!Added(snap, info))
<1> DEFINE next == ARegistry!Added(snap, info)
<1>1. /\ DOMAIN next.by_id = DOMAIN snap.by_id \cup {info.id}
      /\ DOMAIN next.by_name = IF info.name = "" THEN DOMAIN snap.by_name ELSE DOMAIN snap.by_name \cup {info.name}
      /\ \A id \in DOMAIN snap.by_id : next.by_id[id] = snap.by_id[id]
      /\ info.id \notin DOMAIN snap.by_id => next.by_id[info.id] = info
      /\ \A name \in DOMAIN snap.by_name : name # info.name \/ info.name = "" => next.by_name[name] = snap.by_name[name]
      /\ info.name # "" => next.by_name[info.name] = info
  BY AddedDomains
<1> HIDE DEF next
<1>2. ASSUME NEW name \in DOMAIN next.by_name PROVE next.by_name[name].id \in DOMAIN next.by_id
  BY <1>1, <1>2 DEF Closed
<1>3. ASSUME NEW id \in DOMAIN next.by_id PROVE next.by_id[id].name \in DOMAIN next.by_name \cup {""}
  BY <1>1, <1>3 DEF Closed
<1>. QED BY <1>2, <1>3 DEF Closed, next

\* A write that is appended to the log and added to the snapshot is not lost, and loses none.
LEMMA AddedReflects ==
  ASSUME NEW snap, NEW entries \in Seq(Writes), NEW k \in Nat, LastClearAt(entries, k), Reflects(snap, entries, k),
         NEW info \in Infos
  PROVE  /\ LastClearAt(Append(entries, info), k)
         /\ Reflects(ARegistry!Added(snap, info), Append(entries, info), k)
<1> DEFINE next == ARegistry!Added(snap, info)
           longer == Append(entries, info)
           l == Len(entries)
<1>1. /\ DOMAIN next.by_id = DOMAIN snap.by_id \cup {info.id}
      /\ DOMAIN next.by_name = IF info.name = "" THEN DOMAIN snap.by_name ELSE DOMAIN snap.by_name \cup {info.name}
      /\ \A id \in DOMAIN snap.by_id : next.by_id[id] = snap.by_id[id]
      /\ info.id \notin DOMAIN snap.by_id => next.by_id[info.id] = info
      /\ \A name \in DOMAIN snap.by_name : name # info.name \/ info.name = "" => next.by_name[name] = snap.by_name[name]
      /\ info.name # "" => next.by_name[info.name] = info
  BY AddedDomains
<1>2. l \in Nat /\ Len(longer) = l + 1 /\ longer[l + 1] = info /\ \A i \in 1 .. l : longer[i] = entries[i]
  BY DEF Writes
<1>3. info # ARegistry!Cleared
  <2>1. info.id # "all"
    BY ComponentsAssumption DEF ComponentsAssumption
  <2>2. ARegistry!Cleared.id = "all"
    BY DEF ARegistry!Cleared
  <2>. QED BY <2>1, <2>2
<1>4. /\ k \in 0 .. l
      /\ k = 0 \/ entries[k] = ARegistry!Cleared
      /\ \A i \in k + 1 .. l : entries[i] # ARegistry!Cleared
  BY DEF LastClearAt
<1>5. /\ DOMAIN snap.by_id = {entries[i].id : i \in k + 1 .. l}
      /\ DOMAIN snap.by_name = {entries[i].name : i \in k + 1 .. l} \ {""}
      /\ \A i \in k + 1 .. l :
           /\ (\A j \in k + 1 .. l : j < i => entries[j].id # entries[i].id) => snap.by_id[entries[i].id] = entries[i]
           /\ (\A j \in k + 1 .. l : j > i => entries[j].name # entries[i].name) /\ entries[i].name # ""
                => snap.by_name[entries[i].name] = entries[i]
  BY DEF Reflects
<1> HIDE DEF next, longer, l
<1>6. k + 1 .. l + 1 = (k + 1 .. l) \cup {l + 1} /\ l + 1 \notin k + 1 .. l /\ \A i \in k + 1 .. l : i \in 1 .. l /\ i < l + 1
  BY <1>2, <1>4
<1>7. LastClearAt(longer, k)
  BY <1>2, <1>3, <1>4, <1>6 DEF LastClearAt
<1>8. \A i \in k + 1 .. l : longer[i] = entries[i]
  BY <1>2, <1>6
<1>9. DOMAIN next.by_id = {longer[i].id : i \in k + 1 .. Len(longer)}
  <2>1. {longer[i].id : i \in k + 1 .. Len(longer)} = {longer[i].id : i \in k + 1 .. l} \cup {longer[l + 1].id}
    BY <1>2, <1>6
  <2>2. {longer[i].id : i \in k + 1 .. l} = {entries[i].id : i \in k + 1 .. l}
    BY <1>8
  <2>. QED BY <1>1, <1>2, <1>5, <2>1, <2>2
<1>10. DOMAIN next.by_name = {longer[i].name : i \in k + 1 .. Len(longer)} \ {""}
  <2>1. {longer[i].name : i \in k + 1 .. Len(longer)} = {longer[i].name : i \in k + 1 .. l} \cup {longer[l + 1].name}
    BY <1>2, <1>6
  <2>2. {longer[i].name : i \in k + 1 .. l} = {entries[i].name : i \in k + 1 .. l}
    BY <1>8
  <2>. QED BY <1>1, <1>2, <1>5, <2>1, <2>2
<1>11. ASSUME NEW i \in k + 1 .. l,
              \A j \in k + 1 .. Len(longer) : j < i => longer[j].id # longer[i].id
       PROVE  next.by_id[longer[i].id] = longer[i]
  <2>1. \A j \in k + 1 .. l : j < i => entries[j].id # entries[i].id
    BY <1>2, <1>6, <1>8, <1>11
  <2>2. snap.by_id[entries[i].id] = entries[i]
    BY <1>5, <2>1
  <2>3. entries[i].id \in DOMAIN snap.by_id
    BY <1>5
  <2>4. next.by_id[entries[i].id] = snap.by_id[entries[i].id]
    BY <1>1, <2>3
  <2>. QED BY <1>8, <2>2, <2>4
<1>12. ASSUME \A j \in k + 1 .. Len(longer) : j < l + 1 => longer[j].id # longer[l + 1].id
       PROVE  next.by_id[longer[l + 1].id] = longer[l + 1]
  <2>1. \A j \in k + 1 .. l : entries[j].id # info.id
    BY <1>2, <1>6, <1>8, <1>12
  <2>. QED BY <1>1, <1>2, <1>5, <2>1
<1>13. ASSUME NEW i \in k + 1 .. l, longer[i].name # "",
              \A j \in k + 1 .. Len(longer) : j > i => longer[j].name # longer[i].name
       PROVE  next.by_name[longer[i].name] = longer[i]
  <2>1. \A j \in k + 1 .. l : j > i => entries[j].name # entries[i].name
    BY <1>2, <1>6, <1>8, <1>13
  <2>2. info.name # entries[i].name
    BY <1>2, <1>4, <1>6, <1>8, <1>13
  <2>3. entries[i].name \in DOMAIN snap.by_name
    BY <1>5, <1>8, <1>13
  <2>4. snap.by_name[entries[i].name] = entries[i]
    BY <1>5, <1>8, <1>13, <2>1
  <2>5. next.by_name[entries[i].name] = snap.by_name[entries[i].name]
    BY <1>1, <2>2, <2>3
  <2>. QED BY <1>8, <2>4, <2>5
<1>14. longer[l + 1].name # "" => next.by_name[longer[l + 1].name] = longer[l + 1]
  BY <1>1, <1>2
<1>15. ASSUME NEW i \in k + 1 .. Len(longer)
       PROVE  /\ (\A j \in k + 1 .. Len(longer) : j < i => longer[j].id # longer[i].id) => next.by_id[longer[i].id] = longer[i]
              /\ (\A j \in k + 1 .. Len(longer) : j > i => longer[j].name # longer[i].name) /\ longer[i].name # ""
                   => next.by_name[longer[i].name] = longer[i]
  <2>1. i \in k + 1 .. l \/ i = l + 1
    BY <1>2, <1>6, <1>15
  <2>2. CASE i \in k + 1 .. l
    BY <1>11, <1>13, <2>2
  <2>3. CASE i = l + 1
    BY <1>12, <1>14, <2>3
  <2>. QED BY <2>1, <2>2, <2>3
<1>16. Reflects(next, longer, k)
  BY <1>9, <1>10, <1>15 DEF Reflects
<1>. QED BY <1>7, <1>16 DEF next, longer

LEMMA ClearedReflects ==
  ASSUME NEW entries \in Seq(Writes)
  PROVE  /\ LastClearAt(Append(entries, ARegistry!Cleared), Len(entries) + 1)
         /\ Reflects(ARegistry!Empty, Append(entries, ARegistry!Cleared), Len(entries) + 1)
<1> DEFINE longer == Append(entries, ARegistry!Cleared)
           l == Len(entries) + 1
<1>1. l \in Nat /\ Len(longer) = l /\ longer[l] = ARegistry!Cleared
  BY DEF Writes
<1>2. DOMAIN ARegistry!Empty.by_id = {} /\ DOMAIN ARegistry!Empty.by_name = {}
  BY DEF ARegistry!Empty
<1> HIDE DEF longer, l
<1>3. l + 1 .. l = {}
  BY <1>1
<1>4. LastClearAt(longer, l)
  BY <1>1, <1>3 DEF LastClearAt
<1>5. {longer[i].id : i \in l + 1 .. l} = {} /\ {longer[i].name : i \in l + 1 .. l} = {}
  BY <1>3
<1>6. Reflects(ARegistry!Empty, longer, l)
  BY <1>1, <1>2, <1>3, <1>5 DEF Reflects
<1>. QED BY <1>4, <1>6 DEF longer, l

LEMMA RegistryInit == ARegistry!Init => RegistryInv
<1> SUFFICES ASSUME ARegistry!Init PROVE RegistryInv
  OBVIOUS
<1> USE DEF ARegistry!Init
<1>1. DOMAIN ARegistry!Empty.by_id = {} /\ DOMAIN ARegistry!Empty.by_name = {}
  BY DEF ARegistry!Empty
<1>2. WriterInv
  BY DEF WriterInv
<1>3. LastClearAt(written, 0) /\ Reflects(snapshot, written, 0)
  BY <1>1 DEF LastClearAt, Reflects
<1>4. LogInv
  BY <1>3 DEF LogInv
<1>5. ClosedInv
  BY <1>1 DEF ClosedInv, Closed
<1>. QED BY <1>2, <1>4, <1>5 DEF RegistryInv

LEMMA RegistryStep == RegistryInv /\ [ARegistry!Next]_(ARegistry!vars) => RegistryInv'
<1> SUFFICES ASSUME RegistryInv, [ARegistry!Next]_(ARegistry!vars) PROVE RegistryInv'
  OBVIOUS
<1>0. WriterInv /\ LogInv /\ ClosedInv
  BY DEF RegistryInv
<1>1. UNCHANGED <<snapshot, written>> => LogInv'
  BY <1>0 DEF LogInv
<1>2. UNCHANGED <<snapshot, view>> => ClosedInv'
  BY <1>0 DEF ClosedInv
<1>3. UNCHANGED <<snapshot, mutex_, copy, pending>> => WriterInv'
  BY <1>0 DEF WriterInv
<1>4. ASSUME UNCHANGED ARegistry!vars PROVE RegistryInv'
  BY <1>1, <1>2, <1>3, <1>4 DEF RegistryInv, ARegistry!vars
<1>5. ASSUME NEW t \in Threads, ARegistry!Locks(t) PROVE RegistryInv'
  <2>1. mutex_ = ARegistry!NoThread /\ mutex_' = t /\ UNCHANGED <<snapshot, view, written>>
    BY <1>5 DEF ARegistry!Locks
  <2>2. \A u \in Threads : pending[u] = ARegistry!Nothing
    BY <1>0, <2>1, ComponentsAssumption DEF WriterInv, ARegistry!NoThread, ComponentsAssumption
  <2>3. PICK w \in Infos \cup {ARegistry!Cleared} :
          /\ pending' = [pending EXCEPT ![t] = w]
          /\ copy' = [copy EXCEPT ![t] = IF w = ARegistry!Cleared THEN ARegistry!Empty ELSE ARegistry!Added(snapshot, w)]
    BY <1>5 DEF ARegistry!Locks
  <2>4. \A u \in Threads : pending'[u] = IF u = t THEN w ELSE pending[u]
    BY <1>0, <2>3 DEF WriterInv
  <2>5. copy'[t] = IF w = ARegistry!Cleared THEN ARegistry!Empty ELSE ARegistry!Added(snapshot, w)
    BY <1>0, <2>3 DEF WriterInv
  <2>6. pending' \in [Threads -> Writes \cup {ARegistry!Nothing}]
    BY <1>0, <2>3 DEF WriterInv, Writes
  <2>7. copy' = [u \in Threads |-> copy'[u]]
    BY <1>0, <2>3 DEF WriterInv
  <2>8. WriterInv'
    BY <2>1, <2>2, <2>4, <2>5, <2>6, <2>7 DEF WriterInv
  <2>. QED BY <1>1, <1>2, <2>1, <2>8 DEF RegistryInv
<1>6. ASSUME NEW t \in Threads, ARegistry!Stores(t) PROVE RegistryInv'
  <2> DEFINE w == pending[t]
  <2>1. /\ w # ARegistry!Nothing /\ snapshot' = copy[t] /\ written' = Append(written, w)
        /\ pending' = [pending EXCEPT ![t] = ARegistry!Nothing] /\ mutex_' = ARegistry!NoThread
        /\ UNCHANGED <<copy, view>>
    BY <1>6 DEF ARegistry!Stores
  <2>2. w \in Writes /\ mutex_ = t
        /\ snapshot' = IF w = ARegistry!Cleared THEN ARegistry!Empty ELSE ARegistry!Added(snapshot, w)
    BY <1>0, <2>1 DEF WriterInv
  <2>3. \A u \in Threads : pending'[u] = ARegistry!Nothing
    BY <1>0, <2>1, <2>2 DEF WriterInv
  <2>4. WriterInv'
    <3>1. pending' \in [Threads -> Writes \cup {ARegistry!Nothing}]
      BY <1>0, <2>1 DEF WriterInv
    <3>2. copy' = [u \in Threads |-> copy'[u]]
      BY <1>0, <2>1 DEF WriterInv
    <3>. QED BY <2>1, <2>3, <3>1, <3>2 DEF WriterInv
  <2> HIDE DEF w
  <2>5. CASE w = ARegistry!Cleared
    <3>1. written \in Seq(Writes) /\ Len(written) + 1 \in Nat /\ written' \in Seq(Writes)
      BY <1>0, <2>1, <2>2 DEF LogInv
    <3>2. LastClearAt(written', Len(written) + 1) /\ Reflects(snapshot', written', Len(written) + 1)
      BY <2>1, <2>2, <2>5, <3>1, ClearedReflects
    <3>3. LogInv'
      BY <3>1, <3>2 DEF LogInv
    <3>4. Closed(snapshot')
      BY <2>2, <2>5 DEF Closed, ARegistry!Empty
    <3>5. ClosedInv'
      BY <1>0, <2>1, <3>4 DEF ClosedInv
    <3>. QED BY <2>4, <3>3, <3>5 DEF RegistryInv
  <2>6. CASE w # ARegistry!Cleared
    <3>1. w \in Infos /\ snapshot' = ARegistry!Added(snapshot, w)
      BY <2>2, <2>6 DEF Writes
    <3>2. written \in Seq(Writes) /\ written' \in Seq(Writes)
      BY <1>0, <2>1, <2>2 DEF LogInv
    <3>3. PICK k \in Nat : LastClearAt(written, k) /\ Reflects(snapshot, written, k)
      BY <1>0 DEF LogInv
    <3>4. LastClearAt(written', k) /\ Reflects(snapshot', written', k)
      BY <2>1, <3>1, <3>2, <3>3, AddedReflects
    <3>5. LogInv'
      BY <3>2, <3>4 DEF LogInv
    <3>6. Closed(snapshot')
      BY <1>0, <3>1, AddedClosed DEF ClosedInv
    <3>7. ClosedInv'
      BY <1>0, <2>1, <3>6 DEF ClosedInv
    <3>. QED BY <2>4, <3>5, <3>7 DEF RegistryInv
  <2>. QED BY <2>5, <2>6
<1>7. ASSUME NEW t \in Threads, ARegistry!Loads(t) PROVE RegistryInv'
  <2>1. view' = [view EXCEPT ![t] = snapshot] /\ UNCHANGED <<snapshot, mutex_, copy, written, pending>>
    BY <1>7 DEF ARegistry!Loads
  <2>2. \A u \in Threads : view'[u] = IF u = t THEN snapshot ELSE view[u]
    BY <1>0, <2>1 DEF ClosedInv
  <2>3. view' = [u \in Threads |-> view'[u]]
    BY <1>0, <2>1 DEF ClosedInv
  <2>4. ClosedInv'
    BY <1>0, <2>1, <2>2, <2>3 DEF ClosedInv
  <2>. QED BY <1>1, <1>3, <2>1, <2>4 DEF RegistryInv
<1>. QED BY <1>4, <1>5, <1>6, <1>7 DEF ARegistry!Next

LEMMA RegistryImplies == RegistryInv => RegistryComplete
<1> SUFFICES ASSUME RegistryInv PROVE RegistryComplete
  OBVIOUS
<1>1. PICK k \in Nat : LastClearAt(written, k) /\ Reflects(snapshot, written, k)
  BY DEF RegistryInv, LogInv
<1>2. ARegistry!LastClear = k
  <2> DEFINE P(q) == q \in 0 .. Len(written) /\ (q = 0 \/ written[q] = ARegistry!Cleared)
                     /\ \A i \in q + 1 .. Len(written) : written[i] # ARegistry!Cleared
  <2>0. Len(written) \in Nat
    BY DEF RegistryInv, LogInv
  <2>1. P(k)
    BY <1>1 DEF LastClearAt
  <2>2. \A q : P(q) => q = k
    BY <1>1, <2>0, <2>1
  <2>3. LET l == ARegistry!LastClear IN P(l)
    BY <2>1 DEF ARegistry!LastClear
  <2>. QED BY <2>2, <2>3
<1>3. ARegistry!NothingLost
  BY <1>1, <1>2 DEF ARegistry!NothingLost, ARegistry!Since, ARegistry!First, ARegistry!Final, Reflects
<1>4. ARegistry!ViewsClosed
  BY DEF RegistryInv, ClosedInv, Closed, ARegistry!ViewsClosed
<1>. QED BY <1>3, <1>4 DEF RegistryComplete, ARegistry!RegistryComplete

\* No registration is lost to another one or to a reader, and readers see whole snapshots, for any threads
\* and anything they register.
THEOREM RegistryTheorem == ARegistry!Spec => []RegistryComplete
BY RegistryInit, RegistryStep, RegistryImplies, PTL DEF ARegistry!Spec

-----------------------------------------------------------------------------
\* Owners.

TypesIn(f) == CASE f = "buffer"  -> {"unborn", "buffer"}
                [] f = "aligned" -> {"unborn", "aligned"}
                [] f = "box"     -> {"unborn", "box", "shared"}
                [] f = "gpu"     -> {"unborn", "host", "device"}
                [] OTHER         -> {"unborn"}

Holding == [type : {"unborn", "buffer", "aligned", "box", "shared", "host", "device"}, id : Nat, size : Nat, mode : Nat]
Block   == [id : Nat \ {0}, size : Nat, mode : Nat, data : Seq(Int)]

\* Block h is the one that holding b is about, with the elements v.
Fits(h, b, v) == h.id = b.id /\ h.size = b.size /\ h.mode = b.mode /\ h.data = v /\ Len(v) = b.size

\* A holding in order: of a type of the behaviour, empty or with its block as allocated, whole if it is aligned.
InOrder(f, b, v, blocks_) ==
  /\ b \in Holding /\ v \in Seq(Int) /\ b.type \in TypesIn(f)
  /\ b.type = "unborn" => b = SomeOwners!Unborn
  /\ b.id = 0 => b.size = 0 /\ v = <<>>
  /\ b.id # 0 => \E h \in blocks_ : Fits(h, b, v)
  /\ b.type = "aligned" => IF b.mode = 0 THEN b.id = 0 ELSE b.size % b.mode = 0

HeapInv == /\ heap \subseteq Block /\ next_id \in Nat \ {0}
           /\ \A h \in heap : h.id < next_id
           /\ \A h, k \in heap : h.id = k.id => h = k

InOrderInv == /\ holds = [o \in Owners |-> holds[o]] /\ value = [o \in Owners |-> value[o]]
              /\ \A o \in Owners : InOrder(family, holds[o], value[o], heap)
              /\ \A r \in raw : /\ InOrder(family, r.owner, r.value, heap)
                                /\ r.owner.id # 0 /\ r.owner.type # "shared"

\* Only Shareds hold the same block, and each block is held.
SingleInv == /\ \A o, p \in Owners : o # p /\ holds[o].id = holds[p].id /\ holds[o].id # 0
                                       => holds[o].type = "shared" /\ holds[p].type = "shared"
             /\ \A o \in Owners, r \in raw : holds[o].id # r.owner.id
             /\ \A r, s \in raw : r.owner.id = s.owner.id => r = s

HeldInv == \A h \in heap : (\E o \in Owners : holds[o].id = h.id) \/ (\E r \in raw : r.owner.id = h.id)

OwnersInv == ~misfreed /\ HeapInv /\ InOrderInv /\ SingleInv /\ HeldInv

LEMMA OwnersInit == SomeOwners!Init => OwnersInv
<1> SUFFICES ASSUME SomeOwners!Init PROVE OwnersInv
  OBVIOUS
<1> USE DEF SomeOwners!Init
<1>1. InOrder(family, SomeOwners!Unborn, <<>>, {})
  BY DEF InOrder, TypesIn, Holding, SomeOwners!Unborn
<1>2. SomeOwners!Unborn.id = 0
  BY DEF SomeOwners!Unborn
<1>3. HeapInv
  BY DEF HeapInv
<1>4. InOrderInv
  BY <1>1 DEF InOrderInv
<1>5. SingleInv /\ HeldInv
  BY <1>2 DEF SingleInv, HeldInv
<1>. QED BY <1>3, <1>4, <1>5 DEF OwnersInv

\* What an owner sees is what the program believes it to have.
LEMMA DataOfBlock ==
  ASSUME HeapInv, NEW h \in heap
  PROVE  SomeOwners!Data(h.id) = h.data
<1>1. h.id # 0
  BY DEF HeapInv, Block
<1>2. \A k \in heap : k.id = h.id => k = h
  BY DEF HeapInv
<1>3. (CHOOSE k \in heap : k.id = h.id) = h
  BY <1>2
<1>. QED BY <1>1, <1>3 DEF SomeOwners!Data

LEMMA SeenIsValue ==
  ASSUME OwnersInv, NEW o \in Owners
  PROVE  /\ SomeOwners!Seen(o) = value[o] /\ value[o] \in Seq(Int)
         /\ Len(value[o]) = holds[o].size /\ holds[o].size \in Nat
<1>1. InOrder(family, holds[o], value[o], heap) /\ HeapInv
  BY DEF OwnersInv, InOrderInv
<1>2. holds[o].size \in Nat /\ value[o] \in Seq(Int)
  BY <1>1 DEF InOrder, Holding
<1>3. CASE holds[o].id = 0
  BY <1>1, <1>2, <1>3 DEF InOrder, SomeOwners!Seen, SomeOwners!Data
<1>4. CASE holds[o].id # 0
  <2>1. PICK h \in heap : Fits(h, holds[o], value[o])
    BY <1>1, <1>4 DEF InOrder
  <2>2. SomeOwners!Data(holds[o].id) = value[o] /\ Len(value[o]) = holds[o].size
    BY <1>1, <2>1, DataOfBlock DEF Fits
  <2>. QED BY <1>2, <2>2 DEF SomeOwners!Seen
<1>. QED BY <1>3, <1>4

LEMMA CountOf == ASSUME NEW S PROVE SomeOwners!Cardinality(S) = Cardinality(S)
BY DEF SomeOwners!Cardinality, Cardinality

LEMMA SingleHolder ==
  ASSUME OwnersInv, NEW h \in heap
  PROVE  \/ SomeOwners!Cardinality(SomeOwners!Holders(h)) + SomeOwners!Cardinality({r \in raw : r.owner.id = h.id}) = 1
         \/ SomeOwners!Holders(h) # {} /\ \A o \in SomeOwners!Holders(h) : SomeOwners!Is(o, "shared")
<1> DEFINE hs == SomeOwners!Holders(h)
           rs == {r \in raw : r.owner.id = h.id}
<1>0. h.id # 0 /\ HeldInv /\ SingleInv
  BY DEF OwnersInv, HeapInv, Block
<1>1. hs = {o \in Owners : holds[o].id = h.id}
  BY DEF SomeOwners!Holders
<1>2. SomeOwners!Cardinality({}) = 0 /\ \A x : SomeOwners!Cardinality({x}) = 1
  BY FS_EmptySet, FS_Singleton, CountOf
<1>3. CASE \E r \in raw : r.owner.id = h.id
  <2>1. PICK r \in raw : r.owner.id = h.id
    BY <1>3
  <2>2. rs = {r} /\ hs = {}
    BY <1>0, <1>1, <2>1 DEF SingleInv
  <2>3. SomeOwners!Cardinality(hs) + SomeOwners!Cardinality(rs) = 1
    <3> HIDE DEF hs, rs
    <3>. QED BY <1>2, <2>2
  <2>. QED BY <2>3
<1>4. CASE \E o \in Owners : holds[o].id = h.id /\ holds[o].type # "shared"
  <2>1. PICK o \in Owners : holds[o].id = h.id /\ holds[o].type # "shared"
    BY <1>4
  <2>2. hs = {o} /\ rs = {}
    BY <1>0, <1>1, <2>1 DEF SingleInv
  <2>3. SomeOwners!Cardinality(hs) + SomeOwners!Cardinality(rs) = 1
    <3> HIDE DEF hs, rs
    <3>. QED BY <1>2, <2>2
  <2>. QED BY <2>3
<1>5. CASE /\ ~\E r \in raw : r.owner.id = h.id
           /\ ~\E o \in Owners : holds[o].id = h.id /\ holds[o].type # "shared"
  BY <1>0, <1>1, <1>5 DEF HeldInv, SomeOwners!Is
<1>. QED BY <1>3, <1>4, <1>5

LEMMA OwnersImplies == OwnersInv => OwnedOnce
<1> SUFFICES ASSUME OwnersInv PROVE OwnedOnce
  OBVIOUS
<1>1. ~misfreed /\ InOrderInv
  BY DEF OwnersInv
<1>2. ASSUME NEW r \in raw PROVE \E h \in heap : h.id = r.owner.id /\ h.data = r.value
  BY <1>1, <1>2 DEF InOrderInv, InOrder, Fits
<1>3. ASSUME NEW o \in Owners
      PROVE  /\ holds[o].id # 0 => \E h \in heap : h.id = holds[o].id
             /\ SomeOwners!Seen(o) = value[o] /\ Len(value[o]) = holds[o].size
             /\ SomeOwners!Is(o, "aligned") /\ holds[o].mode # 0 => holds[o].size % holds[o].mode = 0
  <2>1. InOrder(family, holds[o], value[o], heap)
    BY <1>1 DEF InOrderInv
  <2>2. holds[o].id # 0 => \E h \in heap : h.id = holds[o].id
    BY <2>1 DEF InOrder, Fits
  <2>3. SomeOwners!Is(o, "aligned") /\ holds[o].mode # 0 => holds[o].size % holds[o].mode = 0
    BY <2>1 DEF InOrder, SomeOwners!Is
  <2>. QED BY <2>2, <2>3, SeenIsValue
<1>. QED BY <1>1, <1>2, <1>3, SingleHolder DEF OwnedOnce, SomeOwners!OwnedOnce

LEMMA StaysInOrder ==
  ASSUME NEW f, NEW b, NEW v, NEW H, NEW K, InOrder(f, b, v, H), \A h \in H : h.id = b.id => h \in K
  PROVE  InOrder(f, b, v, K)
<1>1. b.id # 0 => \E h \in K : Fits(h, b, v)
  BY DEF InOrder, Fits
<1>. QED BY <1>1 DEF InOrder

LEMMA EmptyInOrder ==
  ASSUME NEW f, NEW type \in TypesIn(f) \ {"unborn"}, NEW mode \in Nat, NEW H
  PROVE  /\ InOrder(f, SomeOwners!Empty(type, mode), <<>>, H) /\ SomeOwners!Empty(type, mode).id = 0
         /\ InOrder(f, SomeOwners!Unborn, <<>>, H) /\ SomeOwners!Unborn.id = 0 /\ SomeOwners!Unborn.type = "unborn"
<1>1. type \in {"buffer", "aligned", "box", "shared", "host", "device"} /\ "unborn" \in TypesIn(f)
  BY DEF TypesIn
<1>2. \A m \in Nat : m # 0 => 0 % m = 0
  OBVIOUS
<1>3. SomeOwners!Empty(type, mode) \in Holding /\ SomeOwners!Unborn \in Holding
  BY <1>1 DEF Holding, SomeOwners!Unborn, SomeOwners!Empty
<1>4. <<>> \in Seq(Int)
  OBVIOUS
<1>. QED BY <1>1, <1>2, <1>3, <1>4 DEF InOrder, SomeOwners!Unborn, SomeOwners!Empty

\* The place o gives up its block, which goes unless another Shared holds it; nothing else goes.
Drops(o) == /\ heap' \subseteq heap /\ ~misfreed'
            /\ \A h \in heap \ heap' : /\ h.id = holds[o].id
                                       /\ \A p \in Owners \ {o} : holds[p].id # h.id
                                       /\ \A r \in raw : r.owner.id # h.id
            /\ \A h \in heap' : h.id = holds[o].id => \E p \in Owners \ {o} : holds[p].id = h.id

LEMMA UnbornDrops ==
  ASSUME OwnersInv, NEW o \in Owners, ~SomeOwners!Exists(o), UNCHANGED <<heap, misfreed>>
  PROVE  Drops(o)
BY DEF OwnersInv, HeapInv, Block, Drops, SomeOwners!Exists, SomeOwners!Unborn

LEMMA FreeingDrops ==
  ASSUME OwnersInv, NEW o \in Owners, SomeOwners!Freeing(o)
  PROVE  Drops(o)
<1> DEFINE b == holds[o]
           found == {h \in heap : h.id = b.id}
<1>0. /\ ~misfreed /\ HeapInv /\ SingleInv /\ InOrder(family, b, value[o], heap)
      /\ \A h \in heap : h.id # 0
  BY DEF OwnersInv, InOrderInv, HeapInv, Block
<1>1. CASE b.id = 0
  BY <1>0, <1>1 DEF SomeOwners!Freeing, Drops
<1>2. CASE b.id # 0 /\ b.type = "shared" /\ SomeOwners!Shares(o) # {}
  <2>1. UNCHANGED <<heap, misfreed>>
    BY <1>2 DEF SomeOwners!Freeing
  <2>2. \E p \in Owners \ {o} : holds[p].id = b.id
    BY <1>2 DEF SomeOwners!Shares
  <2>. QED BY <1>0, <2>1, <2>2 DEF Drops
<1>3. CASE b.id # 0 /\ ~(b.type = "shared" /\ SomeOwners!Shares(o) # {})
  <2>1. /\ heap' = heap \ found
        /\ misfreed' = (misfreed \/ ~\E h \in found : h.size = b.size /\ h.mode = b.mode)
    BY <1>3 DEF SomeOwners!Freeing
  <2>2. \E h \in found : h.size = b.size /\ h.mode = b.mode
    BY <1>0, <1>3 DEF InOrder, Fits
  <2>3. ~misfreed'
    BY <1>0, <2>1, <2>2
  <2>4. ASSUME NEW p \in Owners \ {o} PROVE holds[p].id # b.id
    <3>1. ASSUME holds[p].id = b.id PROVE b.type = "shared" /\ holds[p].type = "shared" /\ p \in SomeOwners!Shares(o)
      <4>1. b.type = "shared" /\ holds[p].type = "shared"
        BY <1>0, <1>3, <3>1 DEF SingleInv
      <4>. QED BY <3>1, <4>1 DEF SomeOwners!Shares, SomeOwners!Is
    <3>. QED BY <1>3, <3>1
  <2>5. \A r \in raw : r.owner.id # b.id
    BY <1>0 DEF SingleInv
  <2>. QED BY <2>1, <2>3, <2>4, <2>5 DEF Drops
<1>. QED BY <1>1, <1>2, <1>3

\* What is left when o has given up its block: the rest is in order, and each block is held by another.
LEMMA OthersStay ==
  ASSUME OwnersInv, NEW o \in Owners, Drops(o), UNCHANGED <<family, next_id>>
  PROVE  /\ HeapInv' /\ ~misfreed'
         /\ \A u \in Owners \ {o} : InOrder(family, holds[u], value[u], heap')
         /\ \A r \in raw : InOrder(family, r.owner, r.value, heap') /\ r.owner.id # 0 /\ r.owner.type # "shared"
         /\ \A h \in heap' : (\E u \in Owners \ {o} : holds[u].id = h.id) \/ (\E r \in raw : r.owner.id = h.id)
<1>1. HeapInv'
  BY DEF OwnersInv, HeapInv, Drops
<1>2. ASSUME NEW u \in Owners \ {o} PROVE InOrder(family, holds[u], value[u], heap')
  <2>1. InOrder(family, holds[u], value[u], heap)
    BY DEF OwnersInv, InOrderInv
  <2>2. \A h \in heap : h.id = holds[u].id => h \in heap'
    BY DEF Drops
  <2>. QED BY <2>1, <2>2, StaysInOrder
<1>3. ASSUME NEW r \in raw PROVE InOrder(family, r.owner, r.value, heap') /\ r.owner.id # 0 /\ r.owner.type # "shared"
  <2>1. InOrder(family, r.owner, r.value, heap) /\ r.owner.id # 0 /\ r.owner.type # "shared"
    BY DEF OwnersInv, InOrderInv
  <2>2. \A h \in heap : h.id = r.owner.id => h \in heap'
    BY DEF Drops
  <2>. QED BY <2>1, <2>2, StaysInOrder
<1>4. \A h \in heap' : (\E u \in Owners \ {o} : holds[u].id = h.id) \/ (\E r \in raw : r.owner.id = h.id)
  BY DEF OwnersInv, HeldInv, Drops
<1>. QED BY <1>1, <1>2, <1>3, <1>4 DEF Drops

LEMMA NothingDrops ==
  ASSUME OwnersInv, UNCHANGED <<family, heap, misfreed, next_id>>
  PROVE  HeapInv' /\ ~misfreed'
BY DEF OwnersInv, HeapInv

\* A holding goes from one place to another.
LEMMA MovesKeep ==
  ASSUME OwnersInv, NEW o \in Owners, NEW p \in Owners, o # p, holds[p].type # "unborn",
         Drops(o), SomeOwners!Move(o, p), UNCHANGED <<family, raw, next_id>>
  PROVE  OwnersInv'
<1> DEFINE empty == SomeOwners!MovedFrom(p)
<1>0. InOrderInv /\ SingleInv
  BY DEF OwnersInv
<1>1. \A u \in Owners : /\ holds'[u] = IF u = p THEN empty ELSE IF u = o THEN holds[p] ELSE holds[u]
                        /\ value'[u] = IF u = p THEN <<>> ELSE IF u = o THEN value[p] ELSE value[u]
  BY <1>0 DEF SomeOwners!Move, InOrderInv
<1>2. holds' = [u \in Owners |-> holds'[u]] /\ value' = [u \in Owners |-> value'[u]]
  BY <1>0 DEF SomeOwners!Move, InOrderInv
<1>3. InOrder(family, empty, <<>>, heap') /\ empty.id = 0
  <2>1. holds[p].type \in TypesIn(family) \ {"unborn"}
    BY <1>0 DEF InOrderInv, InOrder
  <2>. QED BY <2>1, EmptyInOrder DEF SomeOwners!MovedFrom
<1> HIDE DEF empty
<1>4. /\ HeapInv' /\ ~misfreed'
      /\ \A u \in Owners \ {o} : InOrder(family, holds[u], value[u], heap')
      /\ \A r \in raw : InOrder(family, r.owner, r.value, heap') /\ r.owner.id # 0 /\ r.owner.type # "shared"
      /\ \A h \in heap' : (\E u \in Owners \ {o} : holds[u].id = h.id) \/ (\E r \in raw : r.owner.id = h.id)
  BY OthersStay
<1>5. ASSUME NEW u \in Owners PROVE InOrder(family, holds'[u], value'[u], heap')
  <2>1. CASE u = p
    BY <1>1, <1>3, <2>1
  <2>2. CASE u = o
    BY <1>1, <1>4, <2>2
  <2>3. CASE u # o /\ u # p
    BY <1>1, <1>4, <2>3
  <2>. QED BY <2>1, <2>2, <2>3
<1>6. InOrderInv'
  BY <1>2, <1>4, <1>5 DEF InOrderInv
<1>7. SingleInv'
  <2>1. ASSUME NEW u \in Owners, NEW v \in Owners, u # v, holds'[u].id = holds'[v].id, holds'[u].id # 0
        PROVE  holds'[u].type = "shared" /\ holds'[v].type = "shared"
    <3>1. u # p /\ v # p
      BY <1>1, <1>3, <2>1
    <3>. QED BY <1>0, <1>1, <2>1, <3>1 DEF SingleInv
  <2>2. ASSUME NEW u \in Owners, NEW r \in raw PROVE holds'[u].id # r.owner.id
    BY <1>0, <1>1, <1>3, <1>4 DEF SingleInv
  <2>. QED BY <1>0, <2>1, <2>2 DEF SingleInv
<1>8. HeldInv'
  BY <1>1, <1>4 DEF HeldInv
<1>. QED BY <1>4, <1>6, <1>7, <1>8 DEF OwnersInv

\* The place o gives its block up, and holds e from then on: nothing.
LEMMA GivesUp ==
  ASSUME OwnersInv, NEW o \in Owners, NEW e, e.id = 0, \A H : InOrder(family, e, <<>>, H),
         SomeOwners!Freeing(o), UNCHANGED <<family, raw, next_id>>,
         holds' = [holds EXCEPT ![o] = e], value' = [value EXCEPT ![o] = <<>>]
  PROVE  OwnersInv'
<1>0. InOrderInv /\ SingleInv /\ Drops(o) /\ UNCHANGED <<family, raw, next_id>>
  BY FreeingDrops DEF OwnersInv
<1>1. \A u \in Owners : /\ holds'[u] = IF u = o THEN e ELSE holds[u]
                        /\ value'[u] = IF u = o THEN <<>> ELSE value[u]
  BY <1>0 DEF InOrderInv
<1>2. holds' = [u \in Owners |-> holds'[u]] /\ value' = [u \in Owners |-> value'[u]]
  BY <1>0 DEF InOrderInv
<1>3. InOrder(family, e, <<>>, heap')
  OBVIOUS
<1>4. /\ HeapInv' /\ ~misfreed'
      /\ \A u \in Owners \ {o} : InOrder(family, holds[u], value[u], heap')
      /\ \A r \in raw : InOrder(family, r.owner, r.value, heap') /\ r.owner.id # 0 /\ r.owner.type # "shared"
      /\ \A h \in heap' : (\E u \in Owners \ {o} : holds[u].id = h.id) \/ (\E r \in raw : r.owner.id = h.id)
  BY <1>0, OthersStay
<1>5. \A u \in Owners : InOrder(family, holds'[u], value'[u], heap')
  BY <1>1, <1>3, <1>4
<1>6. InOrderInv'
  BY <1>0, <1>2, <1>4, <1>5 DEF InOrderInv
<1>7. SingleInv'
  BY <1>0, <1>1, <1>4 DEF SingleInv
<1>8. HeldInv'
  BY <1>0, <1>1, <1>4 DEF HeldInv
<1>. QED BY <1>4, <1>6, <1>7, <1>8 DEF OwnersInv

LEMMA DestroyKeeps ==
  ASSUME OwnersInv, NEW o \in Owners, SomeOwners!Destroy(o)
  PROVE  OwnersInv'
<1> DEFINE e == SomeOwners!Unborn
<1>1. e.id = 0 /\ \A H : InOrder(family, e, <<>>, H)
  BY DEF InOrder, TypesIn, Holding, SomeOwners!Unborn
<1>2. /\ SomeOwners!Freeing(o) /\ UNCHANGED <<family, raw, next_id>>
      /\ holds' = [holds EXCEPT ![o] = e] /\ value' = [value EXCEPT ![o] = <<>>]
  BY DEF SomeOwners!Destroy
<1> HIDE DEF e
<1>. QED BY <1>1, <1>2, GivesUp

LEMMA ResetKeeps ==
  ASSUME OwnersInv, NEW o \in Owners, SomeOwners!Reset(o)
  PROVE  OwnersInv'
<1> DEFINE e == SomeOwners!MovedFrom(o)
<1>1. holds[o].type \in TypesIn(family) \ {"unborn"}
  BY DEF OwnersInv, InOrderInv, InOrder, SomeOwners!Reset, SomeOwners!Is
<1>2. e.id = 0 /\ \A H : InOrder(family, e, <<>>, H)
  BY <1>1, EmptyInOrder, 0 \in Nat DEF SomeOwners!MovedFrom
<1>3. /\ SomeOwners!Freeing(o) /\ UNCHANGED <<family, raw, next_id>>
      /\ holds' = [holds EXCEPT ![o] = e] /\ value' = [value EXCEPT ![o] = <<>>]
  BY DEF SomeOwners!Reset
<1> HIDE DEF e
<1>. QED BY <1>2, <1>3, GivesUp

\* What the program has goes to an owner, which frees what it held.
LEMMA TakesRaw ==
  ASSUME OwnersInv, NEW o \in Owners, NEW r \in raw, Drops(o), UNCHANGED <<family, next_id>>,
         raw' = raw \ {r}, holds' = [holds EXCEPT ![o] = r.owner], value' = [value EXCEPT ![o] = r.value]
  PROVE  OwnersInv'
<1>0. InOrderInv /\ SingleInv
  BY DEF OwnersInv
<1>1. \A u \in Owners : /\ holds'[u] = IF u = o THEN r.owner ELSE holds[u]
                        /\ value'[u] = IF u = o THEN r.value ELSE value[u]
  BY <1>0 DEF InOrderInv
<1>2. holds' = [u \in Owners |-> holds'[u]] /\ value' = [u \in Owners |-> value'[u]]
  BY <1>0 DEF InOrderInv
<1>4. /\ HeapInv' /\ ~misfreed'
      /\ \A u \in Owners \ {o} : InOrder(family, holds[u], value[u], heap')
      /\ \A s \in raw : InOrder(family, s.owner, s.value, heap') /\ s.owner.id # 0 /\ s.owner.type # "shared"
      /\ \A h \in heap' : (\E u \in Owners \ {o} : holds[u].id = h.id) \/ (\E s \in raw : s.owner.id = h.id)
  BY OthersStay
<1>5. \A u \in Owners : InOrder(family, holds'[u], value'[u], heap')
  BY <1>1, <1>4
<1>6. InOrderInv'
  BY <1>2, <1>4, <1>5 DEF InOrderInv
<1>7. SingleInv'
  <2>1. ASSUME NEW u \in Owners, NEW v \in Owners, u # v, holds'[u].id = holds'[v].id, holds'[u].id # 0
        PROVE  holds'[u].type = "shared" /\ holds'[v].type = "shared"
    <3>1. u # o /\ v # o
      BY <1>0, <1>1, <2>1 DEF SingleInv
    <3>. QED BY <1>0, <1>1, <2>1, <3>1 DEF SingleInv
  <2>2. ASSUME NEW u \in Owners, NEW s \in raw' PROVE holds'[u].id # s.owner.id
    BY <1>0, <1>1 DEF SingleInv
  <2>3. \A s, t \in raw' : s.owner.id = t.owner.id => s = t
    BY <1>0 DEF SingleInv
  <2>. QED BY <2>1, <2>2, <2>3 DEF SingleInv
<1>8. HeldInv'
  <2>1. ASSUME NEW h \in heap' PROVE (\E u \in Owners : holds'[u].id = h.id) \/ (\E s \in raw' : s.owner.id = h.id)
    <3>1. CASE \E u \in Owners \ {o} : holds[u].id = h.id
      BY <1>1, <3>1
    <3>2. CASE \E s \in raw : s.owner.id = h.id
      BY <1>1, <3>2
    <3>. QED BY <1>4, <3>1, <3>2
  <2>. QED BY <2>1 DEF HeldInv
<1>. QED BY <1>4, <1>6, <1>7, <1>8 DEF OwnersInv

LEMMA ReleaseKeeps ==
  ASSUME OwnersInv, NEW o \in Owners, SomeOwners!Release(o), holds[o].type # "shared"
  PROVE  OwnersInv'
<1> DEFINE r == [owner |-> holds[o], value |-> value[o]]
           empty == SomeOwners!MovedFrom(o)
<1>0. /\ InOrderInv /\ SingleInv /\ HeldInv /\ holds[o].id # 0 /\ SomeOwners!Exists(o)
      /\ raw' = raw \cup {r} /\ UNCHANGED <<family, heap, misfreed, next_id>>
  BY DEF OwnersInv, SomeOwners!Release
<1>1. \A u \in Owners : /\ holds'[u] = IF u = o THEN empty ELSE holds[u]
                        /\ value'[u] = IF u = o THEN <<>> ELSE value[u]
  BY <1>0 DEF SomeOwners!Release, InOrderInv
<1>2. holds' = [u \in Owners |-> holds'[u]] /\ value' = [u \in Owners |-> value'[u]]
  BY <1>0 DEF SomeOwners!Release, InOrderInv
<1>3. InOrder(family, empty, <<>>, heap) /\ empty.id = 0
  <2>1. holds[o].type \in TypesIn(family) \ {"unborn"}
    BY <1>0 DEF InOrderInv, InOrder, SomeOwners!Exists
  <2>. QED BY <2>1, EmptyInOrder DEF SomeOwners!MovedFrom
<1>4. r.owner = holds[o] /\ r.value = value[o]
  OBVIOUS
<1> HIDE DEF r, empty
<1>5. HeapInv' /\ ~misfreed'
  BY <1>0, NothingDrops
<1>6. InOrderInv'
  <2>1. \A u \in Owners : InOrder(family', holds'[u], value'[u], heap')
    BY <1>0, <1>1, <1>3 DEF InOrderInv
  <2>2. \A s \in raw' : InOrder(family', s.owner, s.value, heap') /\ s.owner.id # 0 /\ s.owner.type # "shared"
    BY <1>0, <1>4 DEF InOrderInv
  <2>. QED BY <1>2, <2>1, <2>2 DEF InOrderInv
<1>7. SingleInv'
  <2>1. \A u, v \in Owners : u # v /\ holds'[u].id = holds'[v].id /\ holds'[u].id # 0
                               => holds'[u].type = "shared" /\ holds'[v].type = "shared"
    BY <1>0, <1>1, <1>3 DEF SingleInv
  <2>2. ASSUME NEW u \in Owners, NEW s \in raw' PROVE holds'[u].id # s.owner.id
    <3>1. s.owner.id # 0
      BY <1>0, <1>4 DEF InOrderInv
    <3>2. CASE u = o
      BY <1>1, <1>3, <3>1, <3>2
    <3>3. CASE u # o /\ s = r
      BY <1>0, <1>1, <1>4, <3>3 DEF SingleInv
    <3>4. CASE u # o /\ s \in raw
      BY <1>0, <1>1, <3>4 DEF SingleInv
    <3>. QED BY <1>0, <3>2, <3>3, <3>4
  <2>3. \A s, t \in raw' : s.owner.id = t.owner.id => s = t
    BY <1>0, <1>4 DEF SingleInv
  <2>. QED BY <2>1, <2>2, <2>3 DEF SingleInv
<1>8. HeldInv'
  <2>1. ASSUME NEW h \in heap' PROVE (\E u \in Owners : holds'[u].id = h.id) \/ (\E s \in raw' : s.owner.id = h.id)
    <3>1. CASE holds[o].id = h.id
      BY <1>0, <1>4, <3>1
    <3>2. CASE holds[o].id # h.id
      BY <1>0, <1>1, <3>2 DEF HeldInv
    <3>. QED BY <3>1, <3>2
  <2>. QED BY <2>1 DEF HeldInv
<1>. QED BY <1>5, <1>6, <1>7, <1>8 DEF OwnersInv

\* The heap stays, and each owner that holds something took it from one place, which it left unless both are Shareds.
LEMMA HandsOver ==
  ASSUME OwnersInv, UNCHANGED <<family, heap, raw, misfreed, next_id>>,
         holds' = [u \in Owners |-> holds'[u]], value' = [u \in Owners |-> value'[u]],
         \A u \in Owners : /\ InOrder(family, holds'[u], value'[u], heap)
                           /\ holds'[u].id # 0 => \E p \in Owners : holds'[u].id = holds[p].id,
         \A u, v \in Owners : u # v /\ holds'[u].id = holds'[v].id /\ holds'[u].id # 0
                                => holds'[u].type = "shared" /\ holds'[v].type = "shared",
         \A p \in Owners : holds[p].id # 0 => \E u \in Owners : holds'[u].id = holds[p].id
  PROVE  OwnersInv'
<1>0. InOrderInv /\ SingleInv /\ HeldInv /\ HeapInv
  BY DEF OwnersInv
<1>1. HeapInv' /\ ~misfreed'
  BY NothingDrops
<1>2. InOrderInv'
  BY <1>0 DEF InOrderInv
<1>3. SingleInv'
  <2>1. ASSUME NEW u \in Owners, NEW r \in raw PROVE holds'[u].id # r.owner.id
    <3>1. r.owner.id # 0
      BY <1>0 DEF InOrderInv
    <3>. QED BY <1>0, <3>1 DEF SingleInv
  <2>. QED BY <1>0, <2>1 DEF SingleInv
<1>4. HeldInv'
  BY <1>0 DEF HeldInv, HeapInv, Block
<1>. QED BY <1>1, <1>2, <1>3, <1>4 DEF OwnersInv

LEMMA ExchangeKeeps ==
  ASSUME OwnersInv, NEW q \in Owners, NEW o \in Owners, NEW p \in Owners, SomeOwners!Exchange(q, o, p)
  PROVE  OwnersInv'
<1> DEFINE emptyO == SomeOwners!MovedFrom(o)
           emptyP == SomeOwners!MovedFrom(p)
<1>0. /\ InOrderInv /\ SingleInv /\ UNCHANGED <<family, heap, raw, misfreed, next_id>>
      /\ holds[q] = SomeOwners!Unborn /\ holds[o] # SomeOwners!Unborn /\ holds[p].type = holds[o].type
  BY DEF OwnersInv, SomeOwners!Exchange, SomeOwners!Exists, SomeOwners!Is
<1>1. InOrder(family, holds[o], value[o], heap) /\ InOrder(family, holds[p], value[p], heap)
  BY <1>0 DEF InOrderInv
<1>2. q # o /\ q # p /\ holds[o].type # "unborn" /\ holds[q].id = 0
  BY <1>0, <1>1 DEF InOrder, SomeOwners!Unborn
<1>3. InOrder(family, emptyO, <<>>, heap) /\ emptyO.id = 0 /\ InOrder(family, emptyP, <<>>, heap) /\ emptyP.id = 0
  <2>1. holds[o].type \in TypesIn(family) \ {"unborn"} /\ holds[p].type \in TypesIn(family) \ {"unborn"}
    BY <1>0, <1>1, <1>2 DEF InOrder
  <2>. QED BY <2>1, EmptyInOrder DEF SomeOwners!MovedFrom
<1>4. holds' = [u \in Owners |-> holds'[u]] /\ value' = [u \in Owners |-> value'[u]]
  BY <1>0 DEF SomeOwners!Exchange, InOrderInv
<1>5. CASE o = p
  <2>1. \A u \in Owners : /\ holds'[u] = IF u = o THEN emptyO ELSE IF u = q THEN holds[o] ELSE holds[u]
                          /\ value'[u] = IF u = o THEN <<>> ELSE IF u = q THEN value[o] ELSE value[u]
    BY <1>0, <1>2, <1>5 DEF SomeOwners!Exchange, InOrderInv
  <2> HIDE DEF emptyO, emptyP
  <2>2. \A u \in Owners : /\ InOrder(family, holds'[u], value'[u], heap)
                          /\ holds'[u].id # 0 => \E s \in Owners : holds'[u].id = holds[s].id
    BY <1>0, <1>1, <1>3, <2>1 DEF InOrderInv
  <2>3. \A u, v \in Owners : u # v /\ holds'[u].id = holds'[v].id /\ holds'[u].id # 0
                               => holds'[u].type = "shared" /\ holds'[v].type = "shared"
    BY <1>0, <1>2, <1>3, <2>1 DEF SingleInv
  <2>4. \A s \in Owners : holds[s].id # 0 => \E u \in Owners : holds'[u].id = holds[s].id
    BY <1>2, <1>3, <2>1
  <2>. QED BY <1>0, <1>4, <2>2, <2>3, <2>4, HandsOver
<1>6. CASE o # p
  <2>1. \A u \in Owners : /\ holds'[u] = IF u = o THEN holds[p] ELSE IF u = p THEN emptyP ELSE IF u = q THEN holds[o] ELSE holds[u]
                          /\ value'[u] = IF u = o THEN value[p] ELSE IF u = p THEN <<>> ELSE IF u = q THEN value[o] ELSE value[u]
    BY <1>0, <1>2, <1>6 DEF SomeOwners!Exchange, InOrderInv
  <2> HIDE DEF emptyO, emptyP
  <2>2. \A u \in Owners : /\ InOrder(family, holds'[u], value'[u], heap)
                          /\ holds'[u].id # 0 => \E s \in Owners : holds'[u].id = holds[s].id
    BY <1>0, <1>1, <1>3, <2>1 DEF InOrderInv
  <2>3. \A u, v \in Owners : u # v /\ holds'[u].id = holds'[v].id /\ holds'[u].id # 0
                               => holds'[u].type = "shared" /\ holds'[v].type = "shared"
    BY <1>0, <1>2, <1>3, <1>6, <2>1 DEF SingleInv
  <2>4. \A s \in Owners : holds[s].id # 0 => \E u \in Owners : holds'[u].id = holds[s].id
    BY <1>2, <1>3, <1>6, <2>1
  <2>. QED BY <1>0, <1>4, <2>2, <2>3, <2>4, HandsOver
<1>. QED BY <1>5, <1>6

LEMMA ShareKeeps ==
  ASSUME OwnersInv, family = "box", NEW o \in Owners, NEW p \in Owners, SomeOwners!Share(o, p)
  PROVE  OwnersInv'
<1> DEFINE empty == SomeOwners!MovedFrom(p)
           share == [holds[p] EXCEPT !.type = "shared"]
<1>0. /\ InOrderInv /\ SingleInv /\ UNCHANGED <<family, heap, raw, misfreed, next_id>>
      /\ holds[o] = SomeOwners!Unborn /\ holds[p].type = "box"
  BY DEF OwnersInv, SomeOwners!Share, SomeOwners!Exists, SomeOwners!Is
<1>1. InOrder(family, holds[p], value[p], heap)
  BY <1>0 DEF InOrderInv
<1>2. o # p /\ holds[o].id = 0
  BY <1>0 DEF SomeOwners!Unborn
<1>3. InOrder(family, empty, <<>>, heap) /\ empty.id = 0
  <2>1. holds[p].type \in TypesIn(family) \ {"unborn"}
    BY <1>0, <1>1 DEF InOrder
  <2>. QED BY <2>1, EmptyInOrder DEF SomeOwners!MovedFrom
<1>4. InOrder(family, share, value[p], heap) /\ share.id = holds[p].id /\ share.type = "shared"
  <2>1. /\ share \in Holding /\ share.type = "shared" /\ share.id = holds[p].id /\ share.size = holds[p].size
        /\ share.mode = holds[p].mode
    BY <1>1 DEF InOrder, Holding
  <2> HIDE DEF share
  <2>2. "shared" \in TypesIn(family)
    BY DEF TypesIn
  <2>. QED BY <1>1, <2>1, <2>2 DEF InOrder, Fits
<1>5. holds' = [u \in Owners |-> holds'[u]] /\ value' = [u \in Owners |-> value'[u]]
  BY <1>0 DEF SomeOwners!Share, InOrderInv
<1>6. \A u \in Owners : /\ holds'[u] = IF u = p THEN empty ELSE IF u = o THEN share ELSE holds[u]
                        /\ value'[u] = IF u = p THEN <<>> ELSE IF u = o THEN value[p] ELSE value[u]
  BY <1>0, <1>2 DEF SomeOwners!Share, InOrderInv
<1> HIDE DEF empty, share
<1>7. \A u \in Owners : /\ InOrder(family, holds'[u], value'[u], heap)
                        /\ holds'[u].id # 0 => \E s \in Owners : holds'[u].id = holds[s].id
  BY <1>0, <1>3, <1>4, <1>6 DEF InOrderInv
<1>8. \A u, v \in Owners : u # v /\ holds'[u].id = holds'[v].id /\ holds'[u].id # 0
                             => holds'[u].type = "shared" /\ holds'[v].type = "shared"
  BY <1>0, <1>2, <1>3, <1>4, <1>6 DEF SingleInv
<1>9. \A s \in Owners : holds[s].id # 0 => \E u \in Owners : holds'[u].id = holds[s].id
  BY <1>2, <1>3, <1>4, <1>6
<1>. QED BY <1>0, <1>5, <1>7, <1>8, <1>9, HandsOver

LEMMA CopySharedKeeps ==
  ASSUME OwnersInv, NEW o \in Owners, NEW p \in Owners, SomeOwners!CopyShared(o, p)
  PROVE  OwnersInv'
<1>0. /\ InOrderInv /\ SingleInv /\ UNCHANGED <<family, heap, raw, misfreed, next_id>>
      /\ holds[o] = SomeOwners!Unborn /\ holds[p].type = "shared"
  BY DEF OwnersInv, SomeOwners!CopyShared, SomeOwners!Exists, SomeOwners!Is
<1>2. o # p /\ holds[o].id = 0
  BY <1>0 DEF SomeOwners!Unborn
<1>3. holds' = [u \in Owners |-> holds'[u]] /\ value' = [u \in Owners |-> value'[u]]
  BY <1>0 DEF SomeOwners!CopyShared, InOrderInv
<1>4. \A u \in Owners : /\ holds'[u] = IF u = o THEN holds[p] ELSE holds[u]
                        /\ value'[u] = IF u = o THEN value[p] ELSE value[u]
  BY <1>0 DEF SomeOwners!CopyShared, InOrderInv
<1>5. \A u \in Owners : /\ InOrder(family, holds'[u], value'[u], heap)
                        /\ holds'[u].id # 0 => \E s \in Owners : holds'[u].id = holds[s].id
  BY <1>0, <1>4 DEF InOrderInv
<1>6. \A u, v \in Owners : u # v /\ holds'[u].id = holds'[v].id /\ holds'[u].id # 0
                             => holds'[u].type = "shared" /\ holds'[v].type = "shared"
  BY <1>0, <1>2, <1>4 DEF SingleInv
<1>7. \A s \in Owners : holds[s].id # 0 => \E u \in Owners : holds'[u].id = holds[s].id
  BY <1>2, <1>4
<1>. QED BY <1>0, <1>3, <1>5, <1>6, <1>7, HandsOver

\* A new owner with a block of its own, or without one; an aligned block is whole.
LEMMA CreateKeeps ==
  ASSUME OwnersInv, NEW o \in Owners, NEW type \in TypesIn(family) \ {"unborn"}, NEW mode \in Nat, NEW data \in Seq(Int),
         type = "aligned" /\ data # <<>> => mode # 0 /\ Len(data) % mode = 0,
         SomeOwners!Create(o, type, mode, data)
  PROVE  OwnersInv'
<1>0. /\ InOrderInv /\ SingleInv /\ HeldInv /\ HeapInv /\ ~misfreed
      /\ holds[o] = SomeOwners!Unborn /\ UNCHANGED <<family, raw, misfreed>> /\ value' = [value EXCEPT ![o] = data]
  BY DEF OwnersInv, SomeOwners!Create, SomeOwners!Exists
<1>1. holds[o].id = 0 /\ value' = [u \in Owners |-> value'[u]]
      /\ \A u \in Owners : value'[u] = IF u = o THEN data ELSE value[u]
  BY <1>0 DEF SomeOwners!Unborn, InOrderInv
<1>2. CASE data = <<>>
  <2> DEFINE m == IF type = "device" THEN 0 ELSE mode
             empty == SomeOwners!Empty(type, m)
  <2>1. InOrder(family, empty, <<>>, heap) /\ empty.id = 0
    BY EmptyInOrder
  <2>2. holds' = [holds EXCEPT ![o] = empty] /\ UNCHANGED <<heap, next_id>>
    BY <1>2 DEF SomeOwners!Create
  <2> HIDE DEF empty
  <2>3. \A u \in Owners : holds'[u] = IF u = o THEN empty ELSE holds[u]
    BY <1>0, <2>2 DEF InOrderInv
  <2>4. holds' = [u \in Owners |-> holds'[u]]
    BY <1>0, <2>2 DEF InOrderInv
  <2>5. \A u \in Owners : /\ InOrder(family, holds'[u], value'[u], heap)
                          /\ holds'[u].id # 0 => \E s \in Owners : holds'[u].id = holds[s].id
    BY <1>0, <1>1, <1>2, <2>1, <2>3 DEF InOrderInv
  <2>6. \A u, v \in Owners : u # v /\ holds'[u].id = holds'[v].id /\ holds'[u].id # 0
                               => holds'[u].type = "shared" /\ holds'[v].type = "shared"
    BY <1>0, <2>1, <2>3 DEF SingleInv
  <2>7. \A s \in Owners : holds[s].id # 0 => \E u \in Owners : holds'[u].id = holds[s].id
    BY <1>1, <2>3
  <2>. QED BY <1>0, <1>1, <2>2, <2>4, <2>5, <2>6, <2>7, HandsOver
<1>3. CASE data # <<>>
  <2> DEFINE l == Len(data)
             b == [type |-> type, id |-> next_id, size |-> l, mode |-> mode]
             k == [id |-> next_id, size |-> l, mode |-> mode, data |-> data]
  <2>1. holds' = [holds EXCEPT ![o] = b] /\ heap' = heap \cup {k} /\ next_id' = next_id + 1
    BY <1>3 DEF SomeOwners!Create
  <2>2. next_id \in Nat \ {0} /\ l \in Nat
    BY <1>0 DEF HeapInv
  <2>3. type \in {"buffer", "aligned", "box", "shared", "host", "device"}
    BY DEF TypesIn
  <2>4. /\ b \in Holding /\ b.type = type /\ b.id = next_id /\ b.size = l /\ b.mode = mode
        /\ k \in Block /\ k.id = next_id /\ k.size = l /\ k.mode = mode /\ k.data = data
    BY <2>2, <2>3 DEF Holding, Block
  <2> HIDE DEF b, k
  <2>5. InOrder(family, b, data, heap')
    <3>1. Fits(k, b, data) /\ k \in heap'
      BY <2>1, <2>4 DEF Fits
    <3>2. type = "aligned" => mode # 0 /\ b.size % b.mode = 0
      BY <1>3, <2>4
    <3>. QED BY <2>2, <2>3, <2>4, <3>1, <3>2 DEF InOrder
  <2>6. \A u \in Owners : holds'[u] = IF u = o THEN b ELSE holds[u]
    BY <1>0, <2>1 DEF InOrderInv
  <2>7. holds' = [u \in Owners |-> holds'[u]]
    BY <1>0, <2>1 DEF InOrderInv
  <2>8. HeapInv'
    BY <1>0, <2>1, <2>2, <2>4 DEF HeapInv, Block
  <2>9. \A u \in Owners : InOrder(family, holds[u], value[u], heap')
    BY <1>0, <2>1, StaysInOrder DEF InOrderInv
  <2>10. \A r \in raw : InOrder(family, r.owner, r.value, heap') /\ r.owner.id # 0 /\ r.owner.type # "shared"
    BY <1>0, <2>1, StaysInOrder DEF InOrderInv
  <2>11. InOrderInv'
    BY <1>0, <1>1, <2>5, <2>6, <2>7, <2>9, <2>10 DEF InOrderInv
  <2>12. (\A u \in Owners : holds[u].id # next_id) /\ (\A r \in raw : r.owner.id # next_id)
    <3>1. \A h \in heap : h.id # next_id
      BY <1>0, <2>2 DEF HeapInv, Block
    <3>2. ASSUME NEW u \in Owners PROVE holds[u].id # next_id
      <4>1. holds[u].id # 0 => \E h \in heap : h.id = holds[u].id
        BY <1>0 DEF InOrderInv, InOrder, Fits
      <4>. QED BY <2>2, <3>1, <4>1
    <3>3. ASSUME NEW r \in raw PROVE r.owner.id # next_id
      <4>1. r.owner.id # 0 /\ InOrder(family, r.owner, r.value, heap)
        BY <1>0 DEF InOrderInv
      <4>2. \E h \in heap : h.id = r.owner.id
        BY <4>1 DEF InOrder, Fits
      <4>. QED BY <3>1, <4>2
    <3>. QED BY <3>2, <3>3
  <2>13. SingleInv'
    BY SMTT(30), <1>0, <2>4, <2>6, <2>12 DEF SingleInv
  <2>14. HeldInv'
    <3>1. ASSUME NEW h \in heap' PROVE (\E u \in Owners : holds'[u].id = h.id) \/ (\E r \in raw : r.owner.id = h.id)
      <4>1. CASE h = k
        BY <2>4, <2>6, <4>1
      <4>2. CASE h \in heap
        <5>1. h.id # 0
          BY <1>0, <4>2 DEF HeapInv, Block
        <5>. QED BY <1>0, <1>1, <2>6, <4>2, <5>1 DEF HeldInv
      <4>. QED BY <2>1, <4>1, <4>2
    <3>. QED BY <1>0, <3>1 DEF HeldInv
  <2>. QED BY <1>0, <2>8, <2>11, <2>13, <2>14 DEF OwnersInv
<1>. QED BY <1>2, <1>3

\* The elements of a block change, for all owners that hold it.
LEMMA StoreKeeps ==
  ASSUME OwnersInv, NEW o \in Owners, NEW data \in Seq(Int), Len(data) = holds[o].size, SomeOwners!Store(o, data)
  PROVE  OwnersInv'
<1> DEFINE New(h) == IF h.id = holds[o].id THEN [h EXCEPT !.data = data] ELSE h
<1>0. /\ InOrderInv /\ SingleInv /\ HeldInv /\ HeapInv /\ ~misfreed
      /\ UNCHANGED <<family, holds, raw, misfreed, next_id>>
      /\ value' = [u \in Owners |-> IF u \in SomeOwners!Seers(o) THEN data ELSE value[u]]
      /\ heap' = {New(h) : h \in heap}
  BY DEF OwnersInv, SomeOwners!Store
<1>1. \A h \in heap : /\ New(h) \in Block /\ New(h).id = h.id /\ New(h).size = h.size /\ New(h).mode = h.mode
                      /\ New(h).data = IF h.id = holds[o].id THEN data ELSE h.data
  BY <1>0 DEF HeapInv, Block
<1>2. \A h \in heap : h.id # holds[o].id => New(h) = h
  OBVIOUS
<1>3. \A u \in Owners : value'[u] = IF u \in SomeOwners!Seers(o) THEN data ELSE value[u]
  BY <1>0
<1>4. value' = [u \in Owners |-> value'[u]]
  BY <1>0
<1>5. \A u \in Owners : InOrder(family, holds[u], value[u], heap)
  BY <1>0 DEF InOrderInv
<1> HIDE DEF New
<1>6. HeapInv'
  BY <1>0, <1>1 DEF HeapInv
<1>7. ASSUME NEW u \in SomeOwners!Seers(o) PROVE u \in Owners /\ InOrder(family, holds[u], data, heap')
  <2>0. u \in Owners /\ holds[u].id = holds[o].id
    BY <1>7 DEF SomeOwners!Seers, SomeOwners!Shares
  <2>1. CASE holds[o].id = 0
    <3>1. data = <<>>
      BY <1>5, <2>1 DEF InOrder
    <3>. QED BY <1>5, <2>0, <2>1, <3>1 DEF InOrder
  <2>2. CASE holds[o].id # 0
    <3>1. PICK h \in heap : Fits(h, holds[u], value[u])
      BY <1>5, <2>0, <2>2 DEF InOrder
    <3>2. PICK k \in heap : Fits(k, holds[o], value[o])
      BY <1>5, <2>2 DEF InOrder
    <3>3. k = h
      BY <1>0, <2>0, <3>1, <3>2 DEF HeapInv, Fits
    <3>4. New(h) \in heap' /\ Fits(New(h), holds[u], data)
      BY <1>0, <1>1, <2>0, <3>1, <3>2, <3>3 DEF Fits
    <3>. QED BY <1>5, <2>0, <2>2, <3>4 DEF InOrder
  <2>. QED BY <2>0, <2>1, <2>2
<1>8. \A h \in heap : h.id # holds[o].id => h \in heap'
  BY <1>0, <1>2
<1>9. ASSUME NEW u \in Owners, u \notin SomeOwners!Seers(o) PROVE InOrder(family, holds[u], value[u], heap')
  <2>1. holds[u].id # holds[o].id \/ holds[u].id = 0
    <3>1. u # o
      BY <1>9 DEF SomeOwners!Seers
    <3>2. ASSUME holds[u].id = holds[o].id, holds[u].id # 0 PROVE FALSE
      <4>1. holds[u].type = "shared" /\ holds[o].type = "shared"
        BY <1>0, <3>1, <3>2 DEF SingleInv
      <4>. QED BY <1>9, <3>1, <3>2, <4>1 DEF SomeOwners!Seers, SomeOwners!Shares, SomeOwners!Is
    <3>. QED BY <3>2
  <2>2. \A h \in heap : h.id # 0
    BY <1>0 DEF HeapInv, Block
  <2>. QED BY <1>5, <1>8, <2>1, <2>2, StaysInOrder
<1>10. ASSUME NEW r \in raw PROVE InOrder(family, r.owner, r.value, heap') /\ r.owner.id # 0 /\ r.owner.type # "shared"
  <2>1. InOrder(family, r.owner, r.value, heap) /\ r.owner.id # 0 /\ r.owner.type # "shared"
    BY <1>0 DEF InOrderInv
  <2>2. r.owner.id # holds[o].id
    BY <1>0 DEF SingleInv
  <2>. QED BY <1>8, <2>1, <2>2, StaysInOrder
<1>11. \A u \in Owners : InOrder(family, holds[u], value'[u], heap')
  BY <1>3, <1>7, <1>9
<1>12. InOrderInv'
  BY <1>0, <1>4, <1>10, <1>11 DEF InOrderInv
<1>13. SingleInv' /\ HeldInv'
  BY <1>0, <1>1 DEF SingleInv, HeldInv
<1>. QED BY <1>0, <1>6, <1>12, <1>13 DEF OwnersInv

\* What is put into blocks.
LEMMA RepeatedIs ==
  ASSUME NEW v \in Int, NEW m \in Nat
  PROVE  SomeOwners!Repeated(v, m) \in Seq(Int) /\ Len(SomeOwners!Repeated(v, m)) = m
BY DEF SomeOwners!Repeated

LEMMA PrefixIs ==
  ASSUME NEW v \in Seq(Int), NEW m \in Nat, m <= Len(v)
  PROVE  SubSeq(v, 1, m) \in Seq(Int) /\ Len(SubSeq(v, 1, m)) = m
<1> DEFINE front == SubSeq(v, 1, m)
<1>1. 1 \in Int /\ m \in Int /\ \A i \in 1 .. m : v[i] \in Int
  OBVIOUS
<1>2. front \in Seq(Int) /\ Len(front) = IF 1 <= m THEN m - 1 + 1 ELSE 0
  BY <1>1, SubSeqProperties
<1> HIDE DEF front
<1>3. Len(front) = m
  BY <1>2
<1>. QED BY <1>2, <1>3 DEF front

LEMMA OverIs ==
  ASSUME NEW data \in Seq(Int), NEW new \in Seq(Int), Len(new) <= Len(data)
  PROVE  SomeOwners!Over(data, new) \in Seq(Int) /\ Len(SomeOwners!Over(data, new)) = Len(data)
<1> DEFINE rest == SubSeq(data, Len(new) + 1, Len(data))
<1>1. /\ Len(new) + 1 \in Int /\ Len(data) \in Int /\ Len(new) \in Nat /\ Len(data) \in Nat
      /\ \A i \in Len(new) + 1 .. Len(data) : data[i] \in Int
  OBVIOUS
<1>2. rest \in Seq(Int) /\ Len(rest) = IF Len(new) + 1 <= Len(data) THEN Len(data) - (Len(new) + 1) + 1 ELSE 0
  BY <1>1, SubSeqProperties
<1>3. SomeOwners!Over(data, new) = new \o rest
  BY DEF SomeOwners!Over
<1> HIDE DEF rest
<1>4. new \o rest \in Seq(Int) /\ Len(new \o rest) = Len(new) + Len(rest)
  BY <1>2, ConcatProperties
<1>. QED BY <1>1, <1>2, <1>3, <1>4

LEMMA RoundedIs ==
  ASSUME NEW m \in Nat, NEW align \in Nat, align # 0
  PROVE  SomeOwners!Rounded(m, align) \in Nat /\ SomeOwners!Rounded(m, align) % align = 0
<1> DEFINE wrapped == (m + align - 1) % (SizeMax + 1)
           q == wrapped \div align
<1>1. wrapped \in Nat
  <2>1. SizeMax + 1 \in Nat \ {0} /\ m + align - 1 \in Nat
    BY ComponentsAssumption DEF ComponentsAssumption
  <2>. QED BY <2>1
<1> HIDE DEF wrapped
<1>2. q \in Nat
  BY <1>1, DivisionBounds
<1>3. SomeOwners!Rounded(m, align) = q * align
  BY DEF SomeOwners!Rounded, wrapped
<1> HIDE DEF q
<1>4. q * align \in Nat /\ (q * align) % align = 0
  BY <1>2
<1>. QED BY <1>3, <1>4

LEMMA TypesKnown ==
  ASSUME OwnersInv, NEW o \in Owners
  PROVE  /\ holds[o].type \in TypesIn(family) /\ holds[o].mode \in Nat
         /\ SomeOwners!Exists(o) <=> holds[o].type # "unborn"
         /\ family # "box" => holds[o].type # "shared"
         /\ holds[o].type = "aligned" => IF holds[o].mode = 0 THEN holds[o].id = 0 ELSE holds[o].size % holds[o].mode = 0
         /\ holds[o].id = 0 => value[o] = <<>>
<1>1. InOrder(family, holds[o], value[o], heap)
  BY DEF OwnersInv, InOrderInv
<1>2. family # "box" => "shared" \notin TypesIn(family)
  BY DEF TypesIn
<1>. QED BY <1>1, <1>2 DEF InOrder, Holding, SomeOwners!Exists, SomeOwners!Unborn

LEMMA AdoptKeeps ==
  ASSUME OwnersInv, NEW o \in Owners, NEW r \in raw, SomeOwners!Adopt(o, r)
  PROVE  OwnersInv'
BY UnbornDrops, TakesRaw DEF SomeOwners!Adopt

LEMMA BufferKeeps ==
  ASSUME OwnersInv, family = "buffer", NEW o \in Owners,
         \/ SomeOwners!NewBuffer(o)
         \/ \E p \in Owners : SomeOwners!BetweenBuffers(o, p)
  PROVE  OwnersInv'
<1>0. "buffer" \in TypesIn(family) \ {"unborn"} /\ 0 \in Nat
  BY DEF TypesIn
<1>1. ASSUME NEW data \in Seq(Int), SomeOwners!Create(o, "buffer", 0, data) PROVE OwnersInv'
  BY <1>0, <1>1, CreateKeeps
<1>2. ASSUME NEW m \in Sizes, SomeOwners!Alloc(o, m) \/ SomeOwners!Zeros(o, m) PROVE OwnersInv'
  <2>1. m \in Nat /\ Junk \in Int /\ 0 \in Int
    BY ComponentsAssumption DEF ComponentsAssumption
  <2>. QED BY <1>1, <1>2, <2>1, RepeatedIs DEF SomeOwners!Alloc, SomeOwners!Zeros
<1>3. ASSUME NEW m \in Sizes, SomeOwners!WithBuffer(m) PROVE OwnersInv'
  <2>1. next_id' = next_id + 1 /\ UNCHANGED <<family, holds, heap, raw, misfreed, value>>
    BY <1>3 DEF SomeOwners!WithBuffer
  <2>2. ~misfreed' /\ HeapInv'
    <3>1. next_id \in Nat \ {0} /\ \A h \in heap : h.id \in Nat /\ h.id < next_id
      BY DEF OwnersInv, HeapInv, Block
    <3>2. next_id' \in Nat \ {0} /\ \A h \in heap' : h.id < next_id'
      BY <2>1, <3>1
    <3>. QED BY <2>1, <3>2 DEF OwnersInv, HeapInv
  <2>3. InOrderInv'
    BY <2>1 DEF OwnersInv, InOrderInv
  <2>4. SingleInv' /\ HeldInv'
    BY <2>1 DEF OwnersInv, SingleInv, HeldInv
  <2>. QED BY <2>2, <2>3, <2>4 DEF OwnersInv
<1>4. ASSUME NEW init \in Contents, SomeOwners!From(o, init) PROVE OwnersInv'
  <2>1. init \in Seq(Int)
    BY ComponentsAssumption DEF ComponentsAssumption
  <2>. QED BY <1>1, <1>4, <2>1 DEF SomeOwners!From
<1>5. ASSUME SomeOwners!Release(o) PROVE OwnersInv'
  BY <1>5, TypesKnown, ReleaseKeeps
<1>6. ASSUME NEW r \in raw, SomeOwners!Adopt(o, r) PROVE OwnersInv'
  BY <1>6, AdoptKeeps
<1>7. ASSUME NEW p \in Owners, SomeOwners!CopyOf(o, p) PROVE OwnersInv'
  BY <1>1, <1>7, SeenIsValue DEF SomeOwners!CopyOf
<1>8. ASSUME NEW p \in Owners, SomeOwners!CopyInto(o, p) PROVE OwnersInv'
  <2>1. /\ SomeOwners!Seen(o) \in Seq(Int) /\ Len(SomeOwners!Seen(o)) = holds[o].size
        /\ SomeOwners!Seen(p) \in Seq(Int) /\ Len(SomeOwners!Seen(p)) = holds[p].size
        /\ holds[o].size \in Nat /\ holds[p].size \in Nat /\ holds[p].size <= holds[o].size
    BY <1>8, SeenIsValue DEF SomeOwners!CopyInto
  <2> DEFINE data == SomeOwners!Over(SomeOwners!Seen(o), SomeOwners!Seen(p))
  <2>2. data \in Seq(Int) /\ Len(data) = holds[o].size
    BY <2>1, OverIs
  <2>3. SomeOwners!Store(o, data)
    BY <1>8 DEF SomeOwners!CopyInto
  <2> HIDE DEF data
  <2>. QED BY <2>2, <2>3, StoreKeeps
<1>9. ASSUME NEW p \in Owners, NEW m \in Sizes, SomeOwners!Resized(o, p, m) PROVE OwnersInv'
  <2>1. m \in Nat /\ Junk \in Int
    BY ComponentsAssumption DEF ComponentsAssumption
  <2> DEFINE fresh == SomeOwners!Repeated(Junk, m)
             least == SomeOwners!Least(holds[p].size, m)
             kept  == SubSeq(SomeOwners!Seen(p), 1, least)
  <2>2. SomeOwners!Seen(p) \in Seq(Int) /\ Len(SomeOwners!Seen(p)) = holds[p].size /\ holds[p].size \in Nat
    BY SeenIsValue
  <2>3. fresh \in Seq(Int) /\ Len(fresh) = m
    BY <2>1, RepeatedIs
  <2>4. least \in Nat /\ least <= holds[p].size /\ least <= m
    BY <2>1, <2>2 DEF SomeOwners!Least
  <2> HIDE DEF least
  <2>5. kept \in Seq(Int) /\ Len(kept) = least
    BY <2>2, <2>4, PrefixIs
  <2>6. SomeOwners!Create(o, "buffer", 0, SomeOwners!Over(fresh, kept))
    BY <1>9 DEF SomeOwners!Resized, least
  <2> HIDE DEF fresh, kept
  <2>7. SomeOwners!Over(fresh, kept) \in Seq(Int)
    BY <2>3, <2>4, <2>5, OverIs
  <2>. QED BY <1>1, <2>6, <2>7
<1>. QED BY <1>2, <1>3, <1>4, <1>5, <1>6, <1>7, <1>8, <1>9 DEF SomeOwners!NewBuffer, SomeOwners!BetweenBuffers

LEMMA AlignedKeeps ==
  ASSUME OwnersInv, family = "aligned", NEW o \in Owners,
         \/ \E m \in Sizes, align \in Alignments : SomeOwners!AllocAligned(o, m, align)
         \/ \E p \in Owners : SomeOwners!CloneAligned(o, p)
  PROVE  OwnersInv'
<1>0. "aligned" \in TypesIn(family) \ {"unborn"} /\ TypesIn(family) = {"unborn", "aligned"}
  BY DEF TypesIn
<1>1. ASSUME NEW m \in Sizes, NEW align \in Alignments, SomeOwners!AllocAligned(o, m, align) PROVE OwnersInv'
  <2>1. m \in Nat /\ align \in Nat /\ align # 0 /\ Junk \in Int
    BY <1>1, ComponentsAssumption DEF ComponentsAssumption, SomeOwners!AllocAligned, SomeOwners!PowerOfTwo
  <2> DEFINE size == SomeOwners!Rounded(m, align)
             data == SomeOwners!Repeated(Junk, size)
  <2>2. size \in Nat /\ size % align = 0
    BY <2>1, RoundedIs
  <2>3. SomeOwners!Create(o, "aligned", align, data)
    BY <1>1 DEF SomeOwners!AllocAligned
  <2> HIDE DEF size
  <2>4. data \in Seq(Int) /\ Len(data) = size
    BY <2>1, <2>2, RepeatedIs
  <2> HIDE DEF data
  <2>. QED BY <1>0, <2>1, <2>2, <2>3, <2>4, CreateKeeps
<1>2. ASSUME NEW p \in Owners, SomeOwners!CloneAligned(o, p) PROVE OwnersInv'
  <2> DEFINE mode == IF holds[p].mode = 0 THEN SomeOwners!DefaultAlignment ELSE holds[p].mode
             data == SomeOwners!Seen(p)
  <2>1. SomeOwners!Create(o, "aligned", mode, data) /\ SomeOwners!Exists(p)
    BY <1>2 DEF SomeOwners!CloneAligned
  <2>2. data \in Seq(Int) /\ Len(data) = holds[p].size /\ data = value[p]
    BY SeenIsValue
  <2>3. holds[p].type = "aligned"
    BY <1>0, <2>1, TypesKnown
  <2>4. holds[p].mode \in Nat /\ IF holds[p].mode = 0 THEN value[p] = <<>> ELSE holds[p].size % holds[p].mode = 0
    BY <2>3, TypesKnown
  <2>5. mode \in Nat /\ mode # 0
    BY <2>4 DEF SomeOwners!DefaultAlignment
  <2>6. Len(data) % mode = 0
    <3>1. CASE holds[p].mode = 0
      <4>1. Len(data) = 0 /\ mode = 2
        BY <2>2, <2>4, <3>1 DEF SomeOwners!DefaultAlignment
      <4>. QED BY <4>1
    <3>2. CASE holds[p].mode # 0
      BY <2>2, <2>4, <3>2
    <3>. QED BY <3>1, <3>2
  <2> HIDE DEF mode, data
  <2>. QED BY <1>0, <2>1, <2>2, <2>5, <2>6, CreateKeeps
<1>. QED BY <1>1, <1>2

LEMMA BoxKeeps ==
  ASSUME OwnersInv, family = "box", NEW o \in Owners,
         \/ SomeOwners!NewBox(o)
         \/ \E p \in Owners : SomeOwners!Share(o, p) \/ SomeOwners!CopyShared(o, p)
  PROVE  OwnersInv'
<1>0. {"box", "shared"} \subseteq TypesIn(family) \ {"unborn"} /\ 0 \in Nat
  BY DEF TypesIn
<1>1. ASSUME NEW x \in Contents \ {<<>>}, NEW type \in {"box", "shared"}, SomeOwners!Make(o, type, x[1]) PROVE OwnersInv'
  <2>1. x[1] \in Int
    BY ComponentsAssumption DEF ComponentsAssumption
  <2>2. <<x[1]>> \in Seq(Int)
    BY <2>1
  <2>. QED BY <1>0, <1>1, <2>2, CreateKeeps DEF SomeOwners!Make
<1>2. ASSUME SomeOwners!Is(o, "box"), SomeOwners!Release(o) PROVE OwnersInv'
  BY <1>2, ReleaseKeeps DEF SomeOwners!Is
<1>3. ASSUME NEW r \in raw, SomeOwners!Adopt(o, r) PROVE OwnersInv'
  BY <1>3, AdoptKeeps
<1>4. ASSUME NEW r \in raw, SomeOwners!ResetTo(o, r) PROVE OwnersInv'
  BY <1>4, FreeingDrops, TakesRaw DEF SomeOwners!ResetTo
<1>5. ASSUME NEW p \in Owners, SomeOwners!Share(o, p) \/ SomeOwners!CopyShared(o, p) PROVE OwnersInv'
  BY <1>5, ShareKeeps, CopySharedKeeps
<1>6. ASSUME SomeOwners!Reset(o) PROVE OwnersInv'
  BY <1>6, ResetKeeps
<1>. QED BY <1>1, <1>2, <1>3, <1>4, <1>5, <1>6 DEF SomeOwners!NewBox

LEMMA GpuKeeps ==
  ASSUME OwnersInv, family = "gpu", NEW o \in Owners,
         \/ SomeOwners!NewGpu(o)
         \/ \E p \in Owners : SomeOwners!CloneDevice(o, p) \/ SomeOwners!ToHost(o, p) \/ SomeOwners!CopyFrom(o, p)
  PROVE  OwnersInv'
<1>0. {"host", "device"} \subseteq TypesIn(family) \ {"unborn"} /\ 0 \in Nat /\ 1 \in Nat
  BY DEF TypesIn
<1>1. ASSUME NEW data \in Seq(Int), NEW mode \in Nat, NEW type \in {"host", "device"},
             SomeOwners!Create(o, type, mode, data)
      PROVE  OwnersInv'
  BY <1>0, <1>1, CreateKeeps
<1>2. ASSUME NEW m \in Sizes, NEW shared \in {0, 1}, SomeOwners!AllocHost(o, m) \/ SomeOwners!AllocDevice(o, m, shared)
      PROVE  OwnersInv'
  <2>1. m \in Nat /\ Junk \in Int /\ shared \in Nat
    BY ComponentsAssumption DEF ComponentsAssumption
  <2>. QED BY <1>0, <1>1, <1>2, <2>1, RepeatedIs DEF SomeOwners!AllocHost, SomeOwners!AllocDevice
<1>3. ASSUME NEW data \in Seq(Int), SomeOwners!FromHost(o, data) PROVE OwnersInv'
  BY <1>0, <1>1, <1>3 DEF SomeOwners!FromHost
<1>4. \A data \in Contents : data \in Seq(Int)
  BY ComponentsAssumption DEF ComponentsAssumption
<1>5. ASSUME NEW p \in Owners, SomeOwners!CloneDevice(o, p) PROVE OwnersInv'
  BY <1>3, <1>5, SeenIsValue DEF SomeOwners!CloneDevice
<1>6. ASSUME NEW p \in Owners, SomeOwners!ToHost(o, p) \/ SomeOwners!CopyFrom(o, p) PROVE OwnersInv'
  <2>1. /\ SomeOwners!Seen(o) \in Seq(Int) /\ Len(SomeOwners!Seen(o)) = holds[o].size
        /\ SomeOwners!Seen(p) \in Seq(Int) /\ Len(SomeOwners!Seen(p)) = holds[p].size
        /\ holds[o].size \in Nat /\ holds[p].size \in Nat
    BY SeenIsValue
  <2>3. CASE SomeOwners!ToHost(o, p)
    <3> DEFINE data == SomeOwners!Over(SomeOwners!Seen(o), SomeOwners!Seen(p))
    <3>1. SomeOwners!Store(o, data) /\ holds[p].size <= holds[o].size
      BY <2>1, <2>3 DEF SomeOwners!ToHost
    <3>2. data \in Seq(Int) /\ Len(data) = holds[o].size
      BY <2>1, <3>1, OverIs
    <3> HIDE DEF data
    <3>. QED BY <3>1, <3>2, StoreKeeps
  <2>4. CASE SomeOwners!CopyFrom(o, p)
    <3> DEFINE data == SubSeq(SomeOwners!Seen(p), 1, holds[o].size)
    <3>1. SomeOwners!Store(o, data) /\ holds[o].size <= holds[p].size
      BY <2>1, <2>4 DEF SomeOwners!CopyFrom
    <3>2. data \in Seq(Int) /\ Len(data) = holds[o].size
      BY <2>1, <3>1, PrefixIs
    <3> HIDE DEF data
    <3>. QED BY <3>1, <3>2, StoreKeeps
  <2>. QED BY <1>6, <2>3, <2>4
<1>. QED BY <1>2, <1>3, <1>4, <1>5, <1>6 DEF SomeOwners!NewGpu

LEMMA CommonKeeps ==
  ASSUME OwnersInv, NEW o \in Owners,
         \/ SomeOwners!DefaultConstruct(o) \/ SomeOwners!Destroy(o) \/ \E i \in 1 .. holds[o].size : SomeOwners!Write(o, i, 1)
         \/ family # "box" /\ SomeOwners!Fill(o, 0)
         \/ \E p \in Owners : \/ SomeOwners!MoveConstruct(o, p) \/ SomeOwners!MoveAssign(o, p)
                              \/ \E q \in Owners : SomeOwners!Exchange(q, o, p)
  PROVE  OwnersInv'
<1>0. ASSUME SomeOwners!DefaultConstruct(o) PROVE OwnersInv'
  <2>1. PICK type \in SomeOwners!TypesOf(family) : SomeOwners!Create(o, type, 0, <<>>)
    BY <1>0 DEF SomeOwners!DefaultConstruct
  <2>2. type \in TypesIn(family) \ {"unborn"}
    BY <2>1 DEF SomeOwners!TypesOf, TypesIn
  <2>3. <<>> \in Seq(Int) /\ 0 \in Nat
    OBVIOUS
  <2>. QED BY <2>1, <2>2, <2>3, CreateKeeps
<1>1. ASSUME NEW i \in 1 .. holds[o].size, SomeOwners!Write(o, i, 1) PROVE OwnersInv'
  <2> DEFINE data == [SomeOwners!Seen(o) EXCEPT ![i] = 1]
  <2>1. SomeOwners!Seen(o) \in Seq(Int) /\ Len(SomeOwners!Seen(o)) = holds[o].size /\ holds[o].size \in Nat
    BY SeenIsValue
  <2>2. SomeOwners!Store(o, data)
    BY <1>1 DEF SomeOwners!Write
  <2>3. data \in Seq(Int) /\ Len(data) = holds[o].size
    BY <2>1
  <2> HIDE DEF data
  <2>. QED BY <2>2, <2>3, StoreKeeps
<1>2. ASSUME family # "box", SomeOwners!Fill(o, 0) PROVE OwnersInv'
  <2> DEFINE data == SomeOwners!Repeated(0, holds[o].size)
  <2>1. holds[o].size \in Nat /\ SomeOwners!Store(o, data)
    BY <1>2, SeenIsValue DEF SomeOwners!Fill
  <2>2. data \in Seq(Int) /\ Len(data) = holds[o].size
    BY <2>1, RepeatedIs, 0 \in Int
  <2> HIDE DEF data
  <2>. QED BY <2>1, <2>2, StoreKeeps
<1>3. ASSUME NEW p \in Owners, SomeOwners!MoveConstruct(o, p) PROVE OwnersInv'
  <2>1. o # p /\ holds[p].type # "unborn"
    BY <1>3, TypesKnown DEF SomeOwners!MoveConstruct
  <2>. QED BY <1>3, <2>1, UnbornDrops, MovesKeep DEF SomeOwners!MoveConstruct
<1>4. ASSUME NEW p \in Owners, SomeOwners!MoveAssign(o, p) PROVE OwnersInv'
  <2>1. CASE o = p
    BY <1>4, <2>1 DEF SomeOwners!MoveAssign, OwnersInv, HeapInv, InOrderInv, SingleInv, HeldInv
  <2>2. CASE o # p
    <3>1. holds[p].type # "unborn"
      BY <1>4, TypesKnown DEF SomeOwners!MoveAssign, SomeOwners!Is
    <3>. QED BY <1>4, <2>2, <3>1, FreeingDrops, MovesKeep DEF SomeOwners!MoveAssign
  <2>. QED BY <2>1, <2>2
<1>. QED BY <1>0, <1>1, <1>2, <1>3, <1>4, DestroyKeeps, ExchangeKeeps

LEMMA OwnersStep == OwnersInv /\ [SomeOwners!Next]_(SomeOwners!vars) => OwnersInv'
<1> SUFFICES ASSUME OwnersInv, [SomeOwners!Next]_(SomeOwners!vars) PROVE OwnersInv'
  OBVIOUS
<1>1. CASE UNCHANGED SomeOwners!vars
  BY <1>1 DEF SomeOwners!vars, OwnersInv, HeapInv, InOrderInv, SingleInv, HeldInv
<1>2. CASE SomeOwners!Next
  BY <1>2, CommonKeeps, BufferKeeps, AlignedKeeps, BoxKeeps, GpuKeeps DEF SomeOwners!Next
<1>. QED BY <1>1, <1>2

\* Owners are values whatever is done with them, and each block has one owner and is freed once, as it was
\* allocated, for any number of owners, sizes, alignments and contents.
THEOREM OwnersTheorem == SomeOwners!Spec => []OwnedOnce
BY OwnersInit, OwnersStep, OwnersImplies, PTL DEF SomeOwners!Spec

-----------------------------------------------------------------------------
\* Arena.

ArenaBlock == [size : Nat, used : Nat]
Allocation == [block : Nat \ {0}, from : Nat, to : Nat, align : Nat \ {0}]

\* The allocations of l are aligned and apart, below what their blocks s count as used, and all in
\* the first `top` bytes that are used.
Kept(l, s, top) ==
  /\ l \in Seq(Allocation)
  /\ \A i \in DOMAIN l : /\ l[i].block \in DOMAIN s /\ l[i].from % l[i].align = 0
                         /\ l[i].to <= s[l[i].block].used
                         /\ AnArena!UpTo(s)[l[i].block - 1] + l[i].to <= top
  /\ \A i, j \in DOMAIN l : i < j => AnArena!Disjoint(l[i], l[j])

BlocksInv == blocks \in Seq(ArenaBlock) /\ \A b \in DOMAIN blocks : blocks[b].used <= blocks[b].size

\* What was allocated before a mark lies below it, and later marks are not lower.
MarksInv == /\ marks \in Seq([mark : Nat, live : Seq(Allocation)])
            /\ \A i \in DOMAIN marks : marks[i].mark <= AnArena!used /\ Kept(marks[i].live, blocks, marks[i].mark)
            /\ \A i, j \in DOMAIN marks : i < j => marks[i].mark <= marks[j].mark

ArenaInv == BlocksInv /\ Kept(live, blocks, AnArena!used) /\ MarksInv

LEMMA LeastOf ==
  ASSUME NEW S, S \subseteq Nat, S # {}
  PROVE  \E x \in S : \A y \in S : x <= y
<1>1. IsWellFoundedOn(OpToRel(<, Nat), Nat)
  BY NatLessThanWellFounded
<1>2. PICK x \in S : \A y \in S : ~ (<<y, x>> \in OpToRel(<, Nat))
  BY <1>1, WFMin
<1>3. \A y \in S : ~ (y < x)
  BY <1>2 DEF OpToRel
<1>. QED BY <1>3

\* The sum is what its recursion says: a function that satisfies it up to m extends to m + 1.
LEMMA UpToIs ==
  ASSUME NEW s \in Seq(ArenaBlock)
  PROVE  AnArena!UpTo(s) = [k \in 0 .. Len(s) |-> IF k = 0 THEN 0 ELSE AnArena!UpTo(s)[k - 1] + s[k].used]
<1> DEFINE Sums(f, m) == f = [k \in 0 .. m |-> IF k = 0 THEN 0 ELSE f[k - 1] + s[k].used]
           Bad == {m \in Nat : m <= Len(s) /\ ~(\E f : Sums(f, m))}
<1>1. Len(s) \in Nat
  OBVIOUS
<1>2. Bad = {}
  <2>1. SUFFICES ASSUME Bad # {}  PROVE FALSE
    OBVIOUS
  <2>2. PICK m \in Bad : \A i \in Bad : m <= i
    <3>1. Bad \subseteq Nat
      OBVIOUS
    <3> HIDE DEF Bad
    <3>. QED BY <2>1, <3>1, LeastOf
  <2>3. m # 0
    <3> DEFINE f == [k \in 0 .. 0 |-> 0]
    <3>1. Sums(f, 0)
      OBVIOUS
    <3>. QED BY <2>2, <3>1
  <2>4. m \in Nat /\ m <= Len(s) /\ m - 1 \in Nat /\ m - 1 <= Len(s) /\ m - 1 \notin Bad
    <3>1. m \in Nat /\ m <= Len(s)
      BY <2>2
    <3>2. m - 1 \in Nat /\ m - 1 <= Len(s)
      BY <1>1, <2>3, <3>1
    <3>3. m - 1 \notin Bad
      <4> HIDE DEF Bad
      <4>. QED BY <2>2, <3>1, <3>2
    <3>. QED BY <3>1, <3>2, <3>3
  <2>5. PICK f : Sums(f, m - 1)
    BY <2>4
  <2> DEFINE g == [k \in 0 .. m |-> IF k = m THEN f[m - 1] + s[m].used ELSE f[k]]
  <2>6. Sums(g, m)
    <3>1. ASSUME NEW k \in 0 .. m  PROVE g[k] = IF k = 0 THEN 0 ELSE g[k - 1] + s[k].used
      BY <2>3, <2>4, <2>5, <3>1
    <3>. QED BY <3>1
  <2>. QED BY <2>2, <2>6
<1>3. PICK f : Sums(f, Len(s))
  <2>1. Len(s) \notin Bad
    BY <1>2
  <2>. QED BY <1>1, <2>1
<1> DEFINE Sum(h) == Sums(h, Len(s))
<1>4. AnArena!UpTo(s) = CHOOSE h : Sum(h)
  BY DEF AnArena!UpTo
<1>5. Sum(f)
  BY <1>3
<1> HIDE DEF Sum
<1>6. Sum(AnArena!UpTo(s))
  BY <1>4, <1>5
<1>. QED BY <1>6 DEF Sum

LEMMA UpToSteps ==
  ASSUME NEW s \in Seq(ArenaBlock)
  PROVE  /\ AnArena!UpTo(s)[0] = 0
         /\ \A k \in 1 .. Len(s) : AnArena!UpTo(s)[k] = AnArena!UpTo(s)[k - 1] + s[k].used
         /\ \A k \in 1 .. Len(s) : s[k].used \in Nat
<1> DEFINE f == AnArena!UpTo(s)
<1>1. f = [k \in 0 .. Len(s) |-> IF k = 0 THEN 0 ELSE f[k - 1] + s[k].used]
  BY UpToIs
<1>2. Len(s) \in Nat /\ \A k \in 1 .. Len(s) : s[k].used \in Nat
  <2>1. \A k \in 1 .. Len(s) : s[k] \in ArenaBlock
    OBVIOUS
  <2>. QED BY <2>1 DEF ArenaBlock
<1> HIDE DEF f
<1>3. f[0] = 0 /\ \A k \in 1 .. Len(s) : f[k] = f[k - 1] + s[k].used
  BY <1>1, <1>2
<1>. QED BY <1>2, <1>3 DEF f

\* Sums are natural numbers that do not decrease.
LEMMA UpToGrows ==
  ASSUME NEW s \in Seq(ArenaBlock)
  PROVE  \A j \in 0 .. Len(s) : /\ AnArena!UpTo(s)[j] \in Nat
                                /\ \A i \in 0 .. j : AnArena!UpTo(s)[i] <= AnArena!UpTo(s)[j]
<1> DEFINE f == AnArena!UpTo(s)
           Fine(j) == f[j] \in Nat /\ \A i \in 0 .. j : f[i] \in Nat /\ f[i] <= f[j]
           Bad == {j \in Nat : j <= Len(s) /\ ~Fine(j)}
<1>1. Len(s) \in Nat /\ f[0] = 0 /\ \A k \in 1 .. Len(s) : f[k] = f[k - 1] + s[k].used /\ s[k].used \in Nat
  BY UpToSteps
<1> HIDE DEF f
<1>2. SUFFICES ASSUME Bad # {}  PROVE FALSE
  BY <1>1 DEF f
<1>3. PICK j \in Bad : \A i \in Bad : j <= i
  <2>1. Bad \subseteq Nat
    OBVIOUS
  <2> HIDE DEF Bad
  <2>. QED BY <1>2, <2>1, LeastOf
<1>4. j \in Nat /\ j <= Len(s) /\ ~Fine(j)
  BY <1>3
<1>5. j # 0
  BY <1>1, <1>4
<1>6. j - 1 \in Nat /\ j - 1 <= Len(s) /\ Fine(j - 1)
  <2>1. j - 1 \in Nat /\ j - 1 <= Len(s) /\ ~ (j <= j - 1)
    BY <1>1, <1>4, <1>5
  <2>2. j - 1 \notin Bad
    BY <1>3, <2>1
  <2>. QED BY <2>1, <2>2
<1>7. f[j] = f[j - 1] + s[j].used /\ s[j].used \in Nat
  BY <1>1, <1>4, <1>5
<1>8. f[j] \in Nat /\ f[j - 1] \in Nat /\ f[j - 1] <= f[j]
  BY <1>6, <1>7
<1>9. ASSUME NEW i \in 0 .. j  PROVE f[i] \in Nat /\ f[i] <= f[j]
  <2>1. CASE i = j
    BY <1>8, <2>1
  <2>2. CASE i # j
    <3>1. i \in 0 .. j - 1
      BY <1>4, <2>2
    <3>2. f[i] \in Nat /\ f[i] <= f[j - 1]
      BY <1>6, <3>1
    <3>. QED BY <1>8, <3>2
  <2>. QED BY <2>1, <2>2
<1>. QED BY <1>4, <1>8, <1>9

\* Sums depend on nothing but the blocks they go over.
LEMMA UpToSame ==
  ASSUME NEW s \in Seq(ArenaBlock), NEW t \in Seq(ArenaBlock), NEW m \in Nat, m <= Len(s), m <= Len(t),
         \A b \in 1 .. m : s[b].used = t[b].used
  PROVE  \A k \in 0 .. m : AnArena!UpTo(s)[k] = AnArena!UpTo(t)[k]
<1> DEFINE f == AnArena!UpTo(s)
           g == AnArena!UpTo(t)
           Bad == {k \in Nat : k <= m /\ f[k] # g[k]}
<1>1. /\ Len(s) \in Nat /\ f[0] = 0 /\ \A k \in 1 .. Len(s) : f[k] = f[k - 1] + s[k].used
      /\ Len(t) \in Nat /\ g[0] = 0 /\ \A k \in 1 .. Len(t) : g[k] = g[k - 1] + t[k].used
  BY UpToSteps
<1> HIDE DEF f, g
<1>2. SUFFICES ASSUME Bad # {}  PROVE FALSE
  BY DEF f, g
<1>3. PICK k \in Bad : \A i \in Bad : k <= i
  <2>1. Bad \subseteq Nat
    OBVIOUS
  <2> HIDE DEF Bad
  <2>. QED BY <1>2, <2>1, LeastOf
<1>4. k \in Nat /\ k <= m /\ f[k] # g[k]
  BY <1>3
<1>5. k # 0
  BY <1>1, <1>4
<1>6. f[k - 1] = g[k - 1]
  <2>1. k - 1 \in Nat /\ k - 1 <= m /\ ~ (k <= k - 1)
    BY <1>4, <1>5
  <2>2. k - 1 \notin Bad
    BY <1>3, <2>1
  <2>. QED BY <2>1, <2>2
<1>7. k \in 1 .. Len(s) /\ k \in 1 .. Len(t) /\ k \in 1 .. m
  BY <1>1, <1>4, <1>5
<1>. QED BY <1>1, <1>4, <1>6, <1>7

\* The recursion of reset_to has a value too: one that satisfies it from m on extends to m - 1.
LEMMA ExcessIs ==
  ASSUME NEW s \in Seq(ArenaBlock), NEW mark \in Nat
  PROVE  LET e == AnArena!Excess(s, mark)
         IN  e = [i \in 1 .. Len(s) + 1 |->
                   IF i = Len(s) + 1 THEN AnArena!UpTo(s)[Len(s)] - mark
                   ELSE e[i + 1] - AnArena!Least(e[i + 1], s[i].used)]
<1> DEFINE len == Len(s)
           top == AnArena!UpTo(s)[len] - mark
           Takes(f, m) == f = [i \in m .. len + 1 |-> IF i = len + 1 THEN top
                                                    ELSE f[i + 1] - AnArena!Least(f[i + 1], s[i].used)]
           Bad == {d \in Nat : d <= len /\ ~(\E f : Takes(f, len + 1 - d))}
<1>1. len \in Nat
  OBVIOUS
<1> HIDE DEF len
<1>2. Bad = {}
  <2>1. SUFFICES ASSUME Bad # {}  PROVE FALSE
    OBVIOUS
  <2>2. PICK d \in Bad : \A i \in Bad : d <= i
    <3>1. Bad \subseteq Nat
      OBVIOUS
    <3> HIDE DEF Bad
    <3>. QED BY <2>1, <3>1, LeastOf
  <2> DEFINE m == len + 1 - d
  <2>3. d # 0
    <3> DEFINE f == [i \in len + 1 .. len + 1 |-> top]
    <3>1. Takes(f, len + 1)
      BY <1>1
    <3>2. SUFFICES ASSUME d = 0  PROVE FALSE
      OBVIOUS
    <3>3. len + 1 - d = len + 1
      BY <1>1, <3>2
    <3> HIDE DEF f
    <3>. QED BY <2>2, <3>1, <3>3
  <2>4. /\ d \in Nat /\ d <= len /\ d - 1 \in Nat /\ d - 1 <= len /\ d - 1 \notin Bad
        /\ m \in Nat /\ m <= len /\ len + 1 - (d - 1) = m + 1
    <3>1. d \in Nat /\ d <= len
      BY <2>2
    <3>2. d - 1 \in Nat /\ d - 1 <= len /\ m \in Nat /\ m <= len /\ len + 1 - (d - 1) = m + 1 /\ ~ (d <= d - 1)
      BY <1>1, <2>3, <3>1
    <3>3. d - 1 \notin Bad
      <4> HIDE DEF Bad
      <4>. QED BY <2>2, <3>1, <3>2
    <3>. QED BY <3>1, <3>2, <3>3
  <2> HIDE DEF m
  <2>5. PICK f : Takes(f, m + 1)
    BY <2>4
  <2> DEFINE g == [i \in m .. len + 1 |-> IF i = m THEN f[m + 1] - AnArena!Least(f[m + 1], s[m].used) ELSE f[i]]
  <2>6. Takes(g, m)
    <3>1. ASSUME NEW i \in m .. len + 1
          PROVE  g[i] = IF i = len + 1 THEN top ELSE g[i + 1] - AnArena!Least(g[i + 1], s[i].used)
      <4>1. CASE i = m
        <5>1. i # len + 1 /\ m + 1 \in m .. len + 1 /\ m + 1 # m
          BY <1>1, <2>4, <4>1
        <5>. QED BY <4>1, <5>1
      <4>2. CASE i # m
        <5>1. i \in m + 1 .. len + 1 /\ (i # len + 1 => i + 1 \in m .. len + 1 /\ i + 1 # m)
          BY <1>1, <2>4, <4>2
        <5>2. g[i] = f[i] /\ (i # len + 1 => g[i + 1] = f[i + 1])
          BY <4>2, <5>1
        <5>. QED BY <2>5, <5>1, <5>2
      <4>. QED BY <4>1, <4>2
    <3>. QED BY <3>1
  <2>. QED BY <2>2, <2>6 DEF m
<1>3. PICK f : Takes(f, 1)
  <2>1. len \notin Bad
    <3> HIDE DEF Bad
    <3>. QED BY <1>2
  <2>2. \E f : Takes(f, len + 1 - len)
    <3>1. len <= len
      BY <1>1
    <3>. QED BY <1>1, <2>1, <3>1
  <2>3. len + 1 - len = 1
    BY <1>1
  <2> HIDE DEF Takes
  <2>. QED BY <2>2, <2>3
<1> DEFINE Whole(h) == Takes(h, 1)
<1>4. AnArena!Excess(s, mark) = CHOOSE h : Whole(h)
  BY DEF AnArena!Excess, len
<1>5. Whole(f)
  BY <1>3
<1> HIDE DEF Whole
<1>6. Whole(AnArena!Excess(s, mark))
  BY <1>4, <1>5
<1>. QED BY <1>6 DEF Whole, len

\* What is still to take before block i is what the blocks up to it exceed the mark by.
LEMMA ExcessValue ==
  ASSUME NEW s \in Seq(ArenaBlock), NEW mark \in Nat, mark <= AnArena!UpTo(s)[Len(s)]
  PROVE  \A i \in 1 .. Len(s) + 1 :
           AnArena!Excess(s, mark)[i] = IF AnArena!UpTo(s)[i - 1] <= mark THEN 0 ELSE AnArena!UpTo(s)[i - 1] - mark
<1> DEFINE len == Len(s)
           f == AnArena!UpTo(s)
           e == AnArena!Excess(s, mark)
           Fine(i) == e[i] = IF f[i - 1] <= mark THEN 0 ELSE f[i - 1] - mark
           Bad == {d \in Nat : d <= len /\ ~Fine(len + 1 - d)}
<1>1. /\ len \in Nat /\ \A k \in 1 .. len : f[k] = f[k - 1] + s[k].used /\ s[k].used \in Nat
      /\ \A k \in 0 .. len : f[k] \in Nat
  BY UpToSteps, UpToGrows
<1>2. /\ e[len + 1] = f[len] - mark
      /\ \A i \in 1 .. len : e[i] = e[i + 1] - AnArena!Least(e[i + 1], s[i].used)
  <2> DEFINE Rest(h) == [i \in 1 .. len + 1 |-> IF i = len + 1 THEN f[len] - mark
                                               ELSE h[i + 1] - AnArena!Least(h[i + 1], s[i].used)]
  <2>1. e = Rest(e)
    BY ExcessIs
  <2> HIDE DEF len, f, e
  <2>2. e[len + 1] = Rest(e)[len + 1] /\ \A i \in 1 .. len : e[i] = Rest(e)[i]
    BY <2>1
  <2>3. len + 1 \in 1 .. len + 1 /\ \A i \in 1 .. len : i \in 1 .. len + 1 /\ i # len + 1
    BY <1>1
  <2>. QED BY <2>2, <2>3
<1>3. mark <= f[len]
  OBVIOUS
<1> HIDE DEF len, f, e
<1>4. Bad = {}
  <2>1. SUFFICES ASSUME Bad # {}  PROVE FALSE
    OBVIOUS
  <2>2. PICK d \in Bad : \A i \in Bad : d <= i
    <3>1. Bad \subseteq Nat
      OBVIOUS
    <3> HIDE DEF Bad
    <3>. QED BY <2>1, <3>1, LeastOf
  <2> DEFINE b == len + 1 - d
  <2>3. d \in Nat /\ d <= len /\ ~Fine(b)
    BY <2>2
  <2>4. d # 0
    <3>1. SUFFICES ASSUME d = 0  PROVE FALSE
      OBVIOUS
    <3>2. b = len + 1 /\ b - 1 = len
      BY <1>1, <3>1
    <3>3. f[len] \in Nat
      BY <1>1
    <3>. QED BY <1>2, <1>3, <2>3, <3>2, <3>3
  <2>5. d - 1 \in Nat /\ d - 1 <= len /\ b \in 1 .. len /\ len + 1 - (d - 1) = b + 1 /\ ~ (d <= d - 1)
    BY <1>1, <2>3, <2>4
  <2>6. d - 1 \notin Bad
    <3> HIDE DEF Bad
    <3>. QED BY <2>2, <2>5
  <2> HIDE DEF b
  <2>7. e[b + 1] = IF f[b] <= mark THEN 0 ELSE f[b] - mark
    <3>1. Fine(len + 1 - (d - 1))
      BY <2>5, <2>6
    <3>2. Fine(b + 1)
      BY <2>5, <3>1
    <3>3. (b + 1) - 1 = b
      BY <2>5
    <3>4. e[b + 1] = IF f[(b + 1) - 1] <= mark THEN 0 ELSE f[(b + 1) - 1] - mark
      BY Zenon, <3>2
    <3>. QED BY <3>3, <3>4
  <2> HIDE DEF Bad, Fine
  <2>8. e[b] = e[b + 1] - AnArena!Least(e[b + 1], s[b].used) /\ f[b] = f[b - 1] + s[b].used /\ s[b].used \in Nat
    BY <1>1, <1>2, <2>5
  <2>9. f[b] = f[b - 1] + s[b].used /\ s[b].used \in Nat
    BY <2>8
  <2>10. f[b] \in Nat /\ f[b - 1] \in Nat
    <3>1. b \in 0 .. len /\ b - 1 \in 0 .. len
      BY <1>1, <2>5
    <3>. QED BY <1>1, <3>1
  <2>11. e[b + 1] - AnArena!Least(e[b + 1], s[b].used) = IF f[b - 1] <= mark THEN 0 ELSE f[b - 1] - mark
    <3>1. CASE f[b] <= mark
      <4>1. e[b + 1] = 0 /\ f[b - 1] <= mark
        BY <2>7, <2>8, <2>10, <3>1
      <4>. QED BY <2>8, <4>1 DEF AnArena!Least
    <3>2. CASE ~ (f[b] <= mark)
      <4>1. e[b + 1] = f[b] - mark /\ e[b + 1] \in Nat
        BY <2>7, <2>10, <3>2
      <4>2. CASE f[b - 1] <= mark
        <5>1. e[b + 1] <= s[b].used
          BY <2>10, <2>9, <4>1, <4>2
        <5>2. AnArena!Least(e[b + 1], s[b].used) = e[b + 1]
          BY <2>9, <4>1, <5>1 DEF AnArena!Least
        <5>3. e[b + 1] - e[b + 1] = 0
          BY <4>1
        <5>. QED BY <4>2, <5>2, <5>3
      <4>3. CASE ~ (f[b - 1] <= mark)
        <5>1. ~ (e[b + 1] < s[b].used)
          BY <2>10, <2>9, <4>1, <4>3
        <5>2. AnArena!Least(e[b + 1], s[b].used) = s[b].used
          BY <5>1 DEF AnArena!Least
        <5>3. (f[b] - mark) - s[b].used = f[b - 1] - mark
          BY <2>9, <2>10
        <5>4. e[b + 1] - s[b].used = f[b - 1] - mark
          BY <4>1, <5>3
        <5>. QED BY <4>3, <5>2, <5>4
      <4>. QED BY <4>2, <4>3
    <3>. QED BY <3>1, <3>2
  <2>12. e[b] = IF f[b - 1] <= mark THEN 0 ELSE f[b - 1] - mark
    BY Zenon, <2>8, <2>11
  <2>. QED BY Zenon, <2>3, <2>12 DEF Fine
<1>5. ASSUME NEW i \in 1 .. len + 1  PROVE Fine(i)
  <2> DEFINE d == len + 1 - i
  <2>1. d \in Nat /\ d <= len /\ len + 1 - d = i
    BY <1>1
  <2> HIDE DEF d
  <2>2. d \notin Bad
    BY <1>4
  <2>3. Fine(len + 1 - d)
    BY <2>1, <2>2
  <2>. QED BY <2>1, <2>3
<1>. QED BY <1>5 DEF len, f, e

\* A rewound arena has the same blocks; of the first k, the bytes up to the mark are left.
LEMMA RewoundSums ==
  ASSUME blocks \in Seq(ArenaBlock), NEW mark \in Nat
  PROVE  LET t == AnArena!Rewound(mark) IN
         /\ t \in Seq(ArenaBlock) /\ Len(t) = Len(blocks)
         /\ \A b \in 1 .. Len(blocks) : t[b].used <= blocks[b].used /\ t[b].size = blocks[b].size
         /\ \A k \in 0 .. Len(blocks) : AnArena!UpTo(t)[k] = AnArena!Least(AnArena!UpTo(blocks)[k], mark)
<1> DEFINE len == Len(blocks)
           f == AnArena!UpTo(blocks)
           e == AnArena!Excess(blocks, mark)
           t == AnArena!Rewound(mark)
           g == AnArena!UpTo(t)
<1>1. /\ len \in Nat /\ f[0] = 0 /\ \A k \in 1 .. len : f[k] = f[k - 1] + blocks[k].used /\ blocks[k].used \in Nat
      /\ \A k \in 0 .. len : f[k] \in Nat /\ f[k] <= f[len]
  BY UpToSteps, UpToGrows
<1>2. \A b \in 1 .. len : blocks[b] \in ArenaBlock
  OBVIOUS
<1>3. CASE f[len] <= mark
  <2>1. t = blocks
    BY <1>3 DEF AnArena!Rewound, AnArena!used
  <2>2. \A k \in 0 .. len : f[k] = AnArena!Least(f[k], mark)
    <3> HIDE DEF f, len
    <3>. QED BY <1>1, <1>3 DEF AnArena!Least
  <2>3. \A b \in 1 .. len : blocks[b].used <= blocks[b].used
    BY <1>1
  <2>. QED BY <2>1, <2>2, <2>3
<1>4. CASE ~ (f[len] <= mark)
  <2>1. t = [b \in 1 .. len |-> [blocks[b] EXCEPT !.used = @ - AnArena!Least(e[b + 1], @)]]
    BY <1>4 DEF AnArena!Rewound, AnArena!used
  <2>2. \A b \in 1 .. len : e[b + 1] = IF f[b] <= mark THEN 0 ELSE f[b] - mark
    <3>1. \A i \in 1 .. len + 1 : e[i] = IF f[i - 1] <= mark THEN 0 ELSE f[i - 1] - mark
      <4>1. mark <= f[len]
        BY <1>1, <1>4
      <4>. QED BY <4>1, ExcessValue
    <3> HIDE DEF e, f, len
    <3>2. ASSUME NEW b \in 1 .. len  PROVE b + 1 \in 1 .. len + 1 /\ (b + 1) - 1 = b
      BY <1>1
    <3>. QED BY <3>1, <3>2
  <2> HIDE DEF t, e
  <2>3. \A b \in 1 .. len : /\ t[b] \in ArenaBlock /\ t[b].size = blocks[b].size
                            /\ t[b].used = blocks[b].used - AnArena!Least(e[b + 1], blocks[b].used)
                            /\ t[b].used \in Nat /\ t[b].used <= blocks[b].used
    <3> SUFFICES ASSUME NEW b \in 1 .. len
                 PROVE  /\ t[b] \in ArenaBlock /\ t[b].size = blocks[b].size
                        /\ t[b].used = blocks[b].used - AnArena!Least(e[b + 1], blocks[b].used)
                        /\ t[b].used \in Nat /\ t[b].used <= blocks[b].used
      OBVIOUS
    <3>1. blocks[b] = [size |-> blocks[b].size, used |-> blocks[b].used] /\ blocks[b].size \in Nat /\ blocks[b].used \in Nat
      BY <1>2 DEF ArenaBlock
    <3>2. t[b] = [size |-> blocks[b].size, used |-> blocks[b].used - AnArena!Least(e[b + 1], blocks[b].used)]
      BY <2>1, <3>1
    <3>3. e[b + 1] \in Nat
      <4>1. f[b] \in Nat
        BY <1>1
      <4> HIDE DEF f
      <4>. QED BY <2>2, <4>1
    <3>4. blocks[b].used - AnArena!Least(e[b + 1], blocks[b].used) \in 0 .. blocks[b].used
      BY <3>1, <3>3 DEF AnArena!Least
    <3>. QED BY <3>1, <3>2, <3>4 DEF ArenaBlock
  <2>4. t \in Seq(ArenaBlock) /\ Len(t) = len
    BY <1>1, <2>1, <2>3
  <2>5. /\ g[0] = 0 /\ \A k \in 1 .. len : g[k] = g[k - 1] + t[k].used
        /\ \A k \in 0 .. len : g[k] \in Nat
    BY <2>4, UpToSteps, UpToGrows
  <2> DEFINE Bad == {k \in Nat : k <= len /\ g[k] # AnArena!Least(f[k], mark)}
  <2> HIDE DEF f, g, len
  <2>6. Bad = {}
    <3>1. SUFFICES ASSUME Bad # {}  PROVE FALSE
      OBVIOUS
    <3>2. PICK k \in Bad : \A i \in Bad : k <= i
      <4>1. Bad \subseteq Nat
        OBVIOUS
      <4> HIDE DEF Bad
      <4>. QED BY <3>1, <4>1, LeastOf
    <3>3. k \in Nat /\ k <= len /\ g[k] # AnArena!Least(f[k], mark)
      BY <3>2
    <3>4. k # 0
      BY <1>1, <2>5, <3>3 DEF AnArena!Least
    <3>5. k \in 1 .. len /\ k - 1 \in 0 .. len /\ k - 1 \in Nat /\ k - 1 <= len /\ ~ (k <= k - 1) /\ k \in 0 .. len
      BY <1>1, <3>3, <3>4
    <3>6. k - 1 \notin Bad
      <4> HIDE DEF Bad
      <4>. QED BY <3>2, <3>5
    <3>7. g[k - 1] = AnArena!Least(f[k - 1], mark)
      BY <3>5, <3>6
    <3>8. g[k] = g[k - 1] + (blocks[k].used - AnArena!Least(IF f[k] <= mark THEN 0 ELSE f[k] - mark, blocks[k].used))
      BY <2>2, <2>3, <2>5, <3>5
    <3>9. f[k] = f[k - 1] + blocks[k].used /\ blocks[k].used \in Nat /\ f[k] \in Nat /\ f[k - 1] \in Nat
      BY <1>1, <3>5
    <3> DEFINE excess == IF f[k] <= mark THEN 0 ELSE f[k] - mark
    <3>10. CASE f[k] <= mark
      <4>1. excess = 0 /\ AnArena!Least(f[k], mark) = f[k] /\ AnArena!Least(f[k - 1], mark) = f[k - 1]
        BY <3>9, <3>10 DEF AnArena!Least
      <4>2. AnArena!Least(0, blocks[k].used) = 0
        BY <3>9 DEF AnArena!Least
      <4> HIDE DEF excess
      <4>3. g[k] = f[k - 1] + (blocks[k].used - 0)
        BY <3>7, <3>8, <4>1, <4>2, Zenon DEF excess
      <4>. QED BY <3>3, <3>9, <4>1, <4>3
    <3>11. CASE ~ (f[k] <= mark)
      <4>1. excess = f[k] - mark /\ AnArena!Least(f[k], mark) = mark
        BY <3>9, <3>11 DEF AnArena!Least
      <4>2. AnArena!Least(f[k - 1], mark) + (blocks[k].used - AnArena!Least(f[k] - mark, blocks[k].used)) = mark
        <5>1. CASE f[k - 1] <= mark
          <6>1. AnArena!Least(f[k - 1], mark) = f[k - 1]
            BY <3>9, <5>1 DEF AnArena!Least
          <6>2. AnArena!Least(f[k] - mark, blocks[k].used) = f[k] - mark
            BY <3>9, <3>11, <5>1 DEF AnArena!Least
          <6>3. f[k - 1] + (blocks[k].used - (f[k] - mark)) = mark
            BY <3>9
          <6>. QED BY <6>1, <6>2, <6>3, Zenon
        <5>2. CASE ~ (f[k - 1] <= mark)
          <6>1. AnArena!Least(f[k - 1], mark) = mark
            BY <3>9, <5>2 DEF AnArena!Least
          <6>2. AnArena!Least(f[k] - mark, blocks[k].used) = blocks[k].used
            BY <3>9, <3>11, <5>2 DEF AnArena!Least
          <6>3. mark + (blocks[k].used - blocks[k].used) = mark
            BY <3>9
          <6>. QED BY <6>1, <6>2, <6>3, Zenon
        <5>. QED BY <5>1, <5>2
      <4> HIDE DEF excess
      <4>3. g[k] = mark
        BY <3>7, <3>8, <4>1, <4>2, Zenon DEF excess
      <4>. QED BY <3>3, <4>1, <4>3
    <3>. QED BY <3>10, <3>11
  <2>7. \A k \in 0 .. len : g[k] = AnArena!Least(f[k], mark)
    BY <1>1, <2>6
  <2>. QED BY <2>3, <2>4, <2>7 DEF f, g, len, t
<1>. QED BY <1>3, <1>4

\* What is kept stays kept when the last block is used further and blocks are added, and higher marks are meant.
LEMMA KeptGrows ==
  ASSUME NEW s \in Seq(ArenaBlock), NEW t \in Seq(ArenaBlock), Len(s) <= Len(t),
         \A b \in 1 .. Len(s) : s[b].used <= t[b].used /\ (b < Len(s) => s[b].used = t[b].used),
         NEW top \in Nat, NEW top2 \in Nat, top <= top2, NEW l, Kept(l, s, top)
  PROVE  Kept(l, t, top2)
<1> SUFFICES ASSUME NEW i \in DOMAIN l
             PROVE  /\ l[i].block \in DOMAIN t /\ l[i].to <= t[l[i].block].used
                    /\ AnArena!UpTo(t)[l[i].block - 1] + l[i].to <= top2
  BY DEF Kept
<1> DEFINE b == l[i].block
<1>1. l[i] \in Allocation /\ b \in 1 .. Len(s) /\ l[i].to <= s[b].used /\ AnArena!UpTo(s)[b - 1] + l[i].to <= top
  BY DEF Kept
<1>2. Len(s) \in Nat /\ Len(t) \in Nat /\ l[i].to \in Nat
  BY <1>1 DEF Allocation
<1> HIDE DEF b
<1>3. s[b].used \in Nat /\ t[b].used \in Nat /\ b \in 1 .. Len(t)
  <2>1. b \in 1 .. Len(t)
    BY <1>1, <1>2
  <2>2. \A k \in 1 .. Len(s) : s[k].used \in Nat
    BY UpToSteps, Zenon
  <2>3. \A k \in 1 .. Len(t) : t[k].used \in Nat
    BY UpToSteps, Zenon
  <2>. QED BY <1>1, <2>1, <2>2, <2>3, Zenon
<1>4. AnArena!UpTo(s)[b - 1] = AnArena!UpTo(t)[b - 1]
  <2>1. b - 1 \in Nat /\ b - 1 <= Len(s) /\ b - 1 <= Len(t) /\ b - 1 \in 0 .. b - 1 /\ \A c \in 1 .. b - 1 : c \in 1 .. Len(s) /\ c < Len(s)
    BY <1>1, <1>2
  <2> DEFINE m == b - 1
  <2>2. \A c \in 1 .. m : s[c].used = t[c].used
    BY <2>1
  <2>3. m \in Nat /\ m <= Len(s) /\ m <= Len(t) /\ m \in 0 .. m
    BY <2>1
  <2> HIDE DEF m
  <2>4. AnArena!UpTo(s)[m] = AnArena!UpTo(t)[m]
    BY <2>2, <2>3, UpToSame
  <2>. QED BY <2>4 DEF m
<1>5. AnArena!UpTo(s)[b - 1] \in Nat
  <2>1. b - 1 \in 0 .. Len(s)
    BY <1>1, <1>2
  <2>. QED BY <2>1, UpToGrows
<1>6. l[i].to <= t[b].used
  BY <1>1, <1>2, <1>3
<1>7. AnArena!UpTo(t)[b - 1] + l[i].to <= top2
  BY <1>1, <1>2, <1>4, <1>5
<1>. QED BY <1>3, <1>6, <1>7 DEF b

\* What is kept below a mark is kept when the arena is rewound to that mark, or to a later one.
LEMMA KeptRewound ==
  ASSUME blocks \in Seq(ArenaBlock), NEW mark \in Nat, NEW top \in Nat, top <= mark, NEW l, Kept(l, blocks, top)
  PROVE  Kept(l, AnArena!Rewound(mark), top)
<1> DEFINE t == AnArena!Rewound(mark)
           f == AnArena!UpTo(blocks)
           g == AnArena!UpTo(t)
<1>1. /\ t \in Seq(ArenaBlock) /\ Len(t) = Len(blocks) /\ Len(blocks) \in Nat
      /\ \A k \in 0 .. Len(blocks) : g[k] = AnArena!Least(f[k], mark)
  BY RewoundSums
<1>2. /\ \A k \in 1 .. Len(blocks) : f[k] = f[k - 1] + blocks[k].used /\ blocks[k].used \in Nat
      /\ \A k \in 0 .. Len(blocks) : f[k] \in Nat
      /\ \A k \in 1 .. Len(t) : g[k] = g[k - 1] + t[k].used /\ t[k].used \in Nat
  BY <1>1, UpToSteps, UpToGrows
<1> HIDE DEF t, f, g
<1> SUFFICES ASSUME NEW i \in DOMAIN l
             PROVE  /\ l[i].block \in DOMAIN t /\ l[i].to <= t[l[i].block].used
                    /\ g[l[i].block - 1] + l[i].to <= top
  BY DEF Kept, t, g
<1> DEFINE b == l[i].block
<1>3. l[i] \in Allocation /\ b \in 1 .. Len(blocks) /\ l[i].to <= blocks[b].used /\ f[b - 1] + l[i].to <= top
  BY DEF Kept, f
<1>4. l[i].to \in Nat
  BY <1>3 DEF Allocation
<1> HIDE DEF b
<1>5. b - 1 \in 0 .. Len(blocks) /\ b \in 0 .. Len(blocks)
  BY <1>1, <1>3
<1>6. f[b - 1] \in Nat /\ f[b] \in Nat /\ f[b] = f[b - 1] + blocks[b].used /\ blocks[b].used \in Nat /\ f[b - 1] <= mark
  <2>1. f[b - 1] \in Nat /\ f[b] \in Nat /\ f[b] = f[b - 1] + blocks[b].used /\ blocks[b].used \in Nat
    BY <1>2, <1>3, <1>5
  <2>. QED BY <1>3, <1>4, <2>1
<1>7. g[b - 1] = f[b - 1] /\ g[b] = AnArena!Least(f[b], mark) /\ g[b] = g[b - 1] + t[b].used /\ t[b].used \in Nat
  <2>1. g[b - 1] = AnArena!Least(f[b - 1], mark) /\ g[b] = AnArena!Least(f[b], mark)
    BY <1>1, <1>5
  <2>2. AnArena!Least(f[b - 1], mark) = f[b - 1]
    BY <1>6 DEF AnArena!Least
  <2>3. b \in 1 .. Len(t)
    BY <1>1, <1>3
  <2>. QED BY <1>2, <2>1, <2>2, <2>3
<1>8. l[i].to <= t[b].used
  <2>1. CASE f[b] < mark
    BY <1>3, <1>6, <1>7, <2>1 DEF AnArena!Least
  <2>2. CASE ~ (f[b] < mark)
    <3>1. f[b - 1] + t[b].used = mark
      BY <1>6, <1>7, <2>2 DEF AnArena!Least
    <3>2. f[b - 1] + l[i].to <= f[b - 1] + t[b].used
      <4>1. f[b - 1] + l[i].to <= mark
        BY <1>3, <1>4, <1>6
      <4>. QED BY <3>1, <4>1, Zenon
    <3>3. \A x, y, z \in Nat : x + y <= x + z => y <= z
      OBVIOUS
    <3>. QED BY <1>4, <1>6, <1>7, <3>2, <3>3, Zenon
  <2>. QED BY <2>1, <2>2
<1>. QED BY <1>1, <1>3, <1>7, <1>8 DEF b

LEMMA Quotient ==
  ASSUME NEW a \in Nat, NEW c \in Nat, 0 < c
  PROVE  a \div c \in Nat /\ a % c \in 0 .. c - 1 /\ a = c * (a \div c) + (a % c)
OBVIOUS

LEMMA RoundUpFits ==
  ASSUME NEW off \in Nat, NEW align \in Nat \ {0}
  PROVE  /\ AnArena!RoundUp(off, align) \in Nat /\ off <= AnArena!RoundUp(off, align)
         /\ AnArena!RoundUp(off, align) % align = 0
         /\ off = 0 => AnArena!RoundUp(off, align) = 0
<1> DEFINE a == off + align - 1
           q == a \div align
<1>1. a \in Nat /\ AnArena!RoundUp(off, align) = q * align
  BY DEF AnArena!RoundUp
<1>2. q \in Nat /\ a % align \in 0 .. align - 1 /\ a = align * q + (a % align)
  BY <1>1, Quotient
<1>3. q * align = align * q /\ align * q \in Nat
  <2> HIDE DEF q
  <2>. QED BY <1>2
<1>4. off <= q * align
  <2> HIDE DEF q
  <2>1. a - (a % align) = align * q /\ a - (a % align) >= off
    BY <1>2, <1>3
  <2>. QED BY <1>3, <2>1
<1>5. (q * align) % align = 0
  <2> HIDE DEF q
  <2> DEFINE p == q * align
             m == p \div align
             r == p % align
  <2>1. p \in Nat /\ p = align * m + r /\ m \in Nat /\ r \in 0 .. align - 1
    BY <1>3, Quotient
  <2>2. p = align * q
    BY <1>3
  <2> HIDE DEF p, m, r
  <2>3. align * (q - m) = r
    <3>1. align * (q - m) = align * q - align * m
      BY <1>2, <2>1
    <3>. QED BY <1>2, <2>1, <2>2, <3>1
  <2>4. ~ (q - m >= 1) /\ ~ (q - m <= -1)
    <3> DEFINE d == q - m
    <3>1. d \in Int /\ align * d = r
      BY <1>2, <2>1, <2>3
    <3> HIDE DEF d
    <3>2. ASSUME d >= 1 PROVE align * d >= align
      BY <3>1, <3>2
    <3>3. ASSUME d <= -1 PROVE align * d <= -align
      BY <3>1, <3>3
    <3>4. ~ (d >= 1) /\ ~ (d <= -1)
      BY <2>1, <3>1, <3>2, <3>3
    <3>. QED BY <3>4 DEF d
  <2>5. q = m
    BY <1>2, <2>1, <2>4
  <2>6. r = 0
    BY <2>1, <2>2, <2>5
  <2>. QED BY <2>6 DEF p, r
<1>6. ASSUME off = 0 PROVE q * align = 0
  <2>1. a < align
    BY <1>6
  <2>2. q = 0
    <3> HIDE DEF q, a
    <3>1. ~ (q >= 1)
      <4>1. ASSUME q >= 1 PROVE align * q >= align
        BY <1>2, <4>1
      <4>. QED BY <1>1, <1>2, <2>1, <4>1
    <3>. QED BY <1>2, <3>1
  <2>. QED BY <2>2
<1>. QED BY <1>1, <1>3, <1>4, <1>5, <1>6

LEMMA AlignmentClamped ==
  ASSUME NEW wanted \in Nat
  PROVE  AnArena!Clamped(wanted) \in Nat \ {0}
BY ComponentsAssumption DEF ComponentsAssumption, AnArena!Clamped

\* An allocation takes an aligned piece above what was used of the last block, or of one that is new.
LEMMA AllocFacts ==
  ASSUME BlocksInv, NEW bytes \in Nat, NEW wanted \in Nat, AnArena!Alloc(bytes, wanted)
  PROVE  /\ BlocksInv' /\ Len(blocks) <= Len(blocks')
         /\ \A b \in 1 .. Len(blocks) : blocks[b].used <= blocks'[b].used /\ (b < Len(blocks) => blocks[b].used = blocks'[b].used)
         /\ \E p \in Allocation : /\ live' = Append(live, p) /\ p.block = Len(blocks') /\ p.from % p.align = 0
                                  /\ p.to = blocks'[p.block].used
                                  /\ p.block \in 1 .. Len(blocks) => blocks[p.block].used <= p.from
<1> DEFINE align == AnArena!Clamped(wanted)
           grown == IF blocks # <<>> /\ AnArena!fits(blocks[Len(blocks)], align, bytes) THEN blocks
                    ELSE Append(blocks, AnArena!NewBlock(align, bytes))
           len   == Len(grown)
           off   == AnArena!Offset(grown[len], align)
           p     == [block |-> len, from |-> off, to |-> off + bytes, align |-> align]
<1>1. /\ blocks' = [grown EXCEPT ![len].used = off + bytes]
      /\ live' = Append(live, p)
  BY DEF AnArena!Alloc
<1>2. align \in Nat \ {0}
  BY AlignmentClamped
<1> HIDE DEF align
<1>3. Len(blocks) \in Nat /\ \A b \in 1 .. Len(blocks) : /\ blocks[b] \in ArenaBlock /\ blocks[b].used <= blocks[b].size
                                                        /\ blocks[b].used \in Nat
  <2>1. \A b \in 1 .. Len(blocks) : blocks[b] \in ArenaBlock /\ blocks[b].used <= blocks[b].size
    BY DEF BlocksInv
  <2>. QED BY <2>1 DEF BlocksInv, ArenaBlock
<1> DEFINE fresh == AnArena!NewBlock(align, bytes)
<1>4. fresh \in ArenaBlock /\ fresh.used = 0 /\ bytes <= fresh.size
  BY <1>2, ComponentsAssumption DEF ComponentsAssumption, AnArena!NewBlock, ArenaBlock
<1> HIDE DEF fresh
<1>5. /\ grown \in Seq(ArenaBlock) /\ len \in 1 .. Len(blocks) + 1 /\ len \in Nat /\ Len(blocks) <= len
      /\ \A b \in 1 .. Len(blocks) : grown[b] = blocks[b]
      /\ \A b \in 1 .. len : grown[b].used \in Nat /\ grown[b].used <= grown[b].size /\ grown[b] \in ArenaBlock
      /\ off \in Nat /\ off % align = 0 /\ grown[len].used <= off /\ off + bytes <= grown[len].size
  <2>1. CASE blocks # <<>> /\ AnArena!fits(blocks[Len(blocks)], align, bytes)
    <3>1. grown = blocks
      BY <2>1
    <3>2. Len(blocks) \in 1 .. Len(blocks) + 1
      BY <1>3, <2>1 DEF BlocksInv
    <3>3. off + bytes <= grown[len].size
      BY <2>1, <3>1 DEF AnArena!fits
    <3>4. off \in Nat /\ off % align = 0 /\ blocks[Len(blocks)].used <= off
      <4>1. blocks[Len(blocks)].used \in Nat
        BY <1>3, <2>1 DEF BlocksInv
      <4>. QED BY <1>2, <3>1, <4>1, RoundUpFits DEF AnArena!Offset
    <3> HIDE DEF grown, off
    <3>. QED BY <1>3, <3>1, <3>2, <3>3, <3>4 DEF BlocksInv
  <2>2. CASE ~ (blocks # <<>> /\ AnArena!fits(blocks[Len(blocks)], align, bytes))
    <3>1. grown = Append(blocks, fresh)
      BY <2>2 DEF fresh
    <3> HIDE DEF grown
    <3>2. /\ grown \in Seq(ArenaBlock) /\ len = Len(blocks) + 1 /\ grown[len] = fresh
          /\ \A b \in 1 .. Len(blocks) : grown[b] = blocks[b]
      BY <1>4, <3>1 DEF BlocksInv
    <3>3. off = 0 /\ 0 % align = 0
      <4>1. off = AnArena!RoundUp(0, align)
        BY <1>4, <3>2 DEF AnArena!Offset
      <4>. QED BY <1>2, <4>1, RoundUpFits
    <3>4. fresh.size \in Nat
      BY <1>4 DEF ArenaBlock
    <3> HIDE DEF len, off
    <3>5. len \in 1 .. Len(blocks) + 1 /\ len \in Nat /\ Len(blocks) <= len
      BY <1>3, <3>2
    <3>6. \A b \in 1 .. len : grown[b].used \in Nat /\ grown[b].used <= grown[b].size /\ grown[b] \in ArenaBlock
      <4> SUFFICES ASSUME NEW b \in 1 .. len
                   PROVE  grown[b].used \in Nat /\ grown[b].used <= grown[b].size /\ grown[b] \in ArenaBlock
        OBVIOUS
      <4>1. CASE b = len
        BY <1>4, <3>2, <3>4, <4>1
      <4>2. CASE b # len
        <5>1. b \in 1 .. Len(blocks)
          BY <1>3, <3>2, <4>2
        <5>. QED BY <1>3, <3>2, <5>1
      <4>. QED BY <4>1, <4>2
    <3>7. off \in Nat /\ off % align = 0 /\ grown[len].used <= off /\ off + bytes <= grown[len].size
      BY <1>4, <3>2, <3>3, <3>4
    <3>. QED BY <3>2, <3>5, <3>6, <3>7
  <2>. QED BY <2>1, <2>2
<1> HIDE DEF grown, len, off, p
<1>6. /\ blocks' \in Seq(ArenaBlock) /\ Len(blocks') = len
      /\ \A b \in 1 .. len : b # len => blocks'[b] = grown[b]
      /\ blocks'[len] = [grown[len] EXCEPT !.used = off + bytes]
  <2>1. [grown[len] EXCEPT !.used = off + bytes] \in ArenaBlock
    <3>1. grown[len] \in ArenaBlock /\ off + bytes \in Nat
      BY <1>5
    <3>. QED BY <3>1 DEF ArenaBlock
  <2>2. len = Len(grown)
    BY DEF len
  <2>. QED BY <1>1, <1>5, <2>1, <2>2
<1>7. blocks'[len].used = off + bytes /\ blocks'[len].size = grown[len].size
  BY <1>5, <1>6 DEF ArenaBlock
<1>8. BlocksInv'
  <2>1. ASSUME NEW b \in 1 .. len  PROVE blocks'[b].used <= blocks'[b].size
    <3>1. CASE b = len
      BY <1>5, <1>7, <3>1
    <3>2. CASE b # len
      <4>1. blocks'[b] = grown[b]
        BY <1>6, <3>2
      <4>. QED BY <1>5, <4>1
    <3>. QED BY <3>1, <3>2
  <2>2. DOMAIN blocks' = 1 .. len
    BY <1>6
  <2>. QED BY <1>6, <2>1, <2>2 DEF BlocksInv
<1>9. \A b \in 1 .. Len(blocks) : blocks[b].used <= blocks'[b].used /\ (b < Len(blocks) => blocks[b].used = blocks'[b].used)
  <2> SUFFICES ASSUME NEW b \in 1 .. Len(blocks)
               PROVE  blocks[b].used <= blocks'[b].used /\ (b < Len(blocks) => blocks[b].used = blocks'[b].used)
    OBVIOUS
  <2>1. b \in 1 .. len /\ grown[b] = blocks[b] /\ blocks[b].used \in Nat
    BY <1>3, <1>5
  <2>2. CASE b = len
    <3>1. ~ (b < Len(blocks))
      BY <1>3, <1>5, <2>2
    <3>2. blocks[b].used <= off + bytes
      BY <1>5, <2>1, <2>2
    <3>. QED BY <1>7, <2>2, <3>1, <3>2
  <2>3. CASE b # len
    BY <1>6, <2>1, <2>3
  <2>. QED BY <2>2, <2>3
<1>10. /\ p \in Allocation /\ p.block = len /\ p.from = off /\ p.from % p.align = 0 /\ p.to = blocks'[p.block].used
       /\ p.block \in 1 .. Len(blocks) => blocks[p.block].used <= p.from
  <2>1. p = [block |-> len, from |-> off, to |-> off + bytes, align |-> align]
    BY DEF p
  <2>2. len \in Nat \ {0} /\ off + bytes \in Nat
    BY <1>5
  <2>3. len \in 1 .. Len(blocks) => blocks[len].used <= off
    BY <1>5
  <2>. QED BY <1>2, <1>5, <1>7, <2>1, <2>2, <2>3 DEF Allocation
<1>. QED BY <1>1, <1>5, <1>6, <1>8, <1>9, <1>10

LEMMA UsedIs ==
  ASSUME BlocksInv
  PROVE  AnArena!used \in Nat /\ Len(blocks) \in Nat /\ \A k \in 0 .. Len(blocks) : AnArena!UpTo(blocks)[k] <= AnArena!used
<1>1. Len(blocks) \in Nat /\ Len(blocks) \in 0 .. Len(blocks)
  BY DEF BlocksInv
<1>. QED BY <1>1, UpToGrows DEF BlocksInv, AnArena!used

\* So does the sum of all.
LEMMA TotalGrows ==
  ASSUME NEW s \in Seq(ArenaBlock), NEW t \in Seq(ArenaBlock), Len(s) <= Len(t),
         \A b \in 1 .. Len(s) : s[b].used <= t[b].used /\ (b < Len(s) => s[b].used = t[b].used)
  PROVE  AnArena!UpTo(s)[Len(s)] <= AnArena!UpTo(t)[Len(t)]
<1> DEFINE len == Len(s)
<1>1. /\ len \in Nat /\ Len(t) \in Nat /\ len \in 0 .. Len(t) /\ Len(t) \in 0 .. Len(t)
      /\ AnArena!UpTo(s)[0] = 0 /\ AnArena!UpTo(t)[0] = 0
  BY UpToSteps
<1>2. /\ AnArena!UpTo(t)[len] <= AnArena!UpTo(t)[Len(t)]
      /\ AnArena!UpTo(t)[len] \in Nat /\ AnArena!UpTo(t)[Len(t)] \in Nat
  BY <1>1, UpToGrows
<1>3. CASE len = 0
  BY <1>1, <1>2, <1>3
<1>4. CASE len # 0
  <2>1. len \in 1 .. Len(s) /\ len \in 1 .. Len(t) /\ len - 1 \in 0 .. Len(s)
    BY <1>1, <1>4
  <2>2. AnArena!UpTo(s)[len - 1] = AnArena!UpTo(t)[len - 1]
    <3> DEFINE m == len - 1
    <3>1. m \in Nat /\ m <= Len(s) /\ m <= Len(t) /\ m \in 0 .. m /\ \A b \in 1 .. m : b \in 1 .. Len(s) /\ b < Len(s)
      BY <1>1, <1>4
    <3>2. \A b \in 1 .. m : s[b].used = t[b].used
      BY <3>1
    <3> HIDE DEF m
    <3>3. AnArena!UpTo(s)[m] = AnArena!UpTo(t)[m]
      BY <3>1, <3>2, UpToSame
    <3>. QED BY <3>3 DEF m
  <2>3. /\ AnArena!UpTo(s)[len] = AnArena!UpTo(s)[len - 1] + s[len].used /\ s[len].used \in Nat
        /\ AnArena!UpTo(t)[len] = AnArena!UpTo(t)[len - 1] + t[len].used /\ t[len].used \in Nat
    BY <2>1, UpToSteps
  <2>4. AnArena!UpTo(s)[len - 1] \in Nat
    BY <2>1, UpToGrows
  <2>5. s[len].used <= t[len].used
    BY <2>1
  <2> HIDE DEF len
  <2>6. AnArena!UpTo(s)[len] <= AnArena!UpTo(t)[len]
    BY <2>2, <2>3, <2>4, <2>5
  <2>7. AnArena!UpTo(s)[len] \in Nat
    BY <2>3, <2>4
  <2>. QED BY <1>2, <2>6, <2>7 DEF len
<1>. QED BY <1>3, <1>4

LEMMA AllocStep ==
  ASSUME ArenaInv, NEW bytes \in Nat, NEW wanted \in Nat, AnArena!Alloc(bytes, wanted)
  PROVE  ArenaInv'
<1>1. /\ BlocksInv /\ BlocksInv' /\ Len(blocks) <= Len(blocks') /\ marks' = marks
      /\ \A b \in 1 .. Len(blocks) : blocks[b].used <= blocks'[b].used /\ (b < Len(blocks) => blocks[b].used = blocks'[b].used)
  BY AllocFacts DEF ArenaInv, AnArena!Alloc
<1>2. PICK p \in Allocation : /\ live' = Append(live, p) /\ p.block = Len(blocks') /\ p.from % p.align = 0
                              /\ p.to = blocks'[p.block].used
                              /\ p.block \in 1 .. Len(blocks) => blocks[p.block].used <= p.from
  BY <1>1, AllocFacts
<1>3. blocks \in Seq(ArenaBlock) /\ blocks' \in Seq(ArenaBlock) /\ Len(blocks) \in Nat /\ Len(blocks') \in Nat
  BY <1>1 DEF BlocksInv
<1>4. p.block \in 1 .. Len(blocks') /\ p.from \in Nat /\ p.to \in Nat /\ p.block = Len(blocks') /\ p.to = blocks'[p.block].used
  <2>1. p.block \in Nat \ {0} /\ p.from \in Nat /\ p.to \in Nat
    BY DEF Allocation
  <2>2. p.block = Len(blocks') /\ p.to = blocks'[p.block].used
    BY Zenon, <1>2
  <2>. QED BY <2>1, <2>2
<1>5. AnArena!used' = AnArena!UpTo(blocks')[Len(blocks')] /\ AnArena!used = AnArena!UpTo(blocks)[Len(blocks)]
  BY DEF AnArena!used
<1>6. AnArena!used \in Nat /\ AnArena!used' \in Nat /\ AnArena!used <= AnArena!used'
  <2>1. Len(blocks) \in 0 .. Len(blocks) /\ Len(blocks') \in 0 .. Len(blocks')
    BY <1>3
  <2>. QED BY <1>1, <1>3, <1>5, <2>1, TotalGrows, UpToGrows
<1>7. AnArena!UpTo(blocks')[p.block - 1] + p.to <= AnArena!used'
  <2>1. AnArena!UpTo(blocks')[p.block] = AnArena!UpTo(blocks')[p.block - 1] + p.to
    BY <1>3, <1>4, UpToSteps
  <2>. QED BY <1>4, <1>5, <1>6, <2>1
<1>8. Kept(live, blocks', AnArena!used')
  BY <1>1, <1>3, <1>6, KeptGrows DEF ArenaInv
<1>9. Kept(live', blocks', AnArena!used')
  <2>1. live \in Seq(Allocation) /\ Len(live) \in Nat
    BY <1>8 DEF Kept
  <2>2. /\ live' \in Seq(Allocation) /\ DOMAIN live' = 1 .. Len(live) + 1
        /\ \A i \in DOMAIN live' : (i \in DOMAIN live /\ live'[i] = live[i]) \/ (i = Len(live) + 1 /\ live'[i] = p)
    <3>1. live' = Append(live, p)
      BY Zenon, <1>2
    <3>. QED BY <2>1, <3>1
  <2>3. ASSUME NEW i \in DOMAIN live'
        PROVE  /\ live'[i].block \in DOMAIN blocks' /\ live'[i].from % live'[i].align = 0
               /\ live'[i].to <= blocks'[live'[i].block].used
               /\ AnArena!UpTo(blocks')[live'[i].block - 1] + live'[i].to <= AnArena!used'
    <3>1. CASE i \in DOMAIN live /\ live'[i] = live[i]
      BY <1>8, <3>1 DEF Kept
    <3>2. CASE live'[i] = p
      <4>1. p.from % p.align = 0
        BY Zenon, <1>2
      <4>2. p.block \in DOMAIN blocks' /\ p.to <= blocks'[p.block].used
        BY <1>3, <1>4
      <4>. QED BY Zenon, <1>7, <3>2, <4>1, <4>2
    <3>. QED BY <2>2, <3>1, <3>2
  <2>4. ASSUME NEW i \in DOMAIN live', NEW j \in DOMAIN live', i < j  PROVE AnArena!Disjoint(live'[i], live'[j])
    <3>1. i \in DOMAIN live /\ live'[i] = live[i]
      BY <2>1, <2>2, <2>4
    <3>2. CASE j \in DOMAIN live /\ live'[j] = live[j]
      BY <1>8, <2>4, <3>1, <3>2 DEF Kept
    <3>3. CASE live'[j] = p
      <4>1. SUFFICES ASSUME live[i].block = p.block  PROVE live[i].to <= p.from
        BY <3>1, <3>3 DEF AnArena!Disjoint
      <4>2. live[i].block \in 1 .. Len(blocks) /\ live[i].to <= blocks[live[i].block].used
        BY <1>3, <3>1 DEF ArenaInv, Kept
      <4>3. live[i] \in Allocation
        BY <2>1, <3>1
      <4>4. live[i].to \in Nat /\ blocks[p.block].used \in Nat
        BY <1>3, <4>1, <4>2, <4>3, UpToSteps DEF Allocation
      <4>5. p.block \in 1 .. Len(blocks) => blocks[p.block].used <= p.from
        BY Zenon, <1>2
      <4>. QED BY <1>4, <4>1, <4>2, <4>4, <4>5
    <3>. QED BY <2>2, <3>2, <3>3
  <2>. QED BY <2>2, <2>3, <2>4 DEF Kept
<1>10. MarksInv'
  <2>1. \A i \in DOMAIN marks : marks[i].mark \in Nat /\ marks[i].mark <= AnArena!used /\ Kept(marks[i].live, blocks, marks[i].mark)
    <3>1. marks \in Seq([mark : Nat, live : Seq(Allocation)])
      BY DEF ArenaInv, MarksInv
    <3> DEFINE Marked == [mark : Nat, live : Seq(Allocation)]
    <3>2. \A i \in DOMAIN marks : marks[i] \in Marked
      <4> HIDE DEF Marked
      <4>1. marks \in Seq(Marked)
        BY <3>1 DEF Marked
      <4>. QED BY <4>1
    <3>. QED BY <3>2 DEF ArenaInv, MarksInv
  <2>2. \A i \in DOMAIN marks : marks[i].mark <= AnArena!used'
    BY <1>6, <2>1
  <2>3. \A i \in DOMAIN marks : Kept(marks[i].live, blocks', marks[i].mark)
    <3> SUFFICES ASSUME NEW i \in DOMAIN marks  PROVE Kept(marks[i].live, blocks', marks[i].mark)
      OBVIOUS
    <3>1. marks[i].mark \in Nat /\ marks[i].mark <= marks[i].mark
      BY <2>1
    <3>. QED BY <1>1, <1>3, <2>1, <3>1, KeptGrows
  <2>. QED BY <1>1, <2>2, <2>3 DEF ArenaInv, MarksInv
<1>. QED BY <1>1, <1>9, <1>10 DEF ArenaInv, Kept

LEMMA MarksTyped ==
  ASSUME ArenaInv
  PROVE  /\ marks \in Seq([mark : Nat, live : Seq(Allocation)]) /\ Len(marks) \in Nat
         /\ \A i \in DOMAIN marks : /\ marks[i].mark \in Nat /\ marks[i].mark <= AnArena!used
                                    /\ Kept(marks[i].live, blocks, marks[i].mark)
<1>1. marks \in Seq([mark : Nat, live : Seq(Allocation)])
  BY DEF ArenaInv, MarksInv
<1> DEFINE Marked == [mark : Nat, live : Seq(Allocation)]
<1>2. Len(marks) \in Nat /\ \A i \in DOMAIN marks : marks[i] \in Marked
  <2> HIDE DEF Marked
  <2>1. marks \in Seq(Marked)
    BY <1>1 DEF Marked
  <2>. QED BY <2>1
<1>. QED BY <1>1, <1>2 DEF ArenaInv, MarksInv

LEMMA MarkStep ==
  ASSUME ArenaInv, AnArena!Mark
  PROVE  ArenaInv'
<1>1. /\ marks' = Append(marks, [mark |-> AnArena!used, live |-> live]) /\ blocks' = blocks /\ live' = live
      /\ AnArena!used' = AnArena!used
  BY DEF AnArena!Mark, AnArena!used
<1>2. BlocksInv' /\ Kept(live, blocks, AnArena!used)'
  BY <1>1 DEF ArenaInv, BlocksInv
<1> DEFINE m == [mark |-> AnArena!used, live |-> live]
<1>3. m.mark = AnArena!used /\ AnArena!used \in Nat /\ m.live = live /\ live \in Seq(Allocation)
  BY UsedIs DEF ArenaInv, Kept
<1>4. m \in [mark : Nat, live : Seq(Allocation)]
  BY <1>3
<1> HIDE DEF m
<1>5. /\ marks' \in Seq([mark : Nat, live : Seq(Allocation)]) /\ DOMAIN marks' = 1 .. Len(marks) + 1
      /\ \A i \in DOMAIN marks' : (i \in DOMAIN marks /\ marks'[i] = marks[i]) \/ (i = Len(marks) + 1 /\ marks'[i] = m)
  <2> DEFINE Marked == [mark : Nat, live : Seq(Allocation)]
  <2>1. marks \in Seq(Marked) /\ m \in Marked
    BY <1>4, MarksTyped
  <2>2. marks' = Append(marks, m)
    BY <1>1 DEF m
  <2> HIDE DEF Marked
  <2>3. /\ marks' \in Seq(Marked) /\ DOMAIN marks' = 1 .. Len(marks) + 1
        /\ \A i \in DOMAIN marks' : (i \in DOMAIN marks /\ marks'[i] = marks[i]) \/ (i = Len(marks) + 1 /\ marks'[i] = m)
    BY <2>1, <2>2
  <2>. QED BY <2>3 DEF Marked
<1>6. ASSUME NEW i \in DOMAIN marks'
      PROVE  marks'[i].mark <= AnArena!used' /\ Kept(marks'[i].live, blocks', marks'[i].mark)
  <2>1. CASE i \in DOMAIN marks /\ marks'[i] = marks[i]
    BY <1>1, <2>1, MarksTyped
  <2>2. CASE marks'[i] = m
    BY <1>1, <1>3, <2>2 DEF ArenaInv
  <2>. QED BY <1>5, <2>1, <2>2
<1>7. ASSUME NEW i \in DOMAIN marks', NEW j \in DOMAIN marks', i < j  PROVE marks'[i].mark <= marks'[j].mark
  <2>1. i \in DOMAIN marks /\ marks'[i] = marks[i]
    <3>1. Len(marks) \in Nat /\ i \in 1 .. Len(marks) + 1 /\ j \in 1 .. Len(marks) + 1
      BY <1>5, MarksTyped
    <3>2. i # Len(marks) + 1
      BY <1>7, <3>1
    <3>. QED BY <1>5, <3>2
  <2>2. CASE j \in DOMAIN marks /\ marks'[j] = marks[j]
    BY <1>7, <2>1, <2>2 DEF ArenaInv, MarksInv
  <2>3. CASE marks'[j] = m
    BY <1>3, <2>1, <2>3, MarksTyped
  <2>. QED BY <1>5, <2>2, <2>3
<1>8. MarksInv'
  BY <1>5, <1>6, <1>7 DEF MarksInv
<1>. QED BY <1>2, <1>8 DEF ArenaInv

LEMMA ForgetStep ==
  ASSUME ArenaInv, AnArena!Forget
  PROVE  ArenaInv'
<1>1. /\ marks # <<>> /\ marks' = SubSeq(marks, 1, Len(marks) - 1) /\ blocks' = blocks /\ live' = live
      /\ AnArena!used' = AnArena!used
  BY DEF AnArena!Forget, AnArena!used
<1>2. BlocksInv' /\ Kept(live, blocks, AnArena!used)'
  BY <1>1 DEF ArenaInv, BlocksInv
<1> DEFINE Marked == [mark : Nat, live : Seq(Allocation)]
<1>3. marks' \in Seq(Marked) /\ \A i \in DOMAIN marks' : i \in DOMAIN marks /\ marks'[i] = marks[i]
  <2>1. marks \in Seq(Marked)
    BY MarksTyped
  <2> HIDE DEF Marked
  <2>. QED BY <1>1, <2>1
<1>4. MarksInv'
  BY <1>1, <1>3, MarksTyped DEF ArenaInv, MarksInv
<1>. QED BY <1>2, <1>4 DEF ArenaInv

LEMMA ResetStep ==
  ASSUME ArenaInv, AnArena!Reset
  PROVE  ArenaInv'
<1>1. /\ blocks' = [i \in DOMAIN blocks |-> [blocks[i] EXCEPT !.used = 0]]
      /\ live' = <<>> /\ marks' = <<>>
  BY DEF AnArena!Reset
<1>2. blocks' \in Seq(ArenaBlock) /\ \A b \in DOMAIN blocks' : blocks'[b].used = 0 /\ blocks'[b].size \in Nat
  <2>1. Len(blocks) \in Nat /\ \A b \in DOMAIN blocks : blocks[b] \in ArenaBlock
    BY DEF ArenaInv, BlocksInv
  <2>2. \A b \in DOMAIN blocks : [blocks[b] EXCEPT !.used = 0] \in ArenaBlock /\ [blocks[b] EXCEPT !.used = 0].used = 0
    BY <2>1 DEF ArenaBlock
  <2>3. DOMAIN blocks = 1 .. Len(blocks)
    BY DEF ArenaInv, BlocksInv
  <2>4. \A b \in DOMAIN blocks' : blocks'[b] \in ArenaBlock /\ blocks'[b].used = 0
    BY <1>1, <2>2
  <2>. QED BY <1>1, <2>1, <2>2, <2>3, <2>4 DEF ArenaBlock
<1>3. BlocksInv'
  BY <1>2 DEF BlocksInv
<1>4. Kept(live', blocks', AnArena!used')
  BY <1>1 DEF Kept
<1>5. MarksInv'
  BY <1>1 DEF MarksInv
<1>. QED BY <1>3, <1>4, <1>5 DEF ArenaInv

LEMMA ResetToStep ==
  ASSUME ArenaInv, NEW i \in DOMAIN marks, AnArena!ResetTo(i)
  PROVE  ArenaInv'
<1> DEFINE m == marks[i].mark
           t == AnArena!Rewound(m)
<1>1. blocks' = t /\ live' = marks[i].live /\ marks' = SubSeq(marks, 1, i)
  BY DEF AnArena!ResetTo
<1>2. blocks \in Seq(ArenaBlock) /\ m \in Nat /\ m <= AnArena!used /\ AnArena!used \in Nat /\ Len(blocks) \in Nat
  BY MarksTyped, UsedIs DEF ArenaInv, BlocksInv
<1>3. /\ t \in Seq(ArenaBlock) /\ Len(t) = Len(blocks)
      /\ \A b \in 1 .. Len(blocks) : t[b].used <= blocks[b].used /\ t[b].size = blocks[b].size
      /\ \A k \in 0 .. Len(blocks) : AnArena!UpTo(t)[k] = AnArena!Least(AnArena!UpTo(blocks)[k], m)
  <2> HIDE DEF m
  <2>. QED BY <1>2, RewoundSums
<1>4. AnArena!used' = m
  <2>1. AnArena!used' = AnArena!UpTo(t)[Len(blocks)]
    BY <1>1, <1>3 DEF AnArena!used
  <2>2. AnArena!used' = AnArena!Least(AnArena!used, m)
    BY <1>2, <1>3, <2>1 DEF AnArena!used
  <2> HIDE DEF m
  <2>. QED BY <1>2, <2>2 DEF AnArena!Least
<1>5. BlocksInv'
  <2> SUFFICES ASSUME NEW b \in 1 .. Len(blocks)  PROVE t[b].used <= t[b].size
    BY <1>1, <1>3 DEF BlocksInv
  <2>1. t[b] \in ArenaBlock /\ blocks[b] \in ArenaBlock /\ blocks[b].used <= blocks[b].size
    BY <1>2, <1>3 DEF ArenaInv, BlocksInv
  <2> HIDE DEF t
  <2>. QED BY <1>3, <2>1 DEF ArenaBlock
<1>6. \A j \in DOMAIN marks : j <= i => marks[j].mark <= m
  BY MarksTyped DEF ArenaInv, MarksInv
<1>7. \A j \in DOMAIN marks : j <= i => Kept(marks[j].live, blocks', marks[j].mark)
  <2> SUFFICES ASSUME NEW j \in DOMAIN marks, j <= i  PROVE Kept(marks[j].live, t, marks[j].mark)
    BY <1>1
  <2>1. marks[j].mark \in Nat /\ marks[j].mark <= m /\ Kept(marks[j].live, blocks, marks[j].mark)
    BY <1>6, MarksTyped
  <2> HIDE DEF m
  <2>. QED BY <1>2, <2>1, KeptRewound
<1>8. i \in 1 .. Len(marks) /\ Len(marks) \in Nat /\ i <= i
  BY MarksTyped
<1> DEFINE Marked == [mark : Nat, live : Seq(Allocation)]
<1>9. marks' \in Seq(Marked) /\ \A j \in DOMAIN marks' : j \in DOMAIN marks /\ j <= i /\ marks'[j] = marks[j]
  <2>1. marks \in Seq(Marked)
    BY MarksTyped
  <2> HIDE DEF Marked
  <2>. QED BY <1>1, <1>8, <2>1
<1>10. MarksInv'
  BY <1>4, <1>6, <1>7, <1>9 DEF ArenaInv, MarksInv
<1>11. Kept(live', blocks', AnArena!used')
  BY <1>1, <1>4, <1>7, <1>8
<1>. QED BY <1>5, <1>10, <1>11 DEF ArenaInv

LEMMA ArenaInit == AnArena!Init => ArenaInv
BY DEF AnArena!Init, ArenaInv, BlocksInv, Kept, MarksInv

LEMMA ArenaStep == ArenaInv /\ [AnArena!Next]_AnArena!vars => ArenaInv'
<1> SUFFICES ASSUME ArenaInv, [AnArena!Next]_AnArena!vars  PROVE ArenaInv'
  OBVIOUS
<1>1. ASSUME NEW r \in Requests, AnArena!Alloc(r[1], r[2])  PROVE ArenaInv'
  <2>1. r[1] \in Nat /\ r[2] \in Nat
    BY ComponentsAssumption DEF ComponentsAssumption
  <2>. QED BY <1>1, <2>1, AllocStep
<1>2. CASE UNCHANGED AnArena!vars
  BY <1>2 DEF AnArena!vars, ArenaInv, BlocksInv, Kept, MarksInv, AnArena!used
<1>. QED BY <1>1, <1>2, MarkStep, ForgetStep, ResetStep, ResetToStep DEF AnArena!Next

LEMMA ArenaImplies == ArenaInv => LiveDisjoint
<1> SUFFICES ASSUME ArenaInv  PROVE AnArena!LiveDisjoint
  BY DEF LiveDisjoint
<1>1. ASSUME NEW i \in DOMAIN live
      PROVE  /\ live[i].block \in DOMAIN blocks
             /\ live[i].to <= blocks[live[i].block].used /\ blocks[live[i].block].used <= blocks[live[i].block].size
             /\ live[i].from % live[i].align = 0
  BY DEF ArenaInv, Kept, BlocksInv
<1>2. \A i, j \in DOMAIN live : i < j => AnArena!Disjoint(live[i], live[j])
  BY DEF ArenaInv, Kept
<1>. QED BY <1>1, <1>2, MarksTyped DEF AnArena!LiveDisjoint

\* Whatever an arena is asked for, marked and rewound to: memory that may be used is aligned, inside its
\* block and below what counts as used, and no two allocations overlap, Arena::alloc_bytes and reset_to.
THEOREM ArenaTheorem == AnArena!Spec => []LiveDisjoint
BY ArenaInit, ArenaStep, ArenaImplies, PTL DEF AnArena!Spec

-----------------------------------------------------------------------------
\* GpuReduce.

Command == [op : {"sum", "copy"}, input : Seq(Int), held : BOOLEAN]

ReduceType ==
  /\ input \in Seq(Int) /\ partials \in Seq(Int) /\ readback \in Seq(Int)
  /\ pc \in {"idle", "partials", "readback", "launch", "copy", "wait", "ok", "failed"}
  /\ commands \in Seq(Command) /\ loose \in BOOLEAN

\* What was submitted stays inside its blocks; a copy is the last command of the call that waits for it.
QueueInv ==
  /\ \A i \in DOMAIN commands :
       IF commands[i].held
         THEN /\ Reduction!ChunksOf(commands[i].input) <= Len(partials)
              /\ commands[i].op = "copy" => Reduction!ChunksOf(commands[i].input) <= Len(readback)
         ELSE loose
  /\ \A i \in DOMAIN commands : commands[i].op = "copy" => pc = "wait" /\ i = Len(commands)
  /\ pc \notin {"copy", "wait"} /\ ~loose => commands = <<>>

Holds(block) == \A c \in 1 .. Reduction!Chunks : block[c] = Reduction!SumOf(input, c)
Asked(i, op) == commands[i] = [op |-> op, input |-> input, held |-> TRUE]

\* The blocks are large enough once they were ensured; the sums are in a block, or the command that
\* brings them there is the last but those that follow it.
SumsInv ==
  /\ pc \in {"readback", "launch", "copy", "wait"} => Reduction!Chunks <= Len(partials)
  /\ pc \in {"launch", "copy", "wait"} => Reduction!Chunks <= Len(readback)
  /\ pc = "copy" /\ commands = <<>> => Holds(partials)
  /\ pc = "copy" /\ commands # <<>> => Asked(Len(commands), "sum")
  /\ pc = "wait" /\ commands = <<>> => Holds(readback)
  /\ pc = "wait" /\ commands # <<>> => Asked(Len(commands), "copy")
  /\ pc = "wait" /\ Len(commands) = 1 => Holds(partials)
  /\ pc = "wait" /\ Len(commands) > 1 => Asked(Len(commands) - 1, "sum")
  /\ pc = "ok" => result = Reduction!Sum(input)

ReduceInv == ReduceType /\ QueueInv /\ SumsInv

LEMMA ReduceConstants == chunk_size \in Nat /\ 0 < chunk_size /\ Junk \in Int /\ Inputs \subseteq Seq(Int)
BY ComponentsAssumption DEF ComponentsAssumption

\* The sum is what its recursion says: a function that satisfies it up to m extends to m + 1.
LEMMA SumToIs ==
  ASSUME NEW s \in Seq(Int)
  PROVE  Reduction!SumTo(s) = [k \in 0 .. Len(s) |-> IF k = 0 THEN 0 ELSE Reduction!SumTo(s)[k - 1] + s[k]]
<1> DEFINE Sums(f, m) == f = [k \in 0 .. m |-> IF k = 0 THEN 0 ELSE f[k - 1] + s[k]]
           Bad == {m \in Nat : m <= Len(s) /\ ~(\E f : Sums(f, m))}
<1>1. Len(s) \in Nat
  OBVIOUS
<1>2. Bad = {}
  <2>1. SUFFICES ASSUME Bad # {}  PROVE FALSE
    OBVIOUS
  <2>2. PICK m \in Bad : \A i \in Bad : m <= i
    <3>1. Bad \subseteq Nat
      OBVIOUS
    <3> HIDE DEF Bad
    <3>. QED BY <2>1, <3>1, LeastOf
  <2>3. m # 0
    <3> DEFINE f == [k \in 0 .. 0 |-> 0]
    <3>1. Sums(f, 0)
      OBVIOUS
    <3>. QED BY <2>2, <3>1
  <2>4. m \in Nat /\ m <= Len(s) /\ m - 1 \in Nat /\ m - 1 <= Len(s) /\ m - 1 \notin Bad
    <3>1. m \in Nat /\ m <= Len(s)
      BY <2>2
    <3>2. m - 1 \in Nat /\ m - 1 <= Len(s)
      BY <1>1, <2>3, <3>1
    <3>3. m - 1 \notin Bad
      <4> HIDE DEF Bad
      <4>. QED BY <2>2, <3>1, <3>2
    <3>. QED BY <3>1, <3>2, <3>3
  <2>5. PICK f : Sums(f, m - 1)
    BY <2>4
  <2> DEFINE g == [k \in 0 .. m |-> IF k = m THEN f[m - 1] + s[m] ELSE f[k]]
  <2>6. Sums(g, m)
    <3>1. ASSUME NEW k \in 0 .. m  PROVE g[k] = IF k = 0 THEN 0 ELSE g[k - 1] + s[k]
      BY <2>3, <2>4, <2>5, <3>1
    <3>. QED BY <3>1
  <2>. QED BY <2>2, <2>6
<1>3. PICK f : Sums(f, Len(s))
  <2>1. Len(s) \notin Bad
    BY <1>2
  <2>. QED BY <1>1, <2>1
<1> DEFINE Whole(h) == Sums(h, Len(s))
<1>4. Reduction!SumTo(s) = CHOOSE h : Whole(h)
  BY DEF Reduction!SumTo
<1>5. Whole(f)
  BY <1>3
<1> HIDE DEF Whole
<1>6. Whole(Reduction!SumTo(s))
  BY <1>4, <1>5
<1>. QED BY <1>6 DEF Whole

LEMMA SumToSteps ==
  ASSUME NEW s \in Seq(Int)
  PROVE  /\ Reduction!SumTo(s)[0] = 0
         /\ \A k \in 1 .. Len(s) : s[k] \in Int /\ Reduction!SumTo(s)[k] = Reduction!SumTo(s)[k - 1] + s[k]
<1> DEFINE f == Reduction!SumTo(s)
<1>1. f = [k \in 0 .. Len(s) |-> IF k = 0 THEN 0 ELSE f[k - 1] + s[k]]
  BY SumToIs
<1>2. Len(s) \in Nat /\ \A k \in 1 .. Len(s) : s[k] \in Int
  OBVIOUS
<1> HIDE DEF f
<1>3. f[0] = 0
  BY <1>1, <1>2
<1>4. ASSUME NEW k \in 1 .. Len(s)  PROVE f[k] = f[k - 1] + s[k]
  <2>1. k \in 0 .. Len(s) /\ k # 0
    BY <1>2
  <2> HIDE DEF f
  <2>. QED BY <1>1, <2>1
<1>. QED BY <1>2, <1>3, <1>4 DEF f

LEMMA SumToTyped ==
  ASSUME NEW s \in Seq(Int)
  PROVE  \A k \in 0 .. Len(s) : Reduction!SumTo(s)[k] \in Int
<1> DEFINE f == Reduction!SumTo(s)
           Bad == {k \in Nat : k <= Len(s) /\ f[k] \notin Int}
<1>1. Len(s) \in Nat /\ f[0] = 0 /\ \A k \in 1 .. Len(s) : s[k] \in Int /\ f[k] = f[k - 1] + s[k]
  BY SumToSteps
<1> HIDE DEF f
<1>2. SUFFICES ASSUME Bad # {}  PROVE FALSE
  BY <1>1 DEF f
<1>3. PICK k \in Bad : \A i \in Bad : k <= i
  <2>1. Bad \subseteq Nat
    OBVIOUS
  <2> HIDE DEF Bad
  <2>. QED BY <1>2, <2>1, LeastOf
<1>4. k \in Nat /\ k <= Len(s) /\ f[k] \notin Int
  BY <1>3
<1>5. k # 0
  BY <1>1, <1>4
<1>6. k - 1 \in Nat /\ k - 1 <= Len(s) /\ ~ (k <= k - 1)
  BY <1>1, <1>4, <1>5
<1>7. k - 1 \notin Bad
  BY <1>3, <1>6
<1>8. f[k - 1] \in Int
  BY <1>6, <1>7
<1>. QED BY <1>1, <1>4, <1>5, <1>8

\* What a slice of s sums up to is what s sums up to over the slice.
LEMMA SliceSums ==
  ASSUME NEW s \in Seq(Int), NEW a \in Nat, NEW b \in Nat, a <= b, b <= Len(s)
  PROVE  /\ SubSeq(s, a + 1, b) \in Seq(Int)
         /\ Reduction!Sum(SubSeq(s, a + 1, b)) = Reduction!SumTo(s)[b] - Reduction!SumTo(s)[a]
<1> DEFINE t == SubSeq(s, a + 1, b)
           f == Reduction!SumTo(s)
           g == Reduction!SumTo(t)
           Bad == {k \in Nat : k <= b - a /\ g[k] # f[a + k] - f[a]}
<1>1. t \in Seq(Int) /\ Len(t) = b - a /\ \A k \in 1 .. b - a : t[k] = s[a + k]
  <2>1. Len(s) \in Nat /\ a + 1 \in 1 .. Len(s) + 1 /\ b \in a + 1 - 1 .. Len(s)
    OBVIOUS
  <2>2. t = [k \in 1 .. b - a |-> s[a + k]]
    BY <2>1
  <2>3. \A k \in 1 .. b - a : s[a + k] \in Int
    BY <2>1
  <2> HIDE DEF t
  <2>. QED BY <2>2, <2>3
<1>2. /\ Len(s) \in Nat /\ \A k \in 1 .. Len(s) : s[k] \in Int /\ f[k] = f[k - 1] + s[k]
      /\ \A k \in 0 .. Len(s) : f[k] \in Int
  BY SumToSteps, SumToTyped
<1>3. g[0] = 0 /\ \A k \in 1 .. b - a : g[k] = g[k - 1] + t[k]
  <2> HIDE DEF t
  <2>. QED BY <1>1, SumToSteps
<1> HIDE DEF f, g, t
<1>4. Bad = {}
  <2>1. SUFFICES ASSUME Bad # {}  PROVE FALSE
    OBVIOUS
  <2>2. PICK k \in Bad : \A i \in Bad : k <= i
    <3>1. Bad \subseteq Nat
      OBVIOUS
    <3> HIDE DEF Bad
    <3>. QED BY <2>1, <3>1, LeastOf
  <2>3. k \in Nat /\ k <= b - a /\ g[k] # f[a + k] - f[a]
    BY <2>2
  <2>4. k # 0
    <3>1. a \in 0 .. Len(s) /\ a + 0 = a
      BY <1>2
    <3>2. f[a] \in Int
      BY <1>2, <3>1
    <3>. QED BY <1>3, <2>3, <3>1, <3>2
  <2>5. k - 1 \in Nat /\ k - 1 <= b - a /\ ~ (k <= k - 1)
    BY <2>3, <2>4
  <2>6. k - 1 \notin Bad
    BY <2>2, <2>5
  <2>7. g[k - 1] = f[a + (k - 1)] - f[a]
    BY <2>5, <2>6
  <2> HIDE DEF Bad
  <2>8. k \in 1 .. b - a /\ a + k \in 1 .. Len(s) /\ (a + k) - 1 = a + (k - 1)
    BY <1>2, <2>3, <2>4
  <2>9. f[a + k] = f[a + (k - 1)] + s[a + k] /\ g[k] = g[k - 1] + s[a + k] /\ s[a + k] \in Int
    BY <1>1, <1>2, <1>3, <2>8
  <2>10. f[a] \in Int /\ f[a + (k - 1)] \in Int
    BY <1>2, <2>3, <2>5
  <2>. QED BY <2>3, <2>7, <2>9, <2>10
<1>5. b - a \in Nat /\ a + (b - a) = b
  OBVIOUS
<1>6. g[b - a] = f[b] - f[a]
  BY <1>4, <1>5
<1>. QED BY <1>1, <1>6 DEF Reduction!Sum, f, g, t

\* The chunks of v cover it, and none begins past its end.
LEMMA ChunkCount ==
  ASSUME NEW v \in Seq(Int)
  PROVE  /\ Reduction!ChunksOf(v) \in Nat
         /\ Len(v) <= chunk_size * Reduction!ChunksOf(v)
         /\ \A c \in 1 .. Reduction!ChunksOf(v) : /\ (c - 1) * chunk_size \in Nat /\ c * chunk_size \in Nat
                                                  /\ c * chunk_size = (c - 1) * chunk_size + chunk_size
                                                  /\ (c - 1) * chunk_size < Len(v)
<1> DEFINE len == Len(v)
           b == chunk_size
           k == Reduction!ChunksOf(v)
           a == len + b - 1
<1>1. len \in Nat /\ b \in Nat /\ 0 < b /\ a \in Nat
  BY ReduceConstants
<1>2. k = a \div b
  BY DEF Reduction!ChunksOf
<1> HIDE DEF k, b, len
<1>3. k \in Nat /\ b * k <= a /\ a < b * k + b
  BY <1>1, <1>2, DivisionBounds
<1>4. len <= b * k /\ b * k < len + b
  BY <1>1, <1>3
<1>5. ASSUME NEW c \in 1 .. k
      PROVE  (c - 1) * b \in Nat /\ c * b \in Nat /\ c * b = (c - 1) * b + b /\ (c - 1) * b < len
  <2>1. c \in Nat /\ c - 1 \in Nat /\ c <= k
    OBVIOUS
  <2>2. (c - 1) * b \in Nat /\ c * b \in Nat /\ c * b = (c - 1) * b + b
    BY <1>1, <2>1
  <2>3. c * b <= k * b
    <3>1. CASE c = k
      BY <1>1, <2>2, <3>1
    <3>2. CASE c < k
      <4>1. c * b + b <= k * b
        BY <1>1, <1>3, <2>1, <3>2, MultiplesApart
      <4>. QED BY <1>1, <1>3, <2>2, <4>1
    <3>. QED BY <1>3, <2>1, <3>1, <3>2
  <2>4. k * b = b * k
    BY <1>1, <1>3
  <2>. QED BY <1>1, <1>3, <1>4, <2>2, <2>3, <2>4
<1>. QED BY <1>3, <1>4, <1>5 DEF k, b, len

\* The sums of the chunks of v sum up to that of v.
LEMMA ChunksSumUp ==
  ASSUME NEW v \in Seq(Int), NEW r \in Seq(Int), Len(r) = Reduction!ChunksOf(v),
         \A c \in 1 .. Reduction!ChunksOf(v) : r[c] = Reduction!SumOf(v, c)
  PROVE  Reduction!Sum(r) = Reduction!Sum(v)
<1> DEFINE len == Len(v)
           b == chunk_size
           k == Reduction!ChunksOf(v)
           f == Reduction!SumTo(v)
           g == Reduction!SumTo(r)
           To(c) == IF len < c * b THEN len ELSE c * b
           Bad == {c \in Nat : c <= k /\ g[c] # f[To(c)]}
<1>1. /\ len \in Nat /\ b \in Nat /\ 0 < b /\ k \in Nat /\ len <= b * k
      /\ \A c \in 1 .. k : (c - 1) * b \in Nat /\ c * b \in Nat /\ c * b = (c - 1) * b + b /\ (c - 1) * b < len
  BY ReduceConstants, ChunkCount
<1>2. f[0] = 0 /\ \A c \in 0 .. len : f[c] \in Int
  BY SumToSteps, SumToTyped
<1>3. g[0] = 0 /\ \A c \in 1 .. k : g[c] = g[c - 1] + r[c]
  BY SumToSteps
<1>4. ASSUME NEW c \in 1 .. k  PROVE r[c] = f[To(c)] - f[To(c - 1)]
  <2>1. (c - 1) * b \in Nat /\ c * b \in Nat /\ c * b = (c - 1) * b + b /\ (c - 1) * b < len
    BY <1>1
  <2>2. To(c - 1) = (c - 1) * b /\ To(c) \in Nat /\ (c - 1) * b <= To(c) /\ To(c) <= len
    <3> HIDE DEF len, b
    <3>. QED BY <1>1, <2>1
  <2>3. r[c] = Reduction!Sum(SubSeq(v, (c - 1) * b + 1, To(c)))
    BY <2>1 DEF Reduction!SumOf, Reduction!Least
  <2>4. Reduction!Sum(SubSeq(v, (c - 1) * b + 1, To(c))) = f[To(c)] - f[(c - 1) * b]
    <3> HIDE DEF To, b
    <3>. QED BY <2>1, <2>2, SliceSums
  <2> HIDE DEF To, f
  <2>. QED BY <2>2, <2>3, <2>4
<1>5. \A c \in 0 .. k : To(c) \in 0 .. len
  <2> HIDE DEF len, b
  <2>1. To(0) \in 0 .. len
    BY <1>1
  <2>2. \A c \in 1 .. k : To(c) \in 0 .. len
    BY <1>1
  <2>. QED BY <1>1, <2>1, <2>2
<1> HIDE DEF len, b, k, f, g
<1>6. To(0) = 0
  BY <1>1
<1>7. To(k) = len
  <2>1. b * k = k * b
    BY <1>1
  <2>. QED BY <1>1, <2>1
<1> HIDE DEF To
<1>8. Bad = {}
  <2>1. SUFFICES ASSUME Bad # {}  PROVE FALSE
    OBVIOUS
  <2>2. PICK c \in Bad : \A i \in Bad : c <= i
    <3>1. Bad \subseteq Nat
      OBVIOUS
    <3> HIDE DEF Bad
    <3>. QED BY <2>1, <3>1, LeastOf
  <2>3. c \in Nat /\ c <= k /\ g[c] # f[To(c)]
    BY <2>2
  <2>4. c # 0
    BY <1>2, <1>3, <1>6, <2>3
  <2>5. c - 1 \in Nat /\ c - 1 <= k /\ ~ (c <= c - 1)
    BY <1>1, <2>3, <2>4
  <2>6. c - 1 \notin Bad
    BY <2>2, <2>5
  <2>7. g[c - 1] = f[To(c - 1)]
    BY <2>5, <2>6
  <2> HIDE DEF Bad
  <2>8. c \in 1 .. k /\ c \in 0 .. k /\ c - 1 \in 0 .. k
    BY <1>1, <2>3, <2>4, <2>5
  <2>9. f[To(c)] \in Int /\ f[To(c - 1)] \in Int
    BY <1>2, <1>5, <2>8
  <2>. QED BY <1>3, <1>4, <2>3, <2>7, <2>8, <2>9
<1>9. g[k] = f[len]
  <2>1. k \notin Bad /\ k \in Nat /\ k <= k
    BY <1>1, <1>8
  <2>2. g[k] = f[To(k)]
    BY <2>1
  <2>. QED BY <1>7, <2>2
<1>. QED BY <1>9 DEF Reduction!Sum, f, g, k, len

\* What the invariant says of lengths and domains.
LEMMA ReduceTypes ==
  ASSUME ReduceInv
  PROVE  /\ Reduction!Chunks \in Nat /\ Len(commands) \in Nat /\ DOMAIN commands = 1 .. Len(commands)
         /\ \A i \in DOMAIN commands : commands[i] \in Command /\ Reduction!ChunksOf(commands[i].input) \in Nat
         /\ Len(partials) \in Nat /\ Len(readback) \in Nat
         /\ DOMAIN partials = 1 .. Len(partials) /\ DOMAIN readback = 1 .. Len(readback)
<1>1. input \in Seq(Int) /\ partials \in Seq(Int) /\ readback \in Seq(Int) /\ commands \in Seq(Command)
  BY DEF ReduceInv, ReduceType
<1>2. \A i \in DOMAIN commands : commands[i] \in Command
  BY <1>1
<1>3. \A i \in DOMAIN commands : commands[i].input \in Seq(Int)
  BY <1>2 DEF Command
<1>. QED BY <1>1, <1>2, <1>3, ChunkCount DEF Reduction!Chunks

LEMMA FreshIs ==
  ASSUME NEW m \in Nat
  PROVE  Reduction!Fresh(m) \in Seq(Int) /\ Len(Reduction!Fresh(m)) = m
BY ReduceConstants DEF Reduction!Fresh

LEMMA CallStep == ASSUME ReduceInv, Reduction!Call PROVE ReduceInv'
<1>1. PICK v \in Inputs : input' = v /\ IF v = <<>> THEN pc' = "ok" /\ result' = 0
                                        ELSE pc' = "partials" /\ UNCHANGED result
  BY DEF Reduction!Call
<1>2. pc = "idle" /\ UNCHANGED <<partials, readback, commands, loose>>
  BY DEF Reduction!Call
<1>3. v \in Seq(Int)
  BY <1>1, ReduceConstants
<1>4. ReduceType'
  BY <1>1, <1>2, <1>3 DEF ReduceInv, ReduceType
<1>5. QueueInv'
  BY <1>1, <1>2 DEF ReduceInv, QueueInv
<1>6. SumsInv'
  <2>1. CASE v = <<>>
    <3>1. Len(v) = 0 /\ Reduction!Sum(v) = 0
      BY <1>3, <2>1, SumToSteps DEF Reduction!Sum
    <3>. QED BY <1>1, <2>1, <3>1 DEF SumsInv
  <2>2. CASE v # <<>>
    BY <1>1, <2>2 DEF SumsInv
  <2>. QED BY <2>1, <2>2
<1>. QED BY <1>4, <1>5, <1>6 DEF ReduceInv

\* A call that fails leaves what it submitted to the calls after it.
LEMMA FailStep ==
  ASSUME ReduceInv, Reduction!Fails, loose' \in BOOLEAN, loose => loose', commands = <<>> \/ loose',
         \A i \in DOMAIN commands : commands[i].op # "copy"
  PROVE  ReduceInv'
<1>1. pc' = "failed" /\ UNCHANGED <<input, partials, readback, commands, result, calls>>
  BY DEF Reduction!Fails
<1>2. ReduceType'
  BY <1>1 DEF ReduceInv, ReduceType
<1>3. QueueInv'
  BY <1>1 DEF ReduceInv, QueueInv
<1>4. SumsInv'
  BY <1>1 DEF SumsInv
<1>. QED BY <1>2, <1>3, <1>4 DEF ReduceInv

LEMMA EnsurePartialsStep == ASSUME ReduceInv, Reduction!EnsurePartials PROVE ReduceInv'
<1> DEFINE Freed == [i \in DOMAIN commands |-> [commands[i] EXCEPT !.held = FALSE]]
<1>1. pc = "partials" /\ (commands = <<>> \/ loose) /\ \A i \in DOMAIN commands : commands[i].op # "copy"
  BY DEF Reduction!EnsurePartials, ReduceInv, QueueInv
<1>2. loose \in BOOLEAN
  BY DEF ReduceInv, ReduceType
<1>3. CASE Reduction!Fails /\ UNCHANGED loose
  BY <1>1, <1>2, <1>3, FailStep
<1>4. CASE /\ Len(partials) < Reduction!Chunks
           /\ partials' = Reduction!Fresh(Reduction!Chunks) /\ commands' = Freed
           /\ pc' = "readback" /\ UNCHANGED <<input, readback, loose, result, calls>>
  <2>1. partials' \in Seq(Int) /\ Len(partials') = Reduction!Chunks
    BY <1>4, ReduceTypes, FreshIs
  <2>2. commands' \in Seq(Command) /\ DOMAIN commands' = DOMAIN commands
    <3>1. \A i \in 1 .. Len(commands) : [commands[i] EXCEPT !.held = FALSE] \in Command
      BY ReduceTypes DEF Command
    <3>. QED BY <1>4, <3>1, ReduceTypes
  <2>3. \A i \in DOMAIN commands' : ~commands'[i].held /\ commands'[i].op # "copy" /\ loose
    <3>1. \A i \in DOMAIN commands : Freed[i].held = FALSE /\ Freed[i].op = commands[i].op
      BY ReduceTypes DEF Command
    <3>2. \A i \in DOMAIN commands : loose
      BY <1>1
    <3>. QED BY <1>1, <1>4, <2>2, <3>1, <3>2
  <2>4. commands = <<>> => commands' = <<>>
    BY <1>4
  <2>5. ReduceType'
    BY <1>4, <2>1, <2>2 DEF ReduceInv, ReduceType
  <2>6. QueueInv'
    BY <1>1, <1>4, <2>3, <2>4 DEF QueueInv
  <2>7. SumsInv'
    <3>1. Reduction!Chunks' = Reduction!Chunks
      BY <1>4 DEF Reduction!Chunks
    <3>. QED BY <1>4, <2>1, <3>1, ReduceTypes DEF SumsInv
  <2>. QED BY <2>5, <2>6, <2>7 DEF ReduceInv
<1>5. CASE /\ ~ (Len(partials) < Reduction!Chunks) /\ UNCHANGED <<partials, commands>>
           /\ pc' = "readback" /\ UNCHANGED <<input, readback, loose, result, calls>>
  <2>1. ReduceType'
    BY <1>5 DEF ReduceInv, ReduceType
  <2>2. QueueInv'
    BY <1>1, <1>5 DEF ReduceInv, QueueInv
  <2>3. SumsInv'
    <3>1. Reduction!Chunks' = Reduction!Chunks /\ Reduction!Chunks <= Len(partials)
      BY <1>5, ReduceTypes DEF Reduction!Chunks
    <3>. QED BY <1>5, <3>1 DEF SumsInv
  <2>. QED BY <2>1, <2>2, <2>3 DEF ReduceInv
<1>. QED BY <1>3, <1>4, <1>5 DEF Reduction!EnsurePartials

LEMMA EnsureReadbackStep == ASSUME ReduceInv, Reduction!EnsureReadback PROVE ReduceInv'
<1>1. pc = "readback" /\ (commands = <<>> \/ loose) /\ \A i \in DOMAIN commands : commands[i].op # "copy"
  BY DEF Reduction!EnsureReadback, ReduceInv, QueueInv
<1>2. loose \in BOOLEAN
  BY DEF ReduceInv, ReduceType
<1>3. CASE Reduction!Fails /\ UNCHANGED loose
  BY <1>1, <1>2, <1>3, FailStep
<1>4. CASE /\ readback' = IF Len(readback) < Reduction!Chunks THEN Reduction!Fresh(Reduction!Chunks) ELSE readback
           /\ pc' = "launch" /\ UNCHANGED <<input, partials, commands, loose, result, calls>>
  <2>1. readback' \in Seq(Int) /\ Reduction!Chunks <= Len(readback')
    <3>1. readback \in Seq(Int)
      BY DEF ReduceInv, ReduceType
    <3>. QED BY <1>4, <3>1, ReduceTypes, FreshIs
  <2>2. ReduceType'
    BY <1>4, <2>1 DEF ReduceInv, ReduceType
  <2>3. QueueInv'
    BY <1>1, <1>4 DEF ReduceInv, QueueInv
  <2>4. SumsInv'
    <3>1. Reduction!Chunks' = Reduction!Chunks /\ Reduction!Chunks <= Len(partials)
      BY <1>1, <1>4 DEF Reduction!Chunks, ReduceInv, SumsInv
    <3>. QED BY <1>4, <2>1, <3>1 DEF SumsInv
  <2>. QED BY <2>2, <2>3, <2>4 DEF ReduceInv
<1>. QED BY <1>3, <1>4 DEF Reduction!EnsureReadback

\* A command of a call whose blocks were ensured goes to the end of the queue.
LEMMA Submitted ==
  ASSUME ReduceInv, NEW op \in {"sum", "copy"}, NEW next, Reduction!Submit(op, next)
  PROVE  /\ commands' \in Seq(Command) /\ Len(commands') = Len(commands) + 1 /\ Len(commands') \in Nat
         /\ \A i \in DOMAIN commands : commands'[i] = commands[i]
         /\ commands'[Len(commands')] = [op |-> op, input |-> input, held |-> TRUE]
         /\ DOMAIN commands' = DOMAIN commands \cup {Len(commands')}
         /\ commands' # <<>>
         /\ pc' = next /\ UNCHANGED <<input, partials, readback, loose, result>>
<1> DEFINE k == [op |-> op, input |-> input, held |-> TRUE]
<1>1. commands \in Seq(Command) /\ k \in Command
  BY DEF ReduceInv, ReduceType, Command
<1>2. commands' = Append(commands, k) /\ pc' = next /\ UNCHANGED <<input, partials, readback, loose, result>>
  BY DEF Reduction!Submit
<1> HIDE DEF k
<1>. QED BY <1>1, <1>2 DEF k

LEMMA LaunchStep == ASSUME ReduceInv, Reduction!Launch PROVE ReduceInv'
<1>1. pc = "launch" /\ (commands = <<>> \/ loose) /\ \A i \in DOMAIN commands : commands[i].op # "copy"
  BY DEF Reduction!Launch, ReduceInv, QueueInv
<1>2. CASE Reduction!SubmitThrows
  <2>1. Reduction!Fails /\ loose' = (loose \/ commands # <<>>)
    BY <1>2 DEF Reduction!SubmitThrows
  <2>2. loose' \in BOOLEAN /\ (loose => loose') /\ (commands = <<>> \/ loose')
    BY <2>1 DEF ReduceInv, ReduceType
  <2>. QED BY <1>1, <2>1, <2>2, FailStep
<1>3. CASE Reduction!Submit("sum", "copy")
  <2>1. /\ commands' \in Seq(Command) /\ Len(commands') = Len(commands) + 1 /\ Len(commands') \in Nat
        /\ \A i \in DOMAIN commands : commands'[i] = commands[i]
        /\ commands'[Len(commands')] = [op |-> "sum", input |-> input, held |-> TRUE]
        /\ DOMAIN commands' = DOMAIN commands \cup {Len(commands')}
        /\ commands' # <<>>
        /\ pc' = "copy" /\ UNCHANGED <<input, partials, readback, loose, result>>
    BY <1>3, Submitted
  <2>2. Reduction!Chunks <= Len(partials) /\ Reduction!Chunks <= Len(readback)
    BY <1>1 DEF ReduceInv, SumsInv
  <2>3. ReduceType'
    BY <2>1 DEF ReduceInv, ReduceType
  <2>4. QueueInv'
    <3> SUFFICES ASSUME NEW i \in DOMAIN commands'
                 PROVE  /\ commands'[i].op # "copy"
                        /\ IF commands'[i].held THEN Reduction!ChunksOf(commands'[i].input) <= Len(partials) ELSE loose
      BY <2>1 DEF QueueInv
    <3>1. CASE i = Len(commands')
      BY <2>1, <2>2, <3>1 DEF Reduction!Chunks
    <3>2. CASE i \in DOMAIN commands
      BY <1>1, <2>1, <3>2 DEF ReduceInv, QueueInv
    <3>. QED BY <2>1, <3>1, <3>2
  <2>5. SumsInv'
    <3>1. Reduction!Chunks' = Reduction!Chunks
      BY <2>1 DEF Reduction!Chunks
    <3>. QED BY <2>1, <2>2, <3>1 DEF SumsInv, Asked
  <2>. QED BY <2>3, <2>4, <2>5 DEF ReduceInv
<1>. QED BY <1>2, <1>3 DEF Reduction!Launch

LEMMA CopyStep == ASSUME ReduceInv, Reduction!Copy PROVE ReduceInv'
<1>1. pc = "copy" /\ \A i \in DOMAIN commands : commands[i].op # "copy"
  BY DEF Reduction!Copy, ReduceInv, QueueInv
<1>2. CASE Reduction!SubmitThrows
  <2>1. Reduction!Fails /\ loose' = (loose \/ commands # <<>>)
    BY <1>2 DEF Reduction!SubmitThrows
  <2>2. loose' \in BOOLEAN /\ (loose => loose') /\ (commands = <<>> \/ loose')
    BY <2>1 DEF ReduceInv, ReduceType
  <2>. QED BY <1>1, <2>1, <2>2, FailStep
<1>3. CASE Reduction!Submit("copy", "wait")
  <2>1. /\ commands' \in Seq(Command) /\ Len(commands') = Len(commands) + 1 /\ Len(commands') \in Nat
        /\ \A i \in DOMAIN commands : commands'[i] = commands[i]
        /\ commands'[Len(commands')] = [op |-> "copy", input |-> input, held |-> TRUE]
        /\ DOMAIN commands' = DOMAIN commands \cup {Len(commands')}
        /\ commands' # <<>>
        /\ pc' = "wait" /\ UNCHANGED <<input, partials, readback, loose, result>>
    BY <1>3, Submitted
  <2>2. Reduction!Chunks <= Len(partials) /\ Reduction!Chunks <= Len(readback)
    BY <1>1 DEF ReduceInv, SumsInv
  <2>3. ReduceType'
    BY <2>1 DEF ReduceInv, ReduceType
  <2>4. QueueInv'
    <3> SUFFICES ASSUME NEW i \in DOMAIN commands'
                 PROVE  /\ commands'[i].op = "copy" => i = Len(commands')
                        /\ IF commands'[i].held
                             THEN /\ Reduction!ChunksOf(commands'[i].input) <= Len(partials)
                                  /\ commands'[i].op = "copy" => Reduction!ChunksOf(commands'[i].input) <= Len(readback)
                             ELSE loose
      BY <2>1 DEF QueueInv
    <3>1. CASE i = Len(commands')
      BY <2>1, <2>2, <3>1 DEF Reduction!Chunks
    <3>2. CASE i \in DOMAIN commands
      BY <1>1, <2>1, <3>2 DEF ReduceInv, QueueInv
    <3>. QED BY <2>1, <3>1, <3>2
  <2>5. SumsInv'
    <3>1. Reduction!Chunks' = Reduction!Chunks /\ (Holds(partials) => Holds(partials)')
      BY <2>1 DEF Reduction!Chunks, Holds, Reduction!SumOf, Reduction!Least
    <3>2. Asked(Len(commands), "copy")'
      BY <2>1 DEF Asked
    <3>3. Len(commands') = 1 => Holds(partials)'
      <4>1. Len(commands') = 1 => commands = <<>>
        <5>1. commands \in Seq(Command) /\ Len(commands) \in Nat
          BY ReduceTypes DEF ReduceInv, ReduceType
        <5>. QED BY <2>1, <5>1
      <4>. QED BY <1>1, <3>1, <4>1 DEF ReduceInv, SumsInv
    <3>4. Len(commands') > 1 => Asked(Len(commands) - 1, "sum")'
      <4> SUFFICES ASSUME Len(commands') > 1  PROVE Asked(Len(commands) - 1, "sum")'
        OBVIOUS
      <4>1. Len(commands) \in DOMAIN commands /\ commands # <<>> /\ Len(commands') - 1 = Len(commands)
        BY <2>1, ReduceTypes
      <4>2. Asked(Len(commands), "sum")
        BY <1>1, <4>1 DEF ReduceInv, SumsInv
      <4>. QED BY <2>1, <4>1, <4>2 DEF Asked
    <3>. QED BY <2>1, <2>2, <3>1, <3>2, <3>3, <3>4 DEF SumsInv
  <2>. QED BY <2>3, <2>4, <2>5 DEF ReduceInv
<1>. QED BY <1>2, <1>3 DEF Reduction!Copy

\* The host folds what came back, which are the sums of the chunks.
LEMMA WaitStep == ASSUME ReduceInv, Reduction!Wait PROVE ReduceInv'
<1>1. pc = "wait" /\ commands = <<>>
  BY DEF Reduction!Wait
<1>2. loose \in BOOLEAN /\ input \in Seq(Int) /\ readback \in Seq(Int)
  BY DEF ReduceInv, ReduceType
<1>3. CASE Reduction!Fails /\ UNCHANGED loose
  BY <1>1, <1>2, <1>3, FailStep
<1>4. CASE /\ pc' = "ok" /\ result' = Reduction!Sum(SubSeq(readback, 1, Reduction!Chunks))
           /\ UNCHANGED <<input, partials, readback, commands, loose, calls>>
  <2> DEFINE k == Reduction!Chunks
             r == SubSeq(readback, 1, k)
  <2>1. k \in Nat /\ k <= Len(readback) /\ Holds(readback)
    BY <1>1, ReduceTypes DEF ReduceInv, SumsInv
  <2>2. r \in Seq(Int) /\ Len(r) = k /\ \A c \in 1 .. k : r[c] = readback[c]
    <3> HIDE DEF k
    <3>. QED BY <1>2, <2>1
  <2>3. Reduction!Sum(r) = Reduction!Sum(input)
    <3> HIDE DEF r
    <3>. QED BY <1>2, <2>1, <2>2, ChunksSumUp DEF Holds, Reduction!Chunks
  <2>4. ReduceType'
    BY <1>4 DEF ReduceInv, ReduceType
  <2>5. QueueInv'
    BY <1>1, <1>4 DEF QueueInv
  <2>6. SumsInv'
    BY <1>4, <2>3 DEF SumsInv
  <2>. QED BY <2>4, <2>5, <2>6 DEF ReduceInv
<1>. QED BY <1>1, <1>3, <1>4 DEF Reduction!Wait

LEMMA SumOfTyped ==
  ASSUME NEW v \in Seq(Int), NEW c \in 1 .. Reduction!ChunksOf(v)
  PROVE  Reduction!SumOf(v, c) \in Int
<1> DEFINE a == (c - 1) * chunk_size
           b == Reduction!Least(Len(v), c * chunk_size)
<1>1. a \in Nat /\ c * chunk_size \in Nat /\ c * chunk_size = a + chunk_size /\ a < Len(v) /\ Len(v) \in Nat
  BY ChunkCount
<1> HIDE DEF a
<1>2. b \in Nat /\ a <= b /\ b <= Len(v)
  BY <1>1, ReduceConstants DEF Reduction!Least
<1>3. Reduction!SumOf(v, c) = Reduction!Sum(SubSeq(v, a + 1, b))
  BY DEF Reduction!SumOf, a
<1> HIDE DEF b
<1>4. Reduction!Sum(SubSeq(v, a + 1, b)) = Reduction!SumTo(v)[b] - Reduction!SumTo(v)[a]
  BY <1>1, <1>2, SliceSums
<1>5. a \in 0 .. Len(v) /\ b \in 0 .. Len(v)
  BY <1>1, <1>2
<1>. QED BY <1>3, <1>4, <1>5, SumToTyped

LEMMA DeviceStep == ASSUME ReduceInv, Reduction!DeviceRuns PROVE ReduceInv'
<1> DEFINE k == Head(commands)
           Chunk(c) == k.held /\ c <= Reduction!ChunksOf(k.input)
           Summed == [c \in DOMAIN partials |-> IF Chunk(c) THEN Reduction!SumOf(k.input, c) ELSE partials[c]]
           Copied == [c \in DOMAIN readback |-> IF Chunk(c) THEN partials[c] ELSE readback[c]]
<1>1. /\ commands # <<>> /\ commands' = Tail(commands) /\ UNCHANGED <<input, pc, loose, result, calls>>
      /\ \/ k.op = "sum" /\ partials' = Summed /\ UNCHANGED readback
         \/ k.op # "sum" /\ readback' = Copied /\ UNCHANGED partials
  BY DEF Reduction!DeviceRuns
<1>2. /\ input \in Seq(Int) /\ partials \in Seq(Int) /\ readback \in Seq(Int)
      /\ commands \in Seq(Command) /\ Len(commands) \in Nat
  BY DEF ReduceInv, ReduceType
<1>3. /\ 1 \in DOMAIN commands /\ k = commands[1] /\ k \in Command /\ k.input \in Seq(Int)
      /\ Len(commands') = Len(commands) - 1 /\ commands' \in Seq(Command)
      /\ \A i \in DOMAIN commands' : i \in Nat /\ i + 1 \in DOMAIN commands /\ commands'[i] = commands[i + 1]
  <2>1. k = commands[1] /\ 1 \in DOMAIN commands /\ k \in Command
    BY <1>1, <1>2
  <2>2. k.input \in Seq(Int)
    BY <2>1 DEF Command
  <2> HIDE DEF k
  <2>. QED BY <1>1, <1>2, <2>1, <2>2
<1>4. Reduction!Chunks' = Reduction!Chunks /\ Reduction!Chunks \in Nat /\ Reduction!ChunksOf(k.input) \in Nat
  BY <1>1, <1>2, <1>3, ChunkCount DEF Reduction!Chunks
<1>5. \A i \in DOMAIN commands : commands[i].op = "copy" => pc = "wait" /\ i = Len(commands)
  BY DEF ReduceInv, QueueInv
<1>6. k.held => /\ Reduction!ChunksOf(k.input) <= Len(partials)
                /\ k.op # "sum" => Reduction!ChunksOf(k.input) <= Len(readback)
  <2>1. k.op \in {"sum", "copy"}
    BY <1>3 DEF Command
  <2> HIDE DEF k
  <2>. QED BY <1>3, <2>1 DEF ReduceInv, QueueInv
<1> HIDE DEF k
<1>7. Summed \in Seq(Int) /\ Len(Summed) = Len(partials)
  <2>1. ASSUME NEW c \in 1 .. Len(partials)
        PROVE  (IF Chunk(c) THEN Reduction!SumOf(k.input, c) ELSE partials[c]) \in Int
    <3>1. Chunk(c) => c \in 1 .. Reduction!ChunksOf(k.input)
      BY <1>4
    <3>2. partials[c] \in Int
      BY <1>2
    <3>. QED BY <1>3, <3>1, <3>2, SumOfTyped
  <2>2. DOMAIN partials = 1 .. Len(partials) /\ Len(partials) \in Nat
    BY <1>2
  <2> HIDE DEF Chunk
  <2>. QED BY <2>1, <2>2
<1>8. k.op # "sum" => Copied \in Seq(Int) /\ Len(Copied) = Len(readback)
  <2> SUFFICES ASSUME k.op # "sum"  PROVE Copied \in Seq(Int) /\ Len(Copied) = Len(readback)
    OBVIOUS
  <2>1. ASSUME NEW c \in 1 .. Len(readback)
        PROVE  (IF Chunk(c) THEN partials[c] ELSE readback[c]) \in Int
    <3>1. Chunk(c) => c \in 1 .. Len(partials)
      BY <1>2, <1>4, <1>6
    <3>2. readback[c] \in Int
      BY <1>2
    <3>. QED BY <1>2, <3>1, <3>2
  <2>2. DOMAIN readback = 1 .. Len(readback) /\ Len(readback) \in Nat
    BY <1>2
  <2> HIDE DEF Chunk
  <2>. QED BY <2>1, <2>2
<1>9. /\ partials' \in Seq(Int) /\ Len(partials') = Len(partials)
      /\ readback' \in Seq(Int) /\ Len(readback') = Len(readback)
  <2> HIDE DEF Summed, Copied
  <2>. QED BY <1>1, <1>2, <1>7, <1>8
<1>10. ReduceType'
  <2>1. pc' = pc /\ loose' = loose
    BY <1>1
  <2>. QED BY <1>1, <1>2, <1>3, <1>9, <2>1 DEF ReduceInv, ReduceType
<1>11. QueueInv'
  <2>1. ASSUME NEW i \in DOMAIN commands'
        PROVE  /\ commands'[i].op = "copy" => pc' = "wait" /\ i = Len(commands')
               /\ IF commands'[i].held
                    THEN /\ Reduction!ChunksOf(commands'[i].input) <= Len(partials')
                         /\ commands'[i].op = "copy" => Reduction!ChunksOf(commands'[i].input) <= Len(readback')
                    ELSE loose'
    <3>1. i \in Nat /\ i + 1 \in DOMAIN commands /\ commands'[i] = commands[i + 1]
      BY <1>3
    <3>2. i + 1 = Len(commands) => i = Len(commands')
      BY <1>2, <1>3, <3>1
    <3>3. pc' = pc /\ loose' = loose
      BY <1>1
    <3>4. IF commands[i + 1].held
            THEN /\ Reduction!ChunksOf(commands[i + 1].input) <= Len(partials)
                 /\ commands[i + 1].op = "copy" => Reduction!ChunksOf(commands[i + 1].input) <= Len(readback)
            ELSE loose
      BY <3>1 DEF ReduceInv, QueueInv
    <3>. QED BY <1>5, <1>9, <3>1, <3>2, <3>3, <3>4
  <2>2. pc' \notin {"copy", "wait"} /\ ~loose' => FALSE
    BY <1>1 DEF ReduceInv, QueueInv
  <2>. QED BY <2>1, <2>2 DEF QueueInv
\* A command of this call that ran has brought the sums where it was asked to.
<1>12. Asked(1, "sum") => Holds(partials)'
  <2> SUFFICES ASSUME Asked(1, "sum")  PROVE Holds(partials)'
    OBVIOUS
  <2>1. k = [op |-> "sum", input |-> input, held |-> TRUE]
    BY <1>3 DEF Asked
  <2>2. k.op = "sum" /\ k.input = input /\ k.held
    BY <2>1
  <2>3. partials' = Summed /\ input' = input
    BY <1>1, <2>2
  <2>4. ASSUME NEW c \in 1 .. Reduction!Chunks  PROVE Summed[c] = Reduction!SumOf(input, c)
    <3>1. Reduction!Chunks = Reduction!ChunksOf(k.input)
      BY <2>2 DEF Reduction!Chunks
    <3>2. c \in DOMAIN partials /\ Chunk(c)
      BY <1>2, <1>4, <1>6, <2>2, <3>1
    <3> HIDE DEF Chunk
    <3>. QED BY <2>2, <3>2
  <2> HIDE DEF Summed
  <2>. QED BY <1>4, <2>3, <2>4 DEF Holds, Reduction!SumOf, Reduction!Least
<1>13. Asked(1, "copy") /\ Holds(partials) => Holds(readback)'
  <2> SUFFICES ASSUME Asked(1, "copy"), Holds(partials)  PROVE Holds(readback)'
    OBVIOUS
  <2>1. k = [op |-> "copy", input |-> input, held |-> TRUE]
    BY <1>3 DEF Asked
  <2>2. k.op # "sum" /\ k.input = input /\ k.held
    BY <2>1
  <2>3. readback' = Copied /\ input' = input
    BY <1>1, <2>2
  <2>4. ASSUME NEW c \in 1 .. Reduction!Chunks  PROVE Copied[c] = Reduction!SumOf(input, c)
    <3>1. Reduction!Chunks = Reduction!ChunksOf(k.input)
      BY <2>2 DEF Reduction!Chunks
    <3>2. c \in DOMAIN readback /\ Chunk(c)
      BY <1>2, <1>4, <1>6, <2>2, <3>1
    <3>3. partials[c] = Reduction!SumOf(input, c)
      BY DEF Holds
    <3> HIDE DEF Chunk
    <3>. QED BY <2>2, <3>2, <3>3
  <2> HIDE DEF Copied
  <2>. QED BY <1>4, <2>3, <2>4 DEF Holds, Reduction!SumOf, Reduction!Least
<1>14. SumsInv'
  <2>1. pc' = pc /\ input' = input /\ result' = result
    BY <1>1
  <2>2. /\ pc \in {"readback", "launch", "copy", "wait"} => Reduction!Chunks <= Len(partials)
        /\ pc \in {"launch", "copy", "wait"} => Reduction!Chunks <= Len(readback)
        /\ pc = "ok" => result = Reduction!Sum(input)
    BY DEF ReduceInv, SumsInv
  <2>3. Len(commands') = 0 => Len(commands) = 1
    BY <1>2, <1>3
  <2>4. commands' = <<>> => Len(commands) = 1
    BY <1>3, <2>3
  <2>5. pc = "copy" /\ commands' = <<>> => Holds(partials)'
    BY <1>1, <1>12, <2>4 DEF ReduceInv, SumsInv
  <2>6. pc = "wait" /\ commands' = <<>> => Holds(readback)'
    <3>1. pc = "wait" /\ Len(commands) = 1 => Asked(1, "copy") /\ Holds(partials)
      BY <1>1 DEF ReduceInv, SumsInv
    <3>. QED BY <1>13, <2>4, <3>1
  <2>7. ASSUME NEW op, commands' # <<>>, Asked(Len(commands), op)  PROVE Asked(Len(commands), op)'
    <3>1. Len(commands') \in DOMAIN commands' /\ Len(commands') + 1 = Len(commands)
      BY <1>2, <1>3, <2>7
    <3>2. commands'[Len(commands')] = commands[Len(commands)]
      BY <1>3, <3>1
    <3>. QED BY <2>1, <2>7, <3>2 DEF Asked
  <2>8. pc = "copy" /\ commands' # <<>> => Asked(Len(commands), "sum")'
    <3>1. pc = "copy" => Asked(Len(commands), "sum")
      BY <1>1 DEF ReduceInv, SumsInv
    <3>. QED BY <2>7, <3>1
  <2>9. pc = "wait" /\ commands' # <<>> => Asked(Len(commands), "copy")'
    <3>1. pc = "wait" => Asked(Len(commands), "copy")
      BY <1>1 DEF ReduceInv, SumsInv
    <3>. QED BY <2>7, <3>1
  <2>10. pc = "wait" /\ Len(commands') = 1 => Holds(partials)'
    <3>1. Len(commands') = 1 => Len(commands) - 1 = 1 /\ Len(commands) > 1
      <4>1. Len(commands) \in Nat /\ Len(commands') = Len(commands) - 1
        BY <1>2, <1>3
      <4>2. \A l \in Nat : l - 1 = 1 => l > 1
        OBVIOUS
      <4>. QED BY <4>1, <4>2, Zenon
    <3>2. pc = "wait" /\ Len(commands) > 1 => Asked(Len(commands) - 1, "sum")
      BY DEF ReduceInv, SumsInv
    <3>. QED BY <1>12, <3>1, <3>2
  <2>11. pc = "wait" /\ Len(commands') > 1 => Asked(Len(commands) - 1, "sum")'
    <3> SUFFICES ASSUME pc = "wait", Len(commands') > 1  PROVE Asked(Len(commands) - 1, "sum")'
      OBVIOUS
    <3>1. /\ Len(commands) > 1 /\ Len(commands') - 1 \in DOMAIN commands'
          /\ (Len(commands') - 1) + 1 = Len(commands) - 1
      BY <1>2, <1>3
    <3>2. Asked(Len(commands) - 1, "sum")
      BY <3>1 DEF ReduceInv, SumsInv
    <3>3. commands'[Len(commands') - 1] = commands[Len(commands) - 1]
      BY <1>3, <3>1
    <3>. QED BY <2>1, <3>2, <3>3 DEF Asked
  <2>. QED BY <1>4, <1>9, <2>1, <2>2, <2>5, <2>6, <2>8, <2>9, <2>10, <2>11 DEF SumsInv
<1>. QED BY <1>10, <1>11, <1>14 DEF ReduceInv

LEMMA ReturnsStep == ASSUME ReduceInv, Reduction!Returns PROVE ReduceInv'
<1>1. /\ pc \in {"ok", "failed"} /\ pc' = "idle"
      /\ UNCHANGED <<input, partials, readback, commands, loose, result, calls>>
  BY DEF Reduction!Returns
<1>2. ReduceType'
  BY <1>1 DEF ReduceInv, ReduceType
<1>3. QueueInv'
  BY <1>1 DEF ReduceInv, QueueInv
<1>4. SumsInv'
  BY <1>1 DEF SumsInv
<1>. QED BY <1>2, <1>3, <1>4 DEF ReduceInv

LEMMA ReduceInit == Reduction!Init => ReduceInv
<1> SUFFICES ASSUME Reduction!Init  PROVE ReduceInv
  OBVIOUS
<1>1. pc = "idle" /\ input = <<>> /\ partials = <<>> /\ readback = <<>> /\ commands = <<>> /\ loose = FALSE
  BY DEF Reduction!Init
<1>2. ReduceType
  <2>1. \A S : <<>> \in Seq(S)
    OBVIOUS
  <2>2. input \in Seq(Int) /\ partials \in Seq(Int) /\ readback \in Seq(Int) /\ commands \in Seq(Command)
    BY <1>1, <2>1, Zenon
  <2>. QED BY <1>1, <2>2 DEF ReduceType
<1>3. QueueInv
  BY <1>1 DEF QueueInv
<1>4. SumsInv
  BY <1>1 DEF SumsInv
<1>. QED BY <1>2, <1>3, <1>4 DEF ReduceInv

LEMMA ReduceStep == ReduceInv /\ [Reduction!Next]_(Reduction!vars) => ReduceInv'
<1> SUFFICES ASSUME ReduceInv, [Reduction!Next]_(Reduction!vars)  PROVE ReduceInv'
  OBVIOUS
<1>1. CASE UNCHANGED Reduction!vars
  <2>1. UNCHANGED <<input, pc, partials, readback, commands, loose, result, calls>>
    BY <1>1 DEF Reduction!vars
  <2>. QED BY <2>1 DEF ReduceInv, ReduceType, QueueInv, SumsInv, Holds, Asked, Reduction!Chunks, Reduction!SumOf, Reduction!Least
<1>. QED BY <1>1, CallStep, EnsurePartialsStep, EnsureReadbackStep, LaunchStep, CopyStep, WaitStep, DeviceStep,
            ReturnsStep DEF Reduction!Next

LEMMA ReduceImplies == ReduceInv => ReduceIsExact
<1> SUFFICES ASSUME ReduceInv  PROVE Reduction!ReduceIsExact
  BY DEF ReduceIsExact
<1>. QED BY DEF ReduceInv, QueueInv, SumsInv, Reduction!ReduceIsExact

\* However many calls share the scratch blocks, whatever their inputs and wherever they fail: a call that
\* succeeds returns the sum of its input, and no command outlives its call unless a submission threw, fp::gpu::reduce.
THEOREM ReduceTheorem == Reduction!Spec => []ReduceIsExact
BY ReduceInit, ReduceStep, ReduceImplies, PTL DEF Reduction!Spec

=============================================================================
