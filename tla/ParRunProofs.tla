---------------------------- MODULE ParRunProofs ----------------------------
(***************************************************************************)
(* Lifetime and error safety of detail::par_run for every pool, every set  *)
(* of calls, nested or not, and every input size; and that it runs its     *)
(* body once for each index: the chunks partition the input, each is       *)
(* fetched by one puller, and a call returns normally only after all of    *)
(* them were run.                                                          *)
(***************************************************************************)
EXTENDS ParRun, FiniteSetTheorems, TLAPS

Stages == {"none", "queued", "fetch", "body", "capture", "arrive", "last", "out"}

\* Call k has helpers: it is between the construction of its latch and its return.
FannedOut(k) == pc[k] \in {"submit", "pull", "wait"}

\* The helpers of call k the latch still waits for, by number.
Pending(k) ==
  {i \in 1 .. Size - 1 : \/ i > submitted[k]
                         \/ stage[<<k, i>>] \in {"queued", "fetch", "body", "capture", "arrive"}}

\* What the pool holds has not started, and is there once.
QueueInv ==
  /\ \A i \in 1 .. Len(queue) :
       IF queue[i][2] = 0 THEN pc[queue[i][1]] = "queued" ELSE stage[queue[i]] = "queued"
  /\ \A i, j \in 1 .. Len(queue) : queue[i] = queue[j] => i = j

\* A call before its fan-out, or without one, has touched nothing of it.
UntouchedInv ==
  \A k \in Calls : pc[k] \in {"idle", "queued", "sequential"} =>
    /\ submitted[k] = 0 /\ ~done_[k] /\ ~slot[k] /\ ~raised[k]
    /\ \A p \in Pullers : p[1] = k => stage[p] = "none"

SubmissionInv ==
  \A k \in Calls : /\ pc[k] = "submit" => submitted[k] + 2 <= Size
                   /\ pc[k] \in {"pull", "wait"} => submitted[k] + 1 = Size /\ Size >= 2

\* The caller pulls exactly while its pc says so; a helper exists only once submitted, and is
\* at work only while its call is fanned out.
StageInv ==
  \A p \in Pullers :
    /\ p[2] = 0 => /\ stage[p] \in {"none", "fetch", "body", "capture", "out"}
                   /\ stage[p] \in {"fetch", "body", "capture"} <=> pc[p[1]] = "pull"
    /\ p[2] # 0 => /\ stage[p] # "none" => p[2] <= submitted[p[1]]
                   /\ stage[p] \notin {"none", "out"} => FannedOut(p[1])

\* The latch counts the pending helpers, and opens after the last of them arrived.
LatchInv ==
  /\ \A k \in Calls : FannedOut(k) => count_[k] = Cardinality(Pending(k))
  /\ \A p \in Pullers : stage[p] = "last" => count_[p[1]] = 0 /\ ~done_[p[1]]
  /\ \A p, q \in Pullers : stage[p] = "last" /\ stage[q] = "last" /\ p[1] = q[1] => p = q
  /\ \A k \in Calls : done_[k] => count_[k] = 0

\* What was raised is in the slot, or in the hands of a puller about to put it there.
ErrorInv ==
  \A k \in Calls :
    /\ FannedOut(k) => (raised[k] <=> slot[k] \/ \E p \in Pullers : p[1] = k /\ stage[p] = "capture")
    /\ Finished(k) => (pc[k] = "threw" <=> raised[k])

IInv == /\ TypeOK
        /\ QueueInv /\ UntouchedInv /\ SubmissionInv /\ StageInv /\ LatchInv /\ ErrorInv

-----------------------------------------------------------------------------
\* A pool has at least one worker and a puller is the pair of its call and its number.
LEMMA PoolSize ==
  ASSUME workers_ \in Pools
  PROVE  Size \in 1 .. MaxWorkers /\ MaxWorkers \in Nat
<1>1. IsFiniteSet(workers_) /\ workers_ # {} /\ Size <= MaxWorkers /\ MaxWorkers \in Nat
  BY ParRunAssumption DEF ParRunAssumption, Size
<1>2. Size \in Nat /\ Size # 0
  BY <1>1, FS_CardinalityType, FS_EmptySet DEF Size
<1>. QED BY <1>1, <1>2

LEMMA PullerPair ==
  ASSUME NEW p \in Pullers
  PROVE  p[1] \in Calls /\ p[2] \in 0 .. MaxWorkers - 1 /\ p = <<p[1], p[2]>>
BY DEF Pullers

LEMMA PairPuller ==
  ASSUME workers_ \in Pools, NEW k \in Calls, NEW i \in 0 .. Size - 1
  PROVE  <<k, i>> \in Pullers
BY PoolSize DEF Pullers

LEMMA PendingCard ==
  ASSUME workers_ \in Pools, NEW S \in SUBSET (1 .. Size - 1)
  PROVE  /\ IsFiniteSet(S) /\ Cardinality(S) \in Nat
         /\ Cardinality(S) = 0 <=> S = {}
         /\ \A i \in S : Cardinality(S \ {i}) = Cardinality(S) - 1
         /\ Cardinality(1 .. Size - 1) = Size - 1
<1>0. Size \in Nat /\ Size >= 1 /\ 1 \in Int /\ Size - 1 \in Int
  BY PoolSize
<1>1. IsFiniteSet(1 .. Size - 1) /\ Cardinality(1 .. Size - 1) = Size - 1
  BY <1>0, FS_Interval
<1>2. IsFiniteSet(S)
  BY <1>1, FS_Subset
<1>. QED BY <1>1, <1>2, FS_CardinalityType, FS_EmptySet, FS_RemoveElement

LEMMA InitIInv == Init => IInv
<1> SUFFICES ASSUME Init PROVE IInv
  OBVIOUS
<1> USE ParRunAssumption DEF ParRunAssumption, Init
<1>1. TypeOK
  BY DEF TypeOK
<1>2. QueueInv
  BY DEF QueueInv
<1>3. UntouchedInv /\ SubmissionInv /\ StageInv /\ ErrorInv
  BY DEF UntouchedInv, SubmissionInv, StageInv, ErrorInv, FannedOut, Finished, Pullers
<1>4. LatchInv
  BY DEF LatchInv, FannedOut
<1>. QED BY <1>1, <1>2, <1>3, <1>4 DEF IInv

-----------------------------------------------------------------------------
\* Entering a call, and leaving the pull loop, as far as the types are concerned.
LEMMA EnterType ==
  ASSUME TypeOK, NEW k \in Calls, NEW size \in Nat, Enter(k, size)
  PROVE  /\ pc' \in [Calls -> {"idle", "queued", "submit", "pull", "wait", "sequential",
                               "returned", "threw"}]
         /\ n' \in [Calls -> Nat] /\ count_' \in [Calls -> Nat]
         /\ UNCHANGED <<submitted, loopVars, done_, slot, raised>>
<1>1. Size - 1 \in Nat
  BY PoolSize DEF TypeOK
<1>. QED BY <1>1 DEF Enter, TypeOK

LEMMA LeavesType ==
  ASSUME TypeOK, NEW p \in Pullers, Leaves(p)
  PROVE  /\ stage' \in [Pullers -> Stages]
         /\ pc' \in [Calls -> {"idle", "queued", "submit", "pull", "wait", "sequential",
                               "returned", "threw"}]
BY PullerPair DEF Leaves, TypeOK, Stages

LEMMA SubmittedType ==
  ASSUME TypeOK, NEW k \in Calls, Submitted(k)
  PROVE  /\ submitted' \in [Calls -> Nat]
         /\ pc' \in [Calls -> {"idle", "queued", "submit", "pull", "wait", "sequential",
                               "returned", "threw"}]
BY DEF Submitted, TypeOK

LEMMA CallerIsPuller == ASSUME TypeOK, NEW k \in Calls PROVE Caller(k) \in Pullers
BY PoolSize DEF Caller, Pullers, TypeOK

LEMMA TypeStep == IInv /\ [Next]_vars => TypeOK'
<1> SUFFICES ASSUME IInv, [Next]_vars PROVE TypeOK'
  OBVIOUS
<1>0. TypeOK
  BY DEF IInv
<1> USE <1>0 DEF Stages
<1>1. ASSUME NEW k \in Calls, CallFromOutside(k) PROVE TypeOK'
  <2>1. PICK size \in Sizes[k][Size] : Enter(k, size)
    BY <1>1 DEF CallFromOutside
  <2>2. size \in Nat
    BY <2>1, ParRunAssumption, PoolSize DEF ParRunAssumption, TypeOK
  <2>. QED BY <1>1, <2>1, <2>2, EnterType DEF CallFromOutside, TypeOK, poolVars, loopVars
<1>2. ASSUME NEW k \in Calls, EnqueueOuter(k) PROVE TypeOK'
  BY <1>2, CallerIsPuller DEF EnqueueOuter, TypeOK, loopVars, syncVars
<1>3. ASSUME NEW w \in Workers, WorkerTakes(w) PROVE TypeOK'
  <2>1. Head(queue) \in Pullers /\ queue' \in Seq(Pullers)
    BY <1>3 DEF WorkerTakes, TypeOK
  <2>2. job' \in [workers_ -> Pullers \cup {NoJob}] /\ workers_' = workers_
    BY <1>3, <2>1 DEF WorkerTakes, TypeOK
  <2>3. CASE Head(queue)[2] = 0
    <3>1. PICK size \in Sizes[Head(queue)[1]][Size] : Enter(Head(queue)[1], size)
      BY <1>3, <2>3 DEF WorkerTakes
    <3>2. Head(queue)[1] \in Calls
      BY <2>1 DEF Pullers
    <3>3. Sizes[Head(queue)[1]][Size] \in SUBSET Nat
      BY <3>2, ParRunAssumption, PoolSize DEF ParRunAssumption, TypeOK
    <3>4. size \in Nat
      BY <3>1, <3>3
    <3>. QED BY <2>1, <2>2, <3>1, <3>2, <3>4, EnterType DEF TypeOK, loopVars
  <2>4. CASE Head(queue)[2] # 0
    BY <1>3, <2>1, <2>2, <2>4 DEF WorkerTakes, TypeOK, syncVars
  <2>. QED BY <2>3, <2>4
<1>4. ASSUME NEW w \in Workers, OuterEnds(w) PROVE TypeOK'
  BY <1>4 DEF OuterEnds, TypeOK, loopVars, syncVars
<1>5. ASSUME NEW k \in Calls, CallStep(k) PROVE TypeOK'
  <2>1. CASE Submit(k)
    <3>1. <<k, submitted[k] + 1>> \in Pullers
      BY <2>1, PoolSize DEF IInv, Submit, SubmissionInv, Pullers, TypeOK
    <3>2. queue' \in Seq(Pullers)
      BY <2>1, <3>1 DEF Submit, TypeOK
    <3> DEFINE queued == [stage EXCEPT ![<<k, submitted[k] + 1>>] = "queued"]
    <3>3. queued \in [Pullers -> Stages]
      BY DEF TypeOK
    <3>4. stage' \in {queued, [queued EXCEPT ![Caller(k)] = "fetch"]}
      BY <2>1 DEF Submit, CallerFetches
    <3>5. stage' \in [Pullers -> Stages]
      <4> HIDE DEF queued
      <4>. QED BY <3>3, <3>4
    <3>. QED BY <2>1, <3>2, <3>5, SubmittedType DEF Submit, TypeOK, syncVars
  <2>2. CASE SubmitFails(k)
    <3>1. stage' \in [Pullers -> Stages]
      BY <2>2, CallerIsPuller DEF SubmitFails, CallerFetches, TypeOK
    <3>2. count_[k] - 1 \in Nat
      <4>1. submitted[k] + 1 \in Pending(k)
        BY <2>2, PoolSize DEF IInv, SubmitFails, SubmissionInv, Pending, TypeOK
      <4>2. Pending(k) \in SUBSET (1 .. Size - 1)
        BY DEF Pending
      <4>3. Cardinality(Pending(k)) \in Nat /\ Cardinality(Pending(k)) # 0
        BY <4>1, <4>2, PendingCard DEF TypeOK
      <4>4. count_[k] = Cardinality(Pending(k))
        BY <2>2 DEF IInv, SubmitFails, LatchInv, FannedOut
      <4>. QED BY <4>3, <4>4
    <3>. QED BY <2>2, <3>1, <3>2, SubmittedType DEF SubmitFails, TypeOK, poolVars
  <2>3. CASE Return(k) \/ SequentialReturns(k)
    BY <2>3 DEF Return, SequentialReturns, TypeOK, poolVars, loopVars, syncVars
  <2>4. CASE SequentialChunk(k)
    <3>1. next' \in [Calls -> Nat]
      <4>1. next' \in {next, [next EXCEPT ![k] = @ + 1]}
        BY <2>4 DEF SequentialChunk
      <4>2. next \in [Calls -> Nat] /\ [next EXCEPT ![k] = @ + 1] \in [Calls -> Nat]
        BY DEF TypeOK
      <4>. QED BY <4>1, <4>2
    <3>2. pc' \in {pc, [pc EXCEPT ![k] = "threw"]} /\ raised' \in {raised, [raised EXCEPT ![k] = TRUE]}
      BY <2>4 DEF SequentialChunk
    <3>. QED BY <2>4, <3>1, <3>2 DEF SequentialChunk, TypeOK, poolVars, syncVars
  <2>. QED BY <1>5, <2>1, <2>2, <2>3, <2>4 DEF CallStep
<1>6. ASSUME NEW p \in Pullers, Pull(p) PROVE TypeOK'
  <2>0. p[1] \in Calls /\ p = <<p[1], p[2]>>
    BY PullerPair
  <2>1. CASE Fetch(p)
    <3>1. next' \in [Calls -> Nat] /\ got' \in [Pullers -> Nat]
      <4>1. next' \in [Calls -> Nat]
        BY <2>0, <2>1 DEF Fetch, TypeOK
      <4>2. got' \in {got, [got EXCEPT ![p] = next[p[1]]]} /\ next[p[1]] \in Nat
        BY <2>0, <2>1 DEF Fetch, TypeOK
      <4>. QED BY <4>1, <4>2 DEF TypeOK
    <3>2. /\ stage' \in [Pullers -> Stages]
          /\ pc' \in [Calls -> {"idle", "queued", "submit", "pull", "wait", "sequential",
                                "returned", "threw"}]
      BY <2>1, LeavesType DEF Fetch, TypeOK
    <3>. QED BY <2>1, <3>1, <3>2 DEF Fetch, TypeOK, poolVars, syncVars
  <2>2. CASE Body(p)
    BY <2>2 DEF Body, TypeOK, poolVars, syncVars
  <2>3. CASE BodyThrows(p)
    BY <2>0, <2>3 DEF BodyThrows, TypeOK, poolVars, syncVars
  <2>4. CASE Capture(p)
    BY <2>0, <2>4, LeavesType DEF Capture, TypeOK, poolVars
  <2>5. CASE Arrive(p)
    <3>1. count_[p[1]] - 1 \in Nat
      <4>1. p[2] # 0 /\ FannedOut(p[1]) /\ p[2] <= submitted[p[1]]
        BY <2>5 DEF IInv, StageInv, Arrive
      <4>2. submitted[p[1]] <= Size - 1
        BY <2>0, <4>1, PoolSize DEF IInv, SubmissionInv, FannedOut, TypeOK
      <4>3. p[2] \in Pending(p[1])
        <5>1. p[2] \in 1 .. Size - 1
          BY <2>0, <4>1, <4>2, PoolSize, PullerPair DEF TypeOK
        <5>2. stage[<<p[1], p[2]>>] = "arrive"
          BY <2>0, <2>5 DEF Arrive
        <5>. QED BY <5>1, <5>2 DEF Pending
      <4>4. Pending(p[1]) \in SUBSET (1 .. Size - 1)
        BY DEF Pending
      <4>5. Cardinality(Pending(p[1])) \in Nat /\ Cardinality(Pending(p[1])) # 0
        BY <4>3, <4>4, PendingCard DEF TypeOK
      <4>. QED BY <2>0, <4>1, <4>5 DEF IInv, LatchInv
    <3>2. job' \in [workers_ -> Pullers \cup {NoJob}]
      BY <2>5 DEF Arrive, Release, TypeOK
    <3>. QED BY <2>0, <2>5, <3>1, <3>2 DEF Arrive, TypeOK
  <2>6. CASE ArriveLast(p)
    BY <2>0, <2>6 DEF ArriveLast, Release, TypeOK
  <2>. QED BY <1>6, <2>1, <2>2, <2>3, <2>4, <2>5, <2>6 DEF Pull
<1>7. CASE UNCHANGED vars
  BY <1>7 DEF vars, poolVars, loopVars, syncVars, TypeOK
<1>. QED BY <1>1, <1>2, <1>3, <1>4, <1>5, <1>6, <1>7 DEF Next
-----------------------------------------------------------------------------
\* A puller in its pull loop belongs to a call that is fanned out.
LEMMA AtWork ==
  ASSUME IInv, NEW p \in Pullers, stage[p] \in {"fetch", "body", "capture", "arrive", "last"}
  PROVE  FannedOut(p[1]) /\ p[1] \in Calls
BY PullerPair DEF IInv, StageInv, FannedOut

LEMMA QueuedArePullers ==
  ASSUME IInv
  PROVE  \A i \in 1 .. Len(queue) : queue[i] \in Pullers /\ queue[i][1] \in Calls
<1>1. \A i \in 1 .. Len(queue) : queue[i] \in Pullers
  BY DEF IInv, TypeOK
<1>. QED BY <1>1, PullerPair

\* A step that moves one puller between stages the latch counts leaves what is pending as it is.
LEMMA SamePending ==
  ASSUME IInv, NEW p \in Pullers, NEW s,
         stage' = [stage EXCEPT ![p] = s], UNCHANGED <<workers_, submitted>>,
         \/ p[2] = 0
         \/ /\ stage[p] \in {"queued", "fetch", "body", "capture", "arrive"}
            /\ s \in {"queued", "fetch", "body", "capture", "arrive"}
         \/ stage[p] = "last" /\ s = "out"
  PROVE  \A k \in Calls : Pending(k)' = Pending(k)
<1> SUFFICES ASSUME NEW k \in Calls, NEW i \in 1 .. Size - 1
             PROVE  /\ stage'[<<k, i>>] \in {"queued", "fetch", "body", "capture", "arrive"}
                         <=> stage[<<k, i>>] \in {"queued", "fetch", "body", "capture", "arrive"}
  BY DEF Pending, Size
<1>1. <<k, i>> \in Pullers
  BY PairPuller, PoolSize DEF IInv, TypeOK
<1>2. stage'[<<k, i>>] = IF <<k, i>> = p THEN s ELSE stage[<<k, i>>]
  BY <1>1 DEF IInv, TypeOK
<1>3. CASE p[2] = 0
  BY <1>2, <1>3
<1>4. CASE p[2] # 0
  BY <1>2, <1>4
<1>. QED BY <1>3, <1>4

\* Steps inside the pull loop: only the stage of one puller moves.
LEMMA InsideStep ==
  ASSUME IInv, NEW p \in Pullers, stage[p] \in {"fetch", "body"},
         NEW s \in {"fetch", "body", "capture"}, stage' = [stage EXCEPT ![p] = s],
         UNCHANGED <<workers_, queue, pc, submitted, count_, done_, slot>>,
         \A k \in Calls \ {p[1]} : raised'[k] = raised[k]
  PROVE  QueueInv' /\ UntouchedInv' /\ SubmissionInv' /\ StageInv' /\ LatchInv'
<1>1. \A q \in Pullers : stage'[q] = IF q = p THEN s ELSE stage[q]
  BY DEF IInv, TypeOK
<1>2. p[1] \in Calls /\ FannedOut(p[1])
  BY AtWork
<1>3. QueueInv'
  <2>1. \A i \in 1 .. Len(queue) : queue[i] \in Pullers
    BY DEF IInv, TypeOK
  <2>. QED BY <1>1, <2>1 DEF IInv, QueueInv
<1>4. UntouchedInv'
  BY <1>1, <1>2 DEF IInv, UntouchedInv, FannedOut
<1>5. SubmissionInv'
  BY DEF IInv, SubmissionInv, Size
<1>6. StageInv'
  BY <1>1 DEF IInv, StageInv, FannedOut
<1>7. LatchInv'
  <2>1. \A k \in Calls : Pending(k)' = Pending(k)
    BY SamePending
  <2>. QED BY <1>1, <2>1 DEF IInv, LatchInv, FannedOut
<1>. QED BY <1>3, <1>4, <1>5, <1>6, <1>7

LEMMA FetchStep ==
  ASSUME IInv, NEW p \in Pullers, Fetch(p), next[p[1]] < Chunks(p[1])
  PROVE  QueueInv' /\ UntouchedInv' /\ SubmissionInv' /\ StageInv' /\ LatchInv' /\ ErrorInv'
<1>1. /\ stage[p] = "fetch" /\ stage' = [stage EXCEPT ![p] = "body"]
      /\ UNCHANGED <<workers_, queue, pc, submitted, count_, done_, slot, raised>>
  <2>1. ~(next[p[1]] >= Chunks(p[1]))
    <3>1. next[p[1]] \in Nat /\ n[p[1]] \in Nat /\ Size \in Nat
      BY PullerPair, PoolSize DEF IInv, TypeOK
    <3>. QED BY <3>1 DEF Chunks, chunk_count, Least, Greatest
  <2>. QED BY <2>1 DEF Fetch, poolVars, syncVars
<1>2. ErrorInv'
  BY <1>1 DEF IInv, TypeOK, ErrorInv, FannedOut, Finished
<1>. QED BY <1>1, <1>2, InsideStep

LEMMA BodyStep ==
  ASSUME IInv, NEW p \in Pullers, Body(p)
  PROVE  QueueInv' /\ UntouchedInv' /\ SubmissionInv' /\ StageInv' /\ LatchInv' /\ ErrorInv'
<1>1. /\ stage[p] = "body" /\ stage' = [stage EXCEPT ![p] = "fetch"]
      /\ UNCHANGED <<workers_, queue, pc, submitted, count_, done_, slot, raised>>
  BY DEF Body, poolVars, syncVars
<1>2. ErrorInv'
  BY <1>1 DEF IInv, TypeOK, ErrorInv, FannedOut, Finished
<1>. QED BY <1>1, <1>2, InsideStep

LEMMA BodyThrowsStep ==
  ASSUME IInv, NEW p \in Pullers, BodyThrows(p)
  PROVE  QueueInv' /\ UntouchedInv' /\ SubmissionInv' /\ StageInv' /\ LatchInv' /\ ErrorInv'
<1>1. /\ stage[p] = "body" /\ stage' = [stage EXCEPT ![p] = "capture"]
      /\ UNCHANGED <<workers_, queue, pc, submitted, count_, done_, slot>>
      /\ raised' = [raised EXCEPT ![p[1]] = TRUE]
  BY DEF BodyThrows, poolVars, syncVars
<1>2. FannedOut(p[1]) /\ p[1] \in Calls
  BY <1>1, AtWork
<1>3. /\ \A q \in Pullers : stage'[q] = IF q = p THEN "capture" ELSE stage[q]
      /\ \A k \in Calls : raised'[k] = IF k = p[1] THEN TRUE ELSE raised[k]
  BY <1>1, <1>2 DEF IInv, TypeOK
<1>4. ErrorInv'
  <2> SUFFICES ASSUME NEW k \in Calls
               PROVE  /\ FannedOut(k) => (raised'[k] <=> slot[k] \/ \E q \in Pullers : q[1] = k /\ stage'[q] = "capture")
                      /\ Finished(k) => (pc[k] = "threw" <=> raised'[k])
    BY <1>1 DEF ErrorInv, FannedOut, Finished
  <2>1. CASE k = p[1]
    BY <1>2, <1>3, <2>1 DEF FannedOut, Finished
  <2>2. CASE k # p[1]
    BY <1>1, <1>3, <2>2 DEF IInv, ErrorInv
  <2>. QED BY <2>1, <2>2
<1>5. \A k \in Calls \ {p[1]} : raised'[k] = raised[k]
  BY <1>3
<1>. QED BY <1>1, <1>4, <1>5, InsideStep

\* A puller leaves its loop: the caller starts to wait, a helper is about to arrive.
LEMMA LeaveStep ==
  ASSUME IInv, NEW p \in Pullers, stage[p] \in {"fetch", "capture"}, Leaves(p),
         UNCHANGED <<workers_, queue, submitted, count_, done_>>,
         \A k \in Calls \ {p[1]} : raised'[k] = raised[k] /\ slot'[k] = slot[k]
  PROVE  /\ QueueInv' /\ UntouchedInv' /\ SubmissionInv' /\ StageInv' /\ LatchInv'
         /\ \A k \in Calls : (FannedOut(k)' <=> FannedOut(k)) /\ (Finished(k)' <=> Finished(k))
         /\ \A k \in Calls : Finished(k) => pc'[k] = pc[k]
         /\ \A q \in Pullers : q # p => stage'[q] = stage[q]
         /\ stage'[p] # "capture"
<1> DEFINE s == IF p[2] = 0 THEN "out" ELSE "arrive"
<1>1. stage' = [stage EXCEPT ![p] = s]
  BY DEF Leaves
<1>2. \A q \in Pullers : stage'[q] = IF q = p THEN s ELSE stage[q]
  BY <1>1 DEF IInv, TypeOK
<1>3. p[1] \in Calls /\ FannedOut(p[1]) /\ (p[2] = 0 => pc[p[1]] = "pull")
  BY AtWork DEF IInv, StageInv
<1>4. \A k \in Calls : pc'[k] = IF k = p[1] /\ p[2] = 0 THEN "wait" ELSE pc[k]
  BY <1>3 DEF Leaves, IInv, TypeOK
<1>5. \A k \in Calls : (FannedOut(k)' <=> FannedOut(k)) /\ (Finished(k)' <=> Finished(k))
  BY <1>3, <1>4 DEF FannedOut, Finished
<1>6. \A k \in Calls : /\ pc'[k] \in {"idle", "queued", "sequential"} <=> pc[k] \in {"idle", "queued", "sequential"}
                       /\ pc'[k] = "queued" <=> pc[k] = "queued"
                       /\ pc'[k] = "submit" <=> pc[k] = "submit"
                       /\ pc'[k] \in {"pull", "wait"} <=> pc[k] \in {"pull", "wait"}
  BY <1>3, <1>4
<1>7. QueueInv'
  <2>1. \A i \in 1 .. Len(queue) : queue[i] \in Pullers /\ queue[i][1] \in Calls
    BY QueuedArePullers
  <2>. QED BY <1>2, <1>6, <2>1 DEF IInv, QueueInv
<1>8. UntouchedInv'
  <2> SUFFICES ASSUME NEW k \in Calls, pc[k] \in {"idle", "queued", "sequential"}
               PROVE  /\ submitted'[k] = 0 /\ ~done_'[k] /\ ~slot'[k] /\ ~raised'[k]
                      /\ \A q \in Pullers : q[1] = k => stage'[q] = "none"
    BY <1>6 DEF UntouchedInv
  <2>1. k # p[1]
    BY <1>3 DEF FannedOut
  <2>. QED BY <1>2, <2>1 DEF IInv, UntouchedInv
<1>9. SubmissionInv'
  BY <1>6 DEF IInv, SubmissionInv, Size
<1>10. StageInv'
  <2> SUFFICES ASSUME NEW q \in Pullers
               PROVE  /\ q[2] = 0 => /\ stage'[q] \in {"none", "fetch", "body", "capture", "out"}
                                     /\ stage'[q] \in {"fetch", "body", "capture"} <=> pc'[q[1]] = "pull"
                      /\ q[2] # 0 => /\ stage'[q] # "none" => q[2] <= submitted'[q[1]]
                                     /\ stage'[q] \notin {"none", "out"} => FannedOut(q[1])'
    BY DEF StageInv
  <2>1. q[1] \in Calls /\ (q[1] = p[1] /\ q[2] = p[2] => q = p)
    BY PullerPair
  <2>2. CASE q = p
    BY <1>2, <1>3, <1>4, <1>5, <2>1, <2>2 DEF IInv, StageInv
  <2>3. CASE q # p
    BY <1>2, <1>4, <1>5, <2>1, <2>3 DEF IInv, StageInv
  <2>. QED BY <2>2, <2>3
<1>11. LatchInv'
  <2>1. \A k \in Calls : Pending(k)' = Pending(k)
    BY <1>1, SamePending
  <2>. QED BY <1>2, <1>5, <2>1 DEF IInv, LatchInv
<1>12. \A k \in Calls : Finished(k) => pc'[k] = pc[k]
  BY <1>3, <1>4 DEF Finished, FannedOut
<1>. QED BY <1>2, <1>5, <1>7, <1>8, <1>9, <1>10, <1>11, <1>12

LEMMA FetchLastStep ==
  ASSUME IInv, NEW p \in Pullers, Fetch(p), next[p[1]] >= Chunks(p[1])
  PROVE  QueueInv' /\ UntouchedInv' /\ SubmissionInv' /\ StageInv' /\ LatchInv' /\ ErrorInv'
<1>1. /\ stage[p] = "fetch" /\ Leaves(p)
      /\ UNCHANGED <<workers_, queue, submitted, count_, done_, slot, raised>>
  BY DEF Fetch, poolVars, syncVars
<1>2. /\ QueueInv' /\ UntouchedInv' /\ SubmissionInv' /\ StageInv' /\ LatchInv'
      /\ \A k \in Calls : (FannedOut(k)' <=> FannedOut(k)) /\ (Finished(k)' <=> Finished(k))
      /\ \A k \in Calls : Finished(k) => pc'[k] = pc[k]
      /\ \A q \in Pullers : q # p => stage'[q] = stage[q]
      /\ stage'[p] # "capture"
  BY <1>1, LeaveStep
<1>3. \A q \in Pullers : stage'[q] = "capture" <=> stage[q] = "capture"
  BY <1>1, <1>2
<1>4. ErrorInv'
  BY <1>1, <1>2, <1>3 DEF IInv, ErrorInv
<1>. QED BY <1>2, <1>4

LEMMA CaptureStep ==
  ASSUME IInv, NEW p \in Pullers, Capture(p)
  PROVE  QueueInv' /\ UntouchedInv' /\ SubmissionInv' /\ StageInv' /\ LatchInv' /\ ErrorInv'
<1>1. /\ stage[p] = "capture" /\ Leaves(p) /\ slot' = [slot EXCEPT ![p[1]] = TRUE]
      /\ UNCHANGED <<workers_, queue, submitted, count_, done_, raised>>
  BY DEF Capture, poolVars
<1>2. FannedOut(p[1]) /\ p[1] \in Calls
  BY <1>1, AtWork
<1>3. \A k \in Calls : slot'[k] = IF k = p[1] THEN TRUE ELSE slot[k]
  BY <1>1, <1>2 DEF IInv, TypeOK
<1>4. /\ QueueInv' /\ UntouchedInv' /\ SubmissionInv' /\ StageInv' /\ LatchInv'
      /\ \A k \in Calls : (FannedOut(k)' <=> FannedOut(k)) /\ (Finished(k)' <=> Finished(k))
      /\ \A k \in Calls : Finished(k) => pc'[k] = pc[k]
      /\ \A q \in Pullers : q # p => stage'[q] = stage[q]
      /\ stage'[p] # "capture"
  BY <1>1, <1>3, LeaveStep
<1>5. raised[p[1]]
  BY <1>1, <1>2 DEF IInv, ErrorInv
<1>6. ErrorInv'
  <2> SUFFICES ASSUME NEW k \in Calls
               PROVE  /\ FannedOut(k)' => (raised[k] <=> slot'[k] \/ \E q \in Pullers : q[1] = k /\ stage'[q] = "capture")
                      /\ Finished(k)' => (pc'[k] = "threw" <=> raised[k])
    BY <1>1 DEF ErrorInv
  <2>1. CASE k = p[1]
    BY <1>2, <1>3, <1>4, <1>5, <2>1 DEF FannedOut, Finished
  <2>2. CASE k # p[1]
    <3>1. \A q \in Pullers : q[1] = k => (stage'[q] = "capture" <=> stage[q] = "capture")
      BY <1>4, <2>2
    <3>2. slot'[k] = slot[k]
      BY <1>3, <2>2
    <3>3. /\ FannedOut(k) => (raised[k] <=> slot[k] \/ \E q \in Pullers : q[1] = k /\ stage[q] = "capture")
          /\ Finished(k) => (pc[k] = "threw" <=> raised[k])
      BY DEF IInv, ErrorInv
    <3>. QED BY <1>4, <3>1, <3>2, <3>3
  <2>. QED BY <2>1, <2>2
<1>. QED BY <1>4, <1>6

-----------------------------------------------------------------------------
\* What the latch sees: an arrival takes one helper off the pending ones.
LEMMA ArrivalCounts ==
  ASSUME IInv, NEW k \in Calls, NEW i \in Pending(k), FannedOut(k)
  PROVE  /\ count_[k] >= 1 /\ count_[k] \in Nat
         /\ Cardinality(Pending(k) \ {i}) = count_[k] - 1
         /\ ~done_[k]
         /\ \A q \in Pullers : q[1] = k => stage[q] # "last"
<1>1. Pending(k) \in SUBSET (1 .. Size - 1)
  BY DEF Pending
<1>2. workers_ \in Pools
  BY DEF IInv, TypeOK
<1>3. /\ Cardinality(Pending(k)) \in Nat /\ Cardinality(Pending(k)) # 0
      /\ Cardinality(Pending(k) \ {i}) = Cardinality(Pending(k)) - 1
  BY <1>1, <1>2, PendingCard
<1>4. count_[k] = Cardinality(Pending(k))
  BY DEF IInv, LatchInv
<1>5. count_[k] # 0
  BY <1>3, <1>4
<1>6. ~done_[k] /\ \A q \in Pullers : q[1] = k => stage[q] # "last"
  BY <1>5 DEF IInv, LatchInv
<1>. QED BY <1>3, <1>4, <1>6

\* A helper at work is pending.
LEMMA HelperPending ==
  ASSUME IInv, NEW p \in Pullers, p[2] # 0,
         stage[p] \in {"queued", "fetch", "body", "capture", "arrive"}
  PROVE  p[2] \in Pending(p[1])
<1>1. p[1] \in Calls /\ p[2] \in 0 .. MaxWorkers - 1 /\ p = <<p[1], p[2]>>
  BY PullerPair
<1>2. FannedOut(p[1]) /\ p[2] <= submitted[p[1]]
  BY DEF IInv, StageInv
<1>3. submitted[p[1]] <= Size - 1 /\ submitted[p[1]] \in Nat /\ Size \in Nat
  BY <1>1, <1>2, PoolSize DEF IInv, SubmissionInv, FannedOut, TypeOK
<1>4. p[2] \in 1 .. Size - 1
  BY <1>1, <1>2, <1>3, PoolSize DEF IInv, TypeOK
<1>. QED BY <1>1, <1>4 DEF Pending

LEMMA ArriveStep ==
  ASSUME IInv, NEW p \in Pullers, Arrive(p)
  PROVE  QueueInv' /\ UntouchedInv' /\ SubmissionInv' /\ StageInv' /\ LatchInv' /\ ErrorInv'
<1> DEFINE s == IF count_[p[1]] = 1 THEN "last" ELSE "out"
<1>1. /\ stage[p] = "arrive" /\ stage' = [stage EXCEPT ![p] = s]
      /\ count_' = [count_ EXCEPT ![p[1]] = @ - 1]
      /\ UNCHANGED <<workers_, queue, pc, submitted, done_, slot, raised>>
  BY DEF Arrive
<1>2. FannedOut(p[1]) /\ p[1] \in Calls /\ p[2] # 0 /\ p[2] \in Pending(p[1])
  BY <1>1, AtWork, HelperPending DEF IInv, StageInv
<1>3. /\ \A q \in Pullers : stage'[q] = IF q = p THEN s ELSE stage[q]
      /\ \A k \in Calls : count_'[k] = IF k = p[1] THEN count_[k] - 1 ELSE count_[k]
      /\ \A k \in Calls : (FannedOut(k)' <=> FannedOut(k)) /\ (Finished(k)' <=> Finished(k))
  BY <1>1, <1>2 DEF IInv, TypeOK, FannedOut, Finished
<1>4. QueueInv'
  BY <1>1, <1>3, QueuedArePullers DEF IInv, QueueInv
<1>5. UntouchedInv'
  <2> SUFFICES ASSUME NEW k \in Calls, pc[k] \in {"idle", "queued", "sequential"}
               PROVE  /\ submitted[k] = 0 /\ ~done_[k] /\ ~slot[k] /\ ~raised[k]
                      /\ \A q \in Pullers : q[1] = k => stage'[q] = "none"
    BY <1>1 DEF UntouchedInv
  <2>1. k # p[1]
    BY <1>2 DEF FannedOut
  <2>. QED BY <1>3, <2>1 DEF IInv, UntouchedInv
<1>6. SubmissionInv'
  BY <1>1 DEF IInv, SubmissionInv, Size
<1>7. StageInv'
  BY <1>1, <1>2, <1>3, PullerPair DEF IInv, StageInv
<1>8. /\ count_[p[1]] >= 1 /\ count_[p[1]] \in Nat
      /\ Cardinality(Pending(p[1]) \ {p[2]}) = count_[p[1]] - 1
      /\ ~done_[p[1]]
      /\ \A q \in Pullers : q[1] = p[1] => stage[q] # "last"
  BY <1>2, ArrivalCounts
<1>9. LatchInv'
  <2>1. ASSUME NEW k \in Calls, FannedOut(k)' PROVE count_'[k] = Cardinality(Pending(k)')
    <3>1. \A i \in 1 .. Size - 1 : <<k, i>> \in Pullers
      BY PairPuller, PoolSize DEF IInv, TypeOK
    <3>2. CASE k = p[1]
      <4>1. Pending(k)' = Pending(k) \ {p[2]}
        <5>1. p = <<k, p[2]>> /\ p[2] \in Nat
          BY <3>2, PullerPair
        <5>2. \A i \in 1 .. Size - 1 : stage'[<<k, i>>] = IF i = p[2] THEN s ELSE stage[<<k, i>>]
          BY <1>3, <3>1, <5>1
        <5>3. p[2] <= submitted[k] /\ submitted[k] \in Nat
          BY <1>1, <1>2, <3>2 DEF IInv, StageInv, TypeOK
        <5>4. ~(p[2] > submitted[k])
          BY <5>1, <5>3
        <5>5. s \notin {"queued", "fetch", "body", "capture", "arrive"}
          OBVIOUS
        <5>. QED BY <1>1, <5>2, <5>4, <5>5 DEF Pending, Size
      <4>. QED BY <1>3, <1>8, <3>2, <4>1
    <3>3. CASE k # p[1]
      <4>1. \A i \in 1 .. Size - 1 : stage'[<<k, i>>] = stage[<<k, i>>]
        BY <1>3, <3>1, <3>3
      <4>2. Pending(k)' = Pending(k)
        BY <1>1, <4>1 DEF Pending, Size
      <4>. QED BY <1>3, <2>1, <3>3, <4>2 DEF IInv, LatchInv
    <3>. QED BY <3>2, <3>3
  <2>2. ASSUME NEW q \in Pullers, stage'[q] = "last" PROVE count_'[q[1]] = 0 /\ ~done_'[q[1]]
    <3>1. q[1] \in Calls
      BY PullerPair
    <3>2. CASE q = p
      BY <1>1, <1>2, <1>3, <1>8, <2>2, <3>2
    <3>3. CASE q # p
      BY <1>1, <1>3, <1>8, <2>2, <3>1, <3>3 DEF IInv, LatchInv
    <3>. QED BY <3>2, <3>3
  <2>3. \A q, r \in Pullers : stage'[q] = "last" /\ stage'[r] = "last" /\ q[1] = r[1] => q = r
    BY <1>3, <1>8 DEF IInv, LatchInv
  <2>4. \A k \in Calls : done_'[k] => count_'[k] = 0
    BY <1>1, <1>3, <1>8 DEF IInv, LatchInv
  <2>. QED BY <2>1, <2>2, <2>3, <2>4 DEF LatchInv
<1>10. ErrorInv'
  <2>1. \A q \in Pullers : stage'[q] = "capture" <=> stage[q] = "capture"
    BY <1>1, <1>3
  <2>. QED BY <1>1, <1>3, <2>1 DEF IInv, ErrorInv
<1>. QED BY <1>4, <1>5, <1>6, <1>7, <1>9, <1>10

LEMMA ArriveLastStep ==
  ASSUME IInv, NEW p \in Pullers, ArriveLast(p)
  PROVE  QueueInv' /\ UntouchedInv' /\ SubmissionInv' /\ StageInv' /\ LatchInv' /\ ErrorInv'
<1>1. /\ stage[p] = "last" /\ stage' = [stage EXCEPT ![p] = "out"]
      /\ done_' = [done_ EXCEPT ![p[1]] = TRUE]
      /\ UNCHANGED <<workers_, queue, pc, submitted, count_, slot, raised>>
  BY DEF ArriveLast
<1>2. FannedOut(p[1]) /\ p[1] \in Calls /\ p[2] # 0
  BY <1>1, AtWork DEF IInv, StageInv
<1>3. /\ \A q \in Pullers : stage'[q] = IF q = p THEN "out" ELSE stage[q]
      /\ \A k \in Calls : done_'[k] = IF k = p[1] THEN TRUE ELSE done_[k]
      /\ \A k \in Calls : (FannedOut(k)' <=> FannedOut(k)) /\ (Finished(k)' <=> Finished(k))
  BY <1>1, <1>2 DEF IInv, TypeOK, FannedOut, Finished
<1>4. QueueInv'
  BY <1>1, <1>3, QueuedArePullers DEF IInv, QueueInv
<1>5. UntouchedInv'
  <2> SUFFICES ASSUME NEW k \in Calls, pc[k] \in {"idle", "queued", "sequential"}
               PROVE  /\ submitted[k] = 0 /\ ~done_'[k] /\ ~slot[k] /\ ~raised[k]
                      /\ \A q \in Pullers : q[1] = k => stage'[q] = "none"
    BY <1>1 DEF UntouchedInv
  <2>1. k # p[1]
    BY <1>2 DEF FannedOut
  <2>. QED BY <1>3, <2>1 DEF IInv, UntouchedInv
<1>6. SubmissionInv'
  BY <1>1 DEF IInv, SubmissionInv, Size
<1>7. StageInv'
  BY <1>1, <1>2, <1>3, PullerPair DEF IInv, StageInv
<1>8. LatchInv'
  <2>1. \A k \in Calls : Pending(k)' = Pending(k)
    BY <1>1, SamePending
  <2>2. \A q \in Pullers : stage'[q] = "last" => stage[q] = "last" /\ q[1] # p[1]
    BY <1>1, <1>3 DEF IInv, LatchInv
  <2>3. count_[p[1]] = 0
    BY <1>1 DEF IInv, LatchInv
  <2>. QED BY <1>1, <1>3, <2>1, <2>2, <2>3, PullerPair DEF IInv, LatchInv
<1>9. ErrorInv'
  <2>1. \A q \in Pullers : stage'[q] = "capture" <=> stage[q] = "capture"
    BY <1>1, <1>3
  <2>. QED BY <1>1, <1>3, <2>1 DEF IInv, ErrorInv
<1>. QED BY <1>4, <1>5, <1>6, <1>7, <1>8, <1>9

LEMMA PullStep ==
  ASSUME IInv, NEW p \in Pullers, Pull(p)
  PROVE  QueueInv' /\ UntouchedInv' /\ SubmissionInv' /\ StageInv' /\ LatchInv' /\ ErrorInv'
<1>1. CASE Fetch(p)
  <2>1. next[p[1]] \in Nat /\ n[p[1]] \in Nat /\ Size \in Nat
    BY PullerPair, PoolSize DEF IInv, TypeOK
  <2>2. next[p[1]] < Chunks(p[1]) \/ next[p[1]] >= Chunks(p[1])
    BY <2>1 DEF Chunks, chunk_count, Least, Greatest
  <2>. QED BY <1>1, <2>2, FetchStep, FetchLastStep
<1>. QED BY <1>1, BodyStep, BodyThrowsStep, CaptureStep, ArriveStep, ArriveLastStep DEF Pull

-----------------------------------------------------------------------------
\* Entering a call that has touched nothing yet, whoever makes it.
LEMMA EnterStep ==
  ASSUME IInv, NEW k \in Calls, NEW size \in Nat, Enter(k, size),
         pc[k] \in {"idle", "queued"}, UNCHANGED workers_
  PROVE  /\ UntouchedInv' /\ SubmissionInv' /\ StageInv' /\ LatchInv' /\ ErrorInv'
         /\ UNCHANGED stage
         /\ \A h \in Calls : h # k => pc'[h] = pc[h]
<1>1. /\ UNCHANGED <<submitted, stage, done_, slot, raised>>
      /\ \E to \in {"returned", "sequential", "submit"} :
           /\ pc' = [pc EXCEPT ![k] = to]
           /\ to = "submit" => Size >= 2 /\ count_' = [count_ EXCEPT ![k] = Size - 1]
           /\ to # "submit" => UNCHANGED count_
  BY PoolSize DEF Enter, loopVars, IInv, TypeOK
<1>2. PICK to \in {"returned", "sequential", "submit"} :
        /\ pc' = [pc EXCEPT ![k] = to]
        /\ to = "submit" => Size >= 2 /\ count_' = [count_ EXCEPT ![k] = Size - 1]
        /\ to # "submit" => UNCHANGED count_
  BY <1>1
<1>3. /\ \A h \in Calls : pc'[h] = IF h = k THEN to ELSE pc[h]
      /\ \A h \in Calls : h # k => count_'[h] = count_[h]
      /\ to = "submit" => count_'[k] = Size - 1
  BY <1>2 DEF IInv, TypeOK
<1>4. /\ submitted[k] = 0 /\ ~done_[k] /\ ~slot[k] /\ ~raised[k]
      /\ \A p \in Pullers : p[1] = k => stage[p] = "none"
  BY DEF IInv, UntouchedInv
<1>5. Size' = Size /\ Size \in Nat
  BY PoolSize DEF Size, IInv, TypeOK
<1>6. UntouchedInv'
  BY <1>1, <1>3, <1>4 DEF IInv, UntouchedInv
<1>7. SubmissionInv'
  BY <1>1, <1>2, <1>3, <1>4, <1>5 DEF IInv, SubmissionInv
<1>8. StageInv'
  BY <1>1, <1>3, <1>4, PullerPair DEF IInv, StageInv, FannedOut
<1>9. LatchInv'
  <2>1. \A h \in Calls : Pending(h)' = Pending(h)
    BY <1>1, <1>5 DEF Pending
  <2>2. Pending(k) = 1 .. Size - 1
    BY <1>4, <1>5 DEF Pending
  <2>3. Cardinality(1 .. Size - 1) = Size - 1
    BY PendingCard DEF IInv, TypeOK
  <2>4. ASSUME NEW h \in Calls, FannedOut(h)' PROVE count_'[h] = Cardinality(Pending(h)')
    BY <1>3, <2>1, <2>2, <2>3, <2>4 DEF IInv, LatchInv, FannedOut
  <2>5. \A p \in Pullers : stage[p] = "last" => p[1] # k /\ p[1] \in Calls
    BY <1>4, PullerPair
  <2>. QED BY <1>1, <1>3, <1>4, <2>4, <2>5 DEF IInv, LatchInv
<1>10. ErrorInv'
  BY <1>1, <1>3, <1>4 DEF IInv, ErrorInv, FannedOut, Finished
<1>. QED BY <1>1, <1>3, <1>6, <1>7, <1>8, <1>9, <1>10

LEMMA CallFromOutsideStep ==
  ASSUME IInv, NEW k \in Calls, CallFromOutside(k)
  PROVE  QueueInv' /\ UntouchedInv' /\ SubmissionInv' /\ StageInv' /\ LatchInv' /\ ErrorInv'
<1>1. PICK size \in Sizes[k][Size] : Enter(k, size)
  BY DEF CallFromOutside
<1>2. Sizes[k][Size] \in SUBSET Nat
  BY PoolSize, ParRunAssumption DEF ParRunAssumption, IInv, TypeOK
<1>3. /\ UntouchedInv' /\ SubmissionInv' /\ StageInv' /\ LatchInv' /\ ErrorInv'
      /\ UNCHANGED <<stage, queue>>
      /\ \A h \in Calls : h # k => pc'[h] = pc[h]
  BY <1>1, <1>2, EnterStep DEF CallFromOutside, poolVars
<1>4. QueueInv'
  BY <1>3, QueuedArePullers DEF CallFromOutside, IInv, QueueInv
<1>. QED BY <1>3, <1>4

LEMMA EnqueueOuterStep ==
  ASSUME IInv, NEW k \in Calls, EnqueueOuter(k)
  PROVE  QueueInv' /\ UntouchedInv' /\ SubmissionInv' /\ StageInv' /\ LatchInv' /\ ErrorInv'
<1>1. /\ pc[k] = "idle" /\ pc' = [pc EXCEPT ![k] = "queued"]
      /\ queue' = Append(queue, Caller(k))
      /\ UNCHANGED <<workers_, submitted, stage, count_, done_, slot, raised>>
  BY DEF EnqueueOuter, loopVars, syncVars
<1>2. \A h \in Calls : pc'[h] = IF h = k THEN "queued" ELSE pc[h]
  BY <1>1 DEF IInv, TypeOK
<1>3. QueueInv'
  <2>1. \A i \in 1 .. Len(queue) : queue[i] \in Pullers /\ queue[i] # Caller(k)
    BY <1>1, QueuedArePullers DEF IInv, QueueInv, Caller
  <2>2. /\ Len(queue') = Len(queue) + 1 /\ Len(queue) \in Nat
        /\ \A i \in 1 .. Len(queue) : queue'[i] = queue[i]
        /\ queue'[Len(queue) + 1] = Caller(k)
    BY <1>1, CallerIsPuller DEF IInv, TypeOK
  <2>3. \A i \in 1 .. Len(queue) :
          IF queue[i][2] = 0 THEN pc'[queue[i][1]] = "queued" ELSE stage'[queue[i]] = "queued"
    BY <1>1, <1>2, QueuedArePullers DEF IInv, QueueInv
  <2>4. Caller(k)[2] = 0 /\ pc'[Caller(k)[1]] = "queued"
    BY <1>2 DEF Caller
  <2>. QED BY <2>1, <2>2, <2>3, <2>4 DEF IInv, QueueInv
<1>4. UntouchedInv' /\ SubmissionInv' /\ StageInv' /\ ErrorInv'
  BY <1>1, <1>2, PullerPair
     DEF IInv, UntouchedInv, SubmissionInv, StageInv, ErrorInv, FannedOut, Finished, Size
<1>5. LatchInv'
  <2>1. \A h \in Calls : Pending(h)' = Pending(h)
    BY <1>1 DEF Pending, Size
  <2>. QED BY <1>1, <1>2, <2>1 DEF IInv, LatchInv, FannedOut
<1>. QED BY <1>3, <1>4, <1>5

LEMMA WorkerTakesStep ==
  ASSUME IInv, NEW w \in Workers, WorkerTakes(w)
  PROVE  QueueInv' /\ UntouchedInv' /\ SubmissionInv' /\ StageInv' /\ LatchInv' /\ ErrorInv'
<1> DEFINE p == Head(queue)
<1>1. /\ queue # <<>> /\ queue' = Tail(queue) /\ UNCHANGED workers_
      /\ Len(queue) \in Nat /\ Len(queue) >= 1 /\ p = queue[1]
      /\ Len(queue') = Len(queue) - 1
      /\ \A i \in 1 .. Len(queue') : queue'[i] = queue[i + 1] /\ i + 1 \in 1 .. Len(queue)
  BY DEF WorkerTakes, IInv, TypeOK
<1>2. p \in Pullers /\ p[1] \in Calls /\ p = <<p[1], p[2]>>
  BY <1>1, QueuedArePullers, PullerPair
<1>3. \A i \in 1 .. Len(queue') : queue'[i] \in Pullers /\ queue'[i][1] \in Calls /\ queue'[i] # p
  BY <1>1, QueuedArePullers DEF IInv, QueueInv
<1>4. /\ \A i \in 1 .. Len(queue') :
           IF queue'[i][2] = 0 THEN pc[queue'[i][1]] = "queued" ELSE stage[queue'[i]] = "queued"
      /\ \A i, j \in 1 .. Len(queue') : queue'[i] = queue'[j] => i = j
  BY <1>1 DEF IInv, QueueInv
<1>5. CASE p[2] = 0
  <2>1. PICK size \in Sizes[p[1]][Size] : Enter(p[1], size)
    BY <1>5 DEF WorkerTakes
  <2>2. Sizes[p[1]][Size] \in SUBSET Nat
    BY <1>2, PoolSize, ParRunAssumption DEF ParRunAssumption, IInv, TypeOK
  <2>3. pc[p[1]] = "queued"
    BY <1>1, <1>5 DEF IInv, QueueInv
  <2>4. /\ UntouchedInv' /\ SubmissionInv' /\ StageInv' /\ LatchInv' /\ ErrorInv'
        /\ UNCHANGED stage
        /\ \A h \in Calls : h # p[1] => pc'[h] = pc[h]
    BY <1>1, <1>2, <2>1, <2>2, <2>3, EnterStep
  <2>5. ASSUME NEW i \in 1 .. Len(queue'), queue'[i][2] = 0 PROVE queue'[i][1] # p[1]
    BY <1>2, <1>3, <1>5, <2>5, PullerPair
  <2>6. QueueInv'
    BY <1>3, <1>4, <2>4, <2>5 DEF QueueInv
  <2>. QED BY <2>4, <2>6
<1>6. CASE p[2] # 0
  <2>1. /\ stage' = [stage EXCEPT ![p] = "fetch"]
        /\ UNCHANGED <<pc, submitted, count_, done_, slot, raised>>
    BY <1>6 DEF WorkerTakes, syncVars
  <2>2. stage[p] = "queued"
    BY <1>1, <1>6 DEF IInv, QueueInv
  <2>3. \A q \in Pullers : stage'[q] = IF q = p THEN "fetch" ELSE stage[q]
    BY <2>1 DEF IInv, TypeOK
  <2>4. QueueInv'
    BY <1>3, <1>4, <2>1, <2>3 DEF QueueInv
  <2>5. FannedOut(p[1])
    BY <1>2, <1>6, <2>2 DEF IInv, StageInv
  <2>6. UntouchedInv'
    BY <1>2, <2>1, <2>3, <2>5 DEF IInv, UntouchedInv, FannedOut
  <2>7. SubmissionInv' /\ StageInv'
    BY <1>1, <1>2, <1>6, <2>1, <2>2, <2>3, <2>5 DEF IInv, SubmissionInv, StageInv, FannedOut, Size
  <2>8. LatchInv'
    <3>1. \A k \in Calls : Pending(k)' = Pending(k)
      BY <1>1, <1>2, <2>1, <2>2, SamePending
    <3>. QED BY <2>1, <2>3, <3>1 DEF IInv, LatchInv, FannedOut
  <2>9. ErrorInv'
    <3>1. \A q \in Pullers : stage'[q] = "capture" <=> stage[q] = "capture"
      BY <2>2, <2>3
    <3>. QED BY <2>1, <3>1 DEF IInv, ErrorInv, FannedOut, Finished
  <2>. QED BY <2>4, <2>6, <2>7, <2>8, <2>9
<1>. QED BY <1>5, <1>6

\* A step that changes nothing the invariant speaks of.
LEMMA FrameStep ==
  ASSUME IInv, UNCHANGED <<workers_, queue, pc, submitted, stage, count_, done_, slot, raised>>
  PROVE  QueueInv' /\ UntouchedInv' /\ SubmissionInv' /\ StageInv' /\ LatchInv' /\ ErrorInv'
<1>1. \A k \in Calls : Pending(k)' = Pending(k)
  BY DEF Pending, Size
<1>2. LatchInv'
  BY <1>1 DEF IInv, LatchInv, FannedOut
<1>. QED BY <1>2 DEF IInv, QueueInv, UntouchedInv, SubmissionInv, StageInv, ErrorInv,
                     FannedOut, Finished, Size

\* The calls that end without having fanned out.
LEMMA SequentialStep ==
  ASSUME IInv, NEW k \in Calls, SequentialChunk(k) \/ SequentialReturns(k)
  PROVE  QueueInv' /\ UntouchedInv' /\ SubmissionInv' /\ StageInv' /\ LatchInv' /\ ErrorInv'
<1>1. pc[k] = "sequential"
  BY DEF SequentialChunk, SequentialReturns
<1>2. UNCHANGED <<workers_, queue, submitted, stage, count_, done_, slot>>
  BY DEF SequentialChunk, SequentialReturns, poolVars, loopVars, syncVars
<1>3. \/ UNCHANGED <<pc, raised>>
      \/ pc' = [pc EXCEPT ![k] = "threw"] /\ raised' = [raised EXCEPT ![k] = TRUE]
      \/ pc' = [pc EXCEPT ![k] = "returned"] /\ UNCHANGED raised
  BY DEF SequentialChunk, SequentialReturns
<1>4. CASE UNCHANGED <<pc, raised>>
  BY <1>2, <1>4, FrameStep
<1>5. ASSUME NEW to \in {"threw", "returned"}, pc' = [pc EXCEPT ![k] = to],
             raised' = [raised EXCEPT ![k] = (to = "threw")]
      PROVE  QueueInv' /\ UntouchedInv' /\ SubmissionInv' /\ StageInv' /\ LatchInv' /\ ErrorInv'
  <2>1. /\ \A h \in Calls : pc'[h] = IF h = k THEN to ELSE pc[h]
        /\ \A h \in Calls : raised'[h] = IF h = k THEN (to = "threw") ELSE raised[h]
    BY <1>5 DEF IInv, TypeOK
  <2>2. /\ ~done_[k] /\ \A p \in Pullers : p[1] = k => stage[p] = "none"
    BY <1>1 DEF IInv, UntouchedInv
  <2>3. QueueInv'
    BY <1>1, <1>2, <2>1, QueuedArePullers DEF IInv, QueueInv
  <2>4. UntouchedInv' /\ SubmissionInv'
    BY <1>1, <1>2, <2>1 DEF IInv, UntouchedInv, SubmissionInv, Size
  <2>5. StageInv'
    BY <1>1, <1>2, <2>1, <2>2, PullerPair DEF IInv, StageInv, FannedOut
  <2>6. LatchInv'
    <3>1. \A h \in Calls : Pending(h)' = Pending(h)
      BY <1>2 DEF Pending, Size
    <3>. QED BY <1>1, <1>2, <2>1, <3>1 DEF IInv, LatchInv, FannedOut
  <2>7. ErrorInv'
    <3> SUFFICES ASSUME NEW h \in Calls
                 PROVE  /\ FannedOut(h)' => (raised'[h] <=> slot[h] \/ \E p \in Pullers : p[1] = h /\ stage[p] = "capture")
                        /\ Finished(h)' => (pc'[h] = "threw" <=> raised'[h])
      BY <1>2 DEF ErrorInv
    <3>1. CASE h = k
      <4>1. pc'[h] = to /\ (raised'[h] <=> to = "threw")
        BY <2>1, <3>1
      <4>. QED BY <4>1 DEF FannedOut
    <3>2. CASE h # k
      <4>1. pc'[h] = pc[h] /\ raised'[h] = raised[h]
        BY <2>1, <3>2
      <4>. QED BY <4>1 DEF IInv, ErrorInv, FannedOut, Finished
    <3>. QED BY <3>1, <3>2
  <2>. QED BY <2>3, <2>4, <2>5, <2>6, <2>7
<1>6. ~raised[k] /\ raised = [raised EXCEPT ![k] = FALSE]
  <2>1. ~raised[k]
    BY <1>1 DEF IInv, UntouchedInv
  <2>. QED BY <2>1 DEF IInv, TypeOK
<1>. QED BY <1>3, <1>4, <1>5, <1>6

LEMMA ReturnStep ==
  ASSUME IInv, NEW k \in Calls, Return(k)
  PROVE  QueueInv' /\ UntouchedInv' /\ SubmissionInv' /\ StageInv' /\ LatchInv' /\ ErrorInv'
<1> DEFINE to == IF slot[k] THEN "threw" ELSE "returned"
<1>1. /\ pc[k] = "wait" /\ done_[k] /\ pc' = [pc EXCEPT ![k] = to]
      /\ UNCHANGED <<workers_, queue, submitted, stage, count_, done_, slot, raised>>
  BY DEF Return, poolVars, loopVars, syncVars
<1>2. \A h \in Calls : pc'[h] = IF h = k THEN to ELSE pc[h]
  BY <1>1 DEF IInv, TypeOK
<1>3. Pending(k) = {}
  <2>1. count_[k] = 0 /\ count_[k] = Cardinality(Pending(k))
    BY <1>1 DEF IInv, LatchInv, FannedOut
  <2>2. Pending(k) \in SUBSET (1 .. Size - 1)
    BY DEF Pending
  <2>. QED BY <2>1, <2>2, PendingCard DEF IInv, TypeOK
<1>4. \A p \in Pullers : p[1] = k => stage[p] \in {"none", "out"}
  <2> SUFFICES ASSUME NEW p \in Pullers, p[1] = k PROVE stage[p] \in {"none", "out"}
    OBVIOUS
  <2>1. CASE p[2] = 0
    BY <1>1, <2>1 DEF IInv, StageInv
  <2>2. CASE p[2] # 0
    <3>1. stage[p] \notin {"queued", "fetch", "body", "capture", "arrive"}
      BY <1>3, <2>2, HelperPending
    <3>2. stage[p] # "last"
      BY <1>1 DEF IInv, LatchInv
    <3>. QED BY <3>1, <3>2 DEF IInv, TypeOK
  <2>. QED BY <2>1, <2>2
<1>5. QueueInv'
  BY <1>1, <1>2, QueuedArePullers DEF IInv, QueueInv
<1>6. UntouchedInv' /\ SubmissionInv'
  BY <1>1, <1>2 DEF IInv, UntouchedInv, SubmissionInv, Size
<1>7. StageInv'
  BY <1>1, <1>2, <1>4, PullerPair DEF IInv, StageInv, FannedOut
<1>8. LatchInv'
  <2>1. \A h \in Calls : Pending(h)' = Pending(h)
    BY <1>1 DEF Pending, Size
  <2>. QED BY <1>1, <1>2, <2>1 DEF IInv, LatchInv, FannedOut
<1>9. ErrorInv'
  BY <1>1, <1>2, <1>4 DEF IInv, ErrorInv, FannedOut, Finished
<1>. QED BY <1>5, <1>6, <1>7, <1>8, <1>9

-----------------------------------------------------------------------------
\* Both outcomes of a submission: the helper's number goes up, and after the last of them the
\* caller starts to pull.
LEMMA SubmissionFacts ==
  ASSUME IInv, NEW k \in Calls, pc[k] = "submit", Submitted(k), UNCHANGED workers_
  PROVE  /\ submitted[k] + 1 \in 1 .. Size - 1 /\ submitted[k] \in Nat /\ Size' = Size /\ Size \in Nat
         /\ \A h \in Calls : submitted'[h] = IF h = k THEN submitted[k] + 1 ELSE submitted[h]
         /\ \A h \in Calls : pc'[h] = IF h = k THEN IF submitted[k] + 2 = Size THEN "pull" ELSE "submit" ELSE pc[h]
         /\ \A h \in Calls : (FannedOut(h)' <=> FannedOut(h)) /\ (Finished(h)' <=> Finished(h))
         /\ SubmissionInv'
         /\ Caller(k) \in Pullers /\ stage[Caller(k)] \in {"none", "out"}
         /\ <<k, submitted[k] + 1>> \in Pullers /\ stage[<<k, submitted[k] + 1>>] = "none"
         /\ submitted[k] + 1 \in Pending(k)
<1>1. submitted[k] + 1 \in 1 .. Size - 1 /\ submitted[k] \in Nat /\ Size \in Nat /\ Size' = Size
  BY PoolSize DEF IInv, TypeOK, SubmissionInv, Size
<1>2. /\ \A h \in Calls : submitted'[h] = IF h = k THEN submitted[k] + 1 ELSE submitted[h]
      /\ \A h \in Calls : pc'[h] = IF h = k THEN IF submitted[k] + 2 = Size THEN "pull" ELSE "submit" ELSE pc[h]
  BY DEF Submitted, IInv, TypeOK
<1>3. \A h \in Calls : (FannedOut(h)' <=> FannedOut(h)) /\ (Finished(h)' <=> Finished(h))
  BY <1>2 DEF FannedOut, Finished
<1>4. SubmissionInv'
  <2>1. submitted[k] + 2 <= Size
    BY DEF IInv, SubmissionInv
  <2> SUFFICES ASSUME NEW h \in Calls
               PROVE  /\ pc'[h] = "submit" => submitted'[h] + 2 <= Size
                      /\ pc'[h] \in {"pull", "wait"} => submitted'[h] + 1 = Size /\ Size >= 2
    BY <1>1 DEF SubmissionInv
  <2>2. CASE h = k
    BY <1>1, <1>2, <2>1, <2>2
  <2>3. CASE h # k
    BY <1>2, <2>3 DEF IInv, SubmissionInv
  <2>. QED BY <2>2, <2>3
<1>5. Caller(k) \in Pullers /\ stage[Caller(k)] \in {"none", "out"}
  <2>1. Caller(k) \in Pullers /\ Caller(k)[1] = k /\ Caller(k)[2] = 0
    BY CallerIsPuller DEF IInv, Caller
  <2>. QED BY <2>1 DEF IInv, StageInv
<1>6. <<k, submitted[k] + 1>> \in Pullers
  BY <1>1, PairPuller DEF IInv, TypeOK
<1>7. stage[<<k, submitted[k] + 1>>] = "none"
  <2> DEFINE p == <<k, submitted[k] + 1>>
  <2>1. p \in Pullers /\ p[1] = k /\ p[2] = submitted[k] + 1
    BY <1>6
  <2>2. p[2] # 0 /\ ~(p[2] <= submitted[k])
    BY <1>1, <2>1
  <2>. QED BY <2>1, <2>2 DEF IInv, StageInv
<1>8. submitted[k] + 1 \in Pending(k)
  BY <1>1 DEF Pending
<1>. QED BY <1>1, <1>2, <1>3, <1>4, <1>5, <1>6, <1>7, <1>8

LEMMA SubmitStep ==
  ASSUME IInv, NEW k \in Calls, Submit(k)
  PROVE  QueueInv' /\ UntouchedInv' /\ SubmissionInv' /\ StageInv' /\ LatchInv' /\ ErrorInv'
<1> DEFINE p == <<k, submitted[k] + 1>>
           last == submitted[k] + 2 = Size
<1>1. /\ pc[k] = "submit" /\ Submitted(k) /\ queue' = Append(queue, p)
      /\ UNCHANGED <<workers_, count_, done_, slot, raised>>
  BY DEF Submit, syncVars
<1>2. /\ submitted[k] + 1 \in 1 .. Size - 1 /\ submitted[k] \in Nat /\ Size' = Size /\ Size \in Nat
      /\ \A h \in Calls : submitted'[h] = IF h = k THEN submitted[k] + 1 ELSE submitted[h]
      /\ \A h \in Calls : pc'[h] = IF h = k THEN IF last THEN "pull" ELSE "submit" ELSE pc[h]
      /\ \A h \in Calls : (FannedOut(h)' <=> FannedOut(h)) /\ (Finished(h)' <=> Finished(h))
      /\ SubmissionInv'
      /\ Caller(k) \in Pullers /\ stage[Caller(k)] \in {"none", "out"}
      /\ p \in Pullers /\ stage[p] = "none"
  BY <1>1, SubmissionFacts
<1>3. p[1] = k /\ p[2] = submitted[k] + 1 /\ p[2] # 0 /\ Caller(k)[1] = k /\ Caller(k)[2] = 0 /\ p # Caller(k)
  BY <1>2 DEF Caller
<1>4. \A q \in Pullers : stage'[q] = IF q = p THEN "queued"
                                     ELSE IF q = Caller(k) /\ last THEN "fetch" ELSE stage[q]
  <2> DEFINE queued == [stage EXCEPT ![p] = "queued"]
  <2>1. queued \in [Pullers -> Stages] /\ \A q \in Pullers : queued[q] = IF q = p THEN "queued" ELSE stage[q]
    BY <1>2 DEF IInv, TypeOK, Stages
  <2>2. stage' = IF last THEN [queued EXCEPT ![Caller(k)] = "fetch"] ELSE queued
    BY DEF Submit, CallerFetches
  <2> HIDE DEF queued, p, last
  <2>. QED BY <1>2, <1>3, <2>1, <2>2
<1> HIDE DEF p, last
<1>5. QueueInv'
  <2>1. \A i \in 1 .. Len(queue) : queue[i] \in Pullers /\ queue[i][1] \in Calls
                                   /\ queue[i] # p /\ queue[i] # Caller(k)
    BY <1>1, <1>2, <1>3, QueuedArePullers DEF IInv, QueueInv
  <2>2. /\ Len(queue') = Len(queue) + 1 /\ Len(queue) \in Nat
        /\ \A i \in 1 .. Len(queue) : queue'[i] = queue[i]
        /\ queue'[Len(queue) + 1] = p
    BY <1>1, <1>2 DEF IInv, TypeOK
  <2>3. \A i \in 1 .. Len(queue) :
          IF queue[i][2] = 0 THEN pc'[queue[i][1]] = "queued" ELSE stage'[queue[i]] = "queued"
    <3> SUFFICES ASSUME NEW i \in 1 .. Len(queue)
                 PROVE  IF queue[i][2] = 0 THEN pc'[queue[i][1]] = "queued" ELSE stage'[queue[i]] = "queued"
      OBVIOUS
    <3>1. CASE queue[i][2] = 0
      <4>1. pc[queue[i][1]] = "queued" /\ queue[i][1] # k
        BY <1>1, <3>1 DEF IInv, QueueInv
      <4>. QED BY <1>2, <2>1, <3>1, <4>1
    <3>2. CASE queue[i][2] # 0
      <4>1. stage[queue[i]] = "queued"
        BY <3>2 DEF IInv, QueueInv
      <4>. QED BY <1>4, <2>1, <3>2, <4>1
    <3>. QED BY <3>1, <3>2
  <2>. QED BY SMTT(30), <1>2, <1>3, <1>4, <2>1, <2>2, <2>3 DEF IInv, QueueInv
<1>6. UntouchedInv'
  BY <1>1, <1>2, <1>3, <1>4 DEF IInv, UntouchedInv
<1>7. StageInv'
  <2> SUFFICES ASSUME NEW q \in Pullers
               PROVE  /\ q[2] = 0 => /\ stage'[q] \in {"none", "fetch", "body", "capture", "out"}
                                     /\ stage'[q] \in {"fetch", "body", "capture"} <=> pc'[q[1]] = "pull"
                      /\ q[2] # 0 => /\ stage'[q] # "none" => q[2] <= submitted'[q[1]]
                                     /\ stage'[q] \notin {"none", "out"} => FannedOut(q[1])'
    BY DEF StageInv
  <2>1. q[1] \in Calls /\ (q[1] = k /\ q[2] = 0 => q = Caller(k)) /\ q[2] \in Nat
    BY PullerPair DEF Caller
  <2>2. CASE q = p
    BY <1>1, <1>2, <1>3, <1>4, <2>2 DEF FannedOut
  <2>3. CASE q = Caller(k)
    BY <1>1, <1>2, <1>3, <1>4, <2>3
  <2>4. CASE q # p /\ q # Caller(k)
    <3>1. stage'[q] = stage[q]
      BY <1>4, <2>4
    <3>2. q[2] <= submitted[q[1]] => q[2] <= submitted'[q[1]]
      BY SMTT(30), <1>2, <2>1 DEF IInv, TypeOK
    <3>3. q[2] = 0 => pc'[q[1]] = pc[q[1]]
      BY <1>2, <2>1, <2>4
    <3>. QED BY <1>2, <2>1, <3>1, <3>2, <3>3 DEF IInv, StageInv
  <2>. QED BY <2>2, <2>3, <2>4
<1>8. LatchInv'
  <2>1. \A h \in Calls : Pending(h)' = Pending(h)
    <3> SUFFICES ASSUME NEW h \in Calls, NEW i \in 1 .. Size - 1
                 PROVE  \/ i > submitted'[h]
                        \/ stage'[<<h, i>>] \in {"queued", "fetch", "body", "capture", "arrive"}
                      <=> \/ i > submitted[h]
                          \/ stage[<<h, i>>] \in {"queued", "fetch", "body", "capture", "arrive"}
      BY <1>2 DEF Pending
    <3>1. <<h, i>> \in Pullers /\ <<h, i>> # Caller(k) /\ i \in Nat
      BY <1>2, PairPuller, PoolSize DEF Caller, IInv, TypeOK
    <3>2. CASE <<h, i>> = p
      BY <1>2, <1>3, <1>4, <3>1, <3>2
    <3>3. CASE <<h, i>> # p
      <4>1. stage'[<<h, i>>] = stage[<<h, i>>]
        BY <1>4, <3>1, <3>3
      <4>2. i > submitted'[h] <=> i > submitted[h]
        BY <1>2, <3>1, <3>3 DEF p
      <4>. QED BY <4>1, <4>2
    <3>. QED BY <3>2, <3>3
  <2>2. \A q \in Pullers : stage'[q] = "last" => stage[q] = "last"
    BY <1>4
  <2>. QED BY <1>1, <1>2, <2>1, <2>2 DEF IInv, LatchInv
<1>9. ErrorInv'
  <2>1. \A q \in Pullers : stage'[q] = "capture" <=> stage[q] = "capture"
    BY <1>2, <1>4
  <2>2. \A h \in Calls : Finished(h) => pc'[h] = pc[h]
    BY <1>1, <1>2 DEF Finished
  <2>. QED BY <1>1, <1>2, <2>1, <2>2 DEF IInv, ErrorInv
<1>. QED BY <1>2, <1>5, <1>6, <1>7, <1>8, <1>9

LEMMA SubmitFailsStep ==
  ASSUME IInv, NEW k \in Calls, SubmitFails(k)
  PROVE  QueueInv' /\ UntouchedInv' /\ SubmissionInv' /\ StageInv' /\ LatchInv' /\ ErrorInv'
<1> DEFINE i0 == submitted[k] + 1
           last == submitted[k] + 2 = Size
<1>1. /\ pc[k] = "submit" /\ Submitted(k)
      /\ count_' = [count_ EXCEPT ![k] = @ - 1]
      /\ done_' = [done_ EXCEPT ![k] = @ \/ count_[k] = 1]
      /\ slot' = [slot EXCEPT ![k] = TRUE] /\ raised' = [raised EXCEPT ![k] = TRUE]
      /\ UNCHANGED <<workers_, queue>>
  BY DEF SubmitFails, poolVars
<1>2. /\ i0 \in 1 .. Size - 1 /\ submitted[k] \in Nat /\ Size' = Size /\ Size \in Nat
      /\ \A h \in Calls : submitted'[h] = IF h = k THEN i0 ELSE submitted[h]
      /\ \A h \in Calls : pc'[h] = IF h = k THEN IF last THEN "pull" ELSE "submit" ELSE pc[h]
      /\ \A h \in Calls : (FannedOut(h)' <=> FannedOut(h)) /\ (Finished(h)' <=> Finished(h))
      /\ SubmissionInv'
      /\ Caller(k) \in Pullers /\ stage[Caller(k)] \in {"none", "out"}
      /\ <<k, i0>> \in Pullers /\ stage[<<k, i0>>] = "none"
      /\ i0 \in Pending(k)
  BY <1>1, SubmissionFacts
<1>3. Caller(k)[1] = k /\ Caller(k)[2] = 0
  BY DEF Caller
<1>4. \A q \in Pullers : stage'[q] = IF q = Caller(k) /\ last THEN "fetch" ELSE stage[q]
  <2>1. stage' = IF last THEN [stage EXCEPT ![Caller(k)] = "fetch"] ELSE stage
    BY DEF SubmitFails, CallerFetches
  <2>. QED BY <1>2, <2>1 DEF IInv, TypeOK
<1>5. FannedOut(k)
  BY <1>1 DEF FannedOut
<1>6. /\ count_[k] >= 1 /\ count_[k] \in Nat
      /\ Cardinality(Pending(k) \ {i0}) = count_[k] - 1
      /\ ~done_[k]
      /\ \A q \in Pullers : q[1] = k => stage[q] # "last"
  BY <1>2, <1>5, ArrivalCounts
<1>7. /\ \A h \in Calls : count_'[h] = IF h = k THEN count_[k] - 1 ELSE count_[h]
      /\ \A h \in Calls : done_'[h] = IF h = k THEN count_[k] = 1 ELSE done_[h]
      /\ \A h \in Calls : slot'[h] = IF h = k THEN TRUE ELSE slot[h]
      /\ \A h \in Calls : raised'[h] = IF h = k THEN TRUE ELSE raised[h]
  <2>1. done_[k] = FALSE
    BY <1>6 DEF IInv, TypeOK
  <2>. QED BY <1>1, <2>1 DEF IInv, TypeOK
<1> HIDE DEF last, i0
<1>8. QueueInv'
  <2>1. \A i \in 1 .. Len(queue) : queue[i] \in Pullers /\ queue[i][1] \in Calls /\ queue[i] # Caller(k)
    BY <1>1, <1>3, QueuedArePullers DEF IInv, QueueInv
  <2> SUFFICES ASSUME NEW i \in 1 .. Len(queue)
               PROVE  IF queue[i][2] = 0 THEN pc'[queue[i][1]] = "queued" ELSE stage'[queue[i]] = "queued"
    BY <1>1 DEF IInv, QueueInv
  <2>2. CASE queue[i][2] = 0
    <3>1. pc[queue[i][1]] = "queued" /\ queue[i][1] # k
      BY <1>1, <2>2 DEF IInv, QueueInv
    <3>. QED BY <1>2, <2>1, <2>2, <3>1
  <2>3. CASE queue[i][2] # 0
    <3>1. stage[queue[i]] = "queued"
      BY <2>3 DEF IInv, QueueInv
    <3>. QED BY <1>4, <2>1, <2>3, <3>1
  <2>. QED BY <2>2, <2>3
<1>9. UntouchedInv'
  <2> SUFFICES ASSUME NEW h \in Calls, pc'[h] \in {"idle", "queued", "sequential"}
               PROVE  /\ submitted'[h] = 0 /\ ~done_'[h] /\ ~slot'[h] /\ ~raised'[h]
                      /\ \A q \in Pullers : q[1] = h => stage'[q] = "none"
    BY DEF UntouchedInv
  <2>1. h # k /\ pc[h] \in {"idle", "queued", "sequential"}
    BY <1>2
  <2>2. /\ submitted[h] = 0 /\ ~done_[h] /\ ~slot[h] /\ ~raised[h]
        /\ \A q \in Pullers : q[1] = h => stage[q] = "none"
    BY <2>1 DEF IInv, UntouchedInv
  <2>3. submitted'[h] = 0 /\ ~done_'[h] /\ ~slot'[h] /\ ~raised'[h]
    BY <1>2, <1>7, <2>1, <2>2
  <2>4. ASSUME NEW q \in Pullers, q[1] = h  PROVE  stage'[q] = "none"
    <3>1. q # Caller(k)
      BY <1>3, <2>1, <2>4
    <3>. QED BY <1>4, <2>2, <2>4, <3>1
  <2>. QED BY <2>3, <2>4
<1>10. StageInv'
  <2> SUFFICES ASSUME NEW q \in Pullers
               PROVE  /\ q[2] = 0 => /\ stage'[q] \in {"none", "fetch", "body", "capture", "out"}
                                     /\ stage'[q] \in {"fetch", "body", "capture"} <=> pc'[q[1]] = "pull"
                      /\ q[2] # 0 => /\ stage'[q] # "none" => q[2] <= submitted'[q[1]]
                                     /\ stage'[q] \notin {"none", "out"} => FannedOut(q[1])'
    BY DEF StageInv
  <2>1. q[1] \in Calls /\ (q[1] = k /\ q[2] = 0 => q = Caller(k)) /\ q[2] \in Nat
    BY PullerPair DEF Caller
  <2>2. CASE q = Caller(k)
    BY <1>1, <1>2, <1>3, <1>4, <2>2
  <2>3. CASE q # Caller(k)
    <3>1. stage'[q] = stage[q]
      BY <1>4, <2>3
    <3>2. q[2] <= submitted[q[1]] => q[2] <= submitted'[q[1]]
      BY SMTT(30), <1>2, <2>1 DEF i0, IInv, TypeOK
    <3>3. q[2] = 0 => pc'[q[1]] = pc[q[1]]
      BY <1>2, <2>1, <2>3
    <3>. QED BY <1>2, <2>1, <3>1, <3>2, <3>3 DEF IInv, StageInv
  <2>. QED BY <2>2, <2>3
<1>11. LatchInv'
  <2>1. \A h \in Calls : \A i \in 1 .. Size - 1 : stage'[<<h, i>>] = stage[<<h, i>>]
    <3> SUFFICES ASSUME NEW h \in Calls, NEW i \in 1 .. Size - 1 PROVE stage'[<<h, i>>] = stage[<<h, i>>]
      OBVIOUS
    <3>1. <<h, i>> \in Pullers /\ <<h, i>> # Caller(k)
      BY <1>2, PairPuller DEF Caller, IInv, TypeOK
    <3>. QED BY <1>4, <3>1
  <2>2. ASSUME NEW h \in Calls, FannedOut(h)' PROVE count_'[h] = Cardinality(Pending(h)')
    <3>1. CASE h = k
      <4>1. Pending(k)' = Pending(k) \ {i0}
        <5> SUFFICES ASSUME NEW i \in 1 .. Size - 1
                     PROVE  \/ i > submitted'[k]
                            \/ stage'[<<k, i>>] \in {"queued", "fetch", "body", "capture", "arrive"}
                          <=> /\ \/ i > submitted[k]
                                 \/ stage[<<k, i>>] \in {"queued", "fetch", "body", "capture", "arrive"}
                              /\ i # i0
          BY <1>2 DEF Pending
        <5>1. stage'[<<k, i>>] = stage[<<k, i>>] /\ i \in Nat
          BY <1>2, <2>1
        <5>2. CASE i = i0
          BY <1>2, <5>1, <5>2
        <5>3. CASE i # i0
          BY <1>2, <5>1, <5>3 DEF i0
        <5>. QED BY <5>2, <5>3
      <4>. QED BY <1>6, <1>7, <3>1, <4>1
    <3>2. CASE h # k
      <4>1. Pending(h)' = Pending(h)
        BY <1>2, <2>1, <3>2 DEF Pending
      <4>2. FannedOut(h)
        BY <1>2, <2>2
      <4>. QED BY <1>7, <3>2, <4>1, <4>2 DEF IInv, LatchInv
    <3>. QED BY <3>1, <3>2
  <2>3. \A q \in Pullers : stage'[q] = "last" => stage[q] = "last" /\ q[1] # k /\ q[1] \in Calls
    BY <1>4, <1>6, PullerPair
  <2>4. \A q \in Pullers : stage'[q] = "last" => count_'[q[1]] = 0 /\ ~done_'[q[1]]
    BY <1>7, <2>3 DEF IInv, LatchInv
  <2>5. \A q, r \in Pullers : stage'[q] = "last" /\ stage'[r] = "last" /\ q[1] = r[1] => q = r
    BY <2>3 DEF IInv, LatchInv
  <2>6. ASSUME NEW h \in Calls, done_'[h] PROVE count_'[h] = 0
    <3>1. CASE h = k
      <4>1. done_'[k] <=> count_[k] = 1
        BY <1>7
      <4>2. count_[k] = 1
        BY <2>6, <3>1, <4>1
      <4>. QED BY <1>7, <3>1, <4>2
    <3>2. CASE h # k
      BY <1>7, <2>6, <3>2 DEF IInv, LatchInv
    <3>. QED BY <3>1, <3>2
  <2>. QED BY <2>2, <2>4, <2>5, <2>6 DEF LatchInv
<1>12. ErrorInv'
  <2>1. \A q \in Pullers : stage'[q] = "capture" <=> stage[q] = "capture"
    BY <1>2, <1>4
  <2> SUFFICES ASSUME NEW h \in Calls
               PROVE  /\ FannedOut(h)' => (raised'[h] <=> slot'[h] \/ \E q \in Pullers : q[1] = h /\ stage'[q] = "capture")
                      /\ Finished(h)' => (pc'[h] = "threw" <=> raised'[h])
    BY DEF ErrorInv
  <2>2. CASE h = k
    <3>1. raised'[h] /\ slot'[h] /\ pc'[h] \in {"submit", "pull"}
      BY <1>2, <1>7, <2>2
    <3>2. ~Finished(h)'
      BY <3>1 DEF Finished
    <3>. QED BY <3>1, <3>2
  <2>3. CASE h # k
    <3>1. raised'[h] = raised[h] /\ slot'[h] = slot[h] /\ pc'[h] = pc[h]
      BY <1>2, <1>7, <2>3
    <3>. QED BY <1>2, <2>1, <3>1 DEF IInv, ErrorInv
  <2>. QED BY <2>2, <2>3
<1>. QED BY <1>2, <1>8, <1>9, <1>10, <1>11, <1>12

LEMMA NextIInv == IInv /\ [Next]_vars => IInv'
<1> SUFFICES ASSUME IInv, [Next]_vars PROVE IInv'
  OBVIOUS
<1> DEFINE Rest == QueueInv /\ UntouchedInv /\ SubmissionInv /\ StageInv /\ LatchInv /\ ErrorInv
<1>1. TypeOK'
  BY TypeStep
<1>2. ASSUME NEW k \in Calls, CallFromOutside(k) \/ EnqueueOuter(k) \/ CallStep(k) PROVE Rest'
  BY <1>2, CallFromOutsideStep, EnqueueOuterStep, SubmitStep, SubmitFailsStep, ReturnStep, SequentialStep
     DEF CallStep
<1>3. ASSUME NEW w \in Workers, WorkerTakes(w) \/ OuterEnds(w) PROVE Rest'
  <2>1. CASE WorkerTakes(w)
    BY <2>1, WorkerTakesStep
  <2>2. CASE OuterEnds(w)
    BY <2>2, FrameStep DEF OuterEnds, loopVars, syncVars
  <2>. QED BY <1>3, <2>1, <2>2
<1>4. ASSUME NEW p \in Pullers, Pull(p) PROVE Rest'
  BY <1>4, PullStep
<1>5. CASE UNCHANGED vars
  <2>1. UNCHANGED <<workers_, queue, pc, submitted, stage, count_, done_, slot, raised>>
    BY <1>5 DEF vars, poolVars, loopVars, syncVars
  <2>. QED BY <1>1, <2>1, FrameStep DEF IInv
<1>. QED BY <1>1, <1>2, <1>3, <1>4, <1>5 DEF Next, IInv

THEOREM Inductive == Spec => []IInv
BY InitIInv, NextIInv, PTL DEF Spec

\* The types are right, and the latch never counts below zero: count_.fetch_sub is never
\* called more often than the latch expects, whether helpers arrive or the caller arrives for
\* those that could not be submitted.
THEOREM TypeCorrect == Spec => []TypeOK
<1>1. IInv => TypeOK
  BY DEF IInv
<1>. QED BY <1>1, Inductive, PTL

\* par_run does not return, normally or by throwing, while a helper is queued or runs: the
\* references the helpers hold into its frame never dangle.
THEOREM FrameSafe == Spec => []FrameOutlivesHelpers
<1>1. IInv => FrameOutlivesHelpers
  <2> SUFFICES ASSUME IInv, NEW p \in Pullers, Finished(p[1]) PROVE stage[p] \in {"none", "out"}
    BY DEF FrameOutlivesHelpers
  <2>1. ~FannedOut(p[1])
    BY DEF Finished, FannedOut
  <2>2. CASE p[2] = 0
    BY <2>1, <2>2 DEF IInv, StageInv, FannedOut
  <2>3. CASE p[2] # 0
    BY <2>1, <2>3 DEF IInv, StageInv
  <2>. QED BY <2>2, <2>3
<1>. QED BY <1>1, Inductive, PTL

\* A call throws exactly when a body or a submission of it threw.
THEOREM ErrorsReported == Spec => []ErrorsReachCaller
<1>1. IInv => ErrorsReachCaller
  BY DEF IInv, ErrorInv, ErrorsReachCaller
<1>. QED BY <1>1, Inductive, PTL

-----------------------------------------------------------------------------
\* Each index once.

ChunkIds(k)    == 0 .. Chunks(k) - 1
ChunkOf(k, c)  == Elements(n[k], Size, c)
InHand(k, c)   == \E p \in Pullers : p[1] = k /\ stage[p] = "body" /\ got[p] = c

RunsOK == /\ runs = [k \in Calls |-> runs[k]]
          /\ \A k \in Calls : runs[k] \in [0 .. n[k] - 1 -> {0, 1}]

\* A chunk in hand was fetched, and is in one hand.
HandsInv ==
  /\ \A p \in Pullers : stage[p] = "body" => got[p] \in ChunkIds(p[1]) /\ got[p] < next[p[1]]
  /\ \A p, q \in Pullers : stage[p] = "body" /\ stage[q] = "body" /\ p[1] = q[1] /\ got[p] = got[q] => p = q

\* Only chunks that were fetched, and are in no hand any more, have been run.
RanInv ==
  \A k \in Calls : ~Finished(k) =>
    \A c \in ChunkIds(k) : \A i \in ChunkOf(k, c) : runs[k][i] # 0 => c < next[k] /\ ~InHand(k, c)

\* Without an exception all of those have been run in full.
DoneInv ==
  \A k \in Calls : ~Finished(k) /\ ~raised[k] =>
    \A c \in ChunkIds(k) : c < next[k] /\ ~InHand(k, c) => \A i \in ChunkOf(k, c) : runs[k][i] = 1

\* No chunk is fetched before the call, and none is left when its caller stops to pull.
BoundsInv ==
  \A k \in Calls : /\ pc[k] \in {"idle", "queued"} => next[k] = 0 /\ n[k] = 0
                   /\ pc[k] = "wait" /\ ~raised[k] => Chunks(k) <= next[k]
                   /\ pc[k] = "returned" => \A i \in 0 .. n[k] - 1 : runs[k][i] = 1

IndexInv == RunsOK /\ HandsInv /\ RanInv /\ DoneInv /\ BoundsInv

-----------------------------------------------------------------------------
\* The chunks of a size that was rounded up partition the input, the last ones being empty.

LEMMA DivisionBounds ==
  ASSUME NEW a \in Nat, NEW c \in Nat, 0 < c
  PROVE  a \div c \in Nat /\ c * (a \div c) <= a /\ a < c * (a \div c) + c
OBVIOUS

LEMMA CeilDivBounds ==
  ASSUME NEW m \in Nat, NEW parts \in Nat, 0 < m, 0 < parts
  PROVE  CeilDiv(m, parts) \in Nat /\ 0 < CeilDiv(m, parts) /\ m <= parts * CeilDiv(m, parts)
<1> DEFINE a == m + parts - 1
           q == CeilDiv(m, parts)
<1>1. a \in Nat /\ q = a \div parts
  BY DEF CeilDiv
<1>2. q \in Nat /\ parts * q <= a /\ a < parts * q + parts
  BY <1>1, DivisionBounds
<1> HIDE DEF q
<1>3. m <= parts * q
  BY <1>2
<1>4. q # 0
  BY <1>3
<1>. QED BY <1>2, <1>3, <1>4 DEF q

LEMMA ChunkNumber ==
  ASSUME NEW m \in Nat, NEW w \in Nat, 0 < w
  PROVE  /\ chunk_count(m, w) \in Nat
         /\ 0 < m => 0 < chunk_count(m, w)
BY DEF chunk_count, Least, Greatest

LEMMA MultiplesApart ==
  ASSUME NEW b \in Nat, NEW c \in Nat, NEW d \in Nat, c < d
  PROVE  c * b + b <= d * b
<1>1. d = c + 1 + (d - (c + 1)) /\ d - (c + 1) \in Nat
  OBVIOUS
<1>2. ASSUME NEW e \in Nat PROVE (c + 1 + e) * b = c * b + b + e * b /\ e * b >= 0
  OBVIOUS
<1>. QED BY <1>1, <1>2

LEMMA ElementBounds ==
  ASSUME NEW m \in Nat, NEW w \in Nat, 0 < w, NEW c \in Nat, NEW i, i \in Elements(m, w, c),
         ChunkSize(m, w) \in Nat
  PROVE  /\ i \in 0 .. m - 1
         /\ c * ChunkSize(m, w) <= i /\ i < c * ChunkSize(m, w) + ChunkSize(m, w)
<1> DEFINE b == ChunkSize(m, w)
           s == c * b
<1>1. s \in Nat
  OBVIOUS
<1> HIDE DEF b
<1>2. i \in s .. Least(m, s + b) /\ i < Least(m, s + b)
  BY DEF Elements, Start, End, b
<1> HIDE DEF s
<1>3. i \in Nat /\ s <= i /\ i < m /\ i < s + b
  BY <1>1, <1>2 DEF Least, b
<1>. QED BY <1>3 DEF s, b

\* Empty when there is no input; otherwise the size is positive.
LEMMA SizeOfChunks ==
  ASSUME NEW m \in Nat, NEW w \in Nat, 0 < w, 0 < m
  PROVE  /\ ChunkSize(m, w) \in Nat /\ 0 < ChunkSize(m, w)
         /\ m <= chunk_count(m, w) * ChunkSize(m, w)
BY ChunkNumber, CeilDivBounds DEF ChunkSize

LEMMA ChunksDisjoint ==
  ASSUME NEW m \in Nat, NEW w \in Nat, 0 < w, 0 < m, NEW c \in Nat, NEW d \in Nat,
         NEW i, i \in Elements(m, w, c), i \in Elements(m, w, d)
  PROVE  c = d
<1> DEFINE b == ChunkSize(m, w)
<1>1. b \in Nat
  BY SizeOfChunks
<1>2. i \in Nat /\ c * b <= i /\ i < c * b + b /\ d * b <= i /\ i < d * b + b
  BY <1>1, ElementBounds
<1> HIDE DEF b
<1>3. ~ (c < d)
  <2>1. ASSUME c < d PROVE c * b + b <= d * b
    BY <1>1, <2>1, MultiplesApart
  <2>. QED BY <1>1, <1>2, <2>1
<1>4. ~ (d < c)
  <2>1. ASSUME d < c PROVE d * b + b <= c * b
    BY <1>1, <2>1, MultiplesApart
  <2>. QED BY <1>1, <1>2, <2>1
<1>. QED BY <1>3, <1>4

LEMMA ChunksCover ==
  ASSUME NEW m \in Nat, NEW w \in Nat, 0 < w, NEW i \in 0 .. m - 1
  PROVE  \E c \in 0 .. chunk_count(m, w) - 1 : i \in Elements(m, w, c)
<1> DEFINE b == ChunkSize(m, w)
           k == chunk_count(m, w)
           c == i \div b
<1>1. 0 < m /\ i \in Nat
  OBVIOUS
<1>2. b \in Nat /\ 0 < b /\ m <= k * b /\ k \in Nat
  BY <1>1, SizeOfChunks, ChunkNumber
<1> HIDE DEF b, k
<1>3. c \in Nat /\ b * c <= i /\ i < b * c + b
  BY <1>1, <1>2, DivisionBounds
<1> HIDE DEF c
<1>4. c * b <= i /\ i < c * b + b /\ c * b \in Nat
  BY <1>2, <1>3
<1>5. c < k
  <2>1. ASSUME k <= c PROVE k * b <= c * b
    <3>1. CASE k = c
      BY <1>2, <1>3, <3>1
    <3>2. CASE k < c
      <4>1. k * b + b <= c * b
        BY <1>2, <1>3, <3>2, MultiplesApart
      <4>2. k * b \in Nat
        BY <1>2
      <4>. QED BY <1>2, <1>4, <4>1, <4>2
    <3>. QED BY <1>2, <1>3, <2>1, <3>1, <3>2
  <2>2. k * b \in Nat
    BY <1>2
  <2>. QED BY <1>2, <1>3, <1>4, <2>1, <2>2
<1>6. i \in Elements(m, w, c)
  <2> DEFINE s == c * b
  <2>1. s \in Nat /\ s <= i /\ i < s + b
    BY <1>4
  <2> HIDE DEF s
  <2>2. i \in s .. Least(m, s + b) /\ i < Least(m, s + b)
    BY <1>1, <1>2, <2>1 DEF Least
  <2>. QED BY <2>2 DEF Elements, Start, End, s, b
<1>. QED BY <1>2, <1>3, <1>5, <1>6 DEF k

\* The same of the chunks of a call.
LEMMA Partition ==
  ASSUME TypeOK, NEW k \in Calls
  PROVE  /\ Chunks(k) \in Nat /\ ChunkIds(k) \subseteq Nat
         /\ \A c \in ChunkIds(k) : ChunkOf(k, c) \subseteq 0 .. n[k] - 1
         /\ \A c, d \in ChunkIds(k) : \A i \in ChunkOf(k, c) : i \in ChunkOf(k, d) => c = d
         /\ \A i \in 0 .. n[k] - 1 : \E c \in ChunkIds(k) : i \in ChunkOf(k, c)
<1>1. Size \in Nat /\ 0 < Size /\ n[k] \in Nat
  BY PoolSize DEF TypeOK
<1>2. Chunks(k) \in Nat /\ ChunkIds(k) \subseteq Nat
  BY <1>1, ChunkNumber DEF Chunks, ChunkIds
<1>3. \A i \in 0 .. n[k] - 1 : \E c \in ChunkIds(k) : i \in ChunkOf(k, c)
  BY <1>1, ChunksCover DEF Chunks, ChunkIds, ChunkOf
<1>4. CASE n[k] = 0
  <2>1. ChunkIds(k) = {}
    BY <1>1, <1>4 DEF ChunkIds, Chunks, chunk_count, Least, Greatest
  <2>. QED BY <1>2, <1>3, <2>1
<1>5. CASE 0 < n[k]
  <2>1. \A c \in ChunkIds(k) : ChunkOf(k, c) \subseteq 0 .. n[k] - 1
    BY <1>1, <1>2, <1>5, SizeOfChunks, ElementBounds DEF ChunkOf
  <2>2. \A c, d \in ChunkIds(k) : \A i \in ChunkOf(k, c) : i \in ChunkOf(k, d) => c = d
    BY <1>1, <1>2, <1>5, ChunksDisjoint DEF ChunkOf
  <2>. QED BY <1>2, <1>3, <2>1, <2>2
<1>. QED BY <1>1, <1>4, <1>5

-----------------------------------------------------------------------------
LEMMA InitIndex == Init => IndexInv
<1> SUFFICES ASSUME Init PROVE IndexInv
  OBVIOUS
<1>1. RunsOK
  BY DEF Init, RunsOK
<1>2. HandsInv /\ RanInv /\ DoneInv /\ BoundsInv
  <2>1. \A k \in Calls : 0 .. n[k] - 1 = {}
    BY DEF Init
  <2>2. \A k \in Calls : \A c \in ChunkIds(k) : ChunkOf(k, c) = {}
    BY <2>1, Partition, InitIInv DEF IInv
  <2>. QED BY <2>1, <2>2 DEF Init, HandsInv, RanInv, DoneInv, BoundsInv
<1>. QED BY <1>1, <1>2 DEF IndexInv

-----------------------------------------------------------------------------
\* A step that runs no body and hands out no chunk: a fetch that finds none left counts on.
LEMMA SameIndex ==
  ASSUME TypeOK, IndexInv, UNCHANGED <<workers_, n, runs>>,
         \A p \in Pullers : /\ stage'[p] = "body" <=> stage[p] = "body"
                            /\ stage[p] = "body" => got'[p] = got[p],
         \A k \in Calls : \/ next'[k] = next[k]
                          \/ Chunks(k) <= next[k] /\ next'[k] = next[k] + 1,
         \A k \in Calls : Finished(k) => Finished(k)',
         \A k \in Calls : raised[k] => raised'[k]
  PROVE  RunsOK' /\ HandsInv' /\ RanInv' /\ DoneInv'
<1>1. \A k \in Calls : /\ ChunkIds(k)' = ChunkIds(k) /\ Chunks(k) \in Nat /\ next[k] \in Nat
                       /\ \A c : ChunkOf(k, c)' = ChunkOf(k, c)
  BY Partition DEF ChunkIds, Chunks, ChunkOf, Size, TypeOK
<1>2. \A k \in Calls : \A c \in ChunkIds(k) : c < next'[k] <=> c < next[k]
  BY <1>1 DEF ChunkIds
<1>3. \A k \in Calls : \A c : InHand(k, c)' <=> InHand(k, c)
  BY DEF InHand
<1>4. RunsOK'
  BY DEF IndexInv, RunsOK
<1>5. HandsInv'
  BY <1>1, <1>2, PullerPair DEF IndexInv, HandsInv
<1>6. RanInv'
  BY <1>1, <1>2, <1>3 DEF IndexInv, RanInv
<1>7. DoneInv'
  BY <1>1, <1>2, <1>3 DEF IndexInv, DoneInv
<1>. QED BY <1>4, <1>5, <1>6, <1>7

\* Calls that wait or returned stay as they are while nothing about them changes.
LEMMA SameBounds ==
  ASSUME TypeOK, IndexInv, UNCHANGED <<workers_, n, runs>>,
         \A k \in Calls : /\ pc'[k] \in {"idle", "queued"} => next'[k] = 0 /\ n[k] = 0
                          /\ pc'[k] = "wait" /\ ~raised'[k] => Chunks(k) <= next'[k]
                          /\ pc'[k] = "returned" => \A i \in 0 .. n[k] - 1 : runs[k][i] = 1
  PROVE  BoundsInv'
BY DEF BoundsInv, Chunks, Size

\* What one run of the body over part of a chunk counts.
LEMMA RanForCounts ==
  ASSUME RunsOK, NEW k \in Calls, NEW done, RanFor(k, done)
  PROVE  /\ \A j \in Calls : j # k => runs'[j] = runs[j]
         /\ runs'[k] = [i \in 0 .. n[k] - 1 |-> IF i \in done THEN runs[k][i] + 1 ELSE runs[k][i]]
BY DEF RunsOK, RanFor

\* Puller p runs its body over done, all of its chunk unless it throws, and lets go of the chunk.
LEMMA RunStep ==
  ASSUME IInv, IndexInv, NEW p \in Pullers, stage[p] = "body",
         NEW done, RanFor(p[1], done), done \subseteq ChunkOf(p[1], got[p]),
         NEW s, s # "body", stage' = [stage EXCEPT ![p] = s], got' = [got EXCEPT ![p] = 0],
         UNCHANGED <<workers_, pc, n, next>>,
         \/ done = ChunkOf(p[1], got[p]) /\ UNCHANGED raised
         \/ raised' = [raised EXCEPT ![p[1]] = TRUE]
  PROVE  IndexInv'
<1>a. PICK k, b : k = p[1] /\ b = got[p]
  OBVIOUS
<1> USE <1>a
<1>0. TypeOK /\ RunsOK /\ HandsInv /\ RanInv /\ DoneInv /\ BoundsInv
  BY DEF IInv, IndexInv
<1>1. k \in Calls /\ p[2] \in Nat /\ pc[k] \in {"submit", "pull", "wait"} /\ ~Finished(k)
  <2>1. k \in Calls /\ p[2] \in Nat
    BY PullerPair, PoolSize DEF TypeOK, IInv
  <2>2. pc[k] \in {"submit", "pull", "wait"}
    <3>1. CASE p[2] = 0
      BY <3>1 DEF IInv, StageInv
    <3>2. CASE p[2] # 0
      BY <3>2 DEF IInv, StageInv, FannedOut
    <3>. QED BY <3>1, <3>2
  <2>. QED BY <2>1, <2>2 DEF Finished
<1>2. b \in ChunkIds(k) /\ b < next[k] /\ b \in Nat /\ InHand(k, b)
  BY <1>0, <1>1, Partition DEF HandsInv, InHand
<1>3. \A j \in Calls : /\ ChunkIds(j)' = ChunkIds(j) /\ (\A c : ChunkOf(j, c)' = ChunkOf(j, c))
                       /\ Finished(j)' = Finished(j) /\ n'[j] = n[j] /\ next'[j] = next[j]
                       /\ Chunks(j)' = Chunks(j)
  BY DEF ChunkIds, ChunkOf, Chunks, Size, Finished
<1>4. \A q \in Pullers : stage'[q] = "body" => q # p /\ stage[q] = "body" /\ got'[q] = got[q]
  BY <1>0 DEF TypeOK
<1>5. \A q \in Pullers : q # p /\ stage[q] = "body" => stage'[q] = "body" /\ got'[q] = got[q]
  BY <1>0 DEF TypeOK
<1>6. \A j \in Calls : \A c : InHand(j, c)' => InHand(j, c)
  BY <1>4 DEF InHand
<1>7. ~InHand(k, b)'
  BY <1>0, <1>4 DEF InHand, HandsInv
<1>8. \A j \in Calls : \A c : InHand(j, c) => InHand(j, c)' \/ (j = k /\ c = b)
  <2> SUFFICES ASSUME NEW j \in Calls, NEW c, NEW q \in Pullers, q[1] = j, stage[q] = "body", got[q] = c
               PROVE  InHand(j, c)' \/ (j = k /\ c = b)
    BY DEF InHand
  <2>1. CASE q = p
    BY <2>1
  <2>2. CASE q # p
    BY <1>5, <2>2 DEF InHand
  <2>. QED BY <2>1, <2>2
<1>9. /\ \A j \in Calls : j # k => runs'[j] = runs[j]
      /\ runs'[k] = [i \in 0 .. n[k] - 1 |-> IF i \in done THEN runs[k][i] + 1 ELSE runs[k][i]]
  BY <1>0, <1>1, RanForCounts
<1>10. \A i \in 0 .. n[k] - 1 : runs[k][i] \in {0, 1} /\ (i \in done => runs[k][i] = 0)
  BY <1>0, <1>1, <1>2 DEF RunsOK, RanInv
<1>11. \A i \in 0 .. n[k] - 1 : /\ i \in done => runs'[k][i] = 1
                                /\ i \notin done => runs'[k][i] = runs[k][i]
  BY <1>9, <1>10
<1>12. RunsOK'
  <2>1. runs' = [j \in Calls |-> runs'[j]]
    BY <1>0 DEF RanFor, RunsOK
  <2>2. runs'[k] \in [0 .. n[k] - 1 -> {0, 1}]
    BY <1>9, <1>10
  <2>. QED BY <1>0, <1>3, <1>9, <2>1, <2>2 DEF RunsOK
<1>13. HandsInv'
  <2>1. ASSUME NEW q \in Pullers, stage'[q] = "body" PROVE got'[q] \in ChunkIds(q[1])' /\ got'[q] < next'[q[1]]
    BY <1>0, <1>3, <1>4, <2>1, PullerPair DEF HandsInv
  <2>2. ASSUME NEW q \in Pullers, NEW r \in Pullers, stage'[q] = "body", stage'[r] = "body", q[1] = r[1], got'[q] = got'[r]
        PROVE  q = r
    BY <1>0, <1>4, <2>2 DEF HandsInv
  <2>. QED BY <2>1, <2>2 DEF HandsInv
<1>14. \A j \in Calls : \A c \in ChunkIds(j) : \A i \in ChunkOf(j, c) : i \in 0 .. n[j] - 1
  BY <1>0, Partition
<1>15. RanInv'
  <2> SUFFICES ASSUME NEW j \in Calls, ~Finished(j), NEW c \in ChunkIds(j), NEW i \in ChunkOf(j, c), runs'[j][i] # 0
               PROVE  c < next[j] /\ ~InHand(j, c)'
    BY <1>3 DEF RanInv
  <2>1. CASE j = k /\ i \in done
    <3>1. c = b
      BY <1>0, <1>1, <1>2, <2>1, Partition
    <3>. QED BY <1>2, <1>7, <2>1, <3>1
  <2>2. CASE ~ (j = k /\ i \in done)
    <3>1. runs[j][i] # 0
      BY <1>9, <1>11, <1>14, <2>2
    <3>2. c < next[j] /\ ~InHand(j, c)
      BY <1>0, <3>1 DEF RanInv
    <3>. QED BY <1>6, <3>2
  <2>. QED BY <2>1, <2>2
<1>16. \A j \in Calls : ~raised'[j] => ~raised[j] /\ (j = k => done = ChunkOf(k, b))
  BY <1>0, <1>1 DEF TypeOK
<1>17. DoneInv'
  <2> SUFFICES ASSUME NEW j \in Calls, ~Finished(j), ~raised'[j], NEW c \in ChunkIds(j), c < next[j], ~InHand(j, c)',
                      NEW i \in ChunkOf(j, c)
               PROVE  runs'[j][i] = 1
    BY <1>3 DEF DoneInv
  <2>1. CASE j = k /\ c = b
    BY <1>11, <1>14, <1>16, <2>1
  <2>2. CASE ~ (j = k /\ c = b)
    <3>1. ~InHand(j, c)
      BY <1>8, <2>2
    <3>2. runs[j][i] = 1
      BY <1>0, <1>16, <3>1 DEF DoneInv
    <3>. QED BY <1>9, <1>11, <1>14, <3>2
  <2>. QED BY <2>1, <2>2
<1>18. BoundsInv'
  <2> SUFFICES ASSUME NEW j \in Calls
               PROVE  /\ pc[j] \in {"idle", "queued"} => next[j] = 0 /\ n[j] = 0
                      /\ pc[j] = "wait" /\ ~raised'[j] => Chunks(j) <= next[j]
                      /\ pc[j] = "returned" => \A i \in 0 .. n[j] - 1 : runs'[j][i] = 1
    BY <1>3 DEF BoundsInv
  <2>1. j = k => pc[j] # "returned"
    BY <1>1
  <2>. QED BY <1>0, <1>9, <1>16, <2>1 DEF BoundsInv
<1>. QED BY <1>12, <1>13, <1>15, <1>17, <1>18 DEF IndexInv

\* A puller takes the next chunk into its hand.
LEMMA TakeChunkStep ==
  ASSUME IInv, IndexInv, NEW p \in Pullers, Fetch(p), next[p[1]] < Chunks(p[1])
  PROVE  IndexInv'
<1>a. PICK k, b : k = p[1] /\ b = next[k]
  OBVIOUS
<1> USE <1>a
<1>0. TypeOK /\ RunsOK /\ HandsInv /\ RanInv /\ DoneInv /\ BoundsInv
  BY DEF IInv, IndexInv
<1>1. k \in Calls /\ b \in Nat /\ Chunks(k) \in Nat
  BY <1>0, PullerPair, Partition DEF TypeOK
<1>2. /\ stage[p] = "fetch" /\ stage' = [stage EXCEPT ![p] = "body"] /\ got' = [got EXCEPT ![p] = b]
      /\ next' = [next EXCEPT ![k] = b + 1]
      /\ UNCHANGED <<workers_, pc, n, raised, runs>>
  BY <1>1 DEF Fetch, poolVars
<1>3. \A j \in Calls : /\ ChunkIds(j)' = ChunkIds(j) /\ (\A c : ChunkOf(j, c)' = ChunkOf(j, c))
                       /\ Finished(j)' = Finished(j) /\ Chunks(j)' = Chunks(j)
                       /\ next'[j] = IF j = k THEN b + 1 ELSE next[j]
  BY <1>0, <1>2 DEF ChunkIds, ChunkOf, Chunks, Size, Finished, TypeOK
<1>4. \A q \in Pullers : q # p => (stage'[q] = "body" <=> stage[q] = "body") /\ got'[q] = got[q]
  BY <1>0, <1>2 DEF TypeOK
<1>5. stage'[p] = "body" /\ got'[p] = b
  BY <1>0, <1>2 DEF TypeOK
<1>6. \A j \in Calls : \A c : InHand(j, c)' => InHand(j, c) \/ (j = k /\ c = b)
  <2> SUFFICES ASSUME NEW j \in Calls, NEW c, NEW q \in Pullers, q[1] = j, stage'[q] = "body", got'[q] = c
               PROVE  InHand(j, c) \/ (j = k /\ c = b)
    BY DEF InHand
  <2>1. CASE q = p
    BY <1>5, <2>1
  <2>2. CASE q # p
    BY <1>4, <2>2 DEF InHand
  <2>. QED BY <2>1, <2>2
<1>14. \A j \in Calls : \A c : InHand(j, c) => InHand(j, c)'
  <2> SUFFICES ASSUME NEW j \in Calls, NEW c, NEW q \in Pullers, q[1] = j, stage[q] = "body", got[q] = c
               PROVE  InHand(j, c)'
    BY DEF InHand
  <2>1. q # p
    BY <1>2
  <2>. QED BY <1>4, <2>1 DEF InHand
<1>15. InHand(k, b)'
  BY <1>1, <1>5 DEF InHand
<1>7. b \in ChunkIds(k)
  BY <1>1 DEF ChunkIds
<1>8. \A j \in Calls : next[j] \in Nat /\ ChunkIds(j) \subseteq Nat
  BY <1>0, Partition DEF TypeOK
<1>9. RunsOK'
  BY <1>0, <1>2 DEF RunsOK
<1>10. HandsInv'
  <2>1. ASSUME NEW q \in Pullers, stage'[q] = "body" PROVE got'[q] \in ChunkIds(q[1])' /\ got'[q] < next'[q[1]]
    <3>1. CASE q = p
      BY <1>1, <1>3, <1>5, <1>7, <3>1
    <3>2. CASE q # p
      <4>1. q[1] \in Calls /\ got[q] \in ChunkIds(q[1]) /\ got[q] < next[q[1]] /\ got'[q] = got[q]
        BY <1>0, <1>4, <2>1, <3>2, PullerPair DEF HandsInv
      <4>2. next[q[1]] <= next'[q[1]] /\ got[q] \in Nat /\ next'[q[1]] \in Nat /\ next[q[1]] \in Nat
        BY <1>1, <1>3, <1>8, <4>1
      <4>. QED BY <1>3, <4>1, <4>2
    <3>. QED BY <3>1, <3>2
  <2>2. ASSUME NEW q \in Pullers, stage[q] = "body", q[1] = k PROVE got[q] # b
    BY <1>0, <1>1, <1>8, <2>2 DEF HandsInv
  <2>3. ASSUME NEW q \in Pullers, NEW r \in Pullers, stage'[q] = "body", stage'[r] = "body", q[1] = r[1], got'[q] = got'[r]
        PROVE  q = r
    BY <1>0, <1>4, <1>5, <2>2, <2>3 DEF HandsInv
  <2>. QED BY <2>1, <2>3 DEF HandsInv
<1>11. RanInv'
  <2> SUFFICES ASSUME NEW j \in Calls, ~Finished(j), NEW c \in ChunkIds(j), NEW i \in ChunkOf(j, c), runs[j][i] # 0
               PROVE  c < next'[j] /\ ~InHand(j, c)'
    BY <1>2, <1>3 DEF RanInv
  <2>1. c < next[j] /\ ~InHand(j, c) /\ c \in Nat /\ next[j] \in Nat
    BY <1>0, <1>8 DEF RanInv
  <2>. QED BY <1>3, <1>6, <2>1
<1>12. DoneInv'
  <2> SUFFICES ASSUME NEW j \in Calls, ~Finished(j), ~raised[j], NEW c \in ChunkIds(j), c < next'[j], ~InHand(j, c)',
                      NEW i \in ChunkOf(j, c)
               PROVE  runs[j][i] = 1
    BY <1>2, <1>3 DEF DoneInv
  <2>1. c < next[j] /\ ~InHand(j, c)
    BY <1>1, <1>3, <1>8, <1>14, <1>15
  <2>. QED BY <1>0, <2>1 DEF DoneInv
<1>13. BoundsInv'
  <2>1. pc[k] \notin {"idle", "queued"}
    BY <1>1, <1>2 DEF IInv, UntouchedInv
  <2>2. \A j \in Calls : /\ pc'[j] \in {"idle", "queued"} => next'[j] = 0 /\ n[j] = 0
                         /\ pc'[j] = "wait" /\ ~raised'[j] => Chunks(j) <= next'[j]
                         /\ pc'[j] = "returned" => \A i \in 0 .. n[j] - 1 : runs[j][i] = 1
    <3> SUFFICES ASSUME NEW j \in Calls
                 PROVE  /\ pc[j] \in {"idle", "queued"} => next'[j] = 0 /\ n[j] = 0
                        /\ pc[j] = "wait" /\ ~raised[j] => Chunks(j) <= next'[j]
                        /\ pc[j] = "returned" => \A i \in 0 .. n[j] - 1 : runs[j][i] = 1
      BY <1>2
    <3>1. Chunks(j) \in Nat /\ next[j] \in Nat
      BY <1>0, <1>8, Partition
    <3>. QED BY <1>0, <1>3, <2>1, <3>1 DEF BoundsInv
  <2>. QED BY <1>0, <1>2, <2>2, SameBounds
<1>. QED BY <1>9, <1>10, <1>11, <1>12, <1>13 DEF IndexInv

-----------------------------------------------------------------------------
\* Leaving the pull loop: a caller that saw no exception waits only when no chunk is left.
LEMMA LeaveIndex ==
  ASSUME IInv, IndexInv, NEW p \in Pullers, stage[p] \in {"fetch", "capture"}, Leaves(p),
         \/ next' = [next EXCEPT ![p[1]] = @ + 1] /\ Chunks(p[1]) <= next[p[1]]
         \/ next' = next /\ (raised[p[1]] \/ p[2] # 0),
         UNCHANGED <<workers_, n, got, raised, runs>>
  PROVE  IndexInv'
<1>0. TypeOK /\ BoundsInv /\ p[1] \in Calls
  BY PullerPair DEF IInv, IndexInv
<1>1. \A q \in Pullers : stage'[q] = "body" <=> stage[q] = "body"
  BY <1>0 DEF Leaves, TypeOK
<1>2. \A j \in Calls : /\ next[j] \in Nat /\ Chunks(j) \in Nat
                       /\ \/ next'[j] = next[j]
                          \/ Chunks(j) <= next[j] /\ next'[j] = next[j] + 1
  <2>1. \A j \in Calls : next[j] \in Nat /\ Chunks(j) \in Nat
    BY <1>0, Partition DEF TypeOK
  <2>2. CASE next' = next
    BY <2>1, <2>2
  <2>3. CASE next' = [next EXCEPT ![p[1]] = @ + 1] /\ Chunks(p[1]) <= next[p[1]]
    BY <1>0, <2>1, <2>3 DEF TypeOK
  <2>. QED BY <2>2, <2>3
<1>3. pc[p[1]] \in {"submit", "pull", "wait"}
  <2>1. CASE p[2] = 0
    BY <2>1 DEF IInv, StageInv
  <2>2. CASE p[2] # 0
    BY <2>2 DEF IInv, StageInv, FannedOut
  <2>. QED BY <2>1, <2>2
<1>4. \A j \in Calls : \/ pc'[j] = pc[j] /\ (pc[j] \in {"idle", "queued"} => next'[j] = next[j])
                       \/ pc'[j] = "wait" /\ j = p[1] /\ p[2] = 0
  BY <1>0, <1>3 DEF Leaves, TypeOK
<1>5. \A j \in Calls : Finished(j) => Finished(j)'
  BY <1>3, <1>4 DEF Finished
<1>6. RunsOK' /\ HandsInv' /\ RanInv' /\ DoneInv'
  BY <1>0, <1>1, <1>2, <1>5, SameIndex
<1>7. BoundsInv'
  <2> SUFFICES ASSUME NEW j \in Calls
               PROVE  /\ pc'[j] \in {"idle", "queued"} => next'[j] = 0 /\ n[j] = 0
                      /\ pc'[j] = "wait" /\ ~raised'[j] => Chunks(j) <= next'[j]
                      /\ pc'[j] = "returned" => \A i \in 0 .. n[j] - 1 : runs[j][i] = 1
    BY <1>0, SameBounds
  <2>1. CASE pc'[j] = pc[j]
    BY <1>0, <1>2, <1>4, <2>1 DEF BoundsInv
  <2>2. CASE pc'[j] = "wait" /\ j = p[1] /\ p[2] = 0
    BY <1>0, <1>2, <2>2 DEF TypeOK
  <2>. QED BY <1>4, <2>1, <2>2
<1>. QED BY <1>6, <1>7 DEF IndexInv

LEMMA FetchIndex == ASSUME IInv, IndexInv, NEW p \in Pullers, Fetch(p) PROVE IndexInv'
<1>1. CASE next[p[1]] < Chunks(p[1])
  BY <1>1, TakeChunkStep
<1>2. CASE ~ (next[p[1]] < Chunks(p[1]))
  <2>0. TypeOK /\ p[1] \in Calls /\ next[p[1]] \in Nat /\ Chunks(p[1]) \in Nat
    BY PullerPair, Partition DEF IInv, TypeOK
  <2>1. /\ stage[p] = "fetch" /\ next' = [next EXCEPT ![p[1]] = @ + 1] /\ Leaves(p) /\ Chunks(p[1]) <= next[p[1]]
        /\ UNCHANGED <<workers_, n, got, raised, runs>>
    BY <1>2, <2>0 DEF Fetch, poolVars
  <2>. QED BY <2>0, <2>1, LeaveIndex
<1>. QED BY <1>1, <1>2

LEMMA BodyIndex == ASSUME IInv, IndexInv, NEW p \in Pullers, Body(p) PROVE IndexInv'
<1>1. stage' = [stage EXCEPT ![p] = "fetch"] /\ RanFor(p[1], ChunkOf(p[1], got[p]))
  BY DEF Body, ChunkOf
<1>. QED BY <1>1, RunStep DEF Body, poolVars

LEMMA BodyThrowsIndex == ASSUME IInv, IndexInv, NEW p \in Pullers, BodyThrows(p) PROVE IndexInv'
<1>1. PICK i \in ChunkOf(p[1], got[p]) : RanFor(p[1], {j \in ChunkOf(p[1], got[p]) : j < i})
  BY DEF BodyThrows, ChunkOf
<1>2. stage' = [stage EXCEPT ![p] = "capture"] /\ raised' = [raised EXCEPT ![p[1]] = TRUE]
  BY DEF BodyThrows
<1>. QED BY <1>1, <1>2, RunStep DEF BodyThrows, poolVars

LEMMA CaptureIndex == ASSUME IInv, IndexInv, NEW p \in Pullers, Capture(p) PROVE IndexInv'
<1>1. raised[p[1]] \/ p[2] # 0
  BY PullerPair DEF Capture, IInv, ErrorInv, StageInv, FannedOut
<1>. QED BY <1>1, LeaveIndex DEF Capture, poolVars

\* Steps of the latch, the pool and the submission loop.
LEMMA QuietStep ==
  ASSUME IInv, IndexInv, UNCHANGED <<workers_, n, next, got, runs>>,
         \A p \in Pullers : stage'[p] = "body" <=> stage[p] = "body",
         \A k \in Calls : Finished(k) => Finished(k)',
         \A k \in Calls : raised[k] => raised'[k],
         \A k \in Calls : \/ pc'[k] = pc[k]
                          \/ pc'[k] \in {"submit", "pull", "threw"}
                          \/ pc[k] = "idle" /\ pc'[k] = "queued"
                          \/ pc'[k] = "returned" /\ \A i \in 0 .. n[k] - 1 : runs[k][i] = 1
  PROVE  IndexInv'
<1>0. TypeOK /\ BoundsInv
  BY DEF IInv, IndexInv
<1>1. RunsOK' /\ HandsInv' /\ RanInv' /\ DoneInv'
  BY <1>0, SameIndex
<1>2. BoundsInv'
  <2> SUFFICES ASSUME NEW j \in Calls
               PROVE  /\ pc'[j] \in {"idle", "queued"} => next'[j] = 0 /\ n[j] = 0
                      /\ pc'[j] = "wait" /\ ~raised'[j] => Chunks(j) <= next'[j]
                      /\ pc'[j] = "returned" => \A i \in 0 .. n[j] - 1 : runs[j][i] = 1
    BY <1>0, SameBounds
  <2>1. next'[j] = next[j] /\ (raised[j] => raised'[j])
    OBVIOUS
  <2>2. CASE pc'[j] = pc[j]
    BY <1>0, <2>1, <2>2 DEF BoundsInv
  <2>3. CASE pc'[j] \in {"submit", "pull", "threw"}
    BY <2>3
  <2>4. CASE pc[j] = "idle" /\ pc'[j] = "queued"
    BY <1>0, <2>1, <2>4 DEF BoundsInv
  <2>5. CASE pc'[j] = "returned" /\ \A i \in 0 .. n[j] - 1 : runs[j][i] = 1
    BY <2>5
  <2>. QED BY <2>2, <2>3, <2>4, <2>5
<1>. QED BY <1>1, <1>2 DEF IndexInv

LEMMA ArriveIndex == ASSUME IInv, IndexInv, NEW p \in Pullers, Arrive(p) \/ ArriveLast(p) PROVE IndexInv'
<1>1. \A q \in Pullers : stage'[q] = "body" <=> stage[q] = "body"
  BY DEF Arrive, ArriveLast, IInv, TypeOK
<1>2. UNCHANGED <<workers_, n, next, got, runs, pc, raised>>
  BY DEF Arrive, ArriveLast, poolVars
<1>. QED BY <1>1, <1>2, QuietStep DEF Finished

LEMMA SubmitIndex == ASSUME IInv, IndexInv, NEW k \in Calls, Submit(k) \/ SubmitFails(k) PROVE IndexInv'
<1>0. TypeOK
  BY DEF IInv
<1>1. /\ pc[k] = "submit" /\ pc' = [pc EXCEPT ![k] = IF submitted[k] + 2 = Size THEN "pull" ELSE "submit"]
      /\ UNCHANGED <<workers_, n, next, got, runs>> /\ (raised' = raised \/ raised' = [raised EXCEPT ![k] = TRUE])
  BY DEF Submit, SubmitFails, Submitted, poolVars
<1>2. Caller(k) \in Pullers /\ stage[Caller(k)] # "body"
  <2>1. Caller(k) \in Pullers /\ Caller(k)[1] = k /\ Caller(k)[2] = 0
    BY <1>0, CallerIsPuller DEF Caller
  <2>. QED BY <1>1, <2>1 DEF IInv, StageInv
<1>3. ASSUME NEW q \in Pullers PROVE stage'[q] = "body" <=> stage[q] = "body"
  <2>1. CASE Submit(k)
    <3> DEFINE h == <<k, submitted[k] + 1>>
               s == [stage EXCEPT ![h] = "queued"]
    <3>1. stage' = CallerFetches(k, s)
      BY <2>1 DEF Submit
    <3>2. stage[h] # "body"
      <4>1. h \in Pullers /\ h[1] = k /\ h[2] = submitted[k] + 1
        BY SMTT(30), <1>0, <1>1, PoolSize DEF IInv, SubmissionInv, Pullers, TypeOK
      <4>2. submitted[k] \in Nat
        BY <1>0 DEF TypeOK
      <4>. QED BY <4>1, <4>2 DEF IInv, StageInv
    <3>3. s[q] = "body" <=> stage[q] = "body"
      BY <1>0, <3>2 DEF TypeOK
    <3>4. DOMAIN s = Pullers
      BY <1>0 DEF TypeOK
    <3> HIDE DEF s
    <3>5. \A t \in Pullers : t # Caller(k) => stage'[t] = s[t]
      BY <3>1, <3>4 DEF CallerFetches
    <3>6. stage'[Caller(k)] = s[Caller(k)] \/ stage'[Caller(k)] = "fetch"
      BY <1>2, <3>1, <3>4 DEF CallerFetches
    <3>7. stage'[Caller(k)] # "body"
      <4>1. s[Caller(k)] # "body"
        BY <1>0, <1>2 DEF TypeOK, s
      <4>. QED BY <3>6, <4>1
    <3>. QED BY <1>2, <3>3, <3>5, <3>7
  <2>2. CASE SubmitFails(k)
    <3>1. stage' = CallerFetches(k, stage)
      BY <2>2 DEF SubmitFails
    <3>. QED BY <1>0, <1>2, <3>1 DEF CallerFetches, TypeOK
  <2>. QED BY <2>1, <2>2
<1>4. \A j \in Calls : /\ Finished(j) => Finished(j)'
                       /\ raised[j] => raised'[j]
                       /\ pc'[j] = pc[j] \/ pc'[j] \in {"submit", "pull", "threw"}
  BY <1>0, <1>1 DEF Finished, TypeOK
<1>. QED BY <1>1, <1>3, <1>4, QuietStep

\* The latch opens after the last helper: every chunk was fetched, and no one holds one.
LEMMA ReturnIndex == ASSUME IInv, IndexInv, NEW k \in Calls, Return(k) PROVE IndexInv'
<1>0. TypeOK
  BY DEF IInv
<1>1. /\ pc[k] = "wait" /\ done_[k] /\ pc' = [pc EXCEPT ![k] = IF slot[k] THEN "threw" ELSE "returned"]
      /\ UNCHANGED <<workers_, n, next, got, stage, runs, raised>>
  BY DEF Return, poolVars, loopVars
<1>2. ASSUME ~slot[k] PROVE \A i \in 0 .. n[k] - 1 : runs[k][i] = 1
  <2>1. \A p \in Pullers : p[1] = k => stage[p] \notin {"body", "capture"}
    <3> SUFFICES ASSUME NEW p \in Pullers, p[1] = k, stage[p] \in {"body", "capture"} PROVE FALSE
      OBVIOUS
    <3>1. p[2] # 0
      BY <1>1 DEF IInv, StageInv
    <3>2. count_[k] = 0 /\ count_[k] = Cardinality(Pending(k))
      BY <1>1 DEF IInv, LatchInv, FannedOut
    <3>3. Pending(k) \subseteq 1 .. Size - 1
      BY DEF Pending
    <3>4. Pending(k) = {}
      BY <1>0, <3>2, <3>3, PendingCard DEF TypeOK
    <3>5. p[2] \in Pending(k)
      BY <3>1, HelperPending
    <3>. QED BY <3>4, <3>5
  <2>2. ~raised[k]
    BY <1>1, <1>2, <2>1 DEF IInv, ErrorInv, FannedOut
  <2>3. Chunks(k) <= next[k] /\ ~Finished(k)
    BY <1>1, <2>2 DEF IndexInv, BoundsInv, Finished
  <2>4. \A c \in ChunkIds(k) : c < next[k] /\ ~InHand(k, c)
    <3>1. \A c \in ChunkIds(k) : ~InHand(k, c)
      BY <2>1 DEF InHand
    <3>2. Chunks(k) \in Nat /\ next[k] \in Nat
      BY <1>0, Partition DEF TypeOK
    <3>. QED BY <2>3, <3>1, <3>2 DEF ChunkIds
  <2>5. \A c \in ChunkIds(k) : \A i \in ChunkOf(k, c) : runs[k][i] = 1
    BY <2>2, <2>3, <2>4 DEF IndexInv, DoneInv
  <2>. QED BY <1>0, <2>5, Partition
<1>3. \A j \in Calls : /\ Finished(j) => Finished(j)'
                       /\ raised[j] => raised'[j]
                       /\ \/ pc'[j] = pc[j]
                          \/ pc'[j] = "threw"
                          \/ pc'[j] = "returned" /\ \A i \in 0 .. n[j] - 1 : runs[j][i] = 1
  BY <1>0, <1>1, <1>2 DEF Finished, TypeOK
<1>. QED BY <1>1, <1>3, QuietStep

-----------------------------------------------------------------------------
LEMMA ChunksInside == TypeOK => \A k \in Calls : \A c \in ChunkIds(k) : ChunkOf(k, c) \subseteq 0 .. n[k] - 1
BY Partition

LEMMA ChunkCount == TypeOK => \A k \in Calls : Chunks(k) \in Nat
BY Partition

LEMMA NextPartition == TypeOK' => (\A k \in Calls : Chunks(k) \in Nat)'
BY ChunkCount, PTL

LEMMA NextChunksInside ==
  TypeOK' => (\A k \in Calls : \A c \in ChunkIds(k) : ChunkOf(k, c) \subseteq 0 .. n[k] - 1)'
BY ChunksInside, PTL

\* A call that is entered has run nothing, and holds and has fetched no chunk.
LEMMA EnterIndex ==
  ASSUME IInv, IndexInv, NEW k \in Calls, NEW size \in Nat, Enter(k, size),
         pc[k] \in {"idle", "queued"}, UNCHANGED workers_, TypeOK'
  PROVE  IndexInv'
<1>0. TypeOK /\ RunsOK /\ HandsInv /\ RanInv /\ DoneInv /\ BoundsInv
  BY DEF IInv, IndexInv
<1>1. /\ n' = [n EXCEPT ![k] = size] /\ runs' = [runs EXCEPT ![k] = [i \in 0 .. size - 1 |-> 0]]
      /\ UNCHANGED <<next, stage, got, raised>>
  BY DEF Enter, loopVars
<1>2. PICK to \in {"returned", "sequential", "submit"} :
        pc' = [pc EXCEPT ![k] = to] /\ (to = "returned" => size = 0)
  BY DEF Enter
<1>3. /\ n'[k] = size /\ pc'[k] = to
      /\ runs' = [j \in Calls |-> runs'[j]] /\ runs'[k] = [i \in 0 .. size - 1 |-> 0]
      /\ \A j \in Calls : j # k => n'[j] = n[j] /\ pc'[j] = pc[j] /\ runs'[j] = runs[j]
  BY <1>0, <1>1, <1>2 DEF TypeOK, RunsOK
<1>4. next[k] = 0 /\ \A p \in Pullers : p[1] = k => stage[p] = "none"
  BY <1>0 DEF BoundsInv, IInv, UntouchedInv
<1>5. \A j \in Calls : j # k => /\ ChunkIds(j)' = ChunkIds(j) /\ (\A c : ChunkOf(j, c)' = ChunkOf(j, c))
                                /\ Finished(j)' = Finished(j) /\ Chunks(j)' = Chunks(j)
  BY <1>3 DEF ChunkIds, ChunkOf, Chunks, Size, Finished
<1>6. \A j \in Calls : \A c : InHand(j, c)' <=> InHand(j, c)
  BY <1>1 DEF InHand
<1>7. RunsOK'
  BY <1>0, <1>3 DEF RunsOK
<1>8. \A c \in ChunkIds(k)' : \A i \in ChunkOf(k, c)' : runs'[k][i] = 0
  BY <1>3, NextChunksInside
<1>9. HandsInv'
  <2>1. ASSUME NEW p \in Pullers, stage[p] = "body" PROVE got[p] \in ChunkIds(p[1])' /\ got[p] < next[p[1]]
    <3>1. p[1] \in Calls /\ p[1] # k
      BY <1>4, <2>1, PullerPair
    <3>. QED BY <1>0, <1>5, <2>1, <3>1 DEF HandsInv
  <2>. QED BY <1>0, <1>1, <2>1 DEF HandsInv
<1>10. RanInv'
  <2> SUFFICES ASSUME NEW j \in Calls, ~Finished(j)'
               PROVE  \A c \in ChunkIds(j)' : \A i \in ChunkOf(j, c)' : runs'[j][i] # 0 => c < next'[j] /\ ~InHand(j, c)'
    BY DEF RanInv
  <2>1. CASE j = k
    BY <1>8, <2>1
  <2>2. CASE j # k
    BY <1>0, <1>1, <1>3, <1>5, <1>6, <2>2 DEF RanInv
  <2>. QED BY <2>1, <2>2
<1>11. DoneInv'
  <2> SUFFICES ASSUME NEW j \in Calls, ~Finished(j)', ~raised'[j]
               PROVE  \A c \in ChunkIds(j)' : c < next'[j] /\ ~InHand(j, c)' => \A i \in ChunkOf(j, c)' : runs'[j][i] = 1
    BY DEF DoneInv
  <2>1. CASE j = k
    <3>1. Chunks(k)' \in Nat /\ \A c \in ChunkIds(k)' : ~ (c < 0)
      BY NextPartition DEF ChunkIds
    <3>. QED BY <1>1, <1>4, <2>1, <3>1
  <2>2. CASE j # k
    BY <1>0, <1>1, <1>3, <1>5, <1>6, <2>2 DEF DoneInv
  <2>. QED BY <2>1, <2>2
<1>12. BoundsInv'
  <2> SUFFICES ASSUME NEW j \in Calls
               PROVE  /\ pc'[j] \in {"idle", "queued"} => next'[j] = 0 /\ n'[j] = 0
                      /\ pc'[j] = "wait" /\ ~raised'[j] => Chunks(j)' <= next'[j]
                      /\ pc'[j] = "returned" => \A i \in 0 .. n'[j] - 1 : runs'[j][i] = 1
    BY DEF BoundsInv
  <2>1. CASE j = k
    <3>1. to = "returned" => 0 .. size - 1 = {}
      BY <1>2
    <3>. QED BY <1>3, <2>1, <3>1
  <2>2. CASE j # k
    BY <1>0, <1>1, <1>3, <1>5, <2>2 DEF BoundsInv
  <2>. QED BY <2>1, <2>2
<1>. QED BY <1>7, <1>9, <1>10, <1>11, <1>12 DEF IndexInv

LEMMA CallFromOutsideIndex ==
  ASSUME IInv, IndexInv, TypeOK', NEW k \in Calls, CallFromOutside(k)
  PROVE  IndexInv'
<1>1. PICK size \in Sizes[k][Size] : Enter(k, size)
  BY DEF CallFromOutside
<1>2. Sizes[k][Size] \in SUBSET Nat
  BY PoolSize, ParRunAssumption DEF ParRunAssumption, IInv, TypeOK
<1>3. size \in Nat /\ pc[k] = "idle" /\ UNCHANGED workers_
  BY <1>1, <1>2 DEF CallFromOutside, poolVars
<1>. QED BY <1>1, <1>3, EnterIndex

LEMMA EnqueueOuterIndex == ASSUME IInv, IndexInv, NEW k \in Calls, EnqueueOuter(k) PROVE IndexInv'
<1>1. UNCHANGED <<workers_, n, next, stage, got, runs, raised>>
  BY DEF EnqueueOuter, loopVars
<1>2. \A j \in Calls : pc'[j] = pc[j] \/ (pc[j] = "idle" /\ pc'[j] = "queued")
  BY DEF EnqueueOuter, IInv, TypeOK
<1>3. \A j \in Calls : Finished(j) => Finished(j)'
  BY <1>2 DEF Finished
<1>. QED BY <1>1, <1>2, <1>3, QuietStep

LEMMA WorkerTakesIndex ==
  ASSUME IInv, IndexInv, TypeOK', NEW w \in Workers, WorkerTakes(w)
  PROVE  IndexInv'
<1> DEFINE p == Head(queue)
<1>1. p = queue[1] /\ 1 \in 1 .. Len(queue) /\ UNCHANGED workers_
  BY DEF WorkerTakes, IInv, TypeOK
<1>2. p \in Pullers /\ p[1] \in Calls
  BY <1>1, QueuedArePullers, PullerPair
<1>3. CASE p[2] = 0
  <2>1. PICK size \in Sizes[p[1]][Size] : Enter(p[1], size)
    BY <1>3 DEF WorkerTakes
  <2>2. Sizes[p[1]][Size] \in SUBSET Nat
    BY SMTT(30), <1>2, PoolSize, ParRunAssumption DEF ParRunAssumption, IInv, TypeOK
  <2>3. size \in Nat /\ pc[p[1]] = "queued"
    BY <1>1, <1>3, <2>1, <2>2 DEF IInv, QueueInv
  <2>. QED BY <1>1, <1>2, <2>1, <2>3, EnterIndex
<1>4. CASE p[2] # 0
  <2>1. stage' = [stage EXCEPT ![p] = "fetch"] /\ UNCHANGED <<pc, n, next, got, raised, runs>>
    BY <1>4 DEF WorkerTakes
  <2>2. stage[p] = "queued"
    BY <1>1, <1>4 DEF IInv, QueueInv
  <2>3. \A q \in Pullers : stage'[q] = "body" <=> stage[q] = "body"
    BY <2>1, <2>2 DEF IInv, TypeOK
  <2>. QED BY <1>1, <2>1, <2>3, QuietStep DEF Finished
<1>. QED BY <1>3, <1>4

LEMMA OuterEndsIndex == ASSUME IInv, IndexInv, NEW w \in Workers, OuterEnds(w) PROVE IndexInv'
<1>1. UNCHANGED <<workers_, pc, n, next, stage, got, runs, raised>>
  BY DEF OuterEnds, loopVars
<1>. QED BY <1>1, QuietStep DEF Finished

-----------------------------------------------------------------------------
\* On the sequential path the chunk counter is the loop counter, and no chunk is in a hand.
LEMMA SequentialChunkIndex ==
  ASSUME IInv, IndexInv, NEW k \in Calls, SequentialChunk(k)
  PROVE  IndexInv'
<1>0. TypeOK /\ RunsOK /\ HandsInv /\ RanInv /\ DoneInv /\ BoundsInv
  BY DEF IInv, IndexInv
<1>1. PICK b : b = next[k]
  OBVIOUS
<1>2. /\ pc[k] = "sequential" /\ next[k] < Chunks(k) /\ UNCHANGED <<workers_, n, stage, got>>
      /\ \/ /\ RanFor(k, ChunkOf(k, b)) /\ next' = [next EXCEPT ![k] = b + 1]
            /\ UNCHANGED <<pc, raised>>
         \/ /\ \E i \in ChunkOf(k, b) : RanFor(k, {j \in ChunkOf(k, b) : j < i})
            /\ pc' = [pc EXCEPT ![k] = "threw"] /\ raised' = [raised EXCEPT ![k] = TRUE]
            /\ UNCHANGED next
  BY <1>0, <1>1 DEF SequentialChunk, poolVars, ChunkOf, TypeOK
<1>3. PICK done \in SUBSET ChunkOf(k, b) :
        /\ RanFor(k, done)
        /\ \/ /\ done = ChunkOf(k, b) /\ next' = [next EXCEPT ![k] = b + 1]
              /\ UNCHANGED <<pc, raised>>
           \/ /\ pc' = [pc EXCEPT ![k] = "threw"] /\ raised' = [raised EXCEPT ![k] = TRUE]
              /\ UNCHANGED next
  <2>1. CASE RanFor(k, ChunkOf(k, b)) /\ next' = [next EXCEPT ![k] = b + 1] /\ UNCHANGED <<pc, raised>>
    BY <2>1
  <2>2. CASE /\ \E i \in ChunkOf(k, b) : RanFor(k, {j \in ChunkOf(k, b) : j < i})
             /\ pc' = [pc EXCEPT ![k] = "threw"] /\ raised' = [raised EXCEPT ![k] = TRUE]
             /\ UNCHANGED next
    <3>1. PICK i \in ChunkOf(k, b) : RanFor(k, {j \in ChunkOf(k, b) : j < i})
      BY <2>2
    <3>. QED BY <2>2, <3>1
  <2>. QED BY <1>2, <2>1, <2>2
<1>4. /\ b \in Nat /\ Chunks(k) \in Nat /\ b \in ChunkIds(k)
      /\ \A j \in Calls : next[j] \in Nat /\ ChunkIds(j) \subseteq Nat
  BY <1>0, <1>1, <1>2, Partition DEF TypeOK, ChunkIds
<1>5. \A j \in Calls : /\ ChunkIds(j)' = ChunkIds(j) /\ (\A c : ChunkOf(j, c)' = ChunkOf(j, c))
                       /\ Chunks(j)' = Chunks(j) /\ n'[j] = n[j]
                       /\ j # k => pc'[j] = pc[j] /\ next'[j] = next[j] /\ raised'[j] = raised[j]
  BY <1>0, <1>2, <1>3 DEF ChunkIds, ChunkOf, Chunks, Size, TypeOK
<1>6. \/ /\ done = ChunkOf(k, b) /\ next'[k] = b + 1 /\ pc'[k] = "sequential" /\ raised'[k] = raised[k]
      \/ next'[k] = b /\ pc'[k] = "threw" /\ raised'[k]
  BY <1>0, <1>1, <1>2, <1>3 DEF TypeOK
<1>7. \A j \in Calls : \A c : InHand(j, c)' <=> InHand(j, c)
  BY <1>2 DEF InHand
<1>8. \A c : ~InHand(k, c)
  BY <1>2 DEF InHand, IInv, UntouchedInv
<1>9. /\ \A j \in Calls : j # k => runs'[j] = runs[j]
      /\ runs'[k] = [i \in 0 .. n[k] - 1 |-> IF i \in done THEN runs[k][i] + 1 ELSE runs[k][i]]
  BY <1>0, <1>3, RanForCounts
<1>10. \A i \in 0 .. n[k] - 1 : runs[k][i] \in {0, 1} /\ (i \in done => runs[k][i] = 0)
  <2>1. ASSUME NEW i \in 0 .. n[k] - 1, i \in done PROVE runs[k][i] = 0
    <3>1. i \in ChunkOf(k, b) /\ ~ (b < next[k]) /\ ~Finished(k)
      BY <1>1, <1>2, <1>4, <2>1 DEF Finished
    <3>. QED BY <1>0, <1>4, <3>1 DEF RanInv
  <2>. QED BY <1>0, <2>1 DEF RunsOK
<1>11. \A i \in 0 .. n[k] - 1 : /\ i \in done => runs'[k][i] = 1
                                /\ i \notin done => runs'[k][i] = runs[k][i]
  BY <1>9, <1>10
<1>12. \A j \in Calls : \A c \in ChunkIds(j) : \A i \in ChunkOf(j, c) : i \in 0 .. n[j] - 1
  BY <1>0, Partition
<1>13. RunsOK'
  <2>1. runs' = [j \in Calls |-> runs'[j]]
    BY <1>0, <1>3 DEF RanFor, RunsOK
  <2>2. runs'[k] \in [0 .. n[k] - 1 -> {0, 1}]
    BY <1>9, <1>10
  <2>. QED BY <1>0, <1>5, <1>9, <2>1, <2>2 DEF RunsOK
<1>14. HandsInv'
  <2>1. ASSUME NEW p \in Pullers, stage[p] = "body" PROVE got[p] \in ChunkIds(p[1])' /\ got[p] < next'[p[1]]
    <3>1. p[1] \in Calls /\ p[1] # k
      BY <1>8, <2>1, PullerPair DEF InHand
    <3>. QED BY <1>0, <1>5, <2>1, <3>1 DEF HandsInv
  <2>. QED BY <1>0, <1>2, <2>1 DEF HandsInv
<1>15. RanInv'
  <2> SUFFICES ASSUME NEW j \in Calls, ~Finished(j)', NEW c \in ChunkIds(j), NEW i \in ChunkOf(j, c), runs'[j][i] # 0
               PROVE  c < next'[j] /\ ~InHand(j, c)
    BY <1>5, <1>7 DEF RanInv
  <2>1. CASE j # k
    <3>1. ~Finished(j) /\ runs[j][i] # 0
      BY <1>5, <1>9, <2>1 DEF Finished
    <3>. QED BY <1>0, <1>5, <2>1, <3>1 DEF RanInv
  <2>2. CASE j = k /\ i \in done
    <3>1. c = b /\ next'[k] = b + 1
      <4>1. c = b
        BY <1>0, <1>4, <2>2, Partition
      <4>2. pc'[k] # "threw"
        BY <2>2 DEF Finished
      <4>. QED BY <1>6, <4>1, <4>2
    <3>. QED BY <1>4, <1>8, <2>2, <3>1
  <2>3. CASE j = k /\ i \notin done
    <3>1. runs[k][i] # 0 /\ ~Finished(k)
      BY <1>2, <1>11, <1>12, <2>3 DEF Finished
    <3>2. c < next[k] /\ c \in Nat
      BY <1>0, <1>4, <2>3, <3>1 DEF RanInv
    <3>3. c < next'[k]
      BY <1>1, <1>4, <1>6, <3>2
    <3>. QED BY <1>8, <2>3, <3>3
  <2>. QED BY <2>1, <2>2, <2>3
<1>16. DoneInv'
  <2> SUFFICES ASSUME NEW j \in Calls, ~Finished(j)', ~raised'[j], NEW c \in ChunkIds(j), c < next'[j], ~InHand(j, c),
                      NEW i \in ChunkOf(j, c)
               PROVE  runs'[j][i] = 1
    BY <1>5, <1>7 DEF DoneInv
  <2>1. CASE j # k
    <3>1. ~Finished(j) /\ ~raised[j] /\ c < next[j]
      BY <1>5, <2>1 DEF Finished
    <3>. QED BY <1>0, <1>9, <2>1, <3>1 DEF DoneInv
  <2>2. CASE j = k
    <3>1. done = ChunkOf(k, b) /\ next'[k] = b + 1 /\ ~raised[k] /\ ~Finished(k) /\ i \in 0 .. n[k] - 1
      BY <1>2, <1>6, <1>12, <2>2 DEF Finished
    <3>2. CASE c = b
      BY <1>11, <2>2, <3>1, <3>2
    <3>3. CASE c # b
      <4>1. c < next[k]
        BY <1>1, <1>4, <2>2, <3>1, <3>3
      <4>2. runs[k][i] = 1
        BY <1>0, <2>2, <3>1, <4>1 DEF DoneInv
      <4>. QED BY <1>11, <2>2, <3>1, <4>2
    <3>. QED BY <3>2, <3>3
  <2>. QED BY <2>1, <2>2
<1>17. BoundsInv'
  <2> SUFFICES ASSUME NEW j \in Calls
               PROVE  /\ pc'[j] \in {"idle", "queued"} => next'[j] = 0 /\ n[j] = 0
                      /\ pc'[j] = "wait" /\ ~raised'[j] => Chunks(j) <= next'[j]
                      /\ pc'[j] = "returned" => \A i \in 0 .. n[j] - 1 : runs'[j][i] = 1
    BY <1>5 DEF BoundsInv
  <2>1. CASE j # k
    BY <1>0, <1>5, <1>9, <2>1 DEF BoundsInv
  <2>2. CASE j = k
    BY <1>6, <2>2
  <2>. QED BY <2>1, <2>2
<1>. QED BY <1>13, <1>14, <1>15, <1>16, <1>17 DEF IndexInv

LEMMA SequentialReturnsIndex ==
  ASSUME IInv, IndexInv, NEW k \in Calls, SequentialReturns(k)
  PROVE  IndexInv'
<1>0. TypeOK /\ DoneInv
  BY DEF IInv, IndexInv
<1>1. /\ pc[k] = "sequential" /\ next[k] = Chunks(k) /\ pc' = [pc EXCEPT ![k] = "returned"]
      /\ UNCHANGED <<workers_, n, next, stage, got, runs, raised>>
  BY DEF SequentialReturns, poolVars, loopVars
<1>2. ~raised[k] /\ ~Finished(k) /\ \A c : ~InHand(k, c)
  BY <1>1 DEF InHand, IInv, UntouchedInv, Finished
<1>3. Chunks(k) \in Nat /\ \A c \in ChunkIds(k) : c < next[k]
  BY <1>0, <1>1, Partition DEF ChunkIds
<1>4. \A c \in ChunkIds(k) : \A i \in ChunkOf(k, c) : runs[k][i] = 1
  BY <1>0, <1>2, <1>3 DEF DoneInv
<1>5. \A i \in 0 .. n[k] - 1 : runs[k][i] = 1
  BY <1>0, <1>4, Partition
<1>6. \A j \in Calls : /\ Finished(j) => Finished(j)'
                       /\ pc'[j] = pc[j] \/ (pc'[j] = "returned" /\ \A i \in 0 .. n[j] - 1 : runs[j][i] = 1)
  BY <1>0, <1>1, <1>5 DEF Finished, TypeOK
<1>. QED BY <1>1, <1>6, QuietStep

-----------------------------------------------------------------------------
LEMMA NextIndex == IInv /\ IndexInv /\ [Next]_vars => IndexInv'
<1> SUFFICES ASSUME IInv, IndexInv, [Next]_vars PROVE IndexInv'
  OBVIOUS
<1>1. TypeOK'
  BY TypeStep
<1>2. ASSUME NEW k \in Calls, CallFromOutside(k) \/ EnqueueOuter(k) \/ CallStep(k) PROVE IndexInv'
  BY <1>1, <1>2, CallFromOutsideIndex, EnqueueOuterIndex, SubmitIndex, ReturnIndex, SequentialChunkIndex,
     SequentialReturnsIndex DEF CallStep
<1>3. ASSUME NEW w \in Workers, WorkerTakes(w) \/ OuterEnds(w) PROVE IndexInv'
  BY <1>1, <1>3, WorkerTakesIndex, OuterEndsIndex
<1>4. ASSUME NEW p \in Pullers, Pull(p) PROVE IndexInv'
  BY <1>4, FetchIndex, BodyIndex, BodyThrowsIndex, CaptureIndex, ArriveIndex DEF Pull
<1>5. CASE UNCHANGED vars
  <2>1. UNCHANGED <<workers_, pc, n, next, stage, got, runs, raised>>
    BY <1>5 DEF vars, poolVars, loopVars
  <2>. QED BY <2>1, QuietStep DEF Finished
<1>. QED BY <1>2, <1>3, <1>4, <1>5 DEF Next

THEOREM IndexInductive == Spec => []IndexInv
BY Inductive, InitIndex, NextIndex, PTL DEF Spec

\* Whatever the pool, the calls and the sizes: no index is run twice, whoever pulled its
\* chunk, and a call that returns normally ran every index of its input exactly once.
THEOREM IndexTheorem == Spec => []EachIndexOnce
<1>1. IndexInv => EachIndexOnce
  <2> SUFFICES ASSUME IndexInv, NEW k \in Calls
               PROVE  /\ \A i \in DOMAIN runs[k] : runs[k][i] <= 1
                      /\ pc[k] = "returned" => \A i \in 0 .. n[k] - 1 : runs[k][i] = 1
    BY DEF EachIndexOnce
  <2>1. \A i \in DOMAIN runs[k] : runs[k][i] \in {0, 1}
    BY DEF IndexInv, RunsOK
  <2>2. \A i \in DOMAIN runs[k] : runs[k][i] <= 1
    BY <2>1
  <2>. QED BY <2>2 DEF IndexInv, BoundsInv
<1>. QED BY <1>1, IndexInductive, PTL
=============================================================================
