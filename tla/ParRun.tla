------------------------------- MODULE ParRun -------------------------------
(***************************************************************************)
(* detail::par_run and the helpers built on it (par_map, par_for_each,     *)
(* par_for, par_map_to, par_reduce over a ThreadPool).  A call submits one *)
(* helper per worker but one, pulls chunks itself, waits on a latch for    *)
(* the helpers, and rethrows the first exception.                          *)
(*                                                                         *)
(* The pool is what module ThreadPool establishes of it: a FIFO of         *)
(* accepted tasks, each taken once by a free worker.  A call is made by a  *)
(* thread outside the pool, or (Outer) by a task that runs on the pool.    *)
(*                                                                         *)
(* next, fn and pull live in the frame of the call and the helpers hold    *)
(* references to them; latch and slot are shared_ptr.  A puller is a pair  *)
(* <<k, i>>: the i-th helper of call k, or, with i = 0, the caller itself. *)
(***************************************************************************)
EXTENDS Chunking, Sequences, FiniteSets

CONSTANTS Pools,   \* the sets of workers the pool may be built with
          MaxWorkers, \* no pool has more workers than this
          Calls,   \* the par_* calls made
          Outer,   \* the calls made from inside a task of the same pool
          Kind,    \* "map" or "reduce", for each call
          Sizes,   \* the input sizes each call may have, for each number of workers
          NoJob    \* what a free worker holds

ASSUME ParRunAssumption ==
  /\ \A W \in Pools : IsFiniteSet(W) /\ W # {} /\ Cardinality(W) <= MaxWorkers
  /\ MaxWorkers \in Nat
  /\ Outer \subseteq Calls
  /\ Kind \in [Calls -> {"map", "reduce"}]
  /\ Sizes \in [Calls -> [1 .. MaxWorkers -> SUBSET Nat]]
  /\ NoJob \notin Calls \X Nat

VARIABLES
  workers_,   \* the workers of the pool
  queue,      \* the tasks the pool accepted and no worker took
  job,        \* the puller each worker runs
  pc,         \* where each call is
  n,          \* v.size() of each call
  submitted,  \* the loop counter of the submissions, t
  next,       \* the chunk counter; the loop counter c on the sequential path
  stage,      \* where each puller is in its pull loop
  got,        \* the chunk it runs its body for, 0 outside the body
  count_, done_,  \* the latch
  slot,       \* TRUE once the ErrorSlot holds an exception
  raised,     \* TRUE once a body or a submission of the call threw
  runs        \* how often the call ran its body for each index

poolVars == <<workers_, queue, job>>
loopVars == <<next, stage, got>>
syncVars == <<count_, done_, slot>>
vars     == <<poolVars, pc, n, submitted, loopVars, syncVars, raised, runs>>

Pullers == Calls \X (0 .. MaxWorkers - 1)

Size      == Cardinality(workers_)
Caller(k) == <<k, 0>>
Chunks(k) == chunk_count(n[k], Size)
Finished(k) == pc[k] \in {"returned", "threw"}

\* The indices one run of the body over chunk c of call k may read from its input.
Reads(k, c) == IF Kind[k] = "reduce" THEN ReduceReads(n[k], Size, c) ELSE Elements(n[k], Size, c)

\* The worker that ran puller p is free again; a caller outside the pool was on none.
Release(p) == job' = [w \in workers_ |-> IF job[w] = p THEN NoJob ELSE job[w]]

-----------------------------------------------------------------------------
Init == /\ workers_ \in Pools
        /\ queue = <<>>
        /\ job = [w \in workers_ |-> NoJob]
        /\ pc = [k \in Calls |-> "idle"]
        /\ n = [k \in Calls |-> 0]
        /\ submitted = [k \in Calls |-> 0]
        /\ next = [k \in Calls |-> 0]
        /\ stage = [p \in Pullers |-> "none"]
        /\ got = [p \in Pullers |-> 0]
        /\ count_ = [k \in Calls |-> 0]
        /\ done_ = [k \in Calls |-> FALSE]
        /\ slot = [k \in Calls |-> FALSE]
        /\ raised = [k \in Calls |-> FALSE]
        /\ runs = [k \in Calls |-> <<>>]

\* Mutant: the latch expects one helper fewer than are submitted.
EnterMiscounts(k, size) ==
  /\ n' = [n EXCEPT ![k] = size]
  /\ runs' = [runs EXCEPT ![k] = [i \in 0 .. size - 1 |-> 0]]
  /\ pc' = [pc EXCEPT ![k] = IF size = 0 THEN "returned"
                             ELSE IF Size <= 1 \/ chunk_count(size, Size) = 1 THEN "sequential"
                             ELSE "submit"]
  /\ count_' = [count_ EXCEPT ![k] = IF Size > 1 THEN Size - 2 ELSE 0]
  /\ UNCHANGED <<submitted, loopVars, done_, slot, raised>>

\* par_map and the others up to par_run's fan-out: an empty input returns at once, one worker
\* or one chunk runs in the caller, and otherwise the latch expects every other worker.
Enter(k, size) ==
  /\ n' = [n EXCEPT ![k] = size]
  /\ runs' = [runs EXCEPT ![k] = [i \in 0 .. size - 1 |-> 0]]
  /\ IF size = 0 THEN /\ pc' = [pc EXCEPT ![k] = "returned"]
                      /\ UNCHANGED count_
     ELSE IF Size <= 1 \/ chunk_count(size, Size) = 1
     THEN /\ pc' = [pc EXCEPT ![k] = "sequential"]
          /\ UNCHANGED count_
     ELSE /\ pc' = [pc EXCEPT ![k] = "submit"]
          /\ count_' = [count_ EXCEPT ![k] = Size - 1]
  /\ UNCHANGED <<submitted, loopVars, done_, slot, raised>>

\* A thread outside the pool makes call k.
CallFromOutside(k) == /\ pc[k] = "idle" /\ k \notin Outer
                      /\ \E size \in Sizes[k][Size] : Enter(k, size)
                      /\ UNCHANGED poolVars

\* A task whose body makes call k is enqueued on the pool.
EnqueueOuter(k) == /\ pc[k] = "idle" /\ k \in Outer
                   /\ queue' = Append(queue, Caller(k))
                   /\ pc' = [pc EXCEPT ![k] = "queued"]
                   /\ UNCHANGED <<workers_, job, n, submitted, loopVars, syncVars, raised, runs>>

\* A free worker takes the oldest task: the body of an outer task, or a helper.
WorkerTakes(w) ==
  /\ w \in workers_ /\ job[w] = NoJob
  /\ queue # <<>>
  /\ job' = [job EXCEPT ![w] = Head(queue)]
  /\ queue' = Tail(queue)
  /\ UNCHANGED workers_
  /\ IF Head(queue)[2] = 0
     THEN \E size \in Sizes[Head(queue)[1]][Size] : Enter(Head(queue)[1], size)
     ELSE /\ stage' = [stage EXCEPT ![Head(queue)] = "fetch"]
          /\ UNCHANGED <<pc, n, submitted, next, got, syncVars, raised, runs>>

\* An outer task whose call had nothing to fan out ends when the call does.
OuterEnds(w) == /\ w \in workers_ /\ job[w] # NoJob
                /\ job[w][2] = 0 /\ Finished(job[w][1])
                /\ job' = [job EXCEPT ![w] = NoJob]
                /\ UNCHANGED <<workers_, queue, pc, n, submitted, loopVars, syncVars, raised, runs>>

-----------------------------------------------------------------------------
\* The submission loop.  After the last one the caller starts to pull.
Submitted(k) ==
  /\ submitted' = [submitted EXCEPT ![k] = @ + 1]
  /\ pc' = [pc EXCEPT ![k] = IF submitted[k] + 2 = Size THEN "pull" ELSE "submit"]

CallerFetches(k, stages) ==
  IF submitted[k] + 2 = Size THEN [stages EXCEPT ![Caller(k)] = "fetch"] ELSE stages

Submit(k) ==
  /\ pc[k] = "submit"
  /\ Submitted(k)
  /\ queue' = Append(queue, <<k, submitted[k] + 1>>)
  /\ stage' = CallerFetches(k, [stage EXCEPT ![<<k, submitted[k] + 1>>] = "queued"])
  /\ UNCHANGED <<workers_, job, n, next, got, syncVars, raised, runs>>

\* Mutant: a failed submission does not arrive at the latch in its place.
SubmitFailsSilently(k) ==
  /\ pc[k] = "submit"
  /\ Submitted(k)
  /\ stage' = CallerFetches(k, stage)
  /\ slot' = [slot EXCEPT ![k] = TRUE]
  /\ raised' = [raised EXCEPT ![k] = TRUE]
  /\ UNCHANGED <<poolVars, n, next, got, count_, done_, runs>>

\* submit throws (no memory for the task, a pool being destroyed): the caller arrives in the
\* place of the helper that never runs, and captures the exception.
SubmitFails(k) ==
  /\ pc[k] = "submit"
  /\ Submitted(k)
  /\ stage' = CallerFetches(k, stage)
  /\ count_' = [count_ EXCEPT ![k] = @ - 1]
  /\ done_' = [done_ EXCEPT ![k] = @ \/ count_[k] = 1]
  /\ slot' = [slot EXCEPT ![k] = TRUE]
  /\ raised' = [raised EXCEPT ![k] = TRUE]
  /\ UNCHANGED <<poolVars, n, next, got, runs>>

-----------------------------------------------------------------------------
\* The pull loop, run by the caller and by every helper.
Leaves(p) == IF p[2] = 0 THEN /\ stage' = [stage EXCEPT ![p] = "out"]
                              /\ pc' = [pc EXCEPT ![p[1]] = "wait"]
                         ELSE /\ stage' = [stage EXCEPT ![p] = "arrive"]
                              /\ UNCHANGED pc

Fetch(p) ==
  /\ stage[p] = "fetch"
  /\ next' = [next EXCEPT ![p[1]] = @ + 1]
  /\ IF next[p[1]] >= Chunks(p[1])
     THEN Leaves(p) /\ UNCHANGED got
     ELSE /\ got' = [got EXCEPT ![p] = next[p[1]]]
          /\ stage' = [stage EXCEPT ![p] = "body"]
          /\ UNCHANGED pc
  /\ UNCHANGED <<poolVars, n, submitted, syncVars, raised, runs>>

\* The body ran for the elements done of the chunk held.
RanFor(k, done) == runs' = [runs EXCEPT ![k] = [i \in DOMAIN @ |-> IF i \in done THEN @[i] + 1 ELSE @[i]]]

Body(p) == /\ stage[p] = "body"
           /\ RanFor(p[1], Elements(n[p[1]], Size, got[p]))
           /\ stage' = [stage EXCEPT ![p] = "fetch"]
           /\ got' = [got EXCEPT ![p] = 0]
           /\ UNCHANGED <<poolVars, pc, n, submitted, next, syncVars, raised>>

\* The body throws at some element i of the chunk: those before it are done.
BodyThrows(p) ==
  /\ stage[p] = "body"
  /\ \E i \in Elements(n[p[1]], Size, got[p]) :
       RanFor(p[1], {j \in Elements(n[p[1]], Size, got[p]) : j < i})
  /\ stage' = [stage EXCEPT ![p] = "capture"]
  /\ got' = [got EXCEPT ![p] = 0]
  /\ raised' = [raised EXCEPT ![p[1]] = TRUE]
  /\ UNCHANGED <<poolVars, pc, n, submitted, next, syncVars>>

\* Mutant: a helper that catches an exception leaves without storing it.
CaptureDrops(p) == /\ stage[p] = "capture"
                   /\ slot' = [slot EXCEPT ![p[1]] = @ \/ p[2] = 0]
                   /\ Leaves(p)
                   /\ UNCHANGED <<poolVars, n, submitted, next, got, count_, done_, raised, runs>>

Capture(p) == /\ stage[p] = "capture"
              /\ slot' = [slot EXCEPT ![p[1]] = TRUE]
              /\ Leaves(p)
              /\ UNCHANGED <<poolVars, n, submitted, next, got, count_, done_, raised, runs>>

\* Mutant: the latch opens one arrival early.
ArriveEarly(p) == /\ stage[p] = "arrive"
                  /\ count_' = [count_ EXCEPT ![p[1]] = @ - 1]
                  /\ stage' = [stage EXCEPT ![p] = IF count_[p[1]] <= 2 THEN "last" ELSE "out"]
                  /\ IF count_[p[1]] <= 2 THEN UNCHANGED job ELSE Release(p)
                  /\ UNCHANGED <<workers_, queue, pc, n, submitted, next, got, done_, slot, raised, runs>>

\* Latch::arrive: the atomic decrement, and for the last arrival, under mu_, done_.
Arrive(p) == /\ stage[p] = "arrive"
             /\ count_' = [count_ EXCEPT ![p[1]] = @ - 1]
             /\ stage' = [stage EXCEPT ![p] = IF count_[p[1]] = 1 THEN "last" ELSE "out"]
             /\ IF count_[p[1]] = 1 THEN UNCHANGED job ELSE Release(p)
             /\ UNCHANGED <<workers_, queue, pc, n, submitted, next, got, done_, slot, raised, runs>>

ArriveLast(p) == /\ stage[p] = "last"
                 /\ done_' = [done_ EXCEPT ![p[1]] = TRUE]
                 /\ stage' = [stage EXCEPT ![p] = "out"]
                 /\ Release(p)
                 /\ UNCHANGED <<workers_, queue, pc, n, submitted, next, got, count_, slot, raised, runs>>

\* latch->wait() and rethrow_if_set(): here the frame of the call dies.
Return(k) == /\ pc[k] = "wait" /\ done_[k]
             /\ pc' = [pc EXCEPT ![k] = IF slot[k] THEN "threw" ELSE "returned"]
             /\ UNCHANGED <<poolVars, n, submitted, loopVars, syncVars, raised, runs>>

\* The sequential path: chunks in order, an exception goes straight to the caller.
SequentialChunk(k) ==
  /\ pc[k] = "sequential" /\ next[k] < Chunks(k)
  /\ \/ /\ RanFor(k, Elements(n[k], Size, next[k]))
        /\ next' = [next EXCEPT ![k] = @ + 1]
        /\ UNCHANGED <<pc, raised>>
     \/ /\ \E i \in Elements(n[k], Size, next[k]) :
             RanFor(k, {j \in Elements(n[k], Size, next[k]) : j < i})
        /\ pc' = [pc EXCEPT ![k] = "threw"]
        /\ raised' = [raised EXCEPT ![k] = TRUE]
        /\ UNCHANGED next
  /\ UNCHANGED <<poolVars, n, submitted, stage, got, syncVars>>

SequentialReturns(k) ==
  /\ pc[k] = "sequential" /\ next[k] = Chunks(k)
  /\ pc' = [pc EXCEPT ![k] = "returned"]
  /\ UNCHANGED <<poolVars, n, submitted, loopVars, syncVars, raised, runs>>

-----------------------------------------------------------------------------
Pull(p) == Fetch(p) \/ Body(p) \/ BodyThrows(p) \/ Capture(p) \/ Arrive(p) \/ ArriveLast(p)

CallStep(k) == \/ Submit(k) \/ SubmitFails(k) \/ Return(k)
               \/ SequentialChunk(k) \/ SequentialReturns(k)

Workers == UNION Pools

Next == \/ \E k \in Calls : CallFromOutside(k) \/ EnqueueOuter(k) \/ CallStep(k)
        \/ \E w \in Workers : WorkerTakes(w) \/ OuterEnds(w)
        \/ \E p \in Pullers : Pull(p)

\* Every thread inside the pool or inside a call is scheduled, and the bodies return or throw.
Fairness == /\ \A k \in Calls : WF_vars(CallStep(k))
            /\ \A p \in Pullers : WF_vars(Pull(p))
            /\ \A w \in Workers : WF_vars(WorkerTakes(w) \/ OuterEnds(w))

Spec == Init /\ [][Next]_vars /\ Fairness

-----------------------------------------------------------------------------
\* Types, and the latch never counts below zero.
TypeOK ==
  /\ workers_ \in Pools
  /\ queue \in Seq(Pullers)
  /\ job \in [workers_ -> Pullers \cup {NoJob}]
  /\ pc \in [Calls -> {"idle", "queued", "submit", "pull", "wait", "sequential",
                       "returned", "threw"}]
  /\ n \in [Calls -> Nat]
  /\ submitted \in [Calls -> Nat] /\ next \in [Calls -> Nat]
  /\ stage \in [Pullers -> {"none", "queued", "fetch", "body", "capture", "arrive", "last", "out"}]
  /\ got \in [Pullers -> Nat]
  /\ count_ \in [Calls -> Nat]
  /\ done_ \in [Calls -> BOOLEAN]
  /\ slot \in [Calls -> BOOLEAN] /\ raised \in [Calls -> BOOLEAN]

\* A call does not return, normally or by throwing, while a helper can still touch its frame
\* (next, fn, pull): not while one runs, and not while one is still queued in the pool, where
\* it would start on references into a dead frame.
FrameOutlivesHelpers ==
  \A p \in Pullers : Finished(p[1]) => stage[p] \in {"none", "out"}

\* No index is ever run twice, whoever pulled its chunk, and a call that returns normally ran
\* every index of its input.
EachIndexOnce ==
  \A k \in Calls : /\ \A i \in DOMAIN runs[k] : runs[k][i] <= 1
                   /\ pc[k] = "returned" => \A i \in 0 .. n[k] - 1 : runs[k][i] = 1

\* A call throws exactly when one of its bodies or submissions threw: an exception on any
\* thread reaches the caller, and reaches it only after the others stopped.
ErrorsReachCaller ==
  \A k \in Calls : Finished(k) => (pc[k] = "threw" <=> raised[k])

\* Every call returns, given a worker that no call blocks.
CallsReturn == \A k \in Calls : pc[k] # "idle" ~> Finished(k)

\* "These are pure: same result, just faster": a chunk reads only elements of the input.
ReadsStayInBounds ==
  /\ \A p \in Pullers : stage[p] = "body" => Reads(p[1], got[p]) \subseteq 0 .. n[p[1]] - 1
  /\ \A k \in Calls : pc[k] = "sequential" /\ next[k] < Chunks(k)
                       => Reads(k, next[k]) \subseteq 0 .. n[k] - 1
=============================================================================
