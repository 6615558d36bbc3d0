----------------------------- MODULE CancellablePar -----------------------------
(***************************************************************************)
(* The par_* helpers that hold one future per chunk: the cancellable       *)
(* par_map, par_for_each and par_reduce over a ThreadPool, and the         *)
(* standalone par_map and par_for_each over std::async.  The caller        *)
(* submits the chunks in order and then waits for their futures in order;  *)
(* get() rethrows what a chunk threw and the rest is not waited for.  The  *)
(* destructor of a future of std::async waits, the one of a packaged task  *)
(* does not: its chunks go on with references to a frame that is gone, of  *)
(* which the model keeps only that they go on.                             *)
(***************************************************************************)
EXTENDS Naturals, FiniteSets

CONSTANTS Kinds,    \* of the call: "map", "each", "reduce", "async"
          Ns,       \* sizes of the input
          Pools     \* sizes of the pool, which may have no worker, or the number of threads asked for

VARIABLES kind, n, pool, \* of the call
          stop,          \* stop_requested() of the token
          submitted,     \* chunks handed over
          at,            \* next element of each chunk, by chunk
          status,        \* "none", "queued", "running", "done", "thrown"
          done,          \* the elements that were computed
          caller, got    \* where the caller is, and the futures it has been through

Cut == INSTANCE Chunking

vars == <<kind, n, pool, stop, submitted, at, status, done, caller, got>>

AtLeastOne(x) == IF x = 0 THEN 1 ELSE x

\* par_reduce takes no more threads than elements, the others at least one; a standalone call
\* with one thread runs the elements itself, which is one chunk as well.
threads == IF kind = "reduce" THEN Cut!Least(pool, n) ELSE AtLeastOne(pool)
chunk   == Cut!CeilDiv(n, threads)
Count   == IF n = 0 \/ threads = 0 THEN 0 ELSE Cut!CeilDiv(n, chunk)
All     == 1 .. Count
First(c) == (c - 1) * chunk
Past(c)  == Cut!Least(n, c * chunk)

Token == kind # "async"   \* the standalone ones have none

\* All but the cancellable par_for_each answer for an empty input before they divide or look at the token.
Immediate == n = 0 /\ kind # "each"
\* The others divide by the threads, and by the elements of a chunk, whatever they are.
NoThreads   == ~Immediate /\ threads = 0
ZeroDivisor == NoThreads \/ (~Immediate /\ n = 0)

Init == /\ kind \in Kinds /\ n \in Ns /\ pool \in Pools
        /\ stop = FALSE /\ submitted = 0 /\ got = 0
        /\ at = [c \in All |-> First(c)]
        /\ status = [c \in All |-> "none"]
        /\ done = {}
        /\ caller = "begins"

\* A division by zero ends the program, or goes on with a quotient of zero where the processor gives one: without a
\* chunk, and par_reduce with chunks of no element, one after the other, until there is no memory for the next.
Begin == /\ caller = "begins"
         /\ \/ Immediate /\ caller' = "ok"
            \/ ~Immediate /\ ~NoThreads /\ caller' = "submits"
            \/ NoThreads /\ caller' = "unwinds"
            \/ ZeroDivisor /\ caller' = "crashed"
         /\ UNCHANGED <<kind, n, pool, stop, submitted, at, status, done, got>>

RequestStop == Token /\ ~stop /\ stop' = TRUE /\ caller # "crashed"
               /\ UNCHANGED <<kind, n, pool, submitted, at, status, done, caller, got>>

Submit == /\ caller = "submits" /\ submitted < Count
          /\ \/ /\ submitted' = submitted + 1
                /\ status' = [status EXCEPT ![submitted + 1] = "queued"]
                /\ UNCHANGED caller
             \/ caller' = "unwinds" /\ UNCHANGED <<submitted, status>>
          /\ UNCHANGED <<kind, n, pool, stop, at, done, got>>

Submitted == /\ caller = "submits" /\ submitted = Count
             /\ caller' = "waits"
             /\ UNCHANGED <<kind, n, pool, stop, submitted, at, status, done, got>>

\* A pool starts its tasks in order, and one without workers none.
Start(c) == /\ status[c] = "queued"
            /\ kind # "async" => pool > 0 /\ \A d \in 1 .. c - 1 : status[d] # "queued"
            /\ status' = [status EXCEPT ![c] = "running"]
            /\ UNCHANGED <<kind, n, pool, stop, submitted, at, done, caller, got>>

\* par_reduce takes v[s] as its first value before it looks at the token.
Seeds(c) == kind = "reduce" /\ at[c] = First(c)

Step(c) == /\ status[c] = "running" /\ at[c] < Past(c)
           /\ ~stop \/ Seeds(c)
           /\ \/ /\ at' = [at EXCEPT ![c] = @ + 1]
                 /\ done' = done \cup {at[c]}
                 /\ UNCHANGED status
              \/ /\ ~Seeds(c)
                 /\ status' = [status EXCEPT ![c] = "thrown"]
                 /\ UNCHANGED <<at, done>>
           /\ UNCHANGED <<kind, n, pool, stop, submitted, caller, got>>

Finish(c) == /\ status[c] = "running"
             /\ at[c] = Past(c) \/ (stop /\ ~Seeds(c))
             /\ status' = [status EXCEPT ![c] = "done"]
             /\ UNCHANGED <<kind, n, pool, stop, submitted, at, done, caller, got>>

\* get() in order; par_reduce folds what it got, and the operation may throw.
Get == /\ caller = "waits" /\ got < Count
       /\ \/ status[got + 1] = "done" /\ got' = got + 1 /\ UNCHANGED caller
          \/ status[got + 1] = "thrown" /\ caller' = "unwinds" /\ UNCHANGED got
          \/ kind = "reduce" /\ status[got + 1] = "done" /\ caller' = "unwinds" /\ UNCHANGED got
       /\ UNCHANGED <<kind, n, pool, stop, submitted, at, status, done>>

\* Mutant: the token is not looked at once the chunks are done.
AnswerAlways == /\ caller = "waits" /\ got = Count
                /\ caller' = "ok"
                /\ UNCHANGED <<kind, n, pool, stop, submitted, at, status, done, got>>

Answer == /\ caller = "waits" /\ got = Count
          /\ caller' = IF Token /\ stop THEN "cancelled" ELSE "ok"
          /\ UNCHANGED <<kind, n, pool, stop, submitted, at, status, done, got>>

Ended(c) == status[c] \in {"none", "done", "thrown"}

\* The frame goes, with the futures in it.
Unwind == /\ caller = "unwinds"
          /\ kind = "async" => \A c \in All : Ended(c)
          /\ caller' = "thrown"
          /\ UNCHANGED <<kind, n, pool, stop, submitted, at, status, done, got>>

Next == \/ Begin \/ RequestStop \/ Submit \/ Submitted \/ Get \/ Answer \/ Unwind
        \/ \E c \in All : Start(c) \/ Step(c) \/ Finish(c)

Spec == Init /\ [][Next]_vars

-----------------------------------------------------------------------------
Elements == 0 .. n - 1
Gone     == caller \in {"ok", "cancelled", "thrown"}

\* A call that answers ok has computed every element, whenever the token is stopped; one that
\* answers at all, ok or cancelled, has no chunk left that refers to its frame, and neither has
\* one that throws out of std::async futures.  No chunk is empty and none computes an element of
\* another, so that what they write never meets.  A call may end the program by a division by zero,
\* but only the cancellable par_for_each over an empty input and par_reduce over a pool without workers.
OkIsComplete ==
  /\ caller = "ok" => done = Elements
  /\ caller = "crashed" => (kind = "each" /\ n = 0) \/ (kind = "reduce" /\ pool = 0)
  /\ Gone /\ (caller # "thrown" \/ kind = "async") => \A c \in All : Ended(c)
  /\ \A c, d \in All : c < d => Past(c) <= First(d) /\ First(d) < Past(d)
=============================================================================
