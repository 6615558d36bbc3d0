----------------------------- MODULE ThreadPool -----------------------------
(***************************************************************************)
(* fp::ThreadPool: workers that share one queue behind one mutex and one   *)
(* condition variable, the two enqueues, submit, and the destructor, which *)
(* drains the queue before it joins the workers.                           *)
(*                                                                         *)
(* tasks_ and stop_ are only touched under mu_, so one critical section is *)
(* one action.  The notifications are not under mu_: enqueue and submit    *)
(* call notify_one, and the destructor notify_all, after releasing it, so  *)
(* they are actions of their own and other threads run in between.         *)
(*                                                                         *)
(* A task is enqueued by a client thread or by another task while that one *)
(* runs on a worker; one of Cancellable goes through the enqueue that      *)
(* takes a stop_token: it has a stop_source of its own, which a stop       *)
(* callback bridges to the token, and it checks that source before its     *)
(* body runs.                                                              *)
(***************************************************************************)
EXTENDS Naturals, Sequences, FiniteSets

CONSTANTS Workers,      \* the threads of workers_
          Clients,      \* the threads outside the pool that enqueue
          Tasks,        \* the tasks ever enqueued
          NoTask,       \* what a worker holds between two tasks
          IssuedBy,     \* the client, or the task, whose code enqueues each task
          Cancellable   \* the tasks enqueued with a stop_token

ASSUME PoolAssumption ==
  /\ IsFiniteSet(Workers) /\ Workers # {}
  /\ Workers \cap Clients = {}
  /\ NoTask \notin Tasks
  /\ IssuedBy \in [Tasks -> Clients \cup Tasks]
  /\ Cancellable \subseteq Tasks

VARIABLES
  tasks_, stop_,
  cv_,        \* the workers asleep in cv_.wait
  loop,       \* where each worker is in loop(): "ready", "took", "running" or "exited"
  job,        \* the task each worker took and has not finished
  notifying,  \* the threads that pushed a task and have not called notify_one yet
  phase,      \* what became of each task
  token,      \* the external stop_token: "live", "stopping" (callbacks run), "stopped"
  bridged,    \* the tasks whose stop_source has a callback registered with the token
  stopped,    \* the tasks whose stop_source was asked to stop
  dtor        \* how far ~ThreadPool is: "alive", "stopping", "joining" or "gone"

poolVars  == <<tasks_, stop_, cv_>>
tokenVars == <<token, bridged, stopped>>
vars      == <<poolVars, loop, job, notifying, phase, tokenVars, dtor>>

Threads == Workers \cup Clients

Phases == {"new", "prepared", "queued", "taken", "running", "done", "cancelled", "rejected"}

\* The code that enqueues t is running on thread th; a client outlives none of the pool.
Issues(th, t) == \/ th \in Clients /\ IssuedBy[t] = th /\ dtor = "alive"
                 \/ th \in Workers /\ loop[th] = "running" /\ job[th] = IssuedBy[t]

\* th is inside an enqueue or submit.
InCall(th) == \/ th \in notifying
              \/ \E t \in Tasks : phase[t] = "prepared" /\ Issues(th, t)

AfterNotifyOne(sleepers) ==
  IF sleepers = {} THEN {{}} ELSE {sleepers \ {w} : w \in sleepers}

Become(t, p) == phase' = [phase EXCEPT ![t] = p]

-----------------------------------------------------------------------------
Init == /\ tasks_ = <<>> /\ stop_ = FALSE /\ cv_ = {}
        /\ loop = [w \in Workers |-> "ready"]
        /\ job = [w \in Workers |-> NoTask]
        /\ notifying = {}
        /\ phase = [t \in Tasks |-> "new"]
        /\ token = "live" /\ bridged = {} /\ stopped = {}
        /\ dtor = "alive"

\* enqueue(tok, f): a stop_callback is constructed on tok; on a token already asked to stop
\* it runs at once, in this thread.
Prepare(th, t) ==
  /\ phase[t] = "new" /\ t \in Cancellable
  /\ Issues(th, t) /\ ~InCall(th)
  /\ Become(t, "prepared")
  /\ IF token = "live" THEN bridged' = bridged \cup {t} /\ UNCHANGED stopped
                       ELSE stopped' = stopped \cup {t} /\ UNCHANGED bridged
  /\ UNCHANGED <<poolVars, loop, job, notifying, token, dtor>>

\* enqueue and submit are about to take mu_ with the task t.
ReadyToPush(th, t) ==
  /\ Issues(th, t)
  /\ IF t \in Cancellable THEN phase[t] = "prepared" /\ th \notin notifying
                          ELSE phase[t] = "new" /\ ~InCall(th)

\* A stopped pool throws: the task is not accepted, and its bridge is destroyed with it.
Reject(th, t) == /\ ReadyToPush(th, t) /\ stop_
                 /\ Become(t, "rejected")
                 /\ bridged' = bridged \ {t}
                 /\ UNCHANGED <<poolVars, loop, job, notifying, token, stopped, dtor>>

\* Mutant: enqueue does not look at stop_.
PushUnchecked(th, t) == /\ ReadyToPush(th, t)
                        /\ tasks_' = Append(tasks_, t)
                        /\ Become(t, "queued")
                        /\ notifying' = notifying \cup {th}
                        /\ UNCHANGED <<stop_, cv_, loop, job, tokenVars, dtor>>

Push(th, t) == /\ ReadyToPush(th, t) /\ ~stop_
               /\ tasks_' = Append(tasks_, t)
               /\ Become(t, "queued")
               /\ notifying' = notifying \cup {th}
               /\ UNCHANGED <<stop_, cv_, loop, job, tokenVars, dtor>>

\* Mutant: notify_one only when the queue went from empty to one task.
NotifyWhenOne(th) == /\ th \in notifying
                     /\ IF Len(tasks_) = 1 THEN cv_' \in AfterNotifyOne(cv_) ELSE UNCHANGED cv_
                     /\ notifying' = notifying \ {th}
                     /\ UNCHANGED <<tasks_, stop_, loop, job, phase, tokenVars, dtor>>

Notify(th) == /\ th \in notifying
              /\ cv_' \in AfterNotifyOne(cv_)
              /\ notifying' = notifying \ {th}
              /\ UNCHANGED <<tasks_, stop_, loop, job, phase, tokenVars, dtor>>

-----------------------------------------------------------------------------
\* loop(): what a worker does each time it holds mu_.
HoldsLock(w) == loop[w] = "ready" /\ w \notin cv_

Sleeps(w) == /\ HoldsLock(w)
             /\ ~stop_ /\ tasks_ = <<>>
             /\ cv_' = cv_ \cup {w}
             /\ UNCHANGED <<tasks_, stop_, loop, job, notifying, phase, tokenVars, dtor>>

\* Mutant: a worker that sees stop_ leaves, whatever is still queued.
ExitsAtOnce(w) == /\ HoldsLock(w)
                  /\ stop_
                  /\ loop' = [loop EXCEPT ![w] = "exited"]
                  /\ UNCHANGED <<poolVars, job, notifying, phase, tokenVars, dtor>>

Exits(w) == /\ HoldsLock(w)
            /\ tasks_ = <<>> /\ stop_
            /\ loop' = [loop EXCEPT ![w] = "exited"]
            /\ UNCHANGED <<poolVars, job, notifying, phase, tokenVars, dtor>>

\* Mutant: the front is copied, not popped.
TakesWithoutPop(w) == /\ HoldsLock(w)
                      /\ tasks_ # <<>>
                      /\ job' = [job EXCEPT ![w] = Head(tasks_)]
                      /\ Become(Head(tasks_), "taken")
                      /\ loop' = [loop EXCEPT ![w] = "took"]
                      /\ UNCHANGED <<poolVars, notifying, tokenVars, dtor>>

Takes(w) == /\ HoldsLock(w)
            /\ tasks_ # <<>>
            /\ job' = [job EXCEPT ![w] = Head(tasks_)]
            /\ tasks_' = Tail(tasks_)
            /\ Become(Head(tasks_), "taken")
            /\ loop' = [loop EXCEPT ![w] = "took"]
            /\ UNCHANGED <<stop_, cv_, notifying, tokenVars, dtor>>

\* t(), up to the body: a cancellable task whose source was stopped resolves without it.
Skips(w) == /\ loop[w] = "took"
            /\ job[w] \in Cancellable \cap stopped
            /\ Become(job[w], "cancelled")
            /\ job' = [job EXCEPT ![w] = NoTask]
            /\ loop' = [loop EXCEPT ![w] = "ready"]
            /\ UNCHANGED <<poolVars, notifying, tokenVars, dtor>>

\* Mutant: the body starts without a look at the stop_source.
StartsUnchecked(w) == /\ loop[w] = "took"
                      /\ Become(job[w], "running")
                      /\ loop' = [loop EXCEPT ![w] = "running"]
                      /\ UNCHANGED <<poolVars, job, notifying, tokenVars, dtor>>

Starts(w) == /\ loop[w] = "took"
             /\ job[w] \notin Cancellable \cap stopped
             /\ Become(job[w], "running")
             /\ loop' = [loop EXCEPT ![w] = "running"]
             /\ UNCHANGED <<poolVars, job, notifying, tokenVars, dtor>>

\* Mutant: a worker keeps the task it finished.
FinishesHolding(w) == /\ loop[w] = "running" /\ ~InCall(w)
                      /\ Become(job[w], "done")
                      /\ loop' = [loop EXCEPT ![w] = "ready"]
                      /\ UNCHANGED <<poolVars, job, notifying, tokenVars, dtor>>

\* The body returns or throws; either way packaged_task makes the future ready.
Finishes(w) == /\ loop[w] = "running" /\ ~InCall(w)
               /\ Become(job[w], "done")
               /\ job' = [job EXCEPT ![w] = NoTask]
               /\ loop' = [loop EXCEPT ![w] = "ready"]
               /\ UNCHANGED <<poolVars, notifying, tokenVars, dtor>>

WakesSpuriously(w) == /\ w \in cv_
                      /\ cv_' = cv_ \ {w}
                      /\ UNCHANGED <<tasks_, stop_, loop, job, notifying, phase, tokenVars, dtor>>

-----------------------------------------------------------------------------
\* stop_source::request_stop on the external token: the state first, then the callbacks, one
\* after the other in the requesting thread; it returns when all of them have.
StopBegins == /\ token = "live"
              /\ token' = "stopping"
              /\ UNCHANGED <<poolVars, loop, job, notifying, phase, bridged, stopped, dtor>>

StopCallback(t) == /\ token = "stopping" /\ t \in bridged
                   /\ bridged' = bridged \ {t}
                   /\ stopped' = stopped \cup {t}
                   /\ UNCHANGED <<poolVars, loop, job, notifying, phase, token, dtor>>

StopReturns == /\ token = "stopping" /\ bridged = {}
               /\ token' = "stopped"
               /\ UNCHANGED <<poolVars, loop, job, notifying, phase, bridged, stopped, dtor>>

\* Task::cancel on the Task that enqueue returned.
Cancel(t) == /\ t \in Cancellable \ stopped
             /\ phase[t] \notin {"new", "prepared", "rejected"}
             /\ stopped' = stopped \cup {t}
             /\ UNCHANGED <<poolVars, loop, job, notifying, phase, token, bridged, dtor>>

\* ~ThreadPool, called when no client is inside the pool any more; tasks may still be.
DestroySets == /\ dtor = "alive"
               /\ \A c \in Clients : ~InCall(c)
               /\ stop_' = TRUE
               /\ dtor' = "stopping"
               /\ UNCHANGED <<tasks_, cv_, loop, job, notifying, phase, tokenVars>>

\* Mutant: the destructor wakes a single worker.
DestroyNotifiesOne == /\ dtor = "stopping"
                      /\ cv_' \in AfterNotifyOne(cv_)
                      /\ dtor' = "joining"
                      /\ UNCHANGED <<tasks_, stop_, loop, job, notifying, phase, tokenVars>>

DestroyNotifies == /\ dtor = "stopping"
                   /\ cv_' = {}
                   /\ dtor' = "joining"
                   /\ UNCHANGED <<tasks_, stop_, loop, job, notifying, phase, tokenVars>>

DestroyJoins == /\ dtor = "joining"
                /\ \A w \in Workers : loop[w] = "exited"
                /\ dtor' = "gone"
                /\ UNCHANGED <<poolVars, loop, job, notifying, phase, tokenVars>>

-----------------------------------------------------------------------------
WorkerStep(w) == Sleeps(w) \/ Exits(w) \/ Takes(w) \/ Skips(w) \/ Starts(w) \/ Finishes(w)

Next == \/ \E th \in Threads, t \in Tasks : Prepare(th, t) \/ Reject(th, t) \/ Push(th, t)
        \/ \E th \in Threads : Notify(th)
        \/ \E w \in Workers : WorkerStep(w) \/ WakesSpuriously(w)
        \/ \E t \in Tasks : StopCallback(t) \/ Cancel(t)
        \/ StopBegins \/ StopReturns
        \/ DestroySets \/ DestroyNotifies \/ DestroyJoins

\* Every worker is scheduled and task bodies return; a call to enqueue, to request_stop or to
\* the destructor that began goes on.  Nothing obliges anybody to begin one.
Fairness == /\ \A w \in Workers : WF_vars(WorkerStep(w))
            /\ \A th \in Threads : WF_vars(Notify(th))
            /\ \A th \in Threads, t \in Tasks :
                 WF_vars(phase[t] = "prepared" /\ (Push(th, t) \/ Reject(th, t)))
            /\ WF_vars(StopReturns \/ \E t \in Tasks : StopCallback(t))
            /\ WF_vars(DestroyNotifies \/ DestroyJoins)

Spec == Init /\ [][Next]_vars /\ Fairness

-----------------------------------------------------------------------------
\* Types, and that only a worker waiting for work sleeps.
TypeOK ==
  /\ tasks_ \in Seq(Tasks)
  /\ stop_ \in BOOLEAN
  /\ cv_ \subseteq {w \in Workers : loop[w] = "ready"}
  /\ loop \in [Workers -> {"ready", "took", "running", "exited"}]
  /\ job \in [Workers -> Tasks \cup {NoTask}]
  /\ \A w \in Workers : loop[w] \in {"took", "running"} <=> job[w] \in Tasks
  /\ notifying \subseteq Threads
  /\ phase \in [Tasks -> Phases]
  /\ token \in {"live", "stopping", "stopped"}
  /\ bridged \subseteq Cancellable /\ stopped \subseteq Cancellable
  /\ dtor \in {"alive", "stopping", "joining", "gone"}

Ready == {w \in Workers : HoldsLock(w)}

\* No task waits behind a sleeping worker: while one sleeps, every queued task has a worker
\* awake for it or a thread about to notify one; and none sleeps through the destructor.
NoLostWakeup ==
  cv_ # {} => /\ Len(tasks_) <= Cardinality(Ready) + Cardinality(notifying)
              /\ stop_ => dtor = "stopping"

\* Each accepted task is owned by exactly one party: the queue, once, or one worker; so none
\* is lost and none runs twice.
EachTaskOnce ==
  /\ \A i, j \in 1..Len(tasks_) : tasks_[i] = tasks_[j] => i = j
  /\ \A t \in Tasks : phase[t] = "queued" <=> \E i \in 1..Len(tasks_) : tasks_[i] = t
  /\ \A t \in Tasks : phase[t] \in {"taken", "running"} <=> \E w \in Workers : job[w] = t
  /\ \A v, w \in Workers : v # w /\ job[v] = job[w] => job[v] = NoTask

\* The destructor returns only when every task the pool accepted has been resolved: a future
\* obtained from enqueue never outlives the pool unready, and no worker leaves work behind.
DrainedOnExit ==
  /\ \A w \in Workers : loop[w] = "exited" => stop_ /\ tasks_ = <<>>
  /\ dtor = "gone" => \A t \in Tasks : phase[t] \in {"new", "done", "cancelled", "rejected"}

\* "A task whose token is stopped before it runs never executes": once request_stop on the
\* token or cancel on the Task has returned, no body starts, whatever the stop raced with
\* between the construction of the bridge and the check in the worker.
StoppedNeverStarts ==
  [][\A t \in Cancellable :
       (token = "stopped" \/ t \in stopped) /\ phase[t] # "running" => phase'[t] # "running"]_vars

\* Every accepted task is resolved, also when the destructor comes right behind it.
AcceptedIsResolved ==
  \A t \in Tasks : phase[t] = "queued" ~> phase[t] \in {"done", "cancelled"}

\* The destructor returns.
DestructorReturns == dtor = "stopping" ~> dtor = "gone"
=============================================================================
