-------------------------- MODULE ThreadPoolProofs --------------------------
(***************************************************************************)
(* Safety of fp::ThreadPool for every finite set of workers, every set of  *)
(* clients and tasks, and every way tasks enqueue one another.             *)
(*                                                                         *)
(* The invariant is built in layers, each proved from the ones before it:  *)
(* the types; who owns each task; what the destructor has established; how *)
(* a stop request reaches a cancellable task; and the wakeup count.        *)
(***************************************************************************)
EXTENDS ThreadPool, FiniteSetTheorems, TLAPS

\* The destructor's progress, and where the tasks whose push is still to come are.
DestroyInv ==
  /\ stop_ <=> dtor # "alive"
  /\ \A w \in Workers : loop[w] = "exited" => stop_ /\ tasks_ = <<>>
  /\ dtor = "gone" => \A w \in Workers : loop[w] = "exited"
  /\ \A t \in Tasks : phase[t] = "prepared" => \E th \in Threads : Issues(th, t)

\* A task that a stop could still concern is registered with the token or was told of it.
StopInv ==
  /\ \A t \in Cancellable : phase[t] \notin {"new", "rejected"} => t \in bridged \cup stopped
  /\ token = "stopped" => bridged = {}

\* The threads that owe a notify_one can be counted.
WakeInv == IsFiniteSet(notifying) /\ NoLostWakeup

IInv == TypeOK /\ EachTaskOnce /\ DestroyInv /\ StopInv /\ WakeInv

-----------------------------------------------------------------------------
LEMMA NotifyOne ==
  ASSUME NEW sleepers, NEW rest \in AfterNotifyOne(sleepers)
  PROVE  /\ rest \subseteq sleepers
         /\ sleepers # {} => \E w \in sleepers : rest = sleepers \ {w}
BY DEF AfterNotifyOne

\* The step of a specification with many actions is taken apart once.
LEMMA NextCases ==
  ASSUME [Next]_vars
  PROVE  \/ \E th \in Threads, t \in Tasks : Prepare(th, t) \/ Reject(th, t) \/ Push(th, t)
         \/ \E th \in Threads : Notify(th)
         \/ \E w \in Workers : \/ Sleeps(w) \/ Exits(w) \/ Takes(w) \/ Skips(w)
                               \/ Starts(w) \/ Finishes(w) \/ WakesSpuriously(w)
         \/ \E t \in Tasks : StopCallback(t) \/ Cancel(t)
         \/ StopBegins \/ StopReturns \/ DestroySets \/ DestroyNotifies \/ DestroyJoins
         \/ UNCHANGED vars
BY DEF Next, WorkerStep

LEMMA InitIInv == Init => IInv
<1> SUFFICES ASSUME Init PROVE IInv
  OBVIOUS
<1> USE PoolAssumption DEF PoolAssumption, Init
<1>1. TypeOK
  <2>1. loop \in [Workers -> {"ready", "took", "running", "exited"}] /\ tasks_ \in Seq(Tasks)
    OBVIOUS
  <2>2. \A w \in Workers : loop[w] \notin {"took", "running"} /\ job[w] \notin Tasks
    OBVIOUS
  <2>3. job \in [Workers -> Tasks \cup {NoTask}] /\ phase \in [Tasks -> Phases]
    BY DEF Phases
  <2>. QED BY <2>1, <2>2, <2>3 DEF TypeOK
<1>2. EachTaskOnce
  BY DEF EachTaskOnce
<1>3. DestroyInv
  BY DEF DestroyInv
<1>4. StopInv
  BY DEF StopInv
<1>5. WakeInv
  BY FS_EmptySet DEF WakeInv, NoLostWakeup
<1>. QED BY <1>1, <1>2, <1>3, <1>4, <1>5 DEF IInv

-----------------------------------------------------------------------------
LEMMA TypeStep ==
  ASSUME TypeOK, [Next]_vars
  PROVE  TypeOK'
<1> USE PoolAssumption DEF PoolAssumption, TypeOK, Phases, poolVars, tokenVars
<1>1. ASSUME NEW th \in Threads, NEW t \in Tasks, Prepare(th, t) PROVE TypeOK'
  <2>1. CASE token = "live"
    BY <1>1, <2>1 DEF Prepare, Become
  <2>2. CASE token # "live"
    BY <1>1, <2>2 DEF Prepare, Become
  <2>. QED BY <2>1, <2>2
<1>2. ASSUME NEW th \in Threads, NEW t \in Tasks, Reject(th, t) PROVE TypeOK'
  BY <1>2 DEF Reject, Become
<1>3. ASSUME NEW th \in Threads, NEW t \in Tasks, Push(th, t) PROVE TypeOK'
  BY <1>3 DEF Push, Become
<1>4. ASSUME NEW th \in Threads, Notify(th) PROVE TypeOK'
  BY <1>4, NotifyOne DEF Notify
<1>5. ASSUME NEW w \in Workers, Sleeps(w) PROVE TypeOK'
  BY <1>5 DEF Sleeps, HoldsLock
<1>6. ASSUME NEW w \in Workers, Exits(w) PROVE TypeOK'
  BY <1>6 DEF Exits, HoldsLock
<1>7. ASSUME NEW w \in Workers, Takes(w) PROVE TypeOK'
  <2>1. Head(tasks_) \in Tasks /\ Tail(tasks_) \in Seq(Tasks)
    BY <1>7 DEF Takes
  <2>. QED BY <1>7, <2>1 DEF Takes, HoldsLock, Become
<1>8. ASSUME NEW w \in Workers, Skips(w) PROVE TypeOK'
  BY <1>8 DEF Skips, Become
<1>9. ASSUME NEW w \in Workers, Starts(w) PROVE TypeOK'
  BY <1>9 DEF Starts, Become
<1>10. ASSUME NEW w \in Workers, Finishes(w) PROVE TypeOK'
  BY <1>10 DEF Finishes, Become
<1>11. ASSUME NEW w \in Workers, WakesSpuriously(w) PROVE TypeOK'
  BY <1>11 DEF WakesSpuriously
<1>12. ASSUME NEW t \in Tasks, StopCallback(t) PROVE TypeOK'
  BY <1>12 DEF StopCallback
<1>13. ASSUME NEW t \in Tasks, Cancel(t) PROVE TypeOK'
  BY <1>13 DEF Cancel
<1>14. CASE StopBegins \/ StopReturns
  BY <1>14 DEF StopBegins, StopReturns
<1>15. CASE DestroySets \/ DestroyNotifies \/ DestroyJoins
  BY <1>15 DEF DestroySets, DestroyNotifies, DestroyJoins
<1>16. CASE UNCHANGED vars
  BY <1>16 DEF vars
<1>. QED BY NextCases, <1>1, <1>2, <1>3, <1>4, <1>5, <1>6, <1>7, <1>8, <1>9, <1>10, <1>11,
            <1>12, <1>13, <1>14, <1>15, <1>16

\* Every variable has its type, and only a worker between two tasks sleeps.
THEOREM TypeCorrect == Spec => []TypeOK
<1>1. Init => TypeOK
  BY InitIInv DEF IInv
<1>. QED BY <1>1, TypeStep, PTL DEF Spec

-----------------------------------------------------------------------------
\* Steps that touch neither the queue, nor a job, nor a phase the owners are read from.
LEMMA SameOwners ==
  ASSUME TypeOK, EachTaskOnce, UNCHANGED <<tasks_, job>>, phase' \in [Tasks -> Phases],
         \A t \in Tasks : phase'[t] # phase[t] =>
                           {phase[t], phase'[t]} \cap {"queued", "taken", "running"} = {}
  PROVE  EachTaskOnce'
<1>1. \A t \in Tasks : /\ phase'[t] = "queued" <=> phase[t] = "queued"
                       /\ phase'[t] \in {"taken", "running"} <=> phase[t] \in {"taken", "running"}
  OBVIOUS
<1>. QED BY <1>1 DEF EachTaskOnce

\* A worker lets go of the task it holds.
LEMMA WorkerReleases ==
  ASSUME TypeOK, EachTaskOnce, NEW w \in Workers, job[w] \in Tasks,
         NEW p \in {"done", "cancelled"},
         Become(job[w], p), job' = [job EXCEPT ![w] = NoTask], UNCHANGED tasks_
  PROVE  EachTaskOnce'
<1> USE PoolAssumption DEF PoolAssumption, EachTaskOnce
<1>1. \A t \in Tasks : phase'[t] = IF t = job[w] THEN p ELSE phase[t]
  BY DEF Become, TypeOK
<1>2. \A v \in Workers : job'[v] = IF v = w THEN NoTask ELSE job[v]
  BY DEF TypeOK
<1>3. phase[job[w]] \in {"taken", "running"}
  OBVIOUS
<1>4. \A t \in Tasks : phase'[t] = "queued" <=> \E i \in 1..Len(tasks_') : tasks_'[i] = t
  BY <1>1, <1>3
<1>5. \A t \in Tasks : phase'[t] \in {"taken", "running"} <=> \E v \in Workers : job'[v] = t
  <2> SUFFICES ASSUME NEW t \in Tasks
               PROVE  phase'[t] \in {"taken", "running"} <=> \E v \in Workers : job'[v] = t
    OBVIOUS
  <2>1. CASE t = job[w]
    BY <1>1, <1>2, <2>1
  <2>2. CASE t # job[w]
    BY <1>1, <1>2, <2>2
  <2>. QED BY <2>1, <2>2
<1>6. \A u, v \in Workers : u # v /\ job'[u] = job'[v] => job'[u] = NoTask
  BY <1>2
<1>. QED BY <1>4, <1>5, <1>6

LEMMA OnceStep ==
  ASSUME TypeOK, EachTaskOnce, [Next]_vars
  PROVE  EachTaskOnce'
<1> USE PoolAssumption DEF PoolAssumption, poolVars, tokenVars
<1>0. phase' \in [Tasks -> Phases]
  BY TypeStep DEF TypeOK
<1>1. ASSUME NEW th \in Threads, NEW t \in Tasks, Prepare(th, t) PROVE EachTaskOnce'
  BY <1>0, <1>1, SameOwners DEF Prepare, Become, TypeOK
<1>2. ASSUME NEW th \in Threads, NEW t \in Tasks, Reject(th, t) PROVE EachTaskOnce'
  BY <1>0, <1>2, SameOwners DEF Reject, ReadyToPush, Become, TypeOK
<1>3. ASSUME NEW th \in Threads, NEW t \in Tasks, Push(th, t) PROVE EachTaskOnce'
  <2>1. phase[t] \in {"new", "prepared"} /\ tasks_' = Append(tasks_, t) /\ UNCHANGED job
    BY <1>3 DEF Push, ReadyToPush
  <2>2. \A u \in Tasks : phase'[u] = IF u = t THEN "queued" ELSE phase[u]
    BY <1>3 DEF Push, Become, TypeOK
  <2>3. /\ Len(tasks_) \in Nat /\ Len(tasks_') = Len(tasks_) + 1
        /\ \A i \in 1..Len(tasks_) : tasks_'[i] = tasks_[i]
        /\ tasks_'[Len(tasks_')] = t
    BY <2>1 DEF TypeOK
  <2>4. \A i \in 1..Len(tasks_) : tasks_[i] # t
    BY <2>1 DEF EachTaskOnce
  <2>5. \A i, j \in 1..Len(tasks_') : tasks_'[i] = tasks_'[j] => i = j
    BY <2>3, <2>4 DEF EachTaskOnce
  <2>6. \A u \in Tasks : phase'[u] = "queued" <=> \E i \in 1..Len(tasks_') : tasks_'[i] = u
    <3> SUFFICES ASSUME NEW u \in Tasks
                 PROVE  phase'[u] = "queued" <=> \E i \in 1..Len(tasks_') : tasks_'[i] = u
      OBVIOUS
    <3>1. CASE u = t
      <4>1. Len(tasks_') \in 1..Len(tasks_')
        BY <2>3
      <4>. QED BY <2>2, <2>3, <3>1, <4>1
    <3>2. CASE u # t
      <4>1. phase'[u] = "queued" <=> \E i \in 1..Len(tasks_) : tasks_[i] = u
        BY <2>2, <3>2 DEF EachTaskOnce
      <4>2. (\E i \in 1..Len(tasks_) : tasks_[i] = u) <=> \E i \in 1..Len(tasks_') : tasks_'[i] = u
        BY <2>3, <3>2
      <4>. QED BY <4>1, <4>2
    <3>. QED BY <3>1, <3>2
  <2>7. \A u \in Tasks : phase'[u] \in {"taken", "running"} <=> \E w \in Workers : job'[w] = u
    BY <2>1, <2>2 DEF EachTaskOnce
  <2>. QED BY <2>1, <2>5, <2>6, <2>7 DEF EachTaskOnce
<1>4. ASSUME NEW th \in Threads, Notify(th) PROVE EachTaskOnce'
  BY <1>0, <1>4, SameOwners DEF Notify
<1>5. ASSUME NEW w \in Workers, Sleeps(w) \/ Exits(w) \/ WakesSpuriously(w) PROVE EachTaskOnce'
  BY <1>0, <1>5, SameOwners DEF Sleeps, Exits, WakesSpuriously
<1>6. ASSUME NEW w \in Workers, Takes(w) PROVE EachTaskOnce'
  <2> DEFINE t == Head(tasks_)
  <2>1. /\ tasks_ # <<>> /\ tasks_' = Tail(tasks_)
        /\ loop[w] = "ready" /\ job' = [job EXCEPT ![w] = t] /\ Become(t, "taken")
    BY <1>6 DEF Takes, HoldsLock
  <2>2. /\ Len(tasks_) \in Nat \ {0} /\ Len(tasks_') = Len(tasks_) - 1
        /\ \A i \in 1..Len(tasks_') : tasks_'[i] = tasks_[i + 1]
        /\ t = tasks_[1] /\ t \in Tasks
    BY <2>1 DEF TypeOK
  <2>3. phase[t] = "queued"
    BY <2>2 DEF EachTaskOnce
  <2>4. \A u \in Tasks : phase'[u] = IF u = t THEN "taken" ELSE phase[u]
    BY <2>1, <2>2 DEF Become, TypeOK
  <2>5. \A v \in Workers : job'[v] = IF v = w THEN t ELSE job[v]
    BY <2>1 DEF TypeOK
  <2>6. job[w] = NoTask /\ \A v \in Workers : job[v] # t
    BY <2>1, <2>2, <2>3 DEF TypeOK, EachTaskOnce
  <2> HIDE DEF t
  <2>7. \A i, j \in 1..Len(tasks_') : tasks_'[i] = tasks_'[j] => i = j
    BY <2>2 DEF EachTaskOnce
  <2>8. \A u \in Tasks : phase'[u] = "queued" <=> \E i \in 1..Len(tasks_') : tasks_'[i] = u
    <3> SUFFICES ASSUME NEW u \in Tasks
                 PROVE  phase'[u] = "queued" <=> \E i \in 1..Len(tasks_') : tasks_'[i] = u
      OBVIOUS
    <3>1. CASE u = t
      <4>1. \A i \in 1..Len(tasks_') : i + 1 \in 1..Len(tasks_) /\ i + 1 # 1
        BY <2>2
      <4>2. \A i \in 1..Len(tasks_') : tasks_[i + 1] # tasks_[1]
        BY <2>2, <4>1 DEF EachTaskOnce
      <4>. QED BY <2>2, <2>4, <3>1, <4>2
    <3>2. CASE u # t
      <4>1. phase'[u] = "queued" <=> \E i \in 1..Len(tasks_) : tasks_[i] = u
        BY <2>4, <3>2 DEF EachTaskOnce
      <4>2. ASSUME NEW i \in 1..Len(tasks_), tasks_[i] = u
            PROVE  \E j \in 1..Len(tasks_') : tasks_'[j] = u
        <5>1. i # 1
          BY <2>2, <3>2, <4>2
        <5>2. i - 1 \in 1..Len(tasks_') /\ (i - 1) + 1 = i
          BY <2>2, <5>1
        <5>. QED BY <2>2, <4>2, <5>2
      <4>3. ASSUME NEW j \in 1..Len(tasks_'), tasks_'[j] = u
            PROVE  \E i \in 1..Len(tasks_) : tasks_[i] = u
        <5>1. j + 1 \in 1..Len(tasks_)
          BY <2>2
        <5>. QED BY <2>2, <4>3, <5>1
      <4>. QED BY <4>1, <4>2, <4>3
    <3>. QED BY <3>1, <3>2
  <2>9. \A u \in Tasks : phase'[u] \in {"taken", "running"} <=> \E v \in Workers : job'[v] = u
    <3> SUFFICES ASSUME NEW u \in Tasks
                 PROVE  phase'[u] \in {"taken", "running"} <=> \E v \in Workers : job'[v] = u
      OBVIOUS
    <3>1. CASE u = t
      BY <2>4, <2>5, <3>1
    <3>2. CASE u # t
      BY <2>4, <2>5, <2>6, <3>2 DEF EachTaskOnce
    <3>. QED BY <3>1, <3>2
  <2>10. \A u, v \in Workers : u # v /\ job'[u] = job'[v] => job'[u] = NoTask
    BY <2>5, <2>6 DEF EachTaskOnce
  <2>. QED BY <2>7, <2>8, <2>9, <2>10 DEF EachTaskOnce
<1>7. ASSUME NEW w \in Workers, Skips(w) PROVE EachTaskOnce'
  <2>1. job[w] \in Tasks
    BY <1>7 DEF Skips, TypeOK
  <2>. QED BY <1>7, <2>1, WorkerReleases DEF Skips
<1>8. ASSUME NEW w \in Workers, Starts(w) PROVE EachTaskOnce'
  <2>1. job[w] \in Tasks /\ UNCHANGED <<tasks_, job>>
    BY <1>8 DEF Starts, TypeOK
  <2>2. \A t \in Tasks : phase'[t] = IF t = job[w] THEN "running" ELSE phase[t]
    BY <1>8, <2>1 DEF Starts, Become, TypeOK
  <2>3. phase[job[w]] \in {"taken", "running"}
    BY <2>1 DEF EachTaskOnce
  <2>. QED BY <2>1, <2>2, <2>3 DEF EachTaskOnce
<1>9. ASSUME NEW w \in Workers, Finishes(w) PROVE EachTaskOnce'
  <2>1. job[w] \in Tasks
    BY <1>9 DEF Finishes, TypeOK
  <2>. QED BY <1>9, <2>1, WorkerReleases DEF Finishes
<1>10. ASSUME NEW t \in Tasks, StopCallback(t) \/ Cancel(t) PROVE EachTaskOnce'
  BY <1>0, <1>10, SameOwners DEF StopCallback, Cancel
<1>11. CASE StopBegins \/ StopReturns
  BY <1>0, <1>11, SameOwners DEF StopBegins, StopReturns
<1>12. CASE DestroySets \/ DestroyNotifies \/ DestroyJoins
  BY <1>0, <1>12, SameOwners DEF DestroySets, DestroyNotifies, DestroyJoins
<1>13. CASE UNCHANGED vars
  BY <1>0, <1>13, SameOwners DEF vars
<1>. QED BY NextCases, <1>1, <1>2, <1>3, <1>4, <1>5, <1>6, <1>7, <1>8, <1>9, <1>10, <1>11,
            <1>12, <1>13

\* No task is lost and none runs twice: each accepted task is in the queue once or with one
\* worker, whatever threads push, take and destroy at the same time.
THEOREM TaskOnce == Spec => []EachTaskOnce
<1>1. Init => TypeOK /\ EachTaskOnce
  BY InitIInv DEF IInv
<1>2. TypeOK /\ EachTaskOnce /\ [Next]_vars => (TypeOK /\ EachTaskOnce)'
  BY TypeStep, OnceStep
<1>. QED BY <1>1, <1>2, PTL DEF Spec

-----------------------------------------------------------------------------
\* Steps that leave every running worker running its task, and the destructor where it was.
LEMMA SameIssuers ==
  ASSUME TypeOK, DestroyInv, UNCHANGED dtor,
         \A w \in Workers : loop[w] = "running" => loop'[w] = "running" /\ job'[w] = job[w],
         NEW t \in Tasks, phase[t] = "prepared"
  PROVE  \E th \in Threads : Issues(th, t)'
BY DEF DestroyInv, Issues

LEMMA DestroyStep ==
  ASSUME TypeOK, DestroyInv, [Next]_vars
  PROVE  DestroyInv'
<1> USE PoolAssumption DEF PoolAssumption, poolVars, tokenVars
<1>1. ASSUME NEW th \in Threads, NEW t \in Tasks, Prepare(th, t) PROVE DestroyInv'
  <2>1. /\ phase' = [phase EXCEPT ![t] = "prepared"] /\ Issues(th, t)
        /\ UNCHANGED <<tasks_, stop_, loop, job, dtor>>
    BY <1>1 DEF Prepare, Become
  <2>2. \A u \in Tasks : phase'[u] = "prepared" => \E x \in Threads : Issues(x, u)'
    <3> SUFFICES ASSUME NEW u \in Tasks, phase'[u] = "prepared"
                 PROVE  \E x \in Threads : Issues(x, u)'
      OBVIOUS
    <3>1. CASE u = t
      BY <2>1, <3>1 DEF Issues
    <3>2. CASE u # t
      BY <2>1, <3>2, SameIssuers DEF TypeOK
    <3>. QED BY <3>1, <3>2
  <2>. QED BY <2>1, <2>2 DEF DestroyInv
<1>2. ASSUME NEW th \in Threads, NEW t \in Tasks, Reject(th, t) \/ Push(th, t) PROVE DestroyInv'
  <2>1. \E p \in {"rejected", "queued"} : phase' = [phase EXCEPT ![t] = p]
    BY <1>2 DEF Reject, Push, Become
  <2>2. UNCHANGED <<stop_, loop, job, dtor>> /\ (stop_ => UNCHANGED tasks_)
    BY <1>2 DEF Reject, Push
  <2>3. \A u \in Tasks : phase'[u] = "prepared" => phase[u] = "prepared"
    BY <2>1 DEF TypeOK
  <2>4. \A u \in Tasks : phase'[u] = "prepared" => \E x \in Threads : Issues(x, u)'
    BY <2>2, <2>3, SameIssuers
  <2>. QED BY <2>2, <2>4 DEF DestroyInv
<1>3. ASSUME NEW w \in Workers, Exits(w) PROVE DestroyInv'
  <2>1. /\ tasks_ = <<>> /\ stop_ /\ loop[w] = "ready"
        /\ \A v \in Workers : loop'[v] = IF v = w THEN "exited" ELSE loop[v]
        /\ UNCHANGED <<tasks_, stop_, job, phase, dtor>>
    BY <1>3 DEF Exits, HoldsLock, TypeOK
  <2>2. \A u \in Tasks : phase'[u] = "prepared" => \E x \in Threads : Issues(x, u)'
    BY <2>1, SameIssuers
  <2>. QED BY <2>1, <2>2 DEF DestroyInv
<1>4. ASSUME NEW w \in Workers, Takes(w) \/ Skips(w) \/ Starts(w) PROVE DestroyInv'
  <2>1. PICK s \in {"took", "ready", "running"} : loop' = [loop EXCEPT ![w] = s]
    BY <1>4 DEF Takes, Skips, Starts
  <2>2. loop[w] \in {"ready", "took"}
    BY <1>4 DEF Takes, Skips, Starts, HoldsLock
  <2>3. /\ \A v \in Workers : loop'[v] = IF v = w THEN s ELSE loop[v]
        /\ UNCHANGED <<stop_, dtor>>
    BY <1>4, <2>1 DEF Takes, Skips, Starts, TypeOK
  <2>4. \A v \in Workers : v # w => job'[v] = job[v]
    BY <1>4 DEF Takes, Skips, Starts, TypeOK
  <2>5. tasks_ = <<>> => UNCHANGED tasks_
    BY <1>4 DEF Takes, Skips, Starts
  <2>6. \A u \in Tasks : phase'[u] = "prepared" => phase[u] = "prepared"
    BY <1>4 DEF Takes, Skips, Starts, Become, TypeOK
  <2>7. \A u \in Tasks : phase'[u] = "prepared" => \E x \in Threads : Issues(x, u)'
    BY <2>2, <2>3, <2>4, <2>6, SameIssuers
  <2>. QED BY <2>2, <2>3, <2>5, <2>7 DEF DestroyInv
<1>5. ASSUME NEW w \in Workers, Finishes(w) PROVE DestroyInv'
  <2>1. /\ loop[w] = "running" /\ job[w] \in Tasks /\ ~InCall(w)
        /\ \A v \in Workers : loop'[v] = IF v = w THEN "ready" ELSE loop[v]
        /\ \A v \in Workers : job'[v] = IF v = w THEN NoTask ELSE job[v]
        /\ UNCHANGED <<tasks_, stop_, dtor>>
    BY <1>5 DEF Finishes, TypeOK
  <2>2. \A u \in Tasks : phase'[u] = "prepared" => phase[u] = "prepared"
    BY <1>5 DEF Finishes, Become, TypeOK
  <2>3. \A u \in Tasks : phase'[u] = "prepared" => \E x \in Threads : Issues(x, u)'
    <3> SUFFICES ASSUME NEW u \in Tasks, phase[u] = "prepared"
                 PROVE  \E x \in Threads : Issues(x, u)'
      BY <2>2
    <3>1. PICK x \in Threads : Issues(x, u)
      BY DEF DestroyInv
    <3>2. x # w
      BY <2>1, <3>1 DEF InCall
    <3>. QED BY <2>1, <3>1, <3>2 DEF Issues
  <2>. QED BY <2>1, <2>3 DEF DestroyInv
<1>6. CASE DestroySets
  <2>1. /\ dtor = "alive" /\ stop_' = TRUE /\ dtor' = "stopping"
        /\ \A c \in Clients : ~InCall(c)
        /\ UNCHANGED <<tasks_, loop, job, phase>>
    BY <1>6 DEF DestroySets
  <2>2. \A u \in Tasks : phase'[u] = "prepared" => \E x \in Threads : Issues(x, u)'
    <3> SUFFICES ASSUME NEW u \in Tasks, phase[u] = "prepared"
                 PROVE  \E x \in Threads : Issues(x, u)'
      BY <2>1
    <3>1. PICK x \in Threads : Issues(x, u)
      BY DEF DestroyInv
    <3>2. x \in Workers
      BY <2>1, <3>1 DEF InCall, Threads
    <3>. QED BY <2>1, <3>1, <3>2 DEF Issues
  <2>. QED BY <2>1, <2>2 DEF DestroyInv
<1>7. CASE DestroyNotifies \/ DestroyJoins
  <2>1. /\ dtor \in {"stopping", "joining"} /\ dtor' \in {"joining", "gone"}
        /\ dtor' = "gone" => \A w \in Workers : loop[w] = "exited"
        /\ UNCHANGED <<tasks_, stop_, loop, job, phase>>
    BY <1>7 DEF DestroyNotifies, DestroyJoins
  <2>2. \A u \in Tasks : phase'[u] = "prepared" => \E x \in Threads : Issues(x, u)'
    BY <2>1 DEF DestroyInv, Issues
  <2>. QED BY <2>1, <2>2 DEF DestroyInv
<1>8. ASSUME UNCHANGED <<tasks_, stop_, loop, job, phase, dtor>> PROVE DestroyInv'
  BY <1>8 DEF DestroyInv, Issues
<1>9. ASSUME NEW x, Notify(x) \/ Sleeps(x) \/ WakesSpuriously(x) PROVE DestroyInv'
  BY <1>8, <1>9 DEF Notify, Sleeps, WakesSpuriously
<1>10. ASSUME NEW t \in Tasks, StopCallback(t) \/ Cancel(t) PROVE DestroyInv'
  BY <1>8, <1>10 DEF StopCallback, Cancel
<1>11. CASE StopBegins \/ StopReturns
  BY <1>8, <1>11 DEF StopBegins, StopReturns
<1>12. CASE UNCHANGED vars
  BY <1>8, <1>12 DEF vars
<1>. QED BY NextCases, <1>1, <1>2, <1>3, <1>4, <1>5, <1>6, <1>7, <1>9, <1>10, <1>11, <1>12

\* Once every worker has left nothing is queued, held, or about to be pushed.
LEMMA DrainedFromOwners ==
  ASSUME TypeOK, EachTaskOnce, DestroyInv
  PROVE  DrainedOnExit
<1> USE PoolAssumption DEF PoolAssumption
<1>1. ASSUME dtor = "gone", NEW t \in Tasks
      PROVE  phase[t] \in {"new", "done", "cancelled", "rejected"}
  <2>1. tasks_ = <<>> /\ \A w \in Workers : loop[w] = "exited" /\ job[w] \notin Tasks
    BY <1>1 DEF DestroyInv, TypeOK
  <2>2. phase[t] # "queued"
    BY <2>1 DEF EachTaskOnce
  <2>3. phase[t] \notin {"taken", "running"}
    BY <2>1 DEF EachTaskOnce
  <2>4. phase[t] # "prepared"
    BY <1>1, <2>1 DEF DestroyInv, Issues
  <2>. QED BY <2>2, <2>3, <2>4 DEF TypeOK, Phases
<1>. QED BY <1>1 DEF DrainedOnExit, DestroyInv

\* The destructor resolves every accepted task before it returns, and a worker leaves only an
\* empty queue behind.
THEOREM Drained == Spec => []DrainedOnExit
<1> DEFINE Inv == TypeOK /\ EachTaskOnce /\ DestroyInv
<1>1. Init => Inv
  BY InitIInv DEF IInv
<1>2. Inv /\ [Next]_vars => Inv'
  BY TypeStep, OnceStep, DestroyStep
<1>3. Inv => DrainedOnExit
  BY DrainedFromOwners
<1>. QED BY <1>1, <1>2, <1>3, PTL DEF Spec

-----------------------------------------------------------------------------
LEMMA StopStep ==
  ASSUME TypeOK, EachTaskOnce, StopInv, [Next]_vars
  PROVE  StopInv'
<1> USE PoolAssumption DEF PoolAssumption, poolVars, tokenVars
<1>1. ASSUME NEW th \in Threads, NEW t \in Tasks, Prepare(th, t) PROVE StopInv'
  <2>1. \A u \in Tasks : u # t => phase'[u] = phase[u]
    BY <1>1 DEF Prepare, Become, TypeOK
  <2>2. CASE token = "live"
    BY <1>1, <2>1, <2>2 DEF Prepare, StopInv
  <2>3. CASE token # "live"
    BY <1>1, <2>1, <2>3 DEF Prepare, StopInv
  <2>. QED BY <2>2, <2>3
<1>2. ASSUME NEW th \in Threads, NEW t \in Tasks, Reject(th, t) PROVE StopInv'
  BY <1>2 DEF Reject, Become, StopInv, TypeOK
<1>3. ASSUME NEW th \in Threads, NEW t \in Tasks, Push(th, t) PROVE StopInv'
  <2>1. t \in Cancellable => phase[t] = "prepared"
    BY <1>3 DEF Push, ReadyToPush
  <2>. QED BY <1>3, <2>1 DEF Push, Become, StopInv, TypeOK
<1>4. ASSUME NEW w \in Workers, Takes(w) PROVE StopInv'
  <2>1. Head(tasks_) \in Tasks /\ phase[Head(tasks_)] = "queued"
    <3>1. Len(tasks_) \in Nat \ {0} /\ Head(tasks_) = tasks_[1] /\ 1 \in 1..Len(tasks_)
      BY <1>4 DEF Takes, TypeOK
    <3>. QED BY <3>1 DEF EachTaskOnce, TypeOK
  <2>. QED BY <1>4, <2>1 DEF Takes, Become, StopInv, TypeOK
<1>5. ASSUME NEW w \in Workers, Skips(w) \/ Starts(w) \/ Finishes(w) PROVE StopInv'
  <2>1. job[w] \in Tasks
    BY <1>5 DEF Skips, Starts, Finishes, TypeOK
  <2>2. phase[job[w]] \in {"taken", "running"}
    BY <2>1 DEF EachTaskOnce
  <2>3. \A u \in Tasks : u # job[w] => phase'[u] = phase[u]
    BY <1>5 DEF Skips, Starts, Finishes, Become, TypeOK
  <2>4. UNCHANGED <<token, bridged, stopped>>
    BY <1>5 DEF Skips, Starts, Finishes
  <2>. QED BY <2>2, <2>3, <2>4 DEF StopInv
<1>6. ASSUME NEW t \in Tasks, StopCallback(t) \/ Cancel(t) PROVE StopInv'
  BY <1>6 DEF StopCallback, Cancel, StopInv
<1>7. CASE StopBegins \/ StopReturns
  BY <1>7 DEF StopBegins, StopReturns, StopInv
<1>8. ASSUME UNCHANGED <<phase, token, bridged, stopped>> PROVE StopInv'
  BY <1>8 DEF StopInv
<1>9. ASSUME NEW x, Notify(x) \/ Sleeps(x) \/ Exits(x) \/ WakesSpuriously(x) PROVE StopInv'
  BY <1>8, <1>9 DEF Notify, Sleeps, Exits, WakesSpuriously
<1>10. CASE DestroySets \/ DestroyNotifies \/ DestroyJoins \/ UNCHANGED vars
  BY <1>8, <1>10 DEF DestroySets, DestroyNotifies, DestroyJoins, vars
<1>. QED BY NextCases, <1>1, <1>2, <1>3, <1>4, <1>5, <1>6, <1>7, <1>9, <1>10

\* Only Starts runs a body, and it has just looked at the task's own stop_source.
LEMMA StartsUnstopped ==
  ASSUME TypeOK, EachTaskOnce, StopInv, [Next]_vars,
         NEW t \in Cancellable, token = "stopped" \/ t \in stopped, phase[t] # "running"
  PROVE  phase'[t] # "running"
<1> USE PoolAssumption DEF PoolAssumption, poolVars, tokenVars, TypeOK, Phases
<1>1. ASSUME NEW th \in Threads, NEW u \in Tasks, Prepare(th, u) \/ Reject(th, u) \/ Push(th, u)
      PROVE  phase'[t] # "running"
  BY <1>1 DEF Prepare, Reject, Push, Become
<1>2. ASSUME NEW w \in Workers, Takes(w) \/ Skips(w) \/ Finishes(w)
      PROVE  phase'[t] # "running"
  BY <1>2 DEF Takes, Skips, Finishes, Become
<1>3. ASSUME NEW w \in Workers, Starts(w) PROVE phase'[t] # "running"
  <2>1. job[w] \in Tasks /\ phase' = [phase EXCEPT ![job[w]] = "running"]
    BY <1>3 DEF Starts, Become
  <2>2. phase[job[w]] \in {"taken", "running"}
    BY <2>1 DEF EachTaskOnce
  <2>3. job[w] # t
    BY <1>3, <2>2 DEF Starts, StopInv
  <2>. QED BY <2>1, <2>3
<1>4. ASSUME NEW x, Notify(x) \/ Sleeps(x) \/ Exits(x) \/ WakesSpuriously(x) \/ StopCallback(x) \/ Cancel(x)
      PROVE  phase'[t] # "running"
  BY <1>4 DEF Notify, Sleeps, Exits, WakesSpuriously, StopCallback, Cancel
<1>5. CASE StopBegins \/ StopReturns \/ DestroySets \/ DestroyNotifies \/ DestroyJoins \/ UNCHANGED vars
  BY <1>5 DEF StopBegins, StopReturns, DestroySets, DestroyNotifies, DestroyJoins, vars
<1>. QED BY NextCases, <1>1, <1>2, <1>3, <1>4, <1>5

\* A cancellable task that was stopped, through its token or its Task, before its body began
\* never begins it.
THEOREM Stopped == Spec => StoppedNeverStarts
<1> DEFINE Inv == TypeOK /\ EachTaskOnce /\ StopInv
<1>1. Init => Inv
  BY InitIInv DEF IInv
<1>2. Inv /\ [Next]_vars => Inv'
  BY TypeStep, OnceStep, StopStep
<1>3. Inv /\ [Next]_vars =>
        [\A t \in Cancellable :
           (token = "stopped" \/ t \in stopped) /\ phase[t] # "running" => phase'[t] # "running"]_vars
  BY StartsUnstopped
<1>. QED BY <1>1, <1>2, <1>3, PTL DEF Spec, StoppedNeverStarts

-----------------------------------------------------------------------------
\* Counting in finite sets, as the wakeup argument needs it.
LEMMA Counting ==
  ASSUME NEW S, IsFiniteSet(S)
  PROVE  /\ Cardinality(S) \in Nat
         /\ \A x \in S : IsFiniteSet(S \ {x}) /\ Cardinality(S \ {x}) = Cardinality(S) - 1
         /\ \A x : x \notin S => /\ IsFiniteSet(S \cup {x})
                              /\ Cardinality(S \cup {x}) = Cardinality(S) + 1
         /\ \A R \in SUBSET S : Cardinality(R) <= Cardinality(S)
BY FS_CardinalityType, FS_AddElement, FS_RemoveElement, FS_Subset

LEMMA ReadyFinite == IsFiniteSet(Ready)
BY PoolAssumption, FS_Subset DEF PoolAssumption, Ready

\* Steps that add to the workers awake and leave the rest of the count alone.
LEMMA MoreReady ==
  ASSUME WakeInv, Ready \subseteq Ready', IsFiniteSet(Ready'),
         tasks_ \in Seq(Tasks), UNCHANGED <<tasks_, notifying, stop_, dtor>>, cv_' \subseteq cv_
  PROVE  WakeInv'
<1>1. Cardinality(Ready) \in Nat /\ Cardinality(Ready') \in Nat /\ Cardinality(notifying) \in Nat
  BY ReadyFinite, Counting DEF WakeInv
<1>2. Cardinality(Ready) <= Cardinality(Ready')
  BY Counting
<1>. QED BY <1>1, <1>2 DEF WakeInv, NoLostWakeup

LEMMA WakeStep ==
  ASSUME TypeOK, DestroyInv, WakeInv, [Next]_vars
  PROVE  WakeInv'
<1> USE PoolAssumption DEF PoolAssumption, poolVars, tokenVars
<1>0. IsFiniteSet(Ready')
  BY FS_Subset DEF Ready
<1>a. /\ Cardinality(Ready) \in Nat /\ Cardinality(Ready') \in Nat
      /\ IsFiniteSet(notifying) /\ Cardinality(notifying) \in Nat /\ Len(tasks_) \in Nat
  BY <1>0, ReadyFinite, Counting DEF WakeInv, TypeOK
<1>1. ASSUME NEW th \in Threads, NEW t \in Tasks, Prepare(th, t) \/ Reject(th, t) PROVE WakeInv'
  <2>1. UNCHANGED <<tasks_, notifying, stop_, dtor, cv_, loop>>
    BY <1>1 DEF Prepare, Reject
  <2>2. Ready' = Ready
    BY <2>1 DEF Ready, HoldsLock
  <2>. QED BY <1>0, <2>1, <2>2, MoreReady DEF TypeOK
<1>2. ASSUME NEW th \in Threads, NEW t \in Tasks, Push(th, t) PROVE WakeInv'
  <2>1. /\ tasks_' = Append(tasks_, t) /\ notifying' = notifying \cup {th}
        /\ UNCHANGED <<stop_, dtor, cv_, loop>>
    BY <1>2 DEF Push
  <2>2. th \notin notifying
    BY <1>2 DEF Push, ReadyToPush, InCall
  <2>3. IsFiniteSet(notifying') /\ Cardinality(notifying') = Cardinality(notifying) + 1
    BY <1>a, <2>1, <2>2, Counting
  <2>4. Ready' = Ready
    BY <2>1 DEF Ready, HoldsLock
  <2>5. Len(tasks_') = Len(tasks_) + 1
    BY <2>1 DEF TypeOK
  <2>. QED BY <1>a, <2>1, <2>3, <2>4, <2>5 DEF WakeInv, NoLostWakeup
<1>3. ASSUME NEW th \in Threads, Notify(th) PROVE WakeInv'
  <2>1. /\ th \in notifying /\ notifying' = notifying \ {th} /\ cv_' \in AfterNotifyOne(cv_)
        /\ UNCHANGED <<tasks_, stop_, dtor, loop>>
    BY <1>3 DEF Notify
  <2>2. IsFiniteSet(notifying') /\ Cardinality(notifying') = Cardinality(notifying) - 1
    BY <1>a, <2>1, Counting
  <2>3. CASE cv_ = {}
    BY <2>1, <2>2, <2>3, NotifyOne DEF WakeInv, NoLostWakeup
  <2>4. CASE cv_ # {}
    <3>1. PICK w \in cv_ : cv_' = cv_ \ {w}
      BY <2>1, <2>4, NotifyOne
    <3>2. Ready' = Ready \cup {w} /\ w \notin Ready
      BY <2>1, <3>1 DEF Ready, HoldsLock, TypeOK
    <3>3. Cardinality(Ready') = Cardinality(Ready) + 1
      BY <3>2, ReadyFinite, Counting
    <3>. QED BY <1>a, <2>1, <2>2, <2>4, <3>3 DEF WakeInv, NoLostWakeup
  <2>. QED BY <2>3, <2>4
<1>4. ASSUME NEW w \in Workers, Sleeps(w) PROVE WakeInv'
  <2>1. tasks_' = <<>> /\ ~stop_' /\ UNCHANGED notifying
    BY <1>4 DEF Sleeps
  <2>. QED BY <1>a, <2>1 DEF WakeInv, NoLostWakeup
<1>5. ASSUME NEW w \in Workers, Exits(w) PROVE WakeInv'
  <2>1. tasks_' = <<>> /\ UNCHANGED <<stop_, dtor, cv_, notifying>>
    BY <1>5 DEF Exits
  <2>. QED BY <1>a, <2>1 DEF WakeInv, NoLostWakeup
<1>6. ASSUME NEW w \in Workers, Takes(w) PROVE WakeInv'
  <2>1. /\ tasks_ # <<>> /\ tasks_' = Tail(tasks_) /\ HoldsLock(w)
        /\ UNCHANGED <<stop_, dtor, cv_, notifying>>
    BY <1>6 DEF Takes
  <2>2. Len(tasks_') = Len(tasks_) - 1
    BY <2>1 DEF TypeOK
  <2>3. \A v \in Workers : loop'[v] = IF v = w THEN "took" ELSE loop[v]
    BY <1>6 DEF Takes, TypeOK
  <2>4. w \in Ready /\ Ready' = Ready \ {w}
    BY <2>1, <2>3 DEF Ready, HoldsLock
  <2>5. Cardinality(Ready') = Cardinality(Ready) - 1
    BY <2>4, ReadyFinite, Counting
  <2>. QED BY <1>a, <2>1, <2>2, <2>5 DEF WakeInv, NoLostWakeup
<1>7. ASSUME NEW w \in Workers, Skips(w) \/ Starts(w) \/ Finishes(w) PROVE WakeInv'
  <2>1. UNCHANGED <<tasks_, notifying, stop_, dtor, cv_>> /\ loop[w] \in {"took", "running"}
    BY <1>7 DEF Skips, Starts, Finishes
  <2>2. \A v \in Workers : v # w => loop'[v] = loop[v]
    BY <1>7 DEF Skips, Starts, Finishes, TypeOK
  <2>3. Ready \subseteq Ready'
    BY <2>1, <2>2 DEF Ready, HoldsLock
  <2>. QED BY <1>0, <2>1, <2>3, MoreReady DEF TypeOK
<1>8. ASSUME NEW w \in Workers, WakesSpuriously(w) PROVE WakeInv'
  <2>1. cv_' \subseteq cv_ /\ UNCHANGED <<tasks_, notifying, stop_, dtor, loop>>
    BY <1>8 DEF WakesSpuriously
  <2>2. Ready \subseteq Ready'
    BY <2>1 DEF Ready, HoldsLock
  <2>. QED BY <1>0, <2>1, <2>2, MoreReady DEF TypeOK
<1>9. ASSUME UNCHANGED <<tasks_, cv_, loop, notifying>>, cv_ # {} /\ stop_' => dtor' = "stopping"
      PROVE  WakeInv'
  <2>1. Ready' = Ready
    BY <1>9 DEF Ready, HoldsLock
  <2>. QED BY <1>9, <2>1 DEF WakeInv, NoLostWakeup
<1>10. ASSUME NEW t \in Tasks, StopCallback(t) \/ Cancel(t) PROVE WakeInv'
  BY <1>9, <1>10 DEF StopCallback, Cancel, WakeInv, NoLostWakeup
<1>11. CASE StopBegins \/ StopReturns \/ UNCHANGED vars
  BY <1>9, <1>11 DEF StopBegins, StopReturns, vars, WakeInv, NoLostWakeup
<1>12. CASE DestroySets
  BY <1>9, <1>12 DEF DestroySets
<1>13. CASE DestroyNotifies
  BY <1>13 DEF DestroyNotifies, WakeInv, NoLostWakeup
<1>14. CASE DestroyJoins
  <2>1. cv_ = {}
    BY <1>14 DEF DestroyJoins, DestroyInv, WakeInv, NoLostWakeup
  <2>. QED BY <1>9, <1>14, <2>1 DEF DestroyJoins
<1>. QED BY NextCases, <1>1, <1>2, <1>3, <1>4, <1>5, <1>6, <1>7, <1>8, <1>10, <1>11, <1>12,
            <1>13, <1>14

\* The layers together are inductive.
THEOREM Inductive == Spec => []IInv
<1>1. IInv /\ [Next]_vars => IInv'
  BY TypeStep, OnceStep, DestroyStep, StopStep, WakeStep DEF IInv
<1>. QED BY InitIInv, <1>1, PTL DEF Spec

\* No wakeup is lost: while a worker sleeps, every queued task has a worker awake for it or a
\* notify_one on its way, and nobody sleeps once the destructor has notified.
THEOREM Wakeup == Spec => []NoLostWakeup
<1>1. IInv => NoLostWakeup
  BY DEF IInv, WakeInv
<1>. QED BY Inductive, <1>1, PTL
=============================================================================
