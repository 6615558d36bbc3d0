------------------------------- MODULE Futures -------------------------------
(***************************************************************************)
(* The combinators over plain futures, which have no stop_source:          *)
(* async_map, async_sequence, race, timeout and retry over AsyncResult,    *)
(* Async::then and Async::and_then; and the retry that takes a token and   *)
(* makes a Task.  Their nodes stand in the same expressions as those of    *)
(* Tasks.                                                                  *)
(*                                                                         *)
(* race, timeout and retry leave detached threads behind: a promise they   *)
(* share is set once, and broken if all of them go without setting it.     *)
(***************************************************************************)
EXTENDS Tasks

Timer == 0

\* std::async starts the callable at once.
CreateFuture(t) ==
  /\ MayCreate(t)
  /\ Kind(t) \in {"async", "map", "sequence", "async_then", "async_and_then", "first", "deadline", "again"}
  /\ Moves(t, IF Kind(t) = "async" THEN "body" ELSE "created")
  /\ waiting' = waiting \cup CASE Kind(t) = "first"    -> {t} \X Inputs(t)
                              [] Kind(t) = "deadline" -> {t} \X (Inputs(t) \cup {Timer})
                              [] OTHER                -> {}
  /\ UNCHANGED <<graph, stops, winner, cancels, crashed, tries>>

\* async_map passes an error on; Async::then has none to look at.
MapGets(t) == /\ Kind(t) \in {"map", "async_then"} /\ stage[t] = "created" /\ Resolved(Up(t))
              /\ IF Threw(Up(t)) THEN Ends(t, "thrown")
                 ELSE IF Kind(t) = "map" /\ result[Up(t)] # "ok" THEN Ends(t, result[Up(t)])
                 ELSE Moves(t, "body")
              /\ UNCHANGED <<graph, stops, detached, tries>>

\* Async::and_then: the continuation makes a future and the thread waits for it as well.
AsyncAndThenGets(t) == /\ Kind(t) = "async_and_then" /\ stage[t] = "created" /\ Resolved(Up(t))
                       /\ IF Threw(Up(t)) THEN Ends(t, "thrown") ELSE Moves(t, "body")
                       /\ UNCHANGED <<graph, stops, detached, tries>>

AsyncInnerReturns(t) == /\ Kind(t) = "async_and_then" /\ stage[t] = "body" /\ Resolved(graph[t].inner)
                        /\ Ends(t, Got(graph[t].inner))
                        /\ UNCHANGED <<graph, stops, detached, tries>>

\* Mutant: async_sequence answers with any error it meets, not with the first.
SequenceReturnsAny(t) ==
  /\ Kind(t) = "sequence" /\ stage[t] = "created"
  /\ \/ /\ \A c \in Inputs(t) : result[c] = "ok"
        /\ Ends(t, "ok")
     \/ \E i \in DOMAIN Of(t) :
          /\ result[Of(t)[i]] \notin {Pending, "ok"}
          /\ Ends(t, Got(Of(t)[i]))
  /\ UNCHANGED <<graph, stops, detached, tries>>

\* async_sequence waits in order, up to the first that failed.
SequenceReturns(t) ==
  /\ Kind(t) = "sequence" /\ stage[t] = "created"
  /\ \/ /\ \A c \in Inputs(t) : result[c] = "ok"
        /\ Ends(t, "ok")
     \/ \E i \in DOMAIN Of(t) :
          /\ \A j \in 1 .. i - 1 : result[Of(t)[j]] = "ok"
          /\ result[Of(t)[i]] \notin {Pending, "ok"}
          /\ Ends(t, Got(Of(t)[i]))
  /\ UNCHANGED <<graph, stops, detached, tries>>

-----------------------------------------------------------------------------
Leaves(r, c) == waiting' = waiting \ {<<r, c>>}

\* race over AsyncResult: a contestant that threw leaves without a word.
FirstFinishes(r, c) ==
  /\ Kind(r) = "first" /\ <<r, c>> \in waiting /\ Resolved(c) /\ winner[r] # c
  /\ IF ~Threw(c) /\ winner[r] = 0
     THEN winner' = [winner EXCEPT ![r] = c] /\ UNCHANGED waiting
     ELSE Leaves(r, c) /\ UNCHANGED winner
  /\ UNCHANGED <<graph, stage, result, stops, cancels, crashed, tries>>

FirstSets(r) == /\ Kind(r) = "first" /\ winner[r] # 0 /\ ~Resolved(r)
                /\ Ends(r, result[winner[r]])
                /\ Leaves(r, winner[r])
                /\ UNCHANGED <<graph, stops, winner, cancels, crashed, tries>>

\* Nobody is left who could set the promise.
PromiseBreaks(r) == /\ Kind(r) = "first" /\ Exists(r) /\ winner[r] = 0 /\ ~Resolved(r)
                    /\ \A c \in Inputs(r) : <<r, c>> \notin waiting
                    /\ Ends(r, "broken")
                    /\ UNCHANGED <<graph, stops, detached, tries>>

\* timeout over AsyncResult: two detached threads, and whoever is second is ignored.
AnswerArrives(t) ==
  /\ Kind(t) = "deadline" /\ <<t, Up(t)>> \in waiting /\ Resolved(Up(t))
  /\ IF Resolved(t) \/ Threw(Up(t)) THEN UNCHANGED <<stage, result>> ELSE Ends(t, result[Up(t)])
  /\ Leaves(t, Up(t))
  /\ UNCHANGED <<graph, stops, winner, cancels, crashed, tries>>

\* Mutant: the timer overwrites an answer that came first.
TimerOverwrites(t) == /\ Kind(t) = "deadline" /\ <<t, Timer>> \in waiting
                      /\ Ends(t, "timeout")
                      /\ Leaves(t, Timer)
                      /\ UNCHANGED <<graph, stops, winner, cancels, crashed, tries>>

TimerFires(t) == /\ Kind(t) = "deadline" /\ <<t, Timer>> \in waiting
                 /\ IF Resolved(t) THEN UNCHANGED <<stage, result>> ELSE Ends(t, "timeout")
                 /\ Leaves(t, Timer)
                 /\ UNCHANGED <<graph, stops, winner, cancels, crashed, tries>>

-----------------------------------------------------------------------------
\* retry, detached ("again") or with a token ("retry"): the head of the loop.
RetryBegins(t) ==
  /\ Kind(t) \in {"retry", "again"} /\ stage[t] = "created"
  /\ IF Kind(t) = "retry" /\ Stopped(t) THEN Ends(t, "cancelled")
     ELSE Moves(t, IF tries[t] < Attempts THEN "attempt" ELSE "exhausted")
  /\ UNCHANGED <<graph, stops, detached, tries>>

\* make().get(): a success ends the loop, so does the last failure, another one backs off.
RetryAttempts(t) ==
  /\ Kind(t) \in {"retry", "again"} /\ stage[t] = "attempt"
  /\ tries' = [tries EXCEPT ![t] = @ + 1]
  /\ \E e \in graph[t].ends \ {"thrown"} :
       /\ MayEnd(t, e)
       /\ IF e = "ok" THEN Ends(t, "ok")
          ELSE Moves(t, IF tries[t] + 1 = Attempts THEN "exhausted" ELSE "backoff")
  /\ UNCHANGED <<graph, stops, detached>>

\* The wait ends with the delay, or with a stop.
RetryWakes(t) == /\ stage[t] = "backoff"
                 /\ Moves(t, "created")
                 /\ UNCHANGED <<graph, stops, detached, tries>>

RetryGivesUp(t) ==
  /\ stage[t] = "exhausted"
  /\ Ends(t, IF Kind(t) = "retry" /\ Stopped(t) THEN "cancelled" ELSE "exhausted")
  /\ UNCHANGED <<graph, stops, detached, tries>>

\* An exception of make: kept by the future of the one, out of the detached thread of the other.
RetryThrows(t) ==
  /\ Kind(t) \in {"retry", "again"} /\ stage[t] = "attempt" /\ "thrown" \in graph[t].ends
  /\ IF Kind(t) = "retry" THEN Ends(t, "thrown") /\ UNCHANGED crashed
                          ELSE crashed' = TRUE /\ UNCHANGED <<stage, result>>
  /\ UNCHANGED <<graph, stops, waiting, winner, cancels, tries>>

-----------------------------------------------------------------------------
FutureStep(t) ==
  /\ ~crashed
  /\ \/ MapGets(t) \/ AsyncAndThenGets(t) \/ AsyncInnerReturns(t) \/ SequenceReturns(t)
     \/ FirstSets(t) \/ PromiseBreaks(t)
     \/ RetryBegins(t) \/ RetryAttempts(t) \/ RetryWakes(t) \/ RetryGivesUp(t) \/ RetryThrows(t)

DetachedStep(t) == /\ ~crashed
                   /\ \/ \E c \in Inputs(t) : FirstFinishes(t, c)
                      \/ AnswerArrives(t) \/ TimerFires(t)

NodeStep(t) == TaskStep(t) \/ RaceStep(t) \/ FutureStep(t) \/ DetachedStep(t)

Create(t) == ~crashed /\ (CreateTask(t) \/ CreateRace(t) \/ CreateFuture(t))
Stop      == ~crashed /\ \E s \in Nodes \cup {Token} : RequestStop(s)
Callback  == ~crashed /\ \E c \in callbacks : RunCallback(c)

Next == \/ \E t \in Nodes : Create(t) \/ NodeStep(t)
        \/ Stop \/ Callback

\* Every thread that is not blocked is scheduled, a deadline passes, callables return (one that
\* polls its token: once it is stopped), request_stop runs its callbacks.  Nobody has to cancel,
\* and the program need not build its next node; a continuation builds the task it returns.
\* The threads of one node take finitely many steps, so fairness of the node is fair to each.
Fairness == /\ \A t \in 1 .. MaxNodes : /\ WF_vars(t \in Nodes /\ NodeStep(t))
                                        /\ WF_vars(t \in Nodes /\ IsInner(t) /\ Create(t))
            /\ WF_vars(Callback)

Spec == Init /\ [][Next]_vars /\ Fairness

-----------------------------------------------------------------------------
Results == {Pending, "ok", "error", "cancelled", "thrown", "timeout", "exhausted", "broken"}

\* A continuation whose chain is stopped while the task before it still runs never runs.
SkippedWhenStopped ==
  \A t \in 1 .. MaxNodes :
    [](t \in Nodes /\ Continues(t) /\ Stopped(t) /\ ~Resolved(Up(t)) => [](t \in Nodes => stage[t] # "body"))

\* Who has the result of a race can rely on it that every contestant has been cancelled, its
\* whole chain with it; who has a timeout, that the task that was too late has.
LosersCancelled ==
  \A r \in Nodes : Resolved(r) =>
    /\ Kind(r) = "race" => \A c \in Inputs(r) : Stopped(c)
    /\ Kind(r) = "timeout" /\ result[r] = "timeout" /\ result[Up(r)] # "timeout" => Stopped(Up(r))

\* Index of the first input of t that failed.
FirstFailed(t) == CHOOSE i \in DOMAIN Of(t) :
                    result[Of(t)[i]] # "ok" /\ \A j \in 1 .. i - 1 : result[Of(t)[j]] = "ok"

\* What a combinator answers comes from what it combines: a sequence fails as the first of its
\* futures that failed; a race answers as a contestant that finished, and its promise breaks only
\* if none did; a deadline answers as its future or with a timeout, with nothing else if the
\* future threw; a retry gives up after all its attempts; nothing is cancelled unasked.
AnswersComeFromInputs ==
  \A t \in Nodes : Resolved(t) =>
    /\ Kind(t) = "sequence" => IF \A c \in Inputs(t) : result[c] = "ok" THEN result[t] = "ok"
                               ELSE result[t] = Got(Of(t)[FirstFailed(t)])
    /\ Kind(t) \in {"race", "first"} /\ winner[t] # 0 => result[t] = result[winner[t]]
    /\ Kind(t) = "first" /\ winner[t] = 0 => result[t] = "broken" /\ \A c \in Inputs(t) : Threw(c)
    /\ Kind(t) \in {"timeout", "deadline"} => result[t] \in {"timeout", Got(Up(t))}
    /\ Kind(t) = "deadline" => ~Threw(t)
    /\ Kind(t) \in {"retry", "again"} /\ result[t] = "exhausted" => tries[t] = Attempts
    /\ result[t] = "cancelled" => stopped # {}

\* A promise shared by detached threads is set once: a late answer, or a timer that fires after
\* the answer, changes nothing, and who asks a shared future twice gets the same answer.
SetOnce == [][\A t \in Nodes : Resolved(t) => result'[t] = result[t]]_vars

\* A stopped task resolves, also through the inner task of an and_then, the contestants of a
\* race and the waits of a retry, if its callables look at their token or return; and so does
\* whoever has a deadline, whatever happens to the task.  Unless the program was terminated.
StoppedResolves ==
  \A t \in 1 .. MaxNodes :
    (t \in Nodes /\ Exists(t) /\ (Stopped(t) \/ Kind(t) \in {"timeout", "deadline"}))
      ~> (crashed \/ (t \in Nodes /\ Resolved(t)))
=============================================================================
