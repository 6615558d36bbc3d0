-------------------------------- MODULE Tasks --------------------------------
(***************************************************************************)
(* fp::Task: a shared future and a stop_source.  A program builds an       *)
(* expression out of producers (async_task), then, and_then, recover,      *)
(* timeout, race and join; each node runs on a thread of its own and waits *)
(* for the nodes it was built from.  All the nodes of a chain share the    *)
(* stop_source of its producer; a race has its own.                        *)
(*                                                                         *)
(* An expression is a graph from 1..n to nodes, in the order in which the  *)
(* program builds them.  A node is a record: its kind, the nodes it is     *)
(* built from (of), the task its continuation returns (inner, and_then     *)
(* only), the node that owns its stop_source, whether it was given the     *)
(* caller's token, and the ways its callable may end (ends).               *)
(*                                                                         *)
(* request_stop sets the flag of a source and then runs the callbacks that *)
(* are registered with it, one by one: a callback stops other sources.  It *)
(* returns when all have run; here its caller may go on earlier.           *)
(***************************************************************************)
EXTENDS Naturals, Sequences, FiniteSets, Functions

CONSTANTS Graphs,    \* the expressions that are built
          Token,     \* the caller's stop_token, one more source
          Attempts,  \* how many attempts a retry makes
          MaxNodes   \* no expression has more nodes

Unary  == {"then", "and_then", "recover", "timeout", "map", "async_then", "async_and_then", "deadline"}
Nested == {"and_then", "async_and_then"}

\* A combinator of one task is built from one, the task a continuation returns is a node of the
\* expression too, and timeout() hands its own chain's stop_source on to the task it makes.
ASSUME TasksAssumption ==
  /\ Attempts \in Nat /\ MaxNodes \in Nat
  /\ \A g \in Graphs :
       /\ DOMAIN g \subseteq 1 .. MaxNodes
       /\ \A t \in DOMAIN g :
            /\ g[t].of \in Seq(DOMAIN g)
            /\ g[t].kind \in Unary => Len(g[t].of) = 1
            /\ g[t].kind \in Nested => g[t].inner \in DOMAIN g
            /\ g[t].kind = "timeout" => g[t].source = g[g[t].of[1]].source
            /\ g[t].ends \subseteq {"ok", "error", "cancelled", "thrown"}

VARIABLES graph,
          stage,      \* how far the thread of each node is
          result,     \* what its future holds
          stopped,    \* the sources whose request_stop was called
          callbacks,  \* the pairs <<s, d>>: stopping s is still to stop d
          waiting,    \* <<r, c>>: a detached thread of r that waits for c
          winner,     \* the contestant that set the flag of a race, 0 before
          cancels,    \* how many contestants the winner has cancelled
          tries,      \* how many attempts a retry has made
          crashed     \* std::terminate: an exception left a detached thread

stops    == <<stopped, callbacks>>
detached == <<waiting, winner, cancels, crashed>>
vars     == <<graph, stage, result, stops, detached, tries>>

Nodes     == DOMAIN graph
Kind(t)   == graph[t].kind
Of(t)     == graph[t].of
Up(t)     == Of(t)[1]
Inputs(t) == Range(Of(t))
Source(t) == graph[t].source

Pending == "pending"
Exists(t)   == stage[t] # "none"
Resolved(t) == result[t] # Pending
Stopped(t)  == Source(t) \in stopped
Threw(t)    == result[t] \in {"thrown", "broken"}   \* get() throws

Got(c)      == IF Threw(c) THEN "thrown" ELSE result[c]     \* what its get() gives a thread

Ends(t, r)  == stage' = [stage EXCEPT ![t] = "done"] /\ result' = [result EXCEPT ![t] = r]
Moves(t, s) == stage' = [stage EXCEPT ![t] = s] /\ UNCHANGED result
Sets(t, r)  == result' = [result EXCEPT ![t] = r] /\ UNCHANGED stage

\* A stop_callback on s that stops the sources D; on a stopped source it runs at once.
Bridge(s, D) == IF s \in stopped THEN stopped' = stopped \cup D /\ UNCHANGED callbacks
                                 ELSE callbacks' = callbacks \cup ({s} \X D) /\ UNCHANGED stopped

-----------------------------------------------------------------------------
Init == /\ graph \in Graphs
        /\ stage = [t \in Nodes |-> "none"]
        /\ result = [t \in Nodes |-> Pending]
        /\ stopped = {} /\ callbacks = {}
        /\ waiting = {}
        /\ winner = [t \in Nodes |-> 0]
        /\ cancels = [t \in Nodes |-> 0]
        /\ tries = [t \in Nodes |-> 0]
        /\ crashed = FALSE

\* The program builds the nodes in order; a continuation of and_then builds its inner task.
IsInner(t) == \E p \in Nodes : graph[p].inner = t
MayCreate(t) == /\ ~Exists(t)
                /\ IF IsInner(t) THEN \E p \in Nodes : graph[p].inner = t /\ stage[p] = "body"
                                 ELSE \A u \in Nodes : u < t => IsInner(u) \/ Exists(u)

\* async_task, with or without a token, and the nodes that only wait for others.
CreateTask(t) ==
  /\ MayCreate(t) /\ Kind(t) \in {"producer", "then", "and_then", "recover", "timeout", "join", "retry"}
  /\ Moves(t, "created")
  /\ IF graph[t].token THEN Bridge(Token, {t}) ELSE UNCHANGED stops
  /\ UNCHANGED <<graph, detached, tries>>

\* race: a stop of the race stops the contestants, and a detached thread waits for each.
CreateRace(t) ==
  /\ MayCreate(t) /\ Kind(t) = "race"
  /\ Moves(t, "created")
  /\ Bridge(t, {Source(c) : c \in Inputs(t)})
  /\ waiting' = waiting \cup ({t} \X Inputs(t))
  /\ UNCHANGED <<graph, winner, cancels, crashed, tries>>

\* Somebody calls cancel() on a Task, or the caller's token is stopped (also by cancel_after).
RequestStop(s) == /\ s \notin stopped
                  /\ s # Token => Exists(s) /\ Source(s) = s
                  /\ stopped' = stopped \cup {s}
                  /\ UNCHANGED <<graph, stage, result, callbacks, detached, tries>>

RunCallback(c) == /\ c[1] \in stopped
                  /\ callbacks' = callbacks \ {c}
                  /\ stopped' = stopped \cup {c[2]}
                  /\ UNCHANGED <<graph, stage, result, detached, tries>>

-----------------------------------------------------------------------------
\* async_task: the source is looked at before the callable runs.
ProducerSkips(t) == /\ Kind(t) = "producer" /\ stage[t] = "created"
                    /\ Stopped(t)
                    /\ Ends(t, "cancelled")
                    /\ UNCHANGED <<graph, stops, detached, tries>>

ProducerStarts(t) == /\ Kind(t) = "producer" /\ stage[t] = "created"
                     /\ ~Stopped(t)
                     /\ Moves(t, "body")
                     /\ UNCHANGED <<graph, stops, detached, tries>>

\* The callable of a node returns or throws; one that polls its token ends when it is stopped.
MayEnd(t, e) == e \in graph[t].ends /\ (e = "cancelled" => Stopped(t))
BodyEnds(t) == /\ stage[t] = "body" /\ Kind(t) \in {"producer", "then", "recover", "async", "map", "async_then"}
               /\ \E e \in graph[t].ends : MayEnd(t, e) /\ Ends(t, e)
               /\ UNCHANGED <<graph, stops, detached, tries>>

\* then and and_then: skipped before the wait if the chain is already stopped ...
Continues(t) == Kind(t) \in {"then", "and_then"}

ContinuationSkips(t) == /\ Continues(t) /\ stage[t] = "created"
                        /\ Stopped(t)
                        /\ Ends(t, "cancelled")
                        /\ UNCHANGED <<graph, stops, detached, tries>>

ContinuationWaits(t) == /\ Continues(t) /\ stage[t] = "created"
                        /\ ~Stopped(t)
                        /\ Moves(t, "waiting")
                        /\ UNCHANGED <<graph, stops, detached, tries>>

\* Mutant: the chain is not looked at again after the wait.
ContinuationGetsUnchecked(t) ==
  /\ Continues(t) /\ stage[t] = "waiting" /\ Resolved(Up(t))
  /\ IF result[Up(t)] = "ok" THEN Moves(t, "body")
                             ELSE Ends(t, Got(Up(t)))
  /\ UNCHANGED <<graph, stops, detached, tries>>

\* ... and after it: an exception passes, then a stop, then an error.
ContinuationGets(t) ==
  /\ Continues(t) /\ stage[t] = "waiting" /\ Resolved(Up(t))
  /\ \/ Threw(Up(t)) /\ Ends(t, "thrown")
     \/ ~Threw(Up(t)) /\ Stopped(t) /\ Ends(t, "cancelled")
     \/ ~Threw(Up(t)) /\ ~Stopped(t) /\ result[Up(t)] # "ok" /\ Ends(t, result[Up(t)])
     \/ ~Stopped(t) /\ result[Up(t)] = "ok" /\ Moves(t, "body")
  /\ UNCHANGED <<graph, stops, detached, tries>>

\* Mutant: the chain's source is linked to the inner one only if it is not stopped yet.
InnerBridgesLate(t) ==
  /\ Kind(t) = "and_then" /\ stage[t] = "body" /\ Exists(graph[t].inner)
  /\ Moves(t, "inner")
  /\ IF Stopped(t) THEN UNCHANGED stops ELSE Bridge(Source(t), {Source(graph[t].inner)})
  /\ UNCHANGED <<graph, detached, tries>>

\* The continuation of and_then returned its task, and a stop of the chain now stops it too.
InnerBridges(t) ==
  /\ Kind(t) = "and_then" /\ stage[t] = "body" /\ Exists(graph[t].inner)
  /\ Moves(t, "inner")
  /\ Bridge(Source(t), {Source(graph[t].inner)})
  /\ UNCHANGED <<graph, detached, tries>>

InnerThrows(t) == /\ Kind(t) \in {"and_then", "async_and_then"} /\ stage[t] = "body" /\ ~Exists(graph[t].inner)
                  /\ "thrown" \in graph[t].ends
                  /\ Ends(t, "thrown")
                  /\ UNCHANGED <<graph, stops, detached, tries>>

InnerReturns(t) == /\ Kind(t) = "and_then" /\ stage[t] = "inner" /\ Resolved(graph[t].inner)
                   /\ Ends(t, Got(graph[t].inner))
                   /\ callbacks' = callbacks \ {<<Source(t), Source(graph[t].inner)>>}
                   /\ UNCHANGED <<graph, stopped, detached, tries>>

\* recover looks at no token: an error becomes a value, an exception does not.
RecoverGets(t) == /\ Kind(t) = "recover" /\ stage[t] = "created" /\ Resolved(Up(t))
                  /\ IF result[Up(t)] = "ok" THEN Ends(t, "ok")
                     ELSE IF Threw(Up(t)) THEN Ends(t, "thrown") ELSE Moves(t, "body")
                  /\ UNCHANGED <<graph, stops, detached, tries>>

\* join waits for its tasks in order and keeps their errors; get() may throw.
JoinReturns(t) ==
  /\ Kind(t) = "join" /\ stage[t] = "created"
  /\ \/ /\ \A c \in Inputs(t) : Resolved(c) /\ ~Threw(c)
        /\ Ends(t, "ok")
     \/ /\ \E i \in DOMAIN Of(t) : Threw(Of(t)[i]) /\ \A j \in 1 .. i : Resolved(Of(t)[j])
        /\ Ends(t, "thrown")
  /\ UNCHANGED <<graph, stops, detached, tries>>

-----------------------------------------------------------------------------
\* timeout: the answer if it is there at the deadline, else the chain is cancelled.
TimeoutGets(t) == /\ Kind(t) = "timeout" /\ stage[t] = "created" /\ Resolved(Up(t))
                  /\ Ends(t, Got(Up(t)))
                  /\ UNCHANGED <<graph, stops, detached, tries>>

TimeoutExpires(t) == /\ Kind(t) = "timeout" /\ stage[t] = "created" /\ ~Resolved(Up(t))
                     /\ Moves(t, "expired")
                     /\ UNCHANGED <<graph, stops, detached, tries>>

TimeoutCancels(t) == /\ Kind(t) = "timeout" /\ stage[t] = "expired"
                     /\ stopped' = stopped \cup {Source(t)}
                     /\ Moves(t, "cancelled")
                     /\ UNCHANGED <<graph, callbacks, detached, tries>>

TimeoutReturns(t) == /\ Kind(t) = "timeout" /\ stage[t] = "cancelled"
                     /\ Ends(t, "timeout")
                     /\ UNCHANGED <<graph, stops, detached, tries>>

\* A race of nobody has an answer at once.
EmptyRaceReturns(r) == /\ Kind(r) = "race" /\ stage[r] = "created" /\ Of(r) = <<>>
                       /\ Ends(r, "error")
                       /\ UNCHANGED <<graph, stops, detached, tries>>

\* race: the first of the detached threads whose contestant finished sets the flag.
ContestantWins(r, c) == /\ Kind(r) = "race" /\ <<r, c>> \in waiting /\ Resolved(c)
                        /\ ~Threw(c) /\ winner[r] = 0
                        /\ winner' = [winner EXCEPT ![r] = c]
                        /\ UNCHANGED <<graph, stage, result, stops, waiting, cancels, crashed, tries>>

ContestantLoses(r, c) == /\ Kind(r) = "race" /\ <<r, c>> \in waiting /\ Resolved(c)
                         /\ ~Threw(c) /\ winner[r] \notin {0, c}
                         /\ waiting' = waiting \ {<<r, c>>}
                         /\ UNCHANGED <<graph, stage, result, stops, winner, cancels, crashed, tries>>

\* Nothing catches what get() throws in a detached thread.
ContestantThrows(r, c) == /\ Kind(r) = "race" /\ <<r, c>> \in waiting /\ Threw(c)
                          /\ crashed' = TRUE
                          /\ UNCHANGED <<graph, stage, result, stops, waiting, winner, cancels, tries>>

WinnerCancels(r) == /\ Kind(r) = "race" /\ winner[r] # 0 /\ cancels[r] < Len(Of(r))
                    /\ cancels' = [cancels EXCEPT ![r] = @ + 1]
                    /\ stopped' = stopped \cup {Source(Of(r)[cancels[r] + 1])}
                    /\ UNCHANGED <<graph, stage, result, callbacks, waiting, winner, crashed, tries>>

\* Mutant: the result is published before the losers are cancelled.
WinnerSetsFirst(r) == /\ Kind(r) = "race" /\ winner[r] # 0 /\ ~Resolved(r)
                      /\ Ends(r, result[winner[r]])
                      /\ waiting' = waiting \ {<<r, winner[r]>>}
                      /\ UNCHANGED <<graph, stops, winner, cancels, crashed, tries>>

WinnerSets(r) == /\ Kind(r) = "race" /\ winner[r] # 0 /\ cancels[r] = Len(Of(r)) /\ ~Resolved(r)
                 /\ Ends(r, result[winner[r]])
                 /\ waiting' = waiting \ {<<r, winner[r]>>}
                 /\ UNCHANGED <<graph, stops, winner, cancels, crashed, tries>>

\* The last detached thread takes the callback with it, unless it is running.
RaceUnbridges(r) == LET links == {r} \X {Source(c) : c \in Inputs(r)} IN
                    /\ Kind(r) = "race" /\ Resolved(r)
                    /\ \A c \in Inputs(r) : <<r, c>> \notin waiting
                    /\ links # {} /\ links \subseteq callbacks
                    /\ callbacks' = callbacks \ links
                    /\ UNCHANGED <<graph, stage, result, stopped, detached, tries>>

-----------------------------------------------------------------------------
TaskStep(t) == /\ ~crashed
               /\ \/ ProducerSkips(t) \/ ProducerStarts(t) \/ BodyEnds(t)
                  \/ ContinuationSkips(t) \/ ContinuationWaits(t) \/ ContinuationGets(t)
                  \/ InnerBridges(t) \/ InnerThrows(t) \/ InnerReturns(t)
                  \/ RecoverGets(t) \/ JoinReturns(t)
                  \/ TimeoutGets(t) \/ TimeoutExpires(t) \/ TimeoutCancels(t) \/ TimeoutReturns(t)

RaceStep(r) == /\ ~crashed
               /\ \/ \E c \in Inputs(r) : ContestantWins(r, c) \/ ContestantLoses(r, c) \/ ContestantThrows(r, c)
                  \/ WinnerCancels(r) \/ WinnerSets(r) \/ RaceUnbridges(r) \/ EmptyRaceReturns(r)
=============================================================================
