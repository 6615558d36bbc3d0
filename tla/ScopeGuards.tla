------------------------------- MODULE ScopeGuards -------------------------------
(***************************************************************************)
(* defer and scope_exit, scope_success and scope_fail.  A guard remembers  *)
(* how many exceptions were in flight when it was made and compares when   *)
(* its scope ends; it may be released or moved.                            *)
(*                                                                         *)
(* The scopes of a thread are a stack.  A scope that an exception leaves   *)
(* is unwinding while its guard runs, and the cleanup may open scopes of   *)
(* its own on top; an exception of those is caught before the cleanup      *)
(* ends, since the destructor is noexcept.                                 *)
(***************************************************************************)
EXTENDS Naturals, Sequences, SequencesExt

CONSTANTS MaxScopes

VARIABLES scopes,    \* [kind, count, active_, unwinding], innermost last
          uncaught,  \* std::uncaught_exceptions()
          ended      \* how the last guard that was destroyed went: [kind, active, thrown, ran]

vars == <<scopes, uncaught, ended>>

GuardKinds == {"exit", "success", "fail"}
Nobody == [kind |-> "exit", active |-> FALSE, thrown |-> FALSE, ran |-> FALSE]

Top == Last(scopes)

Init == scopes = <<>> /\ uncaught = 0 /\ ended = Nobody

Open(kind) == /\ Len(scopes) < MaxScopes
              /\ scopes' = Append(scopes, [kind |-> kind, count |-> uncaught,
                                           active_ |-> TRUE, unwinding |-> FALSE])
              /\ UNCHANGED <<uncaught, ended>>

\* Mutant: scope_fail asks whether any exception is in flight.
RunsIfAny(g) == CASE g.kind = "exit"    -> TRUE
                  [] g.kind = "success" -> uncaught = g.count
                  [] g.kind = "fail"    -> uncaught > 0

\* The callable that the guard holds.
Runs(g) == CASE g.kind = "exit"    -> TRUE
             [] g.kind = "success" -> uncaught = g.count
             [] g.kind = "fail"    -> uncaught > g.count

Release == /\ scopes # <<>> /\ ~Top.unwinding
           /\ scopes' = [scopes EXCEPT ![Len(scopes)].active_ = FALSE]
           /\ UNCHANGED <<uncaught, ended>>

\* The move constructor, when a guard is returned: a new guard takes over, the old one is inactive
\* and destroyed.
MoveOut == /\ scopes # <<>> /\ ~Top.unwinding
           /\ ended' = [kind |-> Top.kind, active |-> FALSE, thrown |-> FALSE, ran |-> FALSE]
           /\ UNCHANGED <<scopes, uncaught>>

\* ~ScopeGuard, at the end of the scope or while an exception leaves it.
Destroyed == ended' = [kind |-> Top.kind, active |-> Top.active_, thrown |-> Top.unwinding,
                       ran |-> Top.active_ /\ Runs(Top)]

Leave == /\ scopes # <<>> /\ ~Top.unwinding
         /\ Destroyed
         /\ scopes' = Front(scopes)
         /\ UNCHANGED uncaught

Throw == /\ scopes # <<>> /\ ~Top.unwinding
         /\ scopes' = [scopes EXCEPT ![Len(scopes)].unwinding = TRUE]
         /\ uncaught' = uncaught + 1
         /\ UNCHANGED ended

\* The exception is caught around the scope, or it goes on to the next one.
Caught == /\ scopes # <<>> /\ Top.unwinding
          /\ Destroyed
          /\ scopes' = Front(scopes)
          /\ uncaught' = uncaught - 1

GoesOn == /\ Len(scopes) > 1 /\ Top.unwinding /\ ~scopes[Len(scopes) - 1].unwinding
          /\ Destroyed
          /\ scopes' = [Front(scopes) EXCEPT ![Len(scopes) - 1].unwinding = TRUE]
          /\ UNCHANGED uncaught

Next == (\E k \in GuardKinds : Open(k)) \/ Release \/ MoveOut \/ Leave \/ Throw \/ Caught \/ GoesOn

Spec == Init /\ [][Next]_vars

-----------------------------------------------------------------------------
\* A guard that was not released runs its callable exactly in the exits it is for, also in the
\* middle of a cleanup that runs while another exception is in flight: that one is not its own.
GuardsMatchExit ==
  ended.ran = (ended.active /\ CASE ended.kind = "exit"    -> TRUE
                                 [] ended.kind = "success" -> ~ended.thrown
                                 [] ended.kind = "fail"    -> ended.thrown)
=============================================================================
