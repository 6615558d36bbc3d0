---------------------------- MODULE MCThreadPool ----------------------------
(***************************************************************************)
(* Two workers and one or two clients.  "plain" is enqueued with a future, *)
(* "nested" by the body of "plain" (also while the destructor drains the   *)
(* queue), "guarded" and "late" with a stop_token by the two clients.      *)
(***************************************************************************)
EXTENDS ThreadPool

CONSTANTS w1, w2, c1, c2, plain, nested, guarded, late, none

MCWorkers     == {w1, w2}
MCClients     == {c1, c2}
MCTasks       == {plain, nested, guarded, late}
MCIssuedBy    == [t \in MCTasks |->
                    CASE t = plain   -> c1
                      [] t = nested  -> plain
                      [] t = guarded -> c2
                      [] t = late    -> c1]
MCCancellable == {guarded, late}
=============================================================================
