------------------------------ MODULE MCChannel ------------------------------
(***************************************************************************)
(* Three threads over channels of capacity 0 (unbounded), 1 and 2: two     *)
(* receivers or two senders can sleep on one condition variable while the  *)
(* third thread fills, empties or closes the channel under them.           *)
(***************************************************************************)
EXTENDS Channel

CONSTANTS producer, both, consumer

MCThreads    == {producer, both, consumer}
MCCapacities == {0, 1, 2}
MCMayCall    == [t \in MCThreads |->
                   CASE t = producer -> {"send", "try_send", "close"}
                     [] t = both     -> {"send", "recv"}
                     [] t = consumer -> {"recv", "try_recv", "close"}]
=============================================================================
