----------------------------- MODULE BoundedFifo -----------------------------
(***************************************************************************)
(* What fp::RingBuffer promises its two threads: a queue of bounded        *)
(* capacity.  push appends at the end or refuses, try_pop moves out the    *)
(* first element or finds none.  Elements are numbered in push order.      *)
(***************************************************************************)
EXTENDS Naturals, Sequences

CONSTANTS MaxPushes  \* bound: how many elements are pushed

VARIABLES capacity_, q_,
          out,   \* the element try_pop is moving out, 0 when it is not
          sent   \* how many elements were pushed

vars == <<capacity_, q_, out, sent>>

Init == q_ = <<>> /\ out = 0 /\ sent = 0

\* The slot of the element being moved out is not free yet.
Push == /\ sent < MaxPushes
        /\ Len(q_) + (IF out = 0 THEN 0 ELSE 1) < capacity_
        /\ q_' = Append(q_, sent + 1)
        /\ sent' = sent + 1
        /\ UNCHANGED <<capacity_, out>>

Take == /\ out = 0 /\ q_ # <<>>
        /\ out' = Head(q_)
        /\ q_' = Tail(q_)
        /\ UNCHANGED <<capacity_, sent>>

Return == /\ out # 0
          /\ out' = 0
          /\ UNCHANGED <<capacity_, q_, sent>>

Next == Push \/ Take \/ Return

\* A consumer that polls gets whatever is there.
Spec == Init /\ [][Next]_vars /\ WF_vars(Take \/ Return)
==============================================================================
