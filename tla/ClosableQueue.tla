---------------------------- MODULE ClosableQueue ----------------------------
(***************************************************************************)
(* What fp::Channel promises to the threads that call it, with no mutex,   *)
(* no condition variable and no wake-up: a FIFO queue with an optional     *)
(* bound that can be closed.  A call is invoked, takes effect in one       *)
(* atomic step, and returns.  A send waits for room, a recv waits for a    *)
(* message, and closing the queue releases both.                           *)
(*                                                                         *)
(* A message is a pair <<t, n>>: the n-th call of thread t was the send.   *)
(***************************************************************************)
EXTENDS Naturals, Sequences

CONSTANTS Threads,     \* the threads that share the channel
          Capacities,  \* the capacities a channel may be built with, 0 = unbounded
          MayCall,     \* the member functions each thread calls
          MaxCalls     \* bound: how many calls each thread makes

VARIABLES capacity_, closed_, q_,
          call,        \* the call each thread is in
          calls,       \* how many calls each thread has made
          ret          \* how each idle thread's last call returned

vars == <<capacity_, closed_, q_, call, calls, ret>>

Idle(t)    == call[t] = "idle"
Message(t) == <<t, calls[t]>>

\* How a call ends: normally, with an exception, with false or nullopt, or with a message.
Ok       == <<"ok">>
Throw    == <<"throw">>
Refused  == <<"refused">>
Value(m) == <<"value", m>>

HasRoom  == capacity_ = 0 \/ Len(q_) < capacity_

Return(t, result) == /\ call' = [call EXCEPT ![t] = "idle"]
                     /\ ret' = [ret EXCEPT ![t] = result]
                     /\ UNCHANGED <<capacity_, calls>>

Init == /\ capacity_ \in Capacities
        /\ closed_ = FALSE
        /\ q_ = <<>>
        /\ call = [t \in Threads |-> "idle"]
        /\ calls = [t \in Threads |-> 0]
        /\ ret = [t \in Threads |-> <<>>]

Invoke(t) == /\ Idle(t)
             /\ calls[t] < MaxCalls
             /\ \E op \in MayCall[t] : call' = [call EXCEPT ![t] = op]
             /\ calls' = [calls EXCEPT ![t] = @ + 1]
             /\ ret' = [ret EXCEPT ![t] = <<>>]
             /\ UNCHANGED <<capacity_, closed_, q_>>

\* A message is accepted: at the tail, while the queue is open and has room.
Accept(t) == /\ call[t] \in {"send", "try_send"}
             /\ ~closed_ /\ HasRoom
             /\ q_' = Append(q_, Message(t))
             /\ UNCHANGED closed_
             /\ Return(t, Ok)

\* The oldest message is delivered, whether or not the queue is closed.
Deliver(t) == /\ call[t] \in {"recv", "try_recv"}
              /\ q_ # <<>>
              /\ q_' = Tail(q_)
              /\ UNCHANGED closed_
              /\ Return(t, Value(Head(q_)))

\* A blocking call fails for one reason only: the queue is closed, and for recv, drained.
Fail(t) == /\ closed_
           /\ \/ call[t] = "send"
              \/ call[t] = "recv" /\ q_ = <<>>
           /\ UNCHANGED <<closed_, q_>>
           /\ Return(t, Throw)

Refuse(t) == /\ \/ call[t] = "try_send" /\ (closed_ \/ ~HasRoom)
                \/ call[t] = "try_recv" /\ q_ = <<>>
             /\ UNCHANGED <<closed_, q_>>
             /\ Return(t, Refused)

Close(t) == /\ call[t] = "close"
            /\ closed_' = TRUE
            /\ call' = [call EXCEPT ![t] = "closing"]
            /\ UNCHANGED <<capacity_, q_, calls, ret>>

CloseReturns(t) == /\ call[t] = "closing"
                   /\ UNCHANGED <<closed_, q_>>
                   /\ Return(t, Ok)

Next == \E t \in Threads : \/ Invoke(t)
                           \/ Accept(t) \/ Deliver(t) \/ Fail(t) \/ Refuse(t)
                           \/ Close(t)  \/ CloseReturns(t)

-----------------------------------------------------------------------------
(***************************************************************************)
(* Progress.  While the queue is open a message that can be delivered is   *)
(* delivered to some receiver and room that can be filled is filled by     *)
(* some sender; which one is not promised.  A non-blocking call, a close,  *)
(* and every call on a closed queue returns.                               *)
(***************************************************************************)
Fairness ==
  /\ WF_vars(\E t \in Threads : call[t] = "recv" /\ Deliver(t))
  /\ WF_vars(\E t \in Threads : call[t] = "send" /\ Accept(t))
  /\ \A t \in Threads :
       /\ WF_vars(call[t] \in {"try_send", "try_recv"} /\ (Accept(t) \/ Deliver(t) \/ Refuse(t)))
       /\ WF_vars(Close(t) \/ CloseReturns(t))
       /\ WF_vars(closed_ /\ (Deliver(t) \/ Fail(t)))

Spec == Init /\ [][Next]_vars /\ Fairness
=============================================================================
