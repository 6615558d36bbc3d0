------------------------------- MODULE Channel -------------------------------
(***************************************************************************)
(* fp::Channel: a std::queue behind one mutex, with two condition          *)
(* variables.  Every access to q_ and closed_ in the code holds mu_, so    *)
(* one critical section is one action: from taking mu_ (first entry or     *)
(* return from a wait) to the wait that releases it or to the end of the   *)
(* call.  close() is the exception: it sets closed_ under mu_ and calls    *)
(* notify_all twice after releasing it, so it is three actions.            *)
(*                                                                         *)
(* A condition variable is the set of threads asleep on it.  notify_one    *)
(* removes any one of them, notify_all all of them, and a thread may wake  *)
(* for no reason; a thread that woke evaluates its predicate again before  *)
(* it goes on.                                                             *)
(***************************************************************************)
EXTENDS Naturals, Sequences, FiniteSets

CONSTANTS Threads,     \* the threads that share the channel
          Capacities,  \* the capacities it may be built with, 0 = unbounded
          MayCall,     \* the member functions each thread calls
          MaxCalls     \* bound: how many calls each thread makes

Operations == {"send", "recv", "try_send", "try_recv", "close"}

ASSUME ChannelAssumption == /\ IsFiniteSet(Threads)
                            /\ Capacities \subseteq Nat
                            /\ MayCall \in [Threads -> SUBSET Operations]
                            /\ MaxCalls \in Nat

VARIABLES capacity_, closed_, q_,
          not_empty_,  \* the threads asleep in recv
          not_full_,   \* the threads asleep in send
          notified,    \* the threads in close() past the first of its two notify_all
          call, calls, ret

vars == <<capacity_, closed_, q_, not_empty_, not_full_, notified, call, calls, ret>>

Contract == INSTANCE ClosableQueue

Awake(t) == t \notin not_empty_ \cup not_full_

Message(t) == <<t, calls[t]>>

Return(t, result) == /\ call' = [call EXCEPT ![t] = "idle"]
                     /\ ret' = [ret EXCEPT ![t] = result]
                     /\ UNCHANGED <<capacity_, notified, calls>>

\* What notify_one may leave asleep on a condition variable with these sleepers.
AfterNotifyOne(sleepers) ==
  IF sleepers = {} THEN {{}} ELSE {sleepers \ {t} : t \in sleepers}

-----------------------------------------------------------------------------
Init == /\ capacity_ \in Capacities
        /\ closed_ = FALSE
        /\ q_ = <<>>
        /\ not_empty_ = {} /\ not_full_ = {} /\ notified = {}
        /\ call = [t \in Threads |-> "idle"]
        /\ calls = [t \in Threads |-> 0]
        /\ ret = [t \in Threads |-> <<>>]

\* A thread calls a member function; the call has not taken mu_ yet.
Invoke(t) == /\ call[t] = "idle"
             /\ calls[t] < MaxCalls
             /\ \E op \in MayCall[t] : call' = [call EXCEPT ![t] = op]
             /\ calls' = [calls EXCEPT ![t] = @ + 1]
             /\ ret' = [ret EXCEPT ![t] = <<>>]
             /\ UNCHANGED <<capacity_, closed_, q_, not_empty_, not_full_, notified>>

\* The predicate of not_full_.wait; an unbounded channel never waits.
MaySend == capacity_ = 0 \/ Len(q_) < capacity_ \/ closed_

SendSleeps(t) == /\ call[t] = "send" /\ Awake(t)
                 /\ ~MaySend
                 /\ not_full_' = not_full_ \cup {t}
                 /\ UNCHANGED <<capacity_, closed_, q_, not_empty_, notified, call, calls, ret>>

SendThrows(t) == /\ call[t] = "send" /\ Awake(t)
                 /\ closed_
                 /\ Return(t, <<"throw">>)
                 /\ UNCHANGED <<closed_, q_, not_empty_, not_full_>>

\* Mutant: the predicate is not evaluated again after a wake-up ("if" for "while").
PushUnchecked(t) == /\ call[t] = "send" /\ Awake(t)
                    /\ ~closed_
                    /\ q_' = Append(q_, Message(t))
                    /\ not_empty_' \in AfterNotifyOne(not_empty_)
                    /\ Return(t, <<"ok">>)
                    /\ UNCHANGED <<closed_, not_full_>>

SendPushes(t) == /\ call[t] = "send" /\ Awake(t)
                 /\ MaySend /\ ~closed_
                 /\ q_' = Append(q_, Message(t))
                 /\ not_empty_' \in AfterNotifyOne(not_empty_)
                 /\ Return(t, <<"ok">>)
                 /\ UNCHANGED <<closed_, not_full_>>

\* Mutant: recv goes to sleep on the senders' condition variable.
RecvSleepsOnNotFull(t) == /\ call[t] = "recv" /\ Awake(t)
                          /\ q_ = <<>> /\ ~closed_
                          /\ not_full_' = not_full_ \cup {t}
                          /\ UNCHANGED <<capacity_, closed_, q_, not_empty_, notified, call, calls, ret>>

RecvSleeps(t) == /\ call[t] = "recv" /\ Awake(t)
                 /\ q_ = <<>> /\ ~closed_
                 /\ not_empty_' = not_empty_ \cup {t}
                 /\ UNCHANGED <<capacity_, closed_, q_, not_full_, notified, call, calls, ret>>

RecvThrows(t) == /\ call[t] = "recv" /\ Awake(t)
                 /\ q_ = <<>> /\ closed_
                 /\ Return(t, <<"throw">>)
                 /\ UNCHANGED <<closed_, q_, not_empty_, not_full_>>

\* Pop the front, and wake a sender if the channel is bounded.
Pop(t) == /\ q_ # <<>>
          /\ q_' = Tail(q_)
          /\ IF capacity_ > 0 THEN not_full_' \in AfterNotifyOne(not_full_)
                              ELSE UNCHANGED not_full_
          /\ Return(t, <<"value", Head(q_)>>)
          /\ UNCHANGED <<closed_, not_empty_>>

\* Mutant: a sender is woken only if the queue was full, so one wake-up can serve two slots.
RecvWakesWhenFull(t) == /\ call[t] = "recv" /\ Awake(t)
                        /\ q_ # <<>>
                        /\ q_' = Tail(q_)
                        /\ IF Len(q_) = capacity_ THEN not_full_' \in AfterNotifyOne(not_full_)
                                                  ELSE UNCHANGED not_full_
                        /\ Return(t, <<"value", Head(q_)>>)
                        /\ UNCHANGED <<closed_, not_empty_>>

RecvTakes(t) == call[t] = "recv" /\ Awake(t) /\ Pop(t)

\* Mutant: try_send wakes nobody.
TrySendSilently(t) ==
  /\ call[t] = "try_send"
  /\ IF closed_ \/ (capacity_ > 0 /\ Len(q_) >= capacity_)
     THEN Return(t, <<"refused">>) /\ UNCHANGED q_
     ELSE Return(t, <<"ok">>) /\ q_' = Append(q_, Message(t))
  /\ UNCHANGED <<closed_, not_empty_, not_full_>>

TrySend(t) ==
  /\ call[t] = "try_send"
  /\ UNCHANGED closed_
  /\ \/ /\ closed_ \/ (capacity_ > 0 /\ Len(q_) >= capacity_)
        /\ Return(t, <<"refused">>)
        /\ UNCHANGED <<q_, not_empty_, not_full_>>
     \/ /\ ~(closed_ \/ (capacity_ > 0 /\ Len(q_) >= capacity_))
        /\ q_' = Append(q_, Message(t))
        /\ not_empty_' \in AfterNotifyOne(not_empty_)
        /\ Return(t, <<"ok">>)
        /\ UNCHANGED not_full_

\* try_recv gives nullopt on an empty channel, closed or not.
TryRecv(t) ==
  /\ call[t] = "try_recv"
  /\ \/ Pop(t)
     \/ /\ q_ = <<>>
        /\ Return(t, <<"refused">>)
        /\ UNCHANGED <<closed_, q_, not_empty_, not_full_>>

CloseSets(t) == /\ call[t] = "close"
                /\ closed_' = TRUE
                /\ call' = [call EXCEPT ![t] = "closing"]
                /\ UNCHANGED <<capacity_, q_, not_empty_, not_full_, notified, calls, ret>>

CloseNotifiesEmpty(t) ==
  /\ call[t] = "closing" /\ t \notin notified
  /\ not_empty_' = {}
  /\ notified' = notified \cup {t}
  /\ UNCHANGED <<capacity_, closed_, q_, not_full_, call, calls, ret>>

\* Mutant: close() forgets the senders.
CloseForgetsFull(t) ==
  /\ call[t] = "closing" /\ t \in notified
  /\ notified' = notified \ {t}
  /\ call' = [call EXCEPT ![t] = "idle"]
  /\ ret' = [ret EXCEPT ![t] = <<"ok">>]
  /\ UNCHANGED <<capacity_, closed_, q_, not_empty_, not_full_, calls>>

CloseNotifiesFull(t) ==
  /\ call[t] = "closing" /\ t \in notified
  /\ not_full_' = {}
  /\ notified' = notified \ {t}
  /\ call' = [call EXCEPT ![t] = "idle"]
  /\ ret' = [ret EXCEPT ![t] = <<"ok">>]
  /\ UNCHANGED <<capacity_, closed_, q_, not_empty_, calls>>

\* A condition variable may wake a thread that nobody notified.
WakesSpuriously(t) == /\ ~Awake(t)
                      /\ not_empty_' = not_empty_ \ {t}
                      /\ not_full_' = not_full_ \ {t}
                      /\ UNCHANGED <<capacity_, closed_, q_, notified, call, calls, ret>>

\* The steps a thread inside a call takes by itself.
Runs(t) == \/ SendSleeps(t) \/ SendThrows(t) \/ SendPushes(t)
           \/ RecvSleeps(t) \/ RecvThrows(t) \/ RecvTakes(t)
           \/ TrySend(t) \/ TryRecv(t)
           \/ CloseSets(t) \/ CloseNotifiesEmpty(t) \/ CloseNotifiesFull(t)

Next == \E t \in Threads : Invoke(t) \/ Runs(t) \/ WakesSpuriously(t)

\* Each thread inside a call and not asleep is scheduled, and gets the mutex, eventually.
\* Nothing obliges a thread to make another call, nor a condition variable to misfire.
Fairness == \A t \in Threads : WF_vars(Runs(t))

Spec == Init /\ [][Next]_vars /\ Fairness

-----------------------------------------------------------------------------
\* Types, and who may be asleep where: recv sleeps only on not_empty_, send only on not_full_,
\* and a thread past the first notify_all of close() is still inside close().
TypeOK ==
  /\ capacity_ \in Capacities
  /\ closed_ \in BOOLEAN
  /\ q_ \in Seq(Threads \X (1..MaxCalls))
  /\ call \in [Threads -> Operations \cup {"idle", "closing"}]
  /\ calls \in [Threads -> 0..MaxCalls]
  /\ not_empty_ \subseteq {t \in Threads : call[t] = "recv"}
  /\ not_full_ \subseteq {t \in Threads : call[t] = "send"}
  /\ notified \subseteq {t \in Threads : call[t] = "closing"}

\* A bounded channel never holds more than its capacity, however many senders were woken
\* for the same free slot and however try_send is mixed with send.
CapacityRespected == capacity_ > 0 => Len(q_) <= capacity_

Receiving == {t \in Threads : call[t] = "recv" /\ Awake(t)}
Sending   == {t \in Threads : call[t] = "send" /\ Awake(t)}

\* No message waits behind a sleeping receiver: while one sleeps, every queued message has
\* an awake receiver of its own on the way to it.
NoLostMessageWakeup == not_empty_ # {} => Len(q_) <= Cardinality(Receiving)

\* No free slot waits behind a sleeping sender: while one sleeps on an open channel, every
\* free slot has an awake sender of its own on the way to it.
NoLostRoomWakeup ==
  not_full_ # {} /\ ~closed_ => capacity_ <= Len(q_) + Cardinality(Sending)

\* On a closed channel nobody sleeps past the closing: whoever still sleeps has a closer
\* ahead of it that has not called the notify_all that wakes it.
CloserStillToNotify ==
  closed_ => /\ not_empty_ # {} => \E t \in Threads : call[t] = "closing" /\ t \notin notified
             /\ not_full_ # {} => \E t \in Threads : call[t] = "closing"

NoLostWakeup == NoLostMessageWakeup /\ NoLostRoomWakeup /\ CloserStillToNotify

\* Closing releases everybody: a thread blocked in send or recv when the channel is closed
\* returns from its call, with a message or with an exception.
CloseReleasesBlocked ==
  \A t \in Threads : closed_ /\ call[t] \in {"send", "recv"} ~> call[t] = "idle"

\* The channel implements the queue its callers were promised, progress included.
ImplementsContract == Contract!Spec
=============================================================================
