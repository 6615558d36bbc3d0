--------------------------- MODULE ChannelProofs ---------------------------
(***************************************************************************)
(* Safety of fp::Channel for every set of threads, every set of capacities *)
(* and every number of calls.                                              *)
(***************************************************************************)
EXTENDS Channel, FiniteSetTheorems, TLAPS

\* What TypeOK lacks to be inductive: a thread inside a call has counted it.
IInv == TypeOK /\ \A t \in Threads : call[t] # "idle" => calls[t] \in 1 .. MaxCalls

USE DEF Operations

-----------------------------------------------------------------------------
\* notify_one removes at most one sleeper, and one if there is any.
LEMMA NotifyOne ==
  ASSUME NEW sleepers, NEW rest \in AfterNotifyOne(sleepers)
  PROVE  /\ rest \subseteq sleepers
         /\ sleepers # {} => \E t \in sleepers : rest = sleepers \ {t}
BY DEF AfterNotifyOne

LEMMA InitIInv == Init => IInv
<1> SUFFICES ASSUME Init PROVE IInv
  OBVIOUS
<1> USE ChannelAssumption DEF ChannelAssumption, Init
<1>1. q_ \in Seq(Threads \X (1 .. MaxCalls))
  OBVIOUS
<1>2. call \in [Threads -> Operations \cup {"idle", "closing"}] /\ calls \in [Threads -> 0 .. MaxCalls]
  OBVIOUS
<1>. QED BY <1>1, <1>2 DEF IInv, TypeOK

LEMMA NextIInv == IInv /\ [Next]_vars => IInv'
<1> SUFFICES ASSUME IInv, [Next]_vars PROVE IInv'
  OBVIOUS
<1> USE ChannelAssumption DEF ChannelAssumption, IInv, TypeOK
<1>1. ASSUME NEW t \in Threads, Invoke(t) PROVE IInv'
  <2>1. PICK op \in Operations : call' = [call EXCEPT ![t] = op]
    BY <1>1 DEF Invoke
  <2>2. calls' = [calls EXCEPT ![t] = @ + 1] /\ calls[t] < MaxCalls /\ call[t] = "idle"
    BY <1>1 DEF Invoke
  <2>3. UNCHANGED <<capacity_, closed_, q_, not_empty_, not_full_, notified>>
    BY <1>1 DEF Invoke
  <2>. QED BY <2>1, <2>2, <2>3
<1>2. ASSUME NEW t \in Threads, Runs(t) PROVE IInv'
  <2>1. CASE SendSleeps(t)
    BY <2>1 DEF SendSleeps, Awake
  <2>2. CASE SendThrows(t)
    BY <2>2 DEF SendThrows, Awake, Return
  <2>3. CASE SendPushes(t)
    <3>1. not_empty_' \subseteq not_empty_
      BY <2>3, NotifyOne DEF SendPushes
    <3>2. Message(t) \in Threads \X (1 .. MaxCalls)
      BY <2>3 DEF SendPushes, Message
    <3>. QED BY <2>3, <3>1, <3>2 DEF SendPushes, Awake, Return
  <2>4. CASE RecvSleeps(t)
    BY <2>4 DEF RecvSleeps, Awake
  <2>5. CASE RecvThrows(t)
    BY <2>5 DEF RecvThrows, Awake, Return
  <2>6. ASSUME Pop(t), call[t] \in {"recv", "try_recv"}, Awake(t) PROVE IInv'
    <3>1. not_full_' \subseteq not_full_
      BY <2>6, NotifyOne DEF Pop
    <3>2. q_' \in Seq(Threads \X (1 .. MaxCalls))
      BY <2>6 DEF Pop
    <3>. QED BY <2>6, <3>1, <3>2 DEF Pop, Awake, Return
  <2>7. CASE RecvTakes(t)
    BY <2>6, <2>7 DEF RecvTakes
  <2>8. CASE TrySend(t)
    <3>1. not_empty_' \subseteq not_empty_
      <4>1. CASE UNCHANGED not_empty_
        BY <4>1
      <4>2. CASE not_empty_' \in AfterNotifyOne(not_empty_)
        BY <4>2, NotifyOne
      <4>. QED BY <2>8, <4>1, <4>2 DEF TrySend
    <3>2. Message(t) \in Threads \X (1 .. MaxCalls)
      BY <2>8 DEF TrySend, Message
    <3>3. q_' \in Seq(Threads \X (1 .. MaxCalls))
      <4>1. CASE UNCHANGED q_
        BY <4>1
      <4>2. CASE q_' = Append(q_, Message(t))
        BY <3>2, <4>2
      <4>. QED BY <2>8, <4>1, <4>2 DEF TrySend
    <3>4. /\ call[t] = "try_send" /\ call' = [call EXCEPT ![t] = "idle"]
          /\ UNCHANGED <<capacity_, closed_, not_full_, notified, calls>>
      BY <2>8 DEF TrySend, Return
    <3>. QED BY <3>1, <3>3, <3>4
  <2>9. CASE TryRecv(t)
    <3>1. Awake(t)
      BY <2>9 DEF TryRecv, Awake
    <3>2. CASE Pop(t)
      BY <2>6, <2>9, <3>1, <3>2 DEF TryRecv
    <3>3. CASE ~Pop(t)
      BY <2>9, <3>3 DEF TryRecv, Return
    <3>. QED BY <3>2, <3>3
  <2>10. CASE CloseSets(t)
    BY <2>10 DEF CloseSets
  <2>11. CASE CloseNotifiesEmpty(t)
    BY <2>11 DEF CloseNotifiesEmpty
  <2>12. CASE CloseNotifiesFull(t)
    BY <2>12 DEF CloseNotifiesFull
  <2>. QED BY <1>2, <2>1, <2>2, <2>3, <2>4, <2>5, <2>7, <2>8, <2>9, <2>10, <2>11, <2>12 DEF Runs
<1>3. ASSUME NEW t \in Threads, WakesSpuriously(t) PROVE IInv'
  BY <1>3 DEF WakesSpuriously
<1>4. CASE UNCHANGED vars
  BY <1>4 DEF vars
<1>. QED BY <1>1, <1>2, <1>3, <1>4 DEF Next

\* The variables keep their types, and only receivers sleep on not_empty_, only senders on
\* not_full_.
THEOREM TypeCorrect == Spec => []TypeOK
<1>1. IInv => TypeOK
  BY DEF IInv
<1>. QED BY InitIInv, NextIInv, <1>1, PTL DEF Spec

-----------------------------------------------------------------------------
\* What the counting arguments need of sets of threads.
LEMMA Counting ==
  ASSUME NEW S \in SUBSET Threads
  PROVE  /\ IsFiniteSet(S) /\ Cardinality(S) \in Nat
         /\ \A t \in S : Cardinality(S \ {t}) = Cardinality(S) - 1
         /\ \A t \in Threads : Cardinality(S \ {t}) >= Cardinality(S) - 1
         /\ \A T \in SUBSET S : Cardinality(T) \in Nat /\ Cardinality(T) <= Cardinality(S)
<1>1. IsFiniteSet(S)
  BY ChannelAssumption, FS_Subset DEF ChannelAssumption
<1>2. \A t \in S : Cardinality(S \ {t}) = Cardinality(S) - 1
  BY <1>1, FS_RemoveElement
<1>3. \A T \in SUBSET S : IsFiniteSet(T) /\ Cardinality(T) <= Cardinality(S)
  BY <1>1, FS_Subset
<1>4. Cardinality(S) \in Nat
  BY <1>1, FS_CardinalityType
<1>5. ASSUME NEW t \in Threads PROVE Cardinality(S \ {t}) >= Cardinality(S) - 1
  <2>1. CASE t \in S
    BY <1>2, <1>4, <2>1
  <2>2. CASE t \notin S
    <3>1. S \ {t} = S
      BY <2>2
    <3>2. Cardinality(S \ {t}) = Cardinality(S)
      BY <3>1, Zenon
    <3>. QED BY <1>4, <3>2
  <2>. QED BY <2>1, <2>2
<1>. QED BY <1>1, <1>2, <1>3, <1>4, <1>5, FS_CardinalityType

LEMMA CapacityStep == IInv /\ CapacityRespected /\ [Next]_vars => CapacityRespected'
<1> SUFFICES ASSUME IInv, CapacityRespected, [Next]_vars PROVE CapacityRespected'
  OBVIOUS
<1> USE ChannelAssumption DEF ChannelAssumption, IInv, TypeOK, CapacityRespected
<1>0. q_ \in Seq(Threads \X (1 .. MaxCalls)) /\ capacity_ \in Nat
  OBVIOUS
<1>1. CASE UNCHANGED <<capacity_, q_>>
  BY <1>1
<1>2. ASSUME NEW t \in Threads, Pop(t) PROVE CapacityRespected'
  <2>1. q_ # <<>> /\ q_' = Tail(q_) /\ capacity_' = capacity_
    BY <1>2 DEF Pop, Return
  <2>2. Len(q_') = Len(q_) - 1
    BY <1>0, <2>1
  <2>. QED BY <1>0, <2>1, <2>2
<1>3. ASSUME NEW t \in Threads, q_' = Append(q_, Message(t)), UNCHANGED capacity_,
             capacity_ = 0 \/ Len(q_) < capacity_
      PROVE  CapacityRespected'
  <2>1. Len(q_') = Len(q_) + 1
    BY <1>0, <1>3
  <2>. QED BY <1>0, <1>3, <2>1
<1>4. ASSUME NEW t \in Threads, Runs(t) PROVE CapacityRespected'
  <2>1. CASE SendPushes(t)
    BY <1>3, <2>1 DEF SendPushes, MaySend, Return
  <2>2. CASE RecvTakes(t)
    BY <1>2, <2>2 DEF RecvTakes
  <2>3. CASE TrySend(t)
    <3>1. CASE UNCHANGED q_
      BY <1>1, <2>3, <3>1 DEF TrySend, Return
    <3>2. CASE ~UNCHANGED q_
      BY <1>0, <1>3, <2>3, <3>2 DEF TrySend, Return
    <3>. QED BY <3>1, <3>2
  <2>4. CASE TryRecv(t)
    BY <1>1, <1>2, <2>4 DEF TryRecv, Return
  <2>5. CASE SendSleeps(t) \/ SendThrows(t) \/ RecvSleeps(t) \/ RecvThrows(t)
    BY <1>1, <2>5 DEF SendSleeps, SendThrows, RecvSleeps, RecvThrows, Return
  <2>6. CASE CloseSets(t) \/ CloseNotifiesEmpty(t) \/ CloseNotifiesFull(t)
    BY <1>1, <2>6 DEF CloseSets, CloseNotifiesEmpty, CloseNotifiesFull
  <2>. QED BY <1>4, <2>1, <2>2, <2>3, <2>4, <2>5, <2>6 DEF Runs
<1>5. ASSUME NEW t \in Threads, Invoke(t) \/ WakesSpuriously(t) PROVE CapacityRespected'
  BY <1>1, <1>5 DEF Invoke, WakesSpuriously
<1>6. CASE UNCHANGED vars
  BY <1>1, <1>6 DEF vars
<1>. QED BY <1>4, <1>5, <1>6 DEF Next

\* A bounded channel never holds more messages than its capacity.
THEOREM CapacityTheorem == Spec => []CapacityRespected
<1>1. Init => CapacityRespected
  BY ChannelAssumption DEF ChannelAssumption, Init, CapacityRespected
<1>. QED BY InitIInv, NextIInv, CapacityStep, <1>1, PTL DEF Spec

-----------------------------------------------------------------------------
\* The three ways a step can keep "every queued message has a receiver awake for it".
LEMMA MessageWakeupKept ==
  ASSUME IInv, IInv', NoLostMessageWakeup,
         \/ UNCHANGED q_ /\ not_empty_' \subseteq not_empty_ /\ Receiving \subseteq Receiving'
         \/ q_' = <<>> \/ not_empty_' = {}
         \/ /\ Len(q_') = Len(q_) + 1
            /\ not_empty_' \in AfterNotifyOne(not_empty_)
            /\ Receiving \cup (not_empty_ \ not_empty_') \subseteq Receiving'
         \/ /\ Len(q_') = Len(q_) - 1 /\ UNCHANGED not_empty_
            /\ \E t \in Threads : Receiving \ {t} \subseteq Receiving'
  PROVE  NoLostMessageWakeup'
<1> SUFFICES ASSUME not_empty_' # {} PROVE Len(q_') <= Cardinality(Receiving')
  BY DEF NoLostMessageWakeup
<1> DEFINE R == Receiving  S == Receiving'
<1>0. R \in SUBSET Threads /\ S \in SUBSET Threads
  BY DEF Receiving
<1>1. Cardinality(R) \in Nat /\ Cardinality(S) \in Nat
  BY <1>0, Counting
<1>2. Len(q_) \in Nat /\ Len(q_') \in Nat
  BY DEF IInv, TypeOK
<1>3. not_empty_ # {} => Len(q_) <= Cardinality(R)
  BY DEF NoLostMessageWakeup
<1> HIDE DEF R, S
<1>4. CASE UNCHANGED q_ /\ not_empty_' \subseteq not_empty_ /\ R \subseteq S
  <2>1. Cardinality(R) <= Cardinality(S)
    BY <1>0, <1>4, Counting
  <2>. QED BY <1>1, <1>2, <1>3, <1>4, <2>1 DEF S
<1>5. CASE q_' = <<>>
  BY <1>1, <1>5 DEF S
<1>6. CASE /\ Len(q_') = Len(q_) + 1
           /\ not_empty_' \in AfterNotifyOne(not_empty_)
           /\ R \cup (not_empty_ \ not_empty_') \subseteq S
  <2>1. PICK t \in not_empty_ : not_empty_' = not_empty_ \ {t}
    BY <1>6, NotifyOne
  <2>2. t \in S /\ R \subseteq S \ {t}
    BY <1>6, <2>1 DEF R, Receiving, Awake
  <2>3. Cardinality(S \ {t}) = Cardinality(S) - 1 /\ Cardinality(R) <= Cardinality(S \ {t})
    BY <1>0, <2>2, Counting
  <2>. QED BY <1>1, <1>2, <1>3, <1>6, <2>1, <2>3 DEF S
<1>7. CASE /\ Len(q_') = Len(q_) - 1 /\ UNCHANGED not_empty_
           /\ \E t \in Threads : R \ {t} \subseteq S
  <2>1. PICK t \in Threads : R \ {t} \subseteq S
    BY <1>7
  <2>2. Cardinality(R \ {t}) <= Cardinality(S)
    BY <1>0, <2>1, Counting
  <2>3. Cardinality(R \ {t}) >= Cardinality(R) - 1
    BY <1>0, Counting
  <2>4. Cardinality(R \ {t}) \in Nat
    BY <1>0, Counting
  <2>. QED BY <1>1, <1>2, <1>3, <1>7, <2>2, <2>3, <2>4 DEF S
<1>. QED BY <1>4, <1>5, <1>6, <1>7 DEF R, S

LEMMA MessageWakeupStep ==
  IInv /\ IInv' /\ NoLostMessageWakeup /\ [Next]_vars => NoLostMessageWakeup'
<1> SUFFICES ASSUME IInv, IInv', NoLostMessageWakeup, [Next]_vars PROVE NoLostMessageWakeup'
  OBVIOUS
<1>0. q_ \in Seq(Threads \X (1 .. MaxCalls)) /\ call \in [Threads -> Operations \cup {"idle", "closing"}]
  BY DEF IInv, TypeOK
<1>1. /\ \A t \in not_empty_ : t \in Threads /\ call[t] = "recv" /\ t \notin not_full_
      /\ \A t \in not_full_ : t \in Threads /\ call[t] = "send"
  BY DEF IInv, TypeOK
<1>2. ASSUME UNCHANGED q_, not_empty_' \subseteq not_empty_, Receiving \subseteq Receiving'
      PROVE  NoLostMessageWakeup'
  BY <1>2, MessageWakeupKept
<1>3. ASSUME NEW t \in Threads, Pop(t), call[t] \in {"recv", "try_recv"}
      PROVE  NoLostMessageWakeup'
  <2>1. q_ # <<>> /\ q_' = Tail(q_) /\ not_empty_' = not_empty_ /\ call' = [call EXCEPT ![t] = "idle"]
    BY <1>3 DEF Pop, Return
  <2>2. Len(q_') = Len(q_) - 1
    BY <1>0, <2>1
  <2>3. not_full_' \subseteq not_full_
    BY <1>3, NotifyOne DEF Pop
  <2>4. Receiving \ {t} \subseteq Receiving'
    BY <1>0, <2>1, <2>3 DEF Receiving, Awake
  <2>. QED BY <2>1, <2>2, <2>4, MessageWakeupKept
<1>4. ASSUME NEW t \in Threads, call[t] \in {"send", "try_send"}, q_' = Append(q_, Message(t)),
             not_empty_' \in AfterNotifyOne(not_empty_), Return(t, <<"ok">>), UNCHANGED not_full_
      PROVE  NoLostMessageWakeup'
  <2>1. Len(q_') = Len(q_) + 1
    BY <1>0, <1>4
  <2>2. call' = [call EXCEPT ![t] = "idle"]
    BY <1>4 DEF Return
  <2>3. not_empty_' \subseteq not_empty_
    BY <1>4, NotifyOne
  <2>4. Receiving \cup (not_empty_ \ not_empty_') \subseteq Receiving'
    BY <1>0, <1>1, <1>4, <2>2, <2>3 DEF Receiving, Awake
  <2>. QED BY <1>4, <2>1, <2>4, MessageWakeupKept
<1>5. ASSUME NEW t \in Threads, Runs(t) PROVE NoLostMessageWakeup'
  <2>1. CASE SendPushes(t)
    BY <1>4, <2>1 DEF SendPushes
  <2>2. CASE RecvTakes(t)
    BY <1>3, <2>2 DEF RecvTakes
  <2>3. CASE TrySend(t)
    <3>1. CASE Return(t, <<"refused">>) /\ UNCHANGED <<q_, not_empty_, not_full_>>
      <4>1. Receiving \subseteq Receiving'
        BY <1>0, <2>3, <3>1 DEF TrySend, Return, Receiving, Awake
      <4>. QED BY <1>2, <3>1, <4>1
    <3>2. CASE ~UNCHANGED <<q_, not_empty_, not_full_>>
      BY <1>4, <2>3, <3>2 DEF TrySend
    <3>. QED BY <1>4, <2>3, <3>1, <3>2 DEF TrySend
  <2>4. CASE TryRecv(t)
    <3>1. CASE UNCHANGED <<q_, not_empty_, not_full_>> /\ call' = [call EXCEPT ![t] = "idle"]
      <4>1. Receiving \subseteq Receiving'
        BY <1>0, <2>4, <3>1 DEF TryRecv, Receiving, Awake
      <4>. QED BY <1>2, <3>1, <4>1
    <3>. QED BY <1>3, <2>4, <3>1 DEF TryRecv, Return
  <2>5. CASE RecvSleeps(t) \/ RecvThrows(t)
    BY <2>5, MessageWakeupKept DEF RecvSleeps, RecvThrows
  <2>6. CASE CloseNotifiesEmpty(t)
    BY <2>6, MessageWakeupKept DEF CloseNotifiesEmpty
  <2>7. CASE SendSleeps(t) \/ SendThrows(t) \/ CloseSets(t) \/ CloseNotifiesFull(t)
    <3>1. UNCHANGED <<q_, not_empty_>>
      BY <2>7 DEF SendSleeps, SendThrows, CloseSets, CloseNotifiesFull
    <3>2. Receiving \subseteq Receiving'
      BY <1>0, <2>7 DEF SendSleeps, SendThrows, CloseSets, CloseNotifiesFull, Return, Receiving, Awake
    <3>. QED BY <1>2, <3>1, <3>2
  <2>. QED BY <1>5, <2>1, <2>2, <2>3, <2>4, <2>5, <2>6, <2>7 DEF Runs
<1>6. ASSUME NEW t \in Threads, Invoke(t) PROVE NoLostMessageWakeup'
  <2>1. Receiving \subseteq Receiving'
    BY <1>0, <1>6 DEF Invoke, Receiving, Awake
  <2>. QED BY <1>2, <1>6, <2>1 DEF Invoke
<1>7. ASSUME NEW t \in Threads, WakesSpuriously(t) PROVE NoLostMessageWakeup'
  <2>1. Receiving \subseteq Receiving'
    BY <1>7 DEF WakesSpuriously, Receiving, Awake
  <2>. QED BY <1>2, <1>7, <2>1 DEF WakesSpuriously
<1>8. CASE UNCHANGED vars
  <2>1. Receiving \subseteq Receiving'
    BY <1>8 DEF vars, Receiving, Awake
  <2>. QED BY <1>2, <1>8, <2>1 DEF vars
<1>. QED BY <1>5, <1>6, <1>7, <1>8 DEF Next

-----------------------------------------------------------------------------
\* The ways a step can keep "every free slot has a sender awake for it".
LEMMA RoomWakeupKept ==
  ASSUME IInv, IInv', NoLostRoomWakeup, UNCHANGED capacity_, closed_ => closed_',
         \/ UNCHANGED q_ /\ not_full_' \subseteq not_full_ /\ Sending \subseteq Sending'
         \/ capacity_ <= Len(q_') \/ not_full_' = {} \/ closed_'
         \/ /\ Len(q_') = Len(q_) + 1 /\ UNCHANGED not_full_
            /\ \E t \in Threads : Sending \ {t} \subseteq Sending'
         \/ /\ Len(q_') = Len(q_) - 1 /\ not_full_' \in AfterNotifyOne(not_full_)
            /\ Sending \cup (not_full_ \ not_full_') \subseteq Sending'
  PROVE  NoLostRoomWakeup'
<1> SUFFICES ASSUME not_full_' # {}, ~closed_' PROVE capacity_' <= Len(q_') + Cardinality(Sending')
  BY DEF NoLostRoomWakeup
<1> DEFINE R == Sending  S == Sending'
<1>0. R \in SUBSET Threads /\ S \in SUBSET Threads
  BY DEF Sending
<1>1. Cardinality(R) \in Nat /\ Cardinality(S) \in Nat
  BY <1>0, Counting
<1>2. Len(q_) \in Nat /\ Len(q_') \in Nat /\ capacity_ \in Nat
  BY SMTT(30), ChannelAssumption DEF ChannelAssumption, IInv, TypeOK
<1>3. not_full_ # {} => capacity_ <= Len(q_) + Cardinality(R)
  BY DEF NoLostRoomWakeup
<1> HIDE DEF R, S
<1>4. CASE UNCHANGED q_ /\ not_full_' \subseteq not_full_ /\ R \subseteq S
  <2>1. Cardinality(R) <= Cardinality(S)
    BY <1>0, <1>4, Counting
  <2>. QED BY <1>1, <1>2, <1>3, <1>4, <2>1 DEF S
<1>5. CASE capacity_ <= Len(q_')
  BY <1>1, <1>2, <1>5 DEF S
<1>6. CASE /\ Len(q_') = Len(q_) - 1 /\ not_full_' \in AfterNotifyOne(not_full_)
           /\ R \cup (not_full_ \ not_full_') \subseteq S
  <2>1. PICK t \in not_full_ : not_full_' = not_full_ \ {t}
    BY <1>6, NotifyOne
  <2>2. t \in S /\ R \subseteq S \ {t}
    BY <1>6, <2>1 DEF R, Sending, Awake
  <2>3. Cardinality(S \ {t}) = Cardinality(S) - 1 /\ Cardinality(R) <= Cardinality(S \ {t})
    BY <1>0, <2>2, Counting
  <2>. QED BY <1>1, <1>2, <1>3, <1>6, <2>1, <2>3 DEF S
<1>7. CASE /\ Len(q_') = Len(q_) + 1 /\ UNCHANGED not_full_
           /\ \E t \in Threads : R \ {t} \subseteq S
  <2>1. PICK t \in Threads : R \ {t} \subseteq S
    BY <1>7
  <2>2. Cardinality(R \ {t}) \in Nat /\ Cardinality(R \ {t}) <= Cardinality(S)
    BY <1>0, <2>1, Counting
  <2>3. Cardinality(R \ {t}) >= Cardinality(R) - 1
    BY <1>0, Counting
  <2>. QED BY <1>1, <1>2, <1>3, <1>7, <2>2, <2>3 DEF S
<1>. QED BY <1>4, <1>5, <1>6, <1>7 DEF R, S

LEMMA RoomWakeupStep ==
  IInv /\ IInv' /\ NoLostRoomWakeup /\ [Next]_vars => NoLostRoomWakeup'
<1> SUFFICES ASSUME IInv, IInv', NoLostRoomWakeup, [Next]_vars PROVE NoLostRoomWakeup'
  OBVIOUS
<1>0. /\ q_ \in Seq(Threads \X (1 .. MaxCalls)) /\ capacity_ \in Nat
      /\ call \in [Threads -> Operations \cup {"idle", "closing"}]
  BY ChannelAssumption DEF ChannelAssumption, IInv, TypeOK
<1>1. /\ \A t \in not_full_ : t \in Threads /\ call[t] = "send" /\ t \notin not_empty_
      /\ \A t \in not_empty_ : t \in Threads /\ call[t] = "recv"
  BY DEF IInv, TypeOK
<1>2. ASSUME UNCHANGED <<capacity_, closed_, q_>>, not_full_' \subseteq not_full_, Sending \subseteq Sending'
      PROVE  NoLostRoomWakeup'
  BY <1>2, RoomWakeupKept
<1>3. ASSUME NEW t \in Threads, Pop(t), call[t] \in {"recv", "try_recv"}
      PROVE  NoLostRoomWakeup'
  <2>1. /\ q_ # <<>> /\ q_' = Tail(q_) /\ call' = [call EXCEPT ![t] = "idle"]
        /\ UNCHANGED <<capacity_, closed_, not_empty_>>
    BY <1>3 DEF Pop, Return
  <2>2. Len(q_') = Len(q_) - 1 /\ Len(q_') \in Nat
    BY <1>0, <2>1
  <2>3. CASE capacity_ = 0
    BY <1>0, <2>1, <2>2, <2>3, RoomWakeupKept
  <2>4. CASE capacity_ > 0
    <3>1. not_full_' \in AfterNotifyOne(not_full_)
      BY <1>3, <2>4 DEF Pop
    <3>2. not_full_' \subseteq not_full_
      BY <3>1, NotifyOne
    <3>3. Sending \cup (not_full_ \ not_full_') \subseteq Sending'
      BY <1>0, <1>1, <1>3, <2>1, <3>2 DEF Sending, Awake
    <3>. QED BY <2>1, <2>2, <3>1, <3>3, RoomWakeupKept
  <2>. QED BY <1>0, <2>3, <2>4
<1>4. ASSUME NEW t \in Threads, call[t] \in {"send", "try_send"}, q_' = Append(q_, Message(t)),
             not_empty_' \in AfterNotifyOne(not_empty_), Return(t, <<"ok">>),
             UNCHANGED <<closed_, not_full_>>
      PROVE  NoLostRoomWakeup'
  <2>1. Len(q_') = Len(q_) + 1
    BY <1>0, <1>4
  <2>2. call' = [call EXCEPT ![t] = "idle"] /\ UNCHANGED capacity_
    BY <1>4 DEF Return
  <2>3. not_empty_' \subseteq not_empty_
    BY <1>4, NotifyOne
  <2>4. Sending \ {t} \subseteq Sending'
    BY <1>0, <1>4, <2>2, <2>3 DEF Sending, Awake
  <2>. QED BY <1>4, <2>1, <2>2, <2>4, RoomWakeupKept
<1>5. ASSUME NEW t \in Threads, Runs(t) PROVE NoLostRoomWakeup'
  <2>1. CASE SendPushes(t)
    BY <1>4, <2>1 DEF SendPushes
  <2>2. CASE RecvTakes(t)
    BY <1>3, <2>2 DEF RecvTakes
  <2>3. CASE TrySend(t)
    <3>1. CASE Return(t, <<"refused">>) /\ UNCHANGED <<q_, not_empty_, not_full_>>
      <4>1. Sending \subseteq Sending' /\ UNCHANGED <<capacity_, closed_>>
        BY <1>0, <2>3, <3>1 DEF TrySend, Return, Sending, Awake
      <4>. QED BY <1>2, <3>1, <4>1
    <3>. QED BY <1>4, <2>3, <3>1 DEF TrySend
  <2>4. CASE TryRecv(t)
    <3>1. CASE Return(t, <<"refused">>) /\ UNCHANGED <<closed_, q_, not_empty_, not_full_>>
      <4>1. Sending \subseteq Sending' /\ UNCHANGED capacity_
        BY <1>0, <2>4, <3>1 DEF TryRecv, Return, Sending, Awake
      <4>. QED BY <1>2, <3>1, <4>1
    <3>. QED BY <1>3, <2>4, <3>1 DEF TryRecv
  <2>5. CASE SendSleeps(t)
    <3>1. capacity_ <= Len(q_) /\ UNCHANGED <<capacity_, closed_, q_>>
      BY <1>0, <2>5 DEF SendSleeps, MaySend
    <3>. QED BY <3>1, RoomWakeupKept
  <2>6. CASE SendThrows(t) \/ CloseSets(t)
    <3>1. closed_' /\ UNCHANGED <<capacity_, q_>>
      BY <2>6 DEF SendThrows, CloseSets, Return
    <3>. QED BY <3>1, RoomWakeupKept
  <2>7. CASE RecvSleeps(t) \/ RecvThrows(t) \/ CloseNotifiesEmpty(t) \/ CloseNotifiesFull(t)
    <3>1. UNCHANGED <<capacity_, closed_, q_>> /\ not_full_' \subseteq not_full_
      BY <2>7 DEF RecvSleeps, RecvThrows, CloseNotifiesEmpty, CloseNotifiesFull, Return
    <3>2. Sending \subseteq Sending'
      BY <1>0, <2>7 DEF RecvSleeps, RecvThrows, CloseNotifiesEmpty, CloseNotifiesFull, Return, Sending, Awake
    <3>. QED BY <1>2, <3>1, <3>2
  <2>. QED BY <1>5, <2>1, <2>2, <2>3, <2>4, <2>5, <2>6, <2>7 DEF Runs
<1>6. ASSUME NEW t \in Threads, Invoke(t) PROVE NoLostRoomWakeup'
  <2>1. Sending \subseteq Sending'
    BY <1>0, <1>6 DEF Invoke, Sending, Awake
  <2>. QED BY <1>2, <1>6, <2>1 DEF Invoke
<1>7. ASSUME NEW t \in Threads, WakesSpuriously(t) PROVE NoLostRoomWakeup'
  <2>1. Sending \subseteq Sending'
    BY <1>7 DEF WakesSpuriously, Sending, Awake
  <2>. QED BY <1>2, <1>7, <2>1 DEF WakesSpuriously
<1>8. CASE UNCHANGED vars
  <2>1. Sending \subseteq Sending'
    BY <1>8 DEF vars, Sending, Awake
  <2>. QED BY <1>2, <1>8, <2>1 DEF vars
<1>. QED BY <1>5, <1>6, <1>7, <1>8 DEF Next

-----------------------------------------------------------------------------
LEMMA CloserStep ==
  IInv /\ CloserStillToNotify /\ [Next]_vars => CloserStillToNotify'
<1> SUFFICES ASSUME IInv, CloserStillToNotify, [Next]_vars PROVE CloserStillToNotify'
  OBVIOUS
<1>0. /\ call \in [Threads -> Operations \cup {"idle", "closing"}]
      /\ \A t \in notified : t \in Threads /\ call[t] = "closing"
  BY DEF IInv, TypeOK
\* A step that neither puts a thread to sleep nor takes one out of close() keeps the closer.
<1>1. ASSUME closed_ <=> closed_', not_empty_' \subseteq not_empty_, not_full_' \subseteq not_full_,
             notified' = notified,
             \A u \in Threads : call[u] = "closing" => call'[u] = "closing"
      PROVE  CloserStillToNotify'
  BY <1>1 DEF CloserStillToNotify
<1>2. ASSUME NEW t \in Threads, Pop(t), call[t] \in {"recv", "try_recv"} PROVE CloserStillToNotify'
  <2>1. not_full_' \subseteq not_full_
    BY <1>2, NotifyOne DEF Pop
  <2>. QED BY <1>0, <1>1, <1>2, <2>1 DEF Pop, Return
<1>3. ASSUME NEW t \in Threads, Runs(t) PROVE CloserStillToNotify'
  <2>1. CASE SendSleeps(t) \/ RecvSleeps(t)
    BY <2>1 DEF SendSleeps, RecvSleeps, MaySend, CloserStillToNotify
  <2>2. CASE SendThrows(t) \/ RecvThrows(t)
    BY <1>0, <1>1, <2>2 DEF SendThrows, RecvThrows, Return
  <2>3. CASE SendPushes(t)
    <3>1. not_empty_' \subseteq not_empty_
      BY <2>3, NotifyOne DEF SendPushes
    <3>. QED BY <1>0, <1>1, <2>3, <3>1 DEF SendPushes, Return
  <2>4. CASE TrySend(t)
    <3>1. not_empty_' \subseteq not_empty_ /\ not_full_' \subseteq not_full_
      BY <2>4, NotifyOne DEF TrySend
    <3>2. /\ closed_' = closed_ /\ notified' = notified
          /\ call[t] = "try_send" /\ call' = [call EXCEPT ![t] = "idle"]
      BY <2>4 DEF TrySend, Return
    <3>. QED BY <1>0, <1>1, <3>1, <3>2
  <2>5. CASE RecvTakes(t)
    BY <1>2, <2>5 DEF RecvTakes
  <2>6. CASE TryRecv(t)
    <3>1. CASE Return(t, <<"refused">>) /\ UNCHANGED <<closed_, q_, not_empty_, not_full_>>
      BY <1>0, <1>1, <2>6, <3>1 DEF TryRecv, Return
    <3>. QED BY <1>2, <2>6, <3>1 DEF TryRecv
  <2>7. CASE CloseSets(t)
    <3>1. t \notin notified /\ call'[t] = "closing" /\ notified' = notified
      BY <1>0, <2>7 DEF CloseSets
    <3>. QED BY <3>1 DEF CloserStillToNotify
  <2>8. CASE CloseNotifiesEmpty(t)
    BY <2>8 DEF CloseNotifiesEmpty, CloserStillToNotify
  <2>9. CASE CloseNotifiesFull(t)
    BY <1>0, <2>9 DEF CloseNotifiesFull, CloserStillToNotify
  <2>. QED BY <1>3, <2>1, <2>2, <2>3, <2>4, <2>5, <2>6, <2>7, <2>8, <2>9 DEF Runs
<1>4. ASSUME NEW t \in Threads, Invoke(t) PROVE CloserStillToNotify'
  BY <1>0, <1>1, <1>4 DEF Invoke
<1>5. ASSUME NEW t \in Threads, WakesSpuriously(t) PROVE CloserStillToNotify'
  BY <1>1, <1>5 DEF WakesSpuriously
<1>6. CASE UNCHANGED vars
  BY <1>1, <1>6 DEF vars
<1>. QED BY <1>3, <1>4, <1>5, <1>6 DEF Next

\* No wake-up of Channel is ever lost: whoever sleeps has either nothing to do, or another
\* thread awake, or inside close(), that does it or wakes it.
THEOREM NoLostWakeupTheorem == Spec => []NoLostWakeup
<1>1. Init => NoLostMessageWakeup /\ NoLostRoomWakeup /\ CloserStillToNotify
  BY DEF Init, NoLostMessageWakeup, NoLostRoomWakeup, CloserStillToNotify
<1>2. IInv /\ NoLostWakeup /\ [Next]_vars => NoLostWakeup'
  BY NextIInv, MessageWakeupStep, RoomWakeupStep, CloserStep DEF NoLostWakeup
<1>. QED BY InitIInv, NextIInv, <1>1, <1>2, PTL DEF Spec, NoLostWakeup

-----------------------------------------------------------------------------
\* A critical section of the channel is one step of the queue it promises, or none: going to
\* sleep, waking up and notifying are invisible to the callers.
LEMMA StepImplements ==
  ASSUME IInv, [Next]_vars PROVE [Contract!Next]_(Contract!vars)
<1> USE DEF Contract!vars, Contract!Message, Message, Contract!Return, Return
<1>0. q_ \in Seq(Threads \X (1 .. MaxCalls)) /\ capacity_ \in Nat
  BY ChannelAssumption DEF ChannelAssumption, IInv, TypeOK
<1>1. ASSUME NEW t \in Threads, Invoke(t) PROVE Contract!Invoke(t)
  BY <1>1 DEF Invoke, Contract!Invoke, Contract!Idle
<1>2. ASSUME NEW t \in Threads, Pop(t), call[t] \in {"recv", "try_recv"} PROVE Contract!Deliver(t)
  BY <1>2 DEF Pop, Contract!Deliver, Contract!Value
<1>3. ASSUME NEW t \in Threads, Runs(t) PROVE [Contract!Next]_(Contract!vars)
  <2>1. CASE SendSleeps(t) \/ RecvSleeps(t) \/ CloseNotifiesEmpty(t)
    BY <2>1 DEF SendSleeps, RecvSleeps, CloseNotifiesEmpty
  <2>2. CASE SendPushes(t)
    <3>1. Contract!Accept(t)
      BY <1>0, <2>2 DEF SendPushes, MaySend, Contract!Accept, Contract!HasRoom, Contract!Ok
    <3>. QED BY <3>1 DEF Contract!Next
  <2>3. CASE SendThrows(t)
    <3>1. Contract!Fail(t)
      BY <2>3 DEF SendThrows, Contract!Fail, Contract!Throw
    <3>. QED BY <3>1 DEF Contract!Next
  <2>4. CASE RecvThrows(t)
    <3>1. Contract!Fail(t)
      BY <2>4 DEF RecvThrows, Contract!Fail, Contract!Throw
    <3>. QED BY <3>1 DEF Contract!Next
  <2>5. CASE RecvTakes(t)
    BY <1>2, <2>5 DEF RecvTakes, Contract!Next
  <2>6. CASE TrySend(t)
    <3>1. CASE closed_ \/ (capacity_ > 0 /\ Len(q_) >= capacity_)
      <4>1. Contract!Refuse(t)
        BY <1>0, <2>6, <3>1 DEF TrySend, Contract!Refuse, Contract!Refused, Contract!HasRoom
      <4>. QED BY <4>1 DEF Contract!Next
    <3>2. CASE ~(closed_ \/ (capacity_ > 0 /\ Len(q_) >= capacity_))
      <4>1. Contract!Accept(t)
        BY <1>0, <2>6, <3>2 DEF TrySend, Contract!Accept, Contract!Ok, Contract!HasRoom
      <4>. QED BY <4>1 DEF Contract!Next
    <3>. QED BY <3>1, <3>2
  <2>7. CASE TryRecv(t)
    <3>1. CASE Pop(t)
      BY <1>2, <2>7, <3>1 DEF TryRecv, Contract!Next
    <3>2. CASE ~Pop(t)
      <4>1. Contract!Refuse(t)
        BY <2>7, <3>2 DEF TryRecv, Contract!Refuse, Contract!Refused
      <4>. QED BY <4>1 DEF Contract!Next
    <3>. QED BY <3>1, <3>2
  <2>8. CASE CloseSets(t)
    <3>1. Contract!Close(t)
      BY <2>8 DEF CloseSets, Contract!Close
    <3>. QED BY <3>1 DEF Contract!Next
  <2>9. CASE CloseNotifiesFull(t)
    <3>1. Contract!CloseReturns(t)
      BY <2>9 DEF CloseNotifiesFull, Contract!CloseReturns, Contract!Ok
    <3>. QED BY <3>1 DEF Contract!Next
  <2>. QED BY <1>3, <2>1, <2>2, <2>3, <2>4, <2>5, <2>6, <2>7, <2>8, <2>9 DEF Runs
<1>4. ASSUME NEW t \in Threads, WakesSpuriously(t) PROVE UNCHANGED Contract!vars
  BY <1>4 DEF WakesSpuriously
<1>5. CASE UNCHANGED vars
  BY <1>5 DEF vars
<1>. QED BY <1>1, <1>3, <1>4, <1>5 DEF Next, Contract!Next

\* The channel implements the queue of ClosableQueue, its progress left aside: FIFO, bounded,
\* refusing after close, delivering what was accepted before it.
THEOREM ImplementsQueue == Spec => Contract!Init /\ [][Contract!Next]_(Contract!vars)
<1>1. Init => Contract!Init
  BY DEF Init, Contract!Init
<1>. QED BY InitIInv, NextIInv, StepImplements, <1>1, PTL DEF Spec
=============================================================================
