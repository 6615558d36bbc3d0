----------------------------- MODULE ActorProofs -----------------------------
(***************************************************************************)
(* Safety of fp::Actor for every set of clients, every mailbox capacity    *)
(* and every number of messages: messages are applied once and in the      *)
(* order of acceptance, snapshots are never older than an answer, and the  *)
(* destructor leaves nothing behind.                                       *)
(***************************************************************************)
EXTENDS Actor, SequenceTheorems, TLAPS

Holding == {"lock", "handle", "reply", "assign"}

MailboxOK == /\ capacity_ \in Nat /\ q_ \in Seq(Messages)
             /\ call \in [Threads -> {"idle", "send", "recv", "close", "closing"}]
             /\ calls \in [Threads -> Nat]
LoopOK    == /\ mu_ \in Clients \cup {Loop, NoOne} /\ pc \in {"recv", "exited"} \cup Holding
             /\ pc \in Holding => item \in Messages
             /\ new_state \in Seq(Messages) /\ state_ \in Seq(Messages)
HistoryOK == /\ accepted \in Seq(Messages) /\ asks \subseteq Messages
             /\ answer \in [Messages -> Seq(Messages)]
             /\ snapshots \in [Clients -> Nat] /\ dtor \in {"alive", "closing", "joining", "gone"}
TypeOK == MailboxOK /\ LoopOK /\ HistoryOK

\* A client makes one send at a time and numbers its messages, so no two messages are equal and
\* the one being sent has not been accepted.
SendersInv ==
  /\ \A c \in Clients : /\ call[c] \in {"idle", "send"} /\ calls[c] <= MaxSends
                        /\ call[c] = "send" => 0 < calls[c]
  /\ \A i \in 1 .. Len(accepted) :
       /\ accepted[i][2] <= calls[accepted[i][1]]
       /\ call[accepted[i][1]] = "send" => accepted[i][2] < calls[accepted[i][1]]
  /\ \A i, j \in 1 .. Len(accepted) : accepted[i] = accepted[j] => i = j

\* An ask was accepted, unless its client is still in the call.
AsksInv ==
  \A m \in asks : /\ m[2] <= calls[m[1]]
                  /\ \/ \E i \in 1 .. Len(accepted) : accepted[i] = m
                     \/ call[m[1]] = "send" /\ m[2] = calls[m[1]]

\* The thread holds mu_ from the handler to the assignment.
LoopInv ==
  /\ mu_ = Loop <=> pc \in {"handle", "reply", "assign"}
  /\ call[Loop] \in {"idle", "recv"}
  /\ call[Loop] = "recv" => pc = "recv"
  /\ pc \in {"reply", "assign"} => new_state = Append(state_, item)

\* What was accepted is what was applied, then the message in hand, then what waits.
Held == IF pc \in Holding THEN 1 ELSE 0
OrderInv ==
  /\ Len(accepted) = Len(state_) + Held + Len(q_)
  /\ \A k \in 1 .. Len(state_) : accepted[k] = state_[k]
  /\ pc \in Holding => accepted[Len(state_) + 1] = item
  /\ \A k \in 1 .. Len(q_) : accepted[Len(state_) + Held + k] = q_[k]

\* The answers given so far, each the first i messages for the i-th one.
Settled == Len(state_) + (IF pc = "assign" THEN 1 ELSE 0)
AnswersTo(m, i) == Len(answer[m]) = i /\ \A k \in 1 .. i : answer[m][k] = accepted[k]
AnswersInv ==
  /\ \A m \in Messages :
       answer[m] # Unanswered => \E i \in 1 .. Settled : accepted[i] = m /\ AnswersTo(m, i)
  /\ \A i \in 1 .. Settled : accepted[i] \in asks => AnswersTo(accepted[i], i)

\* Nobody uses the actor once its destructor began; the thread leaves a closed, empty mailbox.
DestructorInv ==
  /\ dtor = "alive" => ~closed_ /\ call[Owner] = "idle"
  /\ dtor # "alive" => mu_ \notin Clients /\ \A c \in Clients : call[c] = "idle"
  /\ pc = "exited" => closed_ /\ q_ = <<>>
  /\ dtor = "gone" => pc = "exited"

IInv == TypeOK /\ SendersInv /\ AsksInv /\ LoopInv /\ OrderInv /\ AnswersInv /\ DestructorInv

-----------------------------------------------------------------------------
LEMMA ThreadFacts ==
  /\ Loop \in Threads /\ Owner \in Threads /\ Clients \subseteq Threads
  /\ Loop # Owner /\ Loop \notin Clients /\ Owner \notin Clients
  /\ NoOne \notin Clients /\ NoOne # Loop /\ MaxSends \in Nat
  /\ MayCall[Loop] = {"recv"} /\ MayCall[Owner] = {"close"} /\ \A c \in Clients : MayCall[c] = {"send"}
BY ActorAssumption DEF ActorAssumption, Threads, MayCall

LEMMA InitIInv == Init => IInv
<1> SUFFICES ASSUME Init PROVE IInv
  OBVIOUS
<1> USE ThreadFacts DEF Init, Mailbox!Init, Holding
<1>1. capacity_ \in Nat
  BY ActorAssumption DEF ActorAssumption
<1>2. MailboxOK /\ LoopOK
  BY <1>1 DEF MailboxOK, LoopOK
<1>3. HistoryOK
  BY DEF HistoryOK, Unanswered
<1>4. SendersInv /\ AsksInv
  BY DEF SendersInv, AsksInv
<1>5. LoopInv /\ OrderInv /\ AnswersInv /\ DestructorInv
  BY DEF LoopInv, OrderInv, AnswersInv, DestructorInv, Held, Settled
<1>. QED BY <1>2, <1>3, <1>4, <1>5 DEF IInv, TypeOK

\* The message numbers, read off the types once.
LEMMA MessageFacts ==
  ASSUME HistoryOK, MaxSends \in Nat
  PROVE  \A i \in 1 .. Len(accepted) :
           /\ accepted[i] \in Messages /\ accepted[i] = <<accepted[i][1], accepted[i][2]>>
           /\ accepted[i][1] \in Clients /\ accepted[i][2] \in Nat
<1>1. \A i \in 1 .. Len(accepted) : accepted[i] \in Messages
  BY DEF HistoryOK
<1>2. \A m \in Messages : m = <<m[1], m[2]>> /\ m[1] \in Clients /\ m[2] \in Nat
  BY DEF Messages
<1>. QED BY <1>1, <1>2

LEMMA SettledFacts ==
  ASSUME LoopOK, OrderInv, MailboxOK
  PROVE  /\ Len(state_) \in Nat /\ Len(q_) \in Nat /\ Held \in Nat /\ Settled \in Nat
         /\ Len(accepted) = Len(state_) + Held + Len(q_)
         /\ Settled <= Len(accepted) /\ Len(state_) <= Settled
<1>1. Len(state_) \in Nat /\ Len(q_) \in Nat
  BY DEF LoopOK, MailboxOK
<1>2. Len(accepted) = Len(state_) + Held + Len(q_)
  BY DEF OrderInv
<1>. QED BY <1>1, <1>2 DEF Held, Settled, Holding

\* A step of the loop or the destructor leaves the clients' calls alone.
LEMMA SameClients ==
  ASSUME HistoryOK, SendersInv, AsksInv, UNCHANGED <<accepted, asks>>,
         \A c \in Clients : call'[c] = call[c] /\ calls'[c] = calls[c]
  PROVE  SendersInv' /\ AsksInv'
<1>1. SendersInv'
  BY MessageFacts, ThreadFacts DEF SendersInv
<1>2. \A m \in asks : m[1] \in Clients
  BY DEF HistoryOK, Messages
<1>. QED BY <1>1, <1>2 DEF AsksInv

LEMMA CallsStep == ASSUME IInv, NEW c \in Clients, Calls(c) PROVE IInv'
<1> USE DEF IInv, TypeOK
<1>1. c \in Threads /\ c # Loop /\ c # Owner /\ MaxSends \in Nat
  BY ThreadFacts
<1>2. call[c] = "idle" /\ calls[c] < MaxSends /\ calls[c] \in Nat /\ dtor = "alive"
  BY <1>1 DEF Calls, Free, MailboxOK
<1>3. call' = [call EXCEPT ![c] = "send"] /\ calls' = [calls EXCEPT ![c] = @ + 1]
  <2>1. MayCall[c] = {"send"}
    BY ThreadFacts
  <2>. QED BY <2>1 DEF Calls, Mailbox!Invoke
<1>4. asks' = asks \/ asks' = asks \cup {<<c, calls[c] + 1>>}
  BY DEF Calls
<1>5. UNCHANGED <<capacity_, closed_, q_, mu_, pc, item, new_state, state_, accepted, answer, snapshots, dtor>>
  BY DEF Calls, Mailbox!Invoke, loopVars
<1>6. <<c, calls[c] + 1>> \in Messages
  BY <1>1, <1>2 DEF Messages
<1>7. MailboxOK'
  <2>1. call' \in [Threads -> {"idle", "send", "recv", "close", "closing"}]
    BY <1>3 DEF MailboxOK
  <2>2. calls' \in [Threads -> Nat]
    BY <1>1, <1>2, <1>3 DEF MailboxOK
  <2>. QED BY <1>5, <2>1, <2>2 DEF MailboxOK
<1>8. LoopOK'
  BY <1>5 DEF LoopOK
<1>9. HistoryOK'
  BY <1>4, <1>5, <1>6 DEF HistoryOK
<1>10. \A t \in Threads : /\ call'[t] = IF t = c THEN "send" ELSE call[t]
                          /\ calls'[t] = IF t = c THEN calls[c] + 1 ELSE calls[t]
                          /\ calls[t] \in Nat
  BY <1>2, <1>3 DEF MailboxOK
<1>11. \A i \in 1 .. Len(accepted) :
         /\ accepted[i][1] \in Threads /\ accepted[i][2] \in Nat /\ accepted[i][1] \in Clients
         /\ accepted[i] # <<c, calls[c] + 1>>
  BY <1>1, <1>2, MessageFacts, ThreadFacts DEF SendersInv
<1>12. SendersInv'
  <2>1. \A b \in Clients : /\ call'[b] \in {"idle", "send"} /\ calls'[b] <= MaxSends
                           /\ call'[b] = "send" => 0 < calls'[b]
    BY <1>1, <1>2, <1>10, ThreadFacts DEF SendersInv
  <2>2. ASSUME NEW i \in 1 .. Len(accepted)
        PROVE  /\ accepted[i][2] <= calls'[accepted[i][1]]
               /\ call'[accepted[i][1]] = "send" => accepted[i][2] < calls'[accepted[i][1]]
    BY <1>2, <1>10, <1>11 DEF SendersInv
  <2>. QED BY <1>5, <2>1, <2>2 DEF SendersInv
<1>13. AsksInv'
  <2>1. ASSUME NEW m \in asks
        PROVE  m[1] \in Threads /\ calls[m[1]] \in Nat /\ m[2] \in Nat
    <3>1. m \in Messages
      BY DEF HistoryOK
    <3>. QED BY <1>1, <1>10, <3>1, ThreadFacts DEF Messages
  <2>2. ASSUME NEW m \in asks
        PROVE  m[2] <= calls'[m[1]] /\ (call[m[1]] = "send" /\ m[2] = calls[m[1]] => call'[m[1]] = "send" /\ m[2] = calls'[m[1]])
    BY <1>2, <1>10, <2>1 DEF AsksInv
  <2>. QED BY <1>1, <1>2, <1>4, <1>5, <1>10, <2>2 DEF AsksInv
<1>14. LoopInv' /\ DestructorInv'
  BY <1>1, <1>2, <1>5, <1>10, ThreadFacts DEF LoopInv, DestructorInv
<1>15. OrderInv'
  BY <1>5 DEF OrderInv, Held
<1>16. AnswersInv'
  <2>1. Settled' = Settled /\ Settled \in Nat /\ Settled <= Len(accepted) /\ Len(accepted) \in Nat
    BY <1>5, SettledFacts DEF Settled, HistoryOK
  <2>2. \A i \in 1 .. Settled : accepted[i] \in asks' => accepted[i] \in asks
    BY <1>4, <1>11, <2>1
  <2>3. \A a, i : AnswersTo(a, i)' <=> AnswersTo(a, i)
    BY <1>5 DEF AnswersTo
  <2>. QED BY <1>5, <2>1, <2>2, <2>3 DEF AnswersInv
<1>. QED BY <1>7, <1>8, <1>9, <1>12, <1>13, <1>14, <1>15, <1>16

LEMMA AcceptedStep == ASSUME IInv, NEW c \in Clients, Accepted(c) PROVE IInv'
<1> USE DEF IInv, TypeOK
<1> DEFINE m == <<c, calls[c]>>
           n == Len(accepted)
<1>0. c \in Threads /\ c # Loop /\ c # Owner /\ MaxSends \in Nat
  BY ThreadFacts
<1>1. call[c] = "send" /\ ~closed_ /\ calls[c] \in 1 .. MaxSends
  <2>1. calls[c] \in Nat /\ calls[c] <= MaxSends /\ call[c] \in {"idle", "send"} /\ (call[c] = "send" => 0 < calls[c])
    BY <1>0 DEF SendersInv, MailboxOK
  <2>. QED BY <1>0, <2>1 DEF Accepted, Mailbox!Accept
<1>2. call' = [call EXCEPT ![c] = "idle"] /\ accepted' = Append(accepted, m) /\ q_' = Append(q_, m)
  BY DEF Accepted, Mailbox!Accept, Mailbox!Return, Mailbox!Message
<1>3. UNCHANGED <<capacity_, closed_, calls, mu_, pc, item, new_state, state_, asks, answer, snapshots, dtor>>
  BY DEF Accepted, Mailbox!Accept, Mailbox!Return, loopVars
<1>4. m \in Messages /\ n \in Nat /\ m[1] = c /\ m[2] = calls[c]
  BY <1>1 DEF Messages, HistoryOK
<1> HIDE DEF m
<1>5. /\ accepted' \in Seq(Messages) /\ Len(accepted') = n + 1 /\ accepted'[n + 1] = m
      /\ \A i \in 1 .. n : accepted'[i] = accepted[i]
  BY <1>2, <1>4 DEF HistoryOK
<1>6. /\ q_' \in Seq(Messages) /\ Len(q_') = Len(q_) + 1 /\ q_'[Len(q_) + 1] = m /\ Len(q_) \in Nat
      /\ \A i \in 1 .. Len(q_) : q_'[i] = q_[i]
  BY <1>2, <1>4 DEF MailboxOK
<1>7. MailboxOK'
  BY <1>2, <1>3, <1>6 DEF MailboxOK
<1>8. LoopOK'
  BY <1>3 DEF LoopOK
<1>9. HistoryOK'
  BY <1>3, <1>5 DEF HistoryOK
<1>10. \A t \in Threads : call'[t] = IF t = c THEN "idle" ELSE call[t]
  BY <1>2 DEF MailboxOK
<1>11. \A i \in 1 .. n : /\ accepted[i] # m /\ accepted[i][1] \in Clients /\ accepted[i][1] \in Threads
                         /\ accepted[i][2] \in Nat
  <2>1. ASSUME NEW i \in 1 .. n, accepted[i] = m PROVE FALSE
    BY <1>1, <1>4, <2>1 DEF SendersInv
  <2>. QED BY <1>0, <2>1, MessageFacts, ThreadFacts
<1>12. SendersInv'
  <2>1. \A i, j \in 1 .. n + 1 : accepted'[i] = accepted'[j] => i = j
    <3>1. \A i, j \in 1 .. n : accepted'[i] = accepted'[j] => i = j
      BY <1>5 DEF SendersInv
    <3>2. \A i \in 1 .. n : accepted'[i] # accepted'[n + 1]
      BY <1>5, <1>11
    <3>. QED BY <1>4, <3>1, <3>2
  <2>2. ASSUME NEW i \in 1 .. n
        PROVE  /\ accepted'[i][2] <= calls'[accepted'[i][1]]
               /\ call'[accepted'[i][1]] = "send" => accepted'[i][2] < calls'[accepted'[i][1]]
    BY <1>3, <1>5, <1>10, <1>11 DEF SendersInv
  <2>3. /\ accepted'[n + 1][2] <= calls'[accepted'[n + 1][1]]
        /\ call'[accepted'[n + 1][1]] # "send"
    BY <1>0, <1>1, <1>3, <1>4, <1>5, <1>10
  <2>4. \A b \in Clients : /\ call'[b] \in {"idle", "send"} /\ calls'[b] <= MaxSends
                           /\ call'[b] = "send" => 0 < calls'[b]
    BY <1>3, <1>10, ThreadFacts DEF SendersInv
  <2>5. \A i \in 1 .. Len(accepted') : i \in 1 .. n \/ i = n + 1
    BY <1>4, <1>5
  <2>. QED BY <1>5, <2>1, <2>2, <2>3, <2>4, <2>5 DEF SendersInv
<1>13. AsksInv'
  <2> SUFFICES ASSUME NEW a \in asks
               PROVE  /\ a[2] <= calls[a[1]]
                      /\ \/ \E i \in 1 .. n + 1 : accepted'[i] = a
                         \/ call'[a[1]] = "send" /\ a[2] = calls[a[1]]
    BY <1>3, <1>5 DEF AsksInv
  <2>1. CASE \E i \in 1 .. n : accepted[i] = a
    BY <1>4, <1>5, <2>1 DEF AsksInv
  <2>2. CASE call[a[1]] = "send" /\ a[2] = calls[a[1]]
    <3>1. a = <<a[1], a[2]>> /\ a[1] \in Clients
      BY DEF HistoryOK, Messages
    <3>2. CASE a[1] = c
      <4>1. accepted'[n + 1] = a /\ n + 1 \in 1 .. n + 1
        BY <1>4, <1>5, <2>2, <3>1, <3>2 DEF m
      <4>. QED BY <4>1 DEF AsksInv
    <3>3. CASE a[1] # c
      BY <1>10, <2>2, <3>1, <3>3, ThreadFacts DEF AsksInv
    <3>. QED BY <3>2, <3>3
  <2>. QED BY <2>1, <2>2 DEF AsksInv
<1>14. LoopInv' /\ DestructorInv'
  BY <1>0, <1>1, <1>3, <1>10, ThreadFacts DEF LoopInv, DestructorInv
<1>15. OrderInv'
  <2>1. Len(state_) \in Nat /\ Held \in Nat /\ Held' = Held /\ n = Len(state_) + Held + Len(q_)
    BY <1>3, SettledFacts DEF Held
  <2>2. \A k \in 1 .. Len(state_) : accepted'[k] = state_[k]
    <3>1. \A k \in 1 .. Len(state_) : k \in 1 .. n
      BY <1>6, <2>1
    <3>. QED BY <1>5, <3>1 DEF OrderInv
  <2>3. pc \in Holding => accepted'[Len(state_) + 1] = item
    BY <1>5, <1>6, <2>1 DEF OrderInv, Held
  <2>4. \A k \in 1 .. Len(q_) : accepted'[Len(state_) + Held + k] = q_'[k]
    <3>1. \A k \in 1 .. Len(q_) : Len(state_) + Held + k \in 1 .. n
      BY <1>6, <2>1
    <3>. QED BY <1>5, <1>6, <3>1 DEF OrderInv
  <2>5. accepted'[Len(state_) + Held + (Len(q_) + 1)] = q_'[Len(q_) + 1]
    BY SMTT(30), <1>5, <1>6, <2>1
  <2>6. \A k \in 1 .. Len(q_') : accepted'[Len(state_) + Held + k] = q_'[k]
    <3>1. \A k \in 1 .. Len(q_') : k \in 1 .. Len(q_) \/ k = Len(q_) + 1
      BY <1>6
    <3>. QED BY <2>4, <2>5, <3>1
  <2>7. Len(accepted') = Len(state_) + Held + Len(q_')
    BY <1>5, <1>6, <2>1
  <2>. QED BY <1>3, <2>1, <2>2, <2>3, <2>6, <2>7 DEF OrderInv
<1>16. AnswersInv'
  <2>1. Settled' = Settled /\ Settled \in Nat /\ Settled <= n
    BY <1>3, SettledFacts DEF Settled
  <2>2. \A a : \A i \in 1 .. Settled : AnswersTo(a, i)' <=> AnswersTo(a, i)
    BY <1>3, <1>4, <1>5, <2>1 DEF AnswersTo
  <2>3. \A i \in 1 .. Settled : accepted'[i] = accepted[i]
    BY <1>4, <1>5, <2>1
  <2>. QED BY <1>3, <2>1, <2>2, <2>3 DEF AnswersInv
<1>. QED BY <1>7, <1>8, <1>9, <1>12, <1>13, <1>14, <1>15, <1>16

\* The mutex alone changes hands.
LEMMA SnapshotSteps ==
  ASSUME IInv, NEW c \in Clients, SnapshotTakes(c) \/ SnapshotReturns(c) PROVE IInv'
<1> USE DEF IInv, TypeOK
<1>1. UNCHANGED <<capacity_, closed_, q_, call, calls, pc, item, new_state, state_, accepted, asks, answer, dtor>>
  BY DEF SnapshotTakes, SnapshotReturns, mailboxVars, loopVars
<1>2. /\ mu_' \in {c, NoOne} /\ mu_ # Loop /\ mu_' # Loop
      /\ mu_' \in Clients => dtor = "alive"
      /\ snapshots' \in [Clients -> Nat]
  <2>1. CASE SnapshotTakes(c)
    <3>1. mu_ = NoOne /\ mu_' = c /\ dtor = "alive"
      BY <2>1 DEF SnapshotTakes, Free
    <3>2. snapshots' \in [Clients -> Nat]
      BY <2>1 DEF SnapshotTakes, HistoryOK
    <3>. QED BY <3>1, <3>2, ThreadFacts
  <2>2. CASE SnapshotReturns(c)
    <3>1. mu_ = c /\ mu_' = NoOne /\ snapshots' = snapshots
      BY <2>2 DEF SnapshotReturns
    <3>. QED BY <3>1, ThreadFacts DEF HistoryOK
  <2>. QED BY <2>1, <2>2
<1>3. MailboxOK' /\ LoopOK' /\ HistoryOK'
  BY <1>1, <1>2 DEF MailboxOK, LoopOK, HistoryOK
<1>4. SendersInv' /\ AsksInv' /\ OrderInv'
  BY <1>1 DEF SendersInv, AsksInv, OrderInv, Held
<1>5. AnswersInv'
  BY <1>1 DEF AnswersInv, AnswersTo, Settled
<1>6. LoopInv' /\ DestructorInv'
  BY <1>1, <1>2 DEF LoopInv, DestructorInv
<1>. QED BY <1>3, <1>4, <1>5, <1>6

-----------------------------------------------------------------------------
\* loop() and the destructor.

LEMMA ReceivesStep == ASSUME IInv, Receives PROVE IInv'
<1> USE DEF IInv, TypeOK
<1>1. /\ UNCHANGED <<capacity_, closed_, q_, mu_, pc, item, new_state, state_, accepted, asks, answer, snapshots, dtor>>
      /\ pc = "recv"
  BY DEF Receives, Mailbox!Invoke, loopVars
<1>2. call' = [call EXCEPT ![Loop] = "recv"] /\ calls' = [calls EXCEPT ![Loop] = @ + 1]
  <2>1. MayCall[Loop] = {"recv"}
    BY ThreadFacts
  <2>. QED BY <2>1 DEF Receives, Mailbox!Invoke
<1>3. \A t \in Threads : /\ call'[t] = IF t = Loop THEN "recv" ELSE call[t]
                         /\ t # Loop => calls'[t] = calls[t]
  BY <1>2 DEF MailboxOK
<1>4. MailboxOK'
  BY <1>1, <1>2, ThreadFacts DEF MailboxOK
<1>5. LoopOK' /\ HistoryOK'
  BY <1>1 DEF LoopOK, HistoryOK
<1>6. \A c \in Clients : call'[c] = call[c] /\ calls'[c] = calls[c]
  BY <1>3, ThreadFacts
<1>7. SendersInv' /\ AsksInv'
  BY <1>1, <1>6, SameClients
<1>9. OrderInv'
  BY <1>1 DEF OrderInv, Held
<1>10. AnswersInv'
  BY <1>1 DEF AnswersInv, AnswersTo, Settled
<1>11. LoopInv' /\ DestructorInv'
  BY <1>1, <1>3, <1>6, ThreadFacts DEF LoopInv, DestructorInv
<1>. QED BY <1>4, <1>5, <1>7, <1>9, <1>10, <1>11

LEMMA TakesStep == ASSUME IInv, Takes PROVE IInv'
<1> USE DEF IInv, TypeOK
<1>1. UNCHANGED <<capacity_, closed_, calls, mu_, new_state, state_, accepted, asks, answer, snapshots, dtor>>
  BY DEF Takes, Mailbox!Deliver, Mailbox!Return
<1>2. /\ call[Loop] = "recv" /\ call' = [call EXCEPT ![Loop] = "idle"]
      /\ q_ # <<>> /\ item' = Head(q_) /\ q_' = Tail(q_) /\ pc' = "lock"
  <2>1. call[Loop] \in {"recv", "try_recv"} /\ call[Loop] \in {"idle", "send", "recv", "close", "closing"}
    BY ThreadFacts DEF Takes, Mailbox!Deliver, MailboxOK
  <2>. QED BY <2>1 DEF Takes, Mailbox!Deliver, Mailbox!Return
<1>3. pc = "recv" /\ mu_ # Loop
  BY <1>2 DEF LoopInv
<1>4. /\ q_' \in Seq(Messages) /\ Len(q_) \in Nat /\ Len(q_) > 0 /\ Len(q_') = Len(q_) - 1
      /\ item' \in Messages /\ item' = q_[1] /\ \A k \in 1 .. Len(q_') : q_'[k] = q_[k + 1]
  <2>1. q_ \in Seq(Messages) /\ q_ # <<>>
    BY <1>2 DEF MailboxOK
  <2>. QED BY <1>2, <2>1, HeadTailProperties
<1>5. \A t \in Threads : call'[t] = IF t = Loop THEN "idle" ELSE call[t]
  BY <1>2 DEF MailboxOK
<1>6. MailboxOK'
  BY <1>1, <1>2, <1>4 DEF MailboxOK
<1>7. LoopOK' /\ HistoryOK'
  BY <1>1, <1>2, <1>4 DEF LoopOK, HistoryOK, Holding
<1>8. \A c \in Clients : call'[c] = call[c]
  BY <1>5, ThreadFacts
<1>9. SendersInv' /\ AsksInv'
  BY <1>1, <1>8, SameClients
<1>11. Held = 0 /\ Held' = 1 /\ Settled' = Settled /\ Len(state_) \in Nat
  BY <1>1, <1>2, <1>3, SettledFacts DEF Held, Settled, Holding
<1>12. OrderInv'
  <2>1. Len(accepted) = Len(state_) + 1 + Len(q_') /\ \A k \in 1 .. Len(state_) : accepted[k] = state_[k]
    BY <1>4, <1>11 DEF OrderInv
  <2>2. accepted[Len(state_) + 1] = item'
    BY <1>4, <1>11 DEF OrderInv
  <2>3. \A k \in 1 .. Len(q_') : accepted[Len(state_) + 1 + k] = q_'[k]
    <3>1. \A k \in 1 .. Len(q_') : k + 1 \in 1 .. Len(q_) /\ Len(state_) + 0 + (k + 1) = Len(state_) + 1 + k
      BY <1>4, <1>11
    <3>2. \A k \in 1 .. Len(q_) : accepted[Len(state_) + 0 + k] = q_[k]
      BY <1>11 DEF OrderInv
    <3>. QED BY <1>4, <3>1, <3>2
  <2>. QED BY <1>1, <1>11, <2>1, <2>2, <2>3 DEF OrderInv
<1>13. AnswersInv'
  BY <1>1, <1>11 DEF AnswersInv, AnswersTo
<1>14. LoopInv' /\ DestructorInv'
  BY <1>1, <1>2, <1>3, <1>5, <1>8, ThreadFacts DEF LoopInv, DestructorInv
<1>. QED BY <1>6, <1>7, <1>9, <1>12, <1>13, <1>14

LEMMA ExitsStep == ASSUME IInv, Exits PROVE IInv'
<1> USE DEF IInv, TypeOK
<1>1. UNCHANGED <<capacity_, closed_, q_, calls, mu_, item, new_state, state_, accepted, asks, answer, snapshots, dtor>>
  BY DEF Exits, Mailbox!Fail, Mailbox!Return
<1>2. call[Loop] = "recv" /\ call' = [call EXCEPT ![Loop] = "idle"] /\ closed_ /\ q_ = <<>> /\ pc' = "exited"
  <2>1. call[Loop] # "send"
    BY DEF Exits, Mailbox!Fail, LoopInv
  <2>. QED BY <2>1 DEF Exits, Mailbox!Fail, Mailbox!Return
<1>3. pc = "recv" /\ mu_ # Loop
  BY <1>2 DEF LoopInv
<1>5. \A t \in Threads : call'[t] = IF t = Loop THEN "idle" ELSE call[t]
  BY <1>2 DEF MailboxOK
<1>6. MailboxOK'
  BY <1>1, <1>2 DEF MailboxOK
<1>7. LoopOK' /\ HistoryOK'
  BY <1>1, <1>2 DEF LoopOK, HistoryOK, Holding
<1>8. \A c \in Clients : call'[c] = call[c]
  BY <1>5, ThreadFacts
<1>9. SendersInv' /\ AsksInv'
  BY <1>1, <1>8, SameClients
<1>11. Held' = Held /\ Settled' = Settled
  BY <1>1, <1>2, <1>3 DEF Held, Settled, Holding
<1>12. OrderInv' /\ AnswersInv'
  BY <1>1, <1>2, <1>11 DEF OrderInv, AnswersInv, AnswersTo, Holding
<1>14. LoopInv' /\ DestructorInv'
  BY <1>1, <1>2, <1>3, <1>5, <1>8, ThreadFacts DEF LoopInv, DestructorInv
<1>. QED BY <1>6, <1>7, <1>9, <1>12, <1>14

\* From the lock to the assignment the mailbox stands still.
LEMMA SameMailbox ==
  ASSUME MailboxOK, HistoryOK, SendersInv, AsksInv, UNCHANGED <<mailboxVars, accepted, asks>>
  PROVE  MailboxOK' /\ SendersInv' /\ AsksInv'
BY SameClients DEF mailboxVars, MailboxOK

LEMMA LocksStep == ASSUME IInv, Locks PROVE IInv'
<1> USE DEF IInv, TypeOK
<1>1. UNCHANGED <<mailboxVars, item, new_state, state_, accepted, asks, answer, snapshots, dtor>>
  BY DEF Locks
<1>2. pc = "lock" /\ mu_ = NoOne /\ mu_' = Loop /\ pc' = "handle"
  BY DEF Locks
<1>3. LoopOK' /\ HistoryOK'
  BY <1>1, <1>2 DEF LoopOK, HistoryOK, Holding
<1>4. Held' = Held /\ Settled' = Settled
  BY <1>1, <1>2 DEF Held, Settled, Holding
<1>5. OrderInv' /\ AnswersInv'
  BY <1>1, <1>2, <1>4 DEF OrderInv, AnswersInv, AnswersTo, Holding, mailboxVars
<1>6. LoopInv' /\ DestructorInv'
  BY <1>1, <1>2, ThreadFacts DEF LoopInv, DestructorInv, mailboxVars
<1>. QED BY <1>1, <1>3, <1>5, <1>6, SameMailbox

LEMMA HandlesStep == ASSUME IInv, Handles PROVE IInv'
<1> USE DEF IInv, TypeOK
<1>1. UNCHANGED <<mailboxVars, mu_, item, state_, accepted, asks, answer, snapshots, dtor>>
  BY DEF Handles
<1>2. pc = "handle" /\ pc' = "reply" /\ new_state' = Append(state_, item)
  BY DEF Handles
<1>3. new_state' \in Seq(Messages)
  BY <1>2 DEF LoopOK, Holding
<1>4. LoopOK' /\ HistoryOK'
  BY <1>1, <1>2, <1>3 DEF LoopOK, HistoryOK, Holding
<1>5. Held' = Held /\ Settled' = Settled
  BY <1>1, <1>2 DEF Held, Settled, Holding
<1>6. OrderInv' /\ AnswersInv'
  BY <1>1, <1>2, <1>5 DEF OrderInv, AnswersInv, AnswersTo, Holding, mailboxVars
<1>7. LoopInv' /\ DestructorInv'
  BY <1>1, <1>2, ThreadFacts DEF LoopInv, DestructorInv, mailboxVars
<1>. QED BY <1>1, <1>4, <1>6, <1>7, SameMailbox

\* The answer to the message in hand is what was accepted up to it.
LEMMA RepliesStep == ASSUME IInv, Replies PROVE IInv'
<1> USE DEF IInv, TypeOK
<1> DEFINE k == Len(state_) + 1
<1>1. UNCHANGED <<mailboxVars, mu_, item, new_state, state_, accepted, asks, snapshots, dtor>>
  BY DEF Replies
<1>2. pc = "reply" /\ pc' = "assign" /\ answer' = IF item \in asks THEN [answer EXCEPT ![item] = new_state] ELSE answer
  BY DEF Replies
<1>3. item \in Messages /\ new_state = Append(state_, item) /\ state_ \in Seq(Messages) /\ new_state \in Seq(Messages)
  BY <1>2 DEF LoopOK, LoopInv, Holding
<1>4. /\ Len(new_state) = k /\ k \in Nat /\ Len(state_) \in Nat /\ new_state[k] = item
      /\ \A i \in 1 .. Len(state_) : new_state[i] = state_[i]
  BY <1>3
<1>5. Held' = Held /\ Held = 1 /\ Settled = Len(state_) /\ Settled' = k
  BY <1>1, <1>2, <1>4 DEF Held, Settled, Holding
<1>6. accepted[k] = item /\ k \in 1 .. Len(accepted) /\ Len(accepted) \in Nat /\ \A i \in 1 .. Len(state_) : accepted[i] = state_[i]
  <2>1. accepted[k] = item /\ \A i \in 1 .. Len(state_) : accepted[i] = state_[i]
    BY <1>2 DEF OrderInv, Holding
  <2>. QED BY <1>4, <1>5, <2>1, SettledFacts DEF HistoryOK
<1> HIDE DEF k
<1>7. LoopOK'
  BY <1>1, <1>2 DEF LoopOK, Holding
<1>8. HistoryOK'
  BY <1>1, <1>2, <1>3 DEF HistoryOK
<1>9. OrderInv'
  BY <1>1, <1>2, <1>5 DEF OrderInv, Holding, mailboxVars
<1>10. LoopInv' /\ DestructorInv'
  BY <1>1, <1>2, ThreadFacts DEF LoopInv, DestructorInv, mailboxVars
<1>11. \A i \in 1 .. k : accepted[i] = new_state[i]
  BY <1>4, <1>6 DEF k
<1>12. ASSUME item \in asks PROVE Len(answer'[item]) = k /\ \A i \in 1 .. k : answer'[item][i] = accepted[i]
  <2>1. answer'[item] = new_state
    BY <1>2, <1>3, <1>12 DEF HistoryOK
  <2>. QED BY <1>4, <1>11, <2>1
<1>13. \A m \in Messages : m # item \/ item \notin asks => answer'[m] = answer[m]
  BY <1>2 DEF HistoryOK
<1>14. \A i \in 1 .. Settled : i \in 1 .. k /\ accepted[i] # item
  BY <1>4, <1>5, <1>6 DEF SendersInv, k
<1>15. AnswersInv'
  <2>1. ASSUME NEW m \in Messages, answer'[m] # Unanswered
        PROVE  \E i \in 1 .. k : accepted[i] = m /\ AnswersTo(m, i)'
    <3>1. CASE m = item /\ item \in asks
      <4>1. Len(answer'[m]) = k /\ \A i \in 1 .. k : answer'[m][i] = accepted[i]
        BY <1>12, <3>1
      <4>2. accepted[k] = m /\ k \in 1 .. k
        BY <1>4, <1>6, <3>1 DEF k
      <4>. QED BY <4>1, <4>2, <1>1 DEF AnswersTo
    <3>2. CASE m # item \/ item \notin asks
      <4>1. PICK i \in 1 .. Settled : accepted[i] = m /\ AnswersTo(m, i)
        BY <1>13, <2>1, <3>2 DEF AnswersInv
      <4>2. AnswersTo(m, i)'
        BY <1>1, <1>13, <3>2, <4>1 DEF AnswersTo
      <4>. QED BY <1>14, <4>1, <4>2
    <3>. QED BY <3>1, <3>2
  <2>2. ASSUME NEW i \in 1 .. k, accepted[i] \in asks PROVE AnswersTo(accepted[i], i)'
    <3>1. CASE i = k
      BY <1>1, <1>6, <1>12, <2>2, <3>1 DEF AnswersTo
    <3>2. CASE i # k
      <4>1. i \in 1 .. Settled /\ accepted[i] \in Messages
        BY <1>4, <1>5, <2>2, <3>2 DEF k, HistoryOK
      <4>2. AnswersTo(accepted[i], i) /\ answer'[accepted[i]] = answer[accepted[i]]
        BY <1>13, <1>14, <2>2, <4>1 DEF AnswersInv
      <4>. QED BY <1>1, <4>2 DEF AnswersTo
    <3>. QED BY <3>1, <3>2
  <2>. QED BY <1>1, <1>5, <2>1, <2>2 DEF AnswersInv
<1>. QED BY <1>1, <1>7, <1>8, <1>9, <1>10, <1>15, SameMailbox

LEMMA AssignsStep == ASSUME IInv, Assigns PROVE IInv'
<1> USE DEF IInv, TypeOK
<1>1. UNCHANGED <<mailboxVars, accepted, asks, answer, snapshots, dtor>>
  BY DEF Assigns
<1>2. pc = "assign" /\ pc' = "recv" /\ mu_' = NoOne /\ state_' = new_state /\ new_state' = <<>>
  BY DEF Assigns
<1>3. item \in Messages /\ new_state = Append(state_, item) /\ state_ \in Seq(Messages)
  BY <1>2 DEF LoopOK, LoopInv, Holding
<1>4. /\ state_' \in Seq(Messages) /\ Len(state_') = Len(state_) + 1 /\ Len(state_) \in Nat /\ state_'[Len(state_) + 1] = item
      /\ \A i \in 1 .. Len(state_) : state_'[i] = state_[i]
  BY <1>2, <1>3
<1>5. Held = 1 /\ Held' = 0 /\ Settled' = Settled
  BY <1>2, <1>4 DEF Held, Settled, Holding
<1>6. LoopOK'
  BY <1>2, <1>4 DEF LoopOK, Holding
<1>7. HistoryOK'
  BY <1>1 DEF HistoryOK
<1>8. OrderInv'
  <2>1. accepted[Len(state_) + 1] = item /\ \A i \in 1 .. Len(state_) : accepted[i] = state_[i]
    BY <1>2 DEF OrderInv, Holding
  <2>2. \A i \in 1 .. Len(state_') : accepted[i] = state_'[i]
    BY <1>4, <2>1
  <2>3. Len(accepted) = Len(state_') + Len(q_) /\ Len(q_) \in Nat
    BY <1>4, <1>5, SettledFacts
  <2>4. \A i \in 1 .. Len(q_) : accepted[Len(state_') + i] = q_[i]
    BY <1>4, <1>5 DEF OrderInv
  <2>. QED BY <1>1, <1>2, <1>4, <1>5, <2>2, <2>3, <2>4 DEF OrderInv, Holding, mailboxVars
<1>9. AnswersInv'
  BY <1>1, <1>5 DEF AnswersInv, AnswersTo
<1>10. LoopInv' /\ DestructorInv'
  BY <1>1, <1>2, ThreadFacts DEF LoopInv, DestructorInv, mailboxVars
<1>. QED BY <1>1, <1>6, <1>7, <1>8, <1>9, <1>10, SameMailbox

\* ~Actor waits until no client is inside, and from then on none is.
LEMMA DestructorSteps == ASSUME IInv, Destroys \/ Destructor PROVE IInv'
<1> USE DEF IInv, TypeOK
<1>1. UNCHANGED <<capacity_, q_, mu_, pc, item, new_state, state_, accepted, asks, answer, snapshots>>
  BY DEF Destroys, Destructor, Closes, CloseReturns, Joins, Mailbox!Invoke, Mailbox!Close, Mailbox!CloseReturns,
         Mailbox!Return, mailboxVars, loopVars
<1>2. PICK op \in {"close", "closing", "idle", call[Owner]} : call' = [call EXCEPT ![Owner] = op]
  <2>1. CASE Destroys
    <3>1. MayCall[Owner] = {"close"}
      BY ThreadFacts
    <3>. QED BY <2>1, <3>1 DEF Destroys, Mailbox!Invoke
  <2>2. CASE Closes \/ CloseReturns
    BY <2>2 DEF Closes, CloseReturns, Mailbox!Close, Mailbox!CloseReturns, Mailbox!Return
  <2>3. CASE Joins
    BY <2>3 DEF Joins, mailboxVars, MailboxOK
  <2>. QED BY <2>1, <2>2, <2>3 DEF Destructor
<1>3. PICK k \in Nat : calls' = [calls EXCEPT ![Owner] = k]
  <2>1. calls[Owner] \in Nat /\ calls[Owner] + 1 \in Nat /\ calls = [calls EXCEPT ![Owner] = calls[Owner]]
    BY ThreadFacts DEF MailboxOK
  <2>2. CASE Destroys
    BY <2>1, <2>2 DEF Destroys, Mailbox!Invoke
  <2>3. CASE Destructor
    BY <2>1, <2>3 DEF Destructor, Closes, CloseReturns, Joins, Mailbox!Close, Mailbox!CloseReturns, Mailbox!Return,
                      mailboxVars
  <2>. QED BY <2>2, <2>3
<1>4. MailboxOK'
  <2>1. call' \in [Threads -> {"idle", "send", "recv", "close", "closing"}]
    BY <1>2, ThreadFacts DEF MailboxOK
  <2>2. calls' \in [Threads -> Nat]
    BY <1>3 DEF MailboxOK
  <2>. QED BY <1>1, <2>1, <2>2 DEF MailboxOK
<1>5. \A t \in Threads : t # Owner => call'[t] = call[t] /\ calls'[t] = calls[t]
  BY <1>2, <1>3 DEF MailboxOK
<1>6. call'[Loop] = call[Loop] /\ \A c \in Clients : call'[c] = call[c] /\ calls'[c] = calls[c]
  BY <1>5, ThreadFacts
<1>7. /\ dtor' \in {"closing", "joining", "gone"}
      /\ dtor' = "gone" => pc = "exited"
      /\ mu_ \notin Clients /\ \A c \in Clients : call[c] = "idle"
      /\ closed_ => closed_'
  <2>1. CASE Destroys
    BY <2>1 DEF Destroys, Free, Mailbox!Invoke
  <2>2. CASE Closes
    <3>1. call[Owner] = "close" /\ dtor' = dtor /\ closed_'
      BY <2>2 DEF Closes, Mailbox!Close
    <3>2. dtor # "alive"
      BY <3>1 DEF DestructorInv
    <3>. QED BY <3>1, <3>2 DEF DestructorInv, HistoryOK
  <2>3. CASE CloseReturns
    <3>1. call[Owner] = "closing" /\ dtor' = "joining" /\ closed_' = closed_
      BY <2>3 DEF CloseReturns, Mailbox!CloseReturns
    <3>2. dtor # "alive"
      BY <3>1 DEF DestructorInv
    <3>. QED BY <3>1, <3>2 DEF DestructorInv
  <2>4. CASE Joins
    BY <2>4 DEF Joins, DestructorInv, mailboxVars
  <2>. QED BY <2>1, <2>2, <2>3, <2>4 DEF Destructor
<1>8. LoopOK' /\ HistoryOK'
  <2>1. LoopOK'
    BY <1>1 DEF LoopOK
  <2>2. HistoryOK'
    BY <1>1, <1>7 DEF HistoryOK
  <2>. QED BY <2>1, <2>2
<1>9. SendersInv' /\ AsksInv'
  BY <1>1, <1>6, SameClients
<1>10. OrderInv' /\ AnswersInv'
  BY <1>1 DEF OrderInv, AnswersInv, AnswersTo, Held, Settled
<1>11. LoopInv'
  BY <1>1, <1>6 DEF LoopInv
<1>12. DestructorInv'
  BY <1>1, <1>6, <1>7 DEF DestructorInv
<1>. QED BY <1>4, <1>8, <1>9, <1>10, <1>11, <1>12

LEMMA NextIInv == IInv /\ [Next]_vars => IInv'
<1>1. ASSUME IInv, UNCHANGED vars PROVE IInv'
  <2> USE <1>1 DEF IInv, TypeOK, vars, loopVars
  <2>1. LoopOK' /\ HistoryOK' /\ OrderInv'
    BY DEF LoopOK, HistoryOK, OrderInv, Held, mailboxVars
  <2>2. AnswersInv'
    BY DEF AnswersInv, AnswersTo, Settled
  <2>3. LoopInv' /\ DestructorInv'
    BY DEF LoopInv, DestructorInv, mailboxVars
  <2>. QED BY <2>1, <2>2, <2>3, SameMailbox
<1>. QED BY <1>1, CallsStep, AcceptedStep, SnapshotSteps, ReceivesStep, TakesStep, ExitsStep, LocksStep, HandlesStep,
            RepliesStep, AssignsStep, DestructorSteps DEF Next, LoopStep

\* What the clients, the thread and the destructor know of each other in every state.
THEOREM Inductive == Spec => []IInv
BY InitIInv, NextIInv, PTL DEF Spec

-----------------------------------------------------------------------------
\* An answer is the initial segment of the accepted messages that ends with its own.
LEMMA AnswerIsPrefix ==
  ASSUME IInv, NEW i \in 1 .. Settled, NEW m \in Messages, AnswersTo(m, i)
  PROVE  answer[m] = SubSeq(accepted, 1, i)
<1>1. answer[m] \in Seq(Messages) /\ accepted \in Seq(Messages) /\ i \in 1 .. Len(accepted) /\ Len(accepted) \in Nat
  BY SettledFacts DEF IInv, TypeOK, HistoryOK
<1>2. /\ SubSeq(accepted, 1, i) \in Seq(Messages) /\ Len(SubSeq(accepted, 1, i)) = i
      /\ \A k \in 1 .. i : SubSeq(accepted, 1, i)[k] = accepted[k]
  BY <1>1
<1>3. Len(answer[m]) = i /\ \A k \in 1 .. i : answer[m][k] = accepted[k]
  BY DEF AnswersTo
<1>. QED BY <1>1, <1>2, <1>3, SeqEqual

\* Messages are applied once each, in the order they were accepted, and the answer to an ask is
\* the state right after its own message, whatever the other clients do meanwhile.
THEOREM OrderTheorem == Spec => []AppliedInOrder
<1>1. ASSUME IInv PROVE AppliedInOrder
  <2>1. accepted = state_ \o InHand \o q_
    <3>1. /\ state_ \in Seq(Messages) /\ InHand \in Seq(Messages) /\ q_ \in Seq(Messages) /\ accepted \in Seq(Messages)
          /\ Len(InHand) = Held /\ (Held = 1 => InHand[1] = item) /\ Held \in {0, 1}
      BY <1>1 DEF IInv, TypeOK, LoopOK, MailboxOK, HistoryOK, InHand, Held, Holding
    <3>2. /\ state_ \o InHand \in Seq(Messages) /\ Len(state_ \o InHand) = Len(state_) + Held
          /\ \A k \in 1 .. Len(state_) + Held :
               (state_ \o InHand)[k] = IF k <= Len(state_) THEN state_[k] ELSE InHand[k - Len(state_)]
      BY <3>1, ConcatProperties
    <3>3. /\ (state_ \o InHand) \o q_ \in Seq(Messages)
          /\ Len((state_ \o InHand) \o q_) = Len(state_) + Held + Len(q_)
          /\ \A k \in 1 .. Len(state_) + Held + Len(q_) :
               ((state_ \o InHand) \o q_)[k] = IF k <= Len(state_) + Held THEN (state_ \o InHand)[k]
                                                                       ELSE q_[k - (Len(state_) + Held)]
      <4> DEFINE u == state_ \o InHand
      <4>1. u \in Seq(Messages) /\ Len(u) = Len(state_) + Held
        BY <3>2
      <4> HIDE DEF u
      <4>2. /\ u \o q_ \in Seq(Messages) /\ Len(u \o q_) = Len(u) + Len(q_)
            /\ \A k \in 1 .. Len(u) + Len(q_) : (u \o q_)[k] = IF k <= Len(u) THEN u[k] ELSE q_[k - Len(u)]
        <5>1. q_ \in Seq(Messages) /\ u \in Seq(Messages)
          BY <3>1, <4>1
        <5>. QED BY ONLY <5>1, ConcatProperties, Zenon
      <4>3. /\ u \o q_ \in Seq(Messages) /\ Len(u \o q_) = Len(state_) + Held + Len(q_)
            /\ \A k \in 1 .. Len(state_) + Held + Len(q_) :
                 (u \o q_)[k] = IF k <= Len(state_) + Held THEN u[k] ELSE q_[k - (Len(state_) + Held)]
        BY ONLY <4>1, <4>2, Zenon
      <4>. QED BY <4>3 DEF u
    <3>4. ASSUME NEW k \in 1 .. Len(accepted) PROVE accepted[k] = ((state_ \o InHand) \o q_)[k]
      <4>1. Len(accepted) = Len(state_) + Held + Len(q_) /\ Len(state_) \in Nat /\ Len(q_) \in Nat
        BY <1>1, SettledFacts DEF IInv, TypeOK
      <4>2. CASE k <= Len(state_)
        BY <1>1, <3>1, <3>2, <3>3, <4>1, <4>2 DEF IInv, OrderInv
      <4>3. CASE k > Len(state_) /\ k <= Len(state_) + Held
        <5>1. Held = 1 /\ k = Len(state_) + 1 /\ pc \in Holding
          BY <3>1, <4>1, <4>3 DEF Held
        <5>. QED BY <1>1, <3>1, <3>2, <3>3, <4>1, <5>1 DEF IInv, OrderInv
      <4>4. CASE k > Len(state_) + Held
        <5> DEFINE j == k - (Len(state_) + Held)
        <5>1. j \in 1 .. Len(q_) /\ Len(state_) + Held + j = k
          BY <3>1, <4>1, <4>4
        <5>2. accepted[Len(state_) + Held + j] = q_[j]
          BY <1>1, <5>1 DEF IInv, OrderInv
        <5>. QED BY SMTT(30), <3>1, <3>3, <4>1, <4>4, <5>1, <5>2
      <4>. QED BY <3>1, <4>1, <4>2, <4>3, <4>4
    <3>. QED BY <1>1, <3>1, <3>3, <3>4, SeqEqual, SettledFacts DEF IInv, TypeOK
  <2>2. ASSUME NEW i \in 1 .. Len(accepted), answer[accepted[i]] # Unanswered
        PROVE  answer[accepted[i]] = SubSeq(accepted, 1, i)
    <3>1. accepted[i] \in Messages
      BY <1>1 DEF IInv, TypeOK, HistoryOK
    <3>2. PICK j \in 1 .. Settled : accepted[j] = accepted[i] /\ AnswersTo(accepted[i], j)
      BY <1>1, <2>2, <3>1 DEF IInv, AnswersInv
    <3>3. j = i
      BY <1>1, <3>2, SettledFacts DEF IInv, TypeOK, HistoryOK, SendersInv
    <3>. QED BY <1>1, <3>1, <3>2, <3>3, AnswerIsPrefix
  <2>. QED BY <2>1, <2>2 DEF AppliedInOrder
<1>. QED BY <1>1, Inductive, PTL

\* A snapshot is never older than an answer somebody already holds.
THEOREM SnapshotTheorem == Spec => []FreshSnapshots
<1>1. ASSUME IInv PROVE FreshSnapshots
  <2> SUFFICES ASSUME mu_ \in Clients, NEW m \in Messages
               PROVE  /\ Len(answer[m]) <= Len(state_)
                      /\ answer[m] = SubSeq(state_, 1, Len(answer[m]))
    BY DEF FreshSnapshots
  <2>1. Settled = Len(state_)
    BY <1>1, ThreadFacts, SettledFacts DEF IInv, TypeOK, LoopInv, Settled
  <2>2. answer[m] \in Seq(Messages) /\ state_ \in Seq(Messages) /\ Len(state_) \in Nat
    BY <1>1 DEF IInv, TypeOK, HistoryOK, LoopOK
  <2>3. CASE answer[m] = Unanswered
    BY <2>2, <2>3 DEF Unanswered
  <2>4. CASE answer[m] # Unanswered
    <3>1. PICK i \in 1 .. Len(state_) : AnswersTo(m, i)
      BY <1>1, <2>1, <2>4 DEF IInv, AnswersInv
    <3>2. Len(answer[m]) = i /\ \A k \in 1 .. i : answer[m][k] = state_[k]
      BY <1>1, <2>2, <3>1 DEF AnswersTo, IInv, OrderInv
    <3>3. /\ SubSeq(state_, 1, i) \in Seq(Messages) /\ Len(SubSeq(state_, 1, i)) = i
          /\ \A k \in 1 .. i : SubSeq(state_, 1, i)[k] = state_[k]
      BY <2>2
    <3>. QED BY <2>2, <3>2, <3>3, SeqEqual
  <2>. QED BY <2>3, <2>4
<1>. QED BY <1>1, Inductive, PTL

\* ~Actor returns only when every accepted message is applied and every ask answered.
THEOREM DrainTheorem == Spec => []DrainedOnDestroy
<1>1. ASSUME IInv PROVE DrainedOnDestroy
  <2> SUFFICES ASSUME dtor = "gone" PROVE state_ = accepted /\ \A m \in asks : answer[m] # Unanswered
    BY DEF DrainedOnDestroy
  <2>1. pc = "exited" /\ q_ = <<>> /\ \A c \in Clients : call[c] = "idle"
    BY <1>1 DEF IInv, DestructorInv
  <2>2. Len(accepted) = Len(state_) /\ Settled = Len(state_) /\ Len(state_) \in Nat
    BY <1>1, <2>1, SettledFacts DEF IInv, TypeOK, Held, Settled, Holding
  <2>3. state_ = accepted
    BY <1>1, <2>2, SeqEqual DEF IInv, TypeOK, LoopOK, HistoryOK, OrderInv
  <2>4. ASSUME NEW m \in asks PROVE answer[m] # Unanswered
    <3>1. m[1] \in Clients
      BY <1>1 DEF IInv, TypeOK, HistoryOK, Messages
    <3>2. PICK i \in 1 .. Len(accepted) : accepted[i] = m
      BY <1>1, <2>1, <3>1 DEF IInv, AsksInv
    <3>3. Len(answer[m]) = i /\ i > 0
      BY <1>1, <2>2, <3>2 DEF IInv, AnswersInv, AnswersTo
    <3>. QED BY <3>3 DEF Unanswered
  <2>. QED BY <2>3, <2>4
<1>. QED BY <1>1, Inductive, PTL
=============================================================================
