-------------------------------- MODULE Actor --------------------------------
(***************************************************************************)
(* fp::Actor: a mailbox and one thread, loop(), that takes a message, runs *)
(* the handler under mu_, answers an ask, stores the new state, and        *)
(* releases mu_.  Clients send, ask and take snapshots; the owner destroys *)
(* the actor, which closes the mailbox and joins the thread.               *)
(*                                                                         *)
(* The mailbox is a Channel, and stands here by the contract Channel is    *)
(* shown to implement: module ClosableQueue.  The handler is an arbitrary  *)
(* pure function State(State, Msg), so a state is the sequence of the      *)
(* messages applied to the initial one.                                    *)
(***************************************************************************)
EXTENDS Naturals, Sequences

CONSTANTS Clients,      \* the threads that use the actor
          Loop,         \* its own thread, thr_
          Owner,        \* the thread that destroys it
          Capacities,   \* the mailbox capacities it may be built with
          MaxCalls,     \* bound: calls into the mailbox by one thread
          MaxSends,     \* bound: messages each client sends
          MaxSnapshots, \* bound: snapshots each client takes
          NoOne         \* the holder of a free mutex

ASSUME ActorAssumption == /\ Loop # Owner /\ {Loop, Owner} \cap Clients = {}
                          /\ NoOne \notin Clients \cup {Loop, Owner}
                          /\ Capacities \subseteq Nat
                          /\ MaxCalls \in Nat /\ MaxSends \in 0 .. MaxCalls /\ MaxSnapshots \in Nat

VARIABLES capacity_, closed_, q_, call, calls, ret,  \* the mailbox
          mu_,        \* who holds the mutex that guards state_
          pc,         \* where loop() is
          item,       \* the message it took
          new_state,  \* what the handler returned
          state_,
          accepted,   \* every message the mailbox accepted, in order
          asks,       \* the messages sent by ask
          answer,     \* the value each promise was given
          snapshots,  \* how many snapshots each client took
          dtor        \* "alive", "closing", "joining" or "gone"

mailboxVars == <<capacity_, closed_, q_, call, calls, ret>>
loopVars    == <<pc, item, new_state, state_>>
vars == <<mailboxVars, mu_, loopVars, accepted, asks, answer, snapshots, dtor>>

Threads == Clients \cup {Loop, Owner}
MayCall == [t \in Threads |-> IF t = Loop THEN {"recv"} ELSE IF t = Owner THEN {"close"} ELSE {"send"}]

Mailbox == INSTANCE ClosableQueue

Unanswered == <<>>
Messages   == Clients \X (1 .. MaxSends)

\* A client uses the actor only while it is alive, one call at a time.
Free(c) == dtor = "alive" /\ call[c] = "idle" /\ mu_ # c

-----------------------------------------------------------------------------
Init == /\ Mailbox!Init
        /\ mu_ = NoOne
        /\ pc = "recv" /\ item = <<>> /\ new_state = <<>> /\ state_ = <<>>
        /\ accepted = <<>>
        /\ asks = {}
        /\ answer = [m \in Messages |-> Unanswered]
        /\ snapshots = [c \in Clients |-> 0]
        /\ dtor = "alive"

\* send and ask build an Item, without or with a promise, and send it to the mailbox.
Calls(c) == /\ Free(c) /\ calls[c] < MaxSends
            /\ Mailbox!Invoke(c)
            /\ \/ asks' = asks \cup {<<c, calls[c] + 1>>}
               \/ UNCHANGED asks
            /\ UNCHANGED <<mu_, loopVars, accepted, answer, snapshots, dtor>>

Accepted(c) == /\ Mailbox!Accept(c)
               /\ accepted' = Append(accepted, <<c, calls[c]>>)
               /\ UNCHANGED <<mu_, loopVars, asks, answer, snapshots, dtor>>

\* snapshot copies state_ while it holds mu_.
SnapshotTakes(c) == /\ Free(c) /\ snapshots[c] < MaxSnapshots
                    /\ mu_ = NoOne
                    /\ mu_' = c
                    /\ snapshots' = [snapshots EXCEPT ![c] = @ + 1]
                    /\ UNCHANGED <<mailboxVars, loopVars, accepted, asks, answer, dtor>>

SnapshotReturns(c) == /\ mu_ = c
                      /\ mu_' = NoOne
                      /\ UNCHANGED <<mailboxVars, loopVars, accepted, asks, answer, snapshots, dtor>>

-----------------------------------------------------------------------------
\* loop()
Receives == /\ pc = "recv"
            /\ Mailbox!Invoke(Loop)
            /\ UNCHANGED <<mu_, loopVars, accepted, asks, answer, snapshots, dtor>>

Takes == /\ Mailbox!Deliver(Loop)
         /\ item' = Head(q_)
         /\ pc' = "lock"
         /\ UNCHANGED <<mu_, new_state, state_, accepted, asks, answer, snapshots, dtor>>

\* Mutant: the thread leaves as soon as the mailbox is closed.
ExitsWhenClosed == /\ call[Loop] = "recv" /\ closed_
                   /\ Mailbox!Return(Loop, <<"throw">>)
                   /\ pc' = "exited"
                   /\ UNCHANGED <<closed_, q_, mu_, item, new_state, state_, accepted, asks, answer, snapshots, dtor>>

\* recv throws on a closed and drained mailbox: the thread ends.
Exits == /\ Mailbox!Fail(Loop)
         /\ pc' = "exited"
         /\ UNCHANGED <<mu_, item, new_state, state_, accepted, asks, answer, snapshots, dtor>>

\* Mutant: the handler runs without mu_.
LocksNot == /\ pc = "lock"
            /\ pc' = "handle"
            /\ UNCHANGED <<mailboxVars, mu_, item, new_state, state_, accepted, asks, answer, snapshots, dtor>>

Locks == /\ pc = "lock"
         /\ mu_ = NoOne
         /\ mu_' = Loop
         /\ pc' = "handle"
         /\ UNCHANGED <<mailboxVars, item, new_state, state_, accepted, asks, answer, snapshots, dtor>>

Handles == /\ pc = "handle"
           /\ new_state' = Append(state_, item)
           /\ pc' = "reply"
           /\ UNCHANGED <<mailboxVars, mu_, item, state_, accepted, asks, answer, snapshots, dtor>>

\* Mutant: an ask is answered with the state its message was handled in.
RepliesOld == /\ pc = "reply"
              /\ answer' = IF item \in asks THEN [answer EXCEPT ![item] = state_] ELSE answer
              /\ pc' = "assign"
              /\ UNCHANGED <<mailboxVars, mu_, item, new_state, state_, accepted, asks, snapshots, dtor>>

\* The promise is fulfilled before state_ is assigned.
Replies == /\ pc = "reply"
           /\ answer' = IF item \in asks THEN [answer EXCEPT ![item] = new_state] ELSE answer
           /\ pc' = "assign"
           /\ UNCHANGED <<mailboxVars, mu_, item, new_state, state_, accepted, asks, snapshots, dtor>>

\* Mutant: mu_ is not released at the end of the iteration.
AssignsHolding == /\ pc = "assign"
                  /\ state_' = new_state
                  /\ new_state' = <<>> /\ item' = <<>>
                  /\ pc' = "recv"
                  /\ UNCHANGED <<mailboxVars, mu_, accepted, asks, answer, snapshots, dtor>>

Assigns == /\ pc = "assign"
           /\ state_' = new_state
           /\ new_state' = <<>> /\ item' = <<>>
           /\ mu_' = NoOne
           /\ pc' = "recv"
           /\ UNCHANGED <<mailboxVars, accepted, asks, answer, snapshots, dtor>>

-----------------------------------------------------------------------------
\* ~Actor, called when no client is inside the actor: close() the mailbox, join the thread.
Destroys == /\ \A c \in Clients : Free(c)
            /\ Mailbox!Invoke(Owner)
            /\ dtor' = "closing"
            /\ UNCHANGED <<mu_, loopVars, accepted, asks, answer, snapshots>>

Closes == /\ Mailbox!Close(Owner)
          /\ UNCHANGED <<mu_, loopVars, accepted, asks, answer, snapshots, dtor>>

CloseReturns == /\ Mailbox!CloseReturns(Owner)
                /\ dtor' = "joining"
                /\ UNCHANGED <<mu_, loopVars, accepted, asks, answer, snapshots>>

Joins == /\ dtor = "joining" /\ pc = "exited"
         /\ dtor' = "gone"
         /\ UNCHANGED <<mailboxVars, mu_, loopVars, accepted, asks, answer, snapshots>>

LoopStep == Receives \/ Takes \/ Exits \/ Locks \/ Handles \/ Replies \/ Assigns

Destructor == Closes \/ CloseReturns \/ Joins

Next == \/ \E c \in Clients : Calls(c) \/ Accepted(c) \/ SnapshotTakes(c) \/ SnapshotReturns(c)
        \/ LoopStep
        \/ Destroys \/ Destructor

\* The actor's thread is scheduled and its handler returns, a client in snapshot leaves it, and
\* a destructor that began goes on.  mu_ need not be fair: the snapshots are finitely many.
Fairness == /\ WF_vars(LoopStep)
            /\ \A c \in Clients : WF_vars(SnapshotReturns(c))
            /\ WF_vars(Destructor)

Spec == Init /\ [][Next]_vars /\ Fairness

-----------------------------------------------------------------------------
InHand == IF pc \in {"lock", "handle", "reply", "assign"} THEN <<item>> ELSE <<>>

\* The messages are applied once each and in the order they were accepted, and the answer to an
\* ask is the state right after its own message: no earlier one and none that includes a
\* message accepted later.
AppliedInOrder ==
  /\ accepted = state_ \o InHand \o q_
  /\ \A i \in 1 .. Len(accepted) :
       answer[accepted[i]] # Unanswered => answer[accepted[i]] = SubSeq(accepted, 1, i)

\* A client that holds the answer to an ask, its own or one it heard of, and then takes a
\* snapshot sees a state that includes that answer: the promise is fulfilled before state_ is
\* assigned, but not before mu_ is taken.
FreshSnapshots ==
  mu_ \in Clients =>
    \A m \in Messages : /\ Len(answer[m]) <= Len(state_)
                         /\ answer[m] = SubSeq(state_, 1, Len(answer[m]))

\* The destructor returns only when every accepted message has been applied and every ask has
\* its answer: no future of the actor is left with a broken promise.
DrainedOnDestroy ==
  dtor = "gone" => /\ state_ = accepted
                   /\ \A m \in asks : answer[m] # Unanswered

\* An accepted ask is answered, whether or not the actor is destroyed behind it.
AskAnswered ==
  \A m \in Messages :
    m \in asks /\ (\E i \in 1 .. Len(accepted) : accepted[i] = m) ~> answer[m] # Unanswered
=============================================================================
