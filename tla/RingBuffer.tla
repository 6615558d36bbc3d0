----------------------------- MODULE RingBuffer -----------------------------
(***************************************************************************)
(* fp::RingBuffer: one producer thread, one consumer thread, two atomic    *)
(* indices of a fixed width that wrap around, and plain slots between them.*)
(*                                                                         *)
(* Each atomic access and each slot access is an action.  An index has one *)
(* writer, so its k-th store holds k modulo Modulus; pushed and popped     *)
(* count those stores, and stand for the values of tail_ and head_.  A     *)
(* load may return any store not older than what its thread already knows  *)
(* of that index.  An acquire load that reads the k-th store makes what    *)
(* the storing thread did before it visible if that store was a release.   *)
(***************************************************************************)
EXTENDS Naturals, Sequences

CONSTANTS Modulus,    \* size_t counts modulo this
          Requested,  \* the capacities the constructor may be asked for
          MaxPushes   \* bound: how many elements the producer pushes

\* A power of two has no odd divisor but one; the constructor doubles 1 until it is large enough.
PowerOfTwo(p) == \A d \in 1 .. p : p % d = 0 => d = 1 \/ d % 2 = 0
Powers == {p \in 1 .. Modulus - 1 : PowerOfTwo(p)}

ASSUME RingAssumption == /\ Modulus \in Nat /\ Modulus > 1 /\ PowerOfTwo(Modulus)
                         /\ MaxPushes \in Nat
                         /\ \A c \in Requested : c \in Nat /\ \E p \in Powers : c <= p

VARIABLES
  cap_, buf_,
  pushed,        \* stores to tail_ so far
  popped,        \* stores to head_ so far
  producer,      \* "idle", "write" (checked for room) or "store" (wrote the slot)
  headSeen,      \* the youngest store to head_ the producer has loaded
  popsVisible,   \* how many reads of slots happened before the producer's next access
  consumer,      \* "idle", "read" (checked for an element) or "store" (moved it out)
  tailSeen,      \* the youngest store to tail_ the consumer has loaded
  pushesVisible, \* how many writes of slots happened before the consumer's next access
  item,          \* the element the consumer moved out, 0 outside try_pop
  knew,          \* knew[k]: the consumer's tailSeen when it made the k-th store to head_
  observer,      \* a third thread in size(): "idle" or "tail" (loaded head_, not yet tail_)
  obsHead,       \* the store to head_ it loaded
  obsTail        \* the oldest store to tail_ it may still load

producerVars == <<producer, headSeen, popsVisible>>
consumerVars == <<consumer, tailSeen, pushesVisible, item, knew>>
observerVars == <<observer, obsHead, obsTail>>
vars == <<cap_, buf_, pushed, popped, producerVars, consumerVars, observerVars>>

Greatest(a, b) == IF a >= b THEN a ELSE b

\* The constructor doubles cap_ from 1 until it reaches the request.
Rounded(c) == CHOOSE p \in Powers : c <= p /\ \A q \in Powers : c <= q => p <= q

\* size_t subtraction of two indices, given the stores they come from.
Distance(later, earlier) == ((later % Modulus) + Modulus - (earlier % Modulus)) % Modulus

\* index & (cap_ - 1), cap_ being a power of two.
Slot(p) == (p % Modulus) % cap_

\* Mutant: a store that publishes nothing (memory_order_relaxed).
Relaxed(k) == 0

\* A release store publishes everything its thread did to the slots before it.
Released(k) == k

-----------------------------------------------------------------------------
Init == /\ \E c \in Requested : cap_ = Rounded(c)
        /\ buf_ = [s \in 0 .. cap_ - 1 |-> 0]
        /\ pushed = 0 /\ popped = 0
        /\ producer = "idle" /\ headSeen = 0 /\ popsVisible = 0
        /\ consumer = "idle" /\ tailSeen = 0 /\ pushesVisible = 0 /\ item = 0
        /\ knew = <<>>
        /\ observer = "idle" /\ obsHead = 0 /\ obsTail = 0

\* push: load both indices; a full buffer refuses the element.
PushLoads ==
  /\ producer = "idle" /\ pushed < MaxPushes
  /\ \E h \in headSeen .. popped :
       /\ headSeen' = h
       /\ popsVisible' = Greatest(popsVisible, Released(h))
       /\ producer' = IF Distance(pushed, h) >= cap_ THEN "idle" ELSE "write"
  /\ UNCHANGED <<cap_, buf_, pushed, popped, consumerVars, observerVars>>

\* Elements are numbered from 1 in the order they are pushed.
PushWrites == /\ producer = "write"
              /\ buf_' = [buf_ EXCEPT ![Slot(pushed)] = pushed + 1]
              /\ producer' = "store"
              /\ UNCHANGED <<cap_, pushed, popped, headSeen, popsVisible, consumerVars, observerVars>>

PushStores == /\ producer = "store"
              /\ pushed' = pushed + 1
              /\ producer' = "idle"
              /\ UNCHANGED <<cap_, buf_, popped, headSeen, popsVisible, consumerVars, observerVars>>

\* Mutant: try_pop does not compare the indices.
PopLoadsUnchecked ==
  /\ consumer = "idle"
  /\ \E t \in tailSeen .. pushed :
       /\ tailSeen' = t
       /\ pushesVisible' = Greatest(pushesVisible, Released(t))
  /\ consumer' = "read"
  /\ UNCHANGED <<cap_, buf_, pushed, popped, item, knew, producerVars, observerVars>>

\* try_pop: load both indices; an empty buffer gives nullopt.
PopLoads ==
  /\ consumer = "idle"
  /\ \E t \in tailSeen .. pushed :
       /\ tailSeen' = t
       /\ pushesVisible' = Greatest(pushesVisible, Released(t))
       /\ consumer' = IF t % Modulus = popped % Modulus THEN "idle" ELSE "read"
  /\ UNCHANGED <<cap_, buf_, pushed, popped, item, knew, producerVars, observerVars>>

\* The element is moved out: nothing is left in the slot.
PopReads == /\ consumer = "read"
            /\ item' = buf_[Slot(popped)]
            /\ buf_' = [buf_ EXCEPT ![Slot(popped)] = 0]
            /\ consumer' = "store"
            /\ UNCHANGED <<cap_, pushed, popped, tailSeen, pushesVisible, knew, producerVars, observerVars>>

PopStores == /\ consumer = "store"
             /\ popped' = popped + 1
             /\ knew' = Append(knew, tailSeen)
             /\ consumer' = "idle"
             /\ item' = 0
             /\ UNCHANGED <<cap_, buf_, pushed, tailSeen, pushesVisible, producerVars, observerVars>>

\* Mutant: the load of head_ in size() synchronizes with nothing (memory_order_relaxed).
SizeLoadsRelaxed == /\ observer = "idle"
                    /\ obsHead' \in 0 .. popped
                    /\ obsTail' = 0
                    /\ observer' = "tail"
                    /\ UNCHANGED <<cap_, buf_, pushed, popped, producerVars, consumerVars>>

\* size() on a third thread, new to the buffer at each call: the acquire load of head_ brings
\* along what the consumer knew of tail_ at that store.
SizeLoadsHead ==
  /\ observer = "idle"
  /\ \E h \in 0 .. popped : /\ obsHead' = h
                            /\ obsTail' = IF Released(h) = 0 THEN 0 ELSE knew[Released(h)]
  /\ observer' = "tail"
  /\ UNCHANGED <<cap_, buf_, pushed, popped, producerVars, consumerVars>>

\* The load of tail_ completes the call; the result is Distance(tail, head).
SizeLoadsTail == /\ observer = "tail"
                 /\ observer' = "idle"
                 /\ obsHead' = 0 /\ obsTail' = 0
                 /\ UNCHANGED <<cap_, buf_, pushed, popped, producerVars, consumerVars>>

Produce == PushLoads \/ PushWrites \/ PushStores
Consume == PopLoads \/ PopReads \/ PopStores
Observe == SizeLoadsHead \/ SizeLoadsTail

Next == Produce \/ Consume \/ Observe

\* The consumer polls and a push that began goes on; a store becomes visible to a thread that
\* keeps loading the index (a load that sees nothing new changes nothing).
Fairness == WF_vars(Consume) /\ WF_vars(PushWrites \/ PushStores)

Spec == Init /\ [][Next]_vars /\ Fairness

-----------------------------------------------------------------------------
\* The slots are plain memory: when the producer writes one, the read of its previous element
\* happened before, and when the consumer reads one, the write of its element happened before.
\* So no two accesses to a slot race, although either index seen may be old.
NoDataRace ==
  /\ producer = "write" => pushed < popsVisible + cap_
  /\ consumer = "read"  => popped < pushesVisible

\* size() on the producer or the consumer never exceeds the capacity, whatever age of the other
\* index it loads; on a third thread it never wraps below zero, because head_ is loaded first.
SizeSane ==
  /\ pushed - headSeen <= cap_
  /\ observer = "tail" => obsHead <= obsTail

\* The elements between the indices, except one that is being moved out.
First  == popped + (IF consumer = "store" THEN 1 ELSE 0)
Queued == [i \in 1 .. pushed - First |-> buf_[Slot(First + i - 1)]]

Queue == INSTANCE BoundedFifo WITH capacity_ <- cap_, q_ <- Queued, out <- item, sent <- pushed

\* The buffer is a bounded queue: every element comes out once and in the order it went in, also
\* after the indices wrapped, never more than the capacity is inside, and a consumer that keeps
\* polling gets every element, also one pushed last of which it saw only an old tail_.
ImplementsFifo == Queue!Spec
=============================================================================
