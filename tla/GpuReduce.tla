-------------------------------- MODULE GpuReduce --------------------------------
(***************************************************************************)
(* fp::gpu::reduce and dot with a Scratch that is reused over calls.  The  *)
(* host submits a kernel and a copy to an in-order queue and waits; the    *)
(* device runs them meanwhile.  One work-item sums one chunk of the input  *)
(* into the partials, the copy brings the partials to the pinned readback  *)
(* block, and the host folds the first of them.  The scratch blocks grow   *)
(* and are never cut; a call that fails may leave one of them grown.  A    *)
(* call whose second submission throws returns while its kernel may still  *)
(* run; the next call can give the block that the kernel writes back.      *)
(*                                                                         *)
(* dot is reduce over products: the model sums the elements.  A device     *)
(* without USM takes the path over a host copy, which is the fold itself.  *)
(***************************************************************************)
EXTENDS Integers, Sequences

CONSTANTS Inputs,     \* the buffers that are reduced: sequences of numbers
          chunk_size, \* 1024 in the code
          MaxCalls,
          Junk        \* what a fresh block holds

VARIABLES input,     \* of the call
          pc,
          partials, readback,  \* the scratch blocks
          commands,  \* submitted to the queue and not done yet: [op, input, held]
          loose,     \* a failed call left a command behind
          result, calls

vars == <<input, pc, partials, readback, commands, loose, result, calls>>

\* The sums of the first elements of s.
SumTo(s) == LET to[k \in 0 .. Len(s)] == IF k = 0 THEN 0 ELSE to[k - 1] + s[k] IN to
Sum(s)  == SumTo(s)[Len(s)]
ChunksOf(v) == (Len(v) + chunk_size - 1) \div chunk_size
Chunks      == ChunksOf(input)
Least(a, b) == IF a < b THEN a ELSE b
SumOf(v, c) == Sum(SubSeq(v, (c - 1) * chunk_size + 1, Least(Len(v), c * chunk_size)))
Fresh(n) == [i \in 1 .. n |-> Junk]

Init == /\ input = <<>> /\ pc = "idle"
        /\ partials = <<>> /\ readback = <<>>
        /\ commands = <<>> /\ loose = FALSE /\ result = 0 /\ calls = 0

Call == /\ pc = "idle" /\ calls < MaxCalls
        /\ calls' = calls + 1
        /\ \E v \in Inputs : input' = v /\ IF v = <<>> THEN pc' = "ok" /\ result' = 0
                                          ELSE pc' = "partials" /\ UNCHANGED result
        /\ UNCHANGED <<partials, readback, commands, loose>>

Fails == pc' = "failed" /\ UNCHANGED <<input, partials, readback, commands, result, calls>>

\* ensure_scratch: each block grows on its own, and either allocation may fail.  The block it
\* replaces is freed, under a kernel that was left behind too.
EnsurePartials == /\ pc = "partials"
                  /\ \/ /\ IF Len(partials) < Chunks
                           THEN /\ partials' = Fresh(Chunks)
                                /\ commands' = [i \in DOMAIN commands |-> [commands[i] EXCEPT !.held = FALSE]]
                           ELSE UNCHANGED <<partials, commands>>
                        /\ pc' = "readback"
                        /\ UNCHANGED <<input, readback, loose, result, calls>>
                     \/ Len(partials) < Chunks /\ Fails /\ UNCHANGED loose

\* Mutant: the readback block is taken to be as large as the partials.
EnsureReadbackTogether ==
  /\ pc = "readback"
  /\ \/ /\ readback' = IF Len(readback) = 0 THEN Fresh(Chunks) ELSE readback
        /\ pc' = "launch"
        /\ UNCHANGED <<input, partials, commands, loose, result, calls>>
     \/ Len(readback) < Chunks /\ Fails /\ UNCHANGED loose

EnsureReadback == /\ pc = "readback"
                  /\ \/ /\ readback' = IF Len(readback) < Chunks THEN Fresh(Chunks) ELSE readback
                        /\ pc' = "launch"
                        /\ UNCHANGED <<input, partials, commands, loose, result, calls>>
                     \/ Len(readback) < Chunks /\ Fails /\ UNCHANGED loose

\* A submission may throw; then what was submitted before it is not waited for.
Submit(op, next) == /\ commands' = Append(commands, [op |-> op, input |-> input, held |-> TRUE])
                    /\ pc' = next
                    /\ UNCHANGED <<input, partials, readback, loose, result, calls>>
SubmitThrows == Fails /\ loose' = (loose \/ commands # <<>>)

Launch == pc = "launch" /\ (Submit("sum", "copy") \/ SubmitThrows)
Copy   == pc = "copy" /\ (Submit("copy", "wait") \/ SubmitThrows)

\* wait_and_throw: all is done, and an asynchronous error of the device is thrown.
Wait == /\ pc = "wait" /\ commands = <<>>
        /\ \/ /\ pc' = "ok"
              /\ result' = Sum(SubSeq(readback, 1, Chunks))
              /\ UNCHANGED <<input, partials, readback, commands, loose, calls>>
           \/ Fails /\ UNCHANGED loose

\* The device runs what was submitted, in order.  What is written to a freed block is lost here.
DeviceRuns == /\ commands # <<>>
              /\ LET k == Head(commands)
                     Filled(to, Value(_)) ==
                       [c \in DOMAIN to |-> IF k.held /\ c <= ChunksOf(k.input) THEN Value(c) ELSE to[c]]
                 IN  IF k.op = "sum"
                     THEN partials' = Filled(partials, LAMBDA c : SumOf(k.input, c)) /\ UNCHANGED readback
                     ELSE readback' = Filled(readback, LAMBDA c : partials[c]) /\ UNCHANGED partials
              /\ commands' = Tail(commands)
              /\ UNCHANGED <<input, pc, loose, result, calls>>

Returns == /\ pc \in {"ok", "failed"}
           /\ pc' = "idle"
           /\ UNCHANGED <<input, partials, readback, commands, loose, result, calls>>

Next == Call \/ EnsurePartials \/ EnsureReadback \/ Launch \/ Copy \/ Wait \/ DeviceRuns \/ Returns

Spec == Init /\ [][Next]_vars

-----------------------------------------------------------------------------
\* A call that succeeds returns the sum of its input, whatever the scratch blocks held from calls
\* before, larger, smaller or failed half-way, and though a kernel of such a call still runs.  What
\* was submitted stays inside blocks that exist, and the device is idle after a call, unless a
\* submission after the first threw.
ReduceIsExact ==
  /\ pc = "ok" => result = Sum(input)
  /\ \A i \in DOMAIN commands :
       LET chunks == ChunksOf(commands[i].input)
       IN  IF commands[i].held THEN chunks <= Len(partials) /\ (commands[i].op = "copy" => chunks <= Len(readback))
                               ELSE loose
  /\ pc \in {"ok", "failed", "idle"} /\ ~loose => commands = <<>>
=============================================================================
