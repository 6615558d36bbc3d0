------------------------------- MODULE Components -------------------------------
(***************************************************************************)
(* The components that keep state and run in one thread, or in few, side   *)
(* by side, for every value of their constants; ComponentProofs proves     *)
(* what is stated here, MCComponents exercises one component at a time.    *)
(***************************************************************************)
EXTENDS Integers, Sequences

CONSTANTS alignment, block_, Requests, MaxAllocs, MaxMarks,  \* of the arena
          Threads, Infos, MaxWrites,                         \* of the registry
          Owners, Families, Sizes, Alignments, Contents, Junk, SizeMax, \* of the owners
          MaxBlocks,                                         \* of the arena, and of the owners
          MaxScopes,                                         \* of the scope guards
          Kinds, Ns, Pools,                                  \* of the parallel calls
          Inputs, chunk_size, MaxCalls,                      \* of the reductions on a device
          Items, Values, Pipelines, MaxSends, MaxPulls       \* of the streams

VARIABLES blocks, live, marks
AnArena == INSTANCE Arena

VARIABLES snapshot, mutex_, copy, view, written, pending
ARegistry == INSTANCE Registry

VARIABLES family, holds, heap, raw, misfreed, next_id, value
SomeOwners == INSTANCE Owners

VARIABLES scopes, uncaught, ended
Guards == INSTANCE ScopeGuards

VARIABLES kind, n, pool, stop, submitted, at, status, done, caller, got
Chunked == INSTANCE CancellablePar

VARIABLES input, pc, partials, readback, commands, loose, result, calls
Reduction == INSTANCE GpuReduce

VARIABLES stages, queue, own, acc, sent, log, collected, vectors, turn, back
AStream == INSTANCE Streams

-----------------------------------------------------------------------------
\* Blocks are aligned and requests are sizes; what is put into a block is a sequence; writes of the
\* registry can be told apart; a reduction on a device divides by its chunk; a pipeline is a sequence of stages.
ASSUME ComponentsAssumption ==
  /\ alignment \in Nat \ {0} /\ block_ \in Nat /\ Requests \subseteq Nat \X Nat
  /\ "none" \notin Threads /\ \A info \in Infos : info.id \notin {"none", "all"}
  /\ Sizes \subseteq Nat /\ Alignments \subseteq Nat /\ Junk \in Int /\ SizeMax \in Nat /\ Contents \subseteq Seq(Int)
  /\ Ns \subseteq Nat /\ Pools \subseteq Nat
  /\ Inputs \subseteq Seq(Int) /\ chunk_size \in Nat \ {0}
  /\ Values \subseteq Items /\ Pipelines \subseteq Seq(AStream!Stage)

-----------------------------------------------------------------------------
\* Allocations of an arena never overlap, see Arena.
LiveDisjoint == AnArena!LiveDisjoint

\* No registration is lost and readers see whole snapshots, see Registry.
RegistryComplete == ARegistry!RegistryComplete

\* Owners are values, and each block has one owner and is freed once, as it was allocated, see Owners.
OwnedOnce == SomeOwners!OwnedOnce

\* Guards run in exactly the exits they are for, see ScopeGuards.
GuardsMatchExit == Guards!GuardsMatchExit

\* A parallel call that answers ok computed everything, see CancellablePar.
OkIsComplete == Chunked!OkIsComplete

\* A reduction over reused scratch blocks is the sum of its input, see GpuReduce.
ReduceIsExact == Reduction!ReduceIsExact

\* Streams over channels lose and invent nothing, see Streams.
StreamAgrees == AStream!StreamAgrees
=============================================================================
