# ForgeFP: a TLA+ development

ForgeFP (`src/src/fp/`, mirrored byte for byte in `src/include/forgefp/fp/`) is a
header-only C++20 library of functional building blocks: channels, a thread pool and
parallel loops, tasks that can be cancelled, owners of memory, bit streams, parsers,
streams, numeric kernels for the host and for GPUs, and many helpers on sequences, text
and results. This directory holds TLA+ models of those parts, TLC configurations that
check them on small instances, and proofs checked by TLAPS.

Paths below are relative to `src/`; line numbers without a file are of
`src/fp/concurrent.hpp`.

## 1. Inventory

| Component | State it keeps | Operations | What is hard | What makes it correct |
|---|---|---|---|---|
| `Channel` (81-145) | queue, capacity, closed flag, one mutex, two condition variables | `send`, `recv`, `try_send`, `try_recv`, `close` | any number of threads, wake-ups given to the wrong number of sleepers, `close` notifying after unlock | bounded, FIFO, no message or free slot waits behind a sleeper, close releases everybody and loses nothing |
| `RingBuffer` (147-189) | two atomic indices, plain slots | `push`, `try_pop`, `size` | memory order, stale loads, indices that wrap | no data race on a slot, FIFO, never more than the capacity |
| `Actor` (191-252) | mailbox (a `Channel`), state, mutex, thread | `send`, `ask`, `snapshot`, destructor | reply before the state is stored, destruction with a full mailbox | messages applied once and in order, answers and snapshots agree, every ask answered |
| `async_map`, `async_sequence`, `Async` (257-284, 728-758) | a future | combinators over `std::async` | errors in the middle of a sequence | the first error wins, order is kept |
| `ThreadPool` (286-397) | task queue, stop flag, mutex, condition variable, threads | `enqueue` (twice), `submit`, destructor | notify after unlock, destructor against enqueue from tasks, cancellation against start | each accepted task resolved once, stopped tasks never start, destructor returns with the queue drained |
| `par_run` and the `par_*` over a pool (400-597) | the frame of the call, a latch, an error slot | `par_map`, `par_for_each`, `par_for`, `par_for_each_index`, `par_map_to`, `par_reduce` | helpers hold references into the caller's frame; exceptions on workers; failed submissions; calls from inside the pool | every index once, frame outlives helpers, errors reach the caller, every call returns |
| Cancellable `par_*` (599-676), standalone `par_*` (29-79) | futures per chunk, a `stop_token` | `par_map`, `par_for_each`, `par_reduce` | a stop between two chunks or two elements, chunks that are empty | an ok answer is complete, a partial one is never given out |
| Task chains (`task.hpp`, 679-726) | shared future and `stop_source` | `then`, `and_then`, `recover`, `join`, `cancel`, `spawn`, `async_task` | cancel between stages, bridging tokens | a stopped chain runs no continuation, an inner task is cancelled with its chain |
| `race`, `timeout`, `retry` (760-938) | a promise, a done flag, detached threads | as named | a late answer against a deadline, all contestants failing | one result, set once; losers cancelled |
| `Stream` (`stream.hpp`) | a pull function | `map`, `filter`, `take`, `concat`, `subscribe`, ... | a channel as source that is empty for a moment | the items of the source, in order |
| `TypeRegistry` (`reflect.hpp` 1399-1465) | two indices in a snapshot that is replaced | `add`, `find`, `clear` | readers against writers, second registrations | both indices describe the same set |
| Memory (`arena.hpp`, `memory.hpp`, `scope.hpp`) | blocks and a bump offset; owned buffers; guards | `alloc`, `mark`, `reset_to`, moves, `dismiss` | overflow of sizes, reset to an old mark, moved-from owners | allocations disjoint and inside their block, each buffer freed once |
| Bit streams (`bits.hpp` 1317-1560) | a byte buffer and a bit position | write and read of n bits | widths at byte boundaries | reading gives back what was written |
| Parser (`parse.hpp`) | none (the input position is a value) | sequencing, choice, repetition | loops on parsers that consume nothing | agrees with the grammar, terminates |
| Terminal (`input.hpp` 89-110) | saved settings | `raw_mode` | enabling twice | the original settings come back |
| Input and files (`input.hpp` 14-87, `io.hpp`) | the position and the state of an istream; files | `read_line`, `read_all`, `read_chars`, `feed_lines`, `write_file`, `read_bytes`, ... | the last line without a newline, the end against a failure, a channel closed meanwhile | each way of reading gives the same text, a failed write is reported |
| Random (`random.hpp`) | a generator | `next_double`, `bernoulli`, `sample_indices`, `Categorical`, ... | boundaries of the alias table | samples distinct and in range |
| GPU (`gpu.hpp`) | host and device buffers, scratch blocks, a queue, local memory | `reduce`, `dot`, `map`, `matmul`, `softmax`, `transpose`, ... | scratch blocks reused after a failure, work-items between two barriers, shapes that do not fill a tile | what the loops on the host give |
| Sequences (`vec`, `ranges`, `views`, `inplace`, `map`, `grid`) | none | folds, windows, sorts, partitions, lazy adaptors | shorter and empty operands, loops that write where they read | the different ways of computing one thing agree |
| Results (`either`, `maybe`, `result`, `validation`, `error`) | none | `map`, `and_then`, `sequence`, `combine`, contexts, accessors that throw | which of several errors is kept, and whether it survives an exception | the first, or all in order, as named |
| Text (`string`, `serialize`) | none | split, join, trim, pad, numbers, bytes | separators at the ends, signs, widths of integers | joining undoes splitting, reading undoes writing |
| Numerics (`linalg`, `simd`, `numerics`, `autodiff`, `ops`) | none | unrolled and tiled loops, stable functions, dual numbers | what is left after whole groups; large arguments | each element counted once, identities hold exactly |
| Callables (`compose`, `curry`, `combinators`, `memoize`) | the cache of `memoize` | pipelines, currying, `fix`, `memoize` | grouping of arguments, recursion through the cache | all groupings agree, one evaluation per argument |
| The rest (`macros`, `print`, `time`, `all`) | none | formatting, clocks, macros | | |

How they interact: an `Actor` owns a `Channel` and calls it from its clients and its own
thread. The `par_*` helpers submit tasks to a `ThreadPool` and wait for them from a thread
that may itself be a worker. The cancellable `enqueue` makes a `Task` whose `stop_source`
is bridged to the caller's token by a stop callback that runs on the stopping thread; a
`race` or a `timeout` of tasks cancels the tasks it was built from. `Stream` and
`feed_lines` read and write a `Channel`. A reduction on a GPU keeps the blocks of its
`Scratch` in `Buffer`s. The hazards these meet are listed in `PROJECT.json`, each at the
line where it bites and with the property that watches it.

## 2. Modules

| Module | Models | Composed with |
|---|---|---|
| `ClosableQueue` | what `Channel` promises: an atomic FIFO queue with a bound that can be closed | |
| `Channel` | the code of `Channel` | refines `ClosableQueue` (`ImplementsContract`) |
| `Actor` | the code of `Actor` | `INSTANCE ClosableQueue` as its mailbox |
| `ThreadPool` | both `enqueue`, `submit`, `loop`, the destructor, the cancellation bridge | |
| `Chunking` | the arithmetic that cuts an input into chunks | |
| `ParRun` | `detail::par_run`, `Latch`, `ErrorSlot` and the helpers over them | `Chunking`; its pool is the FIFO of tasks `ThreadPool` is shown to be |
| `CancellablePar` | the loops that hold one future per chunk, over a pool or over `std::async` | `Chunking` |
| `BoundedFifo` | what `RingBuffer` promises its two threads | |
| `RingBuffer` | `push`, `try_pop`, `size` access by access | refines `BoundedFifo` (`ImplementsFifo`) |
| `Tasks` | `Task`: producers, `then`, `and_then`, `recover`, `join`, `race`, `timeout`, `cancel` | |
| `Futures` | the combinators over plain futures, `Async`, and the `retry` that makes a `Task` | extends `Tasks` |
| `Streams` | the stages of `Stream` over channels: each call of a source, and what a callable does with its answer | |
| `Arena`, `Owners`, `ScopeGuards` | `arena.hpp`; the owning types of `memory.hpp` and `gpu.hpp`; `scope.hpp` | |
| `Registry`, `Reflection` | the type registry; fields, references to them, enumerators, names and kinds of types | |
| `GpuReduce`, `GpuKernels`, `GpuTiles` | reductions with scratch blocks; one work-item per output; work-groups with local memory | `GpuTiles` uses `GpuKernels` as its reference |
| `Terminal` | `raw_mode` | |
| `BitWords`, `BitSections`, `BitStreams` | bits of one integer; of a section of bytes; of a stream | |
| `Parsers` | the combinators as a small language, and what runs it | |
| `Collections`, `Ranges` | sequences, maps and grids; lazy and curried forms, loops that write where they read | `Ranges` beside `Collections` |
| `Strings` | text and numbers in text; istreams and files | |
| `Results`, `Closures` | results, validations, their exceptions; callables, memoization, matching | |
| `Kernels` | draws; unrolled, tiled and vector loops and the functions on top of them | |
| `Components` | the constants of `Arena`, `Registry`, `Owners`, `ScopeGuards`, `CancellablePar`, `GpuReduce` and `Streams`, what is assumed of them, and the properties of these components, for every value of the constants | `INSTANCE` of the seven |
| `MCChannel`, `MCThreadPool`, `MCParRun`, `MCTasks` | instances for TLC: sets of threads, tasks, calls, capacities, expressions; `RingBuffer` and `Actor` need only a `.cfg` | one per module above |
| `MCComponents`, `MCAlgorithms` | instances of the components with state and of the pure algorithms: a behaviour picks one component, or one operand of one topic | `MCComponents` extends `Components` |
| `ChannelProofs`, `ThreadPoolProofs`, `ParRunProofs`, `RingBufferProofs`, `ActorProofs`, `FuturesProofs`, `ComponentProofs`, `StreamProofs` | theorems and proofs | each extends the module it is about |

Names follow the source: `q_`, `closed_`, `tasks_`, `stop_`, `latch` as `count_` and
`done_`, `head_` and `tail_` as the number of stores to them; a helper has the name of the
function it models, with a suffix where several headers have one of that name (`chunk_v`
of `vec.hpp`, `chunk_r` of `ranges.hpp`).

**Atomicity.** A critical section of a mutex is one action: from taking it to the wait that
releases it or to the unlock. What the code does outside a mutex is an action of its own:
`close()` and the destructor notify after unlocking, so `CloseSets`, `CloseNotifiesEmpty`,
`CloseNotifiesFull` and `DestroySets`, `DestroyNotifies`, `DestroyJoins` are separate, and
in `ThreadPool` so is the `notify_one` of an enqueue (`Notify`). A condition variable is
the set of its sleepers; `notify_one` removes any one of them, and `WakesSpuriously` lets a
thread wake for no reason. In `ParRun` each `fetch_add` on the chunk counter and each
arrival at the latch is an action. In `RingBuffer` each atomic access and each slot access
is one. In `CancellablePar` each look at the token is. In `Registry` a writer copies,
changes and stores in separate steps and a reader keeps the snapshot it loaded. In
`GpuTiles` each instruction of a work-item between two barriers is a step, in any order
among the items of a group. In `Streams` a stage that calls its source, and a stage that
handles what its source answered, are steps of their own with senders in between; `try_recv`
is one, as in `Channel`.

**Memory order in `RingBuffer`.** An index is written by one thread, so its stores are
numbered and a load returns the number of a store: any one not older than what its thread
already knows. An acquire load of a release store makes visible what the storing thread had
done (`popsVisible`, `pushesVisible`); the slots are plain memory, and `NoDataRace` says
that whoever touches a slot knows of the previous access by the other thread. Values wrap:
the code's `size_t` subtraction and its `& (cap_ - 1)` are computed modulo `Modulus`.

**Cancellation.** In `ThreadPool` a task with a token has a `stop_source` of its own
(`stopped`) and a callback registered with the token (`bridged`). `request_stop` sets the
token, then runs the callbacks one by one, then returns; construction of a callback on a
token already stopping runs it at once. In `Tasks` an expression is a graph of nodes in
the order in which the program builds them. Nodes of a chain share the `stop_source` of
their producer, a race has its own, and bridges between sources are callbacks as above. A
node has a thread that waits for the nodes it was built from; what its callable answers
(a value, an error, an exception, or "cancelled" by a callable that polls its token for
ever) is chosen from the node's `ends`.

**Memory.** An owner in `Owners` holds a block of a heap with the size and alignment it has
to be freed with; `value` is what the owner is to its user, and the blocks have to follow
it. Sizes are rounded up to the alignment modulo `SizeMax + 1`, as the code does, so that a
block can be smaller than what was asked for. Owners of one `Shared` write into one block. Addresses in `Arena` are offsets in blocks that start aligned. A block of device memory
has junk in what nobody wrote.

**Data.** A message is the pair of its sender and the number of its call; a task, a thread
and a call are model values; the state of an actor is the sequence of messages applied,
the most general pure handler; `ParRun` counts how often each index was run. A word is the
set of its bits that are one. A predicate is the set of what satisfies it, a callable a
function on a finite domain, an optional a set of at most one value. Numbers are integers
or fractions in lowest terms; where a kernel calls `exp`, the exponential has base two or
is a table, which keeps every identity of exponentials and stays exact.

## 3. Runs

| Run | Instance | What it shows |
|---|---|---|
| `channel` | three threads with different rights, capacities 0, 1, 2, three calls each | `CapacityRespected`, `NoLostWakeup`, `CloseReleasesBlocked`, and that the channel implements `ClosableQueue`, progress included |
| `thread_pool` | two workers, two clients, four tasks: plain, nested, two cancellable | `NoLostWakeup`, `EachTaskOnce`, `DrainedOnExit`, `StoppedNeverStarts`, `AcceptedIsResolved`, `DestructorReturns` |
| `par_run` | pools of 1, 2, 3 workers, one call from outside and one from a task of the pool, sizes 0 to 5 | `FrameOutlivesHelpers`, `EachIndexOnce`, `ErrorsReachCaller`, `CallsReturn` |
| `par_nested` | both workers of a pool run a task that calls `par_map` on it | `CallsReturn` fails: finding 1 |
| `par_reduce` | one or two workers, one to nine elements | `ReadsStayInBounds` fails: finding 2 |
| `ring_buffer` | three-bit indices, eight pushes, one, two and four slots | `NoDataRace`, `SizeSane`, and that the buffer implements `BoundedFifo`, a polling consumer's progress included |
| `actor` | two clients with two messages and one snapshot each, mailbox unbounded or of one message | `AppliedInOrder`, `FreshSnapshots`, `DrainedOnDestroy`, `AskAnswered` |
| `tasks` | seven expressions of up to five nodes, two attempts of a retry, a stop of the caller's token or of any task at any moment | `LosersCancelled`, `AnswersComeFromInputs`, `SkippedWhenStopped`, `SetOnce`, `StoppedResolves` |
| `components` | one component per behaviour: an arena of blocks of eight bytes, two writers of a registry, three owners of three blocks in four families, three scopes, three reductions, thirteen tiled launches of which seven are refused or empty, inputs of none to four elements on none to three workers, pipelines of up to three stages with two sends to each channel and four pulls, and described types and kernels as operands | `LiveDisjoint`, `RegistryComplete`, `OwnedOnce`, `GuardsMatchExit`, `OkIsComplete`, `StreamAgrees`, `WaysAgree` |
| `terminal` | three calls of `raw_mode`, three flags | `OriginalComesBack` fails: finding 3 |
| `algorithms` | one operand of one topic per behaviour: words of six and eight bits, sections of three and five bytes, streams of three fields in either order, parsers of depth three, texts as istreams and files, sequences to length four or five, matrices to five rows, systems of two and three equations of which some are scaled down to the least pivot and some are not square, draws from up to nine | `BitsKept`, `ParsersAgree`, `CollectionsAgree`, `NumbersExact` |
| `simd_slices` | one to twenty elements, up to two workers, sizes of five bits | `OwnSlices` fails: finding 4 |

Every property of a passing run has a mutant: a plausible bug, written as an operator next
to the definition it replaces, under which TLC finds that property violated.

`WaysAgree` and the properties of `algorithms` are conjunctions: each names the parts,
and each part is stated, with what it is about, in the module it belongs to
(`ReduceIsExact` in `GpuReduce`, `SplitsAgree` in `Strings`, ...). A pure function is checked
against a definition that is not its own: another header's way of computing the same, its
inverse, or a law that determines it.

**Why the bounds are enough.** A lost wake-up needs two sleepers on one condition variable
and one thread that frees or fills two places: three threads and capacity 2. Three calls
let a thread be woken, go back, and call again. In the pool, two workers give a worker that
takes a task another was notified for; the nested task gives an enqueue during the
destructor's drain; two cancellable tasks give two callbacks of one stop. Three workers
give a latch of two, so that a last arrival exists beside an earlier one; five elements on
one worker give rounded-up chunks of which the last is empty. Eight pushes over three-bit
indices make both indices wrap, and a buffer of four slots is half their range, as close to
the modulus as a power of two below it can be. The expressions of `tasks` have one node of
every kind and each pair of kinds whose sources meet: a chain with an inner task, a race
under a timeout, a race inside a join, an inner task that outlives its chain. Three owners
are a source, a target and a bystander of a move; three blocks let one be freed while two
live. Two threads and three writes are a lost update and a reader between two of them. A
reduction of five elements in chunks of two has a short last chunk, and three calls use
scratch blocks that grew and that failed to grow. Two sends to a channel and four pulls let an
end come between two items, so that a stage is asked again after it answered `nullopt`, and
let a `take` of two be full before its source is. The three owners are interchangeable: TLC
takes one order of them (`SYMMETRY`; the run has safety properties only). Sections of three and five bytes are
below and above a word, start and end in any bit, and overlap in every way; groups of two
and tiles of three leave remainders of every size. The least pivot of `solve`, 1e-12 in the
code, is a sixteenth (`Tiny`): whole numbers divided by 32 are below it, at it and above it,
with small numerators.

**Fairness.** Each thread that is inside an operation and not blocked is scheduled (weak
fairness per thread), which is what an operating system gives. A thread between operations
owes nothing: no run assumes that a sender sends, that somebody closes or that a destructor
is called, that a program builds the next node of its expression or stops it. A mutex is
not assumed fair; where a thread could be kept from it for ever by others (`mu_` of an
actor by clients that take snapshots in a loop), the others are bounded (`MaxSnapshots`)
and the bound is named. Bodies of tasks and handlers return or throw; a callable that polls
its token returns once it is stopped; deadlines pass. Condition variables owe no spurious
wake-up. The consumer of a ring buffer polls. `CHECK_DEADLOCK` is off: every system here
may come to rest, with all calls made or nobody left to call; that nobody is *stuck* is
what the liveness properties say. The sequential components have safety properties only
and assume nothing.

## 4. Findings

1. `par_nested`: `par_run` waits at line 488 for its *helpers*, not for its chunks. When
   every worker runs a task that calls a `par_*` on the same pool, each waits for a helper
   queued behind the others, although no chunk is left to run. The comment at 444-447 and
   `.docs/concurrency.md` say a worker that is slow to wake costs nothing.
2. `par_reduce`: line 588 reads `v[s]` before looking at the interval. The chunk size is
   rounded up, so the last chunks can start at or past `v.size()`: one worker and five
   elements give chunk 3 the start 6. The value read past the end enters the result.
3. `terminal`: `raw_mode(true)` saves the current settings each time (`input.hpp:98`), so
   a second call saves the raw ones and `raw_mode(false)` leaves the terminal raw. The
   comment at `input.hpp:92-93` says the state is saved on first enable.
4. `simd_slices`: `par_map_inplace` (`simd.hpp:202`) rounds the chunk up as `par_map` does
   but not down again: the last slices start past the end of the buffer and their length
   wraps. The comment at `simd.hpp:199` says each chunk maps its own slice.

Smaller disagreements met while modelling. The models follow the code; no run is spent on
them.

- *Memory.* An arena allocates from its last block only (`arena.hpp:34`): after a
  `reset` the earlier blocks stay empty, although `.docs/memory.md:231` says the next
  allocation reuses the same memory. Sizes of `AlignedBuffer` near the largest `size_t` wrap when they are
  rounded up. A clone of a shared GPU buffer is not shared.
- *Reflection.* Enumerators of signed types are said to be scanned over [-128, 127]
  (`reflect.hpp:60`, `.docs/reflection.md:218-222`); the scan starts at 0. `std::array<int, 40>` has
  arity 40 although more than 32 fields are said to give 0. `equal` and `copy_fields` need
  `field_name` and do not compile for types described through `FieldAccess` (docs line
  247). Opaque fields are never equal, not even to themselves.
- *Bits.* The comments at `bits.hpp:1392`, 1493 and 1530 describe `read_into` and
  `write(span)` for streams with the low bit first only; a writer with the high bit first
  given more than 64 bits shifts by the width of its word. `operator[]` of a section
  returns a reference that, without assertions, reaches outside the section.
- *Text.* `to_int` accepts `+-5`. `parse_numbers` reads every integer type through `int`:
  64-bit values are refused as "not a number" and narrow types are cut. The round trip
  promised at `serialize.hpp:16` does not hold for character types.
- *Parsers.* `sep_by` without a first item answers ok with an empty list
  (`parse.hpp:219-220`); `.docs/parsing.md:86` and 117 say one or more `p`. The model does
  what the code does, and `LoopsAgree` says nothing of that case.
- *Files.* `write_file` and `write_bytes` look at the stream before its destructor closes it: what
  only the close fails to write is lost with an ok answer, although `.docs/io.md:3` says that
  failures such as a full disk come back as errors (`FilesAgree` has the exception).
- *Views.* `views::take_last` hands its own copy of a temporary on as a variable: the view it
  returns refers to what is gone (`take_last_view` of `Ranges`), although
  `.docs/collections.md:332` says these adaptors own a range that is an rvalue.
- *Sequences.* A curried `fold_left`, `fold_right` or `scan` moves its initial value away
  on first use. `views::zip` of an rvalue owns it inside a closure that the view points
  into, and dangles when that closure is a temporary, although `views.hpp:114-115` says it
  owns its data. `views::filter_map` calls its function twice for what it keeps. The
  rounding `(total + n - 1) / n` of `chunk` and `stride` wraps for huge `n`. `range` with a
  negative step may not end.
- *Results.* A `Validation` that failed without a message counts as success in
  `validate_all`, and makes `combine` and `combine2` throw. `merge` fails when either
  side failed (`validation.hpp:102-113`); `.docs/adts.md:328` says it picks the first
  success.
- *Callables.* `memoize(fix(f))` is shown in `.docs/composition.md:265` as the way to cached
  recursion, but `fix` hands the callable itself, not the cache: `fib(15)` runs it 1973
  times. `pipe_with` (`combinators.hpp:79`) puts its further arguments into `std::move` and
  compiles only without any; `.docs/composition.md:152` shows it with two.
- *Numerics.* The comment at `ops.hpp:93` equates `clamp` with `min(max(x, lo), hi)`, which
  it is for `lo <= hi` only; `simd::clamp_inplace` is the latter. `simd::reduce(v, init)`
  counts `init` once per lane and once more. `map_inplace_fixed` does not compile when it is
  used: its mask is declared as a `simd` (`simd.hpp:127-128`) and line 140 calls
  `copy_from` with a mask; `.docs/simd.md:68-69` shows a use. `solve` looks at the
  length of the first row only, and with an integer element type its threshold is zero
  (`linalg.hpp:251`), so that a singular system is divided by zero instead of refused.
- *Concurrency.* The cancellable `par_for_each` over an empty input divides by zero
  (`concurrent.hpp:633-637`), and so does the cancellable `par_reduce` over a pool of no workers
  (659), which `ThreadPool(0)` makes. `CancellablePar` has both as the end of the program
  (`Begin`). The other two wait for ever on such a pool. The cancellable `par_map` and `par_reduce` of nothing answer ok although the
  token is stopped (610, 656); `.docs/concurrency.md:235-237` says they resolve to
  `err("cancelled")` then. Results of type `bool` share bytes of a `vector<bool>` between threads.

## 5. Proofs

`ChannelProofs` proves, for every finite set of threads, every set of capacities, every
assignment of operations to threads and every `MaxCalls` (`ChannelAssumption`):

- `TypeCorrect`: `TypeOK`, which is inductive.
- `CapacityTheorem`: `CapacityRespected`. Each step appends only under the predicate that
  there is room, evaluated in the same critical section.
- `NoLostWakeupTheorem`: the three parts of `NoLostWakeup` are inductive together with
  `TypeOK`. The count "queued messages are at most awake receivers" survives because a push
  wakes one sleeper, so both sides grow, and a pop takes one message and one receiver.
- `ImplementsQueue`: initial states map to initial states and every step of `Channel` is a
  step of `ClosableQueue` or a stutter; the mapping is the identity on the shared
  variables.

`ThreadPoolProofs` proves, for every finite set of workers, every set of clients and tasks
and every way in which tasks enqueue tasks (`PoolAssumption`), that `IInv` is inductive, in
layers:

- `TypeCorrect` and `TaskOnce`: `TypeOK` and `EachTaskOnce`. The phase of a task, the queue
  and the workers' jobs are kept in step by every action, so pops and pushes at the same
  time can neither drop nor double a task.
- `Drained`: `DrainedOnExit`. It needs `DestroyInv`: `stop_` is set exactly from the
  destructor's first step on, and a task between the construction of its bridge and its
  push has a caller that is still running, so when every worker has left nobody is about to
  push.
- `Stopped`: `StoppedNeverStarts`, from `StopInv`: a cancellable task on its way through the
  pool is registered with the token or its own source has been stopped, and when
  `request_stop` has returned nobody is registered.
- `Wakeup`: `NoLostWakeup`. A push adds a task and a thread that owes a `notify_one`; the
  notification turns the debt into an awake worker, or finds nobody asleep; a worker that
  leaves the awake ones takes a task with it.

`ParRunProofs` proves, for every family of finite non-empty pools, every set of calls,
nested or not, and every input size (`ParRunAssumption`), that `IInv` is inductive, and
from it `TypeCorrect`, `FrameSafe` and `ErrorsReported`. `FrameOutlivesHelpers` is not
inductive: that the latch is open says nothing of the helpers unless it *counts* them. The
invariant therefore says that `count_` is the number of pending helpers (`Pending`: not yet
submitted, queued, or not yet arrived), that a failed submission takes one off both, that
at most one puller is between the last decrement and setting `done_` and only at zero, that
what is in the queue is there once and has not started, and that what was raised is in the
slot or in the hands of a puller on the way to it.

`IndexTheorem` (`EachIndexOnce`) rests on that and on arithmetic: with a chunk size that is
rounded up, the chunks cut `0 .. n - 1` without gap or overlap, the last ones being empty.
`IndexInv` then follows each chunk: fetched by one puller (`HandsInv`), run only when fetched
and in no hand any more (`RanInv`), run in full unless something was raised (`DoneInv`), and
none left when the caller stops to pull (`BoundsInv`).

`RingBufferProofs` proves, for every width of the indices and every requested capacity,
`NoRace`, `SizeTheorem` and `ImplementsQueue`. The invariant says that what each thread knows
of the other's index is old but true, that it leaves room for what is being pushed and covers
what is being popped, that a store to `head_` carries a view of `tail_` that is not behind
it, and that the slots of the elements inside hold them. Two stores of one index go to the
same slot only when they are a whole buffer apart, also across the wrap, because the
capacity divides the modulus: `SmallerDivides`, for powers of two as numbers without an odd
divisor, by halving both of a least counterexample.

`ActorProofs` proves `OrderTheorem`, `SnapshotTheorem` and `DrainTheorem` for every set of
clients and every mailbox capacity (`ActorAssumption`). Of the history of accepted messages
`OrderInv` says that it is the state, then the message in hand, then the mailbox, and
`AnswersInv` that each answer is the history up to its own message, one of them possibly
ahead of `state_` while the thread is between the reply and the assignment; it holds `mu_`
then, so nobody takes a snapshot.

`FuturesProofs` proves `SetOnceTheorem`, `LosersTheorem`, `AnswersTheorem` and
`SkippedTheorem` for every set of expressions whose nodes are well formed
(`TasksAssumption`). The nodes take some forty kinds of steps; `LegalStep` says what each may
do to a node and to the flags of races, and each action is shown to be legal once. The
invariant has the reason of every answer (`Justified`): who won, how many contestants were
cancelled by then, what the first failure was. `join` and
`async_sequence` of nothing answer at once, which the proof asks for; the instances have such
nodes.

`ComponentProofs` proves six properties of `Components` and `StreamProofs` the seventh, under
`ComponentsAssumption`: sizes are natural numbers and contents sequences of integers, writes of
the registry can be told apart, the alignment and the chunk of a reduction on a device are not
zero, what is sent to a stream is of its type, and a pipeline is a sequence of stages.

- `CompleteTheorem`: `OkIsComplete`. `ChunkedInv` says of each chunk which elements it has
  done, and that the caller goes through the futures in order; the token is only ever set, so a
  caller that finds it unset when all chunks are done has all elements. Pools may have no worker
  and inputs no element: the two calls that divide by zero then (section 4) may end the program,
  and `ChunkedInv` says that nothing else does. Where a processor gives zero for the quotient
  instead, `par_for_each` goes on without a chunk and `par_reduce` submits until memory is out.
- `GuardsTheorem`: `GuardsMatchExit`. `CountsInv` says that each guard remembers the exceptions
  in flight below its scope, one more than the scope around it if that is unwinding: the count
  at its end is above its own exactly if its own scope unwinds.
- `RegistryTheorem`: `RegistryComplete`. Who has something to write holds the mutex and its copy
  is the current snapshot with that added; a snapshot holds exactly what was written since the last
  clear, and its indices refer to each other.
- `OwnersTheorem`: `OwnedOnce`. Each holding is in order with its block as allocated
  (`InOrderInv`), only `Shared`s hold the same block and what was released has no owner
  (`SingleInv`), and each block is held by somebody (`HeldInv`), where a size that wrapped in
  rounding up has the block the code allocates for it. Every operation, from default construction
  to `reset`, is a composition of a few: a target drops what it has, takes what another gives up, or stores into
  a block that is its own.
- `ArenaTheorem`: `LiveDisjoint`. A mark is a sum of bytes, a rewind takes off bytes from the last
  block back, and an allocation is a place in a block. `Kept` connects them: what was allocated
  before a mark ends, counted from the first byte of the first block, below the mark; later marks
  are not lower (`MarksInv`). What blocks before the last count can only be taken off
  (`KeptGrows`), and of the first blocks a rewind leaves the bytes up to the mark
  (`RewoundSums`, `KeptRewound`). Sums and the recursion of `reset_to` are recursive functions:
  that they have values, and which, is shown by least counterexamples.
- `ReduceTheorem`: `ReduceIsExact`, which the run checks as a part of `WaysAgree`. The sums of the
  chunks sum up to the sum (`ChunksSumUp`, from `SliceSums`); a command of the call that waits is
  the last in the queue or was followed only by the copy, so that when it ran, nothing of an
  earlier call can still write over what it brought (`SumsInv`); a command in the queue has its
  blocks, or a submission has thrown (`QueueInv`).

`StreamProofs` proves `StreamTheorem` (`StreamAgrees`) for every type of items, every pipeline and
every function, predicate and count of its stages, any number of sends and pulls. `StreamInv`
has what each channel gave up and still holds, what each stage answered as a function of what it
has heard of its source, and what the consumer collected; an answer that has come but is not
dealt with yet is in the log of the source and not in what the stage has heard (`Heard`). What a
stage holds for itself is a function of the same log (`OwnAgrees`): the count of a `take` is the
number of items it heard, an accumulator what `Folded` makes of them, and a `concat` has turned
exactly when it heard an end. One lemma per stage says that the relation of what is heard to what
is answered survives one more answer. They rest on facts about `FlattenSeq` and `Folded`
(a flattened sequence with one more element is the flattened one followed by it): both are
recursive functions on intervals, which exist and are determined by a least counterexample.

The inductive invariants were checked with TLC on the instances of the runs, with quantifiers
over `Nat` cut to what occurs there.

**Only model-checked.** Liveness (`CloseReleasesBlocked`, `AcceptedIsResolved`,
`DestructorReturns`, `CallsReturn`, `AskAnswered`, `StoppedResolves`) and the progress
parts of `ImplementsContract` and `ImplementsFifo`: temporal properties under fairness, and
`ENABLED`, are beyond the prover. `WaysAgree`, `BitsKept`, `ParsersAgree`, `CollectionsAgree` and
`NumbersExact` compare recursive definitions with each other on bounded inputs (of `WaysAgree`,
`ReduceIsExact` is proved); what a recursive definition computes for every input is induction over
data. The library's induction theorems need operator
parameters, which no installed prover instantiates; for functions on intervals a least
counterexample does instead, as in `ArenaTheorem`, `ReduceTheorem` and `StreamTheorem`, but `Parsers`, `Strings`, `Results`,
`Closures`, `Kernels` and others are written with `RECURSIVE` operators or with folds and are for
TLC only.

## 6. What is not modelled

Thread creation is taken to succeed. A destructor runs when no client is inside the object
(the code requires it of its users, as the standard library does); tasks of a pool may
still be running and enqueueing. `send` on a closed mailbox by a client of an actor under
destruction is excluded for the same reason. `vector<bool>` results, whose elements share
bytes, are not distinguished. Handlers of an actor are pure, as the documentation asks;
handlers that call their own actor or throw are outside. An exception in a detached thread
of a race ends the program; in the model its place stays unfinished. A cancellable
loop that throws leaves its frame while chunks still run (`Unwind`); what their references then
reach is not modelled, and no property is stated of it.

Floating point is exact here: rounding, infinities and NaN are outside the reach of TLC, and
so are the distributions of the standard library. `solve` is modelled for doubles, as exact
fractions, and for matrices whose rows are as long as the first one: a shorter row is read past its
end. `map_inplace_fixed`, which does not compile, is left out. An istream is a text, a position and its flags,
and a file a text at a path: errors of a device in the middle of a read, permissions,
directories, formatting, printing, clocks and keys are I/O. Sizes, alignments and offsets of
types are what the compiler decides. Macros and
concepts have no state. The errors of a SYCL runtime other than a failed allocation or
submission are left out. Parsers that loop for ever without consuming (`sep_by` of two
that do) are kept out of the instances by `Terminates`.

## 7. What is left open

1. `TilesExact` of `GpuTiles` as a theorem: that the work-items of a group meet at their barriers
   and read only what was written before. The program of a group is a flattened sequence whose
   length depends on the shape of the job, so the invariant has to be stated by place in it.
2. The parts of `BitsKept` and `NumbersExact` whose recursion goes over an interval, written as
   recursive functions and proved by least counterexamples as the streams are.
3. The exception that unwinds a cancellable loop while chunks run, as a property of what
   the frame may still be used for. Nothing is promised of it today.
