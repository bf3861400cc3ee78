# A TLA+ model of SandyRT

SandyRT compiles model descriptions (`.sandy.go`) to kernel graphs and serves
them: a C++ worker answers gRPC requests with generated tokens, on a CUDA or CPU
device, and a Python process in front of it speaks the OpenAI HTTP protocol.
This directory models the parts whose correctness depends on order, failure and
lifetime: who may use the device, which memory belongs to whom, what a captured
graph replays, and what the client is told. TLC checks the models on small
instances; TLAPS proves what matters most for every instance.

Source paths below are relative to the repository root.

## 1. Inventory

| Component | State it keeps | Operations | What is hard about it |
|---|---|---|---|
| Generation gate (`src/server/GenerationGate.*`, `RequestControl.h`) | ticket queue, active flag, next ticket | `acquire`, `release`, the 20 ms poll | FIFO under wakeups in any order, waiters that cancel or time out |
| Inference service and session (`src/server/SandyInferenceService.cpp`, `Model.cpp`, `Session.cpp`) | per request: caches, prompt position, output; on the device: pools | `Generate`, `GenerateStream`, prefill, decode, sampling, cleanup | errors and stops at every step, cleanup order, positions against cache lengths |
| Paged tensors (`src/device/cuda/CudaPagedTensor.*`) | pages, free list, page tables on host and device | create, alloc, reserve, append, attention view, dealloc | the device stream runs behind the host; CUDA calls fail half-way |
| Scratch allocator (`src/device/cuda/CudaScratchAllocator.*`) | placements, live set, free ranges, cursor | `alloc`, `free`, `finalizeLayout` | best fit, splitting and merging; overlap is silent corruption |
| Executable scratch plan (`src/device/Device.cpp`) | last uses, fixed and dynamic views | plan, instantiate, run, free | aliases, exports, in-place use, sizes known only at run time |
| Executable run, captured graphs (`src/device/Device.cpp`, `cuda/CudaDevice.cpp`) | captured regions, run flag, validation word | `runExecutable`, `executeCommands`, capture, replay | stale captures, failures inside a capture, flags left set |
| HTTP stream bridge (`python/sandy_server/app.py`) | queue, stop event, decoder, generator position | reader thread, generator, client | bounded queue between a thread and an event loop, disconnects at every yield |
| Engine (`src/engine`) | execution plan, values and buffers of a run, weights | `compile`, `runValues`, `loadWeights`, `deallocWeights` | borders between executables, buffers shared by values, error paths |
| IR and lowering (`src/ir`) | graphs with use lists, a fusion plan | building, verification, passes, lowering, kernel verification | every rewrite must keep the meaning; a value with two readers; unknown dimensions |
| Run-time shapes (`src/engine/RuntimeTensorDesc.cpp`) | the shape of every value of a run | inference from the shapes of the inputs | the same rules written a third time |
| CPU device, core (`src/device/cpu`, `src/core`) | buffers, views with strides, an arena of pages | views, copies, reference kernels, page pools, appends | offsets and strides, pages handed from tensor to tensor, a pool at its end |
| CUDA kernels (`src/device/cuda/*Kernels.cu`, JIT templates) | a stream, threads, shared memory, temporary arrays | row reductions, mixture of experts, top-k, attention | threads between barriers, warps that share tiles, atomics, calls that fail half-way |
| Language and compiler (`src/sandygo`, `src/compiler`) | none after start-up | lexer, parser, tracing interpreter | conversions |
| Sampler, logger, tokenizer, weights reader, worker's `main`, scripts | none that the rest reads back | conversions, arithmetic, start-up | - |

How they interact. The HTTP server opens one gRPC call per request and reads it
in a thread. A gRPC handler thread of the worker waits in the gate, makes a
`Session`, which creates its cache pools on the device, runs the model graph once
per prompt chunk and once per token, hands each token to the stream, and destroys
the caches before it returns the lease. A run of the graph goes through the
engine to executables of the device: each has scratch planned at compile time
(fixed) and per run (dynamic), appends to paged tensors, and on CUDA replays
captured graphs. Everything on a CUDA device is put on one stream and is finished
later; deallocation of paged tensors, the end of an executable run and a grouped
product of experts wait for it. The graph the engine runs was written by the
language's interpreter, rewritten and lowered at start-up; the same graph is run on
the CPU device by reference kernels over strided views and on the CUDA device by
kernels whose threads meet at barriers.

## 2. Modules

| Module | Models | Role |
|---|---|---|
| `FifoLock` | what the gate promises | abstract |
| `GenerationGate` | mutex, condition variable, tickets, cancellation, deadlines | detailed; implements `FifoLock` |
| `ThreadProofs` | - | theorems about `GenerationGate` and `CudaRows` |
| `InferenceService` | handlers, session, caches, answers, over `FifoLock` | composition |
| `InferenceServiceProofs` | - | theorems |
| `PagedCache` | CUDA page pool, page tables, host calls, device stream | detailed |
| `PagedCacheProofs` | - | theorems |
| `ScratchAllocator` | `CudaScratchAllocator` | detailed |
| `ScratchAllocatorProofs` | - | theorems |
| `ScratchPlan` | plan and run of an executable's scratch, over `ScratchAllocator` | composition |
| `CommandStream` | what a run of an executable promises | abstract |
| `ExecutableRun` | regions, capture, replay, validation | detailed; implements `CommandStream` |
| `ExecutableRunProofs` | - | theorems |
| `ExecutionPlan` | partition of a graph into executables | operators |
| `EngineRun` | a run of a graph, weights, over `ExecutionPlan` | composition |
| `EngineRunProofs` | - | theorems |
| `StreamBridge` | reader thread, queue, generator, client, worker's stream | composition |
| `StreamBridgeProofs` | - | theorems |
| `Shapes`, `MidIR`, `KernelIR` | shape rules; what operations accept and give in either IR; graphs, builders, passes, shapes of a run | operators |
| `Lowering` | fusion plan, graph IR to kernels | operators |
| `Meaning` | what a graph of either IR computes, as terms | abstract |
| `Compile` | a program built, rewritten, lowered and bound, over the modules above | composition |
| `TensorCalc` | reference kernels: which elements, at which index | operators |
| `TensorAlgebra` | what operations mean on tensors without storage | abstract |
| `RowStore` | what paged tensors promise | abstract |
| `CpuPages` | arena, page pool, page tables, appends of the CPU device | detailed; implements `RowStore` |
| `DeviceMemoryProofs` | -, about `ScratchPlan` (over `ScratchAllocatorProofs`) and `CpuPages` | theorems |
| `CpuDevice` | views, copies, kernels, paged operands, over `TensorCalc`, `MidIR`, `CpuPages` | composition |
| `CudaStream` | host, stream, threads, barriers, arrays, failing calls | framework of the next four |
| `CudaRows`, `CudaExperts`, `CudaTopK`, `CudaAttention` | the kernels that share memory and their launches | detailed |
| `CudaKernels` | the device at one operation, over these | composition |
| `MC*` | small instances for TLC | |

### GenerationGate
Callers stand for gRPC threads; `Controlled` are those with a `RequestControl`
(all but direct uses of the class). `ticket`, `pending`, `nextTicket`, `active`
are the members and locals of the same name. A critical section is one step,
because the mutex covers it: `Acquire` is the first turn of the loop, `Recheck`
each later one, `Timeout` the wakeup of `wait_for`, `Release` and `NotifyAll` the
destructor of the lease, with the notification outside the mutex as in the code.
An uncontrolled caller waits without a time limit and depends on the
notification; a controlled one polls. `MaxTickets` bounds the calls.

### InferenceService
One handler runs one request at a time. The gate is taken by its contract
(`Gate == INSTANCE FifoLock`), which `GenerationGate` implements, so that the two
levels together cover the code. A pool is a map from its tensors to the
positions whose rows were appended to them; a run of the model graph appends the
rows of its tokens, each encoded for the position the session passed. Each action
is the code between two points at which a stop or a failure can come: a cache
group, a prompt chunk, an emitted token, a decode run. Errors of the device are
`OpenGroupFails`, `RunFails` (with some of the caches already grown) and, in
`CloseSession`, any calls of `destroyCaches`, which drops their errors: on CUDA a
tensor stays if the synchronisation in `deallocPaged` fails, `destroyPagedPool` then
refuses its pool, and it may fail by itself. Such a pool is left on the device and
no session knows it; `failed` remembers it, and its content is left out. `Cancel`
and `Expire` happen at any time. The checks inside `onToken` and before the push
are one step: a request that stops between them ends in the same status. Nothing is
checked between a token's `Write` and the decode run behind it, nor between a
check and the run it lets start: a stop there costs that run, which `lateRuns` counts
like one that is on the device when the stop comes.

### PagedCache
The host side is one thread, since the gate admits one session, and goes through
each call in steps: `CallAlloc`, `CallReserve`, `CallAppend`, `CallAttend`, one
`ReservePage` per page, `FillHostTable`, `UpdateDeviceTable`, `CopyRows`, `Launch`.
Every CUDA call is a step that may fail, and then what the code did before stays.
`stream` holds what the device has still to do; `DeviceStep` performs its head, in
order, and is where a freed table, a replaced host table or a recycled page would
be read. A row written by an append is remembered in `content`, so that a kernel
can be seen to read the rows the host meant. `deallocPaged` waits for the stream
(`Quiet`); nothing else does. Memory that `cudaMallocAsync` and `cudaFreeAsync`
handle lives in stream order.

The pool's description is drawn at the start from `Descs`: page size, limit, pages
made at once, and which lengths tensors are born with.

Two peculiarities of the code are kept: `initialPages` makes one page however
large it is (the loop hands the page back and takes it again), and `allocPaged`
that fails while it reserves loses the pages it has taken. `NoPageLost` states
exactly that exception.

### ScratchAllocator, ScratchPlan
`ScratchAllocator` is the placement: best fit in the free ranges, remainder kept,
cursor grown only if nothing fits, neighbours merged on free. `freeRanges_` is a
set in the model; that the pass over the sorted vector computes the merge of the
set is `MergeIsThePass`, with the pass itself written as a function (`MergePass`).
Placements of zero bytes and the checks for 64-bit overflow are left out.

`ScratchPlan` takes a small graph of ops (dense or alias), computes roots, last
uses, escapes and candidates as the code does, drives the allocator op by op,
instantiates the layout and then executes the ops cell by cell, on a memory in
which an op writes its output before it has read its inputs completely.
`RunAgain` is the next run, with dynamic sizes drawn anew. Aliases of fixed and of
dynamic scratch, exports and imports are all there.

### ExecutableRun
The executable is a sequence of commands with three facts about each: its
bindings are fixed, it reads a stable import (a weight), it is a paged append.
A run walks over it region by region. `regions` is `capturedRegions`, the record
`exec` being the commands the graph holds. Every CUDA call may fail; a failure may
leave a sticky error in the context (`lost`), after which no run begins. The
model takes the failure of the `cudaStreamSynchronize` in front of a capture to be
sticky, because that call reports errors of work already on the stream. This
matters: it is the one path that stores a region without graph and without
disabling it, so if such an error were transient, every later run of the region
would launch a null graph. `RegionTableSound` states the exception. `issued` is
what the stream was given in this run, `tripped` remembers whether a command of
this run failed its check on the device, independently of the code's word `flag`.

### ExecutionPlan, EngineRun
`ExecutionPlan` cuts a graph where the device changes and at transfers, and gives
each node its imports, exports and the caches it appends to. The repeated pass that
exports the source of an exported view is written as its result, the views' chain.
`EngineRun` binds the inputs, runs the nodes at their first operation and the
transfers in between, reads the outputs and gives the buffers back. `state` is
`RuntimeState`: `bound` (its `buffers` and `bufferDevices`), `refs`, `retired`,
`paged`. Buffers carry the number their device gave them, so equal numbers on two
devices are different buffers, as in the code. The executable of a node is taken by
its contract, which `ScratchPlan` and `ExecutableRun` study: it computes an export
into the storage it was given, a view into its source's, and everything else into
scratch (number 0) that is gone afterwards. `heap` holds for each buffer the value
it shows; a step that reads something else writes garbage, and that is what the
caller finds in the outputs. Names, shapes and views' strides are left out: what
`verify` checks of a graph holds for every graph of the instance.

Every device call may fail. A run that fails returns with its buffers still
allocated, and so does `loadWeights`; only scratch has a guard. The model keeps this.
After `compile` every operation but inputs, tuples and transfers belongs to a node,
so the path that runs single operations, and with it the scratch of a whole run
(`RuntimeScratchPlan.cpp`), is not taken and not modelled.

### Compile and what it is made of
A behaviour writes a program of one of the `Families` operation by operation
(`Build`, `BuildBuiltin`), returns values of it, and takes it through the compiler:
`Fuse` (transposes into products), `Sweep` (one round of dead-code elimination),
`LowerGraph` with or without fusion, and `Bind`, the inference of run-time shapes
for sizes of the unknown dimensions. Graphs keep their use lists, as the passes and
the fusion plan decide by them. `MidIR` and `KernelIR` hold the conditions of
`verify` and the inference of types; an unknown dimension is `Dynamic`, an error
`NoShape`. `Lowering` follows the two steps of the code: a plan that claims
operations from the last to the first for one attention or element-wise kernel, then
a kernel for each root. Scales, epsilons and the constants of activation functions
are left out, names are numbers, everything is on one device.

`Meaning` evaluates a graph of either IR to terms: an operation applied to the terms
of its operands, a cache being the sequence of chunks appended to it. It is
independent of the passes; what the compiler may write in two ways (a transpose or a
flag of the product, attention or its three steps) has one term.

Two programs are excluded from the properties, each by a named operator. With
`AppendsAfterTranspose` a product reads a transposed cache after a later append:
folding the transpose into the product moves the read behind the append; nothing
says which is meant. `UnknownFused` is a fused kernel of three or more inputs
with unknown dimensions, whose shape the graph does not know.

### CpuDevice, CpuPages and the calculus
`TensorCalc` has each kernel of `src/core/TensorCalc.cpp` as the set of writes it
does: at which linear index, and what is computed of which loaded elements. An
element is a term over the elements of the inputs, so that a wrong stride, offset,
order or role shows; sums are bags, rounding is left out. `TensorAlgebra` defines the
operations by coordinates, without strides. `CpuDevice` applies operations of a
catalogue to values it has: `ExecuteAlias` makes a view, `Launch` runs a kernel over
views into a new buffer that begins at an offset in a scratch buffer full of old
elements; an element nothing or two things were written to is marked. `meaning` is
a ghost: what the value stands for in the algebra.

`CpuPages` is the arena, the pool with its stack of free pages, and the tensors:
`AllocPaged`, `AppendPaged` and `DeallocPaged`, of which the first two `Reserve` page by
page and may be refused one in the middle: a new tensor is then forgotten with the
pages it took (`lost`), an old one keeps them. `Place` is the address arithmetic,
`WriteChunk` the copy into pages, `ReadPaged` the copy out of them. Elements are
letters. A kernel that reads a paged
tensor reads a dense copy of it, so pages changed later do not matter to it, and
pages move only before the first kernel of a behaviour.

### CUDA kernels
`CudaStream` is the machine. The host launches the operations of a `job`
(`Issue`): a sequence of commands, each of which may be the one that fails, after
which what was allocated is freed and the rest is not launched. A free is taken not
to fail. The device does the commands in order: arrays are allocated with old
contents, filled and freed (`Memory`), a kernel runs from `Begin` to `Finish`. A
thread is at `<<phase, step>>`, phases end at `__syncthreads`, and a thread runs only
in the least phase of its block (`Runs`); between barriers threads interleave step
by step, a step being what one thread does to shared or device memory in one go.
Where the 32 lanes of a warp exchange registers or meet at `__syncwarp` the model has
one thread per warp and computes the lanes' network as a function.

`CudaRows` reduces rows by a tree in shared memory, once or twice. A number is the bag
of what it was combined from, together with the earlier result the thread used.
`CudaExperts` gathers routes (count, prefix, assign with `atomicAdd`, copy),
multiplies by row pointers or by groups the host forms from offsets it read back, and
scatters sums with `atomicAdd` into the output or a temporary; cuBLAS is one command
that follows its pointer arrays. `CudaTopK` has the bitonic sorts and merges of
warps, the banks of shared memory, both kernels for long rows and the one for short
rows; -INFINITY is 0, NaN is left out. `CudaAttention` has decoding by splits with
its second kernel, the specialised kernel over pages with its fallback, and prefill
by tiles with one warp or several heads in a block; powers of e are exact, so
a weighted sum is a bag of keys with exponents.

### StreamBridge
Reader thread: `ReadEvent`, `ReadError`, `ReadEnd`, and for each item
`EnqueueCheck`, `Put`, `PutTimesOut`, the loop of `enqueue`. Generator: one action
per poll, per yield and for the two statements of `finally`; `todo` are the chunks
not yet yielded. A client that is gone makes the server throw into the generator
at its next yield (`Close`). `wire` is the part of the worker's stream that has
been sent and not read. What the decoder shows of a token is abstracted to its
index.

## 3. Runs

| Run | Instance | Shows |
|---|---|---|
| `gate_order` | 3 callers, 1 without control, 4 tickets | `NoOvertaking`; implements `FifoLock`; a stopped waiter leaves by itself; if holders return their leases, every `acquire` ends |
| `service` | 2 handlers, prompts of 3 and 1 tokens in chunks of 2, streaming and unary, 2 cache groups | positions, ownership, nothing lost but what a call failed for, answers and their reasons, one late run without an answer; every request answered |
| `paged_cache` | 3 pages of 2 rows or 4 of 1 row, 2 tensors, 1 fault | page ownership, rows, what kernels read and whether its memory still lives, lost pages |
| `scratch_allocator` | 5 values, sizes 1, 2, 3, 5, alignment 2 | disjointness, accounting, merging |
| `scratch_plan` | all graphs of 4 ops of a class, fixed sizes or two of them known at run time, two runs | inputs intact; only exports outlive a run |
| `executable_run` | 5 commands, 2 weights, 3 runs, 2 faults | implements `CommandStream`; truthful verdict; region table |
| `engine_run` | 164 graphs, 2 devices, 2 runs, 1 fault | `RunsEndRight`: a run without a device's failure ends well, its outputs are right and it gives back what it took; `BooksMatchDevices`: counts, cache lengths and weights agree with the devices |
| `stream_bridge` | 3 tokens, queue of 2, window of 1 | form and truth of the stream; it ends; leaving cancels |
| `compile` | 7 families of programs of up to 4 operations, fusion on and off, sizes 1 and 3, caches of 0 and 2 rows | links exact; accepted graphs lower; meaning kept; shapes sound |
| `cpu_device` | 12 workloads of up to 6 operations; 6 pools, 2 tensors of up to 3 rows | values mean what they should; experts mixed; pages accounted; implements `RowStore` |
| `cuda_kernels` | 13 row jobs, 92 mixtures, 548 top-k jobs, 102 attentions | each kernel combines exactly what its operation is to combine, in every order of threads and after every failing call |
| `cuda_row_race` | softmax and layer norm of 2 rows of 3 elements, 2 threads | violated: see below |

Why the bounds are enough. The gate: three callers give a holder, a head and a
follower, the last pair being what overtaking needs; tickets are only compared,
so four let a caller come back behind the others. The service: a prompt of three
tokens with chunks of two has a full and a short chunk (a model without prefill
entry takes its prompt token by token, the same loop with chunks of one); two handlers make one wait
and one hold; two pools of two tensors and one give partial initialisation, and
three pool identities let a pool that a call failed for stay beside a whole session, and
let both pools of a session stay, so that the next one gets only one.
Paged cache: two tensors are needed for a page to change hands, three pages let one
tensor run the pool dry while the other waits, and pages of two rows have a
partly filled last page; with pages of one row four rows grow the table twice.
Scratch: five values are two more than the smallest overlap, a hole between two
live values and a third placed in it. Graphs of four ops have an alias of an
alias and a reader after it; the import 0 is read by ops of one input only, as
what is read beside it does not matter to it. Regions: two regions on both sides
of an append and of an eager command; with two weights and three runs a signature
is recorded, replayed and replaced. Engine: all graphs of an input, a weight and
one or two operations (kernel, view, transfer) have every pair of neighbours; the
four larger ones add what pairs do not: two nodes that grow one cache, views of
views across a border, a tuple that repeats its elements, a name bound twice. The
second run meets the leak of the first. Stream: the queue fills, the token after it
waits, and with a window of one the worker is held back as well.

Compile: a pass or a fusion decides by an operation, its operands' producers and
their other readers; three operations have a chain, a diamond, a second reader and a
second output, four an append on both sides of an attention. The families separate
operations that do not meet in any pass. Unknown dimensions take the value 1, which
broadcasts, and another. CPU device: shapes with different dimensions and a 1,
elements all different; chains of three views reach a view at an offset with strides
in another order. The mixture's six operations gather, multiply and scatter twice,
with an expert shared and one idle. Pools: with and without a limit, several
prefix places, an initial page, an alignment that does not divide a page. CUDA: two
to four threads of a block with fewer, as many or more columns than threads; four
lanes instead of 32, so that all 512 rows of nine zeros and ones go through the
network of `k = 8` (a network of comparisons that is right for zeros and ones is right
for all values; the rank by bisection and ties are tried on other rows); one to four
warps, one to three tiles; experts that share tokens, repeat, do not exist; splits and
tiles that the window and the query's position cut, a split that sees nothing.

Deadlock is checked except where the system may stop: the gate once the bounded
calls are used up, an executable once it is destroyed, an engine after its runs, a
response that is finished, a program that is bound, a device without an operation
left. In the CUDA runs only the end of the job may stop it, so that no block waits
for a thread that has left.

Fairness. `gate_order` assumes that a thread in `wait_for` wakes up and gets the
mutex (the standard library's time-out and a mutex held only for short sections);
that a holder releases is the hypothesis of `EveryWaiterAnswered`, so that
`StoppedWaiterLeaves` holds without it. `service` assumes weak fairness for each
handler as a whole: a runnable gRPC thread runs, a device call returns, and a `Write`
ends, which gRPC guarantees only if the client reads or goes away. `stream_bridge`
assumes it for the reader thread, for the event loop and for the end of the worker's
stream, the last being what `service` shows of the worker. Nothing is assumed of
the client.

The finding. In the softmax kernel `block_reduce_max` ends with a read of `shared[0]`
behind its last barrier, and `block_reduce_sum` begins with a write of `shared[tid]`
in front of its first one. Thread 0 may therefore store its partial sum before a
thread of another warp has read the maximum; that thread then subtracts a partial sum
instead. `cuda_row_race` finds this order in a row of three elements: the row is not
what `src/test/engine/CudaDeviceTest.cpp` expects of it. Layer norm and the two JIT
templates have the same gap; RMS norm reduces once and does not. A second
`__syncthreads` between the reductions would close it. `ReductionWhole` states what
does hold: the last reduction gives every thread of the block all that was published;
it is proved for every size (section 4).

Types. The type invariants of the gate, the service, the scratch allocator, the engine
and the stream bridge are proved; those of the paged cache, of a run of an executable
and of the CPU device's pages are part of their proofs (section 4). Those of the other
modules document their variables.

Every property has a mutant in `PROJECT.json`: the operators with an underscore
suffix next to the original, each a plausible slip in that code (a ticket not
erased, a remainder of the wrong size, a missing wait), and TLC finds the
property violated with it.

## 4. Proofs

Checked by tlapm for every value of the constants that satisfies the named
assumptions.

- `ThreadProofs`, about `GenerationGate`: `GateInvariant` proves the type invariant, mutual
  exclusion and the agreement of queue and waiters, which no run repeats;
  `GateOrder` proves `NoOvertaking`, which `gate_order` checks too.
  `MutualExclusion` is not inductive alone. The invariant adds that
  the queue is strictly increasing, that each ticket in it was drawn by exactly
  one waiter, that every ticket is below `nextTicket`, and that `active` is true
  exactly when somebody holds a lease or is releasing one. Sorted and unique make
  "the head of the queue" and "the oldest waiter" the same, which is the argument
  for order.
  `GateImplementsFifoLock` is the refinement. The abstract queue is the
  image of the ticket queue under "the waiter that drew it"; lemmas show that
  drawing a ticket appends, that leaving removes one position and that a grant
  takes the head. Each detailed action maps to one abstract action or a stutter.
- `ThreadProofs`, about `CudaRows`: `ReductionsWhole` proves `ReductionWhole`, for any rows,
  columns and blocks of 1 to 1024 threads, in every order the barriers leave. `BlockInv`
  has what each slot of the shared array holds: what the columns under it gave, up to
  the last level of the tree where its thread took part (`SlotHolds`); and how far apart
  two threads of a block can be (`Together`: one phase, and no result is read before all
  have ended the tree). So the slot that a thread adds to its own is of the level before,
  and has not been overwritten (`Neighbour`). The first result is where the two reductions
  meet: the slot that is read may be published for the second already, which is the
  race of the finding, and `ReadIs` says that nothing worse can be read. What
  columns give to the second reduction is then named by whatever each thread has read as the
  first. After the last one nothing is published, so that one is whole. `JobsAssumption`
  is CUDA's limit of 1024 threads; the sizes are numbers.
- `ScratchAllocatorProofs`: `ScratchDisjoint` proves that live placements never
  overlap and `ScratchAccounted` that the buffer is divided exactly. The invariant
  extends `LiveDisjoint` to free ranges against placements and against each other and
  puts all of them below the cursor: a placement at the cursor is then new space, one
  in a free range takes part of a range nobody shares, and a merge is a union of
  ranges that are disjoint from everything else. That no byte is lost needs alignment
  as well: a value goes to the cursor rounded up, and nothing lies in between only
  because every range, and so the cursor, ends aligned.
  `PassIsTheMerge` proves `MergeIsThePass`: the code's sort and pass over a vector
  give the ranges that `Free` leaves in the set, in order. It needs no case analysis of
  neighbours: after each range the pass keeps its result sorted, with gaps, and
  covering the same bytes; and ranges with gaps are determined by the bytes
  they cover (`SameRange`).
- `DeviceMemoryProofs`, about `ScratchPlan`: `InputsStayIntact` and `ExportsOutlive`, for every program. The
  reason why an input is intact in a run lies in the planning pass, so the invariant
  follows the argument through the three stages. In a pass a value is live from its
  operation to its last use, and what is placed in between is apart from it, by the
  allocator's invariant (`ScratchAllocatorProofs` is instantiated, its lemmas are
  cited). So a finished layout keeps apart any two values of one buffer of which the
  second is written while the first is still needed. So in a run every value up to
  its last use is where it was written. Roots are a recursive table; that it exists,
  and that a root is never after its view, are proved by induction over a set of
  numbers (`Smallest`, `Induction`). `GraphsAssumption`: operations come in order and
  a view has one input, which the verification of the kernel graph sees to.
- `DeviceMemoryProofs`, about `CpuPages`: `PagesBooked` proves `PagesAccounted` and
  `PagesAreRows` the refinement of `RowStore`, for any pools, lengths and chunks.
  The first needs, as `PagesInv`, where pages lie: one after another in the arena and
  within it (`PoolInv`), without gaps if a page is a multiple of the alignment, which is
  why running out of room and having all pages is the same then. `ReserveFacts` says
  what a reservation that may stop anywhere has taken: pages that were free or are new,
  so nobody else's; it is an induction over the pages taken. For the second, the place
  of an element is a number whose digits are its page, its place, its row in the page and
  its element (`DigitsIn`, `PlaceIn`), so two elements of a tensor never share one
  (`PlaceOnce`), and tensors without a common page share none. So a chunk written behind
  the rows of a tensor is appended to them (`AppendedRows`), the others read as before
  (`UntouchedRows`), and a pool that grows or a page table that does moves nothing
  (`GrownRows`). Creating, destroying and every refused operation are stutters.
  `PagesAssumption` is what `validate_paged_pool_desc` and the checks of `appendPaged`
  let through: positive sizes, chunks of one or more whole rows. `CpuDevice` changes the
  pool only by `PagesNext`, which is what `PagesSpec` is about.
- `InferenceServiceProofs`: `TypesCorrect`, `DeviceHasOneOwner`,
  `CachesMatchPositions`, `StoppedCostsOneRun`, `AnswersTrue` and
  `LostOnlyByFailure`, for any handlers and requests. The invariant has one part
  for the lease (who holds it is past the gate and has caches, nobody else has), one
  for the caches (different caches are different pools), one for the device (a pool is
  a session's cache, or a call failed for it, and not both), one for the rows (how far a
  run has got in the groups, which rows each has by then) and one for each handler
  (what it has put out, sent and may still send at each place of its program).
  `ServiceAssumption` says that tokens differ from the words "done" and "error", as
  events of different kinds do.
- `ExecutableRunProofs`: `VerdictsTrue`, `TableSound` and `StreamImplemented`, the
  refinement of `CommandStream`. The invariant says what each place of a run knows of
  the commands issued and of the graph under capture, that a region kept was recorded
  from the commands of its own key, and that the device's word agrees with `tripped`
  except where the code is about to reset it. `WeightsAssumption` (bindings are
  finitely many, they are counted) and `NoneAssumption` (no graph is none) name what
  this needs of the constants.
- `PagedCacheProofs`: `PagesHaveOneOwner`, `RowsAreKept`, `KernelsReadTheirCache` and
  the action property `PagesStay`. The invariant adds to page ownership what a call
  in progress holds (its pages, how far it has come), what each tensor's host and
  device tables say of its pages, and, for each command of the stream, what it will
  find when the device reaches it after performing everything in front of it.
- `StreamBridgeProofs`: `BoundsKept` and `StreamsWellFormed`. The queue, what the
  thread holds and the wire, read in this order, have to tell the rest of the worker's
  story (`Tells`): the tokens behind the last decoded one, then the ending. This holds
  as long as the generator polls, since until then nobody has cancelled the call or
  stopped the thread. What has been yielded and what is about to be, in one sequence,
  has the form of a stream and a true ending (`Story`, `TrueEnding`).

- `EngineRunProofs`: `BooksKept`, `EngineTypes`, `BooksMatch` and `RunsRight`, for every
  graph. The argument has three parts.
  What the partition gives (`PartitionNodes`, `PartitionBorders`): a node has
  the operations of one device between its first and its last one, apart from inputs and
  tuples; every value that another node, a transfer or the caller reads is an export or
  an input, and so is what an exported view shows, step by step down to its tensor. The partition,
  the views and what a value shows are recursive functions; that functions with these
  equations exist is proved once (`Recursion`, `Iteration`), what they have in common
  with the steps they are built by is proved by induction over a set of numbers.
  `IInv` is about the books: a buffer's count is the number of values bound to it, it is
  owned unless it is a weight's, and nothing is bound that is not allocated. The
  merge behind a node (`BindExports`) binds one export after the other; `Merged` says
  what is true after each. No value is ever bound to a second buffer, so that `retired`,
  which the code keeps for that case, stays empty in every run.
  `RunInv` is about the values: at an operation, what is bound is what has become visible
  so far, and the storage the next node's exports were given; each visible value is
  on its device in a buffer that holds what it should show, and values share a buffer only
  if they show the same tensor. So a node, which reads inputs, visible values and
  what it computed itself, computes what it should; and the outputs are right. The
  buffers of the run and those it found are apart and together all there are,
  so that the release of the outputs and of the inputs leaves what was there before.
  `GraphsAssumption` is what the verification of the kernel graph guarantees of operands
  and devices; the run `engine_run` evaluates it on its graphs.

Every inductive invariant was model-checked on the run's instance before it was
proved. Only model-checked:

- Liveness (`StoppedWaiterLeaves`, `EveryWaiterAnswered`, `EveryRequestAnswered`,
  `StreamEnds`, `LeavingCancels`): the proof needs `ENABLED` and fairness, which
  tlapm 1.4.5 does not treat.
- `Compile`, `CpuDevice` and, of `CudaKernels`, experts, top-k and attention: what they say
  is about functions computed by folds over data, whose library theorems take operators as parameters, which the
  provers cannot instantiate. An induction over a set of numbers replaces them where
  the recursion is over numbers (`ScratchPlan`, `ScratchAllocator`, `EngineRun`,
  `CpuPages`).

## 5. Not modelled

- The language's lexer, parser and interpreter, the trace they write, and the reader
  of weights: they run once at start-up and end the process if they fail.
- Sampling, tokenisation, chat templates, logging, argument parsing: conversions and
  arithmetic that change nothing the rest reads back.
- The plan cache of the engine: a map under a mutex. Its key is a function of the
  inputs' shapes.
- CUDA kernels whose threads are independent of each other: element-wise, copies and
  layout, embedding, rotary positions; plain cuBLAS products; compilation and caching
  of specialised kernels. Buffers of `CudaDevice`.
- The interpreter of the graph IR on the CPU, which repeats the kernels that
  `CpuDevice` covers.
- Rounding, NaN and half precision everywhere; overflow of 64-bit sizes.
- `GemmaModel` and `GemmaSession`, which are in no build target.

Known gaps of the code that no property forbids, because nothing in the repository
promises otherwise:

- A client that does not read blocks the gate until the deadline (a `Write` of the
  stream waits for it).
- A generator closed before it enters its `try` (`python/sandy_server/app.py`, first
  yield) leaves reader and call behind; `StreamBridge` keeps this as the outcome
  `"abandoned"`.
- A session loses a cache pool if an `allocPaged` fails before `Session::initialize`
  has entered the pool in `caches_` (`src/server/Session.cpp:124`), or if
  `deallocPaged` or `destroyPagedPool` fails in `destroyCaches`
  (`src/server/Session.cpp:560`), which asks nobody again. `LostByFailureOnly`
  says that nothing else is lost.
- An `allocPaged` that fails part way loses the pages it has reserved, on the CPU
  device (`src/device/cpu/CpuDevice.cpp:440`) and on CUDA
  (`src/device/cuda/CudaPagedTensor.cpp:536`): `PagesAccounted` counts them as lost and
  `NoPageLost` excepts them.
- `loadWeights` and a failing run leave the buffers they made on the device
  (`src/engine/Engine.cpp:1351`).
- Buffer ids have 32 bits and only grow (`src/device/cuda/CudaDevice.cpp:697`): after
  a wrap an id may name a live buffer, and a captured region may be replayed for it.
- A copying reshape of integers stores nothing (`src/core/TensorCalc.cpp:949`);
  `CpuDevice` models it so, and the language does not reshape indices in a way that
  copies.
- The batch rule of products takes a remainder by a dimension that may be 0
  (`src/core/ShapeUtil.cpp:58`).
- `Linear` of the graph IR is accepted whatever the shapes of its operands
  (`src/ir/MidIR.cpp:224`); the kernel graph's verification finds the error.
- The general prefill kernel has lane 0 write scores that the other lanes of its warp
  read without `__syncwarp` (`src/device/cuda/CudaAttentionKernels.cu:198`). The model
  takes the lanes of a warp in step.

## 6. Plan

1. Done: gate, service, paged cache, scratch allocator, scratch plan, executable
   run, engine, stream bridge.
2. Done: the compiler from the graph IR to run-time shapes; the CPU device with its
   calculus and pages; the CUDA kernels whose threads share memory.
3. Open: buffers of `CudaDevice` and the life of compiled executables against runs of
   the engine; the trace of the language's interpreter into the graph IR.
4. Proofs done: gate, service, paged cache, scratch allocator and plan, executable run,
   engine, stream bridge, pages of the CPU device, CUDA reductions between barriers.
