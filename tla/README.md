# TLA+ verification of the ComputeMM characterization tool

This directory holds TLA+ models of the program in `src/`, a C++ benchmark that
characterizes block matrix multiplication (`ComputeMM`) on Tenstorrent Wormhole
devices, the TLC configurations that check them, and proofs checked by TLAPS.

Run them from this directory:

    tlc -config MCMatmulCore.cfg MCMatmulCore      # likewise the other runs
    tlapm MatmulCoreProofs.tla                     # likewise MatmulDataProofs,
                                                   # BlockingProofs,
                                                   # MatmulGridProofs,
                                                   # SubDevicesProofs,
                                                   # FusedProofs,
                                                   # HostPipelineProofs and
                                                   # DispatchProofs

`PROJECT.json` lists the components, the runs with what each one shows, a mutant
of the code for every checked property, the source lines each definition
translates, the hazards and the theorems.

## 1. The system and its parts

The host program (`test_full_charac.cpp`) sizes a launch, builds a program of
three kernels per core, loads inputs, puts launches on a command queue, measures
them, reads the output back and compares it with a golden matrix. The kernels
(`kernels_common/`) run on every core of a grid.

| Part | State it keeps | Operations | Talks to | Module |
|---|---|---|---|---|
| **Matmul kernels of a core**: in0 reader, in1 reader/writer, compute; DRAM and L1 variants | FIFO counters and positions of CB0, CB1, CB16, CB24; the memory of these (CB16 and CB24 share theirs); DST registers; loop counters | reserve/read/push a block of A or B; wait, multiply, spill, reload, pack, push, pop; wait, store, barrier, pop, skip padding | each other, through CBs only; DRAM over the NoC | `MatmulCore` |
| **Fused compute kernel** (the `..._copy` kernel) and the **single-core readers** | as above; the packer's configuration; the amount of CB16 to wait for | as above; bias, activation, accumulation in L1, untilizing, several batch elements | as above | `FusedMatmul` |
| **Host setup** (`test_compute_mm`, `get_in0_block_w`, `get_dynamic_l1_block_params`, `get_out_subblock_params`, `get_all_buffers_addresses`) | core share, blocking, subblocks, L1 addresses | share out, choose a block, place buffers, or refuse | the CBs of the program; the zeros written into L1 | `Blocking` |
| **Runtime arguments and grid** (`create_program_compute_mm`), **read-back**, **golden reference** | per core: start ids, strides, valid tiles, boundary sizes; the output; the vector on the host | derive the arguments of a core; write tiles; stitch the matrix together | all cores write one output buffer, or each its own L1 | `MatmulGrid` |
| **Input preparation** (`prepare_inputs_compute_mm`) | input tensors | pack on the host or the device, queued writes, waits, direct L1 writes | command queue, L1s | `Dispatch`, `MatmulGrid` |
| **Dispatch loops**: tests 0, 1 (synchronous), 5 (one Finish), 7 (warmup and Finish per iteration) | loop counter, timer | warm up, enqueue, Finish, unpack on the host or the device, read back, validate | the FIFO command queue | `Dispatch` |
| **Trace test** (6) | trace id, `capture_ended` | begin/end capture, replay, release, exception handler | command queue, the runtime's trace | `Dispatch` |
| **Sub-device split** (2) | row ranges of cores and of the matrix per split | refuse, split, size each part, dispatch | host setup, for each part | `SubDevices` |
| **Host pipelines** (3, 4) | vectors of an iteration, device buffers, bytes credited | queued writes and reads, waits, validation of the first iteration | command queue | `HostPipeline` |
| **Program life cycle** (`main`) | options, device, program caches, CPU affinity | parse, open, dispatch a test, close | all tests | - |
| `tt_test/test_pgm_dispatch.cpp` | workload, trace | warm up, capture, replay, time | command queue | - |
| `tt_test/test_rw_buffer.cpp` | one buffer | timed blocking transfers | command queue | - |
| Scripts (`run_full_charac.sh`, `scripts/`) | counters of passed and failed cases | sweep over options | the binary's exit code and output | - |
| `test_full_charac_old.cpp`, empty kernel | - | superseded, no body | - | - |

### What is hard in it

* **Concurrency inside a core.** Three kernels on three processors with no
  locks, only CB counters. CB16 (outputs) and CB24 (partial sums) have separate
  counters over *the same memory*: nothing but a growing `cb_reserve_back` on
  CB16 keeps a new partial sum off an output not yet stored. The kernel that
  feeds B is also the one that drains the output, so the waits form a cycle.
  Padding at the edge of the matrix means subblocks are computed but popped
  rather than stored, a protocol that must leave every CB empty and aligned.
  The fused kernel keeps its sums in three different ways, and the number of
  pops and reloads of CB24 differs in each; compiled for a bias it also waits for
  CB3, which no kernel of the repository feeds.
* **Asynchrony on the device.** NoC reads and writes are in flight until a
  barrier; commands are in the queue until a `Finish`. What the host reads, or a
  timer measures, must have happened; a vector a queued command uses must live.
* **Concurrency between cores.** All cores write one DRAM buffer, kept apart
  only by arithmetic in the runtime arguments.
* **Agreement of independent computations.** The blocking heuristics, the address
  layout and the CB configuration add up the same L1 separately; the host
  writes zeros to an address of its own reckoning which must lie inside CB2;
  writers and read-back have each their own stride for the same buffer; the
  check of a sub-device's L1 uses another formula than the blocking after it.
* **Partial failure.** In test 6 any call may throw in the middle of a capture,
  and so may the clean-up calls.
* **Boundaries.** One K block, zero iterations, an L1 too small, the last outer
  block, a launch that does not divide, the padding of A and B.

Every hazard is in `PROJECT.json` at the line where it bites, with the
properties that cover it or the reason why none does.

### What makes each part correct

* Kernels: each valid subblock is stored once, complete, at its place; padding
  never is; live data in the shared memory is not overwritten; operands of A and
  B always match; all kernels return and leave the CBs empty.
* Fused kernel: in whichever way sums are kept, each output strip has every
  product once, the bias once and the activation last, and is not changed after.
* Setup: what is chosen fits L1 in all three accountings; zeros are where the
  kernels look for them; a launch is refused only when it must be.
* Grid: each output tile is written once, by its core, with the product that
  belongs there, and read back to the element it belongs to.
* Dispatch: the measured window holds exactly the launches it is divided by; what
  is validated is the last launch's output; L1s are not touched directly while
  commands are pending; a failing trace test leaves no trace behind.
* Sub-device split: the parts tile the core grid and, with DRAM, the matrix; the
  check before the blocking is enough for the blocking.
* Host pipelines: no queued transfer uses vectors that are gone; what is credited
  was moved; a test passes or fails for a reason.

## 2. The modules

    OutputBlocks      abstract: what a core promises for a launch
        ^ implemented by
        |-- MatmulCore     the three kernels of a core     MatmulCoreProofs,
        |                                                  MatmulDataProofs
        |-- FusedMatmul    the kernel with fused variants  FusedProofs
               both EXTEND CircularBuffer

    Blocking          the host's sizing of a launch        BlockingProofs
        ^ extended by
        |-- MatmulGrid     runtime arguments, all cores'   MatmulGridProofs
        |                  writes, read-back
        |-- SubDevices     test 2                          SubDevicesProofs

    Dispatch          the host of tests 1, 5, 6, 7 and the command queue
                                                       DispatchProofs
    HostPipeline      tests 3 and 4                        HostPipelineProofs

`MC*.tla` extend these with the finite instances TLC checks.

### CircularBuffer

The FIFO the kernels communicate through: a count, and two positions which wrap
only when they hit the end of the buffer exactly, as in the CB interface of the
kernels. `Live` is the set of positions that hold entries.

### MatmulCore

| In the model | In the code |
|---|---|
| `args` | the kernels' runtime and compile-time arguments, chosen once |
| `reader`, `In0Reserve`, `In0Push` | `in0_reader_bmm_tile_layout*.cpp`: `cb_reserve_back` and the reads issued; barrier and `cb_push_back` |
| `rw`, `In1Reserve`, `In1Push` | the K loop of `in1_reader_writer_bmm_tile_layout*.cpp` |
| `StoreIssue`, `StoreBarrier`, `SkipRowTail`, `SkipRows` | its writer half: wait and issue, barrier and pop, the two padding pops |
| `compute`, `WaitOperands` ... `PopOperands` | `bmm_large_block_zm_fused_bias_activation.cpp` |
| `cbIn0`, `cbIn1`, `cbOut`, `cbPart` | CB0, CB1, CB16, CB24 |
| `in0L1`, `in1L1`, `outL1` | L1 contents; `outL1` is one memory for CB16 and CB24 |
| `dst` | DST registers: the sequence of products accumulated |

Data abstraction: a block of A or B is its row and column in blocks, a sum is the
sequence of products it holds, so a lost, doubled or mispaired product changes
it. A slot being filled holds `InFlight` until the barrier. CB0/CB1 count in
blocks and CB16/CB24 in subblocks, the unit of every call on them. The loops over
`bh`,`bw` are one loop over `o`, those over subblocks one loop over `s`. Compute
is one sequential process: its unpack, math and pack threads synchronise inside
the library's calls. The wait for operands, reload, math, pack and push are
separate steps, so the other kernels interleave between any two.

### OutputBlocks

`wanted` and `written`, and one action: subblocks that are owed become available,
together and with their complete value. It says nothing of CBs, kernels or K.
`MatmulCore` implements it with `wanted <- Wanted` (a subblock with valid tiles is
owed one product per K block in K order) and `written` itself; `FusedMatmul` with
strips for subblocks, batch elements for outer blocks, and `Available`: what the
writer has stored or, if nobody drains CB16, what has been pushed there.

### FusedMatmul

`bmm_large_block_zm_fused_bias_activation_copy.cpp` is the kernel the one in use
was derived from. Its `#ifdef`s are the fields of `args`: a bias, an activation
done by the packer (`PACK_RELU`) or by the SFPU, accumulation in L1 by the packer
(`PACKER_L1_ACC`), an untilized output, and the number of batch elements; CB16 and
CB24 share one memory or not; and `drained` says whether CB16 is drained by a
reader/writer or left as it is, which is what the single-core readers do.

It counts CB16 and CB24 in *strips*, one row of tiles of a subblock, the least the
kernel moves at once (`reblock_and_untilize` takes one strip of each subblock of a
row). A value is the sequence of what was done to it: one `mul` per K block,
`bias`, `act`. CB3 holds one row of bias tiles (`biasRow`), for which the kernel
waits before its bias loop (line 307, `BiasArrived`) and which it never pops, so
that later batch elements find it there. No kernel of the repository feeds CB3: the
single-core readers push CB0 and CB1 only. Whoever would do so is `FeedBias`, an
action of the environment that may happen once in a launch with a bias, at any
time; every safety property holds whether it does or not. `packer` is the state `llk_pack_relu_config` and
`llk_pack_reconfig_l1_acc` leave behind, which outlives the K block, and the batch
element, they were called for. `FusedProgramsAssumption` names the preconditions
that the kernel has and does not check: with `PACKER_L1_ACC` and no bias there
must be two K blocks, since `num_blocks - 2` is unsigned and the kernel would
otherwise wait for ever; and when the two CBs share their memory a row may be
untilized in place only if it is one subblock wide (a mutant of `PartMem` shows
what happens otherwise).

### Blocking

`ChooseBlocks` is the part of `test_compute_mm` up to a blocking (ceiling
shares, then `get_in0_block_w` for L1 tensors or `get_dynamic_l1_block_params`
for DRAM, then the subblock table); it may refuse the launch. `PlaceBuffers` is
`get_all_buffers_addresses`. `CBSizes`, `CBStart` restate independently what
`create_program_compute_mm` will ask the runtime's allocator for. Launches are in
elements and rounded up to tiles as `get_aligned_input_tile_num` does; L1 sizes
and addresses are in tiles, as every size in the code is a multiple of the tile
size. The scan loops are expressed as the order in which they visit choices.

### MatmulGrid

Extends `Blocking`: the launch's arguments per core (`OutStart`, `OutStride`,
`ValidM/N`, `LastOuterH/W`, `NonzeroH/W`, `Height`, `Width`, `RowGap`), then every
core issues the writes of its subblocks in the order of its loops; the writes of a
subblock land in any order, before the barrier that precedes the next; all cores
interleave. `Home(c)` is where a core's output goes: the one DRAM buffer, or with
L1 tensors its own L1, where ids start at zero. A tile's content is which row of A
and column of B it was computed from, or zero padding; the rows past the edge that
the L1 reader of A fetches are `Anything`, because the 64-bit NoC address of the
zeros is kept in 32 bits there and no longer says whose L1 it is in. A write
beyond a buffer goes to `stray`. `LoadFails` is `get_row_slice` throwing.

After `Finish`, `ReadBack` follows the host's index arithmetic, element by element:
with DRAM the untilized buffer trimmed to M x N, with L1 tensors the cores' blocks
copied in the order of the four loops, a later copy over an earlier one, with the
guard on the linear index only. `ReferenceTerms` are the places in A and B that
`matmul_reference` multiplies for an element, `ProductTerms` those the kernels do.
The inside of a core is `MatmulCore`'s subject; the two share the notion of
subblock order and of padding.

Two predicates name the launches for which the code is right. `SharesFilled`: with
DRAM every row and column of cores has a share of the matrix, and of a core's outer
blocks only the last may reach past its share. `ColumnsFilled`: with L1 tensors on
several columns of cores, N divides over them without padding. The launches of
`MCMatmulGrid` satisfy both; those of the runs that expect a violation show what
happens outside.

### SubDevices

Test 2: what is refused at once (one row of cores; DRAM rows that do not divide),
then for each group of core rows its part of the matrix: the check of its L1,
sizing by `Blocking`'s own actions with the part as `launch`, and the part added
to the program. The last group takes the left-over rows of cores. The dispatch
loop, an enqueue and a `Finish` per iteration, is one step: it is test 1's loop.
`JobsAssumption` asks for no more groups than rows of A, which the code does not
check (a hazard of the list).

An observation the model makes plain: `CheckFits` asks `get_in0_block_w` also for
parts in DRAM, so that a part is refused (`test_full_charac.cpp:1066`) which
`get_dynamic_l1_block_params` right after it would have divided into blocks that
fit. The benefit `src/README.md:699` names, dynamic blocking in test 2, is then
only had by parts which also fit whole. `InsufficientL1OnlyL1` is the form without
it, and `BlockAlwaysFound` needs the check.

### Dispatch

`pc` is the host's next runtime call. `queue` is the bounded FIFO command queue;
`Load`, `Run`, `ReadInput`, `Unpack`, `Read` are the device executing its head.
`trace` is the runtime's trace (none, capturing, ready, released), `traceId` and
`captureEnded` are the host's own flags. Any call may throw (`Throw`), up to
`MaxFaults` times, and goes to the handler the code has there: test 6's inner one
(`HandlerEnd`, `HandlerFinish`, `HandlerRelease`, each exception swallowed) or the
test's outer one, which returns. `timer` records how many launches had been
executed when the measurement began and ended.

With `--pack-tile` on the device, `Loads` uploads rows and tilizes them in
separate commands, and the golden result is computed from the inputs read back
(`effective`); with `--unpack-tile` on the device, `Reads` typecasts and untilizes
the output there. Test 1 waits for the typecast and tests 5 to 7 do not
(`Awaited`); the one queue keeps them right all the same.

Assumptions: a call that throws has had no effect; the trace is replayed as it
was recorded. The runtime library is external and modelled from the way the code
uses it.

### HostPipeline

Tests 3 (two tensors) and 4 (one, with checks of sizes). The host packs into
vectors of this iteration (`live`), enqueues their writes, waits, enqueues the
reads, waits, credits what was moved and at the end of the iteration the vectors
are gone. `Transfer` is the device executing the head of the queue, with whatever
the vectors then hold. Faults: a call throws having done nothing; a transfer
arrives wrong; in test 4 a read comes back short. Amounts are in tensors.
`Accepted` is the validation: for zeros it only looks at the largest element, so a
vector nothing arrived in would be accepted, and only the waits prevent that.

## 3. The runs

| Run | Module, cfg | Expect | What it shows |
|---|---|---|---|
| `matmul_core` | `MCMatmulCore` | pass | `TypeOK`, `SharedMemoryExclusive`, `OperandsPaired`, `PartialsFindOutputDrained`, `LeavesBuffersEmpty`, `NoCircularWait`; refinement `ImplementsOutputBlocks` with its liveness; `Termination` |
| `fused_matmul` | `MCFusedMatmul` | pass | `FusedTypeOK`, `NoLiveStripOverwritten`, `LeavesOnlyOutput`, `NoCircularWait`; refinement `ImplementsOutputBlocks`; `FusedTermination`: for every combination of variants, of those with a bias if it is fed |
| `blocking` | `MCBlocking` | pass | `BuffersFitL1`, `ZerosInsideCB2`, `DramRefusedOnlyForTinyL1`, `SetupTypeOK` |
| `blocking_order` | `MCBlockingOrder.cfg` | violation | `LargestBlockChosen`: the scan does not go from the largest block down |
| `matmul_grid` | `MCMatmulGrid` | pass | `EachTileWrittenOnce`, `ProductComplete`, `ReadbackExact` when only a core's last outer block is partial and, with L1 tensors, all columns of cores are of one width |
| `matmul_grid_edge` | `MCMatmulGridEdge.cfg` | violation | `ProductComplete` on an edge core shorter than its interior outer blocks |
| `l1_readback` | `MCMatmulGridL1.cfg` | violation | `ReadbackExact` with a narrower last column of cores |
| `reference_padding` | `MCMatmulGridReference.cfg` | violation | `ReferenceIsProduct` with K in mid-tile |
| `dispatch` | `MCDispatch` | pass | `MeasuredOpsExact`, `ValidationSeesFinalOutput`, `DirectAccessOnlyWhenIdle`, `TraceCleanedUp`, `ReleasedAfterItsReplays` |
| `dispatch_read_zone` | `MCDispatchReadZone.cfg` | violation | `ReadZoneBoundsTransfer`: the read zone ends before the transfer |
| `sub_devices` | `MCSubDevices` | pass | `GroupsPartitionJob`, `BlockAlwaysFound`, and `BuffersFitL1` for every part |
| `host_pipeline` | `MCHostPipeline` | pass | `VectorsOutliveTransfers`, `CreditedBytesMoved`, `FailsOnlyOnFault`, `PassMeansFirstIntact` |

### Bounds, and why they are enough

* `MCMatmulCore`: seven programs. The control depends on whether there are one,
  two (no K block between the first and last) or more K blocks, on whether a row
  or column of outer blocks is the last, and on how many subblocks are padding in
  each direction. The programs have 1 to 4 K blocks, 1 to 4 outer blocks and 1 to
  4 subblocks, padding in no, one or both directions, and both kernel variants.
  No counter is capped: the launch ends by itself.
* `MCFusedMatmul`: every combination of bias, L1 accumulation, untilizing, the
  three activations, drained or not, and one or two batch elements, in six shapes
  of 1 to 4 K blocks and 1 to 4 subblocks of 1 or 2 strips, with CB24 in CB16's
  memory or its own. The conditions on K blocks are about the first, the last, the
  last but one and the last but two, which four K blocks tell apart.
* `MCBlocking`: outputs of up to 6x6 tiles on 1 to 4 cores, K of 1, 2, 4 or 6
  tiles (so that each of the block widths 4, 2, 1 is and is not a divisor) and
  nine L1 budgets, from one in which not a 1x1 block fits to one which holds the
  largest launch whole. The code scans linearly and all its sums are linear in
  those sizes. Tiles have one element (`TileSide = 1`), as only tiles matter here.
* `MCMatmulGrid`: tiles of 2x2 elements. With DRAM six launches on 2 to 4 cores:
  one block a core; blocks along M, along N; the last block full and partial; a
  padded edge of one tile; refused. With L1 tensors four: a full grid with M in
  mid-tile, a short last row of cores, N in mid-tile on one column, and a launch
  whose last rows of cores get none. All orders in which the cores' writes may
  land are explored. The launches of the other cfgs are those
  of the violations below; `MCMatmulGridEdge` has two, the others one.
* `MCSubDevices`: 1 to 10 rows of elements in tiles of 2, on 1 to 5 rows and 1 or 2
  columns of cores, with every number of groups; so rows of cores divide or leave
  a remainder, and rows of A divide, do not, or end in mid-tile; N, K and four L1
  budgets such that parts fit, fit only when divided further, or do not.
* `MCDispatch`: up to 3 iterations, 3 warmups, 3 launches a trace, so that each
  loop runs zero, one and several times; a queue of 2, so that it is empty,
  partly full, and full and blocking; 2 faults, so that a call and then one
  clean-up call may throw. Both tensor locations, with and without validation.
  Packing and unpacking on the device only change what surrounds the loops, and
  are checked in all combinations with loops of at most one.
* `MCHostPipeline`: up to 3 iterations: the validated first, one after it, and one
  whose predecessor was not validated; a queue that just holds what test 3
  enqueues before it waits; 2 faults, so that a transfer goes wrong and a call
  throws in one test.

### Fairness and deadlock

`MatmulCore` and `FusedMatmul` assume weak fairness of each kernel separately:
each runs on a RISC-V processor of its own that executes nothing else and is never
descheduled, so a kernel that may go on does. Nothing is assumed about how fast.

`FusedMatmul` also assumes weak fairness of `FeedBias`: a kernel compiled for a bias
is given one. *That is an assumption about something outside the repository*, and
nothing in the code supports it; with the readers that are there, such a kernel
reaches line 307 and waits for ever. So `FusedTermination` and the liveness half of
`ImplementsOutputBlocks` say of the variants with a bias only that a fed bias is
enough for them to end. The variants without one, and all safety properties, need
no such assumption.

The other modules state safety only. Deadlock is checked in every run:
a state without a successor other than the one in which the component has
finished would be reported. Since no state of `Dispatch`, `HostPipeline`,
`Blocking`, `SubDevices` or `MatmulGrid` recurs before that one, absence of
deadlock there also means they cannot run for ever.

### What the violations say

* **Edge cores overwrite other tiles** (`matmul_grid_edge`,
  `test_full_charac.cpp:2177`). The size of a core's last outer block is taken as
  `valid % block`, but the number of outer blocks stays `per_core / block`. If the
  valid tiles end before the last outer block begins, interior blocks are computed
  and stored in full and the surplus tile ids run into the next row, or beyond
  the buffer. The comment at line 2175 says interior blocks remain full-sized,
  which only holds when the core's share is nearly full. In the run, 2x5 output
  tiles are divided between two cores, 3 columns each with 1-wide blocks.
* **Two strides for one L1 buffer** (`l1_readback`, `test_full_charac.cpp:2347`).
  With L1 tensors the writer of the last column of cores steps from row to row by
  its valid width, while the host reads its buffer in rows of `per_core_Nt`
  (lines 2760-2762); the comment at line 1938 has `per_core_Nt` for both. When the
  last column is narrower its rows are read from the wrong tiles. In the run, 5
  output tiles in a row are divided 3 and 2; the third tile the host reads of the
  second column's first row is that core's second row, and its second row is read
  in part from places never written. The guard at line 2773 does not help: it only
  asks whether the linear index is inside the result, so that third tile, a padded
  column past N, even lands on the first elements of the next row. `ColumnsFilled`,
  under which the read-back is proved right, asks for N to fill the columns for both
  reasons.
* **The reference leaves out the padding** (`reference_padding`,
  `test_full_charac.cpp:2607`). The input vectors hold whole tiles, and are random
  in the padding as well, which the device multiplies; `matmul_reference` is called
  with the unpadded M, N, K as dimensions *and* strides of these vectors, though
  line 1384 speaks of an M x K and a K x N matrix. In the run K is in mid-tile, and
  the two are different products. The stride of B is N in the same way, which is why
  the theorem below asks for N and K to be whole tiles; the run has no launch with N
  in mid-tile. With both aligned the property holds.
* **Largest block first** (`blocking_order`, `test_full_charac.cpp:822`). The
  comment promises "largest output block (whole core) to smallest"; the loops go
  by height, then width, so a tall narrow block is taken before a wider one with
  more tiles.
* **Read-back zone** (`dispatch_read_zone`, `test_full_charac.cpp:2707`).
  `README.md:803` reads bandwidth off the zone around `ReadShard`, calling it
  blocking; it is called with `blocking = false` and the wait has a zone of its
  own, so the zone bounds only the enqueue.

## 4. The proofs

`MatmulCoreProofs` proves for *every* set of programs satisfying
`ProgramsAssumption` (sizes positive; the padded counts within the block; L1
programs have one outer block):

| Theorem | Statement |
|---|---|
| `CoreInvariant` | `Spec => []IInv` |
| `TypeCorrect` | `Spec => []TypeOK`: no CB overflows or underflows, and no position leaves its buffer |
| `OutputIsDrained` | `Spec => []PartialsFindOutputDrained` |
| `SharedMemory` | `Spec => []SharedMemoryExclusive` |
| `LaunchIsFinite` | `Spec => [](Steps \in 0 .. MaxSteps) /\ [][Steps' > Steps]_vars` |

`TypeOK` is not inductive: that a pop finds an entry, or a push room, depends on
where the *other* kernels are. `IInv` says so. `ReaderPlace`, `RWPlace`,
`ComputePlace` tie each kernel's counters to its program position;
`PartialsPlace` gives the count and positions of CB24 as a function of the compute
kernel's position alone; and the last conjunct gives those of CB1 and CB16 from
the positions of the reader/writer and the compute kernel, which can only be
related in one of three ways:

* `InStep`: both in the same outer block;
* `WriterBehind`: compute has finished the block and waits for operands of the
  next one, which the other will only fetch once it has drained CB16;
* `WriterAhead`: the writer has stored all of the block and already fetches for
  the next, while compute has yet to pop the operands of its last K block.

`InStep` with `k = 0` and several K blocks gives `cbOut.cnt = 0`, hence
`OutputIsDrained`. For `SharedMemory`, in every K block but the last CB16 is
empty; in the last one outputs occupy slots up to `s - 1` and partial sums those
from the subblock being computed on, and never meet.

The layout is one lemma per action, one step per conjunct it may disturb, with
frame lemmas for the conjuncts that mention none of the variables an action
changes. The arithmetic of products (`RowProduct`, `SplitProduct`,
`MonotoneProduct`) is stated once, for the counts drained so far.

`LaunchIsFinite` counts how far each kernel is along its loops, as a number with one
digit per loop: a step raises the count of its own kernel (`ReaderAdvances`,
`RWAdvances`, `ComputeAdvances`) and leaves the others, and `IInv` bounds each digit.
`MaxSteps` is a function of the argument set alone.

`MatmulDataProofs` goes from how much the CBs hold to *what* they hold, for the
same programs. It also uses `NotWrittenAssumption`, that the mark of an empty place
in the output is not itself a subblock:

| Theorem | Statement |
|---|---|
| `StreamsInvariant` | `Spec => []Streams` |
| `OperandsArePaired` | `Spec => []OperandsPaired` |
| `BuffersLeftEmpty` | `Spec => []LeavesBuffersEmpty` |
| `NeverCircularWait` | `Spec => []NoCircularWait` |
| `CoreDataInvariant` | `Spec => []CoreInv` |
| `CoreImplementsOutputBlocks` | `Spec => Promised!Init /\ [][Promised!Next]_(Promised!vars)` |

`CoreInv` adds three layers to `IInv`. `Streams`: an input CB with none, one or two
entries holds the blocks of the steps between the one its producer stands at and
the one its consumer stands at, so both operands of a product belong to the
compute kernel's own step. `SumsInv`: with compute at K block `k` and subblock `s`,
the slots of the shared memory before `s` hold the sums of `k + 1` products and the
others of `k`, and DST that of the subblock in hand; when compute is an outer block
ahead of the writer, all slots hold complete sums and stay so, because nothing is
packed until CB16 is drained (`OutputIsDrained`). `WrittenInv`: the output is
`Wanted` where the writer has passed and empty elsewhere; that the padding it skips
at the end of a row, and the rows it skips at the end of a block, hold no valid
tiles is arithmetic on its loop counters (`RowTailIsPadding`, `RowsArePadding`). In
the refinement `StoreBarrier` is then a step of `OutputBlocks` and every other
action stutters.

`NoCircularWait` names the states in which a kernel stands at a CB call that does
not return: the guards of the actions that ask a CB, negated. The compute kernel only
waits for operands (`WaitsForOperands`): CB24 holds what it reloads, and CB16 and CB24
have room for what it packs, the growing wait on CB16 included, because CB16 is
drained by then. If it waits for operands, the kernel that owes them finds an empty
CB, or is the reader/writer an outer block behind; and a writer that waits for CB16
does so only while compute is still in the same outer block, since of a finished one
everything awaited is there (`WriterCanStore`). With `LaunchIsFinite` there is no
other way for a launch to end than by all three kernels returning; that they do not
stop on the way is the fairness TLC's liveness check assumes.

`BlockingProofs`, for every set of launches satisfying `LaunchesAssumption`
(matrices, grids and tiles not empty; any L1):

| Theorem | Statement |
|---|---|
| `PlanInvariant` | `SetupSpec => []IInv` |
| `SetupTypes` | `SetupSpec => []SetupTypeOK` |
| `ChosenBuffersFit` | `SetupSpec => []BuffersFitL1` |
| `ZerosPlaced` | `SetupSpec => []ZerosInsideCB2` |
| `RefusalJustified` | `SetupSpec => []DramRefusedOnlyForTinyL1` |

The scan is a `CHOOSE` of the first admitted choice, which means something only
because there is one: choices are finitely many and ordered lexicographically, so
each of their three components has a largest value in turn (`LargestElement`,
`FirstScannedChosen`). What is chosen is hence admitted by the formula of its
heuristic, and both formulas count at least the CBs of the program. `PlanInv`
carries that, and that the layout was computed from the same block, to where it
is needed; `RefusalJustified` is that a block of one tile is always a choice.

`SubDevicesProofs`, for every set of jobs satisfying `JobsAssumption`:

| Theorem | Statement |
|---|---|
| `SubInvariant` | `SubSpec => []SubIInv` |
| `PartsHaveBlocks` | `SubSpec => []BlockAlwaysFound` |
| `PartsFit` | `SubSpec => []BuffersFitL1` |
| `GroupsPartition` | `SubSpec => []GroupsPartitionJob` |

`SplitsInv` says that the parts built so far are those of the loop's formulas, so
that the partition is arithmetic on rows: groups start apart, and each row of
cores is in the group its quotient names, or in the last one (`StartsApart`,
`RowCovered`). `StaticImpliesDynamic`: what `get_in0_block_w` admits whole is also
a choice of the scan for DRAM. The sizing steps reuse `BlockingProofs`' lemmas.

`HostPipelineProofs`, for every set of jobs, every queue depth and any number of
faults:

| Theorem | Statement |
|---|---|
| `HostInvariant` | `Spec => []IInv` |
| `VectorsOutlive` | `Spec => []VectorsOutliveTransfers` |
| `CreditsExact` | `Spec => []CreditedBytesMoved` |
| `FailureExplained` | `Spec => []FailsOnlyOnFault` |
| `PassExplained` | `Spec => PassMeansFirstIntact` |

Unless a call has thrown, the queue holds the *last* of the commands `Sent` in
this half of the iteration, in order (`QueueInv`); the ones before have had their
effect on the buffers or vectors (`DataInv`); the counters differ from one another
by the host's position alone (`CountInv`); and a failure has its fault
(`FaultInv`). None is inductive alone: that a vector is still alive needs the
queue to be empty at each wait, that a read returns the data needs the writes done.

`DispatchProofs`, for every set of jobs, every queue depth, any number of warmups,
iterations, launches in a trace and faults:

| Theorem | Statement |
|---|---|
| `DispatchInvariant` | `Spec => []IInv` |
| `WindowExact` | `Spec => []MeasuredOpsExact` |
| `DirectAccessSafe` | `Spec => []DirectAccessOnlyWhenIdle` |
| `TraceIsCleanedUp` | `Spec => []TraceCleanedUp` |
| `ReleaseWaits` | `Spec => ReleasedAfterItsReplays` |
| `ValidationSound` | `Spec => []ValidationSeesFinalOutput` |

Until a call throws, there is a `Finish` wherever the kind of command changes, so the
queue holds commands of one kind, and the launches executed plus those queued are
a number given by the host's position (`LaunchInv`): at both ends of the measured
window the queue is empty and the number is known. The reads are the exception:
several kinds are queued at once, and `ReadInv` gives, for each position, which of
them have had their effect, in the order of the queue; `LoadedInv` does the same
for the inputs. `TraceInv` gives the trace and the two flags of the handler for each
position, the handler's own calls included, where a fault may already have been
spent.

`MatmulGridProofs`, for every set of launches satisfying `LaunchesAssumption`, so
for every grid of cores, size of the matrices, tile side and L1:

| Theorem | Statement |
|---|---|
| `GridInvariant` | `GridSpec => []GridIInv` |
| `TilesWrittenOnce` | `GridSpec => [](SharesFilled => EachTileWrittenOnce)` |
| `ProductWritten` | `GridSpec => [](SharesFilled => ProductComplete)` |
| `EvenSharesFilled` | `GridSpec => [](~useDram \/ Mt, Nt divide over the cores => SharesFilled)` |
| `ReadbackIsProduct` | `GridSpec => [](SharesFilled /\ ColumnsFilled => ReadbackExact)` |
| `ReferenceIsExact` | `GridSpec => [](SharesFilled /\ N, K are whole tiles => ReferenceIsProduct)` |

The hypotheses are there because the code is wrong without them, as the runs that
expect a violation show. `EvenSharesFilled` says which launches surely meet the
first one: all with L1 tensors, and with DRAM all whose tiles divide over the cores.

A length divided into parts of one size but for the last (`Parted`) is covered
without overlap, so a place is determined by its part and its offset. That holds
for the shares of the cores, the outer blocks of a share, the subblocks of a block
and the elements of a tile. So the writes of a subblock are exactly the tiles of the
share in it (`WritesArePlaces`), the cut-off sizes of the last block and subblock
included, and no two tiles of the shares have the same place (`PlaceUnique`).
`GridIInv` then follows each tile: it waits in a subblock its core has yet to
reach, is in flight, or is in its place, in exactly one of these, whatever the order
of the cores and of the writes of a subblock. For the read-back with DRAM the
element's tile and the place in it are quotient and remainder; with L1 tensors the
blocks of the cores are copied over one another, and what counts is that a padded
row past the edge of a share only touches elements copied later (`CopiedBefore`).

`FusedProofs`, for every set of variants satisfying `FusedProgramsAssumption`, of
any number of K blocks, subblocks, strips and batch elements:

| Theorem | Statement |
|---|---|
| `FusedInvariant` | `FusedSpec => []FusedIInv` |
| `FusedTypeCorrect` | `FusedSpec => []FusedTypeOK` |
| `OnlyOutputLeft` | `FusedSpec => []LeavesOnlyOutput` |
| `NothingLiveOverwritten` | `FusedSpec => []NoLiveStripOverwritten` |
| `FusedNeverCircularWait` | `FusedSpec => []NoCircularWait` |
| `FusedLaunchIsFinite` | `FusedSpec => [](Steps \in 0 .. MaxSteps) /\ [][Steps' > Steps]_fusedVars` |
| `FusedDataInvariant` | `FusedSpec => []FusedDataInv` |
| `FusedImplementsOutputBlocks` | `FusedSpec => Promised!Init /\ [][Promised!Next]_(Promised!vars)` |

A CB filled and read from end to end is a `Ring`: what it held when both positions
were zero, what was pushed since and what was popped. CB24 follows from the compute
kernel's place alone: `HasSums` says whether the K block found sums there, `Target`
whether it packs there, and the three ways of keeping sums only differ in these.
CB16 follows from what compute has `Produced` of the batch element and what the
writer has stored of it; as in `MatmulCore` the two stand in one of three ways
(`InStep`, `WriterBehind`, `WriterAhead`). The operands are counted since the launch
(`Fed`, `Consumed`), so that the last pop of a launch leaves none. Two facts carry
`NoLiveStripOverwritten`: outputs are only packed in the last loop of a batch
element, where the strips before the one in hand hold outputs and those after it
sums (`OutputsApartFromSums`); and before that loop, while sums are live, the
outputs of the previous batch element are all stored (`BehindMeansNoSums`).

`FusedNeverCircularWait` goes as in `MatmulCore`, with one exception and one more
invariant. The exception is `BiasMissing`, the wait at line 307 while the bias has
not been fed: the theorem says that the kernels never all wait *but* there, and that
the compute kernel waits for nothing but this and operands. The invariant is
`StoredWhole`: the writer stores whole subblocks, so when compute has finished a
batch element the rest of it in CB16 is never less than the subblock the writer
waits for, though untilized rows of another length are what was pushed. In
`FusedLaunchIsFinite` the bias loop counts as one more K block, the untilized rows
follow the last one, and the feeding of the bias is one step more. None of the
theorems assumes that the bias is fed.

`FusedDataInv` adds what the strips hold. A loop over subblocks may be reading and
packing the same memory, so a strip holds the sum of `k` products until the loop has
`Passed` it and `NextSum` from then on (`SumAt`), whether the packer accumulated in
L1 or the math started from a reload (`AccumulatesOrReloads`: always exactly one of
the two after the first K block). `PackerPlace` says where the packer applies ReLU,
for a batch element must not find it as the one before left it; `DstPlace` what DST
holds up to the pack, the SFPU's activation included; `OutputsPlace` that what went
to CB16 is final, of the batch element before too while the writer is still storing
it. For an untilized output `RowStrip` is the arithmetic that takes the i-th strip of
CB16 to its subblock and row in CB24; where the memory is shared that is the same
place (`RowWritten`), so a row may be copied onto itself. With `WrittenPlace` what
has been handed over is a function of the kernels' positions (`AvailableIs`) that only
grows and in one batch element at a time (`HandedStays`), and so every step is one
of `OutputBlocks`.

Only model-checked: the two termination properties and the fairness of
`OutputBlocks` in both refinements (all that is owed is stored in the end). They
speak of fairness and of `ENABLED`, which is beyond the prover. What of them needs
neither is proved: no circular wait but for a bias never fed, and every launch
finite.

## 5. What is not modelled

* Floating-point arithmetic, data formats, PCC and metrics, including that a NaN
  passes the comparison: values, not control. Data is identified by where it
  comes from. With L1 tensors the golden result uses the random B though the
  device is sent an identity: values again.
* The feeder of CB3, which is not in the repository, beyond that it may push the one
  row of bias tiles the kernel waits for.
* `MATMUL_DRAM_SHARDED` in the fused kernel (an early return of cores that are
  not used) and the packer's data format reconfiguration.
* Test 0: the loop of test 1 with an empty kernel, no inputs and no read-back.
* Test 4's checks of the sizes it generates and packs itself, which nothing makes
  fail; reads that come back short in test 3, which looks at no size.
* The life cycle in `main`: parsing, CPU pinning and exit codes, once and in
  sequence, with no state that tests share. The hazard that an invalid test type
  returns without closing the device is visible at its line and needs no model.
* `test_pgm_dispatch.cpp`: warmup, capture and replay are `Dispatch`'s without the
  waits, and no result is checked that a property could be about.
  `test_rw_buffer.cpp`: a timing loop around single blocking calls.
* The sweep scripts: environment variables, file copies and text.
* The superseded tool and the empty kernel: nothing runs the one, nothing is in
  the other.
* Logging and profiling zones (except as the claim above).

## 6. Plan

Done: the kernels of a core and their fused variants, the host's sizing, the grid
with both tensor locations and its read-back, the dispatch of all tests that
launch a matmul, the sub-device split and the host pipelines; proofs for
`MatmulCore` and `FusedMatmul` up to their refinements, `Blocking`, `MatmulGrid`,
`SubDevices`, `HostPipeline` and `Dispatch`: every safety invariant and action
property the passing runs check has a theorem, and so has the part of termination
that needs no fairness.

Next: the same for the host, in `Dispatch` and `HostPipeline`: that no call waits
for a queue which does not move, and that a test takes at most a number of calls
and commands known from its options.
