# A formal model of VTA

VTA is a tensor accelerator and its software: a host runtime that turns the
calls of a compiled kernel into a stream of 128-bit instructions, and several
devices that run such a stream: a functional simulator, the RTL under a cycle
simulator, an HLS design and FPGA boards. The accelerator is a decoupled
access-execute machine: a load, a compute and a store stage each run their own
instructions in order and wait for each other only through dependency tokens.
Whether a kernel computes the right thing, or ends at all, rests on those tokens,
and they pass through much code that no single test sees together: the runtime
defers, merges and invents them, the devices queue, count and drop them.

This directory holds TLA+ modules translated from that code, TLC configurations
that check them on small instances, and proofs checked by TLAPS. Paths below
are relative to the repository's root.

## 1. The system and its parts

| Part | Code | State it keeps | Operations | Modules |
|---|---|---|---|---|
| Instruction format | `include/vta/hw_spec.h` | - | opcode, memory, size, four dependency flags | `VtaInsn` |
| Host instruction queue, C API | `runtime/runtime.cc`, `runtime/runtime.h` | instruction buffer, `pending_pop_prev_/next_`, debug flag | loads, stores, `VTAPushGEMMOp`, `VTADepPush`, `VTADepPop`, `VTASynchronize`, `VTASetDebugMode` | `InsnQueue`, `TokenPipeline` |
| Host micro-op cache | `runtime/runtime.cc` (`UopKernel`, `UopKernelMap`, `UopQueue`) | kernel maps, `cache_`, `cache_idx_`, `sram_begin_/end_` | record, push, flush of a load, copy to the device buffer, reset | `UopKernel`, `UopQueue` |
| Data buffers | `runtime/runtime.cc` (`DataBuffer`, `DeviceAllocStat`) | `allocated_`, the objects | alloc, free, find by handle | `DataBuffer` |
| Simulated DRAM | `src/vmem/virtual_memory.cc` | `ptable_`, `pmap_`, `free_map_` | alloc, free, address translation | `VirtualMemory` |
| Functional simulator | `src/sim/sim_driver.cc`, `src/sim/sim_tlpp.cc` | per-core instruction queues, four token queues, wake-up queue, `done_`, SRAMs | `Device::Run`, `CoreRun`, `EventProcess`, `TlppSynchronization`; loads, stores, GEMM, ALU | `Tlpp`, `VtaSim`, `DataPath` |
| Cycle simulator driver, DPI | `src/tsim/tsim_driver.cc`, `src/dpi/module.cc`, `hardware/dpi/`, `hardware/chisel/.../dpi` | request and response queues, pause and exit flags, simulator thread, burst in progress | launch, poll with a timeout, pause, resume, exit; register and memory requests | `Tsim`, `TsimMem` |
| RTL core | `hardware/chisel/.../core` | instruction memory, next and current registers, semaphores, stage machines | fetch, dispatch, execute, finish | `RtlFetch`, `RtlCore` |
| RTL shell | `hardware/chisel/.../shell` | control registers, read slots, write machine | register access, DRAM reads and writes | launch bit in `RtlCore`, registers in `Tsim`, memory engine in `TsimMem` |
| RTL datapath, RTL queues | `hardware/chisel/.../core/Tensor*.scala`, `.../util/SyncQueue.scala` | pipelines, ring memory | - | not modelled |
| HLS accelerator | `hardware/xilinx/src/vta.cc` | instruction and token FIFOs, SRAMs, done register | fetch, load, compute, store; `vta()` | `HlsCore`, `DataPath` |
| PYNQ driver | `src/pynq/pynq_driver.cc` | mapped registers | start, sleep, poll | in `HlsCore` |
| DE10-Nano manager | `src/de10nano/de10nano_mgr.h` | FPGA manager registers, monitor | program the FPGA | `De10NanoMgr` |
| OpenCL library | `src/oclfpga/oclfpga_device.cc` | OpenCL handles, chunk list | init, setup, alloc, free, write, run, deinit | `OclDevice` |
| OpenCL kernels, compiler, SoC glue, generated RTL, apps, scripts | `hardware/intelfocl`, `python/vta`, `soc`, `generated`, `apps`, `config` | - | - | not modelled |

How they interact: a kernel is a sequence of C API calls on one `CommandQueue`.
Calls append to the instruction buffer (and, for GEMM and ALU, to the micro-op
cache); when the buffer is nearly full, or on `VTASynchronize`, the queue is
sealed with a FINISH and handed to `VTADeviceRun`, a blocking call into the
device. In the functional simulator this call deals the instructions to three
cores and interleaves them on the calling thread until FINISH has run. In the
cycle simulator it writes and polls registers that another thread, which turns
the clock of the RTL, serves; a board's driver does the same with mapped
registers. Data addresses come from `DataBuffer`, whose memory is the simulated
DRAM, or from a board's allocator.

### What is hard, and what makes each part correct

* *Instruction queue.* The order of calls is free: a pop is deferred until an
  instruction of its stage is made, a push is merged into the last instruction
  or carried by a no-op, a no-op's stage is guessed back from its memory type.
  It is correct when the stream it launches can always run to its end, moves
  exactly the tokens asked for and uses only queues that exist. The limit of
  the buffer is checked in some calls only, and a check that fires launches in
  the middle of a kernel.
* *Pipeline simulator.* Cores are interleaved from a start that depends on the
  clock; a blocked core is only run again if a wake-up names it; `done_` is
  written by every instruction; token queues survive from run to run. It is
  correct when no wake-up is lost, no core reorders, tokens are not left over,
  and the loop ends.
* *Both together.* What the kernel can see is the token pipeline of the API:
  every stage does what it was asked in the order it was asked, waits at a pop
  for the matching push, and `VTASynchronize` returns when all is done.
* *RTL core.* Every register changes in every cycle; three stages share one small
  instruction memory with a single port, an instruction passes four places on its
  way to its stage, and a launch resets some registers and trusts others to be
  clean. It is correct when each stage gets its instructions once and in order,
  no slot is lost, a stage that waits never keeps another from being fed, and
  the finish comes when all is idle.
* *Cycle simulation.* Two threads share a pause flag, an exit flag and two queues,
  and a burst passes four state machines written in three languages, one of
  which shows its outputs a cycle late. Correct when each client gets its own
  beats once and in order, a finish that is seen means the results are in
  memory, and neither a call nor the process's exit can hang.
* *HLS accelerator.* Four cores run at once behind bounded FIFOs and share SRAMs;
  in C simulation the same functions are called in rounds. Correct when both
  leave in DRAM what the functional simulator leaves, and both always finish.
* *Micro-op cache.* Kernels are recorded by callbacks, placed in a ring, evict each
  other and wrap around; loads are made when an operation is pushed, the data are
  copied when the batch is launched. It is correct when each operation runs with
  its own micro-ops under the loops its program recorded.
* *Simulated DRAM and buffers.* Pages are numbered from one, runs are reused by
  best fit, sizes may be zero; buffers are allocated and freed by several threads
  with two locks taken one after the other. Correct when allocations are
  addressable, and a known handle always leads to usable memory of its own.
* *Boards.* The OpenCL library splits and joins chunks in a list and its setup can
  fail at any object; the DE10-Nano's programming sequence polls a device that
  may answer late, wrongly or never, and can be tried again after a failure.

`PROJECT.json` lists the hazards with the line where each bites.

## 2. Modules and how they correspond to the code

`VtaInsn` - the instruction as the control logic sees it: `op`, `mem`, `noop`
(`x_size == 0`) and the four flags. It has the two tables of the functional
simulator: `GetCoreType` (which core runs it) and the queues each flag touches,
with a null queue for flags the simulator has no queue for. `WellFormed` is a
predicate on streams: FINISH last, only there and
without pops, every pop has its push before it, every token is popped, and what
the load and store cores do is announced to the compute core afterwards.
It is the contract between runtime and device.

`Tlpp` - `sim_tlpp.cc` as `Device::Run` drives it. `insnq`, `tok`, `event`,
`done` are `insnq_array_`, the sizes of the four token queues (the tokens are
all alike), `dep_push_event_` and `done_`. `agenda` is the program counter: the
cores that `TlppSynchronization` (three, in rotation) or `EventProcess` (one)
have yet to run. `Run` is the entry, `Execute` one turn of `CoreRun`'s loop,
`Yield` its exit, `Wake` one `EventProcess`, `Rescan` the do-while, `Return` the
exit with `Clear`. The start core, drawn from the clock in the code, is any.

`InsnQueue` - the queue's methods are functions from queue to queue
(`DepPopOp`, `DepPushOp`, `CommitPendingPop`, `PushNoop`, `Create`,
`RewriteForceSerial`, ...), composed as in the code, and each API call is one
action: the host is single-threaded and the calls do not block, except the
launch, which is the state `status = "device"`. `AutoSync` is part of the action
that triggers it. `owed` and `calls` are history: what the kernel asked for.

`TokenPipeline` - the abstract specification, written from the API's
documentation in `runtime.h`: the calls of a batch (`ops`: the stage, the place, work or a
token moved over a link), those of them that have been done (`did`), the tokens held, and
nothing about instructions, flags, no-ops, cores or FINISH. `Issue` asks for more, `Advance`
does the next calls of some stages, pops against tokens that are there, `Settle` ends the
batch when all it asked for is done. Three devices are shown to
implement it: the functional simulator behind the runtime, the RTL core and the
HLS accelerator.

`VtaSim` - composes `InsnQueue` and `Tlpp`: the call that seals the stream enters
`Device::Run` in the same step, and the simulator's return ends the call.
`RefinesTokenPipeline` maps the calls made, those done and the queue sizes to the abstract
ones: of the calls of a stage the first are done, as many as the instructions it has executed
stand for (one per token moved, one for the work of a call; a no-op stands for its tokens
only). It holds of kernels that AutoSync cuts too: what is launched is part of what was asked.

`RtlFetch` - `FetchInstMemCore` and the burst machine of `FetchInstMemNarrow`. The
design is synchronous, so one clock cycle is one step: operators with the
argument `in` are wires, and `FetchTick` gives every register its next value, with
the last connection that wins in the Chisel source. `addrQ`, `freeQ`, `reqQ` are the three kinds of
queue, `read` the read in flight, `next` the next registers. An instruction is
represented by its position in the stream, so "the right instruction" can be said;
the beats of one instruction are abstracted to the last.

`RtlCore` - the stages, composed with `RtlFetch`. `cur` is `CurrentInstBuffer`, `state`
the machine of each stage, `sem` the four semaphores under the simulator's names
for them, `launch` bit 0 of `VCRRegisters`. What the rest of the design may do in
a cycle is the input of `Cycle`: a read command accepted, a last beat delivered, a
datapath done, the host writing the launch bit when it reads it as clear. All
stages move in the same step. `ran` and `launches` are history.
`RefinesTokenPipeline` lists what each instruction asks of its stage, its pops first, then its
work, then its pushes: pops are done when the stage has started, the rest when it has finished.
Several stages may advance in one cycle, which is why `TokenPipeline!Advance` is
joint.

`VtaKernels` - streams for model checking: a double-buffered kernel, one with three
tokens in flight per link, one with the no-ops the runtime adds.

`DataPath` - what instructions do to memories, twice: as the functional simulator does
it (`SRAM::Load`, `TruncStore`, `RunGEMM`, `RunALU`) and as the HLS design does it
(`load_pad_2d`, `reset_mem`, `gemm`, `alu`). Integers wrap at the width of their
type. A tensor is one number: a block only repeats what happens to an element.
The packing of fields narrower than a byte is there with its own reference.

`HlsCore` - the HLS design as the board runs it (`mode = "board"`: `Fetch`, `Take`,
`CoreStep` of four processes; `Start`, `WakeUp`, `Returns`, `TimesOut` of the PYNQ
driver) and as C simulation runs it (`mode = "csim"`: `Call`, `CallStage`,
`NextStage` of `vta()`, with the queues and SRAMs on its stack fresh at each call).
`Steps` is the order in which a core pops, clears done, works and pushes. `sim` is the
functional simulator's memory, computed in stream order when the stream is
launched, for `SameResult` to compare with.

`TsimMem` - the memory path of the cycle simulation, one cycle per step: `VmeRead` and
`VmeWrite` are `VME`, `BridgeRead` and `BridgeWrite` are `VTAMemDPIToAXI`, `MemDPI` with
`WriteData`, `SetRequest` and `ReadData` is the C++ side, in the order in which `MemDPI`
calls them. Its clients stand for the core's loads and its store: each reads one
burst when it likes and takes beats when it likes; a last burst writes everything
back, its last word masked.

`Tsim` - the rest of the cycle simulation. The host thread is a program counter
through `DPILoader::Init`, `Device::Run`, `WaitForCompletion` and `~DPILoader`; the simulator
thread is `Clock` (a turn of the loop of `VTADPISim`, with `TsimMem!MemCycle` and the
register path in the same step) and `Held` (its inner loop while the host has
paused it). `reqs` and `answers` are the two `ThreadSafeQueue`s.

`UopKernel` - recording (`PushLoopBegin`, `PushLoopEnd`, `Push` and their `CHECK`s), the loops of the
operation (`GemmLoops`, `AluLoops`) and the device's sweep over them; and `Meaning`, the
recorded calls read as the nested loops they look like. `Nest` says which calls the
compiler emits (`FoldUopLoop` and `InjectALUIntrin` of `transform.py`); only a theorem asks for it.

`UopQueue` - `Begin`, `End`, `EvictFrom`, `EvictTo` and `Ring` are `UopQueue::Push`;
`LoadInsn` is `FlushUopLoad`; `Synchronize` is `ReadBarrier`, with the buffer's old
contents behind what it copies; `Reset` is the reset after the launch; `kmap` the maps
of recorded kernels with their keys. The
device is external to this module: its GEMM core runs a batch's micro-op loads
and operations in stream order, which is theorem `OrderKept` for the simulator.

`VirtualMemory` - `Alloc` and `Free` of the page manager, each one action because
each holds the manager's lock throughout, and the address arithmetic of
`GetPhyAddr` and `GetAddr` as operators.

`DataBuffer` - `DataBuffer::Alloc` and `VTABufferFree` of several threads over
`VirtualMemory`. A step is what one lock protects, or one access to the heap; the
order of a call's steps is in `Goto`. Handles are heap addresses, reused at once.

`OclDevice` - `oclfpga_device.cc`. Allocation is `FirstFit`, `Aligned` and `Split`; freeing is `Free` and
then one `Join` per turn of its loop. `Open` may end in a failed `CHECK`, with or without a context,
for good: the device is a static object, and no destructor follows. `Setup(made)` has the `CHECK` after each object fail or
not; `objects` is what the OpenCL library holds, `handle` what the device remembers.

`De10NanoMgr` - `program_rbf`, one action per numbered step of the code, polls as `Poll`, the
monitor's exception as `Throw`. The FPGA manager is external (`Moves`, `Reject`): the modes
and bits that the code's comments describe, each changing when it will, or never.

## 3. What the runs check

All runs end with the whole state space explored, except the two that exhibit
a violation.

| Run | Question | Instance |
|---|---|---|
| `tlpp` | Does every well-formed stream run to its end, in order per core, with no missed wake-up and nothing left over; does a starving one still miss no wake-up? | every well-formed stream of up to four instructions and FINISH (all flag combinations), a double-buffered kernel of 14, a kernel with three tokens in flight per link, and two streams that starve |
| `insn_queue` | Does every balanced sequence of calls give a well-formed stream with the tokens asked for; do runtime and simulator agree on every instruction's core and queues, in serial mode too? | six calls and two synchronizations, a load of each kind, operations with their load of micro-ops, mode changed between calls |
| `vta_sim` | Runtime and simulator together: the token pipeline is implemented, cut or not, FINISH follows the last store, every `VTASynchronize` returns; and when AutoSync cuts a kernel, the cores still progress, in order | five calls, one explicit synchronization; room for 40 instructions (never cut) and for 8 (cut) |
| `vta_sim_cut` | (violation) ... and does a `VTASynchronize` after a cut return? | room for 8 |
| `uop_queue` | Is every operation covered by a load of its own kernel, does it read its own micro-ops as long as nothing is evicted, and does it sweep what its program recorded? | six callbacks at three places: no loop, one, two, GEMM and ALU, two that fail; kernels of sizes 2, 2, 1, 3 in a memory of 5, four pushes in each of two batches |
| `uop_queue_evict` | (violation) ... and read its own micro-ops when something is evicted? | the same |
| `rtl_core` | Does the RTL get each instruction to its stage once and in order through its shared memory, finish only when idle, finish every launch, and implement the token pipeline? | a double-buffered kernel of 14 and one with no-ops, two launches, 4 slots, bursts of 2, semaphores up to 2 |
| `data_buffer` | With threads interleaved, is a known handle always usable and addressable byte by byte, and does nothing leak? | two threads, three handles, three runs, sizes 0, 2 and 3 with pages of 2 |
| `hls_core` | Do the HLS cores, in both their lives, leave what the simulator leaves, finish, and implement the token pipeline; do the scalar operations agree? | two kernels with data (12 and 11 instructions), FIFOs of 2 and 1, two launches; accumulators of 8 bits and operands of 4, exhaustively for the scalar operations |
| `ocl_device` | Do the chunks stay a partition, is nothing in two hands, does content stay, is everything released? | 9 words aligned to 2 (a remainder that is never used), sizes 1 to 3, every point of failure |
| `tsim` | Do two calls return with their results, beats in order and the counters right, whatever the interleaving; does the exit always get out? | two clients with bursts of 2 beats of 2 words, 2 slots, response queues of 1, three polls |
| `de10nano` | Does programming always return, with the truth, and succeed when all is healthy? | image of 3 words, 4 ticks, three attempts |

### Bounds, and why they are enough

* *Streams of four instructions* reach every pair of interacting flags on each
  of the links, both directions pending at once and each rotation of the start
  core; the two long streams add several tokens in one queue and reuse of buffers.
  The safety properties of `Tlpp`, `InsnQueue` and `RtlCore` are proved without a bound (section 5).
* *Two starving streams* (a pop nobody pushes for, two cores waiting for each other)
  make the simulator scan again and again; for them `InOrder` and
  `NoMissedWake` are still claimed, and the properties that need a well-formed
  stream are conditional on it.
* *Four slots and bursts of two* for streams of 14: the instruction memory is full
  most of the time, its slots are reused several times and in every order, and
  two launches follow each other. The code has 32 to 256 slots and bursts of a quarter.
* *Semaphores up to 2* hold exactly the tokens these kernels have in flight, so the
  counters do reach their maximum. The code's maximum is 255: a kernel with more
  tokens in flight on one link would lose some, in the RTL only; the runtime
  does not bound them.
* *Five or six calls* suffice for the deepest patterns of the queue: two pops
  pending on one stage (a commit), a push after a pop without an instruction
  between, two pushes on one instruction (a no-op), and a second batch that starts
  from what the first left. `Balanced` makes the kernels call `VTASynchronize`
  only with every token popped, as compiled kernels do; it prunes states from
  which balance is out of reach, never a behaviour of the code.
* *Limits* is 40 where the limit must not matter, and 8 where it must: a check
  fires at `limit - 6`, so cuts happen after the second instruction. The real
  value is about two million (`VTA_MAX_XFER / 16`); the logic is the same.
* *Micro-op memory of 5* with the sizes above has batches that fit (2+2+1, 2+3),
  batches that wrap, evict one or several kernels, and return to an evicted one.
* *Sizes 0, 2, 3 with pages of 2* give no page, an exact page, a partial page,
  and a reuse by a smaller request.
* *FIFOs of 2 and 1* in `HlsCore`: fetch and the pushing cores do wait for room.
  `Tiles` reuses one input buffer and one output tile, so an operation that starts
  too early reads or overwrites something else. The two kernels stay in the
  fragment on which the two designs agree by intention (comment of `MCHlsCore`).
* *Bursts of two beats, two slots for two clients, response queues of one*: both
  clients have bursts in flight, a slot is used again by the next run, and the
  response queue makes the memory wait. Three polls are fewer than a run takes in
  some interleavings, so the timeout happens, and in others it does not.
* *Four ticks* are the fewest that let a healthy device make all the moves between
  two polls one per tick; three attempts follow each other after failures at any
  step.

### Fairness

`Tlpp` and `VtaSim` assume weak fairness of the simulator's steps only: the
simulator runs on the thread that called `VTADeviceRun`, so as long as it has a
step to take it takes it. Nothing is assumed of the host: it may stop calling.
The run terminates under this alone; no fairness between cores is needed
because `CoreRun` itself decides which core runs.

`RtlCore` assumes that the clock ticks, that the memory accepts a read command and
delivers an instruction the core is ready for, and that a datapath finishes the
work it has started. The host is again free to stop.

`HlsCore` assumes that each core proceeds as long as its FIFOs let it (they have a
clock of their own) and that `vta()` runs on; nothing of the host.

`Tsim` assumes that both threads are scheduled, that a host inside a call goes
on with it (outside, at `pc = "idle"`, it may stop), and that the clients of the
core do not hold back for ever (`Eager`).

`De10NanoMgr` assumes that the program runs on, and that the manager makes its moves
in an attempt called healthy only; on a dead device the timeouts must do.

`CHECK_DEADLOCK FALSE` is used where the model's budget of calls ends: the host
really may stop there. `tlpp` keeps the deadlock check.

## 4. Where the code differs from what it says

Shown by a run:

* `vta_sim_cut` (`sim_tlpp.cc:153`). `CheckInsnOverFlow` may launch a batch
  in the middle of a kernel. Tokens that the batch pushes and does not pop stay
  in the simulator's queues, since `Clear` empties only the instruction queues,
  and can satisfy the pop in front of the *next* FINISH. That FINISH runs before
  the last store, against the comment at `runtime.cc:1112`; the store then sets
  `done_` back to false, nothing is left to set it again, and `VTASynchronize`
  does not return.
* `uop_queue_evict` (`runtime.cc:479`). A load's offset in the device-readable
  buffer is computed from the kernels cached when the operation is pushed; the
  buffer is laid out from those cached at the launch. When a kernel of the batch
  was evicted in between, loads fetch other kernels' micro-ops. As long as
  nothing is evicted the offsets agree (`FittingBatchReadsItsUops`).

Seen while reading and modelling, without a run of their own:

* `runtime.cc:1286`: `VTADepPush` and `VTADepPop` can append no-ops but do not
  check the limit, so the next `VTASynchronize` may fail its own `CHECK`.
* `runtime.cc:694`: load and store share no queue, so in serial mode a store
  between two loads is chained to nothing and FINISH need not follow it.
* `runtime.cc:283`: nothing reads the loop pointer, so a loop that ends before
  another begins is recorded as a nest; `runtime.cc:347`: an immediate is kept in
  16 bits, and only a second micro-op notices that it did not fit.
* `tsim_driver.cc:184`: after a timeout `Run` returns 0 (`driver.h:80` says 1), and
  the next call starts a device that may be running.
* `dpi/module.cc:244` with `VTA_TSIM_MEM_READ_LATENCY` = 1: the registered beat of an
  old burst can be taken for the first of the next (with `ReadDelay = 1`
  `BeatsInOrder` fails); the runs have latency 0.
* `pynq_driver.cc:131`: one microsecond of sleep stands for "compute has cleared the
  old done flag"; with `SleepSuffices = FALSE` `SameResult` fails.
* `oclfpga_device.cc:87`: a `CHECK` that fails once the context exists throws out of the
  constructor, so nothing releases it; `AllReleased` is about devices that were opened.
* `oclfpga_device.cc:135`: a second `setup` adds a second chunk at offset 0 and
  forgets the first objects; `oclfpga_device.cc:168`: `alloc(0)` splits off an empty
  chunk whose offset is the next one's. Neither is called that way.
* `de10nano_mgr.h:542`: after step 10 has closed the file, a failure closes the
  descriptor again.
* `virtual_memory.cc:161`: `DumpCase` writes freed runs too (`virtual_memory.h:90` says
  live allocations). `runtime.cc:1193`: `CommandQueue::ThreadLocal` is one object for the
  process (`runtime.h` speaks of a thread-local handle).
* The functional simulator ignores `reset_reg` in ALU operations and accepts
  `MUL`, narrow accumulator loads and padded weights that the HLS design does not.

## 5. What is proved

`Tlpp_proofs` proves, for every set of streams and so for streams of any length
and runs of any number, with TLAPS:

| Theorem | Statement | Assumes |
|---|---|---|
| `TypeCorrect` | `Spec => []TypeOK` | `StreamsAssumption`: the streams are sequences of instructions |
| `OrderKept` | each core executes in stream order | the same |
| `NoWakeMissed` | a core that can run is due to be run | the same |
| `TokensAccounted` | tokens in a queue = pushed minus popped by what has executed | `StreamsWellFormed` |
| `NeverStuck` | while an instruction is left, some core's front can run | `StreamsWellFormed` |
| `OneScanIsEnough` | one scan and its wake-ups run everything | `StreamsWellFormed` |
| `FinishComesLast` | when FINISH has run, all has | `StreamsWellFormed` |
| `ReturnsClean` | a return leaves no instruction, token or wake-up | `StreamsWellFormed` |

`StreamsWellFormed` is a hypothesis of the theorems, not an assumption of the
module: `vta_sim_cut` runs the simulator on streams that violate it. The runtime
establishes it when kernels balance their tokens and no batch is cut
(`UncutStreamsRun`, below).

The argument for `Tlpp`. None of the properties is inductive alone. `Inv` is `TypeOK`,
`Idle` (outside a run nothing is queued or due), `InOrder`, `TokenAccounting`,
`RunsWellFormed` (the stream being run is well formed), `NoTokenBetweenRuns` and
`DoneMeansFinished` (`done` implies FINISH has executed).

* `TokenAccounting` is the centre: executing an instruction moves it from the
  pending to the executed pushers and poppers of the queues it touches, and the
  cardinalities move by one with `tok` (`CountStep`).
* FINISH last (`FinishedMeansAll`). Once FINISH has executed, `InOrder` gives that
  the compute core's queue is empty; so all pops of `l2g` and `s2g` have been done;
  balance and accounting make all their pushes done; a pending load or store would
  have a push at or after it on its own core, which `InOrder` says is pending too.
* Never stuck (`OldestIsReady`). The least pending position is the front of its
  core. Every instruction before it has executed; its pops have more pushes than
  pops before them (`PopsFollowPushes`); the poppers of a queue are all on one
  core, so those executed are exactly those before it: its tokens are there.
* No missed wake-up needs no hypothesis on the streams: a front instruction
  becomes ready only through a push, and `Wakes` names exactly the cores that
  pop the pushed queues (`PushWakes`); or because the core it is on executes,
  and that core is still at the head of the agenda.
* One scan is enough follows from the last two: with nothing on the agenda and no
  event no core can run, so nothing is pending, so FINISH was the last to run.

`VtaSim_proofs` proves of the host's queue, and of the queue with the simulated device behind
it, for any number of calls in any order, any buffer limit and either serial mode:

| Theorem | Statement | Assumes |
|---|---|---|
| `RoutingAgrees` | `RoutedAlike`: the stage the runtime means is the core the device chooses, which has a queue for each flag | nothing |
| `TokensAreTheCalls` | `TokensAsAsked`: the tokens of a batch and the pops still pending are what the calls asked for | nothing |
| `UncutStreamsRun` | `LaunchedStreamsRun`: what is launched outside serial mode is well formed | `Balanced`, `NeverCut` |
| `UncutStreamsLaunch` | only a serial queue can abort: the `CHECK`s of `Synchronize` hold | `Balanced`, `NeverCut` |
| `BatchesKeepOrder` | of every batch launched: no core reorders its instructions, no wake-up is lost | nothing |
| `CutBatchesProgress` | `CutStreamsProgress`: wherever a kernel is cut, the three cores never wait for each other | no serial mode |
| `FinishAwaitsStores` | `FinishAfterLastStore`: FINISH runs after every store of the batch | `Balanced`, `NeverCut`, no serial mode |
| `SimIsTokenPipeline` | `RefinesTokenPipeline`: host and device implement `TokenPipeline`, cut kernels included | no serial mode |

`Balanced` (a kernel synchronizes when it has popped what it pushed) and `NeverCut` (the buffer
holds two instructions per call and the eight that wait and finish) are hypotheses, since the
code leaves both to its callers: `vta_sim_cut` shows what a cut does to FINISH, and
`CutBatchesProgress` what it does not. `NeverCut` is a predicate of the state inside the
theorems: the limit is chosen at the start and no step changes it. Serial mode is excluded for
the device (`TRUE \notin SerialModes`) because a rewritten batch chains its instructions by
tokens that are not those of the calls and, switched in the middle of a kernel, need not
balance. The invariant of the batch is `Routed` (each instruction's flags have queues on the
core of its stage, and a pending pop is one that core can do) with `Matches` (pushers and
poppers, counted with the pending pops, are those of the calls). Each function of the queue
(`GetInsn`, the merge into the last instruction of a stage, `CommitPendingPop`, the no-ops that
wait for loads and stores, the serial rewrite) has lemmas for both, so that a call is a chain of
them. For the streams, `Account` adds to it that each pop finds its push before it, link by
link, that the queue has at most two instructions to a call, and that what the kernel still owes
is pushed minus popped.

The composition needs no new invariant for batches that are not cut. `HostSide` shows that a step of `VtaSim` is one of the
queue or leaves it alone, `DeviceSide` that it is one of the device, which is given the batch
just launched, or leaves it alone. `Tlpp_proofs` is instantiated for the streams of all
instructions, and its induction is split in two: `InvRun`, the start of a stream, which needs the
stream to be well formed, and `InvWithin`, every other step, which needs nothing. `UncutStreamsRun`
is what `InvRun` asks for.

A cut batch is not well formed: it pops tokens of earlier batches and leaves some to later
ones. Its invariant is about both sides. `Left` are the tokens the batch finds in the
queues, computed from the host's state alone: what the kernels owe, without what the batch
has pushed and popped. `LeftInv`: each pop of the batch finds its push before it or one of
these (every lemma of the queue's methods is stated for any number of tokens found,
`StaysOrdered`). `Tokens`: between batches the device's queues hold `Left`, and during one the
count of pushes and pops starts from it (`AccountedFrom`). `OldestCanRun` is the argument of
`OldestIsReady` from any number of tokens. When the device returns, no wake-up
is left, so no core can run, so nothing is pending, so what the queues hold is what
the kernels owe: the `Left` of the next batch. This is why the tokens must survive `Clear`.

`SimIsTokenPipeline` has to say which instruction a call became, though the queue merges the
calls of a stage into one instruction, moves a pop to an instruction that does not exist yet and
adds no-ops. `Home` gives each call a place: an instruction of its stage with the flag or the
work it asked for, or the pending pops. `Housed` makes this one to one, onto all that the
instructions of the stage stand for, and in order: an earlier call of a stage is never in a
later instruction. Every method of the queue has a lemma that it keeps the calls housed. It follows
that the calls of a stage that are done, counted from the front, are those with a place in an
executed instruction (`DoneCallsAre`), so that an execution does the pops, work and pushes of its
own instruction (`MovedAt`), before any later one of its stage (`DoneInOrder`); each pop takes a
token the core has seen. A return settles all because then no core can run, so by
`CutBatchesProgress`'s argument nothing is pending. A serial batch does not implement the
pipeline: the rewrite replaces the flags of the calls by a chain of its own.

`RtlCore_proofs` proves first `RtlRoutesAsSim`: for every instruction the simulator has
queues for and the RTL can dispatch, the RTL's decoders choose the same stage,
wait for the same tokens and post the same ones as the simulator's tables. They
are two independent readings of the format in `hw_spec.h`; the theorem is what
lets `WellFormed`, defined with the simulator's tables, speak of both. Then, for
streams of any length, any number of slots, any burst, any size of the semaphores and any
number of launches:

| Theorem | Statement |
|---|---|
| `MemoryIsConsistent` | `FetchMemoryConsistent`: every slot is in exactly one place; the assertions of `FetchInstMem` hold |
| `DispatchKeepsOrder` | `DispatchedInOrder`: each stage is given exactly its instructions, in stream order |
| `FinishIsIdle` | `FinishMeansIdle`: at the finish pulse nothing is left in any stage, queue or semaphore |
| `RtlIsTokenPipeline` | `RefinesTokenPipeline`, as long as no semaphore is posted when full (`RoomForPosts`) |
| `FewPushesLeaveRoom` | which no stream with at most as many pushes of a queue as its semaphore counts does (`FewPushes`) |

They assume `StreamsRunnable`: tokens balance, FINISH is last, every load and store is
announced to the compute stage, and no instruction is one the decoder does not know.
These are the parts of `WellFormed` without the order of pops and pushes; the assumption of
`MCRtlCore` says that the streams of the run satisfy it. Its invariant says what each state of the
burst machine has left to do (`Burst`), that a stage waits for one next instruction at
a time (`Requests`: in the request queue, with an address, or being read, which is why
the two reads of a cycle cannot be of one slot), that the core is quiet outside a
running stream (`Phases`), and `Tokens`: a semaphore and the pops that have started
are never more than the pushes that are done. It is an inequality because a full semaphore loses
tokens. It suffices: FINISH is the last instruction of the compute stage, so that stage has
started all its pops; each of them needed its push; by balance all pushes to it are
done and its semaphores are empty; loads and stores are announced by a push at or after
them, so those stages are done too, and so are their pops and the pushes for them.

The refinement has every stage move in one step: the pops of a stage that starts and the work
and pushes of one that finishes are several calls at once. `Advance` allows that because a link
is popped by one stage and pushed by another: no stage pops a token posted in the same cycle, so
the tokens are there before. The order within a stage is that of `DispatchedInOrder`, the counts
are those of the semaphores with the two exceptions the code has: a post to a
full semaphore is lost, which `RoomForPosts` excludes and nothing in the RTL prevents (8 bits
against an unbounded kernel), and the launch bit falls only when `FinishMeansIdle` holds, so
that all was done.

`De10NanoMgr_proofs` proves, for images of every length, every number of ticks and
of attempts, `SuccessIsReal` (`SuccessMeansConfigured`) and `HealthyAttemptsSucceed`
(`HealthySucceeds`). What the program knows at a step is not what it has checked
but what the manager cannot have done in between, so the invariant says for each
step how far the manager can be: `Driven` (the control register), `ResetClears` (what
the reset phase forgets), `Following` (its mode, and the words loaded plus the words
left), and `OnTrack` (what a healthy attempt adds: nSTATUS is up, the clocks asked for
are those that are reported). A poll of a healthy attempt counts a tick only when
the manager has no move left; `OnTrack` makes the awaited condition true there, so
`TimeOut` is out of reach (`HealthyPolls`).

`UopQueue_proofs` proves three properties of the micro-op cache, for any kernels, any size of
the SRAM and batches of any length. All of them assume that a callback records by calls of the
three kinds there are (`CallsAssumption`); the third has two hypotheses of its own:

| Theorem | Statement |
|---|---|
| `OpsAreLoaded` | `LoadCoversOp`: the last load before an operation that touches its range is of its kernel, to that range |
| `FittingBatchesReadTheirUops` | `FittingBatchReadsItsUops`: with nothing evicted, an operation finds the micro-ops of its kernel |
| `ProgramsAreSwept` | `SweepsWhatWasRecorded`, if callbacks record nests (`ProgramsNest`) and signatures are not negative (`SignaturesCount`): every operation sweeps what the calls of its own place and signature mean |

None is about one step: a kernel pushed once is used by operations much later, after others
were placed around it, twice around the ring perhaps. `Placed` says how the cached kernels
lie in the SRAM: in the order of the cache, side by side, those up to `cache_idx_` before
`sram_end_` and those an earlier round left behind it. From that the eviction loop, which stops
at the first kernel it does not overlap, has removed all that it does overlap (`EvictionStops`,
`PlaceStep`). `Loaded` says that each cached kernel has a load in the batch that nothing later
overlaps. For the second, `Unevicted` adds what holds while nothing has been evicted: the
cache has only grown at its end (`AtTheEnd`), so a kernel's place in the SRAM is its place in the
layout (`AtHome`), which is both the offset in its load (`Own`) and where `ReadBarrier` copies
it (`Copied`); on the device each operation still to run has its micro-ops in the SRAM, or
their load ahead of it (`Ahead`). That the layout grows at its end, and that what is recorded
is micro-ops, are inductions over `FlattenSeq` and the fold in `Record`: a
lemma shows that the recursion has one solution (`FlatExists`, `FlatUnique`), by the least
position at which it fails (`LeastNumber`).

The third joins the recorder, which keeps loops and micro-ops apart and flat, to the reading of
the same calls by a stack of open loops (`Meaning`). For a nest both come to
`NestMeaning`, its micro-ops repeated by its loops from the innermost out: `RecordsNest` says what
is recorded after each call, `ReadsNest` what stack is open after each call (`Frames`;
`FramesOpen`, `FramesEmit` and `FramesClose` are the steps), and `SweepOfNest` and
`MeaningOfNest` conclude. Without the hypothesis the two differ, as the entry on `runtime.cc:283` in
section 4 shows; the compiler always emits a nest. That an operation gets the kernel of
its own place and signature is the invariant: `KernelsRecorded` (each remembered kernel is
a recording of the calls whose key it has), `OpsAsked` (each operation in the batch has the
kernel and the loops of its request), by `KeysDiffer`: two requests have different keys. A signature
of -1 would have the key of none, since the key is the signature plus one; signatures come
from the compiler of TVM, outside the repository.

`DataBuffer_proofs` proves for any number of threads, handles and runs, sizes and page size:

| Theorem | Statement |
|---|---|
| `BuffersAreUsable` | `KnownIsUsable`: a known handle is an object with a live run of its own, at its address |
| `NothingLeaks` | `NoLeak`: with no call under way, objects and runs are what the threads hold |
| `AddressesReachTheirBytes` | `RoundTrip`: the physical address of a byte of an allocation leads back to it |
| `RunsAreNotShared` | `NotShared`: a run is never handed out twice, nor while free, nor twice in the free map |

The only assumption is that pages have bytes and sizes are numbers. The locks do not
cover a call, so the invariant says in whose hands everything is at each step of it:
`Owned` gives every object to the one thread that has its handle, `RunOwned` every live
run to one object or to the thread about to make it one, `Known` relates both to
`allocated_`, and `Hollow` names the object between `VTAMemFree` and `delete`, whose run
another thread may already have. Of the page table, `MemInv` says that each run has its
own pages in it (`Tabled`) and each allocation enough of them (`Roomy`); the address
arithmetic is then that a quotient and a remainder are unique (`DivUnique`).

`OclDevice_proofs` proves `ChunksTile`, `Held`, `ContentKept` and `AllReleased` of the OpenCL device
(`ChunksAlwaysTile`, `RangesAreHeld`, `ContentsAreKept`, `AllIsReleased`), for any memory size,
alignment and sizes, under the hypothesis `MaxSetups = 1`: `oclfpga_driver.cc:95` is the only
call of `setup`, and a second one would add a chunk over the first. Neither half of
`ChunksTile` is inductive: `Joining` says which free neighbours there may be in the middle of
`free` (those the iterator will still look at), `Ordered` puts all pairs of chunks, and so all
that is handed out, apart, which is what `ContentKept` needs, and `AllAligned` gives a split
and a join aligned offsets (`MultiplesAdd`). `AllReleased` needs `Handled`: an
object that exists is the one its handle names, so that whatever step of `setup` failed,
`deinit` finds it.

`Tsim_proofs` proves of the cycle simulation, for any number of clients, slots, beats, words and
runs, when memory reads have no latency (`ReadDelay = 0`, the default; with one,
`ClientsGetTheirBeats` is false, section 4):

| Theorem | Statement |
|---|---|
| `BeatsHaveTheirSlot` | `VmeAssertions`: a beat that comes back has a slot in use, and is its last when it says so |
| `ClientsGetTheirBeats` | `BeatsInOrder`: each client receives the words it asked for, in order and once |
| `ResultsAreWritten` | `DoneMeansWritten`: the host that saw the finish bit finds its results in memory, the masked word untouched |
| `ProfileIsTheSum` | `ProfileAddsUp`: the profiler's sum is the read beats of the runs since it was cleared |

The beat on the wires is described four times: by the slot (`left`), by the bridge (what remains
of its burst), by `MemDevice` (its address and length) and by the outputs that
`VTAMemDPI.v` registered a cycle before. `Serving` says that the four agree, and that the words
shown are those of memory now; it needs that no write of the run touches what the run reads
(`SourceStays`, from the layout of the areas in memory) and that the host fills only areas of
runs to come. `Tracked` follows a request from the engine's register through
the bridge's queue, so that a slot is waited for once, and `Counted` says that a client has
asked for nothing, holds one slot, or has all its beats: together they give each beat its place
(`Arrived`). A launch must find all this at rest (`Resting`, `StartsNext`). That it does is `Control`, about
the other half of the model: the start bit stays up from the launch to the finish whatever
the host writes meanwhile (`Launched`), and the base address reaches its register before the
start bit does (`BaseFirst`).

The last two are about both threads at once, and need `Completed` as well. `Todo` is what
the host has sent and what has yet to have its effect: the queue, and the request
in the converter's hands, which stays at the front of the queue until the cycle
after (`Shows`). `Calls` says for each place in `VTADeviceRun` what `Todo` is and how far the run
is (`Unstarted`, `Ready`, `Running`, `Finished`), so that the one answer the host waits for is its
own, and that it has seen the finish bit of its own run and not of the one before.
`Tally` makes the counted beats the number of pairs of a client and a beat received, which is
`Beats` when all have theirs (a cardinality, one more with each beat). `Filled` and `Outcome` give
every word of the sources and the targets, `Progress` being what the write burst has
written so far; from `SourceStays` and `Arrived` a word written is the word read. Only
`Filled`, `Tally` and `Shows` survive a call that runs out of polls: its answers and its run
may then be taken for those of the next call, which is why both properties say "until".

Model-checked only:

* Liveness (`RunTerminates`, `SyncReturns`, `LaunchFinishes`, `StreamsRun`, `CallsReturn`,
  `ProgramReturns`), which is outside what the prover does. `NeverStuck`, `OneScanIsEnough` and the
  fact that each execution shortens the queues are the safety part of the first one's
  termination argument.
* `RefinesTokenPipeline` of `HlsCore`: its order of steps within an instruction is a sequence
  concatenated from parts, and it rests on the order of its FIFOs, for which no invariant has
  been stated yet. Those of `VtaSim` and `RtlCore` are proved.
* `SameResult` and `Arithmetic` of `HlsCore`: they compare recursive sweeps and bit fields, whose
  meaning is an induction over data.
* `EveryRoundRunsSome` of `HlsCore`, which could be proved from the same invariant.

## 6. What is not modelled, and why

* Blocks of tensors: `DataPath` has one element per tensor, since GEMM and ALU
  repeat the same steps for each. The contents of data buffers elsewhere.
* The printing of instructions, the functional simulator's profiler, cache flushes
  and barriers of the non-coherent boards: no effect on the order of anything
  modelled.
* In the RTL: the front-end for buses wider than an instruction, the event
  counters, the AHB variant of the memory engine, the memory-backed queue, and the
  tensor pipelines, which are each a `done` that comes some time after their start.
* In the cycle simulation: reset, the loading of the library, the trace, registers
  the driver only zeroes, and a read latency (section 4).
* Several host threads on one `CommandQueue`: it has no lock and promises nothing.
* The vendors' memory allocators and mapped registers of the boards: pure I/O.
* The OpenCL kernels, the compiler, SoC glue and generated files, for the reasons
  given in `PROJECT.json`.

## 7. Plan

Left, in this order:

1. The wide fetch front-end, as a second burst machine under `RtlFetch`.
2. `SyncQueue` as a refinement of a FIFO.
3. The address generators of the tensor loads and stores under `TsimMem`'s clients.

Theorems still to prove: `EveryRoundRunsSome` and `RefinesTokenPipeline` of `HlsCore`, from one
invariant on its FIFOs.
