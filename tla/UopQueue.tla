-------------------------------- MODULE UopQueue -------------------------------
(***************************************************************************)
(* The micro-op cache of the host runtime (runtime/runtime.cc): a kernel   *)
(* of micro-ops is recorded when it is first asked for, is given a range   *)
(* of the device's micro-op SRAM when it is pushed, stays there until a    *)
(* later kernel needs the room, and is loaded by an instruction of the     *)
(* batch.  The micro-ops themselves are copied to the FPGA-readable buffer *)
(* once, when the batch is launched.                                       *)
(*                                                                         *)
(* The device is external here: its GEMM core runs the loads and the       *)
(* operations of a batch in stream order (theorem OrderKept of             *)
(* Tlpp_proofs), so one action per instruction is enough.                  *)
(***************************************************************************)
EXTENDS UopKernel

CONSTANTS
    Calls,      \* per place in the program and signature, what its callback records
    Depth,      \* VTA_UOP_BUFF_DEPTH
    MaxPushes,  \* bound: operations of a batch
    MaxSyncs    \* bound: launches

ASSUME UopQueueAssumption == Depth \in Nat \ {0} /\ MaxPushes \in Nat /\ MaxSyncs \in Nat

\* A place keeps a map of kernels (uop_handle); a signature is nothing, or one int.
Ask == DOMAIN Calls                          \* bound: [site, sig]
KeyUnshifted(sig) == IF sig = <<>> THEN 0 ELSE sig[1]             \* mutant of Key
Key(sig) == IF sig = <<>> THEN 0 ELSE sig[1] + 1
KernelOf(a) == <<a.site, Key(a.sig)>>
Kernel == {KernelOf(a) : a \in Ask}

\* A callback records by a sequence of calls.
ASSUME CallsAssumption ==
    \A a \in Ask : /\ Calls[a] \in Seq(Range(Calls[a]))
                   /\ \A c \in Range(Calls[a]) : c.op \in {"begin", "end", "push"}

VARIABLES
    kmap,      \* the kernels recorded so far: UopKernelMap of every place
    cache,     \* cache_: the kernels in the SRAM, and their order
    cacheIdx,  \* cache_idx_
    sram,      \* [begin, end]: sram_begin_ and sram_end_ of the queue
    where,     \* [begin, end] per kernel: its sram_begin_ and sram_end_
    insns,     \* the batch: loads of micro-ops and operations that use them
    buffer,    \* fpga_buff_: the micro-ops in device-readable memory
    uopMem,    \* the device's micro-op SRAM
    status,    \* "host", or "device" inside VTADeviceRun
    evicted,   \* history: a kernel of this batch has lost its place
    budget     \* [pushes, syncs] left

vars == <<kmap, cache, cacheIdx, sram, where, insns, buffer, uopMem, status, evicted, budget>>

Nothing == [dst |-> -9, src |-> -9, wgt |-> -9]    \* a micro-op never written
Nowhere == [begin |-> 0, end |-> 0]

\* UopKernel::cached.
Cached(k) == where[k].begin # where[k].end

\* What the cached kernels occupy, one after the other.
Layout(c) == FlattenSeq([i \in DOMAIN c |-> kmap[c[i]].seq])

Init ==
    /\ kmap = <<>>
    /\ cache = <<>>
    /\ cacheIdx = 0
    /\ sram = Nowhere
    /\ where = [k \in Kernel |-> Nowhere]
    /\ insns = <<>>
    /\ buffer = <<>>
    /\ uopMem = [a \in 0..(Depth - 1) |-> Nothing]
    /\ status = "host" /\ evicted = FALSE
    /\ budget = [pushes |-> MaxPushes, syncs |-> MaxSyncs]

--------------------------------------------------------------------------------
(* Where a kernel of n micro-ops goes: after the last one, or, when it     *)
(* does not fit, back at the beginning; those it overlaps leave the cache. *)

Wraps(n)     == sram.end + n > Depth
Begin(n)     == IF Wraps(n) THEN 0 ELSE sram.end
End(n)       == Begin(n) + n
EvictFrom(n) == IF Wraps(n) THEN 0 ELSE cacheIdx          \* evict_begin, from 0

\* The eviction loop stops at the first kernel that begins at or after the end.
Kept(n) == {i \in (EvictFrom(n) + 1)..Len(cache) : where[cache[i]].begin >= End(n)}
EvictTo(n) == IF Kept(n) = {} THEN Len(cache) ELSE Min(Kept(n)) - 1
EvictedNone(n) == {}                                           \* mutant of Evicted
Evicted(n) == {cache[i] : i \in (EvictFrom(n) + 1)..EvictTo(n)}

\* cache_ with k in the place of the kernels it evicts.
Ring(k, n) == SubSeq(cache, 1, EvictFrom(n)) \o <<k>> \o SubSeq(cache, EvictTo(n) + 1, Len(cache))

\* FlushUopLoad: the load of what was pushed last.  "Derive offset in
\* FPGA-readable buffer" from the kernels that precede it in the cache.
LoadOffsetFromOne(idx) == Len(Layout(SubSeq(cache, 2, idx)))   \* mutant of LoadOffset
LoadOffset(idx) == Len(Layout(SubSeq(cache, 1, idx)))
LoadInsn(k, n) ==
    [op |-> "LOAD", kernel |-> k, begin |-> Begin(n), end |-> End(n), offset |-> LoadOffset(EvictFrom(n))]

\* The operation, of PushGEMMOp or of PushALUUop as the kernel's mode says.
OpInsn(a, k, b, e) ==
    [op |-> "GEMM", kernel |-> KernelOf(a), begin |-> b, end |-> e, asked |-> a,
     loops |-> IF k.mode = "alu" THEN AluLoops(k) ELSE GemmLoops(k)]

\* The kernel that is pushed: the one the map has, or one recorded now.
Lookup(a) == IF KernelOf(a) \in DOMAIN kmap THEN kmap[KernelOf(a)] ELSE Record(Calls[a])
Remember(a) ==
    kmap' = [k \in DOMAIN kmap \cup {KernelOf(a)} |-> IF k = KernelOf(a) THEN Lookup(a) ELSE kmap[k]]

\* "Cannot have a micro-op kernel larger than SRAM buffer", nor an empty one.
Pushable(k) == k.ok /\ Len(k.seq) \in 1..Depth

Spend == /\ status = "host" /\ budget.pushes > 0
         /\ budget' = [budget EXCEPT !.pushes = @ - 1]

\* PushGEMMOp or PushALUUop of a kernel that is cached: the operation only.
PushCached(a) ==
    LET k == KernelOf(a) IN
    /\ Spend /\ Cached(k)
    /\ insns' = Append(insns, OpInsn(a, kmap[k], where[k].begin, where[k].end))
    /\ UNCHANGED <<kmap, cache, cacheIdx, sram, where, buffer, uopMem, status, evicted>>

\* Of one that is not: UopQueue::Push, the load, the operation.
PushUncached(a) ==
    LET k == KernelOf(a)
        n == Len(Lookup(a).seq) IN
    /\ Spend /\ ~Cached(k) /\ Pushable(Lookup(a))
    /\ Remember(a)
    /\ cache' = Ring(k, n)
    /\ cacheIdx' = EvictFrom(n) + 1
    /\ sram' = [begin |-> End(n), end |-> End(n)]
    /\ where' = [j \in Kernel |-> IF j = k THEN [begin |-> Begin(n), end |-> End(n)]
                                  ELSE IF j \in Evicted(n) THEN Nowhere ELSE where[j]]
    /\ insns' = insns \o <<LoadInsn(k, n), OpInsn(a, Lookup(a), Begin(n), End(n))>>
    /\ evicted' = (evicted \/ Evicted(n) # {})
    /\ UNCHANGED <<buffer, uopMem, status>>

\* A CHECK fails: while recording, and the map has no kernel still, or after,
\* before anything is placed or appended.
PushFails(a) ==
    /\ Spend /\ ~Pushable(Lookup(a))
    /\ IF Lookup(a).ok THEN Remember(a) ELSE UNCHANGED kmap
    /\ UNCHANGED <<cache, cacheIdx, sram, where, insns, buffer, uopMem, status, evicted>>

\* Synchronize, also when AutoSync calls it at the end of a push: ReadBarrier
\* copies the cached kernels over the beginning of the buffer.
Synchronize ==
    /\ status = "host" /\ budget.syncs > 0
    /\ budget' = [budget EXCEPT !.syncs = @ - 1, !.pushes = MaxPushes]
    /\ LET l == Layout(cache) IN buffer' = l \o SubSeq(buffer, Len(l) + 1, Len(buffer))
    /\ status' = "device"
    /\ UNCHANGED <<kmap, cache, cacheIdx, sram, where, insns, uopMem, evicted>>

\* A load of n micro-ops; what was never written is Nothing.
Fetched(i) == IF i \in DOMAIN buffer THEN buffer[i] ELSE Nothing

\* The device executes the next instruction.
DeviceLoad ==
    /\ status = "device" /\ insns # <<>> /\ Head(insns).op = "LOAD"
    /\ LET ld == Head(insns) IN
       uopMem' = [a \in DOMAIN uopMem |->
                    IF a \in ld.begin..(ld.end - 1)
                    THEN Fetched(ld.offset + (a - ld.begin) + 1)
                    ELSE uopMem[a]]
    /\ insns' = Tail(insns)
    /\ UNCHANGED <<kmap, cache, cacheIdx, sram, where, buffer, status, evicted, budget>>
DeviceOp ==
    /\ status = "device" /\ insns # <<>> /\ Head(insns).op = "GEMM"
    /\ insns' = Tail(insns)
    /\ UNCHANGED <<kmap, cache, cacheIdx, sram, where, buffer, uopMem, status, evicted, budget>>

\* Synchronize's end: Reset unmarks the kernels, "as we cannot assume it is
\* still in SRAM across DeviceRun".
Unmarked == [k \in Kernel |-> IF k \in Range(cache) THEN Nowhere ELSE where[k]]
Reset ==
    /\ status = "device" /\ insns = <<>>
    /\ where' = Unmarked
    /\ cache' = <<>>
    /\ cacheIdx' = 0
    /\ sram' = Nowhere
    /\ status' = "host" /\ evicted' = FALSE
    /\ UNCHANGED <<kmap, insns, buffer, uopMem, budget>>

Next == \/ \E a \in Ask : PushCached(a) \/ PushUncached(a) \/ PushFails(a)
        \/ Synchronize \/ DeviceLoad \/ DeviceOp \/ Reset

Spec == Init /\ [][Next]_vars

--------------------------------------------------------------------------------
\* Every operation of a batch finds its range of the SRAM filled, in the same
\* batch, by a load for its own kernel that no later load has overwritten.
Overlaps(a, b) == a.begin < b.end /\ b.begin < a.end
LoadsBefore(n) == {i \in 1..(n - 1) : insns[i].op = "LOAD" /\ Overlaps(insns[i], insns[n])}
LoadCoversOp ==
    status = "host" =>
      \A n \in DOMAIN insns : insns[n].op = "GEMM" =>
        \E i \in LoadsBefore(n) :
            /\ \A j \in LoadsBefore(n) : j <= i
            /\ insns[i].kernel = insns[n].kernel
            /\ insns[i].begin = insns[n].begin /\ insns[i].end = insns[n].end

\* What it is all for: an operation runs with the micro-ops of its own kernel.
OpReadsItsUops ==
    status = "device" /\ insns # <<>> /\ Head(insns).op = "GEMM" =>
        LET g == Head(insns) IN
        [i \in 1..(g.end - g.begin) |-> uopMem[g.begin + i - 1]] = kmap[g.kernel].seq

\* It does as long as no kernel of the batch had to make room for another:
\* the offsets computed when the operations were pushed are those of the layout
\* copied when the batch is launched.
FittingBatchReadsItsUops == ~evicted => OpReadsItsUops

\* An operation sweeps what the program recorded for this place and signature,
\* its loops around its micro-ops, in that order: though the kernel was recorded
\* once, flattened, and its loops and micro-ops reach the device by different
\* ways.
SweepsWhatWasRecorded ==
    \A n \in DOMAIN insns : insns[n].op = "GEMM" =>
        LET g == insns[n] IN Sweep(kmap[g.kernel].seq, g.loops) = Meaning(Calls[g.asked])

\* What the theorem about it asks of programs: their callbacks record nests, and
\* a signature is no negative number (-1 has the key of no signature).
ProgramsNest == \A a \in Ask : Nested(Calls[a])
SignaturesCount ==
    \A a \in Ask : a = [site |-> a.site, sig |-> a.sig] /\ a.sig \in Seq(Nat) /\ Len(a.sig) <= 1
================================================================================
