------------------------------- MODULE InsnQueue -------------------------------
(***************************************************************************)
(* The host runtime's command stream (runtime/runtime.cc): the C API calls *)
(* of a compiled kernel append instructions to InsnQueue's buffer, and     *)
(* Synchronize hands the buffer to the device.  The pops a kernel asks for *)
(* wait in pending_pop_* until an instruction of their stage can carry     *)
(* them; its pushes are merged into the last instruction of their stage or *)
(* carried by a no-op.                                                     *)
(*                                                                         *)
(* owed and calls are the model's own: the tokens the kernel has pushed    *)
(* and not popped, and the calls of the batch, in order.                   *)
(***************************************************************************)
EXTENDS VtaInsn, Integers, SequencesExt, FiniteSetsExt

CONSTANTS
    Limits,        \* bound: values of VTA_MAX_XFER / sizeof(VTAGenericInsn)
    LoadMems,      \* bound: the memories the kernels load
    Ops,           \* bound: the operations they push
    UopLoads,      \* bound: whether those load micro-ops (TRUE) or find them cached
    MaxCalls,      \* bound: API calls of the kernels, Synchronize excepted
    MaxSyncs,      \* bound: explicit calls of VTASynchronize
    SerialModes,   \* bound: the values VTASetDebugMode gives VTA_DEBUG_FORCE_SERIAL
    Balanced       \* kernels call VTASynchronize with every token popped

ASSUME InsnQueueAssumption ==
    /\ Limits \subseteq Nat \ {0} /\ MaxCalls \in Nat /\ MaxSyncs \in Nat
    /\ LoadMems \subseteq {"INP", "WGT", "ACC", "ACC8"} /\ Ops \subseteq {"GEMM", "ALU"}
    /\ UopLoads \subseteq BOOLEAN
    /\ SerialModes \subseteq BOOLEAN /\ Balanced \in BOOLEAN

\* kLoadStage, kComputeStage and kStoreStage; kNoneStage is what
\* GetPipelineStage says of a no-op load.
LoadStage    == 1
ComputeStage == 2
StoreStage   == 3
NoneStage    == 0
Stage == LoadStage..StoreStage

\* The stage pairs between which tokens travel.
Link == {<<1, 2>>, <<2, 1>>, <<2, 3>>, <<3, 2>>}

VARIABLES
    iq,        \* insn_queue_: [insns, popPrev, popNext]
    status,    \* "host", "device" (inside VTADeviceRun) or "aborted" (a CHECK)
    serial,    \* debug_flag_ has VTA_DEBUG_FORCE_SERIAL
    owed,      \* per link, pushes minus pops of the kernels so far
    calls,     \* the calls of this batch
    budget     \* [calls, syncs] left, and the build's [limit] of instructions

hostVars == <<iq, status, serial, owed, calls, budget>>

EmptyQueue == [insns |-> <<>>, popPrev |-> [s \in Stage |-> FALSE],
               popNext |-> [s \in Stage |-> FALSE]]

MemStageWithoutUop(mem) == IF mem \in {"ACC", "ACC8"} THEN ComputeStage ELSE LoadStage  \* mutant
GetMemPipelineStage(mem) == IF mem \in {"ACC", "ACC8", "UOP"} THEN ComputeStage ELSE LoadStage

GetPipelineStage(insn) ==
    CASE insn.op \in {"GEMM", "ALU"} -> ComputeStage
      [] insn.op = "LOAD"            -> IF insn.noop THEN NoneStage
                                        ELSE GetMemPipelineStage(insn.mem)
      [] insn.op = "STORE"           -> StoreStage

GetPipelineStageAll(insn) ==
    IF GetPipelineStage(insn) # NoneStage THEN GetPipelineStage(insn)
    ELSE GetMemPipelineStage(insn.mem)

--------------------------------------------------------------------------------
(* The queue's methods, as functions from queue to queue. *)

\* PushNoop: an instruction of size zero that only moves tokens.
PushNoop(q, stage, qp, qn, pp, pn) ==
    [q EXCEPT !.insns = Append(@,
        [op |-> IF stage = StoreStage THEN "STORE" ELSE "LOAD",
         mem |-> IF stage = LoadStage THEN "INP" ELSE "UOP", noop |-> TRUE,
         popPrev |-> pp, popNext |-> pn, pushPrev |-> qp, pushNext |-> qn])]

ClearPending(q, stage) ==
    [q EXCEPT !.popPrev[stage] = FALSE, !.popNext[stage] = FALSE]

PendingPop(q) == \E s \in Stage : q.popPrev[s] \/ q.popNext[s]

\* mutant of CommitPendingPop: commits only two pops at a time.
CommitPairs(q, stage) ==
    IF q.popPrev[stage] /\ q.popNext[stage]
    THEN ClearPending(PushNoop(q, stage, FALSE, FALSE, TRUE, TRUE), stage)
    ELSE ClearPending(q, stage)

CommitPendingPop(q, stage) ==
    IF q.popPrev[stage] \/ q.popNext[stage]
    THEN ClearPending(PushNoop(q, stage, FALSE, FALSE, q.popPrev[stage], q.popNext[stage]), stage)
    ELSE q

\* Create: a new instruction takes over the pending pops of its stage.
Create(q, stage, op, mem) ==
    ClearPending([q EXCEPT !.insns = Append(@,
        [PlainInsn(op, mem) EXCEPT !.popPrev = q.popPrev[stage], !.popNext = q.popNext[stage]])],
        stage)

\* mutant of DepPopOp: the two directions swapped.
DepPopSwapped(q, from, to) ==
    IF from > to
    THEN [(IF q.popPrev[to] THEN CommitPendingPop(q, to) ELSE q) EXCEPT !.popPrev[to] = TRUE]
    ELSE [(IF q.popNext[to] THEN CommitPendingPop(q, to) ELSE q) EXCEPT !.popNext[to] = TRUE]

DepPopOp(q, from, to) ==
    IF from < to
    THEN [(IF q.popPrev[to] THEN CommitPendingPop(q, to) ELSE q) EXCEPT !.popPrev[to] = TRUE]
    ELSE [(IF q.popNext[to] THEN CommitPendingPop(q, to) ELSE q) EXCEPT !.popNext[to] = TRUE]

\* mutants of DepPushOp: pops asked for before the push are left pending; a
\* flag already set is set again.
DepPushUncommitted(q, from, to) ==
    LET n == Len(q.insns)
        mine == n > 0 /\ GetPipelineStage(q.insns[n]) = from
    IN  IF from < to
        THEN IF mine /\ ~q.insns[n].pushNext
             THEN [q EXCEPT !.insns[n].pushNext = TRUE]
             ELSE PushNoop(q, from, FALSE, TRUE, FALSE, FALSE)
        ELSE IF mine /\ ~q.insns[n].pushPrev
             THEN [q EXCEPT !.insns[n].pushPrev = TRUE]
             ELSE PushNoop(q, from, TRUE, FALSE, FALSE, FALSE)
DepPushOnce(q, from, to) ==
    LET c == CommitPendingPop(q, from)
        n == Len(c.insns)
    IN  IF n > 0 /\ GetPipelineStage(c.insns[n]) = from
        THEN IF from < to THEN [c EXCEPT !.insns[n].pushNext = TRUE]
                          ELSE [c EXCEPT !.insns[n].pushPrev = TRUE]
        ELSE PushNoop(c, from, from > to, from < to, FALSE, FALSE)

\* DepPush: the push goes into the last instruction of the buffer if that is
\* one of the stage and its flag is free, else into a no-op.
DepPushOp(q, from, to) ==
    LET c == CommitPendingPop(q, from)
        n == Len(c.insns)
        mine == n > 0 /\ GetPipelineStage(c.insns[n]) = from
    IN  IF from < to
        THEN IF mine /\ ~c.insns[n].pushNext
             THEN [c EXCEPT !.insns[n].pushNext = TRUE]
             ELSE PushNoop(c, from, FALSE, TRUE, FALSE, FALSE)
        ELSE IF mine /\ ~c.insns[n].pushPrev
             THEN [c EXCEPT !.insns[n].pushPrev = TRUE]
             ELSE PushNoop(c, from, TRUE, FALSE, FALSE, FALSE)

\* mutants of WaitForAllOp: FINISH does not wait for the loads; for the stores.
WaitForStores(q) ==
    CommitPendingPop(DepPopOp(DepPushOp(q, StoreStage, ComputeStage),
                              StoreStage, ComputeStage), ComputeStage)
WaitForLoads(q) ==
    CommitPendingPop(DepPopOp(DepPushOp(q, LoadStage, ComputeStage),
                              LoadStage, ComputeStage), ComputeStage)
\* What Synchronize inserts so that FINISH comes after the loads and stores.
WaitForAllOp(q) ==
    CommitPendingPop(
        DepPopOp(DepPopOp(DepPushOp(DepPushOp(q, StoreStage, ComputeStage),
                                    LoadStage, ComputeStage),
                          StoreStage, ComputeStage),
                 LoadStage, ComputeStage),
        ComputeStage)

\* The loop of RewriteForceSerial: neighbours of different stages that have a
\* link are chained by a token, every other flag between neighbours is
\* cleared.  The first instruction keeps its pops, the last its pushes.
Chained(a, b) == <<GetPipelineStageAll(a), GetPipelineStageAll(b)>> \in Link
ChainInsns(s) ==
    [i \in DOMAIN s |->
        LET up   == i > 1 /\ Chained(s[i - 1], s[i])
            down == i < Len(s) /\ Chained(s[i], s[i + 1])
            ofUp   == GetPipelineStageAll(s[i - 1]) < GetPipelineStageAll(s[i])
            ofDown == GetPipelineStageAll(s[i]) < GetPipelineStageAll(s[i + 1])
        IN  [s[i] EXCEPT !.popPrev  = IF i = 1 THEN @ ELSE up /\ ofUp,
                         !.popNext  = IF i = 1 THEN @ ELSE up /\ ~ofUp,
                         !.pushPrev = IF i = Len(s) THEN @ ELSE down /\ ~ofDown,
                         !.pushNext = IF i = Len(s) THEN @ ELSE down /\ ofDown]]

\* RewriteForceSerial: chain the instructions, then send a token around
\* compute -> load -> compute before the FINISH.
RewriteForceSerial(q) ==
    LET s == SubSeq(ChainInsns(q.insns), 1, Len(q.insns))   \* as a tuple, for TLC
        n == Len(s)
        storeLast == n > 1 /\ GetPipelineStageAll(s[n]) = StoreStage
        q0 == [q EXCEPT !.insns = s]
        q1 == IF storeLast
              THEN LET marked == [q0 EXCEPT !.insns[n].pushPrev = TRUE] IN
                   CommitPendingPop(IF marked.popNext[ComputeStage] THEN marked
                                    ELSE DepPopOp(marked, StoreStage, ComputeStage),
                                    ComputeStage)
              ELSE [q0 EXCEPT !.popNext[ComputeStage] = FALSE]
        q2 == DepPopOp(DepPushOp(q1, ComputeStage, LoadStage), LoadStage, ComputeStage)
        q3 == IF q2.popNext[LoadStage] THEN q2 ELSE DepPopOp(q2, ComputeStage, LoadStage)
    IN  CommitPendingPop(DepPushOp(CommitPendingPop(q3, LoadStage), LoadStage, ComputeStage),
                         ComputeStage)

\* Synchronize up to VTADeviceRun: the stream with its FINISH.
Sealed(q) == Create(IF serial THEN RewriteForceSerial(q) ELSE WaitForAllOp(q),
                    ComputeStage, "FINISH", "UOP")

--------------------------------------------------------------------------------
(* The calls, for the history: the work a stage is given and the tokens it *)
(* pushes and pops, in the order the kernel asks for them.                 *)

Work(stage)    == [stage |-> stage, kind |-> "work", link |-> <<0, 0>>]
Push(from, to) == [stage |-> from,  kind |-> "push", link |-> <<from, to>>]
Pop(from, to)  == [stage |-> to,    kind |-> "pop",  link |-> <<from, to>>]

SyncCalls ==
    IF serial THEN <<>>
    ELSE <<Push(3, 2), Push(1, 2), Pop(3, 2), Pop(1, 2), Work(ComputeStage)>>

Owed == owed[<<1, 2>>] + owed[<<2, 1>>] + owed[<<2, 3>>] + owed[<<3, 2>>]

HostInit ==
    /\ iq = EmptyQueue
    /\ status = "host"
    /\ serial = FALSE
    /\ owed = [l \in Link |-> 0]
    /\ calls = <<>>
    /\ budget \in [calls : {MaxCalls}, syncs : {MaxSyncs}, limit : Limits]

\* The CHECKs of Synchronize that can fail: a pop left without an instruction,
\* a stream longer than a transfer.
SyncChecks(q) == ~PendingPop(q) /\ Len(q.insns) <= budget.limit

\* Synchronize: seal the stream and enter VTADeviceRun, or abort.
Launch(q, cs) ==
    /\ iq' = Sealed(q)
    /\ calls' = cs \o SyncCalls
    /\ status' = IF SyncChecks(Sealed(q)) THEN "device" ELSE "aborted"

\* CheckInsnOverFlow, at the end of the calls that create instructions.
CheckInsnOverFlow(q, cs) ==
    IF Len(q.insns) + 6 > budget.limit
    THEN Launch(q, cs)
    ELSE iq' = q /\ calls' = cs /\ UNCHANGED status

Spend == /\ status = "host" /\ budget.calls > 0
         /\ budget' = [budget EXCEPT !.calls = @ - 1]

\* A kernel that keeps its tokens balanced needs a call to pop each of them.
Room(n) == Balanced => Owed + n <= budget.calls

LoadBuffer2D(mem) ==
    /\ Spend /\ Room(1)
    /\ LET st == GetMemPipelineStage(mem) IN
       CheckInsnOverFlow(Create(iq, st, "LOAD", mem), Append(calls, Work(st)))
    /\ UNCHANGED <<serial, owed>>

StoreBuffer2D ==
    /\ Spend /\ Room(1)
    /\ CheckInsnOverFlow(Create(iq, StoreStage, "STORE", "OUT"), Append(calls, Work(StoreStage)))
    /\ UNCHANGED <<serial, owed>>

\* PushGEMMOp and PushALUOp: a load of the micro-ops if they are not cached,
\* then the operation.
PushOp(op, uopLoad) ==
    /\ Spend /\ Room(1)
    /\ LET q == IF uopLoad THEN Create(iq, ComputeStage, "LOAD", "UOP") ELSE iq IN
       CheckInsnOverFlow(Create(q, ComputeStage, op, "UOP"), Append(calls, Work(ComputeStage)))
    /\ UNCHANGED <<serial, owed>>

DepPush(from, to) ==
    /\ Spend /\ Room(2)
    /\ iq' = DepPushOp(iq, from, to)
    /\ calls' = Append(calls, Push(from, to))
    /\ owed' = [owed EXCEPT ![<<from, to>>] = @ + 1]
    /\ UNCHANGED <<status, serial>>

\* A kernel pops only what it has pushed.
DepPop(from, to) ==
    /\ Spend /\ owed[<<from, to>>] > 0
    /\ iq' = DepPopOp(iq, from, to)
    /\ calls' = Append(calls, Pop(from, to))
    /\ owed' = [owed EXCEPT ![<<from, to>>] = @ - 1]
    /\ UNCHANGED <<status, serial>>

Synchronize ==
    /\ status = "host" /\ budget.syncs > 0
    /\ Balanced => Owed = 0
    /\ Launch(iq, calls)
    /\ budget' = [budget EXCEPT !.syncs = @ - 1]
    /\ UNCHANGED <<serial, owed>>

\* VTASetDebugMode, between the calls of a kernel.
SetDebugMode(mode) ==
    /\ Spend /\ Room(1) /\ mode # serial
    /\ serial' = mode
    /\ UNCHANGED <<iq, status, owed, calls>>

\* VTADeviceRun returns 0: both queues are reset.  Reset clears the buffer
\* and leaves pending_pop_* as they are.
DeviceReturns ==
    /\ status = "device"
    /\ iq' = [iq EXCEPT !.insns = <<>>]
    /\ calls' = <<>>
    /\ status' = "host"
    /\ UNCHANGED <<serial, owed, budget>>

HostCall ==
    \/ \E mem \in LoadMems : LoadBuffer2D(mem)
    \/ StoreBuffer2D
    \/ \E op \in Ops, uopLoad \in UopLoads : PushOp(op, uopLoad)
    \/ \E l \in Link : DepPush(l[1], l[2]) \/ DepPop(l[1], l[2])
    \/ \E mode \in SerialModes : SetDebugMode(mode)
    \/ Synchronize

HostNext == HostCall \/ DeviceReturns
HostSpec == HostInit /\ [][HostNext]_hostVars

--------------------------------------------------------------------------------
\* The limit cannot be reached by the calls of these kernels: two instructions
\* each at most, and the eight that wait and finish.  AutoSync never cuts a batch.
NeverCut == budget.limit >= 2 * MaxCalls + 8

\* A kernel whose tokens balance gets a stream the cores can run to its end
\* (VtaInsn!WellFormed), however its pushes were merged, its pops deferred
\* and its no-ops inserted.  It is the hypothesis the simulator's termination
\* rests on.
LaunchedStreamsRun == status = "device" /\ ~serial => WellFormed(iq.insns)

\* The runtime's idea of an instruction's stage and the simulator's idea of
\* its core agree, no-ops included (GetPipelineStageAll and GetCoreType are
\* separate code), and no instruction carries a flag its core has no queue for,
\* whatever RewriteForceSerial made of it.
StageIsCore ==
    \A i \in DOMAIN iq.insns :
        LET insn == iq.insns[i] IN
        insn.op # "FINISH" =>
            GetCoreType(insn) = <<"LOAD", "GEMM", "STORE">>[GetPipelineStageAll(insn)]

NoNullQueue == \A i \in DOMAIN iq.insns : FlagsHaveQueues(iq.insns[i])
RoutedAlike == StageIsCore /\ NoNullQueue

\* The tokens the batch moves are the ones the calls asked for, link by link:
\* merging loses none and the pops still pending are the rest.
LinkOf == [l2g |-> <<1, 2>>, g2l |-> <<2, 1>>, s2g |-> <<3, 2>>, g2s |-> <<2, 3>>]
Asked(kind, l) == Cardinality({i \in DOMAIN calls : calls[i].kind = kind /\ calls[i].link = l})
StillPending(l) ==
    IF (l[1] < l[2] /\ iq.popPrev[l[2]]) \/ (l[1] > l[2] /\ iq.popNext[l[2]]) THEN 1 ELSE 0
TokensAsAsked ==
    ~serial =>
      \A q \in Queue :
        LET l == LinkOf[q] IN
        /\ Cardinality(Pushers(iq.insns, q)) = Asked("push", l)
        /\ Cardinality(Poppers(iq.insns, q)) + StillPending(l) = Asked("pop", l)

================================================================================
