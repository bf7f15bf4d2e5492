-------------------------------- MODULE RtlFetch -------------------------------
(***************************************************************************)
(* The instruction fetch of the RTL core (chisel core/FetchInstMem.scala): *)
(* a burst machine reserves room, reads instructions from DRAM and writes  *)
(* them to a small shared memory; an address queue per stage remembers     *)
(* where; and each stage has one next register, filled through the         *)
(* memory's single port, whose slot is then free again.                    *)
(*                                                                         *)
(* The design is synchronous: an operator with the argument "in" is a wire *)
(* of this cycle, and FetchTick gives every register its next value.  An   *)
(* instruction is its position in the stream; 0 stands for an invalid      *)
(* register.  This is FetchInstMemNarrow; of an instruction's beats only   *)
(* the last one is visible here.                                           *)
(***************************************************************************)
EXTENDS VtaInsn, Integers, FiniteSetsExt

CONSTANTS
    Slots,       \* instQueueEntries: the depth of the instruction memory
    MaxBurst     \* maxBurstInsts: the longest burst, a quarter of it in the code

ASSUME RtlFetchAssumption == Slots \in Nat \ {0} /\ MaxBurst \in 1..Slots

VARIABLES
    stream,      \* the instructions in DRAM, ins_count of them
    dma,         \* the burst machine: [state, remaining, selected, left]
    mem,         \* instMem, per slot
    addrQ,       \* addrQueues: slots, per stage
    freeQ,       \* freeSlots: slots returned by reads
    virgin,      \* virginSlot: slots never used since the launch
    freeCount,   \* slots not yet reserved by a burst
    reqQ,        \* requestQueue: stages whose next register wants filling
    pending,     \* readPending, per stage
    read,        \* the local read in progress (rWait): [client, slot, data]
    next         \* nextData where nextValid, else 0, per stage

fetchVars == <<stream, dma, mem, addrQ, freeQ, virgin, freeCount, reqQ, pending, read, next>>

Slot == 0..(Slots - 1)
NoRead == [client |-> "none", slot |-> 0, data |-> 0]

\* FetchDecode: the stage an instruction is for.
Dispatch(insn) ==
    CASE insn.op = "LOAD" /\ insn.mem \in {"WGT", "INP"}         -> "LOAD"
      [] insn.op = "LOAD" /\ insn.mem \in {"UOP", "ACC", "ACC8"} -> "GEMM"
      [] insn.op = "STORE"                                       -> "STORE"
      [] insn.op \in {"GEMM", "ALU", "FINISH"}                   -> "GEMM"
      [] OTHER                                                   -> "unknown"

--------------------------------------------------------------------------------
(* Wires. *)

\* The burst machine asks for room for wantedInsts.
Wanted == IF dma.remaining > MaxBurst THEN MaxBurst ELSE dma.remaining
Reserve == dma.state = "reserve" /\ freeCount >= Wanted

\* The instruction the burst machine receives next, and where it will go.
Received == Len(stream) - dma.remaining - dma.left
Arriving == Received + 1
Target == Dispatch(stream[Arriving])
AllocationReady == virgin < Slots \/ freeQ # <<>>
AllocatedRecycled == IF freeQ # <<>> THEN Head(freeQ) ELSE virgin   \* mutant of AllocatedSlot
AllocatedSlot == IF virgin < Slots THEN virgin ELSE Head(freeQ)

InstructionWrite(in) ==
    /\ dma.state = "receive" /\ in.beat
    /\ AllocationReady
    /\ Len(addrQ[Target]) < Slots

\* The memory has one port: a read waits for a cycle without a write.
LocalRead(in) == read = NoRead /\ reqQ # <<>> /\ ~InstructionWrite(in)

\* Stages whose next register is empty and not yet being filled; the arbiter
\* prefers load to compute to store.
WantsNext(c) == next[c] = 0 /\ ~pending[c] /\ addrQ[c] # <<>>
Granted ==
    IF Len(reqQ) = 3 THEN {}
    ELSE IF WantsNext("LOAD") THEN {"LOAD"}
    ELSE IF WantsNext("GEMM") THEN {"GEMM"}
    ELSE IF WantsNext("STORE") THEN {"STORE"}
    ELSE {}

Filled(c) == read.client = c
OneIf(b, x) == IF b THEN <<x>> ELSE <<>>

--------------------------------------------------------------------------------
FetchInit ==
    /\ stream = <<>>
    /\ dma = [state |-> "idle", remaining |-> 0, selected |-> 0, left |-> 0]
    /\ mem = [s \in Slot |-> 0]
    /\ addrQ = [c \in Core |-> <<>>]
    /\ freeQ = <<>> /\ virgin = 0 /\ freeCount = Slots
    /\ reqQ = <<>>
    /\ pending = [c \in Core |-> FALSE]
    /\ read = NoRead
    /\ next = [c \in Core |-> 0]

\* The launch pulse resets the queues and starts the burst machine.
FetchLaunch ==
    /\ dma' = [dma EXCEPT !.state = IF stream = <<>> THEN "idle" ELSE "reserve",
                          !.remaining = Len(stream)]
    /\ addrQ' = [c \in Core |-> <<>>]
    /\ freeQ' = <<>> /\ virgin' = 0 /\ freeCount' = Slots
    /\ reqQ' = <<>>
    /\ pending' = [c \in Core |-> FALSE]
    /\ read' = NoRead
    /\ next' = [c \in Core |-> 0]
    /\ UNCHANGED mem

\* dIdle, dReserve, dCommand and dReceive.
DmaTick(in) ==
    dma' = CASE Reserve -> [dma EXCEPT !.state = "command", !.selected = Wanted]
             [] dma.state = "command" /\ in.cmd ->
                  [dma EXCEPT !.state = "receive", !.left = dma.selected,
                              !.remaining = @ - dma.selected]
             [] InstructionWrite(in) ->
                  [dma EXCEPT !.left = @ - 1,
                              !.state = IF dma.left > 1 THEN "receive"
                                        ELSE IF dma.remaining = 0 THEN "idle" ELSE "reserve"]
             [] OTHER -> dma

\* mutant of Returned: the slot of a completed read is not returned.
ReturnedNever == <<>>
Returned == OneIf(read # NoRead, read.slot)

\* Any other cycle; taken are the stages that take their next register.
FetchTick(in, taken) ==
    LET w == InstructionWrite(in)
        r == LocalRead(in)
    IN
    /\ DmaTick(in)
    /\ mem' = IF w THEN [mem EXCEPT ![AllocatedSlot] = Arriving] ELSE mem
    /\ virgin' = IF w /\ virgin < Slots THEN virgin + 1 ELSE virgin
    /\ freeQ' = (IF w /\ virgin = Slots THEN Tail(freeQ) ELSE freeQ) \o Returned
    /\ freeCount' = freeCount - (IF Reserve THEN Wanted ELSE 0) + (IF read # NoRead THEN 1 ELSE 0)
    /\ addrQ' = [c \in Core |-> (IF r /\ Head(reqQ) = c THEN Tail(addrQ[c]) ELSE addrQ[c])
                                \o OneIf(w /\ Target = c, AllocatedSlot)]
    /\ reqQ' = (IF r THEN Tail(reqQ) ELSE reqQ)
               \o (IF Granted = {} THEN <<>> ELSE <<CHOOSE c \in Granted : TRUE>>)
    /\ pending' = [c \in Core |-> ~Filled(c) /\ (pending[c] \/ c \in Granted)]
    /\ read' = IF r THEN [client |-> Head(reqQ), slot |-> Head(addrQ[Head(reqQ)]),
                          data |-> mem[Head(addrQ[Head(reqQ)])]]
               ELSE NoRead
    /\ next' = [c \in Core |-> IF Filled(c) THEN read.data ELSE IF c \in taken THEN 0 ELSE next[c]]
================================================================================
