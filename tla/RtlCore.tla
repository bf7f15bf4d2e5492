-------------------------------- MODULE RtlCore --------------------------------
(***************************************************************************)
(* The RTL core (chisel core/Core.scala): fetch, the load, compute and     *)
(* store stages with their current-instruction registers and dependency    *)
(* semaphores, and the launch bit of the control registers, clocked        *)
(* together.  A cycle is one step; what the rest of the design may do in   *)
(* it (accept a read command, deliver an instruction, finish a stage's     *)
(* work, write the launch bit) is the input "in".                          *)
(***************************************************************************)
EXTENDS RtlFetch, SequencesExt

CONSTANTS
    Streams,      \* bound: the streams the host launches
    SemMax,       \* the largest value of a semaphore, 255
    MaxLaunches   \* bound: launches

ASSUME RtlCoreAssumption ==
    Streams \subseteq Seq(Insn) /\ SemMax \in Nat \ {0} /\ MaxLaunches \in Nat

VARIABLES
    cur,         \* CurrentInstBuffer, per stage: a position, 0 when invalid
    state,       \* sIdle, sSync or sExe, per stage
    sem,         \* the four semaphores, named as the simulator's queues
    finish,      \* RegNext(compute.io.finish)
    launch,      \* bit 0 of control register 0
    launchLast,  \* RegNext(io.launch)
    ran,         \* history: the positions each stage has completed, in order
    launches     \* launches so far

stageVars == <<cur, state, sem>>
vars == <<fetchVars, stageVars, finish, launch, launchLast, ran, launches>>

\* The inputs that make a difference in the present state.
Inputs == [host : {<<>>} \cup {s \in Streams : ~launch /\ launches < MaxLaunches},
           cmd  : IF dma.state = "command" THEN BOOLEAN ELSE {FALSE},
           beat : IF dma.state = "receive" THEN BOOLEAN ELSE {FALSE},
           done : SUBSET {c \in Core : state[c] = "exe"}]

--------------------------------------------------------------------------------
(* The stages.  Each pops and pushes the semaphores its dependency flags   *)
(* name: load and store have one neighbour, compute two.                   *)

Waits(insn) ==
    CASE Dispatch(insn) = "LOAD"  -> {q \in {"g2l"} : insn.popNext}
      [] Dispatch(insn) = "STORE" -> {q \in {"g2s"} : insn.popPrev}
      [] OTHER -> {q \in {"l2g"} : insn.popPrev} \cup {q \in {"s2g"} : insn.popNext}
Posts(insn) ==
    CASE Dispatch(insn) = "LOAD"  -> {q \in {"l2g"} : insn.pushNext}
      [] Dispatch(insn) = "STORE" -> {q \in {"s2g"} : insn.pushPrev}
      [] OTHER -> {q \in {"g2l"} : insn.pushPrev} \cup {q \in {"g2s"} : insn.pushNext}

\* isSync: a load or store of size zero only moves tokens.
IsSync(insn) == insn.op \in {"LOAD", "STORE"} /\ insn.noop

\* start: the current instruction is there and its tokens are.
StartsOnOne(c) ==                                               \* mutant of Starts
    /\ state[c] = "idle" /\ cur[c] # 0
    /\ Waits(stream[cur[c]]) = {} \/ \E q \in Waits(stream[cur[c]]) : sem[q] > 0
Starts(c) ==
    /\ state[c] = "idle" /\ cur[c] # 0
    /\ \A q \in Waits(stream[cur[c]]) : sem[q] > 0

\* The instruction completes: at once for a no-op, in the first cycle of sExe
\* for FINISH, else when the datapath is done.
DatapathDone(c, in) == c \in in.done \/ stream[cur[c]].op = "FINISH"
Completes(c, in) == state[c] = "sync" \/ (state[c] = "exe" /\ DatapathDone(c, in))

\* A current register accepts when it is empty or being vacated.
TakesFull(c, in) == next[c] # 0 /\ (cur[c] = 0 \/ state[c] = "exe")   \* mutant of Takes
Takes(c, in) == next[c] # 0 /\ (cur[c] = 0 \/ Completes(c, in))

SPost(q, in) == \E c \in Core : Completes(c, in) /\ q \in Posts(stream[cur[c]])
SWait(q) == \E c \in Core : Starts(c) /\ q \in Waits(stream[cur[c]])

\* Semaphore: it saturates, and a post with a wait leaves it alone.
Semaphore(q, in) ==
    CASE SPost(q, in) /\ ~SWait(q) /\ sem[q] # SemMax -> sem[q] + 1
      [] ~SPost(q, in) /\ SWait(q) /\ sem[q] # 0      -> sem[q] - 1
      [] OTHER                                        -> sem[q]

StageTick(in) ==
    /\ state' = [c \in Core |->
                   IF Starts(c) THEN IF IsSync(stream[cur[c]]) THEN "sync" ELSE "exe"
                   ELSE IF Completes(c, in) THEN "idle" ELSE state[c]]
    /\ cur' = [c \in Core |-> IF Takes(c, in) THEN next[c]
                              ELSE IF Completes(c, in) THEN 0 ELSE cur[c]]
    /\ sem' = [q \in Queue |-> Semaphore(q, in)]
    /\ finish' = (state["GEMM"] = "exe" /\ stream[cur["GEMM"]].op = "FINISH")

--------------------------------------------------------------------------------
Init ==
    /\ FetchInit
    /\ cur = [c \in Core |-> 0]
    /\ state = [c \in Core |-> "idle"]
    /\ sem = [q \in Queue |-> 0]
    /\ finish = FALSE /\ launch = FALSE /\ launchLast = FALSE
    /\ ran = [c \in Core |-> <<>>]
    /\ launches = 0

\* The host writes the launch bit, the stream being in DRAM, when it reads the
\* bit as clear; the device's finish clears it and has priority.
HostWrites(in) == in.host # <<>> /\ ~launch /\ ~finish
LaunchBit(in) ==
    /\ launch' = ((launch \/ HostWrites(in)) /\ ~finish)
    /\ launchLast' = launch
    /\ stream' = IF HostWrites(in) THEN in.host ELSE stream
    /\ launches' = IF HostWrites(in) THEN launches + 1 ELSE launches

Cycle(in) ==
    /\ LaunchBit(in)
    /\ IF launch /\ ~launchLast THEN FetchLaunch
       ELSE FetchTick(in, {c \in Core : Takes(c, in)})
    /\ StageTick(in)
    /\ ran' = [c \in Core |-> IF HostWrites(in) THEN <<>>
                              ELSE ran[c] \o OneIf(Completes(c, in), cur[c])]

Next == \E in \in Inputs : Cycle(in)

\* The clock ticks, DRAM answers, and a datapath finishes what it has started.
Fairness ==
    /\ WF_vars(Next)
    /\ WF_vars(\E in \in Inputs : dma.state = "command" /\ in.cmd /\ Cycle(in))
    /\ WF_vars(\E in \in Inputs : dma.state = "receive" /\ InstructionWrite(in) /\ Cycle(in))
    /\ \A c \in Core : WF_vars(\E in \in Inputs : state[c] = "exe" /\ c \in in.done /\ Cycle(in))
Spec == Init /\ [][Next]_vars /\ Fairness

--------------------------------------------------------------------------------
Running == launch /\ launchLast
Started(c) == Range(ran[c]) \cup (IF state[c] = "idle" THEN {} ELSE {cur[c]})

\* No slot is lost or given twice: each used slot is in exactly one place, and
\* the slots a burst has reserved and not yet filled are there to be taken, so
\* a burst under way never waits for a read.
Place == Core \cup {"free", "read"}
SlotsAt(p) ==
    CASE p = "free" -> freeQ
      [] p = "read" -> OneIf(read # NoRead, read.slot)
      [] OTHER      -> addrQ[p]
Unfilled == CASE dma.state = "receive" -> dma.left
              [] dma.state = "command" -> dma.selected
              [] OTHER                 -> 0
SlotsConserved ==
    /\ \A s \in Slot : s < virgin <=> \E p \in Place : \E i \in DOMAIN SlotsAt(p) : SlotsAt(p)[i] = s
    /\ \A p, o \in Place : \A i \in DOMAIN SlotsAt(p), j \in DOMAIN SlotsAt(o) :
          SlotsAt(p)[i] = SlotsAt(o)[j] => p = o /\ i = j
    /\ Len(freeQ) + (Slots - virgin) = freeCount + Unfilled

\* The assertions of FetchInstMemCore: no unknown instruction, no read request
\* without an address.
AssertionsHold ==
    /\ dma.state = "receive" => Target # "unknown"
    /\ reqQ # <<>> => addrQ[Head(reqQ)] # <<>>
FetchMemoryConsistent == SlotsConserved /\ AssertionsHold

\* Each stage gets its instructions in stream order and exactly once: what it
\* has completed, its current and next registers, the read for it in progress
\* and its addresses are, one after the other, all that was received for it.
Line(c) == ran[c] \o OneIf(cur[c] # 0, cur[c]) \o OneIf(next[c] # 0, next[c])
           \o OneIf(read.client = c, read.data) \o [i \in DOMAIN addrQ[c] |-> mem[addrQ[c][i]]]
DispatchedInOrder ==
    Running => \A c \in Core :
        /\ \A i, j \in DOMAIN Line(c) : i < j => Line(c)[i] < Line(c)[j]
        /\ Range(Line(c)) = {i \in 1..Received : Dispatch(stream[i]) = c}

\* When the device reports that it has finished, it has: nothing is running or
\* waiting anywhere in the core.
FinishMeansIdle ==
    finish => /\ dma.state = "idle"
              /\ \A c \in Core : state[c] = "idle" /\ cur[c] = 0 /\ next[c] = 0 /\ addrQ[c] = <<>>
              /\ \A q \in Queue : sem[q] = 0

\* Every launch is followed by the finish that clears the launch bit, whatever
\* fills the shared instruction memory.
LaunchFinishes == launch ~> ~launch

\* What the instruction at i asks of its stage: pops, then work, then pushes.
Pops(i) == {[stage |-> Dispatch(stream[i]), at |-> 3 * i, kind |-> "pop", link |-> q] :
              q \in Waits(stream[i])}
Works(i) == {w \in {[stage |-> Dispatch(stream[i]), at |-> 3 * i + 1, kind |-> "work", link |-> "none"]} :
               ~IsSync(stream[i])}
Pushes(i) == {[stage |-> Dispatch(stream[i]), at |-> 3 * i + 2, kind |-> "push", link |-> q] :
                q \in Posts(stream[i])}
Calls == UNION {Pops(i) \cup Works(i) \cup Pushes(i) : i \in DOMAIN stream}
CallsDone == UNION {(UNION {Pops(i) : i \in Started(c)}) \cup (UNION {Works(i) \cup Pushes(i) : i \in Range(ran[c])}) :
                      c \in Core}
Asked == IF launch THEN Calls ELSE {}
Answered == IF launch THEN CallsDone ELSE {}

\* The RTL is the token pipeline the API promises, as the functional simulator
\* is: every stage does its pops, its work and its pushes in stream order and
\* finds the tokens it pops, and the finish comes when every stage is done.
Promise == INSTANCE TokenPipeline WITH Link <- Queue, ops <- Asked, did <- Answered, held <- sem
RefinesTokenPipeline == Promise!Spec
================================================================================
