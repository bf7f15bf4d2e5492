---------------------------------- MODULE Tsim ----------------------------------
(***************************************************************************)
(* The cycle simulation (src/tsim, src/dpi, hardware/dpi): the host thread *)
(* runs the driver; the thread of VTADPISim turns the clock.  They share   *)
(* SimDevice's flags and HostDevice's queues; VTAHostDPIToAXI takes the    *)
(* host's accesses to the control registers (VCR), which start the core.   *)
(*                                                                         *)
(* VTAHostDPI.v has one clocked block set its outputs from variables that  *)
(* another sets by calling HostDPI: the model takes the order in which the *)
(* call comes first.  With the other a read would be executed twice.       *)
(* Registers that the driver only zeroes, and 18 of the 20 counters, are   *)
(* left out; so is the reset.                                              *)
(***************************************************************************)
EXTENDS TsimMem, FiniteSets

CONSTANTS
    WaitCycles,   \* wait_cycles of VTADeviceRun
    MaxRuns       \* bound: calls of VTADeviceRun

ASSUME TsimAssumption == WaitCycles \in Nat /\ MaxRuns \in Nat

VARIABLES
    pc,        \* where the host thread is
    run,       \* calls of VTADeviceRun so far
    polls,     \* WaitForCompletion's i
    expired,   \* some call stopped polling before it saw the finish bit
    prof,      \* Profiler: the read beats summed up
    cleared,   \* runs at the last ClearAll
    simWait, simExit,   \* SimDevice
    reqs, answers,      \* HostDevice: req_ and resp_
    sim,       \* the simulator thread: "none", "run", "held" in the inner loop, "ended"
    conv,      \* VTAHostDPIToAXI: its state, the latched request, the request
               \* VTAHostDPI.v shows, the VCR's read data
    reg,       \* VCR: control, instruction address, read beats
    launchBefore   \* last cycle's launch

host == <<pc, run, polls, expired, prof, cleared>>
queues == <<simWait, simExit, reqs, answers>>
hardware == <<memPath, conv, reg, launchBefore>>
vars == <<dram, host, queues, sim, hardware>>

NoReq == [op |-> "none", addr |-> "none", value |-> 0]
Base(r) == 1 + (r - 1) * AreaWords
Source1(r) == Base(r)..Base(r) + Beats * Blk - 1

Init ==
    /\ MemInit
    /\ dram = [a \in 1..MaxRuns * AreaWords |-> 0]
    /\ pc = "new" /\ run = 0 /\ polls = 0 /\ expired = FALSE /\ prof = 0 /\ cleared = 0
    /\ simWait = FALSE /\ simExit = FALSE /\ reqs = <<>> /\ answers = <<>>
    /\ sim = "none"
    /\ conv = [state |-> "idle", req |-> NoReq, shown |-> NoReq, rdata |-> 0]
    /\ reg = [ctrl |-> 0, base |-> 0, beats |-> 0] /\ launchBefore = FALSE

--------------------------------------------------------------------------------
(* The host thread.                                                        *)

Goto(from, to) == pc = from /\ pc' = to
SameRun == UNCHANGED <<run, polls, expired, prof, cleared>>

\* DPILoader::Init
SimLaunch ==
    /\ Goto("new", "launched") /\ sim' = "run"
    /\ SameRun /\ UNCHANGED <<dram, queues, hardware>>
SetWait(from, to, value) ==
    /\ Goto(from, to) /\ simWait' = value
    /\ SameRun /\ UNCHANGED <<dram, simExit, reqs, answers, sim, hardware>>
InitWaits == SetWait("launched", "idle", TRUE)

\* VTADeviceRun, after the caller has put its data in place.
StartRun ==
    /\ Goto("idle", "resume") /\ run < MaxRuns /\ run' = run + 1
    /\ dram' = [a \in DOMAIN dram |-> IF a \in Source1(run') THEN a ELSE dram[a]]
    /\ UNCHANGED <<polls, expired, prof, cleared, queues, sim, hardware>>
Resumes == SetWait("resume", "base", FALSE)

Push(from, to, op, addr, value) ==
    /\ Goto(from, to)
    /\ reqs' = Append(reqs, [op |-> op, addr |-> addr, value |-> value])
    /\ UNCHANGED <<dram, simWait, simExit, answers, sim, hardware>>
WriteBase == Push("base", "start", "write", "base", Base(run)) /\ SameRun
WriteStart ==
    /\ Push("start", "poll", "write", "ctrl", 1)
    /\ polls' = 0 /\ UNCHANGED <<run, expired, prof, cleared>>
ReadDone ==
    /\ polls < WaitCycles /\ Push("poll", "polled", "read", "ctrl", 0)
    /\ polls' = polls + 1 /\ UNCHANGED <<run, expired, prof, cleared>>
GiveUp ==
    /\ polls = WaitCycles /\ Goto("poll", "counters") /\ expired' = TRUE
    /\ UNCHANGED <<run, polls, prof, cleared, dram, queues, sim, hardware>>
WaitPop == answers # <<>> /\ answers' = Tail(answers)
Polled ==
    /\ WaitPop
    /\ Goto("polled", IF Head(answers) = 2 THEN "counters" ELSE "poll")
    /\ SameRun /\ UNCHANGED <<dram, simWait, simExit, reqs, sim, hardware>>
ReadCounter == Push("counters", "update", "read", "beats", 0) /\ SameRun
UpdateReplaces ==                                            \* mutant of Update
    /\ WaitPop /\ Goto("update", "wait") /\ prof' = Head(answers)
    /\ UNCHANGED <<run, polls, expired, cleared, dram, simWait, simExit, reqs, sim, hardware>>
Update ==
    /\ WaitPop /\ Goto("update", "wait") /\ prof' = prof + Head(answers)
    /\ UNCHANGED <<run, polls, expired, cleared, dram, simWait, simExit, reqs, sim, hardware>>
RunWaits == SetWait("wait", "idle", TRUE)

\* vta.tsim.profiler_clear
ClearAll ==
    /\ Goto("idle", "idle") /\ prof' = 0 /\ cleared' = run
    /\ UNCHANGED <<run, polls, expired, dram, queues, sim, hardware>>

\* ~DPILoader
ExitAsleep == SetWait("idle", "exit", TRUE)                  \* mutant of ExitResumes
ExitResumes == SetWait("idle", "exit", FALSE)
SimFinish ==
    /\ Goto("exit", "join") /\ simExit' = TRUE
    /\ SameRun /\ UNCHANGED <<dram, simWait, reqs, answers, sim, hardware>>
Joined ==
    /\ sim = "ended" /\ Goto("join", "gone")
    /\ SameRun /\ UNCHANGED <<dram, queues, sim, hardware>>

HostStep ==
    \/ SimLaunch \/ InitWaits \/ StartRun \/ Resumes \/ WriteBase \/ WriteStart \/ ReadDone
    \/ GiveUp \/ Polled \/ ReadCounter \/ Update \/ RunWaits \/ ClearAll
    \/ ExitResumes \/ SimFinish \/ Joined

--------------------------------------------------------------------------------
(* The simulator thread.                                                   *)

Deq == conv.state \in {"readAddress", "writeAddress"}

\* TryPopRequest: the front is copied before it is popped.
HostDPI ==
    /\ reqs' = IF Deq /\ reqs # <<>> THEN Tail(reqs) ELSE reqs
    /\ answers' = IF conv.state = "readData" THEN Append(answers, conv.rdata) ELSE answers

Converted ==
    [conv EXCEPT
      !.shown = IF reqs = <<>> THEN NoReq ELSE Head(reqs),
      !.req = IF conv.state = "idle" /\ conv.shown # NoReq THEN conv.shown ELSE @,
      !.rdata = IF conv.state = "readAddress" THEN reg[conv.req.addr] ELSE @,
      !.state = CASE @ = "idle" /\ conv.shown.op = "read" -> "readAddress"
                  [] @ = "idle" /\ conv.shown.op = "write" -> "writeAddress"
                  [] @ = "readAddress" -> "readData"
                  [] @ = "writeAddress" -> "writeData"
                  [] @ = "writeData" -> "writeResponse"
                  [] OTHER -> "idle"]

Launch == reg.ctrl = 1
Registers ==
    LET written == IF conv.state = "writeData" THEN [reg EXCEPT ![conv.req.addr] = conv.req.value] ELSE reg
    IN  [written EXCEPT !.ctrl = IF core.phase = "finished" THEN 2 ELSE @,
                        !.beats = IF core.phase = "finish" THEN vme.beats ELSE @]

\* One turn of VTADPISim's loop: a rising edge of both clocks, and SimDPI.
Clock(ask, take, data) ==
    /\ sim = "run"
    /\ sim' = IF simWait THEN "held" ELSE IF simExit THEN "ended" ELSE "run"
    /\ HostDPI /\ conv' = Converted /\ reg' = Registers /\ launchBefore' = Launch
    /\ MemCycle(ask, take, data, Launch, Launch /\ ~launchBefore, reg.base)
    /\ UNCHANGED <<host, simWait, simExit>>

\* The inner loop, where only sim_clock turns.  It looks at the exit flag only
\* when it has left.
Held ==
    /\ sim = "held"
    /\ sim' = IF simWait THEN "held" ELSE IF simExit THEN "ended" ELSE "run"
    /\ UNCHANGED <<dram, host, queues, hardware>>

SimStep ==
    \/ Held
    \/ \E ask \in SUBSET core.quiet, take \in SUBSET Takers, data \in BOOLEAN : Clock(ask, take, data)

\* No client of the core holds back for ever.
Eager == Clock(core.quiet, Takers, TRUE)

Next == HostStep \/ SimStep
Spec == Init /\ [][Next]_vars /\ WF_vars(HostStep /\ pc # "idle") /\ WF_vars(Held) /\ WF_vars(Eager)

--------------------------------------------------------------------------------
\* Until a call has run out of polls, the one that saw the finish bit finds all
\* its results in memory, and nothing else changed.
DoneMeansWritten ==
    pc \in {"counters", "update", "wait"} /\ ~expired =>
        \A r \in 1..run : \A i \in 0..Beats * Blk - 1 :
            dram[Target(Base(r)) + i] =
                IF i = Beats * Blk - 1 THEN 0 ELSE Base(r) + i

\* The profiler's sum is the read beats of the runs since it was cleared: every
\* read of a register had one answer, and whoever waited found its own.
ProfileAddsUp == pc = "idle" /\ ~expired => prof = (run - cleared) * Beats

\* A call of VTADeviceRun returns and the destructor joins the simulator.
CallsReturn == (pc # "idle") ~> (pc \in {"idle", "gone"})
================================================================================
