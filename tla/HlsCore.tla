--------------------------------- MODULE HlsCore --------------------------------
(***************************************************************************)
(* The HLS accelerator (hardware/xilinx/src/vta.cc), in its two lives.     *)
(*                                                                         *)
(* "board": fetch, load, compute and store are cores of their own on the   *)
(* FPGA, joined by bounded FIFOs and restarting themselves; the host of    *)
(* src/pynq/pynq_driver.cc starts fetch and polls the done register of     *)
(* compute.                                                                *)
(*                                                                         *)
(* "csim": the function vta(), which the HLS tool compiles for a test      *)
(* bench, calls them in rounds, each as long as its instructions find      *)
(* their tokens, until done is set or it has had enough.                   *)
(*                                                                         *)
(* A core does an instruction in steps: it pops a token or two, works, and *)
(* pushes a token or two.                                                  *)
(***************************************************************************)
EXTENDS DataPath

CONSTANTS
    Streams,      \* bound: the streams the host may launch
    DRAM, Uops,   \* DRAM and the micro-ops in it, at the start
    Depth,        \* elements of an SRAM
    InsnDepth,    \* depth of an instruction FIFO
    TokenDepth,   \* depth of a dependency FIFO
    MaxRounds,    \* rounds after which vta() gives up: 1000 in the code
    MaxLaunches,  \* bound: launches
    SleepSuffices \* whether compute starts within the microsecond the host sleeps

ASSUME HlsAssumption ==
    /\ InsnDepth \in Nat \ {0} /\ TokenDepth \in Nat \ {0}
    /\ MaxRounds \in Nat /\ MaxLaunches \in Nat /\ SleepSuffices \in BOOLEAN

VARIABLES
    mode,       \* "board" or "csim"
    host,       \* what VTADeviceRun or vta() is doing
    stream,     \* the instructions in DRAM
    fetched,    \* how many of them fetch has dispatched
    fifo,       \* per core, its instruction queue: positions in stream
    cur,        \* per core, the instruction it works on, 0 if none
    steps,      \* per core, the steps it has still to do
    tok,        \* tokens per dependency queue
    done,       \* the done register of compute
    cleared,    \* whether compute has started an instruction of this launch
    m,          \* the memories
    sim,        \* the memories of the functional simulator, one run ahead
    rounds,     \* exit_counter of vta()
    ran,        \* the instructions of stream that have been done
    launches    \* bound

vars == <<mode, host, stream, fetched, fifo, cur, steps, tok, done, cleared, m, sim, ran, rounds, launches>>

Zeros == [p \in 0..Depth - 1 |-> 0]
Memory == [INP |-> Zeros, WGT |-> Zeros, ACC |-> Zeros, OUT |-> Zeros,
           UOP |-> [p \in 0..Depth - 1 |-> Uops[0]], dram |-> DRAM, uops |-> Uops]

Init ==
    /\ mode \in {"board", "csim"} /\ host = "idle"
    /\ stream = <<>> /\ fetched = 0
    /\ fifo = [c \in Core |-> <<>>] /\ cur = [c \in Core |-> 0] /\ steps = [c \in Core |-> <<>>]
    /\ tok = [q \in Queue |-> 0] /\ done = 0 /\ cleared = FALSE
    /\ m = Memory /\ sim = Memory /\ ran = {} /\ rounds = 0 /\ launches = 0

--------------------------------------------------------------------------------
(* The cores. *)

\* The steps of an instruction, in the order of the code.
Step(do, q) == [do |-> do, q |-> q]
Moves(do, flag, q) == IF flag /\ q # "null" THEN <<Step(do, q)>> ELSE <<>>
\* mutant of Pops: compute reads s2g where it should read l2g.
PopsSwapped(i, c) == Moves("pop", i.popPrev, PopNextQueue[c]) \o Moves("pop", i.popNext, PopPrevQueue[c])
Pops(i, c) == Moves("pop", i.popPrev, PopPrevQueue[c]) \o Moves("pop", i.popNext, PopNextQueue[c])
Pushes(i, c) == Moves("push", i.pushPrev, PushPrevQueue[c]) \o Moves("push", i.pushNext, PushNextQueue[c])
Clears(c) == IF c = "GEMM" THEN <<Step("clear", "null")>> ELSE <<>>

\* mutant of Steps: push before the work.
StepsEager(i, c) == Pops(i, c) \o Pushes(i, c) \o Clears(c) \o <<Step("work", "null")>>
Steps(i, c) == Pops(i, c) \o Clears(c) \o <<Step("work", "null")>> \o Pushes(i, c)

QueueOf(i) ==
    IF i.op = "STORE" THEN "STORE"
    ELSE IF i.op = "LOAD" /\ i.mem \in {"INP", "WGT"} THEN "LOAD" ELSE "GEMM"

Fetch ==
    /\ mode = "board" /\ fetched < Len(stream)
    /\ LET c == QueueOf(stream[fetched + 1]) IN
          /\ Len(fifo[c]) < InsnDepth
          /\ fifo' = [fifo EXCEPT ![c] = Append(@, fetched + 1)]
    /\ fetched' = fetched + 1
    /\ UNCHANGED <<mode, host, stream, cur, steps, tok, done, cleared, m, sim, ran, rounds, launches>>

Take(c) ==
    /\ mode = "board" /\ cur[c] = 0 /\ fifo[c] # <<>>
    /\ cur' = [cur EXCEPT ![c] = Head(fifo[c])]
    /\ steps' = [steps EXCEPT ![c] = Steps(stream[Head(fifo[c])], c)]
    /\ fifo' = [fifo EXCEPT ![c] = Tail(@)]
    /\ UNCHANGED <<mode, host, stream, fetched, tok, done, cleared, m, sim, ran, rounds, launches>>

\* One step of the instruction i; a read of an empty FIFO and a write of a full
\* one wait.
Do(s, i) ==
    /\ tok' = CASE s.do = "pop"  -> [tok EXCEPT ![s.q] = @ - 1]
                [] s.do = "push" -> [tok EXCEPT ![s.q] = @ + 1]
                [] OTHER         -> tok
    /\ done' = CASE s.do = "clear" -> 0
                 [] s.do = "work" /\ i.op = "FINISH" -> 1
                 [] OTHER -> done
    /\ cleared' = (cleared \/ s.do = "clear")
    /\ m' = IF s.do = "work" THEN HlsRun(m, i) ELSE m
CoreStep(c) ==
    /\ mode = "board" /\ cur[c] # 0
    /\ LET s == Head(steps[c]) IN
          /\ s.do = "pop" => tok[s.q] > 0
          /\ s.do = "push" => tok[s.q] < TokenDepth
          /\ Do(s, stream[cur[c]])
    /\ steps' = [steps EXCEPT ![c] = Tail(@)]
    /\ IF Len(steps[c]) = 1 THEN cur' = [cur EXCEPT ![c] = 0] /\ ran' = ran \cup {cur[c]}
       ELSE UNCHANGED <<cur, ran>>
    /\ UNCHANGED <<mode, host, stream, fetched, fifo, sim, rounds, launches>>

--------------------------------------------------------------------------------
(* The host on the board: VTADevice::Run. *)

Simulated(s) == FoldLeft(SimRun, sim, s)

\* The address, count and start registers; then 1 us of sleep.
Start ==
    /\ mode = "board" /\ host = "idle" /\ launches < MaxLaunches
    /\ stream' \in Streams
    /\ fetched' = 0 /\ cleared' = FALSE /\ host' = "asleep"
    /\ launches' = launches + 1 /\ sim' = Simulated(stream') /\ ran' = {}
    /\ UNCHANGED <<mode, fifo, cur, steps, tok, done, m, rounds>>
WakeUp ==
    /\ host = "asleep" /\ (SleepSuffices => cleared)
    /\ host' = "polling"
    /\ UNCHANGED <<mode, stream, fetched, fifo, cur, steps, tok, done, cleared, m, sim, ran, rounds, launches>>
Returns ==
    /\ host = "polling" /\ done = 1
    /\ host' = "idle"
    /\ UNCHANGED <<mode, stream, fetched, fifo, cur, steps, tok, done, cleared, m, sim, ran, rounds, launches>>
\* wait_cycles polls were not enough: Run returns 1, Synchronize throws.
TimesOut ==
    /\ host = "polling" /\ done = 0
    /\ host' = "failed"
    /\ UNCHANGED <<mode, stream, fetched, fifo, cur, steps, tok, done, cleared, m, sim, ran, rounds, launches>>

--------------------------------------------------------------------------------
(* vta(). *)

\* The queues and the memories on the stack are new: what is in them is not known.
Call ==
    /\ mode = "csim" /\ host = "idle" /\ launches < MaxLaunches
    /\ stream' \in Streams /\ fetched' = Len(stream')
    /\ fifo' = [c \in Core |-> SelectSeq([i \in DOMAIN stream' |-> i],
                                         LAMBDA i : QueueOf(stream'[i]) = c)]
    /\ tok' = [q \in Queue |-> 0] /\ done' = 0 /\ rounds' = 0 /\ host' = "LOAD"
    /\ \E x \in {0, 1} : LET any == [p \in DOMAIN Zeros |-> x] IN
          m' = [m EXCEPT !.INP = any, !.WGT = any, !.OUT = any]
    /\ launches' = launches + 1 /\ sim' = Simulated(stream') /\ ran' = {}
    /\ UNCHANGED <<mode, cur, steps, cleared>>

\* mutant of HasTokens: one of the two tokens is enough.
HasAToken(i, c) == Pops(i, c) = <<>> \/ \E s \in Range(Pops(i, c)) : tok[s.q] > 0
HasTokens(i, c) == \A s \in Range(Pops(i, c)) : tok[s.q] > 0
\* mutant of CanRun: the instruction peeked at last is forgotten.
CanRunUnlessLast(c) == Len(fifo[c]) > 1 /\ HasTokens(stream[Head(fifo[c])], c)
CanRun(c) == fifo[c] # <<>> /\ HasTokens(stream[Head(fifo[c])], c)

CallStage(c) ==
    /\ host = c /\ CanRun(c)
    /\ LET i == stream[Head(fifo[c])]
           moved(do, q) == Cardinality({k \in DOMAIN Steps(i, c) : Steps(i, c)[k] = Step(do, q)})
       IN /\ tok' = [q \in Queue |-> tok[q] - moved("pop", q) + moved("push", q)]
          /\ done' = IF c = "GEMM" THEN (IF i.op = "FINISH" THEN 1 ELSE 0) ELSE done
          /\ m' = HlsRun(m, i)
    /\ fifo' = [fifo EXCEPT ![c] = Tail(@)] /\ ran' = ran \cup {Head(fifo[c])}
    /\ UNCHANGED <<mode, host, stream, fetched, cur, steps, cleared, sim, rounds, launches>>
NextStage ==
    /\ host \in Core /\ ~CanRun(host)
    /\ IF host # "STORE" THEN
          host' = (IF host = "LOAD" THEN "GEMM" ELSE "STORE") /\ UNCHANGED rounds
       ELSE IF done = 1 THEN host' = "idle" /\ UNCHANGED rounds
       ELSE /\ rounds' = rounds + 1
            /\ host' = IF rounds' > MaxRounds THEN "gave up" ELSE "LOAD"
    /\ UNCHANGED <<mode, stream, fetched, fifo, cur, steps, tok, done, cleared, m, sim, ran, launches>>

Device == Fetch \/ (\E c \in Core : Take(c) \/ CoreStep(c)) \/ (\E c \in Core : CallStage(c)) \/ NextStage
Host == Start \/ WakeUp \/ Returns \/ TimesOut \/ Call
Next == Device \/ Host

\* The clock of the FPGA ticks for every core; vta() runs on.
Fairness == /\ WF_vars(Fetch) /\ WF_vars(NextStage)
            /\ \A c \in Core : WF_vars(Take(c)) /\ WF_vars(CoreStep(c)) /\ WF_vars(CallStage(c))
Spec == Init /\ [][Next]_vars /\ Fairness

--------------------------------------------------------------------------------
Returned == host = "idle" /\ launches > 0

\* The same bytes: when Run or vta() returns, DRAM is what the functional
\* simulator, one instruction after the other, makes of it; and no token is
\* left for the next launch (the assertion at the end of vta()).
SameResult == Returned => m.dram = sim.dram /\ \A q \in Queue : tok[q] = 0

\* The operators under it: the two ALUs, the rounding shift and the packed
\* fields compute the same and the right thing for every operand.  A fact of the
\* constants alone, looked at before the first launch.
Arithmetic == launches = 0 => AluFacts

\* vta() gives up on the number of rounds, not on the lack of progress: no
\* round of a well-formed stream goes by without an instruction.
EveryRoundRunsSome == mode = "csim" => rounds <= Cardinality(ran)

\* Whatever the host does meanwhile, a launched stream runs to its end.
StreamsRun == (stream # <<>>) ~> (ran = DOMAIN stream)

\* What an instruction asks of its core: its steps but the clearing of done.
Asks(i) ==
    LET c == QueueOf(stream[i])
        s == Steps(stream[i], c)
    IN {[stage |-> c, at |-> 8 * i + k, kind |-> s[k].do, link |-> s[k].q] :
          k \in {j \in DOMAIN s : s[j].do # "clear"}}
StepsDone(c) == {o \in Asks(cur[c]) : o.at - 8 * cur[c] <= Len(Steps(stream[cur[c]], c)) - Len(steps[c])}

\* The cores implement the token pipeline of the API: 0 from Run, or the end of
\* vta(), means that every stage has done all its pops, work and pushes.
Running == host # "idle"
Promise == INSTANCE TokenPipeline WITH
              Link <- Queue, held <- tok,
              ops <- IF Running THEN UNION {Asks(i) : i \in DOMAIN stream} ELSE {},
              did <- IF Running THEN (UNION {Asks(i) : i \in ran})
                                     \cup (UNION {StepsDone(c) : c \in {o \in Core : cur[o] # 0}})
                     ELSE {}
RefinesTokenPipeline == Promise!Spec
================================================================================
