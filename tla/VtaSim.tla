--------------------------------- MODULE VtaSim --------------------------------
(***************************************************************************)
(* The runtime on the functional simulator: InsnQueue's VTADeviceRun calls *)
(* Device::Run of src/sim/sim_driver.cc, which hands the stream to Tlpp    *)
(* and returns when TlppSynchronization does.                              *)
(***************************************************************************)
EXTENDS InsnQueue

VARIABLES stream, insnq, tok, event, agenda, done, running

simVars == <<stream, insnq, tok, event, agenda, done, running>>
allVars == <<hostVars, simVars>>

Sim == INSTANCE Tlpp WITH Streams <- Seq(Insn)

Init == HostInit /\ Sim!Init

\* An API call; one that synchronizes enters Device::Run in the same step.
Call ==
    /\ HostCall
    /\ IF status' = "device" THEN Sim!Run(iq'.insns) ELSE UNCHANGED simVars

DeviceStep ==
    /\ status = "device" /\ running
    /\ Sim!Step
    /\ IF running' THEN UNCHANGED hostVars ELSE DeviceReturns

Next == Call \/ DeviceStep
Spec == Init /\ [][Next]_allVars /\ WF_allVars(DeviceStep)

--------------------------------------------------------------------------------
\* The instructions of the batch that have executed.
Executed == IF running THEN DOMAIN stream \ Sim!Pending ELSE {}

\* What an instruction stands for: the tokens it moves, and a call for work
\* unless it is a no-op or loads micro-ops.
IsWork(insn) == ~insn.noop /\ ~(insn.op = "LOAD" /\ insn.mem = "UOP")
Flag == {"popPrev", "popNext", "pushPrev", "pushNext"}
StandsFor(insn) == {f \in Flag : insn[f]} \cup {w \in {"work"} : IsWork(insn)}
CoreOf == <<"LOAD", "GEMM", "STORE">>
Done(s) == LET mine == {i \in Executed : GetCoreType(stream[i]) = CoreOf[s]} IN
           Cardinality(UNION {{i} \X StandsFor(stream[i]) : i \in mine})
QueueOf(l) == CHOOSE q \in Queue : LinkOf[q] = l

\* Of the calls of a stage the first are done, as many as the instructions that
\* have executed stand for.
Asking(k) == [stage |-> calls[k].stage, at |-> k, kind |-> calls[k].kind, link |-> calls[k].link]
CallsBefore(k) == {j \in 1..k : calls[j].stage = calls[k].stage}
CallsMade == {Asking(k) : k \in DOMAIN calls}
CallsDone == LET sofar == [s \in Stage |-> Done(s)] IN
             {Asking(k) : k \in {j \in DOMAIN calls : Cardinality(CallsBefore(j)) <= sofar[calls[j].stage]}}
TokensHeld == [l \in Link |-> tok[QueueOf(l)]]

\* The simulated device, seen through the calls its instructions stand for,
\* is the token pipeline the API promises: every stage does what it was asked
\* in the order it was asked, waits for the tokens it was told to wait for,
\* and Synchronize returns only when all is done; of a kernel that AutoSync
\* cuts too.
Promise == INSTANCE TokenPipeline WITH ops <- CallsMade, did <- CallsDone, held <- TokensHeld
RefinesTokenPipeline == Promise!Spec

\* Every Synchronize returns ("if instruction is FINISH set done flag", which
\* ends the loop): of a batch that is not cut.  After a cut, FINISH can run
\* before another instruction, which resets the flag for good.
EverySyncReturns == status = "device" ~> status # "device"
SyncReturns == NeverCut /\ status = "device" ~> status # "device"

\* When AutoSync cuts a kernel in the middle, the batch leaves tokens in the
\* queues and pops without a push in its stream; the cores still never wait
\* for each other, no wake-up is lost and no core reorders its instructions.
CutStreamsProgress == Sim!SomeCoreCanRun /\ Sim!NoMissedWake /\ Sim!InOrder

\* "This will issue finish after last store finishes" (runtime.cc:1112): of a
\* batch that is not cut; a token left by one that is can stand in for the last.
FinishAfterLastStore ==
    NeverCut /\ running /\ Len(stream) \in Executed =>
        \A i \in DOMAIN stream : stream[i].op = "STORE" => i \in Executed
================================================================================
