--------------------------------- MODULE Tlpp ----------------------------------
(***************************************************************************)
(* The task-level pipeline simulator (src/sim/sim_tlpp.cc) as the          *)
(* functional simulator's Device::Run drives it: the instructions of a     *)
(* stream are dealt to three cores, and one thread runs a core until it is *)
(* blocked on a dependency token, then the next one, then whatever cores   *)
(* the tokens pushed meanwhile have woken, until a FINISH has run.         *)
(*                                                                         *)
(* A core's std::queue holds positions of the stream; they are pushed in   *)
(* stream order, so the queue is the SET of the positions still in it and  *)
(* its front is the least one.                                             *)
(***************************************************************************)
EXTENDS VtaInsn

CONSTANT Streams      \* the instruction streams Device::Run is called with

ASSUME StreamsAssumption == Streams \subseteq Seq(Insn)

\* What the runtime guarantees of the streams it launches
\* (InsnQueue!LaunchedStreamsRun) and some of the properties below need.
StreamsWellFormed == \A s \in Streams : WellFormed(s)

VARIABLES
    stream,    \* the instructions Device::Run was given
    insnq,     \* insnq_array_: positions not yet consumed, per core
    tok,       \* the sizes of l2g_q_, s2g_q_, g2l_q_ and g2s_q_
    event,     \* dep_push_event_: cores to wake
    agenda,    \* the cores TlppSynchronization or EventProcess has yet to run
    done,      \* done_
    running    \* TlppSynchronization is on the stack

vars == <<stream, insnq, tok, event, agenda, done, running>>

NoInsns == [c \in Core |-> {}]
Items(s) == {s[i] : i \in DOMAIN s}
Pending == UNION {insnq[c] : c \in Core}
BackFirst(c) == CHOOSE i \in insnq[c] : \A j \in insnq[c] : i >= j    \* mutant of Front
Front(c) == CHOOSE i \in insnq[c] : \A j \in insnq[c] : i <= j

\* core_start, core_start + 1, core_start + 2 modulo COREMAX.
Rotations == {<<"GEMM", "LOAD", "STORE">>, <<"LOAD", "STORE", "GEMM">>,
              <<"STORE", "GEMM", "LOAD">>}

\* DependencyProcess(before_run = true): every popped queue has a token.
Ready(insn) == \A q \in PopQueues(insn) : tok[q] > 0

\* The tokens after the pops before, and the pushes after, the instruction.
TokSaturated(insn) ==                                                 \* mutant of TokAfter
    [q \in Queue |-> IF q \in PushQueues(insn) THEN 1
                     ELSE IF q \in PopQueues(insn) THEN tok[q] - 1 ELSE tok[q]]
TokAfter(insn) ==
    [q \in Queue |-> LET popped == IF q \in PopQueues(insn) THEN tok[q] - 1 ELSE tok[q]
                     IN  IF q \in PushQueues(insn) THEN popped + 1 ELSE popped]

\* One wake-up per pushed token, push_prev first: a token for the core that
\* pops the queue.
WakesPrevOnly(insn) ==                                                \* mutant of Wakes
    IF insn.pushPrev THEN IF GetCoreType(insn) = "GEMM" THEN <<"LOAD">> ELSE <<"GEMM">>
    ELSE <<>>
Wakes(insn) ==
    LET c == GetCoreType(insn) IN
    (IF insn.pushPrev THEN IF c = "GEMM" THEN <<"LOAD">> ELSE <<"GEMM">> ELSE <<>>)
    \o (IF insn.pushNext THEN IF c = "GEMM" THEN <<"STORE">> ELSE <<"GEMM">> ELSE <<>>)

Init ==
    /\ stream = <<>>
    /\ insnq = NoInsns
    /\ tok = [q \in Queue |-> 0]
    /\ event = <<>>
    /\ agenda = <<>>
    /\ done = FALSE
    /\ running = FALSE

\* Device::Run: push every instruction to the queue of its core, then enter
\* TlppSynchronization and draw the core to start with.
Run(s) ==
    /\ ~running
    /\ running' = TRUE
    /\ stream' = s
    /\ insnq' = [c \in Core |-> insnq[c] \cup {i \in DOMAIN s : GetCoreType(s[i]) = c}]
    /\ done' = FALSE
    /\ agenda' \in Rotations
    /\ UNCHANGED <<tok, event>>

\* CoreRun, one turn of its loop: the front instruction's tokens are there,
\* it pops them, executes, pushes its own, wakes their receivers, sets done_
\* to whether it was a FINISH, and leaves the queue.
Execute ==
    /\ running /\ agenda # <<>>
    /\ LET c == Head(agenda) IN
       /\ insnq[c] # {}
       /\ Ready(stream[Front(c)])
       /\ tok' = TokAfter(stream[Front(c)])
       /\ event' = event \o Wakes(stream[Front(c)])
       /\ done' = (stream[Front(c)].op = "FINISH")
       /\ insnq' = [insnq EXCEPT ![c] = @ \ {Front(c)}]
    /\ UNCHANGED <<stream, agenda, running>>

\* mutant of Yield: the core spins on its token.
YieldSpins ==
    /\ running /\ agenda # <<>>
    /\ LET c == Head(agenda) IN insnq[c] # {} => ~Ready(stream[Front(c)])
    /\ UNCHANGED vars

\* CoreRun returns: the core has nothing to run or must wait for a token.
Yield ==
    /\ running /\ agenda # <<>>
    /\ LET c == Head(agenda) IN insnq[c] # {} => ~Ready(stream[Front(c)])
    /\ agenda' = Tail(agenda)
    /\ UNCHANGED <<stream, insnq, tok, event, done, running>>

\* EventProcess: run the core the oldest wake-up names.
Wake ==
    /\ running /\ agenda = <<>> /\ event # <<>>
    /\ agenda' = <<Head(event)>>
    /\ event' = Tail(event)
    /\ UNCHANGED <<stream, insnq, tok, done, running>>

\* No wake-up left and no FINISH last: around the do-while loop again.
Rescan ==
    /\ running /\ agenda = <<>> /\ event = <<>> /\ ~done
    /\ agenda' \in Rotations
    /\ UNCHANGED <<stream, insnq, tok, event, done, running>>

\* mutant of Return: done_ is tested before the wake-ups are processed.
ReturnAtDone ==
    /\ running /\ agenda = <<>> /\ done
    /\ running' = FALSE
    /\ done' = FALSE
    /\ insnq' = NoInsns
    /\ UNCHANGED <<stream, tok, event, agenda>>

\* TlppSynchronization returns, after Clear has dropped what is still queued.
\* The token queues and the event queue are not cleared.
Return ==
    /\ running /\ agenda = <<>> /\ event = <<>> /\ done
    /\ running' = FALSE
    /\ done' = FALSE
    /\ insnq' = NoInsns
    /\ UNCHANGED <<stream, tok, event, agenda>>

Step == Execute \/ Yield \/ Wake \/ Rescan \/ Return
Next == (\E s \in Streams : Run(s)) \/ Step

\* The simulator is the calling thread itself, so it runs as long as it can;
\* whether Device::Run is called is up to the caller.
Fairness == WF_vars(Step)
Spec == Init /\ [][Next]_vars /\ Fairness

--------------------------------------------------------------------------------
TypeOK ==
    /\ stream \in Seq(Insn)
    /\ insnq \in [Core -> SUBSET (DOMAIN stream)]
    /\ tok \in [Queue -> Nat]
    /\ event \in Seq(Core)
    /\ agenda \in Seq(Core)
    /\ done \in BOOLEAN
    /\ running \in BOOLEAN

\* Each core executes its instructions in stream order (the pipeline stage's
\* own order is never changed by the token waits of CoreRun): what follows a
\* waiting instruction on its core is waiting too.
InOrder ==
    running =>
      \A c \in Core : \A i \in insnq[c], j \in DOMAIN stream :
          /\ GetCoreType(stream[i]) = c
          /\ GetCoreType(stream[j]) = c /\ j > i => j \in insnq[c]

\* A queue holds exactly the tokens pushed and not yet popped, by the
\* instructions of this run that have executed: a token is neither lost nor
\* duplicated, and none is left over from an earlier run.
TokenAccounting ==
    \A q \in Queue :
        tok[q] + Cardinality(Poppers(stream, q) \ Pending)
               = Cardinality(Pushers(stream, q) \ Pending)

\* On a well-formed stream the three cores never wait for each other: as long
\* as an instruction is left, some core's front instruction has its tokens
\* (DependencyProcess succeeds for it), so the do-while loop of
\* TlppSynchronization progresses.
CanRun(c) == insnq[c] # {} /\ Ready(stream[Front(c)])
SomeCoreCanRun == running /\ Pending # {} => \E c \in Core : CanRun(c)
NoStuck == WellFormed(stream) => SomeCoreCanRun

\* No wake-up is lost: a core whose front instruction can run is due to be
\* run, by the scan in progress or by an event.
NoMissedWake ==
    running => \A c \in Core : CanRun(c) => c \in Items(agenda) \cup Items(event)

\* One scan and the wake-ups it causes run a whole well-formed stream: the
\* do-while loop of TlppSynchronization never goes around a second time.
ScanOnce == running /\ WellFormed(stream) /\ agenda = <<>> /\ event = <<>> => done

\* When FINISH has run every other instruction has: done_ cannot be
\* overwritten by a straggler, and Clear has nothing to drop.
FinishLast == running /\ Len(stream) \notin Pending => Pending = {}

\* Leaving TlppSynchronization drops no instruction and leaves no token and
\* no wake-up for the next run to trip over.
CleanReturn ==
    [][running /\ ~running' => /\ Pending = {}
                               /\ \A q \in Queue : tok[q] = 0
                               /\ event = <<>>]_vars

\* Every run of a well-formed stream ends.
RunTerminates == running /\ WellFormed(stream) ~> ~running
================================================================================
