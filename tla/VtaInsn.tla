-------------------------------- MODULE VtaInsn --------------------------------
(***************************************************************************)
(* The vocabulary every other module shares: the VTA instruction, reduced  *)
(* to the fields that decide where it runs and which dependency tokens it  *)
(* consumes and produces (include/vta/hw_spec.h).  Addresses, sizes and    *)
(* micro-op ranges are left out: nothing in the control path reads them,   *)
(* except that an instruction with x_size = 0 is a no-op.                  *)
(***************************************************************************)
EXTENDS Naturals, Sequences, FiniteSets

Opcode  == {"LOAD", "STORE", "GEMM", "ALU", "FINISH"}
MemType == {"UOP", "WGT", "INP", "ACC", "ACC8", "OUT"}

\* mem is what memory_type decodes to; GEMM, ALU and FINISH have no such
\* field and carry "UOP", the encoding of zero.  noop stands for x_size = 0.
Insn == [op : Opcode, mem : MemType, noop : BOOLEAN,
         popPrev : BOOLEAN, popNext : BOOLEAN,
         pushPrev : BOOLEAN, pushNext : BOOLEAN]

\* An instruction with every dependency flag clear.
PlainInsn(op, mem) ==
    [op |-> op, mem |-> mem, noop |-> FALSE, popPrev |-> FALSE,
     popNext |-> FALSE, pushPrev |-> FALSE, pushNext |-> FALSE]

\* The cores of the simulator and the four token queues between them.
Core  == {"GEMM", "LOAD", "STORE"}
Queue == {"l2g", "g2l", "s2g", "g2s"}

\* sim_tlpp.cc routes a LOAD of the micro-op or accumulator memory, and
\* every opcode it does not list (FINISH), to the GEMM core.
GetCoreType(insn) ==
    IF insn.op = "STORE" THEN "STORE"
    ELSE IF insn.op = "LOAD" /\ insn.mem \in {"INP", "WGT"} THEN "LOAD"
    ELSE "GEMM"

\* The queue each dependency flag stands for, per core: the arguments of the
\* three DependencyProcess calls, "null" for nullptr.
PopPrevQueue  == [GEMM |-> "l2g", LOAD |-> "null", STORE |-> "g2s"]
PopNextQueue  == [GEMM |-> "s2g", LOAD |-> "g2l",  STORE |-> "null"]
PushPrevQueue == [GEMM |-> "g2l", LOAD |-> "null", STORE |-> "s2g"]
PushNextQueue == [GEMM |-> "g2s", LOAD |-> "l2g",  STORE |-> "null"]

PopQueues(insn) ==
    {q \in Queue : \/ insn.popPrev /\ q = PopPrevQueue[GetCoreType(insn)]
                   \/ insn.popNext /\ q = PopNextQueue[GetCoreType(insn)]}
PushQueues(insn) ==
    {q \in Queue : \/ insn.pushPrev /\ q = PushPrevQueue[GetCoreType(insn)]
                   \/ insn.pushNext /\ q = PushNextQueue[GetCoreType(insn)]}

\* The simulator would follow a null pointer on any other flag.
FlagsHaveQueues(insn) ==
    LET c == GetCoreType(insn) IN
    /\ insn.popPrev  => PopPrevQueue[c]  # "null"
    /\ insn.popNext  => PopNextQueue[c]  # "null"
    /\ insn.pushPrev => PushPrevQueue[c] # "null"
    /\ insn.pushNext => PushNextQueue[c] # "null"

(***************************************************************************)
(* What a stream must satisfy to be run to its end.  In stream order every *)
(* pop is preceded by its push; at the end every push has been popped; the *)
(* last instruction is the only FINISH and pops nothing; and after every   *)
(* LOAD or STORE there is one, on the same core, that tells the GEMM core. *)
(***************************************************************************)
Pushers(s, q) == {i \in DOMAIN s : q \in PushQueues(s[i])}
Poppers(s, q) == {i \in DOMAIN s : q \in PopQueues(s[i])}
Before(S, i)  == {j \in S : j < i}

PopsFollowPushes(s) ==
    \A q \in Queue : \A i \in Poppers(s, q) :
        Cardinality(Before(Pushers(s, q), i)) > Cardinality(Before(Poppers(s, q), i))
TokensBalance(s) ==
    \A q \in Queue : Cardinality(Pushers(s, q)) = Cardinality(Poppers(s, q))
FinishEnds(s) ==
    /\ Len(s) > 0
    /\ \A i \in DOMAIN s : s[i].op = "FINISH" <=> i = Len(s)
    /\ PopQueues(s[Len(s)]) = {}
WorkIsAnnounced(s) ==
    \A i \in DOMAIN s :
        /\ GetCoreType(s[i]) = "LOAD"  => \E j \in Pushers(s, "l2g") : j >= i
        /\ GetCoreType(s[i]) = "STORE" => \E j \in Pushers(s, "s2g") : j >= i

WellFormed(s) ==
    /\ PopsFollowPushes(s)
    /\ TokensBalance(s)
    /\ FinishEnds(s)
    /\ WorkIsAnnounced(s)
================================================================================
