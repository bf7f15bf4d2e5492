------------------------------- MODULE UopKernel -------------------------------
(***************************************************************************)
(* Micro-op kernels (runtime/runtime.cc).  The first time a program pushes *)
(* an operation, a callback of the program records the kernel: it begins   *)
(* and ends loops and pushes micro-ops.  The runtime keeps a flat sequence *)
(* of micro-ops and at most two loops, puts the loops in the operation's   *)
(* instruction, and the device sweeps the micro-ops over them.             *)
(*                                                                         *)
(* A call is [op |-> "begin", extent, dst, src, wgt], with the factors of  *)
(* the loop, [op |-> "end"], or                                            *)
(* [op |-> "push", mode, reset, alu, dst, src, wgt], with the indices of   *)
(* the micro-op; alu stands for opcode, use_imm and imm_val.               *)
(***************************************************************************)
EXTENDS Integers, Sequences, SequencesExt, FiniteSets

Unset == "unset"
Once == [extent |-> 1, dst |-> 0, src |-> 0, wgt |-> 0]      \* no loop

--------------------------------------------------------------------------------
(* Recording.  ok: no CHECK has failed.                                    *)

NewKernel == [seq |-> <<>>, loop |-> <<>>, mode |-> Unset, reset |-> Unset, alu |-> Unset,
              ok |-> TRUE]
Uop(c) == [dst |-> c.dst, src |-> c.src, wgt |-> c.wgt]
Agrees(field, value) == field \in {Unset, value}

PushLoopBegin(k, c) ==
    [k EXCEPT !.loop = Append(@, [extent |-> c.extent, dst |-> c.dst, src |-> c.src,
                                  wgt |-> c.wgt]),
              !.ok = @ /\ k.seq = <<>> /\ Len(k.loop) < 2]
PushLoopEnd(k) == k                      \* counts loop_ptr_ down, which nothing reads
Push(k, c) ==
    [k EXCEPT !.seq = Append(@, Uop(c)), !.mode = c.mode, !.reset = c.reset,
              !.alu = IF c.mode = "alu" THEN c.alu ELSE @,
              !.ok = @ /\ Agrees(k.mode, c.mode) /\ Agrees(k.reset, c.reset)
                       /\ (c.mode = "alu" => Agrees(k.alu, c.alu))]
RecordCall(k, c) ==
    CASE c.op = "begin" -> PushLoopBegin(k, c)
      [] c.op = "end"   -> PushLoopEnd(k)
      [] c.op = "push"  -> Push(k, c)
Record(calls) == FoldLeft(RecordCall, NewKernel, calls)

--------------------------------------------------------------------------------
(* The operation's loops: outer, then inner.  A single loop is the outer   *)
(* one of a GEMM and the inner one of an ALU operation, which has no       *)
(* factor for the third index.                                             *)

LoopAt(k, n) == IF Len(k.loop) >= n THEN k.loop[n] ELSE Once
GemmLoopsSwapped(k) == <<LoopAt(k, 2), LoopAt(k, 1)>>          \* mutant of GemmLoops
GemmLoops(k) == <<LoopAt(k, 1), LoopAt(k, 2)>>
AluLoops(k) ==
    LET nest == IF Len(k.loop) = 1 THEN <<Once, k.loop[1]>> ELSE GemmLoops(k)
    IN  [i \in 1..2 |-> [nest[i] EXCEPT !.wgt = 0]]

\* RunGEMM and RunALULoop: the indices of every micro-op, moved by the loops.
Moved(u, loop, i) ==
    [dst |-> u.dst + i * loop.dst, src |-> u.src + i * loop.src, wgt |-> u.wgt + i * loop.wgt]
Repeat(uops, loop) ==
    FlattenSeq([i \in 1..loop.extent |-> [n \in DOMAIN uops |-> Moved(uops[n], loop, i - 1)]])
Sweep(uops, loops) == Repeat(Repeat(uops, loops[2]), loops[1])

--------------------------------------------------------------------------------
(* What the calls mean, read as the nested loops they look like: a stack   *)
(* of open loops, each with what its body has done so far.                 *)

Open(stack, c) == Append(stack, [loop |-> c, body |-> <<>>])
Emit(stack, done) == [stack EXCEPT ![Len(stack)].body = @ \o done]
Close(stack) == LET top == Last(stack) IN Emit(Front(stack), Repeat(top.body, top.loop))
Interpret(stack, c) ==
    CASE c.op = "begin" -> Open(stack, c)
      [] c.op = "end"   -> Close(stack)
      [] c.op = "push"  -> Emit(stack, <<Uop(c)>>)
Meaning(calls) == FoldLeft(Interpret, <<[loop |-> Once, body |-> <<>>]>>, calls)[1].body

\* What the compiler emits (transform.py, FoldUopLoop and InjectALUIntrin): a
\* nest of loops around all the micro-ops, without a factor for the third index
\* when these are of the ALU.
Nest(calls, depth) ==
    LET begins == 1..depth
        ends == Len(calls) - depth + 1..Len(calls)
        indices(c) == c.dst \in Int /\ c.src \in Int /\ c.wgt \in Int
    IN
    /\ 2 * depth <= Len(calls)
    /\ \A i \in begins : calls[i].op = "begin" /\ calls[i].extent \in Nat /\ indices(calls[i])
    /\ \A i \in ends : calls[i].op = "end"
    /\ \A i \in DOMAIN calls \ (begins \cup ends) :
          /\ calls[i].op = "push" /\ indices(calls[i])
          /\ calls[i].mode = "alu" => \A j \in begins : calls[j].wgt = 0
Nested(calls) == \E depth \in 0..Len(calls) : Nest(calls, depth)
================================================================================
