----------------------------- MODULE TokenPipeline -----------------------------
(***************************************************************************)
(* What the C API promises (runtime/runtime.h): a batch of calls gives     *)
(* each pipeline stage a list of things to do, in call order: work, pushes *)
(* of a token to a neighbour and pops of a token from one.  A stage does   *)
(* its list in order and waits at a pop until a token is there.            *)
(* VTASynchronize ends the batch when every stage has done its whole list. *)
(*                                                                         *)
(* Nothing here knows of instructions, flags, no-ops or a FINISH.          *)
(***************************************************************************)
EXTENDS Naturals, FiniteSets

CONSTANT Link    \* the ordered pairs of stages between which tokens travel

VARIABLES ops,    \* the calls of the batch: [stage, at, kind, link], at their place
          did,    \* those that have been done
          held    \* per link, tokens pushed and not popped

specVars == <<ops, did, held>>

Init ==
    /\ ops = {} /\ did = {}
    /\ held = [l \in Link |-> 0]

\* The kernel asks for more.
Issue ==
    /\ ops \subseteq ops' /\ ops' # ops
    /\ \A o \in ops, n \in ops' \ ops : o.at < n.at
    /\ UNCHANGED <<did, held>>

\* Stages do their next calls, each any number of them; the tokens they pop
\* are there before.  Doing several at once is doing them one after the other:
\* a link is popped by one stage and pushed by another.
Advance ==
    LET todo == ops \ did'
        doing == did' \ did
        Moved(kind, l) == Cardinality({o \in doing : o.kind = kind /\ o.link = l})
    IN
    /\ doing # {} /\ did \subseteq did' /\ did' \subseteq ops
    /\ \A o \in doing, p \in todo : p.stage = o.stage => p.at >= o.at
    /\ \A l \in Link : Moved("pop", l) <= held[l]
    /\ held' = [l \in Link |-> held[l] - Moved("pop", l) + Moved("push", l)]
    /\ UNCHANGED ops

\* The batch is over: every stage has done all it was asked.
Settle ==
    /\ did = ops
    /\ ops' = {} /\ did' = {}
    /\ UNCHANGED held

Next == Issue \/ Advance \/ Settle

Spec == Init /\ [][Next]_specVars
================================================================================
