------------------------------- MODULE MCUopQueue ------------------------------
(***************************************************************************)
(* Kernels for UopQueue: two of one place, told apart by their signatures, *)
(* and two of others; some fit the SRAM together, some do not, with no     *)
(* loop, one and two; and two that fail, one by two modes, one empty.      *)
(***************************************************************************)
EXTENDS UopQueue

Loop(n, d, s, w) == [op |-> "begin", extent |-> n, dst |-> d, src |-> s, wgt |-> w]
End1 == [op |-> "end"]
Gemm(d, s, w) == [op |-> "push", mode |-> "gemm", reset |-> "no", alu |-> Unset,
                  dst |-> d, src |-> s, wgt |-> w]
Add(d, s) == [op |-> "push", mode |-> "alu", reset |-> "no", alu |-> "add",
              dst |-> d, src |-> s, wgt |-> 0]

At(n, sig) == [site |-> n, sig |-> sig]

MCCalls ==
    At(1, <<>>)  :> <<Loop(2, 4, 0, 1), Loop(3, 1, 2, 0), Gemm(0, 0, 0), Gemm(8, 1, 5), End1, End1>>
 @@ At(1, <<0>>) :> <<Loop(2, 3, 1, 0), Add(2, 0), Add(7, 1), End1>>
 @@ At(2, <<1>>) :> <<Loop(3, 1, 0, 2), Gemm(4, 4, 4), End1>>
 @@ At(3, <<>>)  :> <<Gemm(1, 1, 1), Gemm(2, 1, 3), Gemm(1, 2, 2)>>
 @@ At(3, <<0>>) :> <<Gemm(1, 1, 1), Add(2, 2)>>
 @@ At(3, <<1>>) :> <<Loop(2, 1, 1, 1), End1>>

\* What the theorems ask of programs.
ASSUME MCCallsAssumption == ProgramsNest /\ SignaturesCount
================================================================================
