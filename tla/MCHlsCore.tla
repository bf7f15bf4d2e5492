-------------------------------- MODULE MCHlsCore -------------------------------
(***************************************************************************)
(* Small kernels for the HLS accelerator, with data: of the fragment on    *)
(* which it and the functional simulator agree (weights without padding,   *)
(* stores of computed elements, in-place immediates, shifts of ShrBits).   *)
(***************************************************************************)
EXTENDS HlsCore

MCDRAM == [p \in 0..11 |-> CASE p = 0 -> 3 [] p = 1 -> -5 [] p = 2 -> 7 [] p = 3 -> -8
                             [] p = 4 -> 100 [] p = 5 -> -77 [] OTHER -> 0]
Uop(dst, src, wgt) == [dst |-> dst, src |-> src, wgt |-> wgt, high |-> FALSE, round |-> FALSE]
MCUops == [p \in 0..2 |-> CASE p = 0 -> Uop(0, 0, 0) [] p = 1 -> Uop(1, 1, 0) [] p = 2 -> Uop(0, 1, 1)]

Mem(sram, dram, y, x, stride) ==
    [sram |-> sram, dram |-> dram, y |-> y, x |-> x, stride |-> stride,
     y0 |-> 0, y1 |-> 0, x0 |-> 0, x1 |-> 0]
Loops(bgn, end, iterOut, iterIn) ==
    [bgn |-> bgn, end |-> end, iterOut |-> iterOut, iterIn |-> iterIn, reset |-> FALSE,
     out |-> [dst |-> 0, src |-> 0, wgt |-> 0], in |-> [dst |-> 1, src |-> 1, wgt |-> 0]]
Insns(op, mem, flags, arg) ==
    [PlainInsn(op, mem) EXCEPT !.popPrev = "pp" \in flags, !.popNext = "pn" \in flags,
                               !.pushPrev = "qp" \in flags, !.pushNext = "qn" \in flags] @@ [arg |-> arg]
LoadOf(mem, flags, arg) == Insns("LOAD", mem, flags, arg)
Gemm(flags, loops) == Insns("GEMM", "UOP", flags, loops)
Alu(flags, alu, loops, useImm, imm) ==
    Insns("ALU", "UOP", flags, loops @@ [alu |-> alu, useImm |-> useImm, imm |-> imm])
Store(flags, arg) == Insns("STORE", "OUT", flags, arg)
Finish(flags) == Insns("FINISH", "UOP", flags, Mem(0, 0, 0, 0, 0))

\* Two tiles through one input buffer and one accumulator tile: every token
\* guards a buffer that is written again.
Tiles ==
    <<LoadOf("UOP", {}, Mem(0, 0, 1, 3, 3)),
      LoadOf("ACC", {}, Mem(0, 4, 1, 2, 2)),
      LoadOf("WGT", {}, Mem(0, 2, 1, 2, 2)),
      LoadOf("INP", {"qn"}, Mem(0, 0, 1, 2, 2)),
      Gemm({"pp", "qp"}, Loops(0, 2, 1, 1)),
      LoadOf("INP", {"pn", "qn"}, Mem(0, 1, 1, 2, 2)),
      Alu({"qn"}, "SHR", Loops(0, 2, 1, 1), TRUE, 2),
      Store({"pp", "qp"}, Mem(0, 6, 1, 2, 2)),
      Gemm({"pp", "pn"}, [Loops(0, 1, 1, 2) EXCEPT !.reset = TRUE]),
      Gemm({}, Loops(2, 3, 1, 1)),
      Alu({"qn"}, "ADD", Loops(0, 2, 1, 1), TRUE, -3),
      Store({"pp", "qp"}, Mem(0, 8, 2, 1, 3)),
      Finish({"pn"})>>
\* A padded load of two rows, and vector operations that overflow and shift left.
Vector ==
    <<LoadOf("INP", {"qn"}, [Mem(0, 0, 2, 1, 1) EXCEPT !.x0 = 1, !.y1 = 1]),
      LoadOf("ACC", {"pp"}, [Mem(0, 4, 1, 2, 2) EXCEPT !.x1 = 1]),
      LoadOf("UOP", {}, Mem(0, 0, 1, 2, 2)),
      Alu({}, "ADD", Loops(1, 2, 1, 2), TRUE, 60),
      Alu({"qn"}, "SHR", Loops(0, 1, 2, 1), TRUE, -1),
      Store({"pp", "qp"}, Mem(0, 10, 1, 1, 1)),
      LoadOf("INP", {"qn"}, Mem(2, 0, 0, 0, 0)),
      Insns("LOAD", "UOP", {"pp", "pn", "qn"}, Mem(0, 0, 0, 0, 0)),
      Alu({}, "MAX", Loops(0, 1, 1, 1), FALSE, 0),
      Store({"pp", "qp"}, Mem(1, 11, 1, 1, 1)),
      Finish({"pn"})>>
MCStreams == {[i \in DOMAIN Tiles |-> Tiles[i]],
              [i \in DOMAIN Vector |-> [Vector[i] EXCEPT !.noop = i \in {7, 8}]]}

ASSUME MCStreamsAssumption == \A s \in Streams : PopsFollowPushes(s) /\ TokensBalance(s)

================================================================================
