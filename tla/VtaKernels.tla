------------------------------- MODULE VtaKernels ------------------------------
(***************************************************************************)
(* Streams for model checking the devices: kernels as the compiler and the *)
(* runtime emit them, in the vocabulary of VtaInsn.                        *)
(***************************************************************************)
EXTENDS VtaInsn

WithFlags(insn, pp, pn, qp, qn) ==
    [insn EXCEPT !.popPrev = pp, !.popNext = pn, !.pushPrev = qp, !.pushNext = qn]

Finish == PlainInsn("FINISH", "UOP")
Ld(pn, qn) == WithFlags(PlainInsn("LOAD", "INP"), FALSE, pn, FALSE, qn)
Gm(pp, pn, qp, qn) == WithFlags(PlainInsn("GEMM", "UOP"), pp, pn, qp, qn)
St(pp, qp) == WithFlags(PlainInsn("STORE", "OUT"), pp, FALSE, qp, FALSE)
Up == PlainInsn("LOAD", "UOP")
Noop(insn) == [insn EXCEPT !.noop = TRUE]
NoopLd(pn, qn) == Noop(Ld(pn, qn))
NoopCo(pp, pn, qp, qn) == Noop(WithFlags(Up, pp, pn, qp, qn))
NoopSt(pp, qp) == Noop(WithFlags(PlainInsn("STORE", "UOP"), pp, FALSE, qp, FALSE))

\* A double-buffered kernel as the compiler emits it: two input buffers and two
\* output buffers in flight, each load waiting for the buffer to be released,
\* each store releasing the accumulator tile.
DoubleBuffered ==
    <<Ld(FALSE, TRUE), Ld(FALSE, TRUE),
      Gm(TRUE, FALSE, TRUE, TRUE), Gm(TRUE, FALSE, TRUE, TRUE),
      St(TRUE, TRUE), St(TRUE, TRUE),
      Ld(TRUE, TRUE), Ld(TRUE, TRUE),
      Gm(TRUE, TRUE, FALSE, TRUE), Gm(TRUE, TRUE, FALSE, TRUE),
      St(TRUE, FALSE), St(TRUE, TRUE),
      Gm(FALSE, TRUE, FALSE, FALSE), Finish>>
\* Loads, computes and stores issued a whole phase ahead of their consumers.
Deep ==
    <<Ld(FALSE, TRUE), Ld(FALSE, TRUE), Ld(FALSE, TRUE),
      Gm(TRUE, FALSE, FALSE, TRUE), Gm(TRUE, FALSE, FALSE, TRUE), Gm(TRUE, FALSE, FALSE, TRUE),
      St(TRUE, TRUE), St(TRUE, TRUE), St(TRUE, TRUE),
      Gm(FALSE, TRUE, FALSE, FALSE), Gm(FALSE, TRUE, FALSE, FALSE), Gm(FALSE, TRUE, FALSE, FALSE),
      Finish>>
\* A small kernel with everything the runtime adds: a micro-op load, no-ops
\* that carry tokens, and the wait of Synchronize before FINISH.
WithNoops ==
    <<NoopCo(FALSE, FALSE, TRUE, FALSE), Ld(TRUE, TRUE), Up, Gm(TRUE, FALSE, FALSE, TRUE),
      St(TRUE, TRUE), NoopLd(FALSE, TRUE), NoopCo(TRUE, TRUE, FALSE, FALSE), Finish>>
================================================================================
