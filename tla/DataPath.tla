-------------------------------- MODULE DataPath -------------------------------
(***************************************************************************)
(* What an instruction does to the memories: once as the functional        *)
(* simulator does it (sim/sim_driver.cc) and once as the HLS accelerator   *)
(* does (hardware/xilinx/src/vta.cc).                                      *)
(*                                                                         *)
(* A tensor is one number (BATCH = BLOCK = 1): blocks only repeat what     *)
(* happens to one element.  A memory m is a record of functions: the SRAMs *)
(* by their memory type, dram by address and uops, the micro-ops in DRAM.  *)
(* An instruction is one of VtaInsn with its operands in arg.              *)
(***************************************************************************)
EXTENDS VtaInsn, Integers, SequencesExt

CONSTANTS
    AccBits,    \* VTA_ACC_WIDTH
    InpBits,    \* VTA_INP_WIDTH, VTA_WGT_WIDTH and VTA_OUT_WIDTH
    ShrBits     \* VTA_SHR_ARG_BIT_WIDTH

ASSUME DataPathAssumption ==
    /\ InpBits \in Nat \ {0} /\ AccBits \in Nat /\ AccBits >= InpBits
    /\ 2^ShrBits = AccBits

\* An integer in a field of so many bits (BitPacker, ap_int): the high bits go.
Signed(x, bits) == ((x + 2^(bits - 1)) % 2^bits) - 2^(bits - 1)
Acc(x) == Signed(x, AccBits)

(***************************************************************************)
(* BitPacker packs fields of bits < 8 into a word: w as a natural number.  *)
(***************************************************************************)
Field(w, bits, i) == (w \div 2^(bits * i)) % 2^bits
GetSigned(w, bits, i) == Signed(Field(w, bits, i), bits)
SetSigned(w, bits, i, x) == w + ((x % 2^bits) - Field(w, bits, i)) * 2^(bits * i)

(***************************************************************************)
(* The scalar operations.  f = [alu, high, round]: high is the variant bit *)
(* of MUL and round the rounding bit, both in the wgt field of a micro-op. *)
(***************************************************************************)
Larger(x, y) == IF x > y THEN x ELSE y
Smaller(x, y) == IF x < y THEN x ELSE y

\* mutant of ShrRounded: ties of negative numbers go up.
ShrTiesUp(x, y) == (x \div 2^y) + IF (x % 2^y) > (2^y - 1) \div 2 THEN 1 ELSE 0
ShrRounded(x, y) ==
    LET floor == x \div 2^y
        threshold == ((2^y - 1) \div 2) + IF floor < 0 THEN 1 ELSE 0
    IN floor + IF (x % 2^y) > threshold THEN 1 ELSE 0

\* The CHECKs of the simulator.
SimAluAccepts(f, y) ==
    CASE f.alu = "SHR" -> y \in -(AccBits - 1)..AccBits - 1 /\ (y < 0 => ~f.round)
      [] f.alu = "MUL" -> f.round => f.high
      [] OTHER         -> ~f.high /\ ~f.round
SimAlu(f, x, y) ==
    CASE f.alu = "ADD" -> Acc(x + y)
      [] f.alu = "MAX" -> Larger(x, y)
      [] f.alu = "MIN" -> Smaller(x, y)
      [] f.alu = "SHR" -> IF y < 0 THEN Acc(x * 2^(-y))
                          ELSE IF ~f.round \/ y = 0 THEN x \div 2^y ELSE ShrRounded(x, y)
      [] f.alu = "MUL" -> IF ~f.high THEN Acc(x * y)
                          ELSE Acc((x * y + IF f.round THEN 2^(AccBits - 2) ELSE 0)
                                   \div 2^(AccBits - 1))

\* The HLS design knows four operations and shifts by a ShrBits-bit integer.
HlsAlu(alu, x, y) ==
    LET by == Signed(y, ShrBits) IN
    CASE alu = "ADD" -> Acc(x + y)
      [] alu = "MAX" -> Larger(x, y)
      [] alu = "MIN" -> Smaller(x, y)
      [] alu = "SHR" -> IF by < 0 THEN Acc(x * 2^(-by)) ELSE x \div 2^by

(***************************************************************************)
(* What they should compute: a rounded shift is to the nearest, ties away  *)
(* from zero; the two ALUs agree on shifts of ShrBits; a packed field      *)
(* holds what was set and setting it leaves its neighbours alone.          *)
(***************************************************************************)
Magnitude(x) == IF x < 0 THEN -x ELSE x
HalfAway(x, y) == (IF x < 0 THEN -1 ELSE 1) * ((2 * Magnitude(x) + 2^y) \div 2^(y + 1))
AluFacts ==
    LET value == -(2^(AccBits - 1))..(2^(AccBits - 1) - 1)
        arg == -(2^(ShrBits - 1))..(2^(ShrBits - 1) - 1)
        f(alu, round) == [alu |-> alu, high |-> FALSE, round |-> round]
    IN
    /\ \A x \in value, y \in 1..AccBits - 1 : SimAlu(f("SHR", TRUE), x, y) = HalfAway(x, y)
    /\ \A x \in value, y \in arg, alu \in {"ADD", "MAX", "MIN", "SHR"} :
          SimAlu(f(alu, FALSE), x, y) = HlsAlu(alu, x, y)
    /\ \A w \in 0..2^AccBits - 1, x \in -2..1, i, j \in 0..3 :
          GetSigned(SetSigned(w, 2, i, x), 2, j) = IF i = j THEN x ELSE GetSigned(w, 2, j)

(***************************************************************************)
(* Loads and stores: a = [sram, dram, y, x, stride, y0, y1, x0, x1], rows  *)
(* of x elements stride apart in DRAM, padded with zeros in the SRAM.      *)
(***************************************************************************)
Row(a, k, width) == (k \div width) - a.y0

Load2D(sram, a, dram) ==
    LET width == a.x0 + a.x + a.x1
        cell(k) == LET r == Row(a, k, width)
                       c == (k % width) - a.x0
                   IN IF r \in 0..a.y - 1 /\ c \in 0..a.x - 1 THEN dram[a.dram + r * a.stride + c]
                      ELSE 0
    IN [p \in DOMAIN sram |-> IF p - a.sram \in 0..(width * (a.y0 + a.y + a.y1) - 1)
                              THEN cell(p - a.sram) ELSE sram[p]]
Narrowed(dram) == [p \in DOMAIN dram |-> Signed(dram[p], InpBits)]

Store2D(dram, a, sram) ==
    FoldLeft(LAMBDA d, k : [d EXCEPT ![a.dram + (k \div a.x) * a.stride + (k % a.x)] =
                                        Signed(sram[a.sram + k], InpBits)],
             dram, [k \in 1..a.y * a.x |-> k - 1])

SimLoad(m, mem, a) ==
    CASE mem = "UOP"           -> [m EXCEPT !.UOP = Load2D(@, a, m.uops)]
      [] mem \in {"INP","WGT"} -> [m EXCEPT ![mem] = Load2D(@, a, Narrowed(m.dram))]
      [] mem = "ACC"           -> [m EXCEPT !.ACC = Load2D(@, a, m.dram)]
      [] mem = "ACC8"          -> [m EXCEPT !.ACC = Load2D(@, a, Narrowed(m.dram))]
\* The HLS design works through the rows.  Weights and micro-ops have no
\* padding, micro-ops no rows, and there are no narrow accumulators.
ResetMem(sram, at, n) == [p \in DOMAIN sram |-> IF p - at \in 0..n - 1 THEN 0 ELSE sram[p]]
CopyRow(sram, at, n, dram, from) ==
    [p \in DOMAIN sram |-> IF p - at \in 0..n - 1 THEN dram[from + p - at] ELSE sram[p]]
LoadPad2d(sram, a, dram) ==
    LET width == a.x0 + a.x + a.x1
        row(s, y) ==
            LET at == a.sram + width * (a.y0 + y) + a.x0 IN
            ResetMem(CopyRow(ResetMem(s, at - a.x0, a.x0), at, a.x, dram, a.dram + y * a.stride),
                     at + a.x, a.x1)
    IN ResetMem(FoldLeft(row, ResetMem(sram, a.sram, width * a.y0), [y \in 1..a.y |-> y - 1]),
                a.sram + width * (a.y0 + a.y), width * a.y1)
Load2d(sram, a, dram) ==
    FoldLeft(LAMBDA s, y : CopyRow(s, a.sram + y * a.x, a.x, dram, a.dram + y * a.stride),
             sram, [y \in 1..a.y |-> y - 1])
HlsLoad(m, mem, a) ==
    CASE mem = "UOP"  -> [m EXCEPT !.UOP = Load2d(@, [a EXCEPT !.y = 1], m.uops)]
      [] mem = "INP"  -> [m EXCEPT !.INP = LoadPad2d(@, a, Narrowed(m.dram))]
      [] mem = "WGT"  -> [m EXCEPT !.WGT = Load2d(@, a, Narrowed(m.dram))]
      [] mem = "ACC"  -> [m EXCEPT !.ACC = LoadPad2d(@, a, m.dram)]
      [] mem = "ACC8" -> m

SimStore(m, a) == [m EXCEPT !.dram = Store2D(@, a, m.ACC)]
HlsStore(m, a) == [m EXCEPT !.dram = Store2D(@, a, m.OUT)]

(***************************************************************************)
(* GEMM and ALU: a = [bgn, end, iterOut, iterIn, out, in, ...] sweeps its  *)
(* micro-ops iterOut * iterIn times; out and in are the factors by which   *)
(* the indices of a micro-op advance.                                      *)
(***************************************************************************)
Sweep(a) ==
    LET n == a.end - a.bgn IN
    [k \in 1..a.iterOut * a.iterIn * n |->
        [y |-> (k - 1) \div (a.iterIn * n), x |-> ((k - 1) \div n) % a.iterIn,
         uop |-> a.bgn + ((k - 1) % n)]]
Index(m, a, i, f) == m.UOP[i.uop][f] + i.y * a.out[f] + i.x * a.in[f]

Product(m, a, i) ==
    Acc(m.ACC[Index(m, a, i, "dst")] + m.INP[Index(m, a, i, "src")] * m.WGT[Index(m, a, i, "wgt")])

SimGemm(m, a) ==
    FoldLeft(LAMBDA n, i : [n EXCEPT !.ACC[Index(n, a, i, "dst")] =
                                        IF a.reset THEN 0 ELSE Product(n, a, i)],
             m, Sweep(a))
\* out_mem gets the product even when the accumulator is reset.
HlsGemm(m, a) ==
    FoldLeft(LAMBDA n, i : [n EXCEPT !.ACC[Index(n, a, i, "dst")] =
                                        IF a.reset THEN 0 ELSE Product(n, a, i),
                                     !.OUT[Index(n, a, i, "dst")] = Signed(Product(n, a, i), InpBits)],
             m, Sweep(a))

\* With an immediate the simulator reads the source and writes the destination,
\* the HLS design works on the destination.
SimAluLoop(m, a) ==
    FoldLeft(LAMBDA n, i :
                LET src == n.ACC[Index(n, a, i, "src")]
                    f == [alu |-> a.alu, high |-> n.UOP[i.uop].high, round |-> n.UOP[i.uop].round]
                IN [n EXCEPT !.ACC[Index(n, a, i, "dst")] =
                       IF a.useImm THEN SimAlu(f, src, a.imm) ELSE SimAlu(f, @, src)],
             m, Sweep(a))
HlsAluLoop(m, a) ==
    FoldLeft(LAMBDA n, i :
                LET d == Index(n, a, i, "dst")
                    result == HlsAlu(a.alu, n.ACC[d],
                                     IF a.useImm THEN a.imm ELSE n.ACC[Index(n, a, i, "src")])
                IN [n EXCEPT !.ACC[d] = result, !.OUT[d] = Signed(result, InpBits)],
             m, Sweep(a))

\* Device::Run_Insn; an instruction with x_size = 0 moves nothing.
SimRun(m, insn) ==
    CASE insn.noop \/ insn.op = "FINISH" -> m
      [] insn.op = "LOAD"  -> SimLoad(m, insn.mem, insn.arg)
      [] insn.op = "STORE" -> SimStore(m, insn.arg)
      [] insn.op = "GEMM"  -> SimGemm(m, insn.arg)
      [] insn.op = "ALU"   -> SimAluLoop(m, insn.arg)

\* The work of load(), compute() and store(), which takes what it stores from
\* out_mem.
HlsRun(m, insn) ==
    CASE insn.noop \/ insn.op = "FINISH" -> m
      [] insn.op = "LOAD"  -> HlsLoad(m, insn.mem, insn.arg)
      [] insn.op = "STORE" -> HlsStore(m, insn.arg)
      [] insn.op = "GEMM"  -> HlsGemm(m, insn.arg)
      [] insn.op = "ALU"   -> HlsAluLoop(m, insn.arg)
================================================================================
