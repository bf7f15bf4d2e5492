-------------------------------- MODULE MCTlpp ---------------------------------
(***************************************************************************)
(* Tlpp on every well-formed stream of at most four instructions before    *)
(* the FINISH, on the longer ones of VtaKernels, and on two that starve,   *)
(* for which the simulator spins without missing a wake-up.                *)
(***************************************************************************)
EXTENDS Tlpp, VtaKernels

Loads  == {WithFlags(PlainInsn("LOAD", "INP"), FALSE, pn, FALSE, qn) : pn, qn \in BOOLEAN}
Gemms  == {WithFlags(PlainInsn("GEMM", "UOP"), pp, pn, qp, qn) : pp, pn, qp, qn \in BOOLEAN}
Stores == {WithFlags(PlainInsn("STORE", "OUT"), pp, FALSE, qp, FALSE) : pp, qp \in BOOLEAN}
Menu   == Loads \cup Gemms \cup Stores

\* The streams one instruction longer in which every pop has its push before it.
Longer(S) == {s \in {Append(p, i) : p \in S, i \in Menu} : PopsFollowPushes(s)}
Started1 == Longer({<<>>})
Started2 == Longer(Started1)
Started3 == Longer(Started2)
Started4 == Longer(Started3)
Short ==
    {s \in {Append(p, Finish) : p \in Started1 \cup Started2 \cup Started3 \cup Started4} :
        WellFormed(s)}

\* A pop no instruction pushes for, and two cores that wait for each other.
Starving ==
    {<<Ld(FALSE, FALSE), Gm(TRUE, FALSE, FALSE, FALSE), Finish>>,
     <<Ld(TRUE, TRUE), Gm(TRUE, FALSE, TRUE, FALSE), Finish>>}

MCStreams == Short \cup {DoubleBuffered, Deep, WithNoops} \cup Starving

ASSUME MCStreamsAssumption == \A s \in MCStreams : WellFormed(s) <=> s \notin Starving
================================================================================
