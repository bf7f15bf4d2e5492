------------------------------- MODULE MCRtlCore -------------------------------
(***************************************************************************)
(* The RTL core on the kernels of VtaKernels.                              *)
(***************************************************************************)
EXTENDS RtlCore, VtaKernels

MCStreams == {DoubleBuffered, WithNoops}

ASSUME MCStreamsAssumption ==
    \A s \in Streams :
        /\ WellFormed(s)
        /\ \A i \in DOMAIN s : FlagsHaveQueues(s[i]) /\ Dispatch(s[i]) # "unknown"
================================================================================
