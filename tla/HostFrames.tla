----------------------------- MODULE HostFrames -----------------------------
(***************************************************************************)
(* What the frame of a contract has to itself: its objects (HostVm) and its *)
(* random numbers (HostPrng).                                               *)
(***************************************************************************)
EXTENDS HostVm, HostPrng

FramesSpec == VmSpec /\ PrngSpec

\* What the frame of a VM has is its own: it gets at no object of another frame or of the
\* host's, and sees no random number another frame has seen, also not after a failure
\* that was caught.
FramesIsolated == ObjectsIsolated /\ StreamsSeparate
=============================================================================
