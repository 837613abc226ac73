----------------------------- MODULE MCFifoS2C -----------------------------
(***************************************************************************)
(* Constant values for the runs of FifoS2C.                                *)
(***************************************************************************)
EXTENDS FifoS2C

\* Two requests for each thread.
TwoRequestsEach == {2 * NumThreads}

=============================================================================
