----------------------------- MODULE MCFifoC2S -----------------------------
(***************************************************************************)
(* Constant values for the runs of FifoC2S.                                *)
(***************************************************************************)
EXTENDS FifoC2S

\* Two calls for each thread.
TwoCallsEach == {2 * NumThreads}

=============================================================================
