----------------------------- MODULE MCLoopback -----------------------------
(***************************************************************************)
(* Constant values for the runs of Loopback.                               *)
(***************************************************************************)
EXTENDS Loopback

TwoBlocks == {2}

=============================================================================
