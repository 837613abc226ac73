----------------------------- MODULE MCOptions -----------------------------
(***************************************************************************)
(* Constant values for the runs of Options.                                *)
(***************************************************************************)
EXTENDS Options

\* A plain value, one with a range, a signed one, and a flag.
FourOptions == {"s", "t", "dr", "e"}

\* With UIntMod 16, MaxThreads 4 and MaxChannel 3: in every range, in none,
\* and one that is negative when signed.
ThreeValues == {2, 5, 12}

=============================================================================
