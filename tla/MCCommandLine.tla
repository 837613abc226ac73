--------------------------- MODULE MCCommandLine ---------------------------
(***************************************************************************)
(* Constant values for the run of CommandLine: those of MCOptions, and for *)
(* the commands UINT32s that wrap at 16, UINT64s at 64 and bytes at 4.     *)
(***************************************************************************)
EXTENDS CommandLine, MCOptions

\* Nothing, less than a word, a word, more, the last that the mask leaves
\* whole, one that wraps and one that is too long for a UINT32.
SevenLengths == {0, 3, 4, 6, 12, 14, 18}

=============================================================================
