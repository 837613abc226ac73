----------------------------- MODULE MCBuffers -----------------------------
(***************************************************************************)
(* Constant values for the run of Buffers: sizes wrap at 16, buffers are  *)
(* multiples of 4, bytes wrap at 8 and a word is four of them.             *)
(***************************************************************************)
EXTENDS Buffers

\* No size, one word, one word and a bit, the last that fits, one that wraps.
Sizes == {0, 4, 5, 12, 13}

\* No card address, one inside the memory, the last, one beyond.
Cards == {0, 3, 6, 9}

\* Of one byte, of four, and four bytes about to wrap.
Seeds == {5, 8 * 8 * 3 + 2, 8 * 8 * 8 * 8 - 1}

=============================================================================
