--------------------------- MODULE MCInputBuffer ---------------------------
(* Values of the constants of InputBuffer for TLC. *)
EXTENDS InputBuffer

CONSTANTS a, b

MCLetter == {a, b}
AnyLock == {0, 1}
FreeLock == {0}
=============================================================================
