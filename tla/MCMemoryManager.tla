-------------------------- MODULE MCMemoryManager --------------------------
(* Values of the constants of MemoryManager for TLC. *)
EXTENDS MemoryManager

\* One small request; 104, 120 and 208 bytes with the header: 104 and 208 are
\* multiples of the header's size, 120 is not.
MCSizes == {20, 91, 100, 195}
=============================================================================
