------------------------------ MODULE MCKernel ------------------------------
(* Values of the constants of Kernel for TLC. *)
EXTENDS Kernel

MCPid == 0 .. (ShellPid + MaxKeys)

\* The first two processes that the shell launches got the priority that was asked
\* for, the third the highest.
MCSystemPid == {KernelPid, ShellPid + 3}

\* The shell itself, and the first process it will launch, or not.
MCUninitPid == {ShellPid, ShellPid + 1}
=============================================================================
