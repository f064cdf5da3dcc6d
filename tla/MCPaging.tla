------------------------------ MODULE MCPaging ------------------------------
(***************************************************************************)
(* Tables of four pages: the kernel has the first two, the stack of the    *)
(* kernel one and a half, that of a process most of the first of these,    *)
(* the heap the rest but a page.  The frames end within the seventh        *)
(* process.                                                                *)
(***************************************************************************)
EXTENDS Paging

MCKernelStack == 8 .. 13
MCProcessStack == 8 .. 10
MCHeap == 16 .. 22
=============================================================================
