------------------------------- MODULE MCExt2 -------------------------------
(* Blocks of one and of two sectors; the first and the last super block    *)
(* index whose group fits into a descriptor, and one on either side.       *)
EXTENDS Ext2

MCDescriptors ==
    {[block_size |-> 4, super_block_idx |-> 1], [block_size |-> 8, super_block_idx |-> 1],
     [block_size |-> 4, super_block_idx |-> 0], [block_size |-> 4, super_block_idx |-> 11],
     [block_size |-> 4, super_block_idx |-> 13]}
=============================================================================
