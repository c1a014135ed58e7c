------------------------- MODULE MC_BufferAllocator -------------------------
(* BufferAllocator is checked as it is: its constants are numbers and        *)
(* strings, given in the configurations.                                     *)
EXTENDS BufferAllocator
=============================================================================
