---------------------------- MODULE MCMemoryPool ----------------------------
(* Small instances of MemoryPool for TLC.                                  *)
EXTENDS MemoryPool

CONSTANTS t1, t2, t3

=============================================================================
