--------------------------- MODULE MCQueueClients ---------------------------
(* A small instance of QueueClients for TLC.                               *)
EXTENDS QueueClients

CONSTANTS t1, t2, t3, a, b, none

Tags == [t \in Pushers |-> IF t = t1 THEN a ELSE b]
Pushes == [tags |-> 5, slots |-> 3]

=============================================================================
