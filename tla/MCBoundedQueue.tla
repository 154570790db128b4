--------------------------- MODULE MCBoundedQueue ---------------------------
(* A small instance of BoundedQueue.                                       *)
EXTENDS BoundedQueueProps

\* A queue without a maximum, as parmake.c:85 and cracker1.c:110 create it,
\* one that a single push fills, and one with room for two.
MCMaxSizes == {-1, 1, 2}
=============================================================================
