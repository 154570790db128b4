---------------------------- MODULE HeapContract ----------------------------
(***************************************************************************)
(* What the comments of malloc/alloc.c promise a program: blocks that do   *)
(* not overlap, each at least as long as was asked for, until it is freed  *)
(* or moved by realloc.                                                    *)
(***************************************************************************)
EXTENDS Naturals, Functions

CONSTANTS Addresses, Sizes

VARIABLE blocks \* the size of each block the program has, by its address

Apart(p, s, q, r) == p # q /\ (p + s <= q \/ q + r <= p)

Fits(p, s, others) ==
    \A q \in others : Apart(p, s, q, blocks[q])

(* In each step the block that is new, if any, is the one at p.            *)
Granted(p, others) ==
    /\ p \in Addresses /\ blocks'[p] \in Sizes
    /\ Fits(p, blocks'[p], others)
    /\ blocks' = [q \in others \cup {p} |-> IF q = p THEN blocks'[p] ELSE blocks[q]]

Allocate == \E p \in DOMAIN blocks' : Granted(p, DOMAIN blocks)

Deallocate == \E p \in DOMAIN blocks :
    blocks' = Restrict(blocks, DOMAIN blocks \ {p})

Resize == \E p \in DOMAIN blocks, q \in DOMAIN blocks' :
    Granted(q, DOMAIN blocks \ {p})

HeapSpec == /\ blocks = [p \in {} |-> 0]
            /\ [][Allocate \/ Deallocate \/ Resize]_blocks
=============================================================================
