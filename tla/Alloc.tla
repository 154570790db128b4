------------------------------- MODULE Alloc -------------------------------
(***************************************************************************)
(* malloc/alloc.c: malloc, calloc, realloc and free over a list of all     *)
(* blocks, in the order of their addresses, and a list of the free ones,   *)
(* the last freed first.                                                   *)
(*                                                                         *)
(* Addresses and sizes are in words of 8 bytes.  A memory_list header has  *)
(* seven of them and the payload follows it; a header is named by its      *)
(* address.                                                                *)
(***************************************************************************)
EXTENDS Integers, Functions

CONSTANTS Sizes,     \* what malloc and realloc are asked for
          Nums,      \* the first argument of calloc
          HeapLimit, \* where the heap ends: sbrk fails beyond
          NULL

ASSUME AllocAssumption == /\ Sizes \subseteq Nat /\ Nums \subseteq Nat
                          /\ HeapLimit \in Nat /\ NULL \notin Int

VARIABLES heap,   \* [node: the headers by address, head, tail, emhead, brk]
          live,   \* history: the pointers the program has, with the sizes it asked for
          outcome \* of the last call: "ok", or how it left defined behaviour

vars == <<heap, live, outcome>>

HeaderSize == 7 \* sizeof(memory_list)

Slack == 8 \* the 64 bytes that a rest must exceed to be split off

Init == /\ heap = [node |-> [n \in {} |-> NULL],
                   head |-> NULL, tail |-> NULL, emhead |-> NULL, brk |-> 0]
        /\ live = [p \in {} |-> 0]
        /\ outcome = "ok"

-----------------------------------------------------------------------------
\* Mutant: the successor keeps its prevfree.
remove_node_one_way(h, n) ==
    LET before == h.node[n].prevfree
        after  == h.node[n].nextfree
    IN [h EXCEPT !.emhead = IF n = @ THEN after ELSE @,
                 !.node = [m \in DOMAIN h.node |->
                   [h.node[m] EXCEPT !.nextfree = IF m = before THEN after ELSE @]]]

\* The neighbours of n on the free list, as far as there are any, are linked.
remove_node(h, n) ==
    LET before == h.node[n].prevfree
        after  == h.node[n].nextfree
    IN [h EXCEPT !.emhead = IF n = @ THEN after ELSE @,
                 !.node = [m \in DOMAIN h.node |->
                   [h.node[m] EXCEPT !.nextfree = IF m = before THEN after ELSE @,
                                     !.prevfree = IF m = after THEN before ELSE @]]]

\* n becomes the first of the free list.
PutFirst(h, n) ==
    [h EXCEPT !.emhead = n,
              !.node = [m \in DOMAIN h.node |->
                [h.node[m] EXCEPT !.nextfree = IF m = n THEN h.emhead ELSE @,
                                  !.prevfree = IF m = h.emhead THEN n
                                               ELSE IF m = n THEN NULL ELSE @]]]

\* The headers once a rest of n is a free block of its own.
Divided(h, n, size, rest) ==
    LET new == n + HeaderSize + size
        temp == h.node[n].next
    IN [m \in DOMAIN h.node \cup {new} |->
          IF m = new
          THEN [ptr |-> new + HeaderSize, size |-> rest, free |-> TRUE,
                next |-> temp, prev |-> n, nextfree |-> NULL, prevfree |-> NULL]
          ELSE [h.node[m] EXCEPT !.size = IF m = n THEN size ELSE @,
                                 !.next = IF m = n THEN new ELSE @,
                                 !.prev = IF m = temp THEN new ELSE @]]

Rest(h, n, size) == h.node[n].size - size - HeaderSize

\* Mutant: tail is left where it was.
block_split_no_tail(h, n, size) ==
    PutFirst([h EXCEPT !.node = Divided(h, n, size, Rest(h, n, size))], n + HeaderSize + size)

\* Mutant: the new header is not counted.
block_split_free_header(h, n, size) ==
    LET new == n + HeaderSize + size
    IN PutFirst([h EXCEPT !.tail = IF @ = n THEN new ELSE @,
                          !.node = Divided(h, n, size, h.node[n].size - size)], new)

\* The rest of n behind its first size words becomes a free block.
block_split(h, n, size) ==
    LET new == n + HeaderSize + size
    IN PutFirst([h EXCEPT !.tail = IF @ = n THEN new ELSE @,
                          !.node = Divided(h, n, size, Rest(h, n, size))], new)

\* The block behind n, if any, becomes part of n; its header is cleared.
block_merge(h, n) ==
    LET nextnode == h.node[n].next
        g == remove_node(h, nextnode)
    IN IF nextnode = NULL THEN h
       ELSE [g EXCEPT
               !.tail = IF @ = nextnode THEN n ELSE @,
               !.node = [m \in DOMAIN h.node \ {nextnode} |->
                 [g.node[m] EXCEPT
                   !.size = IF m = n THEN @ + h.node[nextnode].size + HeaderSize ELSE @,
                   !.next = IF m = n THEN h.node[nextnode].next ELSE @,
                   !.prev = IF m = h.node[nextnode].next THEN n ELSE @]]]

IsFree(h, n) == n # NULL /\ h.node[n].free

-----------------------------------------------------------------------------
(* malloc                                                                  *)

\* The blocks that a walk along the free list comes to which goes on from
\* the blocks in On only: what is in every set that holds emhead and, with a
\* block of On, its successor.
Walk(h, On) ==
    {n \in DOMAIN h.node :
       \A S \in SUBSET DOMAIN h.node :
         (/\ h.emhead \in S \cup {NULL}
          /\ \A m \in S \cap On : h.node[m].nextfree \in S \cup {NULL}) => n \in S}

\* The first block of the free list that is large enough, or NULL.
FirstFit(h, size) ==
    LET small == {n \in DOMAIN h.node : h.node[n].size < size}
        fits  == Walk(h, small) \ small
    IN IF fits = {} THEN NULL ELSE CHOOSE n \in fits : TRUE

SplitOff(h, n, size) ==
    LET g    == block_split(h, n, size)
        rest == g.node[n].next
    IN IF IsFree(g, g.node[rest].next) THEN block_merge(g, rest) ELSE g

\* Block n is given out, without the part of it that is worth splitting off.
\* The links it leaves the free list with are not kept: nothing follows them.
Take(h, n, size) ==
    LET g == IF h.node[n].size - size > Slack + HeaderSize THEN SplitOff(h, n, size) ELSE h
        f == remove_node(g, n)
    IN [f EXCEPT !.node[n] = [@ EXCEPT !.free = FALSE, !.nextfree = NULL, !.prevfree = NULL]]

\* sbrk(n) has room.
CanGrow(h, n) == h.brk + n <= HeapLimit

\* A new block behind the last one, once both calls of sbrk have succeeded.
add_node_to_tail(h, size) ==
    LET n == h.brk
    IN [h EXCEPT
          !.head = IF h.tail = NULL /\ @ = NULL THEN n ELSE @,
          !.tail = n,
          !.brk = @ + HeaderSize + size,
          !.node = [m \in DOMAIN h.node \cup {n} |->
            IF m = n
            THEN [ptr |-> n + HeaderSize, size |-> size, free |-> FALSE,
                  next |-> NULL, prev |-> h.tail, nextfree |-> NULL, prevfree |-> NULL]
            ELSE [h.node[m] EXCEPT !.next = IF m = h.tail THEN n ELSE @]]]

\* The heap after malloc(size), and what it returns; NULL stands for the
\* read of newnode->ptr through a null pointer (lines 224-225).
Malloc(h, size) ==
    LET fit == FirstFit(h, size) IN
    IF fit # NULL THEN [heap |-> Take(h, fit, size), ptr |-> h.node[fit].ptr]
    ELSE IF CanGrow(h, HeaderSize + size)
         THEN [heap |-> add_node_to_tail(h, size), ptr |-> h.brk + HeaderSize]
         ELSE [heap |-> h, ptr |-> NULL]

\* The block at p is added to those the program has.
Granted(others, p, size) == [q \in DOMAIN others \cup {p} |-> IF q = p THEN size ELSE others[q]]

Give(result, size, others) ==
    IF result.ptr = NULL
    THEN outcome' = "read through NULL" /\ UNCHANGED <<heap, live>>
    ELSE /\ heap' = result.heap
         /\ live' = Granted(others, result.ptr, size)
         /\ UNCHANGED outcome

malloc(size) == Give(Malloc(heap, size), size, live)

\* The block is filled with zeroes.  num * size is taken not to wrap around.
calloc(num, size) == malloc(num * size)

-----------------------------------------------------------------------------
\* Mutant: the block behind is not looked at.
FreeNoNext(h, n) ==
    LET prevnode == h.node[n].prev
        g == PutFirst([h EXCEPT !.node[n].free = TRUE], n)
    IN IF IsFree(g, prevnode) THEN block_merge(g, prevnode) ELSE g

\* Block n is put on the free list and merged with the blocks beside it.
Free(h, n) ==
    LET prevnode == h.node[n].prev
        nextnode == h.node[n].next
        g == PutFirst([h EXCEPT !.node[n].free = TRUE], n)
        f == IF IsFree(g, prevnode) THEN block_merge(g, prevnode) ELSE g
    IN IF IsFree(g, nextnode)
       THEN block_merge(f, IF IsFree(g, prevnode) THEN prevnode ELSE n)
       ELSE f

\* p is a block the program has: node->ptr is p.
free(p) == /\ heap' = Free(heap, p - HeaderSize)
           /\ live' = Restrict(live, DOMAIN live \ {p})
           /\ UNCHANGED outcome

-----------------------------------------------------------------------------
(* realloc                                                                 *)

\* realloc(NULL, size) and realloc(p, 0); realloc(NULL, 0) does nothing.
reallocNew(size) == size # 0 /\ malloc(size)

reallocZero(p) == free(p)

node(p) == p - HeaderSize

Enough(p, size) == heap.node[node(p)].size >= size

reallocStay(p, size) == /\ size # 0 /\ Enough(p, size)
                        /\ live' = Granted(live, p, size)
                        /\ UNCHANGED <<heap, outcome>>

\* The last block grows.  The result of sbrk is not looked at.
reallocTail(p, size) ==
    LET n == node(p)
        more == size - heap.node[n].size
    IN /\ ~Enough(p, size) /\ n = heap.tail
       /\ IF CanGrow(heap, more)
          THEN /\ heap' = [heap EXCEPT !.brk = @ + more, !.node[n].size = size]
               /\ live' = Granted(live, p, size)
               /\ UNCHANGED outcome
          ELSE /\ outcome' = "block beyond the heap"
               /\ UNCHANGED <<heap, live>>

(* free(node) gets the address of the header, and reads the word seven     *)
(* words before it: is it equal to that address, so that free goes on?     *)
(* The word lies in the header of the block before, if that block is       *)
(* short, and then is one of its fields.  It may be anything if it is a    *)
(* link of the free list that was left behind (sizes 5 and 6), memory of   *)
(* the program or memory in front of the heap.                             *)
HeaderTakenForBlock(h, n) ==
    LET before == h.node[n].prev IN
    IF before = NULL \/ h.node[before].size \notin 0..4 THEN BOOLEAN
    ELSE {CASE h.node[before].size = 0 -> h.node[before].ptr = n
            [] h.node[before].size = 3 -> h.node[before].next = n
            [] OTHER                   -> FALSE}

\* The payload is copied to a new block.  free(node) leaves the old one, or
\* changes memory at will.
reallocMove(p, size) ==
    LET result == Malloc(heap, size)
        others == Restrict(live, DOMAIN live \ {p})
    IN /\ ~Enough(p, size) /\ node(p) # heap.tail
       /\ IF result.ptr = NULL
          THEN Give(result, size, others)
          ELSE \E taken \in HeaderTakenForBlock(result.heap, node(p)) :
                 IF taken THEN outcome' = "free of no block" /\ UNCHANGED <<heap, live>>
                 ELSE Give(result, size, others)

-----------------------------------------------------------------------------
\* Behaviour is followed up to the first call that is not defined in C.
Stopped == outcome # "ok" /\ UNCHANGED vars

Call == \/ \E size \in Sizes : malloc(size) \/ reallocNew(size)
        \/ \E num \in Nums, size \in Sizes : calloc(num, size)
        \/ \E p \in DOMAIN live : free(p) \/ reallocZero(p)
        \/ \E p \in DOMAIN live, size \in Sizes :
             reallocStay(p, size) \/ reallocTail(p, size) \/ reallocMove(p, size)

Next == (outcome = "ok" /\ Call) \/ Stopped

Spec == Init /\ [][Next]_vars

-----------------------------------------------------------------------------
Headers == DOMAIN heap.node

End(n) == n + HeaderSize + heap.node[n].size

(* The blocks cover the heap without a gap or an overlap, next and prev    *)
(* lead through them in the order of addresses, and tail is the last, over *)
(* any sequence of splits (57-89), merges (91-115) and extensions.         *)
HeapTiled ==
    /\ heap.head = NULL <=> Headers = {}
    /\ heap.tail = NULL <=> Headers = {}
    /\ heap.head # NULL => heap.head = 0 /\ heap.node[0].prev = NULL
    /\ \A n \in Headers :
         IF n = heap.tail
         THEN heap.node[n].next = NULL /\ End(n) = heap.brk
         ELSE heap.node[n].next = End(n) /\ heap.node[End(n)].prev = n

(* The free list holds each free block once and no other: it leads from    *)
(* emhead, forth and back, through all blocks marked free.                 *)
FreeListExact ==
    LET freed == {n \in Headers : heap.node[n].free}
    IN /\ Walk(heap, Headers) = freed
       /\ heap.emhead # NULL => heap.node[heap.emhead].prevfree = NULL
       /\ \A n \in freed : LET after == heap.node[n].nextfree IN
            after # NULL => after \in freed /\ heap.node[after].prevfree = n

(* Free memory does not stay in pieces: no two free blocks are neighbours. *)
(* So the merge in malloc (lines 213-216) never has anything to do.        *)
NoFreeNeighbours ==
    \A n \in Headers : heap.node[n].free => ~IsFree(heap, heap.node[n].next)

Contract == INSTANCE HeapContract WITH
              Addresses <- 0..HeapLimit, blocks <- live,
              Sizes <- Sizes \cup {num * size : num \in Nums, size \in Sizes}

(* The program is given blocks that do not overlap, and keeps them.        *)
ImplementsContract == Contract!HeapSpec

(* A call that gets no memory from sbrk returns a null pointer, and leaves *)
(* the block of realloc as it was (lines 198-199 and 316-318).             *)
FailureReturnsNull == outcome \notin {"read through NULL", "block beyond the heap"}
=============================================================================
