------------------------------- MODULE Vector -------------------------------
(***************************************************************************)
(* vector.c, with elements that the vector copies and owns, such as those  *)
(* of string_vector_create.  The array holds pointers to the copies, and   *)
(* beyond size anything at all.                                            *)
(*                                                                         *)
(* A vector_reserve below the size copies the elements into an array that  *)
(* is too small for them: what follows is undefined and not modelled.      *)
(***************************************************************************)
EXTENDS Integers, FiniteSets, Sequences, SequencesExt

CONSTANTS Copies,           \* all copies there can be
          INITIAL_CAPACITY, \* 8 in vector.c
          JUNK              \* what is beyond size: NULL, or never written

VARIABLES array, size,
          live,      \* the copies that were made and not destroyed
          undefined

vars == <<array, size, live, undefined>>

capacity == Len(array)

Junk(n) == [i \in 1 .. n |-> JUNK]

\* vector_create
Init == /\ array = Junk(INITIAL_CAPACITY) /\ size = 0
        /\ live = {} /\ undefined = FALSE

-----------------------------------------------------------------------------
get_new_capacity(target) ==
    LET doubled[c \in 1 .. 2 * target + 1] == IF c < target THEN doubled[2 * c] ELSE c
    IN doubled[1]

\* The array with room for n elements.
Grown(n) == SubSeq(array, 1, size) \o Junk(get_new_capacity(n) - size)

\* copy_constructor and default_constructor give any of the copies that are not live.
Free == Copies \ live

\* The array with element x in place i (places are counted from 1).
With(a, i, x) == [a EXCEPT ![i] = x]

Reserved == IF size = capacity THEN Grown(size + 1) ELSE array

vector_reserve(n) ==
    /\ n # capacity
    /\ IF get_new_capacity(n) < size THEN undefined' = TRUE /\ UNCHANGED array
       ELSE array' = Grown(n) /\ UNCHANGED undefined
    /\ UNCHANGED <<size, live>>

\* Mutant: shrinking destroys nothing.
ShrinkKeeping(n) == size' = n /\ UNCHANGED <<array, live, undefined>>

Shrink(n) ==
    /\ live' = live \ {array[i] : i \in n + 1 .. size}
    /\ array' = [i \in DOMAIN array |-> IF i \in n + 1 .. size THEN JUNK ELSE array[i]]
    /\ size' = n /\ UNCHANGED undefined

Enlarge(n) ==
    \E new \in [size + 1 .. n -> Free] :
       LET old == IF n > capacity THEN Grown(n) ELSE array
       IN /\ IsInjective(new)
          /\ live' = live \cup Range(new)
          /\ array' = [i \in DOMAIN old |-> IF i \in DOMAIN new THEN new[i] ELSE old[i]]
          /\ size' = n /\ UNCHANGED undefined

vector_resize(n) == (n < size /\ Shrink(n)) \/ (n > size /\ Enlarge(n))

\* The old copy is freed first: the new one may take its place in memory.
vector_set(i) == \E x \in Free \cup {array[i]} :
                    /\ live' = (live \ {array[i]}) \cup {x}
                    /\ array' = With(array, i, x)
                    /\ UNCHANGED <<size, undefined>>

vector_push_back(x) == /\ array' = With(Reserved, size + 1, x)
                       /\ live' = live \cup {x} /\ size' = size + 1
                       /\ UNCHANGED undefined

vector_pop_back == size > 0 /\ Shrink(size - 1)

\* The elements from place i on move up by one, the last one first.
vector_insert(i, x) ==
    /\ array' = With([k \in DOMAIN Reserved |->
                        IF k \in i + 1 .. size + 1 THEN Reserved[k - 1] ELSE Reserved[k]], i, x)
    /\ live' = live \cup {x} /\ size' = size + 1
    /\ UNCHANGED undefined

vector_erase(i) ==
    /\ live' = live \ {array[i]}
    /\ array' = With([k \in DOMAIN array |->
                        IF k \in i .. size - 1 THEN array[k + 1] ELSE array[k]], size, JUNK)
    /\ size' = size - 1
    /\ UNCHANGED undefined

vector_clear == Shrink(0)

\* The vector is destroyed, and another one created.
vector_destroy == /\ live' = live \ {array[i] : i \in 1 .. size}
                  /\ array' = Junk(INITIAL_CAPACITY) /\ size' = 0
                  /\ UNCHANGED undefined

Next == /\ ~undefined
        /\ \/ \E n \in 0 .. Cardinality(Copies) : vector_reserve(n) \/ vector_resize(n)
           \/ \E x \in Free : vector_push_back(x) \/ \E i \in 1 .. size : vector_insert(i, x)
           \/ \E i \in 1 .. size : vector_set(i) \/ vector_erase(i)
           \/ vector_pop_back \/ vector_clear \/ vector_destroy

Spec == Init /\ [][Next]_vars

-----------------------------------------------------------------------------
\* The refinement mapping to SequenceContract.
Contents == SubSeq(array, 1, size)
=============================================================================
