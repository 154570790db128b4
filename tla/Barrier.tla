------------------------------ MODULE Barrier ------------------------------
(***************************************************************************)
(* What a reusable barrier promises: no thread leaves its k-th wait before *)
(* every thread has entered its k-th wait.                                 *)
(***************************************************************************)
EXTENDS Naturals

CONSTANTS Parties, Rounds

VARIABLES entered, left \* how often each party has entered, and left, a wait

Enter(t) == /\ entered[t] = left[t]
            /\ entered[t] < Rounds
            /\ entered' = [entered EXCEPT ![t] = @ + 1]
            /\ UNCHANGED left

Leave(t) == /\ left[t] < entered[t]
            /\ \A u \in Parties : entered[u] >= entered[t]
            /\ left' = [left EXCEPT ![t] = @ + 1]
            /\ UNCHANGED entered

BarrierSpec == /\ entered = [t \in Parties |-> 0]
               /\ left = [t \in Parties |-> 0]
               /\ [][\E t \in Parties : Enter(t) \/ Leave(t)]_<<entered, left>>
=============================================================================
