------------------------- MODULE BoundedQueue_proofs -------------------------
(***************************************************************************)
(* BoundedQueue never loses a wakeup, keeps its list and its count in step *)
(* and destroys all it allocated, for any number of threads, nodes and     *)
(* items and any max_size.                                                 *)
(***************************************************************************)
EXTENDS BoundedQueueProps, TLAPS

\* Only pushers link and only pullers unlink.
Roles == /\ \A t \in Pushers : pc[t] # "unlink"
         /\ \A t \in Pullers : pc[t] # "link"

\* What the test of the wait condition found still holds when it is used.
Admitted == /\ \A t \in Threads : pc[t] = "link" => ~PushMustWait
            /\ \A t \in Threads : pc[t] = "unlink" => ~PullMustWait
            /\ \A t \in Pushers : pc[t] = "count" => chain # <<>>

\* queue_destroy has the queue to itself.
DestroyAlone == cursor # "unused" => Joined

\* What queue_destroy has not freed is the end of the chain from cursor on.
DestroyRest ==
    /\ cursor \in Nodes =>
         \E i \in 1..Len(chain) :
            cursor = chain[i] /\ allocated = {chain[j] : j \in i..Len(chain)}
    /\ cursor = NULL => allocated = {}

Control == TypeOK /\ MutexHeldInside /\ Roles /\ Admitted /\ DestroyAlone

IInv == /\ Control
        /\ NoLostWakeup
        /\ SizeIsLength
        /\ ListIsChain
        /\ DestroyRest

-----------------------------------------------------------------------------
(* The list invariants speak of these variables only.                      *)
LEMMA ListUnchanged ==
    ASSUME ListIsChain, DestroyRest, UNCHANGED <<listVars, cursor>>
    PROVE  ListIsChain' /\ DestroyRest'
BY DEF ListIsChain, DestroyRest, Linked, Distinct, listVars

(* queue_create establishes the invariant.                                 *)
LEMMA InitIInv == Init => IInv
<1> SUFFICES ASSUME Init PROVE IInv
  OBVIOUS
<1> USE QueueAssumption, MonitorAssumption DEF Init
<1>1. TypeOK
  BY DEF TypeOK, Stages, Pullers
<1>2. MutexHeldInside /\ Roles /\ Admitted /\ DestroyAlone
  BY DEF MutexHeldInside, Critical, Roles, Admitted, DestroyAlone, Pullers
<1>3. NoLostWakeup /\ SizeIsLength
  BY DEF NoLostWakeup, SizeIsLength, Pullers
<1>4. ListIsChain /\ DestroyRest
  BY DEF ListIsChain, Linked, Distinct, DestroyRest
<1> QED
  BY <1>1, <1>2, <1>3, <1>4 DEF IInv, Control

-----------------------------------------------------------------------------
(* A step that leaves the list and the items alone and moves one thread.   *)
LEMMA CallIInv ==
    ASSUME IInv, NEW t \in Threads,
           \/ t \in Pushers /\ \E d \in Data : CallPush(t, d)
           \/ t \in Pullers /\ CallPull(t)
    PROVE  IInv'
<1> USE QueueAssumption, MonitorAssumption DEF IInv, Control
<1>1. /\ pc[t] = "idle" /\ pc' = [pc EXCEPT ![t] = "lock"]
      /\ UNCHANGED <<owner, listVars, cursor>>
      /\ item' \in [Threads -> Data \cup {NULL}]
  BY DEF CallPush, CallPull, Step, Goto, TypeOK
<1>2. TypeOK'
  BY <1>1 DEF TypeOK, Stages, listVars
<1>3. MutexHeldInside' /\ Roles' /\ Admitted' /\ DestroyAlone'
  BY <1>1 DEF TypeOK, MutexHeldInside, Critical, Roles, Admitted, DestroyAlone,
              Joined, listVars, PushMustWait, PullMustWait, Pullers
<1>4. NoLostWakeup' /\ SizeIsLength'
  BY <1>1 DEF TypeOK, NoLostWakeup, SizeIsLength, listVars, PushMustWait, PullMustWait, Pullers
<1>5. ListIsChain' /\ DestroyRest'
  BY <1>1, ListUnchanged
<1> QED
  BY <1>2, <1>3, <1>4, <1>5

(* Taking the mutex, for the first time or again, leads to the test.       *)
LEMMA LockIInv ==
    ASSUME IInv, NEW t \in Threads, Lock(t) \/ Relock(t)
    PROVE  IInv'
<1> USE QueueAssumption, MonitorAssumption DEF IInv, Control
<1>1. /\ pc[t] \in {"lock", "woken"} /\ pc' = [pc EXCEPT ![t] = "check"]
      /\ owner = NULL /\ owner' = t
      /\ UNCHANGED <<item, listVars, cursor>>
  BY DEF Lock, Relock, Acquire, Goto
<1>2. TypeOK'
  BY <1>1 DEF TypeOK, Stages, listVars
<1>3. MutexHeldInside' /\ Roles' /\ Admitted' /\ DestroyAlone'
  BY <1>1 DEF TypeOK, MutexHeldInside, Critical, Roles, Admitted, DestroyAlone,
              Joined, listVars, PushMustWait, PullMustWait, Pullers
<1>4. NoLostWakeup' /\ SizeIsLength'
  BY <1>1 DEF TypeOK, NoLostWakeup, SizeIsLength, listVars, PushMustWait, PullMustWait, Pullers
<1>5. ListIsChain' /\ DestroyRest'
  BY <1>1, ListUnchanged
<1> QED
  BY <1>2, <1>3, <1>4, <1>5

(* The test: a thread goes to sleep for a reason that holds, or goes on    *)
(* because the reason does not hold.                                       *)
LEMMA CheckIInv ==
    ASSUME IInv, NEW t \in Threads,
           \/ t \in Pushers /\ PushCheck(t)
           \/ t \in Pullers /\ PullCheck(t)
    PROVE  IInv'
<1> USE QueueAssumption, MonitorAssumption DEF IInv, Control
<1>1. pc[t] = "check" /\ UNCHANGED <<item, listVars, cursor>>
  BY DEF PushCheck, PullCheck, Check
<1>2. \/ /\ pc' = [pc EXCEPT ![t] = "asleep"] /\ owner' = NULL
         /\ \/ t \in Pushers /\ PushMustWait
            \/ t \in Pullers /\ PullMustWait
      \/ /\ pc' = [pc EXCEPT ![t] = "link"] /\ owner' = owner
         /\ t \in Pushers /\ ~PushMustWait
      \/ /\ pc' = [pc EXCEPT ![t] = "unlink"] /\ owner' = owner
         /\ t \in Pullers /\ ~PullMustWait
  <2>1. CASE t \in Pushers /\ PushCheck(t)
    BY <2>1 DEF PushCheck, Check, CondWait, Release, Goto
  <2>2. CASE t \in Pullers /\ PullCheck(t)
    BY <2>2 DEF PullCheck, Check, CondWait, Release, Goto
  <2> QED
    BY <2>1, <2>2
<1>3. TypeOK'
  BY <1>1, <1>2 DEF TypeOK, Stages, listVars
<1>4. MutexHeldInside'
  BY <1>1, <1>2 DEF TypeOK, MutexHeldInside, Critical
<1>5. Roles' /\ Admitted' /\ DestroyAlone'
  BY <1>1, <1>2 DEF TypeOK, Roles, Admitted, DestroyAlone, Joined, listVars,
                    PushMustWait, PullMustWait, Pullers
<1>6. NoLostWakeup' /\ SizeIsLength'
  BY <1>1, <1>2 DEF TypeOK, NoLostWakeup, SizeIsLength, listVars, PushMustWait,
                    PullMustWait, Pullers
<1>7. ListIsChain' /\ DestroyRest'
  BY <1>1, ListUnchanged
<1> QED
  BY <1>3, <1>4, <1>5, <1>6, <1>7

(* The steps that move one thread among the stages in which it does not    *)
(* hold the mutex, and the one that lets go of it.                         *)
LEMMA LeaveIInv ==
    ASSUME IInv, NEW t \in Threads, Unlock(t) \/ Spurious(t) \/ Exit(t)
    PROVE  IInv'
<1> USE QueueAssumption, MonitorAssumption DEF IInv, Control
<1>1. /\ UNCHANGED <<listVars, cursor>>
      /\ \/ pc[t] = "unlock" /\ pc' = [pc EXCEPT ![t] = "idle"] /\ owner' = NULL
            /\ item' = [item EXCEPT ![t] = NULL]
         \/ pc[t] = "asleep" /\ pc' = [pc EXCEPT ![t] = "woken"] /\ UNCHANGED <<owner, item>>
         \/ pc[t] = "idle" /\ pc' = [pc EXCEPT ![t] = "done"] /\ UNCHANGED <<owner, item>>
  BY DEF Unlock, Spurious, SpuriousWakeup, Exit, Release, Step, Goto
<1>2. TypeOK'
  BY <1>1 DEF TypeOK, Stages, listVars
<1>3. MutexHeldInside' /\ Roles' /\ DestroyAlone'
  BY <1>1 DEF TypeOK, MutexHeldInside, Critical, Roles, DestroyAlone, Joined, Pullers
<1>4. Admitted'
  BY <1>1 DEF TypeOK, Admitted, listVars, PushMustWait, PullMustWait
<1>5. NoLostWakeup' /\ SizeIsLength'
  BY <1>1 DEF TypeOK, NoLostWakeup, SizeIsLength, listVars, PushMustWait, PullMustWait, Pullers
<1>6. ListIsChain' /\ DestroyRest'
  BY <1>1, ListUnchanged
<1> QED
  BY <1>2, <1>3, <1>4, <1>5, <1>6

-----------------------------------------------------------------------------
(* A thread that holds the mutex is the only one between lock and unlock.  *)
LEMMA OnlyOwner ==
    ASSUME IInv, NEW t \in Threads, pc[t] \in Critical,
           NEW u \in Threads, pc[u] \in Critical
    PROVE  t = u
BY DEF IInv, Control, MutexHeldInside

(* Counting a linked node: if pushers were asleep the list was full before *)
(* it got the node, so every sleeper is a puller and all are woken.        *)
LEMMA PushCountIInv ==
    ASSUME IInv, NEW t \in Pushers, PushCount(t)
    PROVE  IInv'
<1> USE QueueAssumption, MonitorAssumption DEF IInv, Control
<1>1. /\ t \in Threads /\ pc[t] = "count" /\ size' = size + 1
      /\ UNCHANGED <<owner, item, head, tail, max_size, next, data, allocated, chain, cursor>>
  BY DEF PushCount, Broadcast, Step
<1>2. size' = Len(chain) /\ chain # <<>> /\ size' # 0
  BY <1>1 DEF TypeOK, SizeIsLength, Admitted
<1>3. pc' = [u \in Threads |-> IF u = t THEN "unlock"
                               ELSE IF pc[u] = "asleep" THEN "woken" ELSE pc[u]]
  BY <1>1, <1>2 DEF PushCount, Broadcast
<1>4. \A u \in Threads : u # t => pc[u] \notin Critical
  BY <1>1, OnlyOwner DEF Critical
<1>5. TypeOK'
  BY <1>1, <1>3 DEF TypeOK, Stages
<1>6. MutexHeldInside' /\ Roles' /\ DestroyAlone'
  BY <1>1, <1>3 DEF TypeOK, MutexHeldInside, Critical, Roles, DestroyAlone, Joined, Pullers
<1>7. Admitted' /\ NoLostWakeup'
  BY <1>1, <1>3, <1>4 DEF TypeOK, Admitted, NoLostWakeup, Critical, Pullers
<1>8. SizeIsLength'
  <2>1. \A u \in Threads : pc'[u] # "count"
    BY <1>3, <1>4 DEF Critical
  <2>2. max_size > 0 => size' <= max_size /\ Len(chain) <= max_size
    BY <1>1, <1>2 DEF SizeIsLength
  <2> QED
    BY <1>1, <1>2, <2>1, <2>2 DEF SizeIsLength, Pullers
<1>9. ListIsChain' /\ DestroyRest'
  BY <1>1 DEF ListIsChain, DestroyRest, Linked, Distinct
<1> QED
  BY <1>5, <1>6, <1>7, <1>8, <1>9

(* Discounting an unlinked node: a queue with a maximum is not full now,   *)
(* so all sleepers are woken; in one without, no pusher ever sleeps, and a *)
(* puller does not sleep while there is something to discount.             *)
LEMMA PullCountIInv ==
    ASSUME IInv, NEW t \in Pullers, PullCount(t)
    PROVE  IInv'
<1> USE QueueAssumption, MonitorAssumption DEF IInv, Control
<1>1. /\ t \in Threads /\ pc[t] = "count" /\ size' = size - 1
      /\ UNCHANGED <<owner, item, head, tail, max_size, next, data, allocated, chain, cursor>>
  BY DEF PullCount, Broadcast, Step, Pullers
<1>2. size = Len(chain) + 1 /\ size' = Len(chain) /\ Len(chain) \in Nat
  BY <1>1 DEF TypeOK, SizeIsLength
<1>3. \/ /\ max_size > 0
         /\ pc' = [u \in Threads |-> IF u = t THEN "unlock"
                                     ELSE IF pc[u] = "asleep" THEN "woken" ELSE pc[u]]
      \/ ~(max_size > 0) /\ pc' = [pc EXCEPT ![t] = "unlock"]
  <2>1. max_size > 0 => size' # max_size
    BY <1>1, <1>2 DEF TypeOK, SizeIsLength
  <2> QED
    BY <2>1 DEF PullCount, Broadcast, Step, Goto
<1>4. \A u \in Threads : u # t => pc[u] \notin Critical
  BY <1>1, OnlyOwner DEF Critical
<1>5. TypeOK'
  BY <1>1, <1>3 DEF TypeOK, Stages
<1>6. MutexHeldInside' /\ Roles' /\ DestroyAlone'
  BY <1>1, <1>3 DEF TypeOK, MutexHeldInside, Critical, Roles, DestroyAlone, Joined, Pullers
<1>7. Admitted'
  BY <1>1, <1>3, <1>4 DEF TypeOK, Admitted, Critical
<1>8. NoLostWakeup'
  <2>1. \A u \in Threads : pc'[u] = "asleep" => pc[u] = "asleep" /\ ~(max_size > 0)
    BY <1>1, <1>3 DEF TypeOK
  <2>2. \A u \in Threads : pc'[u] # "asleep"
    BY <1>2, <2>1 DEF NoLostWakeup, PushMustWait, PullMustWait, Pullers
  <2> QED
    BY <2>2 DEF NoLostWakeup, Pullers
<1>9. SizeIsLength'
  <2>1. \A u \in Threads : pc'[u] # "count"
    BY <1>1, <1>3, <1>4 DEF Critical, TypeOK
  <2>2. max_size > 0 => size' <= max_size /\ Len(chain) <= max_size
    BY <1>1, <1>2 DEF SizeIsLength, TypeOK
  <2> QED
    BY <1>1, <1>2, <2>1, <2>2 DEF SizeIsLength, Pullers
<1>10. ListIsChain' /\ DestroyRest'
  BY <1>1 DEF ListIsChain, DestroyRest, Linked, Distinct
<1> QED
  BY <1>5, <1>6, <1>7, <1>8, <1>9, <1>10

(* The shape of the list, spelled out: the pointers at its two ends tell   *)
(* whether it is empty.                                                    *)
LEMMA ListEnds ==
    ASSUME TypeOK, ListIsChain
    PROVE  /\ chain = <<>> <=> Len(chain) = 0
           /\ head = NULL <=> chain = <<>>
           /\ chain # <<>> => /\ head \in Nodes /\ head = chain[1]
                              /\ tail \in Nodes /\ tail = chain[Len(chain)]
BY QueueAssumption DEF TypeOK, ListIsChain, Linked

(* Appending a fresh node to the list.                                     *)
LEMMA LinkIInv ==
    ASSUME IInv, NEW t \in Pushers, Link(t)
    PROVE  IInv'
<1> USE QueueAssumption, MonitorAssumption DEF IInv, Control
<1>1. /\ t \in Threads /\ pc[t] = "link" /\ pc' = [pc EXCEPT ![t] = "count"]
      /\ UNCHANGED <<owner, item, size, max_size, cursor>>
  BY DEF Link, Step, Goto
<1>2. PICK n \in Nodes \ allocated :
         /\ allocated' = allocated \cup {n}
         /\ data' = [data EXCEPT ![n] = item[t]]
         /\ next' = IF head = NULL THEN [next EXCEPT ![n] = NULL]
                                   ELSE [next EXCEPT ![n] = NULL, ![tail] = n]
         /\ head' = IF head = NULL THEN n ELSE head
         /\ tail' = n
         /\ chain' = Append(chain, n)
  BY DEF Link
<1>3. /\ cursor = "unused" /\ allocated = {chain[i] : i \in 1..Len(chain)}
      /\ cursor' = "unused"
  BY <1>1 DEF TypeOK, DestroyAlone, Joined, ListIsChain
<1>4. \A u \in Threads : u # t => pc[u] \notin Critical
  BY <1>1, OnlyOwner DEF Critical
<1>5. size = Len(chain) /\ ~PushMustWait
  BY <1>1, <1>4 DEF SizeIsLength, Admitted, Critical
<1>6. /\ chain' \in Seq(Nodes) /\ chain' # <<>>
      /\ Len(chain') = Len(chain) + 1 /\ Len(chain) \in Nat
      /\ chain'[Len(chain')] = n
      /\ \A i \in 1..Len(chain) : chain'[i] = chain[i] /\ chain[i] \in Nodes /\ chain[i] # n
  BY <1>2, <1>3 DEF TypeOK
<1>7. TypeOK'
  BY <1>1, <1>2, <1>6 DEF TypeOK, Stages
<1>8. MutexHeldInside' /\ Roles' /\ DestroyAlone'
  BY <1>1, <1>3 DEF TypeOK, MutexHeldInside, Critical, Roles, DestroyAlone, Pullers
<1>9. Admitted'
  BY <1>1, <1>4, <1>6 DEF TypeOK, Admitted, Critical
<1>10. NoLostWakeup'
  BY <1>1 DEF TypeOK, NoLostWakeup, PushMustWait, PullMustWait, Pullers
<1>11. SizeIsLength'
  BY <1>1, <1>4, <1>5, <1>6 DEF TypeOK, SizeIsLength, Critical, PushMustWait, Pullers
<1>12. Distinct'
  BY <1>6 DEF ListIsChain, Distinct
<1>13. Linked'
  <2>1. CASE chain = <<>>
    BY <2>1, <1>2, <1>6, ListEnds DEF Linked, TypeOK
  <2>2. CASE chain # <<>>
    <3>1. /\ head \in Nodes /\ head = chain[1] /\ head' = head /\ chain'[1] = chain[1]
          /\ tail \in Nodes /\ tail = chain[Len(chain)] /\ tail # n
          /\ next' = [next EXCEPT ![n] = NULL, ![tail] = n]
      BY <2>2, <1>2, <1>6, ListEnds
    <3>2. next'[tail'] = NULL /\ next'[chain'[Len(chain)]] = chain'[Len(chain) + 1]
      BY <2>2, <3>1, <1>2, <1>6 DEF TypeOK
    <3>3. \A i \in 1..Len(chain) - 1 : next'[chain'[i]] = chain'[i + 1]
      <4> TAKE i \in 1..Len(chain) - 1
      <4>1. chain[i] # tail /\ chain[i] # n /\ chain[i] \in Nodes
        BY <3>1, <1>6 DEF ListIsChain, Distinct
      <4>2. next[chain[i]] = chain[i + 1]
        BY <2>2 DEF ListIsChain, Linked
      <4>3. chain'[i] = chain[i] /\ chain'[i + 1] = chain[i + 1]
        BY <1>6
      <4>4. next'[chain[i]] = next[chain[i]]
        BY <4>1, <3>1 DEF TypeOK
      <4> QED
        BY <4>2, <4>3, <4>4
    <3>4. head' = chain'[1] /\ tail' = chain'[Len(chain')] /\ next'[tail'] = NULL
      BY <3>1, <3>2, <1>2, <1>6
    <3>5. \A i \in 1..Len(chain') - 1 : next'[chain'[i]] = chain'[i + 1]
      <4>1. \A i \in 1..Len(chain') - 1 : i = Len(chain) \/ i \in 1..Len(chain) - 1
        BY <1>6
      <4> QED
        BY <4>1, <3>2, <3>3
    <3> QED
      BY <3>4, <3>5, <1>6 DEF Linked
  <2> QED
    BY <2>1, <2>2
<1>14. allocated' = {chain'[i] : i \in 1..Len(chain')}
  <2>1. \A m : m \in {chain'[i] : i \in 1..Len(chain')}
                 <=> m = n \/ m \in {chain[i] : i \in 1..Len(chain)}
    BY <1>6
  <2> QED
    BY <2>1, <1>2, <1>3
<1>15. ListIsChain' /\ DestroyRest'
  BY <1>3, <1>12, <1>13, <1>14 DEF ListIsChain, DestroyRest
<1> QED
  BY <1>7, <1>8, <1>9, <1>10, <1>11, <1>15

(* Removing the head of the list.                                          *)
LEMMA UnlinkIInv ==
    ASSUME IInv, NEW t \in Pullers, Unlink(t)
    PROVE  IInv'
<1> USE QueueAssumption, MonitorAssumption DEF IInv, Control
<1>1. /\ t \in Threads /\ pc[t] = "unlink" /\ pc' = [pc EXCEPT ![t] = "count"]
      /\ UNCHANGED <<owner, size, max_size, cursor>>
      /\ item' = [item EXCEPT ![t] = data[head]]
      /\ allocated' = allocated \ {head}
      /\ next' = [next EXCEPT ![head] = NULL]
      /\ data' = [data EXCEPT ![head] = NULL]
      /\ head' = IF size = 1 THEN NULL ELSE next[head]
      /\ tail' = IF size = 1 THEN NULL ELSE tail
      /\ chain' = Tail(chain)
  BY DEF Unlink, UnlinkYielding, Step, Goto, Pullers
<1>2. /\ cursor = "unused" /\ allocated = {chain[i] : i \in 1..Len(chain)}
      /\ cursor' = "unused"
  BY <1>1 DEF TypeOK, DestroyAlone, Joined, ListIsChain
<1>3. \A u \in Threads : u # t => pc[u] \notin Critical
  BY <1>1, OnlyOwner DEF Critical
<1>4. size = Len(chain) /\ size # 0
  BY <1>1, <1>3 DEF SizeIsLength, Admitted, Critical, PullMustWait
<1>5. /\ head \in Nodes /\ head = chain[1]
      /\ tail \in Nodes /\ tail = chain[Len(chain)]
      /\ chain # <<>>
  BY <1>4, ListEnds
<1>6. /\ chain' \in Seq(Nodes)
      /\ Len(chain') = Len(chain) - 1 /\ Len(chain') \in Nat
      /\ \A i \in 1..Len(chain') : chain'[i] = chain[i + 1]
      /\ \A i \in 1..Len(chain) : chain[i] \in Nodes
  BY <1>1, <1>5 DEF TypeOK
<1>7. TypeOK'
  BY <1>1, <1>5, <1>6 DEF TypeOK, Stages
<1>8. MutexHeldInside' /\ Roles' /\ DestroyAlone'
  BY <1>1, <1>2 DEF TypeOK, MutexHeldInside, Critical, Roles, DestroyAlone, Pullers
<1>9. Admitted'
  BY <1>1, <1>3 DEF TypeOK, Admitted, Critical, Pullers
<1>10. NoLostWakeup'
  BY <1>1 DEF TypeOK, NoLostWakeup, PushMustWait, PullMustWait, Pullers
<1>11. SizeIsLength'
  BY <1>1, <1>3, <1>4, <1>6 DEF TypeOK, SizeIsLength, Critical, Pullers
<1>12. Distinct'
  BY <1>6 DEF ListIsChain, Distinct
<1>13. Linked'
  <2>1. CASE Len(chain) = 1
    <3>1. chain' = <<>>
      BY <2>1, <1>6
    <3> QED
      BY <2>1, <3>1, <1>1, <1>4 DEF Linked
  <2>2. CASE Len(chain) # 1
    <3>1. Len(chain) \in Nat /\ Len(chain) > 1
      BY <2>2, <1>4, <1>6
    <3>2. \A i \in 1..Len(chain) - 1 : next[chain[i]] = chain[i + 1]
      BY <1>5 DEF ListIsChain, Linked
    <3>3. \A i \in 2..Len(chain) : chain[i] # head /\ next'[chain[i]] = next[chain[i]]
      BY <1>1, <1>5, <1>6 DEF ListIsChain, Distinct, TypeOK
    <3>4. head' = chain'[1] /\ tail' = chain'[Len(chain')] /\ chain' # <<>>
      <4>1. Len(chain') >= 1
        BY <3>1, <1>6
      <4>2. chain'[1] = chain[2] /\ chain'[Len(chain')] = chain[Len(chain)]
        BY <4>1, <3>1, <1>6
      <4>3. head' = chain[2] /\ tail' = chain[Len(chain)]
        BY <3>1, <3>2, <1>1, <1>4, <1>5
      <4> QED
        BY <4>1, <4>2, <4>3
    <3>5. next'[tail'] = NULL
      BY <3>1, <3>3, <1>1, <1>4, <1>5 DEF ListIsChain, Linked
    <3>6. \A i \in 1..Len(chain') - 1 : next'[chain'[i]] = chain'[i + 1]
      BY <3>1, <3>2, <3>3, <1>6
    <3> QED
      BY <3>4, <3>5, <3>6 DEF Linked
  <2> QED
    BY <2>1, <2>2
<1>14. allocated' = {chain'[i] : i \in 1..Len(chain')}
  <2>1. \A m : m \in {chain'[i] : i \in 1..Len(chain')}
                 <=> m \in {chain[i] : i \in 2..Len(chain)}
    <3>1. \A i \in 2..Len(chain) : i - 1 \in 1..Len(chain') /\ chain'[i - 1] = chain[i]
      BY <1>6
    <3>2. \A i \in 1..Len(chain') : i + 1 \in 2..Len(chain) /\ chain'[i] = chain[i + 1]
      BY <1>6
    <3> QED
      BY <3>1, <3>2
  <2>2. \A m : m \in {chain[i] : i \in 2..Len(chain)}
                 <=> m \in {chain[i] : i \in 1..Len(chain)} /\ m # chain[1]
    BY <1>4, <1>6 DEF ListIsChain, Distinct
  <2> QED
    BY <2>1, <2>2, <1>1, <1>2, <1>5
<1>15. ListIsChain' /\ DestroyRest'
  BY <1>2, <1>12, <1>13, <1>14 DEF ListIsChain, DestroyRest
<1> QED
  BY <1>7, <1>8, <1>9, <1>10, <1>11, <1>15

-----------------------------------------------------------------------------
(* queue_destroy starts at the head, that is, with the whole chain left.   *)
LEMMA DestroyBeginIInv ==
    ASSUME IInv, DestroyBegin
    PROVE  IInv'
<1> USE QueueAssumption, MonitorAssumption DEF IInv, Control
<1>1. cursor = "unused" /\ Joined /\ cursor' = head /\ UNCHANGED <<monitor, item, listVars>>
  BY DEF DestroyBegin
<1>2. TypeOK' /\ MutexHeldInside' /\ Roles'
  BY <1>1 DEF TypeOK, MutexHeldInside, Roles, monitor, listVars
<1>3. Admitted' /\ DestroyAlone'
  BY <1>1 DEF Admitted, DestroyAlone, Joined, PushMustWait, PullMustWait, monitor, listVars
<1>4. NoLostWakeup' /\ SizeIsLength'
  BY <1>1 DEF NoLostWakeup, SizeIsLength, PushMustWait, PullMustWait, monitor, listVars
<1>5. allocated = {chain[i] : i \in 1..Len(chain)}
  BY <1>1 DEF ListIsChain
<1>6. ListIsChain'
  BY <1>1, <1>2 DEF ListIsChain, Linked, Distinct, TypeOK, listVars
<1>7. DestroyRest'
  <2>1. CASE chain = <<>>
    <3>1. allocated = {} /\ head = NULL
      BY <2>1, <1>5, ListEnds
    <3> QED
      BY <3>1, <1>1 DEF DestroyRest, listVars
  <2>2. CASE chain # <<>>
    <3>1. 1 \in 1..Len(chain) /\ head = chain[1] /\ head \in Nodes
      BY <2>2, ListEnds DEF TypeOK
    <3> QED
      BY <3>1, <1>1, <1>5 DEF DestroyRest, listVars
  <2> QED
    BY <2>1, <2>2
<1> QED
  BY <1>2, <1>3, <1>4, <1>6, <1>7

(* Freeing the node at cursor leaves the end of the chain behind it.       *)
LEMMA DestroyStepIInv ==
    ASSUME IInv, DestroyStep
    PROVE  IInv'
<1> USE QueueAssumption, MonitorAssumption DEF IInv, Control
<1>1. /\ cursor \in Nodes /\ cursor' = next[cursor]
      /\ allocated' = allocated \ {cursor}
      /\ UNCHANGED <<owner, pc, item, head, tail, size, max_size, next, data, chain>>
  BY DEF DestroyStep, monitor
<1>2. TypeOK'
  BY <1>1 DEF TypeOK
<1>3. MutexHeldInside' /\ Roles' /\ Admitted' /\ DestroyAlone'
  BY <1>1 DEF MutexHeldInside, Roles, Admitted, DestroyAlone, Joined, PushMustWait, PullMustWait
<1>4. NoLostWakeup' /\ SizeIsLength'
  BY <1>1 DEF NoLostWakeup, SizeIsLength, PushMustWait, PullMustWait
<1>5. ListIsChain'
  BY <1>1, <1>2 DEF ListIsChain, Linked, Distinct, TypeOK
<1>6. PICK i \in 1..Len(chain) :
        cursor = chain[i] /\ allocated = {chain[j] : j \in i..Len(chain)}
  BY <1>1 DEF DestroyRest
<1>7. Len(chain) \in Nat /\ chain # <<>>
  BY <1>6 DEF TypeOK
<1>8. allocated' = {chain[j] : j \in i + 1..Len(chain)}
  <2>1. \A m : m \in {chain[j] : j \in i + 1..Len(chain)}
                 <=> m \in {chain[j] : j \in i..Len(chain)} /\ m # chain[i]
    BY <1>6, <1>7 DEF ListIsChain, Distinct
  <2> QED
    BY <2>1, <1>1, <1>6
<1>9. DestroyRest'
  <2>1. CASE i = Len(chain)
    <3>1. cursor' = NULL
      BY <2>1, <1>1, <1>6, <1>7 DEF ListIsChain, Linked
    <3>2. allocated' = {}
      BY <2>1, <1>8, <1>7
    <3> QED
      BY <3>1, <3>2 DEF DestroyRest
  <2>2. CASE i # Len(chain)
    <3>1. i + 1 \in 1..Len(chain) /\ i \in 1..Len(chain) - 1
      BY <2>2, <1>7
    <3>2. cursor' = chain[i + 1] /\ cursor' \in Nodes
      BY <3>1, <1>1, <1>6, <1>7 DEF ListIsChain, Linked, TypeOK
    <3>3. \E k \in 1..Len(chain) :
            cursor' = chain[k] /\ allocated' = {chain[j] : j \in k..Len(chain)}
      BY <3>1, <3>2, <1>8
    <3>4. chain' = chain /\ cursor' # NULL
      BY <3>2, <1>1
    <3>5. PICK k \in 1..Len(chain) :
            cursor' = chain[k] /\ allocated' = {chain[j] : j \in k..Len(chain)}
      BY <3>3
    <3>6. allocated' = {chain'[j] : j \in k..Len(chain')}
      BY <3>4, <3>5
    <3>7. k \in 1..Len(chain') /\ cursor' = chain'[k]
      BY <3>4, <3>5
    <3> QED
      BY <3>4, <3>6, <3>7 DEF DestroyRest
  <2> QED
    BY <2>1, <2>2
<1> QED
  BY <1>2, <1>3, <1>4, <1>5, <1>9

-----------------------------------------------------------------------------
(* Every step preserves the invariant.                                     *)
LEMMA NextIInv == IInv /\ [Next]_vars => IInv'
<1> SUFFICES ASSUME IInv, [Next]_vars PROVE IInv'
  OBVIOUS
<1>1. ASSUME NEW t \in Pushers, PushStep(t) PROVE IInv'
  <2> t \in Threads
    BY QueueAssumption
  <2> QED
    BY <1>1, CheckIInv, LinkIInv, PushCountIInv DEF PushStep
<1>2. ASSUME NEW t \in Pushers, \E d \in Data : CallPush(t, d) PROVE IInv'
  BY <1>2, CallIInv, QueueAssumption
<1>3. ASSUME NEW t \in Pullers, PullStep(t) PROVE IInv'
  BY <1>3, CheckIInv, UnlinkIInv, PullCountIInv DEF PullStep, Pullers
<1>4. ASSUME NEW t \in Pullers, CallPull(t) PROVE IInv'
  BY <1>4, CallIInv DEF Pullers
<1>5. ASSUME NEW t \in Threads, AnyStep(t) \/ Spurious(t) \/ Exit(t) PROVE IInv'
  BY <1>5, LockIInv, LeaveIInv DEF AnyStep
<1>6. CASE DestroyBegin \/ DestroyStep
  BY <1>6, DestroyBeginIInv, DestroyStepIInv
<1>7. CASE UNCHANGED vars
  <2>1. UNCHANGED <<owner, pc, item, listVars, cursor>>
    BY <1>7 DEF vars, listVars
  <2>2. TypeOK' /\ MutexHeldInside' /\ Roles'
    BY <2>1 DEF IInv, Control, TypeOK, MutexHeldInside, Roles, listVars
  <2>3. Admitted' /\ DestroyAlone'
    BY <2>1 DEF IInv, Control, Admitted, DestroyAlone, Joined, PushMustWait, PullMustWait, listVars
  <2>4. NoLostWakeup' /\ SizeIsLength'
    BY <2>1 DEF IInv, NoLostWakeup, SizeIsLength, PushMustWait, PullMustWait, listVars
  <2>5. ListIsChain' /\ DestroyRest'
    BY <2>1, ListUnchanged DEF IInv
  <2> QED
    BY <2>2, <2>3, <2>4, <2>5 DEF IInv, Control
<1> QED
  BY <1>1, <1>2, <1>3, <1>4, <1>5, <1>6, <1>7 DEF Next, Finished

(* The inductive invariant holds in every reachable state.                 *)
THEOREM Invariance == Spec => []IInv
<1>1. Init => IInv
  BY InitIInv
<1>2. IInv /\ [Next]_vars => IInv'
  BY NextIInv
<1> QED
  BY <1>1, <1>2, PTL DEF Spec

(* No wakeup is lost, whatever the numbers of pushers and pullers and      *)
(* whatever max_size.                                                      *)
THEOREM NoWakeupIsLost == Spec => []NoLostWakeup
<1>1. IInv => NoLostWakeup
  BY DEF IInv
<1> QED
  BY <1>1, Invariance, PTL

(* Type correctness.                                                       *)
THEOREM TypeCorrect == Spec => []TypeOK
<1>1. IInv => TypeOK
  BY DEF IInv, Control
<1> QED
  BY <1>1, Invariance, PTL

(* size is the length of the list, up to the call in progress, and the     *)
(* list never outgrows a positive max_size.                                *)
THEOREM SizeIsRight == Spec => []SizeIsLength
<1>1. IInv => SizeIsLength
  BY DEF IInv
<1> QED
  BY <1>1, Invariance, PTL

(* The pointers spell out the nodes in the order they were linked, and     *)
(* what is allocated is what the list holds.                               *)
THEOREM ListIsRight == Spec => []ListIsChain
<1>1. IInv => ListIsChain
  BY DEF IInv
<1> QED
  BY <1>1, Invariance, PTL

(* queue_destroy frees what is left, and each node once.                   *)
THEOREM DestroyIsRight == Spec => []DestroyFreesAll
<1>1. IInv => DestroyFreesAll
  BY DEF IInv, Control, DestroyRest, DestroyFreesAll, TypeOK
<1> QED
  BY <1>1, Invariance, PTL

-----------------------------------------------------------------------------
(* What the abstract queue holds, in terms of the list.                    *)
LEMMA ItemsAreSeq ==
    ASSUME TypeOK
    PROVE  /\ Items \in Seq(Data \cup {NULL})
           /\ Len(Items) = Len(chain) /\ Len(chain) \in Nat
           /\ \A i \in 1..Len(chain) : Items[i] = data[chain[i]]
BY DEF TypeOK, Items

(* Linking a node appends its data.                                        *)
LEMMA LinkAppends ==
    ASSUME IInv, NEW t \in Pushers, Link(t)
    PROVE  Items' = Append(Items, item[t])
<1>1. TypeOK /\ TypeOK'
  BY LinkIInv DEF IInv, Control
<1>2. PICK n \in Nodes \ allocated :
         data' = [data EXCEPT ![n] = item[t]] /\ chain' = Append(chain, n)
  BY DEF Link
<1>3. cursor = "unused" /\ t \in Threads
  BY QueueAssumption DEF IInv, Control, DestroyAlone, Joined, Link, Step
<1>4. \A i \in 1..Len(chain) : chain[i] \in Nodes /\ chain[i] # n
  BY <1>2, <1>3 DEF IInv, ListIsChain, Control, TypeOK
<1>5. /\ Len(chain') = Len(chain) + 1 /\ chain'[Len(chain) + 1] = n
      /\ \A i \in 1..Len(chain) : chain'[i] = chain[i]
  BY <1>1, <1>2 DEF TypeOK
<1>6. /\ Items' \in Seq(Data \cup {NULL}) /\ Len(Items') = Len(chain')
      /\ \A i \in 1..Len(chain') : Items'[i] = data'[chain'[i]]
  BY <1>1 DEF TypeOK, Items
<1>7. Items'[Len(chain) + 1] = item[t]
  BY <1>1, <1>2, <1>5, <1>6 DEF TypeOK
<1>8. \A i \in 1..Len(chain) : Items'[i] = Items[i]
  BY <1>1, <1>2, <1>4, <1>5, <1>6, ItemsAreSeq DEF TypeOK
<1>9. item[t] \in Data \cup {NULL}
  BY <1>1, <1>3 DEF TypeOK
<1> DEFINE s == Append(Items, item[t])
<1>10. s \in Seq(Data \cup {NULL}) /\ Len(s) = Len(chain) + 1
       /\ s[Len(chain) + 1] = item[t] /\ \A i \in 1..Len(chain) : s[i] = Items[i]
  BY <1>1, <1>9, ItemsAreSeq
<1> HIDE DEF s
<1>11. \A i \in 1..Len(chain) + 1 : Items'[i] = s[i]
  BY <1>1, <1>7, <1>8, <1>10, ItemsAreSeq
<1>12. Items' = s
  BY <1>5, <1>6, <1>10, <1>11
<1> QED
  BY <1>12 DEF s

(* Unlinking the head removes the oldest item.                             *)
LEMMA UnlinkRemovesOldest ==
    ASSUME IInv, NEW t \in Pullers, Unlink(t)
    PROVE  /\ Items # <<>>
           /\ item' = [item EXCEPT ![t] = Head(Items)]
           /\ Items' = Tail(Items)
<1>1. TypeOK /\ TypeOK'
  BY UnlinkIInv DEF IInv, Control
<1>2. /\ data' = [data EXCEPT ![head] = NULL] /\ chain' = Tail(chain)
      /\ item' = [item EXCEPT ![t] = data[head]]
  BY DEF Unlink, UnlinkYielding
<1>3. chain # <<>> /\ head = chain[1] /\ head \in Nodes /\ Len(chain) \in Nat /\ Len(chain) # 0
  <2>1. \A u \in Threads : pc[u] # "count"
    BY OnlyOwner DEF Unlink, UnlinkYielding, Step, Critical, Pullers
  <2>2. size = Len(chain) /\ size # 0
    BY <2>1 DEF IInv, Control, SizeIsLength, Admitted, Unlink, UnlinkYielding, Step,
                PullMustWait, Pullers
  <2> QED
    BY <2>2, <1>1, ListEnds DEF IInv, TypeOK
<1>4. \A i \in 2..Len(chain) : chain[i] \in Nodes /\ chain[i] # head
  BY <1>1, <1>3 DEF IInv, ListIsChain, Distinct, TypeOK
<1>5. /\ Len(chain') = Len(chain) - 1
      /\ \A i \in 1..Len(chain) - 1 : chain'[i] = chain[i + 1]
  BY <1>1, <1>2, <1>3 DEF TypeOK
<1>6. /\ Items' \in Seq(Data \cup {NULL}) /\ Len(Items') = Len(chain')
      /\ \A i \in 1..Len(chain') : Items'[i] = data'[chain'[i]]
  BY <1>1 DEF TypeOK, Items
<1>7. Items # <<>> /\ Head(Items) = data[head]
  BY <1>1, <1>3, ItemsAreSeq
<1>8. \A i \in 1..Len(chain) - 1 : Items'[i] = Items[i + 1]
  <2> TAKE i \in 1..Len(chain) - 1
  <2>1. i + 1 \in 2..Len(chain) /\ i \in 1..Len(chain') /\ i + 1 \in 1..Len(chain)
    BY <1>3, <1>5
  <2>2. data'[chain[i + 1]] = data[chain[i + 1]]
    BY <2>1, <1>1, <1>2, <1>4 DEF TypeOK
  <2>3. Items[i + 1] = data[chain[i + 1]]
    BY <2>1, <1>1, ItemsAreSeq
  <2> QED
    BY <2>1, <2>2, <2>3, <1>5, <1>6
<1> DEFINE s == Tail(Items)
<1>9. s \in Seq(Data \cup {NULL}) /\ Len(s) = Len(chain) - 1
      /\ \A i \in 1..Len(chain) - 1 : s[i] = Items[i + 1]
  BY <1>1, <1>7, ItemsAreSeq
<1> HIDE DEF s
<1>10. Items' = s
  BY <1>5, <1>6, <1>8, <1>9
<1> QED
  BY <1>2, <1>7, <1>10 DEF s

(* The list and the items a step leaves alone look the same to the caller. *)
LEMMA ItemsUnchanged ==
    ASSUME UNCHANGED <<chain, data>>
    PROVE  Items' = Items
BY DEF Items

(* Waking the sleepers is not seen by the callers: they stay called.       *)
LEMMA PhaseOfBroadcast ==
    ASSUME TypeOK, NEW t \in Threads, pc[t] = "count", Broadcast(t, "unlock")
    PROVE  Phase' = Phase
<1>1. pc' = [u \in Threads |-> IF u = t THEN "unlock"
                               ELSE IF pc[u] = "asleep" THEN "woken" ELSE pc[u]]
  BY DEF Broadcast
<1> QED
  BY <1>1 DEF TypeOK, Phase

(* Each step of the code is a step of the abstract queue or a stutter.     *)
LEMMA StepImplementsFifo ==
    ASSUME IInv, [Next]_vars
    PROVE  [Fifo!FifoNext]_(Fifo!fifoVars)
<1> USE QueueAssumption DEF Pullers
<1> TypeOK
  BY DEF IInv, Control
<1> DEFINE Stutter == UNCHANGED <<max_size, Items, Phase, item>>
<1>1. ASSUME NEW t \in Pushers, NEW d \in Data, CallPush(t, d)
      PROVE  Fifo!InvokePush(t, d)
  <2>1. /\ pc[t] = "idle" /\ pc' = [pc EXCEPT ![t] = "lock"] /\ t \in Threads
        /\ item' = [item EXCEPT ![t] = d] /\ UNCHANGED <<chain, data, max_size>>
    BY <1>1 DEF CallPush, Step, Goto, listVars
  <2>2. Phase[t] = "out" /\ Phase' = [Phase EXCEPT ![t] = "called"]
    BY <2>1 DEF Phase, TypeOK
  <2> QED
    BY <2>1, <2>2, ItemsUnchanged DEF Fifo!InvokePush
<1>2. ASSUME NEW t \in Pullers, CallPull(t)
      PROVE  Fifo!InvokePull(t)
  <2>1. /\ pc[t] = "idle" /\ pc' = [pc EXCEPT ![t] = "lock"] /\ t \in Threads
        /\ UNCHANGED <<item, chain, data, max_size>>
    BY <1>2 DEF CallPull, Step, Goto, listVars
  <2>2. Phase[t] = "out" /\ Phase' = [Phase EXCEPT ![t] = "called"]
    BY <2>1 DEF Phase, TypeOK
  <2> QED
    BY <2>1, <2>2, ItemsUnchanged DEF Fifo!InvokePull
<1>3. ASSUME NEW t \in Pushers, Link(t)
      PROVE  Fifo!ServePush(t)
  <2>1. /\ pc[t] = "link" /\ pc' = [pc EXCEPT ![t] = "count"] /\ t \in Threads
        /\ UNCHANGED <<item, max_size>>
    BY <1>3 DEF Link, Step, Goto
  <2>2. Phase[t] = "called" /\ Phase' = [Phase EXCEPT ![t] = "served"]
    BY <2>1 DEF Phase, TypeOK
  <2>3. max_size > 0 => Len(Items) < max_size
    <3>1. \A u \in Threads : pc[u] # "count"
      BY <2>1, OnlyOwner DEF Critical
    <3>2. size = Len(chain) /\ ~PushMustWait
      BY <2>1, <3>1 DEF IInv, Control, SizeIsLength, Admitted
    <3> QED
      BY <3>2, ItemsAreSeq DEF IInv, SizeIsLength, PushMustWait, TypeOK
  <2> QED
    BY <1>3, <2>1, <2>2, <2>3, LinkAppends DEF Fifo!ServePush
<1>4. ASSUME NEW t \in Pullers, Unlink(t)
      PROVE  Fifo!ServePull(t)
  <2>1. /\ pc[t] = "unlink" /\ pc' = [pc EXCEPT ![t] = "count"] /\ t \in Threads
        /\ UNCHANGED max_size
    BY <1>4 DEF Unlink, UnlinkYielding, Step, Goto
  <2>2. Phase[t] = "called" /\ Phase' = [Phase EXCEPT ![t] = "served"]
    BY <2>1 DEF Phase, TypeOK
  <2> QED
    BY <1>4, <2>1, <2>2, UnlinkRemovesOldest DEF Fifo!ServePull
<1>5. ASSUME NEW t \in Threads, Unlock(t)
      PROVE  Fifo!Return(t)
  <2>1. /\ pc[t] = "unlock" /\ pc' = [pc EXCEPT ![t] = "idle"]
        /\ item' = [item EXCEPT ![t] = NULL] /\ UNCHANGED <<chain, data, max_size>>
    BY <1>5 DEF Unlock, Release, Goto, listVars
  <2>2. Phase[t] = "served" /\ Phase' = [Phase EXCEPT ![t] = "out"]
    BY <2>1 DEF Phase, TypeOK
  <2> QED
    BY <2>1, <2>2, ItemsUnchanged DEF Fifo!Return
<1>6. ASSUME NEW t \in Threads, Lock(t) \/ Relock(t) \/ Spurious(t) \/ Exit(t)
      PROVE  Stutter
  <2>1. /\ UNCHANGED <<item, chain, data, max_size>>
        /\ \/ pc[t] \in {"lock", "woken"} /\ pc' = [pc EXCEPT ![t] = "check"]
           \/ pc[t] = "asleep" /\ pc' = [pc EXCEPT ![t] = "woken"]
           \/ pc[t] = "idle" /\ pc' = [pc EXCEPT ![t] = "done"]
    BY <1>6 DEF Lock, Relock, Acquire, Spurious, SpuriousWakeup, Exit, Step, Goto, listVars
  <2>2. Phase' = Phase
    BY <2>1 DEF Phase, TypeOK
  <2> QED
    BY <2>1, <2>2, ItemsUnchanged
<1>7. ASSUME NEW t \in Threads, PushCheck(t) \/ PullCheck(t)
      PROVE  Stutter
  <2>1. /\ UNCHANGED <<item, chain, data, max_size>> /\ pc[t] = "check"
        /\ \E stage \in {"asleep", "link", "unlink"} : pc' = [pc EXCEPT ![t] = stage]
    BY <1>7 DEF PushCheck, PullCheck, Check, CondWait, Release, Goto, listVars
  <2>2. Phase' = Phase
    BY <2>1 DEF Phase, TypeOK
  <2> QED
    BY <2>1, <2>2, ItemsUnchanged
<1>8. ASSUME NEW t \in Threads, PushCount(t) \/ PullCount(t)
      PROVE  Stutter
  <2>1. /\ UNCHANGED <<item, chain, data, max_size>> /\ pc[t] = "count"
        /\ Broadcast(t, "unlock") \/ pc' = [pc EXCEPT ![t] = "unlock"]
    BY <1>8 DEF PushCount, PullCount, Step, Goto
  <2>2. Phase' = Phase
    BY <2>1, PhaseOfBroadcast DEF Phase, TypeOK
  <2> QED
    BY <2>1, <2>2, ItemsUnchanged
<1>9. ASSUME DestroyBegin \/ DestroyStep \/ UNCHANGED vars
      PROVE  Stutter
  BY <1>9 DEF DestroyBegin, DestroyStep, vars, monitor, listVars, Items, Phase
<1>10. Next => Fifo!FifoNext \/ Stutter
  <2> SUFFICES ASSUME Next PROVE Fifo!FifoNext \/ Stutter
    OBVIOUS
  <2> HIDE DEF Stutter
  <2>1. CASE \E t \in Pushers : PushStep(t) \/ \E d \in Data : CallPush(t, d)
    BY <2>1, <1>1, <1>3, <1>7, <1>8 DEF PushStep, Fifo!FifoNext
  <2>2. CASE \E t \in Pullers : PullStep(t) \/ CallPull(t)
    BY <2>2, <1>2, <1>4, <1>7, <1>8 DEF PullStep, Fifo!FifoNext
  <2>3. CASE \E t \in Threads : AnyStep(t) \/ Spurious(t) \/ Exit(t)
    <3>1. \A t \in Threads : t \in Fifo!Callers
      BY DEF Fifo!Callers
    <3> QED
      BY <2>3, <3>1, <1>5, <1>6 DEF AnyStep, Fifo!FifoNext
  <2>4. CASE DestroyBegin \/ DestroyStep \/ Finished
    BY <2>4, <1>9 DEF Finished
  <2> QED
    BY <2>1, <2>2, <2>3, <2>4 DEF Next
<1> QED
  BY <1>9, <1>10 DEF Fifo!fifoVars

(* queue.c implements the blocking FIFO: every behaviour of the code is,   *)
(* through Items, Phase and item, a behaviour of BlockingFifo.             *)
THEOREM QueueIsFifo == Spec => ImplementsFifo
<1>1. Init => Fifo!FifoInit
  BY QueueAssumption DEF Init, Fifo!FifoInit, Fifo!Callers, Items, Phase, Pullers
<1>2. IInv /\ [Next]_vars => [Fifo!FifoNext]_(Fifo!fifoVars)
  BY StepImplementsFifo
<1> QED
  BY <1>1, <1>2, Invariance, PTL DEF Spec, ImplementsFifo, Fifo!FifoSpec

=============================================================================
