---------------------------- MODULE BoundedQueue ----------------------------
(***************************************************************************)
(* critical_concurrency/queue.c: a linked list behind one mutex, with one  *)
(* condition variable on which pushers of a full queue and pullers of an   *)
(* empty one sleep together.                                               *)
(*                                                                         *)
(* A call is cut wherever it leaves its state half updated: the mutex is   *)
(* taken, the wait condition is tested, the node is linked or unlinked,    *)
(* the size is changed and the sleepers are woken, the mutex is released.  *)
(***************************************************************************)
EXTENDS Integers, Sequences, FiniteSets, Monitor

CONSTANTS Pushers, \* the threads that call queue_push; the others pull
          Data,    \* the pointers that are pushed
          Nodes,   \* the addresses malloc can return
          MaxSizes \* the arguments queue_create is tried with

Pullers == Threads \ Pushers

ASSUME QueueAssumption == /\ Pushers \subseteq Threads
                          /\ NULL \notin Nodes \cup Data
                          /\ "unused" \notin Nodes \cup {NULL}
                          /\ MaxSizes \subseteq Int

VARIABLES item,    \* what a call pushes, or has pulled
          head, tail, size, max_size,
          next, data, allocated, \* the heap of queue_nodes
          chain,   \* history: the nodes in the order they were linked
          cursor   \* queue_destroy: "unused", the next node to free, or NULL

listVars == <<head, tail, size, max_size, next, data, allocated, chain>>
vars     == <<owner, pc, item, head, tail, size, max_size, next, data,
              allocated, chain, cursor>>

-----------------------------------------------------------------------------
(* The state after queue_create(max_size).                                 *)
Init == /\ owner = NULL
        /\ pc = [t \in Threads |-> "idle"]
        /\ item = [t \in Threads |-> NULL]
        /\ head = NULL /\ tail = NULL /\ size = 0
        /\ max_size \in MaxSizes
        /\ next = [n \in Nodes |-> NULL]
        /\ data = [n \in Nodes |-> NULL]
        /\ allocated = {}
        /\ chain = <<>>
        /\ cursor = "unused"

\* A bound of the model: pushers of a queue without a maximum do not use up
\* the addresses.
NodesLeft == \/ max_size > 0
             \/ Len(chain) + Cardinality({t \in Pushers : pc[t] \notin {"idle", "done"}})
                  < Cardinality(Nodes)

CallPush(t, d) == /\ NodesLeft
                  /\ Step(t, "idle", "lock")
                  /\ item' = [item EXCEPT ![t] = d]
                  /\ UNCHANGED <<listVars, cursor>>

CallPull(t) == /\ Step(t, "idle", "lock")
               /\ UNCHANGED <<item, listVars, cursor>>

Lock(t) == /\ Acquire(t, "lock", "check")
           /\ UNCHANGED <<item, listVars, cursor>>

\* Mutant: if in place of while, a woken pusher does not test again.
RelockUnchecked(t) == /\ Acquire(t, "woken", IF t \in Pushers THEN "link" ELSE "check")
                      /\ UNCHANGED <<item, listVars, cursor>>

\* Back from pthread_cond_wait, to the test of the while loop.
Relock(t) == /\ Acquire(t, "woken", "check")
             /\ UNCHANGED <<item, listVars, cursor>>

PushMustWait == max_size > 0 /\ size = max_size

PullMustWait == size = 0

Check(t, mustWait, stage) ==
    /\ pc[t] = "check"
    /\ \/ mustWait /\ CondWait(t)
       \/ ~mustWait /\ Goto(t, stage) /\ UNCHANGED owner
    /\ UNCHANGED <<item, listVars, cursor>>

PushCheck(t) == Check(t, PushMustWait, "link")

PullCheck(t) == Check(t, PullMustWait, "unlink")

\* Mutant: the tail stays behind when the list is not empty.
LinkForgetsTail(t) ==
    /\ Step(t, "link", "count")
    /\ \E n \in Nodes \ allocated :
         /\ allocated' = allocated \cup {n}
         /\ data' = [data EXCEPT ![n] = item[t]]
         /\ next' = IF head = NULL THEN next ELSE [next EXCEPT ![tail] = n]
         /\ head' = IF head = NULL THEN n ELSE head
         /\ tail' = IF head = NULL THEN n ELSE tail
         /\ chain' = Append(chain, n)
    /\ UNCHANGED <<item, size, max_size, cursor>>

\* A new node goes behind the tail, or becomes the whole list.
Link(t) ==
    /\ Step(t, "link", "count")
    /\ \E n \in Nodes \ allocated :
         /\ allocated' = allocated \cup {n}
         /\ data' = [data EXCEPT ![n] = item[t]]
         /\ next' = IF head = NULL THEN [next EXCEPT ![n] = NULL]
                                   ELSE [next EXCEPT ![n] = NULL, ![tail] = n]
         /\ head' = IF head = NULL THEN n ELSE head
         /\ tail' = n
         /\ chain' = Append(chain, n)
    /\ UNCHANGED <<item, size, max_size, cursor>>

\* Mutant: pthread_cond_signal in place of the broadcast.
PushCountSignals(t) ==
    /\ pc[t] = "count"
    /\ size' = size + 1
    /\ Signal(t, "unlock")
    /\ UNCHANGED <<item, head, tail, max_size, next, data, allocated, chain, cursor>>

PushCount(t) ==
    /\ pc[t] = "count"
    /\ size' = size + 1
    /\ IF size' # 0 THEN Broadcast(t, "unlock") ELSE Step(t, "count", "unlock")
    /\ UNCHANGED <<item, head, tail, max_size, next, data, allocated, chain, cursor>>

\* The head's next is read before the head is freed; what a freed node held
\* is dropped.
UnlinkYielding(t, result) ==
    /\ Step(t, "unlink", "count")
    /\ item' = [item EXCEPT ![t] = result]
    /\ allocated' = allocated \ {head}
    /\ next' = [next EXCEPT ![head] = NULL]
    /\ data' = [data EXCEPT ![head] = NULL]
    /\ head' = IF size = 1 THEN NULL ELSE next[head]
    /\ tail' = IF size = 1 THEN NULL ELSE tail
    /\ chain' = Tail(chain)
    /\ UNCHANGED <<size, max_size, cursor>>

\* Mutants: the newest item is returned; the node itself is returned.
UnlinkNewest(t) == UnlinkYielding(t, data[tail])

UnlinkNode(t) == UnlinkYielding(t, head)

\* The head's data is the result.
Unlink(t) == UnlinkYielding(t, data[head])

\* Mutant: the test before the broadcast is inverted.
PullCountInverted(t) ==
    /\ pc[t] = "count"
    /\ size' = size - 1
    /\ IF max_size > 0 /\ size' = max_size THEN Broadcast(t, "unlock")
                                           ELSE Step(t, "count", "unlock")
    /\ UNCHANGED <<item, head, tail, max_size, next, data, allocated, chain, cursor>>

PullCount(t) ==
    /\ pc[t] = "count"
    /\ size' = size - 1
    /\ IF max_size > 0 /\ size' # max_size THEN Broadcast(t, "unlock")
                                           ELSE Step(t, "count", "unlock")
    /\ UNCHANGED <<item, head, tail, max_size, next, data, allocated, chain, cursor>>

\* The mutex is released and the call returns.
Unlock(t) == /\ pc[t] = "unlock"
             /\ Release(t, "idle")
             /\ item' = [item EXCEPT ![t] = NULL]
             /\ UNCHANGED <<listVars, cursor>>

\* The thread makes no further call and ends.
Exit(t) == /\ Step(t, "idle", "done")
           /\ UNCHANGED <<item, listVars, cursor>>

Spurious(t) == /\ SpuriousWakeup(t)
               /\ UNCHANGED <<item, listVars, cursor>>

-----------------------------------------------------------------------------
(* queue_destroy, called once every thread has been joined: the list is    *)
(* freed node by node.                                                     *)
Joined == \A t \in Threads : pc[t] = "done"

\* Mutant: the walk starts behind the head.
DestroyBeginAtSecond == /\ cursor = "unused" /\ Joined
                        /\ cursor' = IF head = NULL THEN NULL ELSE next[head]
                        /\ UNCHANGED <<monitor, item, listVars>>

DestroyBegin == /\ cursor = "unused" /\ Joined
                /\ cursor' = head
                /\ UNCHANGED <<monitor, item, listVars>>

DestroyStep == /\ cursor \in Nodes
               /\ allocated' = allocated \ {cursor}
               /\ cursor' = next[cursor]
               /\ UNCHANGED <<monitor, item, head, tail, size, max_size,
                              next, data, chain>>

\* A joined program stops; not a step of the code.
Finished == cursor = NULL /\ UNCHANGED vars

-----------------------------------------------------------------------------
PushStep(t) == PushCheck(t) \/ Link(t) \/ PushCount(t)

PullStep(t) == PullCheck(t) \/ Unlink(t) \/ PullCount(t)

AnyStep(t) == Lock(t) \/ Relock(t) \/ Unlock(t)

Next == \/ \E t \in Pushers : PushStep(t) \/ \E d \in Data : CallPush(t, d)
        \/ \E t \in Pullers : PullStep(t) \/ CallPull(t)
        \/ \E t \in Threads : AnyStep(t) \/ Spurious(t) \/ Exit(t)
        \/ DestroyBegin \/ DestroyStep
        \/ Finished

Spec == Init /\ [][Next]_vars

(* A thread inside a call is run as long as it can take its step; nothing   *)
(* is assumed of when calls are made.  The mutex is not fair: weak fairness *)
(* of Lock lets a thread that finds it taken again and again wait for ever. *)
(* Wakeups without a broadcast are assumed to end some time.                *)
Fairness == /\ \A t \in Pushers : WF_vars(PushStep(t))
            /\ \A t \in Pullers : WF_vars(PullStep(t))
            /\ \A t \in Threads : WF_vars(AnyStep(t))
            /\ <>[][\A t \in Threads : ~Spurious(t)]_vars

FairSpec == Spec /\ Fairness
=============================================================================
