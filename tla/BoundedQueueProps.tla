-------------------------- MODULE BoundedQueueProps --------------------------
(***************************************************************************)
(* What is claimed of critical_concurrency/queue.c.                        *)
(***************************************************************************)
EXTENDS BoundedQueue

Stages == {"idle", "lock", "check", "asleep", "woken", "link", "unlink",
           "count", "unlock", "done"}

\* The stages in which a thread is between lock and unlock.
Critical == {"check", "link", "unlink", "count", "unlock"}

(* Every variable holds a value the C program can hold.                    *)
TypeOK == /\ owner \in Threads \cup {NULL}
          /\ pc \in [Threads -> Stages]
          /\ item \in [Threads -> Data \cup {NULL}]
          /\ head \in Nodes \cup {NULL}
          /\ tail \in Nodes \cup {NULL}
          /\ size \in Int /\ max_size \in MaxSizes
          /\ next \in [Nodes -> Nodes \cup {NULL}]
          /\ data \in [Nodes -> Data \cup {NULL}]
          /\ allocated \subseteq Nodes
          /\ chain \in Seq(Nodes)
          /\ cursor \in Nodes \cup {NULL, "unused"}

(* A thread is between pthread_mutex_lock and the release of the mutex     *)
(* exactly when it is the owner: cond_wait gives the mutex up and takes it *)
(* back on every path of queue_push and queue_pull.                        *)
MutexHeldInside == \A t \in Threads : pc[t] \in Critical <=> owner = t

(* No lost wakeup: a thread sleeps only while its own reason to sleep      *)
(* lasts, although both kinds of sleepers share one condition variable and *)
(* the broadcasts of queue_push (87-89) and queue_pull (111-113) are       *)
(* conditional.                                                            *)
NoLostWakeup ==
    /\ \A t \in Pushers : pc[t] = "asleep" => PushMustWait
    /\ \A t \in Pullers : pc[t] = "asleep" => PullMustWait

(* The count that decides who waits is the true length of the list, up to  *)
(* the one node of the call in progress, and a queue created with a        *)
(* positive max_size never holds more (lines 67-71, 86, 110).              *)
SizeIsLength ==
    /\ (\A t \in Threads : pc[t] # "count") => size = Len(chain)
    /\ \A t \in Pushers : pc[t] = "count" => size = Len(chain) - 1
    /\ \A t \in Pullers : pc[t] = "count" => size = Len(chain) + 1
    /\ max_size > 0 => size <= max_size /\ Len(chain) <= max_size

\* next leads from each node of the chain to the one behind it.
Linked == IF chain = <<>>
          THEN head = NULL /\ tail = NULL
          ELSE /\ head = chain[1]
               /\ tail = chain[Len(chain)]
               /\ next[tail] = NULL
               /\ \A i \in 1..Len(chain) - 1 : next[chain[i]] = chain[i + 1]

Distinct == \A i, j \in 1..Len(chain) : i # j => chain[i] # chain[j]

(* Following next from head visits, in the order they were pushed, exactly *)
(* the nodes not yet freed, and ends at tail.  So no node is lost, freed   *)
(* twice or reachable after its free (lines 77-83 and 100-108).            *)
ListIsChain ==
    /\ Linked
    /\ Distinct
    /\ cursor = "unused" => allocated = {chain[i] : i \in 1..Len(chain)}

(* queue_destroy frees each node that is left once and none twice: the     *)
(* walk never stands on a freed node and leaves none behind (lines 50-56). *)
DestroyFreesAll == /\ cursor \in Nodes => cursor \in allocated
                   /\ cursor = NULL => allocated = {}

-----------------------------------------------------------------------------
\* The data of the nodes, in the order of the list.
Items == [i \in 1..Len(chain) |-> data[chain[i]]]

\* A call takes effect when it links or unlinks its node.
Phase == [t \in Threads |-> CASE pc[t] \in {"idle", "done"}    -> "out"
                              [] pc[t] \in {"count", "unlock"} -> "served"
                              [] OTHER                         -> "called"]

Fifo == INSTANCE BlockingFifo WITH
          Capacities <- MaxSizes, None <- NULL,
          capacity <- max_size, items <- Items, phase <- Phase, value <- item

(* The queue is a linearizable blocking FIFO: a push appends its item and  *)
(* a pull returns the oldest item at one point of the call, and neither    *)
(* passes a full, respectively an empty, queue.                            *)
ImplementsFifo == Fifo!FifoSpec

(* No deadlock between pushers and pullers: as long as some thread is      *)
(* inside queue_push and some thread is inside queue_pull, calls keep      *)
(* returning, whatever the order in which the mutex is granted.            *)
Inside(S) == \E t \in S : pc[t] \notin {"idle", "done"}

CallsKeepReturning ==
    <>[](Inside(Pushers) /\ Inside(Pullers))
        => []<><<\E t \in Threads : Unlock(t)>>_vars
=============================================================================
