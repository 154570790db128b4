---------------------------- MODULE BlockingFifo ----------------------------
(***************************************************************************)
(* What critical_concurrency/queue.c promises its callers: a FIFO buffer   *)
(* whose push waits while the buffer holds capacity items (if capacity is  *)
(* positive) and whose pull waits while it is empty.  Each call takes      *)
(* effect in one indivisible step between its invocation and its return.   *)
(***************************************************************************)
EXTENDS Integers, Sequences

CONSTANTS Pushers, Pullers, \* the threads that call push, and pull
          Data,             \* what can be pushed
          Capacities,       \* the bounds a queue may be created with
          None              \* the argument or result of no call

VARIABLES capacity, \* the bound of this queue; none when it is not positive
          items,   \* the contents, oldest first
          phase,   \* of each thread: "out", "called" or "served"
          value    \* what a thread's call pushes or has pulled

fifoVars == <<capacity, items, phase, value>>

Callers == Pushers \cup Pullers

FifoInit == /\ capacity \in Capacities
            /\ items = <<>>
            /\ phase = [t \in Callers |-> "out"]
            /\ value = [t \in Callers |-> None]

InvokePush(t, d) == /\ phase[t] = "out"
                    /\ phase' = [phase EXCEPT ![t] = "called"]
                    /\ value' = [value EXCEPT ![t] = d]
                    /\ UNCHANGED <<capacity, items>>

InvokePull(t) == /\ phase[t] = "out"
                 /\ phase' = [phase EXCEPT ![t] = "called"]
                 /\ UNCHANGED <<capacity, items, value>>

ServePush(t) == /\ phase[t] = "called"
                /\ capacity > 0 => Len(items) < capacity
                /\ items' = Append(items, value[t])
                /\ phase' = [phase EXCEPT ![t] = "served"]
                /\ UNCHANGED <<capacity, value>>

ServePull(t) == /\ phase[t] = "called"
                /\ items # <<>>
                /\ value' = [value EXCEPT ![t] = Head(items)]
                /\ items' = Tail(items)
                /\ phase' = [phase EXCEPT ![t] = "served"]
                /\ UNCHANGED capacity

Return(t) == /\ phase[t] = "served"
             /\ phase' = [phase EXCEPT ![t] = "out"]
             /\ value' = [value EXCEPT ![t] = None]
             /\ UNCHANGED <<capacity, items>>

FifoNext == \/ \E t \in Pushers : ServePush(t) \/ \E d \in Data : InvokePush(t, d)
            \/ \E t \in Pullers : ServePull(t) \/ InvokePull(t)
            \/ \E t \in Callers : Return(t)

FifoSpec == FifoInit /\ [][FifoNext]_fifoVars
=============================================================================
