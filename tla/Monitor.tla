------------------------------ MODULE Monitor ------------------------------
(***************************************************************************)
(* A pthread mutex with one condition variable, as the code uses the pair: *)
(* a thread locks the mutex, may sleep in pthread_cond_wait, wakes others  *)
(* with pthread_cond_broadcast, and unlocks.                               *)
(*                                                                         *)
(* pc says where a thread stands.  A user of this module has stages of its *)
(* own beside "lock" (waiting for the mutex), "asleep" (inside cond_wait,  *)
(* the mutex released) and "woken" (inside cond_wait, waiting to take the  *)
(* mutex back).                                                            *)
(***************************************************************************)
CONSTANTS Threads, NULL

ASSUME MonitorAssumption == NULL \notin Threads

VARIABLES owner, \* the thread that holds the mutex, or NULL
          pc     \* the stage of each thread

monitor == <<owner, pc>>

Goto(t, stage) == pc' = [pc EXCEPT ![t] = stage]

Step(t, from, to) == pc[t] = from /\ Goto(t, to) /\ UNCHANGED owner

\* pthread_mutex_lock, for a thread at stage from.  The mutex is not fair:
\* any thread that waits for it may get it.
Acquire(t, from, to) == /\ pc[t] = from
                        /\ owner = NULL
                        /\ owner' = t
                        /\ Goto(t, to)

\* pthread_mutex_unlock.
Release(t, to) == owner' = NULL /\ Goto(t, to)

\* pthread_cond_wait releases the mutex and goes to sleep in one step.
CondWait(t) == Release(t, "asleep")

\* pthread_cond_broadcast by t, which moves on to stage to.
Broadcast(t, to) ==
    /\ pc' = [u \in Threads |-> IF u = t THEN to
                                ELSE IF pc[u] = "asleep" THEN "woken" ELSE pc[u]]
    /\ UNCHANGED owner

\* pthread_cond_signal: one sleeper, if there is any.
Signal(t, to) ==
    /\ \/ \E u \in Threads \ {t} :
            pc[u] = "asleep" /\ pc' = [pc EXCEPT ![t] = to, ![u] = "woken"]
       \/ (\A u \in Threads : pc[u] # "asleep") /\ Goto(t, to)
    /\ UNCHANGED owner

\* POSIX lets pthread_cond_wait return although nobody signalled.
SpuriousWakeup(t) == Step(t, "asleep", "woken")
=============================================================================
