------------------------------ MODULE Semamore ------------------------------
(***************************************************************************)
(* critical_concurrency/semamore.c: a counter between 0 and max_val whose  *)
(* wait blocks at 0 and whose post blocks at max_val, built from a mutex   *)
(* and one condition variable.  Each operation broadcasts only when it     *)
(* leaves the bound at which the others sleep.                             *)
(***************************************************************************)
EXTENDS Integers, Monitor

CONSTANTS Posters, \* the threads that call semm_post; the others semm_wait
          MaxVals  \* the values of max_val that semm_init is tried with

Waiters == Threads \ Posters

VARIABLES value, max_val

semm == <<value, max_val>>
vars == <<owner, pc, value, max_val>>

-----------------------------------------------------------------------------
(* The state after semm_init(s, value, max_val).                           *)
Init == /\ owner = NULL
        /\ pc = [t \in Threads |-> "idle"]
        /\ max_val \in MaxVals
        /\ value \in 0..max_val

Call(t) == Step(t, "idle", "lock") /\ UNCHANGED semm

Lock(t) == Acquire(t, "lock", "check") /\ UNCHANGED semm

\* Back from pthread_cond_wait, to the test of the while loop.
Relock(t) == Acquire(t, "woken", "check") /\ UNCHANGED semm

\* The loop of t: it sleeps as long as value is at bound.
Check(t, bound) == /\ pc[t] = "check"
                   /\ \/ value = bound /\ CondWait(t)
                      \/ value # bound /\ Step(t, "check", "change")
                   /\ UNCHANGED semm

\* value becomes new, and the sleepers are woken if it then is at edge.
Change(t, new, edge) ==
    /\ pc[t] = "change"
    /\ value' = new
    /\ IF new = edge THEN Broadcast(t, "unlock") ELSE Step(t, "change", "unlock")
    /\ UNCHANGED max_val

\* Mutants: semm_wait wakes the others when it reaches 0; it wakes nobody,
\* as if posters never slept.
WaitChangeAtZero(t) == Change(t, value - 1, 0)

WaitChangeSilently(t) == Change(t, value - 1, -1)

WaitChange(t) == Change(t, value - 1, max_val - 1)

PostChange(t) == Change(t, value + 1, 1)

WaitCheck(t) == Check(t, 0)

\* Mutant: semm_post blocks above max_val, and not at it.
PostCheckAbove(t) == Check(t, max_val + 1)

PostCheck(t) == Check(t, max_val)

Unlock(t) == /\ pc[t] = "unlock"
             /\ Release(t, "idle")
             /\ UNCHANGED semm

Spurious(t) == SpuriousWakeup(t) /\ UNCHANGED semm

-----------------------------------------------------------------------------
WaitStep(t) == WaitCheck(t) \/ WaitChange(t)

PostStep(t) == PostCheck(t) \/ PostChange(t)

AnyStep(t) == Lock(t) \/ Relock(t) \/ Unlock(t)

Next == \/ \E t \in Waiters : WaitStep(t)
        \/ \E t \in Posters : PostStep(t)
        \/ \E t \in Threads : Call(t) \/ AnyStep(t) \/ Spurious(t)

(* As in BoundedQueue: a thread inside a call takes the steps it can take, *)
(* calls need not be made, the mutex is not fair, and wakeups without a    *)
(* broadcast end some time.                                                *)
Fairness == /\ \A t \in Waiters : WF_vars(WaitStep(t))
            /\ \A t \in Posters : WF_vars(PostStep(t))
            /\ \A t \in Threads : WF_vars(AnyStep(t))
            /\ <>[][\A t \in Threads : ~Spurious(t)]_vars

-----------------------------------------------------------------------------
Stages == {"idle", "lock", "check", "asleep", "woken", "change", "unlock"}

(* value stays in the range the comments of semm_wait and semm_post (24-27 *)
(* and 41-45) give it, whoever tests it and changes it in between.         *)
TypeOK == /\ owner \in Threads \cup {NULL}
          /\ pc \in [Threads -> Stages]
          /\ max_val \in MaxVals
          /\ value \in 0..max_val

(* Nobody sleeps for a reason that is gone: broadcasting only at           *)
(* max_val - 1 (line 35) and at 1 (line 53) is enough, although waiters    *)
(* and posters share one condition variable.                               *)
NoLostWakeup == /\ \A t \in Waiters : pc[t] = "asleep" => value = 0
                /\ \A t \in Posters : pc[t] = "asleep" => value = max_val

InWait == \E t \in Waiters : pc[t] # "idle"

InPost == \E t \in Posters : pc[t] # "idle"

(* Blocking is only ever for the reasons the comments give: while there    *)
(* is a wait in progress and value is not 0, or a post in progress and     *)
(* value is not max_val, or both a wait and a post in progress, calls keep *)
(* returning.                                                              *)
BlocksOnlyAtBounds ==
    <>[](\/ InWait /\ value # 0
         \/ InPost /\ value # max_val
         \/ InWait /\ InPost)
        => []<><<\E t \in Threads : Unlock(t)>>_vars
=============================================================================
