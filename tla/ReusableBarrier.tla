--------------------------- MODULE ReusableBarrier ---------------------------
(***************************************************************************)
(* critical_concurrency/barrier.c: threads that call barrier_wait round    *)
(* after round.  count is not reset by the thread that completes a round   *)
(* but by the first to enter the next one, which may happen while others   *)
(* of the completed round have not yet woken up; times_used tells them     *)
(* apart.                                                                  *)
(***************************************************************************)
EXTENDS Integers, FiniteSets, Monitor

CONSTANTS Rounds,   \* a bound of the model: the waits each thread makes
          WrapAfter \* times_used is unsigned: it wraps around to 0 here

ASSUME BarrierAssumption == /\ IsFiniteSet(Threads)
                            /\ Rounds \in Nat
                            /\ WrapAfter \in Nat \ {0, 1}

VARIABLES count, times_used,
          old_time_used, \* the local variable of each thread
          entered, left  \* history: how often each thread was counted in,
                         \* and how often its call has returned

n_threads == Cardinality(Threads)

barrier == <<count, times_used, old_time_used, entered, left>>
vars    == <<owner, pc, count, times_used, old_time_used, entered, left>>

-----------------------------------------------------------------------------
(* The state after barrier_init(barrier, n_threads).                       *)
Init == /\ owner = NULL
        /\ pc = [t \in Threads |-> "idle"]
        /\ count = 0
        /\ times_used = 0
        /\ old_time_used = [t \in Threads |-> 0]
        /\ entered = [t \in Threads |-> 0]
        /\ left = [t \in Threads |-> 0]

Call(t) == /\ entered[t] < Rounds
           /\ Step(t, "idle", "lock")
           /\ UNCHANGED barrier

Lock(t) == Acquire(t, "lock", "enter") /\ UNCHANGED barrier

\* Mutant: if in place of while, a woken thread does not test again.
RelockUnchecked(t) == Acquire(t, "woken", "unlock") /\ UNCHANGED barrier

\* Back from pthread_cond_wait, to the test of the while loop.
Relock(t) == Acquire(t, "woken", "check") /\ UNCHANGED barrier

\* times_used++ on an unsigned int.
Incremented(uses) == IF uses + 1 = WrapAfter THEN 0 ELSE uses + 1

\* The first thread in after a completed round opens the next.
NewRound == IF count = n_threads
            THEN count' = 1 /\ times_used' = Incremented(times_used)
            ELSE count' = count + 1 /\ UNCHANGED times_used

\* Mutant: the last thread in signals one sleeper.
EnterSignals(t) ==
    /\ pc[t] = "enter"
    /\ NewRound
    /\ entered' = [entered EXCEPT ![t] = @ + 1]
    /\ IF count' = n_threads
       THEN Signal(t, "unlock") /\ UNCHANGED old_time_used
       ELSE /\ Step(t, "enter", "check")
            /\ old_time_used' = [old_time_used EXCEPT ![t] = times_used']
    /\ UNCHANGED left

\* t is counted in.  The last one in wakes the others and passes; anybody
\* else notes the round it waits in.
Enter(t) ==
    /\ pc[t] = "enter"
    /\ NewRound
    /\ entered' = [entered EXCEPT ![t] = @ + 1]
    /\ IF count' = n_threads
       THEN Broadcast(t, "unlock") /\ UNCHANGED old_time_used
       ELSE /\ Step(t, "enter", "check")
            /\ old_time_used' = [old_time_used EXCEPT ![t] = times_used']
    /\ UNCHANGED left

\* Mutant: a thread of the completed round is not told from one of the next.
MustWaitAnyRound(t) == count # n_threads

MustWait(t) == old_time_used[t] = times_used /\ count # n_threads

Check(t) ==
    /\ pc[t] = "check"
    /\ \/ MustWait(t) /\ CondWait(t)
       \/ ~MustWait(t) /\ Step(t, "check", "unlock")
    /\ UNCHANGED barrier

Unlock(t) == /\ pc[t] = "unlock"
             /\ Release(t, "idle")
             /\ left' = [left EXCEPT ![t] = @ + 1]
             /\ UNCHANGED <<count, times_used, old_time_used, entered>>

Spurious(t) == SpuriousWakeup(t) /\ UNCHANGED barrier

\* Every thread has made its Rounds waits; not a step of the code.
Finished == /\ \A t \in Threads : pc[t] = "idle" /\ left[t] = Rounds
            /\ UNCHANGED vars

-----------------------------------------------------------------------------
WaitStep(t) == Lock(t) \/ Relock(t) \/ Enter(t) \/ Check(t) \/ Unlock(t)

Next == (\E t \in Threads : Call(t) \/ WaitStep(t) \/ Spurious(t)) \/ Finished

Spec == Init /\ [][Next]_vars

(* Every thread makes its waits and takes the steps it can take; the mutex *)
(* is not fair, and wakeups without a broadcast end some time.             *)
Fairness == /\ \A t \in Threads : WF_vars(Call(t)) /\ WF_vars(WaitStep(t))
            /\ <>[][\A t \in Threads : ~Spurious(t)]_vars

FairSpec == Spec /\ Fairness

-----------------------------------------------------------------------------
Stages == {"idle", "lock", "enter", "check", "asleep", "woken", "unlock"}

(* Every variable holds a value the C program can hold.                    *)
TypeOK == /\ owner \in Threads \cup {NULL}
          /\ pc \in [Threads -> Stages]
          /\ count \in 0..n_threads
          /\ times_used \in 0..WrapAfter - 1
          /\ old_time_used \in [Threads -> 0..WrapAfter - 1]
          /\ entered \in [Threads -> 0..Rounds]
          /\ left \in [Threads -> 0..Rounds]

B == INSTANCE Barrier WITH Parties <- Threads

(* The barrier: barrier_wait returns for the k-th time to some thread only *)
(* when all threads have called it for the k-th time, also when fast       *)
(* threads enter round k + 1 before slow ones have woken from round k.     *)
ImplementsBarrier == B!BarrierSpec

(* A thread that sleeps through the end of its round is not forgotten:     *)
(* asleep means that the round it entered is not complete.                 *)
SleepsOnlyInOpenRound ==
    \A t \in Threads : pc[t] = "asleep" =>
        \E u \in Threads : entered[u] < entered[t]

(* Every thread gets through all its rounds.                               *)
AllRoundsPass == <>(\A t \in Threads : pc[t] = "idle" /\ left[t] = Rounds)
=============================================================================
