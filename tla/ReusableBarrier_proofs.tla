----------------------- MODULE ReusableBarrier_proofs -----------------------
(***************************************************************************)
(* barrier.c is a reusable barrier for any number of threads, any number   *)
(* of rounds and any wrap-around of times_used.                            *)
(***************************************************************************)
EXTENDS ReusableBarrier, TLAPS, FiniteSetTheorems

MutexHeldInside ==
    \A t \in Threads : pc[t] \in {"enter", "check", "unlock"} <=> owner = t

\* A thread inside the loop or about to return has been counted in once
\* more than it has returned.
Bookkeeping ==
    \A t \in Threads :
      /\ entered[t] = left[t] +
           IF pc[t] \in {"check", "asleep", "woken", "unlock"} THEN 1 ELSE 0
      /\ pc[t] \in {"lock", "enter"} => entered[t] < Rounds

\* Who is past the loop of round k, all are counted in for round k.
PassedTogether ==
    \A t, u \in Threads : /\ left[t] <= entered[u]
                          /\ pc[t] = "unlock" => entered[t] <= entered[u]

SleepersWait == \A t \in Threads : pc[t] = "asleep" => MustWait(t)

Waiting == {t \in Threads : pc[t] \in {"check", "asleep", "woken"}}

CountedIn(r) == {t \in Threads : entered[t] = r}

\* The round in progress is r: count threads are counted in for it, and
\* times_used tells those that wait in it from those left over from r - 1.
InRound(r) ==
    /\ \A t \in Threads : entered[t] = r \/ entered[t] = r - 1
    /\ count = Cardinality(CountedIn(r))
    /\ \A t \in Waiting : /\ entered[t] = r => old_time_used[t] = times_used
                          /\ entered[t] = r - 1 => Incremented(old_time_used[t]) = times_used

SomeRound == \E r \in Nat \ {0} : InRound(r)

IInv == /\ TypeOK /\ MutexHeldInside /\ Bookkeeping
        /\ PassedTogether /\ SleepersWait /\ SomeRound

-----------------------------------------------------------------------------
(* The number of threads is a number, and not 0 if there is a thread.      *)
LEMMA ThreadCount == /\ IsFiniteSet(Threads)
                     /\ n_threads \in Nat
                     /\ Threads # {} => n_threads # 0
BY BarrierAssumption, FS_CardinalityType, FS_EmptySet DEF n_threads

(* The threads counted in are all threads exactly when there are as many.  *)
LEMMA AllCountedIn ==
    ASSUME NEW r
    PROVE  /\ IsFiniteSet(CountedIn(r)) /\ Cardinality(CountedIn(r)) \in 0..n_threads
           /\ Cardinality(CountedIn(r)) = n_threads <=> CountedIn(r) = Threads
<1>1. CountedIn(r) \in SUBSET Threads
  BY DEF CountedIn
<1>2. /\ IsFiniteSet(CountedIn(r)) /\ Cardinality(CountedIn(r)) <= n_threads
      /\ n_threads = Cardinality(CountedIn(r)) => CountedIn(r) = Threads
  BY <1>1, FS_Subset, ThreadCount DEF n_threads
<1>3. Cardinality(CountedIn(r)) \in Nat
  BY <1>2, FS_CardinalityType
<1> QED
  BY <1>2, <1>3, ThreadCount DEF n_threads

(* Incrementing times_used, wrap-around included, changes it.              *)
LEMMA IncrementedType ==
    ASSUME NEW x \in 0..WrapAfter - 1
    PROVE  Incremented(x) \in 0..WrapAfter - 1 /\ Incremented(x) # x
BY BarrierAssumption DEF Incremented

(* barrier_init establishes the invariant, with round 1 in progress.       *)
LEMMA InitIInv == Init => IInv
<1> SUFFICES ASSUME Init PROVE IInv
  OBVIOUS
<1> USE BarrierAssumption, MonitorAssumption DEF Init
<1>1. TypeOK
  BY ThreadCount DEF TypeOK, Stages
<1>2. MutexHeldInside /\ Bookkeeping /\ PassedTogether /\ SleepersWait
  BY DEF MutexHeldInside, Bookkeeping, PassedTogether, SleepersWait
<1>3. InRound(1)
  <2>1. CountedIn(1) = {} /\ Waiting = {}
    BY DEF CountedIn, Waiting
  <2> QED
    BY <2>1, FS_EmptySet DEF InRound
<1> QED
  BY <1>1, <1>2, <1>3 DEF IInv, SomeRound

(* A step that counts nobody in keeps the round.                           *)
LEMMA RoundUnchanged ==
    ASSUME TypeOK, SomeRound, UNCHANGED <<count, times_used, old_time_used, entered>>,
           Waiting' \subseteq Waiting
    PROVE  SomeRound'
<1>1. PICK r \in Nat \ {0} : InRound(r)
  BY DEF SomeRound
<1>2. CountedIn(r)' = CountedIn(r)
  BY DEF CountedIn
<1>3. InRound(r)'
  BY <1>1, <1>2 DEF InRound, Incremented, Waiting
<1> QED
  BY <1>3 DEF SomeRound

-----------------------------------------------------------------------------
(* Being counted in.                                                       *)
LEMMA EnterIInv ==
    ASSUME IInv, NEW t \in Threads, Enter(t)
    PROVE  IInv'
<1> USE MonitorAssumption DEF IInv
<1>1. PICK r \in Nat \ {0} : InRound(r)
  BY DEF SomeRound
<1>2. /\ pc[t] = "enter" /\ entered' = [entered EXCEPT ![t] = @ + 1]
      /\ UNCHANGED <<owner, left>>
  BY DEF Enter, Broadcast, Step
<1>3. /\ entered[t] = left[t] /\ entered[t] < Rounds
      /\ \A u \in Threads : entered[u] \in Nat /\ entered[u] >= entered[t]
  BY <1>2 DEF Bookkeeping, PassedTogether, TypeOK
<1>4. n_threads \in Nat /\ n_threads # 0 /\ Rounds \in Nat
  BY ThreadCount, BarrierAssumption
<1>5. \E q \in Nat \ {0} :
        /\ \A u \in Threads : entered'[u] = q \/ entered'[u] = q - 1
        /\ entered'[t] = q
        /\ count' = Cardinality(CountedIn(q)') /\ count' \in 0..n_threads
        /\ times_used' \in 0..WrapAfter - 1
        /\ \A u \in Waiting : /\ entered'[u] = q => old_time_used[u] = times_used'
                              /\ entered'[u] = q - 1 => Incremented(old_time_used[u]) = times_used'
        /\ count' # n_threads => \A u \in Threads : pc[u] = "asleep" => times_used' = times_used
  <2>0. t \notin Waiting
    BY <1>2 DEF Waiting
  <2>1. CASE count = n_threads
    <3>1. \A u \in Threads : entered[u] = r
      BY <2>1, <1>1, AllCountedIn DEF InRound, CountedIn
    <3>2. count' = 1 /\ times_used' = Incremented(times_used)
      BY <2>1 DEF Enter, NewRound
    <3>3. CountedIn(r + 1)' = {t}
      BY <3>1, <1>2 DEF CountedIn, TypeOK
    <3>4. \A u \in Threads : pc[u] # "asleep"
      BY <2>1 DEF SleepersWait, MustWait
    <3>5. \A u \in Waiting : entered'[u] = r /\ old_time_used[u] = times_used
      BY <3>1, <2>0, <1>1, <1>2 DEF InRound, Waiting, TypeOK
    <3>6. times_used' \in 0..WrapAfter - 1
      BY <3>2, IncrementedType DEF TypeOK
    <3>7. \A u \in Threads : entered'[u] = r + 1 \/ entered'[u] = r
      BY <3>1, <1>2 DEF TypeOK
    <3>8. entered'[t] = r + 1
      BY <3>1, <1>2 DEF TypeOK
    <3>9. count' = Cardinality(CountedIn(r + 1)') /\ count' \in 0..n_threads
      <4>1. Cardinality({t}) = 1
        BY FS_Singleton
      <4>2. Cardinality(CountedIn(r + 1)') = 1
        BY <4>1, <3>3, Zenon
      <4>3. count' \in 0..n_threads
        BY <3>2, <1>4
      <4> QED
        BY <4>2, <4>3, <3>2
    <3> QED
      BY <3>2, <3>4, <3>5, <3>6, <3>7, <3>8, <3>9
  <2>2. CASE count # n_threads
    <3>1. entered[t] = r - 1
      <4>1. CASE entered[t] = r
        <5>1. \A u \in Threads : entered[u] = r
          BY <4>1, <1>1, <1>3 DEF InRound
        <5>2. CountedIn(r) = Threads
          BY <5>1 DEF CountedIn
        <5> QED
          BY <5>2, <2>2, <1>1, AllCountedIn DEF InRound
      <4> QED
        BY <4>1, <1>1 DEF InRound
    <3>2. count' = count + 1 /\ times_used' = times_used
      BY <2>2 DEF Enter, NewRound
    <3>3. CountedIn(r)' = CountedIn(r) \cup {t} /\ t \notin CountedIn(r)
      BY <3>1, <1>1, <1>2 DEF CountedIn, TypeOK, InRound
    <3>4. count' = Cardinality(CountedIn(r)')
      BY <3>2, <3>3, <1>1, AllCountedIn, FS_AddElement DEF InRound
    <3>5. \A u \in Threads : entered'[u] = r \/ entered'[u] = r - 1
      BY <3>1, <1>1, <1>2 DEF InRound, TypeOK
    <3>6. entered'[t] = r
      BY <3>1, <1>2 DEF TypeOK
    <3>7. \A u \in Waiting : u # t /\ entered'[u] = entered[u]
      BY <2>0, <1>2 DEF Waiting, TypeOK
    <3>8. count' \in 0..n_threads
      BY <3>2, <2>2, <1>4 DEF TypeOK
    <3> QED
      BY <3>2, <3>4, <3>5, <3>6, <3>7, <3>8, <1>1 DEF InRound, TypeOK
  <2> QED
    BY <2>1, <2>2
<1>6. PICK q \in Nat \ {0} :
        /\ \A u \in Threads : entered'[u] = q \/ entered'[u] = q - 1
        /\ entered'[t] = q
        /\ count' = Cardinality(CountedIn(q)') /\ count' \in 0..n_threads
        /\ times_used' \in 0..WrapAfter - 1
        /\ \A u \in Waiting : /\ entered'[u] = q => old_time_used[u] = times_used'
                              /\ entered'[u] = q - 1 => Incremented(old_time_used[u]) = times_used'
        /\ count' # n_threads => \A u \in Threads : pc[u] = "asleep" => times_used' = times_used
  BY <1>5
<1>7. \/ /\ count' = n_threads /\ UNCHANGED old_time_used
         /\ pc' = [u \in Threads |-> IF u = t THEN "unlock"
                                     ELSE IF pc[u] = "asleep" THEN "woken" ELSE pc[u]]
      \/ /\ count' # n_threads /\ pc' = [pc EXCEPT ![t] = "check"]
         /\ old_time_used' = [old_time_used EXCEPT ![t] = times_used']
  BY DEF Enter, Broadcast, Step, Goto
<1>8. n_threads' = n_threads
  BY DEF n_threads
<1>9. TypeOK'
  BY <1>2, <1>3, <1>4, <1>6, <1>7, <1>8 DEF TypeOK, Stages
<1>10. MutexHeldInside' /\ Bookkeeping'
  BY <1>2, <1>3, <1>7 DEF TypeOK, MutexHeldInside, Bookkeeping, Stages
<1>11. PassedTogether'
  <2>1. \A u, v \in Threads : left[u] <= entered'[v]
    BY <1>2 DEF PassedTogether, TypeOK
  <2>2. \A u \in Threads : pc[u] # "unlock"
    BY <1>2 DEF MutexHeldInside
  <2>3. pc'[t] = "unlock" => \A v \in Threads : entered'[v] = q
    <3>1. SUFFICES ASSUME pc'[t] = "unlock" PROVE \A v \in Threads : entered'[v] = q
      OBVIOUS
    <3>2. count' = n_threads
      BY <3>1, <1>2, <1>7 DEF TypeOK
    <3>3. CountedIn(q)' \in SUBSET Threads
      BY DEF CountedIn
    <3>4. CountedIn(q)' = Threads
      BY <3>2, <3>3, <1>6, FS_Subset, ThreadCount DEF n_threads
    <3> QED
      BY <3>4 DEF CountedIn
  <2>4. \A u \in Threads : pc'[u] = "unlock" => u = t
    BY <2>2, <1>7 DEF TypeOK
  <2>5. \A u, v \in Threads : pc'[u] = "unlock" => entered'[u] <= entered'[v]
    BY <2>3, <2>4, <1>6
  <2> QED
    BY <2>1, <2>5, <1>2 DEF PassedTogether
<1>12. SleepersWait'
  <2>1. CASE count' = n_threads
    BY <2>1, <1>7 DEF SleepersWait, TypeOK
  <2>2. CASE count' # n_threads
    BY <2>2, <1>2, <1>6, <1>7, <1>8 DEF SleepersWait, MustWait, TypeOK
  <2> QED
    BY <2>1, <2>2
<1>13. InRound(q)'
  <2>1. Waiting' \subseteq Waiting \cup {t}
    BY <1>2, <1>7 DEF Waiting, TypeOK
  <2>2. t \in Waiting' => old_time_used'[t] = times_used'
    BY <1>7 DEF Waiting, TypeOK
  <2>3. \A u \in Threads : u # t => old_time_used'[u] = old_time_used[u]
    BY <1>7 DEF TypeOK
  <2>4. \A u \in Waiting' :
           /\ entered'[u] = q => old_time_used'[u] = times_used'
           /\ entered'[u] = q - 1 => Incremented(old_time_used'[u]) = times_used'
    BY <2>1, <2>2, <2>3, <1>6 DEF Waiting
  <2> QED
    BY <2>4, <1>6 DEF InRound, Incremented
<1> QED
  BY <1>9, <1>10, <1>11, <1>12, <1>13 DEF SomeRound

(* The loop: a thread goes to sleep in the round in progress, or leaves    *)
(* because all are counted in for the round it entered.                    *)
LEMMA CheckIInv ==
    ASSUME IInv, NEW t \in Threads, Check(t)
    PROVE  IInv'
<1> USE MonitorAssumption DEF IInv
<1>1. /\ pc[t] = "check" /\ UNCHANGED barrier
      /\ \/ MustWait(t) /\ pc' = [pc EXCEPT ![t] = "asleep"] /\ owner' = NULL
         \/ ~MustWait(t) /\ pc' = [pc EXCEPT ![t] = "unlock"] /\ owner' = owner
  BY DEF Check, CondWait, Release, Step, Goto
<1>2. TypeOK'
  BY <1>1 DEF TypeOK, Stages, barrier, n_threads
<1>3. MutexHeldInside' /\ Bookkeeping'
  BY <1>1 DEF TypeOK, MutexHeldInside, Bookkeeping, barrier
<1>4. SleepersWait'
  BY <1>1 DEF TypeOK, SleepersWait, MustWait, barrier, n_threads
<1>5. ~MustWait(t) => \A u \in Threads : entered[t] <= entered[u]
  <2>1. SUFFICES ASSUME ~MustWait(t) PROVE \A u \in Threads : entered[t] <= entered[u]
    OBVIOUS
  <2>2. PICK r \in Nat \ {0} : InRound(r)
    BY DEF SomeRound
  <2>3. CASE count = n_threads
    <3>1. CountedIn(r) = Threads
      BY <2>2, <2>3, AllCountedIn DEF InRound
    <3> QED
      BY <3>1 DEF CountedIn, TypeOK
  <2>4. CASE old_time_used[t] # times_used
    <3>1. entered[t] = r - 1
      BY <2>2, <2>4, <1>1 DEF InRound, Waiting
    <3> QED
      BY <3>1, <2>2 DEF InRound
  <2> QED
    BY <2>1, <2>3, <2>4 DEF MustWait
<1>6. PassedTogether'
  <2>1. UNCHANGED <<left, entered>>
    BY <1>1 DEF barrier
  <2>2. \A u \in Threads : pc'[u] = "unlock" =>
                              pc[u] = "unlock" \/ (u = t /\ ~MustWait(t))
    BY <1>1 DEF TypeOK
  <2> QED
    BY <2>1, <2>2, <1>5 DEF PassedTogether
<1>7. SomeRound'
  <2>1. Waiting' \subseteq Waiting
    BY <1>1 DEF Waiting, TypeOK
  <2> QED
    BY <2>1, <1>1, RoundUnchanged DEF barrier
<1> QED
  BY <1>2, <1>3, <1>4, <1>6, <1>7

(* The steps around the mutex.                                             *)
LEMMA MutexIInv ==
    ASSUME IInv, NEW t \in Threads, Call(t) \/ Lock(t) \/ Relock(t) \/ Spurious(t)
    PROVE  IInv'
<1> USE MonitorAssumption DEF IInv
<1>1. /\ UNCHANGED barrier
      /\ \/ pc[t] = "idle" /\ pc' = [pc EXCEPT ![t] = "lock"] /\ owner' = owner
            /\ entered[t] < Rounds
         \/ pc[t] = "lock" /\ pc' = [pc EXCEPT ![t] = "enter"] /\ owner = NULL /\ owner' = t
         \/ pc[t] = "woken" /\ pc' = [pc EXCEPT ![t] = "check"] /\ owner = NULL /\ owner' = t
         \/ pc[t] = "asleep" /\ pc' = [pc EXCEPT ![t] = "woken"] /\ owner' = owner
  BY DEF Call, Lock, Relock, Spurious, SpuriousWakeup, Acquire, Step, Goto
<1>2. TypeOK'
  BY <1>1 DEF TypeOK, Stages, barrier, n_threads
<1>3. MutexHeldInside' /\ Bookkeeping'
  BY <1>1 DEF TypeOK, MutexHeldInside, Bookkeeping, barrier
<1>4. SleepersWait' /\ PassedTogether'
  BY <1>1 DEF TypeOK, SleepersWait, MustWait, PassedTogether, barrier, n_threads
<1>5. SomeRound'
  <2>1. Waiting' \subseteq Waiting
    BY <1>1 DEF Waiting, TypeOK
  <2> QED
    BY <2>1, <1>1, RoundUnchanged DEF barrier
<1> QED
  BY <1>2, <1>3, <1>4, <1>5

(* Returning.                                                              *)
LEMMA UnlockIInv ==
    ASSUME IInv, NEW t \in Threads, Unlock(t)
    PROVE  IInv'
<1> USE MonitorAssumption DEF IInv
<1>1. /\ pc[t] = "unlock" /\ pc' = [pc EXCEPT ![t] = "idle"] /\ owner' = NULL
      /\ left' = [left EXCEPT ![t] = @ + 1]
      /\ UNCHANGED <<count, times_used, old_time_used, entered>>
  BY DEF Unlock, Release, Goto
<1>2. entered[t] = left[t] + 1 /\ \A u \in Threads : entered[t] <= entered[u]
  BY <1>1 DEF Bookkeeping, PassedTogether
<1>3. TypeOK'
  BY <1>1, <1>2, BarrierAssumption DEF TypeOK, Stages, n_threads
<1>4. MutexHeldInside' /\ Bookkeeping'
  BY <1>1 DEF TypeOK, MutexHeldInside, Bookkeeping
<1>5. SleepersWait' /\ PassedTogether'
  BY <1>1, <1>2 DEF TypeOK, SleepersWait, MustWait, PassedTogether, n_threads
<1>6. SomeRound'
  <2>1. Waiting' \subseteq Waiting
    BY <1>1 DEF Waiting, TypeOK
  <2> QED
    BY <2>1, <1>1, RoundUnchanged
<1> QED
  BY <1>3, <1>4, <1>5, <1>6

(* Every step preserves the invariant.                                     *)
LEMMA NextIInv == IInv /\ [Next]_vars => IInv'
<1> SUFFICES ASSUME IInv, [Next]_vars PROVE IInv'
  OBVIOUS
<1>1. ASSUME NEW t \in Threads, Call(t) \/ WaitStep(t) \/ Spurious(t) PROVE IInv'
  BY <1>1, EnterIInv, CheckIInv, MutexIInv, UnlockIInv DEF WaitStep
<1>2. CASE UNCHANGED vars
  <2>1. UNCHANGED <<owner, pc, count, times_used, old_time_used, entered, left>>
    BY <1>2 DEF vars
  <2>2. Waiting' \subseteq Waiting
    BY <2>1 DEF Waiting
  <2>3. SomeRound'
    BY <2>1, <2>2, RoundUnchanged DEF IInv
  <2> QED
    BY <2>1, <2>3 DEF IInv, TypeOK, MutexHeldInside, Bookkeeping, PassedTogether,
                      SleepersWait, MustWait, n_threads
<1> QED
  BY <1>1, <1>2 DEF Next, Finished

(* The inductive invariant holds in every reachable state.                 *)
THEOREM Invariance == Spec => []IInv
<1>1. Init => IInv
  BY InitIInv
<1>2. IInv /\ [Next]_vars => IInv'
  BY NextIInv
<1> QED
  BY <1>1, <1>2, PTL DEF Spec

-----------------------------------------------------------------------------
(* Nobody sleeps through the end of its round.                             *)
THEOREM NobodyOversleeps == Spec => []SleepsOnlyInOpenRound
<1>1. IInv => SleepsOnlyInOpenRound
  <2> SUFFICES ASSUME IInv, NEW t \in Threads, pc[t] = "asleep"
               PROVE  \E u \in Threads : entered[u] < entered[t]
    BY DEF SleepsOnlyInOpenRound
  <2>1. PICK r \in Nat \ {0} : InRound(r)
    BY DEF IInv, SomeRound
  <2>2. old_time_used[t] = times_used /\ count # n_threads /\ t \in Waiting
    BY DEF IInv, SleepersWait, MustWait, Waiting
  <2>3. entered[t] = r
    BY <2>1, <2>2, IncrementedType DEF InRound, IInv, TypeOK
  <2>4. PICK u \in Threads : entered[u] # r
    BY <2>1, <2>2, AllCountedIn DEF InRound, CountedIn
  <2> QED
    BY <2>1, <2>3, <2>4 DEF InRound
<1> QED
  BY <1>1, Invariance, PTL

(* barrier.c implements the abstract barrier.                              *)
THEOREM BarrierIsReusable == Spec => ImplementsBarrier
<1>1. Init => /\ entered = [t \in Threads |-> 0]
              /\ left = [t \in Threads |-> 0]
  BY DEF Init
<1>2. IInv /\ [Next]_vars => [\E t \in Threads : B!Enter(t) \/ B!Leave(t)]_<<entered, left>>
  <2> SUFFICES ASSUME IInv, [Next]_vars
               PROVE  (\E t \in Threads : B!Enter(t) \/ B!Leave(t)) \/ UNCHANGED <<entered, left>>
    OBVIOUS
  <2>1. ASSUME NEW t \in Threads, Enter(t) PROVE B!Enter(t)
    <3>1. /\ pc[t] = "enter" /\ entered' = [entered EXCEPT ![t] = @ + 1]
          /\ UNCHANGED left
      BY <2>1 DEF Enter, Broadcast, Step
    <3>2. entered[t] = left[t] + 0 /\ left[t] \in Nat /\ entered[t] < Rounds
      BY <3>1 DEF IInv, TypeOK, Bookkeeping
    <3> QED
      BY <3>1, <3>2 DEF B!Enter
  <2>2. ASSUME NEW t \in Threads, Unlock(t) PROVE B!Leave(t)
    <3>1. entered[t] = left[t] + 1 /\ \A u \in Threads : entered[t] <= entered[u]
      BY <2>2 DEF IInv, Bookkeeping, PassedTogether, Unlock
    <3> QED
      BY <2>2, <3>1 DEF Unlock, B!Leave, IInv, TypeOK
  <2>3. ASSUME NEW t \in Threads, Call(t) \/ Lock(t) \/ Relock(t) \/ Check(t) \/ Spurious(t)
        PROVE  UNCHANGED <<entered, left>>
    BY <2>3 DEF Call, Lock, Relock, Check, Spurious, barrier
  <2>4. CASE UNCHANGED vars
    BY <2>4 DEF vars
  <2> QED
    BY <2>1, <2>2, <2>3, <2>4 DEF Next, WaitStep, Finished
<1> QED
  BY <1>1, <1>2, Invariance, PTL DEF Spec, ImplementsBarrier, B!BarrierSpec
=============================================================================
