----------------------------- MODULE Drm_proofs -----------------------------
(***************************************************************************)
(* libdrm.c for any number of threads and drms: the graph knows all that   *)
(* blocks, and no thread unlocks a mutex that it has not locked.           *)
(***************************************************************************)
EXTENDS Drm, FiniteSetTheorems, TLAPS

Locking(t, d) == pc[t] = "locking" /\ at[t] = d

Given(d, t) == <<d, t>> \in edges

WaitsFor(t, d) == <<t, d>> \in edges

\* Who was given a drm has locked m, or is about to.
GivenLocks ==
    \A d \in Drms, t \in Threads :
        Given(d, t) => \/ Locking(t, d)
                       \/ holder[d] = t /\ ~(pc[t] = "unlocking" /\ at[t] = d)

\* Who waits in the graph is locking m, or got it ahead of the thread the
\* drm was given to.
WaitersLock ==
    \A d \in Drms, t \in Threads :
        WaitsFor(t, d) => \/ Locking(t, d)
                          \/ /\ holder[d] = t
                             /\ \E u \in Threads \ {t} : Given(d, u) /\ Locking(u, d)

\* A drm is given to one thread at most, and to one if a thread waits for it.
GivenToOne ==
    \A d \in Drms :
      /\ \A t, u \in Threads : Given(d, t) /\ Given(d, u) => t = u
      /\ \A t \in Threads :
           WaitsFor(t, d) => ~Given(d, t) /\ \E u \in Threads : Given(d, u)

LockersKnown == \A t \in Threads : pc[t] = "locking" => WaitsFor(t, at[t]) \/ Given(at[t], t)

UnlockersGone ==
    \A t \in Threads : pc[t] = "unlocking" =>
        holder[at[t]] = t /\ ~WaitsFor(t, at[t]) /\ ~Given(at[t], t)

IInv == /\ TypeOK /\ GivenLocks /\ WaitersLock /\ GivenToOne
        /\ LockersKnown /\ UnlockersGone
-----------------------------------------------------------------------------
(* A step that leaves all but mtx alone keeps the invariant.               *)
LEMMA OnlyMtx ==
    ASSUME IInv, UNCHANGED <<edges, holder, pc, at>>, mtx' \in Threads \cup {NULL}
    PROVE  IInv'
<1> USE DEF IInv
<1>1. TypeOK'
  BY DEF TypeOK
<1>2. \A d \in Drms, t \in Threads : /\ Given(d, t)' <=> Given(d, t)
                                     /\ WaitsFor(t, d)' <=> WaitsFor(t, d)
                                     /\ Locking(t, d)' <=> Locking(t, d)
  BY DEF Given, WaitsFor, Locking
<1>3. GivenLocks' /\ WaitersLock' /\ GivenToOne'
  BY <1>2 DEF GivenLocks, WaitersLock, GivenToOne
<1>4. LockersKnown' /\ UnlockersGone'
  BY DEF LockersKnown, UnlockersGone, Given, WaitsFor
<1> QED
  BY <1>1, <1>3, <1>4

(* A step of t with drm d that adds an edge between them, or takes away    *)
(* the edge from t to d, is all that drm_wait does to the graph.           *)
LEMMA WaitIInv ==
    ASSUME IInv, NEW t \in Threads, NEW d \in Drms, drm_wait(t, d)
    PROVE  IInv'
<1> USE DrmAssumption DEF IInv
<1>1. pc[t] = "idle" /\ at[t] = NULL /\ UNCHANGED holder
  BY DEF drm_wait, TypeOK
<1>2. CASE WaitAgain(t, d)
  <2>1. UNCHANGED <<edges, holder, pc, at>> /\ mtx' \in Threads \cup {NULL}
    BY <1>1, <1>2 DEF WaitAgain
  <2> QED
    BY <2>1, OnlyMtx
<1>3. CASE WaitFree(t, d)
  <2>1. /\ pc' = [pc EXCEPT ![t] = "locking"] /\ at' = [at EXCEPT ![t] = d]
        /\ edges' = edges \cup {<<d, t>>} /\ UNCHANGED <<holder, mtx>>
    BY <1>1, <1>3 DEF WaitFree, Goto
  <2>2. \A u \in Threads : ~Given(d, u) /\ ~WaitsFor(u, d)
    BY <1>3 DEF WaitFree, neighbors, Vertices, GivenToOne, Given
  <2>3. \A e \in Drms, u \in Threads : /\ Given(e, u)' <=> Given(e, u) \/ (e = d /\ u = t)
                                       /\ WaitsFor(u, e)' <=> WaitsFor(u, e)
    BY <2>1 DEF Given, WaitsFor
  <2>4. \A e \in Drms, u \in Threads : Locking(u, e)' <=> Locking(u, e) \/ (e = d /\ u = t)
    BY <1>1, <2>1 DEF Locking, TypeOK
  <2>5. TypeOK'
    BY <1>1, <2>1 DEF TypeOK
  <2>6. GivenLocks'
    BY <1>1, <2>1, <2>3, <2>4 DEF GivenLocks, TypeOK
  <2>7. WaitersLock'
    BY <1>1, <2>1, <2>3, <2>4 DEF WaitersLock
  <2>8. GivenToOne'
    BY <2>2, <2>3 DEF GivenToOne
  <2>9. LockersKnown'
    BY <2>1, <2>3 DEF LockersKnown, TypeOK
  <2>10. UnlockersGone'
    BY <1>1, <2>1, <2>3 DEF UnlockersGone, TypeOK
  <2> QED
    BY <2>5, <2>6, <2>7, <2>8, <2>9, <2>10
<1>4. CASE WaitTaken(t, d)
  <2>1. UNCHANGED <<holder, mtx>> /\ ~Given(d, t)
    BY <1>1, <1>4 DEF WaitTaken, Given
  <2>2. PICK u \in Threads : Given(d, u)
    BY <1>4 DEF WaitTaken, neighbors, Vertices, Given, TypeOK
  <2>3. CASE /\ pc' = [pc EXCEPT ![t] = "locking"] /\ at' = [at EXCEPT ![t] = d]
             /\ edges' = edges \cup {<<t, d>>}
    <3>1. \A e \in Drms, v \in Threads : /\ Given(e, v)' <=> Given(e, v)
                                         /\ WaitsFor(v, e)' <=> WaitsFor(v, e) \/ (e = d /\ v = t)
      BY <2>3 DEF Given, WaitsFor
    <3>2. \A e \in Drms, v \in Threads : Locking(v, e)' <=> Locking(v, e) \/ (e = d /\ v = t)
      BY <1>1, <2>3 DEF Locking, TypeOK
    <3>3. TypeOK'
      BY <1>1, <2>1, <2>3 DEF TypeOK
    <3>4. GivenLocks'
      BY <1>1, <2>1, <2>3, <3>1, <3>2 DEF GivenLocks, TypeOK
    <3>5. WaitersLock'
      BY <2>1, <3>1, <3>2 DEF WaitersLock
    <3>6. GivenToOne'
      BY <2>1, <2>2, <3>1 DEF GivenToOne
    <3>7. LockersKnown'
      BY <2>3, <3>1 DEF LockersKnown, TypeOK
    <3>8. UnlockersGone'
      BY <1>1, <2>1, <2>3, <3>1 DEF UnlockersGone, TypeOK
    <3> QED
      BY <3>3, <3>4, <3>5, <3>6, <3>7, <3>8
  <2>4. CASE UNCHANGED <<pc, at>> /\ edges' = edges \ {<<t, d>>}
    <3>1. \A e \in Drms, v \in Threads :
             /\ Given(e, v)' <=> Given(e, v)
             /\ WaitsFor(v, e)' <=> WaitsFor(v, e) /\ ~(e = d /\ v = t)
             /\ Locking(v, e)' <=> Locking(v, e)
      BY <2>4 DEF Given, WaitsFor, Locking
    <3>2. TypeOK'
      BY <2>1, <2>4 DEF TypeOK
    <3>3. GivenLocks' /\ WaitersLock' /\ GivenToOne'
      BY <2>1, <2>4, <3>1 DEF GivenLocks, WaitersLock, GivenToOne
    <3>4. LockersKnown' /\ UnlockersGone'
      BY <1>1, <2>1, <2>4, <3>1 DEF LockersKnown, UnlockersGone, TypeOK
    <3> QED
      BY <3>2, <3>3, <3>4
  <2> QED
    BY <1>4, <2>3, <2>4 DEF WaitTaken, Goto
<1> QED
  BY <1>2, <1>3, <1>4 DEF drm_wait

(* pthread_mutex_lock(&d->m) returns.                                      *)
LEMMA LockedIInv ==
    ASSUME IInv, NEW t \in Threads, Locked(t)
    PROVE  IInv'
<1> USE DrmAssumption DEF IInv
<1>1. PICK d \in Drms : at[t] = d
  BY DEF Locked, TypeOK
<1>2. /\ Locking(t, d) /\ holder[d] = NULL /\ holder' = [holder EXCEPT ![d] = t]
      /\ pc' = [pc EXCEPT ![t] = "idle"] /\ at' = [at EXCEPT ![t] = NULL]
      /\ UNCHANGED <<edges, mtx>>
  BY <1>1 DEF Locked, Goto, Locking
<1>3. \A e \in Drms, u \in Threads :
         /\ Given(e, u)' <=> Given(e, u)
         /\ WaitsFor(u, e)' <=> WaitsFor(u, e)
         /\ Locking(u, e)' <=> Locking(u, e) /\ u # t
  BY <1>2 DEF Given, WaitsFor, Locking, TypeOK
<1>4. TypeOK'
  BY <1>2 DEF TypeOK
<1>5. GivenLocks'
  BY <1>2, <1>3 DEF GivenLocks, Locking, TypeOK
<1>6. WaitersLock'
  <2> SUFFICES ASSUME NEW e \in Drms, NEW u \in Threads, WaitsFor(u, e)'
               PROVE  \/ Locking(u, e)'
                      \/ holder'[e] = u /\ \E v \in Threads \ {u} : Given(e, v)' /\ Locking(v, e)'
    BY DEF WaitersLock
  <2>1. WaitsFor(u, e) /\ ~Given(e, u)
    BY <1>3 DEF GivenToOne
  <2>2. CASE u = t /\ e = d
    <3>1. PICK v \in Threads : Given(d, v)
      BY <2>1, <2>2 DEF GivenToOne
    <3>2. v # t /\ Locking(v, d)
      BY <1>2, <2>1, <2>2, <3>1 DEF GivenLocks, TypeOK
    <3> QED
      BY <1>2, <1>3, <2>2, <3>1, <3>2 DEF TypeOK
  <2>3. CASE u = t /\ e # d
    <3>1. holder[e] = u /\ \E v \in Threads \ {u} : Given(e, v) /\ Locking(v, e)
      BY <1>2, <2>1, <2>3 DEF WaitersLock, Locking
    <3> QED
      BY <1>2, <1>3, <2>3, <3>1 DEF TypeOK
  <2>4. CASE u # t
    <3>1. CASE Locking(u, e)
      BY <1>3, <2>4, <3>1
    <3>2. CASE holder[e] = u /\ \E v \in Threads \ {u} : Given(e, v) /\ Locking(v, e)
      <4>1. PICK v \in Threads \ {u} : Given(e, v) /\ Locking(v, e)
        BY <3>2
      <4>2. e # d
        BY <1>2, <3>2
      <4>3. v # t
        BY <1>2, <4>1, <4>2 DEF Locking
      <4> QED
        BY <1>2, <1>3, <3>2, <4>1, <4>2, <4>3 DEF TypeOK
    <3> QED
      BY <2>1, <3>1, <3>2 DEF WaitersLock
  <2> QED
    BY <2>2, <2>3, <2>4
<1>7. GivenToOne'
  BY <1>3 DEF GivenToOne
<1>8. LockersKnown'
  BY <1>2 DEF LockersKnown, TypeOK, WaitsFor, Given
<1>9. UnlockersGone'
  BY <1>2 DEF UnlockersGone, TypeOK, WaitsFor, Given, Locking
<1> QED
  BY <1>4, <1>5, <1>6, <1>7, <1>8, <1>9

(* drm_post takes the drm from t and gives it to one of those that wait.   *)
LEMMA PostIInv ==
    ASSUME IInv, NEW t \in Threads, NEW d \in Drms, drm_post(t, d)
    PROVE  IInv'
<1> USE DrmAssumption DEF IInv
<1>1. pc[t] = "idle" /\ at[t] = NULL /\ UNCHANGED <<holder, mtx>>
  BY DEF drm_post, TypeOK
<1>2. CASE PostOther(t, d)
  BY <1>1, <1>2, OnlyMtx DEF PostOther, TypeOK
<1>3. CASE PostOwn(t, d)
  <2>1. /\ Given(d, t) /\ HandOver(t, d)
        /\ pc' = [pc EXCEPT ![t] = "unlocking"] /\ at' = [at EXCEPT ![t] = d]
    BY <1>3 DEF PostOwn, Goto, Given
  <2>2. holder[d] = t /\ ~WaitsFor(t, d) /\ \A u \in Threads : Given(d, u) => u = t
    BY <1>1, <2>1 DEF GivenLocks, GivenToOne, Locking
  <2>3. \A u \in Threads : WaitsFor(u, d) => u # t /\ Locking(u, d)
    BY <2>2 DEF WaitersLock
  <2>4. \A e \in Drms, u \in Threads : Locking(u, e)' <=> Locking(u, e)
    BY <1>1, <2>1 DEF Locking, TypeOK
  <2>5. CASE antineighbors(d) = {}
    <3>1. edges' = edges \ {<<d, t>>}
      BY <2>1, <2>5 DEF HandOver
    <3>2. \A u \in Threads : ~WaitsFor(u, d)
      BY <2>5 DEF antineighbors, Vertices, WaitsFor
    <3>3. \A e \in Drms, u \in Threads : /\ Given(e, u)' <=> Given(e, u) /\ ~(e = d /\ u = t)
                                         /\ WaitsFor(u, e)' <=> WaitsFor(u, e)
      BY <3>1 DEF Given, WaitsFor
    <3>4. TypeOK'
      BY <1>1, <2>1, <3>1 DEF TypeOK
    <3>5. GivenLocks'
      BY <1>1, <2>1, <2>4, <3>3 DEF GivenLocks, TypeOK
    <3>6. WaitersLock'
      BY <1>1, <2>4, <3>2, <3>3 DEF WaitersLock
    <3>7. GivenToOne'
      BY <3>2, <3>3 DEF GivenToOne
    <3>8. LockersKnown' /\ UnlockersGone'
      BY <1>1, <2>1, <2>2, <3>2, <3>3 DEF LockersKnown, UnlockersGone, TypeOK
    <3> QED
      BY <3>4, <3>5, <3>6, <3>7, <3>8
  <2>6. CASE antineighbors(d) # {}
    <3>1. PICK u \in antineighbors(d) :
            edges' = ((edges \ {<<d, t>>}) \cup {<<d, u>>}) \ {<<u, d>>}
      BY <2>1, <2>6 DEF HandOver
    <3>2. u \in Threads /\ WaitsFor(u, d)
      BY <3>1 DEF antineighbors, Vertices, WaitsFor, TypeOK
    <3>3. u # t /\ Locking(u, d)
      BY <2>3, <3>2
    <3>4. \A e \in Drms, v \in Threads :
             /\ Given(e, v)' <=> IF e = d THEN v = u ELSE Given(e, v)
             /\ WaitsFor(v, e)' <=> WaitsFor(v, e) /\ ~(e = d /\ v = u)
      BY <2>2, <3>1, <3>2, <3>3 DEF Given, WaitsFor
    <3>5. TypeOK'
      BY <1>1, <2>1, <3>1, <3>2 DEF TypeOK
    <3>6. GivenLocks'
      BY <1>1, <2>1, <2>4, <3>3, <3>4 DEF GivenLocks, TypeOK
    <3>7. WaitersLock'
      <4> SUFFICES ASSUME NEW e \in Drms, NEW v \in Threads, WaitsFor(v, e)', ~Locking(v, e)'
                   PROVE  holder'[e] = v /\ \E w \in Threads \ {v} : Given(e, w)' /\ Locking(w, e)'
        BY DEF WaitersLock
      <4>1. e # d
        BY <2>3, <2>4, <3>4
      <4>2. holder[e] = v /\ \E w \in Threads \ {v} : Given(e, w) /\ Locking(w, e)
        BY <2>4, <3>4 DEF WaitersLock
      <4> QED
        BY <1>1, <2>4, <3>4, <4>1, <4>2
    <3>8. GivenToOne'
      BY <3>2, <3>4 DEF GivenToOne
    <3>9. LockersKnown'
      <4> SUFFICES ASSUME NEW v \in Threads, pc'[v] = "locking"
                   PROVE  (WaitsFor(v, at[v]) \/ Given(at[v], v))'
        BY DEF LockersKnown, WaitsFor, Given
      <4>1. pc[v] = "locking" /\ at'[v] = at[v] /\ at[v] \in Drms
        BY <1>1, <2>1 DEF TypeOK
      <4>2. PICK e \in Drms : e = at[v]
        BY <4>1
      <4>3. (WaitsFor(v, e) \/ Given(e, v)) /\ v # t
        BY <1>1, <4>1, <4>2 DEF LockersKnown
      <4>4. WaitsFor(v, e)' \/ Given(e, v)'
        BY <2>2, <3>4, <4>3
      <4> QED
        BY <4>1, <4>2, <4>4 DEF WaitsFor, Given
    <3>10. UnlockersGone'
      <4> SUFFICES ASSUME NEW v \in Threads, pc'[v] = "unlocking"
                   PROVE  (holder[at[v]] = v /\ ~WaitsFor(v, at[v]) /\ ~Given(at[v], v))'
        BY DEF UnlockersGone, WaitsFor, Given
      <4>1. CASE v = t
        <5>1. at'[v] = d /\ holder'[d] = v /\ ~WaitsFor(v, d)' /\ ~Given(d, v)'
          BY <1>1, <2>1, <2>2, <3>3, <3>4, <4>1 DEF TypeOK
        <5> QED
          BY <5>1 DEF WaitsFor, Given
      <4>2. CASE v # t
        <5>1. pc[v] = "unlocking" /\ at'[v] = at[v] /\ at[v] \in Drms
          BY <2>1, <4>2 DEF TypeOK
        <5>2. PICK e \in Drms : e = at[v]
          BY <5>1
        <5>3. holder[e] = v /\ ~WaitsFor(v, e) /\ ~Given(e, v) /\ v # u
          BY <3>3, <5>1, <5>2 DEF UnlockersGone, Locking
        <5>4. ~WaitsFor(v, e)' /\ ~Given(e, v)'
          BY <3>4, <5>3
        <5> QED
          BY <1>1, <5>1, <5>2, <5>3, <5>4 DEF WaitsFor, Given
      <4> QED
        BY <4>1, <4>2
    <3> QED
      BY <3>5, <3>6, <3>7, <3>8, <3>9, <3>10
  <2> QED
    BY <2>5, <2>6
<1> QED
  BY <1>2, <1>3 DEF drm_post

(* pthread_mutex_unlock(&d->m).                                            *)
LEMMA UnlockedIInv ==
    ASSUME IInv, NEW t \in Threads, Unlocked(t)
    PROVE  IInv'
<1> USE DrmAssumption DEF IInv
<1>1. PICK d \in Drms : at[t] = d
  BY DEF Unlocked, TypeOK
<1>2. /\ pc[t] = "unlocking" /\ holder' = [holder EXCEPT ![d] = NULL]
      /\ pc' = [pc EXCEPT ![t] = "idle"] /\ at' = [at EXCEPT ![t] = NULL]
      /\ UNCHANGED <<edges, mtx>>
  BY <1>1 DEF Unlocked, Goto
<1>3. holder[d] = t /\ ~WaitsFor(t, d) /\ ~Given(d, t)
  BY <1>1, <1>2 DEF UnlockersGone
<1>4. \A e \in Drms, u \in Threads :
         /\ Given(e, u)' <=> Given(e, u)
         /\ WaitsFor(u, e)' <=> WaitsFor(u, e)
         /\ Locking(u, e)' <=> Locking(u, e)
  BY <1>2 DEF Given, WaitsFor, Locking, TypeOK
<1>5. TypeOK'
  BY <1>2 DEF TypeOK
<1>6. GivenLocks'
  BY <1>1, <1>2, <1>3, <1>4 DEF GivenLocks, TypeOK
<1>7. WaitersLock'
  BY <1>2, <1>3, <1>4 DEF WaitersLock, TypeOK
<1>8. GivenToOne'
  BY <1>4 DEF GivenToOne
<1>9. LockersKnown'
  BY <1>2 DEF LockersKnown, TypeOK, WaitsFor, Given
<1>10. UnlockersGone'
  BY <1>2, <1>3 DEF UnlockersGone, TypeOK, WaitsFor, Given
<1> QED
  BY <1>5, <1>6, <1>7, <1>8, <1>9, <1>10

(* The invariant holds in every reachable state.                           *)
THEOREM Invariance == Spec => []IInv
<1>1. Init => IInv
  BY DrmAssumption DEF Init, IInv, TypeOK, GivenLocks, WaitersLock, GivenToOne, LockersKnown,
     UnlockersGone, Given, WaitsFor
<1>2. IInv /\ [Next]_vars => IInv'
  <2> SUFFICES ASSUME IInv, [Next]_vars PROVE IInv'
    OBVIOUS
  <2>1. CASE Next
    BY <2>1, WaitIInv, PostIInv, LockedIInv, UnlockedIInv DEF Next
  <2>2. CASE UNCHANGED vars
    BY <2>2, OnlyMtx DEF vars, IInv, TypeOK
  <2> QED
    BY <2>1, <2>2
<1> QED
  BY <1>1, <1>2, PTL DEF Spec

-----------------------------------------------------------------------------
(* Every variable holds a value of its type.                               *)
THEOREM TypeCorrect == Spec => []TypeOK
BY Invariance, PTL DEF IInv

(* No thread unlocks a drm's mutex that it has not locked.                 *)
THEOREM UnlocksOnlyItsOwn == Spec => []UnlockOnlyOwn
<1>1. IInv => UnlockOnlyOwn
  BY DEF IInv, UnlockersGone, UnlockOnlyOwn
<1> QED
  BY <1>1, Invariance, PTL

(* The resource allocation graph knows all that blocks.                    *)
THEOREM GraphIsComplete == Spec => []GraphKnowsBlocked
<1>1. IInv => GraphKnowsBlocked
  <2> SUFFICES ASSUME IInv PROVE GraphKnowsBlocked
    OBVIOUS
  <2>1. ASSUME NEW d \in Drms PROVE neighbors(d) \subseteq Threads /\ antineighbors(d) \subseteq Threads
    BY DrmAssumption DEF IInv, TypeOK, neighbors, antineighbors, Vertices
  <2>2. ASSUME NEW d \in Drms PROVE \A u, v \in neighbors(d) : u = v
    BY <2>1 DEF IInv, GivenToOne, Given, neighbors
  <2>3. ASSUME NEW d \in Drms, antineighbors(d) # {} PROVE neighbors(d) # {}
    BY <2>1, <2>3 DEF IInv, GivenToOne, Given, WaitsFor, neighbors, antineighbors, Vertices
  <2> QED
    BY <2>2, <2>3 DEF IInv, LockersKnown, Given, WaitsFor, GraphKnowsBlocked
<1> QED
  BY <1>1, Invariance, PTL

-----------------------------------------------------------------------------
(* S is a set of vertices none of which is a way out of S along E.         *)
Loop(E, S) == S # {} /\ \A v \in S : \E u \in S : <<v, u>> \in E

Calls == Vertices \X SUBSET Vertices

\* One more call of isCyclic, with f for the calls it makes.
Visit(E, f) ==
    [call \in Calls |->
        \/ call[1] \in call[2]
        \/ \E n \in Vertices : <<call[1], n>> \in E /\ f[<<n, call[2] \cup {call[1]}>>]]

(* The recursive calls of isCyclic have a meaning, also when the graph is  *)
(* cyclic: the calls that return true make up a least fixed point.         *)
LEMMA VisitDefined ==
    ASSUME NEW E PROVE \E f : f = Visit(E, f)
<1> DEFINE Step(X) == {c \in Calls : \/ c[1] \in c[2]
                                     \/ \E n \in Vertices : /\ <<c[1], n>> \in E
                                                            /\ <<n, c[2] \cup {c[1]}>> \in X}
           True == {c \in Calls : \A X \in SUBSET Calls : Step(X) \subseteq X => c \in X}
           f == [c \in Calls |-> IF c \in True THEN TRUE ELSE FALSE]
<1>1. \A X, Y \in SUBSET Calls : X \subseteq Y => Step(X) \subseteq Step(Y)
  OBVIOUS
<1>2. \A X \in SUBSET Calls : Step(X) \in SUBSET Calls
  OBVIOUS
<1>3. \A X \in SUBSET Calls : Step(X) \subseteq X => True \subseteq X
  OBVIOUS
<1> HIDE DEF Step
<1>4. Step(True) \subseteq True
  <2> SUFFICES ASSUME NEW c \in Step(True), NEW X \in SUBSET Calls, Step(X) \subseteq X
               PROVE  c \in X
    BY <1>2
  <2>1. True \subseteq X /\ True \in SUBSET Calls
    BY <1>3
  <2> HIDE DEF True
  <2> QED
    BY <1>1, <2>1
<1>5. True \in SUBSET Calls
  OBVIOUS
<1>6. True \subseteq Step(True)
  <2>1. Step(True) \in SUBSET Calls /\ Step(Step(True)) \subseteq Step(True)
    <3> HIDE DEF True
    <3> QED
      BY <1>1, <1>2, <1>4, <1>5
  <2> QED
    BY <1>3, <2>1
<1> HIDE DEF True
<1>7. True = Step(True)
  BY <1>4, <1>6
<1>8. \A c \in Calls : (c \in True => f[c] = TRUE) /\ (c \notin True => f[c] = FALSE)
  OBVIOUS
<1>9. f = [c \in Calls |-> f[c]]
  OBVIOUS
<1> HIDE DEF f
<1>10. ASSUME NEW c \in Calls
       PROVE  f[c] = (\/ c[1] \in c[2]
                      \/ \E n \in Vertices : <<c[1], n>> \in E /\ f[<<n, c[2] \cup {c[1]}>>])
  <2>1. c \in True <=>
          \/ c[1] \in c[2]
          \/ \E n \in Vertices : <<c[1], n>> \in E /\ <<n, c[2] \cup {c[1]}>> \in True
    <3>1. c \in True <=> c \in Step(True)
      BY <1>7
    <3> QED
      BY <3>1, Zenon DEF Step
  <2>2. \A n \in Vertices : <<n, c[2] \cup {c[1]}>> \in Calls
    BY DEF Calls
  <2>3. \A n \in Vertices : f[<<n, c[2] \cup {c[1]}>>] <=> <<n, c[2] \cup {c[1]}>> \in True
    BY <1>8, <2>2, Zenon
  <2>4. (c \in True) <=>
          \/ c[1] \in c[2]
          \/ \E n \in Vertices : <<c[1], n>> \in E /\ f[<<n, c[2] \cup {c[1]}>>]
    BY <2>1, <2>3
  <2>5. CASE c \in True
    <3>1. f[c] = TRUE
      BY <1>8, <2>5, Zenon
    <3> QED
      BY <2>4, <2>5, <3>1, Zenon
  <2>6. CASE c \notin True
    <3>1. f[c] = FALSE
      BY <1>8, <2>6, Zenon
    <3> QED
      BY <2>4, <2>6, <3>1, Zenon
  <2> QED
    BY <2>5, <2>6
<1>11. f = Visit(E, f)
  BY <1>9, <1>10, Zenon DEF Visit
<1> QED
  BY <1>11

(* A thread on a loop finds it, whatever the rest of the graph is like:    *)
(* isCyclic never answers that there is no cycle when there is one.        *)
LEMMA LoopFound ==
    ASSUME NEW E, NEW S \in SUBSET Vertices, Loop(E, S), NEW t \in S
    PROVE  isCyclic(E, t)
<1> DEFINE visit == CHOOSE f : f = Visit(E, f)
<1>1. visit = Visit(E, visit)
  BY VisitDefined
<1>2. isCyclic(E, t) = visit[<<t, {}>>]
  BY Zenon DEF isCyclic, Visit, Calls
<1> HIDE DEF visit
<1>3. \A c \in Calls :
         visit[c] <=> \/ c[1] \in c[2]
                      \/ \E n \in Vertices : <<c[1], n>> \in E /\ visit[<<n, c[2] \cup {c[1]}>>]
  BY <1>1, Zenon DEF Visit
<1>4. SUFFICES ASSUME ~visit[<<t, {}>>] PROVE FALSE
  BY <1>2
<1> DEFINE Left == {Vertices \ m : m \in {m \in SUBSET Vertices : \E u \in S : ~visit[<<u, m>>]}}
<1>5. IsFiniteSet(Vertices)
  BY DrmAssumption, FS_Union DEF Vertices
<1>6. Left \subseteq FiniteSubsetsOf(Vertices) /\ Left # {}
  <2>1. Left \subseteq SUBSET Vertices
    OBVIOUS
  <2>2. Vertices \ {} \in Left
    BY <1>4
  <2> QED
    BY <1>5, <2>1, <2>2, FS_FiniteSubsetsOfFinite
<1>7. PICK L \in Left : \A M \in Left : ~(<<M, L>> \in StrictSubsetOrdering(Vertices))
  BY <1>6, FS_StrictSubsetOrderingWellFounded, WFMin
<1>8. PICK m \in SUBSET Vertices, u \in S : L = Vertices \ m /\ ~visit[<<u, m>>]
  BY <1>7
<1>9. PICK n \in S : <<u, n>> \in E
  BY DEF Loop
<1>10. u \notin m /\ ~visit[<<n, m \cup {u}>>]
  BY <1>3, <1>8, <1>9 DEF Calls
<1>11. Vertices \ (m \cup {u}) \in Left
  BY <1>10
<1>12. <<Vertices \ (m \cup {u}), L>> \in StrictSubsetOrdering(Vertices)
  BY <1>8, <1>10 DEF StrictSubsetOrdering
<1> QED
  BY <1>7, <1>11, <1>12

-----------------------------------------------------------------------------
Acyclic(E) == \A S \in SUBSET Vertices : ~Loop(E, S)

\* Who has locked m was given the drm, or is about to unlock m, or got ahead
\* of the thread the drm was given to.
HoldersKnown ==
    \A d \in Drms, t \in Threads :
        holder[d] = t => \/ Given(d, t)
                         \/ pc[t] = "unlocking" /\ at[t] = d
                         \/ \E u \in Threads \ {t} : Given(d, u) /\ Locking(u, d)

\* Who is locking the m of a drm it was given has not locked it before.
GivenNotYet ==
    \A d \in Drms, t \in Threads : Given(d, t) /\ Locking(t, d) => holder[d] # t

LEMMA AcyclicIsGraphAcyclic == Acyclic(edges) => GraphAcyclic
<1> SUFFICES ASSUME Acyclic(edges), NEW S \in SUBSET Vertices, S # {}
             PROVE  \E v \in S : neighbors(v) \cap S = {}
  BY DEF GraphAcyclic
<1>1. PICK v \in S : \A u \in S : <<v, u>> \notin edges
  BY DEF Acyclic, Loop
<1> QED
  BY <1>1 DEF neighbors

(* drm_wait adds an edge only where it closes no loop.                     *)
LEMMA WaitAcyclic ==
    ASSUME IInv, Acyclic(edges), NEW t \in Threads, NEW d \in Drms, drm_wait(t, d)
    PROVE  Acyclic(edges')
<1> USE DrmAssumption DEF IInv
<1>1. CASE WaitAgain(t, d)
  BY <1>1 DEF WaitAgain
<1>2. CASE WaitFree(t, d)
  <2>1. edges' = edges \cup {<<d, t>>} /\ neighbors(d) = {}
    BY <1>2 DEF WaitFree
  <2>2. \A v \in Vertices : <<v, d>> \notin edges
    BY <2>1 DEF GivenToOne, Given, WaitsFor, neighbors, Vertices, TypeOK
  <2> SUFFICES ASSUME NEW S \in SUBSET Vertices, Loop(edges', S) PROVE FALSE
    BY DEF Acyclic
  <2>3. \A v \in S \ {d} : \E u \in S \ {d} : <<v, u>> \in edges
    BY <2>1, <2>2 DEF Loop, Vertices
  <2>4. S \ {d} # {}
    <3>1. PICK u \in S : <<d, u>> \in edges'
      <4>1. PICK v \in S : TRUE
        BY DEF Loop
      <4>2. CASE d \in S
        BY <4>2 DEF Loop
      <4>3. CASE d \notin S
        BY <2>3, <4>1, <4>3 DEF Acyclic, Loop
      <4> QED
        BY <4>2, <4>3
    <3>2. u = t
      BY <2>1, <3>1 DEF neighbors
    <3> QED
      BY <3>1, <3>2
  <2> QED
    BY <2>3, <2>4 DEF Acyclic, Loop
<1>3. CASE WaitTaken(t, d)
  <2>1. CASE edges' = (edges \cup {<<t, d>>}) \ {<<t, d>>}
    BY <2>1 DEF Acyclic, Loop
  <2>2. CASE ~isCyclic(edges \cup {<<t, d>>}, t) /\ edges' = edges \cup {<<t, d>>}
    <3> SUFFICES ASSUME NEW S \in SUBSET Vertices, Loop(edges', S) PROVE FALSE
      BY DEF Acyclic
    <3>1. t \notin S
      BY <2>2, LoopFound
    <3> QED
      BY <2>2, <3>1 DEF Acyclic, Loop
  <2> QED
    BY <1>3, <2>1, <2>2 DEF WaitTaken
<1> QED
  BY <1>1, <1>2, <1>3 DEF drm_wait

(* drm_post hands a drm over only to a thread from which no way leads back *)
(* to the drm: those the thread still waits for in the graph were locked   *)
(* by it ahead of the threads they were given to, which are all on their   *)
(* way into pthread_mutex_lock and keep nothing that others wait for.      *)
LEMMA HandOverAcyclic ==
    ASSUME IInv, Acyclic(edges), NEW t \in Threads, NEW d \in Drms, drm_post(t, d)
    PROVE  Acyclic(edges')
<1> USE DrmAssumption DEF IInv
<1>1. CASE edges' \subseteq edges
  BY <1>1 DEF Acyclic, Loop
<1>2. CASE ~(edges' \subseteq edges)
  <2>1. /\ pc[t] = "idle" /\ at[t] = NULL /\ Given(d, t)
        /\ \E u \in antineighbors(d) :
             edges' = ((edges \ {<<d, t>>}) \cup {<<d, u>>}) \ {<<u, d>>}
    BY <1>2 DEF drm_post, PostOther, PostOwn, HandOver, Given, TypeOK
  <2>2. PICK u \in Threads : /\ WaitsFor(u, d)
                             /\ edges' = ((edges \ {<<d, t>>}) \cup {<<d, u>>}) \ {<<u, d>>}
    BY <2>1 DEF antineighbors, Vertices, WaitsFor, TypeOK
  <2>3. holder[d] = t /\ ~WaitsFor(t, d) /\ \A v \in Threads : Given(d, v) => v = t
    BY <2>1 DEF GivenLocks, GivenToOne, Locking
  <2>4. u # t /\ Locking(u, d)
    BY <2>2, <2>3 DEF WaitersLock
  <2> SUFFICES ASSUME NEW S \in SUBSET Vertices, Loop(edges', S) PROVE FALSE
    BY DEF Acyclic
  <2>5. d \in S
    <3> SUFFICES ASSUME d \notin S PROVE Loop(edges, S)
      BY Zenon DEF Acyclic
    <3>1. \A v \in S, x \in S : <<v, x>> \in edges' => <<v, x>> \in edges
      <4> SUFFICES ASSUME NEW v \in S, NEW x \in S, <<v, x>> \in edges' PROVE <<v, x>> \in edges
        OBVIOUS
      <4>1. <<v, x>> # <<d, u>>
        OBVIOUS
      <4> QED
        BY <2>2, <4>1, Zenon
    <3> QED
      BY <3>1, Zenon DEF Loop
  <2>6. u \in S
    <3>1. PICK x \in S : <<d, x>> \in edges'
      BY <2>5 DEF Loop
    <3>2. CASE <<d, x>> \in edges /\ x # t
      <4>1. x \in Threads
        BY <3>2 DEF TypeOK
      <4> QED
        BY <2>3, <3>2, <4>1 DEF Given
    <3>3. x = u \/ (<<d, x>> \in edges /\ x # t)
      BY <2>2, <3>1
    <3> QED
      BY <3>1, <3>2, <3>3
  <2> DEFINE Ahead == {e \in Drms \cap S : \E w \in Threads \cap S : Given(e, w) /\ Locking(w, e)}
             Late == {w \in Threads \cap S : \E e \in Ahead : Given(e, w) /\ Locking(w, e)}
  <2>7. ASSUME NEW v \in Threads \cap S, NEW e \in Drms, <<v, e>> \in edges', e \in S,
               ~Locking(v, e)
        PROVE  e \in Ahead
    <3>1. WaitsFor(v, e)
      BY <2>2, <2>7 DEF WaitsFor
    <3>2. PICK w \in Threads : Given(e, w) /\ Locking(w, e)
      BY <2>7, <3>1 DEF WaitersLock
    <3>3. e # d
      BY <2>1, <2>3, <3>2 DEF Locking
    <3>4. w \in S
      <4>1. PICK x \in S : <<e, x>> \in edges'
        BY <2>7 DEF Loop
      <4>2. x \in Threads /\ Given(e, x)
        BY <2>2, <3>3, <4>1 DEF Given, TypeOK
      <4> QED
        BY <3>2, <4>1, <4>2 DEF GivenToOne
    <3> QED
      BY <2>7, <3>2, <3>4
  <2>8. \A v \in Threads \cap S : \E e \in Drms \cap S : <<v, e>> \in edges' /\ WaitsFor(v, e)
    <3> SUFFICES ASSUME NEW v \in Threads \cap S
                 PROVE  \E e \in Drms \cap S : <<v, e>> \in edges' /\ WaitsFor(v, e)
      OBVIOUS
    <3>1. PICK e \in S : <<v, e>> \in edges'
      BY DEF Loop
    <3>2. <<v, e>> \in edges
      BY <2>2, <3>1
    <3> QED
      BY <3>1, <3>2 DEF WaitsFor, TypeOK
  <2>9. Ahead # {}
    <3>1. PICK e \in Drms \cap S : <<u, e>> \in edges' /\ WaitsFor(u, e)
      BY <2>6, <2>8
    <3>2. ~Locking(u, e)
      BY <2>2, <2>4, <3>1 DEF Locking
    <3> QED
      BY <2>6, <2>7, <3>1, <3>2
  <2>10. \A e \in Ahead : \E w \in Late : <<e, w>> \in edges
    BY DEF Given
  <2>11. \A w \in Late : \E e \in Ahead : <<w, e>> \in edges
    <3> SUFFICES ASSUME NEW w \in Late PROVE \E e \in Ahead : <<w, e>> \in edges
      OBVIOUS
    <3>1. PICK g \in Ahead : Given(g, w) /\ Locking(w, g)
      OBVIOUS
    <3>2. PICK e \in Drms \cap S : <<w, e>> \in edges' /\ WaitsFor(w, e)
      BY <2>8
    <3>3. ~Locking(w, e)
      BY <3>1, <3>2 DEF GivenToOne, Locking
    <3>4. e \in Ahead
      BY <2>7, <3>2, <3>3
    <3> QED
      BY <3>2, <3>4 DEF WaitsFor
  <2> HIDE DEF Ahead, Late
  <2>12. Loop(edges, Ahead \cup Late)
    BY <2>9, <2>10, <2>11 DEF Loop
  <2>13. Ahead \cup Late \in SUBSET Vertices
    BY DEF Ahead, Late
  <2> QED
    BY <2>12, <2>13 DEF Acyclic
<1> QED
  BY <1>1, <1>2

\* Holders of the mutexes.
HInv == HoldersKnown /\ GivenNotYet

LEMMA HoldersWait ==
    ASSUME IInv, HInv, NEW t \in Threads, NEW d \in Drms, drm_wait(t, d)
    PROVE  HInv'
<1> USE DrmAssumption DEF IInv, HInv
<1>1. pc[t] = "idle" /\ at[t] = NULL /\ UNCHANGED holder
  BY DEF drm_wait, TypeOK
<1>2. CASE UNCHANGED <<edges, pc, at>>
  BY <1>1, <1>2 DEF HoldersKnown, GivenNotYet, Given, Locking
<1>3. CASE WaitFree(t, d)
  <2>1. /\ pc' = [pc EXCEPT ![t] = "locking"] /\ at' = [at EXCEPT ![t] = d]
        /\ edges' = edges \cup {<<d, t>>}
    BY <1>3 DEF WaitFree, Goto
  <2>2. \A u \in Threads : ~Given(d, u)
    BY <1>3 DEF WaitFree, neighbors, Vertices, Given
  <2>3. \A e \in Drms, u \in Threads : /\ Given(e, u)' <=> Given(e, u) \/ (e = d /\ u = t)
                                       /\ Locking(u, e)' <=> Locking(u, e) \/ (e = d /\ u = t)
    BY <1>1, <2>1 DEF Given, Locking, TypeOK
  <2>4. holder[d] # t
    BY <1>1, <2>2 DEF HoldersKnown
  <2>5. HoldersKnown'
    BY <1>1, <2>1, <2>3 DEF HoldersKnown, TypeOK
  <2>6. GivenNotYet'
    BY <1>1, <2>2, <2>3, <2>4 DEF GivenNotYet
  <2> QED
    BY <2>5, <2>6
<1>4. CASE WaitTaken(t, d)
  <2>1. ~Given(d, t)
    BY <1>4 DEF WaitTaken, Given
  <2>2. \A e \in Drms, u \in Threads : Given(e, u)' <=> Given(e, u)
    BY <1>4 DEF WaitTaken, Given
  <2>3. CASE Goto(t, "locking", d)
    <3>1. \A e \in Drms, u \in Threads : Locking(u, e)' <=> Locking(u, e) \/ (e = d /\ u = t)
      BY <1>1, <2>3 DEF Goto, Locking, TypeOK
    <3>2. HoldersKnown'
      BY <1>1, <2>2, <2>3, <3>1 DEF HoldersKnown, Goto, TypeOK
    <3>3. GivenNotYet'
      BY <1>1, <2>1, <2>2, <3>1 DEF GivenNotYet
    <3> QED
      BY <3>2, <3>3
  <2>4. CASE UNCHANGED <<pc, at>>
    BY <1>1, <2>2, <2>4 DEF HoldersKnown, GivenNotYet, Locking
  <2> QED
    BY <1>4, <2>3, <2>4 DEF WaitTaken
<1> QED
  BY <1>2, <1>3, <1>4 DEF drm_wait, WaitAgain

LEMMA HoldersLocked ==
    ASSUME IInv, HInv, NEW t \in Threads, Locked(t)
    PROVE  HInv'
<1> USE DrmAssumption DEF IInv, HInv
<1>1. PICK d \in Drms : at[t] = d
  BY DEF Locked, TypeOK
<1>2. /\ Locking(t, d) /\ holder[d] = NULL /\ holder' = [holder EXCEPT ![d] = t]
      /\ pc' = [pc EXCEPT ![t] = "idle"] /\ at' = [at EXCEPT ![t] = NULL]
  BY <1>1 DEF Locked, Goto, Locking
<1>3. \A e \in Drms, u \in Threads : /\ Given(e, u)' <=> Given(e, u)
                                     /\ Locking(u, e)' <=> Locking(u, e) /\ u # t
  BY <1>2 DEF Locked, Given, Locking, TypeOK
<1>4. Given(d, t) \/ \E u \in Threads \ {t} : Given(d, u) /\ Locking(u, d)
  <2>1. CASE WaitsFor(t, d)
    <3>1. PICK u \in Threads : Given(d, u) /\ u # t
      BY <2>1 DEF GivenToOne
    <3> QED
      BY <1>2, <3>1 DEF GivenLocks
  <2> QED
    BY <1>1, <1>2, <2>1 DEF LockersKnown, Locking
<1>5. HoldersKnown'
  <2> SUFFICES ASSUME NEW e \in Drms, NEW u \in Threads, holder'[e] = u
               PROVE  \/ Given(e, u)'
                      \/ pc'[u] = "unlocking" /\ at'[u] = e
                      \/ \E v \in Threads \ {u} : Given(e, v)' /\ Locking(v, e)'
    BY DEF HoldersKnown
  <2>1. CASE e = d
    BY <1>2, <1>3, <1>4, <2>1 DEF TypeOK
  <2>2. CASE e # d
    <3>1. holder[e] = u
      BY <1>2, <2>2 DEF TypeOK
    <3>2. CASE pc[u] = "unlocking" /\ at[u] = e
      BY <1>2, <3>2 DEF Locking, TypeOK
    <3>3. CASE \E v \in Threads \ {u} : Given(e, v) /\ Locking(v, e)
      BY <1>2, <1>3, <2>2, <3>3 DEF Locking
    <3> QED
      BY <1>3, <3>1, <3>2, <3>3 DEF HoldersKnown
  <2> QED
    BY <2>1, <2>2
<1>6. GivenNotYet'
  BY <1>2, <1>3 DEF GivenNotYet, TypeOK
<1> QED
  BY <1>5, <1>6

LEMMA HoldersPost ==
    ASSUME IInv, HInv, NEW t \in Threads, NEW d \in Drms, drm_post(t, d)
    PROVE  HInv'
<1> USE DrmAssumption DEF IInv, HInv
<1>1. pc[t] = "idle" /\ at[t] = NULL /\ UNCHANGED holder
  BY DEF drm_post, TypeOK
<1>2. CASE UNCHANGED <<edges, pc, at>>
  BY <1>1, <1>2 DEF HoldersKnown, GivenNotYet, Given, Locking
<1>3. CASE PostOwn(t, d)
  <2>1. /\ Given(d, t)
        /\ pc' = [pc EXCEPT ![t] = "unlocking"] /\ at' = [at EXCEPT ![t] = d]
    BY <1>3 DEF PostOwn, Goto, Given
  <2>2. holder[d] = t /\ \A u \in Threads : Given(d, u) => u = t
    BY <1>1, <2>1 DEF GivenLocks, GivenToOne, Locking
  <2>3. \A e \in Drms, u \in Threads : Locking(u, e)' <=> Locking(u, e)
    BY <1>1, <2>1 DEF Locking, TypeOK
  <2>4. \A e \in Drms, u \in Threads : e # d => (Given(e, u)' <=> Given(e, u))
    BY <1>3 DEF PostOwn, HandOver, Given
  <2>5. ~Given(d, t)'
    <3>1. CASE edges' = edges \ {<<d, t>>}
      BY <3>1 DEF Given
    <3>2. CASE \E u \in antineighbors(d) :
                 edges' = ((edges \ {<<d, t>>}) \cup {<<d, u>>}) \ {<<u, d>>}
      BY <2>1, <3>2 DEF Given, GivenToOne, WaitsFor, antineighbors
    <3> QED
      BY <1>3, <3>1, <3>2 DEF PostOwn, HandOver
  <2>6. HoldersKnown'
    <3> SUFFICES ASSUME NEW e \in Drms, NEW u \in Threads, holder'[e] = u
                 PROVE  \/ Given(e, u)'
                        \/ pc'[u] = "unlocking" /\ at'[u] = e
                        \/ \E v \in Threads \ {u} : Given(e, v)' /\ Locking(v, e)'
      BY DEF HoldersKnown
    <3>1. CASE e = d
      BY <1>1, <2>1, <2>2, <3>1 DEF TypeOK
    <3>2. CASE e # d
      <4>1. CASE pc[u] = "unlocking" /\ at[u] = e
        BY <1>1, <2>1, <4>1 DEF TypeOK
      <4> QED
        BY <1>1, <2>3, <2>4, <3>2, <4>1 DEF HoldersKnown
    <3> QED
      BY <3>1, <3>2
  <2>7. GivenNotYet'
    BY <1>1, <2>2, <2>3, <2>4, <2>5 DEF GivenNotYet
  <2> QED
    BY <2>6, <2>7
<1> QED
  BY <1>2, <1>3 DEF drm_post, PostOther

LEMMA HoldersUnlocked ==
    ASSUME IInv, HInv, NEW t \in Threads, Unlocked(t)
    PROVE  HInv'
<1> USE DrmAssumption DEF IInv, HInv
<1>1. PICK d \in Drms : at[t] = d
  BY DEF Unlocked, TypeOK
<1>2. /\ pc[t] = "unlocking" /\ holder[d] = t /\ holder' = [holder EXCEPT ![d] = NULL]
      /\ pc' = [pc EXCEPT ![t] = "idle"] /\ at' = [at EXCEPT ![t] = NULL]
  BY <1>1 DEF Unlocked, Goto, UnlockersGone
<1>3. \A e \in Drms, u \in Threads : /\ Given(e, u)' <=> Given(e, u)
                                     /\ Locking(u, e)' <=> Locking(u, e)
  BY <1>2 DEF Unlocked, Given, Locking, TypeOK
<1>4. HoldersKnown'
  BY <1>1, <1>2, <1>3 DEF HoldersKnown, TypeOK
<1>5. GivenNotYet'
  BY <1>2, <1>3 DEF GivenNotYet, TypeOK
<1> QED
  BY <1>4, <1>5

(* The graph stays acyclic, and its knowledge of the holders true.         *)
THEOREM GraphInvariance == Spec => [](IInv /\ HInv /\ Acyclic(edges))
<1>1. Init => HInv /\ Acyclic(edges)
  <2> SUFFICES ASSUME Init PROVE HInv /\ Acyclic(edges)
    OBVIOUS
  <2>1. HInv
    BY DrmAssumption DEF Init, HInv, HoldersKnown, GivenNotYet, Given
  <2>2. Acyclic(edges)
    BY DEF Init, Acyclic, Loop
  <2> QED
    BY <2>1, <2>2
<1>2. IInv /\ HInv /\ Acyclic(edges) /\ [Next]_vars => (HInv /\ Acyclic(edges))'
  <2> SUFFICES ASSUME IInv, HInv, Acyclic(edges), [Next]_vars PROVE (HInv /\ Acyclic(edges))'
    OBVIOUS
  <2>1. ASSUME NEW t \in Threads, NEW d \in Drms, drm_wait(t, d)
        PROVE  (HInv /\ Acyclic(edges))'
    BY <2>1, HoldersWait, WaitAcyclic DEF Acyclic, Loop
  <2>2. ASSUME NEW t \in Threads, NEW d \in Drms, drm_post(t, d)
        PROVE  (HInv /\ Acyclic(edges))'
    BY <2>2, HoldersPost, HandOverAcyclic DEF Acyclic, Loop
  <2>3. ASSUME NEW t \in Threads, Locked(t)
        PROVE  (HInv /\ Acyclic(edges))'
    <3>1. UNCHANGED edges
      BY <2>3 DEF Locked
    <3> QED
      BY <2>3, <3>1, HoldersLocked DEF Acyclic, Loop
  <2>4. ASSUME NEW t \in Threads, Unlocked(t)
        PROVE  (HInv /\ Acyclic(edges))'
    <3>1. UNCHANGED edges
      BY <2>4 DEF Unlocked
    <3> QED
      BY <2>4, <3>1, HoldersUnlocked DEF Acyclic, Loop
  <2>5. CASE UNCHANGED vars
    BY <2>5 DEF vars, Acyclic, Loop, HInv, HoldersKnown, GivenNotYet, Given, Locking
  <2> QED
    BY <2>1, <2>2, <2>3, <2>4, <2>5 DEF Next
<1> QED
  BY <1>1, <1>2, Invariance, PTL DEF Spec

-----------------------------------------------------------------------------
(* No wait, refused wait or hand-over closes a chain of waiting threads.   *)
THEOREM GraphStaysAcyclic == Spec => []GraphAcyclic
BY GraphInvariance, AcyclicIsGraphAcyclic, PTL

(* While every mutex is locked by the thread that the graph gave the drm   *)
(* to, no threads wait for each other in a circle.                         *)
THEOREM NoDeadlock == Spec => []NoDeadlockAsGiven
<1>1. IInv /\ HInv /\ Acyclic(edges) => NoDeadlockAsGiven
  <2> SUFFICES ASSUME IInv, HInv, Acyclic(edges), \A d \in Drms : MutexAsGiven(d),
                      NEW S \in SUBSET Threads, S # {}, Stuck(S)
               PROVE  FALSE
    BY DEF NoDeadlockAsGiven
  <2> DEFINE D == {at[t] : t \in S}
  <2>1. ASSUME NEW t \in S
        PROVE  /\ at[t] \in Drms /\ <<t, at[t]>> \in edges
               /\ holder[at[t]] \in S /\ <<at[t], holder[at[t]]>> \in edges
    <3>1. /\ pc[t] = "locking" /\ holder[at[t]] \in S
          /\ at[t] \in Drms /\ at[t] # NULL
      BY DrmAssumption DEF Stuck, IInv, TypeOK
    <3>2. PICK d \in Drms : at[t] = d
      BY <3>1
    <3>3. pc[holder[d]] = "locking"
      BY <3>1, <3>2 DEF Stuck
    <3>4. Given(d, holder[d])
      BY <3>1, <3>2, <3>3, DrmAssumption DEF MutexAsGiven, neighbors, Given
    <3>5. ~Given(d, t)
      <4>1. SUFFICES ASSUME Given(d, t) PROVE FALSE
        OBVIOUS
      <4>2. holder[d] = t
        BY <3>1, <3>2, <3>4, <4>1 DEF IInv, GivenToOne
      <4> QED
        BY <3>1, <3>2, <4>1, <4>2 DEF HInv, GivenNotYet, Locking
    <3>6. WaitsFor(t, d)
      BY <3>1, <3>2, <3>5 DEF IInv, LockersKnown
    <3> QED
      BY <3>1, <3>2, <3>4, <3>6 DEF Given, WaitsFor
  <2>2. Loop(edges, S \cup D)
    BY <2>1 DEF Loop
  <2>3. S \cup D \in SUBSET Vertices
    BY <2>1 DEF Vertices
  <2> QED
    BY <2>2, <2>3 DEF Acyclic
<1> QED
  BY <1>1, GraphInvariance, PTL
=============================================================================
