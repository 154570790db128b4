-------------------------------- MODULE Drm --------------------------------
(***************************************************************************)
(* deadlock_demolition/libdrm.c: mutexes (drms) that refuse a wait which   *)
(* would close a cycle in the resource allocation graph g.                 *)
(*                                                                         *)
(* drm_wait and drm_post decide under the global mutex mtx, release it and *)
(* only then lock or unlock the drm's own mutex m: these are two steps of  *)
(* every call, and any thread that waits for m may be the one to get it.   *)
(***************************************************************************)
EXTENDS FiniteSets

CONSTANTS Threads, Drms, NULL

ASSUME DrmAssumption == /\ IsFiniteSet(Threads) /\ IsFiniteSet(Drms)
                        /\ NULL \notin Threads \cup Drms /\ Threads \cap Drms = {}

VARIABLES edges,  \* of g: <<d, t>> when t is given d, <<t, d>> when t waits for d
          holder, \* the thread that has locked d->m, or NULL
          mtx,    \* NULL, or the thread that returned without releasing mtx
          pc,     \* "idle" outside of calls, "locking" or "unlocking"
          at      \* the drm whose m a thread is locking or unlocking

vars == <<edges, holder, mtx, pc, at>>

Vertices == Threads \cup Drms

neighbors(v) == {u \in Vertices : <<v, u>> \in edges}

antineighbors(v) == {u \in Vertices : <<u, v>> \in edges}

(* The state after drm_init has been called for each drm.                  *)
Init == /\ edges = {}
        /\ holder = [d \in Drms |-> NULL]
        /\ mtx = NULL
        /\ pc = [t \in Threads |-> "idle"]
        /\ at = [t \in Threads |-> NULL]

Goto(t, stage, d) == pc' = [pc EXCEPT ![t] = stage] /\ at' = [at EXCEPT ![t] = d]

\* Is a cycle met on a walk along E from v?  The vertices on the way are
\* marked with the value 1.
isCyclic(E, v) ==
    LET visit[call \in Vertices \X SUBSET Vertices] ==
          \/ call[1] \in call[2]
          \/ \E n \in Vertices :
               <<call[1], n>> \in E /\ visit[<<n, call[2] \cup {call[1]}>>]
    IN visit[<<v, {}>>]

-----------------------------------------------------------------------------
\* drm_wait for a drm that t was given already: mtx is not released.
WaitAgain(t, d) == /\ <<d, t>> \in edges
                   /\ mtx' = t
                   /\ UNCHANGED <<edges, pc, at>>

WaitFree(t, d) == /\ neighbors(d) = {}
                  /\ edges' = edges \cup {<<d, t>>}
                  /\ Goto(t, "locking", d)
                  /\ UNCHANGED mtx

\* Mutant: the edge of a refused wait stays in the graph.
WaitTakenKeepsEdge(t, d) ==
    /\ neighbors(d) # {} /\ <<d, t>> \notin edges
    /\ edges' = edges \cup {<<t, d>>}
    /\ IF isCyclic(edges', t) THEN UNCHANGED <<pc, at>> ELSE Goto(t, "locking", d)
    /\ UNCHANGED mtx

\* Mutant: no wait is refused.
WaitTakenUnasked(t, d) ==
    /\ neighbors(d) # {} /\ <<d, t>> \notin edges
    /\ edges' = edges \cup {<<t, d>>}
    /\ Goto(t, "locking", d)
    /\ UNCHANGED mtx

\* t asks for a drm given to another thread; it is refused for a cycle.  It
\* may be refused without one: the values of vertices that isCyclic reads were
\* set as addresses of locals of calls that have returned (lines 59-61, 37-42),
\* and a shallow graph keeps those addresses.
WaitTaken(t, d) ==
    LET asking == edges \cup {<<t, d>>} IN
    /\ neighbors(d) # {} /\ <<d, t>> \notin edges
    /\ \/ ~isCyclic(asking, t) /\ edges' = asking /\ Goto(t, "locking", d)
       \/ edges' = asking \ {<<t, d>>} /\ UNCHANGED <<pc, at>>
    /\ UNCHANGED mtx

drm_wait(t, d) == /\ pc[t] = "idle" /\ mtx = NULL
                  /\ WaitAgain(t, d) \/ WaitFree(t, d) \/ WaitTaken(t, d)
                  /\ UNCHANGED holder

Locked(t) == /\ pc[t] = "locking" /\ holder[at[t]] = NULL
             /\ holder' = [holder EXCEPT ![at[t]] = t]
             /\ Goto(t, "idle", NULL)
             /\ UNCHANGED <<edges, mtx>>

-----------------------------------------------------------------------------
\* Mutant: the waiter stays a waiter, nobody is given the drm.
HandOverForgotten(t, d) == edges' = edges \ {<<d, t>>}

\* Mutant: the drm is given to itself.
HandOverToItself(t, d) ==
    \/ antineighbors(d) = {} /\ edges' = edges \ {<<d, t>>}
    \/ \E u \in antineighbors(d) :
         edges' = ((edges \ {<<d, t>>}) \cup {<<d, d>>}) \ {<<u, d>>}

\* t gives d up, to one of those that wait for it if there are any.
HandOver(t, d) ==
    \/ antineighbors(d) = {} /\ edges' = edges \ {<<d, t>>}
    \/ \E u \in antineighbors(d) :
         edges' = ((edges \ {<<d, t>>}) \cup {<<d, u>>}) \ {<<u, d>>}

\* Mutant: drm_post does not ask who the drm was given to.
PostByAnybody(t, d) == /\ edges' = edges \ {<<d, t>>}
                       /\ Goto(t, "unlocking", d)

PostOwn(t, d) == /\ <<d, t>> \in edges
                 /\ HandOver(t, d)
                 /\ Goto(t, "unlocking", d)

\* Not given to t: nothing is changed and 0 is returned.
PostOther(t, d) == <<d, t>> \notin edges /\ UNCHANGED <<edges, pc, at>>

drm_post(t, d) == /\ pc[t] = "idle" /\ mtx = NULL
                  /\ PostOwn(t, d) \/ PostOther(t, d)
                  /\ UNCHANGED <<holder, mtx>>

Unlocked(t) == /\ pc[t] = "unlocking"
               /\ holder' = [holder EXCEPT ![at[t]] = NULL]
               /\ Goto(t, "idle", NULL)
               /\ UNCHANGED <<edges, mtx>>

-----------------------------------------------------------------------------
(* Threads that call drm_wait and drm_post in any order whatever.          *)
Next == \E t \in Threads : \/ \E d \in Drms : drm_wait(t, d) \/ drm_post(t, d)
                           \/ Locked(t) \/ Unlocked(t)

Spec == Init /\ [][Next]_vars

-----------------------------------------------------------------------------
(* Every variable holds a value the C program can hold.                    *)
TypeOK == /\ edges \subseteq (Threads \X Drms) \cup (Drms \X Threads)
          /\ holder \in [Drms -> Threads \cup {NULL}]
          /\ mtx \in Threads \cup {NULL}
          /\ pc \in [Threads -> {"idle", "locking", "unlocking"}]
          /\ at \in [Threads -> Drms \cup {NULL}]
          /\ \A t \in Threads : pc[t] = "idle" <=> at[t] = NULL

(* No chain of threads that wait for drms given to each other is closed in *)
(* the graph: not by a wait, a refused wait or a hand-over (lines 75-77,   *)
(* 108 and 113-115).                                                       *)
GraphAcyclic ==
    \A S \in (SUBSET Vertices) \ {{}} : \E v \in S : neighbors(v) \cap S = {}

(* The graph knows all that blocks: a drm is given to one thread at most,  *)
(* nobody waits in it for a drm given to nobody, and a thread on its way   *)
(* into pthread_mutex_lock waits for the drm or was given it.              *)
GraphKnowsBlocked ==
    /\ \A d \in Drms : /\ \A u, v \in neighbors(d) : u = v
                       /\ antineighbors(d) # {} => neighbors(d) # {}
    /\ \A t \in Threads : pc[t] = "locking" =>
           <<t, at[t]>> \in edges \/ <<at[t], t>> \in edges

(* drm_post unlocks a mutex that its caller has locked (line 81), also     *)
(* when threads post drms they never waited for, or post twice.            *)
UnlockOnlyOwn == \A t \in Threads : pc[t] = "unlocking" => holder[at[t]] = t

\* d->m is locked by the thread it was given to, or is about to be unlocked.
MutexAsGiven(d) == \/ holder[d] \in neighbors(d) \cup {NULL}
                   \/ pc[holder[d]] = "unlocking" /\ at[holder[d]] = d

Stuck(S) == \A t \in S : pc[t] = "locking" /\ holder[at[t]] \in S

(* No deadlock on the drms, as long as every m is locked by the thread the *)
(* graph gives the drm to.  (pthread_mutex_lock may let another thread in  *)
(* first, and then there are deadlocks: see DrmTester.)                    *)
NoDeadlockAsGiven ==
    (\A d \in Drms : MutexAsGiven(d)) => \A S \in (SUBSET Threads) \ {{}} : ~Stuck(S)
=============================================================================
