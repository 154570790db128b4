----------------------------- MODULE DrmTester -----------------------------
(***************************************************************************)
(* deadlock_demolition/libdrm_tester.c: two threads that take two drms in  *)
(* opposite orders and give them back, whatever drm_wait answered; main    *)
(* joins both and destroys the drms.                                       *)
(***************************************************************************)
EXTENDS Drm, Naturals, Sequences, TLC

CONSTANTS t1, t2, \* the threads, which run func1 and func2
          d1, d2  \* s.drm1 and s.drm2

func1 == << <<"wait", d1>>, <<"wait", d2>>, <<"post", d2>>, <<"post", d1>> >>

func2 == << <<"wait", d2>>, <<"wait", d1>>, <<"post", d1>>, <<"post", d2>> >>

Script == t1 :> func1 @@ t2 :> func2

VARIABLES calls,  \* how many of the calls of its function a thread has begun
          exists  \* the drms that main has not destroyed

testerVars == <<vars, calls, exists>>

TesterInit == Init /\ calls = [t \in Threads |-> 0] /\ exists = Drms

CallNext(t) ==
    /\ calls[t] < Len(Script[t])
    /\ LET call == Script[t][calls[t] + 1] IN
       \/ call[1] = "wait" /\ drm_wait(t, call[2])
       \/ call[1] = "post" /\ drm_post(t, call[2])
    /\ calls' = [calls EXCEPT ![t] = @ + 1]
    /\ UNCHANGED exists

InCall(t) == (Locked(t) \/ Unlocked(t)) /\ UNCHANGED <<calls, exists>>

Joined == \A t \in Threads : pc[t] = "idle" /\ calls[t] = Len(Script[t])

\* The first drm_destroy destroys the graph of all drms.
drm_destroy(d) == /\ Joined /\ mtx = NULL /\ d \in exists
                  /\ exists' = exists \ {d}
                  /\ edges' = {}
                  /\ UNCHANGED <<holder, mtx, pc, at, calls>>

TesterNext == \/ \E t \in Threads : CallNext(t) \/ InCall(t)
              \/ \E d \in Drms : drm_destroy(d)

(* Every thread, main included, takes the steps it can take.  The fairness *)
(* of the mutexes m is even strong.                                        *)
TesterSpec ==
    /\ TesterInit /\ [][TesterNext]_testerVars
    /\ \A t \in Threads : SF_testerVars(CallNext(t) \/ InCall(t))
    /\ WF_testerVars(\E d \in Drms : drm_destroy(d))

(* libdrm_tester.c:57-61 joins both threads, destroys both drms and        *)
(* returns: the test ends.                                                 *)
TesterEnds == <>(exists = {})
=============================================================================
