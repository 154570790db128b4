------------------------------ MODULE Programs ------------------------------
(***************************************************************************)
(* Five programs that share nothing, checked in one run: a behaviour is a  *)
(* behaviour of one of them, and the others stay in an initial state, so   *)
(* that the state spaces add up instead of multiplying.                    *)
(***************************************************************************)
EXTENDS Integers, Sequences, FiniteSets

CONSTANTS NULL, JUNK, FREED,
          Copies, INITIAL_CAPACITY,
          Jobs, Schemes, Bursts, Priorities, MaxTime,
          Nthread, Space, Answers, Ntasks,
          Lines, Index, Failing, Pids, MaxHistory,
          Threads, Posters, MaxVals

JobInfo == [arrival_time : Nat, burst_time : Nat \ {0}, remain_time : Int, start_time : Int,
            last_start_time : Int, priority : Priorities]

ASSUME VectorAssumption == INITIAL_CAPACITY \in Nat /\ IsFiniteSet(Copies)

ASSUME SchedulerAssumption == /\ Bursts \subseteq Nat \ {0} /\ Priorities \subseteq Int
                              /\ MaxTime \in Nat
                              /\ NULL \notin Jobs /\ NULL \notin JobInfo

ASSUME CrackerAssumption == /\ Nthread \in Nat \ {0} /\ Space \in Nat
                            /\ Answers \subseteq Nat /\ Ntasks \in Nat
                            /\ NULL \notin Nat

ASSUME ShellAssumption == NULL \notin Pids /\ NULL \notin [pid : Pids, back : BOOLEAN]

ASSUME SemamoreAssumption == /\ Posters \subseteq Threads /\ NULL \notin Threads
                             /\ MaxVals \subseteq Nat \ {0}

VARIABLES program,
  array, size, live, undefined,
  scheme, time, pqueue, info, running, waiting_time, turnaround_time, response_time,
  ran, waited, answered, finished,
  tasks, main, found, place, tried, ender, joined, password, result, totalhashcount,
  mode, shell, script, file, v, todo, res, forked, state, cmd, code, process_v,
  handler, sigchld, entered, truth,
  owner, pc, value, max_val

Vec == INSTANCE Vector
Sch == INSTANCE Scheduler
Cra == INSTANCE Cracker2
She == INSTANCE Shell
Semm == INSTANCE Semamore

vectorVars == <<array, size, live, undefined>>
schedulerVars == <<scheme, time, pqueue, info, running, waiting_time, turnaround_time,
                   response_time, ran, waited, answered, finished>>
crackerVars == <<tasks, main, found, place, tried, ender, joined, password, result,
                 totalhashcount>>
shellVars == <<mode, shell, script, file, v, todo, res, forked, state, cmd, code, process_v,
               handler, sigchld, entered, truth>>
semamoreVars == <<owner, pc, value, max_val>>

vars == <<program, vectorVars, schedulerVars, crackerVars, shellVars, semamoreVars>>

Init == /\ program \in {"vector", "scheduler", "cracker2", "shell", "semamore"}
        /\ Vec!Init /\ Sch!Init /\ Cra!Init /\ She!Init /\ Semm!Init
        /\ program # "scheduler" => scheme = "FCFS"
        /\ program # "cracker2" => \A i \in DOMAIN tasks : tasks[i] = 0
        /\ program # "shell" => mode = "plain"
        /\ program # "semamore" => value = 0 /\ max_val = CHOOSE m \in MaxVals : TRUE

Next == \/ /\ program = "vector" /\ Vec!Next
           /\ UNCHANGED <<program, schedulerVars, crackerVars, shellVars, semamoreVars>>
        \/ /\ program = "scheduler" /\ Sch!Next
           /\ UNCHANGED <<program, vectorVars, crackerVars, shellVars, semamoreVars>>
        \/ /\ program = "cracker2" /\ Cra!Next
           /\ UNCHANGED <<program, vectorVars, schedulerVars, shellVars, semamoreVars>>
        \/ /\ program = "shell" /\ She!Next
           /\ UNCHANGED <<program, vectorVars, schedulerVars, crackerVars, semamoreVars>>
        \/ /\ program = "semamore" /\ Semm!Next
           /\ UNCHANGED <<program, vectorVars, schedulerVars, crackerVars, shellVars>>

(* The fairness of the shell and of the semamore's threads; the others are *)
(* checked for safety alone.                                               *)
Spec == Init /\ [][Next]_vars /\ She!Fairness /\ Semm!Fairness

-----------------------------------------------------------------------------
(* vector.c: the vector is the sequence of the copies it owns: through     *)
(* growth and moves none is lost, leaked, destroyed twice or out of place. *)
Contract == INSTANCE SequenceContract WITH contents <- Vec!Contents

ImplementsSequence == Contract!Spec

(* libscheduler.c: no job is lost or run too long, and the statistics are  *)
(* what the jobs were seen to wait.                                        *)
JobsAccounted == Sch!JobsAccounted

(* libscheduler.c: the processor goes to the best of the jobs that wait.   *)
BestRuns == Sch!BestRuns

(* cracker2.c: the password is found or each candidate was tried once.     *)
SearchComplete == Cra!SearchComplete

(* shell.c: the history is what was typed or recalled, once and in order.  *)
HistoryKept == She!HistoryKept

(* shell.c: no child is forgotten, and until the handler is installed the  *)
(* result that && and || look at is how the command ended.                 *)
ChildrenAccounted == She!ChildrenAccounted

(* shell.c: a line that does not refer to itself comes to its end.         *)
EveryLineEnds == She!EveryLineEnds

(* semamore.c: value stays in 0..max_val.                                  *)
ValueBounded == Semm!TypeOK

(* semamore.c: nobody sleeps for a reason that is gone.                    *)
NoLostWakeup == Semm!NoLostWakeup

(* semamore.c: calls keep returning as long as they may.                   *)
BlocksOnlyAtBounds == Semm!BlocksOnlyAtBounds
=============================================================================
