------------------------------ MODULE Scheduler ------------------------------
(***************************************************************************)
(* libscheduler.c: the six schemes of the scheduler, its queue of jobs and *)
(* its statistics, under a simulated processor.                            *)
(*                                                                         *)
(* The processor is the caller: at each unit of time it hands in the jobs  *)
(* that arrive and asks for the next job; a job that has run for its       *)
(* running time is reported as finished before that, or right after it: the*)
(* tests of scheduler_test.c do both.                                      *)
(* The priority queue is outside the repository: it puts a job in front of *)
(* the first one that the comparer puts behind it.                         *)
(***************************************************************************)
EXTENDS Integers, Sequences, FiniteSetsExt, SequencesExt

CONSTANTS Jobs, Schemes, Bursts, Priorities,
          MaxTime,  \* no job arrives later
          NULL

VARIABLES scheme, time,
          pqueue,      \* the jobs that wait
          info,        \* metadata of each job, NULL before it arrives and when it is done
          running,     \* the job the processor has, or NULL
          waiting_time, turnaround_time, response_time,
          ran, waited, \* how long each job was seen to run and to wait,
          answered,    \* and to wait before it first ran
          finished

stats == <<waiting_time, turnaround_time, response_time>>
vars == <<scheme, time, pqueue, info, running, stats, ran, waited, answered, finished>>

Zero == [j \in Jobs |-> 0]

Init == /\ scheme \in Schemes /\ time = 0 /\ pqueue = <<>>
        /\ info = [j \in Jobs |-> NULL] /\ running = NULL
        /\ waiting_time = 0 /\ turnaround_time = 0 /\ response_time = 0
        /\ ran = Zero /\ waited = Zero /\ answered = Zero /\ finished = {}

-----------------------------------------------------------------------------
(* The comparers: TRUE when a goes before b; ties go to the earlier one.   *)
Rank(i) == CASE scheme \in {"PRI", "PPRI"} -> i.priority
             [] scheme = "PSRTF"           -> i.remain_time
             [] scheme = "SJF"             -> i.burst_time
             [] OTHER                      -> 0

Before(a, b) == /\ scheme # "RR"
                /\ \/ Rank(a) < Rank(b)
                   \/ Rank(a) = Rank(b) /\ a.arrival_time < b.arrival_time

\* priqueue_offer of job j, whose metadata are in table.
priqueue_offer(q, j, table) ==
    LET behind == {i \in DOMAIN q : Before(table[j], table[q[i]])}
    IN InsertAt(q, IF behind = {} THEN Len(q) + 1 ELSE Min(behind), j)

scheduler_new_job(j) ==
    /\ info[j] = NULL /\ j \notin finished /\ time <= MaxTime
    /\ \E burst \in Bursts, priority \in Priorities :
         info' = [info EXCEPT ![j] =
                    [arrival_time |-> time, burst_time |-> burst, remain_time |-> burst,
                     start_time |-> -1, last_start_time |-> -1, priority |-> priority]]
    /\ pqueue' = priqueue_offer(pqueue, j, info')
    /\ UNCHANGED <<scheme, time, running, stats, ran, waited, answered, finished>>

\* Mutant: the time of the last start is not renewed.
StartedOnce(i) == [i EXCEPT !.start_time = IF @ = -1 THEN time ELSE @,
                            !.last_start_time = IF @ = -1 THEN time ELSE @]

Started(i) == [i EXCEPT !.start_time = IF @ = -1 THEN time ELSE @,
                        !.last_start_time = time]

IsDone == running # NULL /\ ran[running] = info[running].burst_time

\* The first job of the queue is started; a finished one loses its metadata.
poll(q, table) ==
    LET left == IF IsDone THEN [table EXCEPT ![running] = NULL] ELSE table IN
    IF q = <<>> THEN /\ running' = NULL /\ pqueue' = <<>> /\ info' = left
    ELSE /\ running' = Head(q) /\ pqueue' = Tail(q)
         /\ info' = [left EXCEPT ![Head(q)] = Started(@)]

\* Mutant: priorities do not preempt.
PreemptiveNotPri == {"PSRTF", "RR"}

Preemptive == {"PPRI", "PSRTF", "RR"}

\* scheduler_quantum_expired(job): the job is evicted, or it goes on.
quantum_expired(job) ==
    IF job = NULL THEN poll(pqueue, info)
    ELSE IF scheme \in Preemptive
    THEN LET left == info[job].remain_time - (time - info[job].last_start_time)
             after == [info EXCEPT ![job].remain_time = left]
         IN poll(IF left > 0 THEN priqueue_offer(pqueue, job, after) ELSE pqueue, after)
    ELSE IF time - info[job].start_time < info[job].burst_time
    THEN running' = job /\ pqueue' = pqueue /\ info' = info
    ELSE poll(pqueue, info)

scheduler_job_finished(j) ==
    /\ waiting_time' = waiting_time + time - info[j].arrival_time - info[j].burst_time
    /\ turnaround_time' = turnaround_time + time - info[j].arrival_time
    /\ response_time' = response_time + info[j].start_time - info[j].arrival_time
    /\ finished' = finished \cup {j}

\* The end of a quantum; then one more unit of time passes.
Quantum ==
    /\ IF IsDone
       THEN /\ scheduler_job_finished(running)
            /\ \E job \in {NULL, running} : quantum_expired(job)
       ELSE quantum_expired(running) /\ UNCHANGED <<stats, finished>>
    /\ running' # NULL \/ IsDone \/ time < MaxTime
    /\ time' = time + 1
    /\ ran' = [j \in Jobs |-> IF j = running' THEN ran[j] + 1 ELSE ran[j]]
    /\ waited' = [j \in Jobs |-> IF j \in ToSet(pqueue') THEN waited[j] + 1 ELSE waited[j]]
    /\ answered' = [j \in Jobs |-> IF j \in ToSet(pqueue') /\ ran[j] = 0
                                   THEN answered[j] + 1 ELSE answered[j]]
    /\ UNCHANGED scheme

Next == Quantum \/ \E j \in Jobs : scheduler_new_job(j)

Spec == Init /\ [][Next]_vars

-----------------------------------------------------------------------------
\* The units of time that f counts for the jobs, and how many they are for
\* those that are finished.
Units(jobs, f) == UNION {{j} \X (1 .. f[j]) : j \in jobs}

Total(f) == Cardinality(Units(finished, f))

(* No job is lost or run beyond its time: each that has arrived and is not *)
(* finished runs or waits, once; while it waits, the time it has left is   *)
(* what it has not run; and the statistics are the times that the finished *)
(* jobs were seen to wait.                                                 *)
JobsAccounted ==
    /\ \A j \in Jobs :
         info[j] # NULL => /\ (j = running) # (j \in ToSet(pqueue))
                           /\ ran[j] <= info[j].burst_time
                           /\ j \in ToSet(pqueue) =>
                                info[j].remain_time = info[j].burst_time - ran[j]
    /\ IsInjective(pqueue)
    /\ waiting_time = Total(waited) /\ response_time = Total(answered)
    /\ turnaround_time = Total(waited) + Total(ran)

(* The job that gets the processor is the best of those that wait, and in  *)
(* the preemptive schemes also of the one that had it.                     *)
BestRuns ==
    [][Quantum /\ running' # NULL /\ (scheme \in {"PPRI", "PSRTF"} \/ running' # running)
         => \A j \in ToSet(pqueue') : ~Before(info'[j], info'[running'])]_vars
=============================================================================
