------------------------------ MODULE Cracker2 ------------------------------
(***************************************************************************)
(* password_cracker: cracker2.c.  One task after the other is cracked by   *)
(* all threads together, each trying its part of the candidates until one  *)
(* of them sets the flag found.                                            *)
(*                                                                         *)
(* The password of a cracked task is freed and kept: when a task fails     *)
(* after it, the same memory is freed again.  What follows is undefined    *)
(* and not modelled.                                                       *)
(***************************************************************************)
EXTENDS Integers, Sequences, FiniteSetsExt

CONSTANTS Nthread,
          Space,   \* the number of candidates of a task
          Answers, \* which of them may be right; Space for none of them
          Ntasks, NULL, FREED

Workers == 1 .. Nthread

VARIABLES tasks,    \* the answers of the tasks that are left, the current one first
          main,     \* "next", "join" or how start ended
          found,
          place,    \* of each thread: "check", "hash" or "done"
          tried,    \* how many candidates it has hashed
          ender,    \* what it returns: its password, or NULL
          joined,   \* how many threads were joined
          password, \* the start function's password: a number, FREED, or NULL
          result, totalhashcount

vars == <<tasks, main, found, place, tried, ender, joined, password, result, totalhashcount>>

Init == /\ tasks \in [1 .. Ntasks -> Answers]
        /\ main = "next" /\ found = FALSE
        /\ place = [t \in Workers |-> "done"] /\ tried = [t \in Workers |-> 0]
        /\ ender = [t \in Workers |-> NULL] /\ joined = 0
        /\ password = NULL /\ result = 1 /\ totalhashcount = 0

\* getSubrange: the parts differ by one at most.
First(t) == ((t - 1) * Space) \div Nthread

Count(t) == First(t + 1) - First(t)

-----------------------------------------------------------------------------
\* Mutant: found keeps its value from task to task.
ResetNothing == UNCHANGED found

ResetFound == found' = FALSE

\* The next task, or the end of start.
StartThreads ==
    /\ main = "next"
    /\ IF tasks = <<>> THEN main' = "returned" /\ UNCHANGED <<found, place>>
       ELSE main' = "join" /\ ResetFound /\ place' = [t \in Workers |-> "check"]
    /\ tried' = [t \in Workers |-> 0] /\ ender' = [t \in Workers |-> NULL]
    /\ joined' = 0 /\ result' = 1 /\ totalhashcount' = 0
    /\ UNCHANGED <<tasks, password>>

Check(t) ==
    /\ place[t] = "check"
    /\ place' = [place EXCEPT ![t] = IF tried[t] < Count(t) /\ ~found THEN "hash" ELSE "done"]
    /\ UNCHANGED <<tasks, main, found, tried, ender, joined, password, result, totalhashcount>>

Hash(t) ==
    LET candidate == First(t) + tried[t]
        right == candidate = Head(tasks)
    IN /\ place[t] = "hash"
       /\ tried' = [tried EXCEPT ![t] = @ + 1]
       /\ found' = (found \/ right)
       /\ ender' = [ender EXCEPT ![t] = IF right THEN candidate ELSE NULL]
       /\ place' = [place EXCEPT ![t] = IF right THEN "done" ELSE "check"]
       /\ UNCHANGED <<tasks, main, joined, password, result, totalhashcount>>

Join == /\ main = "join" /\ joined < Nthread /\ place[joined + 1] = "done"
        /\ joined' = joined + 1
        /\ totalhashcount' = totalhashcount + tried[joined + 1]
        /\ IF ender[joined + 1] = NULL THEN UNCHANGED <<password, result>>
           ELSE password' = ender[joined + 1] /\ result' = 0
        /\ UNCHANGED <<tasks, main, found, place, tried, ender>>

\* The summary is printed and the password freed.
Summary == /\ main = "join" /\ joined = Nthread
           /\ main' = IF password = FREED THEN "undefined" ELSE "next"
           /\ password' = IF password = NULL THEN NULL ELSE FREED
           /\ tasks' = Tail(tasks)
           /\ UNCHANGED <<found, place, tried, ender, joined, result, totalhashcount>>

Next == \/ StartThreads \/ Join \/ Summary
        \/ \E t \in Workers : Check(t) \/ Hash(t)

Spec == Init /\ [][Next]_vars

-----------------------------------------------------------------------------
(* When the summary of a task is printed, the password has been found if   *)
(* it is among the candidates, and it is the right one; if none is right,  *)
(* each candidate was tried exactly once.                                  *)
SearchComplete ==
    main = "join" /\ joined = Nthread =>
      /\ result = 0 <=> Head(tasks) < Space
      /\ result = 0 => password = Head(tasks)
      /\ result = 1 => totalhashcount = Space
      /\ totalhashcount <= Space
=============================================================================
