------------------------------- MODULE ParMake -------------------------------
(***************************************************************************)
(* parallel_make/parmake.c: worker threads take the rules of a makefile    *)
(* from a queue, wait until the dependencies of their rule are settled,    *)
(* run its commands and settle it.                                         *)
(*                                                                         *)
(* The queue is the FIFO that critical_concurrency/queue.c implements      *)
(* (module BoundedQueue); a pull and a push are one step each.  Whatever   *)
(* satisfy_rule does under its mutex m is one step; it reads the states of *)
(* dependencies without m.                                                 *)
(***************************************************************************)
EXTENDS Integers, Sequences, FiniteSets, SequencesExt

CONSTANTS Rules,
          Makefiles, \* records [deps: Rules -> Seq(Rules), goals: Seq(Rules)]
          Workers,
          Teams,     \* the sets of workers parmake is started with
          NULL

ASSUME ParMakeAssumption ==
    /\ IsFiniteSet(Rules) /\ NULL \notin Rules
    /\ \A mk \in Makefiles : mk.deps \in [Rules -> Seq(Rules)] /\ mk.goals \in Seq(Rules)
    /\ Teams \subseteq (SUBSET Workers) \ {{}}

VARIABLES makefile, team,
          main,   \* parmake is "collecting", "joining" its workers, or has "joined" them
          goal,   \* the loop variable i of parmake
          stack,  \* the calls of collect_rules under way: [rule, i]
          queue,  \* of rules, and the NULL that ends the workers
          state,  \* rule_t.state: "new" 0, "queued" -1, "running" 3, "done" 1, "failed" 2
          pc, target, dep, \* of each worker; dep is the loop variable i
          ran     \* history: how often each rule's commands were run

mainVars == <<main, goal, stack>>

workerVars == <<pc, target, dep, ran>>

vars == <<makefile, team, mainVars, queue, state, workerVars>>

Goals == makefile.goals

Deps(r) == makefile.deps[r]

(* The state in which parmake has parsed the makefile.                     *)
Init == /\ makefile \in Makefiles /\ team \in Teams
        /\ main = "collecting" /\ goal = 1 /\ stack = <<>>
        /\ queue = <<>> /\ state = [r \in Rules |-> "new"]
        /\ pc = [w \in Workers |-> "absent"]
        /\ target = [w \in Workers |-> NULL]
        /\ dep = [w \in Workers |-> 1]
        /\ ran = [r \in Rules |-> 0]

-----------------------------------------------------------------------------
(* isCycle(g, goal) with the rules that are on the path already: val->data *)
(* marks them.                                                             *)
isCycle(mk, r) ==
    LET visit[call \in Rules \X SUBSET Rules] ==
          \/ call[1] \in call[2]
          \/ \E i \in DOMAIN mk.deps[call[1]] :
               visit[<<mk.deps[call[1]][i], call[2] \cup {call[1]}>>]
    IN visit[<<r, {}>>]

Call(r) == [rule |-> r, i |-> 1]

Collecting == main = "collecting" /\ UNCHANGED <<makefile, team, main, workerVars>>

\* The next goal of parmake's loop.
NextGoal == /\ Collecting /\ stack = <<>> /\ goal <= Len(Goals)
            /\ goal' = goal + 1
            /\ IF isCycle(makefile, Goals[goal])
               THEN state' = [state EXCEPT ![Goals[goal]] = "failed"] /\ UNCHANGED stack
               ELSE stack' = <<Call(Goals[goal])>> /\ UNCHANGED state
            /\ UNCHANGED queue

Top == Last(stack)

\* Mutant: a rule is queued before its dependencies.
CollectDepLate ==
    /\ Collecting /\ stack # <<>> /\ Top.i <= Len(Deps(Top.rule))
    /\ stack' = Append([stack EXCEPT ![Len(stack)].i = @ + 1], Call(Deps(Top.rule)[Top.i]))
    /\ state' = [state EXCEPT ![Top.rule] = IF @ = "new" THEN "queued" ELSE @]
    /\ queue' = IF state[Top.rule] = "new" THEN Append(queue, Top.rule) ELSE queue
    /\ UNCHANGED goal

\* collect_rules calls itself for the next dependency,
CollectDep ==
    /\ Collecting /\ stack # <<>> /\ Top.i <= Len(Deps(Top.rule))
    /\ stack' = Append([stack EXCEPT ![Len(stack)].i = @ + 1], Call(Deps(Top.rule)[Top.i]))
    /\ UNCHANGED <<goal, state, queue>>

\* Mutant: a rule is queued whenever it is visited.
QueueEveryVisit ==
    /\ Collecting /\ stack # <<>> /\ Top.i > Len(Deps(Top.rule))
    /\ state' = [state EXCEPT ![Top.rule] = "queued"]
    /\ queue' = Append(queue, Top.rule)
    /\ stack' = Front(stack)
    /\ UNCHANGED goal

\* and queues the rule the first time it is visited.
QueueRule ==
    /\ Collecting /\ stack # <<>> /\ Top.i > Len(Deps(Top.rule))
    /\ \/ /\ state[Top.rule] = "new"
          /\ state' = [state EXCEPT ![Top.rule] = "queued"]
          /\ queue' = Append(queue, Top.rule)
       \/ state[Top.rule] # "new" /\ UNCHANGED <<state, queue>>
    /\ stack' = Front(stack)
    /\ UNCHANGED goal

\* The workers are created.  There are none when no rule was collected.
StartWorkers ==
    /\ main = "collecting" /\ stack = <<>> /\ goal > Len(Goals)
    /\ \/ /\ queue # <<>> /\ main' = "joining"
          /\ queue' = Append(queue, NULL)
          /\ pc' = [w \in Workers |-> IF w \in team THEN "pull" ELSE "absent"]
       \/ queue = <<>> /\ main' = "joined" /\ UNCHANGED <<queue, pc>>
    /\ UNCHANGED <<makefile, team, goal, stack, state, target, dep, ran>>

Goto(w, stage) == pc' = [pc EXCEPT ![w] = stage]

Settle(w, result) == state' = [state EXCEPT ![target[w]] = result]

-----------------------------------------------------------------------------
(* satisfy_rule                                                            *)
Pull(w) == /\ pc[w] = "pull"
           /\ queue # <<>>
           /\ target' = [target EXCEPT ![w] = Head(queue)]
           /\ queue' = Tail(queue)
           /\ Goto(w, IF Head(queue) = NULL THEN "poisoned" ELSE "look")
           /\ UNCHANGED <<makefile, team, mainVars, state, dep, ran>>

\* Mutant: the worker that draws the NULL keeps it.
KeepPoison(w) == /\ pc[w] = "poisoned"
                 /\ Goto(w, "exited")
                 /\ UNCHANGED <<makefile, team, mainVars, queue, state, target, dep, ran>>

\* The NULL goes back into the queue for the next worker.
PutPoisonBack(w) == /\ pc[w] = "poisoned"
                    /\ queue' = Append(queue, NULL)
                    /\ Goto(w, "exited")
                    /\ UNCHANGED <<makefile, team, mainVars, state, target, dep, ran>>

\* A rule that is settled already is passed over.
Look(w) == /\ pc[w] = "look"
           /\ dep' = [dep EXCEPT ![w] = 1]
           /\ Goto(w, IF state[target[w]] = "queued" THEN "deps" ELSE "pull")
           /\ UNCHANGED <<makefile, team, mainVars, queue, state, target, ran>>

\* A look at dependency dep[w], without the mutex.
CheckDep(w) ==
    /\ pc[w] = "deps" /\ dep[w] <= Len(Deps(target[w]))
    /\ LET d == Deps(target[w])[dep[w]] IN
       \/ /\ state[d] \in {"queued", "running"}
          /\ Goto(w, "wait")
          /\ UNCHANGED <<state, dep>>
       \/ /\ state[d] = "failed"
          /\ Settle(w, "failed")
          /\ Goto(w, "announce")
          /\ UNCHANGED dep
       \/ /\ state[d] \in {"done", "new"}
          /\ dep' = [dep EXCEPT ![w] = @ + 1]
          /\ UNCHANGED <<state, pc>>
    /\ UNCHANGED <<makefile, team, mainVars, queue, target, ran>>

\* pthread_mutex_lock and pthread_cond_wait: what the look saw may be past.
Sleep(w) == /\ pc[w] = "wait"
            /\ Goto(w, "asleep")
            /\ UNCHANGED <<makefile, team, mainVars, queue, state, target, dep, ran>>

SpuriousWakeup(w) == /\ pc[w] = "asleep"
                     /\ Goto(w, "deps")
                     /\ UNCHANGED <<makefile, team, mainVars, queue, state, target, dep, ran>>

\* It compares the times of files: both answers are possible.
need_to_run_command == BOOLEAN

\* Mutant: the state is set before the last dependency has been looked at.
StartEarly(w) ==
    /\ pc[w] = "deps" /\ dep[w] >= Len(Deps(target[w]))
    /\ Settle(w, "running")
    /\ \E need_run \in need_to_run_command : Goto(w, IF need_run THEN "run" ELSE "finish")
    /\ UNCHANGED <<makefile, team, mainVars, queue, target, dep, ran>>

Start(w) ==
    /\ pc[w] = "deps" /\ dep[w] > Len(Deps(target[w]))
    /\ Settle(w, "running")
    /\ \E need_run \in need_to_run_command : Goto(w, IF need_run THEN "run" ELSE "finish")
    /\ UNCHANGED <<makefile, team, mainVars, queue, target, dep, ran>>

\* The commands are run up to the first that fails.
Run(w) ==
    /\ pc[w] = "run"
    /\ ran' = [ran EXCEPT ![target[w]] = @ + 1]
    /\ \/ Goto(w, "finish") /\ UNCHANGED state
       \/ Settle(w, "failed") /\ Goto(w, "announce")
    /\ UNCHANGED <<makefile, team, mainVars, queue, target, dep>>

Finish(w) == /\ pc[w] = "finish"
             /\ Settle(w, "done")
             /\ Goto(w, "announce")
             /\ UNCHANGED <<makefile, team, mainVars, queue, target, dep, ran>>

\* pthread_cond_broadcast, after the mutex has been released.
Announce(w) ==
    /\ pc[w] = "announce"
    /\ pc' = [v \in Workers |-> IF v = w THEN "pull"
                                ELSE IF pc[v] = "asleep" THEN "deps" ELSE pc[v]]
    /\ UNCHANGED <<makefile, team, mainVars, queue, state, target, dep, ran>>

-----------------------------------------------------------------------------
(* parmake joins the workers, destroys the queue and returns.              *)
Join == /\ main = "joining"
        /\ \A w \in team : pc[w] = "exited"
        /\ main' = "joined"
        /\ UNCHANGED <<makefile, team, goal, stack, queue, state, workerVars>>

Finished == main = "joined" /\ UNCHANGED vars

Main == NextGoal \/ CollectDep \/ QueueRule \/ StartWorkers \/ Join

WorkerStep(w) == \/ Pull(w) \/ PutPoisonBack(w) \/ Look(w) \/ CheckDep(w) \/ Sleep(w)
                 \/ Start(w) \/ Run(w) \/ Finish(w) \/ Announce(w)

Next == Main \/ Finished \/ \E w \in team : WorkerStep(w) \/ SpuriousWakeup(w)

Spec == Init /\ [][Next]_vars

(* Every worker and the main thread take the steps they can take.          *)
FairSpec == /\ Spec
            /\ \A w \in Workers : WF_vars(w \in team /\ WorkerStep(w))
            /\ WF_vars(Main)

-----------------------------------------------------------------------------
(* Commands run in the order of the dependencies, although the states of   *)
(* dependencies are read without the mutex: a rule that is running, has    *)
(* run its commands or is done has only dependencies that are done.        *)
DependenciesFirst ==
    \A r \in Rules :
        (state[r] \in {"running", "done"} \/ ran[r] > 0)
            => \A d \in ToSet(Deps(r)) : state[d] = "done"

Busy == {w \in team : pc[w] \in {"look", "deps", "wait", "asleep", "run", "finish"}}

(* A rule is worked on by one worker, and its commands are run at most     *)
(* once, however many targets need it.                                     *)
OneWorkerPerRule == /\ \A v, w \in Busy : v # w => target[v] # target[w]
                    /\ \A r \in Rules : ran[r] <= 1

(* What the goals without a cycle need: what is in every set that holds    *)
(* them and the dependencies of its members.                               *)
Needed == {r \in Rules :
             \A S \in SUBSET Rules :
                 (/\ \A i \in DOMAIN Goals : isCycle(makefile, Goals[i]) \/ Goals[i] \in S
                  /\ \A q \in S : ToSet(Deps(q)) \subseteq S) => r \in S}

(* When parmake returns, every rule that a goal without a cycle needs is   *)
(* settled; it failed only if its own commands were run or a dependency    *)
(* failed.  Nothing else was run, and the NULL that ended the workers is   *)
(* all that the queue holds.                                               *)
Verdict ==
    main = "joined" =>
      /\ \A r \in Needed :
            \/ state[r] = "done"
            \/ /\ state[r] = "failed"
               /\ ran[r] = 1 \/ \E d \in ToSet(Deps(r)) : state[d] = "failed"
      /\ \A r \in Rules \ Needed : ran[r] = 0 /\ state[r] # "done"
      /\ Needed # {} => queue = <<NULL>>

(* A single worker never has to wait, since the queue holds a rule's       *)
(* dependencies before the rule: parmake always returns.  (With more       *)
(* workers it may hang: see the hazard at parmake.c:126.)                  *)
SingleWorkerReturns == Cardinality(team) <= 1 => <>(main = "joined")
=============================================================================
