--------------------------- MODULE ParMake_proofs ---------------------------
(***************************************************************************)
(* parmake.c for any makefiles and any number of workers: commands run in  *)
(* the order of the dependencies, once, and the verdict is right whenever  *)
(* parmake returns.                                                        *)
(***************************************************************************)
EXTENDS ParMake, FiniteSetTheorems, TLAPS

Waiting == {"deps", "wait", "asleep"}

Frames == [rule : Rules, i : Nat \ {0}]

TypeOK == /\ makefile \in Makefiles /\ team \in Teams
          /\ main \in {"collecting", "joining", "joined"}
          /\ goal \in 1..Len(Goals) + 1
          /\ stack \in Seq(Frames)
          /\ queue \in Seq(Rules \cup {NULL})
          /\ state \in [Rules -> {"new", "queued", "running", "done", "failed"}]
          /\ pc \in [Workers -> Waiting \cup {"absent", "pull", "poisoned", "exited", "look",
                                              "run", "finish", "announce"}]
          /\ target \in [Workers -> Rules \cup {NULL}]
          /\ dep \in [Workers -> Nat \ {0}]
          /\ ran \in [Rules -> Nat]

\* The dependencies that a call of collect_rules has seen to are collected,
\* but for the one that it is just seeing to.
StackOK ==
    \A k \in DOMAIN stack :
      /\ stack[k].rule \in Needed
      /\ stack[k].i <= Len(Deps(stack[k].rule)) + 1
      /\ \A j \in 1..stack[k].i - 1 :
           \/ state[Deps(stack[k].rule)[j]] # "new"
           \/ k < Len(stack) /\ stack[k + 1].rule = Deps(stack[k].rule)[j]

\* The same of the loop over the goals.
GoalsSeen ==
    \A j \in 1..goal - 1 :
      \/ isCycle(makefile, Goals[j])
      \/ state[Goals[j]] # "new"
      \/ stack # <<>> /\ stack[1].rule = Goals[j]

CyclicGoal(r) == isCycle(makefile, r) /\ r \in ToSet(Goals)

\* Until all is collected no worker exists; afterwards no call is left, and
\* when parmake returns no worker.
Phases ==
    /\ main = "collecting" =>
         /\ \A w \in Workers : pc[w] = "absent"
         /\ \A r \in Rules : /\ ran[r] = 0
                             /\ state[r] \notin {"new", "queued"} =>
                                  state[r] = "failed" /\ CyclicGoal(r)
    /\ main # "collecting" => stack = <<>> /\ \A r \in Needed : state[r] # "new"
    /\ main = "joined" => /\ \A w \in Workers : pc[w] \in {"absent", "exited"}
                          /\ Needed = {} \/ \A w \in team : pc[w] = "exited"
    /\ \A w \in Workers : pc[w] # "absent" => w \in team

\* What is in the queue is there once, and the NULL comes last.
QueueOK ==
    /\ \A i, j \in DOMAIN queue : queue[i] = queue[j] => i = j
    /\ \A i \in DOMAIN queue :
         IF queue[i] = NULL THEN i = Len(queue) /\ main # "collecting"
         ELSE state[queue[i]] = "queued"

\* One worker at most has the NULL, and then the queue is empty.
PoisonOK ==
    /\ \A v, w \in Workers :
         pc[w] = "poisoned" => queue = <<>> /\ (pc[v] = "poisoned" => v = w)
    /\ \A w \in Workers : pc[w] = "exited" => \A i \in DOMAIN queue : queue[i] = NULL
    /\ main # "collecting" => \/ \E i \in DOMAIN queue : queue[i] = NULL
                              \/ \E w \in Workers : pc[w] = "poisoned"
                              \/ Needed = {}

At(w, r) == pc[w] \in Waiting \cup {"look", "run", "finish"} /\ target[w] = r

\* A worker has its rule for itself.
TargetsOK ==
    /\ \A w \in Workers :
         /\ pc[w] \in Waiting \cup {"look"} =>
               target[w] \in Rules /\ state[target[w]] = "queued"
         /\ pc[w] \in {"run", "finish"} =>
               target[w] \in Rules /\ state[target[w]] = "running"
    /\ \A v, w \in Workers, r \in Rules : At(v, r) /\ At(w, r) => v = w
    /\ \A w \in Workers, r \in Rules : At(w, r) => \A i \in DOMAIN queue : queue[i] # r

\* A rule that is not settled is in the queue or has a worker.
NotLost ==
    \A r \in Rules :
      /\ state[r] = "queued" => \/ \E i \in DOMAIN queue : queue[i] = r
                                \/ \E w \in Workers : At(w, r)
      /\ state[r] = "running" => \E w \in Workers : At(w, r)

\* What a worker has found done stays done.
DepsDone ==
    /\ \A r \in Rules : state[r] = "queued" => \A d \in ToSet(Deps(r)) : state[d] # "new"
    /\ \A w \in Workers : pc[w] \in Waiting =>
         \A j \in DOMAIN Deps(target[w]) : j < dep[w] => state[Deps(target[w])[j]] = "done"
    /\ DependenciesFirst

RunOnce ==
    /\ \A r \in Rules : /\ ran[r] <= 1
                        /\ ran[r] = 1 => state[r] \in {"running", "done", "failed"}
    /\ \A w \in Workers : pc[w] = "run" => ran[target[w]] = 0

\* Only what is needed is run, and a rule fails for a reason.
Reasons ==
    \A r \in Rules :
      /\ state[r] \in {"queued", "running", "done"} \/ ran[r] = 1 => r \in Needed
      /\ state[r] = "failed" => \/ ran[r] = 1
                                \/ \E d \in ToSet(Deps(r)) : state[d] = "failed"
                                \/ CyclicGoal(r)

IInv == /\ TypeOK /\ StackOK /\ GoalsSeen /\ Phases /\ QueueOK /\ PoisonOK /\ TargetsOK
        /\ NotLost /\ DepsDone /\ RunOnce /\ Reasons
-----------------------------------------------------------------------------
(* One more call of isCycle, with f for the calls it makes.                *)
Calls == Rules \X SUBSET Rules

Visit(mk, f) == [call \in Calls |->
                    \/ call[1] \in call[2]
                    \/ \E i \in DOMAIN mk.deps[call[1]] :
                         f[<<mk.deps[call[1]][i], call[2] \cup {call[1]}>>]]

(* The recursion of isCycle has a solution, since the path grows.          *)
LEMMA VisitDefined ==
    ASSUME NEW mk, mk.deps \in [Rules -> Seq(Rules)]
    PROVE  \E f : f = Visit(mk, f)
<1> DEFINE Next1(c, i) == <<mk.deps[c[1]][i], c[2] \cup {c[1]}>>
           Step(X) == {c \in Calls : \/ c[1] \in c[2]
                                     \/ \E i \in DOMAIN mk.deps[c[1]] : Next1(c, i) \in X}
           True == {c \in Calls : \A X \in SUBSET Calls : Step(X) \subseteq X => c \in X}
           f == [c \in Calls |-> IF c \in True THEN TRUE ELSE FALSE]
<1>0. \A c \in Calls : \A i \in DOMAIN mk.deps[c[1]] : Next1(c, i) \in Calls
  BY DEF Calls
<1> HIDE DEF Next1
<1>1. \A X, Y \in SUBSET Calls : X \subseteq Y => Step(X) \subseteq Step(Y)
  OBVIOUS
<1>2. \A X \in SUBSET Calls : Step(X) \in SUBSET Calls
  OBVIOUS
<1>3. \A X \in SUBSET Calls : Step(X) \subseteq X => True \subseteq X
  OBVIOUS
<1> HIDE DEF Step
<1>4. Step(True) \subseteq True
  <2> SUFFICES ASSUME NEW c \in Step(True), NEW X \in SUBSET Calls, Step(X) \subseteq X
               PROVE  c \in X
    BY <1>2
  <2>1. True \subseteq X /\ True \in SUBSET Calls
    BY <1>3
  <2> HIDE DEF True
  <2> QED
    BY <1>1, <2>1
<1>5. True \in SUBSET Calls
  OBVIOUS
<1>6. True \subseteq Step(True)
  <2>1. Step(True) \in SUBSET Calls /\ Step(Step(True)) \subseteq Step(True)
    <3> HIDE DEF True
    <3> QED
      BY <1>1, <1>2, <1>4, <1>5
  <2> QED
    BY <1>3, <2>1
<1> HIDE DEF True
<1>7. True = Step(True)
  BY <1>4, <1>6
<1>8. \A c \in Calls : (c \in True => f[c] = TRUE) /\ (c \notin True => f[c] = FALSE)
  OBVIOUS
<1>9. f = [c \in Calls |-> f[c]]
  OBVIOUS
<1> HIDE DEF f
<1>10. ASSUME NEW c \in Calls
       PROVE  f[c] = (\/ c[1] \in c[2]
                      \/ \E i \in DOMAIN mk.deps[c[1]] : f[Next1(c, i)])
  <2>1. c \in True <=>
          \/ c[1] \in c[2]
          \/ \E i \in DOMAIN mk.deps[c[1]] : Next1(c, i) \in True
    <3>1. c \in True <=> c \in Step(True)
      BY <1>7
    <3> QED
      BY <3>1, Zenon DEF Step
  <2>2. \A i \in DOMAIN mk.deps[c[1]] : f[Next1(c, i)] <=> Next1(c, i) \in True
    BY <1>0, <1>8, Zenon
  <2>3. (c \in True) <=>
          \/ c[1] \in c[2]
          \/ \E i \in DOMAIN mk.deps[c[1]] : f[Next1(c, i)]
    BY <2>1, <2>2
  <2>4. CASE c \in True
    <3>1. f[c] = TRUE
      BY <1>8, <2>4, Zenon
    <3> QED
      BY <2>3, <2>4, <3>1, Zenon
  <2>5. CASE c \notin True
    <3>1. f[c] = FALSE
      BY <1>8, <2>5, Zenon
    <3> QED
      BY <2>3, <2>5, <3>1, Zenon
  <2> QED
    BY <2>4, <2>5
<1>11. f = Visit(mk, f)
  BY <1>9, <1>10, Zenon DEF Visit, Next1
<1> QED
  BY <1>11

(* A goal that needs a rule on a cycle, or one that leads to a cycle, is   *)
(* found to be cyclic itself: isCycle judges goals as it judges rules.     *)
LEMMA CycleFound ==
    ASSUME NEW mk, mk.deps \in [Rules -> Seq(Rules)],
           NEW r \in Rules, ~isCycle(mk, r), NEW i \in DOMAIN mk.deps[r]
    PROVE  ~isCycle(mk, mk.deps[r][i])
<1> DEFINE visit == CHOOSE f : f = Visit(mk, f)
           d == mk.deps[r][i]
<1>1. visit = Visit(mk, visit)
  BY VisitDefined
<1>2. \A q : isCycle(mk, q) = visit[<<q, {}>>]
  BY Zenon DEF isCycle, Visit, Calls
<1> HIDE DEF visit
<1>3. ASSUME NEW q \in Rules, NEW p \in SUBSET Rules
      PROVE  visit[<<q, p>>] <=>
                \/ q \in p
                \/ \E j \in DOMAIN mk.deps[q] : visit[<<mk.deps[q][j], p \cup {q}>>]
  <2> DEFINE c == <<q, p>>
             Found(k, v) ==
                visit[c] <=> \/ k \in v
                             \/ \E j \in DOMAIN mk.deps[k] : visit[<<mk.deps[k][j], v \cup {k}>>]
  <2>1. c \in Calls /\ c[1] = q /\ c[2] = p
    BY DEF Calls
  <2> HIDE DEF c
  <2>2. Found(c[1], c[2])
    BY <1>1, <2>1, Zenon DEF Visit
  <2> HIDE DEF Found
  <2>3. Found(q, p)
    BY <2>1, <2>2, Zenon
  <2> QED
    BY <2>3, Zenon DEF Found, c
<1>4. d \in Rules /\ {} \in SUBSET Rules
  OBVIOUS
<1>5. ~visit[<<d, {r}>>]
  <2>1. ~visit[<<r, {}>>]
    BY <1>2
  <2>2. ~ \E j \in DOMAIN mk.deps[r] : visit[<<mk.deps[r][j], {} \cup {r}>>]
    BY <1>3, <1>4, <2>1, Zenon
  <2>3. {} \cup {r} = {r}
    OBVIOUS
  <2> QED
    BY <2>2, <2>3, Zenon
<1> SUFFICES ASSUME visit[<<d, {}>>] PROVE FALSE
  BY <1>2
<1> DEFINE Less(p, q) == p \subseteq q /\ \E a \in Rules : visit[<<a, p>>] /\ ~visit[<<a, q>>]
           Left == {Rules \ p : p \in {p \in SUBSET Rules : \E q \in SUBSET Rules : Less(p, q)}}
<1>6. Rules \ {} \in Left
  BY <1>4, <1>5
<1>7. Left \subseteq FiniteSubsetsOf(Rules)
  <2>1. Left \subseteq SUBSET Rules
    OBVIOUS
  <2> QED
    BY <2>1, ParMakeAssumption, FS_FiniteSubsetsOfFinite
<1>8. PICK L \in Left : \A M \in Left : ~(<<M, L>> \in StrictSubsetOrdering(Rules))
  BY <1>6, <1>7, FS_StrictSubsetOrderingWellFounded, WFMin
<1>9. PICK p \in SUBSET Rules, q \in SUBSET Rules : L = Rules \ p /\ Less(p, q)
  BY <1>8
<1>10. PICK a \in Rules : visit[<<a, p>>] /\ ~visit[<<a, q>>]
  BY <1>9
<1>11. /\ visit[<<a, p>>] <=> \/ a \in p
                             \/ \E j \in DOMAIN mk.deps[a] : visit[<<mk.deps[a][j], p \cup {a}>>]
       /\ visit[<<a, q>>] <=> \/ a \in q
                             \/ \E j \in DOMAIN mk.deps[a] : visit[<<mk.deps[a][j], q \cup {a}>>]
  BY <1>3, Zenon
<1>12. a \notin p
  BY <1>9, <1>10, <1>11
<1>13. PICK j \in DOMAIN mk.deps[a] : visit[<<mk.deps[a][j], p \cup {a}>>]
  BY <1>10, <1>11, <1>12, Zenon
<1>14. ~visit[<<mk.deps[a][j], q \cup {a}>>] /\ mk.deps[a][j] \in Rules
  <2>1. ~ \E k \in DOMAIN mk.deps[a] : visit[<<mk.deps[a][k], q \cup {a}>>]
    BY <1>10, <1>11, Zenon
  <2>2. mk.deps[a][j] \in Rules
    OBVIOUS
  <2>3. ~visit[<<mk.deps[a][j], q \cup {a}>>]
    BY <2>1, Zenon
  <2> QED
    BY <2>2, <2>3, Zenon
<1>15. Rules \ (p \cup {a}) \in Left
  <2>1. p \cup {a} \in SUBSET Rules /\ q \cup {a} \in SUBSET Rules
    OBVIOUS
  <2>2. Less(p \cup {a}, q \cup {a})
    BY <1>9, <1>13, <1>14
  <2> HIDE DEF Less
  <2> QED
    BY <2>1, <2>2
<1>16. <<Rules \ (p \cup {a}), L>> \in StrictSubsetOrdering(Rules)
  BY <1>9, <1>12 DEF StrictSubsetOrdering
<1> QED
  BY <1>8, <1>15, <1>16

-----------------------------------------------------------------------------
(* What is needed is not on a cycle; it has dependencies that are needed.  *)
LEMMA NeededOK ==
    ASSUME TypeOK
    PROVE  /\ Goals \in Seq(Rules) /\ \A r \in Rules : Deps(r) \in Seq(Rules)
           /\ \A r \in Needed : r \in Rules /\ ~isCycle(makefile, r)
           /\ \A r \in Needed : \A i \in DOMAIN Deps(r) : Deps(r)[i] \in Needed
           /\ \A i \in DOMAIN Goals : isCycle(makefile, Goals[i]) \/ Goals[i] \in Needed
<1>1. /\ makefile.deps \in [Rules -> Seq(Rules)]
      /\ Goals \in Seq(Rules) /\ \A r \in Rules : Deps(r) \in Seq(Rules)
  BY ParMakeAssumption DEF TypeOK, Goals, Deps
<1>2. \A r \in Needed : r \in Rules /\ ~isCycle(makefile, r)
  <2> DEFINE S == {r \in Rules : ~isCycle(makefile, r)}
  <2>1. \A i \in DOMAIN Goals : isCycle(makefile, Goals[i]) \/ Goals[i] \in S
    BY <1>1
  <2>2. ASSUME NEW q \in S PROVE ToSet(Deps(q)) \subseteq S
    <3>1. \A j \in DOMAIN makefile.deps[q] : ~isCycle(makefile, makefile.deps[q][j])
      BY <1>1, CycleFound
    <3> QED
      BY <1>1, <3>1 DEF ToSet, Deps
  <2>3. S \in SUBSET Rules
    OBVIOUS
  <2>4. \A r \in Needed : r \in S
    <3> HIDE DEF S
    <3> QED
      BY <2>1, <2>2, <2>3 DEF Needed
  <2> QED
    BY <2>4
<1>3. ASSUME NEW r \in Needed, NEW i \in DOMAIN Deps(r) PROVE Deps(r)[i] \in Needed
  <2> SUFFICES ASSUME NEW S \in SUBSET Rules,
                      \A j \in DOMAIN Goals : isCycle(makefile, Goals[j]) \/ Goals[j] \in S,
                      \A q \in S : ToSet(Deps(q)) \subseteq S
               PROVE  Deps(r)[i] \in S
    <3>1. Deps(r)[i] \in Rules
      BY <1>1, <1>2
    <3> QED
      BY <3>1 DEF Needed
  <2>1. r \in S
    BY DEF Needed
  <2> QED
    BY <2>1 DEF ToSet
<1>4. ASSUME NEW i \in DOMAIN Goals
      PROVE  isCycle(makefile, Goals[i]) \/ Goals[i] \in Needed
  BY <1>1 DEF Needed
<1> QED
  BY <1>1, <1>2, <1>3, <1>4

LEMMA NeededSame ==
    ASSUME UNCHANGED makefile
    PROVE  /\ Needed' = Needed /\ Goals' = Goals
           /\ \A r : Deps(r)' = Deps(r) /\ (isCycle(makefile, r)' <=> isCycle(makefile, r))
<1>1. Goals' = Goals /\ \A r : Deps(r)' = Deps(r)
  BY DEF Goals, Deps
<1>2. \A r : isCycle(makefile, r)' <=> isCycle(makefile, r)
  OBVIOUS
<1>3. Needed' = Needed
  BY <1>1, <1>2 DEF Needed
<1> QED
  BY <1>1, <1>2, <1>3

LEMMA WorkerExists == IInv => team \subseteq Workers
BY ParMakeAssumption DEF IInv, TypeOK

(* A worker moves on without having settled its rule.                      *)
LEMMA MoveIInv ==
    ASSUME IInv, UNCHANGED <<makefile, team, mainVars, queue, state, target, ran>>,
           TypeOK',
           \A v \in Workers :
             /\ pc'[v] \in Waiting \cup {"look"} <=> pc[v] \in Waiting \cup {"look"}
             /\ pc'[v] \in {"announce", "pull"} <=> pc[v] \in {"announce", "pull"}
             /\ pc'[v] \in {"absent", "poisoned", "exited", "run", "finish"}
                  \/ pc[v] \in {"absent", "poisoned", "exited", "run", "finish"}
                     => pc'[v] = pc[v],
           \A v \in Workers : pc'[v] \in Waiting =>
             \A j \in DOMAIN Deps(target[v]) : j < dep'[v] => state[Deps(target[v])[j]] = "done"
    PROVE  IInv'
<1> USE DEF IInv, mainVars
<1>1. /\ Needed' = Needed /\ Goals' = Goals
      /\ \A r : Deps(r)' = Deps(r) /\ (isCycle(makefile, r)' <=> isCycle(makefile, r))
  BY NeededSame
<1>2. \A v \in Workers, r \in Rules : At(v, r)' <=> At(v, r)
  BY DEF At
<1>3. StackOK' /\ GoalsSeen'
  BY <1>1 DEF StackOK, GoalsSeen
<1>4. Phases' /\ QueueOK'
  <2>1. \A v \in Workers : /\ pc'[v] = "absent" <=> pc[v] = "absent"
                           /\ pc'[v] = "exited" <=> pc[v] = "exited"
    OBVIOUS
  <2>2. main = "joined" => /\ \A v \in Workers : pc'[v] \in {"absent", "exited"}
                           /\ Needed = {} \/ \A v \in team : pc'[v] = "exited"
    BY <2>1, WorkerExists DEF Phases
  <2>3. Phases'
    BY <1>1, <2>1, <2>2 DEF Phases, CyclicGoal
  <2> QED
    BY <2>3 DEF QueueOK
<1>5. PoisonOK'
  BY <1>1 DEF PoisonOK
<1>6. TargetsOK' /\ NotLost'
  BY <1>2 DEF TargetsOK, NotLost
<1>7. DepsDone'
  BY <1>1 DEF DepsDone, DependenciesFirst
<1>8. RunOnce' /\ Reasons'
  BY <1>1 DEF RunOnce, Reasons, CyclicGoal
<1> QED
  BY <1>3, <1>4, <1>5, <1>6, <1>7, <1>8

(* A worker goes on with its rule r, or settles it.                        *)
Progress(w, r, stage, result, n) ==
    /\ UNCHANGED <<makefile, team, mainVars, queue, target, dep>>
    /\ At(w, r)
    /\ stage \in {"run", "finish", "announce"} /\ pc' = [pc EXCEPT ![w] = stage]
    /\ result \in {"running", "done", "failed"} /\ state' = [state EXCEPT ![r] = result]
    /\ n \in 0..1 /\ n >= ran[r] /\ ran' = [ran EXCEPT ![r] = n]
    /\ result = "running" <=> stage # "announce"
    /\ stage = "run" => n = 0
    /\ result # "failed" \/ n = 1 => \A d \in ToSet(Deps(r)) : state[d] = "done"
    /\ result = "failed" => n = 1 \/ \E d \in ToSet(Deps(r)) : state[d] = "failed"

LEMMA ProgressIInv ==
    ASSUME IInv, NEW w \in Workers, NEW r \in Rules, NEW stage, NEW result, NEW n,
           Progress(w, r, stage, result, n)
    PROVE  IInv'
<1> USE DEF IInv, mainVars, Progress
<1>1. /\ Needed' = Needed /\ Goals' = Goals
      /\ \A q : Deps(q)' = Deps(q) /\ (isCycle(makefile, q)' <=> isCycle(makefile, q))
  BY NeededSame
<1>2. /\ \A q \in Rules : state'[q] = IF q = r THEN result ELSE state[q]
      /\ \A q \in Rules : ran'[q] = IF q = r THEN n ELSE ran[q]
      /\ \A v \in Workers : pc'[v] = IF v = w THEN stage ELSE pc[v]
  BY DEF TypeOK
<1>3. state[r] \in {"queued", "running"} /\ target[w] = r
  BY DEF At, TargetsOK
<1>4. \A v \in Workers, q \in Rules : At(v, q)' <=> At(v, q) /\ (v = w => stage # "announce")
  BY <1>2 DEF At, Waiting
<1>5. \A v \in Workers : v # w => ~At(v, r)
  BY DEF TargetsOK
<1>6. /\ Goals \in Seq(Rules) /\ \A q \in Rules : Deps(q) \in Seq(Rules)
      /\ \A q \in Needed : q \in Rules
  BY NeededOK
<1>7. \A q \in Rules : /\ state'[q] # "new" <=> state[q] # "new"
                       /\ state[q] = "done" => state'[q] = "done"
                       /\ state[q] = "failed" => state'[q] = "failed"
  BY <1>2, <1>3
<1>8. TypeOK'
  BY DEF TypeOK, Goals
<1>9. StackOK' /\ GoalsSeen'
  <2>1. \A k \in DOMAIN stack : stack[k].rule \in Rules /\ stack[k].i \in Nat
    <3>1. \A k \in DOMAIN stack : stack[k] \in Frames
      BY DEF TypeOK
    <3> QED
      BY <3>1 DEF Frames
  <2>2. \A k \in DOMAIN stack : \A j \in 1..stack[k].i - 1 : Deps(stack[k].rule)[j] \in Rules
    BY <1>6, <2>1 DEF StackOK
  <2>3. StackOK'
    BY <1>1, <1>7, <2>1, <2>2 DEF StackOK
  <2>4. \A j \in 1..goal - 1 : Goals[j] \in Rules
    BY <1>6 DEF TypeOK
  <2> QED
    BY <1>1, <1>7, <2>3, <2>4 DEF GoalsSeen
<1>10. Phases'
  <2>1. main # "collecting"
    BY DEF Phases, At, Waiting
  <2>2. \A v \in Workers : pc[v] # "absent" => v \in team
    BY DEF Phases
  <2>3. pc[w] \notin {"absent", "exited"}
    BY DEF At, Waiting
  <2> QED
    BY <1>1, <1>2, <1>6, <1>7, <2>1, <2>2, <2>3 DEF Phases
<1>11. QueueOK'
  <2>1. \A i \in DOMAIN queue : queue[i] # r /\ queue[i] \in Rules \cup {NULL}
    BY DEF TargetsOK, TypeOK
  <2> QED
    BY <1>2, <2>1 DEF QueueOK
<1>12. PoisonOK'
  <2>1. pc[w] \notin {"poisoned", "exited"}
    BY DEF At, Waiting
  <2> QED
    BY <1>1, <1>2, <2>1 DEF PoisonOK
<1>13. TargetsOK'
  <2>1. ASSUME NEW v \in Workers, pc'[v] \in Waiting \cup {"look"}
        PROVE  target[v] \in Rules /\ state'[target[v]] = "queued"
    BY <1>2, <1>5, <2>1 DEF TargetsOK, At, Waiting
  <2>2. ASSUME NEW v \in Workers, pc'[v] \in {"run", "finish"}
        PROVE  target[v] \in Rules /\ state'[target[v]] = "running"
    BY <1>2, <1>3, <1>5, <2>2 DEF TargetsOK, At
  <2> QED
    BY <1>4, <2>1, <2>2 DEF TargetsOK
<1>14. NotLost'
  <2> SUFFICES ASSUME NEW q \in Rules, state'[q] \in {"queued", "running"}
               PROVE  \/ state'[q] = "queued" /\ \E i \in DOMAIN queue : queue[i] = q
                      \/ \E v \in Workers : At(v, q)'
    BY DEF NotLost
  <2>1. CASE q = r
    BY <1>2, <1>4, <2>1
  <2>2. CASE q # r
    <3>1. ~At(w, q)
      BY <2>2 DEF At
    <3> QED
      BY <1>2, <1>4, <2>2, <3>1 DEF NotLost
  <2> QED
    BY <2>1, <2>2
<1>15. DepsDone'
  <2>1. \A q \in Rules : \A d \in ToSet(Deps(q)) : d \in Rules
    BY <1>6 DEF ToSet
  <2>2. ASSUME NEW q \in Rules, state'[q] = "queued"
        PROVE  \A d \in ToSet(Deps(q)) : state'[d] # "new"
    BY <1>2, <1>7, <2>1, <2>2 DEF DepsDone
  <2>3. ASSUME NEW v \in Workers, pc'[v] \in Waiting, NEW j \in DOMAIN Deps(target[v]), j < dep[v]
        PROVE  state'[Deps(target[v])[j]] = "done"
    <3>1. pc[v] \in Waiting /\ target[v] \in Rules
      BY <1>2, <2>3 DEF TargetsOK, Waiting
    <3>2. Deps(target[v])[j] \in Rules
      BY <1>6, <2>3, <3>1
    <3> QED
      BY <1>7, <2>3, <3>1, <3>2 DEF DepsDone
  <2>4. DependenciesFirst'
    <3> SUFFICES ASSUME NEW q \in Rules, state'[q] \in {"running", "done"} \/ ran'[q] > 0,
                        NEW d \in ToSet(Deps(q))
                 PROVE  state'[d] = "done"
      BY <1>1 DEF DependenciesFirst
    <3>1. CASE q = r
      BY <1>2, <1>7, <2>1, <3>1
    <3>2. CASE q # r
      BY <1>2, <1>7, <2>1, <3>2 DEF DepsDone, DependenciesFirst
    <3> QED
      BY <3>1, <3>2
  <2> QED
    BY <1>1, <2>2, <2>3, <2>4 DEF DepsDone
<1>16. RunOnce'
  <2>1. \A q \in Rules : ran'[q] <= 1 /\ (ran'[q] = 1 => state'[q] \in {"running", "done", "failed"})
    BY <1>2 DEF RunOnce
  <2>2. ASSUME NEW v \in Workers, pc'[v] = "run" PROVE ran'[target[v]] = 0
    <3>1. CASE v = w
      BY <1>2, <1>3, <2>2, <3>1
    <3>2. CASE v # w
      BY <1>2, <1>5, <2>2, <3>2 DEF RunOnce, TargetsOK, At
    <3> QED
      BY <3>1, <3>2
  <2> QED
    BY <2>1, <2>2 DEF RunOnce
<1>17. Reasons'
  <2> SUFFICES ASSUME NEW q \in Rules
               PROVE  /\ state'[q] \in {"queued", "running", "done"} \/ ran'[q] = 1 => q \in Needed
                      /\ state'[q] = "failed" =>
                            \/ ran'[q] = 1
                            \/ \E d \in ToSet(Deps(q)) : state'[d] = "failed"
                            \/ CyclicGoal(q)
    BY <1>1 DEF Reasons, CyclicGoal
  <2>1. \A d \in ToSet(Deps(q)) : d \in Rules
    BY <1>6 DEF ToSet
  <2>2. CASE q = r
    BY <1>2, <1>3, <1>7, <2>1, <2>2 DEF Reasons
  <2>3. CASE q # r
    BY <1>2, <1>7, <2>1, <2>3 DEF Reasons
  <2> QED
    BY <2>2, <2>3
<1> QED
  BY <1>8, <1>9, <1>10, <1>11, <1>12, <1>13, <1>14, <1>15, <1>16, <1>17

(* The steps between two rules, and the looks at the dependencies.         *)
LEMMA MovesIInv ==
    ASSUME IInv, NEW w \in team,
           \/ Look(w) \/ Sleep(w) \/ SpuriousWakeup(w) \/ Announce(w)
           \/ CheckDep(w) /\ UNCHANGED state
    PROVE  IInv'
<1> USE DEF IInv, workerVars
<1>1. w \in Workers
  BY WorkerExists
<1>2. /\ Goals \in Seq(Rules) /\ \A q \in Rules : Deps(q) \in Seq(Rules)
  BY NeededOK
<1>3. CASE Look(w)
  <2>1. pc[w] = "look" /\ target[w] \in Rules /\ state[target[w]] = "queued"
    BY <1>1, <1>3 DEF Look, TargetsOK
  <2>2. /\ UNCHANGED <<makefile, team, mainVars, queue, state, target, ran>>
        /\ dep' = [dep EXCEPT ![w] = 1] /\ pc' = [pc EXCEPT ![w] = "deps"]
    BY <1>3, <2>1 DEF Look, Goto
  <2>3. TypeOK'
    BY <1>1, <2>2 DEF TypeOK, Goals, mainVars, Waiting
  <2>4. \A v \in Workers : pc'[v] \in Waiting =>
           \A j \in DOMAIN Deps(target[v]) : j < dep'[v] => state[Deps(target[v])[j]] = "done"
    <3> SUFFICES ASSUME NEW v \in Workers, pc'[v] \in Waiting,
                        NEW j \in DOMAIN Deps(target[v]), j < dep'[v]
                 PROVE  state[Deps(target[v])[j]] = "done"
      OBVIOUS
    <3>1. CASE v = w
      BY <1>2, <2>1, <2>2, <3>1 DEF TypeOK
    <3>2. CASE v # w
      BY <2>2, <3>2 DEF TypeOK, DepsDone
    <3> QED
      BY <3>1, <3>2
  <2> QED
    <3>1. \A v \in Workers : pc'[v] = IF v = w THEN "deps" ELSE pc[v]
      BY <1>1, <2>2 DEF TypeOK
    <3> QED
      BY <2>1, <2>2, <2>3, <2>4, <3>1, MoveIInv DEF Waiting
<1>4. CASE Sleep(w) \/ SpuriousWakeup(w)
  <2>1. PICK stage \in Waiting : pc' = [pc EXCEPT ![w] = stage]
    BY <1>4 DEF Sleep, SpuriousWakeup, Goto, Waiting
  <2>2. /\ UNCHANGED <<makefile, team, mainVars, queue, state, target, ran, dep>>
        /\ pc[w] \in Waiting
    BY <1>4 DEF Sleep, SpuriousWakeup, Waiting
  <2>3. TypeOK'
    BY <1>1, <2>1, <2>2 DEF TypeOK, Goals, mainVars
  <2>4. \A v \in Workers : pc'[v] \in Waiting =>
           \A j \in DOMAIN Deps(target[v]) : j < dep'[v] => state[Deps(target[v])[j]] = "done"
    BY <1>1, <2>1, <2>2 DEF TypeOK, DepsDone
  <2> QED
    <3>1. \A v \in Workers : pc'[v] = IF v = w THEN stage ELSE pc[v]
      BY <1>1, <2>1 DEF TypeOK
    <3> QED
      BY <2>1, <2>2, <2>3, <2>4, <3>1, MoveIInv DEF Waiting
<1>5. CASE Announce(w)
  <2>1. /\ pc[w] = "announce" /\ UNCHANGED <<makefile, team, mainVars, queue, state, target, ran, dep>>
        /\ \A v \in Workers : pc'[v] = IF v = w THEN "pull"
                                       ELSE IF pc[v] = "asleep" THEN "deps" ELSE pc[v]
    BY <1>5 DEF Announce
  <2>2. TypeOK'
    BY <1>5, <2>1 DEF Announce, TypeOK, Goals, mainVars, Waiting
  <2>3. \A v \in Workers : pc'[v] \in Waiting => pc[v] \in Waiting
    BY <2>1 DEF Waiting
  <2>4. \A v \in Workers : pc'[v] \in Waiting =>
           \A j \in DOMAIN Deps(target[v]) : j < dep'[v] => state[Deps(target[v])[j]] = "done"
    BY <2>1, <2>3 DEF DepsDone
  <2> QED
    BY <2>1, <2>2, <2>4, MoveIInv DEF Waiting
<1>6. CASE CheckDep(w) /\ UNCHANGED state
  <2> DEFINE r == target[w]
             d == Deps(r)[dep[w]]
  <2>1. /\ pc[w] = "deps" /\ dep[w] \in 1..Len(Deps(r)) /\ r \in Rules /\ state[r] = "queued"
        /\ UNCHANGED <<makefile, team, mainVars, queue, state, target, ran>>
    BY <1>1, <1>6 DEF CheckDep, TargetsOK, TypeOK, Waiting
  <2>2. d \in Rules /\ d \in ToSet(Deps(r))
    BY <1>2, <2>1 DEF ToSet
  <2>3. state[d] # "new"
    BY <2>1, <2>2 DEF DepsDone
  <2>4. CASE UNCHANGED dep /\ pc' = [pc EXCEPT ![w] = "wait"]
    <3>1. TypeOK'
      <4>1. pc' \in [Workers -> Waiting \cup {"absent", "pull", "poisoned", "exited", "look",
                                            "run", "finish", "announce"}]
        BY <2>4 DEF TypeOK, Waiting
      <4>2. UNCHANGED <<main, goal, stack, Goals>>
        BY <2>1 DEF mainVars, Goals
      <4>3. TypeOK /\ UNCHANGED <<makefile, team, queue, state, target, ran, dep>>
        BY <2>1, <2>4
      <4> QED
        BY ONLY <4>1, <4>2, <4>3 DEF TypeOK
    <3>2. \A v \in Workers : pc'[v] \in Waiting =>
             \A j \in DOMAIN Deps(target[v]) : j < dep'[v] => state[Deps(target[v])[j]] = "done"
      BY <1>1, <2>1, <2>4 DEF TypeOK, DepsDone, Waiting
    <3> QED
      <4>1. \A v \in Workers : pc'[v] = IF v = w THEN "wait" ELSE pc[v]
        BY <1>1, <2>4 DEF TypeOK
      <4> QED
        BY <2>1, <3>1, <3>2, <4>1, MoveIInv DEF Waiting
  <2>5. CASE state[d] = "done" /\ dep' = [dep EXCEPT ![w] = @ + 1] /\ UNCHANGED pc
    <3>1. TypeOK'
      <4>1. dep' \in [Workers -> Nat \ {0}]
        <5>1. dep \in [Workers -> Nat \ {0}] /\ dep[w] + 1 \in Nat \ {0}
          BY <1>1 DEF TypeOK
        <5> QED
          BY ONLY <5>1, <2>5
      <4>2. UNCHANGED <<main, goal, stack, Goals>>
        BY <2>1 DEF mainVars, Goals
      <4>3. TypeOK /\ UNCHANGED <<makefile, team, queue, state, target, ran, pc>>
        BY <2>1, <2>5
      <4> QED
        BY ONLY <4>1, <4>2, <4>3 DEF TypeOK
    <3>2. \A v \in Workers : pc'[v] \in Waiting =>
             \A j \in DOMAIN Deps(target[v]) : j < dep'[v] => state[Deps(target[v])[j]] = "done"
      <4> SUFFICES ASSUME NEW v \in Workers, pc[v] \in Waiting,
                          NEW j \in DOMAIN Deps(target[v]), j < dep'[v]
                   PROVE  state[Deps(target[v])[j]] = "done"
        BY <2>5
      <4>1. CASE j < dep[v]
        BY <4>1 DEF DepsDone
      <4>2. CASE ~(j < dep[v])
        <5>1. target[v] \in Rules
          BY DEF TargetsOK
        <5>2. j \in Nat /\ dep[v] \in Nat
          BY <1>2, <5>1 DEF TypeOK
        <5>3. v = w /\ j = dep[w]
          BY <2>5, <4>2, <5>2 DEF TypeOK
        <5> QED
          BY <2>5, <5>3
      <4> QED
        BY <4>1, <4>2
    <3> QED
      BY <2>1, <2>5, <3>1, <3>2, MoveIInv DEF Waiting
  <2>6. \/ UNCHANGED dep /\ pc' = [pc EXCEPT ![w] = "wait"]
        \/ state[d] = "done" /\ dep' = [dep EXCEPT ![w] = @ + 1] /\ UNCHANGED pc
    <3>1. ~(state[d] = "failed" /\ Settle(w, "failed"))
      BY <1>6, <2>1 DEF Settle, TypeOK
    <3> QED
      BY <1>6, <2>3, <3>1 DEF CheckDep, Goto
  <2> QED
    BY <2>4, <2>5, <2>6
<1> QED
  BY <1>3, <1>4, <1>5, <1>6

(* The steps that change the state of a worker's rule.                     *)
LEMMA SettlesIInv ==
    ASSUME IInv, NEW w \in team,
           \/ CheckDep(w) /\ ~UNCHANGED state
           \/ Start(w) \/ Run(w) \/ Finish(w)
    PROVE  IInv'
<1> USE DEF IInv, workerVars
<1>1. w \in Workers
  BY WorkerExists
<1>2. \A q \in Rules : Deps(q) \in Seq(Rules)
  BY NeededOK
<1>3. UNCHANGED <<makefile, team, mainVars, queue, target>>
  BY DEF CheckDep, Start, Run, Finish
<1>4. PICK r \in Rules : r = target[w] /\ At(w, r)
  BY <1>1 DEF CheckDep, Start, Run, Finish, TargetsOK, At, Waiting
<1>5. /\ ran[r] \in 0..1
      /\ state[r] = "queued" => ran[r] = 0
  <2>1. ran[r] \in Nat
    BY DEF TypeOK
  <2>2. ran[r] <= 1 /\ (ran[r] = 1 => state[r] \in {"running", "done", "failed"})
    BY DEF RunOnce
  <2> QED
    BY <2>1, <2>2
<1>6. ran = [ran EXCEPT ![r] = ran[r]] /\ state = [state EXCEPT ![r] = state[r]]
  BY DEF TypeOK
<1>7. CASE CheckDep(w) /\ ~UNCHANGED state
  <2> DEFINE d == Deps(r)[dep[w]]
  <2>1. /\ pc[w] = "deps" /\ dep[w] \in DOMAIN Deps(r) /\ UNCHANGED <<ran, dep>>
        /\ state[d] = "failed" /\ state' = [state EXCEPT ![r] = "failed"]
        /\ pc' = [pc EXCEPT ![w] = "announce"]
    BY <1>1, <1>2, <1>4, <1>7 DEF CheckDep, Settle, Goto, TypeOK
  <2>2. \E q \in ToSet(Deps(r)) : state[q] = "failed"
    BY <2>1 DEF ToSet
  <2>3. state[r] = "queued"
    BY <1>1, <1>4, <2>1 DEF TargetsOK, Waiting
  <2>4. PICK n \in 0..1 : n = 0 /\ n >= ran[r] /\ ran' = [ran EXCEPT ![r] = n]
    BY <1>5, <1>6, <2>1, <2>3
  <2> HIDE DEF d
  <2>5. Progress(w, r, "announce", "failed", n)
    <3>1. n \in 0..1 /\ n >= ran[r] /\ ran' = [ran EXCEPT ![r] = n]
      BY <2>4
    <3>2. n # 1
      BY <2>4
    <3>3. UNCHANGED dep /\ state' = [state EXCEPT ![r] = "failed"] /\ pc' = [pc EXCEPT ![w] = "announce"]
      BY <2>1
    <3> QED
      BY <1>3, <1>4, <2>2, <3>1, <3>2, <3>3 DEF Progress
  <2> QED
    BY <1>1, <2>5, ProgressIInv
<1>8. CASE Start(w)
  <2>1. PICK stage \in {"run", "finish"} : pc' = [pc EXCEPT ![w] = stage]
    BY <1>8 DEF Start, Goto, need_to_run_command
  <2>2. /\ pc[w] = "deps" /\ dep[w] > Len(Deps(r)) /\ UNCHANGED <<ran, dep>>
        /\ state' = [state EXCEPT ![r] = "running"]
    BY <1>4, <1>8 DEF Start, Settle
  <2>3. state[r] = "queued"
    BY <1>1, <1>4, <2>2 DEF TargetsOK, Waiting
  <2>4. PICK n \in 0..1 : n = 0 /\ n >= ran[r] /\ ran' = [ran EXCEPT ![r] = n]
    BY <1>5, <1>6, <2>2, <2>3
  <2>5. \A d \in ToSet(Deps(r)) : state[d] = "done"
    <3>1. \A j \in DOMAIN Deps(r) : j < dep[w]
      BY <1>1, <1>2, <1>4, <2>2 DEF TypeOK
    <3>2. pc[w] \in Waiting
      BY <2>2 DEF Waiting
    <3> QED
      BY <1>1, <1>4, <3>1, <3>2 DEF DepsDone, ToSet
  <2>6. Progress(w, r, stage, "running", n)
    BY <1>3, <1>4, <2>1, <2>2, <2>4, <2>5 DEF Progress
  <2> QED
    BY <1>1, <2>6, ProgressIInv
<1>9. CASE Run(w)
  <2>1. pc[w] = "run" /\ ran' = [ran EXCEPT ![r] = @ + 1] /\ UNCHANGED dep
    BY <1>4, <1>9 DEF Run
  <2>2. state[r] = "running" /\ ran[r] = 0
    BY <1>1, <1>4, <2>1 DEF TargetsOK, RunOnce
  <2>3. PICK n \in 0..1 : n = 1 /\ n >= ran[r] /\ ran' = [ran EXCEPT ![r] = n]
    BY <2>1, <2>2
  <2>4. \A d \in ToSet(Deps(r)) : state[d] = "done"
    BY <1>4, <2>2 DEF DepsDone, DependenciesFirst
  <2>5. CASE pc' = [pc EXCEPT ![w] = "finish"] /\ UNCHANGED state
    <3>1. state' = [state EXCEPT ![r] = "running"]
      BY <1>6, <2>2, <2>5
    <3>2. Progress(w, r, "finish", "running", n)
      BY <1>3, <1>4, <1>5, <2>1, <2>3, <2>4, <2>5, <3>1 DEF Progress
    <3> QED
      BY <1>1, <3>2, ProgressIInv
  <2>6. CASE pc' = [pc EXCEPT ![w] = "announce"] /\ state' = [state EXCEPT ![r] = "failed"]
    <3>1. Progress(w, r, "announce", "failed", n)
      BY <1>3, <1>4, <1>5, <2>1, <2>3, <2>4, <2>6 DEF Progress
    <3> QED
      BY <1>1, <3>1, ProgressIInv
  <2> QED
    BY <1>4, <1>9, <2>5, <2>6 DEF Run, Goto, Settle
<1>10. CASE Finish(w)
  <2>1. /\ pc[w] = "finish" /\ UNCHANGED <<ran, dep>>
        /\ pc' = [pc EXCEPT ![w] = "announce"] /\ state' = [state EXCEPT ![r] = "done"]
    BY <1>4, <1>10 DEF Finish, Goto, Settle
  <2>2. state[r] = "running"
    BY <1>1, <1>4, <2>1 DEF TargetsOK
  <2>3. \A d \in ToSet(Deps(r)) : state[d] = "done"
    BY <1>4, <2>2 DEF DepsDone, DependenciesFirst
  <2>4. ran' = [ran EXCEPT ![r] = ran[r]] /\ ran[r] >= ran[r]
    BY <1>5, <1>6, <2>1
  <2>5. Progress(w, r, "announce", "done", ran[r])
    BY <1>3, <1>4, <1>5, <2>1, <2>3, <2>4 DEF Progress
  <2> QED
    BY <1>1, <2>5, ProgressIInv
<1> QED
  BY <1>7, <1>8, <1>9, <1>10

-----------------------------------------------------------------------------
(* A worker that is not at a rule takes part in the queue only.            *)
LEMMA QueueStep ==
    ASSUME IInv, UNCHANGED <<makefile, team, mainVars, state, dep, ran>>,
           NEW w \in Workers, pc[w] \in {"pull", "poisoned"}, NEW stage,
           stage \in {"poisoned", "look", "exited"}, pc' = [pc EXCEPT ![w] = stage],
           NEW r \in Rules \cup {NULL}, target' = [target EXCEPT ![w] = r]
    PROVE  StackOK' /\ GoalsSeen' /\ Phases' /\ DepsDone' /\ RunOnce' /\ Reasons'
<1> USE DEF IInv, mainVars
<1>1. /\ Needed' = Needed /\ Goals' = Goals
      /\ \A q : Deps(q)' = Deps(q) /\ (isCycle(makefile, q)' <=> isCycle(makefile, q))
  BY NeededSame
<1>2. \A v \in Workers : /\ pc'[v] = IF v = w THEN stage ELSE pc[v]
                         /\ target'[v] = IF v = w THEN r ELSE target[v]
  BY DEF TypeOK
<1>3. StackOK' /\ GoalsSeen'
  BY <1>1 DEF StackOK, GoalsSeen
<1>4. Phases'
  BY <1>1, <1>2 DEF Phases, CyclicGoal
<1>5. DepsDone'
  <2>1. \A v \in Workers : pc'[v] \in Waiting => pc[v] \in Waiting /\ target'[v] = target[v]
    BY <1>2 DEF Waiting
  <2>2. DependenciesFirst'
    BY <1>1 DEF DepsDone, DependenciesFirst
  <2> QED
    BY <1>1, <2>1, <2>2 DEF DepsDone
<1>6. RunOnce'
  BY <1>2 DEF RunOnce
<1>7. Reasons'
  BY <1>1 DEF Reasons, CyclicGoal
<1> QED
  BY <1>3, <1>4, <1>5, <1>6, <1>7

LEMMA PullIInv ==
    ASSUME IInv, NEW w \in team, Pull(w)
    PROVE  IInv'
<1> USE DEF IInv
<1>1. w \in Workers
  BY WorkerExists
<1>2. PICK r \in Rules \cup {NULL} : queue # <<>> /\ r = queue[1] /\ r = Head(queue)
  BY DEF Pull, TypeOK
<1>3. /\ Tail(queue) \in Seq(Rules \cup {NULL}) /\ Len(Tail(queue)) = Len(queue) - 1
      /\ Len(queue) \in Nat \ {0} /\ DOMAIN queue = 1..Len(queue)
      /\ \A i \in DOMAIN Tail(queue) : i + 1 \in DOMAIN queue /\ Tail(queue)[i] = queue[i + 1]
  BY <1>2 DEF TypeOK
<1>4. /\ pc[w] = "pull" /\ queue' = Tail(queue) /\ target' = [target EXCEPT ![w] = r]
      /\ pc' = [pc EXCEPT ![w] = IF r = NULL THEN "poisoned" ELSE "look"]
      /\ UNCHANGED <<makefile, team, mainVars, state, dep, ran>>
  BY <1>2 DEF Pull, Goto
<1>5. PICK stage \in {"poisoned", "look"} : stage = IF r = NULL THEN "poisoned" ELSE "look"
  OBVIOUS
<1>6. pc' = [pc EXCEPT ![w] = stage]
  BY <1>4, <1>5
<1>7. StackOK' /\ GoalsSeen' /\ Phases' /\ DepsDone' /\ RunOnce' /\ Reasons'
  BY <1>1, <1>4, <1>6, QueueStep DEF Waiting
<1>8. TypeOK'
  BY <1>1, <1>3, <1>4, <1>6 DEF TypeOK, Goals, mainVars
<1>9. \A v \in Workers : /\ pc'[v] = IF v = w THEN stage ELSE pc[v]
                         /\ target'[v] = IF v = w THEN r ELSE target[v]
  BY <1>4, <1>6 DEF TypeOK
<1>10. /\ \A q \in Rules : ~At(w, q) /\ (At(w, q)' <=> q = r)
       /\ \A v \in Workers : v # w => \A q \in Rules : At(v, q)' <=> At(v, q)
  BY <1>1, <1>4, <1>5, <1>9, ParMakeAssumption DEF At, Waiting
<1>11. Needed' = Needed
  BY <1>4, NeededSame
<1>12. \A v \in Workers : pc[v] # "poisoned"
  BY <1>2, <1>4 DEF PoisonOK
<1>13. main # "collecting" /\ main' = main
  BY <1>1, <1>4 DEF Phases, mainVars
<1>14. r = NULL => Len(queue) = 1
  BY <1>2, <1>3 DEF QueueOK
<1>15. r # NULL => r \in Rules /\ state[r] = "queued"
  BY <1>2, <1>3 DEF QueueOK
<1>16. QueueOK'
  BY <1>3, <1>4, <1>13 DEF QueueOK
<1>17. PoisonOK'
  <2>1. CASE r = NULL
    <3>1. queue' = <<>>
      BY <1>3, <1>4, <1>14, <2>1
    <3> QED
      BY <1>1, <1>5, <1>9, <1>12, <2>1, <3>1 DEF PoisonOK
  <2>2. CASE r # NULL
    <3>1. \A v \in Workers : pc'[v] # "poisoned" /\ pc'[v] # "exited"
      BY <1>2, <1>3, <1>5, <1>9, <1>12, <2>2 DEF PoisonOK
    <3>2. ASSUME NEW i \in DOMAIN queue, queue[i] = NULL
          PROVE  \E j \in DOMAIN queue' : queue'[j] = NULL
      <4>1. i - 1 \in DOMAIN Tail(queue) /\ Tail(queue)[i - 1] = queue[(i - 1) + 1]
        BY <1>2, <1>3, <2>2, <3>2
      <4> QED
        BY <1>3, <1>4, <3>2, <4>1
    <3> QED
      BY <1>11, <1>12, <1>13, <3>1, <3>2 DEF PoisonOK
  <2> QED
    BY <2>1, <2>2
<1>18. UNCHANGED state
  BY <1>4
<1>19. TargetsOK'
  <2>1. ASSUME NEW v \in Workers
        PROVE  /\ pc'[v] \in Waiting \cup {"look"} =>
                    target'[v] \in Rules /\ state[target'[v]] = "queued"
               /\ pc'[v] \in {"run", "finish"} =>
                    target'[v] \in Rules /\ state[target'[v]] = "running"
    <3>1. CASE v = w
      BY <1>5, <1>9, <1>15, <3>1 DEF Waiting
    <3>2. CASE v # w
      BY <1>9, <3>2 DEF TargetsOK
    <3> QED
      BY <3>1, <3>2
  <2>2. ASSUME NEW u \in Workers, NEW v \in Workers, NEW q \in Rules, At(u, q)', At(v, q)'
        PROVE  u = v
    <3>1. r \in Rules => \A x \in Workers : ~At(x, r)
      BY <1>2, <1>3 DEF TargetsOK
    <3> QED
      BY <1>10, <2>2, <3>1 DEF TargetsOK
  <2>3. ASSUME NEW v \in Workers, NEW q \in Rules, At(v, q)'
        PROVE  \A i \in DOMAIN queue' : queue'[i] # q
    <3>1. CASE v = w
      <4>1. q = r
        BY <1>10, <2>3, <3>1
      <4> QED
        BY <1>2, <1>3, <1>4, <4>1 DEF QueueOK
    <3>2. CASE v # w
      BY <1>3, <1>4, <1>10, <2>3, <3>2 DEF TargetsOK
    <3> QED
      BY <3>1, <3>2
  <2> QED
    BY <1>18, <2>1, <2>2, <2>3 DEF TargetsOK
<1>20. NotLost'
  <2>1. ASSUME NEW q \in Rules, NEW i \in DOMAIN queue, queue[i] = q
        PROVE  (\E j \in DOMAIN queue' : queue'[j] = q) \/ \E v \in Workers : At(v, q)'
    <3>1. CASE i = 1
      BY <1>1, <1>2, <1>10, <2>1, <3>1
    <3>2. CASE i # 1
      <4>1. i - 1 \in DOMAIN Tail(queue) /\ Tail(queue)[i - 1] = queue[(i - 1) + 1]
        BY <1>3, <3>2
      <4> QED
        BY <1>3, <1>4, <2>1, <4>1
    <3> QED
      BY <3>1, <3>2
  <2>2. ASSUME NEW q \in Rules, NEW v \in Workers, At(v, q) PROVE At(v, q)'
    BY <1>10, <2>2
  <2> QED
    BY <1>18, <2>1, <2>2 DEF NotLost
<1> QED
  BY <1>7, <1>8, <1>16, <1>17, <1>19, <1>20

LEMMA PutPoisonBackIInv ==
    ASSUME IInv, NEW w \in team, PutPoisonBack(w)
    PROVE  IInv'
<1> USE DEF IInv
<1>1. w \in Workers
  BY WorkerExists
<1>2. /\ pc[w] = "poisoned" /\ pc' = [pc EXCEPT ![w] = "exited"] /\ queue' = Append(queue, NULL)
      /\ UNCHANGED <<makefile, team, mainVars, state, target, dep, ran>>
  BY DEF PutPoisonBack, Goto
<1>3. queue = <<>> /\ queue' = <<NULL>>
  <2>1. queue = <<>>
    BY <1>1, <1>2 DEF PoisonOK
  <2> QED
    BY <1>2, <2>1
<1>4. PICK r \in Rules \cup {NULL} : target' = [target EXCEPT ![w] = r]
  BY <1>1, <1>2 DEF TypeOK
<1>5. StackOK' /\ GoalsSeen' /\ Phases' /\ DepsDone' /\ RunOnce' /\ Reasons'
  BY <1>1, <1>2, <1>4, QueueStep DEF Waiting
<1>6. TypeOK'
  BY <1>1, <1>2, <1>3 DEF TypeOK, Goals, mainVars
<1>7. \A v \in Workers : pc'[v] = IF v = w THEN "exited" ELSE pc[v]
  BY <1>2 DEF TypeOK
<1>8. \A v \in Workers : \A q \in Rules : At(v, q)' <=> At(v, q)
  BY <1>2, <1>7 DEF At, Waiting
<1>9. main # "collecting" /\ main' = main
  BY <1>1, <1>2 DEF Phases, mainVars
<1>10. QueueOK'
  BY <1>3, <1>9 DEF QueueOK
<1>11. PoisonOK'
  BY <1>1, <1>2, <1>3, <1>7 DEF PoisonOK
<1>12. TargetsOK'
  BY <1>2, <1>3, <1>7, <1>8, ParMakeAssumption DEF TargetsOK, Waiting
<1>13. NotLost'
  BY <1>2, <1>3, <1>8 DEF NotLost
<1> QED
  BY <1>5, <1>6, <1>10, <1>11, <1>12, <1>13

-----------------------------------------------------------------------------
(* What a step of the collection does to the rules; no worker exists.      *)
LEMMA CollectStep ==
    ASSUME IInv, Collecting,
           state' \in [Rules -> {"new", "queued", "running", "done", "failed"}],
           \A q \in Rules : state'[q] # state[q] =>
             \/ /\ state[q] = "new" /\ state'[q] = "queued" /\ q \in Needed
                /\ \A d \in ToSet(Deps(q)) : state[d] # "new"
             \/ state'[q] = "failed" /\ CyclicGoal(q),
           \A q \in Rules : state'[q] = "queued" => \E i \in DOMAIN queue' : queue'[i] = q
    PROVE  Phases' /\ PoisonOK' /\ TargetsOK' /\ NotLost' /\ DepsDone' /\ RunOnce' /\ Reasons'
<1> USE DEF IInv
<1>1. /\ Needed' = Needed /\ Goals' = Goals
      /\ \A q : Deps(q)' = Deps(q) /\ (isCycle(makefile, q)' <=> isCycle(makefile, q))
  BY NeededSame DEF Collecting
<1>2. /\ main = "collecting" /\ \A w \in Workers : pc[w] = "absent"
      /\ \A q \in Rules :
           /\ ran[q] = 0
           /\ state[q] \notin {"new", "queued"} => state[q] = "failed" /\ CyclicGoal(q)
  BY DEF Collecting, Phases
<1>3. UNCHANGED <<team, main, pc, target, dep, ran>>
  BY DEF Collecting, workerVars
<1>4. \A q \in Rules : CyclicGoal(q)' <=> CyclicGoal(q)
  BY <1>1 DEF CyclicGoal
<1>5. \A q \in Rules : \A d \in ToSet(Deps(q)) : d \in Rules
  BY NeededOK DEF ToSet
<1>6. ASSUME NEW q \in Rules, state'[q] \notin {"new", "queued"}
      PROVE  state'[q] = "failed" /\ CyclicGoal(q)
  <2>1. CASE state'[q] = state[q]
    BY <1>2, <1>6, <2>1
  <2>2. CASE state'[q] # state[q]
    BY <1>6, <2>2
  <2> QED
    BY <2>1, <2>2
<1>7. \A q \in Rules : state'[q] = "new" => state[q] = "new"
  OBVIOUS
<1>8. \A w \in Workers, q \in Rules : ~At(w, q) /\ ~At(w, q)'
  BY <1>2, <1>3 DEF At, Waiting
<1>9. Phases'
  BY <1>2, <1>3, <1>4, <1>6 DEF Phases
<1>10. PoisonOK' /\ TargetsOK'
  BY <1>2, <1>3, <1>8 DEF PoisonOK, TargetsOK, Waiting
<1>11. NotLost'
  BY <1>6 DEF NotLost
<1>12. DepsDone'
  <2>1. DependenciesFirst'
    <3>1. \A q \in Rules : state'[q] \notin {"running", "done"} /\ ran'[q] = 0
      BY <1>2, <1>3, <1>6
    <3> QED
      BY <3>1 DEF DependenciesFirst
  <2>2. ASSUME NEW q \in Rules, state'[q] = "queued"
        PROVE  \A d \in ToSet(Deps(q)) : state'[d] # "new"
    <3>1. \A d \in ToSet(Deps(q)) : state[d] # "new"
      BY <2>2 DEF DepsDone
    <3> QED
      BY <1>5, <1>7, <3>1
  <2>3. \A w \in Workers : pc'[w] \notin Waiting
    BY <1>2, <1>3 DEF Waiting
  <2> QED
    BY <1>1, <2>1, <2>2, <2>3 DEF DepsDone
<1>13. RunOnce'
  BY <1>2, <1>3 DEF RunOnce
<1>14. Reasons'
  <2>1. ASSUME NEW q \in Rules, state'[q] = "queued" PROVE q \in Needed
    BY <2>1 DEF Reasons
  <2> QED
    BY <1>1, <1>2, <1>3, <1>4, <1>6, <2>1 DEF Reasons
<1> QED
  BY <1>9, <1>10, <1>11, <1>12, <1>13, <1>14

LEMMA NextGoalIInv ==
    ASSUME IInv, NextGoal
    PROVE  IInv'
<1> USE DEF IInv
<1> DEFINE g == Goals[goal]
<1>1. /\ Needed' = Needed /\ Goals' = Goals
      /\ \A q : Deps(q)' = Deps(q) /\ (isCycle(makefile, q)' <=> isCycle(makefile, q))
  BY NeededSame DEF NextGoal, Collecting
<1>2. /\ Collecting /\ stack = <<>> /\ goal \in DOMAIN Goals /\ goal' = goal + 1 /\ UNCHANGED queue
      /\ g \in Rules /\ goal \in Nat
  BY NeededOK DEF NextGoal, TypeOK
<1>3. /\ main = "collecting" /\ UNCHANGED <<makefile, team, main, workerVars>>
  BY <1>2 DEF Collecting
<1>4. goal' \in 1..Len(Goals) + 1
  BY <1>2, NeededOK
<1>5. \A q \in Rules : state[q] = "queued" => \E i \in DOMAIN queue : queue[i] = q
  BY <1>3 DEF NotLost, At, Phases, Waiting
<1>6. CASE isCycle(makefile, g)
  <2>1. state' = [state EXCEPT ![g] = "failed"] /\ UNCHANGED stack
    BY <1>6 DEF NextGoal
  <2>2. \A q \in Rules : state'[q] = IF q = g THEN "failed" ELSE state[q]
    BY <2>1 DEF TypeOK
  <2>3. CyclicGoal(g)
    BY <1>2, <1>6, NeededOK DEF CyclicGoal, ToSet
  <2>4. state[g] # "queued"
    BY <1>2, <1>6, NeededOK DEF Reasons
  <2>5. TypeOK'
    BY <1>1, <1>2, <1>3, <1>4, <2>1 DEF TypeOK, workerVars
  <2>6. Phases' /\ PoisonOK' /\ TargetsOK' /\ NotLost' /\ DepsDone' /\ RunOnce' /\ Reasons'
    <3>1. \A q \in Rules : state'[q] = "queued" => \E i \in DOMAIN queue' : queue'[i] = q
      BY <1>2, <1>5, <2>2
    <3>2. \A q \in Rules : state'[q] # state[q] => state'[q] = "failed" /\ CyclicGoal(q)
      BY <2>2, <2>3
    <3>3. state' \in [Rules -> {"new", "queued", "running", "done", "failed"}]
      BY <2>5 DEF TypeOK
    <3> QED
      BY <1>2, <3>1, <3>2, <3>3, CollectStep
  <2>7. StackOK'
    BY <1>2, <2>1 DEF StackOK
  <2>8. GoalsSeen'
    <3> SUFFICES ASSUME NEW j \in 1..goal' - 1, ~isCycle(makefile, Goals[j])
                 PROVE  state'[Goals[j]] # "new"
      BY <1>1 DEF GoalsSeen
    <3>1. j # goal /\ j \in 1..goal - 1 /\ Goals[j] \in Rules
      BY <1>2, <1>4, <1>6, NeededOK
    <3> QED
      BY <1>2, <2>2, <3>1 DEF GoalsSeen
  <2>9. QueueOK'
    BY <1>2, <1>3, <2>2, <2>4 DEF QueueOK, TypeOK
  <2> QED
    BY <2>5, <2>6, <2>7, <2>8, <2>9
<1>7. CASE ~isCycle(makefile, g)
  <2>1. stack' = <<Call(g)>> /\ UNCHANGED state
    BY <1>7 DEF NextGoal
  <2>2. g \in Needed
    BY <1>2, <1>7, NeededOK
  <2>3. TypeOK'
    <3>1. Call(g) \in Frames
      BY <1>2 DEF Call, Frames
    <3> QED
      BY <1>1, <1>2, <1>3, <1>4, <2>1, <3>1 DEF TypeOK, workerVars
  <2>4. Phases' /\ PoisonOK' /\ TargetsOK' /\ NotLost' /\ DepsDone' /\ RunOnce' /\ Reasons'
    <3>1. \A q \in Rules : state'[q] = "queued" => \E i \in DOMAIN queue' : queue'[i] = q
      BY <1>2, <1>5, <2>1
    <3>2. state' \in [Rules -> {"new", "queued", "running", "done", "failed"}]
      BY <2>3 DEF TypeOK
    <3> QED
      BY <1>2, <2>1, <3>1, <3>2, CollectStep
  <2>5. Len(stack') = 1 /\ stack'[1].rule = g /\ stack'[1].i = 1 /\ stack' # <<>>
    BY <2>1 DEF Call
  <2>6. StackOK'
    <3>1. DOMAIN stack' = {1}
      BY <2>1
    <3>2. Len(Deps(g)) \in Nat
      BY <1>2, NeededOK
    <3> QED
      BY <1>1, <2>2, <2>5, <3>1, <3>2 DEF StackOK
  <2>7. GoalsSeen'
    <3> SUFFICES ASSUME NEW j \in 1..goal' - 1, ~isCycle(makefile, Goals[j]),
                        ~(stack' # <<>> /\ stack'[1].rule = Goals[j])
                 PROVE  state'[Goals[j]] # "new"
      BY <1>1 DEF GoalsSeen
    <3>1. j # goal /\ j \in 1..goal - 1
      BY <1>2, <2>5
    <3> QED
      BY <1>2, <2>1, <3>1 DEF GoalsSeen
  <2>8. QueueOK'
    BY <1>2, <1>3, <2>1 DEF QueueOK
  <2> QED
    BY <2>3, <2>4, <2>6, <2>7, <2>8
<1> QED
  BY <1>6, <1>7

LEMMA StackFacts ==
    ASSUME TypeOK
    PROVE  /\ Len(stack) \in Nat /\ DOMAIN stack = 1..Len(stack)
           /\ \A k \in DOMAIN stack : /\ stack[k].rule \in Rules /\ stack[k].i \in Nat \ {0}
                                      /\ stack[k] = [rule |-> stack[k].rule, i |-> stack[k].i]
           /\ stack # <<>> => /\ Len(stack) >= 1 /\ Top = stack[Len(stack)]
                              /\ Front(stack) \in Seq(Frames) /\ Len(Front(stack)) = Len(stack) - 1
                              /\ \A k \in 1..Len(stack) - 1 : Front(stack)[k] = stack[k]
<1>1. \A k \in DOMAIN stack : stack[k] \in Frames
  BY DEF TypeOK
<1>2. \A k \in DOMAIN stack : /\ stack[k].rule \in Rules /\ stack[k].i \in Nat \ {0}
                              /\ stack[k] = [rule |-> stack[k].rule, i |-> stack[k].i]
  BY <1>1 DEF Frames
<1>3. Len(stack) \in Nat /\ DOMAIN stack = 1..Len(stack)
  BY DEF TypeOK
<1>4. ASSUME stack # <<>>
      PROVE  /\ Len(stack) >= 1 /\ Top = stack[Len(stack)]
             /\ Front(stack) \in Seq(Frames) /\ Len(Front(stack)) = Len(stack) - 1
             /\ \A k \in 1..Len(stack) - 1 : Front(stack)[k] = stack[k]
  <2>1. Len(stack) >= 1 /\ Top = stack[Len(stack)]
    BY <1>4 DEF TypeOK, Top, Last
  <2>2. Front(stack) = [k \in 1..Len(stack) - 1 |-> stack[k]]
    BY <1>3, <2>1 DEF Front
  <2> QED
    BY <1>3, <2>1, <2>2 DEF TypeOK
<1> QED
  BY <1>2, <1>3, <1>4

LEMMA CollectDepIInv ==
    ASSUME IInv, CollectDep
    PROVE  IInv'
<1> USE DEF IInv
<1>1. /\ Needed' = Needed /\ Goals' = Goals
      /\ \A q : Deps(q)' = Deps(q) /\ (isCycle(makefile, q)' <=> isCycle(makefile, q))
  BY NeededSame DEF CollectDep, Collecting
<1>2. /\ Collecting /\ stack # <<>> /\ UNCHANGED <<goal, state, queue>>
      /\ main = "collecting" /\ UNCHANGED <<makefile, team, main, workerVars>>
  BY DEF CollectDep, Collecting
<1>3. PICK n \in Nat :
      n = Len(stack) /\ n >= 1 /\ DOMAIN stack = 1..n /\ Top = stack[n]
  <2>1. TypeOK
    OBVIOUS
  <2> QED
    BY ONLY <1>2, <2>1, StackFacts
<1>4. PICK r \in Rules, i \in Nat \ {0} : stack[n] = [rule |-> r, i |-> i]
  <2>1. n \in DOMAIN stack /\ TypeOK
    BY <1>3
  <2> QED
    BY ONLY <2>1, StackFacts
<1>5. r \in Needed /\ i \in DOMAIN Deps(r) /\ Deps(r) \in Seq(Rules) /\ Len(Deps(r)) \in Nat
  <2>1. n \in DOMAIN stack /\ Top.rule = r /\ Top.i = i /\ stack[n].rule = r
    BY <1>3, <1>4
  <2>2. r \in Needed
    BY <2>1 DEF StackOK
  <2>3. i <= Len(Deps(r))
    BY <2>1 DEF CollectDep
  <2>4. TypeOK
    OBVIOUS
  <2>5. Deps(r) \in Seq(Rules)
    BY ONLY <2>4, NeededOK
  <2> QED
    BY <2>2, <2>3, <2>5
<1>6. PICK d \in Rules : d = Deps(r)[i]
  BY <1>5
<1>7. stack' = Append([stack EXCEPT ![n].i = i + 1], Call(d))
  <2>1. Top.rule = r /\ Top.i = i /\ stack[n].i = i
    BY <1>3, <1>4
  <2>2. stack' = Append([stack EXCEPT ![Len(stack)].i = @ + 1], Call(Deps(Top.rule)[Top.i]))
    BY DEF CollectDep
  <2>3. stack' = Append([stack EXCEPT ![n].i = i + 1], Call(Deps(r)[i]))
    BY <1>3, <2>1, <2>2
  <2> QED
    BY <1>6, <2>3, Zenon
<1>8. PICK s2 \in Seq(Frames) : /\ s2 = [stack EXCEPT ![n].i = i + 1] /\ Len(s2) = n
                                /\ s2[n] = [rule |-> r, i |-> i + 1]
                                /\ \A k \in 1..n - 1 : s2[k] = stack[k]
  <2> DEFINE t == [stack EXCEPT ![n].i = i + 1]
  <2>1. [stack[n] EXCEPT !.i = i + 1] = [rule |-> r, i |-> i + 1]
    BY <1>4
  <2>2. PICK f \in Frames : f = [rule |-> r, i |-> i + 1]
    <3>1. [rule |-> r, i |-> i + 1] \in Frames
      BY DEF Frames
    <3> QED
      BY <3>1, Zenon
  <2>3. t = [stack EXCEPT ![n] = f]
    BY <2>1, <2>2, Zenon
  <2>4. /\ t \in Seq(Frames) /\ Len(t) = n /\ t[n] = [rule |-> r, i |-> i + 1]
        /\ \A k \in 1..n - 1 : t[k] = stack[k]
    <3>1. stack \in Seq(Frames)
      BY DEF TypeOK
    <3>2. LET e == [stack EXCEPT ![n] = f]
          IN  /\ e \in Seq(Frames) /\ Len(e) = n /\ e[n] = f
              /\ \A k \in 1..n - 1 : e[k] = stack[k]
      BY ONLY <1>3, <2>2, <3>1
    <3> QED
      BY <2>2, <2>3, <3>2, Zenon
  <2> HIDE DEF t
  <2>5. \E u \in Seq(Frames) : /\ u = t /\ Len(u) = n /\ u[n] = [rule |-> r, i |-> i + 1]
                              /\ \A k \in 1..n - 1 : u[k] = stack[k]
    BY <2>4
  <2> QED
    BY <2>5 DEF t
<1>9. Call(d) \in Frames /\ Call(d) = [rule |-> d, i |-> 1]
  BY DEF Call, Frames
<1>10. /\ stack' \in Seq(Frames) /\ Len(stack') = n + 1 /\ stack'[n + 1] = [rule |-> d, i |-> 1]
       /\ stack'[n] = [rule |-> r, i |-> i + 1]
       /\ \A k \in 1..n - 1 : stack'[k] = stack[k]
  <2>1. stack' = Append(s2, Call(d))
    BY <1>7, <1>8, Zenon
  <2>2. /\ Append(s2, Call(d)) \in Seq(Frames) /\ Len(Append(s2, Call(d))) = n + 1
        /\ Append(s2, Call(d))[n + 1] = Call(d)
        /\ \A k \in 1..n : Append(s2, Call(d))[k] = s2[k]
    <3>1. s2 \in Seq(Frames) /\ Len(s2) = n /\ Call(d) \in Frames
      BY <1>8, <1>9
    <3> QED
      BY ONLY <3>1
  <2>3. /\ stack' \in Seq(Frames) /\ Len(stack') = n + 1 /\ stack'[n + 1] = Call(d)
        /\ \A k \in 1..n : stack'[k] = s2[k]
    BY <2>1, <2>2, Zenon
  <2>4. n \in 1..n /\ \A k \in 1..n - 1 : k \in 1..n
    BY <1>3
  <2> QED
    BY <1>8, <1>9, <2>3, <2>4, Zenon
<1>11. TypeOK'
  BY <1>1, <1>2, <1>10 DEF TypeOK, workerVars
<1>12. Phases' /\ PoisonOK' /\ TargetsOK' /\ NotLost' /\ DepsDone' /\ RunOnce' /\ Reasons'
  <2>1. \A q \in Rules : state'[q] = "queued" => \E j \in DOMAIN queue' : queue'[j] = q
    BY <1>2 DEF NotLost, At, Phases, Waiting
  <2>2. state' \in [Rules -> {"new", "queued", "running", "done", "failed"}]
    BY <1>11 DEF TypeOK
  <2> QED
    BY <1>2, <2>1, <2>2, CollectStep
<1>13. StackOK'
  <2> SUFFICES ASSUME NEW k \in 1..n + 1
               PROVE  /\ stack'[k].rule \in Needed
                      /\ stack'[k].i <= Len(Deps(stack'[k].rule)) + 1
                      /\ \A j \in 1..stack'[k].i - 1 :
                           \/ state[Deps(stack'[k].rule)[j]] # "new"
                           \/ k < Len(stack') /\ stack'[k + 1].rule = Deps(stack'[k].rule)[j]
    <3>1. DOMAIN stack' = 1..n + 1
      BY <1>10
    <3> QED
      BY <1>1, <1>2, <3>1 DEF StackOK
  <2>1. CASE k \in 1..n - 1
    <3>0. k < n /\ k < n + 1 /\ k \in DOMAIN stack /\ (k + 1 = n \/ k + 1 \in 1..n - 1)
      BY <1>3, <2>1
    <3>1. stack'[k] = stack[k] /\ stack'[k + 1].rule = stack[k + 1].rule
      BY <1>4, <1>10, <2>1, <3>0
    <3>2. /\ stack[k].rule \in Needed /\ stack[k].i <= Len(Deps(stack[k].rule)) + 1
          /\ \A j \in 1..stack[k].i - 1 :
               state[Deps(stack[k].rule)[j]] # "new" \/ stack[k + 1].rule = Deps(stack[k].rule)[j]
      BY <3>0, Zenon DEF StackOK
    <3>3. k < Len(stack')
      BY <1>10, <3>0
    <3> QED
      BY <3>1, <3>2, <3>3
  <2>2. CASE k = n
    <3>1. i + 1 <= Len(Deps(r)) + 1
      BY <1>5
    <3>2. ASSUME NEW j \in 1..i PROVE state[Deps(r)[j]] # "new" \/ d = Deps(r)[j]
      <4>1. j = i \/ j \in 1..stack[n].i - 1
        BY <1>4
      <4>2. n \in DOMAIN stack /\ stack[n].rule = r /\ ~(n < Len(stack))
        BY <1>3, <1>4
      <4>3. \A x \in 1..stack[n].i - 1 : state[Deps(r)[x]] # "new"
        BY <4>2, Zenon DEF StackOK
      <4> QED
        BY <1>6, <4>1, <4>3, Zenon
    <3>3. n < n + 1 /\ (i + 1) - 1 = i
      BY <1>3
    <3> QED
      BY <1>5, <1>10, <2>2, <3>1, <3>2, <3>3
  <2>3. CASE k = n + 1
    <3>1. d \in Needed /\ Len(Deps(d)) \in Nat
      BY <1>5, <1>6, NeededOK
    <3> QED
      BY <1>10, <2>3, <3>1
  <2> QED
    BY <1>3, <2>1, <2>2, <2>3
<1>14. GoalsSeen'
  <2>1. stack' # <<>> /\ stack'[1].rule = stack[1].rule
    BY <1>3, <1>4, <1>10
  <2> QED
    BY <1>1, <1>2, <2>1 DEF GoalsSeen
<1>15. QueueOK'
  BY <1>2 DEF QueueOK
<1> QED
  BY <1>11, <1>12, <1>13, <1>14, <1>15

LEMMA QueueRuleIInv ==
    ASSUME IInv, QueueRule
    PROVE  IInv'
<1> USE DEF IInv
<1>1. /\ Needed' = Needed /\ Goals' = Goals
      /\ \A q : Deps(q)' = Deps(q) /\ (isCycle(makefile, q)' <=> isCycle(makefile, q))
  BY NeededSame DEF QueueRule, Collecting
<1>2. /\ Collecting /\ stack # <<>> /\ UNCHANGED goal /\ stack' = Front(stack)
      /\ main = "collecting" /\ UNCHANGED <<makefile, team, main, workerVars>>
  BY DEF QueueRule, Collecting
<1>3. PICK n \in Nat :
      /\ n = Len(stack) /\ n >= 1 /\ DOMAIN stack = 1..n /\ Top = stack[n]
      /\ stack' \in Seq(Frames) /\ Len(stack') = n - 1
      /\ \A k \in 1..n - 1 : stack'[k] = stack[k]
  <2>1. TypeOK
    OBVIOUS
  <2> QED
    BY ONLY <1>2, <2>1, StackFacts
<1>4. PICK r \in Rules : r = stack[n].rule /\ r \in Needed
  <2>1. n \in DOMAIN stack /\ TypeOK
    BY <1>3
  <2>2. stack[n].rule \in Needed
    BY <2>1 DEF StackOK
  <2>3. stack[n].rule \in Rules
    BY ONLY <2>1, StackFacts
  <2> QED
    BY <2>2, <2>3
<1>5. \A d \in ToSet(Deps(r)) : state[d] # "new"
  <2>0. n \in DOMAIN stack /\ ~(n < Len(stack)) /\ TypeOK
    BY <1>3
  <2>1. Deps(r) \in Seq(Rules) /\ stack[n].i \in Nat
    BY ONLY <2>0, NeededOK, StackFacts
  <2>2. \A j \in DOMAIN Deps(r) : j \in 1..stack[n].i - 1
    <3>1. stack[n].i > Len(Deps(r))
      BY <1>3, <1>4 DEF QueueRule
    <3> QED
      BY <2>1, <3>1
  <2>3. \A x \in 1..stack[n].i - 1 : state[Deps(r)[x]] # "new"
    BY <1>4, <2>0, Zenon DEF StackOK
  <2> QED
    BY <2>2, <2>3, Zenon DEF ToSet
<1>6. \/ /\ state[r] = "new" /\ state' = [state EXCEPT ![r] = "queued"]
         /\ queue' = Append(queue, r)
      \/ state[r] # "new" /\ UNCHANGED <<state, queue>>
  BY <1>3, <1>4 DEF QueueRule
<1>7. /\ state' \in [Rules -> {"new", "queued", "running", "done", "failed"}]
      /\ \A q \in Rules : state'[q] # state[q] => q = r /\ state[r] = "new" /\ state'[r] = "queued"
      /\ state'[r] # "new"
  BY <1>6 DEF TypeOK
<1>8. TypeOK'
  <2>1. queue \in Seq(Rules \cup {NULL})
    BY DEF TypeOK
  <2>2. queue' \in Seq(Rules \cup {NULL})
    BY <1>6, <2>1
  <2> QED
    BY <1>1, <1>2, <1>3, <1>7, <2>2 DEF TypeOK, workerVars
<1>9. \A q \in Rules : state[q] = "queued" => \E j \in DOMAIN queue : queue[j] = q
  BY <1>2 DEF NotLost, At, Phases, Waiting
<1>11. QueueOK' /\ \A q \in Rules : state'[q] = "queued" => \E j \in DOMAIN queue' : queue'[j] = q
  <2>1. CASE UNCHANGED <<state, queue>>
    BY <1>2, <1>9, <2>1 DEF QueueOK
  <2>2. CASE /\ state[r] = "new" /\ state' = [state EXCEPT ![r] = "queued"]
             /\ queue' = Append(queue, r)
    <3>1. /\ Len(queue) \in Nat /\ DOMAIN queue = 1..Len(queue)
          /\ Len(queue') = Len(queue) + 1 /\ DOMAIN queue' = 1..Len(queue) + 1
          /\ queue'[Len(queue) + 1] = r
          /\ \A j \in 1..Len(queue) : queue'[j] = queue[j] /\ queue[j] \in Rules \cup {NULL}
      BY <2>2 DEF TypeOK
    <3>2. \A j \in 1..Len(queue) : queue[j] \in Rules /\ state[queue[j]] = "queued" /\ queue[j] # r
      BY <1>2, <2>2, <3>1 DEF QueueOK
    <3>3. r # NULL /\ state'[r] = "queued"
          /\ \A j \in 1..Len(queue) : queue[j] # NULL /\ state'[queue[j]] = "queued"
      BY <2>2, <3>2, ParMakeAssumption DEF TypeOK
    <3>4. QueueOK'
      BY <3>1, <3>2, <3>3 DEF QueueOK
    <3>5. ASSUME NEW q \in Rules, state'[q] = "queued"
          PROVE  \E j \in DOMAIN queue' : queue'[j] = q
      <4>1. CASE q = r
        BY <3>1, <4>1
      <4>2. CASE q # r
        <5>1. PICK j \in DOMAIN queue : queue[j] = q
          BY <1>7, <1>9, <3>5, <4>2
        <5>2. j \in DOMAIN queue' /\ queue'[j] = q
          BY <3>1, <5>1
        <5> QED
          BY <5>2
      <4> QED
        BY <4>1, <4>2
    <3> QED
      BY <3>4, <3>5
  <2> QED
    BY <1>6, <2>1, <2>2
<1>12. Phases' /\ PoisonOK' /\ TargetsOK' /\ NotLost' /\ DepsDone' /\ RunOnce' /\ Reasons'
  BY <1>2, <1>4, <1>5, <1>7, <1>11, CollectStep
<1>13. ASSUME NEW q \in Rules, state[q] # "new" \/ q = r PROVE state'[q] # "new"
  BY <1>7, <1>13
<1>14. StackOK'
  <2>1. DOMAIN stack' = 1..n - 1
    BY <1>3
  <2> SUFFICES ASSUME NEW k \in DOMAIN stack'
               PROVE  /\ stack'[k].rule \in Needed
                      /\ stack'[k].i <= Len(Deps(stack'[k].rule)) + 1
                      /\ \A j \in 1..stack'[k].i - 1 :
                           \/ state'[Deps(stack'[k].rule)[j]] # "new"
                           \/ k < Len(stack') /\ stack'[k + 1].rule = Deps(stack'[k].rule)[j]
    BY <1>1 DEF StackOK
  <2>2. k \in DOMAIN stack /\ stack'[k] = stack[k] /\ (k < n - 1 \/ k + 1 = n)
    BY <1>3, <2>1
  <2>3. stack[k].rule \in Needed /\ stack[k].i <= Len(Deps(stack[k].rule)) + 1
    BY <2>2 DEF StackOK
  <2>4. ASSUME NEW j \in 1..stack[k].i - 1
        PROVE  \/ state'[Deps(stack[k].rule)[j]] # "new"
               \/ k < Len(stack') /\ stack'[k + 1].rule = Deps(stack[k].rule)[j]
    <3>1. PICK d \in Rules : d = Deps(stack[k].rule)[j]
      <4>1. PICK q \in Rules : q = stack[k].rule /\ stack[k].i \in Nat /\ TypeOK
        BY ONLY TypeOK, <2>2, StackFacts
      <4>2. Deps(q) \in Seq(Rules)
        BY ONLY <4>1, NeededOK
      <4>3. j \in DOMAIN Deps(q)
        BY <2>3, <4>1, <4>2
      <4> QED
        BY <4>1, <4>2, <4>3
    <3>2. state[d] # "new" \/ stack[k + 1].rule = d
      <4>1. \A x \in 1..stack[k].i - 1 :
               state[Deps(stack[k].rule)[x]] # "new" \/ stack[k + 1].rule = Deps(stack[k].rule)[x]
        BY <2>2 DEF StackOK
      <4> QED
        BY <3>1, <4>1, Zenon
    <3>3. CASE state[d] # "new" \/ k + 1 = n
      <4>1. state[d] # "new" \/ d = r
        BY <1>4, <3>2, <3>3
      <4> QED
        BY <1>13, <3>1, <4>1
    <3>4. CASE k < n - 1 /\ stack[k + 1].rule = d
      <4>1. stack'[k + 1] = stack[k + 1]
        BY <1>3, <2>1, <3>4
      <4> QED
        BY <1>3, <3>1, <3>4, <4>1
    <3> QED
      BY <2>2, <3>2, <3>3, <3>4
  <2> QED
    BY <2>2, <2>3, <2>4
<1>15. GoalsSeen'
  <2> SUFFICES ASSUME NEW j \in 1..goal - 1, ~isCycle(makefile, Goals[j])
               PROVE  state'[Goals[j]] # "new" \/ (stack' # <<>> /\ stack'[1].rule = Goals[j])
    BY <1>1, <1>2 DEF GoalsSeen
  <2>1. PICK g \in Rules : g = Goals[j]
    <3>1. goal \in 1..Len(Goals) + 1 /\ TypeOK
      BY DEF TypeOK
    <3>2. Goals \in Seq(Rules)
      BY ONLY <3>1, NeededOK
    <3> QED
      BY <3>1, <3>2
  <2>2. CASE state[g] # "new"
    BY <1>13, <2>1, <2>2
  <2>3. CASE stack[1].rule = g
    <3>1. CASE n = 1
      <4>1. g = r
        BY <1>4, <2>3, <3>1
      <4> QED
        BY <1>13, <2>1, <4>1
    <3>2. CASE n # 1
      <4>1. 1 \in 1..n - 1 /\ Len(stack') # 0
        BY <1>3, <3>2
      <4>2. stack'[1] = stack[1] /\ stack' # <<>>
        BY <1>3, <4>1
      <4> QED
        BY <2>1, <2>3, <4>2
    <3> QED
      BY <3>1, <3>2
  <2> QED
    BY <2>1, <2>2, <2>3 DEF GoalsSeen
<1> QED
  BY <1>8, <1>11, <1>12, <1>14, <1>15

LEMMA StartWorkersIInv ==
    ASSUME IInv, StartWorkers
    PROVE  IInv'
<1> USE DEF IInv
<1>1. /\ Needed' = Needed /\ Goals' = Goals
      /\ \A q : Deps(q)' = Deps(q) /\ (isCycle(makefile, q)' <=> isCycle(makefile, q))
  BY NeededSame DEF StartWorkers
<1>2. /\ main = "collecting" /\ stack = <<>> /\ goal > Len(Goals)
      /\ UNCHANGED <<makefile, team, goal, stack, state, target, dep, ran>>
  BY DEF StartWorkers
<1>3. /\ \A w \in Workers : pc[w] = "absent"
      /\ \A r \in Rules :
           /\ ran[r] = 0
           /\ state[r] \notin {"new", "queued"} => state[r] = "failed" /\ CyclicGoal(r)
  BY <1>2 DEF Phases
<1>4. \A r \in Needed : r \in Rules /\ ~CyclicGoal(r)
  BY NeededOK DEF CyclicGoal
<1>5. \A r \in Needed : state[r] = "queued"
  <2> DEFINE S == {r \in Needed : state[r] # "new"}
  <2>1. S \in SUBSET Rules /\ \A r \in S : state[r] = "queued"
    BY <1>3, <1>4
  <2>2. ASSUME NEW i \in DOMAIN Goals PROVE isCycle(makefile, Goals[i]) \/ Goals[i] \in S
    <3>1. i \in 1..goal - 1
      <4>1. Goals \in Seq(Rules) /\ goal \in Nat
        BY NeededOK DEF TypeOK
      <4> QED
        BY <1>2, <4>1
    <3>2. isCycle(makefile, Goals[i]) \/ Goals[i] \in Needed
      BY NeededOK
    <3>3. isCycle(makefile, Goals[i]) \/ state[Goals[i]] # "new"
      BY <1>2, <3>1 DEF GoalsSeen
    <3> QED
      BY <3>2, <3>3
  <2>3. ASSUME NEW q \in S PROVE ToSet(Deps(q)) \subseteq S
    <3>1. \A d \in ToSet(Deps(q)) : d \in Needed
      BY NeededOK DEF ToSet
    <3>2. \A d \in ToSet(Deps(q)) : state[d] # "new"
      BY <1>4, <2>1 DEF DepsDone
    <3> QED
      BY <3>1, <3>2
  <2> HIDE DEF S
  <2>4. \A r \in Needed : r \in S
    BY <2>1, <2>2, <2>3 DEF Needed
  <2> QED
    BY <2>1, <2>4
<1>6. queue = <<>> => Needed = {}
  BY <1>3, <1>4, <1>5 DEF NotLost, At, Waiting
<1>7. /\ Len(queue) \in Nat /\ DOMAIN queue = 1..Len(queue)
      /\ \A i \in DOMAIN queue : queue[i] # NULL /\ state[queue[i]] = "queued" /\ queue[i] \in Rules
  BY <1>2 DEF TypeOK, QueueOK
<1>8. \/ /\ main' = "joining" /\ queue' = Append(queue, NULL)
         /\ \A w \in Workers : pc'[w] = IF w \in team THEN "pull" ELSE "absent"
      \/ main' = "joined" /\ UNCHANGED <<queue, pc>> /\ queue = <<>>
  BY DEF StartWorkers
<1>9. /\ \A w \in Workers : pc'[w] = "absent" \/ (pc'[w] = "pull" /\ w \in team)
      /\ main' # "collecting"
  BY <1>3, <1>8
<1>10. \A w \in Workers, r \in Rules : ~At(w, r) /\ ~At(w, r)'
  BY <1>3, <1>9 DEF At, Waiting
<1>11. TypeOK'
  <2>1. main' \in {"collecting", "joining", "joined"}
    BY <1>8
  <2>2. queue' \in Seq(Rules \cup {NULL})
    <3>1. queue \in Seq(Rules \cup {NULL})
      BY DEF TypeOK
    <3> QED
      BY <1>8, <3>1
  <2>3. pc' \in [Workers -> Waiting \cup {"absent", "pull", "poisoned", "exited", "look",
                                          "run", "finish", "announce"}]
    BY DEF StartWorkers, TypeOK
  <2> QED
    BY <1>1, <1>2, <2>1, <2>2, <2>3 DEF TypeOK
<1>12. StackOK' /\ GoalsSeen'
  BY <1>1, <1>2 DEF StackOK, GoalsSeen
<1>13. Phases'
  <2>1. main' = "joined" => Needed = {} /\ UNCHANGED pc
    BY <1>6, <1>8
  <2> QED
    BY <1>1, <1>2, <1>3, <1>5, <1>9, <2>1 DEF Phases
<1>14. /\ QueueOK'
       /\ main' = "joining" => \E i \in DOMAIN queue' : queue'[i] = NULL
       /\ \A i \in DOMAIN queue : \E j \in DOMAIN queue' : queue'[j] = queue[i]
       /\ \A j \in DOMAIN queue' : queue'[j] # NULL => \E i \in DOMAIN queue : queue'[j] = queue[i]
  <2>1. CASE queue' = Append(queue, NULL) /\ main' = "joining"
    <3>1. /\ Len(queue') = Len(queue) + 1 /\ DOMAIN queue' = 1..Len(queue) + 1
          /\ queue'[Len(queue) + 1] = NULL
          /\ \A i \in DOMAIN queue : queue'[i] = queue[i]
      BY <1>7, <2>1 DEF TypeOK
    <3>2. Len(queue) + 1 \in DOMAIN queue' /\ DOMAIN queue \subseteq DOMAIN queue'
      BY <1>7, <3>1
    <3>3. \A j \in DOMAIN queue' : j \in DOMAIN queue \/ j = Len(queue')
      BY <1>7, <3>1
    <3>4. QueueOK'
      BY <1>2, <1>7, <1>9, <3>1, <3>3 DEF QueueOK
    <3> QED
      BY <3>1, <3>2, <3>3, <3>4
  <2>2. CASE UNCHANGED queue /\ queue = <<>> /\ main' = "joined"
    BY <2>2 DEF QueueOK
  <2> QED
    BY <1>8, <2>1, <2>2
<1>15. PoisonOK'
  <2>1. \/ \E i \in DOMAIN queue' : queue'[i] = NULL
        \/ Needed = {}
    BY <1>6, <1>8, <1>14
  <2> QED
    BY <1>1, <1>9, <2>1 DEF PoisonOK
<1>16. TargetsOK'
  BY <1>9, <1>10 DEF TargetsOK, Waiting
<1>17. NotLost'
  <2>1. \A r \in Rules : state[r] = "queued" => \E i \in DOMAIN queue : queue[i] = r
    BY <1>10 DEF NotLost
  <2>2. \A r \in Rules : state[r] = "queued" => \E j \in DOMAIN queue' : queue'[j] = r
    BY <1>14, <2>1
  <2> QED
    BY <1>2, <1>3, <2>2 DEF NotLost
<1>18. DepsDone'
  <2>1. DependenciesFirst'
    BY <1>1, <1>2 DEF DepsDone, DependenciesFirst
  <2>2. \A w \in Workers : pc'[w] \notin Waiting
    BY <1>9 DEF Waiting
  <2> QED
    BY <1>1, <1>2, <2>1, <2>2 DEF DepsDone
<1>19. RunOnce'
  BY <1>2, <1>9 DEF RunOnce
<1>20. Reasons'
  BY <1>1, <1>2 DEF Reasons, CyclicGoal
<1> QED
  BY <1>11, <1>12, <1>13, <1>14, <1>15, <1>16, <1>17, <1>18, <1>19, <1>20

LEMMA JoinIInv ==
    ASSUME IInv, UNCHANGED <<makefile, team, goal, stack, queue, state, workerVars>>,
           \/ UNCHANGED main
           \/ main = "joining" /\ main' = "joined" /\ \A w \in team : pc[w] = "exited"
    PROVE  IInv'
<1> USE DEF IInv, workerVars
<1>1. /\ Needed' = Needed /\ Goals' = Goals
      /\ \A q : Deps(q)' = Deps(q) /\ (isCycle(makefile, q)' <=> isCycle(makefile, q))
  BY NeededSame
<1>2. /\ main' = "collecting" <=> main = "collecting"
      /\ main' \in {"collecting", "joining", "joined"}
  BY DEF TypeOK
<1>3. TypeOK'
  BY <1>1, <1>2 DEF TypeOK
<1>4. StackOK' /\ GoalsSeen'
  BY <1>1 DEF StackOK, GoalsSeen
<1>5. Phases' /\ QueueOK' /\ PoisonOK'
  BY <1>1, <1>2 DEF Phases, QueueOK, PoisonOK, CyclicGoal
<1>6. TargetsOK' /\ NotLost'
  BY DEF TargetsOK, NotLost, At
<1>7. DepsDone'
  BY <1>1 DEF DepsDone, DependenciesFirst
<1>8. RunOnce' /\ Reasons'
  BY <1>1 DEF RunOnce, Reasons, CyclicGoal
<1> QED
  BY <1>3, <1>4, <1>5, <1>6, <1>7, <1>8

LEMMA InitIInv == Init => IInv
<1> SUFFICES ASSUME Init PROVE IInv
  OBVIOUS
<1> USE DEF Init
<1>1. Len(Goals) \in Nat
  BY ParMakeAssumption DEF Goals
<1>2. TypeOK
  BY <1>1 DEF TypeOK
<1>3. StackOK /\ GoalsSeen /\ QueueOK
  BY DEF StackOK, GoalsSeen, QueueOK
<1>4. Phases /\ PoisonOK /\ TargetsOK /\ NotLost
  BY DEF Phases, PoisonOK, TargetsOK, NotLost, At, Waiting
<1>5. DepsDone /\ RunOnce /\ Reasons
  BY DEF DepsDone, DependenciesFirst, RunOnce, Reasons, Waiting
<1> QED
  BY <1>2, <1>3, <1>4, <1>5 DEF IInv

(* Whatever the workers and the main thread do, all of this holds.         *)
THEOREM Invariance == Spec => []IInv
<1>1. IInv /\ [Next]_vars => IInv'
  <2> SUFFICES ASSUME IInv, [Next]_vars PROVE IInv'
    OBVIOUS
  <2>1. CASE UNCHANGED vars
    BY <2>1, JoinIInv DEF vars, mainVars
  <2>2. CASE Main
    <3>1. CASE Join
      BY <3>1, JoinIInv DEF Join
    <3> QED
      BY <2>2, <3>1, NextGoalIInv, CollectDepIInv, QueueRuleIInv, StartWorkersIInv DEF Main
  <2>3. ASSUME NEW w \in team, WorkerStep(w) \/ SpuriousWakeup(w) PROVE IInv'
    BY <2>3, PullIInv, PutPoisonBackIInv, MovesIInv, SettlesIInv DEF WorkerStep
  <2> QED
    BY <2>1, <2>2, <2>3 DEF Next, Finished
<1> QED
  BY <1>1, InitIInv, PTL DEF Spec

-----------------------------------------------------------------------------
(* Commands run in the order of the dependencies although satisfy_rule     *)
(* reads their states without the mutex (parmake.c:126): a state that was  *)
(* seen to be done is not left again.                                      *)
THEOREM CommandsInOrder == Spec => []DependenciesFirst
<1>1. IInv => DependenciesFirst
  BY DEF IInv, DepsDone
<1> QED
  BY <1>1, Invariance, PTL

(* A rule is worked on by one worker and its commands are run at most      *)
(* once: the queue holds it once, since collect_rules queues a rule only   *)
(* the first time it is visited.                                           *)
THEOREM RunAtMostOnce == Spec => []OneWorkerPerRule
<1>1. IInv => OneWorkerPerRule
  <2> SUFFICES ASSUME IInv PROVE OneWorkerPerRule
    OBVIOUS
  <2>1. \A w \in Busy : w \in Workers /\ target[w] \in Rules /\ At(w, target[w])
    BY WorkerExists DEF IInv, Busy, TargetsOK, At, Waiting
  <2>2. \A v, w \in Busy : v # w => target[v] # target[w]
    BY <2>1 DEF IInv, TargetsOK
  <2> QED
    BY <2>2 DEF IInv, RunOnce, OneWorkerPerRule
<1> QED
  BY <1>1, Invariance, PTL

(* Whenever parmake returns, everything that the goals without a cycle     *)
(* need is settled, what failed did so for a reason, and nothing else was  *)
(* run.                                                                    *)
THEOREM VerdictIsRight == Spec => []Verdict
<1>1. IInv => Verdict
  <2> SUFFICES ASSUME IInv, main = "joined" PROVE Verdict
    BY DEF Verdict
  <2> USE DEF IInv
  <2>1. \A w \in Workers, r \in Rules : ~At(w, r)
    BY DEF Phases, At, Waiting
  <2>2. ASSUME Needed # {} PROVE queue = <<NULL>>
    <3>1. PICK w \in team : pc[w] = "exited" /\ w \in Workers
      BY <2>2, WorkerExists, ParMakeAssumption DEF Phases, TypeOK
    <3>2. \A i \in DOMAIN queue : queue[i] = NULL
      BY <3>1 DEF PoisonOK
    <3>3. \E i \in DOMAIN queue : queue[i] = NULL
      BY <2>2 DEF PoisonOK, Phases
    <3>4. Len(queue) \in Nat /\ DOMAIN queue = 1..Len(queue) /\ queue \in Seq(Rules \cup {NULL})
      BY DEF TypeOK
    <3>5. 1 \in DOMAIN queue /\ Len(queue) \in DOMAIN queue
      BY <3>3, <3>4
    <3>6. Len(queue) = 1 /\ queue[1] = NULL
      BY <3>2, <3>5 DEF QueueOK
    <3> QED
      BY <3>4, <3>6
  <2>3. ASSUME NEW r \in Needed
        PROVE  \/ state[r] = "done"
               \/ /\ state[r] = "failed"
                  /\ ran[r] = 1 \/ \E d \in ToSet(Deps(r)) : state[d] = "failed"
    <3>1. r \in Rules /\ ~CyclicGoal(r)
      BY NeededOK DEF CyclicGoal
    <3>2. state[r] # "new"
      BY DEF Phases
    <3>3. \A i \in DOMAIN queue : queue[i] # r
      BY <2>2, <3>1, ParMakeAssumption
    <3>4. state[r] \notin {"queued", "running"}
      BY <2>1, <3>1, <3>3 DEF NotLost
    <3> QED
      BY <3>1, <3>2, <3>4 DEF TypeOK, Reasons
  <2>4. ASSUME NEW r \in Rules \ Needed PROVE ran[r] = 0 /\ state[r] # "done"
    <3>1. ran[r] \in Nat /\ ran[r] <= 1
      BY DEF TypeOK, RunOnce
    <3>2. ran[r] # 1 /\ state[r] # "done"
      BY DEF Reasons
    <3> QED
      BY <3>1, <3>2
  <2> QED
    BY <2>2, <2>3, <2>4 DEF Verdict
<1> QED
  BY <1>1, Invariance, PTL
=============================================================================
