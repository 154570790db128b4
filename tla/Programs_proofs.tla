--------------------------- MODULE Programs_proofs ---------------------------
(***************************************************************************)
(* The invariants of the programs of Programs.                             *)
(***************************************************************************)
EXTENDS Programs, TLAPS, FiniteSetTheorems, SequenceTheorems, NaturalsInduction

-----------------------------------------------------------------------------
(* A bounded set of numbers has a least and a greatest member.             *)
LEMMA LeastExists ==
    ASSUME NEW S \in SUBSET Nat, S # {}
    PROVE  \E x \in S : \A y \in S : x =< y
<1> DEFINE Less == {p \in Nat \X Nat : p[1] < p[2]}
<1>1. IsWellFoundedOn(Less, Nat)
  BY NatLessThanWellFounded DEF OpToRel
<1>2. \A x, y \in Nat : y < x => <<y, x>> \in Less
  OBVIOUS
<1> HIDE DEF Less
<1>3. PICK x \in S : \A y \in S : <<y, x>> \notin Less
  BY <1>1, WFMin
<1>4. \A y \in S : ~(y < x)
  BY <1>2, <1>3
<1> QED
  BY <1>4

LEMMA GreatestIsMember ==
    ASSUME NEW n \in Nat, NEW S \in SUBSET (1 .. n), S # {}
    PROVE  (CHOOSE x \in S : \A y \in S : x >= y) \in S
<1> DEFINE Mirror == {n - k : k \in S}
<1>1. Mirror \in SUBSET Nat /\ Mirror # {}
  <2>1. \A k \in S : n - k \in Nat
    OBVIOUS
  <2> QED
    BY <2>1
<1>3. PICK x \in Mirror : \A y \in Mirror : x =< y
  BY <1>1, LeastExists
<1>2. /\ n - x \in S
      /\ \A y \in S : n - x >= y
  <2>1. PICK k \in S : x = n - k
    BY <1>3
  <2>2. n - x = k
    BY <2>1
  <2>3. ASSUME NEW y \in S PROVE k >= y
    <3>1. x =< n - y
      BY <1>3
    <3> QED
      BY <3>1, <2>1
  <2> QED
    BY <2>2, <2>3
<1> QED
  BY <1>2

-----------------------------------------------------------------------------
(* Sequences.                                                              *)

LEMMA FunctionIsSeq ==
    ASSUME NEW S, NEW n \in Nat, NEW f \in [1 .. n -> S]
    PROVE  f \in Seq(S) /\ Len(f) = n
OBVIOUS

\* The parts of a sequence around place i.
LEMMA PartsOf ==
    ASSUME NEW S, NEW s \in Seq(S), NEW m \in 1 .. Len(s) + 1, NEW n \in 0 .. Len(s),
           m =< n + 1
    PROVE  /\ SubSeq(s, m, n) \in Seq(S) /\ Len(SubSeq(s, m, n)) = n - m + 1
           /\ \A i \in 1 .. n - m + 1 : SubSeq(s, m, n)[i] = s[m + i - 1]
<1>1. Len(s) \in Nat /\ \A i \in m .. n : s[i] \in S
  BY LenProperties, ElementOfSeq
<1>2. /\ SubSeq(s, m, n) \in Seq(S)
      /\ Len(SubSeq(s, m, n)) = IF m <= n THEN n - m + 1 ELSE 0
      /\ \A i \in 1 .. n - m + 1 : SubSeq(s, m, n)[i] = s[m + i - 1]
  BY <1>1, SubSeqProperties
<1> QED
  BY <1>1, <1>2

\* d is c with x put in at place i.
InsertedAt(S, d, c, i, x) ==
    /\ d \in Seq(S) /\ Len(d) = Len(c) + 1
    /\ \A k \in 1 .. Len(c) + 1 : d[k] = IF k < i THEN c[k] ELSE IF k = i THEN x ELSE c[k - 1]

(* InsertAt makes room for an element.                                     *)
LEMMA InsertAtProperties ==
    ASSUME NEW S, NEW c \in Seq(S), NEW i \in 1 .. Len(c) + 1, NEW x \in S
    PROVE  InsertedAt(S, Contract!InsertAt(c, i, x), c, i, x)
<1>1. PICK n : n = Len(c) /\ n \in Nat
  BY LenProperties
<1>2. PICK a, b : a = SubSeq(c, 1, i - 1) /\ b = SubSeq(c, i, n)
  OBVIOUS
<1>3. /\ a \in Seq(S) /\ Len(a) = i - 1
      /\ \A k \in 1 .. i - 1 : a[k] = c[k]
  <2>1. 1 \in 1 .. Len(c) + 1 /\ i - 1 \in 0 .. Len(c) /\ 1 =< i - 1 + 1
    BY <1>1
  <2>2. /\ a \in Seq(S) /\ Len(a) = i - 1 - 1 + 1
        /\ \A k \in 1 .. i - 1 - 1 + 1 : a[k] = c[1 + k - 1]
    BY <1>2, <2>1, PartsOf
  <2> QED
    BY <1>1, <2>2
<1>4. /\ b \in Seq(S) /\ Len(b) = n - i + 1
      /\ \A k \in 1 .. n - i + 1 : b[k] = c[i + k - 1]
  <2>1. n \in 0 .. Len(c) /\ i =< n + 1
    BY <1>1
  <2> QED
    BY <1>2, <2>1, PartsOf
<1>5. PICK u : u = <<x>> /\ u \in Seq(S) /\ Len(u) = 1 /\ u[1] = x
  <2>1. <<x>> \in Seq(S) /\ Len(<<x>>) = 1 /\ <<x>>[1] = x
    OBVIOUS
  <2> QED
    BY <2>1, Zenon
<1>6. PICK z : /\ z = a \o u /\ z \in Seq(S) /\ Len(z) = i
               /\ \A k \in 1 .. i : z[k] = IF k < i THEN c[k] ELSE x
  <2>1. /\ a \o u \in Seq(S) /\ Len(a \o u) = i
        /\ \A k \in 1 .. i : (a \o u)[k] = IF k =< i - 1 THEN a[k] ELSE u[k - (i - 1)]
    BY <1>3, <1>5, ConcatProperties
  <2>2. \A k \in 1 .. i : (a \o u)[k] = IF k < i THEN c[k] ELSE x
    BY <1>3, <1>5, <2>1
  <2> QED
    BY <2>1, <2>2, Zenon
<1>7. PICK w : /\ w = z \o b /\ w \in Seq(S) /\ Len(w) = n + 1
               /\ \A k \in 1 .. n + 1 : w[k] = IF k =< i THEN z[k] ELSE b[k - i]
  <2>1. /\ z \o b \in Seq(S) /\ Len(z \o b) = Len(z) + Len(b)
        /\ \A k \in 1 .. Len(z) + Len(b) :
             (z \o b)[k] = IF k =< Len(z) THEN z[k] ELSE b[k - Len(z)]
    <3>1. z \in Seq(S) /\ b \in Seq(S)
      BY <1>4, <1>6
    <3> QED
      BY <3>1, ConcatProperties
  <2>2. Len(z) = i /\ Len(z) + Len(b) = n + 1
    BY <1>1, <1>4, <1>6
  <2> QED
    BY <2>1, <2>2, Zenon
<1>8. Contract!InsertAt(c, i, x) = w
  BY <1>1, <1>2, <1>5, <1>6, <1>7 DEF Contract!InsertAt
<1>9. ASSUME NEW k \in 1 .. n + 1
      PROVE  w[k] = IF k < i THEN c[k] ELSE IF k = i THEN x ELSE c[k - 1]
  <2>1. CASE k =< i
    <3>1. w[k] = z[k] /\ k \in 1 .. i
      BY <1>1, <1>7, <2>1
    <3> QED
      BY <1>1, <1>6, <2>1, <3>1
  <2>2. CASE k > i
    <3>1. w[k] = b[k - i] /\ k - i \in 1 .. n - i + 1 /\ i + (k - i) - 1 = k - 1
      BY <1>1, <1>7, <2>2
    <3>2. w[k] = c[k - 1]
      BY <1>4, <3>1
    <3> QED
      BY <1>1, <2>2, <3>2
  <2> QED
    BY <1>1, <2>1, <2>2
<1>10. InsertedAt(S, w, c, i, x)
  BY <1>1, <1>7, <1>9 DEF InsertedAt
<1> QED
  BY <1>8, <1>10

-----------------------------------------------------------------------------
(* shell.c: the history.                                                   *)
HistoryInv == /\ file \in Seq(Lines) /\ v \in Seq(Lines) /\ entered \in Seq(Lines)
              /\ She!HistoryKept

(* The lines of the file and those in memory, when the latter are written  *)
(* to the former.                                                          *)
LEMMA WriteKeepsHistory ==
    ASSUME HistoryInv, She!Write, UNCHANGED <<mode, entered>>
    PROVE  HistoryInv'
<1>1. CASE UNCHANGED <<file, v>>
  BY <1>1 DEF HistoryInv, She!HistoryKept, She!History
<1>2. CASE mode # "plain" /\ file' = file \o v /\ v' = <<>>
  <2>1. file \o v \in Seq(Lines)
    BY ConcatProperties DEF HistoryInv
  <2>2. (file \o v) \o <<>> = file \o v
    BY <2>1, ConcatEmptySeq
  <2> QED
    BY <1>2, <2>1, <2>2 DEF HistoryInv, She!HistoryKept, She!History
<1> QED
  BY <1>1, <1>2 DEF She!Write, She!Cleared

(* A line that is remembered goes to the end of the history.               *)
LEMMA RememberedLast ==
    ASSUME HistoryInv, NEW l \in Lines, entered' = Append(entered, l), UNCHANGED mode,
           \/ v' = Append(v, l) /\ UNCHANGED file
           \/ mode # "plain" /\ file' = file \o v /\ v' = Append(<<>>, l)
    PROVE  HistoryInv'
<1> USE DEF HistoryInv
<1>1. file \o v \in Seq(Lines)
  BY ConcatProperties
<1>2. /\ Append(v, l) = v \o <<l>> /\ Append(<<>>, l) = <<l>>
      /\ Append(file \o v, l) = (file \o v) \o <<l>>
      /\ <<l>> \in Seq(Lines) /\ Append(v, l) \in Seq(Lines) /\ Append(entered, l) \in Seq(Lines)
  BY <1>1, AppendIsConcat, AppendProperties
<1>3. file \o (v \o <<l>>) = (file \o v) \o <<l>>
  BY <1>2, ConcatAssociative
<1>4. She!HistoryKept'
  BY <1>2, <1>3 DEF She!HistoryKept, She!History
<1> QED
  BY <1>1, <1>2, <1>4

LEMMA HistoryInit == She!Init => HistoryInv
<1> SUFFICES ASSUME She!Init PROVE HistoryInv
  OBVIOUS
<1>1. script \in Seq(Lines)
  <2>1. CASE mode = "-f"
    <3>1. PICK a, b \in Lines : script = <<a, b>>
      BY <2>1 DEF She!Init
    <3> QED
      BY <3>1
  <2>2. CASE mode # "-f"
    BY <2>2 DEF She!Init
  <2> QED
    BY <2>1, <2>2
<1>2. script \o <<>> = script /\ (mode = "plain" => script = <<>>)
  BY <1>1, ConcatEmptySeq DEF She!Init
<1> QED
  BY <1>1, <1>2 DEF HistoryInv, She!HistoryKept, She!History, She!Init

LEMMA HistoryNext == HistoryInv /\ [She!Next]_shellVars => HistoryInv'
<1> SUFFICES ASSUME HistoryInv, [She!Next]_shellVars PROVE HistoryInv'
  OBVIOUS
<1>1. ASSUME UNCHANGED <<mode, file, v, entered>> PROVE HistoryInv'
  BY <1>1 DEF HistoryInv, She!HistoryKept, She!History
<1>2. ASSUME NEW l \in Lines, She!ReadLine(l) PROVE HistoryInv'
  <2>1. CASE UNCHANGED <<v, entered>>
    BY <1>1, <1>2, <2>1 DEF She!ReadLine
  <2>2. CASE v' = Append(v, l) /\ entered' = Append(entered, l)
    BY <1>2, <2>2, RememberedLast DEF She!ReadLine
  <2> QED
    BY <1>2, <2>1, <2>2 DEF She!ReadLine
<1>3. CASE She!Exit
  BY <1>1, <1>3, WriteKeepsHistory DEF She!Exit
<1>4. CASE She!history
  BY <1>4, WriteKeepsHistory DEF She!history
<1>5. CASE She!Recall
  <2>1. CASE She!Write /\ UNCHANGED entered
    BY <1>5, <2>1, WriteKeepsHistory DEF She!Recall
  <2>2. ASSUME NEW i \in She!Wanted(She!Top.words),
               entered' = Append(entered, She!History[i]),
               IF mode = "plain" THEN v' = Append(v, She!History[i]) /\ UNCHANGED file
               ELSE file' = file \o v /\ v' = Append(She!Cleared, She!History[i])
        PROVE  HistoryInv'
    <3>1. i \in DOMAIN She!History
      <4> DEFINE matching == {k \in DOMAIN She!History :
                                She!IsPrefix(Tail(She!Top.words), She!History[k])}
      <4>1. CASE She!Top.words[1] = "#"
        BY <2>2, <4>1 DEF She!Wanted
      <4>2. CASE She!Top.words[1] # "#"
        <5>1. matching # {} /\ i = She!Max(matching)
          BY <2>2, <4>2 DEF She!Wanted
        <5>2. matching \subseteq 1 .. Len(She!History)
          BY LenProperties DEF HistoryInv, She!HistoryKept
        <5> QED
          BY <5>1, <5>2, GreatestIsMember, LenProperties DEF She!Max, HistoryInv, She!HistoryKept
      <4> QED
        BY <4>1, <4>2
    <3>2. She!History \in Seq(Lines)
      BY DEF HistoryInv, She!HistoryKept
    <3>3. She!History[i] \in Lines
      BY <3>1, <3>2, ElementOfSeq
    <3> QED
      BY <1>5, <2>2, <3>3, RememberedLast DEF She!Recall, She!Cleared
  <2> QED
    BY <1>5, <2>1, <2>2 DEF She!Recall
<1>6. CASE She!Line \/ She!Second \/ She!cd \/ She!Recalled \/ She!ps
           \/ She!Fork \/ She!Background \/ She!Foreground \/ She!Cleanup
  BY <1>1, <1>6 DEF She!Line, She!Second, She!cd, She!Recalled, She!ps, She!Fork,
                    She!Background, She!Foreground, She!Cleanup, She!histVars
<1>7. CASE She!ReadScript \/ \E p \in Pids : She!ChildEnds(p)
  BY <1>1, <1>7 DEF She!ReadScript, She!ChildEnds, She!histVars
<1>8. CASE UNCHANGED shellVars
  BY <1>1, <1>8 DEF shellVars
<1> QED
  BY <1>2, <1>3, <1>4, <1>5, <1>6, <1>7, <1>8 DEF She!Next, She!ShellStep

-----------------------------------------------------------------------------
(* shell.c: the children.                                                  *)
Statuses == {"none", "runs", "stopped", "zombie"}

\* Before the handler is installed there is at most one child, and nobody
\* but the shell reaps it.
OnlyChild ==
    ~handler => /\ process_v = {}
                /\ forked # NULL /\ ~forked.back =>
                     /\ state[forked.pid] # "none"
                     /\ state[forked.pid] = "zombie" => code[forked.pid] = truth

ChildInv == /\ state \in [Pids -> Statuses]
            /\ forked \in [pid : Pids, back : BOOLEAN] \cup {NULL}
            /\ OnlyChild /\ She!ChildrenAccounted

LEMMA ChildInit == She!Init => ChildInv
BY DEF She!Init, ChildInv, OnlyChild, She!ChildrenAccounted, Statuses

(* Steps of the shell between two commands.                                *)
LEMMA BetweenCommands ==
    ASSUME ChildInv, UNCHANGED <<forked, state, code, handler>>, forked = NULL,
           res' = truth' \/ UNCHANGED <<res, truth>>,
           UNCHANGED process_v \/ process_v' = {p \in process_v : state[p] # "none"}
    PROVE  ChildInv'
BY DEF ChildInv, OnlyChild, She!ChildrenAccounted, Statuses

LEMMA ForkChildInv == ASSUME ChildInv, She!Fork PROVE ChildInv'
<1>1. ASSUME NEW p \in Pids, state[p] = "none", state' = [state EXCEPT ![p] = "runs"],
             forked' = [pid |-> p, back |-> She!IsBackground(She!Top.words)]
      PROVE  ChildInv'
  <2>1. forked' \in [pid : Pids, back : BOOLEAN] /\ forked'.pid = p
    BY <1>1 DEF She!IsBackground
  <2>2. forked = NULL /\ UNCHANGED <<process_v, handler, res, truth, code>>
    BY DEF She!Fork, She!On
  <2>3. forked' # NULL
    BY <2>1, ShellAssumption
  <2>4. state' \in [Pids -> Statuses] /\ state'[p] = "runs"
        /\ \A q \in Pids : q # p => state'[q] = state[q]
    BY <1>1 DEF ChildInv, Statuses
  <2>5. OnlyChild'
    BY <2>1, <2>2, <2>4 DEF ChildInv, OnlyChild
  <2>6. She!ChildrenAccounted'
    BY <2>1, <2>2, <2>3, <2>4 DEF ChildInv, She!ChildrenAccounted
  <2> QED
    BY <2>1, <2>4, <2>5, <2>6 DEF ChildInv
<1>2. ASSUME UNCHANGED <<state, forked>> PROVE ChildInv'
  BY <1>2, BetweenCommands DEF She!Fork, She!On
<1> QED
  BY <1>1, <1>2 DEF She!Fork

LEMMA BackgroundChildInv == ASSUME ChildInv, She!Background PROVE ChildInv'
<1>1. /\ UNCHANGED <<state, code>> /\ handler' = TRUE /\ forked' = NULL
      /\ process_v' = process_v \cup {forked.pid}
  BY DEF She!Background, She!childVars
<1> QED
  BY <1>1 DEF ChildInv, OnlyChild, She!ChildrenAccounted

LEMMA ForegroundChildInv == ASSUME ChildInv, She!Foreground PROVE ChildInv'
<1>1. /\ forked' = NULL /\ UNCHANGED <<process_v, handler, truth>>
      /\ forked # NULL /\ ~forked.back /\ res' = code[forked.pid]
      /\ state[forked.pid] \in {"zombie", "none"}
      /\ state' = [p \in Pids |-> IF p \in {forked.pid} THEN "none" ELSE state[p]]
  BY DEF She!Foreground, She!Reap, She!Ended
<1>2. state' \in [Pids -> Statuses]
  BY <1>1 DEF ChildInv, Statuses
<1>3. ~handler => res' = truth'
  BY <1>1 DEF ChildInv, OnlyChild
<1> QED
  BY <1>1, <1>2, <1>3 DEF ChildInv, OnlyChild, She!ChildrenAccounted

LEMMA CleanupChildInv == ASSUME ChildInv, She!Cleanup PROVE ChildInv'
<1>1. /\ handler /\ UNCHANGED <<process_v, forked, handler>>
      /\ \E zombies \in SUBSET Pids :
           state' = [p \in Pids |-> IF p \in zombies THEN "none" ELSE state[p]]
  BY DEF She!Cleanup, She!Reap, She!Installed
<1>2. state' \in [Pids -> Statuses] /\ \A p \in Pids : state'[p] # "none" => state[p] # "none"
  BY <1>1 DEF ChildInv, Statuses
<1> QED
  BY <1>1, <1>2 DEF ChildInv, OnlyChild, She!ChildrenAccounted

(* A child ends: if it is the one that the shell waits for, truth is told. *)
LEMMA ChildEndsChildInv ==
    ASSUME ChildInv, NEW p \in Pids, She!ChildEnds(p)
    PROVE  ChildInv'
<1> DEFINE word == cmd[p][1]
           signals == word \in DOMAIN She!Signal
           target == IF signals THEN cmd[p][2] ELSE NULL
           status == IF word \in Failing \/ (signals /\ state[target] = "none") THEN 1 ELSE 0
<1>1. /\ state[p] = "runs" /\ UNCHANGED <<forked, process_v, handler, res>>
      /\ truth' = IF forked # NULL /\ ~forked.back /\ forked.pid = p THEN status ELSE truth
      /\ state' = [q \in Pids |-> IF q = p THEN "zombie"
                                  ELSE IF q = target THEN She!After(word, q) ELSE state[q]]
      /\ code' = [q \in Pids |-> IF q = p THEN status
                                 ELSE IF q = target /\ word = "kill" /\ state[q] # "none"
                                         /\ state[q] # "zombie" THEN 9 ELSE code[q]]
  BY DEF She!ChildEnds
<1>2. ASSUME NEW q \in Pids
      PROVE  q = target => /\ She!After(word, q) \in Statuses
                           /\ state[q] = "none" => She!After(word, q) = "none"
  <2> SUFFICES ASSUME q = target
               PROVE  /\ She!After(word, q) \in Statuses
                      /\ state[q] = "none" => She!After(word, q) = "none"
    OBVIOUS
  <2>1. signals
    BY ShellAssumption
  <2>2. She!Signal[word] \in Statuses
    BY <2>1 DEF She!Signal, Statuses
  <2> QED
    BY <2>2 DEF She!After, Statuses
<1> HIDE DEF word, signals, target, status
<1>3. /\ state' \in [Pids -> Statuses]
      /\ \A q \in Pids : state'[q] # "none" => state[q] # "none"
  BY <1>1, <1>2 DEF ChildInv, Statuses
<1>4. ~handler => forked # NULL /\ forked.pid = p
  BY <1>1 DEF ChildInv, OnlyChild, She!ChildrenAccounted
<1>5. state'[p] = "zombie" /\ code'[p] = status
  BY <1>1
<1>6. OnlyChild'
  BY <1>1, <1>4, <1>5 DEF ChildInv, OnlyChild
<1>7. She!ChildrenAccounted'
  BY <1>1, <1>3, <1>4 DEF ChildInv, She!ChildrenAccounted
<1> QED
  BY <1>1, <1>3, <1>6, <1>7 DEF ChildInv

LEMMA ChildNext == ChildInv /\ [She!Next]_shellVars => ChildInv'
<1> SUFFICES ASSUME ChildInv, [She!Next]_shellVars PROVE ChildInv'
  OBVIOUS
<1>1. CASE She!Fork \/ She!Background \/ She!Foreground \/ She!Cleanup
  BY <1>1, ForkChildInv, BackgroundChildInv, ForegroundChildInv, CleanupChildInv
<1>2. ASSUME NEW p \in Pids, She!ChildEnds(p) PROVE ChildInv'
  BY <1>2, ChildEndsChildInv
<1>3. CASE She!Line \/ She!Second
  BY <1>3, BetweenCommands DEF She!Line, She!Second, She!On, She!childVars
<1>4. CASE She!cd \/ She!history \/ She!Recalled
  BY <1>4, BetweenCommands DEF She!cd, She!history, She!Recalled, She!On, She!childVars,
                               She!Returns
<1>5. CASE She!Recall
  BY <1>5, BetweenCommands DEF She!Recall, She!On, She!childVars, She!Returns
<1>6. CASE She!ps
  BY <1>6, BetweenCommands DEF She!ps, She!On, She!childVars, She!Returns
<1>7. CASE She!ReadScript \/ She!Exit \/ \E l \in Lines : She!ReadLine(l)
  BY <1>7, BetweenCommands DEF She!ReadScript, She!Exit, She!ReadLine, She!AtPrompt,
                               She!childVars
<1>8. CASE UNCHANGED shellVars
  BY <1>8 DEF shellVars, ChildInv, OnlyChild, She!ChildrenAccounted
<1> QED
  BY <1>1, <1>2, <1>3, <1>4, <1>5, <1>6, <1>7, <1>8 DEF She!Next, She!ShellStep

-----------------------------------------------------------------------------
(* cracker2.c: the search.                                                 *)
Places == {"check", "hash", "done"}

CrackTypeOK == /\ main \in {"next", "join", "returned", "undefined"} /\ found \in BOOLEAN
               /\ place \in [Cra!Workers -> Places]
               /\ tried \in [Cra!Workers -> Nat]
               /\ ender \in [Cra!Workers -> Nat \cup {NULL}]
               /\ joined \in 0 .. Nthread /\ result \in {0, 1} /\ totalhashcount \in Nat
               /\ tasks \in Seq(Answers)

\* Thread t has tried a part of its candidates: all of them when it is done
\* and nobody found anything, and the right one only if it returns it.
PartTried(t) ==
    /\ tried[t] =< Cra!Count(t)
    /\ place[t] = "hash" => tried[t] < Cra!Count(t)
    /\ place[t] = "done" /\ ~found => tried[t] = Cra!Count(t)
    /\ ender[t] = NULL => Head(tasks) < Cra!First(t) \/ Head(tasks) >= Cra!First(t) + tried[t]
    /\ ender[t] # NULL => /\ ender[t] = Head(tasks) /\ Head(tasks) < Space
                          /\ place[t] = "done" /\ found

\* What is known after some of the threads were joined.
JoinedSoFar ==
    /\ \A k \in 1 .. joined : place[k] = "done"
    /\ result = 0 => /\ password = Head(tasks)
                     /\ \E k \in 1 .. joined : ender[k] # NULL
    /\ result = 1 => \A k \in 1 .. joined : ender[k] = NULL
    /\ totalhashcount =< Cra!First(joined + 1)
    /\ result = 1 /\ ~found => /\ totalhashcount = Cra!First(joined + 1)
                               /\ Head(tasks) >= Cra!First(joined + 1)

CrackInv == /\ CrackTypeOK
            /\ main # "join" => \A t \in Cra!Workers : place[t] = "done"
            /\ main = "join" => /\ tasks # <<>>
                                /\ \A t \in Cra!Workers : PartTried(t)
                                /\ found => \E t \in Cra!Workers : ender[t] # NULL
                                /\ JoinedSoFar

(* getSubrange divides the candidates into consecutive parts.              *)
LEMMA PartsCoverSpace ==
    /\ \A t \in 1 .. Nthread + 1 : Cra!First(t) \in Nat /\ Cra!First(t) =< Space
    /\ \A t \in 1 .. Nthread : /\ Cra!First(t) + Cra!Count(t) = Cra!First(t + 1)
                               /\ Cra!Count(t) \in Nat
    /\ Cra!First(1) = 0 /\ Cra!First(Nthread + 1) = Space
<1> USE CrackerAssumption
<1>1. ASSUME NEW t \in 1 .. Nthread + 1
      PROVE  /\ (t - 1) * Space \in Nat /\ (t - 1) * Space =< Nthread * Space
             /\ Cra!First(t) \in Nat
    BY DEF Cra!First
<1>2. (Nthread * Space) \div Nthread = Space /\ Nthread * Space \in Nat
  OBVIOUS
<1>3. ASSUME NEW n \in Nat \ {0}, NEW x \in Nat, NEW y \in Nat, x =< y
      PROVE  x \div n =< y \div n
  BY <1>3
<1>4. ASSUME NEW t \in 1 .. Nthread + 1 PROVE Cra!First(t) =< Space
  BY <1>1, <1>2, <1>3 DEF Cra!First
<1>5. ASSUME NEW t \in 1 .. Nthread PROVE Cra!First(t) =< Cra!First(t + 1)
  <2>1. (t - 1) * Space \in Nat /\ t * Space \in Nat /\ (t - 1) * Space =< t * Space
    OBVIOUS
  <2> QED
    BY <2>1, <1>3 DEF Cra!First
<1>6. Cra!First(1) = 0 /\ Cra!First(Nthread + 1) = Space
  BY <1>2 DEF Cra!First
<1>7. ASSUME NEW t \in 1 .. Nthread
      PROVE  /\ Cra!First(t) + Cra!Count(t) = Cra!First(t + 1)
             /\ Cra!Count(t) \in Nat
  <2>1. Cra!First(t) \in Nat /\ Cra!First(t + 1) \in Nat
    BY <1>1
  <2> QED
    BY <2>1, <1>5 DEF Cra!Count
<1> QED
  BY <1>1, <1>4, <1>6, <1>7

(* The answer of the task that is being cracked.                           *)
LEMMA AnswerIsNumber == ASSUME CrackTypeOK, tasks # <<>> PROVE Head(tasks) \in Nat
<1>1. Head(tasks) \in Answers
  BY HeadTailProperties DEF CrackTypeOK
<1> QED
  BY <1>1, CrackerAssumption

LEMMA CrackInit == Cra!Init => CrackInv
<1> SUFFICES ASSUME Cra!Init PROVE CrackInv
  OBVIOUS
<1>1. tasks \in Seq(Answers)
  BY CrackerAssumption DEF Cra!Init
<1> QED
  <2>1. /\ place \in [Cra!Workers -> Places] /\ \A t \in Cra!Workers : place[t] = "done"
        /\ tried \in [Cra!Workers -> Nat] /\ ender \in [Cra!Workers -> Nat \cup {NULL}]
    BY DEF Cra!Init, Places
  <2>2. 0 \in 0 .. Nthread
    BY CrackerAssumption
  <2> QED
    BY <1>1, <2>1, <2>2 DEF Cra!Init, CrackInv, CrackTypeOK

LEMMA StartCrackInv == ASSUME CrackInv, Cra!StartThreads PROVE CrackInv'
<1> USE CrackerAssumption
<1>1. CASE tasks = <<>>
  BY <1>1 DEF CrackInv, CrackTypeOK, Cra!StartThreads
<1>2. CASE tasks # <<>>
  <2>1. /\ main' = "join" /\ found' = FALSE /\ place' = [t \in Cra!Workers |-> "check"]
        /\ tried' = [t \in Cra!Workers |-> 0] /\ ender' = [t \in Cra!Workers |-> NULL]
        /\ joined' = 0 /\ result' = 1 /\ totalhashcount' = 0 /\ UNCHANGED tasks
    BY <1>2 DEF Cra!StartThreads, Cra!ResetFound
  <2>2. CrackTypeOK'
    <3>1. tried' \in [Cra!Workers -> Nat] /\ ender' \in [Cra!Workers -> Nat \cup {NULL}]
      BY <2>1
    <3>2. place' \in [Cra!Workers -> Places]
      BY <2>1 DEF Places
    <3>3. 0 \in 0 .. Nthread
      OBVIOUS
    <3> QED
      BY <2>1, <3>1, <3>2, <3>3 DEF CrackInv, CrackTypeOK
  <2>3. Head(tasks) \in Nat
    BY <1>2, AnswerIsNumber DEF CrackInv
  <2>4. ASSUME NEW t \in Cra!Workers PROVE PartTried(t)'
    <3>1. Cra!First(t) \in Nat /\ Cra!Count(t) \in Nat
      BY PartsCoverSpace DEF Cra!Workers
    <3> QED
      BY <2>1, <2>3, <3>1 DEF PartTried, Cra!First, Cra!Count
  <2>5. JoinedSoFar'
    BY <2>1, <2>3, PartsCoverSpace DEF JoinedSoFar, Cra!First
  <2> QED
    BY <1>2, <2>1, <2>2, <2>4, <2>5 DEF CrackInv
<1> QED
  BY <1>1, <1>2

LEMMA CheckCrackInv == ASSUME CrackInv, NEW t \in Cra!Workers, Cra!Check(t) PROVE CrackInv'
<1> USE CrackerAssumption
<1>1. /\ place[t] = "check" /\ main = "join"
      /\ UNCHANGED <<tasks, main, found, tried, ender, joined, password, result, totalhashcount>>
      /\ place' = [place EXCEPT ![t] = IF tried[t] < Cra!Count(t) /\ ~found THEN "hash"
                                       ELSE "done"]
  BY DEF Cra!Check, CrackInv
<1>2. CrackTypeOK'
  BY <1>1 DEF CrackInv, CrackTypeOK, Places
<1>3. \A u \in Cra!Workers : u # t => place'[u] = place[u]
  BY <1>1 DEF CrackInv, CrackTypeOK
<1>4. PartTried(t)'
  <2>1. tried[t] \in Nat /\ Cra!Count(t) \in Nat
    BY PartsCoverSpace DEF CrackInv, CrackTypeOK, Cra!Workers
  <2>2. place'[t] = IF tried[t] < Cra!Count(t) /\ ~found THEN "hash" ELSE "done"
    BY <1>1 DEF CrackInv, CrackTypeOK
  <2> QED
    BY <1>1, <2>1, <2>2 DEF CrackInv, PartTried, Cra!First, Cra!Count
<1>5. \A u \in Cra!Workers : PartTried(u)'
  BY <1>1, <1>3, <1>4 DEF CrackInv, PartTried, Cra!First, Cra!Count
<1>6. JoinedSoFar'
  BY <1>1, <1>3 DEF CrackInv, CrackTypeOK, JoinedSoFar, Cra!First, Cra!Workers
<1> QED
  BY <1>1, <1>2, <1>5, <1>6 DEF CrackInv

LEMMA HashCrackInv == ASSUME CrackInv, NEW t \in Cra!Workers, Cra!Hash(t) PROVE CrackInv'
<1> USE CrackerAssumption
<1> DEFINE candidate == Cra!First(t) + tried[t]
           right == candidate = Head(tasks)
<1>1. /\ place[t] = "hash" /\ main = "join"
      /\ UNCHANGED <<tasks, main, joined, password, result, totalhashcount>>
      /\ tried' = [tried EXCEPT ![t] = tried[t] + 1]
      /\ found' = (found \/ right)
      /\ ender' = [ender EXCEPT ![t] = IF right THEN candidate ELSE NULL]
      /\ place' = [place EXCEPT ![t] = IF right THEN "done" ELSE "check"]
  BY DEF Cra!Hash, CrackInv
<1>2. candidate \in Nat /\ candidate < Space /\ tried[t] \in Nat /\ Cra!Count(t) \in Nat
      /\ Cra!First(t) \in Nat /\ Head(tasks) \in Nat /\ tried[t] < Cra!Count(t)
  <2>1. t \in 1 .. Nthread /\ t + 1 \in 1 .. Nthread + 1 /\ t \in 1 .. Nthread + 1
    BY DEF Cra!Workers
  <2>2. /\ Cra!First(t) \in Nat /\ Cra!First(t + 1) =< Space /\ Cra!First(t + 1) \in Nat
        /\ Cra!First(t) + Cra!Count(t) = Cra!First(t + 1) /\ Cra!Count(t) \in Nat
    BY <2>1, PartsCoverSpace
  <2>3. tried[t] \in Nat /\ tried[t] < Cra!Count(t)
    BY <1>1 DEF CrackInv, CrackTypeOK, PartTried
  <2>4. Head(tasks) \in Nat
    BY <1>1, AnswerIsNumber DEF CrackInv
  <2> QED
    BY <2>2, <2>3, <2>4
<1>3. CrackTypeOK'
  BY <1>1, <1>2 DEF CrackInv, CrackTypeOK, Places
<1>4. \A u \in Cra!Workers : u # t => /\ place'[u] = place[u] /\ tried'[u] = tried[u]
                                      /\ ender'[u] = ender[u]
  BY <1>1 DEF CrackInv, CrackTypeOK
<1>5. /\ tried'[t] = tried[t] + 1
      /\ ender'[t] = IF right THEN candidate ELSE NULL
      /\ place'[t] = IF right THEN "done" ELSE "check"
  BY <1>1 DEF CrackInv, CrackTypeOK
<1>6. ender[t] = NULL
  BY <1>1 DEF CrackInv, PartTried
<1>7. PartTried(t)'
  <2>1. Cra!First(t)' = Cra!First(t) /\ Cra!Count(t)' = Cra!Count(t)
    BY DEF Cra!First, Cra!Count
  <2>2. /\ Head(tasks) < Cra!First(t) \/ Head(tasks) >= Cra!First(t) + tried[t]
        /\ found \in BOOLEAN /\ tasks' = tasks
    BY <1>1, <1>6 DEF CrackInv, PartTried, CrackTypeOK
  <2>3. CASE right
    <3>1. /\ tried'[t] = tried[t] + 1 /\ ender'[t] = Head(tasks) /\ place'[t] = "done"
          /\ found' /\ Head(tasks) < Space /\ Head(tasks') = Head(tasks)
          /\ ender'[t] # NULL
      BY <1>1, <1>2, <1>5, <2>2, <2>3
    <3> HIDE DEF candidate, right
    <3> QED
      BY <1>2, <2>1, <3>1 DEF PartTried
  <2>4. CASE ~right
    <3>1. /\ tried'[t] = tried[t] + 1 /\ ender'[t] = NULL /\ place'[t] = "check"
          /\ Head(tasks') = Head(tasks)
          /\ Head(tasks) # Cra!First(t) + tried[t]
      BY <1>1, <1>2, <1>5, <2>2, <2>4
    <3> HIDE DEF candidate, right
    <3> QED
      BY <1>2, <2>1, <2>2, <3>1 DEF PartTried
  <2> QED
    BY <2>3, <2>4
<1>8. \A u \in Cra!Workers : PartTried(u)'
  <2> SUFFICES ASSUME NEW u \in Cra!Workers, u # t PROVE PartTried(u)'
    BY <1>7, Zenon
  <2>1. Cra!First(u)' = Cra!First(u) /\ Cra!Count(u)' = Cra!Count(u)
    BY DEF Cra!First, Cra!Count
  <2>2. PartTried(u)
    BY <1>1 DEF CrackInv
  <2>3. /\ place'[u] = place[u] /\ tried'[u] = tried[u] /\ ender'[u] = ender[u]
        /\ tasks' = tasks /\ (found => found')
    BY <1>1, <1>4
  <2> HIDE DEF candidate, right
  <2> QED
    BY ONLY <2>1, <2>2, <2>3 DEF PartTried
<1>9. found' => \E u \in Cra!Workers : ender'[u] # NULL
  BY <1>1, <1>2, <1>4, <1>5, <1>6 DEF CrackInv
<1>10. JoinedSoFar'
  <2>1. \A k \in 1 .. joined : k \in Cra!Workers /\ k # t
    BY <1>1 DEF CrackInv, CrackTypeOK, JoinedSoFar, Cra!Workers
  <2> QED
    BY <1>1, <1>4, <2>1 DEF CrackInv, JoinedSoFar, Cra!First
<1> QED
  BY <1>1, <1>3, <1>8, <1>9, <1>10 DEF CrackInv

LEMMA JoinCrackInv == ASSUME CrackInv, Cra!Join PROVE CrackInv'
<1> USE CrackerAssumption
<1> DEFINE t == joined + 1
<1>1. /\ main = "join" /\ joined < Nthread /\ place[t] = "done" /\ joined' = t
      /\ totalhashcount' = totalhashcount + tried[t]
      /\ UNCHANGED <<tasks, main, found, place, tried, ender>>
      /\ IF ender[t] = NULL THEN UNCHANGED <<password, result>>
         ELSE password' = ender[t] /\ result' = 0
  BY DEF Cra!Join
<1>2. t \in Cra!Workers /\ t \in 1 .. Nthread /\ joined \in Nat
  BY <1>1 DEF CrackInv, CrackTypeOK, Cra!Workers
<1>3. /\ Cra!First(t) \in Nat /\ Cra!Count(t) \in Nat /\ tried[t] \in Nat
      /\ Cra!First(t) + Cra!Count(t) = Cra!First(t + 1) /\ Head(tasks) \in Nat
      /\ totalhashcount \in Nat
  <2>1. t \in 1 .. Nthread + 1
    BY <1>2
  <2>2. Head(tasks) \in Nat
    BY <1>1, AnswerIsNumber DEF CrackInv
  <2>3. tried[t] \in Nat /\ totalhashcount \in Nat
    BY <1>2 DEF CrackInv, CrackTypeOK
  <2> QED
    BY <1>2, <2>1, <2>2, <2>3, PartsCoverSpace
<1>4. PartTried(t)
  BY <1>1, <1>2 DEF CrackInv
<1>5. CrackTypeOK'
  BY <1>1, <1>2, <1>3 DEF CrackInv, CrackTypeOK
<1>6. \A u \in Cra!Workers : PartTried(u)'
  BY <1>1 DEF CrackInv, PartTried, Cra!First, Cra!Count
<1>7. JoinedSoFar'
  <2>1. \A k : k \in 1 .. joined' <=> k = t \/ k \in 1 .. joined
    BY <1>1, <1>2
  <2>2. Cra!First(joined + 1)' = Cra!First(t + 1)
    BY <1>1 DEF Cra!First
  <2>3. totalhashcount' =< Cra!First(t + 1)
    BY <1>1, <1>3, <1>4 DEF CrackInv, JoinedSoFar, PartTried
  <2>4. JoinedSoFar /\ found' = found /\ UNCHANGED <<tasks, place, ender>>
    BY <1>1 DEF CrackInv
  <2>5. \A k \in 1 .. joined' : place'[k] = "done"
    BY <1>1, <2>1, <2>4 DEF JoinedSoFar
  <2>6. CASE ender[t] = NULL
    <3>1. result' = result /\ password' = password
      BY <1>1, <2>6
    <3>2. result' = 0 => /\ password' = Head(tasks)'
                         /\ \E k \in 1 .. joined' : ender'[k] # NULL
      BY <2>1, <2>4, <3>1 DEF JoinedSoFar
    <3>3. result' = 1 => \A k \in 1 .. joined' : ender'[k] = NULL
      BY <2>1, <2>4, <2>6, <3>1 DEF JoinedSoFar
    <3>4. result' = 1 /\ ~found' => /\ totalhashcount' = Cra!First(t + 1)
                                    /\ Head(tasks) >= Cra!First(t + 1)
      BY <1>1, <1>3, <1>4, <2>6 DEF CrackInv, JoinedSoFar, PartTried
    <3> QED
      BY <2>2, <2>3, <2>4, <2>5, <3>2, <3>3, <3>4 DEF JoinedSoFar
  <2>7. CASE ender[t] # NULL
    <3>1. /\ result' = 0 /\ password' = Head(tasks)'
          /\ \E k \in 1 .. joined' : ender'[k] # NULL
      BY <1>1, <1>4, <2>1, <2>4, <2>7 DEF PartTried
    <3>2. result' # 1
      BY <3>1
    <3> QED
      BY <2>2, <2>3, <2>5, <3>1, <3>2 DEF JoinedSoFar
  <2> QED
    BY <2>6, <2>7
<1> QED
  BY <1>1, <1>5, <1>6, <1>7 DEF CrackInv

LEMMA SummaryCrackInv == ASSUME CrackInv, Cra!Summary PROVE CrackInv'
<1>1. /\ main = "join" /\ joined = Nthread /\ main' \in {"undefined", "next"}
      /\ tasks' = Tail(tasks)
      /\ UNCHANGED <<found, place, tried, ender, joined, result, totalhashcount>>
  BY DEF Cra!Summary
<1>2. tasks' \in Seq(Answers)
  BY <1>1, HeadTailProperties DEF CrackInv, CrackTypeOK
<1>3. \A t \in Cra!Workers : place[t] = "done"
  BY <1>1 DEF CrackInv, JoinedSoFar, Cra!Workers
<1> QED
  BY <1>1, <1>2, <1>3 DEF CrackInv, CrackTypeOK

LEMMA CrackNext == CrackInv /\ [Cra!Next]_crackerVars => CrackInv'
<1> SUFFICES ASSUME CrackInv, [Cra!Next]_crackerVars PROVE CrackInv'
  OBVIOUS
<1>1. CASE UNCHANGED crackerVars
  BY <1>1 DEF crackerVars, CrackInv, CrackTypeOK, PartTried, JoinedSoFar, Cra!First, Cra!Count
<1> QED
  BY <1>1, StartCrackInv, JoinCrackInv, SummaryCrackInv, CheckCrackInv, HashCrackInv
  DEF Cra!Next

(* When all threads are joined, each has ended, and the first candidates   *)
(* that none of them tried come after the last one there is.               *)
LEMMA JoinedIsComplete == CrackInv => Cra!SearchComplete
<1> SUFFICES ASSUME CrackInv, main = "join", joined = Nthread
             PROVE  /\ result = 0 <=> Head(tasks) < Space
                    /\ result = 0 => password = Head(tasks)
                    /\ result = 1 => totalhashcount = Space
                    /\ totalhashcount =< Space
  BY DEF Cra!SearchComplete
<1>1. Head(tasks) \in Nat /\ Space \in Nat /\ Cra!First(joined + 1) = Space /\ result \in {0, 1}
  BY CrackerAssumption, PartsCoverSpace, AnswerIsNumber DEF CrackInv, CrackTypeOK
<1>2. ASSUME result = 1 PROVE ~found
  BY <1>2 DEF CrackInv, JoinedSoFar, Cra!Workers
<1>3. ASSUME result = 0 PROVE Head(tasks) < Space
  BY <1>3 DEF CrackInv, JoinedSoFar, PartTried, Cra!Workers
<1> QED
  BY <1>1, <1>2, <1>3 DEF CrackInv, JoinedSoFar

-----------------------------------------------------------------------------
(* libscheduler.c: the queue.                                              *)

\* No job in q goes before one that is in front of it.
InOrder(q, table) ==
    \A i, k \in 1 .. Len(q) : i < k => ~Sch!Before(table[q[k]], table[q[i]])

\* The jobs in q are those of which table has metadata, each once.
Queued(q, table) ==
    /\ q \in Seq(Jobs)
    /\ \A i, k \in 1 .. Len(q) : q[i] = q[k] => i = k
    /\ table \in [Jobs -> JobInfo \cup {NULL}]
    /\ \A i \in 1 .. Len(q) : table[q[i]] # NULL
    /\ InOrder(q, table)

(* The order of the comparers is a strict weak one.                        *)
LEMMA BeforeIsOrder ==
    ASSUME NEW a \in JobInfo, NEW b \in JobInfo, NEW c \in JobInfo
    PROVE  /\ ~Sch!Before(a, b) /\ ~Sch!Before(b, c) => ~Sch!Before(a, c)
           /\ Sch!Before(a, b) => ~Sch!Before(b, a)
<1>1. Sch!Rank(a) \in Int /\ Sch!Rank(b) \in Int /\ Sch!Rank(c) \in Int
  <2>1. ASSUME NEW i \in JobInfo PROVE Sch!Rank(i) \in Int
    <3>1. i.priority \in Priorities /\ i.remain_time \in Int /\ i.burst_time \in Int
      BY DEF JobInfo
    <3>2. i.priority \in Int
      BY <3>1, SchedulerAssumption
    <3> QED
      BY <3>1, <3>2 DEF Sch!Rank
  <2> QED
    BY <2>1
<1>2. a.arrival_time \in Int /\ b.arrival_time \in Int /\ c.arrival_time \in Int
  BY DEF JobInfo
<1> QED
  BY <1>1, <1>2 DEF Sch!Before

(* The priority queue puts a job where the order wants it.                 *)
LEMMA OfferProperties ==
    ASSUME NEW q, NEW table, Queued(q, table),
           NEW j \in Jobs, table[j] # NULL, \A i \in 1 .. Len(q) : q[i] # j
    PROVE  /\ Queued(Sch!priqueue_offer(q, j, table), table)
           /\ Sch!ToSet(Sch!priqueue_offer(q, j, table)) = Sch!ToSet(q) \cup {j}
<1> DEFINE behind == {i \in DOMAIN q : Sch!Before(table[j], table[q[i]])}
<1>0. q \in Seq(Jobs) /\ DOMAIN q = 1 .. Len(q) /\ Len(q) \in Nat
      /\ \A i \in 1 .. Len(q) : q[i] \in Jobs
  BY LenProperties, ElementOfSeq DEF Queued
<1>a. PICK p : p = IF behind = {} THEN Len(q) + 1 ELSE Sch!Min(behind)
  OBVIOUS
<1>1. /\ p \in 1 .. Len(q) + 1
      /\ \A i \in 1 .. Len(q) : i < p => ~Sch!Before(table[j], table[q[i]])
      /\ p =< Len(q) => Sch!Before(table[j], table[q[p]])
  <2>1. CASE behind = {}
    BY <1>0, <1>a, <2>1
  <2>2. CASE behind # {}
    <3>1. behind \in SUBSET Nat
      BY <1>0
    <3>2. PICK x \in behind : \A y \in behind : x =< y
      BY <2>2, <3>1, LeastExists
    <3>3. p \in behind /\ \A y \in behind : p =< y
      BY <1>a, <2>2, <3>2 DEF Sch!Min
    <3>4. \A i \in 1 .. Len(q) : i < p => i \notin behind
      <4> SUFFICES ASSUME NEW i \in 1 .. Len(q), i < p, i \in behind PROVE FALSE
        OBVIOUS
      <4>1. p =< i /\ p \in Nat
        BY <3>1, <3>3
      <4> QED
        BY <4>1
    <3> QED
      BY <1>0, <3>3, <3>4
  <2> QED
    BY <2>1, <2>2
<1>b. PICK r : r = Sch!InsertAt(q, p, j)
  OBVIOUS
<1>2. Sch!priqueue_offer(q, j, table) = r
  BY <1>a, <1>b DEF Sch!priqueue_offer
<1>3. /\ r \in Seq(Jobs) /\ Len(r) = Len(q) + 1
      /\ \A i \in 1 .. Len(q) + 1 :
           r[i] = IF i < p THEN q[i] ELSE IF i = p THEN j ELSE q[i - 1]
  <2>1. q \in Seq(Jobs) /\ p \in 1 .. Len(q) + 1
    BY <1>0, <1>1
  <2> HIDE DEF behind
  <2> QED
    <3>1. InsertedAt(Jobs, Sch!InsertAt(q, p, j), q, p, j)
      <4>1. Sch!InsertAt(q, p, j) = Contract!InsertAt(q, p, j)
        BY DEF Sch!InsertAt, Contract!InsertAt
      <4>2. InsertedAt(Jobs, Contract!InsertAt(q, p, j), q, p, j)
        BY ONLY <2>1, j \in Jobs, InsertAtProperties, Zenon
      <4> QED
        BY <4>1, <4>2, Zenon
    <3>2. InsertedAt(Jobs, r, q, p, j)
      BY ONLY <1>b, <3>1, Zenon
    <3> QED
      BY <3>2, Zenon DEF InsertedAt
<1>4. Sch!ToSet(r) = Sch!ToSet(q) \cup {j}
  <2>1. DOMAIN r = 1 .. Len(q) + 1
    BY <1>3, LenProperties
  <2>2. ASSUME NEW i \in 1 .. Len(q) + 1 PROVE r[i] \in Sch!ToSet(q) \cup {j}
    <3>1. i < p \/ i = p \/ (i > p /\ i - 1 \in 1 .. Len(q))
      BY <1>0, <1>1
    <3>2. i < p => i \in 1 .. Len(q)
      BY <1>0, <1>1
    <3> QED
      BY <1>0, <1>1, <1>3, <3>1, <3>2 DEF Sch!ToSet
  <2>3. ASSUME NEW i \in 1 .. Len(q) PROVE \E k \in 1 .. Len(q) + 1 : r[k] = q[i]
    <3>1. CASE i < p
      BY <1>0, <1>1, <1>3, <3>1
    <3>2. CASE i >= p
      <4>1. i + 1 \in 1 .. Len(q) + 1 /\ ~(i + 1 < p) /\ i + 1 # p /\ (i + 1) - 1 = i
        BY <1>0, <1>1, <3>2
      <4> QED
        BY <1>3, <4>1
    <3> QED
      BY <1>0, <1>1, <3>1, <3>2
  <2>4. r[p] = j
    BY <1>1, <1>3
  <2>5. ASSUME NEW e PROVE e \in Sch!ToSet(r) => e \in Sch!ToSet(q) \cup {j}
    BY <2>1, <2>2 DEF Sch!ToSet
  <2>6. ASSUME NEW e PROVE e \in Sch!ToSet(q) => e \in Sch!ToSet(r)
    BY <1>0, <2>1, <2>3 DEF Sch!ToSet
  <2>7. j \in Sch!ToSet(r)
    BY <1>1, <2>1, <2>4 DEF Sch!ToSet
  <2> QED
    BY <2>5, <2>6, <2>7
<1>5. \A i, k \in 1 .. Len(r) : r[i] = r[k] => i = k
  <2> SUFFICES ASSUME NEW i \in 1 .. Len(q) + 1, NEW k \in 1 .. Len(q) + 1, i < k, r[i] = r[k]
               PROVE  FALSE
    BY <1>0, <1>3
  <2>1. CASE k < p
    BY <1>0, <1>1, <1>3, <2>1 DEF Queued
  <2>2. CASE k = p
    <3>1. r[i] = q[i] /\ i \in 1 .. Len(q) /\ r[k] = j
      BY <1>0, <1>1, <1>3, <2>2
    <3> QED
      BY <3>1
  <2>3. CASE k > p
    <3>1. r[k] = q[k - 1] /\ k - 1 \in 1 .. Len(q)
      BY <1>0, <1>1, <1>3, <2>3
    <3>2. CASE i < p
      <4>1. r[i] = q[i] /\ i \in 1 .. Len(q)
        BY <1>0, <1>1, <1>3, <3>2
      <4>2. i # k - 1
        BY <1>0, <1>1, <2>3, <3>2
      <4> QED
        BY <3>1, <4>1, <4>2 DEF Queued
    <3>3. CASE i = p
      BY <1>1, <1>3, <3>1, <3>3
    <3>4. CASE i > p
      <4>1. r[i] = q[i - 1] /\ i - 1 \in 1 .. Len(q)
        BY <1>0, <1>1, <1>3, <3>4
      <4>2. i - 1 # k - 1
        OBVIOUS
      <4> QED
        BY <3>1, <4>1, <4>2 DEF Queued
    <3> QED
      BY <1>0, <1>1, <3>2, <3>3, <3>4
  <2> QED
    BY <1>0, <1>1, <2>1, <2>2, <2>3
<1>6. \A i \in 1 .. Len(q) : table[q[i]] \in JobInfo
  BY <1>0 DEF Queued
<1>7. table[j] \in JobInfo
  BY DEF Queued
<1>8. InOrder(r, table)
  <2> SUFFICES ASSUME NEW i \in 1 .. Len(q) + 1, NEW k \in 1 .. Len(q) + 1, i < k
               PROVE  ~Sch!Before(table[r[k]], table[r[i]])
    BY <1>3 DEF InOrder
  <2>1. CASE k < p
    <3>1. r[i] = q[i] /\ r[k] = q[k] /\ i \in 1 .. Len(q) /\ k \in 1 .. Len(q)
      BY <1>0, <1>1, <1>3, <2>1
    <3> QED
      BY <3>1 DEF Queued, InOrder
  <2>2. CASE k = p
    <3>1. r[i] = q[i] /\ r[k] = j /\ i \in 1 .. Len(q)
      BY <1>0, <1>1, <1>3, <2>2
    <3> QED
      BY <1>1, <2>2, <3>1
  <2>3. CASE k > p
    <3>1. r[k] = q[k - 1] /\ k - 1 \in 1 .. Len(q)
      BY <1>0, <1>1, <1>3, <2>3
    <3>2. CASE i < p
      <4>1. r[i] = q[i] /\ i \in 1 .. Len(q) /\ i < k - 1
        BY <1>0, <1>1, <1>3, <2>3, <3>2
      <4> QED
        BY <3>1, <4>1 DEF Queued, InOrder
    <3>3. CASE i = p
      <4>1. r[i] = j /\ p \in 1 .. Len(q) /\ p =< k - 1
        BY <1>0, <1>1, <1>3, <2>3, <3>3
      <4>2. ~Sch!Before(table[q[p]], table[j])
        BY <1>1, <1>6, <1>7, <4>1, BeforeIsOrder
      <4>3. p = k - 1 \/ ~Sch!Before(table[q[k - 1]], table[q[p]])
        BY <3>1, <4>1 DEF Queued, InOrder
      <4> QED
        BY <1>6, <1>7, <3>1, <4>1, <4>2, <4>3, BeforeIsOrder
    <3>4. CASE i > p
      <4>1. r[i] = q[i - 1] /\ i - 1 \in 1 .. Len(q) /\ i - 1 < k - 1
        BY <1>0, <1>1, <1>3, <3>4
      <4> QED
        BY <3>1, <4>1 DEF Queued, InOrder
    <3> QED
      BY <1>0, <1>1, <3>2, <3>3, <3>4
  <2> QED
    BY <1>0, <1>1, <2>1, <2>2, <2>3
<1>9. \A i \in 1 .. Len(r) : table[r[i]] # NULL
  <2>1. Sch!ToSet(q) \cup {j} \subseteq {e \in Jobs : table[e] # NULL}
    BY <1>0 DEF Queued, Sch!ToSet
  <2>2. \A i \in 1 .. Len(r) : r[i] \in Sch!ToSet(r)
    BY <1>3, LenProperties DEF Sch!ToSet
  <2> QED
    BY <1>4, <2>1, <2>2
<1> QED
  BY <1>2, <1>3, <1>4, <1>5, <1>8, <1>9 DEF Queued

-----------------------------------------------------------------------------
(* libscheduler.c: the jobs.                                               *)

\* What the metadata i of job j say of its past.
Past(i, j) ==
    /\ time - i.arrival_time = waited[j] + ran[j]
    /\ ran[j] =< i.burst_time
    /\ IF i.start_time = -1 THEN ran[j] = 0 /\ answered[j] = waited[j]
       ELSE ran[j] > 0 /\ i.start_time - i.arrival_time = answered[j]

Waits(i, j) == /\ Past(i, j)
               /\ i.remain_time = i.burst_time - ran[j] /\ ran[j] < i.burst_time
               /\ scheme \notin Sch!Preemptive => ran[j] = 0

Runs(i, j) == /\ Past(i, j)
              /\ ran[j] > 0
              /\ i.remain_time - (time - i.last_start_time) = i.burst_time - ran[j]
              /\ scheme \notin Sch!Preemptive => time - i.start_time = ran[j]

InQueue(j) == \E i \in 1 .. Len(pqueue) : pqueue[i] = j

RunningOK == running # NULL => /\ info[running] # NULL /\ ~InQueue(running)
                               /\ Runs(info[running], running)

WaitingOK == \A j \in Jobs : info[j] # NULL /\ j # running =>
                               InQueue(j) /\ Waits(info[j], j)

AbsentOK == \A j \in Jobs :
              /\ j \in finished => info[j] = NULL
              /\ j \notin finished /\ info[j] = NULL =>
                   ran[j] = 0 /\ waited[j] = 0 /\ answered[j] = 0

ClockOK == /\ time \in Nat
           /\ ran \in [Jobs -> Nat] /\ waited \in [Jobs -> Nat] /\ answered \in [Jobs -> Nat]

StatsOK == /\ waiting_time = Sch!Total(waited) /\ response_time = Sch!Total(answered)
           /\ turnaround_time = Sch!Total(waited) + Sch!Total(ran)
           /\ IsFiniteSet(Sch!Units(finished, waited)) /\ IsFiniteSet(Sch!Units(finished, answered))
           /\ IsFiniteSet(Sch!Units(finished, ran))

SchedInv == /\ ClockOK /\ finished \in SUBSET Jobs /\ running \in Jobs \cup {NULL}
            /\ Queued(pqueue, info)
            /\ RunningOK /\ WaitingOK /\ AbsentOK /\ StatsOK

\* The next job is taken from q; table has the metadata of those in q.
Takes(q, table) ==
    IF q = <<>> THEN running' = NULL /\ pqueue' = <<>> /\ info' = table
    ELSE /\ running' = Head(q) /\ pqueue' = Tail(q)
         /\ info' = [table EXCEPT ![Head(q)] = Sch!Started(@)]

\* A unit of time passes.
Passes ==
    /\ time' = time + 1
    /\ ran' = [j \in Jobs |-> IF j = running' THEN ran[j] + 1 ELSE ran[j]]
    /\ waited' = [j \in Jobs |-> IF j \in Sch!ToSet(pqueue') THEN waited[j] + 1 ELSE waited[j]]
    /\ answered' = [j \in Jobs |-> IF j \in Sch!ToSet(pqueue') /\ ran[j] = 0
                                   THEN answered[j] + 1 ELSE answered[j]]
    /\ UNCHANGED scheme

LEMMA PassesClock == ASSUME ClockOK, Passes PROVE ClockOK'
BY DEF ClockOK, Passes

LEMMA StartedFields ==
    ASSUME NEW i \in JobInfo, time \in Nat
    PROVE  /\ Sch!Started(i) \in JobInfo
           /\ Sch!Started(i).arrival_time = i.arrival_time
           /\ Sch!Started(i).burst_time = i.burst_time
           /\ Sch!Started(i).remain_time = i.remain_time
           /\ Sch!Started(i).priority = i.priority
           /\ Sch!Started(i).last_start_time = time
           /\ Sch!Started(i).start_time = IF i.start_time = -1 THEN time ELSE i.start_time
<1>1. Sch!Started(i) = [arrival_time |-> i.arrival_time, burst_time |-> i.burst_time,
                        remain_time |-> i.remain_time,
                        start_time |-> IF i.start_time = -1 THEN time ELSE i.start_time,
                        last_start_time |-> time, priority |-> i.priority]
  <2>1. i = [arrival_time |-> i.arrival_time, burst_time |-> i.burst_time,
             remain_time |-> i.remain_time, start_time |-> i.start_time,
             last_start_time |-> i.last_start_time, priority |-> i.priority]
    BY DEF JobInfo
  <2>2. PICK m : m = IF i.start_time = -1 THEN time ELSE i.start_time
    OBVIOUS
  <2>3. Sch!Started(i) = [[i EXCEPT !.start_time = m] EXCEPT !.last_start_time = time]
    BY <2>2 DEF Sch!Started
  <2> QED
    BY <2>1, <2>2, <2>3
<1> QED
  BY <1>1 DEF JobInfo

(* A job that goes on waiting, and one that goes on running, for one unit. *)
LEMMA UnitOfWaiting ==
    ASSUME ClockOK, Passes, NEW j \in Jobs, NEW i \in JobInfo, Waits(i, j),
           j # running', j \in Sch!ToSet(pqueue')
    PROVE  /\ time' - i.arrival_time = waited'[j] + ran'[j]
           /\ Waits(i, j)'
<1>1. /\ ran'[j] = ran[j] /\ waited'[j] = waited[j] + 1
      /\ answered'[j] = IF ran[j] = 0 THEN answered[j] + 1 ELSE answered[j]
      /\ time' = time + 1 /\ scheme' = scheme
  BY DEF Passes
<1>2. /\ time \in Nat /\ ran[j] \in Nat /\ waited[j] \in Nat /\ answered[j] \in Nat
      /\ i.arrival_time \in Int /\ i.burst_time \in Int /\ i.start_time \in Int
      /\ i.remain_time \in Int
  BY DEF ClockOK, JobInfo
<1> QED
  BY <1>1, <1>2 DEF Waits, Past, Sch!Preemptive

LEMMA UnitOfRunning ==
    ASSUME ClockOK, Passes, NEW j \in Jobs, NEW i \in JobInfo,
           j = running', j \notin Sch!ToSet(pqueue'), Runs(i, j), ran[j] < i.burst_time
    PROVE  Runs(i, j)'
<1>1. /\ ran'[j] = ran[j] + 1 /\ waited'[j] = waited[j] /\ answered'[j] = answered[j]
      /\ time' = time + 1 /\ scheme' = scheme
  BY DEF Passes
<1>2. /\ time \in Nat /\ ran[j] \in Nat /\ waited[j] \in Nat /\ answered[j] \in Nat
      /\ i.arrival_time \in Int /\ i.burst_time \in Int /\ i.start_time \in Int
      /\ i.remain_time \in Int /\ i.last_start_time \in Int
  BY DEF ClockOK, JobInfo
<1> QED
  BY <1>1, <1>2 DEF Runs, Past, Sch!Preemptive

LEMMA FirstUnit ==
    ASSUME ClockOK, Passes, NEW j \in Jobs, NEW i \in JobInfo,
           j = running', j \notin Sch!ToSet(pqueue'), Waits(i, j),
           NEW s \in JobInfo, s = Sch!Started(i)
    PROVE  Runs(s, j)'
<1>1. /\ ran'[j] = ran[j] + 1 /\ waited'[j] = waited[j] /\ answered'[j] = answered[j]
      /\ time' = time + 1 /\ scheme' = scheme
  BY DEF Passes
<1>2. /\ time \in Nat /\ ran[j] \in Nat /\ waited[j] \in Nat /\ answered[j] \in Nat
      /\ i.arrival_time \in Nat /\ i.burst_time \in Int /\ i.start_time \in Int
      /\ i.remain_time \in Int /\ i.last_start_time \in Int
  BY DEF ClockOK, JobInfo
<1>3. /\ s.arrival_time = i.arrival_time /\ s.burst_time = i.burst_time
      /\ s.remain_time = i.remain_time /\ s.last_start_time = time
      /\ s.start_time = IF i.start_time = -1 THEN time ELSE i.start_time
  BY <1>2, StartedFields
<1>4. time - i.arrival_time = waited[j] + ran[j] /\ ran[j] < i.burst_time
      /\ i.remain_time = i.burst_time - ran[j]
      /\ (scheme \notin Sch!Preemptive => ran[j] = 0)
      /\ (i.start_time = -1 => ran[j] = 0 /\ answered[j] = waited[j])
      /\ (i.start_time # -1 => ran[j] > 0 /\ i.start_time - i.arrival_time = answered[j])
  BY DEF Waits, Past
<1>5. s.start_time # -1 /\ s.start_time - s.arrival_time = answered[j]
  BY <1>2, <1>3, <1>4
<1>6. Past(s, j)'
  BY <1>1, <1>2, <1>3, <1>4, <1>5 DEF Past
<1>7. scheme \notin Sch!Preemptive => time' - s.start_time = ran'[j]
  BY <1>1, <1>2, <1>3, <1>4
<1> QED
  BY <1>1, <1>2, <1>3, <1>4, <1>6, <1>7 DEF Runs, Sch!Preemptive

LEMMA QueuedLater ==
    ASSUME scheme' = scheme, Queued(pqueue', info')
    PROVE  Queued(pqueue, info)'
BY DEF Queued, InOrder, Sch!Before, Sch!Rank

(* The head of the queue is taken, and it is the best.                     *)
LEMMA TakeFirst ==
    ASSUME NEW q, NEW table, Queued(q, table), q # <<>>, Takes(q, table), time \in Nat
    PROVE  /\ running' = q[1] /\ q[1] \in Jobs /\ table[q[1]] \in JobInfo
           /\ info'[q[1]] = Sch!Started(table[q[1]])
           /\ \A j \in Jobs : j # q[1] => info'[j] = table[j]
           /\ Queued(pqueue', info')
           /\ Len(pqueue') = Len(q) - 1
           /\ \A i \in 1 .. Len(pqueue') : pqueue'[i] = q[i + 1] /\ pqueue'[i] # q[1]
           /\ \A i \in 1 .. Len(pqueue') : ~Sch!Before(info'[pqueue'[i]], info'[q[1]])
<1>0. /\ q \in Seq(Jobs) /\ Len(q) \in Nat /\ Len(q) > 0 /\ \A i \in 1 .. Len(q) : q[i] \in Jobs
      /\ table \in [Jobs -> JobInfo \cup {NULL}]
  BY LenProperties, ElementOfSeq, EmptySeq DEF Queued
<1>1. /\ running' = q[1] /\ pqueue' = Tail(q)
      /\ info' = [table EXCEPT ![q[1]] = Sch!Started(table[q[1]])]
  BY <1>0 DEF Takes
<1>2. /\ pqueue' \in Seq(Jobs) /\ Len(pqueue') = Len(q) - 1
      /\ \A i \in 1 .. Len(pqueue') : pqueue'[i] = q[i + 1]
  BY <1>0, <1>1, HeadTailProperties
<1>3. q[1] \in Jobs /\ table[q[1]] \in JobInfo /\ 1 \in 1 .. Len(q)
  BY <1>0 DEF Queued
<1>4. /\ Sch!Started(table[q[1]]) \in JobInfo
      /\ Sch!Rank(Sch!Started(table[q[1]])) = Sch!Rank(table[q[1]])
      /\ Sch!Started(table[q[1]]).arrival_time = table[q[1]].arrival_time
  <2>1. PICK i \in JobInfo : i = table[q[1]]
    BY <1>3
  <2> QED
    BY <2>1, StartedFields DEF Sch!Rank
<1>5. /\ info'[q[1]] = Sch!Started(table[q[1]])
      /\ \A j \in Jobs : j # q[1] => info'[j] = table[j]
      /\ info' \in [Jobs -> JobInfo \cup {NULL}]
  BY <1>0, <1>1, <1>3, <1>4
<1>6. ASSUME NEW i \in 1 .. Len(pqueue')
      PROVE  i + 1 \in 1 .. Len(q) /\ pqueue'[i] = q[i + 1] /\ q[i + 1] # q[1]
             /\ info'[pqueue'[i]] = table[q[i + 1]]
  <2>1. i + 1 \in 1 .. Len(q) /\ i + 1 # 1
    BY <1>0, <1>2
  <2>2. q[i + 1] # q[1] /\ q[i + 1] \in Jobs
    BY <1>0, <1>3, <2>1 DEF Queued
  <2> QED
    BY <1>2, <1>5, <2>1, <2>2
<1>7. \A i, k \in 1 .. Len(pqueue') : pqueue'[i] = pqueue'[k] => i = k
  <2> SUFFICES ASSUME NEW i \in 1 .. Len(pqueue'), NEW k \in 1 .. Len(pqueue'),
                      pqueue'[i] = pqueue'[k]
               PROVE  i = k
    OBVIOUS
  <2>1. i + 1 = k + 1
    BY <1>6 DEF Queued
  <2> QED
    BY <2>1
<1>8. InOrder(pqueue', info')
  <2> SUFFICES ASSUME NEW i \in 1 .. Len(pqueue'), NEW k \in 1 .. Len(pqueue'), i < k
               PROVE  ~Sch!Before(info'[pqueue'[k]], info'[pqueue'[i]])
    BY DEF InOrder
  <2>1. i + 1 < k + 1 /\ i + 1 \in 1 .. Len(q) /\ k + 1 \in 1 .. Len(q)
    BY <1>6
  <2> QED
    BY <1>6, <2>1 DEF Queued, InOrder
<1>9. ASSUME NEW i \in 1 .. Len(pqueue') PROVE ~Sch!Before(info'[pqueue'[i]], info'[q[1]])
  <2>1. ~Sch!Before(table[q[i + 1]], table[q[1]])
    <3>1. 1 < i + 1 /\ i + 1 \in 1 .. Len(q)
      BY <1>6
    <3> QED
      BY <1>3, <3>1 DEF Queued, InOrder
  <2> QED
    BY <1>4, <1>5, <1>6, <2>1 DEF Sch!Before
<1>10. \A i \in 1 .. Len(pqueue') : info'[pqueue'[i]] # NULL
  BY <1>6 DEF Queued
<1>11. Queued(pqueue', info')
  BY <1>2, <1>5, <1>7, <1>8, <1>10 DEF Queued
<1> QED
  BY <1>1, <1>2, <1>3, <1>5, <1>6, <1>9, <1>11

(* After a job was taken and a unit has passed, those that run and wait    *)
(* are in order, and nothing was changed for the others.                   *)
LEMMA TakeKeeps ==
    ASSUME ClockOK, Passes, NEW q, NEW table, Queued(q, table), Takes(q, table),
           \A j \in Jobs : table[j] # NULL =>
                             (\E i \in 1 .. Len(q) : q[i] = j) /\ Waits(table[j], j)
    PROVE  /\ Queued(pqueue, info)' /\ running' \in Jobs \cup {NULL}
           /\ RunningOK' /\ WaitingOK'
           /\ \A j \in Jobs : /\ info'[j] = NULL <=> table[j] = NULL
                              /\ table[j] = NULL => /\ ran'[j] = ran[j]
                                                    /\ waited'[j] = waited[j]
                                                    /\ answered'[j] = answered[j]
           /\ running' # NULL => \A i \in 1 .. Len(pqueue') :
                                   ~Sch!Before(info'[pqueue'[i]], info'[running'])
<1> USE SchedulerAssumption
<1>0. scheme' = scheme /\ time \in Nat
  BY DEF Passes, ClockOK
<1>1. ASSUME NEW j \in Jobs, running' # j, \A i \in 1 .. Len(pqueue') : pqueue'[i] # j,
             DOMAIN pqueue' = 1 .. Len(pqueue')
      PROVE  ran'[j] = ran[j] /\ waited'[j] = waited[j] /\ answered'[j] = answered[j]
  BY <1>1 DEF Passes, Sch!ToSet
<1>2. CASE q = <<>>
  <2>1. running' = NULL /\ pqueue' = <<>> /\ info' = table /\ Len(q) = 0
    BY <1>2 DEF Takes
  <2>2. \A j \in Jobs : table[j] = NULL
    BY <2>1
  <2>3. Queued(pqueue', info')
    BY <1>2, <2>1
  <2>4. RunningOK' /\ WaitingOK'
    BY <2>1, <2>2 DEF RunningOK, WaitingOK
  <2>5. \A j \in Jobs : ran'[j] = ran[j] /\ waited'[j] = waited[j] /\ answered'[j] = answered[j]
    BY <1>1, <2>1
  <2> QED
    BY <1>0, <2>1, <2>2, <2>3, <2>4, <2>5, QueuedLater
<1>3. CASE q # <<>>
  <2>1. /\ running' = q[1] /\ q[1] \in Jobs /\ table[q[1]] \in JobInfo
        /\ info'[q[1]] = Sch!Started(table[q[1]])
        /\ \A j \in Jobs : j # q[1] => info'[j] = table[j]
        /\ Queued(pqueue', info')
        /\ Len(pqueue') = Len(q) - 1
        /\ \A i \in 1 .. Len(pqueue') : pqueue'[i] = q[i + 1] /\ pqueue'[i] # q[1]
        /\ \A i \in 1 .. Len(pqueue') : ~Sch!Before(info'[pqueue'[i]], info'[q[1]])
    BY <1>0, <1>3, TakeFirst
  <2>2. /\ DOMAIN pqueue' = 1 .. Len(pqueue') /\ Len(pqueue') \in Nat /\ Len(q) \in Nat
        /\ table \in [Jobs -> JobInfo \cup {NULL}]
        /\ \A i \in 1 .. Len(pqueue') : pqueue'[i] \in Jobs
    BY <2>1, LenProperties, ElementOfSeq DEF Queued
  <2>3. q[1] \notin Sch!ToSet(pqueue')
    BY <2>1, <2>2 DEF Sch!ToSet
  <2>4. Waits(table[q[1]], q[1])
    BY <2>1
  <2>5. PICK i \in JobInfo : i = table[q[1]]
    BY <2>1
  <2>6. PICK s \in JobInfo : s = Sch!Started(i)
    BY <1>0, <2>5, StartedFields
  <2>7. PICK h \in Jobs : h = q[1]
    BY <2>1
  <2>8. Runs(s, h)'
    BY <2>1, <2>3, <2>4, <2>5, <2>6, <2>7, FirstUnit
  <2>9. RunningOK'
    <3>1. running' = h /\ info'[h] = s
      BY <2>1, <2>5, <2>6, <2>7
    <3>2. ~InQueue(running)'
      BY <2>1, <2>7 DEF InQueue
    <3>3. Runs(info[running], running)'
      BY <2>8, <3>1 DEF Runs, Past
    <3> QED
      BY <3>1, <3>2, <3>3 DEF RunningOK
  <2>10. ASSUME NEW j \in Jobs, info'[j] # NULL, j # running'
         PROVE  InQueue(j)' /\ Waits(info[j], j)'
    <3>1. table[j] # NULL /\ info'[j] = table[j] /\ j # q[1]
      BY <2>1, <2>10
    <3>2. PICK k \in 1 .. Len(q) : q[k] = j
      BY <3>1
    <3>3. k - 1 \in 1 .. Len(pqueue') /\ (k - 1) + 1 = k
      BY <2>1, <2>2, <3>1, <3>2
    <3>4. pqueue'[k - 1] = j
      BY <2>1, <3>2, <3>3
    <3>5. j \in Sch!ToSet(pqueue')
      BY <2>2, <3>3, <3>4 DEF Sch!ToSet
    <3>6. PICK r \in JobInfo : r = table[j]
      BY <2>2, <3>1
    <3>7. Waits(r, j)'
      BY <2>10, <3>1, <3>5, <3>6, UnitOfWaiting
    <3>8. Waits(info[j], j)'
      BY <3>1, <3>6, <3>7 DEF Waits, Past
    <3> QED
      BY <3>3, <3>4, <3>8 DEF InQueue
  <2>11. ASSUME NEW j \in Jobs
         PROVE  /\ info'[j] = NULL <=> table[j] = NULL
                /\ table[j] = NULL => /\ ran'[j] = ran[j]
                                      /\ waited'[j] = waited[j]
                                      /\ answered'[j] = answered[j]
    <3>1. CASE j = q[1]
      BY <2>1, <2>5, <2>6, <3>1
    <3>2. CASE j # q[1]
      <4>1. info'[j] = table[j]
        BY <2>1, <3>2
      <4>2. table[j] = NULL => \A k \in 1 .. Len(pqueue') : pqueue'[k] # j
        BY <2>1, <2>2, <4>1 DEF Queued
      <4> QED
        BY <1>1, <2>1, <2>2, <3>2, <4>1, <4>2
    <3> QED
      BY <3>1, <3>2
  <2> QED
    BY <1>0, <2>1, <2>9, <2>10, <2>11, QueuedLater DEF WaitingOK
<1> QED
  BY <1>2, <1>3

-----------------------------------------------------------------------------
(* libscheduler.c: the statistics.                                         *)

(* One more job adds its time to the sum.                                  *)
LEMMA TotalGrows ==
    ASSUME NEW F, NEW j, j \notin F, NEW f, NEW g, \A k \in F : g[k] = f[k], g[j] \in Nat,
           IsFiniteSet(Sch!Units(F, f))
    PROVE  /\ IsFiniteSet(Sch!Units(F \cup {j}, g))
           /\ Cardinality(Sch!Units(F \cup {j}, g)) = Cardinality(Sch!Units(F, f)) + g[j]
<1> DEFINE new == {j} \X (1 .. g[j])
<1>1. Sch!Units(F \cup {j}, g) = Sch!Units(F, f) \cup new
  <2>1. ASSUME NEW e, e \in Sch!Units(F \cup {j}, g) PROVE e \in Sch!Units(F, f) \cup new
    <3>1. PICK k \in F \cup {j} : e \in {k} \X (1 .. g[k])
      BY <2>1 DEF Sch!Units
    <3>2. CASE k = j
      BY <3>1, <3>2
    <3>3. CASE k # j
      <4>1. k \in F /\ e \in {k} \X (1 .. f[k])
        BY <3>1, <3>3
      <4> QED
        BY <4>1 DEF Sch!Units
    <3> QED
      BY <3>2, <3>3
  <2>2. ASSUME NEW e, e \in Sch!Units(F, f) PROVE e \in Sch!Units(F \cup {j}, g)
    <3>1. PICK k \in F : e \in {k} \X (1 .. f[k])
      BY <2>2 DEF Sch!Units
    <3>2. k \in F \cup {j} /\ e \in {k} \X (1 .. g[k])
      BY <3>1
    <3> QED
      BY <3>2 DEF Sch!Units
  <2>3. new \subseteq Sch!Units(F \cup {j}, g)
    BY DEF Sch!Units
  <2> QED
    BY <2>1, <2>2, <2>3
<1>2. Sch!Units(F, f) \cap new = {}
  BY DEF Sch!Units
<1>3. IsFiniteSet(new) /\ Cardinality(new) = g[j]
  <2>1. IsFiniteSet({j}) /\ Cardinality({j}) = 1
    BY FS_Singleton
  <2>2. IsFiniteSet(1 .. g[j]) /\ Cardinality(1 .. g[j]) = g[j]
    <3>1. PICK n \in Nat : n = g[j]
      OBVIOUS
    <3>2. 1 \in Int /\ n \in Int
      OBVIOUS
    <3>3. IsFiniteSet(1 .. n) /\ Cardinality(1 .. n) = IF 1 > n THEN 0 ELSE n - 1 + 1
      BY ONLY <3>2, FS_Interval
    <3>4. Cardinality(1 .. n) = n
      BY ONLY <3>3
    <3> QED
      BY <3>1, <3>3, <3>4, Zenon
  <2>3. IsFiniteSet(new) /\ Cardinality(new) = Cardinality({j}) * Cardinality(1 .. g[j])
    BY <2>1, <2>2, FS_Product
  <2> QED
    BY <2>1, <2>2, <2>3
<1> HIDE DEF new
<1>4. Cardinality({}) = 0
  BY FS_EmptySet
<1>5. Cardinality(Sch!Units(F, f)) \in Nat
  BY FS_CardinalityType
<1>6. /\ IsFiniteSet(Sch!Units(F, f) \cup new)
      /\ Cardinality(Sch!Units(F, f) \cup new)
           = Cardinality(Sch!Units(F, f)) + Cardinality(new) - Cardinality(Sch!Units(F, f) \cap new)
  BY <1>3, FS_Union
<1>7. Cardinality(Sch!Units(F, f) \cap new) = 0
  BY <1>2, <1>4
<1>8. /\ IsFiniteSet(Sch!Units(F \cup {j}, g))
      /\ Cardinality(Sch!Units(F \cup {j}, g))
           = Cardinality(Sch!Units(F, f)) + Cardinality(new) - Cardinality(Sch!Units(F, f) \cap new)
  BY ONLY <1>1, <1>6, Zenon
<1> QED
  BY <1>3, <1>5, <1>7, <1>8

LEMMA TotalStays ==
    ASSUME NEW F, NEW f, NEW g, \A k \in F : g[k] = f[k]
    PROVE  Sch!Units(F, g) = Sch!Units(F, f)
<1>1. {{j} \X (1 .. g[j]) : j \in F} = {{j} \X (1 .. f[j]) : j \in F}
  OBVIOUS
<1> QED
  BY <1>1 DEF Sch!Units

LEMMA SameCardinality == \A S : Sch!Cardinality(S) = Cardinality(S)
BY DEF Sch!Cardinality, Cardinality

LEMMA StatsStay ==
    ASSUME StatsOK, UNCHANGED <<finished, waiting_time, turnaround_time, response_time>>,
           \A k \in finished : /\ ran'[k] = ran[k] /\ waited'[k] = waited[k]
                               /\ answered'[k] = answered[k]
    PROVE  StatsOK'
<1>1. PICK F : F = finished
  OBVIOUS
<1>2. PICK r, r1, w, w1, a, a1 : /\ r = ran /\ r1 = ran' /\ w = waited /\ w1 = waited'
                                 /\ a = answered /\ a1 = answered'
  OBVIOUS
<1>3. /\ Sch!Units(F, r1) = Sch!Units(F, r) /\ Sch!Units(F, w1) = Sch!Units(F, w)
      /\ Sch!Units(F, a1) = Sch!Units(F, a)
  BY <1>1, <1>2, TotalStays
<1> QED
  BY <1>1, <1>2, <1>3 DEF StatsOK, Sch!Total

(* The statistics take in the job that is finished.                        *)
LEMMA StatsGrow ==
    ASSUME StatsOK, ClockOK, ClockOK', NEW j \in Jobs, j \notin finished, finished \in SUBSET Jobs,
           NEW i \in JobInfo, i = info[j], Past(i, j), ran[j] = i.burst_time,
           Sch!scheduler_job_finished(j),
           \A k \in finished \cup {j} : /\ ran'[k] = ran[k] /\ waited'[k] = waited[k]
                                        /\ answered'[k] = answered[k]
    PROVE  StatsOK'
<1>1. PICK F : F = finished
  OBVIOUS
<1>2. PICK r, r1, w, w1, a, a1 : /\ r = ran /\ r1 = ran' /\ w = waited /\ w1 = waited'
                                 /\ a = answered /\ a1 = answered'
  OBVIOUS
<1>3. /\ r1[j] = r[j] /\ r[j] \in Nat /\ w1[j] = w[j] /\ w[j] \in Nat
      /\ a1[j] = a[j] /\ a[j] \in Nat /\ time \in Nat
      /\ i.arrival_time \in Int /\ i.burst_time \in Int /\ i.burst_time > 0 /\ i.start_time \in Int
  <2>1. i.arrival_time \in Int /\ i.burst_time \in Int /\ i.burst_time > 0 /\ i.start_time \in Int
    BY DEF JobInfo
  <2>2. /\ ran'[j] = ran[j] /\ waited'[j] = waited[j] /\ answered'[j] = answered[j]
        /\ ran[j] \in Nat /\ waited[j] \in Nat /\ answered[j] \in Nat /\ time \in Nat
    BY DEF ClockOK
  <2> QED
    BY <1>2, <2>1, <2>2
<1>4. /\ waiting_time' = waiting_time + time - i.arrival_time - i.burst_time
      /\ turnaround_time' = turnaround_time + time - i.arrival_time
      /\ response_time' = response_time + i.start_time - i.arrival_time
      /\ finished' = F \cup {j}
  BY <1>1 DEF Sch!scheduler_job_finished
<1>5. /\ IsFiniteSet(Sch!Units(F, r)) /\ IsFiniteSet(Sch!Units(F, w)) /\ IsFiniteSet(Sch!Units(F, a))
      /\ waiting_time = Cardinality(Sch!Units(F, w)) /\ response_time = Cardinality(Sch!Units(F, a))
      /\ turnaround_time = Cardinality(Sch!Units(F, w)) + Cardinality(Sch!Units(F, r))
  BY <1>1, <1>2, SameCardinality DEF StatsOK, Sch!Total
<1>6. /\ IsFiniteSet(Sch!Units(F \cup {j}, r1))
      /\ Cardinality(Sch!Units(F \cup {j}, r1)) = Cardinality(Sch!Units(F, r)) + r[j]
      /\ IsFiniteSet(Sch!Units(F \cup {j}, w1))
      /\ Cardinality(Sch!Units(F \cup {j}, w1)) = Cardinality(Sch!Units(F, w)) + w[j]
      /\ IsFiniteSet(Sch!Units(F \cup {j}, a1))
      /\ Cardinality(Sch!Units(F \cup {j}, a1)) = Cardinality(Sch!Units(F, a)) + a[j]
  <2>1. j \notin F /\ \A k \in F : r1[k] = r[k] /\ w1[k] = w[k] /\ a1[k] = a[k]
    BY <1>1, <1>2
  <2>2. \A f, g : /\ \A k \in F : g[k] = f[k]
                  /\ g[j] \in Nat /\ IsFiniteSet(Sch!Units(F, f))
                  => /\ IsFiniteSet(Sch!Units(F \cup {j}, g))
                     /\ Cardinality(Sch!Units(F \cup {j}, g)) = Cardinality(Sch!Units(F, f)) + g[j]
    BY <2>1, TotalGrows
  <2>3. /\ IsFiniteSet(Sch!Units(F \cup {j}, r1))
        /\ Cardinality(Sch!Units(F \cup {j}, r1)) = Cardinality(Sch!Units(F, r)) + r1[j]
    BY <1>3, <1>5, <2>1, <2>2
  <2>4. /\ IsFiniteSet(Sch!Units(F \cup {j}, w1))
        /\ Cardinality(Sch!Units(F \cup {j}, w1)) = Cardinality(Sch!Units(F, w)) + w1[j]
    BY <1>3, <1>5, <2>1, <2>2
  <2>5. /\ IsFiniteSet(Sch!Units(F \cup {j}, a1))
        /\ Cardinality(Sch!Units(F \cup {j}, a1)) = Cardinality(Sch!Units(F, a)) + a1[j]
    BY <1>3, <1>5, <2>1, <2>2
  <2> QED
    BY <1>3, <2>3, <2>4, <2>5
<1>7. time - i.arrival_time = w[j] + r[j] /\ r[j] = i.burst_time
      /\ i.start_time - i.arrival_time = a[j]
  BY <1>2, <1>3 DEF Past
<1>8. Cardinality(Sch!Units(F, r)) \in Nat /\ Cardinality(Sch!Units(F, w)) \in Nat
      /\ Cardinality(Sch!Units(F, a)) \in Nat
  BY <1>5, FS_CardinalityType
<1>9. /\ waiting_time' = Cardinality(Sch!Units(F \cup {j}, w1))
      /\ response_time' = Cardinality(Sch!Units(F \cup {j}, a1))
      /\ turnaround_time' = Cardinality(Sch!Units(F \cup {j}, w1)) + Cardinality(Sch!Units(F \cup {j}, r1))
  BY <1>3, <1>4, <1>5, <1>6, <1>7, <1>8
<1> QED
  BY <1>2, <1>4, <1>6, <1>9, SameCardinality DEF StatsOK, Sch!Total

-----------------------------------------------------------------------------
(* libscheduler.c: the quantum.                                            *)

\* The metadata without those of the job that is finished.
WithoutRunning == [info EXCEPT ![running] = NULL]

\* The metadata of the running job when it is evicted.
Evicted == [info[running] EXCEPT !.remain_time = info[running].burst_time - ran[running]]

WithEvicted == [info EXCEPT ![running] = Evicted]

LEMMA QuantumPasses == Sch!Quantum => Passes
BY DEF Sch!Quantum, Passes

(* What scheduler_quantum_expired does at the end of a quantum.            *)
LEMMA QuantumTakes ==
    ASSUME SchedInv, Sch!Quantum
    PROVE  \/ /\ Sch!IsDone /\ Sch!scheduler_job_finished(running)
              /\ Takes(pqueue, WithoutRunning)
           \/ /\ running = NULL /\ UNCHANGED <<finished, Sch!stats>> /\ Takes(pqueue, info)
           \/ /\ ~Sch!IsDone /\ running # NULL /\ UNCHANGED <<finished, Sch!stats>>
              /\ scheme \in Sch!Preemptive
              /\ Takes(Sch!priqueue_offer(pqueue, running, WithEvicted), WithEvicted)
           \/ /\ ~Sch!IsDone /\ running # NULL /\ scheme \notin Sch!Preemptive
              /\ UNCHANGED <<running, pqueue, info, finished, Sch!stats>>
<1>1. ASSUME running # NULL
      PROVE  /\ running \in Jobs /\ info \in [Jobs -> JobInfo \cup {NULL}]
             /\ info[running] \in JobInfo /\ Runs(info[running], running)
             /\ ran[running] \in Nat /\ time \in Nat
    BY <1>1 DEF SchedInv, RunningOK, Queued, ClockOK
<1> DEFINE left == info[running].remain_time - (time - info[running].last_start_time)
           after == [info EXCEPT ![running].remain_time = left]
<1>2. ASSUME running # NULL
      PROVE  /\ left = info[running].burst_time - ran[running]
             /\ after = WithEvicted
             /\ [after EXCEPT ![running] = NULL] = WithoutRunning
             /\ ran[running] =< info[running].burst_time
             /\ left \in Int
  <2>1. left = info[running].burst_time - ran[running] /\ ran[running] =< info[running].burst_time
    BY <1>1, <1>2 DEF Runs, Past
  <2>2. after = WithEvicted
    BY <1>1, <1>2, <2>1 DEF WithEvicted, Evicted
  <2>3. [after EXCEPT ![running] = NULL] = WithoutRunning
    BY <1>1, <1>2 DEF WithoutRunning
  <2>4. left \in Int
    BY <1>1, <1>2, <2>1 DEF JobInfo
  <2> QED
    BY <2>1, <2>2, <2>3, <2>4
<1>3. ASSUME running # NULL, ran[running] = info[running].burst_time, Sch!IsDone,
             Sch!scheduler_job_finished(running),
             NEW job \in {NULL, running}, Sch!quantum_expired(job)
      PROVE  Takes(pqueue, WithoutRunning)
  <2>1. ASSUME Sch!poll(pqueue, info) PROVE Takes(pqueue, WithoutRunning)
    BY <1>3, <2>1 DEF Sch!poll, Takes, WithoutRunning
  <2>2. CASE job = NULL
    BY <1>3, <2>1, <2>2 DEF Sch!quantum_expired
  <2>3. CASE job # NULL /\ scheme \in Sch!Preemptive
    <3>1. ~(left > 0)
      BY <1>1, <1>2, <1>3 DEF JobInfo
    <3>2. Sch!poll(pqueue, after)
      BY <1>3, <2>3, <3>1 DEF Sch!quantum_expired
    <3> HIDE DEF after
    <3> QED
      BY <1>2, <1>3, <3>2 DEF Sch!poll, Takes
  <2>4. CASE job # NULL /\ scheme \notin Sch!Preemptive
    <3>1. ~(time - info[running].start_time < info[running].burst_time)
      BY <1>1, <1>3, <2>4 DEF Runs, JobInfo
    <3> QED
      BY <1>3, <2>1, <2>4, <3>1 DEF Sch!quantum_expired
  <2> QED
    BY <2>2, <2>3, <2>4
<1>4. CASE Sch!IsDone
  BY <1>3, <1>4 DEF Sch!Quantum, Sch!IsDone
<1>5. CASE running = NULL
  BY <1>5 DEF Sch!Quantum, Sch!IsDone, Sch!quantum_expired, Sch!poll, Takes
<1>6. CASE ~Sch!IsDone /\ running # NULL /\ scheme \in Sch!Preemptive
  <2>1. ran[running] < info[running].burst_time /\ left > 0
    BY <1>1, <1>2, <1>6 DEF Sch!IsDone, JobInfo
  <2>2. Sch!poll(Sch!priqueue_offer(pqueue, running, after), after)
    BY <1>6, <2>1 DEF Sch!Quantum, Sch!quantum_expired
  <2> HIDE DEF after
  <2>3. Sch!poll(Sch!priqueue_offer(pqueue, running, WithEvicted), WithEvicted)
    BY <1>2, <1>6, <2>2
  <2> QED
    BY <1>6, <2>3 DEF Sch!poll, Takes, Sch!Quantum
<1>7. CASE ~Sch!IsDone /\ running # NULL /\ scheme \notin Sch!Preemptive
  <2>1. time - info[running].start_time < info[running].burst_time
    BY <1>1, <1>2, <1>7 DEF Sch!IsDone, JobInfo, Runs
  <2> QED
    BY <1>7, <2>1 DEF Sch!Quantum, Sch!quantum_expired
<1> QED
  BY <1>4, <1>5, <1>6, <1>7

\* The job that was taken is the best of those that waited.
BestTaken == running' # NULL => \A i \in 1 .. Len(pqueue') :
                                  ~Sch!Before(info'[pqueue'[i]], info'[running'])

Unaltered(j) == ran'[j] = ran[j] /\ waited'[j] = waited[j] /\ answered'[j] = answered[j]

(* What the three ways of taking a job have in common.                     *)
LEMMA TakenInv ==
    ASSUME SchedInv, Passes, NEW q, NEW table, Queued(q, table), Takes(q, table),
           \A j \in Jobs : table[j] # NULL =>
                             (\E i \in 1 .. Len(q) : q[i] = j) /\ Waits(table[j], j),
           finished' \in SUBSET Jobs,
           \A j \in Jobs : /\ j \in finished' => table[j] = NULL
                           /\ j \notin finished' /\ table[j] = NULL =>
                                ran[j] = 0 /\ waited[j] = 0 /\ answered[j] = 0
    PROVE  /\ BestTaken
           /\ \A j \in Jobs : table[j] = NULL => Unaltered(j)
           /\ StatsOK' => SchedInv'
<1>1. ClockOK'
  BY PassesClock DEF SchedInv
<1>2. /\ Queued(pqueue, info)' /\ running' \in Jobs \cup {NULL}
      /\ RunningOK' /\ WaitingOK'
      /\ \A j \in Jobs : /\ info'[j] = NULL <=> table[j] = NULL
                         /\ table[j] = NULL => Unaltered(j)
      /\ BestTaken
  BY TakeKeeps DEF SchedInv, BestTaken, Unaltered
<1>3. AbsentOK'
  BY <1>2 DEF AbsentOK, Unaltered
<1> QED
  BY <1>1, <1>2, <1>3 DEF SchedInv

(* The queue does not look at the metadata of a job that is not in it.     *)
LEMMA QueuedElsewhere ==
    ASSUME NEW q, NEW table, Queued(q, table), NEW j \in Jobs, \A i \in 1 .. Len(q) : q[i] # j,
           NEW r \in JobInfo \cup {NULL}
    PROVE  Queued(q, [table EXCEPT ![j] = r])
<1>1. \A i \in 1 .. Len(q) : q[i] \in Jobs
  BY LenProperties, ElementOfSeq DEF Queued
<1>2. /\ [table EXCEPT ![j] = r] \in [Jobs -> JobInfo \cup {NULL}]
      /\ \A i \in 1 .. Len(q) : [table EXCEPT ![j] = r][q[i]] = table[q[i]]
  BY <1>1 DEF Queued
<1> QED
  BY <1>2 DEF Queued, InOrder

LEMMA IdleInv ==
    ASSUME SchedInv, Passes, running = NULL, UNCHANGED <<finished, Sch!stats>>,
           Takes(pqueue, info)
    PROVE  SchedInv' /\ BestTaken
<1>1. PICK q, table : q = pqueue /\ table = info
  OBVIOUS
<1>2. /\ Queued(q, table) /\ Takes(q, table) /\ finished' \in SUBSET Jobs
      /\ \A j \in Jobs : table[j] # NULL =>
                           (\E i \in 1 .. Len(q) : q[i] = j) /\ Waits(table[j], j)
      /\ \A j \in Jobs : /\ j \in finished' => table[j] = NULL
                         /\ j \notin finished' /\ table[j] = NULL =>
                              ran[j] = 0 /\ waited[j] = 0 /\ answered[j] = 0
  BY <1>1, SchedulerAssumption DEF SchedInv, WaitingOK, InQueue, AbsentOK
<1>3. /\ BestTaken
      /\ \A j \in Jobs : table[j] = NULL => Unaltered(j)
      /\ StatsOK' => SchedInv'
  BY <1>2, TakenInv
<1>4. StatsOK'
  BY <1>2, <1>3, StatsStay DEF SchedInv, Sch!stats, Unaltered
<1> QED
  BY <1>3, <1>4

LEMMA EvictedInv ==
    ASSUME SchedInv, Passes, running # NULL, ~Sch!IsDone, UNCHANGED <<finished, Sch!stats>>,
           scheme \in Sch!Preemptive,
           Takes(Sch!priqueue_offer(pqueue, running, WithEvicted), WithEvicted)
    PROVE  SchedInv' /\ BestTaken
<1>1. /\ running \in Jobs /\ info \in [Jobs -> JobInfo \cup {NULL}] /\ info[running] \in JobInfo
      /\ Runs(info[running], running) /\ \A i \in 1 .. Len(pqueue) : pqueue[i] # running
      /\ ran[running] \in Nat
  BY DEF SchedInv, RunningOK, Queued, InQueue, ClockOK
<1>2. PICK run \in Jobs, old \in JobInfo : run = running /\ old = info[running]
  BY <1>1
<1>3. PICK r : r = Evicted
  OBVIOUS
<1>4. /\ r \in JobInfo /\ r.remain_time = old.burst_time - ran[run]
      /\ r.burst_time = old.burst_time /\ r.arrival_time = old.arrival_time
      /\ r.start_time = old.start_time
  <2>1. PICK n \in Int : n = old.burst_time - ran[run]
    BY <1>1, <1>2 DEF JobInfo
  <2>2. r = [old EXCEPT !.remain_time = n]
    BY <1>2, <1>3, <2>1 DEF Evicted
  <2> QED
    BY <2>1, <2>2 DEF JobInfo
<1>5. PICK q, table : q = pqueue /\ table = WithEvicted
  OBVIOUS
<1>6. /\ table = [info EXCEPT ![run] = r] /\ table[run] = r /\ r # NULL
      /\ \A j \in Jobs : j # run => table[j] = info[j]
  BY <1>1, <1>2, <1>3, <1>4, <1>5, SchedulerAssumption DEF WithEvicted
<1>7. Queued(q, table)
  <2>1. PICK tb : tb = info
    OBVIOUS
  <2>2. Queued(q, tb) /\ \A i \in 1 .. Len(q) : q[i] # run
    BY <1>1, <1>2, <1>5, <2>1 DEF SchedInv
  <2> QED
    BY <1>4, <1>6, <2>1, <2>2, QueuedElsewhere
<1>8. PICK p : p = Sch!priqueue_offer(q, run, table)
  OBVIOUS
<1>9. Queued(p, table) /\ Sch!ToSet(p) = Sch!ToSet(q) \cup {run}
  <2>1. \A i \in 1 .. Len(q) : q[i] # run
    BY <1>1, <1>2, <1>5
  <2> QED
    BY <1>6, <1>7, <1>8, <2>1, OfferProperties
<1>10. Waits(r, run)
  <2>1. ran[run] < old.burst_time /\ Past(old, run)
    BY <1>1, <1>2 DEF Sch!IsDone, Runs, Past, JobInfo
  <2>2. Past(r, run)
    BY <1>4, <2>1 DEF Past
  <2> QED
    BY <1>4, <2>1, <2>2 DEF Waits
<1>11. ASSUME NEW j \in Jobs, table[j] # NULL
       PROVE  (\E i \in 1 .. Len(p) : p[i] = j) /\ Waits(table[j], j)
  <2>1. DOMAIN p = 1 .. Len(p) /\ DOMAIN q = 1 .. Len(q)
    BY <1>7, <1>9, LenProperties DEF Queued
  <2>2. CASE j = run
    <3>1. j \in Sch!ToSet(p)
      BY <1>9, <2>2
    <3> QED
      BY <1>6, <1>10, <2>1, <2>2, <3>1 DEF Sch!ToSet
  <2>3. CASE j # run
    <3>1. table[j] = info[j] /\ InQueue(j) /\ Waits(info[j], j)
      BY <1>2, <1>6, <1>11, <2>3 DEF SchedInv, WaitingOK
    <3>2. j \in Sch!ToSet(p)
      BY <1>5, <1>9, <2>1, <3>1 DEF Sch!ToSet, InQueue
    <3> QED
      BY <2>1, <3>1, <3>2 DEF Sch!ToSet
  <2> QED
    BY <2>2, <2>3
<1>12. ASSUME NEW j \in Jobs
       PROVE  /\ j \in finished' => table[j] = NULL
              /\ j \notin finished' /\ table[j] = NULL =>
                   ran[j] = 0 /\ waited[j] = 0 /\ answered[j] = 0
  <2>1. j = run => j \notin finished
    BY <1>1, <1>2, SchedulerAssumption DEF SchedInv, AbsentOK
  <2> QED
    BY <1>6, <2>1 DEF SchedInv, AbsentOK
<1>13. /\ BestTaken
       /\ \A j \in Jobs : table[j] = NULL => Unaltered(j)
       /\ StatsOK' => SchedInv'
  <2>1. Takes(p, table) /\ finished' \in SUBSET Jobs
    BY <1>2, <1>5, <1>8 DEF SchedInv
  <2> QED
    BY <1>9, <1>11, <1>12, <2>1, TakenInv
<1>14. StatsOK'
  BY <1>12, <1>13, StatsStay DEF SchedInv, Sch!stats, Unaltered
<1> QED
  BY <1>13, <1>14

LEMMA FinishedInv ==
    ASSUME SchedInv, Passes, Sch!IsDone, Sch!scheduler_job_finished(running),
           Takes(pqueue, WithoutRunning)
    PROVE  SchedInv' /\ BestTaken
<1>1. /\ running \in Jobs /\ info \in [Jobs -> JobInfo \cup {NULL}] /\ info[running] \in JobInfo
      /\ Runs(info[running], running) /\ \A i \in 1 .. Len(pqueue) : pqueue[i] # running
      /\ ran[running] = info[running].burst_time /\ running \notin finished
  BY SchedulerAssumption DEF Sch!IsDone, SchedInv, RunningOK, Queued, InQueue, AbsentOK
<1>2. PICK run \in Jobs, old \in JobInfo : run = running /\ old = info[running]
  BY <1>1
<1>3. PICK q, table : q = pqueue /\ table = WithoutRunning
  OBVIOUS
<1>4. /\ table = [info EXCEPT ![run] = NULL] /\ table[run] = NULL
      /\ \A j \in Jobs : j # run => table[j] = info[j]
  BY <1>1, <1>2, <1>3 DEF WithoutRunning
<1>5. Queued(q, table)
  <2>1. PICK tb : tb = info
    OBVIOUS
  <2>2. Queued(q, tb) /\ \A i \in 1 .. Len(q) : q[i] # run
    BY <1>1, <1>2, <1>3, <2>1 DEF SchedInv
  <2> QED
    BY <1>4, <2>1, <2>2, QueuedElsewhere
<1>6. finished' = finished \cup {run} /\ finished' \in SUBSET Jobs /\ finished \in SUBSET Jobs
  BY <1>2 DEF Sch!scheduler_job_finished, SchedInv
<1>7. ASSUME NEW j \in Jobs
      PROVE  /\ table[j] # NULL => (\E i \in 1 .. Len(q) : q[i] = j) /\ Waits(table[j], j)
             /\ j \in finished' => table[j] = NULL
             /\ j \notin finished' /\ table[j] = NULL =>
                  ran[j] = 0 /\ waited[j] = 0 /\ answered[j] = 0
  BY <1>2, <1>3, <1>4, <1>6 DEF SchedInv, WaitingOK, InQueue, AbsentOK
<1>8. /\ BestTaken
      /\ \A j \in Jobs : table[j] = NULL => Unaltered(j)
      /\ StatsOK' => SchedInv'
  <2>1. Takes(q, table)
    BY <1>3
  <2> QED
    BY <1>5, <1>6, <1>7, <2>1, TakenInv
<1>9. StatsOK'
  <2>1. \A k \in finished \cup {run} : Unaltered(k)
    BY <1>6, <1>7, <1>8
  <2>2. ClockOK' /\ ClockOK /\ StatsOK
    BY PassesClock DEF SchedInv
  <2>3. Past(old, run) /\ ran[run] = old.burst_time /\ run \notin finished /\ old = info[run]
        /\ Sch!scheduler_job_finished(run)
    BY <1>1, <1>2 DEF Runs
  <2> QED
    BY <1>6, <2>1, <2>2, <2>3, StatsGrow DEF Unaltered
<1> QED
  BY <1>8, <1>9

(* A scheme that does not preempt lets the job run on.                     *)
LEMMA RunsOnInv ==
    ASSUME SchedInv, Passes, running # NULL, ~Sch!IsDone,
           UNCHANGED <<running, pqueue, info, finished, Sch!stats>>
    PROVE  SchedInv'
<1>1. /\ running \in Jobs /\ info \in [Jobs -> JobInfo \cup {NULL}] /\ info[running] \in JobInfo
      /\ Runs(info[running], running) /\ \A i \in 1 .. Len(pqueue) : pqueue[i] # running
      /\ DOMAIN pqueue = 1 .. Len(pqueue)
  BY LenProperties DEF SchedInv, RunningOK, Queued, InQueue
<1>2. PICK run \in Jobs, old \in JobInfo : run = running /\ old = info[running]
  BY <1>1
<1>3. ClockOK' /\ ClockOK /\ scheme' = scheme
  BY PassesClock DEF SchedInv, Passes
<1>4. ran[run] < old.burst_time
  <2>1. ran[run] # old.burst_time
    BY <1>1, <1>2 DEF Sch!IsDone
  <2>2. ran[run] <= old.burst_time
    BY <1>1, <1>2 DEF Runs, Past
  <2>3. ran[run] \in Nat
    BY <1>3 DEF ClockOK
  <2>4. old.burst_time \in Nat
    BY <1>2 DEF JobInfo
  <2> QED
    BY <2>1, <2>2, <2>3, <2>4
<1>5. Runs(old, run)'
  <2>1. run = running' /\ run \notin Sch!ToSet(pqueue') /\ Runs(old, run)
    BY <1>1, <1>2 DEF Sch!ToSet
  <2> QED
    BY <1>3, <1>4, <2>1, UnitOfRunning
<1>6. RunningOK'
  <2>1. Runs(info[running], running)'
    BY <1>2, <1>5 DEF Runs, Past
  <2> QED
    BY <2>1 DEF SchedInv, RunningOK, InQueue
<1>7. ASSUME NEW j \in Jobs, info'[j] # NULL, j # running'
      PROVE  InQueue(j)' /\ Waits(info[j], j)'
  <2>1. InQueue(j) /\ Waits(info[j], j)
    BY <1>7 DEF SchedInv, WaitingOK
  <2>2. PICK i \in JobInfo : i = info[j]
    BY <1>1, <1>7
  <2>3. j \in Sch!ToSet(pqueue')
    BY <1>1, <2>1 DEF Sch!ToSet, InQueue
  <2>4. Waits(i, j)'
    BY <1>3, <1>7, <2>1, <2>2, <2>3, UnitOfWaiting
  <2> QED
    BY <2>1, <2>2, <2>4 DEF InQueue, Waits, Past
<1>8. ASSUME NEW j \in Jobs, info[j] = NULL PROVE Unaltered(j)
  <2>1. j # run /\ j \notin Sch!ToSet(pqueue')
    BY <1>1, <1>2, <1>8, SchedulerAssumption DEF SchedInv, Queued, Sch!ToSet
  <2> QED
    BY <1>2, <2>1 DEF Passes, Unaltered
<1>9. AbsentOK'
  BY <1>8 DEF SchedInv, AbsentOK, Unaltered
<1>10. StatsOK'
  BY <1>8, StatsStay DEF SchedInv, AbsentOK, Unaltered, Sch!stats
<1>11. Queued(pqueue, info)'
  BY <1>3, QueuedLater DEF SchedInv
<1> QED
  BY <1>3, <1>6, <1>7, <1>9, <1>10, <1>11 DEF SchedInv, WaitingOK

LEMMA QuantumInv ==
    ASSUME SchedInv, Sch!Quantum
    PROVE  /\ SchedInv'
           /\ BestTaken \/ (scheme \notin Sch!Preemptive /\ running' = running)
<1>1. Passes
  BY QuantumPasses
<1> QED
  BY <1>1, QuantumTakes, FinishedInv, IdleInv, EvictedInv, RunsOnInv

LEMMA NewJobInv ==
    ASSUME SchedInv, NEW j \in Jobs, Sch!scheduler_new_job(j)
    PROVE  SchedInv'
<1>1. /\ info[j] = NULL /\ j \notin finished
      /\ UNCHANGED <<scheme, time, running, Sch!stats, ran, waited, answered, finished>>
      /\ pqueue' = Sch!priqueue_offer(pqueue, j, info')
  BY DEF Sch!scheduler_new_job
<1>2. PICK burst \in Bursts, priority \in Priorities :
        info' = [info EXCEPT ![j] =
                   [arrival_time |-> time, burst_time |-> burst, remain_time |-> burst,
                    start_time |-> -1, last_start_time |-> -1, priority |-> priority]]
  BY DEF Sch!scheduler_new_job
<1>3. PICK r : r = [arrival_time |-> time, burst_time |-> burst, remain_time |-> burst,
                    start_time |-> -1, last_start_time |-> -1, priority |-> priority]
  OBVIOUS
<1>4. /\ r \in JobInfo /\ r.arrival_time = time /\ r.burst_time = burst /\ r.remain_time = burst
      /\ r.start_time = -1 /\ burst \in Nat /\ burst > 0 /\ time \in Nat
  BY <1>3, SchedulerAssumption DEF JobInfo, SchedInv, ClockOK
<1>5. PICK q, tb, table : q = pqueue /\ tb = info /\ table = info'
  OBVIOUS
<1>6. /\ table = [tb EXCEPT ![j] = r] /\ Queued(q, tb) /\ tb[j] = NULL
      /\ tb \in [Jobs -> JobInfo \cup {NULL}] /\ r # NULL /\ table[j] = r
      /\ \A k \in Jobs : k # j => table[k] = tb[k]
  BY <1>1, <1>2, <1>3, <1>4, <1>5, SchedulerAssumption DEF SchedInv, Queued
<1>7. \A i \in 1 .. Len(q) : q[i] # j
  BY <1>6 DEF Queued
<1>8. Queued(q, table)
  BY <1>4, <1>6, <1>7, QueuedElsewhere
<1>9. PICK p : p = Sch!priqueue_offer(q, j, table)
  OBVIOUS
<1>10. Queued(p, table) /\ Sch!ToSet(p) = Sch!ToSet(q) \cup {j} /\ pqueue' = p
  <2>1. table[j] # NULL
    BY <1>6
  <2>2. /\ Queued(Sch!priqueue_offer(q, j, table), table)
        /\ Sch!ToSet(Sch!priqueue_offer(q, j, table)) = Sch!ToSet(q) \cup {j}
    BY <1>7, <1>8, <2>1, OfferProperties
  <2> QED
    BY <1>1, <1>5, <1>9, <2>2
<1>11. \A k : InQueue(k)' <=> InQueue(k) \/ k = j
  <2>1. DOMAIN p = 1 .. Len(p) /\ DOMAIN q = 1 .. Len(q)
    BY <1>8, <1>10, LenProperties DEF Queued
  <2>2. \A k : k \in Sch!ToSet(p) <=> k \in Sch!ToSet(q) \/ k = j
    BY <1>10
  <2>3. \A k : k \in Sch!ToSet(p) <=> \E i \in 1 .. Len(p) : p[i] = k
    BY <2>1 DEF Sch!ToSet
  <2>4. \A k : k \in Sch!ToSet(q) <=> \E i \in 1 .. Len(q) : q[i] = k
    BY <2>1 DEF Sch!ToSet
  <2> QED
    BY <1>5, <1>10, <2>2, <2>3, <2>4 DEF InQueue
<1>12. ClockOK' /\ AbsentOK'
  BY <1>1, <1>5, <1>6 DEF SchedInv, ClockOK, AbsentOK
<1>13. running # j
  BY <1>1, SchedulerAssumption DEF SchedInv, RunningOK
<1>14. RunningOK'
  BY <1>1, <1>5, <1>6, <1>11, <1>13 DEF SchedInv, RunningOK, Runs, Past, Sch!Preemptive
<1>15. Waits(r, j)
  BY <1>1, <1>4 DEF SchedInv, AbsentOK, Waits, Past, ClockOK
<1>16. ASSUME NEW k \in Jobs, info'[k] # NULL, k # running' PROVE InQueue(k)' /\ Waits(info[k], k)'
  <2>1. CASE k = j
    BY <1>1, <1>5, <1>6, <1>11, <1>15, <2>1 DEF Waits, Past, Sch!Preemptive
  <2>2. CASE k # j
    <3>1. info'[k] = info[k] /\ InQueue(k) /\ Waits(info[k], k)
      BY <1>1, <1>5, <1>6, <1>16, <2>2 DEF SchedInv, WaitingOK
    <3> QED
      BY <1>1, <1>11, <3>1 DEF Waits, Past, Sch!Preemptive
  <2> QED
    BY <2>1, <2>2
<1>17. StatsOK'
  BY <1>1, StatsStay DEF SchedInv, Sch!stats
<1>18. Queued(pqueue, info)'
  BY <1>1, <1>5, <1>10, QueuedLater
<1> QED
  BY <1>1, <1>12, <1>14, <1>16, <1>17, <1>18 DEF SchedInv, WaitingOK

LEMMA SchedInit == Sch!Init => SchedInv
<1> SUFFICES ASSUME Sch!Init PROVE SchedInv
  OBVIOUS
<1> USE SchedulerAssumption DEF Sch!Init
<1>1. ClockOK /\ AbsentOK /\ RunningOK /\ WaitingOK
  BY DEF ClockOK, Sch!Zero, AbsentOK, RunningOK, WaitingOK
<1>2. Queued(pqueue, info)
  BY DEF Queued, InOrder
<1>3. \A f : Sch!Units(finished, f) = {}
  BY DEF Sch!Units
<1>4. \A f : IsFiniteSet(Sch!Units(finished, f)) /\ Sch!Total(f) = 0
  BY <1>3, FS_EmptySet, SameCardinality DEF Sch!Total
<1>5. StatsOK
  BY <1>4 DEF StatsOK
<1> QED
  BY <1>1, <1>2, <1>5 DEF SchedInv

LEMMA SchedNext == SchedInv /\ [Sch!Next]_schedulerVars => SchedInv'
<1> SUFFICES ASSUME SchedInv, [Sch!Next]_schedulerVars PROVE SchedInv'
  OBVIOUS
<1>1. CASE UNCHANGED schedulerVars
  <2>1. Queued(pqueue, info)'
    BY <1>1, QueuedLater DEF SchedInv, schedulerVars
  <2>2. StatsOK'
    BY <1>1, StatsStay DEF SchedInv, schedulerVars
  <2> QED
    BY <1>1, <2>1, <2>2 DEF schedulerVars, SchedInv, ClockOK, RunningOK, WaitingOK, AbsentOK,
                            InQueue, Runs, Waits, Past, Sch!Preemptive
<1>2. ASSUME NEW j \in Jobs, Sch!scheduler_new_job(j) PROVE SchedInv'
  BY <1>2, NewJobInv
<1>3. CASE Sch!Quantum
  BY <1>3, QuantumInv
<1> QED
  BY <1>1, <1>2, <1>3 DEF Sch!Next

LEMMA SchedAccounts == SchedInv => Sch!JobsAccounted
<1> SUFFICES ASSUME SchedInv PROVE Sch!JobsAccounted
  OBVIOUS
<1>0. DOMAIN pqueue = 1 .. Len(pqueue) /\ \A i \in 1 .. Len(pqueue) : pqueue[i] \in Jobs
  BY LenProperties, ElementOfSeq DEF SchedInv, Queued
<1>1. \A j : InQueue(j) <=> j \in Sch!ToSet(pqueue)
  BY <1>0 DEF InQueue, Sch!ToSet
<1>2. ASSUME NEW j \in Jobs, info[j] # NULL
      PROVE  /\ (j = running) # (j \in Sch!ToSet(pqueue))
             /\ ran[j] <= info[j].burst_time
             /\ j \in Sch!ToSet(pqueue) => info[j].remain_time = info[j].burst_time - ran[j]
  <2>1. CASE j = running
    <3>1. j \notin Sch!ToSet(pqueue) /\ Runs(info[j], j)
      BY <1>1, <1>2, <2>1, SchedulerAssumption DEF SchedInv, RunningOK
    <3> QED
      BY <2>1, <3>1 DEF Runs, Past
  <2>2. CASE j # running
    <3>1. j \in Sch!ToSet(pqueue) /\ Waits(info[j], j)
      BY <1>1, <1>2, <2>2 DEF SchedInv, WaitingOK
    <3> QED
      BY <2>2, <3>1 DEF Waits, Past
  <2> QED
    BY <2>1, <2>2
<1>3. Sch!IsInjective(pqueue)
  BY <1>0 DEF SchedInv, Queued, Sch!IsInjective
<1> QED
  BY <1>2, <1>3 DEF Sch!JobsAccounted, SchedInv, StatsOK

LEMMA SchedBest ==
    ASSUME SchedInv, Sch!Quantum, running' # NULL,
           scheme \in {"PPRI", "PSRTF"} \/ running' # running
    PROVE  \A j \in Sch!ToSet(pqueue') : ~Sch!Before(info'[j], info'[running'])
<1>1. SchedInv' /\ BestTaken
  BY QuantumInv DEF Sch!Preemptive
<1>2. DOMAIN pqueue' = 1 .. Len(pqueue')
  BY <1>1, LenProperties DEF SchedInv, Queued
<1> QED
  BY <1>1, <1>2 DEF BestTaken, Sch!ToSet

-----------------------------------------------------------------------------
(* semamore.c: the counting.                                               *)

\* The stages in which a thread is between lock and unlock.
Inside == {"check", "change", "unlock"}

HeldInside == \A t \in Threads : pc[t] \in Inside <=> owner = t

\* What the loop found of value still holds when value is changed.
Admitted == /\ \A t \in Semm!Waiters : pc[t] = "change" => value # 0
            /\ \A t \in Posters : pc[t] = "change" => value # max_val

SemmInv == Semm!TypeOK /\ HeldInside /\ Admitted /\ Semm!NoLostWakeup

(* max_val is a positive number and value a number.                        *)
LEMMA MaxValPositive == Semm!TypeOK => max_val \in Nat /\ max_val > 0 /\ value \in Int
BY SemamoreAssumption DEF Semm!TypeOK

(* semm_init establishes the invariant.                                    *)
LEMMA SemmInit == Semm!Init => SemmInv
BY SemamoreAssumption
DEF Semm!Init, SemmInv, Semm!TypeOK, HeldInside, Admitted,
    Semm!NoLostWakeup, Inside, Semm!Stages, Semm!Waiters

(* Changing value: by the mutex nobody else is admitted, and the sleepers  *)
(* whose bound value leaves are woken.                                     *)
LEMMA ChangeSemmInv ==
    ASSUME SemmInv, NEW t \in Threads,
           \/ t \in Semm!Waiters /\ Semm!WaitChange(t)
           \/ t \in Posters /\ Semm!PostChange(t)
    PROVE  SemmInv'
<1> USE SemamoreAssumption, MaxValPositive DEF SemmInv, Semm!Waiters
<1>1. /\ pc[t] = "change" /\ UNCHANGED <<owner, max_val>>
      /\ \/ t \in Semm!Waiters /\ value' = value - 1 /\ value # 0
         \/ t \in Posters /\ value' = value + 1 /\ value # max_val
  BY DEF Semm!WaitChange, Semm!PostChange, Semm!Change, Semm!Broadcast, Semm!Step, Admitted
<1>2. \/ pc' = [u \in Threads |-> IF u = t THEN "unlock"
                                  ELSE IF pc[u] = "asleep" THEN "woken" ELSE pc[u]]
      \/ /\ pc' = [pc EXCEPT ![t] = "unlock"]
         /\ \A u \in Threads : pc[u] # "asleep"
  <2>1. CASE t \in Semm!Waiters /\ Semm!WaitChange(t)
    BY <2>1, <1>1 DEF Semm!WaitChange, Semm!Change, Semm!Broadcast, Semm!Step, Semm!Goto,
                      Semm!NoLostWakeup, Semm!TypeOK
  <2>2. CASE t \in Posters /\ Semm!PostChange(t)
    BY <2>2, <1>1 DEF Semm!PostChange, Semm!Change, Semm!Broadcast, Semm!Step, Semm!Goto,
                      Semm!NoLostWakeup, Semm!TypeOK
  <2> QED
    BY <2>1, <2>2
<1>3. \A u \in Threads : u # t => pc[u] \notin Inside
  BY <1>1 DEF HeldInside, Inside
<1>4. \A u \in Threads : pc'[u] # "asleep"
  BY <1>1, <1>2 DEF Semm!TypeOK
<1>5. Semm!TypeOK'
  BY <1>1, <1>2 DEF Semm!TypeOK, Semm!Stages
<1>6. HeldInside'
  BY <1>1, <1>2 DEF Semm!TypeOK, HeldInside, Inside
<1>7. Admitted'
  BY <1>1, <1>2, <1>3 DEF Semm!TypeOK, Admitted, Inside
<1>8. Semm!NoLostWakeup'
  BY <1>4 DEF Semm!NoLostWakeup
<1> QED
  BY <1>5, <1>6, <1>7, <1>8

(* Every step preserves the invariant.                                     *)
LEMMA SemmNext == SemmInv /\ [Semm!Next]_semamoreVars => SemmInv'
<1> SUFFICES ASSUME SemmInv, [Semm!Next]_semamoreVars PROVE SemmInv'
  OBVIOUS
<1> USE SemamoreAssumption DEF Semm!Waiters
<1>1. ASSUME NEW t \in Semm!Waiters, Semm!WaitCheck(t) PROVE SemmInv'
  BY <1>1 DEF Semm!WaitCheck, Semm!Check, Semm!CondWait, Semm!Release, Semm!Step, Semm!Goto,
              SemmInv, Semm!TypeOK, HeldInside, Admitted, Semm!NoLostWakeup, Inside,
              Semm!Stages, Semm!semm
<1>2. ASSUME NEW t \in Posters, Semm!PostCheck(t) PROVE SemmInv'
  BY <1>2 DEF Semm!PostCheck, Semm!Check, Semm!CondWait, Semm!Release, Semm!Step, Semm!Goto,
              SemmInv, Semm!TypeOK, HeldInside, Admitted, Semm!NoLostWakeup, Inside,
              Semm!Stages, Semm!semm
<1>3. ASSUME NEW t \in Threads, Semm!Lock(t) \/ Semm!Relock(t) PROVE SemmInv'
  BY <1>3 DEF Semm!Lock, Semm!Relock, Semm!Acquire, Semm!Goto, SemmInv, Semm!TypeOK,
              HeldInside, Admitted, Semm!NoLostWakeup, Inside, Semm!Stages, Semm!semm
<1>4. ASSUME NEW t \in Threads, Semm!Unlock(t) \/ Semm!Call(t) \/ Semm!Spurious(t)
      PROVE  SemmInv'
  BY <1>4 DEF Semm!Unlock, Semm!Call, Semm!Spurious, Semm!SpuriousWakeup, Semm!Release,
              Semm!Step, Semm!Goto, SemmInv, Semm!TypeOK, HeldInside, Admitted,
              Semm!NoLostWakeup, Inside, Semm!Stages, Semm!semm
<1>5. ASSUME NEW t \in Threads,
             \/ t \in Semm!Waiters /\ Semm!WaitChange(t)
             \/ t \in Posters /\ Semm!PostChange(t)
      PROVE SemmInv'
  BY <1>5, ChangeSemmInv
<1>6. CASE UNCHANGED semamoreVars
  BY <1>6 DEF semamoreVars, SemmInv, Semm!TypeOK, HeldInside, Admitted, Semm!NoLostWakeup
<1> QED
  BY <1>1, <1>2, <1>3, <1>4, <1>5, <1>6
  DEF Semm!Next, Semm!WaitStep, Semm!PostStep, Semm!AnyStep

-----------------------------------------------------------------------------
(* vector.c.                                                               *)

\* The loop of get_new_capacity up to t, from each capacity on.
Doubling(t, f) == [c \in 1 .. 2 * t + 1 |-> IF c < t THEN f[2 * c] ELSE c]

LEMMA DoublingDefined ==
    ASSUME NEW t \in Nat
    PROVE  \E f : f = Doubling(t, f)
<1> DEFINE Closed(c, X) == c \in X /\ \A x \in X : x < t => 2 * x \in X
           Ends(c) == {m \in Nat : m >= t /\ \A X \in SUBSET Nat : Closed(c, X) => m \in X}
           f == [c \in 1 .. 2 * t + 1 |-> CHOOSE m : m \in Ends(c)]
<1>1. ASSUME NEW c \in Nat, c >= t PROVE Ends(c) = {c}
  <2>1. {c} \in SUBSET Nat /\ Closed(c, {c})
    BY <1>1
  <2>2. c \in Ends(c)
    BY <1>1
  <2> QED
    BY <2>1, <2>2
<1>2. ASSUME NEW c \in Nat, c < t PROVE Ends(c) = Ends(2 * c)
  <2>1. ASSUME NEW X \in SUBSET Nat, Closed(2 * c, X) PROVE Closed(c, X \cup {c})
    BY <2>1
  <2>2. ASSUME NEW X, Closed(c, X) PROVE Closed(2 * c, X)
    BY <1>2, <2>2
  <2> HIDE DEF Closed
  <2>3. ASSUME NEW m \in Ends(c) PROVE m \in Ends(2 * c)
    <3> SUFFICES ASSUME NEW X \in SUBSET Nat, Closed(2 * c, X) PROVE m \in X
      OBVIOUS
    <3>1. X \cup {c} \in SUBSET Nat /\ m # c
      BY <1>2
    <3> QED
      BY <2>1, <3>1
  <2>4. ASSUME NEW m \in Ends(2 * c) PROVE m \in Ends(c)
    BY <2>2
  <2> QED
    BY <2>3, <2>4
<1> HIDE DEF Ends
<1>3. \A c \in 1 .. 2 * t + 1 : f[c] = CHOOSE m : m \in Ends(c)
  OBVIOUS
<1>4. f = [c \in 1 .. 2 * t + 1 |-> f[c]]
  OBVIOUS
<1> HIDE DEF f
<1>5. ASSUME NEW c \in 1 .. 2 * t + 1
      PROVE  f[c] = IF c < t THEN f[2 * c] ELSE c
  <2>1. CASE c < t
    <3>1. 2 * c \in 1 .. 2 * t + 1
      BY <2>1
    <3>2. f[c] = CHOOSE m : m \in Ends(c)
      BY <1>3, Zenon
    <3>3. f[2 * c] = CHOOSE m : m \in Ends(2 * c)
      BY <1>3, <3>1, Zenon
    <3>4. Ends(c) = Ends(2 * c)
      BY <1>2, <2>1
    <3>5. f[c] = f[2 * c]
      BY <3>2, <3>3, <3>4, Zenon
    <3> QED
      BY <2>1, <3>5, Zenon
  <2>2. CASE ~(c < t)
    <3>1. Ends(c) = {c}
      BY <1>1, <2>2
    <3>2. (CHOOSE m : m \in Ends(c)) \in Ends(c)
      BY <3>1, Zenon
    <3>3. f[c] = c
      BY <1>3, <3>1, <3>2, Zenon
    <3> QED
      BY <2>2, <3>3, Zenon
  <2> QED
    BY <2>1, <2>2
<1>6. f = Doubling(t, f)
  BY <1>4, <1>5, Zenon DEF Doubling
<1> QED
  BY <1>6

(* The capacity that is chosen is large enough.                            *)
LEMMA NewCapacityFits ==
    ASSUME NEW t \in Nat
    PROVE  Vec!get_new_capacity(t) \in Nat /\ Vec!get_new_capacity(t) >= t
<1> DEFINE f == CHOOSE f : f = Doubling(t, f)
<1>1. f = Doubling(t, f)
  BY DoublingDefined
<1>2. Vec!get_new_capacity(t) = f[1]
  BY Zenon DEF Vec!get_new_capacity, Doubling
<1> HIDE DEF f
<1>3. \A c \in 1 .. 2 * t + 1 : f[c] = IF c < t THEN f[2 * c] ELSE c
  BY <1>1, Zenon DEF Doubling
<1> DEFINE Small == {c \in 1 .. 2 * t + 1 : ~(f[c] \in Nat /\ f[c] >= t)}
           Left == {2 * t + 1 - c : c \in Small}
<1>4. SUFFICES ASSUME 1 \in Small PROVE FALSE
  BY <1>2
<1>5. Left \in SUBSET Nat /\ Left # {}
  BY <1>4
<1>6. PICK l \in Left : \A m \in Left : l =< m
  BY <1>5, LeastExists
<1>7. PICK c \in Small : l = 2 * t + 1 - c /\ c \in Nat /\ c >= 1
  OBVIOUS
<1>8. c < t
  BY <1>3
<1>9. 2 * c \in Small
  BY <1>3, <1>8
<1>10. 2 * t + 1 - 2 * c \in Left
  BY <1>9
<1>11. l =< 2 * t + 1 - 2 * c
  BY <1>6, <1>10
<1> QED
  BY ONLY <1>7, <1>11

-----------------------------------------------------------------------------
(* A vector holds copies, and anything beyond size.                        *)
Slots == Copies \cup {JUNK}

\* c is a sequence of different elements, and lv is the set of them.
Owns(c, lv) == /\ c \in Seq(Slots)
               /\ \A i, k \in 1 .. Len(c) : c[i] = c[k] => i = k
               /\ lv = {c[i] : i \in 1 .. Len(c)}

\* What is put in as a new copy is one more that the vector owns.
LEMMA InsertStep ==
    ASSUME NEW c, NEW lv, Owns(c, lv), NEW i \in 1 .. Len(c) + 1, NEW x \in Slots, x \notin lv,
           NEW d, InsertedAt(Slots, d, c, i, x)
    PROVE  d = Contract!InsertAt(c, i, x) /\ Owns(d, lv \cup {x})
<1>1. PICK n : n = Len(c) /\ n \in Nat
  BY LenProperties DEF Owns
<1>2. c \in Seq(Slots) /\ \A k \in 1 .. n : c[k] \in lv
  BY <1>1 DEF Owns
<1>3. d = Contract!InsertAt(c, i, x)
  <2>1. PICK e : e = Contract!InsertAt(c, i, x)
    OBVIOUS
  <2>2. InsertedAt(Slots, e, c, i, x)
    BY <1>2, <2>1, InsertAtProperties
  <2>3. Len(d) = Len(e) /\ \A k \in 1 .. Len(d) : d[k] = e[k]
    BY <2>2 DEF InsertedAt
  <2> QED
    BY <2>1, <2>2, <2>3, SeqEqual DEF InsertedAt
<1>4. /\ d \in Seq(Slots) /\ Len(d) = n + 1
      /\ \A k \in 1 .. n + 1 : d[k] = IF k < i THEN c[k] ELSE IF k = i THEN x ELSE c[k - 1]
  BY <1>1 DEF InsertedAt
<1>5. PICK old : \A k \in 1 .. n + 1 : old[k] = IF k < i THEN k ELSE k - 1
  <2>1. \A k \in 1 .. n + 1 : [m \in 1 .. n + 1 |-> IF m < i THEN m ELSE m - 1][k]
                              = IF k < i THEN k ELSE k - 1
    OBVIOUS
  <2> QED
    BY <2>1
<1>6. d[i] = x /\ \A k \in 1 .. n + 1 : k # i => old[k] \in 1 .. n /\ d[k] = c[old[k]]
  BY <1>1, <1>4, <1>5
<1>7. ASSUME NEW k \in 1 .. n + 1, NEW m \in 1 .. n + 1, d[k] = d[m] PROVE k = m
  <2>1. CASE k = i \/ m = i
    BY <1>2, <1>6, <1>7, <2>1
  <2>2. CASE k # i /\ m # i
    <3>1. old[k] = old[m]
      BY <1>1, <1>6, <1>7, <2>2 DEF Owns
    <3> QED
      BY <1>1, <1>5, <2>2, <3>1
  <2> QED
    BY <2>1, <2>2
<1>8. lv \cup {x} = {d[k] : k \in 1 .. n + 1}
  <2>1. ASSUME NEW y \in lv \cup {x} PROVE \E k \in 1 .. n + 1 : y = d[k]
    <3>1. CASE y = x
      BY <1>1, <1>6, <3>1
    <3>2. CASE y \in lv
      <4>1. PICK k \in 1 .. n : y = c[k]
        BY <1>1, <3>2 DEF Owns
      <4>2. PICK m \in 1 .. n + 1 : m # i /\ old[m] = k
        <5>1. CASE k < i
          BY <1>1, <1>5, <5>1
        <5>2. CASE k >= i
          <6>1. k + 1 \in 1 .. n + 1 /\ k + 1 # i /\ ~(k + 1 < i) /\ k + 1 - 1 = k
            BY <1>1, <5>2
          <6> QED
            BY <1>5, <6>1
        <5> QED
          BY <1>1, <5>1, <5>2
      <4> QED
        BY <1>6, <4>1, <4>2
    <3> QED
      BY <3>1, <3>2
  <2>2. ASSUME NEW k \in 1 .. n + 1 PROVE d[k] \in lv \cup {x}
    BY <1>2, <1>6
  <2> QED
    BY <2>1, <2>2
<1>9. Owns(d, lv \cup {x})
  BY <1>1, <1>4, <1>7, <1>8 DEF Owns
<1> QED
  BY <1>3, <1>9

\* Contents without what is in place i.
LEMMA EraseStep ==
    ASSUME NEW c, NEW lv, Owns(c, lv), NEW i \in 1 .. Len(c),
           NEW d \in Seq(Slots), Len(d) = Len(c) - 1,
           \A k \in 1 .. Len(c) - 1 : d[k] = IF k < i THEN c[k] ELSE c[k + 1]
    PROVE  d = Contract!RemoveAt(c, i) /\ Owns(d, lv \ {c[i]})
<1>1. PICK n : n = Len(c) /\ n \in Nat \ {0} /\ c \in Seq(Slots)
  BY LenProperties DEF Owns
<1>2. d = Contract!RemoveAt(c, i)
  <2>1. PICK a, b : a = SubSeq(c, 1, i - 1) /\ b = SubSeq(c, i + 1, n)
    OBVIOUS
  <2>2. /\ a \in Seq(Slots) /\ Len(a) = i - 1
        /\ \A k \in 1 .. i - 1 : a[k] = c[k]
    <3>1. 1 \in 1 .. Len(c) + 1 /\ i - 1 \in 0 .. Len(c) /\ 1 =< i - 1 + 1
      BY <1>1
    <3>2. /\ a \in Seq(Slots) /\ Len(a) = i - 1 - 1 + 1
          /\ \A k \in 1 .. i - 1 - 1 + 1 : a[k] = c[1 + k - 1]
      BY <1>1, <2>1, <3>1, PartsOf
    <3> QED
      BY <1>1, <3>2
  <2>3. /\ b \in Seq(Slots) /\ Len(b) = n - i
        /\ \A k \in 1 .. n - i : b[k] = c[i + k]
    <3>1. PICK j : j = i + 1 /\ j \in 1 .. Len(c) + 1 /\ n \in 0 .. Len(c) /\ j =< n + 1
      BY <1>1
    <3>2. /\ b \in Seq(Slots) /\ Len(b) = n - j + 1
          /\ \A k \in 1 .. n - j + 1 : b[k] = c[j + k - 1]
      BY <1>1, <2>1, <3>1, PartsOf
    <3>3. n - j + 1 = n - i /\ \A k \in 1 .. n - i : j + k - 1 = i + k
      BY <1>1, <3>1
    <3> QED
      BY <3>2, <3>3
  <2>4. PICK e : e = a \o b
    OBVIOUS
  <2>5. /\ e \in Seq(Slots) /\ Len(e) = n - 1
        /\ \A k \in 1 .. n - 1 : e[k] = IF k =< i - 1 THEN a[k] ELSE b[k - (i - 1)]
    <3>1. /\ e \in Seq(Slots) /\ Len(e) = Len(a) + Len(b)
          /\ \A k \in 1 .. Len(a) + Len(b) : e[k] = IF k <= Len(a) THEN a[k] ELSE b[k - Len(a)]
      BY <2>2, <2>3, <2>4, ConcatProperties
    <3> QED
      BY <1>1, <2>2, <2>3, <3>1
  <2>6. ASSUME NEW k \in 1 .. n - 1 PROVE d[k] = e[k]
    <3>1. CASE k < i
      BY <1>1, <2>2, <2>5, <3>1
    <3>2. CASE k >= i
      <4>1. e[k] = b[k - (i - 1)] /\ k - (i - 1) \in 1 .. n - i /\ i + (k - (i - 1)) = k + 1
        BY <1>1, <2>5, <3>2
      <4> QED
        BY <1>1, <2>3, <3>2, <4>1
    <3> QED
      BY <1>1, <3>1, <3>2
  <2>7. d = e
    BY <1>1, <2>5, <2>6, SeqEqual
  <2> QED
    BY <1>1, <2>1, <2>4, <2>7 DEF Contract!RemoveAt
<1>3. PICK new : \A k \in 1 .. n - 1 : new[k] = IF k < i THEN k ELSE k + 1
  <2>1. \A k \in 1 .. n - 1 : [m \in 1 .. n - 1 |-> IF m < i THEN m ELSE m + 1][k]
                              = IF k < i THEN k ELSE k + 1
    OBVIOUS
  <2> QED
    BY <2>1
<1>4. \A k \in 1 .. n - 1 : new[k] \in 1 .. n /\ new[k] # i /\ d[k] = c[new[k]]
  BY <1>1, <1>3
<1>5. ASSUME NEW k \in 1 .. n - 1, NEW m \in 1 .. n - 1, d[k] = d[m] PROVE k = m
  <2>1. new[k] = new[m]
    BY <1>1, <1>4, <1>5 DEF Owns
  <2> QED
    BY <1>1, <1>3, <2>1
<1>6. lv \ {c[i]} = {d[k] : k \in 1 .. n - 1}
  <2>1. ASSUME NEW y \in lv \ {c[i]} PROVE \E k \in 1 .. n - 1 : y = d[k]
    <3>1. PICK k \in 1 .. n : y = c[k] /\ k # i
      BY <1>1 DEF Owns
    <3>2. PICK m \in 1 .. n - 1 : new[m] = k
      <4>1. CASE k < i
        BY <1>1, <1>3, <4>1
      <4>2. CASE k >= i
        <5>1. k - 1 \in 1 .. n - 1 /\ ~(k - 1 < i) /\ k - 1 + 1 = k
          BY <1>1, <3>1, <4>2
        <5> QED
          BY <1>3, <5>1
      <4> QED
        BY <1>1, <4>1, <4>2
    <3> QED
      BY <1>4, <3>1, <3>2
  <2>2. ASSUME NEW k \in 1 .. n - 1 PROVE d[k] \in lv \ {c[i]}
    BY <1>1, <1>4 DEF Owns
  <2> QED
    BY <2>1, <2>2
<1>7. Owns(d, lv \ {c[i]})
  BY <1>1, <1>5, <1>6 DEF Owns
<1> QED
  BY <1>2, <1>7

\* Another copy in place i.
LEMMA SetStep ==
    ASSUME NEW c, NEW lv, Owns(c, lv), NEW i \in 1 .. Len(c), NEW x \in Slots,
           x \notin lv \ {c[i]}, NEW d \in Seq(Slots), Len(d) = Len(c),
           \A k \in 1 .. Len(c) : d[k] = IF k = i THEN x ELSE c[k]
    PROVE  d = [c EXCEPT ![i] = x] /\ Owns(d, (lv \ {c[i]}) \cup {x})
<1>1. PICK n : n = Len(c) /\ n \in Nat /\ c \in Seq(Slots)
  BY LenProperties DEF Owns
<1>2. d = [c EXCEPT ![i] = x]
  <2>1. /\ [c EXCEPT ![i] = x] \in Seq(Slots) /\ Len([c EXCEPT ![i] = x]) = Len(c)
        /\ \A k \in 1 .. Len(c) : [c EXCEPT ![i] = x][k] = IF k = i THEN x ELSE c[k]
    BY <1>1, ExceptSeq
  <2>2. PICK e : e = [c EXCEPT ![i] = x]
    OBVIOUS
  <2>3. e \in Seq(Slots) /\ Len(d) = Len(e) /\ \A k \in 1 .. Len(d) : d[k] = e[k]
    BY <2>1, <2>2
  <2> QED
    BY <2>2, <2>3, SeqEqual
<1>3. \A k \in 1 .. n : c[k] \in lv /\ (k # i => c[k] # c[i])
  BY <1>1 DEF Owns
<1>4. ASSUME NEW k \in 1 .. n, NEW m \in 1 .. n, d[k] = d[m] PROVE k = m
  BY <1>1, <1>3, <1>4 DEF Owns
<1>5. (lv \ {c[i]}) \cup {x} = {d[k] : k \in 1 .. n}
  <2>1. ASSUME NEW y \in (lv \ {c[i]}) \cup {x} PROVE \E k \in 1 .. n : y = d[k]
    <3>1. CASE y = x
      BY <1>1, <3>1
    <3>2. CASE y # x
      <4>1. PICK k \in 1 .. n : y = c[k] /\ k # i
        BY <1>1, <2>1, <3>2 DEF Owns
      <4> QED
        BY <1>1, <4>1
    <3> QED
      BY <3>1, <3>2
  <2>2. ASSUME NEW k \in 1 .. n PROVE d[k] \in (lv \ {c[i]}) \cup {x}
    BY <1>1, <1>3
  <2> QED
    BY <2>1, <2>2
<1> QED
  BY <1>1, <1>2, <1>4, <1>5 DEF Owns

LEMMA PrefixIs ==
    ASSUME NEW s \in Seq(Slots), NEW t \in Seq(Slots), Len(s) =< Len(t),
           \A k \in 1 .. Len(s) : t[k] = s[k]
    PROVE  Contract!IsPrefix(s, t)
<1>1. PICK m, n : m = Len(s) /\ n = Len(t) /\ m \in Nat /\ n \in Nat
  BY LenProperties
<1>2. PICK a, b : a = SubSeq(s, 1, m) /\ b = SubSeq(t, 1, m)
  OBVIOUS
<1>3. 1 \in 1 .. m + 1 /\ 1 \in 1 .. n + 1 /\ m \in 0 .. m /\ m \in 0 .. n /\ 1 =< m + 1
  BY <1>1
<1>4. /\ a \in Seq(Slots) /\ Len(a) = m - 1 + 1
      /\ \A k \in 1 .. m - 1 + 1 : a[k] = s[1 + k - 1]
  BY <1>1, <1>2, <1>3, PartsOf
<1>5. /\ b \in Seq(Slots) /\ Len(b) = m - 1 + 1
      /\ \A k \in 1 .. m - 1 + 1 : b[k] = t[1 + k - 1]
  BY <1>1, <1>2, <1>3, PartsOf
<1>6. m - 1 + 1 = m /\ \A k \in 1 .. m : 1 + k - 1 = k
  BY <1>1
<1>7. Len(a) = Len(b) /\ \A k \in 1 .. Len(a) : a[k] = b[k]
  BY <1>1, <1>4, <1>5, <1>6
<1>8. a = b
  BY <1>4, <1>5, <1>7, SeqEqual
<1> QED
  BY <1>1, <1>2, <1>8 DEF Contract!IsPrefix

LEMMA OwnedAre ==
    ASSUME NEW c, NEW lv, Owns(c, lv)
    PROVE  lv = Contract!ToSet(c) /\ Contract!IsInjective(c)
<1>1. DOMAIN c = 1 .. Len(c)
  BY LenProperties DEF Owns
<1> QED
  BY <1>1 DEF Owns, Contract!ToSet, Contract!IsInjective

\* The first n elements.
LEMMA ShrinkStep ==
    ASSUME NEW c, NEW lv, Owns(c, lv), NEW n \in 0 .. Len(c),
           NEW d \in Seq(Slots), Len(d) = n, \A k \in 1 .. n : d[k] = c[k]
    PROVE  /\ Contract!IsPrefix(d, c)
           /\ Owns(d, lv \ {c[k] : k \in n + 1 .. Len(c)})
<1>1. PICK m : m = Len(c) /\ m \in Nat /\ c \in Seq(Slots)
  BY LenProperties DEF Owns
<1>2. Contract!IsPrefix(d, c)
  BY <1>1, PrefixIs
<1>3. ASSUME NEW i \in 1 .. n, NEW k \in 1 .. n, d[i] = d[k] PROVE i = k
  BY <1>1, <1>3 DEF Owns
<1>4. lv \ {c[k] : k \in n + 1 .. m} = {d[k] : k \in 1 .. n}
  <2>1. ASSUME NEW y \in lv \ {c[k] : k \in n + 1 .. m} PROVE \E k \in 1 .. n : y = d[k]
    <3>1. PICK k \in 1 .. m : y = c[k] /\ k \notin n + 1 .. m
      BY <1>1 DEF Owns
    <3> QED
      BY <1>1, <3>1
  <2>2. ASSUME NEW k \in 1 .. n PROVE d[k] \in lv \ {c[i] : i \in n + 1 .. m}
    <3>1. d[k] = c[k] /\ k \in 1 .. m /\ \A i \in n + 1 .. m : i \in 1 .. m /\ i # k
      BY <1>1
    <3> QED
      BY <1>1, <3>1 DEF Owns
  <2> QED
    BY <2>1, <2>2
<1> QED
  BY <1>1, <1>2, <1>3, <1>4 DEF Owns

\* d is c with new elements W behind it, up to place n.
Longer(d, c, lv, n, new, W) ==
    /\ Len(c) < n /\ new \in [Len(c) + 1 .. n -> Slots \ lv]
    /\ \A i, k \in Len(c) + 1 .. n : new[i] = new[k] => i = k
    /\ W = {new[k] : k \in Len(c) + 1 .. n}
    /\ d \in Seq(Slots) /\ Len(d) = n
    /\ \A k \in 1 .. n : d[k] = IF k \in Len(c) + 1 .. n THEN new[k] ELSE c[k]

LEMMA GrowStep ==
    ASSUME NEW c, NEW lv, Owns(c, lv), NEW n \in Nat, NEW new, NEW d, NEW W,
           Longer(d, c, lv, n, new, W)
    PROVE  Contract!IsPrefix(c, d) /\ Owns(d, lv \cup W)
<1> USE DEF Longer
<1>1. PICK m : m = Len(c) /\ m \in Nat /\ c \in Seq(Slots)
  BY LenProperties DEF Owns
<1>2. /\ \A k \in 1 .. m : d[k] = c[k] /\ k \in 1 .. n /\ c[k] \in lv
      /\ \A k \in m + 1 .. n : d[k] = new[k] /\ k \in 1 .. n /\ new[k] \notin lv
      /\ \A k \in 1 .. n : k \in 1 .. m \/ k \in m + 1 .. n
  <2>1. \A k \in 1 .. m : k \in 1 .. n /\ k \notin m + 1 .. n
    BY <1>1
  <2>2. \A k \in 1 .. m : d[k] = c[k]
    BY <1>1, <2>1
  <2>3. \A k \in 1 .. m : c[k] \in lv
    BY <1>1 DEF Owns
  <2>4. \A k \in m + 1 .. n : k \in 1 .. n /\ d[k] = new[k] /\ new[k] \notin lv
    BY <1>1
  <2>5. \A k \in 1 .. n : k \in 1 .. m \/ k \in m + 1 .. n
    BY <1>1
  <2> QED
    BY <2>1, <2>2, <2>3, <2>4, <2>5
<1>3. Contract!IsPrefix(c, d)
  BY <1>1, <1>2, PrefixIs
<1>4. ASSUME NEW i \in 1 .. n, NEW k \in 1 .. n, d[i] = d[k] PROVE i = k
  BY <1>1, <1>2, <1>4 DEF Owns
<1>5. lv \cup W = {d[k] : k \in 1 .. n}
  <2>1. ASSUME NEW y \in lv PROVE \E k \in 1 .. n : y = d[k]
    BY <1>1, <1>2 DEF Owns
  <2>2. ASSUME NEW y \in W PROVE \E k \in 1 .. n : y = d[k]
    BY <1>1, <1>2
  <2>3. ASSUME NEW k \in 1 .. n PROVE d[k] \in lv \cup W
    BY <1>1, <1>2
  <2> QED
    BY <2>1, <2>2, <2>3
<1> QED
  BY <1>1, <1>3, <1>4, <1>5 DEF Owns

-----------------------------------------------------------------------------
VecInv == /\ array \in Seq(Slots) /\ size \in 0 .. Len(array)
          /\ Owns(Vec!Contents, live)

VecStep == [Contract!Next]_<<Vec!Contents, live>>

LEMMA ContentsAre ==
    ASSUME NEW a \in Seq(Slots), NEW n \in 0 .. Len(a)
    PROVE  /\ SubSeq(a, 1, n) \in Seq(Slots) /\ Len(SubSeq(a, 1, n)) = n
           /\ \A k \in 1 .. n : SubSeq(a, 1, n)[k] = a[k]
<1>1. Len(a) \in Nat
  BY LenProperties
<1>2. 1 \in 1 .. Len(a) + 1 /\ 1 =< n + 1
  BY <1>1
<1>3. /\ SubSeq(a, 1, n) \in Seq(Slots) /\ Len(SubSeq(a, 1, n)) = n - 1 + 1
      /\ \A k \in 1 .. n - 1 + 1 : SubSeq(a, 1, n)[k] = a[1 + k - 1]
  BY <1>2, PartsOf
<1>4. n - 1 + 1 = n /\ \A k \in 1 .. n : 1 + k - 1 = k
  BY <1>1
<1> QED
  BY <1>3, <1>4

\* The contents before and after a step.
LEMMA OldContents ==
    ASSUME VecInv
    PROVE  /\ Vec!Contents \in Seq(Slots) /\ Len(Vec!Contents) = size /\ size \in Nat
           /\ \A k \in 1 .. size : Vec!Contents[k] = array[k]
<1>1. Len(array) \in Nat
  BY LenProperties DEF VecInv
<1> QED
  BY <1>1, ContentsAre DEF VecInv, Vec!Contents

LEMMA NewContents ==
    ASSUME array' \in Seq(Slots), size' \in 0 .. Len(array')
    PROVE  /\ Vec!Contents' \in Seq(Slots) /\ Len(Vec!Contents') = size'
           /\ \A k \in 1 .. size' : (Vec!Contents')[k] = array'[k]
<1>1. PICK a, n : a = array' /\ n = size'
  OBVIOUS
<1>2. a \in Seq(Slots) /\ n \in 0 .. Len(a)
  BY <1>1
<1> QED
  BY <1>1, <1>2, ContentsAre DEF Vec!Contents

LEMMA JunkIs ==
    ASSUME NEW n \in Nat
    PROVE  Vec!Junk(n) \in Seq(Slots) /\ Len(Vec!Junk(n)) = n
<1>1. Vec!Junk(n) \in [1 .. n -> Slots]
  BY DEF Vec!Junk, Slots
<1> QED
  BY <1>1, FunctionIsSeq

LEMMA VecInit == Vec!Init => VecInv /\ Contract!Init
<1> SUFFICES ASSUME Vec!Init PROVE VecInv /\ Contract!Init
  OBVIOUS
<1>1. array \in Seq(Slots) /\ size = 0 /\ Len(array) = INITIAL_CAPACITY /\ live = {}
  BY JunkIs, VectorAssumption DEF Vec!Init
<1>2. Vec!Contents = <<>>
  BY <1>1, SubSeqEmpty DEF Vec!Contents
<1>3. Owns(<<>>, {})
  BY EmptySeq DEF Owns
<1> QED
  BY <1>1, <1>2, <1>3, VectorAssumption DEF VecInv, Contract!Init

LEMMA GrownIs ==
    ASSUME VecInv, NEW n \in Nat, Vec!get_new_capacity(n) >= size
    PROVE  /\ Vec!Grown(n) \in Seq(Slots) /\ Len(Vec!Grown(n)) = Vec!get_new_capacity(n)
           /\ \A k \in 1 .. size : Vec!Grown(n)[k] = array[k]
<1>1. PICK m : m = Vec!get_new_capacity(n) /\ m \in Nat
  BY NewCapacityFits
<1>2. PICK c, j : c = SubSeq(array, 1, size) /\ j = Vec!Junk(m - size)
  OBVIOUS
<1>3. c \in Seq(Slots) /\ Len(c) = size /\ size \in Nat /\ \A k \in 1 .. size : c[k] = array[k]
  BY <1>2, OldContents DEF Vec!Contents
<1>4. j \in Seq(Slots) /\ Len(j) = m - size
  <2>1. m - size \in Nat
    BY <1>1, <1>3
  <2> QED
    BY <1>2, <2>1, JunkIs
<1>5. /\ c \o j \in Seq(Slots) /\ Len(c \o j) = Len(c) + Len(j)
      /\ \A k \in 1 .. Len(c) + Len(j) : (c \o j)[k] = IF k <= Len(c) THEN c[k] ELSE j[k - Len(c)]
  BY <1>3, <1>4, ConcatProperties
<1>6. Len(c) + Len(j) = m /\ \A k \in 1 .. size : k \in 1 .. Len(c) + Len(j) /\ k <= Len(c)
  BY <1>1, <1>3, <1>4
<1>7. Vec!Grown(n) = c \o j
  BY <1>1, <1>2 DEF Vec!Grown
<1> QED
  BY <1>1, <1>3, <1>5, <1>6, <1>7

LEMMA ReservedIs ==
    ASSUME VecInv
    PROVE  /\ Vec!Reserved \in Seq(Slots) /\ Len(Vec!Reserved) >= size + 1
           /\ \A k \in 1 .. size : Vec!Reserved[k] = array[k]
<1>1. size \in Nat /\ Len(array) \in Nat
  BY LenProperties DEF VecInv
<1>2. CASE size = Len(array)
  <2>1. Vec!get_new_capacity(size + 1) >= size + 1 /\ Vec!get_new_capacity(size + 1) \in Nat
    BY <1>1, NewCapacityFits
  <2>2. /\ Vec!Grown(size + 1) \in Seq(Slots)
        /\ Len(Vec!Grown(size + 1)) = Vec!get_new_capacity(size + 1)
        /\ \A k \in 1 .. size : Vec!Grown(size + 1)[k] = array[k]
    <3>1. PICK n \in Nat : n = size + 1
      BY <1>1
    <3>2. Vec!get_new_capacity(n) >= size
      BY <1>1, <2>1, <3>1
    <3> QED
      BY <3>1, <3>2, GrownIs
  <2>3. Vec!Reserved = Vec!Grown(size + 1)
    BY <1>2 DEF Vec!Reserved, Vec!capacity
  <2> QED
    BY <2>1, <2>2, <2>3
<1>3. CASE size # Len(array)
  <2>1. Vec!Reserved = array
    BY <1>3 DEF Vec!Reserved, Vec!capacity
  <2> QED
    BY <1>1, <1>3, <2>1 DEF VecInv
<1> QED
  BY <1>2, <1>3

\* Element x comes in at place i of the sequence.
LEMMA ComesIn ==
    ASSUME VecInv, NEW i \in 1 .. size + 1, NEW x \in Vec!Free,
           array' \in Seq(Slots), size + 1 =< Len(array'), size' = size + 1,
           live' = live \cup {x},
           \A k \in 1 .. size + 1 :
             array'[k] = IF k < i THEN array[k] ELSE IF k = i THEN x ELSE array[k - 1]
    PROVE  VecInv' /\ VecStep
<1>1. PICK c, lv, d : c = Vec!Contents /\ lv = live /\ d = Vec!Contents'
  OBVIOUS
<1>2. /\ c \in Seq(Slots) /\ Len(c) = size /\ size \in Nat
      /\ \A k \in 1 .. size : c[k] = array[k]
  BY <1>1, OldContents
<1>3. size' \in 0 .. Len(array')
  BY <1>2, LenProperties
<1>4. /\ d \in Seq(Slots) /\ Len(d) = size + 1
      /\ \A k \in 1 .. size + 1 : d[k] = array'[k]
  BY <1>1, <1>3, NewContents
<1>5. ASSUME NEW k \in 1 .. size + 1
      PROVE  d[k] = IF k < i THEN c[k] ELSE IF k = i THEN x ELSE c[k - 1]
  <2>1. d[k] = IF k < i THEN array[k] ELSE IF k = i THEN x ELSE array[k - 1]
    <3>1. d[k] = array'[k]
      BY <1>4
    <3> QED
      BY <3>1, Zenon
  <2>2. k < i => c[k] = array[k]
    BY <1>2
  <2>3. k > i => c[k - 1] = array[k - 1]
    <3>1. k > i => k - 1 \in 1 .. size
      BY <1>2
    <3> QED
      BY <1>2, <3>1
  <2>4. k < i \/ k = i \/ k > i
    BY <1>2
  <2> QED
    BY <2>1, <2>2, <2>3, <2>4
<1>6. InsertedAt(Slots, d, c, i, x)
  <2>1. Len(c) + 1 = size + 1
    BY <1>2
  <2> QED
    BY <1>4, <1>5, <2>1, Zenon DEF InsertedAt
<1>7. x \in Slots /\ x \notin lv /\ i \in 1 .. Len(c) + 1 /\ Owns(c, lv)
  BY <1>1, <1>2 DEF Vec!Free, Slots, VecInv
<1>8. d = Contract!InsertAt(c, i, x) /\ Owns(d, lv \cup {x})
  BY <1>6, <1>7, InsertStep
<1>9. VecInv'
  BY <1>1, <1>3, <1>8 DEF VecInv
<1>10. Contract!Insert
  <2>1. x \in live' \ live /\ i \in 1 .. Len(Vec!Contents) + 1
    <3>1. x \in live' /\ x \notin live
      BY <1>1, <1>7
    <3> QED
      BY <1>1, <1>7, <3>1
  <2>2. Vec!Contents' = Contract!InsertAt(Vec!Contents, i, x)
    BY <1>1, <1>8, Zenon
  <2> QED
    BY <2>1, <2>2, Zenon DEF Contract!Insert
<1> QED
  BY <1>9, <1>10 DEF VecStep, Contract!Next

LEMMA PushBackInv ==
    ASSUME VecInv, NEW x \in Vec!Free, Vec!vector_push_back(x)
    PROVE  VecInv' /\ VecStep
<1>1. PICK r : r = Vec!Reserved
  OBVIOUS
<1>2. /\ r \in Seq(Slots) /\ Len(r) >= size + 1 /\ Len(r) \in Nat /\ size \in Nat
      /\ \A k \in 1 .. size : r[k] = array[k]
  BY <1>1, ReservedIs, OldContents, LenProperties
<1>3. array' = [r EXCEPT ![size + 1] = x] /\ size' = size + 1 /\ live' = live \cup {x}
  BY <1>1 DEF Vec!vector_push_back, Vec!With
<1>4. x \in Slots /\ size + 1 \in 1 .. Len(r)
  BY <1>2 DEF Vec!Free, Slots
<1>5. PICK i : i = size + 1
  OBVIOUS
<1>6. /\ array' \in Seq(Slots) /\ Len(array') = Len(r)
      /\ \A k \in 1 .. Len(r) : array'[k] = IF k = i THEN x ELSE r[k]
  <2>1. /\ [r EXCEPT ![i] = x] \in Seq(Slots) /\ Len([r EXCEPT ![i] = x]) = Len(r)
        /\ \A k \in 1 .. Len(r) : [r EXCEPT ![i] = x][k] = IF k = i THEN x ELSE r[k]
    BY <1>2, <1>4, <1>5, ExceptSeq
  <2>2. array' = [r EXCEPT ![i] = x]
    BY <1>3, <1>5
  <2> QED
    BY <2>1, <2>2, Zenon
<1>7. \A k \in 1 .. size + 1 :
        array'[k] = IF k < i THEN array[k] ELSE IF k = i THEN x ELSE array[k - 1]
  BY <1>2, <1>5, <1>6
<1>8. i \in 1 .. size + 1 /\ size + 1 =< Len(array')
  BY <1>2, <1>5, <1>6
<1> QED
  BY <1>3, <1>6, <1>7, <1>8, ComesIn

LEMMA InsertInv ==
    ASSUME VecInv, NEW i \in 1 .. size, NEW x \in Vec!Free, Vec!vector_insert(i, x)
    PROVE  VecInv' /\ VecStep
<1>1. PICK r, n, f : /\ r = Vec!Reserved /\ n = Len(r)
                     /\ f = [k \in DOMAIN r |-> IF k \in i + 1 .. size + 1 THEN r[k - 1] ELSE r[k]]
  OBVIOUS
<1>2. /\ r \in Seq(Slots) /\ n >= size + 1 /\ n \in Nat /\ size \in Nat
      /\ DOMAIN r = 1 .. n
      /\ \A k \in 1 .. size : r[k] = array[k]
  BY <1>1, ReservedIs, OldContents, LenProperties
<1>3. \A k \in 1 .. n : r[k] \in Slots
  BY <1>1, <1>2, ElementOfSeq
<1>4. f \in Seq(Slots) /\ Len(f) = n
  <2>1. ASSUME NEW k \in 1 .. n PROVE f[k] \in Slots
    <3>1. k \in i + 1 .. size + 1 => k - 1 \in 1 .. n
      BY <1>2
    <3>2. f[k] = IF k \in i + 1 .. size + 1 THEN r[k - 1] ELSE r[k]
      BY <1>1, <1>2
    <3> QED
      BY <1>3, <3>1, <3>2
  <2>2. f \in [1 .. n -> Slots]
    BY <1>1, <1>2, <2>1
  <2> QED
    BY <1>2, <2>2, FunctionIsSeq
<1>5. array' = [f EXCEPT ![i] = x] /\ size' = size + 1 /\ live' = live \cup {x}
  BY <1>1 DEF Vec!vector_insert, Vec!With
<1>6. x \in Slots /\ i \in 1 .. Len(f)
  BY <1>2, <1>4 DEF Vec!Free, Slots
<1>7. /\ array' \in Seq(Slots) /\ Len(array') = n
      /\ \A k \in 1 .. n : array'[k] = IF k = i THEN x ELSE f[k]
  <2>1. /\ [f EXCEPT ![i] = x] \in Seq(Slots) /\ Len([f EXCEPT ![i] = x]) = Len(f)
        /\ \A k \in 1 .. Len(f) : [f EXCEPT ![i] = x][k] = IF k = i THEN x ELSE f[k]
    BY <1>4, <1>6, ExceptSeq
  <2> QED
    BY <1>4, <1>5, <2>1, Zenon
<1>8. ASSUME NEW k \in 1 .. size + 1
      PROVE  array'[k] = IF k < i THEN array[k] ELSE IF k = i THEN x ELSE array[k - 1]
  <2>1. k \in 1 .. n /\ f[k] = IF k \in i + 1 .. size + 1 THEN r[k - 1] ELSE r[k]
    BY <1>1, <1>2
  <2>2. CASE k =< i
    BY <1>2, <1>7, <2>1, <2>2
  <2>3. CASE k > i
    <3>1. k \in i + 1 .. size + 1 /\ k - 1 \in 1 .. size
      BY <1>2, <2>3
    <3>2. f[k] = array[k - 1]
      BY <1>2, <2>1, <3>1
    <3> QED
      BY <1>2, <1>7, <2>1, <2>3, <3>2
  <2> QED
    BY <1>2, <2>2, <2>3
<1>9. i \in 1 .. size + 1 /\ size + 1 =< Len(array')
  BY <1>2, <1>7
<1> QED
  BY <1>5, <1>7, <1>8, <1>9, ComesIn

LEMMA EraseInv ==
    ASSUME VecInv, NEW i \in 1 .. size, Vec!vector_erase(i)
    PROVE  VecInv' /\ VecStep
<1>1. PICK c, lv, d, n, m, f :
        /\ c = Vec!Contents /\ lv = live /\ d = Vec!Contents' /\ n = Len(array) /\ m = size
        /\ f = [k \in DOMAIN array |-> IF k \in i .. m - 1 THEN array[k + 1] ELSE array[k]]
  OBVIOUS
<1>2. /\ c \in Seq(Slots) /\ Len(c) = m /\ m \in Nat /\ n \in Nat /\ m =< n
      /\ \A k \in 1 .. m : c[k] = array[k]
  BY <1>1, OldContents, LenProperties DEF VecInv
<1>3. /\ array \in Seq(Slots) /\ DOMAIN array = 1 .. n
      /\ \A k \in 1 .. n : array[k] \in Slots
  BY <1>1, LenProperties, ElementOfSeq DEF VecInv
<1>4. f \in Seq(Slots) /\ Len(f) = n
  <2>1. ASSUME NEW k \in 1 .. n PROVE f[k] \in Slots
    <3>1. k \in i .. m - 1 => k + 1 \in 1 .. n
      BY <1>2
    <3>2. f[k] = IF k \in i .. m - 1 THEN array[k + 1] ELSE array[k]
      BY <1>1, <1>3
    <3> QED
      BY <1>3, <3>1, <3>2
  <2>2. f \in [1 .. n -> Slots]
    BY <1>1, <1>3, <2>1
  <2> QED
    BY <1>2, <2>2, FunctionIsSeq
<1>5. array' = [f EXCEPT ![m] = JUNK] /\ size' = m - 1 /\ live' = live \ {array[i]}
  BY <1>1 DEF Vec!vector_erase, Vec!With
<1>6. JUNK \in Slots /\ m \in 1 .. Len(f) /\ i \in 1 .. m
  BY <1>1, <1>2, <1>4 DEF Slots
<1>7. /\ array' \in Seq(Slots) /\ Len(array') = n
      /\ \A k \in 1 .. n : array'[k] = IF k = m THEN JUNK ELSE f[k]
  <2>1. /\ [f EXCEPT ![m] = JUNK] \in Seq(Slots) /\ Len([f EXCEPT ![m] = JUNK]) = Len(f)
        /\ \A k \in 1 .. Len(f) : [f EXCEPT ![m] = JUNK][k] = IF k = m THEN JUNK ELSE f[k]
    BY <1>4, <1>6, ExceptSeq
  <2> QED
    BY <1>4, <1>5, <2>1, Zenon
<1>8. size' \in 0 .. Len(array')
  BY <1>2, <1>5, <1>6, <1>7
<1>9. d \in Seq(Slots) /\ Len(d) = m - 1 /\ \A k \in 1 .. m - 1 : d[k] = array'[k]
  BY <1>1, <1>5, <1>7, <1>8, NewContents
<1>10. ASSUME NEW k \in 1 .. m - 1 PROVE d[k] = IF k < i THEN c[k] ELSE c[k + 1]
  <2>1. k \in 1 .. n /\ k # m /\ f[k] = IF k \in i .. m - 1 THEN array[k + 1] ELSE array[k]
    BY <1>1, <1>2, <1>3
  <2>2. d[k] = f[k]
    BY <1>7, <1>9, <2>1
  <2>3. CASE k < i
    BY <1>2, <1>6, <2>1, <2>2, <2>3
  <2>4. CASE k >= i
    <3>1. k \in i .. m - 1 /\ k + 1 \in 1 .. m
      BY <1>2, <1>6, <2>4
    <3>2. c[k + 1] = array[k + 1]
      BY <1>2, <3>1
    <3> QED
      BY <1>6, <2>1, <2>2, <2>4, <3>1, <3>2
  <2> QED
    BY <1>2, <2>3, <2>4
<1>11. Owns(c, lv) /\ i \in 1 .. Len(c) /\ c[i] = array[i]
  BY <1>1, <1>2, <1>6 DEF VecInv
<1>12. d = Contract!RemoveAt(c, i) /\ Owns(d, lv \ {c[i]})
  BY <1>2, <1>9, <1>10, <1>11, EraseStep
<1>13. live' = lv \ {c[i]}
  BY <1>1, <1>5, <1>11
<1>14. VecInv'
  BY <1>1, <1>7, <1>8, <1>12, <1>13 DEF VecInv
<1>15. Contract!Erase
  <2>1. i \in DOMAIN c
    BY <1>2, <1>6, LenProperties
  <2> QED
    BY <1>1, <1>12, <1>13, <2>1, Zenon DEF Contract!Erase
<1> QED
  BY <1>14, <1>15 DEF VecStep, Contract!Next

LEMMA SetInv ==
    ASSUME VecInv, NEW i \in 1 .. size, Vec!vector_set(i)
    PROVE  VecInv' /\ VecStep
<1>1. PICK x \in Vec!Free \cup {array[i]} :
        /\ live' = (live \ {array[i]}) \cup {x}
        /\ array' = [array EXCEPT ![i] = x] /\ size' = size
  BY DEF Vec!vector_set, Vec!With
<1>2. PICK c, lv, d, m : c = Vec!Contents /\ lv = live /\ d = Vec!Contents' /\ m = size
  OBVIOUS
<1>3. /\ c \in Seq(Slots) /\ Len(c) = m /\ m \in Nat
      /\ \A k \in 1 .. m : c[k] = array[k]
  BY <1>2, OldContents
<1>4. array \in Seq(Slots) /\ i \in 1 .. Len(array) /\ i \in 1 .. m /\ Len(array) \in Nat
  BY <1>2, LenProperties DEF VecInv
<1>5. array[i] \in Slots /\ c[i] = array[i] /\ Owns(c, lv)
  BY <1>2, <1>3, <1>4, ElementOfSeq DEF VecInv
<1>6. x \in Slots /\ x \notin lv \ {c[i]}
  BY <1>2, <1>5 DEF Vec!Free, Slots
<1>7. /\ array' \in Seq(Slots) /\ Len(array') = Len(array)
      /\ \A k \in 1 .. Len(array) : array'[k] = IF k = i THEN x ELSE array[k]
  <2>1. /\ [array EXCEPT ![i] = x] \in Seq(Slots) /\ Len([array EXCEPT ![i] = x]) = Len(array)
        /\ \A k \in 1 .. Len(array) : [array EXCEPT ![i] = x][k] = IF k = i THEN x ELSE array[k]
    BY <1>4, <1>6, ExceptSeq
  <2> QED
    BY <1>1, <2>1, Zenon
<1>8. size' \in 0 .. Len(array') /\ size' = m /\ m =< Len(array)
  BY <1>1, <1>2, <1>7 DEF VecInv
<1>9. d \in Seq(Slots) /\ Len(d) = m /\ \A k \in 1 .. m : d[k] = array'[k]
  BY <1>2, <1>7, <1>8, NewContents
<1>10. \A k \in 1 .. m : d[k] = IF k = i THEN x ELSE c[k]
  BY <1>3, <1>4, <1>7, <1>8, <1>9
<1>11. d = [c EXCEPT ![i] = x] /\ Owns(d, (lv \ {c[i]}) \cup {x})
  BY <1>3, <1>4, <1>5, <1>6, <1>9, <1>10, SetStep
<1>12. live' = (lv \ {c[i]}) \cup {x}
  BY <1>1, <1>2, <1>5
<1>13. VecInv'
  BY <1>2, <1>7, <1>8, <1>11, <1>12 DEF VecInv
<1>14. Contract!Set
  <2>1. i \in DOMAIN c /\ x \in live'
    BY <1>3, <1>4, <1>12, LenProperties
  <2> QED
    BY <1>2, <1>6, <1>11, <1>12, <2>1, Zenon DEF Contract!Set
<1> QED
  BY <1>13, <1>14 DEF VecStep, Contract!Next

\* The elements from place n + 1 on are destroyed, whatever becomes of their places.
LEMMA GoesBack ==
    ASSUME VecInv, NEW n \in 0 .. size, size' = n,
           live' = live \ {array[k] : k \in n + 1 .. size},
           array' \in Seq(Slots), n =< Len(array'), \A k \in 1 .. n : array'[k] = array[k]
    PROVE  VecInv' /\ VecStep
<1>1. PICK c, lv, d, m : c = Vec!Contents /\ lv = live /\ d = Vec!Contents' /\ m = size
  OBVIOUS
<1>2. /\ c \in Seq(Slots) /\ Len(c) = m /\ m \in Nat
      /\ \A k \in 1 .. m : c[k] = array[k]
  BY <1>1, OldContents
<1>3. size' \in 0 .. Len(array') /\ n \in 0 .. m
  BY <1>1, LenProperties
<1>4. d \in Seq(Slots) /\ Len(d) = n /\ \A k \in 1 .. n : d[k] = array'[k]
  BY <1>1, <1>3, NewContents
<1>5. \A k \in 1 .. n : d[k] = c[k]
  BY <1>1, <1>2, <1>3, <1>4
<1>6. Owns(c, lv)
  BY <1>1 DEF VecInv
<1>7. /\ Contract!IsPrefix(d, c)
      /\ Owns(d, lv \ {c[k] : k \in n + 1 .. m})
  BY <1>2, <1>3, <1>4, <1>5, <1>6, ShrinkStep
<1>8. live' = lv \ {c[k] : k \in n + 1 .. m}
  <2>1. \A k \in n + 1 .. m : k \in 1 .. m
    BY <1>2, <1>3
  <2>2. {c[k] : k \in n + 1 .. m} = {array[k] : k \in n + 1 .. m}
    BY <1>2, <2>1
  <2> QED
    BY <1>1, <2>2
<1>9. Owns(d, live')
  BY <1>7, <1>8
<1>10. VecInv'
  BY <1>1, <1>3, <1>9 DEF VecInv
<1>11. live' = Contract!ToSet(d)
  BY <1>9, OwnedAre
<1>12. Contract!Resize
  BY <1>1, <1>7, <1>11, Zenon DEF Contract!Resize
<1> QED
  BY <1>10, <1>12 DEF VecStep, Contract!Next

LEMMA ShrinkInv ==
    ASSUME VecInv, NEW n \in 0 .. size, Vec!Shrink(n)
    PROVE  VecInv' /\ VecStep
<1>1. PICK m : m = Len(array) /\ m \in Nat /\ size \in 0 .. m
  BY LenProperties DEF VecInv
<1>2. array \in Seq(Slots) /\ DOMAIN array = 1 .. m /\ \A k \in 1 .. m : array[k] \in Slots
  BY <1>1, LenProperties, ElementOfSeq DEF VecInv
<1>3. /\ array' = [k \in 1 .. m |-> IF k \in n + 1 .. size THEN JUNK ELSE array[k]]
      /\ size' = n /\ live' = live \ {array[k] : k \in n + 1 .. size}
  BY <1>2 DEF Vec!Shrink
<1>4. array' \in Seq(Slots) /\ Len(array') = m
  <2>1. array' \in [1 .. m -> Slots]
    BY <1>2, <1>3 DEF Slots
  <2>2. PICK f : f = array'
    OBVIOUS
  <2> QED
    BY <1>1, <2>1, <2>2, FunctionIsSeq
<1>5. n =< Len(array') /\ \A k \in 1 .. n : array'[k] = array[k]
  BY <1>1, <1>3, <1>4
<1> QED
  BY <1>3, <1>4, <1>5, GoesBack

LEMMA DestroyInv ==
    ASSUME VecInv, Vec!vector_destroy
    PROVE  VecInv' /\ VecStep
<1>1. size \in Nat
  BY OldContents
<1>2. array' \in Seq(Slots) /\ Len(array') = INITIAL_CAPACITY
  BY JunkIs, VectorAssumption DEF Vec!vector_destroy
<1>3. PICK n : n = 0 /\ n \in 0 .. size
  BY <1>1
<1>4. size' = n /\ live' = live \ {array[k] : k \in n + 1 .. size}
  BY <1>3 DEF Vec!vector_destroy
<1>5. n =< Len(array') /\ \A k \in 1 .. n : array'[k] = array[k]
  BY <1>2, <1>3, VectorAssumption
<1> QED
  BY <1>2, <1>3, <1>4, <1>5, GoesBack

LEMMA EnlargeInv ==
    ASSUME VecInv, NEW n \in Nat, n > size, Vec!Enlarge(n)
    PROVE  VecInv' /\ VecStep
<1>1. PICK c, lv, d, m : c = Vec!Contents /\ lv = live /\ d = Vec!Contents' /\ m = size
  OBVIOUS
<1>2. /\ c \in Seq(Slots) /\ Len(c) = m /\ m \in Nat
      /\ \A k \in 1 .. m : c[k] = array[k]
  BY <1>1, OldContents
<1>3. PICK old : old = IF n > Vec!capacity THEN Vec!Grown(n) ELSE array
  OBVIOUS
<1>4. PICK new \in [m + 1 .. n -> Vec!Free] :
        /\ Vec!IsInjective(new)
        /\ live' = live \cup Vec!Range(new)
        /\ array' = [i \in DOMAIN old |-> IF i \in DOMAIN new THEN new[i] ELSE old[i]]
        /\ size' = n
  BY <1>1, <1>3 DEF Vec!Enlarge
<1>5. PICK w : /\ old \in Seq(Slots) /\ w = Len(old) /\ w \in Nat /\ n =< w
               /\ \A k \in 1 .. m : old[k] = c[k]
  <2>1. CASE n > Vec!capacity
    <3>1. Vec!get_new_capacity(n) >= n /\ Vec!get_new_capacity(n) \in Nat
      BY NewCapacityFits
    <3>2. Vec!get_new_capacity(n) >= size
      BY <1>1, <1>2, <3>1
    <3>3. /\ old \in Seq(Slots) /\ Len(old) = Vec!get_new_capacity(n)
          /\ \A k \in 1 .. size : old[k] = array[k]
      BY <1>3, <2>1, <3>2, GrownIs
    <3> QED
      BY <1>1, <1>2, <3>1, <3>3
  <2>2. CASE ~(n > Vec!capacity)
    <3>1. old = array /\ array \in Seq(Slots) /\ Len(array) \in Nat
      BY <1>3, <2>2, LenProperties DEF VecInv
    <3> QED
      BY <1>2, <2>2, <3>1 DEF Vec!capacity
  <2> QED
    BY <2>1, <2>2
<1>6. DOMAIN old = 1 .. w /\ \A k \in 1 .. w : old[k] \in Slots
  BY <1>5, LenProperties, ElementOfSeq
<1>7. /\ DOMAIN new = m + 1 .. n /\ new \in [m + 1 .. n -> Slots \ lv]
      /\ \A k \in m + 1 .. n : new[k] \in Slots
      /\ \A i, k \in m + 1 .. n : new[i] = new[k] => i = k
      /\ Vec!Range(new) = {new[k] : k \in m + 1 .. n}
  BY <1>1, <1>4 DEF Vec!Free, Slots, Vec!IsInjective, Vec!Range
<1>8. array' \in Seq(Slots) /\ Len(array') = w
  <2>1. array' \in [1 .. w -> Slots]
    BY <1>4, <1>6, <1>7
  <2>2. PICK f : f = array'
    OBVIOUS
  <2> QED
    BY <1>5, <2>1, <2>2, FunctionIsSeq
<1>9. size' \in 0 .. Len(array')
  BY <1>4, <1>5, <1>8
<1>10. d \in Seq(Slots) /\ Len(d) = n /\ \A k \in 1 .. n : d[k] = array'[k]
  BY <1>1, <1>4, <1>8, <1>9, NewContents
<1>11. ASSUME NEW k \in 1 .. n PROVE d[k] = IF k \in m + 1 .. n THEN new[k] ELSE c[k]
  <2>1. k \in 1 .. w /\ d[k] = array'[k]
    BY <1>5, <1>10
  <2>2. d[k] = IF k \in m + 1 .. n THEN new[k] ELSE old[k]
    BY <1>4, <1>6, <1>7, <2>1
  <2>3. k \notin m + 1 .. n => k \in 1 .. m
    BY <1>2
  <2> QED
    BY <1>5, <2>2, <2>3
<1>12. Owns(c, lv) /\ Len(c) < n
  BY <1>1, <1>2 DEF VecInv
<1>13. PICK W : W = Vec!Range(new)
  OBVIOUS
<1>14. Contract!IsPrefix(c, d) /\ Owns(d, live')
  <2>1. Longer(d, c, lv, n, new, W)
    BY <1>2, <1>7, <1>10, <1>11, <1>12, <1>13, Zenon DEF Longer
  <2>2. Contract!IsPrefix(c, d) /\ Owns(d, lv \cup W)
    BY <1>12, <2>1, GrowStep
  <2> QED
    BY <1>1, <1>4, <1>13, <2>2
<1>15. VecInv'
  BY <1>1, <1>8, <1>9, <1>14 DEF VecInv
<1>16. live' = Contract!ToSet(d) /\ Contract!IsInjective(d)
  BY <1>14, OwnedAre
<1>17. Contract!Resize
  BY <1>1, <1>14, <1>16, Zenon DEF Contract!Resize
<1> QED
  BY <1>15, <1>17 DEF VecStep, Contract!Next

LEMMA ReserveInv ==
    ASSUME VecInv, NEW n \in Nat, Vec!vector_reserve(n)
    PROVE  VecInv' /\ VecStep
<1>1. size' = size /\ live' = live /\ size \in Nat /\ Vec!get_new_capacity(n) \in Nat
  BY OldContents, NewCapacityFits DEF Vec!vector_reserve
<1>2. CASE Vec!get_new_capacity(n) < size
  <2>1. array' = array
    BY <1>2 DEF Vec!vector_reserve
  <2> QED
    BY <1>1, <2>1 DEF VecInv, VecStep, Vec!Contents
<1>3. CASE ~(Vec!get_new_capacity(n) < size)
  <2>1. array' = Vec!Grown(n)
    BY <1>3 DEF Vec!vector_reserve
  <2>2. Vec!get_new_capacity(n) >= size
    BY <1>1, <1>3
  <2>3. /\ array' \in Seq(Slots) /\ size' \in 0 .. Len(array')
        /\ \A k \in 1 .. size : array'[k] = array[k]
    BY <1>1, <2>1, <2>2, GrownIs
  <2>4. PICK c, d : c = Vec!Contents /\ d = Vec!Contents'
    OBVIOUS
  <2>5. c \in Seq(Slots) /\ Len(c) = size /\ \A k \in 1 .. size : c[k] = array[k]
    BY <2>4, OldContents
  <2>6. d \in Seq(Slots) /\ Len(d) = size /\ \A k \in 1 .. size : d[k] = array'[k]
    BY <1>1, <2>3, <2>4, NewContents
  <2>7. c = d
    BY <2>3, <2>5, <2>6, SeqEqual
  <2> QED
    BY <1>1, <2>3, <2>4, <2>7 DEF VecInv, VecStep
<1> QED
  BY <1>2, <1>3

LEMMA VecNext == VecInv /\ [Vec!Next]_vectorVars => VecInv' /\ VecStep
<1> SUFFICES ASSUME VecInv, [Vec!Next]_vectorVars PROVE VecInv' /\ VecStep
  OBVIOUS
<1>1. size \in Nat /\ Vec!Cardinality(Copies) \in Nat
  <2>1. \A S : Vec!Cardinality(S) = Cardinality(S)
    BY DEF Vec!Cardinality, Cardinality
  <2> QED
    BY <2>1, OldContents, FS_CardinalityType, VectorAssumption
<1>2. ASSUME NEW n \in 0 .. Vec!Cardinality(Copies), Vec!vector_reserve(n)
      PROVE  VecInv' /\ VecStep
  BY <1>1, <1>2, ReserveInv
<1>3. ASSUME NEW n \in 0 .. Vec!Cardinality(Copies), Vec!vector_resize(n)
      PROVE  VecInv' /\ VecStep
  <2>1. CASE n < size /\ Vec!Shrink(n)
    BY <1>1, <2>1, ShrinkInv
  <2>2. CASE n > size /\ Vec!Enlarge(n)
    BY <1>1, <2>2, EnlargeInv
  <2> QED
    BY <1>3, <2>1, <2>2 DEF Vec!vector_resize
<1>4. CASE Vec!vector_pop_back
  <2>1. PICK n : n = size - 1
    OBVIOUS
  <2>2. n \in 0 .. size /\ Vec!Shrink(n)
    BY <1>1, <1>4, <2>1 DEF Vec!vector_pop_back
  <2> QED
    BY <2>2, ShrinkInv
<1>5. CASE Vec!vector_clear
  <2>1. 0 \in 0 .. size /\ Vec!Shrink(0)
    BY <1>1, <1>5 DEF Vec!vector_clear
  <2> QED
    BY <2>1, ShrinkInv
<1>6. CASE UNCHANGED vectorVars
  BY <1>6 DEF vectorVars, VecInv, VecStep, Vec!Contents
<1> QED
  BY <1>2, <1>3, <1>4, <1>5, <1>6, PushBackInv, InsertInv, SetInv, EraseInv, DestroyInv
  DEF Vec!Next

-----------------------------------------------------------------------------
(* The programs together.                                                  *)
AllInv == HistoryInv /\ ChildInv /\ CrackInv /\ SchedInv /\ SemmInv /\ VecInv

LEMMA InitAllInv == Init => AllInv
BY HistoryInit, ChildInit, CrackInit, SchedInit, SemmInit, VecInit DEF Init, AllInv

LEMMA NextAllInv == AllInv /\ [Next]_vars => AllInv'
<1> SUFFICES ASSUME AllInv, [Next]_vars PROVE AllInv'
  OBVIOUS
<1>1. /\ [She!Next]_shellVars /\ [Cra!Next]_crackerVars /\ [Sch!Next]_schedulerVars
      /\ [Semm!Next]_semamoreVars /\ [Vec!Next]_vectorVars
  BY DEF Next, vars
<1> QED
  BY <1>1, HistoryNext, ChildNext, CrackNext, SchedNext, SemmNext, VecNext DEF AllInv

(* The invariant holds in every reachable state of the five programs.      *)
THEOREM Invariance == Spec => []AllInv
<1> QED
  BY InitAllInv, NextAllInv, PTL DEF Spec

(* libscheduler.c loses no job under any of its schemes, lets none run     *)
(* beyond its time, and its statistics are the times that were seen.       *)
THEOREM NoJobIsLost == Spec => []JobsAccounted
<1>1. AllInv => JobsAccounted
  BY SchedAccounts DEF AllInv, JobsAccounted
<1> QED
  BY <1>1, Invariance, PTL

(* libscheduler.c gives the processor to the best of the jobs that wait.   *)
THEOREM TheBestRuns == Spec => BestRuns
<1>1. ASSUME AllInv, [Next]_vars
      PROVE  [Sch!Quantum /\ running' # NULL
                /\ (scheme \in {"PPRI", "PSRTF"} \/ running' # running)
              => \A j \in Sch!ToSet(pqueue') : ~Sch!Before(info'[j], info'[running'])]_Sch!vars
  BY <1>1, SchedBest DEF AllInv
<1> QED
  BY <1>1, Invariance, PTL DEF Spec, BestRuns, Sch!BestRuns

(* cracker2.c finds the password that is among the candidates, and else    *)
(* tries each of them, for any number of threads and of candidates.        *)
THEOREM SearchIsComplete == Spec => []SearchComplete
<1>1. AllInv => SearchComplete
  BY JoinedIsComplete DEF AllInv, SearchComplete
<1> QED
  BY <1>1, Invariance, PTL

(* shell.c keeps what was typed or recalled, once and in order.            *)
THEOREM HistoryIsKept == Spec => []HistoryKept
<1>1. AllInv => HistoryKept
  BY DEF AllInv, HistoryInv, HistoryKept
<1> QED
  BY <1>1, Invariance, PTL

(* shell.c forgets no child, and knows how its last command ended as long  *)
(* as the handler is not installed.                                        *)
THEOREM NoChildIsForgotten == Spec => []ChildrenAccounted
<1>1. AllInv => ChildrenAccounted
  BY DEF AllInv, ChildInv, ChildrenAccounted
<1> QED
  BY <1>1, Invariance, PTL

(* In semamore.c, broadcasting at max_val - 1 and at 1 only is enough, for *)
(* any max_val: nobody sleeps at a bound that value has left.              *)
THEOREM NoWakeupIsLost == Spec => []NoLostWakeup
<1>1. AllInv => NoLostWakeup
  BY DEF AllInv, SemmInv, NoLostWakeup
<1> QED
  BY <1>1, Invariance, PTL

(* value of semamore.c never leaves 0..max_val.                            *)
THEOREM ValueInRange == Spec => []ValueBounded
<1>1. AllInv => ValueBounded
  BY DEF AllInv, SemmInv, ValueBounded
<1> QED
  BY <1>1, Invariance, PTL
(* vector.c is the sequence of the copies it owns, for any capacity to     *)
(* begin with and any number of copies: none is lost, leaked, destroyed    *)
(* twice or out of place.                                                  *)
THEOREM VectorIsSequence == Spec => ImplementsSequence
<1>1. Init => Contract!Init
  BY VecInit DEF Init
<1>2. AllInv /\ [Next]_vars => VecStep
  <2>1. [Next]_vars => [Vec!Next]_vectorVars
    BY DEF Next, vars
  <2> QED
    BY <2>1, VecNext DEF AllInv
<1> QED
  BY <1>1, <1>2, Invariance, PTL DEF Spec, ImplementsSequence, Contract!Spec, VecStep
=============================================================================
