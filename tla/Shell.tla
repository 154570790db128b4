------------------------------- MODULE Shell -------------------------------
(***************************************************************************)
(* shell.c: command lines with one logical operator, history, foreground   *)
(* and background processes, the SIGCHLD handler, and the commands that    *)
(* signal processes.  A line is a sequence of words; a program is known by *)
(* its first word.  Lines are shorter than 40 characters, where shell.c    *)
(* ends its buffers, and blanks stand around every word; !history and ps   *)
(* are commands of one word; kill, stop and cont run in the foreground and *)
(* do not name their own process.                                          *)
(*                                                                         *)
(* ps uses memory after it freed it when it shows more than one process:   *)
(* it may end the shell, or do no harm.  Redirections and the file that    *)
(* they open belong to the child and are left out.                         *)
(***************************************************************************)
EXTENDS Integers, Sequences, FiniteSetsExt, SequencesExt

CONSTANTS Lines,      \* what may be typed, or stand in a script
          Failing,    \* the programs that exit with 1; all others exit with 0
          Pids,       \* words, as kill takes them
          Index,      \* the numbers of the words that # may be given
          MaxHistory, \* bounds the lines that are remembered
          NULL

VARIABLES mode,      \* "plain", "-h" (history file) or "-f" (script)
          shell,     \* "runs", "exited" or "aborted"
          script,    \* the lines of the script that were not yet read
          file, v,   \* the history in the file, and in memory
          todo,      \* what is left of the line: a stack of steps
          res,       \* what the last command returned
          forked,    \* the child just forked: [pid, back], or NULL
          state,     \* of each process: "none", "runs", "stopped" or "zombie"
          cmd, code, \* what it executes, and how it ended
          process_v, \* the background processes that ps knows: a set of pids
          handler,   \* the SIGCHLD handler is installed,
          sigchld,   \* and a signal is pending
          entered,   \* all that was ever put into the history
          truth      \* how the last command ended

histVars  == <<script, file, v, entered>>
childVars == <<state, cmd, code, sigchld>>
vars == <<mode, shell, histVars, todo, res, forked, childVars, process_v, handler, truth>>

Init == /\ mode \in {"plain", "-h", "-f"} /\ shell = "runs"
        /\ script \in IF mode = "-f" THEN {<<a, b>> : a, b \in Lines} ELSE {<<>>}
        /\ file = script /\ v = <<>> /\ entered = script
        /\ todo = <<>> /\ res = 0 /\ truth = 0 /\ forked = NULL
        /\ state = [p \in Pids |-> "none"] /\ cmd = [p \in Pids |-> <<>>]
        /\ code = [p \in Pids |-> 0]
        /\ process_v = {} /\ handler = FALSE /\ sigchld = FALSE

Step(do, words) == [do |-> do, words |-> words]

FromHistory(l) == l[1] \in {"#", "!", "!history"}

\* Mutant: what was written to the file stays in memory.
KeptAfterWrite == v

Cleared == <<>>

\* wirte_to_file
Write == IF mode = "plain" \/ v = <<>> THEN UNCHANGED <<file, v>>
         ELSE file' = file \o v /\ v' = Cleared

History == IF mode = "plain" THEN v ELSE file \o v

-----------------------------------------------------------------------------
(* noflag, hist_flag and file_flag: the lines.                             *)
AtPrompt == shell = "runs" /\ todo = <<>> /\ forked = NULL

ReadLine(l) ==
    /\ AtPrompt /\ mode # "-f" /\ Len(entered) < MaxHistory
    /\ IF FromHistory(l) THEN UNCHANGED <<v, entered>>
       ELSE v' = Append(v, l) /\ entered' = Append(entered, l)
    /\ todo' = <<Step("line", l)>> /\ res' = 0 /\ truth' = 0
    /\ UNCHANGED <<mode, shell, script, file, forked, childVars, process_v, handler>>

ReadScript ==
    /\ AtPrompt /\ script # <<>>
    /\ todo' = <<Step("line", Head(script))>> /\ script' = Tail(script)
    /\ res' = 0 /\ truth' = 0
    /\ UNCHANGED <<mode, shell, file, v, entered, forked, childVars, process_v, handler>>

\* The end of the input, of the script, or exit.
Exit ==
    /\ AtPrompt /\ script = <<>> /\ shell' = "exited"
    /\ IF mode = "-h" THEN Write ELSE UNCHANGED <<file, v>>
    /\ UNCHANGED <<mode, script, entered, todo, res, forked, childVars, process_v, handler, truth>>

-----------------------------------------------------------------------------
(* with_logic_operator                                                     *)
Top == Head(todo)

On(do) == shell = "runs" /\ forked = NULL /\ todo # <<>> /\ Top.do = do

Operators(l) == {"&&", "||", ";"} \cap ToSet(l)

\* The operator that divides a line: && before || before ;.
Operator(l) == CASE "&&" \in Operators(l) -> "&&"
                 [] "&&" \notin Operators(l) /\ "||" \in Operators(l) -> "||"
                 [] OTHER -> ";"

Place(l) == Min({i \in DOMAIN l : l[i] = Operator(l)})

Divided(l) ==
    LET k == Place(l) IN
    IF k = 1 THEN <<>>
    ELSE <<Step("simple", SubSeq(l, 1, k - 1)), Step(Operator(l), SubSeq(l, k + 1, Len(l)))>>

Line ==
    /\ On("line")
    /\ todo' = (IF Operators(Top.words) # {} /\ Top.words[1] # "!"
                THEN Divided(Top.words) ELSE <<Step("simple", Top.words)>>) \o Tail(todo)
    /\ UNCHANGED <<mode, shell, histVars, res, forked, childVars, process_v, handler, truth>>

Second ==
    /\ \E op \in {"&&", "||", ";"} :
         /\ On(op)
         /\ todo' = (IF op = ";" \/ (op = "&&" /\ res = 0) \/ (op = "||" /\ res # 0)
                     THEN <<Step("simple", Top.words)>> ELSE <<>>) \o Tail(todo)
    /\ UNCHANGED <<mode, shell, histVars, res, forked, childVars, process_v, handler, truth>>

-----------------------------------------------------------------------------
(* run_buildin_command                                                     *)
Returns(r) == res' = r /\ truth' = r

Builtin == {"cd", "!history", "#", "!", "ps"}

cd == /\ On("simple") /\ Top.words[1] = "cd"
      /\ \E r \in {0, 1} : Returns(r)
      /\ todo' = Tail(todo)
      /\ UNCHANGED <<mode, shell, histVars, forked, childVars, process_v, handler>>

history == /\ On("simple") /\ Top.words[1] = "!history"
           /\ Write /\ Returns(0) /\ todo' = Tail(todo)
           /\ UNCHANGED <<mode, shell, script, entered, forked, childVars, process_v, handler>>

\* The lines that # and ! stand for: one or none.
Wanted(words) ==
    IF words[1] = "#" THEN {i \in DOMAIN History : i = Index[words[2]] + 1}
    ELSE LET matching == {i \in DOMAIN History : IsPrefix(Tail(words), History[i])}
         IN IF matching = {} THEN {} ELSE {Max(matching)}

\* A line that is recalled is remembered again and executed; its result is
\* not passed on.  A lone ! fails an assertion when the file is empty.
Recall ==
    /\ On("simple") /\ Top.words[1] \in {"#", "!"}
    /\ \/ /\ Wanted(Top.words) = {} /\ Write /\ todo' = Tail(todo) /\ UNCHANGED entered
          /\ IF Top.words = <<"!">> /\ mode # "plain"
             THEN shell' = "aborted" /\ UNCHANGED <<res, truth>>
             ELSE Returns(1) /\ UNCHANGED shell
       \/ \E i \in Wanted(Top.words) :
            /\ Len(entered) < MaxHistory
            /\ entered' = Append(entered, History[i])
            /\ IF mode = "plain" THEN v' = Append(v, History[i]) /\ UNCHANGED file
               ELSE file' = file \o v /\ v' = Append(Cleared, History[i])
            /\ todo' = <<Step("line", History[i]), Step("done", <<>>)>> \o Tail(todo)
            /\ UNCHANGED <<shell, res, truth>>
    /\ UNCHANGED <<mode, script, forked, childVars, process_v, handler>>

Recalled == /\ On("done") /\ Returns(0) /\ todo' = Tail(todo)
            /\ UNCHANGED <<mode, shell, histVars, forked, childVars, process_v, handler>>

\* ps shows the shell and what is there of process_v, and drops the rest.
ps == LET there == {p \in process_v : state[p] # "none"} IN
      /\ On("simple") /\ Top.words[1] = "ps"
      /\ process_v' = there
      /\ \/ UNCHANGED shell
         \/ there # {} /\ shell' = "aborted"
      /\ Returns(0) /\ todo' = Tail(todo)
      /\ UNCHANGED <<mode, histVars, forked, childVars, handler>>

-----------------------------------------------------------------------------
(* run_external_command                                                    *)
IsBackground(words) == Len(words) > 1 /\ Last(words) = "&"

Fork ==
    /\ On("simple") /\ Top.words[1] \notin Builtin /\ todo' = Tail(todo)
    /\ \/ \E p \in Pids :
            /\ state[p] = "none" /\ p \notin ToSet(Top.words)
            /\ state' = [state EXCEPT ![p] = "runs"]
            /\ cmd' = [cmd EXCEPT ![p] = Top.words]
            /\ forked' = [pid |-> p, back |-> IsBackground(Top.words)]
            /\ UNCHANGED shell
       \/ /\ \A p \in Pids : state[p] # "none" \/ p \in ToSet(Top.words)
          /\ shell' = "exited" /\ UNCHANGED <<state, cmd, forked>>
    /\ UNCHANGED <<mode, histVars, res, code, sigchld, process_v, handler, truth>>

\* The handler is installed, and the process listed, after the fork.
Background ==
    /\ shell = "runs" /\ forked # NULL /\ forked.back
    /\ handler' = TRUE
    /\ process_v' = process_v \cup {forked.pid}
    /\ Returns(0) /\ forked' = NULL
    /\ UNCHANGED <<mode, shell, histVars, todo, childVars>>

Reap(zombies) ==
    /\ state' = [p \in Pids |-> IF p \in zombies THEN "none" ELSE state[p]]
    /\ cmd' = [p \in Pids |-> IF p \in zombies THEN <<>> ELSE cmd[p]]
    /\ code' = [p \in Pids |-> IF p \in zombies THEN 0 ELSE code[p]]

\* Mutant: a child that is gone is waited for.
EndedOnly == {"zombie"}

Ended == {"zombie", "none"}

\* waitpid returns, also when the handler has reaped the child already: then
\* it fails and the status stays 0.
Foreground ==
    /\ shell = "runs" /\ forked # NULL /\ ~forked.back /\ state[forked.pid] \in Ended
    /\ res' = code[forked.pid]
    /\ Reap({forked.pid}) /\ forked' = NULL
    /\ UNCHANGED <<mode, shell, histVars, todo, sigchld, process_v, handler, truth>>

\* Mutant: the handler is there from the start.
InstalledAtStart == TRUE

Installed == handler

\* cleanup
Cleanup ==
    /\ shell = "runs" /\ Installed /\ sigchld /\ sigchld' = FALSE
    /\ Reap({p \in Pids : state[p] = "zombie"})
    /\ UNCHANGED <<mode, shell, histVars, todo, res, forked, process_v, handler, truth>>

-----------------------------------------------------------------------------
(* The children.  kill, stop and cont send their signal in a child.        *)
Signal == [w \in {"kill", "stop", "cont"} |->
              IF w = "kill" THEN "zombie" ELSE IF w = "stop" THEN "stopped" ELSE "runs"]

Ends(p, status) == [q \in Pids |-> IF q = p THEN status ELSE code[q]]

\* What a signal makes of process q.
After(word, q) == IF state[q] \in {"none", "zombie"} THEN state[q] ELSE Signal[word]

ChildEnds(p) ==
    LET word == cmd[p][1]
        signals == word \in DOMAIN Signal
        target == IF signals THEN cmd[p][2] ELSE NULL
        status == IF word \in Failing \/ (signals /\ state[target] = "none") THEN 1 ELSE 0
    IN /\ state[p] = "runs"
       /\ state' = [q \in Pids |-> IF q = p THEN "zombie"
                                   ELSE IF q = target THEN After(word, q) ELSE state[q]]
       /\ code' = [q \in Pids |-> IF q = p THEN status
                                  ELSE IF q = target /\ word = "kill" /\ state[q] # "none"
                                          /\ state[q] # "zombie" THEN 9 ELSE code[q]]
       /\ sigchld' = Installed
       /\ truth' = IF forked # NULL /\ ~forked.back /\ forked.pid = p THEN status ELSE truth
       /\ UNCHANGED <<mode, shell, histVars, todo, res, forked, cmd, process_v, handler>>

-----------------------------------------------------------------------------
ShellStep == \/ Line \/ Second \/ cd \/ history \/ Recall \/ Recalled \/ ps
             \/ Fork \/ Background \/ Foreground \/ Cleanup

Next == \/ ShellStep \/ ReadScript \/ Exit
        \/ \E l \in Lines : ReadLine(l)
        \/ \E p \in Pids : ChildEnds(p)

Spec == Init /\ [][Next]_vars

(* The shell goes on with its line, and programs come to an end.           *)
Fairness == WF_vars(ShellStep) /\ \A p \in Pids : WF_vars(ChildEnds(p))

-----------------------------------------------------------------------------
(* The history, in the file and in memory, is what was typed or recalled,  *)
(* each line once and in order, however often it was written to the file.  *)
HistoryKept == History = entered

(* No child is forgotten: each that exists is the one just forked or one   *)
(* that ps knows; and before the first background command, the result that *)
(* && and || look at is how the command really ended.                      *)
ChildrenAccounted ==
    /\ \A p \in Pids : state[p] # "none" =>
         p \in process_v \/ (forked # NULL /\ forked.pid = p)
    /\ forked = NULL /\ ~handler => res = truth

(* A line that comes from the history may come from it again and again.    *)
RefersToHistory == \E i \in DOMAIN History : {"#", "!"} \cap ToSet(History[i]) # {}

(* Each line comes to its end, also when the handler has reaped the child  *)
(* that the shell waits for, unless lines in the history refer to it.      *)
EveryLineEnds == ([]~RefersToHistory) => (todo # <<>> ~> todo = <<>> \/ shell # "runs")
=============================================================================
