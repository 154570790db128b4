# Verification of System-Programming-Projects

TLA+ models, TLC runs and TLAPS proofs about the programs of this repository: a
dozen independent C programs of a systems programming course. They share no
state; `parallel_make/parmake.c` and `password_cracker/cracker1.c` use the
thread-safe queue of `critical_concurrency/queue.c`.

Paths are relative to `src/`. `PROJECT.json` maps each definition to the lines
it translates and lists runs, mutants, hazards, findings and theorems.

## Inventory

| Component | State | Operations | Interaction | Hard behaviour | Correct when |
|---|---|---|---|---|---|
| Thread-safe queue, `critical_concurrency/queue.c` | linked list, `size`, `max_size`, one mutex, one condition variable | push, pull, create, destroy | used by parmake and the crackers | pushers and pullers sleep on one condition variable; conditional broadcasts; a node list changed in three shapes | no lost wakeup; `size` is the length; FIFO; bound kept; destroy frees each node once |
| Semamore, `critical_concurrency/semamore.c` | `value`, `max_val`, mutex, condition variable | wait, post | none | blocks at both ends, broadcasts at two values only | `value` in `0..max_val`; nobody sleeps at a bound that was left |
| Reusable barrier, `critical_concurrency/barrier.c` | `count`, `times_used`, mutex, condition variable | `barrier_wait` | none | fast threads enter the next round before slow ones have woken; `times_used` wraps | nobody leaves a round before all entered it; all rounds pass |
| Parallel make, `parallel_make/parmake.c` | rule graph, rule states, queue, mutex, condition variable | collect rules, worker loop, join | queue.c | dependencies are read without the mutex; the workers wait for each other; a NULL ends them | dependencies first; a rule is run once; the verdict is right; it returns |
| Deadlock-resistant mutex, `deadlock_demolition/libdrm.c` | allocation graph, global mutex, a mutex per drm | init, wait, post, destroy | the graph library | the graph is changed in one critical section, the drm's mutex locked after it | graph acyclic; no unlock of a mutex that is not held; no deadlock |
| Rendezvous, `critical_concurrency/rendezvous*.c` | two semaphores, four strings | two threads | none | each prints what the other wrote | no read before the write |
| Scheduler, `savvy_scheduler/libscheduler.c` | priority queue of jobs, statistics | start up, new job, quantum expired, job finished | called by the simulator | six schemes, preemption, remaining time | no job lost or run twice; right order; right statistics |
| Allocator, `malloc/alloc.c` | block list, free list, heap end | malloc, calloc, realloc, free | `sbrk` | split and merge, `sbrk` may fail | blocks tile the heap; free list is the free blocks; allocated blocks are disjoint |
| File store, `nonstop_networking/{server,client,common}.c` | list of files and its length in bytes, epoll set, files on disk | GET, PUT, DELETE, LIST | TCP | too little or too much data, a client that disconnects, a header that is refused, one client blocks all | what is listed is there; client and server agree on each answer; only the client that is served can end the server |
| MMU, `ideal_indirection/mmu.c` | page directories and tables, TLB, segments | read, write, add and remove process | kernel, TLB, disk of the lab | TLB over context switches, page faults, eviction by the kernel | a page holds what its process wrote; no frame is lost or used twice |
| Leak checker, `mini_memcheck/mini_memcheck.c` | list of live blocks, three counters | malloc, calloc, realloc, free | libc | invalid addresses, failing realloc | list is the live blocks; counters add up |
| Vector, `vector/vector.c` | array, size, capacity | reserve, resize, insert, erase, ... | none | growth, ownership of copies | it is the sequence of the copies it owns |
| sstring, `vector/sstring.c` | a string | append, split, substitute, slice | none | none | unit tests reach it |
| Minixfs, `finding_filesystems/minixfs.c` | superblock, inodes, data blocks | chmod, chown, create, write, read | mapped image | indirect blocks, a full disk, several steps | read yields what was written; inode and directory agree |
| Password crackers, `password_cracker/` | queue of tasks or shared `found` flag | workers | queue.c | division of the search space, stop flag | every candidate is tried once until one is found |
| Shell, `shell/shell.c` | process list, history in memory and file | commands, jobs, signals | kernel | SIGCHLD handler against `waitpid`; lines recalled into lines | history complete; no child forgotten; each line ends |
| Map-reduce driver, `mapreduce/mapreduce.c` | processes and pipes | fork, dup, wait | kernel | pipe ends left open | all processes end |
| Parallel reduce, `teaching_threads/par_reduce.c` | partial results | split, reduce, join | none | the remainder of the division | equals the sequential reduce |
| Logging server, `final/honey.c` | listener, log files | accept, log | TCP | the address of one local is shared by all threads | a client's bytes go to its own log |

Not worth a model: the chat room (`charming_chatroom/`, a skeleton whose
`run_server` and `connect_to_server` are empty), `dd`, `env` and `time`, the
lookup exercises, camelCaser, the pointer exercises and the texts: sequential
input and output or string conversion, which unit tests reach.

## Modules

| Module | Models | Remarks |
|---|---|---|
| `Monitor` | a pthread mutex and one condition variable | used by `BoundedQueue`, `Semamore` and `ReusableBarrier`; the mutex is not fair, wakeups may be spurious |
| `BlockingFifo` | what the queue promises: a linearizable blocking FIFO | abstract specification |
| `BoundedQueue` | `queue.c` | the list node by node, with `malloc` choosing any free address |
| `BoundedQueueProps` | the claims about it and the refinement mapping to `BlockingFifo` | |
| `Semamore` | `semamore.c` and its claims | checked as one of `Programs` |
| `Barrier` | what a reusable barrier promises | abstract specification |
| `ReusableBarrier` | `barrier.c`, its claims, the mapping to `Barrier` | |
| `ParMake` | `parmake.c` on top of the FIFO that the queue implements | the graph of rules is a constant; rules are collected call by call |
| `Drm` | `libdrm.c` with threads that call it in any order | |
| `DrmTester` | `libdrm_tester.c`: `Drm` with the two threads of the tester | |
| `HeapContract` | what the comments of `alloc.c` promise: blocks that do not overlap and stay until freed | abstract specification |
| `Alloc` | `malloc/alloc.c`, its claims, the mapping to `HeapContract` | sequential: one action per call |
| `FileServer` | `server.c` and `client.c` of the file store, composed through their connections | one server, several clients |
| `Mmu` | `mmu.c`, with the kernel, the TLB and the swap files as it uses them | |
| `Scheduler` | `libscheduler.c` under a simulated processor | sequential |
| `SequenceContract` | what a vector promises: a sequence that owns its elements | abstract specification |
| `Vector` | `vector.c` | sequential; `Contents` is the mapping to `SequenceContract` |
| `Cracker2` | `cracker2.c` | |
| `Shell` | `shell.c`, its children and the signal handler | |
| `Programs` | `Vector`, `Scheduler`, `Cracker2`, `Shell` and `Semamore` side by side | a behaviour is that of one of them; the others stay where they start |
| `MCBoundedQueue`, `MCParMake`, `MCFileServer`, `MCMmu`, `MCPrograms` | instances for TLC | |
| `*_proofs` | theorems and proofs | |

### How they correspond to the code

*Steps.* A step is what the code does up to the next point at which another
thread can notice or interfere: a critical section is cut where its own state is
half updated, so that the invariants say where in the section they are
suspended. `pc` names the stages. `pthread_cond_wait` releases the mutex and
sleeps in one step; a woken thread takes the mutex back in a later one
(`Relock`), and always returns to the test of the loop.

*Queue.* `Lock`, `PushCheck`, `Link`, `PushCount`, `Unlock` are the stages of
`queue_push` (lines 62-93); `Lock`, `PullCheck`, `Unlink`, `PullCount`,
`Unlock` those of `queue_pull` (94-117). `next`, `data` and `allocated` are the
heap, `chain` is a history variable: the order in which nodes were linked.
`DestroyBegin` and `DestroyStep` are `queue_destroy`, called after all threads
have ended, as parmake does.

*Semamore, barrier.* The same scheme. `semm_init` is tried with each initial
value and maximum. `times_used` wraps at `WrapAfter`, which stands for
`UINT_MAX + 1`; `entered` and `left` are history variables that count calls.

*Parmake.* `Init` is parmake with its makefile parsed. `NextGoal` is a turn of the
loop over the goals: one on a cycle, or that leads to one, fails at once, for
another `collect_rules` is called. Its calls are kept in `stack`: `CollectDep` is
the call for the next dependency, `QueueRule` the end of a call, which puts the
rule into the queue unless it was collected before. `StartWorkers` puts the
NULL behind the rules and creates the workers. Their steps are those of
`satisfy_rule`. A look at a dependency (`CheckDep`) is a step without the mutex,
and going to sleep (`Sleep`) a later one: between them the dependency may be
settled and announced. Pull and push are one step each: that is what
`ImplementsFifo` proves of the queue. `need_to_run_command` compares times of
files and may answer either way; commands may fail.

*Drm.* Each call is a step under `mtx` (`drm_wait`, `drm_post`), and a second one
that locks or unlocks the drm's own mutex (`Locked`, `Unlocked`). A `drm_wait`
by the thread that was given the drm returns with `mtx` locked (line 96), and
then nobody moves. The graph library is not in the repository; it is modelled
as a set of edges, the order of a vertex's antineighbours is not specified and
any of them may be handed the drm. The values of vertices are addresses of
locals that are gone (lines 59-61, 37-42) and a *shallow* graph keeps
addresses: so `isCyclic` finds every cycle, through the values of frames that
still exist, but may also find one where there is none, and `WaitTaken` allows a
refusal in any state.

*Alloc.* Addresses and sizes are words of 8 bytes; a header has seven, as in the
code, and the threshold for a split is that of the code. The helpers
(`block_split`, `block_merge`, `remove_node`, ...) are functions from a heap to a
heap, composed as the code calls them, so a call is one action. What a helper
writes to the headers, one field after the other, is one function of the header:
`block_split`, for instance, is `Divided`, which says of each header what its
fields are afterwards, and then `PutFirst`. The loop in `malloc` that looks for a block is
`FirstFit`: the walk along `nextfree` through blocks that are too small (`Walk`)
comes to one block that is not, or to the end. The program
passes pointers it was given and has not freed. `sbrk` fails at `HeapLimit`. Behaviour is
followed up to the first call that is not defined in C; `outcome` says which:
`malloc` reads through NULL when `sbrk` fails; `realloc` ignores a failing `sbrk`
and returns a block that reaches beyond the heap; `realloc` that moves a block
calls `free` with the header's address, which reads a word seven words in front
of it. `HeaderTakenForBlock` says what that word may be: after a block of 0 or of
3 words it is a field that always equals the header's address. Otherwise the
call is ignored and the old block is left behind, neither free nor in use.
Contents of blocks are left out, so `calloc` is `malloc` of the product, which is
taken not to wrap around.

*File store.* A step of the server goes from one blocking call to the next:
`epoll_wait`, `Accept`, and within a request `ReadHeader`, `ReadSize`,
`ReadChunk` and `ReadTail`, which are the reads of `read_request_header` and
`send_response`. A message is what one `my_write` or `my_read` moves; data travel
in chunks of 4096 bytes. `AtEnd` is a read that returns 0 because the client has
half closed its side (`Shutdown`) or is gone (`BreakOff`); of a client that is gone
a read may also fail (`Reset`). `handle_sigint` is the server's own SIGINT after
a header or a size that does not come (47, 156), and after a header that is
`Refused` (55-63): no newline among its first 263 bytes, or none of the four verbs.
It removes the listed files and ends. `client.c` sends the four verbs only but
names of any length; a header of another verb stands for another client program.
A file on disk is the number of its chunks. A failed PUT leaves its file
cut short on disk and in the list; that is what the code does, and
`ListMatchesDisk` says that list and disk agree in this as well. The length of a
list is counted as the bytes of its names, each paired with its place, and the
separators (`ListBytes`). `AnswersFit` is
stated from the client's side: `Understood` is what `handle_response` prints.
Names that are PUT are names of files that can be created in `dir`, since line 149
does not look at what `fopen` returns, and descriptors do not run out although
lines 184 and 207 return without closing the file. An answer arrives: a server
that closes a connection with much unread data would reset it, which can cost a
client the answer; `client.c` never sends more than it announced.

*MMU.* A virtual page has a number, an entry in a page table (`pte`), and its
table an entry in the directory (`pde`); a frame holds the page that was last
written to it. A call to read or write is `Access`, `WalkTables`, `PageFault`
and `Copy`, between which the TLB is looked up again. Each `ask_kernel_for_frame`
may evict a page, as the tests of the lab let it do: its content goes to the swap
file and its entry loses the present bit; a stale pointer in the TLB then names
an entry that is not present. `AddProcess`, `AddTable` and `AddPage` are
`mmu_add_process`, cut where the kernel is asked. `RemoveProcess` returns what is
present. A read that faults stores a wrong frame number (50, 68): its outcome is
"undefined" and the process that made it goes no further.

*Scheduler.* `Quantum` is the caller: it reports a job that is done
(`scheduler_job_finished`), before or right after asking for the next one with
`scheduler_quantum_expired`, and lets a unit of time pass. `ran`, `waited` and
`answered` record what an onlooker sees, against which the statistics are held.

*Vector.* One action per function. Places beyond `size` hold `JUNK`. The copy
constructor gives any copy that is not in use, so one that is lost, doubled or
destroyed twice is seen; `vector_set` frees the old copy first, and the new one may
take its place in memory. `vector_reserve` below the size writes past its new array; the
model stops there.

*Crackers.* `First` and `Count` are the division of the candidates. `Check` reads
`found` without a lock and `Hash` hashes a candidate and may set it, so a thread
may try one more after the flag is set. `Join` collects and `Summary` ends a
task; the loop then goes to the next. The password that is freed a second time
when a task fails after one that was cracked ends the model ("undefined").

*Shell.* A line is a stack of steps (`todo`): commands, the operator that stands
between them and what is left of a recalled line, as the recursion of
`run_buildin_command` nests them. `Fork` creates the child, `Foreground` is the
return of `waitpid`, `Background` lists the child and installs the handler,
`Cleanup` is the handler, which may run between any two steps. `entered` and
`truth` are history variables: the lines that belong to the history, and the
status with which the last foreground command ended. `process_v` is kept as a set
of pids: the code adds to it and walks through all of it, and the order shows in
the output of `ps` alone.

## Runs

Every property of a passing run has a mutant in `PROJECT.json`: a form of one
definition with a plausible bug, kept beside the original, under which TLC finds
that property violated.

| Run | Instance | States | Shows |
|---|---|---|---|
| `queue` | 2 pushers, 2 pullers, `max_size` -1, 1, 2, 3 nodes, 2 items | 177,127 | no lost wakeup, count and list in step, destroy frees all, the queue implements `BlockingFifo`, and calls keep returning while there is both a push and a pull |
| `barrier` | 4 threads, 4 rounds, `times_used` wraps at 2 | 16,051 | it implements `Barrier`; sleepers wait for an open round; all rounds pass |
| `parmake` | 1, 2 and 3 workers, 5 makefiles over 4 rules | 355,230 | dependencies first, one worker per rule, the verdict at the end, a single worker returns |
| `drm` | 3 threads, 3 drms, any calls | 19,555 | the graph is acyclic and knows all that blocks, unlocks are of held mutexes, no deadlock while mutexes are held as the graph says |
| `drm_tester` | the tester's two threads and two drms | 148 | a violation: the tester can deadlock, see below |
| `alloc` | sizes 0, 3 and 20 words, a heap of 47 words | 258,194 | blocks tile the heap, the free list is exact, no free neighbours (so the merge in `malloc` never happens), the program's blocks never overlap |
| `alloc_failure` | the same | | a violation: a failing `sbrk` does not lead to NULL, see below |
| `file_server` | 2 clients that come again and again, 4 names, 11 requests | 1,116,448 | the list is the directory; client and server agree on every answer; the server ends only by the client it serves, if that has broken off or its header is refused; each client comes to the end of its request |
| `mmu` | 2 processes, 5 frames, a TLB of 2 entries, 4 pages each | 384,768 | a page holds what its process wrote; frames are neither lost nor used twice; the TLB is fresh |
| `mmu_swap` | the same | | a violation: a page that was swapped out cannot be read, see below |
| `programs` | a vector of up to 5 elements; 3 jobs in 6 schemes; 3 threads, 4 candidates, 3 tasks; a shell with 14 lines, 2 processes, 3 lines of history; 3 waiters and 3 posters, `max_val` 1..3, every initial value | 295,657 | the vector is a sequence; jobs are accounted for and the best one runs; the search is complete; history and children of the shell are accounted for; lines end; `value` of the semamore stays in range, no wakeup is lost, and it blocks only at the bounds |

### Bounds

*Queue.* Two threads of each kind are needed for a broadcast to wake sleepers of
both kinds, or one of two of the same kind. `max_size` 1 makes full and
"one item" coincide, 2 separates them, -1 is the queue without a maximum that
`parmake.c:85` and `cracker1.c:110` create. Three nodes give a list with a first,
a middle and a last node; `NodesLeft` keeps pushers of an unbounded queue from
using up the addresses (malloc is not modelled to fail: the code does not test
its result).

*Semamore.* `max_val` 1 makes `max_val - 1` and 0 coincide, and 1 and `max_val`;
3 keeps both bounds apart; three threads on each side let two be woken together
at each bound while a third is past the test.

*Barrier.* A thread can be at most one round ahead; four rounds with a wrap at 2
wrap `times_used` twice, and 2 is the hardest wrap: the value comes back after
two rounds.

*Parmake.* The makefiles have a rule with several dependencies, a diamond, a goal
that is a dependency of another, a goal on a cycle and one that leads to a cycle.
Two workers can wait for a third.

*Drm.* Three threads and drms allow cycles of length one to three and a hand-over
to one of two waiters. `CHECK_DEADLOCK` is off because of `WaitAgain`.

*Alloc.* 20 - 3 and 20 - 0 exceed the threshold of 15 words, so that a split
happens; 3 words in place of a merged block of more than 3 and fewer than 19 do
not split. Blocks of 3 and 20 words fit in the heap side by side with room for
one more of 3 words, and six blocks of 0 words fit, so that frees meet
free blocks in front, behind and on both sides.

*File store.* Two clients let one connect, break off or fill its side while the
other is served. The names have different lengths and two of them make the list
have a separator. PUTs send what they announce, less and more; two chunks are
the first and the last. A GET of a name of 258 bytes has the longest header that
is read, 263 bytes; a PUT of one of 259 bytes and another verb are refused. Breaking
off and a header that is refused may end the server for good, hence
`CHECK_DEADLOCK FALSE`.

*MMU.* A process needs four frames to start and six at most, so five make the
kernel evict pages within one process, and across two. A TLB of 2 is full with
both testing pages. One data page and one text page share the second table and
differ in permission. Frames are treated alike by the code, so the kernel may be
taken to give the lowest free one; when it has none and no page to evict, memory
is exhausted and nothing more can happen, which is why deadlock is not checked.
The proof does without these bounds.

*Programs.* The vector starts with a capacity of 2, so that it grows twice on the
way to 5. Three jobs give a queue of two behind the one that runs; bursts of 1 and
3 make a longer job be overtaken by a shorter one; arrival at three times lets a
job come into a running one. Three threads divide four candidates unevenly, and
the answer is the first, one in the middle or none; three tasks carry a flag that
is left over. Two processes let the shell wait for one while another ends; three
lines of history are enough for a recalled line that is itself recalled. The
three programs that come to an end are why deadlock is not checked.

### Fairness

A thread inside a call takes its step if it can take it for ever (weak fairness):
the code is run by a preemptive scheduler. Nothing more is assumed of the mutex:
a thread that finds it taken again and again may wait for ever. No fairness is
put on the start of calls, except in the barrier, whose threads each make their
rounds, and parmake, whose threads run to their end. Wakeups without a
broadcast end some time (`<>[]` of no `Spurious` step): POSIX allows them, but
not for ever on end; in parmake none are assumed. In
`DrmTester` fairness is strong so that the deadlock found is not one of
unfairness.

The server of the file store and each of its clients take the steps they can
take: they are processes of their own. No client is assumed to come, and none to
stay: `EveryClientAnswered` promises each client that does not break off itself
that its request comes to an end, whatever the others do. That end is an answer
unless the server is down, and `EndsByServedClient` says when that may be.
The shell goes on with its line and its children come to an end, unless they are
stopped for ever; a line is only promised to end if no line in the history refers
to the history, since such a line may recall itself.

## Proofs

All theorems hold for every value of the constants. Assumptions on constants are
named `...Assumption` in the modules that declare them. NULL is no thread, node,
item, rule, client, request, answer or number; threads of one kind are threads;
`max_val` is positive; `times_used` wraps at 2 or more. Threads of the barrier and
of `libdrm.c`, drms, frames and rules are finitely many; the dependencies of a
makefile are rules, and parmake is started with at least one worker. Frames are
numbers and the segments do not overlap. Names in the file store have one byte
or more, and `"accept"`, which stands for the
listening socket, is no client. Sizes of blocks and the limit of the heap are numbers.
Bursts are positive, priorities are integers, and there is at least one thread to
search. The copies of a vector are finitely many, its first capacity is a number. The assumptions about the parts of `Programs` are declared there.

| Proof module | Theorem | Property |
|---|---|---|
| `BoundedQueue_proofs` | `TypeCorrect`, `NoWakeupIsLost`, `SizeIsRight`, `ListIsRight`, `DestroyIsRight` | the invariants of run `queue` |
| | `QueueIsFifo` | `ImplementsFifo`: `queue.c` implements `BlockingFifo` |
| `ReusableBarrier_proofs` | `NobodyOversleeps` | `SleepsOnlyInOpenRound` |
| | `BarrierIsReusable` | `ImplementsBarrier`: `barrier.c` implements `Barrier` |
| `Drm_proofs` | `TypeCorrect`, `UnlocksOnlyItsOwn`, `GraphIsComplete` | `TypeOK`, `UnlockOnlyOwn`, `GraphKnowsBlocked` |
| | `GraphStaysAcyclic`, `NoDeadlock` | `GraphAcyclic`, `NoDeadlockAsGiven` |
| `Mmu_proofs` | `PagesHold`, `TlbIsFresh`, `FramesAreExact` | `MemoryHolds`, `TlbFresh`, `FramesExact` |
| `ParMake_proofs` | `CommandsInOrder`, `RunAtMostOnce`, `VerdictIsRight` | `DependenciesFirst`, `OneWorkerPerRule`, `Verdict` |
| `FileServer_proofs` | `ListIsDirectory`, `OnlyServedClientsEndIt`, `AnswersAreRight` | `ListMatchesDisk`, `EndsByServedClient`, `AnswersFit` |
| `Alloc_proofs` | `BlocksTileTheHeap`, `FreeListIsExact`, `FreeBlocksAreApart` | `HeapTiled`, `FreeListExact`, `NoFreeNeighbours` |
| | `Refinement` | `ImplementsContract`: `alloc.c` implements `HeapContract` |
| `Programs_proofs` | `NoJobIsLost`, `TheBestRuns` | `JobsAccounted`, `BestRuns` |
| | `SearchIsComplete` | `SearchComplete` |
| | `HistoryIsKept`, `NoChildIsForgotten` | `HistoryKept`, `ChildrenAccounted` |
| | `ValueInRange`, `NoWakeupIsLost` | `ValueBounded`, `NoLostWakeup` |
| | `VectorIsSequence` | `ImplementsSequence`: `vector.c` implements `SequenceContract` |

Each module has an inductive invariant, `IInv` for the most part, and one lemma per
action or group of similar actions.

*Queue.* The claims are not inductive alone. `MutexHeldInside` ties the stages to
the owner, so one thread at most is between lock and unlock; `Admitted` keeps
what the test of the loop found until it is used; `Roles` says who links and who
unlinks; `DestroyRest` says that what is left to free is the chain from the
cursor on. The heart is `PushCountIInv` and `PullCountIInv`: whoever is asleep
when an operation does *not* broadcast still has its reason. A pull of a queue
without a maximum never wakes anybody: no pusher sleeps there, and a puller that
sleeps found nothing to pull. In the refinement a call takes effect when it links
or unlinks its node.

*Semamore.* The same with `Admitted` (`SemmInv` in `Programs_proofs`); a change that
does not broadcast moves between two values at neither of which anybody of the
other kind sleeps.

*Barrier.* The counters of calls are related to the code's own by a round `r`
that is in progress (`InRound`): every thread has entered `r` or `r - 1`,
`count` is the number of those in `r`, and `times_used` has the value noted by
those that wait in `r` and the next one of that noted by those left over from
`r - 1`. `PassedTogether` is what the abstract `Leave` needs. Since a thread is
never two rounds behind, a wrap at 2 is enough for the test to be right.

*Drm.* `GivenLocks`, `WaitersLock` and `UnlockersGone` say where a thread may
stand that has an edge from or to a drm. They do not say that the drm is given
to the thread that holds its mutex, which is false: a thread may get the mutex
ahead of it. They do imply that a drm is posted only by a thread that was given
it and holds it. That the graph stays acyclic is proved without an induction over
it. Where there is a cycle there is a set of vertices each of which has a
successor in the set (`Loop`): if there was none before a step and there is one
after it, it goes through the new edge. `isCyclic` is a recursive function on a finite set of calls;
`VisitDefined` shows that there is such a function even where the graph has a
cycle (the calls that return true are a least fixed point), and `LoopFound` that
it finds every loop: while it stays in one without an answer, the set of visited
vertices that it carries grows beyond the finite set of all vertices. For
deadlocks one more fact is needed about the mutexes (`HInv`): a drm's mutex is held
by the thread that the graph gave the drm to, by one that is just unlocking it,
or by one that got ahead of the thread it was given to, which is still locking it.

*MMU.* `MemoryHolds` and `TlbFresh` need each other: a write goes through the
entry that the TLB gives, which is the caller's only while the TLB is fresh.
`PagesApart` and `TablesApart` say that no two pages, tables or directories share a
frame, so that an eviction or a removal changes nothing else; `TreeOK`, that below
a table that is not there nothing is there, so that `RemoveProcess` finds all it
has to clear; `CallOK`, what a process that is being added does not yet have;
`TextUnwritten`, that the page fault of a write that is not permitted, which gives
a page an empty frame, loses nothing. `AskKernel` is the lemma about a frame that
is asked for, with or without an eviction, that all the actions rest on.
`FramesExact` counts: the frames in use are as many as directories, tables and
present pages together. It follows from `PagesApart` and `TablesApart` once each
frame in use is known to be used for something (`UsedKnown`): what is in use is
then three disjoint sets of frames, each as large as what they are used for.

*Parmake.* `StackOK` and `GoalsSeen` say how far collecting has got: what a call
has been through is collected, but for the rule that the call above it is at. This gives
that all dependencies of a queued rule are collected, and at the end everything
that is needed, without a word on the order in the queue. `QueueOK`, `TargetsOK` and
`NotLost` say that a rule that is not settled is in the queue once or has one worker,
`PoisonOK` that the NULL is the last thing in the queue and that workers end only
when nothing else is there. So a rule is never lost when the NULL goes round, and
when the last worker has ended all is settled. `DepsDone` is what makes the look at
a dependency without the mutex harmless for the order: what is done stays done.
The wakeup that can be missed there is no matter of safety.

*File store.* `ServingOK` has the two ends of each connection together: where the
client stands in its request and what of it is on the way (`Connections`, `Pending`),
what the server has read (`Serving`), and what an answer that is on the way says
of the request (`Fits`). It implies that a connection that ends before its header or
its size has come is that of a client that broke off (`EndsTooEarly`); with it
every step that ends the server is one of the three that `EndsByServedClient`
allows. `StoredOK` is list, length and
directory; each file is listed once, and `LengthOf` counts the bytes of the names
so that adding and removing one changes the sum by its length, wherever it
stands in the list: no sum over a sequence is needed.

*Alloc.* `AllocInv` has four parts. `GoodHeap`: the headers tile the heap up to the
break (`Tiles`), with `next` and `prev` from each to its neighbours and `ptr` behind
the header; the free blocks are a doubly linked list (`LinkedList`) that is reached
from `emhead` as a whole, said without a walk: every set that holds `emhead` and
the successors of its members holds all free blocks. `Separate`: no free block has a free
one behind it. The break is within the limit. `Owned`: the program's blocks are
blocks in use, of at least the size asked for. There is one lemma about tilings and one about
linked lists for each way the code changes them (cut a block in two, join two, add
one at the end; add in front, remove anywhere), one for each helper that says what it
writes to which field, and the three come together for each call. `SplitOffIsSplit`
shows that the merge at lines 213-216 of `malloc` never happens: the block behind a
free one is not free. In `free`, the block merged first is in front, and then the merged one may still have
a free one behind it, so `Separate` holds again only after the second merge; what holds in
between is that there is one such place (`FreeFirstMerge`).

*Programs.* Each of the programs has an invariant of its own, in terms of its own
variables; `AllInv` is all of them, and a step of one program is a stutter of the
others.

*Scheduler.* `SchedInv` says that the queue is sorted under the scheme and holds each
job that waits once (`Queued`), and what the metadata of a job tell of its past
(`Past`, `Waits`, `Runs`): `arrival_time`, `start_time` and `last_start_time` together with
the clock give the units it has run and waited, which an onlooker counts. Equal
jobs stay in the order in which they were offered, since `priqueue_offer` inserts in
front of the first job that is worse (`OfferProperties`) and "goes before" is an
order of jobs (`BeforeIsOrder`). The running job is not in the queue; a quantum first
takes a finished job out (`FinishedInv`), or puts the evicted one back with its
remaining time (`EvictedInv`), or lets it run on (`RunsOnInv`), and then may take the head of the
queue (`TakeFirst`), which no job in the queue goes before. The statistics
are sums over the finished jobs. They are counted as units of time, so a job that
finishes adds as many as it has waited or run (`TotalGrows`), and no sum over a set
is needed.

*Crackers.* `PartTried` says of each thread that what it has tried so far is free of
the password, unless it returns it, and that a thread that is done has
tried its whole part unless `found` was set. `found` is set only with a thread that
returns the password, so one that gives up early does so because of another. The
parts follow each other without a gap (`PartsCoverSpace`), and what is known after some
threads were joined (`JoinedSoFar`) grows by one part with each join.

*Shell.* The history is what was entered, in the file and in memory together
(`HistoryInv`): with a file, memory holds what was not yet written. `ChildInv` says
in which status a child may be at which place in `Fork`, `Foreground` and
`Background`; `OnlyChild`, that before the handler is installed there is no child but the
one just forked, and that nobody but the shell reaps it when it is in the foreground.

*Vector.* `VecInv` says that the array has room for `size` elements and that the first
`size` are different copies, those in use and no others (`Owns`). Each action has a lemma that
it keeps this and is a step of `SequenceContract` or, for `vector_reserve`, none.
An action writes an array element by element, the contract speaks of parts of a
sequence; `InsertStep`, `EraseStep`, `SetStep`, `ShrinkStep` and `GrowStep` say once for each
change of the sequence that the two are the same, and what becomes of the copies. That
`get_new_capacity` ends with enough room is `NewCapacityFits`: its loop is a
recursive function, which `DoublingDefined` shows to exist, and the greatest capacity from
which it would fall short cannot be below the target.

### Only model-checked

Liveness (`CallsKeepReturning`, `BlocksOnlyAtBounds`, `AllRoundsPass`,
`SingleWorkerReturns`, `EveryClientAnswered`, `EveryLineEnds`) and everything about
ENABLED: the prover has no rule for fairness. Every other property of the passing
runs is a theorem.

Induction over data is beyond the installed provers. Where the code recurses or
sums, the invariants say the same without it: a cycle is a set, a list is what
every closed set holds, collecting is followed call by call, and bytes and frames are
counted as sets. Recursive definitions are written as recursive functions, since
the prover cannot work in a module with RECURSIVE operators.

## Findings and known hazards

* `drm_tester`: `drm_wait` gives a free drm to its caller in the graph, releases
  the global mutex, and only then locks the drm's mutex (`libdrm.c:108-110`).
  Another thread can lock it in between. Then the graph is wrong about who
  waits, a wait that closes a deadlock is not refused, and the two threads of the
  tester block each other although the tester joins both. `NoDeadlockAsGiven`
  shows that this is the only way to a deadlock on drms.
* `alloc_failure`: `malloc` reads through NULL where its comment promises a null
  pointer (`alloc.c:198-199` and 225), `realloc` of the last block ignores that
  `sbrk` failed (316-318 and 343).
* `alloc.c:352`: `realloc` passes the header to `free`; the old block is lost,
  or, behind a block of 0 or 24 bytes, memory in use is put on the free list.
* `drm_wait` by the thread that was given the drm returns without releasing
  `mtx` (`libdrm.c:96`): the program stops. Modelled (`WaitAgain`); no document
  says what such a call should do.
* `mmu_swap`: a read that faults stores the address of the frame where its number
  belongs (`mmu.c:50` and 68, unlike 125 and 142), and what it then reads is not
  the page. The test of the lab, `mmu_test.c:234-237`, reads a page back after it
  was swapped out and expects what it wrote.
* `parmake.c:126`: the state of a dependency is read before the mutex is taken;
  with two workers or more the wakeup can be missed and parmake hang.
  `SingleWorkerReturns` states what does hold.
* `queue_test.c:45`: the ids of pullers overwrite those of pushers, which are
  never joined before `queue_destroy`.

* `libdrm.c:131`: `drm_destroy` of one drm destroys the graph of all of them.
* `nonstop_networking/server.c:55-63`: a header that is too long or of another verb
  ends the server and removes all its files. `client.c` can send one, since it does
  not look at the length of a name; no document says what should happen.
  `server.c:149`: `fopen` is not checked; 184 and 207 leave the file open.
* `vector.c:228`: `vector_reserve` to less than the size writes past its new array;
  `vector_set` (261) calls `free` rather than the destructor of the elements.
* `cracker2.c:184`: `password` keeps its value from task to task and is freed again
  when a task fails after one that was cracked. `cracker1.c:18-27`: `strtok` keeps
  its position for all threads together.
* `shell.c:69`: once the handler is installed a foreground command that fails may
  seem to succeed, since the handler may reap it first. `ps` uses a command's
  memory after it was freed (451, 465); a lone `!` fails an assertion when the
  history file is empty (326); with `-f`, recalled lines are appended to the script
  itself (240); buffers for recalled lines have 40 bytes; the handler is installed
  after the fork (79-83).
* `mini_memcheck.c:83-88`: a `realloc` that fails has already unlinked the block.
* `minixfs.c:90`: the inode is initialised before the directory entry is known to
  fit (104, 116); in a full directory it stays in use without a name.

The other hazards are in `PROJECT.json`, with a property or with a note.

## Not modelled

Each of these is a program of its own and could be modelled; the reason it is
left is that it has little state or few interleavings next to those above.

* Rendezvous, parallel reduce, map-reduce driver: a fixed handful of threads or
  processes that run once to their end.
* Leak checker: a list and three counters, its one hazard is listed above.
* Minixfs: reads and writes through indirect blocks of an image; most of it is
  arithmetic on offsets, its header is not in the repository.
* `cracker1.c`: threads that pull tasks from the queue that `BoundedQueue` models and
  share nothing else but `strtok`.
* Logging server: the race on the address of a local is visible in the code.
* Chat room (a skeleton whose `run_server` and `connect_to_server` are empty), `dd`,
  `env`, `time`, the lookup exercises, camelCaser, sstring, the pointer exercises.

## Plan

1. `cracker1.c` on top of `BlockingFifo`, and the leak checker with a `realloc` that
   may fail.
2. Rendezvous, parallel reduce, the map-reduce driver and minixfs.
