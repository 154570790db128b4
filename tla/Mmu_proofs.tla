------------------------------ MODULE Mmu_proofs ------------------------------
(***************************************************************************)
(* For any processes, pages, frames and size of the TLB: the TLB holds     *)
(* entries of the current process only, and each page holds what its       *)
(* process wrote, in memory or on disk.                                    *)
(***************************************************************************)
EXTENDS Mmu, FiniteSetTheorems, TLAPS

Tables == Pids \X {0, 1}

Calls == [at : {"idle"}] \cup [at : {"add table", "add pages"}, pid : Pids]
           \cup [at : {"add pages"}, pid : Pids, page : Testing]
           \cup [at : {"look up", "undefined"}, pid : Pids, page : Pages, write : BOOLEAN]

TypeOK == /\ page_directories \in [Pids -> Frames \cup {NULL}]
          /\ pde \in [Tables -> Frames \cup {NULL}]
          /\ pte \in [Entries -> Frames \cup {NULL}]
          /\ used \subseteq Frames
          /\ mem \in [Frames -> Entries \cup {NULL}]
          /\ swap \in [Entries -> Entries \cup {NULL}]
          /\ tlb \subseteq Pages \X Pids
          /\ curr_pid \in Pids
          /\ call \in Calls
          /\ written \in SUBSET Entries

\* A page's frame is in use, and nothing else is in it.
PagesApart ==
    /\ \A e \in Entries : pte[e] # NULL => pte[e] \in used
    /\ \A e, g \in Entries : pte[e] # NULL /\ pte[e] = pte[g] => e = g
    /\ \A e \in Entries, p \in Pids : pte[e] # NULL => pte[e] # page_directories[p]
    /\ \A e \in Entries, d \in Tables : pte[e] # NULL => pte[e] # pde[d]

\* The same of directories and page tables.
TablesApart ==
    /\ \A p \in Pids : page_directories[p] # NULL => page_directories[p] \in used
    /\ \A d \in Tables : pde[d] # NULL => pde[d] \in used
    /\ \A p, q \in Pids :
         page_directories[p] # NULL /\ page_directories[p] = page_directories[q] => p = q
    /\ \A d, c \in Tables : pde[d] # NULL /\ pde[d] = pde[c] => d = c
    /\ \A p \in Pids, d \in Tables :
         page_directories[p] # NULL => page_directories[p] # pde[d]

\* Below what is not there, nothing is there.
TreeOK ==
    /\ \A p \in Pids, i \in {0, 1} : pde[p, i] # NULL => page_directories[p] # NULL
    /\ \A e \in Entries : pte[e] # NULL \/ e \in written => pde[e[1], TableOf(e[2])] # NULL

\* A process that is being added has no pages but the one added first.
CallOK ==
    /\ call.at # "idle" => page_directories[call.pid] # NULL
    /\ call.at = "look up" => call.pid = curr_pid
    /\ call.at = "add table" => \A i \in {0, 1} : pde[call.pid, i] = NULL
    /\ call.at = "add pages" =>
         /\ pde[call.pid, 0] # NULL
         /\ \A page \in Pages :
              /\ <<call.pid, page>> \notin written
              /\ pte[call.pid, page] # NULL => "page" \in DOMAIN call /\ page = call.page

TextUnwritten == \A e \in written : e[2] \notin Text

IInv == /\ TypeOK /\ PagesApart /\ TablesApart /\ TreeOK /\ CallOK /\ TextUnwritten
        /\ MemoryHolds /\ TlbFresh
-----------------------------------------------------------------------------
(* A set of natural numbers that is not empty has a least element.         *)
LEMMA MinIsElement ==
    ASSUME NEW S \in SUBSET Nat, S # {}
    PROVE  Min(S) \in S
<1> DEFINE Less == {p \in Nat \X Nat : p[1] < p[2]}
<1>1. IsWellFoundedOn(Less, Nat)
  BY NatLessThanWellFounded DEF OpToRel
<1>2. \A x, y \in Nat : y < x => <<y, x>> \in Less
  OBVIOUS
<1> HIDE DEF Less
<1>3. PICK x \in S : \A y \in S : ~(<<y, x>> \in Less)
  BY <1>1, WFMin
<1>4. ASSUME NEW y \in S PROVE x <= y
  <2>1. x \in Nat /\ y \in Nat
    OBVIOUS
  <2>2. ~(y < x)
    BY <1>2, <1>3, <2>1
  <2> QED
    BY <2>1, <2>2
<1> QED
  BY <1>4 DEF Min

(* The kernel gives a frame that is not in use, or that of a page.         *)
LEMMA AvailableFrame ==
    ASSUME TypeOK, NEW f \in Available
    PROVE  /\ f \in Frames /\ f # NULL
           /\ f \in used => \E e \in Entries : pte[e] = f
<1> USE MmuAssumption
<1>1. CASE Frames \ used # {}
  <2>1. Min(Frames \ used) \in Frames \ used
    BY <1>1, MinIsElement
  <2>2. f = Min(Frames \ used)
    BY <1>1 DEF Available
  <2> QED
    BY <2>1, <2>2
<1>2. CASE Frames \ used = {}
  <2>1. \E e \in Present : f = pte[e]
    BY <1>2 DEF Available
  <2> QED
    BY <2>1 DEF Present, TypeOK
<1> QED
  BY <1>1, <1>2

(* The frame that the kernel gives is nobody else's, and what was in it is *)
(* in the swap file of its page.                                           *)
LEMMA AskKernel ==
    ASSUME TypeOK, PagesApart, TablesApart, MemoryHolds,
           NEW f \in Available, NEW new \in SUBSET Entries, NEW load \in BOOLEAN,
           \A e, g \in new : e = g,
           \A e \in new : pte[e] = NULL /\ (load \/ e \notin written),
           ask_kernel_for_frame(f, new, load)
    PROVE  /\ f \in Frames /\ f # NULL
           /\ used' = used \cup {f}
           /\ pte' \in [Entries -> Frames \cup {NULL}]
           /\ mem' \in [Frames -> Entries \cup {NULL}]
           /\ swap' \in [Entries -> Entries \cup {NULL}]
           /\ \A e \in Entries : pte'[e] = IF e \in new THEN f
                                           ELSE IF pte[e] = f THEN NULL ELSE pte[e]
           /\ \A p \in Pids : page_directories[p] # f
           /\ \A d \in Tables : pde[d] # f
           /\ \A e \in Entries :
                (IF pte'[e] # NULL THEN mem'[pte'[e]] ELSE swap'[e])
                  = IF e \in written THEN e ELSE NULL
<1>1. /\ f \in Frames /\ f # NULL
      /\ f \in used => \E e \in Entries : pte[e] = f
  BY AvailableFrame
<1>2. used' = used \cup {f}
  BY DEF ask_kernel_for_frame
<1>3. \A e \in Entries : pte'[e] = IF e \in new THEN f
                                   ELSE IF pte[e] = f THEN NULL ELSE pte[e]
  BY <1>1 DEF ask_kernel_for_frame, Evicted, Present
<1>4. pte' \in [Entries -> Frames \cup {NULL}]
  BY <1>1, <1>3 DEF ask_kernel_for_frame, TypeOK
<1>5. \A e \in Entries : swap'[e] = IF pte[e] = f THEN mem[f] ELSE swap[e]
  BY <1>1 DEF ask_kernel_for_frame, Evicted, Present
<1>6. swap' \in [Entries -> Entries \cup {NULL}]
  BY <1>1, <1>5 DEF ask_kernel_for_frame, TypeOK
<1>7. \A e \in new : mem'[f] = IF load THEN swap[e] ELSE NULL
  <2> TAKE e \in new
  <2>1. (CHOOSE g \in new : TRUE) = e
    OBVIOUS
  <2>2. mem'[f] = IF load /\ \E g \in new : TRUE
                  THEN swap[CHOOSE g \in new : TRUE] ELSE NULL
    BY <1>1 DEF ask_kernel_for_frame, TypeOK
  <2> QED
    BY <2>1, <2>2
<1>8. mem' \in [Frames -> Entries \cup {NULL}]
  <2>1. (IF load /\ \E g \in new : TRUE THEN swap[CHOOSE g \in new : TRUE] ELSE NULL)
          \in Entries \cup {NULL}
    BY DEF TypeOK
  <2> QED
    BY <2>1, <1>1 DEF ask_kernel_for_frame, TypeOK
<1>9. \A g \in Frames : g # f => mem'[g] = mem[g]
  BY DEF ask_kernel_for_frame, TypeOK
<1>10. /\ \A p \in Pids : page_directories[p] # f
       /\ \A d \in Tables : pde[d] # f
  BY <1>1 DEF PagesApart, TablesApart
<1>11. \A e \in Entries :
         (IF pte'[e] # NULL THEN mem'[pte'[e]] ELSE swap'[e])
           = IF e \in written THEN e ELSE NULL
  <2> TAKE e \in Entries
  <2>1. CASE e \in new
    BY <2>1, <1>1, <1>3, <1>7 DEF MemoryHolds
  <2>2. CASE e \notin new /\ pte[e] = f
    BY <2>2, <1>1, <1>3, <1>5 DEF MemoryHolds
  <2>3. CASE e \notin new /\ pte[e] # f
    BY <2>3, <1>3, <1>5, <1>9 DEF MemoryHolds, TypeOK
  <2> QED
    BY <2>1, <2>2, <2>3
<1> QED
  BY <1>1, <1>2, <1>3, <1>4, <1>6, <1>8, <1>10, <1>11
(* A frame given to a page, or else to a directory or a table, leaves the  *)
(* pages apart.                                                            *)
LEMMA PagesStayApart ==
    ASSUME TypeOK, PagesApart,
           NEW f \in Frames, NEW new \in SUBSET Entries,
           \A e, g \in new : e = g,
           used' = used \cup {f},
           \A e \in Entries : pte'[e] = IF e \in new THEN f
                                        ELSE IF pte[e] = f THEN NULL ELSE pte[e],
           \A p \in Pids : page_directories[p] # f,
           \A d \in Tables : pde[d] # f,
           \A p \in Pids : \/ page_directories'[p] = page_directories[p]
                           \/ new = {} /\ page_directories'[p] = f,
           \A d \in Tables : pde'[d] = pde[d] \/ (new = {} /\ pde'[d] = f)
    PROVE  PagesApart'
<1>1. \A e \in Entries : pte'[e] # NULL =>
        \/ e \in new /\ pte'[e] = f
        \/ e \notin new /\ pte'[e] = pte[e] /\ pte[e] # f /\ pte[e] # NULL
  OBVIOUS
<1>2. \A e \in Entries : pte'[e] # NULL => pte'[e] \in used'
  BY <1>1 DEF PagesApart
<1>3. \A e, g \in Entries : pte'[e] # NULL /\ pte'[e] = pte'[g] => e = g
  BY <1>1 DEF PagesApart
<1>4. ASSUME NEW e \in Entries, NEW p \in Pids, pte'[e] # NULL
      PROVE  pte'[e] # page_directories'[p]
  BY <1>1, <1>4 DEF PagesApart
<1>5. ASSUME NEW e \in Entries, NEW d \in Tables, pte'[e] # NULL
      PROVE  pte'[e] # pde'[d]
  BY <1>1, <1>5 DEF PagesApart
<1> QED
  BY <1>2, <1>3, <1>4, <1>5 DEF PagesApart

(* What the kernel does when it is asked for a directory or a table.       *)
LEMMA KernelForTable ==
    ASSUME IInv, NEW f \in Available, ask_kernel_for_frame(f, {}, FALSE)
    PROVE  /\ f \in Frames /\ f # NULL
           /\ used' = used \cup {f}
           /\ pte' \in [Entries -> Frames \cup {NULL}]
           /\ mem' \in [Frames -> Entries \cup {NULL}]
           /\ swap' \in [Entries -> Entries \cup {NULL}]
           /\ \A e \in Entries : pte'[e] = IF pte[e] = f THEN NULL ELSE pte[e]
           /\ \A q \in Pids : page_directories[q] # f
           /\ \A d \in Tables : pde[d] # f
           /\ \A e \in Entries :
                (IF pte'[e] # NULL THEN mem'[pte'[e]] ELSE swap'[e])
                  = IF e \in written THEN e ELSE NULL
<1> DEFINE new == {}
<1>1. /\ new \in SUBSET Entries
      /\ \A e, g \in new : e = g
      /\ \A e \in new : pte[e] = NULL /\ (FALSE \/ e \notin written)
      /\ FALSE \in BOOLEAN
      /\ ask_kernel_for_frame(f, new, FALSE)
  OBVIOUS
<1>2. TypeOK /\ PagesApart /\ TablesApart /\ MemoryHolds
  BY DEF IInv
<1>3. \A e : e \notin new
  OBVIOUS
<1> HIDE DEF new
<1>4. /\ f \in Frames /\ f # NULL
      /\ used' = used \cup {f}
      /\ pte' \in [Entries -> Frames \cup {NULL}]
      /\ mem' \in [Frames -> Entries \cup {NULL}]
      /\ swap' \in [Entries -> Entries \cup {NULL}]
      /\ \A e \in Entries : pte'[e] = IF e \in new THEN f
                                      ELSE IF pte[e] = f THEN NULL ELSE pte[e]
      /\ \A p \in Pids : page_directories[p] # f
      /\ \A d \in Tables : pde[d] # f
      /\ \A e \in Entries :
           (IF pte'[e] # NULL THEN mem'[pte'[e]] ELSE swap'[e])
             = IF e \in written THEN e ELSE NULL
  BY <1>1, <1>2, AskKernel
<1> QED
  BY <1>3, <1>4

(* What depends on no more than the kernel's answer.                       *)
LEMMA TableApart ==
    ASSUME IInv, NEW f \in Available, ask_kernel_for_frame(f, {}, FALSE),
           \A p \in Pids : page_directories'[p] = page_directories[p] \/ page_directories'[p] = f,
           \A d \in Tables : pde'[d] = pde[d] \/ pde'[d] = f
    PROVE  PagesApart'
<1> DEFINE new == {}
<1>1. /\ new \in SUBSET Entries
      /\ \A e, g \in new : e = g
  OBVIOUS
<1>2. /\ f \in Frames
      /\ used' = used \cup {f}
      /\ \A e \in Entries : pte'[e] = IF e \in new THEN f
                                      ELSE IF pte[e] = f THEN NULL ELSE pte[e]
      /\ \A p \in Pids : page_directories[p] # f
      /\ \A d \in Tables : pde[d] # f
  BY KernelForTable
<1>3. new = {}
  OBVIOUS
<1> HIDE DEF new
<1>4. /\ \A p \in Pids : \/ page_directories'[p] = page_directories[p]
                         \/ new = {} /\ page_directories'[p] = f
      /\ \A d \in Tables : pde'[d] = pde[d] \/ (new = {} /\ pde'[d] = f)
  BY <1>3
<1> QED
  BY <1>1, <1>2, <1>4, PagesStayApart DEF IInv

-----------------------------------------------------------------------------
LEMMA InitIInv == Init => IInv
<1> SUFFICES ASSUME Init PROVE IInv
  OBVIOUS
<1> USE MmuAssumption DEF Init
<1>1. TypeOK
  BY DEF TypeOK, Tables, Calls, Idle
<1>2. PagesApart /\ TablesApart /\ TreeOK
  BY DEF PagesApart, TablesApart, TreeOK, Tables
<1>3. CallOK
  BY DEF CallOK, Idle
<1>4. TextUnwritten /\ MemoryHolds /\ TlbFresh
  BY DEF TextUnwritten, MemoryHolds, TlbFresh
<1> QED
  BY <1>1, <1>2, <1>3, <1>4 DEF IInv

LEMMA AddProcessIInv ==
    ASSUME IInv, NEW p \in Pids, AddProcess(p)
    PROVE  IInv'
<1> USE DEF IInv
<1>1. PICK f \in Available : /\ ask_kernel_for_frame(f, {}, FALSE)
                             /\ page_directories' = [page_directories EXCEPT ![p] = f]
  BY DEF AddProcess
<1>2. /\ call = Idle /\ page_directories[p] = NULL
      /\ call' = [at |-> "add table", pid |-> p]
      /\ UNCHANGED <<pde, tlb, curr_pid, written>>
  BY DEF AddProcess
<1>3. /\ f \in Frames /\ f # NULL
      /\ used' = used \cup {f}
      /\ pte' \in [Entries -> Frames \cup {NULL}]
      /\ mem' \in [Frames -> Entries \cup {NULL}]
      /\ swap' \in [Entries -> Entries \cup {NULL}]
      /\ \A e \in Entries : pte'[e] = IF pte[e] = f THEN NULL ELSE pte[e]
      /\ \A q \in Pids : page_directories[q] # f
      /\ \A d \in Tables : pde[d] # f
      /\ \A e \in Entries :
           (IF pte'[e] # NULL THEN mem'[pte'[e]] ELSE swap'[e])
             = IF e \in written THEN e ELSE NULL
  BY <1>1, KernelForTable
<1>4. \A q \in Pids : page_directories'[q] = IF q = p THEN f ELSE page_directories[q]
  BY <1>1 DEF TypeOK
<1>5. TypeOK'
  BY <1>1, <1>2, <1>3 DEF TypeOK, Calls
<1>6. PagesApart'
  BY <1>1, <1>2, <1>4, TableApart
<1>7. TablesApart'
  <2>1. \A d \in Tables : pde'[d] = pde[d]
    BY <1>2
  <2>2. \A q \in Pids : page_directories'[q] # NULL => page_directories'[q] \in used'
    BY <1>3, <1>4 DEF TablesApart
  <2>3. \A d \in Tables : pde'[d] # NULL => pde'[d] \in used'
    BY <2>1, <1>3 DEF TablesApart
  <2>4. \A q, r \in Pids : page_directories'[q] # NULL
             /\ page_directories'[q] = page_directories'[r] => q = r
    BY <1>3, <1>4 DEF TablesApart
  <2>5. \A d, c \in Tables : pde'[d] # NULL /\ pde'[d] = pde'[c] => d = c
    BY <2>1 DEF TablesApart
  <2>6. \A q \in Pids, d \in Tables :
          page_directories'[q] # NULL => page_directories'[q] # pde'[d]
    BY <2>1, <1>3, <1>4 DEF TablesApart
  <2> QED
    BY <2>2, <2>3, <2>4, <2>5, <2>6 DEF TablesApart
<1>8. TreeOK'
  BY <1>2, <1>3, <1>4 DEF TreeOK
<1>9. CallOK'
  BY <1>2, <1>3, <1>4 DEF CallOK, TreeOK
<1>10. TextUnwritten' /\ MemoryHolds' /\ TlbFresh'
  BY <1>2, <1>3 DEF TextUnwritten, MemoryHolds, TlbFresh
<1> QED
  BY <1>5, <1>6, <1>7, <1>8, <1>9, <1>10

(* A page table that was not there is added.                               *)
LEMMA NewTable ==
    ASSUME IInv, NEW f \in Available, ask_kernel_for_frame(f, {}, FALSE),
           NEW t \in Tables, pde[t] = NULL, page_directories[t[1]] # NULL,
           pde' = [pde EXCEPT ![t] = f],
           UNCHANGED <<page_directories, curr_pid, written>>
    PROVE  /\ pde' \in [Tables -> Frames \cup {NULL}]
           /\ \A d \in Tables : pde'[d] = IF d = t THEN f ELSE pde[d]
           /\ PagesApart' /\ TablesApart' /\ TreeOK' /\ MemoryHolds' /\ TextUnwritten'
           /\ UNCHANGED tlb => TlbFresh'
<1> USE DEF IInv
<1>1. /\ f \in Frames /\ f # NULL
      /\ used' = used \cup {f}
      /\ \A e \in Entries : pte'[e] = IF pte[e] = f THEN NULL ELSE pte[e]
      /\ \A q \in Pids : page_directories[q] # f
      /\ \A d \in Tables : pde[d] # f
      /\ \A e \in Entries :
           (IF pte'[e] # NULL THEN mem'[pte'[e]] ELSE swap'[e])
             = IF e \in written THEN e ELSE NULL
  BY KernelForTable
<1>2. /\ pde' \in [Tables -> Frames \cup {NULL}]
      /\ \A d \in Tables : pde'[d] = IF d = t THEN f ELSE pde[d]
  BY <1>1 DEF TypeOK
<1>3. PagesApart'
  BY <1>2, TableApart
<1>4. TablesApart'
  <2>1. \A q \in Pids : page_directories'[q] = page_directories[q]
    OBVIOUS
  <2>2. \A q \in Pids : page_directories'[q] # NULL => page_directories'[q] \in used'
    BY <2>1, <1>1 DEF TablesApart
  <2>3. \A d \in Tables : pde'[d] # NULL => pde'[d] \in used'
    BY <1>1, <1>2 DEF TablesApart
  <2>4. \A q, r \in Pids : page_directories'[q] # NULL
             /\ page_directories'[q] = page_directories'[r] => q = r
    BY <2>1 DEF TablesApart
  <2>5. \A d, c \in Tables : pde'[d] # NULL /\ pde'[d] = pde'[c] => d = c
    BY <1>1, <1>2 DEF TablesApart
  <2>6. \A q \in Pids, d \in Tables :
          page_directories'[q] # NULL => page_directories'[q] # pde'[d]
    BY <2>1, <1>1, <1>2 DEF TablesApart
  <2> QED
    BY <2>2, <2>3, <2>4, <2>5, <2>6 DEF TablesApart
<1>5. \A d \in Tables : pde[d] # NULL => pde'[d] # NULL
  BY <1>1, <1>2
<1>6. TreeOK'
  <2>1. \A e \in Entries : <<e[1], TableOf(e[2])>> \in Tables
    BY DEF Entries, Tables, TableOf
  <2>2. ASSUME NEW p \in Pids, NEW i \in {0, 1}, pde'[p, i] # NULL
        PROVE  page_directories'[p] # NULL
    <3>1. <<p, i>> \in Tables
      BY DEF Tables
    <3>2. CASE <<p, i>> = t
      BY <3>2
    <3>3. CASE <<p, i>> # t
      BY <3>1, <3>3, <2>2, <1>2 DEF TreeOK
    <3> QED
      BY <3>2, <3>3
  <2>3. \A e \in Entries : pte'[e] # NULL \/ e \in written' => pde'[e[1], TableOf(e[2])] # NULL
    BY <2>1, <1>1, <1>5 DEF TreeOK
  <2> QED
    BY <2>2, <2>3 DEF TreeOK
<1>7. TextUnwritten' /\ MemoryHolds'
  BY <1>1 DEF TextUnwritten, MemoryHolds
<1>8. UNCHANGED tlb => TlbFresh'
  <2>1. \A u \in tlb : <<u[2], TableOf(u[1])>> \in Tables
    BY DEF TypeOK, Tables, TableOf
  <2> QED
    BY <2>1, <1>5 DEF TlbFresh
<1> QED
  BY <1>2, <1>3, <1>4, <1>6, <1>7, <1>8

LEMMA AddTableIInv ==
    ASSUME IInv, AddTable
    PROVE  IInv'
<1> USE DEF IInv
<1>1. PICK f \in Available : /\ ask_kernel_for_frame(f, {}, FALSE)
                             /\ pde' = [pde EXCEPT ![<<call.pid, 0>>] = f]
  BY DEF AddTable
<1>2. /\ call.at = "add table"
      /\ call' = [call EXCEPT !.at = "add pages"]
      /\ UNCHANGED <<page_directories, tlb, curr_pid, written>>
  BY DEF AddTable, Goto
<1>3. PICK p \in Pids : call = [at |-> "add table", pid |-> p]
  BY <1>2 DEF TypeOK, Calls
<1>4. call' = [at |-> "add pages", pid |-> p]
  BY <1>2, <1>3
<1>5. pde[p, 0] = NULL /\ pde[p, 1] = NULL /\ page_directories[p] # NULL
  BY <1>3 DEF CallOK
<1>6. ASSUME NEW page \in Pages
      PROVE  pte[p, page] = NULL /\ <<p, page>> \notin written
  <2>1. <<p, page>> \in Entries
    BY DEF Entries
  <2>2. pde[p, TableOf(page)] = NULL
    BY <1>5 DEF TableOf
  <2> QED
    BY <2>1, <2>2 DEF TreeOK
<1> DEFINE t == <<p, 0>>
<1>7. t \in Tables /\ t[1] = p /\ pde[t] = NULL /\ pde' = [pde EXCEPT ![t] = f]
  BY <1>1, <1>3, <1>5 DEF Tables
<1>8. /\ pde' \in [Tables -> Frames \cup {NULL}]
      /\ \A d \in Tables : pde'[d] = IF d = t THEN f ELSE pde[d]
      /\ PagesApart' /\ TablesApart' /\ TreeOK' /\ MemoryHolds' /\ TextUnwritten'
      /\ TlbFresh'
  <2> HIDE DEF t
  <2> QED
    BY <1>1, <1>2, <1>5, <1>7, NewTable
<1>9. /\ f # NULL
      /\ \A e \in Entries : pte'[e] = IF pte[e] = f THEN NULL ELSE pte[e]
  BY <1>1, KernelForTable
<1>10. TypeOK'
  <2>1. /\ used' \subseteq Frames
        /\ pte' \in [Entries -> Frames \cup {NULL}]
        /\ mem' \in [Frames -> Entries \cup {NULL}]
        /\ swap' \in [Entries -> Entries \cup {NULL}]
    <3>1. /\ used' = used \cup {f} /\ f \in Frames
          /\ pte' \in [Entries -> Frames \cup {NULL}]
          /\ mem' \in [Frames -> Entries \cup {NULL}]
          /\ swap' \in [Entries -> Entries \cup {NULL}]
      BY <1>1, KernelForTable
    <3>2. used \subseteq Frames
      BY DEF TypeOK
    <3> QED
      BY <3>1, <3>2
  <2> QED
    <3>1. call' \in Calls
      <4>1. call' \in [at : {"add table", "add pages"}, pid : Pids]
        BY ONLY <1>4, p \in Pids
      <4> QED
        BY <4>1, Zenon DEF Calls
    <3> QED
      BY <2>1, <3>1, <1>2, <1>8 DEF TypeOK
<1>11. CallOK'
  <2>1. pde'[p, 0] # NULL
    BY <1>7, <1>8, <1>9
  <2>2. \A page \in Pages : pte'[p, page] = NULL /\ <<p, page>> \notin written'
    BY <1>2, <1>6, <1>9 DEF Entries
  <2>3. call'.at = "add pages" /\ call'.pid = p
    BY <1>4
  <2>4. page_directories'[p] # NULL
    BY <1>2, <1>5
  <2> QED
    BY <2>1, <2>2, <2>3, <2>4 DEF CallOK
<1> QED
  BY <1>8, <1>10, <1>11

LEMMA AddPageIInv ==
    ASSUME IInv, AddPage
    PROVE  IInv'
<1> USE DEF IInv
<1>1. PICK page \in Testing, f \in Available :
        /\ page \notin (IF "page" \in DOMAIN call THEN {call.page} ELSE {})
        /\ ask_kernel_for_frame(f, {<<call.pid, page>>}, FALSE)
        /\ call' = IF "page" \in DOMAIN call THEN Idle
                   ELSE [at |-> "add pages", pid |-> call.pid, page |-> page]
  BY DEF AddPage
<1>2. /\ call.at = "add pages"
      /\ UNCHANGED <<page_directories, pde, tlb, curr_pid, written>>
  BY DEF AddPage
<1> DEFINE p == call.pid
           g == <<p, page>>
           new == {g}
<1>3. p \in Pids
  BY <1>2 DEF TypeOK, Calls
<1>4. page \in Pages /\ g \in Entries /\ TableOf(page) = 0
  BY <1>3 DEF Pages, Entries, TableOf
<1>5. page_directories[p] # NULL /\ pde[p, 0] # NULL
  BY <1>2 DEF CallOK
<1>6. pte[g] = NULL /\ g \notin written
  BY <1>1, <1>2, <1>4 DEF CallOK
<1>7. /\ new \in SUBSET Entries
      /\ \A e, d \in new : e = d
      /\ \A e \in new : pte[e] = NULL /\ (FALSE \/ e \notin written)
      /\ FALSE \in BOOLEAN
      /\ ask_kernel_for_frame(f, new, FALSE)
  BY <1>1, <1>4, <1>6
<1>8. \A e : e \in new <=> e = g
  OBVIOUS
<1> HIDE DEF new
<1>9. /\ f \in Frames /\ f # NULL
      /\ used' = used \cup {f}
      /\ pte' \in [Entries -> Frames \cup {NULL}]
      /\ mem' \in [Frames -> Entries \cup {NULL}]
      /\ swap' \in [Entries -> Entries \cup {NULL}]
      /\ \A e \in Entries : pte'[e] = IF e \in new THEN f
                                      ELSE IF pte[e] = f THEN NULL ELSE pte[e]
      /\ \A q \in Pids : page_directories[q] # f
      /\ \A d \in Tables : pde[d] # f
      /\ \A e \in Entries :
           (IF pte'[e] # NULL THEN mem'[pte'[e]] ELSE swap'[e])
             = IF e \in written THEN e ELSE NULL
  BY <1>7, AskKernel
<1>10. TypeOK'
  <2>1. call' \in Calls
    BY <1>1, <1>3 DEF Calls, Idle
  <2> QED
    BY <2>1, <1>2, <1>9 DEF TypeOK
<1>11. PagesApart'
  BY <1>2, <1>7, <1>9, PagesStayApart
<1>12. TablesApart'
  BY <1>2, <1>9 DEF TablesApart
<1>13. TreeOK'
  <2>1. \A e \in Entries : pte'[e] # NULL => pte[e] # NULL \/ e = g
    BY <1>8, <1>9
  <2>2. pde[g[1], TableOf(g[2])] # NULL
    BY <1>4, <1>5
  <2> HIDE DEF g
  <2>3. ASSUME NEW e \in Entries, pte'[e] # NULL \/ e \in written'
        PROVE  pde'[e[1], TableOf(e[2])] # NULL
    <3>1. CASE e = g
      BY <2>2, <3>1, <1>2, Zenon
    <3>2. CASE e # g
      <4>1. pte[e] # NULL \/ e \in written
        BY <2>1, <2>3, <3>2, <1>2, Zenon
      <4>2. pde[e[1], TableOf(e[2])] # NULL
        BY <4>1, Zenon DEF TreeOK
      <4> QED
        BY <4>2, <1>2, Zenon
    <3> QED
      BY <3>1, <3>2
  <2> QED
    BY <2>3, <1>2 DEF TreeOK
<1>14. CallOK'
  <2>1. CASE "page" \in DOMAIN call
    <3>1. call'.at = "idle"
      BY <2>1, <1>1 DEF Idle
    <3> QED
      BY <3>1 DEF CallOK
  <2>2. CASE "page" \notin DOMAIN call
    <3>1. call' = [at |-> "add pages", pid |-> p, page |-> page]
      BY <2>2, <1>1
    <3>2. \A q \in Pages : <<p, q>> \notin written' /\ (pte'[p, q] # NULL => q = page)
      <4> SUFFICES ASSUME NEW q \in Pages
                   PROVE  <<p, q>> \notin written' /\ (pte'[p, q] # NULL => q = page)
        OBVIOUS
      <4>1. <<p, q>> \in Entries
        BY <1>3 DEF Entries
      <4>2. pte[p, q] = NULL /\ <<p, q>> \notin written
        BY <2>2, <1>2 DEF CallOK
      <4>3. <<p, q>> = g => q = page
        BY <1>1
      <4>4. pte'[<<p, q>>] = IF <<p, q>> \in new THEN f
                             ELSE IF pte[<<p, q>>] = f THEN NULL ELSE pte[<<p, q>>]
        BY <1>9, <4>1, Zenon
      <4> QED
        BY <1>2, <1>8, <4>2, <4>3, <4>4
    <3>3. page_directories'[p] # NULL /\ pde'[p, 0] # NULL
      BY <1>2, <1>5
    <3>4. /\ call'.at = "add pages" /\ call'.pid = p
          /\ "page" \in DOMAIN call' /\ call'.page = page
      BY <3>1
    <3> QED
      BY <3>2, <3>3, <3>4 DEF CallOK
  <2> QED
    BY <2>1, <2>2
<1>15. TextUnwritten' /\ MemoryHolds' /\ TlbFresh'
  BY <1>2, <1>9 DEF TextUnwritten, MemoryHolds, TlbFresh
<1> QED
  BY <1>10, <1>11, <1>12, <1>13, <1>14, <1>15

LEMMA RemoveProcessIInv ==
    ASSUME IInv, NEW p \in Pids, RemoveProcess(p)
    PROVE  IInv'
<1> USE DEF IInv
<1> DEFINE own(e) == e[1] = p /\ pde[p, TableOf(e[2])] # NULL
<1>1. /\ call = Idle /\ page_directories[p] # NULL
      /\ used' = used \ Returned(p)
      /\ swap' = [e \in Entries |-> IF own(e) THEN NULL ELSE swap[e]]
      /\ pte' = [e \in Entries |-> IF e[1] = p THEN NULL ELSE pte[e]]
      /\ pde' = [d \in DOMAIN pde |-> IF d[1] = p THEN NULL ELSE pde[d]]
      /\ page_directories' = [page_directories EXCEPT ![p] = NULL]
      /\ tlb' = IF curr_pid = p THEN {} ELSE tlb
      /\ written' = {e \in written : e[1] # p}
      /\ mem' = [f \in Frames |-> IF f \in used' THEN mem[f] ELSE NULL]
      /\ UNCHANGED <<curr_pid, call>>
  BY DEF RemoveProcess, FlushOf
<1>2. /\ \A e \in Entries : pte'[e] = IF e[1] = p THEN NULL ELSE pte[e]
      /\ \A d \in Tables : pde'[d] = IF d[1] = p THEN NULL ELSE pde[d]
      /\ \A q \in Pids : page_directories'[q] = IF q = p THEN NULL ELSE page_directories[q]
  BY <1>1 DEF TypeOK
<1>3. TypeOK'
  <2>1. page_directories' \in [Pids -> Frames \cup {NULL}]
    BY <1>1 DEF TypeOK
  <2>2. pde' \in [Tables -> Frames \cup {NULL}] /\ pte' \in [Entries -> Frames \cup {NULL}]
    BY <1>1 DEF TypeOK
  <2>3. mem' \in [Frames -> Entries \cup {NULL}] /\ swap' \in [Entries -> Entries \cup {NULL}]
    BY <1>1 DEF TypeOK
  <2>4. used' \subseteq Frames /\ tlb' \subseteq Pages \X Pids /\ written' \subseteq Entries
    BY <1>1 DEF TypeOK
  <2> QED
    BY <2>1, <2>2, <2>3, <2>4, <1>1 DEF TypeOK
<1>4. /\ \A e \in Entries : pte'[e] # NULL => pte'[e] \notin Returned(p)
      /\ \A d \in Tables : pde'[d] # NULL => pde'[d] \notin Returned(p)
      /\ \A q \in Pids : page_directories'[q] # NULL => page_directories'[q] \notin Returned(p)
  <2>1. ASSUME NEW f \in Returned(p)
        PROVE  \/ \E e \in Entries : e[1] = p /\ f = pte[e] /\ f # NULL
               \/ \E d \in Tables : d[1] = p /\ f = pde[d]
               \/ f = page_directories[p]
    BY DEF Returned, Present, Tables
  <2>2. ASSUME NEW e \in Entries, pte'[e] # NULL
        PROVE  pte'[e] \notin Returned(p)
    BY <2>1, <2>2, <1>2 DEF PagesApart
  <2>3. ASSUME NEW d \in Tables, pde'[d] # NULL
        PROVE  pde'[d] \notin Returned(p)
    <3>1. pde'[d] = pde[d] /\ d[1] # p /\ page_directories[p] # NULL
      BY <2>3, <1>1, <1>2
    <3>2. /\ \A e \in Entries : pte[e] # NULL => pte[e] # pde[d]
          /\ \A c \in Tables : pde[d] = pde[c] => d = c
          /\ page_directories[p] # pde[d]
      BY <2>3, <3>1 DEF PagesApart, TablesApart
    <3> QED
      BY <2>1, <3>1, <3>2
  <2>4. ASSUME NEW q \in Pids, page_directories'[q] # NULL
        PROVE  page_directories'[q] \notin Returned(p)
    BY <2>1, <2>4, <1>2 DEF PagesApart, TablesApart
  <2> QED
    BY <2>2, <2>3, <2>4
<1>5. used' = used \ Returned(p)
  BY <1>1
<1>6. PagesApart'
  <2>1. \A e \in Entries : pte'[e] # NULL => pte'[e] \in used'
    BY <1>2, <1>4, <1>5 DEF PagesApart
  <2>2. \A e, g \in Entries : pte'[e] # NULL /\ pte'[e] = pte'[g] => e = g
    BY <1>2 DEF PagesApart
  <2>3. \A e \in Entries, q \in Pids : pte'[e] # NULL => pte'[e] # page_directories'[q]
    BY <1>2 DEF PagesApart
  <2>4. \A e \in Entries, d \in Tables : pte'[e] # NULL => pte'[e] # pde'[d]
    BY <1>2 DEF PagesApart
  <2> QED
    BY <2>1, <2>2, <2>3, <2>4 DEF PagesApart
<1>7. TablesApart'
  <2>1. \A q \in Pids : page_directories'[q] # NULL => page_directories'[q] \in used'
    BY <1>2, <1>4, <1>5 DEF TablesApart
  <2>2. \A d \in Tables : pde'[d] # NULL => pde'[d] \in used'
    BY <1>2, <1>4, <1>5 DEF TablesApart
  <2>3. \A q, r \in Pids : page_directories'[q] # NULL
             /\ page_directories'[q] = page_directories'[r] => q = r
    BY <1>2 DEF TablesApart
  <2>4. \A d, c \in Tables : pde'[d] # NULL /\ pde'[d] = pde'[c] => d = c
    BY <1>2 DEF TablesApart
  <2>5. \A q \in Pids, d \in Tables :
          page_directories'[q] # NULL => page_directories'[q] # pde'[d]
    BY <1>2 DEF TablesApart
  <2> QED
    BY <2>1, <2>2, <2>3, <2>4, <2>5 DEF TablesApart
<1>8. TreeOK'
  <2>1. ASSUME NEW q \in Pids, NEW i \in {0, 1}, pde'[q, i] # NULL
        PROVE  page_directories'[q] # NULL
    <3>1. <<q, i>> \in Tables
      BY DEF Tables
    <3> QED
      BY <3>1, <2>1, <1>2 DEF TreeOK
  <2>2. ASSUME NEW e \in Entries, pte'[e] # NULL \/ e \in written'
        PROVE  pde'[e[1], TableOf(e[2])] # NULL
    <3>1. e[1] # p
      BY <2>2, <1>1, <1>2
    <3>2. <<e[1], TableOf(e[2])>> \in Tables
      BY DEF Tables, Entries, TableOf
    <3> QED
      <4>1. pte[e] # NULL \/ e \in written
        BY <2>2, <1>1, <1>2
      <4>2. pde[<<e[1], TableOf(e[2])>>] # NULL
        BY <4>1, Zenon DEF TreeOK
      <4>3. <<e[1], TableOf(e[2])>>[1] # p
        BY <3>1
      <4> QED
        BY <3>2, <4>2, <4>3, <1>2
  <2> QED
    BY <2>1, <2>2 DEF TreeOK
<1>9. CallOK'
  BY <1>1 DEF CallOK, Idle
<1>10. TextUnwritten'
  BY <1>1 DEF TextUnwritten
<1>11. MemoryHolds'
  <2> SUFFICES ASSUME NEW e \in Entries
               PROVE  (IF pte'[e] # NULL THEN mem'[pte'[e]] ELSE swap'[e])
                        = IF e \in written' THEN e ELSE NULL
    BY DEF MemoryHolds
  <2>1. CASE e[1] = p
    <3>1. pte'[e] = NULL /\ e \notin written'
      BY <2>1, <1>1, <1>2
    <3>2. CASE own(e)
      BY <3>1, <3>2, <1>1
    <3>3. CASE ~own(e)
      <4>1. pte[e] = NULL /\ e \notin written
        BY <2>1, <3>3 DEF TreeOK
      <4> QED
        BY <3>1, <3>3, <4>1, <1>1 DEF MemoryHolds
    <3> QED
      BY <3>2, <3>3
  <2>2. CASE e[1] # p
    <3>1. pte'[e] = pte[e] /\ swap'[e] = swap[e] /\ (e \in written' <=> e \in written)
      BY <2>2, <1>1, <1>2
    <3>2. pte[e] # NULL => mem'[pte[e]] = mem[pte[e]]
      BY <3>1, <1>1, <1>6 DEF TypeOK, PagesApart
    <3> QED
      BY <3>1, <3>2 DEF MemoryHolds
  <2> QED
    BY <2>1, <2>2
<1>12. TlbFresh'
  <2> SUFFICES ASSUME NEW t \in tlb'
               PROVE  t[2] = curr_pid' /\ pde'[t[2], TableOf(t[1])] # NULL
    BY DEF TlbFresh
  <2>1. t \in tlb /\ curr_pid # p
    BY <1>1
  <2>2. <<t[2], TableOf(t[1])>> \in Tables /\ t[2] = curr_pid
    BY <2>1 DEF TypeOK, Tables, TableOf, TlbFresh
  <2> QED
    <3>1. pde[<<t[2], TableOf(t[1])>>] # NULL /\ curr_pid' = curr_pid
      BY <2>1, <1>1 DEF TlbFresh
    <3>2. <<t[2], TableOf(t[1])>>[1] # p
      BY <2>1, <2>2
    <3>3. pde'[<<t[2], TableOf(t[1])>>] = pde[<<t[2], TableOf(t[1])>>]
      BY <1>2, <2>2, <3>2
    <3> QED
      BY <2>2, <3>1, <3>3
<1> QED
  BY <1>3, <1>6, <1>7, <1>8, <1>9, <1>10, <1>11, <1>12

LEMMA AccessIInv ==
    ASSUME IInv, NEW p \in Pids, NEW page \in Pages, NEW write \in BOOLEAN,
           Access(p, page, write)
    PROVE  IInv'
<1> USE DEF IInv, Access
<1>1. TypeOK'
  BY DEF TypeOK, Calls
<1>2. PagesApart' /\ TablesApart'
  BY DEF PagesApart, TablesApart
<1>3. TreeOK' /\ TextUnwritten' /\ MemoryHolds'
  BY DEF TreeOK, TextUnwritten, MemoryHolds
<1>4. CallOK'
  BY DEF CallOK
<1>5. TlbFresh'
  BY DEF TlbFresh
<1> QED
  BY <1>1, <1>2, <1>3, <1>4, <1>5

LEMMA OutsideSegmentsIInv ==
    ASSUME IInv, NEW p \in Pids, OutsideSegments(p)
    PROVE  IInv'
<1> USE DEF IInv, OutsideSegments
<1>1. TypeOK' /\ CallOK'
  BY DEF TypeOK, CallOK, Idle
<1>2. PagesApart' /\ TablesApart'
  BY DEF PagesApart, TablesApart
<1>3. TreeOK' /\ TextUnwritten' /\ MemoryHolds' /\ TlbFresh'
  BY DEF TreeOK, TextUnwritten, MemoryHolds, TlbFresh
<1> QED
  BY <1>1, <1>2, <1>3

(* When the TLB has the page, its entry is that of the calling process.    *)
LEMMA EntryOfCall ==
    ASSUME IInv, call.at = "look up", Hits # {}
    PROVE  /\ call.pid \in Pids /\ call.page \in Pages /\ call.write \in BOOLEAN
           /\ Entry = <<call.pid, call.page>> /\ Entry \in Entries
           /\ pde[call.pid, TableOf(call.page)] # NULL
<1> USE DEF IInv
<1>1. call.pid \in Pids /\ call.page \in Pages /\ call.write \in BOOLEAN
  BY DEF TypeOK, Calls
<1>2. PICK t \in Hits : t = CHOOSE u \in Hits : TRUE
  OBVIOUS
<1>3. t \in tlb /\ t[1] = call.page /\ t[2] = curr_pid
  BY DEF Hits, TlbFresh
<1>4. Owner = call.pid
  BY <1>2, <1>3 DEF Owner, CallOK
<1>5. pde[call.pid, TableOf(call.page)] # NULL
  BY <1>3 DEF TlbFresh, CallOK
<1> QED
  BY <1>1, <1>4, <1>5 DEF Entry, Entries

LEMMA WalkTablesIInv ==
    ASSUME IInv, WalkTables
    PROVE  IInv'
<1> USE DEF IInv
<1> DEFINE d == <<call.pid, TableOf(call.page)>>
<1>1. call.at = "look up" /\ UNCHANGED <<page_directories, curr_pid, written>>
  BY DEF WalkTables
<1>2. /\ call.pid \in Pids /\ call.page \in Pages /\ call.pid = curr_pid
      /\ d \in Tables /\ page_directories[call.pid] # NULL
  BY <1>1 DEF TypeOK, Calls, CallOK, Tables, TableOf
<1>3. ASSUME tlb_add_pte
      PROVE  /\ tlb' \subseteq Pages \X Pids
             /\ \A t \in tlb' : t \in tlb \/ t = <<call.page, call.pid>>
  BY <1>2, <1>3 DEF tlb_add_pte, TypeOK
<1>4. CASE /\ pde[d] # NULL /\ tlb_add_pte /\ UNCHANGED <<pde, pte, used, mem, swap, call>>
  <2>1. TypeOK' /\ PagesApart'
    BY <1>1, <1>3, <1>4 DEF TypeOK, PagesApart
  <2>2. TablesApart' /\ TreeOK' /\ CallOK'
    BY <1>1, <1>4 DEF TablesApart, TreeOK, CallOK
  <2>3. TextUnwritten' /\ MemoryHolds'
    BY <1>1, <1>4 DEF TextUnwritten, MemoryHolds
  <2>4. TlbFresh'
    <3> SUFFICES ASSUME NEW t \in tlb'
                 PROVE  t[2] = curr_pid' /\ pde'[t[2], TableOf(t[1])] # NULL
      BY DEF TlbFresh
    <3>1. t \in tlb \/ t = <<call.page, call.pid>>
      BY <1>3, <1>4
    <3>2. CASE t \in tlb
      BY <3>2, <1>1, <1>4 DEF TlbFresh
    <3>3. CASE t = <<call.page, call.pid>>
      BY <3>3, <1>1, <1>2, <1>4
    <3> QED
      BY <3>1, <3>2, <3>3
  <2> QED
    BY <2>1, <2>2, <2>3, <2>4
<1>5. CASE /\ pde[d] = NULL /\ tlb_add_pte /\ UNCHANGED call
           /\ \E f \in Available : /\ ask_kernel_for_frame(f, {}, FALSE)
                                   /\ pde' = [pde EXCEPT ![d] = f]
  <2>1. PICK f \in Available : /\ ask_kernel_for_frame(f, {}, FALSE)
                               /\ pde' = [pde EXCEPT ![d] = f]
    BY <1>5
  <2>2. d[1] = call.pid
    OBVIOUS
  <2>3. /\ pde' \in [Tables -> Frames \cup {NULL}]
        /\ \A c \in Tables : pde'[c] = IF c = d THEN f ELSE pde[c]
        /\ PagesApart' /\ TablesApart' /\ TreeOK' /\ MemoryHolds' /\ TextUnwritten'
    <3> HIDE DEF d
    <3> QED
      BY <1>1, <1>2, <1>5, <2>1, <2>2, NewTable
  <2>4. /\ f \in Frames /\ f # NULL
        /\ used' = used \cup {f}
        /\ pte' \in [Entries -> Frames \cup {NULL}]
        /\ mem' \in [Frames -> Entries \cup {NULL}]
        /\ swap' \in [Entries -> Entries \cup {NULL}]
    BY <2>1, KernelForTable
  <2>5. TypeOK'
    BY <1>1, <1>3, <1>5, <2>3, <2>4 DEF TypeOK
  <2>6. CallOK'
    BY <1>1, <1>5 DEF CallOK
  <2>7. TlbFresh'
    <3> SUFFICES ASSUME NEW t \in tlb'
                 PROVE  t[2] = curr_pid' /\ pde'[t[2], TableOf(t[1])] # NULL
      BY DEF TlbFresh
    <3>1. CASE t \in tlb
      <4>1. <<t[2], TableOf(t[1])>> \in Tables
        BY <3>1 DEF TypeOK, Tables, TableOf
      <4> QED
        BY <3>1, <4>1, <1>1, <2>3, <2>4 DEF TlbFresh
    <3>2. CASE t = <<call.page, call.pid>>
      BY <3>2, <1>1, <1>2, <2>3, <2>4
    <3> QED
      BY <3>1, <3>2, <1>3, <1>5
  <2> QED
    BY <2>3, <2>5, <2>6, <2>7
<1>6. CASE call' = [call EXCEPT !.at = "undefined"]
           /\ UNCHANGED <<pde, pte, used, mem, swap, tlb>>
  <2>1. TypeOK' /\ PagesApart'
    BY <1>1, <1>6 DEF TypeOK, Calls, PagesApart
  <2>2. TablesApart' /\ TreeOK'
    BY <1>1, <1>6 DEF TablesApart, TreeOK
  <2>3. CallOK'
    BY <1>1, <1>2, <1>6 DEF CallOK, TypeOK, Calls
  <2>4. TextUnwritten' /\ MemoryHolds' /\ TlbFresh'
    BY <1>1, <1>6 DEF TextUnwritten, MemoryHolds, TlbFresh
  <2> QED
    BY <2>1, <2>2, <2>3, <2>4
<1> QED
  BY <1>4, <1>5, <1>6 DEF WalkTables, Goto

LEMMA PageFaultIInv ==
    ASSUME IInv, PageFault
    PROVE  IInv'
<1> USE DEF IInv
<1>1. /\ call.at = "look up" /\ Hits # {} /\ pte[Entry] = NULL
      /\ UNCHANGED <<page_directories, pde, tlb, curr_pid, written>>
  BY DEF PageFault
<1>2. /\ call.pid \in Pids /\ call.page \in Pages /\ call.write \in BOOLEAN
      /\ Entry = <<call.pid, call.page>> /\ Entry \in Entries
      /\ pde[call.pid, TableOf(call.page)] # NULL
  BY <1>1, EntryOfCall
<1>3. CASE /\ call.write
           /\ \E f \in Available : ask_kernel_for_frame(f, {Entry}, Load)
           /\ call' = IF Permitted THEN call ELSE Idle
  <2>1. PICK f \in Available : ask_kernel_for_frame(f, {Entry}, Load)
    BY <1>3
  <2>2. Load \in BOOLEAN
    BY <1>2 DEF Load, Permitted
  <2>3. Load \/ Entry \notin written
    BY <1>2 DEF Load, Permitted, TextUnwritten
  <2> DEFINE new == {Entry}
  <2>4. /\ new \in SUBSET Entries
        /\ \A e, d \in new : e = d
        /\ \A e \in new : pte[e] = NULL /\ (Load \/ e \notin written)
        /\ ask_kernel_for_frame(f, new, Load)
    BY <1>1, <1>2, <2>1, <2>3
  <2>5. \A e : e \in new <=> e = Entry
    OBVIOUS
  <2> HIDE DEF new
  <2>6. /\ f \in Frames /\ f # NULL
        /\ used' = used \cup {f}
        /\ pte' \in [Entries -> Frames \cup {NULL}]
        /\ mem' \in [Frames -> Entries \cup {NULL}]
        /\ swap' \in [Entries -> Entries \cup {NULL}]
        /\ \A e \in Entries : pte'[e] = IF e \in new THEN f
                                        ELSE IF pte[e] = f THEN NULL ELSE pte[e]
        /\ \A q \in Pids : page_directories[q] # f
        /\ \A d \in Tables : pde[d] # f
        /\ \A e \in Entries :
             (IF pte'[e] # NULL THEN mem'[pte'[e]] ELSE swap'[e])
               = IF e \in written THEN e ELSE NULL
    BY <2>2, <2>4, AskKernel
  <2>7. TypeOK'
    <3>1. call' \in Calls
      BY <1>3 DEF TypeOK, Calls, Idle
    <3> QED
      BY <3>1, <1>1, <2>6 DEF TypeOK
  <2>8. PagesApart'
    BY <1>1, <2>4, <2>6, PagesStayApart
  <2>9. TablesApart'
    BY <1>1, <2>6 DEF TablesApart
  <2>10. TreeOK'
    <3>1. \A e \in Entries : pte'[e] # NULL => pte[e] # NULL \/ e = Entry
      BY <2>5, <2>6
    <3>2. pde[Entry[1], TableOf(Entry[2])] # NULL
      BY <1>2
    <3>3. ASSUME NEW e \in Entries, pte'[e] # NULL \/ e \in written'
          PROVE  pde'[e[1], TableOf(e[2])] # NULL
      BY <3>1, <3>2, <3>3, <1>1 DEF TreeOK
    <3> QED
      BY <3>3, <1>1 DEF TreeOK
  <2>11. CallOK'
    BY <1>1, <1>3 DEF CallOK, Idle
  <2>12. TextUnwritten' /\ MemoryHolds' /\ TlbFresh'
    BY <1>1, <2>6 DEF TextUnwritten, MemoryHolds, TlbFresh
  <2> QED
    BY <2>7, <2>8, <2>9, <2>10, <2>11, <2>12
<1>4. CASE call' = [call EXCEPT !.at = "undefined"] /\ UNCHANGED <<pte, used, mem, swap>>
  <2>1. TypeOK' /\ PagesApart'
    BY <1>1, <1>4 DEF TypeOK, Calls, PagesApart
  <2>2. TablesApart' /\ TreeOK'
    BY <1>1, <1>4 DEF TablesApart, TreeOK
  <2>3. CallOK'
    BY <1>1, <1>4 DEF CallOK, TypeOK, Calls
  <2>4. TextUnwritten' /\ MemoryHolds' /\ TlbFresh'
    BY <1>1, <1>4 DEF TextUnwritten, MemoryHolds, TlbFresh
  <2> QED
    BY <2>1, <2>2, <2>3, <2>4
<1> QED
  BY <1>3, <1>4 DEF PageFault, Goto

LEMMA CopyIInv ==
    ASSUME IInv, Copy
    PROVE  IInv'
<1> USE DEF IInv
<1>1. /\ call.at = "look up" /\ Hits # {} /\ pte[Entry] # NULL /\ call' = Idle
      /\ UNCHANGED <<page_directories, pde, pte, used, swap, tlb, curr_pid>>
  BY DEF Copy
<1>2. /\ call.pid \in Pids /\ call.page \in Pages /\ call.write \in BOOLEAN
      /\ Entry = <<call.pid, call.page>> /\ Entry \in Entries
      /\ pde[call.pid, TableOf(call.page)] # NULL
  BY <1>1, EntryOfCall
<1>3. PagesApart' /\ TablesApart'
  BY <1>1 DEF PagesApart, TablesApart
<1>4. CallOK' /\ TlbFresh'
  BY <1>1 DEF CallOK, TlbFresh, Idle
<1>5. CASE /\ call.write /\ Permitted
           /\ mem' = [mem EXCEPT ![pte[Entry]] = <<call.pid, call.page>>]
           /\ written' = written \cup {<<call.pid, call.page>>}
  <2>1. mem' = [mem EXCEPT ![pte[Entry]] = Entry] /\ written' = written \cup {Entry}
    BY <1>2, <1>5
  <2>2. TypeOK'
    BY <1>1, <1>2, <2>1 DEF TypeOK, Calls, Idle
  <2>3. pde[Entry[1], TableOf(Entry[2])] # NULL /\ Entry[2] \notin Text
    BY <1>2, <1>5 DEF Permitted
  <2>4. TreeOK'
    BY <1>1, <2>1, <2>3 DEF TreeOK
  <2>5. TextUnwritten'
    BY <2>1, <2>3 DEF TextUnwritten
  <2>6. MemoryHolds'
    <3> SUFFICES ASSUME NEW e \in Entries
                 PROVE  (IF pte'[e] # NULL THEN mem'[pte'[e]] ELSE swap'[e])
                          = IF e \in written' THEN e ELSE NULL
      BY DEF MemoryHolds
    <3>1. CASE e = Entry
      BY <3>1, <1>1, <1>2, <2>1 DEF TypeOK
    <3>2. CASE e # Entry
      <4>1. pte[e] # NULL => pte[e] # pte[Entry] /\ mem'[pte[e]] = mem[pte[e]]
        BY <3>2, <1>2, <2>1 DEF PagesApart, TypeOK
      <4> QED
        BY <3>2, <4>1, <1>1, <2>1 DEF MemoryHolds
    <3> QED
      BY <3>1, <3>2
  <2> QED
    BY <2>2, <2>4, <2>5, <2>6, <1>3, <1>4
<1>6. CASE UNCHANGED <<mem, written>>
  <2>1. TypeOK' /\ TreeOK'
    BY <1>1, <1>6 DEF TypeOK, Calls, Idle, TreeOK
  <2>2. TextUnwritten' /\ MemoryHolds'
    BY <1>1, <1>6 DEF TextUnwritten, MemoryHolds
  <2> QED
    BY <2>1, <2>2, <1>3, <1>4
<1> QED
  BY <1>5, <1>6 DEF Copy
-----------------------------------------------------------------------------
LEMMA NextIInv == IInv /\ [Next]_vars => IInv'
<1> SUFFICES ASSUME IInv, [Next]_vars PROVE IInv'
  OBVIOUS
<1>1. ASSUME NEW p \in Pids, AddProcess(p) PROVE IInv'
  BY <1>1, AddProcessIInv
<1>2. ASSUME NEW p \in Pids, RemoveProcess(p) PROVE IInv'
  BY <1>2, RemoveProcessIInv
<1>3. ASSUME NEW p \in Pids, OutsideSegments(p) PROVE IInv'
  BY <1>3, OutsideSegmentsIInv
<1>4. ASSUME NEW p \in Pids, NEW page \in Pages, NEW write \in BOOLEAN,
             Access(p, page, write)
      PROVE  IInv'
  BY <1>4, AccessIInv
<1>5. CASE AddTable
  BY <1>5, AddTableIInv
<1>6. CASE AddPage
  BY <1>6, AddPageIInv
<1>7. CASE WalkTables
  BY <1>7, WalkTablesIInv
<1>8. CASE PageFault
  BY <1>8, PageFaultIInv
<1>9. CASE Copy
  BY <1>9, CopyIInv
<1>10. CASE UNCHANGED vars
  <2> USE <1>10 DEF vars, IInv
  <2>1. TypeOK' /\ PagesApart' /\ TablesApart'
    BY DEF TypeOK, PagesApart, TablesApart
  <2>2. TreeOK' /\ CallOK' /\ TextUnwritten'
    BY DEF TreeOK, CallOK, TextUnwritten
  <2>3. MemoryHolds' /\ TlbFresh'
    BY DEF MemoryHolds, TlbFresh
  <2> QED
    BY <2>1, <2>2, <2>3
<1> QED
  BY <1>1, <1>2, <1>3, <1>4, <1>5, <1>6, <1>7, <1>8, <1>9, <1>10 DEF Next

(* The invariant that the others follow from holds in every state.         *)
LEMMA IInvHolds == Spec => []IInv
  BY InitIInv, NextIInv, PTL DEF Spec

(* Each page holds what its process wrote to it, in its frame or in its    *)
(* swap file: mmu.c never writes to the page of another process, loses a   *)
(* write with a frame, or shows a process what another one left behind.    *)
THEOREM PagesHold == Spec => []MemoryHolds
<1>1. IInv => MemoryHolds
  BY DEF IInv
<1> QED
  BY <1>1, IInvHolds, PTL

(* The TLB holds entries of the current process only, in page tables that  *)
(* are still there: the flushes of mmu.c are enough.                       *)
THEOREM TlbIsFresh == Spec => []TlbFresh
<1>1. IInv => TlbFresh
  BY DEF IInv
<1> QED
  BY <1>1, IInvHolds, PTL

-----------------------------------------------------------------------------
\* A frame in use is used for something.
UsedKnown == \A f \in used : \/ \E p \in Pids : page_directories[p] = f
                             \/ \E d \in Tables : pde[d] = f
                             \/ \E e \in Entries : pte[e] = f

(* The frame that the kernel gives is used, and no other is lost for it.   *)
LEMMA AskedKnown ==
    ASSUME IInv, UsedKnown, NEW f \in Available, NEW new \in SUBSET Entries, NEW load,
           ask_kernel_for_frame(f, new, load),
           \A e \in new : pte[e] = NULL,
           \A p \in Pids : page_directories[p] # NULL => page_directories'[p] = page_directories[p],
           \A d \in Tables : pde[d] # NULL => pde'[d] = pde[d],
           \/ \E p \in Pids : page_directories'[p] = f
           \/ \E d \in Tables : pde'[d] = f
           \/ new # {}
    PROVE  UsedKnown'
<1> USE MmuAssumption DEF IInv
<1>1. used' = used \cup {f}
  BY DEF ask_kernel_for_frame
<1>2. \A e \in Entries : pte'[e] = IF e \in new THEN f
                                   ELSE IF pte[e] # NULL /\ pte[e] = f THEN NULL ELSE pte[e]
  BY DEF ask_kernel_for_frame, Evicted, Present
<1>3. \A g \in used : g # NULL
  BY DEF TypeOK
<1> SUFFICES ASSUME NEW g \in used'
             PROVE  \/ \E p \in Pids : page_directories'[p] = g
                    \/ \E d \in Tables : pde'[d] = g
                    \/ \E e \in Entries : pte'[e] = g
  BY DEF UsedKnown
<1>4. CASE g = f
  BY <1>2, <1>4
<1>5. CASE g # f
  <2>1. g \in used /\ g # NULL
    BY <1>1, <1>3, <1>5
  <2>2. CASE \E e \in Entries : pte[e] = g
    BY <1>2, <1>5, <2>1, <2>2
  <2> QED
    BY <2>1, <2>2 DEF UsedKnown
<1> QED
  BY <1>4, <1>5

(* The same when the frame is asked for a directory or a table.            *)
LEMMA AskedTableKnown ==
    ASSUME IInv, UsedKnown, NEW f \in Available, ask_kernel_for_frame(f, {}, FALSE),
           \A p \in Pids : page_directories[p] # NULL => page_directories'[p] = page_directories[p],
           \A d \in Tables : pde[d] # NULL => pde'[d] = pde[d],
           \/ \E p \in Pids : page_directories'[p] = f
           \/ \E d \in Tables : pde'[d] = f
    PROVE  UsedKnown'
<1>1. PICK new \in SUBSET Entries : new = {}
  OBVIOUS
<1>2. ask_kernel_for_frame(f, new, FALSE) /\ \A e \in new : pte[e] = NULL
  BY <1>1
<1> QED
  BY <1>2, AskedKnown

LEMMA UsedKnownStep == IInv /\ UsedKnown /\ [Next]_vars => UsedKnown'
<1> SUFFICES ASSUME IInv, UsedKnown, [Next]_vars PROVE UsedKnown'
  OBVIOUS
<1>1. ASSUME NEW p \in Pids, AddProcess(p) PROVE UsedKnown'
  <2>1. PICK f \in Available : /\ ask_kernel_for_frame(f, {}, FALSE)
                               /\ page_directories' = [page_directories EXCEPT ![p] = f]
    BY <1>1 DEF AddProcess
  <2>2. page_directories[p] = NULL /\ UNCHANGED pde
    BY <1>1 DEF AddProcess
  <2>3. /\ page_directories'[p] = f
        /\ \A q \in Pids : page_directories[q] # NULL => page_directories'[q] = page_directories[q]
    BY <2>1, <2>2 DEF IInv, TypeOK
  <2> QED
    BY <2>1, <2>2, <2>3, AskedTableKnown
<1>2. ASSUME NEW p \in Pids, RemoveProcess(p) PROVE UsedKnown'
  <2>1. /\ used' = used \ Returned(p)
        /\ \A e \in Entries : pte'[e] = IF e[1] = p THEN NULL ELSE pte[e]
        /\ \A d \in Tables : pde'[d] = IF d[1] = p THEN NULL ELSE pde[d]
        /\ \A q \in Pids : page_directories'[q] = IF q = p THEN NULL ELSE page_directories[q]
    BY <1>2 DEF RemoveProcess, IInv, TypeOK
  <2> SUFFICES ASSUME NEW g \in used'
               PROVE  \/ \E q \in Pids : page_directories'[q] = g
                      \/ \E d \in Tables : pde'[d] = g
                      \/ \E e \in Entries : pte'[e] = g
    BY DEF UsedKnown
  <2>2. g \in used /\ g \notin Returned(p) /\ g # NULL
    BY <2>1, MmuAssumption DEF IInv, TypeOK
  <2>3. CASE \E e \in Entries : pte[e] = g
    <3>1. PICK e \in Entries : pte[e] = g
      BY <2>3
    <3>2. e[1] # p
      BY <2>2, <3>1 DEF Returned, Present
    <3> QED
      BY <2>1, <3>1, <3>2
  <2>4. CASE \E d \in Tables : pde[d] = g
    <3>1. PICK q \in Pids, i \in {0, 1} : pde[<<q, i>>] = g
      BY <2>4 DEF Tables
    <3>2. q # p
      BY <2>2, <3>1 DEF Returned
    <3>3. <<q, i>> \in Tables
      BY DEF Tables
    <3> QED
      BY <2>1, <3>1, <3>2, <3>3
  <2>5. CASE \E q \in Pids : page_directories[q] = g
    BY <2>1, <2>2, <2>5 DEF Returned
  <2> QED
    BY <2>2, <2>3, <2>4, <2>5 DEF UsedKnown
<1>3. ASSUME AddTable PROVE UsedKnown'
  <2>1. PICK f \in Available : /\ ask_kernel_for_frame(f, {}, FALSE)
                               /\ pde' = [pde EXCEPT ![<<call.pid, 0>>] = f]
    BY <1>3 DEF AddTable
  <2>2. call.at = "add table" /\ UNCHANGED page_directories
    BY <1>3 DEF AddTable
  <2>3. call.pid \in Pids /\ pde[call.pid, 0] = NULL
    BY <2>2 DEF IInv, TypeOK, Calls, CallOK
  <2>4. PICK t \in Tables : t = <<call.pid, 0>>
    BY <2>3 DEF Tables
  <2>5. pde'[t] = f /\ \A d \in Tables : pde[d] # NULL => pde'[d] = pde[d]
    BY <2>1, <2>3, <2>4 DEF IInv, TypeOK
  <2> QED
    BY <2>1, <2>2, <2>5, AskedTableKnown
<1>4. ASSUME AddPage PROVE UsedKnown'
  <2>1. PICK page \in Testing, f \in Available :
          /\ page \notin (IF "page" \in DOMAIN call THEN {call.page} ELSE {})
          /\ ask_kernel_for_frame(f, {<<call.pid, page>>}, FALSE)
    BY <1>4 DEF AddPage
  <2>2. call.at = "add pages" /\ UNCHANGED <<page_directories, pde>>
    BY <1>4 DEF AddPage
  <2>3. call.pid \in Pids /\ page \in Pages
    BY <2>2 DEF IInv, TypeOK, Calls, Pages
  <2>4. <<call.pid, page>> \in Entries /\ pte[call.pid, page] = NULL
    BY <2>1, <2>2, <2>3 DEF IInv, CallOK, Entries
  <2>5. PICK new \in SUBSET Entries : new = {<<call.pid, page>>}
    BY <2>4
  <2>6. ask_kernel_for_frame(f, new, FALSE) /\ new # {} /\ \A e \in new : pte[e] = NULL
    BY <2>1, <2>4, <2>5
  <2> QED
    BY <2>2, <2>6, AskedKnown
<1>5. ASSUME WalkTables PROVE UsedKnown'
  <2> DEFINE t == <<call.pid, TableOf(call.page)>>
  <2>1. call.at = "look up" /\ UNCHANGED page_directories
    BY <1>5 DEF WalkTables
  <2>2. t \in Tables
    BY <2>1 DEF IInv, TypeOK, Calls, Tables, TableOf
  <2>3. CASE UNCHANGED <<pde, pte, used>>
    BY <2>1, <2>3 DEF UsedKnown
  <2>4. CASE /\ pde[t] = NULL
             /\ \E f \in Available : /\ ask_kernel_for_frame(f, {}, FALSE)
                                     /\ pde' = [pde EXCEPT ![t] = f]
    <3>1. PICK f \in Available : /\ ask_kernel_for_frame(f, {}, FALSE)
                                 /\ pde' = [pde EXCEPT ![t] = f]
      BY <2>4
    <3> HIDE DEF t
    <3>2. pde'[t] = f /\ \A d \in Tables : pde[d] # NULL => pde'[d] = pde[d]
      BY <2>2, <2>4, <3>1 DEF IInv, TypeOK
    <3> QED
      BY <2>1, <2>2, <3>1, <3>2, AskedTableKnown
  <2> QED
    BY <1>5, <2>3, <2>4 DEF WalkTables
<1>6. ASSUME PageFault PROVE UsedKnown'
  <2>1. /\ call.at = "look up" /\ Hits # {} /\ pte[Entry] = NULL
        /\ UNCHANGED <<page_directories, pde>>
    BY <1>6 DEF PageFault
  <2>2. Entry \in Entries
    BY <2>1, EntryOfCall
  <2>3. CASE UNCHANGED <<pte, used>>
    BY <2>1, <2>3 DEF UsedKnown
  <2>4. CASE \E f \in Available : ask_kernel_for_frame(f, {Entry}, Load)
    <3>1. PICK f \in Available : ask_kernel_for_frame(f, {Entry}, Load)
      BY <2>4
    <3>2. PICK new \in SUBSET Entries : new = {Entry}
      BY <2>2
    <3>3. ask_kernel_for_frame(f, new, Load) /\ new # {} /\ \A e \in new : pte[e] = NULL
      BY <2>1, <3>1, <3>2
    <3> QED
      BY <2>1, <3>3, AskedKnown
  <2> QED
    BY <1>6, <2>3, <2>4 DEF PageFault
<1>7. CASE UNCHANGED <<page_directories, pde, pte, used>>
  BY <1>7 DEF UsedKnown
<1> QED
  BY <1>1, <1>2, <1>3, <1>4, <1>5, <1>6, <1>7
  DEF Next, OutsideSegments, Access, Copy, vars

(* What is different for different arguments has as many values.           *)
LEMMA ImageSize ==
    ASSUME NEW S, NEW g, IsFiniteSet({g[x] : x \in S}),
           \A x, y \in S : g[x] = g[y] => x = y
    PROVE  Cardinality({g[x] : x \in S}) = Cardinality(S)
<1> DEFINE T == {g[x] : x \in S}
           h == [x \in S |-> g[x]]
<1>1. h \in [S -> T] /\ \A x \in S : h[x] = g[x]
  OBVIOUS
<1>2. \A y \in T : \E x \in S : h[x] = y
  OBVIOUS
<1> HIDE DEF T, h
<1>3. h \in Injection(S, T) /\ h \in Surjection(S, T)
  BY <1>1, <1>2 DEF Injection, Surjection, IsInjective
<1>4. Cardinality(S) = Cardinality(T)
  BY <1>3, FS_Injection DEF T
<1> QED
  BY <1>4 DEF T

(* Every frame in use is a directory, a table or a page, and one of them.  *)
LEMMA FramesCounted == IInv /\ UsedKnown => FramesExact
<1> SUFFICES ASSUME IInv, UsedKnown PROVE FramesExact
  OBVIOUS
<1> USE MmuAssumption DEF IInv
<1> DEFINE dirs == {p \in Pids : page_directories[p] # NULL}
           tabs == {d \in DOMAIN pde : pde[d] # NULL}
           D == {page_directories[p] : p \in dirs}
           T == {pde[d] : d \in tabs}
           P == {pte[e] : e \in Present}
<1>1. DOMAIN pde = Tables
  BY DEF TypeOK
<1>2. used = D \cup T \cup P
  <2>1. D \subseteq used /\ T \subseteq used
    BY <1>1 DEF TablesApart
  <2>2. P \subseteq used
    BY DEF PagesApart, Present
  <2>3. \A f \in used : f # NULL
    BY DEF TypeOK
  <2>4. used \subseteq D \cup T \cup P
    BY <1>1, <2>3 DEF UsedKnown, Present
  <2> QED
    BY <2>1, <2>2, <2>4
<1>3. IsFiniteSet(used)
  BY FS_Subset DEF TypeOK
<1>4. IsFiniteSet(D) /\ IsFiniteSet(T) /\ IsFiniteSet(P) /\ IsFiniteSet(D \cup T)
  <2>1. D \subseteq used /\ T \subseteq used /\ P \subseteq used /\ D \cup T \subseteq used
    BY <1>2
  <2> HIDE DEF D, T, P
  <2> QED
    BY <1>3, <2>1, FS_Subset
<1>5. Cardinality(D) = Cardinality(dirs)
  <2>1. \A p, q \in dirs : page_directories[p] = page_directories[q] => p = q
    BY DEF TablesApart
  <2> HIDE DEF dirs
  <2> QED
    BY <1>4, <2>1, ImageSize
<1>6. Cardinality(T) = Cardinality(tabs)
  <2>1. \A d, c \in tabs : pde[d] = pde[c] => d = c
    BY <1>1 DEF TablesApart
  <2> HIDE DEF tabs
  <2> QED
    BY <1>4, <2>1, ImageSize
<1>7. Cardinality(P) = Cardinality(Present)
  <2>1. \A e, g \in Present : pte[e] = pte[g] => e = g
    BY DEF PagesApart, Present
  <2> QED
    BY <1>4, <2>1, ImageSize
<1>8. D \cap T = {}
  BY <1>1 DEF TablesApart
<1>9. (D \cup T) \cap P = {}
  BY <1>1 DEF PagesApart, Present
<1> HIDE DEF D, T, P
<1>10. Cardinality(used) = Cardinality(D) + Cardinality(T) + Cardinality(P)
  <2>1. Cardinality(D \cup T) = Cardinality(D) + Cardinality(T) - Cardinality({})
    BY <1>4, <1>8, FS_Union
  <2>2. Cardinality(used) = Cardinality(D \cup T) + Cardinality(P) - Cardinality({})
    BY <1>2, <1>4, <1>9, FS_Union
  <2>3. /\ Cardinality({}) = 0
        /\ Cardinality(D) \in Nat /\ Cardinality(T) \in Nat /\ Cardinality(P) \in Nat
    BY <1>4, FS_EmptySet, FS_CardinalityType
  <2> QED
    BY <2>1, <2>2, <2>3
<1> QED
  BY <1>2, <1>5, <1>6, <1>7, <1>10 DEF FramesExact, D, T, P

(* mmu.c returns every frame that it was given once, and when it is no     *)
(* longer in use.                                                          *)
THEOREM FramesAreExact == Spec => []FramesExact
<1>1. Init => UsedKnown
  BY DEF Init, UsedKnown
<1>2. Spec => []UsedKnown
  BY <1>1, UsedKnownStep, IInvHolds, PTL DEF Spec
<1> QED
  BY <1>2, IInvHolds, FramesCounted, PTL
=============================================================================
