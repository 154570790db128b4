-------------------------------- MODULE Mmu --------------------------------
(***************************************************************************)
(* ideal_indirection: mmu.c.  Reads and writes of virtual pages through a  *)
(* TLB and two levels of tables, page faults, and processes that come and  *)
(* go while the kernel swaps pages out.                                    *)
(*                                                                         *)
(* The kernel, the TLB and the swap files are outside the repository.  As  *)
(* mmu.c uses them, a frame comes zeroed (a new directory is never         *)
(* cleared); when none is free the kernel swaps out a page, never a table; *)
(* a page without a swap file is left as it is by read_page_from_disk.     *)
(* Frames are treated alike, so the kernel may give the lowest free one.   *)
(* The counters of misses and faults are left out.                         *)
(*                                                                         *)
(* A read that faults stores a frame's address where its number belongs    *)
(* and then goes through it: what follows is undefined and not modelled.   *)
(***************************************************************************)
EXTENDS Naturals, FiniteSets, FiniteSetsExt

CONSTANTS Pids, Frames, TlbSize,
          Testing,  \* the two pages of the TESTING segment
          Data,     \* pages that may be written,
          Text,     \* and pages that may only be read
          NULL

Pages == Testing \cup Data \cup Text

\* The testing pages share one page table, all others another one.
TableOf(page) == IF page \in Testing THEN 0 ELSE 1

ASSUME MmuAssumption == /\ Frames \subseteq Nat /\ IsFiniteSet(Frames) /\ NULL \notin Frames
                        /\ TlbSize \in Nat \ {0}
                        /\ Data \cap Text = {} /\ Testing \cap (Data \cup Text) = {}

VARIABLES page_directories, \* the frame of each process's directory, or NULL
          pde,       \* the frame of each page table, or NULL
          pte,       \* the frame of each page, or NULL when not present
          used,      \* the frames the kernel has given out
          mem,       \* what a frame holds: the page that was written to it, or NULL
          swap,      \* and what a swap file holds
          tlb,       \* pairs of a page number and the process of its entry
          curr_pid,
          call,      \* the call under way: [at, pid, page, write]
          written    \* the pages a process has written

vars == <<page_directories, pde, pte, used, mem, swap, tlb, curr_pid, call, written>>

Entries == Pids \X Pages

Idle == [at |-> "idle"]

Init == /\ page_directories = [p \in Pids |-> NULL]
        /\ pde = [d \in Pids \X {0, 1} |-> NULL] /\ pte = [e \in Entries |-> NULL]
        /\ used = {} /\ mem = [f \in Frames |-> NULL] /\ swap = [e \in Entries |-> NULL]
        /\ tlb = {} /\ curr_pid \in Pids /\ call = Idle /\ written = {}

Goto(place) == call' = [call EXCEPT !.at = place]

-----------------------------------------------------------------------------
(* The kernel.                                                             *)
Present == {e \in Entries : pte[e] # NULL}

Available == IF Frames \ used # {} THEN {Min(Frames \ used)} ELSE {pte[e] : e \in Present}

Evicted(f) == {e \in Present : pte[e] = f}

\* Frame f is asked for, for the page of entry new, if any.  What new holds
\* is read back when load is TRUE.
ask_kernel_for_frame(f, new, load) ==
    /\ used' = used \cup {f}
    /\ swap' = [e \in Entries |-> IF e \in Evicted(f) THEN mem[f] ELSE swap[e]]
    /\ pte' = [e \in Entries |-> IF e \in new THEN f
                                 ELSE IF e \in Evicted(f) THEN NULL ELSE pte[e]]
    /\ mem' = [mem EXCEPT ![f] = IF load /\ \E e \in new : TRUE
                                 THEN swap[CHOOSE e \in new : TRUE] ELSE NULL]

-----------------------------------------------------------------------------
(* mmu_add_process: a directory, a page table and two pages.               *)
AddProcess(p) ==
    /\ call = Idle /\ page_directories[p] = NULL
    /\ \E f \in Available : /\ ask_kernel_for_frame(f, {}, FALSE)
                            /\ page_directories' = [page_directories EXCEPT ![p] = f]
    /\ call' = [at |-> "add table", pid |-> p]
    /\ UNCHANGED <<pde, tlb, curr_pid, written>>

AddTable ==
    /\ call.at = "add table"
    /\ \E f \in Available : /\ ask_kernel_for_frame(f, {}, FALSE)
                            /\ pde' = [pde EXCEPT ![<<call.pid, 0>>] = f]
    /\ Goto("add pages")
    /\ UNCHANGED <<page_directories, tlb, curr_pid, written>>

AddPage ==
    /\ call.at = "add pages"
    /\ \E page \in Testing, f \in Available :
         /\ page \notin (IF "page" \in DOMAIN call THEN {call.page} ELSE {})
         /\ ask_kernel_for_frame(f, {<<call.pid, page>>}, FALSE)
         /\ call' = IF "page" \in DOMAIN call THEN Idle
                    ELSE [at |-> "add pages", pid |-> call.pid, page |-> page]
    /\ UNCHANGED <<page_directories, pde, tlb, curr_pid, written>>

\* Mutant: the frames of the page tables are not returned.
ReturnedPagesOnly(p) == {pte[e] : e \in {d \in Present : d[1] = p}} \cup {page_directories[p]}

\* All that is present below the directory, and the directory.
Returned(p) == {pte[e] : e \in {d \in Present : d[1] = p}}
                  \cup {pde[p, i] : i \in {0, 1}} \cup {page_directories[p]}

\* Mutant: the TLB keeps its entries.
FlushNever(p) == tlb

FlushOf(p) == IF curr_pid = p THEN {} ELSE tlb

\* mmu_remove_process; mmu_delete does this for each process.
RemoveProcess(p) ==
    LET own(e) == e[1] = p /\ pde[p, TableOf(e[2])] # NULL IN
    /\ call = Idle /\ page_directories[p] # NULL
    /\ used' = used \ Returned(p)
    /\ swap' = [e \in Entries |-> IF own(e) THEN NULL ELSE swap[e]]
    /\ pte' = [e \in Entries |-> IF e[1] = p THEN NULL ELSE pte[e]]
    /\ pde' = [d \in DOMAIN pde |-> IF d[1] = p THEN NULL ELSE pde[d]]
    /\ page_directories' = [page_directories EXCEPT ![p] = NULL]
    /\ tlb' = FlushOf(p)
    /\ written' = {e \in written : e[1] # p}
    /\ mem' = [f \in Frames |-> IF f \in used' THEN mem[f] ELSE NULL]
    /\ UNCHANGED <<curr_pid, call>>

-----------------------------------------------------------------------------
(* mmu_read_from_virtual_address and mmu_write_to_virtual_address.         *)

\* A change of process flushes the TLB; an address in no segment faults.
Access(p, page, write) ==
    /\ call = Idle /\ page_directories[p] # NULL
    /\ tlb' = IF p = curr_pid THEN tlb ELSE {}
    /\ curr_pid' = p
    /\ call' = [at |-> "look up", pid |-> p, page |-> page, write |-> write]
    /\ UNCHANGED <<page_directories, pde, pte, used, mem, swap, written>>

OutsideSegments(p) ==
    /\ call = Idle /\ page_directories[p] # NULL /\ p # curr_pid
    /\ tlb' = {} /\ curr_pid' = p
    /\ UNCHANGED <<page_directories, pde, pte, used, mem, swap, call, written>>

Hits == {t \in tlb : t[1] = call.page}

\* The process whose entry the TLB gives.
Owner == (CHOOSE t \in Hits : TRUE)[2]

tlb_add_pte ==
    /\ \E keep \in SUBSET tlb :
         /\ Cardinality(keep) = Min({Cardinality(tlb), TlbSize - 1})
         /\ tlb' = keep \cup {<<call.page, call.pid>>}

WalkTables ==
    /\ call.at = "look up" /\ Hits = {}
    /\ LET d == <<call.pid, TableOf(call.page)>> IN
       \/ /\ pde[d] # NULL /\ tlb_add_pte /\ UNCHANGED <<pde, pte, used, mem, swap, call>>
       \/ /\ pde[d] = NULL /\ call.write /\ tlb_add_pte /\ UNCHANGED call
          /\ \E f \in Available : /\ ask_kernel_for_frame(f, {}, FALSE)
                                  /\ pde' = [pde EXCEPT ![d] = f]
       \/ /\ pde[d] = NULL /\ ~call.write /\ Goto("undefined")
          /\ UNCHANGED <<pde, pte, used, mem, swap, tlb>>
    /\ UNCHANGED <<page_directories, curr_pid, written>>

Entry == <<Owner, call.page>>

Permitted == ~call.write \/ call.page \notin Text

\* Mutant: the page is not read back from disk.
LoadNever == FALSE

Load == Permitted

\* The page fault of a write.  A write that is not permitted gives the page
\* a frame all the same.
PageFault ==
    /\ call.at = "look up" /\ Hits # {} /\ pte[Entry] = NULL
    /\ \/ /\ call.write
          /\ \E f \in Available : ask_kernel_for_frame(f, {Entry}, Load)
          /\ call' = IF Permitted THEN call ELSE Idle
       \/ /\ ~call.write /\ Goto("undefined") /\ UNCHANGED <<pte, used, mem, swap>>
    /\ UNCHANGED <<page_directories, pde, tlb, curr_pid, written>>

\* The page is there: it is read or written, if that is permitted.
Copy ==
    /\ call.at = "look up" /\ Hits # {} /\ pte[Entry] # NULL /\ call' = Idle
    /\ \/ /\ call.write /\ Permitted
          /\ mem' = [mem EXCEPT ![pte[Entry]] = <<call.pid, call.page>>]
          /\ written' = written \cup {<<call.pid, call.page>>}
       \/ ~(call.write /\ Permitted) /\ UNCHANGED <<mem, written>>
    /\ UNCHANGED <<page_directories, pde, pte, used, swap, tlb, curr_pid>>

-----------------------------------------------------------------------------
Next == \/ \E p \in Pids : \/ AddProcess(p) \/ RemoveProcess(p) \/ OutsideSegments(p)
                           \/ \E page \in Pages, write \in BOOLEAN : Access(p, page, write)
        \/ AddTable \/ AddPage
        \/ WalkTables \/ PageFault \/ Copy

Spec == Init /\ [][Next]_vars

-----------------------------------------------------------------------------
(* Each page holds what its process wrote to it, in its frame or, when the *)
(* kernel has swapped it out, in its swap file: no write goes to the page  *)
(* of another process or is lost with a frame, and a new process sees      *)
(* nothing of an old one.                                                  *)
MemoryHolds ==
    \A e \in Entries :
      (IF pte[e] # NULL THEN mem[pte[e]] ELSE swap[e]) = IF e \in written THEN e ELSE NULL

(* The kernel's frames in use are the directories, tables and pages of the *)
(* processes, each used once: none is returned while in use or twice, and  *)
(* none is lost when a process is removed.                                 *)
FramesExact ==
    LET dirs == {p \in Pids : page_directories[p] # NULL}
        tabs == {d \in DOMAIN pde : pde[d] # NULL}
    IN /\ used = {page_directories[p] : p \in dirs} \cup {pde[d] : d \in tabs}
                   \cup {pte[e] : e \in Present}
       /\ Cardinality(used) = Cardinality(dirs) + Cardinality(tabs) + Cardinality(Present)

(* The TLB never holds an entry of another process than the current one,   *)
(* or of a page table that was given back.                                 *)
TlbFresh == \A t \in tlb : t[2] = curr_pid /\ pde[t[2], TableOf(t[1])] # NULL

(* A page that was written and swapped out can be read, as the test        *)
(* page_fault_with_swap demands.                                           *)
SwappedPagesReadable == call.at = "undefined" => <<call.pid, call.page>> \notin written
=============================================================================
