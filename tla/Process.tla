------------------------------ MODULE Process ------------------------------
(***************************************************************************)
(* Running programs from the kernel menu: the menu's p and s commands      *)
(* (menu.c), process structures (proc.c), runprogram and load_elf, and the *)
(* address spaces, page faults and TLBs of dumbvm, on several CPUs whose   *)
(* scheduler may switch threads between any two steps.                     *)
(* Addresses are page numbers, 0 is NULL; a page of memory holds what was  *)
(* last stored in it.                                                      *)
(***************************************************************************)
EXTENDS Integers, SequencesExt, FiniteSets

CONSTANTS Cpus_,      \* processors
          Programs,   \* name -> the program headers of its file
          BootLines, Lines,  \* command lines: the boot loader's, the typed ones
          MaxProcs,   \* commands run
          FRAMES,     \* pages of physical memory
          NUM_TLB,
          USERSTACK, DUMBVM_STACKPAGES

ASSUME StackFits == DUMBVM_STACKPAGES \in 1..USERSTACK

VARIABLES running,   \* the thread each CPU runs: 0 is the menu's, -1 none
          tlb,       \* each CPU's valid TLB entries
          proc,      \* processes
          thr,       \* the thread of each process
          firstpaddr, ram,
          cwdrefs,   \* references to the menu's current directory
          menu_,     \* the menu: pc, the rest of its line, the command's words
          halt       \* a panic

procvars == <<running, tlb, proc, thr, firstpaddr, ram, cwdrefs, menu_, halt>>

ProcIds == 1..MaxProcs
Menu == 0
NoAs == [vbase1 |-> 0, npages1 |-> 0, vbase2 |-> 0, npages2 |-> 0, pbase1 |-> 0, pbase2 |-> 0, stackpbase |-> 0]
NoProc == [exists |-> FALSE, numthreads |-> 0, hasas |-> FALSE, as |-> NoAs]
NoThread == [pc |-> "none", prog |-> "", seg |-> 1, page |-> 0, paddr |-> 0]

Running(c, t) == halt = "" /\ running[c] = t
At_(c, n, pc) == Running(c, n) /\ thr[n].pc = pc
Goto_(n, pc) == thr' = [thr EXCEPT ![n].pc = pc]

\* The thread returns: thread_exit takes it out of its process, which stays.
proc_remthread(n) == proc' = [proc EXCEPT ![n].numthreads = @ - 1]
Fails(c, n) ==
  /\ proc_remthread(n)
  /\ thr' = [thr EXCEPT ![n] = [NoThread EXCEPT !.pc = "exited"]]
  /\ running' = [running EXCEPT ![c] = -1]

----------------------------------------------------------------------------
(* The menu                                                                *)

proc_create == [NoProc EXCEPT !.exists = TRUE]

\* The next line, after the boot loader's.
menu(c) ==
  /\ Running(c, Menu) /\ menu_.pc = "line" /\ menu_.line = <<>> /\ menu_.n < MaxProcs
  /\ \E l \in Lines : menu_' = [menu_ EXCEPT !.line = l, !.isargs = FALSE]
  /\ UNCHANGED <<running, tlb, proc, thr, firstpaddr, ram, cwdrefs, halt>>

\* The next command of the line: to run a program, or not one (EINVAL).
cmd_dispatch(c) ==
  /\ Running(c, Menu) /\ menu_.pc = "line" /\ menu_.line # <<>> /\ menu_.n < MaxProcs
  /\ LET word == Head(menu_.line)
     IN  menu_' = [menu_ EXCEPT !.n = @ + 1, !.line = Tail(@), !.args = word,
                                !.pc = IF word \in DOMAIN Programs THEN "create" ELSE "failed"]
  /\ UNCHANGED <<running, tlb, proc, thr, firstpaddr, ram, cwdrefs, halt>>

\* A command has returned: what its words were stored in is reused.  One of
\* the boot loader's commands may not fail.
menu_execute(c) ==
  /\ Running(c, Menu) /\ menu_.pc \in {"done", "failed"}
  /\ menu_' = [menu_ EXCEPT !.pc = "line", !.args = ""]
  /\ halt' = IF menu_.pc = "failed" /\ menu_.isargs THEN "kernel arguments" ELSE halt
  /\ UNCHANGED <<running, tlb, proc, thr, firstpaddr, ram, cwdrefs>>

\* A process with the menu's current directory, or ENOMEM.
proc_create_runprogram(c) ==
  /\ Running(c, Menu) /\ menu_.pc = "create"
  /\ \/ /\ proc' = [proc EXCEPT ![menu_.n] = proc_create] /\ cwdrefs' = cwdrefs + 1
        /\ menu_' = [menu_ EXCEPT !.pc = "fork"]
     \/ menu_' = [menu_ EXCEPT !.pc = "failed"] /\ UNCHANGED <<proc, cwdrefs>>
  /\ UNCHANGED <<running, tlb, thr, firstpaddr, ram, halt>>

proc_addthread(n) == proc' = [proc EXCEPT ![n].numthreads = @ + 1]

\* Mutant: the current directory is not let go.
proc_destroy_cwd(n) ==
  /\ proc' = [proc EXCEPT ![n] = NoProc] /\ UNCHANGED cwdrefs
  /\ halt' = IF proc[n].numthreads = 0 THEN halt ELSE "p_numthreads"
proc_destroy(n) ==
  /\ proc' = [proc EXCEPT ![n] = NoProc] /\ cwdrefs' = cwdrefs - 1
  /\ halt' = IF proc[n].numthreads = 0 THEN halt ELSE "p_numthreads"

\* thread_fork, or its failure, which destroys the process.
common_prog(c) ==
  /\ Running(c, Menu) /\ menu_.pc = "fork"
  /\ LET n == menu_.n
     IN  \/ /\ proc_addthread(n) /\ Goto_(n, "start")
            /\ menu_' = [menu_ EXCEPT !.pc = "done"] /\ UNCHANGED <<cwdrefs, halt>>
         \/ proc_destroy(n) /\ menu_' = [menu_ EXCEPT !.pc = "failed"] /\ UNCHANGED thr
  /\ UNCHANGED <<running, tlb, firstpaddr, ram>>

\* What the thread finds in the words: its program's name while the menu has
\* not returned from the command; afterwards any name, or none (a fault).
cmd_progthread(c, n) ==
  /\ At_(c, n, "start")
  /\ \/ /\ menu_.n = n /\ menu_.args # ""
        /\ thr' = [thr EXCEPT ![n].prog = menu_.args, ![n].pc = "open"] /\ UNCHANGED halt
     \/ /\ ~(menu_.n = n /\ menu_.args # "")
        /\ \/ \E prog \in DOMAIN Programs : thr' = [thr EXCEPT ![n].prog = prog, ![n].pc = "open"] /\ UNCHANGED halt
           \/ halt' = "args" /\ UNCHANGED thr
  /\ UNCHANGED <<running, tlb, proc, firstpaddr, ram, menu_, cwdrefs>>

----------------------------------------------------------------------------
(* Address spaces                                                          *)

proc_getas(n) == IF proc[n].hasas THEN proc[n].as ELSE NoAs

\* Mutant: the entries of the address space before stay.
as_activate_not(c, hasas) == UNCHANGED tlb
as_activate(c, hasas) == tlb' = IF hasas THEN [tlb EXCEPT ![c] = <<>>] ELSE tlb

\* A region in a free one of the two slots, or ENOSYS.
as_define_region(as, vaddr, npages) ==
  CASE as.vbase1 = 0 -> [as EXCEPT !.vbase1 = vaddr, !.npages1 = npages]
    [] as.vbase1 # 0 /\ as.vbase2 = 0 -> [as EXCEPT !.vbase2 = vaddr, !.npages2 = npages]
    [] OTHER -> NoAs

ram_stealmem(first, npages) ==
  IF first + npages > FRAMES + 1 THEN [paddr |-> 0, first |-> first] ELSE [paddr |-> first, first |-> first + npages]

Zero == <<"zero", 0>>
as_zero_region(m, paddr, npages) == [f \in DOMAIN m |-> IF f \in paddr..(paddr + npages - 1) THEN Zero ELSE m[f]]

----------------------------------------------------------------------------
(* runprogram and load_elf                                                 *)

\* The program is found or not, as_create gives an address space or none.
\* The current process gets it (proc_setas), then as_activate is called.
runprogram(c, n) ==
  /\ At_(c, n, "open")
  /\ \/ proc' = [proc EXCEPT ![n].hasas = TRUE] /\ Goto_(n, "activate") /\ UNCHANGED running
     \/ Fails(c, n)
  /\ UNCHANGED <<tlb, firstpaddr, ram, cwdrefs, menu_, halt>>

runprogram_activate(c, n) ==
  /\ At_(c, n, "activate")
  /\ as_activate(c, proc[n].hasas)
  /\ Goto_(n, "define")
  /\ UNCHANGED <<running, proc, firstpaddr, ram, cwdrefs, menu_, halt>>

Headers(n) == Programs[thr[n].prog]
LoadsOf == [prog \in DOMAIN Programs |-> SelectSeq(Programs[prog], LAMBDA p : p.type = "PT_LOAD")]
Loads(n) == LoadsOf[thr[n].prog]

\* The executable header, and the first pass over the segments; the file may
\* be no executable, or not be read.
load_elf(c, n) ==
  /\ At_(c, n, "define")
  /\ \/ /\ \A i \in DOMAIN Headers(n) : Headers(n)[i].type # "other"
        /\ Len(Loads(n)) <= 2
        /\ proc' = [proc EXCEPT ![n].as = FoldLeft(LAMBDA as, p : as_define_region(as, p.vaddr, p.npages), NoAs, Loads(n))]
        /\ Goto_(n, "prepare") /\ UNCHANGED running
     \/ Fails(c, n)
  /\ UNCHANGED <<tlb, firstpaddr, ram, cwdrefs, menu_, halt>>

\* Physical memory for the three parts, one getppages after the other, until
\* one finds none; then the parts are zeroed.  Each call is one critical section
\* and nothing else here is shared, so the calls are one step.
as_prepare_load(c, n) ==
  /\ At_(c, n, "prepare")
  /\ LET as == proc[n].as
         r1 == ram_stealmem(firstpaddr, as.npages1)
         r2 == ram_stealmem(r1.first, as.npages2)
         r3 == ram_stealmem(r2.first, DUMBVM_STACKPAGES)
         zero1 == as_zero_region(ram, r1.paddr, as.npages1)
         zero2 == as_zero_region(zero1, r2.paddr, as.npages2)
     IN  \/ r1.paddr = 0 /\ Fails(c, n) /\ UNCHANGED <<firstpaddr, ram>>
         \/ r1.paddr # 0 /\ r2.paddr = 0 /\ Fails(c, n) /\ firstpaddr' = r1.first /\ UNCHANGED ram
         \/ /\ r1.paddr # 0 /\ r2.paddr # 0 /\ r3.paddr = 0
            /\ Fails(c, n) /\ firstpaddr' = r2.first /\ UNCHANGED ram
         \/ /\ r1.paddr # 0 /\ r2.paddr # 0 /\ r3.paddr # 0
            /\ firstpaddr' = r3.first
            /\ proc' = [proc EXCEPT ![n].as.pbase1 = r1.paddr, ![n].as.pbase2 = r2.paddr, ![n].as.stackpbase = r3.paddr]
            /\ ram' = as_zero_region(zero2, r3.paddr, DUMBVM_STACKPAGES)
            /\ Goto_(n, "load")
            /\ UNCHANGED running
  /\ UNCHANGED <<tlb, cwdrefs, menu_, halt>>

----------------------------------------------------------------------------
(* Page faults                                                             *)

Entry(c, v) == SelectSeq(tlb[c], LAMBDA e : e[1] = v)

\* The frame of a page of an address space, 0 for EFAULT.
vm_fault_paddr(as, v) ==
  CASE v >= as.vbase1 /\ v < as.vbase1 + as.npages1 -> (v - as.vbase1) + as.pbase1
    [] v >= as.vbase2 /\ v < as.vbase2 + as.npages2 -> (v - as.vbase2) + as.pbase2
    [] v >= USERSTACK - DUMBVM_STACKPAGES /\ v < USERSTACK -> (v - (USERSTACK - DUMBVM_STACKPAGES)) + as.stackpbase
    [] OTHER -> 0

\* vm_fault's assertions about the address space.
SetUp(as) == \A part \in {as.vbase1, as.pbase1, as.npages1, as.vbase2, as.pbase2, as.npages2, as.stackpbase} : part # 0

\* EFAULT: in the kernel load_segment fails, in the program there is a panic.
Unhandled(c, n) ==
  \/ thr[n].pc \in {"load", "fill load"} /\ Fails(c, n) /\ UNCHANGED halt
  \/ thr[n].pc \in {"user", "fill user"} /\ halt' = "fault" /\ UNCHANGED <<thr, proc, running>>

\* The faulting thread looks its page up with interrupts on ...
vm_fault(c, n, v, next) ==
  /\ Entry(c, v) = <<>>
  /\ LET as == proc_getas(n) paddr == vm_fault_paddr(as, v)
     IN  \/ ~SetUp(as) /\ halt' = "vm_fault: assertion" /\ UNCHANGED <<thr, proc, running>>
         \/ SetUp(as) /\ paddr = 0 /\ Unhandled(c, n)
         \/ /\ SetUp(as) /\ paddr # 0
            /\ thr' = [thr EXCEPT ![n].pc = next, ![n].page = v, ![n].paddr = paddr]
            /\ UNCHANGED <<proc, running, halt>>
  /\ UNCHANGED <<tlb, firstpaddr, ram, cwdrefs, menu_>>

\* ... and fills an invalid entry with interrupts off, if there is one.
vm_fault_fill(c, n) ==
  /\ At_(c, n, "fill load") \/ At_(c, n, "fill user")
  /\ \/ /\ Len(tlb[c]) < NUM_TLB
        /\ tlb' = [tlb EXCEPT ![c] = Append(@, <<thr[n].page, thr[n].paddr>>)]
        /\ thr' = [thr EXCEPT ![n].pc = IF @ = "fill load" THEN "load" ELSE "user", ![n].page = 0, ![n].paddr = 0]
        /\ UNCHANGED <<running, proc, halt>>
     \/ Len(tlb[c]) = NUM_TLB /\ Unhandled(c, n) /\ UNCHANGED tlb
  /\ UNCHANGED <<firstpaddr, ram, cwdrefs, menu_>>

\* The next page of the file that load_segment copies out, in thr[n].seg.
FilePagesOf ==
  [prog \in DOMAIN Programs |->
     FlattenSeq([i \in DOMAIN LoadsOf[prog] |->
                   [k \in 1..LoadsOf[prog][i].filepages |->
                      [vaddr |-> LoadsOf[prog][i].vaddr + k - 1, what |-> <<prog, LoadsOf[prog][i].vaddr + k - 1>>]]])]
FilePages(n) == FilePagesOf[thr[n].prog]

load_segment(c, n) ==
  /\ At_(c, n, "load") /\ thr[n].seg <= Len(FilePages(n))
  /\ LET p == FilePages(n)[thr[n].seg]
     IN  \/ vm_fault(c, n, p.vaddr, "fill load")
         \/ /\ Entry(c, p.vaddr) # <<>>
            /\ ram' = [ram EXCEPT ![Entry(c, p.vaddr)[1][2]] = p.what]
            /\ thr' = [thr EXCEPT ![n].seg = @ + 1]
            /\ UNCHANGED <<running, tlb, proc, firstpaddr, cwdrefs, menu_, halt>>

\* A read of the file fails or comes up short.
load_segment_fails(c, n) ==
  /\ At_(c, n, "load") /\ thr[n].seg <= Len(FilePages(n))
  /\ Fails(c, n)
  /\ UNCHANGED <<tlb, firstpaddr, ram, cwdrefs, menu_, halt>>

enter_new_process(c, n) ==
  /\ At_(c, n, "load") /\ thr[n].seg > Len(FilePages(n))
  /\ thr' = [thr EXCEPT ![n].pc = "user", ![n].seg = 1]
  /\ UNCHANGED <<running, tlb, proc, firstpaddr, ram, cwdrefs, menu_, halt>>

\* The program touches a page, of its last segment or its stack, and stores.
user_access(c, n) ==
  /\ At_(c, n, "user")
  /\ \E v \in {Last(Loads(n)).vaddr + Last(Loads(n)).npages - 1, USERSTACK - 1} :
       \/ vm_fault(c, n, v, "fill user")
       \/ /\ Entry(c, v) # <<>>
          /\ ram' = [ram EXCEPT ![Entry(c, v)[1][2]] = <<"stored", n>>]
          /\ UNCHANGED <<running, tlb, proc, thr, firstpaddr, cwdrefs, menu_, halt>>

----------------------------------------------------------------------------
(* The scheduler: a CPU takes another thread, or a thread whose CPU it was *)
(* not, and activates its address space.                                   *)

Ready(t) == /\ t \notin {running[c] : c \in Cpus_}
            /\ IF t = Menu THEN TRUE ELSE thr[t].pc \notin {"none", "exited"}

thread_switch(c) ==
  /\ halt = ""
  /\ \E t \in {Menu} \cup ProcIds :
       /\ Ready(t)
       /\ running' = [running EXCEPT ![c] = t]
       /\ as_activate(c, IF t = Menu THEN FALSE ELSE proc[t].hasas)
  /\ UNCHANGED <<proc, thr, firstpaddr, ram, cwdrefs, menu_, halt>>

ProcessInit ==
  /\ running = [c \in Cpus_ |-> -1]
  /\ tlb = [c \in Cpus_ |-> <<>>]
  /\ proc = [n \in ProcIds |-> NoProc] /\ thr = [n \in ProcIds |-> NoThread]
  /\ firstpaddr = 1 /\ ram = [f \in 1..FRAMES |-> <<"boot", 0>>]
  /\ cwdrefs = 1
  /\ \E l \in BootLines : menu_ = [pc |-> "line", line |-> l, isargs |-> TRUE, n |-> 0, args |-> ""]
  /\ halt = ""

ProcessNext ==
  \E c \in Cpus_ :
    \/ thread_switch(c)
    \/ /\ running[c] = Menu
       /\ menu(c) \/ cmd_dispatch(c) \/ menu_execute(c) \/ proc_create_runprogram(c) \/ common_prog(c)
    \/ \E n \in ProcIds \cap {running[c]} :
         \/ cmd_progthread(c, n) \/ runprogram(c, n) \/ runprogram_activate(c, n) \/ load_elf(c, n)
         \/ as_prepare_load(c, n) \/ load_segment(c, n) \/ load_segment_fails(c, n)
         \/ enter_new_process(c, n) \/ vm_fault_fill(c, n) \/ user_access(c, n)

ProcessSpec == ProcessInit /\ [][ProcessNext]_procvars

----------------------------------------------------------------------------

\* Pages of a program, with what its file says of them.
Image ==
  [prog \in DOMAIN Programs |->
     LET l == LoadsOf[prog]
         Pages == UNION {l[i].vaddr..(l[i].vaddr + l[i].npages - 1) : i \in DOMAIN l}
         InFile(v) == \E i \in DOMAIN l : v \in l[i].vaddr..(l[i].vaddr + l[i].filepages - 1)
     IN  [v \in Pages \cup (USERSTACK - DUMBVM_STACKPAGES)..(USERSTACK - 1) |-> IF InFile(v) THEN <<prog, v>> ELSE Zero]]

\* A program in user mode finds in each of its pages what its file has for it,
\* zeros (bss and stack), or what it stored itself, and every TLB entry of a
\* CPU that runs a program is its own, one to a page, however its thread was
\* switched or moved between CPUs while it loaded or faulted (dumbvm.c).
ProgramsOwnTheirMemory ==
  \A n \in ProcIds :
    /\ thr[n].pc \in {"user", "fill user"} =>
         \A v \in DOMAIN Image[thr[n].prog] :
           ram[vm_fault_paddr(proc[n].as, v)] \in {<<"stored", n>>, Image[thr[n].prog][v]}
    /\ \A c \in Cpus_ : (running[c] = n /\ proc[n].hasas /\ thr[n].pc # "activate") =>
         /\ \A i \in DOMAIN tlb[c] : tlb[c][i][2] = vm_fault_paddr(proc[n].as, tlb[c][i][1])
         /\ \A i, j \in DOMAIN tlb[c] : tlb[c][i][1] = tlb[c][j][1] => i = j

\* A process has as many threads as run in it and is destroyed without any,
\* every process, and nothing else, holds the menu's current directory, and no
\* assertion about a process or an address space fails: the kernel stops only
\* for a boot command that fails, a program that finds no TLB entry, and the
\* words of a command that its thread reads too late (menu.c, proc.c).
ProcessesConsistent ==
  /\ \A n \in ProcIds : proc[n].numthreads = IF thr[n].pc \in {"none", "exited"} THEN 0 ELSE 1
  /\ \A n \in ProcIds : proc[n].numthreads > 0 => proc[n].exists
  /\ cwdrefs = 1 + Cardinality({n \in ProcIds : proc[n].exists})
  /\ halt \in {"", "kernel arguments", "fault", "args"}
  /\ halt = "fault" => \E c \in Cpus_ : Len(tlb[c]) = NUM_TLB

============================================================================
