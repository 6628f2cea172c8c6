-------------------------------- MODULE Task ---------------------------------
(***************************************************************************)
(* The task lifecycle of src/kernel/task.c, src/kernel/sys.c and           *)
(* alloc_pid/init_multitasking of src/kernel/sched.c, over the physical    *)
(* memory manager of module PhysMem, running the task programs of          *)
(* src/kernel/main.c.                                                      *)
(*                                                                         *)
(* A task descriptor is a kmalloc'ed struct task_struct: an element of     *)
(* Slots, back in the pool once do_waitpid kfrees it.  task[s] holds the   *)
(* fields the lifecycle uses; tlist is task_list_head, in list order.  A   *)
(* task's kernel stack and data segment are blocks of PhysMem; owned is    *)
(* the set of the blocks the tasks hold.                                   *)
(*                                                                         *)
(* System calls run with IF = 0 and do_exit starts with cli(), so each of  *)
(* sys_fork, do_exit, one scan of do_waitpid, sys_brk and the start of a   *)
(* sleep is one step.  Which runnable task runs next is left to the        *)
(* scheduler (module Sched): any runnable task may take its next step.     *)
(***************************************************************************)
EXTENDS PhysMem

CONSTANTS
    Slots,          \* the memory kmalloc can give as task descriptors
    MAX_PID,        \* alloc_pid wraps to INIT_TASK_PID after MAX_PID
    BootThreads,    \* entry points of the kernel_thread calls of simplix_main
    IDLE_DS_PAGES,  \* the idle task's data segment, in pages
    BrkSizes,       \* data segment sizes (pages) compute_pi_task's malloc asks
    StaleDsAddr     \* whether sys_fork's unassigned new_ds_addr may be non-zero

IDLE_TASK_PID == 0
INIT_TASK_PID == 1
NoPid == -1
TaskStates == {"RUNNABLE", "INTERRUPTIBLE", "UNINTERRUPTIBLE", "DEAD"}

ASSUME
    /\ MAX_PID \in Nat /\ MAX_PID > INIT_TASK_PID
    /\ BootThreads \in Seq({"kt_exit", "kloop"})
    /\ IDLE_DS_PAGES \in Nat \ {0}
    /\ BrkSizes \subseteq Nat \ {0}
    /\ StaleDsAddr \in BOOLEAN

VARIABLES
    task,       \* task[s]: pid, ppid, state, kstack, user, seg, ds, pc
    tlist,      \* task_list_head
    next_pid,   \* the static next_pid of alloc_pid
    bootLeft,   \* kernel_thread calls of simplix_main still to come
    hung        \* alloc_pid found no free pid and spins with IF = 0

taskVars == <<task, tlist, next_pid, bootLeft, hung>>
allVars == <<vars, taskVars>>

InList == ToSet(tlist)
Live == {s \in InList : task[s].state # "DEAD"}
UsedPids == {task[s].pid : s \in InList}
PidOf(p) == {s \in InList : task[s].pid = p}
Halted == panicked \/ hung

(***************************************************************************)
(* alloc_pid: advance next_pid (wrapping to INIT_TASK_PID) until it names  *)
(* no task of the list.  k bounds the search; NoPid means the do-while    *)
(* never ends, which happens when every pid is in use.                    *)
(***************************************************************************)
RECURSIVE PidSearch(_, _)

\* Mutant of PidSearch: next_pid is incremented without the wrap at MAX_PID.
PidSearchNoWrap(p, k) ==
    IF k = 0 THEN NoPid
    ELSE IF p + 1 \in UsedPids THEN PidSearch(p + 1, k - 1) ELSE p + 1

PidSearch(p, k) ==
    LET q == IF p < MAX_PID THEN p + 1 ELSE INIT_TASK_PID
    IN  IF k = 0 THEN NoPid
        ELSE IF q \in UsedPids THEN PidSearch(q, k - 1) ELSE q

\* Mutant of AllocPid: the search takes the next pid without the list scan.
AllocPidNoScan == IF next_pid < MAX_PID THEN next_pid + 1 ELSE INIT_TASK_PID

AllocPid == PidSearch(next_pid, MAX_PID)

\* The block __alloc_physmem_block(n) hands out.
AllocAddrOf(m, n) == m.list[FirstFit(m, n)]

\* free_physmem_block(a) on a block that may already be a hole (-E_FAIL).
FreeBlock(m, a) == IF m.avail[a] THEN m ELSE FreeOp(m, a)

\* free_physmem_block(a) unless a is 0 (nothing was allocated).  Actions
\* chain two frees through \E m \in {...}, which binds the allocator state
\* between them to one value.
FreeIfSet(m, a) == IF a = 0 THEN m ELSE FreeBlock(m, a)

NewTask(p, pp, ks, u, sg, n, at) ==
    [pid |-> p, ppid |-> pp, state |-> "RUNNABLE", kstack |-> ks,
     user |-> u, seg |-> sg, ds |-> n, pc |-> at]

(***************************************************************************)
(* kernel_thread(fn) at boot, before init_multitasking (current is NULL,   *)
(* so ppid is -1).  Its error path frees what it got: a stack only exists  *)
(* once the allocation succeeded, and kmalloc zeroes the descriptor.       *)
(***************************************************************************)
KernelThread ==
    /\ bootLeft # <<>> /\ ~Halted
    /\ bootLeft' = Tail(bootLeft)
    /\ IF InList = Slots THEN UNCHANGED <<task, tlist, next_pid, vars, hung>>
       ELSE LET s == CHOOSE x \in Slots \ InList : TRUE
                p == AllocPid
            IN  IF p = NoPid THEN hung' = TRUE /\ UNCHANGED <<task, tlist, next_pid, vars>>
                ELSE /\ next_pid' = p
                     /\ IF FirstFit(mem, 1) = 0
                        THEN UNCHANGED <<task, tlist, vars, hung>>
                        ELSE /\ mem' = AllocOp(mem, 1)
                             /\ owned' = owned \cup {AllocAddrOf(mem, 1)}
                             /\ task' = [task EXCEPT ![s] =
                                   NewTask(p, NoPid, AllocAddrOf(mem, 1), FALSE, 0, 0,
                                           Head(bootLeft))]
                             /\ tlist' = Append(tlist, s)
                             /\ UNCHANGED <<panicked, hung>>

(***************************************************************************)
(* init_multitasking: the idle task's descriptor and kernel stack; its     *)
(* segments are the kernel image at address 0.  A failure panics.         *)
(***************************************************************************)
InitMultitasking ==
    /\ bootLeft = <<>> /\ PidOf(IDLE_TASK_PID) = {} /\ ~Halted
    /\ IF InList = Slots \/ FirstFit(mem, 1) = 0
       THEN panicked' = TRUE /\ UNCHANGED <<mem, owned, taskVars>>
       ELSE LET s == CHOOSE x \in Slots \ InList : TRUE
            IN  /\ mem' = AllocOp(mem, 1)
                /\ owned' = owned \cup {AllocAddrOf(mem, 1)}
                /\ task' = [task EXCEPT ![s] =
                      NewTask(IDLE_TASK_PID, NoPid, AllocAddrOf(mem, 1), TRUE, 0,
                              IDLE_DS_PAGES, "idle_fork")]
                /\ tlist' = Append(tlist, s)
                /\ UNCHANGED <<panicked, next_pid, bootLeft, hung>>

\* A runnable task of the list at label at.
Runs(s, at) ==
    /\ s \in InList /\ task[s].state = "RUNNABLE" /\ task[s].pc = at
    /\ PidOf(IDLE_TASK_PID) # {} /\ ~Halted

(***************************************************************************)
(* sys_fork by task s, at label at; the parent goes on at pnext (whatever  *)
(* fork returned) and the child starts at cnext.  kmalloc fails when no    *)
(* descriptor is free.  The error path frees new_ds_addr when it is not   *)
(* zero, but no path to it assigns new_ds_addr: the value read is          *)
(* whatever the stack slot holds.  With StaleDsAddr it is any block of    *)
(* the list, or an address free_physmem_block panics on; otherwise 0.     *)
(***************************************************************************)
ForkError(s, m, ks, pnext) ==
    \E g \in IF StaleDsAddr THEN {0} \cup ToSet(m.list) \cup {a \in Pages : FreePanics(a)}
                           ELSE {0} :
       LET frees == SelectSeq(<<g, ks>>, LAMBDA a : a # 0)
       IN  IF \E i \in DOMAIN frees : FreePanics(frees[i])
           THEN panicked' = TRUE /\ UNCHANGED <<mem, owned, task>>
           ELSE /\ \E m2 \in {FreeIfSet(m, g)} : mem' = FreeIfSet(m2, ks)
                /\ owned' = owned \ {ks}
                /\ task' = [task EXCEPT ![s].pc = pnext]
                /\ UNCHANGED panicked

Fork(s, at, pnext, cnext) ==
    /\ Runs(s, at)
    /\ IF InList = Slots
       THEN /\ ForkError(s, mem, 0, pnext)
            /\ UNCHANGED <<tlist, next_pid, bootLeft, hung>>
       ELSE \E m1 \in {IF FirstFit(mem, 1) = 0 THEN mem ELSE AllocOp(mem, 1)} :
            LET c == CHOOSE x \in Slots \ InList : TRUE
                p == IF task[s].pid = IDLE_TASK_PID THEN INIT_TASK_PID ELSE AllocPid
                n == task[s].ds
                ks == AllocAddrOf(mem, 1)
            IN  IF p = NoPid THEN hung' = TRUE /\ UNCHANGED <<vars, task, tlist, next_pid, bootLeft>>
                ELSE /\ next_pid' = IF task[s].pid = IDLE_TASK_PID THEN next_pid ELSE p
                     /\ UNCHANGED <<bootLeft, hung>>
                     /\ CASE FirstFit(mem, 1) = 0 ->
                               ForkError(s, mem, 0, pnext) /\ UNCHANGED tlist
                          [] FirstFit(m1, n) = 0 ->
                               ForkError(s, m1, ks, pnext) /\ UNCHANGED tlist
                          [] OTHER ->
                               /\ mem' = AllocOp(m1, n)
                               /\ owned' = owned \cup {ks, AllocAddrOf(m1, n)}
                               /\ task' = [task EXCEPT
                                     ![s].pc = pnext,
                                     ![c] = NewTask(p, task[s].pid, ks, TRUE,
                                                    AllocAddrOf(m1, n), n, cnext)]
                               /\ tlist' = Append(tlist, c)
                               /\ UNCHANGED panicked

\* Mutant of ExitFreesSeg: the data segment is never freed.
ExitFreesSegNever(t) == FALSE

\* do_exit frees the segment of a user task (ldt[LDT_CS_INDEX].type != 0).
ExitFreesSeg(t) == t.user

\* Mutant of Adopted: the children of an exiting task keep its pid as ppid.
AdoptedNone(x, t) == FALSE

\* The tasks of the list that do_exit's loop reparents: the children of t.
Adopted(x, t) == x \in InList /\ task[x].ppid = t.pid

\* Mutant of WakesParent: do_exit never wakes the parent.
WakesParentNever(x, pp) == FALSE

\* get_task(ppid) is woken when it sleeps in do_waitpid.
WakesParent(x, pp) == x \in PidOf(pp) /\ task[x].state = "INTERRUPTIBLE"

(***************************************************************************)
(* do_exit(status) by task s: the idle task panics; otherwise the task is *)
(* DEAD, a parentless boot thread is given INIT_TASK_PID as parent, its   *)
(* children get its parent, its kernel stack and (for a user task) its    *)
(* data segment are freed, and its parent is woken if it sleeps in        *)
(* do_waitpid.  Then schedule().                                           *)
(***************************************************************************)
Exit(s, at) ==
    /\ Runs(s, at)
    /\ LET t == task[s]
           pp == IF t.ppid = NoPid THEN INIT_TASK_PID ELSE t.ppid
           frees == IF ExitFreesSeg(t) THEN {t.kstack, t.seg} ELSE {t.kstack}
       IN  /\ UNCHANGED <<tlist, next_pid, bootLeft, hung>>
           /\ IF t.pid = IDLE_TASK_PID \/ \E a \in frees : FreePanics(a)
              THEN panicked' = TRUE /\ UNCHANGED <<mem, owned, task>>
              ELSE /\ \E m1 \in {FreeBlock(mem, t.kstack)} :
                         mem' = IF ExitFreesSeg(t) THEN FreeBlock(m1, t.seg) ELSE m1
                   /\ owned' = owned \ frees
                   /\ task' = [x \in Slots |->
                         CASE x = s -> [t EXCEPT !.state = "DEAD", !.ppid = pp]
                           [] Adopted(x, t) -> [task[x] EXCEPT !.ppid = pp]
                           [] WakesParent(x, pp) -> [task[x] EXCEPT !.state = "RUNNABLE"]
                           [] OTHER -> task[x]]
                   /\ UNCHANGED panicked

(* An exception in a task (the demo children's general protection fault  *)
(* and division by zero): the handler init_exceptions installs for it     *)
(* calls handle_exception, which prints the CPU context and calls         *)
(* do_exit(1).                                                            *)
Fault(s) == Exit(s, "fault")

\* Mutant of Reapable: the scan forgets the TASK_DEAD test.
ReapableAnyChild(x, s) == task[x].ppid = task[s].pid

\* do_waitpid's test for a child it may free.
Reapable(x, s) == task[x].ppid = task[s].pid /\ task[x].state = "DEAD"

(***************************************************************************)
(* One pass of do_waitpid(-1) by task s: the first child of the list that *)
(* is DEAD is removed and its descriptor kfreed, and the call returns; no *)
(* child at all returns -1; otherwise the task sleeps INTERRUPTIBLE and   *)
(* scans again when woken.                                                *)
(***************************************************************************)
WaitAny(s, at, next) ==
    /\ Runs(s, at)
    /\ LET child(x) == task[x].ppid = task[s].pid
           dead == SelectInSeq(tlist, LAMBDA x : Reapable(x, s))
       IN  CASE dead # 0 ->
                  /\ tlist' = RemoveAt(tlist, dead)
                  /\ task' = [task EXCEPT ![s].pc = next]
             [] \E x \in InList : child(x) ->
                  /\ task' = [task EXCEPT ![s].state = "INTERRUPTIBLE"]
                  /\ UNCHANGED tlist
             [] OTHER ->
                  /\ task' = [task EXCEPT ![s].pc = next]
                  /\ UNCHANGED tlist
    /\ UNCHANGED <<vars, next_pid, bootLeft, hung>>

\* do_sleep(1000): sleep_on() with a timeout; the timer wakes the task.
Sleep(s, at, next) ==
    /\ Runs(s, at)
    /\ task' = [task EXCEPT ![s].state = "UNINTERRUPTIBLE", ![s].pc = next]
    /\ UNCHANGED <<vars, tlist, next_pid, bootLeft, hung>>

TimerWake(s) ==
    /\ s \in InList /\ task[s].state = "UNINTERRUPTIBLE" /\ ~Halted
    /\ task' = [task EXCEPT ![s].state = "RUNNABLE"]
    /\ UNCHANGED <<vars, tlist, next_pid, bootLeft, hung>>

(***************************************************************************)
(* sys_brk(n pages) by task s, from malloc: realloc_physmem_block of the  *)
(* data segment; on success the LDT names the new block and size, on      *)
(* failure the segment is kept.  A moved block's old copy is freed and    *)
(* may make free_physmem_block panic.                                     *)
(***************************************************************************)
Brk(s, at, next) ==
    /\ Runs(s, at)
    /\ \E n \in BrkSizes :
         LET a == task[s].seg
         IN  IF n = task[s].ds
             THEN UNCHANGED <<mem, owned, panicked>> /\ task' = [task EXCEPT ![s].pc = next]
             ELSE \E hc \in HChoices, other \in ToSet(mem.list) \ {a} :
                    \E r \in {ReallocOp(mem, a, n, hc, other)} :
                        CASE r.addr = -1 ->
                               /\ UNCHANGED <<mem, owned, panicked>>
                               /\ task' = [task EXCEPT ![s].pc = next]
                          [] r.addr # a /\ FreePanics(a) ->
                               panicked' = TRUE /\ UNCHANGED <<mem, owned, task>>
                          [] OTHER ->
                               /\ mem' = r.m
                               /\ owned' = (owned \ {a}) \cup {r.addr}
                               /\ task' = [task EXCEPT ![s].seg = r.addr, ![s].ds = n,
                                                        ![s].pc = next]
                               /\ UNCHANGED panicked
    /\ UNCHANGED <<tlist, next_pid, bootLeft, hung>>

-----------------------------------------------------------------------------
(***************************************************************************)
(* The programs of main.c.  idle forks init; init forks compute_pi_task   *)
(* and process_demo_task, then loops on waitpid(-1) and sleep(1000).  pi  *)
(* grows its heap and exits.  The demo forks two children that die of an  *)
(* exception, then loops: fork, sleep, and the parent sleeps again and    *)
(* exits while the child loops.  A boot thread either exits               *)
(* (ide_driver_test_task) or runs forever.                                 *)
(***************************************************************************)
TaskStep(s) ==
    \/ Fork(s, "idle_fork", "idle", "init_fork_pi")
    \/ Fork(s, "init_fork_pi", "init_fork_demo", "pi_brk")
    \/ Fork(s, "init_fork_demo", "init_wait", "demo_fork_gpf")
    \/ WaitAny(s, "init_wait", "init_sleep")
    \/ Sleep(s, "init_sleep", "init_wait")
    \/ Brk(s, "pi_brk", "pi_exit")
    \/ Exit(s, "pi_exit")
    \/ Fork(s, "demo_fork_gpf", "demo_fork_div", "fault")
    \/ Fork(s, "demo_fork_div", "demo_fork", "fault")
    \/ Fault(s)
    \/ Fork(s, "demo_fork", "demo_sleep_p", "demo_sleep_c")
    \/ Sleep(s, "demo_sleep_c", "demo_fork")
    \/ Sleep(s, "demo_sleep_p", "demo_sleep_p2")
    \/ Sleep(s, "demo_sleep_p2", "demo_exit")
    \/ Exit(s, "demo_exit")
    \/ Exit(s, "kt_exit")

TaskInit ==
    /\ Init
    /\ task = [s \in Slots |-> NewTask(NoPid, NoPid, 0, FALSE, 0, 0, "none")]
    /\ tlist = <<>>
    /\ next_pid = INIT_TASK_PID
    /\ bootLeft = BootThreads
    /\ hung = FALSE

TaskNext ==
    \/ KernelThread
    \/ InitMultitasking
    \/ \E s \in Slots : TaskStep(s) \/ TimerWake(s)

(* The scheduler elects every runnable task infinitely often (NoStarvation *)
(* of Sched) and the timer ends every sleep; boot runs to its end.         *)
TaskSpec ==
    /\ TaskInit /\ [][TaskNext]_allVars
    /\ WF_allVars(KernelThread) /\ WF_allVars(InitMultitasking)
    /\ \A s \in Slots : WF_allVars(TaskStep(s)) /\ WF_allVars(TimerWake(s))
-----------------------------------------------------------------------------
TaskTypeOK ==
    /\ tlist \in Seq(Slots) /\ IsInjective(tlist)
    /\ \A s \in InList :
          /\ task[s].pid \in 0..MAX_PID /\ task[s].ppid \in {NoPid} \cup 0..MAX_PID
          /\ task[s].state \in TaskStates
          /\ task[s].kstack \in Pages /\ task[s].seg \in Pages
    /\ next_pid \in INIT_TASK_PID..MAX_PID
    /\ hung \in BOOLEAN

(* No two tasks of the list have the same pid: alloc_pid skips the pids   *)
(* in use when next_pid wraps, and the pid sys_fork gives init without    *)
(* asking alloc_pid is never one a boot thread got.                        *)
UniquePids ==
    \A x, y \in InList : x # y => task[x].pid # task[y].pid

(* Every task's parent, and so every zombie's reaper, is a live task of   *)
(* the list: do_exit hands the children of an exiting task to its own     *)
(* parent.  The exceptions are a boot thread that has not exited          *)
(* (ppid -1) and one that exited before init was forked (ppid 1).         *)
ParentAlive ==
    \A x \in InList :
        \/ task[x].ppid = NoPid
        \/ \E y \in Live : task[y].pid = task[x].ppid
        \/ task[x].ppid = INIT_TASK_PID /\ PidOf(INIT_TASK_PID) = {}

(* The allocated blocks of the allocator's list are exactly the kernel   *)
(* image and the kernel stacks and data segments of the live tasks (the  *)
(* idle task's segment is the image): fork's error paths, do_exit and a  *)
(* moving brk neither leak a block nor free one a task still uses.       *)
TasksOwnMemory ==
    {d \in Blocks : ~mem.avail[d]}
        = Reserved \cup {task[x].kstack : x \in Live}
                   \cup {task[x].seg : x \in {y \in Live : task[y].user}}

(* Every task that dies is eventually reaped (removed from the list and   *)
(* its descriptor freed), unless the kernel halts: init loops on          *)
(* waitpid(-1) and do_exit wakes the parent that waits.                   *)
ZombiesReaped ==
    \A s \in Slots :
        (s \in InList /\ task[s].state = "DEAD") ~> (s \notin InList \/ Halted)
-----------------------------------------------------------------------------
(***************************************************************************)
(* The task list as a process tree (module ProcTree): the tasks of the    *)
(* list are its processes, the DEAD ones its zombies, and a task's parent *)
(* is the task of the list whose pid is its ppid.                         *)
(***************************************************************************)
NoSlot == "none"

TaskParent(x) ==
    IF x \in InList /\ PidOf(task[x].ppid) # {}
    THEN CHOOSE y \in PidOf(task[x].ppid) : TRUE
    ELSE NoSlot

PT == INSTANCE ProcTree
        WITH Procs <- Slots, NoProc <- NoSlot,
             procs <- InList,
             zombie <- {x \in InList : task[x].state = "DEAD"},
             parent <- [x \in Slots |-> TaskParent(x)]

(* Forks, exits and waits keep the task list a process tree: a task is   *)
(* created under a live parent, a dying task's children go to its parent *)
(* (do_exit's reparenting loop), and do_waitpid removes only a DEAD child *)
(* of the caller.                                                          *)
ProcTreeRefined == PT!PTSpec
=============================================================================
