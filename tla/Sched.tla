-------------------------------- MODULE Sched --------------------------------
(***************************************************************************)
(* The Simplix task scheduler (src/kernel/sched.c), the timer interrupt    *)
(* that drives it (src/kernel/timer.c) and do_sleep (src/kernel/task.c).   *)
(*                                                                         *)
(* The machine is a uniprocessor; every kernel routine brackets its        *)
(* critical section with disable_hwint/restore_hwint, so a kernel routine  *)
(* that does not enable interrupts is one atomic step here.  The timer     *)
(* IRQ may fire only where the current task runs with IF = 1: user mode,   *)
(* and kernel threads outside a disable_hwint region.  System calls enter  *)
(* through interrupt gates (src/kernel/idt.c) and so run with IF = 0.      *)
(***************************************************************************)
EXTENDS Integers, Sequences, FiniteSets, FiniteSetsExt

CONSTANTS
    TaskOrder,            \* the global task list, in list order
    Idle,                 \* the idle task (IDLE_TASK_PID)
    KernelThreads,        \* tasks created by kernel_thread (run with IF = 1)
    CpuBound,             \* tasks that never block (prime_numbers_task)
    SleepMsecs,           \* arguments passed to do_sleep
    HZ,
    SCHED_TICKS,
    INITIAL_TIMESLICE,
    TIMESLICE_INCREMENT,
    MAX_TIMESLICE

Tasks == {TaskOrder[i] : i \in DOMAIN TaskOrder}
NonIdle == Tasks \ {Idle}

ASSUME
    /\ Idle \in Tasks
    /\ Len(TaskOrder) = Cardinality(Tasks)
    /\ KernelThreads \subseteq NonIdle
    /\ CpuBound \subseteq NonIdle
    /\ SleepMsecs \subseteq Nat \ {0}
    /\ SCHED_TICKS \in Nat \ {0}
    /\ {INITIAL_TIMESLICE, TIMESLICE_INCREMENT, MAX_TIMESLICE} \subseteq Nat

\* Task states (TASK_RUNNABLE ... TASK_DEAD in consts.h).
RUNNABLE == "RUNNABLE"
INTERRUPTIBLE == "INTERRUPTIBLE"
UNINTERRUPTIBLE == "UNINTERRUPTIBLE"
DEAD == "DEAD"
TaskStates == {RUNNABLE, INTERRUPTIBLE, UNINTERRUPTIBLE, DEAD}

VARIABLES
    current,       \* the task owning the CPU
    state,         \* task_struct.state
    timeslice,     \* task_struct.timeslice
    timeout,       \* task_struct.timeout (ticks left of a do_sleep)
    sched_ticks,   \* static counter of handle_timer_interrupt
    pc             \* where each task is in its program

schedVars == <<current, state, timeslice, timeout, sched_ticks>>
vars == <<schedVars, pc>>

Pos(t) == CHOOSE i \in DOMAIN TaskOrder : TaskOrder[i] = t
FirstInList(S) == TaskOrder[Min({Pos(t) : t \in S})]
LastInList(S) == TaskOrder[Max({Pos(t) : t \in S})]

\* Mutant of Elect: the first scan forgets the TASK_RUNNABLE test.
ElectAnyState(st, ts) ==
    LET n == Max({ts[t] : t \in Tasks})
    IN  IF n > 0
        THEN [next |-> FirstInList({t \in Tasks : ts[t] = n}), ts |-> ts]
        ELSE [next |-> LastInList(Tasks \ {Idle}), ts |-> ts]

\* Mutant of Elect: the refill is not capped at MAX_TIMESLICE.
ElectNoCap(st, ts) ==
    LET run == {t \in Tasks : st[t] = RUNNABLE}
        n == IF run = {} THEN 0 ELSE Max({ts[t] : t \in run})
        others == run \ {Idle}
    IN  IF n > 0
        THEN [next |-> FirstInList({t \in run : ts[t] = n}), ts |-> ts]
        ELSE [next |-> IF others = {} THEN Idle ELSE LastInList(others),
              ts |-> [t \in Tasks |-> IF t = Idle THEN ts[t]
                                      ELSE ts[t] + TIMESLICE_INCREMENT]]

(***************************************************************************)
(* The election of schedule(): the runnable task with the strictly         *)
(* greatest positive time slice (the first one in list order on a tie);    *)
(* failing that, every non-idle task gets TIMESLICE_INCREMENT more ticks,  *)
(* capped at MAX_TIMESLICE, and the last runnable non-idle task in list    *)
(* order is elected; failing that, the idle task.  Returns the elected     *)
(* task and the time slices after the election.                            *)
(***************************************************************************)
Elect(st, ts) ==
    LET run == {t \in Tasks : st[t] = RUNNABLE}
        n == IF run = {} THEN 0 ELSE Max({ts[t] : t \in run})
        refilled == [t \in Tasks |->
                        IF t = Idle THEN ts[t]
                        ELSE IF ts[t] + TIMESLICE_INCREMENT > MAX_TIMESLICE
                             THEN MAX_TIMESLICE
                             ELSE ts[t] + TIMESLICE_INCREMENT]
        others == run \ {Idle}
    IN  IF n > 0
        THEN [next |-> FirstInList({t \in run : ts[t] = n}), ts |-> ts]
        ELSE [next |-> IF others = {} THEN Idle ELSE LastInList(others),
              ts |-> refilled]

(* schedule() called after the caller set the task states to st and the   *)
(* time slices to ts: elects and switches to the next task.               *)
Schedule(st, ts) ==
    LET e == Elect(st, ts)
    IN  /\ state' = st
        /\ timeslice' = e.ts
        /\ current' = e.next

\* Mutant of TimerInterrupt: the tick is never charged to the time slice.
TimerInterruptNoCharge ==
    LET st == [t \in Tasks |-> IF timeout[t] = 1 THEN RUNNABLE ELSE state[t]]
    IN  /\ timeout' = [t \in Tasks |-> IF timeout[t] > 0 THEN timeout[t] - 1
                                                        ELSE 0]
        /\ IF sched_ticks = 1
           THEN /\ sched_ticks' = SCHED_TICKS
                /\ Schedule(st, timeslice)
           ELSE /\ sched_ticks' = sched_ticks - 1
                /\ state' = st
                /\ UNCHANGED <<timeslice, current>>

(***************************************************************************)
(* handle_timer_interrupt: charge the tick to the current task's slice     *)
(* (never the idle task's), count down every timeout and wake the tasks    *)
(* whose timeout reaches zero, and call schedule() every SCHED_TICKS       *)
(* ticks.  The tick counter, CPU time and wall clock are left out: no      *)
(* decision of the kernel reads them.                                      *)
(***************************************************************************)
TimerInterrupt ==
    LET ts == IF current # Idle /\ timeslice[current] > 0
              THEN [timeslice EXCEPT ![current] = @ - 1]
              ELSE timeslice
        st == [t \in Tasks |-> IF timeout[t] = 1 THEN RUNNABLE ELSE state[t]]
    IN  /\ timeout' = [t \in Tasks |-> IF timeout[t] > 0 THEN timeout[t] - 1
                                                        ELSE 0]
        /\ IF sched_ticks = 1
           THEN /\ sched_ticks' = SCHED_TICKS
                /\ Schedule(st, ts)
           ELSE /\ sched_ticks' = sched_ticks - 1
                /\ state' = st
                /\ timeslice' = ts
                /\ UNCHANGED current

\* do_sleep converts milliseconds to ticks in 64 bits: (msec * HZ) / 1000.
MsecToTicks(msec) == (msec * HZ) \div 1000

(***************************************************************************)
(* The program of the tasks of this module: a task either computes (and    *)
(* is only ever preempted) or loops calling do_sleep, like clock_task and  *)
(* system_stat_task in src/kernel/main.c.  A kernel thread runs do_sleep   *)
(* with IF = 1: the timer may fire between its two statements.  A user     *)
(* task reaches do_sleep through sys_sleep, with IF = 0.                   *)
(***************************************************************************)

\* do_sleep, first statement, in a kernel thread: current->timeout = ticks.
DoSleepSetTimeout(t, msec) ==
    /\ current = t
    /\ t \in KernelThreads \ CpuBound
    /\ pc[t] = "run"
    /\ timeout' = [timeout EXCEPT ![t] = MsecToTicks(msec)]
    /\ pc' = [pc EXCEPT ![t] = "sleep_on"]
    /\ UNCHANGED <<current, state, timeslice, sched_ticks>>

\* do_sleep, second statement, in a kernel thread: sleep_on().
SleepOn(t) ==
    /\ current = t
    /\ pc[t] = "sleep_on"
    /\ Schedule([state EXCEPT ![t] = UNINTERRUPTIBLE], timeslice)
    /\ pc' = [pc EXCEPT ![t] = "run"]
    /\ UNCHANGED <<timeout, sched_ticks>>

\* sys_sleep -> do_sleep in a user task, atomic since IF = 0.
SysSleep(t, msec) ==
    /\ current = t
    /\ t \in NonIdle \ (KernelThreads \cup CpuBound)
    /\ pc[t] = "run"
    /\ timeout' = [timeout EXCEPT ![t] = MsecToTicks(msec)]
    /\ Schedule([state EXCEPT ![t] = UNINTERRUPTIBLE], timeslice)
    /\ UNCHANGED <<sched_ticks, pc>>

\* The timer IRQ is delivered only while the current task runs with IF = 1.
IntEnabled == pc[current] \in {"run", "sleep_on"}

Init ==
    /\ current = Idle
    /\ state = [t \in Tasks |-> RUNNABLE]
    /\ timeslice = [t \in Tasks |-> IF t = Idle THEN 0 ELSE INITIAL_TIMESLICE]
    /\ timeout = [t \in Tasks |-> 0]
    /\ sched_ticks = SCHED_TICKS
    /\ pc = [t \in Tasks |-> "run"]

TaskStep(t) ==
    \/ \E m \in SleepMsecs : DoSleepSetTimeout(t, m)
    \/ SleepOn(t)
    \/ \E m \in SleepMsecs : SysSleep(t, m)

Next ==
    \/ IntEnabled /\ TimerInterrupt /\ UNCHANGED pc
    \/ \E t \in NonIdle : TaskStep(t)

(* The timer interrupts as long as interrupts are enabled; a task that     *)
(* owns the CPU infinitely often gets to execute its next statement.       *)
Fairness ==
    /\ WF_vars(IntEnabled /\ TimerInterrupt /\ UNCHANGED pc)
    /\ \A t \in NonIdle : SF_vars(TaskStep(t))

Spec == Init /\ [][Next]_vars /\ Fairness

-----------------------------------------------------------------------------
TypeOK ==
    /\ current \in Tasks
    /\ state \in [Tasks -> TaskStates]
    /\ timeslice \in [Tasks -> 0..MAX_TIMESLICE]
    /\ timeout \in [Tasks -> Nat]
    /\ sched_ticks \in 1..SCHED_TICKS
    /\ pc \in [Tasks -> {"run", "sleep_on"}]

(* The CPU always belongs to a runnable task: every path that puts the     *)
(* current task to sleep goes through schedule(), and schedule() only      *)
(* elects runnable tasks or the idle task.                                 *)
CurrentRunnable == state[current] = RUNNABLE

(* The assertion of handle_timer_interrupt (timer.c): whenever the timer   *)
(* can fire, a task with a pending timeout is asleep in                    *)
(* TASK_UNINTERRUPTIBLE.                                                   *)
TimeoutOnlyWhileAsleep ==
    IntEnabled => \A t \in Tasks : timeout[t] > 0 => state[t] = UNINTERRUPTIBLE

(* A task that sleeps uninterruptibly has a timer that will wake it: no    *)
(* do_sleep leaves a task asleep with no timeout pending.                  *)
SleeperHasTimer ==
    \A t \in NonIdle : state[t] = UNINTERRUPTIBLE => timeout[t] > 0

(* No runnable task starves: a task that is runnable eventually gets the   *)
(* CPU (or stops being runnable).                                          *)
NoStarvation ==
    \A t \in NonIdle : state[t] = RUNNABLE ~> (current = t \/ state[t] # RUNNABLE)
=============================================================================
