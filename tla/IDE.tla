--------------------------------- MODULE IDE ---------------------------------
(***************************************************************************)
(* The IDE driver's request protocol (src/drivers/ide.c) over the          *)
(* semaphores of module KSync and the scheduler of module Sched.           *)
(*                                                                         *)
(* Kernel threads call ide_read_write_blocks on the disks of one           *)
(* controller.  A request takes the controller mutex, checks the device    *)
(* is idle, issues the command, polls for BSY = 0, writes the data for a   *)
(* write, sleeps on the controller's io_sema until the IRQ handler raises  *)
(* it, checks ERR, reads the data for a read, and unlocks.  The kernel     *)
(* threads run with IF = 1 outside ksema_down, so the timer and the IDE    *)
(* IRQ may come between any two of these steps.                            *)
(*                                                                         *)
(* The disk is the environment: it executes one command at a time, with   *)
(* the ATA PIO protocol's status bits and one interrupt at the end of the  *)
(* command (for a write: after the data has been written).  The data is   *)
(* left out; outcome[t] records how the disk ended task t's last command.  *)
(***************************************************************************)
EXTENDS KSync

CONSTANTS
    Mutex,          \* controller->mutex (kmutex_init)
    IoSema,         \* controller->io_sema (ksema_init(0))
    Ops,            \* IO_READ, IO_WRITE: the requests the threads make
    DevOutcomes,    \* how the disk may end a command: "ok", "err"
    BsyTimeouts     \* whether the 30 s wait for BSY = 0 may expire

ASSUME
    /\ Sems = {Mutex, IoSema}
    /\ Ops \subseteq {"read", "write"}
    /\ DevOutcomes \subseteq {"ok", "err"}
    /\ BsyTimeouts \in BOOLEAN

\* The phases of the disk.  busy_*: BSY = 1; drq_*: DRQ = 1.
DevPhases == {"ready", "busy_read", "drq_in", "busy_wcmd", "drq_out", "busy_write"}

VARIABLES
    dev,            \* the disk's phase
    err,            \* the ERR bit of the status register
    irq,            \* the IDE IRQ line raised and not yet serviced
    owner,          \* the task whose command the disk executes or ran last
    outcome,        \* how the disk ended each task's last command
    opOf,           \* the type of each task's request
    ret             \* what ide_read_write_blocks last returned to each task

devVars == <<dev, err, irq, owner, outcome>>
reqVars == <<opOf, ret>>
ideVars == <<schedVars, pc, semVars, devVars, reqVars>>

Bsy == dev \in {"busy_read", "busy_wcmd", "busy_write"}
Drq == dev \in {"drq_in", "drq_out"}
\* The ERR bit read from the status register: undefined while BSY = 1.
ErrRead == IF Bsy THEN BOOLEAN ELSE {err}

\* The program counter labels of the tasks asleep inside ksema_down.
AsleepAt == [s \in Sems |-> IF s = Mutex THEN "lock_asleep" ELSE "io_asleep"]

\* The timer and the IDE IRQ are delivered unless the current task is in
\* ksema_down between its wake-up and its decrement (IF = 0 there).
IdeIntEnabled == pc[current] \notin {AsleepAt[s] : s \in Sems}

(***************************************************************************)
(* kmutex_unlock(controller->mutex) and the return of the request.         *)
(***************************************************************************)
Unlock(t, r) ==
    /\ KsemaUp(Mutex)
    /\ pc' = [pc EXCEPT ![t] = "start"]
    /\ ret' = [ret EXCEPT ![t] = r]
    /\ UNCHANGED <<current, timeslice, timeout, sched_ticks, opOf>>

(* ide_read_write_blocks up to kmutex_lock: the request's type, then      *)
(* ksema_down on the controller mutex.                                    *)
Lock(t) ==
    /\ \E o \in Ops : opOf' = [opOf EXCEPT ![t] = o]
    /\ ret' = [ret EXCEPT ![t] = "none"]
    /\ KsemaDown(t, Mutex, "start", "lock_asleep", "select")
    /\ UNCHANGED devVars

LockResume(t) ==
    /\ KsemaDownResume(t, Mutex, "lock_asleep", "select")
    /\ UNCHANGED <<devVars, reqVars>>

(***************************************************************************)
(* select_device, first status test: BSY and DRQ must both be clear        *)
(* (otherwise unlock and return 0); then the drive is selected.  The       *)
(* thread runs with IF = 1, so the tick, the IRQ and other threads may     *)
(* come between this step, the second test and the command.                *)
(***************************************************************************)
SelectDevice(t) ==
    /\ current = t
    /\ pc[t] = "select"
    /\ IF Bsy \/ Drq
       THEN Unlock(t, "fail")
       ELSE pc' = [pc EXCEPT ![t] = "select_check"]
            /\ UNCHANGED <<schedVars, semVars, reqVars>>
    /\ UNCHANGED devVars

\* select_device, second status test, after the drive select.
SelectCheck(t) ==
    /\ current = t
    /\ pc[t] = "select_check"
    /\ IF Bsy \/ Drq
       THEN Unlock(t, "fail")
       ELSE pc' = [pc EXCEPT ![t] = "issue"]
            /\ UNCHANGED <<schedVars, semVars, reqVars>>
    /\ UNCHANGED devVars

(* The command registers and the command itself: the disk starts the     *)
(* command, whatever it was doing.                                        *)
Issue(t) ==
    /\ current = t
    /\ pc[t] = "issue"
    /\ dev' = IF opOf[t] = "read" THEN "busy_read" ELSE "busy_wcmd"
    /\ err' = FALSE
    /\ owner' = t
    /\ outcome' = [outcome EXCEPT ![t] = "pending"]
    /\ pc' = [pc EXCEPT ![t] = "bsy_wait"]
    /\ UNCHANGED <<schedVars, semVars, irq, reqVars>>

\* Mutant of BsyWait: the driver does not wait for BSY = 0.
BsyWaitNoWait(t) ==
    /\ current = t
    /\ pc[t] = "bsy_wait"
    /\ \E e \in ErrRead :
          IF e
          THEN Unlock(t, "fail") /\ UNCHANGED devVars
          ELSE /\ dev' = IF opOf[t] = "write" /\ dev = "drq_out" THEN "busy_write" ELSE dev
               /\ pc' = [pc EXCEPT ![t] = "io_down"]
               /\ UNCHANGED <<schedVars, semVars, err, irq, owner, outcome, reqVars>>

(***************************************************************************)
(* wait_for_controller(BSY = 0, ATA_TIMEOUT), then the ERR test, then for  *)
(* a write the outw loop that hands the data to the disk.  The wait either *)
(* ends with BSY = 0, or expires while BSY is still 1 (unlock, return 0).  *)
(***************************************************************************)
BsyWait(t) ==
    /\ current = t
    /\ pc[t] = "bsy_wait"
    /\ \/ /\ ~Bsy
          /\ IF err
             THEN Unlock(t, "fail") /\ UNCHANGED devVars
             ELSE /\ dev' = IF opOf[t] = "write" /\ dev = "drq_out" THEN "busy_write" ELSE dev
                  /\ pc' = [pc EXCEPT ![t] = "io_down"]
                  /\ UNCHANGED <<schedVars, semVars, err, irq, owner, outcome, reqVars>>
       \/ /\ Bsy /\ BsyTimeouts
          /\ Unlock(t, "fail") /\ UNCHANGED devVars

\* ksema_down(controller->io_sema): wait for the IRQ.
IoDown(t) ==
    /\ KsemaDown(t, IoSema, "io_down", "io_asleep", "check")
    /\ UNCHANGED <<devVars, reqVars>>

IoResume(t) ==
    /\ KsemaDownResume(t, IoSema, "io_asleep", "check")
    /\ UNCHANGED <<devVars, reqVars>>

(***************************************************************************)
(* After the wait: the ERR test (unlock, return 0), then for a read the    *)
(* inw loop that drains the data, then unlock and return nblocks.          *)
(***************************************************************************)
Check(t) ==
    /\ current = t
    /\ pc[t] = "check"
    /\ \E e \in ErrRead :
          IF e
          THEN Unlock(t, "fail") /\ UNCHANGED devVars
          ELSE /\ dev' = IF opOf[t] = "read" /\ dev = "drq_in" THEN "ready" ELSE dev
               /\ Unlock(t, "ok")
               /\ UNCHANGED <<err, irq, owner, outcome>>

\* Mutant of IrqHandler: the IRQ is acknowledged but io_sema is not raised.
IrqHandlerNoUp ==
    /\ irq
    /\ IdeIntEnabled
    /\ irq' = FALSE
    /\ UNCHANGED <<schedVars, pc, semVars, dev, err, owner, outcome, reqVars>>

(* handle_ide_controller_interrupt: ksema_up(controller->io_sema), when   *)
(* the IRQ is delivered (IF = 1).                                         *)
IrqHandler ==
    /\ irq
    /\ IdeIntEnabled
    /\ KsemaUp(IoSema)
    /\ irq' = FALSE
    /\ UNCHANGED <<current, timeslice, timeout, sched_ticks, pc, dev, err,
                   owner, outcome, reqVars>>

(***************************************************************************)
(* The disk.  A read ends with the data ready (DRQ) or with ERR; a write   *)
(* command first asks for the data (DRQ, no interrupt) or fails; a write   *)
(* ends with or without ERR once the data is written.  Every end of a      *)
(* command raises the IRQ.                                                 *)
(***************************************************************************)
DevEnd(o, ph) ==
    /\ dev' = ph
    /\ err' = (o = "err")
    /\ irq' = TRUE
    /\ outcome' = [outcome EXCEPT ![owner] = o]
    /\ UNCHANGED owner

DiskStep ==
    /\ \/ dev = "busy_read" /\ \E o \in DevOutcomes :
                                  DevEnd(o, IF o = "ok" THEN "drq_in" ELSE "ready")
       \/ dev = "busy_wcmd" /\ \E o \in DevOutcomes :
                                  IF o = "ok"
                                  THEN dev' = "drq_out" /\ UNCHANGED <<err, irq, owner, outcome>>
                                  ELSE DevEnd(o, "ready")
       \/ dev = "busy_write" /\ \E o \in DevOutcomes : DevEnd(o, "ready")
    /\ UNCHANGED <<schedVars, pc, semVars, reqVars>>

Tick == IdeIntEnabled /\ TimerInterrupt /\ UNCHANGED <<pc, semVars, devVars, reqVars>>

IdeInit ==
    /\ current = Idle
    /\ state = [t \in Tasks |-> RUNNABLE]
    /\ timeslice = [t \in Tasks |-> IF t = Idle THEN 0 ELSE INITIAL_TIMESLICE]
    /\ timeout = [t \in Tasks |-> 0]
    /\ sched_ticks = SCHED_TICKS
    /\ pc = [t \in Tasks |-> IF t = Idle THEN "idle" ELSE "start"]
    /\ KsemaInit
    /\ dev = "ready" /\ err = FALSE /\ irq = FALSE
    /\ owner = Idle
    /\ outcome = [t \in Tasks |-> "none"]
    /\ opOf = [t \in Tasks |-> "read"]
    /\ ret = [t \in Tasks |-> "none"]

\* The steps of a request once it has started.
RequestStep(t) ==
    \/ LockResume(t) \/ SelectDevice(t) \/ SelectCheck(t) \/ Issue(t) \/ BsyWait(t)
    \/ IoDown(t) \/ IoResume(t) \/ Check(t)

IdeNext ==
    \/ Tick
    \/ IrqHandler
    \/ DiskStep
    \/ \E t \in NonIdle : Lock(t) \/ RequestStep(t)

(* The timer ticks while IF = 1; the disk ends every command it starts;   *)
(* the PIC holds the IDE IRQ until IF = 1, which is infinitely often; a   *)
(* task in a request gets the CPU infinitely often (NoStarvation of       *)
(* Sched) and so takes its next step.  Starting a request is not forced.  *)
IdeFairness ==
    /\ WF_ideVars(Tick)
    /\ WF_ideVars(DiskStep)
    /\ SF_ideVars(IrqHandler)
    /\ \A t \in NonIdle : SF_ideVars(RequestStep(t))

IdeSpec == IdeInit /\ [][IdeNext]_ideVars /\ IdeFairness

-----------------------------------------------------------------------------
IdeTypeOK ==
    /\ current \in Tasks
    /\ state \in [Tasks -> TaskStates]
    /\ timeslice \in [Tasks -> 0..MAX_TIMESLICE]
    /\ value \in [Sems -> 0..(UINT_MOD - 1)]
    /\ waiters \in [Sems -> Seq(NonIdle)]
    /\ dev \in DevPhases /\ err \in BOOLEAN /\ irq \in BOOLEAN
    /\ outcome \in [Tasks -> {"none", "pending", "ok", "err"}]
    /\ ret \in [Tasks -> {"none", "ok", "fail"}]

\* The tasks between kmutex_lock and kmutex_unlock.
Holders == {t \in NonIdle : pc[t] \in {"select", "select_check", "issue", "bsy_wait", "io_down", "io_asleep", "check"}}

(* The controller mutex gives mutual exclusion: at most one task programs *)
(* the controller at a time.                                              *)
MutualExclusion == Cardinality(Holders) <= 1

(* Each wait queue holds exactly the tasks asleep in ksema_down on that   *)
(* semaphore, each once: ksema_up never wakes a task it leaves queued,    *)
(* and never dequeues one it leaves asleep.                               *)
QueuedIffAsleep ==
    \A s \in Sems :
        /\ IsInjective(waiters[s])
        /\ \A t \in NonIdle :
              (t \in ToSet(waiters[s])) <=>
              (pc[t] = AsleepAt[s] /\ state[t] = UNINTERRUPTIBLE)

(* A read that returns its blocks returns them from its own command, and  *)
(* the disk ended that command without error: the wait for BSY = 0 makes  *)
(* the read safe even when io_sema holds a unit left by an earlier IRQ.   *)
ReadOnlyWhenDone ==
    \A t \in NonIdle : ret[t] = "ok" /\ opOf[t] = "read" => outcome[t] = "ok"

(* A failure of the disk (ERR) surfaces as 0 blocks transferred: a        *)
(* request that returns nblocks was ended by the disk without error (the  *)
(* design's driver contract).                                             *)
ReportedOnlyWhenDone ==
    \A t \in NonIdle : ret[t] = "ok" => outcome[t] = "ok"

(* The disk is given a command only when it is idle: no task writes the   *)
(* command registers while another task's command is running or its data *)
(* is waiting in the controller.  The controller mutex does not ensure    *)
(* this (ksema_down lets a task barge in, see MutualExclusion); the BSY   *)
(* and DRQ tests of select_device would have to, even after a request     *)
(* that timed out left its command behind.                                *)
CommandOnlyToIdleDisk ==
    [][\A t \in NonIdle : pc[t] = "issue" /\ pc'[t] = "bsy_wait" => dev = "ready"]_ideVars

(* Every request returns.                                                 *)
RequestCompletes == \A t \in NonIdle : pc[t] # "start" ~> pc[t] = "start"
=============================================================================
