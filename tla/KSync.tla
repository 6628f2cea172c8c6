-------------------------------- MODULE KSync --------------------------------
(***************************************************************************)
(* Kernel semaphores and mutexes (src/kernel/ksync.c) on top of the        *)
(* scheduler of module Sched, for the modules whose tasks use them.        *)
(*                                                                         *)
(* A semaphore is an element of Sems; a kmutex is a semaphore of initial   *)
(* value 1.  ksema_down runs with interrupts disabled from its test of the *)
(* value to its decrement, but when it sleeps the task is switched out in  *)
(* the middle: the decrement after the wake-up is its own step, taken when *)
(* schedule() hands the CPU back.  The operators below are the effects of  *)
(* the routines; a module using them supplies the program counter labels   *)
(* of the call site (at), of the sleep inside ksema_down (asleep) and of   *)
(* the statement after the call (next).                                    *)
(***************************************************************************)
EXTENDS Sched, SequencesExt

CONSTANTS
    Sems,         \* the semaphores
    SEM_INIT,     \* the value each one is given by ksema_init
    UINT_BITS     \* width of the unsigned int ksema.value

ASSUME SEM_INIT \in [Sems -> Nat] /\ UINT_BITS \in Nat \ {0}

UINT_MOD == 2 ^ UINT_BITS

VARIABLES
    value,        \* ksema.value
    waiters       \* ksema.waiting_task_list_head, head first

semVars == <<value, waiters>>

\* ksema_init(initval) of every semaphore.
KsemaInit ==
    /\ value = [s \in Sems |-> SEM_INIT[s] % UINT_MOD]
    /\ waiters = [s \in Sems |-> <<>>]

(***************************************************************************)
(* ksema_down(s) by task t, up to schedule(): if no unit is free, append   *)
(* the current task to the wait queue, put it to sleep and switch away;    *)
(* otherwise take a unit.                                                  *)
(***************************************************************************)
KsemaDown(t, s, at, asleep, next) ==
    /\ current = t
    /\ pc[t] = at
    /\ IF value[s] = 0
       THEN /\ waiters' = [waiters EXCEPT ![s] = Append(@, t)]
            /\ Schedule([state EXCEPT ![t] = UNINTERRUPTIBLE], timeslice)
            /\ pc' = [pc EXCEPT ![t] = asleep]
            /\ UNCHANGED value
       ELSE /\ value' = [value EXCEPT ![s] = (@ - 1) % UINT_MOD]
            /\ pc' = [pc EXCEPT ![t] = next]
            /\ UNCHANGED <<current, state, timeslice, waiters>>
    /\ UNCHANGED <<timeout, sched_ticks>>

(* ksema_down, after schedule() returns to the woken task: sem->value--,   *)
(* with no second test of the value.                                       *)
KsemaDownResume(t, s, asleep, next) ==
    /\ current = t
    /\ pc[t] = asleep
    /\ value' = [value EXCEPT ![s] = (@ - 1) % UINT_MOD]
    /\ pc' = [pc EXCEPT ![t] = next]
    /\ UNCHANGED <<schedVars, waiters>>

\* Mutant of KsemaUp: the head waiter is woken but left in the queue.
KsemaUpNoPop(s) ==
    /\ value' = [value EXCEPT ![s] = (@ + 1) % UINT_MOD]
    /\ IF waiters[s] # <<>>
       THEN state' = [state EXCEPT ![Head(waiters[s])] = RUNNABLE]
       ELSE UNCHANGED state
    /\ UNCHANGED waiters

\* Mutant of KsemaUp: the waiter queued last is woken first.
KsemaUpLifo(s) ==
    /\ value' = [value EXCEPT ![s] = (@ + 1) % UINT_MOD]
    /\ IF waiters[s] # <<>>
       THEN /\ state' = [state EXCEPT ![Last(waiters[s])] = RUNNABLE]
            /\ waiters' = [waiters EXCEPT ![s] = Front(@)]
       ELSE UNCHANGED <<state, waiters>>

(***************************************************************************)
(* ksema_up(s): release a unit and make the head waiter, if any, runnable. *)
(* It does not call schedule(): the caller keeps the CPU.  It is called by *)
(* tasks (kmutex_unlock) and by interrupt handlers.                        *)
(***************************************************************************)
KsemaUp(s) ==
    /\ value' = [value EXCEPT ![s] = (@ + 1) % UINT_MOD]
    /\ IF waiters[s] # <<>>
       THEN /\ state' = [state EXCEPT ![Head(waiters[s])] = RUNNABLE]
            /\ waiters' = [waiters EXCEPT ![s] = Tail(@)]
       ELSE UNCHANGED <<state, waiters>>

=============================================================================
