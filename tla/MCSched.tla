------------------------------- MODULE MCSched -------------------------------
(* Model-checking instance of Sched: the task list of simplix_main, in     *)
(* list order: kernel threads created before init_multitasking, then the  *)
(* idle task, then a user task forked by init.                            *)
EXTENDS Sched

CONSTANTS kprime, kclock, idle, user

\* prime_numbers_task, clock_task, the idle task, a user task.
MCTaskOrder == <<kprime, kclock, idle, user>>
MCKernelThreads == {kprime, kclock}
MCCpuBound == {kprime}
=============================================================================
