-------------------------------- MODULE MCIDE --------------------------------
(* Model-checking instance of IDE: kernel threads created before the idle  *)
(* task, as in simplix_main, on one controller.                            *)
EXTENDS IDE

CONSTANTS k1, k2, k3, idle, mutex, io_sema

MCTaskOrder1 == <<k1, idle>>
MCTaskOrder2 == <<k1, k2, idle>>
MCTaskOrder3 == <<k1, k2, k3, idle>>
\* kmutex_init() and ksema_init(0) in init_ide_devices.
MCSemInit == [s \in {mutex, io_sema} |-> IF s = mutex THEN 1 ELSE 0]
=============================================================================
