------------------------------- MODULE ProcTree -------------------------------
(***************************************************************************)
(* What the task lifecycle promises, stated without pids, memory or       *)
(* programs: a tree of processes.  A process is created with a live       *)
(* parent (or none, at boot), dies into a zombie whose children pass to    *)
(* its own parent, and is removed only by its parent reaping it.  An      *)
(* orphan is given a parent when it dies or by a process created later    *)
(* (init adopting the boot threads that died before it existed).          *)
(***************************************************************************)
CONSTANTS
    Procs,      \* the process identities
    NoProc      \* the parent of a process that has none

ASSUME NoProc \notin Procs

VARIABLES
    procs,      \* the processes that exist (alive or zombie)
    zombie,     \* the processes that died and wait to be reaped
    parent      \* parent[p]: the parent of p, NoProc for none

ptVars == <<procs, zombie, parent>>

Alive == procs \ zombie

PTInit ==
    /\ procs = {} /\ zombie = {}
    /\ parent = [p \in Procs |-> NoProc]

\* c is created as a child of p; it may adopt zombies that have no parent.
Create(c, p) ==
    /\ c \in Procs \ procs
    /\ p \in Alive \cup {NoProc}
    /\ \E adopted \in SUBSET {z \in zombie : parent[z] = NoProc} :
          parent' = [x \in Procs |-> CASE x = c -> p
                                       [] x \in adopted -> c
                                       [] OTHER -> parent[x]]
    /\ procs' = procs \cup {c}
    /\ UNCHANGED zombie

\* c dies; it and its children get its parent, or some live process when
\* it had none.
Die(c) ==
    /\ c \in Alive
    /\ \E np \in IF parent[c] = NoProc THEN (Alive \ {c}) \cup {NoProc}
                 ELSE {parent[c]} :
          parent' = [x \in Procs |-> IF x = c \/ (x \in procs /\ parent[x] = c)
                                     THEN np ELSE parent[x]]
    /\ zombie' = zombie \cup {c}
    /\ UNCHANGED procs

\* p reaps its zombie child c.
Reap(p, c) ==
    /\ p \in Alive /\ c \in zombie /\ parent[c] = p
    /\ procs' = procs \ {c}
    /\ zombie' = zombie \ {c}
    /\ parent' = [parent EXCEPT ![c] = NoProc]

PTNext ==
    \/ \E c \in Procs, p \in Procs \cup {NoProc} : Create(c, p)
    \/ \E c \in Procs : Die(c)
    \/ \E p, c \in Procs : Reap(p, c)

PTSpec == PTInit /\ [][PTNext]_ptVars
=============================================================================
