------------------------------ MODULE PageAlloc ------------------------------
(***************************************************************************)
(* What the physical memory manager promises its clients, stated without  *)
(* its block list.  A client holds blocks of whole pages, named by their  *)
(* first page.  The calls:                                                 *)
(*   - alloc: the n pages at the start of the first maximal run of free   *)
(*     pages that has at least n of them (first fit over coalesced        *)
(*     holes);                                                             *)
(*   - free: the block's pages become free;                               *)
(*   - realloc: a block shrinks in place, grows in place when the pages   *)
(*     after it are free, and otherwise moves to the first fit of its new *)
(*     size (its old pages still held during the search) or stays put.    *)
(* One step of a client may also make two allocations (sys_fork: a       *)
(* kernel stack and a data segment) or two frees (do_exit).               *)
(***************************************************************************)
EXTENDS Integers, FiniteSets, Functions

CONSTANTS
    NPAGES,     \* the pages of physical memory
    Reserved    \* the pages init_physmem leaves unavailable

VARIABLE held   \* held[a]: the size in pages of the block at a a client holds

Pages == 0 .. (NPAGES - 1)
Span(a, n) == a .. (a + n - 1)
FreePages(h) == Pages \ (Reserved \cup UNION {Span(a, h[a]) : a \in DOMAIN h})

\* The first page of the first maximal free run of at least n pages, or -1.
FirstFree(h, n) ==
    LET starts == {p \in Pages : /\ Span(p, n) \subseteq FreePages(h)
                                 /\ p - 1 \notin FreePages(h)}
    IN  IF starts = {} THEN -1 ELSE CHOOSE p \in starts : \A q \in starts : p <= q

\* A block of h at a may take n pages without moving.
InPlace(h, a, n) == n < h[a] \/ Span(a + h[a], n - h[a]) \subseteq FreePages(h)

\* The calls, as relations between the holdings before (h) and after (g).
Allocated(h, g) ==
    \E p \in DOMAIN g \ DOMAIN h :
        /\ DOMAIN g = DOMAIN h \cup {p}
        /\ Restrict(g, DOMAIN h) = h
        /\ p = FirstFree(h, g[p])

Freed(h, g) == \E a \in DOMAIN h : g = Restrict(h, DOMAIN h \ {a})

Resized(h, g) ==
    \E a \in DOMAIN h :
        /\ DOMAIN g = DOMAIN h /\ g[a] # h[a]
        /\ g = [h EXCEPT ![a] = g[a]]
        /\ InPlace(h, a, g[a])

Moved(h, g) ==
    \E a \in DOMAIN h, p \in DOMAIN g \ DOMAIN h :
        /\ DOMAIN g = (DOMAIN h \ {a}) \cup {p}
        /\ Restrict(g, DOMAIN h \ {a}) = Restrict(h, DOMAIN h \ {a})
        /\ ~InPlace(h, a, g[p])
        /\ p = FirstFree(h, g[p])

Call(h, g) == Allocated(h, g) \/ Freed(h, g) \/ Resized(h, g) \/ Moved(h, g)

\* The holding that takes g's entries for the blocks of S and h's for the
\* others: the state between two calls of one step.
Mix(h, g, S) ==
    [d \in (DOMAIN h \ S) \cup (DOMAIN g \cap S) |-> IF d \in S THEN g[d] ELSE h[d]]

Init == held = [d \in {} |-> 0]

\* One call, or two allocations (sys_fork), or two frees (do_exit).
Next ==
    \/ Call(held, held')
    \/ \E S \in SUBSET (DOMAIN held' \ DOMAIN held) :
          /\ Allocated(held, Mix(held, held', S))
          /\ Allocated(Mix(held, held', S), held')
    \/ \E S \in SUBSET (DOMAIN held \ DOMAIN held') :
          /\ Freed(held, Mix(held, held', S))
          /\ Freed(Mix(held, held', S), held')

Spec == Init /\ [][Next]_held
=============================================================================
