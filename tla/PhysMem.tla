------------------------------- MODULE PhysMem -------------------------------
(***************************************************************************)
(* The physical memory manager of src/kernel/physmem.c.                    *)
(*                                                                         *)
(* Memory is NPAGES pages.  There is one block descriptor per page (the    *)
(* array first_block_descriptor, indexed by page number); the descriptors  *)
(* of the pages that begin a block are linked, in address order, in the    *)
(* circular list block_list_head.  A descriptor keeps its pages/available  *)
(* fields after it leaves the list.  The list is modelled as the sequence  *)
(* of the page numbers of its descriptors, head first.                     *)
(*                                                                         *)
(* Every routine runs with interrupts disabled, so each call is one step.  *)
(* The clients (kmalloc's caches, kernel stacks, task segments, brk) are   *)
(* abstracted to the set of block addresses they own.                      *)
(***************************************************************************)
EXTENDS Integers, Sequences, SequencesExt, FiniteSets

CONSTANTS
    NPAGES,        \* physmem_size >> PAGE_BIT_SHIFT
    Layout,        \* the blocks init_physmem creates: <<pages, available>>
    AllocSizes,    \* page counts passed to alloc_physmem_block
    ReallocSizes,  \* page counts passed to realloc_physmem_block
    HChoices       \* outcomes of reading the uninitialised h (see below)

Pages == 0..(NPAGES - 1)

ASSUME
    /\ NPAGES \in Nat \ {0}
    /\ Layout \in Seq((Nat \ {0}) \X BOOLEAN)
    /\ AllocSizes \subseteq Nat \ {0}
    /\ ReallocSizes \subseteq Nat \ {0}
    /\ HChoices \subseteq {"next", "other"}

VARIABLES
    mem,        \* [list |-> block list, pages |-> .., avail |-> ..]
    owned,      \* addresses of the blocks the clients hold
    panicked    \* the kernel called panic() and halted

vars == <<mem, owned, panicked>>

\* Page number where block k of the boot layout starts.
LayoutStart(k) == IF k = 1 THEN 0
                  ELSE FoldLeft(LAMBDA acc, e : acc + e[1], 0,
                                SubSeq(Layout, 1, k - 1))

IndexOf(m, d) == CHOOSE i \in DOMAIN m.list : m.list[i] = d
\* The list is circular: the successor of the last block is the head.
NextOf(m, i) == m.list[IF i = Len(m.list) THEN 1 ELSE i + 1]
PrevOf(m, i) == m.list[IF i = 1 THEN Len(m.list) ELSE i - 1]

\* Mutant of FirstFit: the search forgets the b->available test.
FirstFitAnyBlock(m, n) == SelectInSeq(m.list, LAMBDA d : m.pages[d] >= n)

\* Mutant of FirstFit: the search walks the list backwards (last fit).
FirstFitLast(m, n) == SelectLastInSeq(m.list, LAMBDA d : m.avail[d] /\ m.pages[d] >= n)

(* First-fit search of __alloc_physmem_block: position in the list of the  *)
(* first available block of at least n pages, 0 if there is none.          *)
FirstFit(m, n) == SelectInSeq(m.list, LAMBDA d : m.avail[d] /\ m.pages[d] >= n)

\* Mutant of AllocOp: the split-off hole starts one page too early.
AllocOpEarlyHole(m, n) ==
    LET i == FirstFit(m, n)
        b == m.list[i]
        h == b + n - 1
    IN  IF m.pages[b] > n
        THEN [list |-> InsertAt(m.list, i + 1, h),
              pages |-> [m.pages EXCEPT ![b] = n, ![h] = m.pages[b] - n],
              avail |-> [m.avail EXCEPT ![b] = FALSE, ![h] = TRUE]]
        ELSE [m EXCEPT !.avail[b] = FALSE]

\* Mutant of AllocOp: a hole is split off even when the block fits exactly.
AllocOpAlwaysSplit(m, n) ==
    LET i == FirstFit(m, n)
        b == m.list[i]
        h == b + n
    IN  [list |-> InsertAt(m.list, i + 1, h),
         pages |-> [m.pages EXCEPT ![b] = n, ![h] = m.pages[b] - n],
         avail |-> [m.avail EXCEPT ![b] = FALSE, ![h] = TRUE]]

(***************************************************************************)
(* __alloc_physmem_block(n), when the first-fit search succeeds: the block *)
(* is marked allocated and, if larger than n pages, the rest becomes a new *)
(* hole inserted right after it.  Returns the new memory state.           *)
(***************************************************************************)
AllocOp(m, n) ==
    LET i == FirstFit(m, n)
        b == m.list[i]
        h == b + n
    IN  IF m.pages[b] > n
        THEN [list |-> InsertAt(m.list, i + 1, h),
              pages |-> [m.pages EXCEPT ![b] = n, ![h] = m.pages[b] - n],
              avail |-> [m.avail EXCEPT ![b] = FALSE, ![h] = TRUE]]
        ELSE [m EXCEPT !.avail[b] = FALSE]

\* Mutant of FreeOp: the freed block is never merged with the hole before it.
FreeOpNoPrevMerge(m, a) ==
    LET i == IndexOf(m, a)
        n == NextOf(m, i)
    IN  IF a < n /\ m.avail[n]
        THEN [list |-> RemoveAt(m.list, i + 1),
              pages |-> [m.pages EXCEPT ![a] = @ + m.pages[n]],
              avail |-> [m.avail EXCEPT ![a] = TRUE]]
        ELSE [m EXCEPT !.avail[a] = TRUE]

(***************************************************************************)
(* free_physmem_block(a) on an allocated block: mark it available, merge   *)
(* the following hole into it, then merge it into the preceding hole.      *)
(* "b < b->next" and "b->prev < b" compare descriptor addresses: they are  *)
(* false at the wrap-around of the circular list.                          *)
(***************************************************************************)
FreeOp(m, a) ==
    LET i == IndexOf(m, a)
        n == NextOf(m, i)
        m1 == IF a < n /\ m.avail[n]
              THEN [list |-> RemoveAt(m.list, i + 1),
                    pages |-> [m.pages EXCEPT ![a] = @ + m.pages[n]],
                    avail |-> [m.avail EXCEPT ![a] = TRUE]]
              ELSE [m EXCEPT !.avail[a] = TRUE]
        j == IndexOf(m1, a)
        p == PrevOf(m1, j)
    IN  IF p < a /\ m1.avail[p]
        THEN [list |-> RemoveAt(m1.list, j),
              pages |-> [m1.pages EXCEPT ![p] = @ + m1.pages[a]],
              avail |-> m1.avail]
        ELSE m1

\* free_physmem_block panics on any address at or past the last page.
FreePanics(a) == a >= NPAGES - 1

(***************************************************************************)
(* realloc_physmem_block(a, n) when n differs from the block's size.       *)
(* Shrinking widens the following hole or inserts a new one.  Growing      *)
(* takes the pages from the following hole when it is large enough; when   *)
(* that hole has exactly the pages needed, the code calls list_remove on   *)
(* h, a local variable that this branch never assigns.  hc names what the *)
(* stale h turns out to be: "next" is the following hole (what the code    *)
(* means), "other" any other block of the list.  Otherwise the block is   *)
(* moved: a raw allocation, a copy, and a free of the old block.           *)
(* Returns [m |-> memory state, addr |-> new address or -1 for E_NOMEM].   *)
(***************************************************************************)
ReallocOp(m, a, n, hc, other) ==
    LET i == IndexOf(m, a)
        nx == NextOf(m, i)
        old == m.pages[a]
        h == a + n
        followedByHole == a < nx /\ m.avail[nx]
    IN  CASE n < old /\ followedByHole ->
               [m |-> [list |-> ReplaceAt(m.list, i + 1, h),
                       pages |-> [m.pages EXCEPT ![h] = m.pages[nx] + old - n,
                                                 ![a] = n],
                       avail |-> [m.avail EXCEPT ![h] = TRUE]],
                addr |-> a]
          [] n < old ->
               [m |-> [list |-> InsertAt(m.list, i + 1, h),
                       pages |-> [m.pages EXCEPT ![h] = old - n, ![a] = n],
                       avail |-> [m.avail EXCEPT ![h] = TRUE]],
                addr |-> a]
          [] followedByHole /\ m.pages[nx] > n - old ->
               [m |-> [list |-> ReplaceAt(m.list, i + 1, h),
                       pages |-> [m.pages EXCEPT ![h] = m.pages[nx] - n + old,
                                                 ![a] = n],
                       avail |-> [m.avail EXCEPT ![h] = TRUE]],
                addr |-> a]
          [] followedByHole /\ m.pages[nx] = n - old ->
               LET gone == IF hc = "next" THEN nx ELSE other
               IN  [m |-> [m EXCEPT !.list = RemoveAt(@, IndexOf(m, gone)),
                                    !.pages[a] = n],
                    addr |-> a]
          [] FirstFit(m, n) = 0 ->
               [m |-> m, addr |-> -1]
          [] OTHER ->
               LET m1 == AllocOp(m, n)
               IN  [m |-> FreeOp(m1, a), addr |-> m1.list[FirstFit(m, n)]]

-----------------------------------------------------------------------------
Init ==
    /\ mem = [list |-> [k \in DOMAIN Layout |-> LayoutStart(k)],
              pages |-> [d \in Pages |->
                           IF \E k \in DOMAIN Layout : LayoutStart(k) = d
                           THEN Layout[CHOOSE k \in DOMAIN Layout :
                                         LayoutStart(k) = d][1]
                           ELSE 0],
              avail |-> [d \in Pages |->
                           \E k \in DOMAIN Layout :
                              LayoutStart(k) = d /\ Layout[k][2]]]
    /\ owned = {}
    /\ panicked = FALSE

\* A client allocates n pages and gets the address of the block.
Alloc(n) ==
    /\ ~panicked
    /\ FirstFit(mem, n) # 0
    /\ mem' = AllocOp(mem, n)
    /\ owned' = owned \cup {mem.list[FirstFit(mem, n)]}
    /\ UNCHANGED panicked

\* A client frees a block it holds.
Free(a) ==
    /\ ~panicked
    /\ a \in owned
    /\ IF FreePanics(a)
       THEN /\ panicked' = TRUE
            /\ UNCHANGED <<mem, owned>>
       ELSE /\ mem' = FreeOp(mem, a)
            /\ owned' = owned \ {a}
            /\ UNCHANGED panicked

\* A client resizes a block it holds (sys_brk); a moved block is freed
\* through free_physmem_block, which may panic on the last page.
Realloc(a, n) ==
    /\ ~panicked
    /\ a \in owned
    /\ n # mem.pages[a]
    /\ \E hc \in HChoices, other \in ToSet(mem.list) \ {a} :
          LET r == ReallocOp(mem, a, n, hc, other)
          IN  /\ r.addr # -1
              /\ IF r.addr # a /\ FreePanics(a)
                 THEN /\ panicked' = TRUE
                      /\ UNCHANGED <<mem, owned>>
                 ELSE /\ mem' = r.m
                      /\ owned' = (owned \ {a}) \cup {r.addr}
                      /\ UNCHANGED panicked

Next ==
    \/ \E n \in AllocSizes : Alloc(n)
    \/ \E a \in Pages : Free(a)
    \/ \E a \in Pages, n \in ReallocSizes : Realloc(a, n)

Spec == Init /\ [][Next]_vars

-----------------------------------------------------------------------------
TypeOK ==
    /\ mem.list \in Seq(Pages)
    /\ mem.pages \in [Pages -> 0..NPAGES]
    /\ mem.avail \in [Pages -> BOOLEAN]
    /\ owned \subseteq Pages
    /\ panicked \in BOOLEAN

Blocks == ToSet(mem.list)
\* The blocks init_physmem marks unavailable (the kernel image).
Reserved == {LayoutStart(k) : k \in {k \in DOMAIN Layout : ~Layout[k][2]}}
BlockEnd(d) == d + mem.pages[d]

(* The list tiles memory: it starts at page 0, every block starts where   *)
(* the previous one ends and the last one ends at the last page, so the   *)
(* page counts add up to the memory size and no two blocks overlap.       *)
Tiling ==
    /\ Len(mem.list) > 0
    /\ mem.list[1] = 0
    /\ \A i \in 1..(Len(mem.list) - 1) : mem.list[i + 1] = BlockEnd(mem.list[i])
    /\ BlockEnd(mem.list[Len(mem.list)]) = NPAGES

(* Holes are always coalesced: no two neighbouring blocks are both        *)
(* available.                                                             *)
Coalesced ==
    \A i \in 1..(Len(mem.list) - 1) :
        ~(mem.avail[mem.list[i]] /\ mem.avail[mem.list[i + 1]])

(* Every block a client holds is an allocated block of the list, and     *)
(* the allocated blocks are exactly those of the clients and the blocks  *)
(* reserved at boot: nothing is handed out twice or lost.                *)
OwnedAllocated == {d \in Blocks : ~mem.avail[d]} = owned \cup Reserved

\* The pages of the blocks init_physmem leaves unavailable.
ReservedPages ==
    UNION {LayoutStart(k) .. (LayoutStart(k) + Layout[k][1] - 1) :
              k \in {k \in DOMAIN Layout : ~Layout[k][2]}}

\* Refinement mapping: what a client sees of the allocator is the size of
\* each block it holds.
HeldBlocks == [d \in owned |-> mem.pages[d]]

PA == INSTANCE PageAlloc WITH held <- HeldBlocks, Reserved <- ReservedPages

(* The block list implements the list-free allocator of PageAlloc: every  *)
(* alloc_physmem_block, free_physmem_block and realloc_physmem_block the  *)
(* clients make hands out the first fit over the free pages, grows a      *)
(* block in place exactly when the pages after it are free, and frees     *)
(* what it is given.                                                      *)
PageAllocRefined == PA!Spec

(* A client that frees or moves a block it got from the allocator never   *)
(* makes the kernel panic.                                                *)
NoPanic == ~panicked
=============================================================================
