------------------------------- MODULE UHeap --------------------------------
(***************************************************************************)
(* The user-space heap of src/lib/stdlib.c: the K&R malloc and free over a *)
(* circular free list ordered by address, morecore, and sbrk over the      *)
(* brk system call (sys_brk in src/kernel/sys.c).                          *)
(*                                                                         *)
(* A user task is one thread, so each call is one step.  The environment   *)
(* is the kernel: sys_brk rounds the requested break up to a page and      *)
(* grows the data segment only when realloc_physmem_block finds room,      *)
(* which depends on the other tasks (the choice grow).                     *)
(*                                                                         *)
(* Memory is counted in Header units; hdr[a] is the header stored at unit  *)
(* a.  &base, the static header of the list, is unit 0, below the break.   *)
(***************************************************************************)
EXTENDS Integers, FiniteSets

CONSTANTS
    HDR,          \* sizeof(Header) in bytes
    PAGE_SIZE,    \* bytes per page (PAGE_ALIGN_SUP)
    NALLOC,       \* the fewest units morecore asks sbrk for
    CS_SIZE,      \* the code segment size = the data segment size at start
    MAX_DS,       \* the largest data segment physical memory can hold
    MallocSizes   \* the nbytes the program passes to malloc

ASSUME
    /\ HDR \in Nat \ {0} /\ PAGE_SIZE \in Nat \ {0}
    /\ PAGE_SIZE % HDR = 0 /\ CS_SIZE % PAGE_SIZE = 0 /\ CS_SIZE > 0
    /\ MAX_DS % PAGE_SIZE = 0 /\ MAX_DS >= CS_SIZE
    /\ MallocSizes \subseteq Nat \ {0}

NULL == -1
BASE == 0

\* nunits = (nbytes + sizeof(Header) - 1) / sizeof(Header) + 1
Nunits(nbytes) == (nbytes + HDR - 1) \div HDR + 1

MaxUnits == LET ns == {Nunits(n) : n \in MallocSizes} \cup {NALLOC}
            IN CHOOSE m \in ns : \A k \in ns : k <= m
\* Every header the program can write: below the largest segment, plus one
\* block sbrk may wrongly report past it.
Units == 0 .. (MAX_DS \div HDR + MaxUnits)

VARIABLES
    hdr,      \* hdr[a]: the header (ptr, size) stored at unit a
    freep,    \* freep: the roving start of the free list, NULL before use
    oldbrk,   \* sbrk's static oldbrk (bytes)
    curbrk,   \* sbrk's static curbrk (bytes)
    ds,       \* the data segment size in the task's LDT (bytes)
    killed,   \* the task took a general protection fault (do_exit(1))
    alloc     \* the headers of the blocks malloc handed out, not yet freed

heapVars == <<hdr, freep, oldbrk, curbrk, ds, killed>>
vars == <<heapVars, alloc>>

Heap == [hdr |-> hdr, freep |-> freep, oldbrk |-> oldbrk, curbrk |-> curbrk,
         ds |-> ds, killed |-> killed]
SetHeap(s) == /\ hdr' = s.hdr /\ freep' = s.freep /\ oldbrk' = s.oldbrk
              /\ curbrk' = s.curbrk /\ ds' = s.ds /\ killed' = s.killed

PageAlignSup(a) == ((a + PAGE_SIZE - 1) \div PAGE_SIZE) * PAGE_SIZE

\* sys_brk: the break rounded up to a page; below the code segment, or when
\* realloc_physmem_block cannot grow the block, the size is left alone.
SysBrk(dsz, req, grow) ==
    LET size == PageAlignSup(req) IN
    IF size >= CS_SIZE /\ (size <= dsz \/ (grow /\ size <= MAX_DS))
    THEN [ds |-> size, ret |-> size]
    ELSE [ds |-> dsz, ret |-> dsz]

\* sbrk: fails only when brk answers the old break.
Sbrk(st, increment, grow) ==
    LET s1 == IF st.oldbrk = 0
              THEN LET b0 == SysBrk(st.ds, 0, grow).ret
                   IN [st EXCEPT !.oldbrk = b0, !.curbrk = b0]
              ELSE st
        newbrk == s1.curbrk + increment
        b == SysBrk(s1.ds, newbrk, grow)
    IN CASE increment = 0 -> [st |-> s1, ret |-> s1.curbrk]
         [] b.ret = s1.curbrk -> [st |-> [s1 EXCEPT !.ds = b.ds], ret |-> -1]
         [] OTHER -> [st |-> [s1 EXCEPT !.ds = b.ds, !.oldbrk = s1.curbrk,
                                        !.curbrk = newbrk],
                      ret |-> s1.curbrk]

\* Mutant: the list's last block takes bp whatever its address.
RECURSIVE FreeSlotWrapAny(_, _, _)
FreeSlotWrapAny(h, bp, p) ==
    CASE bp > p /\ bp < h[p].ptr -> p
      [] p >= h[p].ptr -> p
      [] OTHER -> FreeSlotWrapAny(h, bp, h[p].ptr)

\* The loop of free: the free block p after which bp goes, in address
\* order, or at the wrap of the list.
RECURSIVE FreeSlot(_, _, _)
FreeSlot(h, bp, p) ==
    CASE bp > p /\ bp < h[p].ptr -> p
      [] p >= h[p].ptr /\ (bp > p \/ bp < h[p].ptr) -> p
      [] OTHER -> FreeSlot(h, bp, h[p].ptr)

\* Mutant: free never joins bp to the block below it.
FreeBodyNoLowerJoin(st, bp) ==
    LET h == st.hdr
        p == FreeSlot(h, bp, st.freep)
        nx == h[p].ptr
        h1 == IF bp + h[bp].size = nx
              THEN [h EXCEPT ![bp] = [ptr |-> h[nx].ptr, size |-> @.size + h[nx].size]]
              ELSE [h EXCEPT ![bp].ptr = nx]
    IN [st EXCEPT !.hdr = [h1 EXCEPT ![p].ptr = bp], !.freep = p]

\* free: insert block bp after p, joining it to its upper then lower
\* neighbour when they touch.
FreeBody(st, bp) ==
    LET h == st.hdr
        p == FreeSlot(h, bp, st.freep)
        nx == h[p].ptr
        h1 == IF bp + h[bp].size = nx
              THEN [h EXCEPT ![bp] = [ptr |-> h[nx].ptr, size |-> @.size + h[nx].size]]
              ELSE [h EXCEPT ![bp].ptr = nx]
        h2 == IF p + h1[p].size = bp
              THEN [h1 EXCEPT ![p] = [ptr |-> h1[bp].ptr, size |-> @.size + h1[bp].size]]
              ELSE [h1 EXCEPT ![p].ptr = bp]
    IN [st EXCEPT !.hdr = h2, !.freep = p]

\* morecore: at least NALLOC units from sbrk, given to free.  Writing the
\* header past the segment limit is a general protection fault.
Morecore(st, nu0, grow) ==
    LET nu == IF nu0 < NALLOC THEN NALLOC ELSE nu0
        r == Sbrk(st, nu * HDR, grow)
        up == r.ret \div HDR
    IN CASE r.ret = -1 -> [st |-> r.st, ret |-> NULL]
         [] r.ret + HDR > r.st.ds -> [st |-> [r.st EXCEPT !.killed = TRUE], ret |-> NULL]
         [] OTHER -> LET s3 == FreeBody([r.st EXCEPT !.hdr[up].size = nu], up)
                     IN [st |-> s3, ret |-> s3.freep]

\* Mutant: the split hands out the tail but leaves the head its full size.
RECURSIVE MallocScanNoShrink(_, _, _, _, _)
MallocScanNoShrink(st, prevp, p, n, grow) ==
    LET h == st.hdr IN
    CASE h[p].size = n ->
            [st |-> [st EXCEPT !.hdr[prevp].ptr = h[p].ptr, !.freep = prevp], ret |-> p]
      [] h[p].size > n ->
            LET q == p + (h[p].size - n)
            IN [st |-> [st EXCEPT !.hdr = [h EXCEPT ![q].size = n], !.freep = prevp],
                ret |-> q]
      [] p # st.freep -> MallocScanNoShrink(st, p, h[p].ptr, n, grow)
      [] OTHER -> LET m == Morecore(st, n, grow) IN
                  IF m.ret = NULL THEN m
                  ELSE MallocScanNoShrink(m.st, m.ret, m.st.hdr[m.ret].ptr, n, grow)

\* The search loop of malloc from the block after prevp: an exact fit is
\* unlinked, a larger block gives its tail; after a full turn, morecore.
RECURSIVE MallocScan(_, _, _, _, _)
MallocScan(st, prevp, p, n, grow) ==
    LET h == st.hdr IN
    CASE h[p].size = n ->
            [st |-> [st EXCEPT !.hdr[prevp].ptr = h[p].ptr, !.freep = prevp], ret |-> p]
      [] h[p].size > n ->
            LET q == p + (h[p].size - n)
            IN [st |-> [st EXCEPT !.hdr = [h EXCEPT ![p].size = h[p].size - n,
                                                    ![q].size = n],
                                  !.freep = prevp],
                ret |-> q]
      [] p # st.freep -> MallocScan(st, p, h[p].ptr, n, grow)
      [] OTHER -> LET m == Morecore(st, n, grow) IN
                  IF m.ret = NULL THEN m
                  ELSE MallocScan(m.st, m.ret, m.st.hdr[m.ret].ptr, n, grow)

\* malloc: the degenerate list of base alone on the first call.
MallocOp(st, nbytes, grow) ==
    LET s1 == IF st.freep = NULL
              THEN [st EXCEPT !.hdr[BASE] = [ptr |-> BASE, size |-> 0], !.freep = BASE]
              ELSE st
    IN MallocScan(s1, s1.freep, s1.hdr[s1.freep].ptr, Nunits(nbytes), grow)

-----------------------------------------------------------------------------
Init ==
    /\ hdr = [a \in Units |-> [ptr |-> 0, size |-> 0]]
    /\ freep = NULL /\ oldbrk = 0 /\ curbrk = 0
    /\ ds = CS_SIZE /\ killed = FALSE /\ alloc = {}

\* Mutant: the program keeps what malloc returns without testing for NULL.
MallocKeepsNull(nbytes) ==
    /\ ~killed
    /\ \E grow \in BOOLEAN :
         \E r \in {MallocOp(Heap, nbytes, grow)} :
            /\ SetHeap(r.st)
            /\ alloc' = alloc \cup {r.ret}

\* The program calls malloc(nbytes); it keeps the pointer it gets.
Malloc(nbytes) ==
    /\ ~killed
    /\ \E grow \in BOOLEAN :
         \E r \in {MallocOp(Heap, nbytes, grow)} :
            /\ SetHeap(r.st)
            /\ alloc' = IF r.ret = NULL THEN alloc ELSE alloc \cup {r.ret}

\* The program frees a block it got from malloc.
Free(bp) ==
    /\ ~killed /\ bp \in alloc
    /\ SetHeap(FreeBody(Heap, bp))
    /\ alloc' = alloc \ {bp}

Next ==
    \/ \E n \in MallocSizes : Malloc(n)
    \/ \E bp \in alloc : Free(bp)

Spec == Init /\ [][Next]_vars
-----------------------------------------------------------------------------
\* The nodes on the free list, base included, following ptr from base.
RECURSIVE ListFrom(_, _)
ListFrom(a, seen) == IF a \in seen THEN seen ELSE ListFrom(hdr[a].ptr, seen \cup {a})
FreeNodes == IF freep = NULL THEN {} ELSE ListFrom(BASE, {})
FreeBlocks == FreeNodes \ {BASE}
Span(a) == a .. (a + hdr[a].size - 1)
\* The first break: brk(0) answers the data segment size, CS_SIZE.
HeapStart == CS_SIZE \div HDR

\* The state without the memory the program cannot read: malloc and free
\* read the header of a block only when it is on the free list or held by
\* the program (a split block's ptr is written before it is read).
HeapView ==
    << [a \in Units |-> CASE a \in FreeNodes -> hdr[a]
                          [] a \in alloc -> [ptr |-> 0, size |-> hdr[a].size]
                          [] OTHER -> [ptr |-> 0, size |-> 0]],
       freep, oldbrk, curbrk, ds, killed, alloc >>

HeapTypeOK ==
    /\ hdr \in [Units -> [ptr : Units, size : Nat]]
    /\ freep \in Units \cup {NULL}
    /\ oldbrk \in Nat /\ curbrk \in Nat /\ ds \in Nat
    /\ killed \in BOOLEAN /\ alloc \subseteq Units

\* free keeps the list in increasing address order from base and closed:
\* every link goes up except one back to base, and freep is on it.
FreeListOrdered ==
    freep # NULL =>
        /\ freep \in FreeNodes
        /\ \A a \in FreeNodes : hdr[a].ptr > a \/ hdr[a].ptr = BASE
        /\ \E a \in FreeNodes : hdr[a].ptr = BASE

\* free joins a block to every free neighbour it touches: no free block
\* ends where the next one on the list starts.
Coalesced ==
    \A a \in FreeBlocks : a + hdr[a].size # hdr[a].ptr

\* Between them, the free blocks and the blocks the program holds cover the
\* memory sbrk handed out, from the first break to curbrk, each unit once:
\* malloc's split and free's joins neither lose nor double-count a unit.
HeapAccounted ==
    (oldbrk # 0 /\ ~killed) =>
        /\ \A a, b \in FreeBlocks \cup alloc : a # b => Span(a) \cap Span(b) = {}
        /\ UNION {Span(a) : a \in FreeBlocks \cup alloc} = HeapStart .. (curbrk \div HDR - 1)

\* Every block on the free list or held by the program lies inside the data
\* segment the kernel set up: what sbrk reports as its break is memory.
HeapWithinSegment ==
    \A a \in FreeBlocks \cup alloc : (a + hdr[a].size) * HDR <= ds
=============================================================================
