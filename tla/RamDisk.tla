------------------------------- MODULE RamDisk --------------------------------
(***************************************************************************)
(* The RAM disk driver of src/drivers/ramdisk.c over the physical memory   *)
(* manager of module PhysMem.  A RAM disk is a kmalloc'ed struct ramdisk  *)
(* (an element of RdSlots, back in the pool after kfree) that holds one    *)
(* block of physical memory; ramdisk_list_head links the live ones.       *)
(*                                                                         *)
(* Kernel threads call the driver with IF = 1: a timer tick may switch     *)
(* threads between two interrupts-off regions.  So create_ramdisk is two   *)
(* steps (the allocations, then the minor and the append), a read or a     *)
(* write is two (get_ramdisk_instance, then the bounds test and memcpy),  *)
(* and destroy_ramdisk, all of it inside disable_hwint, is one.           *)
(*                                                                         *)
(* Memory is counted in blocks of BLOCK_SIZE bytes, BPP to a page; block   *)
(* numbers and addresses in blocks wrap at 2^UINT_BITS, like the 32-bit   *)
(* offset_t and addr_t of the code.                                        *)
(***************************************************************************)
EXTENDS PhysMem

CONSTANTS
    RdSlots,      \* the memory kmalloc can give as struct ramdisk
    Threads,      \* the kernel threads calling the driver
    BPP,          \* blocks per page: PAGE_SIZE / BLOCK_SIZE
    UINT_BITS,    \* the width of unsigned int, offset_t and addr_t
    Lens,         \* the len passed to create_ramdisk, in blocks
    Minors,       \* the minors passed to destroy, read and write
    BlockArgs,    \* the block passed to read and write
    NBlockArgs    \* the nblocks passed to read and write

NoRd == "none"
S_OK == 0
E_INVALIDARG == 2
E_NOMEM == 3
Wrap(x) == x % (2 ^ UINT_BITS)

ASSUME
    /\ BPP \in Nat \ {0} /\ UINT_BITS \in Nat \ {0}
    /\ NoRd \notin RdSlots
    /\ Lens \subseteq 0 .. (2 ^ UINT_BITS - 1)

VARIABLES
    rd,       \* rd[s]: the minor, addr (page) and nblocks of descriptor s
    rdList,   \* ramdisk_list_head, in list order
    kfreeRd,  \* the descriptors kmalloc may hand out
    n,        \* the static minor counter of create_ramdisk
    pc,       \* pc[t]: "idle", "create" (allocated, not listed), "created"
              \* (listed, minor not yet read back) or "copy"
    loc,      \* loc[t]: the thread's locals (its rd, block, nblocks)
    ret       \* ret[t]: what the thread's last call returned

rdVars == <<rd, rdList, kfreeRd, n, pc, loc, ret>>
allVars == <<vars, rdVars>>

Listed == ToSet(rdList)
NoLoc == [rd |-> NoRd, minor |-> 0, block |-> 0, nblocks |-> 0]

\* PAGE_ALIGN_SUP(len) >> PAGE_BIT_SHIFT, the sum wrapping in a size_t.
PagesFor(len) == Wrap(len + BPP - 1) \div BPP

\* get_ramdisk_instance: the first descriptor of the list with the minor.
GetInstance(m) ==
    LET i == SelectInSeq(rdList, LAMBDA s : rd[s].minor = m)
    IN IF i = 0 THEN NoRd ELSE rdList[i]

RdInit ==
    /\ Init
    /\ rd = [s \in RdSlots |-> [minor |-> 0, addr |-> 0, nblocks |-> 0]]
    /\ rdList = << >> /\ kfreeRd = RdSlots /\ n = 0
    /\ pc = [t \in Threads |-> "idle"]
    /\ loc = [t \in Threads |-> NoLoc]
    /\ ret = [t \in Threads |-> S_OK]

Return(t, v) ==
    /\ pc' = [pc EXCEPT ![t] = "idle"] /\ loc' = [loc EXCEPT ![t] = NoLoc]
    /\ ret' = [ret EXCEPT ![t] = v]

\* The end of a call that returns nothing.
ReturnVoid(t) ==
    /\ pc' = [pc EXCEPT ![t] = "idle"] /\ loc' = [loc EXCEPT ![t] = NoLoc]
    /\ UNCHANGED ret

\* Mutant of CreateAlloc: the failure path of alloc_physmem_block does not
\* kfree the descriptor.
CreateAllocLeak(t, len) ==
    /\ ~panicked /\ pc[t] = "idle"
    /\ CASE len = 0 ->
              Return(t, -E_INVALIDARG) /\ UNCHANGED <<vars, rd, rdList, kfreeRd, n>>
         [] kfreeRd = {} ->
              Return(t, -E_NOMEM) /\ UNCHANGED <<vars, rd, rdList, kfreeRd, n>>
         [] OTHER ->
              \E s \in kfreeRd :
                LET pages == PagesFor(len) IN
                IF pages = 0 \/ FirstFit(mem, pages) = 0
                THEN /\ Return(t, -E_NOMEM) /\ kfreeRd' = kfreeRd \ {s}
                     /\ UNCHANGED <<vars, rd, rdList, n>>
                ELSE /\ mem' = AllocOp(mem, pages)
                     /\ owned' = owned \cup {mem.list[FirstFit(mem, pages)]}
                     /\ rd' = [rd EXCEPT ![s].addr = mem.list[FirstFit(mem, pages)],
                                         ![s].nblocks = pages * BPP]
                     /\ kfreeRd' = kfreeRd \ {s}
                     /\ pc' = [pc EXCEPT ![t] = "create"]
                     /\ loc' = [loc EXCEPT ![t].rd = s]
                     /\ UNCHANGED <<panicked, rdList, n, ret>>

\* create_ramdisk(len) up to the interrupts-off region: the len test,
\* __kmalloc, alloc_physmem_block and its failure path, nblocks.
CreateAlloc(t, len) ==
    /\ ~panicked /\ pc[t] = "idle"
    /\ CASE len = 0 ->
              Return(t, -E_INVALIDARG) /\ UNCHANGED <<vars, rd, rdList, kfreeRd, n>>
         [] kfreeRd = {} ->
              Return(t, -E_NOMEM) /\ UNCHANGED <<vars, rd, rdList, kfreeRd, n>>
         [] OTHER ->
              \E s \in kfreeRd :
                LET pages == PagesFor(len) IN
                IF pages = 0 \/ FirstFit(mem, pages) = 0
                THEN Return(t, -E_NOMEM) /\ UNCHANGED <<vars, rd, rdList, kfreeRd, n>>
                ELSE /\ mem' = AllocOp(mem, pages)
                     /\ owned' = owned \cup {mem.list[FirstFit(mem, pages)]}
                     /\ rd' = [rd EXCEPT ![s].addr = mem.list[FirstFit(mem, pages)],
                                         ![s].nblocks = pages * BPP]
                     /\ kfreeRd' = kfreeRd \ {s}
                     /\ pc' = [pc EXCEPT ![t] = "create"]
                     /\ loc' = [loc EXCEPT ![t].rd = s]
                     /\ UNCHANGED <<panicked, rdList, n, ret>>

\* The interrupts-off region of create_ramdisk: minor = n++, list_append.
CreateAppend(t) ==
    /\ ~panicked /\ pc[t] = "create"
    /\ LET s == loc[t].rd IN
       /\ rd' = [rd EXCEPT ![s].minor = n]
       /\ n' = Wrap(n + 1)
       /\ rdList' = Append(rdList, s)
    /\ pc' = [pc EXCEPT ![t] = "created"]
    /\ loc' = [loc EXCEPT ![t].minor = n]
    /\ UNCHANGED <<vars, kfreeRd, ret>>

\* *minor = rd->minor, read after restore_hwint, and return S_OK; the
\* minor is what the caller gets back (ret).
CreateResult(t) ==
    /\ ~panicked /\ pc[t] = "created"
    /\ Return(t, rd[loc[t].rd].minor)
    /\ UNCHANGED <<vars, rd, rdList, kfreeRd, n>>

\* Mutant of Destroy: the descriptor is kfreed but stays on the list.
DestroyNoUnlink(t, m) ==
    /\ ~panicked /\ pc[t] = "idle"
    /\ LET s == GetInstance(m) IN
       CASE s = NoRd ->
              ReturnVoid(t) /\ UNCHANGED <<vars, rd, rdList, kfreeRd, n>>
         [] FreePanics(rd[s].addr) ->
              /\ panicked' = TRUE
              /\ UNCHANGED <<mem, owned, rdVars>>
         [] OTHER ->
              /\ mem' = FreeOp(mem, rd[s].addr)
              /\ owned' = owned \ {rd[s].addr}
              /\ kfreeRd' = kfreeRd \cup {s}
              /\ ReturnVoid(t)
              /\ UNCHANGED <<panicked, rd, rdList, n>>

\* destroy_ramdisk(minor): look it up, free its pages (which panics on the
\* last page), unlink it and kfree it, all with interrupts disabled.
Destroy(t, m) ==
    /\ ~panicked /\ pc[t] = "idle"
    /\ LET s == GetInstance(m) IN
       CASE s = NoRd ->
              ReturnVoid(t) /\ UNCHANGED <<vars, rd, rdList, kfreeRd, n>>
         [] FreePanics(rd[s].addr) ->
              /\ panicked' = TRUE
              /\ UNCHANGED <<mem, owned, rdVars>>
         [] OTHER ->
              /\ mem' = FreeOp(mem, rd[s].addr)
              /\ owned' = owned \ {rd[s].addr}
              /\ rdList' = SelectSeq(rdList, LAMBDA x : x # s)
              /\ kfreeRd' = kfreeRd \cup {s}
              /\ ReturnVoid(t)
              /\ UNCHANGED <<panicked, rd, n>>

\* ramdisk_read_write_blocks: get_ramdisk_instance, with interrupts off.
Lookup(t, m, b, nb) ==
    /\ ~panicked /\ pc[t] = "idle"
    /\ LET s == GetInstance(m) IN
       IF s = NoRd
       THEN Return(t, 0) /\ UNCHANGED <<vars, rd, rdList, kfreeRd, n>>
       ELSE /\ pc' = [pc EXCEPT ![t] = "copy"]
            /\ loc' = [loc EXCEPT ![t] = [rd |-> s, minor |-> m, block |-> b, nblocks |-> nb]]
            /\ UNCHANGED <<vars, rd, rdList, kfreeRd, n, ret>>

\* The blocks memcpy touches: from rd->addr + block * BLOCK_SIZE on.
CopyRange(l) ==
    LET base == Wrap(rd[l.rd].addr * BPP + l.block)
    IN {Wrap(base + k) : k \in 0 .. (l.nblocks - 1)}

\* The rest of ramdisk_read_write_blocks, after the lookup: the bounds test
\* on rd->nblocks, the address, memcpy, the return.
Transfer(t) ==
    /\ ~panicked /\ pc[t] = "copy"
    /\ LET l == loc[t] IN
       IF Wrap(l.block + l.nblocks) > rd[l.rd].nblocks
       THEN Return(t, 0)
       ELSE Return(t, l.nblocks)
    /\ UNCHANGED <<vars, rd, rdList, kfreeRd, n>>

RdNext ==
    \/ \E t \in Threads, len \in Lens : CreateAlloc(t, len)
    \/ \E t \in Threads : CreateAppend(t)
    \/ \E t \in Threads : CreateResult(t)
    \/ \E t \in Threads, m \in Minors : Destroy(t, m)
    \/ \E t \in Threads, m \in Minors, b \in BlockArgs, nb \in NBlockArgs :
          Lookup(t, m, b, nb)
    \/ \E t \in Threads : Transfer(t)

RdSpec == RdInit /\ [][RdNext]_allVars
-----------------------------------------------------------------------------
\* The descriptors a thread has allocated and not yet listed.
Creating == {loc[t].rd : t \in {u \in Threads : pc[u] = "create"}}
Held == Listed \cup Creating
\* The blocks of memory RAM disk s may touch.
DiskBlocks(s) == (rd[s].addr * BPP) .. (rd[s].addr * BPP + rd[s].nblocks - 1)

\* Every descriptor kmalloc handed out is a RAM disk on the list or one a
\* thread is creating, and each is on the list at most once: the failure
\* paths of create_ramdisk give the descriptor back, and destroy_ramdisk
\* unlinks what it kfrees.
DescriptorsAccounted ==
    /\ RdSlots \ kfreeRd = Held
    /\ Listed \cap Creating = {}
    /\ Len(rdList) = Cardinality(Listed)

\* The blocks the allocator has given to RAM disks are exactly the blocks
\* of the disks held, one block each; each disk's nblocks is what its block
\* holds, as alloc_physmem_block sized it.
DisksOwnTheirBlocks ==
    /\ owned = {rd[s].addr : s \in Held}
    /\ \A s, u \in Held : s # u => rd[s].addr # rd[u].addr
    /\ \A s \in Held : rd[s].nblocks = mem.pages[rd[s].addr] * BPP

\* A read or write that reports nblocks copied stays inside the memory of
\* the RAM disk it looked up: the bounds test of ramdisk_read_write_blocks
\* guards memcpy.
TransferInsideDisk ==
    [][\A t \in Threads :
         (pc[t] = "copy" /\ pc'[t] = "idle" /\ ret'[t] > 0)
            => CopyRange(loc[t]) \subseteq DiskBlocks(loc[t].rd)]_allVars

\* create_ramdisk hands back the minor it assigned to the new RAM disk.
CreateReturnsItsMinor ==
    [][\A t \in Threads :
         (pc[t] = "created" /\ pc'[t] = "idle") => ret'[t] = loc[t].minor]_allVars

\* A read or write copies to or from the RAM disk with the minor it was
\* given, which is still live when memcpy runs.
TransferToLiveDisk ==
    [][\A t \in Threads :
         (pc[t] = "copy" /\ pc'[t] = "idle" /\ ret'[t] > 0)
            => loc[t].rd \in Listed /\ rd[loc[t].rd].minor = loc[t].minor]_allVars

=============================================================================
