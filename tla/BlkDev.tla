------------------------------- MODULE BlkDev --------------------------------
(***************************************************************************)
(* The generic block device layer of src/kernel/blkdev.c: the instance     *)
(* registry with its reference counts, and blkdev_read/blkdev_write, which *)
(* split a byte range into a partial head block, a run of whole blocks and *)
(* a partial tail block.                                                   *)
(*                                                                         *)
(* One device class (the IDE disks).  An instance is a kmalloc'ed object, *)
(* one of Insts; the class's instance list holds the registered ones.      *)
(* Each of the Clients is a kernel thread issuing requests, registering or *)
(* unregistering instances.  A request is cut into steps at  *)
(* its driver calls: the IDE driver sleeps on the controller, so other     *)
(* clients run between two calls.  The code between two driver calls only *)
(* touches the request's locals and, at the end, the reference count       *)
(* under disable_hwint, so it belongs to the step of the call before it.   *)
(*                                                                         *)
(* The data is abstracted to which byte moves where: copies[c] is the set  *)
(* of pairs <<p, a>> such that byte p of the caller's buffer was copied    *)
(* from (read) or to (write) byte a of the device.  A write also changes  *)
(* the device: disk[a] is the client whose current or last write stored   *)
(* byte a, or Older for data that write did not store (its start ages the *)
(* data of the client's earlier writes).  Its partial                     *)
(* head and tail blocks are a read-modify-write, two driver calls with the *)
(* block kept in tmp between them; its whole blocks are the steps of a     *)
(* read, storing the client's data.                                        *)
(***************************************************************************)
EXTENDS Integers, Sequences, SequencesExt, FiniteSets

CONSTANTS
    Clients,        \* tasks calling the block device layer
    Writers,        \* the clients that call blkdev_write; the others call blkdev_read
    Minors,         \* minor numbers
    Insts,          \* blkdev_instance objects kmalloc can give, 1..n
    BootMinors,     \* the minors registered at boot, in order
    BS,             \* dev->block_size
    CAP,            \* dev->capacity, in blocks
    MAX_NBLOCKS,    \* the driver's clamp of one transfer (ide.c)
    Offsets,        \* byte offsets of requests
    Lens,           \* byte lengths of requests
    UINT_BITS,      \* width of the unsigned int locals block and nblocks
    REFCNT_BOUND    \* bound on refcnt, to keep the state space finite

ASSUME
    /\ {BS, CAP, MAX_NBLOCKS, UINT_BITS, REFCNT_BOUND} \subseteq Nat \ {0}
    /\ Offsets \subseteq Nat /\ Lens \subseteq Nat \ {0}
    /\ BootMinors \in Seq(Minors) /\ 1..Len(BootMinors) \subseteq Insts

UINT_MOD == 2 ^ UINT_BITS
Rets == [call : {"none", "io", "reg", "unreg"},
         val : {"none", "ok", "fail", "busy", "inval", "nomem"}]

VARIABLES
    list,           \* drv->instance_list_head, in list order
    minorOf,        \* blkdev_instance.minor
    refcnt,         \* blkdev_instance.refcnt
    req,            \* each client's request: the locals of blkdev_read/write
    copies,         \* bytes moved by the client's current or last request
    ret,            \* what the client's last call returned
    disk            \* disk[a]: the client whose current or last write stored byte a

vars == <<list, minorOf, refcnt, req, copies, ret, disk>>

Older == "older"    \* data stored before the current or last write of any client
Bytes == 0 .. (CAP * BS - 1)
\* The block b as a driver read returns it.
Fetch(b) == [i \in 0 .. (BS - 1) |-> disk[b * BS + i]]
\* The device after a driver write of data to block b.
Store(b, data) ==
    [a \in Bytes |-> IF a \div BS = b THEN data[a % BS] ELSE disk[a]]

\* The index in the list of the instance get_blkdev_instance finds: the
\* first one of minor m, or 0.
Lookup(m) == SelectInSeq(list, LAMBDA i : minorOf[i] = m)

\* The temporary block buffer when none is allocated (kfree'd).
NoTmp == [i \in 0 .. (BS - 1) |-> Older]

IdleReq(r) == [r EXCEPT !.pc = "idle", !.block = 0, !.nblocks = 0,
                        !.delta = 0, !.pos = 0, !.tmp = NoTmp]

(***************************************************************************)
(* A driver call for n blocks from block b (ide_read_write_blocks): it     *)
(* clamps n to MAX_NBLOCKS, refuses a transfer past the capacity, and      *)
(* otherwise transfers all the blocks or, on a timeout or a device error,  *)
(* none.  The set of the numbers of blocks it may return.                  *)
(***************************************************************************)
Driver(b, n) ==
    LET k == IF n > MAX_NBLOCKS THEN MAX_NBLOCKS ELSE n
    IN  {0} \cup (IF b + k <= CAP THEN {k} ELSE {})

\* memcpy of k bytes between buffer position pos and device byte addr.
Moved(pos, addr, k) == {<<pos + i, addr + i>> : i \in 0..(k - 1)}

\* Mutant of AfterHead: nblocks is computed from the request's first block.
AfterHeadFromStart(r) ==
    [r EXCEPT !.nblocks = ((r.offset + r.len) \div BS - r.offset \div BS) % UINT_MOD,
              !.delta = (r.offset + r.len) % BS]

(* After the head: nblocks = (offset + len) / block_size - block, wrapped  *)
(* to an unsigned int, and delta = (offset + len) % block_size.           *)
AfterHead(r) ==
    [r EXCEPT !.nblocks = ((r.offset + r.len) \div BS - r.block) % UINT_MOD,
              !.delta = (r.offset + r.len) % BS]

\* Mutant of Finish: the instance is not released.
FinishNoRelease(c, v, rc) ==
    /\ refcnt' = rc
    /\ req' = [req EXCEPT ![c] = IdleReq(@)]
    /\ ret' = [ret EXCEPT ![c] = [call |-> "io", val |-> v]]

\* release_blkdev_instance and the return of blkdev_read/blkdev_write.
Finish(c, v, rc) ==
    /\ refcnt' = [rc EXCEPT ![req[c].dev] = @ - 1]
    /\ req' = [req EXCEPT ![c] = IdleReq(@)]
    /\ ret' = [ret EXCEPT ![c] = [call |-> "io", val |-> v]]

(* Where the code goes once the locals are r and the reference counts rc: *)
(* another driver call for the whole blocks, the tail block, or the       *)
(* return.                                                                *)
Continue(c, r, rc) ==
    CASE r.nblocks # 0 ->
           /\ req' = [req EXCEPT ![c] = [r EXCEPT !.pc = "mid"]]
           /\ refcnt' = rc
           /\ UNCHANGED ret
      [] r.delta # 0 ->
           /\ req' = [req EXCEPT ![c] = [r EXCEPT !.pc = "tail"]]
           /\ refcnt' = rc
           /\ UNCHANGED ret
      [] OTHER -> Finish(c, "ok", rc)

(***************************************************************************)
(* The start of blkdev_read/blkdev_write: get_blkdev_instance (which       *)
(* increments the reference count) and the block and offset of the first  *)
(* byte.  An unknown minor returns -E_INVALIDARG.                          *)
(***************************************************************************)
Start(c, m, off, len, w) ==
    /\ req[c].pc = "idle"
    /\ IF Lookup(m) # 0
       THEN LET d == list[Lookup(m)]
                r == [minor |-> m, dev |-> d, offset |-> off,
                      len |-> len, pc |-> "head", block |-> off \div BS,
                      delta |-> off % BS, nblocks |-> 0, pos |-> 0,
                      w |-> w, tmp |-> NoTmp]
            IN  /\ copies' = [copies EXCEPT ![c] = {}]
                /\ disk' = IF w THEN [a \in Bytes |-> IF disk[a] = c THEN Older ELSE disk[a]]
                           ELSE disk
                /\ IF r.delta # 0
                   THEN /\ req' = [req EXCEPT ![c] = r]
                        /\ refcnt' = [refcnt EXCEPT ![d] = @ + 1]
                        /\ UNCHANGED ret
                   ELSE Continue(c, AfterHead(r), [refcnt EXCEPT ![d] = @ + 1])
       ELSE /\ ret' = [ret EXCEPT ![c] = [call |-> "io", val |-> "inval"]]
            /\ UNCHANGED <<refcnt, req, copies, disk>>
    /\ UNCHANGED <<list, minorOf>>

(***************************************************************************)
(* The partial head block of a read: read the block into a temporary     *)
(* buffer and copy block_size - delta bytes out of it.  The __kmalloc of  *)
(* the temporary is taken to succeed.                                     *)
(***************************************************************************)
HeadBlock(c) ==
    LET r == req[c]
    IN  /\ r.pc = "head" /\ ~r.w
        /\ \E n \in Driver(r.block, 1) :
              IF n = 0
              THEN Finish(c, "fail", refcnt) /\ UNCHANGED copies
              ELSE /\ copies' = [copies EXCEPT ![c] =
                                   @ \cup Moved(0, r.block * BS + r.delta, BS - r.delta)]
                   /\ Continue(c, AfterHead([r EXCEPT !.pos = BS - r.delta,
                                                      !.block = @ + 1]), refcnt)
        /\ UNCHANGED <<list, minorOf, disk>>

\* The head of a write, first driver call: read the block into tmp.
HeadFetch(c) ==
    LET r == req[c]
    IN  /\ r.pc = "head" /\ r.w
        /\ \E n \in Driver(r.block, 1) :
              IF n = 0
              THEN Finish(c, "fail", refcnt)
              ELSE /\ req' = [req EXCEPT ![c] = [r EXCEPT !.pc = "headw",
                                                          !.tmp = Fetch(r.block)]]
                   /\ UNCHANGED <<refcnt, ret>>
        /\ UNCHANGED <<list, minorOf, copies, disk>>

\* Mutant of HeadStore: the data is copied to the start of tmp, not tmp + delta.
HeadStoreAtZero(c) ==
    LET r == req[c]
    IN  /\ r.pc = "headw"
        /\ \E n \in Driver(r.block, 1) :
              IF n = 0
              THEN Finish(c, "fail", refcnt) /\ UNCHANGED <<copies, disk>>
              ELSE /\ disk' = Store(r.block, [i \in 0 .. (BS - 1) |->
                                    IF i < BS - r.delta THEN c ELSE r.tmp[i]])
                   /\ copies' = [copies EXCEPT ![c] =
                                   @ \cup Moved(0, r.block * BS + r.delta, BS - r.delta)]
                   /\ Continue(c, AfterHead([r EXCEPT !.pos = BS - r.delta,
                                                      !.block = @ + 1,
                                                      !.tmp = NoTmp]), refcnt)
        /\ UNCHANGED <<list, minorOf>>

(* Second driver call: memcpy(tmp + delta, src, block_size - delta) and   *)
(* write tmp back.  Bytes before delta go back as they were read, whoever *)
(* has written them since.                                                *)
HeadStore(c) ==
    LET r == req[c]
    IN  /\ r.pc = "headw"
        /\ \E n \in Driver(r.block, 1) :
              IF n = 0
              THEN Finish(c, "fail", refcnt) /\ UNCHANGED <<copies, disk>>
              ELSE /\ disk' = Store(r.block, [i \in 0 .. (BS - 1) |->
                                    IF i >= r.delta THEN c ELSE r.tmp[i]])
                   /\ copies' = [copies EXCEPT ![c] =
                                   @ \cup Moved(0, r.block * BS + r.delta, BS - r.delta)]
                   /\ Continue(c, AfterHead([r EXCEPT !.pos = BS - r.delta,
                                                      !.block = @ + 1,
                                                      !.tmp = NoTmp]), refcnt)
        /\ UNCHANGED <<list, minorOf>>

\* The device after a driver write of n whole blocks from block b by c.
Written(c, b, n) == [a \in Bytes |-> IF a \div BS \in b .. (b + n - 1) THEN c ELSE disk[a]]

(* One iteration of the loop over whole blocks: the driver transfers n    *)
(* blocks straight between the device and the caller's buffer.            *)
Mid(c) ==
    LET r == req[c]
    IN  /\ r.pc = "mid"
        /\ \E n \in Driver(r.block, r.nblocks) :
              IF n = 0
              THEN Finish(c, "fail", refcnt) /\ UNCHANGED <<copies, disk>>
              ELSE /\ disk' = IF r.w THEN Written(c, r.block, n) ELSE disk
                   /\ copies' = [copies EXCEPT ![c] =
                                   @ \cup Moved(r.pos, r.block * BS, n * BS)]
                   /\ Continue(c, [r EXCEPT !.pos = @ + n * BS,
                                            !.nblocks = (@ - n) % UINT_MOD,
                                            !.block = (@ + n) % UINT_MOD], refcnt)
        /\ UNCHANGED <<list, minorOf>>

(* The partial tail block of a read: the first delta bytes of the block. *)
TailBlock(c) ==
    LET r == req[c]
    IN  /\ r.pc = "tail" /\ ~r.w
        /\ \E n \in Driver(r.block, 1) :
              /\ copies' = IF n = 0 THEN copies
                           ELSE [copies EXCEPT ![c] =
                                   @ \cup Moved(r.pos, r.block * BS, r.delta)]
              /\ Finish(c, IF n = 0 THEN "fail" ELSE "ok", refcnt)
        /\ UNCHANGED <<list, minorOf, disk>>

\* The tail of a write, first driver call: read the block into tmp.
TailFetch(c) ==
    LET r == req[c]
    IN  /\ r.pc = "tail" /\ r.w
        /\ \E n \in Driver(r.block, 1) :
              IF n = 0
              THEN Finish(c, "fail", refcnt)
              ELSE /\ req' = [req EXCEPT ![c] = [r EXCEPT !.pc = "tailw",
                                                          !.tmp = Fetch(r.block)]]
                   /\ UNCHANGED <<refcnt, ret>>
        /\ UNCHANGED <<list, minorOf, copies, disk>>

(* Second driver call: memcpy(tmp, src, delta) and write tmp back.        *)
TailStore(c) ==
    LET r == req[c]
    IN  /\ r.pc = "tailw"
        /\ \E n \in Driver(r.block, 1) :
              /\ disk' = IF n = 0 THEN disk
                         ELSE Store(r.block, [i \in 0 .. (BS - 1) |->
                                 IF i < r.delta THEN c ELSE r.tmp[i]])
              /\ copies' = IF n = 0 THEN copies
                           ELSE [copies EXCEPT ![c] =
                                   @ \cup Moved(r.pos, r.block * BS, r.delta)]
              /\ Finish(c, IF n = 0 THEN "fail" ELSE "ok", refcnt)
        /\ UNCHANGED <<list, minorOf>>

\* Mutant of Unregister: the busy test is against 2 instead of 1.
UnregisterOffByOne(c, m) ==
    LET k == Lookup(m)
    IN  /\ req[c].pc = "idle"
        /\ IF k = 0
           THEN /\ ret' = [ret EXCEPT ![c] = [call |-> "unreg", val |-> "inval"]]
                /\ UNCHANGED <<list, refcnt>>
           ELSE /\ refcnt[list[k]] < REFCNT_BOUND
                /\ IF refcnt[list[k]] + 1 > 2
                   THEN /\ refcnt' = [refcnt EXCEPT ![list[k]] = @ + 1]
                        /\ ret' = [ret EXCEPT ![c] = [call |-> "unreg", val |-> "busy"]]
                        /\ UNCHANGED list
                   ELSE /\ list' = RemoveAt(list, k)
                        /\ ret' = [ret EXCEPT ![c] = [call |-> "unreg", val |-> "ok"]]
                        /\ UNCHANGED refcnt
        /\ UNCHANGED <<minorOf, req, copies, disk>>

(***************************************************************************)
(* unregister_blkdev_instance, all under disable_hwint: look the instance  *)
(* up (incrementing its count); if someone else holds it, return -E_BUSY   *)
(* (the count stays incremented); otherwise unlink and free it.            *)
(***************************************************************************)
Unregister(c, m) ==
    LET k == Lookup(m)
    IN  /\ req[c].pc = "idle"
        /\ IF k = 0
           THEN /\ ret' = [ret EXCEPT ![c] = [call |-> "unreg", val |-> "inval"]]
                /\ UNCHANGED <<list, refcnt>>
           ELSE /\ refcnt[list[k]] < REFCNT_BOUND
                /\ IF refcnt[list[k]] + 1 > 1
                   THEN /\ refcnt' = [refcnt EXCEPT ![list[k]] = @ + 1]
                        /\ ret' = [ret EXCEPT ![c] = [call |-> "unreg", val |-> "busy"]]
                        /\ UNCHANGED list
                   ELSE /\ list' = RemoveAt(list, k)
                        /\ ret' = [ret EXCEPT ![c] = [call |-> "unreg", val |-> "ok"]]
                        /\ UNCHANGED refcnt
        /\ UNCHANGED <<minorOf, req, copies, disk>>

(***************************************************************************)
(* register_blkdev_instance, first step: get_blkdev_instance; an instance  *)
(* of that minor already registered is released and S_OK returned.        *)
(* Otherwise the thread goes on, with interrupts enabled again, to         *)
(* allocate and append a new instance.                                     *)
(***************************************************************************)
Register(c, m) ==
    /\ req[c].pc = "idle"
    /\ IF Lookup(m) # 0
       THEN /\ ret' = [ret EXCEPT ![c] = [call |-> "reg", val |-> "ok"]]
            /\ UNCHANGED req
       ELSE /\ req' = [req EXCEPT ![c].pc = "reg", ![c].minor = m]
            /\ UNCHANGED ret
    /\ UNCHANGED <<list, minorOf, refcnt, copies, disk>>

(* Second step: __kmalloc the instance (-E_NOMEM if none is left), set its *)
(* fields with refcnt 0, and list_append it under disable_hwint.          *)
RegisterAppend(c) ==
    LET free == Insts \ ToSet(list)
    IN  /\ req[c].pc = "reg"
        /\ IF free = {}
           THEN /\ ret' = [ret EXCEPT ![c] = [call |-> "reg", val |-> "nomem"]]
                /\ UNCHANGED <<list, minorOf, refcnt>>
           ELSE \E i \in free :
                   /\ list' = Append(list, i)
                   /\ minorOf' = [minorOf EXCEPT ![i] = req[c].minor]
                   /\ refcnt' = [refcnt EXCEPT ![i] = 0]
                   /\ ret' = [ret EXCEPT ![c] = [call |-> "reg", val |-> "ok"]]
        /\ req' = [req EXCEPT ![c].pc = "idle"]
        /\ UNCHANGED <<copies, disk>>

Init ==
    /\ list = [k \in 1..Len(BootMinors) |-> k]
    /\ minorOf = [i \in Insts |-> IF i \in DOMAIN BootMinors THEN BootMinors[i]
                                  ELSE CHOOSE m \in Minors : TRUE]
    /\ refcnt = [i \in Insts |-> 0]
    /\ req = [c \in Clients |->
                [minor |-> CHOOSE m \in Minors : TRUE,
                 dev |-> CHOOSE i \in Insts : TRUE, offset |-> 0, len |-> 0,
                 pc |-> "idle", block |-> 0, delta |-> 0, nblocks |-> 0, pos |-> 0,
                 w |-> FALSE, tmp |-> NoTmp]]
    /\ copies = [c \in Clients |-> {}]
    /\ ret = [c \in Clients |-> [call |-> "none", val |-> "none"]]
    /\ disk = [a \in Bytes |-> Older]

\* The steps of a call in progress, each ending at a driver call or a
\* point where the thread may be preempted.
RequestStep(c) ==
    \/ HeadBlock(c) \/ HeadFetch(c) \/ HeadStore(c) \/ Mid(c)
    \/ TailBlock(c) \/ TailFetch(c) \/ TailStore(c) \/ RegisterAppend(c)

Next ==
    \/ \E c \in Clients, m \in Minors, off \in Offsets, len \in Lens :
          Start(c, m, off, len, c \in Writers)
    \/ \E c \in Clients : RequestStep(c)
    \/ \E c \in Clients, m \in Minors : Register(c, m) \/ Unregister(c, m)

(* No fairness: a driver call may never return (ide_read_write_blocks can *)
(* sleep forever in kmutex_lock or in ksema_down on io_sema, see the IDE   *)
(* module), so nothing forces a request to end.                            *)
Spec == Init /\ [][Next]_vars

-----------------------------------------------------------------------------
TypeOK ==
    /\ list \in Seq(Insts)
    /\ minorOf \in [Insts -> Minors]
    /\ refcnt \in [Insts -> 0..(REFCNT_BOUND + Cardinality(Clients))]
    /\ \A c \in Clients :
          /\ req[c].pc \in {"idle", "reg", "head", "headw", "mid", "tail", "tailw"}
          /\ req[c].minor \in Minors /\ req[c].dev \in Insts
          /\ req[c].nblocks \in 0..(UINT_MOD - 1)
    /\ ret \in [Clients -> Rets]
    /\ disk \in [Bytes -> Clients \cup {Older}]

InRequest(c) == req[c].pc \in {"head", "headw", "mid", "tail", "tailw"}
Users(i) == {c \in Clients : InRequest(c) /\ req[c].dev = i}
\* The pairs a request of len bytes at offset moves: byte p <-> offset + p.
Reference(r) == {<<p, r.offset + p>> : p \in 0..(r.len - 1)}

(* unregister never frees an instance a read or write is still using.    *)
NoUseAfterFree == \A c \in Clients : InRequest(c) => req[c].dev \in ToSet(list)

(* A read or write that returns S_OK has moved exactly the bytes of the   *)
(* request, each to its place (the round trip of the design, property 9). *)
OkMeansExact == \A c \in Clients : req[c].pc = "idle" /\ ret[c] = [call |-> "io", val |-> "ok"] =>
                                     copies[c] = Reference(req[c])

(* No request moves a byte outside the caller's buffer or outside the     *)
(* requested range of the device, whatever it returns.                    *)
MovesWithinRequest == \A c \in Clients : copies[c] \subseteq Reference(req[c])

(* At rest, when no read or write is using it, a registered instance has  *)
(* reference count 0 (property 8 of the design): every get_blkdev_instance *)
(* is matched by a release_blkdev_instance.                               *)
RefcntZeroAtRest == \A k \in DOMAIN list : Users(list[k]) = {} => refcnt[list[k]] = 0

(* A minor is registered at most once: get_blkdev_instance finds the only *)
(* instance of a minor.                                                   *)
UniqueMinor == \A j, k \in DOMAIN list : minorOf[list[j]] = minorOf[list[k]] => j = k

(* A write that returns S_OK can be read back (S6 of the design): each    *)
(* byte of its range holds the writer's data, while no other thread       *)
(* writes.  The partial head and tail blocks, read, patched at delta and  *)
(* written back, and the whole blocks between them, cover the range.     *)
RoundTrip ==
    \A c \in Clients :
        (req[c].pc = "idle" /\ req[c].w /\ ret[c] = [call |-> "io", val |-> "ok"])
            => \A p \in 0 .. (req[c].len - 1) : disk[req[c].offset + p] = c
=============================================================================
