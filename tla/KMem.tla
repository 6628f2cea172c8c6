-------------------------------- MODULE KMem ---------------------------------
(***************************************************************************)
(* The kernel heap of src/kernel/kmem.c: kmalloc/kfree over slabs of       *)
(* caches of fixed-size objects.                                           *)
(*                                                                         *)
(* A cache is a block of CACHE_SIZE bytes from the physical memory         *)
(* manager; it starts with a struct kmem_cache of CACHE_HDR bytes,         *)
(* followed by objects, each a struct kmem_object header of OBJ_HDR bytes  *)
(* and a slot.  The caches a slab can get are the elements of Caches; the  *)
(* bytes of cache c are [Base(c), Base(c) + CACHE_SIZE).  Byte addresses   *)
(* are kept because the properties are about which bytes an object owns.   *)
(* Both routines run with interrupts disabled: each call is one step.      *)
(***************************************************************************)
EXTENDS Integers, Sequences, SequencesExt, FiniteSets

CONSTANTS
    Caches,        \* blocks the physical memory manager can give as caches
    CACHE_SIZE,    \* NR_PAGES_PER_KMEM_CACHE << PAGE_BIT_SHIFT
    CACHE_HDR,     \* sizeof(struct kmem_cache)
    OBJ_HDR,       \* sizeof(struct kmem_object)
    GRANULARITY,   \* KMEM_CACHE_GRANULARITY
    ReqSizes       \* sizes passed to kmalloc

ASSUME
    /\ Caches \subseteq Nat
    /\ {CACHE_SIZE, CACHE_HDR, OBJ_HDR, GRANULARITY} \subseteq Nat
    /\ ReqSizes \subseteq Nat \ {0}

NoSlab == -1
\* Index of the slab for a request of n bytes: (size - 1) >> granularity.
SlabIdx(n) == (n - 1) \div (2 ^ GRANULARITY)
Slabs == {SlabIdx(n) : n \in ReqSizes}
Base(c) == c * CACHE_SIZE

VARIABLES
    cacheSlab,     \* kmem_cache.slab, NoSlab for a block not yet a cache
    nrFree,        \* kmem_cache.nr_free_objects
    freeList,      \* kmem_cache.free_object_list_head, head first
    slabCaches,    \* kmem_slab.cache_list_head: the slab's caches, head first
    allocated      \* objects held by callers: [obj |-> address, size |-> n]

vars == <<cacheSlab, nrFree, freeList, slabCaches, allocated>>

\* The slot size __kmalloc gives the objects of a new cache of slab idx.
SlotSize(idx) == idx * (2 ^ GRANULARITY)

ObjSize(idx) == OBJ_HDR + SlotSize(idx)

(* The loop initialising the free list of a new cache: one object every   *)
(* object_size bytes from the end of the cache header for as long as the  *)
(* object's address is below the end of the cache.                        *)
RECURSIVE ObjectsFrom(_, _, _)
ObjectsFrom(a, end, step) ==
    IF a >= end THEN <<>> ELSE <<a>> \o ObjectsFrom(a + step, end, step)

\* Mutant of NrFreeInit: the count ignores the cache header.
NrFreeInitNoHdr(idx) == CACHE_SIZE \div ObjSize(idx)

\* cache->nr_free_objects = (cache_size - sizeof(struct kmem_cache)) / object_size
NrFreeInit(idx) == (CACHE_SIZE - CACHE_HDR) \div ObjSize(idx)

\* The cache an object belongs to (object->cache).
CacheOf(a) == a \div CACHE_SIZE

\* The slab's list rotated so that cache c is its head.
RotateTo(s, c) ==
    LET i == CHOOSE k \in DOMAIN s : s[k] = c
    IN  SubSeq(s, i, Len(s)) \o SubSeq(s, 1, i - 1)

\* Mutant of PopObject: list_pop_head returns the head but leaves it queued.
PopObjectNoRemove(c) ==
    /\ nrFree' = [nrFree EXCEPT ![c] = @ - 1]
    /\ freeList' = freeList

\* cache->nr_free_objects--; object = list_pop_head(free_object_list_head)
PopObject(c) ==
    /\ nrFree' = [nrFree EXCEPT ![c] = @ - 1]
    /\ freeList' = [freeList EXCEPT ![c] = Tail(@)]

\* Mutant of KmallocFromHead: the nr_free_objects test is dropped.
KmallocFromHeadNoCheck(n) ==
    LET idx == SlabIdx(n)
        c == Head(slabCaches[idx])
    IN  /\ slabCaches[idx] # <<>>
        /\ PopObject(c)
        /\ allocated' = allocated \cup {[obj |-> Head(freeList[c]), size |-> n]}
        /\ UNCHANGED <<cacheSlab, slabCaches>>

(***************************************************************************)
(* __kmalloc(n), when the head cache of the slab has a free object.        *)
(***************************************************************************)
KmallocFromHead(n) ==
    LET idx == SlabIdx(n)
        c == Head(slabCaches[idx])
    IN  /\ slabCaches[idx] # <<>>
        /\ nrFree[c] # 0
        /\ PopObject(c)
        /\ allocated' = allocated \cup {[obj |-> Head(freeList[c]), size |-> n]}
        /\ UNCHANGED <<cacheSlab, slabCaches>>

(***************************************************************************)
(* __kmalloc(n), when the slab has no cache or its head cache is full: a   *)
(* new cache is taken from the physical memory manager (if it has none,    *)
(* kmalloc returns NULL and nothing changes), its objects are laid out,    *)
(* it becomes the head of the slab and its first object is handed out.     *)
(***************************************************************************)
KmallocNewCache(n) ==
    LET idx == SlabIdx(n)
        objs(c) == ObjectsFrom(Base(c) + CACHE_HDR, Base(c) + CACHE_SIZE,
                               ObjSize(idx))
    IN  /\ IF slabCaches[idx] = <<>> THEN TRUE
           ELSE nrFree[Head(slabCaches[idx])] = 0
        /\ \E c \in Caches :
              /\ cacheSlab[c] = NoSlab
              /\ cacheSlab' = [cacheSlab EXCEPT ![c] = idx]
              /\ slabCaches' = [slabCaches EXCEPT ![idx] = <<c>> \o @]
              /\ nrFree' = [nrFree EXCEPT ![c] = NrFreeInit(idx) - 1]
              /\ freeList' = [freeList EXCEPT ![c] = Tail(objs(c))]
              /\ allocated' = allocated \cup {[obj |-> Head(objs(c)), size |-> n]}

(***************************************************************************)
(* kfree(ptr): the object goes back to the tail of its cache's free list   *)
(* and the cache becomes the head of its slab.                             *)
(***************************************************************************)
Kfree(o) ==
    LET c == CacheOf(o.obj)
        idx == cacheSlab[c]
    IN  /\ o \in allocated
        /\ freeList' = [freeList EXCEPT ![c] = Append(@, o.obj)]
        /\ nrFree' = [nrFree EXCEPT ![c] = @ + 1]
        /\ slabCaches' = [slabCaches EXCEPT ![idx] = RotateTo(@, c)]
        /\ allocated' = allocated \ {o}
        /\ UNCHANGED cacheSlab

Init ==
    /\ cacheSlab = [c \in Caches |-> NoSlab]
    /\ nrFree = [c \in Caches |-> 0]
    /\ freeList = [c \in Caches |-> <<>>]
    /\ slabCaches = [i \in Slabs |-> <<>>]
    /\ allocated = {}

Next ==
    \/ \E n \in ReqSizes : KmallocFromHead(n) \/ KmallocNewCache(n)
    \/ \E o \in allocated : Kfree(o)

Spec == Init /\ [][Next]_vars

-----------------------------------------------------------------------------
TypeOK ==
    /\ cacheSlab \in [Caches -> Slabs \cup {NoSlab}]
    /\ nrFree \in [Caches -> Nat]
    /\ freeList \in [Caches -> Seq(Nat)]
    /\ slabCaches \in [Slabs -> Seq(Caches)]
    /\ \A o \in allocated : o.obj \in Nat /\ o.size \in ReqSizes

FreeObjects == UNION {ToSet(freeList[c]) : c \in Caches}
Held == {o.obj : o \in allocated}

(* No object is handed out twice: an object is held by at most one caller, *)
(* appears at most once in a free list, and is never both free and held.   *)
ObjectsAccounted ==
    /\ \A c \in Caches : IsInjective(freeList[c])
    /\ \A o1, o2 \in allocated : o1.obj = o2.obj => o1 = o2
    /\ FreeObjects \cap Held = {}

(* nr_free_objects never exceeds the free list: the list_pop_head of a     *)
(* kmalloc that finds nr_free_objects > 0 always finds an object.          *)
NrFreeBounded == \A c \in Caches : nrFree[c] <= Len(freeList[c])

(* Every object handed out lies, header and slot, inside its cache.       *)
AllocatedInsideCache ==
    \A o \in allocated :
        o.obj + ObjSize(cacheSlab[CacheOf(o.obj)]) <= Base(CacheOf(o.obj)) + CACHE_SIZE

(* The n bytes kmalloc(n) hands out overlap no other object's header or   *)
(* bytes: each caller owns what it asked for.                             *)
NoOverlap ==
    \A o \in allocated, a \in Held \cup FreeObjects :
        a # o.obj => (a < o.obj \/ a >= o.obj + OBJ_HDR + o.size)

(* The design comment of kmem.c: the cache at the head of a slab always   *)
(* has a free object, so that kmalloc never needs to look further.  Its   *)
(* consequence as a step: kmalloc only takes a new cache from physical    *)
(* memory when no cache of the slab has a free object.                    *)
NoNeedlessCache ==
    [][\A i \in Slabs :
         Len(slabCaches'[i]) > Len(slabCaches[i]) =>
             \A c \in ToSet(slabCaches[i]) : nrFree[c] = 0]_vars
=============================================================================
