\* Allocator checked under the outcome of the uninitialised h in
\* realloc_physmem_block that the code means (h = b->next).
CONSTANTS
    NPAGES = 7
    Layout <- MCLayout
    AllocSizes = {1, 2}
    ReallocSizes = {1, 2, 3}
    HChoices = {"next"}
SPECIFICATION Spec
\* A panic halts the machine: the state after it has no successor.
CHECK_DEADLOCK FALSE
INVARIANT TypeOK
INVARIANT Tiling
INVARIANT Coalesced
INVARIANT OwnedAllocated
