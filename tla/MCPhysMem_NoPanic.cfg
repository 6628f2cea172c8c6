\* free_physmem_block on the block that holds the last page of memory.
CONSTANTS
    NPAGES = 7
    Layout <- MCLayout
    AllocSizes = {1, 2}
    ReallocSizes = {1, 2, 3}
    HChoices = {"next"}
SPECIFICATION Spec
CHECK_DEADLOCK FALSE
INVARIANT NoPanic
