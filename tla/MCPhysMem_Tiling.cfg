\* realloc_physmem_block with every outcome of the uninitialised h.
CONSTANTS
    NPAGES = 7
    Layout <- MCLayout
    AllocSizes = {1, 2}
    ReallocSizes = {1, 2, 3}
    HChoices = {"next", "other"}
SPECIFICATION Spec
CHECK_DEADLOCK FALSE
INVARIANT Tiling
