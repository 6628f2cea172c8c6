\* Two kernel threads and room for two RAM disks in five pages; a page is
\* two blocks and unsigned int 4 bits.  create_ramdisk is asked for 0, 1
\* and 3 blocks, and for 15, which PAGE_ALIGN_SUP wraps to 0 pages.
CONSTANTS
    r1 = r1
    r2 = r2
    t1 = t1
    t2 = t2
    RdSlots = {r1, r2}
    Threads = {t1, t2}
    NPAGES = 5
    Layout <- MCRdLayout
    AllocSizes = {1}
    ReallocSizes = {1}
    HChoices = {"next"}
    BPP = 2
    UINT_BITS = 4
    Lens = {0, 1, 3, 15}
    Minors <- MCMinors
    BlockArgs = {0, 15}
    NBlockArgs = {1, 2}
SPECIFICATION RdSpec
\* A panic halts the machine.
CHECK_DEADLOCK FALSE
PROPERTY TransferInsideDisk
