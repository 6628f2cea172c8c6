\* Two threads on an IDE disk of 3 blocks of 4 bytes registered at boot as
\* minor 0; room for 2 instance objects; the driver moves at most 2 blocks
\* per call; unsigned ints of 3 bits.
CONSTANTS
    c1 = c1
    c2 = c2
    Clients <- MCClients
    Writers = {}
    Minors = {0}
    Insts = {1, 2}
    BootMinors <- MCBootMinors
    BS = 4
    CAP = 3
    MAX_NBLOCKS = 2
    Offsets = {0, 2, 5}
    Lens = {1, 6}
    UINT_BITS = 3
    REFCNT_BOUND = 3
SPECIFICATION Spec
INVARIANT UniqueMinor
