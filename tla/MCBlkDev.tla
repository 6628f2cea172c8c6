------------------------------- MODULE MCBlkDev -------------------------------
EXTENDS BlkDev

CONSTANTS c1, c2

MCClients == {c1, c2}
MCBootMinors == <<0>>
\* c1 writes; c2 reads; both register and unregister.
MCWriters == {c1}
=============================================================================
