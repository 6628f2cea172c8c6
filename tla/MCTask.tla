-------------------------------- MODULE MCTask --------------------------------
(* The boot of simplix_main scaled down: one boot thread that exits, the  *)
(* kernel image in the first page, the rest of memory a hole.             *)
EXTENDS Task

CONSTANTS s1, s2, s3, s4, s5

MCSlots == {s1, s2, s3, s4, s5}
MCLayout == << <<1, FALSE>>, <<7, TRUE>> >>
MCBootThreads == <<"kt_exit">>
=============================================================================
