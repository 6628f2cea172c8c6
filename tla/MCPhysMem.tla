------------------------------ MODULE MCPhysMem ------------------------------
(* The boot layout of init_physmem when the descriptor array fits in      *)
(* conventional memory, scaled down to 7 pages: kernel and descriptors,   *)
(* the hole up to the BIOS area, the BIOS and video area, the hole up to  *)
(* the end of memory.                                                     *)
EXTENDS PhysMem

MCLayout == << <<1, FALSE>>, <<2, TRUE>>, <<1, FALSE>>, <<3, TRUE>> >>
=============================================================================
