------------------------------ MODULE MCRamDisk -------------------------------
(* Five pages: the kernel image, a hole of two pages, the BIOS area and a *)
(* hole of one page, the last page of memory.                             *)
EXTENDS RamDisk

MCRdLayout == << <<1, FALSE>>, <<2, TRUE>>, <<1, FALSE>>, <<1, TRUE>> >>
\* The minors of the first four RAM disks created.
MCMinors == 0 .. 3
=============================================================================
