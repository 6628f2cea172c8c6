-------------------------------- MODULE MCLibc -------------------------------
(* Model-checking instance of the user-space and kernel library code: the *)
(* heap of a task like compute_pi_task, which mallocs its buffers and     *)
(* frees them, and the pure functions, checked against their references   *)
(* over the inputs below.                                                 *)
EXTENDS UHeap, LibString, WallClock, BigReal

\* The conversions the kernel's format strings use: %u, %d, %s, %.5u and
\* %.3u (system_stat_task), %.02X (ide_driver_test_task), %.08x and %.04x
\* (handle_exception), and %c; plain characters 'a' and ' '.
MCTokens ==
    { Lit(LowA), Lit(SP),
      Conv(CHR_u, -1, FALSE), Conv(CHR_d, -1, FALSE), Conv(CHR_s, -1, FALSE),
      Conv(CHR_c, -1, FALSE), Conv(CHR_u, 5, FALSE), Conv(CHR_u, 3, FALSE),
      Conv(CHR_X, 2, TRUE), Conv(CHR_x, 8, TRUE), Conv(CHR_x, 4, TRUE) }
\* With the escape "%%" as well.
MCTokensEscape == MCTokens \cup {Escape}
MCDArgs == {-42, 0, 5}
MCSArgs == {<<>>, <<LowA, LowA + 1, LowA + 2>>}
MCStrings == UNION {[1 .. k -> {LowA, LowA + 1}] : k \in 0 .. 3}
\* The years 2000 to 2037 (2038 overflows TLC's integers), BCD.
MCRtcYears == {Bcd(y) : y \in 0 .. 37}
MCRtcTimes == {<<Bcd(0), Bcd(0), Bcd(0)>>, <<Bcd(23), Bcd(59), Bcd(59)>>}

\* The library functions' properties are constants, the same in every state
\* of the heap: they are evaluated in the initial state, before the first
\* malloc sets freep, instead of once per state of the heap.
AtBoot == freep = NULL /\ ~killed

\* vsnprintf prints each piece of the format as RefToken says, cut to
\* size - 1 characters, NUL-terminated (VsnprintfMatchesReference).
VsnprintfOK == AtBoot => VsnprintfMatchesReference
\* The descriptions blkdev.c copies with strncpy are terminated strings and
\* strcmp orders strings (CStringsMatchReference).
CStringsOK == AtBoot => CStringsMatchReference
\* init_wall_clock computes the seconds since the Epoch of every valid RTC
\* date up to 2037 (WallClockMatchesReference).
WallClockOK == AtBoot => WallClockMatchesReference
\* The big-real Add, Sub, Mul and Div of main.c compute the arithmetic of
\* the values they stand for (BigRealOpsMatchIntegers).
BigRealOpsOK == AtBoot => BigRealOpsMatchIntegers
\* arccot is arctan(1/p) to within the truncation of its series, and its
\* divisions fit a long (ArccotAccurate).
ArccotOK == AtBoot => ArccotAccurate
\* compute_pi_task's digits of pi are right to six decimals (PiAccurate).
PiOK == AtBoot => PiAccurate
\* strlen returns the number of characters before the NUL (StrlenIsLength).
StrlenOK == AtBoot => StrlenIsLength

=============================================================================
