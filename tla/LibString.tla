------------------------------ MODULE LibString -----------------------------
(***************************************************************************)
(* The string functions of src/lib/string.c as operators on sequences of   *)
(* character codes (ASCII), each beside a reference definition of what it  *)
(* should compute.  A C string is the sequence of its characters without   *)
(* the terminating NUL; what a function writes is the sequence of bytes it *)
(* stores from the destination pointer on, the NUL included.               *)
(***************************************************************************)
EXTENDS Integers, Sequences

CONSTANTS
    Tokens,     \* the pieces formats are made of (RefToken below)
    MaxTokens,  \* the longest format, in pieces
    Sizes,      \* the buffer sizes passed to vsnprintf
    UArgs,      \* the values passed for %u, %x and %X
    DArgs,      \* the values passed for %d
    SArgs,      \* the strings passed for %s
    CArgs,      \* the characters passed for %c
    Strings,    \* the C strings given to strncpy, strcmp and strlen
    DescLen     \* MAX_DESCRIPTION_LENGTH (blkdev.c)

NUL == 0
SP == 32
MINUS == 45
PCT == 37
DOT == 46
ZERO == 48
NINE == 57
LowA == 97
UpA == 65
CHR_c == 99
CHR_s == 115
CHR_u == 117
CHR_d == 100
CHR_x == 120
CHR_X == 88

\* The largest size_t TLC can represent: size - 1 for size = 0 wraps to
\* SIZE_MAX, which no output reaches.
SIZE_MAX == 2147483647

-----------------------------------------------------------------------------
(* vsnprintf.  The state of the loop: the format index i, the next        *)
(* argument ai, minwidth and zeropad, the bytes written so far and count; *)
(* stop is the goto end of OUTPUTCHAR.                                    *)

\* Mutant: the stop test one character late.
Out1StopLate(st, c, size) ==
    LET lim == IF size = 0 THEN SIZE_MAX ELSE size - 1 IN
    [st EXCEPT !.out = @ \o <<c>>, !.count = @ + 1,
               !.stop = st.count + 1 > lim]

\* OUTPUTCHAR(c): store c, count it, stop when count reaches size - 1.
Out1(st, c, size) ==
    LET lim == IF size = 0 THEN SIZE_MAX ELSE size - 1 IN
    [st EXCEPT !.out = @ \o <<c>>, !.count = @ + 1,
               !.stop = st.count + 1 >= lim]

RECURSIVE Emit(_, _, _)
Emit(st, s, size) ==
    IF s = <<>> \/ st.stop THEN st ELSE Emit(Out1(st, Head(s), size), Tail(s), size)

\* The do-while digit loop: the digits of n in base b, most significant first.
RECURSIVE Digits(_, _)
Digits(n, b) == IF n < b THEN <<n>> ELSE Digits(n \div b, b) \o <<n % b>>

\* '0' + d, or the letter of a hexadecimal digit in the case of the conversion.
DigitChar(d, conv) ==
    CASE d < 10 -> ZERO + d
      [] conv = CHR_x -> LowA + d - 10
      [] OTHER -> UpA + d - 10

\* while (--minwidth >= i) OUTPUTCHAR(zeropad ? '0' : ' ');
Padding(st, nd) ==
    [k \in 1 .. (IF st.minwidth > nd THEN st.minwidth - nd ELSE 0) |->
        IF st.zeropad THEN ZERO ELSE SP]

\* The cases 'u', 'd', 'x' and 'X': sign, padding, digits; minwidth = -1.
Number(st, conv, n, size) ==
    LET neg == conv = CHR_d /\ n < 0
        s1 == IF neg THEN Emit(st, <<MINUS>>, size) ELSE st
        m == IF neg THEN -n ELSE n
        ds == Digits(m, IF conv \in {CHR_x, CHR_X} THEN 16 ELSE 10)
        s2 == Emit(s1, Padding(st, Len(ds)) \o [k \in DOMAIN ds |-> DigitChar(ds[k], conv)], size)
    IN [s2 EXCEPT !.minwidth = -1]

\* The '.' case: scan the digits after the dot; a conversion letter after
\* them moves i onto it.  zeropad when the first digit is '0'.
RECURSIVE DotScan(_, _, _)
DotScan(fmt, j, st) ==
    LET c == fmt[j] IN
    CASE c = NUL -> st
      [] c >= ZERO /\ c <= NINE ->
            DotScan(fmt, j + 1,
                    [st EXCEPT !.minwidth = 10 * @ + c - ZERO,
                               !.zeropad = @ \/ (c = ZERO /\ j + 1 = st.i + 1)])
      [] c \in {CHR_u, CHR_d, CHR_x, CHR_X} -> [st EXCEPT !.i = j]
      [] OTHER -> st

Dot(fmt, st, size) ==
    LET s1 == DotScan(fmt, st.i, [st EXCEPT !.minwidth = 0, !.zeropad = FALSE]) IN
    IF s1.minwidth = -1 THEN Emit(s1, <<PCT, DOT>>, size) ELSE s1

\* The switch on the conversion character c.
Conversion(fmt, args, st, c, size) ==
    CASE c = PCT -> Emit(st, <<PCT, PCT>>, size)
      [] c = CHR_c -> Emit([st EXCEPT !.ai = @ + 1], <<args[st.ai]>>, size)
      [] c = CHR_s -> Emit([st EXCEPT !.ai = @ + 1], args[st.ai], size)
      [] c = DOT -> Dot(fmt, st, size)
      [] c \in {CHR_u, CHR_d, CHR_x, CHR_X} ->
            Number([st EXCEPT !.ai = @ + 1], c, args[st.ai], size)
      [] OTHER -> Emit(st, <<PCT, c>>, size)

\* The main loop: a plain character is copied while no minwidth is
\* pending; '%' reads the conversion character after it.
RECURSIVE FormatLoop(_, _, _, _)
FormatLoop(fmt, args, st, size) ==
    LET c0 == fmt[st.i] IN
    CASE st.stop \/ c0 = NUL -> st
      [] st.minwidth = -1 /\ c0 # PCT ->
            FormatLoop(fmt, args, Emit([st EXCEPT !.i = @ + 1], <<c0>>, size), size)
      [] st.minwidth = -1 ->
            FormatLoop(fmt, args,
                Conversion(fmt, args, [st EXCEPT !.i = @ + 2], fmt[st.i + 1], size), size)
      [] OTHER ->
            FormatLoop(fmt, args,
                Conversion(fmt, args, [st EXCEPT !.i = @ + 1], c0, size), size)

\* vsnprintf(str, size, format, ap), with format a C string and args the
\* values va_arg reads: the bytes stored at str and the value returned.
Vsnprintf(format, args, size) ==
    LET fmt == format \o <<NUL>>
        st == FormatLoop(fmt, args,
                  [i |-> 1, ai |-> 1, minwidth |-> -1, zeropad |-> FALSE,
                   out |-> <<>>, count |-> 0, stop |-> FALSE], size)
    IN [out |-> st.out \o <<NUL>>, ret |-> st.count + 1]

\* snprintf passes its arguments on and returns what vsnprintf returns.
Snprintf(size, format, args) == Vsnprintf(format, args, size)

-----------------------------------------------------------------------------
\* strlen: the loop stops after stepping over the NUL.
Strlen(str) ==
    LET s == str \o <<NUL>>
        RECURSIVE Walk(_)
        Walk(k) == IF s[k] # NUL THEN Walk(k + 1) ELSE k + 1
    IN Walk(1) - 1

\* strncpy: the first n bytes of dest, src then NULs.
Strncpy(src, n) ==
    [k \in 1 .. n |-> IF k <= Len(src) THEN src[k] ELSE NUL]

\* strcmp: the difference of the first bytes that differ, 0 at a common NUL.
Strcmp(str1, str2) ==
    LET s1 == str1 \o <<NUL>>
        s2 == str2 \o <<NUL>>
        RECURSIVE Walk(_)
        Walk(k) == CASE s1[k] # s2[k] -> s1[k] - s2[k]
                     [] s1[k] = NUL -> 0
                     [] OTHER -> Walk(k + 1)
    IN Walk(1)

\* Mutant: strncpy alone, without the terminating store.
DescriptionCopyNoTerm(src, n) == Strncpy(src, n)

\* register_blkdev_class and register_blkdev_instance: strncpy into the
\* description array, then its last byte set to NUL.
DescriptionCopy(src, n) == [Strncpy(src, n) EXCEPT ![n] = NUL]

-----------------------------------------------------------------------------
(* Reference definitions.                                                  *)

MinOf(a, b) == IF a < b THEN a ELSE b

\* The digits of n in base b, by the number of digits k with b^(k-1) <= n < b^k.
RefDigits(n, b) ==
    LET k == CHOOSE k \in 1 .. 12 : n < b^k
    IN [i \in 1 .. k |-> (n \div b^(k - i)) % b]

\* A piece of a format: a plain character, "%%", or a conversion with an
\* optional ".w" or ".0w" minimum width (width -1 for none).
Lit(ch) == [kind |-> "lit", ch |-> ch]
Escape == [kind |-> "pct"]
Conv(c, w, z) == [kind |-> "conv", conv |-> c, width |-> w, zero |-> z]

\* The characters of a piece in a format string.
RenderToken(t) ==
    CASE t.kind = "lit" -> <<t.ch>>
      [] t.kind = "pct" -> <<PCT, PCT>>
      [] t.width = -1 -> <<PCT, t.conv>>
      [] OTHER -> <<PCT, DOT>> \o (IF t.zero THEN <<ZERO>> ELSE <<>>)
                    \o [i \in 1 .. Len(RefDigits(t.width, 10)) |-> ZERO + RefDigits(t.width, 10)[i]]
                    \o <<t.conv>>

RECURSIVE Render(_)
Render(ts) == IF ts = <<>> THEN <<>> ELSE RenderToken(Head(ts)) \o Render(Tail(ts))

\* What a piece should print: "%%" one '%'; a number right-aligned in a
\* field of the given width, padded with '0' for ".0w" and ' ' otherwise.
RefToken(t, arg) ==
    CASE t.kind = "lit" -> <<t.ch>>
      [] t.kind = "pct" -> <<PCT>>
      [] t.conv = CHR_c -> <<arg>>
      [] t.conv = CHR_s -> arg
      [] OTHER ->
           LET ds == RefDigits(IF arg < 0 THEN -arg ELSE arg,
                               IF t.conv \in {CHR_x, CHR_X} THEN 16 ELSE 10)
               text == (IF arg < 0 THEN <<MINUS>> ELSE <<>>)
                       \o [i \in DOMAIN ds |-> IF ds[i] < 10 THEN ZERO + ds[i]
                                               ELSE IF t.conv = CHR_x THEN LowA + ds[i] - 10
                                               ELSE UpA + ds[i] - 10]
               pad == IF t.width > Len(text) THEN t.width - Len(text) ELSE 0
           IN [i \in 1 .. pad |-> IF t.zero THEN ZERO ELSE SP] \o text

TakesArg(t) == t.kind = "conv"
ArgsOf(t) == CASE t.conv = CHR_c -> CArgs
               [] t.conv = CHR_s -> SArgs
               [] t.conv = CHR_d -> DArgs
               [] OTHER -> UArgs

\* The argument lists that fit a format, and what the format should print.
RECURSIVE ArgLists(_)
ArgLists(ts) ==
    IF ts = <<>> THEN {<<>>}
    ELSE IF TakesArg(Head(ts))
         THEN {<<a>> \o r : a \in ArgsOf(Head(ts)), r \in ArgLists(Tail(ts))}
         ELSE ArgLists(Tail(ts))

RECURSIVE RefOutput(_, _)
RefOutput(ts, args) ==
    IF ts = <<>> THEN <<>>
    ELSE IF TakesArg(Head(ts))
         THEN RefToken(Head(ts), Head(args)) \o RefOutput(Tail(ts), Tail(args))
         ELSE RefToken(Head(ts), <<>>) \o RefOutput(Tail(ts), args)

Formats == UNION {[1 .. k -> Tokens] : k \in 1 .. MaxTokens}

\* The characters of a byte array up to its first NUL.
CString(buf) ==
    LET z == {k \in DOMAIN buf : buf[k] = NUL}
    IN IF z = {} THEN buf ELSE SubSeq(buf, 1, (CHOOSE k \in z : \A j \in z : k <= j) - 1)

\* The sign of the first difference of the two strings, NUL-terminated.
RefCompare(a, b) ==
    LET s1 == a \o <<NUL>>
        s2 == b \o <<NUL>>
        d == {k \in 1 .. MinOf(Len(s1), Len(s2)) : s1[k] # s2[k]}
    IN IF d = {} THEN 0
       ELSE LET k == CHOOSE k \in d : \A j \in d : k <= j
            IN IF s1[k] < s2[k] THEN -1 ELSE 1

Sign(n) == IF n < 0 THEN -1 ELSE IF n > 0 THEN 1 ELSE 0

\* printk (src/kernel/main.c): vsnprintf into a 256-byte buffer, then every
\* byte before the NUL out to the Bochs port; it returns vsnprintf's count.
Printk(format, args) ==
    LET r == Vsnprintf(format, args, 256)
    IN [port |-> CString(r.out), ret |-> r.ret]

-----------------------------------------------------------------------------
\* vsnprintf stores what each piece of the format should print, cut to
\* size - 1 characters and NUL-terminated, never more than size bytes, and
\* returns the number of bytes it stored; printk sends that text to the
\* console port.  The formats and sizes are those of printk,
\* panic and the snprintf calls of main.c, ide.c and exception.c.
VsnprintfMatchesReference ==
    \A ts \in Formats, size \in Sizes :
        \A args \in ArgLists(ts) :
            LET r == Vsnprintf(Render(ts), args, size)
                ref == RefOutput(ts, args)
                n == MinOf(Len(ref), size - 1)
            IN /\ r.out = SubSeq(ref, 1, n) \o <<NUL>>
               /\ r.ret = Len(r.out)
               /\ size = 256 => Printk(Render(ts), args).port = SubSeq(ref, 1, n)

\* The description a block device class or instance registers is a C string
\* inside its array: the given one, cut to DescLen - 1 characters; strcmp
\* orders strings by their first differing character.
CStringsMatchReference ==
    /\ \A src \in Strings :
          LET buf == DescriptionCopy(src, DescLen)
          IN /\ Len(buf) = DescLen
             /\ CString(buf) = SubSeq(src, 1, MinOf(Len(src), DescLen - 1))
    /\ \A a, b \in Strings : Sign(Strcmp(a, b)) = RefCompare(a, b)

\* strlen returns the number of characters before the NUL.
StrlenIsLength ==
    \A s \in Strings : Strlen(s) = Len(s)
=============================================================================
