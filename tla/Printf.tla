------------------------------- MODULE Printf -------------------------------
(***************************************************************************)
(* Formatted text: sprintf of the core (src/src/core/libc.c), the numbers  *)
(* of kprintf (src/src/core/kprintf.c) and the printf family of libc       *)
(* (src/src/libc/stdio.c).                                                 *)
(*                                                                         *)
(* A format is a sequence of items: text, or a directive with its width n  *)
(* and its argument v.  A character is a number, one of 128 and more takes *)
(* two bytes; in libc, where everything is counted in bytes, it is a byte. *)
(***************************************************************************)
EXTENDS CString, Job, FiniteSets

CONSTANT DecRoom        \* the decimal digits there is room for, sign included

ASSUME DecRoomAssumption == DecRoom \in 2..9

HexRoom == 16           \* the hexadecimal digits of a 64 bit number
AsciiRoom == 8          \* the characters of a 64 bit number

SPACE == 32
MINUS == 45
DASH == 45
PERCENT == 37
NullText == <<40, 110, 117, 108, 108, 41>>     \* (null)

Repeat(c, n) == IF n <= 0 THEN <<>> ELSE [i \in 1..n |-> c]
ByteLen(s) == Len(s) + Cardinality({i \in DOMAIN s : s[i] >= 128})

-----------------------------------------------------------------------------
(* Numbers *)

\* the last k digits of a number at most; a negative one is shifted to the
\* right for ever
RECURSIVE DigitsOf(_, _, _)
DigitsOf(v, base, k) ==
    LET d == v % base
        c == IF d < 10 THEN 48 + d ELSE 65 + d - 10
    IN (IF v \div base = 0 \/ k = 1 THEN <<>> ELSE DigitsOf(v \div base, base, k - 1)) \o <<c>>

MaxDec == 10^(DecRoom - 1) - 1
Abs(v) == IF v < 0 THEN -v ELSE v

DecText(v) ==
    (IF v < 0 THEN <<MINUS>> ELSE <<>>) \o DigitsOf(Least2(Abs(v), MaxDec), 10, DecRoom)
HexText(v) == DigitsOf(v, 16, HexRoom)

Padded(s, c, n) == Repeat(c, n - Len(s)) \o s

\* the core: exactly as wide as asked for
Fixed_padded(s, c, n) == Padded(s, c, n)
Fixed(s, c, n) == IF Len(s) > n THEN SubSeq(s, Len(s) - n + 1, Len(s)) ELSE Padded(s, c, n)

sprintf_putdec(v, n) == IF n \in 1..(DecRoom - 1) THEN Fixed(DecText(v), SPACE, n) ELSE DecText(v)
sprintf_puthex(v, n) == IF n \in 1..(HexRoom \div 2) THEN Fixed(HexText(v), 48, 2 * n) ELSE HexText(v)

\* the bytes of a number as characters
AsciiLen(n) == IF n \in 1..AsciiRoom THEN n ELSE AsciiRoom
sprintf_putascii(b, n) == Text(SubSeq(b, 1, AsciiLen(n)) \o <<0>>)

\* libc: at least as wide
LibcDec(v, n) == IF n \in 1..(DecRoom - 1) THEN Padded(DecText(v), SPACE, n) ELSE DecText(v)
sprintf_hex(v, n) == IF n \in 1..(HexRoom \div 2) THEN Padded(HexText(v), 48, 2 * n) ELSE HexText(v)

-----------------------------------------------------------------------------
(* The core's sprintf *)

Str(v) == IF v = NoText THEN NullText ELSE v

\* a string is filled up with spaces, counted in bytes
Filled(s, n) == s \o Repeat(SPACE, n - ByteLen(s))

CoreText(it) ==
    CASE it.k = "t" -> it.v
      [] it.k = "%" -> <<PERCENT>>
      [] it.k = "c" -> <<it.v>>
      [] it.k = "a" -> sprintf_putascii(it.v, it.n)
      [] it.k = "d" -> sprintf_putdec(it.v, it.n)
      [] it.k = "x" -> sprintf_puthex(it.v, it.n)
      [] it.k = "s" -> Filled(Str(it.v), it.n)
      [] OTHER -> <<>>

vsprintf(fmt) == FlattenSeq([i \in DOMAIN fmt |-> CoreText(fmt[i])])

-----------------------------------------------------------------------------
(* libc.  A buffer is a function from offsets to what is in them; one of   *)
(* size bytes has the offsets below it.  At is where the next character    *)
(* goes, which may be past the end.                                        *)

InBuffer(buf, at, s) == [o \in DOMAIN buf |-> IF o \in at..(at + Len(s) - 1) THEN s[o - at + 1] ELSE buf[o]]

\* w: the buffer or none, its size, where the next character goes and whether
\* anything was written after the end
PutChar(w, c) ==
    [w EXCEPT !.buf = IF w.at < w.size THEN InBuffer(@, w.at, <<c>>) ELSE @, !.at = @ + 1]
\* a number: all of it when there is a byte left after it, or nothing
PutWhole(w, s) ==
    [w EXCEPT !.buf = IF w.at + Len(s) < w.size THEN InBuffer(@, w.at, s) ELSE @, !.at = @ + Len(s)]
\* a string: as much of it as fits; when the end was passed already, the size
\* of what fits is negative
PutString(w, s) ==
    LET room == IF w.at + Len(s) < w.size THEN Len(s) ELSE w.size - w.at
    IN [w EXCEPT !.buf = IF room > 0 THEN InBuffer(@, w.at, SubSeq(s, 1, room)) ELSE @,
                 !.over = @ \/ (w.real /\ room < 0), !.at = @ + Len(s)]
\* the spaces after it: there they stop at the end
PutSpaces(w, n) ==
    LET k == IF w.real THEN Least2(n, IF w.at < w.size THEN w.size - w.at ELSE 0) ELSE n
    IN [w EXCEPT !.buf = InBuffer(@, w.at, Repeat(SPACE, k)), !.at = @ + k]

\* a string longer than its width is cut
PutText(w, s, n) ==
    LET len == IF n > 0 /\ Len(s) > n THEN n ELSE Len(s)
    IN PutSpaces(PutString(w, SubSeq(s, 1, len)), IF len < n THEN n - len ELSE 0)

\* a uuid: the digits of the last part are all those of Data3
PutUuid(w, u) ==
    FoldLeft(PutWhole, w,
        <<sprintf_hex(u.d1, 8) \o <<DASH>>, sprintf_hex(u.d2, 4) \o <<DASH>>, sprintf_hex(u.d3, 4) \o <<DASH>>>>
        \o Repeat(sprintf_hex(u.d3, 2), 8))

\* a directive other than %c ends the text before it puts its own
Cut(w) == [w EXCEPT !.buf = IF w.at < w.size THEN InBuffer(@, w.at, <<0>>) ELSE @]

PutItem(b, it) ==
    LET w == IF it.k \in {"t", "%", "c"} THEN b ELSE Cut(b) IN
    CASE it.k = "t" -> FoldLeft(PutChar, w, it.v)
      [] it.k = "%" -> PutChar(w, PERCENT)
      [] it.k = "c" -> PutChar(w, it.v)
      [] it.k = "a" -> PutWhole(w, SubSeq(it.v, 1, AsciiLen(it.n)))
      [] it.k = "d" -> PutWhole(w, LibcDec(it.v, it.n))
      [] it.k = "x" -> PutWhole(w, sprintf_hex(it.v, it.n))
      [] it.k = "s" -> PutText(w, Str(it.v), it.n)
      [] it.k = "U" -> PutUuid(w, it.v)
      [] OTHER -> w

\* over: the terminator is written to the byte after the buffer when the text
\* does not fit
EMPTY == -1
Ended(w) ==
    IF ~w.real THEN w
    ELSE IF w.at < w.size THEN [w EXCEPT !.buf = InBuffer(@, w.at, <<0>>)] ELSE [w EXCEPT !.over = TRUE]

vsnprintf(real, size, fmt) ==
    Ended(FoldLeft(PutItem, [real |-> real, size |-> size, at |-> 0, over |-> FALSE,
                             buf |-> IF real THEN [o \in 0..(size - 1) |-> EMPTY] ELSE [o \in {} |-> EMPTY]], fmt))

BufferText(w, n) == [i \in 1..n |-> w.buf[i - 1]]

\* printf: measured first, then formatted into a buffer of that size, which is
\* written with its terminator
INT_MAX == 2^30
vfprintf(fmt) ==
    LET size == vsnprintf(FALSE, INT_MAX, fmt).at + 1
        w == vsnprintf(TRUE, size, fmt)
    IN [sent |-> BufferText(w, size), ret |-> size - 1, over |-> w.over]

\* perror: the buffer has room for the command, the message, the text and five
\* more; the text is counted with its terminator.  The arguments are read twice
\* from one list, so that only formats without any are meaningful
COLON == <<58, SPACE>>
perror(cmd, err, fmt) ==
    LET size == vsnprintf(FALSE, INT_MAX, fmt).at + 1
        room == Len(cmd) + size + Len(err) + 5
        head == Len(cmd) + 2 + Len(err)
        w == vsnprintf(TRUE, size, fmt)
        i == IF fmt = <<>> THEN head ELSE head + 2 + size
        text == cmd \o COLON \o err \o (IF fmt = <<>> THEN <<>> ELSE COLON \o BufferText(w, size))
    IN [sent |-> text, over |-> w.over \/ i + 1 >= room]

\* ttyname_r: in a buffer the caller gives
TTY == <<47, 116>>          \* /dev/tty, shorter: /t
ttyname_r(tty, ino, len) ==
    IF ~tty \/ len = 0 THEN [ok |-> FALSE, over |-> FALSE]
    ELSE LET w == vsnprintf(TRUE, len, <<[k |-> "t", v |-> TTY], [k |-> "d", n |-> 0, v |-> ino]>>)
         IN [ok |-> TRUE, over |-> w.over]

PrintfCalls == {"sprintf", "printf", "snprintf", "perror", "ttyname"}
PrintfResult(j) ==
    CASE j.fn = "sprintf" -> vsprintf(j.fmt)
      [] j.fn = "printf" -> vfprintf(j.fmt)
      [] j.fn = "snprintf" -> vsnprintf(TRUE, j.size, j.fmt)
      [] j.fn = "perror" -> perror(j.cmd, j.err, j.fmt)
      [] j.fn = "ttyname" -> ttyname_r(j.tty, j.ino, j.len)

-----------------------------------------------------------------------------
(* Properties *)

\* what a text says as a decimal number
RECURSIVE ValueOf(_)
ValueOf(s) ==
    IF s = <<>> THEN 0
    ELSE IF s[1] = SPACE THEN ValueOf(Tail(s))
    ELSE IF s[1] = MINUS THEN -ValueOf(Tail(s))
    ELSE ValueOf(Front(s)) * 10 + Last(s) - 48

(***************************************************************************)
(* snprintf stays in its buffer.  It does not when the text has as many    *)
(* bytes as the buffer or more: the terminator is written after it         *)
(* (src/src/libc/stdio.c:677).                                             *)
(***************************************************************************)
FormatBounded == Returned("snprintf") \/ Returned("ttyname") => ~out[1].over

(***************************************************************************)
(* perror stays in its buffer and writes only text.  The terminator of    *)
(* the text is counted, so that it is written in the line and the one      *)
(* after the line is behind the buffer (src/src/libc/stdio.c:792).         *)
(***************************************************************************)
PerrorText == Returned("perror") => ~out[1].over /\ \A i \in DOMAIN out[1].sent : out[1].sent[i] # 0

(***************************************************************************)
(* A number that is wider than its directive is printed in full.  The      *)
(* core cuts its first digits off (src/src/core/libc.c:203).               *)
(***************************************************************************)
NumbersWhole ==
    Returned("sprintf") => \A i \in DOMAIN job.fmt : job.fmt[i].k = "d" => ValueOf(CoreText(job.fmt[i])) = job.fmt[i].v

(***************************************************************************)
(* printf writes the text and nothing else.  It writes the terminator too  *)
(* (src/src/libc/stdio.c:726).                                             *)
(***************************************************************************)
PrintfOnlyText == Returned("printf") => \A i \in DOMAIN out[1].sent : out[1].sent[i] # 0
=============================================================================
