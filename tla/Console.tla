------------------------------ MODULE Console -------------------------------
(***************************************************************************)
(* The console of the core (src/src/core/kprintf.c): kprintf on a screen   *)
(* of maxx times maxy characters that waits for a key when it has scrolled *)
(* as far as can be read, and the screens at the end.                      *)
(*                                                                         *)
(* The console is a record: cursor (kx, ky), first column fx, scry, what   *)
(* is in the cells; keys: what will be pressed; shown: all that was on the *)
(* screen when it waited; off: something was drawn beside the screen;      *)
(* stuck: it waits for a lock it holds itself.                             *)
(* vkprintf turns a format into atoms: "w" a character that goes on in the *)
(* next line, "r" one that does not, and the control characters.           *)
(***************************************************************************)
EXTENDS Printf

CONSTANTS
    MsgWidth,       \* the message shown while waiting, in characters
    PanicWidth,     \* the width of the panic screen's text
    HdrSize         \* the buffer for the reason of a panic

BLANK == 0
BEHIND == -1        \* what is in memory after the frame buffer
ESC == 1
BS == 8
TAB == 9
CR == 13
LF == 10

EmptyRow(c) == [x \in 0..(c.maxx - 1) |-> BLANK]

kprintf_reset(c) == [c EXCEPT !.kx = 0, !.ky = 0, !.fx = 0, !.scry = c.maxy]

kprintf_init(maxx, maxy, keys) ==
    kprintf_reset([kx |-> 0, ky |-> 0, fx |-> 0, maxx |-> maxx, maxy |-> maxy, scry |-> 0,
                   cell |-> [y \in 0..(maxy - 1) |-> [x \in 0..(maxx - 1) |-> BLANK]],
                   keys |-> keys, shown |-> {}, off |-> FALSE, stuck |-> FALSE])

\* division as in C
Half(n) == IF n < 0 THEN -((-n) \div 2) ELSE n \div 2
kprintf_center(c, w, h) == [c EXCEPT !.kx = Half(c.maxx - w), !.fx = Half(c.maxx - w), !.ky = Half(c.maxy - h) - 1]

-----------------------------------------------------------------------------
(* Characters and lines *)

kprintf_putchar(c, ch) ==
    IF c.kx \in 0..(c.maxx - 1) /\ c.ky \in 0..(c.maxy - 1) THEN [c EXCEPT !.cell[c.ky][c.kx] = ch]
    ELSE [c EXCEPT !.off = TRUE]

OnScreen(c) == UNION {Range(c.cell[y]) : y \in DOMAIN c.cell}

\* the screen is full: the last line says so until a key is pressed
Waits(c) ==
    [c EXCEPT !.scry = IF c.keys # <<>> /\ Head(c.keys) = ESC THEN -1 ELSE 0,
              !.keys = IF @ = <<>> THEN @ ELSE Tail(@),
              !.shown = @ \cup OnScreen(c), !.off = @ \/ MsgWidth > c.maxx,
              !.cell[c.maxy - 1] = EmptyRow(c), !.kx = c.fx, !.ky = c.maxy - 2]

\* every line is copied from the next one, the last one from what is behind it
Shifted(c) ==
    [c EXCEPT !.cell = [y \in DOMAIN @ |-> IF y + 1 \in DOMAIN @ THEN @[y + 1] ELSE [x \in DOMAIN @[y] |-> BEHIND]]]

WaitsNow_late(scry, maxy) == scry >= maxy
WaitsNow(scry, maxy) == scry >= maxy - 2

kprintf_scrollscr(c) ==
    LET n == [c EXCEPT !.scry = @ + 1]
    IN IF c.scry = -1 THEN [c EXCEPT !.ky = 0]
       ELSE Shifted(IF WaitsNow(n.scry, c.maxy) THEN Waits(n) ELSE n)

FORCED == 65536
kprintf_scrolloff(c, log) ==
    [(IF log THEN kprintf_scrollscr([c EXCEPT !.scry = FORCED]) ELSE c) EXCEPT !.scry = -1]

kprintf_clearline(c) ==
    IF c.ky \in DOMAIN c.cell THEN [c EXCEPT !.cell[c.ky] = EmptyRow(c)] ELSE [c EXCEPT !.off = TRUE]

NewLine(c) ==
    LET n == [c EXCEPT !.kx = c.fx, !.ky = @ + 1]
        full == n.ky >= c.maxy - (IF c.scry = -1 THEN 0 ELSE 1)
        s == IF full THEN kprintf_scrollscr([n EXCEPT !.ky = @ - 1]) ELSE n
    IN IF s.scry = -1 THEN kprintf_clearline(s) ELSE s

Apply(c, a) ==
    LET drawn == [kprintf_putchar(c, a.c) EXCEPT !.kx = @ + 1]
    IN IF c.stuck THEN c
       ELSE CASE a.a = "w" -> IF drawn.kx >= c.maxx THEN NewLine(drawn) ELSE drawn
              [] a.a = "r" -> drawn
              [] a.a = "nl" -> NewLine(c)
              [] a.a = "down" -> [c EXCEPT !.kx = c.fx, !.ky = @ + 1]
              [] a.a = "bs" -> kprintf_putchar([c EXCEPT !.kx = @ - 1], SPACE)
              [] a.a = "tab" -> [c EXCEPT !.kx = ((@ + 8) \div 8) * 8]
              [] a.a = "cr" -> [c EXCEPT !.kx = c.fx]
              [] a.a = "lock" -> [c EXCEPT !.stuck = TRUE]

-----------------------------------------------------------------------------
(* Directives *)

Atom(a, ch) == [a |-> a, c |-> ch]
CharAtom(ch) ==
    Atom(CASE ch = BS -> "bs" [] ch = TAB -> "tab" [] ch = LF -> "nl" [] ch = CR -> "cr" [] OTHER -> "w", ch)
Wrapped(s) == [i \in DOMAIN s |-> CharAtom(s[i])]
Raw(s) == [i \in DOMAIN s |-> Atom("r", s[i])]
Newline == <<Atom("nl", LF)>>

kprintf_puthex(v, n) == Wrapped(sprintf_puthex(v, n))
kprintf_putdec(v, n) == Wrapped(sprintf_putdec(v, n))
kprintf_putascii(b, n) == Wrapped(sprintf_putascii(b, n))
Visible(ch) == IF ch = 27 \/ ch \in 32..126 THEN ch ELSE 46
kprintf_dumpascii(b, n) == Wrapped([i \in 1..AsciiLen(n) |-> Visible(b[i])])
kprintf_putbin(v) == Wrapped([i \in 1..16 |-> 48 + ((v \div 2^(16 - i)) % 2)])

kprintf_uuid(u) ==
    kprintf_puthex(u.d1, 4) \o Raw(<<DASH>>) \o kprintf_puthex(u.d2, 2) \o Raw(<<DASH>>)
    \o kprintf_puthex(u.d3, 2) \o Raw(<<DASH>>) \o FlattenSeq([i \in 1..8 |-> kprintf_puthex(u.d4[i], 1)])

\* a string, and what it lacks of its width in spaces; %S ends at a control
\* character and, characters being signed, at one of several bytes
Printable(s) == SubSeq(s, 1, LET e == FirstOf({i \in DOMAIN s : s[i] < 32 \/ s[i] >= 128}) IN IF e = Null THEN Len(s) ELSE e - 1)
StringAtoms(s, n) == Wrapped(s) \o Raw(Repeat(SPACE, n - ByteLen(s)))

(* Dumps.  Memory is a function from the addresses that are mapped. *)

NotMapped == Wrapped(<<42>>)
Rows(n) == IF n \in 1..128 THEN n ELSE 16
Address(addr) == kprintf_puthex(addr, 4) \o Raw(<<58, SPACE>>)

MemRow(mem, addr) ==
    LET got == FirstOf({i \in 0..16 : i = 16 \/ addr + i \notin DOMAIN mem})
        hex == FlattenSeq([i \in 1..got |-> kprintf_puthex(mem[addr + i - 1], 1)
                                            \o Raw(Repeat(SPACE, IF i % 4 = 0 THEN 2 ELSE 1))])
    IN Address(addr) \o hex \o (IF got < 16 THEN NotMapped ELSE Raw([i \in 1..16 |-> mem[addr + i - 1]])) \o Newline
kprintf_dumpmem(v, n) == FlattenSeq([i \in 1..Rows(n) |-> MemRow(v.mem, v.addr + 16 * (i - 1))])

Present(v) == Raw(<<SPACE, IF v % 2 = 1 THEN 80 ELSE 33>>)
\* no line here is a new line of the console
kprintf_dumppagetable(v, n) ==
    LET got == FirstOf({i \in 0..Rows(n) : i = Rows(n) \/ v.addr + i \notin DOMAIN v.mem})
        row(i) == Address(v.addr + i) \o kprintf_puthex(v.mem[v.addr + i], 8) \o Present(v.mem[v.addr + i]) \o <<Atom("down", LF)>>
    IN FlattenSeq([i \in 1..got |-> row(i - 1)]) \o (IF got < Rows(n) THEN Address(v.addr + got) ELSE <<>>)

\* entries: those of the tables on the way, as far as they are mapped
kprintf_dumppagewalk(v) ==
    kprintf_puthex(v.addr, 8) \o FlattenSeq([i \in DOMAIN v.entries |->
        Newline \o kprintf_puthex(v.entries[i], 8) \o Present(v.entries[i])])
    \o Newline

\* a task: a label before every number; when there is none, kprintf is called,
\* which takes the lock
X(n, v) == kprintf_puthex(v, n)
D(n, v) == kprintf_putdec(v, n)
L == Wrapped(<<76>>)
kprintf_dumptcb(t, n) ==
    X(n, t.addr) \o Raw(<<58, SPACE>>)
    \o (IF ~t.mapped \/ ~t.magic THEN <<Atom("lock", 0)>>
        ELSE L \o X(2, t.state) \o L \o X(2, t.flags) \o L \o D(0, t.cpuid) \o Newline
             \o L \o X(6, t.pid) \o L \o X(6, t.parent) \o L \o D(0, t.forklevel) \o Newline
             \o L \o D(2, t.priority) \o L \o X(6, t.prev) \o L \o X(6, t.next) \o Newline
             \o L \o X(8, t.memroot) \o L \o D(4, t.allocmem) \o L \o D(4, t.linkmem) \o Newline
             \o L \o X(8, t.pc) \o L \o X(8, t.sp) \o Newline
             \o L \o X(4, t.cmdline) \o L \o (IF t.cmd = NoText THEN NotMapped ELSE Wrapped(t.cmd)))
    \o Newline

ItemAtoms(it) ==
    CASE it.k = "t" -> Wrapped(Str(it.v))
      [] it.k = "%" -> Wrapped(<<PERCENT>>)
      [] it.k = "c" -> <<Atom("w", it.v)>>
      [] it.k = "a" -> kprintf_putascii(it.v, it.n)
      [] it.k = "A" -> kprintf_dumpascii(it.v, it.n)
      [] it.k = "d" -> kprintf_putdec(it.v, it.n)
      [] it.k = "x" -> kprintf_puthex(it.v, it.n)
      [] it.k = "b" -> kprintf_putbin(it.v)
      [] it.k = "U" -> kprintf_uuid(it.v)
      [] it.k = "s" -> StringAtoms(Str(it.v), it.n)
      [] it.k = "S" -> StringAtoms(Printable(Str(it.v)), it.n)
      [] it.k = "D" -> kprintf_dumpmem(it.v, it.n)
      [] it.k = "T" -> kprintf_dumptcb(it.v, it.n)
      [] it.k = "P" -> kprintf_dumppagetable(it.v, it.n)
      [] it.k = "p" -> kprintf_dumppagewalk(it.v)

Atoms(fmt) == FlattenSeq([i \in DOMAIN fmt |-> ItemAtoms(fmt[i])])
vkprintf(c, fmt) == FoldLeft(Apply, c, Atoms(fmt))

\* with the lock, which is free when it returned
kprintf(c, fmt) == vkprintf(c, fmt)

-----------------------------------------------------------------------------
(* The screens at the end.  resets: the machine can be reset or turned off *)

T(s) == <<[k |-> "t", v |-> s]>>
Line(s) == T(s \o <<LF>>)
OSZ == <<79>>               \* the words before a message, shorter: O

\* kprintf_fade: the picture stays, darker
kprintf_fade(c) == kprintf_reset(c)

Farewell(c, resets, msg) ==
    LET said == kprintf(kprintf_init(c.maxx, c.maxy, c.keys), Line(OSZ))
    IN IF resets THEN [c |-> said, end |-> "off"]
       ELSE [c |-> kprintf(kprintf_center(said, Len(msg) - 2, -8), Line(msg)), end |-> "halt"]
kprintf_reboot(c, resets, msg) == Farewell(c, resets, msg)
kprintf_poweroff(c, resets, msg) == Farewell(c, resets, msg)

\* p: the reason, whether a fault came up while it was made, the level the
\* system had reached, space mode and a debugger
PanicText == T(FlattenSeq([i \in 1..4 |-> Repeat(67, PanicWidth) \o <<LF>>]))
kpanic(c, p) ==
    LET hdr == vsprintf(p.reason)
        text == IF p.fault \/ hdr = <<>> THEN OSZ ELSE hdr
        said == kprintf(c, T(OSZ \o text))
        where == IF p.level = "boot" THEN <<>> ELSE <<[k |-> "x", n |-> 0, v |-> p.pc]>>
        before == IF p.space /\ p.level = "norm" THEN kprintf(said, Line(OSZ)) ELSE c
        told == IF p.debug /\ p.level # "boot" THEN before
                ELSE kprintf(kprintf(kprintf_fade(before), T(OSZ \o text)), where)
        over == ByteLen(hdr) >= HdrSize
        last == kprintf_reboot(kprintf(kprintf(kprintf_center(told, PanicWidth, 5), PanicText), PanicText), p.resets, OSZ)
    IN IF p.space /\ p.level = "norm" /\ p.resets
       THEN [c |-> before, end |-> "off", over |-> over, screen |-> said]
       ELSE [c |-> last.c, end |-> last.end, over |-> over,
             screen |-> kprintf(kprintf_center(told, PanicWidth, 5), PanicText)]

ConsoleCalls == {"kprintf", "panic", "off"}
ConsoleResult(j) ==
    LET c == kprintf_init(j.maxx, j.maxy, j.keys)
    IN CASE j.fn = "kprintf" -> kprintf_scrolloff(kprintf(c, j.fmt), j.log)
         [] j.fn = "panic" -> kpanic(c, j.panic)
         [] j.fn = "off" -> kprintf_poweroff(c, j.resets, j.msg)

-----------------------------------------------------------------------------
(* Properties *)

Plain(fmt) == \A i \in DOMAIN Atoms(fmt) : Atoms(fmt)[i].a \in {"w", "nl"}
Printed(fmt) == LET w == SelectSeq(Atoms(fmt), LAMBDA a : a.a = "w") IN [i \in DOMAIN w |-> w[i].c]
\* the characters that can still be read, from the first line on
Readable2(c) ==
    SelectSeq(FlattenSeq([y \in 1..c.maxy |-> [x \in 1..c.maxx |-> c.cell[y - 1][x - 1]]]), LAMBDA ch : ch > 0)
IsEndOf(s, t) == Len(s) <= Len(t) /\ SubSeq(t, Len(t) - Len(s) + 1, Len(t)) = s

\* the text of an item that libc prints, by what it is to be
Reference(it) ==
    CASE it.k = "t" -> it.v
      [] it.k = "d" -> IF Len(DecText(it.v)) < it.n THEN Repeat(SPACE, it.n - Len(DecText(it.v))) \o DecText(it.v) ELSE DecText(it.v)
      [] it.k = "s" -> [i \in 1..(IF it.n = 0 THEN Len(it.v) ELSE it.n) |-> At(it.v \o Repeat(SPACE, it.n), i - 1)]

(***************************************************************************)
(* Nothing that is printed is lost (vkprintf, kprintf_scrollscr,           *)
(* vsnprintf).  However long a text is and wherever its lines end, the     *)
(* console stays in its screen, what it shows is the end of the text, and  *)
(* as long as Esc was not pressed all of the text was on the screen while  *)
(* it waited for a key or still is: it never scrolls further than can be   *)
(* read.  And printf, which measures the text before it formats it, sends  *)
(* the whole text and writes nothing after its buffer.                     *)
(***************************************************************************)
PrintedRight ==
    /\ Returned("kprintf") /\ Plain(job.fmt) /\ ~job.log =>
        LET c == out[1]
        IN /\ ~c.off /\ ~c.stuck /\ c.kx \in c.fx..(c.maxx - 1) /\ c.ky \in 0..(c.maxy - 1)
           /\ ESC \notin Range(job.keys) =>
                /\ Range(Printed(job.fmt)) \subseteq c.shown \cup OnScreen(c)
                /\ IsEndOf(Readable2(c), Printed(job.fmt))
    /\ Returned("printf") /\ (\A i \in DOMAIN job.fmt : job.fmt[i].k \in {"t", "d", "s"}) =>
        /\ ~out[1].over
        /\ Front(out[1].sent) = FlattenSeq([i \in DOMAIN job.fmt |-> Reference(job.fmt[i])])

(***************************************************************************)
(* Nothing is drawn beside the screen.  A tab, a backspace at the first    *)
(* column and the spaces after a string are (src/src/core/kprintf.c:813,   *)
(* 821, 888), and so is a page table that is longer than the screen (604). *)
(***************************************************************************)
StaysOnScreen == Returned("kprintf") => ~out[1].off

(***************************************************************************)
(* A dump ends.  That of a task that is none calls kprintf, which waits    *)
(* for the lock that is held already (src/src/core/kprintf.c:555, 557).    *)
(***************************************************************************)
DumpEnds == Returned("kprintf") => ~out[1].stuck

(***************************************************************************)
(* The lines under the text are empty.  When the screen scrolls, the last  *)
(* line is filled from the memory after the frame buffer                   *)
(* (src/src/core/kprintf.c:740).                                           *)
(***************************************************************************)
OnlyText == Returned("kprintf") => BEHIND \notin OnScreen(out[1])

(***************************************************************************)
(* The reason of a panic fits in its buffer.  Its length is not limited    *)
(* (src/src/core/kprintf.c:253).                                           *)
(***************************************************************************)
PanicFits == Returned("panic") => ~out[1].over

(***************************************************************************)
(* The panic screen is on the screen.  Not when the screen is narrower     *)
(* than its text (src/src/core/kprintf.c:288).                             *)
(***************************************************************************)
PanicSeen == Returned("panic") => ~out[1].screen.off
=============================================================================
