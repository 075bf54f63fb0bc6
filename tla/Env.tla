-------------------------------- MODULE Env ---------------------------------
(***************************************************************************)
(* The environment of the core (src/src/core/env.c): the text of           *)
(* /sys/config is read once at boot, the user may be asked for the time,   *)
(* and the clock is set from what the firmware or the user gave.           *)
(*                                                                         *)
(* The text is a sequence of numbers: characters, and one number for every *)
(* name of a key with its '='.  A date is what is in bootboot.datetime, a  *)
(* function from 0..7 to bytes.  char is signed, as it is on x86_64.       *)
(***************************************************************************)
EXTENDS Libc, FiniteSets

CONSTANT DrvRoom        \* the characters there is room for in a driver's name

NUL == 0
KeyName ==
    256 :> "tz" @@ 257 :> "lang" @@ 258 :> "dmabuf" @@ 259 :> "aslr" @@ 260 :> "syslog" @@ 261 :> "internet"
    @@ 262 :> "sound" @@ 263 :> "print" @@ 264 :> "rescueshell" @@ 265 :> "spacemode" @@ 266 :> "quantum"
    @@ 267 :> "display" @@ 268 :> "debug"
KeyCode(name) == CHOOSE k \in DOMAIN KeyName : KeyName[k] = name

-----------------------------------------------------------------------------
(* The time *)

Signed(b) == IF b >= 128 THEN b - 256 ELSE b
Bcd(b) == (Signed(b) \div 16) * 10 + (b % 16)

IsBcd(p) ==
    /\ p[0] \in \h20..\h30 /\ p[1] <= \h99
    /\ p[2] \in 1..\h12 /\ p[3] \in 1..\h31
    /\ Signed(p[4]) <= \h23 /\ Signed(p[5]) <= \h59 /\ Signed(p[6]) <= \h60

LeapYear_four(y) == y % 4 = 0
LeapYear(y) == y % 4 = 0 /\ (y % 100 # 0 \/ y % 400 = 0)

MonthDays(y) == <<31, IF LeapYear(y) THEN 29 ELSE 28, 31, 30, 31, 30, 31, 31, 30, 31, 30, 31>>

ValidTz(tz) == IF tz \in -1440..1440 THEN tz ELSE 0

\* days and seconds are kept apart; over: the lengths of the months are read
\* behind their end; hangs: the year is negative, and counted up to as an
\* unsigned number
env_getts(p, tz) ==
    LET bcd == IsBcd(p)
        num(b) == IF bcd THEN Bcd(b) ELSE Signed(b)
        y == IF bcd THEN (p[0] \div 16) * 1000 + (p[0] % 16) * 100 + Bcd(p[1]) ELSE Signed(p[1]) * 256 + Signed(p[0])
        m == num(p[2])
        years == 2016..(y - 1)
        md == MonthDays(y)
    IN [days |-> 16801 + 365 * Cardinality(years) + Cardinality({j \in years : LeapYear(j)})
                 + FoldLeft(LAMBDA a, b : a + b, 0, SubSeq(md, 1, Least2(m, 13) - 1)) + num(p[3]) - 1,
        secs |-> num(p[4]) * 3600 + (ValidTz(tz) + num(p[5])) * 60 + num(p[6]),
        over |-> m > 13 \/ m < 0, hangs |-> y < 0]

-----------------------------------------------------------------------------
(* Numbers.  They are unsigned; one above every limit is HUGE.  A parser   *)
(* returns where it stopped and what it read.                              *)

HUGE == 10 ^ 8

Blanks(s, i) == FirstOf({k \in i..(Len(s) + 1) : At(s, k) \notin {32, 9}})
HasPrefix(s, i) == At(s, i) = 48 /\ At(s, i + 1) = 120
Limited(v, min, max) == IF v < min THEN min ELSE IF max # 0 /\ v > max THEN max ELSE v

\* the first character is taken whatever it is, the others while they are digits
NumberEnd(s, i, digits) == FirstOf({k \in (i + 1)..(Len(s) + 1) : At(s, k) \notin digits})

\* goes on from what v was
env_hex(s, from, v, min, max) ==
    LET b == Blanks(s, from)
        i == IF HasPrefix(s, b) THEN b + 2 ELSE b
        e == NumberEnd(s, i, HexDigits)
    IN [at |-> e, v |-> Limited(FoldLeft(LAMBDA a, c : Least2(16 * a + HexValue(c), HUGE), v, SubSeq(s \o <<NUL>>, i + 1, e)), min, max)]

env_dec(s, from, v, min, max) ==
    LET i == Blanks(s, from)
        e == NumberEnd(s, i, Digits)
        first == IF At(s, i) < 48 THEN HUGE ELSE At(s, i) - 48
    IN IF HasPrefix(s, i) THEN env_hex(s, i + 2, v, min, max)
       ELSE [at |-> e, v |-> Limited(FoldLeft(LAMBDA a, c : Least2(10 * a + c - 48, HUGE), first, SubSeq(s, i + 2, e)), min, max)]

-----------------------------------------------------------------------------
(* The values of the keys.  r: what was read so far; junk: what a variable *)
(* holds that nothing was assigned to.                                     *)

env_tz(r, s, from, junk) ==
    LET b == Blanks(s, from)
        i == IF At(s, b) = 45 THEN b + 1 ELSE b
        n == env_dec(s, i, junk, 0, 1440)
    IN IF At(s, i) \in Digits THEN [r EXCEPT !.at = n.at, !.tz = IF i # b THEN -n.v ELSE n.v, !.asktime = FALSE]
       ELSE IF At(s, i) = 97 THEN [r EXCEPT !.at = i + 1, !.tz = 0, !.asktime = TRUE]
       ELSE [r EXCEPT !.at = i + 1]

\* no: 0, f, n, h, k, d and "of"
SaysNo(s, i) == At(s, i) \in {48, 102, 70, 110, 78, 104, 72, 107, 75, 100, 68}
                 \/ (At(s, i) = 111 /\ At(s, i + 1) = 102) \/ (At(s, i) = 79 /\ At(s, i + 1) = 70)
env_bool(r, s, from, flag) ==
    LET i == Blanks(s, from)
    IN [r EXCEPT !.at = i + 1, !.flags = IF SaysNo(s, i) THEN @ ELSE @ \cup {flag}]

EndOfLine == {NUL, 10}
UpTo(s, i, stop) == FirstOf({k \in i..Len(s) : At(s, k) \in EndOfLine \cup stop})

PBT_MONO_MONO == 0
PBT_MONO_COLOR == 1
PBT_STEREO_MONO == 2
PBT_STEREO_COLOR == 3
DisplayType(a, b) ==
    CASE <<a, b>> = <<109, 109>> -> PBT_MONO_MONO
      [] <<a, b>> \in {<<115, 109>>, <<97, 110>>} -> PBT_STEREO_MONO
      [] <<a, b>> \in {<<115, 99>>, <<118, 114>>} -> PBT_STEREO_COLOR
      [] OTHER -> PBT_MONO_COLOR

\* the driver after a comma; with a ':' it is the remote one.  d: the type and
\* where it ended, k: where the name of the driver did
REMOTE == <<114>>           \* remote, shorter: r
DriverName(r, s, d, k) ==
    LET e == Least2(UpTo(s, k + 1, {}), k + 1 + DrvRoom)
    IN IF At(s, k) = 58
       THEN [r EXCEPT !.at = UpTo(s, e, {}), !.display = d.v, !.drv = REMOTE, !.denv = SubSeq(s, k + 2, e)]
       ELSE [r EXCEPT !.at = UpTo(s, k, {}), !.display = d.v, !.drv = SubSeq(s, d.at + 2, k)]
DisplayDriver(r, s, d) ==
    IF At(s, d.at) # 44 THEN [r EXCEPT !.at = d.at, !.display = d.v]
    ELSE DriverName(r, s, d, Least2(UpTo(s, d.at + 1, {47, 46, 58}), d.at + 1 + DrvRoom))
env_display(r, s, from, junk) ==
    LET i == Blanks(s, from)
    IN DisplayDriver(r, s, IF At(s, i) \in Digits THEN env_dec(s, i, junk, 0, 3)
                           ELSE [at |-> UpTo(s, i, {44}), v |-> DisplayType(At(s, i), At(s, i + 1))])

IsLetter(c) == c \in 97..122 \/ c \in 65..90 \/ c = 95
LangRoom == 5
EN == <<101, 110>>
env_lang(r, s, from) ==
    LET i == Blanks(s, from)
        e == FirstOf({k \in i..(i + LangRoom) : k = i + LangRoom \/ ~IsLetter(At(s, k))})
    IN [r EXCEPT !.at = e, !.lang = IF e - i < 2 THEN EN ELSE SubSeq(s, i + 1, e)]

\* two letters each, with what they stand for; the flags of a build without
\* DEBUG are the first two
DebugFlags ==
    {<<100, 101, "devices">>, <<108, 111, "log">>, <<112, 114, "prompt">>, <<109, 115, "msg">>, <<109, 109, "memmap">>,
     <<116, 97, "tasks">>, <<101, 108, "elf">>, <<105, 114, "irq">>, <<115, 99, "sched">>, <<112, 109, "pmm">>,
     <<118, 109, "vmm">>, <<109, 97, "malloc">>, <<98, 108, "blkio">>, <<102, 105, "fileio">>, <<102, 115, "fs">>,
     <<117, 105, "ui">>, <<116, 101, "tests">>}
FlagsAt(s, k) ==
    {t[3] : t \in {t \in DebugFlags : t[1] = At(s, k) /\ t[2] = At(s, k + 1)}}
    \cup (IF At(s, k) = 114 /\ 105 \in {At(s, k + 1), At(s, k + 2)} THEN {"rtimport"} ELSE {})
    \cup (IF At(s, k) = 114 /\ 101 \in {At(s, k + 1), At(s, k + 2)} THEN {"rtexport"} ELSE {})
SaysNone(s, k) == <<At(s, k), At(s, k + 1)>> \in {<<102, 97>>, <<110, 111>>, <<110, 101>>}

\* every character of the line may be the first of two
env_debug(r, s, i, junk) ==
    LET n == env_dec(s, i, junk, 0, 65535)
        none == FirstOf({k \in i..(UpTo(s, i, {}) - 1) : SaysNone(s, k)})
    IN IF At(s, i) \in Digits THEN [r EXCEPT !.at = n.at, !.debug = {"number"}]
       ELSE IF none # Null THEN [r EXCEPT !.at = none, !.debug = {}]
       ELSE [r EXCEPT !.at = UpTo(s, i, {}), !.debug = UNION {FlagsAt(s, k) : k \in i..(UpTo(s, i, {}) - 1)}]

-----------------------------------------------------------------------------
(* The text *)

platform_env(r) == [r EXCEPT !.dmabuf = 256]
platform_parse(r) == [r EXCEPT !.at = @ + 1]

\* the names of two of the keys are compared with the terminator
WithEnd == {"internet", "spacemode"}
KeyAt(s, i) ==
    IF At(s, i) \in DOMAIN KeyName /\ (KeyName[At(s, i)] \in WithEnd => At(s, i + 1) = NUL) THEN KeyName[At(s, i)] ELSE "none"

EnvKey(r, s, junk) ==
    LET key == KeyAt(s, r.at)
        i == r.at + (IF key \in WithEnd THEN 2 ELSE 1)
        dma == env_dec(s, i, r.dmabuf, 0, 2048)
        q == env_dec(s, i, r.quantum, 10, 1000000)
    IN CASE key = "tz" -> env_tz(r, s, i, junk)
         [] key = "lang" -> env_lang(r, s, i)
         [] key = "dmabuf" -> [r EXCEPT !.at = dma.at, !.dmabuf = dma.v]
         [] key = "quantum" -> [r EXCEPT !.at = q.at, !.quantum = q.v]
         [] key = "display" -> env_display(r, s, i, junk)
         [] key = "debug" -> env_debug(r, s, i, junk)
         [] key = "none" -> platform_parse(r)
         [] OTHER -> env_bool(r, s, i, key)

\* a comment up to the end of the line; in one that begins with "/*" the
\* character before is a '*' at once
Uncommented(s, i) ==
    LET k == IF At(s, i) = 35 \/ (At(s, i) = 47 /\ At(s, i + 1) = 47) THEN UpTo(s, i, {}) ELSE i
    IN IF At(s, k) = 47 /\ At(s, k + 1) = 42 THEN k + 2 ELSE k

RECURSIVE EnvText(_, _, _)
EnvText(r, s, junk) ==
    LET i == Uncommented(s, r.at)
        n == [r EXCEPT !.at = i]
    IN IF r.at >= Len(s) THEN r
       ELSE EnvText(IF At(s, i) \in {13, 10, 9, 32} THEN [n EXCEPT !.at = i + 1] ELSE EnvKey(n, s, junk), s, junk)

-----------------------------------------------------------------------------
(* Asking for the time.  a: the date p, the time zone, e the digit that is *)
(* edited, cur where it is on the screen.  What comes from the serial line *)
(* is turned into the codes of keys first.                                 *)

LEFT == 331
RIGHT == 333
UP == 328
DOWN == 336
ENTER == 28

\* what is shown: the digits of the date and those of the time zone
TimeShown(a) ==
    LET tz == IF a.tz < 0 THEN -a.tz ELSE a.tz
    IN [k \in 1..14 |-> LET b == a.p[(k - 1) \div 2] IN IF k % 2 = 1 THEN b \div 16 ELSE b % 16]
       \o <<(tz \div 600) % 10, (tz \div 60) % 10, (tz % 60) \div 10, tz % 10>>

\* letters are not counted
Pointed(a) ==
    LET t == TimeShown(a)
        is == {k \in 1..18 : t[k] <= 9 /\ Cardinality({l \in 1..(k - 1) : t[l] <= 9}) = a.e}
    IN [a EXCEPT !.cur = IF is = {} THEN @ ELSE CHOOSE k \in is : TRUE]

Nibble(b, high, c) == IF high THEN (b % 16) + 16 * c ELSE (b \div 16) * 16 + c
InRange(p) ==
    [p EXCEPT ![2] = IF @ < 1 THEN \h12 ELSE IF @ > \h12 THEN 1 ELSE @,
              ![3] = IF @ < 1 THEN \h31 ELSE IF @ > \h31 THEN 1 ELSE @,
              ![4] = Least2(@, \h23), ![5] = Least2(@, \h59), ![6] = Least2(@, \h59)]
TzStep(i) == CASE i \in {14, 15} -> 60 [] i = 16 -> 10 [] i = 17 -> 1
TzInRange(tz) == IF tz < -1440 THEN 1440 ELSE IF tz > 1440 THEN -1440 ELSE tz

env_asktime_setdigit(a, ch) ==
    LET c == IF ch > 57 THEN 0 ELSE IF ch < 48 THEN 9 ELSE ch - 48
        i == a.e
    IN IF i >= 14 THEN [a EXCEPT !.tz = TzInRange(IF c < 5 THEN @ - TzStep(i) ELSE @ + TzStep(i))]
       ELSE [a EXCEPT !.p = InRange([@ EXCEPT ![i \div 2] = Nibble(@, i % 2 = 0, c)]), !.tz = TzInRange(@)]

AskKey(b, c) ==
    LET a == Pointed(b)
        \* a digit or a letter as it is shown
        t == LET v == TimeShown(a)[a.cur] IN IF v <= 9 THEN 48 + v ELSE 55 + v
    IN CASE c = LEFT -> [a EXCEPT !.e = IF @ > 0 THEN @ - 1 ELSE @]
         [] c = RIGHT -> [a EXCEPT !.e = Least2(@ + 1, 17)]
         [] c = UP -> env_asktime_setdigit(a, IF a.e < 14 THEN t + 1 ELSE 57)
         [] c = DOWN -> env_asktime_setdigit(a, IF a.e < 14 THEN t - 1 ELSE 48)
         [] OTHER -> [env_asktime_setdigit(a, (c + 47) % 256) EXCEPT !.e = Least2(@ + 1, 17)]

\* until Enter or Esc
env_asktime(p, tz, keys) ==
    FoldLeft(AskKey, [p |-> p, tz |-> tz, e |-> 0, cur |-> 1],
             SubSeq(keys, 1, LET k == FirstOf({i \in DOMAIN keys : keys[i] \in {1, ENTER}}) IN IF k = Null THEN Len(keys) ELSE k - 1))

\* the text, then the time, if nobody could tell it and somebody is there
env_init(j) ==
    LET r == EnvText(platform_env([at |-> 0, flags |-> {"syslog", "internet", "sound", "print"}, dmabuf |-> 0, quantum |-> 1000,
                        display |-> PBT_MONO_COLOR, debug |-> {}, lang |-> EN, tz |-> j.tz, drv |-> <<>>, denv |-> <<>>,
                        asktime |-> \A k \in 0..3 : j.p[k] = 0]), j.text, j.junk)
        a == IF r.asktime /\ "spacemode" \notin r.flags THEN env_asktime(j.p, r.tz, j.keys) ELSE [p |-> j.p, tz |-> r.tz]
    IN IF ~j.magic THEN [panic |-> TRUE]
       ELSE [panic |-> FALSE, r |-> r, p |-> a.p, tz |-> a.tz, ts |-> env_getts(a.p, a.tz)]

EnvCalls == {"boot"}
EnvResult(j) == env_init(j)

-----------------------------------------------------------------------------
(* Properties *)

\* the days since 1970 by the rule of the Gregorian calendar, its years
\* beginning in March
CalendarDays(y, m, d) ==
    LET c == IF m <= 2 THEN y - 1 ELSE y
        yoe == c % 400
        doy == (153 * (IF m > 2 THEN m - 3 ELSE m + 9) + 2) \div 5 + d - 1
    IN (c \div 400) * 146097 + yoe * 365 + (yoe \div 4) - (yoe \div 100) + doy - 719468

Digits2(n) == (n \div 10) * 16 + (n % 10)
BcdDate(d) ==
    0 :> Digits2(d.y \div 100) @@ 1 :> Digits2(d.y % 100) @@ 2 :> Digits2(d.m) @@ 3 :> Digits2(d.d)
    @@ 4 :> Digits2(d.h) @@ 5 :> Digits2(d.i) @@ 6 :> Digits2(d.s) @@ 7 :> 0
BinaryDate(d) ==
    0 :> d.y % 256 @@ 1 :> d.y \div 256 @@ 2 :> d.m @@ 3 :> d.d @@ 4 :> d.h @@ 5 :> d.i @@ 6 :> d.s @@ 7 :> 0

SetTo(d, tz) == out[1].ts.days = CalendarDays(d.y, d.m, d.d) /\ out[1].ts.secs = d.h * 3600 + (d.i - tz) * 60 + d.s

\* the firmware knows none
NoDate == [k \in 0..7 |-> 0]
Edited == \E i \in DOMAIN job.keys : job.keys[i] \notin {LEFT, RIGHT, 1, ENTER}

(***************************************************************************)
(* The clock is right (env_getts, env_asktime).  A date the firmware gives *)
(* in BCD and in UTC, of any year the century digits can say from 2016 on, *)
(* sets the clock to the second of the Gregorian calendar.  And whatever   *)
(* keys are pressed when the user is asked, one digit at a time over a     *)
(* date in BCD or none and in any order, what is left is a month, day,     *)
(* hour, minute and second that exist, or nothing as it was, and a time    *)
(* zone of at most a day.                                                  *)
(***************************************************************************)
ClockRight ==
    Returned("boot") /\ job.magic =>
        /\ job.form = "bcd" /\ job.keys = <<>> /\ out[1].tz = 0 => SetTo(job.date, 0)
        /\ job.form # "binary" /\ out[1].p # NoDate =>
            /\ \A k \in 2..6 : out[1].p[k] % 16 <= 9
            /\ out[1].p[2] \in 1..\h12 /\ out[1].p[3] \in 1..\h31
            /\ out[1].p[4] <= \h23 /\ out[1].p[5] <= \h59 /\ out[1].p[6] <= \h59
            /\ IsBcd(out[1].p) => ~out[1].ts.over
        /\ Edited => out[1].tz \in -1440..1440

(***************************************************************************)
(* A date in binary is read as it is.  Its year is not: the low byte is    *)
(* added as a signed number, so that 2016 up to 2047 are before 2016       *)
(* (src/src/core/env.c:77), and a year before 2016 counts as 2016 (89).    *)
(***************************************************************************)
BinaryRight == Returned("boot") /\ job.magic /\ job.form = "binary" /\ job.keys = <<>> /\ out[1].tz = 0 => SetTo(job.date, 0)

(***************************************************************************)
(* The time stamp is in UTC, as its description says ("UTC másodperc       *)
(* időbélyeg", src/src/core/env.c:53).  The offset of the local time is    *)
(* added, where it would have to be subtracted (94).                       *)
(***************************************************************************)
InUtc == Returned("boot") /\ job.magic /\ job.form = "bcd" /\ job.keys = <<>> => SetTo(job.date, ValidTz(out[1].tz))

(***************************************************************************)
(* The digits that are typed are the ones that are set.  A month or a day  *)
(* that does not exist between two digits is replaced at once, and the     *)
(* second digit goes into what replaced it: 10 typed over 05 becomes 12    *)
(* (src/src/core/env.c:295).                                               *)
(***************************************************************************)
TypedIsSet ==
    Returned("boot") /\ job.magic /\ out[1].r.asktime /\ Len(job.keys) = 15 /\ (\A k \in 1..14 : job.keys[k] \in 2..11) =>
        \A k \in 1..14 : TimeShown(out[1])[k] = (job.keys[k] - 1) % 10

(***************************************************************************)
(* The clock is set, whatever was typed.  A year before 2000 that ends     *)
(* with 80 or more is read as a binary one, which is negative, and the     *)
(* loop over the years goes on to 2^64 (src/src/core/env.c:77, 89).        *)
(***************************************************************************)
ClockSet == Returned("boot") /\ job.magic => ~out[1].ts.hangs

(***************************************************************************)
(* A key sets what it names and nothing else does.  A switch that is on by *)
(* default cannot be turned off (src/src/core/env.c:164), "internet=" and  *)
(* "spacemode=" are never found before a value (450, 454), what is in a    *)
(* comment between "/*" and its end is read (442), the last letters of an  *)
(* unknown key may be a known one (platform_parse), a number in            *)
(* hexadecimal goes on from the value before (107), and the letters in the *)
(* middle of a debug flag set others: "malloc" sets the log too (252).     *)
(***************************************************************************)
KeysMean ==
    Returned("boot") /\ job.magic =>
        LET r == out[1].r IN \A f \in DOMAIN job.meant :
            CASE f = "flags" -> r.flags = job.meant.flags
              [] f = "quantum" -> r.quantum = job.meant.quantum
              [] f = "debug" -> r.debug = job.meant.debug
              [] f = "display" -> r.display = job.meant.display
              [] f = "lang" -> r.lang = job.meant.lang
              [] f = "tz" -> r.tz = job.meant.tz
=============================================================================
