------------------------------- MODULE MCCalls ------------------------------
(***************************************************************************)
(* Bounded inputs.                                                         *)
(***************************************************************************)
EXTENDS Calls

Texts(S, n) == BoundedSeq(S, n)
\* a string in memory: its terminator and one more byte
Strings(S, n) == {t \o <<0, x>> : t \in Texts(S, n), x \in {0, 98}}

Below(x, y) == x < y
Elements(keys) == [i \in DOMAIN keys |-> [key |-> keys[i], id |-> i]]
Arrays(n, S) == {Elements(k) : k \in [1..n -> S]}
\* a long array, as it comes out of a linear congruence
Long(n, k, m) == Elements([i \in 1..n |-> (i * k) % m])

SortJobs ==
    {[fn |-> "qsort", a |-> a] :
        a \in UNION {Arrays(n, 0..1) : n \in {0, 1, 6, 7, 9}} \cup Arrays(7, 0..2)
            \cup {Long(41, k, m) : k \in 1..6, m \in {5, 41, 43}} \cup {Long(48, 47, 47)}}
    \cup {[fn |-> "bsearch", a |-> Elements(SetToSortSeq(S, Below)), key |-> k] :
            S \in SUBSET (1..5), k \in 0..6}

CopyJobs ==
    {[fn |-> "memcpy", src |-> s, dst |-> d, n |-> n] :
        s \in {0, 1, 8, 15}, d \in {0, 8}, n \in (0..17) \cup (511..513) \cup {527, 528, 768, 1000}}
    \cup {[fn |-> "memset", mem |-> [i \in 0..5 |-> i], dst |-> d, c |-> 9, n |-> n] :
            d \in 0..3, n \in 0..3}
    \cup {[fn |-> "memmove", mem |-> [i \in 0..7 |-> i], dst |-> d, src |-> s, n |-> n] :
            d \in 0..4, s \in 0..4, n \in 0..3}

Points == {0, 65, 97, 127, 128, \h7FF, \h800, \hFFFF, \h10000, \h10FFFF}
            \cup {2 ^ k + 1 : k \in 7..20} \cup (\h400..\h44F)

\* texts with characters of two bytes, capitals only: see LowerStable
TwoBytes == {<<208, 144, 0, 98>>, <<65, 208, 144, 0, 98>>, <<208, 144, 97, 0, 98>>,
             <<208, 144, 208, 144, 0, 98>>}

TextJobs ==
    {[fn |-> "utf8", u |-> u] : u \in Points}
    \cup {[fn |-> "copy", b |-> b, c |-> c, n |-> n] :
            b \in {<<0, 1, 2, 3, 4, 5>>, <<98, 0, 2, 3, 4, 5>>},
            c \in Strings({65, 97}, 3) \cup TwoBytes, n \in 0..4}
    \cup {[fn |-> "compare", b |-> b, c |-> c, n |-> n] :
            b \in Strings({65, 97, 98}, 2), c \in Strings({65, 97, 98}, 2), n \in 0..2}
    \cup {[fn |-> "tokens", b |-> b, c |-> <<44, 59>>] : b \in Strings({44, 59, 97}, 4)}
    \cup {[fn |-> "exit", regs |-> r] : r \in BoundedSeq({"f", "g", "h"}, 4)}
    \cup {[fn |-> "search", b |-> b, c |-> c, n |-> n] :
            b \in Strings({65, 97, 98}, 3), c \in {<<97, 0>>, <<97, 98, 0>>}, n \in 0..3}
    \cup {[fn |-> "path", b |-> b] : b \in Strings({47, 97}, 5) \ Strings({47, 97}, 0)}

\* decimal and hexadecimal numbers with their value
Decimal(v) == IF v < 10 THEN <<48 + v>> ELSE <<48 + (v \div 10), 48 + (v % 10)>>
NumberJobs ==
    {[fn |-> "atoi", b |-> Decimal(v) \o <<0>>, v |-> v] : v \in 0..99}
    \cup {[fn |-> "atoi", b |-> <<45>> \o Decimal(v) \o <<120>>, v |-> v] : v \in 0..99}
    \cup {[fn |-> "atoi", b |-> <<48, 120, h, 49, 0>>, v |-> 16 * HexValue(h) + 1] : h \in {49, 97, 70}}

-----------------------------------------------------------------------------
(* Images and disks *)

File(p, data) == [path |-> p, kind |-> "file", data |-> data, ext |-> ""]
Dir(p) == [path |-> p, kind |-> "dir", data |-> <<>>, ext |-> ""]
Link(p, to) == [path |-> p, kind |-> "lnk", data |-> to, ext |-> ""]

\* contents of every form: in the inode, one sector, several with their numbers
\* in the inode or in a sector; with empty units and an empty sector
Contents0 == {<<>>, <<5>>, <<5, 0>>, <<1, 2, 3>>, <<1, 2, 3, 4>>, <<0, 0, 0>>, <<1, 2, 3, 4, 5>>,
              <<1, 2, 3, 4, 5, 6, 7>>, <<1, 2, 3, 4, 5, 6, 7, 8, 9, 0>>, <<1, 0, 3, 4, 0, 0, 0, 0, 9>>}
\* names that begin another one, differ in case or go on with a character that
\* is before '/'
RootNames == {<<97>>, <<97, 98>>, <<97, 45>>, <<65>>, <<98>>}
Trees0 == {[i \in 1..3 |-> File(ns[i], <<i>>)] : ns \in {f \in [1..3 -> RootNames] : IsInjective(f)}}
Trees1 == {<<Dir(<<115>>), File(n, <<7>>), Dir(<<115, 47, 97>>), File(<<115, 47, 97, 47>> \o m, c), File(<<115, 47, 99>>, <<9>>)>> :
                n \in RootNames \ {<<97>>}, m \in {<<97>>, <<97, 98>>}, c \in Contents0}
Trees2 == {<<Dir(<<97>>), File(<<97, 47>> \o m, <<8>>), Dir(<<98>>), Link(<<98, 47, 98>>, <<97>>), File(<<98, 47>> \o n, <<8, 8>>)>> :
                m, n \in {<<97>>, <<97, 98>>}}
\* a name more than a directory has room for, and a directory too deep
Trees3 == {<<Dir(<<97>>), File(<<97, 45>>, <<1>>)>>, <<File(<<97>>, <<>>), File(<<98>>, <<>>), File(<<99>>, <<>>), File(<<100>>, <<>>)>>}

ImageJobs ==
    {[fn |-> "image", tree |-> t, initrd |-> i, cmds |-> <<>>] :
        t \in Trees0 \cup Trees1 \cup Trees2 \cup Trees3, i \in BOOLEAN}
    \cup {[fn |-> "image", tree |-> t, initrd |-> TRUE, cmds |-> c] : t \in Trees2,
            c \in {<<[cmd |-> "union", path |-> <<99>>, to |-> << <<97>>, <<98>> >>]>>,
                   <<[cmd |-> "symlink", path |-> <<99>>, to |-> <<97, 47, 97>>]>>,
                   <<[cmd |-> "link", path |-> <<98, 47, 99>>, to |-> <<97, 47, 97>>]>>,
                   <<[cmd |-> "mime", path |-> <<97, 47, 97>>, to |-> "appl"]>>}}

Tree == <<File(<<97>>, <<1, 2, 3>>), File(<<98>>, <<1, 2, 3, 4, 5>>)>>
VolumeJobs ==
    {[fn |-> "volume", tree |-> Tree, initrd |-> FALSE, cmds |-> <<>>, list |-> l, n |-> n,
      vol |-> [img |-> FAILED, devsec |-> s, freesecfid |-> IF l = <<>> THEN 0 ELSE 7, lastsec |-> 3, got |-> <<>>]] :
        l \in {<<>>, <<[sec |-> 20, n |-> 1], [sec |-> 30, n |-> 2]>>}, n \in 0..5, s \in {7, 9, 40}}

LangJobs == {[fn |-> "lang", lines |-> l, has |-> h, lang |-> "hu"] : h \in {"hu", "en", "de"}, l \in [1..NStrings -> {<<97>>, <<97, 98>>}] \cup {<< <<97>> >>}}

DiskJobs ==
    {[fn |-> "disk", disk |-> [iso |-> iso, loader |-> l,
        size |-> "esp" :> 8 * e @@ "root86" :> 8 * r @@ "rootA64" :> 8 * x @@ "usr86" :> 8 @@ "usrA64" :> 8 * x
                 @@ "var" :> 16 @@ "home" :> 8 * e]] :
        iso \in BOOLEAN, e \in 1..2, r \in 0..2, x \in 0..1,
        l \in {[part |-> "esp", at |-> k] : k \in {0, 1, 4}} \cup {[part |-> "root86", at |-> k] : k \in {0, 4}}}
    \cup {[fn |-> "rom", left |-> [six |-> 0, others |-> n]] : n \in {0, 1, 255, 256, 700}}

-----------------------------------------------------------------------------
(* Console *)

\* n different characters, every k-th one the end of a line
Lines0(n, k) == [i \in 1..n |-> IF i % k = 0 THEN LF ELSE 33 + i]
Item(k, n, v) == [k |-> k, n |-> n, v |-> v]

ScreenJobs ==
    {[fn |-> "kprintf", maxx |-> x, maxy |-> y, keys |-> ks, fmt |-> <<Item("t", 0, Lines0(n, k))>>, log |-> l] :
        x \in 4..5, y \in 4..5, ks \in {<<>>, <<ESC>>, <<57, ESC>>}, n \in {3 * i : i \in 0..22}, k \in {2, 3, 7, 100}, l \in BOOLEAN}
    \cup {[fn |-> "kprintf", maxx |-> 12, maxy |-> 4, keys |-> <<>>, fmt |-> <<it, Item("t", 0, <<65>>)>>, log |-> FALSE] :
            it \in {Item("d", n, v) : n \in {0, 2, 3}, v \in {0, 7, -7, 123, 99999}}
               \cup {Item("x", n, v) : n \in 0..2, v \in {0, 10, 255, 4095}}
               \cup {Item("s", n, v) : n \in {0, 2}, v \in {NoText, <<97, 98, 99>>, <<97>>}}
               \cup {Item("S", n, <<97, 200, 98>>) : n \in {0, 2}}
               \cup {Item("a", n, [i \in 1..8 |-> 96 + i]) : n \in {0, 3}} \cup {Item("A", n, [i \in 1..8 |-> 20 * i]) : n \in {0, 3}}
               \cup {Item("b", 0, 5), Item("%", 0, 0), Item("c", 0, 66), Item("U", 0, [d1 |-> 1, d2 |-> 2, d3 |-> 3, d4 |-> [i \in 1..8 |-> i]])}
               \cup {Item("D", 2, [addr |-> a, mem |-> [i \in 0..40 |-> i]]) : a \in {0, 20}}
               \cup {Item("P", 2, [addr |-> a, mem |-> [i \in 0..9 |-> i]]) : a \in {0, 8, 9}}
               \cup {Item("p", 0, [addr |-> 5, entries |-> <<1, 2, 3>>])}
               \cup {Item("T", 0, [addr |-> 8, mapped |-> TRUE, magic |-> TRUE, state |-> 1, flags |-> 0, cpuid |-> 0, pid |-> 3, parent |-> 2,
                            forklevel |-> 0, priority |-> 4, prev |-> 0, next |-> 0, memroot |-> 9, allocmem |-> 5, linkmem |-> 6,
                            pc |-> 7, sp |-> 8, cmdline |-> 9, cmd |-> c]) : c \in {NoText, <<97>>}}
               \cup {Item("T", 0, [addr |-> 8, mapped |-> m, magic |-> FALSE]) : m \in BOOLEAN}}
    \cup {[fn |-> "panic", maxx |-> x, maxy |-> 8, keys |-> <<>>,
           panic |-> [reason |-> <<Item("t", 0, Lines0(n, 100))>>, fault |-> f, level |-> l, space |-> s, debug |-> d, resets |-> r, pc |-> 7]] :
            x \in {6, 10}, n \in {0, 2, 9}, f, s, d, r \in BOOLEAN, l \in {"boot", "init", "norm"}}
    \cup {[fn |-> "off", maxx |-> 8, maxy |-> 6, keys |-> <<>>, resets |-> r, msg |-> <<65, 66, 67>>] : r \in BOOLEAN}

LibcItems ==
    {Item("t", 0, t) : t \in {<<>>, <<97, 98, 99>>}} \cup {Item("d", n, v) : n \in {0, 3}, v \in {0, -7, 123, 1234}}
    \cup {Item("s", n, v) : n \in {0, 2, 4}, v \in {<<>>, <<97, 98, 99>>}}
FormatJobs ==
    {[fn |-> "printf", fmt |-> f] : f \in BoundedSeq(LibcItems, 2)}
    \cup {[fn |-> "printf", fmt |-> <<it>>] : it \in {Item("x", 2, 700), Item("c", 0, 65), Item("%", 0, 0), Item("a", 3, [i \in 1..8 |-> 96 + i]),
                Item("U", 0, [d1 |-> 1, d2 |-> 2, d3 |-> 3, d4 |-> [i \in 1..8 |-> i]])}}
    \cup {[fn |-> "sprintf", fmt |-> <<it>>] : it \in LibcItems}
    \cup {[fn |-> "snprintf", size |-> n, fmt |-> <<it>>] : n \in 4..6, it \in LibcItems}
    \cup {[fn |-> "perror", cmd |-> <<99>>, err |-> <<101>>, fmt |-> f] : f \in {<<>>, <<Item("t", 0, <<97, 98, 99>>)>>}}
    \cup {[fn |-> "ttyname", tty |-> t, ino |-> 7, len |-> n] : t \in BOOLEAN, n \in {0, 4, 8}}

-----------------------------------------------------------------------------
(* Environment *)

Date(y, m, d) == [y |-> y, m |-> m, d |-> d, h |-> 23, i |-> 59, s |-> 58]
Boot(form, date, tz, text, keys, meant) ==
    [fn |-> "boot", form |-> form, date |-> date, tz |-> tz, text |-> text, keys |-> keys, meant |-> meant, junk |-> 7, magic |-> TRUE,
     p |-> CASE form = "bcd" -> BcdDate(date) [] form = "binary" -> BinaryDate(date) [] form = "none" -> NoDate]
Meant == [m \in {} |-> 0]
ASK == <<KeyCode("tz"), 97, 115, 107, 10>>

\* a key with its value and what it means
Defaults == {"syslog", "internet", "sound", "print"}
Settings ==
    {<< <<KeyCode("lang"), 104, 117, 10>>, [lang |-> <<104, 117>>]>>, << <<KeyCode("tz"), 45, 54, 48, 10>>, [tz |-> -60]>>,
     << <<KeyCode("quantum"), 53, 48, 10>>, [quantum |-> 50]>>, << <<KeyCode("aslr"), 49, 10>>, [flags |-> Defaults \cup {"aslr"}]>>,
     << <<KeyCode("dmabuf"), 53, 10, KeyCode("rescueshell"), 110, 10>>, [flags |-> Defaults]>>,
     << <<35, KeyCode("aslr"), 49, 10>>, [flags |-> Defaults]>>, << <<KeyCode("debug"), 112, 109, 10>>, [debug |-> {"pmm"}]>>,
     << <<KeyCode("debug"), 50, 10>>, [debug |-> {"number"}]>>, << <<KeyCode("debug"), 110, 111, 10>>, [debug |-> {}]>>,
     << <<KeyCode("display"), 115, 99, 44, 97, 98, 10>>, [display |-> PBT_STEREO_COLOR]>>,
     << <<KeyCode("display"), 50, 44, 97, 58, 98, 10>>, [display |-> PBT_STEREO_MONO]>>,
     \* sound=no, internet=no, a comment, a key that ends like another, quantum=0x40, debug=malloc
     << <<KeyCode("sound"), 110, 111, 10>>, [flags |-> Defaults \ {"sound"}]>>,
     << <<KeyCode("internet"), 110, 111, 10>>, [flags |-> Defaults \ {"internet"}]>>,
     << <<47, 42, KeyCode("aslr"), 49, 42, 47, 10>>, [flags |-> Defaults]>>, << <<109, KeyCode("aslr"), 49, 10>>, [flags |-> Defaults]>>,
     << <<KeyCode("quantum"), 48, 120, 52, 48, 10>>, [quantum |-> 64]>>,
     << <<KeyCode("debug"), 109, 97, 108, 108, 111, 99, 10>>, [debug |-> {"malloc"}]>>}

BootJobs ==
    {Boot(f, Date(y, m, d), tz, <<>>, <<>>, Meant) :
        f \in {"bcd"}, y \in (2016..2024) \cup {2079, 2100, 2101, 2179, 2200, 2400, 2401, 2979, 3000}, m \in 1..12, d \in {1, 28}, tz \in {0, 60, 2000}}
    \cup {Boot("binary", Date(y, m, 28), 0, <<>>, <<>>, Meant) : y \in {2010, 2020, 2047, 2048, 2060}, m \in {1, 12}}
    \cup {Boot(f, Date(2020, 5, 9), tz, ASK, pre \o ks \o <<ENTER>>, Meant) : f \in {"bcd", "none"}, tz \in {0, 1440, 1990},
            pre \in {[i \in 1..n |-> RIGHT] : n \in (4..9) \cup (13..17)}, ks \in BoundedSeq({LEFT, RIGHT, UP, DOWN, 11, 10, 5}, 2)}
    \cup {Boot("bcd", Date(2020, 5, 9), 0, ASK, <<3, 11, 3, 11, 2, 11, 3, 11, 2, 11, 2, 11, 2, 11, ENTER>>, Meant)}
    \cup {Boot("none", Date(2020, 5, 9), 0, <<>>, <<2, 10, 10, 10, ENTER>>, Meant)}
    \cup {Boot("bcd", Date(2020, 5, 9), 0, s[1], <<>>, s[2]) : s \in Settings}
    \cup {[Boot("none", Date(2020, 5, 9), 0, <<>>, <<ENTER>>, Meant) EXCEPT !.magic = FALSE]}

AllJobs == ScreenJobs \cup FormatJobs \cup BootJobs \cup SortJobs \cup CopyJobs \cup TextJobs \cup NumberJobs
          \cup ImageJobs \cup VolumeJobs \cup LangJobs \cup DiskJobs
=============================================================================
