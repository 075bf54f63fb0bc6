-------------------------------- MODULE Libc --------------------------------
(***************************************************************************)
(* The algorithms of libc that are not one message to a service:           *)
(* src/src/libc/qsort.c, src/src/libc/stdlib.c and the string functions of *)
(* CString.  The properties compare what a call returns with what the      *)
(* header files promise.                                                   *)
(***************************************************************************)
EXTENDS CString, Job, FiniteSets, TLC

CONSTANTS Word      \* one more than the largest uint32_t, scaled down

-----------------------------------------------------------------------------
(* qsort: the elements are compared by their key *)

Smaller(x, y) == x.key < y.key
Swapped(a, i, j) == [a EXCEPT ![i] = a[j], ![j] = a[i]]

\* the next element goes down as long as the one before it is larger
Insert(a, x) ==
    LET k == LastOf({0} \cup {i \in DOMAIN a : ~Smaller(x, a[i])})
    IN InsertAt(a, k + 1, x)

InsertionSort(a) == FoldLeft(Insert, <<>>, a)

med3(a, i, j, k) ==
    IF Smaller(a[i], a[j])
    THEN IF Smaller(a[j], a[k]) THEN j ELSE IF Smaller(a[i], a[k]) THEN k ELSE i
    ELSE IF Smaller(a[k], a[j]) THEN j ELSE IF Smaller(a[i], a[k]) THEN i ELSE k

Pivot(a) ==
    LET n == Len(a)
        d == n \div 8
        m == n \div 2 + 1
    IN CASE n <= 7 -> m
         [] n > 7 /\ n <= 40 -> med3(a, 1, m, n)
         [] n > 40 -> med3(a, med3(a, 1, 1 + d, 1 + 2 * d), med3(a, m - d, m, m + d),
                           med3(a, n - 2 * d, n - d, n))

\* the elements equal to the first one go to both ends, the smaller ones to
\* the left of pb, the larger ones to the right of pc
RECURSIVE Partition(_)
Partition(p) ==
    LET a == p.a
        v == a[1].key
    IN IF p.pb > p.pc THEN p
       ELSE IF a[p.pb].key = v
       THEN Partition([p EXCEPT !.a = Swapped(a, p.pa, p.pb), !.pa = @ + 1, !.pb = @ + 1, !.cnt = 1])
       ELSE IF a[p.pb].key < v THEN Partition([p EXCEPT !.pb = @ + 1])
       ELSE IF a[p.pc].key = v
       THEN Partition([p EXCEPT !.a = Swapped(a, p.pc, p.pd), !.pd = @ - 1, !.pc = @ - 1, !.cnt = 1])
       ELSE IF a[p.pc].key > v THEN Partition([p EXCEPT !.pc = @ - 1])
       ELSE Partition([p EXCEPT !.a = Swapped(a, p.pb, p.pc), !.pb = @ + 1, !.pc = @ - 1, !.cnt = 1])

vecswap(a, i, j, n) ==
    [k \in DOMAIN a |-> IF k \in i..(i + n - 1) THEN a[j + (k - i)]
                        ELSE IF k \in j..(j + n - 1) THEN a[i + (k - j)] ELSE a[k]]

\* the equal ones from the ends to the middle; the rest of each side is sorted
Gathered_left(p) ==
    LET n == Len(p.a) IN vecswap(p.a, 1, p.pb - Least2(p.pa - 1, p.pb - p.pa),
                                 Least2(p.pa - 1, p.pb - p.pa))

Gathered(p) ==
    LET n  == Len(p.a)
        r1 == Least2(p.pa - 1, p.pb - p.pa)
        r2 == Least2(p.pd - p.pc, n - p.pd)
    IN vecswap(vecswap(p.a, 1, p.pb - r1, r1), p.pb, n + 1 - r2, r2)

RECURSIVE qsort(_)
qsort(a) ==
    IF Len(a) < 7 THEN InsertionSort(a)
    ELSE LET n == Len(a)
             p == Partition([a |-> Swapped(a, 1, Pivot(a)), pa |-> 2, pb |-> 2,
                             pc |-> n, pd |-> n, cnt |-> 0])
             g == Gathered(p)
             l == p.pb - p.pa
             r == p.pd - p.pc
         IN IF p.cnt = 0 THEN InsertionSort(p.a)
            ELSE qsort(SubSeq(g, 1, l)) \o SubSeq(g, l + 1, n - r) \o qsort(SubSeq(g, n - r + 1, n))

\* bsearch: the half that may hold the key
RECURSIVE Halve(_, _, _, _)
Halve(a, key, s, e) ==
    LET m == s + (e - s) \div 2
    IN IF s >= e THEN Null
       ELSE IF key < a[m + 1].key THEN Halve(a, key, s, m)
       ELSE IF key > a[m + 1].key THEN Halve(a, key, m + 1, e)
       ELSE m

bsearch(a, key) == Halve(a, key, 0, Len(a))

-----------------------------------------------------------------------------
(* Numbers *)

Digits == 48..57
HexValue(c) == CASE c \in Digits -> c - 48
                 [] c \in 97..102 -> c - 87
                 [] c \in 65..70 -> c - 55
                 [] OTHER -> 0
HexDigits == Digits \cup 97..102 \cup 65..70

\* the first byte counts whatever it is, the others as long as they are digits
Run(b, digits) == SubSeq(b, 1, FirstOf({i \in 1..(Len(b) + 1) : At(b, i) \notin digits}))

Clipped(v, max) == IF v > max THEN max ELSE v

stdlib_hex(b) ==
    LET s == IF At(b, 0) = 48 /\ At(b, 1) = 120 THEN From(b, 2) ELSE b
    IN FoldLeft(LAMBDA v, c : v * 16 + HexValue(c), 0, Run(s \o <<0>>, HexDigits))

stdlib_dec(b) ==
    IF At(b, 0) = 48 /\ At(b, 1) = 120 THEN stdlib_hex(From(b, 2))
    ELSE FoldLeft(LAMBDA v, c : v * 10 + (c - 48), 0, Run(b \o <<0>>, Digits))

atoi_unsigned(b) == Clipped(stdlib_dec(b), Word - 1)

\* clipped as a uint32_t and returned as an int
atoi(b) ==
    LET neg == At(b, 0) = 45
        r   == stdlib_dec(IF neg THEN From(b, 1) ELSE b)
        v   == IF r < 0 THEN Word - 1 ELSE Clipped(r, Word - 1)  \* r < 0 is a large uint64_t
        i   == IF v < Word \div 2 THEN v ELSE v - Word
    IN IF neg THEN 0 - i ELSE i

-----------------------------------------------------------------------------
(* atexit and exit: the functions that run, for a sequence of registrations *)

atexit_twice(hooks, f) == Append(hooks, f)

atexit(hooks, f) == IF f \in ToSet(hooks) THEN hooks ELSE Append(hooks, f)

exit(regs) == Reverse(FoldLeft(atexit, <<>>, regs))

-----------------------------------------------------------------------------
(* The calls *)

LibcResult(j) ==
    CASE j.fn = "qsort" -> qsort(j.a)
      [] j.fn = "bsearch" -> bsearch(j.a, j.key)
      [] j.fn = "atoi" -> atoi(j.b)
      [] j.fn = "exit" -> exit(j.regs)
      [] j.fn = "memcpy" -> Pieces(j.src, j.n)
      [] j.fn = "memmove" -> memmove(j.mem, j.dst, j.src, j.n)
      [] j.fn = "memset" -> memset(j.mem, j.dst, j.c, j.n)
      [] j.fn = "utf8" -> LET b == chr(j.u) IN
            [ord |-> ord(b), len |-> mbstrlen(b), low |-> lower(j.u)]
      [] j.fn = "copy" ->
            [len |-> strlen(j.c), nlen |-> strnlen(j.c, j.n), mb |-> mbstrnlen(j.c, j.n),
             cpy |-> strcpy(j.b, j.c), ncpy |-> strncpy(j.b, j.c, j.n),
             cat |-> strcat(j.b, j.c), ncat |-> strncat(j.b, j.c, j.n),
             ccpy |-> strcasecpy(j.b, j.c), nccpy |-> strncasecpy(j.b, j.c, j.n),
             dup |-> strdup(j.c), ndup |-> strndup(j.c, j.n), cdup |-> strcasedup(j.c),
             ncdup |-> strncasedup(j.c, j.n)]
      [] j.fn = "compare" ->
            [cmp |-> strcmp(j.b, j.c), ncmp |-> strncmp(j.b, j.c, j.n),
             casecmp |-> strcasecmp(j.b, j.c), ncasecmp |-> strncasecmp(j.b, j.c, j.n)]
      [] j.fn = "search" ->
            [chr |-> memchr(j.b, j.c[1], j.n), rchr |-> memrchr(j.b, j.c[1], j.n),
             schr |-> strchr(j.b, j.c[1]), srchr |-> strrchr(j.b, j.c[1]),
             str |-> strstr(j.b, j.c), rstr |-> strrstr(j.b, j.c),
             cstr |-> strcasestr(j.b, j.c), rcstr |-> strrcasestr(j.b, j.c)]
      [] j.fn = "path" -> [base |-> basename(j.b), dir |-> dirname(j.b)]
      [] j.fn = "tokens" ->
            [tok |-> strtok(j.b, j.c), tokr |-> strtok_r(j.b, j.c), sep |-> strsep(j.b, j.c)]

LibcCalls == {"qsort", "bsearch", "atoi", "exit", "memcpy", "memmove", "memset", "utf8",
              "copy", "compare", "search", "path", "tokens"}

-----------------------------------------------------------------------------
(* What the header files promise *)

Ordered(a) == \A i, k \in DOMAIN a : i < k => a[i].key <= a[k].key
Contents(a) == [e \in ToSet(a) |-> Cardinality({i \in DOMAIN a : a[i] = e})]

\* qsort returns the same elements in order, whichever of its three ways to
\* sort it takes for a part; bsearch finds a key exactly when it is there.
SortRight ==
    /\ Returned("qsort") => /\ Ordered(out[1])
                      /\ Contents(out[1]) = Contents(job.a)
    /\ Returned("bsearch") => IF out[1] = Null THEN \A i \in DOMAIN job.a : job.a[i].key # job.key
                        ELSE job.a[out[1] + 1].key = job.key

(* The parts of LibcRight. *)

\* memcpy copies every byte exactly once, whatever the length and the
\* alignment; memset stays inside its area.
MemoryRight ==
    /\ Returned("memcpy") => LET p == out[1] IN
            p.head + 256 * p.blocks + 8 * p.quads + p.bytes = job.n
    /\ Returned("memset") => \A a \in DOMAIN job.mem :
            out[1][a] = IF a >= job.dst /\ a < job.dst + job.n THEN job.c ELSE job.mem[a]

Bounded(c, n) == SubSeq(Text(c), 1, Least2(n, Len(Text(c))))
IsText(b, text) == SubSeq(b, 1, Len(text) + 1) = text \o <<0>>

\* characters begin with a byte that continues none
Characters(t) == Cardinality({i \in DOMAIN t : t[i] \notin 128..191})

\* a text in small letters: A to Z, and U+0410 to U+041F, whose first byte is 208
SmallLetters(t) ==
    [i \in DOMAIN t |-> IF t[i] \in 65..90 \/ (i > 1 /\ t[i - 1] = 208 /\ t[i] \in 144..159)
                       THEN t[i] + 32 ELSE t[i]]

\* strcpy, strncpy, strcat, strncat, strdup, strndup and strcasedup leave the
\* text up to its terminator or to the bound in bytes, with a terminator; strncpy
\* changes nothing behind it.  strlen, strnlen and mbstrnlen count its bytes
\* and characters.  A code point comes back from its UTF-8 bytes.  The
\* functions of atexit run once each, the last one first.
TextRight ==
    /\ Returned("copy") => LET o == out[1] t == Text(job.c) u == Text(job.b) IN
            /\ o.len = Len(t) /\ o.nlen = Len(Bounded(job.c, job.n))
            /\ o.mb = Characters(Bounded(job.c, job.n))
            /\ IsText(o.cpy, t) /\ IsText(o.dup, t) /\ IsText(o.cat, u \o t)
            /\ job.n > 0 => /\ IsText(o.ncpy, Bounded(job.c, job.n))
                            /\ IsText(o.ncat, u \o Bounded(job.c, job.n))
                            /\ From(o.ncpy, o.nlen + 1) = From(job.b, o.nlen + 1)
            /\ IsText(o.ndup, Bounded(job.c, job.n))
            /\ IsText(o.cdup, SmallLetters(t))
    /\ Returned("utf8") => out[1].ord = job.u /\ out[1].len = (IF job.u = 0 THEN 0 ELSE 1)
    /\ Returned("exit") => /\ ToSet(out[1]) = ToSet(job.regs)
                     /\ Cardinality(ToSet(out[1])) = Len(out[1])
                     /\ \A i, k \in DOMAIN out[1] : i < k =>
                            IndexFirstSubSeq(<<out[1][i]>>, job.regs)
                                > IndexFirstSubSeq(<<out[1][k]>>, job.regs)

\* the parts of a text between single delimiters
RECURSIVE Fields(_, _)
Fields(t, delim) ==
    LET k == FirstOf({i \in 0..(Len(t) - 1) : At(t, i) \in ToSet(delim)})
    IN IF k = Null THEN <<t>> ELSE <<SubSeq(t, 1, k)>> \o Fields(From(t, k + 1), delim)

\* strtok_r returns the parts that are not empty, strsep every part, but for an
\* empty one at the end.  strcmp and strcasecmp are zero for equal texts only,
\* as long as these are not empty.
TokensRight ==
    /\ Returned("tokens") => LET f == Fields(Text(job.b), job.c) IN
            /\ out[1].tokr = SelectSeq(f, LAMBDA t : t # <<>>)
            /\ out[1].sep = IF Last(f) = <<>> THEN Front(f) ELSE f
    /\ Returned("compare") /\ Text(job.b) # <<>> =>
            /\ (out[1].cmp = 0) <=> Text(job.b) = Text(job.c)
            /\ (out[1].casecmp = 0) <=> SmallLetters(Text(job.b)) = SmallLetters(Text(job.c))

\* where one text is in another; CasePlaces: in capitals or small letters
Occurs(b, c, i) == SubSeq(Text(b), i + 1, i + Len(Text(c))) = Text(c)
Places(b, c) == {i \in 0..(Len(Text(b)) - Len(Text(c))) : Occurs(b, c, i)}
CasePlaces(b, c) == Places(SmallLetters(b), SmallLetters(c))
BytePlaces(b, c, n) == {i \in 0..(n - 1) : At(b, i) = c}

\* memchr finds the first byte.  What strchr, strrchr, strstr and strrstr find
\* is the first place or, for those with an r, the last one; what strcasestr
\* and strrcasestr find is one of the places.
SearchRight ==
    Returned("search") => LET o == out[1] P == Places(job.b, job.c)
                              K == CasePlaces(job.b, job.c)
                              C == Places(job.b, <<job.c[1], 0>>) IN
            /\ o.chr = FirstOf(BytePlaces(job.b, job.c[1], job.n))
            /\ o.schr \in {Null, FirstOf(C)} /\ o.srchr \in {Null, HANGS, LastOf(C)}
            /\ o.str \in {Null, FirstOf(P)} /\ o.rstr \in {Null, LastOf(P)}
            /\ o.cstr = Null \/ o.cstr \in K
            /\ o.rcstr = Null \/ o.rcstr \in K

\* A number in decimal digits or after 0x in hexadecimal ones is read, with
\* its sign, when it fits into an int; one past the uint32_t it is clipped at
\* comes back as -1, after a minus as 1.
NumberRight ==
    Returned("atoi") => LET sign == IF At(job.b, 0) = 45 THEN -1 ELSE 1 IN
        IF job.v < Word \div 2 THEN out[1] = sign * job.v
        ELSE job.v >= Word => out[1] = 0 - sign

\* The functions that the six parts above name return and leave in memory what
\* their header files say (string.c, qsort.c, stdlib.c).  Of memmove, memrchr,
\* strncmp, strncasecmp, strcasecpy, strncasecpy, strncasedup, basename, dirname
\* and strtok, and of a comparison with an empty text, nothing is said here,
\* nor that a search finds what is there: the properties below, each of which
\* fails, say what is wrong with them.
LibcRight ==
    SortRight /\ MemoryRight /\ TextRight /\ TokensRight /\ SearchRight /\ NumberRight

-----------------------------------------------------------------------------
(* What the headers say and the code does not do *)

\* memmove keeps the bytes of the source, overlapping or not (string.h:41).
MoveKeeps ==
    Returned("memmove") => \A k \in 0..(job.n - 1) : out[1][job.dst + k] = job.mem[job.src + k]

\* The block copy of memcpy stores with movntdq, which needs an aligned
\* destination (x86_64/string.S:101).
BulkAligned ==
    Returned("memcpy") /\ out[1].blocks > 0 => (job.dst + out[1].head) % 16 = 0

\* A text that is there is found by strstr and the three like it (string.h:110,112),
\* a character by strchr.
SearchFinds ==
    Returned("search") => LET o == out[1] IN
        /\ Places(job.b, job.c) # {} => Null \notin {o.str, o.rstr}
        /\ CasePlaces(job.b, job.c) # {} => Null \notin {o.cstr, o.rcstr}
        /\ Places(job.b, <<job.c[1], 0>>) # {} => o.schr # Null

\* memrchr finds the last byte of the area: it begins one byte behind the area
\* and never looks at the first one (string.c:200).
LastByteFound ==
    Returned("search") => out[1].rchr = LastOf(BytePlaces(job.b, job.c[1], job.n))

\* strcasecpy and strncasecpy copy (string.h:94-97): they append, and leave the
\* destination as it is when there is nothing to copy (string.c:432,445).
CaseCopies ==
    Returned("copy") => LET o == out[1] IN
        /\ IsText(o.ccpy, SmallLetters(Text(job.c)))
        /\ job.n > 0 => IsText(o.nccpy, SmallLetters(Bounded(job.c, job.n)))

\* strncasedup writes to the block it has allocated and not beyond (string.c:495).
DupBounded == Returned("copy") => Len(out[1].ncdup.text) <= out[1].ncdup.size

\* strrchr returns (string.c:532).
SearchEnds == Returned("search") => out[1].srchr # HANGS

\* A small letter stays what it is (string.h:66).
LowerStable == Returned("utf8") => lower(out[1].low) = out[1].low

\* strncmp compares n bytes and no more (string.h:79).
CompareBounded ==
    Returned("compare") => ((out[1].ncmp = 0) <=> Bounded(job.b, job.n) = Bounded(job.c, job.n))

\* strncasecmp neither (string.h:83).
CaseCompareBounded ==
    Returned("compare") => ((out[1].ncasecmp = 0) <=> SmallLetters(Bounded(job.b, job.n))
                                                        = SmallLetters(Bounded(job.c, job.n)))

\* Two empty strings are equal, whatever follows them in memory.
EmptyEqual == Returned("compare") /\ Text(job.b) = <<>> /\ Text(job.c) = <<>> => out[1].cmp = 0

\* basename returns the whole name of the file (string.h:115).
NamesWhole ==
    Returned("path") => LET f == Fields(Text(job.b), <<SLASH>>) IN
        Len(f) > 1 /\ Last(f) # <<>> => out[1].base = Last(f)

\* dirname returns the whole path of the directory (string.h:117).
DirsWhole ==
    Returned("path") => LET f == Fields(Text(job.b), <<SLASH>>) IN
        Len(f) = 2 /\ <<>> \notin ToSet(f) => out[1].dir = f[1]

\* strtok finds all the parts (string.h:120).
StrtokGoesOn == Returned("tokens") => out[1].tok = out[1].tokr
=============================================================================
