------------------------------ MODULE CString -------------------------------
(***************************************************************************)
(* The string functions of libc (src/src/libc/string.c and                 *)
(* src/src/libc/x86_64/string.S).  A byte is a number.  A pointer is what  *)
(* it points to: the sequence of bytes from there on, the terminator and   *)
(* the bytes after it included; after the sequence there are zeros.  A     *)
(* result that is a pointer into an argument is an offset or Null, a new   *)
(* string is a sequence or NoText.                                         *)
(* A loop is written as the set of offsets at which it stops.              *)
(***************************************************************************)
EXTENDS Integers, Sequences, SequencesExt

Null == -1
NoText == <<-1>>
HANGS == -2
At(b, i) == IF i < Len(b) THEN b[i + 1] ELSE 0
From(b, i) == SubSeq(b, i + 1, Len(b))
Offsets(b) == 0..Len(b)
FirstOf(S) == IF S = {} THEN Null ELSE CHOOSE i \in S : \A j \in S : i <= j
LastOf(S) == IF S = {} THEN Null ELSE CHOOSE i \in S : \A j \in S : i >= j
Least2(m, n) == IF m < n THEN m ELSE n

-----------------------------------------------------------------------------
(* Memory: a function from addresses to bytes *)

\* memcpy: the sizes of the pieces it copies, in this order: up to the first
\* aligned address of the source, blocks of 256 bytes, 8 bytes, single bytes
Pieces_whole(src, n) ==
    LET head == IF n < 512 \/ src % 16 = 0 THEN 0 ELSE 16 - (src % 16)
    IN [head |-> head, blocks |-> IF n < 512 THEN 0 ELSE n \div 256,
        quads |-> (IF n < 512 THEN n ELSE n % 256) \div 8, bytes |-> n % 8]

Pieces(src, n) ==
    LET head == IF n < 512 \/ src % 16 = 0 THEN 0 ELSE 16 - (src % 16)
        left == n - head
        bulk == IF n < 512 THEN 0 ELSE left \div 256
        tail == left % 256
    IN [head |-> head, blocks |-> bulk,
        quads |-> (IF n < 512 THEN left ELSE tail) \div 8, bytes |-> left % 8]

memcpy(mem, dst, src, n) ==
    [a \in DOMAIN mem |-> IF a \in dst..(dst + n - 1) THEN mem[src + (a - dst)] ELSE mem[a]]

memset(mem, s, c, n) == [a \in DOMAIN mem |-> IF a \in s..(s + n - 1) THEN c ELSE mem[a]]

Overlap(p, q, n) == (p < q /\ p + n > q) \/ (q < p /\ q + n > p)

\* memmove: when the areas overlap the last byte is copied first, whichever of
\* the two areas is the lower one
memmove(mem, dst, src, n) ==
    IF Overlap(dst, src, n)
    THEN FoldLeft(LAMBDA m, k : [m EXCEPT ![dst + n - k] = m[src + n - k]],
                  mem, [k \in 1..n |-> k])
    ELSE memcpy(mem, dst, src, n)

memcmp(b, c, n) == IF \A i \in 0..(n - 1) : At(b, i) = At(c, i) THEN 0 ELSE 1

memchr(b, c, n) == FirstOf({i \in 0..(n - 1) : At(b, i) = c})

\* the offsets n, n - 1, ... 1
memrchr(b, c, n) == LastOf({i \in 1..n : At(b, i) = c})

\* as many tries as the lengths differ by: the last place is never tried
memmem(b, hl, c, nl) ==
    IF hl = 0 \/ nl = 0 \/ nl > hl THEN Null
    ELSE FirstOf({i \in 0..(hl - nl - 1) : memcmp(From(b, i), c, nl) = 0})

memrmem(b, hl, c, nl) ==
    IF hl = 0 \/ nl = 0 \/ nl > hl THEN Null
    ELSE LastOf({i \in 1..(hl - nl) : memcmp(From(b, i), c, nl) = 0})

-----------------------------------------------------------------------------
(* UTF-8 *)

Bits(u, from, n) == (u \div (2 ^ from)) % (2 ^ n)

chr(u) ==
    IF u < 128 THEN <<u>>
    ELSE IF u < 2048 THEN <<Bits(u, 6, 5) + 192, Bits(u, 0, 6) + 128>>
    ELSE IF u < 65536 THEN <<Bits(u, 12, 4) + 224, Bits(u, 6, 6) + 128, Bits(u, 0, 6) + 128>>
    ELSE <<Bits(u, 18, 3) + 240, Bits(u, 12, 6) + 128, Bits(u, 6, 6) + 128, Bits(u, 0, 6) + 128>>

\* how many bytes follow the first one
Follow(c) ==
    IF c < 128 THEN 0
    ELSE IF Bits(c, 5, 1) = 0 THEN 1
    ELSE IF Bits(c, 4, 1) = 0 THEN 2
    ELSE IF Bits(c, 3, 1) = 0 THEN 3 ELSE 0

\* the code point at the pointer; a byte with the five highest bits set is 0
ord(b) ==
    LET c    == At(b, 0)
        n    == Follow(c)
        More(i) == At(b, i) % 64
    IN CASE c < 128 -> c
         [] c >= 128 /\ n = 0 -> 0
         [] n = 1 -> (c % 32) * 64 + More(1)
         [] n = 2 -> (c % 16) * 4096 + More(1) * 64 + More(2)
         [] n = 3 -> (c % 8) * 262144 + More(1) * 4096 + More(2) * 64 + More(3)

\* the table of strtolower: ranges that are moved, ranges in which every
\* second one is a capital, and single ones
Moves == {<<65, 90, 32>>, <<\hC0, \hDE, 32>>, <<\h391, \h3AB, 32>>, <<\h410, \h43F, 32>>,
    <<\h400, \h40F, 80>>, <<\h530, \h558, 48>>, <<\h10A0, \h10C5, 48>>,
    <<\h660, \h669, 48 - \h660>>, <<\h6F0, \h6F9, 48 - \h6F0>>, <<\h7C0, \h7C9, 48 - \h7C0>>,
    <<\hED0, \hED9, 48 - \hED0>>, <<\hF20, \hF29, 48 - \h7C0>>, <<\h1040, \h1049, 48 - \h1040>>,
    <<\h1369, \h1372, 49 - \h1369>>, <<\h17E0, \h17E9, 48 - \h17E0>>,
    <<\h1810, \h1819, 48 - \h1810>>, <<\h19D0, \h19D9, 48 - \h19D0>>,
    <<\h1A80, \h1A89, 48 - \h1A80>>, <<\h1A90, \h1A99, 48 - \h1A90>>,
    <<\h1BB0, \h1BB9, 48 - \h1BB0>>, <<\h1C40, \h1C49, 48 - \h1C40>>,
    <<\h1C50, \h1C59, 48 - \h1C50>>, <<\h3021, \h3029, 49 - \h3021>>}
Evens == {<<\h100, \h136>>, <<\h14A, \h176>>, <<\h1A0, \h1A4>>, <<\h182, \h184>>, <<\h1DE, \h1EE>>,
    <<\h1F8, \h21E>>, <<\h222, \h232>>, <<\h246, \h24E>>, <<\h3D8, \h3FA>>, <<\h460, \h480>>,
    <<\h48A, \h4BE>>, <<\h4D0, \h524>>, <<\h1E00, \h1EF8>>}
Odds == {<<\h139, \h147>>, <<\h179, \h17D>>, <<\h1B3, \h1B5>>, <<\h1CD, \h1DB>>, <<\h4C1, \h4CD>>}
Singles == {<<\h178, \hFF>>, <<\h181, \h180>>, <<\h1F6, \h195>>, <<\h1F7, \h1BF>>, <<\h220, \h19E>>,
    <<\h23D, \h19A>>, <<\h243, \h180>>, <<\h3007, 48>>, <<\h18E, \h1DD>>, <<\h18F, \h1DD>>,
    <<\h1C4, \h1C6>>, <<\h1C5, \h1C6>>, <<\h1C7, \h1C9>>, <<\h1C8, \h1C9>>, <<\h1CA, \h1CC>>,
    <<\h1CB, \h1CC>>, <<\h1F1, \h1F3>>, <<\h1F2, \h1F3>>}
    \cup {<<u, u + 1>> : u \in {\h187, \h18B, \h191, \h198, \h19D, \h1A7, \h1AC, \h1AF, \h1B8,
                                \h1BC, \h1F4, \h23B, \h241}}

lower(u) ==
    LET moved == {r \in Moves : r[1] <= u /\ u <= r[2]}
        c     == IF moved = {} THEN u ELSE u + (CHOOSE r \in moved : TRUE)[3]
        In(R) == \E r \in R : r[1] <= c /\ c <= r[2]
        named == {r \in Singles : r[1] = c}
    IN IF c \in \h1F00..\h1FFF /\ c % 16 > 7 THEN c - 8
       ELSE IF (c % 2 = 0 /\ In(Evens)) \/ (c % 2 = 1 /\ In(Odds)) THEN c + 1
       ELSE IF named # {} THEN (CHOOSE r \in named : TRUE)[2] ELSE c

\* strtolower: the next character in small letters and how far the pointer goes
strtolower(b) == [c |-> chr(lower(ord(b))), len |-> 1 + Follow(At(b, 0))]

-----------------------------------------------------------------------------
(* Length and comparison *)

strlen(b) == FirstOf({i \in Offsets(b) : At(b, i) = 0})

strnlen(b, n) == FirstOf({i \in Offsets(b) : At(b, i) = 0 \/ i >= n})

\* the offsets at which the characters begin, up to the terminator
RECURSIVE Starts(_, _)
Starts(b, i) == IF At(b, i) = 0 THEN <<>> ELSE <<i>> \o Starts(b, i + 1 + Follow(At(b, i)))

mbstrlen(b) == Len(Starts(b, 0))

mbstrnlen(b, n) == Len(SelectSeq(Starts(b, 0), LAMBDA i : i < n))

\* the first byte is compared before the terminator is looked for
strcmp(b, c) ==
    LET i == FirstOf({j \in Offsets(b \o c) : At(b, j) # At(c, j) \/ (j > 0 /\ At(b, j) = 0)})
    IN At(b, i) - At(c, i)

\* after n equal bytes the next two decide
strncmp(b, c, n) ==
    LET i == FirstOf({j \in Offsets(b \o c) :
                        At(b, j) # At(c, j) \/ (j > 0 /\ (At(b, j) = 0 \/ j >= n))})
    IN IF n = 0 THEN 0 ELSE At(b, i) - At(c, i)

RECURSIVE CaseFrom(_, _, _, _)
CaseFrom(b, c, i, j) ==
    LET x == strtolower(From(b, i))
        y == strtolower(From(c, j))
    IN IF x.c # y.c THEN 1
       ELSE IF At(b, i + x.len) = 0 THEN 0 - At(c, j + y.len)
       ELSE CaseFrom(b, c, i + x.len, j + y.len)

strcasecmp(b, c) == CaseFrom(b, c, 0, 0)

\* it goes on over the terminator of equal strings and compares what follows
RECURSIVE NCaseFrom(_, _, _, _, _)
NCaseFrom(b, c, i, j, n) ==
    LET x == strtolower(From(b, i))
        y == strtolower(From(c, j))
    IN IF x.c # y.c THEN 1
       ELSE IF x.c = <<0>> \/ i + x.len >= n THEN At(b, i + x.len) - At(c, j + y.len)
       ELSE NCaseFrom(b, c, i + x.len, j + y.len, n)

strncasecmp(b, c, n) == IF n = 0 THEN 0 ELSE NCaseFrom(b, c, 0, 0, n)

-----------------------------------------------------------------------------
(* Copies: what the destination holds afterwards, up to its terminator *)

Text(b) == SubSeq(b, 1, strlen(b))
Stored(dst, text) == text \o <<0>> \o From(dst, Len(text) + 1)

strcpy(dst, src) == Stored(dst, Text(src))

strncpy(dst, src, n) == IF n = 0 THEN dst ELSE Stored(dst, SubSeq(src, 1, strnlen(src, n)))

strcat(dst, src) == Stored(dst, Text(dst) \o Text(src))

strncat(dst, src, n) ==
    IF n = 0 THEN dst ELSE Stored(dst, Text(dst) \o SubSeq(src, 1, strnlen(src, n)))

Lowered(src, starts) == FlattenSeq([k \in DOMAIN starts |-> strtolower(From(src, starts[k])).c])

\* each character is appended to what the destination holds already
strcasecpy(dst, src) == Stored(dst, Text(dst) \o Lowered(src, Starts(src, 0)))

strncasecpy(dst, src, n) ==
    Stored(dst, Text(dst) \o Lowered(src, SelectSeq(Starts(src, 0), LAMBDA i : i < n)))

strdup(b) == Text(b) \o <<0>>

strndup(b, n) == SubSeq(b, 1, strnlen(b, n)) \o <<0>>

\* the copy is appended to what malloc returns, a block of zeros
strcasedup(b) == Lowered(b, Starts(b, 0)) \o <<0>>

\* the size of the block and what is written to it: n only counts for the size
strncasedup(b, n) == [size |-> strnlen(b, n) + 1, text |-> strcasedup(b)]

-----------------------------------------------------------------------------
(* Search *)

strchr(b, c) == memmem(b, strlen(b), chr(c), Len(chr(c)))

\* the pointer that would have to move is the other one: the loop ends at once,
\* at a match in the last place, or never
strrchr(b, c) ==
    LET n == Len(chr(c))
        e == strlen(b) - n
    IN IF e <= 0 THEN Null
       ELSE IF memcmp(From(b, e), chr(c), n) = 0 THEN e ELSE HANGS

strstr(b, c) == memmem(b, strlen(b), c, strlen(c))

strrstr(b, c) == memrmem(b, strlen(b), c, strlen(c))

\* the tries of memmem and memrmem with the comparison of strncasecmp
CaseHits(b, c, range) == {i \in range : strncasecmp(From(b, i), c, strlen(c)) = 0}

strcasestr(b, c) ==
    IF strlen(b) = 0 \/ strlen(c) = 0 THEN Null
    ELSE FirstOf(CaseHits(b, c, 0..(strlen(b) - strlen(c) - 1)))

strrcasestr(b, c) ==
    IF strlen(b) = 0 \/ strlen(c) = 0 THEN Null
    ELSE LastOf(CaseHits(b, c, 1..(strlen(b) - strlen(c))))

SLASH == 47

\* one slash at the end is left out; the last byte of the name is, too
basename(b) ==
    LET e0 == strlen(b) - 1
        e  == IF At(b, e0) = SLASH THEN e0 - 1 ELSE e0
        i  == LastOf({1} \cup {k \in 2..e : At(b, k - 1) = SLASH})
    IN IF e < 1 \/ i = e THEN NoText ELSE SubSeq(b, i + 1, e)

dirname(b) ==
    LET e0 == strlen(b) - 1
        e  == IF At(b, e0) = SLASH THEN e0 - 1 ELSE e0
        i  == LastOf({0} \cup {k \in 1..e : At(b, k) = SLASH})
    IN IF i = e \/ i = 0 THEN NoText ELSE SubSeq(b, 1, i - 1)

-----------------------------------------------------------------------------
(* Tokens: what is returned and what *p is afterwards *)

strtok_helper_at(s, delim, skip) ==
    LET stop == FirstOf({i \in Offsets(s) : i > 0 /\ (At(s, i) = 0 \/ At(s, i) \in ToSet(delim))})
    IN IF At(s, 0) = 0 THEN [tok |-> NoText, p |-> NoText]
       ELSE [tok |-> SubSeq(s, 1, stop), p |-> IF At(s, stop) = 0 THEN NoText ELSE From(s, stop + 1)]

strtok_helper(s, delim, skip) ==
    LET IsDelim(i) == At(s, i) # 0 /\ At(s, i) \in ToSet(delim)
        first == FirstOf({i \in Offsets(s) : skip => ~IsDelim(i)})
        stop  == FirstOf({i \in Offsets(s) : i > first /\ (At(s, i) = 0 \/ IsDelim(i))})
    IN CASE IsDelim(first) -> [tok |-> <<>>, p |-> From(s, first + 1)]
         [] At(s, first) = 0 -> [tok |-> NoText, p |-> NoText]
         [] ~IsDelim(first) /\ At(s, first) # 0 ->
                [tok |-> SubSeq(s, first + 1, stop),
                 p   |-> IF At(s, stop) = 0 THEN NoText ELSE From(s, stop + 1)]

\* the tokens of the usual loop: call, then call again with what *p is
RECURSIVE Tokens(_, _, _)
Tokens(p, delim, skip) ==
    IF p = NoText THEN <<>>
    ELSE LET r == strtok_helper(p, delim, skip)
         IN IF r.tok = NoText THEN <<>> ELSE <<r.tok>> \o Tokens(r.p, delim, skip)

strtok_r(s, delim) == Tokens(s, delim, TRUE)

strsep(s, delim) == Tokens(s, delim, FALSE)

\* strtok keeps the pointer in a variable of the call: the second call has NULL
strtok(s, delim) ==
    LET r == strtok_helper(s, delim, TRUE) IN IF r.tok = NoText THEN <<>> ELSE <<r.tok>>
=============================================================================
