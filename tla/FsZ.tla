--------------------------------- MODULE FsZ --------------------------------
(***************************************************************************)
(* Three programs that read what Mkfs writes: the core, which finds the    *)
(* files it needs in the initial ramdisk (src/src/core/fs.c), the file     *)
(* system driver (src/src/drivers/fs/fsz/main.c) and the tool itself.  All *)
(* sectors are in memory; the cache that may not have them is FsCache.     *)
(***************************************************************************)
EXTENDS Mkfs

CONSTANT PATHSTACKSIZE

DOT == 46
SYSDIR == <<115, 47>>       \* sys/, shorter: s/
UPDIRNAME == <<DOT, DOT>>
JOKER == <<DOT, DOT, DOT>>

\* n units from unit o of a sector on: what follows it in memory is only file
\* data when the next sector is
DataUnits(b) == IF b.k = "data" THEN b.c ELSE [u \in 1..SecUnits |-> META]
UnitAt(img, lsn, o) == DataUnits(Sector(img, lsn + o \div SecUnits))[(o % SecUnits) + 1]
Bytes(img, lsn, o, n) == [u \in 1..n |-> UnitAt(img, lsn, o + u - 1)]

-----------------------------------------------------------------------------
(* The core: fs_locate *)

ENDS == {35, 58, 59}        \* '#', ':' and ';'
Names(path) == SubSeq(path, 1, LET e == FirstOf({i \in DOMAIN path : path[i] \in ENDS}) IN IF e = Null THEN Len(path) ELSE e - 1)
Suffix(path) == From(path, Len(Names(path)))

PANIC(sys) == [ret |-> "panic", sys |-> sys]
ENOENT(sys) == [ret |-> "enoent", sys |-> sys]

\* the data of a file starts at a sector and goes on in the next ones
CoreData(img, in, sys) ==
    LET at(lsn) == [ret |-> "data", data |-> Bytes(img, lsn, 0, in.size), sys |-> sys]
    IN CASE in.flags = "inline" -> [ret |-> "data", data |-> in.data, sys |-> sys]
         [] in.flags = "sdinline" -> at(in.ptrs[1])
         [] in.flags = "direct" -> at(in.sec)
         [] in.flags = "sd" -> at(Sector(img, in.sec).ptrs[1])
         [] OTHER -> PANIC(sys)

NameMatches(ent, name) == IsPrefixOf(name, ent.name)

\* w: the inode looked at, the path it is reached by, what is left of the path,
\* how many links are still followed and the inode of sys/, which is learned
\* when a directory with it is searched
RECURSIVE Walk(_, _)
Walk(img, w) ==
    LET in == Sector(img, w.in)
        name == FirstName(w.left)
        hits == {i \in DOMAIN in.ents : NameMatches(in.ents[i], name)}
        hit == FirstOf(hits)
        seen == {i \in DOMAIN in.ents : IsPrefixOf(SYSDIR, in.ents[i].name) /\ (hits = {} \/ i <= hit)}
        sys == IF w.sys = 0 /\ seen # {} THEN in.ents[FirstOf(seen)].fid ELSE w.sys
        next == [w EXCEPT !.in = in.ents[hit].fid, !.left = Rest(w.left), !.sys = sys]
    IN CASE in.type = "lnk" ->
              IF w.r = 1 THEN PANIC(w.sys)
              ELSE Walk(img, [w EXCEPT !.in = img.root, !.path = in.list, !.left = Names(in.list), !.r = @ - 1])
         [] in.type = "uni" /\ w.sys # 0 ->
              IF w.r = 1 THEN PANIC(w.sys) ELSE Walk(img, [w EXCEPT !.in = w.sys, !.left = Names(w.path), !.r = @ - 1])
         [] in.type = "dir" ->
              IF hits = {} THEN ENOENT(sys)
              ELSE IF name = <<>> \/ name[Len(name)] = SLASH THEN Walk(img, next)
              ELSE IF 35 \in Range(Suffix(w.path)) THEN PANIC(sys)
              ELSE CoreData(img, Sector(img, next.in), sys)
         [] OTHER -> PANIC(w.sys)

MAXLINKS == 64
fs_locate(img, sys, fn) ==
    LET path == IF fn # <<>> /\ fn[1] = SLASH THEN Tail(fn) ELSE fn
    IN IF Len(fn) < 2 THEN [ret |-> "einval", sys |-> sys]
       ELSE Walk(img, [in |-> img.root, path |-> path, left |-> Names(path), r |-> MAXLINKS, sys |-> sys])

-----------------------------------------------------------------------------
(* The driver *)

\* the first names of a path that goes through more directories than the stack
\* has room for are forgotten
pathpush(stack, inode) ==
    Append(IF Len(stack) = PATHSTACKSIZE THEN Tail(stack) ELSE stack, inode)

Found(status, lsn, stack) == [status |-> status, inode |-> lsn, stack |-> stack]

\* the sector with the names or the data of an inode can be read
HasData(img, in) ==
    CASE in.flags = "inline" -> TRUE
      [] in.flags = "direct" -> in.sec # 0
      [] in.flags = "sdinline" -> in.ptrs[1] # 0
      [] in.flags = "sd" -> in.sec # 0 /\ Sector(img, in.sec).ptrs[1] # 0

RECURSIVE locate(_, _, _, _)
\* '...' in a path: the first subdirectory in which the rest is found
RECURSIVE Joker(_, _, _, _)
Joker(img, ents, rest, stack) ==
    IF ents = <<>> THEN Found("notfound", 0, stack)
    ELSE LET n == ents[1].name
             sub == locate(img, ents[1].fid, rest, stack)
         IN IF n[Len(n)] = SLASH /\ sub.status = "success" THEN sub
            ELSE Joker(img, Tail(ents), rest, IF n[Len(n)] = SLASH THEN sub.stack ELSE stack)

locate(img, lsn, path, stack) ==
    LET in == Sector(img, lsn)
        name == FirstName(path)
        hits == {i \in DOMAIN in.ents : NameMatches(in.ents[i], name)}
        up == IsPrefixOf(UPDIRNAME, name) /\ ~IsPrefixOf(JOKER, name)
    IN IF up
       THEN IF stack = <<>> THEN Found("updir", lsn, stack)
            ELSE locate(img, Last(stack), Rest(path), Front(stack))
       ELSE IF lsn = 0 THEN Found("noblock", lsn, stack)
       ELSE IF ~IsInode(in) THEN Found("fserror", lsn, stack)
       ELSE IF in.type = "lnk" THEN Found("symlink", lsn, stack)
       ELSE IF path = <<>> THEN Found("success", lsn, stack)
       ELSE IF in.type = "uni" THEN Found("union", lsn, stack)
       ELSE IF ~HasData(img, in) THEN Found("noblock", lsn, stack)
       ELSE IF in.type = "appl" THEN Found("file", lsn, stack)
       ELSE IF in.type # "dir" THEN Found("notfound", lsn, stack)
       ELSE IF IsPrefixOf(JOKER, name) THEN Joker(img, in.ents, Rest(path), stack)
       ELSE IF hits = {} THEN Found("notfound", lsn, stack)
       ELSE locate(img, in.ents[FirstOf(hits)].fid, Rest(path), pathpush(stack, lsn))

\* stat: the type decides on the mode
stat(img, lsn) ==
    LET in == Sector(img, lsn)
    IN IF ~IsInode(in) THEN [ok |-> FALSE]
       ELSE [ok |-> TRUE, size |-> in.size, links |-> in.links, blocks |-> in.blocks,
             mode |-> CASE in.type = "lnk" -> {"reg", "lnk"} [] in.type = "uni" -> {"dir", "uni"}
                        [] in.type = "dir" -> {"dir"} [] OTHER -> {}]

\* read: the current version (mkfs writes no earlier ones), up to n units from offs on; what is returned starts at a place in the
\* inode or in a sector, or is a hole
NoData == [n |-> 0, data |-> <<>>]
\* a directory's header and entries, a link's or a union's text, a small file
InlineData(in) == IF in.type = "dir" THEN <<META>> \o in.ents ELSE in.data \o in.list
FromInode(in, offs, n) == [n |-> n, data |-> SubSeq(InlineData(in), offs + 1, offs + n)]
FromSector(img, lsn, o, n) ==
    [n |-> n, data |-> IF lsn = 0 THEN [u \in 1..n |-> 0]
                       ELSE [u \in 1..n |-> IF o + u <= SecUnits THEN UnitAt(img, lsn, o + u - 1) ELSE META]]

\* through a sector directory: always from the start of the sector on
FromDirectory(img, in, offs, n) ==
    LET i == offs \div SecUnits
        len == IF i = 0 THEN Least2(n, SecUnits - offs) ELSE Least2(n, in.size - i * SecUnits)
    IN FromSector(img, Sector(img, in.sec).ptrs[i + 1], 0, len)

\* the numbers in the inode only say whether there is a hole
FromInlineDirectory(img, in, offs, n) ==
    FromSector(img, IF in.ptrs[offs \div SecUnits + 1] = 0 THEN 0 ELSE in.sec, 0, n)

read(img, lsn, offs, s) ==
    LET in == Sector(img, lsn)
        n == Least2(s, in.size - offs)
    IN IF lsn = 0 \/ ~IsInode(in) \/ offs > in.size \/ n = 0 THEN NoData
       ELSE CASE in.flags = "inline" \/ in.type \in {"lnk", "uni"} -> FromInode(in, offs, n)
              [] in.flags = "sdinline" -> FromInlineDirectory(img, in, offs, n)
              [] in.flags = "direct" -> FromSector(img, in.sec, offs, n)
              [] in.flags = "sd" -> FromDirectory(img, in, offs, n)

\* getdirent: the entries one after the other, until one has no name
getdirent(ents, k) == IF k > Len(ents) \/ ents[k].fid = 0 \/ ents[k].name = <<>> THEN Null ELSE ents[k].fid

-----------------------------------------------------------------------------
(* Space.  A volume is an image on a device of devsec sectors, with a list *)
(* of free areas (empty in a new image) in the inode freesecfid and the    *)
(* sector lastsec that read used last.                                     *)

\* detect and resizefs: the size of the file system follows that of the
\* device, the checksum over it does not
detect(v) == v.img.summed
resizefs(v) ==
    IF v.img.numsec = v.devsec THEN v
    ELSE [v EXCEPT !.img.numsec = v.devsec, !.img.summed = FALSE]

\* a sector from the first free area that has one; the inode of the list is
\* written to lastsec
FromFree(v) ==
    LET list == Sector(v.img, v.freesecfid).list
        k == FirstOf({i \in DOMAIN list : list[i].n > 0})
        left == [list EXCEPT ![k] = [sec |-> @.sec + 1, n |-> @.n - 1]]
        now == IF left[k].n = 0 THEN RemoveAt(left, k) ELSE left
        in == [Sector(v.img, v.freesecfid) EXCEPT !.list = now]
    IN [v EXCEPT !.img = WithInode(WithInode(@, v.freesecfid, in), v.lastsec, in),
                 !.got = Append(@, list[k].sec)]

\* a sector from the end of what is in use
AtEnd_same(v) == [v EXCEPT !.got = Append(@, v.img.freesec)]
AtEnd(v) == [v EXCEPT !.img.freesec = @ + 1, !.got = Append(@, v.img.freesec)]

allocateblock(v) ==
    IF v.freesecfid # 0 /\ \E i \in DOMAIN Sector(v.img, v.freesecfid).list : Sector(v.img, v.freesecfid).list[i].n > 0
    THEN FromFree(v)
    ELSE IF v.img.freesec < v.img.numsec THEN AtEnd(v) ELSE v

-----------------------------------------------------------------------------
(* The tool *)

ls(img, path) ==
    LET lsn == IF path = <<>> THEN img.root ELSE FindInode(img, 0, path)
    IN IF lsn = Null THEN <<>>
       ELSE IF Sector(img, lsn).type = "dir" THEN Sector(img, lsn).ents ELSE Sector(img, lsn).list

cat(img, path) ==
    LET lsn == FindInode(img, 0, path)
    IN IF lsn = Null THEN ENOENT(0) ELSE CoreData(img, Sector(img, lsn), 0)

\* dump: the sectors it says an inode uses
Trimmed(ptrs) ==
    LET last == LastOf({1} \union {i \in DOMAIN ptrs : ptrs[i] # 0}) IN SubSeq(ptrs, 1, last)
DumpSectors(img, in) ==
    CASE in.flags \in {"inline", "direct"} -> <<in.sec>>
      [] in.flags = "sdinline" -> Trimmed(in.ptrs)
      [] in.flags = "sd" -> Trimmed(Sector(img, in.sec).ptrs)
dump(img, lsn) ==
    LET b == Sector(img, lsn)
    IN IF lsn = 0 THEN [what |-> "superblock"]
       ELSE CASE b.k = "in" -> [what |-> "inode", sectors |-> DumpSectors(img, b), ents |-> b.ents]
              [] b.k = "sd" -> [what |-> "sd", sectors |-> b.ptrs]
              [] OTHER -> [what |-> "data"]

-----------------------------------------------------------------------------
(* What is asked of an image *)

Offsets0(data) == {i * SecUnits : i \in 0..SectorsOf(data)}
Answers(img, x) ==
    LET at == locate(img, img.root, x.path, <<>>)
        below == locate(img, img.root, x.path \o <<SLASH>>, <<>>)
    IN [core |-> fs_locate(img, 0, <<SLASH>> \o x.path), drv |-> at, dir |-> below,
        tool |-> FindInode(img, 0, x.path), cat |-> cat(img, x.path), st |-> stat(img, at.inode),
        joker |-> locate(img, img.root, JOKER \o <<SLASH>> \o Rest(x.path), <<>>),
        up |-> locate(img, img.root, FirstName(x.path) \o UPDIRNAME \o <<SLASH>> \o x.path, <<>>),
        reads |-> [o \in Offsets0(x.data) |-> read(img, at.inode, o, SecUnits)],
        dump |-> dump(img, at.inode)]

FsZCalls == {"image", "volume"}
FsZResult(j) ==
    CASE j.fn = "image" -> LET img == Image(j)
                           IN [img |-> img, ans |-> IF img = FAILED THEN <<>> ELSE [i \in DOMAIN j.tree |-> Answers(img, j.tree[i])]]
      [] j.fn = "volume" -> FoldLeft(LAMBDA v, i : allocateblock(v),
                                     resizefs([j.vol EXCEPT !.img = IF j.list = <<>> THEN Image(j)
                                        ELSE Appended(Image(j), [Inode("int") EXCEPT !.list = j.list])]),
                                     [i \in 1..j.n |-> i])

-----------------------------------------------------------------------------
(* The core's dictionary (src/src/core/lang.c) *)

CONSTANTS
    NStrings,       \* the strings a language file has
    TXT_LAST,       \* how many of them are the core's, the others are libc's
    ErrLen,         \* the length of an error's name
    TXT_LIBCSIZE    \* the room for one of libc's strings

RECURSIVE FirstStrings(_, _)
FirstStrings(b, n) ==
    IF n = 0 THEN <<>> ELSE <<Text(b)>> \o FirstStrings(From(b, Len(Text(b)) + 1), n - 1)

\* libc's strings are copied, all but the first with the error's name before them
LibcRoom(txt, i) == Len(txt[i]) + (IF i = TXT_LAST + 1 THEN 0 ELSE ErrLen + 1)

\* files: the dictionaries there are; English is taken for one that is not there
lang_init(files, lang) ==
    LET f == IF lang \in DOMAIN files THEN files[lang] ELSE files["en"]
        txt == FirstStrings(f.data, NStrings)
    IN IF {lang, "en"} \cap DOMAIN files = {} \/ f.l # NStrings THEN PANIC(0)
       ELSE IF \E i \in (TXT_LAST + 1)..NStrings : LibcRoom(txt, i) >= TXT_LIBCSIZE THEN PANIC(0)
       ELSE [ret |-> "data", txt |-> txt]

Lines(text) == FlattenSeq([i \in DOMAIN text |-> text[i] \o <<NEWLINE>>])
LangResult(j) == lang_init([l \in {j.has} |-> createlang(Lines(j.lines))], j.lang)

-----------------------------------------------------------------------------
(* Properties *)

SmallEnough(x) == Cardinality(Slashes(x.path)) <= MAXLEVEL
\* an empty piece before one that is not: a hole that is left out of the image
HasHole(data) ==
    \E i, k \in 0..(SectorsOf(data) - 1) : i < k /\ EmptyPiece(data, i) /\ ~EmptyPiece(data, k)
OneEmptySector(data) == Len(data) \in (InlUnits + 1)..SecUnits /\ EmptyPiece(data, 0)
From0(data, o) == SubSeq(data, o + 1, Least2(o + SecUnits, Len(data)))
\* the driver's read does what it should at this offset
Readable(x, o) == Len(x.data) <= SecUnits \/ SectorsOf(x.data) > PtrsInline \/ o = 0

FileFound(x, a, initrd) ==
    /\ a.drv.status = "success" /\ a.drv.inode = a.tool
    /\ a.st.ok /\ a.st.size = Len(x.data) /\ a.st.links >= 1
    /\ \A o \in DOMAIN a.reads : Readable(x, o) => a.reads[o].data = From0(x.data, o)
    /\ Slashes(x.path) # {} => /\ a.up.status = "success" /\ a.up.inode = a.tool
                              /\ a.joker.status = "success"
    /\ initrd /\ ~OneEmptySector(x.data) => /\ a.core.ret = "data" /\ a.core.data = x.data
                                           /\ a.cat.ret = "data" /\ a.cat.data = x.data

(***************************************************************************)
(* What mkfs writes is found again (add_file, link_inode; fs_locate,       *)
(* locate, read): every file of the tree is found by its path by the core, *)
(* the driver and the tool, as the same inode, with the content it had,    *)
(* however long its name and whichever the order of the directory it came  *)
(* from.  That the readers compare only as many characters as the path has *)
(* is made up for by the order in which link_inode keeps the names.        *)
(* Directories are found as such, through '..' and '...' too, links are    *)
(* reported, and a dictionary has the lines of the text it is made from.   *)
(***************************************************************************)
FilesFound ==
    /\ Returned("image") /\ out[1].img # FAILED =>
        \A i \in DOMAIN job.tree :
            LET x == job.tree[i]
                a == out[1].ans[i]
            IN /\ x.kind = "file" /\ SmallEnough(x) /\ x.path # CORE /\ (job.initrd \/ ~HasHole(x.data))
                    => FileFound(x, a, job.initrd)
               /\ x.kind = "dir" /\ SmallEnough(x) => a.dir.status = "success" /\ Sector(out[1].img, a.dir.inode).type = "dir"
               /\ x.kind = "lnk" /\ SmallEnough(x) => a.drv.status = "symlink"
    /\ Returned("lang") /\ Len(job.lines) = NStrings /\ job.has \in {job.lang, "en"} => out[1].ret = "data" /\ out[1].txt = job.lines

(***************************************************************************)
(* The sectors that allocateblock hands out are different ones, and none   *)
(* of them is in use.  This holds for an image as createimage leaves it,   *)
(* not after a link or a union was added: the superblock still says that   *)
(* the sectors after the first image are free (src/tools/mkfs.c:1861).     *)
(***************************************************************************)
SpaceRight ==
    Returned("volume") =>
        /\ IsInjective(out[1].got)
        /\ \A i \in DOMAIN out[1].got : Sector(Image(job), out[1].got[i]) = Other

(***************************************************************************)
(* A path that is not in the tree is not found.  It is when it is the      *)
(* beginning of a name (src/src/drivers/fs/fsz/main.c:213,                 *)
(* src/src/core/fs.c:107).                                                 *)
(***************************************************************************)
OnlyWhatExists ==
    Returned("image") /\ out[1].img # FAILED =>
        \A i \in DOMAIN job.tree :
            LET x == job.tree[i]
            IN Len(x.path) > 1 /\ (\A k \in DOMAIN job.tree : job.tree[k].path # Front(x.path))
                => locate(out[1].img, out[1].img.root, Front(x.path), <<>>).status # "success"

(***************************************************************************)
(* A directory is found by its name without the '/' too.  Not when another *)
(* name goes on with a character that is before '/'                        *)
(* (src/src/drivers/fs/fsz/main.c:213).                                    *)
(***************************************************************************)
DirsFound ==
    Returned("image") /\ out[1].img # FAILED =>
        \A i \in DOMAIN job.tree :
            job.tree[i].kind = "dir" => out[1].ans[i].drv.inode = out[1].ans[i].dir.inode

(***************************************************************************)
(* Every sector of a file is read.  Not when their numbers are in the      *)
(* inode: the first sector is read for every offset                        *)
(* (src/src/drivers/fs/fsz/main.c:349).                                    *)
(***************************************************************************)
AllRead ==
    Returned("image") /\ out[1].img # FAILED =>
        \A i \in DOMAIN job.tree :
            job.tree[i].kind = "file" /\ ~HasHole(job.tree[i].data) /\ job.tree[i].path # CORE =>
                \A o \in DOMAIN out[1].ans[i].reads : out[1].ans[i].reads[o].data = From0(job.tree[i].data, o)

(***************************************************************************)
(* A file with holes keeps its content.  The sectors after the first hole  *)
(* are written one place after the one their number says                   *)
(* (src/tools/mkfs.c:1033).                                                *)
(***************************************************************************)
HolesKept ==
    Returned("image") /\ out[1].img # FAILED =>
        \A i \in DOMAIN job.tree : job.tree[i].kind = "file" /\ job.tree[i].path # CORE => out[1].ans[i].reads[0].data = From0(job.tree[i].data, 0)
            /\ \A o \in DOMAIN out[1].ans[i].reads : Readable(job.tree[i], o) => out[1].ans[i].reads[o].data = From0(job.tree[i].data, o)

(***************************************************************************)
(* The core finds itself in the ramdisk.  It does not: sys/core is entered *)
(* in the root directory before sys/ is, which is then searched first      *)
(* (src/tools/mkfs.c:1700).                                                *)
(***************************************************************************)
CoreFound ==
    Returned("image") /\ out[1].img # FAILED =>
        \A i \in DOMAIN job.tree : job.tree[i].path = CORE => out[1].ans[i].core.ret = "data"

(***************************************************************************)
(* A file system can be mounted again after its size was changed.  Its     *)
(* checksum is not made anew (src/src/drivers/fs/fsz/main.c:240).          *)
(***************************************************************************)
StillDetected == Returned("volume") => detect(out[1])

(***************************************************************************)
(* Allocating a sector changes no file.  The inode of the list of free     *)
(* areas is written over the sector that was read last                     *)
(* (src/src/drivers/fs/fsz/main.c:452).                                    *)
(***************************************************************************)
FilesKept ==
    Returned("volume") => \A lsn \in 0..(Size(out[1].img) - 1) :
        Sector(Image(job), lsn).k = "data" => Sector(out[1].img, lsn) = Sector(Image(job), lsn)
=============================================================================
