-------------------------------- MODULE Mkfs --------------------------------
(***************************************************************************)
(* The tool that makes file system images and disks: src/tools/mkfs.c.     *)
(*                                                                         *)
(* An image is a sequence of sectors, sector lsn at lsn + 1, with the      *)
(* fields of the superblock beside it.  A sector is an inode, a sector     *)
(* directory, file data or anything else.  File data is counted in units,  *)
(* of which a sector holds SecUnits and an inode InlUnits; a unit that is  *)
(* 0 is empty.  A name is a sequence of characters.                        *)
(*                                                                         *)
(* A disk is counted in sectors of 512 bytes.                              *)
(***************************************************************************)
EXTENDS CString, Job, FiniteSets

CONSTANTS
    SecUnits,       \* secsize
    InlUnits,       \* secsize - 1024, what an inode holds
    PtrsInline,     \* (secsize - 1024) / 16, the sector numbers an inode holds
    PtrsSector,     \* secsize / 16
    DirEnts         \* (secsize - 1024 - 128) / 128, the names an inode holds

ASSUME MkfsSizes ==
    /\ SecUnits \in Nat /\ InlUnits \in 1..SecUnits
    /\ PtrsSector \in Nat /\ PtrsInline \in 1..PtrsSector
    /\ DirEnts \in Nat \ {0}

META == -1          \* a unit of a sector that holds no file data

Other == [k |-> "other"]
Data(c) == [k |-> "data", c |-> c]
SectorDir(p) == [k |-> "sd", ptrs |-> p]
Inode(type) == [k |-> "in", type |-> type, sec |-> 0, size |-> 0, flags |-> "direct", links |-> 0, blocks |-> 0,
                ents |-> <<>>, data |-> <<>>, ptrs |-> <<>>, list |-> <<>>]

FAILED == [blk |-> <<>>, root |-> 0, numsec |-> 0, freesec |-> 0, summed |-> FALSE]
Sector(img, lsn) == IF lsn < Len(img.blk) THEN img.blk[lsn + 1] ELSE Other
Size(img) == Len(img.blk)
IsInode(b) == b.k = "in"
WithInode(img, lsn, in) == [img EXCEPT !.blk[lsn + 1] = in]

-----------------------------------------------------------------------------
(* Names *)

IsPrefixOf(n, m) == Len(n) <= Len(m) /\ SubSeq(m, 1, Len(n)) = n
Slashes(path) == {i \in DOMAIN path : path[i] = SLASH}
\* the first name of a path, with the '/' after it
FirstName(path) == IF Slashes(path) = {} THEN path ELSE SubSeq(path, 1, FirstOf(Slashes(path)))
Rest(path) == From(path, Len(FirstName(path)))

LowerCase(c) == IF c \in 65..90 THEN c + 32 ELSE c

\* direntcmp: regardless of case
NameBefore(n, m) ==
    LET d == FirstOf({i \in 0..Len(n) : LowerCase(At(n, i)) # LowerCase(At(m, i))})
    IN d # Null /\ LowerCase(At(n, d)) < LowerCase(At(m, d))

\* link_inode compares one character more than the name has: the '/' or the end
Entered(ent, path) ==
    IF Slashes(path) = {} THEN ent.name = path ELSE IsPrefixOf(FirstName(path), ent.name)

SortedIn_append(ents, e) == Append(ents, e)

\* the entries are sorted again after each one that is added
SortedIn(ents, e) ==
    LET k == Cardinality({i \in DOMAIN ents : ~NameBefore(e.name, ents[i].name)})
    IN InsertAt(ents, k + 1, e)

-----------------------------------------------------------------------------
(* Inodes *)

\* add_superblock
NewImage == [FAILED EXCEPT !.blk = <<Other>>]

Appended(img, b) == [img EXCEPT !.blk = Append(@, b)]

\* add_inode: in the sector after the last one; a directory has room for names
\* in itself, a link and a union have their text in it
add_inode(img, type, text) ==
    Appended(img,
        CASE type = "dir" -> [Inode(type) EXCEPT !.sec = Size(img), !.flags = "inline", !.size = 1]
          [] type \in {"lnk", "uni"} -> [Inode(type) EXCEPT !.list = text, !.size = Len(text)]
          [] OTHER -> Inode(type))

\* link_inode: down the path as far as its directories exist, then what is left
\* of it becomes one name
RECURSIVE link_inode(_, _, _, _)
link_inode(img, inode, path, to) ==
    LET in == Sector(img, to)
        hit == FirstOf({i \in DOMAIN in.ents : Entered(in.ents[i], path)})
        name == path \o (IF Sector(img, inode).type = "dir" THEN <<SLASH>> ELSE <<>>)
    IN IF img = FAILED THEN FAILED
       ELSE IF hit # Null
       THEN IF Slashes(path) = {} THEN FAILED     \* goes on after the end of the string
            ELSE link_inode(img, inode, Rest(path), in.ents[hit].fid)
       ELSE IF Len(in.ents) >= DirEnts THEN FAILED
       ELSE [img EXCEPT !.blk[to + 1].ents = SortedIn(@, [fid |-> inode, name |-> name]),
                        !.blk[to + 1].size = @ + 1,
                        !.blk[inode + 1].links = @ + 1]

-----------------------------------------------------------------------------
(* Files *)

\* the type by the name's extension, then by what is in the file
FileType(ext, data) ==
    CASE ext \in {".h", ".c", ".md", ".txt", ".conf", ".sh", ".htm", ".html", ".css"} -> "text"
      [] ext \in {".svg", ".gif", ".png", ".jpg", ".bmp"} -> "imag"
      [] ext \in {".sfn", ".psf", ".ttf"} -> "font"
      [] ext = ".m3d" -> "mode"
      [] ext = ".so" -> "appl"
      [] OTHER -> IF \A i \in DOMAIN data : data[i] # 0 THEN "text" ELSE "appl"

\* the units of the file's sector i, filled up with empty ones
Piece(data, i) == [u \in 1..SecUnits |-> At(data, i * SecUnits + u - 1)]
EmptyPiece(data, i) == \A u \in 1..SecUnits : Piece(data, i)[u] = 0
SectorsOf(data) == (Len(data) + SecUnits - 1) \div SecUnits

\* which sectors of the file are written
Written(data, initrd) == {i \in 0..(SectorsOf(data) - 1) : initrd \/ ~EmptyPiece(data, i)}

\* their numbers: the written ones are counted from the first one on
Numbers(data, initrd, first) ==
    [k \in 1..SectorsOf(data) |->
        IF (k - 1) \notin Written(data, initrd) THEN 0
        ELSE first + Cardinality({i \in Written(data, initrd) : i < k - 1})]

\* what is in the sectors: sector i of the file is copied to place i, and the
\* image ends after as many sectors as were written
FileSectors(data, initrd) == [k \in 1..Cardinality(Written(data, initrd)) |-> Data(Piece(data, k - 1))]

\* a file that does not fit in its inode and is not larger than a sector
DirectFile(img, in, data) ==
    LET zero == EmptyPiece(data, 0)
    IN Appended(Appended(img, [in EXCEPT !.flags = "direct", !.sec = IF zero THEN 0 ELSE Size(img) + 1,
                                         !.blocks = IF zero THEN 0 ELSE 1]),
                IF zero THEN Other ELSE Data(Piece(data, 0)))

\* a larger one: the numbers of its sectors are in the inode or in a sector
SectorsFile(img, in, data, initrd) ==
    LET lsn == Size(img)
        inl == SectorsOf(data) <= PtrsInline
        first == lsn + 1 + (IF inl THEN 0 ELSE 1)
        ptrs == Numbers(data, initrd, first)
        n == Cardinality(Written(data, initrd))
        node == [in EXCEPT !.flags = IF inl THEN "sdinline" ELSE "sd", !.sec = lsn + 1,
                           !.ptrs = IF inl THEN ptrs ELSE <<>>, !.blocks = n + (IF inl THEN 0 ELSE 1)]
    IN IF SectorsOf(data) > PtrsSector THEN FAILED
       ELSE [img EXCEPT !.blk = @ \o <<node>> \o (IF inl THEN <<>> ELSE <<SectorDir(ptrs)>>) \o FileSectors(data, initrd)]

add_file(img, file, initrd) ==
    LET in == [Inode(FileType(file.ext, file.data)) EXCEPT !.size = Len(file.data)]
        added == IF Len(file.data) <= InlUnits
                 THEN Appended(img, [in EXCEPT !.flags = "inline", !.sec = Size(img), !.data = file.data])
                 ELSE IF Len(file.data) > SecUnits THEN SectorsFile(img, in, file.data, initrd)
                 ELSE DirectFile(img, in, file.data)
    IN IF img = FAILED THEN FAILED ELSE link_inode(added, Size(img), file.path, img.root)

-----------------------------------------------------------------------------
(* Images *)

MAXLEVEL == 4
CORE == <<115, 47, 99>>         \* sys/core, shorter: s/c

\* add_dirs: the tree is the sequence of what readdir finds, a directory before
\* what is in it; directories that are too deep are made and left empty
AddItem(img, item, initrd) ==
    IF img = FAILED \/ Cardinality(Slashes(item.path)) > MAXLEVEL THEN img
    ELSE CASE item.kind = "dir" -> link_inode(add_inode(img, "dir", <<>>), Size(img), item.path, img.root)
           [] item.kind = "lnk" -> link_inode(add_inode(img, "lnk", item.data), Size(img), item.path, img.root)
           [] item.kind = "file" -> IF item.path = CORE THEN img ELSE add_file(img, item, initrd)

\* createimage: the core comes first
createimage(tree, initrd) ==
    LET root == [add_inode(NewImage, "dir", <<>>) EXCEPT !.root = 1, !.blk[2].links = 1]
        core == SelectSeq(tree, LAMBDA x : initrd /\ x.path = CORE)
        first == FoldLeft(LAMBDA i, x : add_file(i, x, TRUE), root, core)
        all == FoldLeft(LAMBDA i, x : AddItem(i, x, initrd), first, tree)
    IN IF all = FAILED THEN FAILED
       ELSE [all EXCEPT !.numsec = Size(all), !.freesec = Size(all), !.summed = TRUE]

\* mkfs's own search in an image
RECURSIVE FindInode(_, _, _)
FindInode(img, inode, path) ==
    LET ents == Sector(img, IF inode = 0 THEN img.root ELSE inode).ents
        last == Slashes(path) = {}
        hits == {i \in DOMAIN ents : Entered(ents[i], path) \/ (last /\ IsPrefixOf(path \o <<SLASH>>, ents[i].name))}
        fid == ents[FirstOf(hits)].fid
    IN IF path = <<>> THEN inode
       ELSE IF path = <<SLASH>> THEN img.root
       ELSE IF path[1] = SLASH THEN FindInode(img, inode, Tail(path))
       ELSE IF hits = {} THEN Null
       ELSE IF last THEN fid ELSE FindInode(img, fid, Rest(path))

\* commands that change an image; the superblock is left as it is
addunion(img, path, members) ==
    link_inode(add_inode(img, "uni", members), Size(img),
               IF path[Len(path)] = SLASH THEN path ELSE Append(path, SLASH), img.root)

addsymlink(img, path, target) == link_inode(add_inode(img, "lnk", target), Size(img), path, img.root)

addlink(img, path, target) ==
    LET inode == FindInode(img, 0, target)
    IN IF inode = Null THEN FAILED ELSE link_inode(img, inode, path, img.root)

changemime(img, path, type) ==
    LET inode == FindInode(img, 0, path)
    IN IF inode = Null \/ Sector(img, inode).type \in {"dir", "uni", "lnk"} THEN FAILED
       ELSE [img EXCEPT !.blk[inode + 1].type = type]

\* what an image is asked to be: made from a tree and then changed
Changed(img, c) ==
    IF img = FAILED THEN FAILED
    ELSE CASE c.cmd = "union" -> addunion(img, c.path, c.to)
           [] c.cmd = "symlink" -> addsymlink(img, c.path, c.to)
           [] c.cmd = "link" -> addlink(img, c.path, c.to)
           [] c.cmd = "mime" -> changemime(img, c.path, c.to)

Image(j) == FoldLeft(Changed, createimage(j.tree, j.initrd), j.cmds)

-----------------------------------------------------------------------------
(* Disks.  A disk is asked for with the sizes of the partitions' images (0 *)
(* when there is none), whether it is a CD too and where in its image the  *)
(* boot loader is.                                                         *)

Parts == <<"esp", "root86", "rootA64", "usr86", "usrA64", "var", "home", "swap">>
Always == {"var", "home", "swap"}
SwapSize == 8
PartSize(d, p) == IF p = "swap" THEN SwapSize ELSE d.size[p]
SizesBefore(d, k) == FoldLeft(LAMBDA n, i : n + PartSize(d, Parts[i]), 0, [i \in 1..(k - 1) |-> i])
Total(d) == SizesBefore(d, Len(Parts) + 1)

GptSectors(d) == IF d.iso THEN 63 ELSE 7
IsoSectors(d) == IF d.iso THEN 64 ELSE 0
DiskSize(d) == 1 + 2 * GptSectors(d) + Total(d) + IsoSectors(d)

\* the entries of the partition table; the boot partition's first sector is
\* written down, the others are counted on from it
EspFirst(d) == IF d.iso THEN 128 ELSE GptSectors(d) + 1
Entry_zero(d, k) ==
    LET before == (IF d.iso THEN 128 ELSE GptSectors(d)) + SizesBefore(d, k)
    IN [part |-> Parts[k], first |-> before + 1, last |-> before + PartSize(d, Parts[k])]

Entry(d, k) ==
    LET before == (IF d.iso THEN 127 ELSE GptSectors(d)) + SizesBefore(d, k)
    IN IF k = 1 THEN [part |-> Parts[k], first |-> EspFirst(d),
                      last |-> PartSize(d, Parts[k]) + (IF d.iso THEN 127 ELSE GptSectors(d))]
       ELSE [part |-> Parts[k], first |-> before + 1, last |-> before + PartSize(d, Parts[k])]

PartTable(d) ==
    LET used == SelectSeq([k \in DOMAIN Parts |-> k], LAMBDA k : Parts[k] \in Always \/ PartSize(d, Parts[k]) > 0)
    IN [i \in DOMAIN used |-> Entry(d, used[i])]

\* the first header and the one at the end of the disk, which is the first one
\* with its own place and the other's exchanged
GptHeader(d) ==
    [self |-> 1, other |-> DiskSize(d) - 1, usable |-> [first |-> 64, last |-> DiskSize(d) - 64],
     table |-> 2, entries |-> 248, perSector |-> 4]
BackupHeader(d) ==
    [GptHeader(d) EXCEPT !.self = GptHeader(d).other, !.other = GptHeader(d).self,
                         !.table = DiskSize(d) - GptSectors(d)]

\* the boot loader: in the boot partition, or else in the first root partition
Stage2(d) == EspFirst(d) + d.loader.at + (IF d.loader.part = "root86" THEN PartSize(d, "esp") ELSE 0)

\* the old partition table: the boot partition, the area of the new table and
\* the system partition
Mbr(d) ==
    [esp |-> [first |-> EspFirst(d), n |-> PartSize(d, "esp"), active |-> PartSize(d, "esp") > 0],
     gpt |-> [first |-> 1, n |-> GptSectors(d)],
     sys |-> [first |-> PartSize(d, "esp") + PartSize(d, "root86") + EspFirst(d), n |-> PartSize(d, "root86"),
              active |-> PartSize(d, "esp") = 0]]

\* the descriptors of the CD, in its sectors of 2048 bytes, from sector 16 on;
\* Refused: the boot loader must be at the start of one of them
Iso(d) ==
    [volume |-> 16, boot |-> 17, end |-> 18, catalog |-> 19, rootdir |-> 20, readme |-> 21, esp |-> 128 \div 4,
     size |-> (128 + Total(d) + 3) \div 4]
Refused(d) == d.iso /\ Stage2(d) % 4 # 0

\* the file, in the order of the writes
Writes(d) ==
    <<[what |-> "mbr", n |-> 1], [what |-> "gpt", n |-> GptSectors(d)], [what |-> "iso", n |-> IsoSectors(d)]>>
    \o [k \in DOMAIN Parts |-> [what |-> Parts[k], n |-> PartSize(d, Parts[k])]]
    \o <<[what |-> "table2", n |-> GptSectors(d) - 1], [what |-> "gpt2", n |-> 1]>>

DiskPlace(d, what) ==
    LET k == CHOOSE i \in DOMAIN Writes(d) : Writes(d)[i].what = what
    IN FoldLeft(LAMBDA n, i : n + Writes(d)[i].n, 0, [i \in 1..(k - 1) |-> i])

createdisk(d) ==
    IF Refused(d) THEN [made |-> FALSE]
    ELSE [made |-> TRUE, entries |-> PartTable(d), header |-> GptHeader(d), backup |-> BackupHeader(d),
          mbr |-> Mbr(d), iso |-> Iso(d), stage2 |-> Stage2(d),
          place |-> [w \in {Writes(d)[i].what : i \in DOMAIN Writes(d)} |-> DiskPlace(d, w)]]

-----------------------------------------------------------------------------
(* A ROM with the ramdisk: the sum of its bytes is to be 0, which they are *)
(* made to by byte 6.  The bytes the tool does not set are what malloc     *)
(* left in them.                                                           *)

RomSum(left) == (256 - ((left.six + left.others) % 256)) % 256
initrdrom(left) == (RomSum(left) + left.others) % 256

-----------------------------------------------------------------------------
(* Language files: each line becomes a string *)

NEWLINE == 10
createlang(text) ==
    LET n == Len(text)
        s == [i \in 1..n |-> IF text[i] = NEWLINE THEN 0 ELSE text[i]]
        len == IF n >= 2 /\ At(s, n - 1) = 0 /\ At(s, n - 2) = 0 THEN n - 1 ELSE n
    IN [size |-> len + 16, data |-> SubSeq(s, 1, len),
        l |-> 1 + Cardinality({i \in 1..(n - 1) : text[i] = NEWLINE})]

MkfsCalls == {"disk", "rom"}
MkfsResult(j) ==
    CASE j.fn = "disk" -> createdisk(j.disk)
      [] j.fn = "rom" -> initrdrom(j.left)

(***************************************************************************)
(* A disk is what its tables say (createdisk): every entry of the          *)
(* partition table is where the partition's image is written and has its   *)
(* size, the second header and its table are where the headers say, the    *)
(* boot partition is where the CD's catalog says, the boot loader is where *)
(* the first sector looks for it, and the protected area of the old table  *)
(* is that of the new one.                                                 *)
(***************************************************************************)
DisksRight ==
    Returned("disk") /\ out[1].made =>
        LET r == out[1]
            d == job.disk
        IN /\ \A i \in DOMAIN r.entries :
                /\ r.entries[i].first = r.place[r.entries[i].part]
                /\ r.entries[i].last = r.entries[i].first + PartSize(d, r.entries[i].part) - 1
           /\ \A p \in DOMAIN d.size : d.size[p] > 0 => \E i \in DOMAIN r.entries : r.entries[i].part = p
           /\ r.header.self = r.place["gpt"] /\ r.header.table = r.place["gpt"] + 1
           /\ r.header.other = r.place["gpt2"] /\ r.backup.self = r.place["gpt2"]
           /\ r.backup.table = r.place["table2"] /\ r.backup.other = r.place["gpt"]
           /\ r.stage2 = r.place[d.loader.part] + d.loader.at
           /\ d.iso => /\ 4 * r.iso.volume = r.place["iso"] /\ 4 * r.iso.esp = r.place["esp"]
                       /\ 4 * r.iso.readme < r.place["esp"] /\ 4 * r.iso.size >= r.place["table2"]
           /\ r.mbr.gpt.first = r.place["gpt"] /\ r.mbr.gpt.n = GptSectors(d)
           /\ r.mbr.esp.first = r.place["esp"]

(***************************************************************************)
(* The partitions are in the area the header calls usable.  This is not    *)
(* so for a disk that is not a CD: the header always says 64 sectors from  *)
(* both ends, which are 7 (src/tools/mkfs.c:1381).                         *)
(***************************************************************************)
InUsable ==
    Returned("disk") /\ out[1].made =>
        \A i \in DOMAIN out[1].entries :
            /\ out[1].entries[i].first >= out[1].header.usable.first
            /\ out[1].entries[i].last <= out[1].header.usable.last

(***************************************************************************)
(* The system partition of the old table is where it is.  It is not: its   *)
(* own size is added to its place (src/tools/mkfs.c:1369).                 *)
(***************************************************************************)
MbrSystem ==
    Returned("disk") /\ out[1].made /\ job.disk.size["root86"] > 0 => out[1].mbr.sys.first = out[1].place["root86"]

(***************************************************************************)
(* The table the header describes fits between it and the partitions.  It  *)
(* does not on a disk that is not a CD: 248 entries of 4 to a sector are   *)
(* announced, and summed up, in 6 sectors (src/tools/mkfs.c:1388).         *)
(***************************************************************************)
TableFits ==
    Returned("disk") /\ out[1].made =>
        out[1].header.table + out[1].header.entries \div out[1].header.perSector <= out[1].place["gpt"] + GptSectors(job.disk)

(***************************************************************************)
(* The bytes of a ROM add up to 0.  They do not when malloc left something *)
(* in byte 6, which is in the sum (src/tools/mkfs.c:1922).                 *)
(***************************************************************************)
RomAddsUp == Returned("rom") => out[1] = 0
=============================================================================
