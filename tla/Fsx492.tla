-------------------------------- MODULE Fsx492 --------------------------------
(***************************************************************************)
(* The file system of src/pmeunier-project/fs.c on one block device.       *)
(* The program keeps the two bitmaps and the inode table in memory (core), *)
(* and brings them to the device (disk) with writes of whole blocks.  A    *)
(* handler reads what it needs, changes core at once and leaves its writes *)
(* in todo, in the order the code issues them; Flush performs the next one *)
(* and Crash, where allowed, loses the rest.  Handlers run one at a time.  *)
(*                                                                         *)
(* A block holds BLOCK_SIZE units, which stand for its bytes; a unit other *)
(* than 0 is a byte other than 0.  Files are read and written at block     *)
(* boundaries, at most a block at a time, as the commands of main.c do.    *)
(*                                                                         *)
(* Two things end the model.  When the superblock is lost, nothing goes on *)
(* (the program refuses the image).  And a handler that would follow a     *)
(* file's bytes as block pointers is not performed (Readable): when a      *)
(* crash or an early return has left one block in two places, it would     *)
(* read, free or overwrite blocks by those bytes.                          *)
(***************************************************************************)
EXTENDS Integers, Sequences, FiniteSets, FiniteSetsExt, SequencesExt

CONSTANTS
    Names,          \* file names of at most three characters
    Home,           \* the name of the directory that is there at first
    NoName,
    Region,         \* blocks of the inode table: inode_region_sz
    PerBlock,       \* INODES_PER_BLK
    NBlocks,        \* blocks of the device
    N_DIRECT,
    Pointers,       \* PTRS_PER_BLK
    Entries,        \* DIRENTS_PER_BLK
    BLOCK_SIZE,     \* units of a block
    Units,          \* what callers of fs_write fill files with
    Reach,          \* the last block at which they write
    MakeDirs,       \* TRUE when directories are made and removed
    TypeBits,       \* TRUE when chmod may be given the bits of a file type
    Crashes         \* TRUE when the program may be killed between two writes

Root     == 1
HomeNode == Region      \* the first inode get_free_inode does not look at
Inodes   == 0 .. Region * PerBlock - 1
Blocks   == 0 .. NBlocks - 1
RootBlk  == 3 + Region
HomeBlk  == RootBlk + 1
Meta     == 0 .. RootBlk - 1
MaxFile  == N_DIRECT + Pointers     \* what the direct and first indirect blocks hold
Paths    == {<<n>> : n \in Names} \cup (Names \X Names)

ASSUME FsAssumption ==
    /\ Home \in Names /\ NoName \notin Names
    /\ {Region, PerBlock, N_DIRECT, Pointers, Entries, BLOCK_SIZE} \subseteq Nat \ {0}
    /\ NBlocks \in Nat /\ HomeBlk < NBlocks
    /\ Reach \in 0 .. MaxFile
    /\ Region > 1 /\ HomeNode \in Inodes
    /\ MakeDirs \in BOOLEAN /\ TypeBits \in BOOLEAN /\ Crashes \in BOOLEAN

VARIABLES
    core,           \* inode_map, block_map and inodes, in memory
    disk,           \* the same on the device, the other blocks and the superblock
    todo            \* the writes the running handler has still to perform

vars == <<core, disk, todo>>

NoEntry == [name |-> NoName, inode |-> 0]
Zeroes  == [ents |-> [s \in 1 .. Entries |-> NoEntry],
            ptrs |-> [p \in 0 .. Pointers - 1 |-> 0],
            data |-> [u \in 1 .. BLOCK_SIZE |-> 0]]
NoInode == [kind |-> "none", size |-> 0, direct |-> [k \in 0 .. N_DIRECT - 1 |-> 0],
            indir_1 |-> 0, indir_2 |-> 0]
DirInode(b) == [NoInode EXCEPT !.kind = "dir", !.direct[0] = b]

-----------------------------------------------------------------------------
(* The device. *)

BlkWrite(b, c)   == [at |-> "block", no |-> b, val |-> c]
update_blk(m)    == <<[at |-> "bmap", no |-> 2, val |-> m.bmap]>>
InodeBlock(m, n) == [i \in {j \in Inodes : j \div PerBlock = n} |-> m.itab[i]]
update_inode(m, i) == <<[at |-> "itab", no |-> i \div PerBlock, val |-> InodeBlock(m, i \div PerBlock)],
                        [at |-> "imap", no |-> 1, val |-> m.imap]>>

\* Block 0 doubles as the entries of the directories fs_mkdir makes.  A first
\* entry put there spares the superblock's fields, one erased does not.
SuperSurvives(old, new) == new # Zeroes /\ old.ents[1] \in {NoEntry, new.ents[1]}

\* A table with the inodes of one of its blocks replaced.
Overlay(t, part) == [i \in DOMAIN t |-> IF i \in DOMAIN part THEN part[i] ELSE t[i]]

Written(d, w) ==
    CASE w.at = "block" -> [d EXCEPT !.blk[w.no] = w.val,
                                     !.super = @ /\ (w.no = 0 => SuperSurvives(d.blk[0], w.val))]
      [] w.at = "itab"  -> [d EXCEPT !.itab = Overlay(@, w.val)]
      [] w.at = "imap"  -> [d EXCEPT !.imap = w.val]
      [] w.at = "bmap"  -> [d EXCEPT !.bmap = w.val]

fs_init(d) == [imap |-> d.imap, bmap |-> d.bmap, itab |-> d.itab]

-----------------------------------------------------------------------------
(* Free inodes and blocks, in memory. *)

FreeInodes == {i \in 2 .. Region - 1 : i \notin core.imap}
FreeBlks == Blocks \ core.bmap

-----------------------------------------------------------------------------
(* Directories and paths.  0 stands for every failure. *)

IsDir(i)  == core.itab[i].kind = "dir"
DirBlk(i) == core.itab[i].direct[0]
Dirents(i) == disk.blk[DirBlk(i)].ents

FreeSlots(e) == {s \in DOMAIN e : e[s] = NoEntry}
FirstSlot(e) == 1                           \* Bug: the first entry is overwritten
find_free_dir(e) == Min(FreeSlots(e))

find_in_dir(e, n) == LET S == {s \in DOMAIN e : e[s].inode # 0 /\ e[s].name = n}
                     IN  IF S = {} THEN 0 ELSE e[Min(S)].inode
lookup(i, n) == IF IsDir(i) THEN find_in_dir(Dirents(i), n) ELSE 0

Leaf(p)        == p[Len(p)]
translate_1(p) == IF Len(p) = 1 THEN Root ELSE lookup(Root, p[1])
translate(p)   == LET i == translate_1(p) IN IF i = 0 THEN 0 ELSE lookup(i, Leaf(p))

\* The places of the entries with a name.
Named(e, n) == {s \in DOMAIN e : e[s] # NoEntry /\ e[s].name = n}

-----------------------------------------------------------------------------
(* Creating nodes. *)

Ready == todo = <<>> /\ disk.super
Perform(m, writes) == core' = m /\ todo' = writes /\ UNCHANGED disk

Made(i, kind) ==
    [core EXCEPT !.imap = @ \cup {i},
                 !.itab[i] = [@ EXCEPT !.kind = kind, !.size = 0, !.direct[0] = 0]]

CanMakeTwice(p) == Ready /\ translate_1(p) # 0 /\ IsDir(translate_1(p))  \* Bug: no EEXIST
\* translate finds no node at the path, and a directory to put it in.
CanMake(p) == Ready /\ translate_1(p) # 0 /\ IsDir(translate_1(p)) /\ translate(p) = 0

Make(p, kind) ==
    LET parent == translate_1(p)
        i      == Min(FreeInodes)
        m      == Made(i, kind)
        slot   == find_free_dir(Dirents(parent))
    IN  /\ CanMake(p)
        /\ FreeInodes # {}
        /\ FreeSlots(Dirents(parent)) # {}
        /\ Perform(m, update_inode(m, i) \o update_blk(m)
                  \o <<BlkWrite(DirBlk(parent),
                                [disk.blk[DirBlk(parent)] EXCEPT
                                    !.ents[slot] = [name |-> Leaf(p), inode |-> i]])>>)

\* The directory is full: -ENOSPC, but get_free_inode has taken an inode.
MakeNoSlot(p) ==
    /\ CanMake(p)
    /\ FreeInodes # {}
    /\ FreeSlots(Dirents(translate_1(p))) = {}
    /\ Perform([core EXCEPT !.imap = @ \cup {Min(FreeInodes)}], <<>>)

fs_mknod(p) == Make(p, "file") \/ MakeNoSlot(p)
fs_mkdir(p) == MakeDirs /\ (Make(p, "dir") \/ MakeNoSlot(p))

-----------------------------------------------------------------------------
(* Truncating and removing. *)

NonZero(S)    == S \ {0}
DirectOf(x)   == {x.direct[k] : k \in DOMAIN x.direct}
Targets(d, b) == IF b = 0 THEN {} ELSE {d.blk[b].ptrs[p] : p \in 0 .. Pointers - 1}
Second(d, x)  == NonZero(Targets(d, x.indir_2))
Owned(d, x)   == NonZero(DirectOf(x) \cup {x.indir_1, x.indir_2} \cup Targets(d, x.indir_1)
                         \cup Second(d, x) \cup UNION {Targets(d, b) : b \in Second(d, x)})

\* The blocks of pointers behind an inode, and that none of them holds bytes
\* of a file, which the handler would take for pointers.
Indexes(d, x) == NonZero({x.indir_1, x.indir_2}) \cup Second(d, x)
Readable(i)   == \A b \in Indexes(disk, core.itab[i]) : disk.blk[b].data = Zeroes.data

\* What fs_truncate returns: fs_truncate_indir2 returns the blocks the second
\* level names, and forgets that level's own.
ReturnedButIndex(d, x) == Owned(d, x) \ (Second(d, x) \cup {x.indir_1})   \* Bug: nor indir_1
Returned(d, x) == Owned(d, x) \ Second(d, x)
EmptiedButDirect(x) == [x EXCEPT !.size = 0, !.indir_1 = 0, !.indir_2 = 0] \* Bug: no de[i] = 0
Emptied(x)  == [NoInode EXCEPT !.kind = x.kind]

Truncated(i) == [core EXCEPT !.bmap = @ \ Returned(disk, core.itab[i]),
                             !.itab[i] = Emptied(@)]
Cleared(m, i) == [m EXCEPT !.imap = @ \ {i}, !.itab[i] = NoInode]

TruncateWritesNoMap(i) == update_inode(Truncated(i), i)             \* Bug: update_blk is missing
TruncateWrites(i) == update_inode(Truncated(i), i) \o update_blk(Truncated(i))

fs_truncate(p) ==
    LET i == translate(p)
    IN  /\ Ready
        /\ i # 0 /\ ~IsDir(i) /\ Readable(i)
        /\ Perform(Truncated(i), TruncateWrites(i))

Erased(e, n) == [s \in DOMAIN e |-> IF s \in Named(e, n) THEN NoEntry ELSE e[s]]
Unlisted(b, n) == BlkWrite(b, [disk.blk[b] EXCEPT !.ents = Erased(@, n)])

\* Bug: the inode is given back before the entry is erased.
UnlinkInodeFirst(p) ==
    LET i == translate(p)
        m == Cleared(Truncated(i), i)
    IN  /\ Ready
        /\ i # 0 /\ ~IsDir(i) /\ Readable(i)
        /\ Perform(m, TruncateWrites(i) \o update_inode(m, i) \o update_blk(m)
                      \o <<Unlisted(DirBlk(translate_1(p)), Leaf(p))>>)

fs_unlink(p) ==
    LET i == translate(p)
        m == Cleared(Truncated(i), i)
    IN  /\ Ready
        /\ i # 0 /\ ~IsDir(i) /\ Readable(i)
        /\ Perform(m, TruncateWrites(i)
                      \o <<Unlisted(DirBlk(translate_1(p)), Leaf(p))>>
                      \o update_inode(m, i) \o update_blk(m))

RmdirState(i) == LET m == Cleared(core, i) IN [m EXCEPT !.bmap = @ \ {DirBlk(i)}]
CanRmdir(p) == LET i == translate(p) IN
    /\ Ready /\ MakeDirs
    /\ i # 0 /\ IsDir(i)
    /\ FreeSlots(Dirents(i)) = DOMAIN Dirents(i)

\* Bug: the block is given back before the inode.
RmdirBlockFirst(p) ==
    LET i == translate(p)
        m == RmdirState(i)
    IN  /\ CanRmdir(p)
        /\ Perform(m, update_blk(m) \o update_inode(m, i)
                      \o <<BlkWrite(DirBlk(translate_1(p)), disk.blk[DirBlk(i)])>>)

\* What is written over the parent's entries are the empty entries of the
\* directory itself.  fs_releasedir then looks the path up on the device, does
\* not find it and leaves its null file information alone.
fs_rmdir(p) ==
    LET i == translate(p)
        m == RmdirState(i)
    IN  /\ CanRmdir(p)
        /\ Perform(m, <<BlkWrite(DirBlk(translate_1(p)), disk.blk[DirBlk(i)])>>
                      \o update_inode(m, i) \o update_blk(m))

-----------------------------------------------------------------------------
(* Renaming, attributes and reloading. *)

Relabelled(e, n, new) ==
    [s \in DOMAIN e |-> IF s \in Named(e, n) THEN [e[s] EXCEPT !.name = new] ELSE e[s]]
Renamed(p, q) ==
    LET b == DirBlk(translate_1(p))
    IN  BlkWrite(b, [disk.blk[b] EXCEPT !.ents = Relabelled(@, Leaf(p), Leaf(q))])

fs_rename(p, q) ==
    /\ Ready
    /\ translate(p) # 0 /\ translate(q) = 0
    /\ translate_1(p) = translate_1(q)
    /\ Perform(core, <<Renamed(p, q)>>)

\* fs_utime, and fs_chmod with permissions alone: neither the time nor the
\* permissions matter here.
SetAttributes(i) == Ready /\ i # 0 /\ Perform(core, update_inode(core, i))

\* fs_chmod adds the type's own bits to the mode it is given and takes none
\* away, so that a directory given another type's bits is one no longer.  No
\* mode makes a directory of anything else.
Retyped(i) == [core EXCEPT !.itab[i].kind = "file"]
fs_chmod(i) ==
    \/ SetAttributes(i)
    \/ /\ Ready /\ TypeBits
       /\ i # 0 /\ IsDir(i)
       /\ Perform(Retyped(i), update_inode(Retyped(i), i))

\* fs_getattr runs fs_init again, for a path that exists or not.
fs_getattr == Ready /\ Perform(fs_init(disk), <<>>)

-----------------------------------------------------------------------------
(* Writing at most a block at a block boundary: block k of the file.       *)

Pointer(b, n) == IF b = 0 THEN 0 ELSE disk.blk[b].ptrs[n]
Slot(k) == IF k < MaxFile THEN k - N_DIRECT ELSE 0

\* The blocks on the way from the inode to block k, 0 where one is missing:
\* direct, behind the first indirect block, or behind the second.
Way(x, k) ==
    CASE k < N_DIRECT                  -> <<x.direct[k]>>
      [] k \in N_DIRECT .. MaxFile - 1 -> <<x.indir_1, Pointer(x.indir_1, Slot(k))>>
      [] k = MaxFile                   -> <<x.indir_2, Pointer(x.indir_2, 0),
                                            Pointer(Pointer(x.indir_2, 0), 0)>>

\* What the n-th of some calls of get_free_blk returns: once a directory of
\* fs_mkdir has been removed, that may be block 0.
ENOSPC == -1
NthFree(n) == IF n > Cardinality(FreeBlks) THEN ENOSPC
              ELSE CHOOSE b \in FreeBlks : Cardinality(FreeBlks \cap 0 .. b) = n
\* The way with what is missing allocated.
Completed(way) ==
    [j \in DOMAIN way |->
        IF way[j] # 0 THEN way[j] ELSE NthFree(Cardinality({m \in 1 .. j : way[m] = 0}))]
\* Both ways to block k; a set of one, which TLC evaluates once.
Ways(i, k) == {[found |-> y, made |-> Completed(y)] : y \in {Way(core.itab[i], k)}}

\* The places on the way that have been given a new block.
New(w) == {j \in DOMAIN w.made : w.found[j] = 0 /\ w.made[j] # ENOSPC}

With(i, k, w) ==
    LET b == IF w.made[1] = ENOSPC THEN 0 ELSE w.made[1]
    IN  [core EXCEPT
            !.bmap    = @ \cup {w.made[j] : j \in New(w)},
            !.itab[i] = CASE k < N_DIRECT -> [@ EXCEPT !.direct[k] = b]
                          [] k \in N_DIRECT .. MaxFile - 1 -> [@ EXCEPT !.indir_1 = b]
                          [] k = MaxFile -> [@ EXCEPT !.indir_2 = b]]
Content(w, j) == IF w.found[j] = 0 THEN Zeroes ELSE disk.blk[w.made[j]]

NotStored(i, k, w, j) == IF j = 1 THEN update_inode(With(i, k, w), i) ELSE <<>>  \* Bug
\* The inode or the index block that names the j-th block is written back.
Store(i, k, w, j) ==
    IF j = 1 THEN update_inode(With(i, k, w), i)
    ELSE <<BlkWrite(w.made[j - 1], [Content(w, j - 1) EXCEPT !.ptrs[Slot(k)] = w.made[j]])>>
\* get_free_blk zeroes each new block.  The way has at most three blocks.
AllocBlk(i, k, w, j) ==
    IF j \in New(w) THEN <<BlkWrite(w.made[j], Zeroes)>> \o Store(i, k, w, j) ELSE <<>>
AllocWrites(i, k, w) == AllocBlk(i, k, w, 1) \o AllocBlk(i, k, w, 2) \o AllocBlk(i, k, w, 3)

\* fs_write_blk reads the block and lays the units over it.
Filled(w, d) ==
    LET old == Content(w, Len(w.made)).data
    IN  BlkWrite(Last(w.made), [Zeroes EXCEPT !.data = d \o SubSeq(old, Len(d) + 1, BLOCK_SIZE)])

GrownAlways(x, end) == [x EXCEPT !.size = @ + 1]     \* Bug: overwriting extends the file
Grown(x, end) == [x EXCEPT !.size = IF end > @ THEN end ELSE @]

CanWrite(i, k) == /\ Ready
                  /\ i # 0 /\ ~IsDir(i) /\ Readable(i)
                  /\ k * BLOCK_SIZE <= core.itab[i].size

\* Behind the second level the size is not moved: the offset grows by what is
\* left to write, and nothing is.  A file never gets longer than MaxFile blocks.
WriteBlock(i, k, d) ==
    /\ CanWrite(i, k)
    /\ \E w \in Ways(i, k) :
          LET end == k * BLOCK_SIZE + (IF k < MaxFile THEN Len(d) ELSE 0)
              m   == [With(i, k, w) EXCEPT !.itab[i] = Grown(@, end)]
          IN  /\ Last(w.made) # ENOSPC
              /\ Perform(m, AllocWrites(i, k, w) \o <<Filled(w, d)>>
                            \o update_inode(m, i) \o update_blk(m))

\* fs_write_indir2 counts its units as written before it looks for a block.
WriteLost(i, k) ==
    /\ CanWrite(i, k)
    /\ k = MaxFile
    /\ \E w \in Ways(i, k) :
          LET m == With(i, k, w)
          IN  /\ w.made[1] # ENOSPC /\ Last(w.made) = ENOSPC
              /\ Perform(m, AllocWrites(i, k, w) \o update_inode(m, i) \o update_blk(m))

\* No block is left for an index, or for the data: fs_write goes on to the
\* next level, finds no block for it either and returns without update_blk.
WriteNoSpace(i, k) ==
    /\ CanWrite(i, k)
    /\ \E w \in Ways(i, k) :
          /\ w.made[IF k < MaxFile THEN Len(w.made) ELSE 1] = ENOSPC
          /\ Perform(With(i, k, w), AllocWrites(i, k, w))

fs_write(p, k, d) ==
    \E i \in {translate(p)} : WriteBlock(i, k, d) \/ WriteLost(i, k) \/ WriteNoSpace(i, k)

-----------------------------------------------------------------------------
(* The device performs the writes in order; the program may be killed and  *)
(* started again, which loses the writes that are still to come.           *)

Flush == /\ todo # <<>>
         /\ disk' = Written(disk, Head(todo))
         /\ todo' = Tail(todo)
         /\ UNCHANGED core

Crash == /\ Crashes
         /\ disk.super
         /\ core' = fs_init(disk)
         /\ todo' = <<>>
         /\ UNCHANGED disk

HomeEntry == [name |-> Home, inode |-> HomeNode]

Init == /\ disk = [super |-> TRUE,
                   imap  |-> {0, Root, HomeNode},
                   bmap  |-> Meta \cup {RootBlk, HomeBlk},
                   itab  |-> [i \in Inodes |-> CASE i = Root -> DirInode(RootBlk)
                                                 [] i = HomeNode -> DirInode(HomeBlk)
                                                 [] OTHER -> NoInode],
                   blk   |-> [b \in Blocks |-> IF b = RootBlk
                                               THEN [Zeroes EXCEPT !.ents[1] = HomeEntry]
                                               ELSE Zeroes]]
        /\ core = fs_init(disk)
        /\ todo = <<>>

Command ==
    \/ fs_getattr
    \/ fs_chmod(Root)
    \/ \E p \in Paths : \/ fs_mknod(p)
                        \/ fs_mkdir(p)
                        \/ fs_truncate(p)
                        \/ fs_unlink(p)
                        \/ fs_rmdir(p)
                        \/ fs_chmod(translate(p))
                        \/ \E q \in Paths : fs_rename(p, q)
                        \/ \E k \in 0 .. Reach, x \in Units :
                               fs_write(p, k, [u \in 1 .. BLOCK_SIZE |-> x])

Next == Command \/ Flush \/ Crash
Spec == Init /\ [][Next]_vars

-----------------------------------------------------------------------------
(* Properties *)

InodeType == [kind : {"none", "file", "dir"}, size : 0 .. MaxFile * BLOCK_SIZE,
              direct : [0 .. N_DIRECT - 1 -> Blocks], indir_1 : Blocks, indir_2 : Blocks]
EntryType == [name : Names, inode : Inodes \ {0}] \cup {NoEntry}
BlockType == [ents : [1 .. Entries -> EntryType], ptrs : [0 .. Pointers - 1 -> Blocks],
              data : [1 .. BLOCK_SIZE -> Units \cup {0}]]

\* The maps and tables have their shape, in memory and on the device, and no
\* file grows beyond the blocks an inode can name.
TypeOK == /\ core \in [imap : SUBSET Inodes, bmap : SUBSET Blocks, itab : [Inodes -> InodeType]]
          /\ disk \in [super : BOOLEAN, imap : SUBSET Inodes, bmap : SUBSET Blocks,
                       itab : [Inodes -> InodeType], blk : [Blocks -> BlockType]]
          /\ \A k \in DOMAIN todo : todo[k].at \in {"block", "itab", "imap", "bmap"}

LiveDirs == {i \in disk.imap : disk.itab[i].kind = "dir"}
DirBlks  == {disk.itab[i].direct[0] : i \in LiveDirs}
EntryAt(x) == disk.blk[x[1]].ents[x[2]]
Bindings == {x \in DirBlks \X (1 .. Entries) : EntryAt(x) # NoEntry}

\* On the device, at every moment, an entry of a live directory names an inode
\* that is allocated and filled in: an inode is written before the entry that
\* names it and erased after it (fs_mknod, fs_unlink), whenever a crash comes.
EntriesLive == \A x \in Bindings : LET i == EntryAt(x).inode
                                   IN  i \in disk.imap /\ disk.itab[i].kind # "none"

\* No two entries of one block share a name and no two entries anywhere share
\* an inode: the checks for EEXIST, the free inodes and the order of the
\* writes see to it, crashes or not.  (That makes no tree: the directories of
\* fs_mkdir all have block 0, so that each shows the entries of the others
\* and may show itself.)
OneName == \A x, y \in Bindings : x # y =>
              /\ EntryAt(x).inode # EntryAt(y).inode
              /\ x[1] = y[1] => EntryAt(x).name # EntryAt(y).name

\* The entries of a live directory that has a block of its own are in a block
\* the device's map marks as used, so that no file is given it: fs_rmdir
\* erases the inode before it returns the block.  Block 0, which the map loses
\* when a directory of fs_mkdir is removed, is not covered.
DirBlocksMarked == disk.super => DirBlks \ {0} \subseteq disk.bmap

LiveNodes == {i \in core.imap : core.itab[i].kind # "none"}
OwnedBy(i) == IF IsDir(i) THEN {DirBlk(i)} ELSE Owned(disk, core.itab[i])
\* No block belongs to two nodes: "Returns a free block number or -ENOSPC if
\* none available", as the comment of get_free_blk has it.
NoSharedBlock == \A i, j \in LiveNodes : i # j => OwnedBy(i) \cap OwnedBy(j) = {}

\* Commands on files keep the promise of Namespace: each write of a block of
\* entries adds, removes or renames one binding, the others stay.
NS == INSTANCE Namespace WITH
          Dirs <- {0, RootBlk, HomeBlk}, Nodes <- 2 .. HomeNode,
          bindings <- {<<x[1], EntryAt(x).name, EntryAt(x).inode>> : x \in Bindings}
ImplementsNamespace == NS!Spec

\* A write to the device loses at most one directory entry: fs.c says of the
\* write in fs_rmdir "remove entry from parent dir".
RemovesOneEntry ==
    [][Cardinality({x \in Bindings : disk'.blk[x[1]].ents[x[2]] = NoEntry}) <= 1]_disk
================================================================================
