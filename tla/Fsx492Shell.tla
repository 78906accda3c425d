------------------------------ MODULE Fsx492Shell ------------------------------
(***************************************************************************)
(* The command interpreter of src/pmeunier-project/main.c on the file      *)
(* system.  It performs one command at a time, and a command one operation *)
(* of the file system after the other: put writes and get reads a file in  *)
(* a loop, a block at a time.  Paths are those full_path has made absolute *)
(* (see PathNames); listings and help are left out.  Local files are as    *)
(* the caller has them and can always be opened.                           *)
(*                                                                         *)
(* The model ends when the device runs full, which is the subject of the   *)
(* behaviours of Fsx492 itself.                                            *)
(***************************************************************************)
EXTENDS Fsx492

CONSTANTS
    Locals,         \* files outside the file system
    Contents,       \* their units, of those fs_write may be given
    NoLocal

ASSUME ShellAssumption == /\ NoLocal \notin Locals
                          /\ Contents \in [Locals -> Seq(Units)]

VARIABLES
    at,             \* where the interpreter is: "prompt", "put", "get" or "got"
    path,           \* the path put or get works on
    local,          \* the file put reads
    offset,
    blkbuf,         \* the block buffer
    out,            \* what get has written outside
    from,           \* history: the file a node was put from
    lost,           \* history: the second-level blocks that truncating forgets
    full            \* history: an operation found no free block

loop    == <<at, path, local, offset, blkbuf, out>>
history == <<from, lost, full>>
svars   == <<vars, loop, history>>

Junk == [u \in 1 .. BLOCK_SIZE |-> 0]       \* what earlier commands left in blkbuf
Size(i) == core.itab[i].size

Prompt == at = "prompt" /\ ~full
Goto(place, p, l) ==
    at' = place /\ path' = p /\ local' = l /\ offset' = 0 /\ blkbuf' = Junk /\ out' = <<>>

-----------------------------------------------------------------------------
(* Commands that are one operation. *)

do_rename == \E p, q \in Paths : fs_rename(p, q) /\ UNCHANGED <<loop, history>>
do_mkdir  == \E p \in Paths : fs_mkdir(p) /\ UNCHANGED <<loop, history>>
do_rmdir  == \E p \in Paths : fs_rmdir(p) /\ UNCHANGED <<loop, history>>

do_utime  == \E p \in Paths : SetAttributes(translate(p)) /\ UNCHANGED <<loop, history>>

\* The mode is any octal number, the path may be that of the root.
do_chmod  == \E i \in {Root} \cup {translate(p) : p \in Paths} :
                 fs_chmod(i) /\ UNCHANGED <<loop, history>>

\* cd, stat and ls-l begin with a getattr, a new run of the program with fs_init.
do_cd     == fs_getattr /\ UNCHANGED <<loop, history>>

\* touch makes a file, or changes the time of the one that exists.
do_touch  == /\ \E p \in Paths : fs_mknod(p) \/ SetAttributes(translate(p))
             /\ UNCHANGED <<loop, history>>

Emptying(p) ==
    LET i == translate(p)
    IN  /\ lost' = lost \cup Second(disk, core.itab[i])
        /\ from' = [from EXCEPT ![i] = NoLocal]
        /\ UNCHANGED <<loop, full>>
do_truncate == \E p \in Paths : fs_truncate(p) /\ Emptying(p)
do_rm       == \E p \in Paths : fs_unlink(p) /\ Emptying(p)

-----------------------------------------------------------------------------
(* put: mknod, open, and a write for each block read from outside. *)

PutBegin == \E p \in Paths, l \in Locals :
    /\ Make(p, "file")
    /\ Goto("put", p, l)
    /\ from' = [from EXCEPT ![Min(FreeInodes)] = l]
    /\ UNCHANGED <<lost, full>>

\* What read gives: at most a block.
Chunk == LET c == Contents[local]
         IN  SubSeq(c, offset + 1, Min({offset + BLOCK_SIZE, Len(c)}))

PutWrite ==
    /\ at = "put"
    /\ Chunk # <<>>
    /\ \E i \in {translate(path)} :
          \/ WriteBlock(i, offset \div BLOCK_SIZE, Chunk) /\ UNCHANGED full
          \/ WriteLost(i, offset \div BLOCK_SIZE) /\ full' = TRUE
    /\ offset' = offset + Len(Chunk)
    /\ UNCHANGED <<at, path, local, blkbuf, out, from, lost>>

\* fs_write returned 0: for want of a block, or because the offset is behind
\* the end of the file.  put ends and reports success, as it does at the end
\* of what it reads.
PutNoSpace ==
    /\ at = "put"
    /\ Chunk # <<>>
    /\ WriteNoSpace(translate(path), offset \div BLOCK_SIZE)
    /\ Goto("prompt", <<>>, NoLocal)
    /\ full' = TRUE
    /\ UNCHANGED <<from, lost>>

PutEnd ==
    /\ at = "put"
    /\ Ready
    /\ Chunk = <<>> \/ offset > Size(translate(path))
    /\ Goto("prompt", <<>>, NoLocal)
    /\ UNCHANGED <<vars, history>>

-----------------------------------------------------------------------------
(* get and show: open, and a read for each block until one gives nothing. *)

OpenUnchecked(p) == TRUE    \* Bug: the result of fs_open is not looked at
fs_open(p) == translate(p) # 0 /\ ~IsDir(translate(p))

GetBegin == \E p \in Paths :
    /\ Ready
    /\ fs_open(p)
    /\ Goto("get", p, NoLocal)
    /\ UNCHANGED <<vars, history>>

fs_read_dir(i)    == disk.blk[core.itab[i].direct[offset \div BLOCK_SIZE]].data
fs_read_indir1(i) == LET b == core.itab[i].indir_1
                         k == offset \div BLOCK_SIZE - N_DIRECT
                     IN  disk.blk[disk.blk[b].ptrs[k]].data

\* Bug: the last full block counts as behind the end.
ReadShort(i) ==
    IF i = 0 \/ IsDir(i) THEN [ret |-> -1, buf |-> blkbuf]
    ELSE IF offset + BLOCK_SIZE >= Size(i) THEN [ret |-> Max({Size(i) - offset, 0}), buf |-> blkbuf]
    ELSE IF offset < N_DIRECT * BLOCK_SIZE THEN [ret |-> BLOCK_SIZE, buf |-> fs_read_dir(i)]
    ELSE [ret |-> BLOCK_SIZE, buf |-> fs_read_indir1(i)]

\* A read that reaches behind the end gives the number of units up to there
\* and leaves the buffer as it is.
fs_read(i) ==
    IF i = 0 \/ IsDir(i) THEN [ret |-> -1, buf |-> blkbuf]
    ELSE IF offset + BLOCK_SIZE > Size(i) THEN [ret |-> Max({Size(i) - offset, 0}), buf |-> blkbuf]
    ELSE IF offset < N_DIRECT * BLOCK_SIZE THEN [ret |-> BLOCK_SIZE, buf |-> fs_read_dir(i)]
    ELSE [ret |-> BLOCK_SIZE, buf |-> fs_read_indir1(i)]

\* An error is neither reported nor does it end the loop.
GetRead ==
    LET r == fs_read(translate(path))
    IN  /\ at = "get"
        /\ Ready
        /\ blkbuf' = r.buf
        /\ out' = out \o SubSeq(r.buf, 1, r.ret)
        /\ offset' = IF r.ret > 0 THEN offset + r.ret ELSE offset
        /\ at' = IF r.ret = 0 THEN "got" ELSE "get"
        /\ UNCHANGED <<vars, path, local, history>>

GetEnd ==
    /\ at = "got"
    /\ Goto("prompt", <<>>, NoLocal)
    /\ UNCHANGED <<vars, history>>

-----------------------------------------------------------------------------

ShellInit ==
    /\ Init
    /\ at = "prompt" /\ path = <<>> /\ local = NoLocal /\ offset = 0
    /\ blkbuf = Junk /\ out = <<>>
    /\ from = [i \in Inodes |-> NoLocal]
    /\ lost = {}
    /\ full = FALSE

cmdloop ==
    /\ Prompt
    /\ \/ do_rename \/ do_mkdir \/ do_rmdir \/ do_utime \/ do_chmod \/ do_cd \/ do_touch
       \/ do_truncate \/ do_rm \/ PutBegin \/ GetBegin

Proceed ==
    \/ PutWrite \/ PutNoSpace \/ PutEnd \/ GetRead \/ GetEnd
    \/ Flush /\ UNCHANGED <<loop, history>>

ShellNext == cmdloop \/ Proceed

\* A command that was given runs on; nobody has to give one.
ShellSpec == ShellInit /\ [][ShellNext]_svars /\ WF_svars(Proceed)

-----------------------------------------------------------------------------
(* Properties *)

Whole(n) == (n \div BLOCK_SIZE) * BLOCK_SIZE
Stored(i) == [k \in 1 .. Size(i) |->
                 LET b == (k - 1) \div BLOCK_SIZE
                     x == core.itab[i]
                     n == IF b < N_DIRECT THEN x.direct[b]
                          ELSE disk.blk[x.indir_1].ptrs[b - N_DIRECT]
                 IN  disk.blk[n].data[1 + ((k - 1) % BLOCK_SIZE)]]

\* Unless the device ran full, a file that was put and that the first two
\* levels of blocks can hold is, between two commands, what was outside, and
\* stays so whatever is made, put, renamed, removed and truncated next to it.
\* (Of a longer one fs_write loses what goes behind the second level.)
FilesHoldWhatWasPut ==
    at # "put" /\ todo = <<>> /\ ~full =>
        \A i \in LiveNodes : from[i] # NoLocal =>
            LET c == Contents[from[i]]
            IN  Len(c) <= MaxFile * BLOCK_SIZE => Stored(i) = c

\* What get writes outside agrees with what was put up to the last whole
\* block, and is as long as the file.  (The units behind the last whole block
\* are what the buffer held before.)
GetsWholeBlocks ==
    at \in {"get", "got"} =>
        LET i == translate(path)
            n == Min({Len(out), Whole(Size(i))})
        IN  /\ at = "got" => Len(out) = Size(i)
            /\ from[i] # NoLocal => SubSeq(out, 1, n) = SubSeq(Contents[from[i]], 1, n)

\* The places of an inode, and of the index blocks behind it, that name a block.
Places == ({"direct"} \X (0 .. N_DIRECT - 1) \X {0})
          \cup {<<"indir_1", 0, 0>>, <<"indir_2", 0, 0>>}
          \cup ({"first", "second"} \X (0 .. Pointers - 1) \X {0})
          \cup ({"third"} \X (0 .. Pointers - 1) \X (0 .. Pointers - 1))
Behind(d, b, p) == IF b = 0 THEN 0 ELSE d.blk[b].ptrs[p]
PointerAt(d, x, a) ==
    CASE a[1] = "direct"  -> x.direct[a[2]]
      [] a[1] = "indir_1" -> x.indir_1
      [] a[1] = "indir_2" -> x.indir_2
      [] a[1] = "first"   -> Behind(d, x.indir_1, a[2])
      [] a[1] = "second"  -> Behind(d, x.indir_2, a[2])
      [] a[1] = "third"   -> Behind(d, Behind(d, x.indir_2, a[2]), a[3])
NamesTwice(d, x) == \E a, b \in Places : /\ a # b /\ PointerAt(d, x, a) # 0
                                         /\ PointerAt(d, x, a) = PointerAt(d, x, b)
\* Between two commands no block belongs to two nodes or twice to one, and the
\* blocks that belong to a node are marked as used in memory, so that
\* get_free_blk returns only a free block.
BlocksExclusive ==
    todo = <<>> /\ ~full =>
        /\ \A i \in LiveNodes : /\ OwnedBy(i) \subseteq core.bmap \ Meta
                                /\ IsDir(i) \/ ~NamesTwice(disk, core.itab[i])
        /\ NoSharedBlock

\* Between two commands the device has what memory has, but for inodes taken
\* by a fs_mknod that found its directory full: the fs_init of fs_getattr
\* then changes nothing that matters.
DeviceCurrent == todo = <<>> /\ ~full => /\ disk.itab = core.itab
                                        /\ disk.bmap = core.bmap
                                        /\ disk.imap \subseteq core.imap

\* Between two commands every block that is marked as used belongs to the
\* metadata or to a node, but for the second-level index blocks that
\* truncating forgets: it returns all others.
NoBlockLost ==
    todo = <<>> /\ ~full =>
        core.bmap = Meta \cup lost \cup UNION {OwnedBy(i) : i \in LiveNodes}

\* Every command comes back to the prompt: no loop of put or get runs for ever.
CommandsEnd == at # "prompt" ~> at = "prompt"
================================================================================
