--------------------------- MODULE Fsx492ShellProofs ---------------------------
(***************************************************************************)
(* Proofs about the command interpreter of Fsx492Shell, on the invariant   *)
(* of Fsx492Proofs: between two commands the device has what memory has,   *)
(* commands on files change one binding of a name at a time, no block      *)
(* belongs to two files, none is lost, and what was put is in the file and *)
(* comes back.                                                             *)
(***************************************************************************)
EXTENDS Fsx492Shell, Fsx492Proofs

-----------------------------------------------------------------------------
(* The interpreter performs operations of the file system only. *)

\* What put and get work on.
LoopTypes ==
    /\ offset \in Nat
    /\ at \in {"put", "get"} => path \in Paths
    /\ at = "put" => local \in Locals
ShellInv == FsInv /\ LoopTypes

LEMMA LocalContents ==
    /\ NoLocal \notin Locals
    /\ Contents \in [Locals -> Seq(Units)]
  BY ShellAssumption

\* The lesser of two numbers.
LEMMA MinOfTwo ==
    ASSUME NEW a \in Nat, NEW b \in Nat
    PROVE  Min({a, b}) \in Nat /\ Min({a, b}) <= a /\ Min({a, b}) <= b
  <1> DEFINE T == {a, b}
  <1>1. T \subseteq Nat /\ T # {}
    OBVIOUS
  <1>2. a \in T /\ b \in T
    OBVIOUS
  <1> HIDE DEF T
  <1>3. Min(T) \in T /\ \A y \in T : Min(T) <= y
    BY <1>1, MinIn
  <1>4. Min(T) \in Nat /\ Min(T) <= a /\ Min(T) <= b
    BY <1>1, <1>2, <1>3
  <1> QED BY <1>4 DEF T

\* What put reads is at most a block of units.
LEMMA ChunkFacts ==
    ASSUME LoopTypes, at = "put"
    PROVE  Chunk \in Seq(Units) /\ Len(Chunk) <= BLOCK_SIZE
  <1> DEFINE c == Contents[local]
             n == Min({offset + BLOCK_SIZE, Len(c)})
             r == SubSeq(c, offset + 1, n)
  <1>1. c \in Seq(Units) /\ offset \in Nat /\ BLOCK_SIZE \in Nat
    BY LocalContents, Sizes DEF LoopTypes
  <1> HIDE DEF c
  <1>2. n \in Nat /\ n <= offset + BLOCK_SIZE /\ n <= Len(c)
    BY <1>1, MinOfTwo
  <1> HIDE DEF n
  <1>3. r \in Seq(Units) /\ Len(r) <= BLOCK_SIZE
    <2>1. CASE offset + 1 <= n
      <3>1. Len(r) = n - offset
        BY <1>1, <1>2, <2>1, SubSeqProperties
      <3>2. \A j \in 1 .. n - offset : offset + j \in 1 .. Len(c)
        BY <1>1, <1>2, <2>1
      <3>3. r \in Seq(Units)
        BY <1>1, <1>2, <2>1, <3>1, <3>2, SubSeqProperties
      <3> QED BY <1>1, <1>2, <3>1, <3>3
    <2>2. CASE ~(offset + 1 <= n)
      <3>1. r = <<>>
        BY <1>1, <1>2, <2>2, SubSeqProperties
      <3> HIDE DEF r
      <3> QED BY <1>1, <3>1
    <2> QED BY <2>1, <2>2
  <1> QED BY <1>3 DEF Chunk, r, n, c

\* An offset that may be written at is that of a block a file can have.
LEMMA BlockWithin ==
    ASSUME FsInv, Ready, LoopTypes, NEW i \in Inodes, CanWrite(i, offset \div BLOCK_SIZE)
    PROVE  offset \div BLOCK_SIZE \in 0 .. MaxFile
  <1> DEFINE k == offset \div BLOCK_SIZE
             size == core.itab[i].size
  <1>1. BLOCK_SIZE \in Nat /\ BLOCK_SIZE > 0 /\ MaxFile \in Nat /\ offset \in Nat
    BY Sizes DEF LoopTypes
  <1>2. k \in Nat
    BY <1>1
  <1>3. size \in 0 .. MaxFile * BLOCK_SIZE /\ k * BLOCK_SIZE <= size
    <2>1. core.itab[i] \in InodeType
      BY ReadyFacts, CoreFields
    <2> QED BY <2>1 DEF InodeType, CanWrite
  <1>4. MaxFile * BLOCK_SIZE \in Nat /\ k * BLOCK_SIZE <= MaxFile * BLOCK_SIZE
    <2> HIDE DEF MaxFile, k, size
    <2>1. MaxFile * BLOCK_SIZE \in Nat /\ k * BLOCK_SIZE \in Nat
      BY <1>1, <1>2
    <2> DEFINE a == MaxFile * BLOCK_SIZE
               b == k * BLOCK_SIZE
    <2> HIDE DEF a, b
    <2>2. size \in 0 .. a /\ b <= size /\ a \in Nat /\ b \in Nat
      BY <1>3, <2>1 DEF a, b
    <2>3. a \in Nat /\ b <= a
      BY <2>2
    <2> QED BY <2>3 DEF a, b
  <1> HIDE DEF k, MaxFile
  <1>5. ASSUME k > MaxFile PROVE FALSE
    <2>1. PICK r \in Nat : k = MaxFile + 1 + r
      <3>1. k - (MaxFile + 1) \in Nat /\ k = MaxFile + 1 + (k - (MaxFile + 1))
        BY <1>1, <1>2, <1>5
      <3> QED BY <3>1
    <2>2. k * BLOCK_SIZE = MaxFile * BLOCK_SIZE + BLOCK_SIZE + r * BLOCK_SIZE
      BY <1>1, <2>1
    <2>3. r * BLOCK_SIZE \in Nat
      BY <1>1, <2>1
    <2> QED BY <1>1, <1>4, <2>2, <2>3
  <1>6. k \in 0 .. MaxFile
    BY <1>1, <1>2, <1>5
  <1> QED BY <1>6 DEF k

\* An operation of the file system but for fs_write.
Handling ==
    \/ fs_getattr
    \/ fs_chmod(Root)
    \/ \E p \in Paths : \/ fs_mknod(p)
                        \/ fs_mkdir(p)
                        \/ fs_truncate(p)
                        \/ fs_unlink(p)
                        \/ fs_rmdir(p)
                        \/ fs_chmod(translate(p))
                        \/ \E q \in Paths : fs_rename(p, q)

\* The writes of put.
Chunks == {d \in Seq(Units) : Len(d) <= BLOCK_SIZE}
Storing(p, k, d) == WriteBlock(translate(p), k, d)
Failing(p, k)    == WriteLost(translate(p), k) \/ WriteNoSpace(translate(p), k)

LEMMA CommandSteps ==
    ASSUME cmdloop
    PROVE  /\ Handling \/ UNCHANGED vars
           /\ UNCHANGED full
  <1>1. CASE do_rename
    BY <1>1 DEF do_rename, Handling, history
  <1>2. CASE do_mkdir
    BY <1>2 DEF do_mkdir, Handling, history
  <1>3. CASE do_rmdir
    BY <1>3 DEF do_rmdir, Handling, history
  <1>4. CASE do_utime \/ do_chmod
    BY <1>4 DEF do_utime, do_chmod, fs_chmod, Handling, history
  <1>5. CASE do_cd
    BY <1>5 DEF do_cd, Handling, history
  <1>6. CASE do_touch
    BY <1>6 DEF do_touch, fs_chmod, Handling, history
  <1>7. CASE do_truncate
    BY <1>7 DEF do_truncate, Handling, Emptying
  <1>8. CASE do_rm
    BY <1>8 DEF do_rm, Handling, Emptying
  <1>9. CASE PutBegin
    BY <1>9 DEF PutBegin, Handling, fs_mknod
  <1>10. CASE GetBegin
    BY <1>10 DEF GetBegin, history
  <1> QED BY <1>1, <1>2, <1>3, <1>4, <1>5, <1>6, <1>7, <1>8, <1>9, <1>10 DEF cmdloop

\* A step of the interpreter is one of the file system, or none.
LEMMA ShellSteps ==
    ASSUME FsInv, LoopTypes, ShellNext
    PROVE  \/ Handling /\ UNCHANGED full
           \/ Flush /\ UNCHANGED full
           \/ UNCHANGED vars /\ UNCHANGED full
           \/ \E p \in Paths, k \in 0 .. MaxFile, d \in Chunks :
                 \/ Storing(p, k, d) /\ UNCHANGED full
                 \/ Failing(p, k) /\ full'
  <1>1. CASE cmdloop
    BY <1>1, CommandSteps
  <1>2. CASE Flush /\ UNCHANGED <<loop, history>>
    BY <1>2 DEF history
  <1>3. CASE PutEnd \/ GetRead \/ GetEnd
    BY <1>3 DEF PutEnd, GetRead, GetEnd, history
  <1>4. ASSUME at = "put", CanWrite(translate(path), offset \div BLOCK_SIZE)
        PROVE  /\ path \in Paths /\ offset \div BLOCK_SIZE \in 0 .. MaxFile
               /\ Chunk \in Chunks
    <2>1. Ready /\ path \in Paths
      BY <1>4 DEF CanWrite, LoopTypes
    <2>2. translate(path) \in Inodes
      BY <2>1, TranslateFacts
    <2>3. offset \div BLOCK_SIZE \in 0 .. MaxFile
      BY <1>4, <2>1, <2>2, BlockWithin
    <2>4. Chunk \in Chunks
      BY <1>4, ChunkFacts DEF Chunks
    <2> QED BY <2>1, <2>3, <2>4
  <1>5. CASE PutWrite
    <2>1. /\ at = "put"
          /\ \/ Storing(path, offset \div BLOCK_SIZE, Chunk) /\ UNCHANGED full
             \/ Failing(path, offset \div BLOCK_SIZE) /\ full'
      BY <1>5 DEF PutWrite, Storing, Failing
    <2>2. CanWrite(translate(path), offset \div BLOCK_SIZE)
      BY <2>1 DEF Storing, Failing, WriteBlock, WriteLost, WriteNoSpace
    <2> QED BY <1>4, <2>1, <2>2
  <1>6. CASE PutNoSpace
    <2>1. at = "put" /\ Failing(path, offset \div BLOCK_SIZE) /\ full'
      BY <1>6 DEF PutNoSpace, Failing
    <2>2. CanWrite(translate(path), offset \div BLOCK_SIZE)
      BY <1>6 DEF PutNoSpace, WriteNoSpace
    <2> QED BY <1>4, <2>1, <2>2
  <1> QED BY <1>1, <1>2, <1>3, <1>5, <1>6 DEF ShellNext, Proceed

LEMMA HandlingInv == ASSUME FsInv, Handling PROVE FsInv'
  <1>1. Command
    BY DEF Handling, Command
  <1> QED BY <1>1, CommandInv

LEMMA LoopTypesKept ==
    ASSUME FsInv, LoopTypes, [ShellNext]_svars
    PROVE  LoopTypes'
  <1>1. CASE UNCHANGED loop
    BY <1>1 DEF loop, LoopTypes
  <1>2. CASE PutBegin \/ GetBegin
    BY <1>2 DEF PutBegin, GetBegin, Goto, LoopTypes
  <1>3. CASE PutNoSpace \/ PutEnd \/ GetEnd
    BY <1>3 DEF PutNoSpace, PutEnd, GetEnd, Goto, LoopTypes
  <1>4. CASE PutWrite
    <2>1. at = "put" /\ Len(Chunk) \in Nat
      BY <1>4, ChunkFacts DEF PutWrite
    <2> QED BY <1>4, <2>1 DEF PutWrite, LoopTypes
  <1>5. CASE GetRead
    <2> DEFINE r == fs_read(translate(path))
    <2>1. at = "get" /\ Ready /\ path \in Paths
      BY <1>5 DEF GetRead, LoopTypes
    <2>2. translate(path) \in Inodes /\ core.itab[translate(path)] \in InodeType
      BY <2>1, TranslateFacts, ReadyFacts, CoreFields
    <2>3. Size(translate(path)) \in Int /\ offset \in Nat /\ BLOCK_SIZE \in Nat
      BY <2>2, Sizes, SMTT(30) DEF Size, InodeType, LoopTypes
    <2>4. r.ret \in Int
      <3>1. Max({Size(translate(path)) - offset, 0}) \in Int
        <4> DEFINE a == Size(translate(path)) - offset
        <4>1. a \in Int
          BY <2>3
        <4> HIDE DEF a
        <4>2. Max({a, 0}) \in {a, 0}
          <5>1. \E x \in {a, 0} : \A y \in {a, 0} : x >= y
            BY <4>1
          <5> QED BY <5>1 DEF Max
        <4>3. Max({a, 0}) \in Int
          BY <4>1, <4>2
        <4> QED BY <4>3 DEF a
      <3> QED BY <2>3, <3>1 DEF fs_read
    <2> HIDE DEF r
    <2>5. offset' = (IF r.ret > 0 THEN offset + r.ret ELSE offset) /\ path' = path
          /\ at' \in {"get", "got"}
      BY <1>5 DEF GetRead, r
    <2>6. offset' \in Nat
      BY <2>3, <2>4, <2>5
    <2> QED BY <2>1, <2>5, <2>6 DEF LoopTypes
  <1>6. CASE do_rename \/ do_mkdir \/ do_rmdir \/ do_utime \/ do_chmod \/ do_cd \/ do_touch
    BY <1>1, <1>6 DEF do_rename, do_mkdir, do_rmdir, do_utime, do_chmod, do_cd, do_touch
  <1>7. CASE do_truncate \/ do_rm
    BY <1>1, <1>7 DEF do_truncate, do_rm, Emptying
  <1> QED BY <1>1, <1>2, <1>3, <1>4, <1>5, <1>6, <1>7 DEF ShellNext, cmdloop, Proceed, svars

\* A step of the interpreter keeps what holds of the file system.
LEMMA ShellStepInv == ASSUME ShellInv, [ShellNext]_svars PROVE ShellInv'
  <1>1. FsInv /\ LoopTypes
    BY DEF ShellInv
  <1>2. LoopTypes'
    BY <1>1, LoopTypesKept
  <1>3. CASE UNCHANGED vars
    BY <1>1, <1>2, <1>3, StepInv DEF ShellInv
  <1>4. CASE ShellNext
    <2>1. CASE Handling
      BY <1>1, <1>2, <2>1, HandlingInv DEF ShellInv
    <2>2. CASE Flush
      BY <1>1, <1>2, <2>2, FlushInv DEF ShellInv
    <2>3. ASSUME NEW p \in Paths, NEW k \in 0 .. MaxFile, NEW d \in Chunks,
                 Storing(p, k, d) \/ Failing(p, k)
          PROVE  FsInv'
      <3>1. fs_write(p, k, d)
        BY <2>3 DEF Storing, Failing, fs_write
      <3>2. d \in Seq(Units) /\ Len(d) <= BLOCK_SIZE
        BY DEF Chunks
      <3> QED BY <1>1, <3>1, <3>2, WriteInv
    <2> QED BY <1>1, <1>2, <1>3, <1>4, <2>1, <2>2, <2>3, ShellSteps DEF ShellInv
  <1> QED BY <1>1, <1>2, <1>3, <1>4 DEF ShellInv, svars

LEMMA ShellStarts == ASSUME ShellInit PROVE ShellInv
  BY InitInv DEF ShellInit, ShellInv, LoopTypes

\* What holds of the file system holds under the command interpreter.
THEOREM ShellInvariant == ShellSpec => []ShellInv
  <1>1. ShellInv /\ [ShellNext]_svars => ShellInv'
    BY ShellStepInv
  <1> QED BY <1>1, ShellStarts, PTL DEF ShellSpec

-----------------------------------------------------------------------------
(* The map of blocks on the device. *)

\* The last of the writes of the map of blocks is that of M.
MapEnds(ws, M) ==
    \E k \in DOMAIN ws : /\ ws[k].at = "bmap" /\ ws[k].val = M
                         /\ \A j \in DOMAIN ws : j > k => ws[j].at # "bmap"
NoMap(ws) == \A k \in DOMAIN ws : ws[k].at # "bmap"

\* Unless the device ran full, the map in memory is the one the device holds,
\* or is going to hold.
MapInv == ~full => \/ MapEnds(todo, core.bmap)
                   \/ disk.bmap = core.bmap /\ NoMap(todo)

LEMMA MapEndsLast ==
    ASSUME NEW S, NEW ws \in Seq(S), NEW m
    PROVE  MapEnds(ws \o update_blk(m), m.bmap)
  <1> DEFINE n == Len(ws)
             w == [at |-> "bmap", no |-> 2, val |-> m.bmap]
             T == S \cup {w}
             us == ws \o <<w>>
  <1>1. n \in Nat /\ ws \in Seq(T) /\ <<w>> \in Seq(T) /\ Len(<<w>>) = 1 /\ <<w>>[1] = w
    OBVIOUS
  <1>2. w.at = "bmap" /\ w.val = m.bmap
    OBVIOUS
  <1> HIDE DEF w, T
  <1>3. us \in Seq(T) /\ Len(us) = n + 1 /\ us[n + 1] = w
    BY <1>1
  <1> HIDE DEF us, n
  <1>4. DOMAIN us = 1 .. n + 1
    BY <1>3
  <1>5. MapEnds(us, m.bmap)
    BY <1>1, <1>2, <1>3, <1>4 DEF MapEnds
  <1> QED BY <1>5 DEF update_blk, us, w

LEMMA MapEndsThenBlock ==
    ASSUME NEW S, NEW ws \in Seq(S), NEW M, MapEnds(ws, M), NEW b, NEW c
    PROVE  MapEnds(ws \o <<BlkWrite(b, c)>>, M)
  <1> DEFINE n == Len(ws)
             w == BlkWrite(b, c)
             T == S \cup {w}
             us == ws \o <<w>>
  <1>1. n \in Nat /\ ws \in Seq(T) /\ <<w>> \in Seq(T) /\ Len(<<w>>) = 1 /\ <<w>>[1] = w
    OBVIOUS
  <1>2. w.at = "block"
    BY DEF BlkWrite
  <1> HIDE DEF w, T
  <1>3. /\ us \in Seq(T) /\ Len(us) = n + 1 /\ us[n + 1] = w
        /\ \A k \in 1 .. n : us[k] = ws[k]
    BY <1>1
  <1> HIDE DEF us
  <1>4. DOMAIN us = 1 .. n + 1 /\ DOMAIN ws = 1 .. n
    BY <1>1, <1>3
  <1> HIDE DEF n
  <1>5. PICK k \in 1 .. n : /\ ws[k].at = "bmap" /\ ws[k].val = M
                            /\ \A j \in 1 .. n : j > k => ws[j].at # "bmap"
    BY <1>4 DEF MapEnds
  <1>6. k \in 1 .. n + 1 /\ us[k].at = "bmap" /\ us[k].val = M
    BY <1>1, <1>3, <1>5
  <1>7. ASSUME NEW j \in 1 .. n + 1, j > k PROVE us[j].at # "bmap"
    BY <1>1, <1>2, <1>3, <1>5, <1>7
  <1>8. MapEnds(us, M)
    BY <1>4, <1>6, <1>7 DEF MapEnds
  <1> QED BY <1>8 DEF us, w

LEMMA InodeHasNoMap == ASSUME NEW m, NEW i PROVE NoMap(update_inode(m, i))
  <1> DEFINE u == [at |-> "itab", no |-> i \div PerBlock, val |-> InodeBlock(m, i \div PerBlock)]
             w == [at |-> "imap", no |-> 1, val |-> m.imap]
  <1>1. u.at # "bmap" /\ w.at # "bmap" /\ update_inode(m, i) = <<u, w>>
    BY DEF update_inode
  <1> HIDE DEF u, w
  <1> QED BY <1>1 DEF NoMap

\* The handlers that write the map of blocks do so after they changed it.
LEMMA MapPerforms ==
    ASSUME NEW m, NEW ws, Perform(m, ws), MapEnds(ws, m.bmap)
    PROVE  MapInv'
  BY DEF Perform, MapInv

\* The others leave it alone.
LEMMA MapUntouched ==
    ASSUME MapInv, ~full, Ready, NEW m, NEW ws, Perform(m, ws), NoMap(ws),
           m.bmap \in {core.bmap, disk.bmap}
    PROVE  MapInv'
  <1>1. ~MapEnds(todo, core.bmap)
    BY DEF Ready, MapEnds
  <1>2. disk.bmap = core.bmap
    BY <1>1 DEF MapInv
  <1>3. core' = m /\ todo' = ws /\ disk' = disk
    BY DEF Perform
  <1> QED BY <1>2, <1>3 DEF MapInv

LEMMA HandlingMap ==
    ASSUME FsInv, MapInv, ~full, Handling
    PROVE  MapInv'
  <1>0. ASSUME NEW p \in Paths, Ready, translate(p) # 0
        PROVE  translate(p) \in Inodes /\ core.itab[translate(p)].kind # "none"
    BY <1>0, TranslateFacts, ReadyFacts
  <1>1. CASE fs_getattr
    <2>1. NoMap(<<>>) /\ fs_init(disk).bmap = disk.bmap
      BY DEF NoMap, fs_init
    <2> QED BY <1>1, <2>1, MapUntouched DEF fs_getattr
  <1>2. ASSUME NEW p \in Paths, NEW kind \in {"file", "dir"}, Make(p, kind) PROVE MapInv'
    <2> DEFINE parent == translate_1(p)
               i == Min(FreeInodes)
               m == Made(i, kind)
               slot == find_free_dir(Dirents(parent))
               v == [disk.blk[DirBlk(parent)] EXCEPT
                        !.ents[slot] = [name |-> Leaf(p), inode |-> i]]
               u == update_inode(m, i)
               ws == u \o update_blk(m)
    <2>1. Perform(m, ws \o <<BlkWrite(DirBlk(parent), v)>>)
      BY <1>2 DEF Make
    <2>2. m \in Cores /\ i \in Inodes
      BY <1>2, MakeReaches, FreeInodeFacts DEF Reaches, Make
    <2> HIDE DEF m, i, v
    <2>3. u \in Seq(Writes) /\ ws \in Seq(Writes)
      BY <2>2, UpdateTypes
    <2>4. MapEnds(ws, m.bmap)
      BY <2>3, MapEndsLast
    <2> HIDE DEF ws
    <2> QED BY <2>1, <2>3, <2>4, MapEndsThenBlock, MapPerforms
  <1>3. ASSUME NEW p \in Paths, MakeNoSlot(p) PROVE MapInv'
    <2> DEFINE m == [core EXCEPT !.imap = @ \cup {Min(FreeInodes)}]
    <2>1. core \in Cores
      BY DEF FsInv, Reaches
    <2>2. NoMap(<<>>) /\ m.bmap = core.bmap
      BY <2>1 DEF NoMap, Cores
    <2>3. Ready /\ Perform(m, <<>>)
      BY <1>3 DEF MakeNoSlot, CanMake
    <2> HIDE DEF m
    <2> QED BY <2>2, <2>3, MapUntouched
  <1>4. ASSUME NEW p \in Paths, fs_mknod(p) \/ fs_mkdir(p) PROVE MapInv'
    BY <1>2, <1>3, <1>4 DEF fs_mknod, fs_mkdir
  <1>5. ASSUME NEW p \in Paths, fs_truncate(p) PROVE MapInv'
    <2> DEFINE i == translate(p)
               m == Truncated(i)
    <2>1. /\ Ready /\ i # 0 /\ ~IsDir(i)
          /\ Perform(m, TruncateWrites(i))
      BY <1>5 DEF fs_truncate
    <2>2. m \in Cores /\ i \in Inodes
      BY <1>0, <2>1, TruncateReaches DEF Reaches
    <2>3. update_inode(m, i) \in Seq(Writes)
      BY <2>2, UpdateTypes
    <2>4. MapEnds(TruncateWrites(i), m.bmap)
      BY <2>3, MapEndsLast DEF TruncateWrites
    <2> QED BY <2>1, <2>4, MapPerforms
  <1>6. ASSUME NEW p \in Paths, fs_unlink(p) PROVE MapInv'
    <2> DEFINE i == translate(p)
               m == Cleared(Truncated(i), i)
               t == TruncateWrites(i)
               b == Unlisted(DirBlk(translate_1(p)), Leaf(p))
               u == update_inode(m, i)
               S == Writes \cup {b}
    <2>1. /\ Ready /\ i # 0 /\ ~IsDir(i)
          /\ Perform(m, t \o <<b>> \o u \o update_blk(m))
      BY <1>6 DEF fs_unlink
    <2>2. i \in Inodes /\ core.itab[i].kind # "none"
      BY <1>0, <2>1
    <2>3. m \in Cores /\ t \in Seq(Writes)
      <3>1. Truncated(i) \in Cores
        BY <2>1, <2>2, TruncateReaches DEF Reaches
      <3>2. t \in Seq(Writes)
        BY <2>1, <2>2, TruncateLeads, LeadsEnds
      <3> QED BY <2>2, <3>1, <3>2, ClearedCore
    <2>4. u \in Seq(Writes)
      BY <2>2, <2>3, UpdateTypes
    <2> HIDE DEF m, t, b, u, i
    <2>5. t \o <<b>> \o u \in Seq(S)
      <3>1. t \in Seq(S) /\ u \in Seq(S) /\ <<b>> \in Seq(S)
        BY <2>3, <2>4
      <3> HIDE DEF S
      <3> QED BY <3>1
    <2> HIDE DEF S
    <2> QED BY <2>1, <2>5, MapEndsLast, MapPerforms
  <1>7. ASSUME NEW p \in Paths, fs_rmdir(p) PROVE MapInv'
    <2> DEFINE i == translate(p)
               m == RmdirState(i)
               b == BlkWrite(DirBlk(translate_1(p)), disk.blk[DirBlk(i)])
               u == update_inode(m, i)
               S == Writes \cup {b}
    <2>1. CanRmdir(p) /\ Perform(m, <<b>> \o u \o update_blk(m))
      BY <1>7 DEF fs_rmdir
    <2>2. i \in Inodes /\ m \in Cores
      BY <1>0, <2>1, RmdirReaches DEF Reaches, CanRmdir
    <2>3. u \in Seq(Writes)
      BY <2>2, UpdateTypes
    <2> HIDE DEF m, b, u, i
    <2>4. <<b>> \o u \in Seq(S)
      <3>1. u \in Seq(S) /\ <<b>> \in Seq(S)
        BY <2>3
      <3> HIDE DEF S
      <3> QED BY <3>1
    <2> HIDE DEF S
    <2> QED BY <2>1, <2>4, MapEndsLast, MapPerforms
  <1>8. ASSUME NEW i \in Inodes, fs_chmod(i) PROVE MapInv'
    <2>1. CASE SetAttributes(i)
      BY <2>1, InodeHasNoMap, MapUntouched DEF SetAttributes
    <2>2. CASE Perform(Retyped(i), update_inode(Retyped(i), i))
      <3>1. Retyped(i).bmap = core.bmap
        BY <1>8, ReadyFacts DEF Cores, Retyped, fs_chmod, SetAttributes
      <3> DEFINE m == Retyped(i)
                 u == update_inode(m, i)
      <3>2. Ready /\ Perform(m, u) /\ m.bmap = core.bmap
        BY <1>8, <2>2, <3>1 DEF fs_chmod, SetAttributes
      <3>3. NoMap(u)
        BY InodeHasNoMap
      <3> HIDE DEF m, u
      <3> QED BY <3>2, <3>3, MapUntouched
    <2> QED BY <1>8, <2>1, <2>2 DEF fs_chmod
  <1>9. ASSUME NEW p \in Paths, NEW q \in Paths, fs_rename(p, q) PROVE MapInv'
    <2>1. NoMap(<<Renamed(p, q)>>)
      <3> DEFINE w == Renamed(p, q)
      <3>1. w.at = "block"
        BY DEF Renamed, BlkWrite
      <3> HIDE DEF w
      <3>2. NoMap(<<w>>)
        BY <3>1 DEF NoMap
      <3> QED BY <3>2 DEF w
    <2> QED BY <1>9, <2>1, MapUntouched DEF fs_rename
  <1>10. ASSUME NEW p \in Paths, fs_chmod(translate(p)) PROVE MapInv'
    <2>1. Ready
      BY <1>10 DEF fs_chmod, SetAttributes
    <2> QED BY <1>8, <1>10, <2>1, TranslateFacts
  <1>11. CASE fs_chmod(Root)
    BY <1>8, <1>11, Sizes
  <1> QED BY <1>1, <1>4, <1>5, <1>6, <1>7, <1>9, <1>10, <1>11 DEF Handling

LEMMA StoringMap ==
    ASSUME FsInv, NEW p \in Paths, NEW k \in 0 .. MaxFile, NEW d \in Chunks, Storing(p, k, d)
    PROVE  MapInv'
  <1> DEFINE i == translate(p)
             end == k * BLOCK_SIZE + (IF k < MaxFile THEN Len(d) ELSE 0)
             M(w) == [With(i, k, w) EXCEPT !.itab[i] = Grown(@, end)]
             U(w) == AllocWrites(i, k, w) \o <<Filled(w, d)>> \o update_inode(M(w), i)
  <1>1. Ready /\ i # 0 /\ ~IsDir(i)
    BY DEF Storing, WriteBlock, CanWrite
  <1>2. i \in Inodes /\ core.itab[i].kind # "none"
    BY <1>1, TranslateFacts, ReadyFacts
  <1>3. d \in Seq(Units) /\ Len(d) <= BLOCK_SIZE
    BY DEF Chunks
  <1>4. PICK w \in Ways(i, k) :
            /\ Last(w.made) # ENOSPC
            /\ Perform(M(w), U(w) \o update_blk(M(w)))
    BY DEF Storing, WriteBlock
  <1> HIDE DEF i
  <1>5. M(w) \in Cores
    BY <1>1, <1>2, <1>3, <1>4, BlockReaches DEF Reaches
  <1>6. AllocWrites(i, k, w) \in Seq(Writes)
    BY <1>1, <1>2, AllocLeads, LeadsEnds
  <1>7. update_inode(M(w), i) \in Seq(Writes)
    BY <1>2, <1>5, UpdateTypes
  <1> DEFINE a == AllocWrites(i, k, w)
             f == Filled(w, d)
             u == update_inode(M(w), i)
             S == Writes \cup {f}
  <1>8. a \o <<f>> \o u \in Seq(S)
    <2> HIDE DEF a, u, f
    <2>1. a \in Seq(S) /\ u \in Seq(S) /\ <<f>> \in Seq(S)
      BY <1>6, <1>7 DEF a, u
    <2> HIDE DEF S
    <2> QED BY <2>1
  <1> HIDE DEF S, M
  <1>9. MapEnds(U(w) \o update_blk(M(w)), M(w).bmap)
    BY <1>8, MapEndsLast
  <1> HIDE DEF U
  <1> QED BY <1>4, <1>9, MapPerforms

LEMMA FlushMap == ASSUME FsInv, MapInv, Flush, UNCHANGED full PROVE MapInv'
  <1> DEFINE n == Len(todo)
             u == Tail(todo)
  <1>1. /\ todo # <<>> /\ disk' = Written(disk, Head(todo)) /\ todo' = u /\ core' = core
    BY DEF Flush
  <1>2. todo \in Seq(Writes) /\ disk \in Disks
    BY LeadsEnds DEF FsInv, Reaches, GoodDisks
  <1>3. /\ n \in Nat /\ n > 0 /\ Head(todo) = todo[1] /\ u \in Seq(Writes) /\ Len(u) = n - 1
        /\ \A k \in 1 .. n - 1 : u[k] = todo[k + 1]
        /\ DOMAIN todo = 1 .. n /\ DOMAIN u = 1 .. n - 1
    BY <1>1, <1>2, EmptySeq
  <1>4. /\ todo[1].at # "bmap" => disk'.bmap = disk.bmap
        /\ todo[1].at = "bmap" => disk'.bmap = todo[1].val
    <2> DEFINE w == todo[1]
    <2>1. w \in Writes
      BY <1>2, <1>3
    <2> HIDE DEF w
    <2>2. w.at \in {"block", "itab", "imap", "bmap"}
      BY <2>1 DEF Writes
    <2>3. /\ w.at # "bmap" => Written(disk, w).bmap = disk.bmap
          /\ w.at = "bmap" => Written(disk, w).bmap = w.val
      BY <1>2, <2>2 DEF Written, Disks
    <2> QED BY <1>1, <1>3, <2>3 DEF w
  <1> HIDE DEF n, u
  <1>6. SUFFICES ASSUME ~full
                 PROVE  MapEnds(u, core.bmap) \/ (disk'.bmap = core.bmap /\ NoMap(u))
    BY <1>1 DEF MapInv
  <1>7. CASE MapEnds(todo, core.bmap)
    <2>1. PICK k \in 1 .. n : /\ todo[k].at = "bmap" /\ todo[k].val = core.bmap
                              /\ \A j \in 1 .. n : j > k => todo[j].at # "bmap"
      BY <1>3, <1>7 DEF MapEnds
    <2>2. CASE k = 1
      <3>1. \A j \in 1 .. n - 1 : j + 1 \in 1 .. n /\ j + 1 > k
        BY <1>3, <2>2
      <3>2. NoMap(u)
        BY <1>3, <2>1, <3>1 DEF NoMap
      <3> QED BY <1>4, <2>1, <2>2, <3>2
    <2>3. CASE k # 1
      <3>1. k - 1 \in 1 .. n - 1 /\ (k - 1) + 1 = k
        BY <1>3, <2>3
      <3>2. \A j \in 1 .. n - 1 : j + 1 \in 1 .. n /\ (j > k - 1 => j + 1 > k)
        BY <1>3
      <3>3. MapEnds(u, core.bmap)
        <4>1. u[k - 1].at = "bmap" /\ u[k - 1].val = core.bmap
          BY <1>3, <2>1, <3>1
        <4>2. ASSUME NEW j \in 1 .. n - 1, j > k - 1 PROVE u[j].at # "bmap"
          BY <1>3, <2>1, <3>2, <4>2
        <4> QED BY <1>3, <3>1, <4>1, <4>2 DEF MapEnds
      <3> QED BY <3>3
    <2> QED BY <2>2, <2>3
  <1>8. CASE disk.bmap = core.bmap /\ NoMap(todo)
    <2>1. 1 \in 1 .. n /\ \A j \in 1 .. n - 1 : j + 1 \in 1 .. n
      BY <1>3
    <2>2. todo[1].at # "bmap" /\ NoMap(u)
      BY <1>3, <1>8, <2>1 DEF NoMap
    <2> QED BY <1>4, <1>8, <2>2
  <1> QED BY <1>6, <1>7, <1>8 DEF MapInv

LEMMA MapStep == ASSUME ShellInv, MapInv, [ShellNext]_svars PROVE MapInv'
  <1>1. FsInv /\ LoopTypes
    BY DEF ShellInv
  <1>2. CASE full'
    BY <1>2 DEF MapInv
  <1>3. CASE UNCHANGED vars /\ UNCHANGED full
    BY <1>3 DEF vars, MapInv
  <1>4. CASE ShellNext /\ ~full'
    <2>1. CASE Handling /\ UNCHANGED full
      BY <1>1, <1>4, <2>1, HandlingMap
    <2>2. CASE Flush /\ UNCHANGED full
      BY <1>1, <2>2, FlushMap
    <2> QED BY <1>1, <1>3, <1>4, <2>1, <2>2, ShellSteps, StoringMap
  <1> QED BY <1>2, <1>3, <1>4 DEF svars, history

LEMMA MapStart == ASSUME ShellInit PROVE MapInv
  BY DEF ShellInit, Init, fs_init, MapInv, NoMap

\* Between two commands the device holds the inodes and the map of blocks that
\* memory holds, and no inode is in use on the device alone, as long as no
\* operation ran out of blocks: the fs_init that fs_getattr runs again for cd
\* and ls-l loses nothing, and a restart finds what was there.
THEOREM DeviceStaysCurrent == ShellSpec => []DeviceCurrent
  <1>1. ShellInit => MapInv
    BY MapStart
  <1>2. ASSUME ShellInv, MapInv PROVE DeviceCurrent
    <2> SUFFICES ASSUME todo = <<>>, ~full
                 PROVE  /\ disk.itab = core.itab /\ disk.bmap = core.bmap
                        /\ disk.imap \subseteq core.imap
      BY DEF DeviceCurrent
    <2>1. PICK e \in GoodDisks : Leads(disk, todo, e) /\ Final(core, e)
      BY <1>2 DEF ShellInv, FsInv, Reaches
    <2>2. e = disk
      BY <2>1, LeadsEnds
    <2>3. ~MapEnds(todo, core.bmap)
      BY DEF MapEnds
    <2> QED BY <1>2, <2>1, <2>2, <2>3 DEF Final, MapInv
  <1>3. ShellInv /\ MapInv /\ [ShellNext]_svars => MapInv'
    BY MapStep
  <1> QED BY <1>1, <1>2, <1>3, ShellInvariant, PTL DEF ShellSpec

-----------------------------------------------------------------------------
(* Commands on files and the bindings of names.  While no directory is made *)
(* or removed, the two of Init are all there are, and the writes to come    *)
(* change at most one of their blocks, in one entry.                        *)

Listing == {RootBlk, HomeBlk}

\* A table of inodes has the two directories, with their blocks, and no other.
Fixed(t) ==
    \A i \in DOMAIN t : /\ t[i].kind = "dir" <=> i \in {Root, HomeNode}
                        /\ i = Root => t[i].direct[0] = RootBlk
                        /\ i = HomeNode => t[i].direct[0] = HomeBlk

\* What writes of inodes and of their map leave alone, and the writes of a
\* block of entries.
Keeps(w) == /\ w.at = "itab" => Fixed(w.val)
            /\ w.at = "imap" => {Root, HomeNode} \subseteq w.val
Lays(w)  == w.at = "block" /\ w.no \in Listing
Quiet(ws) == \A k \in DOMAIN ws : Keeps(ws[k]) /\ ~Lays(ws[k])

\* Entry s of block b becomes x.
Adds(d, b, s, x) ==
    /\ Ent(d, b, s) = NoEntry
    /\ x.inode \in 2 .. HomeNode
    /\ \A c \in Listing, t \in 1 .. Entries :
          Ent(d, c, t) # NoEntry => /\ Ent(d, c, t).inode # x.inode
                                    /\ c = b => Ent(d, c, t).name # x.name
Relabels(d, b, s, x) ==
    /\ Ent(d, b, s) # NoEntry
    /\ x.inode = Ent(d, b, s).inode
    /\ \A t \in 1 .. Entries : Ent(d, b, t) # NoEntry => Ent(d, b, t).name # x.name
OneChange(d, b, v) ==
    \E s \in 1 .. Entries, x \in EntryType :
        /\ v.ents = [d.blk[b].ents EXCEPT ![s] = x]
        /\ \/ x = NoEntry /\ Ent(d, b, s) # NoEntry
           \/ x # NoEntry /\ (Adds(d, b, s, x) \/ Relabels(d, b, s, x))

Laid(d, ws) ==
    /\ \A k \in DOMAIN ws : Keeps(ws[k])
    /\ \A k \in DOMAIN ws : Lays(ws[k]) =>
          /\ OneChange(d, ws[k].no, ws[k].val)
          /\ \A j \in DOMAIN ws : j # k => ~Lays(ws[j])

\* The nodes that entries name.
NamesNodes(d) == \A b \in Listing, s \in 1 .. Entries :
                    Ent(d, b, s) # NoEntry => Ent(d, b, s).inode \in 2 .. HomeNode

NamesInv == /\ Fixed(core.itab) /\ {Root, HomeNode} \subseteq core.imap
            /\ Fixed(disk.itab) /\ {Root, HomeNode} \subseteq disk.imap
            /\ NamesNodes(disk)
            /\ Laid(disk, todo)

-----------------------------------------------------------------------------
(* The bindings of a device. *)

Holds(d, b, n, i) == \E s \in 1 .. Entries : /\ Ent(d, b, s) # NoEntry
                                             /\ Ent(d, b, s).name = n
                                             /\ Ent(d, b, s).inode = i
BindSet(d) == {x \in Listing \X Names \X (2 .. HomeNode) : Holds(d, x[1], x[2], x[3])}

LEMMA ListingBlocks ==
    /\ Listing \subseteq Blocks /\ 0 \notin Listing
    /\ Root \in Inodes /\ HomeNode \in Inodes /\ HomeNode \in Nat
  BY Sizes DEF Listing

LEMMA FixedDirs ==
    ASSUME NEW d \in Disks, Fixed(d.itab), {Root, HomeNode} \subseteq d.imap
    PROVE  /\ {d.itab[i].direct[0] : i \in {j \in d.imap : d.itab[j].kind = "dir"}} = Listing
           /\ Own(d) = Listing
  <1>1. DOMAIN d.itab = Inodes /\ d.imap \subseteq Inodes
    BY DiskFields
  <1>2. \A i \in Inodes : d.itab[i].kind = "dir" <=> i \in {Root, HomeNode}
    BY <1>1 DEF Fixed
  <1>3. d.itab[Root].direct[0] = RootBlk /\ d.itab[HomeNode].direct[0] = HomeBlk
    BY <1>1, ListingBlocks DEF Fixed
  <1>4. {j \in d.imap : d.itab[j].kind = "dir"} = {Root, HomeNode}
    BY <1>1, <1>2, ListingBlocks
  <1>5. {j \in Inodes : d.itab[j].kind = "dir"} = {Root, HomeNode}
    BY <1>1, <1>2, ListingBlocks
  <1>6. \A S : S = {Root, HomeNode} => {d.itab[i].direct[0] : i \in S} = Listing
    BY <1>3 DEF Listing
  <1>7. Own(d) = Listing
    BY <1>5, <1>6, ListingBlocks DEF Own
  <1> QED BY <1>4, <1>6, <1>7

LEMMA BindSetIs ==
    ASSUME NEW d \in Disks, NamesNodes(d)
    PROVE  {<<x[1], d.blk[x[1]].ents[x[2]].name, d.blk[x[1]].ents[x[2]].inode>> :
               x \in {y \in Listing \X (1 .. Entries) : d.blk[y[1]].ents[y[2]] # NoEntry}}
           = BindSet(d)
  <1> DEFINE X == {y \in Listing \X (1 .. Entries) : d.blk[y[1]].ents[y[2]] # NoEntry}
             F(x) == <<x[1], d.blk[x[1]].ents[x[2]].name, d.blk[x[1]].ents[x[2]].inode>>
  <1>1. ASSUME NEW x \in X PROVE F(x) \in BindSet(d)
    <2>1. /\ x[1] \in Listing /\ x[2] \in 1 .. Entries
          /\ Ent(d, x[1], x[2]) # NoEntry
      BY DEF Ent
    <2>2. Ent(d, x[1], x[2]).name \in Names /\ Ent(d, x[1], x[2]).inode \in 2 .. HomeNode
      BY <2>1, ListingBlocks, DiskFields, EntryFacts DEF NamesNodes
    <2>3. F(x) = <<x[1], Ent(d, x[1], x[2]).name, Ent(d, x[1], x[2]).inode>>
      BY DEF Ent
    <2> HIDE DEF F
    <2> QED BY <2>1, <2>2, <2>3 DEF BindSet, Holds
  <1>2. ASSUME NEW z \in BindSet(d) PROVE \E x \in X : z = F(x)
    <2>1. /\ z[1] \in Listing /\ Holds(d, z[1], z[2], z[3])
          /\ z = <<z[1], z[2], z[3]>>
      BY DEF BindSet
    <2>2. PICK s \in 1 .. Entries : /\ Ent(d, z[1], s) # NoEntry
                                    /\ Ent(d, z[1], s).name = z[2]
                                    /\ Ent(d, z[1], s).inode = z[3]
      BY <2>1 DEF Holds
    <2>3. <<z[1], s>> \in X /\ F(<<z[1], s>>) = z
      BY <2>1, <2>2 DEF Ent
    <2> QED BY <2>3
  <1> HIDE DEF X, F
  <1>3. {F(x) : x \in X} = BindSet(d)
    BY <1>1, <1>2
  <1> QED BY <1>3 DEF F, X

\* The bindings of the refinement are those of the device.
LEMMA BindingsNow ==
    ASSUME disk \in Disks, NamesInv
    PROVE  {<<x[1], EntryAt(x).name, EntryAt(x).inode>> : x \in Bindings} = BindSet(disk)
  <1>1. DirBlks = Listing
    BY FixedDirs DEF NamesInv, DirBlks, LiveDirs
  <1> QED BY <1>1, BindSetIs DEF NamesInv, Bindings, EntryAt

LEMMA BindingsNext ==
    ASSUME disk' \in Disks, NamesInv'
    PROVE  {<<x[1], EntryAt(x).name, EntryAt(x).inode>> : x \in Bindings}' = BindSet(disk')
  <1>1. DirBlks' = Listing
    BY FixedDirs DEF NamesInv, DirBlks, LiveDirs
  <1> QED BY <1>1, BindSetIs DEF NamesInv, Bindings, EntryAt

\* The bindings depend on the two blocks only.
LEMMA SameEntries ==
    ASSUME NEW d, NEW e, \A b \in Listing : e.blk[b].ents = d.blk[b].ents
    PROVE  /\ BindSet(e) = BindSet(d)
           /\ NamesNodes(d) => NamesNodes(e)
           /\ \A ws : Laid(d, ws) => Laid(e, ws)
  <1>1. \A b \in Listing : \A s : Ent(e, b, s) = Ent(d, b, s)
    BY DEF Ent
  <1>2. \A b \in Listing : \A n, i : Holds(e, b, n, i) <=> Holds(d, b, n, i)
    BY <1>1 DEF Holds
  <1>3. BindSet(e) = BindSet(d)
    BY <1>2 DEF BindSet
  <1>4. ASSUME NEW b \in Listing, NEW v, OneChange(d, b, v) PROVE OneChange(e, b, v)
    <2>1. \A s, x : /\ Adds(d, b, s, x) => Adds(e, b, s, x)
                    /\ Relabels(d, b, s, x) => Relabels(e, b, s, x)
      BY <1>1 DEF Adds, Relabels
    <2> QED BY <1>1, <1>4, <2>1 DEF OneChange
  <1>5. NamesNodes(d) => NamesNodes(e)
    BY <1>1 DEF NamesNodes
  <1>6. ASSUME NEW ws, Laid(d, ws) PROVE Laid(e, ws)
    BY <1>4, <1>6 DEF Laid, Lays
  <1> QED BY <1>3, <1>5, <1>6

\* One binding of directory b is created, removed or renamed.
OneBinding(d, b, e) ==
    \E n \in Names, i \in 2 .. HomeNode :
        \/ /\ ~\E x \in BindSet(d) : x[1] = b /\ x[2] = n
           /\ ~\E x \in BindSet(d) : x[3] = i
           /\ BindSet(e) = BindSet(d) \cup {<<b, n, i>>}
        \/ /\ <<b, n, i>> \in BindSet(d)
           /\ BindSet(e) = BindSet(d) \ {<<b, n, i>>}
        \/ \E m \in Names :
              /\ <<b, n, i>> \in BindSet(d)
              /\ ~\E x \in BindSet(d) : x[1] = b /\ x[2] = m
              /\ BindSet(e) = (BindSet(d) \ {<<b, n, i>>}) \cup {<<b, m, i>>}

\* A change of one entry is such a step.
LEMMA ChangeIsStep ==
    ASSUME NEW d \in Disks, SoundOne(d), Listing \subseteq Lists(d), NamesNodes(d),
           NEW b \in Listing, NEW v \in BlockType, OneChange(d, b, v),
           NEW e, e.blk = [d.blk EXCEPT ![b] = v]
    PROVE  /\ NamesNodes(e)
           /\ OneBinding(d, b, e)
  <1> USE DEF OneBinding
  <1>1. PICK s \in 1 .. Entries, x \in EntryType :
            /\ v.ents = [d.blk[b].ents EXCEPT ![s] = x]
            /\ \/ x = NoEntry /\ Ent(d, b, s) # NoEntry
               \/ x # NoEntry /\ (Adds(d, b, s, x) \/ Relabels(d, b, s, x))
    BY DEF OneChange
  <1>2. /\ b \in Blocks /\ d.blk \in [Blocks -> BlockType]
        /\ d.blk[b].ents \in [1 .. Entries -> EntryType]
        /\ \A c \in Listing, t \in 1 .. Entries : Ent(d, c, t) \in EntryType
    BY ListingBlocks, DiskFields DEF BlockType
  <1>3. \A c \in Listing, t \in 1 .. Entries :
           Ent(e, c, t) = IF c = b /\ t = s THEN x ELSE Ent(d, c, t)
    BY <1>1, <1>2, ListingBlocks DEF Ent
  <1>4. x # NoEntry => x.name \in Names /\ x.inode \in 2 .. HomeNode
    BY <1>1, EntryFacts DEF Adds, Relabels, NamesNodes
  <1>5. NamesNodes(e)
    BY <1>3, <1>4 DEF NamesNodes
  <1> DEFINE B == BindSet(d)
             C == BindSet(e)
             old == <<b, Ent(d, b, s).name, Ent(d, b, s).inode>>
             new == <<b, x.name, x.inode>>
  <1>6. Ent(d, b, s) # NoEntry =>
           Ent(d, b, s).name \in Names /\ Ent(d, b, s).inode \in 2 .. HomeNode
    BY <1>2, EntryFacts DEF NamesNodes
  <1>7. Ent(d, b, s) # NoEntry => old \in B
    BY <1>6 DEF BindSet, Holds
  \* Slot s is the only one with its binding.
  <1>8. \A c \in Listing, t \in 1 .. Entries :
           (c # b \/ t # s) /\ Ent(d, b, s) # NoEntry /\ Ent(d, c, t) # NoEntry
           => Ent(d, c, t).inode # Ent(d, b, s).inode
    BY DEF SoundOne
  <1>9. ASSUME NEW z \in Listing \X Names \X (2 .. HomeNode)
        PROVE  /\ z \in C => z \in B \/ (x # NoEntry /\ z = new)
               /\ z \in B => z \in C \/ (Ent(d, b, s) # NoEntry /\ z = old)
               /\ x # NoEntry /\ z = new => z \in C
               /\ z \in C /\ Ent(d, b, s) # NoEntry /\ z = old => x # NoEntry /\ z[3] = x.inode /\ z[2] = x.name
    <2>1. z = <<z[1], z[2], z[3]>> /\ z[1] \in Listing /\ z[2] \in Names /\ z[3] \in 2 .. HomeNode
      OBVIOUS
    <2>2. /\ z \in C <=> Holds(e, z[1], z[2], z[3])
          /\ z \in B <=> Holds(d, z[1], z[2], z[3])
      BY DEF BindSet
    <2>3. z \in C => z \in B \/ (x # NoEntry /\ z = new)
      BY <1>3, <2>1, <2>2 DEF Holds
    <2>4. z \in B => z \in C \/ (Ent(d, b, s) # NoEntry /\ z = old)
      BY <1>3, <2>1, <2>2 DEF Holds
    <2>5. x # NoEntry /\ z = new => z \in C
      BY <1>3, <2>1, <2>2 DEF Holds
    <2>6. z \in C /\ Ent(d, b, s) # NoEntry /\ z = old
            => x # NoEntry /\ z[3] = x.inode /\ z[2] = x.name
      <3> SUFFICES ASSUME z \in C, Ent(d, b, s) # NoEntry, z = old
                   PROVE  x # NoEntry /\ z[3] = x.inode /\ z[2] = x.name
        OBVIOUS
      <3>1. PICK t \in 1 .. Entries : /\ Ent(e, b, t) # NoEntry
                                      /\ Ent(e, b, t).name = z[2]
                                      /\ Ent(e, b, t).inode = z[3]
        BY <2>1, <2>2 DEF Holds
      <3>2. CASE t = s
        BY <1>3, <3>1, <3>2
      <3>3. CASE t # s
        <4>1. Ent(e, b, t) = Ent(d, b, t)
          BY <1>3, <3>3
        <4> QED BY <1>8, <3>1, <3>3, <4>1
      <3> QED BY <3>2, <3>3
    <2> QED BY <2>3, <2>4, <2>5, <2>6
  <1>10. /\ B \subseteq Listing \X Names \X (2 .. HomeNode)
         /\ C \subseteq Listing \X Names \X (2 .. HomeNode)
    BY DEF BindSet
  <1>11. x # NoEntry => new \in Listing \X Names \X (2 .. HomeNode)
    BY <1>4
  <1>12. \A z \in B : /\ z[1] \in Listing
                      /\ \E t \in 1 .. Entries : /\ Ent(d, z[1], t) # NoEntry
                                                 /\ Ent(d, z[1], t).name = z[2]
                                                 /\ Ent(d, z[1], t).inode = z[3]
    BY DEF BindSet, Holds
  <1>13. CASE x = NoEntry /\ Ent(d, b, s) # NoEntry
    <2>1. C = B \ {old}
      <3> HIDE DEF B, C, old, new
      <3> QED BY <1>9, <1>10, <1>13
    <2> QED BY <1>5, <1>6, <1>7, <1>13, <2>1
  <1>14. CASE x # NoEntry /\ Adds(d, b, s, x)
    <2>1. C = B \cup {new}
      <3>1. Ent(d, b, s) = NoEntry
        BY <1>14 DEF Adds
      <3> HIDE DEF B, C, old, new
      <3> QED BY <1>9, <1>10, <1>11, <1>14, <3>1
    <2>2. ~\E z \in B : z[1] = b /\ z[2] = x.name
      BY <1>12, <1>14 DEF Adds
    <2>3. ~\E z \in B : z[3] = x.inode
      BY <1>12, <1>14 DEF Adds
    <2> QED BY <1>4, <1>5, <1>14, <2>1, <2>2, <2>3
  <1>15. CASE x # NoEntry /\ Relabels(d, b, s, x)
    <2>1. Ent(d, b, s) # NoEntry /\ x.inode = Ent(d, b, s).inode /\ x.name # Ent(d, b, s).name
      BY <1>15 DEF Relabels
    <2>2. C = (B \ {old}) \cup {new}
      <3>1. old[2] # x.name
        BY <2>1
      <3> HIDE DEF B, C, old, new
      <3> QED BY <1>9, <1>10, <1>11, <1>15, <2>1, <3>1
    <2>3. ~\E z \in B : z[1] = b /\ z[2] = x.name
      BY <1>12, <1>15 DEF Relabels
    <2>4. new = <<b, x.name, Ent(d, b, s).inode>>
      BY <2>1
    <2> HIDE DEF B, C
    <2>5. /\ old \in B /\ C = (B \ {old}) \cup {<<b, x.name, Ent(d, b, s).inode>>}
          /\ x.name \in Names
      BY <1>4, <1>7, <1>15, <2>1, <2>2, <2>4
    <2> QED BY <1>5, <1>6, <2>1, <2>3, <2>5, SMTT(30) DEF B, C
  <1> QED BY <1>1, <1>13, <1>14, <1>15

-----------------------------------------------------------------------------
(* Writes to come that change no binding, or one. *)

LEMMA QuietJoined ==
    ASSUME NEW S, NEW x \in Seq(S), NEW y \in Seq(S), Quiet(x), Quiet(y)
    PROVE  x \o y \in Seq(S) /\ Quiet(x \o y)
  <1> DEFINE m == Len(x)
             n == Len(y)
             z == x \o y
  <1>1. /\ m \in Nat /\ n \in Nat /\ z \in Seq(S) /\ DOMAIN z = 1 .. m + n
        /\ DOMAIN x = 1 .. m /\ DOMAIN y = 1 .. n
        /\ \A k \in 1 .. m + n : z[k] = IF k <= m THEN x[k] ELSE y[k - m]
    OBVIOUS
  <1> HIDE DEF m, n, z
  <1>2. ASSUME NEW k \in 1 .. m + n PROVE Keeps(z[k]) /\ ~Lays(z[k])
    <2>1. CASE k <= m
      BY <1>1, <2>1 DEF Quiet
    <2>2. CASE ~(k <= m)
      <3>1. k - m \in 1 .. n /\ z[k] = y[k - m]
        BY <1>1, <2>2
      <3> QED BY <1>1, <3>1 DEF Quiet
    <2> QED BY <2>1, <2>2
  <1>3. z \in Seq(S) /\ Quiet(z)
    BY <1>1, <1>2 DEF Quiet
  <1> QED BY <1>3 DEF z

LEMMA QuietLaid == ASSUME NEW d, NEW ws, Quiet(ws) PROVE Laid(d, ws)
  BY DEF Quiet, Laid

LEMMA QuietNone == Quiet(<<>>)
  BY DEF Quiet

LEMMA QuietOne ==
    ASSUME NEW b, NEW c, b \notin Listing
    PROVE  Quiet(<<BlkWrite(b, c)>>)
  <1> DEFINE w == BlkWrite(b, c)
  <1>1. w.at = "block" /\ w.no = b
    BY DEF BlkWrite
  <1> HIDE DEF w
  <1>2. Quiet(<<w>>)
    BY <1>1 DEF Quiet, Keeps, Lays
  <1> QED BY <1>2 DEF w

LEMMA QuietUpdates ==
    ASSUME NEW m \in Cores, NEW i \in Inodes, Fixed(m.itab), {Root, HomeNode} \subseteq m.imap
    PROVE  /\ Quiet(update_inode(m, i)) /\ update_inode(m, i) \in Seq(Writes)
           /\ Quiet(update_blk(m)) /\ update_blk(m) \in Seq(Writes)
  <1> DEFINE t == InodeBlock(m, i \div PerBlock)
             u == [at |-> "itab", no |-> i \div PerBlock, val |-> t]
             w == [at |-> "imap", no |-> 1, val |-> m.imap]
             x == [at |-> "bmap", no |-> 2, val |-> m.bmap]
  <1>1. Fixed(t)
    <2>1. DOMAIN m.itab = Inodes
      BY CoreFields
    <2>2. DOMAIN t \subseteq Inodes /\ \A j \in DOMAIN t : t[j] = m.itab[j]
      BY DEF InodeBlock
    <2> HIDE DEF t
    <2> QED BY <2>1, <2>2 DEF Fixed
  <1> HIDE DEF t
  <1>2. /\ u.at = "itab" /\ u.val = t /\ w.at = "imap" /\ w.val = m.imap /\ x.at = "bmap"
        /\ update_inode(m, i) = <<u, w>> /\ update_blk(m) = <<x>>
    BY DEF update_inode, update_blk, t
  <1> HIDE DEF u, w, x
  <1>3. Quiet(<<u, w>>) /\ Quiet(<<x>>)
    BY <1>1, <1>2 DEF Quiet, Keeps, Lays
  <1> QED BY <1>2, <1>3, UpdateTypes

\* A change of one entry after quiet writes, and quiet writes after that.
LEMMA LaidThen ==
    ASSUME NEW d, NEW S, NEW x \in Seq(S), NEW y \in Seq(S), Laid(d, x), Quiet(y)
    PROVE  x \o y \in Seq(S) /\ Laid(d, x \o y)
  <1> DEFINE m == Len(x)
             n == Len(y)
             z == x \o y
  <1>1. /\ m \in Nat /\ n \in Nat /\ z \in Seq(S) /\ DOMAIN z = 1 .. m + n
        /\ DOMAIN x = 1 .. m /\ DOMAIN y = 1 .. n
        /\ \A k \in 1 .. m + n : z[k] = IF k <= m THEN x[k] ELSE y[k - m]
    OBVIOUS
  <1> HIDE DEF m, n, z
  <1>2. ASSUME NEW k \in 1 .. m + n
        PROVE  \/ k \in 1 .. m /\ z[k] = x[k]
               \/ Keeps(z[k]) /\ ~Lays(z[k])
    <2>1. CASE k <= m
      BY <1>1, <2>1
    <2>2. CASE ~(k <= m)
      <3>1. k - m \in 1 .. n /\ z[k] = y[k - m]
        BY <1>1, <2>2
      <3> QED BY <1>1, <3>1 DEF Quiet
    <2> QED BY <2>1, <2>2
  <1>3. z \in Seq(S) /\ Laid(d, z)
    BY <1>1, <1>2 DEF Laid
  <1> QED BY <1>3 DEF z

LEMMA LaidAfter ==
    ASSUME NEW d, NEW S, NEW x \in Seq(S), Quiet(x), NEW b, NEW v,
           BlkWrite(b, v) \in S, b \in Listing => OneChange(d, b, v)
    PROVE  /\ x \o <<BlkWrite(b, v)>> \in Seq(S) /\ Laid(d, x \o <<BlkWrite(b, v)>>)
           /\ Laid(d, <<BlkWrite(b, v)>>)
  <1> DEFINE m == Len(x)
             w == BlkWrite(b, v)
             z == x \o <<w>>
             o == <<w>>
  <1>1. w.at = "block" /\ w.no = b /\ w.val = v /\ w \in S
    BY DEF BlkWrite
  <1> HIDE DEF w
  <1>2. /\ m \in Nat /\ z \in Seq(S) /\ DOMAIN z = 1 .. m + 1 /\ DOMAIN x = 1 .. m
        /\ z[m + 1] = w /\ \A k \in 1 .. m : z[k] = x[k]
    BY <1>1
  <1>3. DOMAIN o = {1} /\ o[1] = w
    OBVIOUS
  <1> HIDE DEF m, z, o
  <1>4. Keeps(w) /\ (Lays(w) => OneChange(d, w.no, w.val))
    BY <1>1 DEF Keeps, Lays
  <1>5. \A k \in 1 .. m + 1 : k = m + 1 \/ (k # m + 1 /\ k \in 1 .. m)
    BY <1>2
  <1>6. Laid(d, z)
    <2>1. ASSUME NEW k \in 1 .. m + 1
          PROVE  \/ k = m + 1 /\ z[k] = w
                 \/ k # m + 1 /\ Keeps(z[k]) /\ ~Lays(z[k])
      BY <1>2, <1>5 DEF Quiet
    <2> QED BY <1>2, <1>4, <2>1 DEF Laid
  <1>7. Laid(d, o)
    BY <1>3, <1>4 DEF Laid
  <1> QED BY <1>2, <1>6, <1>7 DEF z, o, w

-----------------------------------------------------------------------------
(* Each handler leaves the directories alone, and one change to come. *)

LEMMA NamesReady ==
    ASSUME FsInv, NamesInv, Ready
    PROVE  /\ disk \in GoodDisks /\ disk \in Disks /\ Sound(disk) /\ core \in Cores
           /\ disk.itab = core.itab /\ disk.imap \subseteq core.imap
           /\ Own(disk) = Listing /\ Lists(disk) = Listing \cup {0}
           /\ \A i \in Inodes : IsDir(i) => DirBlk(i) \in Listing
           /\ \A i \in Inodes : ~IsDir(i) => i \notin {Root, HomeNode}
  <1>1. /\ disk \in GoodDisks /\ disk \in Disks /\ Sound(disk) /\ core \in Cores
        /\ disk.itab = core.itab /\ disk.imap \subseteq core.imap
    BY ReadyFacts
  <1>2. Own(disk) = Listing
    BY <1>1, FixedDirs DEF NamesInv
  <1>3. Lists(disk) = Listing \cup {0}
    BY <1>2 DEF Lists
  <1>4. DOMAIN core.itab = Inodes
    BY <1>1, CoreFields
  <1>5. \A i \in Inodes : IsDir(i) => DirBlk(i) \in Listing
    BY <1>4 DEF NamesInv, Fixed, IsDir, DirBlk, Listing
  <1>6. \A i \in Inodes : ~IsDir(i) => i \notin {Root, HomeNode}
    BY <1>4 DEF NamesInv, Fixed, IsDir
  <1> QED BY <1>1, <1>2, <1>3, <1>5, <1>6

\* An inode that is no directory is changed.
LEMMA FixedChanged ==
    ASSUME NEW m \in Cores, NEW n \in Cores, NEW i \in Inodes, Fixed(m.itab),
           i \notin {Root, HomeNode}, n.itab[i].kind # "dir",
           \A j \in Inodes : j # i => n.itab[j] = m.itab[j]
    PROVE  Fixed(n.itab)
  <1>1. DOMAIN m.itab = Inodes /\ DOMAIN n.itab = Inodes
    BY CoreFields
  <1> QED BY <1>1 DEF Fixed

LEMMA NamesPerform ==
    ASSUME NamesInv, NEW m, NEW ws, Perform(m, ws),
           Fixed(m.itab), {Root, HomeNode} \subseteq m.imap, Laid(disk, ws)
    PROVE  NamesInv' /\ UNCHANGED disk
  <1>1. core' = m /\ todo' = ws /\ disk' = disk
    BY DEF Perform
  <1>2. /\ Fixed(core'.itab) /\ {Root, HomeNode} \subseteq core'.imap
        /\ Fixed(disk'.itab) /\ {Root, HomeNode} \subseteq disk'.imap
        /\ NamesNodes(disk') /\ Laid(disk', todo')
    BY <1>1 DEF NamesInv
  <1> QED BY <1>1, <1>2 DEF NamesInv

LEMMA LoadNames ==
    ASSUME NamesInv, Perform(fs_init(disk), <<>>)
    PROVE  NamesInv' /\ UNCHANGED disk
  <1>1. fs_init(disk).itab = disk.itab /\ fs_init(disk).imap = disk.imap
    BY DEF fs_init
  <1> QED BY <1>1, QuietNone, QuietLaid, NamesPerform DEF NamesInv

LEMMA AttributesNames ==
    ASSUME FsInv, NamesInv, NEW i \in Inodes, SetAttributes(i)
    PROVE  NamesInv' /\ UNCHANGED disk
  <1>1. core \in Cores
    BY DEF FsInv, Reaches
  <1>2. Quiet(update_inode(core, i))
    BY <1>1, QuietUpdates DEF NamesInv
  <1> QED BY <1>2, QuietLaid, NamesPerform DEF SetAttributes, NamesInv

\* A new node gets a name of its own in the directory.
LEMMA MakeNames ==
    ASSUME FsInv, NamesInv, NEW p \in Paths, Make(p, "file")
    PROVE  NamesInv' /\ UNCHANGED disk
  <1> DEFINE parent == translate_1(p)
             i == Min(FreeInodes)
             m == Made(i, "file")
             slot == find_free_dir(Dirents(parent))
             b == DirBlk(parent)
             x == [name |-> Leaf(p), inode |-> i]
             v == [disk.blk[b] EXCEPT !.ents[slot] = x]
             u == update_inode(m, i)
             c == update_blk(m)
  <1>1. /\ Ready /\ parent # 0 /\ IsDir(parent) /\ translate(p) = 0
        /\ FreeInodes # {} /\ FreeSlots(Dirents(parent)) # {}
        /\ Perform(m, (u \o c) \o <<BlkWrite(b, v)>>)
    BY DEF Make, CanMake
  <1>2. /\ disk \in Disks /\ Sound(disk) /\ core \in Cores /\ disk.imap \subseteq core.imap
        /\ Own(disk) = Listing /\ Lists(disk) = Listing \cup {0}
        /\ disk.blk \in [Blocks -> BlockType]
    BY <1>1, NamesReady, DiskFields
  <1>3. /\ parent \in Inodes /\ b \in Blocks
        /\ Dirents(parent) \in [1 .. Entries -> EntryType]
        /\ \A s \in 1 .. Entries : Dirents(parent)[s] = Ent(disk, b, s)
        /\ \A s \in 1 .. Entries : Ent(disk, b, s) # NoEntry => Ent(disk, b, s).name # Leaf(p)
    BY <1>1, TranslateFacts
  <1>4. i \in Inodes /\ i # 0 /\ i \notin core.imap /\ i \in 2 .. HomeNode
    <2>1. FreeInodes \subseteq Nat /\ \A j \in FreeInodes : j \in 2 .. HomeNode
      BY Sizes DEF FreeInodes, HomeNode
    <2>2. i \in FreeInodes
      BY <1>1, <2>1, MinIn
    <2> QED BY <1>1, <2>1, <2>2, FreeInodeFacts
  <1>5. slot \in 1 .. Entries /\ Ent(disk, b, slot) = NoEntry
    <2>1. FreeSlots(Dirents(parent)) \subseteq Nat
      BY <1>3 DEF FreeSlots
    <2>2. slot \in FreeSlots(Dirents(parent))
      BY <1>1, <2>1, MinIn DEF find_free_dir
    <2>3. slot \in 1 .. Entries /\ Dirents(parent)[slot] = NoEntry
      BY <1>3, <2>2 DEF FreeSlots
    <2> QED BY <1>3, <2>3
  <1>6. Leaf(p) \in Names
    BY PathFacts
  <1> HIDE DEF i, parent, slot
  <1>7. /\ m \in Cores /\ m.imap = core.imap \cup {i} /\ m.itab[i].kind = "file"
        /\ \A j \in Inodes : j # i => m.itab[j] = core.itab[j]
    <2>1. "file" \in {"file", "dir"}
      OBVIOUS
    <2> QED BY <1>2, <1>4, <2>1, MadeFacts
  <1> HIDE DEF m
  <1>8. Fixed(m.itab) /\ {Root, HomeNode} \subseteq m.imap
    <2>1. i \notin {Root, HomeNode}
      BY <1>4 DEF NamesInv
    <2> QED BY <1>2, <1>4, <1>7, <2>1, FixedChanged DEF NamesInv
  <1>9. x \in EntryType /\ x # NoEntry /\ x.name = Leaf(p) /\ x.inode = i
    BY <1>4, <1>6 DEF EntryType, NoEntry
  <1> HIDE DEF x
  <1>10. v \in BlockType /\ v.ents = [disk.blk[b].ents EXCEPT ![slot] = x]
    <2>1. disk.blk[b] \in BlockType
      BY <1>2, <1>3
    <2> QED BY <2>1, <1>5, <1>9 DEF BlockType
  <1> HIDE DEF v
  <1>11. b \in Listing => OneChange(disk, b, v)
    <2> SUFFICES ASSUME b \in Listing PROVE OneChange(disk, b, v)
      OBVIOUS
    <2>1. \A d \in Listing, t \in 1 .. Entries :
             Ent(disk, d, t) # NoEntry => Ent(disk, d, t).inode # i
      BY <1>2, <1>4 DEF Sound, SoundLive
    <2>2. Adds(disk, b, slot, x)
      BY <1>3, <1>4, <1>5, <1>9, <2>1 DEF Adds
    <2> QED BY <1>5, <1>9, <1>10, <2>2 DEF OneChange
  <1> HIDE DEF b, u, c
  <1>12. u \o c \in Seq(Writes) /\ Quiet(u \o c)
    BY <1>4, <1>7, <1>8, QuietUpdates, QuietJoined DEF u, c
  <1>13. BlkWrite(b, v) \in Writes
    BY <1>3, <1>10, <1>7, <1>4, WriteTypes DEF b
  <1>14. Laid(disk, (u \o c) \o <<BlkWrite(b, v)>>)
    BY <1>11, <1>12, <1>13, LaidAfter
  <1> QED BY <1>1, <1>8, <1>14, NamesPerform DEF m, u, c, b, v, x, i, parent, slot

LEMMA NoSlotNames ==
    ASSUME FsInv, NamesInv, NEW p \in Paths, MakeNoSlot(p)
    PROVE  NamesInv' /\ UNCHANGED disk
  <1> DEFINE m == [core EXCEPT !.imap = @ \cup {Min(FreeInodes)}]
  <1>1. core \in Cores /\ Perform(m, <<>>)
    BY DEF FsInv, Reaches, MakeNoSlot
  <1>2. m.itab = core.itab /\ core.imap \subseteq m.imap
    BY <1>1 DEF Cores
  <1> HIDE DEF m
  <1> QED BY <1>1, <1>2, QuietNone, QuietLaid, NamesPerform DEF NamesInv

\* Truncating keeps the node's kind.
LEMMA TruncateQuiet ==
    ASSUME FsInv, NamesInv, Ready, NEW i \in Inodes, i # 0, ~IsDir(i), core.itab[i].kind # "none"
    PROVE  LET m == Truncated(i)
           IN  /\ m \in Cores /\ m.imap = core.imap /\ Fixed(m.itab)
               /\ m.itab[i].kind # "dir"
               /\ Quiet(TruncateWrites(i)) /\ TruncateWrites(i) \in Seq(Writes)
  <1> DEFINE m == Truncated(i)
  <1>1. /\ m \in Cores /\ m.imap = core.imap
        /\ \A j \in Inodes : /\ j # i => m.itab[j] = core.itab[j]
                             /\ m.itab[j].kind = core.itab[j].kind
    BY TruncateLeads
  <1>2. core \in Cores /\ i \notin {Root, HomeNode}
    BY NamesReady
  <1>3. m.itab[i].kind # "dir"
    BY <1>1 DEF IsDir
  <1> HIDE DEF m
  <1>4. Fixed(m.itab)
    BY <1>1, <1>2, <1>3, FixedChanged DEF NamesInv
  <1>5. Quiet(update_inode(m, i) \o update_blk(m)) /\ update_inode(m, i) \o update_blk(m) \in Seq(Writes)
    BY <1>1, <1>4, QuietUpdates, QuietJoined DEF NamesInv
  <1> QED BY <1>1, <1>3, <1>4, <1>5 DEF m, TruncateWrites

LEMMA TruncateNames ==
    ASSUME FsInv, NamesInv, NEW p \in Paths, fs_truncate(p)
    PROVE  NamesInv' /\ UNCHANGED disk
  <1> DEFINE i == translate(p)
  <1>1. /\ Ready /\ i # 0 /\ ~IsDir(i)
        /\ Perform(Truncated(i), TruncateWrites(i))
    BY DEF fs_truncate
  <1>2. i \in Inodes /\ core.itab[i].kind # "none"
    BY <1>1, TranslateFacts, ReadyFacts
  <1> HIDE DEF i
  <1> QED BY <1>1, <1>2, TruncateQuiet, QuietLaid, NamesPerform DEF NamesInv

\* The name of the node goes, and no other.
LEMMA UnlinkNames ==
    ASSUME FsInv, NamesInv, NEW p \in Paths, fs_unlink(p)
    PROVE  NamesInv' /\ UNCHANGED disk
  <1> DEFINE i == translate(p)
             n == Truncated(i)
             m == Cleared(n, i)
             b == DirBlk(translate_1(p))
             v == [disk.blk[b] EXCEPT !.ents = Erased(@, Leaf(p))]
             t == TruncateWrites(i)
             u == update_inode(m, i)
             c == update_blk(m)
  <1>1. /\ Ready /\ i # 0 /\ ~IsDir(i)
        /\ Perform(m, ((t \o <<BlkWrite(b, v)>>) \o u) \o c)
    BY DEF fs_unlink, Unlisted
  <1>2. /\ disk \in Disks /\ Sound(disk) /\ core \in Cores /\ disk.itab = core.itab
        /\ Lists(disk) = Listing \cup {0} /\ disk.blk \in [Blocks -> BlockType]
        /\ \A j \in Inodes : ~IsDir(j) => j \notin {Root, HomeNode}
    BY <1>1, NamesReady, DiskFields
  <1>3. /\ i \in Inodes /\ core.itab[i].kind # "none" /\ b \in Lists(disk) /\ b \in Blocks
        /\ \E s \in 1 .. Entries : Ent(disk, b, s) # NoEntry /\ Ent(disk, b, s).name = Leaf(p)
    BY <1>1, <1>2, TranslateFacts
  <1>4. PICK r \in 1 .. Entries : Ent(disk, b, r) # NoEntry /\ Ent(disk, b, r).name = Leaf(p)
    BY <1>3
  <1>5. Named(disk.blk[b].ents, Leaf(p)) = {r}
    BY <1>1, <1>3, <1>4, NamedOnce
  <1> HIDE DEF i, b, t
  <1>6. v \in BlockType /\ v.ents = [disk.blk[b].ents EXCEPT ![r] = NoEntry]
    <2> DEFINE e == disk.blk[b].ents
    <2>1. disk.blk[b] \in BlockType /\ e \in [1 .. Entries -> EntryType] /\ NoEntry \in EntryType
      BY <1>2, <1>3, EmptyTypes DEF BlockType
    <2>2. Erased(e, Leaf(p)) = [s \in 1 .. Entries |-> IF s = r THEN NoEntry ELSE e[s]]
      BY <1>5, <2>1 DEF Erased
    <2> DEFINE new == Erased(e, Leaf(p))
    <2>3. new = [e EXCEPT ![r] = NoEntry] /\ new \in [1 .. Entries -> EntryType]
      <3> HIDE DEF NoEntry, e
      <3> QED BY <2>1, <2>2
    <2>4. v = [disk.blk[b] EXCEPT !.ents = new]
      OBVIOUS
    <2> HIDE DEF new, v
    <2> QED BY <2>1, <2>3, <2>4 DEF BlockType
  <1> HIDE DEF v
  <1>7. OneChange(disk, b, v)
    BY <1>4, <1>6, EmptyTypes DEF OneChange
  <1>8. /\ n \in Cores /\ n.imap = core.imap /\ Fixed(n.itab)
        /\ Quiet(t) /\ t \in Seq(Writes)
    BY <1>1, <1>3, TruncateQuiet DEF t
  <1> HIDE DEF n
  <1>9. /\ m \in Cores /\ m.imap = n.imap \ {i} /\ m.itab[i] = NoInode
        /\ \A j \in Inodes : j # i => m.itab[j] = n.itab[j]
    BY <1>3, <1>8, ClearedCore
  <1> HIDE DEF m
  <1>10. Fixed(m.itab) /\ {Root, HomeNode} \subseteq m.imap
    <2>1. i \notin {Root, HomeNode}
      BY <1>1, <1>2, <1>3
    <2>2. m.itab[i].kind # "dir"
      BY <1>9, EmptyTypes
    <2>3. {Root, HomeNode} \subseteq n.imap
      BY <1>8 DEF NamesInv
    <2> QED BY <1>3, <1>8, <1>9, <2>1, <2>2, <2>3, FixedChanged
  <1>11. Quiet(u) /\ u \in Seq(Writes) /\ Quiet(c) /\ c \in Seq(Writes)
    BY <1>3, <1>9, <1>10, QuietUpdates
  <1>12. BlkWrite(b, v) \in Writes
    BY <1>3, <1>6, <1>9, WriteTypes
  <1> DEFINE ws == t \o <<BlkWrite(b, v)>>
  <1>13. ws \in Seq(Writes) /\ Laid(disk, ws)
    BY <1>7, <1>8, <1>12, LaidAfter
  <1> HIDE DEF ws, u, c
  <1>14. ws \o u \in Seq(Writes) /\ Laid(disk, ws \o u)
    BY <1>11, <1>13, LaidThen
  <1>15. Laid(disk, (ws \o u) \o c)
    BY <1>11, <1>14, LaidThen
  <1> QED BY <1>1, <1>10, <1>15, NamesPerform DEF ws

LEMMA RenameNames ==
    ASSUME FsInv, NamesInv, NEW p \in Paths, NEW q \in Paths, fs_rename(p, q)
    PROVE  NamesInv' /\ UNCHANGED disk
  <1> DEFINE parent == translate_1(p)
             b == DirBlk(parent)
             e == disk.blk[b].ents
             new == Relabelled(e, Leaf(p), Leaf(q))
             v == [disk.blk[b] EXCEPT !.ents = new]
  <1>1. /\ Ready /\ translate(p) # 0 /\ translate(q) = 0 /\ parent = translate_1(q)
        /\ Perform(core, <<BlkWrite(b, v)>>)
    BY DEF fs_rename, Renamed
  <1>2. /\ disk \in Disks /\ Sound(disk) /\ core \in Cores
        /\ Lists(disk) = Listing \cup {0} /\ disk.blk \in [Blocks -> BlockType]
    BY <1>1, NamesReady, DiskFields
  <1>3. /\ parent # 0 /\ IsDir(parent) /\ b \in Lists(disk) /\ b \in Blocks
        /\ \E s \in 1 .. Entries : Ent(disk, b, s) # NoEntry /\ Ent(disk, b, s).name = Leaf(p)
        /\ \A s \in 1 .. Entries : Dirents(parent)[s] = Ent(disk, b, s)
    BY <1>1, TranslateFacts
  <1>4. \A s \in 1 .. Entries : Ent(disk, b, s) # NoEntry => Ent(disk, b, s).name # Leaf(q)
    <2>1. \A s \in 1 .. Entries : Dirents(parent)[s] # NoEntry => Dirents(parent)[s].name # Leaf(q)
      BY <1>1, <1>3, TranslateFacts
    <2> QED BY <1>3, <2>1
  <1>5. PICK r \in 1 .. Entries : Ent(disk, b, r) # NoEntry /\ Ent(disk, b, r).name = Leaf(p)
    BY <1>3
  <1>6. Named(e, Leaf(p)) = {r}
    BY <1>1, <1>3, <1>5, NamedOnce
  <1> DEFINE x == [e[r] EXCEPT !.name = Leaf(q)]
  <1>7. disk.blk[b] \in BlockType /\ e \in [1 .. Entries -> EntryType] /\ Leaf(q) \in Names
    BY <1>2, <1>3, PathFacts DEF BlockType
  <1> HIDE DEF parent, b
  <1>8. x \in EntryType /\ x # NoEntry /\ x.name = Leaf(q) /\ x.inode = Ent(disk, b, r).inode
    <2>1. e[r] \in [name : Names, inode : Inodes \ {0}]
      BY <1>5, <1>7 DEF EntryType, Ent
    <2>2. /\ x \in EntryType /\ x # NoEntry /\ x.name = Leaf(q) /\ x.inode = e[r].inode
      BY <1>7, <2>1 DEF EntryType, NoEntry
    <2> QED BY <2>2 DEF Ent
  <1>9. new = [s \in 1 .. Entries |-> IF s = r THEN x ELSE e[s]]
    BY <1>6, <1>7 DEF Relabelled
  <1>10. new = [e EXCEPT ![r] = x] /\ new \in [1 .. Entries -> EntryType]
    <2> HIDE DEF x, e, new
    <2> QED BY <1>7, <1>8, <1>9
  <1> HIDE DEF new, x
  <1>11. v \in BlockType /\ v.ents = new
    BY <1>7, <1>10 DEF BlockType
  <1> HIDE DEF v
  <1>12. OneChange(disk, b, v)
    <2>1. Relabels(disk, b, r, x)
      BY <1>4, <1>5, <1>8 DEF Relabels
    <2> QED BY <1>8, <1>10, <1>11, <2>1 DEF OneChange
  <1>13. BlkWrite(b, v) \in Writes
    <2>1. b \in Blocks
      BY <1>3 DEF b
    <2> QED BY <1>2, <1>11, <2>1, Sizes, WriteTypes
  <1>14. Laid(disk, <<BlkWrite(b, v)>>)
    <2>1. <<>> \in Seq(Writes)
      OBVIOUS
    <2> QED BY <1>12, <1>13, <2>1, QuietNone, LaidAfter
  <1>15. Perform(core, <<BlkWrite(b, v)>>)
    BY <1>1 DEF b, v, new, parent
  <1> QED BY <1>14, <1>15, NamesPerform DEF NamesInv

\* The blocks a write allocates and those that name them are no directory's.
LEMMA AllocQuiet ==
    ASSUME FsInv, NamesInv, Ready, NEW i \in Inodes, ~IsDir(i), core.itab[i].kind # "none",
           NEW k \in 0 .. MaxFile, NEW w \in Ways(i, k)
    PROVE  AllocWrites(i, k, w) \in Seq(Writes) /\ Quiet(AllocWrites(i, k, w))
  <1>1. /\ disk \in GoodDisks /\ core \in Cores /\ disk.itab = core.itab
        /\ disk.imap \subseteq core.imap /\ Own(disk) = Listing
        /\ i \notin {Root, HomeNode}
    BY NamesReady
  <1>2. \A j \in 1 .. 3 : AllocBlk(i, k, w, j) \in Seq(Writes)
    BY <1>1, ThinsItself, AllocBlkLeads, LeadsEnds
  <1>3. ASSUME NEW j \in 1 .. 3 PROVE Quiet(AllocBlk(i, k, w, j))
    <2> DEFINE m == With(i, k, w)
    <2>1. CASE j \notin New(w)
      BY <2>1, QuietNone DEF AllocBlk
    <2>2. CASE j \in New(w)
      <3>1. /\ Depth(k) \in 1 .. 3 /\ j \in 1 .. Depth(k)
            /\ \A l \in 1 .. Depth(k) : w.made[l] \notin Listing
        BY <1>1, <2>2, WaysFacts
      <3>2. Quiet(<<BlkWrite(w.made[j], Zeroes)>>)
        BY <3>1, QuietOne
      <3> DEFINE a == <<BlkWrite(w.made[j], Zeroes)>>
      <3>3. Quiet(a \o Store(i, k, w, j))
        <4>1. CASE j = 1
          <5>1. /\ m \in Cores /\ m.imap = core.imap /\ m.itab[i].kind = core.itab[i].kind
                /\ \A l \in Inodes : l # i => m.itab[l] = core.itab[l]
            BY WithFacts
          <5> HIDE DEF m
          <5>2. Fixed(m.itab) /\ {Root, HomeNode} \subseteq m.imap
            BY <1>1, <5>1, FixedChanged DEF NamesInv, IsDir
          <5>3. Quiet(update_inode(m, i)) /\ update_inode(m, i) \in Seq(Writes)
            BY <5>1, <5>2, QuietUpdates
          <5>4. w.made[j] \in Blocks
            BY <2>2, WaysFacts
          <5>5. BlkWrite(w.made[j], Zeroes) \in Writes
            BY <5>1, <5>4, EmptyTypes, WriteTypes
          <5>6. a \in Seq(Writes)
            BY <5>5
          <5> HIDE DEF a
          <5>7. Quiet(a \o update_inode(m, i))
            BY <3>2, <5>3, <5>6, QuietJoined DEF a
          <5> QED BY <4>1, <5>7 DEF Store, m
        <4>2. CASE j # 1
          <5> DEFINE v == [Content(w, j - 1) EXCEPT !.ptrs[Slot(k)] = w.made[j]]
                     b == <<BlkWrite(w.made[j - 1], v)>>
                     S == {BlkWrite(w.made[j], Zeroes), BlkWrite(w.made[j - 1], v)}
          <5>1. j - 1 \in 1 .. Depth(k)
            BY <3>1, <4>2
          <5>2. w.made[j - 1] \notin Listing
            BY <3>1, <5>1
          <5> HIDE DEF v
          <5>3. Quiet(b)
            BY <5>2, QuietOne
          <5>4. a \in Seq(S) /\ b \in Seq(S)
            OBVIOUS
          <5>5. Store(i, k, w, j) = b
            BY <4>2 DEF Store, v
          <5> HIDE DEF a, b, S
          <5>6. Quiet(a \o b)
            BY <3>2, <5>3, <5>4, QuietJoined DEF a
          <5> QED BY <5>5, <5>6
        <4> QED BY <4>1, <4>2
      <3> QED BY <2>2, <3>3 DEF AllocBlk
    <2> QED BY <2>1, <2>2
  <1> DEFINE a == AllocBlk(i, k, w, 1)
             b == AllocBlk(i, k, w, 2)
             c == AllocBlk(i, k, w, 3)
  <1>4. /\ a \in Seq(Writes) /\ b \in Seq(Writes) /\ c \in Seq(Writes)
        /\ Quiet(a) /\ Quiet(b) /\ Quiet(c)
    BY <1>2, <1>3
  <1> HIDE DEF a, b, c
  <1>5. (a \o b) \in Seq(Writes) /\ Quiet(a \o b)
    BY <1>4, QuietJoined
  <1>6. (a \o b) \o c \in Seq(Writes) /\ Quiet((a \o b) \o c)
    BY <1>4, <1>5, QuietJoined
  <1> QED BY <1>6 DEF AllocWrites, a, b, c

\* The writes of a table in which one node, no directory, is changed.
LEMMA NodeQuiet ==
    ASSUME FsInv, NamesInv, Ready, NEW i \in Inodes, ~IsDir(i), NEW m \in Cores,
           m.imap = core.imap, m.itab[i].kind = core.itab[i].kind,
           \A j \in Inodes : j # i => m.itab[j] = core.itab[j]
    PROVE  /\ Fixed(m.itab) /\ {Root, HomeNode} \subseteq m.imap
           /\ Quiet(update_inode(m, i)) /\ update_inode(m, i) \in Seq(Writes)
           /\ Quiet(update_blk(m)) /\ update_blk(m) \in Seq(Writes)
  <1>1. core \in Cores /\ i \notin {Root, HomeNode}
    BY NamesReady
  <1>2. Fixed(m.itab) /\ {Root, HomeNode} \subseteq m.imap
    BY <1>1, FixedChanged DEF NamesInv, IsDir
  <1> QED BY <1>2, QuietUpdates

LEMMA StoringQuiet ==
    ASSUME FsInv, NamesInv, Ready, NEW i \in Inodes, ~IsDir(i), core.itab[i].kind # "none",
           NEW k \in 0 .. MaxFile, NEW w \in Ways(i, k),
           NEW d \in Seq(Units), Len(d) <= BLOCK_SIZE
    PROVE  LET end == k * BLOCK_SIZE + (IF k < MaxFile THEN Len(d) ELSE 0)
               m == [With(i, k, w) EXCEPT !.itab[i] = Grown(@, end)]
           IN  /\ Fixed(m.itab) /\ {Root, HomeNode} \subseteq m.imap
               /\ Quiet(AllocWrites(i, k, w) \o <<Filled(w, d)>>
                           \o update_inode(m, i) \o update_blk(m))
  <1> DEFINE end == k * BLOCK_SIZE + (IF k < MaxFile THEN Len(d) ELSE 0)
             m == [With(i, k, w) EXCEPT !.itab[i] = Grown(@, end)]
             a == AllocWrites(i, k, w)
             f == <<Filled(w, d)>>
             u == update_inode(m, i)
             v == update_blk(m)
             S == Writes \cup {Filled(w, d)}
  <1>1. /\ m \in Cores /\ m.imap = core.imap /\ core.bmap \subseteq m.bmap
        /\ \A j \in Inodes : j # i => m.itab[j] = core.itab[j]
        /\ m.itab[i].kind = core.itab[i].kind /\ Apart(m.itab[i], Own(disk))
    BY GrownCore
  <1> HIDE DEF m
  <1>2. /\ Fixed(m.itab) /\ {Root, HomeNode} \subseteq m.imap
        /\ Quiet(u) /\ u \in Seq(Writes) /\ Quiet(v) /\ v \in Seq(Writes)
    BY <1>1, NodeQuiet
  <1>3. a \in Seq(Writes) /\ Quiet(a)
    BY AllocQuiet
  <1>4. Quiet(f) /\ f \in Seq(S)
    <2>1. Last(w.made) \notin Listing
      BY NamesReady, WaysFacts
    <2>2. Quiet(f)
      BY <2>1, QuietOne DEF Filled
    <2> QED BY <2>2
  <1> HIDE DEF a, f, u, v
  <1>5. a \in Seq(S) /\ u \in Seq(S) /\ v \in Seq(S)
    BY <1>2, <1>3
  <1> HIDE DEF S
  <1>6. a \o f \in Seq(S) /\ Quiet(a \o f)
    BY <1>3, <1>4, <1>5, QuietJoined
  <1>7. (a \o f) \o u \in Seq(S) /\ Quiet((a \o f) \o u)
    BY <1>2, <1>5, <1>6, QuietJoined
  <1>8. Quiet(((a \o f) \o u) \o v)
    BY <1>2, <1>5, <1>7, QuietJoined
  <1> QED BY <1>2, <1>8 DEF a, f, u, v, m

LEMMA WriteNames ==
    ASSUME FsInv, NamesInv, NEW p \in Paths, NEW k \in 0 .. MaxFile,
           NEW d \in Seq(Units), Len(d) <= BLOCK_SIZE, fs_write(p, k, d)
    PROVE  NamesInv' /\ UNCHANGED disk
  <1> DEFINE i == translate(p)
  <1>1. WriteBlock(i, k, d) \/ WriteLost(i, k) \/ WriteNoSpace(i, k)
    BY DEF fs_write
  <1>2. Ready /\ i # 0 /\ ~IsDir(i)
    BY <1>1 DEF WriteBlock, WriteLost, WriteNoSpace, CanWrite
  <1>3. i \in Inodes /\ core.itab[i].kind # "none"
    BY <1>2, TranslateFacts, ReadyFacts
  <1> HIDE DEF i
  <1>4. CASE WriteBlock(i, k, d)
    <2> DEFINE end == k * BLOCK_SIZE + (IF k < MaxFile THEN Len(d) ELSE 0)
               M(w) == [With(i, k, w) EXCEPT !.itab[i] = Grown(@, end)]
    <2>1. PICK w \in Ways(i, k) :
              Perform(M(w), AllocWrites(i, k, w) \o <<Filled(w, d)>>
                                \o update_inode(M(w), i) \o update_blk(M(w)))
      BY <1>4 DEF WriteBlock
    <2>2. /\ Fixed(M(w).itab) /\ {Root, HomeNode} \subseteq M(w).imap
          /\ Quiet(AllocWrites(i, k, w) \o <<Filled(w, d)>>
                      \o update_inode(M(w), i) \o update_blk(M(w)))
      BY <1>2, <1>3, <2>1, StoringQuiet
    <2> HIDE DEF M
    <2> QED BY <2>1, <2>2, QuietLaid, NamesPerform
  <1>5. ASSUME NEW w \in Ways(i, k)
        PROVE  /\ Quiet(AllocWrites(i, k, w)) /\ AllocWrites(i, k, w) \in Seq(Writes)
               /\ LET m == With(i, k, w)
                  IN  /\ Fixed(m.itab) /\ {Root, HomeNode} \subseteq m.imap
                      /\ Quiet(update_inode(m, i)) /\ update_inode(m, i) \in Seq(Writes)
                      /\ Quiet(update_blk(m)) /\ update_blk(m) \in Seq(Writes)
    <2> DEFINE m == With(i, k, w)
    <2>1. /\ m \in Cores /\ m.imap = core.imap /\ m.itab[i].kind = core.itab[i].kind
          /\ \A j \in Inodes : j # i => m.itab[j] = core.itab[j]
      BY <1>2, <1>3, WithFacts
    <2>2. Quiet(AllocWrites(i, k, w)) /\ AllocWrites(i, k, w) \in Seq(Writes)
      BY <1>2, <1>3, AllocQuiet
    <2> HIDE DEF m
    <2>3. /\ Fixed(m.itab) /\ {Root, HomeNode} \subseteq m.imap
          /\ Quiet(update_inode(m, i)) /\ update_inode(m, i) \in Seq(Writes)
          /\ Quiet(update_blk(m)) /\ update_blk(m) \in Seq(Writes)
      BY <1>2, <1>3, <2>1, NodeQuiet
    <2> QED BY <2>2, <2>3 DEF m
  <1>6. CASE WriteLost(i, k)
    <2>1. PICK w \in Ways(i, k) :
              Perform(With(i, k, w), AllocWrites(i, k, w) \o update_inode(With(i, k, w), i)
                                        \o update_blk(With(i, k, w)))
      BY <1>6 DEF WriteLost
    <2> DEFINE m == With(i, k, w)
               a == AllocWrites(i, k, w)
               u == update_inode(m, i)
               v == update_blk(m)
    <2>2. /\ Quiet(a) /\ a \in Seq(Writes) /\ Quiet(u) /\ u \in Seq(Writes)
          /\ Quiet(v) /\ v \in Seq(Writes) /\ Fixed(m.itab) /\ {Root, HomeNode} \subseteq m.imap
          /\ Perform(m, (a \o u) \o v)
      BY <1>5, <2>1
    <2> HIDE DEF a, u, v, m
    <2>3. a \o u \in Seq(Writes) /\ Quiet(a \o u)
      BY <2>2, QuietJoined
    <2>4. Quiet((a \o u) \o v)
      BY <2>2, <2>3, QuietJoined
    <2> QED BY <2>2, <2>4, QuietLaid, NamesPerform
  <1>7. CASE WriteNoSpace(i, k)
    <2>1. PICK w \in Ways(i, k) : Perform(With(i, k, w), AllocWrites(i, k, w))
      BY <1>7 DEF WriteNoSpace
    <2> QED BY <1>5, <2>1, QuietLaid, NamesPerform
  <1> QED BY <1>1, <1>4, <1>6, <1>7

\* While no directory is made, removed or made a file, no handler touches the
\* device, and what it leaves to be written changes one binding at most.
LEMMA HandlingNames ==
    ASSUME MakeDirs = FALSE, TypeBits = FALSE, FsInv, NamesInv, Handling \/ Crash
    PROVE  NamesInv' /\ UNCHANGED disk
  <1>1. CASE fs_getattr
    BY <1>1, LoadNames DEF fs_getattr
  <1>2. CASE Crash
    BY <1>2, LoadNames DEF Crash, Perform
  <1>3. CASE fs_chmod(Root)
    BY <1>3, Sizes, AttributesNames DEF fs_chmod
  <1>4. ASSUME NEW p \in Paths, fs_mknod(p) PROVE NamesInv' /\ UNCHANGED disk
    BY <1>4, MakeNames, NoSlotNames DEF fs_mknod
  <1>5. ASSUME NEW p \in Paths, fs_chmod(translate(p)) PROVE NamesInv' /\ UNCHANGED disk
    <2>1. SetAttributes(translate(p))
      BY <1>5 DEF fs_chmod
    <2>2. translate(p) \in Inodes
      BY <2>1, TranslateFacts DEF SetAttributes
    <2> QED BY <2>1, <2>2, AttributesNames
  <1>6. ASSUME NEW p \in Paths PROVE ~fs_mkdir(p) /\ ~fs_rmdir(p)
    BY DEF fs_mkdir, fs_rmdir, CanRmdir
  <1> QED BY <1>1, <1>2, <1>3, <1>4, <1>5, <1>6, TruncateNames, UnlinkNames, RenameNames
             DEF Handling

\* A write of inodes or of a map keeps the directories and all entries.
LEMMA OtherWrite ==
    ASSUME NEW d \in Disks, NEW w \in Writes, w.at # "block", Keeps(w),
           Fixed(d.itab), {Root, HomeNode} \subseteq d.imap
    PROVE  LET e == Written(d, w)
           IN  /\ e.blk = d.blk /\ Fixed(e.itab) /\ {Root, HomeNode} \subseteq e.imap
  <1>1. w.at \in {"itab", "imap", "bmap"}
    BY DEF Writes
  <1>2. CASE w.at = "itab"
    <2>1. Written(d, w) = [d EXCEPT !.itab = Overlay(d.itab, w.val)]
      BY <1>2 DEF Written
    <2>2. Fixed(Overlay(d.itab, w.val))
      BY <1>2 DEF Overlay, Fixed, Keeps
    <2> HIDE DEF Fixed
    <2> QED BY <2>1, <2>2 DEF Disks
  <1>3. CASE w.at = "imap"
    BY <1>3 DEF Written, Disks, Keeps
  <1>4. CASE w.at = "bmap"
    BY <1>4 DEF Written, Disks
  <1> QED BY <1>1, <1>2, <1>3, <1>4

LEMMA LaidRest ==
    ASSUME NEW d, NEW ws \in Seq(Writes), ws # <<>>, Laid(d, ws)
    PROVE  /\ Laid(d, Tail(ws)) /\ Keeps(Head(ws)) /\ Head(ws) \in Writes
           /\ Lays(Head(ws)) => /\ OneChange(d, Head(ws).no, Head(ws).val)
                                /\ \A e : Laid(e, Tail(ws))
  <1> DEFINE n == Len(ws)
             u == Tail(ws)
  <1>1. /\ n \in Nat /\ n > 0 /\ Head(ws) = ws[1] /\ ws[1] \in Writes
        /\ \A k \in 1 .. n - 1 : u[k] = ws[k + 1]
        /\ DOMAIN ws = 1 .. n /\ DOMAIN u = 1 .. n - 1
    BY EmptySeq
  <1> HIDE DEF n, u
  <1>2. \A k \in 1 .. n - 1 : k + 1 \in 1 .. n /\ k + 1 # 1 /\ u[k] = ws[k + 1]
    BY <1>1
  <1>3. \A k \in 1 .. n - 1, j \in 1 .. n - 1 : j # k => j + 1 # k + 1
    BY <1>1
  <1>4. 1 \in 1 .. n
    BY <1>1
  <1>5. Laid(d, u)
    <2>1. ASSUME NEW k \in DOMAIN u
          PROVE  /\ Keeps(u[k])
                 /\ Lays(u[k]) => /\ OneChange(d, u[k].no, u[k].val)
                                  /\ \A j \in DOMAIN u : j # k => ~Lays(u[j])
      <3>1. k \in 1 .. n - 1 /\ k + 1 \in DOMAIN ws /\ u[k] = ws[k + 1]
        BY <1>1, <1>2
      <3>2. ASSUME Lays(u[k]), NEW j \in DOMAIN u, j # k PROVE ~Lays(u[j])
        BY <1>1, <1>2, <1>3, <3>1, <3>2 DEF Laid
      <3> QED BY <3>1, <3>2 DEF Laid
    <2> QED BY <2>1 DEF Laid
  <1>6. Keeps(ws[1]) /\ (Lays(ws[1]) => OneChange(d, ws[1].no, ws[1].val))
    BY <1>1, <1>4 DEF Laid
  <1>7. ASSUME Lays(ws[1]), NEW e PROVE Laid(e, u)
    <2>1. ASSUME NEW k \in DOMAIN u PROVE Keeps(u[k]) /\ ~Lays(u[k])
      BY <1>1, <1>2, <1>4, <1>7 DEF Laid
    <2> QED BY <2>1 DEF Laid
  <1> QED BY <1>1, <1>5, <1>6, <1>7 DEF u

\* The device performs a write: one binding changes, or none.
LEMMA FlushNames ==
    ASSUME FsInv, NamesInv, Flush
    PROVE  /\ NamesInv'
           /\ (\E b \in Listing : OneBinding(disk, b, disk')) \/ BindSet(disk') = BindSet(disk)
  <1> DEFINE w == Head(todo)
             e == Written(disk, w)
  <1>1. /\ todo # <<>> /\ disk' = e /\ todo' = Tail(todo) /\ core' = core
    BY DEF Flush
  <1>2. /\ todo \in Seq(Writes) /\ disk \in Disks /\ Sound(disk)
        /\ disk.blk \in [Blocks -> BlockType]
    BY LeadsEnds, DiskFields DEF FsInv, Reaches, GoodDisks
  <1>3. /\ Laid(disk, Tail(todo)) /\ Keeps(w) /\ w \in Writes
        /\ Lays(w) => /\ OneChange(disk, w.no, w.val)
                      /\ \A d : Laid(d, Tail(todo))
    BY <1>1, <1>2, LaidRest DEF NamesInv
  <1>4. Fixed(disk.itab) /\ {Root, HomeNode} \subseteq disk.imap /\ NamesNodes(disk)
    BY DEF NamesInv
  <1>5. SUFFICES /\ Fixed(e.itab) /\ {Root, HomeNode} \subseteq e.imap
                 /\ NamesNodes(e) /\ Laid(e, Tail(todo))
                 /\ (\E b \in Listing : OneBinding(disk, b, e)) \/ BindSet(e) = BindSet(disk)
    BY <1>1 DEF NamesInv
  <1> HIDE DEF e, w
  <1>6. CASE w.at # "block"
    <2>1. e.blk = disk.blk /\ Fixed(e.itab) /\ {Root, HomeNode} \subseteq e.imap
      BY <1>2, <1>3, <1>4, <1>6, OtherWrite DEF e
    <2> QED BY <1>3, <1>4, <2>1, SameEntries
  <1>7. CASE w.at = "block"
    <2> DEFINE b == w.no
               v == w.val
    <2>1. b \in Blocks /\ v \in BlockType /\ w = BlkWrite(b, v)
      BY <1>3, <1>7 DEF Writes, BlkWrite
    <2> HIDE DEF b, v
    <2>2. e.imap = disk.imap /\ e.itab = disk.itab /\ e.blk = [disk.blk EXCEPT ![b] = v]
      BY <1>2, <2>1, WriteOfBlock DEF e
    <2>3. CASE b \notin Listing
      <3>1. \A c \in Listing : e.blk[c].ents = disk.blk[c].ents
        BY <1>2, <2>2, <2>3, ListingBlocks
      <3> QED BY <1>3, <1>4, <2>2, <3>1, SameEntries
    <2>4. CASE b \in Listing
      <3>1. OneChange(disk, b, v) /\ Laid(e, Tail(todo))
        BY <1>3, <1>7, <2>4 DEF Lays, b, v
      <3>2. SoundOne(disk) /\ Listing \subseteq Lists(disk)
        BY <1>2, <1>4, FixedDirs DEF Sound, Lists
      <3>3. NamesNodes(e) /\ OneBinding(disk, b, e)
        BY <1>2, <1>4, <2>1, <2>2, <2>4, <3>1, <3>2, ChangeIsStep
      <3> QED BY <1>4, <2>2, <2>4, <3>1, <3>3
    <2> QED BY <2>3, <2>4
  <1> QED BY <1>6, <1>7

-----------------------------------------------------------------------------
(* The refinement of the namespace. *)

LEMMA NamesStart == ASSUME Init PROVE NamesInv
  <1> DEFINE t == [i \in Inodes |-> CASE i = Root -> DirInode(RootBlk)
                                      [] i = HomeNode -> DirInode(HomeBlk)
                                      [] OTHER -> NoInode]
             home == [Zeroes EXCEPT !.ents[1] = HomeEntry]
             c == [b \in Blocks |-> IF b = RootBlk THEN home ELSE Zeroes]
  <1>1. /\ disk.imap = {0, Root, HomeNode} /\ disk.itab = t /\ disk.blk = c
        /\ core.itab = disk.itab /\ core.imap = disk.imap /\ todo = <<>>
    BY DEF Init, fs_init
  <1>2. ASSUME NEW b \in Blocks
        PROVE  DirInode(b).kind = "dir" /\ DirInode(b).direct[0] = b
    <2> DEFINE g == [NoInode.direct EXCEPT ![0] = b]
    <2>1. NoInode.direct \in [0 .. N_DIRECT - 1 -> Blocks]
      BY EmptyTypes DEF InodeType
    <2>2. g[0] = b
      BY <2>1, Sizes
    <2>3. DirInode(b) = [NoInode EXCEPT !.kind = "dir", !.direct = g]
      BY DEF DirInode
    <2> HIDE DEF g
    <2> QED BY <2>2, <2>3, EmptyTypes DEF InodeType
  <1>3. Fixed(t)
    <2>1. /\ t[Root] = DirInode(RootBlk) /\ t[HomeNode] = DirInode(HomeBlk)
          /\ \A i \in Inodes : i \notin {Root, HomeNode} => t[i] = NoInode
          /\ DOMAIN t = Inodes
      BY Sizes
    <2> HIDE DEF t
    <2> QED BY <1>2, <2>1, Sizes, EmptyTypes, ZenonT(40) DEF Fixed
  <1>4. ASSUME NEW b \in Listing, NEW s \in 1 .. Entries, Ent(disk, b, s) # NoEntry
        PROVE  Ent(disk, b, s).inode \in 2 .. HomeNode
    <2>1. b \in Blocks /\ disk.blk[b] = IF b = RootBlk THEN home ELSE Zeroes
      BY <1>1, ListingBlocks
    <2>2. b = RootBlk
      BY <1>4, <2>1, EmptyTypes DEF Ent
    <2>3. Zeroes.ents \in [1 .. Entries -> EntryType] /\ Zeroes \in BlockType
      BY EmptyTypes DEF BlockType
    <2>4. home.ents = [Zeroes.ents EXCEPT ![1] = HomeEntry]
      BY <2>3 DEF BlockType
    <2>5. s = 1 /\ Ent(disk, b, s) = HomeEntry
      BY <1>4, <2>1, <2>2, <2>3, <2>4, EmptyTypes DEF Ent
    <2> QED BY <2>5, Sizes DEF HomeEntry
  <1> HIDE DEF t, home, c
  <1>5. NamesNodes(disk)
    BY <1>4 DEF NamesNodes
  <1> QED BY <1>1, <1>3, <1>5, QuietNone, QuietLaid DEF NamesInv

\* The abstract state.
Bound == {<<x[1], EntryAt(x).name, EntryAt(x).inode>> : x \in Bindings}

LEMMA NamespaceStart == ASSUME Init PROVE NS!Init
  <1>1. disk \in Disks /\ NamesInv
    BY InitInv, NamesStart, LeadsEnds DEF FsInv, Reaches, GoodDisks
  <1>2. Bound = BindSet(disk)
    BY <1>1, BindingsNow DEF Bound
  <1>3. BindSet(disk) \subseteq {0, RootBlk, HomeBlk} \X Names \X (2 .. HomeNode)
    BY DEF BindSet, Listing
  <1> QED BY <1>2, <1>3 DEF NS!Init, Bound

LEMMA OneBindingIsStep ==
    ASSUME NEW b \in Listing, OneBinding(disk, b, disk'),
           Bound = BindSet(disk), Bound' = BindSet(disk')
    PROVE  NS!Next
  <1> DEFINE B == BindSet(disk)
             C == BindSet(disk')
  <1>1. b \in {0, RootBlk, HomeBlk}
    BY DEF Listing
  <1>2. \A d, n : NS!Bound(d, n) <=> \E x \in B : x[1] = d /\ x[2] = n
    BY DEF NS!Bound, Bound
  <1>3. \A i : NS!Listed(i) <=> \E x \in B : x[3] = i
    BY DEF NS!Listed, Bound
  <1>4. \A d, n, i : C = B \cup {<<d, n, i>>} /\ ~NS!Bound(d, n) /\ ~NS!Listed(i)
                     => NS!Create(d, n, i)
    BY DEF NS!Create, Bound
  <1>5. \A d, n, i : C = B \ {<<d, n, i>>} /\ <<d, n, i>> \in B => NS!Remove(d, n, i)
    BY DEF NS!Remove, Bound
  <1>6. \A d, n, m, i : /\ C = (B \ {<<d, n, i>>}) \cup {<<d, m, i>>}
                        /\ <<d, n, i>> \in B /\ ~NS!Bound(d, m)
                        => NS!Rename(d, n, m, i)
    BY DEF NS!Rename, Bound
  <1>7. PICK n \in Names, i \in 2 .. HomeNode :
            \/ NS!Create(b, n, i)
            \/ NS!Remove(b, n, i)
            \/ \E m \in Names : NS!Rename(b, n, m, i)
    BY <1>2, <1>3, <1>4, <1>5, <1>6 DEF OneBinding
  <1> QED BY <1>1, <1>7 DEF NS!Next

\* What a step leaves the device, or changes on it, is what Namespace allows.
LEMMA NamesStep ==
    ASSUME FsInv, FsInv', NamesInv,
           (NamesInv' /\ UNCHANGED disk) \/ Flush \/ UNCHANGED vars
    PROVE  NamesInv' /\ [NS!Next]_Bound
  <1>1. NamesInv' /\ \/ \E b \in Listing : OneBinding(disk, b, disk')
                     \/ BindSet(disk') = BindSet(disk)
    <2>1. CASE NamesInv' /\ UNCHANGED disk
      BY <2>1
    <2>2. CASE UNCHANGED vars
      BY <2>2 DEF vars, NamesInv
    <2> QED BY <2>1, <2>2, FlushNames
  <1>2. disk \in Disks /\ disk' \in Disks
    <2>1. disk \in Disks
      BY LeadsEnds DEF FsInv, Reaches, GoodDisks
    <2>2. disk' \in Disks
      BY LeadsEnds DEF FsInv, Reaches, GoodDisks
    <2> QED BY <2>1, <2>2
  <1>3. Bound = BindSet(disk)
    BY <1>2, BindingsNow DEF Bound
  <1>4. Bound' = BindSet(disk')
    BY <1>1, <1>2, BindingsNext DEF Bound
  <1>5. CASE \E b \in Listing : OneBinding(disk, b, disk')
    BY <1>1, <1>3, <1>4, <1>5, OneBindingIsStep
  <1>6. CASE BindSet(disk') = BindSet(disk)
    BY <1>1, <1>3, <1>4, <1>6
  <1> QED BY <1>1, <1>5, <1>6

\* Every operation of the file system on files, and its crashes.
LEMMA FsNames ==
    ASSUME MakeDirs = FALSE, TypeBits = FALSE, FsInv, NamesInv, [Next]_vars
    PROVE  NamesInv' /\ [NS!Next]_Bound
  <1>1. FsInv'
    BY StepInv
  <1>2. CASE Handling \/ Crash
    BY <1>1, <1>2, HandlingNames, NamesStep
  <1>3. ASSUME NEW p \in Paths, NEW k \in 0 .. Reach, NEW x \in Units,
               fs_write(p, k, [u \in 1 .. BLOCK_SIZE |-> x])
        PROVE  NamesInv' /\ UNCHANGED disk
    <2> DEFINE d == [u \in 1 .. BLOCK_SIZE |-> x]
    <2>1. d \in Seq(Units) /\ Len(d) <= BLOCK_SIZE /\ k \in 0 .. MaxFile
      BY Sizes
    <2> HIDE DEF d
    <2> QED BY <1>3, <2>1, WriteNames DEF d
  <1>4. CASE Flush \/ UNCHANGED vars
    BY <1>1, <1>4, NamesStep
  <1>5. CASE Command
    <2>1. \/ Handling
          \/ \E p \in Paths, k \in 0 .. Reach, x \in Units :
                 fs_write(p, k, [u \in 1 .. BLOCK_SIZE |-> x])
      BY <1>5 DEF Command, Handling
    <2> QED BY <1>1, <1>2, <1>3, <2>1, NamesStep
  <1> QED BY <1>2, <1>4, <1>5 DEF Next

LEMMA ShellNames ==
    ASSUME MakeDirs = FALSE, TypeBits = FALSE, ShellInv, NamesInv, [ShellNext]_svars
    PROVE  NamesInv' /\ [NS!Next]_Bound
  <1>1. FsInv /\ LoopTypes /\ FsInv'
    BY ShellStepInv DEF ShellInv
  <1>2. CASE Handling
    BY <1>1, <1>2, HandlingNames, NamesStep
  <1>3. CASE Flush \/ UNCHANGED vars
    BY <1>1, <1>3, NamesStep
  <1>4. ASSUME NEW p \in Paths, NEW k \in 0 .. MaxFile, NEW d \in Chunks,
               Storing(p, k, d) \/ Failing(p, k)
        PROVE  NamesInv' /\ [NS!Next]_Bound
    <2>1. fs_write(p, k, d) /\ d \in Seq(Units) /\ Len(d) <= BLOCK_SIZE
      BY <1>4 DEF Storing, Failing, fs_write, Chunks
    <2> QED BY <1>1, <2>1, WriteNames, NamesStep
  <1>5. CASE UNCHANGED svars
    BY <1>3, <1>5 DEF svars
  <1> QED BY <1>1, <1>2, <1>3, <1>4, <1>5, ShellSteps

\* While no directory is made, removed or made a file by chmod, the file system
\* keeps the promise of Namespace on the device, whenever it is killed and
\* started again: each write adds, removes or renames at most one binding of a
\* name, a name is bound once, and every other binding stays (fs_mknod,
\* fs_unlink, fs_rename).  With crashes this holds as far as the model goes: up
\* to an operation that would take a file's bytes for pointers.
THEOREM FilesKeepNamespace ==
    ASSUME MakeDirs = FALSE, TypeBits = FALSE
    PROVE  Spec => ImplementsNamespace
  <1>1. Init => NamesInv /\ NS!Init
    BY NamesStart, NamespaceStart
  <1>2. FsInv /\ NamesInv /\ [Next]_vars => NamesInv' /\ [NS!Next]_Bound
    BY FsNames
  <1> QED BY <1>1, <1>2, FsInvariant, PTL DEF Spec, ImplementsNamespace, NS!Spec, Bound

\* The same for the commands of the interpreter, chmod with permissions among
\* them: a put that writes a file of
\* any length, or stops for want of a block, never touches another's name.
THEOREM CommandsKeepNamespace ==
    ASSUME MakeDirs = FALSE, TypeBits = FALSE
    PROVE  ShellSpec => ImplementsNamespace
  <1>1. ShellInit => NamesInv /\ NS!Init
    BY NamesStart, NamespaceStart DEF ShellInit
  <1>2. ShellInv /\ NamesInv /\ [ShellNext]_svars => NamesInv' /\ [NS!Next]_Bound
    BY ShellNames
  <1> QED BY <1>1, <1>2, ShellInvariant, PTL
             DEF ShellSpec, ImplementsNamespace, NS!Spec, Bound

-----------------------------------------------------------------------------
(* Where a list of writes leads, part by part. *)

LEMMA LeadsSplit ==
    ASSUME NEW S, NEW d, NEW v \in Seq(S), NEW w \in Seq(S), NEW f, Leads(d, v \o w, f)
    PROVE  \E e \in GoodDisks : Leads(d, v, e) /\ Leads(e, w, f)
  <1> DEFINE m == Len(v)
             n == Len(w)
             ws == v \o w
  <1>1. /\ m \in Nat /\ n \in Nat /\ Len(ws) = m + n
        /\ \A k \in 1 .. m : ws[k] = v[k]
        /\ \A k \in 1 .. n : ws[m + k] = w[k]
    OBVIOUS
  <1>0. v \in Seq(Writes) /\ w \in Seq(Writes)
    <2>1. ws \in Seq(Writes)
      BY DEF Leads
    <2> HIDE DEF ws
    <2>2. \A k \in 1 .. m : v[k] \in Writes
      BY <1>1, <2>1
    <2>3. \A k \in 1 .. n : w[k] \in Writes
      <3>1. \A k \in 1 .. n : m + k \in 1 .. Len(ws)
        BY <1>1
      <3> QED BY <1>1, <2>1, <3>1
    <2> QED BY <2>2, <2>3
  <1>2. PICK ds \in [0 .. m + n -> GoodDisks] :
            /\ ds[0] = d /\ ds[m + n] = f
            /\ \A k \in 1 .. m + n : ds[k] = Written(ds[k - 1], ws[k])
    BY <1>1 DEF Leads
  <1> DEFINE vs == [k \in 0 .. m |-> ds[k]]
             us == [k \in 0 .. n |-> ds[m + k]]
  <1> HIDE DEF m, n, ws
  <1>3. /\ vs \in [0 .. m -> GoodDisks] /\ vs[0] = d /\ vs[m] = ds[m]
        /\ us \in [0 .. n -> GoodDisks] /\ us[0] = ds[m] /\ us[n] = f
        /\ ds[m] \in GoodDisks
    BY <1>1, <1>2
  <1>4. ASSUME NEW k \in 1 .. m PROVE vs[k] = Written(vs[k - 1], v[k])
    <2>1. k \in 1 .. m + n /\ vs[k] = ds[k] /\ vs[k - 1] = ds[k - 1] /\ ws[k] = v[k]
      BY <1>1
    <2> HIDE DEF vs
    <2> QED BY <1>2, <2>1
  <1>5. ASSUME NEW k \in 1 .. n PROVE us[k] = Written(us[k - 1], w[k])
    <2>1. /\ m + k \in 1 .. m + n /\ us[k] = ds[m + k] /\ us[k - 1] = ds[(m + k) - 1]
          /\ ws[m + k] = w[k]
      BY <1>1
    <2> HIDE DEF us
    <2> QED BY <1>2, <2>1
  <1> HIDE DEF vs, us
  <1>6. Leads(d, v, ds[m]) /\ Leads(ds[m], w, f)
    BY <1>0, <1>3, <1>4, <1>5 DEF Leads, m, n
  <1> QED BY <1>3, <1>6

LEMMA LeadsStep ==
    ASSUME NEW d \in GoodDisks, NEW w, NEW e \in GoodDisks, Leads(d, <<w>>, e)
    PROVE  d \in Disks /\ e = Written(d, w)
  <1>1. d \in Disks
    BY LeadsEnds DEF GoodDisks
  <1> DEFINE ws == <<w>>
  <1>2. Len(ws) = 1 /\ ws[1] = w
    OBVIOUS
  <1> HIDE DEF ws
  <1>3. PICK ds \in [0 .. 1 -> GoodDisks] :
            ds[0] = d /\ ds[1] = e /\ \A k \in 1 .. 1 : ds[k] = Written(ds[k - 1], ws[k])
    BY <1>2 DEF Leads, ws
  <1>4. 1 \in 1 .. 1 /\ 1 - 1 = 0
    OBVIOUS
  <1> QED BY <1>1, <1>2, <1>3, <1>4

LEMMA BlockWriteTypes ==
    ASSUME NEW d, NEW b, NEW v, NEW e, Leads(d, <<BlkWrite(b, v)>>, e)
    PROVE  b \in Blocks /\ v \in BlockType
  <1> DEFINE w == BlkWrite(b, v)
             ws == <<w>>
  <1>1. ws \in Seq(Writes) /\ Len(ws) = 1 /\ ws[1] = w
    BY LeadsEnds
  <1>2. w.at = "block" /\ w.no = b /\ w.val = v
    BY DEF BlkWrite
  <1> HIDE DEF w, ws
  <1>3. w \in Writes
    BY <1>1
  <1> QED BY <1>2, <1>3 DEF Writes

LEMMA AfterBlock ==
    ASSUME NEW d \in GoodDisks, NEW b \in Blocks, NEW v \in BlockType, NEW e \in GoodDisks,
           Leads(d, <<BlkWrite(b, v)>>, e)
    PROVE  /\ d.blk \in [Blocks -> BlockType]
           /\ e.imap = d.imap /\ e.itab = d.itab
           /\ \A c \in Blocks : e.blk[c] = IF c = b THEN v ELSE d.blk[c]
  <1> DEFINE w == BlkWrite(b, v)
  <1>1. d \in Disks /\ e = Written(d, w)
    <2> HIDE DEF w
    <2> QED BY LeadsStep DEF w
  <1>2. /\ e.imap = d.imap /\ e.itab = d.itab
        /\ e.blk = [d.blk EXCEPT ![b] = v]
    BY <1>1, WriteOfBlock DEF w
  <1>3. d.blk \in [Blocks -> BlockType]
    BY <1>1, DiskFields
  <1> QED BY <1>2, <1>3

LEMMA AfterMap ==
    ASSUME NEW d \in GoodDisks, NEW m \in Cores, NEW e \in GoodDisks, Leads(d, update_blk(m), e)
    PROVE  e.imap = d.imap /\ e.itab = d.itab /\ e.blk = d.blk
  <1> DEFINE w == [at |-> "bmap", no |-> 2, val |-> m.bmap]
  <1>1. Leads(d, <<w>>, e)
    BY DEF update_blk
  <1>2. m.bmap \in SUBSET Blocks
    BY CoreFields
  <1> HIDE DEF w
  <1>3. d \in Disks /\ e = Written(d, w)
    BY <1>1, LeadsStep
  <1> QED BY <1>2, <1>3, WriteOfBmap DEF w

LEMMA AfterInode ==
    ASSUME NEW d \in GoodDisks, NEW m \in Cores, NEW i \in Inodes, NEW e \in GoodDisks,
           \A j \in Inodes : j # i => d.itab[j] = m.itab[j],
           Leads(d, update_inode(m, i), e)
    PROVE  e.imap = m.imap /\ e.itab = m.itab /\ e.blk = d.blk
  <1> DEFINE u == [at |-> "itab", no |-> i \div PerBlock, val |-> InodeBlock(m, i \div PerBlock)]
             w == [at |-> "imap", no |-> 1, val |-> m.imap]
  <1>1. u \in Writes /\ w \in Writes /\ m.imap \in SUBSET Inodes
    BY WriteTypes, Sizes, EmptyTypes, CoreFields
  <1>2. update_inode(m, i) = <<u>> \o <<w>>
    BY <1>1 DEF update_inode
  <1> DEFINE a == <<u>>
             b == <<w>>
  <1>3. a \in Seq(Writes) /\ b \in Seq(Writes)
    BY <1>1
  <1> HIDE DEF a, b
  <1>4. PICK c \in GoodDisks : Leads(d, a, c) /\ Leads(c, b, e)
    BY <1>2, <1>3, LeadsSplit DEF a, b
  <1> HIDE DEF u, w
  <1>5. d \in Disks /\ c = Written(d, u) /\ c \in Disks /\ e = Written(c, w)
    BY <1>4, LeadsStep DEF a, b
  <1>6. c.imap = d.imap /\ c.itab = m.itab /\ c.blk = d.blk
    BY <1>5, WriteOfInode DEF u
  <1>7. e.imap = m.imap /\ e.itab = c.itab /\ e.blk = c.blk
    BY <1>1, <1>5, WriteOfImap DEF w
  <1> QED BY <1>6, <1>7

\* The pointers and the data of all blocks are the same, whatever the entries.
SameStore(d, e) == \A b \in Blocks : /\ e.blk[b].ptrs = d.blk[b].ptrs
                                     /\ e.blk[b].data = d.blk[b].data

LEMMA AfterEntries ==
    ASSUME NEW d \in GoodDisks, NEW b, NEW v, NEW e \in GoodDisks, Leads(d, <<BlkWrite(b, v)>>, e),
           d.blk[b] \in BlockType => v.ptrs = d.blk[b].ptrs /\ v.data = d.blk[b].data
    PROVE  e.imap = d.imap /\ e.itab = d.itab /\ SameStore(d, e)
  <1>1. b \in Blocks /\ v \in BlockType
    BY BlockWriteTypes
  <1>2. /\ d.blk \in [Blocks -> BlockType]
        /\ e.imap = d.imap /\ e.itab = d.itab
        /\ \A c \in Blocks : e.blk[c] = IF c = b THEN v ELSE d.blk[c]
    BY <1>1, AfterBlock
  <1> QED BY <1>1, <1>2 DEF SameStore

LEMMA OtherEntries ==
    ASSUME NEW v \in BlockType, NEW x
    PROVE  LET y == [v EXCEPT !.ents = x]
           IN  y.ptrs = v.ptrs /\ y.data = v.data /\ y.ents = x
  BY DEF BlockType

-----------------------------------------------------------------------------
(* What the device holds when the writes of a handler are through. *)

LEMMA AfterAttributes ==
    ASSUME FsInv, Ready, NEW i \in Inodes, NEW e \in GoodDisks, Leads(disk, update_inode(core, i), e)
    PROVE  e.imap = core.imap /\ e.itab = core.itab /\ SameStore(disk, e)
  <1>1. core \in Cores /\ disk.itab = core.itab /\ disk \in GoodDisks
    BY ReadyFacts
  <1> DEFINE m == core
  <1>2. m \in Cores /\ \A j \in Inodes : j # i => disk.itab[j] = m.itab[j]
    BY <1>1
  <1>4. Leads(disk, update_inode(m, i), e)
    OBVIOUS
  <1> HIDE DEF m
  <1>5. e.imap = m.imap /\ e.itab = m.itab /\ e.blk = disk.blk
    BY <1>1, <1>2, <1>4, AfterInode
  <1>3. e.imap = core.imap /\ e.itab = core.itab /\ e.blk = disk.blk
    BY <1>5 DEF m
  <1> QED BY <1>3 DEF SameStore

LEMMA AfterRename ==
    ASSUME FsInv, Ready, NEW p, NEW q, NEW e \in GoodDisks, Leads(disk, <<Renamed(p, q)>>, e)
    PROVE  e.imap = disk.imap /\ e.itab = core.itab /\ SameStore(disk, e)
  <1> DEFINE b == DirBlk(translate_1(p))
             x == Relabelled(disk.blk[b].ents, Leaf(p), Leaf(q))
             v == [disk.blk[b] EXCEPT !.ents = x]
  <1>1. disk.itab = core.itab /\ disk \in GoodDisks
    BY ReadyFacts
  <1>2. Leads(disk, <<BlkWrite(b, v)>>, e)
    BY DEF Renamed
  <1>3. disk.blk[b] \in BlockType => v.ptrs = disk.blk[b].ptrs /\ v.data = disk.blk[b].data
    BY OtherEntries
  <1> HIDE DEF v
  <1> QED BY <1>1, <1>2, <1>3, AfterEntries

LEMMA AfterTruncate ==
    ASSUME FsInv, Ready, NEW i \in Inodes, i # 0, ~IsDir(i), core.itab[i].kind # "none",
           NEW e \in GoodDisks, Leads(disk, TruncateWrites(i), e)
    PROVE  e.imap = core.imap /\ e.itab = Truncated(i).itab /\ e.blk = disk.blk
  <1> DEFINE m == Truncated(i)
             u == update_inode(m, i)
             v == update_blk(m)
  <1>1. /\ m \in Cores /\ m.imap = core.imap
        /\ \A j \in Inodes : j # i => m.itab[j] = core.itab[j]
    BY TruncateLeads
  <1>2. disk.itab = core.itab /\ disk \in GoodDisks
    BY ReadyFacts
  <1> HIDE DEF m
  <1>3. u \in Seq(Writes) /\ v \in Seq(Writes)
    BY <1>1, UpdateTypes
  <1>4. Leads(disk, u \o v, e)
    BY DEF TruncateWrites, m
  <1> HIDE DEF u, v
  <1>5. PICK c \in GoodDisks : Leads(disk, u, c) /\ Leads(c, v, e)
    BY <1>3, <1>4, LeadsSplit
  <1>6. c.imap = m.imap /\ c.itab = m.itab /\ c.blk = disk.blk
    BY <1>1, <1>2, <1>5, AfterInode DEF u
  <1>7. e.imap = c.imap /\ e.itab = c.itab /\ e.blk = c.blk
    BY <1>1, <1>5, AfterMap DEF v
  <1> QED BY <1>1, <1>6, <1>7 DEF m

LEMMA AfterUnlink ==
    ASSUME FsInv, Ready, NEW p \in Paths, translate(p) # 0, ~IsDir(translate(p)), NEW e \in GoodDisks,
           LET i == translate(p)
               m == Cleared(Truncated(i), i)
           IN  Leads(disk, TruncateWrites(i)
                              \o <<Unlisted(DirBlk(translate_1(p)), Leaf(p))>>
                              \o update_inode(m, i) \o update_blk(m), e)
    PROVE  LET i == translate(p)
               m == Cleared(Truncated(i), i)
           IN  e.imap = core.imap \ {i} /\ e.itab = m.itab /\ SameStore(disk, e)
  <1> DEFINE i == translate(p)
             n == Truncated(i)
             m == Cleared(n, i)
             t == TruncateWrites(i)
             l == <<Unlisted(DirBlk(translate_1(p)), Leaf(p))>>
             u == update_inode(m, i)
             v == update_blk(m)
  <1>0. Leads(disk, ((t \o l) \o u) \o v, e)
    OBVIOUS
  <1>1. i \in Inodes /\ i # 0 /\ ~IsDir(i) /\ core.itab[i].kind # "none"
    BY TranslateFacts, ReadyFacts
  <1> HIDE DEF i
  <1>2. n \in Cores /\ n.imap = core.imap
    BY <1>1, TruncateLeads
  <1>3. /\ m \in Cores /\ m.imap = core.imap \ {i}
        /\ \A j \in Inodes : j # i => m.itab[j] = n.itab[j]
    BY <1>1, <1>2, ClearedCore
  <1> HIDE DEF n, m
  <1>4. u \in Seq(Writes) /\ v \in Seq(Writes)
    BY <1>1, <1>3, UpdateTypes
  <1>5. t \in Seq(Writes)
    BY <1>1, <1>2, UpdateTypes DEF TruncateWrites, n
  <1> DEFINE S == Writes \cup {Unlisted(DirBlk(translate_1(p)), Leaf(p))}
  <1>6. t \in Seq(S) /\ l \in Seq(S) /\ u \in Seq(S) /\ v \in Seq(S)
    BY <1>4, <1>5
  <1> HIDE DEF t, l, u, v, S
  <1>7. PICK a \in GoodDisks : Leads(disk, (t \o l) \o u, a) /\ Leads(a, v, e)
    <2>1. (t \o l) \o u \in Seq(S)
      BY <1>6
    <2> QED BY <1>0, <1>6, <2>1, LeadsSplit
  <1>8. PICK b \in GoodDisks : Leads(disk, t \o l, b) /\ Leads(b, u, a)
    <2>1. t \o l \in Seq(S)
      BY <1>6
    <2> QED BY <1>6, <1>7, <2>1, LeadsSplit
  <1>9. PICK c \in GoodDisks : Leads(disk, t, c) /\ Leads(c, l, b)
    BY <1>6, <1>8, LeadsSplit
  <1>10. c.imap = core.imap /\ c.itab = n.itab /\ c.blk = disk.blk
    BY <1>1, <1>9, AfterTruncate DEF t, n
  <1>11. b.imap = c.imap /\ b.itab = c.itab /\ SameStore(c, b)
    <2> DEFINE q == DirBlk(translate_1(p))
               x == Erased(disk.blk[q].ents, Leaf(p))
               y == [disk.blk[q] EXCEPT !.ents = x]
    <2>1. l = <<BlkWrite(q, y)>>
      BY DEF l, Unlisted
    <2>2. disk.blk[q] \in BlockType => y.ptrs = disk.blk[q].ptrs /\ y.data = disk.blk[q].data
      BY OtherEntries
    <2> HIDE DEF y, q
    <2>3. Leads(c, <<BlkWrite(q, y)>>, b)
      BY <1>9, <2>1
    <2> QED BY <1>10, <2>2, <2>3, AfterEntries
  <1>12. a.imap = m.imap /\ a.itab = m.itab /\ a.blk = b.blk
    <2>1. \A j \in Inodes : j # i => b.itab[j] = m.itab[j]
      BY <1>3, <1>10, <1>11
    <2> QED BY <1>1, <1>3, <1>8, <2>1, AfterInode DEF u
  <1>13. e.imap = a.imap /\ e.itab = a.itab /\ e.blk = a.blk
    BY <1>3, <1>7, AfterMap DEF v
  <1>14. SameStore(disk, e)
    BY <1>10, <1>11, <1>12, <1>13 DEF SameStore
  <1> QED BY <1>3, <1>12, <1>13, <1>14 DEF i, n, m

LEMMA AfterMake ==
    ASSUME FsInv, NEW p \in Paths, CanMake(p), FreeInodes # {}, NEW e \in GoodDisks,
           LET parent == translate_1(p)
               i == Min(FreeInodes)
               m == Made(i, "file")
               slot == find_free_dir(Dirents(parent))
           IN  Leads(disk, update_inode(m, i) \o update_blk(m)
                  \o <<BlkWrite(DirBlk(parent),
                                [disk.blk[DirBlk(parent)] EXCEPT
                                    !.ents[slot] = [name |-> Leaf(p), inode |-> i]])>>, e)
    PROVE  LET parent == translate_1(p)
               b == DirBlk(parent)
               i == Min(FreeInodes)
               m == Made(i, "file")
               slot == find_free_dir(Dirents(parent))
           IN  /\ e.imap = core.imap \cup {i} /\ e.itab = m.itab /\ SameStore(disk, e)
               /\ \A c \in Blocks \ {b} : e.blk[c] = disk.blk[c]
               /\ e.blk[b].ents = [disk.blk[b].ents EXCEPT
                                      ![slot] = [name |-> Leaf(p), inode |-> i]]
  <1> DEFINE parent == translate_1(p)
             b == DirBlk(parent)
             i == Min(FreeInodes)
             m == Made(i, "file")
             slot == find_free_dir(Dirents(parent))
             y == [disk.blk[b].ents EXCEPT ![slot] = [name |-> Leaf(p), inode |-> i]]
             v == [disk.blk[b] EXCEPT !.ents = y]
             u == update_inode(m, i)
             w == update_blk(m)
             l == <<BlkWrite(b, v)>>
  <1>0. Leads(disk, (u \o w) \o l, e)
    OBVIOUS
  <1>1. core \in Cores /\ disk.itab = core.itab /\ disk \in GoodDisks /\ i \in Inodes
    BY ReadyFacts, FreeInodeFacts DEF CanMake
  <1> HIDE DEF i
  <1>2. /\ m \in Cores /\ m.imap = core.imap \cup {i}
        /\ \A j \in Inodes : j # i => m.itab[j] = core.itab[j]
    <2>1. "file" \in {"file", "dir"}
      OBVIOUS
    <2> QED BY <1>1, <2>1, MadeFacts
  <1> HIDE DEF m
  <1>3. u \in Seq(Writes) /\ w \in Seq(Writes)
    BY <1>1, <1>2, UpdateTypes
  <1> HIDE DEF v
  <1> DEFINE S == Writes \cup {BlkWrite(b, v)}
  <1>4. u \in Seq(S) /\ w \in Seq(S) /\ l \in Seq(S)
    BY <1>3
  <1> HIDE DEF u, w, l, S
  <1>5. PICK a \in GoodDisks : Leads(disk, u \o w, a) /\ Leads(a, l, e)
    <2>1. u \o w \in Seq(S)
      BY <1>4
    <2> QED BY <1>0, <1>4, <2>1, LeadsSplit
  <1>6. PICK c \in GoodDisks : Leads(disk, u, c) /\ Leads(c, w, a)
    BY <1>4, <1>5, LeadsSplit
  <1>7. c.imap = m.imap /\ c.itab = m.itab /\ c.blk = disk.blk
    BY <1>1, <1>2, <1>6, AfterInode DEF u
  <1>8. a.imap = c.imap /\ a.itab = c.itab /\ a.blk = c.blk
    BY <1>2, <1>6, AfterMap DEF w
  <1>9. e.imap = a.imap /\ e.itab = a.itab /\ SameStore(a, e)
    <2>1. Leads(a, <<BlkWrite(b, v)>>, e)
      BY <1>5 DEF l
    <2>2. disk.blk[b] \in BlockType => v.ptrs = disk.blk[b].ptrs /\ v.data = disk.blk[b].data
      BY OtherEntries DEF v
    <2> HIDE DEF b
    <2> QED BY <1>7, <1>8, <2>1, <2>2, AfterEntries
  <1>15. b \in Blocks /\ v \in BlockType
    BY <1>5, BlockWriteTypes DEF l
  <1>10. /\ a.blk \in [Blocks -> BlockType]
         /\ \A x \in Blocks : e.blk[x] = IF x = b THEN v ELSE a.blk[x]
    BY <1>5, <1>15, AfterBlock DEF l
  <1>11. a.blk = disk.blk
    BY <1>7, <1>8
  <1>12. \A x \in Blocks \ {b} : e.blk[x] = disk.blk[x]
    BY <1>10, <1>11
  <1>13. e.blk[b].ents = y
    <2>1. disk.blk[b] \in BlockType
      BY <1>10, <1>11, <1>15
    <2>2. v.ents = y
      BY <2>1, OtherEntries DEF v
    <2> HIDE DEF y, b
    <2> QED BY <1>10, <1>15, <2>2
  <1>14. SameStore(disk, e)
    BY <1>7, <1>8, <1>9 DEF SameStore
  <1> QED BY <1>2, <1>7, <1>8, <1>9, <1>12, <1>13, <1>14 DEF i, m

LEMMA FreshDiffer ==
    ASSUME core \in Cores, NEW m \in Nat, NEW n \in Nat, m > 0, n > 0,
           NthFree(n) # ENOSPC, NthFree(m) = NthFree(n)
    PROVE  m = n
  <1>1. ~(m > Cardinality(FreeBlks)) /\ ~(n > Cardinality(FreeBlks))
    BY NthFreeFacts
  <1>2. Cardinality(FreeBlks \cap 0 .. NthFree(m)) = m
    BY <1>1, NthFreeFacts
  <1>3. Cardinality(FreeBlks \cap 0 .. NthFree(n)) = n
    BY <1>1, NthFreeFacts
  <1> QED BY <1>2, <1>3

\* What is missing on a way is completed with different free blocks.
LEMMA CompletedApart ==
    ASSUME core \in Cores, NEW n \in Nat, NEW y \in [1 .. n -> Blocks]
    PROVE  LET z == Completed(y)
           IN  /\ \A j \in 1 .. n : y[j] = 0 /\ z[j] # ENOSPC => z[j] \in FreeBlks
               /\ \A j, l \in 1 .. n :
                     y[j] = 0 /\ y[l] = 0 /\ z[j] # ENOSPC /\ z[j] = z[l] => j = l
  <1> DEFINE z == Completed(y)
             M(j) == {m \in 1 .. j : y[m] = 0}
             c(j) == Cardinality(M(j))
  <1>1. z = [j \in 1 .. n |-> IF y[j] # 0 THEN y[j] ELSE NthFree(c(j))]
    BY DEF Completed
  <1>2. ASSUME NEW j \in 1 .. n, y[j] = 0
        PROVE  /\ IsFiniteSet(M(j)) /\ c(j) \in Nat /\ c(j) > 0
    <2>1. IsFiniteSet(1 .. j) /\ M(j) \subseteq 1 .. j
      BY FS_Interval
    <2>2. M(j) # {}
      BY <1>2
    <2> HIDE DEF M
    <2> QED BY <2>1, <2>2, FS_Subset, FS_CardinalityType, FS_EmptySet
  <1>3. ASSUME NEW j \in 1 .. n, NEW l \in 1 .. n, y[j] = 0, y[l] = 0, j < l
        PROVE  c(j) # c(l)
    <2>1. M(j) \subseteq M(l) /\ l \in M(l) /\ l \notin M(j)
      BY <1>3
    <2> HIDE DEF M
    <2>2. M(j) # M(l)
      BY <2>1
    <2> QED BY <1>2, <1>3, <2>1, <2>2, FS_Subset
  <1> HIDE DEF c
  <1>4. ASSUME NEW j \in 1 .. n, y[j] = 0
        PROVE  /\ z[j] = NthFree(c(j)) /\ (z[j] # ENOSPC => z[j] \in FreeBlks)
    <2>1. z[j] = NthFree(c(j))
      BY <1>1, <1>4
    <2> HIDE DEF z
    <2>2. NthFree(c(j)) # ENOSPC => NthFree(c(j)) \in FreeBlks
      BY <1>2, <1>4, NthFreeFacts
    <2> QED BY <2>1, <2>2
  <1> HIDE DEF z
  <1>5. ASSUME NEW j \in 1 .. n, NEW l \in 1 .. n, y[j] = 0, y[l] = 0,
               z[j] # ENOSPC, z[j] = z[l]
        PROVE  j = l
    <2>1. c(j) = c(l)
      BY <1>2, <1>4, <1>5, FreshDiffer
    <2> QED BY <1>3, <1>5, <2>1
  <1> QED BY <1>4, <1>5 DEF z

-----------------------------------------------------------------------------
(* The places a block is named from. *)

FileNodes == Inodes \ {Root, HomeNode}
V(d, i, a) == PointerAt(d, d.itab[i], a)
Held(d) == {V(d, i, a) : i \in FileNodes, a \in Places} \ {0}

\* The device d with the map M and the forgotten blocks L: nodes in use are
\* marked, others are empty; no block is named from two places, or from one
\* place and otherwise needed; all others are free.
Kept(d, M, L) ==
    /\ \A i \in Inodes : /\ d.itab[i].kind # "none" => i \in d.imap
                         /\ d.itab[i].kind = "none" => d.itab[i] = NoInode
    /\ \A i, j \in FileNodes, a, b \in Places :
           V(d, i, a) # 0 /\ V(d, i, a) = V(d, j, b) => i = j /\ a = b
    /\ Held(d) \cap (Meta \cup Listing \cup L) = {}
    /\ L \cap (Meta \cup Listing) = {}
    /\ M = Meta \cup Listing \cup L \cup Held(d)

\* The kinds of places.
AtDirect(k)   == <<"direct", k, 0>>
AtIndir1      == <<"indir_1", 0, 0>>
AtIndir2      == <<"indir_2", 0, 0>>
AtFirst(p)    == <<"first", p, 0>>
AtSecond(p)   == <<"second", p, 0>>
AtThird(p, q) == <<"third", p, q>>

\* The places of the way to block k.
WayPlace(k) ==
    CASE k < N_DIRECT                  -> <<AtDirect(k)>>
      [] k \in N_DIRECT .. MaxFile - 1 -> <<AtIndir1, AtFirst(Slot(k))>>
      [] k = MaxFile                   -> <<AtIndir2, AtSecond(0), AtThird(0, 0)>>

LEMMA PlaceFacts ==
    /\ \A k \in 0 .. N_DIRECT - 1 : AtDirect(k) \in Places
    /\ AtIndir1 \in Places /\ AtIndir2 \in Places
    /\ \A p \in 0 .. Pointers - 1 : AtFirst(p) \in Places /\ AtSecond(p) \in Places
    /\ \A p, q \in 0 .. Pointers - 1 : AtThird(p, q) \in Places
    /\ \A a \in Places :
          \/ \E k \in 0 .. N_DIRECT - 1 : a = AtDirect(k)
          \/ a = AtIndir1
          \/ a = AtIndir2
          \/ \E p \in 0 .. Pointers - 1 : a = AtFirst(p)
          \/ \E p \in 0 .. Pointers - 1 : a = AtSecond(p)
          \/ \E p, q \in 0 .. Pointers - 1 : a = AtThird(p, q)
  BY DEF Places, AtDirect, AtIndir1, AtIndir2, AtFirst, AtSecond, AtThird

LEMMA PlacesDiffer ==
    /\ \A k, l \in 0 .. N_DIRECT - 1 : AtDirect(k) = AtDirect(l) => k = l
    /\ \A p, q \in 0 .. Pointers - 1 : /\ AtFirst(p) = AtFirst(q) => p = q
                                       /\ AtSecond(p) = AtSecond(q) => p = q
    /\ \A p, q, r, s \in 0 .. Pointers - 1 :
          AtThird(p, q) = AtThird(r, s) => p = r /\ q = s
    /\ AtIndir1 # AtIndir2
    /\ \A k \in 0 .. N_DIRECT - 1 : /\ AtDirect(k) # AtIndir1 /\ AtDirect(k) # AtIndir2
                                    /\ \A p \in 0 .. Pointers - 1 :
                                          /\ AtDirect(k) # AtFirst(p)
                                          /\ AtDirect(k) # AtSecond(p)
                                          /\ \A q \in 0 .. Pointers - 1 :
                                                AtDirect(k) # AtThird(p, q)
    /\ \A p \in 0 .. Pointers - 1 : /\ AtFirst(p) # AtIndir1 /\ AtFirst(p) # AtIndir2
                                    /\ AtSecond(p) # AtIndir1 /\ AtSecond(p) # AtIndir2
    /\ \A p, q \in 0 .. Pointers - 1 : /\ AtFirst(p) # AtSecond(q)
                                       /\ AtThird(p, q) # AtIndir1 /\ AtThird(p, q) # AtIndir2
                                       /\ \A r \in 0 .. Pointers - 1 :
                                             /\ AtFirst(r) # AtThird(p, q)
                                             /\ AtSecond(r) # AtThird(p, q)
  BY DEF AtDirect, AtIndir1, AtIndir2, AtFirst, AtSecond, AtThird

LEMMA PointerFacts ==
    ASSUME NEW d \in Disks, NEW x \in InodeType
    PROVE  /\ \A k \in 0 .. N_DIRECT - 1 : PointerAt(d, x, AtDirect(k)) = x.direct[k]
           /\ PointerAt(d, x, AtIndir1) = x.indir_1
           /\ PointerAt(d, x, AtIndir2) = x.indir_2
           /\ \A p \in 0 .. Pointers - 1 : PointerAt(d, x, AtFirst(p)) = Behind(d, x.indir_1, p)
           /\ \A p \in 0 .. Pointers - 1 : PointerAt(d, x, AtSecond(p)) = Behind(d, x.indir_2, p)
           /\ \A p, q \in 0 .. Pointers - 1 :
                 PointerAt(d, x, AtThird(p, q)) = Behind(d, Behind(d, x.indir_2, p), q)
  BY DEF PointerAt, AtDirect, AtIndir1, AtIndir2, AtFirst, AtSecond, AtThird

LEMMA BehindTypes ==
    ASSUME NEW d \in Disks, NEW b \in Blocks, NEW p \in 0 .. Pointers - 1
    PROVE  Behind(d, b, p) \in Blocks
  <1>1. d.blk \in [Blocks -> BlockType] /\ 0 \in Blocks
    BY DiskFields, Sizes
  <1> QED BY <1>1 DEF Behind, BlockType

LEMMA PointerTypes ==
    ASSUME NEW d \in Disks, NEW x \in InodeType, NEW a \in Places
    PROVE  PointerAt(d, x, a) \in Blocks
  <1>3. /\ \A k \in 0 .. N_DIRECT - 1 : x.direct[k] \in Blocks
        /\ x.indir_1 \in Blocks /\ x.indir_2 \in Blocks
    BY DEF InodeType
  <1>5. ASSUME NEW k \in 0 .. N_DIRECT - 1, a = AtDirect(k)
        PROVE  PointerAt(d, x, a) \in Blocks
    BY <1>3, <1>5, PointerFacts
  <1>6. CASE a = AtIndir1 \/ a = AtIndir2
    BY <1>3, <1>6, PointerFacts
  <1>7. ASSUME NEW p \in 0 .. Pointers - 1, a = AtFirst(p) \/ a = AtSecond(p)
        PROVE  PointerAt(d, x, a) \in Blocks
    BY <1>3, <1>7, BehindTypes, PointerFacts
  <1>8. ASSUME NEW p \in 0 .. Pointers - 1, NEW q \in 0 .. Pointers - 1, a = AtThird(p, q)
        PROVE  PointerAt(d, x, a) \in Blocks
    BY <1>3, <1>8, BehindTypes, PointerFacts
  <1> QED BY <1>5, <1>6, <1>7, <1>8, PlaceFacts

LEMMA WayPlaces ==
    ASSUME NEW k \in 0 .. MaxFile
    PROVE  /\ WayPlace(k) \in [1 .. Depth(k) -> Places]
           /\ \A j, l \in 1 .. Depth(k) : WayPlace(k)[j] = WayPlace(k)[l] => j = l
           /\ Depth(k) \in 1 .. 3 /\ (Depth(k) > 1 => Slot(k) \in 0 .. Pointers - 1)
           /\ Depth(k) = 1 => k \in 0 .. N_DIRECT - 1 /\ WayPlace(k)[1] = AtDirect(k)
           /\ Depth(k) = 2 => /\ WayPlace(k)[1] = AtIndir1
                              /\ WayPlace(k)[2] = AtFirst(Slot(k))
           /\ Depth(k) = 3 => /\ WayPlace(k)[1] = AtIndir2 /\ WayPlace(k)[2] = AtSecond(0)
                              /\ WayPlace(k)[3] = AtThird(0, 0) /\ Slot(k) = 0
           /\ (Depth(k) = 1 <=> k < N_DIRECT)
           /\ (Depth(k) = 2 <=> k \in N_DIRECT .. MaxFile - 1)
           /\ (Depth(k) = 3 <=> k = MaxFile)
  <1>5. /\ k \in Int /\ 0 <= k /\ k <= MaxFile /\ N_DIRECT \in Nat /\ MaxFile \in Nat
        /\ MaxFile = N_DIRECT + Pointers /\ Pointers \in Nat /\ 0 \in 0 .. Pointers - 1
    BY Sizes
  <1> HIDE DEF MaxFile
  <1> DEFINE y == WayPlace(k)
  <1>6. CASE k < N_DIRECT
    <2>1. y = <<AtDirect(k)>> /\ Depth(k) = 1 /\ k \in 0 .. N_DIRECT - 1
          /\ ~(k \in N_DIRECT .. MaxFile - 1) /\ k # MaxFile
      BY <1>5, <1>6 DEF WayPlace, Depth
    <2>2. AtDirect(k) \in Places
      BY <2>1, PlaceFacts
    <2>3. y \in [1 .. 1 -> Places] /\ y[1] = AtDirect(k)
      BY <2>1, <2>2
    <2> HIDE DEF y
    <2>4. \A j, l \in 1 .. 1 : j = l
      OBVIOUS
    <2> QED BY <1>6, <2>1, <2>3, <2>4 DEF y
  <1>7. CASE k \in N_DIRECT .. MaxFile - 1
    <2>1. y = <<AtIndir1, AtFirst(Slot(k))>> /\ Depth(k) = 2 /\ ~(k < N_DIRECT) /\ k # MaxFile
      BY <1>5, <1>7 DEF WayPlace, Depth
    <2>2. Slot(k) \in 0 .. Pointers - 1
      BY <1>5, <1>7 DEF Slot
    <2>3. AtIndir1 \in Places /\ AtFirst(Slot(k)) \in Places /\ AtIndir1 # AtFirst(Slot(k))
      BY <2>2, PlaceFacts, PlacesDiffer
    <2>4. y \in [1 .. 2 -> Places] /\ y[1] = AtIndir1 /\ y[2] = AtFirst(Slot(k))
      BY <2>1, <2>3
    <2> HIDE DEF y
    <2>5. \A j, l \in 1 .. 2 : y[j] = y[l] => j = l
      BY <2>3, <2>4
    <2> QED BY <1>7, <2>1, <2>2, <2>4, <2>5 DEF y
  <1>8. CASE k = MaxFile
    <2>1. /\ y = <<AtIndir2, AtSecond(0), AtThird(0, 0)>> /\ Depth(k) = 3
          /\ ~(k < N_DIRECT) /\ ~(k \in N_DIRECT .. MaxFile - 1) /\ Slot(k) = 0
      BY <1>5, <1>8 DEF WayPlace, Depth, Slot
    <2>3. /\ AtIndir2 \in Places /\ AtSecond(0) \in Places /\ AtThird(0, 0) \in Places
          /\ AtIndir2 # AtSecond(0) /\ AtIndir2 # AtThird(0, 0) /\ AtSecond(0) # AtThird(0, 0)
      BY <1>5, PlaceFacts, PlacesDiffer
    <2>4. /\ y \in [1 .. 3 -> Places]
          /\ y[1] = AtIndir2 /\ y[2] = AtSecond(0) /\ y[3] = AtThird(0, 0)
      BY <2>1, <2>3
    <2> HIDE DEF y
    <2>5. \A j, l \in 1 .. 3 : y[j] = y[l] => j = l
      BY <2>3, <2>4
    <2>6. Slot(k) \in 0 .. Pointers - 1 /\ Depth(k) \in 1 .. 3 /\ Depth(k) # 1 /\ Depth(k) # 2
      BY <1>5, <2>1
    <2> QED BY <1>8, <2>1, <2>4, <2>5, <2>6 DEF y
  <1>9. k < N_DIRECT \/ k \in N_DIRECT .. MaxFile - 1 \/ k = MaxFile
    BY <1>5
  <1> QED BY <1>6, <1>7, <1>8, <1>9

\* The blocks on the way are those named from its places.
LEMMA WayValues ==
    ASSUME FsInv, Ready, NEW i \in Inodes, ~IsDir(i), NEW k \in 0 .. MaxFile,
           NEW w \in Ways(i, k)
    PROVE  /\ \A j \in 1 .. Depth(k) : w.found[j] = V(disk, i, WayPlace(k)[j])
           /\ \A j \in 1 .. Depth(k) - 1 : w.found[j + 1] = Behind(disk, w.found[j], Slot(k))
           /\ w.made = Completed(w.found) /\ w.found = Way(core.itab[i], k)
  <1> DEFINE x == core.itab[i]
             y == Way(x, k)
  <1>1. w = [found |-> y, made |-> Completed(y)]
    BY DEF Ways
  <1>2. /\ disk \in Disks /\ core \in Cores /\ disk.itab = core.itab /\ x \in InodeType
    BY ReadyFacts, CoreFields
  <1>3. w.found = y /\ w.made = Completed(y)
    BY <1>1
  <1>4. \A b, n : Pointer(b, n) = Behind(disk, b, n)
    BY DEF Pointer, Behind
  <1>9. /\ k \in Int /\ 0 <= k /\ k <= MaxFile /\ N_DIRECT \in Nat /\ MaxFile \in Nat
        /\ MaxFile = N_DIRECT + Pointers /\ Pointers \in Nat /\ 0 \in 0 .. Pointers - 1
    BY Sizes
  <1> HIDE DEF MaxFile, x
  <1>6. CASE Depth(k) = 1
    <2>1. k \in 0 .. N_DIRECT - 1 /\ k < N_DIRECT /\ WayPlace(k)[1] = AtDirect(k)
      BY <1>6, WayPlaces
    <2>2. y = <<x.direct[k]>>
      BY <1>9, <2>1 DEF Way
    <2>3. y[1] = x.direct[k]
      BY <2>2
    <2> HIDE DEF y
    <2>4. y[1] = V(disk, i, WayPlace(k)[1])
      BY <1>2, <2>1, <2>3, PointerFacts DEF V, x
    <2>5. \A j \in 1 .. 1 : j = 1
      OBVIOUS
    <2>6. 1 .. 1 - 1 = {}
      OBVIOUS
    <2> QED BY <1>3, <1>6, <2>4, <2>5, <2>6 DEF y, x
  <1>7. CASE Depth(k) = 2
    <2>1. /\ k \in N_DIRECT .. MaxFile - 1 /\ ~(k < N_DIRECT) /\ k # MaxFile
          /\ WayPlace(k)[1] = AtIndir1 /\ WayPlace(k)[2] = AtFirst(Slot(k))
          /\ Slot(k) \in 0 .. Pointers - 1
      BY <1>7, <1>9, WayPlaces
    <2>2. y = <<x.indir_1, Behind(disk, x.indir_1, Slot(k))>>
      BY <1>4, <2>1 DEF Way
    <2>3. y[1] = x.indir_1 /\ y[2] = Behind(disk, x.indir_1, Slot(k))
      BY <2>2
    <2> HIDE DEF y
    <2>4. y[1] = V(disk, i, WayPlace(k)[1]) /\ y[2] = V(disk, i, WayPlace(k)[2])
      BY <1>2, <2>1, <2>3, PointerFacts DEF V, x
    <2>5. \A j \in 1 .. 2 : j = 1 \/ j = 2
      OBVIOUS
    <2>6. 1 .. 2 - 1 = {1} /\ 1 + 1 = 2
      OBVIOUS
    <2> QED BY <1>3, <1>7, <2>3, <2>4, <2>5, <2>6 DEF y, x
  <1>8. CASE Depth(k) = 3
    <2> DEFINE z == Behind(disk, x.indir_2, 0)
    <2>1. /\ k = MaxFile /\ ~(k < N_DIRECT) /\ ~(k \in N_DIRECT .. MaxFile - 1)
          /\ WayPlace(k)[1] = AtIndir2 /\ WayPlace(k)[2] = AtSecond(0)
          /\ WayPlace(k)[3] = AtThird(0, 0) /\ Slot(k) = 0
      BY <1>8, <1>9, WayPlaces
    <2>2. y = <<x.indir_2, z, Behind(disk, z, 0)>>
      BY <1>4, <2>1 DEF Way
    <2>3. y[1] = x.indir_2 /\ y[2] = z /\ y[3] = Behind(disk, z, 0)
      BY <2>2
    <2> HIDE DEF y
    <2>4. /\ y[1] = V(disk, i, WayPlace(k)[1]) /\ y[2] = V(disk, i, WayPlace(k)[2])
          /\ y[3] = V(disk, i, WayPlace(k)[3])
      BY <1>2, <1>9, <2>1, <2>3, PointerFacts DEF V, x
    <2>5. \A j \in 1 .. 3 : j = 1 \/ j = 2 \/ j = 3
      OBVIOUS
    <2>6. (\A j \in 1 .. 3 - 1 : j = 1 \/ j = 2) /\ 1 + 1 = 2 /\ 2 + 1 = 3
      OBVIOUS
    <2> QED BY <1>3, <1>8, <2>1, <2>3, <2>4, <2>5, <2>6 DEF y, x
  <1> QED BY <1>6, <1>7, <1>8, WayPlaces

\* A way that could be completed: its blocks are different ones, and no other
\* place names them.
LEMMA MadeApart ==
    ASSUME FsInv, Ready, NEW i \in FileNodes, ~IsDir(i), NEW k \in 0 .. MaxFile,
           NEW w \in Ways(i, k), w.made[Depth(k)] # ENOSPC,
           Kept(disk, core.bmap, lost)
    PROVE  /\ \A j \in 1 .. Depth(k) :
                 /\ w.made[j] \in Blocks /\ w.made[j] # 0 /\ w.made[j] # ENOSPC
                 /\ w.made[j] \notin Meta \cup Listing \cup lost
                 /\ w.found[j] = 0 => w.made[j] \notin core.bmap
                 /\ \A x \in FileNodes, a \in Places :
                       V(disk, x, a) = w.made[j] => x = i /\ a = WayPlace(k)[j]
           /\ \A j, l \in 1 .. Depth(k) : w.made[j] = w.made[l] => j = l
  <1> DEFINE n == Depth(k)
  <1>1. /\ i \in Inodes /\ n \in 1 .. 3 /\ n \in Nat
    BY WayPlaces DEF FileNodes
  <1>2. /\ w.found \in [1 .. n -> Blocks]
        /\ w.made \in [1 .. n -> Blocks \cup {ENOSPC}]
        /\ \A j \in 1 .. n : w.found[j] # 0 => w.made[j] = w.found[j] /\ w.made[j] # ENOSPC
        /\ \A j \in 1 .. n : w.found[j] = 0 /\ w.made[j] # ENOSPC =>
              \A l \in 1 .. j : w.made[l] # ENOSPC
    BY <1>1, WaysFacts
  <1>3. /\ \A j \in 1 .. n : w.found[j] = V(disk, i, WayPlace(k)[j])
        /\ \A j \in 1 .. n - 1 : w.found[j + 1] = Behind(disk, w.found[j], Slot(k))
        /\ w.made = Completed(w.found)
    BY <1>1, WayValues
  <1>4. /\ \A j \in 1 .. n : WayPlace(k)[j] \in Places
        /\ \A j, l \in 1 .. n : WayPlace(k)[j] = WayPlace(k)[l] => j = l
    BY WayPlaces
  <1>5. core \in Cores /\ disk \in Disks /\ disk.itab = core.itab
    BY ReadyFacts
  <1>6. /\ \A j \in 1 .. n : w.found[j] = 0 /\ w.made[j] # ENOSPC => w.made[j] \in FreeBlks
        /\ \A j, l \in 1 .. n :
              w.found[j] = 0 /\ w.found[l] = 0 /\ w.made[j] # ENOSPC /\ w.made[j] = w.made[l] => j = l
    <2> DEFINE y == w.found
    <2>1. y \in [1 .. n -> Blocks] /\ n \in Nat /\ w.made = Completed(y)
      BY <1>1, <1>2, <1>3
    <2> HIDE DEF y, n
    <2>2. LET z == Completed(y)
          IN  /\ \A j \in 1 .. n : y[j] = 0 /\ z[j] # ENOSPC => z[j] \in FreeBlks
              /\ \A j, l \in 1 .. n :
                    y[j] = 0 /\ y[l] = 0 /\ z[j] # ENOSPC /\ z[j] = z[l] => j = l
      BY <1>5, <2>1, CompletedApart
    <2> QED BY <2>1, <2>2 DEF y
  <1>7. \A j \in 1 .. n - 1 : w.found[j] = 0 => w.found[j + 1] = 0
    BY <1>3 DEF Behind
  <1> HIDE DEF n
  <1>8. \A j \in 1 .. n : w.made[j] # ENOSPC
    <2>1. CASE w.found[n] = 0
      BY <1>1, <1>2, <2>1 DEF n
    <2>2. CASE w.found[n] # 0
      <3>1. \A j \in 1 .. n : w.found[j] # 0
        <4>1. CASE n = 1
          BY <2>2, <4>1
        <4>2. CASE n = 2
          <5>1. 1 \in 1 .. n - 1 /\ 1 + 1 = 2 /\ \A j \in 1 .. n : j = 1 \/ j = 2
            BY <4>2
          <5> QED BY <1>7, <2>2, <4>2, <5>1
        <4>3. CASE n = 3
          <5>1. /\ 1 \in 1 .. n - 1 /\ 1 + 1 = 2 /\ 2 \in 1 .. n - 1 /\ 2 + 1 = 3
                /\ \A j \in 1 .. n : j = 1 \/ j = 2 \/ j = 3
            BY <4>3
          <5> QED BY <1>7, <2>2, <4>3, <5>1
        <4> QED BY <1>1, <4>1, <4>2, <4>3
      <3> QED BY <1>2, <3>1
    <2> QED BY <2>1, <2>2
  <1>9. /\ Meta \cup Listing \cup lost \cup Held(disk) = core.bmap /\ 0 \in Meta
        /\ Held(disk) \cap (Meta \cup Listing \cup lost) = {}
    BY Sizes DEF Kept, Meta
  <1>10. \A x \in FileNodes, a \in Places :
             V(disk, x, a) # 0 => V(disk, x, a) \in Held(disk)
    BY DEF Held
  <1>11. ASSUME NEW j \in 1 .. n
         PROVE  /\ w.made[j] \in Blocks /\ w.made[j] # 0
                /\ w.made[j] \notin Meta \cup Listing \cup lost
                /\ w.found[j] = 0 => w.made[j] \notin core.bmap
                /\ w.found[j] # 0 => w.made[j] \in Held(disk) /\ w.made[j] = w.found[j]
    <2>1. w.made[j] \in Blocks
      BY <1>2, <1>8
    <2>2. CASE w.found[j] = 0
      BY <1>6, <1>8, <1>9, <2>1, <2>2 DEF FreeBlks
    <2>3. CASE w.found[j] # 0
      BY <1>2, <1>3, <1>4, <1>9, <1>10, <2>1, <2>3
    <2> QED BY <2>2, <2>3
  <1>12. ASSUME NEW j \in 1 .. n, NEW x \in FileNodes, NEW a \in Places, V(disk, x, a) = w.made[j]
         PROVE  x = i /\ a = WayPlace(k)[j]
    <2>1. w.found[j] # 0
      BY <1>9, <1>10, <1>11, <1>12
    <2>2. V(disk, i, WayPlace(k)[j]) = V(disk, x, a) /\ V(disk, x, a) # 0
      BY <1>3, <1>11, <1>12, <2>1
    <2> QED BY <1>4, <2>2 DEF Kept
  <1>13. ASSUME NEW j \in 1 .. n, NEW l \in 1 .. n, w.made[j] = w.made[l]
         PROVE  j = l
    <2>1. CASE w.found[j] = 0 /\ w.found[l] = 0
      BY <1>6, <1>8, <1>13, <2>1
    <2>2. CASE w.found[j] # 0 /\ w.found[l] # 0
      <3>1. V(disk, i, WayPlace(k)[j]) = w.made[l]
        BY <1>3, <1>11, <1>13, <2>2
      <3>2. WayPlace(k)[j] = WayPlace(k)[l]
        BY <1>4, <1>12, <3>1
      <3> QED BY <1>4, <3>2
    <2>3. CASE (w.found[j] = 0) # (w.found[l] = 0)
      BY <1>9, <1>11, <1>13, <2>3
    <2> QED BY <2>1, <2>2, <2>3
  <1> QED BY <1>8, <1>11, <1>12, <1>13 DEF n

\* The way has blocks of its own, each a different one.
WayApart(k, w) ==
    /\ \A j \in 1 .. Depth(k) : w.made[j] \in Blocks
    /\ \A j, l \in 1 .. Depth(k) : w.made[j] = w.made[l] => j = l
    /\ New(w) = {j \in 1 .. Depth(k) : w.found[j] = 0}

\* The device d when the way is laid down to its j-th block: that one has its
\* old content or none, those above name the next, and other blocks are as before.
Laying(d, i, k, w, j) ==
    /\ \A x \in Inodes \ {i} : d.itab[x] = core.itab[x]
    /\ \A b \in Blocks : (\A l \in 1 .. Depth(k) : b # w.made[l]) => d.blk[b] = disk.blk[b]
    /\ \A l \in 1 .. Depth(k) :
          l < j => \A p \in 0 .. Pointers - 1 :
                      d.blk[w.made[l]].ptrs[p] = IF p = Slot(k) THEN w.made[l + 1]
                                                 ELSE Content(w, l).ptrs[p]
    /\ \A l \in 1 .. Depth(k) :
          l = j \/ (l > j /\ w.found[l] # 0) => d.blk[w.made[l]] = Content(w, l)

LEMMA ContentTypes ==
    ASSUME disk \in Disks, NEW k \in 0 .. MaxFile, NEW w, WayApart(k, w), NEW j \in 1 .. Depth(k)
    PROVE  Content(w, j) \in BlockType
  <1>1. disk.blk \in [Blocks -> BlockType] /\ w.made[j] \in Blocks
    BY DiskFields DEF WayApart
  <1> QED BY <1>1, EmptyTypes DEF Content

\* The inode names the first block, and each block the next.
LEMMA LayFirst ==
    ASSUME FsInv, Ready, NEW i \in Inodes, ~IsDir(i), NEW k \in 0 .. MaxFile, NEW w \in Ways(i, k),
           WayApart(k, w), 1 \in New(w), NEW d \in GoodDisks, NEW e \in GoodDisks,
           Laying(d, i, k, w, 0), Leads(d, AllocBlk(i, k, w, 1), e)
    PROVE  Laying(e, i, k, w, 1)
  <1> DEFINE m == With(i, k, w)
             n == Depth(k)
             a == w.made[1]
             u == update_inode(m, i)
             v == <<BlkWrite(a, Zeroes)>>
  <1>1. n \in 1 .. 3 /\ 1 \in 1 .. n /\ a \in Blocks /\ w.found[1] = 0
    BY WayPlaces DEF WayApart
  <1>2. m \in Cores /\ \A x \in Inodes : x # i => m.itab[x] = core.itab[x]
    BY WithFacts
  <1>3. AllocBlk(i, k, w, 1) = v \o u
    BY DEF AllocBlk, Store
  <1>4. u \in Seq(Writes) /\ v \in Seq(Writes)
    <2> HIDE DEF m, a
    <2>1. BlkWrite(a, Zeroes) \in Writes
      BY <1>1, <1>2, WriteTypes, EmptyTypes
    <2> QED BY <1>2, <2>1, UpdateTypes
  <1> HIDE DEF m, u, v
  <1>5. PICK c \in GoodDisks : Leads(d, v, c) /\ Leads(c, u, e)
    BY <1>3, <1>4, LeadsSplit
  <1> HIDE DEF a
  <1>6. /\ d.blk \in [Blocks -> BlockType] /\ c.itab = d.itab
        /\ \A b \in Blocks : c.blk[b] = IF b = a THEN Zeroes ELSE d.blk[b]
    BY <1>1, <1>5, AfterBlock, EmptyTypes DEF v
  <1>7. e.itab = m.itab /\ e.blk = c.blk
    <2>1. \A x \in Inodes : x # i => c.itab[x] = m.itab[x]
      BY <1>2, <1>6 DEF Laying
    <2> QED BY <1>2, <1>5, <2>1, AfterInode DEF u
  <1>8. \A x \in Inodes \ {i} : e.itab[x] = core.itab[x]
    BY <1>2, <1>7
  <1>9. ASSUME NEW b \in Blocks, \A l \in 1 .. n : b # w.made[l]
        PROVE  e.blk[b] = disk.blk[b]
    BY <1>1, <1>6, <1>7, <1>9 DEF Laying, a
  <1>10. \A l \in 1 .. n : ~(l < 1)
    BY <1>1
  <1>11. ASSUME NEW l \in 1 .. n, l = 1 \/ (l > 1 /\ w.found[l] # 0)
         PROVE  e.blk[w.made[l]] = Content(w, l)
    <2>1. CASE l = 1
      BY <1>1, <1>6, <1>7, <2>1 DEF Content, a
    <2>2. CASE l > 1 /\ w.found[l] # 0
      <3>1. l > 0 /\ w.made[l] \in Blocks /\ w.made[l] # a
        BY <1>1, <2>2 DEF WayApart, a
      <3> QED BY <1>6, <1>7, <2>2, <3>1 DEF Laying
    <2> QED BY <1>11, <2>1, <2>2
  <1> QED BY <1>8, <1>9, <1>10, <1>11 DEF Laying

LEMMA LayNext ==
    ASSUME FsInv, Ready, NEW i \in Inodes, ~IsDir(i), NEW k \in 0 .. MaxFile, NEW w \in Ways(i, k),
           WayApart(k, w), NEW j \in 2 .. Depth(k), j \in New(w),
           NEW d \in GoodDisks, NEW e \in GoodDisks,
           Laying(d, i, k, w, j - 1), Leads(d, AllocBlk(i, k, w, j), e)
    PROVE  Laying(e, i, k, w, j)
  <1> DEFINE n == Depth(k)
             a == w.made[j]
             z == w.made[j - 1]
             old == Content(w, j - 1)
             g == [old.ptrs EXCEPT ![Slot(k)] = a]
             y == [old EXCEPT !.ptrs = g]
             u == <<BlkWrite(z, y)>>
             v == <<BlkWrite(a, Zeroes)>>
  <1>1. /\ n \in 1 .. 3 /\ j \in 1 .. n /\ j - 1 \in 1 .. n /\ (j - 1) + 1 = j
        /\ Slot(k) \in 0 .. Pointers - 1
    <2>1. Depth(k) \in 1 .. 3 /\ (Depth(k) > 1 => Slot(k) \in 0 .. Pointers - 1)
      BY WayPlaces
    <2> QED BY <2>1
  <1>2. a \in Blocks /\ z \in Blocks /\ a # z /\ w.found[j] = 0
    <2>1. j # j - 1
      BY <1>1
    <2> QED BY <1>1, <2>1 DEF WayApart
  <1>3. old \in BlockType
    BY <1>1, ContentTypes, ReadyFacts
  <1>4. /\ y \in BlockType
        /\ \A p \in 0 .. Pointers - 1 : y.ptrs[p] = IF p = Slot(k) THEN a ELSE old.ptrs[p]
    <2> HIDE DEF old
    <2>1. /\ g \in [0 .. Pointers - 1 -> Blocks]
          /\ \A p \in 0 .. Pointers - 1 : g[p] = IF p = Slot(k) THEN a ELSE old.ptrs[p]
      BY <1>1, <1>2, <1>3 DEF BlockType
    <2> HIDE DEF g, a
    <2>2. y \in BlockType /\ y.ptrs = g
      BY <1>3, <2>1 DEF BlockType
    <2> QED BY <2>1, <2>2
  <1>5. AllocBlk(i, k, w, j) = v \o u
    <2>1. j # 1
      BY <1>1
    <2> QED BY <2>1 DEF AllocBlk, Store
  <1>6. u \in Seq(Writes) /\ v \in Seq(Writes)
    <2> HIDE DEF y, z, a
    <2>1. core \in Cores
      BY ReadyFacts
    <2>2. BlkWrite(z, y) \in Writes /\ BlkWrite(a, Zeroes) \in Writes
      BY <1>2, <1>4, <2>1, WriteTypes, EmptyTypes
    <2> QED BY <2>2
  <1> HIDE DEF u, v, y
  <1>7. PICK c \in GoodDisks : Leads(d, v, c) /\ Leads(c, u, e)
    BY <1>5, <1>6, LeadsSplit
  <1> HIDE DEF a, z, n, old
  <1>8. /\ c.itab = d.itab
        /\ \A b \in Blocks : c.blk[b] = IF b = a THEN Zeroes ELSE d.blk[b]
    BY <1>2, <1>7, AfterBlock, EmptyTypes DEF v
  <1>9. /\ e.itab = c.itab
        /\ \A b \in Blocks : e.blk[b] = IF b = z THEN y ELSE c.blk[b]
    BY <1>2, <1>4, <1>7, AfterBlock DEF u
  <1>10. \A x \in Inodes \ {i} : e.itab[x] = core.itab[x]
    BY <1>8, <1>9 DEF Laying
  <1>11. ASSUME NEW b \in Blocks, \A l \in 1 .. n : b # w.made[l]
         PROVE  e.blk[b] = disk.blk[b]
    <2>1. b # a /\ b # z
      BY <1>1, <1>11 DEF a, z
    <2> QED BY <1>8, <1>9, <1>11, <2>1 DEF Laying, n
  <1>12. \A l \in 1 .. n : l # j => w.made[l] # a
    BY <1>1 DEF WayApart, a, n
  <1>13. \A l \in 1 .. n : l # j - 1 => w.made[l] # z
    BY <1>1 DEF WayApart, z, n
  <1>14. \A l \in 1 .. n : w.made[l] \in Blocks
    BY DEF WayApart, n
  <1>15. ASSUME NEW l \in 1 .. n, l < j, NEW p \in 0 .. Pointers - 1
         PROVE  e.blk[w.made[l]].ptrs[p] = IF p = Slot(k) THEN w.made[l + 1]
                                           ELSE Content(w, l).ptrs[p]
    <2>1. CASE l = j - 1
      <3>1. w.made[l] = z /\ w.made[l + 1] = a /\ Content(w, l) = old
        BY <1>1, <2>1 DEF z, a, old
      <3> QED BY <1>2, <1>4, <1>9, <3>1
    <2>2. CASE l # j - 1
      <3>1. l < j - 1 /\ l # j
        BY <1>1, <1>15, <2>2
      <3>2. e.blk[w.made[l]] = d.blk[w.made[l]]
        BY <1>8, <1>9, <1>12, <1>13, <1>14, <2>2, <3>1
      <3> QED BY <3>1, <3>2 DEF Laying, n
    <2> QED BY <2>1, <2>2
  <1>16. ASSUME NEW l \in 1 .. n, l = j \/ (l > j /\ w.found[l] # 0)
         PROVE  e.blk[w.made[l]] = Content(w, l)
    <2>1. CASE l = j
      <3>1. Content(w, l) = Zeroes /\ w.made[l] = a
        BY <1>2, <2>1 DEF Content, a
      <3> QED BY <1>2, <1>8, <1>9, <3>1
    <2>2. CASE l > j /\ w.found[l] # 0
      <3>1. l # j /\ l # j - 1 /\ l > j - 1
        BY <1>1, <2>2
      <3>2. e.blk[w.made[l]] = d.blk[w.made[l]]
        BY <1>8, <1>9, <1>12, <1>13, <1>14, <3>1
      <3> QED BY <2>2, <3>1, <3>2 DEF Laying, n
    <2> QED BY <1>16, <2>1, <2>2
  <1> QED BY <1>10, <1>11, <1>15, <1>16 DEF Laying, n

LEMMA LayOne ==
    ASSUME FsInv, Ready, NEW i \in Inodes, ~IsDir(i), NEW k \in 0 .. MaxFile, NEW w \in Ways(i, k),
           WayApart(k, w), NEW j \in 1 .. Depth(k), NEW d \in GoodDisks, NEW e \in GoodDisks,
           Laying(d, i, k, w, j - 1), Leads(d, AllocBlk(i, k, w, j), e)
    PROVE  Laying(e, i, k, w, j)
  <1> DEFINE n == Depth(k)
  <1>1. n \in 1 .. 3 /\ j \in 1 .. n /\ j \in Int
    BY WayPlaces
  <1>2. CASE j = 1 /\ 1 \in New(w)
    <2>1. Laying(d, i, k, w, 0)
      BY <1>2
    <2> QED BY <1>2, <2>1, LayFirst
  <1>3. CASE j # 1 /\ j \in New(w)
    <2>1. j \in 2 .. n
      BY <1>1, <1>3
    <2> QED BY <1>3, <2>1, LayNext
  <1>4. CASE j \notin New(w)
    <2>1. d = e
      BY <1>4, LeadsEnds DEF AllocBlk
    <2>2. w.found[j] # 0
      BY <1>4 DEF WayApart
    <2>3. \A l \in 1 .. n : (l < j => l < j - 1 \/ l = j - 1) /\ (l = j => l > j - 1)
                           /\ (l > j => l > j - 1)
      BY <1>1
    <2>4. ASSUME NEW l \in 1 .. n, l < j, NEW p \in 0 .. Pointers - 1
          PROVE  e.blk[w.made[l]].ptrs[p] = IF p = Slot(k) THEN w.made[l + 1]
                                            ELSE Content(w, l).ptrs[p]
      <3>1. CASE l < j - 1
        BY <2>1, <3>1 DEF Laying
      <3>2. CASE l = j - 1
        <4>1. l \in 1 .. Depth(k) - 1 /\ l + 1 = j /\ l \in 1 .. Depth(k)
          BY <1>1, <3>2
        <4>2. w.found[j] = Behind(disk, w.found[l], Slot(k))
          BY <1>1, <4>1, WayValues
        <4>3. w.found[l] # 0 /\ w.made[l] = w.found[l] /\ w.made[j] = w.found[j]
          <5>1. w.found[l] # 0
            BY <2>2, <4>2 DEF Behind
          <5>2. \A h \in 1 .. Depth(k) : w.found[h] # 0 => w.made[h] = w.found[h]
            BY WaysFacts
          <5> QED BY <1>1, <2>2, <4>1, <5>1, <5>2
        <4>4. Content(w, l) = disk.blk[w.made[l]] /\ w.made[j] = Content(w, l).ptrs[Slot(k)]
          BY <4>2, <4>3 DEF Content, Behind
        <4>5. e.blk[w.made[l]] = Content(w, l)
          BY <2>1, <3>2, <4>1 DEF Laying
        <4> QED BY <4>1, <4>4, <4>5
      <3> QED BY <1>1, <2>3, <2>4, <3>1, <3>2
    <2>5. ASSUME NEW l \in 1 .. n, l = j \/ (l > j /\ w.found[l] # 0)
          PROVE  e.blk[w.made[l]] = Content(w, l)
      BY <2>1, <2>2, <2>3, <2>5 DEF Laying
    <2> QED BY <2>1, <2>4, <2>5 DEF Laying
  <1> QED BY <1>2, <1>3, <1>4
LEMMA LayNone ==
    ASSUME FsInv, Ready, NEW i \in Inodes, ~IsDir(i), NEW k \in 0 .. MaxFile, NEW w \in Ways(i, k),
           WayApart(k, w)
    PROVE  Laying(disk, i, k, w, 0)
  <1>1. disk.itab = core.itab
    BY ReadyFacts
  <1>2. ASSUME NEW l \in 1 .. Depth(k), w.found[l] # 0
        PROVE  disk.blk[w.made[l]] = Content(w, l)
    BY <1>2 DEF Content
  <1>3. \A l \in 1 .. Depth(k) : ~(l < 0) /\ l # 0
    BY WayPlaces
  <1> QED BY <1>1, <1>2, <1>3 DEF Laying

\* The whole way is laid when the writes of the allocation are through.
LEMMA LayAll ==
    ASSUME FsInv, Ready, NEW i \in Inodes, ~IsDir(i), core.itab[i].kind # "none",
           NEW k \in 0 .. MaxFile, NEW w \in Ways(i, k), WayApart(k, w),
           NEW e \in GoodDisks, Leads(disk, AllocWrites(i, k, w), e)
    PROVE  Laying(e, i, k, w, Depth(k))
  <1> DEFINE A(j) == AllocBlk(i, k, w, j)
             n == Depth(k)
  <1>1. n \in 1 .. 3 /\ disk \in GoodDisks
    BY WayPlaces, ReadyFacts
  <1>2. ASSUME NEW j \in 1 .. 3 PROVE A(j) \in Seq(Writes)
    <2>1. /\ disk \in GoodDisks /\ disk.itab = core.itab /\ disk.imap \subseteq core.imap
          /\ Thins(disk, disk)
      BY ReadyFacts, ThinsItself
    <2>2. \E f \in GoodDisks : Leads(disk, AllocBlk(i, k, w, j), f)
      BY <2>1, AllocBlkLeads
    <2> QED BY <2>2, LeadsEnds
  <1>3. A(1) \in Seq(Writes) /\ A(2) \in Seq(Writes) /\ A(3) \in Seq(Writes)
    <2> HIDE DEF A
    <2> QED BY <1>2
  <1>4. \A j \in 2 .. 3 : j > n => A(j) = <<>>
    <2>1. \A j \in 2 .. 3 : j > n => j \notin New(w)
      BY <1>1 DEF WayApart
    <2> QED BY <2>1 DEF AllocBlk
  <1> DEFINE a == A(1)
             b == A(2)
             c == A(3)
  <1>5. Leads(disk, (a \o b) \o c, e)
    BY DEF AllocWrites
  <1>6. a \in Seq(Writes) /\ b \in Seq(Writes) /\ c \in Seq(Writes) /\ a \o b \in Seq(Writes)
    <2> HIDE DEF A
    <2> QED BY <1>3
  <1> HIDE DEF a, b, c
  <1>7. PICK g \in GoodDisks : Leads(disk, a \o b, g) /\ Leads(g, c, e)
    BY <1>5, <1>6, LeadsSplit
  <1>8. PICK f \in GoodDisks : Leads(disk, a, f) /\ Leads(f, b, g)
    BY <1>6, <1>7, LeadsSplit
  <1>9. Laying(f, i, k, w, 1)
    <2>1. 1 \in 1 .. Depth(k) /\ 1 - 1 = 0
      BY <1>1
    <2> QED BY <1>1, <1>8, <2>1, LayNone, LayOne DEF a
  <1>10. CASE n = 1
    <2>1. b = <<>> /\ c = <<>>
      BY <1>4, <1>10 DEF b, c
    <2>2. g = f /\ e = g
      BY <1>7, <1>8, <2>1, LeadsEnds
    <2> QED BY <1>9, <1>10, <2>2
  <1>11. n > 1 => Laying(g, i, k, w, 2)
    <2>1. n > 1 => 2 \in 1 .. Depth(k) /\ 2 - 1 = 1
      BY <1>1
    <2> QED BY <1>8, <1>9, <2>1, LayOne DEF b
  <1>12. CASE n = 2
    <2>1. c = <<>>
      BY <1>4, <1>12 DEF c
    <2>2. e = g
      BY <1>7, <2>1, LeadsEnds
    <2> QED BY <1>11, <1>12, <2>2
  <1>13. CASE n = 3
    <2>1. 3 \in 1 .. Depth(k) /\ 3 - 1 = 2
      BY <1>13
    <2> QED BY <1>7, <1>11, <1>13, <2>1, LayOne DEF c
  <1> QED BY <1>1, <1>10, <1>12, <1>13

LEMMA MadeWayApart ==
    ASSUME FsInv, Ready, NEW i \in FileNodes, ~IsDir(i), NEW k \in 0 .. MaxFile,
           NEW w \in Ways(i, k), w.made[Depth(k)] # ENOSPC,
           Kept(disk, core.bmap, lost)
    PROVE  WayApart(k, w)
  <1>1. i \in Inodes
    BY DEF FileNodes
  <1>2. New(w) = {l \in 1 .. Depth(k) : w.found[l] = 0 /\ w.made[l] # ENOSPC}
    BY <1>1, WaysFacts
  <1>3. /\ \A j \in 1 .. Depth(k) : w.made[j] \in Blocks /\ w.made[j] # ENOSPC
        /\ \A j, l \in 1 .. Depth(k) : w.made[j] = w.made[l] => j = l
    BY MadeApart
  <1>4. New(w) = {l \in 1 .. Depth(k) : w.found[l] = 0}
    BY <1>2, <1>3
  <1> QED BY <1>3, <1>4 DEF WayApart

\* What the device holds when the writes of fs_write are through.
LEMMA AfterStore ==
    ASSUME FsInv, Ready, NEW i \in Inodes, ~IsDir(i), core.itab[i].kind # "none",
           NEW k \in 0 .. MaxFile, NEW w \in Ways(i, k), WayApart(k, w),
           NEW d \in Chunks, NEW m \in Cores, m.imap = core.imap,
           \A x \in Inodes : x # i => m.itab[x] = core.itab[x], NEW e \in GoodDisks,
           Leads(disk, AllocWrites(i, k, w) \o <<Filled(w, d)>> \o update_inode(m, i)
                          \o update_blk(m), e)
    PROVE  LET n == Depth(k)
           IN  /\ e.imap = core.imap /\ e.itab = m.itab
               /\ \A b \in Blocks : (\A l \in 1 .. n : b # w.made[l]) => e.blk[b] = disk.blk[b]
               /\ \A l \in 1 .. n : l < n =>
                     \A p \in 0 .. Pointers - 1 :
                         e.blk[w.made[l]].ptrs[p] = IF p = Slot(k) THEN w.made[l + 1]
                                                    ELSE Content(w, l).ptrs[p]
               /\ \A p \in 0 .. Pointers - 1 : e.blk[w.made[n]].ptrs[p] = 0
               /\ e.blk[w.made[n]].data
                    = d \o SubSeq(Content(w, n).data, Len(d) + 1, BLOCK_SIZE)
  <1> DEFINE n == Depth(k)
             a == AllocWrites(i, k, w)
             b == w.made[n]
             x == d \o SubSeq(Content(w, n).data, Len(d) + 1, BLOCK_SIZE)
             y == [Zeroes EXCEPT !.data = x]
             z == <<BlkWrite(b, y)>>
             u == update_inode(m, i)
             v == update_blk(m)
  <1>1. n \in 1 .. 3 /\ disk \in GoodDisks /\ disk \in Disks
    BY WayPlaces, ReadyFacts
  <1>2. Len(w.made) = n /\ Last(w.made) = b
    BY WaysFacts
  <1>3. Leads(disk, ((a \o z) \o u) \o v, e)
    BY <1>2 DEF Filled
  <1>4. a \in Seq(Writes) /\ u \in Seq(Writes) /\ v \in Seq(Writes)
    BY AllocLeads, LeadsEnds, UpdateTypes
  <1>5. Zeroes \in BlockType /\ \A p \in 0 .. Pointers - 1 : Zeroes.ptrs[p] = 0
    BY EmptyTypes
  <1> HIDE DEF x
  <1>6. y.ptrs = Zeroes.ptrs /\ y.data = x
    BY <1>5 DEF BlockType
  <1> HIDE DEF a, b, u, v, y
  <1> DEFINE S == Writes \cup {BlkWrite(b, y)}
  <1>7. a \in Seq(S) /\ z \in Seq(S) /\ u \in Seq(S) /\ v \in Seq(S)
    BY <1>4
  <1> HIDE DEF z, S
  <1>8. a \o z \in Seq(S) /\ (a \o z) \o u \in Seq(S)
    BY <1>7
  <1>9. PICK f \in GoodDisks : Leads(disk, (a \o z) \o u, f) /\ Leads(f, v, e)
    BY <1>3, <1>7, <1>8, LeadsSplit
  <1>10. PICK g \in GoodDisks : Leads(disk, a \o z, g) /\ Leads(g, u, f)
    BY <1>7, <1>8, <1>9, LeadsSplit
  <1>11. PICK h \in GoodDisks : Leads(disk, a, h) /\ Leads(h, z, g)
    BY <1>7, <1>10, LeadsSplit
  <1>12. Laying(h, i, k, w, n)
    BY <1>11, LayAll DEF a
  <1> HIDE DEF n
  <1>13. b \in Blocks /\ y \in BlockType
    BY <1>11, BlockWriteTypes DEF z
  <1>14. /\ g.itab = h.itab
         /\ \A c \in Blocks : g.blk[c] = IF c = b THEN y ELSE h.blk[c]
    BY <1>11, <1>13, AfterBlock DEF z
  <1>15. f.imap = m.imap /\ f.itab = m.itab /\ f.blk = g.blk
    <2>1. \A j \in Inodes : j # i => g.itab[j] = m.itab[j]
      BY <1>12, <1>14 DEF Laying
    <2> QED BY <1>10, <2>1, AfterInode DEF u
  <1>16. e.imap = f.imap /\ e.itab = f.itab /\ e.blk = f.blk
    BY <1>9, AfterMap DEF v
  <1>17. \A c \in Blocks : e.blk[c] = IF c = b THEN y ELSE h.blk[c]
    BY <1>14, <1>15, <1>16
  <1>18. /\ \A c \in Blocks : (\A l \in 1 .. n : c # w.made[l]) => e.blk[c] = disk.blk[c]
    <2>1. n \in 1 .. n
      BY <1>1
    <2> QED BY <1>12, <1>17, <2>1 DEF Laying, n, b
  <1>19. ASSUME NEW l \in 1 .. n, l < n, NEW p \in 0 .. Pointers - 1
         PROVE  e.blk[w.made[l]].ptrs[p] = IF p = Slot(k) THEN w.made[l + 1]
                                           ELSE Content(w, l).ptrs[p]
    <2>1. n \in 1 .. n /\ l # n
      BY <1>1, <1>19
    <2>2. w.made[l] \in Blocks /\ w.made[l] # b
      BY <2>1 DEF WayApart, n, b
    <2>3. e.blk[w.made[l]] = h.blk[w.made[l]]
      BY <1>17, <2>2
    <2> QED BY <1>12, <1>19, <2>3 DEF Laying, n
  <1>20. e.blk[b] = y
    BY <1>13, <1>17
  <1> QED BY <1>5, <1>6, <1>15, <1>16, <1>18, <1>19, <1>20 DEF n, b, x

\* What the device e has of the node i and of the blocks on the way to its
\* block k once that is written.
StoredWay(i, k, w, e) ==
    /\ \A x \in Inodes \ {i} : e.itab[x] = disk.itab[x]
    /\ \A j \in 0 .. N_DIRECT - 1 :
          e.itab[i].direct[j] = IF j = k THEN w.made[1] ELSE disk.itab[i].direct[j]
    /\ e.itab[i].indir_1 = IF Depth(k) = 2 THEN w.made[1] ELSE disk.itab[i].indir_1
    /\ e.itab[i].indir_2 = IF Depth(k) = 3 THEN w.made[1] ELSE disk.itab[i].indir_2
    /\ \A b \in Blocks : (\A l \in 1 .. Depth(k) : b # w.made[l]) => e.blk[b] = disk.blk[b]
    /\ \A l \in 1 .. Depth(k) :
          l < Depth(k) => \A p \in 0 .. Pointers - 1 :
                             e.blk[w.made[l]].ptrs[p] = IF p = Slot(k) THEN w.made[l + 1]
                                                        ELSE Content(w, l).ptrs[p]

\* Two devices have the same pointers in a block.
Alike(d, e, b) == b = 0 \/ \A p \in 0 .. Pointers - 1 : e.blk[b].ptrs[p] = d.blk[b].ptrs[p]

LEMMA AlikeBehind ==
    ASSUME NEW d \in Disks, NEW e \in Disks, NEW b \in Blocks, Alike(d, e, b),
           NEW p \in 0 .. Pointers - 1
    PROVE  Behind(e, b, p) = Behind(d, b, p)
  BY DEF Alike, Behind

\* What has been behind a block of the way.
LEMMA ContentBehind ==
    ASSUME FsInv, Ready, NEW i \in Inodes, ~IsDir(i), NEW k \in 0 .. MaxFile, NEW w \in Ways(i, k),
           NEW j \in 1 .. Depth(k), NEW p \in 0 .. Pointers - 1
    PROVE  Content(w, j).ptrs[p] = Behind(disk, w.found[j], p)
  <1>1. w.found[j] # 0 => w.made[j] = w.found[j]
    BY WaysFacts
  <1> QED BY <1>1, EmptyTypes DEF Content, Behind

\* Nodes and places off the way name the blocks they named before.
LEMMA OffTheWay ==
    ASSUME NEW d \in Disks, NEW e \in Disks, NEW x \in InodeType, NEW y \in InodeType
    PROVE  /\ \A k \in 0 .. N_DIRECT - 1 :
                 y.direct[k] = x.direct[k] => PointerAt(e, y, AtDirect(k)) = PointerAt(d, x, AtDirect(k))
           /\ y.indir_1 = x.indir_1 =>
                 /\ PointerAt(e, y, AtIndir1) = PointerAt(d, x, AtIndir1)
                 /\ Alike(d, e, PointerAt(d, x, AtIndir1)) =>
                       \A p \in 0 .. Pointers - 1 :
                           PointerAt(e, y, AtFirst(p)) = PointerAt(d, x, AtFirst(p))
           /\ y.indir_2 = x.indir_2 =>
                 /\ PointerAt(e, y, AtIndir2) = PointerAt(d, x, AtIndir2)
                 /\ Alike(d, e, PointerAt(d, x, AtIndir2)) =>
                       \A p \in 0 .. Pointers - 1 :
                           PointerAt(e, y, AtSecond(p)) = PointerAt(d, x, AtSecond(p))
           /\ \A p, q \in 0 .. Pointers - 1 :
                 /\ PointerAt(e, y, AtSecond(p)) = PointerAt(d, x, AtSecond(p))
                 /\ Alike(d, e, PointerAt(d, x, AtSecond(p)))
                 => PointerAt(e, y, AtThird(p, q)) = PointerAt(d, x, AtThird(p, q))
  <1>1. /\ x.indir_1 \in Blocks /\ x.indir_2 \in Blocks
        /\ y.indir_1 \in Blocks /\ y.indir_2 \in Blocks
    BY DEF InodeType
  <1>2. /\ \A k \in 0 .. N_DIRECT - 1 : PointerAt(d, x, AtDirect(k)) = x.direct[k]
        /\ PointerAt(d, x, AtIndir1) = x.indir_1
        /\ PointerAt(d, x, AtIndir2) = x.indir_2
        /\ \A p \in 0 .. Pointers - 1 : PointerAt(d, x, AtFirst(p)) = Behind(d, x.indir_1, p)
        /\ \A p \in 0 .. Pointers - 1 : PointerAt(d, x, AtSecond(p)) = Behind(d, x.indir_2, p)
        /\ \A p, q \in 0 .. Pointers - 1 :
              PointerAt(d, x, AtThird(p, q)) = Behind(d, Behind(d, x.indir_2, p), q)
    BY PointerFacts
  <1>3. /\ \A k \in 0 .. N_DIRECT - 1 : PointerAt(e, y, AtDirect(k)) = y.direct[k]
        /\ PointerAt(e, y, AtIndir1) = y.indir_1
        /\ PointerAt(e, y, AtIndir2) = y.indir_2
        /\ \A p \in 0 .. Pointers - 1 : PointerAt(e, y, AtFirst(p)) = Behind(e, y.indir_1, p)
        /\ \A p \in 0 .. Pointers - 1 : PointerAt(e, y, AtSecond(p)) = Behind(e, y.indir_2, p)
        /\ \A p, q \in 0 .. Pointers - 1 :
              PointerAt(e, y, AtThird(p, q)) = Behind(e, Behind(e, y.indir_2, p), q)
    BY PointerFacts
  <1>4. ASSUME y.indir_1 = x.indir_1, Alike(d, e, x.indir_1), NEW p \in 0 .. Pointers - 1
        PROVE  PointerAt(e, y, AtFirst(p)) = PointerAt(d, x, AtFirst(p))
    BY <1>1, <1>2, <1>3, <1>4, AlikeBehind
  <1>5. ASSUME y.indir_2 = x.indir_2, Alike(d, e, x.indir_2), NEW p \in 0 .. Pointers - 1
        PROVE  PointerAt(e, y, AtSecond(p)) = PointerAt(d, x, AtSecond(p))
    BY <1>1, <1>2, <1>3, <1>5, AlikeBehind
  <1>6. ASSUME NEW p \in 0 .. Pointers - 1, NEW q \in 0 .. Pointers - 1,
               PointerAt(e, y, AtSecond(p)) = PointerAt(d, x, AtSecond(p)),
               Alike(d, e, PointerAt(d, x, AtSecond(p)))
        PROVE  PointerAt(e, y, AtThird(p, q)) = PointerAt(d, x, AtThird(p, q))
    <2> DEFINE b == Behind(d, x.indir_2, p)
    <2>1. b \in Blocks
      BY <1>1, BehindTypes
    <2>2. Behind(e, y.indir_2, p) = b /\ Alike(d, e, b)
      BY <1>2, <1>3, <1>6
    <2> HIDE DEF b
    <2>3. Behind(e, b, q) = Behind(d, b, q)
      BY <2>1, <2>2, AlikeBehind
    <2> QED BY <1>2, <1>3, <2>2, <2>3 DEF b
  <1> QED BY <1>2, <1>3, <1>4, <1>5, <1>6

\* Only the places on the way change, and name the blocks of the way.
WayMoved(i, k, w, e) ==
    /\ \A j \in 1 .. Depth(k) : V(e, i, WayPlace(k)[j]) = w.made[j]
    /\ \A y \in FileNodes, a \in Places :
          y # i \/ (\A j \in 1 .. Depth(k) : a # WayPlace(k)[j]) => V(e, y, a) = V(disk, y, a)

LEMMA WayMoves ==
    ASSUME FsInv, Ready, NEW i \in FileNodes, ~IsDir(i), NEW k \in 0 .. MaxFile,
           NEW w \in Ways(i, k), w.made[Depth(k)] # ENOSPC, Kept(disk, core.bmap, lost),
           NEW e \in GoodDisks, StoredWay(i, k, w, e)
    PROVE  WayMoved(i, k, w, e)
  <1> DEFINE n == Depth(k)
             x == disk.itab[i]
             z == e.itab[i]
             On(a) == \E j \in 1 .. n : a = WayPlace(k)[j]
  <1>1. /\ disk \in Disks /\ e \in Disks /\ i \in Inodes
        /\ \A y \in Inodes : disk.itab[y] \in InodeType /\ e.itab[y] \in InodeType
    BY ReadyFacts, DiskFields DEF GoodDisks, FileNodes
  <1>2. /\ \A j \in 1 .. n :
              /\ w.made[j] \in Blocks /\ w.made[j] # 0
              /\ \A y \in FileNodes, a \in Places :
                    V(disk, y, a) = w.made[j] => y = i /\ a = WayPlace(k)[j]
        /\ \A j, l \in 1 .. n : w.made[j] = w.made[l] => j = l
    BY MadeApart
  <1>3. ASSUME NEW y \in FileNodes, NEW a \in Places, y # i \/ ~On(a)
        PROVE  Alike(disk, e, V(disk, y, a))
    <2>1. V(disk, y, a) \in Blocks
      BY <1>1, PointerTypes DEF V, FileNodes
    <2>2. \A j \in 1 .. n : V(disk, y, a) # w.made[j]
      BY <1>2, <1>3
    <2> QED BY <2>1, <2>2 DEF StoredWay, Alike
  <1>4. ASSUME NEW y \in FileNodes, y # i, NEW a \in Places
        PROVE  V(e, y, a) = V(disk, y, a)
    <2> DEFINE t == disk.itab[y]
    <2>1. t \in InodeType /\ e.itab[y] = t
      BY <1>1, <1>4 DEF StoredWay, FileNodes
    <2>2. \A c \in Places : V(disk, y, c) = PointerAt(disk, t, c) /\ V(e, y, c) = PointerAt(e, t, c)
      BY <2>1 DEF V
    <2>3. \A c \in Places : Alike(disk, e, PointerAt(disk, t, c))
      BY <1>3, <1>4, <2>2
    <2> HIDE DEF t
    <2>4. PointerAt(e, t, a) = PointerAt(disk, t, a)
      <3>1. CASE \E p \in 0 .. N_DIRECT - 1 : a = AtDirect(p)
        BY <1>1, <2>1, <3>1, OffTheWay
      <3>2. /\ PointerAt(e, t, AtIndir1) = PointerAt(disk, t, AtIndir1)
            /\ PointerAt(e, t, AtIndir2) = PointerAt(disk, t, AtIndir2)
        BY <1>1, <2>1, OffTheWay
      <3>3. \A p \in 0 .. Pointers - 1 :
               /\ PointerAt(e, t, AtFirst(p)) = PointerAt(disk, t, AtFirst(p))
               /\ PointerAt(e, t, AtSecond(p)) = PointerAt(disk, t, AtSecond(p))
        BY <1>1, <2>1, <2>3, PlaceFacts, OffTheWay
      <3>4. \A p, q \in 0 .. Pointers - 1 :
               PointerAt(e, t, AtThird(p, q)) = PointerAt(disk, t, AtThird(p, q))
        BY <1>1, <2>1, <2>3, <3>3, PlaceFacts, OffTheWay
      <3> QED BY <3>1, <3>2, <3>3, <3>4, PlaceFacts
    <2> QED BY <2>2, <2>4
  <1>5. \A c \in Places : V(disk, i, c) = PointerAt(disk, x, c) /\ V(e, i, c) = PointerAt(e, z, c)
    BY DEF V
  <1>6. /\ x \in InodeType /\ z \in InodeType
        /\ \A j \in 0 .. N_DIRECT - 1 : z.direct[j] = IF j = k THEN w.made[1] ELSE x.direct[j]
        /\ z.indir_1 = IF n = 2 THEN w.made[1] ELSE x.indir_1
        /\ z.indir_2 = IF n = 3 THEN w.made[1] ELSE x.indir_2
    BY <1>1 DEF StoredWay
  <1>7. \A c \in Places : ~On(c) => Alike(disk, e, PointerAt(disk, x, c))
    BY <1>3, <1>5
  <1>8. \A j \in 1 .. n, p \in 0 .. Pointers - 1 :
            Content(w, j).ptrs[p] = Behind(disk, w.found[j], p)
    BY <1>1, ContentBehind
  <1>9. \A j \in 1 .. n : w.found[j] = PointerAt(disk, x, WayPlace(k)[j])
    BY <1>1, WayValues DEF V
  <1> HIDE DEF x, z
  <1>10. ASSUME NEW l \in 1 .. n, l < n, NEW p \in 0 .. Pointers - 1
         PROVE  Behind(e, w.made[l], p) = IF p = Slot(k) THEN w.made[l + 1]
                                          ELSE Behind(disk, w.found[l], p)
    BY <1>2, <1>8, <1>10 DEF StoredWay, Behind
  <1>11. CASE n = 1
    <2>1. /\ k \in 0 .. N_DIRECT - 1 /\ WayPlace(k)[1] = AtDirect(k)
          /\ z.indir_1 = x.indir_1 /\ z.indir_2 = x.indir_2
          /\ \A a : On(a) <=> a = AtDirect(k)
      <3>1. 1 .. n = {1}
        BY <1>11
      <3> QED BY <1>6, <1>11, <3>1, WayPlaces
    <2>2. /\ ~On(AtIndir1) /\ ~On(AtIndir2)
          /\ \A p \in 0 .. Pointers - 1 : ~On(AtSecond(p))
      BY <2>1, PlacesDiffer
    <2>3. PointerAt(e, z, AtDirect(k)) = w.made[1]
      BY <1>1, <1>6, <2>1, PointerFacts
    <2>4. ASSUME NEW p \in 0 .. N_DIRECT - 1, AtDirect(p) # AtDirect(k)
          PROVE  PointerAt(e, z, AtDirect(p)) = PointerAt(disk, x, AtDirect(p))
      BY <1>1, <1>6, <2>1, <2>4, OffTheWay
    <2>5. /\ PointerAt(e, z, AtIndir1) = PointerAt(disk, x, AtIndir1)
          /\ PointerAt(e, z, AtIndir2) = PointerAt(disk, x, AtIndir2)
          /\ \A p \in 0 .. Pointers - 1 :
                /\ PointerAt(e, z, AtFirst(p)) = PointerAt(disk, x, AtFirst(p))
                /\ PointerAt(e, z, AtSecond(p)) = PointerAt(disk, x, AtSecond(p))
      BY <1>1, <1>6, <1>7, <2>1, <2>2, PlaceFacts, OffTheWay
    <2>6. \A p, q \in 0 .. Pointers - 1 :
             PointerAt(e, z, AtThird(p, q)) = PointerAt(disk, x, AtThird(p, q))
      BY <1>1, <1>6, <1>7, <2>2, <2>5, PlaceFacts, OffTheWay
    <2>7. ASSUME NEW a \in Places, ~On(a) PROVE PointerAt(e, z, a) = PointerAt(disk, x, a)
      <3>1. a # AtDirect(k)
        BY <2>1, <2>7
      <3> QED BY <2>4, <2>5, <2>6, <3>1, PlaceFacts
    <2>8. \A j \in 1 .. n : PointerAt(e, z, WayPlace(k)[j]) = w.made[j]
      <3>1. \A j \in 1 .. n : j = 1
        BY <1>11
      <3> QED BY <2>1, <2>3, <3>1
    <2>9. \A j \in 1 .. n : V(e, i, WayPlace(k)[j]) = w.made[j]
      BY <1>5, <2>8, WayPlaces
    <2> QED BY <1>4, <1>5, <2>7, <2>9 DEF WayMoved
  <1>12. CASE n = 2
    <2> DEFINE s == Slot(k)
    <2>1. /\ s \in 0 .. Pointers - 1 /\ WayPlace(k)[1] = AtIndir1 /\ WayPlace(k)[2] = AtFirst(s)
          /\ z.indir_1 = w.made[1] /\ z.indir_2 = x.indir_2 /\ k \notin 0 .. N_DIRECT - 1
          /\ \A a : On(a) <=> a = AtIndir1 \/ a = AtFirst(s)
          /\ 1 \in 1 .. n /\ 1 < n /\ 1 + 1 = 2
      <3>1. 1 .. n = {1, 2} /\ 2 # 1 /\ 2 # 3 /\ 2 > 1 /\ n > 1
        BY <1>12
      <3>2. ~(k < N_DIRECT)
        BY <1>12, <3>1, WayPlaces
      <3>3. k \notin 0 .. N_DIRECT - 1
        BY <3>2, Sizes
      <3> QED BY <1>6, <1>12, <3>1, <3>3, WayPlaces
    <2>2. /\ ~On(AtIndir2)
          /\ \A p \in 0 .. Pointers - 1 : ~On(AtSecond(p))
      BY <2>1, PlacesDiffer
    <2>3. PointerAt(e, z, AtIndir1) = w.made[1]
      BY <1>1, <1>6, <2>1, PointerFacts
    <2>4. ASSUME NEW p \in 0 .. N_DIRECT - 1
          PROVE  PointerAt(e, z, AtDirect(p)) = PointerAt(disk, x, AtDirect(p))
      BY <1>1, <1>6, <2>1, <2>4, OffTheWay
    <2>5. /\ PointerAt(e, z, AtIndir2) = PointerAt(disk, x, AtIndir2)
          /\ \A p \in 0 .. Pointers - 1 :
                PointerAt(e, z, AtSecond(p)) = PointerAt(disk, x, AtSecond(p))
      BY <1>1, <1>6, <1>7, <2>1, <2>2, PlaceFacts, OffTheWay
    <2>6. \A p, q \in 0 .. Pointers - 1 :
             PointerAt(e, z, AtThird(p, q)) = PointerAt(disk, x, AtThird(p, q))
      BY <1>1, <1>6, <1>7, <2>2, <2>5, PlaceFacts, OffTheWay
    <2>10. ASSUME NEW p \in 0 .. Pointers - 1
           PROVE  PointerAt(e, z, AtFirst(p)) = IF p = s THEN w.made[2]
                                                ELSE PointerAt(disk, x, AtFirst(p))
      <3>1. PointerAt(e, z, AtFirst(p)) = Behind(e, w.made[1], p)
        BY <1>1, <1>6, <2>1, PointerFacts
      <3>2. PointerAt(disk, x, AtFirst(p)) = Behind(disk, w.found[1], p)
        BY <1>1, <1>6, <1>9, <2>1, PointerFacts
      <3> QED BY <1>10, <2>1, <3>1, <3>2
    <2>7. ASSUME NEW a \in Places, ~On(a) PROVE PointerAt(e, z, a) = PointerAt(disk, x, a)
      <3>1. a # AtIndir1 /\ a # AtFirst(s)
        BY <2>1, <2>7
      <3> QED BY <2>4, <2>5, <2>6, <2>10, <3>1, PlaceFacts
    <2>8. \A j \in 1 .. n : PointerAt(e, z, WayPlace(k)[j]) = w.made[j]
      <3>1. \A j \in 1 .. n : j = 1 \/ j = 2
        BY <1>12
      <3> QED BY <2>1, <2>3, <2>10, <3>1
    <2>9. \A j \in 1 .. n : V(e, i, WayPlace(k)[j]) = w.made[j]
      BY <1>5, <2>8, WayPlaces
    <2> QED BY <1>4, <1>5, <2>7, <2>9 DEF WayMoved
  <1>13. CASE n = 3
    <2>1. /\ 0 \in 0 .. Pointers - 1 /\ Slot(k) = 0
          /\ WayPlace(k)[1] = AtIndir2 /\ WayPlace(k)[2] = AtSecond(0) /\ WayPlace(k)[3] = AtThird(0, 0)
          /\ z.indir_2 = w.made[1] /\ z.indir_1 = x.indir_1 /\ k \notin 0 .. N_DIRECT - 1
          /\ \A a : On(a) <=> a = AtIndir2 \/ a = AtSecond(0) \/ a = AtThird(0, 0)
          /\ 1 \in 1 .. n /\ 1 < n /\ 1 + 1 = 2 /\ 2 \in 1 .. n /\ 2 < n /\ 2 + 1 = 3
      <3>1. 1 .. n = {1, 2, 3} /\ 3 # 1 /\ 2 # 3 /\ 3 > 1 /\ n > 1 /\ n > 2
        BY <1>13
      <3>2. ~(k < N_DIRECT)
        BY <1>13, <3>1, WayPlaces
      <3>3. k \notin 0 .. N_DIRECT - 1 /\ 0 \in 0 .. Pointers - 1
        BY <3>2, Sizes
      <3> QED BY <1>6, <1>13, <3>1, <3>3, WayPlaces
    <2>2. /\ ~On(AtIndir1)
          /\ \A p \in 0 .. Pointers - 1 : ~On(AtFirst(p)) /\ (p # 0 => ~On(AtSecond(p)))
      <3>1. ~On(AtIndir1)
        <4>1. 0 \in 0 .. Pointers - 1
          BY <2>1
        <4>2. AtIndir1 # AtIndir2 /\ AtSecond(0) # AtIndir1 /\ AtThird(0, 0) # AtIndir1
          BY <4>1, PlacesDiffer
        <4>3. On(AtIndir1) <=> AtIndir1 = AtIndir2 \/ AtIndir1 = AtSecond(0) \/ AtIndir1 = AtThird(0, 0)
          BY <2>1
        <4> HIDE DEF On
        <4> QED BY <4>2, <4>3
      <3>2. ASSUME NEW p \in 0 .. Pointers - 1 PROVE ~On(AtFirst(p))
        <4>1. 0 \in 0 .. Pointers - 1
          BY <2>1
        <4>2. AtFirst(p) # AtIndir2 /\ AtFirst(p) # AtSecond(0) /\ AtFirst(p) # AtThird(0, 0)
          BY <4>1, PlacesDiffer
        <4>3. On(AtFirst(p)) <=>
                 AtFirst(p) = AtIndir2 \/ AtFirst(p) = AtSecond(0) \/ AtFirst(p) = AtThird(0, 0)
          BY <2>1
        <4> HIDE DEF On
        <4> QED BY <4>2, <4>3
      <3>3. ASSUME NEW p \in 0 .. Pointers - 1, p # 0 PROVE ~On(AtSecond(p))
        <4>1. AtSecond(p) # AtSecond(0)
          BY <3>3 DEF AtSecond
        <4>2. AtSecond(p) # AtIndir2 /\ AtSecond(p) # AtThird(0, 0)
          BY <2>1, PlacesDiffer
        <4> QED BY <2>1, <4>1, <4>2
      <3> QED BY <3>1, <3>2, <3>3
    <2>3. PointerAt(e, z, AtIndir2) = w.made[1]
      BY <1>1, <1>6, <2>1, PointerFacts
    <2>4. ASSUME NEW p \in 0 .. N_DIRECT - 1
          PROVE  PointerAt(e, z, AtDirect(p)) = PointerAt(disk, x, AtDirect(p))
      BY <1>1, <1>6, <2>1, <2>4, OffTheWay
    <2>5. /\ PointerAt(e, z, AtIndir1) = PointerAt(disk, x, AtIndir1)
          /\ \A p \in 0 .. Pointers - 1 :
                PointerAt(e, z, AtFirst(p)) = PointerAt(disk, x, AtFirst(p))
      BY <1>1, <1>6, <1>7, <2>1, <2>2, PlaceFacts, OffTheWay
    <2>6. ASSUME NEW p \in 0 .. Pointers - 1
          PROVE  PointerAt(e, z, AtSecond(p)) = IF p = 0 THEN w.made[2]
                                                ELSE PointerAt(disk, x, AtSecond(p))
      <3>1. PointerAt(e, z, AtSecond(p)) = Behind(e, w.made[1], p)
        BY <1>1, <1>6, <2>1, PointerFacts
      <3>2. PointerAt(disk, x, AtSecond(p)) = Behind(disk, w.found[1], p)
        BY <1>1, <1>6, <1>9, <2>1, PointerFacts
      <3> QED BY <1>10, <2>1, <3>1, <3>2
    <2>10. ASSUME NEW q \in 0 .. Pointers - 1
           PROVE  PointerAt(e, z, AtThird(0, q)) = IF q = 0 THEN w.made[3]
                                                   ELSE PointerAt(disk, x, AtThird(0, q))
      <3>1. PointerAt(e, z, AtThird(0, q)) = Behind(e, w.made[2], q)
        <4>1. PointerAt(e, z, AtThird(0, q)) = Behind(e, PointerAt(e, z, AtSecond(0)), q)
          BY <1>1, <1>6, <2>1, PointerFacts
        <4> QED BY <2>1, <2>6, <4>1
      <3>2. PointerAt(disk, x, AtThird(0, q)) = Behind(disk, w.found[2], q)
        <4>1. PointerAt(disk, x, AtThird(0, q)) = Behind(disk, PointerAt(disk, x, AtSecond(0)), q)
          BY <1>1, <1>6, <2>1, PointerFacts
        <4> QED BY <1>9, <2>1, <4>1
      <3> QED BY <1>10, <2>1, <3>1, <3>2
    <2>11. ASSUME NEW p \in 0 .. Pointers - 1, p # 0, NEW q \in 0 .. Pointers - 1
           PROVE  PointerAt(e, z, AtThird(p, q)) = PointerAt(disk, x, AtThird(p, q))
      <3>1. Alike(disk, e, PointerAt(disk, x, AtSecond(p)))
        BY <1>7, <2>2, <2>11, PlaceFacts
      <3>2. PointerAt(e, z, AtSecond(p)) = PointerAt(disk, x, AtSecond(p))
        BY <2>6, <2>11
      <3> QED BY <1>1, <1>6, <3>1, <3>2, OffTheWay
    <2>7. ASSUME NEW a \in Places, ~On(a) PROVE PointerAt(e, z, a) = PointerAt(disk, x, a)
      <3>1. a # AtIndir2 /\ a # AtSecond(0) /\ a # AtThird(0, 0)
        BY <2>1, <2>7
      <3>2. CASE \E p \in 0 .. Pointers - 1 : a = AtSecond(p)
        BY <2>6, <3>1, <3>2
      <3>3. CASE \E p, q \in 0 .. Pointers - 1 : a = AtThird(p, q)
        BY <2>10, <2>11, <3>1, <3>3
      <3> QED BY <2>4, <2>5, <3>1, <3>2, <3>3, PlaceFacts
    <2>8. \A j \in 1 .. n : PointerAt(e, z, WayPlace(k)[j]) = w.made[j]
      <3>1. \A j \in 1 .. n : j = 1 \/ j = 2 \/ j = 3
        BY <1>13
      <3> QED BY <2>1, <2>3, <2>6, <2>10, <3>1
    <2>9. \A j \in 1 .. n : V(e, i, WayPlace(k)[j]) = w.made[j]
      BY <1>5, <2>8, WayPlaces
    <2> QED BY <1>4, <1>5, <2>7, <2>9 DEF WayMoved
  <1> QED BY <1>11, <1>12, <1>13, WayPlaces

\* The inode and the map in memory once the way is allocated.
LEMMA WithInode ==
    ASSUME FsInv, Ready, NEW i \in Inodes, ~IsDir(i), NEW k \in 0 .. MaxFile,
           NEW w \in Ways(i, k), w.made[1] # ENOSPC
    PROVE  LET m == With(i, k, w)
               x == core.itab[i]
           IN  /\ m.bmap = core.bmap \cup {w.made[j] : j \in New(w)}
               /\ \A j \in 0 .. N_DIRECT - 1 :
                     m.itab[i].direct[j] = IF j = k THEN w.made[1] ELSE x.direct[j]
               /\ m.itab[i].indir_1 = IF Depth(k) = 2 THEN w.made[1] ELSE x.indir_1
               /\ m.itab[i].indir_2 = IF Depth(k) = 3 THEN w.made[1] ELSE x.indir_2
  <1> DEFINE m == With(i, k, w)
             x == core.itab[i]
             b == w.made[1]
             M == core.bmap \cup {w.made[j] : j \in New(w)}
             y == CASE k < N_DIRECT -> [x EXCEPT !.direct[k] = b]
                    [] k \in N_DIRECT .. MaxFile - 1 -> [x EXCEPT !.indir_1 = b]
                    [] k = MaxFile -> [x EXCEPT !.indir_2 = b]
  <1>1. core \in Cores /\ core.itab \in [Inodes -> InodeType] /\ x \in InodeType
    BY ReadyFacts, CoreFields
  <1>2. m = [core EXCEPT !.bmap = M, !.itab = [@ EXCEPT ![i] = y]]
    BY DEF With
  <1>3. b \in Blocks
    <2>1. 1 \in 1 .. Depth(k) /\ w.made \in [1 .. Depth(k) -> Blocks \cup {ENOSPC}]
      BY WaysFacts
    <2> QED BY <2>1
  <1>4. /\ k \in Int /\ 0 <= k /\ k <= MaxFile /\ N_DIRECT \in Nat /\ MaxFile \in Nat
        /\ MaxFile = N_DIRECT + Pointers /\ Pointers \in Nat /\ Pointers > 0
    BY Sizes
  <1> HIDE DEF m, b, x, M, MaxFile
  <1>0. /\ x.direct \in [0 .. N_DIRECT - 1 -> Blocks] /\ x.indir_1 \in Blocks
        /\ x.indir_2 \in Blocks
    BY <1>1 DEF InodeType
  <1>5. /\ \A j \in 0 .. N_DIRECT - 1 : y.direct[j] = IF j = k THEN b ELSE x.direct[j]
        /\ y.indir_1 = IF Depth(k) = 2 THEN b ELSE x.indir_1
        /\ y.indir_2 = IF Depth(k) = 3 THEN b ELSE x.indir_2
    <2>1. CASE k < N_DIRECT
      <3> DEFINE g == [x.direct EXCEPT ![k] = b]
      <3>1. /\ k \in 0 .. N_DIRECT - 1 /\ k < N_DIRECT
            /\ ~(k \in N_DIRECT .. MaxFile - 1) /\ k # MaxFile /\ Depth(k) = 1
        BY <1>4, <2>1 DEF Depth
      <3>2. y = [x EXCEPT !.direct[k] = b]
        BY <3>1
      <3>3. y = [x EXCEPT !.direct = g]
        <4> HIDE DEF y
        <4> QED BY <3>2
      <3>4. \A j \in 0 .. N_DIRECT - 1 : g[j] = IF j = k THEN b ELSE x.direct[j]
        BY <1>0, <3>1
      <3> HIDE DEF y, g
      <3>5. y.direct = g /\ y.indir_1 = x.indir_1 /\ y.indir_2 = x.indir_2
        BY <1>1, <3>3 DEF InodeType
      <3> QED BY <3>1, <3>4, <3>5
    <2>2. CASE k \in N_DIRECT .. MaxFile - 1
      <3>1. y = [x EXCEPT !.indir_1 = b] /\ Depth(k) = 2 /\ k \notin 0 .. N_DIRECT - 1
        BY <1>4, <2>2 DEF Depth
      <3> HIDE DEF y
      <3>2. y.direct = x.direct /\ y.indir_1 = b /\ y.indir_2 = x.indir_2
        BY <1>1, <3>1 DEF InodeType
      <3> QED BY <3>1, <3>2
    <2>3. CASE k = MaxFile
      <3>1. y = [x EXCEPT !.indir_2 = b] /\ Depth(k) = 3 /\ k \notin 0 .. N_DIRECT - 1
        BY <1>4, <2>3 DEF Depth
      <3> HIDE DEF y
      <3>2. y.direct = x.direct /\ y.indir_1 = x.indir_1 /\ y.indir_2 = b
        BY <1>1, <3>1 DEF InodeType
      <3> QED BY <3>1, <3>2
    <2> QED BY <1>4, <2>1, <2>2, <2>3
  <1> HIDE DEF y
  <1>6. m.bmap = M /\ m.itab = [core.itab EXCEPT ![i] = y]
    BY <1>1, <1>2 DEF Cores
  <1>7. m.itab[i] = y
    BY <1>1, <1>6
  <1> QED BY <1>5, <1>6, <1>7 DEF m, M, b, x

\* The same of the inode with its new size.
LEMMA GrownWay ==
    ASSUME FsInv, Ready, NEW i \in Inodes, ~IsDir(i), NEW k \in 0 .. MaxFile,
           NEW w \in Ways(i, k), w.made[1] # ENOSPC, NEW d \in Chunks
    PROVE  LET end == k * BLOCK_SIZE + (IF k < MaxFile THEN Len(d) ELSE 0)
               m == [With(i, k, w) EXCEPT !.itab[i] = Grown(@, end)]
               x == core.itab[i]
           IN  /\ m.bmap = core.bmap \cup {w.made[j] : j \in New(w)}
               /\ \A j \in 0 .. N_DIRECT - 1 :
                     m.itab[i].direct[j] = IF j = k THEN w.made[1] ELSE x.direct[j]
               /\ m.itab[i].indir_1 = IF Depth(k) = 2 THEN w.made[1] ELSE x.indir_1
               /\ m.itab[i].indir_2 = IF Depth(k) = 3 THEN w.made[1] ELSE x.indir_2
               /\ m.itab[i].size = IF end > x.size THEN end ELSE x.size
  <1> DEFINE end == k * BLOCK_SIZE + (IF k < MaxFile THEN Len(d) ELSE 0)
             p == With(i, k, w)
             m == [p EXCEPT !.itab[i] = Grown(@, end)]
             y == Grown(p.itab[i], end)
  <1>1. /\ p \in Cores /\ p.itab \in [Inodes -> InodeType] /\ p.itab[i] \in InodeType
        /\ p.itab[i].size = core.itab[i].size
    BY WithFacts, CoreFields
  <1>2. end \in 0 .. MaxFile * BLOCK_SIZE
    <2>1. Len(d) \in Nat /\ Len(d) <= BLOCK_SIZE
      BY DEF Chunks
    <2> QED BY <2>1, EndWithin
  <1>3. /\ p.bmap = core.bmap \cup {w.made[j] : j \in New(w)}
        /\ \A j \in 0 .. N_DIRECT - 1 :
              p.itab[i].direct[j] = IF j = k THEN w.made[1] ELSE core.itab[i].direct[j]
        /\ p.itab[i].indir_1 = IF Depth(k) = 2 THEN w.made[1] ELSE core.itab[i].indir_1
        /\ p.itab[i].indir_2 = IF Depth(k) = 3 THEN w.made[1] ELSE core.itab[i].indir_2
    BY WithInode
  <1> HIDE DEF p, end
  <1>4. /\ y.direct = p.itab[i].direct /\ y.indir_1 = p.itab[i].indir_1
        /\ y.indir_2 = p.itab[i].indir_2
    BY <1>1, <1>2, GrownInode
  <1>5. y.size = IF end > p.itab[i].size THEN end ELSE p.itab[i].size
    BY <1>1 DEF Grown, InodeType
  <1>6. m = [p EXCEPT !.itab = [@ EXCEPT ![i] = y]]
    OBVIOUS
  <1> HIDE DEF y, m
  <1>7. m.bmap = p.bmap /\ m.itab = [p.itab EXCEPT ![i] = y]
    BY <1>1, <1>6 DEF Cores
  <1>8. m.itab[i] = y
    BY <1>1, <1>7
  <1>9. /\ m.bmap = core.bmap \cup {w.made[j] : j \in New(w)}
        /\ \A j \in 0 .. N_DIRECT - 1 :
              m.itab[i].direct[j] = IF j = k THEN w.made[1] ELSE core.itab[i].direct[j]
        /\ m.itab[i].indir_1 = IF Depth(k) = 2 THEN w.made[1] ELSE core.itab[i].indir_1
        /\ m.itab[i].indir_2 = IF Depth(k) = 3 THEN w.made[1] ELSE core.itab[i].indir_2
        /\ m.itab[i].size = IF end > core.itab[i].size THEN end ELSE core.itab[i].size
    BY <1>1, <1>3, <1>4, <1>5, <1>7, <1>8
  <1> QED BY <1>9 DEF end, p, m

LEMMA HeldFacts ==
    ASSUME NEW d
    PROVE  /\ \A x \in FileNodes, a \in Places : V(d, x, a) # 0 => V(d, x, a) \in Held(d)
           /\ \A v \in Held(d) : v # 0 /\ \E x \in FileNodes, a \in Places : v = V(d, x, a)
  BY DEF Held

\* The device stays in order when fs_write gives the file the blocks it lacks.
LEMMA GrowKept ==
    ASSUME FsInv, Ready, NEW i \in FileNodes, ~IsDir(i), core.itab[i].kind # "none",
           NEW k \in 0 .. MaxFile, NEW w \in Ways(i, k), w.made[Depth(k)] # ENOSPC,
           Kept(disk, core.bmap, lost), NEW e \in GoodDisks, StoredWay(i, k, w, e),
           e.imap = core.imap, e.itab[i].kind = core.itab[i].kind
    PROVE  Kept(e, core.bmap \cup {w.made[j] : j \in New(w)}, lost)
  <1> DEFINE n == Depth(k)
             A(j) == WayPlace(k)[j]
             b(j) == w.made[j]
             M == core.bmap \cup {w.made[j] : j \in New(w)}
             On(x, a) == \E j \in 1 .. n : x = i /\ a = A(j)
             G == {b(j) : j \in 1 .. n}
  <1>1. /\ i \in Inodes /\ disk.itab = core.itab /\ disk.imap \subseteq core.imap
    BY ReadyFacts DEF FileNodes
  <1>2. WayMoved(i, k, w, e)
    BY WayMoves
  <1>3. /\ \A j \in 1 .. n :
              /\ b(j) \in Blocks /\ b(j) # 0 /\ b(j) # ENOSPC
              /\ b(j) \notin Meta \cup Listing \cup lost
              /\ w.found[j] = 0 => b(j) \notin core.bmap
              /\ \A x \in FileNodes, a \in Places : V(disk, x, a) = b(j) => x = i /\ a = A(j)
        /\ \A j, l \in 1 .. n : b(j) = b(l) => j = l
    BY MadeApart
  <1>4. \A j \in 1 .. n : w.found[j] = V(disk, i, A(j)) /\ A(j) \in Places
    BY <1>1, WayValues, WayPlaces
  <1>5. /\ \A j \in 1 .. n : w.found[j] # 0 => b(j) = w.found[j]
        /\ New(w) = {j \in 1 .. n : w.found[j] = 0 /\ b(j) # ENOSPC}
    BY <1>1, WaysFacts
  <1>6. /\ \A j \in 1 .. n : V(e, i, A(j)) = b(j)
        /\ \A x \in FileNodes, a \in Places : ~On(x, a) => V(e, x, a) = V(disk, x, a)
    BY <1>2 DEF WayMoved
  <1> HIDE DEF n, A, b
  <1>7. \A x \in FileNodes, a \in Places :
           \/ ~On(x, a) /\ V(e, x, a) = V(disk, x, a)
           \/ \E j \in 1 .. n : x = i /\ a = A(j) /\ V(e, x, a) = b(j)
    BY <1>6
  <1>8. /\ \A x \in Inodes : /\ disk.itab[x].kind # "none" => x \in disk.imap
                             /\ disk.itab[x].kind = "none" => disk.itab[x] = NoInode
        /\ \A x, y \in FileNodes, a, c \in Places :
              V(disk, x, a) # 0 /\ V(disk, x, a) = V(disk, y, c) => x = y /\ a = c
        /\ Held(disk) \cap (Meta \cup Listing \cup lost) = {}
        /\ lost \cap (Meta \cup Listing) = {}
        /\ core.bmap = Meta \cup Listing \cup lost \cup Held(disk)
    BY DEF Kept
  <1>9. ASSUME NEW x \in Inodes
        PROVE  /\ e.itab[x].kind # "none" => x \in e.imap
               /\ e.itab[x].kind = "none" => e.itab[x] = NoInode
    <2>1. CASE x = i
      BY <1>1, <1>8, <2>1
    <2>2. CASE x # i
      <3>1. e.itab[x] = disk.itab[x]
        BY <2>2 DEF StoredWay
      <3> QED BY <1>1, <1>8, <3>1
    <2> QED BY <2>1, <2>2
  <1>10. ASSUME NEW x \in FileNodes, NEW y \in FileNodes, NEW a \in Places, NEW c \in Places,
                V(e, x, a) # 0, V(e, x, a) = V(e, y, c)
         PROVE  x = y /\ a = c
    <2>1. CASE ~On(x, a) /\ ~On(y, c)
      BY <1>6, <1>8, <1>10, <2>1
    <2>2. CASE On(x, a) /\ On(y, c)
      <3>1. PICK j \in 1 .. n : x = i /\ a = A(j)
        BY <2>2
      <3>2. PICK l \in 1 .. n : y = i /\ c = A(l)
        BY <2>2
      <3>3. b(j) = b(l)
        BY <1>6, <1>10, <3>1, <3>2
      <3>4. j = l
        BY <1>3, <3>3
      <3> QED BY <3>1, <3>2, <3>4
    <2>3. CASE On(x, a) /\ ~On(y, c)
      <3>1. PICK j \in 1 .. n : x = i /\ a = A(j)
        BY <2>3
      <3>2. V(disk, y, c) = b(j)
        BY <1>6, <1>10, <2>3, <3>1
      <3> QED BY <1>3, <2>3, <3>2
    <2>4. CASE ~On(x, a) /\ On(y, c)
      <3>1. PICK j \in 1 .. n : y = i /\ c = A(j)
        BY <2>4
      <3>2. V(disk, x, a) = b(j)
        BY <1>6, <1>10, <2>4, <3>1
      <3> QED BY <1>3, <2>4, <3>2
    <2> QED BY <2>1, <2>2, <2>3, <2>4
  <1>11. Held(e) = Held(disk) \cup G
    <2>1. ASSUME NEW v \in Held(e) PROVE v \in Held(disk) \cup G
      <3>1. PICK x \in FileNodes, a \in Places : v = V(e, x, a) /\ v # 0
        BY HeldFacts
      <3> QED BY <1>7, <3>1, HeldFacts
    <2>2. ASSUME NEW v \in Held(disk) PROVE v \in Held(e)
      <3>1. PICK x \in FileNodes, a \in Places : v = V(disk, x, a) /\ v # 0
        BY HeldFacts
      <3>2. CASE ~On(x, a)
        BY <1>6, <3>1, <3>2, HeldFacts
      <3>3. CASE On(x, a)
        <4>1. PICK j \in 1 .. n : x = i /\ a = A(j)
          BY <3>3
        <4>2. V(e, x, a) = v
          BY <1>4, <1>5, <1>6, <3>1, <4>1
        <4> QED BY <3>1, <4>2, HeldFacts
      <3> QED BY <3>2, <3>3
    <2>3. ASSUME NEW j \in 1 .. n PROVE b(j) \in Held(e)
      <3>1. V(e, i, A(j)) = b(j) /\ b(j) # 0 /\ A(j) \in Places
        BY <1>3, <1>4, <1>6
      <3> QED BY <3>1, HeldFacts
    <2> QED BY <2>1, <2>2, <2>3
  <1>12. M = core.bmap \cup G
    <2>1. \A j \in 1 .. n : b(j) \in M
      <3> SUFFICES ASSUME NEW j \in 1 .. n PROVE b(j) \in M
        OBVIOUS
      <3>1. CASE w.found[j] = 0
        <4>1. j \in New(w)
          BY <1>3, <1>5, <3>1
        <4> QED BY <4>1 DEF b
      <3>2. CASE w.found[j] # 0
        <4>1. b(j) \in Held(disk)
          BY <1>4, <1>5, <3>2, HeldFacts
        <4> QED BY <1>8, <4>1
      <3> QED BY <3>1, <3>2
    <2>2. \A j \in New(w) : w.made[j] \in G
      BY <1>5 DEF b
    <2> QED BY <2>1, <2>2
  <1>13. G \cap (Meta \cup Listing \cup lost) = {}
    BY <1>3
  <1> HIDE DEF M, G
  <1>14. /\ Held(e) \cap (Meta \cup Listing \cup lost) = {}
         /\ M = Meta \cup Listing \cup lost \cup Held(e)
    BY <1>8, <1>11, <1>12, <1>13
  <1>15. Kept(e, M, lost)
    BY <1>8, <1>9, <1>10, <1>14 DEF Kept
  <1> QED BY <1>15 DEF M

\* Inodes with the same pointers, on devices with the same pointers.
LEMMA SamePointers ==
    ASSUME NEW d \in Disks, NEW e \in Disks, SameStore(d, e),
           NEW x \in InodeType, NEW y \in InodeType,
           \A k \in 0 .. N_DIRECT - 1 : y.direct[k] = x.direct[k],
           y.indir_1 = x.indir_1, y.indir_2 = x.indir_2, NEW a \in Places
    PROVE  PointerAt(e, y, a) = PointerAt(d, x, a)
  <1>1. \A b \in Blocks : Alike(d, e, b)
    BY DEF SameStore, Alike
  <1>2. \A c \in Places : Alike(d, e, PointerAt(d, x, c))
    BY <1>1, PointerTypes
  <1>3. CASE \E p \in 0 .. N_DIRECT - 1 : a = AtDirect(p)
    BY <1>3, OffTheWay
  <1>4. /\ PointerAt(e, y, AtIndir1) = PointerAt(d, x, AtIndir1)
        /\ PointerAt(e, y, AtIndir2) = PointerAt(d, x, AtIndir2)
    BY OffTheWay
  <1>5. \A p \in 0 .. Pointers - 1 :
           /\ PointerAt(e, y, AtFirst(p)) = PointerAt(d, x, AtFirst(p))
           /\ PointerAt(e, y, AtSecond(p)) = PointerAt(d, x, AtSecond(p))
    BY <1>2, PlaceFacts, OffTheWay
  <1>6. \A p, q \in 0 .. Pointers - 1 :
           PointerAt(e, y, AtThird(p, q)) = PointerAt(d, x, AtThird(p, q))
    BY <1>2, <1>5, PlaceFacts, OffTheWay
  <1> QED BY <1>3, <1>4, <1>5, <1>6, PlaceFacts

\* An inode without pointers names no block.
LEMMA NoPointers ==
    ASSUME NEW d \in Disks, NEW x \in InodeType, \A k \in 0 .. N_DIRECT - 1 : x.direct[k] = 0,
           x.indir_1 = 0, x.indir_2 = 0, NEW a \in Places
    PROVE  PointerAt(d, x, a) = 0
  <1>1. \A p \in 0 .. Pointers - 1 : Behind(d, 0, p) = 0
    BY DEF Behind
  <1>2. CASE \E p \in 0 .. N_DIRECT - 1 : a = AtDirect(p)
    BY <1>2, PointerFacts
  <1>3. PointerAt(d, x, AtIndir1) = 0 /\ PointerAt(d, x, AtIndir2) = 0
    BY PointerFacts
  <1>4. \A p \in 0 .. Pointers - 1 : PointerAt(d, x, AtFirst(p)) = 0 /\ PointerAt(d, x, AtSecond(p)) = 0
    BY <1>1, PointerFacts
  <1>5. \A p, q \in 0 .. Pointers - 1 : PointerAt(d, x, AtThird(p, q)) = 0
    BY <1>1, PointerFacts
  <1> QED BY <1>2, <1>3, <1>4, <1>5, PlaceFacts

\* What the places name is what the node owns.
LEMMA OwnedPlaces ==
    ASSUME NEW d \in Disks, NEW x \in InodeType
    PROVE  /\ Owned(d, x) = {PointerAt(d, x, a) : a \in Places} \ {0}
           /\ Second(d, x) \subseteq Owned(d, x)
  <1> DEFINE A == {PointerAt(d, x, a) : a \in Places}
             X == DirectOf(x)
             T(b) == {Behind(d, b, p) : p \in 0 .. Pointers - 1}
             S == Second(d, x)
             U == UNION {Targets(d, b) : b \in S}
  <1>1. /\ x.direct \in [0 .. N_DIRECT - 1 -> Blocks] /\ x.indir_1 \in Blocks
        /\ x.indir_2 \in Blocks
    BY DEF InodeType
  <1>2. \A b : b # 0 => Targets(d, b) = T(b)
    BY DEF Targets, Behind
  <1>3. T(0) \subseteq {0} /\ Targets(d, 0) = {}
    BY DEF Targets, Behind
  <1>4. /\ \A k \in 0 .. N_DIRECT - 1 : PointerAt(d, x, AtDirect(k)) = x.direct[k]
        /\ PointerAt(d, x, AtIndir1) = x.indir_1
        /\ PointerAt(d, x, AtIndir2) = x.indir_2
        /\ \A p \in 0 .. Pointers - 1 : PointerAt(d, x, AtFirst(p)) = Behind(d, x.indir_1, p)
        /\ \A p \in 0 .. Pointers - 1 : PointerAt(d, x, AtSecond(p)) = Behind(d, x.indir_2, p)
        /\ \A p, q \in 0 .. Pointers - 1 :
              PointerAt(d, x, AtThird(p, q)) = Behind(d, Behind(d, x.indir_2, p), q)
    BY PointerFacts
  <1>5. X = {x.direct[k] : k \in 0 .. N_DIRECT - 1}
    BY <1>1 DEF DirectOf
  <1>6. S = T(x.indir_2) \ {0}
    BY <1>2, <1>3 DEF Second, NonZero
  <1>7. Owned(d, x) = (X \cup {x.indir_1, x.indir_2} \cup Targets(d, x.indir_1) \cup S \cup U) \ {0}
    BY DEF Owned, NonZero
  <1> HIDE DEF X, S
  <1>8. ASSUME NEW v \in Owned(d, x) PROVE v \in A \ {0}
    <2>0. v # 0
      BY <1>7
    <2>1. CASE v \in X
      BY <1>4, <1>5, <2>0, <2>1, PlaceFacts
    <2>2. CASE v \in {x.indir_1, x.indir_2}
      BY <1>4, <2>0, <2>2, PlaceFacts
    <2>3. CASE v \in Targets(d, x.indir_1)
      <3>1. v \in T(x.indir_1)
        BY <1>2, <1>3, <2>3
      <3> QED BY <1>4, <2>0, <3>1, PlaceFacts
    <2>4. CASE v \in S
      <3>1. PICK p \in 0 .. Pointers - 1 : v = Behind(d, x.indir_2, p)
        BY <1>6, <2>4
      <3> QED BY <1>4, <2>0, <3>1, PlaceFacts
    <2>5. CASE v \in U
      <3>1. PICK b \in S : v \in Targets(d, b)
        BY <2>5
      <3>2. PICK p \in 0 .. Pointers - 1 : b = Behind(d, x.indir_2, p) /\ b # 0
        BY <1>6
      <3>3. PICK q \in 0 .. Pointers - 1 : v = Behind(d, b, q)
        BY <1>2, <3>1, <3>2
      <3>4. v = PointerAt(d, x, AtThird(p, q)) /\ AtThird(p, q) \in Places
        BY <1>4, <3>2, <3>3, PlaceFacts
      <3> QED BY <2>0, <3>4
    <2> QED BY <1>7, <2>1, <2>2, <2>3, <2>4, <2>5
  <1>9. ASSUME NEW a \in Places, PointerAt(d, x, a) # 0 PROVE PointerAt(d, x, a) \in Owned(d, x)
    <2> DEFINE v == PointerAt(d, x, a)
    <2>1. CASE \E k \in 0 .. N_DIRECT - 1 : a = AtDirect(k)
      <3>1. v \in X
        BY <1>4, <1>5, <2>1
      <3> QED BY <1>7, <1>9, <3>1
    <2>2. CASE a = AtIndir1 \/ a = AtIndir2
      BY <1>4, <1>7, <1>9, <2>2
    <2>3. ASSUME NEW p \in 0 .. Pointers - 1, a = AtFirst(p) PROVE v \in Owned(d, x)
      <3>1. v = Behind(d, x.indir_1, p) /\ v \in T(x.indir_1)
        BY <1>4, <2>3
      <3>2. v \in Targets(d, x.indir_1)
        BY <1>2, <1>3, <1>9, <3>1
      <3> QED BY <1>7, <1>9, <3>2
    <2>4. ASSUME NEW p \in 0 .. Pointers - 1, a = AtSecond(p) PROVE v \in Owned(d, x)
      <3>1. v = Behind(d, x.indir_2, p) /\ v \in T(x.indir_2)
        BY <1>4, <2>4
      <3> QED BY <1>6, <1>7, <1>9, <3>1
    <2>5. ASSUME NEW p \in 0 .. Pointers - 1, NEW q \in 0 .. Pointers - 1, a = AtThird(p, q)
          PROVE  v \in Owned(d, x)
      <3> DEFINE b == Behind(d, x.indir_2, p)
      <3>1. v = Behind(d, b, q)
        BY <1>4, <2>5
      <3>2. b \in T(x.indir_2)
        OBVIOUS
      <3> HIDE DEF b, v
      <3>3. b # 0
        BY <1>9, <3>1 DEF Behind, v
      <3>4. b \in S /\ v \in Targets(d, b)
        BY <1>2, <1>6, <3>1, <3>2, <3>3
      <3> QED BY <1>7, <1>9, <3>4 DEF v
    <2> QED BY <2>1, <2>2, <2>3, <2>4, <2>5, PlaceFacts
  <1>10. S \subseteq Owned(d, x)
    BY <1>6, <1>7
  <1> QED BY <1>8, <1>9, <1>10 DEF S

\* The inodes in use are marked, others are empty.
Marked(d) == \A i \in Inodes : /\ d.itab[i].kind # "none" => i \in d.imap
                               /\ d.itab[i].kind = "none" => d.itab[i] = NoInode

\* The places name what they named before.
LEMMA KeptAgain ==
    ASSUME NEW d, NEW e, NEW M, NEW L, Kept(d, M, L), Marked(e),
           \A x \in FileNodes, a \in Places : V(e, x, a) = V(d, x, a)
    PROVE  Kept(e, M, L)
  <1>1. Held(e) = Held(d)
    BY DEF Held
  <1> QED BY <1>1 DEF Kept, Marked

LEMMA KeptSame ==
    ASSUME FsInv, Ready, Kept(disk, core.bmap, lost), NEW e \in GoodDisks,
           e.itab = core.itab, disk.imap \subseteq e.imap, SameStore(disk, e)
    PROVE  Kept(e, core.bmap, lost)
  <1>1. disk \in Disks /\ e \in Disks /\ disk.itab = core.itab
    BY ReadyFacts DEF GoodDisks
  <1>2. Marked(e)
    BY <1>1 DEF Kept, Marked
  <1>3. ASSUME NEW x \in FileNodes, NEW a \in Places PROVE V(e, x, a) = V(disk, x, a)
    <2> DEFINE t == disk.itab[x]
    <2>1. t \in InodeType /\ e.itab[x] = t
      BY <1>1, DiskFields DEF FileNodes
    <2> HIDE DEF t
    <2>2. PointerAt(e, t, a) = PointerAt(disk, t, a)
      BY <1>1, <2>1, SamePointers
    <2> QED BY <2>1, <2>2 DEF V, t
  <1> QED BY <1>2, <1>3, KeptAgain

\* A new node names no block.
LEMMA MakeKept ==
    ASSUME FsInv, Ready, FreeInodes # {}, Kept(disk, core.bmap, lost), NEW e \in GoodDisks,
           e.imap = core.imap \cup {Min(FreeInodes)}, e.itab = Made(Min(FreeInodes), "file").itab,
           SameStore(disk, e)
    PROVE  Kept(e, core.bmap, lost)
  <1> DEFINE i == Min(FreeInodes)
             m == Made(i, "file")
  <1>1. /\ disk \in Disks /\ e \in Disks /\ disk.itab = core.itab /\ core \in Cores
        /\ disk.imap \subseteq core.imap
    BY ReadyFacts DEF GoodDisks
  <1>2. i \in Inodes /\ i \notin core.imap
    BY FreeInodeFacts
  <1> HIDE DEF i
  <1>3. /\ \A j \in Inodes : j # i => m.itab[j] = core.itab[j]
        /\ m.itab[i].kind = "file" /\ m.itab[i].direct[0] = 0
        /\ m.itab[i].indir_1 = core.itab[i].indir_1
        /\ m.itab[i].indir_2 = core.itab[i].indir_2
        /\ \A k \in 1 .. N_DIRECT - 1 : m.itab[i].direct[k] = core.itab[i].direct[k]
    <2>1. "file" \in {"file", "dir"}
      OBVIOUS
    <2> QED BY <1>1, <1>2, <2>1, MadeFacts
  <1>4. core.itab[i] = NoInode
    BY <1>1, <1>2 DEF Kept
  <1>5. \A k \in 0 .. N_DIRECT - 1 : m.itab[i].direct[k] = core.itab[i].direct[k]
    <2>1. \A k \in 0 .. N_DIRECT - 1 : k = 0 \/ k \in 1 .. N_DIRECT - 1
      BY Sizes
    <2> QED BY <1>3, <1>4, <2>1, EmptyTypes
  <1> HIDE DEF m
  <1>6. e.itab = m.itab /\ e.imap = core.imap \cup {i}
    BY DEF m, i
  <1>7. Marked(e)
    <2> SUFFICES ASSUME NEW x \in Inodes
                 PROVE  /\ e.itab[x].kind # "none" => x \in e.imap
                        /\ e.itab[x].kind = "none" => e.itab[x] = NoInode
      BY DEF Marked
    <2>1. CASE x = i
      BY <1>3, <1>6, <2>1
    <2>2. CASE x # i
      BY <1>1, <1>3, <1>6, <2>2 DEF Kept
    <2> QED BY <2>1, <2>2
  <1>8. ASSUME NEW x \in FileNodes, NEW a \in Places PROVE V(e, x, a) = V(disk, x, a)
    <2> DEFINE t == disk.itab[x]
               u == e.itab[x]
    <2>1. t \in InodeType /\ u \in InodeType
      BY <1>1, DiskFields DEF FileNodes
    <2>2. /\ \A k \in 0 .. N_DIRECT - 1 : u.direct[k] = t.direct[k]
          /\ u.indir_1 = t.indir_1 /\ u.indir_2 = t.indir_2
      BY <1>1, <1>3, <1>5, <1>6 DEF FileNodes
    <2> HIDE DEF t, u
    <2>3. PointerAt(e, u, a) = PointerAt(disk, t, a)
      BY <1>1, <2>1, <2>2, SamePointers
    <2> QED BY <2>3 DEF V, t, u
  <1> QED BY <1>7, <1>8, KeptAgain

\* A node that is emptied returns what it named, but for the second-level
\* blocks, which are lost.
LEMMA EmptyKept ==
    ASSUME FsInv, Ready, NEW i \in FileNodes, Kept(disk, core.bmap, lost), NEW e \in GoodDisks,
           SameStore(disk, e), Marked(e), \A x \in Inodes : x # i => e.itab[x] = core.itab[x],
           \A k \in 0 .. N_DIRECT - 1 : e.itab[i].direct[k] = 0,
           e.itab[i].indir_1 = 0, e.itab[i].indir_2 = 0
    PROVE  Kept(e, core.bmap \ Returned(disk, core.itab[i]), lost \cup Second(disk, core.itab[i]))
  <1> DEFINE o == Owned(disk, core.itab[i])
             s == Second(disk, core.itab[i])
             r == Returned(disk, core.itab[i])
  <1>1. /\ disk \in Disks /\ e \in Disks /\ disk.itab = core.itab
        /\ \A x \in FileNodes : /\ x \in Inodes /\ core.itab[x] \in InodeType
                                /\ e.itab[x] \in InodeType
    BY ReadyFacts, CoreFields, DiskFields DEF GoodDisks, FileNodes
  <1>2. /\ o = {V(disk, i, a) : a \in Places} \ {0} /\ s \subseteq o /\ r = o \ s
    BY <1>1, OwnedPlaces DEF V, Returned
  <1> HIDE DEF o, s, r
  <1>3. \A a \in Places : V(e, i, a) = 0
    <2> DEFINE u == e.itab[i]
    <2>1. /\ u \in InodeType /\ \A k \in 0 .. N_DIRECT - 1 : u.direct[k] = 0
          /\ u.indir_1 = 0 /\ u.indir_2 = 0
      BY <1>1
    <2> HIDE DEF u
    <2>2. \A a \in Places : PointerAt(e, u, a) = 0
      BY <1>1, <2>1, NoPointers
    <2> QED BY <2>2 DEF V, u
  <1>4. ASSUME NEW x \in FileNodes, x # i, NEW a \in Places PROVE V(e, x, a) = V(disk, x, a)
    <2> DEFINE t == disk.itab[x]
    <2>1. t \in InodeType /\ e.itab[x] = t
      BY <1>1, <1>4
    <2> HIDE DEF t
    <2>2. PointerAt(e, t, a) = PointerAt(disk, t, a)
      BY <1>1, <2>1, SamePointers
    <2> QED BY <2>1, <2>2 DEF V, t
  <1>5. /\ \A x, y \in FileNodes, a, c \in Places :
              V(disk, x, a) # 0 /\ V(disk, x, a) = V(disk, y, c) => x = y /\ a = c
        /\ Held(disk) \cap (Meta \cup Listing \cup lost) = {}
        /\ lost \cap (Meta \cup Listing) = {}
        /\ core.bmap = Meta \cup Listing \cup lost \cup Held(disk)
    BY DEF Kept
  <1>6. ASSUME NEW x \in FileNodes, NEW y \in FileNodes, NEW a \in Places, NEW c \in Places,
               V(e, x, a) # 0, V(e, x, a) = V(e, y, c)
        PROVE  x = y /\ a = c
    BY <1>3, <1>4, <1>5, <1>6
  <1>7. o \subseteq Held(disk)
    BY <1>2, HeldFacts
  <1>8. Held(e) = Held(disk) \ o
    <2>1. ASSUME NEW v \in Held(e) PROVE v \in Held(disk) \ o
      <3>1. PICK x \in FileNodes, a \in Places : v = V(e, x, a) /\ v # 0
        BY HeldFacts
      <3>2. x # i /\ v = V(disk, x, a)
        BY <1>3, <1>4, <3>1
      <3>3. v \notin o
        BY <1>2, <1>5, <3>1, <3>2
      <3> QED BY <3>1, <3>2, <3>3, HeldFacts
    <2>2. ASSUME NEW v \in Held(disk), v \notin o PROVE v \in Held(e)
      <3>1. PICK x \in FileNodes, a \in Places : v = V(disk, x, a) /\ v # 0
        BY HeldFacts
      <3>2. x # i
        BY <1>2, <2>2, <3>1
      <3> QED BY <1>4, <3>1, <3>2, HeldFacts
    <2> QED BY <2>1, <2>2
  <1>9. /\ Held(e) \cap (Meta \cup Listing \cup (lost \cup s)) = {}
        /\ (lost \cup s) \cap (Meta \cup Listing) = {}
        /\ core.bmap \ r = Meta \cup Listing \cup (lost \cup s) \cup Held(e)
    BY <1>2, <1>5, <1>7, <1>8
  <1>10. Kept(e, core.bmap \ r, lost \cup s)
    BY <1>6, <1>9 DEF Kept, Marked
  <1> QED BY <1>10 DEF r, s

\* Unless the device ran full, it is in order once the writes are through.
OwnInv == ~full => \A e \in GoodDisks : Leads(disk, todo, e) =>
                      e.itab = core.itab /\ Kept(e, core.bmap, lost)

LEMMA OwnReady ==
    ASSUME FsInv, OwnInv, ~full, Ready
    PROVE  Kept(disk, core.bmap, lost)
  <1>1. disk \in GoodDisks /\ Leads(disk, todo, disk)
    BY ReadyFacts, LeadsNone DEF Ready
  <1> QED BY <1>1 DEF OwnInv

LEMMA LeadsNowhere ==
    ASSUME FsInv, NEW e, Leads(disk, <<>>, e)
    PROVE  e = disk /\ disk \in GoodDisks
  BY LeadsEnds

\* A way to a device from here leads to it from the device before a write.
LEMMA LeadsBefore ==
    ASSUME FsInv, FsInv', Flush, NEW e, Leads(disk', todo', e)
    PROVE  Leads(disk, todo, e)
  <1> DEFINE w == Head(todo)
             u == Tail(todo)
  <1>1. todo # <<>> /\ disk' = Written(disk, w) /\ todo' = u
    BY DEF Flush
  <1>2. disk \in GoodDisks /\ todo \in Seq(Writes) /\ disk' \in GoodDisks
    BY LeadsEnds DEF FsInv, Reaches
  <1>3. w \in Writes /\ u \in Seq(Writes) /\ todo = <<w>> \o u
    BY <1>1, <1>2, HeadTailProperties
  <1> HIDE DEF w, u
  <1>4. Leads(disk, <<w>>, disk')
    BY <1>1, <1>2, <1>3, LeadsOne
  <1> QED BY <1>1, <1>3, <1>4, LeadsThen

LEMMA OwnFlush == ASSUME FsInv, FsInv', OwnInv, Flush, UNCHANGED <<full, lost>> PROVE OwnInv'
  <1>1. core' = core
    BY DEF Flush
  <1> SUFFICES ASSUME ~full, NEW e \in GoodDisks, Leads(disk', todo', e)
               PROVE  e.itab = core.itab /\ Kept(e, core.bmap, lost)
    BY <1>1 DEF OwnInv
  <1> QED BY LeadsBefore DEF OwnInv

LEMMA OwnPerform ==
    ASSUME NEW m, NEW ws, Perform(m, ws),
           \A e \in GoodDisks : Leads(disk, ws, e) => e.itab = m.itab /\ Kept(e, m.bmap, lost')
    PROVE  OwnInv'
  <1>1. core' = m /\ todo' = ws /\ disk' = disk
    BY DEF Perform
  <1> QED BY <1>1 DEF OwnInv

-----------------------------------------------------------------------------
(* Each operation leaves the device in order. *)

LEMMA FileNode ==
    ASSUME FsInv, NamesInv, Ready, NEW p \in Paths, translate(p) # 0, ~IsDir(translate(p))
    PROVE  /\ translate(p) \in FileNodes /\ translate(p) \in Inodes
           /\ core.itab[translate(p)].kind # "none"
  <1>1. translate(p) \in Inodes /\ core.itab[translate(p)].kind # "none"
    BY TranslateFacts, ReadyFacts
  <1>2. DOMAIN core.itab = Inodes
    BY ReadyFacts, CoreFields
  <1>3. translate(p) \notin {Root, HomeNode}
    BY <1>1, <1>2 DEF NamesInv, Fixed, IsDir
  <1> QED BY <1>1, <1>3 DEF FileNodes

LEMMA LoadOwn ==
    ASSUME FsInv, MapInv, OwnInv, ~full, fs_getattr, UNCHANGED lost
    PROVE  OwnInv'
  <1>1. Ready /\ Perform(fs_init(disk), <<>>)
    BY DEF fs_getattr
  <1>2. ~MapEnds(todo, core.bmap)
    BY <1>1 DEF Ready, MapEnds
  <1>3. disk.bmap = core.bmap
    BY <1>2 DEF MapInv
  <1>4. fs_init(disk).itab = disk.itab /\ fs_init(disk).bmap = core.bmap
    BY <1>3 DEF fs_init
  <1>5. Kept(disk, core.bmap, lost)
    BY <1>1, OwnReady
  <1> QED BY <1>1, <1>4, <1>5, LeadsNowhere, OwnPerform

LEMMA NoSlotOwn ==
    ASSUME FsInv, OwnInv, ~full, NEW p \in Paths, MakeNoSlot(p), UNCHANGED lost
    PROVE  OwnInv'
  <1> DEFINE m == [core EXCEPT !.imap = @ \cup {Min(FreeInodes)}]
  <1>1. Ready /\ Perform(m, <<>>)
    BY DEF MakeNoSlot, CanMake
  <1>2. core \in Cores /\ disk.itab = core.itab /\ Kept(disk, core.bmap, lost)
    BY <1>1, ReadyFacts, OwnReady
  <1>3. m.bmap = core.bmap /\ m.itab = core.itab
    BY <1>2 DEF Cores
  <1> HIDE DEF m
  <1> QED BY <1>1, <1>2, <1>3, LeadsNowhere, OwnPerform

LEMMA AttributesOwn ==
    ASSUME FsInv, OwnInv, ~full, NEW i \in Inodes, SetAttributes(i), UNCHANGED lost
    PROVE  OwnInv'
  <1>1. Ready /\ Perform(core, update_inode(core, i))
    BY DEF SetAttributes
  <1>2. Kept(disk, core.bmap, lost) /\ disk.imap \subseteq core.imap
    BY <1>1, OwnReady, ReadyFacts
  <1>3. ASSUME NEW e \in GoodDisks, Leads(disk, update_inode(core, i), e)
        PROVE  e.itab = core.itab /\ Kept(e, core.bmap, lost)
    <2>1. e.imap = core.imap /\ e.itab = core.itab /\ SameStore(disk, e)
      BY <1>1, <1>3, AfterAttributes
    <2> QED BY <1>1, <1>2, <2>1, KeptSame
  <1> QED BY <1>1, <1>3, OwnPerform

LEMMA RenameOwn ==
    ASSUME FsInv, OwnInv, ~full, NEW p \in Paths, NEW q \in Paths, fs_rename(p, q), UNCHANGED lost
    PROVE  OwnInv'
  <1>1. Ready /\ Perform(core, <<Renamed(p, q)>>)
    BY DEF fs_rename
  <1>2. Kept(disk, core.bmap, lost)
    BY <1>1, OwnReady
  <1>3. ASSUME NEW e \in GoodDisks, Leads(disk, <<Renamed(p, q)>>, e)
        PROVE  e.itab = core.itab /\ Kept(e, core.bmap, lost)
    <2>1. e.imap = disk.imap /\ e.itab = core.itab /\ SameStore(disk, e)
      BY <1>1, <1>3, AfterRename
    <2> QED BY <1>1, <1>2, <2>1, KeptSame
  <1> QED BY <1>1, <1>3, OwnPerform

LEMMA MakeOwn ==
    ASSUME FsInv, OwnInv, ~full, NEW p \in Paths, Make(p, "file"), UNCHANGED lost
    PROVE  OwnInv'
  <1> DEFINE parent == translate_1(p)
             i == Min(FreeInodes)
             m == Made(i, "file")
             slot == find_free_dir(Dirents(parent))
             ws == update_inode(m, i) \o update_blk(m)
                      \o <<BlkWrite(DirBlk(parent),
                                [disk.blk[DirBlk(parent)] EXCEPT
                                    !.ents[slot] = [name |-> Leaf(p), inode |-> i]])>>
  <1>1. CanMake(p) /\ FreeInodes # {} /\ Perform(m, ws) /\ Ready
    BY DEF Make, CanMake
  <1>2. Kept(disk, core.bmap, lost) /\ core \in Cores
    BY <1>1, OwnReady, ReadyFacts
  <1>3. m.bmap = core.bmap
    BY <1>2 DEF Made, Cores
  <1>4. ASSUME NEW e \in GoodDisks, Leads(disk, ws, e)
        PROVE  e.itab = m.itab /\ Kept(e, core.bmap, lost)
    <2>1. e.imap = core.imap \cup {i} /\ e.itab = m.itab /\ SameStore(disk, e)
      BY <1>1, <1>4, AfterMake
    <2> QED BY <1>1, <1>2, <2>1, MakeKept
  <1> HIDE DEF m, ws
  <1> QED BY <1>1, <1>3, <1>4, OwnPerform

LEMMA TruncateOwn ==
    ASSUME FsInv, NamesInv, OwnInv, ~full, NEW p \in Paths, fs_truncate(p), Emptying(p)
    PROVE  OwnInv'
  <1> DEFINE i == translate(p)
             m == Truncated(i)
             r == Returned(disk, core.itab[i])
             s == Second(disk, core.itab[i])
  <1>1. /\ Ready /\ i # 0 /\ ~IsDir(i) /\ Perform(m, TruncateWrites(i))
        /\ lost' = lost \cup s
    BY DEF fs_truncate, Emptying
  <1>2. i \in FileNodes /\ i \in Inodes /\ core.itab[i].kind # "none"
    BY <1>1, FileNode
  <1> HIDE DEF i
  <1>3. /\ Kept(disk, core.bmap, lost) /\ core \in Cores /\ disk.itab = core.itab
        /\ disk.imap \subseteq core.imap
        /\ core.itab \in [Inodes -> InodeType] /\ core.itab[i] \in InodeType
    BY <1>1, <1>2, OwnReady, ReadyFacts, CoreFields
  <1>4. /\ m.bmap = core.bmap \ r /\ m.itab = [core.itab EXCEPT ![i] = Emptied(core.itab[i])]
    BY <1>3 DEF Truncated, Cores
  <1>5. /\ m.itab[i] = Emptied(core.itab[i]) /\ m.itab[i].kind = core.itab[i].kind
        /\ m.itab[i].indir_1 = 0 /\ m.itab[i].indir_2 = 0
        /\ \A k \in 0 .. N_DIRECT - 1 : m.itab[i].direct[k] = 0
        /\ \A x \in Inodes : x # i => m.itab[x] = core.itab[x]
    <2>1. m.itab[i] = Emptied(core.itab[i]) /\ \A x \in Inodes : x # i => m.itab[x] = core.itab[x]
      BY <1>2, <1>3, <1>4
    <2> QED BY <1>3, <2>1, EmptiedInode
  <1>6. ASSUME NEW e \in GoodDisks, Leads(disk, TruncateWrites(i), e)
        PROVE  e.itab = m.itab /\ Kept(e, m.bmap, lost')
    <2>1. e.imap = core.imap /\ e.itab = m.itab /\ e.blk = disk.blk
      BY <1>1, <1>2, <1>6, AfterTruncate
    <2> HIDE DEF m, r, s
    <2>2. SameStore(disk, e)
      BY <2>1 DEF SameStore
    <2>3. Marked(e)
      <3> SUFFICES ASSUME NEW x \in Inodes
                   PROVE  /\ e.itab[x].kind # "none" => x \in e.imap
                          /\ e.itab[x].kind = "none" => e.itab[x] = NoInode
        BY DEF Marked
      <3>1. core.itab[x].kind # "none" => x \in core.imap
        BY <1>3 DEF Kept
      <3>2. core.itab[x].kind = "none" => core.itab[x] = NoInode
        BY <1>3 DEF Kept
      <3> QED BY <1>2, <1>5, <2>1, <3>1, <3>2
    <2>4. Kept(e, core.bmap \ r, lost \cup s)
      BY <1>1, <1>2, <1>3, <1>5, <2>1, <2>2, <2>3, EmptyKept DEF r, s
    <2> QED BY <1>1, <1>4, <2>1, <2>4
  <1> HIDE DEF m
  <1> QED BY <1>1, <1>6, OwnPerform

LEMMA UnlinkOwn ==
    ASSUME FsInv, NamesInv, OwnInv, ~full, NEW p \in Paths, fs_unlink(p), Emptying(p)
    PROVE  OwnInv'
  <1> DEFINE i == translate(p)
             n == Truncated(i)
             m == Cleared(n, i)
             r == Returned(disk, core.itab[i])
             s == Second(disk, core.itab[i])
             ws == TruncateWrites(i) \o <<Unlisted(DirBlk(translate_1(p)), Leaf(p))>>
                      \o update_inode(m, i) \o update_blk(m)
  <1>1. /\ Ready /\ i # 0 /\ ~IsDir(i) /\ Perform(m, ws)
        /\ lost' = lost \cup s
    BY DEF fs_unlink, Emptying
  <1>2. i \in FileNodes /\ i \in Inodes /\ core.itab[i].kind # "none"
    BY <1>1, FileNode
  <1>6. ASSUME NEW e \in GoodDisks, Leads(disk, ws, e)
        PROVE  e.imap = core.imap \ {i} /\ e.itab = m.itab /\ SameStore(disk, e)
    BY <1>1, <1>6, AfterUnlink
  <1> HIDE DEF i
  <1>3. /\ Kept(disk, core.bmap, lost) /\ core \in Cores /\ disk.itab = core.itab
        /\ disk.imap \subseteq core.imap
        /\ core.itab \in [Inodes -> InodeType]
    BY <1>1, <1>2, OwnReady, ReadyFacts, CoreFields
  <1>4. n \in Cores /\ n.bmap = core.bmap \ r /\ \A x \in Inodes : x # i => n.itab[x] = core.itab[x]
    <2>1. n \in Cores /\ \A x \in Inodes : x # i => n.itab[x] = core.itab[x]
      BY <1>1, <1>2, TruncateLeads
    <2>2. n.bmap = core.bmap \ r
      BY <1>3 DEF Truncated, Cores
    <2> QED BY <2>1, <2>2
  <1> HIDE DEF n, r, s
  <1>5. /\ m.bmap = core.bmap \ r /\ m.itab[i] = NoInode
        /\ \A x \in Inodes : x # i => m.itab[x] = core.itab[x]
    BY <1>2, <1>4, ClearedCore
  <1> HIDE DEF m, ws
  <1>7. ASSUME NEW e \in GoodDisks, Leads(disk, ws, e)
        PROVE  e.itab = m.itab /\ Kept(e, m.bmap, lost')
    <2>1. e.imap = core.imap \ {i} /\ e.itab = m.itab /\ SameStore(disk, e)
      BY <1>6, <1>7
    <2>2. Marked(e)
      <3> SUFFICES ASSUME NEW x \in Inodes
                   PROVE  /\ e.itab[x].kind # "none" => x \in e.imap
                          /\ e.itab[x].kind = "none" => e.itab[x] = NoInode
        BY DEF Marked
      <3>1. core.itab[x].kind # "none" => x \in core.imap
        BY <1>3 DEF Kept
      <3>2. core.itab[x].kind = "none" => core.itab[x] = NoInode
        BY <1>3 DEF Kept
      <3> QED BY <1>2, <1>5, <2>1, <3>1, <3>2, EmptyTypes
    <2>3. Kept(e, core.bmap \ r, lost \cup s)
      BY <1>1, <1>2, <1>3, <1>5, <2>1, <2>2, EmptyTypes, EmptyKept DEF r, s
    <2> QED BY <1>1, <1>5, <2>1, <2>3
  <1> QED BY <1>1, <1>7, OwnPerform

\* The end of a write, and what memory has after it.
EndOf(k, d) == k * BLOCK_SIZE + (IF k < MaxFile THEN Len(d) ELSE 0)
Memory(i, k, w, d) == [With(i, k, w) EXCEPT !.itab[i] = Grown(@, EndOf(k, d))]
Stores(i, k, w, d) == AllocWrites(i, k, w) \o <<Filled(w, d)>>
                         \o update_inode(Memory(i, k, w, d), i) \o update_blk(Memory(i, k, w, d))

\* The units of the block.
StoredData(k, w, d) == d \o SubSeq(Content(w, Depth(k)).data, Len(d) + 1, BLOCK_SIZE)

\* What fs_write stores, as the block and its way are left.
LEMMA StoredFacts ==
    ASSUME FsInv, Ready, NEW i \in FileNodes, ~IsDir(i), core.itab[i].kind # "none",
           Kept(disk, core.bmap, lost), NEW k \in 0 .. MaxFile, NEW w \in Ways(i, k),
           Last(w.made) # ENOSPC, NEW d \in Chunks, NEW e \in GoodDisks,
           Leads(disk, Stores(i, k, w, d), e)
    PROVE  /\ StoredWay(i, k, w, e) /\ w.made[Depth(k)] # ENOSPC
           /\ e.imap = core.imap /\ e.itab = Memory(i, k, w, d).itab
           /\ e.itab[i].kind = core.itab[i].kind
           /\ e.itab[i].size = IF EndOf(k, d) > core.itab[i].size THEN EndOf(k, d)
                               ELSE core.itab[i].size
           /\ Memory(i, k, w, d).bmap = core.bmap \cup {w.made[j] : j \in New(w)}
           /\ e.blk[w.made[Depth(k)]].data = StoredData(k, w, d)
  <1> DEFINE end == k * BLOCK_SIZE + (IF k < MaxFile THEN Len(d) ELSE 0)
             m == [With(i, k, w) EXCEPT !.itab[i] = Grown(@, end)]
             n == Depth(k)
  <1>1. i \in Inodes /\ d \in Seq(Units) /\ Len(d) <= BLOCK_SIZE /\ disk.itab = core.itab
    BY ReadyFacts DEF FileNodes, Chunks
  <1>2. w.made[n] # ENOSPC
    BY <1>1, WaysFacts
  <1>3. WayApart(k, w)
    BY <1>2, MadeWayApart
  <1>4. w.made[1] # ENOSPC
    <2>1. 1 \in 1 .. n
      BY WayPlaces
    <2> QED BY <1>2, <2>1, MadeApart
  <1>5. /\ m \in Cores /\ m.imap = core.imap
        /\ \A x \in Inodes : x # i => m.itab[x] = core.itab[x]
        /\ m.itab[i].kind = core.itab[i].kind
    <2> DEFINE y == With(i, k, w)
    <2> HIDE DEF y, end
    <2>1. /\ m \in Cores /\ m.imap = core.imap /\ core.bmap \subseteq m.bmap
          /\ \A x \in Inodes : x # i => m.itab[x] = core.itab[x]
          /\ m.itab[i].kind = core.itab[i].kind /\ Apart(m.itab[i], Own(disk))
      BY <1>1, GrownCore DEF y, end
    <2> QED BY <2>1
  <1>6. /\ m.bmap = core.bmap \cup {w.made[j] : j \in New(w)}
        /\ \A j \in 0 .. N_DIRECT - 1 :
              m.itab[i].direct[j] = IF j = k THEN w.made[1] ELSE core.itab[i].direct[j]
        /\ m.itab[i].indir_1 = IF Depth(k) = 2 THEN w.made[1] ELSE core.itab[i].indir_1
        /\ m.itab[i].indir_2 = IF Depth(k) = 3 THEN w.made[1] ELSE core.itab[i].indir_2
        /\ m.itab[i].size = IF end > core.itab[i].size THEN end ELSE core.itab[i].size
    BY <1>1, <1>4, GrownWay
  <1>7. Leads(disk, AllocWrites(i, k, w) \o <<Filled(w, d)>> \o update_inode(m, i)
                        \o update_blk(m), e)
    BY DEF Stores, Memory, EndOf
  <1> HIDE DEF m, end
  <1>8. /\ e.imap = core.imap /\ e.itab = m.itab
        /\ \A b \in Blocks : (\A l \in 1 .. n : b # w.made[l]) => e.blk[b] = disk.blk[b]
        /\ \A l \in 1 .. n : l < n =>
              \A p \in 0 .. Pointers - 1 :
                  e.blk[w.made[l]].ptrs[p] = IF p = Slot(k) THEN w.made[l + 1]
                                             ELSE Content(w, l).ptrs[p]
        /\ \A p \in 0 .. Pointers - 1 : e.blk[w.made[n]].ptrs[p] = 0
        /\ e.blk[w.made[n]].data = d \o SubSeq(Content(w, n).data, Len(d) + 1, BLOCK_SIZE)
    <2>1. /\ m \in Cores /\ m.imap = core.imap
          /\ \A x \in Inodes : x # i => m.itab[x] = core.itab[x]
      BY <1>5
    <2> QED BY <1>1, <1>3, <1>7, <2>1, AfterStore
  <1>9. StoredWay(i, k, w, e)
    <2>1. e.itab = m.itab /\ disk.itab = core.itab
      BY <1>1, <1>8
    <2>2. \A x \in Inodes \ {i} : e.itab[x] = disk.itab[x]
      BY <1>5, <2>1
    <2>3. /\ \A j \in 0 .. N_DIRECT - 1 :
                e.itab[i].direct[j] = IF j = k THEN w.made[1] ELSE disk.itab[i].direct[j]
          /\ e.itab[i].indir_1 = IF Depth(k) = 2 THEN w.made[1] ELSE disk.itab[i].indir_1
          /\ e.itab[i].indir_2 = IF Depth(k) = 3 THEN w.made[1] ELSE disk.itab[i].indir_2
      BY <1>6, <2>1
    <2> QED BY <1>8, <2>2, <2>3 DEF StoredWay
  <1>10. end = EndOf(k, d) /\ m = Memory(i, k, w, d)
    BY DEF m, end, EndOf, Memory
  <1> QED BY <1>2, <1>5, <1>6, <1>8, <1>9, <1>10 DEF StoredData

LEMMA WriteOwn ==
    ASSUME FsInv, NamesInv, OwnInv, ~full, NEW p \in Paths, NEW k \in 0 .. MaxFile,
           NEW d \in Chunks, Storing(p, k, d), UNCHANGED lost
    PROVE  OwnInv'
  <1> DEFINE i == translate(p)
  <1>1. Ready /\ i # 0 /\ ~IsDir(i)
    BY DEF Storing, WriteBlock, CanWrite
  <1>2. i \in FileNodes /\ i \in Inodes /\ core.itab[i].kind # "none"
    BY <1>1, FileNode
  <1>3. PICK w \in Ways(i, k) : /\ Last(w.made) # ENOSPC
                                /\ Perform(Memory(i, k, w, d), Stores(i, k, w, d))
    BY DEF Storing, WriteBlock, Memory, Stores, EndOf
  <1> HIDE DEF i
  <1>4. Kept(disk, core.bmap, lost)
    BY <1>1, OwnReady
  <1>5. ASSUME NEW e \in GoodDisks, Leads(disk, Stores(i, k, w, d), e)
        PROVE  e.itab = Memory(i, k, w, d).itab /\ Kept(e, Memory(i, k, w, d).bmap, lost)
    <2>1. /\ StoredWay(i, k, w, e) /\ w.made[Depth(k)] # ENOSPC
          /\ e.imap = core.imap /\ e.itab = Memory(i, k, w, d).itab
          /\ e.itab[i].kind = core.itab[i].kind
          /\ Memory(i, k, w, d).bmap = core.bmap \cup {w.made[j] : j \in New(w)}
      BY <1>1, <1>2, <1>3, <1>4, <1>5, StoredFacts
    <2>2. Kept(e, core.bmap \cup {w.made[j] : j \in New(w)}, lost)
      BY <1>1, <1>2, <1>3, <1>4, <2>1, GrowKept
    <2> QED BY <2>1, <2>2
  <1> QED BY <1>3, <1>5, OwnPerform

LEMMA CommandOwn ==
    ASSUME MakeDirs = FALSE, TypeBits = FALSE, FsInv, NamesInv, MapInv, OwnInv, ~full, cmdloop
    PROVE  OwnInv'
  <1>1. ASSUME NEW p \in Paths, SetAttributes(translate(p)), UNCHANGED lost PROVE OwnInv'
    <2>1. translate(p) \in Inodes
      BY <1>1, TranslateFacts DEF SetAttributes
    <2> QED BY <1>1, <2>1, AttributesOwn
  <1>2. CASE do_rename
    BY <1>2, RenameOwn DEF do_rename, history
  <1>3. CASE do_mkdir \/ do_rmdir
    BY <1>3 DEF do_mkdir, do_rmdir, fs_mkdir, fs_rmdir, CanRmdir
  <1>4. CASE do_utime
    BY <1>1, <1>4 DEF do_utime, history
  <1>11. CASE do_chmod
    BY <1>1, <1>11, Sizes, AttributesOwn DEF do_chmod, fs_chmod, history
  <1>5. CASE do_cd
    BY <1>5, LoadOwn DEF do_cd, history
  <1>6. CASE do_touch
    BY <1>1, <1>6, MakeOwn, NoSlotOwn DEF do_touch, fs_mknod, history
  <1>7. CASE do_truncate
    BY <1>7, TruncateOwn DEF do_truncate
  <1>8. CASE do_rm
    BY <1>8, UnlinkOwn DEF do_rm
  <1>9. CASE PutBegin
    BY <1>9, MakeOwn DEF PutBegin
  <1>10. CASE GetBegin
    BY <1>10 DEF GetBegin, OwnInv, vars, history
  <1> QED BY <1>2, <1>3, <1>4, <1>5, <1>6, <1>7, <1>8, <1>9, <1>10, <1>11 DEF cmdloop

LEMMA PutOwn ==
    ASSUME FsInv, NamesInv, LoopTypes, OwnInv, ~full, PutWrite, ~full'
    PROVE  OwnInv'
  <1> DEFINE k == offset \div BLOCK_SIZE
  <1>1. at = "put" /\ Storing(path, k, Chunk) /\ lost' = lost
    BY DEF PutWrite, Storing
  <1>2. CanWrite(translate(path), k) /\ Ready /\ path \in Paths
    BY <1>1 DEF Storing, WriteBlock, CanWrite, LoopTypes
  <1>3. translate(path) \in Inodes
    BY <1>2, TranslateFacts
  <1>4. k \in 0 .. MaxFile /\ Chunk \in Chunks
    BY <1>1, <1>2, <1>3, BlockWithin, ChunkFacts DEF Chunks
  <1> HIDE DEF k
  <1> QED BY <1>1, <1>2, <1>4, WriteOwn

LEMMA OwnStep ==
    ASSUME MakeDirs = FALSE, TypeBits = FALSE, ShellInv, NamesInv, MapInv, OwnInv, [ShellNext]_svars
    PROVE  OwnInv'
  <1>1. FsInv /\ LoopTypes /\ FsInv'
    BY ShellStepInv DEF ShellInv
  <1>2. CASE full'
    BY <1>2 DEF OwnInv
  <1>3. CASE UNCHANGED <<core, disk, todo, lost, full>>
    BY <1>3 DEF OwnInv
  <1>4. CASE ShellNext /\ ~full'
    <2>1. ~full
      BY <1>1, <1>4, ShellSteps
    <2>2. CASE cmdloop
      BY <1>1, <2>1, <2>2, CommandOwn
    <2>3. CASE PutWrite
      BY <1>1, <1>4, <2>1, <2>3, PutOwn
    <2>4. CASE PutNoSpace
      BY <1>4, <2>4 DEF PutNoSpace
    <2>5. CASE PutEnd \/ GetRead \/ GetEnd
      BY <1>3, <2>5 DEF PutEnd, GetRead, GetEnd, vars, history
    <2>6. CASE Flush /\ UNCHANGED <<loop, history>>
      BY <1>1, <2>6, OwnFlush DEF history
    <2> QED BY <1>4, <2>2, <2>3, <2>4, <2>5, <2>6 DEF ShellNext, Proceed
  <1> QED BY <1>2, <1>3, <1>4 DEF svars, vars, history

LEMMA OwnStart == ASSUME ShellInit PROVE OwnInv
  <1> DEFINE t == [i \in Inodes |-> CASE i = Root -> DirInode(RootBlk)
                                      [] i = HomeNode -> DirInode(HomeBlk)
                                      [] OTHER -> NoInode]
  <1>1. /\ disk.imap = {0, Root, HomeNode} /\ disk.itab = t
        /\ disk.bmap = Meta \cup Listing /\ core.itab = disk.itab /\ core.bmap = disk.bmap
        /\ todo = <<>> /\ lost = {}
    BY DEF ShellInit, Init, fs_init, Listing
  <1>2. FsInv /\ disk \in Disks
    BY InitInv, LeadsEnds DEF ShellInit, FsInv, Reaches, GoodDisks
  <1>3. ASSUME NEW i \in FileNodes PROVE disk.itab[i] = NoInode
    BY <1>1, <1>3 DEF FileNodes
  <1>4. DirInode(RootBlk).kind = "dir" /\ DirInode(HomeBlk).kind = "dir" /\ NoInode.kind = "none"
    BY DEF DirInode, NoInode
  <1>5. ASSUME NEW i \in Inodes
        PROVE  /\ disk.itab[i].kind # "none" => i \in disk.imap
               /\ disk.itab[i].kind = "none" => disk.itab[i] = NoInode
    BY <1>1, <1>4, <1>5
  <1>6. ASSUME NEW i \in FileNodes, NEW a \in Places PROVE V(disk, i, a) = 0
    <2>1. NoInode \in InodeType /\ \A k \in 0 .. N_DIRECT - 1 : NoInode.direct[k] = 0
      BY EmptyTypes DEF NoInode
    <2>2. NoInode.indir_1 = 0 /\ NoInode.indir_2 = 0
      BY DEF NoInode
    <2> QED BY <1>2, <1>3, <2>1, <2>2, NoPointers DEF V
  <1>7. Held(disk) = {}
    BY <1>6 DEF Held
  <1>8. Kept(disk, core.bmap, lost)
    BY <1>1, <1>5, <1>6, <1>7 DEF Kept
  <1> QED BY <1>1, <1>2, <1>8, LeadsNowhere DEF OwnInv

\* Between two commands: the nodes in use, and what belongs to them.
LEMMA BetweenCommands ==
    ASSUME ShellInv, NamesInv, OwnInv, todo = <<>>, ~full
    PROVE  /\ disk \in Disks /\ core.itab = disk.itab /\ core.itab \in [Inodes -> InodeType]
           /\ Kept(disk, core.bmap, lost)
           /\ Root \in LiveNodes /\ HomeNode \in LiveNodes /\ LiveNodes \subseteq Inodes
           /\ OwnedBy(Root) = {RootBlk} /\ OwnedBy(HomeNode) = {HomeBlk}
           /\ IsDir(Root) /\ IsDir(HomeNode)
           /\ \A i \in FileNodes : /\ i \in Inodes /\ ~IsDir(i)
                                   /\ OwnedBy(i) = {V(disk, i, a) : a \in Places} \ {0}
                                   /\ i \notin LiveNodes => \A a \in Places : V(disk, i, a) = 0
  <1>1. PICK e \in GoodDisks : Leads(disk, todo, e) /\ Final(core, e)
    BY DEF ShellInv, FsInv, Reaches
  <1>2. FsInv /\ e = disk
    BY <1>1, LeadsEnds DEF ShellInv
  <1>3. /\ disk \in GoodDisks /\ disk \in Disks /\ core.itab = disk.itab
        /\ disk.imap \subseteq core.imap
    BY <1>1, <1>2 DEF Final, GoodDisks
  <1>4. disk.itab \in [Inodes -> InodeType] /\ core \in Cores /\ core.imap \subseteq Inodes
    BY <1>2, <1>3, DiskFields, CoreFields DEF FsInv, Reaches, Cores
  <1>5. Kept(disk, core.bmap, lost)
    BY <1>1, <1>2, <1>3 DEF OwnInv
  <1>6. {Root, HomeNode} \subseteq Inodes /\ Root # HomeNode
    BY Sizes
  <1>7. \A i \in Inodes : IsDir(i) <=> i \in {Root, HomeNode}
    BY <1>3, <1>4 DEF NamesInv, Fixed, IsDir
  <1>8. DirBlk(Root) = RootBlk /\ DirBlk(HomeNode) = HomeBlk
    BY <1>3, <1>4, <1>6 DEF NamesInv, Fixed, DirBlk
  <1>9. Root \in LiveNodes /\ HomeNode \in LiveNodes /\ LiveNodes \subseteq Inodes
    BY <1>4, <1>6, <1>7 DEF NamesInv, LiveNodes, IsDir
  <1>10. ASSUME NEW i \in FileNodes
         PROVE  /\ i \in Inodes /\ ~IsDir(i)
                /\ OwnedBy(i) = {V(disk, i, a) : a \in Places} \ {0}
                /\ i \notin LiveNodes => \A a \in Places : V(disk, i, a) = 0
    <2>1. i \in Inodes /\ ~IsDir(i)
      BY <1>7 DEF FileNodes
    <2>2. disk.itab[i] \in InodeType
      BY <1>4, <2>1
    <2>3. OwnedBy(i) = {V(disk, i, a) : a \in Places} \ {0}
      BY <1>3, <2>1, <2>2, OwnedPlaces DEF OwnedBy, V
    <2>4. ASSUME i \notin LiveNodes PROVE \A a \in Places : V(disk, i, a) = 0
      <3>1. disk.itab[i].kind = "none"
        BY <1>3, <1>5, <2>1, <2>4 DEF LiveNodes, Kept
      <3>2. disk.itab[i] = NoInode
        BY <1>5, <2>1, <3>1 DEF Kept
      <3>3. /\ NoInode \in InodeType /\ \A k \in 0 .. N_DIRECT - 1 : NoInode.direct[k] = 0
            /\ NoInode.indir_1 = 0 /\ NoInode.indir_2 = 0
        BY EmptyTypes DEF NoInode
      <3> QED BY <1>3, <3>2, <3>3, NoPointers DEF V
    <2> QED BY <2>1, <2>3, <2>4
  <1> QED BY <1>3, <1>4, <1>5, <1>6, <1>7, <1>8, <1>9, <1>10 DEF OwnedBy

LEMMA KeptExclusive ==
    ASSUME ShellInv, NamesInv, OwnInv
    PROVE  BlocksExclusive /\ NoBlockLost
  <1> SUFFICES ASSUME todo = <<>>, ~full
               PROVE  /\ \A i \in LiveNodes : /\ OwnedBy(i) \subseteq core.bmap \ Meta
                                              /\ IsDir(i) \/ ~NamesTwice(disk, core.itab[i])
                      /\ NoSharedBlock
                      /\ core.bmap = Meta \cup lost \cup UNION {OwnedBy(i) : i \in LiveNodes}
    BY DEF BlocksExclusive, NoBlockLost
  <1>1. /\ core.itab = disk.itab /\ Kept(disk, core.bmap, lost)
        /\ Root \in LiveNodes /\ HomeNode \in LiveNodes /\ LiveNodes \subseteq Inodes
        /\ OwnedBy(Root) = {RootBlk} /\ OwnedBy(HomeNode) = {HomeBlk}
        /\ IsDir(Root) /\ IsDir(HomeNode)
        /\ \A i \in FileNodes : /\ i \in Inodes /\ ~IsDir(i)
                                /\ OwnedBy(i) = {V(disk, i, a) : a \in Places} \ {0}
                                /\ i \notin LiveNodes => \A a \in Places : V(disk, i, a) = 0
    BY BetweenCommands
  <1>2. /\ Held(disk) \cap (Meta \cup Listing \cup lost) = {}
        /\ core.bmap = Meta \cup Listing \cup lost \cup Held(disk)
        /\ \A i, j \in FileNodes, a, b \in Places :
              V(disk, i, a) # 0 /\ V(disk, i, a) = V(disk, j, b) => i = j /\ a = b
    BY <1>1 DEF Kept
  <1>3. \A i \in LiveNodes : i \in FileNodes \/ i = Root \/ i = HomeNode
    BY <1>1 DEF FileNodes
  <1>4. RootBlk # HomeBlk /\ RootBlk \notin Meta /\ HomeBlk \notin Meta /\ Root # HomeNode
    BY ListingBlocks, Sizes DEF Meta, HomeBlk, RootBlk
  <1>5. \A i \in FileNodes : OwnedBy(i) \subseteq Held(disk)
    BY <1>1 DEF Held
  <1>6. ASSUME NEW i \in LiveNodes
        PROVE  /\ OwnedBy(i) \subseteq core.bmap \ Meta
               /\ IsDir(i) \/ ~NamesTwice(disk, core.itab[i])
    <2>1. CASE i \in FileNodes
      <3>1. OwnedBy(i) \subseteq core.bmap \ Meta
        BY <1>2, <1>5, <2>1
      <3>2. ~NamesTwice(disk, core.itab[i])
        BY <1>1, <1>2, <2>1 DEF NamesTwice, V
      <3> QED BY <3>1, <3>2
    <2>2. CASE i = Root \/ i = HomeNode
      BY <1>1, <1>2, <1>4, <2>2 DEF Listing
    <2> QED BY <1>3, <2>1, <2>2
  <1>7. ASSUME NEW i \in LiveNodes, NEW j \in LiveNodes, i # j
        PROVE  OwnedBy(i) \cap OwnedBy(j) = {}
    <2>1. CASE i \in FileNodes /\ j \in FileNodes
      <3> SUFFICES ASSUME NEW b \in OwnedBy(i), b \in OwnedBy(j) PROVE FALSE
        OBVIOUS
      <3>1. PICK a \in Places : b = V(disk, i, a) /\ b # 0
        BY <1>1, <2>1
      <3>2. PICK c \in Places : b = V(disk, j, c)
        BY <1>1, <2>1
      <3>3. V(disk, i, a) # 0 /\ V(disk, i, a) = V(disk, j, c)
        BY <3>1, <3>2
      <3>4. i = j
        BY <1>2, <2>1, <3>3
      <3> QED BY <1>7, <3>4
    <2>2. CASE i \in {Root, HomeNode} /\ j \in {Root, HomeNode}
      BY <1>1, <1>4, <1>7, <2>2
    <2>3. CASE i \in {Root, HomeNode} /\ j \in FileNodes
      BY <1>1, <1>2, <1>5, <2>3 DEF Listing
    <2>4. CASE i \in FileNodes /\ j \in {Root, HomeNode}
      BY <1>1, <1>2, <1>5, <2>4 DEF Listing
    <2> QED BY <1>3, <2>1, <2>2, <2>3, <2>4
  <1>8. Listing \cup Held(disk) = UNION {OwnedBy(i) : i \in LiveNodes}
    <2>1. ASSUME NEW b \in Held(disk) PROVE \E i \in LiveNodes : b \in OwnedBy(i)
      <3>1. PICK i \in FileNodes, a \in Places : b = V(disk, i, a) /\ b # 0
        BY <2>1 DEF Held
      <3>2. i \in LiveNodes
        BY <1>1, <3>1
      <3> QED BY <1>1, <3>1, <3>2
    <2>2. ASSUME NEW i \in LiveNodes PROVE OwnedBy(i) \subseteq Listing \cup Held(disk)
      BY <1>1, <1>3, <1>5, <2>2 DEF Listing
    <2>3. Listing \subseteq UNION {OwnedBy(i) : i \in LiveNodes}
      BY <1>1 DEF Listing
    <2> QED BY <2>1, <2>2, <2>3
  <1> QED BY <1>2, <1>6, <1>7, <1>8 DEF NoSharedBlock

\* Whatever is made, put, truncated and removed, in whatever order, between
\* two commands no block belongs to two files, or is named from two places of
\* one file, and what belongs to a file is marked as used: as long as the
\* device does not run full and no directory is made, removed or made a file.
THEOREM BlocksStayExclusive ==
    ASSUME MakeDirs = FALSE, TypeBits = FALSE
    PROVE  ShellSpec => []BlocksExclusive
  <1>1. ShellInit => NamesInv /\ MapInv /\ OwnInv
    BY NamesStart, MapStart, OwnStart DEF ShellInit
  <1>2. ShellInv /\ NamesInv /\ MapInv /\ OwnInv /\ [ShellNext]_svars
           => NamesInv' /\ MapInv' /\ OwnInv'
    BY ShellNames, MapStep, OwnStep
  <1>3. ShellInv /\ NamesInv /\ OwnInv => BlocksExclusive
    BY KeptExclusive
  <1> QED BY <1>1, <1>2, <1>3, ShellInvariant, PTL DEF ShellSpec

\* Under the same conditions a block that is marked as used is one of the
\* metadata, belongs to a directory or a file, or is an index block that
\* truncating has forgotten: fs_truncate and fs_unlink return all others.
THEOREM NoBlockIsLost ==
    ASSUME MakeDirs = FALSE, TypeBits = FALSE
    PROVE  ShellSpec => []NoBlockLost
  <1>1. ShellInit => NamesInv /\ MapInv /\ OwnInv
    BY NamesStart, MapStart, OwnStart DEF ShellInit
  <1>2. ShellInv /\ NamesInv /\ MapInv /\ OwnInv /\ [ShellNext]_svars
           => NamesInv' /\ MapInv' /\ OwnInv'
    BY ShellNames, MapStep, OwnStep
  <1>3. ShellInv /\ NamesInv /\ OwnInv => NoBlockLost
    BY KeptExclusive
  <1> QED BY <1>1, <1>2, <1>3, ShellInvariant, PTL DEF ShellSpec

-----------------------------------------------------------------------------
(* What files hold: the units of a local file, block by block. *)

LEMMA Multiples ==
    ASSUME NEW s \in Nat, NEW a \in Nat, NEW b \in Nat, a < b
    PROVE  a * s \in Nat /\ b * s \in Nat /\ a * s + s <= b * s
  <1>1. PICK r \in Nat : b = a + 1 + r
    <2>1. b - (a + 1) \in Nat /\ b = a + 1 + (b - (a + 1))
      OBVIOUS
    <2> QED BY <2>1
  <1>2. b * s = a * s + s + r * s
    BY <1>1
  <1>3. r * s \in Nat /\ a * s \in Nat /\ b * s \in Nat
    OBVIOUS
  <1> QED BY <1>2, <1>3

\* The place that names the block of a file, up to the first level.
UnitPlace(k) == IF k < N_DIRECT THEN AtDirect(k) ELSE AtFirst(k - N_DIRECT)

\* On the device d the node i has the first n units of c.
HoldsUnits(d, i, c, n) ==
    /\ d.itab[i].size = n /\ n <= Len(c)
    /\ \A k \in 0 .. MaxFile - 1, v \in 1 .. BLOCK_SIZE :
          k * BLOCK_SIZE + v <= n =>
             /\ V(d, i, UnitPlace(k)) # 0
             /\ d.blk[V(d, i, UnitPlace(k))].data[v] = c[k * BLOCK_SIZE + v]

LEMMA UnitPlaces ==
    ASSUME NEW k \in 0 .. MaxFile - 1
    PROVE  /\ UnitPlace(k) \in Places
           /\ k \in 0 .. MaxFile /\ UnitPlace(k) = WayPlace(k)[Depth(k)]
           /\ Depth(k) \in 1 .. 3
           /\ \A l \in 0 .. MaxFile, j \in 1 .. 3 :
                 j \in 1 .. Depth(l) /\ WayPlace(l)[j] = UnitPlace(k) => l = k
  <1>1. /\ k \in Int /\ 0 <= k /\ k < MaxFile /\ N_DIRECT \in Nat /\ MaxFile \in Nat
        /\ MaxFile = N_DIRECT + Pointers /\ Pointers \in Nat /\ 0 \in 0 .. Pointers - 1
    BY Sizes
  <1> HIDE DEF MaxFile
  <1>2. k \in 0 .. MaxFile /\ k # MaxFile
    BY <1>1
  <1>3. k \in 0 .. N_DIRECT - 1 \/ k - N_DIRECT \in 0 .. Pointers - 1
    BY <1>1
  <1>4. UnitPlace(k) \in Places
    BY <1>1, <1>3, PlaceFacts DEF UnitPlace
  <1>5. k < N_DIRECT \/ k \in N_DIRECT .. MaxFile - 1
    BY <1>1
  <1>6. UnitPlace(k) = WayPlace(k)[Depth(k)] /\ Depth(k) \in 1 .. 3
    <2>1. CASE k < N_DIRECT
      BY <1>2, <2>1, WayPlaces DEF UnitPlace
    <2>2. CASE k \in N_DIRECT .. MaxFile - 1
      <3>1. Depth(k) = 2 /\ Slot(k) = k - N_DIRECT /\ ~(k < N_DIRECT)
        BY <1>1, <1>2, <2>2, WayPlaces DEF Slot
      <3> QED BY <1>2, <3>1, WayPlaces DEF UnitPlace
    <2> QED BY <1>5, <2>1, <2>2
  <1>7. ASSUME NEW l \in 0 .. MaxFile, NEW j \in 1 .. 3, j \in 1 .. Depth(l),
               WayPlace(l)[j] = UnitPlace(k)
        PROVE  l = k
    <2>1. CASE Depth(l) = 1
      <3>1. j = 1 /\ l \in 0 .. N_DIRECT - 1 /\ WayPlace(l)[j] = AtDirect(l)
        BY <1>7, <2>1, WayPlaces
      <3> QED BY <1>1, <1>3, <1>7, <3>1, PlacesDiffer DEF UnitPlace
    <2>2. CASE Depth(l) = 2
      <3>0. l \in N_DIRECT .. MaxFile - 1 /\ l < MaxFile
        BY <1>1, <2>2, WayPlaces
      <3>1. /\ Slot(l) \in 0 .. Pointers - 1 /\ Slot(l) = l - N_DIRECT
            /\ WayPlace(l)[1] = AtIndir1 /\ WayPlace(l)[2] = AtFirst(Slot(l))
        <4>1. Slot(l) = l - N_DIRECT
          BY <3>0 DEF Slot
        <4>2. Slot(l) \in 0 .. Pointers - 1
          BY <2>2, WayPlaces
        <4>3. WayPlace(l)[1] = AtIndir1 /\ WayPlace(l)[2] = AtFirst(Slot(l))
          BY <2>2, WayPlaces
        <4> QED BY <4>1, <4>2, <4>3
      <3>2. j = 1 \/ j = 2
        BY <1>7, <2>2
      <3>3. AtDirect(k) # AtFirst(Slot(l)) \/ ~(k \in 0 .. N_DIRECT - 1)
        BY <3>1, PlacesDiffer
      <3>4. UnitPlace(k) # AtIndir1
        BY <1>1, <1>3, PlacesDiffer DEF UnitPlace
      <3>5. UnitPlace(k) = AtFirst(l - N_DIRECT)
        BY <1>7, <3>1, <3>2, <3>4
      <3>6. ~(k < N_DIRECT)
        BY <1>1, <3>1, <3>3, <3>5 DEF UnitPlace
      <3>7. AtFirst(k - N_DIRECT) = AtFirst(l - N_DIRECT) /\ k - N_DIRECT \in 0 .. Pointers - 1
        BY <1>1, <1>3, <3>5, <3>6 DEF UnitPlace
      <3>8. k - N_DIRECT = l - N_DIRECT
        <4> DEFINE a == k - N_DIRECT
                   b == l - N_DIRECT
        <4>1. a \in 0 .. Pointers - 1 /\ b \in 0 .. Pointers - 1 /\ AtFirst(a) = AtFirst(b)
          BY <3>1, <3>7
        <4> HIDE DEF a, b
        <4>2. a = b
          BY <4>1 DEF AtFirst
        <4> QED BY <4>2 DEF a, b
      <3> QED BY <1>1, <3>8
    <2>3. CASE Depth(l) = 3
      <3>1. j = 1 \/ j = 2 \/ j = 3
        BY <1>7
      <3>2. WayPlace(l)[j] \in {AtIndir2, AtSecond(0), AtThird(0, 0)}
        BY <2>3, <3>1, WayPlaces
      <3>3. UnitPlace(k) \notin {AtIndir2, AtSecond(0), AtThird(0, 0)}
        BY <1>1, <1>3, PlacesDiffer DEF UnitPlace
      <3> QED BY <1>7, <3>2, <3>3
    <2> QED BY <2>1, <2>2, <2>3, WayPlaces
  <1> QED BY <1>2, <1>4, <1>6, <1>7

\* The blocks are named and filled as before.
LEMMA UnitsAgain ==
    ASSUME NEW d, NEW e, NEW i, NEW c, NEW n, HoldsUnits(d, i, c, n),
           e.itab[i].size = d.itab[i].size,
           \A k \in 0 .. MaxFile - 1 :
               V(d, i, UnitPlace(k)) # 0 =>
                  /\ V(e, i, UnitPlace(k)) = V(d, i, UnitPlace(k))
                  /\ e.blk[V(d, i, UnitPlace(k))].data = d.blk[V(d, i, UnitPlace(k))].data
    PROVE  HoldsUnits(e, i, c, n)
  BY DEF HoldsUnits

LEMMA SameUnits ==
    ASSUME NEW d \in Disks, NEW e \in Disks, SameStore(d, e), NEW i \in FileNodes,
           e.itab[i] = d.itab[i], NEW c, NEW n, HoldsUnits(d, i, c, n)
    PROVE  HoldsUnits(e, i, c, n)
  <1> DEFINE t == d.itab[i]
  <1>1. t \in InodeType /\ e.itab[i] = t
    BY DiskFields DEF FileNodes
  <1> HIDE DEF t
  <1>2. ASSUME NEW k \in 0 .. MaxFile - 1
        PROVE  /\ V(e, i, UnitPlace(k)) = V(d, i, UnitPlace(k))
               /\ V(d, i, UnitPlace(k)) \in Blocks
    <2>1. UnitPlace(k) \in Places
      BY UnitPlaces
    <2>2. PointerAt(e, t, UnitPlace(k)) = PointerAt(d, t, UnitPlace(k))
      BY <1>1, <2>1, SamePointers
    <2>3. PointerAt(d, t, UnitPlace(k)) \in Blocks
      BY <1>1, <2>1, PointerTypes
    <2> QED BY <1>1, <2>2, <2>3 DEF V, t
  <1>3. ASSUME NEW k \in 0 .. MaxFile - 1
        PROVE  e.blk[V(d, i, UnitPlace(k))].data = d.blk[V(d, i, UnitPlace(k))].data
    BY <1>2 DEF SameStore
  <1> QED BY <1>2, <1>3, UnitsAgain

\* The units before those of a sequence put together of two.
LEMMA FirstPart ==
    ASSUME NEW S, NEW T, NEW d \in Seq(S), NEW x \in Seq(T), NEW v \in 1 .. Len(d)
    PROVE  (d \o x)[v] = d[v]
  OBVIOUS

LEMMA RestIsSeq ==
    ASSUME NEW S, NEW n \in Nat, NEW x \in [1 .. n -> S], NEW m \in Nat
    PROVE  SubSeq(x, m + 1, n) \in Seq(S)
  <1>1. x \in Seq(S) /\ Len(x) = n
    BY LenProperties, SeqDef
  <1>2. CASE m + 1 <= n
    BY <1>1, <1>2, SubSeqProperties
  <1>3. CASE ~(m + 1 <= n)
    BY <1>1, <1>3, SubSeqProperties
  <1> QED BY <1>2, <1>3

\* What a place off the way names is not written.
LEMMA OffTheWayKept ==
    ASSUME FsInv, Ready, NEW i \in FileNodes, NEW k \in 0 .. MaxFile, NEW w \in Ways(i, k),
           NEW M, NEW L, NEW e \in GoodDisks, StoredWay(i, k, w, e), WayMoved(i, k, w, e),
           Kept(e, M, L), NEW y \in FileNodes, NEW a \in Places,
           y # i \/ (\A j \in 1 .. Depth(k) : a # WayPlace(k)[j]), V(disk, y, a) # 0
    PROVE  V(e, y, a) = V(disk, y, a) /\ e.blk[V(disk, y, a)] = disk.blk[V(disk, y, a)]
  <1> DEFINE b == V(disk, y, a)
             t == disk.itab[y]
  <1>1. V(e, y, a) = b
    BY DEF WayMoved
  <1>2. b \in Blocks
    <2>1. disk \in Disks /\ t \in InodeType
      BY ReadyFacts, DiskFields DEF FileNodes
    <2> HIDE DEF t
    <2>2. PointerAt(disk, t, a) \in Blocks
      BY <2>1, PointerTypes
    <2> QED BY <2>2 DEF V, t
  <1>3. ASSUME NEW j \in 1 .. Depth(k) PROVE b # w.made[j]
    <2>1. V(e, i, WayPlace(k)[j]) = w.made[j] /\ WayPlace(k)[j] \in Places
      BY WayPlaces DEF WayMoved
    <2>2. b = w.made[j] => y = i /\ a = WayPlace(k)[j]
      BY <1>1, <2>1 DEF Kept
    <2> QED BY <2>2
  <1>4. e.blk[b] = disk.blk[b]
    BY <1>2, <1>3 DEF StoredWay
  <1> QED BY <1>1, <1>4

\* fs_write keeps what other files hold, and adds a block to what its own does.
LEMMA WriteUnits ==
    ASSUME FsInv, Ready, NEW i \in FileNodes, ~IsDir(i), core.itab[i].kind # "none",
           Kept(disk, core.bmap, lost), NEW k \in 0 .. MaxFile, NEW w \in Ways(i, k),
           Last(w.made) # ENOSPC, NEW d \in Chunks, NEW e \in GoodDisks,
           Leads(disk, Stores(i, k, w, d), e), NEW c \in Seq(Units)
    PROVE  /\ \A y \in FileNodes, n \in Nat :
                 y # i /\ HoldsUnits(disk, y, c, n) => HoldsUnits(e, y, c, n)
           /\ HoldsUnits(disk, i, c, k * BLOCK_SIZE) /\ k * BLOCK_SIZE + Len(d) <= Len(c)
              /\ (\A v \in 1 .. Len(d) : d[v] = c[k * BLOCK_SIZE + v])
                 => HoldsUnits(e, i, c, k * BLOCK_SIZE + (IF k < MaxFile THEN Len(d) ELSE 0))
  <1>1. /\ StoredWay(i, k, w, e) /\ w.made[Depth(k)] # ENOSPC
        /\ e.imap = core.imap /\ e.itab[i].kind = core.itab[i].kind
    BY StoredFacts
  <1>8. e.itab[i].size = IF EndOf(k, d) > core.itab[i].size THEN EndOf(k, d)
                         ELSE core.itab[i].size
    BY StoredFacts
  <1>9. e.blk[w.made[Depth(k)]].data = StoredData(k, w, d)
    BY StoredFacts
  <1> DEFINE M == core.bmap \cup {w.made[j] : j \in New(w)}
             B == BLOCK_SIZE
  <1>2. WayMoved(i, k, w, e) /\ Kept(e, M, lost)
    <2>1. WayMoved(i, k, w, e)
      BY <1>1, WayMoves
    <2>2. Kept(e, core.bmap \cup {w.made[j] : j \in New(w)}, lost)
      BY <1>1, GrowKept
    <2> QED BY <2>1, <2>2
  <1> HIDE DEF M
  <1>3. \A x \in FileNodes : x # i => e.itab[x] = disk.itab[x]
    BY <1>1 DEF StoredWay, FileNodes
  <1>4. disk.itab = core.itab /\ disk \in Disks
    BY ReadyFacts
  <1>5. ASSUME NEW x \in FileNodes, NEW l \in 0 .. MaxFile - 1, x # i \/ l # k,
               V(disk, x, UnitPlace(l)) # 0
        PROVE  /\ V(e, x, UnitPlace(l)) = V(disk, x, UnitPlace(l))
               /\ e.blk[V(disk, x, UnitPlace(l))] = disk.blk[V(disk, x, UnitPlace(l))]
    <2>1. UnitPlace(l) \in Places
      BY UnitPlaces
    <2>2. ASSUME l # k, NEW j \in 1 .. Depth(k) PROVE UnitPlace(l) # WayPlace(k)[j]
      <3>1. j \in 1 .. 3
        BY WayPlaces
      <3> QED BY <2>2, <3>1, UnitPlaces
    <2>3. x # i \/ \A j \in 1 .. Depth(k) : UnitPlace(l) # WayPlace(k)[j]
      BY <1>5, <2>2
    <2> QED BY <1>1, <1>2, <1>5, <2>1, <2>3, OffTheWayKept
  <1>6. ASSUME NEW y \in FileNodes, NEW n \in Nat, y # i, HoldsUnits(disk, y, c, n)
        PROVE  HoldsUnits(e, y, c, n)
    BY <1>3, <1>5, <1>6, UnitsAgain
  <1>7. ASSUME HoldsUnits(disk, i, c, k * B), k * B + Len(d) <= Len(c),
               \A v \in 1 .. Len(d) : d[v] = c[k * B + v]
        PROVE  HoldsUnits(e, i, c, k * B + (IF k < MaxFile THEN Len(d) ELSE 0))
    <2> DEFINE h == k * B
               n == h + (IF k < MaxFile THEN Len(d) ELSE 0)
    <2>1. /\ B \in Nat /\ B > 0 /\ MaxFile \in Nat /\ k \in Nat /\ k <= MaxFile /\ h \in Nat
          /\ d \in Seq(Units) /\ Len(d) \in Nat /\ Len(d) <= B /\ Len(c) \in Nat
      <3> HIDE DEF MaxFile
      <3>1. B \in Nat /\ B > 0 /\ MaxFile \in Nat
        BY Sizes
      <3>2. k \in Nat /\ k <= MaxFile /\ h \in Nat
        BY <3>1
      <3>3. d \in Seq(Units) /\ Len(d) \in Nat /\ Len(d) <= B /\ Len(c) \in Nat
        BY DEF Chunks
      <3> QED BY <3>1, <3>2, <3>3
    <2> HIDE DEF MaxFile
    <2>2. n \in Nat /\ n >= h /\ n <= h + Len(d) /\ n <= Len(c) /\ (k = MaxFile => n = h)
      <3> HIDE DEF h
      <3>1. h + Len(d) <= Len(c)
        BY <1>7 DEF h
      <3> QED BY <2>1, <3>1
    <2>3. e.itab[i].size = n
      <3>1. core.itab[i].size = h /\ EndOf(k, d) = n
        BY <1>4, <1>7 DEF HoldsUnits, EndOf
      <3> HIDE DEF h, n
      <3>2. e.itab[i].size = IF n > h THEN n ELSE h
        BY <1>8, <3>1
      <3> QED BY <2>1, <2>2, <3>2
    <2> HIDE DEF n
    <2>4. ASSUME NEW l \in 0 .. MaxFile - 1, NEW v \in 1 .. B, l * B + v <= n
          PROVE  /\ V(e, i, UnitPlace(l)) # 0
                 /\ e.blk[V(e, i, UnitPlace(l))].data[v] = c[l * B + v]
      <3>1. l \in Nat /\ l < MaxFile /\ v \in Nat /\ v > 0 /\ v <= B /\ l * B \in Nat
        BY <2>1
      <3>2. CASE l < k
        <4>1. l * B + B <= k * B
          BY <2>1, <3>1, <3>2, Multiples
        <4>2. l * B + v <= k * B
          <5> DEFINE q == l * B
          <5>1. q \in Nat /\ q + B <= h
            BY <3>1, <4>1
          <5> HIDE DEF q, h
          <5>2. q + v <= h
            BY <2>1, <3>1, <5>1
          <5> QED BY <5>2 DEF q, h
        <4>3. /\ V(disk, i, UnitPlace(l)) # 0
              /\ disk.blk[V(disk, i, UnitPlace(l))].data[v] = c[l * B + v]
          BY <1>7, <4>2 DEF HoldsUnits
        <4> QED BY <1>5, <3>2, <4>3
      <3>3. CASE l = k
        <4>1. n = h + Len(d) /\ h + v <= n
          BY <2>1, <2>4, <3>1, <3>3 DEF n
        <4>2. v \in 1 .. Len(d)
          <5> HIDE DEF h
          <5> QED BY <2>1, <3>1, <4>1
        <4>3. /\ UnitPlace(l) = WayPlace(k)[Depth(k)] /\ Depth(k) \in 1 .. Depth(k)
              /\ Depth(k) \in 1 .. 3
          BY <3>3, UnitPlaces
        <4>4. V(e, i, UnitPlace(l)) = w.made[Depth(k)]
          BY <1>2, <4>3 DEF WayMoved
        <4>5. w.made[Depth(k)] # 0 /\ w.made[Depth(k)] \in Blocks /\ Depth(k) \in Nat
          BY <1>1, <4>3, MadeApart
        <4>6. Content(w, Depth(k)).data \in [1 .. B -> Units \cup {0}]
          <5>1. Zeroes \in BlockType /\ disk.blk[w.made[Depth(k)]] \in BlockType
            BY <1>4, <4>5, EmptyTypes, DiskFields
          <5> QED BY <5>1 DEF Content, BlockType
        <4>7. SubSeq(Content(w, Depth(k)).data, Len(d) + 1, B) \in Seq(Units \cup {0})
          BY <2>1, <4>6, RestIsSeq
        <4>8. e.blk[w.made[Depth(k)]].data[v] = d[v]
          BY <1>9, <2>1, <4>2, <4>7, FirstPart DEF StoredData
        <4> QED BY <1>7, <3>3, <4>2, <4>4, <4>5, <4>8
      <3>4. ASSUME l > k PROVE FALSE
        <4>1. k * B + B <= l * B
          BY <2>1, <3>1, <3>4, Multiples
        <4> DEFINE q == l * B
        <4>2. q \in Nat /\ h + B <= q /\ q + v <= n
          BY <2>4, <3>1, <4>1
        <4> HIDE DEF q, h
        <4> QED BY <2>1, <2>2, <3>1, <4>2
      <3> QED BY <2>1, <3>1, <3>2, <3>3, <3>4
    <2> QED BY <2>2, <2>3, <2>4 DEF HoldsUnits, n
  <1> QED BY <1>6, <1>7

-----------------------------------------------------------------------------
(* The node a path leads to, on a device. *)

Looked(d, i, n) ==
    IF d.itab[i].kind = "dir" THEN find_in_dir(d.blk[d.itab[i].direct[0]].ents, n) ELSE 0
Parent(d, p) == IF Len(p) = 1 THEN Root ELSE Looked(d, Root, p[1])
Finds(d, p)  == IF Parent(d, p) = 0 THEN 0 ELSE Looked(d, Parent(d, p), Leaf(p))

LEMMA FindsTranslate ==
    ASSUME disk.itab = core.itab, NEW p
    PROVE  Parent(disk, p) = translate_1(p) /\ Finds(disk, p) = translate(p)
  <1>1. \A i, n : Looked(disk, i, n) = lookup(i, n)
    BY DEF Looked, lookup, IsDir, Dirents, DirBlk
  <1> QED BY <1>1 DEF Parent, Finds, translate, translate_1

LEMMA FindsSame ==
    ASSUME NEW d, NEW e, NEW p, Parent(d, p) \in {Root, HomeNode},
           \A r \in {Root, HomeNode} :
               /\ e.itab[r] = d.itab[r]
               /\ e.blk[d.itab[r].direct[0]].ents = d.blk[d.itab[r].direct[0]].ents
    PROVE  Finds(e, p) = Finds(d, p)
  <1>1. \A r \in {Root, HomeNode} : \A n : Looked(e, r, n) = Looked(d, r, n)
    BY DEF Looked
  <1>2. Parent(e, p) = Parent(d, p)
    BY <1>1 DEF Parent
  <1> QED BY <1>1, <1>2 DEF Finds

\* The node a path leads to is the one just made there.
LEMMA FindsMade ==
    ASSUME FsInv, NamesInv, NEW p \in Paths, CanMake(p), FreeInodes # {},
           FreeSlots(Dirents(translate_1(p))) # {}, NEW e,
           \A r \in {Root, HomeNode} : e.itab[r] = disk.itab[r],
           \A c \in Blocks \ {DirBlk(translate_1(p))} : e.blk[c] = disk.blk[c],
           e.blk[DirBlk(translate_1(p))].ents
             = [disk.blk[DirBlk(translate_1(p))].ents EXCEPT
                   ![find_free_dir(Dirents(translate_1(p)))]
                        = [name |-> Leaf(p), inode |-> Min(FreeInodes)]]
    PROVE  Finds(e, p) = Min(FreeInodes)
  <1> DEFINE t == translate_1(p)
             b == DirBlk(t)
             i == Min(FreeInodes)
             x == disk.blk[b].ents
             slot == find_free_dir(x)
             new == [name |-> Leaf(p), inode |-> i]
             z == e.blk[b].ents
  <1>1. Ready /\ t # 0 /\ IsDir(t) /\ translate(p) = 0 /\ Dirents(t) = x
    BY DEF CanMake, Dirents
  <1>2. /\ disk \in Disks /\ disk.itab = core.itab /\ core.itab \in [Inodes -> InodeType]
    BY <1>1, ReadyFacts, CoreFields
  <1>3. /\ t \in Inodes /\ x \in [1 .. Entries -> EntryType]
        /\ \A s \in 1 .. Entries : x[s] # NoEntry => x[s].name # Leaf(p)
    BY <1>1, TranslateFacts
  <1>4. slot \in 1 .. Entries /\ z = [x EXCEPT ![slot] = new]
    BY <1>1, <1>3, FreeSlotFacts
  <1>5. i \in Inodes /\ i # 0
    BY FreeInodeFacts
  <1>6. /\ t \in {Root, HomeNode} /\ Root # HomeNode /\ Root \in Inodes /\ HomeNode \in Inodes
        /\ core.itab[Root].direct[0] = RootBlk /\ core.itab[HomeNode].direct[0] = HomeBlk
        /\ core.itab[Root].kind = "dir" /\ core.itab[t].kind = "dir"
    <2>1. Root # HomeNode /\ Root \in Inodes /\ HomeNode \in Inodes
      BY Sizes
    <2> QED BY <1>1, <1>2, <1>3, <2>1 DEF NamesInv, Fixed, IsDir
  <1>7. Parent(disk, p) = t /\ e.itab[t] = core.itab[t] /\ e.itab[Root] = core.itab[Root]
    BY <1>2, <1>6, FindsTranslate
  <1>8. b = core.itab[t].direct[0]
    BY DEF DirBlk
  <1> HIDE DEF t, b, i, x, slot, new, z
  <1>9. Parent(e, p) = t
    <2>1. CASE Len(p) = 1
      BY <1>7, <2>1 DEF Parent
    <2>2. CASE Len(p) # 1
      <3> DEFINE y == disk.blk[RootBlk].ents
      <3>1. t = find_in_dir(y, p[1])
        BY <1>2, <1>6, <1>7, <2>2 DEF Parent, Looked
      <3>2. y \in [1 .. Entries -> EntryType] /\ RootBlk \in Blocks /\ RootBlk # HomeBlk
            /\ RootBlk \in Listing
        BY <1>2, Sizes, DiskFields DEF BlockType, Listing
      <3>3. PICK s \in 1 .. Entries : y[s] # NoEntry /\ y[s].inode = t
        BY <1>1, <3>1, <3>2, FindFacts DEF t
      <3>4. t \in 2 .. HomeNode
        BY <3>2, <3>3 DEF NamesInv, NamesNodes, Ent
      <3>5. t = HomeNode
        BY <1>6, <3>4 DEF Root
      <3>6. e.blk[RootBlk] = disk.blk[RootBlk]
        BY <1>6, <1>8, <3>2, <3>5 DEF b, t
      <3>7. Looked(e, Root, p[1]) = find_in_dir(y, p[1])
        BY <1>6, <1>7, <3>6 DEF Looked
      <3> QED BY <2>2, <3>1, <3>7 DEF Parent
    <2> QED BY <2>1, <2>2
  <1>10. find_in_dir(z, Leaf(p)) = i
    <2> DEFINE S == {s \in DOMAIN z : z[s].inode # 0 /\ z[s].name = Leaf(p)}
    <2>1. DOMAIN z = 1 .. Entries /\ z[slot] = new /\ new.inode = i /\ new.name = Leaf(p)
      BY <1>3, <1>4 DEF new
    <2>2. ASSUME NEW s \in 1 .. Entries, s # slot PROVE s \notin S
      <3>1. z[s] = x[s]
        BY <1>3, <1>4, <2>2
      <3>2. x[s] = NoEntry => x[s].inode = 0
        BY DEF NoEntry
      <3> QED BY <1>3, <3>1, <3>2
    <2>3. S = {slot}
      BY <1>4, <1>5, <2>1, <2>2
    <2>4. slot \in Nat
      BY <1>4
    <2>5. Min(S) = slot
      <3> HIDE DEF S
      <3>1. S \subseteq Nat /\ S # {}
        BY <2>3, <2>4
      <3> QED BY <2>3, <3>1, MinIn
    <2>6. find_in_dir(z, Leaf(p)) = z[Min(S)].inode
      <3>1. S # {}
        BY <2>3
      <3> QED BY <3>1 DEF find_in_dir
    <2> QED BY <2>1, <2>5, <2>6
  <1>11. Looked(e, t, Leaf(p)) = i
    BY <1>6, <1>7, <1>8, <1>10 DEF Looked, z
  <1>12. t # 0
    BY <1>1
  <1> QED BY <1>9, <1>11, <1>12 DEF Finds, i

-----------------------------------------------------------------------------
(* Files hold what was put: once the writes are through, a node has the     *)
(* units of the file it was put from, and the one being put those up to the *)
(* offset put has reached.                                                  *)

Lesser(a, b) == IF a <= b THEN a ELSE b
MaxLen == MaxFile * BLOCK_SIZE
Upto(e, y) == Lesser(IF at = "put" /\ y = Finds(e, path) THEN offset ELSE Len(Contents[from[y]]),
                     MaxLen)

Stocked(e) == \A y \in FileNodes :
                 /\ e.itab[y].kind = "none" => from[y] = NoLocal
                 /\ from[y] # NoLocal => HoldsUnits(e, y, Contents[from[y]], Upto(e, y))

\* put works on a file of its own, block by block, up to the end of what it reads.
Writing(e) == at = "put" =>
    /\ Finds(e, path) \in FileNodes /\ from[Finds(e, path)] = local
    /\ e.itab[Finds(e, path)].kind = "file"
    /\ offset <= Len(Contents[local])
    /\ (\E k \in Nat : offset = k * BLOCK_SIZE) \/ offset = Len(Contents[local])

FromTypes == /\ from \in [Inodes -> Locals \cup {NoLocal}]
             /\ from[Root] = NoLocal /\ from[HomeNode] = NoLocal

DataInv == ~full => /\ FromTypes
                    /\ \A e \in GoodDisks : Leads(disk, todo, e) => Stocked(e) /\ Writing(e)

LEMMA DataStart == ASSUME ShellInit PROVE DataInv
  <1>1. from = [i \in Inodes |-> NoLocal] /\ at = "prompt"
    BY DEF ShellInit
  <1>2. FromTypes
    BY <1>1, Sizes DEF FromTypes
  <1>3. \A y \in FileNodes : from[y] = NoLocal
    BY <1>1 DEF FileNodes
  <1> QED BY <1>1, <1>2, <1>3 DEF DataInv, Stocked, Writing

LEMMA DataReady ==
    ASSUME FsInv, DataInv, ~full, Ready
    PROVE  FromTypes /\ Stocked(disk) /\ Writing(disk)
  <1>1. disk \in GoodDisks /\ Leads(disk, todo, disk)
    BY ReadyFacts, LeadsNone DEF Ready
  <1> QED BY <1>1 DEF DataInv

LEMMA DataFlush ==
    ASSUME FsInv, FsInv', DataInv, Flush, UNCHANGED <<loop, history>>
    PROVE  DataInv'
  <1>1. core' = core /\ UNCHANGED <<at, path, local, offset, from, full>>
    BY DEF Flush, loop, history
  <1> SUFFICES ASSUME ~full, NEW e \in GoodDisks, Leads(disk', todo', e)
               PROVE  FromTypes /\ Stocked(e) /\ Writing(e)
    BY <1>1 DEF DataInv, FromTypes, Stocked, Writing, Upto
  <1> QED BY LeadsBefore DEF DataInv

\* An operation that leaves alone what files hold, or forgets where one came from.
LEMMA DataPerform ==
    ASSUME FsInv, DataInv, ~full, Ready, at = "prompt", at' = "prompt",
           from' \in [Inodes -> Locals \cup {NoLocal}],
           \A y \in Inodes : from'[y] \in {from[y], NoLocal},
           NEW m, NEW ws, Perform(m, ws),
           \A e \in GoodDisks : Leads(disk, ws, e) =>
               /\ SameStore(disk, e)
               /\ \A y \in FileNodes : /\ e.itab[y].kind = "none" => from'[y] = NoLocal
                                       /\ from'[y] # NoLocal => e.itab[y] = disk.itab[y]
    PROVE  DataInv'
  <1>1. disk' = disk /\ todo' = ws
    BY DEF Perform
  <1>2. FromTypes /\ Stocked(disk)
    BY DataReady
  <1>3. FromTypes'
    BY <1>2, Sizes DEF FromTypes
  <1>4. ASSUME NEW e \in GoodDisks, Leads(disk, ws, e)
        PROVE  Stocked(e)' /\ Writing(e)'
    <2>1. ASSUME NEW y \in FileNodes
          PROVE  /\ e.itab[y].kind = "none" => from'[y] = NoLocal
                 /\ from'[y] # NoLocal =>
                       HoldsUnits(e, y, Contents[from'[y]], Lesser(Len(Contents[from'[y]]), MaxLen))
      <3>1. e.itab[y].kind = "none" => from'[y] = NoLocal
        BY <1>4
      <3>2. ASSUME from'[y] # NoLocal
            PROVE  HoldsUnits(e, y, Contents[from'[y]], Lesser(Len(Contents[from'[y]]), MaxLen))
        <4>1. from'[y] = from[y] /\ e.itab[y] = disk.itab[y] /\ SameStore(disk, e)
          BY <1>4, <3>2 DEF FileNodes
        <4>2. HoldsUnits(disk, y, Contents[from[y]], Lesser(Len(Contents[from[y]]), MaxLen))
          BY <1>2, <3>2, <4>1 DEF Stocked, Upto
        <4>3. disk \in Disks /\ e \in Disks
          BY ReadyFacts DEF GoodDisks
        <4> QED BY <4>1, <4>2, <4>3, SameUnits
      <3> QED BY <3>1, <3>2
    <2> QED BY <2>1 DEF Stocked, Writing, Upto
  <1> QED BY <1>1, <1>3, <1>4 DEF DataInv

LEMMA SameDisk == ASSUME NEW d PROVE SameStore(d, d)
  BY DEF SameStore

\* From has no place for nodes that are not there.
LEMMA DataSame ==
    ASSUME FsInv, DataInv, ~full, Ready, at = "prompt", UNCHANGED <<at, from>>,
           NEW m, NEW ws, Perform(m, ws),
           \A e \in GoodDisks : Leads(disk, ws, e) => SameStore(disk, e) /\ e.itab = disk.itab
    PROVE  DataInv'
  <1>1. FromTypes /\ Stocked(disk)
    BY DataReady
  <1>2. from' \in [Inodes -> Locals \cup {NoLocal}] /\ \A y \in Inodes : from'[y] \in {from[y], NoLocal}
    BY <1>1 DEF FromTypes
  <1>3. \A y \in FileNodes : disk.itab[y].kind = "none" => from'[y] = NoLocal
    BY <1>1 DEF Stocked
  <1> QED BY <1>2, <1>3, DataPerform

LEMMA DataAttributes ==
    ASSUME FsInv, DataInv, ~full, at = "prompt", UNCHANGED <<at, from>>, NEW i \in Inodes,
           SetAttributes(i)
    PROVE  DataInv'
  <1>1. Ready /\ Perform(core, update_inode(core, i))
    BY DEF SetAttributes
  <1>2. \A e \in GoodDisks : Leads(disk, update_inode(core, i), e)
              => SameStore(disk, e) /\ e.itab = disk.itab
    BY <1>1, AfterAttributes, ReadyFacts
  <1> QED BY <1>1, <1>2, DataSame

LEMMA DataRename ==
    ASSUME FsInv, DataInv, ~full, at = "prompt", UNCHANGED <<at, from>>, NEW p \in Paths,
           NEW q \in Paths, fs_rename(p, q)
    PROVE  DataInv'
  <1>1. Ready /\ Perform(core, <<Renamed(p, q)>>)
    BY DEF fs_rename
  <1>2. \A e \in GoodDisks : Leads(disk, <<Renamed(p, q)>>, e)
              => SameStore(disk, e) /\ e.itab = disk.itab
    BY <1>1, AfterRename, ReadyFacts
  <1> QED BY <1>1, <1>2, DataSame

\* Nothing is written.
LEMMA DataUnwritten ==
    ASSUME FsInv, DataInv, ~full, Ready, at = "prompt", UNCHANGED <<at, from>>,
           NEW m, Perform(m, <<>>)
    PROVE  DataInv'
  <1>1. \A e \in GoodDisks : Leads(disk, <<>>, e) => SameStore(disk, e) /\ e.itab = disk.itab
    BY LeadsNowhere, SameDisk
  <1> QED BY <1>1, DataSame

\* A node in memory that is free is empty on the device, and was not put.
LEMMA FreeNode ==
    ASSUME FsInv, OwnInv, DataInv, ~full, Ready, FreeInodes # {}
    PROVE  /\ Min(FreeInodes) \in FileNodes /\ core.itab[Min(FreeInodes)] = NoInode
           /\ from[Min(FreeInodes)] = NoLocal
  <1> DEFINE i == Min(FreeInodes)
  <1>1. i \in Inodes /\ i \notin core.imap
    BY FreeInodeFacts
  <1>2. i \in FreeInodes
    <2>1. FreeInodes \subseteq Nat
      BY Sizes DEF FreeInodes
    <2> QED BY <2>1, MinIn
  <1>3. i \in FileNodes
    BY <1>1, <1>2, Sizes DEF FileNodes, FreeInodes, Root, HomeNode
  <1>4. disk.itab = core.itab /\ disk.imap \subseteq core.imap /\ Kept(disk, core.bmap, lost)
    BY ReadyFacts, OwnReady
  <1>5. core.itab[i] = NoInode
    BY <1>1, <1>4 DEF Kept
  <1>6. from[i] = NoLocal
    BY <1>3, <1>4, <1>5, DataReady, EmptyTypes DEF Stocked
  <1> QED BY <1>3, <1>5, <1>6

\* What the device holds of the inodes when a node is made.
LEMMA MadeTable ==
    ASSUME FsInv, OwnInv, DataInv, ~full, Ready, FreeInodes # {}
    PROVE  LET i == Min(FreeInodes)
               t == Made(i, "file").itab
           IN  /\ \A y \in FileNodes : y # i => t[y] = disk.itab[y]
               /\ \A r \in {Root, HomeNode} : t[r] = disk.itab[r]
               /\ t[i].kind = "file" /\ t[i].size = 0
  <1> DEFINE i == Min(FreeInodes)
             m == Made(i, "file")
  <1>1. i \in FileNodes /\ i \in Inodes /\ core.itab[i] = NoInode
    BY FreeNode DEF FileNodes
  <1>2. disk.itab = core.itab /\ core \in Cores /\ core.itab \in [Inodes -> InodeType]
    BY ReadyFacts, CoreFields
  <1> HIDE DEF i
  <1>3. \A j \in Inodes : j # i => m.itab[j] = core.itab[j]
    <2>1. "file" \in {"file", "dir"}
      OBVIOUS
    <2> QED BY <1>1, <1>2, <2>1, MadeFacts
  <1>4. m.itab[i].kind = "file" /\ m.itab[i].size = 0
    <2> DEFINE g == [NoInode.direct EXCEPT ![0] = 0]
    <2>1. m.itab[i] = [NoInode EXCEPT !.kind = "file", !.size = 0, !.direct = g]
      BY <1>1, <1>2 DEF Made, Cores
    <2> HIDE DEF g
    <2> QED BY <2>1, EmptyTypes DEF InodeType
  <1> HIDE DEF m
  <1>5. Root \in Inodes /\ HomeNode \in Inodes /\ i \notin {Root, HomeNode}
    BY <1>1, Sizes DEF FileNodes
  <1>6. \A y \in FileNodes : y # i => m.itab[y] = disk.itab[y]
    BY <1>2, <1>3 DEF FileNodes
  <1> QED BY <1>2, <1>3, <1>4, <1>5, <1>6 DEF m, i

LEMMA DataTouch ==
    ASSUME FsInv, OwnInv, DataInv, ~full, at = "prompt", UNCHANGED <<at, from>>, NEW p \in Paths,
           fs_mknod(p)
    PROVE  DataInv'
  <1>1. CASE MakeNoSlot(p)
    BY <1>1, DataUnwritten DEF MakeNoSlot, CanMake
  <1>2. CASE Make(p, "file")
    <2> DEFINE parent == translate_1(p)
               i == Min(FreeInodes)
               m == Made(i, "file")
               slot == find_free_dir(Dirents(parent))
               ws == update_inode(m, i) \o update_blk(m)
                        \o <<BlkWrite(DirBlk(parent),
                                  [disk.blk[DirBlk(parent)] EXCEPT
                                      !.ents[slot] = [name |-> Leaf(p), inode |-> i]])>>
    <2>1. CanMake(p) /\ FreeInodes # {} /\ Perform(m, ws) /\ Ready
      BY <1>2 DEF Make, CanMake
    <2>2. FromTypes /\ Stocked(disk) /\ from[i] = NoLocal
      BY <2>1, DataReady, FreeNode
    <2>3. /\ \A y \in FileNodes : y # i => m.itab[y] = disk.itab[y]
          /\ m.itab[i].kind = "file"
      BY <2>1, MadeTable
    <2>4. ASSUME NEW e \in GoodDisks, Leads(disk, ws, e)
          PROVE  SameStore(disk, e) /\ e.itab = m.itab
      BY <2>1, <2>4, AfterMake
    <2> HIDE DEF m, ws, i
    <2>5. ASSUME NEW e \in GoodDisks, Leads(disk, ws, e), NEW y \in FileNodes
          PROVE  /\ e.itab[y].kind = "none" => from'[y] = NoLocal
                 /\ from'[y] # NoLocal => e.itab[y] = disk.itab[y]
      BY <2>2, <2>3, <2>4, <2>5 DEF Stocked
    <2>6. from' \in [Inodes -> Locals \cup {NoLocal}] /\ \A y \in Inodes : from'[y] \in {from[y], NoLocal}
      BY <2>2 DEF FromTypes
    <2> QED BY <2>1, <2>4, <2>5, <2>6, DataPerform
  <1> QED BY <1>1, <1>2 DEF fs_mknod

\* Where an emptied node came from is forgotten, and others stay as they are.
LEMMA DataEmptied ==
    ASSUME FsInv, DataInv, ~full, Ready, at = "prompt", NEW i \in FileNodes, UNCHANGED at,
           from' = [from EXCEPT ![i] = NoLocal], NEW m, NEW ws, Perform(m, ws),
           \A y \in Inodes : y # i => m.itab[y] = core.itab[y],
           \A e \in GoodDisks : Leads(disk, ws, e) => SameStore(disk, e) /\ e.itab = m.itab
    PROVE  DataInv'
  <1>1. FromTypes /\ Stocked(disk) /\ disk.itab = core.itab /\ i \in Inodes
    BY DataReady, ReadyFacts DEF FileNodes
  <1>2. /\ from' \in [Inodes -> Locals \cup {NoLocal}]
        /\ \A y \in Inodes : from'[y] \in {from[y], NoLocal}
        /\ from'[i] = NoLocal
    BY <1>1 DEF FromTypes
  <1>3. ASSUME NEW e \in GoodDisks, Leads(disk, ws, e), NEW y \in FileNodes
        PROVE  /\ e.itab[y].kind = "none" => from'[y] = NoLocal
               /\ from'[y] # NoLocal => e.itab[y] = disk.itab[y]
    <2>1. CASE y = i
      BY <1>2, <2>1
    <2>2. CASE y # i
      <3>1. y \in Inodes /\ e.itab[y] = disk.itab[y]
        BY <1>1, <1>3, <2>2 DEF FileNodes
      <3>2. disk.itab[y].kind = "none" => from[y] = NoLocal
        BY <1>1 DEF Stocked
      <3> QED BY <1>2, <3>1, <3>2
    <2> QED BY <2>1, <2>2
  <1> QED BY <1>2, <1>3, DataPerform

LEMMA DataTruncate ==
    ASSUME FsInv, NamesInv, DataInv, ~full, at = "prompt", NEW p \in Paths,
           fs_truncate(p), Emptying(p)
    PROVE  DataInv'
  <1> DEFINE i == translate(p)
             m == Truncated(i)
  <1>1. /\ Ready /\ i # 0 /\ ~IsDir(i) /\ Perform(m, TruncateWrites(i))
        /\ UNCHANGED at /\ from' = [from EXCEPT ![i] = NoLocal]
    BY DEF fs_truncate, Emptying, loop
  <1>2. i \in FileNodes /\ i \in Inodes /\ core.itab[i].kind # "none"
    BY <1>1, FileNode
  <1> HIDE DEF i
  <1>3. \A y \in Inodes : y # i => m.itab[y] = core.itab[y]
    BY <1>1, <1>2, TruncateLeads
  <1>4. ASSUME NEW e \in GoodDisks, Leads(disk, TruncateWrites(i), e)
        PROVE  SameStore(disk, e) /\ e.itab = m.itab
    BY <1>1, <1>2, <1>4, AfterTruncate DEF SameStore
  <1> HIDE DEF m
  <1> QED BY <1>1, <1>2, <1>3, <1>4, DataEmptied

LEMMA DataUnlink ==
    ASSUME FsInv, NamesInv, DataInv, ~full, at = "prompt", NEW p \in Paths,
           fs_unlink(p), Emptying(p)
    PROVE  DataInv'
  <1> DEFINE i == translate(p)
             n == Truncated(i)
             m == Cleared(n, i)
             ws == TruncateWrites(i) \o <<Unlisted(DirBlk(translate_1(p)), Leaf(p))>>
                      \o update_inode(m, i) \o update_blk(m)
  <1>1. /\ Ready /\ i # 0 /\ ~IsDir(i) /\ Perform(m, ws)
        /\ UNCHANGED at /\ from' = [from EXCEPT ![i] = NoLocal]
    BY DEF fs_unlink, Emptying, loop
  <1>2. i \in FileNodes /\ i \in Inodes /\ core.itab[i].kind # "none"
    BY <1>1, FileNode
  <1>3. ASSUME NEW e \in GoodDisks, Leads(disk, ws, e)
        PROVE  SameStore(disk, e) /\ e.itab = m.itab
    BY <1>1, <1>3, AfterUnlink
  <1> HIDE DEF i
  <1>4. n \in Cores /\ \A y \in Inodes : y # i => n.itab[y] = core.itab[y]
    BY <1>1, <1>2, TruncateLeads
  <1> HIDE DEF n
  <1>5. \A y \in Inodes : y # i => m.itab[y] = core.itab[y]
    BY <1>2, <1>4, ClearedCore
  <1> HIDE DEF m, ws
  <1> QED BY <1>1, <1>2, <1>3, <1>5, DataEmptied

LEMMA LesserFacts ==
    /\ \A n \in Nat : Lesser(0, n) = 0
    /\ MaxLen \in Nat
  BY Sizes DEF Lesser, MaxLen

\* put makes an empty file.
LEMMA DataPutBegin ==
    ASSUME FsInv, NamesInv, OwnInv, DataInv, ~full, at = "prompt", PutBegin
    PROVE  DataInv'
  <1>1. PICK p \in Paths, l \in Locals : /\ Make(p, "file") /\ at' = "put" /\ path' = p
                                         /\ local' = l /\ offset' = 0
                                         /\ from' = [from EXCEPT ![Min(FreeInodes)] = l]
    BY DEF PutBegin, Goto
  <1> DEFINE parent == translate_1(p)
             i == Min(FreeInodes)
             m == Made(i, "file")
             slot == find_free_dir(Dirents(parent))
             ws == update_inode(m, i) \o update_blk(m)
                      \o <<BlkWrite(DirBlk(parent),
                                [disk.blk[DirBlk(parent)] EXCEPT
                                    !.ents[slot] = [name |-> Leaf(p), inode |-> i]])>>
  <1>2. /\ CanMake(p) /\ FreeInodes # {} /\ FreeSlots(Dirents(parent)) # {}
        /\ Perform(m, ws) /\ Ready
    BY <1>1 DEF Make, CanMake
  <1>3. /\ FromTypes /\ Stocked(disk) /\ i \in FileNodes /\ i \in Inodes
        /\ from' = [from EXCEPT ![i] = l] /\ l # NoLocal
    BY <1>1, <1>2, DataReady, FreeNode, LocalContents DEF FileNodes
  <1>4. /\ \A y \in FileNodes : y # i => m.itab[y] = disk.itab[y]
        /\ \A r \in {Root, HomeNode} : m.itab[r] = disk.itab[r]
        /\ m.itab[i].kind = "file" /\ m.itab[i].size = 0
    BY <1>2, MadeTable
  <1>5. ASSUME NEW e \in GoodDisks, Leads(disk, ws, e)
        PROVE  SameStore(disk, e) /\ e.itab = m.itab /\ Finds(e, p) = i
    <2>1. /\ SameStore(disk, e) /\ e.itab = m.itab
          /\ \A c \in Blocks \ {DirBlk(parent)} : e.blk[c] = disk.blk[c]
          /\ e.blk[DirBlk(parent)].ents
               = [disk.blk[DirBlk(parent)].ents EXCEPT ![slot] = [name |-> Leaf(p), inode |-> i]]
      BY <1>2, <1>5, AfterMake
    <2>2. \A r \in {Root, HomeNode} : e.itab[r] = disk.itab[r]
      BY <1>4, <2>1
    <2>3. Finds(e, p) = i
      BY <1>2, <2>1, <2>2, FindsMade
    <2> QED BY <2>1, <2>3
  <1> HIDE DEF m, ws, i
  <1>6. FromTypes'
    BY <1>3 DEF FromTypes, FileNodes
  <1>7. ASSUME NEW e \in GoodDisks, Leads(disk, ws, e)
        PROVE  Stocked(e)' /\ Writing(e)'
    <2>1. SameStore(disk, e) /\ e.itab = m.itab /\ Finds(e, p) = i
      BY <1>5, <1>7
    <2>2. /\ disk \in Disks /\ e \in Disks
      BY <1>2, ReadyFacts DEF GoodDisks
    <2>3. from'[i] = l /\ \A y \in FileNodes : y # i => from'[y] = from[y]
      BY <1>3 DEF FromTypes, FileNodes
    <2>4. Contents[l] \in Seq(Units) /\ Len(Contents[l]) \in Nat
      BY LocalContents
    <2>5. HoldsUnits(e, i, Contents[l], 0)
      <3>1. \A k \in 0 .. MaxFile - 1, v \in 1 .. BLOCK_SIZE : ~(k * BLOCK_SIZE + v <= 0)
        <4> SUFFICES ASSUME NEW k \in 0 .. MaxFile - 1, NEW v \in 1 .. BLOCK_SIZE
                     PROVE  ~(k * BLOCK_SIZE + v <= 0)
          OBVIOUS
        <4>1. k \in Nat /\ BLOCK_SIZE \in Nat /\ MaxFile \in Nat
          BY Sizes
        <4>2. k * BLOCK_SIZE \in Nat
          BY <4>1
        <4> DEFINE q == k * BLOCK_SIZE
        <4> HIDE DEF q
        <4> QED BY <4>1, <4>2 DEF q
      <3>2. e.itab[i].size = 0
        BY <1>4, <2>1
      <3> QED BY <2>4, <3>1, <3>2 DEF HoldsUnits
    <2>6. ASSUME NEW y \in FileNodes
          PROVE  /\ e.itab[y].kind = "none" => from'[y] = NoLocal
                 /\ from'[y] # NoLocal => HoldsUnits(e, y, Contents[from'[y]], Upto(e, y)')
      <3>1. CASE y = i
        <4>1. Upto(e, y)' = 0
          BY <1>1, <2>1, <3>1, LesserFacts DEF Upto
        <4> QED BY <1>4, <2>1, <2>3, <2>5, <3>1, <4>1
      <3>2. CASE y # i
        <4>1. e.itab[y] = disk.itab[y] /\ from'[y] = from[y]
          BY <1>4, <2>1, <2>3, <3>2
        <4>2. from[y] # NoLocal => HoldsUnits(disk, y, Contents[from[y]], Upto(disk, y))
          BY <1>3 DEF Stocked
        <4>3. Upto(e, y)' = Upto(disk, y)
          BY <1>1, <2>1, <3>2, <4>1 DEF Upto
        <4>4. disk.itab[y].kind = "none" => from[y] = NoLocal
          BY <1>3 DEF Stocked
        <4> QED BY <2>1, <2>2, <4>1, <4>2, <4>3, <4>4, SameUnits
      <3> QED BY <3>1, <3>2
    <2>7. Writing(e)'
      <3>1. 0 = 0 * BLOCK_SIZE /\ 0 \in Nat
        BY Sizes
      <3> QED BY <1>1, <1>3, <1>4, <2>1, <2>3, <2>4, <3>1 DEF Writing
    <2> QED BY <2>6, <2>7 DEF Stocked
  <1> QED BY <1>2, <1>6, <1>7 DEF DataInv, Perform

LEMMA WholeBlocks ==
    ASSUME NEW s \in Nat, s > 0, NEW k \in Nat
    PROVE  (k * s) \div s = k
  <1> DEFINE a == k * s
             q == a \div s
  <1>1. a \in Nat /\ q \in Nat /\ q * s <= a /\ a < q * s + s /\ q * s \in Nat
    <2>1. a \in Nat
      OBVIOUS
    <2> HIDE DEF a
    <2>2. a = s * (a \div s) + (a % s) /\ a % s \in 0 .. s - 1 /\ a \div s \in Nat
      BY <2>1
    <2>3. s * q = q * s /\ q * s \in Nat
      BY <2>2
    <2> DEFINE r == a % s
    <2>4. r \in 0 .. s - 1 /\ a = q * s + r
      BY <2>2, <2>3
    <2> HIDE DEF q, r
    <2> QED BY <2>1, <2>2, <2>3, <2>4 DEF q
  <1> HIDE DEF q
  <1>2. ASSUME q < k PROVE FALSE
    <2>1. q * s + s <= k * s
      BY <1>1, <1>2, Multiples
    <2> QED BY <1>1, <2>1
  <1>3. ASSUME k < q PROVE FALSE
    <2>1. k * s + s <= q * s
      BY <1>1, <1>3, Multiples
    <2> HIDE DEF a
    <2>2. a + s <= q * s
      BY <2>1 DEF a
    <2> QED BY <1>1, <2>2
  <1>4. q = k
    BY <1>1, <1>2, <1>3
  <1> QED BY <1>4 DEF q, a

\* The lesser of two numbers, and as Min gives it.
LEMMA LesserIsMin ==
    ASSUME NEW a \in Nat, NEW b \in Nat
    PROVE  Min({a, b}) = Lesser(a, b)
  <1> DEFINE T == {a, b}
  <1>1. T \subseteq Nat /\ T # {} /\ a \in T /\ b \in T /\ \A y \in T : y = a \/ y = b
    OBVIOUS
  <1> HIDE DEF T
  <1>2. Min(T) \in T /\ \A y \in T : Min(T) <= y
    BY <1>1, MinIn
  <1> DEFINE z == Min(T)
  <1>3. z \in Nat /\ (z = a \/ z = b) /\ z <= a /\ z <= b
    BY <1>1, <1>2
  <1> HIDE DEF z
  <1>4. z = Lesser(a, b)
    BY <1>3 DEF Lesser
  <1> QED BY <1>4 DEF z, T

\* What put reads.
LEMMA ChunkUnits ==
    ASSUME LoopTypes, at = "put", offset <= Len(Contents[local])
    PROVE  /\ offset + Len(Chunk) <= Len(Contents[local])
           /\ \A v \in 1 .. Len(Chunk) : Chunk[v] = Contents[local][offset + v]
           /\ Len(Chunk) = BLOCK_SIZE \/ offset + Len(Chunk) = Len(Contents[local])
           /\ Chunk = <<>> <=> offset = Len(Contents[local])
           /\ Len(Chunk) \in Nat /\ (Chunk # <<>> => Len(Chunk) > 0)
  <1> DEFINE c == Contents[local]
             m == Len(c)
             n == Min({offset + BLOCK_SIZE, m})
             r == SubSeq(c, offset + 1, n)
             l == Len(r)
  <1>1. /\ c \in Seq(Units) /\ m \in Nat /\ offset \in Nat /\ BLOCK_SIZE \in Nat
        /\ BLOCK_SIZE > 0 /\ offset <= m
    BY LocalContents, Sizes DEF LoopTypes
  <1>2. n = Lesser(offset + BLOCK_SIZE, m)
    BY <1>1, LesserIsMin
  <1>0. Chunk = r
    BY DEF Chunk
  <1> HIDE DEF n, m
  <1>3. n \in Nat /\ n <= m /\ offset <= n /\ (n = offset + BLOCK_SIZE \/ n = m)
        /\ (n = offset <=> offset = m)
    BY <1>1, <1>2 DEF Lesser
  <1> HIDE DEF c
  <1>6. /\ l = n - offset /\ l \in Nat /\ r \in Seq(Units)
        /\ \A v \in 1 .. l : r[v] = c[offset + v]
    <2>1. CASE offset + 1 <= n
      <3>1. n <= Len(c)
        BY <1>3 DEF m
      <3>2. l = n - offset
        BY <1>1, <1>3, <2>1, <3>1, SubSeqProperties
      <3>3. \A v \in 1 .. n - offset : r[v] = c[offset + v]
        <4> SUFFICES ASSUME NEW v \in 1 .. n - offset PROVE r[v] = c[offset + v]
          OBVIOUS
        <4>1. r[v] = c[(offset + 1) + v - 1]
          BY <1>1, <1>3, <2>1, <3>1, SubSeqProperties
        <4>2. (offset + 1) + v - 1 = offset + v
          BY <1>1, <1>3
        <4> QED BY <4>1, <4>2
      <3>4. r \in Seq(Units)
        BY <1>1, <1>3, <2>1, <3>1, SubSeqProperties
      <3> HIDE DEF r, l
      <3>5. l \in Nat
        BY <1>1, <1>3, <3>2
      <3> QED BY <3>2, <3>3, <3>4, <3>5
    <2>2. CASE ~(offset + 1 <= n)
      <3>1. r = <<>> /\ n = offset
        BY <1>1, <1>3, <2>2, SubSeqProperties
      <3> HIDE DEF r
      <3>2. l = 0 /\ r \in Seq(Units)
        BY <3>1
      <3> HIDE DEF l
      <3> QED BY <1>1, <1>3, <3>1, <3>2
    <2> QED BY <2>1, <2>2
  <1>7. r = <<>> <=> l = 0
    <2> HIDE DEF r
    <2> QED BY <1>6
  <1>8. \A v \in 1 .. l : r[v] = c[offset + v]
    BY <1>6
  <1> HIDE DEF l, r
  <1>9. /\ offset + l <= m /\ (l = BLOCK_SIZE \/ offset + l = m) /\ (l = 0 <=> offset = m)
    BY <1>1, <1>3, <1>6
  <1>10. l = Len(Chunk) /\ m = Len(Contents[local])
    BY <1>0 DEF l, m, c
  <1>11. l # 0 => l > 0
    BY <1>6
  <1> QED BY <1>0, <1>6, <1>7, <1>8, <1>9, <1>10, <1>11 DEF c

\* Where put reads: at a whole block, or at the end.
AtUnit(o, m) == (\E j \in Nat : o = j * BLOCK_SIZE) \/ o = m
After(k, l)  == k * BLOCK_SIZE + (IF k < MaxFile THEN l ELSE 0)

\* From one block to the next.
LEMMA NextOffset ==
    ASSUME NEW o \in Nat, NEW l \in Nat, NEW m \in Nat, NEW k \in 0 .. MaxFile,
           k = o \div BLOCK_SIZE, AtUnit(o, m),
           l > 0, l <= BLOCK_SIZE, o + l <= m, l = BLOCK_SIZE \/ o + l = m,
           k * BLOCK_SIZE <= Lesser(o, MaxLen)
    PROVE  /\ o = k * BLOCK_SIZE /\ Lesser(o, MaxLen) = k * BLOCK_SIZE
           /\ Lesser(o + l, MaxLen) = After(k, l) /\ AtUnit(o + l, m)
  <1> DEFINE h == k * BLOCK_SIZE
             x == MaxLen
             n == MaxFile
  <1>1. BLOCK_SIZE \in Nat /\ BLOCK_SIZE > 0 /\ n \in Nat /\ x \in Nat /\ k \in Nat /\ k <= n
    BY Sizes, LesserFacts
  <1>2. o = h /\ h \in Nat
    <2>1. PICK j \in Nat : o = j * BLOCK_SIZE
      BY DEF AtUnit
    <2> HIDE DEF n
    <2>2. j = k
      BY <1>1, <2>1, WholeBlocks
    <2> QED BY <2>1, <2>2
  <1>3. k < n => h + BLOCK_SIZE <= x
    <2> HIDE DEF n
    <2>1. k < n => k * BLOCK_SIZE + BLOCK_SIZE <= n * BLOCK_SIZE
      BY <1>1, Multiples
    <2> QED BY <2>1 DEF MaxLen, n
  <1>4. k = n => h = x
    BY DEF MaxLen
  <1> HIDE DEF h, x, n
  <1>5. h <= Lesser(o, x)
    BY DEF h, x
  <1>6. Lesser(o, x) = h /\ h <= x
    BY <1>1, <1>2, <1>5 DEF Lesser
  <1>7. Lesser(o + l, x) = h + (IF k < n THEN l ELSE 0)
    <2>1. CASE k < n
      BY <1>1, <1>2, <1>3, <2>1 DEF Lesser
    <2>2. CASE k = n
      BY <1>1, <1>2, <1>4, <2>2 DEF Lesser
    <2> QED BY <1>1, <2>1, <2>2
  <1>8. (\E j \in Nat : o + l = j * BLOCK_SIZE) \/ o + l = m
    <2>1. CASE l = BLOCK_SIZE
      <3>1. (k + 1) * BLOCK_SIZE = h + BLOCK_SIZE /\ k + 1 \in Nat
        BY <1>1 DEF h
      <3> QED BY <1>2, <2>1, <3>1
    <2> QED BY <2>1
  <1> QED BY <1>2, <1>6, <1>7, <1>8 DEF h, x, n, AtUnit, After

\* A path that leads to a file leads there from the root or the home directory.
LEMMA ParentListed ==
    ASSUME FsInv, NamesInv, Ready, NEW p \in Paths, translate(p) # 0
    PROVE  translate_1(p) \in {Root, HomeNode}
  <1>1. translate_1(p) \in Inodes /\ translate_1(p) # 0 /\ IsDir(translate_1(p))
    BY TranslateFacts
  <1>2. DOMAIN core.itab = Inodes
    BY ReadyFacts, CoreFields
  <1> QED BY <1>1, <1>2 DEF NamesInv, Fixed, IsDir

\* The next block of the file put works on.
LEMMA DataPut ==
    ASSUME FsInv, NamesInv, LoopTypes, OwnInv, DataInv, ~full, PutWrite, ~full'
    PROVE  DataInv'
  <1> DEFINE k == offset \div BLOCK_SIZE
             i == translate(path)
             c == Contents[local]
             d == Chunk
  <1>1. /\ at = "put" /\ Storing(path, k, d) /\ d # <<>> /\ offset' = offset + Len(d)
        /\ UNCHANGED <<at, path, local, from>>
    BY DEF PutWrite, Storing
  <1>2. CanWrite(i, k) /\ Ready /\ path \in Paths /\ i # 0 /\ ~IsDir(i)
    BY <1>1 DEF Storing, WriteBlock, CanWrite, LoopTypes
  <1>3. i \in FileNodes /\ i \in Inodes /\ core.itab[i].kind # "none" /\ k * BLOCK_SIZE <= core.itab[i].size
    BY <1>2, FileNode DEF CanWrite
  <1>4. k \in 0 .. MaxFile /\ d \in Chunks
    BY <1>1, <1>2, <1>3, BlockWithin, ChunkFacts DEF Chunks
  <1>5. PICK w \in Ways(i, k) : /\ Last(w.made) # ENOSPC
                                /\ Perform(Memory(i, k, w, d), Stores(i, k, w, d))
    BY <1>1 DEF Storing, WriteBlock, Memory, Stores, EndOf
  <1>6. /\ FromTypes /\ Stocked(disk) /\ Writing(disk) /\ Kept(disk, core.bmap, lost)
        /\ disk \in Disks /\ disk.itab = core.itab /\ Finds(disk, path) = i
    BY <1>2, OwnReady, DataReady, ReadyFacts, FindsTranslate
  <1>7. /\ from[i] = local /\ core.itab[i].kind = "file" /\ offset <= Len(c)
        /\ AtUnit(offset, Len(c))
    BY <1>1, <1>6 DEF Writing, AtUnit
  <1>8. /\ offset + Len(d) <= Len(c) /\ \A v \in 1 .. Len(d) : d[v] = c[offset + v]
        /\ (Len(d) = BLOCK_SIZE \/ offset + Len(d) = Len(c)) /\ Len(d) \in Nat /\ Len(d) > 0
    BY <1>1, <1>7, ChunkUnits
  <1>9. /\ c \in Seq(Units) /\ Len(c) \in Nat /\ offset \in Nat /\ local # NoLocal
        /\ Len(d) <= BLOCK_SIZE
    BY <1>1, <1>4, LocalContents DEF LoopTypes, Chunks
  <1>10. HoldsUnits(disk, i, c, Lesser(offset, MaxLen)) /\ core.itab[i].size = Lesser(offset, MaxLen)
    <2>1. Upto(disk, i) = Lesser(offset, MaxLen)
      BY <1>1, <1>6 DEF Upto
    <2> QED BY <1>3, <1>6, <1>7, <1>9, <2>1 DEF Stocked, HoldsUnits
  <1> DEFINE end == k * BLOCK_SIZE + (IF k < MaxFile THEN Len(d) ELSE 0)
  <1>11. /\ offset = k * BLOCK_SIZE /\ Lesser(offset, MaxLen) = k * BLOCK_SIZE
         /\ Lesser(offset + Len(d), MaxLen) = end
         /\ AtUnit(offset + Len(d), Len(c))
    <2> DEFINE l == Len(d)
               m == Len(c)
    <2>1. /\ l \in Nat /\ m \in Nat /\ l > 0 /\ l <= BLOCK_SIZE /\ offset + l <= m
          /\ (l = BLOCK_SIZE \/ offset + l = m)
          /\ AtUnit(offset, m)
          /\ k * BLOCK_SIZE <= Lesser(offset, MaxLen)
      BY <1>3, <1>7, <1>8, <1>9, <1>10
    <2> HIDE DEF l, m
    <2>2. k = offset \div BLOCK_SIZE
      OBVIOUS
    <2>3. end = After(k, l)
      BY DEF l, After
    <2>4. k \in 0 .. MaxFile /\ offset \in Nat
      BY <1>4, <1>9
    <2> HIDE DEF k, end
    <2>5. /\ offset = k * BLOCK_SIZE /\ Lesser(offset, MaxLen) = k * BLOCK_SIZE
          /\ Lesser(offset + l, MaxLen) = After(k, l) /\ AtUnit(offset + l, m)
      BY <2>1, <2>2, <2>4, NextOffset
    <2> QED BY <2>3, <2>5 DEF l, m
  <1> HIDE DEF k, i, d, end
  <1>12. ASSUME NEW e \in GoodDisks, Leads(disk, Stores(i, k, w, d), e)
         PROVE  Stocked(e)' /\ Writing(e)'
    <2>1. /\ StoredWay(i, k, w, e) /\ w.made[Depth(k)] # ENOSPC
          /\ e.itab[i].kind = core.itab[i].kind
      BY <1>2, <1>3, <1>4, <1>5, <1>6, <1>12, StoredFacts
    <2>2. /\ \A y \in FileNodes : y # i => e.itab[y] = disk.itab[y]
          /\ \A r \in {Root, HomeNode} : e.itab[r] = disk.itab[r]
      BY <1>3, <2>1, ListingBlocks DEF StoredWay, FileNodes
    <2>3. ASSUME NEW y \in FileNodes, NEW q \in Seq(Units), NEW n \in Nat, y # i, HoldsUnits(disk, y, q, n)
          PROVE  HoldsUnits(e, y, q, n)
      BY <1>2, <1>3, <1>4, <1>5, <1>6, <1>12, <2>3, WriteUnits
    <2>4. HoldsUnits(e, i, c, end)
      <3>1. HoldsUnits(disk, i, c, k * BLOCK_SIZE) /\ k * BLOCK_SIZE + Len(d) <= Len(c)
        BY <1>8, <1>10, <1>11
      <3>2. \A v \in 1 .. Len(d) : d[v] = c[k * BLOCK_SIZE + v]
        BY <1>8, <1>11
      <3> HIDE DEF c
      <3>3. HoldsUnits(e, i, c, k * BLOCK_SIZE + (IF k < MaxFile THEN Len(d) ELSE 0))
        BY <1>2, <1>3, <1>4, <1>5, <1>6, <1>9, <1>12, <3>1, <3>2, WriteUnits
      <3> QED BY <3>3 DEF end
    <2>5. Finds(e, path) = i
      <3>1. Parent(disk, path) \in {Root, HomeNode}
        BY <1>2, <1>6, FindsTranslate, ParentListed DEF i
      <3>2. \A j \in 1 .. Depth(k) : w.made[j] \notin Listing
        BY <1>2, <1>3, <1>4, <1>5, <1>6, <2>1, MadeApart
      <3>3. \A b \in Listing : e.blk[b] = disk.blk[b]
        BY <2>1, <3>2, ListingBlocks DEF StoredWay
      <3>4. disk.itab[Root].direct[0] = RootBlk /\ disk.itab[HomeNode].direct[0] = HomeBlk
        <4>1. DOMAIN disk.itab = Inodes
          BY <1>6, DiskFields
        <4> QED BY <4>1, ListingBlocks DEF NamesInv, Fixed
      <3> QED BY <1>6, <2>2, <3>1, <3>3, <3>4, FindsSame DEF Listing
    <2>6. ASSUME NEW y \in FileNodes
          PROVE  /\ e.itab[y].kind = "none" => from'[y] = NoLocal
                 /\ from'[y] # NoLocal => HoldsUnits(e, y, Contents[from'[y]], Upto(e, y)')
      <3>1. CASE y = i
        <4>1. Upto(e, y)' = Lesser(offset', MaxLen)
          BY <1>1, <2>5, <3>1 DEF Upto
        <4>2. Upto(e, y)' = end
          BY <1>1, <1>11, <4>1
        <4> QED BY <1>1, <1>7, <2>1, <2>4, <3>1, <4>2
      <3>2. CASE y # i
        <4>1. e.itab[y] = disk.itab[y] /\ from' = from
          BY <1>1, <2>2, <3>2
        <4>2. Upto(e, y)' = Upto(disk, y)
          BY <1>1, <1>6, <2>5, <3>2 DEF Upto
        <4>3. disk.itab[y].kind = "none" => from[y] = NoLocal
          BY <1>6 DEF Stocked
        <4>4. ASSUME from[y] # NoLocal
              PROVE  HoldsUnits(e, y, Contents[from[y]], Upto(disk, y))
          <5>1. HoldsUnits(disk, y, Contents[from[y]], Upto(disk, y))
            BY <1>6, <4>4 DEF Stocked
          <5>2. Contents[from[y]] \in Seq(Units) /\ Len(Contents[from[y]]) \in Nat
            BY <1>6, <4>4, LocalContents DEF FromTypes, FileNodes
          <5>3. Upto(disk, y) \in Nat
            BY <1>6, <3>2, <5>2, LesserFacts DEF Upto, Lesser
          <5> QED BY <2>3, <3>2, <5>1, <5>2, <5>3
        <4> QED BY <4>1, <4>2, <4>3, <4>4
      <3> QED BY <3>1, <3>2
    <2>7. Writing(e)'
      <3>1. Finds(e, path') = i /\ from'[i] = local' /\ e.itab[i].kind = "file"
        BY <1>1, <1>7, <2>1, <2>5
      <3>2. offset' <= Len(Contents[local'])
        BY <1>1, <1>8
      <3>3. (\E j \in Nat : offset' = j * BLOCK_SIZE) \/ offset' = Len(Contents[local'])
        BY <1>1, <1>11 DEF AtUnit
      <3> QED BY <1>3, <3>1, <3>2, <3>3 DEF Writing
    <2> QED BY <2>6, <2>7 DEF Stocked
  <1>13. disk' = disk /\ todo' = Stores(i, k, w, d)
    BY <1>5 DEF Perform
  <1>14. FromTypes'
    BY <1>1, <1>6 DEF FromTypes
  <1> QED BY <1>12, <1>13, <1>14 DEF DataInv

\* put ends at the end of what it reads, or behind what a file can hold.
LEMMA DataPutEnd ==
    ASSUME FsInv, NamesInv, LoopTypes, DataInv, ~full, PutEnd
    PROVE  DataInv'
  <1> DEFINE i == translate(path)
             c == Contents[local]
  <1>1. /\ at = "put" /\ Ready /\ at' = "prompt" /\ UNCHANGED <<disk, todo, from, full>>
        /\ Chunk = <<>> \/ offset > core.itab[i].size
    BY DEF PutEnd, Goto, vars, history, Size
  <1>2. /\ FromTypes /\ Stocked(disk) /\ Writing(disk)
        /\ disk.itab = core.itab /\ Finds(disk, path) = i
    BY <1>1, DataReady, ReadyFacts, FindsTranslate
  <1>3. i \in FileNodes /\ from[i] = local /\ local # NoLocal /\ offset <= Len(c)
    BY <1>1, <1>2, LocalContents DEF Writing, LoopTypes
  <1>4. offset \in Nat /\ Len(c) \in Nat /\ MaxLen \in Nat
    BY <1>1, LocalContents, LesserFacts DEF LoopTypes
  <1>5. core.itab[i].size = Lesser(offset, MaxLen)
    <2>1. Upto(disk, i) = Lesser(offset, MaxLen)
      BY <1>1, <1>2 DEF Upto
    <2> QED BY <1>2, <1>3, <2>1 DEF Stocked, HoldsUnits
  <1>6. Lesser(offset, MaxLen) = Lesser(Len(c), MaxLen)
    <2>1. CASE Chunk = <<>>
      BY <1>1, <1>3, <2>1, ChunkUnits
    <2>2. CASE offset > core.itab[i].size
      <3> DEFINE m == Len(c)
                 s == core.itab[i].size
      <3>1. s = Lesser(offset, MaxLen) /\ offset > s /\ m \in Nat /\ offset <= m
        BY <1>3, <1>4, <1>5, <2>2
      <3> HIDE DEF m, s
      <3>2. Lesser(offset, MaxLen) = Lesser(m, MaxLen)
        BY <1>4, <3>1 DEF Lesser
      <3> QED BY <3>2 DEF m
    <2> QED BY <1>1, <2>1, <2>2
  <1> HIDE DEF i
  <1>7. Stocked(disk)'
    <2>1. ASSUME NEW y \in FileNodes
          PROVE  Upto(disk, y)' = Upto(disk, y)
      BY <1>1, <1>2, <1>3, <1>6 DEF Upto
    <2> QED BY <1>1, <1>2, <2>1 DEF Stocked
  <1>8. FromTypes' /\ Writing(disk)'
    BY <1>1, <1>2 DEF FromTypes, Writing
  <1>9. todo = <<>>
    BY <1>1 DEF Ready
  <1>10. ASSUME NEW e \in GoodDisks, Leads(disk', todo', e)
         PROVE  Stocked(e)' /\ Writing(e)'
    <2>1. e = disk
      BY <1>1, <1>9, <1>10, LeadsNowhere
    <2> QED BY <1>1, <1>7, <1>8, <2>1
  <1> QED BY <1>8, <1>10 DEF DataInv

\* get leaves the device alone.
LEMMA DataIdle ==
    ASSUME DataInv, ~full, at # "put", at' # "put", UNCHANGED <<disk, todo, from>>
    PROVE  DataInv'
  <1>1. FromTypes /\ FromTypes'
    BY DEF DataInv, FromTypes
  <1>2. ASSUME NEW e \in GoodDisks, Leads(disk', todo', e)
        PROVE  Stocked(e)' /\ Writing(e)'
    <2>1. Stocked(e)
      BY <1>2 DEF DataInv
    <2>2. \A y \in FileNodes : Upto(e, y)' = Upto(e, y)
      BY DEF Upto
    <2> QED BY <2>1, <2>2 DEF Stocked, Writing
  <1> QED BY <1>1, <1>2 DEF DataInv

LEMMA CommandData ==
    ASSUME MakeDirs = FALSE, TypeBits = FALSE, FsInv, NamesInv, OwnInv, DataInv, ~full, cmdloop
    PROVE  DataInv'
  <1>1. at = "prompt"
    BY DEF cmdloop, Prompt
  <1>2. ASSUME NEW p \in Paths, SetAttributes(translate(p)), UNCHANGED <<at, from>> PROVE DataInv'
    <2>1. translate(p) \in Inodes
      BY <1>2, TranslateFacts DEF SetAttributes
    <2> QED BY <1>1, <1>2, <2>1, DataAttributes
  <1>3. CASE do_rename
    BY <1>1, <1>3, DataRename DEF do_rename, loop, history
  <1>4. CASE do_mkdir \/ do_rmdir
    BY <1>4 DEF do_mkdir, do_rmdir, fs_mkdir, fs_rmdir, CanRmdir
  <1>5. CASE do_utime
    BY <1>2, <1>5 DEF do_utime, loop, history
  <1>12. CASE do_chmod
    BY <1>1, <1>2, <1>12, Sizes, DataAttributes DEF do_chmod, fs_chmod, loop, history
  <1>6. CASE do_cd
    <2>1. Ready /\ Perform(fs_init(disk), <<>>) /\ UNCHANGED <<at, from>>
      BY <1>6 DEF do_cd, fs_getattr, loop, history
    <2> QED BY <1>1, <2>1, DataUnwritten
  <1>7. CASE do_touch
    BY <1>1, <1>2, <1>7, DataTouch DEF do_touch, loop, history
  <1>8. CASE do_truncate
    BY <1>1, <1>8, DataTruncate DEF do_truncate
  <1>9. CASE do_rm
    BY <1>1, <1>9, DataUnlink DEF do_rm
  <1>10. CASE PutBegin
    BY <1>1, <1>10, DataPutBegin
  <1>11. CASE GetBegin
    BY <1>1, <1>11, DataIdle DEF GetBegin, Goto, vars, history
  <1> QED BY <1>3, <1>4, <1>5, <1>6, <1>7, <1>8, <1>9, <1>10, <1>11, <1>12 DEF cmdloop

LEMMA DataStep ==
    ASSUME MakeDirs = FALSE, TypeBits = FALSE, ShellInv, NamesInv, OwnInv, DataInv, [ShellNext]_svars
    PROVE  DataInv'
  <1>1. FsInv /\ LoopTypes /\ FsInv'
    BY ShellStepInv DEF ShellInv
  <1>2. CASE full'
    BY <1>2 DEF DataInv
  <1>3. CASE UNCHANGED svars
    BY <1>3 DEF svars, vars, loop, history, DataInv, FromTypes, Stocked, Writing, Upto
  <1>4. CASE ShellNext /\ ~full'
    <2>1. ~full
      BY <1>1, <1>4, ShellSteps
    <2>2. CASE cmdloop
      BY <1>1, <2>1, <2>2, CommandData
    <2>3. CASE PutWrite
      BY <1>1, <1>4, <2>1, <2>3, DataPut
    <2>4. CASE PutNoSpace
      BY <1>4, <2>4 DEF PutNoSpace
    <2>5. CASE PutEnd
      BY <1>1, <2>1, <2>5, DataPutEnd
    <2>6. CASE GetRead
      BY <2>1, <2>6, DataIdle DEF GetRead, vars, history
    <2>7. CASE GetEnd
      BY <2>1, <2>7, DataIdle DEF GetEnd, Goto, vars, history
    <2>8. CASE Flush /\ UNCHANGED <<loop, history>>
      BY <1>1, <2>8, DataFlush
    <2> QED BY <1>4, <2>2, <2>3, <2>4, <2>5, <2>6, <2>7, <2>8 DEF ShellNext, Proceed
  <1> QED BY <1>2, <1>3, <1>4

-----------------------------------------------------------------------------
(* What a file holds, unit by unit, and what get writes outside. *)

\* The block a unit is in, and its place there.
LEMMA UnitInBlock ==
    ASSUME NEW s \in Nat, s > 0, NEW m \in Nat, NEW u \in Nat, u > 0, u <= m * s
    PROVE  /\ (u - 1) \div s \in 0 .. m - 1
           /\ 1 + ((u - 1) % s) \in 1 .. s
           /\ ((u - 1) \div s) * s + (1 + ((u - 1) % s)) = u
  <1> DEFINE a == u - 1
             b == a \div s
             r == a % s
  <1>1. a \in Nat /\ u = a + 1
    OBVIOUS
  <1> HIDE DEF a
  <1>2. a = s * b + r /\ r \in 0 .. s - 1 /\ b \in Nat
    BY <1>1
  <1>3. s * b = b * s /\ b * s \in Nat
    BY <1>2
  <1>4. a = b * s + r
    BY <1>2, <1>3
  <1> HIDE DEF b, r
  <1>5. ASSUME m <= b PROVE FALSE
    <2>1. m * s <= b * s
      <3>1. CASE m = b
        BY <1>3, <3>1
      <3>2. CASE m < b
        <4>1. m * s + s <= b * s /\ m * s \in Nat
          BY <1>2, <3>2, Multiples
        <4> QED BY <1>3, <4>1
      <3> QED BY <1>2, <1>5, <3>1, <3>2
    <2> DEFINE x == m * s
               y == b * s
    <2>2. x <= y /\ u <= x /\ y \in Nat /\ x \in Nat /\ a = y + r
      BY <1>3, <1>4, <2>1
    <2> HIDE DEF x, y
    <2> QED BY <1>1, <1>2, <2>2
  <1>6. b \in 0 .. m - 1
    BY <1>2, <1>5
  <1>7. b * s + (1 + r) = u
    <2> DEFINE y == b * s
    <2>1. y \in Nat /\ a = y + r
      BY <1>3, <1>4
    <2> HIDE DEF y
    <2>2. y + (1 + r) = u
      BY <1>1, <1>2, <2>1
    <2> QED BY <2>2 DEF y
  <1>8. 1 + r \in 1 .. s
    BY <1>2
  <1> QED BY <1>6, <1>7, <1>8 DEF a, b, r

\* The number of a file's block, as fs_read finds it.
BlockOf(i, b) == IF b < N_DIRECT THEN core.itab[i].direct[b]
                 ELSE disk.blk[core.itab[i].indir_1].ptrs[b - N_DIRECT]

LEMMA UnitBlock ==
    ASSUME disk \in Disks, disk.itab = core.itab, NEW i \in Inodes, NEW b \in 0 .. MaxFile - 1
    PROVE  /\ BlockOf(i, b) \in Blocks
           /\ V(disk, i, UnitPlace(b)) # 0 => BlockOf(i, b) = V(disk, i, UnitPlace(b))
  <1> DEFINE x == core.itab[i]
  <1>1. /\ b \in Int /\ 0 <= b /\ b < MaxFile /\ N_DIRECT \in Nat /\ Pointers \in Nat
        /\ MaxFile = N_DIRECT + Pointers /\ MaxFile \in Nat
    BY Sizes
  <1> HIDE DEF MaxFile
  <1>2. x \in InodeType /\ V(disk, i, UnitPlace(b)) = PointerAt(disk, x, UnitPlace(b))
    BY DiskFields DEF V
  <1> HIDE DEF x
  <1>3. CASE b < N_DIRECT
    <2>1. b \in 0 .. N_DIRECT - 1
      BY <1>1, <1>3
    <2>2. BlockOf(i, b) = x.direct[b] /\ UnitPlace(b) = AtDirect(b) /\ x.direct[b] \in Blocks
      BY <1>2, <1>3, <2>1 DEF BlockOf, UnitPlace, x, InodeType
    <2> QED BY <1>2, <2>1, <2>2, PointerFacts
  <1>4. CASE ~(b < N_DIRECT)
    <2>1. b - N_DIRECT \in 0 .. Pointers - 1
      BY <1>1, <1>4
    <2>2. /\ BlockOf(i, b) = disk.blk[x.indir_1].ptrs[b - N_DIRECT]
          /\ UnitPlace(b) = AtFirst(b - N_DIRECT) /\ x.indir_1 \in Blocks
      BY <1>2, <1>4 DEF BlockOf, UnitPlace, x, InodeType
    <2>3. disk.blk[x.indir_1] \in BlockType
      BY <2>2, DiskFields
    <2>4. disk.blk[x.indir_1].ptrs[b - N_DIRECT] \in Blocks
      BY <2>1, <2>3 DEF BlockType
    <2>5. PointerAt(disk, x, UnitPlace(b)) = Behind(disk, x.indir_1, b - N_DIRECT)
      BY <1>2, <2>1, <2>2, PointerFacts
    <2> QED BY <1>2, <2>2, <2>4, <2>5 DEF Behind
  <1> QED BY <1>3, <1>4

LEMMA SameSequences ==
    ASSUME NEW S, NEW q \in Seq(S), NEW n \in Nat, NEW f \in [1 .. n -> S], n <= Len(q),
           \A u \in 1 .. n : f[u] = q[u]
    PROVE  f = SubSeq(q, 1, n)
  <1> DEFINE r == SubSeq(q, 1, n)
  <1>1. r \in Seq(S) /\ Len(r) = n /\ \A u \in 1 .. n : r[u] = q[u]
    <2>1. \A u \in 1 .. n : q[u] \in S
      OBVIOUS
    <2>2. r \in Seq(S) /\ Len(r) = (IF 1 <= n THEN n - 1 + 1 ELSE 0)
          /\ \A u \in 1 .. n - 1 + 1 : r[u] = q[1 + u - 1]
      BY <2>1, SubSeqProperties
    <2> HIDE DEF r
    <2> QED BY <2>2
  <1> HIDE DEF r
  <1>2. r \in [1 .. n -> S]
    BY <1>1, LenProperties
  <1>3. r = f
    BY <1>1, <1>2
  <1> QED BY <1>3 DEF r

\* A node that has the units of c has them where fs_read looks.
LEMMA HoldsStored ==
    ASSUME disk \in Disks, disk.itab = core.itab, NEW i \in FileNodes, NEW c \in Seq(Units),
           NEW n \in Nat, n <= MaxLen, HoldsUnits(disk, i, c, n)
    PROVE  Stored(i) = SubSeq(c, 1, n)
  <1>1. /\ BLOCK_SIZE \in Nat /\ BLOCK_SIZE > 0 /\ MaxFile \in Nat /\ MaxLen = MaxFile * BLOCK_SIZE
        /\ i \in Inodes
    BY Sizes DEF FileNodes, MaxLen
  <1>2. Size(i) = n /\ n <= Len(c)
    BY DEF HoldsUnits, Size
  <1> DEFINE B(u) == (u - 1) \div BLOCK_SIZE
             R(u) == 1 + ((u - 1) % BLOCK_SIZE)
             g == [u \in 1 .. n |-> disk.blk[BlockOf(i, B(u))].data[R(u)]]
  <1>3. Stored(i) = g
    BY <1>2 DEF Stored, BlockOf
  <1>4. ASSUME NEW u \in 1 .. n
        PROVE  disk.blk[BlockOf(i, B(u))].data[R(u)] = c[u]
    <2>1. u \in Nat /\ u > 0 /\ u <= n /\ u <= MaxFile * BLOCK_SIZE
      <3> HIDE DEF MaxFile
      <3>1. u \in Nat /\ u > 0 /\ u <= n
        OBVIOUS
      <3>2. u <= MaxLen
        BY <3>1, LesserFacts
      <3> QED BY <1>1, <3>1, <3>2
    <2> HIDE DEF MaxFile
    <2>2. B(u) \in 0 .. MaxFile - 1 /\ R(u) \in 1 .. BLOCK_SIZE /\ B(u) * BLOCK_SIZE + R(u) = u
      BY <1>1, <2>1, UnitInBlock
    <2> DEFINE b == B(u)
               r == R(u)
    <2>3. b \in 0 .. MaxFile - 1 /\ r \in 1 .. BLOCK_SIZE /\ b * BLOCK_SIZE + r = u
      BY <2>2
    <2> HIDE DEF b, r, B, R
    <2>4. /\ V(disk, i, UnitPlace(b)) # 0
          /\ disk.blk[V(disk, i, UnitPlace(b))].data[r] = c[b * BLOCK_SIZE + r]
      BY <2>1, <2>3 DEF HoldsUnits
    <2>5. BlockOf(i, b) = V(disk, i, UnitPlace(b))
      BY <1>1, <2>3, <2>4, UnitBlock
    <2>6. disk.blk[BlockOf(i, b)].data[r] = c[u]
      BY <2>3, <2>4, <2>5
    <2> QED BY <2>6 DEF b, r
  <1> HIDE DEF B, R
  <1>5. g \in [1 .. n -> Units] /\ \A u \in 1 .. n : g[u] = c[u]
    <2>1. \A u \in 1 .. n : c[u] \in Units
      BY <1>2
    <2> QED BY <1>4, <2>1
  <1> HIDE DEF g
  <1>6. g = SubSeq(c, 1, n)
    BY <1>2, <1>5, SameSequences
  <1> QED BY <1>3, <1>6

LEMMA DataHolds ==
    ASSUME ShellInv, NamesInv, OwnInv, DataInv
    PROVE  FilesHoldWhatWasPut
  <1> SUFFICES ASSUME at # "put", todo = <<>>, ~full, NEW i \in LiveNodes, from[i] # NoLocal,
                      Len(Contents[from[i]]) <= MaxFile * BLOCK_SIZE
               PROVE  Stored(i) = Contents[from[i]]
    BY DEF FilesHoldWhatWasPut
  <1> DEFINE c == Contents[from[i]]
             n == Lesser(Len(c), MaxLen)
  <1>1. disk \in Disks /\ core.itab = disk.itab /\ LiveNodes \subseteq Inodes
    BY BetweenCommands
  <1>2. disk \in GoodDisks /\ Leads(disk, todo, disk)
    BY LeadsEnds, LeadsNone DEF ShellInv, FsInv, Reaches
  <1>3. FromTypes /\ Stocked(disk)
    BY <1>2 DEF DataInv
  <1>4. i \in FileNodes /\ from[i] \in Locals
    BY <1>1, <1>3 DEF FromTypes, FileNodes
  <1>5. c \in Seq(Units) /\ Len(c) \in Nat /\ MaxLen \in Nat
    BY <1>4, LocalContents, LesserFacts
  <1>6. HoldsUnits(disk, i, c, n)
    BY <1>3, <1>4 DEF Stocked, Upto
  <1>7. n \in Nat /\ n <= MaxLen
    <2> DEFINE l == Len(c)
    <2>1. l \in Nat
      BY <1>5
    <2> HIDE DEF l
    <2>2. Lesser(l, MaxLen) \in Nat /\ Lesser(l, MaxLen) <= MaxLen
      BY <1>5, <2>1 DEF Lesser
    <2> QED BY <2>2 DEF l
  <1>8. n = Len(c)
    <2> DEFINE l == Len(c)
    <2>1. l \in Nat /\ l <= MaxLen
      BY <1>5 DEF MaxLen
    <2> HIDE DEF l
    <2>2. Lesser(l, MaxLen) = l
      BY <2>1 DEF Lesser
    <2> QED BY <2>2 DEF l
  <1> HIDE DEF n, c
  <1>9. Stored(i) = SubSeq(c, 1, n)
    BY <1>1, <1>4, <1>5, <1>6, <1>7, HoldsStored
  <1>10. c \in [1 .. n -> Units] /\ n <= Len(c)
    BY <1>5, <1>8, LenProperties
  <1>11. c = SubSeq(c, 1, n)
    BY <1>5, <1>7, <1>10, SameSequences
  <1> QED BY <1>9, <1>11 DEF c

\* get reads a file that stays as it is, block by block, and what it has
\* written outside ends where it reads next.
Cells == Units \cup {0}
GetInv == at \in {"get", "got"} =>
    /\ Ready /\ ~full
    /\ translate(path) # 0 /\ ~IsDir(translate(path))
    /\ out \in Seq(Cells) /\ blkbuf \in [1 .. BLOCK_SIZE -> Cells]
    /\ Size(translate(path)) \in Nat
    /\ offset = Len(out) /\ offset <= Size(translate(path))
    /\ at = "got" => offset = Size(translate(path))
    /\ AtUnit(offset, Size(translate(path)))
    /\ from[translate(path)] # NoLocal =>
          \A u \in 1 .. Len(out) : u <= Whole(Size(translate(path))) =>
                                       out[u] = Contents[from[translate(path)]][u]

LEMMA SameFile ==
    ASSUME UNCHANGED <<core, disk, todo, path>>
    PROVE  /\ translate(path)' = translate(path) /\ Size(translate(path))' = Size(translate(path))
           /\ IsDir(translate(path))' = IsDir(translate(path)) /\ Ready' = Ready
  <1>1. translate(path)' = translate(path)
    BY DEF translate, translate_1, lookup, Leaf, IsDir, Dirents, DirBlk
  <1> QED BY <1>1 DEF Size, IsDir, Ready

\* The whole blocks of a file, from one of them on.
LEMMA LastWhole ==
    ASSUME NEW s \in Nat, NEW j \in Nat, j * BLOCK_SIZE <= s
    PROVE  /\ s < j * BLOCK_SIZE + BLOCK_SIZE => Whole(s) = j * BLOCK_SIZE
           /\ Whole(s) \in Nat
  <1> DEFINE a == j * BLOCK_SIZE
             q == s \div BLOCK_SIZE
             r == s % BLOCK_SIZE
             w == q * BLOCK_SIZE
  <1>1. BLOCK_SIZE \in Nat /\ BLOCK_SIZE > 0 /\ a \in Nat
    BY Sizes
  <1>2. s = BLOCK_SIZE * q + r /\ r \in 0 .. BLOCK_SIZE - 1 /\ q \in Nat
    BY <1>1
  <1>3. BLOCK_SIZE * q = w /\ w \in Nat
    BY <1>1, <1>2
  <1>4. s = w + r
    BY <1>2, <1>3
  <1> HIDE DEF q, r
  <1>5. ASSUME s < a + BLOCK_SIZE PROVE q = j
    <2>1. ASSUME j < q PROVE FALSE
      <3>1. a + BLOCK_SIZE <= w
        BY <1>1, <1>2, <2>1, Multiples
      <3> HIDE DEF a, w
      <3> QED BY <1>1, <1>2, <1>3, <1>4, <1>5, <3>1
    <2>2. ASSUME q < j PROVE FALSE
      <3>1. w + BLOCK_SIZE <= a
        BY <1>1, <1>2, <2>2, Multiples
      <3>2. a <= s
        OBVIOUS
      <3> HIDE DEF a, w
      <3> QED BY <1>1, <1>2, <1>3, <1>4, <3>1, <3>2
    <2> QED BY <1>2, <2>1, <2>2
  <1> QED BY <1>3, <1>5 DEF Whole, q

LEMMA GetStart == ASSUME ShellInit PROVE GetInv
  BY DEF ShellInit, GetInv

LEMMA GetBegins ==
    ASSUME FsInv, NamesInv, GetBegin, ~full
    PROVE  GetInv'
  <1>1. PICK p \in Paths : /\ Ready /\ translate(p) # 0 /\ ~IsDir(translate(p)) /\ at' = "get"
                           /\ path' = p /\ offset' = 0 /\ blkbuf' = Junk /\ out' = <<>>
                           /\ UNCHANGED <<core, disk, todo, from, full>>
    BY DEF GetBegin, Goto, fs_open, vars, history
  <1> DEFINE i == translate(p)
  <1>2. i \in Inodes
    BY <1>1, TranslateFacts
  <1>3. Size(i) \in Nat
    <2>1. core.itab[i] \in InodeType /\ MaxFile * BLOCK_SIZE \in Nat
      BY <1>1, <1>2, ReadyFacts, CoreFields, Sizes
    <2> QED BY <2>1 DEF InodeType, Size
  <1>4. translate(p)' = translate(p)
    BY <1>1 DEF translate, translate_1, lookup, Leaf, IsDir, Dirents, DirBlk
  <1>5. translate(path)' = translate(p)'
    BY <1>1 DEF translate, translate_1, lookup, Leaf, IsDir, Dirents, DirBlk
  <1>6. translate(path)' = i /\ Size(translate(path))' = Size(i) /\ IsDir(translate(path))' = IsDir(i)
        /\ Ready'
    BY <1>1, <1>4, <1>5 DEF Size, IsDir, Ready
  <1>7. out' \in Seq(Cells) /\ Len(out') = 0 /\ blkbuf' \in [1 .. BLOCK_SIZE -> Cells]
    BY <1>1 DEF Junk, Cells
  <1>8. AtUnit(0, Size(i))
    <2>1. 0 = 0 * BLOCK_SIZE /\ 0 \in Nat
      BY Sizes
    <2> QED BY <2>1 DEF AtUnit
  <1> HIDE DEF i
  <1>9. AtUnit(offset, Size(translate(path)))'
    <2>1. offset' = 0 /\ Size(translate(path))' = Size(i)
      BY <1>1, <1>6
    <2> QED BY <1>8, <2>1 DEF AtUnit
  <1>10. Size(translate(path))' \in Nat /\ offset' = Len(out') /\ offset' <= Size(translate(path))' /\ \A u \in 1 .. Len(out') : FALSE
    BY <1>1, <1>3, <1>6, <1>7
  <1>11. /\ Ready' /\ ~full' /\ translate(path)' # 0 /\ ~IsDir(translate(path))' /\ at' # "got"
    BY <1>1, <1>6 DEF i
  <1> QED BY <1>7, <1>9, <1>10, <1>11 DEF GetInv

LEMMA MaxWithNone == ASSUME NEW a \in Nat PROVE Max({a, 0}) = a
  <1> DEFINE T == {a, 0}
  <1>1. a \in T /\ \A y \in T : a >= y
    OBVIOUS
  <1>2. \A x \in T : (\A y \in T : x >= y) => x = a
    OBVIOUS
  <1> HIDE DEF T
  <1>3. Max(T) = a
    BY <1>1, <1>2, Zenon DEF Max
  <1> QED BY <1>3 DEF T

\* A part of a buffer, put behind what there is.
LEMMA Appended ==
    ASSUME NEW S, NEW o \in Seq(S), NEW m \in Nat, NEW b \in [1 .. m -> S], NEW r \in 0 .. m
    PROVE  /\ o \o SubSeq(b, 1, r) \in Seq(S)
           /\ Len(o \o SubSeq(b, 1, r)) = Len(o) + r
           /\ \A u \in 1 .. Len(o) : (o \o SubSeq(b, 1, r))[u] = o[u]
           /\ \A v \in 1 .. r : (o \o SubSeq(b, 1, r))[Len(o) + v] = b[v]
  <1> DEFINE x == SubSeq(b, 1, r)
  <1>1. x \in Seq(S) /\ Len(x) = r /\ \A v \in 1 .. r : x[v] = b[v]
    <2>1. \A v \in 1 .. r : b[v] \in S
      OBVIOUS
    <2>2. x \in Seq(S) /\ Len(x) = (IF 1 <= r THEN r - 1 + 1 ELSE 0)
          /\ \A v \in 1 .. r - 1 + 1 : x[v] = b[1 + v - 1]
      BY <2>1, SubSeqProperties
    <2> HIDE DEF x
    <2> QED BY <2>2
  <1> HIDE DEF x
  <1>2. o \o x \in Seq(S) /\ Len(o \o x) = Len(o) + r
    BY <1>1
  <1>3. \A u \in 1 .. Len(o) : (o \o x)[u] = o[u]
    BY <1>1
  <1>4. \A v \in 1 .. r : (o \o x)[Len(o) + v] = x[v]
    BY <1>1
  <1> QED BY <1>1, <1>2, <1>3, <1>4 DEF x

\* What one read gives: the rest of the file, from the buffer as it is, or a
\* whole block, with the units of the file that was put.
LEMMA ReadFacts ==
    ASSUME FsInv, NamesInv, LoopTypes, DataInv, GetInv, at = "get"
    PROVE  /\ translate(path) \in FileNodes /\ Size(translate(path)) \in Nat
           /\ offset + BLOCK_SIZE > Size(translate(path)) =>
                 /\ fs_read(translate(path)).ret = Size(translate(path)) - offset
                 /\ fs_read(translate(path)).buf = blkbuf
           /\ offset + BLOCK_SIZE <= Size(translate(path)) =>
                 /\ fs_read(translate(path)).ret = BLOCK_SIZE
                 /\ fs_read(translate(path)).buf \in [1 .. BLOCK_SIZE -> Cells]
                 /\ from[translate(path)] # NoLocal =>
                       \A v \in 1 .. BLOCK_SIZE :
                           fs_read(translate(path)).buf[v]
                              = Contents[from[translate(path)]][offset + v]
  <1> DEFINE i == translate(path)
             s == Size(i)
             r == fs_read(i)
  <1>1. /\ Ready /\ ~full /\ i # 0 /\ ~IsDir(i) /\ path \in Paths
        /\ blkbuf \in [1 .. BLOCK_SIZE -> Cells] /\ offset \in Nat /\ offset <= s
        /\ AtUnit(offset, s)
    BY DEF GetInv, LoopTypes
  <1>2. /\ i \in FileNodes /\ i \in Inodes
    BY <1>1, FileNode
  <1>3. /\ disk \in Disks /\ disk.itab = core.itab /\ core.itab[i] \in InodeType
        /\ FromTypes /\ Stocked(disk)
    BY <1>1, <1>2, ReadyFacts, CoreFields, DataReady
  <1>4. s \in Nat /\ s <= MaxLen /\ MaxLen \in Nat /\ BLOCK_SIZE \in Nat /\ BLOCK_SIZE > 0
    <2>1. s \in 0 .. MaxLen
      BY <1>3 DEF InodeType, Size, MaxLen
    <2> HIDE DEF s
    <2> QED BY <2>1, LesserFacts, Sizes
  <1> HIDE DEF i
  <1>5. CASE offset + BLOCK_SIZE > s
    <2>1. r.ret = Max({s - offset, 0}) /\ r.buf = blkbuf
      BY <1>1, <1>5 DEF fs_read
    <2> HIDE DEF s, r
    <2>2. s - offset \in Nat /\ ~(offset + BLOCK_SIZE <= s)
      BY <1>1, <1>4, <1>5
    <2>3. r.ret = s - offset
      BY <2>1, <2>2, MaxWithNone
    <2> QED BY <1>2, <1>4, <2>1, <2>2, <2>3 DEF i, s, r
  <1>6. CASE ~(offset + BLOCK_SIZE > s)
    <2> DEFINE k == offset \div BLOCK_SIZE
    <2>1. offset + BLOCK_SIZE <= s /\ offset # s
      <3> HIDE DEF s
      <3> QED BY <1>1, <1>4, <1>6
    <2>2. k \in Nat /\ offset = k * BLOCK_SIZE
      <3>1. PICK j \in Nat : offset = j * BLOCK_SIZE
        BY <1>1, <2>1 DEF AtUnit
      <3>2. j = k
        BY <1>4, <3>1, WholeBlocks
      <3> QED BY <3>1, <3>2
    <2> HIDE DEF k
    <2>3. k \in 0 .. MaxFile - 1
      <3> DEFINE n == MaxFile
      <3>1. n \in Nat /\ MaxLen = n * BLOCK_SIZE
        BY Sizes DEF MaxLen
      <3> HIDE DEF n
      <3>2. ASSUME n <= k PROVE FALSE
        <4>1. n * BLOCK_SIZE <= k * BLOCK_SIZE
          <5>1. CASE n = k
            BY <1>1, <2>2, <5>1
          <5>2. CASE n < k
            <6>1. n * BLOCK_SIZE + BLOCK_SIZE <= k * BLOCK_SIZE /\ n * BLOCK_SIZE \in Nat
              BY <1>4, <2>2, <3>1, <5>2, Multiples
            <6> QED BY <1>1, <1>4, <2>2, <6>1
          <5> QED BY <2>2, <3>1, <3>2, <5>1, <5>2
        <4>2. MaxLen <= offset
          BY <2>2, <3>1, <4>1
        <4> HIDE DEF s
        <4> QED BY <1>1, <1>4, <2>1, <4>2
      <3> QED BY <2>2, <3>1, <3>2 DEF n
    <2>4. offset < N_DIRECT * BLOCK_SIZE <=> k < N_DIRECT
      <3>1. N_DIRECT \in Nat
        BY Sizes
      <3>2. ASSUME k < N_DIRECT PROVE offset < N_DIRECT * BLOCK_SIZE
        <4>1. k * BLOCK_SIZE + BLOCK_SIZE <= N_DIRECT * BLOCK_SIZE
          BY <1>4, <2>2, <3>1, <3>2, Multiples
        <4> DEFINE x == N_DIRECT * BLOCK_SIZE
        <4>2. x \in Int /\ offset + BLOCK_SIZE <= x
          BY <1>4, <2>2, <3>1, <4>1
        <4> HIDE DEF x
        <4>3. offset < x
          BY <1>1, <1>4, <4>2
        <4> QED BY <4>3 DEF x
      <3>3. ASSUME N_DIRECT < k PROVE ~(offset < N_DIRECT * BLOCK_SIZE)
        <4> DEFINE x == N_DIRECT * BLOCK_SIZE
        <4>1. x \in Nat /\ x + BLOCK_SIZE <= offset
          BY <1>4, <2>2, <3>1, <3>3, Multiples
        <4> HIDE DEF x
        <4>2. ~(offset < x)
          BY <1>1, <1>4, <4>1
        <4> QED BY <4>2 DEF x
      <3>4. ASSUME N_DIRECT = k PROVE ~(offset < N_DIRECT * BLOCK_SIZE)
        <4>1. offset = N_DIRECT * BLOCK_SIZE
          BY <2>2, <3>4
        <4> QED BY <1>1, <4>1
      <3> QED BY <2>2, <3>1, <3>2, <3>3, <3>4
    <2>5. r.ret = BLOCK_SIZE /\ r.buf = disk.blk[BlockOf(i, k)].data
      <3>1. fs_read(i) = IF offset < N_DIRECT * BLOCK_SIZE
                         THEN [ret |-> BLOCK_SIZE, buf |-> fs_read_dir(i)]
                         ELSE [ret |-> BLOCK_SIZE, buf |-> fs_read_indir1(i)]
        BY <1>1, <1>6 DEF fs_read
      <3>2. fs_read_dir(i) = disk.blk[core.itab[i].direct[k]].data
        BY DEF fs_read_dir, k
      <3>3. fs_read_indir1(i) = disk.blk[disk.blk[core.itab[i].indir_1].ptrs[k - N_DIRECT]].data
        BY DEF fs_read_indir1, k
      <3> DEFINE x == fs_read_dir(i)
                 y == fs_read_indir1(i)
      <3>4. CASE k < N_DIRECT
        <4>1. BlockOf(i, k) = core.itab[i].direct[k]
          BY <3>4 DEF BlockOf
        <4>2. x = disk.blk[BlockOf(i, k)].data /\ fs_read(i) = [ret |-> BLOCK_SIZE, buf |-> x]
          BY <2>4, <3>1, <3>2, <3>4, <4>1
        <4> HIDE DEF x
        <4> QED BY <4>2
      <3>5. CASE ~(k < N_DIRECT)
        <4>1. BlockOf(i, k) = disk.blk[core.itab[i].indir_1].ptrs[k - N_DIRECT]
          BY <3>5 DEF BlockOf
        <4>2. y = disk.blk[BlockOf(i, k)].data /\ fs_read(i) = [ret |-> BLOCK_SIZE, buf |-> y]
          BY <2>4, <3>1, <3>3, <3>5, <4>1
        <4> HIDE DEF y
        <4> QED BY <4>2
      <3> QED BY <3>4, <3>5
    <2> HIDE DEF r
    <2>6. r.buf \in [1 .. BLOCK_SIZE -> Cells]
      <3>1. disk.blk[BlockOf(i, k)] \in BlockType
        BY <1>2, <1>3, <2>3, UnitBlock, DiskFields
      <3> QED BY <2>5, <3>1 DEF BlockType, Cells
    <2>7. ASSUME from[i] # NoLocal, NEW v \in 1 .. BLOCK_SIZE
          PROVE  r.buf[v] = Contents[from[i]][offset + v]
      <3>1. HoldsUnits(disk, i, Contents[from[i]], Upto(disk, i)) /\ s = Upto(disk, i)
        BY <1>2, <1>3, <2>7 DEF Stocked, HoldsUnits, Size
      <3>2. offset + v <= s
        <4> HIDE DEF s
        <4> QED BY <1>1, <1>4, <2>1
      <3>3. k * BLOCK_SIZE + v <= Upto(disk, i)
        BY <2>2, <3>1, <3>2
      <3>4. /\ V(disk, i, UnitPlace(k)) # 0
            /\ disk.blk[V(disk, i, UnitPlace(k))].data[v] = Contents[from[i]][k * BLOCK_SIZE + v]
        BY <2>3, <3>1, <3>3 DEF HoldsUnits
      <3>5. BlockOf(i, k) = V(disk, i, UnitPlace(k))
        BY <1>2, <1>3, <2>3, <3>4, UnitBlock
      <3> QED BY <2>2, <2>5, <3>4, <3>5
    <2>8. ~(offset + BLOCK_SIZE > s)
      BY <1>6
    <2> QED BY <1>2, <1>4, <2>5, <2>6, <2>7, <2>8 DEF i, s, r
  <1> QED BY <1>5, <1>6

LEMMA GetReads ==
    ASSUME FsInv, NamesInv, LoopTypes, DataInv, GetInv, GetRead
    PROVE  GetInv'
  <1> DEFINE i == translate(path)
             s == Size(i)
             n == fs_read(i).ret
             b == fs_read(i).buf
             c == Contents[from[i]]
             o == out \o SubSeq(b, 1, n)
  <1>1. /\ at = "get" /\ Ready /\ UNCHANGED <<core, disk, todo, path, from, full>>
        /\ blkbuf' = b /\ out' = o
        /\ offset' = IF n > 0 THEN offset + n ELSE offset
        /\ at' = IF n = 0 THEN "got" ELSE "get"
    BY DEF GetRead, vars, history
  <1>2. /\ ~full /\ i # 0 /\ ~IsDir(i) /\ out \in Seq(Cells)
        /\ blkbuf \in [1 .. BLOCK_SIZE -> Cells]
        /\ offset = Len(out) /\ offset <= s /\ AtUnit(offset, s) /\ offset \in Nat
        /\ from[i] # NoLocal => \A u \in 1 .. Len(out) : u <= Whole(s) => out[u] = c[u]
    BY <1>1 DEF GetInv, LoopTypes
  <1>3. /\ s \in Nat /\ BLOCK_SIZE \in Nat /\ BLOCK_SIZE > 0
        /\ offset + BLOCK_SIZE > s => n = s - offset /\ b = blkbuf
        /\ offset + BLOCK_SIZE <= s =>
              /\ n = BLOCK_SIZE /\ b \in [1 .. BLOCK_SIZE -> Cells]
              /\ from[i] # NoLocal => \A v \in 1 .. BLOCK_SIZE : b[v] = c[offset + v]
    BY <1>1, ReadFacts, Sizes
  <1>4. translate(path)' = i /\ Size(translate(path))' = s /\ ~IsDir(translate(path))' /\ Ready'
    BY <1>1, <1>2, SameFile
  <1>5. Whole(s) \in Nat
    <2>1. 0 * BLOCK_SIZE <= s /\ 0 \in Nat
      BY <1>3
    <2> HIDE DEF s
    <2> QED BY <1>3, <2>1, LastWhole
  <1> HIDE DEF i, s, n, b, c
  <1>6. n \in 0 .. BLOCK_SIZE /\ b \in [1 .. BLOCK_SIZE -> Cells]
    BY <1>2, <1>3
  <1>7. /\ o \in Seq(Cells) /\ Len(o) = offset + n
        /\ \A u \in 1 .. offset : o[u] = out[u]
        /\ \A v \in 1 .. n : o[offset + v] = b[v]
    BY <1>2, <1>3, <1>6, Appended
  <1> HIDE DEF o
  <1>8. offset' = offset + n /\ (offset + n <= s) /\ (n = 0 => offset = s)
    BY <1>1, <1>2, <1>3, <1>6
  <1>9. AtUnit(offset + n, s)
    <2>1. CASE offset + BLOCK_SIZE > s
      <3>1. offset + n = s
        BY <1>2, <1>3, <2>1
      <3> QED BY <3>1 DEF AtUnit
    <2>2. CASE offset + BLOCK_SIZE <= s
      <3>1. PICK j \in Nat : offset = j * BLOCK_SIZE
        BY <1>2, <1>3, <2>2 DEF AtUnit
      <3>2. offset + n = (j + 1) * BLOCK_SIZE
        BY <1>3, <2>2, <3>1
      <3> QED BY <3>2 DEF AtUnit
    <2> QED BY <1>2, <1>3, <2>1, <2>2
  <1>10. ASSUME from[i] # NoLocal, NEW u \in 1 .. offset + n, u <= Whole(s)
         PROVE  o[u] = c[u]
    <2>1. CASE u <= offset
      <3>1. u \in 1 .. Len(out)
        BY <1>2, <1>6, <2>1
      <3> QED BY <1>2, <1>7, <1>10, <3>1
    <2>2. CASE ~(u <= offset)
      <3>1. CASE offset + BLOCK_SIZE > s
        <4>1. u <= s /\ offset # s
          BY <1>2, <1>3, <1>6, <1>8, <2>2
        <4>2. PICK j \in Nat : offset = j * BLOCK_SIZE
          BY <1>2, <4>1 DEF AtUnit
        <4>3. s < j * BLOCK_SIZE + BLOCK_SIZE /\ j * BLOCK_SIZE <= s
          BY <1>2, <1>3, <3>1, <4>2
        <4>4. Whole(s) = offset
          BY <1>3, <4>2, <4>3, LastWhole
        <4> QED BY <1>10, <2>2, <4>4
      <3>2. CASE offset + BLOCK_SIZE <= s
        <4> DEFINE v == u - offset
        <4>1. v \in 1 .. n /\ v \in 1 .. BLOCK_SIZE /\ offset + v = u
          BY <1>2, <1>3, <1>6, <2>2, <3>2
        <4> HIDE DEF v
        <4>2. o[offset + v] = b[v] /\ b[v] = c[offset + v]
          BY <1>3, <1>7, <1>10, <3>2, <4>1
        <4> QED BY <4>1, <4>2
      <3> QED BY <1>2, <1>3, <3>1, <3>2
    <2> QED BY <2>1, <2>2
  <1>11. /\ Ready' /\ ~full' /\ translate(path)' # 0 /\ ~IsDir(translate(path))'
         /\ out' \in Seq(Cells) /\ blkbuf' \in [1 .. BLOCK_SIZE -> Cells]
         /\ Size(translate(path))' \in Nat
         /\ offset' = Len(out') /\ offset' <= Size(translate(path))'
    BY <1>1, <1>2, <1>3, <1>4, <1>6, <1>7, <1>8 DEF i
  <1>12. at' = "got" => offset' = Size(translate(path))'
    BY <1>1, <1>3, <1>4, <1>6, <1>8
  <1>13. AtUnit(offset, Size(translate(path)))'
    BY <1>4, <1>8, <1>9 DEF AtUnit
  <1>14. from'[translate(path)'] # NoLocal =>
            \A u \in 1 .. Len(out') : u <= Whole(Size(translate(path)))' =>
                                         out'[u] = Contents[from'[translate(path)']][u]
    <2>1. Whole(Size(translate(path)))' = Whole(s)
      BY <1>4 DEF Whole
    <2>2. from' = from /\ translate(path)' = i /\ Len(out') = offset + n /\ out' = o
      BY <1>1, <1>4, <1>7
    <2> QED BY <1>10, <2>1, <2>2 DEF c
  <1> QED BY <1>11, <1>12, <1>13, <1>14 DEF GetInv

LEMMA GetStep ==
    ASSUME ShellInv, NamesInv, DataInv, GetInv, [ShellNext]_svars
    PROVE  GetInv'
  <1>1. FsInv /\ LoopTypes
    BY DEF ShellInv
  <1>2. CASE UNCHANGED svars
    <2>1. UNCHANGED <<core, disk, todo, path, at, full, out, blkbuf, offset, from>>
      BY <1>2 DEF svars, vars, loop, history
    <2>2. translate(path)' = translate(path) /\ Size(translate(path))' = Size(translate(path))
          /\ IsDir(translate(path))' = IsDir(translate(path)) /\ Ready' = Ready
      BY <2>1, SameFile
    <2>3. AtUnit(offset, Size(translate(path)))' = AtUnit(offset, Size(translate(path)))
          /\ Whole(Size(translate(path)))' = Whole(Size(translate(path)))
      BY <2>1, <2>2 DEF AtUnit, Whole
    <2> QED BY <2>1, <2>2, <2>3 DEF GetInv
  <1>3. CASE GetRead
    BY <1>1, <1>3, GetReads
  <1>4. CASE GetBegin /\ Prompt
    BY <1>1, <1>4, GetBegins DEF Prompt
  <1>5. CASE cmdloop /\ ~GetBegin
    <2>1. at' \notin {"get", "got"}
      <3>1. at = "prompt"
        BY <1>5 DEF cmdloop, Prompt
      <3>2. CASE PutBegin
        BY <3>2 DEF PutBegin, Goto
      <3>3. CASE do_truncate \/ do_rm
        BY <3>1, <3>3 DEF do_truncate, do_rm, Emptying, loop
      <3>4. CASE do_rename \/ do_mkdir \/ do_rmdir \/ do_utime \/ do_chmod \/ do_cd \/ do_touch
        BY <3>1, <3>4 DEF do_rename, do_mkdir, do_rmdir, do_utime, do_chmod, do_cd, do_touch, loop
      <3> QED BY <1>5, <3>2, <3>3, <3>4 DEF cmdloop
    <2> QED BY <2>1 DEF GetInv
  <1>6. CASE PutWrite \/ PutNoSpace \/ PutEnd \/ GetEnd
    <2>1. at' \notin {"get", "got"}
      BY <1>6 DEF PutWrite, PutNoSpace, PutEnd, GetEnd, Goto
    <2> QED BY <2>1 DEF GetInv
  <1>7. CASE Flush /\ UNCHANGED <<loop, history>>
    <2>1. ~Ready /\ at' = at
      BY <1>7 DEF Flush, Ready, loop
    <2> QED BY <2>1 DEF GetInv
  <1> QED BY <1>2, <1>3, <1>4, <1>5, <1>6, <1>7 DEF ShellNext, Proceed, cmdloop

LEMMA GetWhole ==
    ASSUME GetInv
    PROVE  GetsWholeBlocks
  <1> SUFFICES ASSUME at \in {"get", "got"}
               PROVE  LET i == translate(path)
                          n == Min({Len(out), Whole(Size(i))})
                      IN  /\ at = "got" => Len(out) = Size(i)
                          /\ from[i] # NoLocal => SubSeq(out, 1, n) = SubSeq(Contents[from[i]], 1, n)
    BY DEF GetsWholeBlocks
  <1> DEFINE i == translate(path)
             c == Contents[from[i]]
             w == Whole(Size(i))
             l == Len(out)
             n == Min({l, w})
  <1>1. /\ out \in Seq(Cells) /\ l \in Nat /\ offset = l /\ l <= Size(i)
        /\ at = "got" => l = Size(i)
        /\ from[i] # NoLocal => \A u \in 1 .. l : u <= w => out[u] = c[u]
    BY DEF GetInv
  <1>2. w \in Nat /\ n \in Nat /\ n <= l /\ n <= w
    <2>1. w \in Nat
      <3>1. Size(i) \in Nat /\ 0 \in Nat /\ 0 * BLOCK_SIZE <= Size(i)
        BY Sizes DEF GetInv
      <3> HIDE DEF i
      <3> QED BY <3>1, LastWhole
    <2> QED BY <1>1, <2>1, MinOfTwo
  <1> HIDE DEF i, c, w, n
  <1>3. ASSUME from[i] # NoLocal PROVE SubSeq(out, 1, n) = SubSeq(c, 1, n)
    <2> DEFINE x == SubSeq(out, 1, n)
               y == SubSeq(c, 1, n)
    <2>1. \A u \in 1 .. n : out[u] = c[u] /\ out[u] \in Cells /\ c[u] \in Cells
      <3> SUFFICES ASSUME NEW u \in 1 .. n
                   PROVE  out[u] = c[u] /\ out[u] \in Cells
        OBVIOUS
      <3>1. u \in 1 .. l /\ u <= w
        <4> HIDE DEF l
        <4> QED BY <1>1, <1>2
      <3> QED BY <1>1, <1>3, <3>1
    <2>2. /\ x \in Seq(Cells) /\ Len(x) = (IF 1 <= n THEN n - 1 + 1 ELSE 0)
          /\ \A u \in 1 .. n - 1 + 1 : x[u] = out[1 + u - 1]
      BY <1>2, <2>1, SubSeqProperties
    <2>3. /\ y \in Seq(Cells) /\ Len(y) = (IF 1 <= n THEN n - 1 + 1 ELSE 0)
          /\ \A u \in 1 .. n - 1 + 1 : y[u] = c[1 + u - 1]
      BY <1>2, <2>1, SubSeqProperties
    <2> HIDE DEF x, y
    <2>4. Len(x) = n /\ Len(y) = n /\ \A u \in 1 .. n : x[u] = y[u]
      <3>1. Len(x) = n /\ Len(y) = n
        BY <1>2, <2>2, <2>3
      <3>2. ASSUME NEW u \in 1 .. n PROVE x[u] = y[u]
        <4>1. u \in 1 .. n - 1 + 1 /\ 1 + u - 1 = u
          BY <1>2
        <4>2. x[u] = out[1 + u - 1] /\ y[u] = c[1 + u - 1]
          BY <2>2, <2>3, <4>1
        <4>3. x[u] = out[u] /\ y[u] = c[u]
          BY <4>1, <4>2
        <4> QED BY <2>1, <4>3
      <3> QED BY <3>1, <3>2
    <2>5. x \in [1 .. n -> Cells] /\ y \in [1 .. n -> Cells]
      BY <2>2, <2>3, <2>4, LenProperties
    <2>6. x = y
      BY <2>4, <2>5
    <2> QED BY <2>6 DEF x, y
  <1> QED BY <1>1, <1>3 DEF i, c, w, n

-----------------------------------------------------------------------------

\* Unless the device ran full, without the directories of fs_mkdir and chmods
\* of a type, a file that put has made and that is no longer than its direct
\* and first-level blocks holds, between two commands, what was outside:
\* whatever fs_write, fs_truncate, fs_unlink and fs_rename do for other files.
THEOREM PutFilesStay ==
    ASSUME MakeDirs = FALSE, TypeBits = FALSE
    PROVE  ShellSpec => []FilesHoldWhatWasPut
  <1>1. ShellInit => NamesInv /\ MapInv /\ OwnInv /\ DataInv
    BY NamesStart, MapStart, OwnStart, DataStart DEF ShellInit
  <1>2. ShellInv /\ NamesInv /\ MapInv /\ OwnInv /\ DataInv /\ [ShellNext]_svars
           => NamesInv' /\ MapInv' /\ OwnInv' /\ DataInv'
    BY ShellNames, MapStep, OwnStep, DataStep
  <1>3. ShellInv /\ NamesInv /\ OwnInv /\ DataInv => FilesHoldWhatWasPut
    BY DataHolds
  <1> QED BY <1>1, <1>2, <1>3, ShellInvariant, PTL DEF ShellSpec

\* Under the same conditions get writes as many units as the file has, and the
\* units of whole blocks as they were put.
THEOREM GetsGiveWhatWasPut ==
    ASSUME MakeDirs = FALSE, TypeBits = FALSE
    PROVE  ShellSpec => []GetsWholeBlocks
  <1>1. ShellInit => NamesInv /\ MapInv /\ OwnInv /\ DataInv /\ GetInv
    BY NamesStart, MapStart, OwnStart, DataStart, GetStart DEF ShellInit
  <1>2. ShellInv /\ NamesInv /\ MapInv /\ OwnInv /\ DataInv /\ GetInv /\ [ShellNext]_svars
           => NamesInv' /\ MapInv' /\ OwnInv' /\ DataInv' /\ GetInv'
    BY ShellNames, MapStep, OwnStep, DataStep, GetStep
  <1>3. GetInv => GetsWholeBlocks
    BY GetWhole
  <1> QED BY <1>1, <1>2, <1>3, ShellInvariant, PTL DEF ShellSpec

================================================================================
