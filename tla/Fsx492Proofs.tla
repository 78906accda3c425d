----------------------------- MODULE Fsx492Proofs -----------------------------
(***************************************************************************)
(* Proofs about Fsx492: the directories on the device are sound (Sound) at *)
(* every moment, whenever the program is killed and started again.         *)
(*                                                                         *)
(* Sound speaks of blocks of entries, not of a tree: all directories that  *)
(* fs_mkdir makes have block 0, which Own leaves out.  It holds as far as  *)
(* the model goes, which ends with a handler that would follow a file's    *)
(* bytes as pointers (Readable) and with the loss of the superblock.       *)
(*                                                                         *)
(* The invariant is about the writes that are still to come as well: each  *)
(* of the disks they lead through is sound, and the last one agrees with   *)
(* what the program keeps in memory.                                       *)
(***************************************************************************)
EXTENDS Fsx492, FiniteSetTheorems, SequenceTheorems, WellFoundedInduction, TLAPS

Disks == [super : BOOLEAN, imap : SUBSET Inodes, bmap : SUBSET Blocks,
          itab : [Inodes -> InodeType], blk : [Blocks -> BlockType]]
Cores == [imap : SUBSET Inodes, bmap : SUBSET Blocks, itab : [Inodes -> InodeType]]

\* The blocks of the directories that have one of their own, and the blocks
\* that may hold entries.
Own(d)    == {d.itab[i].direct[0] : i \in {j \in Inodes : d.itab[j].kind = "dir"}} \ {0}
Lists(d)  == Own(d) \cup {0}
Ent(d, b, s) == d.blk[b].ents[s]

\* Entries name inodes that are there.
SoundLive(d) ==
    \A b \in Lists(d), s \in 1 .. Entries :
        Ent(d, b, s) # NoEntry => /\ Ent(d, b, s).inode \in d.imap
                                  /\ d.itab[Ent(d, b, s).inode].kind # "none"
\* Two entries never share an inode, nor a name when they are in one block.
SoundOne(d) ==
    \A b, c \in Lists(d), s, t \in 1 .. Entries :
        (b # c \/ s # t) /\ Ent(d, b, s) # NoEntry /\ Ent(d, c, t) # NoEntry
        => /\ Ent(d, b, s).inode # Ent(d, c, t).inode
           /\ b = c => Ent(d, b, s).name # Ent(d, c, t).name
SoundMark(d) == Own(d) \subseteq d.bmap
\* What an inode names apart from a directory's block is no directory's block.
Apart(x, S) == /\ x.kind # "dir" => x.direct[0] \notin S
               /\ \A k \in 1 .. N_DIRECT - 1 : x.direct[k] \notin S
               /\ x.indir_1 \notin S /\ x.indir_2 \notin S
\* What chmod can make of a directory: a file with the directory's blocks.
Turned(x, y) == x.kind = "dir" /\ y = [x EXCEPT !.kind = "file"]
PtrsApart(v, S) == \A p \in 0 .. Pointers - 1 : v.ptrs[p] \notin S
SoundApart(d) == /\ \A i \in Inodes : Apart(d.itab[i], Own(d))
                 /\ \A b \in Blocks : PtrsApart(d.blk[b], Own(d))
\* No two directories have the same block, unless it is block 0.
SoundUniq(d) ==
    \A i, j \in Inodes : i # j /\ d.itab[i].kind = "dir" /\ d.itab[j].kind = "dir"
                         /\ d.itab[i].direct[0] = d.itab[j].direct[0]
                         => d.itab[i].direct[0] = 0
Sound(d) == SoundLive(d) /\ SoundOne(d) /\ SoundMark(d) /\ SoundApart(d) /\ SoundUniq(d)
GoodDisks == {d \in Disks : Sound(d)}

-----------------------------------------------------------------------------
(* Constants and types. *)

LEMMA Sizes ==
    /\ Region \in Nat /\ Region > 1 /\ PerBlock \in Nat /\ PerBlock > 0
    /\ N_DIRECT \in Nat /\ N_DIRECT > 0 /\ Pointers \in Nat /\ Pointers > 0
    /\ Entries \in Nat /\ Entries > 0 /\ BLOCK_SIZE \in Nat /\ BLOCK_SIZE > 0
    /\ NBlocks \in Nat /\ 4 + Region < NBlocks /\ MaxFile \in Nat
    /\ MaxFile = N_DIRECT + Pointers
    /\ 0 \in Inodes /\ Root \in Inodes /\ HomeNode \in Inodes /\ HomeNode # Root
    /\ 0 \in Blocks /\ RootBlk \in Blocks /\ HomeBlk \in Blocks
    /\ RootBlk # 0 /\ HomeBlk # 0 /\ RootBlk # HomeBlk
    /\ RootBlk = 3 + Region /\ HomeBlk = 4 + Region
    /\ 0 \in 0 .. N_DIRECT - 1 /\ HomeNode = Region
    /\ Reach \in 0 .. MaxFile /\ MaxFile * BLOCK_SIZE \in Nat
    /\ Inodes \subseteq Nat /\ Blocks \subseteq Nat
  <1>1. /\ Region \in Nat \ {0} /\ PerBlock \in Nat \ {0} /\ N_DIRECT \in Nat \ {0}
        /\ Pointers \in Nat \ {0} /\ Entries \in Nat \ {0} /\ BLOCK_SIZE \in Nat \ {0}
    BY FsAssumption, Zenon
  <1>2. NBlocks \in Nat /\ 4 + Region < NBlocks
    BY <1>1, FsAssumption DEF HomeBlk, RootBlk
  <1>3. MaxFile \in Nat /\ MaxFile = N_DIRECT + Pointers
    BY <1>1 DEF MaxFile
  <1>4. MaxFile * BLOCK_SIZE \in Nat
    <2> HIDE DEF MaxFile
    <2> QED BY <1>1, <1>3
  <1>5. Region \in Inodes /\ Region > 1 /\ Region * PerBlock \in Nat
    BY <1>1, FsAssumption DEF HomeNode
  <1>6. 0 \in Inodes /\ Root \in Inodes /\ HomeNode \in Inodes /\ HomeNode # Root
    BY <1>1, <1>5 DEF Inodes, Root, HomeNode
  <1>7. Inodes \subseteq Nat /\ Blocks \subseteq Nat
    BY <1>1, <1>2, <1>5 DEF Inodes, Blocks
  <1>8. /\ 0 \in Blocks /\ RootBlk \in Blocks /\ HomeBlk \in Blocks
        /\ RootBlk # 0 /\ HomeBlk # 0 /\ RootBlk # HomeBlk
        /\ RootBlk = 3 + Region /\ HomeBlk = 4 + Region
    BY <1>1, <1>2 DEF Blocks, RootBlk, HomeBlk
  <1>9. 0 \in 0 .. N_DIRECT - 1 /\ HomeNode = Region /\ Reach \in 0 .. MaxFile
    BY <1>1, FsAssumption DEF HomeNode
  <1> QED BY <1>1, <1>2, <1>3, <1>4, <1>5, <1>6, <1>7, <1>8, <1>9

LEMMA EmptyTypes ==
    /\ NoEntry \in EntryType
    /\ Zeroes \in BlockType
    /\ NoInode \in InodeType
    /\ \A s \in 1 .. Entries : Zeroes.ents[s] = NoEntry
    /\ \A p \in 0 .. Pointers - 1 : Zeroes.ptrs[p] = 0
    /\ NoInode.kind = "none" /\ NoInode.indir_1 = 0 /\ NoInode.indir_2 = 0
    /\ \A k \in 0 .. N_DIRECT - 1 : NoInode.direct[k] = 0
  <1>1. NoEntry \in EntryType
    BY DEF EntryType
  <1>2. Zeroes \in BlockType
    BY <1>1, Sizes DEF Zeroes, BlockType
  <1>3. NoInode \in InodeType
    BY Sizes DEF NoInode, InodeType
  <1> QED BY <1>1, <1>2, <1>3 DEF Zeroes, NoInode

LEMMA EntryFacts ==
    ASSUME NEW e \in EntryType
    PROVE  /\ e # NoEntry => e.inode \in Inodes /\ e.inode # 0 /\ e.name \in Names
           /\ NoEntry.inode = 0
  BY DEF EntryType, NoEntry

LEMMA DiskFields ==
    ASSUME NEW d \in Disks
    PROVE  /\ d.imap \subseteq Inodes /\ d.bmap \subseteq Blocks
           /\ d.itab \in [Inodes -> InodeType] /\ d.blk \in [Blocks -> BlockType]
           /\ d.super \in BOOLEAN
           /\ \A b \in Blocks, s \in 1 .. Entries : Ent(d, b, s) \in EntryType
           /\ \A i \in Inodes : /\ d.itab[i].direct[0] \in Blocks
                                /\ d.itab[i].indir_1 \in Blocks
                                /\ d.itab[i].indir_2 \in Blocks
           /\ Own(d) \subseteq Blocks /\ 0 \notin Own(d)
           /\ Lists(d) \subseteq Blocks
  <1>1. /\ d.imap \subseteq Inodes /\ d.bmap \subseteq Blocks
        /\ d.itab \in [Inodes -> InodeType] /\ d.blk \in [Blocks -> BlockType]
        /\ d.super \in BOOLEAN
    BY DEF Disks
  <1>2. \A b \in Blocks, s \in 1 .. Entries : Ent(d, b, s) \in EntryType
    BY <1>1 DEF BlockType, Ent
  <1>3. \A i \in Inodes : /\ d.itab[i].direct[0] \in Blocks
                          /\ d.itab[i].indir_1 \in Blocks
                          /\ d.itab[i].indir_2 \in Blocks
    BY <1>1, Sizes DEF InodeType
  <1>4. Own(d) \subseteq Blocks /\ 0 \notin Own(d)
    BY <1>3 DEF Own
  <1>5. Lists(d) \subseteq Blocks
    BY <1>4, Sizes DEF Lists
  <1> QED BY <1>1, <1>2, <1>3, <1>4, <1>5

-----------------------------------------------------------------------------
(* What a write does. *)

LEMMA WriteOfBlock ==
    ASSUME NEW d \in Disks, NEW b \in Blocks, NEW v \in BlockType
    PROVE  LET e == Written(d, BlkWrite(b, v))
           IN  /\ e \in Disks /\ e.imap = d.imap /\ e.bmap = d.bmap /\ e.itab = d.itab
               /\ e.blk = [d.blk EXCEPT ![b] = v]
  BY DEF Written, BlkWrite, Disks, SuperSurvives

LEMMA WriteOfBmap ==
    ASSUME NEW d \in Disks, NEW M \in SUBSET Blocks
    PROVE  LET e == Written(d, [at |-> "bmap", no |-> 2, val |-> M])
           IN  /\ e \in Disks /\ e.imap = d.imap /\ e.bmap = M /\ e.itab = d.itab
               /\ e.blk = d.blk
  BY DEF Written, Disks

LEMMA WriteOfImap ==
    ASSUME NEW d \in Disks, NEW I \in SUBSET Inodes
    PROVE  LET e == Written(d, [at |-> "imap", no |-> 1, val |-> I])
           IN  /\ e \in Disks /\ e.imap = I /\ e.bmap = d.bmap /\ e.itab = d.itab
               /\ e.blk = d.blk
  BY DEF Written, Disks

\* The block of inode i is written from a table that differs from the
\* device's at most in that inode.
LEMMA WriteOfInode ==
    ASSUME NEW d \in Disks, NEW m \in Cores, NEW i \in Inodes,
           \A j \in Inodes : j # i => d.itab[j] = m.itab[j]
    PROVE  LET e == Written(d, [at |-> "itab", no |-> i \div PerBlock,
                                val |-> InodeBlock(m, i \div PerBlock)])
           IN  /\ e \in Disks /\ e.imap = d.imap /\ e.bmap = d.bmap /\ e.itab = m.itab
               /\ e.blk = d.blk
  <1> DEFINE part == InodeBlock(m, i \div PerBlock)
             e == Written(d, [at |-> "itab", no |-> i \div PerBlock, val |-> part])
  <1>1. d.itab \in [Inodes -> InodeType] /\ m.itab \in [Inodes -> InodeType]
    BY DEF Disks, Cores
  <1>2. e = [d EXCEPT !.itab = Overlay(d.itab, part)]
    BY DEF Written
  <1>3. Overlay(d.itab, part) = m.itab
    <2>1. i \in DOMAIN part /\ \A j \in DOMAIN part : part[j] = m.itab[j]
      BY DEF InodeBlock
    <2>2. Overlay(d.itab, part)
            = [j \in Inodes |-> IF j \in DOMAIN part THEN part[j] ELSE d.itab[j]]
      BY <1>1 DEF Overlay
    <2>3. \A j \in Inodes : (IF j \in DOMAIN part THEN part[j] ELSE d.itab[j]) = m.itab[j]
      BY <2>1
    <2> HIDE DEF part
    <2>4. Overlay(d.itab, part) = [j \in Inodes |-> m.itab[j]]
      BY <2>2, <2>3
    <2> QED BY <2>4, <1>1
  <1> HIDE DEF part, e
  <1> QED BY <1>1, <1>2, <1>3 DEF Disks, e, part

-----------------------------------------------------------------------------
(* Which writes keep a device sound. *)

LEMMA SoundBmap ==
    ASSUME NEW d \in GoodDisks, NEW M \in SUBSET Blocks, Own(d) \subseteq M
    PROVE  LET e == Written(d, [at |-> "bmap", no |-> 2, val |-> M])
           IN  /\ e \in GoodDisks /\ e.imap = d.imap /\ e.bmap = M /\ e.itab = d.itab
               /\ e.blk = d.blk
  <1> DEFINE e == Written(d, [at |-> "bmap", no |-> 2, val |-> M])
  <1>0. d \in Disks /\ Sound(d)
    BY DEF GoodDisks
  <1>1. /\ e \in Disks /\ e.imap = d.imap /\ e.bmap = M /\ e.itab = d.itab
        /\ e.blk = d.blk
    BY <1>0, WriteOfBmap
  <1> HIDE DEF e
  <1>2. Sound(e)
    <2>1. Own(e) = Own(d) /\ Lists(e) = Lists(d)
      BY <1>1 DEF Own, Lists
    <2>2. \A b, s : Ent(e, b, s) = Ent(d, b, s)
      BY <1>1 DEF Ent
    <2>3. SoundLive(e) /\ SoundOne(e)
      BY <1>0, <1>1, <2>1, <2>2 DEF Sound, SoundLive, SoundOne
    <2>4. SoundMark(e) /\ SoundApart(e) /\ SoundUniq(e)
      BY <1>0, <1>1, <2>1 DEF Sound, SoundMark, SoundApart, SoundUniq
    <2> QED BY <2>3, <2>4 DEF Sound
  <1> QED BY <1>1, <1>2 DEF GoodDisks, e

LEMMA SoundImap ==
    ASSUME NEW d \in GoodDisks, NEW I \in SUBSET Inodes,
           \A b \in Lists(d), s \in 1 .. Entries :
               Ent(d, b, s) # NoEntry => Ent(d, b, s).inode \in I
    PROVE  LET e == Written(d, [at |-> "imap", no |-> 1, val |-> I])
           IN  /\ e \in GoodDisks /\ e.imap = I /\ e.bmap = d.bmap /\ e.itab = d.itab
               /\ e.blk = d.blk
  <1> DEFINE e == Written(d, [at |-> "imap", no |-> 1, val |-> I])
  <1>0. d \in Disks /\ Sound(d)
    BY DEF GoodDisks
  <1>1. /\ e \in Disks /\ e.imap = I /\ e.bmap = d.bmap /\ e.itab = d.itab
        /\ e.blk = d.blk
    BY <1>0, WriteOfImap
  <1> HIDE DEF e
  <1>2. Sound(e)
    <2>1. Own(e) = Own(d) /\ Lists(e) = Lists(d)
      BY <1>1 DEF Own, Lists
    <2>2. \A b, s : Ent(e, b, s) = Ent(d, b, s)
      BY <1>1 DEF Ent
    <2>3. SoundLive(e) /\ SoundOne(e)
      BY <1>0, <1>1, <2>1, <2>2 DEF Sound, SoundLive, SoundOne
    <2>4. SoundMark(e) /\ SoundApart(e) /\ SoundUniq(e)
      BY <1>0, <1>1, <2>1 DEF Sound, SoundMark, SoundApart, SoundUniq
    <2> QED BY <2>3, <2>4 DEF Sound
  <1> QED BY <1>1, <1>2 DEF GoodDisks, e

\* The inode that is written is a directory with block 0 or with the block it
\* had; it is cleared only when no entry names it.
LEMMA SoundInode ==
    ASSUME NEW d \in GoodDisks, NEW m \in Cores, NEW i \in Inodes,
           \A j \in Inodes : j # i => d.itab[j] = m.itab[j],
           m.itab[i].kind = "dir" => \/ m.itab[i].direct[0] = 0
                                     \/ /\ d.itab[i].kind = "dir"
                                        /\ m.itab[i].direct[0] = d.itab[i].direct[0],
           m.itab[i].kind = "none" =>
               \A b \in Lists(d), s \in 1 .. Entries : Ent(d, b, s).inode # i,
           Apart(m.itab[i], Own(d)) \/ Turned(d.itab[i], m.itab[i])
    PROVE  LET e == Written(d, [at |-> "itab", no |-> i \div PerBlock,
                                val |-> InodeBlock(m, i \div PerBlock)])
           IN  /\ e \in GoodDisks /\ e.imap = d.imap /\ e.bmap = d.bmap /\ e.itab = m.itab
               /\ e.blk = d.blk /\ Own(e) \subseteq Own(d)
  <1> DEFINE e == Written(d, [at |-> "itab", no |-> i \div PerBlock,
                              val |-> InodeBlock(m, i \div PerBlock)])
  <1>0. d \in Disks /\ Sound(d)
    BY DEF GoodDisks
  <1>1. /\ e \in Disks /\ e.imap = d.imap /\ e.bmap = d.bmap /\ e.itab = m.itab
        /\ e.blk = d.blk
    BY <1>0, WriteOfInode
  <1> HIDE DEF e
  <1>2. Own(e) \subseteq Own(d) /\ Lists(e) \subseteq Lists(d)
    BY <1>1 DEF Own, Lists
  <1>3. Sound(e)
    <2>2. \A b, s : Ent(e, b, s) = Ent(d, b, s)
      BY <1>1 DEF Ent
    <2>3. SoundLive(e)
      <3> SUFFICES ASSUME NEW b \in Lists(e), NEW s \in 1 .. Entries,
                          Ent(e, b, s) # NoEntry
                   PROVE  /\ Ent(e, b, s).inode \in e.imap
                          /\ e.itab[Ent(e, b, s).inode].kind # "none"
        BY DEF SoundLive
      <3>1. b \in Lists(d) /\ Ent(e, b, s) = Ent(d, b, s)
        BY <1>2, <2>2
      <3>2. /\ Ent(d, b, s).inode \in d.imap
            /\ d.itab[Ent(d, b, s).inode].kind # "none"
        BY <1>0, <3>1 DEF Sound, SoundLive
      <3>3. Ent(d, b, s).inode \in Inodes
        BY <1>0, <3>2, DiskFields
      <3>4. CASE Ent(d, b, s).inode = i
        BY <1>1, <3>1, <3>2, <3>4
      <3>5. CASE Ent(d, b, s).inode # i
        BY <1>1, <3>1, <3>2, <3>3, <3>5
      <3> QED BY <3>4, <3>5
    <2>4. SoundOne(e)
      BY <1>0, <1>2, <2>2 DEF Sound, SoundOne
    <2>5. SoundMark(e)
      BY <1>0, <1>1, <1>2 DEF Sound, SoundMark
    <2>6. SoundApart(e)
      <3>1. \A j \in Inodes : j # i => Apart(e.itab[j], Own(e))
        BY <1>0, <1>1, <1>2 DEF Sound, SoundApart, Apart
      <3>2. CASE Apart(m.itab[i], Own(d))
        <4>1. Apart(e.itab[i], Own(e))
          BY <1>1, <1>2, <3>2 DEF Apart
        <4> QED BY <1>0, <1>1, <1>2, <3>1, <4>1 DEF Sound, SoundApart, PtrsApart
      <3>3. CASE Turned(d.itab[i], m.itab[i])
        <4>1. Apart(d.itab[i], Own(d)) /\ d.itab[i].kind = "dir"
          BY <1>0, <3>3 DEF Sound, SoundApart, Turned
        <4>2. d.itab[i] \in InodeType
          BY <1>0 DEF Disks
        <4>3. /\ e.itab[i].kind = "file" /\ e.itab[i].direct = d.itab[i].direct
              /\ e.itab[i].indir_1 = d.itab[i].indir_1
              /\ e.itab[i].indir_2 = d.itab[i].indir_2
          BY <1>1, <3>3, <4>2 DEF Turned, InodeType
        <4>4. d.itab[i].direct[0] \notin Own(e)
          <5> SUFFICES ASSUME d.itab[i].direct[0] \in Own(e) PROVE FALSE
            OBVIOUS
          <5>1. PICK j \in Inodes : /\ e.itab[j].kind = "dir" /\ d.itab[i].direct[0] # 0
                                    /\ e.itab[j].direct[0] = d.itab[i].direct[0]
            BY DEF Own
          <5>2. j # i /\ d.itab[j] = e.itab[j]
            BY <1>1, <4>3, <5>1
          <5> QED BY <1>0, <4>1, <5>1, <5>2 DEF Sound, SoundUniq
        <4>5. Apart(e.itab[i], Own(e))
          BY <1>2, <4>1, <4>3, <4>4 DEF Apart
        <4> QED BY <1>0, <1>1, <1>2, <3>1, <4>5 DEF Sound, SoundApart, PtrsApart
      <3> QED BY <3>2, <3>3
    <2>7. SoundUniq(e)
      BY <1>0, <1>1 DEF Sound, SoundUniq
    <2> QED BY <2>3, <2>4, <2>5, <2>6, <2>7 DEF Sound
  <1> QED BY <1>1, <1>2, <1>3 DEF GoodDisks, e

\* The entries of the block that is written name inodes of their own, under
\* names of their own.
LEMMA SoundBlock ==
    ASSUME NEW d \in GoodDisks, NEW b \in Blocks, NEW v \in BlockType,
           PtrsApart(v, Own(d)),
           b \in Lists(d) =>
               /\ \A s \in 1 .. Entries :
                     v.ents[s] # NoEntry =>
                        /\ v.ents[s].inode \in d.imap
                        /\ d.itab[v.ents[s].inode].kind # "none"
                        /\ \A c \in Lists(d), t \in 1 .. Entries :
                              c # b /\ Ent(d, c, t) # NoEntry
                              => Ent(d, c, t).inode # v.ents[s].inode
               /\ \A s, t \in 1 .. Entries :
                     s # t /\ v.ents[s] # NoEntry /\ v.ents[t] # NoEntry
                     => /\ v.ents[s].inode # v.ents[t].inode
                        /\ v.ents[s].name # v.ents[t].name
    PROVE  LET e == Written(d, BlkWrite(b, v))
           IN  /\ e \in GoodDisks /\ e.imap = d.imap /\ e.bmap = d.bmap /\ e.itab = d.itab
               /\ e.blk = [d.blk EXCEPT ![b] = v]
  <1> DEFINE e == Written(d, BlkWrite(b, v))
  <1>0. d \in Disks /\ Sound(d)
    BY DEF GoodDisks
  <1>1. /\ e \in Disks /\ e.imap = d.imap /\ e.bmap = d.bmap /\ e.itab = d.itab
        /\ e.blk = [d.blk EXCEPT ![b] = v]
    BY <1>0, WriteOfBlock
  <1> HIDE DEF e
  <1>2. Sound(e)
    <2>1. Own(e) = Own(d) /\ Lists(e) = Lists(d) /\ Lists(d) \subseteq Blocks
      BY <1>0, <1>1, DiskFields DEF Own, Lists
    <2>2. d.blk \in [Blocks -> BlockType]
      BY <1>0, DiskFields
    <2>3. \A c \in Blocks, s \in 1 .. Entries :
             Ent(e, c, s) = IF c = b THEN v.ents[s] ELSE Ent(d, c, s)
      BY <1>1, <2>2 DEF Ent
    <2>4. SoundLive(e)
      BY <1>0, <1>1, <2>1, <2>3 DEF Sound, SoundLive
    <2>5. SoundOne(e)
      <3> SUFFICES ASSUME NEW x \in Lists(d), NEW y \in Lists(d),
                          NEW s \in 1 .. Entries, NEW t \in 1 .. Entries,
                          x # y \/ s # t, Ent(e, x, s) # NoEntry, Ent(e, y, t) # NoEntry
                   PROVE  /\ Ent(e, x, s).inode # Ent(e, y, t).inode
                          /\ x = y => Ent(e, x, s).name # Ent(e, y, t).name
        BY <2>1 DEF SoundOne
      <3>0. x \in Blocks /\ y \in Blocks
        BY <2>1
      <3>1. CASE x # b /\ y # b
        BY <1>0, <2>3, <3>0, <3>1 DEF Sound, SoundOne
      <3>2. CASE x = b /\ y # b
        BY <2>3, <3>0, <3>2
      <3>3. CASE x # b /\ y = b
        BY <2>3, <3>0, <3>3
      <3>4. CASE x = b /\ y = b
        BY <2>3, <3>0, <3>4
      <3> QED BY <3>1, <3>2, <3>3, <3>4
    <2>6. SoundMark(e) /\ SoundUniq(e)
      BY <1>0, <1>1, <2>1 DEF Sound, SoundMark, SoundUniq
    <2>7. SoundApart(e)
      <3>1. \A c \in Blocks : PtrsApart(e.blk[c], Own(e))
        BY <1>0, <1>1, <2>1, <2>2 DEF Sound, SoundApart, PtrsApart
      <3>2. \A j \in Inodes : Apart(e.itab[j], Own(e))
        BY <1>0, <1>1, <2>1 DEF Sound, SoundApart
      <3> QED BY <3>1, <3>2 DEF SoundApart
    <2> QED BY <2>4, <2>5, <2>6, <2>7 DEF Sound
  <1> QED BY <1>1, <1>2 DEF GoodDisks, e

-----------------------------------------------------------------------------
(* The disks that a list of writes leads through. *)

Tables == UNION {[S -> InodeType] : S \in SUBSET Inodes}
Writes == [at : {"block"}, no : Blocks, val : BlockType]
              \cup [at : {"itab"}, no : Int, val : Tables]
              \cup [at : {"imap"}, no : Int, val : SUBSET Inodes]
              \cup [at : {"bmap"}, no : Int, val : SUBSET Blocks]

\* The writes ws take the device from d to e, and it is sound all the way.
Leads(d, ws, e) ==
    /\ ws \in Seq(Writes)
    /\ \E ds \in [0 .. Len(ws) -> GoodDisks] :
          /\ ds[0] = d /\ ds[Len(ws)] = e
          /\ \A k \in 1 .. Len(ws) : ds[k] = Written(ds[k - 1], ws[k])

LEMMA LeadsNone == ASSUME NEW d \in GoodDisks PROVE Leads(d, <<>>, d)
  <1> DEFINE ds == [k \in 0 .. 0 |-> d]
  <1>1. ds \in [0 .. Len(<<>>) -> GoodDisks] /\ ds[0] = d /\ ds[Len(<<>>)] = d
    OBVIOUS
  <1>2. \A k \in 1 .. Len(<<>>) : ds[k] = Written(ds[k - 1], <<>>[k])
    OBVIOUS
  <1>3. <<>> \in Seq(Writes)
    OBVIOUS
  <1> HIDE DEF ds
  <1> QED BY <1>1, <1>2, <1>3 DEF Leads

LEMMA LeadsOne ==
    ASSUME NEW d \in GoodDisks, NEW w \in Writes, Written(d, w) \in GoodDisks
    PROVE  Leads(d, <<w>>, Written(d, w))
  <1> DEFINE ds == [k \in 0 .. 1 |-> IF k = 0 THEN d ELSE Written(d, w)]
             ws == <<w>>
  <1>0. ws \in Seq(Writes) /\ Len(ws) = 1 /\ ws[1] = w
    OBVIOUS
  <1>1. ds \in [0 .. 1 -> GoodDisks] /\ ds[0] = d /\ ds[1] = Written(d, w)
    OBVIOUS
  <1> HIDE DEF ds, ws
  <1>2. \A k \in 1 .. Len(ws) : ds[k] = Written(ds[k - 1], ws[k])
    BY <1>0, <1>1
  <1>3. Leads(d, ws, Written(d, w))
    BY <1>0, <1>1, <1>2 DEF Leads
  <1> QED BY <1>3 DEF ws

LEMMA LeadsThen ==
    ASSUME NEW d, NEW e, NEW f, NEW v, NEW w, Leads(d, v, e), Leads(e, w, f)
    PROVE  Leads(d, v \o w, f)
  <1> DEFINE m == Len(v)
             n == Len(w)
             ws == v \o w
  <1>1. v \in Seq(Writes) /\ w \in Seq(Writes) /\ m \in Nat /\ n \in Nat
    BY DEF Leads
  <1>2. /\ ws \in Seq(Writes) /\ Len(ws) = m + n
        /\ \A k \in 1 .. m + n : ws[k] = IF k <= m THEN v[k] ELSE w[k - m]
    BY <1>1
  <1>3. PICK vs \in [0 .. m -> GoodDisks] :
            /\ vs[0] = d /\ vs[m] = e
            /\ \A k \in 1 .. m : vs[k] = Written(vs[k - 1], v[k])
    BY DEF Leads
  <1>4. PICK us \in [0 .. n -> GoodDisks] :
            /\ us[0] = e /\ us[n] = f
            /\ \A k \in 1 .. n : us[k] = Written(us[k - 1], w[k])
    BY DEF Leads
  <1> DEFINE ds == [k \in 0 .. m + n |-> IF k <= m THEN vs[k] ELSE us[k - m]]
  <1> HIDE DEF m, n, ws
  <1>5. ds \in [0 .. m + n -> GoodDisks] /\ ds[0] = d /\ ds[m + n] = f
    BY <1>1, <1>3, <1>4
  <1>6. ASSUME NEW k \in 1 .. m + n PROVE ds[k] = Written(ds[k - 1], ws[k])
    <2>1. CASE k <= m
      <3>1. ds[k] = vs[k] /\ ds[k - 1] = vs[k - 1] /\ ws[k] = v[k] /\ k \in 1 .. m
        BY <1>1, <1>2, <2>1
      <3> QED BY <3>1, <1>3
    <2>2. CASE k = m + 1
      <3>0. /\ 1 \in 1 .. n /\ 1 - 1 = 0 /\ k - m = 1 /\ ~(k <= m)
            /\ k - 1 = m /\ m \in 0 .. m + n
        BY <1>1, <2>2
      <3>2. ds[k] = us[1] /\ ds[m] = vs[m] /\ ws[k] = w[1]
        BY <1>1, <1>2, <3>0
      <3>1. ds[k] = us[1] /\ ds[k - 1] = us[0] /\ ws[k] = w[1] /\ 1 \in 1 .. n /\ 1 - 1 = 0
        BY <1>3, <1>4, <3>0, <3>2
      <3> HIDE DEF ds
      <3> QED BY <3>1, <1>4
    <2>3. CASE k > m + 1
      <3>1. /\ ds[k] = us[k - m] /\ ds[k - 1] = us[(k - m) - 1] /\ ws[k] = w[k - m]
            /\ k - m \in 1 .. n
        BY <1>1, <1>2, <2>3
      <3> HIDE DEF ds
      <3> QED BY <3>1, <1>4
    <2> QED BY <1>1, <2>1, <2>2, <2>3
  <1> HIDE DEF ds
  <1>7. Leads(d, ws, f)
    BY <1>2, <1>5, <1>6 DEF Leads
  <1> QED BY <1>7 DEF ws

\* The two ends are sound, and no writes lead nowhere.
LEMMA LeadsEnds ==
    ASSUME NEW d, NEW w, NEW e, Leads(d, w, e)
    PROVE  /\ d \in GoodDisks /\ e \in GoodDisks /\ w \in Seq(Writes)
           /\ w = <<>> => d = e
  <1>1. w \in Seq(Writes) /\ Len(w) \in Nat
    BY DEF Leads
  <1>2. PICK ds \in [0 .. Len(w) -> GoodDisks] : ds[0] = d /\ ds[Len(w)] = e
    BY DEF Leads
  <1>3. 0 \in 0 .. Len(w) /\ Len(w) \in 0 .. Len(w)
    BY <1>1
  <1>4. w = <<>> => Len(w) = 0
    OBVIOUS
  <1> QED BY <1>1, <1>2, <1>3, <1>4

\* The device performs the first of the writes.
LEMMA LeadsHead ==
    ASSUME NEW d, NEW w, NEW e, Leads(d, w, e), w # <<>>
    PROVE  Leads(Written(d, Head(w)), Tail(w), e)
  <1> DEFINE n == Len(w)
             u == Tail(w)
  <1>1. w \in Seq(Writes) /\ n \in Nat /\ n > 0
    BY EmptySeq DEF Leads
  <1>2. /\ u \in Seq(Writes) /\ Len(u) = n - 1 /\ Head(w) = w[1]
        /\ \A k \in 1 .. n - 1 : u[k] = w[k + 1]
    BY <1>1
  <1>3. PICK ds \in [0 .. n -> GoodDisks] :
            /\ ds[0] = d /\ ds[n] = e
            /\ \A k \in 1 .. n : ds[k] = Written(ds[k - 1], w[k])
    BY DEF Leads
  <1> DEFINE es == [k \in 0 .. n - 1 |-> ds[k + 1]]
  <1> HIDE DEF n, u
  <1>4. es \in [0 .. n - 1 -> GoodDisks] /\ es[n - 1] = e /\ es[0] = ds[1]
    BY <1>1, <1>3
  <1>5. ds[1] = Written(d, w[1])
    <2>1. 1 \in 1 .. n /\ 1 - 1 = 0
      BY <1>1
    <2> QED BY <2>1, <1>3
  <1>6. \A k \in 1 .. n - 1 : es[k] = Written(es[k - 1], u[k])
    <2> TAKE k \in 1 .. n - 1
    <2>1. k + 1 \in 1 .. n /\ (k + 1) - 1 = k /\ es[k] = ds[k + 1] /\ es[k - 1] = ds[k]
      BY <1>1
    <2> HIDE DEF es
    <2> QED BY <2>1, <1>2, <1>3
  <1> HIDE DEF es
  <1>7. Leads(Written(d, w[1]), u, e)
    BY <1>2, <1>4, <1>5, <1>6 DEF Leads
  <1> QED BY <1>7, <1>2 DEF u

LEMMA WriteTypes ==
    ASSUME NEW m \in Cores, NEW i \in Inodes, NEW b \in Blocks, NEW v \in BlockType
    PROVE  /\ BlkWrite(b, v) \in Writes
           /\ [at |-> "itab", no |-> i \div PerBlock, val |-> InodeBlock(m, i \div PerBlock)]
                \in Writes
           /\ [at |-> "imap", no |-> 1, val |-> m.imap] \in Writes
           /\ [at |-> "bmap", no |-> 2, val |-> m.bmap] \in Writes
  <1>1. BlkWrite(b, v) \in [at : {"block"}, no : Blocks, val : BlockType]
    BY DEF BlkWrite
  <1>2. i \div PerBlock \in Int
    BY Sizes
  <1>3. InodeBlock(m, i \div PerBlock) \in Tables
    <2> DEFINE S == {j \in Inodes : j \div PerBlock = i \div PerBlock}
    <2>1. m.itab \in [Inodes -> InodeType]
      BY DEF Cores
    <2>2. InodeBlock(m, i \div PerBlock) \in [S -> InodeType]
      BY <2>1 DEF InodeBlock
    <2>3. S \in SUBSET Inodes
      OBVIOUS
    <2> HIDE DEF S
    <2> QED BY <2>2, <2>3 DEF Tables
  <1>4. m.imap \in SUBSET Inodes /\ m.bmap \in SUBSET Blocks
    BY DEF Cores
  <1> QED BY <1>1, <1>2, <1>3, <1>4 DEF Writes

LEMMA UpdateTypes ==
    ASSUME NEW m \in Cores, NEW i \in Inodes
    PROVE  update_inode(m, i) \in Seq(Writes) /\ update_blk(m) \in Seq(Writes)
  <1> DEFINE u == [at |-> "itab", no |-> i \div PerBlock, val |-> InodeBlock(m, i \div PerBlock)]
             w == [at |-> "imap", no |-> 1, val |-> m.imap]
             x == [at |-> "bmap", no |-> 2, val |-> m.bmap]
  <1>1. u \in Writes /\ w \in Writes /\ x \in Writes
    BY WriteTypes, Sizes, EmptyTypes
  <1>2. update_inode(m, i) = <<u, w>> /\ update_blk(m) = <<x>>
    BY DEF update_inode, update_blk
  <1> HIDE DEF u, w, x
  <1> QED BY <1>1, <1>2

\* update_inode: the block of the inode, then the map of inodes.
LEMMA LeadsInode ==
    ASSUME NEW d \in GoodDisks, NEW m \in Cores, NEW i \in Inodes,
           \A j \in Inodes : j # i => d.itab[j] = m.itab[j],
           m.itab[i].kind = "dir" => \/ m.itab[i].direct[0] = 0
                                     \/ /\ d.itab[i].kind = "dir"
                                        /\ m.itab[i].direct[0] = d.itab[i].direct[0],
           m.itab[i].kind = "none" =>
               \A b \in Lists(d), s \in 1 .. Entries : Ent(d, b, s).inode # i,
           Apart(m.itab[i], Own(d)) \/ Turned(d.itab[i], m.itab[i]),
           \A b \in Lists(d), s \in 1 .. Entries :
               Ent(d, b, s) # NoEntry => Ent(d, b, s).inode \in m.imap
    PROVE  \E e \in GoodDisks :
              /\ Leads(d, update_inode(m, i), e)
              /\ e.imap = m.imap /\ e.bmap = d.bmap /\ e.itab = m.itab
              /\ e.blk = d.blk /\ Own(e) \subseteq Own(d)
  <1> DEFINE u == [at |-> "itab", no |-> i \div PerBlock, val |-> InodeBlock(m, i \div PerBlock)]
             w == [at |-> "imap", no |-> 1, val |-> m.imap]
             c == Written(d, u)
             e == Written(c, w)
  <1>1. /\ c \in GoodDisks /\ c.imap = d.imap /\ c.bmap = d.bmap /\ c.itab = m.itab
        /\ c.blk = d.blk /\ Own(c) \subseteq Own(d)
    BY SoundInode
  <1>2. u \in Writes /\ w \in Writes /\ m.imap \in SUBSET Inodes
    BY WriteTypes, Sizes, EmptyTypes DEF Cores
  <1>3. update_inode(m, i) = <<u>> \o <<w>>
    BY <1>2 DEF update_inode
  <1> HIDE DEF u, c
  <1>4. /\ e \in GoodDisks /\ e.imap = m.imap /\ e.bmap = c.bmap /\ e.itab = c.itab
        /\ e.blk = c.blk
    <2>1. \A b \in Lists(c), s \in 1 .. Entries :
             Ent(c, b, s) # NoEntry => Ent(c, b, s).inode \in m.imap
      BY <1>1 DEF Ent, Lists
    <2> QED BY <1>1, <1>2, <2>1, SoundImap
  <1> HIDE DEF w, e
  <1>5. Own(e) \subseteq Own(d)
    BY <1>1, <1>4 DEF Own
  <1>6. Leads(d, <<u>>, c) /\ Leads(c, <<w>>, e)
    BY <1>1, <1>2, <1>4, LeadsOne DEF c, e
  <1>7. Leads(d, update_inode(m, i), e)
    BY <1>3, <1>6, LeadsThen
  <1> QED BY <1>1, <1>4, <1>5, <1>7

LEMMA LeadsMap ==
    ASSUME NEW d \in GoodDisks, NEW m \in Cores, Own(d) \subseteq m.bmap
    PROVE  \E e \in GoodDisks :
              /\ Leads(d, update_blk(m), e)
              /\ e.imap = d.imap /\ e.bmap = m.bmap /\ e.itab = d.itab
              /\ e.blk = d.blk /\ Own(e) = Own(d)
  <1> DEFINE w == [at |-> "bmap", no |-> 2, val |-> m.bmap]
             e == Written(d, w)
  <1>1. w \in Writes /\ m.bmap \in SUBSET Blocks /\ update_blk(m) = <<w>>
    BY WriteTypes, Sizes, EmptyTypes DEF Cores, update_blk
  <1>2. /\ e \in GoodDisks /\ e.imap = d.imap /\ e.bmap = m.bmap /\ e.itab = d.itab
        /\ e.blk = d.blk
    BY <1>1, SoundBmap
  <1> HIDE DEF w, e
  <1>3. Own(e) = Own(d)
    BY <1>2 DEF Own
  <1>4. Leads(d, <<w>>, e)
    BY <1>1, <1>2, LeadsOne DEF e
  <1> QED BY <1>1, <1>2, <1>3, <1>4

LEMMA LeadsBlock ==
    ASSUME NEW d \in GoodDisks, NEW b \in Blocks, NEW v \in BlockType,
           PtrsApart(v, Own(d)),
           b \in Lists(d) =>
               /\ \A s \in 1 .. Entries :
                     v.ents[s] # NoEntry =>
                        /\ v.ents[s].inode \in d.imap
                        /\ d.itab[v.ents[s].inode].kind # "none"
                        /\ \A c \in Lists(d), t \in 1 .. Entries :
                              c # b /\ Ent(d, c, t) # NoEntry
                              => Ent(d, c, t).inode # v.ents[s].inode
               /\ \A s, t \in 1 .. Entries :
                     s # t /\ v.ents[s] # NoEntry /\ v.ents[t] # NoEntry
                     => /\ v.ents[s].inode # v.ents[t].inode
                        /\ v.ents[s].name # v.ents[t].name
    PROVE  \E e \in GoodDisks :
              /\ Leads(d, <<BlkWrite(b, v)>>, e)
              /\ e.imap = d.imap /\ e.bmap = d.bmap /\ e.itab = d.itab
              /\ e.blk = [d.blk EXCEPT ![b] = v] /\ Own(e) = Own(d)
  <1> DEFINE w == BlkWrite(b, v)
             e == Written(d, w)
  <1>1. /\ e \in GoodDisks /\ e.imap = d.imap /\ e.bmap = d.bmap /\ e.itab = d.itab
        /\ e.blk = [d.blk EXCEPT ![b] = v]
    BY SoundBlock
  <1>2. w \in Writes
    BY DEF Writes, BlkWrite
  <1> HIDE DEF w, e
  <1>3. Own(e) = Own(d)
    BY <1>1 DEF Own
  <1>4. Leads(d, <<w>>, e)
    BY <1>1, <1>2, LeadsOne DEF e
  <1> QED BY <1>1, <1>3, <1>4 DEF w

-----------------------------------------------------------------------------
(* The invariant. *)

\* What the program keeps in memory covers what the device ends up with.
Final(m, e) == e.itab = m.itab /\ e.imap \subseteq m.imap /\ Own(e) \subseteq m.bmap
Reaches(m, ws) == m \in Cores /\ \E e \in GoodDisks : Leads(disk, ws, e) /\ Final(m, e)
FsInv == Reaches(core, todo)

LEMMA ReadyFacts ==
    ASSUME FsInv, Ready
    PROVE  /\ disk \in GoodDisks /\ disk \in Disks /\ Sound(disk) /\ core \in Cores
           /\ disk.itab = core.itab /\ disk.imap \subseteq core.imap
           /\ Own(disk) \subseteq core.bmap
  <1>1. PICK e \in GoodDisks : Leads(disk, todo, e) /\ Final(core, e)
    BY DEF FsInv, Reaches
  <1>2. disk \in GoodDisks /\ e = disk
    BY <1>1, LeadsEnds DEF Ready
  <1> QED BY <1>1, <1>2 DEF Final, GoodDisks, FsInv, Reaches

LEMMA CoreFields ==
    ASSUME NEW m \in Cores
    PROVE  m.imap \subseteq Inodes /\ m.bmap \subseteq Blocks /\ m.itab \in [Inodes -> InodeType]
  BY DEF Cores

-----------------------------------------------------------------------------
(* Least elements. *)

LEMMA LeastNat ==
    ASSUME NEW T, T \subseteq Nat, T # {}
    PROVE  \E x \in T : \A y \in T : x <= y
  <1> DEFINE R == OpToRel(<, Nat)
  <1>1. PICK x \in T : \A y \in T : ~(<<y, x>> \in R)
    <2>1. IsWellFoundedOn(R, Nat)
      BY NatLessThanWellFounded
    <2> HIDE DEF R
    <2> QED BY <2>1, WFMin
  <1>2. ASSUME NEW y \in T PROVE x <= y
    <2>1. x \in Nat /\ y \in Nat
      OBVIOUS
    <2>2. CASE y < x
      BY <1>1, <2>1, <2>2 DEF OpToRel
    <2> QED BY <2>1, <2>2
  <1> QED BY <1>2

LEMMA MinIn ==
    ASSUME NEW T, T \subseteq Nat, T # {}
    PROVE  Min(T) \in T /\ \A y \in T : Min(T) <= y
  BY LeastNat DEF Min

-----------------------------------------------------------------------------
(* Looking paths up. *)

LEMMA FindFacts ==
    ASSUME NEW e \in [1 .. Entries -> EntryType], NEW n
    PROVE  LET i == find_in_dir(e, n)
           IN  /\ i \in Inodes
               /\ i = 0 => \A s \in 1 .. Entries : e[s] # NoEntry => e[s].name # n
               /\ i # 0 => \E s \in 1 .. Entries :
                              e[s] # NoEntry /\ e[s].name = n /\ e[s].inode = i
  <1> DEFINE S == {s \in DOMAIN e : e[s].inode # 0 /\ e[s].name = n}
  <1>1. \A s \in 1 .. Entries : /\ e[s] # NoEntry <=> e[s].inode # 0
                                /\ e[s].inode # 0 => e[s].inode \in Inodes
    BY DEF EntryType, NoEntry
  <1>2. CASE S = {}
    BY <1>1, <1>2, Sizes DEF find_in_dir
  <1>3. CASE S # {}
    <2>1. S \subseteq Nat
      OBVIOUS
    <2>2. Min(S) \in S
      <3> HIDE DEF S
      <3> QED BY <2>1, <1>3, MinIn
    <2>3. find_in_dir(e, n) = e[Min(S)].inode
      BY <1>3 DEF find_in_dir
    <2> QED BY <1>1, <2>2, <2>3
  <1> QED BY <1>2, <1>3

LEMMA PathFacts ==
    ASSUME NEW p \in Paths
    PROVE  /\ Len(p) \in {1, 2} /\ p[1] \in Names /\ Leaf(p) \in Names
  BY DEF Paths, Leaf

\* What a lookup on a device without pending writes returns.
LEMMA LookupFacts ==
    ASSUME FsInv, Ready, NEW i \in Inodes, NEW n
    PROVE  /\ lookup(i, n) \in Inodes
           /\ IsDir(i) => /\ DirBlk(i) \in Lists(disk) /\ DirBlk(i) \in Blocks
                          /\ Dirents(i) \in [1 .. Entries -> EntryType]
                          /\ \A s \in 1 .. Entries : Dirents(i)[s] = Ent(disk, DirBlk(i), s)
           /\ IsDir(i) /\ lookup(i, n) = 0 =>
                 \A s \in 1 .. Entries : Dirents(i)[s] # NoEntry => Dirents(i)[s].name # n
           /\ lookup(i, n) # 0 =>
                 /\ IsDir(i)
                 /\ \E s \in 1 .. Entries : /\ Dirents(i)[s] # NoEntry
                                            /\ Dirents(i)[s].name = n
                                            /\ Dirents(i)[s].inode = lookup(i, n)
  <1>1. disk \in Disks /\ disk.itab = core.itab
    BY ReadyFacts
  <1>2. IsDir(i) => /\ DirBlk(i) \in Lists(disk) /\ DirBlk(i) \in Blocks
                    /\ Dirents(i) \in [1 .. Entries -> EntryType]
                    /\ \A s \in 1 .. Entries : Dirents(i)[s] = Ent(disk, DirBlk(i), s)
    BY <1>1, DiskFields DEF IsDir, DirBlk, Dirents, Lists, Own, Ent, BlockType
  <1>3. CASE IsDir(i)
    BY <1>2, <1>3, FindFacts DEF lookup
  <1>4. CASE ~IsDir(i)
    BY <1>4, Sizes DEF lookup
  <1> QED BY <1>2, <1>3, <1>4

LEMMA TranslateFacts ==
    ASSUME FsInv, Ready, NEW p \in Paths
    PROVE  LET t == translate_1(p)
               i == translate(p)
           IN  /\ t \in Inodes /\ i \in Inodes
               /\ IsDir(t) => /\ DirBlk(t) \in Lists(disk) /\ DirBlk(t) \in Blocks
                              /\ Dirents(t) \in [1 .. Entries -> EntryType]
                              /\ \A s \in 1 .. Entries : Dirents(t)[s] = Ent(disk, DirBlk(t), s)
               /\ t # 0 /\ IsDir(t) /\ i = 0 =>
                     \A s \in 1 .. Entries :
                         Dirents(t)[s] # NoEntry => Dirents(t)[s].name # Leaf(p)
               /\ i # 0 => /\ t # 0 /\ IsDir(t)
                           /\ i \in disk.imap /\ disk.itab[i].kind # "none"
                           /\ \E s \in 1 .. Entries : /\ Dirents(t)[s] # NoEntry
                                                      /\ Dirents(t)[s].name = Leaf(p)
                                                      /\ Dirents(t)[s].inode = i
  <1> DEFINE t == translate_1(p)
             i == translate(p)
  <1>1. t \in Inodes
    BY Sizes, LookupFacts DEF translate_1
  <1>2. i = IF t = 0 THEN 0 ELSE lookup(t, Leaf(p))
    BY DEF translate
  <1> HIDE DEF t
  <1>3. CASE t = 0
    <2>1. i = 0 /\ i \in Inodes
      BY <1>2, <1>3, Sizes
    <2> HIDE DEF i
    <2> QED BY <1>1, <1>3, <2>1, LookupFacts DEF i, t
  <1>4. CASE t # 0
    <2>1. i = lookup(t, Leaf(p))
      BY <1>2, <1>4
    <2> HIDE DEF i
    <2>2. i \in Inodes
      BY <1>1, <2>1, LookupFacts
    <2>3. IsDir(t) => /\ DirBlk(t) \in Lists(disk) /\ DirBlk(t) \in Blocks
                      /\ Dirents(t) \in [1 .. Entries -> EntryType]
                      /\ \A s \in 1 .. Entries : Dirents(t)[s] = Ent(disk, DirBlk(t), s)
      BY <1>1, LookupFacts
    <2>4. IsDir(t) /\ i = 0 =>
             \A s \in 1 .. Entries : Dirents(t)[s] # NoEntry => Dirents(t)[s].name # Leaf(p)
      BY <1>1, <2>1, LookupFacts
    <2>5. i # 0 => /\ IsDir(t)
                   /\ \E s \in 1 .. Entries : /\ Dirents(t)[s] # NoEntry
                                              /\ Dirents(t)[s].name = Leaf(p)
                                              /\ Dirents(t)[s].inode = i
      BY <1>1, <2>1, LookupFacts
    <2>6. i # 0 => i \in disk.imap /\ disk.itab[i].kind # "none"
      BY <2>3, <2>5, ReadyFacts DEF Sound, SoundLive
    <2> QED BY <1>1, <1>4, <2>2, <2>3, <2>4, <2>5, <2>6 DEF i, t
  <1> QED BY <1>3, <1>4

\* A free inode is none of those the device knows.
LEMMA FreeInodeFacts ==
    ASSUME FreeInodes # {}
    PROVE  /\ Min(FreeInodes) \in Inodes /\ Min(FreeInodes) # 0
           /\ Min(FreeInodes) \notin core.imap
  <1>1. Region \in Inodes /\ Region \in Nat
    BY Sizes DEF HomeNode
  <1>2. FreeInodes \subseteq Nat
    BY <1>1 DEF FreeInodes
  <1>3. Min(FreeInodes) \in FreeInodes
    BY <1>2, MinIn
  <1>4. \A i \in 2 .. Region - 1 : i \in Inodes /\ i # 0
    BY <1>1, Sizes DEF Inodes
  <1> QED BY <1>3, <1>4 DEF FreeInodes

LEMMA FreeSlotFacts ==
    ASSUME NEW e \in [1 .. Entries -> EntryType], FreeSlots(e) # {}
    PROVE  find_free_dir(e) \in 1 .. Entries
  <1>1. FreeSlots(e) \subseteq 1 .. Entries /\ FreeSlots(e) \subseteq Nat
    BY DEF FreeSlots
  <1>2. find_free_dir(e) \in FreeSlots(e)
    BY <1>1, MinIn DEF find_free_dir
  <1> QED BY <1>1, <1>2

-----------------------------------------------------------------------------
(* Each handler's writes lead to what the handler left in memory. *)

LEMMA MadeInode ==
    ASSUME NEW y \in InodeType, NEW kind \in {"none", "file", "dir"}
    PROVE  LET x == [y EXCEPT !.kind = kind, !.size = 0, !.direct[0] = 0]
           IN  /\ x \in InodeType /\ x.kind = kind /\ x.direct[0] = 0
               /\ x.indir_1 = y.indir_1 /\ x.indir_2 = y.indir_2
               /\ \A k \in 1 .. N_DIRECT - 1 : x.direct[k] = y.direct[k]
  <1> DEFINE x == [y EXCEPT !.kind = kind, !.size = 0, !.direct[0] = 0]
             g == [y.direct EXCEPT ![0] = 0]
  <1>1. /\ y.direct \in [0 .. N_DIRECT - 1 -> Blocks] /\ y.indir_1 \in Blocks
        /\ y.indir_2 \in Blocks
    BY DEF InodeType
  <1>2. /\ g \in [0 .. N_DIRECT - 1 -> Blocks] /\ g[0] = 0
        /\ \A k \in 1 .. N_DIRECT - 1 : g[k] = y.direct[k]
    BY <1>1, Sizes
  <1>3. x = [y EXCEPT !.kind = kind, !.size = 0, !.direct = g]
    OBVIOUS
  <1>4. 0 \in 0 .. MaxFile * BLOCK_SIZE
    BY Sizes
  <1> HIDE DEF x, g
  <1>5. /\ x \in InodeType /\ x.kind = kind /\ x.direct = g
        /\ x.indir_1 = y.indir_1 /\ x.indir_2 = y.indir_2
    BY <1>1, <1>2, <1>3, <1>4 DEF InodeType
  <1> QED BY <1>2, <1>5 DEF x

LEMMA MadeFacts ==
    ASSUME core \in Cores, NEW i \in Inodes, NEW kind \in {"file", "dir"}
    PROVE  LET m == Made(i, kind)
           IN  /\ m \in Cores /\ m.imap = core.imap \cup {i} /\ m.bmap = core.bmap
               /\ \A j \in Inodes : j # i => m.itab[j] = core.itab[j]
               /\ m.itab[i].kind = kind /\ m.itab[i].direct[0] = 0
               /\ m.itab[i].indir_1 = core.itab[i].indir_1
               /\ m.itab[i].indir_2 = core.itab[i].indir_2
               /\ \A k \in 1 .. N_DIRECT - 1 : m.itab[i].direct[k] = core.itab[i].direct[k]
  <1> DEFINE m == Made(i, kind)
             x == [core.itab[i] EXCEPT !.kind = kind, !.size = 0, !.direct[0] = 0]
  <1>1. core.itab \in [Inodes -> InodeType] /\ core.itab[i] \in InodeType
    BY CoreFields
  <1>2. /\ x \in InodeType /\ x.kind = kind /\ x.direct[0] = 0
        /\ x.indir_1 = core.itab[i].indir_1 /\ x.indir_2 = core.itab[i].indir_2
        /\ \A k \in 1 .. N_DIRECT - 1 : x.direct[k] = core.itab[i].direct[k]
    <2>1. kind \in {"none", "file", "dir"}
      OBVIOUS
    <2> HIDE DEF m
    <2> QED BY <1>1, <2>1, MadeInode, Zenon
  <1>3. m = [core EXCEPT !.imap = @ \cup {i}, !.itab = [@ EXCEPT ![i] = x]]
    BY DEF Made
  <1> HIDE DEF x, m
  <1>4. /\ m \in Cores /\ m.imap = core.imap \cup {i} /\ m.bmap = core.bmap
        /\ m.itab = [core.itab EXCEPT ![i] = x]
    BY <1>1, <1>2, <1>3 DEF Cores
  <1>5. m.itab[i] = x /\ \A j \in Inodes : j # i => m.itab[j] = core.itab[j]
    BY <1>1, <1>4
  <1> QED BY <1>2, <1>4, <1>5 DEF m

LEMMA MakeReaches ==
    ASSUME FsInv, NEW p \in Paths, NEW kind \in {"file", "dir"}, CanMake(p),
           FreeInodes # {}, FreeSlots(Dirents(translate_1(p))) # {}
    PROVE  LET parent == translate_1(p)
               i == Min(FreeInodes)
               m == Made(i, kind)
               slot == find_free_dir(Dirents(parent))
           IN  Reaches(m, update_inode(m, i) \o update_blk(m)
                  \o <<BlkWrite(DirBlk(parent),
                                [disk.blk[DirBlk(parent)] EXCEPT
                                    !.ents[slot] = [name |-> Leaf(p), inode |-> i]])>>)
  <1> DEFINE parent == translate_1(p)
             i == Min(FreeInodes)
             m == Made(i, kind)
             slot == find_free_dir(Dirents(parent))
             b == DirBlk(parent)
             v == [disk.blk[b] EXCEPT !.ents[slot] = [name |-> Leaf(p), inode |-> i]]
  <1>1. /\ Ready /\ parent # 0 /\ IsDir(parent) /\ translate(p) = 0
    BY DEF CanMake
  <1>2. /\ disk \in GoodDisks /\ disk \in Disks /\ Sound(disk) /\ core \in Cores
        /\ disk.itab = core.itab /\ disk.imap \subseteq core.imap
        /\ Own(disk) \subseteq core.bmap
    BY <1>1, ReadyFacts
  <1>3. /\ parent \in Inodes /\ b \in Lists(disk) /\ b \in Blocks
        /\ Dirents(parent) \in [1 .. Entries -> EntryType]
        /\ \A s \in 1 .. Entries : Dirents(parent)[s] = Ent(disk, b, s)
        /\ \A s \in 1 .. Entries : Ent(disk, b, s) # NoEntry => Ent(disk, b, s).name # Leaf(p)
    BY <1>1, TranslateFacts
  <1>4. i \in Inodes /\ i # 0 /\ i \notin core.imap
    BY FreeInodeFacts
  <1>5. slot \in 1 .. Entries
    BY <1>3, FreeSlotFacts
  <1>6. Leaf(p) \in Names
    BY PathFacts
  <1> HIDE DEF i, parent, slot
  <1>7. /\ m \in Cores /\ m.imap = core.imap \cup {i} /\ m.bmap = core.bmap
        /\ \A j \in Inodes : j # i => m.itab[j] = core.itab[j]
        /\ m.itab[i].kind = kind /\ m.itab[i].direct[0] = 0
        /\ m.itab[i].indir_1 = core.itab[i].indir_1
        /\ m.itab[i].indir_2 = core.itab[i].indir_2
        /\ \A k \in 1 .. N_DIRECT - 1 : m.itab[i].direct[k] = core.itab[i].direct[k]
    BY <1>2, <1>4, MadeFacts
  <1> HIDE DEF m
  <1>8. PICK c \in GoodDisks :
            /\ Leads(disk, update_inode(m, i), c)
            /\ c.imap = m.imap /\ c.bmap = disk.bmap /\ c.itab = m.itab
            /\ c.blk = disk.blk /\ Own(c) \subseteq Own(disk)
    <2>1. Apart(m.itab[i], Own(disk))
      <3>1. 0 \notin Own(disk) /\ Apart(core.itab[i], Own(disk))
        BY <1>2, <1>4, DiskFields DEF Sound, SoundApart
      <3> QED BY <3>1, <1>7 DEF Apart
    <2>2. \A x \in Lists(disk), s \in 1 .. Entries :
             Ent(disk, x, s) # NoEntry => Ent(disk, x, s).inode \in m.imap
      BY <1>2, <1>7 DEF Sound, SoundLive
    <2>3. \A j \in Inodes : j # i => disk.itab[j] = m.itab[j]
      BY <1>2, <1>7
    <2> QED BY <1>2, <1>4, <1>7, <2>1, <2>2, <2>3, LeadsInode
  <1>9. PICK e \in GoodDisks :
            /\ Leads(c, update_blk(m), e)
            /\ e.imap = c.imap /\ e.bmap = m.bmap /\ e.itab = c.itab
            /\ e.blk = c.blk /\ Own(e) = Own(c)
    BY <1>2, <1>7, <1>8, LeadsMap
  <1>10. /\ v \in BlockType /\ v.ptrs = disk.blk[b].ptrs
         /\ v.ents[slot] = [name |-> Leaf(p), inode |-> i]
         /\ \A s \in 1 .. Entries : s # slot => v.ents[s] = Ent(disk, b, s)
    <2>1. disk.blk[b] \in BlockType
      BY <1>2, <1>3, DiskFields
    <2>2. [name |-> Leaf(p), inode |-> i] \in EntryType
      BY <1>4, <1>6 DEF EntryType
    <2> QED BY <2>1, <2>2, <1>5 DEF BlockType, Ent
  <1> HIDE DEF v, b
  <1>11. PICK f \in GoodDisks :
            /\ Leads(e, <<BlkWrite(b, v)>>, f)
            /\ f.imap = e.imap /\ f.bmap = e.bmap /\ f.itab = e.itab
            /\ f.blk = [e.blk EXCEPT ![b] = v] /\ Own(f) = Own(e)
    <2>1. PtrsApart(v, Own(e))
      BY <1>2, <1>3, <1>8, <1>9, <1>10 DEF Sound, SoundApart, PtrsApart
    <2>2. /\ Lists(e) \subseteq Lists(disk)
          /\ \A x, s : Ent(e, x, s) = Ent(disk, x, s)
      BY <1>8, <1>9 DEF Lists, Ent
    <2>3. ASSUME NEW s \in 1 .. Entries, v.ents[s] # NoEntry
          PROVE  /\ v.ents[s].inode \in e.imap
                 /\ e.itab[v.ents[s].inode].kind # "none"
                 /\ \A x \in Lists(e), t \in 1 .. Entries :
                       x # b /\ Ent(e, x, t) # NoEntry => Ent(e, x, t).inode # v.ents[s].inode
      <3>1. CASE s = slot
        <4>1. v.ents[s].inode = i
          BY <1>10, <3>1
        <4>2. \A x \in Lists(e), t \in 1 .. Entries :
                 Ent(e, x, t) # NoEntry => Ent(e, x, t).inode \in disk.imap
          BY <2>2, <1>2 DEF Sound, SoundLive
        <4> QED BY <4>1, <4>2, <1>2, <1>4, <1>7, <1>8, <1>9
      <3>2. CASE s # slot
        <4>1. v.ents[s] = Ent(disk, b, s)
          BY <1>10, <3>2
        <4>2. /\ v.ents[s].inode \in disk.imap
              /\ disk.itab[v.ents[s].inode].kind # "none"
          BY <4>1, <2>3, <1>2, <1>3 DEF Sound, SoundLive
        <4>3. v.ents[s].inode # i /\ v.ents[s].inode \in Inodes
          BY <4>2, <1>2, <1>4, DiskFields
        <4>4. \A x \in Lists(e), t \in 1 .. Entries :
                 x # b /\ Ent(e, x, t) # NoEntry => Ent(e, x, t).inode # v.ents[s].inode
          BY <4>1, <2>2, <2>3, <1>2, <1>3 DEF Sound, SoundOne
        <4> QED BY <4>2, <4>3, <4>4, <1>2, <1>7, <1>8, <1>9
      <3> QED BY <3>1, <3>2
    <2>4. ASSUME NEW s \in 1 .. Entries, NEW t \in 1 .. Entries,
                 s # t, v.ents[s] # NoEntry, v.ents[t] # NoEntry
          PROVE  /\ v.ents[s].inode # v.ents[t].inode
                 /\ v.ents[s].name # v.ents[t].name
      <3>0. \A x \in 1 .. Entries : x # slot /\ v.ents[x] # NoEntry =>
               /\ v.ents[x] = Ent(disk, b, x)
               /\ v.ents[x].inode \in core.imap /\ v.ents[x].name # Leaf(p)
        BY <1>2, <1>3, <1>10 DEF Sound, SoundLive
      <3>1. CASE s = slot
        BY <3>0, <3>1, <2>4, <1>4, <1>10
      <3>2. CASE t = slot
        BY <3>0, <3>2, <2>4, <1>4, <1>10
      <3>3. CASE s # slot /\ t # slot
        BY <3>0, <3>3, <2>4, <1>2, <1>3 DEF Sound, SoundOne
      <3> QED BY <3>1, <3>2, <3>3
    <2> QED BY <1>3, <1>10, <2>1, <2>3, <2>4, LeadsBlock
  <1>12. Leads(disk, (update_inode(m, i) \o update_blk(m)) \o <<BlkWrite(b, v)>>, f)
    BY <1>8, <1>9, <1>11, LeadsThen
  <1>13. Final(m, f)
    BY <1>2, <1>7, <1>8, <1>9, <1>11 DEF Final
  <1>14. Reaches(m, (update_inode(m, i) \o update_blk(m)) \o <<BlkWrite(b, v)>>)
    BY <1>7, <1>12, <1>13 DEF Reaches
  <1> QED BY <1>14 DEF parent, i, m, slot, b, v

LEMMA AttributesReach ==
    ASSUME FsInv, Ready, NEW i \in Inodes, i # 0
    PROVE  Reaches(core, update_inode(core, i))
  <1>1. /\ disk \in GoodDisks /\ disk \in Disks /\ Sound(disk) /\ core \in Cores
        /\ disk.itab = core.itab /\ disk.imap \subseteq core.imap
        /\ Own(disk) \subseteq core.bmap
    BY ReadyFacts
  <1>2. core.itab[i].kind = "none" =>
           \A b \in Lists(disk), s \in 1 .. Entries : Ent(disk, b, s).inode # i
    BY <1>1 DEF Sound, SoundLive, NoEntry
  <1>3. /\ Apart(core.itab[i], Own(disk))
        /\ \A b \in Lists(disk), s \in 1 .. Entries :
              Ent(disk, b, s) # NoEntry => Ent(disk, b, s).inode \in core.imap
    BY <1>1 DEF Sound, SoundLive, SoundApart
  <1>4. core.itab[i].kind = "dir" => \/ core.itab[i].direct[0] = 0
                                     \/ /\ disk.itab[i].kind = "dir"
                                        /\ core.itab[i].direct[0] = disk.itab[i].direct[0]
    BY <1>1
  <1>5. PICK e \in GoodDisks :
            /\ Leads(disk, update_inode(core, i), e)
            /\ e.imap = core.imap /\ e.bmap = disk.bmap /\ e.itab = core.itab
            /\ e.blk = disk.blk /\ Own(e) \subseteq Own(disk)
    BY <1>1, <1>2, <1>3, <1>4, LeadsInode
  <1> QED BY <1>1, <1>5 DEF Reaches, Final

\* A directory that chmod makes a file keeps its blocks, and its own block is
\* then no directory's.
LEMMA ChmodReaches ==
    ASSUME FsInv, Ready, NEW i \in Inodes, i # 0, IsDir(i)
    PROVE  Reaches(Retyped(i), update_inode(Retyped(i), i))
  <1> DEFINE m == Retyped(i)
  <1>1. /\ disk \in GoodDisks /\ disk \in Disks /\ Sound(disk) /\ core \in Cores
        /\ disk.itab = core.itab /\ disk.imap \subseteq core.imap
        /\ Own(disk) \subseteq core.bmap
    BY ReadyFacts
  <1>2. core.itab[i] \in InodeType /\ core.itab[i].kind = "dir"
    BY <1>1 DEF Cores, IsDir
  <1>3. /\ m \in Cores /\ m.imap = core.imap /\ m.bmap = core.bmap
        /\ m.itab[i] = [core.itab[i] EXCEPT !.kind = "file"]
        /\ \A j \in Inodes : j # i => m.itab[j] = core.itab[j]
    BY <1>1, <1>2 DEF Cores, InodeType, Retyped
  <1>4. Turned(disk.itab[i], m.itab[i]) /\ m.itab[i].kind = "file"
    BY <1>1, <1>2, <1>3 DEF Turned, InodeType
  <1>5. \A b \in Lists(disk), s \in 1 .. Entries :
            Ent(disk, b, s) # NoEntry => Ent(disk, b, s).inode \in m.imap
    BY <1>1, <1>3 DEF Sound, SoundLive
  <1> HIDE DEF m
  <1>6. PICK e \in GoodDisks :
            /\ Leads(disk, update_inode(m, i), e)
            /\ e.imap = m.imap /\ e.bmap = disk.bmap /\ e.itab = m.itab
            /\ e.blk = disk.blk /\ Own(e) \subseteq Own(disk)
    <2>1. \A j \in Inodes : j # i => disk.itab[j] = m.itab[j]
      BY <1>1, <1>3
    <2>2. m.itab[i].kind # "none" /\ m.itab[i].kind # "dir"
      BY <1>4
    <2> QED BY <1>1, <1>3, <1>4, <1>5, <2>1, <2>2, LeadsInode
  <1> QED BY <1>1, <1>3, <1>6 DEF Reaches, Final, m

\* The entries of a directory with those of a name replaced.
LEMMA NamedOnce ==
    ASSUME FsInv, Ready, NEW b \in Lists(disk), NEW n,
           NEW s \in 1 .. Entries, Ent(disk, b, s) # NoEntry, Ent(disk, b, s).name = n
    PROVE  Named(disk.blk[b].ents, n) = {s}
  <1>1. disk \in Disks /\ Sound(disk) /\ b \in Blocks
    BY ReadyFacts, DiskFields
  <1>2. disk.blk[b].ents \in [1 .. Entries -> EntryType]
    BY <1>1, DiskFields DEF BlockType
  <1>3. \A t \in 1 .. Entries : Ent(disk, b, t) # NoEntry /\ Ent(disk, b, t).name = n => t = s
    BY <1>1 DEF Sound, SoundOne
  <1> QED BY <1>2, <1>3 DEF Named, Ent

LEMMA RenameReaches ==
    ASSUME FsInv, NEW p \in Paths, NEW q \in Paths, Ready,
           translate(p) # 0, translate(q) = 0, translate_1(p) = translate_1(q)
    PROVE  Reaches(core, <<Renamed(p, q)>>)
  <1> DEFINE parent == translate_1(p)
             b == DirBlk(parent)
             old == disk.blk[b].ents
             v == [disk.blk[b] EXCEPT !.ents = Relabelled(@, Leaf(p), Leaf(q))]
  <1>1. /\ disk \in GoodDisks /\ disk \in Disks /\ Sound(disk) /\ core \in Cores
        /\ disk.itab = core.itab /\ disk.imap \subseteq core.imap
        /\ Own(disk) \subseteq core.bmap
    BY ReadyFacts
  <1>2. /\ parent # 0 /\ IsDir(parent) /\ b \in Lists(disk) /\ b \in Blocks
        /\ \A s \in 1 .. Entries : Dirents(parent)[s] = Ent(disk, b, s)
        /\ \E s \in 1 .. Entries : Dirents(parent)[s] # NoEntry /\ Dirents(parent)[s].name = Leaf(p)
        /\ \A s \in 1 .. Entries : Ent(disk, b, s) # NoEntry => Ent(disk, b, s).name # Leaf(q)
    <2>1. /\ parent # 0 /\ IsDir(parent) /\ b \in Lists(disk) /\ b \in Blocks
          /\ \A s \in 1 .. Entries : Dirents(parent)[s] = Ent(disk, b, s)
          /\ \E s \in 1 .. Entries : Dirents(parent)[s] # NoEntry
                                     /\ Dirents(parent)[s].name = Leaf(p)
      BY TranslateFacts
    <2>2. \A s \in 1 .. Entries : Dirents(parent)[s] # NoEntry => Dirents(parent)[s].name # Leaf(q)
      BY <2>1, TranslateFacts
    <2> QED BY <2>1, <2>2
  <1>3. PICK r \in 1 .. Entries : Ent(disk, b, r) # NoEntry /\ Ent(disk, b, r).name = Leaf(p)
    BY <1>2
  <1> HIDE DEF parent
  <1>4. Named(old, Leaf(p)) = {r}
    BY <1>2, <1>3, NamedOnce
  <1>5. /\ v \in BlockType /\ v.ptrs = disk.blk[b].ptrs
        /\ v.ents[r] # NoEntry /\ v.ents[r].inode = Ent(disk, b, r).inode
        /\ v.ents[r].name = Leaf(q)
        /\ \A s \in 1 .. Entries : s # r => v.ents[s] = Ent(disk, b, s)
    <2>1. disk.blk[b] \in BlockType /\ old \in [1 .. Entries -> EntryType] /\ Leaf(q) \in Names
      BY <1>1, <1>2, DiskFields, PathFacts DEF BlockType
    <2> DEFINE x == [old[r] EXCEPT !.name = Leaf(q)]
    <2>2. /\ x \in EntryType /\ x.name = Leaf(q) /\ x.inode = old[r].inode /\ x # NoEntry
      <3>1. old[r] \in [name : Names, inode : Inodes \ {0}]
        BY <2>1, <1>3 DEF EntryType, Ent
      <3> QED BY <2>1, <3>1 DEF EntryType, NoEntry
    <2>3. Relabelled(old, Leaf(p), Leaf(q)) = [s \in 1 .. Entries |-> IF s = r THEN x ELSE old[s]]
      BY <1>4, <2>1 DEF Relabelled
    <2> DEFINE new == Relabelled(old, Leaf(p), Leaf(q))
    <2>4. new \in [1 .. Entries -> EntryType] /\ new[r] = x
          /\ \A s \in 1 .. Entries : s # r => new[s] = old[s]
      <3> HIDE DEF x
      <3> QED BY <2>1, <2>2, <2>3
    <2>5. v = [disk.blk[b] EXCEPT !.ents = new]
      OBVIOUS
    <2> HIDE DEF new, x, v
    <2> QED BY <2>1, <2>2, <2>4, <2>5 DEF BlockType, Ent
  <1> HIDE DEF v, b
  <1>6. PICK f \in GoodDisks :
            /\ Leads(disk, <<BlkWrite(b, v)>>, f)
            /\ f.imap = disk.imap /\ f.bmap = disk.bmap /\ f.itab = disk.itab
            /\ f.blk = [disk.blk EXCEPT ![b] = v] /\ Own(f) = Own(disk)
    <2>1. PtrsApart(v, Own(disk))
      BY <1>1, <1>2, <1>5 DEF Sound, SoundApart, PtrsApart
    <2>2. \A s \in 1 .. Entries : v.ents[s] # NoEntry =>
             Ent(disk, b, s) # NoEntry /\ v.ents[s].inode = Ent(disk, b, s).inode
      BY <1>3, <1>5
    <2>3. ASSUME NEW s \in 1 .. Entries, v.ents[s] # NoEntry
          PROVE  /\ v.ents[s].inode \in disk.imap
                 /\ disk.itab[v.ents[s].inode].kind # "none"
                 /\ \A x \in Lists(disk), t \in 1 .. Entries :
                       x # b /\ Ent(disk, x, t) # NoEntry
                       => Ent(disk, x, t).inode # v.ents[s].inode
      BY <2>2, <2>3, <1>1, <1>2 DEF Sound, SoundLive, SoundOne
    <2>4. ASSUME NEW s \in 1 .. Entries, NEW t \in 1 .. Entries,
                 s # t, v.ents[s] # NoEntry, v.ents[t] # NoEntry
          PROVE  /\ v.ents[s].inode # v.ents[t].inode
                 /\ v.ents[s].name # v.ents[t].name
      <3>1. /\ v.ents[s].inode # v.ents[t].inode
            /\ Ent(disk, b, s).name # Ent(disk, b, t).name
        BY <2>2, <2>4, <1>1, <1>2 DEF Sound, SoundOne
      <3>2. v.ents[s].name # v.ents[t].name
        BY <2>2, <2>4, <3>1, <1>2, <1>5
      <3> QED BY <3>1, <3>2
    <2> QED BY <1>1, <1>2, <1>5, <2>1, <2>3, <2>4, LeadsBlock
  <1>7. Renamed(p, q) = BlkWrite(b, v)
    BY DEF Renamed, b, v, parent
  <1> QED BY <1>1, <1>6, <1>7 DEF Reaches, Final

\* Blocks that fs_truncate and fs_unlink give back hold no directory.
LEMMA ReturnedApart ==
    ASSUME NEW d \in Disks, Sound(d), NEW x \in InodeType, Apart(x, Own(d)), x.kind # "dir"
    PROVE  Returned(d, x) \cap Own(d) = {}
  <1>1. d.blk \in [Blocks -> BlockType] /\ 0 \notin Own(d)
    BY DiskFields
  <1>2. ASSUME NEW b \in Blocks
        PROVE  Targets(d, b) \cap Own(d) = {} /\ Targets(d, b) \subseteq Blocks
    BY <1>1, ZenonT(40) DEF Targets, Sound, SoundApart, PtrsApart, BlockType
  <1>3. DirectOf(x) \cap Own(d) = {}
    <2>1. x.direct \in [0 .. N_DIRECT - 1 -> Blocks]
      BY DEF InodeType
    <2>2. \A k \in 0 .. N_DIRECT - 1 : k = 0 \/ k \in 1 .. N_DIRECT - 1
      BY Sizes
    <2>3. \A k \in 0 .. N_DIRECT - 1 : x.direct[k] \notin Own(d)
      BY <2>2 DEF Apart
    <2> QED BY <2>1, <2>3 DEF DirectOf
  <1>4. x.indir_1 \in Blocks /\ x.indir_2 \in Blocks
    BY DEF InodeType
  <1>5. Targets(d, x.indir_1) \cap Own(d) = {}
    BY <1>2, <1>4
  <1>6. Second(d, x) \cap Own(d) = {} /\ Second(d, x) \subseteq Blocks
    BY <1>2, <1>4 DEF Second, NonZero
  <1>7. (UNION {Targets(d, b) : b \in Second(d, x)}) \cap Own(d) = {}
    BY <1>2, <1>6
  <1>8. x.indir_1 \notin Own(d) /\ x.indir_2 \notin Own(d)
    BY DEF Apart
  <1> QED BY <1>3, <1>5, <1>6, <1>7, <1>8 DEF Returned, Owned, NonZero

LEMMA EmptiedInode ==
    ASSUME NEW x \in InodeType
    PROVE  /\ Emptied(x) \in InodeType /\ Emptied(x).kind = x.kind
           /\ Emptied(x).indir_1 = 0 /\ Emptied(x).indir_2 = 0
           /\ \A k \in 0 .. N_DIRECT - 1 : Emptied(x).direct[k] = 0
  <1>1. x.kind \in {"none", "file", "dir"}
    BY DEF InodeType
  <1> DEFINE y == [NoInode EXCEPT !.kind = x.kind]
  <1>2. /\ y \in InodeType /\ y.kind = x.kind /\ y.indir_1 = 0 /\ y.indir_2 = 0
        /\ y.direct = NoInode.direct
    BY <1>1, EmptyTypes DEF InodeType
  <1> HIDE DEF y
  <1>3. \A k \in 0 .. N_DIRECT - 1 : y.direct[k] = 0
    BY <1>2, EmptyTypes
  <1> QED BY <1>2, <1>3 DEF Emptied, y

LEMMA TruncateLeads ==
    ASSUME FsInv, Ready, NEW i \in Inodes, i # 0, ~IsDir(i), core.itab[i].kind # "none"
    PROVE  LET m == Truncated(i)
           IN  /\ m \in Cores /\ m.imap = core.imap /\ Own(disk) \subseteq m.bmap
               /\ \A j \in Inodes : /\ j # i => m.itab[j] = core.itab[j]
                                    /\ m.itab[j].kind = core.itab[j].kind
               /\ \E e \in GoodDisks :
                     /\ Leads(disk, TruncateWrites(i), e)
                     /\ e.imap = core.imap /\ e.bmap = m.bmap /\ e.itab = m.itab
                     /\ e.blk = disk.blk /\ Own(e) \subseteq Own(disk)
  <1> DEFINE m == Truncated(i)
  <1>1. /\ disk \in GoodDisks /\ disk \in Disks /\ Sound(disk) /\ core \in Cores
        /\ disk.itab = core.itab /\ disk.imap \subseteq core.imap
        /\ Own(disk) \subseteq core.bmap /\ 0 \notin Own(disk)
    BY ReadyFacts, DiskFields
  <1>2. core.itab \in [Inodes -> InodeType] /\ core.itab[i] \in InodeType
    BY <1>1, CoreFields
  <1>3. Returned(disk, core.itab[i]) \cap Own(disk) = {}
    <2>1. Apart(core.itab[i], Own(disk))
      BY <1>1 DEF Sound, SoundApart
    <2> QED BY <1>1, <1>2, <2>1, ReturnedApart DEF IsDir
  <1>4. /\ m \in Cores /\ m.imap = core.imap
        /\ m.bmap = core.bmap \ Returned(disk, core.itab[i])
        /\ m.itab = [core.itab EXCEPT ![i] = Emptied(core.itab[i])]
    <2>1. Emptied(core.itab[i]) \in InodeType
      BY <1>2, EmptiedInode
    <2> QED BY <1>1, <1>2, <2>1 DEF Truncated, Cores
  <1> HIDE DEF m
  <1>5. Own(disk) \subseteq m.bmap
    BY <1>1, <1>3, <1>4
  <1>6. /\ \A j \in Inodes : j # i => m.itab[j] = core.itab[j]
        /\ m.itab[i] = Emptied(core.itab[i])
    BY <1>2, <1>4
  <1>7. /\ m.itab[i].kind = core.itab[i].kind
        /\ m.itab[i].indir_1 = 0 /\ m.itab[i].indir_2 = 0
        /\ \A k \in 0 .. N_DIRECT - 1 : m.itab[i].direct[k] = 0
    BY <1>2, <1>6, EmptiedInode
  <1>8. PICK c \in GoodDisks :
            /\ Leads(disk, update_inode(m, i), c)
            /\ c.imap = m.imap /\ c.bmap = disk.bmap /\ c.itab = m.itab
            /\ c.blk = disk.blk /\ Own(c) \subseteq Own(disk)
    <2>1. Apart(m.itab[i], Own(disk))
      BY <1>1, <1>7, Sizes DEF Apart
    <2>2. \A x \in Lists(disk), s \in 1 .. Entries :
             Ent(disk, x, s) # NoEntry => Ent(disk, x, s).inode \in m.imap
      BY <1>1, <1>4 DEF Sound, SoundLive
    <2>3. \A j \in Inodes : j # i => disk.itab[j] = m.itab[j]
      BY <1>1, <1>6
    <2>4. m.itab[i].kind # "dir" /\ m.itab[i].kind # "none"
      BY <1>7 DEF IsDir
    <2> QED BY <1>1, <1>4, <2>1, <2>2, <2>3, <2>4, LeadsInode
  <1>9. PICK e \in GoodDisks :
            /\ Leads(c, update_blk(m), e)
            /\ e.imap = c.imap /\ e.bmap = m.bmap /\ e.itab = c.itab
            /\ e.blk = c.blk /\ Own(e) = Own(c)
    BY <1>4, <1>5, <1>8, LeadsMap
  <1>10. Leads(disk, TruncateWrites(i), e)
    BY <1>8, <1>9, LeadsThen DEF TruncateWrites, m
  <1>11. \A j \in Inodes : /\ j # i => m.itab[j] = core.itab[j]
                           /\ m.itab[j].kind = core.itab[j].kind
    BY <1>6, <1>7
  <1>12. \E x \in GoodDisks :
            /\ Leads(disk, TruncateWrites(i), x)
            /\ x.imap = core.imap /\ x.bmap = m.bmap /\ x.itab = m.itab
            /\ x.blk = disk.blk /\ Own(x) \subseteq Own(disk)
    BY <1>4, <1>8, <1>9, <1>10
  <1> QED BY <1>4, <1>5, <1>11, <1>12 DEF m

LEMMA TruncateReaches ==
    ASSUME FsInv, Ready, NEW i \in Inodes, i # 0, ~IsDir(i), core.itab[i].kind # "none"
    PROVE  Reaches(Truncated(i), TruncateWrites(i))
  BY TruncateLeads DEF Reaches, Final

\* A block of entries is written over the one with the entry of node i, and
\* no entry of the node is left.
LEMMA EraseLeads ==
    ASSUME FsInv, Ready, NEW p \in Paths, translate(p) # 0,
           NEW e \in GoodDisks, e.blk = disk.blk, Own(e) \subseteq Own(disk),
           disk.imap \subseteq e.imap,
           \A j \in Inodes : e.itab[j].kind = disk.itab[j].kind,
           NEW v \in BlockType, PtrsApart(v, Own(disk)),
           \A s \in 1 .. Entries :
               \/ v.ents[s] = NoEntry
               \/ /\ v.ents[s] = Ent(disk, DirBlk(translate_1(p)), s)
                  /\ s \notin Named(disk.blk[DirBlk(translate_1(p))].ents, Leaf(p))
    PROVE  \E f \in GoodDisks :
              /\ Leads(e, <<BlkWrite(DirBlk(translate_1(p)), v)>>, f)
              /\ f.imap = e.imap /\ f.bmap = e.bmap /\ f.itab = e.itab
              /\ Own(f) = Own(e)
              /\ \A c \in Lists(f), s \in 1 .. Entries :
                    /\ Ent(f, c, s).inode # translate(p)
                    /\ Ent(f, c, s) # NoEntry => Ent(f, c, s).inode \in disk.imap
  <1> DEFINE b == DirBlk(translate_1(p))
             i == translate(p)
  <1>1. /\ disk \in GoodDisks /\ disk \in Disks /\ Sound(disk) /\ core \in Cores
        /\ disk.itab = core.itab
    BY ReadyFacts
  <1>2. /\ b \in Lists(disk) /\ b \in Blocks /\ i \in Inodes
        /\ \E s \in 1 .. Entries : /\ Ent(disk, b, s) # NoEntry
                                   /\ Ent(disk, b, s).name = Leaf(p)
                                   /\ Ent(disk, b, s).inode = i
    BY TranslateFacts
  <1>3. PICK r \in 1 .. Entries : /\ Ent(disk, b, r) # NoEntry /\ Ent(disk, b, r).name = Leaf(p)
                                  /\ Ent(disk, b, r).inode = i
    BY <1>2
  <1> HIDE DEF b, i
  <1>4. Named(disk.blk[b].ents, Leaf(p)) = {r}
    BY <1>2, <1>3, NamedOnce
  <1>5. \A s \in 1 .. Entries : v.ents[s] # NoEntry => s # r /\ v.ents[s] = Ent(disk, b, s)
    BY <1>4 DEF b
  <1>6. Lists(e) \subseteq Lists(disk) /\ \A c, s : Ent(e, c, s) = Ent(disk, c, s)
    BY DEF Lists, Ent
  <1>7. PICK f \in GoodDisks :
            /\ Leads(e, <<BlkWrite(b, v)>>, f)
            /\ f.imap = e.imap /\ f.bmap = e.bmap /\ f.itab = e.itab
            /\ f.blk = [e.blk EXCEPT ![b] = v] /\ Own(f) = Own(e)
    <2>1. PtrsApart(v, Own(e))
      BY DEF PtrsApart
    <2>2. ASSUME NEW s \in 1 .. Entries, v.ents[s] # NoEntry
          PROVE  /\ v.ents[s].inode \in e.imap
                 /\ e.itab[v.ents[s].inode].kind # "none"
                 /\ \A x \in Lists(e), t \in 1 .. Entries :
                       x # b /\ Ent(e, x, t) # NoEntry => Ent(e, x, t).inode # v.ents[s].inode
      <3>1. v.ents[s] = Ent(disk, b, s)
        BY <1>5, <2>2
      <3>2. /\ v.ents[s].inode \in disk.imap
            /\ disk.itab[v.ents[s].inode].kind # "none"
        BY <3>1, <2>2, <1>1, <1>2 DEF Sound, SoundLive
      <3>3. v.ents[s].inode \in Inodes
        BY <3>2, <1>1, DiskFields
      <3>4. \A x \in Lists(e), t \in 1 .. Entries :
               x # b /\ Ent(e, x, t) # NoEntry => Ent(e, x, t).inode # v.ents[s].inode
        BY <3>1, <2>2, <1>1, <1>2, <1>6 DEF Sound, SoundOne
      <3> QED BY <3>2, <3>3, <3>4
    <2>3. ASSUME NEW s \in 1 .. Entries, NEW t \in 1 .. Entries,
                 s # t, v.ents[s] # NoEntry, v.ents[t] # NoEntry
          PROVE  /\ v.ents[s].inode # v.ents[t].inode
                 /\ v.ents[s].name # v.ents[t].name
      BY <1>1, <1>2, <1>5, <2>3 DEF Sound, SoundOne
    <2> QED BY <1>2, <2>1, <2>2, <2>3, LeadsBlock
  <1>8. ASSUME NEW c \in Lists(f), NEW s \in 1 .. Entries, Ent(f, c, s) # NoEntry
        PROVE  Ent(f, c, s).inode # i /\ Ent(f, c, s).inode \in disk.imap
    <2>1. c \in Lists(disk) /\ c \in Blocks /\ disk.blk \in [Blocks -> BlockType]
      BY <1>1, <1>6, <1>7, DiskFields DEF Lists
    <2>2. /\ c = b => Ent(f, c, s) = v.ents[s]
          /\ c # b => Ent(f, c, s) = Ent(disk, c, s)
      BY <1>7, <2>1 DEF Ent
    <2>3. Ent(f, c, s) = Ent(disk, c, s) /\ (c # b \/ s # r)
      BY <1>5, <1>8, <2>2
    <2>4. Ent(disk, c, s).inode \in disk.imap
      BY <1>1, <1>8, <2>1, <2>3 DEF Sound, SoundLive
    <2>5. Ent(disk, c, s).inode # Ent(disk, b, r).inode
      BY <1>1, <1>2, <1>3, <1>8, <2>1, <2>3 DEF Sound, SoundOne
    <2> QED BY <1>3, <2>3, <2>4, <2>5
  <1>9. i # 0
    BY DEF i
  <1>10. \A c \in Lists(f), s \in 1 .. Entries :
            /\ Ent(f, c, s).inode # i
            /\ Ent(f, c, s) # NoEntry => Ent(f, c, s).inode \in disk.imap
    BY <1>8, <1>9 DEF NoEntry
  <1> QED BY <1>7, <1>10 DEF b, i

\* The inode is cleared when no entry names it any more.
LEMMA ClearLeads ==
    ASSUME NEW d \in GoodDisks, NEW m \in Cores, NEW i \in Inodes,
           m.itab[i] = NoInode,
           \A j \in Inodes : j # i => m.itab[j] = d.itab[j],
           \A c \in Lists(d), s \in 1 .. Entries :
               /\ Ent(d, c, s).inode # i
               /\ Ent(d, c, s) # NoEntry => Ent(d, c, s).inode \in m.imap,
           \A j \in Inodes \ {i} : d.itab[j].kind = "dir" /\ d.itab[j].direct[0] # 0
                                   => d.itab[j].direct[0] \in m.bmap
    PROVE  \E e \in GoodDisks :
              Leads(d, update_inode(m, i) \o update_blk(m), e) /\ Final(m, e)
  <1>1. PICK c \in GoodDisks :
            /\ Leads(d, update_inode(m, i), c)
            /\ c.imap = m.imap /\ c.bmap = d.bmap /\ c.itab = m.itab
            /\ c.blk = d.blk /\ Own(c) \subseteq Own(d)
    <2>1. Apart(m.itab[i], Own(d))
      <3>1. d \in Disks
        BY DEF GoodDisks
      <3>2. 0 \notin Own(d)
        BY <3>1, DiskFields
      <3>3. \A k \in 1 .. N_DIRECT - 1 : k \in 0 .. N_DIRECT - 1
        BY Sizes
      <3> QED BY <3>2, <3>3, Sizes, EmptyTypes DEF Apart
    <2>2. m.itab[i].kind = "none"
      BY EmptyTypes
    <2> QED BY <2>1, <2>2, LeadsInode
  <1>2. Own(c) \subseteq m.bmap
    <2>1. \A j \in Inodes : c.itab[j].kind = "dir" /\ c.itab[j].direct[0] # 0
                            => c.itab[j].direct[0] \in m.bmap
      BY <1>1, EmptyTypes
    <2> QED BY <2>1 DEF Own
  <1>3. PICK e \in GoodDisks :
            /\ Leads(c, update_blk(m), e)
            /\ e.imap = c.imap /\ e.bmap = m.bmap /\ e.itab = c.itab
            /\ e.blk = c.blk /\ Own(e) = Own(c)
    BY <1>2, LeadsMap
  <1> QED BY <1>1, <1>2, <1>3, LeadsThen DEF Final

LEMMA ClearedCore ==
    ASSUME NEW m \in Cores, NEW i \in Inodes
    PROVE  /\ Cleared(m, i) \in Cores /\ Cleared(m, i).imap = m.imap \ {i}
           /\ Cleared(m, i).bmap = m.bmap /\ Cleared(m, i).itab[i] = NoInode
           /\ \A j \in Inodes : j # i => Cleared(m, i).itab[j] = m.itab[j]
  <1>1. m.itab \in [Inodes -> InodeType] /\ NoInode \in InodeType
    BY EmptyTypes DEF Cores
  <1>2. /\ Cleared(m, i) \in Cores /\ Cleared(m, i).imap = m.imap \ {i}
        /\ Cleared(m, i).bmap = m.bmap
        /\ Cleared(m, i).itab = [m.itab EXCEPT ![i] = NoInode]
    BY <1>1 DEF Cleared, Cores
  <1> HIDE DEF NoInode, InodeType
  <1> QED BY <1>1, <1>2

LEMMA UnlinkReaches ==
    ASSUME FsInv, Ready, NEW p \in Paths, translate(p) # 0, ~IsDir(translate(p))
    PROVE  LET i == translate(p)
               m == Cleared(Truncated(i), i)
           IN  Reaches(m, TruncateWrites(i)
                             \o <<Unlisted(DirBlk(translate_1(p)), Leaf(p))>>
                             \o update_inode(m, i) \o update_blk(m))
  <1> DEFINE i == translate(p)
             n == Truncated(i)
             m == Cleared(n, i)
             b == DirBlk(translate_1(p))
             v == [disk.blk[b] EXCEPT !.ents = Erased(@, Leaf(p))]
  <1>1. /\ disk \in GoodDisks /\ disk \in Disks /\ Sound(disk) /\ core \in Cores
        /\ disk.itab = core.itab /\ disk.imap \subseteq core.imap
    BY ReadyFacts
  <1>2. /\ i \in Inodes /\ i # 0 /\ ~IsDir(i) /\ core.itab[i].kind # "none"
        /\ b \in Lists(disk) /\ b \in Blocks
    BY <1>1, TranslateFacts
  <1> HIDE DEF i
  <1>3. /\ n \in Cores /\ n.imap = core.imap /\ Own(disk) \subseteq n.bmap
        /\ \A j \in Inodes : n.itab[j].kind = core.itab[j].kind
    BY <1>2, TruncateLeads
  <1>4. PICK e \in GoodDisks :
            /\ Leads(disk, TruncateWrites(i), e)
            /\ e.imap = core.imap /\ e.bmap = n.bmap /\ e.itab = n.itab
            /\ e.blk = disk.blk /\ Own(e) \subseteq Own(disk)
    BY <1>2, TruncateLeads
  <1> HIDE DEF n, m, b
  <1>5. /\ v \in BlockType /\ v.ptrs = disk.blk[b].ptrs
        /\ \A s \in 1 .. Entries :
              \/ v.ents[s] = NoEntry
              \/ /\ v.ents[s] = Ent(disk, b, s)
                 /\ s \notin Named(disk.blk[b].ents, Leaf(p))
    <2>1. disk.blk[b] \in BlockType /\ disk.blk[b].ents \in [1 .. Entries -> EntryType]
      BY <1>1, <1>2, DiskFields DEF BlockType
    <2> DEFINE new == Erased(disk.blk[b].ents, Leaf(p))
    <2>2. /\ new \in [1 .. Entries -> EntryType]
          /\ \A s \in 1 .. Entries :
                \/ new[s] = NoEntry
                \/ /\ new[s] = disk.blk[b].ents[s]
                   /\ s \notin Named(disk.blk[b].ents, Leaf(p))
      <3> HIDE DEF NoEntry
      <3> QED BY <2>1, EmptyTypes DEF Erased
    <2>3. v = [disk.blk[b] EXCEPT !.ents = new]
      OBVIOUS
    <2> HIDE DEF new, v
    <2> QED BY <2>1, <2>2, <2>3 DEF BlockType, Ent
  <1> HIDE DEF v
  <1>6. PICK f \in GoodDisks :
              /\ Leads(e, <<BlkWrite(b, v)>>, f)
              /\ f.imap = e.imap /\ f.bmap = e.bmap /\ f.itab = e.itab
              /\ Own(f) = Own(e)
              /\ \A c \in Lists(f), s \in 1 .. Entries :
                    /\ Ent(f, c, s).inode # i
                    /\ Ent(f, c, s) # NoEntry => Ent(f, c, s).inode \in disk.imap
    <2>1. PtrsApart(v, Own(disk))
      BY <1>1, <1>2, <1>5 DEF Sound, SoundApart, PtrsApart
    <2>2. \A j \in Inodes : e.itab[j].kind = disk.itab[j].kind
      BY <1>1, <1>3, <1>4
    <2> QED BY <1>1, <1>2, <1>4, <1>5, <2>1, <2>2, EraseLeads, ZenonT(40) DEF b, i
  <1>7. /\ m \in Cores /\ m.imap = n.imap \ {i} /\ m.bmap = n.bmap /\ m.itab[i] = NoInode
        /\ \A j \in Inodes : j # i => m.itab[j] = n.itab[j]
    BY <1>2, <1>3, ClearedCore DEF m
  <1>8. PICK g \in GoodDisks :
            Leads(f, update_inode(m, i) \o update_blk(m), g) /\ Final(m, g)
    <2>1. \A j \in Inodes : j # i => m.itab[j] = f.itab[j]
      BY <1>4, <1>6, <1>7
    <2>2. \A c \in Lists(f), s \in 1 .. Entries :
              /\ Ent(f, c, s).inode # i
              /\ Ent(f, c, s) # NoEntry => Ent(f, c, s).inode \in m.imap
      BY <1>1, <1>3, <1>6, <1>7
    <2>3. \A j \in Inodes \ {i} : f.itab[j].kind = "dir" /\ f.itab[j].direct[0] # 0
                                  => f.itab[j].direct[0] \in m.bmap
      <3>1. Own(f) \subseteq m.bmap
        BY <1>3, <1>4, <1>6, <1>7
      <3> QED BY <3>1 DEF Own
    <2> QED BY <1>2, <1>7, <2>1, <2>2, <2>3, ClearLeads
  <1> DEFINE a1 == TruncateWrites(i)
             a2 == <<BlkWrite(b, v)>>
             a3 == update_inode(m, i)
             a4 == update_blk(m)
  <1>9. /\ a1 \in Seq(Writes) /\ a2 \in Seq(Writes) /\ a3 \o a4 \in Seq(Writes)
    BY <1>4, <1>6, <1>8, LeadsEnds
  <1>10. Leads(disk, (a1 \o a2) \o (a3 \o a4), g)
    <2> HIDE DEF a1, a2, a3, a4
    <2>1. Leads(disk, a1, e) /\ Leads(e, a2, f) /\ Leads(f, a3 \o a4, g)
      BY <1>4, <1>6, <1>8 DEF a1, a2, a3, a4
    <2>2. Leads(disk, a1 \o a2, f)
      BY <2>1, LeadsThen
    <2> QED BY <2>1, <2>2, LeadsThen
  <1>11. (a1 \o a2) \o (a3 \o a4) = ((a1 \o a2) \o a3) \o a4
    <2>1. a3 \in Seq(Writes) /\ a4 \in Seq(Writes)
      BY <1>2, <1>7, UpdateTypes
    <2> HIDE DEF a1, a2, a3, a4
    <2> QED BY <1>9, <2>1
  <1>12. Unlisted(b, Leaf(p)) = BlkWrite(b, v)
    BY DEF Unlisted, v
  <1>13. Reaches(m, ((a1 \o a2) \o a3) \o a4)
    BY <1>7, <1>8, <1>10, <1>11 DEF Reaches
  <1> QED BY <1>12, <1>13 DEF i, n, m, b

LEMMA RmdirReaches ==
    ASSUME FsInv, NEW p \in Paths, CanRmdir(p)
    PROVE  LET i == translate(p)
               m == RmdirState(i)
           IN  Reaches(m, <<BlkWrite(DirBlk(translate_1(p)), disk.blk[DirBlk(i)])>>
                             \o update_inode(m, i) \o update_blk(m))
  <1> DEFINE i == translate(p)
             n == Cleared(core, i)
             m == RmdirState(i)
             b == DirBlk(translate_1(p))
             v == disk.blk[DirBlk(i)]
  <1>1. /\ disk \in GoodDisks /\ disk \in Disks /\ Sound(disk) /\ core \in Cores
        /\ disk.itab = core.itab /\ disk.imap \subseteq core.imap
        /\ Own(disk) \subseteq core.bmap /\ Ready
    BY ReadyFacts DEF CanRmdir
  <1>2. /\ i \in Inodes /\ i # 0 /\ IsDir(i) /\ FreeSlots(Dirents(i)) = DOMAIN Dirents(i)
        /\ b \in Lists(disk) /\ b \in Blocks
    BY <1>1, TranslateFacts DEF CanRmdir
  <1>3. /\ n \in Cores /\ n.imap = core.imap \ {i} /\ n.bmap = core.bmap /\ n.itab[i] = NoInode
        /\ \A j \in Inodes : j # i => n.itab[j] = core.itab[j]
    BY <1>1, <1>2, ClearedCore
  <1>4. /\ DirBlk(i) \in Blocks /\ v \in BlockType
        /\ \A s \in 1 .. Entries : v.ents[s] = NoEntry
    <2>1. DirBlk(i) \in Blocks
      BY <1>1, <1>2, DiskFields DEF DirBlk
    <2>2. v \in BlockType /\ v.ents \in [1 .. Entries -> EntryType] /\ Dirents(i) = v.ents
      BY <1>1, <2>1, DiskFields DEF BlockType, Dirents
    <2> HIDE DEF v
    <2>3. \A s \in 1 .. Entries : v.ents[s] = NoEntry
      BY <1>2, <2>2 DEF FreeSlots
    <2> QED BY <2>1, <2>2, <2>3
  <1>5. m = [n EXCEPT !.bmap = @ \ {DirBlk(i)}]
    BY DEF RmdirState
  <1> HIDE DEF i, n, m, b, v
  <1>6. /\ m \in Cores /\ m.imap = core.imap \ {i} /\ m.bmap = core.bmap \ {DirBlk(i)}
        /\ m.itab = n.itab
    BY <1>3, <1>5 DEF Cores
  <1>7. PICK f \in GoodDisks :
              /\ Leads(disk, <<BlkWrite(b, v)>>, f)
              /\ f.imap = disk.imap /\ f.bmap = disk.bmap /\ f.itab = disk.itab
              /\ Own(f) = Own(disk)
              /\ \A c \in Lists(f), s \in 1 .. Entries :
                    /\ Ent(f, c, s).inode # i
                    /\ Ent(f, c, s) # NoEntry => Ent(f, c, s).inode \in disk.imap
    <2>1. PtrsApart(v, Own(disk))
      BY <1>1, <1>4 DEF Sound, SoundApart, v
    <2> QED BY <1>1, <1>2, <1>4, <2>1, EraseLeads DEF b, i
  <1>8. PICK g \in GoodDisks :
            Leads(f, update_inode(m, i) \o update_blk(m), g) /\ Final(m, g)
    <2>1. /\ \A j \in Inodes : j # i => m.itab[j] = f.itab[j]
          /\ m.itab[i] = NoInode
      BY <1>1, <1>3, <1>6, <1>7
    <2>2. \A c \in Lists(f), s \in 1 .. Entries :
              /\ Ent(f, c, s).inode # i
              /\ Ent(f, c, s) # NoEntry => Ent(f, c, s).inode \in m.imap
      BY <1>1, <1>6, <1>7
    <2>3. ASSUME NEW j \in Inodes \ {i}, f.itab[j].kind = "dir", f.itab[j].direct[0] # 0
          PROVE  f.itab[j].direct[0] \in m.bmap
      <3>1. disk.itab[j].kind = "dir" /\ disk.itab[j].direct[0] # 0
        BY <1>7, <2>3
      <3>2. disk.itab[i].kind = "dir" /\ DirBlk(i) = disk.itab[i].direct[0]
        BY <1>1, <1>2 DEF IsDir, DirBlk
      <3>3. disk.itab[j].direct[0] # DirBlk(i)
        BY <1>1, <1>2, <3>1, <3>2 DEF Sound, SoundUniq
      <3>4. disk.itab[j].direct[0] \in Own(disk)
        BY <3>1 DEF Own
      <3> QED BY <1>1, <1>6, <1>7, <3>3, <3>4
    <2> QED BY <1>2, <1>6, <2>1, <2>2, <2>3, ClearLeads
  <1> DEFINE a1 == <<BlkWrite(b, v)>>
             a2 == update_inode(m, i)
             a3 == update_blk(m)
  <1>9. a1 \in Seq(Writes) /\ a2 \in Seq(Writes) /\ a3 \in Seq(Writes)
    BY <1>2, <1>6, <1>7, LeadsEnds, UpdateTypes
  <1>10. Leads(disk, a1 \o (a2 \o a3), g)
    BY <1>7, <1>8, LeadsThen
  <1>11. a1 \o (a2 \o a3) = (a1 \o a2) \o a3
    <2> HIDE DEF a1, a2, a3
    <2> QED BY <1>9
  <1>12. Reaches(m, (a1 \o a2) \o a3)
    BY <1>6, <1>8, <1>10, <1>11 DEF Reaches
  <1> QED BY <1>12 DEF i, m, b, v

-----------------------------------------------------------------------------
(* Writing files.  No directory gains an entry: a block that is zeroed loses *)
(* its own, and an index block keeps what its entries were.                  *)

Thins(d, e) ==
    /\ d.imap \subseteq e.imap
    /\ \A j \in Inodes : /\ e.itab[j].kind = d.itab[j].kind
                         /\ d.itab[j].kind = "dir" => e.itab[j].direct[0] = d.itab[j].direct[0]
    /\ \A b \in Blocks, s \in 1 .. Entries : Ent(e, b, s) = NoEntry \/ Ent(e, b, s) = Ent(d, b, s)

LEMMA ThinsItself == ASSUME NEW d PROVE Thins(d, d)
  BY DEF Thins

LEMMA ThinsOwn ==
    ASSUME NEW d, NEW e, Thins(d, e)
    PROVE  Own(e) = Own(d) /\ Lists(e) = Lists(d)
  BY DEF Thins, Own, Lists

LEMMA ThinBlock ==
    ASSUME NEW d \in GoodDisks, NEW e \in GoodDisks, Thins(d, e), NEW b \in Blocks,
           NEW v \in BlockType, PtrsApart(v, Own(d)),
           \A s \in 1 .. Entries : v.ents[s] = NoEntry \/ v.ents[s] = Ent(d, b, s)
    PROVE  \E f \in GoodDisks :
              /\ Leads(e, <<BlkWrite(b, v)>>, f)
              /\ Thins(d, f) /\ f.imap = e.imap /\ f.itab = e.itab
  <1>1. d \in Disks /\ Sound(d) /\ e \in Disks /\ Own(e) = Own(d) /\ Lists(e) = Lists(d)
    BY ThinsOwn DEF GoodDisks
  <1>2. PICK f \in GoodDisks :
              /\ Leads(e, <<BlkWrite(b, v)>>, f)
              /\ f.imap = e.imap /\ f.bmap = e.bmap /\ f.itab = e.itab
              /\ f.blk = [e.blk EXCEPT ![b] = v] /\ Own(f) = Own(e)
    <2>1. ASSUME NEW s \in 1 .. Entries, v.ents[s] # NoEntry, b \in Lists(d)
          PROVE  /\ v.ents[s].inode \in e.imap
                 /\ e.itab[v.ents[s].inode].kind # "none"
                 /\ \A x \in Lists(e), t \in 1 .. Entries :
                       x # b /\ Ent(e, x, t) # NoEntry => Ent(e, x, t).inode # v.ents[s].inode
      <3>1. v.ents[s] = Ent(d, b, s)
        BY <2>1
      <3>2. v.ents[s].inode \in d.imap /\ d.itab[v.ents[s].inode].kind # "none"
        BY <2>1, <3>1, <1>1 DEF Sound, SoundLive
      <3>3. v.ents[s].inode \in e.imap /\ e.itab[v.ents[s].inode].kind # "none"
        BY <3>2, <1>1, DiskFields DEF Thins
      <3>4. ASSUME NEW x \in Lists(d), NEW t \in 1 .. Entries, x # b, Ent(e, x, t) # NoEntry
            PROVE  Ent(e, x, t).inode # v.ents[s].inode
        <4>1. x \in Blocks
          BY <1>1, DiskFields
        <4>2. Ent(e, x, t) = Ent(d, x, t)
          BY <3>4, <4>1 DEF Thins
        <4> QED BY <2>1, <3>1, <3>4, <4>2, <1>1 DEF Sound, SoundOne
      <3> QED BY <3>3, <3>4, <1>1
    <2>2. ASSUME NEW s \in 1 .. Entries, NEW t \in 1 .. Entries, b \in Lists(d),
                 s # t, v.ents[s] # NoEntry, v.ents[t] # NoEntry
          PROVE  /\ v.ents[s].inode # v.ents[t].inode
                 /\ v.ents[s].name # v.ents[t].name
      BY <1>1, <2>2 DEF Sound, SoundOne
    <2> QED BY <1>1, <2>1, <2>2, LeadsBlock
  <1>3. Thins(d, f)
    <2>1. e.blk \in [Blocks -> BlockType]
      BY <1>1, DiskFields
    <2>2. \A c \in Blocks, s \in 1 .. Entries :
             Ent(f, c, s) = IF c = b THEN v.ents[s] ELSE Ent(e, c, s)
      BY <1>2, <2>1 DEF Ent
    <2> QED BY <1>2, <2>2 DEF Thins
  <1> QED BY <1>2, <1>3

LEMMA ThinInode ==
    ASSUME NEW d \in GoodDisks, NEW e \in GoodDisks, Thins(d, e),
           NEW m \in Cores, NEW i \in Inodes, d.imap \subseteq m.imap,
           \A j \in Inodes : j # i => e.itab[j] = m.itab[j],
           m.itab[i].kind = d.itab[i].kind, d.itab[i].kind \notin {"dir", "none"},
           Apart(m.itab[i], Own(d))
    PROVE  \E f \in GoodDisks :
              /\ Leads(e, update_inode(m, i), f)
              /\ Thins(d, f) /\ f.imap = m.imap /\ f.itab = m.itab
  <1>1. d \in Disks /\ Sound(d) /\ e \in Disks /\ Own(e) = Own(d) /\ Lists(e) = Lists(d)
    BY ThinsOwn DEF GoodDisks
  <1>2. \A b \in Lists(e), s \in 1 .. Entries :
           Ent(e, b, s) # NoEntry => Ent(e, b, s).inode \in m.imap
    <2> SUFFICES ASSUME NEW b \in Lists(d), NEW s \in 1 .. Entries, Ent(e, b, s) # NoEntry
                 PROVE  Ent(e, b, s).inode \in m.imap
      BY <1>1
    <2>1. b \in Blocks
      BY <1>1, DiskFields
    <2>2. Ent(e, b, s) = Ent(d, b, s)
      BY <2>1 DEF Thins
    <2> QED BY <2>2, <1>1 DEF Sound, SoundLive
  <1>3. m.itab[i].kind # "dir" /\ m.itab[i].kind # "none" /\ Apart(m.itab[i], Own(e))
    BY <1>1
  <1>4. PICK f \in GoodDisks :
              /\ Leads(e, update_inode(m, i), f)
              /\ f.imap = m.imap /\ f.bmap = e.bmap /\ f.itab = m.itab
              /\ f.blk = e.blk /\ Own(f) \subseteq Own(e)
    BY <1>2, <1>3, LeadsInode
  <1>5. Thins(d, f)
    <2>1. \A b, s : Ent(f, b, s) = Ent(e, b, s)
      BY <1>4 DEF Ent
    <2>2. \A j \in Inodes : /\ f.itab[j].kind = d.itab[j].kind
                            /\ d.itab[j].kind = "dir" => f.itab[j].direct[0] = d.itab[j].direct[0]
      BY <1>4 DEF Thins
    <2> QED BY <1>4, <2>1, <2>2 DEF Thins
  <1> QED BY <1>4, <1>5

\* What the n-th call of get_free_blk returns is in no use, when it returns a
\* block.
LEMMA NthFreeFacts ==
    ASSUME core \in Cores, NEW n \in Nat, n > 0
    PROVE  /\ n > Cardinality(FreeBlks) => NthFree(n) = ENOSPC
           /\ ~(n > Cardinality(FreeBlks)) => /\ NthFree(n) \in FreeBlks
                                              /\ Cardinality(FreeBlks \cap 0 .. NthFree(n)) = n
           /\ Cardinality(FreeBlks) \in Nat
  <1> DEFINE F == FreeBlks
             C(b) == Cardinality(F \cap 0 .. b)
             T == {b \in Blocks : n <= C(b)}
  <1>1. F \subseteq Blocks /\ IsFiniteSet(F) /\ Cardinality(F) \in Nat
    <2>1. IsFiniteSet(Blocks)
      BY Sizes, FS_Interval DEF Blocks
    <2> QED BY <2>1, FS_Subset, FS_CardinalityType DEF FreeBlks
  <1>2. ASSUME NEW b \in Nat PROVE C(b) \in Nat /\ IsFiniteSet(F \cap 0 .. b)
    BY <1>1, FS_Subset, FS_CardinalityType
  <1>3. CASE n > Cardinality(F)
    BY <1>1, <1>3 DEF NthFree
  <1>4. CASE ~(n > Cardinality(F))
    <2>1. NBlocks - 1 \in T
      <3>0. NBlocks - 1 \in Blocks /\ Blocks = 0 .. NBlocks - 1
        BY Sizes DEF Blocks
      <3>1. NBlocks - 1 \in Blocks /\ F \cap 0 .. NBlocks - 1 = F
        <4> HIDE DEF F
        <4> QED BY <1>1, <3>0
      <3>2. C(NBlocks - 1) = Cardinality(F)
        BY <3>1
      <3> HIDE DEF F, C
      <3> QED BY <1>1, <1>4, <3>1, <3>2
    <2>2. PICK b \in T : \A c \in T : b <= c
      <3>1. T # {} /\ T \subseteq Nat
        BY <2>1, Sizes
      <3> HIDE DEF T
      <3> QED BY <3>1, LeastNat
    <2>3. b \in Blocks /\ b \in Nat /\ n <= C(b)
      BY <2>2, Sizes
    <2>4. b > 0 => ~(n <= C(b - 1))
      <3>1. b > 0 => b - 1 \in Blocks /\ ~(b <= b - 1)
        BY <2>3, Sizes DEF Blocks
      <3> QED BY <3>1, <2>2
    <2>5. (b > 0 => C(b) <= C(b - 1) + 1) /\ (b \notin F /\ b > 0 => C(b) = C(b - 1))
      <3>1. CASE b > 0 /\ b \in F
        <4>1. F \cap 0 .. b = (F \cap 0 .. b - 1) \cup {b} /\ b \notin F \cap 0 .. b - 1
          BY <2>3, <3>1
        <4>2. IsFiniteSet(F \cap 0 .. b - 1) /\ C(b - 1) \in Nat
          BY <1>2, <2>3, <3>1
        <4>3. Cardinality((F \cap 0 .. b - 1) \cup {b}) = C(b - 1) + 1
          BY <4>1, <4>2, FS_AddElement
        <4> QED BY <4>1, <4>2, <4>3, <3>1
      <3>2. CASE b > 0 /\ b \notin F
        <4>1. F \cap 0 .. b = F \cap 0 .. b - 1
          BY <2>3, <3>2
        <4>2. C(b - 1) \in Nat
          BY <1>2, <2>3, <3>2
        <4>3. C(b) = C(b - 1)
          BY <4>1
        <4> HIDE DEF C, F
        <4> QED BY <4>2, <4>3, <3>2
      <3> QED BY <3>1, <3>2, <2>3
    <2>6. b = 0 => C(b) <= 1 /\ (b \notin F => C(b) = 0)
      <3>1. CASE 0 \in F
        <4>1. F \cap 0 .. 0 = {0}
          BY <3>1
        <4>2. C(0) = 1
          BY <4>1, FS_Singleton
        <4> HIDE DEF C, F
        <4> QED BY <4>2, <3>1
      <3>2. CASE 0 \notin F
        <4>1. F \cap 0 .. 0 = {}
          BY <3>2
        <4>2. C(0) = 0
          BY <4>1, FS_EmptySet
        <4> HIDE DEF C, F
        <4> QED BY <4>2, <3>2
      <3> QED BY <3>1, <3>2
    <2>7. C(b) = n
      <3>1. CASE b > 0
        <4>1. C(b - 1) \in Nat /\ C(b) \in Nat
          BY <1>2, <2>3, <3>1
        <4> HIDE DEF C
        <4> QED BY <2>3, <2>4, <2>5, <3>1, <4>1
      <3>2. CASE b = 0
        <4>1. C(b) \in Nat
          BY <1>2, <2>3
        <4> HIDE DEF C
        <4> QED BY <2>3, <2>6, <3>2, <4>1
      <3> QED BY <3>1, <3>2, <2>3
    <2>8. b \in F
      <3> SUFFICES ASSUME b \notin F PROVE FALSE
        OBVIOUS
      <3>1. CASE b > 0
        BY <2>3, <2>4, <2>5, <2>7, <3>1
      <3>2. CASE b = 0
        BY <2>6, <2>7, <3>2
      <3> QED BY <3>1, <3>2, <2>3
    <2>9. NthFree(n) = CHOOSE x \in FreeBlks : Cardinality(FreeBlks \cap 0 .. x) = n
      BY <1>4 DEF NthFree
    <2> QED BY <1>1, <1>4, <2>7, <2>8, <2>9
  <1> QED BY <1>1, <1>3, <1>4

\* The number of blocks on the way to block k.
Depth(k) == IF k < N_DIRECT THEN 1 ELSE IF k < MaxFile THEN 2 ELSE 3

LEMMA WayFacts ==
    ASSUME FsInv, Ready, NEW i \in Inodes, ~IsDir(i), NEW k \in 0 .. MaxFile
    PROVE  LET x == core.itab[i]
               y == Way(x, k)
           IN  /\ y \in [1 .. Depth(k) -> Blocks]
               /\ \A j \in 1 .. Depth(k) : y[j] \notin Own(disk)
               /\ y[1] = CASE k < N_DIRECT -> x.direct[k]
                           [] k \in N_DIRECT .. MaxFile - 1 -> x.indir_1
                           [] k = MaxFile -> x.indir_2
  <1> DEFINE x == core.itab[i]
             y == Way(x, k)
  <1>1. /\ disk \in Disks /\ Sound(disk) /\ core \in Cores /\ disk.itab = core.itab
        /\ disk.blk \in [Blocks -> BlockType] /\ 0 \notin Own(disk)
    BY ReadyFacts, DiskFields
  <1>2. x \in InodeType /\ Apart(x, Own(disk)) /\ x.kind # "dir"
    BY <1>1 DEF Cores, Sound, SoundApart, IsDir
  <1>3. ASSUME NEW b \in Blocks, NEW p \in 0 .. Pointers - 1
        PROVE  Pointer(b, p) \in Blocks /\ Pointer(b, p) \notin Own(disk)
    BY <1>1, Sizes DEF Pointer, BlockType, Sound, SoundApart, PtrsApart
  <1>4. /\ x.indir_1 \in Blocks /\ x.indir_2 \in Blocks
        /\ x.indir_1 \notin Own(disk) /\ x.indir_2 \notin Own(disk)
    BY <1>2 DEF InodeType, Apart
  <1>5. /\ k \in Int /\ N_DIRECT \in Nat /\ MaxFile \in Nat /\ MaxFile = N_DIRECT + Pointers
        /\ Pointers \in Nat /\ 0 \in 0 .. Pointers - 1
    BY Sizes
  <1> HIDE DEF x, MaxFile
  <1>6. CASE k < N_DIRECT
    <2>1. y = <<x.direct[k]>> /\ Depth(k) = 1
      BY <1>5, <1>6 DEF Way, Depth
    <2>2. k \in 0 .. N_DIRECT - 1 /\ (k = 0 \/ k \in 1 .. N_DIRECT - 1)
      BY <1>5, <1>6
    <2>3. x.direct[k] \in Blocks /\ x.direct[k] \notin Own(disk)
      BY <1>2, <2>2 DEF InodeType, Apart
    <2> HIDE DEF y
    <2> QED BY <1>5, <1>6, <2>1, <2>3 DEF y, x
  <1>7. CASE k \in N_DIRECT .. MaxFile - 1
    <2>1. /\ y = <<x.indir_1, Pointer(x.indir_1, Slot(k))>> /\ Depth(k) = 2
          /\ ~(k < N_DIRECT)
      BY <1>5, <1>7 DEF Way, Depth
    <2>2. Slot(k) \in 0 .. Pointers - 1
      BY <1>5, <1>7 DEF Slot
    <2>3. Pointer(x.indir_1, Slot(k)) \in Blocks /\ Pointer(x.indir_1, Slot(k)) \notin Own(disk)
      BY <1>3, <1>4, <2>2
    <2> HIDE DEF y
    <2> QED BY <1>4, <1>7, <2>1, <2>3 DEF y, x
  <1>8. CASE k = MaxFile
    <2> DEFINE z == Pointer(x.indir_2, 0)
    <2>1. /\ y = <<x.indir_2, z, Pointer(z, 0)>> /\ Depth(k) = 3
          /\ ~(k < N_DIRECT) /\ ~(k \in N_DIRECT .. MaxFile - 1)
      BY <1>5, <1>8 DEF Way, Depth
    <2>2. z \in Blocks /\ z \notin Own(disk)
      BY <1>3, <1>4, <1>5
    <2> HIDE DEF z, y
    <2>3. Pointer(z, 0) \in Blocks /\ Pointer(z, 0) \notin Own(disk)
      BY <1>3, <1>5, <2>2
    <2> QED BY <1>4, <1>8, <2>1, <2>2, <2>3 DEF y, x
  <1> QED BY <1>5, <1>6, <1>7, <1>8

\* A way with what is missing allocated.
LEMMA CompletedFacts ==
    ASSUME FsInv, Ready, NEW n \in Nat, NEW y \in [1 .. n -> Blocks],
           \A j \in 1 .. n : y[j] \notin Own(disk)
    PROVE  LET z == Completed(y)
           IN  /\ z \in [1 .. n -> Blocks \cup {ENOSPC}]
               /\ \A j \in 1 .. n : z[j] \notin Own(disk)
               /\ \A j \in 1 .. n : y[j] # 0 => z[j] = y[j] /\ z[j] # ENOSPC
               /\ \A j \in 1 .. n : y[j] = 0 /\ z[j] # ENOSPC =>
                     \A l \in 1 .. j : z[l] # ENOSPC
  <1> DEFINE z == Completed(y)
             M(j) == {m \in 1 .. j : y[m] = 0}
  <1>1. /\ disk \in Disks /\ core \in Cores /\ Own(disk) \subseteq core.bmap
        /\ Own(disk) \subseteq Blocks
    BY ReadyFacts, DiskFields
  <1>2. z = [j \in 1 .. n |-> IF y[j] # 0 THEN y[j] ELSE NthFree(Cardinality(M(j)))]
    BY DEF Completed
  <1>3. ASSUME NEW j \in 1 .. n
        PROVE  IsFiniteSet(M(j)) /\ Cardinality(M(j)) \in Nat
    <2>1. IsFiniteSet(1 .. j) /\ M(j) \subseteq 1 .. j
      BY FS_Interval
    <2> QED BY <2>1, FS_Subset, FS_CardinalityType
  <1>4. ASSUME NEW j \in 1 .. n, y[j] = 0
        PROVE  Cardinality(M(j)) > 0
    <2>1. M(j) # {}
      BY <1>4
    <2> HIDE DEF M
    <2> QED BY <1>3, <2>1, FS_EmptySet
  <1>5. ASSUME NEW j \in 1 .. n, NEW l \in 1 .. j
        PROVE  Cardinality(M(l)) <= Cardinality(M(j))
    <2>1. M(l) \subseteq M(j)
      OBVIOUS
    <2> HIDE DEF M
    <2> QED BY <1>3, <2>1, FS_Subset
  <1>6. ASSUME NEW m \in Nat, m > 0
        PROVE  NthFree(m) \in FreeBlks \/ NthFree(m) = ENOSPC
    BY <1>1, <1>6, NthFreeFacts
  <1>7. FreeBlks \subseteq Blocks /\ FreeBlks \cap Own(disk) = {}
    BY <1>1 DEF FreeBlks
  <1>8. ENOSPC \notin Blocks
    BY Sizes DEF ENOSPC, Blocks
  <1> HIDE DEF z, M
  <1>9. ASSUME NEW j \in 1 .. n
        PROVE  /\ z[j] \in Blocks \cup {ENOSPC} /\ z[j] \notin Own(disk)
               /\ y[j] # 0 => z[j] = y[j] /\ z[j] # ENOSPC
    <2>1. CASE y[j] # 0
      BY <1>2, <1>8, <2>1
    <2>2. CASE y[j] = 0
      <3>1. z[j] = NthFree(Cardinality(M(j)))
        BY <1>2, <2>2
      <3>2. z[j] \in FreeBlks \/ z[j] = ENOSPC
        BY <1>3, <1>4, <1>6, <2>2, <3>1
      <3> QED BY <1>1, <1>7, <1>8, <2>2, <3>2
    <2> QED BY <2>1, <2>2
  <1>10. ASSUME NEW j \in 1 .. n, NEW l \in 1 .. j, y[j] = 0, z[l] = ENOSPC
         PROVE  z[j] = ENOSPC
    <2>1. y[l] = 0 /\ l \in 1 .. n
      BY <1>9, <1>10
    <2>2. z[j] = NthFree(Cardinality(M(j))) /\ z[l] = NthFree(Cardinality(M(l)))
      BY <1>2, <1>10, <2>1
    <2>3. Cardinality(M(l)) > Cardinality(FreeBlks) /\ Cardinality(FreeBlks) \in Nat
      BY <1>1, <1>3, <1>4, <1>7, <1>8, <1>10, <2>1, <2>2, NthFreeFacts
    <2>4. Cardinality(M(j)) > Cardinality(FreeBlks) /\ Cardinality(M(j)) > 0
      BY <1>3, <1>5, <2>1, <2>3
    <2> QED BY <1>1, <1>3, <2>2, <2>4, NthFreeFacts
  <1>11. z \in [1 .. n -> Blocks \cup {ENOSPC}]
    BY <1>2, <1>9
  <1> QED BY <1>9, <1>10, <1>11 DEF z

LEMMA WaysFacts ==
    ASSUME FsInv, Ready, NEW i \in Inodes, ~IsDir(i), NEW k \in 0 .. MaxFile,
           NEW w \in Ways(i, k)
    PROVE  /\ w.found \in [1 .. Depth(k) -> Blocks]
           /\ w.made \in [1 .. Depth(k) -> Blocks \cup {ENOSPC}]
           /\ \A j \in 1 .. Depth(k) : /\ w.made[j] \notin Own(disk)
                                       /\ w.found[j] # 0 => w.made[j] = w.found[j]
                                       /\ w.found[j] # 0 => w.made[j] # ENOSPC
           /\ \A j \in 1 .. Depth(k) : w.found[j] = 0 /\ w.made[j] # ENOSPC =>
                 \A l \in 1 .. j : w.made[l] # ENOSPC
           /\ w.found[1] = CASE k < N_DIRECT -> core.itab[i].direct[k]
                             [] k \in N_DIRECT .. MaxFile - 1 -> core.itab[i].indir_1
                             [] k = MaxFile -> core.itab[i].indir_2
           /\ Depth(k) \in 1 .. 3 /\ Len(w.made) = Depth(k) /\ Last(w.made) = w.made[Depth(k)]
           /\ New(w) = {j \in 1 .. Depth(k) : w.found[j] = 0 /\ w.made[j] # ENOSPC}
  <1> DEFINE y == Way(core.itab[i], k)
             n == Depth(k)
  <1>1. w = [found |-> y, made |-> Completed(y)]
    BY DEF Ways
  <1>2. n \in 1 .. 3 /\ n \in Nat
    BY DEF Depth
  <1>3. /\ y \in [1 .. n -> Blocks] /\ \A j \in 1 .. n : y[j] \notin Own(disk)
        /\ y[1] = CASE k < N_DIRECT -> core.itab[i].direct[k]
                    [] k \in N_DIRECT .. MaxFile - 1 -> core.itab[i].indir_1
                    [] k = MaxFile -> core.itab[i].indir_2
    BY WayFacts
  <1> DEFINE z == Completed(y)
  <1> HIDE DEF y, n
  <1>4. /\ z \in [1 .. n -> Blocks \cup {ENOSPC}]
        /\ \A j \in 1 .. n : z[j] \notin Own(disk)
        /\ \A j \in 1 .. n : y[j] # 0 => z[j] = y[j] /\ z[j] # ENOSPC
        /\ \A j \in 1 .. n : y[j] = 0 /\ z[j] # ENOSPC => \A l \in 1 .. j : z[l] # ENOSPC
    BY <1>2, <1>3, CompletedFacts
  <1> HIDE DEF z
  <1>5. w.found = y /\ w.made = z
    BY <1>1 DEF z
  <1>6. Len(z) = n /\ Last(z) = z[n] /\ DOMAIN z = 1 .. n
    BY <1>2, <1>4 DEF Last
  <1>7. New(w) = {j \in 1 .. n : w.found[j] = 0 /\ w.made[j] # ENOSPC}
    BY <1>5, <1>6 DEF New
  <1> QED BY <1>2, <1>3, <1>4, <1>5, <1>6, <1>7 DEF n

\* The core after the allocation: only the inode and the map of blocks change.
LEMMA WithFacts ==
    ASSUME FsInv, Ready, NEW i \in Inodes, ~IsDir(i), NEW k \in 0 .. MaxFile,
           NEW w \in Ways(i, k)
    PROVE  LET m == With(i, k, w)
           IN  /\ m \in Cores /\ m.imap = core.imap /\ core.bmap \subseteq m.bmap
               /\ \A j \in Inodes : j # i => m.itab[j] = core.itab[j]
               /\ m.itab[i].kind = core.itab[i].kind /\ m.itab[i].size = core.itab[i].size
               /\ Apart(m.itab[i], Own(disk))
               /\ 1 \notin New(w) => m.itab = core.itab
  <1> DEFINE m == With(i, k, w)
             x == core.itab[i]
             b == IF w.made[1] = ENOSPC THEN 0 ELSE w.made[1]
             y == CASE k < N_DIRECT -> [x EXCEPT !.direct[k] = b]
                    [] k \in N_DIRECT .. MaxFile - 1 -> [x EXCEPT !.indir_1 = b]
                    [] k = MaxFile -> [x EXCEPT !.indir_2 = b]
  <1>1. /\ disk \in Disks /\ Sound(disk) /\ core \in Cores /\ disk.itab = core.itab
        /\ 0 \notin Own(disk)
    BY ReadyFacts, DiskFields
  <1>2. core.itab \in [Inodes -> InodeType] /\ x \in InodeType /\ Apart(x, Own(disk)) /\ x.kind # "dir"
    BY <1>1 DEF Cores, Sound, SoundApart, IsDir
  <1>3. /\ 1 \in 1 .. Depth(k)
        /\ w.made \in [1 .. Depth(k) -> Blocks \cup {ENOSPC}]
        /\ w.made[1] \notin Own(disk)
        /\ w.found[1] # 0 => w.made[1] = w.found[1] /\ w.made[1] # ENOSPC
        /\ New(w) = {j \in 1 .. Depth(k) : w.found[j] = 0 /\ w.made[j] # ENOSPC}
    BY WaysFacts
  <1>4. w.found[1] = CASE k < N_DIRECT -> x.direct[k]
                       [] k \in N_DIRECT .. MaxFile - 1 -> x.indir_1
                       [] k = MaxFile -> x.indir_2
    BY WaysFacts, ZenonT(40)
  <1>5. b \in Blocks /\ b \notin Own(disk) /\ (1 \notin New(w) => b = w.found[1])
    BY <1>1, <1>3, Sizes
  <1>6. m = [core EXCEPT !.bmap = @ \cup {w.made[j] : j \in New(w)},
                         !.itab = [@ EXCEPT ![i] = y]]
    BY DEF With
  <1>7. /\ k \in Int /\ 0 <= k /\ k <= MaxFile /\ N_DIRECT \in Nat /\ MaxFile \in Nat
        /\ MaxFile = N_DIRECT + Pointers /\ Pointers \in Nat /\ Pointers > 0
    BY Sizes
  <1> HIDE DEF m, b, x, MaxFile
  <1>8. /\ y \in InodeType /\ y.kind = x.kind /\ y.size = x.size /\ Apart(y, Own(disk))
        /\ 1 \notin New(w) => y = x
    <2>0. /\ x.direct \in [0 .. N_DIRECT - 1 -> Blocks] /\ x.indir_1 \in Blocks
          /\ x.indir_2 \in Blocks
      BY <1>2 DEF InodeType
    <2>1. CASE k < N_DIRECT
      <3> DEFINE g == [x.direct EXCEPT ![k] = b]
      <3>5. /\ k \in 0 .. N_DIRECT - 1 /\ k < N_DIRECT
            /\ ~(k \in N_DIRECT .. MaxFile - 1) /\ k # MaxFile
        BY <1>7, <2>1
      <3>6. w.found[1] = x.direct[k]
        BY <1>4, <3>5
      <3>7. y = [x EXCEPT !.direct[k] = b]
        BY <3>5
      <3>1. y = [x EXCEPT !.direct = g] /\ w.found[1] = x.direct[k] /\ k \in 0 .. N_DIRECT - 1
        <4> HIDE DEF y
        <4> QED BY <3>5, <3>6, <3>7
      <3>2. /\ g \in [0 .. N_DIRECT - 1 -> Blocks]
            /\ \A j \in 0 .. N_DIRECT - 1 : g[j] = IF j = k THEN b ELSE x.direct[j]
            /\ b = x.direct[k] => g = x.direct
        BY <1>5, <2>0, <3>1
      <3> HIDE DEF y, g
      <3>3. /\ y \in InodeType /\ y.kind = x.kind /\ y.size = x.size /\ y.direct = g
            /\ y.indir_1 = x.indir_1 /\ y.indir_2 = x.indir_2
            /\ g = x.direct => y = x
        BY <1>2, <3>1, <3>2 DEF InodeType
      <3>4. Apart(y, Own(disk))
        <4>1. \A j \in 1 .. N_DIRECT - 1 : j \in 0 .. N_DIRECT - 1
          BY <1>7
        <4>2. 0 \in 0 .. N_DIRECT - 1
          BY Sizes
        <4> QED BY <1>2, <1>5, <3>2, <3>3, <4>1, <4>2 DEF Apart
      <3> QED BY <1>5, <3>1, <3>2, <3>3, <3>4
    <2>2. CASE k \in N_DIRECT .. MaxFile - 1
      <3>1. y = [x EXCEPT !.indir_1 = b] /\ w.found[1] = x.indir_1
        BY <1>4, <1>7, <2>2
      <3> HIDE DEF y
      <3>2. /\ y \in InodeType /\ y.kind = x.kind /\ y.size = x.size /\ y.direct = x.direct
            /\ y.indir_1 = b /\ y.indir_2 = x.indir_2 /\ (b = x.indir_1 => y = x)
        BY <1>2, <1>5, <3>1 DEF InodeType
      <3> QED BY <1>2, <1>5, <3>1, <3>2 DEF Apart
    <2>3. CASE k = MaxFile
      <3>1. y = [x EXCEPT !.indir_2 = b] /\ w.found[1] = x.indir_2
        BY <1>4, <1>7, <2>3
      <3> HIDE DEF y
      <3>2. /\ y \in InodeType /\ y.kind = x.kind /\ y.size = x.size /\ y.direct = x.direct
            /\ y.indir_1 = x.indir_1 /\ y.indir_2 = b /\ (b = x.indir_2 => y = x)
        BY <1>2, <1>5, <3>1 DEF InodeType
      <3> QED BY <1>2, <1>5, <3>1, <3>2 DEF Apart
    <2> QED BY <1>7, <2>1, <2>2, <2>3
  <1> HIDE DEF y
  <1>9. {w.made[j] : j \in New(w)} \subseteq Blocks
    BY <1>3
  <1>10. /\ m \in Cores /\ m.imap = core.imap /\ core.bmap \subseteq m.bmap
         /\ m.itab = [core.itab EXCEPT ![i] = y]
    BY <1>1, <1>2, <1>6, <1>8, <1>9 DEF Cores
  <1>11. /\ m.itab[i] = y /\ \A j \in Inodes : j # i => m.itab[j] = core.itab[j]
         /\ y = x => m.itab = core.itab
    BY <1>2, <1>10 DEF x
  <1> QED BY <1>8, <1>10, <1>11 DEF m, x

\* One block on the way is allocated, zeroed and named by what comes before.
LEMMA AllocBlkLeads ==
    ASSUME FsInv, Ready, NEW i \in Inodes, ~IsDir(i), core.itab[i].kind # "none",
           NEW k \in 0 .. MaxFile, NEW w \in Ways(i, k), NEW j \in 1 .. 3,
           NEW e \in GoodDisks, Thins(disk, e), e.imap \subseteq core.imap,
           e.itab = core.itab \/ e.itab = With(i, k, w).itab
    PROVE  \E f \in GoodDisks :
              /\ Leads(e, AllocBlk(i, k, w, j), f)
              /\ Thins(disk, f) /\ f.imap \subseteq core.imap
              /\ f.itab = e.itab \/ f.itab = With(i, k, w).itab
              /\ j = 1 /\ 1 \in New(w) => f.itab = With(i, k, w).itab
  <1> DEFINE m == With(i, k, w)
             n == Depth(k)
  <1>1. /\ disk \in GoodDisks /\ disk \in Disks /\ Sound(disk) /\ core \in Cores
        /\ disk.itab = core.itab /\ disk.imap \subseteq core.imap
        /\ disk.blk \in [Blocks -> BlockType] /\ 0 \notin Own(disk)
    BY ReadyFacts, DiskFields
  <1>2. /\ n \in 1 .. 3 /\ w.found \in [1 .. n -> Blocks]
        /\ w.made \in [1 .. n -> Blocks \cup {ENOSPC}]
        /\ \A l \in 1 .. n : w.made[l] \notin Own(disk)
        /\ \A l \in 1 .. n : w.found[l] # 0 => w.made[l] = w.found[l]
        /\ \A l \in 1 .. n : w.found[l] = 0 /\ w.made[l] # ENOSPC =>
              \A h \in 1 .. l : w.made[h] # ENOSPC
        /\ New(w) = {l \in 1 .. n : w.found[l] = 0 /\ w.made[l] # ENOSPC}
    BY WaysFacts
  <1>3. /\ m \in Cores /\ m.imap = core.imap
        /\ \A l \in Inodes : l # i => m.itab[l] = core.itab[l]
        /\ m.itab[i].kind = core.itab[i].kind /\ Apart(m.itab[i], Own(disk))
    BY WithFacts
  <1> HIDE DEF m, n
  <1>4. CASE j \notin New(w)
    <2>1. AllocBlk(i, k, w, j) = <<>>
      BY <1>4 DEF AllocBlk
    <2> QED BY <1>4, <2>1, LeadsNone
  <1>5. CASE j \in New(w)
    <2>1. j \in 1 .. n /\ w.made[j] \in Blocks /\ \A h \in 1 .. j : w.made[h] \in Blocks
      BY <1>2, <1>5
    <2>2. PICK c \in GoodDisks :
              /\ Leads(e, <<BlkWrite(w.made[j], Zeroes)>>, c)
              /\ Thins(disk, c) /\ c.imap = e.imap /\ c.itab = e.itab
      <3>1. PtrsApart(Zeroes, Own(disk))
        BY <1>1, EmptyTypes DEF PtrsApart
      <3> QED BY <1>1, <2>1, <3>1, EmptyTypes, ThinBlock
    <2>3. AllocBlk(i, k, w, j) = <<BlkWrite(w.made[j], Zeroes)>> \o Store(i, k, w, j)
      BY <1>5 DEF AllocBlk
    <2>4. CASE j = 1
      <3>1. Store(i, k, w, j) = update_inode(m, i)
        BY <2>4 DEF Store, m
      <3>2. PICK f \in GoodDisks :
                /\ Leads(c, update_inode(m, i), f)
                /\ Thins(disk, f) /\ f.imap = m.imap /\ f.itab = m.itab
        <4>1. \A l \in Inodes : l # i => c.itab[l] = m.itab[l]
          BY <1>3, <2>2 DEF m
        <4>2. disk.itab[i].kind \notin {"dir", "none"}
          BY <1>1 DEF IsDir
        <4> QED BY <1>1, <1>3, <2>2, <4>1, <4>2, ThinInode
      <3>3. Leads(e, AllocBlk(i, k, w, j), f)
        BY <2>2, <2>3, <3>1, <3>2, LeadsThen
      <3> QED BY <1>3, <3>2, <3>3 DEF m
    <2>5. CASE j # 1
      <3> DEFINE b == w.made[j - 1]
                 old == Content(w, j - 1)
                 v == [old EXCEPT !.ptrs[Slot(k)] = w.made[j]]
      <3>1. j - 1 \in 1 .. j /\ j - 1 \in 1 .. n /\ b \in Blocks
        <4>1. n \in 1 .. 3 /\ j \in 1 .. n
          BY <1>2, <2>1
        <4>2. j - 1 \in 1 .. j /\ j - 1 \in 1 .. n
          BY <4>1, <2>5
        <4> QED BY <2>1, <4>2
      <3>2. Store(i, k, w, j) = <<BlkWrite(b, v)>>
        BY <2>5 DEF Store
      <3>3. /\ old \in BlockType /\ PtrsApart(old, Own(disk))
            /\ \A s \in 1 .. Entries : old.ents[s] = NoEntry \/ old.ents[s] = Ent(disk, b, s)
        <4>1. CASE w.found[j - 1] = 0
          BY <1>1, <4>1, EmptyTypes DEF Content, PtrsApart
        <4>2. CASE w.found[j - 1] # 0
          BY <1>1, <3>1, <4>2 DEF Content, Ent, Sound, SoundApart
        <4> QED BY <4>1, <4>2
      <3> HIDE DEF old, b
      <3>4. /\ v \in BlockType /\ v.ents = old.ents
            /\ PtrsApart(v, Own(disk))
        <4>1. w.made[j] \in Blocks /\ w.made[j] \notin Own(disk)
          BY <1>2, <2>1
        <4> DEFINE g == [old.ptrs EXCEPT ![Slot(k)] = w.made[j]]
        <4>2. /\ g \in [0 .. Pointers - 1 -> Blocks]
              /\ \A p \in 0 .. Pointers - 1 : g[p] \notin Own(disk)
          BY <3>3, <4>1 DEF BlockType, PtrsApart
        <4>3. v = [old EXCEPT !.ptrs = g]
          OBVIOUS
        <4> HIDE DEF v, g
        <4> QED BY <3>3, <4>2, <4>3 DEF BlockType, PtrsApart
      <3> HIDE DEF v
      <3>5. PICK f \in GoodDisks :
                /\ Leads(c, <<BlkWrite(b, v)>>, f)
                /\ Thins(disk, f) /\ f.imap = c.imap /\ f.itab = c.itab
        BY <1>1, <2>2, <3>1, <3>3, <3>4, ThinBlock
      <3>6. Leads(e, AllocBlk(i, k, w, j), f)
        BY <2>2, <2>3, <3>2, <3>5, LeadsThen
      <3> QED BY <2>2, <2>5, <3>5, <3>6
    <2> QED BY <2>4, <2>5
  <1> QED BY <1>4, <1>5

LEMMA AllocLeads ==
    ASSUME FsInv, Ready, NEW i \in Inodes, ~IsDir(i), core.itab[i].kind # "none",
           NEW k \in 0 .. MaxFile, NEW w \in Ways(i, k)
    PROVE  \E f \in GoodDisks :
              /\ Leads(disk, AllocWrites(i, k, w), f)
              /\ Thins(disk, f) /\ f.imap \subseteq core.imap
              /\ f.itab = With(i, k, w).itab
  <1>1. /\ disk \in GoodDisks /\ disk.itab = core.itab /\ disk.imap \subseteq core.imap
        /\ Thins(disk, disk)
    BY ReadyFacts, ThinsItself
  <1>2. PICK c \in GoodDisks :
              /\ Leads(disk, AllocBlk(i, k, w, 1), c)
              /\ Thins(disk, c) /\ c.imap \subseteq core.imap
              /\ c.itab = core.itab \/ c.itab = With(i, k, w).itab
              /\ 1 \in New(w) => c.itab = With(i, k, w).itab
    <2>1. 1 \in 1 .. 3
      OBVIOUS
    <2> QED BY <1>1, <2>1, AllocBlkLeads
  <1>3. c.itab = With(i, k, w).itab
    BY <1>2, WithFacts
  <1>4. PICK e \in GoodDisks :
              /\ Leads(c, AllocBlk(i, k, w, 2), e)
              /\ Thins(disk, e) /\ e.imap \subseteq core.imap
              /\ e.itab = With(i, k, w).itab
    <2>1. 2 \in 1 .. 3
      OBVIOUS
    <2> QED BY <1>2, <1>3, <2>1, AllocBlkLeads
  <1>5. PICK f \in GoodDisks :
              /\ Leads(e, AllocBlk(i, k, w, 3), f)
              /\ Thins(disk, f) /\ f.imap \subseteq core.imap
              /\ f.itab = With(i, k, w).itab
    <2>1. 3 \in 1 .. 3
      OBVIOUS
    <2> QED BY <1>4, <2>1, AllocBlkLeads
  <1>6. Leads(disk, AllocBlk(i, k, w, 1) \o AllocBlk(i, k, w, 2), e)
    BY <1>2, <1>4, LeadsThen
  <1>7. Leads(disk, AllocWrites(i, k, w), f)
    BY <1>5, <1>6, LeadsThen DEF AllocWrites
  <1> QED BY <1>5, <1>7

LEMMA NoSpaceReaches ==
    ASSUME FsInv, Ready, NEW i \in Inodes, ~IsDir(i), core.itab[i].kind # "none",
           NEW k \in 0 .. MaxFile, NEW w \in Ways(i, k)
    PROVE  Reaches(With(i, k, w), AllocWrites(i, k, w))
  <1>1. Own(disk) \subseteq core.bmap
    BY ReadyFacts
  <1>2. PICK f \in GoodDisks :
              /\ Leads(disk, AllocWrites(i, k, w), f)
              /\ Thins(disk, f) /\ f.imap \subseteq core.imap
              /\ f.itab = With(i, k, w).itab
    BY AllocLeads
  <1>3. Own(f) = Own(disk)
    BY <1>2, ThinsOwn
  <1>4. /\ With(i, k, w) \in Cores /\ With(i, k, w).imap = core.imap
        /\ core.bmap \subseteq With(i, k, w).bmap
    BY WithFacts
  <1> QED BY <1>1, <1>2, <1>3, <1>4 DEF Reaches, Final

\* After the blocks, the inode and the map of blocks are written back.
LEMMA WriteBackLeads ==
    ASSUME FsInv, Ready, NEW i \in Inodes, ~IsDir(i), core.itab[i].kind # "none",
           NEW m \in Cores, m.imap = core.imap, core.bmap \subseteq m.bmap,
           \A j \in Inodes : j # i => m.itab[j] = core.itab[j],
           m.itab[i].kind = core.itab[i].kind, Apart(m.itab[i], Own(disk)),
           NEW e \in GoodDisks, Thins(disk, e),
           \A j \in Inodes : j # i => e.itab[j] = core.itab[j]
    PROVE  \E f \in GoodDisks :
              Leads(e, update_inode(m, i) \o update_blk(m), f) /\ Final(m, f)
  <1>1. /\ disk \in GoodDisks /\ disk.itab = core.itab /\ disk.imap \subseteq core.imap
        /\ Own(disk) \subseteq core.bmap
    BY ReadyFacts
  <1>2. PICK c \in GoodDisks :
              /\ Leads(e, update_inode(m, i), c)
              /\ Thins(disk, c) /\ c.imap = m.imap /\ c.itab = m.itab
    <2>1. /\ \A j \in Inodes : j # i => e.itab[j] = m.itab[j]
          /\ disk.itab[i].kind \notin {"dir", "none"}
          /\ m.itab[i].kind = disk.itab[i].kind /\ disk.imap \subseteq m.imap
      BY <1>1 DEF IsDir
    <2> QED BY <1>1, <2>1, ThinInode
  <1>3. Own(c) \subseteq m.bmap
    BY <1>1, <1>2, ThinsOwn
  <1>4. PICK f \in GoodDisks :
            /\ Leads(c, update_blk(m), f)
            /\ f.imap = c.imap /\ f.bmap = m.bmap /\ f.itab = c.itab
            /\ f.blk = c.blk /\ Own(f) = Own(c)
    BY <1>3, LeadsMap
  <1> QED BY <1>2, <1>3, <1>4, LeadsThen DEF Final

LEMMA LostReaches ==
    ASSUME FsInv, Ready, NEW i \in Inodes, ~IsDir(i), core.itab[i].kind # "none",
           NEW k \in 0 .. MaxFile, NEW w \in Ways(i, k)
    PROVE  LET m == With(i, k, w)
           IN  Reaches(m, AllocWrites(i, k, w) \o update_inode(m, i) \o update_blk(m))
  <1> DEFINE m == With(i, k, w)
             a == AllocWrites(i, k, w)
             u == update_inode(m, i)
             v == update_blk(m)
  <1>1. PICK e \in GoodDisks :
              /\ Leads(disk, a, e)
              /\ Thins(disk, e) /\ e.imap \subseteq core.imap /\ e.itab = m.itab
    BY AllocLeads
  <1>2. /\ m \in Cores /\ m.imap = core.imap /\ core.bmap \subseteq m.bmap
        /\ \A j \in Inodes : j # i => m.itab[j] = core.itab[j]
        /\ m.itab[i].kind = core.itab[i].kind /\ Apart(m.itab[i], Own(disk))
    BY WithFacts
  <1>3. a \in Seq(Writes) /\ u \in Seq(Writes) /\ v \in Seq(Writes)
    BY <1>1, <1>2, LeadsEnds, UpdateTypes
  <1> HIDE DEF m
  <1>4. PICK f \in GoodDisks : Leads(e, u \o v, f) /\ Final(m, f)
    BY <1>1, <1>2, WriteBackLeads
  <1> HIDE DEF a, u, v
  <1>5. Leads(disk, a \o (u \o v), f)
    BY <1>1, <1>4, LeadsThen
  <1>6. a \o (u \o v) = (a \o u) \o v
    BY <1>3
  <1>7. Reaches(m, (a \o u) \o v)
    BY <1>2, <1>4, <1>5, <1>6 DEF Reaches
  <1> QED BY <1>7 DEF m, a, u, v

LEMMA FilledType ==
    ASSUME NEW old \in [1 .. BLOCK_SIZE -> Units \cup {0}], NEW d \in Seq(Units),
           Len(d) <= BLOCK_SIZE
    PROVE  d \o SubSeq(old, Len(d) + 1, BLOCK_SIZE) \in [1 .. BLOCK_SIZE -> Units \cup {0}]
  <1> DEFINE n == Len(d)
             r == SubSeq(old, n + 1, BLOCK_SIZE)
             z == d \o r
  <1>1. n \in Nat /\ BLOCK_SIZE \in Nat /\ n <= BLOCK_SIZE
    BY Sizes
  <1>2. r = [j \in 1 .. BLOCK_SIZE - n |-> old[n + j]]
    BY <1>1, SubSeqProperties
  <1>3. r \in Seq(Units \cup {0}) /\ Len(r) = BLOCK_SIZE - n
    BY <1>1, <1>2
  <1> HIDE DEF r, n
  <1>4. d \in Seq(Units \cup {0}) /\ Len(d) = n
    BY DEF n
  <1>5. z \in Seq(Units \cup {0}) /\ Len(z) = BLOCK_SIZE
    BY <1>1, <1>3, <1>4
  <1> HIDE DEF z
  <1>6. z \in [1 .. BLOCK_SIZE -> Units \cup {0}]
    BY <1>5
  <1> QED BY <1>6 DEF z, r, n

\* A block that is written at an offset a file can have ends within the file.
LEMMA EndWithin ==
    ASSUME NEW k \in 0 .. MaxFile, NEW n \in Nat, n <= BLOCK_SIZE
    PROVE  k * BLOCK_SIZE + (IF k < MaxFile THEN n ELSE 0) \in 0 .. MaxFile * BLOCK_SIZE
  <1> DEFINE a == k * BLOCK_SIZE
  <1>1. MaxFile \in Nat /\ BLOCK_SIZE \in Nat /\ k \in Nat /\ a \in Nat /\ MaxFile * BLOCK_SIZE \in Nat
    BY Sizes
  <1>2. CASE k < MaxFile
    <2> DEFINE r == MaxFile - (k + 1)
    <2>1. r \in Nat /\ MaxFile = k + 1 + r
      BY <1>1, <1>2
    <2> HIDE DEF r, MaxFile
    <2>2. r * BLOCK_SIZE \in Nat
      BY <1>1, <2>1
    <2>3. MaxFile * BLOCK_SIZE = a + BLOCK_SIZE + r * BLOCK_SIZE
      BY <1>1, <2>1
    <2> HIDE DEF a
    <2>4. a + n \in 0 .. MaxFile * BLOCK_SIZE
      BY <1>1, <2>2, <2>3
    <2> QED BY <1>2, <2>4 DEF a
  <1>3. CASE ~(k < MaxFile)
    <2>1. k = MaxFile
      BY <1>1, <1>3
    <2>2. a \in 0 .. MaxFile * BLOCK_SIZE
      BY <1>1, <2>1
    <2> HIDE DEF MaxFile, a
    <2>3. a + 0 \in 0 .. MaxFile * BLOCK_SIZE
      BY <1>1, <2>2
    <2> QED BY <1>3, <2>3 DEF a
  <1> QED BY <1>2, <1>3

LEMMA GrownInode ==
    ASSUME NEW x \in InodeType, NEW end \in 0 .. MaxFile * BLOCK_SIZE
    PROVE  LET y == Grown(x, end)
           IN  /\ y \in InodeType /\ y.kind = x.kind /\ y.direct = x.direct
               /\ y.indir_1 = x.indir_1 /\ y.indir_2 = x.indir_2
  <1> DEFINE n == IF end > x.size THEN end ELSE x.size
             y == [x EXCEPT !.size = n]
  <1>1. n \in 0 .. MaxFile * BLOCK_SIZE
    BY DEF InodeType
  <1>2. Grown(x, end) = y
    BY DEF Grown
  <1> HIDE DEF n
  <1>3. /\ y \in InodeType /\ y.kind = x.kind /\ y.direct = x.direct
        /\ y.indir_1 = x.indir_1 /\ y.indir_2 = x.indir_2
    BY <1>1 DEF InodeType
  <1> QED BY <1>2, <1>3

\* The inode in memory after fs_write.
LEMMA GrownCore ==
    ASSUME FsInv, Ready, NEW i \in Inodes, ~IsDir(i), NEW k \in 0 .. MaxFile,
           NEW w \in Ways(i, k), NEW d \in Seq(Units), Len(d) <= BLOCK_SIZE
    PROVE  LET end == k * BLOCK_SIZE + (IF k < MaxFile THEN Len(d) ELSE 0)
               m == [With(i, k, w) EXCEPT !.itab[i] = Grown(@, end)]
           IN  /\ m \in Cores /\ m.imap = core.imap /\ core.bmap \subseteq m.bmap
               /\ \A j \in Inodes : j # i => m.itab[j] = core.itab[j]
               /\ m.itab[i].kind = core.itab[i].kind /\ Apart(m.itab[i], Own(disk))
  <1> DEFINE end == k * BLOCK_SIZE + (IF k < MaxFile THEN Len(d) ELSE 0)
             p == With(i, k, w)
             m == [p EXCEPT !.itab[i] = Grown(@, end)]
             y == Grown(p.itab[i], end)
  <1>1. /\ p \in Cores /\ p.imap = core.imap /\ core.bmap \subseteq p.bmap
        /\ \A j \in Inodes : j # i => p.itab[j] = core.itab[j]
        /\ p.itab[i].kind = core.itab[i].kind /\ Apart(p.itab[i], Own(disk))
    BY WithFacts
  <1>2. end \in 0 .. MaxFile * BLOCK_SIZE
    <2>1. Len(d) \in Nat
      OBVIOUS
    <2> QED BY <2>1, EndWithin
  <1>3. p.itab \in [Inodes -> InodeType] /\ p.itab[i] \in InodeType
    BY <1>1, CoreFields
  <1> HIDE DEF p, end
  <1>4. /\ y \in InodeType /\ y.kind = p.itab[i].kind /\ y.direct = p.itab[i].direct
        /\ y.indir_1 = p.itab[i].indir_1 /\ y.indir_2 = p.itab[i].indir_2
    BY <1>2, <1>3, GrownInode
  <1>5. m = [p EXCEPT !.itab = [@ EXCEPT ![i] = y]]
    OBVIOUS
  <1> HIDE DEF y, m
  <1>6. m \in Cores /\ m.imap = p.imap /\ m.bmap = p.bmap /\ m.itab = [p.itab EXCEPT ![i] = y]
    BY <1>1, <1>3, <1>4, <1>5 DEF Cores
  <1>7. m.itab[i] = y /\ \A j \in Inodes : j # i => m.itab[j] = p.itab[j]
    BY <1>3, <1>6
  <1>8. /\ m \in Cores /\ m.imap = core.imap /\ core.bmap \subseteq m.bmap
        /\ \A j \in Inodes : j # i => m.itab[j] = core.itab[j]
        /\ m.itab[i].kind = core.itab[i].kind /\ Apart(m.itab[i], Own(disk))
    BY <1>1, <1>4, <1>6, <1>7 DEF Apart
  <1> QED BY <1>8 DEF m, p, end

LEMMA BlockReaches ==
    ASSUME FsInv, Ready, NEW i \in Inodes, ~IsDir(i), core.itab[i].kind # "none",
           NEW k \in 0 .. MaxFile, NEW w \in Ways(i, k), Last(w.made) # ENOSPC,
           NEW d \in Seq(Units), Len(d) <= BLOCK_SIZE
    PROVE  LET end == k * BLOCK_SIZE + (IF k < MaxFile THEN Len(d) ELSE 0)
               m == [With(i, k, w) EXCEPT !.itab[i] = Grown(@, end)]
           IN  Reaches(m, AllocWrites(i, k, w) \o <<Filled(w, d)>>
                             \o update_inode(m, i) \o update_blk(m))
  <1> DEFINE end == k * BLOCK_SIZE + (IF k < MaxFile THEN Len(d) ELSE 0)
             p == With(i, k, w)
             m == [p EXCEPT !.itab[i] = Grown(@, end)]
             n == Depth(k)
             b == w.made[n]
             old == Content(w, n)
             new == d \o SubSeq(old.data, Len(d) + 1, BLOCK_SIZE)
             z == [Zeroes EXCEPT !.data = new]
             a == AllocWrites(i, k, w)
             u == update_inode(m, i)
             v == update_blk(m)
  <1>0. /\ disk \in GoodDisks /\ disk \in Disks /\ Sound(disk) /\ core \in Cores
        /\ disk.blk \in [Blocks -> BlockType] /\ 0 \notin Own(disk)
    BY ReadyFacts, DiskFields
  <1>1. PICK e \in GoodDisks :
              /\ Leads(disk, a, e)
              /\ Thins(disk, e) /\ e.imap \subseteq core.imap /\ e.itab = p.itab
    BY AllocLeads
  <1>2. /\ p \in Cores /\ p.imap = core.imap /\ core.bmap \subseteq p.bmap
        /\ \A j \in Inodes : j # i => p.itab[j] = core.itab[j]
        /\ p.itab[i].kind = core.itab[i].kind /\ Apart(p.itab[i], Own(disk))
    BY WithFacts
  <1>4. n \in 1 .. n /\ b \in Blocks /\ Last(w.made) = b
    <2> HIDE DEF end, p, m, old, new, z, a, u, v
    <2>1. /\ w.made \in [1 .. Depth(k) -> Blocks \cup {ENOSPC}]
          /\ Depth(k) \in 1 .. 3 /\ Last(w.made) = w.made[Depth(k)]
      <3> HIDE DEF n, b
      <3> QED BY WaysFacts
    <2> QED BY <2>1
  <1>5. Filled(w, d) = BlkWrite(b, z)
    <2>1. Len(w.made) = n /\ Last(w.made) = b
      BY WaysFacts
    <2> QED BY <2>1 DEF Filled
  <1>6. z \in BlockType /\ PtrsApart(z, Own(disk)) /\ \A s \in 1 .. Entries : z.ents[s] = NoEntry
    <2>1. old \in BlockType
      <3>1. CASE w.found[n] = 0
        BY <3>1, EmptyTypes DEF Content
      <3>2. CASE w.found[n] # 0
        BY <3>2, <1>0, <1>4 DEF Content
      <3> QED BY <3>1, <3>2
    <2> HIDE DEF old
    <2>2. old.data \in [1 .. BLOCK_SIZE -> Units \cup {0}]
      BY <2>1 DEF BlockType
    <2>3. new \in [1 .. BLOCK_SIZE -> Units \cup {0}]
      BY <2>2, FilledType
    <2> HIDE DEF new
    <2>4. z \in BlockType /\ z.ptrs = Zeroes.ptrs /\ z.ents = Zeroes.ents
      BY <2>3, EmptyTypes DEF BlockType
    <2> HIDE DEF z
    <2> QED BY <1>0, <2>4, EmptyTypes DEF PtrsApart
  <1> HIDE DEF p, end
  <1>7. /\ m \in Cores /\ m.imap = core.imap /\ core.bmap \subseteq m.bmap
        /\ \A j \in Inodes : j # i => m.itab[j] = core.itab[j]
        /\ m.itab[i].kind = core.itab[i].kind /\ Apart(m.itab[i], Own(disk))
    BY GrownCore DEF p, end
  <1> HIDE DEF m, n, b, z
  <1>8. PICK c \in GoodDisks :
              /\ Leads(e, <<BlkWrite(b, z)>>, c)
              /\ Thins(disk, c) /\ c.imap = e.imap /\ c.itab = e.itab
    BY <1>0, <1>1, <1>4, <1>6, ThinBlock
  <1>9. PICK f \in GoodDisks : Leads(c, u \o v, f) /\ Final(m, f)
    <2>1. \A j \in Inodes : j # i => c.itab[j] = core.itab[j]
      BY <1>1, <1>2, <1>8
    <2> QED BY <1>7, <1>8, <2>1, WriteBackLeads
  <1> DEFINE g == <<BlkWrite(b, z)>>
  <1>10. a \in Seq(Writes) /\ g \in Seq(Writes) /\ u \in Seq(Writes) /\ v \in Seq(Writes)
    BY <1>1, <1>7, <1>8, LeadsEnds, UpdateTypes
  <1>11. Leads(e, g, c)
    BY <1>8
  <1> HIDE DEF a, g, u, v
  <1>12. Leads(disk, (a \o g) \o (u \o v), f)
    <2>1. Leads(disk, a \o g, c)
      BY <1>1, <1>11, LeadsThen
    <2> QED BY <1>9, <2>1, LeadsThen
  <1>13. (a \o g) \o (u \o v) = ((a \o g) \o u) \o v
    <2> DEFINE h == a \o g
    <2>1. h \in Seq(Writes)
      BY <1>10
    <2> HIDE DEF h
    <2>2. h \o (u \o v) = (h \o u) \o v
      BY <1>10, <2>1, SMTT(30)
    <2> QED BY <2>2 DEF h
  <1>14. Reaches(m, ((a \o g) \o u) \o v)
    BY <1>7, <1>9, <1>12, <1>13 DEF Reaches
  <1> QED BY <1>5, <1>14 DEF m, a, g, u, v, p, end

-----------------------------------------------------------------------------
(* The invariant holds of Init and of every step. *)

LEMMA InitInv == ASSUME Init PROVE FsInv
  <1> DEFINE t == [i \in Inodes |-> CASE i = Root -> DirInode(RootBlk)
                                      [] i = HomeNode -> DirInode(HomeBlk)
                                      [] OTHER -> NoInode]
             home == [Zeroes EXCEPT !.ents[1] = HomeEntry]
             c == [b \in Blocks |-> IF b = RootBlk THEN home ELSE Zeroes]
  <1>1. /\ disk = [super |-> TRUE, imap |-> {0, Root, HomeNode},
                   bmap |-> Meta \cup {RootBlk, HomeBlk}, itab |-> t, blk |-> c]
        /\ core = fs_init(disk) /\ todo = <<>>
    BY DEF Init
  <1>2. ASSUME NEW b \in Blocks
        PROVE  /\ DirInode(b) \in InodeType /\ DirInode(b).kind = "dir"
               /\ DirInode(b).direct[0] = b
               /\ \A k \in 1 .. N_DIRECT - 1 : DirInode(b).direct[k] = 0
               /\ DirInode(b).indir_1 = 0 /\ DirInode(b).indir_2 = 0
    <2> DEFINE g == [NoInode.direct EXCEPT ![0] = b]
    <2>1. NoInode.direct \in [0 .. N_DIRECT - 1 -> Blocks]
      BY EmptyTypes DEF InodeType
    <2>2. \A k \in 1 .. N_DIRECT - 1 : k \in 0 .. N_DIRECT - 1 /\ k # 0
      BY Sizes
    <2>3. /\ g \in [0 .. N_DIRECT - 1 -> Blocks] /\ g[0] = b
          /\ \A k \in 1 .. N_DIRECT - 1 : g[k] = 0
      BY <2>1, <2>2, Sizes, EmptyTypes
    <2>4. DirInode(b) = [NoInode EXCEPT !.kind = "dir", !.direct = g]
      BY DEF DirInode
    <2> HIDE DEF g
    <2>5. /\ DirInode(b) \in InodeType /\ DirInode(b).kind = "dir" /\ DirInode(b).direct = g
          /\ DirInode(b).indir_1 = 0 /\ DirInode(b).indir_2 = 0
      BY <2>3, <2>4, EmptyTypes DEF InodeType
    <2> QED BY <2>3, <2>5
  <1>3. /\ t \in [Inodes -> InodeType]
        /\ t[Root] = DirInode(RootBlk) /\ t[HomeNode] = DirInode(HomeBlk)
        /\ \A i \in Inodes : i # Root /\ i # HomeNode => t[i] = NoInode
    BY <1>2, Sizes, EmptyTypes
  <1>4. /\ home \in BlockType /\ home.ents[1] = HomeEntry /\ home.ptrs = Zeroes.ptrs
        /\ \A s \in 1 .. Entries : s # 1 => home.ents[s] = NoEntry
        /\ HomeEntry.inode = HomeNode
    <2> DEFINE g == [Zeroes.ents EXCEPT ![1] = HomeEntry]
    <2>1. HomeEntry \in EntryType /\ HomeEntry.inode = HomeNode
      BY Sizes, FsAssumption DEF HomeEntry, EntryType
    <2>2. 1 \in 1 .. Entries /\ Zeroes.ents \in [1 .. Entries -> EntryType]
      BY Sizes, EmptyTypes DEF BlockType
    <2>3. /\ g \in [1 .. Entries -> EntryType] /\ g[1] = HomeEntry
          /\ \A s \in 1 .. Entries : s # 1 => g[s] = NoEntry
      BY <2>1, <2>2, EmptyTypes
    <2>4. home = [Zeroes EXCEPT !.ents = g]
      OBVIOUS
    <2> HIDE DEF home, g
    <2> QED BY <2>1, <2>3, <2>4, EmptyTypes DEF BlockType
  <1> HIDE DEF t, home
  <1>5. /\ c \in [Blocks -> BlockType]
        /\ \A b \in Blocks : c[b] = IF b = RootBlk THEN home ELSE Zeroes
    BY <1>4, EmptyTypes
  <1> HIDE DEF c
  <1>6. /\ disk.itab = t /\ disk.blk = c /\ disk.imap = {0, Root, HomeNode}
        /\ disk.bmap = Meta \cup {RootBlk, HomeBlk} /\ disk \in Disks
    <2>1. Meta \subseteq Blocks
      BY Sizes DEF Meta, Blocks, RootBlk
    <2>2. {0, Root, HomeNode} \in SUBSET Inodes
      BY Sizes
    <2>3. Meta \cup {RootBlk, HomeBlk} \in SUBSET Blocks
      BY <2>1, Sizes
    <2> QED BY <1>1, <1>3, <1>5, <2>2, <2>3 DEF Disks
  <1>7. Own(disk) = {RootBlk, HomeBlk}
    <2>1. NoInode.kind # "dir"
      BY EmptyTypes
    <2> QED BY <1>2, <1>3, <1>6, <2>1, Sizes DEF Own
  <1>8. ASSUME NEW b \in Lists(disk), NEW s \in 1 .. Entries, Ent(disk, b, s) # NoEntry
        PROVE  b = RootBlk /\ s = 1 /\ Ent(disk, b, s).inode = HomeNode
    <2>1. b \in Blocks
      BY <1>6, DiskFields
    <2> QED BY <1>4, <1>5, <1>6, <1>8, <2>1, EmptyTypes DEF Ent
  <1>9. SoundLive(disk)
    BY <1>2, <1>3, <1>6, <1>8, Sizes DEF SoundLive
  <1>10. SoundOne(disk)
    BY <1>8 DEF SoundOne
  <1>11. SoundMark(disk)
    BY <1>6, <1>7 DEF SoundMark
  <1>12. SoundApart(disk)
    <2>1. 0 \notin Own(disk)
      BY <1>7, Sizes
    <2>2. ASSUME NEW i \in Inodes PROVE Apart(disk.itab[i], Own(disk))
      <3>1. \A k \in 1 .. N_DIRECT - 1 : k \in 0 .. N_DIRECT - 1
        BY Sizes
      <3>2. Apart(NoInode, Own(disk))
        BY <2>1, <3>1, Sizes, EmptyTypes DEF Apart
      <3>3. Apart(DirInode(RootBlk), Own(disk)) /\ Apart(DirInode(HomeBlk), Own(disk))
        BY <1>2, <2>1, Sizes DEF Apart
      <3> QED BY <1>3, <1>6, <3>2, <3>3
    <2>3. ASSUME NEW b \in Blocks PROVE PtrsApart(disk.blk[b], Own(disk))
      BY <1>4, <1>5, <1>6, <2>1, EmptyTypes DEF PtrsApart
    <2> QED BY <2>2, <2>3 DEF SoundApart
  <1>13. SoundUniq(disk)
    BY <1>2, <1>3, <1>6, Sizes, EmptyTypes DEF SoundUniq
  <1>14. disk \in GoodDisks
    BY <1>6, <1>9, <1>10, <1>11, <1>12, <1>13 DEF GoodDisks, Sound
  <1>15. core \in Cores /\ Final(core, disk)
    BY <1>1, <1>6, <1>11 DEF fs_init, Cores, Disks, Final, SoundMark
  <1> QED BY <1>1, <1>14, <1>15, LeadsNone DEF FsInv, Reaches

LEMMA PerformInv ==
    ASSUME NEW m, NEW ws, Reaches(m, ws), Perform(m, ws)
    PROVE  FsInv'
  <1>1. core' = m /\ todo' = ws /\ disk' = disk
    BY DEF Perform
  <1>2. PICK e \in GoodDisks : Leads(disk, ws, e) /\ Final(m, e)
    BY DEF Reaches
  <1>3. m \in Cores
    BY DEF Reaches
  <1>4. core' \in Cores /\ Leads(disk', todo', e) /\ Final(core', e)
    BY <1>1, <1>2, <1>3
  <1> QED BY <1>4 DEF FsInv, Reaches

\* What the program loads is what the device holds.
LEMMA LoadedReaches ==
    ASSUME FsInv
    PROVE  Reaches(fs_init(disk), <<>>)
  <1>1. disk \in GoodDisks
    BY LeadsEnds DEF FsInv, Reaches
  <1>2. fs_init(disk) \in Cores /\ Final(fs_init(disk), disk)
    BY <1>1 DEF fs_init, Cores, Disks, GoodDisks, Final, Sound, SoundMark
  <1> QED BY <1>1, <1>2, LeadsNone DEF Reaches

LEMMA NoSlotReaches ==
    ASSUME FsInv, Ready, FreeInodes # {}
    PROVE  Reaches([core EXCEPT !.imap = @ \cup {Min(FreeInodes)}], <<>>)
  <1> DEFINE i == Min(FreeInodes)
             m == [core EXCEPT !.imap = @ \cup {i}]
  <1>1. /\ disk \in GoodDisks /\ core \in Cores /\ disk.itab = core.itab
        /\ disk.imap \subseteq core.imap /\ Own(disk) \subseteq core.bmap
    BY ReadyFacts
  <1>2. i \in Inodes
    BY FreeInodeFacts
  <1> HIDE DEF i
  <1>3. m \in Cores /\ Final(m, disk)
    BY <1>1, <1>2 DEF Cores, Final
  <1> QED BY <1>1, <1>3, LeadsNone DEF Reaches, i

\* A write of at most a block of any units.
LEMMA WriteInv ==
    ASSUME FsInv, NEW p \in Paths, NEW k \in 0 .. MaxFile,
           NEW d \in Seq(Units), Len(d) <= BLOCK_SIZE, fs_write(p, k, d)
    PROVE  FsInv'
  <1> DEFINE i == translate(p)
  <1>1. WriteBlock(i, k, d) \/ WriteLost(i, k) \/ WriteNoSpace(i, k)
    BY DEF fs_write
  <1>2. Ready /\ i # 0 /\ ~IsDir(i)
    BY <1>1 DEF WriteBlock, WriteLost, WriteNoSpace, CanWrite
  <1>3. i \in Inodes /\ core.itab[i].kind # "none"
    BY <1>2, TranslateFacts, ReadyFacts
  <1> HIDE DEF i
  <1>4. CASE WriteBlock(i, k, d)
    <2> DEFINE end == k * BLOCK_SIZE + (IF k < MaxFile THEN Len(d) ELSE 0)
               M(w) == [With(i, k, w) EXCEPT !.itab[i] = Grown(@, end)]
    <2>1. PICK w \in Ways(i, k) :
              /\ Last(w.made) # ENOSPC
              /\ Perform(M(w), AllocWrites(i, k, w) \o <<Filled(w, d)>>
                                  \o update_inode(M(w), i) \o update_blk(M(w)))
      BY <1>4 DEF WriteBlock
    <2>2. Reaches(M(w), AllocWrites(i, k, w) \o <<Filled(w, d)>>
                           \o update_inode(M(w), i) \o update_blk(M(w)))
      BY <1>2, <1>3, <2>1, BlockReaches
    <2> HIDE DEF M
    <2> QED BY <2>1, <2>2, PerformInv
  <1>5. CASE WriteLost(i, k)
    <2>1. PICK w \in Ways(i, k) :
              Perform(With(i, k, w), AllocWrites(i, k, w) \o update_inode(With(i, k, w), i)
                                        \o update_blk(With(i, k, w)))
      BY <1>5 DEF WriteLost
    <2>2. Reaches(With(i, k, w), AllocWrites(i, k, w) \o update_inode(With(i, k, w), i)
                                    \o update_blk(With(i, k, w)))
      BY <1>2, <1>3, LostReaches
    <2> QED BY <2>1, <2>2, PerformInv
  <1>6. CASE WriteNoSpace(i, k)
    <2>1. PICK w \in Ways(i, k) : Perform(With(i, k, w), AllocWrites(i, k, w))
      BY <1>6 DEF WriteNoSpace
    <2>2. Reaches(With(i, k, w), AllocWrites(i, k, w))
      BY <1>2, <1>3, NoSpaceReaches
    <2> QED BY <2>1, <2>2, PerformInv
  <1> QED BY <1>1, <1>4, <1>5, <1>6

LEMMA CommandInv == ASSUME FsInv, Command PROVE FsInv'
  <1>1. CASE fs_getattr
    BY <1>1, LoadedReaches, PerformInv DEF fs_getattr
  <1>0. ASSUME NEW i \in Inodes, fs_chmod(i) PROVE FsInv'
    BY <1>0, AttributesReach, ChmodReaches, PerformInv DEF fs_chmod, SetAttributes
  <1>2. CASE fs_chmod(Root)
    BY <1>0, <1>2, Sizes
  <1>3. ASSUME NEW p \in Paths, NEW kind \in {"file", "dir"}, Make(p, kind) PROVE FsInv'
    BY <1>3, MakeReaches, PerformInv DEF Make
  <1>4. ASSUME NEW p \in Paths, MakeNoSlot(p) PROVE FsInv'
    BY <1>4, NoSlotReaches, PerformInv DEF MakeNoSlot, CanMake
  <1>5. ASSUME NEW p \in Paths, fs_mknod(p) \/ fs_mkdir(p) PROVE FsInv'
    BY <1>3, <1>4, <1>5 DEF fs_mknod, fs_mkdir
  <1>6. ASSUME NEW p \in Paths, Ready, translate(p) # 0
        PROVE  translate(p) \in Inodes /\ core.itab[translate(p)].kind # "none"
    BY <1>6, TranslateFacts, ReadyFacts
  <1>7. ASSUME NEW p \in Paths, fs_truncate(p) PROVE FsInv'
    <2>1. /\ Ready /\ translate(p) # 0 /\ ~IsDir(translate(p))
          /\ Perform(Truncated(translate(p)), TruncateWrites(translate(p)))
      BY <1>7 DEF fs_truncate
    <2> QED BY <1>6, <2>1, TruncateReaches, PerformInv
  <1>8. ASSUME NEW p \in Paths, fs_unlink(p) PROVE FsInv'
    BY <1>8, UnlinkReaches, PerformInv DEF fs_unlink
  <1>9. ASSUME NEW p \in Paths, fs_rmdir(p) PROVE FsInv'
    BY <1>9, RmdirReaches, PerformInv DEF fs_rmdir
  <1>10. ASSUME NEW p \in Paths, fs_chmod(translate(p)) PROVE FsInv'
    <2>1. Ready /\ translate(p) # 0
      BY <1>10 DEF fs_chmod, SetAttributes
    <2> QED BY <1>0, <1>6, <1>10, <2>1
  <1>11. ASSUME NEW p \in Paths, NEW q \in Paths, fs_rename(p, q) PROVE FsInv'
    BY <1>11, RenameReaches, PerformInv DEF fs_rename
  <1>12. ASSUME NEW p \in Paths, NEW k \in 0 .. Reach, NEW x \in Units,
                fs_write(p, k, [u \in 1 .. BLOCK_SIZE |-> x])
         PROVE  FsInv'
    <2> DEFINE d == [u \in 1 .. BLOCK_SIZE |-> x]
    <2>1. d \in Seq(Units) /\ Len(d) <= BLOCK_SIZE /\ k \in 0 .. MaxFile
      BY Sizes
    <2> HIDE DEF d
    <2> QED BY <1>12, <2>1, WriteInv DEF d
  <1> QED BY <1>1, <1>2, <1>5, <1>7, <1>8, <1>9, <1>10, <1>11, <1>12 DEF Command

LEMMA FlushInv == ASSUME FsInv, Flush PROVE FsInv'
  <1>1. PICK e \in GoodDisks : Leads(disk, todo, e) /\ Final(core, e)
    BY DEF FsInv, Reaches
  <1>2. /\ todo # <<>> /\ disk' = Written(disk, Head(todo)) /\ todo' = Tail(todo)
        /\ core' = core
    BY DEF Flush
  <1>3. Leads(Written(disk, Head(todo)), Tail(todo), e)
    BY <1>1, <1>2, LeadsHead
  <1>4. core' \in Cores /\ Leads(disk', todo', e) /\ Final(core', e)
    BY <1>1, <1>2, <1>3 DEF FsInv, Reaches
  <1> QED BY <1>4 DEF FsInv, Reaches

LEMMA CrashInv == ASSUME FsInv, Crash PROVE FsInv'
  BY LoadedReaches, PerformInv DEF Crash, Perform

LEMMA StepInv == ASSUME FsInv, [Next]_vars PROVE FsInv'
  <1>1. CASE UNCHANGED vars
    BY <1>1, PerformInv DEF FsInv, vars, Perform
  <1> QED BY <1>1, CommandInv, FlushInv, CrashInv DEF Next

\* At every moment, as far as the model goes, the device is sound, and so is
\* every device the writes to come lead to: entries name inodes that are
\* filled in, each inode has one entry and each name one in its block, and a
\* directory's block other than block 0 is marked and named by it alone.  The
\* writes of each handler, chmod's that makes a directory a file among them,
\* are in an order that keeps this.
THEOREM FsInvariant == Spec => []FsInv
  <1>1. Init => FsInv
    BY InitInv
  <1>2. FsInv /\ [Next]_vars => FsInv'
    BY StepInv
  <1> QED BY <1>1, <1>2, PTL DEF Spec

-----------------------------------------------------------------------------
(* What the invariant means for the properties of Fsx492. *)

\* The maps and the table keep their shape in memory and on the device, and no
\* file grows beyond the blocks an inode can name.
THEOREM FsTypes == Spec => []TypeOK
  <1>1. ASSUME FsInv PROVE TypeOK
    <2>1. disk \in Disks /\ todo \in Seq(Writes) /\ core \in Cores
      BY <1>1, LeadsEnds DEF FsInv, Reaches, GoodDisks
    <2>2. \A w \in Writes : w.at \in {"block", "itab", "imap", "bmap"}
      BY DEF Writes
    <2>3. \A k \in DOMAIN todo : todo[k].at \in {"block", "itab", "imap", "bmap"}
      BY <2>1, <2>2
    <2> QED BY <2>1, <2>3 DEF TypeOK, Disks, Cores
  <1> QED BY <1>1, FsInvariant, PTL

\* The directories in use are among those the invariant is about.
LEMMA BindingsListed ==
    ASSUME FsInv
    PROVE  /\ disk \in Disks /\ Sound(disk)
           /\ DirBlks \subseteq Lists(disk)
           /\ \A x \in Bindings : /\ x[1] \in Lists(disk) /\ x[2] \in 1 .. Entries
                                  /\ x = <<x[1], x[2]>>
                                  /\ EntryAt(x) = Ent(disk, x[1], x[2]) /\ EntryAt(x) # NoEntry
  <1>1. disk \in Disks /\ Sound(disk)
    BY LeadsEnds DEF FsInv, Reaches, GoodDisks
  <1>2. DirBlks \subseteq Lists(disk)
    BY <1>1, DiskFields DEF DirBlks, LiveDirs, Lists, Own
  <1>3. \A x \in Bindings : /\ x[1] \in DirBlks /\ x[2] \in 1 .. Entries
                            /\ x = <<x[1], x[2]>>
                            /\ EntryAt(x) = Ent(disk, x[1], x[2]) /\ EntryAt(x) # NoEntry
    BY DEF Bindings, EntryAt, Ent
  <1> QED BY <1>1, <1>2, <1>3

\* Whenever a crash comes, an entry of a live directory on the device names an
\* inode that is allocated and filled in: fs_mknod and fs_mkdir write the
\* inode before its entry, fs_unlink and fs_rmdir erase the entry first.  (As
\* far as the model goes: up to a handler that would take a file's bytes for
\* pointers, which could erase any block.)
THEOREM EntriesAlwaysLive == Spec => []EntriesLive
  <1>1. ASSUME FsInv PROVE EntriesLive
    BY <1>1, BindingsListed DEF EntriesLive, Sound, SoundLive
  <1> QED BY <1>1, FsInvariant, PTL

\* No two entries of a block share a name and no two share an inode, crashes
\* or not: what translate finds under a name is the one entry of that name in
\* the block it looks at, and every inode is found under at most one name of
\* one block.  (That is no tree: several directories may have block 0.)
THEOREM NamesStayUnique == Spec => []OneName
  <1>1. ASSUME FsInv PROVE OneName
    <2> SUFFICES ASSUME NEW x \in Bindings, NEW y \in Bindings, x # y
                 PROVE  /\ EntryAt(x).inode # EntryAt(y).inode
                        /\ x[1] = y[1] => EntryAt(x).name # EntryAt(y).name
      BY DEF OneName
    <2>1. /\ x[1] \in Lists(disk) /\ x[2] \in 1 .. Entries
          /\ EntryAt(x) = Ent(disk, x[1], x[2]) /\ EntryAt(x) # NoEntry
          /\ y[1] \in Lists(disk) /\ y[2] \in 1 .. Entries
          /\ EntryAt(y) = Ent(disk, y[1], y[2]) /\ EntryAt(y) # NoEntry
          /\ SoundOne(disk)
      BY <1>1, BindingsListed DEF Sound
    <2>2. x[1] # y[1] \/ x[2] # y[2]
      BY <1>1, BindingsListed
    <2> QED BY <2>1, <2>2 DEF SoundOne
  <1> QED BY <1>1, FsInvariant, PTL

\* While there is a superblock, the block of a live directory, if it is not
\* block 0, is marked as used in the device's map, so that no file is given
\* it after a crash: fs_rmdir clears the inode before it returns the block,
\* and fs_truncate returns no directory's, as far as the model goes (it
\* would, by a file's bytes taken for pointers).
THEOREM DirBlocksStayMarked == Spec => []DirBlocksMarked
  <1>1. ASSUME FsInv PROVE DirBlocksMarked
    BY <1>1, BindingsListed DEF DirBlocksMarked, Sound, SoundMark, Lists
  <1> QED BY <1>1, FsInvariant, PTL

================================================================================
