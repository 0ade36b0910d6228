-------------------------------- MODULE SFS --------------------------------
(***************************************************************************)
(* The FUSE file system of assignment3/src/sfs.c: one flat directory, an   *)
(* inode bitmap, a block bitmap, a table of inodes and data blocks, all    *)
(* kept on the disk file.  FUSE runs the handlers one at a time here; each *)
(* handler is one operator from the disk to the disk and a return value.   *)
(* A crash stops sfs_init, sfs_create or sfs_write between two of its      *)
(* block writes; what is on the disk then is what the next mount finds.    *)
(*                                                                         *)
(* The disk file starts empty, and block_read makes zeros of what was      *)
(* never written: no magic number, every inode and block marked used.      *)
(***************************************************************************)
EXTENDS Integers, Sequences, FiniteSets, SequencesExt

CONSTANTS
  Paths,      \* the paths the client uses
  NoPath,     \* the path of a zeroed inode
  Root,       \* "/"
  Byte,       \* byte values, 0 among them
  Writes,     \* the buffers a client writes to a file
  Inodes,     \* 0..INODE_LIST_SIZE - 1; inode 0 is the root directory
  NBlocks,    \* BLOCK_LIST_SIZE
  BLOCK_SIZE,
  NData,      \* the length of inode.data; 16777216 = NData * BLOCK_SIZE
  MaxRead,    \* bound: bytes in one read
  Clients     \* how the file system is used, see client

ASSUME SFSAssumption ==
  /\ NoPath \notin Paths /\ Root \notin Paths \cup {NoPath}
  /\ 0 \in Byte /\ Writes \in [Clients -> [Paths -> SUBSET Seq(Byte)]]
  /\ IsFiniteSet(Inodes) /\ Inodes \subseteq Nat /\ 0 \in Inodes
  /\ NBlocks \in Nat \ {0, 1} /\ BLOCK_SIZE \in Nat \ {0} /\ NData \in Nat \ {0}
  /\ MaxRead \in Nat
  /\ Clients \subseteq {"crashes", "unlinks", "removes"}

Blocks == 0..NBlocks - 1
MaxSize == NData * BLOCK_SIZE

VARIABLES
  fs,      \* the disk: magic, imap (used inodes), bmap (used blocks), the table
           \* inode and the data blocks disk
  mount,   \* "off", "on", or the step of sfs_init that is next
  client   \* "crashes": files are never removed, but the system may crash;
           \* "unlinks": a file is removed when it is the only one;
           \* "removes": files are removed at any time

vars == <<fs, mount, client>>

Init ==
  /\ fs = [magic |-> FALSE,
           imap  |-> Inodes,
           bmap  |-> Blocks,
           inode |-> [i \in Inodes |-> [path |-> NoPath, size |-> 0, hardlinks |-> 0,
                                        data |-> [k \in 0..NData - 1 |-> 0]]],
           disk  |-> [b \in Blocks |-> [c \in 0..BLOCK_SIZE - 1 |-> 0]]]
  /\ mount = "off"
  /\ client \in Clients

-----------------------------------------------------------------------------
\* checkiNodePathName: the first used inode with the path.
Matches(p) == {i \in fs.imap : fs.inode[i].path = p}
Live == {p \in Paths : Matches(p) # {}}
CheckiNodePathName(p) == Min(Matches(p))

\* The bitmaps on the disk have a 1 for what is free; imap and bmap are the sets
\* of the numbers whose bit is 0.
SetInode(d, i, free) == [d EXCEPT !.imap = IF free THEN @ \ {i} ELSE @ \cup {i}]
SetBlock(bmap, b, free) == IF free THEN bmap \ {b} ELSE bmap \cup {b}
WriteInode(d, i, f) == [d EXCEPT !.inode[i] = f]

FindNextOpenBlock(bmap) ==
  IF bmap = Blocks THEN -1 ELSE Min(Blocks \ bmap)

\* file.data[k]; the word behind the array is hardlinks.
DataAt(f, k) == IF k < NData THEN f.data[k] ELSE f.hardlinks
SetData(f, k, b) ==
  IF k < NData THEN [f EXCEPT !.data[k] = b] ELSE [f EXCEPT !.hardlinks = b]

-----------------------------------------------------------------------------
(* sfs_init and sfs_destroy.  The steps of sfs_init are its block writes.  *)

\* Disk and step of sfs_init; the client stays what it is.
Stage(from, d, to) ==
  /\ mount = from
  /\ fs' = d
  /\ mount' = to
  /\ UNCHANGED client

\* checkIfInit: a disk with the magic number is used as it is.
Remount == fs.magic /\ Stage("off", fs, "on")

\* setFileInit writes the magic number at the head of an uninitialised buffer,
\* which goes over the inode bitmap.
SetFileInit ==
  \E garbage \in SUBSET Inodes :
    ~fs.magic /\ Stage("off", [fs EXCEPT !.magic = TRUE, !.imap = garbage], "imap")

FormatImap == Stage("imap", [fs EXCEPT !.imap = {}], "bmap")
FormatBmap == Stage("bmap", [fs EXCEPT !.bmap = {}], "mark")

\* Mutant: the root's bit is not cleared.
MarkRoot_Skipped == Stage("mark", fs, "root")

MarkRoot == Stage("mark", SetInode(fs, 0, FALSE), "root")

WriteRoot ==
  Stage("root", WriteInode(fs, 0, [path |-> Root, size |-> 0, hardlinks |-> 2,
                                   data |-> fs.inode[0].data]), "on")

FormatCrashes == client = "crashes" /\ mount \notin {"off", "on"} /\ Stage(mount, fs, "off")

\* sfs_destroy closes the disk file.
Destroy == Stage("on", fs, "off")

\* A handler that returns, with the disk it leaves; and one a crash cuts short.
Handles(d) == Stage("on", d, "on")
Crashes(d) == client = "crashes" /\ Stage("on", d, "off")

-----------------------------------------------------------------------------
(* sfs_create                                                              *)

\* An inode found free keeps its old data words but the first.
CreateAt(p, i, b) ==
  WriteInode([SetInode(fs, i, FALSE) EXCEPT !.bmap = SetBlock(@, b, FALSE)], i,
             [path |-> p, size |-> 0, hardlinks |-> 1,
              data |-> [fs.inode[i].data EXCEPT ![0] = b]])

\* The inode is marked used before a block is looked for.
CreateResult(p) ==
  LET i == Min(Inodes \ fs.imap)
      b == FindNextOpenBlock(fs.bmap)
  IN  IF fs.imap = Inodes THEN fs
      ELSE IF b = -1 THEN SetInode(fs, i, FALSE)
      ELSE CreateAt(p, i, b)

\* FUSE calls create for paths that getattr does not find.
Create(p) ==
  /\ p \notin Live
  /\ Handles(CreateResult(p))

\* Mutant: the inode is written before setBlock.
CreateCrashes_InodeFirst(p) ==
  /\ p \notin Live
  /\ fs.imap # Inodes /\ fs.bmap # Blocks
  /\ Crashes([CreateAt(p, Min(Inodes \ fs.imap), FindNextOpenBlock(fs.bmap))
                EXCEPT !.bmap = fs.bmap])

\* A crash after setInode, or after setBlock: the inode is never written.
CreateCrashes(p) ==
  /\ p \notin Live
  /\ fs.imap # Inodes
  /\ \E marked \in {{}, {FindNextOpenBlock(fs.bmap)} \ {-1}} :
       Crashes([SetInode(fs, Min(Inodes \ fs.imap), FALSE) EXCEPT !.bmap = @ \cup marked])

-----------------------------------------------------------------------------
(* sfs_unlink                                                              *)

\* Mutant: the last block is not freed.
Freed_OneLess(f) == {f.data[k] : k \in 0..(f.size \div BLOCK_SIZE) - 1}

\* The blocks the loop of unlink frees.
Freed(f) == {f.data[k] : k \in 0..(f.size \div BLOCK_SIZE) + 1}

\* Only of files for which that loop stays inside the array.
Unlink(p) ==
  /\ p \in Live
  /\ client = "removes" \/ (client = "unlinks" /\ Live = {p})
  /\ LET i == CheckiNodePathName(p)
         f == fs.inode[i]
     IN  /\ f.size \div BLOCK_SIZE + 1 < NData
         /\ Handles([SetInode(fs, i, TRUE) EXCEPT
                       !.bmap = IF f.hardlinks - 2 < 1 THEN @ \ Freed(f) ELSE @])

-----------------------------------------------------------------------------
(* sfs_write, on a record of its locals: the inode copy file, the bitmap   *)
(* and the disk, past (the bitmaps and disks it has gone through), the     *)
(* position blk, chr, the buffer diskbuf, ret, and whether it has returned *)
(* and has written the inode.                                              *)

\* s with another bitmap, or another disk, written out.
Stored(s, bmap, disk) ==
  [s EXCEPT !.bmap = bmap, !.disk = disk, !.past = @ \cup {<<bmap, disk>>}]

\* Mutant: it compares the position in the block.
Grows_IgnoresBlk(s, chr) == chr > s.file.size

Grows(s, chr) == chr + s.blk * BLOCK_SIZE > s.file.size

BlockWrite(s) ==
  Stored(s, s.bmap, [s.disk EXCEPT ![DataAt(s.file, s.blk)] = s.diskbuf])
BlockRead(s) == [s EXCEPT !.diskbuf = s.disk[DataAt(s.file, s.blk)]]

\* Mutant: the full block is not written out.
NextBlock_NoWrite(s) ==
  BlockRead([s EXCEPT !.blk = @ + 1, !.chr = 0])

NextBlock(s) ==
  BlockRead([BlockWrite(s) EXCEPT !.blk = @ + 1, !.chr = 0])

\* The size has reached a multiple of BLOCK_SIZE: the next block is allocated
\* at once.
Extend(s) ==
  LET b == FindNextOpenBlock(s.bmap)
  IN  IF s.file.size = MaxSize
        THEN [BlockWrite(s) EXCEPT !.saved = TRUE, !.returned = TRUE]
      ELSE IF b = -1 THEN [s EXCEPT !.ret = -1, !.returned = TRUE]
      ELSE Stored([s EXCEPT !.file = SetData(@, s.blk + 1, b)],
                  SetBlock(s.bmap, b, FALSE), s.disk)

\* One round of the loop over the bytes.
WriteByte(s, v) ==
  LET put   == [s EXCEPT !.diskbuf[s.chr] = v, !.chr = @ + 1, !.ret = @ + 1]
      grown == IF Grows(s, put.chr) THEN [put EXCEPT !.file.size = @ + 1] ELSE put
      ext   == IF Grows(s, put.chr) /\ grown.file.size % BLOCK_SIZE = 0
                 THEN Extend(grown) ELSE grown
  IN  IF s.returned THEN s
      ELSE IF ~ext.returned /\ ext.chr % BLOCK_SIZE = 0 THEN NextBlock(ext)
      ELSE ext

\* Every exit but the failing ones writes the last block and the inode.
WriteResult(p, off, buf) ==
  LET i     == CheckiNodePathName(p)
      f     == fs.inode[i]
      blk   == off \div BLOCK_SIZE
      start == [file |-> f, bmap |-> fs.bmap, disk |-> fs.disk,
                past |-> {<<fs.bmap, fs.disk>>}, blk |-> blk,
                chr |-> off % BLOCK_SIZE, diskbuf |-> fs.disk[0], ret |-> 0,
                returned |-> FALSE, saved |-> FALSE]
      loop  == FoldLeft(WriteByte, BlockRead(start), buf)
      end   == IF loop.returned THEN loop
               ELSE [BlockWrite(loop) EXCEPT !.saved = TRUE]
      after == [fs EXCEPT !.bmap = end.bmap, !.disk = end.disk]
  IN  [fs   |-> IF end.saved THEN WriteInode(after, i, end.file) ELSE after,
       ret  |-> end.ret,
       past |-> end.past]

\* The positions at which the client writes n bytes to a file: up to its end, so
\* that the loop that fills a gap is not entered, and never past the largest size.
Offsets(p, n) == 0..Min({MaxSize - n, fs.inode[CheckiNodePathName(p)].size})

\* It returns, or a crash comes after some of its block writes, at the latest
\* before that of the inode.
Write(p, off, buf) ==
  /\ p \in Live
  /\ off \in Offsets(p, Len(buf))
  /\ LET r == WriteResult(p, off, buf)
     IN  \/ Handles(r.fs)
         \/ \E d \in r.past : Crashes([fs EXCEPT !.bmap = d[1], !.disk = d[2]])

-----------------------------------------------------------------------------
(* sfs_read, which changes nothing.                                        *)

\* Mutant: the position in the block goes back, but the next block is not read.
ReadByte_SameBlock(f, s) ==
  [s EXCEPT !.buf = Append(@, s.diskbuf[s.chr]),
            !.chr = (@ + 1) % BLOCK_SIZE,
            !.blk = IF (s.chr + 1) % BLOCK_SIZE = 0 THEN @ + 1 ELSE @]

\* One round of the loop over the bytes of file f: the byte goes into buf, and
\* behind the last byte of a block the next block is read.
ReadByte(f, s) ==
  LET got == [s EXCEPT !.buf = Append(@, s.diskbuf[s.chr]), !.chr = @ + 1]
  IN  IF got.chr % BLOCK_SIZE # 0 THEN got
      ELSE [got EXCEPT !.blk = @ + 1, !.chr = 0,
                       !.diskbuf = fs.disk[DataAt(f, s.blk + 1)]]

\* The bytes it delivers; none for an offset beyond the end, an error.
ReadResult(p, off, n) ==
  LET f     == fs.inode[CheckiNodePathName(p)]
      blk   == off \div BLOCK_SIZE
      start == [blk |-> blk, chr |-> off % BLOCK_SIZE, buf |-> <<>>,
                diskbuf |-> fs.disk[DataAt(f, blk)]]
  IN  IF off > f.size THEN <<>>
      ELSE FoldLeft(LAMBDA s, j : ReadByte(f, s), start, [j \in 1..n |-> j]).buf

-----------------------------------------------------------------------------
(* sfs_readdir, which changes nothing either: the used inodes but the first. *)
Listing == {fs.inode[i].path : i \in fs.imap \ {0}}

Next ==
  \/ Remount \/ SetFileInit \/ FormatImap \/ FormatBmap \/ MarkRoot \/ WriteRoot
  \/ FormatCrashes
  \/ Destroy
  \/ \E p \in Paths :
       \/ Create(p) \/ CreateCrashes(p)
       \/ Unlink(p)
       \/ \E buf \in Writes[client][p], off \in 0..MaxSize : Write(p, off, buf)

Spec == Init /\ [][Next]_vars

-----------------------------------------------------------------------------
TypeOK ==
  /\ mount \in {"off", "imap", "bmap", "mark", "root", "on"} /\ client \in Clients
  /\ fs.magic \in BOOLEAN
  /\ fs.imap \subseteq Inodes
  /\ fs.bmap \subseteq Blocks
  /\ \A i \in Inodes :
       /\ fs.inode[i].path \in Paths \cup {NoPath, Root}
       /\ fs.inode[i].size \in 0..MaxSize
       /\ fs.inode[i].hardlinks \in {0, 1, 2}
       /\ fs.inode[i].data \in [0..NData - 1 -> Blocks]
  /\ fs.disk \in [Blocks -> [0..BLOCK_SIZE - 1 -> Byte]]

\* "size in blocks can be calculated using BLOCK_SIZE" (params.h): a file owns
\* data[0] .. data[size / BLOCK_SIZE], as far as the array goes.
Files == {i \in fs.imap : fs.inode[i].path \in Paths}
Slots(i) == 0..Min({fs.inode[i].size \div BLOCK_SIZE, NData - 1})
Owned(i) == {fs.inode[i].data[k] : k \in Slots(i)}

\* No data block belongs to two files or twice to one, and the block bitmap
\* marks every block that belongs to a file.
BlocksOwnedOnce ==
  /\ \A i \in Files : Owned(i) \subseteq fs.bmap
  /\ \A i, j \in Files : i # j => Owned(i) \cap Owned(j) = {}
  /\ \A i \in Files : \A k, l \in Slots(i) :
       fs.inode[i].data[k] = fs.inode[i].data[l] => k = l

\* The blocks the bitmap marks that are of no file.
Leaked == fs.bmap \ UNION {Owned(i) : i \in Files}

\* A create or write that succeeds, and an unlink, leak no block, whatever the
\* disk has been through: what they mark is of the file, and what a removed file
\* used can be used again.  (A write that fails and a crash do leak blocks.)
SuccessLeaksNothing ==
  [][fs'.inode # fs.inode \/ fs.imap \ fs'.imap # {} => Leaked' \subseteq Leaked]_fs

\* sfs_readdir lists every file: none lives in inode 0, at which it does not look.
\* (After a crash before sfs_init has marked the root's inode, one may.)
ReaddirListsFiles == client # "crashes" => Live \subseteq Listing

\* The bytes of a file on disk d, from its inode and its blocks.
Bytes(d, i) ==
  LET f == d.inode[i]
  IN  [k \in 1..f.size |->
         d.disk[f.data[(k - 1) \div BLOCK_SIZE]][(k - 1) % BLOCK_SIZE]]

Content(p) == Bytes(fs, CheckiNodePathName(p))

\* What the clients write; a write cut short has stored the first bytes of it.
Buffers == UNION {UNION {UNION {Prefixes(buf) : buf \in Writes[c][p]} : p \in Paths}
                    : c \in Clients}

Abstract == INSTANCE FileStore WITH
  files <- [p \in Live |-> Content(p)]

\* Inodes, bitmaps and blocks together are a file store: create, write and
\* unlink change the one file they name, as FileStore says, and no other.
ImplementsFileStore == Abstract!FSpec

\* sfs_write on disk does what writing to the bytes of the file would do: with
\* enough space it stores every byte of the buffer at its place, extends the file
\* exactly to the end of the written range; and with or without, it leaves the
\* bytes of every other file as they were.
WriteIsExact ==
  \A p \in Live : \A buf \in Writes[client][p] : \A off \in Offsets(p, Len(buf)) :
    LET r == WriteResult(p, off, buf)
    IN  /\ r.ret # -1 =>
             /\ r.ret = Len(buf)
             /\ Bytes(r.fs, CheckiNodePathName(p)) =
                  Abstract!Overwrite(Content(p), off, buf)
        /\ \A q \in Live \ {p} : Bytes(r.fs, CheckiNodePathName(q)) = Content(q)

\* The read loop delivers the bytes of the file, across block boundaries and
\* from whatever block each part is on.
ReadIsExact ==
  \A p \in Live, n \in 1..MaxRead : \A off \in 0..Len(Content(p)) - n :
    ReadResult(p, off, n) = SubSeq(Content(p), off + 1, off + n)
=============================================================================
