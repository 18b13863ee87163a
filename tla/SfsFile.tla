------------------------------ MODULE SfsFile ------------------------------
(***************************************************************************)
(* A regular file of the simple file system (kern/fs/sfs/sfs_inode.c): the *)
(* map from file offsets to disk blocks (direct blocks, then an indirect   *)
(* block of entries), the allocation of blocks, reading and writing in     *)
(* three pieces, growing and truncating, and the in-memory inode that is   *)
(* written back when it is dirty and dropped after the last close.         *)
(*                                                                         *)
(* Descriptors with their positions come from kern/fs/file.c.  A call is   *)
(* one step, see FileTable.  The disk is memory, so its reads and writes   *)
(* do not fail; what fails is the allocation of a block (E_NO_MEM) and the *)
(* assertions, after which the kernel has stopped.                         *)
(*                                                                         *)
(* The operators take the file system s and return it changed; s.ret is    *)
(* what the C function returns or the assertion that fails in it, s.ino    *)
(* the block it stores through ino_store, s.buf what it has read and       *)
(* s.alen the number of bytes it has read or written.                      *)
(***************************************************************************)
EXTENDS Integers, Sequences, FiniteSets, SequencesExt

CONSTANTS
    Handle,     \* descriptors that may be open on the file
    Writes,     \* byte sequences that are written
    MaxRead,    \* bound: bytes in one read
    Block,      \* numbers of the disk blocks behind the inodes, all > 0
    Others,     \* which of them other files may hold
    BLKSIZE,    \* bytes in a block
    NDIRECT,    \* direct blocks of an inode
    NENTRY,     \* entries of an indirect block
    CLOSED

ASSUME SfsAssumption ==
    /\ Block \subseteq Nat \ {0} /\ IsFiniteSet(Block)
    /\ Others \subseteq SUBSET Block
    /\ Writes \subseteq Seq(Nat) /\ MaxRead \in Nat
    /\ {BLKSIZE, NDIRECT, NENTRY} \subseteq Nat \ {0}

\* Bound: offsets that a call may reach.  The kernel refuses offsets above its
\* limit, which no disk of this system has the blocks for.
MaxPos == (NDIRECT + NENTRY) * BLKSIZE

VARIABLES
    fs,         \* free blocks, contents of blocks, inode in memory, dirty;
                \* ret, ino, buf and alen are those of a call that starts
    disk_din,   \* the inode on the disk
    pos,        \* position of each descriptor, or CLOSED
    halted,     \* "no", or the assertion that stopped the kernel
    others      \* blocks of other files, which do not change

vars == <<fs, disk_din, pos, halted, others>>

\* A block holds BLKSIZE bytes, or NENTRY block numbers as an indirect block.
Cell == 0..(IF BLKSIZE > NENTRY THEN BLKSIZE ELSE NENTRY) - 1
zero_block == [c \in Cell |-> 0]
Din == [size : 0..MaxPos, blocks : 0..NDIRECT + NENTRY,
        direct : [0..NDIRECT - 1 -> Block \cup {0}], indirect : Block \cup {0}]

\* What a call returns when no assertion fails in it, and the assertions.
Error == {"ok", "E_NO_MEM"}
Asserted == {"ino == 0 || sfs_block_inuse(ino)", "sfs_block_inuse(ino)",
             "sfs_block_inuse(ent)", "index out of range", "index <= din->blocks",
             "din->blocks != 0", "din->blocks == tblks", "tblks == din->blocks"}

TypeOK ==
    /\ fs.free \subseteq Block
    /\ fs.data \in [Block -> [Cell -> Nat]]
    /\ fs.din \in Din /\ fs.dirty \in BOOLEAN
    /\ fs.ret = "ok" /\ fs.ino = 0 /\ fs.buf = <<>> /\ fs.alen = 0
    /\ disk_din \in Din
    /\ pos \in [Handle -> 0..MaxPos \cup {CLOSED}]
    /\ halted \in Asserted \cup {"no"}
    /\ others \in Others

\* An empty file; the free blocks hold what an earlier file left in them.
Init ==
    /\ others \in Others
    /\ disk_din = [size |-> 0, blocks |-> 0,
                   direct |-> [i \in 0..NDIRECT - 1 |-> 0], indirect |-> 0]
    /\ fs = [free |-> Block \ others, data |-> [b \in Block |-> [c \in Cell |-> 1]],
             din |-> disk_din, dirty |-> FALSE, ret |-> "ok", ino |-> 0,
             buf |-> <<>>, alen |-> 0]
    /\ pos = [h \in Handle |-> CLOSED]
    /\ halted = "no"
-----------------------------------------------------------------------------
(* Blocks *)

Fail(s, r) == [s EXCEPT !.ret = r]
Store(s, b) == [s EXCEPT !.ino = b]

\* The work Op after t, unless t has failed.
Then(t, Op(_)) == IF t.ret = "ok" THEN Op(t) ELSE t

sfs_block_inuse(s, b) == b \in Block \ s.free

\* Mutant: the block keeps what was in it.
sfs_block_alloc_uncleared(s) ==
    IF s.free = {} THEN Fail(s, "E_NO_MEM")
    ELSE [s EXCEPT !.free = @ \ {Min(s.free)}, !.ino = Min(s.free)]

\* bitmap_alloc takes the lowest free block; sfs_clear_block follows.
sfs_block_alloc(s) ==
    IF s.free = {} THEN Fail(s, "E_NO_MEM")
    ELSE LET b == Min(s.free)
         IN  [s EXCEPT !.free = @ \ {b}, !.data[b] = zero_block, !.ino = b]

sfs_block_free(s, b) ==
    IF ~sfs_block_inuse(s, b) THEN Fail(s, "sfs_block_inuse(ino)")
    ELSE [s EXCEPT !.free = @ \cup {b}]
-----------------------------------------------------------------------------
(* From block index to disk block *)

\* Mutant: the new indirect block is not given back.
sfs_bmap_get_sub_keeps(s, index, create) ==
    LET ent == s.din.indirect
        AddEntry(t, u) ==
            IF u.ret = "ok"
            THEN [u EXCEPT !.data[t.ino][index] = u.ino,
                           !.din.indirect = t.ino,
                           !.dirty = @ \/ ent = 0]
            ELSE u
    IN  IF ent # 0 /\ (s.data[ent][index] # 0 \/ ~create) THEN Store(s, s.data[ent][index])
        ELSE IF ~create THEN Store(s, 0)
        ELSE Then(IF ent = 0 THEN sfs_block_alloc(s) ELSE Store(s, ent),
                  LAMBDA t : AddEntry(t, sfs_block_alloc(t)))

\* Through the indirect block, which is allocated with its first entry and
\* given back if there is no block for that entry.
sfs_bmap_get_sub(s, index, create) ==
    LET ent == s.din.indirect
        AddEntry(t, u) ==
            IF u.ret = "ok"
            THEN [u EXCEPT !.data[t.ino][index] = u.ino,
                           !.din.indirect = t.ino,
                           !.dirty = @ \/ ent = 0]
            ELSE IF ent = 0 THEN Fail(sfs_block_free(t, t.ino), u.ret)
            ELSE u
    IN  IF ent # 0 /\ (s.data[ent][index] # 0 \/ ~create) THEN Store(s, s.data[ent][index])
        ELSE IF ~create THEN Store(s, 0)
        ELSE Then(IF ent = 0 THEN sfs_block_alloc(s) ELSE Store(s, ent),
                  LAMBDA t : AddEntry(t, sfs_block_alloc(t)))

sfs_bmap_get(s, index, create) ==
    LET Checked(t) == IF t.ino # 0 /\ ~sfs_block_inuse(t, t.ino)
                      THEN Fail(t, "ino == 0 || sfs_block_inuse(ino)") ELSE t
        AddDirect(t) == [t EXCEPT !.din.direct[index] = t.ino, !.dirty = TRUE]
        Lookup ==
            IF index >= NDIRECT
               THEN IF index - NDIRECT < NENTRY
                    THEN sfs_bmap_get_sub(s, index - NDIRECT, create)
                    ELSE Fail(s, "index out of range")
            ELSE IF s.din.direct[index] # 0 \/ ~create THEN Store(s, s.din.direct[index])
            ELSE Then(sfs_block_alloc(s), AddDirect)
    IN  Then(Lookup, Checked)

\* Mutant: a new block pointer in the inode does not mark it.
sfs_bmap_load_unmarked(s, index) ==
    LET create == index = s.din.blocks
        Loaded(t) == IF ~sfs_block_inuse(t, t.ino) THEN Fail(t, "sfs_block_inuse(ino)")
                     ELSE IF create THEN [t EXCEPT !.din.blocks = @ + 1] ELSE t
    IN  IF index > s.din.blocks THEN Fail(s, "index <= din->blocks")
        ELSE Then([sfs_bmap_get(s, index, create) EXCEPT !.dirty = s.dirty], Loaded)

\* The block of an index of the file; an index just behind the end adds one.
sfs_bmap_load(s, index) ==
    LET create == index = s.din.blocks
        Loaded(t) == IF ~sfs_block_inuse(t, t.ino) THEN Fail(t, "sfs_block_inuse(ino)")
                     ELSE IF create THEN [t EXCEPT !.din.blocks = @ + 1] ELSE t
    IN  IF index > s.din.blocks THEN Fail(s, "index <= din->blocks")
        ELSE Then(sfs_bmap_get(s, index, create), Loaded)

\* Mutant: the entry still names the block.
sfs_bmap_free_sub_keeps(s, ent, index) ==
    LET b == s.data[ent][index]
    IN  IF ~sfs_block_inuse(s, ent) THEN Fail(s, "sfs_block_inuse(ent)")
        ELSE IF b = 0 THEN s
        ELSE sfs_block_free(s, b)

sfs_bmap_free_sub(s, ent, index) ==
    LET b == s.data[ent][index]
    IN  IF ~sfs_block_inuse(s, ent) THEN Fail(s, "sfs_block_inuse(ent)")
        ELSE IF b = 0 THEN s
        ELSE sfs_block_free([s EXCEPT !.data[ent][index] = 0], b)

sfs_bmap_free(s, index) ==
    IF index < NDIRECT
    THEN IF s.din.direct[index] = 0 THEN s
         ELSE [sfs_block_free(s, s.din.direct[index])
                  EXCEPT !.din.direct[index] = 0, !.dirty = TRUE]
    ELSE IF index - NDIRECT < NENTRY /\ s.din.indirect # 0
         THEN sfs_bmap_free_sub(s, s.din.indirect, index - NDIRECT)
         ELSE s

\* The last block of the file goes.
sfs_bmap_truncate(s) ==
    IF s.din.blocks = 0 THEN Fail(s, "din->blocks != 0")
    ELSE Then(sfs_bmap_free(s, s.din.blocks - 1),
              LAMBDA t : [t EXCEPT !.din.blocks = @ - 1, !.dirty = TRUE])
-----------------------------------------------------------------------------
(* Reading and writing *)

\* Do the work Op for the elements of a sequence until one of them fails.
Each(Op(_, _), s, seq) ==
    LET after[i \in 0..Len(seq)] ==
            IF i = 0 THEN s ELSE Then(after[i - 1], LAMBDA t : Op(t, seq[i]))
    IN  after[Len(seq)]

\* Mutant: the first block is counted among the whole ones again.
PiecesHeadTwice(offset, endpos) ==
    LET blkno  == offset \div BLKSIZE
        blkoff == offset % BLKSIZE
        nblks  == endpos \div BLKSIZE - blkno
        head   == IF blkoff # 0 THEN 1 ELSE 0
        first  == [blk |-> blkno, off |-> blkoff,
                   len |-> IF nblks # 0 THEN BLKSIZE - blkoff ELSE endpos - offset]
        middle == [i \in 1..nblks |-> [blk |-> blkno + i - 1, off |-> 0, len |-> BLKSIZE]]
        last   == [blk |-> blkno + nblks, off |-> 0, len |-> endpos % BLKSIZE]
    IN  IF head = 1 /\ nblks = 0 THEN <<first>>
        ELSE (IF head = 1 THEN <<first>> ELSE <<>>)
               \o middle
               \o (IF endpos % BLKSIZE # 0 THEN <<last>> ELSE <<>>)

\* The pieces of an access from offset to endpos: up to the end of the first
\* block, whole blocks, the beginning of the last one.
Pieces(offset, endpos) ==
    LET blkno  == offset \div BLKSIZE
        blkoff == offset % BLKSIZE
        nblks  == endpos \div BLKSIZE - blkno
        head   == IF blkoff # 0 THEN 1 ELSE 0
        whole  == nblks - head
        first  == [blk |-> blkno, off |-> blkoff,
                   len |-> IF nblks # 0 THEN BLKSIZE - blkoff ELSE endpos - offset]
        middle == [i \in 1..whole |-> [blk |-> blkno + head + i - 1, off |-> 0,
                                       len |-> BLKSIZE]]
        last   == [blk |-> blkno + head + whole, off |-> 0, len |-> endpos % BLKSIZE]
    IN  IF head = 1 /\ nblks = 0 THEN <<first>>
        ELSE (IF head = 1 THEN <<first>> ELSE <<>>)
               \o middle
               \o (IF endpos % BLKSIZE # 0 THEN <<last>> ELSE <<>>)

\* sfs_rbuf, sfs_wbuf and the block operations: the bytes of the piece x are
\* copied between its block u.ino and the buffer of the caller.
sfs_buf_op(u, x, buf, write) ==
    LET d == u.data[u.ino]
    IN  IF write
        THEN [u EXCEPT !.alen = @ + x.len,
                       !.data[u.ino] = [c \in Cell |-> IF c \in x.off..x.off + x.len - 1
                                                       THEN buf[u.alen + c - x.off + 1]
                                                       ELSE d[c]]]
        ELSE [u EXCEPT !.alen = @ + x.len,
                       !.buf = @ \o [i \in 1..x.len |-> d[x.off + i - 1]]]

\* sfs_io_nolock for writing buf, or for reading n bytes.
sfs_io(s, offset, n, buf, write) ==
    LET want   == offset + n
        endpos == IF ~write /\ want > s.din.size THEN s.din.size ELSE want
        piece(t, x) == Then(sfs_bmap_load(t, x.blk),
                            LAMBDA u : sfs_buf_op(u, x, buf, write))
        Grown(t) == IF offset + t.alen > t.din.size
                    THEN [t EXCEPT !.din.size = offset + t.alen, !.dirty = TRUE]
                    ELSE t
    IN  IF n = 0 \/ (~write /\ offset >= s.din.size) THEN s
        ELSE Grown(Each(piece, s, Pieces(offset, endpos)))

sfs_read(s, offset, n) == sfs_io(s, offset, n, <<>>, FALSE)
sfs_write(s, offset, bytes) == sfs_io(s, offset, Len(bytes), bytes, TRUE)

\* sfs_truncfile: add blocks at the end, or take them away, one by one.
sfs_truncfile(s, len) ==
    LET tblks == (len + BLKSIZE - 1) \div BLKSIZE
        nblks == s.din.blocks
        Resized(t) == IF t.din.blocks # tblks THEN Fail(t, "din->blocks == tblks")
                      ELSE [t EXCEPT !.din.size = len, !.dirty = TRUE]
    IN  IF s.din.size = len
        THEN IF tblks # nblks THEN Fail(s, "tblks == din->blocks") ELSE s
        ELSE Then(IF nblks < tblks
                  THEN Each(LAMBDA u, i : sfs_bmap_load(u, nblks + i - 1),
                            s, [i \in 1..tblks - nblks |-> i])
                  ELSE Each(LAMBDA u, i : sfs_bmap_truncate(u),
                            s, [i \in 1..nblks - tblks |-> i]),
                  Resized)
-----------------------------------------------------------------------------
(* The calls *)

Opened == {h \in Handle : pos[h] # CLOSED}

\* What a call leaves: the new file system, or a kernel that has stopped.
Return(t) ==
    IF t.ret \in Error
    THEN /\ fs' = [free |-> t.free, data |-> t.data, din |-> t.din, dirty |-> t.dirty,
                   ret |-> "ok", ino |-> 0, buf |-> <<>>, alen |-> 0]
         /\ UNCHANGED halted
    ELSE halted' = t.ret /\ UNCHANGED fs

SetPos(h, t, p) == pos' = [pos EXCEPT ![h] = IF t.ret \in Error THEN p ELSE @]

\* file_open, with O_TRUNC or not; O_APPEND starts at the end.
Open(h, trunc, append) ==
    LET t == IF trunc THEN sfs_truncfile(fs, 0) ELSE fs
    IN  /\ halted = "no" /\ pos[h] = CLOSED
        /\ Return(t)
        /\ SetPos(h, t, IF append THEN t.din.size ELSE 0)
        /\ UNCHANGED disk_din

Read(h, n) ==
    LET t == sfs_read(fs, pos[h], n)
    IN  /\ halted = "no" /\ h \in Opened
        /\ Return(t)
        /\ SetPos(h, t, pos[h] + t.alen)
        /\ UNCHANGED disk_din

Write(h, bytes) ==
    LET t == sfs_write(fs, pos[h], bytes)
    IN  /\ halted = "no" /\ h \in Opened
        /\ pos[h] + Len(bytes) <= MaxPos
        /\ Return(t)
        /\ SetPos(h, t, pos[h] + t.alen)
        /\ UNCHANGED disk_din

\* file_seek to p, by whichever whence: sfs_tryseek makes the file longer.
Seek(h, p) ==
    LET t == IF p > fs.din.size THEN sfs_truncfile(fs, p) ELSE fs
    IN  /\ halted = "no" /\ h \in Opened
        /\ Return(t)
        /\ SetPos(h, t, IF t.ret = "ok" THEN p ELSE pos[h])
        /\ UNCHANGED disk_din

sfs_fsync == IF fs.dirty THEN fs.din ELSE disk_din

Fsync ==
    /\ halted = "no" /\ Opened # {}
    /\ disk_din' = sfs_fsync
    /\ fs' = [fs EXCEPT !.dirty = FALSE]
    /\ UNCHANGED <<pos, halted>>

\* The last close writes the inode if it is dirty and drops it; the next open
\* reads it from the disk.
Close(h) ==
    /\ halted = "no" /\ h \in Opened
    /\ pos' = [pos EXCEPT ![h] = CLOSED]
    /\ IF Opened = {h}
       THEN /\ disk_din' = sfs_fsync
            /\ fs' = [fs EXCEPT !.dirty = FALSE, !.din = disk_din']
       ELSE UNCHANGED <<fs, disk_din>>
    /\ UNCHANGED halted

Call(h) ==
    \/ \E trunc, append \in BOOLEAN : Open(h, trunc, append)
    \/ \E n \in 1..MaxRead : Read(h, n)
    \/ \E bytes \in Writes : Write(h, bytes)
    \/ \E p \in 0..MaxPos : Seek(h, p)
    \/ Close(h)

Next == (Fsync \/ \E h \in Handle : Call(h)) /\ UNCHANGED others

Spec == Init /\ [][Next]_vars
-----------------------------------------------------------------------------
(* Properties *)

BlockOf(i) == IF i < NDIRECT THEN fs.din.direct[i]
              ELSE fs.data[fs.din.indirect][i - NDIRECT]

\* The bytes of the file, one at a time through the block map.
Content == [k \in 1..fs.din.size |->
              fs.data[BlockOf((k - 1) \div BLKSIZE)][(k - 1) % BLKSIZE]]

\* Every place that names a block: the direct blocks, the indirect block and
\* all of its entries, also the ones behind the end of the file.
Places == {<<"direct", i>> : i \in 0..NDIRECT - 1} \cup {<<"indirect", 0>>}
             \cup (IF fs.din.indirect = 0 THEN {}
                   ELSE {<<"entry", i>> : i \in 0..NENTRY - 1})
Named(l) == CASE l[1] = "direct"   -> fs.din.direct[l[2]]
              [] l[1] = "indirect" -> fs.din.indirect
              [] l[1] = "entry"    -> fs.data[fs.din.indirect][l[2]]

\* A block is free, another file's, or has exactly one place that names it: none
\* is used twice and none is lost, through failed growth, truncation, and inodes
\* that are dropped and read again.
BlocksOwnedOnce ==
    /\ {Named(l) : l \in Places} \ {0} = Block \ (fs.free \cup others)
    /\ fs.free \cap others = {}
    /\ \A l, m \in Places : Named(l) = Named(m) /\ Named(l) # 0 => l = m

\* At every offset and length sfs_read, which works in pieces of blocks,
\* returns the bytes of the file that are there and no more.
ReadsExact ==
    \A k \in 0..MaxPos, n \in 1..MaxRead :
        sfs_read(fs, k, n).buf =
            IF k >= Len(Content) THEN <<>>
            ELSE SubSeq(Content, k + 1, IF k + n < Len(Content) THEN k + n ELSE Len(Content))

File == INSTANCE ByteFile WITH content <- Content

\* The blocks behave as one sequence of bytes: a write puts its bytes at the
\* position of its descriptor and nowhere else, or the first of them when the
\* disk is full; a gap reads as 0, whatever was in the blocks before; a failed
\* seek past the end, the last close and the open that reads the inode again
\* leave the file as it is.
ImplementsByteFile == File!Spec

\* The flag dirty against the inode on the disk: an inode in memory that is not
\* dirty has the size and the block pointers of the one on the disk, also when a
\* seek ran out of blocks half way.  Only its count of blocks may be ahead, by
\* blocks that such a seek has added through an indirect block in use.
OnlyCountUnmarked ==
    ~fs.dirty => /\ fs.din = [disk_din EXCEPT !.blocks = fs.din.blocks]
                 /\ fs.din.blocks >= disk_din.blocks

\* Of all the assertions about the block map only two can fail, and each only
\* after its own kind of damage: "index <= din->blocks" when a descriptor is
\* left behind the end of a file that another open has truncated, and
\* "tblks == din->blocks" when a seek past the end has failed on a full disk
\* and left the blocks it had added.
FailsOnlyAfterDamage ==
    [][halted' # "no" =>
         \/ /\ halted' = "index <= din->blocks"
            /\ \E h \in Opened : pos[h] \div BLKSIZE > fs.din.blocks
         \/ /\ halted' = "tblks == din->blocks"
            /\ fs.din.blocks * BLKSIZE >= fs.din.size + BLKSIZE]_vars
=============================================================================
