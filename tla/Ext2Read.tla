------------------------------ MODULE Ext2Read ------------------------------
(***************************************************************************)
(* Reading a file of an ext2 file system (qi-usb-lcd/src/fs/ext2.c and     *)
(* dev.c): ext2fs_read_file walks over the blocks of the request, asks     *)
(* ext2fs_read_block for the number of each, and collects neighbouring     *)
(* blocks into one delayed ext2fs_devread.  The indirect blocks read last  *)
(* are kept between calls, and the single and the double indirect block    *)
(* share one buffer.                                                       *)
(*                                                                         *)
(* A byte of the disk is its address; what a block holds when it is taken  *)
(* for an indirect block is Table.  All file systems have one block size.  *)
(***************************************************************************)
EXTENDS Integers

CONSTANTS
    SectorSize,         \* bytes of a sector
    SectorsPerBlock,    \* 1 << log2blocksize
    Direct,             \* INDIRECT_BLOCKS
    PerBlock,           \* block numbers in an indirect block, blksz / 4
    PartitionBlocks,    \* blocks of the partition, partition_length_blocks
    Table,              \* Table[b]: block b read as block numbers
    Files,              \* the inodes
    Requests,           \* what is asked for: file, pos, len
    Room,               \* bytes of memory from the buffer on
    MaxFaults           \* bound: failing reads

BlockSize == SectorSize * SectorsPerBlock
Blocks == 0 .. PartitionBlocks - 1
Entries(n) == [0 .. n - 1 -> Nat]
Inode == [dir: Entries(Direct), ind: Nat, dbl: Nat, size: Nat]

ASSUME GeometryAssumption ==
    /\ SectorSize \in Nat \ {0} /\ SectorsPerBlock \in Nat \ {0, 1}
    /\ Direct \in Nat \ {0} /\ PerBlock \in Nat \ {0}
    /\ PartitionBlocks \in Nat \ {0}
    /\ Room \in Nat \ {0} /\ MaxFaults \in Nat

\* A request is for the beginning of a file or for bytes inside it
\* (ext2fs_read_symlink, ext2fs_read; ext2fs_iterate_dir).
ASSUME FilesAssumption ==
    /\ Table \in [Blocks -> Entries(PerBlock)]
    /\ Files \subseteq Inode
    /\ Requests \subseteq [file: Files, pos: Nat, len: Nat \ {0}]
    /\ \A r \in Requests : r.pos = 0 \/ r.pos + r.len <= r.file.size
    /\ \A r \in Requests : r.len + 2 * BlockSize <= Room

VARIABLES
    pc,
    req,            \* the arguments of ext2fs_read_file, len adjusted
    i,              \* the block of the file in hand
    blknr,          \* its number on the disk
    buf,            \* where its bytes go
    delayed,        \* the read put off: sector, skip, extent, buf, next
    mem,            \* the memory from the caller's buffer on
    indir1, indir2, \* cached indirect blocks and their numbers
    result,
    faults,
    torn            \* history: reading an indirect block has failed

walk == <<req, i, blknr, buf, delayed, mem, result>>
vars == <<pc, walk, indir1, indir2, faults, torn>>

NoBlock == -1       \* indir1_blkno and indir2_blkno at first
Untouched == -1
Zero == -2          \* what memset writes, and what a hole holds
Addresses == 0 .. BlockSize * PartitionBlocks - 1
Cache == [no: Blocks \union {NoBlock}, tab: Entries(PerBlock)]
Delayed == [on: BOOLEAN, start: Nat, skip: 0 .. BlockSize, extent: 0 .. Room,
            buf: 0 .. Room, next: Nat]

\* blockcnt
BlockCount == (req.len + req.pos + BlockSize - 1) \div BlockSize

TypeOK ==
    /\ pc \in {"idle", "lookup", "place", "flush", "done"}
    /\ req \in [file: Files, pos: Nat, len: Nat] /\ req.len <= req.file.size
    /\ i \in 0 .. BlockCount /\ blknr \in Nat
    /\ buf \in 0 .. Room
    /\ delayed \in Delayed
    /\ mem \in [0 .. Room - 1 -> Addresses \union {Untouched, Zero}]
    /\ indir1 \in Cache /\ indir2 \in Cache
    /\ result \in Nat \union {-1}
    /\ faults \in 0 .. MaxFaults /\ torn \in BOOLEAN

\* "Adjust len so it we can't read past the end of the file."
Adjusted(r) == IF r.len > r.file.size THEN [r EXCEPT !.len = r.file.size] ELSE r

NoCache == [no |-> NoBlock, tab |-> [k \in 0 .. PerBlock - 1 |-> 0]]
NoDelay == [on |-> FALSE, start |-> 0, skip |-> 0, extent |-> 0, buf |-> 0, next |-> 0]

Init ==
    /\ pc = "idle"
    /\ req \in {Adjusted(r) : r \in Requests}
    /\ i = 0 /\ blknr = 0 /\ buf = 0 /\ delayed = NoDelay
    /\ mem = [k \in 0 .. Room - 1 |-> Untouched]
    /\ indir1 = NoCache /\ indir2 = NoCache
    /\ result = 0 /\ faults = 0 /\ torn = FALSE

Fault == faults < MaxFaults /\ faults' = faults + 1
NoFault == UNCHANGED faults

\* The next call, with another buffer; the caches stay.  Of an empty file no
\* block is looked up.
Call(r) ==
    /\ pc \in {"idle", "done"}
    /\ req' = Adjusted(r)
    /\ i' = r.pos \div BlockSize
    /\ blknr' = 0 /\ buf' = 0 /\ delayed' = NoDelay /\ result' = 0
    /\ mem' = [k \in 0 .. Room - 1 |-> Untouched]
    /\ pc' = IF i' < BlockCount' THEN "lookup" ELSE "flush"
    /\ UNCHANGED <<indir1, indir2, faults, torn>>

\* return -1
Fail ==
    /\ result' = -1 /\ pc' = "done"
    /\ UNCHANGED <<req, i, blknr, buf, delayed>>

-----------------------------------------------------------------------------
(* ext2fs_read_block *)

Single == Direct <= i /\ i < Direct + PerBlock
Double == Direct + PerBlock <= i /\ i < Direct + PerBlock * (PerBlock + 1)
Rblock == i - (Direct + PerBlock)

Found(b) ==
    /\ blknr' = b /\ pc' = "place"
    /\ UNCHANGED <<req, i, buf, delayed, mem, result>>

LookupDirect ==
    /\ pc = "lookup" /\ i < Direct
    /\ Found(req.file.dir[i])
    /\ UNCHANGED <<indir1, indir2, faults, torn>>

\* The indirect block that has to be in indir1, and the one in indir2.
Want1 == IF Single THEN req.file.ind ELSE req.file.dbl
Want2 == indir1.tab[Rblock \div PerBlock]

Loaded(b) == [no |-> b, tab |-> Table[b]]

\* A failed read has filled the buffer up to k, under the number it had.
Half(cache, b, k) ==
    [cache EXCEPT !.tab = [n \in 0 .. PerBlock - 1 |-> IF n < k THEN Table[b][n] ELSE @[n]]]

\* Block b cannot be read, or lies outside the partition.
Unread(cache, cache1, b) ==
    /\ torn' = TRUE
    /\ \/ b \notin Blocks /\ cache1 = cache /\ NoFault
       \/ b \in Blocks /\ Fault /\ \E k \in 0 .. PerBlock - 1 : cache1 = Half(cache, b, k)

Fetch1 ==
    /\ pc = "lookup" /\ (Single \/ Double)
    /\ indir1.no # Want1 /\ Want1 \in Blocks
    /\ indir1' = Loaded(Want1)
    /\ UNCHANGED <<pc, walk, indir2, faults, torn>>

\* Without the single indirect block the number is 0, a hole; without the
\* double indirect block the read has failed.
Fetch1Fails ==
    /\ pc = "lookup" /\ (Single \/ Double)
    /\ indir1.no # Want1 /\ Unread(indir1, indir1', Want1)
    /\ \/ Single /\ Found(0)
       \/ Double /\ Fail /\ UNCHANGED mem
    /\ UNCHANGED indir2

Lookup1 ==
    /\ pc = "lookup" /\ Single /\ indir1.no = Want1
    /\ Found(indir1.tab[i - Direct])
    /\ UNCHANGED <<indir1, indir2, faults, torn>>

Fetch2 ==
    /\ pc = "lookup" /\ Double /\ indir1.no = Want1 /\ indir2.no # Want2
    /\ Want2 \in Blocks
    /\ indir2' = Loaded(Want2)
    /\ UNCHANGED <<pc, walk, indir1, faults, torn>>

Fetch2Fails ==
    /\ pc = "lookup" /\ Double /\ indir1.no = Want1 /\ indir2.no # Want2
    /\ Unread(indir2, indir2', Want2)
    /\ Fail /\ UNCHANGED <<mem, indir1>>

Lookup2 ==
    /\ pc = "lookup" /\ Double /\ indir1.no = Want1 /\ indir2.no = Want2
    /\ Found(indir2.tab[Rblock % PerBlock])
    /\ UNCHANGED <<indir1, indir2, faults, torn>>

\* "ext2fs doesn't support triple indirect blocks."
LookupTriple ==
    /\ pc = "lookup" /\ i >= Direct + PerBlock * (PerBlock + 1)
    /\ Fail /\ UNCHANGED <<mem, indir1, indir2, faults, torn>>

-----------------------------------------------------------------------------
(* ext2fs_devread: an unaligned head, whole sectors, a tail *)

Least(a, b) == IF a < b THEN a ELSE b
HeadLen(d) ==
    IF d.skip % SectorSize = 0 THEN 0
    ELSE Least(SectorSize - (d.skip % SectorSize), d.extent)
WholeLen(d) == ((d.extent - HeadLen(d)) \div SectorSize) * SectorSize
TailStart(d) == HeadLen(d) + WholeLen(d)

FirstSector(d) == d.start + d.skip \div SectorSize
WholeSector(d) == FirstSector(d) + (IF d.skip % SectorSize = 0 THEN 0 ELSE 1)
TailSector(d) == WholeSector(d) + WholeLen(d) \div SectorSize

\* The byte that comes to place k of what is read.
Delivered(d, k) ==
    CASE k < HeadLen(d) -> FirstSector(d) * SectorSize + (d.skip % SectorSize) + k
      [] HeadLen(d) <= k /\ k < TailStart(d) -> WholeSector(d) * SectorSize + k - HeadLen(d)
      [] OTHER -> TailSector(d) * SectorSize + k - TailStart(d)

\* Where a read can break off; a failed part may have given whole sectors.
Cuts(d) ==
    (IF HeadLen(d) > 0 THEN {0} ELSE {})
    \union {HeadLen(d) + n * SectorSize : n \in 0 .. WholeLen(d) \div SectorSize - 1}
    \union (IF TailStart(d) < d.extent THEN {TailStart(d)} ELSE {})

\* Mutant: only the first sector is compared.
OutsideStart(d) == d.start >= PartitionBlocks * SectorsPerBlock

\* "Check partition boundaries"
Outside(d) ==
    d.start + (d.skip + d.extent - 1) \div SectorSize >= PartitionBlocks * SectorsPerBlock

Stored(d, n) ==
    [k \in 0 .. Room - 1 |-> IF k - d.buf \in 0 .. n - 1 THEN Delivered(d, k - d.buf) ELSE mem[k]]

DevreadFails(d) ==
    /\ \/ Outside(d) /\ NoFault /\ UNCHANGED mem
       \/ ~Outside(d) /\ Fault /\ \E n \in Cuts(d) : mem' = Stored(d, n)
    /\ Fail

-----------------------------------------------------------------------------
(* The loop of ext2fs_read_file *)

Skipfirst == IF i = req.pos \div BlockSize THEN req.pos % BlockSize ELSE 0

\* Mutant: the last block is taken whole.
BlockendWhole == BlockSize - Skipfirst

Blockend ==
    LET last == (req.len + req.pos) % BlockSize
    IN  (IF i = BlockCount - 1 /\ last # 0 THEN last ELSE BlockSize) - Skipfirst

Sector == blknr * SectorsPerBlock

\* Mutant: delayed_skipfirst is not set again.
BegunSkipped == [on |-> TRUE, start |-> Sector, skip |-> delayed.skip, extent |-> Blockend,
                 buf |-> buf, next |-> Sector + Blockend \div SectorSize]

\* A new delayed read begins with the block in hand.
Begun == [on |-> TRUE, start |-> Sector, skip |-> Skipfirst, extent |-> Blockend,
          buf |-> buf, next |-> Sector + Blockend \div SectorSize]

Advance ==
    /\ i' = i + 1 /\ buf' = buf + BlockSize - Skipfirst
    /\ pc' = IF i + 1 < BlockCount THEN "lookup" ELSE "flush"
    /\ UNCHANGED <<req, blknr, result, indir1, indir2, faults, torn>>

Begin ==
    /\ pc = "place" /\ blknr # 0 /\ ~delayed.on
    /\ delayed' = Begun
    /\ Advance /\ UNCHANGED mem

Extend ==
    /\ pc = "place" /\ blknr # 0 /\ delayed.on /\ delayed.next = Sector
    /\ delayed' = [delayed EXCEPT !.extent = @ + Blockend,
                                  !.next = @ + Blockend \div SectorSize]
    /\ Advance /\ UNCHANGED mem

Spill ==
    /\ pc = "place" /\ blknr # 0 /\ delayed.on /\ delayed.next # Sector
    /\ ~Outside(delayed)
    /\ mem' = Stored(delayed, delayed.extent)
    /\ delayed' = Begun
    /\ Advance

\* memset(buf, 0, blocksize - skipfirst), behind the delayed read.
ZeroFilled(m) ==
    [k \in 0 .. Room - 1 |-> IF k - buf \in 0 .. BlockSize - Skipfirst - 1 THEN Zero ELSE m[k]]

Hole ==
    /\ pc = "place" /\ blknr = 0
    /\ delayed.on => ~Outside(delayed)
    /\ mem' = ZeroFilled(IF delayed.on THEN Stored(delayed, delayed.extent) ELSE mem)
    /\ delayed' = [delayed EXCEPT !.on = FALSE]
    /\ Advance

\* The read in front of a block that does not continue it fails.
PlaceFails ==
    /\ pc = "place" /\ delayed.on /\ (blknr = 0 \/ delayed.next # Sector)
    /\ DevreadFails(delayed)
    /\ UNCHANGED <<indir1, indir2, torn>>

\* Mutant: the last delayed read is forgotten.
FlushForgets ==
    /\ pc = "flush"
    /\ result' = req.len /\ pc' = "done"
    /\ UNCHANGED <<req, i, blknr, buf, delayed, mem, indir1, indir2, faults, torn>>

\* The last delayed read, and return len.
Flush ==
    /\ pc = "flush"
    /\ delayed.on => ~Outside(delayed)
    /\ mem' = IF delayed.on THEN Stored(delayed, delayed.extent) ELSE mem
    /\ result' = req.len /\ pc' = "done"
    /\ UNCHANGED <<req, i, blknr, buf, delayed, indir1, indir2, faults, torn>>

FlushFails ==
    /\ pc = "flush" /\ delayed.on
    /\ DevreadFails(delayed)
    /\ UNCHANGED <<indir1, indir2, torn>>

-----------------------------------------------------------------------------
Lookup == LookupDirect \/ Lookup1 \/ Lookup2 \/ LookupTriple
Fetch == Fetch1 \/ Fetch1Fails \/ Fetch2 \/ Fetch2Fails
Place == Begin \/ Extend \/ Spill \/ Hole \/ PlaceFails \/ Flush \/ FlushFails

Next == (\E r \in Requests : Call(r)) \/ Lookup \/ Fetch \/ Place

Spec == Init /\ [][Next]_vars

-----------------------------------------------------------------------------
(* Properties *)

\* The number of block n of file f, 0 for a hole.
Entry(b, k) == IF b = 0 THEN 0 ELSE Table[b][k]
BlockOf(f, n) ==
    LET r == n - (Direct + PerBlock)
    IN  CASE n < Direct -> f.dir[n]
          [] Direct <= n /\ n < Direct + PerBlock -> Entry(f.ind, n - Direct)
          [] OTHER -> Entry(Entry(f.dbl, r \div PerBlock), r % PerBlock)

ByteOf(f, o) ==
    LET b == BlockOf(f, o \div BlockSize)
    IN  IF b = 0 THEN Zero ELSE b * BlockSize + (o % BlockSize)

\* The file is small enough, all that it takes to find its blocks is there, and
\* no block comes twice in succession.
Span(f) == 0 .. (f.size + BlockSize - 1) \div BlockSize - 1
There == 1 .. PartitionBlocks - 1
Mapped(f, n) ==
    /\ n < Direct + PerBlock * (PerBlock + 1)
    /\ Direct <= n /\ n < Direct + PerBlock => f.ind \in There
    /\ Direct + PerBlock <= n =>
          f.dbl \in There /\ Table[f.dbl][(n - Direct - PerBlock) \div PerBlock] \in There
    /\ BlockOf(f, n) \in Blocks
Repeated(f, n) == BlockOf(f, n) # 0 /\ BlockOf(f, n + 1) = BlockOf(f, n)
Sound(f) ==
    /\ \A n \in Span(f) : Mapped(f, n)
    /\ \A n \in Span(f) : n + 1 \in Span(f) => ~Repeated(f, n)

Asked == 0 .. req.len - 1

\* ext2.c:428-474, dev.c:58-119: no byte that was asked for is ever another
\* byte than the file's, whatever was read before and whatever fails, unless
\* an indirect block could not be read.
NeverWrong ==
    (~torn /\ Sound(req.file)) =>
        \A k \in Asked : mem[k] \in {Untouched, ByteOf(req.file, req.pos + k)}

\* ext2.c:488: a read that returns a length has written all of it, and without
\* a fault a sound file is read.
ReadsWhole ==
    pc = "done" =>
        /\ result >= 0 => result = req.len /\ \A k \in Asked : mem[k] # Untouched
        /\ (faults = 0 /\ Sound(req.file)) => result = req.len

\* ext2.c:473: behind the bytes that were asked for only the rest of a last
\* block without a number is written, with zeros.
EndsInHole == blknr = 0 /\ i = BlockCount
StaysInside ==
    \A k \in 0 .. Room - 1 : (k >= req.len /\ mem[k] # Untouched) =>
        mem[k] = Zero /\ EndsInHole /\ k < BlockCount * BlockSize - req.pos
=============================================================================
