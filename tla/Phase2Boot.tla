----------------------------- MODULE Phase2Boot -----------------------------
(***************************************************************************)
(* The second phase of Qi for the SmartQ (qi-usb-lcd): start_qi loads the  *)
(* whole loader, bootloader_second_phase (phase2.c) tries the kernel       *)
(* sources of the board table in smartq.c one after the other, USB first   *)
(* and then the partitions of the SD card, with the read-only ext2 of      *)
(* fs/ext2.c below it.                                                     *)
(*                                                                         *)
(* What outlives one source and is there for the next: the buffer of the   *)
(* appended command line (a static), the cached indirect block of ext2.c   *)
(* with its block number (never dropped, since nobody calls ext2fs_close), *)
(* and the malloc pool, which free never refills.                          *)
(*                                                                         *)
(* A kernel file is larger than its direct blocks, so reading it in full   *)
(* goes through its indirect block ("table"), and, if it is larger still,  *)
(* its double indirect block; the other files, the directories and the     *)
(* first 4096 bytes of the kernel do not.  The number of a double indirect *)
(* block, or of a block below it, is taken to be no other kernel's.        *)
(***************************************************************************)
EXTENDS Integers

CONSTANTS
    N,              \* partitions of the board table (4 on the SmartQ)
    Media,          \* what a partition of the card may hold
    TableOf,        \* TableOf[p]: block number of the kernel's indirect block
    Cells,          \* sizeof commandline_rootfs_append
    Pool,           \* MALLOC_POOL_EXTENT
    Mount, Node,    \* what malloc takes of it for ext2_data and ext2fs_node
    MaxFaults       \* bound: failing reads of the SD card

Parts == 1 .. N
Kinds == {"none", "garbage", "uimage", "ubad", "zimage", "zshort"}

\* A partition: is there an ext2 file system; what malloc takes for a block of
\* it; how many directory entries a lookup passes, and what malloc takes for the
\* texts of the symbolic links on the way; is there a noboot file; the length of
\* the append file (0: no such file); what the kernel file is and how many levels
\* of tables it has.  "ubad" has a wrong CRC, the length of "zshort" is not the
\* one in its header.
Partition == [mount: BOOLEAN, block: Nat \ {0}, dir: Nat, links: Nat, noboot: BOOLEAN,
              append: Nat, kernel: Kinds, levels: {1, 2}]

ASSUME BootAssumption ==
    /\ N \in Nat /\ Cells \in Nat \ {0} /\ Pool \in Nat /\ MaxFaults \in Nat
    /\ Mount \in Nat /\ Node \in Nat
    /\ Media \subseteq Partition
    /\ TableOf \in [Parts -> Nat]

VARIABLES
    media,          \* the partitions of the card
    mbr,            \* the card has a partition table
    cable,          \* a USB cable is plugged in, we are its device
    pc,
    loaded,         \* all of Qi is in SDRAM
    this_kernel,    \* index of the source in the board table
    append,         \* commandline_rootfs_append: 0 is NUL, p a byte of p's file
    indir1,         \* cached indirect block: its number, and whose it is
    sizes,          \* indir1_size and indir2_size, of the buffers malloc'd
    pool,           \* what has been taken of the pool
    dram,           \* the kernel in memory
    faults,
    hit             \* history: the partitions a fault fell on

heap   == <<sizes, pool>>
vars   == <<media, mbr, cable, pc, loaded, this_kernel, append, indir1, heap,
            dram, faults, hit>>
medium == <<media, mbr, cable>>

None  == -1         \* indir1_blkno of no block
Mixed == 0          \* a buffer a failed read was writing to
NoTable == [no |-> None, of |-> Mixed]

Pcs == {"start", "second", "init", "usb", "usbrun", "noboot", "append",
        "head", "load", "run", "end", "hung"}

TypeOK ==
    /\ media \in [Parts -> Media] /\ mbr \in BOOLEAN /\ cable \in BOOLEAN
    /\ pc \in Pcs
    /\ loaded \in BOOLEAN
    /\ this_kernel \in 0 .. N + 1
    /\ pc \in {"noboot", "append", "head", "load", "run"} => this_kernel \in Parts
    /\ pc # "end" => this_kernel \in 0 .. N
    /\ append \in [1 .. Cells -> 0 .. N]
    /\ indir1 \in [no: Nat \union {None}, of: 0 .. N]
    /\ sizes \in [1 .. 2 -> Nat]
    /\ pool \in 0 .. Pool
    /\ dram \in [of: 0 .. N, data: {"intact", "holed", "wrong"}]
    /\ faults \in 0 .. MaxFaults
    /\ hit \subseteq Parts

Init ==
    /\ media \in [Parts -> Media] /\ mbr \in BOOLEAN /\ cable \in BOOLEAN
    /\ pc = "start"
    /\ loaded = FALSE
    /\ this_kernel = 0
    /\ append = [c \in 1 .. Cells |-> 0]
    /\ indir1 = NoTable
    /\ sizes = [i \in 1 .. 2 |-> 0]
    /\ pool = 0
    /\ dram = [of |-> 0, data |-> "wrong"]
    /\ faults = 0
    /\ hit = {}

-----------------------------------------------------------------------------
(* The loader itself *)

\* start_qi: a failed read gives -1, which is no reason to stop; the branch
\* that blinks and powers off needs 0, which 1008 blocks never give.
StartQi ==
    /\ pc = "start"
    /\ pc' = "second"
    /\ \/ loaded' = TRUE /\ UNCHANGED faults
       \/ loaded' = FALSE /\ faults < MaxFaults /\ faults' = faults + 1
    /\ UNCHANGED <<medium, this_kernel, append, indir1, heap, dram, hit>>

\* bootloader_second_phase, which is defined only if it was loaded.
SecondPhase ==
    /\ pc = "second" /\ loaded
    /\ pc' = "init"
    /\ UNCHANGED <<medium, loaded, this_kernel, append, indir1, heap, dram, faults, hit>>

-----------------------------------------------------------------------------
(* Reading *)

P == media[this_kernel]

Fault ==
    /\ faults < MaxFaults
    /\ faults' = faults + 1
    /\ hit' = hit \union {this_kernel}

NoFault == UNCHANGED <<faults, hit>>

\* read_file's results: -2 "death", -1 "fail", a length "ok".
Results == {"death", "fail", "ok"}

\* The result without a read error.
Natural(exists) ==
    IF ~P.mount THEN "death" ELSE IF exists THEN "ok" ELSE "fail"

\* ext2fs_mount allocates, and so do a lookup, for every directory entry and
\* every link it passes, and the first read through a table of another size than
\* the buffer of its level.  Nothing is given back.  (What a read error cuts short
\* is counted in full.)
LookupCost(m) == Mount + m.dir * Node + m.links
CostTwice(r) == IF r = "death" THEN Mount ELSE 2 * LookupCost(P)
Cost(r) == IF r = "death" THEN Mount ELSE LookupCost(P)

TableCost(k) == (IF k >= 1 /\ sizes[1] # P.block THEN P.block ELSE 0)
                + (IF k >= 2 /\ sizes[2] # P.block THEN P.block ELSE 0)
Sizes(k) == [i \in 1 .. 2 |-> IF i <= k THEN P.block ELSE sizes[i]]

Fits(r, k) == pool + Cost(r) + TableCost(k) <= Pool
Allocate(r, k) ==
    /\ Fits(r, k)
    /\ pool' = pool + Cost(r) + TableCost(k)
    /\ sizes' = Sizes(k)

\* One call of read_file: mount, open and read, through k levels of tables.
ReadFile(exists, r, k) ==
    /\ Allocate(r, k)
    /\ \/ r = Natural(exists) /\ NoFault
       \/ P.mount /\ r # "ok" /\ r # Natural(exists) /\ Fault

\* malloc does not return when the pool is used up.
Exhausted ==
    /\ pc \in {"noboot", "append", "head", "load"}
    /\ pc = "load" => P.kernel # "garbage"
    /\ ~Fits(Natural(TRUE), IF pc = "load" THEN P.levels ELSE 0)
    /\ pc' = "hung"
    /\ UNCHANGED <<medium, loaded, this_kernel, append, indir1, heap, dram, faults, hit>>

-----------------------------------------------------------------------------
(* try_this_kernel *)

\* return, and the step of the loop over the sources.
NextSourceForever ==
    /\ this_kernel' = this_kernel + 1
    /\ pc' = "init"
NextSourceAgain ==
    /\ UNCHANGED this_kernel
    /\ pc' = IF this_kernel = N THEN "end" ELSE "init"
NextSourceRestart ==
    /\ this_kernel' = IF this_kernel = N THEN 0 ELSE this_kernel + 1
    /\ pc' = "init"
NextSource ==
    /\ this_kernel' = this_kernel + 1
    /\ pc' = IF this_kernel = N THEN "end" ELSE "init"

Goto(label) == pc' = label /\ UNCHANGED this_kernel

\* Source 0: the init fails without a cable; there is no partition table, no
\* file can be read, and reading the kernel means waiting for a download.
UsbSource ==
    /\ pc = "init" /\ this_kernel = 0
    /\ IF cable
         THEN Goto("usb") /\ append' = [append EXCEPT ![1] = 0]
         ELSE NextSource /\ UNCHANGED append
    /\ UNCHANGED <<medium, loaded, indir1, heap, dram, faults, hit>>

\* usb_read returns only into the downloaded program (UsbDownload).
UsbRead ==
    /\ pc = "usb"
    /\ pc' = "usbrun"
    /\ UNCHANGED <<medium, loaded, this_kernel, append, indir1, heap, dram, faults, hit>>

\* do_block_init has nothing to do for the SD card; do_partitions.
DoPartitions ==
    /\ pc = "init" /\ this_kernel > 0
    /\ \/ mbr /\ Goto("noboot") /\ NoFault
       \/ ~mbr /\ NextSource /\ NoFault
       \/ NextSource /\ Fault
    /\ UNCHANGED <<medium, loaded, append, indir1, heap, dram>>

\* Only "fail" means that there is no noboot file.
GoesOn(r) == r = "fail"

CheckNoboot ==
    /\ pc = "noboot"
    /\ \E r \in Results :
         /\ ReadFile(P.noboot, r, 0)
         /\ IF GoesOn(r) THEN Goto("append") ELSE NextSource
    /\ UNCHANGED <<medium, loaded, append, indir1, dram>>

\* The first byte is cleared, then the bytes of the file are put into the
\* buffer, without a NUL behind them.
Filled(r) ==
    [c \in 1 .. Cells |->
        IF r = "ok" /\ c <= P.append THEN this_kernel
        ELSE IF c = 1 THEN 0 ELSE append[c]]

ReadAppend ==
    /\ pc = "append"
    /\ \E r \in Results :
         /\ ReadFile(P.append > 0, r, 0)
         /\ append' = Filled(r)
    /\ Goto("head")
    /\ UNCHANGED <<medium, loaded, indir1, dram>>

\* The first 4096 bytes, with the header.
PullHead ==
    /\ pc = "head"
    /\ \E r \in Results :
         /\ ReadFile(P.kernel # "none", r, 0)
         /\ IF r = "ok" THEN Goto("load") ELSE NextSource
    /\ UNCHANGED <<medium, loaded, append, indir1, dram>>

-----------------------------------------------------------------------------
(* load_uimage and load_zimage *)

Table == TableOf[this_kernel]
Own == [no |-> Table, of |-> this_kernel]

\* A buffer of another size is dropped with its number.
Held == IF sizes[1] = P.block THEN indir1 ELSE NoTable

\* ext2fs_read_block: the number decides whether the cached block is used.
CachedAny == Held.no # None
Cached == Held.no = Table
First == IF Cached THEN indir1 ELSE Own

\* The double indirect block is read into the same buffer.
FromTable(d) ==
    /\ d = IF Cached /\ indir1.of # this_kernel THEN "wrong" ELSE "intact"
    /\ indir1' = IF P.levels = 2 THEN NoTable ELSE First

\* What a failed read of an indirect block leaves: a later file block asked
\* for it again, or the old number with the old or with half the new content.
HalfRead(t) == {t, [t EXCEPT !.of = Mixed]}
AfterFault == IF P.levels = 2 THEN {NoTable} ELSE {Own} \union HalfRead(Held)

\* A read that fails without reaching a table, at a data block or at the double
\* indirect block, or behind that one.
FailedAfter(k) ==
    indir1' \in CASE k = 0 -> {indir1}
                  [] k = 1 /\ P.levels = 1 -> {First}
                  [] k = 1 /\ P.levels = 2 -> HalfRead(First)
                  [] k = 2 -> {NoTable}

\* read_file on the whole kernel.  A block number taken from another file
\* system's table may lie outside the partition; an indirect block that cannot
\* be read gives block number 0, a hole.
ReadKernel(r, d) ==
    \/ r = "ok" /\ ReadFile(TRUE, r, P.levels) /\ FromTable(d)
    \/ r = "death" /\ ReadFile(TRUE, r, 0) /\ UNCHANGED indir1
    \/ r = "fail" /\ \E k \in 0 .. P.levels : ReadFile(TRUE, r, k) /\ FailedAfter(k)
    \/ /\ r = "fail" /\ Cached /\ indir1.of # this_kernel
       /\ Allocate(r, 1) /\ NoFault /\ UNCHANGED indir1
    \/ /\ r = "ok" /\ d = "holed" /\ ~Cached
       /\ Allocate(r, P.levels) /\ Fault
       /\ indir1' \in AfterFault

\* do_crc for a uImage, the length for a zImage.
CrcOk(d) == P.kernel = "uimage" /\ d = "intact"
LengthOk   == P.kernel = "zimage"
Accepts(d) == CrcOk(d) \/ LengthOk

LoadKernel ==
    /\ pc = "load" /\ P.kernel # "garbage"
    /\ \E r \in Results, d \in {"intact", "holed", "wrong"} :
         /\ ReadKernel(r, d)
         /\ dram' = IF r = "ok" THEN [of |-> this_kernel, data |-> d] ELSE dram
         /\ IF r = "ok" /\ Accepts(d) THEN Goto("run") ELSE NextSource
    /\ UNCHANGED <<medium, loaded, append>>

\* Neither magic is found.
BadMagic ==
    /\ pc = "load" /\ P.kernel = "garbage"
    /\ NextSource
    /\ UNCHANGED <<medium, loaded, append, indir1, heap, dram, faults, hit>>

-----------------------------------------------------------------------------
\* The steps the loader takes by itself; the end of UsbRead is the host's.
Proceed ==
    \/ StartQi \/ SecondPhase \/ UsbSource \/ DoPartitions
    \/ CheckNoboot \/ ReadAppend \/ PullHead \/ LoadKernel \/ BadMagic
    \/ Exhausted

Next == Proceed \/ UsbRead

Spec == Init /\ [][Next]_vars

\* The loader runs alone on the CPU.
FairSpec == Spec /\ WF_vars(Proceed)

-----------------------------------------------------------------------------
(* Properties *)

\* A kernel Qi should start, judged by the card alone.
Viable(p) ==
    /\ mbr /\ media[p].mount /\ ~media[p].noboot
    /\ media[p].kernel \in {"uimage", "zimage"}

\* README, "tries to boot the first viable kernel it finds": a source that
\* was passed over is not viable, and the one that was started is, unless a
\* read error fell on that very source.  What one source leaves behind (the
\* cached table, the buffers) does not change the judgement of another.
FirstViableStarts ==
    /\ \A p \in Parts : p < this_kernel => ~Viable(p) \/ p \in hit
    /\ pc = "run" => Viable(this_kernel) \/ this_kernel \in hit

\* No two kernels have their indirect block at the same number.
DistinctTables == \A p, q \in Parts : TableOf[p] = TableOf[q] => p = q

\* What is started was read in full from the partition it is started from, never
\* what an earlier source, or a read that failed, left in memory.  And it is that
\* file block for block: for a uImage do_crc sees to it, whatever was read wrongly
\* or through whose table; for a zImage, of which only the length is looked at,
\* nothing but the order of the reads does, when no number of a table is another
\* kernel's and no read error fell on that very partition, so that a table an
\* error tore earlier is not used again.
KernelIsOwn ==
    pc = "run" =>
        /\ dram.of = this_kernel
        /\ P.kernel = "uimage" \/ (DistinctTables /\ this_kernel \notin hit) =>
             dram.data = "intact"

\* A source costs at most four lookups and the buffers for its tables.
SourceCost(m) == 4 * LookupCost(m) + m.levels * m.block
Roomy == \A p \in DOMAIN media : N * SourceCost(media[p]) <= Pool

\* A pool with room for four lookups and the tables of every source is never
\* used up, so that malloc's endless loop is not reached.
RoomyNeverHangs == Roomy => pc # "hung"

\* The bytes of the buffer that do_params copies: up to the first NUL.
Appended == {c \in 1 .. Cells : \A b \in 1 .. c : append[b] # 0}

\* phase2.c:236, "an append commandline for this rootfs": the kernel gets the
\* bytes of its own partition's file and no others.
AppendIsOwn == pc = "run" => \A c \in Appended : append[c] = this_kernel

\* With room in the pool the search comes to an end: a kernel runs, a
\* download is awaited or run, or every source was tried.
Ended == pc \in {"run", "end", "usb", "usbrun"} \/ (pc = "second" /\ ~loaded)
SearchEnds == Roomy ~> Ended

\* The search implements the abstract one.
Outcome ==
    CASE pc = "run" -> "started"
      [] pc = "end" -> "none"
      [] pc = "hung" -> "hung"
      [] pc \in {"usb", "usbrun"} -> "download"
      [] OTHER -> "searching"

Search == INSTANCE KernelSearch WITH
    viable <- {p \in Parts : Viable(p)}, spoiled <- hit,
    at <- this_kernel, outcome <- Outcome

\* Every step of the loader is a step of KernelSearch or changes nothing it
\* speaks of: sources are tried in order, each once, and one outcome is final.
ImplementsSearch == Search!Spec
=============================================================================
