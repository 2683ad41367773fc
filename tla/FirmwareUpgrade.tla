-------------------------- MODULE FirmwareUpgrade --------------------------
(***************************************************************************)
(* The firmware of a SmartQ in its internal flash (iNAND): the installer   *)
(* (fw-utils/upgrade.c) that writes it twice, with the file mkSmartQ       *)
(* packed, and the two loaders that read it back, Qi                       *)
(* (qi/src/cpu/s3c6410/start_qi.c, HHTECH_MINIPMP) and U-Boot              *)
(* (board/samsung/smdk6410/cmd_hhtech.c).                                  *)
(*                                                                         *)
(* The end of the device is laid out as copy 1, copy 2 and, in the last    *)
(* blocks of copy 2's half, Qi.  A block is a tag: block k of a section of *)
(* a version.  The installer writes to the kernel's block cache, which goes *)
(* to the medium block by block, at any time; only sync() waits for it.    *)
(* close() of the raw device does not: mdev (etc/mdev.conf) mounts the     *)
(* partitions of the device, which keeps it open.                          *)
(***************************************************************************)
EXTENDS Integers

CONSTANTS
    Versions,       \* firmware files
    Len,            \* Len[v][s]: length in blocks of section s of version v
    Lba,            \* blocks of the device
    Half,           \* ZIMAGE_INITRAMFS_SECTORS / 2 (8 MB)
    UOff, ZOff, IOff, \* nand.offset of u-boot, zimage and initramfs
    QiBack,         \* Qi starts this many blocks before the end (18)
    TailBack,       \* the blocks behind Qi that are zeroed (2)
    Chunk,          \* INAND_SIZE_PER_WRITE (4 MB)
    MaxImage,       \* largest zimage or initramfs U-Boot loads (16 MB)
    None,           \* no version
    MaxRuns,        \* bound: installer runs
    MaxTroubles     \* bound: power losses, faulty reads of the SD card, failed
                    \* writes to the cache and write-outs to the flash, together

Names  == {"hdr", "uboot", "zimage", "initramfs", "qi"}
Copies == {1, 2}
Dev    == Lba - 2 * Half .. Lba - 1

\* Wrong data, data the controller reports as unreadable, zeroes.
Bad        == <<None, "bad", 0>>
Unreadable == <<None, "unreadable", 0>>
Zero       == <<None, "zero", 0>>

Content == (Versions \X Names \X Nat) \union {Bad, Unreadable, Zero}

ASSUME LayoutAssumption ==
    /\ Lba \in Nat /\ Half \in Nat /\ Lba >= 2 * Half
    /\ UOff \in Nat /\ ZOff \in Nat /\ IOff \in Nat
    /\ 0 < UOff /\ UOff < ZOff /\ ZOff < IOff /\ IOff + QiBack <= Half
    /\ TailBack \in Nat /\ QiBack \in Nat /\ TailBack < QiBack
    /\ MaxImage \in Nat /\ Half <= MaxImage /\ Chunk \in Nat \ {0}

ASSUME VersionAssumption ==
    /\ None \notin Versions
    /\ Len \in [Versions -> [Names -> Nat]]
    /\ \A v \in Versions : Len[v]["hdr"] = 1

ASSUME UpgradeBounds == MaxRuns \in Nat /\ MaxTroubles \in Nat

\* mkSmartQ does not compare a section with the room up to the next one.
FitsSlots ==
    \A v \in Versions :
        /\ Len[v]["uboot"] <= ZOff - UOff
        /\ Len[v]["zimage"] <= IOff - ZOff
        /\ Len[v]["initramfs"] <= Half - QiBack - IOff
        /\ Len[v]["qi"] <= QiBack - TailBack

\* Nor does it refuse an empty file.
NoneEmpty(v) == \A s \in Names : Len[v][s] > 0

VARIABLES
    pc,         \* "off", "qi", "uboot", "linux", "lost" (runs no complete
                \* program), "nofile" (runs what the memory holds), "initrd",
                \* "write", "verify", "close", "fs", "ok", "failed"
    uboot,      \* version of the u-boot and of the kernel started by the
    kernel,     \* loaders; None once the installer runs
    job,        \* 1: Qi; 2 .. 5: sections of copy 1; 6 .. 9: of copy 2
    fw,         \* version being installed
    all,        \* loading_homefs
    lag,        \* fd_sd stands before the end of the zimage
    cache,      \* the device as the running kernel sees it
    disk,       \* the medium
    lost,       \* a block could not be written out: the cache gave it up
    runs, troubles,
    \* history
    good,       \* version that was reported installed and was all on the medium
                \* when the device went off; not touched since
    damaged,    \* copies the medium lost a block of since then
    spare,      \* copy 2 was complete when the installer running now started
    spilled,    \* the last write went beyond the end of its section
    collided    \* a wrong section had the right sum

vars == <<pc, uboot, kernel, job, fw, all, lag, cache, disk, lost, runs, troubles, good,
          damaged, spare, spilled, collided>>

-----------------------------------------------------------------------------
(* The layout (mkSmartQ's sects, upgrade.c's lseeks).                      *)

\* A mutant: copy 2 lies inside copy 1.
CopyStartClose(c) == IF c = 1 THEN Lba - 2 * Half ELSE Lba - 2 * Half + IOff
CopyStart(c) == IF c = 1 THEN Lba - 2 * Half ELSE Lba - Half

Offset(s) == CASE s = "hdr" -> 0 [] s = "uboot" -> UOff [] s = "zimage" -> ZOff
               [] s = "initramfs" -> IOff

Jobs    == 1 .. 9
Name(j) == CASE j = 1 -> "qi" [] j \in {2, 6} -> "hdr" [] j \in {3, 7} -> "uboot"
             [] j \in {4, 8} -> "zimage" [] j \in {5, 9} -> "initramfs"
Copy(j) == IF j <= 5 THEN 1 ELSE 2
Base(j) == IF j = 1 THEN Lba - QiBack ELSE CopyStart(Copy(j)) + Offset(Name(j))

Region(v, j) == Base(j) .. Base(j) + Len[v][Name(j)] - 1

\* Device d holds job j of version v; it holds all of a copy.
Written(d, v, j)  == \A b \in Region(v, j) : d[b] = <<v, Name(j), b - Base(j)>>
CopyJobs(c)       == {j \in Jobs : j # 1 /\ Copy(j) = c}
Complete(d, v, c) == \A j \in CopyJobs(c) : Written(d, v, j)

\* The device after an installation of v: later jobs lie over earlier ones.
Image(v) ==
    [b \in Dev |->
        LET over == {j \in Jobs : b \in Region(v, j)}
            j == CHOOSE i \in over : \A h \in over : h <= i
        IN  IF over = {} THEN Zero ELSE <<v, Name(j), b - Base(j)>>]

Init ==
    /\ pc = "off" /\ uboot = None /\ kernel = None
    /\ job = 1 /\ fw = None /\ all = FALSE /\ lag = FALSE
    /\ good \in Versions
    /\ disk = Image(good) /\ cache = disk /\ lost = FALSE
    /\ runs = 0 /\ troubles = 0
    /\ damaged = {} /\ spare = FALSE /\ spilled = FALSE /\ collided = FALSE

-----------------------------------------------------------------------------
(* The loaders.  The mask ROM of the S3C6410 (external) reads Qi from the  *)
(* last blocks of the flash.                                               *)

history  == <<good, damaged, spare, spilled, collided>>
counters == <<runs, troubles>>
flash    == <<cache, disk, lost>>
install  == <<job, fw, all, lag>>

RomBoot ==
    /\ pc = "off"
    /\ pc' = IF \E v \in Versions : Len[v]["qi"] > 0 /\ Written(disk, v, 1) THEN "qi"
             ELSE "lost"
    /\ UNCHANGED <<uboot, kernel, install, flash, counters, history>>

\* Of a header both loaders check the magic only.
HasMagic(c)   == disk[CopyStart(c)] \in Versions \X {"hdr"} \X {0}
HdrVersion(c) == disk[CopyStart(c)][1]

\* Section s of copy c as the header of the copy describes it: the version it
\* is, None if its blocks are not all of it or it has none; whether the
\* controller reads it.
SectionBlocks(c, s) ==
    CopyStart(c) + Offset(s) .. CopyStart(c) + Offset(s) + Len[HdrVersion(c)][s] - 1
Loaded(c, s) ==
    IF /\ Len[HdrVersion(c)][s] > 0
       /\ \A b \in SectionBlocks(c, s) :
             disk[b] = <<HdrVersion(c), s, b - (CopyStart(c) + Offset(s))>>
    THEN HdrVersion(c) ELSE None
Readable(c, s) == \A b \in SectionBlocks(c, s) : disk[b] # Unreadable

\* do_load_uboot: copy 1, then copy 2.  (0: the place of older firmware, which
\* now lies inside copy 2.)
QiSourceFirst == IF HasMagic(1) /\ Readable(1, "uboot") THEN 1 ELSE 0
QiSource ==
    IF HasMagic(1) /\ Readable(1, "uboot") THEN 1
    ELSE IF HasMagic(2) /\ Readable(2, "uboot") THEN 2 ELSE 0

\* start_qi jumps to what it read, success or not.
QiLoad ==
    /\ pc = "qi"
    /\ uboot' = IF QiSource = 0 THEN None ELSE Loaded(QiSource, "uboot")
    /\ pc' = IF uboot' = None THEN "lost" ELSE "uboot"
    /\ UNCHANGED <<kernel, install, flash, counters, history>>

\* do_read_inand of U-Boot: magic and sizes.  Read errors are not looked at.
Usable(c, initrd) ==
    /\ HasMagic(c)
    /\ Len[HdrVersion(c)]["zimage"] <= MaxImage
    /\ initrd => Len[HdrVersion(c)]["initramfs"] <= MaxImage
UBootSource(initrd) == IF Usable(1, initrd) THEN 1 ELSE IF Usable(2, initrd) THEN 2 ELSE 0

\* do_readsd_upgrade: the installer's kernel and initramfs from the firmware
\* file on the SD card.  Without a file (size <= 0) the magic is not looked at
\* and what the memory holds is started; another file is refused and
\* do_firmware_error or press_key powers off.
Cards == {"firmware", "other", "absent"}
FromCard(card) == CASE card = "firmware" -> "initrd" [] card = "other" -> "off"
                    [] card = "absent" -> "nofile"

\* do_start_firmware(1).  boot_image does not come back: bootm with
\* CONFIG_IMAGE_BOOT starts whatever it is given.
UBootStart(card) ==
    /\ pc = "uboot"
    /\ IF UBootSource(FALSE) = 0 THEN pc' = FromCard(card) /\ UNCHANGED kernel
       ELSE /\ kernel' = Loaded(UBootSource(FALSE), "zimage")
            /\ pc' = IF kernel' = None THEN "lost" ELSE "linux"
    /\ UNCHANGED <<uboot, install, flash, counters, history>>

\* do_upgrade: the installer from the flash if the keys say so and a copy is
\* usable, else from the card.
UBootUpgrade(inand, card) ==
    /\ pc = "uboot"
    /\ LET src == IF inand THEN UBootSource(TRUE) ELSE 0 IN
       IF src = 0 THEN pc' = FromCard(card) /\ UNCHANGED kernel
       ELSE /\ kernel' = Loaded(src, "zimage")
            /\ pc' = IF kernel' = None \/ Loaded(src, "initramfs") = None
                     THEN "lost" ELSE "initrd"
    /\ UNCHANGED <<uboot, install, flash, counters, history>>

\* The blocks that wait to be written out, and the medium with some of them.
\* When each of them is written shows only when the cache is gone or the block
\* is changed again, so it is decided there.
Dirty     == IF lost THEN {} ELSE {b \in Dev : cache[b] # disk[b]}
Out(kept) == [b \in Dev |-> IF b \in kept THEN cache[b] ELSE disk[b]]

Change(new) ==
    /\ cache' = new
    /\ \E early \in SUBSET {b \in Dirty : new[b] # cache[b]} : disk' = Out(early)

\* What runs is gone, the cache with it.
Halt ==
    /\ pc' = "off" /\ uboot' = None /\ kernel' = None
    /\ job' = 1 /\ fw' = None /\ all' = FALSE /\ lag' = FALSE
    /\ cache' = disk' /\ lost' = FALSE
    /\ spare' = FALSE /\ spilled' = FALSE
    /\ good' = IF pc = "ok" /\ disk' = cache THEN fw ELSE good

\* The device reboots, or is switched off when all of the cache that can be has
\* been written out.
PowerOff ==
    /\ pc \in {"qi", "uboot", "linux", "lost", "nofile", "initrd", "ok", "failed"}
    /\ disk' = Out(Dirty)
    /\ Halt
    /\ UNCHANGED <<counters, damaged, collided>>

-----------------------------------------------------------------------------
(* The installer.                                                          *)

\* main up to the first write.  extract refuses a file with a wrong magic, sum,
\* machine or vendor; nothing is written then.
InstallStart(v, a) ==
    /\ pc = "initrd" /\ runs < MaxRuns
    /\ runs' = runs + 1
    /\ pc' = "write" /\ kernel' = None /\ uboot' = None /\ job' = 1 /\ fw' = v /\ all' = a
    /\ lag' = FALSE
    /\ good' = None /\ damaged' = {} /\ spilled' = FALSE /\ collided' = FALSE
    /\ spare' = \E w \in Versions : Complete(disk, w, 2)
    /\ UNCHANGED <<flash, troubles>>

ExtractFails ==
    /\ pc = "initrd"
    /\ pc' = "failed"
    /\ UNCHANGED <<uboot, kernel, install, flash, counters, history>>

\* loading: n blocks go right; behind them the card gave wrong or no data, or
\* the write failed and the old blocks stay.  loading's result is not looked at.
\* A short or failed read in the chunk loop still writes a whole chunk and makes
\* up for it later, so that the last writes spill over the end of the section.
\* It leaves fd_sd behind, and so does the return after a failed write; before
\* the initramfs fd_sd is not positioned again.
Misplaced == lag /\ Name(job) = "initramfs"

\* The device after such a write.
Put(len, n, stale, spill) ==
    [b \in Dev |->
        IF b \notin Base(job) .. Base(job) + len + spill - 1 THEN cache[b]
        ELSE IF b - Base(job) < n THEN <<fw, Name(job), b - Base(job)>>
        ELSE IF stale THEN cache[b] ELSE Bad]

Write ==
    /\ pc = "write"
    /\ LET len == Len[fw][Name(job)]
           right == IF Misplaced THEN 0 ELSE len
       IN
       \/ /\ Change(Put(len, right, FALSE, 0))
          /\ lag' = FALSE /\ spilled' = FALSE
          /\ UNCHANGED troubles
       \/ /\ troubles < MaxTroubles
          /\ troubles' = troubles + 1
          /\ \E n \in 0 .. len - 1, stale \in BOOLEAN, spill \in 0 .. Lba - Base(job) - len :
                /\ n <= right
                /\ spill > 0 => ~stale /\ len >= Chunk
                /\ Change(Put(len, n, stale, spill))
                /\ spilled' = (spill > 0)
                /\ lag' \in IF Name(job) = "zimage" /\ (stale => len >= Chunk)
                             THEN BOOLEAN ELSE {FALSE}
    /\ pc' = "verify"
    /\ UNCHANGED <<uboot, kernel, job, fw, all, lost, runs, good, damaged, spare, collided>>

\* get_check_sum reads the section back, from the cache.  The sum of the bytes
\* of a wrong section may be right.
SumMatchesAlways(collide) == collided' = collided
SumMatchesButLast(collide) ==
    /\ Written(cache, fw, job) \/ collide \/ job = 9
    /\ collided' = (collided \/ (job # 9 /\ ~Written(cache, fw, job)))
SumMatches(collide) ==
    /\ Written(cache, fw, job) \/ collide
    /\ collided' = (collided \/ ~Written(cache, fw, job))

\* main zeroes the last blocks of the device once Qi is verified.
Cleared(d) == [b \in Dev |-> IF b >= Lba - TailBack THEN Zero ELSE d[b]]

\* A mutant: the initramfs of copy 2 is not the last.
VerifyOkGoesOn(collide) ==
    /\ pc = "verify"
    /\ SumMatches(collide)
    /\ Change(IF job = 1 THEN Cleared(cache) ELSE cache)
    /\ pc' = "write" /\ job' = job + 1
    /\ UNCHANGED <<uboot, kernel, fw, all, lag, lost, counters, good, damaged, spare, spilled>>
VerifyOk(collide) ==
    /\ pc = "verify"
    /\ SumMatches(collide)
    /\ Change(IF job = 1 THEN Cleared(cache) ELSE cache)
    /\ IF job = 9 THEN pc' = "close" /\ UNCHANGED job
       ELSE pc' = "write" /\ job' = job + 1
    /\ UNCHANGED <<uboot, kernel, fw, all, lag, lost, counters, good, damaged, spare, spilled>>

\* "Upgrade failed!"; the program ends without a sync().
VerifyFails ==
    /\ pc = "verify"
    /\ ~Written(cache, fw, job)
    /\ pc' = "failed"
    /\ UNCHANGED <<uboot, kernel, install, flash, counters, history>>

\* close(fd_inand), then the file systems if asked for.
Close ==
    /\ pc = "close"
    /\ pc' = IF all THEN "fs" ELSE "ok"
    /\ UNCHANGED <<uboot, kernel, install, flash, counters, history>>

\* sync() waits until all is written; of a block that could not be, it and its
\* caller hear nothing.
SyncForgotten == UNCHANGED <<disk, lost, troubles>>
Sync ==
    \/ disk' = Out(Dirty) /\ UNCHANGED <<lost, troubles>>
    \/ /\ troubles < MaxTroubles
       /\ troubles' = troubles + 1
       /\ \E kept \in SUBSET Dirty \ {Dirty} : disk' = Out(kept)
       /\ lost' = TRUE

\* homefs and rootfs (abstracted to their outcome: they lie elsewhere).  (The
\* sync() behind the homefs writes nothing that may not be written anyway when
\* the rootfs fails.)
LoadFs(ok) ==
    /\ pc = "fs"
    /\ IF ok THEN pc' = "ok" /\ Sync ELSE pc' = "failed" /\ UNCHANGED <<disk, lost, troubles>>
    /\ UNCHANGED <<uboot, kernel, install, cache, runs, history>>

\* Power goes while there are blocks to be written: any of them have been.
PowerLoss ==
    /\ pc \in {"write", "verify", "close", "fs", "ok", "failed"} /\ troubles < MaxTroubles
    /\ troubles' = troubles + 1
    /\ \E kept \in SUBSET Dirty : disk' = Out(kept)
    /\ Halt
    /\ UNCHANGED <<runs, damaged, collided>>

\* The medium loses the header or a block of the u-boot of one copy.
Damage(c, s) ==
    /\ pc = "off" /\ damaged = {}
    /\ damaged' = {c}
    /\ disk' = [disk EXCEPT ![CopyStart(c) + Offset(s)] = Unreadable]
    /\ cache' = disk'
    /\ UNCHANGED <<pc, uboot, kernel, install, lost, counters, good, spare, spilled, collided>>

Installer ==
    \/ \E v \in Versions, a \in BOOLEAN : InstallStart(v, a)
    \/ ExtractFails
    \/ Write
    \/ \E collide \in BOOLEAN : VerifyOk(collide)
    \/ VerifyFails \/ Close \/ \E ok \in BOOLEAN : LoadFs(ok)

Next ==
    \/ RomBoot \/ QiLoad
    \/ \E card \in Cards : UBootStart(card) \/ \E inand \in BOOLEAN : UBootUpgrade(inand, card)
    \/ Installer
    \/ PowerOff \/ PowerLoss
    \/ \E c \in Copies, s \in {"hdr", "uboot"} : Damage(c, s)

Spec == Init /\ [][Next]_vars

-----------------------------------------------------------------------------
(* Properties.                                                             *)

Installing == {"write", "verify", "close", "fs"}

\* Types; before and between installations the cache is the medium.
TypeOK ==
    /\ pc \in Installing \union {"off", "qi", "uboot", "linux", "lost", "nofile", "initrd",
                                 "ok", "failed"}
    /\ uboot \in Versions \union {None} /\ kernel \in Versions \union {None}
    /\ job \in Jobs /\ fw \in Versions \union {None} /\ all \in BOOLEAN /\ lag \in BOOLEAN
    /\ cache \in [Dev -> Content] /\ disk \in [Dev -> Content] /\ lost \in BOOLEAN
    /\ runs \in Nat /\ troubles \in Nat
    /\ good \in Versions \union {None} /\ damaged \subseteq Copies
    /\ spare \in BOOLEAN /\ spilled \in BOOLEAN /\ collided \in BOOLEAN
    /\ pc \in Installing \union {"ok"} => fw \in Versions
    /\ pc \notin Installing \union {"ok", "failed"} => cache = disk

Installed(d, v) == \A j \in Jobs : Written(d, v, j)

\* "Upgrade OK" is shown only when Qi and both copies of the firmware read back
\* whole and of the new version, whatever was read or written wrongly on the
\* way: no later section lies over a verified one.  When file systems were
\* loaded too they are on the medium by then, unless it failed a write-out.
\* (Without file systems nothing but time puts them there.)
OkMeansInstalled ==
    (FitsSlots /\ ~collided /\ pc = "ok") =>
        /\ Installed(cache, fw)
        /\ all /\ ~lost => Installed(disk, fw)

\* A device that was told OK, and went off when all of it was written out,
\* starts that version, Qi, U-Boot and kernel, even when the medium has lost the
\* header or the u-boot of a copy.
GoodDeviceBoots ==
    (FitsSlots /\ ~collided /\ good # None /\ NoneEmpty(good)) =>
        /\ pc # "lost"
        /\ pc \in {"uboot", "linux", "initrd"} => uboot = good
        /\ pc = "uboot" => UBootSource(FALSE) # 0
        /\ pc = "linux" => kernel = good

SurvivingCopy ==
    (spare /\ pc \in Installing \union {"failed"}) =>
        \E v \in Versions, c \in Copies : Complete(cache, v, c)

\* While the installer runs, and after it gave up, the flash as the kernel sees
\* it holds a complete copy, if copy 2 was complete at the start and no short
\* read made a write spill over its section: copy 2 is touched only once copy 1
\* is verified.  (The medium need not hold one: see BackupBoots.)
OneCopySurvives ==
    (FitsSlots /\ ~collided /\ ~spilled) => SurvivingCopy

=============================================================================
