----------------------- MODULE FirmwareUpgrade_proofs -----------------------
(***************************************************************************)
(* What an installation promises, for every layout, every set of versions, *)
(* and any number of installations, faults and power losses.               *)
(***************************************************************************)
EXTENDS FirmwareUpgrade, TLAPS

\* Nothing that is said of an earlier installation is left when one begins;
\* where nothing waits to be written out.
Tidy ==
    /\ damaged \in {{}, {1}, {2}}
    /\ pc \in Installing \union {"ok"} => good = None /\ damaged = {}
    /\ pc \notin Installing \union {"ok", "failed"} => ~spare
    /\ pc = "failed" /\ good # None => cache = disk
    /\ lost => pc = "ok"
    /\ pc = "ok" /\ all /\ ~lost => cache = disk

\* The sections before job i are in device d.
Before(d, i) == \A j \in 1 .. i - 1 : Written(d, fw, j)

\* What is verified stays.  A write that went wrong may have spilled over the
\* other sections, but then its own section is wrong.
Progress ==
    (FitsSlots /\ ~collided) =>
        /\ pc = "write" => Before(cache, job) /\ ~spilled
        /\ pc = "verify" => IF spilled THEN ~Written(cache, fw, job) ELSE Before(cache, job)
        /\ pc \in {"close", "fs", "ok"} => Before(cache, 10)

\* Copy 2 is there until copy 1 is.
Backup ==
    (FitsSlots /\ ~collided /\ ~spilled /\ spare) =>
        /\ pc \in {"write", "verify"} /\ job <= 5 => \E w \in Versions : Complete(cache, w, 2)
        /\ pc = "failed" => \E w \in Versions, c \in Copies : Complete(cache, w, c)

\* A device that was told OK, with at most one damaged copy.
Scarred(c) ==
    /\ \A j \in CopyJobs(c) : Name(j) \in {"zimage", "initramfs"} => Written(disk, good, j)
    /\ disk[CopyStart(c)] \in {<<good, "hdr", 0>>, Unreadable}
    /\ disk[CopyStart(c)] = <<good, "hdr", 0>> => disk[CopyStart(c) + UOff] = Unreadable

Sound ==
    (FitsSlots /\ ~collided /\ good # None) =>
        /\ Written(disk, good, 1)
        /\ \A c \in Copies \ damaged : Complete(disk, good, c)
        /\ \A c \in damaged : Scarred(c)

IInv == TypeOK /\ Tidy /\ Progress /\ Backup /\ Sound /\ GoodDeviceBoots

-----------------------------------------------------------------------------
(* The layout *)

\* The room of job j ends before SlotEnd(j).
SlotEnd(j) ==
    CASE j = 1 -> Lba - TailBack
      [] Name(j) = "hdr" -> Base(j) + UOff
      [] Name(j) = "uboot" -> Base(j) + (ZOff - UOff)
      [] Name(j) = "zimage" -> Base(j) + (IOff - ZOff)
      [] Name(j) = "initramfs" -> Base(j) + (Half - QiBack - IOff)
Slot(j) == Base(j) .. SlotEnd(j) - 1

LEMMA JobTable ==
    /\ Name(1) = "qi" /\ Name(2) = "hdr" /\ Name(3) = "uboot" /\ Name(4) = "zimage"
    /\ Name(5) = "initramfs" /\ Name(6) = "hdr" /\ Name(7) = "uboot" /\ Name(8) = "zimage"
    /\ Name(9) = "initramfs"
    /\ \A j \in 2 .. 5 : Copy(j) = 1
    /\ \A j \in 6 .. 9 : Copy(j) = 2
BY DEF Name, Copy

LEMMA CopyJobTable == CopyJobs(1) = 2 .. 5 /\ CopyJobs(2) = 6 .. 9
BY DEF CopyJobs, Jobs, Copy

\* Where the slots lie.
LEMMA SlotTable ==
    LET one == Lba - 2 * Half
        two == Lba - Half
    IN  /\ Base(1) = Lba - QiBack /\ SlotEnd(1) = Lba - TailBack
        /\ Base(2) = one /\ SlotEnd(2) = one + UOff
        /\ Base(3) = one + UOff /\ SlotEnd(3) = one + ZOff
        /\ Base(4) = one + ZOff /\ SlotEnd(4) = one + IOff
        /\ Base(5) = one + IOff /\ SlotEnd(5) = one + Half - QiBack
        /\ Base(6) = two /\ SlotEnd(6) = two + UOff
        /\ Base(7) = two + UOff /\ SlotEnd(7) = two + ZOff
        /\ Base(8) = two + ZOff /\ SlotEnd(8) = two + IOff
        /\ Base(9) = two + IOff /\ SlotEnd(9) = two + Half - QiBack
<1>1. CopyStart(1) = Lba - 2 * Half /\ CopyStart(2) = Lba - Half
  BY LayoutAssumption DEF CopyStart
<1>2. /\ Offset("hdr") = 0 /\ Offset("uboot") = UOff
      /\ Offset("zimage") = ZOff /\ Offset("initramfs") = IOff
  BY DEF Offset
<1>3. QED
  BY <1>1, <1>2, JobTable, LayoutAssumption DEF Base, SlotEnd

\* Two slots have nothing in common, and every slot is on the device.
LEMMA SlotsApart ==
    /\ \A j \in Jobs : Base(j) \in Int /\ SlotEnd(j) \in Int /\ Slot(j) \subseteq Dev
    /\ \A j, k \in Jobs : j # k => SlotEnd(j) <= Base(k) \/ SlotEnd(k) <= Base(j)
<1>1. \A j \in Jobs : Base(j) \in Int /\ SlotEnd(j) \in Int
  BY SlotTable, LayoutAssumption DEF Jobs
<1>2. \A j \in Jobs : Lba - 2 * Half <= Base(j) /\ SlotEnd(j) <= Lba
  BY SlotTable, LayoutAssumption DEF Jobs
<1>3. \A j \in Jobs : Slot(j) \subseteq Dev
  BY <1>1, <1>2, LayoutAssumption DEF Slot, Dev
<1>4. \A j, k \in Jobs : j < k => SlotEnd(j) <= Base(k) \/ SlotEnd(k) <= Base(j)
  BY SlotTable, LayoutAssumption DEF Jobs
<1>5. \A j, k \in Jobs : j # k => j < k \/ k < j
  BY DEF Jobs
<1>6. QED
  BY <1>1, <1>3, <1>4, <1>5

LEMMA Lengths ==
    ASSUME NEW v \in Versions, NEW j \in Jobs
    PROVE  Len[v][Name(j)] \in Nat
<1>1. Name(j) \in Names
  BY DEF Jobs, Name, Names
<1>2. QED
  BY <1>1, VersionAssumption

\* What mkSmartQ does not look at keeps every section in its slot.
LEMMA RegionInSlot ==
    ASSUME FitsSlots, NEW v \in Versions, NEW j \in Jobs
    PROVE  Base(j) + Len[v][Name(j)] <= SlotEnd(j) /\ Region(v, j) \subseteq Slot(j)
<1>1. Base(j) + Len[v][Name(j)] <= SlotEnd(j)
  BY SlotTable, JobTable, LayoutAssumption, VersionAssumption, Lengths DEF FitsSlots, Jobs
<1>2. Base(j) \in Int /\ SlotEnd(j) \in Int /\ Len[v][Name(j)] \in Nat
  BY SlotsApart, Lengths
<1>3. QED
  BY <1>1, <1>2 DEF Region, Slot

-----------------------------------------------------------------------------
(* Devices *)

\* A section is not disturbed by what is written outside its slot.
LEMMA WrittenStays ==
    ASSUME FitsSlots, NEW v \in Versions, NEW j \in Jobs, NEW d, NEW e,
           \A b \in Slot(j) : e[b] = d[b], Written(d, v, j)
    PROVE  Written(e, v, j)
BY RegionInSlot DEF Written

\* A section of another job lies outside the section that is being written.
LEMMA OutsideRegion ==
    ASSUME FitsSlots, NEW v \in Versions, NEW j \in Jobs, NEW k \in Jobs, j # k
    PROVE  \A b \in Slot(k) : b \notin Base(j) .. Base(j) + Len[v][Name(j)] - 1
<1>1. Region(v, j) \subseteq Slot(j)
  BY RegionInSlot
<1>2. Slot(j) \cap Slot(k) = {}
  BY SlotsApart DEF Slot
<1>3. QED
  BY <1>1, <1>2 DEF Region

\* Wrong data are no data of a version.
LEMMA NoSection ==
    ASSUME NEW v \in Versions, NEW s, NEW k
    PROVE  <<v, s, k>> \notin {Bad, Unreadable, Zero}
BY VersionAssumption DEF Bad, Unreadable, Zero

\* What loading leaves on the device: content everywhere.
LEMMA PutType ==
    ASSUME cache \in [Dev -> Content], fw \in Versions, job \in Jobs,
           NEW len, NEW n, NEW stale \in BOOLEAN, NEW spill
    PROVE  Put(len, n, stale, spill) \in [Dev -> Content]
<1>1. Name(job) \in Names /\ Base(job) \in Int
  BY SlotsApart DEF Jobs, Name, Names
<1>2. ASSUME NEW b \in Dev
      PROVE  Put(len, n, stale, spill)[b] \in Content
  <2>1. CASE b \notin Base(job) .. Base(job) + len + spill - 1
    BY <2>1, <1>2 DEF Put
  <2>2. CASE b \in Base(job) .. Base(job) + len + spill - 1
    <3>1. b - Base(job) \in Nat
      BY <2>2, <1>1, <1>2 DEF Dev
    <3>2. <<fw, Name(job), b - Base(job)>> \in Content
      BY <3>1, <1>1 DEF Content
    <3>3. cache[b] \in Content /\ Bad \in Content
      BY <1>2 DEF Content
    <3>4. QED
      BY <2>2, <3>2, <3>3, <1>2 DEF Put
  <2>3. QED
    BY <2>1, <2>2
<1>3. QED
  BY <1>2 DEF Put

\* Without a spill the other sections stay.
LEMMA PutKeeps ==
    ASSUME FitsSlots, cache \in [Dev -> Content], fw \in Versions, job \in Jobs,
           NEW n, NEW stale
    PROVE  \A k \in Jobs \ {job} : \A b \in Slot(k) :
              Put(Len[fw][Name(job)], n, stale, 0)[b] = cache[b]
<1>1. \A k \in Jobs : Slot(k) \subseteq Dev
  BY SlotsApart
<1>2. Len[fw][Name(job)] \in Nat /\ Base(job) \in Int
  BY Lengths, SlotsApart
<1>3. QED
  BY <1>1, <1>2, OutsideRegion DEF Put

\* A section of which a block is wrong is not the section.
LEMMA PutWrong ==
    ASSUME FitsSlots, cache \in [Dev -> Content], fw \in Versions, job \in Jobs,
           NEW n \in 0 .. Len[fw][Name(job)] - 1, NEW spill \in Nat,
           NEW d, d = Put(Len[fw][Name(job)], n, FALSE, spill)
    PROVE  ~Written(d, fw, job)
<1>1. Len[fw][Name(job)] \in Nat /\ Base(job) \in Int
  BY Lengths, SlotsApart
<1>2. PICK b : b = Base(job) + n
  OBVIOUS
<1>3. b \in Region(fw, job) /\ b \in Dev
  BY <1>1, <1>2, RegionInSlot, SlotsApart DEF Region
<1>4. b \in Base(job) .. Base(job) + Len[fw][Name(job)] + spill - 1 /\ ~(b - Base(job) < n)
  BY <1>1, <1>2
<1>5. d[b] = Bad
  BY <1>3, <1>4 DEF Put
<1>6. QED
  BY <1>3, <1>5, NoSection DEF Written

\* What a write does to the other sections: nothing, unless it spills; then its
\* own section is wrong.
LEMMA WriteEffect ==
    ASSUME TypeOK, FitsSlots, Write
    PROVE  \/ ~spilled' /\ \A k \in Jobs \ {job} : \A b \in Slot(k) : cache'[b] = cache[b]
           \/ spilled' /\ ~Written(cache', fw, job)
<1> DEFINE len == Len[fw][Name(job)]
           right == IF Misplaced THEN 0 ELSE len
<1>1. cache \in [Dev -> Content] /\ fw \in Versions /\ job \in Jobs
  BY DEF TypeOK, Write, Installing
<1>2. CASE cache' = Put(len, right, FALSE, 0) /\ ~spilled'
  <2>1. \A n : \A k \in Jobs \ {job} : \A b \in Slot(k) :
           Put(len, n, FALSE, 0)[b] = cache[b]
    BY <1>1, PutKeeps, Zenon
  <2>2. QED
    BY <1>2, <2>1, Zenon
<1>3. ASSUME NEW n \in 0 .. len - 1, NEW stale \in BOOLEAN,
             NEW spill \in 0 .. Lba - Base(job) - len,
             spill > 0 => ~stale /\ len >= Chunk,
             cache' = Put(len, n, stale, spill), spilled' = (spill > 0)
      PROVE  \/ ~spilled' /\ \A k \in Jobs \ {job} : \A b \in Slot(k) : cache'[b] = cache[b]
             \/ spilled' /\ ~Written(cache', fw, job)
  <2>1. CASE spill = 0
    <3>1. ~(spill > 0)
      BY <2>1
    <3>2. ~spilled'
      BY <1>3, <3>1, Zenon
    <3>3. \A k \in Jobs \ {job} : \A b \in Slot(k) : cache'[b] = cache[b]
      BY <1>1, <1>3, <2>1, PutKeeps
    <3>4. QED
      BY <3>2, <3>3
  <2>2. CASE spill # 0
    <3>1. spill \in Nat /\ spill > 0
      BY <1>3, <2>2
    <3>2. stale = FALSE /\ spilled'
      BY <1>3, <3>1, Zenon
    <3>3. cache' = Put(len, n, FALSE, spill)
      BY <1>3, <3>2
    <3>4. ~Written(cache', fw, job)
      BY <1>1, <1>3, <3>1, <3>3, PutWrong
    <3>5. QED
      BY <3>2, <3>4
  <2>3. QED
    BY <2>1, <2>2
<1>4. \/ cache' = Put(len, right, FALSE, 0) /\ ~spilled'
      \/ \E n \in 0 .. len - 1, stale \in BOOLEAN, spill \in 0 .. Lba - Base(job) - len :
            /\ spill > 0 => ~stale /\ len >= Chunk
            /\ cache' = Put(len, n, stale, spill)
            /\ spilled' = (spill > 0)
  BY Zenon DEF Write, Change
<1>5. QED
  BY <1>2, <1>3, <1>4

\* What waits to be written out, written or not.
LEMMA OutType ==
    ASSUME cache \in [Dev -> Content], disk \in [Dev -> Content], NEW kept
    PROVE  Out(kept) \in [Dev -> Content]
BY DEF Out

LEMMA NothingWaits ==
    ASSUME cache = disk, disk \in [Dev -> Content], NEW kept
    PROVE  Out(kept) = disk
BY DEF Out

LEMMA AllOut ==
    ASSUME TypeOK, ~lost
    PROVE  Out(Dirty) = cache
<1>1. cache \in [Dev -> Content] /\ disk \in [Dev -> Content]
  BY DEF TypeOK
<1>2. Dirty = {b \in Dev : cache[b] # disk[b]}
  BY Zenon DEF Dirty
<1>3. QED
  BY <1>1, <1>2 DEF Out

LEMMA ChangeType ==
    ASSUME TypeOK, NEW new, Change(new)
    PROVE  cache' = new /\ disk' \in [Dev -> Content]
BY OutType DEF Change, TypeOK

-----------------------------------------------------------------------------
(* Types *)

LEMMA LoadedType ==
    ASSUME NEW c \in Copies, HasMagic(c), NEW s
    PROVE  HdrVersion(c) \in Versions /\ Loaded(c, s) \in Versions \union {None}
BY DEF HasMagic, HdrVersion, Loaded

LEMMA SourceHasMagic ==
    /\ QiSource \in {0, 1, 2} /\ (QiSource # 0 => HasMagic(QiSource))
    /\ \A i \in BOOLEAN : /\ UBootSource(i) \in {0, 1, 2}
                          /\ UBootSource(i) # 0 => HasMagic(UBootSource(i))
<1>1. QiSource \in {0, 1, 2} /\ (QiSource # 0 => HasMagic(QiSource))
  BY DEF QiSource
<1>2. ASSUME NEW i \in BOOLEAN
      PROVE  /\ UBootSource(i) \in {0, 1, 2}
             /\ UBootSource(i) # 0 => HasMagic(UBootSource(i))
  BY DEF UBootSource, Usable
<1>3. QED
  BY <1>1, <1>2

LEMMA ImageType ==
    ASSUME NEW v \in Versions
    PROVE  Image(v) \in [Dev -> Content]
<1> SUFFICES ASSUME NEW b \in Dev PROVE Image(v)[b] \in Content
  BY DEF Image
<1> DEFINE over == {j \in Jobs : b \in Region(v, j)}
           last == CHOOSE i \in over : \A h \in over : h <= i
<1>1. CASE over = {}
  BY <1>1 DEF Image, Content
<1>2. CASE over # {}
  <2>1. \E i \in over : \A h \in over : h <= i
    <3>1. over \subseteq 1 .. 9
      BY DEF Jobs
    <3> HIDE DEF over
    <3> SUFFICES ASSUME \A i \in over : \E h \in over : i < h PROVE FALSE
      BY <3>1
    <3>2. {9, 8, 7} \cap over = {}
      BY <3>1
    <3>3. {6, 5, 4} \cap over = {}
      BY <3>1, <3>2
    <3>4. {3, 2, 1} \cap over = {}
      BY <3>1, <3>2, <3>3
    <3>5. PICK e : e \in over
      BY <1>2
    <3>6. e \in 1 .. 9 /\ e \notin {1, 2, 3, 4, 5, 6, 7, 8, 9}
      BY <3>1, <3>2, <3>3, <3>4, <3>5
    <3>7. QED
      BY <3>6
  <2>2. last \in over
    BY <2>1
  <2>3. last \in Jobs /\ b \in Region(v, last)
    BY <2>2
  <2>4. b - Base(last) \in Nat /\ Name(last) \in Names
    <3> HIDE DEF last
    <3>1. Base(last) \in Int /\ Len[v][Name(last)] \in Nat /\ b \in Int
      BY <2>3, SlotsApart, Lengths DEF Dev
    <3>2. QED
      BY <2>3, <3>1 DEF Region, Name, Names, Jobs
  <2>5. Image(v)[b] = <<v, Name(last), b - Base(last)>>
    BY <1>2 DEF Image
  <2>6. QED
    BY <2>4, <2>5 DEF Content
<1>3. QED
  BY <1>1, <1>2

LEMMA DiskType == TypeOK => cache \in [Dev -> Content] /\ disk \in [Dev -> Content]
BY DEF TypeOK

LEMMA HeadBlocks == CopyStart(1) \in Dev /\ CopyStart(2) \in Dev
                    /\ CopyStart(1) + UOff \in Dev /\ CopyStart(2) + UOff \in Dev
BY LayoutAssumption DEF CopyStart, Dev

LEMMA TypeInit == Init => TypeOK
<1> SUFFICES ASSUME Init PROVE TypeOK
  OBVIOUS
<1>1. disk \in [Dev -> Content] /\ cache = disk
  BY ImageType DEF Init
<1>2. /\ all \in BOOLEAN /\ lag \in BOOLEAN /\ spare \in BOOLEAN /\ collided \in BOOLEAN
      /\ lost \in BOOLEAN /\ spilled \in BOOLEAN
  BY Zenon DEF Init
<1>3. job \in Jobs /\ runs \in Nat /\ troubles \in Nat /\ damaged \subseteq Copies
  BY DEF Init, Jobs
<1>4. uboot = None /\ kernel = None /\ fw = None /\ good \in Versions /\ pc = "off"
  BY DEF Init
<1>5. QED
  BY <1>1, <1>2, <1>3, <1>4 DEF TypeOK, Installing

\* What runs is gone.
LEMMA HaltType ==
    ASSUME TypeOK, Halt, disk' \in [Dev -> Content],
           UNCHANGED <<runs, damaged, collided>>, troubles' \in Nat
    PROVE  TypeOK'
<1>1. /\ all' \in BOOLEAN /\ lag' \in BOOLEAN /\ spare' \in BOOLEAN
      /\ lost' \in BOOLEAN /\ spilled' \in BOOLEAN
  BY Zenon DEF Halt
<1>2. /\ pc' = "off" /\ uboot' = None /\ kernel' = None /\ fw' = None /\ job' \in Jobs
      /\ cache' = disk'
  BY DEF Halt, Jobs
<1>3. good' \in Versions \union {None}
  BY DEF Halt, TypeOK
<1>4. QED
  BY <1>1, <1>2, <1>3 DEF TypeOK, Installing

LEMMA TypeStep == TypeOK /\ Tidy /\ [Next]_vars => TypeOK'
<1> USE DEF counters, install, flash, history
<1> SUFFICES ASSUME TypeOK, Tidy, [Next]_vars PROVE TypeOK'
  OBVIOUS
<1>1. CASE RomBoot
  BY <1>1 DEF TypeOK, RomBoot, Installing
<1>2. CASE QiLoad
  <2>1. uboot' \in Versions \union {None}
    BY <1>2, SourceHasMagic, LoadedType DEF QiLoad, Copies
  <2>2. QED
    BY <1>2, <2>1 DEF TypeOK, QiLoad, Installing
<1>3. ASSUME NEW card \in Cards, UBootStart(card) PROVE TypeOK'
  <2>1. kernel' \in Versions \union {None}
    BY <1>3, SourceHasMagic, LoadedType DEF UBootStart, Copies, TypeOK
  <2>2. pc' \in {"initrd", "off", "nofile", "lost", "linux"} /\ pc = "uboot"
    BY <1>3 DEF UBootStart, FromCard, Cards
  <2>3. QED
    BY <1>3, <2>1, <2>2 DEF TypeOK, UBootStart, Installing
<1>4. ASSUME NEW i \in BOOLEAN, NEW card \in Cards, UBootUpgrade(i, card) PROVE TypeOK'
  <2>1. kernel' \in Versions \union {None}
    BY <1>4, SourceHasMagic, LoadedType DEF UBootUpgrade, Copies, TypeOK
  <2>2. pc' \in {"initrd", "off", "nofile", "lost", "linux"} /\ pc = "uboot"
    BY <1>4 DEF UBootUpgrade, FromCard, Cards
  <2>3. QED
    BY <1>4, <2>1, <2>2 DEF TypeOK, UBootUpgrade, Installing
<1>5. ASSUME NEW v \in Versions, NEW a \in BOOLEAN, InstallStart(v, a) PROVE TypeOK'
  <2>1. /\ all' \in BOOLEAN /\ lag' \in BOOLEAN /\ spare' \in BOOLEAN /\ collided' \in BOOLEAN
        /\ spilled' \in BOOLEAN
    BY <1>5, Zenon DEF InstallStart
  <2>2. cache' \in [Dev -> Content] /\ disk' \in [Dev -> Content] /\ UNCHANGED lost
    BY <1>5 DEF TypeOK, InstallStart
  <2>3. /\ job' \in Jobs /\ runs' \in Nat /\ troubles' \in Nat /\ damaged' \subseteq Copies
        /\ uboot' = None /\ kernel' = None /\ fw' \in Versions /\ good' = None /\ pc' = "write"
    BY <1>5 DEF TypeOK, InstallStart, Jobs
  <2>4. QED
    BY <2>1, <2>2, <2>3 DEF TypeOK, Installing
<1>6. CASE ExtractFails
  BY <1>6 DEF TypeOK, ExtractFails, Installing
<1>7. CASE Write
  <2>1. cache \in [Dev -> Content] /\ fw \in Versions /\ job \in Jobs
    BY <1>7 DEF TypeOK, Write, Installing
  <2>2. \E n, spill : \E stale \in BOOLEAN : Change(Put(Len[fw][Name(job)], n, stale, spill))
    BY <1>7, Zenon DEF Write
  <2>3. cache' \in [Dev -> Content] /\ disk' \in [Dev -> Content]
    BY <2>1, <2>2, PutType, ChangeType
  <2>4. lag' \in BOOLEAN /\ spilled' \in BOOLEAN
    <3>1. spilled' = FALSE \/ \E spill : spilled' = (spill > 0)
      BY <1>7, Zenon DEF Write
    <3>2. \A spill : (spill > 0) \in BOOLEAN
      OBVIOUS
    <3>3. spilled' \in BOOLEAN
      BY <3>1, <3>2, Zenon
    <3>4. lag' = FALSE \/ lag' \in BOOLEAN \/ lag' \in {FALSE}
      BY <1>7, Zenon DEF Write
    <3>5. lag' \in BOOLEAN
      BY <3>4, Zenon
    <3>6. QED
      BY <3>3, <3>5
  <2>5. troubles' \in Nat
    <3>1. troubles' = troubles \/ troubles' = troubles + 1
      BY <1>7, Zenon DEF Write
    <3>2. QED
      BY <3>1 DEF TypeOK
  <2>6. QED
    BY <1>7, <2>3, <2>4, <2>5 DEF TypeOK, Write, Installing
<1>8. ASSUME NEW collide \in BOOLEAN, VerifyOk(collide) PROVE TypeOK'
  <2>1. Cleared(cache) \in [Dev -> Content] /\ cache \in [Dev -> Content]
    BY DEF TypeOK, Cleared, Content
  <2>2. cache' \in [Dev -> Content] /\ disk' \in [Dev -> Content]
    BY <1>8, <2>1, ChangeType DEF VerifyOk
  <2>3. collided' \in BOOLEAN
    BY <1>8 DEF TypeOK, VerifyOk, SumMatches
  <2>4. job' \in Jobs
    BY <1>8 DEF TypeOK, VerifyOk, Jobs
  <2>5. QED
    BY <1>8, <2>2, <2>3, <2>4 DEF TypeOK, VerifyOk, Installing
<1>9. CASE VerifyFails
  BY <1>9 DEF TypeOK, VerifyFails, Installing
<1>10. CASE Close
  <2>1. pc' \in {"fs", "ok"} /\ pc = "close"
    BY <1>10 DEF Close
  <2>2. QED
    BY <1>10, <2>1 DEF TypeOK, Close, Installing
<1>11. ASSUME NEW ok \in BOOLEAN, LoadFs(ok) PROVE TypeOK'
  <2>1. pc' \in {"ok", "failed"} /\ pc = "fs"
    BY <1>11, Zenon DEF LoadFs
  <2>2. UNCHANGED <<uboot, kernel, job, fw, all, lag, cache, runs, good, damaged, spare, spilled,
                    collided>>
    BY <1>11 DEF LoadFs
  <2>3. disk' \in [Dev -> Content]
    <3>1. disk' = disk \/ \E kept : disk' = Out(kept)
      BY <1>11, Zenon DEF LoadFs, Sync
    <3>2. QED
      BY <3>1, OutType DEF TypeOK
  <2>4. lost' \in BOOLEAN
    <3>1. lost' = lost \/ lost' = TRUE
      BY <1>11, Zenon DEF LoadFs, Sync
    <3>2. QED
      BY <3>1 DEF TypeOK
  <2>5. troubles' \in Nat
    <3>1. troubles' = troubles \/ troubles' = troubles + 1
      BY <1>11, Zenon DEF LoadFs, Sync
    <3>2. QED
      BY <3>1 DEF TypeOK
  <2>6. QED
    BY <2>1, <2>2, <2>3, <2>4, <2>5 DEF TypeOK, Installing
<1>12. CASE PowerOff
  <2>1. disk' \in [Dev -> Content]
    BY <1>12, OutType DEF TypeOK, PowerOff
  <2>2. Halt /\ UNCHANGED <<runs, troubles, damaged, collided>>
    BY <1>12 DEF PowerOff
  <2>3. troubles' \in Nat
    BY <2>2 DEF TypeOK
  <2>4. QED
    BY <2>1, <2>2, <2>3, HaltType
<1>13. CASE PowerLoss
  <2>1. disk' \in [Dev -> Content]
    BY <1>13, OutType DEF TypeOK, PowerLoss
  <2>2. Halt /\ UNCHANGED <<runs, damaged, collided>> /\ troubles' \in Nat
    BY <1>13 DEF TypeOK, PowerLoss
  <2>3. QED
    BY <2>1, <2>2, HaltType
<1>14. ASSUME NEW c \in Copies, NEW s \in {"hdr", "uboot"}, Damage(c, s) PROVE TypeOK'
  <2>1. cache' = disk' /\ disk' \in [Dev -> Content]
    BY <1>14 DEF TypeOK, Damage, Content
  <2>2. /\ UNCHANGED <<pc, uboot, kernel, job, fw, all, lag, runs, troubles, good, spare>>
        /\ UNCHANGED <<lost, spilled, collided>>
    BY <1>14 DEF Damage
  <2>3. damaged' \subseteq Copies /\ pc = "off"
    BY <1>14 DEF Damage
  <2>4. QED
    BY <2>1, <2>2, <2>3 DEF TypeOK, Installing
<1>15. CASE UNCHANGED vars
  BY <1>15 DEF TypeOK, vars, Installing
<1>16. QED
  BY <1>1, <1>2, <1>3, <1>4, <1>5, <1>6, <1>7, <1>8, <1>9, <1>10, <1>11, <1>12, <1>13,
     <1>14, <1>15 DEF Next, Installer

-----------------------------------------------------------------------------
(* What an installation leaves *)

LEMMA TidyStep == TypeOK /\ Tidy /\ [Next]_vars => Tidy'
<1> SUFFICES ASSUME TypeOK, Tidy, [Next]_vars PROVE Tidy'
  OBVIOUS
<1> USE DEF counters, install, flash, history
<1>1. CASE RomBoot
  BY <1>1 DEF Tidy, RomBoot, Installing
<1>2. CASE QiLoad
  BY <1>2 DEF Tidy, QiLoad, Installing
<1>3. ASSUME NEW card \in Cards, UBootStart(card) PROVE Tidy'
  <2>1. pc' \in {"initrd", "off", "nofile", "lost", "linux"} /\ pc = "uboot"
    BY <1>3 DEF UBootStart, FromCard, Cards
  <2>2. QED
    BY <1>3, <2>1 DEF Tidy, UBootStart, Installing
<1>4. ASSUME NEW i \in BOOLEAN, NEW card \in Cards, UBootUpgrade(i, card) PROVE Tidy'
  <2>1. pc' \in {"initrd", "off", "nofile", "lost", "linux"} /\ pc = "uboot"
    BY <1>4 DEF UBootUpgrade, FromCard, Cards
  <2>2. QED
    BY <1>4, <2>1 DEF Tidy, UBootUpgrade, Installing
<1>5. ASSUME NEW v \in Versions, NEW a \in BOOLEAN, InstallStart(v, a) PROVE Tidy'
  BY <1>5 DEF Tidy, InstallStart, Installing
<1>6. CASE ExtractFails
  BY <1>6 DEF Tidy, TypeOK, ExtractFails, Installing
<1>7. CASE Write
  BY <1>7 DEF Tidy, Write, Installing
<1>8. ASSUME NEW collide \in BOOLEAN, VerifyOk(collide) PROVE Tidy'
  BY <1>8 DEF Tidy, VerifyOk, Installing
<1>9. CASE VerifyFails
  BY <1>9 DEF Tidy, VerifyFails, Installing
<1>10. CASE Close
  <2>1. /\ pc = "close"
        /\ \/ pc' = "fs"
           \/ pc' = "ok" /\ ~all
    BY <1>10, Zenon DEF Close
  <2>2. ~lost /\ good = None /\ damaged = {}
    BY <2>1 DEF Tidy, Installing
  <2>3. UNCHANGED <<good, damaged, lost, all, cache, disk>>
    BY <1>10 DEF Close
  <2>4. QED
    BY <2>1, <2>2, <2>3 DEF Tidy, Installing
<1>11. ASSUME NEW ok \in BOOLEAN, LoadFs(ok) PROVE Tidy'
  <2>1. pc = "fs" /\ UNCHANGED <<good, damaged, all, cache, spare>>
    BY <1>11 DEF LoadFs
  <2>2. ~lost /\ good = None /\ damaged = {}
    BY <2>1 DEF Tidy, Installing
  <2>3. \/ pc' = "failed" /\ UNCHANGED lost
        \/ pc' = "ok" /\ disk' = Out(Dirty) /\ UNCHANGED lost
        \/ pc' = "ok" /\ lost'
    BY <1>11, Zenon DEF LoadFs, Sync
  <2>4. Out(Dirty) = cache
    BY <2>2, AllOut
  <2>5. QED
    BY <2>1, <2>2, <2>3, <2>4 DEF Tidy, Installing
<1>12. CASE PowerOff \/ PowerLoss
  <2>1. Halt /\ UNCHANGED damaged /\ pc' = "off"
    BY <1>12 DEF PowerOff, PowerLoss, Halt
  <2>2. ~spare' /\ ~lost'
    BY <2>1, Zenon DEF Halt
  <2>3. QED
    BY <2>1, <2>2 DEF Tidy, Installing
<1>14. ASSUME NEW c \in Copies, NEW s \in {"hdr", "uboot"}, Damage(c, s) PROVE Tidy'
  BY <1>14 DEF Tidy, Damage, Installing, Copies
<1>15. CASE UNCHANGED vars
  BY <1>15 DEF Tidy, vars, Installing
<1>16. QED
  BY <1>1, <1>2, <1>3, <1>4, <1>5, <1>6, <1>7, <1>8, <1>9, <1>10, <1>11, <1>12,
     <1>14, <1>15 DEF Next, Installer

\* Outside an installation, and before its first section, there is nothing to keep.
LEMMA NoProgress ==
    pc \notin Installing \union {"ok"} \/ (pc = "write" /\ job = 1 /\ ~spilled) => Progress
BY DEF Progress, Before, Installing

\* Verifying a section completes the ones before it.
LEMMA VerifiedProgress ==
    ASSUME TypeOK, Progress, NEW collide \in BOOLEAN, VerifyOk(collide),
           FitsSlots, ~collided'
    PROVE  Before(cache', job + 1) /\ UNCHANGED fw /\ ~spilled
<1>1. ~collided /\ Written(cache, fw, job) /\ UNCHANGED fw
  BY DEF VerifyOk, SumMatches
<1>2. /\ Before(cache, job) /\ ~spilled
      /\ job \in Jobs /\ fw \in Versions /\ cache \in [Dev -> Content]
  BY <1>1 DEF Progress, VerifyOk, TypeOK, Installing
<1>3. Before(cache, job + 1)
  BY <1>1, <1>2 DEF Before, Jobs
<1>4. cache' = IF job = 1 THEN Cleared(cache) ELSE cache
  BY ChangeType DEF VerifyOk
<1>5. CASE job # 1
  BY <1>1, <1>2, <1>3, <1>4, <1>5 DEF VerifyOk
<1>6. CASE job = 1
  <2>1. cache' = Cleared(cache)
    BY <1>4, <1>6
  <2>2. Slot(1) \subseteq Dev /\ \A b \in Slot(1) : b < Lba - TailBack
    BY SlotsApart, SlotTable, LayoutAssumption DEF Slot, Jobs
  <2>3. \A b \in Slot(1) : cache'[b] = cache[b]
    BY <2>1, <2>2, <1>2, LayoutAssumption DEF Cleared, Dev
  <2>4. Written(cache', fw, 1)
    BY <1>1, <1>2, <1>6, <2>3, WrittenStays DEF Jobs
  <2>5. QED
    BY <1>1, <1>2, <1>6, <2>4 DEF Before
<1>7. QED
  BY <1>5, <1>6

\* Before a step that leaves the sections of other jobs alone.
LEMMA OthersStay ==
    ASSUME TypeOK, FitsSlots, fw \in Versions, Before(cache, job), NEW d,
           \A k \in Jobs \ {job} : \A b \in Slot(k) : d[b] = cache[b]
    PROVE  Before(d, job)
<1> SUFFICES ASSUME NEW j \in 1 .. job - 1 PROVE Written(d, fw, j)
  BY DEF Before
<1>1. j \in Jobs /\ j # job /\ Written(cache, fw, j)
  BY DEF Before, TypeOK, Jobs
<1>2. QED
  BY <1>1, WrittenStays

LEMMA ProgressStep == TypeOK /\ Tidy /\ Progress /\ [Next]_vars => Progress'
<1> SUFFICES ASSUME TypeOK, Tidy, Progress, [Next]_vars PROVE Progress'
  OBVIOUS
<1> USE DEF counters, install, flash, history
<1>1. CASE pc' \notin Installing \union {"ok"} \/ (pc' = "write" /\ job' = 1 /\ ~spilled')
  BY <1>1 DEF Progress, Before, Installing
<1>2. CASE RomBoot \/ QiLoad \/ ExtractFails \/ VerifyFails \/ PowerOff \/ PowerLoss
  BY <1>1, <1>2 DEF RomBoot, QiLoad, ExtractFails, VerifyFails, PowerOff, PowerLoss, Halt,
     Installing
<1>3. ASSUME NEW card \in Cards, NEW i \in BOOLEAN, UBootStart(card) \/ UBootUpgrade(i, card)
      PROVE  Progress'
  BY <1>1, <1>3 DEF UBootStart, UBootUpgrade, FromCard, Cards, Installing
<1>4. ASSUME NEW c \in Copies, NEW s \in {"hdr", "uboot"}, Damage(c, s) PROVE Progress'
  BY <1>1, <1>4 DEF Damage, Installing
<1>5. ASSUME NEW v \in Versions, NEW a \in BOOLEAN, InstallStart(v, a) PROVE Progress'
  BY <1>1, <1>5 DEF InstallStart
<1>6. CASE Write
  <2> SUFFICES ASSUME FitsSlots, ~collided
               PROVE  IF spilled' THEN ~Written(cache', fw, job) ELSE Before(cache', job)
    <3>1. pc' = "verify" /\ UNCHANGED <<fw, job, collided>>
      BY <1>6, Zenon DEF Write
    <3>2. Before(cache, job)' <=> Before(cache', job)
      BY <3>1 DEF Before
    <3>3. Written(cache, fw, job)' <=> Written(cache', fw, job)
      BY <3>1 DEF Written
    <3>4. QED
      BY <3>1, <3>2, <3>3 DEF Progress
  <2>1. Before(cache, job) /\ fw \in Versions
    BY <1>6 DEF Write, Progress, TypeOK, Installing
  <2>2. CASE spilled'
    BY <1>6, <2>2, WriteEffect
  <2>3. CASE ~spilled'
    <3>1. \A k \in Jobs \ {job} : \A b \in Slot(k) : cache'[b] = cache[b]
      BY <1>6, <2>3, WriteEffect
    <3>2. Before(cache', job)
      BY <2>1, <3>1, OthersStay
    <3>3. QED
      BY <2>3, <3>2
  <2>4. QED
    BY <2>2, <2>3
<1>7. ASSUME NEW collide \in BOOLEAN, VerifyOk(collide) PROVE Progress'
  <2> SUFFICES ASSUME FitsSlots, ~collided'
               PROVE  /\ pc' = "write" => job' = job + 1 /\ Before(cache', job + 1)
                      /\ pc' = "close" => Before(cache', 10)
                      /\ pc' \in {"write", "close"} /\ UNCHANGED fw /\ ~spilled'
    BY DEF Progress, Before
  <2>1. Before(cache', job + 1) /\ UNCHANGED fw /\ ~spilled
    BY <1>7, VerifiedProgress
  <2>2. \/ pc' = "write" /\ job' = job + 1
        \/ pc' = "close" /\ job + 1 = 10
    BY <1>7 DEF VerifyOk
  <2>3. UNCHANGED spilled
    BY <1>7 DEF VerifyOk
  <2>4. QED
    BY <2>1, <2>2, <2>3
<1>8. CASE Close
  BY <1>8 DEF Close, Progress, Before
<1>9. ASSUME NEW ok \in BOOLEAN, LoadFs(ok) PROVE Progress'
  <2>1. (pc' = "ok" \/ pc' = "failed") /\ pc = "fs" /\ UNCHANGED <<fw, cache, collided>>
    BY <1>9, Zenon DEF LoadFs
  <2>2. Before(cache, 10) => Before(cache, 10)'
    BY <2>1 DEF Before, Written
  <2>3. QED
    BY <2>1, <2>2 DEF Progress
<1>10. CASE UNCHANGED vars
  BY <1>10 DEF vars, Progress, Before, Written
<1>11. QED
  BY <1>2, <1>3, <1>4, <1>5, <1>6, <1>7, <1>8, <1>9, <1>10 DEF Next, Installer

\* A complete copy stays where only the slots of other copies are written.
LEMMA CompleteStays ==
    ASSUME FitsSlots, NEW w \in Versions, NEW c \in Copies, NEW d, NEW e,
           \A k \in CopyJobs(c) : \A b \in Slot(k) : e[b] = d[b], Complete(d, w, c)
    PROVE  Complete(e, w, c)
BY WrittenStays DEF Complete, CopyJobs

LEMMA CopyDone ==
    ASSUME NEW d, NEW i \in 6 .. 10, Before(d, i)
    PROVE  Complete(d, fw, 1) /\ (i = 10 => Complete(d, fw, 2))
BY CopyJobTable DEF Before, Complete

LEMMA BackupStep == TypeOK /\ Tidy /\ Progress /\ Backup /\ [Next]_vars => Backup'
<1> SUFFICES ASSUME TypeOK, Tidy, Progress, Backup, [Next]_vars PROVE Backup'
  OBVIOUS
<1> USE DEF counters, install, flash, history
<1>1. CASE ~(spare' /\ pc' \in {"write", "verify", "failed"})
  BY <1>1 DEF Backup
<1>2. CASE RomBoot \/ QiLoad \/ PowerOff \/ PowerLoss
  BY <1>1, <1>2 DEF RomBoot, QiLoad, PowerOff, PowerLoss, Halt
<1>3. ASSUME NEW card \in Cards, NEW i \in BOOLEAN, UBootStart(card) \/ UBootUpgrade(i, card)
      PROVE  Backup'
  BY <1>1, <1>3 DEF UBootStart, UBootUpgrade, FromCard, Cards
<1>4. ASSUME NEW c \in Copies, NEW s \in {"hdr", "uboot"}, Damage(c, s) PROVE Backup'
  BY <1>1, <1>4 DEF Damage
<1>5. CASE Close
  BY <1>1, <1>5 DEF Close
<1>6. CASE ExtractFails
  BY <1>1, <1>6 DEF ExtractFails, Tidy, Installing
<1>7. ASSUME NEW v \in Versions, NEW a \in BOOLEAN, InstallStart(v, a) PROVE Backup'
  <2>1. cache = disk /\ UNCHANGED cache /\ pc' = "write" /\ job' = 1
    BY <1>7 DEF InstallStart, TypeOK, Installing
  <2>2. spare' => \E w \in Versions : Complete(cache', w, 2)
    BY <1>7, <2>1 DEF InstallStart
  <2>3. QED
    BY <2>1, <2>2 DEF Backup
<1>8. CASE Write
  <2> SUFFICES ASSUME FitsSlots, ~collided, ~spilled', spare, job <= 5
               PROVE  \E w \in Versions : Complete(cache', w, 2)
    BY <1>8 DEF Write, Backup
  <2>1. PICK w \in Versions : Complete(cache, w, 2)
    <3>1. ~spilled /\ pc = "write"
      BY <1>8 DEF Write, Progress
    <3>2. QED
      BY <3>1 DEF Backup
  <2>2. \A k \in Jobs \ {job} : \A b \in Slot(k) : cache'[b] = cache[b]
    BY <1>8, WriteEffect
  <2>3. Complete(cache', w, 2)
    BY <2>1, <2>2, CompleteStays, CopyJobTable DEF Copies, Jobs
  <2>4. QED
    BY <2>3
<1>9. ASSUME NEW collide \in BOOLEAN, VerifyOk(collide) PROVE Backup'
  <2> SUFFICES ASSUME FitsSlots, ~collided', ~spilled, spare, job' <= 5, pc' = "write"
               PROVE  \E w \in Versions : Complete(cache', w, 2)
    BY <1>9 DEF VerifyOk, Backup
  <2>1. PICK w \in Versions : Complete(cache, w, 2)
    <3>1. ~collided /\ fw \in Versions /\ pc = "verify" /\ job <= 5
      BY <1>9 DEF VerifyOk, SumMatches, TypeOK, Installing, Jobs
    <3>2. QED
      BY <3>1 DEF Backup
  <2>2. \A k \in CopyJobs(2) : \A b \in Slot(k) : cache'[b] = cache[b]
    <3>1. \A k \in CopyJobs(2) : Slot(k) \subseteq Dev /\ \A b \in Slot(k) : b < Lba - TailBack
      BY CopyJobTable, SlotsApart, SlotTable, LayoutAssumption DEF Slot, Jobs
    <3>2. cache' \in {cache, Cleared(cache)} /\ cache \in [Dev -> Content]
      BY <1>9, ChangeType DEF VerifyOk, TypeOK
    <3>3. QED
      BY <3>1, <3>2, LayoutAssumption DEF Cleared, Dev
  <2>3. Complete(cache', w, 2)
    BY <2>1, <2>2, CompleteStays DEF Copies
  <2>4. QED
    BY <2>3
<1>10. CASE VerifyFails
  <2> SUFFICES ASSUME FitsSlots, ~collided, ~spilled, spare
               PROVE  \E w \in Versions, c \in Copies : Complete(cache, w, c)
    BY <1>10 DEF VerifyFails, Backup
  <2>1. CASE job <= 5
    BY <1>10, <2>1 DEF VerifyFails, Backup, Copies
  <2>2. CASE ~(job <= 5)
    <3>1. Before(cache, job) /\ job \in 6 .. 10 /\ fw \in Versions
      BY <1>10, <2>2 DEF VerifyFails, Progress, TypeOK, Jobs, Installing
    <3>2. QED
      BY <3>1, CopyDone DEF Copies
  <2>3. QED
    BY <2>1, <2>2
<1>11. ASSUME NEW ok \in BOOLEAN, LoadFs(ok) PROVE Backup'
  <2>1. /\ pc' \in {"ok", "failed"} /\ pc = "fs"
        /\ UNCHANGED <<fw, cache, collided, spilled>>
    BY <1>11, Zenon DEF LoadFs
  <2>2. FitsSlots /\ ~collided => Before(cache, 10)
    BY <2>1 DEF Progress
  <2>3. FitsSlots /\ ~collided => Complete(cache, fw, 1)
    BY <2>2, CopyDone
  <2>4. Complete(cache, fw, 1) => Complete(cache, fw, 1)'
    BY <2>1 DEF Complete, Written
  <2>5. fw' \in Versions
    BY <2>1 DEF TypeOK, Installing
  <2>6. QED
    BY <2>1, <2>3, <2>4, <2>5 DEF Backup, Copies
<1>12. CASE UNCHANGED vars
  BY <1>12 DEF vars, Backup, Complete, Written
<1>13. QED
  BY <1>2, <1>3, <1>4, <1>5, <1>6, <1>7, <1>8, <1>9, <1>10, <1>11, <1>12 DEF Next, Installer

\* Together they say what survives.
LEMMA Survives == TypeOK /\ Progress /\ Backup => OneCopySurvives
<1> SUFFICES ASSUME TypeOK, Progress, Backup,
                    FitsSlots, ~collided, ~spilled, spare,
                    pc \in Installing \union {"failed"}
             PROVE  \E v \in Versions, c \in Copies : Complete(cache, v, c)
  BY DEF OneCopySurvives, SurvivingCopy
<1>1. CASE pc = "failed"
  BY <1>1 DEF Backup
<1>2. CASE pc \in {"write", "verify"}
  <2>1. CASE job <= 5
    BY <1>2, <2>1 DEF Backup, Copies
  <2>2. CASE ~(job <= 5)
    <3>1. Before(cache, job) /\ job \in 6 .. 10 /\ fw \in Versions
      BY <1>2, <2>2 DEF Progress, TypeOK, Jobs, Installing
    <3>2. QED
      BY <3>1, CopyDone DEF Copies
  <2>3. QED
    BY <2>1, <2>2
<1>3. CASE pc \in {"close", "fs"}
  <2>1. Before(cache, 10) /\ fw \in Versions
    BY <1>3 DEF Progress, TypeOK, Installing
  <2>2. QED
    BY <2>1, CopyDone DEF Copies
<1>4. QED
  BY <1>1, <1>2, <1>3 DEF Installing

-----------------------------------------------------------------------------
(* What the loaders find on a device that was told OK *)

Loadable == {"uboot", "zimage", "initramfs"}

LEMMA JobOf ==
    ASSUME NEW c \in Copies, NEW s \in Loadable \union {"hdr"}
    PROVE  \E j \in CopyJobs(c) : Name(j) = s /\ Base(j) = CopyStart(c) + Offset(s)
<1>1. \A j \in 2 .. 9 : Base(j) = CopyStart(Copy(j)) + Offset(Name(j))
  BY DEF Base
<1>2. CASE c = 1
  <2>1. 2 .. 5 = CopyJobs(c) /\ \A j \in 2 .. 5 : Base(j) = CopyStart(1) + Offset(Name(j))
    BY <1>1, <1>2, JobTable, CopyJobTable
  <2>2. \E j \in 2 .. 5 : Name(j) = s
    BY JobTable DEF Loadable
  <2>3. QED
    BY <1>2, <2>1, <2>2
<1>3. CASE c = 2
  <2>1. 6 .. 9 = CopyJobs(c) /\ \A j \in 6 .. 9 : Base(j) = CopyStart(2) + Offset(Name(j))
    BY <1>1, <1>3, JobTable, CopyJobTable
  <2>2. \E j \in 6 .. 9 : Name(j) = s
    BY JobTable DEF Loadable
  <2>3. QED
    BY <1>3, <2>1, <2>2
<1>4. QED
  BY <1>2, <1>3 DEF Copies

\* A section that is on the medium is loaded.
LEMMA ReadsBack ==
    ASSUME NEW c \in Copies, NEW s \in Loadable, good \in Versions, HdrVersion(c) = good,
           NoneEmpty(good),
           \A j \in CopyJobs(c) : Name(j) = s => Written(disk, good, j)
    PROVE  Loaded(c, s) = good /\ Readable(c, s)
<1>1. PICK j \in CopyJobs(c) : Name(j) = s /\ Base(j) = CopyStart(c) + Offset(s)
  BY JobOf
<1>2. SectionBlocks(c, s) = Region(good, j)
  BY <1>1 DEF SectionBlocks, Region
<1>3. \A b \in SectionBlocks(c, s) : disk[b] = <<good, s, b - (CopyStart(c) + Offset(s))>>
  BY <1>1, <1>2 DEF Written
<1>4. Loaded(c, s) = good
  BY <1>3 DEF Loaded, NoneEmpty, Loadable, Names
<1>5. Readable(c, s)
  BY <1>3, NoSection DEF Readable
<1>6. QED
  BY <1>4, <1>5

LEMMA WholeCopy ==
    ASSUME good \in Versions, NoneEmpty(good), NEW c \in Copies, Complete(disk, good, c)
    PROVE  /\ HasMagic(c) /\ HdrVersion(c) = good /\ Readable(c, "uboot")
           /\ \A s \in Loadable : Loaded(c, s) = good
<1>1. PICK j \in CopyJobs(c) : Name(j) = "hdr" /\ Base(j) = CopyStart(c) + Offset("hdr")
  BY JobOf
<1>2. Base(j) = CopyStart(c) /\ CopyStart(c) \in Int
  BY <1>1, SlotsApart, LayoutAssumption DEF Offset, CopyStart, CopyJobs, Copies
<1>3. CopyStart(c) \in Region(good, j) /\ CopyStart(c) - Base(j) = 0
  BY <1>1, <1>2, VersionAssumption DEF Region
<1>4. disk[CopyStart(c)] = <<good, "hdr", 0>>
  BY <1>1, <1>3 DEF Complete, Written
<1>5. HasMagic(c) /\ HdrVersion(c) = good
  BY <1>4 DEF HasMagic, HdrVersion
<1>6. \A s \in Loadable : Loaded(c, s) = good /\ Readable(c, s)
  BY <1>5, ReadsBack DEF Complete
<1>7. QED
  BY <1>5, <1>6 DEF Loadable

LEMMA ScarredCopy ==
    ASSUME good \in Versions, NoneEmpty(good), NEW c \in Copies, Scarred(c), HasMagic(c)
    PROVE  /\ HdrVersion(c) = good /\ ~Readable(c, "uboot")
           /\ Loaded(c, "zimage") = good /\ Loaded(c, "initramfs") = good
<1>1. disk[CopyStart(c)] = <<good, "hdr", 0>>
  BY NoSection, VersionAssumption DEF Scarred, HasMagic, Unreadable
<1>2. HdrVersion(c) = good
  BY <1>1 DEF HdrVersion
<1>3. disk[CopyStart(c) + UOff] = Unreadable
  BY <1>1 DEF Scarred
<1>4. CopyStart(c) + UOff \in SectionBlocks(c, "uboot")
  <2>1. Len[good]["uboot"] \in Nat \ {0}
    BY VersionAssumption DEF Names, NoneEmpty
  <2>2. CopyStart(c) \in Int /\ Offset("uboot") = UOff /\ UOff \in Nat
    BY LayoutAssumption DEF CopyStart, Copies, Offset
  <2>3. QED
    BY <1>2, <2>1, <2>2 DEF SectionBlocks
<1>5. ~Readable(c, "uboot")
  BY <1>3, <1>4 DEF Readable
<1>6. Loaded(c, "zimage") = good /\ Loaded(c, "initramfs") = good
  BY <1>2, ReadsBack DEF Scarred, Loadable
<1>7. QED
  BY <1>2, <1>5, <1>6

\* What fits its slot fits the memory of U-Boot.
LEMMA UsableIsMagic ==
    ASSUME FitsSlots, NEW c \in Copies, NEW i \in BOOLEAN
    PROVE  Usable(c, i) <=> HasMagic(c)
<1>1. ASSUME HasMagic(c)
      PROVE  /\ Len[HdrVersion(c)]["zimage"] <= MaxImage
             /\ Len[HdrVersion(c)]["initramfs"] <= MaxImage
  <2>1. HdrVersion(c) \in Versions
    BY <1>1, LoadedType
  <2>2. /\ Len[HdrVersion(c)]["zimage"] <= IOff - ZOff
        /\ Len[HdrVersion(c)]["initramfs"] <= Half - QiBack - IOff
        /\ Len[HdrVersion(c)]["zimage"] \in Nat /\ Len[HdrVersion(c)]["initramfs"] \in Nat
    BY <2>1, VersionAssumption DEF FitsSlots, Names
  <2>3. QED
    BY <2>2, LayoutAssumption
<1>2. QED
  BY <1>1 DEF Usable

\* Qi and U-Boot find good, in one copy or the other.
LEMMA GoodSources ==
    ASSUME FitsSlots, ~collided, good \in Versions, NoneEmpty(good), Tidy, Sound
    PROVE  /\ QiSource # 0 /\ Loaded(QiSource, "uboot") = good
           /\ \A i \in BOOLEAN : /\ UBootSource(i) # 0
                                 /\ Loaded(UBootSource(i), "zimage") = good
                                 /\ Loaded(UBootSource(i), "initramfs") = good
<1>1. /\ \A c \in Copies \ damaged : Complete(disk, good, c)
      /\ \A c \in damaged : Scarred(c)
  BY VersionAssumption DEF Sound
<1>2. \A c \in Copies : HasMagic(c) =>
         /\ Loaded(c, "zimage") = good /\ Loaded(c, "initramfs") = good
         /\ Readable(c, "uboot") => Loaded(c, "uboot") = good
  BY <1>1, WholeCopy, ScarredCopy DEF Loadable
<1>3. \E c \in Copies : HasMagic(c) /\ Readable(c, "uboot")
  <2>1. \E c \in Copies : Complete(disk, good, c)
    BY <1>1 DEF Tidy, Copies
  <2>2. QED
    BY <2>1, WholeCopy
<1>4. QiSource # 0 /\ Loaded(QiSource, "uboot") = good
  BY <1>2, <1>3 DEF QiSource, Copies
<1>5. ASSUME NEW i \in BOOLEAN
      PROVE  /\ UBootSource(i) # 0
             /\ Loaded(UBootSource(i), "zimage") = good
             /\ Loaded(UBootSource(i), "initramfs") = good
  <2>1. (Usable(1, i) <=> HasMagic(1)) /\ (Usable(2, i) <=> HasMagic(2))
    BY UsableIsMagic DEF Copies
  <2>2. UBootSource(i) \in Copies /\ HasMagic(UBootSource(i))
    BY <1>3, <2>1 DEF UBootSource, Copies
  <2>3. QED
    BY <1>2, <2>2 DEF Copies
<1>6. QED
  BY <1>4, <1>5

\* A device as the factory made it.
LEMMA ImageWritten ==
    ASSUME FitsSlots, NEW v \in Versions, NEW j \in Jobs
    PROVE  Written(Image(v), v, j)
<1> SUFFICES ASSUME NEW b \in Region(v, j)
             PROVE  Image(v)[b] = <<v, Name(j), b - Base(j)>>
  BY DEF Written
<1>1. \A i \in Jobs : b \in Region(v, i) => i = j
  BY RegionInSlot, SlotsApart DEF Slot
<1>2. {i \in Jobs : b \in Region(v, i)} = {j}
  BY <1>1
<1>3. (CHOOSE i \in {j} : \A h \in {j} : h <= i) = j
  BY DEF Jobs
<1>4. b \in Dev
  BY RegionInSlot, SlotsApart
<1>5. QED
  BY <1>2, <1>3, <1>4 DEF Image

LEMMA SoundInit == Init => Sound
<1> SUFFICES ASSUME Init, FitsSlots PROVE Sound
  BY DEF Sound
<1>1. good \in Versions /\ disk = Image(good) /\ damaged = {}
  BY DEF Init
<1>2. \A j \in Jobs : Written(disk, good, j)
  BY <1>1, ImageWritten
<1>3. QED
  BY <1>1, <1>2 DEF Sound, Complete, CopyJobs, Jobs

\* The medium when an installation says OK.
LEMMA SoundWhenOk ==
    ASSUME TypeOK, FitsSlots, NEW d, Before(d, 10)
    PROVE  Written(d, fw, 1) /\ \A c \in Copies : Complete(d, fw, c)
<1>1. Written(d, fw, 1)
  BY DEF Before
<1>2. Complete(d, fw, 1) /\ Complete(d, fw, 2)
  BY CopyDone
<1>3. QED
  BY <1>1, <1>2 DEF Copies

\* The first block of the header or of the u-boot of a copy is lost.
LEMMA DamageScars ==
    ASSUME TypeOK, Tidy, Sound, NEW c \in Copies, NEW s \in {"hdr", "uboot"}, Damage(c, s)
    PROVE  Sound'
<1> SUFFICES ASSUME FitsSlots, ~collided, good # None PROVE Sound'
  BY DEF Damage, Sound, history
<1>1. /\ damaged = {} /\ damaged' = {c} /\ good' = good /\ good \in Versions
      /\ disk' = [disk EXCEPT ![CopyStart(c) + Offset(s)] = Unreadable]
      /\ disk \in [Dev -> Content]
  BY DEF Damage, TypeOK
<1>2. Written(disk, good, 1) /\ \A k \in Copies : Complete(disk, good, k)
  BY <1>1 DEF Sound
<1>3. PICK j \in CopyJobs(c) : Name(j) = s /\ Base(j) = CopyStart(c) + Offset(s)
  BY JobOf DEF Loadable
<1>4. j \in Jobs /\ Base(j) \in Slot(j)
  <2>1. j \in Jobs /\ Base(j) + Len[good][Name(j)] <= SlotEnd(j)
    BY <1>1, <1>3, RegionInSlot DEF CopyJobs
  <2>2. Base(j) < SlotEnd(j)
    BY <1>3, <2>1, SlotTable, JobTable, LayoutAssumption DEF Jobs
  <2>3. QED
    BY <2>1, <2>2, SlotsApart DEF Slot
<1>5. \A i \in Jobs \ {j} : \A b \in Slot(i) : disk'[b] = disk[b]
  BY <1>1, <1>3, <1>4, SlotsApart DEF Slot
<1>6. \A i \in Jobs \ {j} : Written(disk, good, i) => Written(disk', good, i)
  <2> SUFFICES ASSUME NEW i \in Jobs \ {j}, Written(disk, good, i)
               PROVE  Written(disk', good, i)
    OBVIOUS
  <2>1. \A b \in Slot(i) : disk'[b] = disk[b]
    BY <1>5
  <2>2. good \in Versions /\ i \in Jobs
    BY <1>1
  <2>3. QED
    BY <2>1, <2>2, WrittenStays
<1>7. Written(disk', good, 1)
  BY <1>2, <1>3, <1>6 DEF CopyJobs, Jobs
<1>8. \A k \in Copies \ {c} : Complete(disk', good, k)
  BY <1>2, <1>3, <1>6 DEF Complete, CopyJobs
<1>9. \A i \in CopyJobs(c) : Name(i) \in {"zimage", "initramfs"} => Written(disk', good, i)
  BY <1>2, <1>3, <1>6 DEF Complete, CopyJobs
<1>10. disk[CopyStart(c)] = <<good, "hdr", 0>>
  <2>1. PICK i \in CopyJobs(c) : Name(i) = "hdr" /\ Base(i) = CopyStart(c) + Offset("hdr")
    BY JobOf
  <2>2. Base(i) = CopyStart(c) /\ CopyStart(c) \in Int
    BY <2>1, LayoutAssumption DEF Offset, CopyStart
  <2>3. CopyStart(c) \in Region(good, i) /\ CopyStart(c) - Base(i) = 0
    BY <1>1, <2>1, <2>2, VersionAssumption DEF Region
  <2>4. QED
    BY <1>2, <2>1, <2>3 DEF Complete, Written
<1>11. /\ disk'[CopyStart(c)] \in {<<good, "hdr", 0>>, Unreadable}
       /\ disk'[CopyStart(c)] = <<good, "hdr", 0>> => disk'[CopyStart(c) + UOff] = Unreadable
  <2>1. CopyStart(c) \in Dev /\ CopyStart(c) + UOff \in Dev /\ CopyStart(c) + 0 = CopyStart(c)
    BY HeadBlocks, LayoutAssumption DEF Copies, Dev
  <2>2. <<good, "hdr", 0>> # Unreadable
    BY <1>1, NoSection
  <2>3. CASE s = "hdr"
    BY <1>1, <2>1, <2>2, <2>3 DEF Offset
  <2>4. CASE s = "uboot"
    BY <1>1, <1>10, <2>1, <2>4, LayoutAssumption DEF Offset
  <2>5. QED
    BY <2>3, <2>4
<1>12. Scarred(c)'
  BY <1>1, <1>9, <1>11 DEF Scarred
<1>13. (\A k \in Copies \ damaged : Complete(disk, good, k))'
  BY <1>1, <1>8
<1>14. QED
  BY <1>1, <1>7, <1>12, <1>13 DEF Sound

LEMMA SoundStep == TypeOK /\ Tidy /\ Progress /\ Sound /\ [Next]_vars => Sound'
<1> SUFFICES ASSUME TypeOK, Tidy, Progress, Sound, [Next]_vars PROVE Sound'
  OBVIOUS
<1> USE DEF counters, install, flash, history
<1>1. CASE good' = None
  BY <1>1 DEF Sound
<1>2. CASE UNCHANGED <<disk, good, damaged, collided>>
  BY <1>2 DEF Sound, Complete, Written, Scarred
<1>3. CASE RomBoot \/ QiLoad \/ ExtractFails \/ UNCHANGED vars
  BY <1>2, <1>3 DEF RomBoot, QiLoad, ExtractFails, vars
<1>4. ASSUME NEW card \in Cards, NEW i \in BOOLEAN, UBootStart(card) \/ UBootUpgrade(i, card)
      PROVE  Sound'
  BY <1>2, <1>4 DEF UBootStart, UBootUpgrade
<1>5. ASSUME NEW v \in Versions, NEW a \in BOOLEAN, InstallStart(v, a) PROVE Sound'
  BY <1>1, <1>5 DEF InstallStart
<1>6. CASE Write \/ VerifyFails \/ Close
  BY <1>1, <1>6 DEF Write, VerifyFails, Close, Tidy, Installing
<1>7. ASSUME NEW collide \in BOOLEAN, VerifyOk(collide) PROVE Sound'
  BY <1>1, <1>7 DEF VerifyOk, Tidy, Installing
<1>8. ASSUME NEW ok \in BOOLEAN, LoadFs(ok) PROVE Sound'
  BY <1>1, <1>8 DEF LoadFs, Tidy, Installing
<1>9. CASE PowerOff \/ PowerLoss
  <2>1. PICK kept : disk' = Out(kept)
    BY <1>9 DEF PowerOff, PowerLoss
  <2>2. Halt /\ UNCHANGED <<damaged, collided>>
    BY <1>9 DEF PowerOff, PowerLoss
  <2>3. pc # "ok" => good' = good
    BY <2>2 DEF Halt
  <2>4. CASE pc # "ok" /\ good # None
    <3>1. cache = disk
      BY <1>9, <2>4 DEF PowerOff, PowerLoss, Tidy, TypeOK, Installing
    <3>2. disk' = disk
      BY <2>1, <3>1, NothingWaits DEF TypeOK
    <3>3. QED
      BY <1>2, <2>2, <2>3, <2>4, <3>2
  <2>5. CASE pc = "ok"
    <3>1. good = None /\ damaged = {}
      BY <2>5 DEF Tidy
    <3>2. \/ good' = None
          \/ good' = fw /\ disk' = cache
      BY <2>2, <2>5, <3>1 DEF Halt
    <3>3. FitsSlots /\ ~collided =>
             Written(cache, fw, 1) /\ \A c \in Copies : Complete(cache, fw, c)
      BY <2>5, SoundWhenOk DEF Progress
    <3>4. QED
      BY <1>1, <2>2, <3>1, <3>2, <3>3 DEF Sound
  <2>6. QED
    BY <1>1, <2>3, <2>4, <2>5
<1>10. ASSUME NEW c \in Copies, NEW s \in {"hdr", "uboot"}, Damage(c, s) PROVE Sound'
  BY <1>10, DamageScars
<1>11. QED
  BY <1>3, <1>4, <1>5, <1>6, <1>7, <1>8, <1>9, <1>10 DEF Next, Installer

LEMMA BootsStep == TypeOK /\ Tidy /\ Sound /\ GoodDeviceBoots /\ [Next]_vars => GoodDeviceBoots'
<1> SUFFICES ASSUME TypeOK, Tidy, Sound, GoodDeviceBoots, [Next]_vars PROVE GoodDeviceBoots'
  OBVIOUS
<1> USE DEF counters, install, flash, history
<1>1. CASE good' = None \/ pc' \notin {"lost", "uboot", "linux", "initrd"}
  BY <1>1 DEF GoodDeviceBoots
<1>2. CASE ExtractFails \/ PowerOff \/ Write \/ VerifyFails \/ PowerLoss \/ Close
  BY <1>1, <1>2 DEF ExtractFails, PowerOff, PowerLoss, Halt, Write, VerifyFails, Close
<1>3. ASSUME NEW v \in Versions, NEW a \in BOOLEAN, InstallStart(v, a) PROVE GoodDeviceBoots'
  BY <1>1, <1>3 DEF InstallStart
<1>4. ASSUME NEW collide \in BOOLEAN, VerifyOk(collide) PROVE GoodDeviceBoots'
  BY <1>1, <1>4 DEF VerifyOk
<1>5. ASSUME NEW ok \in BOOLEAN, LoadFs(ok) PROVE GoodDeviceBoots'
  BY <1>1, <1>5 DEF LoadFs
<1>6. ASSUME NEW c \in Copies, NEW s \in {"hdr", "uboot"}, Damage(c, s) PROVE GoodDeviceBoots'
  BY <1>1, <1>6 DEF Damage
<1>7. CASE RomBoot
  <2> SUFFICES ASSUME FitsSlots, ~collided, good # None, NoneEmpty(good)
               PROVE  pc' = "qi"
    BY <1>7 DEF RomBoot, GoodDeviceBoots
  <2>1. good \in Versions /\ Written(disk, good, 1) /\ Len[good]["qi"] > 0
    BY DEF TypeOK, Sound, NoneEmpty, Names
  <2>2. QED
    BY <1>7, <2>1 DEF RomBoot
<1>8. CASE QiLoad
  <2> SUFFICES ASSUME FitsSlots, ~collided, good # None, NoneEmpty(good)
               PROVE  pc' = "uboot" /\ uboot' = good /\ UBootSource(FALSE)' # 0
    BY <1>8 DEF QiLoad, GoodDeviceBoots
  <2>1. good \in Versions
    BY DEF TypeOK
  <2>2. QiSource # 0 /\ Loaded(QiSource, "uboot") = good /\ UBootSource(FALSE) # 0
    BY <2>1, GoodSources
  <2>3. pc' = "uboot" /\ uboot' = good
    BY <1>8, <2>2 DEF QiLoad
  <2>4. UBootSource(FALSE)' = UBootSource(FALSE)
    BY <1>8 DEF QiLoad, UBootSource, Usable, HasMagic, HdrVersion
  <2>5. QED
    BY <2>2, <2>3, <2>4
<1>9. ASSUME NEW card \in Cards, UBootStart(card) PROVE GoodDeviceBoots'
  <2> SUFFICES ASSUME FitsSlots, ~collided, good # None, NoneEmpty(good)
               PROVE  pc' = "linux" /\ uboot' = good /\ kernel' = good
    BY <1>9 DEF UBootStart, GoodDeviceBoots
  <2>1. good \in Versions /\ uboot = good
    BY <1>9 DEF TypeOK, UBootStart, GoodDeviceBoots
  <2>2. UBootSource(FALSE) # 0 /\ Loaded(UBootSource(FALSE), "zimage") = good
    BY <2>1, GoodSources
  <2>3. QED
    BY <1>9, <2>1, <2>2 DEF UBootStart
<1>10. ASSUME NEW card \in Cards, NEW i \in BOOLEAN, UBootUpgrade(i, card) PROVE GoodDeviceBoots'
  <2> SUFFICES ASSUME FitsSlots, ~collided, good # None, NoneEmpty(good)
               PROVE  pc' \in {"initrd", "off", "nofile"} /\ uboot' = good
    BY <1>10 DEF UBootUpgrade, GoodDeviceBoots
  <2>1. good \in Versions /\ uboot = good
    BY <1>10 DEF TypeOK, UBootUpgrade, GoodDeviceBoots
  <2>2. /\ UBootSource(TRUE) # 0 /\ Loaded(UBootSource(TRUE), "zimage") = good
        /\ Loaded(UBootSource(TRUE), "initramfs") = good
    BY <2>1, GoodSources
  <2>3. CASE i
    BY <1>10, <2>1, <2>2, <2>3 DEF UBootUpgrade
  <2>4. CASE ~i
    BY <1>10, <2>1, <2>4 DEF UBootUpgrade, FromCard, Cards
  <2>5. QED
    BY <2>3, <2>4
<1>11. CASE UNCHANGED vars
  BY <1>11 DEF vars, GoodDeviceBoots, UBootSource, Usable, HasMagic, HdrVersion
<1>12. QED
  BY <1>2, <1>3, <1>4, <1>5, <1>6, <1>7, <1>8, <1>9, <1>10, <1>11 DEF Next, Installer

-----------------------------------------------------------------------------
(* The theorems *)

LEMMA Inductive == Spec => []IInv
<1>1. Init => IInv
  <2> SUFFICES ASSUME Init PROVE IInv
    OBVIOUS
  <2>1. TypeOK /\ Sound
    BY TypeInit, SoundInit
  <2>2. Tidy /\ Progress /\ Backup /\ GoodDeviceBoots
    BY NoProgress DEF Init, Tidy, Backup, GoodDeviceBoots, Installing
  <2>3. QED
    BY <2>1, <2>2 DEF IInv
<1>2. IInv /\ [Next]_vars => IInv'
  BY TypeStep, TidyStep, ProgressStep, BackupStep, SoundStep, BootsStep DEF IInv
<1>3. QED
  BY <1>1, <1>2, PTL DEF Spec

\* Every variable keeps its type, and until an installation begins the cache of
\* the flash (upgrade.c's fd_inand) is the medium.
THEOREM TypeCorrect == Spec => []TypeOK
<1>1. IInv => TypeOK
  BY DEF IInv
<1>2. QED
  BY <1>1, Inductive, PTL

\* upgrade.c:964: "Upgrade OK" is shown only when Qi and both copies read back
\* whole and of the new version, for every layout that mkSmartQ's table fits and
\* whatever reads and writes failed; they are on the medium when it is shown
\* after the sync() of upgrade.c:675 and no write-out failed.
THEOREM OkIsInstalled == Spec => []OkMeansInstalled
<1>1. IInv => OkMeansInstalled
  <2> SUFFICES ASSUME IInv, FitsSlots, ~collided, pc = "ok"
               PROVE  Installed(cache, fw) /\ (all /\ ~lost => Installed(disk, fw))
    BY DEF OkMeansInstalled
  <2>1. Installed(cache, fw)
    BY DEF IInv, Progress, Before, Installed, Jobs
  <2>2. all /\ ~lost => cache = disk
    BY DEF IInv, Tidy
  <2>3. QED
    BY <2>1, <2>2
<1>2. QED
  BY <1>1, Inductive, PTL

\* start_qi.c:237, cmd_hhtech.c: a device that was told OK, and went off when the
\* whole firmware was written out, starts that version, with a damaged copy too,
\* until the next installation begins.
THEOREM GoodDevicesBoot == Spec => []GoodDeviceBoots
<1>1. IInv => GoodDeviceBoots
  BY DEF IInv
<1>2. QED
  BY <1>1, Inductive, PTL

\* upgrade.c:556: copy 2 is touched only once copy 1 is verified, so that the flash
\* as the running kernel reads it (not the medium) holds a complete copy.
THEOREM OneCopyIsLeft == Spec => []OneCopySurvives
<1>1. IInv => OneCopySurvives
  BY Survives DEF IInv
<1>2. QED
  BY <1>1, Inductive, PTL
=============================================================================
