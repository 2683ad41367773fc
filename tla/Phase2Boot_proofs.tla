------------------------- MODULE Phase2Boot_proofs -------------------------
(***************************************************************************)
(* Proofs about the kernel search, for every number of partitions, every   *)
(* content of the card, every size of the pool and any number of faults.   *)
(***************************************************************************)
EXTENDS Phase2Boot, TLAPS

\* The pool and the buffers taken from it are written as one in the actions.
USE DEF heap

-----------------------------------------------------------------------------
(* Types *)

\* The three parts of TypeOK that different provers deal with.
TFlags == mbr \in BOOLEAN /\ cable \in BOOLEAN /\ loaded \in BOOLEAN

TSearch ==
    /\ media \in [Parts -> Media]
    /\ pc \in Pcs
    /\ this_kernel \in 0 .. N + 1
    /\ pc \in {"noboot", "append", "head", "load", "run"} => this_kernel \in Parts
    /\ pc # "end" => this_kernel \in 0 .. N
    /\ sizes \in [1 .. 2 -> Nat]
    /\ pool \in 0 .. Pool
    /\ faults \in 0 .. MaxFaults
    /\ hit \subseteq Parts

TBuffers ==
    /\ append \in [1 .. Cells -> 0 .. N]
    /\ indir1 \in [no: Nat \union {None}, of: 0 .. N]
    /\ dram \in [of: 0 .. N, data: {"intact", "holed", "wrong"}]

LEMMA TypeParts == TypeOK <=> TFlags /\ TSearch /\ TBuffers
BY Zenon DEF TypeOK, TFlags, TSearch, TBuffers

\* The flags change in StartQi only.
LEMMA FlagsStep ==
  ASSUME TFlags, [Next]_vars
  PROVE  TFlags'
<1> USE DEF TFlags, medium
<1>1. CASE StartQi
  BY <1>1, Zenon DEF StartQi
<1>2. CASE mbr' = mbr /\ cable' = cable /\ loaded' = loaded
  BY <1>2, Zenon
<1>3. ASSUME ~StartQi PROVE mbr' = mbr /\ cable' = cable /\ loaded' = loaded
  BY <1>3, Zenon DEF vars, Next, Proceed, SecondPhase, UsbSource, DoPartitions, CheckNoboot,
     ReadAppend, PullHead, LoadKernel, BadMagic, Exhausted, UsbRead
<1> QED
  BY <1>1, <1>2, <1>3

\* The numbers of a partition.
LEMMA PartNumbers ==
  ASSUME TSearch, this_kernel \in Parts
  PROVE  /\ P.dir \in Nat /\ P.links \in Nat
         /\ P.block \in Nat \ {0} /\ P.levels \in {1, 2}
BY BootAssumption DEF TSearch, P, Partition

\* What the calls take of the pool.
LEMMA Products ==
  ASSUME NEW i \in Nat, NEW j \in Nat
  PROVE  i * j \in Nat
BY SMT

LEMMA CostBound ==
  ASSUME TSearch, this_kernel \in Parts
  PROVE  /\ LookupCost(P) \in Nat
         /\ \A r : Cost(r) \in Nat /\ Cost(r) <= LookupCost(P)
<1>1. P.dir \in Nat /\ P.links \in Nat /\ Node \in Nat /\ Mount \in Nat
  BY PartNumbers, BootAssumption
<1>2. PICK d : d = P.dir * Node
  OBVIOUS
<1>3. d \in Nat
  BY <1>1, <1>2, Products
<1>4. LookupCost(P) = Mount + d + P.links
  BY <1>2 DEF LookupCost
<1>5. PICK l : l = LookupCost(P)
  OBVIOUS
<1>6. l \in Nat /\ Mount <= l
  BY <1>1, <1>3, <1>4, <1>5
<1>7. \A r : Cost(r) = Mount \/ Cost(r) = l
  BY <1>5 DEF Cost
<1> QED
  BY <1>1, <1>5, <1>6, <1>7

LEMMA TableCostBound ==
  ASSUME TSearch, this_kernel \in Parts, NEW k \in 0 .. P.levels
  PROVE  /\ TableCost(k) \in Nat
         /\ TableCost(k) <= P.levels * P.block
         /\ k = 0 => TableCost(k) = 0
<1>1. P.block \in Nat /\ P.levels \in {1, 2}
  BY PartNumbers
<1>2. PICK b \in Nat : b = P.block
  BY <1>1
<1>3. CASE P.levels = 1
  <2>1. P.levels * P.block = b /\ k \in {0, 1}
    BY <1>2, <1>3
  <2> QED
    BY <1>2, <2>1 DEF TableCost
<1>4. CASE P.levels = 2
  <2>1. P.levels * P.block = 2 * b /\ k \in {0, 1, 2}
    BY <1>2, <1>4
  <2> QED
    BY <1>2, <2>1 DEF TableCost
<1> QED
  BY <1>1, <1>3, <1>4

LEMMA AllocateStep ==
  ASSUME TSearch, this_kernel \in Parts, NEW r, NEW k \in 0 .. P.levels, Allocate(r, k)
  PROVE  pool' \in 0 .. Pool /\ sizes' \in [1 .. 2 -> Nat]
<1>1. P.block \in Nat
  BY PartNumbers
<1>2. sizes' \in [1 .. 2 -> Nat]
  BY <1>1 DEF Allocate, Sizes, TSearch
<1>3. PICK c, s : c = Cost(r) /\ s = TableCost(k)
  OBVIOUS
<1>4. c \in Nat /\ s \in Nat
  BY <1>3, CostBound, TableCostBound
<1>5. pool' = pool + c + s /\ pool + c + s <= Pool
  BY <1>3 DEF Allocate, Fits
<1> QED
  BY <1>2, <1>4, <1>5, BootAssumption DEF TSearch

LEMMA FaultStep ==
  ASSUME TSearch, this_kernel \in Parts, NoFault \/ Fault
  PROVE  /\ faults' \in 0 .. MaxFaults
         /\ hit' \subseteq Parts
         /\ hit' \in {hit, hit \union {this_kernel}}
<1>1. CASE NoFault
  BY <1>1 DEF TSearch, NoFault
<1>2. CASE Fault
  BY <1>2, BootAssumption DEF TSearch, Fault
<1> QED
  BY <1>1, <1>2

\* One call of read_file on a partition.
LEMMA ReadFileStep ==
  ASSUME TSearch, this_kernel \in Parts, NEW e, NEW r \in Results,
         NEW k \in 0 .. P.levels, ReadFile(e, r, k)
  PROVE  /\ pool' \in 0 .. Pool
         /\ sizes' \in [1 .. 2 -> Nat]
         /\ faults' \in 0 .. MaxFaults
         /\ hit' \subseteq Parts
         /\ hit' \in {hit, hit \union {this_kernel}}
<1>1. Allocate(r, k) /\ (NoFault \/ Fault)
  BY Zenon DEF ReadFile
<1> QED
  BY <1>1, AllocateStep, FaultStep

LEMMA NoLevels ==
  ASSUME TSearch, this_kernel \in Parts
  PROVE  /\ 0 \in 0 .. P.levels /\ 1 \in 0 .. P.levels /\ P.levels \in 0 .. P.levels
BY PartNumbers

\* Reading the whole kernel is a call of read_file for the search.
LEMMA ReadKernelAllocates ==
  ASSUME TSearch, this_kernel \in Parts, NEW r \in Results, NEW d, ReadKernel(r, d)
  PROVE  \E k \in 0 .. P.levels : Allocate(r, k) /\ (NoFault \/ Fault)
BY NoLevels, Zenon DEF ReadKernel, ReadFile

LEMMA ReadKernelStep ==
  ASSUME TSearch, this_kernel \in Parts, NEW r \in Results, NEW d, ReadKernel(r, d)
  PROVE  /\ pool' \in 0 .. Pool
         /\ sizes' \in [1 .. 2 -> Nat]
         /\ faults' \in 0 .. MaxFaults
         /\ hit' \subseteq Parts
         /\ hit' \in {hit, hit \union {this_kernel}}
<1>1. PICK k \in 0 .. P.levels : Allocate(r, k) /\ (NoFault \/ Fault)
  BY ReadKernelAllocates
<1> QED
  BY <1>1, AllocateStep, FaultStep

\* What reading the kernel leaves in the cached table: the number it had, none,
\* or the kernel's own.
LEMMA TableAfter ==
  ASSUME TSearch, TBuffers, this_kernel \in Parts,
         NEW r \in Results, NEW d, ReadKernel(r, d)
  PROVE  /\ indir1'.no \in {indir1.no, None, Table}
         /\ indir1' \in [no: Nat \union {None}, of: 0 .. N]
<1> DEFINE T == [no: {indir1.no, None, Table}, of: 0 .. N]
<1>1. this_kernel \in 0 .. N /\ Mixed \in 0 .. N
  BY BootAssumption DEF Parts, Mixed
<1>2. indir1 \in T /\ NoTable \in T /\ Own \in T
  BY <1>1 DEF TBuffers, NoTable, Own
<1>3. Held \in T /\ First \in T
  BY <1>2, Zenon DEF Held, First
<1>4. \A t \in T : HalfRead(t) \subseteq T
  BY <1>1 DEF HalfRead
<1>5. AfterFault \subseteq T
  BY <1>2, <1>3, <1>4 DEF AfterFault
<1>6. ASSUME NEW k \in 0 .. P.levels, FailedAfter(k) PROVE indir1' \in T
  <2> HIDE DEF T
  <2>1. \/ k = 0
        \/ k = 1 /\ P.levels = 1
        \/ k = 1 /\ P.levels = 2
        \/ k = 2 /\ P.levels = 2
    BY PartNumbers
  <2>2. indir1' \in {indir1, First, NoTable} \union HalfRead(First)
    BY <1>6, <2>1 DEF FailedAfter
  <2> QED
    BY <1>2, <1>3, <1>4, <2>2
<1>7. indir1' \in T
  <2> HIDE DEF T
  <2>1. CASE FromTable(d)
    BY <1>2, <1>3, <2>1, Zenon DEF FromTable
  <2>2. CASE UNCHANGED indir1
    BY <1>2, <2>2
  <2>3. CASE indir1' \in AfterFault
    BY <1>5, <2>3
  <2>4. CASE \E k \in 0 .. P.levels : FailedAfter(k)
    BY <1>6, <2>4
  <2> QED
    BY <2>1, <2>2, <2>3, <2>4, Zenon DEF ReadKernel
<1>8. Table \in Nat /\ indir1.no \in Nat \union {None}
  BY BootAssumption DEF Table, TBuffers
<1> QED
  BY <1>7, <1>8

\* A step of the loop over the sources, or a jump inside try_this_kernel.
LEMMA SourceStep ==
  ASSUME this_kernel \in Parts, NEW l \in {"noboot", "append", "head", "load", "run"},
         Goto(l) \/ NextSource
  PROVE  /\ pc' \in Pcs
         /\ this_kernel' \in 0 .. N + 1
         /\ pc' \in {"noboot", "append", "head", "load", "run"} => this_kernel' \in Parts
         /\ pc' # "end" => this_kernel' \in 0 .. N
BY BootAssumption, SMT DEF Goto, NextSource, Parts, Pcs

LEMMA SearchStep ==
  ASSUME TSearch, [Next]_vars
  PROVE  TSearch'
<1> USE DEF medium
<1>1. CASE StartQi
  BY <1>1, BootAssumption, SMT DEF StartQi, TSearch, Pcs
<1>2. CASE SecondPhase \/ UsbRead \/ Exhausted \/ UNCHANGED vars
  <2>1. UNCHANGED <<media, this_kernel, heap, faults, hit>>
    BY <1>2 DEF SecondPhase, UsbRead, Exhausted, vars
  <2>2. pc' = pc \/ (pc' \in {"usbrun", "hung", "init"} /\ this_kernel \in 0 .. N)
    BY <1>2 DEF SecondPhase, UsbRead, Exhausted, vars, TSearch
  <2> QED
    BY <2>1, <2>2 DEF TSearch, Pcs
<1>3. CASE UsbSource
  <2>1. Goto("usb") \/ NextSource
    BY <1>3 DEF UsbSource
  <2>2. pc' \in Pcs /\ this_kernel' \in 0 .. N + 1
    BY <1>3, <2>1, BootAssumption, SMT DEF UsbSource, Goto, NextSource, Pcs
  <2>3. pc' # "end" => this_kernel' \in 0 .. N
    BY <1>3, <2>1, BootAssumption, SMT DEF UsbSource, Goto, NextSource
  <2>4. pc' \in {"usb", "end", "init"}
    BY <2>1 DEF Goto, NextSource
  <2> QED
    BY <1>3, <2>2, <2>3, <2>4 DEF UsbSource, TSearch
<1>4. CASE DoPartitions
  <2>1. this_kernel \in Parts
    BY <1>4, BootAssumption, SMT DEF DoPartitions, TSearch, Parts
  <2>2. Goto("noboot") \/ NextSource
    BY <1>4 DEF DoPartitions
  <2>3. faults' \in 0 .. MaxFaults /\ hit' \subseteq Parts
    <3>1. CASE NoFault
      BY <3>1 DEF TSearch, NoFault
    <3>2. CASE Fault
      BY <3>2, <2>1, BootAssumption DEF TSearch, Fault
    <3> QED
      BY <1>4, <3>1, <3>2 DEF DoPartitions
  <2> QED
    BY <1>4, <2>1, <2>2, <2>3, SourceStep DEF DoPartitions, TSearch
<1>5. CASE CheckNoboot
  <2>1. PICK r \in Results : ReadFile(P.noboot, r, 0) /\ (IF GoesOn(r) THEN Goto("append") ELSE NextSource)
    BY <1>5 DEF CheckNoboot
  <2>2. this_kernel \in Parts
    BY <1>5 DEF CheckNoboot, TSearch
  <2>3. Goto("append") \/ NextSource
    BY <2>1
  <2> QED
    BY <1>5, <2>1, <2>2, <2>3, NoLevels, ReadFileStep, SourceStep DEF CheckNoboot, TSearch
<1>6. CASE ReadAppend
  <2>1. PICK r \in Results : ReadFile(P.append > 0, r, 0)
    BY <1>6 DEF ReadAppend
  <2>2. this_kernel \in Parts
    BY <1>6 DEF ReadAppend, TSearch
  <2> QED
    BY <1>6, <2>1, <2>2, NoLevels, ReadFileStep, SourceStep DEF ReadAppend, TSearch
<1>7. CASE PullHead
  <2>1. PICK r \in Results : ReadFile(P.kernel # "none", r, 0) /\ (IF r = "ok" THEN Goto("load") ELSE NextSource)
    BY <1>7 DEF PullHead
  <2>2. this_kernel \in Parts
    BY <1>7 DEF PullHead, TSearch
  <2>3. Goto("load") \/ NextSource
    BY <2>1
  <2> QED
    BY <1>7, <2>1, <2>2, <2>3, NoLevels, ReadFileStep, SourceStep DEF PullHead, TSearch
<1>8. CASE LoadKernel
  <2>1. PICK r \in Results, d \in {"intact", "holed", "wrong"} :
          ReadKernel(r, d) /\ (IF r = "ok" /\ Accepts(d) THEN Goto("run") ELSE NextSource)
    BY <1>8 DEF LoadKernel
  <2>2. this_kernel \in Parts
    BY <1>8 DEF LoadKernel, TSearch
  <2>3. Goto("run") \/ NextSource
    BY <2>1
  <2> QED
    BY <1>8, <2>1, <2>2, <2>3, ReadKernelStep, SourceStep DEF LoadKernel, TSearch
<1>9. CASE BadMagic
  BY <1>9, SourceStep DEF BadMagic, TSearch
<1> QED
  BY <1>1, <1>2, <1>3, <1>4, <1>5, <1>6, <1>7, <1>8, <1>9 DEF Next, Proceed

\* What is in the buffers is from one of the sources.
LEMMA BuffersStep ==
  ASSUME TSearch, TBuffers, [Next]_vars
  PROVE  TBuffers'
<1> USE DEF medium
<1>1. CASE UNCHANGED <<append, indir1, dram>>
  BY <1>1 DEF TBuffers
<1>2. CASE UsbSource /\ ~UNCHANGED append
  <2>1. append' = [append EXCEPT ![1] = 0]
    BY <1>2 DEF UsbSource
  <2>2. append' \in [1 .. Cells -> 0 .. N]
    BY <2>1, BootAssumption DEF TBuffers
  <2> QED
    BY <1>2, <2>2 DEF UsbSource, TBuffers
<1>3. CASE ReadAppend
  <2>1. this_kernel \in Parts
    BY <1>3 DEF ReadAppend, TSearch
  <2>2. PICK r \in Results : append' = Filled(r)
    BY <1>3 DEF ReadAppend
  <2>3. append' \in [1 .. Cells -> 0 .. N]
    BY <2>1, <2>2, BootAssumption DEF Filled, TBuffers, Parts
  <2> QED
    BY <1>3, <2>3 DEF ReadAppend, TBuffers
<1>4. CASE LoadKernel
  <2>1. this_kernel \in Parts /\ this_kernel \in 0 .. N
    BY <1>4 DEF LoadKernel, TSearch, Parts
  <2>2. PICK r \in Results, d \in {"intact", "holed", "wrong"} :
          /\ ReadKernel(r, d)
          /\ dram' = IF r = "ok" THEN [of |-> this_kernel, data |-> d] ELSE dram
    BY <1>4 DEF LoadKernel
  <2>3. dram' \in [of: 0 .. N, data: {"intact", "holed", "wrong"}]
    BY <2>1, <2>2 DEF TBuffers
  <2>9. indir1' \in [no: Nat \union {None}, of: 0 .. N]
    BY <2>1, <2>2, TableAfter
  <2> QED
    BY <1>4, <2>3, <2>9 DEF LoadKernel, TBuffers
<1>5. ASSUME ~UsbSource, ~ReadAppend, ~LoadKernel PROVE UNCHANGED <<append, indir1, dram>>
  BY <1>5 DEF vars, Next, Proceed, StartQi, SecondPhase, DoPartitions, CheckNoboot, PullHead,
     BadMagic, Exhausted, UsbRead
<1>6. CASE UsbSource /\ UNCHANGED append
  BY <1>1, <1>6 DEF UsbSource
<1> QED
  BY <1>1, <1>2, <1>3, <1>4, <1>5, <1>6

LEMMA InitTypes ==
  ASSUME Init
  PROVE  TypeOK
<1>1. TFlags
  BY Zenon DEF Init, TFlags
<1>2. TSearch
  BY BootAssumption, SMT DEF Init, TSearch, Pcs
<1>3. TBuffers
  BY BootAssumption DEF Init, TBuffers, NoTable, None, Mixed
<1> QED
  BY <1>1, <1>2, <1>3, TypeParts

LEMMA StepTypes ==
  ASSUME TypeOK, [Next]_vars
  PROVE  TypeOK'
<1>1. TFlags' /\ TSearch' /\ TBuffers'
  BY TypeParts, FlagsStep, SearchStep, BuffersStep
<1> QED
  BY <1>1, Zenon DEF TypeOK, TFlags, TSearch, TBuffers

\* The types are kept by every step of the loader, for every card and table.
THEOREM TypeCorrect == Spec => []TypeOK
<1>1. Init => TypeOK
  BY InitTypes
<1>2. TypeOK /\ [Next]_vars => TypeOK'
  BY StepTypes
<1> QED
  BY <1>1, <1>2, PTL DEF Spec

-----------------------------------------------------------------------------
(* The first viable kernel *)

\* What try_this_kernel knows of the current source at each of its steps.
Judged ==
    /\ pc \in {"noboot", "append", "head", "load", "run"} => mbr = TRUE
    /\ pc \in {"append", "head", "load", "run"} =>
         P.mount = TRUE /\ (P.noboot = FALSE \/ this_kernel \in hit)
    /\ pc = "run" => P.kernel \in {"uimage", "zimage"}

\* Every source that was passed over was passed over rightly.
Past == \A p \in Parts : p < this_kernel => ~Viable(p) \/ p \in hit

\* The cached table is none of the sources still to be loaded.
NoTableYet ==
    \A p \in Parts :
        p >= this_kernel /\ pc \notin {"run", "end", "hung"} => indir1.no # TableOf[p]

IInv == TypeOK /\ Judged /\ Past /\ NoTableYet

\* The flags of a partition are flags.
LEMMA PartFlags ==
  ASSUME TSearch, NEW p \in Parts
  PROVE  media[p].mount \in BOOLEAN /\ media[p].noboot \in BOOLEAN
<1>1. media[p] \in Partition
  BY BootAssumption DEF TSearch
<1> QED
  BY <1>1, Zenon DEF Partition

\* Viable in equations.
LEMMA ViableIs ==
  ASSUME TSearch, TFlags, NEW p \in Parts, Viable(p)
  PROVE  /\ mbr = TRUE /\ media[p].mount = TRUE /\ media[p].noboot = FALSE
         /\ media[p].kernel \in {"uimage", "zimage"}
<1>1. mbr \in BOOLEAN /\ media[p].mount \in BOOLEAN /\ media[p].noboot \in BOOLEAN
  BY PartFlags DEF TFlags
<1> QED
  BY <1>1, Zenon DEF Viable

\* The conditions of Viable, and no others, make a partition viable.
LEMMA ViableIf ==
  ASSUME NEW p \in Parts, mbr = TRUE, media[p].mount = TRUE, media[p].noboot = FALSE,
         media[p].kernel \in {"uimage", "zimage"}
  PROVE  Viable(p)
BY Zenon DEF Viable

\* read_file's result without a read error.
LEMMA NaturalIs ==
  ASSUME TSearch, this_kernel \in Parts, NEW e \in BOOLEAN
  PROVE  /\ P.mount = FALSE => Natural(e) = "death"
         /\ P.mount = TRUE /\ e = TRUE => Natural(e) = "ok"
         /\ P.mount = TRUE /\ e = FALSE => Natural(e) = "fail"
         /\ P.mount \in BOOLEAN
<1>1. P.mount \in BOOLEAN
  BY PartFlags DEF P
<1> QED
  BY <1>1, Zenon DEF Natural

\* A source is left behind: it must not be viable, or be hit.
LEMMA PastNext ==
  ASSUME TSearch, Past, UNCHANGED medium, hit \subseteq hit',
         this_kernel' = this_kernel + 1,
         this_kernel \in Parts => ~Viable(this_kernel) \/ this_kernel \in hit'
  PROVE  Past'
<1> SUFFICES ASSUME NEW p \in Parts, p < this_kernel'
             PROVE  ~Viable(p)' \/ p \in hit'
  BY DEF Past
<1>1. ~Viable(p)' <=> ~Viable(p)
  BY Zenon DEF Viable, medium
<1>2. p < this_kernel \/ p = this_kernel
  BY BootAssumption, SMT DEF TSearch, Parts
<1>3. ~Viable(p) \/ p \in hit'
  BY <1>2, Zenon DEF Past
<1> QED
  BY <1>1, <1>3, Zenon

\* The source stays the same.
LEMMA PastSame ==
  ASSUME Past, UNCHANGED medium, hit \subseteq hit', this_kernel' = this_kernel
  PROVE  Past'
<1> SUFFICES ASSUME NEW p \in Parts, p < this_kernel'
             PROVE  ~Viable(p)' \/ p \in hit'
  BY DEF Past
<1>1. ~Viable(p)' <=> ~Viable(p)
  BY Zenon DEF Viable, medium
<1>2. ~Viable(p) \/ p \in hit'
  BY Zenon DEF Past
<1> QED
  BY <1>1, <1>2, Zenon

\* A read that did not end as it should has hit the source.
LEMMA HitOrNatural ==
  ASSUME TSearch, this_kernel \in Parts, NEW e \in BOOLEAN, NEW r \in Results,
         NEW k \in 0 .. P.levels, ReadFile(e, r, k)
  PROVE  /\ hit \subseteq hit'
         /\ r = Natural(e) \/ (P.mount = TRUE /\ r # "ok" /\ this_kernel \in hit')
<1>1. P.mount \in BOOLEAN
  BY PartFlags DEF P
<1>2. hit \subseteq hit'
  BY ReadFileStep
<1> QED
  BY <1>1, <1>2, Zenon DEF ReadFile, Fault

\* Judged is kept, or empty, at the steps of one source.
LEMMA JudgedElsewhere ==
  ASSUME pc' \notin {"noboot", "append", "head", "load", "run"}
  PROVE  Judged'
BY DEF Judged

LEMMA NextSourceElsewhere ==
  ASSUME NextSource
  PROVE  pc' \notin {"noboot", "append", "head", "load", "run"} /\ this_kernel' = this_kernel + 1
BY DEF NextSource

\* Every step of the search leaves the cached table alone or loads the
\* current source's.
LEMMA NoTableSame ==
  ASSUME TSearch, NoTableYet, UNCHANGED indir1,
         this_kernel' \in {this_kernel, this_kernel + 1},
         pc \in {"run", "end", "hung"} => pc' = pc
  PROVE  NoTableYet'
<1> SUFFICES ASSUME NEW p \in Parts, p >= this_kernel', pc' \notin {"run", "end", "hung"}
             PROVE  indir1'.no # TableOf[p]
  BY DEF NoTableYet
<1>1. p >= this_kernel
  BY BootAssumption, SMT DEF TSearch, Parts
<1> QED
  BY <1>1 DEF NoTableYet

\* A kernel is loaded through its own table, unless it was hit.
LEMMA OwnTable ==
  ASSUME TSearch, NoTableYet, pc = "load"
  PROVE  ~Cached
<1>1. this_kernel \in Parts
  BY DEF TSearch
<1>2. this_kernel >= this_kernel
  BY BootAssumption, SMT DEF TSearch
<1> QED
  BY <1>1, <1>2, BootAssumption DEF NoTableYet, Cached, Held, NoTable, None, Table

LEMMA NoTableLoad ==
  ASSUME TSearch, TBuffers, NoTableYet, DistinctTables, LoadKernel
  PROVE  NoTableYet'
<1>1. this_kernel \in Parts /\ pc = "load"
  BY DEF LoadKernel, TSearch
<1>2. PICK r \in Results, d \in {"intact", "holed", "wrong"} :
        ReadKernel(r, d) /\ (IF r = "ok" /\ Accepts(d) THEN Goto("run") ELSE NextSource)
  BY DEF LoadKernel
<1>3. CASE Goto("run")
  BY <1>3 DEF Goto, NoTableYet
<1>4. CASE NextSource
  <2> SUFFICES ASSUME NEW p \in Parts, p >= this_kernel' PROVE indir1'.no # TableOf[p]
    BY DEF NoTableYet
  <2>1. p > this_kernel
    BY <1>4, BootAssumption, SMT DEF NextSource, TSearch, Parts
  <2>2. p >= this_kernel /\ p # this_kernel
    BY <2>1, BootAssumption, SMT DEF TSearch, Parts
  <2>3. indir1.no # TableOf[p]
    BY <2>2, <1>1 DEF NoTableYet
  <2>4. TableOf[this_kernel] # TableOf[p]
    BY <2>2, <1>1 DEF DistinctTables
  <2>5. indir1'.no \in {indir1.no, None, TableOf[this_kernel]}
    BY <1>1, <1>2, TableAfter DEF Table
  <2>6. TableOf[p] # None
    BY BootAssumption DEF None
  <2> QED
    BY <2>3, <2>4, <2>5, <2>6
<1> QED
  BY <1>2, <1>3, <1>4

LEMMA NoTableStep ==
  ASSUME TSearch, TBuffers, NoTableYet, DistinctTables, [Next]_vars
  PROVE  NoTableYet'
<1>1. CASE LoadKernel
  BY <1>1, NoTableLoad
<1>2. ASSUME ~LoadKernel
      PROVE  /\ UNCHANGED indir1
             /\ this_kernel' \in {this_kernel, this_kernel + 1}
             /\ pc \in {"run", "end", "hung"} => pc' = pc
  BY <1>2 DEF vars, Next, Proceed, StartQi, SecondPhase, UsbSource, DoPartitions, CheckNoboot,
     ReadAppend, PullHead, BadMagic, Exhausted, UsbRead, Goto, NextSource
<1> QED
  BY <1>1, <1>2, NoTableSame

\* do_partitions passes over every source of a card without a table.
LEMMA PartitionsJudge ==
  ASSUME TFlags, TSearch, Past, DoPartitions
  PROVE  Judged' /\ Past'
<1>1. this_kernel \in Parts
  BY BootAssumption, SMT DEF DoPartitions, TSearch, Parts
<1>2. UNCHANGED medium
  BY DEF DoPartitions
<1>3. mbr \in BOOLEAN
  BY DEF TFlags
<1>4. CASE mbr /\ Goto("noboot") /\ NoFault
  <2>1. pc' = "noboot" /\ this_kernel' = this_kernel /\ hit' = hit
    BY <1>4 DEF Goto, NoFault
  <2>2. mbr' = TRUE
    BY <1>2, <1>3, <1>4, Zenon DEF medium
  <2> QED
    BY <1>2, <2>1, <2>2, PastSame DEF Judged
<1>5. CASE ~mbr /\ NextSource /\ NoFault
  <2>1. mbr = FALSE /\ hit' = hit
    BY <1>3, <1>5, Zenon DEF NoFault
  <2>2. ~Viable(this_kernel)
    BY <2>1, <1>1, ViableIs
  <2> QED
    BY <1>2, <1>5, <2>1, <2>2, PastNext, NextSourceElsewhere, JudgedElsewhere
<1>6. CASE NextSource /\ Fault
  <2>1. hit \subseteq hit' /\ this_kernel \in hit'
    BY <1>6 DEF Fault
  <2> QED
    BY <1>2, <1>6, <2>1, PastNext, NextSourceElsewhere, JudgedElsewhere
<1> QED
  BY <1>4, <1>5, <1>6, Zenon DEF DoPartitions

\* A source with a noboot file is passed over unless a read of it failed.
LEMMA NobootJudges ==
  ASSUME TFlags, TSearch, Judged, Past, CheckNoboot
  PROVE  Judged' /\ Past'
<1>1. this_kernel \in Parts /\ pc = "noboot"
  BY DEF CheckNoboot, TSearch
<1>2. UNCHANGED medium
  BY DEF CheckNoboot
<1>3. PICK r \in Results : ReadFile(P.noboot, r, 0) /\ (IF GoesOn(r) THEN Goto("append") ELSE NextSource)
  BY DEF CheckNoboot
<1>4. P.noboot \in BOOLEAN /\ P.mount \in BOOLEAN
  BY <1>1, PartFlags DEF P
<1>5. hit \subseteq hit' /\ (r = Natural(P.noboot) \/ (P.mount = TRUE /\ r # "ok" /\ this_kernel \in hit'))
  BY <1>1, <1>3, <1>4, NoLevels, HitOrNatural
<1>6. CASE r = "fail"
  <2>1. pc' = "append" /\ this_kernel' = this_kernel
    BY <1>3, <1>6 DEF GoesOn, Goto
  <2>2. P.mount = TRUE /\ (P.noboot = FALSE \/ this_kernel \in hit')
    BY <1>1, <1>4, <1>5, <1>6, NaturalIs
  <2>3. P' = P /\ mbr' = mbr
    BY <1>2, <2>1 DEF P, medium
  <2>4. mbr = TRUE
    BY <1>1 DEF Judged
  <2>5. Judged'
    BY <2>1, <2>2, <2>3, <2>4 DEF Judged
  <2> QED
    BY <1>2, <1>5, <2>1, <2>5, PastSame
<1>7. CASE r # "fail"
  <2>1. NextSource
    BY <1>3, <1>7 DEF GoesOn
  <2>2. this_kernel \in hit' \/ P.mount = FALSE \/ P.noboot = TRUE
    BY <1>1, <1>4, <1>5, <1>7, NaturalIs
  <2>3. ~Viable(this_kernel) \/ this_kernel \in hit'
    BY <1>1, <2>2, ViableIs DEF P
  <2> QED
    BY <1>2, <1>5, <2>1, <2>3, PastNext, NextSourceElsewhere, JudgedElsewhere
<1> QED
  BY <1>6, <1>7

\* The result of reading the append file decides nothing.
LEMMA AppendJudges ==
  ASSUME TFlags, TSearch, Judged, Past, ReadAppend
  PROVE  Judged' /\ Past'
<1>1. this_kernel \in Parts /\ pc = "append"
  BY DEF ReadAppend, TSearch
<1>2. UNCHANGED medium /\ pc' = "head" /\ this_kernel' = this_kernel
  BY DEF ReadAppend, Goto
<1>3. PICK r \in Results : ReadFile(P.append > 0, r, 0)
  BY DEF ReadAppend
<1>4. hit \subseteq hit'
  BY <1>1, <1>3, NoLevels, ReadFileStep
<1>5. P' = P /\ mbr' = mbr
  BY <1>2 DEF P, medium
<1>6. Judged'
  BY <1>1, <1>2, <1>4, <1>5 DEF Judged
<1> QED
  BY <1>2, <1>4, <1>6, PastSame

\* A source without a kernel file is passed over.
LEMMA HeadJudges ==
  ASSUME TFlags, TSearch, Judged, Past, PullHead
  PROVE  Judged' /\ Past'
<1>1. this_kernel \in Parts /\ pc = "head"
  BY DEF PullHead, TSearch
<1>2. UNCHANGED medium
  BY DEF PullHead
<1>3. PICK r \in Results : ReadFile(P.kernel # "none", r, 0) /\ (IF r = "ok" THEN Goto("load") ELSE NextSource)
  BY DEF PullHead
<1>4. (P.kernel # "none") \in BOOLEAN
  OBVIOUS
<1>5. hit \subseteq hit'
      /\ (r = Natural(P.kernel # "none") \/ (P.mount = TRUE /\ r # "ok" /\ this_kernel \in hit'))
  BY <1>1, <1>3, <1>4, NoLevels, HitOrNatural
<1>6. CASE r = "ok"
  <2>1. pc' = "load" /\ this_kernel' = this_kernel
    BY <1>3, <1>6 DEF Goto
  <2>2. P' = P /\ mbr' = mbr
    BY <1>2, <2>1 DEF P, medium
  <2>3. Judged'
    BY <1>1, <1>5, <2>1, <2>2 DEF Judged
  <2> QED
    BY <1>2, <1>5, <2>1, <2>3, PastSame
<1>7. CASE r # "ok"
  <2>1. NextSource
    BY <1>3, <1>7
  <2>2. CASE this_kernel \in hit'
    BY <1>2, <1>5, <2>1, <2>2, PastNext, NextSourceElsewhere, JudgedElsewhere
  <2>3. CASE r = Natural(P.kernel # "none")
    <3>1. P.mount = FALSE \/ P.kernel = "none"
      BY <1>1, <1>4, <1>7, <2>3, NaturalIs
    <3>2. ~Viable(this_kernel)
      BY <1>1, <3>1, ViableIs DEF P
    <3> QED
      BY <1>2, <1>5, <2>1, <3>2, PastNext, NextSourceElsewhere, JudgedElsewhere
  <2> QED
    BY <1>5, <2>2, <2>3
<1> QED
  BY <1>6, <1>7

\* What is known of a source whose kernel is accepted, and of one whose
\* kernel is read without error and refused.
LEMMA AcceptsIs ==
  ASSUME NEW d
  PROVE  /\ Accepts(d) => P.kernel \in {"uimage", "zimage"}
         /\ d = "intact" /\ P.kernel \in {"uimage", "zimage"} => Accepts(d)
BY Zenon DEF Accepts, CrcOk, LengthOk

\* A kernel that is refused is not viable, or was hit.
LEMMA RefusedRightly ==
  ASSUME TFlags, TSearch, Judged, NoTableYet, pc = "load",
         NEW r \in Results, NEW d \in {"intact", "holed", "wrong"}, ReadKernel(r, d)
  PROVE  /\ hit \subseteq hit'
         /\ this_kernel \in hit' \/ (r = "ok" /\ d = "intact")
<1>1. this_kernel \in Parts /\ P.mount = TRUE
  BY DEF Judged, TSearch
<1>2. ~Cached
  BY OwnTable
<1>3. CASE r = "ok" /\ ReadFile(TRUE, r, P.levels) /\ FromTable(d)
  <2>1. hit \subseteq hit'
    BY <1>1, <1>3, NoLevels, HitOrNatural
  <2>2. d = "intact"
    BY <1>2, <1>3, Zenon DEF FromTable
  <2> QED
    BY <1>3, <2>1, <2>2
<1>4. CASE r # "ok" /\ \E k \in 0 .. P.levels : ReadFile(TRUE, r, k)
  <2>1. Natural(TRUE) = "ok"
    BY <1>1, NaturalIs
  <2> QED
    BY <1>1, <1>4, <2>1, HitOrNatural
<1>5. CASE Fault
  BY <1>5 DEF Fault
<1>6. \/ r = "ok" /\ ReadFile(TRUE, r, P.levels) /\ FromTable(d)
      \/ r # "ok" /\ \E k \in 0 .. P.levels : ReadFile(TRUE, r, k)
      \/ Fault
  <2>1. "death" # "ok" /\ "fail" # "ok"
    OBVIOUS
  <2> QED
    BY <1>1, <1>2, <2>1, NoLevels, Zenon DEF ReadKernel
<1> QED
  BY <1>3, <1>4, <1>5, <1>6

LEMMA LoadJudges ==
  ASSUME TFlags, TSearch, Judged, Past, NoTableYet, LoadKernel
  PROVE  Judged' /\ Past'
<1>1. this_kernel \in Parts /\ pc = "load"
  BY DEF LoadKernel, TSearch
<1>2. UNCHANGED medium
  BY DEF LoadKernel
<1>3. PICK r \in Results, d \in {"intact", "holed", "wrong"} :
        ReadKernel(r, d) /\ (IF r = "ok" /\ Accepts(d) THEN Goto("run") ELSE NextSource)
  BY DEF LoadKernel
<1>4. hit \subseteq hit' /\ (this_kernel \in hit' \/ (r = "ok" /\ d = "intact"))
  BY <1>1, <1>3, RefusedRightly
<1>5. CASE r = "ok" /\ Accepts(d)
  <2>1. pc' = "run" /\ this_kernel' = this_kernel
    BY <1>3, <1>5 DEF Goto
  <2>2. P' = P /\ mbr' = mbr
    BY <1>2, <2>1 DEF P, medium
  <2>3. P.kernel \in {"uimage", "zimage"}
    BY <1>5, AcceptsIs
  <2>4. Judged'
    BY <1>1, <1>4, <2>1, <2>2, <2>3 DEF Judged
  <2> QED
    BY <1>2, <1>4, <2>1, <2>4, PastSame
<1>6. CASE ~(r = "ok" /\ Accepts(d))
  <2>1. NextSource
    BY <1>3, <1>6
  <2>2. this_kernel \in hit' \/ P.kernel \notin {"uimage", "zimage"}
    BY <1>4, <1>6, AcceptsIs
  <2>3. ~Viable(this_kernel) \/ this_kernel \in hit'
    BY <1>1, <2>2, ViableIs DEF P
  <2> QED
    BY <1>2, <1>4, <2>1, <2>3, PastNext, NextSourceElsewhere, JudgedElsewhere
<1> QED
  BY <1>5, <1>6

\* The other steps judge nothing but a kernel without a magic.
LEMMA OthersJudge ==
  ASSUME TFlags, TSearch, Judged, Past,
         StartQi \/ SecondPhase \/ UsbSource \/ UsbRead \/ BadMagic \/ Exhausted \/ UNCHANGED vars
  PROVE  Judged' /\ Past'
<1>1. UNCHANGED medium /\ hit' = hit
  BY DEF StartQi, SecondPhase, UsbSource, UsbRead, BadMagic, Exhausted, vars, medium
<1>2. CASE UNCHANGED vars
  BY <1>1, <1>2, PastSame DEF vars, Judged, P
<1>3. CASE StartQi \/ SecondPhase \/ UsbRead \/ Exhausted
  <2>1. this_kernel' = this_kernel /\ pc' \notin {"noboot", "append", "head", "load", "run"}
    BY <1>3 DEF StartQi, SecondPhase, UsbRead, Exhausted
  <2> QED
    BY <1>1, <2>1, PastSame, JudgedElsewhere
<1>4. CASE UsbSource
  <2>1. this_kernel \notin Parts
    BY <1>4, SMT DEF UsbSource, Parts
  <2>2. CASE Goto("usb")
    BY <1>1, <2>2, PastSame, JudgedElsewhere DEF Goto
  <2>3. CASE NextSource
    BY <1>1, <2>1, <2>3, PastNext, NextSourceElsewhere, JudgedElsewhere
  <2> QED
    BY <1>4, <2>2, <2>3 DEF UsbSource
<1>5. CASE BadMagic
  <2>1. NextSource /\ this_kernel \in Parts /\ P.kernel = "garbage"
    BY <1>5 DEF BadMagic, TSearch
  <2>2. ~Viable(this_kernel)
    BY <2>1, ViableIs DEF P
  <2> QED
    BY <1>1, <2>1, <2>2, PastNext, NextSourceElsewhere, JudgedElsewhere
<1> QED
  BY <1>2, <1>3, <1>4, <1>5

LEMMA InitInvariant ==
  ASSUME Init
  PROVE  IInv
<1>1. TypeOK
  BY InitTypes
<1>2. Judged
  BY DEF Init, Judged
<1>3. Past
  BY BootAssumption, SMT DEF Init, Past, Parts
<1>4. NoTableYet
  BY BootAssumption, SMT DEF Init, NoTableYet, NoTable, None
<1> QED
  BY <1>1, <1>2, <1>3, <1>4 DEF IInv

LEMMA StepInvariant ==
  ASSUME DistinctTables, IInv, [Next]_vars
  PROVE  IInv'
<1>1. TFlags /\ TSearch /\ TBuffers /\ Judged /\ Past /\ NoTableYet
  BY TypeParts DEF IInv
<1>2. TypeOK'
  BY StepTypes DEF IInv
<1>3. NoTableYet'
  BY <1>1, NoTableStep
<1>4. Judged' /\ Past'
  BY <1>1, PartitionsJudge, NobootJudges, AppendJudges, HeadJudges, LoadJudges, OthersJudge
     DEF Next, Proceed
<1> QED
  BY <1>2, <1>3, <1>4 DEF IInv

LEMMA InvariantSuffices ==
  ASSUME IInv
  PROVE  FirstViableStarts
<1>1. Past
  BY DEF IInv
<1>2. ASSUME pc = "run" PROVE Viable(this_kernel) \/ this_kernel \in hit
  <2>1. this_kernel \in Parts
    BY <1>2 DEF IInv, TypeOK
  <2> QED
    BY <1>2, <2>1, ViableIf DEF IInv, Judged, P
<1> QED
  BY <1>1, <1>2 DEF FirstViableStarts, Past

\* The search is sound, for any number of partitions and any card: if no two
\* kernels have their indirect block at the same number, the sources that
\* were passed over are not viable and the one started is, but for sources a
\* read error fell on.
THEOREM FirstViable ==
  ASSUME DistinctTables
  PROVE  Spec => []FirstViableStarts
<1>1. Init => IInv
  BY InitInvariant
<1>2. IInv /\ [Next]_vars => IInv'
  BY StepInvariant
<1>3. IInv => FirstViableStarts
  BY InvariantSuffices
<1> QED
  BY <1>1, <1>2, <1>3, PTL DEF Spec

\* A step that leads to a kernel has read it in full and accepted it.
LEMMA RunStep ==
  ASSUME [Next]_vars, pc' = "run", ~UNCHANGED vars
  PROVE  /\ pc = "load" /\ this_kernel' = this_kernel /\ P' = P
         /\ \E d \in {"intact", "holed", "wrong"} :
              ReadKernel("ok", d) /\ Accepts(d) /\ dram' = [of |-> this_kernel, data |-> d]
<1>1. LoadKernel
  BY DEF Next, Proceed, StartQi, SecondPhase, UsbSource, DoPartitions, CheckNoboot,
     ReadAppend, PullHead, BadMagic, Exhausted, UsbRead, Goto, NextSource
<1>2. PICK r \in Results, d \in {"intact", "holed", "wrong"} :
        /\ ReadKernel(r, d)
        /\ dram' = IF r = "ok" THEN [of |-> this_kernel, data |-> d] ELSE dram
        /\ IF r = "ok" /\ Accepts(d) THEN Goto("run") ELSE NextSource
  BY <1>1 DEF LoadKernel
<1>3. r = "ok" /\ Accepts(d) /\ this_kernel' = this_kernel
  BY <1>2 DEF NextSource, Goto
<1>4. P' = P /\ pc = "load"
  BY <1>1, <1>3 DEF P, LoadKernel, medium
<1> QED
  BY <1>2, <1>3, <1>4

LEMMA OwnStep ==
  ASSUME DistinctTables => IInv, KernelIsOwn, [Next]_vars
  PROVE  KernelIsOwn'
<1> SUFFICES ASSUME pc' = "run"
             PROVE  /\ dram'.of = this_kernel'
                    /\ P'.kernel = "uimage" \/ (DistinctTables /\ this_kernel' \notin hit') =>
                         dram'.data = "intact"
  BY DEF KernelIsOwn
<1>1. CASE UNCHANGED vars
  BY <1>1 DEF vars, KernelIsOwn, P
<1>2. CASE ~UNCHANGED vars
  <2>1. pc = "load" /\ this_kernel' = this_kernel /\ P' = P
    BY <1>2, RunStep
  <2>2. PICK d \in {"intact", "holed", "wrong"} :
          ReadKernel("ok", d) /\ Accepts(d) /\ dram' = [of |-> this_kernel, data |-> d]
    BY <1>2, RunStep
  <2>3. ASSUME P'.kernel = "uimage" PROVE d = "intact"
    BY <2>1, <2>2, <2>3, Zenon DEF Accepts, CrcOk, LengthOk
  <2>4. ASSUME DistinctTables, this_kernel' \notin hit' PROVE d = "intact"
    <3>1. "ok" \in Results
      BY DEF Results
    <3> QED
      BY <2>1, <2>2, <2>4, <3>1, RefusedRightly, TypeParts DEF IInv
  <2> QED
    BY <2>1, <2>2, <2>3, <2>4
<1> QED
  BY <1>1, <1>2

\* For every card and any number of read errors: a kernel that is started was
\* read in full from its own partition; it is that partition's file block for
\* block if it is a uImage, or if no two kernels have their indirect block at
\* the same number and no error fell on the partition.
THEOREM KernelsAreOwn == Spec => []KernelIsOwn
<1> DEFINE J == DistinctTables => IInv
<1>1. Init => J /\ KernelIsOwn
  BY InitInvariant DEF Init, KernelIsOwn
<1>2. J /\ KernelIsOwn /\ [Next]_vars => J' /\ KernelIsOwn'
  BY StepInvariant, OwnStep
<1> QED
  BY <1>1, <1>2, PTL DEF Spec

-----------------------------------------------------------------------------
(* The search implements KernelSearch *)

Searching == {"start", "second", "init", "noboot", "append", "head", "load"}

\* What a step of the loader is to the search.
Advances == NextSource /\ pc \in Searching
Stays    == this_kernel' = this_kernel /\ pc \in Searching /\ pc' \in Searching
Starts   == this_kernel' = this_kernel /\ pc \in Searching /\ pc' = "run"
Waits    == this_kernel' = this_kernel /\ pc \in Searching /\ pc' = "usb" /\ this_kernel = 0 /\ hit' = hit
Hangs    == this_kernel' = this_kernel /\ pc \in Searching /\ pc' = "hung" /\ hit' = hit
Rests    == this_kernel' = this_kernel /\ hit' = hit
            /\ (pc' = pc \/ (pc = "usb" /\ pc' = "usbrun"))

LEMMA StepKinds ==
  ASSUME [Next]_vars
  PROVE  Advances \/ Stays \/ Starts \/ Waits \/ Hangs \/ Rests
<1> USE DEF Searching, Goto
<1>1. CASE StartQi \/ SecondPhase
  BY <1>1 DEF StartQi, SecondPhase, Stays
<1>2. CASE UsbSource
  BY <1>2 DEF UsbSource, Advances, Waits
<1>3. CASE UsbRead \/ UNCHANGED vars
  BY <1>3 DEF UsbRead, vars, Rests
<1>4. CASE DoPartitions
  BY <1>4 DEF DoPartitions, Advances, Stays
<1>5. CASE CheckNoboot
  BY <1>5 DEF CheckNoboot, Advances, Stays
<1>6. CASE ReadAppend
  BY <1>6 DEF ReadAppend, Stays
<1>7. CASE PullHead
  BY <1>7 DEF PullHead, Advances, Stays
<1>8. CASE LoadKernel
  BY <1>8 DEF LoadKernel, Advances, Starts
<1>9. CASE BadMagic
  BY <1>9 DEF BadMagic, Advances
<1>10. CASE Exhausted
  BY <1>10 DEF Exhausted, Hangs
<1> QED
  BY <1>1, <1>2, <1>3, <1>4, <1>5, <1>6, <1>7, <1>8, <1>9, <1>10 DEF Next, Proceed

\* A read error hits the current source.
LEMMA HitStep ==
  ASSUME TSearch, [Next]_vars
  PROVE  hit' \in {hit, hit \union {this_kernel}}
<1>1. CASE CheckNoboot
  BY <1>1, NoLevels, ReadFileStep DEF CheckNoboot, TSearch
<1>2. CASE ReadAppend
  BY <1>2, NoLevels, ReadFileStep DEF ReadAppend, TSearch
<1>3. CASE PullHead
  BY <1>3, NoLevels, ReadFileStep DEF PullHead, TSearch
<1>4. CASE LoadKernel
  BY <1>4, ReadKernelStep DEF LoadKernel, TSearch
<1>5. CASE DoPartitions
  BY <1>5 DEF DoPartitions, NoFault, Fault
<1>6. ASSUME ~CheckNoboot, ~ReadAppend, ~PullHead, ~LoadKernel, ~DoPartitions
      PROVE  hit' = hit
  BY <1>6 DEF vars, Next, Proceed, StartQi, SecondPhase, UsbSource, BadMagic, Exhausted, UsbRead
<1> QED
  BY <1>1, <1>2, <1>3, <1>4, <1>5, <1>6

\* The card does not change, so neither do the viable partitions.
LEMMA ViableSame ==
  ASSUME [Next]_vars
  PROVE  {p \in Parts : Viable(p)}' = {p \in Parts : Viable(p)}
<1>1. UNCHANGED medium
  BY DEF medium, vars, Next, Proceed, StartQi, SecondPhase, UsbSource, DoPartitions, CheckNoboot,
     ReadAppend, PullHead, LoadKernel, BadMagic, Exhausted, UsbRead
<1>2. ASSUME NEW p \in Parts PROVE Viable(p)' <=> Viable(p)
  BY <1>1, Zenon DEF medium, Viable
<1> QED
  BY <1>2, Zenon

\* What the abstract search makes of pc.
LEMMA OutcomeIs ==
  /\ pc \in Searching => Outcome = "searching"
  /\ pc = "run" => Outcome = "started"
  /\ pc = "end" => Outcome = "none"
  /\ pc = "hung" => Outcome = "hung"
  /\ pc \in {"usb", "usbrun"} => Outcome = "download"
BY DEF Searching, Outcome

LEMMA OutcomeNext ==
  /\ pc' \in Searching => Outcome' = "searching"
  /\ pc' = "run" => Outcome' = "started"
  /\ pc' = "end" => Outcome' = "none"
  /\ pc' = "hung" => Outcome' = "hung"
  /\ pc' \in {"usb", "usbrun"} => Outcome' = "download"
  /\ pc' = pc => Outcome' = Outcome
BY DEF Searching, Outcome

LEMMA StepSearches ==
  ASSUME IInv, IInv', [Next]_vars
  PROVE  [Search!Next]_(Search!vars)
<1> DEFINE V == {p \in Parts : Viable(p)}
<1>1. V' = V /\ hit' \in {hit, hit \union {this_kernel}}
  BY ViableSame, HitStep, TypeParts DEF IInv
<1> USE DEF Search!Next, Search!vars
<1>2. CASE Advances
  <2>1. Outcome = "searching" /\ this_kernel' = this_kernel + 1
    BY <1>2, OutcomeIs DEF Advances, NextSource
  <2>2. Outcome' = IF this_kernel = N THEN "none" ELSE "searching"
    BY <1>2, OutcomeNext DEF Advances, NextSource, Searching
  <2>3. this_kernel \notin V \ hit'
    <3> SUFFICES ASSUME this_kernel \in Parts, this_kernel \in V', this_kernel \notin hit' PROVE FALSE
      BY <1>1
    <3>1. this_kernel < this_kernel'
      BY <2>1, BootAssumption, SMT DEF IInv, TypeOK
    <3>2. \A p \in Parts : p < this_kernel' => ~Viable(p)' \/ p \in hit'
      BY DEF IInv, Past
    <3> QED
      BY <3>1, <3>2, Zenon
  <2> QED
    BY <1>1, <2>1, <2>2, <2>3 DEF Search!Pass, Search!MaySpoil
<1>3. CASE Stays
  <2>1. Outcome = "searching" /\ Outcome' = "searching" /\ this_kernel' = this_kernel
    BY <1>3, OutcomeIs, OutcomeNext DEF Stays
  <2> QED
    BY <1>1, <2>1 DEF Search!Spoil, Search!MaySpoil
<1>4. CASE Starts
  <2>1. Outcome = "searching" /\ Outcome' = "started" /\ this_kernel' = this_kernel
    BY <1>4, OutcomeIs, OutcomeNext DEF Starts
  <2>2. this_kernel \in V \union hit'
    <3>1. this_kernel' \in Parts
      BY <1>4 DEF IInv, TypeOK, Starts
    <3>2. P'.mount = TRUE /\ P'.kernel \in {"uimage", "zimage"} /\ mbr' = TRUE
          /\ (P'.noboot = FALSE \/ this_kernel' \in hit')
      BY <1>4 DEF IInv, Judged, Starts
    <3>3. this_kernel' \in hit' \/ Viable(this_kernel)'
      BY <3>2, Zenon DEF Viable, P
    <3>4. this_kernel' \in V' \/ this_kernel' \in hit'
      BY <3>1, <3>3, Zenon
    <3> QED
      BY <1>1, <2>1, <3>4
  <2> QED
    BY <1>1, <2>1, <2>2 DEF Search!Start, Search!MaySpoil
<1>5. CASE Waits
  <2>1. Outcome = "searching" /\ Outcome' = "download" /\ UNCHANGED <<this_kernel, hit>> /\ this_kernel = 0
    BY <1>5, OutcomeIs, OutcomeNext DEF Waits
  <2> QED
    BY <1>1, <2>1 DEF Search!Download
<1>6. CASE Hangs
  <2>1. Outcome = "searching" /\ Outcome' = "hung" /\ UNCHANGED <<this_kernel, hit>>
    BY <1>6, OutcomeIs, OutcomeNext DEF Hangs
  <2> QED
    BY <1>1, <2>1 DEF Search!Hang
<1>7. CASE Rests
  <2>1. UNCHANGED <<Outcome, this_kernel, hit>>
    BY <1>7, OutcomeIs, OutcomeNext DEF Rests
  <2> QED
    BY <1>1, <2>1
<1> QED
  BY <1>2, <1>3, <1>4, <1>5, <1>6, <1>7, StepKinds

\* The loader implements the abstract search, for any number of partitions
\* and any card on which no two kernels share the number of their table:
\* sources are tried in order, each once, and the outcome is the first one's
\* that is viable.
THEOREM ImplementsKernelSearch ==
  ASSUME DistinctTables
  PROVE  Spec => ImplementsSearch
<1>1. Init => IInv
  BY InitInvariant
<1>2. IInv /\ [Next]_vars => IInv'
  BY StepInvariant
<1>3. Init => Search!Init
  <2> SUFFICES ASSUME Init PROVE Search!Init
    OBVIOUS
  <2>1. Outcome = "searching"
    BY OutcomeIs DEF Init, Searching
  <2>2. {p \in Parts : Viable(p)} \in SUBSET (1 .. N)
    BY DEF Parts
  <2> QED
    BY <2>1, <2>2 DEF Init, Search!Init
<1>4. IInv /\ IInv' /\ [Next]_vars => [Search!Next]_(Search!vars)
  BY StepSearches
<1> QED
  BY <1>1, <1>2, <1>3, <1>4, PTL DEF Spec, ImplementsSearch, Search!Spec

-----------------------------------------------------------------------------
(* The malloc pool *)

\* A source's part of the pool, and what the lookups in the current one took.
Share  == Pool \div N
Lookup == LookupCost(P)
Before == IF pc = "append" THEN Lookup
          ELSE IF pc = "head" THEN 2 * Lookup
          ELSE IF pc = "load" THEN 3 * Lookup ELSE 0

Busy == {"init", "noboot", "append", "head", "load"}

Thrifty == Roomy =>
    /\ pc # "hung"
    /\ pc \in {"start", "second"} => this_kernel = 0
    /\ this_kernel = 0 => pool = 0
    /\ this_kernel \in Parts /\ pc \in Busy =>
         pool <= (this_kernel - 1) * Share + Before

LEMMA Shares ==
  ASSUME NEW i \in Nat, NEW j \in Nat, NEW s \in Nat
  PROVE  /\ i * s \in Nat /\ (i + 1) * s = i * s + s /\ 0 * s = 0
         /\ i <= j => i * s <= j * s
BY SMT

\* Four lookups and the tables of a source are within its share, and the shares
\* within the pool.
LEMMA ShareEnough ==
  ASSUME TSearch, Roomy, this_kernel \in Parts
  PROVE  /\ Share \in Nat /\ N * Share <= Pool /\ Lookup \in Nat
         /\ P.levels * P.block \in Nat
         /\ 4 * Lookup + P.levels * P.block <= Share
<1>1. N \in Nat \ {0} /\ Pool \in Nat
  BY BootAssumption DEF Parts
<1>2. PICK b : b = P.levels * P.block
  OBVIOUS
<1>3. b \in Nat
  <2>1. P.levels \in Nat /\ P.block \in Nat
    BY PartNumbers
  <2> QED
    BY <1>2, <2>1, Products
<1>4. Lookup \in Nat
  BY CostBound DEF Lookup
<1>5. PICK c : c = 4 * Lookup + b
  OBVIOUS
<1>6. c \in Nat
  BY <1>3, <1>4, <1>5
<1>7. DOMAIN media = Parts
  BY DEF TSearch
<1>8. N * c <= Pool
  <2>1. SourceCost(P) = c
    BY <1>2, <1>5, Zenon DEF SourceCost, Lookup
  <2> QED
    BY <1>7, <2>1, Zenon DEF Roomy, P
<1>9. PICK s : s = Share
  OBVIOUS
<1>10. s \in Nat /\ N * s <= Pool /\ c <= s
  BY <1>1, <1>6, <1>8, <1>9, SMT DEF Share
<1> QED
  BY <1>2, <1>3, <1>4, <1>5, <1>9, <1>10

\* The place where the current source's share begins.
LEMMA ShareBegins ==
  ASSUME TSearch, Roomy, this_kernel \in Parts
  PROVE  /\ (this_kernel - 1) * Share \in Nat
         /\ this_kernel * Share = (this_kernel - 1) * Share + Share
         /\ this_kernel * Share <= Pool
<1>1. PICK k \in Nat : k = this_kernel - 1 /\ k + 1 = this_kernel /\ k + 1 <= N
  BY BootAssumption DEF Parts
<1>2. Share \in Nat /\ N * Share <= Pool /\ N \in Nat /\ Pool \in Nat
  BY ShareEnough, BootAssumption
<1>3. k * Share \in Nat /\ (k + 1) * Share = k * Share + Share
  BY <1>2, Shares
<1>4. (k + 1) * Share <= N * Share /\ N * Share \in Nat
  BY <1>1, <1>2, Shares
<1>5. PICK a, b, c : a = k * Share /\ b = (k + 1) * Share /\ c = N * Share
  OBVIOUS
<1>6. b <= Pool
  BY <1>2, <1>3, <1>4, <1>5
<1> QED
  BY <1>1, <1>3, <1>5, <1>6

\* The steps that call read_file, what they take of the pool, and where they lead.
LEMMA LookupSteps ==
  ASSUME TSearch, CheckNoboot \/ ReadAppend \/ PullHead \/ LoadKernel
  PROVE  /\ this_kernel \in Parts /\ pc \in Busy \ {"init"} /\ UNCHANGED media
         /\ \E r \in Results, k \in 0 .. P.levels :
              (pc = "load" \/ k = 0) /\ Allocate(r, k)
         /\ \/ NextSource
            \/ pc = "noboot" /\ Goto("append")
            \/ pc = "append" /\ Goto("head")
            \/ pc = "head" /\ Goto("load")
            \/ Goto("run")
<1>1. this_kernel \in Parts /\ pc \in Busy \ {"init"} /\ UNCHANGED media
  BY DEF CheckNoboot, ReadAppend, PullHead, LoadKernel, TSearch, medium, Busy
<1>2. \E r \in Results, k \in 0 .. P.levels : (pc = "load" \/ k = 0) /\ Allocate(r, k)
  <2>1. CASE LoadKernel
    <3>1. PICK r \in Results, d \in {"intact", "holed", "wrong"} : ReadKernel(r, d)
      BY <2>1, Zenon DEF LoadKernel
    <3>2. pc = "load"
      BY <2>1 DEF LoadKernel
    <3> QED
      BY <1>1, <3>1, <3>2, ReadKernelAllocates
  <2>2. CASE CheckNoboot \/ ReadAppend \/ PullHead
    <3>1. \E r \in Results : Allocate(r, 0)
      BY <2>2, Zenon DEF CheckNoboot, ReadAppend, PullHead, ReadFile
    <3> QED
      BY <1>1, <3>1, NoLevels
  <2> QED
    BY <2>1, <2>2
<1>3. \/ NextSource
      \/ pc = "noboot" /\ Goto("append")
      \/ pc = "append" /\ Goto("head")
      \/ pc = "head" /\ Goto("load")
      \/ Goto("run")
  BY Zenon DEF CheckNoboot, ReadAppend, PullHead, LoadKernel
<1> QED
  BY <1>1, <1>2, <1>3

\* Four steps of try_this_kernel call read_file, each once, and only the last
\* goes through tables.
LEMMA LookupThrifty ==
  ASSUME TypeOK, Thrifty, Roomy, CheckNoboot \/ ReadAppend \/ PullHead \/ LoadKernel
  PROVE  Thrifty'
<1>t. TSearch
  BY TypeParts
<1>1. this_kernel \in Parts /\ pc \in Busy \ {"init"} /\ UNCHANGED media
  BY <1>t, LookupSteps
<1>2. PICK r \in Results, k \in 0 .. P.levels : (pc = "load" \/ k = 0) /\ Allocate(r, k)
  BY <1>t, LookupSteps
<1>3. PICK l, b, f, s : l = Lookup /\ b = P.levels * P.block
                        /\ f = (this_kernel - 1) * Share /\ s = Share
  OBVIOUS
<1>4. l \in Nat /\ b \in Nat /\ s \in Nat /\ f \in Nat /\ 4 * l + b <= s
      /\ this_kernel * Share = f + s
  BY <1>t, <1>1, <1>3, ShareEnough, ShareBegins
<1>5. pool \in Nat /\ pool <= f + Before
  BY <1>t, <1>1, <1>3, BootAssumption DEF Thrifty, TSearch
<1>6. PICK c, a : c = Cost(r) /\ a = TableCost(k)
  OBVIOUS
<1>7. c \in Nat /\ c <= l /\ a \in Nat /\ a <= b /\ (k = 0 => a = 0) /\ pool' = pool + c + a
  BY <1>t, <1>1, <1>2, <1>3, <1>6, CostBound, TableCostBound DEF Lookup, Allocate
<1>8. this_kernel \in Int /\ this_kernel >= 1
  BY <1>1, BootAssumption DEF Parts
<1>9. CASE NextSource
  <2>1. this_kernel' = this_kernel + 1 /\ pc' \in {"init", "end"}
    BY <1>9 DEF NextSource
  <2>2. pool' <= f + s
    BY <1>1, <1>2, <1>3, <1>4, <1>5, <1>7, SMT DEF Before, Busy
  <2>3. (this_kernel' - 1) * Share = f + s
    <3>1. this_kernel' - 1 = this_kernel
      BY <1>8, <2>1
    <3> QED
      BY <1>4, <3>1
  <2>4. Before' = 0
    BY <2>1 DEF Before
  <2>5. this_kernel' # 0 /\ pc' \notin {"hung", "start", "second"}
    BY <1>8, <2>1
  <2>6. pool' <= (this_kernel' - 1) * Share + Before'
    BY <1>4, <2>2, <2>3, <2>4
  <2> QED
    BY <2>5, <2>6, Zenon DEF Thrifty, Share
<1>10. CASE Goto("run")
  <2>1. pc' = "run" /\ this_kernel' # 0
    BY <1>8, <1>10 DEF Goto
  <2> QED
    BY <2>1 DEF Thrifty, Busy
<1>11. CASE \/ pc = "noboot" /\ Goto("append")
            \/ pc = "append" /\ Goto("head")
            \/ pc = "head" /\ Goto("load")
  <2>1. this_kernel' = this_kernel /\ Lookup' = Lookup /\ pc # "load" /\ a = 0
        /\ pc' \in {"append", "head", "load"}
    BY <1>1, <1>2, <1>7, <1>11 DEF Goto, Lookup, P
  <2>2. Before' = Before + l
    BY <1>3, <1>4, <1>11, <2>1 DEF Before, Goto
  <2>3. Before \in Nat
    BY <1>3, <1>4 DEF Before
  <2>4. pool' <= f + Before'
    BY <1>4, <1>5, <1>7, <2>1, <2>2, <2>3
  <2>5. pool' <= (this_kernel' - 1) * Share + Before'
    BY <1>3, <2>1, <2>4
  <2>6. this_kernel' # 0 /\ pc' \notin {"hung", "start", "second"}
    BY <1>8, <2>1
  <2> QED
    BY <2>5, <2>6, Zenon DEF Thrifty, Share
<1> QED
  BY <1>t, <1>9, <1>10, <1>11, LookupSteps

\* The next lookup always has its share, so malloc returns.
LEMMA NeverExhausted ==
  ASSUME TypeOK, Thrifty, Roomy
  PROVE  ~Exhausted
<1> SUFFICES ASSUME Exhausted PROVE FALSE
  OBVIOUS
<1>t. TSearch
  BY TypeParts
<1>1. this_kernel \in Parts /\ pc \in Busy \ {"init"}
  BY <1>t DEF Exhausted, TSearch, Busy
<1>2. PICK k \in 0 .. P.levels : (pc = "load" \/ k = 0) /\ ~Fits(Natural(TRUE), k)
  <2>1. ~Fits(Natural(TRUE), IF pc = "load" THEN P.levels ELSE 0)
    BY DEF Exhausted
  <2>2. CASE pc = "load"
    BY <1>t, <1>1, <2>1, <2>2, NoLevels
  <2>3. CASE pc # "load"
    BY <1>t, <1>1, <2>1, <2>3, NoLevels
  <2> QED
    BY <2>2, <2>3
<1>3. PICK l, b, f, s : l = Lookup /\ b = P.levels * P.block
                        /\ f = (this_kernel - 1) * Share /\ s = Share
  OBVIOUS
<1>4. l \in Nat /\ b \in Nat /\ s \in Nat /\ f \in Nat /\ 4 * l + b <= s /\ f + s <= Pool
  BY <1>t, <1>1, <1>3, ShareEnough, ShareBegins
<1>5. pool \in Nat /\ pool <= f + Before /\ Pool \in Nat
  BY <1>t, <1>1, <1>3, BootAssumption DEF Thrifty, TSearch
<1>6. PICK c, a : c = Cost(Natural(TRUE)) /\ a = TableCost(k)
  OBVIOUS
<1>7. c \in Nat /\ c <= l /\ a \in Nat /\ a <= b
  BY <1>t, <1>1, <1>2, <1>3, <1>6, CostBound, TableCostBound DEF Lookup
<1>8. ~(pool + c + a <= Pool)
  BY <1>2, <1>6 DEF Fits
<1>9. Before <= 3 * l /\ Before \in Nat
  BY <1>3, <1>4 DEF Before
<1> QED
  BY <1>4, <1>5, <1>7, <1>8, <1>9

LEMMA ThriftyStep ==
  ASSUME TypeOK, Thrifty, [Next]_vars
  PROVE  Thrifty'
<1>t. TSearch /\ N \in Nat
  BY TypeParts, BootAssumption
<1>m. UNCHANGED media
  BY DEF vars, medium, Next, Proceed, StartQi, SecondPhase, UsbSource, DoPartitions, CheckNoboot,
     ReadAppend, PullHead, LoadKernel, BadMagic, Exhausted, UsbRead
<1> SUFFICES ASSUME Roomy PROVE Thrifty'
  BY <1>m DEF Thrifty, Roomy
<1>1. CASE CheckNoboot \/ ReadAppend \/ PullHead \/ LoadKernel
  BY <1>1, LookupThrifty
<1>2. CASE Exhausted
  BY <1>2, NeverExhausted
<1>3. CASE UsbSource \/ DoPartitions \/ BadMagic
  <2>1. /\ this_kernel \in 0 .. N /\ pool' = pool /\ pool \in Nat
        /\ pc \in {"init", "load"} /\ (pc = "load" => this_kernel \in Parts)
    BY <1>3, <1>t, BootAssumption DEF UsbSource, DoPartitions, BadMagic, TSearch
  <2>2. NextSource \/ (pc = "init" /\ this_kernel > 0 /\ Goto("noboot"))
         \/ (this_kernel = 0 /\ Goto("usb"))
    BY <1>3, Zenon DEF UsbSource, DoPartitions, BadMagic
  <2>3. CASE this_kernel = 0 /\ Goto("usb")
    BY <1>t, <2>1, <2>3 DEF Goto, Thrifty, Parts
  <2>4. CASE pc = "init" /\ this_kernel > 0 /\ Goto("noboot")
    <3>1. this_kernel \in Parts
      BY <1>t, <2>1, <2>4 DEF Parts
    <3>2. Before' = 0 /\ Before = 0 /\ pc' = "noboot" /\ this_kernel' = this_kernel
      BY <2>4 DEF Goto, Before
    <3>3. pool' <= (this_kernel' - 1) * Share + Before'
      BY <2>1, <2>4, <3>1, <3>2 DEF Thrifty, Busy
    <3> QED
      BY <2>4, <3>2, <3>3 DEF Thrifty, Share
  <2>5. CASE NextSource
    <3>1. this_kernel' = this_kernel + 1 /\ pc' \in {"init", "end"} /\ Before' = 0
      BY <2>5 DEF NextSource, Before
    <3>2. this_kernel' # 0 /\ pc' \notin {"hung", "start", "second"}
      BY <2>1, <3>1
    <3>3. ASSUME this_kernel' \in Parts PROVE pool' <= (this_kernel' - 1) * Share + Before'
      <4>1. this_kernel' - 1 = this_kernel
        BY <1>t, <2>1, <3>1
      <4>2. CASE this_kernel = 0
        <5>1. Share \in Nat
          <6>1. N # 0
            BY <1>t, <3>3 DEF Parts
          <6> QED
            BY <1>t, <6>1, BootAssumption, SMT DEF Share
        <5>2. (this_kernel' - 1) * Share = 0
          BY <4>1, <4>2, <5>1, Shares
        <5>3. pool' = 0
          BY <2>1, <4>2 DEF Thrifty
        <5> QED
          BY <3>1, <5>2, <5>3
      <4>3. CASE this_kernel # 0
        <5>1. this_kernel \in Parts
          BY <1>t, <2>1, <4>3 DEF Parts
        <5>2. PICK l, b, f, s : l = Lookup /\ b = P.levels * P.block
                                /\ f = (this_kernel - 1) * Share /\ s = Share
          OBVIOUS
        <5>3. l \in Nat /\ b \in Nat /\ s \in Nat /\ f \in Nat /\ 4 * l + b <= s
              /\ this_kernel * Share = f + s
          BY <1>t, <5>1, <5>2, ShareEnough, ShareBegins
        <5>4. pool <= f + Before
          BY <2>1, <5>1, <5>2 DEF Thrifty, Busy
        <5>5. Before <= 3 * l /\ Before \in Nat
          BY <5>2, <5>3 DEF Before
        <5>6. pool' <= f + s
          BY <2>1, <5>3, <5>4, <5>5
        <5> QED
          BY <3>1, <4>1, <5>3, <5>6
      <4> QED
        BY <4>2, <4>3
    <3> QED
      BY <3>2, <3>3, Zenon DEF Thrifty, Share
  <2> QED
    BY <2>2, <2>3, <2>4, <2>5
<1>4. CASE StartQi \/ SecondPhase \/ UsbRead \/ UNCHANGED vars
  <2>1. UNCHANGED <<this_kernel, pool>>
    BY <1>4, Zenon DEF StartQi, SecondPhase, UsbRead, vars
  <2>2. pc' = pc \/ (pc = "start" /\ pc' = "second") \/ (pc = "second" /\ pc' = "init")
         \/ (pc = "usb" /\ pc' = "usbrun")
    BY <1>4, Zenon DEF StartQi, SecondPhase, UsbRead, vars
  <2>3. Thrifty' <=> /\ pc' # "hung"
                     /\ pc' \in {"start", "second"} => this_kernel = 0
                     /\ this_kernel = 0 => pool = 0
                     /\ this_kernel \in Parts /\ pc' \in Busy =>
                          pool <= (this_kernel - 1) * Share + Before'
    BY <1>m, <2>1 DEF Thrifty, Roomy, Share, Busy
  <2>4. pc' = pc => Before' = Before
    BY <1>m, <2>1 DEF Before, Lookup, P
  <2>5. 0 \notin Parts
    BY DEF Parts
  <2>6. CASE pc' = pc
    BY <2>3, <2>4, <2>6 DEF Thrifty
  <2>7. CASE pc' # pc
    BY <2>2, <2>3, <2>5, <2>7 DEF Thrifty, Busy
  <2> QED
    BY <2>6, <2>7
<1> QED
  BY <1>1, <1>2, <1>3, <1>4, Zenon DEF Next, Proceed

\* A pool with room for four lookups and the tables of every source is never used
\* up, for every number of partitions, entries, links and every size of block:
\* malloc's endless loop is not reached.
THEOREM RoomIsEnough == Spec => []RoomyNeverHangs
<1>1. Init => Thrifty
  BY DEF Init, Thrifty, Parts
<1>2. TypeOK /\ Thrifty /\ [Next]_vars => Thrifty'
  BY ThriftyStep
<1>3. Thrifty => RoomyNeverHangs
  BY DEF Thrifty, RoomyNeverHangs
<1> QED
  BY TypeCorrect, <1>1, <1>2, <1>3, PTL DEF Spec
=============================================================================
