----------------------------- MODULE LoadingFs -----------------------------
(***************************************************************************)
(* The file systems of an installation (fw-utils/upgrade.c): the end of    *)
(* loading_firmware, from close(fd_inand) on, loading_fs, and the end of   *)
(* main.  homefs is unpacked first (unless the user keeps his settings),   *)
(* then rootfs, each by a child that runs tar at the end of a pipe its     *)
(* parent feeds from the firmware file.                                    *)
(*                                                                         *)
(* The child does not exit: it returns 0 from loading_fs like its parent,  *)
(* goes on to the next tree and through main, shows "Upgrade OK" and       *)
(* reboots, while the parent is in waitpid.  All processes share the file  *)
(* offset of fd_sd.  What lies between two system calls that another       *)
(* process can notice is an action.                                        *)
(***************************************************************************)
EXTENDS Naturals, SequencesExt

CONSTANTS
    Reads,          \* Reads[s]: reads it takes to send s, a chunk each
    Small,          \* the trees whose last chunk fits into the pipe
    MaxProcs,       \* bound: processes of the installer, tars not counted
    MaxFaults       \* bound: failing reads, mounts, forks and tars

Trees == {"homefs", "rootfs"}
Procs == 1 .. MaxProcs

ASSUME LoadingAssumption ==
    /\ Reads \in [Trees -> Nat \ {0}]
    /\ Small \subseteq Trees
    /\ MaxProcs \in Nat \ {0} /\ MaxFaults \in Nat

\* The firmware file from rootfs on, in chunks; homefs is its last section.
First(s) == IF s = "rootfs" THEN 1 ELSE 1 + Reads["rootfs"]
Content(s) == [i \in 1 .. Reads[s] |-> First(s) + i - 1]
FileEnd == Reads["rootfs"] + Reads["homefs"]
Junk == 0           \* what is in the buffer when read did not fill it
Chunks == 0 .. FileEnd

\* The partition a tree belongs to; "ram" is the directory below the mounts.
Home(s) == IF s = "homefs" THEN "p2" ELSE "p1"
Places == {"p1", "p2", "ram"}

VARIABLES
    keep,           \* keep_userzone
    proc,           \* the processes of the installer
    tar,            \* tar[q]: the tar that q runs, and the pipe it reads
    offset,         \* file offset of fd_sd, shared by all
    mounts,         \* the mounts on /mnt/upgrade, the last one on top
    unpacked,       \* unpacked[s]: who unpacked all of s, and where
    shown,          \* what the screen has said
    rebooting, halted,
    faults

vars == <<keep, proc, tar, offset, mounts, unpacked, shown, rebooting, halted, faults>>

NoOne == 0
Pcs == {"none", "prepare", "sniff", "feed", "writing", "wait", "tar", "finish",
        "ok", "failed", "exit", "killed"}

\* size_sum counts from old_size_sum; size is that of loading_fs.
Process == [pc: Pcs, tree: Trees, size_sum: 0 .. FileEnd, size: 0 .. FileEnd,
            kid: Procs \union {NoOne}]
Tar == [pipe: Seq(Chunks), got: Seq(Chunks), cwd: Places]

TypeOK ==
    /\ keep \in BOOLEAN
    /\ proc \in [Procs -> Process]
    /\ tar \in [Procs -> Tar]
    /\ \A q \in Procs : Len(tar[q].pipe) <= 1
    /\ offset \in 1 .. FileEnd + 1
    /\ mounts \in Seq({"p1", "p2"})
    /\ unpacked \in [Trees -> SUBSET (Procs \X Places)]
    /\ shown \subseteq {"ok", "failed"}
    /\ rebooting \in BOOLEAN /\ halted \in BOOLEAN
    /\ faults \in 0 .. MaxFaults

Wanted == IF keep THEN {"rootfs"} ELSE Trees

\* total_size_sum, less what old_size_sum had then.
Total == IF keep THEN Reads["rootfs"] ELSE FileEnd

Init ==
    /\ keep \in BOOLEAN
    /\ proc = [p \in Procs |->
                 [pc |-> IF p = 1 THEN "prepare" ELSE "none",
                  tree |-> IF keep THEN "rootfs" ELSE "homefs",
                  size_sum |-> 0, size |-> 0, kid |-> NoOne]]
    /\ tar = [q \in Procs |-> [pipe |-> <<>>, got |-> <<>>, cwd |-> "ram"]]
    /\ offset = 1
    /\ mounts = <<>>
    /\ unpacked = [s \in Trees |-> {}]
    /\ shown = {}
    /\ rebooting = FALSE /\ halted = FALSE
    /\ faults = 0

Pc(p) == proc[p].pc
At(p, label) == ~halted /\ Pc(p) = label
Goto(p, label) == proc' = [proc EXCEPT ![p].pc = label]
Fault == faults < MaxFaults /\ faults' = faults + 1
NoFault == UNCHANGED faults

-----------------------------------------------------------------------------
(* loading_firmware before loading_fs, and loading_fs up to its fork *)

Top == IF mounts = <<>> THEN "ram" ELSE Last(mounts)

\* mount of a file system that is already on top is refused.
Mounted(s) == IF Top = Home(s) THEN mounts ELSE Append(mounts, Home(s))

\* main's sums: "wrong rootfs size".
SizeRight(p) == proc[p].tree = "homefs" \/ Total - proc[p].size_sum = Reads["rootfs"]

\* mount, whose result nobody looks at, and lseek.
Prepare(p) ==
    /\ At(p, "prepare")
    /\ \/ mounts' = Mounted(proc[p].tree) /\ NoFault
       \/ UNCHANGED mounts /\ Fault
    /\ offset' = First(proc[p].tree)
    /\ Goto(p, IF SizeRight(p) THEN "sniff" ELSE "failed")
    /\ UNCHANGED <<keep, tar, unpacked, shown, rebooting, halted>>

\* An archive is known by its first bytes.
Archive == offset \in {First(s) : s \in Trees}

\* pipe and fork.  The child makes the pipe its stdin and starts tar, which
\* goes to the directory that is then on top.
Fork(p, q) ==
    /\ At(p, "sniff") /\ Archive
    /\ Pc(q) = "none" /\ \A r \in Procs : r < q => Pc(r) # "none"
    /\ proc' = [proc EXCEPT ![p].pc = "feed", ![p].size = 0, ![p].kid = q,
                            ![q] = [proc[p] EXCEPT !.pc = "tar"]]
    /\ tar' = [tar EXCEPT ![q].cwd = Top]
    /\ UNCHANGED <<keep, offset, mounts, unpacked, shown, rebooting, halted, faults>>

\* "unrecognized archive", "pipe error", "fork error".
NoFork(p) ==
    /\ At(p, "sniff")
    /\ (~Archive /\ NoFault) \/ Fault
    /\ Goto(p, "failed")
    /\ UNCHANGED <<keep, tar, offset, mounts, unpacked, shown, rebooting, halted>>

-----------------------------------------------------------------------------
(* The parent *)

\* The read end is the stdin of the child until the child is gone, not only
\* while its tar runs.
Gone(q) == Pc(q) \in {"exit", "killed"}

LastRead(p) == proc[p].size = Reads[proc[p].tree] - 1

\* One read and the write behind it.  A chunk is larger than the pipe, so
\* that write returns once tar has read most of it; the last one may fit.  A
\* failed read gives -1 bytes, which the end of the loop makes up for, and
\* whatever was in the buffer is sent.
Send(p, c, n) ==
    IF Gone(proc[p].kid)
      THEN Goto(p, "killed") /\ UNCHANGED tar
      ELSE /\ proc' = [proc EXCEPT
                  ![p].pc = IF LastRead(p) /\ proc[p].tree \in Small THEN "wait" ELSE "writing",
                  ![p].size = IF n = 1 \/ LastRead(p) THEN @ + 1 ELSE @,
                  ![p].size_sum = @ + n]
           /\ tar' = [tar EXCEPT ![proc[p].kid].pipe = <<c>>]

Feed(p) ==
    /\ At(p, "feed")
    /\ \/ Send(p, offset, 1) /\ offset' = offset + 1 /\ NoFault
       \/ Send(p, Junk, 0) /\ UNCHANGED offset /\ Fault
    /\ UNCHANGED <<keep, mounts, unpacked, shown, rebooting, halted>>

\* Mutant: one read too many.
WrittenOffByOne(p) ==
    /\ At(p, "writing") /\ tar[proc[p].kid].pipe = <<>>
    /\ Goto(p, IF proc[p].size > Reads[proc[p].tree] THEN "wait" ELSE "feed")
    /\ UNCHANGED <<keep, tar, offset, mounts, unpacked, shown, rebooting, halted, faults>>

\* The write returns; after the last one the write end is closed.
Written(p) ==
    /\ At(p, "writing") /\ tar[proc[p].kid].pipe = <<>>
    /\ Goto(p, IF proc[p].size = Reads[proc[p].tree] THEN "wait" ELSE "feed")
    /\ UNCHANGED <<keep, tar, offset, mounts, unpacked, shown, rebooting, halted, faults>>

\* SIGPIPE.
BrokenPipe(p) ==
    /\ At(p, "writing") /\ tar[proc[p].kid].pipe # <<>> /\ Gone(proc[p].kid)
    /\ Goto(p, "killed")
    /\ UNCHANGED <<keep, tar, offset, mounts, unpacked, shown, rebooting, halted, faults>>

\* Mutant: waitpid with WNOHANG.
WaitNoHang(p) ==
    /\ At(p, "wait")
    /\ Goto(p, "finish")
    /\ UNCHANGED <<keep, tar, offset, mounts, unpacked, shown, rebooting, halted, faults>>

\* waitpid, whose status is not asked for.
Wait(p) ==
    /\ At(p, "wait") /\ Gone(proc[p].kid)
    /\ Goto(p, "finish")
    /\ UNCHANGED <<keep, tar, offset, mounts, unpacked, shown, rebooting, halted, faults>>

-----------------------------------------------------------------------------
(* The child: system(untar) *)

Take(q) ==
    /\ At(q, "tar") /\ tar[q].pipe # <<>>
    /\ tar' = [tar EXCEPT ![q].got = @ \o tar[q].pipe, ![q].pipe = <<>>]
    /\ UNCHANGED <<keep, proc, offset, mounts, unpacked, shown, rebooting, halted, faults>>

\* Mutant: the child leaves its copy of the write end open.
EofChildWrites(q) == FALSE

\* Nobody has the write end any more.
Eof(q) ==
    /\ tar[q].pipe = <<>>
    /\ \A p \in Procs : proc[p].kid = q => Pc(p) \notin {"feed", "writing"}

\* tar is through with an archive that was whole.
TarDone(q) ==
    /\ At(q, "tar") /\ Eof(q) /\ tar[q].got = Content(proc[q].tree)
    /\ unpacked' = [unpacked EXCEPT ![proc[q].tree] = @ \union {<<q, tar[q].cwd>>}]
    /\ Goto(q, "finish")
    /\ UNCHANGED <<keep, tar, offset, mounts, shown, rebooting, halted, faults>>

\* tar meets wrong data or a short archive, or fails for a reason of its own:
\* a message, and on as if nothing had been.
Wrong(q) == ~IsPrefix(tar[q].got, Content(proc[q].tree))
TarFails(q) ==
    /\ At(q, "tar")
    /\ \/ Wrong(q) /\ NoFault
       \/ Eof(q) /\ tar[q].got # Content(proc[q].tree) /\ NoFault
       \/ Fault
    /\ Goto(q, "finish")
    /\ UNCHANGED <<keep, tar, offset, mounts, unpacked, shown, rebooting, halted>>

-----------------------------------------------------------------------------
(* The rest of loading_firmware and main *)

Busy == \E q \in Procs : Pc(q) = "tar" /\ tar[q].cwd = Top

\* Mutant: size_sum is not corrected.
FinishUncorrected(p) ==
    /\ At(p, "finish")
    /\ mounts' = IF Busy \/ mounts = <<>> THEN mounts ELSE Front(mounts)
    /\ IF proc[p].tree = "homefs"
         THEN /\ proc' = [proc EXCEPT ![p].pc = "prepare", ![p].tree = "rootfs"]
              /\ UNCHANGED shown
         ELSE Goto(p, "ok") /\ shown' = shown \union {"ok"}
    /\ UNCHANGED <<keep, tar, offset, unpacked, rebooting, halted, faults>>

\* Mutant: umount is forgotten after homefs.
FinishMounted(p) ==
    /\ At(p, "finish")
    /\ mounts' = IF proc[p].tree = "homefs" \/ Busy \/ mounts = <<>> THEN mounts ELSE Front(mounts)
    /\ IF proc[p].tree = "homefs"
         THEN /\ proc' = [proc EXCEPT ![p].pc = "prepare", ![p].tree = "rootfs",
                     ![p].size_sum = IF @ = 0 THEN Reads["homefs"] ELSE @]
              /\ UNCHANGED shown
         ELSE Goto(p, "ok") /\ shown' = shown \union {"ok"}
    /\ UNCHANGED <<keep, tar, offset, unpacked, rebooting, halted, faults>>

\* sync and umount; a child of homefs makes up for what its parent has read.
Finish(p) ==
    /\ At(p, "finish")
    /\ mounts' = IF Busy \/ mounts = <<>> THEN mounts ELSE Front(mounts)
    /\ IF proc[p].tree = "homefs"
         THEN /\ proc' = [proc EXCEPT ![p].pc = "prepare", ![p].tree = "rootfs",
                     ![p].size_sum = IF @ = 0 THEN Reads["homefs"] ELSE @]
              /\ UNCHANGED shown
         ELSE Goto(p, "ok") /\ shown' = shown \union {"ok"}
    /\ UNCHANGED <<keep, tar, offset, unpacked, rebooting, halted, faults>>

\* sleep(10) and reboot.  The machine is down before another process has
\* slept as long.
Reboot(p) ==
    /\ At(p, "ok") /\ ~rebooting
    /\ rebooting' = TRUE
    /\ Goto(p, "exit")
    /\ UNCHANGED <<keep, tar, offset, mounts, unpacked, shown, halted, faults>>

\* "Upgrade failed!"
GiveUp(p) ==
    /\ At(p, "failed")
    /\ shown' = shown \union {"failed"}
    /\ Goto(p, "exit")
    /\ UNCHANGED <<keep, tar, offset, mounts, unpacked, rebooting, halted, faults>>

Halt ==
    /\ rebooting /\ ~halted
    /\ halted' = TRUE
    /\ UNCHANGED <<keep, proc, tar, offset, mounts, unpacked, shown, rebooting, faults>>

-----------------------------------------------------------------------------
Run(p) ==
    \/ Prepare(p) \/ NoFork(p) \/ \E q \in Procs : Fork(p, q)
    \/ Feed(p) \/ Written(p) \/ BrokenPipe(p) \/ Wait(p)
    \/ Take(p) \/ TarDone(p) \/ TarFails(p)
    \/ Finish(p) \/ Reboot(p) \/ GiveUp(p)

Next == (\E p \in Procs : Run(p)) \/ Halt

Spec == Init /\ [][Next]_vars

\* Every process gets the CPU; no fault is due.
FairSpec == Spec /\ \A p \in Procs : WF_vars(NoFault /\ Run(p))

-----------------------------------------------------------------------------
(* Properties *)

\* upgrade.c:427, 665, 964: without a fault "Upgrade OK" means that every tree
\* was unpacked whole, once, on its own partition, and nothing else was said.
OkMeansUnpacked ==
    "ok" \in shown /\ faults = 0 =>
        /\ \A s \in Wanted : \E q \in Procs : unpacked[s] = {<<q, Home(s)>>}
        /\ shown = {"ok"}

\* upgrade.c:413, 631, 650: no two tars write to one partition, and none to the
\* partition of the other tree.
TarsApart ==
    \A q \in Procs : Pc(q) = "tar" =>
        /\ tar[q].cwd \in {Home(proc[q].tree), "ram"}
        /\ \A r \in Procs \ {q} : Pc(r) = "tar" => tar[r].cwd # tar[q].cwd

\* upgrade.c:641, 676, 979: when the reboot is asked for, both partitions are
\* unmounted and no tar runs.
RebootsUnmounted ==
    [][rebooting' /\ ~rebooting =>
        mounts = <<>> /\ \A q \in Procs : Pc(q) # "tar"]_vars

\* upgrade.c:962-968: the screen says in the end whether it worked.
UserIsTold == <>(shown # {})

\* upgrade.c:964: "Upgrade OK,shutdown after 10 seconds...", whatever happened
\* before, has every tree behind it.
OkMeansOk ==
    "ok" \in shown => \A s \in Wanted : \E q \in Procs : <<q, Home(s)>> \in unpacked[s]
=============================================================================
