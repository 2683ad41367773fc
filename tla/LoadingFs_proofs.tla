-------------------------- MODULE LoadingFs_proofs --------------------------
(***************************************************************************)
(* What unpacking the file systems promises, for archives of any length,   *)
(* any number of processes and any number of faults.                       *)
(***************************************************************************)
EXTENDS LoadingFs, SequenceTheorems, TLAPS

Feeding == {"feed", "writing", "wait"}
Dead == {"none", "exit", "killed"}
Alive(p) == Pc(p) \notin Dead
Kid(p) == proc[p].kid
Tree(p) == proc[p].tree

\* The processes are numbered as they are forked.  One of them runs, at the
\* most: those before it feed a child or wait for it, or are gone, and those
\* behind it are gone.
Chain ==
    /\ \A p, r \in Procs : p < r /\ Pc(r) # "none" => Pc(p) # "none"
    /\ \A p, r \in Procs : p < r /\ Alive(r) => Pc(p) \in Feeding \union {"exit", "killed"}
    /\ \A p \in Procs : Pc(p) \in Feeding =>
          /\ Kid(p) \in Procs /\ p < Kid(p) /\ Pc(Kid(p)) # "none"
          /\ \A r \in Procs : p < r /\ Alive(r) => Alive(Kid(p)) /\ Kid(p) <= r

\* The tree of a parent and of its child, which goes on to rootfs when homefs
\* is done, while the parent is still in waitpid.  A tar has a parent.
Kin ==
    /\ \A p \in Procs :
          /\ keep => Tree(p) = "rootfs"
          /\ Tree(p) = "homefs" /\ Pc(p) \in {"prepare", "sniff"} \union Feeding => p = 1
          /\ Pc(p) \in Feeding /\ Tree(p) = "homefs" =>
                IF Tree(Kid(p)) = "homefs" THEN Pc(Kid(p)) \in {"tar", "finish"}
                                           ELSE Pc(Kid(p)) # "tar"
          /\ Pc(p) \in Feeding /\ Tree(p) = "rootfs" =>
                Tree(Kid(p)) = "rootfs" /\ Pc(Kid(p)) \in {"tar", "finish", "ok", "exit"}
    /\ \A q \in Procs : Pc(q) = "tar" => \E p \in Procs : Pc(p) \in Feeding /\ Kid(p) = q

\* size_sum when loading_fs begins with tree t.
Base(t) == IF t = "homefs" THEN 0 ELSE Total - Reads["rootfs"]

\* size_sum is never ahead of what was read, and a tree is read up to its size.
Counted ==
    \A p \in Procs :
        /\ Tree(p) = "homefs" /\ Pc(p) \in {"prepare", "sniff"} => proc[p].size_sum = 0
        /\ Pc(p) = "sniff" => proc[p].size_sum = Base(Tree(p))
        /\ Pc(p) \in Feeding =>
              /\ proc[p].size_sum <= Base(Tree(p)) + proc[p].size
              /\ proc[p].size <= Reads[Tree(p)]
        /\ Pc(p) = "feed" => proc[p].size < Reads[Tree(p)]
        /\ Pc(p) = "wait" => proc[p].size = Reads[Tree(p)]

\* The write before has returned, or is about to.
CanRead(p) == Pc(p) = "feed" \/ (Pc(p) = "writing" /\ tar[Kid(p)].pipe = <<>>)
\* How much of rootfs q has been through.
Given(q) ==
    IF Pc(q) = "sniff" THEN 0 ELSE IF Pc(q) \in Feeding THEN proc[q].size ELSE Reads["rootfs"]

\* The file offset that all share.  A parent of homefs whose child went on
\* without it may read once more, from where the child is in rootfs.
InFile ==
    /\ \A p \in Procs : Tree(p) = "homefs" /\ Pc(p) \in Feeding =>
          IF Tree(Kid(p)) = "homefs" \/ Pc(Kid(p)) = "prepare"
            THEN offset <= First("homefs") + proc[p].size
            ELSE CanRead(p) => offset <= 1 + Given(Kid(p))
    /\ \A q \in Procs : Tree(q) = "rootfs" /\ Pc(q) \in {"sniff"} \union Feeding =>
          offset <= 2 + Given(q)

\* One file system is mounted at the most, that of the tree being unpacked;
\* so no tar that ends too late keeps another file system busy.
MountedAs ==
    /\ Len(mounts) <= 1
    /\ \A p \in Procs :
        /\ Pc(p) \in {"prepare", "ok"} => mounts = <<>>
        /\ Pc(p) \in {"sniff", "tar"} => mounts \in {<<>>, <<Home(Tree(p))>>}
        /\ Pc(p) = "tar" => tar[p].cwd \in {Home(Tree(p)), "ram"}

\* Tree s has been unpacked once, on its own partition.
Done(s) == \E q \in Procs : unpacked[s] = {<<q, Home(s)>>}
AllDone == \A s \in Wanted : Done(s)
\* Tree t is still to be unpacked, and all that comes before it is.
Before(t) ==
    /\ unpacked["rootfs"] = {}
    /\ IF t = "homefs" THEN unpacked["homefs"] = {} ELSE ~keep => Done("homefs")

\* What tar has and what is in its pipe is what p has read.
Flow(p) ==
    LET k == Kid(p) IN
    /\ tar[k].cwd = Home(Tree(p))
    /\ offset = First(Tree(p)) + proc[p].size
    /\ Len(tar[k].got) + Len(tar[k].pipe) = proc[p].size
    /\ \A i \in 1 .. Len(tar[k].got) : tar[k].got[i] = First(Tree(p)) + i - 1
    /\ tar[k].pipe # <<>> => /\ Pc(p) # "feed"
                             /\ tar[k].pipe = <<First(Tree(p)) + proc[p].size - 1>>

\* A parent is ahead of its child only in waiting for it; a child of homefs
\* that comes to the end has asked for the reboot.
Fed(p) ==
    /\ Pc(Kid(p)) = "tar" => Flow(p)
    /\ Pc(Kid(p)) # "tar" => Pc(p) = "wait"
    /\ Tree(p) = "homefs" =>
          /\ Pc(Kid(p)) # "exit"
          /\ Pc(Kid(p)) = "ok" => rebooting
          /\ Pc(Kid(p)) = "finish" /\ Tree(Kid(p)) = "rootfs" => rebooting

\* Where a process is when nothing has failed.
Fine(p) ==
    /\ Pc(p) \notin {"failed", "killed"}
    /\ Pc(p) \in {"prepare", "sniff", "tar"} => Before(Tree(p))
    /\ Pc(p) = "prepare" => proc[p].size_sum = Base(Tree(p))
    /\ Pc(p) = "sniff" => offset = First(Tree(p)) /\ mounts = <<Home(Tree(p))>>
    /\ Pc(p) = "none" => tar[p].got = <<>> /\ tar[p].pipe = <<>>
    /\ Pc(p) = "tar" /\ Tree(p) = "homefs" => proc[p].size_sum = 0
    /\ Pc(p) \in Feeding => Fed(p)
    /\ Pc(p) = "finish" =>
          IF Tree(p) = "homefs"
            THEN unpacked["rootfs"] = {} /\ Done("homefs") /\ proc[p].size_sum = 0
            ELSE AllDone
    /\ Pc(p) = "ok" => AllDone
    /\ Pc(p) = "exit" => AllDone /\ rebooting

\* Without a fault every process is where it should be, and only "Upgrade OK"
\* has been said.
Unbroken == faults = 0 =>
    /\ \A p \in Procs : Fine(p)
    /\ shown \subseteq {"ok"}
    /\ shown # {} => AllDone

-----------------------------------------------------------------------------
(* What the actions do to the processes *)

Only(p) == \A r \in Procs \ {p} : proc'[r] = proc[r]
SameTree(p) == proc'[p].tree = proc[p].tree
SameSizes(p) == proc'[p].size = proc[p].size /\ proc'[p].size_sum = proc[p].size_sum
From(p, a, b) == Pc(p) = a /\ proc'[p].pc = b

Counts(p) ==
    /\ SameTree(p)
    /\ \/ proc'[p].size = proc[p].size + 1 /\ proc'[p].size_sum \in {proc[p].size_sum, proc[p].size_sum + 1}
       \/ proc'[p].size = proc[p].size /\ proc'[p].size_sum = proc[p].size_sum /\ ~LastRead(p)
    /\ IF LastRead(p) /\ proc[p].tree \in Small THEN From(p, "feed", "wait") ELSE From(p, "feed", "writing")

\* A step of p that starts no process.
Moves(p) ==
    /\ Only(p)
    /\ proc'[p].kid = proc[p].kid
    /\ \/ Counts(p)
       \/ /\ SameTree(p) /\ SameSizes(p)
          /\ \/ From(p, "prepare", "sniff") /\ SizeRight(p)
             \/ From(p, "prepare", "failed")
             \/ From(p, "sniff", "failed")
             \/ From(p, "feed", "killed") /\ Gone(Kid(p))
             \/ From(p, "writing", "killed") /\ Gone(Kid(p))
             \/ From(p, "writing", "wait") /\ proc[p].size = Reads[Tree(p)]
             \/ From(p, "writing", "feed") /\ proc[p].size # Reads[Tree(p)]
             \/ From(p, "wait", "finish") /\ Gone(Kid(p))
             \/ From(p, "tar", "finish")
             \/ From(p, "finish", "ok") /\ Tree(p) = "rootfs"
             \/ From(p, "ok", "exit")
             \/ From(p, "failed", "exit")
       \/ /\ From(p, "finish", "prepare")
          /\ Tree(p) = "homefs" /\ proc'[p].tree = "rootfs" /\ proc'[p].size = proc[p].size
          /\ proc'[p].size_sum = IF proc[p].size_sum = 0 THEN Reads["homefs"] ELSE proc[p].size_sum

\* p forks q.
Forks(p, q) ==
    /\ p # q /\ Pc(q) = "none" /\ \A r \in Procs : r < q => Pc(r) # "none"
    /\ \A r \in Procs \ {p, q} : proc'[r] = proc[r]
    /\ From(p, "sniff", "feed") /\ SameTree(p)
    /\ proc'[p].size = 0 /\ proc'[p].size_sum = proc[p].size_sum /\ proc'[p].kid = q
    /\ proc'[q] = [proc[p] EXCEPT !.pc = "tar"]

\* A step of p moves p alone, is a read by tar, or starts one process.
LEMMA Effects ==
    ASSUME TypeOK, NEW p \in Procs, Run(p)
    PROVE  /\ Moves(p) \/ Take(p) \/ \E q \in Procs : Fork(p, q)
           /\ \A q \in Procs : Fork(p, q) => Forks(p, q)
<1> USE DEF Moves, Only, SameTree, SameSizes, From, Pc, At, Goto, Tree, Kid
<1>0. proc \in [Procs -> Process] /\ proc[p] \in Process
  BY DEF TypeOK
<1> USE <1>0
<1>1. ASSUME Prepare(p) PROVE Moves(p)
  <2>1. proc'[p].pc = IF SizeRight(p) THEN "sniff" ELSE "failed"
    BY <1>1 DEF Prepare, Process
  <2> QED BY <1>1, <2>1 DEF Prepare, Process
<1>2. ASSUME NoFork(p) PROVE Moves(p)
  BY <1>2 DEF NoFork, Process
<1>3. ASSUME NEW q \in Procs, Fork(p, q) PROVE Forks(p, q)
  BY <1>3 DEF Fork, Forks, Process
<1>4. ASSUME Feed(p) PROVE Moves(p)
  <2>1. PICK c \in Nat, n \in {0, 1} : Send(p, c, n)
    BY <1>4 DEF Feed, Junk, TypeOK
  <2>2. CASE Gone(Kid(p))
    BY <1>4, <2>1, <2>2 DEF Feed, Send, Process
  <2>3. CASE ~Gone(Kid(p))
    <3>1. proc' = [proc EXCEPT
                  ![p].pc = IF LastRead(p) /\ proc[p].tree \in Small THEN "wait" ELSE "writing",
                  ![p].size = IF n = 1 \/ LastRead(p) THEN @ + 1 ELSE @,
                  ![p].size_sum = @ + n]
      BY <2>1, <2>3 DEF Send
    <3>2. /\ Only(p) /\ proc'[p].kid = proc[p].kid /\ SameTree(p)
          /\ proc'[p].pc = IF LastRead(p) /\ proc[p].tree \in Small THEN "wait" ELSE "writing"
          /\ proc'[p].size = IF n = 1 \/ LastRead(p) THEN proc[p].size + 1 ELSE proc[p].size
          /\ proc'[p].size_sum = proc[p].size_sum + n
      BY <3>1 DEF Process
    <3>3. proc[p].size \in Nat /\ proc[p].size_sum \in Nat
      BY DEF Process
    <3>4. Counts(p)
      BY <1>4, <3>2, <3>3 DEF Counts, Feed
    <3> QED BY <3>2, <3>4
  <2> QED BY <2>2, <2>3
<1>5. ASSUME Written(p) PROVE Moves(p)
  <2>1. proc'[p].pc = IF proc[p].size = Reads[proc[p].tree] THEN "wait" ELSE "feed"
    BY <1>5 DEF Written, Process
  <2> QED BY <1>5, <2>1 DEF Written, Process
<1>6. ASSUME BrokenPipe(p) PROVE Moves(p)
  BY <1>6 DEF BrokenPipe, Process
<1>7. ASSUME Wait(p) PROVE Moves(p)
  BY <1>7 DEF Wait, Process
<1>9. ASSUME TarDone(p) PROVE Moves(p)
  BY <1>9 DEF TarDone, Process
<1>10. ASSUME TarFails(p) PROVE Moves(p)
  BY <1>10 DEF TarFails, Process
<1>11. ASSUME Finish(p) PROVE Moves(p)
  <2>1. CASE proc[p].tree = "homefs"
    BY <1>11, <2>1 DEF Finish, Process
  <2>2. CASE proc[p].tree # "homefs"
    BY <1>11, <2>2 DEF Finish, Process, Trees
  <2> QED BY <2>1, <2>2
<1>12. ASSUME Reboot(p) PROVE Moves(p)
  BY <1>12 DEF Reboot, Process
<1>13. ASSUME GiveUp(p) PROVE Moves(p)
  BY <1>13 DEF GiveUp, Process
<1> QED
  BY <1>1, <1>2, <1>3, <1>4, <1>5, <1>6, <1>7, <1>9, <1>10, <1>11, <1>12, <1>13 DEF Run

-----------------------------------------------------------------------------
(* One process runs: those before it wait for it, those behind it are gone *)

Running == {"prepare", "sniff", "tar", "finish", "ok", "failed"}

\* A process that moves goes on, feeds on, or ends feeding when its child is
\* gone.
LEMMA Transitions ==
    ASSUME NEW p \in Procs, Moves(p)
    PROVE  \/ Pc(p) \in Running /\ proc'[p].pc \in Running \union {"exit"}
           \/ Pc(p) \in Feeding /\ proc'[p].pc \in Feeding
           \/ Pc(p) \in Feeding /\ proc'[p].pc \in {"killed", "finish"} /\ Gone(Kid(p))
BY DEF Moves, Counts, From, Pc, Running, Feeding

\* Chain, when a process moves: only the last one alive does.
LEMMA ChainMoves ==
    ASSUME TypeOK, Chain, NEW p \in Procs, Moves(p)
    PROVE  Chain'
<1> DEFINE old == Pc(p)  new == proc'[p].pc
<1>1. /\ \A r \in Procs : r # p => Pc(r)' = Pc(r) /\ Kid(r)' = Kid(r)
      /\ Kid(p)' = Kid(p) /\ Pc(p) = old /\ Pc(p)' = new
  BY DEF Moves, Only, Pc, Kid
<1>2. \/ old \in Running /\ new \in Running \union {"exit"}
      \/ old \in Feeding /\ new \in Feeding
      \/ old \in Feeding /\ new \in {"killed", "finish"} /\ Pc(Kid(p)) \in {"exit", "killed"}
  BY Transitions DEF Gone
<1>3. Procs \subseteq Nat
  BY LoadingAssumption DEF Procs
<1> HIDE DEF old, new
<1>4. \A r \in Procs : Pc(r)' = "none" <=> Pc(r) = "none"
  BY <1>1, <1>2 DEF Running, Feeding
<1>5. \A r \in Procs : Alive(r)' => Alive(r)
  BY <1>1, <1>2 DEF Running, Feeding, Alive, Dead
<1>6. \A r \in Procs : p < r => \/ ~Alive(r)
                                \/ Pc(p) \in Feeding /\ ~Gone(Kid(p))
  BY <1>1, <1>2 DEF Chain, Alive, Dead, Gone, Running, Feeding
<1>7. \A r, s \in Procs : r < s /\ Alive(s)' => Pc(r)' \in Feeding \union {"exit", "killed"}
  <2> SUFFICES ASSUME NEW r \in Procs, NEW s \in Procs, r < s, Alive(s)'
               PROVE  Pc(r)' \in Feeding \union {"exit", "killed"}
    OBVIOUS
  <2>1. Pc(r) \in Feeding \union {"exit", "killed"}
    BY <1>5 DEF Chain
  <2>2. CASE r # p
    BY <1>1, <2>1, <2>2
  <2>3. CASE r = p
    BY <1>1, <1>2, <1>5, <1>6, <2>1, <2>3 DEF Running, Feeding, Gone
  <2> QED BY <2>2, <2>3
<1>8. ASSUME NEW r \in Procs, Pc(r)' \in Feeding
      PROVE  /\ Kid(r)' \in Procs /\ r < Kid(r)' /\ Pc(Kid(r))' # "none"
             /\ \A s \in Procs : r < s /\ Alive(s)' => Alive(Kid(r))' /\ Kid(r)' <= s
  <2>1. Pc(r) \in Feeding /\ Kid(r)' = Kid(r)
    BY <1>1, <1>2, <1>8 DEF Running, Feeding
  <2>2. /\ Kid(r) \in Procs /\ r < Kid(r) /\ Pc(Kid(r)) # "none"
        /\ \A s \in Procs : r < s /\ Alive(s) => Alive(Kid(r)) /\ Kid(r) <= s
    BY <2>1 DEF Chain
  <2>3. Pc(Kid(r))' = proc'[Kid(r)].pc
    BY <2>1 DEF Pc, Kid
  <2>4. Pc(Kid(r))' # "none"
    BY <1>1, <1>2, <2>1, <2>2, <2>3 DEF Running, Feeding, Pc
  <2>5. ASSUME NEW s \in Procs, r < s, Alive(s)' PROVE Alive(Kid(r))' /\ Kid(r)' <= s
    <3>1. Alive(s) /\ Alive(Kid(r)) /\ Kid(r) <= s
      BY <1>5, <2>2, <2>5
    <3>2. CASE Kid(r) # p
      BY <1>1, <2>1, <2>2, <2>3, <3>1, <3>2 DEF Alive, Pc
    <3>3. CASE Kid(r) = p /\ s = p
      BY <2>1, <2>3, <2>5, <3>1, <3>3 DEF Alive, Pc
    <3>4. CASE Kid(r) = p /\ s # p
      <4>1. p < s
        BY <1>3, <3>1, <3>4
      <4>2. Pc(p) \in Feeding /\ ~Gone(Kid(p))
        BY <1>6, <3>1, <4>1
      <4>3. Pc(p)' \in Feeding
        BY <1>1, <1>2, <4>2 DEF Running, Feeding, Gone
      <4> QED BY <2>1, <2>3, <3>1, <3>4, <4>3 DEF Alive, Dead, Feeding, Pc
    <3> QED BY <3>2, <3>3, <3>4
  <2> QED BY <2>1, <2>2, <2>4, <2>5
<1>9. \A r, s \in Procs : r < s /\ Pc(s)' # "none" => Pc(r)' # "none"
  BY <1>4 DEF Chain
<1> QED BY <1>7, <1>8, <1>9 DEF Chain

\* Chain, when one is started: it is the next of the chain.
LEMMA ChainForks ==
    ASSUME TypeOK, Chain, NEW p \in Procs, NEW q \in Procs, Forks(p, q)
    PROVE  Chain'
<1>0. Procs \subseteq Nat
  BY LoadingAssumption DEF Procs
<1>1. /\ \A r \in Procs : r # p /\ r # q => Pc(r)' = Pc(r) /\ Kid(r)' = Kid(r)
      /\ Pc(p) = "sniff" /\ Pc(p)' = "feed" /\ Kid(p)' = q
      /\ Pc(q) = "none" /\ Pc(q)' = "tar"
      /\ p # q /\ \A r \in Procs : r < q => Pc(r) # "none"
  <2>1. proc'[q].pc = "tar"
    BY DEF Forks, TypeOK, Process
  <2> QED BY <2>1 DEF Forks, From, Pc, Kid
<1>2. p < q
  BY <1>0, <1>1 DEF Chain
<1>3. \A r \in Procs : q < r => Pc(r) = "none"
  BY <1>0, <1>1 DEF Chain
<1>4. \A r \in Procs : r # p /\ Alive(r) => r < p
  BY <1>0, <1>1 DEF Chain, Feeding
<1>5. Alive(p) /\ Alive(p)' /\ Alive(q)'
  BY <1>1 DEF Alive, Dead
<1>6. \A r, s \in Procs : r < s /\ Pc(s)' # "none" => Pc(r)' # "none"
  BY <1>0, <1>1, <1>2, <1>3 DEF Chain
<1>7. \A r \in Procs : Alive(r)' => r < p \/ r = p \/ r = q
  BY <1>1, <1>4 DEF Alive
<1>8. \A r, s \in Procs : r < s /\ Alive(s)' => Pc(r)' \in Feeding \union {"exit", "killed"}
  <2> SUFFICES ASSUME NEW r \in Procs, NEW s \in Procs, r < s, Alive(s)'
               PROVE  Pc(r)' \in Feeding \union {"exit", "killed"}
    OBVIOUS
  <2>1. CASE r < p
    <3>1. Pc(r) \in Feeding \union {"exit", "killed"}
      BY <1>5, <2>1 DEF Chain
    <3> QED BY <1>0, <1>1, <1>2, <2>1, <3>1
  <2>2. CASE r = p
    BY <1>1, <2>2 DEF Feeding
  <2>3. CASE p < r /\ r # q
    <3>1. s = q
      BY <1>0, <1>7, <2>3
    <3>2. Pc(r) # "none" /\ ~Alive(r)
      BY <1>0, <1>1, <1>4, <2>3, <3>1
    <3>3. Pc(r) \in {"exit", "killed"}
      BY <3>2 DEF Alive, Dead
    <3> QED BY <1>1, <2>3, <3>3
  <2>4. r # q
    BY <1>0, <1>2, <1>7
  <2> QED BY <1>0, <2>1, <2>2, <2>3, <2>4
<1>9. ASSUME NEW r \in Procs, Pc(r)' \in Feeding
      PROVE  /\ Kid(r)' \in Procs /\ r < Kid(r)' /\ Pc(Kid(r))' # "none"
             /\ \A s \in Procs : r < s /\ Alive(s)' => Alive(Kid(r))' /\ Kid(r)' <= s
  <2>1. r # q
    BY <1>1, <1>9 DEF Feeding
  <2>2. CASE r = p
    <3>1. Pc(Kid(r))' = Pc(q)' /\ Kid(r)' = q
      BY <1>1, <2>2 DEF Pc, Kid
    <3>2. Alive(Kid(r))'
      BY <1>5, <3>1 DEF Alive, Pc
    <3> QED BY <1>0, <1>1, <1>2, <1>7, <2>2, <3>1, <3>2
  <2>3. CASE r # p
    <3>1. Pc(r) \in Feeding /\ Kid(r)' = Kid(r)
      BY <1>1, <1>9, <2>1, <2>3
    <3>2. /\ Kid(r) \in Procs /\ r < Kid(r) /\ Pc(Kid(r)) # "none"
          /\ \A s \in Procs : r < s /\ Alive(s) => Alive(Kid(r)) /\ Kid(r) <= s
      BY <3>1 DEF Chain
    <3>3. r < p
      BY <1>4, <2>3, <3>1 DEF Alive, Dead, Feeding
    <3>4. Alive(Kid(r)) /\ Kid(r) <= p
      BY <1>5, <3>2, <3>3
    <3>5. Kid(r) # q
      BY <1>1, <3>2
    <3>6. Pc(Kid(r))' = proc'[Kid(r)].pc
      BY <3>1 DEF Pc, Kid
    <3>7. Alive(Kid(r))'
      BY <1>1, <1>5, <3>2, <3>4, <3>5, <3>6 DEF Alive, Pc
    <3>8. Pc(Kid(r))' # "none"
      BY <3>7 DEF Alive, Dead
    <3>9. \A s \in Procs : r < s /\ Alive(s)' => Kid(r) <= s
      <4> SUFFICES ASSUME NEW s \in Procs, r < s, Alive(s)' PROVE Kid(r) <= s
        OBVIOUS
      <4>1. CASE s = q
        <5>1. Kid(r) \in Nat /\ p \in Nat /\ s \in Nat /\ p < s
          BY <1>0, <1>2, <3>2, <4>1
        <5>2. Kid(r) <= p
          BY <3>4
        <5> QED BY <5>1, <5>2
      <4>2. CASE s # q
        <5>1. Alive(s)
          BY <1>1, <1>5, <4>2 DEF Alive
        <5> QED BY <3>2, <5>1
      <4> QED BY <4>1, <4>2
    <3> QED BY <3>1, <3>2, <3>7, <3>8, <3>9
  <2> QED BY <2>2, <2>3
<1> QED BY <1>6, <1>8, <1>9 DEF Chain

\* Kin, when a process moves.
LEMMA KinMoves ==
    ASSUME TypeOK, Chain, Kin, NEW p \in Procs, Moves(p), keep' = keep
    PROVE  Kin'
<1>1. /\ \A r \in Procs : r # p => Pc(r)' = Pc(r) /\ Kid(r)' = Kid(r) /\ Tree(r)' = Tree(r)
      /\ Kid(p)' = Kid(p)
  BY DEF Moves, Only, Pc, Kid, Tree
<1>2. \/ Tree(p)' = Tree(p)
      \/ Pc(p) = "finish" /\ Pc(p)' = "prepare" /\ Tree(p) = "homefs" /\ Tree(p)' = "rootfs"
  BY DEF Moves, SameTree, Counts, From, Pc, Tree
<1>3. \/ Pc(p) \in {"prepare", "sniff"} \union Feeding /\ Pc(p)' \in {"sniff", "failed"} \union Feeding
      \/ Pc(p) \in Feeding /\ Pc(p)' \in {"killed", "finish"} /\ Gone(Kid(p))
      \/ Pc(p) = "tar" /\ Pc(p)' = "finish" /\ Tree(p)' = Tree(p)
      \/ Pc(p) = "finish" /\ Pc(p)' = "prepare" /\ Tree(p) = "homefs" /\ Tree(p)' = "rootfs"
      \/ Pc(p) = "finish" /\ Pc(p)' = "ok" /\ Tree(p) = "rootfs" /\ Tree(p)' = "rootfs"
      \/ Pc(p) \in {"ok", "failed"} /\ Pc(p)' = "exit"
  BY DEF Moves, SameTree, Counts, From, Feeding, Pc, Tree
<1>4. Pc(p)' \in Feeding => Pc(p) \in {"prepare", "sniff"} \union Feeding
  BY <1>3 DEF Feeding
<1>5. Pc(p)' \in Feeding => Pc(p) \in Feeding
  BY Transitions DEF Running, Feeding, Pc
<1>6. Procs \subseteq Nat
  BY LoadingAssumption DEF Procs
<1>7. ASSUME NEW r \in Procs
      PROVE  /\ keep' => Tree(r)' = "rootfs"
             /\ Tree(r)' = "homefs" /\ Pc(r)' \in {"prepare", "sniff"} \union Feeding => r = 1
  BY <1>1, <1>2, <1>3 DEF Kin, Feeding
<1>8. ASSUME NEW r \in Procs, Pc(r)' \in Feeding
      PROVE  /\ Tree(r)' = "homefs" =>
                  IF Tree(Kid(r))' = "homefs" THEN Pc(Kid(r))' \in {"tar", "finish"}
                                              ELSE Pc(Kid(r))' # "tar"
             /\ Tree(r)' = "rootfs" =>
                  Tree(Kid(r))' = "rootfs" /\ Pc(Kid(r))' \in {"tar", "finish", "ok", "exit"}
  <2>1. Pc(r) \in Feeding /\ Kid(r)' = Kid(r)
    BY <1>1, <1>5, <1>8
  <2>2. Tree(r)' = Tree(r)
    BY <1>1, <1>2, <2>1 DEF Feeding
  <2>3. Kid(r) \in Procs /\ r < Kid(r)
    BY <2>1 DEF Chain
  <2>4. PICK k \in Procs : k = Kid(r)
    BY <2>3
  <2>5. Tree(Kid(r))' = Tree(k)' /\ Pc(Kid(r))' = Pc(k)'
    BY <2>1, <2>4 DEF Pc, Kid, Tree
  <2>6. /\ Tree(r) = "homefs" => IF Tree(k) = "homefs" THEN Pc(k) \in {"tar", "finish"}
                                                       ELSE Pc(k) # "tar"
        /\ Tree(r) = "rootfs" => Tree(k) = "rootfs" /\ Pc(k) \in {"tar", "finish", "ok", "exit"}
    BY <2>1, <2>4 DEF Kin
  <2>7. CASE k # p
    BY <1>1, <2>2, <2>5, <2>6, <2>7
  <2>8. CASE k = p
    BY <1>2, <1>3, <2>2, <2>5, <2>6, <2>8 DEF Feeding
  <2> QED BY <2>7, <2>8
<1>9. ASSUME NEW q \in Procs, Pc(q)' = "tar"
      PROVE  \E r \in Procs : Pc(r)' \in Feeding /\ Kid(r)' = q
  <2>1. Pc(q) = "tar"
    BY <1>1, <1>3, <1>9 DEF Feeding
  <2>2. PICK r \in Procs : Pc(r) \in Feeding /\ Kid(r) = q
    BY <2>1 DEF Kin
  <2>3. ~Gone(Kid(r))
    BY <2>1, <2>2 DEF Gone
  <2>4. CASE r # p
    BY <1>1, <2>2, <2>4
  <2>5. CASE r = p
    <3>1. Pc(p)' \in Feeding
      BY <2>2, <2>3, <2>5, Transitions DEF Running, Feeding, Pc
    <3> QED BY <1>1, <2>2, <2>5, <3>1
  <2> QED BY <2>4, <2>5
<1> QED BY <1>7, <1>8, <1>9 DEF Kin

\* Kin, when one is started: it begins with the tree of its parent.
LEMMA KinForks ==
    ASSUME TypeOK, Chain, Kin, NEW p \in Procs, NEW q \in Procs, Forks(p, q), keep' = keep
    PROVE  Kin'
<1>1. /\ \A r \in Procs : r # p /\ r # q => Pc(r)' = Pc(r) /\ Kid(r)' = Kid(r) /\ Tree(r)' = Tree(r)
      /\ Pc(p) = "sniff" /\ Pc(p)' = "feed" /\ Kid(p)' = q /\ Tree(p)' = Tree(p)
      /\ Pc(q) = "none" /\ Pc(q)' = "tar" /\ Tree(q)' = Tree(p)
      /\ p # q
  <2>1. proc'[q].pc = "tar" /\ proc'[q].tree = proc[p].tree
    BY DEF Forks, TypeOK, Process
  <2> QED BY <2>1 DEF Forks, From, SameTree, Pc, Kid, Tree
<1>2. ASSUME NEW r \in Procs
      PROVE  /\ keep' => Tree(r)' = "rootfs"
             /\ Tree(r)' = "homefs" /\ Pc(r)' \in {"prepare", "sniff"} \union Feeding => r = 1
  BY <1>1 DEF Kin, Feeding
<1>3. ASSUME NEW r \in Procs, Pc(r)' \in Feeding
      PROVE  /\ Tree(r)' = "homefs" =>
                  IF Tree(Kid(r))' = "homefs" THEN Pc(Kid(r))' \in {"tar", "finish"}
                                              ELSE Pc(Kid(r))' # "tar"
             /\ Tree(r)' = "rootfs" =>
                  Tree(Kid(r))' = "rootfs" /\ Pc(Kid(r))' \in {"tar", "finish", "ok", "exit"}
  <2>1. CASE r = p
    <3>1. Tree(Kid(r))' = Tree(q)' /\ Pc(Kid(r))' = Pc(q)'
      BY <1>1, <2>1 DEF Pc, Kid, Tree
    <3> QED BY <1>1, <2>1, <3>1
  <2>2. CASE r # p
    <3>1. r # q
      BY <1>1, <1>3 DEF Feeding
    <3>2. Pc(r) \in Feeding /\ Kid(r)' = Kid(r) /\ Tree(r)' = Tree(r)
      BY <1>1, <1>3, <2>2, <3>1
    <3>3. PICK k \in Procs : k = Kid(r) /\ Pc(k) # "none"
      BY <3>2 DEF Chain
    <3>4. Tree(Kid(r))' = Tree(k)' /\ Pc(Kid(r))' = Pc(k)'
      BY <3>2, <3>3 DEF Pc, Kid, Tree
    <3>5. /\ Tree(r) = "homefs" => IF Tree(k) = "homefs" THEN Pc(k) \in {"tar", "finish"}
                                                         ELSE Pc(k) # "tar"
          /\ Tree(r) = "rootfs" => Tree(k) = "rootfs" /\ Pc(k) \in {"tar", "finish", "ok", "exit"}
      BY <3>2, <3>3 DEF Kin
    <3>6. k # q
      BY <1>1, <3>3
    <3> QED BY <1>1, <3>2, <3>4, <3>5, <3>6
  <2> QED BY <2>1, <2>2
<1>4. ASSUME NEW s \in Procs, Pc(s)' = "tar"
      PROVE  \E r \in Procs : Pc(r)' \in Feeding /\ Kid(r)' = s
  <2>1. CASE s = q
    BY <1>1, <2>1 DEF Feeding
  <2>2. CASE s # q
    <3>1. Pc(s) = "tar"
      BY <1>1, <1>4, <2>2
    <3>2. PICK r \in Procs : Pc(r) \in Feeding /\ Kid(r) = s
      BY <3>1 DEF Kin
    <3>3. r # p /\ r # q
      BY <1>1, <3>2 DEF Feeding
    <3> QED BY <1>1, <3>2, <3>3
  <2> QED BY <2>1, <2>2
<1> QED BY <1>2, <1>3, <1>4 DEF Kin

-----------------------------------------------------------------------------
(* Sizes *)

\* The sums that the two trees start from.
LEMMA Bases ==
    ASSUME TypeOK
    PROVE  /\ Reads["rootfs"] \in Nat /\ Reads["rootfs"] > 0
           /\ Reads["homefs"] \in Nat /\ Reads["homefs"] > 0
           /\ Base("homefs") = 0 /\ Base("rootfs") \in {0, Reads["homefs"]}
           /\ Total = Base("rootfs") + Reads["rootfs"]
           /\ First("rootfs") = 1 /\ First("homefs") = 1 + Reads["rootfs"]
           /\ FileEnd = Reads["rootfs"] + Reads["homefs"]
<1>1. /\ Reads["rootfs"] \in Nat /\ Reads["rootfs"] > 0
      /\ Reads["homefs"] \in Nat /\ Reads["homefs"] > 0
  BY LoadingAssumption DEF Trees
<1>2. Total \in {Reads["rootfs"], FileEnd}
  BY DEF Total
<1> QED BY <1>1, <1>2 DEF Base, FileEnd, First

\* Counted, when a process moves: loading_fs adds up what it sends.
LEMMA CountedMoves ==
    ASSUME TypeOK, Counted, NEW p \in Procs, Moves(p), keep' = keep
    PROVE  Counted'
<1>1. Base("homefs")' = Base("homefs") /\ Base("rootfs")' = Base("rootfs")
  BY DEF Base, Total
<1>2. \A t \in Trees : Base(t) \in Nat /\ Base(t)' = Base(t) /\ Reads[t] \in Nat
  BY <1>1, Bases DEF Trees
<1>3. proc[p].tree \in Trees /\ proc[p].size \in Nat /\ proc[p].size_sum \in Nat
  BY DEF TypeOK, Process
<1>4. ASSUME NEW r \in Procs \ {p}
      PROVE  proc'[r] = proc[r]
  BY DEF Moves, Only
<1>5. /\ proc'[p].tree = "homefs" /\ proc'[p].pc \in {"prepare", "sniff"} => proc'[p].size_sum = 0
      /\ proc'[p].pc = "sniff" => proc'[p].size_sum = Base(proc'[p].tree)
      /\ proc'[p].pc \in Feeding =>
            /\ proc'[p].size_sum <= Base(proc'[p].tree) + proc'[p].size
            /\ proc'[p].size <= Reads[proc'[p].tree]
      /\ proc'[p].pc = "feed" => proc'[p].size < Reads[proc'[p].tree]
      /\ proc'[p].pc = "wait" => proc'[p].size = Reads[proc'[p].tree]
  <2>1. CASE Counts(p)
    <3>1. Pc(p) = "feed" /\ proc'[p].tree = proc[p].tree /\ proc'[p].pc \in {"writing", "wait"}
      BY <2>1 DEF Counts, SameTree, From
    <3>2. /\ proc[p].size_sum <= Base(proc[p].tree) + proc[p].size
          /\ proc[p].size < Reads[proc[p].tree]
      BY <3>1 DEF Counted, Feeding, Tree
    <3>3. /\ proc'[p].size \in {proc[p].size, proc[p].size + 1}
          /\ proc'[p].size_sum <= Base(proc[p].tree) + proc'[p].size
      BY <1>2, <1>3, <2>1, <3>2 DEF Counts
    <3>4. proc'[p].pc = "wait" => proc'[p].size = Reads[proc[p].tree]
      BY <1>2, <1>3, <2>1 DEF Counts, LastRead, From
    <3> QED BY <1>2, <1>3, <3>1, <3>2, <3>3, <3>4 DEF Feeding
  <2>2. CASE /\ SameTree(p) /\ SameSizes(p)
             /\ \/ From(p, "prepare", "failed")
                \/ From(p, "sniff", "failed")
                \/ From(p, "feed", "killed")
                \/ From(p, "writing", "killed")
                \/ From(p, "wait", "finish")
                \/ From(p, "tar", "finish")
                \/ From(p, "finish", "ok")
                \/ From(p, "ok", "exit")
                \/ From(p, "failed", "exit")
    BY <2>2 DEF From, Feeding
  <2>3. CASE SameTree(p) /\ SameSizes(p) /\ From(p, "prepare", "sniff") /\ SizeRight(p)
    <3>1. proc'[p].size_sum = proc[p].size_sum /\ proc'[p].tree = proc[p].tree /\ proc'[p].pc = "sniff"
      BY <2>3 DEF SameTree, SameSizes, From
    <3>2. CASE proc[p].tree = "homefs"
      BY <2>3, <3>1, <3>2, Bases DEF From, Counted, Feeding, Tree
    <3>3. CASE proc[p].tree = "rootfs"
      BY <1>3, <2>3, <3>1, <3>3, Bases DEF SizeRight, Feeding
    <3> QED BY <1>3, <3>2, <3>3 DEF Trees
  <2>4. CASE /\ SameTree(p) /\ SameSizes(p)
             /\ \/ From(p, "writing", "wait") /\ proc[p].size = Reads[Tree(p)]
                \/ From(p, "writing", "feed") /\ proc[p].size # Reads[Tree(p)]
    <3>1. /\ proc[p].size_sum <= Base(proc[p].tree) + proc[p].size
          /\ proc[p].size <= Reads[proc[p].tree]
      BY <2>4 DEF Counted, From, Feeding, Tree
    <3> QED BY <1>2, <1>3, <2>4, <3>1 DEF SameTree, SameSizes, From, Feeding, Tree
  <2>5. CASE From(p, "finish", "prepare") /\ proc'[p].tree = "rootfs"
    BY <2>5 DEF From, Feeding
  <2> QED BY <2>1, <2>2, <2>3, <2>4, <2>5 DEF Moves
<1>6. proc'[p].tree \in Trees
  BY <1>3 DEF Moves, Counts, SameTree, Trees
<1>7. ASSUME NEW r \in Procs
      PROVE  /\ Tree(r)' = "homefs" /\ Pc(r)' \in {"prepare", "sniff"} => proc'[r].size_sum = 0
             /\ Pc(r)' = "sniff" => proc'[r].size_sum = Base(Tree(r))'
             /\ Pc(r)' \in Feeding =>
                   /\ proc'[r].size_sum <= Base(Tree(r))' + proc'[r].size
                   /\ proc'[r].size <= Reads[Tree(r)']
             /\ Pc(r)' = "feed" => proc'[r].size < Reads[Tree(r)']
             /\ Pc(r)' = "wait" => proc'[r].size = Reads[Tree(r)']
  <2>1. CASE r = p
    <3>1. PICK t \in Trees : t = proc'[p].tree
      BY <1>6
    <3>2. Base(Tree(r))' = Base(t)
      BY <2>1, <3>1 DEF Base, Total, Tree
    <3> QED BY <1>5, <2>1, <3>1, <3>2 DEF Pc, Tree
  <2>2. CASE r # p
    <3>1. proc'[r] = proc[r] /\ Tree(r)' = Tree(r)
      BY <1>4, <2>2 DEF Tree
    <3>2. Base(Tree(r))' = Base(Tree(r))
      BY <3>1 DEF Base, Total
    <3> QED BY <3>1, <3>2 DEF Counted, Pc, Tree
  <2> QED BY <2>1, <2>2
<1> QED BY <1>7 DEF Counted

\* Counted, when one is started.
LEMMA CountedForks ==
    ASSUME TypeOK, Counted, NEW p \in Procs, NEW q \in Procs, Forks(p, q), keep' = keep
    PROVE  Counted'
<1>1. Base("homefs")' = Base("homefs") /\ Base("rootfs")' = Base("rootfs")
  BY DEF Base, Total
<1>2. \A t \in Trees : Base(t) \in Nat /\ Base(t)' = Base(t) /\ Reads[t] \in Nat /\ Reads[t] > 0
  BY <1>1, Bases DEF Trees
<1>3. \A r \in Procs : proc[r].tree \in Trees
  BY DEF TypeOK, Process
<1>4. proc'[q].pc = "tar" /\ proc'[q].tree = proc[p].tree
  BY DEF Forks, TypeOK, Process
<1>5. /\ proc'[p].pc = "feed" /\ proc'[p].tree = proc[p].tree /\ proc'[p].size = 0
      /\ proc'[p].size_sum = Base(proc[p].tree)
  BY DEF Forks, From, SameTree, Counted, Tree
<1>6. ASSUME NEW r \in Procs
      PROVE  /\ Tree(r)' = "homefs" /\ Pc(r)' \in {"prepare", "sniff"} => proc'[r].size_sum = 0
             /\ Pc(r)' = "sniff" => proc'[r].size_sum = Base(Tree(r))'
             /\ Pc(r)' \in Feeding =>
                   /\ proc'[r].size_sum <= Base(Tree(r))' + proc'[r].size
                   /\ proc'[r].size <= Reads[Tree(r)']
             /\ Pc(r)' = "feed" => proc'[r].size < Reads[Tree(r)']
             /\ Pc(r)' = "wait" => proc'[r].size = Reads[Tree(r)']
  <2>1. CASE r = p
    <3>1. Pc(r)' = "feed" /\ Tree(r)' = proc[p].tree /\ Base(Tree(r))' = Base(proc[p].tree)
      BY <1>2, <1>3, <1>5, <2>1 DEF Pc, Tree
    <3> QED BY <1>2, <1>3, <1>5, <2>1, <3>1 DEF Feeding
  <2>2. CASE r = q
    <3>1. Pc(r)' = "tar"
      BY <1>4, <2>2 DEF Pc
    <3> QED BY <3>1 DEF Feeding
  <2>3. CASE r # p /\ r # q
    <3>1. proc'[r] = proc[r]
      BY <2>3 DEF Forks
    <3>2. Base(Tree(r))' = Base(Tree(r))
      BY <1>2, <1>3, <3>1 DEF Tree
    <3> QED BY <3>1, <3>2 DEF Counted, Pc, Tree
  <2> QED BY <2>1, <2>2, <2>3
<1> QED BY <1>6 DEF Counted

-----------------------------------------------------------------------------
(* Types *)

\* umount leaves a sequence of mounts, one shorter.
LEMMA FrontIsSeq ==
    ASSUME NEW S, NEW s \in Seq(S), s # <<>>
    PROVE  /\ Front(s) \in Seq(S) /\ Len(Front(s)) = Len(s) - 1
           /\ Last(s) \in S
<1> DEFINE n == Len(s) - 1
<1>1. Len(s) \in Nat \ {0}
  BY EmptySeq
<1>2. n \in Nat /\ Len(s) = n + 1 /\ \A i \in 1 .. n + 1 : s[i] \in S
  BY <1>1
<1> HIDE DEF n
<1>3. /\ SubSeq(s, 1, n) \in Seq(S)
      /\ Len(SubSeq(s, 1, n)) = IF 1 <= n THEN n - 1 + 1 ELSE 0
  <2>1. 1 \in Int /\ n \in Int /\ \A i \in 1 .. n : s[i] \in S
    BY <1>2
  <2> QED BY <2>1, SubSeqProperties
<1>4. Front(s) = SubSeq(s, 1, n)
  BY DEF Front, n
<1> QED BY <1>2, <1>3, <1>4 DEF Last

\* Goto changes the label of a process and nothing else of it.
LEMMA GotoTypes ==
    ASSUME TypeOK, NEW p \in Procs, NEW label \in Pcs, Goto(p, label)
    PROVE  proc' \in [Procs -> Process]
BY DEF TypeOK, Goto, Process

\* A read is inside the file.
LEMMA ReadsInside ==
    ASSUME TypeOK, Chain, Kin, Counted, InFile, NEW p \in Procs, Pc(p) = "feed"
    PROVE  /\ offset <= FileEnd
           /\ proc[p].size + 1 <= FileEnd /\ proc[p].size_sum + 1 <= FileEnd
<1>1. /\ proc[p].tree \in Trees /\ proc[p].size \in Nat /\ proc[p].size_sum \in Nat /\ offset \in Nat
      /\ Pc(p) \in Feeding
  BY DEF TypeOK, Process, Feeding
<1>2. proc[p].size < Reads[proc[p].tree] /\ proc[p].size_sum <= Base(proc[p].tree) + proc[p].size
  BY <1>1 DEF Counted, Tree
<1>3. proc[p].size + 1 <= FileEnd /\ proc[p].size_sum + 1 <= FileEnd
  BY <1>1, <1>2, Bases DEF Trees
<1>4. CASE proc[p].tree = "rootfs"
  <2>1. offset <= 2 + proc[p].size
    BY <1>1, <1>4 DEF InFile, Given, Tree
  <2> QED BY <1>1, <1>2, <1>3, <1>4, <2>1, Bases
<1>5. CASE proc[p].tree = "homefs"
  <2>1. PICK k \in Procs : k = Kid(p)
    BY <1>1 DEF Chain
  <2>2. CASE Tree(k) = "homefs" \/ Pc(k) = "prepare"
    <3>1. offset <= First("homefs") + proc[p].size
      BY <1>1, <1>5, <2>1, <2>2 DEF InFile, Tree
    <3> QED BY <1>1, <1>2, <1>3, <1>5, <3>1, Bases
  <2>3. CASE ~(Tree(k) = "homefs" \/ Pc(k) = "prepare")
    <3>1. offset <= 1 + Given(k)
      BY <1>1, <1>5, <2>1, <2>3 DEF InFile, Tree, CanRead
    <3>2. Tree(k) = "rootfs" /\ proc[k].size \in Nat
      BY <2>3 DEF Tree, TypeOK, Process, Trees
    <3>3. Pc(k) \in Feeding => proc[k].size <= Reads["rootfs"]
      BY <3>2 DEF Counted
    <3>4. Given(k) \in Nat /\ Given(k) <= Reads["rootfs"]
      BY <3>2, <3>3, Bases DEF Given
    <3> QED BY <1>1, <1>3, <3>1, <3>4, Bases
  <2> QED BY <2>2, <2>3
<1> QED BY <1>1, <1>3, <1>4, <1>5 DEF Trees

\* Every step of a process keeps the types.
LEMMA TypeStep ==
    ASSUME TypeOK, Chain, Kin, Counted, InFile, NEW p \in Procs, Run(p)
    PROVE  TypeOK'
<1>0. /\ keep' = keep /\ halted' = halted /\ keep \in BOOLEAN /\ halted \in BOOLEAN
      /\ proc \in [Procs -> Process] /\ proc[p] \in Process /\ tar \in [Procs -> Tar]
      /\ \A q \in Procs : tar[q].pipe \in Seq(Chunks) /\ tar[q].got \in Seq(Chunks) /\ tar[q].cwd \in Places
  BY DEF Run, Prepare, NoFork, Fork, Feed, Written, BrokenPipe, Wait, Take, TarDone, TarFails,
         Finish, Reboot, GiveUp, TypeOK, Tar
<1>1. proc' \in [Procs -> Process]
  <2>1. ASSUME NEW q \in Procs, Fork(p, q) PROVE proc' \in [Procs -> Process]
    <3>1. PICK v : v = [proc[p] EXCEPT !.pc = "tar"]
      OBVIOUS
    <3>2. PICK w : w = [proc[p] EXCEPT !.pc = "feed", !.size = 0, !.kid = q]
      OBVIOUS
    <3>3. v \in Process
      BY <1>0, <3>1 DEF Process, Pcs
    <3>4. 0 \in 0 .. FileEnd
      BY Bases
    <3>5. w \in Process
      BY <1>0, <3>2, <3>4 DEF Process, Pcs
    <3>6. p # q
      BY <2>1 DEF Fork, At
    <3>7. proc' = [proc EXCEPT ![p] = w, ![q] = v]
      BY <1>0, <2>1, <3>1, <3>2, <3>6 DEF Fork
    <3> QED BY <1>0, <3>3, <3>5, <3>7
  <2>2. CASE Feed(p)
    <3>0. PICK c \in Nat, n \in {0, 1} : Send(p, c, n)
      BY <2>2 DEF Feed, Junk, TypeOK
    <3>1. CASE Gone(Kid(p))
      BY <3>0, <3>1, GotoTypes DEF Send, Pcs, Kid
    <3>2. CASE ~Gone(Kid(p))
      <4>1. proc[p].size + 1 <= FileEnd /\ proc[p].size_sum + 1 <= FileEnd
        BY <2>2, ReadsInside DEF Feed, At
      <4>2. proc[p].size + 1 \in 0 .. FileEnd /\ proc[p].size_sum + n \in 0 .. FileEnd
        BY <1>0, <4>1, Bases DEF Process
      <4> QED BY <1>0, <3>0, <3>2, <4>2 DEF Send, Process, Pcs, Kid
    <3> QED BY <3>1, <3>2
  <2>3. CASE Finish(p)
    <3>1. CASE proc[p].tree = "homefs"
      <4>1. PICK x : x = IF proc[p].size_sum = 0 THEN Reads["homefs"] ELSE proc[p].size_sum
        OBVIOUS
      <4>2. x \in 0 .. FileEnd
        BY <1>0, <4>1, Bases DEF Process
      <4>3. proc' = [proc EXCEPT ![p].pc = "prepare", ![p].tree = "rootfs", ![p].size_sum = x]
        BY <2>3, <3>1, <4>1 DEF Finish
      <4>4. PICK v : v = [proc[p] EXCEPT !.pc = "prepare", !.tree = "rootfs", !.size_sum = x]
        OBVIOUS
      <4>5. v \in Process
        BY <1>0, <4>2, <4>4 DEF Process, Pcs, Trees
      <4>6. proc' = [proc EXCEPT ![p] = v]
        BY <1>0, <4>3, <4>4
      <4> QED BY <1>0, <4>5, <4>6
    <3>2. CASE proc[p].tree # "homefs"
      BY <2>3, <3>2, GotoTypes DEF Finish, Pcs
    <3> QED BY <3>1, <3>2
  <2>4. CASE Prepare(p)
    <3>1. (IF SizeRight(p) THEN "sniff" ELSE "failed") \in Pcs
      BY DEF Pcs
    <3> QED BY <2>4, <3>1, GotoTypes DEF Prepare
  <2>5. CASE Written(p)
    <3>1. (IF proc[p].size = Reads[proc[p].tree] THEN "wait" ELSE "feed") \in Pcs
      BY DEF Pcs
    <3> QED BY <2>5, <3>1, GotoTypes DEF Written
  <2>6. CASE NoFork(p) \/ BrokenPipe(p) \/ Wait(p) \/ TarDone(p) \/ TarFails(p) \/ Reboot(p) \/ GiveUp(p)
    BY <2>6, GotoTypes DEF NoFork, BrokenPipe, Wait, TarDone, TarFails, Reboot, GiveUp, Pcs
  <2>7. CASE Take(p)
    BY <1>0, <2>7 DEF Take
  <2> QED BY <2>1, <2>2, <2>3, <2>4, <2>5, <2>6, <2>7 DEF Run
<1>2. /\ tar' \in [Procs -> Tar]
      /\ \A q \in Procs : Len(tar'[q].pipe) <= 1
  <2>0. \A q \in Procs : Len(tar[q].pipe) <= 1
    BY DEF TypeOK
  <2>1. ASSUME NEW q \in Procs, Fork(p, q)
       PROVE  /\ tar' \in [Procs -> Tar]
              /\ \A r \in Procs : Len(tar'[r].pipe) <= 1
    <3>1. Top \in Places
      <4>1. mounts # <<>> => Last(mounts) \in {"p1", "p2"}
        BY FrontIsSeq DEF TypeOK
      <4> QED BY <4>1 DEF Top, Places
    <3>2. tar' = [tar EXCEPT ![q].cwd = Top]
      BY <2>1 DEF Fork
    <3> QED BY <1>0, <2>0, <3>1, <3>2 DEF Tar
  <2>2. CASE Feed(p)
    <3>1. CASE tar' = tar
      BY <1>0, <2>0, <3>1
    <3>2. CASE tar' # tar
      <4>1. PICK c \in {offset, Junk} : tar' = [tar EXCEPT ![Kid(p)].pipe = <<c>>]
        BY <2>2, <3>2 DEF Feed, Send, Kid
      <4>2. c \in Chunks
        BY <2>2, ReadsInside, Bases DEF Feed, At, Chunks, Junk, TypeOK
      <4>3. <<c>> \in Seq(Chunks) /\ Len(<<c>>) = 1
        BY <4>2
      <4>4. PICK k \in Procs : k = Kid(p)
        BY <2>2 DEF Feed, At, Chain, Feeding
      <4>5. PICK v : v = [tar[k] EXCEPT !.pipe = <<c>>]
        OBVIOUS
      <4>6. v \in Tar /\ v.pipe = <<c>>
        BY <1>0, <4>3, <4>5 DEF Tar
      <4>10. Len(v.pipe) <= 1
        <5>1. Len(v.pipe) = Len(<<c>>)
          BY <4>6, Zenon
        <5> QED BY <4>3, <5>1
      <4>7. tar' = [tar EXCEPT ![k] = v]
        BY <1>0, <4>1, <4>4, <4>5
      <4>8. \A q \in Procs : tar'[q] = IF q = k THEN v ELSE tar[q]
        BY <1>0, <4>7
      <4>9. \A q \in Procs : Len(tar'[q].pipe) <= 1
        BY <2>0, <4>8, <4>10
      <4> QED BY <1>0, <4>6, <4>7, <4>9
    <3> QED BY <3>1, <3>2
  <2>3. CASE Take(p)
    <3>1. tar[p].got \o tar[p].pipe \in Seq(Chunks)
      BY <1>0
    <3>2. <<>> \in Seq(Chunks) /\ Len(<<>>) = 0
      OBVIOUS
    <3>3. PICK v : v = [tar[p] EXCEPT !.got = tar[p].got \o tar[p].pipe, !.pipe = <<>>]
      OBVIOUS
    <3>4. v \in Tar /\ v.pipe = <<>>
      BY <1>0, <3>1, <3>2, <3>3 DEF Tar
    <3>5. tar' = [tar EXCEPT ![p] = v]
      BY <1>0, <2>3, <3>3 DEF Take
    <3> QED BY <1>0, <2>0, <3>2, <3>4, <3>5
  <2>4. CASE UNCHANGED tar
    BY <1>0, <2>0, <2>4
  <2>5. Feed(p) \/ Take(p) \/ UNCHANGED tar \/ \E q \in Procs : Fork(p, q)
    BY DEF Run, Prepare, NoFork, Written, BrokenPipe, Wait, TarDone, TarFails, Finish, Reboot, GiveUp
  <2> QED BY <2>1, <2>2, <2>3, <2>4, <2>5
<1>3. offset' \in 1 .. FileEnd + 1
  <2>1. offset \in 1 .. FileEnd + 1
    BY DEF TypeOK
  <2>2. CASE Prepare(p)
    BY <1>0, <2>2, Bases DEF Prepare, Process, Trees
  <2>3. CASE Feed(p)
    BY <2>1, <2>3, ReadsInside, Bases DEF Feed, At
  <2>4. CASE UNCHANGED offset
    BY <2>1, <2>4
  <2> QED
    BY <2>2, <2>3, <2>4 DEF Run, NoFork, Fork, Written, BrokenPipe, Wait, Take, TarDone,
       TarFails, Finish, Reboot, GiveUp
<1>4. mounts' \in Seq({"p1", "p2"})
  <2>1. mounts \in Seq({"p1", "p2"})
    BY DEF TypeOK
  <2>2. CASE Prepare(p)
    BY <2>1, <2>2 DEF Prepare, Mounted, Home
  <2>3. CASE Finish(p)
    BY <2>1, <2>3, FrontIsSeq DEF Finish
  <2>4. CASE UNCHANGED mounts
    BY <2>1, <2>4
  <2> QED
    BY <2>2, <2>3, <2>4 DEF Run, NoFork, Fork, Feed, Written, BrokenPipe, Wait, Take, TarDone,
       TarFails, Reboot, GiveUp
<1>5. unpacked' \in [Trees -> SUBSET (Procs \X Places)]
  <2>1. unpacked \in [Trees -> SUBSET (Procs \X Places)]
    BY DEF TypeOK
  <2>2. CASE TarDone(p)
    <3>1. <<p, tar[p].cwd>> \in Procs \X Places
      BY <1>0
    <3> QED BY <1>0, <2>1, <2>2, <3>1 DEF TarDone, Process
  <2>3. CASE UNCHANGED unpacked
    BY <2>1, <2>3
  <2> QED
    BY <2>2, <2>3 DEF Run, Prepare, NoFork, Fork, Feed, Written, BrokenPipe, Wait, Take,
       TarFails, Finish, Reboot, GiveUp
<1>6. shown' \subseteq {"ok", "failed"} /\ rebooting' \in BOOLEAN
  BY DEF Run, Prepare, NoFork, Fork, Feed, Written, BrokenPipe, Wait, Take, TarDone, TarFails,
         Finish, Reboot, GiveUp, TypeOK
<1>7. faults' \in 0 .. MaxFaults
  <2>1. faults' = faults \/ Fault
    BY DEF Run, Prepare, NoFork, Fork, Feed, Written, BrokenPipe, Wait, Take, TarDone, TarFails,
           Finish, Reboot, GiveUp, NoFault
  <2> QED BY <2>1, LoadingAssumption DEF Fault, TypeOK
<1> QED BY <1>0, <1>1, <1>2, <1>3, <1>4, <1>5, <1>6, <1>7 DEF TypeOK

-----------------------------------------------------------------------------
(* Reads stay in the file, also those of a parent whose child is ahead *)

\* At most one process is neither waiting for its child nor gone.
LEMMA Unique ==
    ASSUME Chain, NEW p \in Procs, Pc(p) \in Running, NEW r \in Procs, r # p
    PROVE  Pc(r) \notin Running
<1>1. Alive(p) /\ Pc(p) \notin Feeding \union {"exit", "killed"}
  BY DEF Running, Alive, Dead, Feeding
<1>2. p < r \/ r < p
  BY LoadingAssumption DEF Procs
<1>3. CASE p < r
  <2>1. ~Alive(r)
    BY <1>1, <1>3 DEF Chain
  <2> QED BY <2>1 DEF Alive, Dead, Running
<1>4. CASE r < p
  <2>1. Pc(r) \in Feeding \union {"exit", "killed"}
    BY <1>1, <1>4 DEF Chain
  <2> QED BY <2>1 DEF Feeding, Running
<1> QED BY <1>2, <1>3, <1>4

\* Only a child of homefs runs rootfs while its parent still feeds.
LEMMA OneFeeder ==
    ASSUME TypeOK, Chain, Kin, NEW p \in Procs, NEW q \in Procs, p < q,
           Pc(p) \in Feeding, Pc(q) \in {"prepare", "sniff"} \union Feeding
    PROVE  Tree(p) = "homefs" /\ p = 1 /\ Kid(p) = q /\ Tree(q) = "rootfs"
<1>0. Procs \subseteq Nat
  BY LoadingAssumption DEF Procs
<1>1. Alive(q)
  BY DEF Alive, Dead, Feeding
<1>2. PICK k \in Procs : k = Kid(p) /\ p < k /\ Alive(k) /\ k <= q
  BY <1>1 DEF Chain
<1>3. Tree(p) \in Trees /\ Tree(q) \in Trees /\ Tree(k) \in Trees
  BY DEF Tree, TypeOK, Process
<1>4. Tree(q) = "rootfs"
  <2>1. Tree(q) = "homefs" => q = 1
    BY DEF Kin
  <2>2. p >= 1
    BY DEF Procs
  <2> QED BY <1>0, <1>3, <2>1, <2>2 DEF Trees
<1>5. k < q => Pc(k) \in Feeding
  BY <1>1, <1>2 DEF Chain, Alive, Dead
<1>6. CASE k = q
  <2>1. Tree(p) = "rootfs" => Pc(q) \in {"tar", "finish", "ok", "exit"}
    BY <1>2, <1>6 DEF Kin
  <2>2. Tree(p) = "homefs"
    BY <1>3, <2>1 DEF Trees, Feeding
  <2> QED BY <1>2, <1>4, <1>6, <2>2 DEF Kin
<1>7. CASE k < q
  <2>1. Pc(k) \in Feeding
    BY <1>5, <1>7
  <2>2. Tree(k) = "rootfs"
    <3>1. Tree(k) = "homefs" => k = 1
      BY <2>1 DEF Kin
    <3>2. p >= 1
      BY DEF Procs
    <3> QED BY <1>0, <1>2, <1>3, <3>1, <3>2 DEF Trees
  <2>3. PICK m \in Procs : m = Kid(k) /\ k < m /\ Alive(m) /\ m <= q
    BY <1>1, <1>7, <2>1 DEF Chain
  <2>4. Pc(m) \in {"tar", "finish", "ok", "exit"}
    BY <2>1, <2>2, <2>3 DEF Kin
  <2>5. m = q
    <3>1. m < q => Pc(m) \in Feeding \union {"exit", "killed"}
      BY <1>1 DEF Chain
    <3> QED BY <1>0, <2>3, <2>4, <3>1 DEF Feeding, Alive, Dead
  <2> QED BY <2>4, <2>5 DEF Feeding
<1> QED BY <1>0, <1>2, <1>6, <1>7

\* No two parents feed one child.
LEMMA OneChild ==
    ASSUME TypeOK, Chain, NEW p \in Procs, NEW r \in Procs, p # r,
           Pc(p) \in Feeding, Pc(r) \in Feeding
    PROVE  Kid(p) # Kid(r)
<1>0. Procs \subseteq Nat
  BY LoadingAssumption DEF Procs
<1>1. Alive(p) /\ Alive(r)
  BY DEF Alive, Dead, Feeding
<1>2. PICK k \in Procs : k = Kid(p) /\ p < k /\ (p < r => k <= r)
  BY <1>1 DEF Chain
<1>3. PICK m \in Procs : m = Kid(r) /\ r < m /\ (r < p => m <= p)
  BY <1>1 DEF Chain
<1> QED BY <1>0, <1>2, <1>3

\* What a process has been given is a number.
LEMMA GivenNat ==
    ASSUME TypeOK, Counted, NEW q \in Procs, Tree(q) = "rootfs"
    PROVE  Given(q) \in Nat /\ Given(q) <= Reads["rootfs"]
<1>1. proc[q].size \in Nat
  BY DEF TypeOK, Process
<1>2. Pc(q) \in Feeding => proc[q].size <= Reads["rootfs"]
  BY DEF Counted
<1> QED BY <1>1, <1>2, Bases DEF Given

\* A step that neither reads nor prepares nor empties a pipe.
LEMMA InFileMoves ==
    ASSUME TypeOK, Chain, Kin, Counted, InFile, NEW p \in Procs, Moves(p),
           Pc(p) \notin {"feed", "prepare"}, offset' = offset,
           \A r \in Procs : tar'[r].pipe = tar[r].pipe,
           Pc(p) = "writing" /\ Pc(p)' = "feed" => tar[Kid(p)].pipe = <<>>
    PROVE  InFile'
<1>0. offset \in Nat /\ Procs \subseteq Nat
  BY LoadingAssumption DEF TypeOK, Procs
<1>1. /\ \A r \in Procs : r # p => Pc(r)' = Pc(r) /\ Kid(r)' = Kid(r) /\ Tree(r)' = Tree(r)
                                   /\ proc'[r].size = proc[r].size
      /\ Kid(p)' = Kid(p) /\ proc'[p].size = proc[p].size
  BY DEF Moves, Only, Counts, SameSizes, From, Pc, Kid, Tree
<1>2. \/ /\ Tree(p)' = Tree(p)
         /\ \/ Pc(p) = "sniff" /\ Pc(p)' = "failed"
            \/ Pc(p) = "writing" /\ Pc(p)' \in {"killed", "wait", "feed"}
            \/ Pc(p) = "wait" /\ Pc(p)' = "finish" /\ proc[p].size = Reads[Tree(p)]
            \/ Pc(p) = "tar" /\ Pc(p)' = "finish"
            \/ Pc(p) = "finish" /\ Pc(p)' = "ok" /\ Tree(p) = "rootfs"
            \/ Pc(p) \in {"ok", "failed"} /\ Pc(p)' = "exit"
      \/ Pc(p) = "finish" /\ Pc(p)' = "prepare" /\ Tree(p) = "homefs" /\ Tree(p)' = "rootfs"
  BY DEF Moves, SameTree, Counts, From, Pc, Tree, Counted
<1>3. \A r \in Procs : Pc(r)' \in Feeding => Pc(r) \in Feeding /\ Tree(r)' = Tree(r)
  BY <1>1, <1>2 DEF Feeding
<1>4. ASSUME NEW q \in Procs, Tree(q) = "rootfs" PROVE Given(q) <= Given(q)'
  <2>1. CASE q # p
    BY <1>1, <1>4, <2>1, GivenNat DEF Given
  <2>2. CASE q = p
    <3>1. Given(p) \in Nat /\ Given(p) <= Reads["rootfs"]
      BY <1>4, <2>2, GivenNat
    <3>2. CASE Pc(p)' \in Feeding
      BY <1>1, <1>2, <2>2, <3>1, <3>2 DEF Given, Feeding
    <3>3. CASE Pc(p)' \notin {"sniff"} \union Feeding
      BY <2>2, <3>1, <3>3 DEF Given
    <3>4. Pc(p)' # "sniff"
      BY <1>2
    <3> QED BY <2>2, <3>2, <3>3, <3>4
  <2> QED BY <2>1, <2>2
<1>5. ASSUME NEW r \in Procs, Tree(r)' = "homefs", Pc(r)' \in Feeding
      PROVE  IF Tree(Kid(r))' = "homefs" \/ Pc(Kid(r))' = "prepare"
               THEN offset' <= First("homefs") + proc'[r].size
               ELSE CanRead(r)' => offset' <= 1 + Given(Kid(r))'
  <2>1. Pc(r) \in Feeding /\ Tree(r) = "homefs" /\ Kid(r)' = Kid(r) /\ proc'[r].size = proc[r].size
    BY <1>1, <1>3, <1>5
  <2>2. PICK k \in Procs : k = Kid(r) /\ r < k
    BY <2>1 DEF Chain
  <2>3. Tree(Kid(r))' = Tree(k)' /\ Pc(Kid(r))' = Pc(k)' /\ Given(Kid(r))' = Given(k)'
    BY <2>1, <2>2 DEF Pc, Kid, Tree, Given
  <2>4. IF Tree(k) = "homefs" \/ Pc(k) = "prepare"
          THEN offset <= First("homefs") + proc[r].size
          ELSE CanRead(r) => offset <= 1 + Given(k)
    BY <2>1, <2>2 DEF InFile
  <2>5. CASE Tree(k)' = "homefs" \/ Pc(k)' = "prepare"
    <3>1. Tree(k) = "homefs" \/ Pc(k) = "prepare"
      BY <1>1, <1>2, <2>5
    <3> QED BY <2>1, <2>3, <2>4, <2>5, <3>1
  <2>6. CASE ~(Tree(k)' = "homefs" \/ Pc(k)' = "prepare") /\ CanRead(r)'
    <3>1. ~(Tree(k) = "homefs" \/ Pc(k) = "prepare")
      BY <1>1, <1>2, <2>6
    <3>2. CanRead(r)
      <4>1. tar'[Kid(r)].pipe = tar[Kid(r)].pipe
        BY <2>2
      <4>2. Pc(r)' = "feed" \/ (Pc(r)' = "writing" /\ tar[Kid(r)].pipe = <<>>)
        BY <2>1, <2>6, <4>1 DEF CanRead
      <4> QED BY <1>1, <1>2, <2>1, <4>2 DEF CanRead, Feeding
    <3>3. Tree(k) = "rootfs"
      BY <3>1 DEF Tree, TypeOK, Process, Trees
    <3>4. Tree(k)' = "rootfs"
      BY <1>1, <1>2, <3>3
    <3>5. offset <= 1 + Given(k)
      BY <2>4, <3>1, <3>2
    <3>6. Given(k) <= Given(k)' /\ Given(k) \in Nat
      BY <1>4, <3>3, GivenNat
    <3>7. Given(k)' \in Nat
      <4>1. proc'[k].size = proc[k].size /\ proc[k].size \in Nat
        BY <1>1 DEF TypeOK, Process
      <4> QED BY <4>1, Bases DEF Given
    <3>8. offset <= 1 + Given(k)'
      BY <1>0, <3>5, <3>6, <3>7
    <3> QED BY <2>3, <2>6, <3>8
  <2> QED BY <2>3, <2>5, <2>6
<1>6. ASSUME NEW q \in Procs, Tree(q)' = "rootfs", Pc(q)' \in {"sniff"} \union Feeding
      PROVE  offset' <= 2 + Given(q)'
  <2>1. Tree(q) = "rootfs" /\ Pc(q) \in {"sniff"} \union Feeding
    BY <1>1, <1>2, <1>6 DEF Feeding
  <2>2. offset <= 2 + Given(q) /\ Given(q) \in Nat /\ Given(q) <= Given(q)'
    BY <1>4, <2>1, GivenNat DEF InFile
  <2>3. Given(q)' \in Nat
    <3>1. proc'[q].size = proc[q].size /\ proc[q].size \in Nat
      BY <1>1 DEF TypeOK, Process
    <3> QED BY <3>1, Bases DEF Given
  <2> QED BY <1>0, <2>2, <2>3
<1> QED BY <1>5, <1>6 DEF InFile

\* lseek puts the offset where the tree begins.
LEMMA InFilePrepare ==
    ASSUME TypeOK, Chain, Kin, Counted, InFile, NEW p \in Procs, Prepare(p), Moves(p)
    PROVE  InFile'
<1>0. Procs \subseteq Nat /\ \A r \in Procs : r >= 1
  BY LoadingAssumption DEF Procs
<1>1. /\ \A r \in Procs : r # p => Pc(r)' = Pc(r) /\ Kid(r)' = Kid(r) /\ Tree(r)' = Tree(r)
      /\ Pc(p) = "prepare" /\ Pc(p)' \in {"sniff", "failed"} /\ Tree(p)' = Tree(p)
      /\ offset' = First(Tree(p)) /\ \A r \in Procs : proc'[r].size \in Nat
  <2>1. Pc(p) = "prepare" /\ offset' = First(Tree(p))
    BY DEF Prepare, At, Tree
  <2>2. \A r \in Procs : r # p => proc'[r] = proc[r]
    BY DEF Moves, Only
  <2>3. Pc(p)' \in {"sniff", "failed"} /\ Tree(p)' = Tree(p) /\ proc'[p].size = proc[p].size
    BY <2>1 DEF Moves, Counts, SameTree, SameSizes, From, Pc, Tree
  <2>4. \A r \in Procs : proc[r].size \in Nat
    BY DEF TypeOK, Process
  <2>5. \A r \in Procs : proc'[r].size \in Nat
    BY <2>2, <2>3, <2>4
  <2> QED BY <2>1, <2>2, <2>3, <2>5 DEF Pc, Kid, Tree
<1>2. \A r \in Procs : Given(r)' \in Nat
  BY <1>1, Bases DEF Given
<1>3. Tree(p) \in Trees
  BY DEF Tree, TypeOK, Process
<1>4. ASSUME NEW r \in Procs, Tree(r)' = "homefs", Pc(r)' \in Feeding
      PROVE  IF Tree(Kid(r))' = "homefs" \/ Pc(Kid(r))' = "prepare"
               THEN offset' <= First("homefs") + proc'[r].size
               ELSE CanRead(r)' => offset' <= 1 + Given(Kid(r))'
  <2>1. r # p /\ Tree(r) = "homefs" /\ Pc(r) \in Feeding
    BY <1>1, <1>4 DEF Feeding
  <2>2. r < p
    BY <1>0, <2>1 DEF Kin
  <2>3. Kid(r) = p /\ Tree(p) = "rootfs"
    BY <1>1, <2>1, <2>2, OneFeeder
  <2>4. Tree(Kid(r))' = Tree(p)' /\ Pc(Kid(r))' = Pc(p)' /\ Given(Kid(r))' = Given(p)'
    BY <1>1, <2>1, <2>3 DEF Tree, Kid, Pc, Given
  <2> QED BY <1>1, <1>2, <2>3, <2>4, Bases
<1>5. ASSUME NEW q \in Procs, Tree(q)' = "rootfs", Pc(q)' \in {"sniff"} \union Feeding
      PROVE  offset' <= 2 + Given(q)'
  <2>1. Tree(p) = "rootfs"
    <3>1. CASE q = p
      BY <1>1, <1>5, <3>1
    <3>2. CASE q # p /\ Tree(p) = "homefs"
      <4>1. p = 1 /\ p < q
        BY <1>0, <1>1, <3>2 DEF Kin
      <4>2. Alive(q)
        BY <1>1, <1>5, <3>2 DEF Alive, Dead, Feeding
      <4> QED BY <1>1, <4>1, <4>2 DEF Chain, Feeding
    <3> QED BY <1>3, <3>1, <3>2 DEF Trees
  <2> QED BY <1>1, <1>2, <2>1, Bases
<1> QED BY <1>4, <1>5 DEF InFile

\* The child starts at the offset its parent found.
LEMMA InFileFork ==
    ASSUME TypeOK, Chain, Kin, Counted, InFile, NEW p \in Procs, NEW q \in Procs,
           Fork(p, q), Forks(p, q)
    PROVE  InFile'
<1>0. Procs \subseteq Nat /\ (\A r \in Procs : r >= 1) /\ offset \in Nat
  BY LoadingAssumption DEF Procs, TypeOK
<1>1. /\ \A r \in Procs : r # p /\ r # q => proc'[r] = proc[r]
      /\ Pc(p) = "sniff" /\ Pc(p)' = "feed" /\ Tree(p)' = Tree(p) /\ Kid(p)' = q
      /\ Pc(q)' = "tar" /\ Tree(q)' = Tree(p) /\ p # q
      /\ proc'[p].size = 0 /\ offset' = offset
      /\ \A r \in Procs : tar'[r].pipe = tar[r].pipe
  <2>1. proc'[q].pc = "tar" /\ proc'[q].tree = proc[p].tree
    BY DEF Forks, TypeOK, Process
  <2> QED BY <2>1 DEF Forks, From, SameTree, Pc, Kid, Tree, Fork, TypeOK, Tar
<1>2. Given(p) = 0 /\ Given(p)' = 0
  BY <1>1 DEF Given, Feeding, Pc
<1>3. ASSUME NEW r \in Procs, Tree(r)' = "homefs", Pc(r)' \in Feeding
      PROVE  IF Tree(Kid(r))' = "homefs" \/ Pc(Kid(r))' = "prepare"
               THEN offset' <= First("homefs") + proc'[r].size
               ELSE CanRead(r)' => offset' <= 1 + Given(Kid(r))'
  <2>1. r # q
    BY <1>1, <1>3 DEF Feeding
  <2>2. CASE r = p
    <3>1. Tree(Kid(r))' = Tree(q)'
      BY <1>1, <2>2 DEF Tree, Kid
    <3>2. offset = First("homefs") \/ offset = First("rootfs")
      BY DEF Fork, Archive, Trees
    <3>3. offset <= First("homefs") + 0
      BY <1>0, <3>2, Bases
    <3> QED BY <1>1, <1>3, <2>2, <3>1, <3>3
  <2>3. CASE r # p
    <3>1. Pc(r) \in Feeding /\ Tree(r) = "homefs" /\ Kid(r)' = Kid(r) /\ Pc(r)' = Pc(r)
      BY <1>1, <1>3, <2>1, <2>3 DEF Pc, Tree, Kid
    <3>2. r < p
      BY <1>0, <2>3, <3>1 DEF Kin
    <3>3. Kid(r) = p /\ Tree(p) = "rootfs"
      BY <1>1, <3>1, <3>2, OneFeeder
    <3>4. Tree(Kid(r))' = Tree(p)' /\ Pc(Kid(r))' = Pc(p)' /\ Given(Kid(r))' = Given(p)'
      BY <3>1, <3>3 DEF Tree, Kid, Pc, Given
    <3>5. CanRead(r)' => CanRead(r)
      <4>1. tar'[Kid(r)].pipe = tar[Kid(r)].pipe
        BY <1>1, <3>3
      <4> QED BY <3>1, <4>1 DEF CanRead
    <3>6. CanRead(r) => offset <= 1 + Given(p)
      BY <1>1, <3>1, <3>3 DEF InFile
    <3> QED BY <1>1, <1>2, <3>3, <3>4, <3>5, <3>6
  <2> QED BY <2>2, <2>3
<1>4. ASSUME NEW s \in Procs, Tree(s)' = "rootfs", Pc(s)' \in {"sniff"} \union Feeding
      PROVE  offset' <= 2 + Given(s)'
  <2>1. s # q
    BY <1>1, <1>4 DEF Feeding
  <2>2. CASE s = p
    BY <1>1, <1>2, <1>4, <2>2 DEF InFile
  <2>3. CASE s # p
    <3>1. Tree(s)' = Tree(s) /\ Pc(s)' = Pc(s) /\ Given(s)' = Given(s)
      BY <1>1, <2>1, <2>3 DEF Tree, Pc, Given
    <3> QED BY <1>1, <1>4, <3>1 DEF InFile
  <2> QED BY <2>2, <2>3
<1> QED BY <1>3, <1>4 DEF InFile

\* When tar empties the pipe its parent may read again.
LEMMA InFileTake ==
    ASSUME TypeOK, Chain, Kin, InFile, NEW p \in Procs, Take(p)
    PROVE  InFile'
<1>1. /\ proc' = proc /\ offset' = offset /\ Pc(p) = "tar"
      /\ \A r \in Procs : r # p => tar'[r] = tar[r]
  BY DEF Take, At, TypeOK
<1>2. ASSUME NEW r \in Procs, Tree(r) = "homefs", Pc(r) \in Feeding,
             Tree(Kid(r)) # "homefs"
      PROVE  CanRead(r)' => CanRead(r)
  <2>1. PICK k \in Procs : k = Kid(r)
    BY <1>2 DEF Chain
  <2>2. k # p
    BY <1>1, <1>2, <2>1 DEF Kin
  <2>3. tar'[Kid(r)] = tar[Kid(r)] /\ Kid(r)' = Kid(r) /\ Pc(r)' = Pc(r)
    BY <1>1, <2>1, <2>2 DEF Kid, Pc
  <2> QED BY <2>3 DEF CanRead
<1>3. \A r \in Procs : Tree(r)' = Tree(r) /\ Pc(r)' = Pc(r) /\ Kid(r)' = Kid(r) /\ Given(r)' = Given(r)
  BY <1>1 DEF Tree, Pc, Kid, Given
<1>4. \A r \in Procs : Tree(Kid(r))' = Tree(Kid(r)) /\ Pc(Kid(r))' = Pc(Kid(r)) /\ Given(Kid(r))' = Given(Kid(r))
  BY <1>1 DEF Tree, Pc, Kid, Given
<1>5. ASSUME NEW r \in Procs, Tree(r)' = "homefs", Pc(r)' \in Feeding
      PROVE  IF Tree(Kid(r))' = "homefs" \/ Pc(Kid(r))' = "prepare"
               THEN offset' <= First("homefs") + proc'[r].size
               ELSE CanRead(r)' => offset' <= 1 + Given(Kid(r))'
  <2>1. IF Tree(Kid(r)) = "homefs" \/ Pc(Kid(r)) = "prepare"
          THEN offset <= First("homefs") + proc[r].size
          ELSE CanRead(r) => offset <= 1 + Given(Kid(r))
    BY <1>3, <1>5 DEF InFile
  <2> QED BY <1>1, <1>2, <1>3, <1>4, <1>5, <2>1
<1>6. ASSUME NEW q \in Procs, Tree(q)' = "rootfs", Pc(q)' \in {"sniff"} \union Feeding
      PROVE  offset' <= 2 + Given(q)'
  BY <1>1, <1>3, <1>6 DEF InFile
<1> QED BY <1>5, <1>6 DEF InFile

\* One read and its write.
LEMMA FeedFacts ==
    ASSUME TypeOK, Chain, NEW p \in Procs, Feed(p), Moves(p)
    PROVE  /\ Pc(p) = "feed" /\ Kid(p) \in Procs /\ p # Kid(p) /\ Tree(p)' = Tree(p) /\ Kid(p)' = Kid(p)
           /\ offset' \in {offset, offset + 1}
           /\ IF Gone(Kid(p))
                THEN Pc(p)' = "killed" /\ tar' = tar
                ELSE /\ Pc(p)' \in {"writing", "wait"}
                     /\ \/ /\ offset' = offset + 1 /\ proc'[p].size = proc[p].size + 1
                           /\ proc'[p].size_sum = proc[p].size_sum + 1
                           /\ tar' = [tar EXCEPT ![Kid(p)].pipe = <<offset>>]
                           /\ faults' = faults
                        \/ /\ offset' = offset /\ proc'[p].size \in {proc[p].size, proc[p].size + 1}
                           /\ tar' = [tar EXCEPT ![Kid(p)].pipe = <<Junk>>]
                           /\ faults' = faults + 1
<1>0. proc \in [Procs -> Process] /\ proc[p] \in Process
  BY DEF TypeOK
<1>1. Pc(p) = "feed" /\ Kid(p) \in Procs /\ p # Kid(p) /\ Kid(p)' = Kid(p)
  <2>1. Kid(p) \in Procs /\ p < Kid(p)
    BY DEF Feed, At, Chain, Feeding
  <2> QED BY <2>1, LoadingAssumption DEF Feed, At, Moves, Kid, Procs
<1>2. Tree(p)' = Tree(p) /\ offset' \in {offset, offset + 1}
  BY <1>1 DEF Moves, SameTree, Counts, From, Tree, Feed
<1>3. CASE Gone(Kid(p))
  BY <1>0, <1>1, <1>2, <1>3 DEF Feed, Send, Goto, Pc, Kid, Process
<1>4. CASE ~Gone(Kid(p))
  <2>1. Pc(p)' \in {"writing", "wait"}
    BY <1>1, <1>4 DEF Moves, Counts, From, Pc
  <2>2. ASSUME NEW c, NEW n \in {0, 1}, Send(p, c, n)
        PROVE  /\ proc'[p].size = IF n = 1 \/ LastRead(p) THEN proc[p].size + 1 ELSE proc[p].size
               /\ proc'[p].size_sum = proc[p].size_sum + n
               /\ tar' = [tar EXCEPT ![Kid(p)].pipe = <<c>>]
    BY <1>0, <1>4, <2>2 DEF Send, Kid, Process
  <2> QED BY <1>1, <1>2, <1>4, <2>1, <2>2 DEF Feed, Fault, NoFault
<1> QED BY <1>1, <1>2, <1>3, <1>4

\* A read moves the offset one chunk on, or not at all.
LEMMA InFileFeed ==
    ASSUME TypeOK, Chain, Kin, Counted, InFile, NEW p \in Procs, Feed(p), Moves(p)
    PROVE  InFile'
<1>0. Procs \subseteq Nat /\ (\A r \in Procs : r >= 1) /\ offset \in Nat
  BY LoadingAssumption DEF Procs, TypeOK
<1>1. \A r \in Procs : r # p => proc'[r] = proc[r]
  BY DEF Moves, Only
<1>2. /\ Pc(p) = "feed" /\ Kid(p) \in Procs /\ p # Kid(p) /\ Tree(p)' = Tree(p) /\ Kid(p)' = Kid(p)
      /\ offset' \in {offset, offset + 1}
      /\ \A r \in Procs : r # Kid(p) => tar'[r] = tar[r]
      /\ \/ Pc(p)' = "killed"
         \/ /\ Pc(p)' \in {"writing", "wait"} /\ tar'[Kid(p)].pipe # <<>>
            /\ \/ offset' = offset + 1 /\ proc'[p].size = proc[p].size + 1
               \/ offset' = offset /\ proc'[p].size \in {proc[p].size, proc[p].size + 1}
  <2>1. /\ Pc(p) = "feed" /\ Kid(p) \in Procs /\ p # Kid(p) /\ Tree(p)' = Tree(p) /\ Kid(p)' = Kid(p)
        /\ offset' \in {offset, offset + 1}
    BY FeedFacts
  <2>2. CASE Gone(Kid(p))
    BY <2>1, <2>2, FeedFacts
  <2>3. CASE ~Gone(Kid(p))
    <3>1. /\ Pc(p)' \in {"writing", "wait"}
          /\ \/ offset' = offset + 1 /\ proc'[p].size = proc[p].size + 1
             \/ offset' = offset /\ proc'[p].size \in {proc[p].size, proc[p].size + 1}
          /\ \E c \in {offset, Junk} : tar' = [tar EXCEPT ![Kid(p)].pipe = <<c>>]
      BY <2>3, FeedFacts
    <3>2. PICK c \in {offset, Junk} : tar' = [tar EXCEPT ![Kid(p)].pipe = <<c>>]
      BY <3>1
    <3>3. tar'[Kid(p)].pipe = <<c>> /\ \A r \in Procs : r # Kid(p) => tar'[r] = tar[r]
      BY <2>1, <3>2 DEF TypeOK, Tar
    <3>4. <<c>> # <<>>
      OBVIOUS
    <3> QED BY <2>1, <3>1, <3>3, <3>4
  <2> QED BY <2>2, <2>3
<1>3. proc[p].size \in Nat /\ proc[p].size < Reads[Tree(p)] /\ Tree(p) \in Trees
  BY <1>2 DEF TypeOK, Process, Counted, Tree
<1>4. ASSUME NEW r \in Procs, Tree(r)' = "homefs", Pc(r)' \in Feeding
      PROVE  IF Tree(Kid(r))' = "homefs" \/ Pc(Kid(r))' = "prepare"
               THEN offset' <= First("homefs") + proc'[r].size
               ELSE CanRead(r)' => offset' <= 1 + Given(Kid(r))'
  <2>1. CASE r = p
    <3>1. PICK k \in Procs : k = Kid(p)
      BY <1>2
    <3>2. Tree(Kid(r))' = Tree(k) /\ Pc(Kid(r))' = Pc(k)
      BY <1>1, <1>2, <2>1, <3>1 DEF Tree, Pc, Kid
    <3>3. ~CanRead(r)'
      BY <1>2, <1>4, <2>1 DEF CanRead, Feeding, Kid
    <3>4. Tree(p) = "homefs"
      BY <1>2, <1>4, <2>1
    <3>5. Tree(k) = "homefs" \/ Pc(k) = "prepare" => offset <= First("homefs") + proc[p].size
      BY <1>2, <3>1, <3>4 DEF InFile, Feeding
    <3>6. /\ offset' \in {offset, offset + 1} /\ proc'[p].size \in {proc[p].size, proc[p].size + 1}
          /\ offset' = offset + 1 => proc'[p].size = proc[p].size + 1
      BY <1>0, <1>2, <1>4, <2>1 DEF Feeding
    <3>7. Tree(k) = "homefs" \/ Pc(k) = "prepare" => offset' <= First("homefs") + proc'[p].size
      BY <1>0, <1>3, <3>5, <3>6, Bases
    <3> QED BY <2>1, <3>2, <3>3, <3>7
  <2>2. CASE r # p
    <3>1. Pc(r)' = Pc(r) /\ Kid(r)' = Kid(r) /\ Tree(r) = "homefs" /\ Pc(r) \in Feeding
      BY <1>1, <1>4, <2>2 DEF Pc, Kid, Tree
    <3>2. r < p
      BY <1>0, <2>2, <3>1 DEF Kin
    <3>3. Kid(r) = p /\ Tree(p) = "rootfs"
      BY <1>2, <3>1, <3>2, OneFeeder DEF Feeding
    <3>4. Tree(Kid(r))' = Tree(p)' /\ Pc(Kid(r))' = Pc(p)' /\ Given(Kid(r))' = Given(p)'
      BY <3>1, <3>3 DEF Tree, Kid, Pc, Given
    <3>5. CanRead(r)' => CanRead(r)
      <4>1. tar'[Kid(r)] = tar[Kid(r)]
        BY <1>2, <3>3
      <4> QED BY <3>1, <4>1 DEF CanRead
    <3>6. CanRead(r) => offset <= 1 + proc[p].size
      <4>1. Given(p) = proc[p].size
        BY <1>2 DEF Given, Feeding
      <4> QED BY <1>2, <3>1, <3>3, <4>1 DEF InFile
    <3>7. CanRead(r)' => offset' <= 1 + Given(p)'
      <4>1. CASE Pc(p)' = "killed"
        <5>1. Given(p)' = Reads["rootfs"]
          BY <4>1 DEF Given, Feeding
        <5> QED BY <1>0, <1>2, <1>3, <3>3, <3>5, <3>6, <5>1, Bases
      <4>2. CASE Pc(p)' # "killed"
        <5>1. Given(p)' = proc'[p].size
          BY <1>2, <4>2 DEF Given, Feeding
        <5> QED BY <1>0, <1>2, <1>3, <3>5, <3>6, <4>2, <5>1
      <4> QED BY <4>1, <4>2
    <3> QED BY <1>2, <3>3, <3>4, <3>7
  <2> QED BY <2>1, <2>2
<1>5. ASSUME NEW q \in Procs, Tree(q)' = "rootfs", Pc(q)' \in {"sniff"} \union Feeding
      PROVE  offset' <= 2 + Given(q)'
  <2>1. CASE q = p
    <3>1. Given(p) = proc[p].size /\ Given(p)' = proc'[p].size
      BY <1>2, <1>5, <2>1 DEF Given, Feeding
    <3>2. offset <= 2 + Given(p)
      BY <1>2, <1>5, <2>1 DEF InFile, Feeding
    <3> QED BY <1>0, <1>2, <1>3, <1>5, <2>1, <3>1, <3>2 DEF Feeding
  <2>2. CASE q # p
    <3>1. Pc(q)' = Pc(q) /\ Tree(q) = "rootfs" /\ Pc(q) \in {"sniff"} \union Feeding /\ Given(q)' = Given(q)
      BY <1>1, <1>5, <2>2 DEF Pc, Tree, Given
    <3>2. p < q
      <4>1. CASE q < p
        <5>1. Alive(p)
          BY <1>2 DEF Alive, Dead
        <5>2. Pc(q) \in Feeding
          BY <3>1, <4>1, <5>1 DEF Chain
        <5>3. Tree(q) = "homefs"
          BY <1>2, <4>1, <5>2, OneFeeder DEF Feeding
        <5> QED BY <3>1, <5>3
      <4> QED BY <1>0, <2>2, <4>1
    <3>3. Tree(p) = "homefs" /\ Kid(p) = q
      BY <1>2, <3>1, <3>2, OneFeeder DEF Feeding
    <3>4. offset <= 1 + Given(q)
      BY <1>2, <3>1, <3>3 DEF InFile, CanRead, Feeding
    <3>5. Given(q) \in Nat
      BY <3>1, GivenNat
    <3> QED BY <1>0, <1>2, <3>1, <3>4, <3>5
  <2> QED BY <2>1, <2>2
<1> QED BY <1>4, <1>5 DEF InFile

-----------------------------------------------------------------------------
(* Mounts *)

\* Steps that leave the mounts alone.
LEMMA QuietMounts ==
    ASSUME TypeOK, MountedAs, NEW p \in Procs, Moves(p), mounts' = mounts,
           Pc(p) \notin {"prepare", "finish"},
           \A r \in Procs : tar'[r].cwd = tar[r].cwd
    PROVE  MountedAs'
<1>1. \A r \in Procs : r # p => Pc(r)' = Pc(r) /\ Tree(r)' = Tree(r)
  BY DEF Moves, Only, Pc, Tree
<1>2. Pc(p)' \notin {"prepare", "ok", "sniff", "tar"}
  BY DEF Moves, Counts, From, Pc
<1> QED BY <1>1, <1>2 DEF MountedAs

\* mount finds nothing mounted.
LEMMA MountsPrepare ==
    ASSUME TypeOK, Chain, MountedAs, NEW p \in Procs, Prepare(p), Moves(p)
    PROVE  MountedAs'
<1>1. \A r \in Procs : r # p => Pc(r)' \notin Running
  <2>1. Pc(p) \in Running
    BY DEF Prepare, At, Running
  <2> QED BY <2>1, Unique DEF Moves, Only, Pc
<1>2. /\ Pc(p) = "prepare" /\ Pc(p)' \in {"sniff", "failed"} /\ Tree(p)' = Tree(p)
  BY DEF Moves, Counts, SameTree, From, Pc, Tree, Prepare, At
<1>3. mounts = <<>>
  BY <1>2 DEF MountedAs
<1>4. mounts' \in {<<>>, <<Home(Tree(p))>>}
  <2>1. Mounted(Tree(p)) = <<Home(Tree(p))>>
    BY <1>3 DEF Mounted, Top, Home
  <2> QED BY <1>3, <2>1 DEF Prepare, Tree
<1>5. Len(mounts') <= 1
  <2>1. CASE mounts' = <<>>
    BY <2>1
  <2>2. CASE mounts' = <<Home(Tree(p))>>
    BY <2>2
  <2> QED BY <1>4, <2>1, <2>2
<1>6. Home(Tree(p))' = Home(Tree(p))
  BY <1>2 DEF Home
<1>7. ASSUME NEW r \in Procs
      PROVE  /\ Pc(r)' \in {"prepare", "ok"} => mounts' = <<>>
             /\ Pc(r)' \in {"sniff", "tar"} => mounts' \in {<<>>, <<Home(Tree(r))'>>}
             /\ Pc(r)' = "tar" => tar'[r].cwd \in {Home(Tree(r))', "ram"}
  <2>1. CASE r = p
    BY <1>2, <1>4, <1>6, <2>1
  <2>2. CASE r # p
    BY <1>1, <2>2 DEF Running
  <2> QED BY <2>1, <2>2
<1> QED BY <1>5, <1>7 DEF MountedAs

\* tar goes to what is mounted, or below.
LEMMA MountsFork ==
    ASSUME TypeOK, Chain, MountedAs, NEW p \in Procs, NEW q \in Procs, Fork(p, q), Forks(p, q)
    PROVE  MountedAs'
<1>1. \A r \in Procs : r # p /\ r # q => Pc(r)' \notin Running
  <2>1. Pc(p) \in Running
    BY DEF Fork, At, Running
  <2> QED BY <2>1, Unique DEF Forks, Pc
<1>2. /\ Pc(p) = "sniff" /\ Pc(p)' = "feed" /\ Pc(q)' = "tar" /\ Tree(q)' = Tree(p)
      /\ mounts' = mounts /\ tar'[q].cwd = Top
  <2>1. proc'[q].pc = "tar" /\ proc'[q].tree = proc[p].tree
    BY DEF Forks, TypeOK, Process
  <2>2. Pc(p) = "sniff" /\ Pc(p)' = "feed"
    BY DEF Forks, From, Pc
  <2> QED BY <2>1, <2>2 DEF Pc, Tree, Fork, TypeOK, Tar
<1>3. mounts \in {<<>>, <<Home(Tree(p))>>} /\ Len(mounts) <= 1
  BY <1>2 DEF MountedAs
<1>4. Top \in {Home(Tree(p)), "ram"}
  <2>1. CASE mounts = <<>>
    BY <2>1 DEF Top
  <2>2. CASE mounts = <<Home(Tree(p))>>
    <3>1. Last(mounts) = Home(Tree(p))
      BY <2>2 DEF Last
    <3> QED BY <3>1 DEF Top
  <2> QED BY <1>3, <2>1, <2>2
<1>5. Home(Tree(q))' = Home(Tree(p))
  BY <1>2 DEF Home
<1>6. ASSUME NEW r \in Procs
      PROVE  /\ Pc(r)' \in {"prepare", "ok"} => mounts' = <<>>
             /\ Pc(r)' \in {"sniff", "tar"} => mounts' \in {<<>>, <<Home(Tree(r))'>>}
             /\ Pc(r)' = "tar" => tar'[r].cwd \in {Home(Tree(r))', "ram"}
  <2>1. CASE r = q
    BY <1>2, <1>3, <1>4, <1>5, <2>1
  <2>2. CASE r # q
    BY <1>1, <1>2, <2>2 DEF Running
  <2> QED BY <2>1, <2>2
<1> QED BY <1>2, <1>3, <1>6 DEF MountedAs

\* No tar runs that could keep the file system busy, so nothing stays mounted.
LEMMA MountsFinish ==
    ASSUME TypeOK, Chain, MountedAs, NEW p \in Procs, Finish(p), Moves(p)
    PROVE  MountedAs' /\ mounts' = <<>>
<1>1. \A r \in Procs : r # p => Pc(r) \notin Running
  <2>1. Pc(p) \in Running
    BY DEF Finish, At, Running
  <2> QED BY <2>1, Unique
<1>2. Pc(p) = "finish" /\ Pc(p)' \in {"prepare", "ok"}
  BY DEF Moves, Counts, From, Pc, Finish, At
<1>3. ~Busy
  BY <1>1, <1>2 DEF Busy, Running
<1>4. mounts' = <<>>
  <2>1. CASE mounts = <<>>
    BY <1>3, <2>1 DEF Finish
  <2>2. CASE mounts # <<>>
    <3>1. mounts' = Front(mounts)
      BY <1>3, <2>2 DEF Finish
    <3>2. mounts \in Seq({"p1", "p2"}) /\ Len(mounts) <= 1
      BY DEF TypeOK, MountedAs
    <3>3. Front(mounts) \in Seq({"p1", "p2"}) /\ Len(Front(mounts)) = Len(mounts) - 1
      BY <2>2, <3>2, FrontIsSeq
    <3>4. Len(mounts) \in Nat \ {0}
      BY <2>2, <3>2, EmptySeq
    <3>5. Len(Front(mounts)) = 0
      BY <3>2, <3>3, <3>4
    <3> QED BY <3>1, <3>3, <3>5, EmptySeq
  <2> QED BY <2>1, <2>2
<1>5. Len(mounts') <= 1
  BY <1>4
<1>6. \A r \in Procs : Pc(r)' \notin {"sniff", "tar"}
  BY <1>1, <1>2 DEF Moves, Only, Pc, Running
<1> QED BY <1>4, <1>5, <1>6 DEF MountedAs

\* Every step of a process keeps what is mounted where it belongs.
LEMMA MountsStep ==
    ASSUME TypeOK, Chain, MountedAs, NEW p \in Procs, Run(p)
    PROVE  MountedAs'
<1>1. CASE Prepare(p)
  BY <1>1, Effects, MountsPrepare DEF Prepare, Take, Fork, At
<1>2. ASSUME NEW q \in Procs, Fork(p, q) PROVE MountedAs'
  BY <1>2, Effects, MountsFork
<1>3. CASE Finish(p)
  BY <1>3, Effects, MountsFinish DEF Finish, Take, Fork, At
<1>4. CASE Take(p)
  <2>1. proc' = proc /\ mounts' = mounts /\ \A r \in Procs : tar'[r].cwd = tar[r].cwd
    BY <1>4 DEF Take, TypeOK, Tar
  <2> QED BY <2>1 DEF MountedAs, Pc, Tree
<1>5. CASE NoFork(p) \/ Feed(p) \/ Written(p) \/ BrokenPipe(p) \/ Wait(p) \/ TarDone(p)
           \/ TarFails(p) \/ Reboot(p) \/ GiveUp(p)
  <2>1. Pc(p) \notin {"prepare", "finish"} /\ mounts' = mounts
    BY <1>5 DEF NoFork, Feed, Written, BrokenPipe, Wait, TarDone, TarFails, Reboot, GiveUp, At
  <2>2. \A r \in Procs : tar'[r].cwd = tar[r].cwd
    <3>1. CASE Feed(p)
      <4>1. tar' = tar \/ \E c \in {offset, Junk} : tar' = [tar EXCEPT ![Kid(p)].pipe = <<c>>]
        BY <3>1 DEF Feed, Send, Kid
      <4> QED BY <4>1 DEF TypeOK, Tar
    <3>2. CASE ~Feed(p)
      BY <1>5, <3>2 DEF NoFork, Written, BrokenPipe, Wait, TarDone, TarFails, Reboot, GiveUp
    <3> QED BY <3>1, <3>2
  <2>3. Moves(p) \/ (\E q \in Procs : Fork(p, q)) \/ Take(p)
    BY Effects
  <2> QED BY <1>2, <1>4, <2>1, <2>2, <2>3, QuietMounts
<1> QED BY <1>1, <1>2, <1>3, <1>4, <1>5 DEF Run

\* Every step of a process keeps the offset in the file.
LEMMA InFileStep ==
    ASSUME TypeOK, Chain, Kin, Counted, InFile, NEW p \in Procs, Run(p)
    PROVE  InFile'
<1>1. CASE Prepare(p)
  BY <1>1, Effects, InFilePrepare DEF Prepare, Take, Fork, At
<1>2. ASSUME NEW q \in Procs, Fork(p, q) PROVE InFile'
  BY <1>2, Effects, InFileFork
<1>3. CASE Feed(p)
  BY <1>3, Effects, InFileFeed DEF Feed, Take, Fork, At
<1>4. CASE Take(p)
  BY <1>4, InFileTake
<1>5. CASE NoFork(p) \/ Written(p) \/ BrokenPipe(p) \/ Wait(p) \/ TarDone(p)
           \/ TarFails(p) \/ Finish(p) \/ Reboot(p) \/ GiveUp(p)
  <2>1. Pc(p) \notin {"prepare", "feed"} /\ offset' = offset /\ tar' = tar
    BY <1>5 DEF NoFork, Written, BrokenPipe, Wait, TarDone, TarFails, Finish, Reboot, GiveUp, At
  <2>2. Pc(p) = "writing" /\ Pc(p)' = "feed" => tar[Kid(p)].pipe = <<>>
    <3>1. Pc(p) = "writing" => Written(p) \/ BrokenPipe(p)
      BY <1>5 DEF NoFork, Wait, TarDone, TarFails, Finish, Reboot, GiveUp, At
    <3>2. BrokenPipe(p) => Pc(p)' = "killed"
      BY DEF BrokenPipe, Goto, Pc, TypeOK, Process
    <3> QED BY <3>1, <3>2 DEF Written, Kid
  <2>3. Moves(p) \/ (\E q \in Procs : Fork(p, q)) \/ Take(p)
    BY Effects
  <2> QED BY <1>2, <1>4, <2>1, <2>2, <2>3, InFileMoves
<1> QED BY <1>1, <1>2, <1>3, <1>4, <1>5 DEF Run

-----------------------------------------------------------------------------
(* Without a fault *)

\* Chunks that follow each other from the first on are the beginning of the
\* archive, and all of it if there are as many.
LEMMA WholeContent ==
    ASSUME NEW t \in Trees, NEW s \in Seq(Chunks), Len(s) <= Reads[t],
           \A i \in 1 .. Len(s) : s[i] = First(t) + i - 1
    PROVE  /\ IsPrefix(s, Content(t))
           /\ Len(s) = Reads[t] => s = Content(t)
<1>1. PICK n : n = Reads[t]
  OBVIOUS
<1>2. n \in Nat /\ First(t) \in Nat /\ First(t) >= 1
  BY <1>1, LoadingAssumption DEF First, Trees
<1>3. PICK c : c = Content(t)
  OBVIOUS
<1>4. c = [i \in 1 .. n |-> First(t) + i - 1]
  BY <1>1, <1>3 DEF Content
<1>5. c \in Seq(Nat) /\ Len(c) = n /\ \A i \in 1 .. n : c[i] = First(t) + i - 1
  BY <1>2, <1>4
<1>6. s \in Seq(Nat) /\ Len(s) \in Nat /\ Len(s) <= n
  <2>1. Chunks \subseteq Nat
    BY LoadingAssumption DEF Chunks, FileEnd, Trees
  <2> QED BY <1>1, <2>1, SeqMonotonic, LenProperties
<1>7. PICK m \in Nat : m = Len(s)
  BY <1>6
<1>8. SubSeq(s, 1, m) = s
  BY <1>6, <1>7, SubSeqFull
<1>9. SubSeq(c, 1, m) = s
  <2>1. \A i \in 1 .. m : c[i] \in Nat
    <3>1. \A i \in 1 .. m : i \in 1 .. Len(c)
      BY <1>2, <1>5, <1>6, <1>7
    <3> QED BY <1>5, <3>1, ElementOfSeq
  <2>2. /\ SubSeq(c, 1, m) \in Seq(Nat)
        /\ Len(SubSeq(c, 1, m)) = IF 1 <= m THEN m - 1 + 1 ELSE 0
        /\ \A i \in 1 .. m - 1 + 1 : SubSeq(c, 1, m)[i] = c[1 + i - 1]
    BY <2>1, SubSeqProperties
  <2>3. Len(SubSeq(c, 1, m)) = Len(s)
    BY <1>7, <2>2
  <2>4. \A i \in 1 .. m : SubSeq(c, 1, m)[i] = s[i]
    BY <1>5, <1>6, <1>7, <2>2
  <2> QED BY <1>6, <1>7, <2>2, <2>3, <2>4, SeqEqual
<1>10. IsPrefix(s, c)
  BY <1>5, <1>6, <1>7, <1>8, <1>9 DEF IsPrefix
<1>11. m = n => s = c
  <2> SUFFICES ASSUME m = n PROVE s = c
    OBVIOUS
  <2>1. SubSeq(c, 1, m) = c
    BY <1>5, SubSeqFull
  <2> QED BY <1>9, <2>1
<1> QED BY <1>1, <1>3, <1>7, <1>10, <1>11

\* A process that does not move, and whose tar, if it feeds one, is not touched.
LEMMA FineStays ==
    ASSUME TypeOK, Kin, Chain, NEW r \in Procs, NEW p \in Procs, r # p, Fine(r),
           proc'[r] = proc[r], keep' = keep, unpacked' = unpacked, rebooting => rebooting',
           Pc(r) = "sniff" => offset' = offset /\ mounts' = mounts,
           Pc(r) = "none" => tar'[r] = tar[r],
           Pc(r) \in Feeding => \/ proc'[Kid(r)] = proc[Kid(r)]
                                \/ Kid(r) = p /\ Pc(p) # "tar" /\ Pc(p)' # "tar",
           Pc(r) \in Feeding /\ Pc(Kid(r)) = "tar" =>
                offset' = offset /\ tar'[Kid(r)] = tar[Kid(r)],
           Pc(r) \in Feeding /\ Tree(r) = "homefs" /\ Kid(r) = p =>
                /\ Pc(p)' # "exit"
                /\ Pc(p)' = "ok" => rebooting'
                /\ Pc(p)' = "finish" /\ Tree(p)' = "rootfs" => rebooting'
    PROVE  Fine(r)'
<1>1. Pc(r)' = Pc(r) /\ Tree(r)' = Tree(r) /\ Kid(r)' = Kid(r)
  BY DEF Pc, Tree, Kid
<1>2. /\ Base(Tree(r))' = Base(Tree(r)) /\ First(Tree(r))' = First(Tree(r)) /\ Home(Tree(r))' = Home(Tree(r))
  BY <1>1 DEF Base, Total, First, Home
<1>3. AllDone' = AllDone /\ Before(Tree(r))' = Before(Tree(r)) /\ Done("homefs")' = Done("homefs")
  BY <1>1 DEF AllDone, Wanted, Before, Done, Home
<1>4. Pc(r) \in Feeding => Fed(r)'
  <2> SUFFICES ASSUME Pc(r) \in Feeding PROVE Fed(r)'
    OBVIOUS
  <2>1. Fed(r)
    BY DEF Fine
  <2>2. PICK k \in Procs : k = Kid(r)
    BY DEF Chain
  <2>3. /\ Pc(Kid(r))' = proc'[k].pc /\ Tree(Kid(r))' = proc'[k].tree
        /\ Pc(Kid(r)) = proc[k].pc /\ Tree(Kid(r)) = proc[k].tree
    BY <1>1, <2>2 DEF Pc, Kid, Tree
  <2>4. CASE proc'[k] = proc[k]
    <3>1. Pc(Kid(r))' = Pc(Kid(r)) /\ Tree(Kid(r))' = Tree(Kid(r))
      BY <2>3, <2>4
    <3>2. Pc(Kid(r)) = "tar" => Flow(r)'
      <4>1. Flow(r) /\ Pc(Kid(r)) = "tar" => Flow(r)'
        BY <1>1, <1>2 DEF Flow
      <4> QED BY <2>1, <4>1 DEF Fed
    <3> QED BY <1>1, <2>1, <3>1, <3>2 DEF Fed
  <2>5. CASE Kid(r) = p /\ Pc(p) # "tar" /\ Pc(p)' # "tar"
    <3>1. Pc(Kid(r))' = Pc(p)' /\ Tree(Kid(r))' = Tree(p)' /\ Pc(Kid(r)) = Pc(p)
      BY <2>2, <2>3, <2>5 DEF Pc, Tree
    <3> QED BY <1>1, <2>1, <2>5, <3>1 DEF Fed
  <2> QED BY <2>2, <2>4, <2>5
<1> QED BY <1>1, <1>2, <1>3, <1>4 DEF Fine

\* The parent of a tar.
LEMMA Parent ==
    ASSUME TypeOK, Chain, Kin, NEW q \in Procs, Pc(q) = "tar"
    PROVE  \E p \in Procs : /\ p # q /\ Pc(p) \in Feeding /\ Kid(p) = q /\ Tree(p) = Tree(q)
                            /\ \A r \in Procs : Pc(r) \in Feeding /\ Kid(r) = q => r = p
<1>1. PICK p \in Procs : Pc(p) \in Feeding /\ Kid(p) = q
  BY DEF Kin
<1>2. Tree(p) = Tree(q)
  <2>1. Tree(p) \in Trees /\ Tree(q) \in Trees
    BY DEF Tree, TypeOK, Process
  <2> QED BY <1>1, <2>1 DEF Kin, Trees
<1>3. p # q
  BY <1>1 DEF Feeding
<1> QED BY <1>1, <1>2, <1>3, OneChild

\* Without a fault: mount and lseek.
LEMMA FinePrepare ==
    ASSUME TypeOK, Chain, Kin, Counted, MountedAs, NEW p \in Procs, Prepare(p), Moves(p),
           \A r \in Procs : Fine(r), faults' = 0, faults = 0
    PROVE  (\A r \in Procs : Fine(r))'
<1>1. \A r \in Procs : r # p => proc'[r] = proc[r]
  BY DEF Moves, Only
<1>2. /\ Pc(p) = "prepare" /\ Pc(p)' \in {"sniff", "failed"} /\ Tree(p)' = Tree(p) /\ Tree(p) \in Trees
      /\ keep' = keep /\ tar' = tar /\ unpacked' = unpacked /\ rebooting' = rebooting
  <2>1. Pc(p) = "prepare"
    BY DEF Prepare, At
  <2> QED BY <2>1 DEF Moves, Counts, SameTree, From, Pc, Tree, Prepare, TypeOK, Process
<1>3. SizeRight(p)
  <2>1. proc[p].size_sum = Base(Tree(p))
    BY <1>2 DEF Fine
  <2>2. CASE Tree(p) = "rootfs"
    <3>1. Total - proc[p].size_sum = Reads["rootfs"]
      BY <2>1, <2>2, Bases
    <3> QED BY <3>1 DEF SizeRight
  <2> QED BY <1>2, <2>2 DEF SizeRight, Trees, Tree
<1>4. Pc(p)' = "sniff"
  BY <1>3 DEF Prepare, Goto, Pc, TypeOK, Process
<1>5. mounts' = <<Home(Tree(p))>> /\ offset' = First(Tree(p))
  <2>1. mounts' = Mounted(Tree(p))
    BY LoadingAssumption DEF Prepare, Fault, Tree
  <2>2. mounts = <<>>
    BY <1>2 DEF MountedAs
  <2>3. Mounted(Tree(p)) = <<Home(Tree(p))>>
    BY <2>2 DEF Mounted, Top, Home
  <2> QED BY <2>1, <2>3 DEF Prepare, Tree
<1>6. Fine(p)'
  <2>1. Before(Tree(p))
    BY <1>2 DEF Fine
  <2>2. Before(Tree(p))' = Before(Tree(p))
    BY <1>2 DEF Before, Done, Home
  <2>3. First(Tree(p))' = First(Tree(p)) /\ Home(Tree(p))' = Home(Tree(p))
    BY <1>2 DEF First, Home
  <2> QED BY <1>4, <1>5, <2>1, <2>2, <2>3 DEF Fine, Feeding
<1>7. ASSUME NEW r \in Procs, r # p PROVE Fine(r)'
  <2>1. Pc(r) \notin Running
    BY <1>2, <1>7, Unique DEF Running
  <2>2. Pc(r) \in Feeding => Kid(r) \in Procs
    BY DEF Chain
  <2>3. Pc(r) \in Feeding => Pc(Kid(r)) # "tar"
    <3>1. Pc(r) \in Feeding /\ Kid(r) # p => Pc(Kid(r)) \notin Running
      BY <1>2, <2>2, Unique DEF Running
    <3> QED BY <1>2, <3>1 DEF Running
  <2> QED BY <1>1, <1>2, <1>4, <1>7, <2>1, <2>2, <2>3, FineStays DEF Running
<1> QED BY <1>6, <1>7

\* Without a fault: the child begins with an empty pipe.
LEMMA FineFork ==
    ASSUME TypeOK, Chain, Kin, Counted, NEW p \in Procs, NEW q \in Procs, Fork(p, q), Forks(p, q),
           \A r \in Procs : Fine(r)
    PROVE  (\A r \in Procs : Fine(r))'
<1>1. /\ Pc(p) = "sniff" /\ Pc(p)' = "feed" /\ Tree(p)' = Tree(p) /\ Kid(p)' = q /\ proc'[p].size = 0
      /\ Pc(q) = "none" /\ Pc(q)' = "tar" /\ Tree(q)' = Tree(p) /\ proc'[q].size_sum = proc[p].size_sum
      /\ p # q
  <2>1. proc'[q].pc = "tar" /\ proc'[q].tree = proc[p].tree /\ proc'[q].size_sum = proc[p].size_sum
    BY DEF Forks, TypeOK, Process
  <2> QED BY <2>1 DEF Forks, From, SameTree, Pc, Kid, Tree
<1>2. /\ keep' = keep /\ unpacked' = unpacked /\ offset' = offset /\ mounts' = mounts
      /\ rebooting' = rebooting
      /\ tar'[q].got = tar[q].got /\ tar'[q].pipe = tar[q].pipe /\ tar'[q].cwd = Top
      /\ \A r \in Procs : r # q => tar'[r] = tar[r]
  BY DEF Fork, TypeOK, Tar
<1>3. \A r \in Procs : r # p /\ r # q => proc'[r] = proc[r]
  BY DEF Forks
<1>4. Before(Tree(p)) /\ offset = First(Tree(p)) /\ mounts = <<Home(Tree(p))>>
  BY <1>1 DEF Fine
<1>5. tar[q].got = <<>> /\ tar[q].pipe = <<>>
  BY <1>1 DEF Fine
<1>6. /\ Before(Tree(p))' = Before(Tree(p)) /\ First(Tree(p))' = First(Tree(p))
      /\ Home(Tree(p))' = Home(Tree(p)) /\ Before(Tree(q))' = Before(Tree(p))
  BY <1>1, <1>2 DEF Before, Done, Home, First
<1>7. Fine(q)'
  <2>1. Tree(p) = "homefs" => proc[p].size_sum = 0
    BY <1>1 DEF Counted
  <2> QED BY <1>1, <1>4, <1>6, <2>1 DEF Fine, Feeding
<1>8. Fine(p)'
  <2>1. Top = Home(Tree(p))
    <3>1. mounts # <<>> /\ Last(mounts) = Home(Tree(p))
      BY <1>4 DEF Last
    <3> QED BY <3>1 DEF Top
  <2>2. Flow(p)'
    <3>1. PICK k : k = q
      OBVIOUS
    <3>2. tar'[Kid(p)'] = tar'[q]
      BY <1>1
    <3>3. /\ tar'[q].cwd = Home(Tree(p))' /\ offset' = First(Tree(p))' + proc'[p].size
      <4>1. offset \in Nat
        BY DEF TypeOK
      <4> QED BY <1>1, <1>2, <1>4, <1>6, <2>1, <4>1
    <3>4. Len(tar'[q].got) = 0 /\ Len(tar'[q].pipe) = 0 /\ tar'[q].pipe = <<>>
      BY <1>2, <1>5
    <3> QED BY <1>1, <3>2, <3>3, <3>4 DEF Flow
  <2>3. Pc(Kid(p))' = "tar"
    BY <1>1 DEF Pc, Kid
  <2> QED BY <1>1, <2>2, <2>3 DEF Fine, Fed, Feeding
<1>9. ASSUME NEW r \in Procs, r # p, r # q PROVE Fine(r)'
  <2>1. Pc(r) \notin Running /\ proc'[r] = proc[r]
    BY <1>1, <1>3, <1>9, Unique DEF Running
  <2>2. Pc(r) \in Feeding => Kid(r) \in Procs /\ Kid(r) # q
    BY <1>1 DEF Chain
  <2>3. Pc(r) \in Feeding => Pc(Kid(r)) # "tar"
    <3>1. Pc(r) \in Feeding /\ Kid(r) # p => Pc(Kid(r)) \notin Running
      BY <1>1, <2>2, Unique DEF Running
    <3> QED BY <1>1, <3>1 DEF Running
  <2>4. Pc(r) \in Feeding /\ Kid(r) # p => proc'[Kid(r)] = proc[Kid(r)]
    BY <1>3, <2>2
  <2>5. Pc(r) \in Feeding => \/ proc'[Kid(r)] = proc[Kid(r)]
                             \/ Kid(r) = p /\ Pc(p) # "tar" /\ Pc(p)' # "tar"
    BY <1>1, <2>4
  <2>6. Pc(r) = "sniff" => offset' = offset /\ mounts' = mounts
    BY <1>2
  <2>7. Pc(r) = "none" => tar'[r] = tar[r]
    BY <1>2, <1>9
  <2> QED BY <1>1, <1>2, <1>9, <2>1, <2>3, <2>5, <2>6, <2>7, FineStays
<1> QED BY <1>7, <1>8, <1>9

\* Nobody but p and its child notices what p does while it feeds.
LEMMA FineBeside ==
    ASSUME TypeOK, Chain, Kin, NEW p \in Procs, Moves(p), Pc(p) \in Feeding, Pc(Kid(p)) = "tar",
           Pc(p)' \in Feeding, keep' = keep, unpacked' = unpacked, rebooting' = rebooting,
           mounts' = mounts, \A r \in Procs : r # Kid(p) => tar'[r] = tar[r],
           \A r \in Procs : Fine(r),
           NEW r \in Procs, r # p
    PROVE  Fine(r)'
<1>1. proc'[r] = proc[r]
  BY DEF Moves, Only
<1>2. Kid(p) \in Procs /\ Pc(Kid(p)) \in Running
  BY DEF Chain, Running
<1>3. Pc(r) # "sniff"
  BY <1>2, Unique DEF Running
<1>4. Pc(r) = "none" => tar'[r] = tar[r]
  <2>1. Pc(r) = "none" => r # Kid(p)
    BY <1>2 DEF Running
  <2> QED BY <2>1
<1>5. ASSUME Pc(r) \in Feeding
      PROVE  /\ Pc(Kid(r)) # "tar"
             /\ proc'[Kid(r)] = proc[Kid(r)] \/ (Kid(r) = p /\ Pc(p) # "tar" /\ Pc(p)' # "tar")
  <2>1. Kid(r) \in Procs /\ Kid(r) # Kid(p)
    BY <1>5, OneChild DEF Chain
  <2>2. Pc(Kid(r)) # "tar"
    BY <1>2, <2>1, Unique DEF Running
  <2>3. Kid(r) # p => proc'[Kid(r)] = proc[Kid(r)]
    BY <2>1 DEF Moves, Only
  <2> QED BY <2>2, <2>3 DEF Feeding
<1>6. Pc(p)' \notin {"exit", "ok", "finish"}
  BY DEF Feeding
<1> QED BY <1>1, <1>3, <1>4, <1>5, <1>6, FineStays

\* Without a fault: the chunk read is the next one of the archive.
LEMMA FineFeed ==
    ASSUME TypeOK, Chain, Kin, Counted, NEW p \in Procs, Feed(p), Moves(p),
           \A r \in Procs : Fine(r), faults = 0, faults' = 0
    PROVE  (\A r \in Procs : Fine(r))'
<1>1. Pc(p) = "feed" /\ Pc(p) \in Feeding
  BY DEF Feed, At, Feeding
<1>2. Pc(Kid(p)) = "tar" /\ Flow(p)
  BY <1>1 DEF Fine, Fed
<1>3. /\ Kid(p) \in Procs /\ p # Kid(p) /\ Tree(p)' = Tree(p) /\ Kid(p)' = Kid(p)
      /\ Pc(p)' \in {"writing", "wait"}
      /\ offset' = offset + 1 /\ proc'[p].size = proc[p].size + 1
      /\ tar' = [tar EXCEPT ![Kid(p)].pipe = <<offset>>]
  BY <1>2, FeedFacts DEF Gone
<1>4. /\ keep' = keep /\ unpacked' = unpacked /\ rebooting' = rebooting /\ mounts' = mounts
      /\ Pc(p)' \in Feeding
  BY <1>3 DEF Feed, Feeding
<1>5. \A r \in Procs : r # Kid(p) => tar'[r] = tar[r]
  BY <1>3 DEF TypeOK
<1>6. PICK k \in Procs : k = Kid(p)
  BY <1>3
<1>7. proc'[k] = proc[k] /\ Pc(Kid(p))' = "tar"
  BY <1>2, <1>3, <1>6 DEF Moves, Only, Pc, Kid
<1>8. /\ tar'[k].got = tar[k].got /\ tar'[k].cwd = tar[k].cwd /\ tar'[k].pipe = <<offset>>
      /\ tar[k].got \in Seq(Chunks)
  BY <1>3, <1>6 DEF TypeOK, Tar
<1>9. /\ tar[k].cwd = Home(Tree(p)) /\ offset = First(Tree(p)) + proc[p].size
      /\ Len(tar[k].got) + Len(tar[k].pipe) = proc[p].size
      /\ \A i \in 1 .. Len(tar[k].got) : tar[k].got[i] = First(Tree(p)) + i - 1
      /\ tar[k].pipe = <<>>
  BY <1>1, <1>2, <1>6 DEF Flow
<1>10. First(Tree(p))' = First(Tree(p)) /\ Home(Tree(p))' = Home(Tree(p)) /\ First(Tree(p)) \in Nat
  BY <1>3, Bases DEF First, Home
<1>11. Flow(p)'
  <2>1. proc[p].size \in Nat /\ Len(tar[k].got) \in Nat /\ Len(tar[k].pipe) = 0
    BY <1>8, <1>9 DEF TypeOK, Process
  <2>2. Len(tar'[k].pipe) = 1
    BY <1>8
  <2>3. offset' = First(Tree(p)) + proc'[p].size /\ offset = First(Tree(p)) + proc'[p].size - 1
    <3>1. PICK a, z \in Nat : a = First(Tree(p)) /\ z = proc[p].size
      BY <1>10, <2>1
    <3>2. offset' = offset + 1 /\ offset = a + z /\ proc'[p].size = z + 1
      BY <1>3, <1>9, <3>1
    <3> QED BY <3>1, <3>2
  <2>4. Len(tar'[k].got) + Len(tar'[k].pipe) = proc'[p].size
    <3>1. PICK g, z \in Nat : g = Len(tar[k].got) /\ z = proc[p].size
      BY <2>1
    <3>2. g + 0 = z /\ proc'[p].size = z + 1 /\ Len(tar'[k].got) = g
      BY <1>3, <1>8, <1>9, <2>1, <3>1
    <3> QED BY <2>2, <3>2
  <2>5. tar'[Kid(p)'] = tar'[k]
    BY <1>3, <1>6
  <2>6. Pc(p)' # "feed" /\ tar'[k].pipe = <<First(Tree(p)) + proc'[p].size - 1>>
    BY <1>3, <1>8, <2>3
  <2> QED BY <1>8, <1>9, <1>10, <2>3, <2>4, <2>5, <2>6 DEF Flow
<1>12. Fine(p)'
  BY <1>3, <1>4, <1>7, <1>11 DEF Fine, Fed, Feeding
<1>13. \A r \in Procs : r # p => Fine(r)'
  BY <1>1, <1>2, <1>4, <1>5, FineBeside
<1> QED BY <1>12, <1>13

\* Without a fault: the write returns because tar has taken the chunk.
LEMMA FineWritten ==
    ASSUME TypeOK, Chain, Kin, NEW p \in Procs, Written(p), Moves(p), \A r \in Procs : Fine(r)
    PROVE  (\A r \in Procs : Fine(r))'
<1>1. Pc(p) = "writing" /\ Pc(p) \in Feeding
  BY DEF Written, At, Feeding
<1>2. Pc(Kid(p)) = "tar" /\ Flow(p)
  BY <1>1 DEF Fine, Fed
<1>3. /\ Kid(p) \in Procs /\ Tree(p)' = Tree(p) /\ Kid(p)' = Kid(p) /\ Pc(p)' \in {"wait", "feed"}
      /\ proc'[p].size = proc[p].size
  <2>1. Kid(p) \in Procs
    BY <1>1 DEF Chain
  <2>2. Pc(p)' \in {"wait", "feed", "killed"} /\ proc'[p].size = proc[p].size
    BY <1>1 DEF Moves, Counts, From, SameSizes, Pc
  <2>3. Pc(p)' # "killed"
    <3>1. Goto(p, IF proc[p].size = Reads[proc[p].tree] THEN "wait" ELSE "feed")
      BY DEF Written
    <3> QED BY <3>1 DEF Goto, Pc, TypeOK, Process
  <2> QED BY <1>1, <2>1, <2>2, <2>3 DEF Moves, Counts, SameTree, From, Tree, Kid, Pc
<1>4. /\ keep' = keep /\ unpacked' = unpacked /\ rebooting' = rebooting /\ mounts' = mounts
      /\ offset' = offset /\ tar' = tar /\ Pc(p)' \in Feeding /\ tar[Kid(p)].pipe = <<>>
  BY <1>3 DEF Written, Feeding, Kid
<1>5. PICK k \in Procs : k = Kid(p)
  BY <1>3
<1>6. Pc(Kid(p))' = "tar"
  <2>1. k # p
    BY <1>1, <1>2, <1>5
  <2> QED BY <1>2, <1>3, <1>5, <2>1 DEF Moves, Only, Pc, Kid
<1>7. Flow(p)'
  <2>1. First(Tree(p))' = First(Tree(p)) /\ Home(Tree(p))' = Home(Tree(p))
    BY <1>3 DEF First, Home
  <2> QED BY <1>2, <1>3, <1>4, <2>1 DEF Flow
<1>8. Fine(p)'
  BY <1>4, <1>6, <1>7 DEF Fine, Fed, Feeding
<1>9. \A r \in Procs : r # p => Fine(r)'
  BY <1>1, <1>2, <1>4, FineBeside
<1> QED BY <1>8, <1>9

\* Without a fault: the child that waitpid reports has unpacked everything.
LEMMA FineWait ==
    ASSUME TypeOK, Chain, Kin, NEW p \in Procs, Wait(p), Moves(p), \A r \in Procs : Fine(r)
    PROVE  (\A r \in Procs : Fine(r))'
<1>1. /\ Pc(p) = "wait" /\ Pc(p) \in Feeding /\ Pc(p)' = "finish" /\ Tree(p)' = Tree(p)
      /\ Kid(p) \in Procs /\ Gone(Kid(p)) /\ Tree(p) \in Trees
  <2>1. Pc(p) = "wait" /\ Gone(Kid(p))
    BY DEF Wait, At, Kid
  <2> QED BY <2>1 DEF Feeding, Chain, Moves, Counts, SameTree, From, Pc, Tree, TypeOK, Process
<1>2. /\ keep' = keep /\ unpacked' = unpacked /\ rebooting' = rebooting /\ mounts' = mounts
      /\ offset' = offset /\ tar' = tar
  BY DEF Wait
<1>3. Pc(Kid(p)) = "exit" /\ AllDone /\ rebooting
  BY <1>1 DEF Gone, Fine
<1>4. Tree(p) = "rootfs"
  BY <1>1, <1>3 DEF Fine, Fed, Trees
<1>5. Fine(p)'
  <2>1. AllDone' = AllDone
    BY <1>2 DEF AllDone, Wanted, Done
  <2> QED BY <1>1, <1>3, <1>4, <2>1 DEF Fine, Feeding
<1>6. ASSUME NEW r \in Procs, r # p PROVE Fine(r)'
  <2>1. proc'[r] = proc[r]
    BY <1>6 DEF Moves, Only
  <2>2. Pc(r) \in Feeding => \/ proc'[Kid(r)] = proc[Kid(r)]
                             \/ Kid(r) = p /\ Pc(p) # "tar" /\ Pc(p)' # "tar"
    BY <1>1 DEF Moves, Only, Chain
  <2> QED BY <1>1, <1>2, <1>3, <1>6, <2>1, <2>2, FineStays
<1> QED BY <1>5, <1>6

\* Without a fault: the reboot is asked for by a process that is through.
LEMMA FineReboot ==
    ASSUME TypeOK, Chain, Kin, NEW p \in Procs, Reboot(p), Moves(p), \A r \in Procs : Fine(r)
    PROVE  (\A r \in Procs : Fine(r))'
<1>1. /\ Pc(p) = "ok" /\ Pc(p)' = "exit" /\ ~rebooting /\ rebooting'
  BY DEF Reboot, At, Goto, Pc, TypeOK, Process
<1>2. keep' = keep /\ unpacked' = unpacked /\ mounts' = mounts /\ offset' = offset /\ tar' = tar
  BY DEF Reboot
<1>3. AllDone
  BY <1>1 DEF Fine
<1>4. Fine(p)'
  <2>1. AllDone' = AllDone
    BY <1>2 DEF AllDone, Wanted, Done
  <2> QED BY <1>1, <1>3, <2>1 DEF Fine, Feeding
<1>5. ASSUME NEW r \in Procs, r # p PROVE Fine(r)'
  <2>1. proc'[r] = proc[r]
    BY <1>5 DEF Moves, Only
  <2>2. Pc(r) \in Feeding => \/ proc'[Kid(r)] = proc[Kid(r)]
                             \/ Kid(r) = p /\ Pc(p) # "tar" /\ Pc(p)' # "tar"
    BY <1>1 DEF Moves, Only, Chain
  <2>3. Pc(r) \in Feeding /\ Tree(r) = "homefs" => Kid(r) # p
    BY <1>1 DEF Fine, Fed
  <2> QED BY <1>1, <1>2, <1>5, <2>1, <2>2, <2>3, FineStays
<1> QED BY <1>4, <1>5

\* Without a fault: tar has what it had, and the chunk that was in the pipe.
LEMMA FineTake ==
    ASSUME TypeOK, Chain, Kin, NEW p \in Procs, Take(p), \A r \in Procs : Fine(r)
    PROVE  (\A r \in Procs : Fine(r))'
<1>1. /\ Pc(p) = "tar" /\ tar[p].pipe # <<>> /\ proc' = proc
      /\ keep' = keep /\ unpacked' = unpacked /\ rebooting' = rebooting /\ mounts' = mounts
      /\ offset' = offset
      /\ \A r \in Procs : r # p => tar'[r] = tar[r]
  BY DEF Take, At, TypeOK
<1>2. /\ tar'[p].got = tar[p].got \o tar[p].pipe /\ tar'[p].pipe = <<>> /\ tar'[p].cwd = tar[p].cwd
      /\ tar[p].got \in Seq(Chunks) /\ tar[p].pipe \in Seq(Chunks)
  BY DEF Take, TypeOK, Tar
<1>3. PICK m \in Procs : /\ m # p /\ Pc(m) \in Feeding /\ Kid(m) = p
                         /\ \A r \in Procs : Pc(r) \in Feeding /\ Kid(r) = p => r = m
  BY <1>1, Parent
<1>4. Pc(m)' = Pc(m) /\ Pc(p)' = Pc(p) /\ Tree(m)' = Tree(m) /\ Kid(m)' = p /\ Pc(Kid(m))' = "tar"
  BY <1>1, <1>3 DEF Pc, Tree, Kid
<1>5. /\ tar[p].cwd = Home(Tree(m)) /\ offset = First(Tree(m)) + proc[m].size
      /\ Len(tar[p].got) + Len(tar[p].pipe) = proc[m].size
      /\ \A i \in 1 .. Len(tar[p].got) : tar[p].got[i] = First(Tree(m)) + i - 1
      /\ tar[p].pipe = <<First(Tree(m)) + proc[m].size - 1>>
  <2>1. Pc(Kid(m)) = "tar" /\ Fine(m)
    BY <1>1, <1>3
  <2>2. Flow(m)
    BY <1>3, <2>1 DEF Fine, Fed
  <2> QED BY <1>1, <1>3, <2>2 DEF Flow
<1>6. First(Tree(m))' = First(Tree(m)) /\ Home(Tree(m))' = Home(Tree(m)) /\ First(Tree(m)) \in Nat
  BY <1>4, Bases DEF First, Home
<1>7. Flow(m)'
  <2>1. PICK g \in Nat, a \in Nat, z \in Nat : g = Len(tar[p].got) /\ a = First(Tree(m)) /\ z = proc[m].size
    BY <1>2, <1>6, LenProperties DEF TypeOK, Process
  <2>2. tar[p].pipe = <<a + z - 1>> /\ Len(tar[p].pipe) = 1
    BY <1>5, <2>1
  <2>3. z = g + 1
    BY <1>5, <2>1, <2>2
  <2>4. /\ Len(tar'[p].got) = g + 1
        /\ \A i \in 1 .. g + 1 : tar'[p].got[i] = IF i <= g THEN tar[p].got[i] ELSE tar[p].pipe[i - g]
    BY <1>2, <2>1, <2>2, ConcatProperties
  <2>5. tar[p].pipe[1] = a + g
    BY <2>2, <2>3
  <2>6. \A i \in 1 .. g + 1 : tar'[p].got[i] = a + i - 1
    <3> SUFFICES ASSUME NEW i \in 1 .. g + 1 PROVE tar'[p].got[i] = a + i - 1
      OBVIOUS
    <3>1. CASE i <= g
      BY <1>5, <2>1, <2>4, <3>1
    <3>2. CASE i = g + 1
      <4>1. tar'[p].got[i] = tar[p].pipe[1]
        BY <2>4, <3>2
      <4> QED BY <2>5, <3>2, <4>1
    <3> QED BY <3>1, <3>2
  <2>7. Len(tar'[p].pipe) = 0 /\ tar'[p].pipe = <<>>
    BY <1>2
  <2>8. proc'[m].size = z
    BY <1>1, <2>1
  <2>9. Len(tar'[p].got) + Len(tar'[p].pipe) = z
    BY <2>3, <2>4, <2>7
  <2> QED BY <1>1, <1>2, <1>4, <1>5, <1>6, <2>1, <2>4, <2>6, <2>7, <2>8, <2>9 DEF Flow
<1>8. AllDone' = AllDone /\ \A r \in Procs : Before(Tree(r))' = Before(Tree(r)) /\ Done("homefs")' = Done("homefs")
  BY <1>1 DEF AllDone, Wanted, Before, Done, Home, Tree
<1>9. ASSUME NEW r \in Procs PROVE Fine(r)'
  <2>1. Pc(r)' = Pc(r) /\ Tree(r)' = Tree(r) /\ Kid(r)' = Kid(r) /\ Base(Tree(r))' = Base(Tree(r))
        /\ First(Tree(r))' = First(Tree(r)) /\ Home(Tree(r))' = Home(Tree(r))
    BY <1>1 DEF Pc, Tree, Kid, Base, Total, First, Home
  <2>2. Pc(r) = "none" => tar'[r] = tar[r]
    BY <1>1
  <2>3. Pc(r) \in Feeding => Fed(r)'
    <3> SUFFICES ASSUME Pc(r) \in Feeding PROVE Fed(r)'
      OBVIOUS
    <3>1. Fed(r) /\ Kid(r) \in Procs
      BY DEF Fine, Chain
    <3>2. Pc(Kid(r))' = Pc(Kid(r)) /\ Tree(Kid(r))' = Tree(Kid(r))
      BY <1>1 DEF Pc, Kid, Tree
    <3>3. Pc(Kid(r)) = "tar" => Flow(r)'
      <4>1. CASE r = m
        BY <1>7, <4>1
      <4>2. CASE r # m
        <5>1. tar'[Kid(r)] = tar[Kid(r)]
          BY <1>1, <1>3, <3>1, <4>2
        <5>2. Flow(r) => Flow(r)'
          BY <1>1, <2>1, <5>1 DEF Flow
        <5> QED BY <3>1, <5>2 DEF Fed
      <4> QED BY <4>1, <4>2
    <3> QED BY <1>1, <2>1, <3>1, <3>2, <3>3 DEF Fed
  <2> QED BY <1>1, <1>8, <2>1, <2>2, <2>3 DEF Fine
<1> QED BY <1>9

\* While something is to be unpacked, nothing has been said and nobody is gone.
LEMMA NothingSaid ==
    ASSUME TypeOK, NEW p \in Procs, Pc(p) \in {"prepare", "sniff", "tar"}, Fine(p)
    PROVE  ~AllDone
<1>1. unpacked["rootfs"] = {}
  BY DEF Fine, Before
<1>2. "rootfs" \in Wanted
  BY DEF Wanted, Trees
<1> QED BY <1>1, <1>2 DEF AllDone, Done

\* Without a fault: the tree is unpacked for the first time, on its partition.
LEMMA FineTarDone ==
    ASSUME TypeOK, Chain, Kin, Counted, NEW p \in Procs, TarDone(p), Moves(p), \A r \in Procs : Fine(r)
    PROVE  (\A r \in Procs : Fine(r))'
<1>1. /\ Pc(p) = "tar" /\ Pc(p)' = "finish" /\ Tree(p)' = Tree(p) /\ Tree(p) \in Trees
      /\ proc'[p].size_sum = proc[p].size_sum
  <2>1. Pc(p) = "tar"
    BY DEF TarDone, At
  <2> QED BY <2>1 DEF Moves, Counts, SameTree, SameSizes, From, Pc, Tree, TypeOK, Process
<1>2. /\ keep' = keep /\ rebooting' = rebooting /\ mounts' = mounts /\ offset' = offset /\ tar' = tar
      /\ unpacked' = [unpacked EXCEPT ![Tree(p)] = @ \union {<<p, tar[p].cwd>>}]
  BY DEF TarDone, Tree
<1>3. PICK m \in Procs : /\ m # p /\ Pc(m) \in Feeding /\ Kid(m) = p /\ Tree(m) = Tree(p)
                         /\ \A r \in Procs : Pc(r) \in Feeding /\ Kid(r) = p => r = m
  BY <1>1, Parent
<1>4. Pc(m) = "wait" /\ tar[p].cwd = Home(Tree(p))
  <2>1. Pc(m) \notin {"feed", "writing"}
    BY <1>3 DEF TarDone, Eof, Kid
  <2>2. Pc(Kid(m)) = "tar" /\ Fine(m)
    BY <1>1, <1>3
  <2>3. Flow(m)
    BY <1>3, <2>2 DEF Fine, Fed
  <2> QED BY <1>3, <2>1, <2>3 DEF Feeding, Flow
<1>5. Before(Tree(p)) /\ ~AllDone
  BY <1>1, NothingSaid DEF Fine
<1>6. unpacked'[Tree(p)] = {<<p, Home(Tree(p))>>}
  <2>1. unpacked[Tree(p)] = {}
    BY <1>1, <1>5 DEF Before, Trees
  <2> QED BY <1>1, <1>2, <1>4, <2>1 DEF TypeOK
<1>8. Fine(p)'
  <2>1. CASE Tree(p) = "homefs"
    <3>1. unpacked'["rootfs"] = {}
      BY <1>2, <1>5, <2>1 DEF Before, TypeOK, Trees
    <3>2. Done("homefs")'
      BY <1>6, <2>1 DEF Done, Home
    <3>3. proc[p].size_sum = 0
      BY <1>1, <2>1 DEF Fine
    <3> QED BY <1>1, <2>1, <3>1, <3>2, <3>3 DEF Fine, Feeding
  <2>2. CASE Tree(p) = "rootfs"
    <3>1. ~keep => unpacked'["homefs"] = unpacked["homefs"] /\ Done("homefs")
      BY <1>2, <1>5, <2>2 DEF Before, TypeOK, Trees
    <3>2. ~keep => Done("homefs")'
      BY <3>1 DEF Done, Home
    <3>3. Done("rootfs")'
      BY <1>6, <2>2 DEF Done, Home
    <3>4. AllDone'
      BY <1>2, <3>2, <3>3 DEF AllDone, Wanted, Trees
    <3> QED BY <1>1, <2>2, <3>4 DEF Fine, Feeding
  <2> QED BY <1>1, <2>1, <2>2 DEF Trees
<1>9. ASSUME NEW r \in Procs, r # p PROVE Fine(r)'
  <2>1. Pc(r)' = Pc(r) /\ Tree(r)' = Tree(r) /\ Kid(r)' = Kid(r)
    BY <1>9 DEF Moves, Only, Pc, Tree, Kid
  <2>2. Pc(r) \in {"none", "killed"} \union Feeding
    <3>1. Pc(r) \notin Running
      BY <1>1, <1>9, Unique DEF Running
    <3>2. Pc(r) # "exit"
      BY <1>5 DEF Fine
    <3>3. Pc(r) \in Pcs
      BY DEF TypeOK, Process, Pc
    <3> QED BY <3>1, <3>2, <3>3 DEF Running, Pcs, Feeding
  <2>3. Pc(r) = "none" => tar'[r].got = <<>> /\ tar'[r].pipe = <<>>
    BY <1>2 DEF Fine
  <2>4. Pc(r) \in Feeding => Fed(r)'
    <3> SUFFICES ASSUME Pc(r) \in Feeding PROVE Fed(r)'
      OBVIOUS
    <3>1. PICK k \in Procs : k = Kid(r)
      BY DEF Chain
    <3>2. CASE k = p
      <4>1. r = m
        BY <1>3, <3>1, <3>2
      <4>2. Pc(Kid(r))' = "finish" /\ Tree(Kid(r))' = Tree(r)
        BY <1>1, <1>3, <2>1, <3>1, <3>2, <4>1 DEF Pc, Kid, Tree
      <4> QED BY <1>4, <2>1, <4>1, <4>2 DEF Fed
    <3>3. CASE k # p
      <4>1. Pc(Kid(r))' = Pc(Kid(r)) /\ Tree(Kid(r))' = Tree(Kid(r))
        BY <2>1, <3>1, <3>3 DEF Moves, Only, Pc, Kid, Tree
      <4>2. Pc(Kid(r)) # "tar"
        BY <1>1, <3>1, <3>3, Unique DEF Running
      <4>3. Fed(r)
        BY DEF Fine
      <4> QED BY <1>2, <2>1, <4>1, <4>2, <4>3 DEF Fed
    <3> QED BY <3>2, <3>3
  <2>5. Pc(r) # "killed"
    BY DEF Fine
  <2> QED BY <2>1, <2>2, <2>3, <2>4, <2>5 DEF Fine, Feeding
<1> QED BY <1>8, <1>9

\* Without a fault: on to rootfs with the sum that main expects, or "Upgrade OK".
LEMMA FineFinish ==
    ASSUME TypeOK, Chain, Kin, NEW p \in Procs, Finish(p), Moves(p), \A r \in Procs : Fine(r)
    PROVE  (\A r \in Procs : Fine(r))' /\ (shown' # shown => AllDone)
<1>1. Pc(p) = "finish" /\ Tree(p) \in Trees
  BY DEF Finish, At, Tree, TypeOK, Process
<1>2. keep' = keep /\ unpacked' = unpacked /\ rebooting' = rebooting /\ offset' = offset /\ tar' = tar
  BY DEF Finish
<1>3. AllDone' = AllDone /\ Done("homefs")' = Done("homefs")
  BY <1>2 DEF AllDone, Wanted, Done, Home
<1>4. /\ Tree(p) = "homefs" => /\ Pc(p)' = "prepare" /\ Tree(p)' = "rootfs" /\ shown' = shown
                               /\ proc'[p].size_sum = IF proc[p].size_sum = 0 THEN Reads["homefs"] ELSE proc[p].size_sum
      /\ Tree(p) = "rootfs" => Pc(p)' = "ok" /\ Tree(p)' = "rootfs"
  <2>1. CASE Tree(p) = "homefs"
    <3>1. proc' = [proc EXCEPT ![p].pc = "prepare", ![p].tree = "rootfs",
                     ![p].size_sum = IF @ = 0 THEN Reads["homefs"] ELSE @] /\ shown' = shown
      BY <2>1 DEF Finish, Tree
    <3> QED BY <2>1, <3>1 DEF Pc, Tree, TypeOK, Process
  <2>2. CASE Tree(p) = "rootfs"
    <3>1. Goto(p, "ok")
      BY <2>2 DEF Finish, Tree
    <3> QED BY <2>2, <3>1 DEF Goto, Pc, Tree, TypeOK, Process
  <2> QED BY <2>1, <2>2
<1>5. Fine(p)'
  <2>1. CASE Tree(p) = "homefs"
    <3>1. unpacked["rootfs"] = {} /\ Done("homefs") /\ proc[p].size_sum = 0 /\ ~keep
      BY <1>1, <2>1 DEF Fine, Kin
    <3>2. Base("rootfs") = Reads["homefs"] /\ Base(Tree(p))' = Base("rootfs")
      <4>1. Total = FileEnd /\ Total' = Total
        BY <1>2, <3>1 DEF Total
      <4>2. Base("rootfs") = Total - Reads["rootfs"] /\ Base(Tree(p))' = Total' - Reads["rootfs"]
        BY <1>4, <2>1 DEF Base
      <4> QED BY <4>1, <4>2, Bases
    <3>3. Before(Tree(p))'
      BY <1>2, <1>3, <1>4, <2>1, <3>1 DEF Before
    <3> QED BY <1>4, <2>1, <3>1, <3>2, <3>3 DEF Fine, Feeding
  <2>2. CASE Tree(p) = "rootfs"
    BY <1>1, <1>3, <1>4, <2>2 DEF Fine, Feeding
  <2> QED BY <1>1, <2>1, <2>2 DEF Trees
<1>6. ASSUME NEW r \in Procs, r # p PROVE Fine(r)'
  <2>1. proc'[r] = proc[r] /\ Pc(r) \notin Running
    BY <1>1, <1>6, Unique DEF Moves, Only, Running
  <2>2. ASSUME Pc(r) \in Feeding
        PROVE  /\ Pc(Kid(r)) # "tar"
               /\ \/ proc'[Kid(r)] = proc[Kid(r)]
                  \/ Kid(r) = p /\ Pc(p) # "tar" /\ Pc(p)' # "tar"
               /\ Tree(r) = "homefs" /\ Kid(r) = p =>
                    /\ Pc(p)' # "exit"
                    /\ Pc(p)' = "ok" => rebooting'
                    /\ Pc(p)' = "finish" /\ Tree(p)' = "rootfs" => rebooting'
    <3>1. Kid(r) \in Procs /\ Fed(r)
      BY <2>2 DEF Chain, Fine
    <3>2. Pc(Kid(r)) # "tar"
      BY <1>1, <3>1, Unique DEF Running
    <3>3. Kid(r) # p => proc'[Kid(r)] = proc[Kid(r)]
      BY <3>1 DEF Moves, Only
    <3>4. Pc(p)' \in {"prepare", "ok"}
      BY <1>1, <1>4 DEF Trees
    <3>5. Pc(p)' = "ok" /\ Tree(r) = "homefs" /\ Kid(r) = p => rebooting'
      BY <1>1, <1>2, <1>4, <3>1 DEF Fed, Trees
    <3> QED BY <1>1, <3>2, <3>3, <3>4, <3>5
  <2>3. Pc(r) # "sniff"
    BY <2>1 DEF Running
  <2> QED BY <1>2, <1>6, <2>1, <2>2, <2>3, FineStays
<1>7. shown' # shown => AllDone
  BY <1>1, <1>4 DEF Fine, Trees
<1> QED BY <1>5, <1>6, <1>7

\* The steps that take a fault are not taken.
LEMMA NoFailure ==
    ASSUME TypeOK, Chain, Kin, Counted, NEW p \in Procs, \A r \in Procs : Fine(r),
           faults = 0, faults' = 0
    PROVE  ~NoFork(p) /\ ~BrokenPipe(p) /\ ~TarFails(p) /\ ~GiveUp(p)
<1>0. ~Fault
  BY DEF Fault
<1>1. ~NoFork(p)
  <2> SUFFICES ASSUME NoFork(p) PROVE FALSE
    OBVIOUS
  <2>1. Pc(p) = "sniff" /\ ~Archive
    BY <1>0 DEF NoFork, At
  <2>2. offset = First(Tree(p)) /\ Tree(p) \in Trees
    BY <2>1 DEF Fine, Tree, TypeOK, Process
  <2> QED BY <2>1, <2>2 DEF Archive
<1>2. ~BrokenPipe(p)
  <2> SUFFICES ASSUME BrokenPipe(p) PROVE FALSE
    OBVIOUS
  <2>1. Pc(p) = "writing" /\ Gone(Kid(p))
    BY DEF BrokenPipe, At, Kid
  <2> QED BY <2>1 DEF Fine, Fed, Feeding, Gone
<1>3. ~TarFails(p)
  <2> SUFFICES ASSUME TarFails(p) PROVE FALSE
    OBVIOUS
  <2>1. Pc(p) = "tar" /\ (Wrong(p) \/ (Eof(p) /\ tar[p].got # Content(proc[p].tree)))
    BY <1>0 DEF TarFails, At
  <2>2. PICK m \in Procs : Pc(m) \in Feeding /\ Kid(m) = p /\ Tree(m) = Tree(p)
    BY <2>1, Parent
  <2>3. Pc(Kid(m)) = "tar" /\ Fine(m)
    BY <2>1, <2>2
  <2>4. Flow(m)
    BY <2>2, <2>3 DEF Fine, Fed
  <2>5. /\ Len(tar[p].got) + Len(tar[p].pipe) = proc[m].size
        /\ \A i \in 1 .. Len(tar[p].got) : tar[p].got[i] = First(Tree(p)) + i - 1
    BY <2>2, <2>4 DEF Flow
  <2>6. tar[p].got \in Seq(Chunks) /\ tar[p].pipe \in Seq(Chunks) /\ Tree(p) \in Trees /\ proc[m].size \in Nat
    BY DEF TypeOK, Tar, Tree, Process
  <2>7. proc[m].size <= Reads[Tree(p)] /\ (Pc(m) = "wait" => proc[m].size = Reads[Tree(p)])
    BY <2>2 DEF Counted
  <2>8. Len(tar[p].got) \in Nat /\ Len(tar[p].pipe) \in Nat /\ Reads[Tree(p)] \in Nat
    BY <2>6, LenProperties, LoadingAssumption
  <2>9. Len(tar[p].got) <= Reads[Tree(p)]
    <3>1. PICK g \in Nat, h \in Nat, z \in Nat, n \in Nat :
            g = Len(tar[p].got) /\ h = Len(tar[p].pipe) /\ z = proc[m].size /\ n = Reads[Tree(p)]
      BY <2>6, <2>8
    <3>2. g + h = z /\ z <= n
      BY <2>5, <2>7, <3>1
    <3>3. g <= n
      BY <3>2
    <3> QED BY <3>1, <3>3, Zenon
  <2>10. /\ IsPrefix(tar[p].got, Content(Tree(p)))
         /\ Len(tar[p].got) = Reads[Tree(p)] => tar[p].got = Content(Tree(p))
    BY <2>5, <2>6, <2>9, WholeContent
  <2>11. ~Wrong(p)
    BY <2>10 DEF Wrong, Tree
  <2>12. Eof(p) => tar[p].got = Content(Tree(p))
    <3> SUFFICES ASSUME Eof(p) PROVE tar[p].got = Content(Tree(p))
      OBVIOUS
    <3>1. Pc(m) = "wait" /\ tar[p].pipe = <<>>
      BY <2>2 DEF Eof, Feeding, Kid
    <3>2. Len(tar[p].pipe) = 0
      BY <3>1
    <3> QED BY <2>5, <2>6, <2>7, <2>8, <2>10, <3>1, <3>2
  <2> QED BY <2>1, <2>11, <2>12 DEF Tree
<1>4. ~GiveUp(p)
  BY DEF GiveUp, At, Fine
<1> QED BY <1>1, <1>2, <1>3, <1>4

\* Every step of a process keeps Unbroken.
LEMMA UnbrokenStep ==
    ASSUME TypeOK, Chain, Kin, Counted, MountedAs, Unbroken, NEW p \in Procs, Run(p)
    PROVE  Unbroken'
<1> SUFFICES ASSUME faults' = 0
             PROVE  /\ (\A r \in Procs : Fine(r))'
                    /\ shown' \subseteq {"ok"}
                    /\ shown' # {} => AllDone'
  BY DEF Unbroken
<1>1. faults = 0
  <2>1. faults' = faults \/ faults' = faults + 1
    BY DEF Run, Prepare, NoFork, Fork, Feed, Written, BrokenPipe, Wait, Take, TarDone, TarFails,
           Finish, Reboot, GiveUp, Fault, NoFault
  <2> QED BY <2>1, LoadingAssumption DEF TypeOK
<1>2. (\A r \in Procs : Fine(r)) /\ shown \subseteq {"ok"} /\ (shown # {} => AllDone)
  BY <1>1 DEF Unbroken
<1>3. ~NoFork(p) /\ ~BrokenPipe(p) /\ ~TarFails(p) /\ ~GiveUp(p)
  BY <1>1, <1>2, NoFailure
<1>4. Moves(p) \/ Take(p) \/ \E q \in Procs : Fork(p, q) /\ Forks(p, q)
  BY Effects
<1>5. CASE Prepare(p)
  <2>1. Moves(p)
    BY <1>4, <1>5 DEF Prepare, Take, Fork, At
  <2> QED BY <1>1, <1>2, <1>5, <2>1, FinePrepare DEF Prepare, AllDone, Wanted, Done
<1>6. ASSUME NEW q \in Procs, Fork(p, q)
      PROVE  /\ (\A r \in Procs : Fine(r))'
             /\ shown' \subseteq {"ok"}
             /\ shown' # {} => AllDone'
  <2>1. Forks(p, q)
    BY <1>6, Effects
  <2>2. (\A r \in Procs : Fine(r))'
    BY <1>1, <1>2, <1>6, <2>1, FineFork
  <2>3. shown' = shown /\ AllDone' = AllDone
    BY <1>6 DEF Fork, AllDone, Wanted, Done
  <2> QED BY <1>2, <2>2, <2>3
<1>7. CASE Feed(p)
  <2>1. Moves(p)
    BY <1>4, <1>7 DEF Feed, Take, Fork, At
  <2>2. (\A r \in Procs : Fine(r))'
    BY <1>1, <1>2, <1>7, <2>1, FineFeed
  <2>3. shown' = shown /\ AllDone' = AllDone
    BY <1>7 DEF Feed, AllDone, Wanted, Done
  <2> QED BY <1>2, <2>2, <2>3
<1>8. CASE Written(p)
  <2>1. Moves(p)
    BY <1>4, <1>8 DEF Written, Take, Fork, At
  <2> QED BY <1>2, <1>8, <2>1, FineWritten DEF Written, AllDone, Wanted, Done
<1>9. CASE Wait(p)
  <2>1. Moves(p)
    BY <1>4, <1>9 DEF Wait, Take, Fork, At
  <2> QED BY <1>2, <1>9, <2>1, FineWait DEF Wait, AllDone, Wanted, Done
<1>10. CASE Take(p)
  BY <1>2, <1>10, FineTake DEF Take, AllDone, Wanted, Done
<1>11. CASE TarDone(p)
  <2>1. Moves(p)
    <3>1. Pc(p) = "tar" /\ Pc(p)' = "finish" /\ proc' # proc
      BY <1>11 DEF TarDone, At, Goto, Pc, TypeOK, Process
    <3> QED BY <1>4, <1>11, <3>1 DEF Take, Fork, At
  <2>2. shown = {} /\ shown' = {}
    <3>1. Pc(p) = "tar"
      BY <1>11 DEF TarDone, At
    <3> QED BY <1>2, <1>11, <3>1, NothingSaid DEF TarDone
  <2> QED BY <1>2, <1>11, <2>1, <2>2, FineTarDone
<1>12. CASE Finish(p)
  <2>1. Moves(p)
    BY <1>4, <1>12 DEF Finish, Take, Fork, At
  <2>2. AllDone' = AllDone
    BY <1>12 DEF Finish, AllDone, Wanted, Done
  <2>3. shown' = shown \/ shown' = shown \union {"ok"}
    BY <1>12 DEF Finish
  <2> QED BY <1>2, <1>12, <2>1, <2>2, <2>3, FineFinish
<1>13. CASE Reboot(p)
  <2>1. Moves(p)
    BY <1>4, <1>13 DEF Reboot, Take, Fork, At
  <2> QED BY <1>2, <1>13, <2>1, FineReboot DEF Reboot, AllDone, Wanted, Done
<1>14. \/ Prepare(p) \/ Feed(p) \/ Written(p) \/ Wait(p) \/ Take(p) \/ TarDone(p) \/ Finish(p)
      \/ Reboot(p) \/ \E q \in Procs : Fork(p, q)
  BY <1>3 DEF Run
<1> QED BY <1>5, <1>6, <1>7, <1>8, <1>9, <1>10, <1>11, <1>12, <1>13, <1>14

-----------------------------------------------------------------------------
(* The invariant *)

IInv == TypeOK /\ Chain /\ Kin /\ Counted /\ InFile /\ MountedAs /\ Unbroken

\* The installer starts with one process and nothing unpacked.
LEMMA Starts == Init => IInv
<1> SUFFICES ASSUME Init PROVE IInv
  OBVIOUS
<1>0. 1 \in Procs /\ Procs \subseteq Nat
  BY LoadingAssumption DEF Procs
<1>1. \A p \in Procs : /\ Pc(p) = IF p = 1 THEN "prepare" ELSE "none"
                       /\ Tree(p) = IF keep THEN "rootfs" ELSE "homefs"
                       /\ proc[p].size_sum = 0 /\ proc[p].size = 0 /\ Kid(p) = NoOne
                       /\ tar[p].got = <<>> /\ tar[p].pipe = <<>> /\ tar[p].cwd = "ram"
  BY DEF Init, Pc, Tree, Kid
<1>2. 0 \in 0 .. FileEnd /\ 1 \in 1 .. FileEnd + 1
  BY LoadingAssumption DEF FileEnd, Trees
<1>3. TypeOK
  <2>1. proc \in [Procs -> Process]
    BY <1>2 DEF Init, Process, Pcs, Trees
  <2>2. tar \in [Procs -> Tar]
    BY DEF Init, Tar, Places
  <2>3. \A q \in Procs : Len(tar[q].pipe) <= 1
    BY <1>1
  <2>4. unpacked \in [Trees -> SUBSET (Procs \X Places)]
    BY DEF Init
  <2>5. mounts \in Seq({"p1", "p2"}) /\ faults \in 0 .. MaxFaults
    BY LoadingAssumption DEF Init
  <2> QED BY <1>2, <2>1, <2>2, <2>3, <2>4, <2>5 DEF Init, TypeOK
<1>4. Chain
  <2>1. \A p \in Procs : Pc(p) # "none" => p = 1
    BY <1>1
  <2>2. \A p \in Procs : 1 <= p /\ Pc(p) \notin Feeding
    BY <1>1 DEF Feeding, Procs
  <2>3. \A p, r \in Procs : p < r => Pc(r) = "none"
    BY <1>0, <2>1, <2>2
  <2> QED BY <2>2, <2>3 DEF Chain, Alive, Dead
<1>5. Kin
  BY <1>1 DEF Kin, Feeding
<1>6. Counted
  BY <1>1 DEF Counted, Feeding
<1>7. InFile
  BY <1>1 DEF InFile, Feeding
<1>8. MountedAs
  <2>1. mounts = <<>> /\ Len(mounts) <= 1
    BY DEF Init
  <2> QED BY <1>1, <2>1 DEF MountedAs
<1>9. Unbroken
  <2>1. unpacked["rootfs"] = {} /\ unpacked["homefs"] = {}
    BY DEF Init, Trees
  <2>2. keep => Base("rootfs") = 0
    <3>1. keep => Total = Reads["rootfs"]
      BY DEF Total
    <3> QED BY <1>3, <3>1, Bases DEF Base
  <2>3. \A p \in Procs : Fine(p)
    <3> SUFFICES ASSUME NEW p \in Procs PROVE Fine(p)
      OBVIOUS
    <3>1. CASE p = 1
      <4>1. Pc(p) = "prepare" /\ proc[p].size_sum = 0 /\ (Tree(p) = "homefs" \/ (keep /\ Tree(p) = "rootfs"))
        BY <1>1, <3>1
      <4>2. Before(Tree(p)) /\ Base(Tree(p)) = 0
        BY <2>1, <2>2, <4>1 DEF Before, Base
      <4> QED BY <4>1, <4>2 DEF Fine, Feeding
    <3>2. CASE p # 1
      BY <1>1, <3>2 DEF Fine, Feeding
    <3> QED BY <3>1, <3>2
  <2> QED BY <2>3 DEF Unbroken, Init
<1> QED BY <1>3, <1>4, <1>5, <1>6, <1>7, <1>8, <1>9 DEF IInv

\* The three parts about labels, trees and sizes, for any step of a process.
LEMMA ControlStep ==
    ASSUME TypeOK, Chain, Kin, Counted, NEW p \in Procs, Run(p)
    PROVE  Chain' /\ Kin' /\ Counted'
<1>1. keep' = keep
  BY DEF Run, Prepare, NoFork, Fork, Feed, Written, BrokenPipe, Wait, Take, TarDone, TarFails,
         Finish, Reboot, GiveUp
<1>2. CASE Moves(p)
  BY <1>1, <1>2, ChainMoves, KinMoves, CountedMoves
<1>3. ASSUME NEW q \in Procs, Fork(p, q) PROVE Chain' /\ Kin' /\ Counted'
  <2>1. Forks(p, q)
    BY <1>3, Effects
  <2> QED BY <1>1, <2>1, ChainForks, KinForks, CountedForks
<1>4. CASE Take(p)
  <2>1. proc' = proc
    BY <1>4 DEF Take
  <2> QED BY <1>1, <2>1 DEF Chain, Kin, Counted, Pc, Tree, Kid, Alive, Base, Total
<1> QED BY <1>2, <1>3, <1>4, Effects

\* The reboot itself, and steps that change nothing.
LEMMA Unmoved ==
    ASSUME IInv, Halt \/ UNCHANGED vars
    PROVE  IInv'
<1>1. /\ keep' = keep /\ proc' = proc /\ tar' = tar /\ offset' = offset /\ mounts' = mounts
      /\ unpacked' = unpacked /\ shown' = shown /\ rebooting' = rebooting /\ faults' = faults
      /\ halted' \in {halted, TRUE}
  BY DEF Halt, vars
<1>2. TypeOK'
  <2>1. halted' \in BOOLEAN
    BY <1>1 DEF IInv, TypeOK
  <2> QED BY <1>1, <2>1 DEF IInv, TypeOK
<1>3. Chain' /\ Kin' /\ Counted'
  BY <1>1 DEF IInv, Chain, Kin, Counted, Pc, Tree, Kid, Alive, Base, Total
<1>4. InFile' /\ MountedAs'
  BY <1>1 DEF IInv, InFile, MountedAs, Pc, Tree, Kid, CanRead, Given
<1>5. Unbroken'
  <2>1. ASSUME NEW p \in Procs
        PROVE  /\ Pc(p)' = Pc(p) /\ Tree(p)' = Tree(p) /\ Kid(p)' = Kid(p)
               /\ Pc(Kid(p))' = Pc(Kid(p)) /\ Tree(Kid(p))' = Tree(Kid(p))
    BY <1>1 DEF Pc, Tree, Kid
  <2>2. AllDone' = AllDone /\ Done("homefs")' = Done("homefs")
    BY <1>1 DEF AllDone, Done, Wanted, Home
  <2>3. ASSUME NEW p \in Procs
        PROVE  /\ Before(Tree(p))' = Before(Tree(p)) /\ Base(Tree(p))' = Base(Tree(p))
               /\ First(Tree(p))' = First(Tree(p)) /\ Home(Tree(p))' = Home(Tree(p))
    BY <1>1, <2>1, <2>2 DEF Before, Base, Total, First, Home
  <2>4. ASSUME NEW p \in Procs PROVE Flow(p)' = Flow(p)
    BY <1>1, <2>1, <2>3 DEF Flow
  <2>5. ASSUME NEW p \in Procs PROVE Fed(p)' = Fed(p)
    BY <1>1, <2>1, <2>4 DEF Fed
  <2>6. ASSUME NEW p \in Procs, Fine(p) PROVE Fine(p)'
    BY <1>1, <2>1, <2>2, <2>3, <2>5, <2>6 DEF Fine
  <2> QED BY <1>1, <2>2, <2>6 DEF IInv, Unbroken
<1> QED BY <1>2, <1>3, <1>4, <1>5 DEF IInv

\* IInv is kept by every step.
LEMMA Inductive == IInv /\ [Next]_vars => IInv'
<1> SUFFICES ASSUME IInv, [Next]_vars PROVE IInv'
  OBVIOUS
<1>1. ASSUME NEW p \in Procs, Run(p) PROVE IInv'
  <2>1. TypeOK /\ Chain /\ Kin /\ Counted /\ InFile /\ MountedAs /\ Unbroken
    BY DEF IInv
  <2>2. TypeOK'
    BY <1>1, <2>1, TypeStep
  <2>3. Chain' /\ Kin' /\ Counted'
    BY <1>1, <2>1, ControlStep
  <2>4. InFile' /\ MountedAs' /\ Unbroken'
    BY <1>1, <2>1, InFileStep, MountsStep, UnbrokenStep
  <2> QED BY <2>2, <2>3, <2>4 DEF IInv
<1> QED BY <1>1, Unmoved DEF Next

\* upgrade.c: every variable of the processes, the pipes and the mounts keeps
\* its type; in particular no read goes beyond the end of the firmware file,
\* also when a child that went on while its parent still feeds it has moved
\* the file offset the two share.
THEOREM TypeCorrect == Spec => []TypeOK
<1>1. IInv => TypeOK
  BY DEF IInv
<1> QED BY <1>1, Starts, Inductive, PTL DEF Spec

\* upgrade.c:413, 631, 650: no two tars ever run at once, and the one that runs
\* writes to the partition of its tree or, if that could not be mounted, below.
THEOREM OneTarAtATime == Spec => []TarsApart
<1>1. IInv => TarsApart
  <2> SUFFICES ASSUME IInv PROVE TarsApart
    OBVIOUS
  <2>1. Chain /\ MountedAs
    BY DEF IInv
  <2>2. ASSUME NEW q \in Procs, Pc(q) = "tar" PROVE tar[q].cwd \in {Home(proc[q].tree), "ram"}
    BY <2>1, <2>2 DEF MountedAs, Tree
  <2>3. ASSUME NEW q \in Procs, Pc(q) = "tar", NEW r \in Procs \ {q} PROVE Pc(r) # "tar"
    BY <2>1, <2>3, Unique DEF Running
  <2> QED BY <2>2, <2>3 DEF TarsApart
<1> QED BY <1>1, Starts, Inductive, PTL DEF Spec

\* upgrade.c:427, 665, 964: "Upgrade OK" without a fault has every tree behind
\* it, unpacked once and on its own partition, for archives of any length.
THEOREM OkIsUnpacked == Spec => []OkMeansUnpacked
<1>1. IInv => OkMeansUnpacked
  <2> SUFFICES ASSUME IInv, "ok" \in shown, faults = 0
               PROVE  /\ \A s \in Wanted : \E q \in Procs : unpacked[s] = {<<q, Home(s)>>}
                      /\ shown = {"ok"}
    BY DEF OkMeansUnpacked
  <2> QED BY DEF IInv, Unbroken, AllDone, Done
<1> QED BY <1>1, Starts, Inductive, PTL DEF Spec

\* upgrade.c:641, 676, 979: whatever failed, both partitions are unmounted and
\* no tar runs when the reboot is asked for.
THEOREM UnmountedAtReboot == Spec => RebootsUnmounted
<1>1. IInv /\ [Next]_vars =>
        [rebooting' /\ ~rebooting => mounts = <<>> /\ \A q \in Procs : Pc(q) # "tar"]_vars
  <2> SUFFICES ASSUME IInv, Next, rebooting', ~rebooting
               PROVE  mounts = <<>> /\ \A q \in Procs : Pc(q) # "tar"
    OBVIOUS
  <2>1. PICK p \in Procs : Reboot(p)
    BY DEF Next, Run, Prepare, NoFork, Fork, Feed, Written, BrokenPipe, Wait, Take, TarDone,
           TarFails, Finish, GiveUp, Halt
  <2>2. Pc(p) = "ok"
    BY <2>1 DEF Reboot, At
  <2>3. mounts = <<>>
    BY <2>2 DEF IInv, MountedAs
  <2>4. \A q \in Procs : Pc(q) # "tar"
    BY <2>2, Unique DEF IInv, Running
  <2> QED BY <2>3, <2>4
<1> QED BY <1>1, Starts, Inductive, PTL DEF Spec, RebootsUnmounted
=============================================================================
