------------------------------ MODULE Ext2Path ------------------------------
(***************************************************************************)
(* Opening a file of an ext2 file system by its path (ext2fs_open,         *)
(* ext2fs_find_file, ext2fs_find_file1 and ext2fs_iterate_dir of           *)
(* qi-usb-lcd/src/fs/ext2.c).  ext2fs_find_file1 walks over the components *)
(* and calls itself for the target of a symbolic link; every directory     *)
(* entry it passes takes a node from malloc, whose pool never gets         *)
(* anything back (utils-phase2.c).                                         *)
(*                                                                         *)
(* An inode is a number, 0 the one of a deleted entry, Root that of the    *)
(* root directory.  Node 0 is ext2fs_root->diropen.                        *)
(***************************************************************************)
EXTENDS Integers, Sequences, FiniteSets

CONSTANTS
    Names,          \* file names
    NoName,         \* the name of an entry with namelen 0
    Root,           \* the inode of the root directory
    Tree,           \* Tree[i]: inode i: mode, entries, target
    Paths,          \* the paths that are opened
    Misread,        \* targets that can be left where a link was not read
    MaxNest,        \* 8: the link that is one too many
    Longest,        \* bound: steps of a path, for the properties
    Pool,           \* objects malloc can give out
    MaxFaults       \* bound: failing reads

Inodes == DOMAIN Tree
Modes == {"dir", "reg", "link", "other"}      \* "other": FILETYPE_UNKNOWN in a node
Entry == [name: Names \union {NoName}, ino: Inodes \union {0}, type: Modes \union {"unknown"}]
Target == [abs: BOOLEAN, long: BOOLEAN, names: Seq(Names)]

\* An entry says what its inode is, or nothing.  No name occurs twice.
ASSUME TreeAssumption ==
    /\ NoName \notin Names
    /\ 0 \notin Inodes /\ Root \in Inodes /\ Tree[Root].mode = "dir"
    /\ \A n \in Inodes :
          /\ Tree[n].mode \in Modes
          /\ Tree[n].entries \in Seq(Entry)
          /\ Tree[n].target \in Target
    /\ \A n \in Inodes : LET es == Tree[n].entries IN
          /\ \A j, k \in DOMAIN es : es[j].name = es[k].name => j = k \/ es[j].name = NoName
          /\ \A k \in DOMAIN es :
                es[k].ino # 0 => es[k].type \in {"unknown", Tree[es[k].ino].mode}

ASSUME PathAssumption == Paths \subseteq Seq(Names) /\ Misread \subseteq Target

ASSUME BoundAssumption ==
    MaxNest \in Nat \ {0} /\ Longest \in Nat /\ Pool \in Nat /\ MaxFaults \in Nat

\* Longest is enough for every path with as many links as may be followed.
ASSUME LengthAssumption ==
    \E l \in 0 .. Longest :
        /\ \A n \in Inodes : Len(Tree[n].target.names) <= l
        /\ \A p \in Paths : Len(p) + MaxNest * l <= Longest

VARIABLES
    pc,
    path,           \* the argument of ext2fs_open
    stack,          \* the calls of ext2fs_find_file1, the innermost last
    scan,           \* the entry ext2fs_iterate_dir is at
    nodes,          \* the nodes of this call that were handed out
    ret,            \* what the innermost call has returned
    symlinknest,
    pool,           \* objects allocated
    result,         \* what ext2fs_open returns: 0, or the inode it has opened
    faults,
    failed,         \* history: a read of this call has failed
    astray          \* history: followed a link that was not read, a deleted entry

walk == <<stack, scan, nodes, ret, symlinknest>>
hist == <<faults, failed, astray>>
vars == <<pc, path, walk, pool, result, hist>>

Node == [ino: Inodes \union {0}, inode_read: BOOLEAN, freed: Nat]
Frame == [names: Seq(Names), currroot: Nat, currnode: Nat, oldnode: Nat, type: Modes]
Same == "same"      \* *foundtype is not assigned
Return == [ok: BOOLEAN, node: Nat, type: Modes \union {Same}]

TypeOK ==
    /\ pc \in {"idle", "component", "entry", "matched", "return", "hung", "done"}
    /\ path \in Seq(Names)
    /\ stack \in Seq(Frame) /\ nodes \in Seq(Node)
    /\ \A k \in DOMAIN stack :
          {stack[k].currroot, stack[k].currnode, stack[k].oldnode} \subseteq 0 .. Len(nodes)
    /\ scan \in Nat \ {0}
    /\ ret \in Return /\ ret.node \in 0 .. Len(nodes)
    /\ symlinknest \in 0 .. MaxNest
    /\ pool \in 0 .. Pool
    /\ result \in Inodes \union {0}
    /\ faults \in 0 .. MaxFaults /\ failed \in BOOLEAN /\ astray \in BOOLEAN

Failure == [ok |-> FALSE, node |-> 0, type |-> Same]

Init ==
    /\ pc = "idle" /\ path = <<>> /\ stack = <<>> /\ scan = 1 /\ nodes = <<>>
    /\ ret = Failure /\ symlinknest = 0 /\ pool = 0 /\ result = 0
    /\ faults = 0 /\ failed = FALSE /\ astray = FALSE

-----------------------------------------------------------------------------
(* Nodes and calls *)

RootNode == 0
InodeOf(n) == IF n = RootNode THEN Root ELSE nodes[n].ino
InodeIsRead(n) == n = RootNode \/ nodes[n].inode_read

\* Mutant: the directory of the caller is freed like any other.
FreedAlways(ns, currroot) ==
    [n \in DOMAIN nodes |->
        IF n \in ns THEN [nodes[n] EXCEPT !.freed = @ + 1] ELSE nodes[n]]

\* ext2fs_free_node, for the nodes in ns: the root and currroot are kept.
Freed(ns, currroot) ==
    [n \in DOMAIN nodes |->
        IF n \in ns \ {currroot} THEN [nodes[n] EXCEPT !.freed = @ + 1] ELSE nodes[n]]

Depth == Len(stack)
Top == stack[Depth]

Call(names, root) ==
    [names |-> names, currroot |-> root, currnode |-> root, oldnode |-> root, type |-> "dir"]

\* return from ext2fs_find_file1
Leave(r) ==
    /\ pc' = "return" /\ ret' = r
    /\ stack' = SubSeq(stack, 1, Depth - 1)

NoFault == UNCHANGED hist
Fault ==
    /\ faults < MaxFaults /\ faults' = faults + 1
    /\ failed' = TRUE /\ UNCHANGED astray

\* ext2fs_read_inode fails.  For inode 0, that of a deleted entry, it computes
\* a block group far behind the last one.
InodeUnread(ino) == (ino = 0 /\ NoFault) \/ (ino # 0 /\ Fault)

\* malloc does not return when the pool is used up.
Room == pool < Pool
Allocate == Room /\ pool' = pool + 1
OutOfMemory == ~Room /\ pc' = "hung" /\ UNCHANGED pool

-----------------------------------------------------------------------------
(* ext2fs_find_file1 *)

\* Mutant: the counter of links is not set back.
OpenKeepsCount(p) ==
    /\ pc \in {"idle", "done"} /\ path' = p
    /\ stack' = <<Call(p, RootNode)>> /\ nodes' = <<>> /\ ret' = Failure
    /\ pc' = "component" /\ result' = 0
    /\ failed' = FALSE /\ astray' = FALSE
    /\ UNCHANGED <<scan, symlinknest, pool, faults>>

\* ext2fs_open and the head of ext2fs_find_file.
Open(p) ==
    /\ pc \in {"idle", "done"} /\ path' = p
    /\ symlinknest' = 0
    /\ stack' = <<Call(p, RootNode)>> /\ nodes' = <<>> /\ ret' = Failure
    /\ pc' = "component" /\ result' = 0
    /\ failed' = FALSE /\ astray' = FALSE
    /\ UNCHANGED <<scan, pool, faults>>

\* A path of slashes only: the node is given back, the type is not.
EmptyPath ==
    /\ pc = "component" /\ Top.names = <<>>
    /\ Leave([ok |-> TRUE, node |-> Top.currnode, type |-> Same])
    /\ UNCHANGED <<path, scan, nodes, symlinknest, pool, result, hist>>

NotADirectory ==
    /\ pc = "component" /\ Top.names # <<>> /\ Top.type # "dir"
    /\ nodes' = Freed({Top.currnode}, Top.currroot)
    /\ Leave(Failure)
    /\ UNCHANGED <<path, scan, symlinknest, pool, result, hist>>

\* ext2fs_iterate_dir is called with the component.
Iterate ==
    /\ pc = "component" /\ Top.names # <<>> /\ Top.type = "dir"
    /\ InodeOf(Top.currnode) # 0
    /\ stack' = [stack EXCEPT ![Depth].oldnode = Top.currnode]
    /\ scan' = 1 /\ pc' = "entry"
    /\ UNCHANGED <<path, nodes, ret, symlinknest, pool, result, hist>>

\* "failed to read inode": the node is not freed.
IterateFails ==
    /\ pc = "component" /\ Top.names # <<>> /\ Top.type = "dir"
    /\ ~InodeIsRead(Top.currnode) /\ InodeUnread(InodeOf(Top.currnode))
    /\ Leave(Failure)
    /\ UNCHANGED <<path, scan, nodes, symlinknest, pool, result>>

Directory == Tree[InodeOf(Top.currnode)].entries
HasEntry == pc = "entry" /\ scan <= Len(Directory)
This == Directory[scan]
Wanted == Head(Top.names)

\* The entry or its name cannot be read.
EntryFails ==
    /\ HasEntry /\ Fault
    /\ Leave(Failure)
    /\ UNCHANGED <<path, scan, nodes, symlinknest, pool, result>>

\* Mutant: fpos is not advanced.
NamelessStays ==
    /\ HasEntry /\ This.name = NoName
    /\ UNCHANGED vars

Nameless ==
    /\ HasEntry /\ This.name = NoName
    /\ scan' = scan + 1
    /\ UNCHANGED <<pc, path, stack, nodes, ret, symlinknest, pool, result, hist>>

\* An entry without a type is looked up in its inode, whatever its name.
TypeFails ==
    /\ HasEntry /\ This.name # NoName /\ Allocate
    /\ This.type = "unknown" /\ InodeUnread(This.ino)
    /\ Leave(Failure)
    /\ UNCHANGED <<path, scan, nodes, symlinknest, result>>

\* The node of another entry is freed at once; only the pool remembers it.
Pass ==
    /\ HasEntry /\ This.name \notin {NoName, Wanted} /\ Allocate
    /\ scan' = scan + 1
    /\ UNCHANGED <<pc, path, stack, nodes, ret, symlinknest, result, hist>>

\* What can be found under entry e: whether it was deleted is not looked at,
\* and inode 0 is whatever lies where it is computed to be, or unreadable.
Deleted(e) == e.ino = 0
Behind(e) ==
    IF ~Deleted(e) THEN {e.ino}
    ELSE IF e.type = "unknown" THEN Inodes ELSE Inodes \union {0}

Match ==
    /\ HasEntry /\ This.name = Wanted /\ Allocate
    /\ \E n \in Behind(This) : LET unknown == This.type = "unknown" IN
          /\ nodes' = Append(nodes, [ino |-> n, inode_read |-> unknown, freed |-> 0])
          /\ stack' = [stack EXCEPT
                ![Depth].currnode = Len(nodes) + 1,
                ![Depth].type = IF unknown THEN Tree[n].mode ELSE This.type]
    /\ astray' = (astray \/ Deleted(This))
    /\ pc' = "matched"
    /\ UNCHANGED <<path, scan, ret, symlinknest, result, faults, failed>>

\* The node of the directory is not freed.
NotFound ==
    /\ pc = "entry" /\ scan > Len(Directory)
    /\ Leave(Failure)
    /\ UNCHANGED <<path, scan, nodes, symlinknest, pool, result, hist>>

EntryHangs ==
    /\ HasEntry /\ This.name # NoName /\ OutOfMemory
    /\ UNCHANGED <<path, walk, result, hist>>

\* The component is done: found, or on to the next one.  The caller has put
\* its type and node into frame f.
Proceed(f) ==
    IF Tail(f.names) = <<>>
    THEN Leave([ok |-> TRUE, node |-> f.currnode, type |-> f.type])
    ELSE /\ stack' = [stack EXCEPT ![Depth] = [f EXCEPT !.names = Tail(@)]]
         /\ pc' = "component" /\ UNCHANGED ret

\* "Found the node!"
Found ==
    /\ pc = "matched" /\ Top.type # "link"
    /\ nodes' = Freed({Top.oldnode}, Top.currroot)
    /\ Proceed(Top)
    /\ UNCHANGED <<path, scan, symlinknest, pool, result, hist>>

\* Mutant: symlinknest++ for ++symlinknest.
OneTooManyLater == symlinknest = MaxNest
\* Mutant: the test for a loop of links is left out.
NeverOneTooMany == FALSE
\* "Test if the symlink does not loop."
OneTooMany == symlinknest + 1 = MaxNest

TooManyLinks ==
    /\ pc = "matched" /\ Top.type = "link" /\ OneTooMany
    /\ symlinknest' = MaxNest
    /\ nodes' = Freed({Top.currnode, Top.oldnode}, Top.currroot)
    /\ Leave(Failure)
    /\ UNCHANGED <<path, scan, pool, result, hist>>

\* ext2fs_read_symlink cannot read the inode.
LinkFails ==
    /\ pc = "matched" /\ Top.type = "link" /\ ~OneTooMany
    /\ ~InodeIsRead(Top.currnode) /\ InodeUnread(InodeOf(Top.currnode))
    /\ symlinknest' = symlinknest + 1
    /\ nodes' = Freed({Top.currnode, Top.oldnode}, Top.currroot)
    /\ Leave(Failure)
    /\ UNCHANGED <<path, scan, pool, result>>

LinkHangs ==
    /\ pc = "matched" /\ Top.type = "link" /\ ~OneTooMany
    /\ InodeOf(Top.currnode) # 0
    /\ symlinknest' = symlinknest + 1
    /\ OutOfMemory
    /\ UNCHANGED <<path, stack, scan, nodes, ret, result, hist>>

\* ext2fs_read_file returns -1 for a target that cannot be read, but 0 is
\* what ext2fs_read_symlink takes for a failure.
ReadTarget(t) ==
    LET on_disk == Tree[InodeOf(Top.currnode)].target IN
    \/ t = on_disk /\ NoFault
    \/ /\ on_disk.long /\ t \in Misread
       /\ faults < MaxFaults /\ faults' = faults + 1
       /\ failed' = TRUE /\ astray' = TRUE

\* Mutant: every target is taken relative to the directory of the link.
LinkRootRelative(t) == Top.oldnode
LinkRoot(t) == IF t.abs THEN RootNode ELSE Top.oldnode

\* The link is followed, from the root or from the directory it was found in.
Follow(t) ==
    /\ pc = "matched" /\ Top.type = "link" /\ ~OneTooMany
    /\ InodeOf(Top.currnode) # 0 /\ Allocate /\ ReadTarget(t)
    /\ symlinknest' = symlinknest + 1
    /\ LET oldnode == LinkRoot(t) IN
       /\ nodes' = Freed({Top.currnode} \union (IF t.abs THEN {Top.oldnode} ELSE {}),
                         Top.currroot)
       /\ stack' = Append([stack EXCEPT ![Depth].oldnode = oldnode], Call(t.names, oldnode))
    /\ pc' = "component"
    /\ UNCHANGED <<path, scan, ret, result>>

\* The call for a link has returned.
Resume ==
    /\ pc = "return" /\ stack # <<>> /\ ret.ok
    /\ nodes' = Freed({Top.oldnode}, Top.currroot)
    /\ Proceed([Top EXCEPT !.currnode = ret.node,
                           !.type = IF ret.type = Same THEN @ ELSE ret.type])
    /\ UNCHANGED <<path, scan, symlinknest, pool, result, hist>>

ResumeFails ==
    /\ pc = "return" /\ stack # <<>> /\ ~ret.ok
    /\ nodes' = Freed({Top.oldnode}, Top.currroot)
    /\ Leave(Failure)
    /\ UNCHANGED <<path, scan, symlinknest, pool, result, hist>>

-----------------------------------------------------------------------------
(* The tail of ext2fs_find_file and of ext2fs_open *)

\* Nothing found, or no regular file.
OpenFails ==
    /\ pc = "return" /\ stack = <<>> /\ (~ret.ok \/ ret.type # "reg")
    /\ nodes' = IF ret.ok THEN Freed({ret.node}, RootNode) ELSE nodes
    /\ pc' = "done"
    /\ UNCHANGED <<path, stack, scan, ret, symlinknest, pool, result, hist>>

\* The inode of the file cannot be read.
OpenUnread ==
    /\ pc = "return" /\ stack = <<>> /\ ret.ok /\ ret.type = "reg"
    /\ ~InodeIsRead(ret.node) /\ InodeUnread(InodeOf(ret.node))
    /\ nodes' = Freed({ret.node}, RootNode)
    /\ pc' = "done"
    /\ UNCHANGED <<path, stack, scan, ret, symlinknest, pool, result>>

Opened ==
    /\ pc = "return" /\ stack = <<>> /\ ret.ok /\ ret.type = "reg"
    /\ InodeOf(ret.node) # 0
    /\ result' = InodeOf(ret.node)
    /\ pc' = "done"
    /\ UNCHANGED <<path, walk, pool, hist>>

-----------------------------------------------------------------------------
Component == EmptyPath \/ NotADirectory \/ Iterate \/ IterateFails
ScanEntry == EntryFails \/ Nameless \/ TypeFails \/ Pass \/ Match \/ NotFound \/ EntryHangs
Targets == Misread \union {Tree[n].target : n \in Inodes}
Link == TooManyLinks \/ LinkFails \/ LinkHangs \/ \E t \in Targets : Follow(t)
Returning == Resume \/ ResumeFails \/ OpenFails \/ OpenUnread \/ Opened

Lookup == Component \/ ScanEntry \/ Found \/ Link \/ Returning

Next == (\E p \in Paths : Open(p)) \/ Lookup

Spec == Init /\ [][Next]_vars

\* The code runs; nothing makes the caller open another file.
FairSpec == Spec /\ WF_vars(Lookup)

-----------------------------------------------------------------------------
(* Properties *)

Live(d, name) ==
    {k \in DOMAIN Tree[d].entries : Tree[d].entries[k].name = name /\ Tree[d].entries[k].ino # 0}

\* The inodes a path leads through, by the rules of Unix: a link stands for
\* its target.  <<>> when there is nothing at the end, or after n steps.
Here == [d \in Inodes |-> [names \in Seq(Names) |-> IF names = <<>> THEN <<d>> ELSE <<>>]]

Further(trail) == [d \in Inodes |-> [names \in Seq(Names) |->
    IF names = <<>> THEN <<d>>
    ELSE IF Tree[d].mode # "dir" \/ Live(d, Head(names)) = {} THEN <<>>
    ELSE LET k == CHOOSE k \in Live(d, Head(names)) : TRUE
             next == Tree[d].entries[k].ino
             to == Tree[next].target
             rest == IF Tree[next].mode = "link"
                     THEN trail[IF to.abs THEN Root ELSE d][to.names \o Tail(names)]
                     ELSE trail[next][Tail(names)]
         IN  IF rest = <<>> THEN <<>>
             ELSE IF Tree[next].mode = "link" THEN <<d, next>> \o rest ELSE <<d>> \o rest]]

Trail[n \in Nat] == IF n = 0 THEN Here ELSE Further(Trail[n - 1])

Way == Trail[Longest][Root][path]
File == Way[Len(Way)]

LinksOn(way) == {k \in DOMAIN way : Tree[way[k]].mode = "link"}

\* What the walk cannot cope with: a link to the root, too many links, a
\* deleted entry without a type in a directory on the way.
Passable(way) ==
    /\ Cardinality(LinksOn(way)) < MaxNest
    /\ \A k \in LinksOn(way) : Tree[way[k]].target.names # <<>>
    /\ \A k \in DOMAIN way : \A j \in DOMAIN Tree[way[k]].entries :
          LET e == Tree[way[k]].entries[j]
          IN  e.name # NoName /\ e.ino = 0 => e.type # "unknown"

\* ext2.c:672-772: the file that is opened is the one the path denotes, whatever
\* links lead to it and whatever reads fail, unless a long link was not read or
\* an entry was deleted.
RightFile ==
    (result # 0 /\ ~astray) => Way # <<>> /\ File = result /\ Tree[File].mode = "reg"

\* ext2.c:672-772: a regular file at the end of a passable path is opened when
\* no read fails, however many files were looked up before.
FindsFile ==
    (pc = "done" /\ ~failed /\ Way # <<>> /\ Passable(Way) /\ Tree[File].mode = "reg")
        => result = File

\* No link is empty; the system that makes links sees to that.
FullLinks ==
    \A n \in Inodes :
        Tree[n].mode = "link" => Tree[n].target.abs \/ Tree[n].target.names # <<>>

\* ext2.c:237-241: no node is freed twice or used after it was freed, although
\* two calls may hold the same one; after a success only the node of the file
\* is left, after a failure at most one directory.  (This is the discipline of
\* the calls; the free of utils-phase2.c does nothing.)
Kept == {n \in DOMAIN nodes : nodes[n].freed = 0}
Used ==
    CASE pc \in {"component", "entry"} -> {Top.currnode}
      [] pc = "matched" -> {Top.currnode, Top.oldnode}
      [] pc = "return" /\ ret.ok -> {ret.node}
      [] OTHER -> {}
NodesOwned ==
    ~astray =>
        /\ \A n \in DOMAIN nodes : nodes[n].freed <= 1
        /\ Used \ {RootNode} \subseteq Kept
        /\ pc = "done" => Cardinality(Kept) <= 1
        /\ (pc = "done" /\ result # 0) => Kept = {ret.node}

\* The walk: still on its way, and with a type that lets it arrive.  After a
\* path of slashes only, the type stays that of a link.
Walking ==
    /\ ~astray
    /\ \/ pc \in {"entry", "matched"}
       \/ pc = "component" /\ Top.type # "link" /\ (Top.names # <<>> \/ Depth = 1)
       \/ pc = "return" /\ ret.ok /\ ret.type \notin {Same, "link"}

Outcome ==
    IF astray THEN "astray"
    ELSE CASE pc = "idle" -> "none"
           [] pc = "hung" -> "hung"
           [] Walking -> "walking"
           [] OTHER -> IF result # 0 THEN "opened" ELSE IF failed THEN "unread" ELSE "absent"

WalkNode ==
    CASE pc = "return" -> ret.node
      [] pc = "matched" -> Top.oldnode
      [] OTHER -> Top.currnode

\* What a call that waits for a link has left begins behind that link.
ToCome(k) ==
    IF k = Depth /\ pc # "return" THEN stack[k].names ELSE Tail(stack[k].names)

WalkAt == IF Walking THEN InodeOf(WalkNode) ELSE Root
WalkTodo == IF Walking THEN [k \in 1 .. Depth |-> ToCome(k)] ELSE <<>>
WalkLinks == IF Walking THEN symlinknest ELSE 0
WalkFile == IF astray THEN 0 ELSE result

Walk == INSTANCE UnixWalk WITH
    at <- WalkAt, todo <- WalkTodo, links <- WalkLinks, file <- WalkFile,
    outcome <- Outcome

\* ext2.c:672-772: every step of the lookup is a step by the rules of Unix, and a
\* file that is there is only given up for a reason, whatever calls, links and
\* failing reads it takes.
ImplementsWalk == Walk!Spec

\* ext2.c:727: whatever the links say, the calls nest no deeper than the count
\* of links allows; each takes a copy of its path from a small stack.
CallsAreBounded == Depth <= MaxNest

\* ext2.c:513-631, 727: every lookup comes to an end, loops of links included.
LookupEnds == (pc = "component") ~> (pc \in {"done", "hung"})
=============================================================================
