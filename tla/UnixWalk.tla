------------------------------ MODULE UnixWalk ------------------------------
(***************************************************************************)
(* What ext2fs_open promises: a walk from the root by the rules of Unix,   *)
(* name after name, the target of a link in its place.  The walk may only  *)
(* be given up for one of the reasons in Hopeless, and may only lose its   *)
(* way where Treacherous says.                                             *)
(***************************************************************************)
EXTENDS Integers, Sequences

CONSTANTS
    NoName,         \* the name of an entry that has none
    Root,           \* the inode of the root directory
    Tree,           \* Tree[i]: inode i: mode, entries, target
    Paths,          \* the paths that are opened
    MaxNest         \* the link that is one too many

VARIABLES
    at,             \* the inode the walk has reached
    todo,           \* the names to come, those of the last link last
    links,          \* links followed
    file,           \* the inode that was opened, or 0
    outcome

vars == <<at, todo, links, file, outcome>>

Init ==
    /\ at = Root /\ todo = <<>> /\ links = 0
    /\ file = 0 /\ outcome = "none"

Begin(p) ==
    /\ outcome # "walking" /\ outcome' = "walking"
    /\ at' = Root /\ todo' = <<p>> /\ links' = 0 /\ file' = 0

-----------------------------------------------------------------------------
\* The names that come next; they stand for nothing but in a directory.
names == todo[Len(todo)]
entries == Tree[at].entries
Looking == outcome = "walking" /\ todo # <<>> /\ names # <<>>
Wanted(k) == entries[k].name = Head(names)

\* The inodes found under the next name.
Found ==
    IF Tree[at].mode # "dir" THEN {}
    ELSE {entries[k].ino : k \in {j \in DOMAIN entries : Wanted(j) /\ entries[j].ino # 0}}

Enter(n) ==
    /\ Looking /\ n \in Found /\ Tree[n].mode # "link"
    /\ at' = n
    /\ todo' = IF Tail(names) = <<>> THEN SubSeq(todo, 1, Len(todo) - 1)
               ELSE [todo EXCEPT ![Len(todo)] = Tail(names)]
    /\ UNCHANGED <<links, file, outcome>>

Follow(n) ==
    /\ Looking /\ n \in Found /\ Tree[n].mode = "link"
    /\ links + 1 < MaxNest /\ links' = links + 1
    /\ LET target == Tree[n].target IN
       /\ at' = IF target.abs THEN Root ELSE at
       /\ target.names # <<>>
       /\ todo' = Append([todo EXCEPT ![Len(todo)] = Tail(names)], target.names)
    /\ UNCHANGED <<file, outcome>>

\* The target of a link is used up.
Drop ==
    /\ outcome = "walking" /\ todo # <<>> /\ names = <<>>
    /\ todo' = SubSeq(todo, 1, Len(todo) - 1)
    /\ UNCHANGED <<at, links, file, outcome>>

-----------------------------------------------------------------------------
End(o) ==
    /\ outcome = "walking" /\ outcome' = o
    /\ at' = Root /\ todo' = <<>> /\ links' = 0

Arrived == \A k \in DOMAIN todo : todo[k] = <<>>

Open ==
    /\ Arrived /\ Tree[at].mode = "reg"
    /\ file' = at /\ End("opened")

\* A link that is not followed: one too many, or one to the root.
Barred(n) ==
    Tree[n].mode = "link" /\ (links + 1 = MaxNest \/ Tree[n].target.names = <<>>)

\* A deleted entry without a type stands before the one that is looked for.
Blocked ==
    /\ Tree[at].mode = "dir"
    /\ \E k \in DOMAIN entries :
          /\ entries[k].ino = 0 /\ entries[k].type = "unknown" /\ entries[k].name # NoName
          /\ \A j \in 1 .. k - 1 : ~Wanted(j)

Hopeless ==
    \/ Looking /\ (Found = {} \/ Blocked \/ \E n \in Found : Barred(n))
    \/ Arrived /\ Tree[at].mode # "reg"

GiveUp == Hopeless /\ End("absent") /\ UNCHANGED file

\* A deleted entry still has the name, or a link must be read from a block.
Stale ==
    /\ Looking /\ Tree[at].mode = "dir"
    /\ \E k \in DOMAIN entries : Wanted(k) /\ entries[k].ino = 0
Treacherous ==
    Stale \/ (Looking /\ \E n \in Found : Tree[n].mode = "link" /\ Tree[n].target.long)

Stray == Treacherous /\ End("astray") /\ UNCHANGED file

\* A read fails; memory is used up.
Unread == End("unread") /\ UNCHANGED file
Hang == End("hung") /\ UNCHANGED file

Onward ==
    \/ \E n \in DOMAIN Tree : Enter(n) \/ Follow(n)
    \/ Drop \/ Open \/ GiveUp \/ Stray \/ Unread \/ Hang

Next == (\E p \in Paths : Begin(p)) \/ Onward

Spec == Init /\ [][Next]_vars
=============================================================================
