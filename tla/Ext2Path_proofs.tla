--------------------------- MODULE Ext2Path_proofs ---------------------------
(***************************************************************************)
(* Type correctness of Ext2Path, that the calls of ext2fs_find_file1 stay  *)
(* few, and that each node is freed by the call that owns it, for every    *)
(* file system, every path and any number of faults.                       *)
(***************************************************************************)
EXTENDS Ext2Path, SequenceTheorems, FiniteSetTheorems, TLAPS

\* A stack whose frames hold nodes up to m, and in which every call but the
\* innermost has a component in hand.
Nodes(f) == {f.currroot, f.currnode, f.oldnode}
Fits(st, m) ==
    /\ st \in Seq(Frame)
    /\ \A k \in DOMAIN st : Nodes(st[k]) \subseteq 0 .. m
    /\ \A k \in 1 .. Len(st) - 1 : st[k].names # <<>>

Active == pc \in {"component", "entry", "matched"}

\* What is never disturbed by the calls.
Rest ==
    /\ path \in Seq(Names) /\ scan \in Nat \ {0}
    /\ pool \in 0 .. Pool /\ result \in Inodes \union {0}
    /\ faults \in 0 .. MaxFaults /\ failed \in BOOLEAN /\ astray \in BOOLEAN

\* Links are counted before a call is made for one, and after the last one
\* allowed there is no way but back.
Shape ==
    /\ pc \in {"idle", "component", "entry", "matched", "return", "hung", "done"}
    /\ Fits(stack, Len(nodes)) /\ nodes \in Seq(Node)
    /\ ret \in Return /\ ret.node \in 0 .. Len(nodes)
    /\ symlinknest \in 0 .. MaxNest
    /\ Active => stack # <<>>
    /\ pc \in {"entry", "matched", "return"} /\ stack # <<>> => Top.names # <<>>
    /\ pc = "entry" => InodeOf(Top.currnode) # 0
    /\ Active \/ (pc = "return" /\ ret.ok) => symlinknest < MaxNest
    /\ Depth <= symlinknest + 1 /\ Depth <= MaxNest

IInv == Rest /\ Shape

-----------------------------------------------------------------------------
(* Stacks and nodes *)

\* Popping a call.
LEMMA FitsPop ==
    ASSUME NEW st, NEW m \in Nat, Fits(st, m), st # <<>>
    PROVE  LET sub == SubSeq(st, 1, Len(st) - 1) IN
           /\ Fits(sub, m) /\ Len(sub) = Len(st) - 1
           /\ sub # <<>> => sub[Len(sub)].names # <<>>
<1> DEFINE n == Len(st) - 1
           sub == SubSeq(st, 1, n)
<1>1. n \in Nat /\ DOMAIN st = 1 .. n + 1 /\ \A k \in 1 .. n : st[k] \in Frame
  BY DEF Fits
<1>2. sub \in Seq(Frame) /\ Len(sub) = n /\ \A k \in 1 .. n : sub[k] = st[k]
  <2> HIDE DEF n
  <2>1. n \in Int /\ 1 \in Int /\ n >= 0
    BY <1>1
  <2>2. /\ sub \in Seq(Frame)
        /\ Len(sub) = IF 1 <= n THEN n - 1 + 1 ELSE 0
        /\ \A k \in 1 .. n - 1 + 1 : sub[k] = st[1 + k - 1]
    BY <1>1, <2>1, SubSeqProperties
  <2>3. QED
    BY <2>1, <2>2
<1> HIDE DEF sub
<1>3. Fits(sub, m)
  BY <1>1, <1>2 DEF Fits
<1>4. sub # <<>> => sub[Len(sub)].names # <<>>
  BY <1>1, <1>2 DEF Fits
<1>5. QED
  BY <1>2, <1>3, <1>4 DEF sub, n

\* Replacing the innermost call.
LEMMA FitsPut ==
    ASSUME NEW st, NEW m \in Nat, Fits(st, m), st # <<>>,
           NEW f \in Frame, Nodes(f) \subseteq 0 .. m
    PROVE  /\ Fits([st EXCEPT ![Len(st)] = f], m)
           /\ Len([st EXCEPT ![Len(st)] = f]) = Len(st)
           /\ [st EXCEPT ![Len(st)] = f] # <<>>
           /\ [st EXCEPT ![Len(st)] = f][Len(st)] = f
<1> DEFINE new == [st EXCEPT ![Len(st)] = f]
<1>1. st \in Seq(Frame) /\ Len(st) \in Nat \ {0}
  BY DEF Fits
<1>2. new \in Seq(Frame) /\ Len(new) = Len(st)
  BY <1>1
<1>3. \A k \in DOMAIN new : new[k] = IF k = Len(st) THEN f ELSE st[k]
  BY <1>1
<1>4. \A k \in DOMAIN new : Nodes(new[k]) \subseteq 0 .. m
  BY <1>1, <1>2, <1>3 DEF Fits
<1>5. \A k \in 1 .. Len(new) - 1 : new[k].names # <<>>
  <2> TAKE k \in 1 .. Len(new) - 1
  <2> HIDE DEF new
  <2>1. k \in DOMAIN new /\ k # Len(st) /\ k \in 1 .. Len(st) - 1
    BY <1>1, <1>2
  <2>2. new[k] = st[k] /\ st[k].names # <<>>
    BY <2>1, <1>3 DEF Fits
  <2>3. QED
    BY <2>2
<1>6. new # <<>> /\ new[Len(st)] = f
  BY <1>1, <1>2, <1>3
<1>7. QED
  BY <1>1, <1>2, <1>4, <1>5, <1>6 DEF Fits

\* Calling.
LEMMA FitsPush ==
    ASSUME NEW st, NEW m \in Nat, Fits(st, m), st # <<>>, st[Len(st)].names # <<>>,
           NEW f \in Frame, Nodes(f) \subseteq 0 .. m
    PROVE  /\ Fits(Append(st, f), m)
           /\ Len(Append(st, f)) = Len(st) + 1
<1>1. st \in Seq(Frame) /\ Len(st) \in Nat
  BY DEF Fits
<1>2. /\ Append(st, f) \in Seq(Frame) /\ Len(Append(st, f)) = Len(st) + 1
      /\ \A k \in 1 .. Len(st) + 1 : Append(st, f)[k] = IF k = Len(st) + 1 THEN f ELSE st[k]
  BY <1>1
<1>3. \A k \in DOMAIN Append(st, f) : Nodes(Append(st, f)[k]) \subseteq 0 .. m
  BY <1>1, <1>2 DEF Fits
<1>4. QED
  BY <1>2, <1>3 DEF Fits

LEMMA FitsMore ==
    ASSUME NEW st, NEW m \in Nat, NEW n \in Nat, m <= n, Fits(st, m)
    PROVE  Fits(st, n)
BY DEF Fits

\* The frame of a new call.
LEMMA CallFits ==
    ASSUME NEW names \in Seq(Names), NEW m \in Nat, NEW root \in 0 .. m
    PROVE  Call(names, root) \in Frame /\ Nodes(Call(names, root)) \subseteq 0 .. m
BY DEF Call, Frame, Modes, Nodes

LEMMA FreedNodes ==
    ASSUME nodes \in Seq(Node), NEW ns, NEW root
    PROVE  Freed(ns, root) \in Seq(Node) /\ Len(Freed(ns, root)) = Len(nodes)
<1>1. \A n \in DOMAIN nodes : nodes[n] \in Node
  OBVIOUS
<1>2. \A n \in DOMAIN nodes : [nodes[n] EXCEPT !.freed = @ + 1] \in Node
  <2> TAKE n \in DOMAIN nodes
  <2>1. PICK d : d = nodes[n]
    OBVIOUS
  <2>2. d \in Node
    BY <1>1, <2>1
  <2>3. [d EXCEPT !.freed = @ + 1] \in Node
    BY <2>2 DEF Node
  <2>4. QED
    BY <2>1, <2>3
<1>3. DOMAIN nodes = 1 .. Len(nodes) /\ Len(nodes) \in Nat
  OBVIOUS
<1>4. QED
  BY <1>1, <1>2, <1>3 DEF Freed

LEMMA Sizes == Shape => Len(nodes) \in Nat /\ Depth \in Nat
BY DEF Shape, Fits, Depth

LEMMA TopFits ==
    Shape /\ stack # <<>> => /\ Top \in Frame /\ Nodes(Top) \subseteq 0 .. Len(nodes)
                             /\ Depth \in Nat \ {0}
BY DEF Shape, Fits, Top, Depth

LEMMA InodeRange ==
    ASSUME Shape, NEW n \in 0 .. Len(nodes)
    PROVE  InodeOf(n) \in Inodes \union {0}
<1>1. CASE n = RootNode
  BY <1>1, TreeAssumption DEF InodeOf
<1>2. CASE n # RootNode
  <2>1. nodes[n] \in Node
    BY <1>2 DEF Shape, RootNode
  <2>2. QED
    BY <1>2, <2>1 DEF InodeOf, Node
<1>3. QED
  BY <1>1, <1>2

\* What an entry of a directory can be, and what lies behind it.
LEMMA EntryRange ==
    IInv /\ HasEntry =>
        /\ This \in Entry
        /\ \A n \in Behind(This) :
              n \in Inodes \union {0} /\ (This.type = "unknown" => Tree[n].mode \in Modes)
<1> SUFFICES ASSUME IInv, HasEntry
             PROVE  /\ This \in Entry
                    /\ \A n \in Behind(This) :
                          /\ n \in Inodes \union {0}
                          /\ This.type = "unknown" => Tree[n].mode \in Modes
  OBVIOUS
<1>1. Top.currnode \in 0 .. Len(nodes)
  BY TopFits DEF IInv, Shape, Active, HasEntry, Nodes
<1>2. InodeOf(Top.currnode) \in Inodes
  BY <1>1, InodeRange DEF IInv, Shape, HasEntry
<1>3. Directory \in Seq(Entry)
  BY <1>2, TreeAssumption DEF Directory
<1>4. This \in Entry
  BY <1>3 DEF HasEntry, This, IInv, Rest
<1>5. \A n \in Behind(This) : /\ n \in Inodes \union {0}
                              /\ This.type = "unknown" => n \in Inodes
  BY <1>4 DEF Behind, Deleted, Entry
<1>6. \A n \in Inodes : Tree[n].mode \in Modes
  BY TreeAssumption
<1>7. QED
  BY <1>4, <1>5, <1>6

-----------------------------------------------------------------------------
(* Steps *)

\* What every step may do to nodes: none is handed out or taken back.
SameNodes == nodes' \in Seq(Node) /\ Len(nodes') = Len(nodes)

\* Leaving a call.
LEMMA LeaveShape ==
    ASSUME Shape, stack # <<>>, SameNodes,
           NEW r \in Return, r.node \in 0 .. Len(nodes), Leave(r),
           symlinknest' \in symlinknest .. MaxNest, r.ok => symlinknest' < MaxNest
    PROVE  Shape'
<1>1. Fits(stack, Len(nodes)) /\ Len(nodes) \in Nat /\ Depth \in Nat \ {0}
  BY Sizes, TopFits DEF Shape
<1>2. /\ Fits(stack', Len(nodes')) /\ Len(stack') = Depth - 1
      /\ stack' # <<>> => stack'[Len(stack')].names # <<>>
  BY <1>1, FitsPop DEF Leave, Depth, SameNodes
<1>3. pc' = "return" /\ ret' = r
  BY DEF Leave
<1>4. Depth' <= symlinknest' + 1 /\ Depth' <= MaxNest
  BY <1>1, <1>2, BoundAssumption DEF Shape, Depth
<1>5. symlinknest' \in 0 .. MaxNest
  BY BoundAssumption DEF Shape
<1>6. QED
  BY <1>2, <1>3, <1>4, <1>5 DEF Shape, SameNodes, Active, Top, Depth

\* Frame f takes the place of the innermost call.
LEMMA PutShape ==
    ASSUME Shape, stack # <<>>, nodes' \in Seq(Node), Len(nodes') >= Len(nodes),
           NEW f \in Frame, Nodes(f) \subseteq 0 .. Len(nodes'),
           stack' = [stack EXCEPT ![Depth] = f],
           pc' \in {"component", "entry", "matched"},
           pc' \in {"entry", "matched"} => f.names # <<>>,
           pc' = "entry" => InodeOf(f.currnode)' # 0,
           UNCHANGED <<ret, symlinknest>>, symlinknest < MaxNest
    PROVE  Shape'
<1>1. Fits(stack, Len(nodes)) /\ Len(nodes) \in Nat /\ Len(nodes') \in Nat /\ Depth \in Nat \ {0}
  BY Sizes, TopFits DEF Shape
<1>2. Fits(stack, Len(nodes'))
  BY <1>1, FitsMore
<1>3. /\ Fits(stack', Len(nodes')) /\ Len(stack') = Depth /\ stack' # <<>>
      /\ stack'[Depth] = f
  BY <1>1, <1>2, FitsPut DEF Depth
<1>4. Top' = f /\ Depth' = Depth
  BY <1>3 DEF Top, Depth
<1>5. ret' \in Return /\ ret'.node \in 0 .. Len(nodes')
  BY <1>1 DEF Shape
<1>6. pc' = "entry" => InodeOf(Top.currnode)' # 0
  BY <1>4
<1>7. QED
  BY <1>3, <1>4, <1>5, <1>6 DEF Shape, Active

\* The end of a component.
LEMMA ProceedShape ==
    ASSUME Shape, stack # <<>>, SameNodes,
           NEW f \in Frame, Nodes(f) \subseteq 0 .. Len(nodes), f.names # <<>>,
           Proceed(f), symlinknest' = symlinknest, symlinknest < MaxNest
    PROVE  Shape'
<1>1. CASE Tail(f.names) = <<>>
  <2> DEFINE r == [ok |-> TRUE, node |-> f.currnode, type |-> f.type]
  <2>1. r \in Return /\ r.node \in 0 .. Len(nodes) /\ Leave(r)
    BY <1>1 DEF Proceed, Frame, Return, Nodes
  <2>2. symlinknest' \in symlinknest .. MaxNest
    BY BoundAssumption DEF Shape
  <2>3. QED
    BY <2>1, <2>2, LeaveShape
<1>2. CASE Tail(f.names) # <<>>
  <2> DEFINE g == [f EXCEPT !.names = Tail(@)]
  <2>1. g \in Frame /\ Nodes(g) = Nodes(f)
    BY DEF Frame, Nodes
  <2>2. stack' = [stack EXCEPT ![Depth] = g] /\ pc' = "component" /\ ret' = ret
    BY <1>2 DEF Proceed
  <2>3. Len(nodes') >= Len(nodes) /\ nodes' \in Seq(Node)
    BY Sizes DEF SameNodes
  <2> HIDE DEF g
  <2>4. QED
    BY <2>1, <2>2, <2>3, PutShape DEF SameNodes
<1>3. QED
  BY <1>1, <1>2

LEMMA FailureFits == Shape => Failure \in Return /\ Failure.node \in 0 .. Len(nodes)
BY Sizes DEF Failure, Return, Same

\* A failure that is passed on.
LEMMA FailShape ==
    ASSUME Shape, stack # <<>>, SameNodes, Leave(Failure),
           symlinknest' \in symlinknest .. MaxNest
    PROVE  Shape'
BY LeaveShape, FailureFits DEF Failure

LEMMA KeepNodes == Shape /\ UNCHANGED nodes => SameNodes
BY DEF Shape, SameNodes

LEMMA NestStays == Shape /\ UNCHANGED symlinknest => symlinknest' \in symlinknest .. MaxNest
BY BoundAssumption DEF Shape

LEMMA OpenShape == ASSUME IInv, NEW p \in Paths, Open(p) PROVE Shape'
<1>1. p \in Seq(Names)
  BY PathAssumption
<1>2. Call(p, RootNode) \in Frame /\ Nodes(Call(p, RootNode)) \subseteq 0 .. 0
  BY <1>1, CallFits DEF RootNode
<1>3. stack' = <<Call(p, RootNode)>> /\ nodes' = <<>> /\ ret' = Failure /\ pc' = "component"
      /\ symlinknest' = 0
  BY DEF Open
<1>4. Fits(stack', Len(nodes')) /\ Len(stack') = 1 /\ stack' # <<>>
  BY <1>2, <1>3 DEF Fits
<1>5. ret' \in Return /\ ret'.node = 0
  BY <1>3 DEF Failure, Return, Same
<1>6. QED
  BY <1>3, <1>4, <1>5, BoundAssumption DEF Shape, Depth, Active

LEMMA ComponentShape == IInv /\ Component => Shape'
<1> SUFFICES ASSUME IInv, Component PROVE Shape'
  OBVIOUS
<1> USE DEF IInv
<1>1. /\ stack # <<>> /\ Top \in Frame /\ Nodes(Top) \subseteq 0 .. Len(nodes)
      /\ pc = "component" /\ UNCHANGED symlinknest /\ symlinknest < MaxNest
  BY TopFits DEF Component, EmptyPath, NotADirectory, Iterate, IterateFails, Shape, Active
<1>2. Top.currnode \in 0 .. Len(nodes)
  BY <1>1 DEF Nodes
<1>3. CASE EmptyPath
  <2> DEFINE r == [ok |-> TRUE, node |-> Top.currnode, type |-> Same]
  <2>1. r \in Return /\ r.node \in 0 .. Len(nodes) /\ Leave(r) /\ SameNodes
    BY <1>2, <1>3, KeepNodes, Sizes DEF EmptyPath, Return
  <2>2. QED
    BY <1>1, <2>1, LeaveShape, NestStays
<1>4. CASE NotADirectory
  BY <1>1, <1>4, FreedNodes, FailShape, NestStays DEF NotADirectory, SameNodes, Shape
<1>5. CASE Iterate
  <2>0. PICK f : f = [Top EXCEPT !.oldnode = Top.currnode]
    OBVIOUS
  <2>1. f \in Frame /\ Nodes(f) \subseteq 0 .. Len(nodes) /\ f.names # <<>>
        /\ f.currnode = Top.currnode
    BY <1>1, <1>2, <1>5, <2>0 DEF Frame, Nodes, Iterate
  <2>2. /\ stack' = [stack EXCEPT ![Depth] = f] /\ pc' = "entry"
        /\ UNCHANGED <<ret, symlinknest, nodes>> /\ InodeOf(Top.currnode) # 0
    BY <1>5, <2>0 DEF Iterate, Top
  <2>3. InodeOf(f.currnode)' # 0
    BY <2>1, <2>2, <1>2 DEF InodeOf
  <2>4. nodes' \in Seq(Node) /\ Len(nodes') >= Len(nodes) /\ Nodes(f) \subseteq 0 .. Len(nodes')
    BY <2>1, <2>2, Sizes DEF Shape
  <2>5. QED
    BY <1>1, <2>1, <2>2, <2>3, <2>4, PutShape
<1>6. CASE IterateFails
  BY <1>1, <1>6, KeepNodes, FailShape, NestStays DEF IterateFails
<1>7. QED
  BY <1>3, <1>4, <1>5, <1>6 DEF Component

LEMMA EntryShape == IInv /\ ScanEntry => Shape'
<1> SUFFICES ASSUME IInv, ScanEntry PROVE Shape'
  OBVIOUS
<1>1. pc = "entry" /\ UNCHANGED symlinknest
  BY DEF ScanEntry, EntryFails, Nameless, TypeFails, Pass, Match, NotFound, EntryHangs, HasEntry,
        OutOfMemory, walk
<1>2. /\ Shape /\ stack # <<>> /\ Top \in Frame /\ Nodes(Top) \subseteq 0 .. Len(nodes)
      /\ symlinknest < MaxNest /\ Top.names # <<>>
  BY <1>1, TopFits DEF IInv, Shape, Active
<1>3. CASE EntryFails \/ TypeFails \/ NotFound
  BY <1>2, <1>3, KeepNodes, FailShape, NestStays DEF EntryFails, TypeFails, NotFound
<1>4. CASE Nameless \/ Pass
  <2>1. UNCHANGED <<pc, stack, nodes, ret, symlinknest>>
    BY <1>4 DEF Nameless, Pass
  <2>2. QED
    BY <1>2, <2>1 DEF Shape, Active, Top, Depth, InodeOf
<1>5. CASE EntryHangs
  <2>1. UNCHANGED <<stack, nodes, ret, symlinknest>> /\ pc' = "hung"
    BY <1>5 DEF EntryHangs, OutOfMemory, walk
  <2>2. QED
    BY <1>2, <2>1 DEF Shape, Active, Depth
<1>6. CASE Match
  <2>0. PICK n \in Behind(This) :
            LET unknown == This.type = "unknown" IN
            /\ nodes' = Append(nodes, [ino |-> n, inode_read |-> unknown, freed |-> 0])
            /\ stack' = [stack EXCEPT
                  ![Depth].currnode = Len(nodes) + 1,
                  ![Depth].type = IF unknown THEN Tree[n].mode ELSE This.type]
    BY <1>6, Zenon DEF Match
  <2> DEFINE type == IF This.type = "unknown" THEN Tree[n].mode ELSE This.type
             node == [ino |-> n, inode_read |-> This.type = "unknown", freed |-> 0]
  <2>1. PICK f : f = [Top EXCEPT !.currnode = Len(nodes) + 1, !.type = type]
    OBVIOUS
  <2>2. type \in Modes /\ n \in Inodes \union {0}
    BY <1>6, EntryRange DEF Match, Entry
  <2>3. node \in Node
    BY <2>2 DEF Node
  <2>4. nodes' = Append(nodes, node) /\ pc' = "matched" /\ UNCHANGED <<ret, symlinknest>>
    BY <1>6, <2>0 DEF Match
  <2>5. stack' = [stack EXCEPT ![Depth] = f]
    BY <2>0, <2>1 DEF Top
  <2> HIDE DEF node, type
  <2>6. nodes' \in Seq(Node) /\ Len(nodes') = Len(nodes) + 1 /\ Len(nodes) \in Nat
    BY <1>2, <2>3, <2>4, Sizes DEF Shape
  <2>7. f \in Frame /\ f.names # <<>>
    <3>1. Len(nodes) + 1 \in Nat
      BY <2>6
    <3>2. QED
      BY <1>2, <2>1, <2>2, <3>1 DEF Frame
  <2>8. /\ f.currnode = Len(nodes) + 1
        /\ f.currroot = Top.currroot /\ f.oldnode = Top.oldnode
    BY <1>2, <2>1 DEF Frame
  <2>9. Nodes(f) \subseteq 0 .. Len(nodes')
    BY <1>2, <2>6, <2>8 DEF Nodes
  <2>10. Len(nodes') >= Len(nodes)
    BY <2>6
  <2>11. QED
    BY <1>2, <2>4, <2>5, <2>6, <2>7, <2>9, <2>10, PutShape
<1>7. QED
  BY <1>3, <1>4, <1>5, <1>6 DEF ScanEntry

LEMMA FoundShape == IInv /\ Found => Shape'
<1> SUFFICES ASSUME IInv, Found PROVE Shape'
  OBVIOUS
<1>1. /\ Shape /\ stack # <<>> /\ Top \in Frame /\ Nodes(Top) \subseteq 0 .. Len(nodes)
      /\ symlinknest < MaxNest /\ Top.names # <<>> /\ nodes \in Seq(Node)
  BY TopFits DEF IInv, Shape, Active, Found
<1>2. SameNodes /\ Proceed(Top) /\ symlinknest' = symlinknest
  BY <1>1, FreedNodes DEF Found, SameNodes
<1>3. QED
  BY <1>1, <1>2, ProceedShape

LEMMA FollowShape == ASSUME IInv, NEW t \in Targets, Follow(t) PROVE Shape'
<1>1. /\ Shape /\ stack # <<>> /\ Top \in Frame /\ Nodes(Top) \subseteq 0 .. Len(nodes)
      /\ symlinknest < MaxNest /\ symlinknest \in Nat /\ Top.names # <<>> /\ nodes \in Seq(Node)
      /\ Fits(stack, Len(nodes)) /\ Depth <= symlinknest + 1
      /\ ret \in Return /\ ret.node \in 0 .. Len(nodes)
  BY TopFits DEF IInv, Shape, Active, Follow
<1>2. symlinknest' = symlinknest + 1 /\ symlinknest' < MaxNest
  BY <1>1, BoundAssumption DEF Follow, OneTooMany
<1>3. t.names \in Seq(Names)
  BY TreeAssumption, PathAssumption DEF Targets, Target
<1>4. PICK o : o = LinkRoot(t)
  OBVIOUS
<1>5. o \in 0 .. Len(nodes)
  BY <1>1, <1>4, Sizes DEF LinkRoot, RootNode, Nodes
<1>6. SameNodes
  BY <1>1, FreedNodes DEF Follow, SameNodes
<1>7. PICK f : f = [Top EXCEPT !.oldnode = o]
  OBVIOUS
<1>8. f \in Frame /\ Nodes(f) \subseteq 0 .. Len(nodes) /\ f.names # <<>>
  <2>1. Top \in Frame /\ o \in Nat /\ Top.names # <<>>
    BY <1>1, <1>5, Sizes
  <2>2. /\ f \in Frame /\ f.names = Top.names
        /\ f.currroot = Top.currroot /\ f.currnode = Top.currnode /\ f.oldnode = o
    BY <2>1, <1>7 DEF Frame
  <2>3. Nodes(f) \subseteq Nodes(Top) \union {o}
    BY <2>2 DEF Nodes
  <2>4. QED
    BY <1>1, <1>5, <2>1, <2>2, <2>3
<1>9. PICK st : st = [stack EXCEPT ![Depth] = f]
  OBVIOUS
<1>10. stack' = Append(st, Call(t.names, o)) /\ pc' = "component" /\ ret' = ret
  BY <1>4, <1>7, <1>9 DEF Follow, Top
<1>11. Fits(st, Len(nodes)) /\ Len(st) = Depth /\ st # <<>> /\ st[Len(st)].names # <<>>
  <2>1. Len(nodes) \in Nat /\ st = [stack EXCEPT ![Len(stack)] = f]
    BY <1>1, <1>9, Sizes DEF Depth
  <2>2. Fits(st, Len(nodes)) /\ Len(st) = Len(stack) /\ st # <<>> /\ st[Len(stack)] = f
    BY <1>1, <1>8, <2>1, FitsPut
  <2>3. QED
    BY <1>8, <2>2 DEF Depth
<1>12. Call(t.names, o) \in Frame /\ Nodes(Call(t.names, o)) \subseteq 0 .. Len(nodes)
  BY <1>1, <1>3, <1>5, CallFits, Sizes
<1>13. Fits(stack', Len(nodes)) /\ Len(stack') = Depth + 1
  BY <1>1, <1>10, <1>11, <1>12, FitsPush, Sizes
<1>14. stack' # <<>> /\ Depth' <= symlinknest' + 1 /\ Depth' <= MaxNest
  BY <1>1, <1>2, <1>13, Sizes, BoundAssumption DEF Depth
<1>15. symlinknest' \in 0 .. MaxNest
  BY <1>1, <1>2, BoundAssumption
<1>16. QED
  BY <1>1, <1>2, <1>6, <1>10, <1>13, <1>14, <1>15 DEF Shape, Active, SameNodes

LEMMA LinkShape == IInv /\ Link => Shape'
<1> SUFFICES ASSUME IInv, Link PROVE Shape'
  OBVIOUS
<1>1. pc = "matched"
  BY DEF Link, TooManyLinks, LinkFails, LinkHangs, Follow
<1>2. Shape /\ stack # <<>> /\ symlinknest < MaxNest /\ symlinknest \in Nat /\ nodes \in Seq(Node)
  BY <1>1 DEF IInv, Shape, Active
<1>3. CASE TooManyLinks \/ LinkFails
  <2>1. SameNodes /\ Leave(Failure)
    BY <1>2, <1>3, FreedNodes DEF TooManyLinks, LinkFails, SameNodes
  <2>2. symlinknest' \in symlinknest .. MaxNest
    BY <1>2, <1>3, BoundAssumption DEF TooManyLinks, LinkFails
  <2>3. QED
    BY <1>2, <2>1, <2>2, FailShape
<1>4. CASE LinkHangs
  <2>1. UNCHANGED <<stack, nodes, ret>> /\ symlinknest' = symlinknest + 1 /\ pc' = "hung"
    BY <1>4 DEF LinkHangs, OutOfMemory
  <2>2. symlinknest' \in 0 .. MaxNest /\ Depth' <= symlinknest' + 1
    BY <1>2, <2>1, Sizes, BoundAssumption DEF Shape, Depth
  <2>3. QED
    BY <1>2, <2>1, <2>2 DEF Shape, Active, Depth
<1>5. CASE \E t \in Targets : Follow(t)
  BY <1>5, FollowShape
<1>6. QED
  BY <1>3, <1>4, <1>5 DEF Link

LEMMA ReturnShape == IInv /\ Returning => Shape'
<1> SUFFICES ASSUME IInv, Returning PROVE Shape'
  OBVIOUS
<1>1. pc = "return" /\ UNCHANGED symlinknest
  BY DEF Returning, Resume, ResumeFails, OpenFails, OpenUnread, Opened, walk
<1>2. /\ Shape /\ nodes \in Seq(Node) /\ ret \in Return /\ ret.node \in 0 .. Len(nodes)
      /\ ret.ok => symlinknest < MaxNest
      /\ stack # <<>> => Top.names # <<>>
  BY <1>1 DEF IInv, Shape
<1>3. CASE Resume
  <2>0. stack # <<>> /\ Top \in Frame /\ Nodes(Top) \subseteq 0 .. Len(nodes)
    BY <1>2, <1>3, TopFits DEF Resume
  <2>1. PICK f : f = [Top EXCEPT !.currnode = ret.node,
                                 !.type = IF ret.type = Same THEN @ ELSE ret.type]
    OBVIOUS
  <2>2. ret.node \in Nat /\ ret.type \in Modes \union {Same}
    BY <1>2, Sizes DEF Return
  <2>3. f \in Frame /\ f.names = Top.names
    BY <2>0, <2>1, <2>2 DEF Frame
  <2>4. f.currnode = ret.node /\ f.currroot = Top.currroot /\ f.oldnode = Top.oldnode
    BY <2>0, <2>1 DEF Frame
  <2>5. Nodes(f) \subseteq 0 .. Len(nodes)
    BY <1>2, <2>0, <2>4 DEF Nodes
  <2>6. SameNodes /\ Proceed(f)
    BY <1>2, <1>3, <2>1, FreedNodes DEF Resume, SameNodes
  <2>7. symlinknest < MaxNest
    BY <1>2, <1>3 DEF Resume
  <2>8. QED
    BY <1>1, <1>2, <2>0, <2>3, <2>5, <2>6, <2>7, ProceedShape
<1>4. CASE ResumeFails
  BY <1>1, <1>2, <1>4, FreedNodes, FailShape, NestStays DEF ResumeFails, SameNodes
<1>5. CASE OpenFails \/ OpenUnread \/ Opened
  <2>1. SameNodes /\ UNCHANGED <<stack, ret>> /\ pc' = "done"
    BY <1>2, <1>5, FreedNodes DEF OpenFails, OpenUnread, Opened, SameNodes, walk
  <2>2. QED
    BY <1>1, <1>2, <2>1 DEF Shape, SameNodes, Active, Depth
<1>6. QED
  BY <1>3, <1>4, <1>5 DEF Returning

-----------------------------------------------------------------------------
(* The other variables *)

LEMMA RestFault == Rest /\ Fault => faults' \in 0 .. MaxFaults /\ failed' \in BOOLEAN
                                    /\ astray' \in BOOLEAN
BY BoundAssumption DEF Rest, Fault

LEMMA RestUnread ==
    ASSUME NEW n, Rest, InodeUnread(n)
    PROVE  faults' \in 0 .. MaxFaults /\ failed' \in BOOLEAN /\ astray' \in BOOLEAN
BY RestFault DEF InodeUnread, NoFault, hist, Rest

LEMMA RestAllocate == Rest /\ Allocate => pool' \in 0 .. Pool
BY BoundAssumption DEF Rest, Allocate, Room

LEMMA RestStep == IInv /\ Next => Rest'
<1> SUFFICES ASSUME IInv, Next PROVE Rest'
  OBVIOUS
<1>0. Rest /\ Shape
  BY DEF IInv
<1>1. CASE \E p \in Paths : Open(p)
  <2>1. PICK p \in Paths : Open(p)
    BY <1>1
  <2>2. p \in Seq(Names)
    BY PathAssumption
  <2>3. QED
    BY <1>0, <2>1, <2>2 DEF Open, Rest
<1>2. CASE EmptyPath \/ NotADirectory \/ Found \/ Resume \/ ResumeFails \/ NotFound
           \/ TooManyLinks \/ OpenFails
  BY <1>0, <1>2 DEF EmptyPath, NotADirectory, Found, Resume, ResumeFails, NotFound,
                    TooManyLinks, OpenFails, hist, Rest
<1>3. CASE Iterate \/ Nameless
  <2>1. UNCHANGED <<path, pool, result, faults, failed, astray>> /\ scan' \in {1, scan + 1}
    BY <1>3 DEF Iterate, Nameless, hist
  <2>2. QED
    BY <1>0, <2>1 DEF Rest
<1>4. CASE IterateFails \/ LinkFails \/ OpenUnread
  <2>1. UNCHANGED <<path, scan, pool, result>> /\ \E n : InodeUnread(n)
    BY <1>4 DEF IterateFails, LinkFails, OpenUnread
  <2>2. QED
    BY <1>0, <2>1, RestUnread DEF Rest
<1>5. CASE EntryFails
  <2>1. UNCHANGED <<path, scan, pool, result>> /\ Fault
    BY <1>5 DEF EntryFails
  <2>2. QED
    BY <1>0, <2>1, RestFault DEF Rest
<1>6. CASE TypeFails
  <2>1. UNCHANGED <<path, scan, result>> /\ Allocate /\ InodeUnread(This.ino)
    BY <1>6 DEF TypeFails
  <2>2. QED
    BY <1>0, <2>1, RestUnread, RestAllocate DEF Rest
<1>7. CASE Pass \/ Match
  <2>1. /\ UNCHANGED <<path, result, faults, failed>> /\ Allocate
        /\ scan' \in {scan, scan + 1}
    BY <1>7 DEF Pass, Match, hist
  <2>2. astray' = astray \/ astray' = (astray \/ Deleted(This))
    BY <1>7, Zenon DEF Pass, Match, hist
  <2>3. astray' \in BOOLEAN
    BY <1>0, <2>2, Zenon DEF Rest, Deleted
  <2>4. QED
    BY <1>0, <2>1, <2>3, RestAllocate DEF Rest
<1>8. CASE EntryHangs \/ LinkHangs
  <2>1. UNCHANGED <<path, scan, pool, result, faults, failed, astray>>
    BY <1>8 DEF EntryHangs, LinkHangs, OutOfMemory, hist, walk
  <2>2. QED
    BY <1>0, <2>1 DEF Rest
<1>9. CASE \E t \in Targets : Follow(t)
  <2>1. PICK t \in Targets : Follow(t)
    BY <1>9
  <2>2. UNCHANGED <<path, scan, result>> /\ Allocate /\ ReadTarget(t)
    BY <2>1 DEF Follow
  <2>3. faults' \in 0 .. MaxFaults /\ failed' \in BOOLEAN /\ astray' \in BOOLEAN
    <3>1. \/ UNCHANGED <<faults, failed, astray>>
          \/ /\ faults < MaxFaults /\ faults' = faults + 1
             /\ failed' = TRUE /\ astray' = TRUE
      BY <2>2, Zenon DEF ReadTarget, NoFault, hist
    <3>2. faults' \in 0 .. MaxFaults
      BY <1>0, <3>1, BoundAssumption DEF Rest
    <3>3. failed' \in BOOLEAN /\ astray' \in BOOLEAN
      BY <1>0, <3>1, Zenon DEF Rest
    <3>4. QED
      BY <3>2, <3>3
  <2>4. QED
    BY <1>0, <2>2, <2>3, RestAllocate DEF Rest
<1>10. CASE Opened
  <2>1. /\ UNCHANGED <<path, scan, pool, faults, failed, astray>>
        /\ result' = InodeOf(ret.node) /\ pc = "return"
    BY <1>10 DEF Opened, walk, hist
  <2>2. InodeOf(ret.node) \in Inodes \union {0}
    BY <1>0, InodeRange DEF Shape
  <2>3. QED
    BY <1>0, <2>1, <2>2 DEF Rest
<1>11. QED
  BY <1>1, <1>2, <1>3, <1>4, <1>5, <1>6, <1>7, <1>8, <1>9, <1>10
     DEF Next, Lookup, Component, ScanEntry, Link, Returning

-----------------------------------------------------------------------------
(* Theorems *)

LEMMA IInit == Init => IInv
<1> SUFFICES ASSUME Init PROVE IInv
  OBVIOUS
<1>1. stack = <<>> /\ nodes = <<>> /\ ret = Failure /\ pc = "idle" /\ symlinknest = 0
  BY DEF Init
<1>2. Fits(stack, Len(nodes)) /\ Depth = 0
  BY <1>1 DEF Fits, Depth
<1>3. ret \in Return /\ ret.node = 0
  BY <1>1 DEF Failure, Return, Same
<1>4. Shape
  BY <1>1, <1>2, <1>3, BoundAssumption DEF Shape, Active
<1>5. Rest
  <2>1. /\ path = <<>> /\ scan = 1 /\ pool = 0 /\ result = 0
        /\ faults = 0 /\ failed = FALSE /\ astray = FALSE
    BY DEF Init
  <2>2. path \in Seq(Names)
    BY <2>1
  <2>3. scan \in Nat \ {0} /\ pool \in 0 .. Pool /\ faults \in 0 .. MaxFaults
    BY <2>1, BoundAssumption
  <2>4. result \in Inodes \union {0} /\ failed \in BOOLEAN /\ astray \in BOOLEAN
    BY <2>1, Zenon
  <2>5. QED
    BY <2>2, <2>3, <2>4, Zenon DEF Rest
<1>6. QED
  BY <1>4, <1>5 DEF IInv

LEMMA IStep == IInv /\ [Next]_vars => IInv'
<1> SUFFICES ASSUME IInv, [Next]_vars PROVE IInv'
  OBVIOUS
<1>1. CASE Next
  BY <1>1, RestStep, OpenShape, ComponentShape, EntryShape, FoundShape, LinkShape, ReturnShape
     DEF Next, Lookup, IInv
<1>2. CASE UNCHANGED vars
  <2>1. UNCHANGED <<pc, path, stack, scan, nodes, ret, symlinknest, pool, result, faults,
                    failed, astray>>
    BY <1>2 DEF vars, walk, hist
  <2>2. QED
    BY <2>1 DEF IInv, Rest, Shape, Active, Top, Depth, InodeOf
<1>3. QED
  BY <1>1, <1>2

\* The walk of ext2fs_find_file1 keeps its nodes within those it was given, its
\* count of links within the limit and all else to its type.
THEOREM TypeCorrect == Spec => []TypeOK
<1>1. IInv => TypeOK
  BY DEF IInv, Rest, Shape, TypeOK, Fits, Nodes
<1>2. QED
  BY IInit, IStep, <1>1, PTL DEF Spec

\* Whatever the links of a file system say, and whatever fails, the calls of
\* ext2fs_find_file1 nest no deeper than its limit on links.
THEOREM RecursionIsBounded == Spec => []CallsAreBounded
<1>1. IInv => CallsAreBounded
  BY DEF IInv, Shape, CallsAreBounded
<1>2. QED
  BY IInit, IStep, <1>1, PTL DEF Spec

-----------------------------------------------------------------------------
(* Who owns a node *)

\* Of stack st and nodes nd: node n is not freed; n was handed out after all
\* that the first m calls hold; the directory in which call k begins.
Alive(nd, n) == n = RootNode \/ nd[n].freed = 0
Above(st, n, m) == n = RootNode \/ \A k \in 1 .. m : st[k].oldnode < n
Origin(st, k) == IF k = 1 THEN RootNode ELSE st[k - 1].oldnode

\* Call k holds n: it was lent by the caller, or is its own.
Good(st, nd, n, k) == Alive(nd, n) /\ (n = Origin(st, k) \/ Above(st, n, k - 1))

\* The first m calls wait for the end of a link.
Base(st, nd, m) ==
    \A k \in 1 .. m :
        /\ st[k].currroot = Origin(st, k) /\ st[k].type = "link"
        /\ Good(st, nd, st[k].oldnode, k)

Below(st, m) == {st[k].oldnode : k \in 1 .. m}
Left(nd) == {n \in DOMAIN nd : nd[n].freed = 0}
Once(nd) == \A n \in DOMAIN nd : nd[n].freed <= 1

\* No node is left but those the calls hold, and those in ns.
Holds(st, nd, m, ns) == Base(st, nd, m) /\ Left(nd) \subseteq Below(st, m) \union ns

Owned == ~astray =>
    /\ Once(nodes)
    /\ result # 0 => pc = "done"
    /\ Active => Top.currroot = Origin(stack, Depth)
    /\ pc \in {"component", "entry"} =>
          /\ Holds(stack, nodes, Depth - 1, {Top.currnode})
          /\ Good(stack, nodes, Top.currnode, Depth)
          /\ Top.currnode = RootNode => Top.type # "reg"
    /\ pc = "component" /\ Top.names = <<>> => Top.currnode = RootNode
    /\ pc = "entry" => Top.oldnode = Top.currnode
    /\ pc = "matched" =>
          /\ Holds(stack, nodes, Depth - 1, {Top.currnode, Top.oldnode})
          /\ Good(stack, nodes, Top.oldnode, Depth)
          /\ Alive(nodes, Top.currnode) /\ Above(stack, Top.currnode, Depth - 1)
          /\ Top.currnode # RootNode /\ Top.oldnode < Top.currnode
          /\ Top.type = "link" => Tree[InodeOf(Top.currnode)].mode = "link"
    /\ pc = "return" /\ ret.ok =>
          /\ Holds(stack, nodes, Depth, {ret.node})
          /\ Alive(nodes, ret.node) /\ Above(stack, ret.node, Depth)
          /\ ret.node = RootNode => ret.type # "reg"
    /\ pc = "return" /\ ~ret.ok => \E x \in Nat : Holds(stack, nodes, Depth, {x})
    /\ pc = "done" => /\ \E x \in Nat : Left(nodes) \subseteq {x}
                      /\ result # 0 => Left(nodes) = {ret.node}

\* What is said of the first m calls depends on them only.
LEMMA SameBelow ==
    ASSUME NEW st, NEW su, NEW nd, NEW m \in Nat, \A k \in 1 .. m : su[k] = st[k]
    PROVE  /\ Below(su, m) = Below(st, m)
           /\ \A n : Above(su, n, m) <=> Above(st, n, m)
           /\ Origin(su, m + 1) = Origin(st, m + 1)
           /\ Base(st, nd, m) => Base(su, nd, m)
<1>1. Below(su, m) = Below(st, m)
  BY DEF Below
<1>2. \A n : Above(su, n, m) <=> Above(st, n, m)
  BY DEF Above
<1>3. Origin(su, m + 1) = Origin(st, m + 1)
  BY DEF Origin
<1>4. ASSUME Base(st, nd, m) PROVE Base(su, nd, m)
  <2> SUFFICES ASSUME NEW k \in 1 .. m
               PROVE  /\ su[k].currroot = Origin(su, k) /\ su[k].type = "link"
                      /\ Good(su, nd, su[k].oldnode, k)
    BY DEF Base
  <2>1. /\ st[k].currroot = Origin(st, k) /\ st[k].type = "link"
        /\ Good(st, nd, st[k].oldnode, k)
    BY <1>4 DEF Base
  <2>2. su[k] = st[k]
    OBVIOUS
  <2>3. Origin(su, k) = Origin(st, k)
    BY DEF Origin
  <2>4. \A n : Above(st, n, k - 1) => Above(su, n, k - 1)
    BY DEF Above
  <2>5. QED
    BY <2>1, <2>2, <2>3, <2>4 DEF Good
<1>5. QED
  BY <1>1, <1>2, <1>3, <1>4

\* Nodes are freed that none of the first m calls hold.
Less(nd, ns) ==
    [n \in DOMAIN nd |-> IF n \in ns THEN [nd[n] EXCEPT !.freed = @ + 1] ELSE nd[n]]

LEMMA FreedIs == nodes \in Seq(Node) => /\ \A ns, r : Freed(ns, r) = Less(nodes, ns \ {r})
                                        /\ nodes = Less(nodes, {})
<1> SUFFICES ASSUME nodes \in Seq(Node) PROVE nodes = Less(nodes, {})
  BY DEF Freed, Less
<1>1. nodes = [n \in DOMAIN nodes |-> nodes[n]]
  OBVIOUS
<1>2. QED
  BY <1>1 DEF Less

LEMMA LessIs ==
    ASSUME NEW nd \in Seq(Node), NEW ns, Once(nd), \A n \in ns : Alive(nd, n)
    PROVE  /\ Once(Less(nd, ns))
           /\ Left(Less(nd, ns)) = Left(nd) \ ns
           /\ \A n \in 0 .. Len(nd) : Alive(nd, n) /\ n \notin ns => Alive(Less(nd, ns), n)
<1> DEFINE ne == Less(nd, ns)
<1>1. DOMAIN ne = DOMAIN nd /\ DOMAIN nd = 1 .. Len(nd) /\ Len(nd) \in Nat
  BY DEF Less
<1>2. \A n \in DOMAIN nd :
          ne[n].freed = IF n \in ns THEN nd[n].freed + 1 ELSE nd[n].freed
  <2> TAKE n \in DOMAIN nd
  <2>1. PICK d : d = nd[n]
    OBVIOUS
  <2>2. d \in Node /\ ne[n] = IF n \in ns THEN [d EXCEPT !.freed = @ + 1] ELSE d
    BY <2>1 DEF Less
  <2>3. QED
    BY <2>1, <2>2 DEF Node
<1>3. \A n \in DOMAIN nd : nd[n].freed \in Nat
  <2> TAKE n \in DOMAIN nd
  <2>1. nd[n] \in Node
    OBVIOUS
  <2>2. QED
    BY <2>1 DEF Node
<1>4. \A n \in DOMAIN nd : n \in ns => nd[n].freed = 0
  BY <1>1 DEF Alive, RootNode
<1> HIDE DEF ne
<1>5. Once(ne)
  BY <1>1, <1>2, <1>3, <1>4 DEF Once
<1>6. Left(ne) = Left(nd) \ ns
  BY <1>1, <1>2, <1>3, <1>4 DEF Left
<1>7. \A n \in 0 .. Len(nd) : Alive(nd, n) /\ n \notin ns => Alive(ne, n)
  BY <1>1, <1>2 DEF Alive, RootNode
<1>8. QED
  BY <1>5, <1>6, <1>7 DEF ne

LEMMA BaseLess ==
    ASSUME NEW st, NEW nd \in Seq(Node), NEW ns, NEW m \in Nat, Once(nd), Base(st, nd, m),
           \A k \in 1 .. m : st[k].oldnode \in 0 .. Len(nd),
           \A n \in ns : Alive(nd, n) /\ Above(st, n, m)
    PROVE  Base(st, Less(nd, ns), m)
<1> SUFFICES ASSUME NEW k \in 1 .. m PROVE Alive(Less(nd, ns), st[k].oldnode)
  BY DEF Base, Good
<1>1. st[k].oldnode \in 0 .. Len(nd) /\ Alive(nd, st[k].oldnode)
  BY DEF Base, Good
<1>2. CASE st[k].oldnode \in ns
  <2>1. st[k].oldnode = RootNode
    BY <1>1, <1>2 DEF Above
  <2>2. QED
    BY <2>1 DEF Alive
<1>3. CASE st[k].oldnode \notin ns
  BY <1>1, <1>3, LessIs
<1>4. QED
  BY <1>2, <1>3

\* Freeing nodes of call m + 1: the directory it was lent stays, the others go,
\* and nothing below notices.
LEMMA FreeGood ==
    ASSUME NEW st, NEW su, NEW nd \in Seq(Node), NEW m \in Nat, NEW xs, NEW ns,
           Once(nd), Holds(st, nd, m, xs),
           \A k \in 1 .. m : st[k].oldnode \in 0 .. Len(nd) /\ su[k] = st[k],
           \A n \in ns : Good(st, nd, n, m + 1)
    PROVE  LET ne == Less(nd, ns \ {Origin(st, m + 1)}) IN
           /\ Once(ne) /\ Holds(su, ne, m, xs \ ns)
           /\ \A n \in 0 .. Len(nd) :
                 Good(st, nd, n, m + 1) /\ (n = Origin(st, m + 1) \/ n \notin ns)
                     => Good(su, ne, n, m + 1)
<1> DEFINE o == Origin(st, m + 1)
           gone == ns \ {o}
           ne == Less(nd, gone)
<1>0. m + 1 - 1 = m /\ Len(nd) \in Nat /\ DOMAIN nd = 1 .. Len(nd)
  OBVIOUS
<1>1. \A n \in gone : Alive(nd, n) /\ Above(st, n, m)
  BY <1>0 DEF Good
<1>2. Base(st, nd, m) /\ Left(nd) \subseteq Below(st, m) \union xs
  BY DEF Holds
<1> HIDE DEF gone
<1>3. Base(st, ne, m)
  BY <1>1, <1>2, BaseLess
<1> HIDE DEF o
<1>4. Base(su, ne, m) /\ Below(su, m) = Below(st, m) /\ Origin(su, m + 1) = o
      /\ \A n : Above(su, n, m) <=> Above(st, n, m)
  <2>1. \A k \in 1 .. m : su[k] = st[k]
    OBVIOUS
  <2> HIDE DEF ne
  <2>2. QED
    BY <2>1, <1>3, SameBelow DEF o
<1>5. /\ Once(ne) /\ Left(ne) = Left(nd) \ gone
      /\ \A n \in 0 .. Len(nd) : Alive(nd, n) /\ n \notin gone => Alive(ne, n)
  BY <1>1, LessIs
<1>6. o \in Left(nd) => o \in Below(st, m)
  <2> SUFFICES ASSUME o \in Left(nd) PROVE o \in Below(st, m)
    OBVIOUS
  <2>1. o # RootNode
    BY <1>0 DEF Left, RootNode
  <2>2. m + 1 # 1 /\ o = st[m].oldnode
    BY <2>1, <1>0 DEF o, Origin
  <2>3. m \in 1 .. m
    BY <2>2
  <2>4. QED
    BY <2>2, <2>3 DEF Below
<1>7. Left(ne) \subseteq Below(su, m) \union (xs \ ns)
  BY <1>2, <1>4, <1>5, <1>6 DEF gone
<1>8. ASSUME NEW n \in 0 .. Len(nd), Good(st, nd, n, m + 1), n = o \/ n \notin ns
      PROVE  Good(su, ne, n, m + 1)
  <2>1. Alive(nd, n) /\ (n = o \/ Above(st, n, m))
    BY <1>0, <1>8 DEF Good, o
  <2>2. n \notin gone
    BY <1>8 DEF gone
  <2>3. Alive(ne, n)
    BY <2>1, <2>2, <1>5
  <2>4. QED
    BY <2>1, <2>3, <1>0, <1>4 DEF Good
<1>9. QED
  BY <1>4, <1>5, <1>7, <1>8 DEF Holds, o, gone

-----------------------------------------------------------------------------
(* Arriving in a state *)

\* The calls that wait for the innermost one.
Waiting == Depth - 1

LEMMA WaitingFits ==
    Shape /\ stack # <<>> =>
        /\ Waiting \in Nat /\ Waiting + 1 = Depth /\ nodes \in Seq(Node)
        /\ \A k \in 1 .. Waiting : stack[k].oldnode \in 0 .. Len(nodes)
BY TopFits DEF Waiting, Shape, Fits, Nodes, Depth

LEMMA LeaveWaiting ==
    ASSUME Shape, stack # <<>>, NEW r, Leave(r)
    PROVE  Len(stack') = Waiting /\ \A k \in 1 .. Waiting : stack'[k] = stack[k]
<1>1. stack \in Seq(Frame) /\ Waiting \in Nat /\ Waiting + 1 = Depth /\ Depth = Len(stack)
  BY WaitingFits DEF Shape, Fits, Depth
<1>2. stack' = SubSeq(stack, 1, Waiting)
  BY DEF Leave, Waiting
<1> HIDE DEF Waiting
<1>3. /\ Len(stack') = IF 1 <= Waiting THEN Waiting - 1 + 1 ELSE 0
      /\ \A k \in 1 .. Waiting - 1 + 1 : stack'[k] = stack[1 + k - 1]
  <2>1. 1 \in 1 .. Len(stack) + 1 /\ Waiting \in 1 - 1 .. Len(stack)
    BY <1>1
  <2>2. \A k \in 1 .. Waiting : k \in 1 .. Len(stack)
    BY <1>1
  <2>3. QED
    BY <1>1, <1>2, <2>1, <2>2, SubSeqProperties
<1>4. QED
  BY <1>1, <1>3

LEMMA PutWaiting ==
    ASSUME Shape, stack # <<>>, NEW f, stack' = [stack EXCEPT ![Depth] = f]
    PROVE  /\ Len(stack') = Depth /\ stack'[Depth] = f
           /\ \A k \in 1 .. Waiting : stack'[k] = stack[k]
<1>1. stack \in Seq(Frame) /\ Len(stack) \in Nat \ {0} /\ Depth = Len(stack)
  BY TopFits DEF Shape, Fits, Depth
<1>2. QED
  BY <1>1 DEF Waiting

LEMMA OwnedLeave ==
    ASSUME Shape, stack # <<>>, NEW r, NEW x \in Nat, Leave(r), result' = 0, Once(nodes'),
           \A su : (\A k \in 1 .. Waiting : su[k] = stack[k]) => Holds(su, nodes', Waiting, {x}),
           r.ok => /\ r.node = x /\ Alive(nodes', x) /\ Above(stack, x, Waiting)
                   /\ x = RootNode => r.type # "reg"
    PROVE  Owned'
<1>1. Len(stack') = Waiting /\ \A k \in 1 .. Waiting : stack'[k] = stack[k]
  BY LeaveWaiting
<1>2. Holds(stack', nodes', Waiting, {x}) /\ Waiting \in Nat
  BY <1>1, WaitingFits
<1>3. Above(stack, x, Waiting) => Above(stack', x, Waiting)
  BY <1>1, <1>2, SameBelow
<1>4. pc' = "return" /\ ret' = r
  BY DEF Leave
<1> HIDE DEF Waiting
<1>5. QED
  BY <1>1, <1>2, <1>3, <1>4 DEF Owned, Active, Depth

LEMMA GoodIs ==
    ASSUME NEW st, NEW nd, NEW n, NEW m \in Nat
    PROVE  Good(st, nd, n, m + 1) <=> Alive(nd, n) /\ (n = Origin(st, m + 1) \/ Above(st, n, m))
<1>1. m + 1 - 1 = m
  OBVIOUS
<1>2. QED
  BY <1>1 DEF Good

LEMMA OriginIs ==
    ASSUME NEW st, NEW m \in Nat \ {0} PROVE Origin(st, m + 1) = st[m].oldnode
<1>1. m + 1 # 1 /\ m + 1 - 1 = m
  OBVIOUS
<1>2. QED
  BY <1>1 DEF Origin

LEMMA SameHolds ==
    ASSUME NEW st, NEW su, NEW nd, NEW m \in Nat, NEW xs, Holds(st, nd, m, xs),
           \A k \in 1 .. m : su[k] = st[k]
    PROVE  Holds(su, nd, m, xs)
BY SameBelow DEF Holds

\* What is owned while a component is looked for, and once it is found.
LEMMA WalkOwned ==
    ASSUME IInv, Owned, ~astray, pc \in {"component", "entry"}
    PROVE  /\ Shape /\ stack # <<>> /\ result = 0 /\ Once(nodes)
           /\ Top \in Frame /\ Top.currnode \in 0 .. Len(nodes) /\ Top.currnode \in Nat
           /\ Waiting \in Nat /\ Waiting + 1 = Depth
           /\ Top.currroot = Origin(stack, Waiting + 1)
           /\ Holds(stack, nodes, Waiting, {Top.currnode})
           /\ Good(stack, nodes, Top.currnode, Waiting + 1)
           /\ Top.currnode = RootNode => Top.type # "reg"
<1>1. Shape /\ stack # <<>> /\ Active
  BY DEF IInv, Shape, Active
<1>2. Top \in Frame /\ Nodes(Top) \subseteq 0 .. Len(nodes) /\ Waiting + 1 = Depth /\ Waiting \in Nat
  BY <1>1, TopFits, WaitingFits
<1>3. Top.currnode \in 0 .. Len(nodes) /\ Top.currnode \in Nat
  BY <1>2 DEF Nodes, Frame
<1>4. result = 0
  BY DEF Owned
<1>5. QED
  BY <1>1, <1>2, <1>3, <1>4 DEF Owned, Waiting

LEMMA MatchedOwned ==
    ASSUME IInv, Owned, ~astray, pc = "matched"
    PROVE  /\ Shape /\ stack # <<>> /\ result = 0 /\ Once(nodes)
           /\ Top \in Frame /\ Nodes(Top) \subseteq 0 .. Len(nodes) /\ Top.names # <<>>
           /\ Waiting \in Nat /\ Waiting + 1 = Depth
           /\ Top.currroot = Origin(stack, Waiting + 1)
           /\ Holds(stack, nodes, Waiting, {Top.currnode, Top.oldnode})
           /\ Good(stack, nodes, Top.oldnode, Waiting + 1)
           /\ Good(stack, nodes, Top.currnode, Waiting + 1)
           /\ Above(stack, Top.currnode, Waiting)
           /\ Top.currnode # RootNode /\ Top.oldnode < Top.currnode
<1>1. Shape /\ stack # <<>> /\ Active /\ Top.names # <<>>
  BY DEF IInv, Shape, Active
<1>2. Top \in Frame /\ Nodes(Top) \subseteq 0 .. Len(nodes) /\ Waiting + 1 = Depth /\ Waiting \in Nat
  BY <1>1, TopFits, WaitingFits
<1>3. result = 0
  BY DEF Owned
<1>4. Alive(nodes, Top.currnode) /\ Above(stack, Top.currnode, Waiting)
  BY DEF Owned, Waiting
<1>5. Good(stack, nodes, Top.currnode, Waiting + 1)
  BY <1>2, <1>4, GoodIs
<1>6. QED
  BY <1>1, <1>2, <1>3, <1>4, <1>5 DEF Owned, Waiting

\* A failure that frees nothing.
LEMMA OwnedFail ==
    ASSUME Shape, stack # <<>>, NEW x \in Nat, Leave(Failure), result' = 0, Once(nodes),
           UNCHANGED nodes, Holds(stack, nodes, Waiting, {x})
    PROVE  Owned'
<1>1. Waiting \in Nat /\ ~Failure.ok
  BY WaitingFits DEF Failure
<1>2. \A su : (\A k \in 1 .. Waiting : su[k] = stack[k]) => Holds(su, nodes', Waiting, {x})
  BY <1>1, SameHolds
<1>3. QED
  BY <1>1, <1>2, OwnedLeave

\* A failure that frees the nodes in ns.
LEMMA OwnedFreeFail ==
    ASSUME Shape, stack # <<>>, NEW ns, NEW xs, NEW x \in Nat, Leave(Failure), result' = 0,
           Once(nodes), nodes' = Freed(ns, Top.currroot),
           Top.currroot = Origin(stack, Waiting + 1),
           Holds(stack, nodes, Waiting, xs), xs \ ns \subseteq {x},
           \A n \in ns : Good(stack, nodes, n, Waiting + 1)
    PROVE  Owned'
<1>1. /\ Waiting \in Nat /\ ~Failure.ok /\ nodes \in Seq(Node)
      /\ \A k \in 1 .. Waiting : stack[k].oldnode \in 0 .. Len(nodes)
  BY WaitingFits DEF Failure
<1>2. nodes' = Less(nodes, ns \ {Origin(stack, Waiting + 1)})
  BY <1>1, FreedIs
<1>3. ASSUME NEW su, \A k \in 1 .. Waiting : su[k] = stack[k]
      PROVE  Once(nodes') /\ Holds(su, nodes', Waiting, {x})
  <2> DEFINE ne == Less(nodes, ns \ {Origin(stack, Waiting + 1)})
  <2>0. \A k \in 1 .. Waiting : stack[k].oldnode \in 0 .. Len(nodes) /\ su[k] = stack[k]
    BY <1>1, <1>3
  <2>1. Once(ne) /\ Holds(su, ne, Waiting, xs \ ns)
    BY <1>1, <2>0, FreeGood
  <2>2. QED
    BY <1>2, <2>1 DEF Holds
<1>4. Once(nodes')
  BY <1>3
<1>5. QED
  BY <1>1, <1>3, <1>4, OwnedLeave

LEMMA ComponentOwned == ASSUME IInv, Owned, Component, ~astray' PROVE Owned'
<1>1. pc = "component" /\ ~astray /\ result' = result
  BY DEF Component, EmptyPath, NotADirectory, Iterate, IterateFails, InodeUnread, NoFault,
         Fault, hist
<1> DEFINE c == Top.currnode
<1>2. /\ Shape /\ stack # <<>> /\ result = 0 /\ Once(nodes)
      /\ Top \in Frame /\ c \in 0 .. Len(nodes) /\ c \in Nat
      /\ Waiting \in Nat /\ Waiting + 1 = Depth
      /\ Top.currroot = Origin(stack, Waiting + 1)
      /\ Holds(stack, nodes, Waiting, {c})
      /\ Good(stack, nodes, c, Waiting + 1)
      /\ c = RootNode => Top.type # "reg"
  BY <1>1, WalkOwned
<1>3. CASE EmptyPath
  <2> DEFINE r == [ok |-> TRUE, node |-> c, type |-> Same]
  <2>1. c = RootNode
    BY <1>1, <1>3 DEF Owned, EmptyPath
  <2>2. Leave(r) /\ UNCHANGED nodes
    BY <1>3 DEF EmptyPath
  <2>3. Alive(nodes', c) /\ Above(stack, c, Waiting) /\ r.type # "reg" /\ r.node = c
    BY <2>1 DEF Alive, Above, Same
  <2>4. \A su : (\A k \in 1 .. Waiting : su[k] = stack[k]) => Holds(su, nodes', Waiting, {c})
    BY <1>2, <2>2, SameHolds
  <2> HIDE DEF r, c
  <2>5. QED
    BY <1>1, <1>2, <2>2, <2>3, <2>4, OwnedLeave
<1>4. CASE NotADirectory
  <2>1. nodes' = Freed({c}, Top.currroot) /\ Leave(Failure)
    BY <1>4 DEF NotADirectory
  <2> HIDE DEF c
  <2>2. {c} \ {c} \subseteq {c} /\ \A n \in {c} : Good(stack, nodes, n, Waiting + 1)
    BY <1>2
  <2>3. QED
    BY <1>1, <1>2, <2>1, <2>2, OwnedFreeFail
<1>5. CASE Iterate
  <2>1. PICK f : f = [Top EXCEPT !.oldnode = c]
    OBVIOUS
  <2>2. /\ f.currroot = Top.currroot /\ f.currnode = c /\ f.oldnode = c
        /\ f.type = Top.type
    BY <1>2, <2>1 DEF Frame
  <2>3. /\ stack' = [stack EXCEPT ![Depth] = f] /\ pc' = "entry" /\ UNCHANGED nodes
    BY <1>5, <2>1 DEF Iterate, Top
  <2>4. /\ Len(stack') = Waiting + 1 /\ stack'[Waiting + 1] = f
        /\ \A k \in 1 .. Waiting : stack'[k] = stack[k]
    BY <1>2, <2>3, PutWaiting
  <2> HIDE DEF c, Waiting
  <2>5. Holds(stack', nodes, Waiting, {c})
    BY <1>2, <2>4, SameHolds
  <2>6. Origin(stack', Waiting + 1) = Origin(stack, Waiting + 1)
        /\ \A n : Above(stack, n, Waiting) => Above(stack', n, Waiting)
    BY <1>2, <2>4, SameBelow
  <2>8. Good(stack', nodes, c, Waiting + 1)
    BY <1>2, <2>6, GoodIs
  <2>9. Depth' = Waiting + 1 /\ Top' = f
    BY <2>4 DEF Depth, Top
  <2>10. /\ Top'.currroot = Origin(stack', Depth')
         /\ Holds(stack', nodes', Depth' - 1, {Top'.currnode})
         /\ Good(stack', nodes', Top'.currnode, Depth')
         /\ Top'.currnode = RootNode => Top'.type # "reg"
         /\ Top'.oldnode = Top'.currnode
    <3>1. nodes' = nodes
      BY <2>3
    <3>2. Top'.currnode = c /\ Top'.oldnode = c /\ Top'.type = Top.type
          /\ Top'.currroot = Top.currroot
      BY <2>2, <2>9, Zenon
    <3>3. Depth' - 1 = Waiting
      BY <1>2, <2>9
    <3>4. QED
      BY <1>2, <2>5, <2>6, <2>8, <2>9, <3>1, <3>2, <3>3
  <2>11. Once(nodes') /\ result' = 0
    BY <1>1, <1>2, <2>3
  <2>12. QED
    BY <2>3, <2>10, <2>11 DEF Owned, Active
<1>6. CASE IterateFails
  BY <1>1, <1>2, <1>6, OwnedFail DEF IterateFails
<1>7. QED
  BY <1>3, <1>4, <1>5, <1>6 DEF Component

LEMMA EntryOwned == ASSUME IInv, Owned, ScanEntry, ~astray' PROVE Owned'
<1>1. pc = "entry" /\ ~astray /\ result' = result
  <2>1. pc = "entry" /\ result' = result
    BY DEF ScanEntry, EntryFails, Nameless, TypeFails, Pass, Match, NotFound, EntryHangs,
           HasEntry, OutOfMemory
  <2>2. ~astray
    BY Zenon DEF ScanEntry, EntryFails, Nameless, TypeFails, Pass, Match, NotFound, EntryHangs,
           InodeUnread, NoFault, Fault, hist
  <2>3. QED
    BY <2>1, <2>2
<1> DEFINE c == Top.currnode
<1>2. /\ Shape /\ stack # <<>> /\ result = 0 /\ Once(nodes)
      /\ Top \in Frame /\ c \in 0 .. Len(nodes) /\ c \in Nat
      /\ Waiting \in Nat /\ Waiting + 1 = Depth
      /\ Top.currroot = Origin(stack, Waiting + 1)
      /\ Holds(stack, nodes, Waiting, {c})
      /\ Good(stack, nodes, c, Waiting + 1)
  BY <1>1, WalkOwned
<1>3. Top.oldnode = c
  BY <1>1 DEF Owned
<1>4. CASE EntryFails \/ TypeFails \/ NotFound
  BY <1>1, <1>2, <1>4, OwnedFail DEF EntryFails, TypeFails, NotFound
<1>5. CASE Nameless \/ Pass
  <2>1. UNCHANGED <<pc, stack, nodes, ret, result>>
    BY <1>5 DEF Nameless, Pass
  <2>2. QED
    BY <1>1, <2>1 DEF Owned, Active, Top, Depth, InodeOf
<1>6. CASE EntryHangs
  <2>1. UNCHANGED nodes /\ pc' = "hung"
    BY <1>6 DEF EntryHangs, OutOfMemory, walk
  <2>2. QED
    BY <1>1, <1>2, <2>1 DEF Owned, Active
<1>7. CASE Match
  <2>0. PICK n \in Behind(This) :
            LET unknown == This.type = "unknown" IN
            /\ nodes' = Append(nodes, [ino |-> n, inode_read |-> unknown, freed |-> 0])
            /\ stack' = [stack EXCEPT
                  ![Depth].currnode = Len(nodes) + 1,
                  ![Depth].type = IF unknown THEN Tree[n].mode ELSE This.type]
    BY <1>7, Zenon DEF Match
  <2> DEFINE type == IF This.type = "unknown" THEN Tree[n].mode ELSE This.type
             node == [ino |-> n, inode_read |-> This.type = "unknown", freed |-> 0]
  <2>new. PICK new : new = Len(nodes) + 1
    OBVIOUS
  <2>1. PICK f : f = [Top EXCEPT !.currnode = new, !.type = type]
    OBVIOUS
  <2>2. f.currnode = new /\ f.oldnode = c /\ f.currroot = Top.currroot /\ f.type = type
    BY <1>2, <1>3, <2>1 DEF Frame
  <2>3. stack' = [stack EXCEPT ![Depth] = f] /\ nodes' = Append(nodes, node) /\ pc' = "matched"
    BY <1>7, <2>0, <2>new, <2>1 DEF Top, Match
  <2>4. /\ Depth' = Waiting + 1 /\ Top' = f /\ stack'[Waiting + 1] = f
        /\ \A k \in 1 .. Waiting : stack'[k] = stack[k]
    BY <1>2, <2>3, PutWaiting DEF Depth, Top
  <2>5. This \in Entry /\ n \in Inodes \union {0}
    BY <1>7, EntryRange DEF Match
  <2>6. ~Deleted(This)
    BY <1>7, Zenon DEF Match
  <2>7. type = "link" => Tree[n].mode = "link"
    <3>1. n = This.ino /\ n # 0
      BY <2>6 DEF Behind, Deleted
    <3>2. InodeOf(c) \in Inodes
      BY <1>1, <1>2, InodeRange DEF IInv, Shape
    <3>3. Directory = Tree[InodeOf(c)].entries /\ scan \in DOMAIN Directory
      <4>1. Directory \in Seq(Entry)
        BY <3>2, TreeAssumption DEF Directory
      <4>2. QED
        BY <1>7, <4>1 DEF Directory, Match, HasEntry, IInv, Rest
    <3>4. This.type \in {"unknown", Tree[n].mode}
      BY <3>1, <3>2, <3>3, TreeAssumption DEF This
    <3>5. QED
      BY <3>4
  <2>8. /\ nodes \in Seq(Node) /\ Len(nodes) \in Nat /\ new \in Nat /\ DOMAIN nodes' = 1 .. new
        /\ nodes'[new] = node /\ \A k \in DOMAIN nodes : nodes'[k] = nodes[k]
    BY <2>3, <2>new, <1>2 DEF Shape
  <2> HIDE DEF node, type, c, Waiting
  <2>9. \A k \in 0 .. Len(nodes) : Alive(nodes, k) => Alive(nodes', k)
    BY <2>8 DEF Alive, RootNode
  <2>10. Once(nodes') /\ Left(nodes') \subseteq Left(nodes) \union {new}
    <3>1. \A k \in DOMAIN nodes' : k = new \/ k \in DOMAIN nodes
      BY <2>8, <2>new
    <3>2. nodes'[new].freed = 0
      BY <2>8 DEF node
    <3>3. QED
      BY <1>2, <2>8, <3>1, <3>2 DEF Once, Left
  <2>11. \A k \in 1 .. Waiting : stack[k].oldnode \in 0 .. Len(nodes)
    BY <1>2, WaitingFits
  <2>12. Holds(stack', nodes', Waiting, {new, c})
    <3>1. Holds(stack', nodes, Waiting, {c})
      BY <1>2, <2>4, SameHolds
    <3>2. Base(stack', nodes', Waiting)
      <4>1. Base(stack', nodes, Waiting) /\ \A k \in 1 .. Waiting : stack'[k].oldnode \in 0 .. Len(nodes)
        BY <2>4, <2>11, <3>1 DEF Holds
      <4>2. QED
        BY <2>9, <4>1 DEF Base, Good
    <3>3. QED
      BY <2>10, <3>1, <3>2 DEF Holds
  <2>13. Origin(stack', Waiting + 1) = Origin(stack, Waiting + 1)
         /\ \A k : Above(stack, k, Waiting) => Above(stack', k, Waiting)
    BY <1>2, <2>4, SameBelow
  <2>14. Good(stack', nodes', c, Waiting + 1)
    BY <1>2, <2>9, <2>13, GoodIs
  <2>15. Alive(nodes', new) /\ Above(stack', new, Waiting) /\ new # RootNode /\ c < new
    <3>1. Alive(nodes', new)
      BY <2>8 DEF Alive, node
    <3>2. Above(stack, new, Waiting)
      BY <2>8, <2>11, <2>new DEF Above
    <3>3. new # RootNode /\ c < new
      BY <1>2, <2>8, <2>new DEF RootNode
    <3>4. QED
      BY <2>13, <3>1, <3>2, <3>3
  <2>16. type = "link" => Tree[InodeOf(new)'].mode = "link"
    <3>1. InodeOf(new)' = n
      BY <2>8, <2>15 DEF InodeOf, node
    <3>2. QED
      BY <2>7, <3>1
  <2>17. Depth' - 1 = Waiting
    BY <1>2, <2>4
  <2>18. /\ Top'.currroot = Origin(stack', Depth') /\ Top'.currnode = new /\ Top'.oldnode = c
         /\ Top'.type = type
    BY <1>2, <2>2, <2>4, <2>13
  <2>19. Once(nodes') /\ result' = 0
    BY <1>1, <1>2, <2>10
  <2>20. Tree[InodeOf(Top.currnode)'].mode = Tree[InodeOf(new)'].mode
    BY <2>18 DEF InodeOf
  <2>21. QED
    BY <2>3, <2>4, <2>12, <2>14, <2>15, <2>16, <2>17, <2>18, <2>19, <2>20 DEF Owned, Active
<1>8. QED
  BY <1>4, <1>5, <1>6, <1>7 DEF ScanEntry

\* The end of a component.
LEMMA OwnedProceed ==
    ASSUME Shape, stack # <<>>, NEW f \in Frame, Proceed(f), result' = 0, Once(nodes'),
           f.currroot = Origin(stack, Waiting + 1),
           \A su : (\A k \in 1 .. Waiting : su[k] = stack[k])
                       => Holds(su, nodes', Waiting, {f.currnode}),
           Alive(nodes', f.currnode), Above(stack, f.currnode, Waiting),
           f.currnode = RootNode => f.type # "reg"
    PROVE  Owned'
<1>1. CASE Tail(f.names) = <<>>
  <2> DEFINE r == [ok |-> TRUE, node |-> f.currnode, type |-> f.type]
  <2>1. f.currnode \in Nat
    BY DEF Frame
  <2>2. Leave(r) /\ r.node = f.currnode /\ r.type = f.type
    BY <1>1 DEF Proceed
  <2> HIDE DEF r
  <2>3. QED
    BY <2>1, <2>2, OwnedLeave
<1>2. CASE Tail(f.names) # <<>>
  <2>1. PICK g : g = [f EXCEPT !.names = Tail(@)]
    OBVIOUS
  <2>2. /\ stack' = [stack EXCEPT ![Depth] = g] /\ pc' = "component"
        /\ g.names # <<>> /\ g.currroot = f.currroot /\ g.currnode = f.currnode
        /\ g.type = f.type
    BY <1>2, <2>1 DEF Proceed, Frame
  <2>3. /\ Waiting \in Nat /\ Depth' = Waiting + 1 /\ Top' = g
        /\ \A k \in 1 .. Waiting : stack'[k] = stack[k]
    BY <2>2, PutWaiting, WaitingFits DEF Depth, Top
  <2>4. Origin(stack', Waiting + 1) = Origin(stack, Waiting + 1)
        /\ Above(stack', f.currnode, Waiting)
    BY <2>3, SameBelow
  <2>5. Good(stack', nodes', f.currnode, Waiting + 1)
    BY <2>3, <2>4, GoodIs
  <2>6. Holds(stack', nodes', Waiting, {f.currnode})
    BY <2>3
  <2>7. Depth' - 1 = Waiting
    BY <2>3
  <2>8. /\ Top'.currroot = Origin(stack', Depth') /\ Top'.currnode = f.currnode
        /\ Top'.type = f.type /\ Top'.names # <<>>
    BY <2>2, <2>3, <2>4
  <2>9. QED
    BY <2>2, <2>3, <2>5, <2>6, <2>7, <2>8 DEF Owned, Active
<1>3. QED
  BY <1>1, <1>2

\* The frees of a call, for any stack with the same calls below.
LEMMA OwnedFree ==
    ASSUME Shape, stack # <<>>, NEW ns, NEW xs, Once(nodes),
           nodes' = Freed(ns, Top.currroot), Top.currroot = Origin(stack, Waiting + 1),
           Holds(stack, nodes, Waiting, xs),
           \A n \in ns : Good(stack, nodes, n, Waiting + 1)
    PROVE  /\ Once(nodes')
           /\ \A su : (\A k \in 1 .. Waiting : su[k] = stack[k]) =>
                 /\ Holds(su, nodes', Waiting, xs \ ns)
                 /\ \A n \in 0 .. Len(nodes) : Good(stack, nodes, n, Waiting + 1) /\ n \notin ns
                        => Good(su, nodes', n, Waiting + 1)
<1>1. /\ Waiting \in Nat /\ nodes \in Seq(Node)
      /\ \A k \in 1 .. Waiting : stack[k].oldnode \in 0 .. Len(nodes)
  BY WaitingFits
<1> DEFINE ne == Less(nodes, ns \ {Origin(stack, Waiting + 1)})
<1>2. nodes' = ne
  BY <1>1, FreedIs
<1>3. ASSUME NEW su, \A k \in 1 .. Waiting : su[k] = stack[k]
      PROVE  /\ Once(nodes')
             /\ Holds(su, nodes', Waiting, xs \ ns)
             /\ \A n \in 0 .. Len(nodes) : Good(stack, nodes, n, Waiting + 1) /\ n \notin ns
                    => Good(su, nodes', n, Waiting + 1)
  <2>1. \A k \in 1 .. Waiting : stack[k].oldnode \in 0 .. Len(nodes) /\ su[k] = stack[k]
    BY <1>1, <1>3
  <2>2. /\ Once(ne) /\ Holds(su, ne, Waiting, xs \ ns)
        /\ \A n \in 0 .. Len(nodes) : Good(stack, nodes, n, Waiting + 1) /\ n \notin ns
               => Good(su, ne, n, Waiting + 1)
    BY <1>1, <2>1, FreeGood
  <2> HIDE DEF ne
  <2>3. QED
    BY <1>2, <2>2
<1>4. Once(nodes')
  BY <1>3
<1>5. QED
  BY <1>3, <1>4

LEMMA FoundOwned == ASSUME IInv, Owned, Found, ~astray' PROVE Owned'
<1>1. pc = "matched" /\ ~astray /\ result' = result
  BY DEF Found, hist
<1> DEFINE c == Top.currnode
           o == Top.oldnode
<1>2. /\ Shape /\ stack # <<>> /\ result = 0 /\ Once(nodes)
      /\ Top \in Frame /\ Nodes(Top) \subseteq 0 .. Len(nodes)
      /\ Waiting \in Nat /\ Waiting + 1 = Depth
      /\ Top.currroot = Origin(stack, Waiting + 1)
      /\ Holds(stack, nodes, Waiting, {c, o})
      /\ Good(stack, nodes, o, Waiting + 1) /\ Good(stack, nodes, c, Waiting + 1)
      /\ Above(stack, c, Waiting) /\ c # RootNode /\ o < c
  BY <1>1, MatchedOwned
<1>3. c \in 0 .. Len(nodes) /\ c \notin {o}
  BY <1>2 DEF Nodes, Frame
<1>4. nodes' = Freed({o}, Top.currroot) /\ Proceed(Top)
  BY DEF Found
<1> HIDE DEF c, o
<1>5. /\ Once(nodes')
      /\ \A su : (\A k \in 1 .. Waiting : su[k] = stack[k]) =>
            /\ Holds(su, nodes', Waiting, {c, o} \ {o}) /\ Good(su, nodes', c, Waiting + 1)
  BY <1>2, <1>3, <1>4, OwnedFree
<1>6. {c, o} \ {o} = {c}
  BY <1>3
<1>7. Alive(nodes', c)
  <2>1. Good(stack, nodes', c, Waiting + 1)
    BY <1>5
  <2>2. QED
    BY <2>1 DEF Good
<1>8. QED
  BY <1>1, <1>2, <1>4, <1>5, <1>6, <1>7, OwnedProceed DEF c

LEMMA FollowOwned ==
    ASSUME FullLinks, IInv, Owned, NEW t \in Targets, Follow(t), ~astray' PROVE Owned'
<1>1. pc = "matched" /\ result' = result /\ pc' = "component" /\ Top.type = "link"
      /\ InodeOf(Top.currnode) # 0
  BY DEF Follow
<1>2. ~astray /\ t = Tree[InodeOf(Top.currnode)].target
  <2>1. ReadTarget(t) /\ astray' # TRUE
    BY Zenon DEF Follow
  <2>2. t = Tree[InodeOf(Top.currnode)].target /\ NoFault
    BY <2>1 DEF ReadTarget
  <2>3. astray' = astray
    BY <2>2 DEF NoFault, hist
  <2>4. QED
    BY <2>2, <2>3, Zenon
<1> DEFINE c == Top.currnode
           o == Top.oldnode
           l == LinkRoot(t)
           ns == {c} \union (IF t.abs THEN {o} ELSE {})
<1>3. /\ Shape /\ stack # <<>> /\ result = 0 /\ Once(nodes)
      /\ Top \in Frame /\ Nodes(Top) \subseteq 0 .. Len(nodes)
      /\ Waiting \in Nat /\ Waiting + 1 = Depth
      /\ Top.currroot = Origin(stack, Waiting + 1)
      /\ Holds(stack, nodes, Waiting, {c, o})
      /\ Good(stack, nodes, o, Waiting + 1) /\ Good(stack, nodes, c, Waiting + 1)
      /\ c # RootNode /\ o < c
  BY <1>1, <1>2, MatchedOwned
<1>4. c \in 0 .. Len(nodes) /\ o \in 0 .. Len(nodes) /\ c # o /\ Len(nodes) \in Nat
  BY <1>3, Sizes DEF Nodes, Frame
<1>5. t.names = <<>> => l = RootNode
  <2>1. Tree[InodeOf(c)].mode = "link"
    BY <1>1, <1>2 DEF Owned
  <2>2. InodeOf(c) \in Inodes
    BY <1>1, <1>3, <1>4, InodeRange
  <2>3. t.abs \/ t.names # <<>>
    BY <1>2, <2>1, <2>2 DEF FullLinks
  <2>4. QED
    BY <2>3 DEF LinkRoot
<1>6. l = RootNode \/ (l = o /\ ~t.abs)
  BY DEF LinkRoot
<1>7. nodes' = Freed(ns, Top.currroot)
      /\ stack' = Append([stack EXCEPT ![Depth].oldnode = l], Call(t.names, l))
  BY DEF Follow
<1>8. PICK f : f = [Top EXCEPT !.oldnode = l]
  OBVIOUS
<1>9. f.currroot = Top.currroot /\ f.oldnode = l /\ f.type = "link"
  BY <1>1, <1>3, <1>8 DEF Frame
<1>10. PICK g : g = Call(t.names, l)
  OBVIOUS
<1>11. g.names = t.names /\ g.currroot = l /\ g.currnode = l /\ g.type = "dir"
  BY <1>10 DEF Call
<1>12. stack' = Append([stack EXCEPT ![Depth] = f], g)
  BY <1>7, <1>8, <1>10 DEF Top
<1>13. /\ Len(stack') = Depth + 1 /\ stack'[Depth + 1] = g /\ stack'[Depth] = f
       /\ \A k \in 1 .. Waiting : stack'[k] = stack[k]
  <2>1. stack \in Seq(Frame) /\ Len(stack) \in Nat \ {0} /\ Depth = Len(stack)
    BY <1>3, TopFits DEF Shape, Fits, Depth
  <2>2. PICK su : su = [stack EXCEPT ![Depth] = f]
    OBVIOUS
  <2>3. su \in Seq(Frame \union {f}) /\ Len(su) = Depth /\ su[Depth] = f
        /\ \A k \in 1 .. Waiting : su[k] = stack[k]
    BY <2>1, <2>2 DEF Waiting
  <2>4. stack' = Append(su, g)
    BY <1>12, <2>2
  <2>5. \A k \in 1 .. Waiting : k \in 1 .. Depth
    BY <1>3
  <2>6. Depth \in 1 .. Depth
    BY <2>1
  <2>7. QED
    BY <2>1, <2>3, <2>4, <2>5, <2>6
<1> HIDE DEF c, o, ns
<1>14. \A n \in ns : Good(stack, nodes, n, Waiting + 1)
  BY <1>3 DEF ns
<1>15. /\ Once(nodes') /\ Holds(stack', nodes', Waiting, {c, o} \ ns)
       /\ \A n \in 0 .. Len(nodes) : Good(stack, nodes, n, Waiting + 1) /\ n \notin ns
              => Good(stack', nodes', n, Waiting + 1)
  BY <1>3, <1>7, <1>13, <1>14, OwnedFree
<1> HIDE DEF l
<1>16. Good(stack', nodes', l, Depth)
  <2>1. CASE l = RootNode
    BY <2>1 DEF Good, Alive, Above
  <2>2. CASE l = o /\ ~t.abs
    <3>1. o \notin ns
      BY <1>4, <2>2 DEF ns
    <3>2. QED
      BY <1>3, <1>4, <1>15, <2>2, <3>1
  <2>3. QED
    BY <1>6, <2>1, <2>2
<1>17. Origin(stack', Depth) = Origin(stack, Depth)
  BY <1>3, <1>13, SameBelow
<1>18. Base(stack', nodes', Depth)
  <2> SUFFICES ASSUME NEW k \in 1 .. Depth
               PROVE  /\ stack'[k].currroot = Origin(stack', k) /\ stack'[k].type = "link"
                      /\ Good(stack', nodes', stack'[k].oldnode, k)
    BY DEF Base
  <2>1. CASE k = Depth
    BY <1>3, <1>9, <1>13, <1>16, <1>17, <2>1
  <2>2. CASE k # Depth
    <3>1. k \in 1 .. Waiting
      BY <1>3, <2>2
    <3>2. QED
      BY <1>15, <3>1 DEF Holds, Base
  <2>3. QED
    BY <2>1, <2>2
<1>19. Left(nodes') \subseteq Below(stack', Depth) \union {l}
  <2>1. Left(nodes') \subseteq Below(stack', Waiting) \union ({c, o} \ ns)
    BY <1>15 DEF Holds
  <2>2. Below(stack', Waiting) \subseteq Below(stack', Depth)
    <3>1. \A k \in 1 .. Waiting : k \in 1 .. Depth
      BY <1>3
    <3>2. QED
      BY <3>1 DEF Below
  <2>3. {c, o} \ ns \subseteq {l}
    BY DEF ns, LinkRoot, l, o
  <2>4. QED
    BY <2>1, <2>2, <2>3
<1>20. Depth' = Depth + 1 /\ Top' = g /\ Depth \in Nat /\ Depth # 0
  BY <1>3, <1>13 DEF Depth, Top
<1>21. Origin(stack', Depth + 1) = l
  <2>1. Origin(stack', Depth + 1) = stack'[Depth].oldnode
    BY <1>20, OriginIs
  <2>2. QED
    BY <1>9, <1>13, <2>1
<1>22. Good(stack', nodes', l, Depth + 1)
  BY <1>16, <1>21 DEF Good
<1>23. Depth' - 1 = Depth
  BY <1>20
<1>24. Holds(stack', nodes', Depth, {l})
  BY <1>18, <1>19 DEF Holds
<1>25. Top'.currroot = Origin(stack', Depth') /\ Top'.currnode = l /\ Top'.type = "dir"
       /\ Top'.names = t.names
  BY <1>11, <1>20, <1>21
<1>26. Once(nodes') /\ result' = 0
  BY <1>1, <1>3, <1>15
<1>27. QED
  BY <1>1, <1>5, <1>20, <1>22, <1>23, <1>24, <1>25, <1>26 DEF Owned, Active

LEMMA LinkOwned == ASSUME FullLinks, IInv, Owned, Link, ~astray' PROVE Owned'
<1>1. CASE \E t \in Targets : Follow(t)
  BY <1>1, FollowOwned
<1>2. CASE TooManyLinks \/ LinkFails
  <2> DEFINE c == Top.currnode
             o == Top.oldnode
  <2>1. pc = "matched" /\ result' = result /\ Leave(Failure)
        /\ nodes' = Freed({c, o}, Top.currroot)
    BY <1>2 DEF TooManyLinks, LinkFails
  <2>2. ~astray
    BY <1>2, Zenon DEF TooManyLinks, LinkFails, InodeUnread, NoFault, Fault, hist
  <2>3. /\ Shape /\ stack # <<>> /\ result = 0 /\ Once(nodes)
        /\ Top.currroot = Origin(stack, Waiting + 1)
        /\ Holds(stack, nodes, Waiting, {c, o})
        /\ Good(stack, nodes, o, Waiting + 1) /\ Good(stack, nodes, c, Waiting + 1)
    BY <2>1, <2>2, MatchedOwned
  <2> HIDE DEF c, o
  <2>4. {c, o} \ {c, o} \subseteq {0} /\ \A n \in {c, o} : Good(stack, nodes, n, Waiting + 1)
    BY <2>3
  <2>5. QED
    BY <2>1, <2>3, <2>4, OwnedFreeFail
<1>3. CASE LinkHangs
  <2>1. pc = "matched" /\ pc' = "hung" /\ UNCHANGED <<nodes, result>>
    BY <1>3 DEF LinkHangs, OutOfMemory
  <2>2. ~astray
    BY <1>3, Zenon DEF LinkHangs, hist
  <2>3. Once(nodes') /\ result' = 0
    BY <2>1, <2>2, MatchedOwned
  <2>4. QED
    BY <2>1, <2>3 DEF Owned, Active
<1>4. QED
  BY <1>1, <1>2, <1>3 DEF Link

\* What is owned when a call has returned to another.
LEMMA BackOwned ==
    ASSUME IInv, Owned, ~astray, pc = "return", stack # <<>>, NEW x \in Nat,
           Holds(stack, nodes, Depth, {x})
    PROVE  /\ Shape /\ result = 0 /\ Once(nodes)
           /\ Top \in Frame /\ Nodes(Top) \subseteq 0 .. Len(nodes)
           /\ Waiting \in Nat /\ Waiting + 1 = Depth
           /\ Top.currroot = Origin(stack, Waiting + 1) /\ Top.type = "link"
           /\ Holds(stack, nodes, Waiting, {Top.oldnode, x})
           /\ Good(stack, nodes, Top.oldnode, Waiting + 1)
<1>1. Shape /\ Once(nodes) /\ result = 0
  BY DEF IInv, Owned
<1>2. /\ Top \in Frame /\ Nodes(Top) \subseteq 0 .. Len(nodes) /\ Depth \in Nat \ {0}
      /\ Waiting + 1 = Depth /\ Waiting \in Nat
  BY <1>1, TopFits, WaitingFits
<1>3. /\ Top.currroot = Origin(stack, Depth) /\ Top.type = "link"
      /\ Good(stack, nodes, Top.oldnode, Depth)
  <2>1. Depth \in 1 .. Depth
    BY <1>2
  <2>2. QED
    BY <2>1 DEF Holds, Base, Top
<1>4. Holds(stack, nodes, Waiting, {Top.oldnode, x})
  <2>1. \A k \in 1 .. Depth : k \in 1 .. Waiting \/ k = Depth
    BY <1>2
  <2>2. \A k \in 1 .. Waiting : k \in 1 .. Depth
    BY <1>2
  <2>3. Below(stack, Depth) \subseteq Below(stack, Waiting) \union {Top.oldnode}
    BY <2>1 DEF Below, Top
  <2>4. Base(stack, nodes, Waiting)
    BY <2>2 DEF Holds, Base
  <2>5. QED
    BY <2>3, <2>4 DEF Holds
<1>5. QED
  BY <1>1, <1>2, <1>3, <1>4

LEMMA ResumeOwned == ASSUME IInv, Owned, Resume, ~astray' PROVE Owned'
<1>1. pc = "return" /\ ~astray /\ result' = result /\ stack # <<>> /\ ret.ok
  BY DEF Resume, hist
<1> DEFINE o == Top.oldnode
           r == ret.node
<1>2. /\ Holds(stack, nodes, Depth, {r}) /\ Alive(nodes, r) /\ Above(stack, r, Depth)
      /\ r = RootNode => ret.type # "reg"
  BY <1>1 DEF Owned
<1>3. r \in Nat /\ r \in 0 .. Len(nodes)
  BY <1>1 DEF IInv, Shape, Return
<1>4. /\ Shape /\ result = 0 /\ Once(nodes)
      /\ Top \in Frame /\ Nodes(Top) \subseteq 0 .. Len(nodes)
      /\ Waiting \in Nat /\ Waiting + 1 = Depth
      /\ Top.currroot = Origin(stack, Waiting + 1) /\ Top.type = "link"
      /\ Holds(stack, nodes, Waiting, {o, r})
      /\ Good(stack, nodes, o, Waiting + 1)
  BY <1>1, <1>2, <1>3, BackOwned
<1>5. PICK f : f = [Top EXCEPT !.currnode = ret.node,
                               !.type = IF ret.type = Same THEN @ ELSE ret.type]
  OBVIOUS
<1>6. /\ nodes' = Freed({o}, Top.currroot) /\ Proceed(f)
  BY <1>5 DEF Resume
<1>7. f \in Frame
  BY <1>1, <1>3, <1>4, <1>5 DEF IInv, Shape, Return, Frame
<1>8. f.currnode = r /\ f.currroot = Top.currroot /\ f.type \in {"link", ret.type}
  BY <1>4, <1>5 DEF Frame
<1> HIDE DEF o, r
<1>9. /\ Once(nodes')
      /\ \A su : (\A k \in 1 .. Waiting : su[k] = stack[k]) =>
            /\ Holds(su, nodes', Waiting, {o, r} \ {o})
            /\ \A n \in 0 .. Len(nodes) : Good(stack, nodes, n, Waiting + 1) /\ n \notin {o}
                   => Good(su, nodes', n, Waiting + 1)
  <2>1. \A n \in {o} : Good(stack, nodes, n, Waiting + 1)
    BY <1>4
  <2>2. nodes' = Freed({o}, Top.currroot) /\ stack # <<>> /\ Shape /\ Once(nodes)
    BY <1>1, <1>4, <1>6
  <2>3. QED
    BY <1>4, <2>1, <2>2, OwnedFree, Zenon
<1>10. \A su : (\A k \in 1 .. Waiting : su[k] = stack[k]) => Holds(su, nodes', Waiting, {r})
  BY <1>9 DEF Holds
<1>11. Above(stack, r, Waiting)
  <2>1. \A k \in 1 .. Waiting : k \in 1 .. Depth
    BY <1>4
  <2>2. QED
    BY <1>2, <2>1 DEF Above
<1>12. r = RootNode \/ r # o
  <2>1. Depth \in 1 .. Depth /\ o = stack[Depth].oldnode /\ o \in Nat
    BY <1>4 DEF o, Top, Frame
  <2>2. QED
    BY <1>2, <1>3, <2>1 DEF Above
<1>13. Alive(nodes', r)
  <2>1. CASE r = RootNode
    BY <2>1 DEF Alive
  <2>2. CASE r # RootNode
    <3>1. Good(stack, nodes, r, Waiting + 1)
      BY <1>2, <1>4, <1>11, GoodIs
    <3>2. r \notin {o}
      BY <1>12, <2>2
    <3>3. Good(stack, nodes', r, Waiting + 1)
      BY <1>3, <1>9, <3>1, <3>2
    <3>4. QED
      BY <3>3 DEF Good
  <2>3. QED
    BY <2>1, <2>2
<1>14. r = RootNode => f.type # "reg"
  BY <1>2, <1>8
<1>15. QED
  BY <1>1, <1>4, <1>6, <1>7, <1>8, <1>9, <1>10, <1>11, <1>13, <1>14, OwnedProceed

LEMMA ReturnOwned == ASSUME IInv, Owned, Returning, ~astray' PROVE Owned'
<1>1. pc = "return"
  BY DEF Returning, Resume, ResumeFails, OpenFails, OpenUnread, Opened
<1>2. ~astray
  BY Zenon DEF Returning, Resume, ResumeFails, OpenFails, OpenUnread, Opened, InodeUnread,
               NoFault, Fault, hist
<1>3. PICK x \in Nat : Holds(stack, nodes, Depth, {x}) /\ (ret.ok => x = ret.node)
  <2>1. ret.ok => ret.node \in Nat /\ Holds(stack, nodes, Depth, {ret.node})
    BY <1>1, <1>2 DEF Owned, IInv, Shape, Return
  <2>2. ~ret.ok => \E x \in Nat : Holds(stack, nodes, Depth, {x})
    BY <1>1, <1>2 DEF Owned
  <2>3. QED
    BY <2>1, <2>2, Zenon
<1>4. Once(nodes) /\ result = 0 /\ nodes \in Seq(Node)
  BY <1>1, <1>2 DEF Owned, IInv, Shape
<1>5. CASE Resume
  BY <1>5, ResumeOwned
<1>6. CASE ResumeFails
  <2> DEFINE o == Top.oldnode
  <2>1. stack # <<>> /\ Leave(Failure) /\ nodes' = Freed({o}, Top.currroot) /\ result' = 0
    BY <1>4, <1>6 DEF ResumeFails
  <2>2. /\ Shape /\ Top.currroot = Origin(stack, Waiting + 1)
        /\ Holds(stack, nodes, Waiting, {o, x}) /\ Good(stack, nodes, o, Waiting + 1)
    BY <1>1, <1>2, <1>3, <2>1, BackOwned
  <2> HIDE DEF o
  <2>3. {o, x} \ {o} \subseteq {x} /\ \A n \in {o} : Good(stack, nodes, n, Waiting + 1)
    BY <2>2
  <2>4. QED
    BY <1>4, <2>1, <2>2, <2>3, OwnedFreeFail
<1>7. ASSUME stack = <<>> PROVE Left(nodes) \subseteq {x}
  <2>1. Depth = 0 /\ Below(stack, 0) = {}
    BY <1>7 DEF Depth, Below
  <2>2. QED
    BY <1>3, <2>1 DEF Holds
<1>8. CASE OpenFails \/ OpenUnread
  <2>1. pc' = "done" /\ result' = 0 /\ stack = <<>>
    BY <1>4, <1>8 DEF OpenFails, OpenUnread
  <2>2. nodes' = nodes \/ (ret.ok /\ nodes' = Less(nodes, {ret.node} \ {RootNode}))
    BY <1>4, <1>8, FreedIs DEF OpenFails, OpenUnread
  <2>3. Once(nodes') /\ Left(nodes') \subseteq {x}
    <3>1. CASE nodes' = nodes
      BY <1>4, <1>7, <2>1, <3>1
    <3>2. CASE ret.ok /\ nodes' = Less(nodes, {ret.node} \ {RootNode})
      <4>1. Alive(nodes, ret.node)
        BY <1>1, <1>2, <3>2 DEF Owned
      <4>2. Once(nodes') /\ Left(nodes') = Left(nodes) \ ({ret.node} \ {RootNode})
        BY <1>4, <3>2, <4>1, LessIs
      <4>3. QED
        BY <1>7, <2>1, <4>2
    <3>3. QED
      BY <2>2, <3>1, <3>2
  <2>4. QED
    BY <2>1, <2>3 DEF Owned, Active
<1>9. CASE Opened
  <2>1. /\ pc' = "done" /\ stack = <<>> /\ ret.ok /\ ret.type = "reg"
        /\ UNCHANGED <<nodes, ret>>
    BY <1>9 DEF Opened, walk
  <2>2. Alive(nodes, ret.node) /\ ret.node # RootNode
    BY <1>1, <1>2, <2>1 DEF Owned
  <2>3. ret.node \in DOMAIN nodes
    BY <1>4, <2>2 DEF IInv, Shape, RootNode
  <2>4. Left(nodes) = {ret.node}
    BY <1>3, <1>7, <2>1, <2>2, <2>3 DEF Left, Alive
  <2>5. QED
    BY <1>3, <1>4, <2>1, <2>4 DEF Owned, Active
<1>10. QED
  BY <1>5, <1>6, <1>8, <1>9 DEF Returning

LEMMA OpenOwned == ASSUME NEW p, Open(p) PROVE Owned'
<1>1. /\ pc' = "component" /\ stack' = <<Call(p, RootNode)>> /\ nodes' = <<>>
      /\ result' = 0
  BY DEF Open
<1>2. Depth' = 1 /\ Top' = Call(p, RootNode)
  BY <1>1 DEF Depth, Top
<1>3. Top'.currroot = RootNode /\ Top'.currnode = RootNode /\ Top'.type = "dir"
  BY <1>2 DEF Call
<1>4. Origin(stack', 1) = RootNode
  BY DEF Origin
<1>5. Left(nodes') = {} /\ Once(nodes')
  BY <1>1 DEF Left, Once
<1>6. Holds(stack', nodes', 0, {RootNode})
  BY <1>5 DEF Holds, Base
<1>7. Good(stack', nodes', RootNode, 1)
  BY <1>4 DEF Good, Alive
<1>8. QED
  BY <1>1, <1>2, <1>3, <1>4, <1>5, <1>6, <1>7 DEF Owned, Active

LEMMA OwnedStep == FullLinks /\ IInv /\ Owned /\ [Next]_vars => Owned'
<1> SUFFICES ASSUME FullLinks, IInv, Owned, [Next]_vars, ~astray' PROVE Owned'
  BY DEF Owned
<1>1. CASE \E p \in Paths : Open(p)
  BY <1>1, OpenOwned
<1>2. CASE Lookup
  BY <1>2, ComponentOwned, EntryOwned, FoundOwned, LinkOwned, ReturnOwned DEF Lookup
<1>3. CASE UNCHANGED vars
  <2>1. UNCHANGED <<pc, stack, nodes, ret, result, astray>>
    BY <1>3 DEF vars, walk, hist
  <2>2. QED
    BY <2>1 DEF Owned, Active, Top, Depth, InodeOf
<1>4. QED
  BY <1>1, <1>2, <1>3 DEF Next

\* The frees of ext2fs_find_file1 keep to what is owned: a node goes at most
\* once and never while a call still holds it, and none but that of the file, or
\* of one directory after a failure, is left, if no link is empty.
THEOREM NodesAreOwned ==
    ASSUME FullLinks
    PROVE  Spec => []NodesOwned
<1>1. Init => Owned
  <2> SUFFICES ASSUME Init PROVE Owned
    OBVIOUS
  <2>1. pc = "idle" /\ nodes = <<>> /\ result = 0
    BY DEF Init
  <2>2. QED
    BY <2>1 DEF Owned, Active, Once
<1>2. IInv /\ Owned => NodesOwned
  <2> SUFFICES ASSUME IInv, Owned, ~astray PROVE NodesOwned
    BY DEF NodesOwned
  <2>1. Kept = Left(nodes) /\ \A n \in DOMAIN nodes : nodes[n].freed <= 1
    BY DEF Kept, Left, Owned, Once
  <2>2. \A n \in 1 .. Len(nodes) : Alive(nodes, n) => n \in Kept
    BY DEF Kept, Alive, RootNode, IInv, Shape
  <2>3. ASSUME NEW n \in 0 .. Len(nodes), Alive(nodes, n)
        PROVE  {n} \ {RootNode} \subseteq Kept
    <3>1. n = RootNode \/ n \in 1 .. Len(nodes)
      BY DEF RootNode, IInv, Shape
    <3>2. QED
      BY <2>2, <2>3, <3>1
  <2>4. Used \ {RootNode} \subseteq Kept
    <3>1. CASE pc \in {"component", "entry"}
      <4>1. Alive(nodes, Top.currnode) /\ Top.currnode \in 0 .. Len(nodes)
        BY <3>1, WalkOwned DEF Good
      <4>2. Used = {Top.currnode}
        BY <3>1 DEF Used
      <4>3. QED
        BY <2>3, <4>1, <4>2
    <3>2. CASE pc = "matched"
      <4>1. /\ Alive(nodes, Top.currnode) /\ Top.currnode \in 0 .. Len(nodes)
            /\ Alive(nodes, Top.oldnode) /\ Top.oldnode \in 0 .. Len(nodes)
        BY <3>2, MatchedOwned DEF Good, Nodes
      <4>2. Used = {Top.currnode, Top.oldnode}
        BY <3>2 DEF Used
      <4>3. {Top.currnode} \ {RootNode} \subseteq Kept /\ {Top.oldnode} \ {RootNode} \subseteq Kept
        BY <2>3, <4>1
      <4>4. QED
        BY <4>2, <4>3
    <3>3. CASE pc = "return" /\ ret.ok
      <4>1. Alive(nodes, ret.node) /\ ret.node \in 0 .. Len(nodes)
        BY <3>3 DEF Owned, IInv, Shape
      <4>2. Used = {ret.node}
        BY <3>3 DEF Used
      <4>3. QED
        BY <2>3, <4>1, <4>2
    <3>4. CASE pc \notin {"component", "entry", "matched"} /\ ~(pc = "return" /\ ret.ok)
      <4>1. Used = {}
        BY <3>4 DEF Used
      <4>2. QED
        BY <4>1
    <3>5. QED
      BY <3>1, <3>2, <3>3, <3>4
  <2>5. pc = "done" => Cardinality(Kept) <= 1
    <3> SUFFICES ASSUME pc = "done" PROVE Cardinality(Kept) <= 1
      OBVIOUS
    <3>1. PICK x \in Nat : Kept \subseteq {x}
      BY <2>1 DEF Owned
    <3>2. Kept = {} \/ Kept = {x}
      BY <3>1
    <3>3. Cardinality({}) = 0 /\ Cardinality({x}) = 1
      BY FS_EmptySet, FS_Singleton
    <3>4. QED
      BY <3>2, <3>3
  <2>6. (pc = "done" /\ result # 0) => Kept = {ret.node}
    BY <2>1 DEF Owned
  <2>7. QED
    BY <2>1, <2>4, <2>5, <2>6 DEF NodesOwned
<1>3. IInv /\ [Next]_vars => IInv'
  BY IStep
<1>4. IInv /\ Owned /\ [Next]_vars => Owned'
  BY OwnedStep
<1>5. QED
  BY IInit, <1>1, <1>2, <1>3, <1>4, PTL DEF Spec
=============================================================================
