-------------------------- MODULE Ext2Walk_proofs --------------------------
(***************************************************************************)
(* Ext2Path implements UnixWalk: every lookup of ext2fs_open goes by the   *)
(* rules of Unix and gives up for none but the reasons stated there, for   *)
(* every file system, every path and any number of faults.  From this the  *)
(* second half derives that the file that is opened is the one the         *)
(* recursive definition of a path, Trail, leads to, and that one that is   *)
(* there is opened.                                                        *)
(***************************************************************************)
EXTENDS Ext2Path_proofs

\* Node n is no deleted entry, and its type is known.
Known(n, type) == InodeOf(n) # 0 /\ type = Tree[InodeOf(n)].mode

\* Where the walk is.  A type is that of the node unless it is still that of a
\* link; no entry before the one at hand has the name; a match is an entry of
\* the directory.
OnComponent ==
    /\ InodeOf(Top.currnode) # 0
    /\ Top.type = "link" \/ Known(Top.currnode, Top.type)
    /\ Top.names = <<>> => Top.type = "dir"
OnEntry ==
    /\ Known(Top.currnode, "dir") /\ Top.type = "dir" /\ Top.oldnode = Top.currnode
    /\ \A k \in 1 .. scan - 1 : k \in DOMAIN Directory => Directory[k].name # Wanted
OnMatch ==
    /\ Known(Top.oldnode, "dir") /\ Known(Top.currnode, Top.type)
    /\ \E k \in Live(InodeOf(Top.oldnode), Wanted) :
          Tree[InodeOf(Top.oldnode)].entries[k].ino = InodeOf(Top.currnode)
OnReturn ==
    /\ InodeOf(ret.node) # 0
    /\ ret.type \in {Same, "link"} \/ Known(ret.node, ret.type)

OnTrack == ~astray =>
    /\ result # 0 => pc = "done"
    /\ \A k \in 1 .. Depth : k < Depth \/ pc = "return" => stack[k].type = "link"
    /\ Active \/ (pc = "return" /\ ret.ok) => ~failed
    /\ pc = "component" => OnComponent
    /\ pc = "entry" => OnEntry
    /\ pc = "matched" => OnMatch
    /\ pc = "return" /\ ret.ok => OnReturn

-----------------------------------------------------------------------------
(* What the walk shows of a state *)

LEMMA OutcomeNow ==
    /\ astray => Outcome = "astray"
    /\ Walking => Outcome = "walking"
    /\ ~astray /\ pc = "idle" => Outcome = "none"
    /\ ~astray /\ pc = "hung" => Outcome = "hung"
    /\ ~astray /\ ~Walking /\ pc \notin {"idle", "hung"} =>
           Outcome = IF result # 0 THEN "opened" ELSE IF failed THEN "unread" ELSE "absent"
<1>1. Walking => ~astray /\ pc \notin {"idle", "hung"}
  BY DEF Walking
<1>2. QED
  BY <1>1 DEF Outcome

LEMMA OutcomeNext ==
    /\ astray' => Outcome' = "astray"
    /\ Walking' => Outcome' = "walking"
    /\ ~astray' /\ pc' = "hung" => Outcome' = "hung"
    /\ ~astray' /\ ~Walking' /\ pc' \notin {"idle", "hung"} =>
           Outcome' = IF result' # 0 THEN "opened" ELSE IF failed' THEN "unread" ELSE "absent"
<1>1. Walking' => ~astray' /\ pc' \notin {"idle", "hung"}
  BY DEF Walking
<1>2. QED
  BY <1>1 DEF Outcome

\* The calls have names to come.
LEMMA TodoIs ==
    ASSUME IInv, Walking
    PROVE  /\ Depth \in Nat /\ WalkTodo \in Seq(Seq(Names)) /\ Len(WalkTodo) = Depth
           /\ DOMAIN WalkTodo = 1 .. Depth
           /\ \A k \in 1 .. Depth : WalkTodo[k] = ToCome(k)
<1>1. /\ stack \in Seq(Frame) /\ Len(stack) = Depth /\ Depth \in Nat
      /\ \A k \in 1 .. Depth - 1 : stack[k].names # <<>>
      /\ pc = "return" /\ stack # <<>> => Top.names # <<>>
  BY DEF IInv, Shape, Fits, Depth
<1>2. ASSUME NEW k \in 1 .. Depth PROVE ToCome(k) \in Seq(Names)
  <2>1. stack[k] \in Frame
    BY <1>1
  <2>2. k # Depth \/ pc = "return" => stack[k].names # <<>>
    BY <1>1 DEF Top
  <2>3. stack[k].names \in Seq(Names)
    BY <2>1 DEF Frame
  <2>4. QED
    BY <2>2, <2>3 DEF ToCome
<1>3. WalkTodo = [k \in 1 .. Depth |-> ToCome(k)]
  BY DEF WalkTodo
<1>4. QED
  BY <1>1, <1>2, <1>3

LEMMA Popped ==
    ASSUME NEW S, NEW t \in Seq(S), NEW m \in Nat, Len(t) = m + 1
    PROVE  [k \in 1 .. m |-> t[k]] = SubSeq(t, 1, m)
<1>1. DOMAIN t = 1 .. m + 1 /\ \A k \in 1 .. m : t[k] \in S
  OBVIOUS
<1>2. SubSeq(t, 1, m) \in Seq(S) /\ Len(SubSeq(t, 1, m)) = m
      /\ \A k \in 1 .. m : SubSeq(t, 1, m)[k] = t[k]
  <2>1. /\ SubSeq(t, 1, m) \in Seq(S)
        /\ Len(SubSeq(t, 1, m)) = IF 1 <= m THEN m - 1 + 1 ELSE 0
        /\ \A k \in 1 .. m - 1 + 1 : SubSeq(t, 1, m)[k] = t[1 + k - 1]
    BY SubSeqProperties
  <2>2. QED
    BY <2>1
<1>3. SubSeq(t, 1, m) = [k \in 1 .. m |-> SubSeq(t, 1, m)[k]]
  BY <1>2
<1>4. QED
  BY <1>2, <1>3

LEMMA Replaced ==
    ASSUME NEW S, NEW t \in Seq(S), NEW x
    PROVE  [k \in 1 .. Len(t) |-> IF k = Len(t) THEN x ELSE t[k]] = [t EXCEPT ![Len(t)] = x]
<1>1. DOMAIN t = 1 .. Len(t)
  OBVIOUS
<1>2. QED
  BY <1>1

LEMMA Pushed ==
    ASSUME NEW S, NEW t \in Seq(S), NEW m \in Nat \ {0}, Len(t) = m, NEW x \in S, NEW y \in S
    PROVE  [k \in 1 .. m + 1 |-> IF k = m + 1 THEN y ELSE IF k = m THEN x ELSE t[k]]
               = Append([t EXCEPT ![m] = x], y)
<1>1. PICK u : u = [t EXCEPT ![m] = x]
  OBVIOUS
<1>2. u \in Seq(S) /\ Len(u) = m /\ \A k \in 1 .. m : u[k] = IF k = m THEN x ELSE t[k]
  BY <1>1
<1>3. PICK v : v = Append(u, y)
  OBVIOUS
<1>4. /\ v \in Seq(S) /\ Len(v) = m + 1
      /\ \A k \in 1 .. m + 1 : v[k] = IF k = m + 1 THEN y ELSE u[k]
  BY <1>2, <1>3
<1>5. v = [k \in 1 .. m + 1 |-> v[k]]
  BY <1>4
<1>6. \A k \in 1 .. m + 1 : v[k] = IF k = m + 1 THEN y ELSE IF k = m THEN x ELSE t[k]
  BY <1>2, <1>4
<1>7. QED
  BY <1>1, <1>3, <1>5, <1>6

\* The end of a walk.
LEMMA Ends ==
    ASSUME Walking, ~Walking'
    PROVE  Walk!End(Outcome')
<1>1. Outcome = "walking"
  BY OutcomeNow
<1>2. WalkAt' = Root /\ WalkTodo' = <<>> /\ WalkLinks' = 0
  BY DEF WalkAt, WalkTodo, WalkLinks
<1>3. QED
  BY <1>1, <1>2 DEF Walk!End

\* Nothing to be seen.
LEMMA Rests ==
    ASSUME ~Walking, ~Walking', Outcome' = Outcome, WalkFile' = WalkFile
    PROVE  UNCHANGED Walk!vars
BY DEF Walk!vars, WalkAt, WalkTodo, WalkLinks

LEMMA WalksOn ==
    ASSUME Walking, Walking', InodeOf(WalkNode)' = InodeOf(WalkNode),
           Depth' = Depth, \A k \in 1 .. Depth : ToCome(k)' = ToCome(k),
           symlinknest' = symlinknest, result' = result
    PROVE  UNCHANGED Walk!vars
<1>1. Outcome = "walking" /\ Outcome' = "walking"
  BY OutcomeNow, OutcomeNext
<1>2. WalkTodo' = WalkTodo
  BY DEF WalkTodo
<1>3. WalkAt' = WalkAt /\ WalkLinks' = WalkLinks
  BY DEF WalkAt, WalkLinks
<1>4. ~astray /\ ~astray'
  BY DEF Walking
<1>5. WalkFile' = WalkFile
  BY <1>4 DEF WalkFile
<1>6. QED
  BY <1>1, <1>2, <1>3, <1>5 DEF Walk!vars

-----------------------------------------------------------------------------
(* Before a step *)

LEMMA ActiveFits ==
    ASSUME IInv, Active
    PROVE  /\ Shape /\ stack # <<>> /\ Top \in Frame /\ Nodes(Top) \subseteq 0 .. Len(nodes)
           /\ Top.currnode \in 0 .. Len(nodes) /\ Top.oldnode \in 0 .. Len(nodes)
           /\ Depth \in Nat \ {0} /\ Waiting \in Nat /\ Waiting + 1 = Depth
           /\ nodes \in Seq(Node) /\ symlinknest < MaxNest
<1>1. Shape /\ stack # <<>> /\ symlinknest < MaxNest /\ nodes \in Seq(Node)
  BY DEF IInv, Shape, Active
<1>2. /\ Top \in Frame /\ Nodes(Top) \subseteq 0 .. Len(nodes)
      /\ Depth \in Nat \ {0} /\ Waiting \in Nat /\ Waiting + 1 = Depth
  BY <1>1, TopFits, WaitingFits
<1>3. QED
  BY <1>1, <1>2 DEF Nodes

\* The next name, and the directory it is looked for in.
LEMMA LooksFor ==
    ASSUME IInv, Walking, Active, Top.names # <<>>
    PROVE  /\ Walk!Looking /\ Walk!names = Top.names
           /\ Len(WalkTodo) = Depth /\ WalkTodo \in Seq(Seq(Names))
           /\ WalkAt = InodeOf(WalkNode)
           /\ Walk!entries = Tree[InodeOf(WalkNode)].entries
           /\ Top.names \in Seq(Names) /\ Wanted \in Names /\ Wanted # NoName
           /\ \A k : Walk!Wanted(k) <=> Tree[InodeOf(WalkNode)].entries[k].name = Wanted
<1>1. Depth \in Nat \ {0} /\ Top \in Frame
  BY ActiveFits
<1>2. /\ WalkTodo \in Seq(Seq(Names)) /\ Len(WalkTodo) = Depth
      /\ WalkTodo[Depth] = ToCome(Depth) /\ WalkTodo # <<>>
  BY <1>1, TodoIs
<1>3. ToCome(Depth) = Top.names
  BY DEF ToCome, Top, Active
<1>4. Walk!names = Top.names
  BY <1>2, <1>3 DEF Walk!names
<1>5. WalkAt = InodeOf(WalkNode) /\ Outcome = "walking"
  BY OutcomeNow DEF WalkAt
<1>6. Top.names \in Seq(Names)
  BY <1>1 DEF Frame
<1>7. Wanted \in Names /\ Wanted # NoName
  BY <1>6, TreeAssumption DEF Wanted
<1>8. Walk!entries = Tree[InodeOf(WalkNode)].entries
  BY <1>5 DEF Walk!entries
<1>9. \A k : Walk!Wanted(k) <=> Tree[InodeOf(WalkNode)].entries[k].name = Wanted
  BY <1>4, <1>8 DEF Walk!Wanted, Wanted
<1>10. Walk!Looking
  BY <1>2, <1>4, <1>5 DEF Walk!Looking
<1>11. QED
  BY <1>2, <1>4, <1>5, <1>6, <1>7, <1>8, <1>9, <1>10

LEMMA NodesKeepInodes ==
    ASSUME nodes \in Seq(Node), NEW n \in 0 .. Len(nodes),
           nodes' = nodes \/ \E ns, r : nodes' = Freed(ns, r)
    PROVE  InodeOf(n)' = InodeOf(n)
<1>1. CASE n = RootNode
  BY <1>1 DEF InodeOf
<1>2. CASE n # RootNode
  <2>1. n \in DOMAIN nodes /\ nodes[n] \in Node
    BY <1>2 DEF RootNode
  <2>2. nodes'[n].ino = nodes[n].ino
    <3>1. CASE nodes' = nodes
      BY <3>1
    <3>2. CASE \E ns, r : nodes' = Freed(ns, r)
      <4>1. PICK ns, r : nodes' = Freed(ns, r)
        BY <3>2
      <4>2. PICK d : d = nodes[n]
        OBVIOUS
      <4>3. nodes'[n] = d \/ nodes'[n] = [d EXCEPT !.freed = @ + 1]
        BY <2>1, <4>1, <4>2 DEF Freed
      <4>4. QED
        BY <2>1, <4>2, <4>3 DEF Node
    <3>3. QED
      BY <3>1, <3>2
  <2>3. QED
    BY <1>2, <2>2 DEF InodeOf
<1>3. QED
  BY <1>1, <1>2

-----------------------------------------------------------------------------
(* Steps that end the walk, or come after its end *)

\* A call leaves without success.
LEMMA Fails ==
    ASSUME IInv, OnTrack, ~astray, ~astray', stack # <<>>, pc # "done",
           Leave(Failure), result' = result
    PROVE  /\ OnTrack' /\ ~Walking' /\ WalkFile' = WalkFile
           /\ Outcome' = IF failed' THEN "unread" ELSE "absent"
<1>1. pc' = "return" /\ ~ret'.ok
  BY DEF Leave, Failure
<1>2. ~Walking' /\ result' = 0
  BY <1>1 DEF Walking, OnTrack
<1>3. Len(stack') = Waiting /\ (\A k \in 1 .. Waiting : stack'[k] = stack[k])
      /\ Waiting \in Nat /\ Waiting + 1 = Depth
  BY LeaveWaiting, WaitingFits DEF IInv
<1>4. \A k \in 1 .. Waiting : k \in 1 .. Depth /\ k < Depth
  BY <1>3
<1>5. \A k \in 1 .. Depth' : stack'[k].type = "link"
  BY <1>3, <1>4 DEF OnTrack, Depth
<1>6. OnTrack'
  BY <1>1, <1>2, <1>5 DEF OnTrack, Active
<1>7. WalkFile' = WalkFile
  BY DEF WalkFile
<1>8. QED
  BY <1>1, <1>2, <1>6, <1>7, OutcomeNext

LEMMA WalkFails ==
    ASSUME IInv, OnTrack, Walking, ~astray', stack # <<>>,
           Leave(Failure), result' = result, failed' \/ Walk!Hopeless
    PROVE  OnTrack' /\ Walk!Onward
<1>1. ~astray /\ pc # "done"
  BY DEF Walking
<1>2. /\ OnTrack' /\ ~Walking' /\ WalkFile' = WalkFile
      /\ Outcome' = IF failed' THEN "unread" ELSE "absent"
  BY <1>1, Fails
<1>3. Walk!End(Outcome')
  BY <1>2, Ends
<1>4. CASE failed'
  BY <1>2, <1>3, <1>4 DEF Walk!Unread, Walk!Onward
<1>5. CASE ~failed'
  BY <1>2, <1>3, <1>5 DEF Walk!GiveUp, Walk!Onward
<1>6. QED
  BY <1>2, <1>4, <1>5

\* The failure was decided before.
LEMMA LateFails ==
    ASSUME IInv, OnTrack, ~Walking, ~astray, ~astray', stack # <<>>,
           pc \notin {"idle", "hung", "done"},
           Leave(Failure), result' = result, failed' = failed
    PROVE  OnTrack' /\ UNCHANGED Walk!vars
<1>1. /\ OnTrack' /\ ~Walking' /\ WalkFile' = WalkFile
      /\ Outcome' = IF failed' THEN "unread" ELSE "absent"
  BY Fails
<1>2. result = 0
  BY DEF OnTrack
<1>3. Outcome = IF failed THEN "unread" ELSE "absent"
  BY <1>2, OutcomeNow
<1>4. Outcome' = Outcome
  BY <1>1, <1>3
<1>5. QED
  BY <1>1, <1>4, Rests

LEMMA WalkHangs ==
    ASSUME IInv, OnTrack, Walking, ~astray', pc' = "hung", UNCHANGED <<stack, result>>
    PROVE  OnTrack' /\ Walk!Onward
<1>1. ~astray /\ pc # "done" /\ ~Walking' /\ result = 0
  BY DEF Walking, OnTrack
<1>2. \A k \in 1 .. Depth : k < Depth => stack[k].type = "link"
  BY <1>1 DEF OnTrack
<1>3. OnTrack'
  BY <1>1, <1>2 DEF OnTrack, Active, Depth
<1>4. Walk!End(Outcome') /\ Outcome' = "hung" /\ WalkFile' = WalkFile
  BY <1>1, Ends, OutcomeNext DEF WalkFile
<1>5. QED
  BY <1>3, <1>4 DEF Walk!Hang, Walk!Onward

-----------------------------------------------------------------------------
(* Component by component *)

\* A call leaves with a node.
LEMMA Returns ==
    ASSUME IInv, OnTrack, ~astray, ~astray', stack # <<>>, NEW r, r.ok, Leave(r),
           result' = 0, ~failed', InodeOf(r.node)' # 0,
           r.type \in {Same, "link"} \/ r.type = Tree[InodeOf(r.node)'].mode
    PROVE  /\ OnTrack' /\ Len(stack') = Waiting
           /\ \A k \in 1 .. Waiting : stack'[k] = stack[k]
           /\ Walking' <=> r.type \notin {Same, "link"}
<1>1. pc' = "return" /\ ret' = r
  BY DEF Leave
<1>2. Len(stack') = Waiting /\ (\A k \in 1 .. Waiting : stack'[k] = stack[k])
      /\ Waiting \in Nat /\ Waiting + 1 = Depth
  BY LeaveWaiting, WaitingFits DEF IInv
<1>3. \A k \in 1 .. Waiting : k \in 1 .. Depth /\ k < Depth
  BY <1>2
<1>4. \A k \in 1 .. Depth' : stack'[k].type = "link"
  BY <1>2, <1>3 DEF OnTrack, Depth
<1>5. InodeOf(ret.node)' = InodeOf(r.node)'
  BY <1>1 DEF InodeOf
<1>6. OnReturn'
  BY <1>1, <1>5 DEF OnReturn, Known
<1>7. OnTrack'
  BY <1>1, <1>4, <1>6 DEF OnTrack
<1>8. Walking' <=> r.type \notin {Same, "link"}
  BY <1>1 DEF Walking
<1>9. QED
  BY <1>2, <1>7, <1>8

LEMMA EmptyPathWalks ==
    ASSUME IInv, OnTrack, ~astray, ~astray', EmptyPath
    PROVE  OnTrack' /\ [Walk!Onward]_(Walk!vars)
<1>1. Active /\ pc = "component" /\ Top.names = <<>> /\ UNCHANGED <<nodes, result, failed>>
  BY DEF Active, EmptyPath, hist
<1>2. /\ Shape /\ stack # <<>> /\ Top.currnode \in 0 .. Len(nodes) /\ nodes \in Seq(Node)
      /\ Depth \in Nat \ {0}
  BY <1>1, ActiveFits
<1>3. /\ result = 0 /\ ~failed /\ Top.type = "dir" /\ Known(Top.currnode, "dir")
      /\ \A k \in 1 .. Depth : k < Depth => stack[k].type = "link"
  BY <1>1 DEF OnTrack, OnComponent, Known
<1>4. PICK r : r = [ok |-> TRUE, node |-> Top.currnode, type |-> Same]
  OBVIOUS
<1>5. Leave(r) /\ r.ok /\ r.type = Same /\ r.node \in 0 .. Len(nodes) /\ r.node = Top.currnode
  BY <1>2, <1>4 DEF EmptyPath
<1>6. InodeOf(r.node)' = InodeOf(Top.currnode)
  BY <1>1, <1>2, <1>5, NodesKeepInodes
<1>7. result' = 0 /\ ~failed' /\ InodeOf(r.node)' # 0
  BY <1>1, <1>3, <1>6 DEF Known
<1>8. OnTrack' /\ ~Walking'
  BY <1>2, <1>5, <1>7, Returns
<1>9. Outcome' = "absent" /\ WalkFile' = WalkFile
  <2>1. pc' = "return"
    BY <1>5 DEF Leave
  <2>2. QED
    BY <1>1, <1>7, <1>8, <2>1, OutcomeNext DEF WalkFile
<1>10. CASE Walking
  <2>1. Depth = 1
    BY <1>1, <1>10 DEF Walking
  <2>2. WalkNode = Top.currnode /\ WalkAt = InodeOf(Top.currnode)
    BY <1>1, <1>10 DEF WalkNode, WalkAt
  <2>3. Walk!Arrived
    <3>1. ToCome(1) = <<>>
      BY <1>1, <2>1 DEF ToCome, Top
    <3>2. \A k \in DOMAIN WalkTodo : k = 1 /\ WalkTodo[k] = ToCome(k)
      BY <2>1, <1>10, TodoIs
    <3>3. QED
      BY <3>1, <3>2 DEF Walk!Arrived
  <2>4. Walk!Hopeless
    BY <1>3, <2>2, <2>3 DEF Walk!Hopeless, Known
  <2>5. Walk!End(Outcome')
    BY <1>8, <1>10, Ends
  <2>6. QED
    BY <1>8, <1>9, <2>4, <2>5 DEF Walk!GiveUp, Walk!Onward
<1>11. CASE ~Walking
  <2>1. Outcome = "absent"
    BY <1>1, <1>3, <1>11, OutcomeNow
  <2>2. QED
    BY <1>8, <1>9, <1>11, <2>1, Rests
<1>12. QED
  BY <1>10, <1>11

\* What is not there leaves no hope.
LEMMA NothingThere ==
    ASSUME Walk!Looking, Tree[WalkAt].mode # "dir" PROVE Walk!Hopeless
BY DEF Walk!Hopeless, Walk!Found

LEMMA NotADirectoryWalks ==
    ASSUME IInv, OnTrack, ~astray, ~astray', NotADirectory
    PROVE  OnTrack' /\ [Walk!Onward]_(Walk!vars)
<1>1. /\ Active /\ pc = "component" /\ Top.names # <<>> /\ Top.type # "dir"
      /\ UNCHANGED <<result, failed>> /\ Leave(Failure)
  BY DEF Active, NotADirectory, hist
<1>2. stack # <<>>
  BY <1>1, ActiveFits
<1>3. CASE Walking
  <2>1. Known(Top.currnode, Top.type)
    BY <1>1, <1>3 DEF OnTrack, OnComponent, Walking
  <2>2. WalkNode = Top.currnode /\ WalkAt = InodeOf(WalkNode) /\ Walk!Looking
    BY <1>1, <1>3, LooksFor DEF WalkNode
  <2>3. Walk!Hopeless
    BY <1>1, <2>1, <2>2, NothingThere DEF Known
  <2>4. QED
    BY <1>1, <1>2, <1>3, <2>3, WalkFails
<1>4. CASE ~Walking
  BY <1>1, <1>2, <1>4, LateFails
<1>5. QED
  BY <1>3, <1>4

LEMMA IterateWalks ==
    ASSUME IInv, OnTrack, ~astray, ~astray', Iterate
    PROVE  OnTrack' /\ [Walk!Onward]_(Walk!vars)
<1>1. /\ Active /\ pc = "component" /\ pc' = "entry" /\ Top.names # <<>> /\ Top.type = "dir"
      /\ UNCHANGED <<nodes, symlinknest, result, failed>> /\ scan' = 1
  BY DEF Active, Iterate, hist
<1>2. /\ Shape /\ stack # <<>> /\ Top \in Frame /\ Top.currnode \in 0 .. Len(nodes)
      /\ Depth \in Nat \ {0} /\ Waiting \in Nat /\ Waiting + 1 = Depth /\ nodes \in Seq(Node)
  BY <1>1, ActiveFits
<1>3. Walking /\ Walking'
  BY <1>1 DEF Walking
<1>4. PICK c : c = Top.currnode
  OBVIOUS
<1>5. PICK f : f = [Top EXCEPT !.oldnode = c]
  OBVIOUS
<1>6. f.names = Top.names /\ f.currnode = c /\ f.oldnode = c /\ f.type = "dir"
  BY <1>1, <1>2, <1>4, <1>5 DEF Frame
<1>7. stack' = [stack EXCEPT ![Depth] = f]
  BY <1>4, <1>5 DEF Iterate, Top
<1>8. /\ Depth' = Depth /\ Top' = f /\ stack'[Depth] = f
      /\ \A k \in 1 .. Waiting : stack'[k] = stack[k]
  BY <1>2, <1>7, PutWaiting DEF Depth, Top
<1>9. InodeOf(c)' = InodeOf(c)
  BY <1>1, <1>2, <1>4, NodesKeepInodes
<1>10. InodeOf(WalkNode)' = InodeOf(WalkNode)
  <2>1. WalkNode = c /\ WalkNode' = c
    BY <1>1, <1>4, <1>6, <1>8 DEF WalkNode
  <2>2. QED
    BY <1>9, <2>1 DEF InodeOf
<1>11. \A k \in 1 .. Depth : k = Depth \/ (k \in 1 .. Waiting /\ k < Depth)
  BY <1>2
<1>12. \A k \in 1 .. Depth : ToCome(k)' = ToCome(k)
  BY <1>1, <1>6, <1>8, <1>11 DEF ToCome, Top
<1>13. UNCHANGED Walk!vars
  BY <1>1, <1>3, <1>8, <1>10, <1>12, WalksOn
<1>14. OnEntry'
  <2>1. InodeOf(c) # 0 /\ Tree[InodeOf(c)].mode = "dir"
    BY <1>1, <1>4 DEF OnTrack, OnComponent, Known
  <2>2. InodeOf(Top.currnode)' = InodeOf(c)'
    BY <1>6, <1>8 DEF InodeOf
  <2>3. Known(Top.currnode, "dir")'
    BY <1>9, <2>1, <2>2 DEF Known
  <2>4. 1 .. scan' - 1 = {}
    BY <1>1
  <2>5. QED
    BY <1>6, <1>8, <2>3, <2>4 DEF OnEntry
<1>15. OnTrack'
  <2>1. result = 0 /\ ~failed /\ \A k \in 1 .. Depth : k < Depth => stack[k].type = "link"
    BY <1>1 DEF OnTrack
  <2>2. \A k \in 1 .. Depth : k < Depth => stack'[k].type = "link"
    BY <1>2, <1>8, <1>11, <2>1
  <2>3. QED
    BY <1>1, <1>8, <1>14, <2>1, <2>2 DEF OnTrack
<1>16. QED
  BY <1>13, <1>15

LEMMA FaultFails == Fault => failed'
BY DEF Fault

LEMMA IterateFailsWalks ==
    ASSUME IInv, OnTrack, ~astray, ~astray', IterateFails
    PROVE  OnTrack' /\ [Walk!Onward]_(Walk!vars)
<1>1. /\ Active /\ pc = "component" /\ Top.names # <<>> /\ Top.type = "dir"
      /\ result' = result /\ Leave(Failure) /\ InodeUnread(InodeOf(Top.currnode))
  BY DEF Active, IterateFails
<1>2. stack # <<>> /\ Walking
  BY <1>1, ActiveFits DEF Walking
<1>3. failed'
  BY <1>1, FaultFails DEF OnTrack, OnComponent, InodeUnread
<1>4. QED
  BY <1>1, <1>2, <1>3, WalkFails

-----------------------------------------------------------------------------
(* Entry by entry *)

\* The directory that is searched.
LEMMA OnEntryFits ==
    ASSUME IInv, OnTrack, ~astray, pc = "entry"
    PROVE  /\ Active /\ Walking /\ stack # <<>> /\ Top.names # <<>>
           /\ WalkNode = Top.currnode /\ WalkAt = InodeOf(Top.currnode)
           /\ InodeOf(Top.currnode) \in Inodes /\ Tree[WalkAt].mode = "dir"
           /\ Walk!Looking /\ Walk!entries = Directory /\ Directory \in Seq(Entry)
           /\ \A k : Walk!Wanted(k) <=> Directory[k].name = Wanted
           /\ \A k \in 1 .. scan - 1 : k \in DOMAIN Directory => ~Walk!Wanted(k)
           /\ Wanted # NoName /\ scan \in Nat \ {0}
           /\ HasEntry => scan \in DOMAIN Directory
<1>1. Active /\ Walking /\ WalkNode = Top.currnode
  BY DEF Active, Walking, WalkNode
<1>2. Shape /\ stack # <<>> /\ Top.currnode \in 0 .. Len(nodes)
  BY <1>1, ActiveFits
<1>3. Top.names # <<>> /\ scan \in Nat \ {0}
  BY <1>2 DEF Shape, IInv, Rest
<1>4. /\ Walk!Looking /\ WalkAt = InodeOf(Top.currnode) /\ Walk!entries = Directory
      /\ Wanted # NoName /\ \A k : Walk!Wanted(k) <=> Directory[k].name = Wanted
  BY <1>1, <1>3, LooksFor DEF Directory
<1>5. /\ InodeOf(Top.currnode) # 0 /\ Tree[InodeOf(Top.currnode)].mode = "dir"
      /\ \A k \in 1 .. scan - 1 : k \in DOMAIN Directory => Directory[k].name # Wanted
  BY DEF OnTrack, OnEntry, Known
<1>6. InodeOf(Top.currnode) \in Inodes
  BY <1>2, <1>5, InodeRange
<1>7. Directory \in Seq(Entry)
  BY <1>6, TreeAssumption DEF Directory
<1>8. HasEntry => scan \in DOMAIN Directory
  BY <1>3, <1>7 DEF HasEntry
<1>9. QED
  BY <1>1, <1>2, <1>3, <1>4, <1>5, <1>6, <1>7, <1>8

LEMMA EntryFailsWalks ==
    ASSUME IInv, OnTrack, ~astray, ~astray', EntryFails \/ TypeFails \/ NotFound
    PROVE  OnTrack' /\ [Walk!Onward]_(Walk!vars)
<1>1. pc = "entry" /\ result' = result /\ Leave(Failure)
  BY DEF EntryFails, TypeFails, NotFound, HasEntry
<1>2. /\ Walking /\ stack # <<>> /\ Tree[WalkAt].mode = "dir"
      /\ Walk!Looking /\ Walk!entries = Directory /\ Directory \in Seq(Entry)
      /\ \A k \in 1 .. scan - 1 : k \in DOMAIN Directory => ~Walk!Wanted(k)
      /\ scan \in Nat \ {0}
      /\ HasEntry => scan \in DOMAIN Directory
  BY <1>1, OnEntryFits
<1>3. failed' \/ Walk!Hopeless
  <2>1. CASE EntryFails \/ (TypeFails /\ This.ino # 0)
    BY <2>1, FaultFails DEF EntryFails, TypeFails, InodeUnread
  <2>2. CASE TypeFails /\ This.ino = 0
    <3>1. /\ scan \in DOMAIN Directory /\ Directory[scan].ino = 0
          /\ Directory[scan].type = "unknown" /\ Directory[scan].name # NoName
      BY <1>2, <2>2 DEF TypeFails, This
    <3>2. \A j \in 1 .. scan - 1 : ~Walk!Wanted(j)
      BY <1>2, <3>1
    <3>3. Walk!Blocked
      BY <1>2, <3>1, <3>2 DEF Walk!Blocked
    <3>4. QED
      BY <1>2, <3>3 DEF Walk!Hopeless
  <2>3. CASE NotFound
    <3>1. scan > Len(Directory)
      BY <2>3 DEF NotFound
    <3>2. \A k \in DOMAIN Directory : ~Walk!Wanted(k)
      BY <1>2, <3>1
    <3>3. Walk!Found = {}
      BY <1>2, <3>2 DEF Walk!Found
    <3>4. QED
      BY <1>2, <3>3 DEF Walk!Hopeless
  <2>4. QED
    BY <2>1, <2>2, <2>3
<1>4. QED
  BY <1>1, <1>2, <1>3, WalkFails

LEMMA EntryHangsWalks ==
    ASSUME IInv, OnTrack, ~astray, ~astray', EntryHangs
    PROVE  OnTrack' /\ [Walk!Onward]_(Walk!vars)
<1>1. pc = "entry" /\ pc' = "hung" /\ UNCHANGED <<stack, result>>
  BY DEF EntryHangs, HasEntry, OutOfMemory, walk
<1>2. Walking
  BY <1>1 DEF Walking
<1>3. QED
  BY <1>1, <1>2, WalkHangs

\* An entry of another name is passed.
LEMMA PassWalks ==
    ASSUME IInv, OnTrack, ~astray, ~astray', Nameless \/ Pass
    PROVE  OnTrack' /\ [Walk!Onward]_(Walk!vars)
<1>1. /\ pc = "entry" /\ scan' = scan + 1 /\ This.name # Wanted
      /\ UNCHANGED <<pc, stack, nodes, ret, symlinknest, result, failed>>
  <2>1. HasEntry => Wanted # NoName
    BY OnEntryFits DEF HasEntry
  <2>2. QED
    BY <2>1 DEF Nameless, Pass, HasEntry, hist
<1>2. /\ Walking /\ scan \in Nat \ {0}
      /\ WalkNode = Top.currnode
  BY <1>1, OnEntryFits
<1>3. Walking'
  BY <1>1 DEF Walking
<1>4. InodeOf(WalkNode)' = InodeOf(WalkNode) /\ Depth' = Depth
      /\ \A k \in 1 .. Depth : ToCome(k)' = ToCome(k)
  BY <1>1 DEF InodeOf, WalkNode, Depth, Top, ToCome
<1>5. UNCHANGED Walk!vars
  BY <1>1, <1>2, <1>3, <1>4, WalksOn
<1>6. OnEntry'
  <2>1. OnEntry
    BY <1>1 DEF OnTrack
  <2>2. Known(Top.currnode, "dir")' /\ Top' = Top /\ Directory' = Directory /\ Wanted' = Wanted
    BY <1>1, <2>1 DEF OnEntry, Known, InodeOf, Top, Depth, Directory, Wanted
  <2>3. \A k \in 1 .. scan' - 1 : k \in DOMAIN Directory => Directory[k].name # Wanted
    <3>1. \A k \in 1 .. scan' - 1 : k = scan \/ k \in 1 .. scan - 1
      BY <1>1, <1>2
    <3>2. QED
      BY <1>1, <2>1, <3>1 DEF OnEntry, This
  <2>4. QED
    BY <2>1, <2>2, <2>3 DEF OnEntry
<1>7. OnTrack'
  BY <1>1, <1>6 DEF OnTrack, Active, Depth
<1>8. QED
  BY <1>5, <1>7

\* The entry of the component, and not a deleted one.
LEMMA MatchWalks ==
    ASSUME IInv, OnTrack, ~astray, ~astray', Match
    PROVE  OnTrack' /\ [Walk!Onward]_(Walk!vars)
<1>1. /\ pc = "entry" /\ pc' = "matched" /\ HasEntry /\ This.name = Wanted
      /\ UNCHANGED <<symlinknest, result, failed>>
  BY DEF Match, HasEntry
<1>2. ~Deleted(This)
  BY Zenon DEF Match
<1>3. /\ Walking /\ Active /\ WalkNode = Top.currnode
      /\ InodeOf(Top.currnode) \in Inodes /\ Directory \in Seq(Entry)
      /\ scan \in DOMAIN Directory
  BY <1>1, OnEntryFits
<1>4. /\ Shape /\ stack # <<>> /\ Top \in Frame /\ Top.currnode \in 0 .. Len(nodes)
      /\ Depth \in Nat \ {0} /\ Waiting \in Nat /\ Waiting + 1 = Depth /\ nodes \in Seq(Node)
  BY <1>3, ActiveFits
<1>5. Top.oldnode = Top.currnode /\ Tree[InodeOf(Top.currnode)].mode = "dir"
  BY <1>1 DEF OnTrack, OnEntry, Known
<1>6. PICK n \in Behind(This) :
          LET unknown == This.type = "unknown" IN
          /\ nodes' = Append(nodes, [ino |-> n, inode_read |-> unknown, freed |-> 0])
          /\ stack' = [stack EXCEPT
                ![Depth].currnode = Len(nodes) + 1,
                ![Depth].type = IF unknown THEN Tree[n].mode ELSE This.type]
  BY Zenon DEF Match
<1>7. PICK d, new, type, node :
          /\ d = Top.currnode /\ new = Len(nodes) + 1
          /\ type = (IF This.type = "unknown" THEN Tree[n].mode ELSE This.type)
          /\ node = [ino |-> n, inode_read |-> This.type = "unknown", freed |-> 0]
  OBVIOUS
<1>8. PICK f : f = [Top EXCEPT !.currnode = new, !.type = type]
  OBVIOUS
<1>9. f.names = Top.names /\ f.currnode = new /\ f.oldnode = d /\ f.type = type
  BY <1>4, <1>5, <1>7, <1>8 DEF Frame
<1>10. stack' = [stack EXCEPT ![Depth] = f] /\ nodes' = Append(nodes, node)
  BY <1>6, <1>7, <1>8 DEF Top
<1>11. /\ Depth' = Depth /\ Top' = f /\ stack'[Depth] = f
       /\ \A k \in 1 .. Waiting : stack'[k] = stack[k]
  BY <1>4, <1>10, PutWaiting DEF Depth, Top
<1>12. n = This.ino /\ n # 0 /\ n \in Inodes /\ type = Tree[n].mode
  <2>1. n = This.ino /\ n # 0
    BY <1>2 DEF Behind, Deleted
  <2>2. This \in Entry
    BY <1>3 DEF This
  <2>3. This.type \in {"unknown", Tree[n].mode}
    BY <1>3, <2>1, TreeAssumption DEF This, Directory
  <2>4. QED
    BY <1>7, <2>1, <2>2, <2>3 DEF Entry
<1>13. /\ InodeOf(new)' = n /\ InodeOf(d)' = InodeOf(d)
  <2>1. Len(nodes) \in Nat /\ new # RootNode /\ nodes'[new] = node
        /\ \A k \in 1 .. Len(nodes) : nodes'[k] = nodes[k]
    BY <1>4, <1>7, <1>10 DEF RootNode
  <2>2. d = RootNode \/ d \in 1 .. Len(nodes)
    BY <1>4, <1>7, <2>1 DEF RootNode
  <2>3. node.ino = n
    BY <1>7
  <2>4. QED
    BY <2>1, <2>2, <2>3 DEF InodeOf
<1>14. Walking'
  BY <1>1 DEF Walking
<1>15. InodeOf(WalkNode)' = InodeOf(WalkNode)
  <2>1. WalkNode = d /\ WalkNode' = d
    BY <1>1, <1>3, <1>7, <1>9, <1>11 DEF WalkNode
  <2>2. QED
    BY <1>13, <2>1 DEF InodeOf
<1>16. \A k \in 1 .. Depth : k = Depth \/ (k \in 1 .. Waiting /\ k < Depth)
  BY <1>4
<1>17. \A k \in 1 .. Depth : ToCome(k)' = ToCome(k)
  BY <1>1, <1>9, <1>11, <1>16 DEF ToCome, Top
<1>18. UNCHANGED Walk!vars
  BY <1>1, <1>3, <1>11, <1>14, <1>15, <1>17, WalksOn
<1>19. OnMatch'
  <2>1. InodeOf(Top.oldnode)' = InodeOf(d) /\ InodeOf(Top.currnode)' = n
    BY <1>9, <1>11, <1>13 DEF InodeOf
  <2>2. Wanted' = Wanted /\ Top'.type = type
    BY <1>9, <1>11 DEF Wanted
  <2>3. InodeOf(d) # 0 /\ Tree[InodeOf(d)].mode = "dir"
    BY <1>3, <1>5, <1>7, TreeAssumption
  <2>4. Known(Top.oldnode, "dir")' /\ Known(Top.currnode, Top.type)'
    BY <1>12, <2>1, <2>2, <2>3 DEF Known
  <2>5. scan \in Live(InodeOf(d), Wanted) /\ Tree[InodeOf(d)].entries[scan].ino = n
    BY <1>1, <1>3, <1>7, <1>12 DEF Live, Directory, This
  <2>6. QED
    BY <2>1, <2>2, <2>4, <2>5 DEF OnMatch
<1>20. OnTrack'
  <2>1. result = 0 /\ ~failed /\ \A k \in 1 .. Depth : k < Depth => stack[k].type = "link"
    BY <1>1, <1>3 DEF OnTrack
  <2>2. \A k \in 1 .. Depth : k < Depth => stack'[k].type = "link"
    BY <1>4, <1>11, <1>16, <2>1
  <2>3. QED
    BY <1>1, <1>11, <1>19, <2>1, <2>2 DEF OnTrack
<1>21. QED
  BY <1>18, <1>20

-----------------------------------------------------------------------------
(* The end of a component *)

LEMMA Proceeds ==
    ASSUME IInv, OnTrack, ~astray, ~astray', stack # <<>>, NEW f \in Frame, Proceed(f),
           result' = 0, ~failed', InodeOf(f.currnode)' # 0,
           f.type = "link" \/ f.type = Tree[InodeOf(f.currnode)'].mode
    PROVE  /\ OnTrack'
           /\ Walking' <=> f.type # "link"
           /\ Walking' =>
                 /\ WalkAt' = InodeOf(f.currnode)'
                 /\ WalkTodo' = IF Tail(f.names) = <<>>
                                THEN [k \in 1 .. Waiting |-> Tail(stack[k].names)]
                                ELSE [k \in 1 .. Depth |->
                                        IF k = Depth THEN Tail(f.names) ELSE Tail(stack[k].names)]
<1>0. Waiting \in Nat /\ Waiting + 1 = Depth
  BY WaitingFits DEF IInv
<1>1. CASE Tail(f.names) = <<>>
  <2>1. PICK r : r = [ok |-> TRUE, node |-> f.currnode, type |-> f.type]
    OBVIOUS
  <2>2. Leave(r) /\ r.ok /\ r.node = f.currnode /\ r.type = f.type
    BY <1>1, <2>1 DEF Proceed
  <2>3. InodeOf(r.node)' = InodeOf(f.currnode)'
    BY <2>2 DEF InodeOf
  <2>4. /\ OnTrack' /\ Len(stack') = Waiting
        /\ \A k \in 1 .. Waiting : stack'[k] = stack[k]
        /\ Walking' <=> r.type \notin {Same, "link"}
    BY <2>2, <2>3, Returns
  <2>5. f.type # Same
    BY DEF Frame, Modes, Same
  <2>6. pc' = "return" /\ ret' = r
    BY <2>2 DEF Leave
  <2>7. WalkNode' = f.currnode
    BY <2>2, <2>6 DEF WalkNode
  <2>8. Walking' => WalkAt' = InodeOf(f.currnode)'
    BY <2>7 DEF WalkAt, InodeOf
  <2>9. [k \in 1 .. Depth |-> ToCome(k)]' = [k \in 1 .. Waiting |-> Tail(stack[k].names)]
    BY <2>4, <2>6 DEF ToCome, Depth
  <2>10. Walking' => WalkTodo' = [k \in 1 .. Waiting |-> Tail(stack[k].names)]
    BY <2>9 DEF WalkTodo
  <2>11. QED
    BY <1>1, <2>2, <2>4, <2>5, <2>8, <2>10
<1>2. CASE Tail(f.names) # <<>>
  <2>1. PICK g : g = [f EXCEPT !.names = Tail(@)]
    OBVIOUS
  <2>2. /\ stack' = [stack EXCEPT ![Depth] = g] /\ pc' = "component"
        /\ g.names = Tail(f.names) /\ g.names # <<>> /\ g.currnode = f.currnode
        /\ g.type = f.type
    BY <1>2, <2>1 DEF Proceed, Frame
  <2>3. /\ Depth' = Depth /\ Top' = g /\ stack'[Depth] = g
        /\ \A k \in 1 .. Waiting : stack'[k] = stack[k]
    BY <2>2, PutWaiting DEF Depth, Top, IInv
  <2>4. \A k \in 1 .. Depth : k = Depth \/ (k \in 1 .. Waiting /\ k < Depth)
    BY <1>0
  <2>5. WalkNode' = f.currnode
    BY <2>2, <2>3 DEF WalkNode
  <2>6. Walking' <=> f.type # "link"
    BY <2>2, <2>3 DEF Walking
  <2>7. Walking' => WalkAt' = InodeOf(f.currnode)'
    BY <2>5 DEF WalkAt, InodeOf
  <2>8. \A k \in 1 .. Depth :
            ToCome(k)' = IF k = Depth THEN Tail(f.names) ELSE Tail(stack[k].names)
    BY <2>2, <2>3, <2>4 DEF ToCome
  <2>9. Walking' => WalkTodo' = [k \in 1 .. Depth |->
            IF k = Depth THEN Tail(f.names) ELSE Tail(stack[k].names)]
    BY <2>3, <2>8 DEF WalkTodo
  <2>10. OnComponent'
    <3>1. InodeOf(Top.currnode)' = InodeOf(f.currnode)'
      BY <2>2, <2>3 DEF InodeOf
    <3>2. QED
      BY <2>2, <2>3, <3>1 DEF OnComponent, Known
  <2>11. \A k \in 1 .. Depth : k < Depth => stack'[k].type = "link"
    <3>1. \A k \in 1 .. Depth : k < Depth => stack[k].type = "link"
      BY DEF OnTrack
    <3>2. QED
      BY <1>0, <2>3, <2>4, <3>1
  <2>12. OnTrack'
    BY <2>2, <2>3, <2>10, <2>11 DEF OnTrack
  <2>13. QED
    BY <1>2, <2>6, <2>7, <2>9, <2>12
<1>3. QED
  BY <1>1, <1>2

\* A match that can be searched.
LEMMA OnMatchFits ==
    ASSUME IInv, OnTrack, ~astray, pc = "matched"
    PROVE  /\ Active /\ Walking /\ stack # <<>> /\ Shape /\ nodes \in Seq(Node)
           /\ Top \in Frame /\ Top.names # <<>> /\ result = 0 /\ ~failed
           /\ Top.currnode \in 0 .. Len(nodes) /\ Top.oldnode \in 0 .. Len(nodes)
           /\ Waiting \in Nat /\ Waiting + 1 = Depth /\ Depth \in Nat \ {0}
           /\ WalkAt = InodeOf(Top.oldnode) /\ Tree[WalkAt].mode = "dir"
           /\ Walk!Looking /\ Walk!names = Top.names /\ WalkLinks = symlinknest
           /\ WalkTodo \in Seq(Seq(Names)) /\ Len(WalkTodo) = Depth
           /\ \A k \in 1 .. Depth : WalkTodo[k] = ToCome(k)
           /\ InodeOf(Top.currnode) \in Walk!Found /\ InodeOf(Top.currnode) \in Inodes
           /\ Tree[InodeOf(Top.currnode)].mode = Top.type
<1>1. Active /\ Walking /\ WalkNode = Top.oldnode /\ WalkLinks = symlinknest
  BY DEF Active, Walking, WalkNode, WalkLinks
<1>2. /\ Shape /\ stack # <<>> /\ Top \in Frame /\ Depth \in Nat \ {0}
      /\ Top.currnode \in 0 .. Len(nodes) /\ Top.oldnode \in 0 .. Len(nodes)
      /\ Waiting \in Nat /\ Waiting + 1 = Depth /\ nodes \in Seq(Node)
  BY <1>1, ActiveFits
<1>3. Top.names # <<>> /\ result = 0 /\ ~failed /\ OnMatch
  BY <1>1, <1>2 DEF Shape, OnTrack
<1>4. /\ Walk!Looking /\ Walk!names = Top.names /\ WalkAt = InodeOf(Top.oldnode)
      /\ WalkTodo \in Seq(Seq(Names)) /\ Len(WalkTodo) = Depth
      /\ Walk!entries = Tree[WalkAt].entries
      /\ \A k : Walk!Wanted(k) <=> Tree[WalkAt].entries[k].name = Wanted
  BY <1>1, <1>3, LooksFor
<1>5. Tree[WalkAt].mode = "dir" /\ InodeOf(Top.currnode) # 0
      /\ Tree[InodeOf(Top.currnode)].mode = Top.type
  BY <1>3, <1>4 DEF OnMatch, Known
<1>6. InodeOf(Top.currnode) \in Inodes
  BY <1>2, <1>5, InodeRange
<1>7. InodeOf(Top.currnode) \in Walk!Found
  <2>1. PICK k \in Live(WalkAt, Wanted) : Tree[WalkAt].entries[k].ino = InodeOf(Top.currnode)
    BY <1>3, <1>4 DEF OnMatch
  <2>2. k \in DOMAIN Walk!entries /\ Walk!Wanted(k) /\ Walk!entries[k].ino # 0
    BY <1>4, <2>1 DEF Live
  <2>3. QED
    BY <1>4, <1>5, <2>1, <2>2 DEF Walk!Found
<1>8. \A k \in 1 .. Depth : WalkTodo[k] = ToCome(k)
  BY <1>1, TodoIs
<1>9. QED
  BY <1>1, <1>2, <1>3, <1>4, <1>5, <1>6, <1>7, <1>8

LEMMA FoundWalks ==
    ASSUME IInv, OnTrack, ~astray, ~astray', Found
    PROVE  OnTrack' /\ [Walk!Onward]_(Walk!vars)
<1>1. /\ pc = "matched" /\ Top.type # "link" /\ Proceed(Top)
      /\ nodes' = Freed({Top.oldnode}, Top.currroot)
      /\ UNCHANGED <<symlinknest, result, failed>>
  BY DEF Found, hist
<1>2. PICK f : f = Top
  OBVIOUS
<1>3. PICK n : n = InodeOf(f.currnode)
  OBVIOUS
<1>4. /\ Walking /\ stack # <<>> /\ nodes \in Seq(Node)
      /\ f \in Frame /\ f.names # <<>> /\ result = 0 /\ ~failed
      /\ f.currnode \in 0 .. Len(nodes)
      /\ Waiting \in Nat /\ Waiting + 1 = Depth /\ Depth \in Nat \ {0}
      /\ Walk!Looking /\ Walk!names = f.names /\ WalkLinks = symlinknest
      /\ WalkTodo \in Seq(Seq(Names)) /\ Len(WalkTodo) = Depth
      /\ \A k \in 1 .. Depth : WalkTodo[k] = ToCome(k)
      /\ n \in Walk!Found /\ n \in Inodes /\ Tree[n].mode = f.type /\ n # 0
  BY <1>1, <1>2, <1>3, OnMatchFits, TreeAssumption
<1>5. InodeOf(f.currnode)' = n
  BY <1>1, <1>3, <1>4, NodesKeepInodes
<1>6. /\ OnTrack' /\ Walking' /\ WalkAt' = n
      /\ WalkTodo' = IF Tail(f.names) = <<>>
                     THEN [k \in 1 .. Waiting |-> Tail(stack[k].names)]
                     ELSE [k \in 1 .. Depth |->
                             IF k = Depth THEN Tail(f.names) ELSE Tail(stack[k].names)]
  <2>1. Proceed(f) /\ f.type # "link" /\ result' = 0 /\ ~failed'
    BY <1>1, <1>2, <1>4
  <2>2. QED
    BY <1>4, <1>5, <2>1, Proceeds
<1>7. \A k \in 1 .. Depth : k # Depth => WalkTodo[k] = Tail(stack[k].names)
  BY <1>4 DEF ToCome
<1>8. /\ Tail(f.names) = <<>> => WalkTodo' = SubSeq(WalkTodo, 1, Len(WalkTodo) - 1)
      /\ Tail(f.names) # <<>> => WalkTodo' = [WalkTodo EXCEPT ![Len(WalkTodo)] = Tail(f.names)]
  <2>1. \A k \in 1 .. Waiting : k \in 1 .. Depth /\ k # Depth
    BY <1>4
  <2>2. CASE Tail(f.names) = <<>>
    <3>1. WalkTodo' = [k \in 1 .. Waiting |-> WalkTodo[k]]
      BY <1>6, <1>7, <2>1, <2>2
    <3>2. Len(WalkTodo) - 1 = Waiting
      BY <1>4
    <3>3. QED
      BY <1>4, <2>2, <3>1, <3>2, Popped
  <2>3. CASE Tail(f.names) # <<>>
    <3>1. WalkTodo' = [k \in 1 .. Depth |-> IF k = Depth THEN Tail(f.names) ELSE WalkTodo[k]]
      BY <1>6, <1>7, <2>3
    <3>2. WalkTodo' = [WalkTodo EXCEPT ![Len(WalkTodo)] = Tail(f.names)]
      BY <1>4, <3>1, Replaced
    <3>3. QED
      BY <2>3, <3>2
  <2>4. QED
    BY <2>2, <2>3, Zenon
<1>9. WalkLinks' = WalkLinks /\ WalkFile' = WalkFile /\ Outcome' = Outcome
  BY <1>1, <1>4, <1>6, OutcomeNow, OutcomeNext DEF WalkLinks, WalkFile
<1>10. Walk!Enter(n)
  BY <1>1, <1>2, <1>4, <1>6, <1>8, <1>9 DEF Walk!Enter
<1>11. Walk!Onward
  BY <1>4, <1>10 DEF Walk!Onward, Inodes
<1>12. QED
  BY <1>6, <1>11

-----------------------------------------------------------------------------
(* Links *)

LEMMA LinkFailsWalks ==
    ASSUME IInv, OnTrack, ~astray, ~astray', TooManyLinks \/ LinkFails
    PROVE  OnTrack' /\ [Walk!Onward]_(Walk!vars)
<1>1. pc = "matched" /\ Top.type = "link" /\ result' = result /\ Leave(Failure)
  BY DEF TooManyLinks, LinkFails
<1>2. PICK n : n = InodeOf(Top.currnode)
  OBVIOUS
<1>3. /\ Walking /\ stack # <<>> /\ Walk!Looking /\ WalkLinks = symlinknest
      /\ n \in Walk!Found /\ n \in Inodes /\ Tree[n].mode = "link"
  BY <1>1, <1>2, OnMatchFits
<1>4. failed' \/ Walk!Hopeless
  <2>1. CASE TooManyLinks
    <3>1. Walk!Barred(n)
      BY <1>3, <2>1 DEF Walk!Barred, TooManyLinks, OneTooMany
    <3>2. QED
      BY <1>3, <3>1 DEF Walk!Hopeless
  <2>2. CASE LinkFails
    <3>1. InodeUnread(n) /\ n # 0
      BY <1>2, <1>3, <2>2, TreeAssumption DEF LinkFails
    <3>2. QED
      BY <3>1, FaultFails DEF InodeUnread
  <2>3. QED
    BY <2>1, <2>2
<1>5. QED
  BY <1>1, <1>3, <1>4, WalkFails

LEMMA LinkHangsWalks ==
    ASSUME IInv, OnTrack, ~astray, ~astray', LinkHangs
    PROVE  OnTrack' /\ [Walk!Onward]_(Walk!vars)
<1>1. pc = "matched" /\ pc' = "hung" /\ UNCHANGED <<stack, result>>
  BY DEF LinkHangs, OutOfMemory
<1>2. Walking
  BY <1>1 DEF Walking
<1>3. QED
  BY <1>1, <1>2, WalkHangs

\* The target takes the place of the link.
LEMMA FollowWalks ==
    ASSUME IInv, OnTrack, ~astray, ~astray', NEW t \in Targets, Follow(t)
    PROVE  OnTrack' /\ [Walk!Onward]_(Walk!vars)
<1>1. /\ pc = "matched" /\ pc' = "component" /\ Top.type = "link" /\ result' = result
      /\ symlinknest' = symlinknest + 1 /\ ~OneTooMany
  BY DEF Follow
<1>2. PICK n, c, o, l : n = InodeOf(Top.currnode) /\ c = Top.currnode /\ o = Top.oldnode
                        /\ l = LinkRoot(t)
  OBVIOUS
<1>3. t = Tree[n].target /\ failed' = failed
  <2>1. ReadTarget(t) /\ astray' # TRUE
    BY Zenon DEF Follow
  <2>2. t = Tree[InodeOf(Top.currnode)].target /\ NoFault
    BY <2>1 DEF ReadTarget
  <2>3. QED
    BY <1>2, <2>2 DEF NoFault, hist
<1>4. /\ Walking /\ stack # <<>> /\ Shape /\ nodes \in Seq(Node)
      /\ Top \in Frame /\ Top.names # <<>> /\ result = 0 /\ ~failed
      /\ o \in 0 .. Len(nodes)
      /\ Waiting \in Nat /\ Waiting + 1 = Depth /\ Depth \in Nat \ {0}
      /\ WalkAt = InodeOf(o) /\ Tree[WalkAt].mode = "dir"
      /\ Walk!Looking /\ Walk!names = Top.names /\ WalkLinks = symlinknest
      /\ WalkTodo \in Seq(Seq(Names)) /\ Len(WalkTodo) = Depth
      /\ \A k \in 1 .. Depth : WalkTodo[k] = ToCome(k)
      /\ n \in Walk!Found /\ n \in Inodes /\ Tree[n].mode = "link"
  BY <1>1, <1>2, OnMatchFits
<1>5. t.names \in Seq(Names) /\ Top.names \in Seq(Names)
  BY <1>4, TreeAssumption, PathAssumption DEF Targets, Target, Frame
<1>6. symlinknest + 1 < MaxNest
  BY <1>1, <1>4, BoundAssumption DEF IInv, Shape, Active, OneTooMany
<1>7. l = (IF t.abs THEN RootNode ELSE o) /\ l \in 0 .. Len(nodes)
  BY <1>2, <1>4, Sizes DEF LinkRoot, RootNode
<1>8. /\ \E ns, r : nodes' = Freed(ns, r)
      /\ stack' = Append([stack EXCEPT ![Depth].oldnode = l], Call(t.names, l))
  BY <1>2 DEF Follow
<1>9. PICK f, g : f = [Top EXCEPT !.oldnode = l] /\ g = Call(t.names, l)
  OBVIOUS
<1>10. /\ f.names = Top.names /\ f.type = "link"
       /\ g.names = t.names /\ g.currnode = l /\ g.type = "dir"
  BY <1>1, <1>4, <1>9 DEF Frame, Call
<1>11. /\ Len(stack') = Depth + 1 /\ stack'[Depth + 1] = g /\ stack'[Depth] = f
       /\ \A k \in 1 .. Waiting : stack'[k] = stack[k]
  <2>1. stack \in Seq(Frame) /\ Len(stack) \in Nat \ {0} /\ Depth = Len(stack)
    BY <1>4, TopFits DEF Shape, Fits, Depth
  <2>2. PICK su : su = [stack EXCEPT ![Depth] = f]
    OBVIOUS
  <2>3. su \in Seq(Frame \union {f}) /\ Len(su) = Depth /\ su[Depth] = f
        /\ \A k \in 1 .. Waiting : su[k] = stack[k]
    BY <2>1, <2>2 DEF Waiting
  <2>4. stack' = Append(su, g)
    BY <1>8, <1>9, <2>2 DEF Top
  <2>5. \A k \in 1 .. Waiting : k \in 1 .. Depth
    BY <1>4
  <2>6. Depth \in 1 .. Depth
    BY <2>1
  <2>7. QED
    BY <2>1, <2>3, <2>4, <2>5, <2>6
<1>12. Depth' = Depth + 1 /\ Top' = g
  BY <1>11 DEF Depth, Top
<1>13. InodeOf(l)' = IF t.abs THEN Root ELSE WalkAt
  <2>1. InodeOf(l)' = InodeOf(l)
    BY <1>4, <1>7, <1>8, NodesKeepInodes
  <2>2. QED
    BY <1>4, <1>7, <2>1 DEF InodeOf
<1>14. InodeOf(l)' # 0 /\ Tree[InodeOf(l)'].mode = "dir"
  <2>1. InodeOf(o) # 0
    BY <1>1, <1>2 DEF OnTrack, OnMatch, Known
  <2>2. QED
    BY <1>4, <1>13, <2>1, TreeAssumption
<1>15. \A k \in 1 .. Depth : k = Depth \/ (k \in 1 .. Waiting /\ k < Depth)
  BY <1>4
<1>16. OnTrack'
  <2>1. InodeOf(Top.currnode)' = InodeOf(l)'
    BY <1>10, <1>12 DEF InodeOf
  <2>2. OnComponent'
    BY <1>10, <1>12, <1>14, <2>1 DEF OnComponent, Known
  <2>3. \A k \in 1 .. Depth + 1 : k < Depth + 1 => stack'[k].type = "link"
    <3>1. \A k \in 1 .. Depth : k < Depth => stack[k].type = "link"
      BY <1>1, <1>4 DEF OnTrack
    <3>2. \A k \in 1 .. Depth : stack'[k].type = "link"
      BY <1>4, <1>10, <1>11, <1>15, <3>1
    <3>3. QED
      BY <1>4, <3>2
  <2>4. QED
    BY <1>1, <1>3, <1>4, <1>12, <2>2, <2>3 DEF OnTrack
<1>17. CASE t.names = <<>>
  <2>1. ~Walking'
    <3>1. Depth' # 1
      BY <1>4, <1>12
    <3>2. QED
      BY <1>1, <1>10, <1>12, <1>17, <3>1 DEF Walking
  <2>2. Outcome' = "absent" /\ WalkFile' = WalkFile
    BY <1>1, <1>3, <1>4, <2>1, OutcomeNext DEF WalkFile
  <2>3. Walk!Barred(n)
    BY <1>3, <1>4, <1>17 DEF Walk!Barred
  <2>4. Walk!Hopeless
    BY <1>4, <2>3 DEF Walk!Hopeless
  <2>5. Walk!End(Outcome')
    BY <1>4, <2>1, Ends
  <2>6. QED
    BY <1>16, <2>2, <2>4, <2>5 DEF Walk!GiveUp, Walk!Onward
<1>18. CASE t.names # <<>>
  <2>1. Walking'
    BY <1>1, <1>10, <1>12, <1>18 DEF Walking
  <2>2. WalkNode' = l
    BY <1>1, <1>10, <1>12 DEF WalkNode
  <2>3. WalkAt' = IF t.abs THEN Root ELSE WalkAt
    BY <1>13, <2>1, <2>2 DEF WalkAt, InodeOf
  <2>4. \A k \in 1 .. Depth + 1 : ToCome(k)' =
            IF k = Depth + 1 THEN t.names ELSE IF k = Depth THEN Tail(Top.names) ELSE WalkTodo[k]
    <3>1. ASSUME NEW k \in 1 .. Depth + 1, k = Depth + 1 PROVE ToCome(k)' = t.names
      BY <1>1, <1>10, <1>11, <1>12, <3>1 DEF ToCome
    <3>2. Depth # Depth + 1
      BY <1>4
    <3>3. ASSUME NEW k \in 1 .. Depth + 1, k = Depth PROVE ToCome(k)' = Tail(Top.names)
      BY <1>10, <1>11, <1>12, <3>2, <3>3 DEF ToCome
    <3>4. ASSUME NEW k \in 1 .. Depth + 1, k # Depth, k # Depth + 1
          PROVE  ToCome(k)' = WalkTodo[k]
      <4>1. k \in 1 .. Waiting /\ k \in 1 .. Depth
        BY <1>4, <3>4
      <4>2. WalkTodo[k] = Tail(stack[k].names)
        BY <1>4, <3>4, <4>1 DEF ToCome
      <4>3. QED
        BY <1>11, <1>12, <3>4, <4>1, <4>2 DEF ToCome
    <3>5. QED
      BY <3>1, <3>2, <3>3, <3>4
  <2>5. WalkTodo' = [k \in 1 .. Depth + 1 |->
            IF k = Depth + 1 THEN t.names ELSE IF k = Depth THEN Tail(Top.names) ELSE WalkTodo[k]]
    BY <1>12, <2>1, <2>4 DEF WalkTodo
  <2>6. Tail(Top.names) \in Seq(Names)
    BY <1>4, <1>5
  <2>7. WalkTodo' = Append([WalkTodo EXCEPT ![Len(WalkTodo)] = Tail(Walk!names)], t.names)
    <3>1. WalkTodo' = Append([WalkTodo EXCEPT ![Depth] = Tail(Top.names)], t.names)
      BY <1>4, <1>5, <2>5, <2>6, Pushed
    <3>2. QED
      BY <1>4, <3>1
  <2>8. WalkLinks' = WalkLinks + 1 /\ WalkLinks + 1 < MaxNest
    BY <1>1, <1>4, <1>6, <2>1 DEF WalkLinks
  <2>9. WalkFile' = WalkFile /\ Outcome' = Outcome
    BY <1>1, <1>4, <2>1, OutcomeNow, OutcomeNext DEF WalkFile
  <2>10. Walk!Follow(n)
    BY <1>3, <1>4, <1>18, <2>3, <2>7, <2>8, <2>9 DEF Walk!Follow
  <2>11. Walk!Onward
    BY <1>4, <2>10 DEF Walk!Onward, Inodes
  <2>12. QED
    BY <1>16, <2>11
<1>19. QED
  BY <1>17, <1>18

-----------------------------------------------------------------------------
(* Returns *)

LEMMA ResumeWalks ==
    ASSUME IInv, OnTrack, ~astray, ~astray', Resume
    PROVE  OnTrack' /\ [Walk!Onward]_(Walk!vars)
<1>1. /\ pc = "return" /\ stack # <<>> /\ ret.ok /\ nodes' = Freed({Top.oldnode}, Top.currroot)
      /\ UNCHANGED <<symlinknest, result, failed>>
  BY DEF Resume, hist
<1>2. /\ Shape /\ Top \in Frame /\ Depth \in Nat \ {0} /\ Waiting \in Nat /\ Waiting + 1 = Depth
      /\ nodes \in Seq(Node) /\ ret \in Return /\ ret.node \in 0 .. Len(nodes)
  BY <1>1, TopFits, WaitingFits DEF IInv, Shape
<1>3. /\ result = 0 /\ ~failed /\ OnReturn /\ Top.type = "link"
  BY <1>1, <1>2 DEF OnTrack, Top
<1>4. PICK n, m : n = ret.node /\ m = InodeOf(ret.node)
  OBVIOUS
<1>5. PICK f : f = [Top EXCEPT !.currnode = ret.node,
                               !.type = IF ret.type = Same THEN @ ELSE ret.type]
  OBVIOUS
<1>6. Proceed(f)
  BY <1>5 DEF Resume
<1>7. /\ f \in Frame /\ f.currnode = n /\ f.names = Top.names
      /\ f.type = IF ret.type = Same THEN "link" ELSE ret.type
  <2>1. n \in Nat
    BY <1>2, <1>4
  <2>2. QED
    BY <1>2, <1>3, <1>4, <1>5, <2>1 DEF Return, Frame
<1>8. InodeOf(n)' = m
  BY <1>1, <1>2, <1>4, NodesKeepInodes
<1>9. m # 0 /\ (f.type = "link" \/ f.type = Tree[m].mode)
  BY <1>3, <1>4, <1>7 DEF OnReturn, Known
<1>10. /\ OnTrack'
       /\ Walking' <=> f.type # "link"
       /\ Walking' =>
             /\ WalkAt' = m
             /\ WalkTodo' = IF Tail(f.names) = <<>>
                            THEN [k \in 1 .. Waiting |-> Tail(stack[k].names)]
                            ELSE [k \in 1 .. Depth |->
                                    IF k = Depth THEN Tail(f.names) ELSE Tail(stack[k].names)]
  <2>1. InodeOf(f.currnode)' = m /\ result' = 0 /\ ~failed'
    BY <1>1, <1>3, <1>7, <1>8
  <2>2. QED
    BY <1>1, <1>6, <1>7, <1>9, <2>1, Proceeds
<1>11. Walking <=> f.type # "link"
  BY <1>1, <1>7 DEF Walking
<1>12. CASE f.type = "link"
  <2>1. Outcome = "absent"
    BY <1>1, <1>3, <1>11, <1>12, OutcomeNow
  <2>2. pc' \notin {"idle", "hung"}
    BY <1>6 DEF Proceed, Leave
  <2>3. Outcome' = "absent" /\ WalkFile' = WalkFile
    BY <1>1, <1>3, <1>10, <1>12, <2>2, OutcomeNext DEF WalkFile
  <2>4. QED
    BY <1>10, <1>11, <1>12, <2>1, <2>3, Rests
<1>13. CASE f.type # "link"
  <2>1. Walking /\ Walking'
    BY <1>10, <1>11, <1>13
  <2>2. WalkNode = n /\ WalkAt = m
    BY <1>1, <1>4, <2>1 DEF WalkNode, WalkAt
  <2>3. /\ WalkTodo \in Seq(Seq(Names)) /\ Len(WalkTodo) = Depth
        /\ \A k \in 1 .. Depth : WalkTodo[k] = ToCome(k)
    BY <2>1, TodoIs
  <2>4. \A k \in 1 .. Depth : WalkTodo[k] = Tail(stack[k].names)
    BY <1>1, <2>3 DEF ToCome
  <2>5. Walk!names = Tail(f.names)
    <3>1. Depth \in 1 .. Depth /\ Walk!names = WalkTodo[Depth]
      BY <1>2, <2>3 DEF Walk!names
    <3>2. WalkTodo[Depth] = Tail(stack[Depth].names)
      BY <2>4, <3>1
    <3>3. QED
      BY <1>7, <3>1, <3>2 DEF Top
  <2>6. WalkLinks' = WalkLinks /\ WalkFile' = WalkFile /\ Outcome' = Outcome
        /\ Outcome = "walking" /\ WalkAt' = WalkAt
    BY <1>1, <1>10, <2>1, <2>2, OutcomeNow, OutcomeNext DEF WalkLinks, WalkFile
  <2>7. CASE Tail(f.names) = <<>>
    <3>1. \A k \in 1 .. Waiting : k \in 1 .. Depth
      BY <1>2
    <3>2. WalkTodo' = [k \in 1 .. Waiting |-> WalkTodo[k]]
      BY <1>10, <2>1, <2>4, <2>7, <3>1
    <3>3. Len(WalkTodo) - 1 = Waiting
      BY <1>2, <2>3
    <3>4. WalkTodo' = SubSeq(WalkTodo, 1, Len(WalkTodo) - 1)
      BY <1>2, <2>3, <3>2, <3>3, Popped
    <3>5. WalkTodo # <<>>
      BY <1>2, <2>3
    <3>6. Walk!Drop
      BY <2>5, <2>6, <2>7, <3>4, <3>5 DEF Walk!Drop
    <3>7. QED
      BY <1>10, <3>6 DEF Walk!Onward
  <2>8. CASE Tail(f.names) # <<>>
    <3>1. WalkTodo' = [k \in 1 .. Depth |->
              IF k = Depth THEN Tail(f.names) ELSE Tail(stack[k].names)]
      BY <1>10, <2>1, <2>8
    <3>2. WalkTodo' = [k \in 1 .. Depth |-> WalkTodo[k]]
      BY <1>7, <2>4, <3>1 DEF Top
    <3>3. WalkTodo' = WalkTodo
      BY <2>3, <3>2
    <3>4. QED
      BY <1>10, <2>6, <3>3 DEF Walk!vars
  <2>9. QED
    BY <2>7, <2>8
<1>14. QED
  BY <1>12, <1>13

LEMMA ResumeFailsWalks ==
    ASSUME IInv, OnTrack, ~astray, ~astray', ResumeFails
    PROVE  OnTrack' /\ [Walk!Onward]_(Walk!vars)
<1>1. /\ pc = "return" /\ stack # <<>> /\ ~ret.ok /\ Leave(Failure)
      /\ UNCHANGED <<result, failed>>
  BY DEF ResumeFails, hist
<1>2. ~Walking
  BY <1>1 DEF Walking
<1>3. QED
  BY <1>1, <1>2, LateFails

\* The last call has returned.
LEMMA OnReturnFits ==
    ASSUME IInv, OnTrack, ~astray, pc = "return", stack = <<>>
    PROVE  /\ result = 0
           /\ Walking <=> ret.ok /\ ret.type \notin {Same, "link"}
           /\ Walking => /\ Walk!Arrived /\ ~failed /\ WalkAt # 0
                         /\ WalkAt = InodeOf(ret.node) /\ Tree[WalkAt].mode = ret.type
<1>1. result = 0 /\ (ret.ok => ~failed /\ OnReturn)
  BY DEF OnTrack
<1>2. Walking <=> ret.ok /\ ret.type \notin {Same, "link"}
  BY DEF Walking
<1>3. ASSUME Walking
      PROVE  /\ Walk!Arrived /\ ~failed /\ WalkAt # 0
             /\ WalkAt = InodeOf(ret.node) /\ Tree[WalkAt].mode = ret.type
  <2>1. WalkAt = InodeOf(ret.node)
    BY <1>3 DEF WalkAt, WalkNode
  <2>2. Depth = 0 /\ 1 .. 0 = {}
    BY DEF Depth
  <2>3. DOMAIN WalkTodo = {}
    BY <1>3, <2>2, TodoIs
  <2>4. QED
    BY <1>1, <1>2, <1>3, <2>1, <2>3 DEF Walk!Arrived, OnReturn, Known
<1>4. QED
  BY <1>1, <1>2, <1>3

LEMMA LookupDone ==
    ASSUME OnTrack, pc = "return", stack = <<>>, pc' = "done", stack' = stack
    PROVE  OnTrack' /\ ~Walking'
<1>1. Depth' = 0 /\ \A k \in 1 .. 0 : FALSE
  BY DEF Depth
<1>2. QED
  BY <1>1 DEF OnTrack, Walking, Active

LEMMA OpenFailsWalks ==
    ASSUME IInv, OnTrack, ~astray, ~astray', OpenFails
    PROVE  OnTrack' /\ [Walk!Onward]_(Walk!vars)
<1>1. /\ pc = "return" /\ stack = <<>> /\ (~ret.ok \/ ret.type # "reg") /\ pc' = "done"
      /\ UNCHANGED <<stack, result, failed>>
  BY DEF OpenFails, hist
<1>2. OnTrack' /\ ~Walking'
  BY <1>1, LookupDone
<1>3. /\ result = 0
      /\ Walking => /\ Walk!Arrived /\ ~failed /\ ret.ok /\ Tree[WalkAt].mode = ret.type
  BY <1>1, OnReturnFits
<1>4. Outcome' = (IF failed THEN "unread" ELSE "absent") /\ WalkFile' = WalkFile
  BY <1>1, <1>2, <1>3, OutcomeNext DEF WalkFile
<1>5. CASE Walking
  <2>1. Walk!Hopeless
    BY <1>1, <1>3, <1>5 DEF Walk!Hopeless
  <2>2. Walk!End(Outcome') /\ Outcome' = "absent"
    BY <1>2, <1>3, <1>4, <1>5, Ends
  <2>3. QED
    BY <1>2, <1>4, <2>1, <2>2 DEF Walk!GiveUp, Walk!Onward
<1>6. CASE ~Walking
  <2>1. Outcome = (IF failed THEN "unread" ELSE "absent")
    BY <1>1, <1>3, <1>6, OutcomeNow
  <2>2. QED
    BY <1>2, <1>4, <1>6, <2>1, Rests
<1>7. QED
  BY <1>5, <1>6

LEMMA OpenUnreadWalks ==
    ASSUME IInv, OnTrack, ~astray, ~astray', OpenUnread
    PROVE  OnTrack' /\ [Walk!Onward]_(Walk!vars)
<1>1. /\ pc = "return" /\ stack = <<>> /\ ret.ok /\ ret.type = "reg" /\ pc' = "done"
      /\ UNCHANGED <<stack, result>> /\ InodeUnread(InodeOf(ret.node))
  BY DEF OpenUnread
<1>2. OnTrack' /\ ~Walking'
  BY <1>1, LookupDone
<1>3. result = 0 /\ Walking /\ InodeOf(ret.node) # 0
  BY <1>1, OnReturnFits DEF Same
<1>4. failed'
  BY <1>1, <1>3, FaultFails DEF InodeUnread
<1>5. Outcome' = "unread" /\ WalkFile' = WalkFile
  BY <1>1, <1>2, <1>3, <1>4, OutcomeNext DEF WalkFile
<1>6. Walk!End(Outcome')
  BY <1>2, <1>3, Ends
<1>7. QED
  BY <1>2, <1>5, <1>6 DEF Walk!Unread, Walk!Onward

LEMMA OpenedWalks ==
    ASSUME IInv, OnTrack, ~astray, ~astray', Opened
    PROVE  OnTrack' /\ [Walk!Onward]_(Walk!vars)
<1>1. /\ pc = "return" /\ stack = <<>> /\ ret.ok /\ ret.type = "reg" /\ pc' = "done"
      /\ stack' = stack /\ result' = InodeOf(ret.node)
  BY DEF Opened, walk
<1>2. OnTrack' /\ ~Walking'
  BY <1>1, LookupDone
<1>3. /\ Walking /\ Walk!Arrived /\ WalkAt = InodeOf(ret.node) /\ WalkAt # 0
      /\ Tree[WalkAt].mode = "reg"
  BY <1>1, OnReturnFits DEF Same
<1>4. Outcome' = "opened" /\ WalkFile' = WalkAt
  BY <1>1, <1>2, <1>3, OutcomeNext DEF WalkFile
<1>5. Walk!End(Outcome')
  BY <1>2, <1>3, Ends
<1>6. QED
  BY <1>2, <1>3, <1>4, <1>5 DEF Walk!Open, Walk!Onward

-----------------------------------------------------------------------------
(* The specification *)

LEMMA OpenWalks ==
    ASSUME IInv, NEW p \in Paths, Open(p)
    PROVE  OnTrack' /\ Walk!Begin(p)
<1>1. /\ pc \in {"idle", "done"} /\ pc' = "component" /\ stack' = <<Call(p, RootNode)>>
      /\ symlinknest' = 0 /\ result' = 0 /\ failed' = FALSE /\ astray' = FALSE
  BY DEF Open
<1>2. Outcome # "walking"
  <2>1. ~Walking
    BY <1>1 DEF Walking
  <2>2. QED
    BY <1>1, <2>1, OutcomeNow, Zenon
<1>3. PICK g : g = Call(p, RootNode)
  OBVIOUS
<1>4. g.names = p /\ g.currnode = RootNode /\ g.type = "dir"
  BY <1>3 DEF Call
<1>5. Depth' = 1 /\ Top' = g /\ stack'[1] = g
  BY <1>1, <1>3 DEF Depth, Top
<1>6. InodeOf(Top.currnode)' = Root
  BY <1>4, <1>5 DEF InodeOf
<1>7. OnTrack'
  <2>1. OnComponent'
    BY <1>4, <1>5, <1>6, TreeAssumption DEF OnComponent, Known
  <2>2. \A k \in 1 .. 1 : ~(k < 1)
    OBVIOUS
  <2>3. QED
    BY <1>1, <1>5, <2>1, <2>2 DEF OnTrack
<1>8. Walking'
  BY <1>1, <1>4, <1>5 DEF Walking
<1>9. WalkAt' = Root
  <2>1. InodeOf(WalkNode)' = InodeOf(Top.currnode)'
    BY <1>1 DEF WalkNode, InodeOf
  <2>2. QED
    BY <1>6, <1>8, <2>1 DEF WalkAt
<1>10. WalkTodo' = <<p>>
  <2>1. \A k \in 1 .. 1 : ToCome(k)' = p
    BY <1>1, <1>4, <1>5 DEF ToCome
  <2>2. WalkTodo' = [k \in 1 .. 1 |-> p]
    BY <1>5, <1>8, <2>1 DEF WalkTodo
  <2>3. QED
    BY <2>2
<1>11. WalkLinks' = 0 /\ WalkFile' = 0 /\ Outcome' = "walking"
  BY <1>1, <1>8, OutcomeNext DEF WalkLinks, WalkFile
<1>12. Walk!Begin(p)
  BY <1>2, <1>9, <1>10, <1>11 DEF Walk!Begin
<1>13. QED
  BY <1>7, <1>12

\* Where the walk loses its way.
LEMMA StrayWalks ==
    ASSUME IInv, OnTrack, ~astray, astray', Match \/ \E t \in Targets : Follow(t)
    PROVE  Walk!Onward
<1>1. pc \in {"entry", "matched"} /\ result = 0
  BY DEF Match, HasEntry, Follow, OnTrack
<1>2. Walking /\ ~Walking'
  BY <1>1 DEF Walking
<1>3. Walk!End(Outcome') /\ Outcome' = "astray" /\ WalkFile' = WalkFile
  BY <1>1, <1>2, Ends, OutcomeNext DEF WalkFile
<1>4. CASE Match
  <2>1. pc = "entry" /\ HasEntry /\ This.name = Wanted
    BY <1>4 DEF Match, HasEntry
  <2>2. Deleted(This)
    BY <1>4, Zenon DEF Match
  <2>3. /\ Walk!Looking /\ Tree[WalkAt].mode = "dir" /\ Walk!entries = Directory
        /\ scan \in DOMAIN Directory /\ Walk!Wanted(scan)
    BY <2>1, OnEntryFits DEF This
  <2>4. Walk!Treacherous
    BY <2>2, <2>3 DEF Walk!Treacherous, Walk!Stale, Deleted, This
  <2>5. QED
    BY <1>3, <2>4 DEF Walk!Stray, Walk!Onward
<1>5. CASE \E t \in Targets : Follow(t)
  <2>1. PICK t \in Targets : Follow(t)
    BY <1>5
  <2>2. pc = "matched" /\ Top.type = "link" /\ ReadTarget(t)
    BY <2>1 DEF Follow
  <2>3. PICK n : n = InodeOf(Top.currnode)
    OBVIOUS
  <2>4. Tree[n].target.long
    <3>1. NoFault => astray' = astray
      BY DEF NoFault, hist
    <3>2. ~NoFault
      BY <3>1, Zenon
    <3>3. QED
      BY <2>2, <2>3, <3>2 DEF ReadTarget
  <2>5. /\ Walk!Looking /\ Tree[WalkAt].mode = "dir"
        /\ n \in Walk!Found /\ Tree[n].mode = "link"
    BY <2>2, <2>3, OnMatchFits
  <2>6. Walk!Treacherous
    BY <2>4, <2>5 DEF Walk!Treacherous
  <2>7. QED
    BY <1>3, <2>6 DEF Walk!Stray, Walk!Onward
<1>6. QED
  BY <1>4, <1>5

\* A lookup that has lost its way stays lost; no other step loses it.
LEMMA Lost ==
    ASSUME Lookup
    PROVE  /\ astray => astray'
           /\ ~astray /\ astray' => Match \/ \E t \in Targets : Follow(t)
<1>1. CASE Match \/ \E t \in Targets : Follow(t)
  <2>1. astray => astray'
    <3>1. CASE Match
      BY <3>1, Zenon DEF Match
    <3>2. CASE \E t \in Targets : Follow(t)
      <4>1. PICK t \in Targets : Follow(t)
        BY <3>2
      <4>2. ReadTarget(t)
        BY <4>1 DEF Follow
      <4>3. NoFault => astray' = astray
        BY DEF NoFault, hist
      <4>4. QED
        BY <4>2, <4>3, Zenon DEF ReadTarget
    <3>3. QED
      BY <1>1, <3>1, <3>2
  <2>2. QED
    BY <1>1, <2>1
<1>2. CASE ~(Match \/ \E t \in Targets : Follow(t))
  <2>1. UNCHANGED astray
    <3>1. NoFault \/ Fault \/ UNCHANGED hist => UNCHANGED astray
      BY DEF NoFault, Fault, hist
    <3>2. NoFault \/ Fault \/ UNCHANGED hist
      BY <1>2, Zenon DEF Lookup, Component, EmptyPath, NotADirectory, Iterate, IterateFails,
         ScanEntry, EntryFails, Nameless, TypeFails, Pass, NotFound, EntryHangs, Found,
         Link, TooManyLinks, LinkFails, LinkHangs,
         Returning, Resume, ResumeFails, OpenFails, OpenUnread, Opened, InodeUnread
    <3>3. QED
      BY <3>1, <3>2
  <2>2. QED
    BY <1>2, <2>1
<1>3. QED
  BY <1>1, <1>2

LEMMA LookupWalks ==
    ASSUME IInv, OnTrack, Lookup PROVE OnTrack' /\ [Walk!Onward]_(Walk!vars)
<1>1. CASE astray'
  <2>1. OnTrack' /\ ~Walking' /\ Outcome' = "astray" /\ WalkFile' = 0
    BY <1>1, OutcomeNext DEF OnTrack, Walking, WalkFile
  <2>2. CASE astray
    <3>1. ~Walking /\ Outcome = "astray" /\ WalkFile = 0
      BY <2>2, OutcomeNow DEF Walking, WalkFile
    <3>2. UNCHANGED Walk!vars
      BY <2>1, <3>1, Rests
    <3>3. QED
      BY <2>1, <3>2
  <2>3. CASE ~astray
    BY <1>1, <2>1, <2>3, Lost, StrayWalks
  <2>4. QED
    BY <2>2, <2>3
<1>2. CASE ~astray'
  <2>1. ~astray
    BY <1>2, Lost
  <2>2. CASE Component
    BY <1>2, <2>1, <2>2, EmptyPathWalks, NotADirectoryWalks, IterateWalks, IterateFailsWalks
       DEF Component
  <2>3. CASE ScanEntry
    BY <1>2, <2>1, <2>3, EntryFailsWalks, EntryHangsWalks, PassWalks, MatchWalks DEF ScanEntry
  <2>4. CASE Found
    BY <1>2, <2>1, <2>4, FoundWalks
  <2>5. CASE Link
    BY <1>2, <2>1, <2>5, LinkFailsWalks, LinkHangsWalks, FollowWalks DEF Link
  <2>6. CASE Returning
    BY <1>2, <2>1, <2>6, ResumeWalks, ResumeFailsWalks, OpenFailsWalks, OpenUnreadWalks,
       OpenedWalks DEF Returning
  <2>7. QED
    BY <2>2, <2>3, <2>4, <2>5, <2>6 DEF Lookup
<1>3. QED
  BY <1>1, <1>2

LEMMA WalkInit == Init => OnTrack /\ Walk!Init
<1> SUFFICES ASSUME Init PROVE OnTrack /\ Walk!Init
  OBVIOUS
<1>1. pc = "idle" /\ ~astray /\ result = 0 /\ stack = <<>>
  BY DEF Init
<1>2. ~Walking /\ WalkFile = 0 /\ Outcome = "none"
  BY <1>1, OutcomeNow DEF Walking, WalkFile
<1>3. OnTrack
  <2>1. Depth = 0 /\ \A k \in 1 .. 0 : FALSE
    BY <1>1 DEF Depth
  <2>2. QED
    BY <1>1, <2>1 DEF OnTrack, Active
<1>4. Walk!Init
  BY <1>2 DEF Walk!Init, WalkAt, WalkTodo, WalkLinks
<1>5. QED
  BY <1>3, <1>4

LEMMA WalkStutters == ASSUME OnTrack, UNCHANGED vars PROVE OnTrack' /\ UNCHANGED Walk!vars
<1>1. OnTrack'
  BY DEF OnTrack, vars, walk, hist, Active, Depth, OnComponent, OnEntry, OnMatch, OnReturn,
         Known, InodeOf, Top, Directory, Wanted, Live
<1>2. UNCHANGED Walk!vars
  BY DEF Walk!vars, WalkAt, WalkTodo, WalkLinks, WalkFile, Outcome, Walking, WalkNode, ToCome,
         vars, walk, hist, Depth, InodeOf, Top
<1>3. QED
  BY <1>1, <1>2

LEMMA WalkStep == IInv /\ OnTrack /\ [Next]_vars => OnTrack' /\ [Walk!Next]_(Walk!vars)
<1> SUFFICES ASSUME IInv, OnTrack, [Next]_vars PROVE OnTrack' /\ [Walk!Next]_(Walk!vars)
  OBVIOUS
<1>1. CASE \E p \in Paths : Open(p)
  BY <1>1, OpenWalks DEF Walk!Next
<1>2. CASE Lookup
  BY <1>2, LookupWalks DEF Walk!Next
<1>3. CASE UNCHANGED vars
  BY <1>3, WalkStutters
<1>4. QED
  BY <1>1, <1>2, <1>3 DEF Next

\* ext2.c:672-772: every step of ext2fs_open and of the calls it nests is a step
\* of the walk by the rules of Unix, or none that can be seen: a component leads
\* to what the directory has under its name, a link to its target, and a walk is
\* given up for the reasons in Hopeless and Treacherous only.
THEOREM ImplementsUnixWalk == Spec => ImplementsWalk
<1>1. Init => IInv /\ OnTrack /\ Walk!Init
  BY IInit, WalkInit
<1>2. IInv /\ OnTrack /\ [Next]_vars => IInv' /\ OnTrack' /\ [Walk!Next]_(Walk!vars)
  BY IStep, WalkStep
<1>3. QED
  BY <1>1, <1>2, PTL DEF Spec, ImplementsWalk, Walk!Spec

-----------------------------------------------------------------------------
(* The recursive definition of a path *)

\* Every natural number is reached from 0.
LEMMA AllNaturals ==
    ASSUME NEW S, 0 \in S, \A n \in Nat : n \in S => n + 1 \in S
    PROVE  Nat \subseteq S
<1> SUFFICES ASSUME Nat \ S # {} PROVE FALSE
  OBVIOUS
<1>1. PICK R : R = {ss \in Nat \X Nat : ss[1] < ss[2]}
  OBVIOUS
<1>2. IsWellFoundedOn(R, Nat)
  BY <1>1, NatLessThanWellFounded DEF OpToRel
<1>3. PICK n \in Nat \ S : \A m \in Nat \ S : ~(<<m, n>> \in R)
  <2>1. Nat \ S \subseteq Nat
    OBVIOUS
  <2>2. QED
    BY <1>2, <2>1, WFMin
<1>4. n - 1 \in Nat /\ n - 1 + 1 = n /\ n - 1 < n
  BY <1>3
<1>5. n - 1 \in S
  BY <1>1, <1>3, <1>4
<1>6. QED
  BY <1>4, <1>5

\* The recursion up to m steps.
Upto(f, m) == \A n \in 0 .. m : f[n] = IF n = 0 THEN Here ELSE Further(f[n - 1])

LEMMA UptoLess == ASSUME NEW f, NEW m \in Nat, Upto(f, m + 1) PROVE Upto(f, m)
BY DEF Upto

LEMMA UptoExists == \A m \in Nat : \E f : Upto(f, m)
<1> DEFINE S == {m \in Nat : \E f : Upto(f, m)}
<1>1. 0 \in S
  <2>1. PICK f : f = [n \in Nat |-> Here]
    OBVIOUS
  <2>2. \A n \in 0 .. 0 : n = 0 /\ f[n] = Here
    BY <2>1
  <2>3. Upto(f, 0)
    BY <2>2 DEF Upto
  <2>4. QED
    BY <2>3
<1>2. ASSUME NEW m \in Nat, m \in S PROVE m + 1 \in S
  <2>1. PICK f : Upto(f, m)
    BY <1>2
  <2>2. PICK g : g = [n \in Nat |-> IF n = m + 1 THEN Further(f[m]) ELSE f[n]]
    OBVIOUS
  <2>3. ASSUME NEW n \in 0 .. m + 1
        PROVE  g[n] = IF n = 0 THEN Here ELSE Further(g[n - 1])
    <3>1. CASE n = m + 1
      <4>1. n # 0 /\ n - 1 = m /\ m \in Nat /\ m # m + 1 /\ m + 1 \in Nat
        BY <3>1
      <4>2. g[n] = Further(f[m]) /\ g[m] = f[m]
        BY <2>2, <3>1, <4>1
      <4>3. QED
        BY <4>1, <4>2
    <3>2. CASE n # m + 1
      <4>1. n \in 0 .. m /\ n \in Nat /\ (n # 0 => n - 1 \in Nat /\ n - 1 # m + 1)
        BY <3>2
      <4>2. g[n] = f[n] /\ (n # 0 => g[n - 1] = f[n - 1])
        BY <2>2, <3>2, <4>1
      <4>3. f[n] = IF n = 0 THEN Here ELSE Further(f[n - 1])
        BY <2>1, <4>1 DEF Upto
      <4>4. QED
        BY <4>2, <4>3
    <3>3. QED
      BY <3>1, <3>2
  <2>4. Upto(g, m + 1)
    BY <2>3 DEF Upto
  <2>5. m + 1 \in Nat
    OBVIOUS
  <2>6. QED
    BY <2>4, <2>5
<1> HIDE DEF S
<1>3. Nat \subseteq S
  BY <1>1, <1>2, AllNaturals
<1>4. QED
  BY <1>3 DEF S

LEMMA UptoUnique ==
    ASSUME NEW f, NEW g PROVE \A m \in Nat : Upto(f, m) /\ Upto(g, m) => f[m] = g[m]
<1> DEFINE S == {m \in Nat : Upto(f, m) /\ Upto(g, m) => f[m] = g[m]}
<1>1. 0 \in S
  BY DEF Upto
<1>2. ASSUME NEW m \in Nat, m \in S PROVE m + 1 \in S
  <2>1. SUFFICES ASSUME Upto(f, m + 1), Upto(g, m + 1) PROVE f[m + 1] = g[m + 1]
    OBVIOUS
  <2>2. f[m] = g[m]
    BY <1>2, <2>1, UptoLess
  <2>3. m + 1 \in 0 .. m + 1 /\ m + 1 # 0 /\ m + 1 - 1 = m
    OBVIOUS
  <2>4. f[m + 1] = Further(f[m]) /\ g[m + 1] = Further(g[m])
    BY <2>1, <2>3 DEF Upto
  <2>5. QED
    BY <2>2, <2>4
<1> HIDE DEF S
<1>3. Nat \subseteq S
  BY <1>1, <1>2, AllNaturals
<1>4. QED
  BY <1>3 DEF S

LEMMA TrailExists == \E h : h = [n \in Nat |-> IF n = 0 THEN Here ELSE Further(h[n - 1])]
<1> DEFINE F(m) == CHOOSE f : Upto(f, m)
<1>1. PICK h : h = [m \in Nat |-> F(m)[m]]
  OBVIOUS
<1>2. \A m \in Nat : Upto(F(m), m)
  BY UptoExists
<1> HIDE DEF F
<1>3. ASSUME NEW m \in Nat PROVE F(m)[m] = IF m = 0 THEN Here ELSE Further(h[m - 1])
  <2>1. m \in 0 .. m
    OBVIOUS
  <2>2. F(m)[m] = IF m = 0 THEN Here ELSE Further(F(m)[m - 1])
    BY <1>2, <2>1 DEF Upto
  <2>3. CASE m = 0
    BY <2>2, <2>3
  <2>4. CASE m # 0
    <3>1. m - 1 \in Nat /\ m - 1 + 1 = m
      BY <2>4
    <3>2. Upto(F(m), m - 1) /\ Upto(F(m - 1), m - 1)
      BY <1>2, <3>1, UptoLess
    <3>3. F(m)[m - 1] = F(m - 1)[m - 1]
      BY <3>1, <3>2, UptoUnique
    <3>4. h[m - 1] = F(m - 1)[m - 1]
      BY <1>1, <3>1
    <3>5. QED
      BY <2>2, <2>4, <3>3, <3>4
  <2>5. QED
    BY <2>3, <2>4
<1>4. h = [n \in Nat |-> IF n = 0 THEN Here ELSE Further(h[n - 1])]
  BY <1>1, <1>3
<1>5. QED
  BY <1>4

LEMMA TrailIs ==
    /\ Trail[0] = Here
    /\ \A n \in Nat : Trail[n + 1] = Further(Trail[n])
<1>1. Trail = [n \in Nat |-> IF n = 0 THEN Here ELSE Further(Trail[n - 1])]
  BY TrailExists, Zenon DEF Trail
<1>2. \A n \in Nat : Trail[n] = IF n = 0 THEN Here ELSE Further(Trail[n - 1])
  BY <1>1, Zenon
<1>3. \A n \in Nat : n + 1 \in Nat /\ n + 1 # 0 /\ n + 1 - 1 = n
  OBVIOUS
<1>4. 0 \in Nat
  OBVIOUS
<1> HIDE DEF Trail
<1>5. QED
  BY <1>2, <1>3, <1>4

\* What is passed, reached and still to come when the walk in d takes inode n.
Passed(d, n) == IF Tree[n].mode = "link" THEN <<d, n>> ELSE <<d>>
Reached(d, n) ==
    IF Tree[n].mode = "link" THEN IF Tree[n].target.abs THEN Root ELSE d ELSE n
After(names, n) ==
    IF Tree[n].mode = "link" THEN Tree[n].target.names \o Tail(names) ELSE Tail(names)

LEMMA StepFits ==
    ASSUME NEW d \in Inodes, NEW n \in Inodes, NEW names \in Seq(Names), names # <<>>
    PROVE  /\ Passed(d, n) \in Seq(Inodes) /\ Passed(d, n) # <<>> /\ Passed(d, n)[1] = d
           /\ Reached(d, n) \in Inodes /\ After(names, n) \in Seq(Names)
<1>1. Passed(d, n) \in Seq(Inodes) /\ Passed(d, n) # <<>> /\ Passed(d, n)[1] = d
  BY DEF Passed
<1>2. Reached(d, n) \in Inodes
  BY TreeAssumption DEF Reached
<1>3. After(names, n) \in Seq(Names)
  <2>1. Tree[n].target.names \in Seq(Names) /\ Tail(names) \in Seq(Names)
    BY TreeAssumption DEF Target
  <2>2. Tree[n].target.names \o Tail(names) \in Seq(Names)
    BY <2>1, ConcatProperties
  <2>3. QED
    BY <2>1, <2>2 DEF After
<1>4. QED
  BY <1>1, <1>2, <1>3

LEMMA LiveFits ==
    ASSUME NEW d \in Inodes, NEW name \in Names, NEW k \in Live(d, name)
    PROVE  /\ Tree[d].entries[k].ino \in Inodes
           /\ \A j \in Live(d, name) : j = k
<1>1. Tree[d].entries \in Seq(Entry) /\ name # NoName
  BY TreeAssumption
<1>2. k \in DOMAIN Tree[d].entries /\ Tree[d].entries[k] \in Entry
      /\ Tree[d].entries[k].name = name /\ Tree[d].entries[k].ino # 0
  BY <1>1 DEF Live
<1>3. \A j \in DOMAIN Tree[d].entries : Tree[d].entries[j].name = name => j = k
  BY <1>1, <1>2, TreeAssumption
<1>4. QED
  BY <1>2, <1>3 DEF Live, Entry

\* One step more.
LEMMA FurtherIs ==
    ASSUME NEW trail, NEW d \in Inodes, NEW names \in Seq(Names)
    PROVE  /\ names = <<>> => Further(trail)[d][names] = <<d>>
           /\ names # <<>> /\ (Tree[d].mode # "dir" \/ Live(d, Head(names)) = {})
                  => Further(trail)[d][names] = <<>>
           /\ names # <<>> /\ Tree[d].mode = "dir" =>
                  \A k \in Live(d, Head(names)) : LET n == Tree[d].entries[k].ino IN
                      Further(trail)[d][names] =
                          IF trail[Reached(d, n)][After(names, n)] = <<>> THEN <<>>
                          ELSE Passed(d, n) \o trail[Reached(d, n)][After(names, n)]
<1>1. Further(trail)[d][names] =
          IF names = <<>> THEN <<d>>
          ELSE IF Tree[d].mode # "dir" \/ Live(d, Head(names)) = {} THEN <<>>
          ELSE LET k == CHOOSE k \in Live(d, Head(names)) : TRUE
                   next == Tree[d].entries[k].ino
                   to == Tree[next].target
                   rest == IF Tree[next].mode = "link"
                           THEN trail[IF to.abs THEN Root ELSE d][to.names \o Tail(names)]
                           ELSE trail[next][Tail(names)]
               IN  IF rest = <<>> THEN <<>>
                   ELSE IF Tree[next].mode = "link" THEN <<d, next>> \o rest ELSE <<d>> \o rest
  BY Zenon DEF Further
<1>2. ASSUME names # <<>>, Tree[d].mode = "dir", NEW k \in Live(d, Head(names))
      PROVE  LET n == Tree[d].entries[k].ino IN
             Further(trail)[d][names] =
                 IF trail[Reached(d, n)][After(names, n)] = <<>> THEN <<>>
                 ELSE Passed(d, n) \o trail[Reached(d, n)][After(names, n)]
  <2>1. Head(names) \in Names
    BY <1>2
  <2>2. (CHOOSE j \in Live(d, Head(names)) : TRUE) = k
    BY <2>1, <1>2, LiveFits
  <2>3. PICK n : n = Tree[d].entries[k].ino
    OBVIOUS
  <2>4. PICK r : r = IF Tree[n].mode = "link"
                     THEN trail[IF Tree[n].target.abs THEN Root ELSE d]
                               [Tree[n].target.names \o Tail(names)]
                     ELSE trail[n][Tail(names)]
    OBVIOUS
  <2>5. Further(trail)[d][names] =
            IF r = <<>> THEN <<>>
            ELSE IF Tree[n].mode = "link" THEN <<d, n>> \o r ELSE <<d>> \o r
    BY <1>1, <1>2, <2>2, <2>3, <2>4
  <2>6. r = trail[Reached(d, n)][After(names, n)]
    BY <2>4 DEF Reached, After
  <2>7. QED
    BY <2>3, <2>5, <2>6 DEF Passed
<1>3. QED
  BY <1>1, <1>2

LEMMA FurtherHere ==
    ASSUME NEW trail, NEW d \in Inodes PROVE Further(trail)[d][<<>>] = <<d>>
<1>1. <<>> \in Seq(Names)
  OBVIOUS
<1>2. QED
  BY <1>1, FurtherIs

LEMMA FromHere ==
    ASSUME NEW d \in Inodes, NEW names \in Seq(Names)
    PROVE  Here[d][names] = IF names = <<>> THEN <<d>> ELSE <<>>
BY DEF Here

LEMMA AtMostHere ==
    ASSUME NEW d \in Inodes, NEW v \in {<<d>>, <<>>}
    PROVE  v \in Seq(Inodes) /\ (v # <<>> => v[1] = d)
<1>1. CASE v = <<d>>
  BY <1>1
<1>2. CASE v = <<>>
  BY <1>2
<1>3. QED
  BY <1>1, <1>2

\* A trail begins where it starts, and more steps do not lead elsewhere.
LEMMA TrailSeq ==
    \A n \in Nat : \A d \in Inodes, names \in Seq(Names) :
        /\ Trail[n][d][names] \in Seq(Inodes)
        /\ Trail[n][d][names] # <<>> => Trail[n][d][names][1] = d
<1> DEFINE S == {n \in Nat : \A d \in Inodes, names \in Seq(Names) :
                    /\ Trail[n][d][names] \in Seq(Inodes)
                    /\ Trail[n][d][names] # <<>> => Trail[n][d][names][1] = d}
<1>1. 0 \in S
  <2>1. ASSUME NEW d \in Inodes, NEW names \in Seq(Names)
        PROVE  /\ Here[d][names] \in Seq(Inodes)
               /\ Here[d][names] # <<>> => Here[d][names][1] = d
    <3>1. Here[d][names] \in {<<d>>, <<>>}
      BY FromHere
    <3>2. QED
      BY <3>1, AtMostHere
  <2>2. QED
    BY <2>1, TrailIs
<1>2. ASSUME NEW n \in Nat, n \in S PROVE n + 1 \in S
  <2>1. PICK t : t = Trail[n]
    OBVIOUS
  <2>2. \A d \in Inodes, names \in Seq(Names) : t[d][names] \in Seq(Inodes)
    BY <1>2, <2>1
  <2>3. ASSUME NEW d \in Inodes, NEW names \in Seq(Names)
        PROVE  /\ Further(t)[d][names] \in Seq(Inodes)
               /\ Further(t)[d][names] # <<>> => Further(t)[d][names][1] = d
    <3>1. CASE names = <<>> \/ Tree[d].mode # "dir" \/ Live(d, Head(names)) = {}
      <4>1. Further(t)[d][names] \in {<<d>>, <<>>}
        BY <3>1, FurtherIs, Zenon
      <4>2. QED
        BY <4>1, AtMostHere
    <3>2. CASE names # <<>> /\ Tree[d].mode = "dir" /\ Live(d, Head(names)) # {}
      <4>1. PICK k \in Live(d, Head(names)) : TRUE
        BY <3>2
      <4>2. PICK i, r, w : /\ i = Tree[d].entries[k].ino
                           /\ r = t[Reached(d, i)][After(names, i)] /\ w = Passed(d, i)
        OBVIOUS
      <4>3. Head(names) \in Names
        BY <3>2
      <4>4. i \in Inodes
        BY <4>1, <4>2, <4>3, LiveFits
      <4>5. w \in Seq(Inodes) /\ w # <<>> /\ w[1] = d /\ r \in Seq(Inodes)
        BY <2>2, <3>2, <4>2, <4>4, StepFits
      <4>6. Further(t)[d][names] = IF r = <<>> THEN <<>> ELSE w \o r
        BY <3>2, <4>1, <4>2, FurtherIs
      <4>7. w \o r \in Seq(Inodes) /\ (w \o r)[1] = d
        <5>1. Len(w) \in Nat \ {0} /\ Len(r) \in Nat
          BY <4>5
        <5>2. 1 \in 1 .. Len(w) + Len(r) /\ 1 <= Len(w)
          BY <5>1
        <5>3. w \o r \in Seq(Inodes) /\ (w \o r)[1] = w[1]
          BY <4>5, <5>2, ConcatProperties
        <5>4. QED
          BY <4>5, <5>3
      <4>8. QED
        BY <4>6, <4>7
    <3>3. QED
      BY <3>1, <3>2
  <2>4. Trail[n + 1] = Further(t) /\ n + 1 \in Nat
    BY <2>1, TrailIs
  <2>5. QED
    BY <2>3, <2>4
<1> HIDE DEF S
<1>3. Nat \subseteq S
  BY <1>1, <1>2, AllNaturals
<1>4. QED
  BY <1>3 DEF S

LEMMA TrailGrows ==
    \A n \in Nat : \A d \in Inodes, names \in Seq(Names) :
        Trail[n][d][names] # <<>> => Trail[n + 1][d][names] = Trail[n][d][names]
<1> DEFINE S == {n \in Nat : \A d \in Inodes, names \in Seq(Names) :
                    Trail[n][d][names] # <<>> => Trail[n + 1][d][names] = Trail[n][d][names]}
<1>1. 0 \in S
  <2>1. ASSUME NEW d \in Inodes, NEW names \in Seq(Names), Trail[0][d][names] # <<>>
        PROVE  Trail[0 + 1][d][names] = Trail[0][d][names]
    <3>1. names = <<>> /\ Trail[0][d][names] = <<d>>
      BY <2>1, TrailIs, FromHere
    <3>2. Trail[0 + 1] = Further(Trail[0])
      BY TrailIs
    <3>3. Trail[0 + 1][d][names] = <<d>>
      BY <3>1, <3>2, FurtherHere
    <3>4. QED
      BY <3>1, <3>3
  <2>2. QED
    BY <2>1
<1>2. ASSUME NEW n \in Nat, n \in S PROVE n + 1 \in S
  <2>1. PICK t, u : t = Trail[n] /\ u = Trail[n + 1]
    OBVIOUS
  <2>2. \A d \in Inodes, names \in Seq(Names) : t[d][names] # <<>> => u[d][names] = t[d][names]
    BY <1>2, <2>1
  <2>3. ASSUME NEW d \in Inodes, NEW names \in Seq(Names), Further(t)[d][names] # <<>>
        PROVE  Further(u)[d][names] = Further(t)[d][names]
    <3>1. CASE names = <<>>
      <4>1. Further(t)[d][names] = <<d>> /\ Further(u)[d][names] = <<d>>
        BY <3>1, FurtherHere
      <4>2. QED
        BY <4>1
    <3>2. CASE names # <<>>
      <4>1. Tree[d].mode = "dir" /\ Live(d, Head(names)) # {}
        BY <2>3, <3>2, FurtherIs
      <4>2. PICK k \in Live(d, Head(names)) : TRUE
        BY <4>1
      <4>3. PICK i, e, a : /\ i = Tree[d].entries[k].ino
                           /\ e = Reached(d, i) /\ a = After(names, i)
        OBVIOUS
      <4>4. Head(names) \in Names
        BY <3>2
      <4>5. e \in Inodes /\ a \in Seq(Names)
        BY <3>2, <4>2, <4>3, <4>4, LiveFits, StepFits
      <4>6. /\ Further(t)[d][names] = IF t[e][a] = <<>> THEN <<>> ELSE Passed(d, i) \o t[e][a]
            /\ Further(u)[d][names] = IF u[e][a] = <<>> THEN <<>> ELSE Passed(d, i) \o u[e][a]
        BY <3>2, <4>1, <4>2, <4>3, FurtherIs
      <4>7. t[e][a] # <<>>
        BY <2>3, <4>6
      <4>8. u[e][a] = t[e][a]
        BY <2>2, <4>5, <4>7
      <4>9. QED
        BY <4>6, <4>8
    <3>3. QED
      BY <3>1, <3>2
  <2>4. n + 1 \in Nat /\ Trail[n + 1] = Further(t) /\ Trail[n + 1 + 1] = Further(u)
    BY <2>1, TrailIs
  <2>5. \A d \in Inodes, names \in Seq(Names) :
            Trail[n + 1][d][names] # <<>> => Trail[n + 1 + 1][d][names] = Trail[n + 1][d][names]
    BY <2>3, <2>4
  <2>6. QED
    BY <2>4, <2>5
<1> HIDE DEF S
<1>3. Nat \subseteq S
  BY <1>1, <1>2, AllNaturals
<1>4. QED
  BY <1>3 DEF S

LEMMA TrailStays ==
    ASSUME NEW n \in Nat, NEW d \in Inodes, NEW names \in Seq(Names), Trail[n][d][names] # <<>>
    PROVE  \A m \in Nat : Trail[n + m][d][names] = Trail[n][d][names]
<1> DEFINE S == {m \in Nat : Trail[n + m][d][names] = Trail[n][d][names]}
<1>1. 0 \in S
  OBVIOUS
<1>2. ASSUME NEW m \in Nat, m \in S PROVE m + 1 \in S
  <2>1. n + m \in Nat /\ n + (m + 1) = n + m + 1
    OBVIOUS
  <2>2. Trail[n + m][d][names] = Trail[n][d][names]
    BY <1>2
  <2>3. Trail[n + m + 1][d][names] = Trail[n + m][d][names]
    BY <2>1, <2>2, TrailGrows
  <2>4. QED
    BY <2>1, <2>2, <2>3
<1> HIDE DEF S
<1>3. Nat \subseteq S
  BY <1>1, <1>2, AllNaturals
<1>4. QED
  BY <1>3 DEF S

-----------------------------------------------------------------------------
(* A walk along a trail *)

\* After s steps along w, names are still to come in d.
Reaches(p, d, names, s, w) ==
    /\ s \in Nat /\ w \in Seq(Inodes)
    /\ \A n \in Nat : Trail[n + s][Root][p] =
           IF Trail[n][d][names] = <<>> THEN <<>> ELSE w \o Trail[n][d][names]

LEMMA Starts == ASSUME NEW p \in Seq(Names) PROVE Reaches(p, Root, p, 0, <<>>)
<1>1. ASSUME NEW n \in Nat
      PROVE  Trail[n + 0][Root][p] =
                 IF Trail[n][Root][p] = <<>> THEN <<>> ELSE <<>> \o Trail[n][Root][p]
  <2>1. PICK t : t = Trail[n][Root][p]
    OBVIOUS
  <2>2. t \in Seq(Inodes)
    BY <2>1, TrailSeq, TreeAssumption
  <2>3. <<>> \o t = t
    BY <2>2, ConcatEmptySeq
  <2>4. n + 0 = n
    OBVIOUS
  <2>5. QED
    BY <2>1, <2>3, <2>4
<1>2. <<>> \in Seq(Inodes) /\ 0 \in Nat
  OBVIOUS
<1>3. QED
  BY <1>1, <1>2 DEF Reaches

LEMMA GoesOn ==
    ASSUME NEW p, NEW d \in Inodes, NEW names \in Seq(Names), names # <<>>, NEW s, NEW w,
           Reaches(p, d, names, s, w), Tree[d].mode = "dir",
           NEW k \in Live(d, Head(names)), NEW i, i = Tree[d].entries[k].ino
    PROVE  /\ i \in Inodes /\ Reached(d, i) \in Inodes /\ After(names, i) \in Seq(Names)
           /\ Reaches(p, Reached(d, i), After(names, i), s + 1, w \o Passed(d, i))
<1>1. Head(names) \in Names
  OBVIOUS
<1>2. i \in Inodes
  BY <1>1, LiveFits
<1>3. PICK e, a, x : e = Reached(d, i) /\ a = After(names, i) /\ x = Passed(d, i)
  OBVIOUS
<1>4. e \in Inodes /\ a \in Seq(Names) /\ x \in Seq(Inodes) /\ x # <<>>
  BY <1>2, <1>3, StepFits
<1>5. s \in Nat /\ w \in Seq(Inodes)
  BY DEF Reaches
<1>6. w \o x \in Seq(Inodes)
  BY <1>4, <1>5, ConcatProperties
<1>7. ASSUME NEW n \in Nat
      PROVE  Trail[n + (s + 1)][Root][p] =
                 IF Trail[n][e][a] = <<>> THEN <<>> ELSE (w \o x) \o Trail[n][e][a]
  <2>1. PICK r, t : r = Trail[n][e][a] /\ t = Trail[n + 1][d][names]
    OBVIOUS
  <2>2. r \in Seq(Inodes)
    BY <1>4, <2>1, TrailSeq
  <2>3. t = IF r = <<>> THEN <<>> ELSE x \o r
    <3>1. PICK u : u = Trail[n]
      OBVIOUS
    <3>2. Trail[n + 1] = Further(u)
      BY <3>1, TrailIs
    <3>3. Further(u)[d][names] =
              IF u[Reached(d, i)][After(names, i)] = <<>> THEN <<>>
              ELSE Passed(d, i) \o u[Reached(d, i)][After(names, i)]
      BY FurtherIs
    <3>4. QED
      BY <1>3, <2>1, <3>1, <3>2, <3>3
  <2>4. n + (s + 1) = n + 1 + s /\ n + 1 \in Nat
    BY <1>5
  <2>5. Trail[n + 1 + s][Root][p] = IF t = <<>> THEN <<>> ELSE w \o t
    BY <2>1, <2>4 DEF Reaches
  <2>6. x \o r # <<>>
    BY <1>4, <2>2, ConcatEqualIffEmpty
  <2>7. (w \o x) \o r = w \o (x \o r)
    BY <1>4, <1>5, <2>2, ConcatAssociative
  <2>8. QED
    BY <2>1, <2>3, <2>4, <2>5, <2>6, <2>7
<1>8. Reaches(p, e, a, s + 1, w \o x)
  BY <1>5, <1>6, <1>7 DEF Reaches
<1>9. QED
  BY <1>2, <1>3, <1>4, <1>8

LEMMA Regroup ==
    \A w, x, r \in Seq(Inodes) : (w \o x) \o r = w \o (x \o r)
BY ConcatAssociative

\* The way v is on its way at d, behind w.
Beyond(v, w, d, names) ==
    /\ v \in Seq(Inodes) /\ \E j \in DOMAIN v : v[j] = d
    /\ names = <<>> => v = w \o <<d>>
    /\ names # <<>> =>
          /\ Tree[d].mode = "dir" /\ Live(d, Head(names)) # {}
          /\ \A k \in Live(d, Head(names)) : \E r \in Seq(Inodes) :
                 v = (w \o Passed(d, Tree[d].entries[k].ino)) \o r

\* What lies ahead when the path leads somewhere within l steps.
LEMMA Ahead ==
    ASSUME NEW p \in Seq(Names), NEW d \in Inodes, NEW names \in Seq(Names), NEW s, NEW w,
           Reaches(p, d, names, s, w), NEW l \in Nat, NEW v, v = Trail[l][Root][p], v # <<>>
    PROVE  Beyond(v, w, d, names)
<1>1. PICK t : t = Trail[l][d][names]
  OBVIOUS
<1>2. v \in Seq(Inodes) /\ t \in Seq(Inodes) /\ s \in Nat /\ w \in Seq(Inodes)
  BY <1>1, TrailSeq, TreeAssumption DEF Reaches
<1>3. Trail[l + s][Root][p] = v
  BY <1>1, <1>2, TrailStays, TreeAssumption
<1>4. t # <<>> /\ v = w \o t
  BY <1>1, <1>3 DEF Reaches
<1>5. t[1] = d
  BY <1>1, <1>4, TrailSeq
<1>6. \E j \in DOMAIN v : v[j] = d
  <2>1. Len(w) \in Nat /\ Len(t) \in Nat \ {0}
    BY <1>2, <1>4
  <2>2. Len(v) = Len(w) + Len(t)
        /\ \A j \in 1 .. Len(w) + Len(t) : v[j] = IF j <= Len(w) THEN w[j] ELSE t[j - Len(w)]
    BY <1>2, <1>4, ConcatProperties
  <2>3. PICK j : j = Len(w) + 1
    OBVIOUS
  <2>4. j \in 1 .. Len(w) + Len(t) /\ ~(j <= Len(w)) /\ j - Len(w) = 1
    BY <2>1, <2>3
  <2>5. v[j] = t[1]
    BY <2>2, <2>4
  <2>6. j \in 1 .. Len(v)
    BY <2>2, <2>4
  <2>7. QED
    BY <1>2, <1>5, <2>5, <2>6
<1>7. PICK u : u = Trail[l]
  OBVIOUS
<1>8. t = Further(u)[d][names]
  <2>1. Trail[l + 1][d][names] = t
    BY <1>1, <1>4, TrailGrows
  <2>2. QED
    BY <1>7, <2>1, TrailIs
<1>9. CASE names = <<>>
  <2>1. t = <<d>>
    BY <1>8, <1>9, FurtherHere
  <2>2. QED
    BY <1>1, <1>2, <1>4, <1>6, <1>9, <2>1 DEF Beyond
<1>10. CASE names # <<>>
  <2>1. Tree[d].mode = "dir" /\ Live(d, Head(names)) # {}
    BY <1>4, <1>8, <1>10, FurtherIs
  <2>2. ASSUME NEW k \in Live(d, Head(names))
        PROVE  \E r \in Seq(Inodes) : v = (w \o Passed(d, Tree[d].entries[k].ino)) \o r
    <3>1. PICK i, r, x : /\ i = Tree[d].entries[k].ino /\ x = Passed(d, i)
                         /\ r = u[Reached(d, i)][After(names, i)]
      OBVIOUS
    <3>2. Head(names) \in Names
      BY <1>10
    <3>3. i \in Inodes
      BY <3>1, <3>2, LiveFits
    <3>4. x \in Seq(Inodes) /\ r \in Seq(Inodes)
      BY <1>7, <1>10, <3>1, <3>3, StepFits, TrailSeq
    <3>5. t = IF r = <<>> THEN <<>> ELSE x \o r
      BY <1>8, <1>10, <2>1, <3>1, FurtherIs
    <3>6. v = w \o (x \o r)
      <4>1. t # <<>> /\ v = w \o t
        BY <1>4
      <4>2. r # <<>>
        BY <3>5, <4>1
      <4>3. t = x \o r
        BY <3>5, <4>2
      <4>4. QED
        BY <4>1, <4>3
    <3>7. (w \o x) \o r = w \o (x \o r)
      <4>1. w \in Seq(Inodes) /\ x \in Seq(Inodes) /\ r \in Seq(Inodes)
        BY <1>2, <3>4
      <4>2. QED
        BY <4>1, Regroup
    <3>8. QED
      BY <3>1, <3>4, <3>6, <3>7
  <2>3. QED
    BY <1>1, <1>2, <1>6, <1>10, <2>1, <2>2 DEF Beyond
<1>11. QED
  BY <1>9, <1>10

\* The links that were passed.
LEMMA LinksPassed ==
    ASSUME NEW w \in Seq(Inodes), NEW d \in Inodes, NEW i \in Inodes, Tree[d].mode = "dir"
    PROVE  /\ Cardinality(LinksOn(w)) \in Nat
           /\ Cardinality(LinksOn(w \o Passed(d, i))) =
                 Cardinality(LinksOn(w)) + IF Tree[i].mode = "link" THEN 1 ELSE 0
<1>1. PICK x : x = w \o Passed(d, i)
  OBVIOUS
<1>2. Len(w) \in Nat /\ DOMAIN w = 1 .. Len(w)
  OBVIOUS
<1>3. IsFiniteSet(LinksOn(w))
  <2>1. LinksOn(w) \subseteq 1 .. Len(w)
    BY DEF LinksOn
  <2>2. IsFiniteSet(1 .. Len(w))
    BY <1>2, FS_Interval
  <2>3. QED
    BY <2>1, <2>2, FS_Subset
<1>4. Cardinality(LinksOn(w)) \in Nat
  BY <1>3, FS_CardinalityType
<1>5. CASE Tree[i].mode = "link"
  <2>1. <<d, i>> \in Seq(Inodes) /\ Len(<<d, i>>) = 2 /\ <<d, i>>[1] = d /\ <<d, i>>[2] = i
    OBVIOUS
  <2>2. Passed(d, i) = <<d, i>>
    BY <1>5 DEF Passed
  <2>3. /\ x \in Seq(Inodes) /\ Len(x) = Len(w) + 2
        /\ \A k \in 1 .. Len(w) + 2 : x[k] = IF k <= Len(w) THEN w[k] ELSE <<d, i>>[k - Len(w)]
    BY <1>1, <2>1, <2>2, ConcatProperties
  <2>4. DOMAIN x = 1 .. Len(w) + 2 /\ x[Len(w) + 1] = d /\ x[Len(w) + 2] = i
        /\ \A k \in 1 .. Len(w) : x[k] = w[k]
    BY <1>2, <2>1, <2>3
  <2>5. \A k \in 1 .. Len(w) + 2 : k \in 1 .. Len(w) \/ k = Len(w) + 1 \/ k = Len(w) + 2
    BY <1>2
  <2>6. \A k \in 1 .. Len(w) : k \in 1 .. Len(w) + 2
    BY <1>2
  <2>7. Len(w) + 2 \in 1 .. Len(w) + 2 /\ Len(w) + 2 \notin 1 .. Len(w)
    BY <1>2
  <2>8. LinksOn(x) = LinksOn(w) \union {Len(w) + 2}
    BY <1>2, <1>5, <2>4, <2>5, <2>6, <2>7 DEF LinksOn
  <2>9. Len(w) + 2 \notin LinksOn(w)
    BY <1>2, <2>7 DEF LinksOn
  <2>10. Cardinality(LinksOn(x)) = Cardinality(LinksOn(w)) + 1
    BY <1>3, <2>8, <2>9, FS_AddElement
  <2>11. QED
    BY <1>1, <1>4, <1>5, <2>10
<1>6. CASE Tree[i].mode # "link"
  <2>1. <<d>> \in Seq(Inodes) /\ Len(<<d>>) = 1 /\ <<d>>[1] = d
    OBVIOUS
  <2>2. Passed(d, i) = <<d>>
    BY <1>6 DEF Passed
  <2>3. /\ x \in Seq(Inodes) /\ Len(x) = Len(w) + 1
        /\ \A k \in 1 .. Len(w) + 1 : x[k] = IF k <= Len(w) THEN w[k] ELSE <<d>>[k - Len(w)]
    BY <1>1, <2>1, <2>2, ConcatProperties
  <2>4. DOMAIN x = 1 .. Len(w) + 1 /\ x[Len(w) + 1] = d
        /\ \A k \in 1 .. Len(w) : x[k] = w[k]
    BY <1>2, <2>1, <2>3
  <2>5. \A k \in 1 .. Len(w) + 1 : k \in 1 .. Len(w) \/ k = Len(w) + 1
    BY <1>2
  <2>6. \A k \in 1 .. Len(w) : k \in 1 .. Len(w) + 1
    BY <1>2
  <2>7. LinksOn(x) = LinksOn(w)
    BY <1>2, <2>4, <2>5, <2>6 DEF LinksOn
  <2>8. QED
    BY <1>1, <1>4, <1>6, <2>7
<1>7. QED
  BY <1>5, <1>6

LEMMA LinksBehind ==
    ASSUME NEW w \in Seq(Inodes), NEW r \in Seq(Inodes)
    PROVE  /\ Cardinality(LinksOn(w)) <= Cardinality(LinksOn(w \o r))
           /\ \A k \in DOMAIN w : k \in DOMAIN (w \o r) /\ (w \o r)[k] = w[k]
<1>1. PICK v : v = w \o r
  OBVIOUS
<1>2. /\ v \in Seq(Inodes) /\ Len(v) = Len(w) + Len(r) /\ Len(w) \in Nat /\ Len(r) \in Nat
      /\ \A k \in 1 .. Len(w) + Len(r) : v[k] = IF k <= Len(w) THEN w[k] ELSE r[k - Len(w)]
  BY <1>1, ConcatProperties
<1>3. \A k \in DOMAIN w : k \in DOMAIN v /\ v[k] = w[k]
  BY <1>2
<1>4. LinksOn(w) \subseteq LinksOn(v)
  BY <1>3 DEF LinksOn
<1>5. LinksOn(v) \subseteq 1 .. Len(v) /\ IsFiniteSet(1 .. Len(v))
  BY <1>2, FS_Interval DEF LinksOn
<1>6. IsFiniteSet(LinksOn(v))
  BY <1>5, FS_Subset
<1>7. Cardinality(LinksOn(w)) <= Cardinality(LinksOn(v))
  BY <1>4, <1>6, FS_Subset
<1>8. QED
  BY <1>1, <1>3, <1>7

-----------------------------------------------------------------------------
(* The names to come, those of the outer calls behind those of the inner ones *)

Joined(todo, names) == \E r \in [0 .. Len(todo) -> Seq(Names)] :
    /\ r[0] = <<>> /\ r[Len(todo)] = names
    /\ \A k \in 1 .. Len(todo) : r[k] = todo[k] \o r[k - 1]

LEMMA JoinedSeq ==
    ASSUME NEW todo \in Seq(Seq(Names)), NEW names, Joined(todo, names)
    PROVE  names \in Seq(Names)
<1>1. Len(todo) \in 0 .. Len(todo)
  OBVIOUS
<1>2. QED
  BY <1>1 DEF Joined

LEMMA JoinedNothing == \A names : Joined(<<>>, names) => names = <<>>
<1>1. Len(<<>>) = 0
  OBVIOUS
<1>2. QED
  BY <1>1 DEF Joined

LEMMA JoinedPush ==
    ASSUME NEW todo \in Seq(Seq(Names)), NEW names, Joined(todo, names),
           NEW more \in Seq(Names)
    PROVE  Joined(Append(todo, more), more \o names)
<1>1. PICK r \in [0 .. Len(todo) -> Seq(Names)] :
          /\ r[0] = <<>> /\ r[Len(todo)] = names
          /\ \A k \in 1 .. Len(todo) : r[k] = todo[k] \o r[k - 1]
  BY DEF Joined
<1>2. PICK u, m, x : u = Append(todo, more) /\ m = Len(todo) /\ x = more \o names
  OBVIOUS
<1>3. /\ m \in Nat /\ u \in Seq(Seq(Names)) /\ Len(u) = m + 1 /\ u[m + 1] = more
      /\ \A k \in 1 .. m : u[k] = todo[k]
  BY <1>2
<1>4. x \in Seq(Names)
  BY <1>2, JoinedSeq, ConcatProperties
<1>5. PICK q : q = [k \in 0 .. m + 1 |-> IF k = m + 1 THEN x ELSE r[k]]
  OBVIOUS
<1>6. q \in [0 .. m + 1 -> Seq(Names)] /\ q[m + 1] = x /\ \A k \in 0 .. m : q[k] = r[k]
  <2>1. \A k \in 0 .. m + 1 : k # m + 1 => k \in 0 .. m
    BY <1>3
  <2>2. \A k \in 0 .. m : k # m + 1 /\ k \in 0 .. m + 1
    BY <1>3
  <2>3. m + 1 \in 0 .. m + 1
    BY <1>3
  <2>4. \A k \in 0 .. m : r[k] \in Seq(Names)
    BY <1>1, <1>2
  <2>5. QED
    BY <1>4, <1>5, <2>1, <2>2, <2>3, <2>4
<1>7. q[0] = <<>>
  BY <1>1, <1>3, <1>6
<1>8. ASSUME NEW k \in 1 .. m + 1 PROVE q[k] = u[k] \o q[k - 1]
  <2>1. CASE k = m + 1
    <3>1. k - 1 = m /\ m \in 0 .. m
      BY <1>3, <2>1
    <3>2. q[k - 1] = names
      BY <1>1, <1>2, <1>6, <3>1
    <3>3. q[k] = more \o names /\ u[k] = more
      BY <1>2, <1>3, <1>6, <2>1
    <3>4. QED
      BY <3>2, <3>3
  <2>2. CASE k # m + 1
    <3>1. k \in 1 .. m /\ k \in 0 .. m /\ k - 1 \in 0 .. m
      BY <1>3, <2>2
    <3>2. q[k] = r[k] /\ q[k - 1] = r[k - 1] /\ u[k] = todo[k]
      BY <1>3, <1>6, <3>1
    <3>3. r[k] = todo[k] \o r[k - 1]
      BY <1>1, <1>2, <3>1
    <3>4. QED
      BY <3>2, <3>3
  <2>3. QED
    BY <2>1, <2>2
<1>9. Joined(u, x)
  BY <1>3, <1>6, <1>7, <1>8 DEF Joined
<1>10. QED
  BY <1>2, <1>9

LEMMA JoinedPop ==
    ASSUME NEW todo \in Seq(Seq(Names)), todo # <<>>, NEW names, Joined(todo, names)
    PROVE  \E outer \in Seq(Names) :
              /\ Joined(SubSeq(todo, 1, Len(todo) - 1), outer)
              /\ names = todo[Len(todo)] \o outer
<1>1. PICK r \in [0 .. Len(todo) -> Seq(Names)] :
          /\ r[0] = <<>> /\ r[Len(todo)] = names
          /\ \A k \in 1 .. Len(todo) : r[k] = todo[k] \o r[k - 1]
  BY DEF Joined
<1>2. PICK m : m = Len(todo) - 1
  OBVIOUS
<1>3. m \in Nat /\ Len(todo) = m + 1 /\ m + 1 - 1 = m
  BY <1>2
<1>4. PICK u : u = SubSeq(todo, 1, m)
  OBVIOUS
<1>5. /\ u \in Seq(Seq(Names)) /\ Len(u) = m
      /\ \A k \in 1 .. m : u[k] = todo[k]
  <2>1. /\ SubSeq(todo, 1, m) \in Seq(Seq(Names))
        /\ Len(SubSeq(todo, 1, m)) = IF 1 <= m THEN m - 1 + 1 ELSE 0
        /\ \A k \in 1 .. m - 1 + 1 : SubSeq(todo, 1, m)[k] = todo[1 + k - 1]
    BY <1>3, SubSeqProperties
  <2>2. QED
    BY <1>3, <1>4, <2>1
<1>6. PICK q : q = [k \in 0 .. m |-> r[k]]
  OBVIOUS
<1>7. q \in [0 .. m -> Seq(Names)] /\ \A k \in 0 .. m : q[k] = r[k]
  <2>1. \A k \in 0 .. m : k \in 0 .. Len(todo)
    BY <1>3
  <2>2. QED
    BY <1>6, <2>1
<1>8. q[0] = <<>> /\ q[m] \in Seq(Names) /\ q[m] = r[m]
  BY <1>1, <1>3, <1>7
<1>9. ASSUME NEW k \in 1 .. m PROVE q[k] = u[k] \o q[k - 1]
  <2>1. k \in 0 .. m /\ k - 1 \in 0 .. m /\ k \in 1 .. Len(todo)
    BY <1>3
  <2>2. r[k] = todo[k] \o r[k - 1]
    BY <1>1, <2>1
  <2>3. QED
    BY <1>5, <1>7, <2>1, <2>2
<1>10. Joined(u, q[m])
  BY <1>5, <1>7, <1>8, <1>9 DEF Joined
<1>11. names = todo[Len(todo)] \o q[m]
  <2>1. PICK j : j = Len(todo)
    OBVIOUS
  <2>2. j \in 1 .. Len(todo) /\ j - 1 = m
    BY <1>3, <2>1
  <2>3. r[j] = todo[j] \o r[j - 1]
    BY <1>1, <2>2
  <2>4. r[j] = names /\ r[j - 1] = q[m]
    BY <1>1, <1>8, <2>1, <2>2
  <2>5. names = todo[j] \o q[m]
    BY <2>3, <2>4
  <2>6. QED
    BY <2>1, <2>5
<1>12. QED
  BY <1>2, <1>4, <1>8, <1>10, <1>11

\* The last of the lists is another one.
LEMMA JoinedPut ==
    ASSUME NEW todo \in Seq(Seq(Names)), todo # <<>>, NEW x \in Seq(Names), NEW outer,
           Joined(SubSeq(todo, 1, Len(todo) - 1), outer)
    PROVE  /\ [todo EXCEPT ![Len(todo)] = x] \in Seq(Seq(Names))
           /\ Joined([todo EXCEPT ![Len(todo)] = x], x \o outer)
<1>1. PICK m : m = Len(todo) - 1
  OBVIOUS
<1>2. m \in Nat /\ Len(todo) = m + 1
  BY <1>1
<1>3. PICK u : u = SubSeq(todo, 1, m)
  OBVIOUS
<1>4. /\ u \in Seq(Seq(Names)) /\ Len(u) = m
      /\ \A k \in 1 .. m : u[k] = todo[k]
  <2>1. /\ SubSeq(todo, 1, m) \in Seq(Seq(Names))
        /\ Len(SubSeq(todo, 1, m)) = IF 1 <= m THEN m - 1 + 1 ELSE 0
        /\ \A k \in 1 .. m - 1 + 1 : SubSeq(todo, 1, m)[k] = todo[1 + k - 1]
    BY <1>2, SubSeqProperties
  <2>2. QED
    BY <1>2, <1>3, <2>1
<1>5. PICK v : v = [todo EXCEPT ![Len(todo)] = x]
  OBVIOUS
<1>6. v \in Seq(Seq(Names)) /\ v = [k \in 1 .. m + 1 |-> IF k = m + 1 THEN x ELSE todo[k]]
  <2>1. DOMAIN todo = 1 .. m + 1 /\ Len(todo) \in DOMAIN todo
    BY <1>2
  <2>2. v \in Seq(Seq(Names))
    BY <1>5, <2>1, ExceptSeq
  <2>3. v = [k \in DOMAIN todo |-> IF k = Len(todo) THEN x ELSE todo[k]]
    BY <1>5, Zenon
  <2>4. QED
    BY <1>2, <2>1, <2>2, <2>3
<1>7. PICK a : a = Append(u, x)
  OBVIOUS
<1>8. a \in Seq(Seq(Names)) /\ Len(a) = m + 1
      /\ \A k \in 1 .. m + 1 : a[k] = IF k = m + 1 THEN x ELSE u[k]
  BY <1>2, <1>4, <1>7
<1>9. \A k \in 1 .. m + 1 : a[k] = IF k = m + 1 THEN x ELSE todo[k]
  <2>1. \A k \in 1 .. m + 1 : k # m + 1 => k \in 1 .. m
    BY <1>2
  <2>2. QED
    BY <1>4, <1>8, <2>1
<1>10. a = [k \in 1 .. m + 1 |-> a[k]]
  BY <1>8
<1>11. a = v
  BY <1>6, <1>9, <1>10
<1>12. Joined(a, x \o outer)
  BY <1>1, <1>3, <1>4, <1>7, JoinedPush
<1>13. QED
  BY <1>5, <1>6, <1>11, <1>12

LEMMA JoinedArrived ==
    ASSUME NEW todo \in Seq(Seq(Names)), NEW names, Joined(todo, names),
           \A k \in DOMAIN todo : todo[k] = <<>>
    PROVE  names = <<>>
<1>1. PICK r \in [0 .. Len(todo) -> Seq(Names)] :
          /\ r[0] = <<>> /\ r[Len(todo)] = names
          /\ \A k \in 1 .. Len(todo) : r[k] = todo[k] \o r[k - 1]
  BY DEF Joined
<1> DEFINE S == {k \in Nat : k <= Len(todo) => r[k] = <<>>}
<1>2. 0 \in S
  BY <1>1
<1>3. ASSUME NEW k \in Nat, k \in S PROVE k + 1 \in S
  <2>1. SUFFICES ASSUME k + 1 <= Len(todo) PROVE r[k + 1] = <<>>
    OBVIOUS
  <2>2. k + 1 \in 1 .. Len(todo) /\ k <= Len(todo) /\ k + 1 - 1 = k
    BY <2>1
  <2>3. r[k] = <<>> /\ todo[k + 1] = <<>>
    BY <1>3, <2>2
  <2>4. PICK j : j = k + 1
    OBVIOUS
  <2>5. j \in 1 .. Len(todo) /\ j - 1 = k
    BY <2>2, <2>4
  <2>6. r[j] = todo[j] \o r[j - 1]
    BY <1>1, <2>5
  <2>7. todo[j] = <<>> /\ r[j - 1] = <<>>
    BY <2>3, <2>4, <2>5
  <2>8. r[j] = <<>> \o <<>>
    BY <2>6, <2>7
  <2>9. r[j] = <<>>
    BY <2>8
  <2>10. QED
    BY <2>4, <2>9
<1> HIDE DEF S
<1>4. Nat \subseteq S
  BY <1>2, <1>3, AllNaturals
<1>5. Len(todo) \in Nat
  OBVIOUS
<1>6. QED
  BY <1>1, <1>4, <1>5 DEF S

-----------------------------------------------------------------------------
(* A walk on the way *)

\* A target has no more names than this.
Span == CHOOSE l \in 0 .. Longest :
    /\ \A n \in Inodes : Len(Tree[n].target.names) <= l
    /\ \A p \in Paths : Len(p) + MaxNest * l <= Longest

LEMMA SpanIs ==
    /\ Span \in Nat
    /\ \A n \in Inodes : Len(Tree[n].target.names) <= Span
    /\ \A p \in Paths : Len(p) + MaxNest * Span <= Longest
<1>1. /\ Span \in 0 .. Longest
      /\ \A n \in Inodes : Len(Tree[n].target.names) <= Span
      /\ \A p \in Paths : Len(p) + MaxNest * Span <= Longest
  BY LengthAssumption, Zenon DEF Span
<1>2. \A l \in 0 .. Longest : l \in Nat
  BY BoundAssumption
<1>3. QED
  BY <1>1, <1>2

\* What is to come in at is what is to come of p; each link that was passed has
\* added the names of its target.
OnWay(p, at, todo, links) ==
    /\ at \in Inodes /\ todo \in Seq(Seq(Names)) /\ links \in Nat
    /\ \E s \in Nat, w \in Seq(Inodes), names \in Seq(Names) :
          /\ Joined(todo, names) /\ Reaches(p, at, names, s, w)
          /\ Cardinality(LinksOn(w)) = links
          /\ s + Len(names) <= Len(p) + links * Span

LEMMA WayStarts == ASSUME NEW p \in Seq(Names) PROVE OnWay(p, Root, <<p>>, 0)
<1>1. Joined(<<p>>, p)
  <2>1. PICK r : r = [k \in 0 .. 1 |-> IF k = 0 THEN <<>> ELSE p]
    OBVIOUS
  <2>2. 0 \in 0 .. 1 /\ 1 \in 0 .. 1 /\ 1 # 0 /\ \A k \in 1 .. 1 : k = 1 /\ k - 1 = 0
    OBVIOUS
  <2>3. r[0] = <<>> /\ r[1] = p /\ r \in [0 .. 1 -> Seq(Names)]
    BY <2>1, <2>2
  <2>4. p \o <<>> = p
    BY ConcatEmptySeq
  <2>5. PICK t : t = <<p>>
    OBVIOUS
  <2>6. Len(t) = 1 /\ t[1] = p
    BY <2>5
  <2>7. \A k \in 1 .. 1 : r[k] = t[k] \o r[k - 1]
    BY <2>2, <2>3, <2>4, <2>6
  <2>8. Joined(t, p)
    BY <2>3, <2>6, <2>7 DEF Joined
  <2>9. QED
    BY <2>5, <2>8
<1>2. Reaches(p, Root, p, 0, <<>>)
  BY Starts
<1>3. Cardinality(LinksOn(<<>>)) = 0
  <2>1. LinksOn(<<>>) = {}
    BY DEF LinksOn
  <2>2. QED
    BY <2>1, FS_EmptySet
<1>4. 0 + Len(p) <= Len(p) + 0 * Span
  BY SpanIs
<1>5. Root \in Inodes /\ <<p>> \in Seq(Seq(Names)) /\ <<>> \in Seq(Inodes) /\ 0 \in Nat
  BY TreeAssumption
<1>6. QED
  BY <1>1, <1>2, <1>3, <1>4, <1>5 DEF OnWay

LEMMA WayDrops ==
    ASSUME NEW p, NEW at, NEW todo, NEW links, OnWay(p, at, todo, links), todo # <<>>,
           todo[Len(todo)] = <<>>
    PROVE  OnWay(p, at, SubSeq(todo, 1, Len(todo) - 1), links)
<1>1. PICK s \in Nat, w \in Seq(Inodes), names \in Seq(Names) :
          /\ Joined(todo, names) /\ Reaches(p, at, names, s, w)
          /\ Cardinality(LinksOn(w)) = links
          /\ s + Len(names) <= Len(p) + links * Span
  BY DEF OnWay
<1>2. at \in Inodes /\ todo \in Seq(Seq(Names)) /\ links \in Nat
  BY DEF OnWay
<1>3. PICK outer \in Seq(Names) :
          /\ Joined(SubSeq(todo, 1, Len(todo) - 1), outer)
          /\ names = todo[Len(todo)] \o outer
  BY <1>1, <1>2, JoinedPop
<1>4. names = outer
  BY <1>3, ConcatEmptySeq
<1>5. SubSeq(todo, 1, Len(todo) - 1) \in Seq(Seq(Names))
  BY <1>2, SubSeqProperties
<1>6. QED
  BY <1>1, <1>2, <1>3, <1>4, <1>5 DEF OnWay

LEMMA Behead ==
    ASSUME NEW x \in Seq(Names), x # <<>>, NEW y \in Seq(Names)
    PROVE  /\ x \o y \in Seq(Names) /\ x \o y # <<>>
           /\ Head(x \o y) = Head(x) /\ Tail(x \o y) = Tail(x) \o y
           /\ Len(Tail(x) \o y) = Len(x \o y) - 1
<1>1. Len(x) \in Nat \ {0} /\ Len(y) \in Nat
  OBVIOUS
<1>2. /\ x \o y \in Seq(Names) /\ Len(x \o y) = Len(x) + Len(y)
      /\ \A k \in 1 .. Len(x) + Len(y) : (x \o y)[k] = IF k <= Len(x) THEN x[k] ELSE y[k - Len(x)]
  BY ConcatProperties
<1>3. Head(x \o y) = Head(x)
  <2>1. 1 \in 1 .. Len(x) + Len(y) /\ 1 <= Len(x)
    BY <1>1
  <2>2. (x \o y)[1] = x[1]
    BY <1>2, <2>1
  <2>3. QED
    BY <1>2, <2>2
<1>4. x \o y # <<>>
  BY <1>1, <1>2
<1>5. Tail(x \o y) = Tail(x) \o y
  <2>1. x = <<Head(x)>> \o Tail(x)
    OBVIOUS
  <2>2. <<Head(x)>> \in Seq(Names) /\ Tail(x) \in Seq(Names)
    OBVIOUS
  <2>3. x \o y = <<Head(x)>> \o (Tail(x) \o y)
    BY <2>1, <2>2, ConcatAssociative
  <2>4. Tail(x) \o y \in Seq(Names)
    BY <2>2, ConcatProperties
  <2>5. QED
    BY <2>2, <2>3, <2>4
<1>6. Len(Tail(x) \o y) = Len(x \o y) - 1
  BY <1>2, <1>4, <1>5
<1>7. QED
  BY <1>2, <1>3, <1>4, <1>5, <1>6

\* The walk takes inode n.
LEMMA WayGoes ==
    ASSUME NEW p \in Seq(Names), NEW at, NEW todo, NEW links, OnWay(p, at, todo, links),
           todo # <<>>, NEW names, names = todo[Len(todo)], names # <<>>,
           Tree[at].mode = "dir", NEW k \in Live(at, Head(names)),
           NEW n, n = Tree[at].entries[k].ino,
           NEW next, next = [todo EXCEPT ![Len(todo)] = Tail(names)]
    PROVE  /\ n \in Inodes
           /\ Tree[n].mode # "link" => OnWay(p, n, next, links)
           /\ Tree[n].mode = "link" =>
                 OnWay(p, Reached(at, n), Append(next, Tree[n].target.names), links + 1)
<1>1. PICK s \in Nat, w \in Seq(Inodes), all \in Seq(Names) :
          /\ Joined(todo, all) /\ Reaches(p, at, all, s, w)
          /\ Cardinality(LinksOn(w)) = links
          /\ s + Len(all) <= Len(p) + links * Span
  BY DEF OnWay
<1>2. at \in Inodes /\ todo \in Seq(Seq(Names)) /\ links \in Nat
  BY DEF OnWay
<1>3. PICK outer \in Seq(Names) :
          /\ Joined(SubSeq(todo, 1, Len(todo) - 1), outer)
          /\ all = todo[Len(todo)] \o outer
  BY <1>1, <1>2, JoinedPop
<1>4. names \in Seq(Names)
  BY <1>2
<1>5. PICK rest : rest = Tail(names) \o outer
  OBVIOUS
<1>6. /\ all # <<>> /\ Head(all) = Head(names) /\ Tail(all) = rest
      /\ rest \in Seq(Names) /\ Len(rest) = Len(all) - 1
  <2>1. all = names \o outer
    BY <1>3
  <2>2. /\ names \o outer # <<>> /\ Head(names \o outer) = Head(names)
        /\ Tail(names \o outer) = Tail(names) \o outer
        /\ Len(Tail(names) \o outer) = Len(names \o outer) - 1
    BY <1>4, Behead
  <2>3. Tail(names) \o outer \in Seq(Names)
    <3>1. Tail(names) \in Seq(Names)
      BY <1>4
    <3>2. QED
      BY <3>1, ConcatProperties
  <2>4. QED
    BY <1>5, <2>1, <2>2, <2>3
<1>7. Tail(names) \in Seq(Names)
  BY <1>4
<1>8. next \in Seq(Seq(Names)) /\ Joined(next, rest)
  BY <1>2, <1>3, <1>5, <1>7, JoinedPut
<1>9. k \in Live(at, Head(all))
  BY <1>6
<1>10. PICK e, a, x : e = Reached(at, n) /\ a = After(all, n) /\ x = Passed(at, n)
  OBVIOUS
<1>11. n \in Inodes /\ e \in Inodes /\ a \in Seq(Names) /\ Reaches(p, e, a, s + 1, w \o x)
  BY <1>1, <1>2, <1>6, <1>9, <1>10, GoesOn
<1>12. /\ w \o x \in Seq(Inodes)
       /\ Cardinality(LinksOn(w \o x)) = links + IF Tree[n].mode = "link" THEN 1 ELSE 0
  <2>1. x \in Seq(Inodes)
    BY <1>2, <1>4, <1>10, <1>11, StepFits
  <2>2. QED
    BY <1>1, <1>2, <1>10, <1>11, <2>1, LinksPassed, ConcatProperties
<1>13. s + 1 \in Nat
  OBVIOUS
<1>14. ASSUME Tree[n].mode # "link" PROVE OnWay(p, n, next, links)
  <2>1. e = n /\ a = rest
    BY <1>6, <1>10, <1>14 DEF Reached, After
  <2>2. Cardinality(LinksOn(w \o x)) = links
    BY <1>2, <1>12, <1>14
  <2>3. s + 1 + Len(rest) <= Len(p) + links * Span
    BY <1>1, <1>2, <1>6, SpanIs
  <2>4. QED
    BY <1>2, <1>6, <1>8, <1>11, <1>12, <1>13, <2>1, <2>2, <2>3 DEF OnWay
<1>15. ASSUME Tree[n].mode = "link"
       PROVE  OnWay(p, e, Append(next, Tree[n].target.names), links + 1)
  <2>1. PICK t : t = Tree[n].target.names
    OBVIOUS
  <2>2. t \in Seq(Names) /\ Len(t) <= Span /\ Span \in Nat
    BY <1>11, <2>1, SpanIs, TreeAssumption DEF Target
  <2>3. a = t \o rest /\ Len(a) = Len(t) + Len(rest)
    BY <1>6, <1>10, <1>15, <2>1, <2>2, ConcatProperties DEF After
  <2>4. Append(next, t) \in Seq(Seq(Names)) /\ Joined(Append(next, t), a)
    <3>1. Joined(Append(next, t), t \o rest)
      BY <1>8, <2>2, JoinedPush
    <3>2. Append(next, t) \in Seq(Seq(Names))
      BY <1>8, <2>2
    <3>3. QED
      BY <2>3, <3>1, <3>2
  <2>5. Cardinality(LinksOn(w \o x)) = links + 1
    BY <1>2, <1>12, <1>15
  <2>6. s + 1 + Len(a) <= Len(p) + (links + 1) * Span
    <3>1. Len(t) \in Nat /\ Len(rest) \in Nat /\ Len(all) \in Nat /\ Len(p) \in Nat
      BY <1>6, <2>2
    <3>2. PICK l, m : l = links * Span /\ m = (links + 1) * Span
      OBVIOUS
    <3>3. m = l + Span /\ l \in Nat
      BY <1>2, <2>2, <3>2
    <3>4. s + Len(all) <= Len(p) + l
      BY <1>1, <3>2
    <3>5. s + 1 + Len(a) <= Len(p) + m
      BY <1>6, <2>2, <2>3, <3>1, <3>3, <3>4
    <3>6. QED
      BY <3>2, <3>5
  <2>7. links + 1 \in Nat
    BY <1>2
  <2>8. QED
    BY <1>11, <1>12, <1>13, <2>1, <2>4, <2>5, <2>6, <2>7 DEF OnWay
<1>16. QED
  BY <1>10, <1>11, <1>14, <1>15

\* At the end of the walk is the end of the way.
LEMMA WayEnds ==
    ASSUME NEW p \in Paths, NEW at, NEW todo, NEW links, OnWay(p, at, todo, links),
           links <= MaxNest, \A k \in DOMAIN todo : todo[k] = <<>>
    PROVE  LET v == Trail[Longest][Root][p] IN v # <<>> /\ v[Len(v)] = at
<1>1. PICK s \in Nat, w \in Seq(Inodes), names \in Seq(Names) :
          /\ Joined(todo, names) /\ Reaches(p, at, names, s, w)
          /\ Cardinality(LinksOn(w)) = links
          /\ s + Len(names) <= Len(p) + links * Span
  BY DEF OnWay
<1>2. at \in Inodes /\ todo \in Seq(Seq(Names)) /\ links \in Nat
  BY DEF OnWay
<1>3. names = <<>>
  BY <1>1, <1>2, JoinedArrived
<1>4. s <= Longest
  <2>1. Span \in Nat /\ Len(p) + MaxNest * Span <= Longest /\ MaxNest \in Nat /\ Longest \in Nat
    BY SpanIs, BoundAssumption
  <2>2. Len(p) \in Nat
    BY PathAssumption
  <2>3. links * Span <= MaxNest * Span
    <3>1. PICK m : m = MaxNest - links
      OBVIOUS
    <3>2. m \in Nat /\ MaxNest = links + m
      BY <1>2, <2>1, <3>1
    <3>3. (links + m) * Span = links * Span + m * Span /\ m * Span \in Nat
          /\ links * Span \in Nat
      BY <1>2, <2>1, <3>2
    <3>4. QED
      BY <3>2, <3>3
  <2>4. links * Span \in Nat /\ MaxNest * Span \in Nat
    BY <1>2, <2>1
  <2>5. Len(names) = 0
    BY <1>3
  <2>6. QED
    BY <1>1, <2>1, <2>2, <2>3, <2>4, <2>5
<1>5. Trail[0][at][names] = <<at>>
  BY <1>2, <1>3, TrailIs, FromHere
<1>6. Trail[0 + s][Root][p] = w \o <<at>>
  <2>1. <<at>> # <<>> /\ 0 \in Nat
    OBVIOUS
  <2>2. QED
    BY <1>1, <1>5, <2>1 DEF Reaches
<1>7. PICK v : v = w \o <<at>>
  OBVIOUS
<1>8. v # <<>> /\ v[Len(v)] = at
  BY <1>1, <1>2, <1>7
<1>9. Trail[s][Root][p] = v
  BY <1>6, <1>7
<1>10. Trail[Longest][Root][p] = v
  <2>1. PICK m : m = Longest - s
    OBVIOUS
  <2>2. m \in Nat /\ s + m = Longest
    BY <1>4, <2>1, BoundAssumption
  <2>3. Root \in Inodes /\ p \in Seq(Names)
    BY TreeAssumption, PathAssumption
  <2>4. Trail[s + m][Root][p] = Trail[s][Root][p]
    BY <1>8, <1>9, <2>2, <2>3, TrailStays
  <2>5. QED
    BY <1>9, <2>2, <2>4
<1>11. QED
  BY <1>8, <1>10

-----------------------------------------------------------------------------
(* A path that can be followed *)

Leads(p) ==
    LET way == Trail[Longest][Root][p]
    IN  way # <<>> /\ Passable(way) /\ Tree[way[Len(way)]].mode = "reg"

\* On such a path nothing is a reason to give up.
LEMMA NoReason ==
    ASSUME NEW p \in Seq(Names), Leads(p),
           NEW at, NEW todo, NEW links, OnWay(p, at, todo, links),
           todo # <<>>, NEW names, names = todo[Len(todo)], names # <<>>
    PROVE  /\ Tree[at].mode = "dir" /\ Live(at, Head(names)) # {}
           /\ \A k \in DOMAIN Tree[at].entries : LET e == Tree[at].entries[k] IN
                 /\ e.name = Head(names) => e.ino # 0
                 /\ e.name # NoName /\ e.ino = 0 => e.type # "unknown"
           /\ \A k \in Live(at, Head(names)) : LET n == Tree[at].entries[k].ino IN
                 Tree[n].mode = "link" => links + 1 # MaxNest /\ Tree[n].target.names # <<>>
<1>1. PICK s \in Nat, w \in Seq(Inodes), all \in Seq(Names) :
          /\ Joined(todo, all) /\ Reaches(p, at, all, s, w)
          /\ Cardinality(LinksOn(w)) = links
          /\ s + Len(all) <= Len(p) + links * Span
  BY DEF OnWay
<1>2. at \in Inodes /\ todo \in Seq(Seq(Names)) /\ links \in Nat
  BY DEF OnWay
<1>3. PICK outer \in Seq(Names) :
          /\ Joined(SubSeq(todo, 1, Len(todo) - 1), outer)
          /\ all = todo[Len(todo)] \o outer
  BY <1>1, <1>2, JoinedPop
<1>4. names \in Seq(Names) /\ Head(names) \in Names
  BY <1>2
<1>5. all # <<>> /\ Head(all) = Head(names)
  <2>1. names \o outer # <<>> /\ Head(names \o outer) = Head(names)
    BY <1>4, Behead
  <2>2. QED
    BY <1>3, <2>1
<1>6. PICK v : v = Trail[Longest][Root][p]
  OBVIOUS
<1>7. v # <<>> /\ Passable(v)
  BY <1>6 DEF Leads
<1>8. /\ v \in Seq(Inodes) /\ \E j \in DOMAIN v : v[j] = at
      /\ Tree[at].mode = "dir" /\ Live(at, Head(all)) # {}
      /\ \A k \in Live(at, Head(all)) : \E r \in Seq(Inodes) :
             v = (w \o Passed(at, Tree[at].entries[k].ino)) \o r
  <2>1. Longest \in Nat
    BY BoundAssumption
  <2>2. Beyond(v, w, at, all)
    <3>1. Reaches(p, at, all, s, w)
      BY <1>1
    <3>2. v = Trail[Longest][Root][p] /\ v # <<>>
      BY <1>6, <1>7
    <3>3. at \in Inodes
      BY <1>2
    <3>4. QED
      BY <2>1, <3>1, <3>2, <3>3, Ahead
  <2>3. QED
    BY <1>5, <2>2 DEF Beyond
<1>9. ASSUME NEW k \in DOMAIN Tree[at].entries, NEW e, e = Tree[at].entries[k]
      PROVE  /\ e.name = Head(names) => e.ino # 0
             /\ e.name # NoName /\ e.ino = 0 => e.type # "unknown"
  <2>1. e.name # NoName /\ e.ino = 0 => e.type # "unknown"
    BY <1>7, <1>8, <1>9 DEF Passable
  <2>2. ASSUME e.name = Head(names) PROVE e.ino # 0
    <3>1. PICK j \in Live(at, Head(names)) : TRUE
      BY <1>5, <1>8
    <3>2. j \in DOMAIN Tree[at].entries /\ Tree[at].entries[j].name = Head(names)
          /\ Tree[at].entries[j].ino # 0
      BY <3>1 DEF Live
    <3>3. Head(names) # NoName
      BY <1>4, TreeAssumption
    <3>4. \A a, b \in DOMAIN Tree[at].entries :
              Tree[at].entries[a].name = Tree[at].entries[b].name
                  => a = b \/ Tree[at].entries[a].name = NoName
      BY <1>2, TreeAssumption
    <3>5. j = k
      BY <1>9, <2>2, <3>2, <3>3, <3>4
    <3>6. QED
      BY <1>9, <3>2, <3>5
  <2>3. QED
    BY <2>1, <2>2
<1>10. ASSUME NEW k \in Live(at, Head(names)), NEW n, n = Tree[at].entries[k].ino,
              Tree[n].mode = "link"
       PROVE  links + 1 # MaxNest /\ Tree[n].target.names # <<>>
  <2>1. n \in Inodes
    BY <1>2, <1>4, <1>10, LiveFits
  <2>2. PICK x, y : x = Passed(at, n) /\ y = w \o x
    OBVIOUS
  <2>3. PICK r \in Seq(Inodes) : v = y \o r
    BY <1>5, <1>8, <1>10, <2>2
  <2>4. x = <<at, n>>
    BY <1>10, <2>2 DEF Passed
  <2>5. x \in Seq(Inodes) /\ Len(x) = 2 /\ x[2] = n
    BY <1>2, <2>1, <2>4
  <2>6. y \in Seq(Inodes) /\ Len(y) = Len(w) + 2
        /\ \A j \in 1 .. Len(w) + 2 : y[j] = IF j <= Len(w) THEN w[j] ELSE x[j - Len(w)]
    <3>1. Len(w) + Len(x) = Len(w) + 2
      BY <2>5
    <3>2. /\ w \o x \in Seq(Inodes) /\ Len(w \o x) = Len(w) + Len(x)
          /\ \A j \in 1 .. Len(w) + Len(x) :
                (w \o x)[j] = IF j <= Len(w) THEN w[j] ELSE x[j - Len(w)]
      BY <2>5, ConcatProperties
    <3>3. QED
      BY <2>2, <3>1, <3>2
  <2>7. PICK j : j = Len(w) + 2
    OBVIOUS
  <2>8. j \in 1 .. Len(w) + 2 /\ ~(j <= Len(w)) /\ j - Len(w) = 2
    BY <2>7
  <2>9. y[j] = n /\ j \in DOMAIN y
    BY <2>5, <2>6, <2>8
  <2>10. /\ Cardinality(LinksOn(y)) <= Cardinality(LinksOn(y \o r))
         /\ \A i \in DOMAIN y : i \in DOMAIN (y \o r) /\ (y \o r)[i] = y[i]
    BY <2>6, LinksBehind
  <2>11. j \in LinksOn(v) /\ v[j] = n
    BY <1>10, <2>3, <2>9, <2>10 DEF LinksOn
  <2>12. Tree[n].target.names # <<>> /\ Cardinality(LinksOn(v)) < MaxNest
    BY <1>7, <2>11 DEF Passable
  <2>13. Cardinality(LinksOn(y)) = links + 1
    BY <1>1, <1>2, <1>8, <1>10, <2>1, <2>2, LinksPassed
  <2>14. Cardinality(LinksOn(v)) \in Nat
    <3>1. Len(v) \in Nat
      BY <1>8
    <3>2. LinksOn(v) \subseteq 1 .. Len(v)
      BY <1>8 DEF LinksOn
    <3>3. IsFiniteSet(1 .. Len(v))
      BY <3>1, FS_Interval
    <3>4. QED
      BY <3>2, <3>3, FS_Subset, FS_CardinalityType
  <2>15. links + 1 < MaxNest
    <3>1. PICK c, d : c = Cardinality(LinksOn(y)) /\ d = Cardinality(LinksOn(v))
      OBVIOUS
    <3>2. c <= d /\ d < MaxNest /\ c = links + 1 /\ d \in Nat
      BY <2>3, <2>10, <2>12, <2>13, <2>14, <3>1
    <3>3. QED
      BY <1>2, <3>2, BoundAssumption
  <2>16. QED
    BY <1>2, <2>12, <2>15, BoundAssumption
<1>11. QED
  BY <1>5, <1>8, <1>9, <1>10

-----------------------------------------------------------------------------
(* The walk keeps to the way *)

OnTheWay == Walking => path \in Paths /\ OnWay(path, WalkAt, WalkTodo, WalkLinks)

LEMMA OutcomeWalks == (Outcome = "walking" => Walking) /\ (Outcome' = "walking" => Walking')
BY DEF Outcome

LEMMA LookupKeeps == Lookup => path' = path /\ (failed => failed')
<1> SUFFICES ASSUME Lookup PROVE path' = path /\ (failed => failed')
  OBVIOUS
<1>1. path' = path
  BY Zenon DEF Lookup, Component, EmptyPath, NotADirectory, Iterate, IterateFails,
     ScanEntry, EntryFails, Nameless, TypeFails, Pass, Match, NotFound, EntryHangs, Found,
     Link, TooManyLinks, LinkFails, LinkHangs, Follow,
     Returning, Resume, ResumeFails, OpenFails, OpenUnread, Opened, vars
<1>2. NoFault \/ Fault \/ UNCHANGED hist \/ UNCHANGED failed => failed' = failed \/ failed'
  BY DEF NoFault, Fault, hist
<1>3. \A t : ReadTarget(t) => failed' = failed \/ failed'
  BY DEF ReadTarget, NoFault, hist
<1>4. CASE Match
  BY <1>1, <1>4, Zenon DEF Match
<1>5. CASE \E t \in Targets : Follow(t)
  <2>1. PICK t : Follow(t)
    BY <1>5
  <2>2. ReadTarget(t)
    BY <2>1 DEF Follow
  <2>3. QED
    BY <1>1, <1>3, <2>2
<1>6. CASE ~Match /\ ~\E t \in Targets : Follow(t)
  <2>1. NoFault \/ Fault \/ UNCHANGED hist
    BY <1>6, Zenon DEF Lookup, Component, EmptyPath, NotADirectory, Iterate, IterateFails,
       ScanEntry, EntryFails, Nameless, TypeFails, Pass, NotFound, EntryHangs, Found,
       Link, TooManyLinks, LinkFails, LinkHangs,
       Returning, Resume, ResumeFails, OpenFails, OpenUnread, Opened, InodeUnread
  <2>2. QED
    BY <1>1, <1>2, <2>1
<1>7. QED
  BY <1>4, <1>5, <1>6

LEMMA OnwardFromWalk == Walk!Onward => Outcome = "walking"
BY DEF Walk!Onward, Walk!Enter, Walk!Follow, Walk!Looking, Walk!Drop, Walk!Open, Walk!GiveUp,
       Walk!Stray, Walk!Unread, Walk!Hang, Walk!End

\* What the walk finds are the entries of the definition.
LEMMA FoundLive ==
    /\ \A n \in Walk!Found : /\ Tree[WalkAt].mode = "dir"
                             /\ \E k \in Live(WalkAt, Head(Walk!names)) :
                                    n = Tree[WalkAt].entries[k].ino
    /\ Tree[WalkAt].mode = "dir" =>
           \A k \in Live(WalkAt, Head(Walk!names)) : Tree[WalkAt].entries[k].ino \in Walk!Found
BY DEF Walk!Found, Walk!Wanted, Walk!entries, Live

LEMMA WalkKeepsOn ==
    ASSUME NEW p \in Seq(Names), OnWay(p, WalkAt, WalkTodo, WalkLinks), Walk!Onward,
           Outcome' = "walking"
    PROVE  OnWay(p, WalkAt', WalkTodo', WalkLinks')
<1>1. PICK at, todo, links, names : /\ at = WalkAt /\ todo = WalkTodo /\ links = WalkLinks
                                    /\ names = Walk!names
  OBVIOUS
<1>2. OnWay(p, at, todo, links) /\ names = todo[Len(todo)]
  BY <1>1 DEF Walk!names
<1>3. at \in Inodes /\ todo \in Seq(Seq(Names)) /\ links \in Nat
  BY <1>2 DEF OnWay
<1>4. PICK next : next = [todo EXCEPT ![Len(todo)] = Tail(names)]
  OBVIOUS
<1>5. ASSUME NEW n, n \in Walk!Found, Walk!Looking
      PROVE  /\ todo # <<>> /\ names # <<>> /\ Tree[at].mode = "dir"
             /\ \E k \in Live(at, Head(names)) : n = Tree[at].entries[k].ino
  BY <1>1, <1>5, FoundLive DEF Walk!Looking
<1>6. CASE \E n \in DOMAIN Tree : Walk!Enter(n)
  <2>1. PICK n : Walk!Enter(n)
    BY <1>6
  <2>2. Walk!Looking /\ n \in Walk!Found /\ Tree[n].mode # "link"
    BY <2>1 DEF Walk!Enter
  <2>3. PICK k \in Live(at, Head(names)) : n = Tree[at].entries[k].ino
    BY <1>5, <2>2
  <2>4. todo # <<>> /\ names # <<>> /\ Tree[at].mode = "dir"
    BY <1>5, <2>2
  <2>5. OnWay(p, n, next, links)
    BY <1>2, <1>4, <2>2, <2>3, <2>4, WayGoes
  <2>6. /\ WalkAt' = n /\ WalkLinks' = links
        /\ WalkTodo' = IF Tail(names) = <<>> THEN SubSeq(todo, 1, Len(todo) - 1) ELSE next
    BY <1>1, <1>4, <2>1 DEF Walk!Enter
  <2>7. CASE Tail(names) = <<>>
    <3>1. Len(next) = Len(todo) /\ next # <<>> /\ next[Len(next)] = <<>>
      BY <1>3, <1>4, <2>4, <2>7
    <3>2. OnWay(p, n, SubSeq(next, 1, Len(todo) - 1), links)
      BY <2>5, <3>1, WayDrops
    <3>3. SubSeq(next, 1, Len(todo) - 1) = SubSeq(todo, 1, Len(todo) - 1)
      <4>1. PICK m : m = Len(todo) - 1
        OBVIOUS
      <4>2. m \in Nat /\ Len(todo) = m + 1 /\ Len(next) = m + 1
        BY <1>3, <2>4, <3>1, <4>1
      <4>3. next \in Seq(Seq(Names))
        BY <2>5 DEF OnWay
      <4>4. \A j \in 1 .. m : next[j] = todo[j]
        BY <1>3, <1>4, <4>2
      <4>5. [j \in 1 .. m |-> next[j]] = [j \in 1 .. m |-> todo[j]]
        BY <4>4
      <4>6. [j \in 1 .. m |-> next[j]] = SubSeq(next, 1, m)
        BY <4>2, <4>3, Popped
      <4>7. [j \in 1 .. m |-> todo[j]] = SubSeq(todo, 1, m)
        BY <1>3, <4>2, Popped
      <4>8. QED
        BY <4>1, <4>5, <4>6, <4>7
    <3>4. QED
      BY <2>6, <2>7, <3>2, <3>3
  <2>8. CASE Tail(names) # <<>>
    BY <2>5, <2>6, <2>8
  <2>9. QED
    BY <2>7, <2>8
<1>7. CASE \E n \in DOMAIN Tree : Walk!Follow(n)
  <2>1. PICK n : Walk!Follow(n)
    BY <1>7
  <2>2. Walk!Looking /\ n \in Walk!Found /\ Tree[n].mode = "link"
    BY <2>1 DEF Walk!Follow
  <2>3. PICK k \in Live(at, Head(names)) : n = Tree[at].entries[k].ino
    BY <1>5, <2>2
  <2>4. todo # <<>> /\ names # <<>> /\ Tree[at].mode = "dir"
    BY <1>5, <2>2
  <2>5. OnWay(p, Reached(at, n), Append(next, Tree[n].target.names), links + 1)
    BY <1>2, <1>4, <2>2, <2>3, <2>4, WayGoes
  <2>6. /\ WalkAt' = (IF Tree[n].target.abs THEN Root ELSE at)
        /\ WalkLinks' = links + 1 /\ WalkTodo' = Append(next, Tree[n].target.names)
    BY <1>1, <1>4, <2>1 DEF Walk!Follow
  <2>7. Reached(at, n) = WalkAt'
    BY <2>2, <2>6 DEF Reached
  <2>8. QED
    BY <2>5, <2>6, <2>7
<1>8. CASE Walk!Drop
  <2>1. todo # <<>> /\ todo[Len(todo)] = <<>>
    BY <1>1, <1>2, <1>8 DEF Walk!Drop
  <2>2. OnWay(p, at, SubSeq(todo, 1, Len(todo) - 1), links)
    BY <1>2, <2>1, WayDrops
  <2>3. WalkAt' = at /\ WalkLinks' = links /\ WalkTodo' = SubSeq(todo, 1, Len(todo) - 1)
    BY <1>1, <1>8 DEF Walk!Drop
  <2>4. QED
    BY <2>2, <2>3
<1>9. ~(Walk!Open \/ Walk!GiveUp \/ Walk!Stray \/ Walk!Unread \/ Walk!Hang)
  BY DEF Walk!Open, Walk!GiveUp, Walk!Stray, Walk!Unread, Walk!Hang, Walk!End
<1>10. QED
  BY <1>6, <1>7, <1>8, <1>9 DEF Walk!Onward

LEMMA LookupOnTheWay == ASSUME IInv, OnTrack, OnTheWay, Lookup PROVE OnTheWay'
<1>1. path' = path /\ [Walk!Onward]_(Walk!vars)
  BY LookupKeeps, LookupWalks
<1>2. SUFFICES ASSUME Walking' PROVE path \in Paths /\ OnWay(path, WalkAt', WalkTodo', WalkLinks')
  BY <1>1 DEF OnTheWay
<1>3. Outcome' = "walking"
  BY <1>2, OutcomeNext
<1>4. CASE UNCHANGED Walk!vars
  <2>1. Outcome = "walking" /\ WalkAt' = WalkAt /\ WalkTodo' = WalkTodo /\ WalkLinks' = WalkLinks
    BY <1>3, <1>4 DEF Walk!vars
  <2>2. path \in Paths /\ OnWay(path, WalkAt, WalkTodo, WalkLinks)
    BY <2>1, OutcomeWalks DEF OnTheWay
  <2>3. QED
    BY <2>1, <2>2
<1>5. CASE Walk!Onward
  <2>1. path \in Paths /\ OnWay(path, WalkAt, WalkTodo, WalkLinks)
    BY <1>5, OnwardFromWalk, OutcomeWalks DEF OnTheWay
  <2>2. PICK p : p = path
    OBVIOUS
  <2>3. p \in Seq(Names)
    BY <2>1, <2>2, PathAssumption
  <2>4. OnWay(p, WalkAt', WalkTodo', WalkLinks')
    BY <1>3, <1>5, <2>1, <2>2, <2>3, WalkKeepsOn
  <2>5. QED
    BY <2>1, <2>2, <2>4
<1>6. QED
  BY <1>1, <1>4, <1>5

LEMMA OpenOnTheWay == ASSUME IInv, NEW p \in Paths, Open(p) PROVE OnTheWay'
<1>1. path' = p
  BY DEF Open
<1>2. WalkAt' = Root /\ WalkTodo' = <<p>> /\ WalkLinks' = 0
  BY OpenWalks DEF Walk!Begin
<1>3. OnWay(p, Root, <<p>>, 0)
  BY WayStarts, PathAssumption
<1>4. OnWay(path', WalkAt', WalkTodo', WalkLinks')
  BY <1>1, <1>2, <1>3
<1>5. QED
  BY <1>1, <1>4 DEF OnTheWay

-----------------------------------------------------------------------------
(* The file that is opened *)

WayOf(p) == Trail[Longest][Root][p]

LEMMA WayIs ==
    /\ Way = WayOf(path) /\ File = WayOf(path)[Len(WayOf(path))]
    /\ Way' = WayOf(path') /\ File' = WayOf(path')[Len(WayOf(path'))]
BY DEF Way, File, WayOf

LEMMA LinksBounded == IInv => WalkLinks <= MaxNest
<1>1. 0 <= MaxNest
  BY BoundAssumption
<1>2. IInv => symlinknest \in Nat /\ symlinknest <= MaxNest
  BY BoundAssumption DEF IInv, Shape
<1>3. QED
  BY <1>1, <1>2 DEF WalkLinks

\* Where all names are used up is what the path denotes.
LEMMA AtTheEnd ==
    ASSUME IInv, OnTheWay, Walking, Walk!Arrived
    PROVE  WayOf(path) # <<>> /\ WayOf(path)[Len(WayOf(path))] = WalkAt
<1>1. path \in Paths /\ OnWay(path, WalkAt, WalkTodo, WalkLinks)
  BY DEF OnTheWay
<1>2. PICK p, at, todo, links : /\ p = path /\ at = WalkAt /\ todo = WalkTodo
                                /\ links = WalkLinks
  OBVIOUS
<1>3. p \in Paths /\ OnWay(p, at, todo, links)
  BY <1>1, <1>2
<1>4. links <= MaxNest
  BY <1>2, LinksBounded
<1>5. \A k \in DOMAIN todo : todo[k] = <<>>
  BY <1>2 DEF Walk!Arrived
<1>6. WayOf(p) # <<>> /\ WayOf(p)[Len(WayOf(p))] = at
  BY <1>3, <1>4, <1>5, WayEnds DEF WayOf
<1>7. QED
  BY <1>2, <1>6

LEMMA WalkOpens ==
    ASSUME IInv, OnTheWay, Walk!Open
    PROVE  /\ Walking /\ Outcome' = "opened"
           /\ WayOf(path) # <<>> /\ WayOf(path)[Len(WayOf(path))] = WalkFile'
           /\ Tree[WalkFile'].mode = "reg"
<1>1. /\ Outcome = "walking" /\ Outcome' = "opened" /\ Walk!Arrived
      /\ WalkFile' = WalkAt /\ Tree[WalkAt].mode = "reg"
  BY DEF Walk!Open, Walk!End
<1>2. Walking
  BY <1>1, OutcomeWalks
<1>3. QED
  BY <1>1, <1>2, AtTheEnd

LEMMA WalkFileStays ==
    ASSUME [Walk!Onward]_(Walk!vars), ~Walk!Open PROVE WalkFile' = WalkFile
BY DEF Walk!Onward, Walk!vars, Walk!Enter, Walk!Follow, Walk!Drop, Walk!GiveUp, Walk!Stray,
       Walk!Unread, Walk!Hang

LEMMA RightLookup ==
    ASSUME IInv, OnTrack, OnTheWay, RightFile, Lookup PROVE RightFile'
<1>1. SUFFICES ASSUME result' # 0, ~astray'
               PROVE  Way' # <<>> /\ File' = result' /\ Tree[File'].mode = "reg"
  BY DEF RightFile
<1>2. path' = path /\ [Walk!Onward]_(Walk!vars) /\ ~astray
  BY <1>1, LookupKeeps, LookupWalks, Lost
<1>3. WalkFile' = result' /\ WalkFile = result
  BY <1>1, <1>2 DEF WalkFile
<1>4. CASE Walk!Open
  <2>1. /\ WayOf(path) # <<>> /\ WayOf(path)[Len(WayOf(path))] = result'
        /\ Tree[result'].mode = "reg"
    BY <1>3, <1>4, WalkOpens
  <2>2. Way' # <<>> /\ File' = result'
    BY <1>2, <2>1, WayIs
  <2>3. QED
    BY <2>1, <2>2
<1>5. CASE ~Walk!Open
  <2>1. result' = result
    BY <1>2, <1>3, <1>5, WalkFileStays
  <2>2. Way # <<>> /\ File = result /\ Tree[File].mode = "reg"
    BY <1>1, <1>2, <2>1 DEF RightFile
  <2>3. Way' = Way /\ File' = File
    BY <1>2, WayIs
  <2>4. QED
    BY <2>1, <2>2, <2>3
<1>6. QED
  BY <1>4, <1>5

RInv == IInv /\ OnTrack /\ OnTheWay

LEMMA RInit == Init => RInv /\ RightFile
<1> SUFFICES ASSUME Init PROVE RInv /\ RightFile
  OBVIOUS
<1>1. IInv /\ OnTrack
  BY IInit, WalkInit
<1>2. ~Walking /\ result = 0
  BY DEF Init, Walking
<1>3. QED
  BY <1>1, <1>2 DEF RInv, OnTheWay, RightFile

LEMMA RStutters ==
    ASSUME UNCHANGED vars
    PROVE  /\ OnTheWay' = OnTheWay /\ RightFile' = RightFile
           /\ UNCHANGED <<path, failed, result, astray, Outcome, Walking>>
<1>1. UNCHANGED <<path, failed, result, astray>>
  BY DEF vars, walk, hist
<1>2. UNCHANGED Walk!vars /\ UNCHANGED Walking
  BY DEF Walk!vars, WalkAt, WalkTodo, WalkLinks, WalkFile, Outcome, Walking, WalkNode, ToCome,
         vars, walk, hist, Depth, InodeOf, Top
<1>3. UNCHANGED <<WalkAt, WalkTodo, WalkLinks, Outcome>>
  BY <1>2 DEF Walk!vars
<1>4. OnTheWay' = OnTheWay
  BY <1>1, <1>2, <1>3 DEF OnTheWay
<1>5. RightFile' = RightFile
  BY <1>1, WayIs DEF RightFile
<1>6. QED
  BY <1>1, <1>2, <1>3, <1>4, <1>5

LEMMA RStep == RInv /\ [Next]_vars => RInv'
<1> SUFFICES ASSUME RInv, [Next]_vars PROVE RInv'
  OBVIOUS
<1>1. IInv' /\ OnTrack'
  BY IStep, WalkStep DEF RInv
<1>2. OnTheWay'
  BY LookupOnTheWay, OpenOnTheWay, RStutters DEF RInv, Next
<1>3. QED
  BY <1>1, <1>2 DEF RInv

LEMMA RightStep == RInv /\ RightFile /\ [Next]_vars => RightFile'
<1> SUFFICES ASSUME RInv, RightFile, [Next]_vars PROVE RightFile'
  OBVIOUS
<1>1. CASE \E p \in Paths : Open(p)
  <2>1. result' = 0
    BY <1>1 DEF Open
  <2>2. QED
    BY <2>1 DEF RightFile
<1>2. CASE Lookup
  BY <1>2, RightLookup DEF RInv
<1>3. CASE UNCHANGED vars
  BY <1>3, RStutters
<1>4. QED
  BY <1>1, <1>2, <1>3 DEF Next

\* ext2.c:672-772: ext2fs_open never opens another file than the one its path
\* denotes, for every tree of files and links and any number of failing reads:
\* what the calls of ext2fs_find_file1 still have to look up, put together, leads
\* from where they are to the end of the path.
THEOREM FileIsRight == Spec => []RightFile
<1>1. Init => RInv /\ RightFile
  BY RInit
<1>2. RInv /\ RightFile /\ [Next]_vars => RInv' /\ RightFile'
  BY RStep, RightStep
<1>3. QED
  BY <1>1, <1>2, PTL DEF Spec

-----------------------------------------------------------------------------
(* The file that is found *)

\* No read has failed, and the walk copes with the path.
Hopeful == ~failed /\ Leads(path)

Promise == Hopeful =>
    Outcome \in {"none", "hung", "walking"} \/ (Outcome = "opened" /\ result = File)

\* A walk that has lost its way has met a deleted entry or a link it misread.
LEMMA StrayedHow ==
    ASSUME IInv, OnTrack, ~astray, Lookup, astray'
    PROVE  failed' \/ Walk!Stale
<1>1. Match \/ \E t \in Targets : Follow(t)
  BY Lost
<1>2. CASE Match
  <2>1. pc = "entry" /\ HasEntry /\ This.name = Wanted
    BY <1>2 DEF Match, HasEntry
  <2>2. Walking
    BY <2>1 DEF Walking
  <2>3. Deleted(This)
    BY <1>2, Zenon DEF Match
  <2>4. /\ Walk!Looking /\ Tree[WalkAt].mode = "dir" /\ Walk!entries = Directory
        /\ scan \in DOMAIN Directory /\ Walk!Wanted(scan)
    BY <2>1, <2>2, OnEntryFits DEF This
  <2>5. QED
    BY <2>3, <2>4 DEF Walk!Stale, Deleted, This
<1>3. CASE \E t \in Targets : Follow(t)
  <2>1. PICK t \in Targets : Follow(t)
    BY <1>3
  <2>2. ReadTarget(t)
    BY <2>1 DEF Follow
  <2>3. NoFault => astray' = astray
    BY DEF NoFault, hist
  <2>4. QED
    BY <2>2, <2>3 DEF ReadTarget
<1>4. QED
  BY <1>1, <1>2, <1>3

\* On a path that leads somewhere there is no reason to give up.
LEMMA NotHopeless ==
    ASSUME IInv, OnTheWay, Walking, Leads(path) PROVE ~Walk!Hopeless /\ ~Walk!Stale
<1>1. path \in Paths /\ OnWay(path, WalkAt, WalkTodo, WalkLinks)
  BY DEF OnTheWay
<1>2. ASSUME Walk!Looking
      PROVE  /\ Walk!Found # {} /\ ~Walk!Blocked /\ ~Walk!Stale
             /\ ~\E n \in Walk!Found : Walk!Barred(n)
  <2>1. PICK p, at, todo, links, names : /\ p = path /\ at = WalkAt /\ todo = WalkTodo
                                         /\ links = WalkLinks /\ names = Walk!names
    OBVIOUS
  <2>2. /\ p \in Seq(Names) /\ Leads(p) /\ OnWay(p, at, todo, links)
        /\ todo # <<>> /\ names = todo[Len(todo)] /\ names # <<>>
    BY <1>1, <1>2, <2>1, PathAssumption DEF Walk!Looking, Walk!names
  <2>3. /\ Tree[at].mode = "dir" /\ Live(at, Head(names)) # {}
        /\ \A k \in DOMAIN Tree[at].entries : LET e == Tree[at].entries[k] IN
              /\ e.name = Head(names) => e.ino # 0
              /\ e.name # NoName /\ e.ino = 0 => e.type # "unknown"
        /\ \A k \in Live(at, Head(names)) : LET n == Tree[at].entries[k].ino IN
              Tree[n].mode = "link" => links + 1 # MaxNest /\ Tree[n].target.names # <<>>
    BY <2>2, NoReason
  <2>4. Walk!Found # {}
    BY <2>1, <2>3, FoundLive
  <2>5. ~Walk!Blocked
    BY <2>1, <2>3 DEF Walk!Blocked, Walk!entries
  <2>6. ~Walk!Stale
    BY <2>1, <2>3 DEF Walk!Stale, Walk!entries, Walk!Wanted
  <2>7. ASSUME NEW n \in Walk!Found PROVE ~Walk!Barred(n)
    <3>1. PICK k \in Live(at, Head(names)) : n = Tree[at].entries[k].ino
      BY <2>1, <2>7, FoundLive
    <3>2. Tree[n].mode = "link" => links + 1 # MaxNest /\ Tree[n].target.names # <<>>
      BY <2>3, <3>1
    <3>3. QED
      BY <2>1, <3>2 DEF Walk!Barred
  <2>8. QED
    BY <2>4, <2>5, <2>6, <2>7
<1>3. ASSUME Walk!Arrived PROVE Tree[WalkAt].mode = "reg"
  <2>1. WayOf(path)[Len(WayOf(path))] = WalkAt
    BY <1>3, AtTheEnd
  <2>2. QED
    BY <2>1 DEF Leads, WayOf
<1>4. QED
  BY <1>2, <1>3 DEF Walk!Hopeless, Walk!Stale

LEMMA OpenedHere == Outcome = "opened" => ~astray /\ result = WalkFile
BY DEF Outcome, WalkFile

LEMMA OpenedThere == Outcome' = "opened" => ~astray' /\ result' = WalkFile'
BY DEF Outcome, WalkFile

LEMMA StrayThere ==
    /\ Outcome' = "astray" => astray'
    /\ Outcome' = "unread" => failed'
    /\ Outcome = "walking" => ~astray
BY DEF Outcome

LEMMA PromiseLookup ==
    ASSUME IInv, OnTrack, OnTheWay, Promise, Lookup PROVE Promise'
<1>1. path' = path /\ (failed => failed') /\ [Walk!Onward]_(Walk!vars)
  BY LookupKeeps, LookupWalks
<1>2. SUFFICES ASSUME ~failed', Leads(path)
               PROVE  \/ Outcome' \in {"none", "hung", "walking"}
                      \/ Outcome' = "opened" /\ result' = File'
  BY <1>1 DEF Promise, Hopeful
<1>3. Outcome \in {"none", "hung", "walking"} \/ (Outcome = "opened" /\ result = File)
  BY <1>1, <1>2 DEF Promise, Hopeful
<1>4. CASE UNCHANGED Walk!vars
  <2>1. Outcome' = Outcome /\ WalkFile' = WalkFile
    BY <1>4 DEF Walk!vars
  <2>2. Outcome = "opened" => result' = result
    BY <2>1, OpenedHere, OpenedThere
  <2>3. File' = File
    BY <1>1, WayIs
  <2>4. QED
    BY <1>3, <2>1, <2>2, <2>3
<1>5. CASE Walk!Onward
  <2>1. Outcome = "walking" /\ Walking /\ ~astray
    BY <1>5, OnwardFromWalk, OutcomeWalks, StrayThere
  <2>2. ~Walk!Hopeless /\ ~Walk!Stale
    BY <1>2, <2>1, NotHopeless
  <2>3. ~Walk!GiveUp
    BY <2>2 DEF Walk!GiveUp
  <2>4. ~Walk!Stray
    <3>1. ~astray'
      BY <1>2, <2>1, <2>2, StrayedHow
    <3>2. QED
      BY <3>1, StrayThere DEF Walk!Stray, Walk!End
  <2>5. ~Walk!Unread
    BY <1>2, StrayThere DEF Walk!Unread, Walk!End
  <2>6. CASE Walk!Open
    <3>1. /\ Outcome' = "opened" /\ WayOf(path)[Len(WayOf(path))] = WalkFile'
      BY <2>6, WalkOpens
    <3>2. result' = WalkFile' /\ File' = WalkFile'
      BY <1>1, <3>1, OpenedThere, WayIs
    <3>3. QED
      BY <3>1, <3>2
  <2>7. CASE Walk!Hang
    BY <2>7 DEF Walk!Hang, Walk!End
  <2>8. CASE Walk!Drop \/ \E n \in DOMAIN Tree : Walk!Enter(n) \/ Walk!Follow(n)
    BY <2>1, <2>8 DEF Walk!Drop, Walk!Enter, Walk!Follow
  <2>9. QED
    BY <1>5, <2>3, <2>4, <2>5, <2>6, <2>7, <2>8 DEF Walk!Onward
<1>6. QED
  BY <1>1, <1>4, <1>5

LEMMA PromiseStep == RInv /\ Promise /\ [Next]_vars => Promise'
<1> SUFFICES ASSUME RInv, Promise, [Next]_vars PROVE Promise'
  OBVIOUS
<1>1. CASE \E p \in Paths : Open(p)
  <2>1. Outcome' = "walking"
    BY <1>1, OpenWalks DEF RInv, Walk!Begin
  <2>2. QED
    BY <2>1 DEF Promise
<1>2. CASE Lookup
  BY <1>2, PromiseLookup DEF RInv
<1>3. CASE UNCHANGED vars
  <2>1. UNCHANGED <<path, failed, result, Outcome>>
    BY <1>3, RStutters
  <2>2. File' = File
    BY <2>1, WayIs
  <2>3. QED
    BY <2>1, <2>2 DEF Promise, Hopeful
<1>4. QED
  BY <1>1, <1>2, <1>3 DEF Next

LEMMA PromiseInit == Init => Promise
<1>1. Init => Outcome = "none"
  BY WalkInit DEF Walk!Init
<1>2. QED
  BY <1>1 DEF Promise

LEMMA PromiseKept == Promise => FindsFile
<1> SUFFICES ASSUME Promise, pc = "done", ~failed, Way # <<>>, Passable(Way),
                    Tree[File].mode = "reg"
             PROVE  result = File
  BY DEF FindsFile
<1>1. Hopeful
  BY DEF Hopeful, Leads, Way, File
<1>2. ~Walking
  BY DEF Walking
<1>3. Outcome \notin {"none", "hung", "walking"}
  BY <1>2 DEF Outcome
<1>4. QED
  BY <1>1, <1>3 DEF Promise

\* ext2.c:672-772: a regular file at the end of a path that has no more links
\* than may be followed, no link to the root and no deleted entry without a type
\* in a directory on the way, is opened unless a read fails or memory is used up.
THEOREM FileIsFound == Spec => []FindsFile
<1>1. Init => RInv /\ Promise
  BY RInit, PromiseInit
<1>2. RInv /\ Promise /\ [Next]_vars => RInv' /\ Promise'
  BY RStep, PromiseStep
<1>3. Promise => FindsFile
  BY PromiseKept
<1>4. QED
  BY <1>1, <1>2, <1>3, PTL DEF Spec
=============================================================================
