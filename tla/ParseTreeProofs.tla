------------------------------ MODULE ParseTreeProofs ------------------------------
(***************************************************************************)
(* Proofs about the tree of the parser: that popnode() finds the node that *)
(* its caller pushed and that the tree is one, however often the parser    *)
(* pushes, pops, moves and frees, and whatever bound there is on depth.    *)
(* Then what a step of the parser is to do, so that it is a step of        *)
(* ParseTree, and that the functions of its two passes do so.              *)
(***************************************************************************)
EXTENDS Parse, WellFoundedInduction, SequenceTheorems, TLAPS

-------------------------------------------------------------------------------
(***************************************************************************)
(* Sequences.                                                              *)
(***************************************************************************)

\* What is appended comes last.
LEMMA Appended ==
  ASSUME NEW S, NEW T, NEW s \in Seq(S), S \subseteq T, NEW e \in T
  PROVE  /\ Append(s, e) \in Seq(T)
         /\ Len(Append(s, e)) = Len(s) + 1
         /\ DOMAIN Append(s, e) = 1 .. Len(s) + 1
         /\ \A i \in 1 .. Len(s) : Append(s, e)[i] = s[i]
         /\ Append(s, e)[Len(s) + 1] = e
<1>1. s \in Seq(T)
  BY SeqDef
<1> QED
  BY <1>1, AppendProperties

\* A sequence without its last element.
LEMMA Fronted ==
  ASSUME NEW S, NEW s \in Seq(S), s # <<>>
  PROVE  /\ SubSeq(s, 1, Len(s) - 1) \in Seq(S)
         /\ Len(SubSeq(s, 1, Len(s) - 1)) = Len(s) - 1
         /\ DOMAIN SubSeq(s, 1, Len(s) - 1) = 1 .. Len(s) - 1
         /\ \A i \in 1 .. Len(s) - 1 : SubSeq(s, 1, Len(s) - 1)[i] = s[i]
<1>1. Len(s) \in Nat \ {0}
  BY EmptySeq
<1>2. \A i \in 1 .. Len(s) - 1 : s[i] \in S
  BY <1>1
<1> DEFINE n == Len(s) - 1
           f == SubSeq(s, 1, n)
<1>3. n \in Nat
  BY <1>1
<1>4. \A i \in 1 .. n : s[i] \in S
  BY <1>2
<1> SUFFICES /\ f \in Seq(S) /\ Len(f) = n /\ DOMAIN f = 1 .. n
             /\ \A i \in 1 .. n : f[i] = s[i]
  OBVIOUS
<1> HIDE DEF n
<1>5. /\ f \in Seq(S)
      /\ Len(f) = IF 1 <= n THEN n - 1 + 1 ELSE 0
      /\ \A i \in 1 .. n - 1 + 1 : f[i] = s[1 + i - 1]
  BY <1>3, <1>4, SubSeqProperties
<1> HIDE DEF f
<1>6. Len(f) = n
  BY <1>3, <1>5
<1>7. DOMAIN f = 1 .. n
  BY <1>5, <1>6
<1>8. ASSUME NEW i \in 1 .. n PROVE f[i] = s[i]
  BY <1>3, <1>5
<1> QED
  BY <1>5, <1>6, <1>7, <1>8

\* A sequence is one over any set that has its elements.
LEMMA Retyped ==
  ASSUME NEW S, NEW T, NEW s \in Seq(S), \A i \in DOMAIN s : s[i] \in T
  PROVE  s \in Seq(T)
BY SeqDef

-------------------------------------------------------------------------------
(***************************************************************************)
(* The invariant.  That a node is held once is needed where a paragraph is *)
(* made a title: it and the list it goes to are children of the current    *)
(* node, so were they held, the current node would be held before them.    *)
(***************************************************************************)
HeldOnce ==
  phase = "parsing" => \A j, k \in DOMAIN held : held[j] = held[k] => j = k

IInv == TTypeOK /\ StackIsPath /\ HeldOnce /\ TreeWhole

\* The tree by itself.
Shaped ==
  /\ Root \in DOMAIN kids /\ lab[Root].type = "ROOT"
  /\ Linked
  /\ \A n \in DOMAIN kids : Older(n)

\* The current node may be given children, and its identifier is not new.
LEMMA Facts ==
  ASSUME IInv, phase = "parsing"
  PROVE  /\ current \in DOMAIN kids /\ lab[current].type \notin Leaves
         /\ nodes \in Nat /\ nodes \notin DOMAIN kids /\ nodes + 1 \notin DOMAIN kids
         /\ \A n \in DOMAIN kids : n \in Nat /\ n < nodes
         /\ \A n \in DOMAIN kids : par[n] # n
         /\ \A n \in DOMAIN kids \ {Root} : par[n] \in DOMAIN kids
         /\ Len(held) \in Nat \ {0} /\ DOMAIN held = 1 .. Len(held)
         /\ Shaped
<1>1. /\ DOMAIN kids \subseteq 0 .. nodes - 1 /\ nodes \in Nat
      /\ held \in Seq(DOMAIN kids) /\ held # <<>> /\ current = held[Len(held)]
      /\ Root \in DOMAIN kids /\ lab[Root].type = "ROOT"
  BY DEF IInv, TTypeOK, StackIsPath, TreeWhole, Whole
<1>2. Len(held) \in Nat \ {0} /\ DOMAIN held = 1 .. Len(held)
  BY <1>1, EmptySeq
<1>3. current \in DOMAIN kids /\ lab[current].type \notin Leaves
  BY <1>1, <1>2 DEF IInv, TreeWhole, LeavesBare
<1>4. Shaped
  BY DEF IInv, TreeWhole, Whole, Shaped
<1>5. \A n \in DOMAIN kids \ {Root} : par[n] \in DOMAIN kids
  BY <1>4 DEF IInv, TTypeOK, Shaped, Linked
<1>6. ASSUME NEW n \in DOMAIN kids PROVE par[n] # n
  BY <1>1, <1>4 DEF Shaped, Older
<1> QED
  BY <1>1, <1>2, <1>3, <1>4, <1>5, <1>6

\* A child of the current node is not held.
LEMMA ChildNotHeld ==
  ASSUME IInv, phase = "parsing", NEW x \in DOMAIN kids, x # Root, par[x] = current
  PROVE  \A j \in DOMAIN held : held[j] # x
<1> SUFFICES ASSUME NEW j \in DOMAIN held, held[j] = x PROVE FALSE
  OBVIOUS
<1>1. /\ held[1] = Root /\ current = held[Len(held)]
      /\ \A k \in 1 .. Len(held) - 1 : par[held[k + 1]] = held[k]
      /\ \A i, k \in DOMAIN held : held[i] = held[k] => i = k
  BY DEF IInv, StackIsPath, HeldOnce
<1>2. Len(held) \in Nat \ {0} /\ DOMAIN held = 1 .. Len(held)
  BY Facts
<1>3. j \in 2 .. Len(held) /\ j - 1 \in 1 .. Len(held) - 1
  BY <1>1, <1>2
<1>4. par[held[(j - 1) + 1]] = held[j - 1]
  BY <1>1, <1>3
<1>5. held[j - 1] = held[Len(held)]
  BY <1>1, <1>3, <1>4
<1>6. j - 1 = Len(held)
  BY <1>1, <1>2, <1>3, <1>5
<1> QED
  BY <1>3, <1>6

\* The last child of a node that has one.
LEMMA LastChild ==
  ASSUME IInv, NEW p \in DOMAIN kids, Last_child(p) # None
  PROVE  /\ kids[p] \in Seq(DOMAIN kids) /\ kids[p] # <<>>
         /\ Len(kids[p]) \in Nat \ {0} /\ DOMAIN kids[p] = 1 .. Len(kids[p])
         /\ Last_child(p) = kids[p][Len(kids[p])]
         /\ Last_child(p) \in DOMAIN kids
<1>1. kids[p] \in Seq(DOMAIN kids) /\ kids[p] # <<>>
  BY DEF IInv, TTypeOK, Last_child
<1>2. Len(kids[p]) \in Nat \ {0} /\ DOMAIN kids[p] = 1 .. Len(kids[p])
  BY <1>1, EmptySeq
<1> QED
  BY <1>1, <1>2 DEF Last_child

-------------------------------------------------------------------------------
(***************************************************************************)
(* Each action keeps the invariant.                                        *)
(***************************************************************************)
LEMMA InitInv == TInit => IInv
<1> SUFFICES ASSUME TInit PROVE IInv
  OBVIOUS
<1> USE DEF TInit, Nothing
<1>1. TTypeOK
  BY DEF TTypeOK, Phases
<1>2. TreeWhole
  BY DEF TreeWhole, Whole, LeavesBare
<1> QED
  BY <1>1, <1>2 DEF IInv, StackIsPath, HeldOnce

LEMMA PushrootInv == IInv /\ Pushroot => IInv'
<1> SUFFICES ASSUME IInv, Pushroot PROVE IInv'
  OBVIOUS
<1> USE DEF Pushroot
<1>1. DOMAIN kids' = {Root} /\ DOMAIN par' = {Root} /\ DOMAIN lab' = {Root}
  OBVIOUS
<1>2. kids'[Root] = <<>> /\ par'[Root] = None /\ lab'[Root].type = "ROOT"
  BY DEF Node, Label
<1>3. held' = <<Root>> /\ held' \in Seq({Root}) /\ Len(held') = 1 /\ DOMAIN held' = {1} /\ held'[1] = Root
  OBVIOUS
<1>4. DOMAIN kids'[Root] = {}
  BY <1>2
<1>5. TTypeOK'
  BY <1>1, <1>2, <1>3 DEF IInv, TTypeOK, Phases, Root
<1>6. StackIsPath' /\ HeldOnce'
  BY <1>3 DEF StackIsPath, HeldOnce
<1>7. LeavesBare'
  BY <1>1, <1>2, <1>3, <1>4 DEF LeavesBare, Leaves
<1>8. Linked' /\ (\A n \in DOMAIN kids : Older(n))'
  BY <1>1, <1>2, <1>4 DEF Linked, Older, Root, None
<1> QED
  BY <1>1, <1>2, <1>5, <1>6, <1>7, <1>8 DEF IInv, TreeWhole

(***************************************************************************)
(* A new node at the end of the children of the current one.               *)
(***************************************************************************)
LEMMA NewNodeShaped ==
  ASSUME IInv, phase = "parsing", Sametypes,
         NewNode(lab', current, lab'[nodes]),
         lab'[nodes].type \notin {"META", "DEFINITION_TITLE"}
  PROVE  /\ Shaped'
         /\ DOMAIN kids' = DOMAIN kids \cup {nodes}
         /\ DOMAIN par' = DOMAIN kids' /\ DOMAIN lab' = DOMAIN kids'
         /\ nodes' = nodes + 1 /\ nodes' \in Nat
         /\ DOMAIN kids' \subseteq 0 .. nodes' - 1
         /\ \A n \in DOMAIN kids' : /\ kids'[n] \in Seq(DOMAIN kids')
                                    /\ par'[n] \in DOMAIN kids' \cup {None}
         /\ par'[nodes] = current
         /\ \A n \in DOMAIN kids : par'[n] = par[n] /\ lab'[n].type = lab[n].type
         /\ \A n \in DOMAIN kids' : lab'[n].type = "NORMAL_TEXT" => kids'[n] = <<>>
         /\ \A n \in DOMAIN kids' : lab'[n].type = "META" =>
              \A k \in DOMAIN kids'[n] : lab'[kids'[n][k]].type = "NORMAL_TEXT"
<1> DEFINE K == DOMAIN kids
           new == Append(kids[current], nodes)
           len == Len(kids[current])
<1>0. /\ current \in K /\ lab[current].type \notin Leaves
      /\ nodes \in Nat /\ nodes \notin K
      /\ \A n \in K : n \in Nat /\ n < nodes
      /\ \A n \in K \ {Root} : par[n] \in K
      /\ Shaped
  BY Facts
<1>1. /\ DOMAIN par = K /\ DOMAIN lab = K
      /\ \A n \in K : kids[n] \in Seq(K) /\ par[n] \in K \cup {None}
  BY DEF IInv, TTypeOK
<1>2. /\ DOMAIN kids' = K \cup {nodes} /\ DOMAIN par' = K \cup {nodes}
      /\ DOMAIN lab' = K \cup {nodes} /\ nodes' = nodes + 1
  BY <1>1 DEF NewNode
<1>3. /\ kids'[nodes] = <<>> /\ DOMAIN kids'[nodes] = {}
      /\ kids'[current] = new
      /\ \A n \in K \ {current} : kids'[n] = kids[n]
  BY <1>0, <1>1 DEF NewNode
<1>4. par'[nodes] = current /\ \A n \in K : par'[n] = par[n]
  BY <1>0, <1>1 DEF NewNode
<1>5. \A n \in K : lab'[n].type = lab[n].type
  BY <1>1 DEF Sametypes
<1>6. /\ new \in Seq(K \cup {nodes}) /\ len \in Nat /\ DOMAIN kids[current] = 1 .. len
      /\ DOMAIN new = 1 .. len + 1 /\ new[len + 1] = nodes
      /\ \A i \in 1 .. len : new[i] = kids[current][i]
  BY <1>0, <1>1, Appended
<1> HIDE DEF new, len
<1>7. \A n \in K : DOMAIN kids[n] \subseteq DOMAIN kids'[n]
                   /\ \A i \in DOMAIN kids[n] : kids'[n][i] = kids[n][i] /\ kids[n][i] \in K
  BY <1>1, <1>3, <1>6
<1>8. \A n \in K \cup {nodes} : kids'[n] \in Seq(K \cup {nodes})
  <2>1. ASSUME NEW n \in K \ {current} PROVE kids'[n] \in Seq(K \cup {nodes})
    BY <1>1, <1>3, Retyped
  <2>2. kids'[nodes] \in Seq(K \cup {nodes})
    BY <1>3
  <2> QED
    BY <2>1, <2>2, <1>3, <1>6
<1>9. Linked'
  <2>1. ASSUME NEW n \in K \cup {nodes}, NEW k \in DOMAIN kids'[n]
        PROVE  kids'[n][k] \in K \cup {nodes} /\ par'[kids'[n][k]] = n
    <3>1. CASE n = nodes
      BY <3>1, <1>3
    <3>2. CASE n \in K /\ k \in DOMAIN kids[n]
      <4>1. kids'[n][k] = kids[n][k] /\ kids[n][k] \in K /\ par[kids[n][k]] = n
        BY <3>2, <1>0, <1>7 DEF Shaped, Linked
      <4> QED
        BY <4>1, <1>4
    <3>3. CASE n = current /\ k = len + 1
      BY <3>3, <1>3, <1>4, <1>6
    <3> QED
      BY <3>1, <3>2, <3>3, <1>3, <1>6
  <2>2. ASSUME NEW n \in K \cup {nodes}, NEW j \in DOMAIN kids'[n], NEW k \in DOMAIN kids'[n],
               kids'[n][j] = kids'[n][k]
        PROVE  j = k
    <3>1. CASE n = nodes
      BY <3>1, <1>3
    <3>2. CASE n \in K \ {current}
      BY <2>2, <3>2, <1>0, <1>3 DEF Shaped, Linked
    <3>3. CASE n = current
      <4>1. \A i \in 1 .. len : new[i] \in K /\ new[i] = kids[current][i]
        BY <1>0, <1>6, <1>7
      <4>2. \A h, i \in 1 .. len : new[h] = new[i] => h = i
        <5>1. \A h, i \in DOMAIN kids[current] : kids[current][h] = kids[current][i] => h = i
          BY <1>0 DEF Shaped, Linked
        <5> QED
          BY <4>1, <5>1, <1>6
      <4>3. j \in 1 .. len + 1 /\ k \in 1 .. len + 1 /\ new[j] = new[k]
        BY <2>2, <3>3, <1>3, <1>6
      <4> QED
        BY <4>1, <4>2, <4>3, <1>0, <1>6
    <3> QED
      BY <3>1, <3>2, <3>3
  <2>3. ASSUME NEW n \in K \cup {nodes} PROVE par'[n] = None <=> n = Root
    BY <1>0, <1>4 DEF Shaped, Linked, None
  <2>4. ASSUME NEW n \in K \cup {nodes}, n # Root
        PROVE  \E k \in DOMAIN kids'[par'[n]] : kids'[par'[n]][k] = n
    <3>1. CASE n = nodes
      BY <3>1, <1>3, <1>4, <1>6
    <3>2. CASE n \in K
      <4>1. par[n] \in K /\ par'[n] = par[n]
        BY <3>2, <2>4, <1>0, <1>4
      <4>2. PICK k \in DOMAIN kids[par[n]] : kids[par[n]][k] = n
        BY <3>2, <2>4, <1>0 DEF Shaped, Linked
      <4> QED
        BY <4>1, <4>2, <1>7
    <3> QED
      BY <3>1, <3>2
  <2> QED
    BY <2>1, <2>2, <2>3, <2>4, <1>2 DEF Linked
<1>10. ASSUME NEW n \in K \cup {nodes} PROVE Older(n)'
  <2>1. CASE n = nodes
    BY <2>1, <1>0, <1>4 DEF Older
  <2>2. CASE n = Root
    BY <2>2, <1>0, <1>4, <1>5 DEF Older, Shaped
  <2>3. CASE n \in K \ {Root}
    BY <2>3, <1>0, <1>4, <1>5 DEF Older, Shaped
  <2> QED
    BY <2>1, <2>2, <2>3
<1>11. Shaped'
  BY <1>0, <1>2, <1>5, <1>9, <1>10 DEF Shaped
<1>12. ASSUME NEW n \in K \cup {nodes}, lab'[n].type = "NORMAL_TEXT" PROVE kids'[n] = <<>>
  BY <1>12, <1>0, <1>3, <1>5 DEF IInv, TreeWhole, LeavesBare, Leaves
<1>13. ASSUME NEW n \in K \cup {nodes}, lab'[n].type = "META", NEW k \in DOMAIN kids'[n]
       PROVE  lab'[kids'[n][k]].type = "NORMAL_TEXT"
  <2>1. n \in K \ {current} /\ lab[n].type = "META"
    BY <1>13, <1>0, <1>5 DEF Leaves
  <2> QED
    BY <2>1, <1>1, <1>3, <1>5, <1>7 DEF IInv, TreeWhole, LeavesBare
<1>14. \A n \in K \cup {nodes} : par'[n] \in K \cup {nodes} \cup {None}
  BY <1>0, <1>1, <1>4
<1>15. K \cup {nodes} \subseteq 0 .. nodes' - 1 /\ nodes' \in Nat
  BY <1>0, <1>2
<1> QED
  BY <1>2, <1>4, <1>5, <1>8, <1>11, <1>12, <1>13, <1>14, <1>15

(***************************************************************************)
(* One more node is held, a child of the current one.                      *)
(***************************************************************************)
LEMMA HeldGrows ==
  ASSUME IInv, phase = "parsing", NEW x \in DOMAIN kids', DOMAIN kids \subseteq DOMAIN kids',
         \A j \in DOMAIN held : held[j] # x /\ par'[held[j]] = par[held[j]],
         par'[x] = current,
         current' = x, depth' = depth + 1, held' = Append(held, x)
  PROVE  /\ StackIsPath' /\ HeldOnce'
         /\ held' \in Seq(DOMAIN kids') /\ depth' \in Nat
         /\ \A j \in DOMAIN held' : held'[j] = x \/ \E i \in DOMAIN held : held'[j] = held[i]
<1> DEFINE len == Len(held)
<1>1. /\ held \in Seq(DOMAIN kids) /\ held[1] = Root /\ current = held[len]
      /\ depth = len
      /\ \A k \in 1 .. len - 1 : par[held[k + 1]] = held[k]
      /\ \A j, k \in DOMAIN held : held[j] = held[k] => j = k
  BY DEF IInv, TTypeOK, StackIsPath, HeldOnce
<1>2. len \in Nat \ {0} /\ DOMAIN held = 1 .. len
  BY Facts
<1>3. /\ held' \in Seq(DOMAIN kids') /\ Len(held') = len + 1 /\ DOMAIN held' = 1 .. len + 1
      /\ \A i \in 1 .. len : held'[i] = held[i]
      /\ held'[len + 1] = x
  BY <1>1, Appended
<1> HIDE DEF len
<1>4. ASSUME NEW k \in 1 .. Len(held') - 1 PROVE par'[held'[k + 1]] = held'[k]
  <2>1. k \in 1 .. len
    BY <1>2, <1>3
  <2>2. CASE k = len
    BY <2>2, <1>1, <1>2, <1>3
  <2>3. CASE k # len
    <3>1. k \in 1 .. len - 1 /\ k + 1 \in 1 .. len
      BY <2>1, <2>3, <1>2
    <3> QED
      BY <3>1, <2>1, <1>1, <1>2, <1>3, SMTT(30)
  <2> QED
    BY <2>2, <2>3
<1>5. held' # <<>> /\ held'[1] = Root /\ current' = held'[Len(held')] /\ depth' = Len(held')
  BY <1>1, <1>2, <1>3
<1>6. StackIsPath'
  BY <1>4, <1>5 DEF StackIsPath
<1>7. HeldOnce'
  BY <1>1, <1>2, <1>3 DEF HeldOnce
<1>8. depth' \in Nat
  BY <1>1, <1>2
<1> QED
  BY <1>2, <1>3, <1>6, <1>7, <1>8

\* The nodes held are the same, and so are their parents.
LEMMA HeldSame ==
  ASSUME IInv, phase = "parsing",
         \A j \in DOMAIN held : held[j] \in DOMAIN kids' /\ par'[held[j]] = par[held[j]],
         UNCHANGED <<current, depth, held, phase>>
  PROVE  StackIsPath' /\ HeldOnce' /\ held' \in Seq(DOMAIN kids') /\ depth' \in Nat
<1>1. Len(held) \in Nat \ {0} /\ DOMAIN held = 1 .. Len(held) /\ held \in Seq(DOMAIN kids)
  BY Facts DEF IInv, TTypeOK
<1>2. held' \in Seq(DOMAIN kids')
  BY <1>1, Retyped
<1>3. StackIsPath'
  BY <1>1 DEF IInv, StackIsPath
<1> QED
  BY <1>2, <1>3 DEF IInv, HeldOnce, TTypeOK

LEMMA PushInv == IInv /\ Push => IInv'
<1> SUFFICES ASSUME IInv, Push PROVE IInv'
  OBVIOUS
<1>1. /\ phase = "parsing" /\ phase' = phase /\ maxdepth' = maxdepth /\ Sametypes
      /\ NewNode(lab', current, lab'[nodes])
      /\ lab'[nodes].type \notin Leaves \cup {"DEFINITION_TITLE"}
      /\ current' = nodes /\ depth' = depth + 1 /\ held' = Append(held, nodes)
  BY DEF Push, Pushnode
<1>2. lab'[nodes].type \notin {"META", "DEFINITION_TITLE"}
  BY <1>1 DEF Leaves
<1> DEFINE NewNodeIs ==
      /\ Shaped'
      /\ DOMAIN kids' = DOMAIN kids \cup {nodes}
      /\ DOMAIN par' = DOMAIN kids' /\ DOMAIN lab' = DOMAIN kids'
      /\ nodes' = nodes + 1 /\ nodes' \in Nat
      /\ DOMAIN kids' \subseteq 0 .. nodes' - 1
      /\ \A n \in DOMAIN kids' : /\ kids'[n] \in Seq(DOMAIN kids')
                                 /\ par'[n] \in DOMAIN kids' \cup {None}
      /\ par'[nodes] = current
      /\ \A n \in DOMAIN kids : par'[n] = par[n] /\ lab'[n].type = lab[n].type
      /\ \A n \in DOMAIN kids' : lab'[n].type = "NORMAL_TEXT" => kids'[n] = <<>>
      /\ \A n \in DOMAIN kids' : lab'[n].type = "META" =>
           \A k \in DOMAIN kids'[n] : lab'[kids'[n][k]].type = "NORMAL_TEXT"
<1>3. NewNodeIs
  BY <1>1, <1>2, NewNodeShaped
<1>4. \A j \in DOMAIN held : held[j] \in DOMAIN kids /\ held[j] # nodes
  BY <1>1, Facts DEF IInv, TTypeOK
<1>5. /\ StackIsPath' /\ HeldOnce' /\ held' \in Seq(DOMAIN kids') /\ depth' \in Nat
      /\ \A j \in DOMAIN held' : held'[j] = nodes \/ \E i \in DOMAIN held : held'[j] = held[i]
  BY <1>1, <1>3, <1>4, HeldGrows
<1>6. LeavesBare'
  <2>1. \A i \in DOMAIN held : lab[held[i]].type \notin Leaves
    BY DEF IInv, TreeWhole, LeavesBare
  <2>2. ASSUME NEW j \in DOMAIN held' PROVE lab'[held'[j]].type \notin Leaves
    <3>1. CASE held'[j] = nodes
      BY <3>1, <1>1
    <3>2. CASE \E i \in DOMAIN held : held'[j] = held[i]
      BY <3>2, <2>1, <1>3, <1>4
    <3> QED
      BY <3>1, <3>2, <1>5
  <2> QED
    BY <1>3, <2>2 DEF LeavesBare
<1>7. TTypeOK'
  BY <1>1, <1>3, <1>5 DEF TTypeOK, IInv
<1> QED
  BY <1>3, <1>5, <1>6, <1>7 DEF IInv, TreeWhole, Shaped

LEMMA LeafInv == IInv /\ Leaf_node => IInv'
<1> SUFFICES ASSUME IInv, Leaf_node PROVE IInv'
  OBVIOUS
<1>1. /\ phase = "parsing" /\ Sametypes /\ NewNode(lab', current, lab'[nodes])
      /\ lab'[nodes].type \notin {"META", "DEFINITION_TITLE"}
      /\ UNCHANGED <<current, depth, held, maxdepth, phase>>
  BY DEF Leaf_node, Pushleaf
<1> DEFINE NewNodeIs ==
      /\ Shaped'
      /\ DOMAIN kids' = DOMAIN kids \cup {nodes}
      /\ DOMAIN par' = DOMAIN kids' /\ DOMAIN lab' = DOMAIN kids'
      /\ nodes' \in Nat /\ DOMAIN kids' \subseteq 0 .. nodes' - 1
      /\ \A n \in DOMAIN kids' : /\ kids'[n] \in Seq(DOMAIN kids')
                                 /\ par'[n] \in DOMAIN kids' \cup {None}
      /\ \A n \in DOMAIN kids : par'[n] = par[n] /\ lab'[n].type = lab[n].type
      /\ \A n \in DOMAIN kids' : lab'[n].type = "NORMAL_TEXT" => kids'[n] = <<>>
      /\ \A n \in DOMAIN kids' : lab'[n].type = "META" =>
           \A k \in DOMAIN kids'[n] : lab'[kids'[n][k]].type = "NORMAL_TEXT"
<1>2. NewNodeIs
  BY <1>1, NewNodeShaped
<1>3. \A j \in DOMAIN held : held[j] \in DOMAIN kids
  BY DEF IInv, TTypeOK
<1>4. StackIsPath' /\ HeldOnce' /\ held' \in Seq(DOMAIN kids') /\ depth' \in Nat
  BY <1>1, <1>2, <1>3, HeldSame
<1>5. LeavesBare'
  BY <1>1, <1>2, <1>3 DEF LeavesBare, IInv, TreeWhole
<1>6. TTypeOK'
  BY <1>1, <1>2, <1>4 DEF TTypeOK, IInv
<1> QED
  BY <1>2, <1>4, <1>5, <1>6 DEF IInv, TreeWhole, Shaped

LEMMA ChangeInv == IInv /\ Change => IInv'
<1> SUFFICES ASSUME IInv, Change PROVE IInv'
  OBVIOUS
<1>1. /\ phase = "parsing" /\ DOMAIN lab' = DOMAIN kids
      /\ UNCHANGED <<kids, par, nodes, current, depth, held, maxdepth, phase>>
      /\ \A n \in DOMAIN kids : lab'[n].type = lab[n].type
  BY DEF Change, Sametypes, IInv, TTypeOK
<1>2. TTypeOK'
  BY <1>1 DEF IInv, TTypeOK
<1>3. StackIsPath' /\ HeldOnce'
  BY <1>1 DEF IInv, StackIsPath, HeldOnce
<1>4. LeavesBare'
  <2>1. \A n \in DOMAIN kids : \A k \in DOMAIN kids[n] : kids[n][k] \in DOMAIN kids
    BY DEF IInv, TTypeOK
  <2>2. \A j \in DOMAIN held : held[j] \in DOMAIN kids
    BY DEF IInv, TTypeOK
  <2> QED
    BY <1>1, <2>1, <2>2 DEF LeavesBare, IInv, TreeWhole
<1>5. Shaped
  BY <1>1, Facts
<1>6. Linked'
  BY <1>1, <1>5 DEF Shaped, Linked
<1>7. ASSUME NEW n \in DOMAIN kids PROVE Older(n)'
  <2>1. n = Root \/ par[n] \in DOMAIN kids
    BY <1>1, Facts
  <2> QED
    BY <2>1, <1>1, <1>5 DEF Shaped, Older
<1> QED
  BY <1>1, <1>2, <1>3, <1>4, <1>5, <1>6, <1>7 DEF IInv, TreeWhole, Shaped

(***************************************************************************)
(* The root is held last only if it is held alone, so that the depth is    *)
(* one when it is popped; any other node is popped for its parent.         *)
(***************************************************************************)
LEMMA PopnodeInv == ASSUME NEW n, IInv, Popnode(n) PROVE IInv'
<1> DEFINE len == Len(held)
           front == SubSeq(held, 1, len - 1)
<1>1. /\ phase = "parsing"
      /\ UNCHANGED <<kids, par, lab, nodes, maxdepth>>
  BY DEF Popnode
<1>2. /\ len \in Nat \ {0} /\ DOMAIN held = 1 .. len /\ Shaped
      /\ held \in Seq(DOMAIN kids) /\ held # <<>> /\ held[1] = Root /\ current = held[len]
      /\ depth = len /\ depth \in Nat
      /\ \A k \in 1 .. len - 1 : par[held[k + 1]] = held[k]
      /\ \A j, k \in DOMAIN held : held[j] = held[k] => j = k
  BY <1>1, Facts DEF IInv, TTypeOK, StackIsPath, HeldOnce
<1>3. /\ front \in Seq(DOMAIN kids) /\ Len(front) = len - 1 /\ DOMAIN front = 1 .. len - 1
      /\ \A i \in 1 .. len - 1 : front[i] = held[i]
  BY <1>2, Fronted
<1>4. CASE current # n
  <2>1. phase' = "aborted" /\ UNCHANGED <<current, depth, held>>
    BY <1>4 DEF Popnode
  <2>2. TTypeOK' /\ StackIsPath' /\ HeldOnce'
    BY <1>1, <2>1 DEF IInv, TTypeOK, StackIsPath, HeldOnce, Phases
  <2>3. LeavesBare'
    BY <1>1, <2>1 DEF IInv, TreeWhole, LeavesBare
  <2>4. Shaped'
    BY <1>1, <1>2 DEF Shaped, Linked, Older
  <2> QED
    BY <2>2, <2>3, <2>4 DEF IInv, TreeWhole, Shaped
<1>5. CASE current = n
  <2>1. /\ depth' = depth - 1 /\ current' = par[current] /\ held' = front
        /\ phase' = IF n # Root THEN "parsing" ELSE IF depth = 1 THEN "done" ELSE "aborted"
    BY <1>2, <1>5 DEF Popnode
  <2> HIDE DEF front, len
  <2>2. TTypeOK'
    BY <1>1, <1>2, <1>3, <2>1 DEF IInv, TTypeOK, Phases
  <2>3. LeavesBare'
    BY <1>1, <1>2, <1>3, <2>1 DEF IInv, TreeWhole, LeavesBare
  <2>4. Shaped'
    BY <1>1, <1>2 DEF Shaped, Linked, Older
  <2>5. HeldOnce'
    <3>1. \A i \in DOMAIN held' : i \in DOMAIN held /\ held'[i] = held[i]
      BY <1>2, <1>3, <2>1
    <3> QED
      BY <3>1, <1>2 DEF HeldOnce
  <2>6. CASE n = Root
    <3>1. len = 1
      <4>1. 1 \in DOMAIN held /\ len \in DOMAIN held /\ held[1] = held[len]
        BY <1>2, <1>5, <2>6
      <4> QED
        BY <4>1, <1>2
    <3> QED
      BY <2>1, <2>2, <2>3, <2>4, <2>5, <2>6, <3>1, <1>2 DEF IInv, TreeWhole, Shaped, StackIsPath
  <2>7. CASE n # Root
    <3>1. len - 1 \in Nat \ {0}
      <4>1. len # 1
        BY <1>2, <1>5, <2>7
      <4> QED
        BY <4>1, <1>2
    <3>2. par[held[(len - 1) + 1]] = held[len - 1]
      BY <3>1, <1>2
    <3>3. current' = held'[Len(held')] /\ held'[1] = Root /\ held' # <<>> /\ depth' = Len(held')
      BY <3>1, <3>2, <1>2, <1>3, <2>1
    <3>4. ASSUME NEW k \in 1 .. Len(held') - 1 PROVE par'[held'[k + 1]] = held'[k]
      <4>1. k \in 1 .. len - 1 /\ k + 1 \in 1 .. len - 1
        BY <1>2, <1>3, <2>1
      <4> QED
        BY <4>1, <1>1, <1>2, <1>3, <2>1
    <3>5. StackIsPath'
      BY <3>3, <3>4 DEF StackIsPath
    <3> QED
      BY <2>2, <2>3, <2>4, <2>5, <3>5 DEF IInv, TreeWhole, Shaped
  <2> QED
    BY <2>6, <2>7
<1> QED
  BY <1>4, <1>5

LEMMA FailedInv == IInv /\ Failed => IInv'
<1> SUFFICES ASSUME IInv, Failed PROVE IInv'
  OBVIOUS
<1> USE DEF Failed, Nothing
<1>1. TTypeOK'
  BY DEF IInv, TTypeOK, Phases
<1>2. TreeWhole'
  BY DEF TreeWhole, Whole, LeavesBare
<1> QED
  BY <1>1, <1>2 DEF IInv, StackIsPath, HeldOnce

LEMMA AbortedInv == IInv /\ Aborted => IInv'
<1> SUFFICES ASSUME IInv, Aborted PROVE IInv'
  OBVIOUS
<1>1. /\ phase = "parsing" /\ phase' = "aborted"
      /\ UNCHANGED <<kids, par, lab, nodes, current, depth, held, maxdepth>>
  BY DEF Aborted
<1>2. TTypeOK' /\ StackIsPath' /\ HeldOnce'
  BY <1>1 DEF IInv, TTypeOK, StackIsPath, HeldOnce, Phases
<1>3. LeavesBare'
  BY <1>1 DEF IInv, TreeWhole, LeavesBare
<1>4. Shaped
  BY <1>1, Facts
<1>5. Shaped'
  BY <1>1, <1>4 DEF Shaped, Linked, Older
<1> QED
  BY <1>2, <1>3, <1>5 DEF IInv, TreeWhole, Shaped

(***************************************************************************)
(* What is cut is a text: it has no children and is not held, so that      *)
(* nothing is left that refers to it.                                      *)
(***************************************************************************)
LEMMA CutInv == IInv /\ Cut_last => IInv'
<1> SUFFICES ASSUME IInv, NEW p \in DOMAIN lab,
                    \A n \in DOMAIN lab \ {Last_child(p)} :
                      n \in DOMAIN lab' /\ lab'[n].type = lab[n].type,
                    Removelast(lab', p)
             PROVE  IInv'
  BY DEF Cut_last
<1> DEFINE K == DOMAIN kids
           t == Last_child(p)
           len == Len(kids[p])
           front == SubSeq(kids[p], 1, len - 1)
<1>1. /\ phase = "parsing" /\ t # None /\ lab[t].type = "NORMAL_TEXT"
      /\ UNCHANGED <<nodes, current, depth, held, maxdepth, phase>>
  BY DEF Removelast
<1>2. /\ DOMAIN par = K /\ DOMAIN lab = K /\ p \in K
      /\ \A n \in K : kids[n] \in Seq(K) /\ par[n] \in K \cup {None}
      /\ nodes \in Nat /\ K \subseteq 0 .. nodes - 1
  BY DEF IInv, TTypeOK
<1>3. /\ t \in K /\ t = kids[p][len] /\ len \in Nat \ {0} /\ DOMAIN kids[p] = 1 .. len
      /\ kids[p] # <<>>
  BY <1>1, <1>2, LastChild
<1>4. /\ front \in Seq(K) /\ Len(front) = len - 1 /\ DOMAIN front = 1 .. len - 1
      /\ \A i \in 1 .. len - 1 : front[i] = kids[p][i]
  BY <1>2, <1>3, Fronted
<1>5. /\ DOMAIN kids' = K \ {t} /\ DOMAIN par' = K \ {t} /\ DOMAIN lab' = K \ {t}
      /\ \A n \in K \ {t} : par'[n] = par[n] /\ lab'[n].type = lab[n].type
      /\ p # t => kids'[p] = front
      /\ \A n \in K \ {t, p} : kids'[n] = kids[n]
  BY <1>2, <1>3 DEF Removelast
<1> HIDE DEF t, len, front
<1>6. Root \in K /\ lab[Root].type = "ROOT" /\ Linked /\ \A n \in K : Older(n)
  BY <1>1, Facts DEF Shaped
<1>7. /\ \A n \in K : \A k \in DOMAIN kids[n] : kids[n][k] \in K /\ par[kids[n][k]] = n
      /\ \A n \in K : \A j, k \in DOMAIN kids[n] : kids[n][j] = kids[n][k] => j = k
      /\ \A n \in K : par[n] = None <=> n = Root
      /\ \A n \in K : n # Root => \E k \in DOMAIN kids[par[n]] : kids[par[n]][k] = n
  BY <1>2, <1>6 DEF Linked
<1>8. kids[t] = <<>> /\ DOMAIN kids[t] = {} /\ t # Root /\ t # p
  BY <1>1, <1>3, <1>6 DEF IInv, TreeWhole, LeavesBare
<1>9. par[t] = p
  BY <1>2, <1>3, <1>7
<1>10. \A n \in K : par[n] # t
  <2> SUFFICES ASSUME NEW n \in K, par[n] = t PROVE FALSE
    OBVIOUS
  <2>1. n # Root
    BY <1>2, <1>3, <1>7 DEF None
  <2> QED
    BY <2>1, <1>7, <1>8
\* No list of children has the text any more.
<1>11. ASSUME NEW n \in K \ {t}
       PROVE  /\ kids'[n] \in Seq(K)
              /\ DOMAIN kids'[n] \subseteq DOMAIN kids[n]
              /\ \A k \in DOMAIN kids'[n] : kids'[n][k] = kids[n][k] /\ kids[n][k] # t
  <2>1. CASE n = p
    <3>1. ASSUME NEW k \in 1 .. len - 1 PROVE kids[p][k] # t
      <4>1. k \in DOMAIN kids[p] /\ len \in DOMAIN kids[p] /\ k # len
        BY <1>3
      <4> QED
        BY <4>1, <1>2, <1>3, <1>7
    <3> QED
      BY <2>1, <3>1, <1>3, <1>4, <1>5, <1>8
  <2>2. CASE n # p
    BY <2>2, <1>2, <1>5, <1>7, <1>9
  <2> QED
    BY <2>1, <2>2
<1>12. \A n \in K \ {t} : kids'[n] \in Seq(K \ {t})
  <2> TAKE n \in K \ {t}
  <2>1. \A k \in DOMAIN kids'[n] : kids'[n][k] \in K \ {t}
    BY <1>7, <1>11
  <2> QED
    BY <2>1, <1>11, Retyped
<1>13. Linked'
  <2>1. ASSUME NEW n \in K \ {t}, NEW k \in DOMAIN kids'[n]
        PROVE  kids'[n][k] \in K \ {t} /\ par'[kids'[n][k]] = n
    BY <1>5, <1>7, <1>11
  <2>2. ASSUME NEW n \in K \ {t}, NEW j \in DOMAIN kids'[n], NEW k \in DOMAIN kids'[n],
               kids'[n][j] = kids'[n][k]
        PROVE  j = k
    BY <2>2, <1>7, <1>11
  <2>3. ASSUME NEW n \in K \ {t} PROVE par'[n] = None <=> n = Root
    BY <1>5, <1>7
  <2>4. ASSUME NEW n \in K \ {t}, n # Root
        PROVE  \E k \in DOMAIN kids'[par'[n]] : kids'[par'[n]][k] = n
    <3>1. par'[n] = par[n] /\ par[n] \in K \ {t}
      BY <2>4, <1>2, <1>5, <1>7, <1>10
    <3>2. PICK k \in DOMAIN kids[par[n]] : kids[par[n]][k] = n
      BY <2>4, <1>7
    <3>3. k \in DOMAIN kids'[par[n]]
      <4>1. CASE par[n] = p
        BY <4>1, <3>2, <1>3, <1>4, <1>5, <1>8
      <4>2. CASE par[n] # p
        BY <4>2, <3>1, <3>2, <1>5
      <4> QED
        BY <4>1, <4>2
    <3> QED
      BY <3>1, <3>2, <3>3, <1>11
  <2> QED
    BY <2>1, <2>2, <2>3, <2>4, <1>5 DEF Linked
<1>14. ASSUME NEW n \in K \ {t} PROVE Older(n)'
  <2>1. n = Root \/ par[n] \in K \ {t}
    BY <1>2, <1>7, <1>10
  <2> QED
    BY <2>1, <1>5, <1>6 DEF Older
<1>15. \A j \in DOMAIN held : held[j] \in K \ {t}
  BY <1>1 DEF IInv, TreeWhole, LeavesBare, Leaves, TTypeOK
<1>16. StackIsPath' /\ HeldOnce' /\ held' \in Seq(DOMAIN kids') /\ depth' \in Nat
  BY <1>1, <1>5, <1>15, HeldSame
<1>17. LeavesBare'
  <2>1. ASSUME NEW n \in K \ {t}, lab'[n].type = "NORMAL_TEXT" PROVE kids'[n] = <<>>
    <3>1. kids[n] = <<>> /\ n # p
      BY <2>1, <1>3, <1>5 DEF IInv, TreeWhole, LeavesBare
    <3> QED
      BY <3>1, <1>5
  <2>2. ASSUME NEW n \in K \ {t}, lab'[n].type = "META", NEW k \in DOMAIN kids'[n]
        PROVE  lab'[kids'[n][k]].type = "NORMAL_TEXT"
    <3>1. lab[n].type = "META" /\ k \in DOMAIN kids[n]
      BY <2>2, <1>5, <1>11
    <3>2. lab[kids[n][k]].type = "NORMAL_TEXT"
      BY <3>1 DEF IInv, TreeWhole, LeavesBare
    <3>3. kids'[n][k] = kids[n][k] /\ kids[n][k] \in K \ {t}
      BY <3>1, <2>2, <1>7, <1>11
    <3> QED
      BY <3>2, <3>3, <1>5
  <2>3. ASSUME NEW j \in DOMAIN held' PROVE lab'[held'[j]].type \notin Leaves
    BY <1>1, <1>5, <1>15 DEF IInv, TreeWhole, LeavesBare
  <2> QED
    BY <2>1, <2>2, <2>3, <1>5 DEF LeavesBare
<1>18. TTypeOK'
  <2>1. \A n \in K \ {t} : par'[n] \in (K \ {t}) \cup {None}
    BY <1>2, <1>5, <1>10
  <2> QED
    BY <2>1, <1>1, <1>2, <1>5, <1>12, <1>16 DEF TTypeOK, IInv
<1> QED
  BY <1>5, <1>6, <1>8, <1>13, <1>14, <1>16, <1>17, <1>18 DEF IInv, TreeWhole

(***************************************************************************)
(* The paragraph that becomes a title is not held, nor is a definition     *)
(* list before it, as both are children of the current node.               *)
(***************************************************************************)
LEMMA TitleFacts ==
  ASSUME IInv, phase = "parsing",
         Last_child(current) # None, lab[Last_child(current)].type = "PARAGRAPH"
  PROVE  LET t == Last_child(current)
             k == Len(kids[current])
         IN  /\ t \in DOMAIN kids /\ t # Root /\ t # current /\ par[t] = current /\ current < t
             /\ k \in Nat \ {0} /\ DOMAIN kids[current] = 1 .. k
             /\ kids[current] # <<>> /\ kids[current][k] = t
             /\ \A i \in 1 .. k - 1 : kids[current][i] # t
             /\ \A n \in DOMAIN kids \ {current} : \A i \in DOMAIN kids[n] : kids[n][i] # t
             /\ \A j \in DOMAIN held : held[j] # t
<1> DEFINE t == Last_child(current)
           k == Len(kids[current])
<1>1. current \in DOMAIN kids /\ Shaped
  BY Facts
<1>2. /\ t \in DOMAIN kids /\ t = kids[current][k] /\ k \in Nat \ {0}
      /\ DOMAIN kids[current] = 1 .. k /\ kids[current] # <<>>
  BY <1>1, LastChild
<1>3. lab[t].type = "PARAGRAPH"
  OBVIOUS
<1> HIDE DEF t, k
<1>4. t # Root /\ par[t] = current /\ current < t /\ t # current
  BY <1>1, <1>2, <1>3, Facts DEF Shaped, Linked, Older
<1>5. ASSUME NEW i \in 1 .. k - 1 PROVE kids[current][i] # t
  <2>1. i \in DOMAIN kids[current] /\ k \in DOMAIN kids[current] /\ i # k
    BY <1>2
  <2> QED
    BY <2>1, <1>1, <1>2 DEF Shaped, Linked
<1>6. ASSUME NEW n \in DOMAIN kids \ {current}, NEW i \in DOMAIN kids[n] PROVE kids[n][i] # t
  BY <1>1, <1>4 DEF Shaped, Linked
<1>7. \A j \in DOMAIN held : held[j] # t
  BY <1>2, <1>4, ChildNotHeld
<1> QED
  BY <1>2, <1>4, <1>5, <1>6, <1>7 DEF t, k

LEMMA RetitleInv == ASSUME NEW d, IInv, Retitle(d) PROVE IInv'
<1> DEFINE K == DOMAIN kids
           t == Last_child(current)
           k == Len(kids[current])
           front == SubSeq(kids[current], 1, k - 1)
           more == Append(kids[d], t)
           len == Len(kids[d])
<1>1. /\ phase = "parsing" /\ t # None /\ lab[t].type = "PARAGRAPH"
      /\ k > 1 /\ d = kids[current][k - 1] /\ lab[d].type = "DEFINITION"
      /\ current' = d /\ depth' = depth + 1 /\ held' = Append(held, d)
      /\ UNCHANGED <<nodes, maxdepth, phase>>
  BY DEF Retitle
<1>2. /\ DOMAIN par = K /\ DOMAIN lab = K /\ current \in K
      /\ \A n \in K : kids[n] \in Seq(K) /\ par[n] \in K \cup {None}
      /\ nodes \in Nat /\ K \subseteq 0 .. nodes - 1
  BY <1>1, Facts DEF IInv, TTypeOK
<1>3. /\ t \in K /\ t # Root /\ t # current /\ par[t] = current /\ current < t
      /\ k \in Nat \ {0} /\ DOMAIN kids[current] = 1 .. k
      /\ kids[current] # <<>> /\ kids[current][k] = t
      /\ \A i \in 1 .. k - 1 : kids[current][i] # t
      /\ \A n \in K \ {current} : \A i \in DOMAIN kids[n] : kids[n][i] # t
      /\ \A j \in DOMAIN held : held[j] # t
  BY <1>1, TitleFacts
<1>4. /\ front \in Seq(K) /\ Len(front) = k - 1 /\ DOMAIN front = 1 .. k - 1
      /\ \A i \in 1 .. k - 1 : front[i] = kids[current][i]
  BY <1>2, <1>3, Fronted
<1>5. /\ DOMAIN kids' = K /\ DOMAIN par' = K /\ DOMAIN lab' = K
      /\ par'[t] = d /\ \A n \in K \ {t} : par'[n] = par[n]
      /\ kids'[current] = front
      /\ d # current /\ d \in K => kids'[d] = more
      /\ \A n \in K \ {current, d} : kids'[n] = kids[n]
  BY <1>2, <1>3 DEF Retitle, Titled
<1>6. lab'[t].type = "DEFINITION_TITLE" /\ \A n \in K \ {t} : lab'[n] = lab[n]
  BY <1>2, <1>3 DEF Retitle, Titled, Label
<1> HIDE DEF t, k, front
<1>7. Root \in K /\ lab[Root].type = "ROOT" /\ Linked /\ \A n \in K : Older(n)
  BY <1>1, Facts DEF Shaped
<1>8. /\ \A n \in K : \A i \in DOMAIN kids[n] : kids[n][i] \in K /\ par[kids[n][i]] = n
      /\ \A n \in K : \A i, j \in DOMAIN kids[n] : kids[n][i] = kids[n][j] => i = j
      /\ \A n \in K : par[n] = None <=> n = Root
      /\ \A n \in K : n # Root => \E i \in DOMAIN kids[par[n]] : kids[par[n]][i] = n
  BY <1>2, <1>7 DEF Linked
<1>9. d \in K /\ d # t /\ d # Root /\ par[d] = current /\ d # current
  <2>1. k - 1 \in 1 .. k - 1 /\ k - 1 \in DOMAIN kids[current]
    BY <1>1, <1>3
  <2>2. d \in K /\ par[d] = current /\ d # t /\ d # Root
    BY <2>1, <1>1, <1>2, <1>3, <1>7, <1>8
  <2> QED
    BY <2>2, <1>1, Facts
<1>10. /\ more \in Seq(K) /\ len \in Nat /\ DOMAIN kids[d] = 1 .. len
       /\ DOMAIN more = 1 .. len + 1 /\ more[len + 1] = t
       /\ \A i \in 1 .. len : more[i] = kids[d][i]
  BY <1>2, <1>3, <1>9, Appended
<1> HIDE DEF more, len
<1>11. ASSUME NEW n \in K PROVE kids'[n] \in Seq(K)
  <2>1. CASE n = current
    BY <2>1, <1>4, <1>5
  <2>2. CASE n = d
    BY <2>2, <1>5, <1>9, <1>10
  <2>3. CASE n \notin {current, d}
    BY <2>3, <1>2, <1>5
  <2> QED
    BY <2>1, <2>2, <2>3
<1>12. ASSUME NEW n \in K, NEW i \in DOMAIN kids'[n]
       PROVE  \/ n = d /\ i = len + 1 /\ kids'[n][i] = t
              \/ i \in DOMAIN kids[n] /\ kids'[n][i] = kids[n][i] /\ kids[n][i] # t
  <2>1. CASE n = current
    BY <2>1, <1>3, <1>4, <1>5
  <2>2. CASE n = d
    BY <2>2, <1>3, <1>5, <1>9, <1>10
  <2>3. CASE n \notin {current, d}
    BY <2>3, <1>3, <1>5
  <2> QED
    BY <2>1, <2>2, <2>3
<1>13. Linked'
  <2>1. ASSUME NEW n \in K, NEW i \in DOMAIN kids'[n]
        PROVE  kids'[n][i] \in K /\ par'[kids'[n][i]] = n
    BY <1>3, <1>5, <1>8, <1>12
  <2>2. ASSUME NEW n \in K, NEW i \in DOMAIN kids'[n], NEW j \in DOMAIN kids'[n],
               kids'[n][i] = kids'[n][j]
        PROVE  i = j
    <3>1. CASE kids'[n][i] = t
      BY <3>1, <2>2, <1>12
    <3>2. CASE kids'[n][i] # t
      BY <3>2, <2>2, <1>8, <1>12
    <3> QED
      BY <3>1, <3>2
  <2>3. ASSUME NEW n \in K PROVE par'[n] = None <=> n = Root
    BY <1>2, <1>3, <1>5, <1>8, <1>9 DEF None
  <2>4. ASSUME NEW n \in K, n # Root
        PROVE  \E i \in DOMAIN kids'[par'[n]] : kids'[par'[n]][i] = n
    <3>1. CASE n = t
      BY <3>1, <1>5, <1>9, <1>10
    <3>2. CASE n # t
      <4>1. par'[n] = par[n] /\ par[n] \in K
        BY <2>4, <3>2, <1>2, <1>5, <1>8
      <4>2. PICK i \in DOMAIN kids[par[n]] : kids[par[n]][i] = n
        BY <2>4, <1>8
      <4>3. i \in DOMAIN kids'[par[n]] /\ kids'[par[n]][i] = n
        <5>1. CASE par[n] = current
          <6>1. i \in 1 .. k - 1
            BY <5>1, <4>2, <3>2, <1>3
          <6> QED
            BY <5>1, <6>1, <4>2, <1>4, <1>5
        <5>2. CASE par[n] = d
          BY <5>2, <4>2, <1>5, <1>9, <1>10
        <5>3. CASE par[n] \notin {current, d}
          BY <5>3, <4>1, <4>2, <1>5
        <5> QED
          BY <5>1, <5>2, <5>3
      <4> QED
        BY <4>1, <4>3
    <3> QED
      BY <3>1, <3>2
  <2> QED
    BY <2>1, <2>2, <2>3, <2>4, <1>5 DEF Linked
<1>14. ASSUME NEW n \in K PROVE Older(n)'
  <2>1. CASE n = t
    BY <2>1, <1>1, <1>3, <1>5, <1>6, <1>9 DEF Older
  <2>2. CASE n # t /\ lab[n].type = "DEFINITION_TITLE"
    <3>1. lab[par[n]].type = "DEFINITION" /\ par[par[n]] < n
      BY <2>2, <1>7 DEF Older
    <3>2. par[n] \in K \ {t}
      BY <2>2, <3>1, <1>1, <1>2, <1>7, <1>8
    <3> QED
      BY <2>2, <3>1, <3>2, <1>5, <1>6 DEF Older
  <2>3. CASE n # t /\ lab[n].type # "DEFINITION_TITLE"
    BY <2>3, <1>5, <1>6, <1>7 DEF Older
  <2> QED
    BY <2>1, <2>2, <2>3
<1>15. \A j \in DOMAIN held : held[j] \in K \ {d, t}
  <2>1. \A j \in DOMAIN held : held[j] # d
    BY <1>1, <1>9, ChildNotHeld
  <2> QED
    BY <2>1, <1>3 DEF IInv, TTypeOK
<1>16. /\ StackIsPath' /\ HeldOnce' /\ held' \in Seq(DOMAIN kids') /\ depth' \in Nat
       /\ \A j \in DOMAIN held' : held'[j] = d \/ \E i \in DOMAIN held : held'[j] = held[i]
  BY <1>1, <1>5, <1>9, <1>15, HeldGrows
<1>17. LeavesBare'
  <2>1. ASSUME NEW n \in K, lab'[n].type = "NORMAL_TEXT" PROVE kids'[n] = <<>>
    <3>1. n \notin {t, d, current} /\ lab[n].type = "NORMAL_TEXT"
      BY <2>1, <1>1, <1>6, <1>9, Facts DEF Leaves
    <3> QED
      BY <3>1, <1>5 DEF IInv, TreeWhole, LeavesBare
  <2>2. ASSUME NEW n \in K, lab'[n].type = "META", NEW i \in DOMAIN kids'[n]
        PROVE  lab'[kids'[n][i]].type = "NORMAL_TEXT"
    <3>1. n \notin {t, d, current} /\ lab[n].type = "META"
      BY <2>2, <1>1, <1>6, <1>9, Facts DEF Leaves
    <3>2. lab[kids[n][i]].type = "NORMAL_TEXT" /\ kids'[n][i] = kids[n][i] /\ kids[n][i] \in K \ {t}
      BY <3>1, <2>2, <1>8, <1>12 DEF IInv, TreeWhole, LeavesBare
    <3> QED
      BY <3>2, <1>6
  <2>3. ASSUME NEW j \in DOMAIN held' PROVE lab'[held'[j]].type \notin Leaves
    <3>1. CASE held'[j] = d
      BY <3>1, <1>1, <1>6, <1>9 DEF Leaves
    <3>2. CASE \E i \in DOMAIN held : held'[j] = held[i]
      BY <3>2, <1>6, <1>15 DEF IInv, TreeWhole, LeavesBare
    <3> QED
      BY <3>1, <3>2, <1>16
  <2> QED
    BY <2>1, <2>2, <2>3, <1>5 DEF LeavesBare
<1>18. TTypeOK'
  <2>1. \A n \in K : par'[n] \in K \cup {None}
    BY <1>2, <1>5, <1>9
  <2> QED
    BY <2>1, <1>1, <1>2, <1>5, <1>11, <1>16 DEF TTypeOK, IInv
<1> QED
  BY <1>3, <1>5, <1>6, <1>7, <1>13, <1>14, <1>16, <1>17, <1>18 DEF IInv, TreeWhole

LEMMA EntitleInv == ASSUME NEW l, IInv, Entitle(l), l = lab'[nodes] PROVE IInv'
<1> DEFINE K == DOMAIN kids
           d == nodes
           t == Last_child(current)
           k == Len(kids[current])
           swapped == [kids[current] EXCEPT ![k] = d]
<1>1. /\ phase = "parsing" /\ t # None /\ lab[t].type = "PARAGRAPH"
      /\ l.type = "DEFINITION" /\ nodes' = nodes + 1
      /\ current' = d /\ depth' = depth + 1 /\ held' = Append(held, d)
      /\ UNCHANGED <<maxdepth, phase>>
  BY DEF Entitle
<1>2. /\ DOMAIN par = K /\ DOMAIN lab = K /\ current \in K
      /\ \A n \in K : kids[n] \in Seq(K) /\ par[n] \in K \cup {None}
      /\ nodes \in Nat /\ K \subseteq 0 .. nodes - 1
      /\ \A n \in K : n \in Nat /\ n < d
      /\ d \notin K
  BY <1>1, Facts DEF IInv, TTypeOK
<1>3. /\ t \in K /\ t # Root /\ t # current /\ par[t] = current /\ current < t
      /\ k \in Nat \ {0} /\ DOMAIN kids[current] = 1 .. k
      /\ kids[current] # <<>> /\ kids[current][k] = t
      /\ \A i \in 1 .. k - 1 : kids[current][i] # t
      /\ \A n \in K \ {current} : \A i \in DOMAIN kids[n] : kids[n][i] # t
      /\ \A j \in DOMAIN held : held[j] # t
  BY <1>1, TitleFacts
<1>4. /\ DOMAIN kids' = K \cup {d} /\ DOMAIN par' = K \cup {d} /\ DOMAIN lab' = K \cup {d}
      /\ par'[t] = d /\ par'[d] = current /\ \A n \in K \ {t} : par'[n] = par[n]
      /\ kids'[d] = <<t>> /\ kids'[current] = swapped
      /\ \A n \in K \ {current} : kids'[n] = kids[n]
  BY <1>2, <1>3 DEF Entitle
<1>5. /\ lab'[d].type = "DEFINITION"
      /\ lab'[t].type = "DEFINITION_TITLE"
      /\ \A n \in K \ {t} : lab'[n] = lab[n]
  BY <1>1, <1>2, <1>3 DEF Entitle, Titled, Label
<1>6. /\ swapped \in Seq(K \cup {d}) /\ DOMAIN swapped = 1 .. k /\ swapped[k] = d
      /\ \A i \in 1 .. k - 1 : swapped[i] = kids[current][i]
  <2>1. kids[current] \in Seq(K \cup {d})
    BY <1>2, Retyped
  <2> QED
    BY <2>1, <1>3, ExceptSeq
<1> HIDE DEF t, k, d, swapped
<1>7. Root \in K /\ lab[Root].type = "ROOT" /\ Linked /\ \A n \in K : Older(n)
  BY <1>1, Facts DEF Shaped
<1>8. /\ \A n \in K : \A i \in DOMAIN kids[n] : kids[n][i] \in K /\ par[kids[n][i]] = n
      /\ \A n \in K : \A i, j \in DOMAIN kids[n] : kids[n][i] = kids[n][j] => i = j
      /\ \A n \in K : par[n] = None <=> n = Root
      /\ \A n \in K : n # Root => \E i \in DOMAIN kids[par[n]] : kids[par[n]][i] = n
  BY <1>2, <1>7 DEF Linked
<1>9. kids'[d] \in Seq(K \cup {d}) /\ DOMAIN kids'[d] = {1} /\ kids'[d][1] = t
  BY <1>3, <1>4
<1>10. ASSUME NEW n \in K \cup {d} PROVE kids'[n] \in Seq(K \cup {d})
  <2>1. CASE n = current
    BY <2>1, <1>4, <1>6
  <2>2. CASE n \in K \ {current}
    BY <2>2, <1>2, <1>4, Retyped
  <2> QED
    BY <2>1, <2>2, <1>9
<1>11. ASSUME NEW n \in K, NEW i \in DOMAIN kids'[n]
       PROVE  \/ n = current /\ i = k /\ kids'[n][i] = d
              \/ i \in DOMAIN kids[n] /\ kids'[n][i] = kids[n][i] /\ kids[n][i] # t
  <2>1. CASE n = current
    <3>1. kids'[n] = swapped /\ i \in 1 .. k
      BY <2>1, <1>4, <1>6
    <3> QED
      BY <3>1, <2>1, <1>3, <1>6
  <2>2. CASE n # current
    BY <2>2, <1>3, <1>4
  <2> QED
    BY <2>1, <2>2
<1>12. Linked'
  <2>1. ASSUME NEW n \in K \cup {d}, NEW i \in DOMAIN kids'[n]
        PROVE  kids'[n][i] \in K \cup {d} /\ par'[kids'[n][i]] = n
    <3>1. CASE n = d
      BY <3>1, <1>3, <1>4, <1>9
    <3>2. CASE n \in K
      BY <3>2, <1>4, <1>8, <1>11
    <3> QED
      BY <3>1, <3>2
  <2>2. ASSUME NEW n \in K \cup {d}, NEW i \in DOMAIN kids'[n], NEW j \in DOMAIN kids'[n],
               kids'[n][i] = kids'[n][j]
        PROVE  i = j
    <3>1. CASE n = d
      BY <3>1, <1>9
    <3>2. CASE n \in K /\ kids'[n][i] = d
      <4>1. ASSUME NEW h \in DOMAIN kids'[n], kids'[n][h] = d PROVE h = k
        BY <3>2, <4>1, <1>2, <1>8, <1>11
      <4> QED
        BY <4>1, <3>2, <2>2
    <3>3. CASE n \in K /\ kids'[n][i] # d
      BY <3>3, <2>2, <1>8, <1>11
    <3> QED
      BY <3>1, <3>2, <3>3
  <2>3. ASSUME NEW n \in K \cup {d} PROVE par'[n] = None <=> n = Root
    BY <1>2, <1>3, <1>4, <1>7, <1>8 DEF None
  <2>4. ASSUME NEW n \in K \cup {d}, n # Root
        PROVE  \E i \in DOMAIN kids'[par'[n]] : kids'[par'[n]][i] = n
    <3>1. CASE n = t
      BY <3>1, <1>4, <1>9
    <3>2. CASE n = d
      BY <3>2, <1>3, <1>4, <1>6
    <3>3. CASE n \in K \ {t}
      <4>1. par'[n] = par[n] /\ par[n] \in K
        BY <2>4, <3>3, <1>2, <1>4, <1>8
      <4>2. PICK i \in DOMAIN kids[par[n]] : kids[par[n]][i] = n
        BY <2>4, <3>3, <1>8
      <4>3. i \in DOMAIN kids'[par[n]] /\ kids'[par[n]][i] = n
        <5>1. CASE par[n] = current
          <6>1. i \in 1 .. k - 1
            BY <5>1, <4>2, <3>3, <1>3
          <6> QED
            BY <5>1, <6>1, <4>2, <1>3, <1>4, <1>6
        <5>2. CASE par[n] # current
          BY <5>2, <4>1, <4>2, <1>4
        <5> QED
          BY <5>1, <5>2
      <4> QED
        BY <4>1, <4>3
    <3> QED
      BY <3>1, <3>2, <3>3
  <2> QED
    BY <2>1, <2>2, <2>3, <2>4, <1>4 DEF Linked
<1>13. ASSUME NEW n \in K \cup {d} PROVE Older(n)'
  <2>1. CASE n = t
    BY <2>1, <1>3, <1>4, <1>5 DEF Older
  <2>2. CASE n = d
    BY <2>2, <1>2, <1>4, <1>5 DEF Older
  <2>3. CASE n \in K \ {t} /\ lab[n].type = "DEFINITION_TITLE"
    <3>1. lab[par[n]].type = "DEFINITION" /\ par[par[n]] < n
      BY <2>3, <1>7 DEF Older
    <3>2. par[n] \in K \ {t}
      BY <2>3, <3>1, <1>1, <1>2, <1>7, <1>8 DEF t
    <3> QED
      BY <2>3, <3>1, <3>2, <1>4, <1>5 DEF Older
  <2>4. CASE n \in K \ {t} /\ lab[n].type # "DEFINITION_TITLE"
    BY <2>4, <1>4, <1>5, <1>7 DEF Older
  <2> QED
    BY <2>1, <2>2, <2>3, <2>4
<1>14. \A j \in DOMAIN held : held[j] \in K \ {t} /\ held[j] # d
  BY <1>2, <1>3 DEF IInv, TTypeOK
<1>15. /\ StackIsPath' /\ HeldOnce' /\ held' \in Seq(DOMAIN kids') /\ depth' \in Nat
       /\ \A j \in DOMAIN held' : held'[j] = d \/ \E i \in DOMAIN held : held'[j] = held[i]
  BY <1>1, <1>4, <1>14, HeldGrows
<1>16. LeavesBare'
  <2>1. ASSUME NEW n \in K \cup {d}, lab'[n].type = "NORMAL_TEXT" PROVE kids'[n] = <<>>
    <3>1. n \in K \ {t, current} /\ lab[n].type = "NORMAL_TEXT"
      BY <2>1, <1>1, <1>3, <1>5, Facts DEF Leaves
    <3> QED
      BY <3>1, <1>4 DEF IInv, TreeWhole, LeavesBare
  <2>2. ASSUME NEW n \in K \cup {d}, lab'[n].type = "META", NEW i \in DOMAIN kids'[n]
        PROVE  lab'[kids'[n][i]].type = "NORMAL_TEXT"
    <3>1. n \in K \ {t, current} /\ lab[n].type = "META"
      BY <2>2, <1>1, <1>3, <1>5, Facts DEF Leaves
    <3>2. lab[kids[n][i]].type = "NORMAL_TEXT" /\ kids'[n][i] = kids[n][i] /\ kids[n][i] \in K \ {t}
      BY <3>1, <2>2, <1>8, <1>11 DEF IInv, TreeWhole, LeavesBare
    <3> QED
      BY <3>2, <1>5
  <2>3. ASSUME NEW j \in DOMAIN held' PROVE lab'[held'[j]].type \notin Leaves
    <3>1. CASE held'[j] = d
      BY <3>1, <1>5 DEF Leaves
    <3>2. CASE \E i \in DOMAIN held : held'[j] = held[i]
      BY <3>2, <1>5, <1>14 DEF IInv, TreeWhole, LeavesBare
    <3> QED
      BY <3>1, <3>2, <1>15
  <2> QED
    BY <2>1, <2>2, <2>3, <1>4 DEF LeavesBare
<1>17. TTypeOK'
  <2>1. \A n \in K \cup {d} : par'[n] \in (K \cup {d}) \cup {None}
    BY <1>2, <1>4
  <2>2. K \cup {d} \subseteq 0 .. nodes' - 1 /\ nodes' \in Nat
    BY <1>1, <1>2 DEF d
  <2> QED
    BY <2>1, <2>2, <1>1, <1>4, <1>10, <1>15 DEF TTypeOK, IInv
<1> QED
  BY <1>3, <1>4, <1>5, <1>7, <1>12, <1>13, <1>15, <1>16, <1>17 DEF IInv, TreeWhole

(***************************************************************************)
(* A sequence without its k-th element.                                    *)
(***************************************************************************)
Without(s, k) == [j \in 1 .. Len(s) - 1 |-> s[IF j < k THEN j ELSE j + 1]]

LEMMA Dropped ==
  ASSUME NEW S, NEW s \in Seq(S), NEW k \in 1 .. Len(s)
  PROVE  /\ Without(s, k) \in Seq(S) /\ DOMAIN Without(s, k) = 1 .. Len(s) - 1
         /\ \A j \in DOMAIN Without(s, k) : \E i \in DOMAIN s : i # k /\ Without(s, k)[j] = s[i]
         /\ \A i \in DOMAIN s : i # k => \E j \in DOMAIN Without(s, k) : Without(s, k)[j] = s[i]
         /\ (\A i, j \in DOMAIN s : s[i] = s[j] => i = j) =>
              \A i, j \in DOMAIN Without(s, k) : Without(s, k)[i] = Without(s, k)[j] => i = j
<1> DEFINE f == Without(s, k)
<1>1. Len(s) \in Nat /\ Len(s) - 1 \in Nat /\ DOMAIN s = 1 .. Len(s)
  OBVIOUS
<1>2. DOMAIN f = 1 .. Len(s) - 1 /\ f = [j \in 1 .. Len(s) - 1 |-> f[j]]
  BY DEF Without
<1>3. \A j \in 1 .. Len(s) - 1 : f[j] = s[IF j < k THEN j ELSE j + 1]
  BY DEF Without
<1> HIDE DEF f
<1>4. ASSUME NEW j \in 1 .. Len(s) - 1
      PROVE  \E i \in 1 .. Len(s) : i # k /\ f[j] = s[i] /\ i = IF j < k THEN j ELSE j + 1
  <2>1. (IF j < k THEN j ELSE j + 1) \in 1 .. Len(s)
    BY <1>1
  <2> QED
    BY <2>1, <1>1, <1>3
<1>5. ASSUME NEW i \in 1 .. Len(s), i # k PROVE \E j \in 1 .. Len(s) - 1 : f[j] = s[i]
  <2>1. CASE i < k
    <3>1. i \in 1 .. Len(s) - 1
      BY <2>1, <1>1
    <3> QED
      BY <2>1, <3>1, <1>3
  <2>2. CASE i > k
    <3>1. i - 1 \in 1 .. Len(s) - 1 /\ ~(i - 1 < k) /\ (i - 1) + 1 = i
      BY <2>2, <1>1
    <3> QED
      BY <3>1, <1>3
  <2> QED
    BY <2>1, <2>2, <1>5, <1>1
<1>6. f \in Seq(S)
  <2>1. \A j \in 1 .. Len(s) - 1 : f[j] \in S
    BY <1>1, <1>4
  <2>2. f \in [1 .. Len(s) - 1 -> S]
    BY <2>1, <1>2
  <2> QED
    BY <2>2, <1>1, SeqDef
<1>8. ASSUME \A i, j \in 1 .. Len(s) : s[i] = s[j] => i = j,
             NEW i \in 1 .. Len(s) - 1, NEW j \in 1 .. Len(s) - 1, f[i] = f[j]
      PROVE  i = j
  <2>1. PICK g \in 1 .. Len(s) : f[i] = s[g] /\ g = IF i < k THEN i ELSE i + 1
    BY <1>4
  <2>2. PICK h \in 1 .. Len(s) : f[j] = s[h] /\ h = IF j < k THEN j ELSE j + 1
    BY <1>4
  <2>3. g = h
    BY <2>1, <2>2, <1>8
  <2> QED
    BY <2>1, <2>2, <2>3, <1>1
<1>9. \A j \in DOMAIN f : \E i \in DOMAIN s : i # k /\ f[j] = s[i]
  BY <1>1, <1>2, <1>4
<1>10. \A i \in DOMAIN s : i # k => \E j \in DOMAIN f : f[j] = s[i]
  BY <1>1, <1>2, <1>5
<1>11. (\A i, j \in DOMAIN s : s[i] = s[j] => i = j) =>
         \A i, j \in DOMAIN f : f[i] = f[j] => i = j
  BY <1>1, <1>2, <1>8
<1> QED
  BY <1>2, <1>6, <1>9, <1>10, <1>11 DEF f

(***************************************************************************)
(* A metadata node is replaced: what goes is the node and its texts, which *)
(* have no children, so that no other node loses its parent.               *)
(***************************************************************************)
LEMMA PutmetaInv ==
  ASSUME NEW k, NEW l, NEW text, IInv, Putmeta(k, l, text)
  PROVE  IInv'
<1> DEFINE K == DOMAIN kids
           c == current
           cs == kids[c]
           old == IF k = 0 THEN {} ELSE {cs[k]}
           gone == old \cup UNION {{kids[o][j] : j \in DOMAIN kids[o]} : o \in old}
           kept == K \ gone
           a == nodes
           b == nodes + 1
           new == IF text = <<>> THEN {a} ELSE {a, b}
           left == IF k = 0 THEN cs
                   ELSE [j \in 1 .. Len(cs) - 1 |-> cs[IF j < k THEN j ELSE j + 1]]
           K1 == kept \cup new
<1>1. /\ phase = "parsing" /\ l.type = "META"
      /\ k \in 0 .. Len(cs) /\ (k # 0 => lab[cs[k]].type = "META")
      /\ nodes' = nodes + (IF text = <<>> THEN 1 ELSE 2)
      /\ UNCHANGED <<current, depth, held, maxdepth, phase>>
  BY DEF Putmeta
<1>2. /\ DOMAIN par = K /\ DOMAIN lab = K /\ c \in K
      /\ \A n \in K : kids[n] \in Seq(K) /\ par[n] \in K \cup {None}
      /\ nodes \in Nat /\ K \subseteq 0 .. nodes - 1
      /\ \A n \in K : n \in Nat /\ n < a
      /\ a \notin K /\ b \notin K
      /\ lab[c].type \notin Leaves
  BY <1>1, Facts DEF IInv, TTypeOK
<1>3. /\ DOMAIN kids' = K1 /\ DOMAIN par' = K1 /\ DOMAIN lab' = K1
      /\ kids' = [n \in K1 |-> IF n = c THEN Append(left, a)
                               ELSE IF n \in kept THEN kids[n]
                               ELSE IF n = a /\ text # <<>> THEN <<b>> ELSE <<>>]
      /\ par' = [n \in K1 |-> IF n \in kept THEN par[n] ELSE IF n = a THEN c ELSE a]
      /\ lab' = [n \in K1 |-> IF n \in kept THEN lab[n] ELSE IF n = a THEN l ELSE Text({}, text)]
  BY <1>2 DEF Putmeta, Metadata_ids
<1>4. Root \in K /\ lab[Root].type = "ROOT" /\ Linked /\ \A n \in K : Older(n)
  BY <1>1, Facts DEF Shaped
<1>5. /\ \A n \in K : \A i \in DOMAIN kids[n] : kids[n][i] \in K /\ par[kids[n][i]] = n
      /\ \A n \in K : \A i, j \in DOMAIN kids[n] : kids[n][i] = kids[n][j] => i = j
      /\ \A n \in K : par[n] = None <=> n = Root
      /\ \A n \in K : n # Root => \E i \in DOMAIN kids[par[n]] : kids[par[n]][i] = n
  BY <1>2, <1>4 DEF Linked
<1>6. cs \in Seq(K) /\ DOMAIN cs = 1 .. Len(cs) /\ Len(cs) \in Nat
  BY <1>2
\* What goes: the child and its texts.
<1>7. ASSUME NEW x
      PROVE  x \in gone <=> k # 0 /\ (x = cs[k] \/ \E j \in DOMAIN kids[cs[k]] : x = kids[cs[k]][j])
  OBVIOUS
<1> HIDE DEF K, c, cs, a, b, left, gone, old
<1>8. ASSUME NEW x \in gone
      PROVE  /\ k \in DOMAIN cs
             /\ x \in K /\ x # Root /\ x # c
             /\ lab[x].type \in Leaves
             /\ \A j \in DOMAIN kids[x] : kids[x][j] \in gone
             /\ x = cs[k] \/ (par[x] \in gone /\ par[x] # c)
  <2>1. k \in DOMAIN cs /\ cs[k] \in K /\ lab[cs[k]].type = "META"
    BY <1>1, <1>2, <1>5, <1>6, <1>7, <1>8 DEF cs
  <2>2. CASE x = cs[k]
    <3>1. ASSUME NEW j \in DOMAIN kids[x] PROVE kids[x][j] \in gone
      BY <2>2, <1>7, <1>8
    <3>2. x # c /\ x # Root /\ lab[x].type \in Leaves
      BY <2>1, <2>2, <1>2, <1>4 DEF Leaves
    <3> QED
      BY <2>1, <2>2, <3>1, <3>2
  <2>3. CASE \E j \in DOMAIN kids[cs[k]] : x = kids[cs[k]][j]
    <3>1. PICK j \in DOMAIN kids[cs[k]] : x = kids[cs[k]][j]
      BY <2>3
    <3>2. x \in K /\ par[x] = cs[k] /\ cs[k] \in gone
      BY <2>1, <3>1, <1>5, <1>7, <1>8
    <3>3. lab[x].type = "NORMAL_TEXT"
      BY <2>1, <3>1 DEF IInv, TreeWhole, LeavesBare, K
    <3>4. kids[x] = <<>> /\ DOMAIN kids[x] = {}
      BY <3>2, <3>3 DEF IInv, TreeWhole, LeavesBare, K
    <3> QED
      BY <2>1, <3>2, <3>3, <3>4, <1>2, <1>4 DEF Leaves
  <2> QED
    BY <2>2, <2>3, <1>7, <1>8
<1>9. c \in kept /\ Root \in kept /\ kept \subseteq K
  BY <1>2, <1>4, <1>8
<1>10. /\ a \in K1 /\ a \notin kept /\ b \notin kept /\ a # b /\ a # c /\ b # c
       /\ \A n \in K1 : n \in kept \/ n = a \/ (n = b /\ text # <<>>)
       /\ text # <<>> => b \in K1
  BY <1>2 DEF a, b
<1>11. /\ par'[a] = c /\ \A n \in kept : par'[n] = par[n] /\ lab'[n] = lab[n]
       /\ text # <<>> => par'[b] = a
       /\ lab'[a].type = "META" /\ (text # <<>> => lab'[b].type = "NORMAL_TEXT")
  BY <1>1, <1>3, <1>10 DEF Text, Label
<1>12. /\ kids'[c] = Append(left, a)
       /\ \A n \in kept \ {c} : kids'[n] = kids[n]
       /\ kids'[a] = (IF text # <<>> THEN <<b>> ELSE <<>>)
       /\ text # <<>> => kids'[b] = <<>>
  BY <1>3, <1>9, <1>10
\* The other children of the current node stay.
<1>13. /\ left \in Seq(K) /\ DOMAIN left = 1 .. Len(left) /\ Len(left) \in Nat
       /\ \A j \in DOMAIN left : \E i \in DOMAIN cs : i # k /\ left[j] = cs[i]
       /\ \A i \in DOMAIN cs : i # k => \E j \in DOMAIN left : left[j] = cs[i]
       /\ \A i, j \in DOMAIN left : left[i] = left[j] => i = j
  <2>1. \A i, j \in DOMAIN cs : cs[i] = cs[j] => i = j
    BY <1>2, <1>5 DEF cs
  <2>2. CASE k = 0
    <3>1. left = cs
      BY <2>2 DEF left
    <3> QED
      BY <2>1, <2>2, <3>1, <1>6
  <2>3. CASE k # 0
    <3>0. k \in 1 .. Len(cs) /\ Len(cs) - 1 \in Nat
      BY <2>3, <1>1, <1>6
    <3>1. left = Without(cs, k)
      BY <2>3 DEF left, Without
    <3>2. /\ left \in Seq(K)
          /\ \A j \in DOMAIN left : \E i \in DOMAIN cs : i # k /\ left[j] = cs[i]
          /\ \A i \in DOMAIN cs : i # k => \E j \in DOMAIN left : left[j] = cs[i]
          /\ (\A i, j \in DOMAIN cs : cs[i] = cs[j] => i = j) =>
               \A i, j \in DOMAIN left : left[i] = left[j] => i = j
      <4> DEFINE w == Without(cs, k)
      <4>1. /\ w \in Seq(K)
            /\ \A j \in DOMAIN w : \E i \in DOMAIN cs : i # k /\ w[j] = cs[i]
            /\ \A i \in DOMAIN cs : i # k => \E j \in DOMAIN w : w[j] = cs[i]
            /\ (\A i, j \in DOMAIN cs : cs[i] = cs[j] => i = j) =>
                 \A i, j \in DOMAIN w : w[i] = w[j] => i = j
        BY <3>0, <1>6, Dropped, Zenon
      <4> HIDE DEF w
      <4>2. left = w
        BY <3>1 DEF w
      <4> QED
        BY <4>1, <4>2
    <3> QED
      BY <2>1, <3>0, <3>2, <1>6
  <2> QED
    BY <2>2, <2>3
<1> DEFINE len == Len(left)
           more == Append(left, a)
<1>14. /\ DOMAIN more = 1 .. len + 1 /\ more[len + 1] = a /\ len \in Nat
       /\ \A i \in 1 .. len : more[i] = left[i]
       /\ more \in Seq(K \cup {a})
  BY <1>13, Appended
<1>15. ASSUME NEW i \in DOMAIN left
       PROVE  left[i] \in kept /\ par[left[i]] = c
  <2>1. PICK h \in DOMAIN cs : h # k /\ left[i] = cs[h]
    BY <1>13
  <2>2. cs[h] \in K /\ par[cs[h]] = c
    BY <1>2, <1>5 DEF cs
  <2>3. cs[h] \notin gone
    <3> SUFFICES ASSUME cs[h] \in gone PROVE FALSE
      OBVIOUS
    <3>1. k \in DOMAIN cs /\ cs[h] = cs[k]
      BY <2>2, <1>8
    <3> QED
      BY <2>1, <3>1, <1>2, <1>5 DEF cs
  <2> QED
    BY <2>1, <2>2, <2>3
<1> HIDE DEF len, more
<1>16. ASSUME NEW n \in kept \ {c}, NEW i \in DOMAIN kids[n]
       PROVE  kids[n][i] \in kept /\ par[kids[n][i]] = n
  <2>1. kids[n][i] \in K /\ par[kids[n][i]] = n
    BY <1>5, <1>9
  <2>2. kids[n][i] \notin gone
    <3> SUFFICES ASSUME kids[n][i] \in gone PROVE FALSE
      OBVIOUS
    <3>1. kids[n][i] = cs[k] /\ k \in DOMAIN cs
      BY <2>1, <1>8
    <3>2. par[cs[k]] = c
      BY <3>1, <1>2, <1>5 DEF cs
    <3> QED
      BY <2>1, <3>1, <3>2
  <2> QED
    BY <2>1, <2>2
<1>17. ASSUME NEW n \in K1
       PROVE  /\ kids'[n] \in Seq(K1)
              /\ \A i \in DOMAIN kids'[n] : par'[kids'[n][i]] = n
              /\ \A i, j \in DOMAIN kids'[n] : kids'[n][i] = kids'[n][j] => i = j
  <2>1. CASE n = c
    <3>1. kids'[n] = more /\ DOMAIN kids'[n] = 1 .. len + 1
      BY <2>1, <1>12, <1>14 DEF more
    <3>2. \A i \in 1 .. len : more[i] \in kept /\ par[more[i]] = c
      BY <1>13, <1>14, <1>15 DEF len
    <3>3. \A i \in 1 .. len + 1 : more[i] \in K1
      BY <3>2, <1>10, <1>14
    <3>4. more \in Seq(K1)
      BY <3>3, <1>14, Retyped
    <3>5. \A i \in 1 .. len + 1 : par'[more[i]] = c
      BY <3>2, <1>11, <1>14
    <3>6. \A i, j \in 1 .. len : more[i] = more[j] => i = j
      BY <1>13, <1>14 DEF len
    <3>7. \A i, j \in 1 .. len + 1 : more[i] = more[j] => i = j
      BY <3>2, <3>6, <1>10, <1>14
    <3> QED
      BY <2>1, <3>1, <3>4, <3>5, <3>7
  <2>2. CASE n \in kept \ {c}
    <3>1. kids'[n] = kids[n] /\ kids[n] \in Seq(K)
      BY <2>2, <1>2, <1>9, <1>12
    <3>2. \A i \in DOMAIN kids[n] : kids[n][i] \in K1 /\ par'[kids[n][i]] = n
      BY <2>2, <1>11, <1>16
    <3>3. kids[n] \in Seq(K1)
      BY <3>1, <3>2, Retyped
    <3> QED
      BY <2>2, <3>1, <3>2, <3>3, <1>5, <1>9
  <2>3. CASE n = a /\ text # <<>>
    BY <2>3, <1>10, <1>11, <1>12
  <2>4. CASE n \in {a, b} /\ kids'[n] = <<>>
    BY <2>4
  <2> QED
    BY <2>1, <2>2, <2>3, <2>4, <1>10, <1>12
<1>18. ASSUME NEW n \in kept \ {Root}
       PROVE  par[n] \in kept /\ par'[n] = par[n]
              /\ \E i \in DOMAIN kids'[par[n]] : kids'[par[n]][i] = n
  <2>1. par[n] \in K /\ par'[n] = par[n]
    BY <1>2, <1>5, <1>9, <1>11
  <2>2. PICK i \in DOMAIN kids[par[n]] : kids[par[n]][i] = n
    BY <1>5, <1>9
  <2>3. par[n] \in kept
    BY <2>1, <2>2, <1>8
  <2>4. CASE par[n] = c
    <3>1. i \in DOMAIN cs /\ cs[i] = n /\ i # k
      <4>1. i \in DOMAIN cs /\ cs[i] = n
        BY <2>2, <2>4 DEF cs
      <4>2. k # 0 => cs[k] \in gone
        BY <1>7
      <4> QED
        BY <4>1, <4>2, <1>6
    <3>2. PICK j \in DOMAIN left : left[j] = cs[i]
      BY <3>1, <1>13
    <3>3. j \in 1 .. len /\ j \in DOMAIN more /\ more[j] = n
      BY <3>1, <3>2, <1>13, <1>14 DEF len
    <3> QED
      BY <2>1, <2>3, <2>4, <3>3, <1>12 DEF more
  <2>5. CASE par[n] # c
    BY <2>1, <2>2, <2>3, <2>5, <1>12
  <2> QED
    BY <2>4, <2>5
<1>19. Linked'
  <2>1. \A n \in K1 : \A i \in DOMAIN kids'[n] : kids'[n][i] \in K1
    BY <1>17
  <2>2. ASSUME NEW n \in K1 PROVE par'[n] = None <=> n = Root
    BY <1>2, <1>5, <1>9, <1>10, <1>11 DEF None
  <2>3. ASSUME NEW n \in K1, n # Root
        PROVE  \E i \in DOMAIN kids'[par'[n]] : kids'[par'[n]][i] = n
    <3>1. CASE n \in kept
      BY <2>3, <3>1, <1>18
    <3>2. CASE n = a
      <4>1. par'[n] = c /\ kids'[c] = more
        BY <3>2, <1>11, <1>12 DEF more
      <4>2. len + 1 \in DOMAIN more /\ more[len + 1] = n
        BY <3>2, <1>14
      <4> QED
        BY <4>1, <4>2
    <3>3. CASE n = b /\ text # <<>>
      <4>1. par'[n] = a /\ kids'[a] = <<n>>
        BY <3>3, <1>11, <1>12
      <4> QED
        BY <4>1
    <3> QED
      BY <3>1, <3>2, <3>3, <1>10
  <2>4. \A n \in K1 : \A i \in DOMAIN kids'[n] : par'[kids'[n][i]] = n
    BY <1>17
  <2>5. \A n \in K1 : \A i, j \in DOMAIN kids'[n] : kids'[n][i] = kids'[n][j] => i = j
    BY <1>17
  <2>6. DOMAIN kids' = K1 /\ DOMAIN par' = K1
    BY <1>3
  <2> HIDE DEF K1
  <2> QED
    BY <2>1, <2>2, <2>3, <2>4, <2>5, <2>6 DEF Linked
<1>20. ASSUME NEW n \in K1 PROVE Older(n)'
  <2>1. CASE n = a
    BY <2>1, <1>2, <1>11 DEF Older
  <2>2. CASE n = b /\ text # <<>>
    BY <2>2, <1>2, <1>11 DEF Older, a, b
  <2>3. CASE n = Root
    BY <2>3, <1>4, <1>9, <1>11 DEF Older
  <2>4. CASE n \in kept \ {Root}
    BY <2>4, <1>4, <1>9, <1>11, <1>18 DEF Older
  <2> QED
    BY <2>1, <2>2, <2>3, <2>4, <1>10
<1>21. \A j \in DOMAIN held : held[j] \in kept
  <2> TAKE j \in DOMAIN held
  <2>1. held[j] \in K /\ lab[held[j]].type \notin Leaves
    BY DEF IInv, TTypeOK, TreeWhole, LeavesBare, K
  <2> QED
    BY <2>1, <1>8
<1>22. StackIsPath' /\ HeldOnce' /\ held' \in Seq(DOMAIN kids') /\ depth' \in Nat
  BY <1>1, <1>3, <1>11, <1>21, HeldSame
<1>23. LeavesBare'
  <2>1. ASSUME NEW n \in K1, lab'[n].type = "NORMAL_TEXT" PROVE kids'[n] = <<>>
    <3>1. CASE n \in kept
      <4>1. lab[n].type = "NORMAL_TEXT" /\ n # c /\ n \in K
        BY <2>1, <3>1, <1>2, <1>9, <1>11 DEF Leaves
      <4>2. kids[n] = <<>>
        BY <4>1 DEF IInv, TreeWhole, LeavesBare, K
      <4> QED
        BY <3>1, <4>1, <4>2, <1>12
    <3> QED
      BY <2>1, <3>1, <1>10, <1>11, <1>12
  <2>2. ASSUME NEW n \in K1, lab'[n].type = "META", NEW i \in DOMAIN kids'[n]
        PROVE  lab'[kids'[n][i]].type = "NORMAL_TEXT"
    <3>1. CASE n \in kept
      <4>1. lab[n].type = "META" /\ n # c /\ n \in K /\ kids'[n] = kids[n]
        BY <2>2, <3>1, <1>2, <1>9, <1>11, <1>12 DEF Leaves
      <4>2. lab[kids[n][i]].type = "NORMAL_TEXT"
        BY <2>2, <4>1 DEF IInv, TreeWhole, LeavesBare, K
      <4> QED
        BY <2>2, <3>1, <4>1, <4>2, <1>11, <1>16
    <3>2. CASE n = a /\ text # <<>>
      BY <2>2, <3>2, <1>11, <1>12
    <3>3. CASE n \in {a, b} /\ kids'[n] = <<>>
      BY <2>2, <3>3
    <3> QED
      BY <3>1, <3>2, <3>3, <1>10, <1>12
  <2>3. ASSUME NEW j \in DOMAIN held' PROVE lab'[held'[j]].type \notin Leaves
    BY <1>1, <1>11, <1>21 DEF IInv, TreeWhole, LeavesBare
  <2> QED
    BY <2>1, <2>2, <2>3, <1>3 DEF LeavesBare
<1>24. TTypeOK'
  <2>1. \A n \in K1 : par'[n] \in K1 \cup {None}
    BY <1>2, <1>5, <1>9, <1>10, <1>11, <1>18
  <2>2. K1 \subseteq 0 .. nodes' - 1 /\ nodes' \in Nat
    <3>1. nodes' = IF text = <<>> THEN nodes + 1 ELSE nodes + 2
      BY <1>1, <1>2
    <3> QED
      BY <3>1, <1>2, <1>9, <1>10 DEF a, b
  <2> QED
    BY <2>1, <2>2, <1>1, <1>3, <1>17, <1>22 DEF TTypeOK, IInv
<1> QED
  BY <1>3, <1>4, <1>9, <1>11, <1>19, <1>20, <1>22, <1>23, <1>24 DEF IInv, TreeWhole

-------------------------------------------------------------------------------
(***************************************************************************)
(* Whatever the parser does next, the invariant holds after it.            *)
(***************************************************************************)
LEMMA NextInv == IInv /\ [TNext]_tvars => IInv'
<1> SUFFICES ASSUME IInv, [TNext]_tvars PROVE IInv'
  OBVIOUS
<1>1. CASE Pushroot
  BY <1>1, PushrootInv
<1>2. CASE Push
  BY <1>2, PushInv
<1>3. CASE Leaf_node
  BY <1>3, LeafInv
<1>4. CASE Change
  BY <1>4, ChangeInv
<1>5. CASE Cut_last
  BY <1>5, CutInv
<1>6. CASE Enlist
  <2>1. CASE \E d \in DOMAIN lab : Retitle(d)
    BY <2>1, RetitleInv
  <2>2. CASE Entitle(lab'[nodes])
    BY <2>2, EntitleInv
  <2> QED
    BY <1>6, <2>1, <2>2 DEF Enlist
<1>7. CASE Meta
  BY <1>7, PutmetaInv DEF Meta
<1>8. CASE \E n \in DOMAIN lab : Popnode(n)
  BY <1>8, PopnodeInv
<1>9. CASE Failed
  BY <1>9, FailedInv
<1>10. CASE Aborted
  BY <1>10, AbortedInv
<1>11. CASE UNCHANGED tvars
  BY <1>11 DEF tvars, IInv, TTypeOK, StackIsPath, HeldOnce, TreeWhole, Whole, LeavesBare,
              Linked, Older
<1> QED
  BY <1>1, <1>2, <1>3, <1>4, <1>5, <1>6, <1>7, <1>8, <1>9, <1>10, <1>11 DEF TNext

LEMMA Invariant == TSpec => []IInv
<1>1. TInit => IInv
  BY InitInv
<1>2. IInv /\ [TNext]_tvars => IInv'
  BY NextInv
<1> QED
  BY <1>1, <1>2, PTL DEF TSpec

(***************************************************************************)
(* The variables have their types, and every identifier that the tree or   *)
(* the stack refers to is that of a node there is: nothing that was freed  *)
(* is used (document.c:169-287, 1531, 3217-3232, 4540).                    *)
(***************************************************************************)
THEOREM TypeCorrect == TSpec => []TTypeOK
<1>1. IInv => TTypeOK
  BY DEF IInv
<1> QED
  BY <1>1, Invariant, PTL

(***************************************************************************)
(* The nodes that the functions in progress hold are the path from the     *)
(* root to the current node, for every maxdepth: popnode() finds the node  *)
(* that its caller pushed (document.c:273-287).                            *)
(***************************************************************************)
THEOREM PathHeld == TSpec => []StackIsPath
<1>1. IInv => StackIsPath
  BY DEF IInv
<1> QED
  BY <1>1, Invariant, PTL

(***************************************************************************)
(* What the parser returns, and what it builds on the way, is a tree; text *)
(* has no children and metadata nothing but text (document.c:169-287,      *)
(* 1531, 3217-3232, 4540).                                                 *)
(***************************************************************************)
THEOREM AlwaysTree == TSpec => []TreeWhole
<1>1. IInv => TreeWhole
  BY DEF IInv
<1> QED
  BY <1>1, Invariant, PTL

(***************************************************************************)
(* The assertions of popnode() never fail for the node held last, nor that *)
(* of lowdown_doc_parse() that the depth is zero in the end                *)
(* (document.c:283-285, 5163).                                             *)
(***************************************************************************)
LastPopped == [][Popnode(current) => phase' # "aborted"]_tvars

THEOREM PopsMatch == TSpec => LastPopped
<1>1. ASSUME IInv, Popnode(current) PROVE phase' # "aborted"
  <2> DEFINE len == Len(held)
  <2>1. /\ phase = "parsing" /\ depth = len /\ held[1] = Root /\ current = held[len]
        /\ \A j, k \in DOMAIN held : held[j] = held[k] => j = k
    BY <1>1 DEF Popnode, IInv, StackIsPath, HeldOnce
  <2>2. len \in Nat \ {0} /\ DOMAIN held = 1 .. len
    BY <1>1, <2>1, Facts
  <2> HIDE DEF len
  <2>3. current = Root => depth = 1
    <3>1. 1 \in DOMAIN held /\ len \in DOMAIN held
      BY <2>2
    <3> QED
      BY <3>1, <2>1
  <2>4. phase' = IF current # Root THEN "parsing" ELSE IF depth = 1 THEN "done" ELSE "aborted"
    BY <1>1, <2>1, <2>2 DEF Popnode
  <2> QED
    BY <2>3, <2>4
<1>2. IInv /\ [TNext]_tvars => [Popnode(current) => phase' # "aborted"]_tvars
  BY <1>1
<1> QED
  BY <1>2, Invariant, PTL DEF LastPopped, TSpec
-------------------------------------------------------------------------------
(***************************************************************************)
(* What the parser gives to the difference engine.                         *)
(***************************************************************************)
\* The children and the parents are functions over nodes.
Maps ==
  /\ kids = [n \in DOMAIN kids |-> kids[n]]
  /\ par = [n \in DOMAIN par |-> par[n]]

LEMMA InitMaps == TInit => Maps
BY DEF TInit, Maps, Nothing

LEMMA NextMaps == Maps /\ [TNext]_tvars => Maps'
<1> SUFFICES ASSUME Maps, [TNext]_tvars PROVE Maps'
  OBVIOUS
<1>1. ASSUME NEW labels, NEW p, NEW l, NewNode(labels, p, l) PROVE Maps'
  BY <1>1 DEF NewNode, Maps
<1>2. CASE Pushroot
  BY <1>2 DEF Pushroot, Maps
<1>3. CASE Push \/ Leaf_node
  BY <1>1, <1>3 DEF Push, Leaf_node, Pushnode, Pushleaf
<1>4. CASE Cut_last
  BY <1>4 DEF Cut_last, Removelast, Maps
<1>5. CASE Enlist
  <2>1. ASSUME NEW d, Retitle(d) PROVE Maps'
    BY <2>1 DEF Retitle, Maps
  <2>2. ASSUME NEW l, Entitle(l) PROVE Maps'
    BY <2>2 DEF Entitle, Maps
  <2> QED
    BY <1>5, <2>1, <2>2 DEF Enlist
<1>6. CASE Meta
  <2>1. ASSUME NEW k, NEW l, NEW text, Putmeta(k, l, text) PROVE Maps'
    BY <2>1 DEF Putmeta, Maps
  <2> QED
    BY <1>6, <2>1 DEF Meta
<1>7. CASE Failed
  BY <1>7 DEF Failed, Nothing, Maps
<1>8. CASE UNCHANGED <<kids, par>>
  BY <1>8 DEF Maps
<1> QED
  BY <1>2, <1>3, <1>4, <1>5, <1>6, <1>7, <1>8 DEF TNext, Change, Popnode, Aborted, tvars

LEMMA LessWellFounded == IsWellFoundedOn({ss \in Nat \X Nat : ss[1] < ss[2]}, Nat)
BY NatLessThanWellFounded DEF OpToRel

\* There is a least element in a set of numbers.
LEMMA LeastOf ==
  ASSUME NEW T \in SUBSET Nat, T # {}
  PROVE  \E x \in T : \A y \in T : x <= y
<1> DEFINE R == {ss \in Nat \X Nat : ss[1] < ss[2]}
<1>1. IsWellFoundedOn(R, Nat)
  BY LessWellFounded
<1> HIDE DEF R
<1>2. PICK x \in T : \A y \in T : ~(<<y, x>> \in R)
  BY <1>1, WFMin
<1>3. ASSUME NEW y \in T PROVE x <= y
  <2>1. x \in Nat /\ y \in Nat
    OBVIOUS
  <2>2. ~(y < x)
    BY <2>1, <1>2 DEF R
  <2> QED
    BY <2>1, <2>2
<1> QED
  BY <1>3

(***************************************************************************)
(* No node is below itself: a definition list counts as made just after    *)
(* its parent, any other node as made when it was, and then what is below  *)
(* a node was made after it.  Of any nodes the last made has none of the   *)
(* others below it.                                                        *)
(***************************************************************************)
Made(n) == IF lab[n].type = "DEFINITION" THEN 2 * par[n] + 1 ELSE 2 * n

LEMMA MadeAfter ==
  ASSUME IInv, Shaped, NEW n \in DOMAIN kids, n # Root
  PROVE  /\ par[n] \in DOMAIN kids
         /\ Made(n) \in 0 .. 2 * nodes /\ Made(par[n]) \in 0 .. 2 * nodes
         /\ Made(par[n]) < Made(n)
<1> DEFINE K == DOMAIN kids
           m == par[n]
<1>1. /\ \A x \in K : x \in Nat /\ x < nodes
      /\ nodes \in Nat
      /\ \A x \in K \ {Root} : par[x] \in K
      /\ lab[Root].type = "ROOT"
  BY DEF IInv, TTypeOK, Shaped, Linked
<1>2. m \in K
  BY <1>1
<1>3. CASE lab[n].type = "DEFINITION_TITLE"
  <2>1. lab[m].type = "DEFINITION" /\ par[m] < n
    BY <1>3 DEF Shaped, Older
  <2>2. par[m] \in K
    BY <2>1, <1>1, <1>2
  <2>3. Made(m) = 2 * par[m] + 1 /\ Made(n) = 2 * n
    BY <2>1, <1>3 DEF Made
  <2> QED
    BY <2>1, <2>2, <2>3, <1>1, <1>2
<1>4. CASE lab[n].type # "DEFINITION_TITLE"
  <2>1. m < n
    BY <1>4 DEF Shaped, Older
  <2>2. Made(n) = 2 * n \/ Made(n) = 2 * m + 1
    BY DEF Made
  <2>3. CASE lab[m].type = "DEFINITION"
    <3>1. par[m] \in K /\ par[m] < m
      BY <2>3, <1>1, <1>2 DEF Shaped, Older
    <3>2. Made(m) = 2 * par[m] + 1
      BY <2>3 DEF Made
    <3> QED
      BY <2>1, <2>2, <3>1, <3>2, <1>1, <1>2
  <2>4. CASE lab[m].type # "DEFINITION"
    <3>1. Made(m) = 2 * m
      BY <2>4 DEF Made
    <3> QED
      BY <2>1, <2>2, <3>1, <1>1, <1>2
  <2> QED
    BY <2>3, <2>4
<1> QED
  BY <1>3, <1>4

LEMMA NoneBelowItself ==
  ASSUME IInv, Shaped, NEW S \in SUBSET (DOMAIN kids), S # {}
  PROVE  \E n \in S : {kids[n][i] : i \in DOMAIN kids[n]} \cap S = {}
<1> DEFINE T == {2 * nodes - Made(n) : n \in S}
<1>1. \A n \in DOMAIN kids : n \in Nat /\ n < nodes
  BY DEF IInv, TTypeOK
<1>2. nodes \in Nat
  BY DEF IInv, TTypeOK
<1>3. ASSUME NEW n \in DOMAIN kids PROVE Made(n) \in 0 .. 2 * nodes
  <2>1. CASE n = Root
    <3>1. Made(n) = 2 * n
      BY <2>1 DEF Made, Shaped
    <3> QED
      BY <3>1, <1>1, <1>2
  <2>2. CASE n # Root
    BY <2>2, MadeAfter
  <2> QED
    BY <2>1, <2>2
<1>4. T \in SUBSET Nat /\ T # {}
  BY <1>2, <1>3
<1>5. PICK x \in T : \A y \in T : x <= y
  BY <1>4, LeastOf
<1>6. PICK n \in S : x = 2 * nodes - Made(n)
  BY <1>5
<1>7. ASSUME NEW i \in DOMAIN kids[n], kids[n][i] \in S PROVE FALSE
  <2> DEFINE c == kids[n][i]
  <2>1. c \in DOMAIN kids /\ par[c] = n /\ n # None
    BY <1>1, <1>7 DEF Shaped, Linked, None
  <2>2. c # Root
    BY <2>1 DEF Shaped, Linked
  <2>3. Made(n) < Made(c)
    BY <2>1, <2>2, MadeAfter
  <2>4. x <= 2 * nodes - Made(c)
    BY <1>5, <1>7
  <2> HIDE DEF c
  <2> QED
    BY <2>1, <2>3, <2>4, <1>2, <1>3, <1>6
<1> QED
  BY <1>7

(***************************************************************************)
(* Only the root is of its type, and a document header is its first child: *)
(* no other node has those types when it is pushed, none gets them later,  *)
(* and what is put before others or taken away is never a header.          *)
(***************************************************************************)
HeaderFirst ==
  Whole =>
    /\ \A n \in DOMAIN kids : lab[n].type = "ROOT" => n = Root
    /\ \A n \in DOMAIN kids : lab[n].type = "DOC_HEADER" =>
         kids[Root] # <<>> /\ n = kids[Root][1]

\* A header that was there before the step is the first child after it.
LEMMA HeaderKept ==
  ASSUME HeaderFirst, phase = "parsing",
         NEW new, DOMAIN kids' \subseteq DOMAIN kids \cup new,
         \A n \in DOMAIN kids' \cap new : lab'[n].type \notin {"ROOT", "DOC_HEADER"},
         \A n \in DOMAIN kids' \ new :
           lab'[n].type \in {"ROOT", "DOC_HEADER"} => lab'[n].type = lab[n].type,
         \A n \in DOMAIN kids' : kids[Root] # <<>> /\ n = kids[Root][1]
                                 /\ lab[n].type = "DOC_HEADER" =>
           kids'[Root] # <<>> /\ kids'[Root][1] = n
  PROVE  HeaderFirst'
<1>1. /\ \A n \in DOMAIN kids : lab[n].type = "ROOT" => n = Root
      /\ \A n \in DOMAIN kids : lab[n].type = "DOC_HEADER" =>
           kids[Root] # <<>> /\ n = kids[Root][1]
  BY DEF HeaderFirst, Whole
<1>2. ASSUME NEW n \in DOMAIN kids', lab'[n].type = "ROOT" PROVE n = Root
  <2>1. n \in DOMAIN kids /\ lab[n].type = "ROOT"
    BY <1>2
  <2> QED
    BY <2>1, <1>1
<1>3. ASSUME NEW n \in DOMAIN kids', lab'[n].type = "DOC_HEADER"
      PROVE  kids'[Root] # <<>> /\ n = kids'[Root][1]
  <2>1. n \in DOMAIN kids /\ lab[n].type = "DOC_HEADER"
    BY <1>3
  <2> QED
    BY <2>1, <1>1
<1> QED
  BY <1>2, <1>3 DEF HeaderFirst

LEMMA HeaderPush ==
  ASSUME IInv, HeaderFirst, phase = "parsing", phase' = phase, Sametypes,
         NewNode(lab', current, lab'[nodes]),
         lab'[nodes].type # "ROOT",
         lab'[nodes].type = "DOC_HEADER" => current = Root /\ kids[Root] = <<>>
  PROVE  HeaderFirst'
<1> DEFINE K == DOMAIN kids
           more == Append(kids[current], nodes)
           len == Len(kids[current])
<1>1. /\ current \in K /\ nodes \in Nat /\ nodes \notin K /\ Root \in K /\ nodes # Root
  BY Facts DEF Shaped
<1>2. /\ DOMAIN par = K /\ DOMAIN lab = K /\ \A n \in K : kids[n] \in Seq(K)
  BY DEF IInv, TTypeOK
<1>3. /\ DOMAIN kids' = K \cup {nodes}
      /\ kids'[Root] = IF Root = current THEN more ELSE kids[Root]
      /\ \A n \in K : lab'[n].type = lab[n].type
  BY <1>1, <1>2 DEF NewNode, Sametypes
<1>4. /\ len \in Nat /\ DOMAIN kids[current] = 1 .. len
      /\ DOMAIN more = 1 .. len + 1 /\ more[len + 1] = nodes
      /\ \A i \in 1 .. len : more[i] = kids[current][i]
  BY <1>1, <1>2, Appended
<1>9. kids[current] \in Seq(K)
  BY <1>1, <1>2
<1>10. (kids[current] = <<>> => len = 0) /\ (kids[current] # <<>> => len # 0)
  BY <1>9, EmptySeq
<1> HIDE DEF more, len
<1>11. len + 1 \in DOMAIN more
  BY <1>4
<1>5. more # <<>> /\ (kids[current] = <<>> => len = 0) /\ (kids[current] # <<>> => len # 0)
  BY <1>10, <1>11
<1>6. kids[Root] # <<>> => kids'[Root] # <<>> /\ kids'[Root][1] = kids[Root][1]
  BY <1>3, <1>4, <1>5
<1>7. /\ \A n \in K : lab[n].type = "ROOT" => n = Root
      /\ \A n \in K : lab[n].type = "DOC_HEADER" => kids[Root] # <<>> /\ n = kids[Root][1]
  BY DEF HeaderFirst, Whole
<1>8. ASSUME lab'[nodes].type = "DOC_HEADER"
      PROVE  kids'[Root] # <<>> /\ nodes = kids'[Root][1]
  BY <1>8, <1>3, <1>4, <1>5
<1> QED
  BY <1>3, <1>6, <1>7, <1>8 DEF HeaderFirst

LEMMA HeaderCut == IInv /\ HeaderFirst /\ Cut_last => HeaderFirst'
<1> SUFFICES ASSUME IInv, HeaderFirst, NEW p \in DOMAIN lab,
                    \A n \in DOMAIN lab \ {Last_child(p)} :
                      n \in DOMAIN lab' /\ lab'[n].type = lab[n].type,
                    Removelast(lab', p)
             PROVE  HeaderFirst'
  BY DEF Cut_last
<1> DEFINE K == DOMAIN kids
           t == Last_child(p)
           len == Len(kids[p])
           front == SubSeq(kids[p], 1, len - 1)
<1>1. phase = "parsing" /\ t # None /\ lab[t].type = "NORMAL_TEXT"
  BY DEF Removelast
<1>2. /\ DOMAIN par = K /\ DOMAIN lab = K /\ p \in K
      /\ \A n \in K : kids[n] \in Seq(K)
      /\ Root \in K /\ lab[Root].type = "ROOT"
  BY <1>1, Facts DEF IInv, TTypeOK, Shaped
<1>3. /\ t \in K /\ t = kids[p][len] /\ len \in Nat \ {0}
  BY <1>1, <1>2, LastChild
<1>4. /\ DOMAIN front = 1 .. len - 1 /\ \A i \in 1 .. len - 1 : front[i] = kids[p][i]
  BY <1>2, <1>3, Fronted
<1>5. /\ DOMAIN kids' = K \ {t}
      /\ \A n \in K \ {t} : lab'[n].type = lab[n].type
      /\ kids'[Root] = IF Root = p THEN front ELSE kids[Root]
  BY <1>1, <1>2, <1>3 DEF Removelast
<1> HIDE DEF t, len, front
<1>6. ASSUME NEW n \in K \ {t}, kids[Root] # <<>>, n = kids[Root][1]
      PROVE  kids'[Root] # <<>> /\ kids'[Root][1] = n
  <2>1. CASE Root = p
    <3>1. len # 1 /\ 1 \in 1 .. len - 1
      BY <2>1, <1>3, <1>6
    <3>2. 1 \in DOMAIN front /\ front[1] = n
      BY <2>1, <3>1, <1>4, <1>6
    <3>4. front # <<>>
      BY <3>2
    <3> QED
      BY <2>1, <3>2, <3>4, <1>5
  <2>2. CASE Root # p
    BY <2>2, <1>5, <1>6
  <2> QED
    BY <2>1, <2>2
<1> QED
  BY <1>1, <1>5, <1>6, HeaderKept

LEMMA HeaderEnlist == IInv /\ HeaderFirst /\ Enlist => HeaderFirst'
<1> SUFFICES ASSUME IInv, HeaderFirst, Enlist PROVE HeaderFirst'
  OBVIOUS
<1> DEFINE K == DOMAIN kids
           t == Last_child(current)
           k == Len(kids[current])
           front == SubSeq(kids[current], 1, k - 1)
           swapped == [kids[current] EXCEPT ![k] = nodes]
<1>1. phase = "parsing" /\ t # None /\ lab[t].type = "PARAGRAPH"
  BY DEF Enlist, Retitle, Entitle
<1>2. /\ DOMAIN par = K /\ DOMAIN lab = K /\ current \in K
      /\ \A n \in K : kids[n] \in Seq(K)
      /\ Root \in K /\ lab[Root].type = "ROOT"
      /\ nodes \notin K
  BY <1>1, Facts DEF IInv, TTypeOK, Shaped
<1>3. /\ t \in K /\ k \in Nat \ {0} /\ DOMAIN kids[current] = 1 .. k /\ kids[current][k] = t
      /\ kids[current] # <<>>
  BY <1>1, TitleFacts
<1>4. /\ DOMAIN front = 1 .. k - 1 /\ \A i \in 1 .. k - 1 : front[i] = kids[current][i]
  BY <1>2, <1>3, Fronted
<1>5. /\ DOMAIN swapped = 1 .. k /\ \A i \in 1 .. k - 1 : swapped[i] = kids[current][i]
  BY <1>3
<1>6. ASSUME NEW n, kids[Root] # <<>>, n = kids[Root][1], lab[n].type = "DOC_HEADER",
             Root = current
      PROVE  1 \in 1 .. k - 1
  BY <1>1, <1>3, <1>6
<1>7. ASSUME NEW d, Retitle(d) PROVE HeaderFirst'
  <2>1. /\ DOMAIN kids' = K
        /\ kids'[Root] = IF Root = current THEN front ELSE kids[Root]
        /\ \A n \in K \ {t} : lab'[n] = lab[n]
        /\ lab'[t].type = "DEFINITION_TITLE"
    BY <1>2, <1>3, <1>7 DEF Retitle, Titled, Label
  <2> HIDE DEF t, k, front, swapped
  <2>2. ASSUME NEW n \in K, kids[Root] # <<>>, n = kids[Root][1], lab[n].type = "DOC_HEADER"
        PROVE  kids'[Root] # <<>> /\ kids'[Root][1] = n
    <3>1. CASE Root = current
      <4>1. 1 \in DOMAIN front /\ front[1] = n
        BY <2>2, <3>1, <1>4, <1>6
      <4>2. front # <<>>
        BY <4>1
      <4> QED
        BY <3>1, <4>1, <4>2, <2>1
    <3>2. CASE Root # current
      BY <2>1, <2>2, <3>2
    <3> QED
      BY <3>1, <3>2
  <2>3. \A n \in K : lab'[n].type \in {"ROOT", "DOC_HEADER"} => lab'[n].type = lab[n].type
    BY <2>1
  <2> QED
    BY <1>1, <2>1, <2>2, <2>3, HeaderKept
<1>8. ASSUME NEW l, Entitle(l) PROVE HeaderFirst'
  <2>1. /\ DOMAIN kids' = K \cup {nodes}
        /\ kids'[Root] = IF Root = current THEN swapped ELSE kids[Root]
        /\ \A n \in K \ {t} : lab'[n] = lab[n]
        /\ lab'[t].type = "DEFINITION_TITLE"
        /\ lab'[nodes].type = "DEFINITION"
    BY <1>2, <1>3, <1>8 DEF Entitle, Titled, Label
  <2> HIDE DEF t, k, front, swapped
  <2>2. ASSUME NEW n, kids[Root] # <<>>, n = kids[Root][1], lab[n].type = "DOC_HEADER"
        PROVE  kids'[Root] # <<>> /\ kids'[Root][1] = n
    <3>1. CASE Root = current
      <4>1. 1 \in DOMAIN swapped /\ swapped[1] = n
        BY <2>2, <3>1, <1>3, <1>5, <1>6
      <4>2. swapped # <<>>
        BY <4>1
      <4> QED
        BY <3>1, <4>1, <4>2, <2>1
    <3>2. CASE Root # current
      BY <2>1, <2>2, <3>2
    <3> QED
      BY <3>1, <3>2
  <2>3. \A n \in K : lab'[n].type \in {"ROOT", "DOC_HEADER"} => lab'[n].type = lab[n].type
    BY <2>1
  <2> DEFINE made == {nodes}
  <2>4. /\ DOMAIN kids' \subseteq DOMAIN kids \cup made
        /\ \A n \in DOMAIN kids' \cap made : lab'[n].type \notin {"ROOT", "DOC_HEADER"}
        /\ DOMAIN kids' \ made \subseteq K
    BY <2>1
  <2> HIDE DEF made
  <2>5. /\ \A n \in DOMAIN kids' \ made :
             lab'[n].type \in {"ROOT", "DOC_HEADER"} => lab'[n].type = lab[n].type
        /\ \A n \in DOMAIN kids' : kids[Root] # <<>> /\ n = kids[Root][1]
                                   /\ lab[n].type = "DOC_HEADER" =>
             kids'[Root] # <<>> /\ kids'[Root][1] = n
    BY <2>2, <2>3, <2>4
  <2> QED
    BY <1>1, <2>4, <2>5, HeaderKept
<1> QED
  BY <1>7, <1>8 DEF Enlist

LEMMA HeaderMeta == IInv /\ HeaderFirst /\ phase = "parsing" /\ Meta => HeaderFirst'
<1> SUFFICES ASSUME IInv, HeaderFirst, NEW k, NEW l, NEW text, Putmeta(k, l, text)
             PROVE  HeaderFirst'
  BY DEF Meta
<1> DEFINE K == DOMAIN kids
           cs == kids[current]
           left == IF k = 0 THEN cs
                   ELSE [j \in 1 .. Len(cs) - 1 |-> cs[IF j < k THEN j ELSE j + 1]]
           more == Append(left, nodes)
           new == {nodes, nodes + 1}
<1>1. /\ phase = "parsing" /\ l.type = "META"
      /\ k \in 0 .. Len(cs) /\ (k # 0 => lab[cs[k]].type = "META")
  BY DEF Putmeta
<1>2. /\ DOMAIN par = K /\ DOMAIN lab = K /\ current \in K
      /\ \A n \in K : kids[n] \in Seq(K)
      /\ Root \in K /\ lab[Root].type = "ROOT"
      /\ nodes \notin K /\ nodes + 1 \notin K /\ nodes \in Nat
  BY <1>1, Facts DEF IInv, TTypeOK, Shaped
<1>3. /\ DOMAIN kids' \subseteq K \cup new
      /\ \A n \in DOMAIN kids' \cap K : lab'[n] = lab[n]
      /\ \A n \in DOMAIN kids' \cap new : lab'[n].type \in {"META", "NORMAL_TEXT"}
      /\ Root \in DOMAIN kids' /\ Root # current => kids'[Root] = kids[Root]
      /\ Root \in DOMAIN kids' /\ Root = current => kids'[Root] = more
  BY <1>1, <1>2 DEF Putmeta, Metadata_ids, Text, Label
<1>4. Len(cs) \in Nat /\ DOMAIN cs = 1 .. Len(cs) /\ (cs # <<>> => Len(cs) # 0)
  BY <1>2, EmptySeq
<1>10. Root \in DOMAIN kids'
  <2>1. k # 0 => kids[current][k] # Root
    BY <1>1, <1>2
  <2>2. ASSUME k # 0, NEW j \in DOMAIN kids[cs[k]], kids[cs[k]][j] = Root PROVE FALSE
    <3>1. cs[k] \in K
      BY <1>1, <1>2, <1>4, <2>2
    <3>2. par[Root] = cs[k] /\ par[Root] = None
      <4>1. Linked /\ Root \in K
        BY <1>1, Facts DEF Shaped
      <4> HIDE DEF cs
      <4> QED
        BY <2>2, <3>1, <4>1 DEF Linked
    <3>3. cs[k] \in Nat
      BY <3>1 DEF IInv, TTypeOK
    <3> QED
      BY <3>2, <3>3 DEF None
  <2> QED
    BY <2>1, <2>2, <1>2 DEF Putmeta
<1>5. /\ left \in Seq(K) /\ Len(left) = IF k = 0 THEN Len(cs) ELSE Len(cs) - 1
      /\ k # 1 /\ cs # <<>> => 1 \in 1 .. Len(left) /\ left[1] = cs[1]
  <2>1. CASE k = 0
    BY <2>1, <1>2, <1>4
  <2>2. CASE k # 0
    <3>1. /\ k \in 1 .. Len(cs)
          /\ left = [j \in 1 .. Len(cs) - 1 |-> cs[IF j < k THEN j ELSE j + 1]]
      BY <2>2, <1>1, <1>4
    <3>2. left = Without(cs, k)
      BY <3>1 DEF Without
    <3>3. left \in Seq(K) /\ DOMAIN left = 1 .. Len(cs) - 1
      <4>1. Without(cs, k) \in Seq(K) /\ DOMAIN Without(cs, k) = 1 .. Len(cs) - 1
        BY <3>1, <1>2, Dropped
      <4> QED
        BY <4>1, <3>2
    <3>4. Len(left) = Len(cs) - 1
      BY <3>1, <3>3, <1>4
    <3> QED
      BY <2>2, <3>1, <3>3, <3>4, <1>4
  <2> QED
    BY <2>1, <2>2
<1> HIDE DEF left
<1>6. /\ more # <<>> /\ \A i \in 1 .. Len(left) : more[i] = left[i]
  <2>1. /\ Len(left) \in Nat /\ DOMAIN more = 1 .. Len(left) + 1
        /\ \A i \in 1 .. Len(left) : more[i] = left[i]
    BY <1>2, <1>5, Appended
  <2> QED
    BY <2>1
<1> HIDE DEF more
<1>7. ASSUME NEW n \in DOMAIN kids', kids[Root] # <<>>, n = kids[Root][1],
             lab[n].type = "DOC_HEADER"
      PROVE  kids'[Root] # <<>> /\ kids'[Root][1] = n
  <2>1. Root \in DOMAIN kids'
    BY <1>10
  <2>2. CASE Root = current
    <3>1. k # 1
      BY <2>2, <1>1, <1>7
    <3> QED
      BY <2>1, <2>2, <3>1, <1>3, <1>5, <1>6, <1>7
  <2>3. CASE Root # current
    BY <2>1, <2>3, <1>3, <1>7
  <2> QED
    BY <2>2, <2>3
<1>8. \A n \in DOMAIN kids' \ new : n \in K
  BY <1>3
<1> QED
  BY <1>1, <1>3, <1>7, <1>8, HeaderKept

LEMMA HeaderNext == IInv /\ HeaderFirst /\ [TNext]_tvars => HeaderFirst'
<1> SUFFICES ASSUME IInv, HeaderFirst, [TNext]_tvars PROVE HeaderFirst'
  OBVIOUS
<1>1. CASE Pushroot
  BY <1>1 DEF Pushroot, HeaderFirst, Node, Label
<1>2. CASE Push \/ Leaf_node
  BY <1>2, HeaderPush DEF Push, Leaf_node, Pushnode, Pushleaf
<1>3. CASE Change
  <2>1. /\ phase = "parsing" /\ phase' = phase /\ kids' = kids
        /\ \A n \in DOMAIN kids : lab'[n].type = lab[n].type
    BY <1>3 DEF Change, Sametypes, IInv, TTypeOK
  <2> QED
    BY <2>1 DEF HeaderFirst, Whole
<1>4. CASE Cut_last
  BY <1>4, HeaderCut
<1>5. CASE Enlist
  BY <1>5, HeaderEnlist
<1>6. CASE phase = "parsing" /\ Meta
  BY <1>6, HeaderMeta
<1>7. CASE UNCHANGED <<kids, lab>> /\ (phase' = phase \/ phase = "parsing")
  BY <1>7 DEF HeaderFirst, Whole
<1>8. CASE Failed
  BY <1>8 DEF Failed, HeaderFirst, Whole
<1> QED
  BY <1>1, <1>2, <1>3, <1>4, <1>5, <1>6, <1>7, <1>8 DEF TNext, Popnode, Aborted, tvars
-------------------------------------------------------------------------------
(***************************************************************************)
(* No node of a type is below another, if none is made while one is held.  *)
(* S are the nodes below one of the type: those whose parent is one or is  *)
(* itself below one.  A node that is held is below one only if one is held *)
(* before it, so that where none is held all that is pushed is below none. *)
(***************************************************************************)
Under(type, S) ==
  /\ S \subseteq DOMAIN lab
  /\ \A n \in DOMAIN lab : n \in S <=> n # Root /\ (par[n] \in S \/ lab[par[n]].type = type)
  /\ \A n \in S : lab[n].type # type
  /\ \A k \in DOMAIN held : held[k] \in S => \E j \in DOMAIN held : j < k /\ lab[held[j]].type = type

Unnested(type) == \E S : Under(type, S)

\* A new node of the type is made where no other is held.
Apart(type) ==
  \A n \in DOMAIN lab' \ DOMAIN lab :
    lab'[n].type = type => \A k \in DOMAIN held : lab[held[k]].type # type

\* The types that bodies have, which have work of their own to end with.
Bodies == {"LINK", "FOOTNOTE"}

\* What a step may rely on: the tree is one, and its held nodes are in it.
LEMMA UnderFacts ==
  ASSUME IInv, phase = "parsing", NEW type, NEW S, Under(type, S)
  PROVE  /\ DOMAIN par = DOMAIN lab /\ DOMAIN kids = DOMAIN lab
         /\ Root \in DOMAIN lab /\ nodes \notin DOMAIN lab /\ nodes + 1 \notin DOMAIN lab
         /\ nodes # Root /\ nodes + 1 # Root /\ nodes # nodes + 1
         /\ current \in DOMAIN lab
         /\ \A n \in DOMAIN lab \ {Root} : par[n] \in DOMAIN lab
         /\ \A n \in DOMAIN lab : n # Root => kids[par[n]] # <<>>
         /\ Len(held) \in Nat \ {0} /\ DOMAIN held = 1 .. Len(held)
         /\ \A k \in DOMAIN held : held[k] \in DOMAIN lab
         /\ held[Len(held)] = current
         /\ current \in S \/ lab[current].type = type =>
              \E j \in DOMAIN held : lab[held[j]].type = type
<1>1. /\ DOMAIN par = DOMAIN lab /\ DOMAIN kids = DOMAIN lab
      /\ current \in DOMAIN lab
      /\ nodes \notin DOMAIN lab /\ nodes + 1 \notin DOMAIN lab /\ nodes \in Nat
      /\ \A n \in DOMAIN lab \ {Root} : par[n] \in DOMAIN lab
      /\ Len(held) \in Nat \ {0} /\ DOMAIN held = 1 .. Len(held)
      /\ Shaped
  BY Facts DEF IInv, TTypeOK
<1>2. held \in Seq(DOMAIN lab) /\ held[Len(held)] = current
  BY <1>1 DEF IInv, TTypeOK, StackIsPath
<1>3. \A k \in DOMAIN held : held[k] \in DOMAIN lab
  BY <1>1, <1>2
<1>4. Root \in DOMAIN lab
  BY <1>1 DEF Shaped
<1>5. nodes # Root /\ nodes + 1 # Root /\ nodes # nodes + 1
  BY <1>1, <1>4
<1>6. ASSUME NEW n \in DOMAIN lab, n # Root PROVE kids[par[n]] # <<>>
  <2>1. PICK k \in DOMAIN kids[par[n]] : kids[par[n]][k] = n
    BY <1>1, <1>6 DEF Shaped, Linked
  <2> QED
    BY <2>1
<1>7. ASSUME current \in S \/ lab[current].type = type
      PROVE  \E j \in DOMAIN held : lab[held[j]].type = type
  <2>1. Len(held) \in DOMAIN held
    BY <1>1
  <2> QED
    BY <1>2, <1>7, <2>1 DEF Under
<1> QED
  BY <1>1, <1>2, <1>3, <1>4, <1>5, <1>6, <1>7

\* A new node below the current one, held or not.
LEMMA UnderNew ==
  ASSUME IInv, phase = "parsing", NEW type, Unnested(type), Apart(type),
         Sametypes, NewNode(lab', current, lab'[nodes]),
         held' = held \/ held' = Append(held, nodes)
  PROVE  Unnested(type)'
<1>1. PICK S : Under(type, S)
  BY DEF Unnested
<1> DEFINE K == DOMAIN lab
           below == current \in S \/ lab[current].type = type
<1>2. /\ DOMAIN par = K /\ Root \in K /\ nodes \notin K /\ nodes # Root /\ current \in K
      /\ \A n \in K \ {Root} : par[n] \in K
      /\ Len(held) \in Nat \ {0} /\ DOMAIN held = 1 .. Len(held)
      /\ \A k \in DOMAIN held : held[k] \in K
      /\ below => \E j \in DOMAIN held : lab[held[j]].type = type
  BY <1>1, UnderFacts
<1>3. /\ DOMAIN lab' = K \cup {nodes}
      /\ par'[nodes] = current /\ \A n \in K : par'[n] = par[n]
      /\ \A n \in K : lab'[n].type = lab[n].type
  BY <1>2 DEF NewNode, Sametypes
<1>4. /\ S \subseteq K
      /\ \A n \in K : n \in S <=> n # Root /\ (par[n] \in S \/ lab[par[n]].type = type)
      /\ \A n \in S : lab[n].type # type
      /\ \A k \in DOMAIN held :
           held[k] \in S => \E j \in DOMAIN held : j < k /\ lab[held[j]].type = type
  BY <1>1 DEF Under
<1>5. PICK T : /\ T \subseteq DOMAIN lab' /\ (nodes \in T <=> below)
               /\ \A n \in K : n \in T <=> n \in S
  <2> DEFINE U == IF below THEN S \cup {nodes} ELSE S
  <2>1. /\ U \subseteq DOMAIN lab' /\ (nodes \in U <=> below)
        /\ \A n \in K : n \in U <=> n \in S
    BY <1>2, <1>3, <1>4
  <2> QED
    BY <2>1
<1>6. ASSUME NEW n \in DOMAIN lab'
      PROVE  n \in T <=> n # Root /\ (par'[n] \in T \/ lab'[par'[n]].type = type)
  <2>1. CASE n = nodes
    BY <1>2, <1>3, <1>5, <2>1
  <2>2. CASE n \in K
    BY <1>2, <1>3, <1>4, <1>5, <2>2
  <2> QED
    BY <1>3, <2>1, <2>2
<1>7. ASSUME NEW n \in T PROVE lab'[n].type # type
  <2>1. CASE n = nodes
    BY <1>2, <1>3, <1>5, <1>7, <2>1 DEF Apart
  <2>2. CASE n \in K
    BY <1>3, <1>4, <1>5, <1>7, <2>2
  <2> QED
    BY <1>3, <1>5, <2>1, <2>2
<1>8. ASSUME NEW k \in DOMAIN held', held'[k] \in T
      PROVE  \E j \in DOMAIN held' : j < k /\ lab'[held'[j]].type = type
  <2>1. CASE held' = held
    BY <1>2, <1>3, <1>4, <1>5, <1>8, <2>1
  <2>2. CASE held' = Append(held, nodes)
    <3>1. held \in Seq(K)
      BY DEF IInv, TTypeOK
    <3>2. /\ DOMAIN held' = 1 .. Len(held) + 1
          /\ \A i \in 1 .. Len(held) : held'[i] = held[i]
          /\ held'[Len(held) + 1] = nodes
      BY <2>2, <3>1, Appended
    <3>3. CASE k = Len(held) + 1
      <4>1. PICK j \in DOMAIN held : lab[held[j]].type = type
        BY <1>2, <1>5, <1>8, <3>2, <3>3
      <4> QED
        BY <1>2, <1>3, <3>2, <3>3, <4>1
    <3>4. CASE k \in 1 .. Len(held)
      <4>1. PICK j \in DOMAIN held : j < k /\ lab[held[j]].type = type
        BY <1>2, <1>4, <1>5, <1>8, <3>2, <3>4
      <4> QED
        BY <1>2, <1>3, <3>2, <4>1
    <3> QED
      BY <1>2, <3>2, <3>3, <3>4
  <2> QED
    BY <2>1, <2>2
<1>9. Under(type, T)'
  BY <1>5, <1>6, <1>7, <1>8 DEF Under
<1> QED
  BY <1>9 DEF Unnested

\* Nothing moves, and what is held is or was held before.
LEMMA UnderStays ==
  ASSUME NEW type, Unnested(type), DOMAIN par = DOMAIN lab,
         \A n \in DOMAIN lab \ {Root} : par[n] \in DOMAIN lab,
         \A k \in DOMAIN held : held[k] \in DOMAIN lab,
         DOMAIN lab' = DOMAIN lab, par' = par,
         \A n \in DOMAIN lab : lab'[n].type = lab[n].type,
         DOMAIN held \subseteq Nat,
         \E m \in Nat : DOMAIN held' = {k \in DOMAIN held : k <= m},
         \A k \in DOMAIN held' : held'[k] = held[k]
  PROVE  Unnested(type)'
<1>1. PICK S : Under(type, S)
  BY DEF Unnested
<1>2. PICK m \in Nat : DOMAIN held' = {k \in DOMAIN held : k <= m}
  OBVIOUS
<1>3. ASSUME NEW k \in DOMAIN held', held'[k] \in S
      PROVE  \E j \in DOMAIN held' : j < k /\ lab'[held'[j]].type = type
  <2>1. k \in DOMAIN held /\ k <= m /\ held[k] \in S
    BY <1>2, <1>3
  <2>2. PICK j \in DOMAIN held : j < k /\ lab[held[j]].type = type
    BY <1>1, <2>1 DEF Under
  <2>3. j \in DOMAIN held'
    BY <1>2, <2>1, <2>2
  <2> QED
    BY <2>2, <2>3
<1>4. Under(type, S)'
  BY <1>1, <1>3 DEF Under
<1> QED
  BY <1>4 DEF Unnested

\* A text is cut: nothing is below it, and it is not held.
LEMMA UnderCut ==
  ASSUME IInv, NEW type, Unnested(type), Cut_last
  PROVE  Unnested(type)'
<1>0. PICK p \in DOMAIN lab :
        /\ \A n \in DOMAIN lab \ {Last_child(p)} : n \in DOMAIN lab' /\ lab'[n].type = lab[n].type
        /\ Removelast(lab', p)
  BY DEF Cut_last
<1>1. PICK S : Under(type, S)
  BY DEF Unnested
<1> DEFINE K == DOMAIN lab
           t == Last_child(p)
<1>2. /\ phase = "parsing" /\ t # None /\ lab[t].type = "NORMAL_TEXT"
      /\ DOMAIN par' = K \ {t} /\ DOMAIN lab' = K \ {t}
      /\ \A n \in K \ {t} : par'[n] = par[n] /\ lab'[n].type = lab[n].type
      /\ held' = held
  BY <1>0 DEF Removelast
<1>3. /\ DOMAIN par = K /\ DOMAIN kids = K /\ Root \in K /\ lab[Root].type = "ROOT"
      /\ \A n \in K \ {Root} : par[n] \in K
      /\ \A n \in K : n # Root => kids[par[n]] # <<>>
      /\ \A k \in DOMAIN held : held[k] \in K
  BY <1>1, <1>2, UnderFacts, Facts DEF Shaped
<1>4. /\ S \subseteq K
      /\ \A n \in K : n \in S <=> n # Root /\ (par[n] \in S \/ lab[par[n]].type = type)
      /\ \A n \in S : lab[n].type # type
      /\ \A k \in DOMAIN held :
           held[k] \in S => \E j \in DOMAIN held : j < k /\ lab[held[j]].type = type
  BY <1>1 DEF Under
<1>5. t \in K
  BY <1>0, <1>2, <1>3, LastChild
<1>6. kids[t] = <<>> /\ \A k \in DOMAIN held : held[k] # t
  BY <1>2, <1>3, <1>5 DEF IInv, TreeWhole, LeavesBare, Leaves
<1> HIDE DEF t
<1>7. \A n \in K : n # Root => par[n] \in K \ {t}
  BY <1>3, <1>6
<1>8. PICK T : T = S \ {t}
  OBVIOUS
<1>9. ASSUME NEW n \in DOMAIN lab'
      PROVE  n \in T <=> n # Root /\ (par'[n] \in T \/ lab'[par'[n]].type = type)
  <2>1. n \in K \ {t} /\ par'[n] = par[n]
    BY <1>2
  <2>2. CASE n = Root
    BY <1>4, <1>8, <2>1, <2>2
  <2>3. CASE n # Root
    BY <1>2, <1>4, <1>7, <1>8, <2>1, <2>3
  <2> QED
    BY <2>2, <2>3
<1>10. /\ T \subseteq DOMAIN lab' /\ \A n \in T : lab'[n].type # type
  BY <1>2, <1>4, <1>8
<1>11. ASSUME NEW k \in DOMAIN held', held'[k] \in T
       PROVE  \E j \in DOMAIN held' : j < k /\ lab'[held'[j]].type = type
  BY <1>2, <1>3, <1>4, <1>6, <1>8, <1>11
<1>12. Under(type, T)'
  BY <1>9, <1>10, <1>11 DEF Under
<1> QED
  BY <1>12 DEF Unnested

\* A paragraph moves to a definition list, which is where it was.
LEMMA UnderEnlist ==
  ASSUME IInv, NEW type \in Bodies, Unnested(type), Enlist
  PROVE  Unnested(type)'
<1>1. PICK S : Under(type, S)
  BY DEF Unnested
<1> DEFINE K == DOMAIN lab
           t == Last_child(current)
           below == current \in S \/ lab[current].type = type
<1>2. phase = "parsing" /\ t # None /\ lab[t].type = "PARAGRAPH"
  BY DEF Enlist, Retitle, Entitle
<1>3. /\ DOMAIN par = K /\ DOMAIN kids = K /\ Root \in K /\ nodes \notin K /\ nodes # Root
      /\ current \in K
      /\ \A n \in K \ {Root} : par[n] \in K
      /\ Len(held) \in Nat \ {0} /\ DOMAIN held = 1 .. Len(held)
      /\ \A k \in DOMAIN held : held[k] \in K
      /\ below => \E j \in DOMAIN held : lab[held[j]].type = type
  BY <1>1, <1>2, UnderFacts
<1>4. /\ S \subseteq K
      /\ \A n \in K : n \in S <=> n # Root /\ (par[n] \in S \/ lab[par[n]].type = type)
      /\ \A n \in S : lab[n].type # type
      /\ \A k \in DOMAIN held :
           held[k] \in S => \E j \in DOMAIN held : j < k /\ lab[held[j]].type = type
  BY <1>1 DEF Under
<1>5. /\ t \in K /\ t # Root /\ par[t] = current /\ t # current
      /\ Len(kids[current]) \in Nat \ {0} /\ DOMAIN kids[current] = 1 .. Len(kids[current])
      /\ kids[current][Len(kids[current])] = t
      /\ \A k \in DOMAIN held : held[k] # t
  BY <1>2, <1>3, TitleFacts
<1>6. type \notin {"PARAGRAPH", "DEFINITION", "DEFINITION_TITLE"}
  BY DEF Bodies
<1>7. t \in S <=> below
  BY <1>4, <1>5
<1> HIDE DEF t
\* The list may be a node that is there or a new one: d is below the current node.
<1>8. ASSUME NEW d, NEW T,
             d # t, d # current, DOMAIN lab' = K \cup {d}, T \subseteq K \cup {d},
             \A n \in K \ {t, d} : par'[n] = par[n], par'[t] = d, par'[d] = current, d # Root,
             \A n \in K \ {t, d} : lab'[n].type = lab[n].type,
             lab'[t].type = "DEFINITION_TITLE", lab'[d].type = "DEFINITION",
             d \in K => lab[d].type = "DEFINITION",
             \A n \in K \ {t} : par[n] = d => d \in K,
             \A n \in K \ {d} : n \in T <=> n \in S, d \in T <=> below,
             d \in K => (d \in S <=> below),
             held' = Append(held, d)
      PROVE  Unnested(type)'
  <2>1. \A n \in K : n # t => (lab'[n].type = type <=> lab[n].type = type)
    BY <1>6, <1>8
  <2>2. lab'[t].type # type /\ lab[t].type # type
    BY <1>2, <1>6, <1>8
  <2>3. \A n \in K : n \in T <=> n \in S
    BY <1>8
  <2>4. ASSUME NEW n \in K \cup {d}
        PROVE  n \in T <=> n # Root /\ (par'[n] \in T \/ lab'[par'[n]].type = type)
    <3>1. CASE n = d
      BY <1>3, <1>5, <1>8, <2>1, <2>3, <3>1
    <3>2. CASE n = t
      BY <1>5, <1>6, <1>7, <1>8, <2>3, <3>2
    <3>3. CASE n \in K \ {t, d} /\ n # Root
      <4>1. par'[n] = par[n] /\ par[n] \in K
        BY <1>3, <1>8, <3>3
      <4> QED
        BY <1>4, <2>1, <2>2, <2>3, <3>3, <4>1
    <3>4. CASE n = Root
      BY <1>3, <1>4, <2>3, <3>4
    <3> QED
      BY <3>1, <3>2, <3>3, <3>4
  <2>5. ASSUME NEW n \in T PROVE lab'[n].type # type
    BY <1>4, <1>6, <1>8, <2>1, <2>2, <2>3
  <2>6. held \in Seq(K)
    BY <1>3 DEF IInv, TTypeOK
  <2>7. /\ DOMAIN held' = 1 .. Len(held) + 1
        /\ \A i \in 1 .. Len(held) : held'[i] = held[i]
        /\ held'[Len(held) + 1] = d
    BY <1>8, <2>6, Appended
  <2>8. ASSUME NEW k \in DOMAIN held', held'[k] \in T
        PROVE  \E j \in DOMAIN held' : j < k /\ lab'[held'[j]].type = type
    <3>1. \A j \in DOMAIN held : lab[held[j]].type = type => lab'[held'[j]].type = type
      BY <1>3, <1>5, <2>1, <2>7
    <3>2. CASE k = Len(held) + 1
      <4>1. PICK j \in DOMAIN held : lab[held[j]].type = type
        BY <1>3, <1>8, <2>7, <2>8, <3>2
      <4> QED
        BY <1>3, <2>7, <3>1, <3>2, <4>1
    <3>3. CASE k \in 1 .. Len(held)
      <4>1. PICK j \in DOMAIN held : j < k /\ lab[held[j]].type = type
        BY <1>3, <1>4, <2>3, <2>7, <2>8, <3>3
      <4> QED
        BY <1>3, <2>7, <3>1, <4>1
    <3> QED
      BY <1>3, <2>7, <3>2, <3>3
  <2>9. Under(type, T)'
    BY <1>8, <2>4, <2>5, <2>8 DEF Under
  <2> QED
    BY <2>9 DEF Unnested
<1>9. ASSUME NEW d \in K, Retitle(d) PROVE Unnested(type)'
  <2>1. /\ Len(kids[current]) > 1 /\ d = kids[current][Len(kids[current]) - 1]
        /\ lab[d].type = "DEFINITION"
        /\ par' = [n \in K |-> IF n = t THEN d ELSE par[n]]
        /\ lab' = Titled(lab, t) /\ held' = Append(held, d)
    BY <1>3, <1>9 DEF Retitle, t
  <2>2. d # t
    BY <1>2, <2>1
  <2>3. par[d] = current /\ d # Root
    <3>1. Len(kids[current]) - 1 \in DOMAIN kids[current]
      BY <1>5, <2>1
    <3>2. Linked /\ \A n \in K : n \in Nat
      BY <1>2, <1>3, Facts DEF Shaped
    <3>3. par[d] = current
      BY <1>3, <2>1, <3>1, <3>2 DEF Linked
    <3> QED
      BY <1>3, <3>2, <3>3 DEF Linked, None
  <2>4. d # current
    BY <1>2, <1>3, <2>3, Facts
  <2>5. /\ DOMAIN lab' = K /\ lab'[t].type = "DEFINITION_TITLE"
        /\ \A n \in K \ {t} : lab'[n] = lab[n]
    BY <1>5, <2>1 DEF Titled, Label
  <2>6. d \in S <=> below
    BY <1>4, <1>9, <2>3
  <2>7. /\ \A n \in K \ {t, d} : par'[n] = par[n]
        /\ par'[t] = d /\ par'[d] = current
    BY <1>5, <1>9, <2>1, <2>2, <2>3
  <2>8. K \cup {d} = K
    BY <1>9
  <2>9. /\ DOMAIN lab' = K \cup {d} /\ S \subseteq K \cup {d}
        /\ \A n \in K \ {t, d} : lab'[n].type = lab[n].type
        /\ lab'[d].type = "DEFINITION"
        /\ \A n \in K \ {d} : n \in S <=> n \in S
    BY <1>4, <1>9, <2>1, <2>2, <2>5, <2>8
  <2> HIDE DEF K, below
  <2> QED
    BY <1>8, <1>9, <2>1, <2>2, <2>3, <2>4, <2>5, <2>6, <2>7, <2>9
<1>10. ASSUME nodes \in DOMAIN lab', Entitle(lab'[nodes]) PROVE Unnested(type)'
  <2> DEFINE d == nodes
  <2>1. /\ lab'[d].type = "DEFINITION"
        /\ par' = [n \in K \cup {d} |-> IF n = d THEN current ELSE IF n = t THEN d ELSE par[n]]
        /\ lab' = [n \in K \cup {d} |-> IF n = d THEN lab'[nodes] ELSE Titled(lab, t)[n]]
        /\ held' = Append(held, d)
    BY <1>10 DEF Entitle, t
  <2>2. /\ DOMAIN lab' = K \cup {d} /\ lab'[t].type = "DEFINITION_TITLE"
        /\ \A n \in K \ {t} : lab'[n] = lab[n]
    BY <1>3, <1>5, <2>1 DEF Titled, Label
  <2>3. PICK T : /\ T \subseteq K \cup {d} /\ (d \in T <=> below)
                 /\ \A n \in K : n \in T <=> n \in S
    <3> DEFINE U == IF below THEN S \cup {d} ELSE S
    <3>1. /\ U \subseteq K \cup {d} /\ (d \in U <=> below)
          /\ \A n \in K : n \in U <=> n \in S
      BY <1>3, <1>4
    <3> QED
      BY <3>1
  <2>4. \A n \in K \ {t} : par[n] # d
    BY <1>2, <1>3, Facts DEF IInv, TTypeOK, Shaped, Linked, None
  <2> QED
    BY <1>3, <1>5, <1>8, <2>1, <2>2, <2>3, <2>4
<1> QED
  BY <1>9, <1>10 DEF Enlist

\* A metadata node goes with its texts, and a new one comes.
LEMMA UnderMeta ==
  ASSUME IInv, NEW type \in Bodies, Unnested(type), phase = "parsing", Meta
  PROVE  Unnested(type)'
<1>0. PICK k, l, text : Putmeta(k, l, text)
  BY DEF Meta
<1>1. PICK S : Under(type, S)
  BY DEF Unnested
<1> DEFINE K == DOMAIN lab
           cs == kids[current]
           old == IF k = 0 THEN {} ELSE {cs[k]}
           gone == old \cup UNION {{kids[o][j] : j \in DOMAIN kids[o]} : o \in old}
           kept == K \ gone
           a == nodes
           b == nodes + 1
           new == IF text = <<>> THEN {a} ELSE {a, b}
           below == current \in S \/ lab[current].type = type
<1>2. /\ DOMAIN par = K /\ DOMAIN kids = K /\ Root \in K /\ a \notin K /\ b \notin K
      /\ a # Root /\ b # Root /\ a # b
      /\ current \in K
      /\ \A n \in K \ {Root} : par[n] \in K
      /\ \A k1 \in DOMAIN held : held[k1] \in K
      /\ below => \E j \in DOMAIN held : lab[held[j]].type = type
  BY <1>1, UnderFacts, Zenon
<1>3. /\ S \subseteq K
      /\ \A n \in K : n \in S <=> n # Root /\ (par[n] \in S \/ lab[par[n]].type = type)
      /\ \A n \in S : lab[n].type # type
      /\ \A k1 \in DOMAIN held :
           held[k1] \in S => \E j \in DOMAIN held : j < k1 /\ lab[held[j]].type = type
  BY <1>1 DEF Under
<1>4. /\ l.type = "META" /\ k \in 0 .. Len(cs) /\ (k # 0 => lab[cs[k]].type = "META")
      /\ held' = held
  BY <1>0 DEF Putmeta
<1>5. /\ DOMAIN lab' = kept \cup new
      /\ par' = [n \in kept \cup new |->
                   IF n \in kept THEN par[n] ELSE IF n = a THEN current ELSE a]
      /\ lab' = [n \in kept \cup new |->
                   IF n \in kept THEN lab[n] ELSE IF n = a THEN l ELSE Text({}, text)]
  BY <1>0 DEF Putmeta, Metadata_ids
<1>6. /\ \A n \in K : kids[n] \in Seq(K)
      /\ lab[Root].type = "ROOT" /\ lab[current].type \notin Leaves
      /\ \A n \in K : \A i \in DOMAIN kids[n] : kids[n][i] \in K
      /\ \A n \in K : n # Root => \E i \in DOMAIN kids[par[n]] : kids[par[n]][i] = n
      /\ \A n \in K : lab[n].type = "META" =>
           \A i \in DOMAIN kids[n] : lab[kids[n][i]].type = "NORMAL_TEXT"
      /\ \A n \in K : lab[n].type = "NORMAL_TEXT" => kids[n] = <<>>
      /\ \A j \in DOMAIN held : lab[held[j]].type \notin Leaves
  BY <1>2, Facts DEF IInv, TTypeOK, TreeWhole, LeavesBare, Shaped, Linked
<1>7. \A x : x \in gone <=>
        k # 0 /\ (x = cs[k] \/ \E j \in DOMAIN kids[cs[k]] : x = kids[cs[k]][j])
  OBVIOUS
<1>8. k # 0 => cs[k] \in K
  BY <1>2, <1>4, <1>6
<1> HIDE DEF gone, old, cs
<1>9. ASSUME NEW x \in gone
      PROVE  /\ x \in K /\ lab[x].type \in Leaves
             /\ \A i \in DOMAIN kids[x] : kids[x][i] \in gone
  <2>1. k # 0 /\ cs[k] \in K /\ lab[cs[k]].type = "META"
    BY <1>4, <1>7, <1>8, <1>9
  <2>2. CASE x = cs[k]
    BY <1>7, <1>9, <2>1, <2>2 DEF Leaves
  <2>3. CASE x # cs[k]
    <3>1. PICK j \in DOMAIN kids[cs[k]] : x = kids[cs[k]][j]
      BY <1>7, <1>9, <2>3
    <3>2. x \in K /\ lab[x].type = "NORMAL_TEXT"
      BY <1>6, <2>1, <3>1
    <3>3. DOMAIN kids[x] = {}
      BY <1>6, <3>2
    <3> QED
      BY <3>2, <3>3 DEF Leaves
  <2> QED
    BY <2>2, <2>3
<1>10. Root \in kept /\ current \in kept /\ \A j \in DOMAIN held : held[j] \in kept
  BY <1>2, <1>6, <1>9 DEF Leaves
<1>11. \A n \in kept : n # Root => par[n] \in kept
  <2> SUFFICES ASSUME NEW n \in kept, n # Root, par[n] \in gone PROVE FALSE
    BY <1>2
  <2>1. PICK i \in DOMAIN kids[par[n]] : kids[par[n]][i] = n
    BY <1>6
  <2> QED
    BY <1>9, <2>1
<1> HIDE DEF kept, new
<1>12. /\ \A n \in kept : n \in K /\ par'[n] = par[n] /\ lab'[n] = lab[n]
       /\ a \notin kept /\ b \notin kept
       /\ par'[a] = current /\ (b \in new => par'[b] = a)
       /\ lab'[a].type # type /\ (b \in new => lab'[b].type # type)
       /\ a \in new /\ \A n \in new : n = a \/ n = b
  <2>1. /\ \A n \in kept : n \in K
        /\ a \notin kept /\ b \notin kept
        /\ a \in new /\ \A n \in new : n = a \/ n = b
    BY <1>2 DEF kept, new
  <2>2. type \notin {"META", "NORMAL_TEXT"}
    BY DEF Bodies
  <2> HIDE DEF a, b
  <2> QED
    BY <1>2, <1>4, <1>5, <2>1, <2>2 DEF Text, Label
<1>13. PICK T : /\ T \subseteq kept \cup new
                /\ \A n \in kept : n \in T <=> n \in S
                /\ \A n \in new : n \in T <=> below
  <2> DEFINE U == {n \in kept : n \in S} \cup {n \in new : below}
  <2>1. /\ U \subseteq kept \cup new
        /\ \A n \in kept : n \in U <=> n \in S
        /\ \A n \in new : n \in U <=> below
    BY <1>12
  <2> QED
    BY <2>1
<1> HIDE DEF a, b
<1>14. ASSUME NEW n \in DOMAIN lab'
       PROVE  n \in T <=> n # Root /\ (par'[n] \in T \/ lab'[par'[n]].type = type)
  <2>1. CASE n \in kept
    BY <1>3, <1>10, <1>11, <1>12, <1>13, <2>1
  <2>2. CASE n \in new /\ n = a
    BY <1>2, <1>10, <1>12, <1>13, <2>2
  <2>3. CASE n \in new /\ n = b
    BY <1>2, <1>10, <1>12, <1>13, <2>3
  <2> QED
    BY <1>5, <1>12, <2>1, <2>2, <2>3
<1>15. ASSUME NEW n \in T PROVE lab'[n].type # type
  BY <1>3, <1>12, <1>13, <1>15
<1>16. ASSUME NEW k1 \in DOMAIN held', held'[k1] \in T
       PROVE  \E j \in DOMAIN held' : j < k1 /\ lab'[held'[j]].type = type
  BY <1>3, <1>4, <1>10, <1>12, <1>13, <1>16
<1>17. Under(type, T)'
  BY <1>5, <1>13, <1>14, <1>15, <1>16 DEF Under
<1> QED
  BY <1>17 DEF Unnested

LEMMA UnderInit == ASSUME NEW type, TInit PROVE Unnested(type)
<1>1. Under(type, {})
  BY DEF TInit, Under, Nothing
<1> QED
  BY <1>1 DEF Unnested

LEMMA UnderNext ==
  ASSUME IInv, NEW type \in Bodies, Unnested(type), Apart(type), [TNext]_tvars
  PROVE  Unnested(type)'
<1>1. CASE Pushroot
  <2>1. Under(type, {})'
    BY <1>1 DEF Pushroot, Under, Bodies, Node, Label
  <2> QED
    BY <2>1 DEF Unnested
<1>2. CASE Push \/ Leaf_node
  BY <1>2, UnderNew DEF Push, Leaf_node, Pushnode, Pushleaf
<1>3. CASE Cut_last
  BY <1>3, UnderCut
<1>4. CASE Enlist
  BY <1>4, UnderEnlist
<1>5. CASE phase = "parsing" /\ Meta
  BY <1>5, UnderMeta
<1>6. CASE Failed
  <2>1. Under(type, {})'
    BY <1>6 DEF Failed, Under, Nothing
  <2> QED
    BY <2>1 DEF Unnested
<1>7. CASE UNCHANGED tvars
  <2>1. lab' = lab /\ par' = par /\ held' = held
    BY <1>7 DEF tvars
  <2>2. PICK S : Under(type, S)
    BY DEF Unnested
  <2>3. Under(type, S)'
    BY <2>1, <2>2 DEF Under
  <2> QED
    BY <2>3 DEF Unnested
<1>8. ASSUME phase = "parsing"
      PROVE  /\ DOMAIN par = DOMAIN lab
             /\ \A n \in DOMAIN lab \ {Root} : par[n] \in DOMAIN lab
             /\ \A k \in DOMAIN held : held[k] \in DOMAIN lab
             /\ DOMAIN held = 1 .. Len(held) /\ Len(held) \in Nat
             /\ held \in Seq(DOMAIN lab)
  <2>1. PICK S : Under(type, S)
    BY DEF Unnested
  <2>2. held \in Seq(DOMAIN lab)
    BY DEF IInv, TTypeOK
  <2> QED
    BY <1>8, <2>1, <2>2, UnderFacts
<1>9. CASE Change \/ Aborted
  <2>1. /\ phase = "parsing" /\ DOMAIN lab' = DOMAIN lab /\ par' = par /\ held' = held
        /\ \A n \in DOMAIN lab : lab'[n].type = lab[n].type
    BY <1>9 DEF Change, Aborted, Sametypes
  <2>2. DOMAIN held' = {k \in DOMAIN held : k <= Len(held)}
    BY <1>8, <2>1
  <2> QED
    BY <1>8, <2>1, <2>2, UnderStays
<1>10. CASE \E n \in DOMAIN lab : Popnode(n)
  <2>1. /\ phase = "parsing" /\ lab' = lab /\ par' = par
        /\ held' = held \/ held' = SubSeq(held, 1, Len(held) - 1)
    BY <1>10 DEF Popnode
  <2>2. PICK m \in Nat : /\ DOMAIN held' = {k \in DOMAIN held : k <= m}
                         /\ \A k \in DOMAIN held' : held'[k] = held[k]
    <3>1. CASE held' = held
      BY <1>8, <2>1, <3>1
    <3>2. CASE held' = SubSeq(held, 1, Len(held) - 1)
      <4>1. Len(held) # 0
        BY <2>1, Facts
      <4>2. /\ DOMAIN held' = 1 .. Len(held) - 1
            /\ \A k \in 1 .. Len(held) - 1 : held'[k] = held[k]
        BY <1>8, <2>1, <3>2, <4>1, Fronted
      <4> QED
        BY <1>8, <2>1, <4>1, <4>2
    <3> QED
      BY <2>1, <3>1, <3>2
  <2> QED
    BY <1>8, <2>1, <2>2, UnderStays
<1> QED
  BY <1>1, <1>2, <1>3, <1>4, <1>5, <1>6, <1>7, <1>9, <1>10 DEF TNext
(***************************************************************************)
(* The nodes above a node: the least set that has its parent and those of  *)
(* its members.  It is what a recursive function that goes up the tree     *)
(* computes, whether or not that ends.                                     *)
(***************************************************************************)
Upward(n, S) ==
  /\ par[n] # None => par[n] \in S
  /\ \A x \in S : par[x] # None => par[x] \in S

Above(n) == {m \in DOMAIN par : \A S \in SUBSET DOMAIN par : Upward(n, S) => m \in S}

LEMMA AboveStep ==
  ASSUME \A x \in DOMAIN par : par[x] # None => par[x] \in DOMAIN par,
         NEW n \in DOMAIN par
  PROVE  Above(n) = IF par[n] = None THEN {} ELSE {par[n]} \cup Above(par[n])
<1> DEFINE p == par[n]
<1>1. CASE p = None
  <2>1. {} \in SUBSET DOMAIN par /\ Upward(n, {})
    BY <1>1 DEF Upward
  <2> QED
    BY <1>1, <2>1 DEF Above
<1>2. CASE p # None
  <2>1. ASSUME NEW m \in {p} \cup Above(p) PROVE m \in Above(n)
    <3>1. m \in DOMAIN par
      BY <1>2, <2>1 DEF Above
    <3>2. ASSUME NEW S \in SUBSET DOMAIN par, Upward(n, S) PROVE m \in S
      <4>1. p \in S /\ Upward(p, S)
        BY <1>2, <3>2 DEF Upward
      <4> QED
        BY <2>1, <4>1 DEF Above
    <3> QED
      BY <3>1, <3>2 DEF Above
  <2>2. ASSUME NEW m \in Above(n) PROVE m \in {p} \cup Above(p)
    <3> DEFINE S == {p} \cup Above(p)
    <3>1. S \in SUBSET DOMAIN par
      BY <1>2 DEF Above
    <3>2. ASSUME NEW x \in S, par[x] # None PROVE par[x] \in S
      <4>1. par[x] \in DOMAIN par
        BY <3>1, <3>2
      <4>2. ASSUME NEW T \in SUBSET DOMAIN par, Upward(p, T) PROVE par[x] \in T
        <5>1. CASE x = p
          BY <3>2, <4>2, <5>1 DEF Upward
        <5>2. CASE x \in Above(p)
          <6>1. x \in T
            BY <4>2, <5>2 DEF Above
          <6> QED
            BY <3>2, <4>2, <6>1 DEF Upward
        <5> QED
          BY <3>2, <5>1, <5>2
      <4>3. par[x] \in Above(p)
        BY <4>1, <4>2 DEF Above
      <4> QED
        BY <4>3
    <3>3. Upward(n, S)
      BY <3>2 DEF Upward
    <3> QED
      BY <2>2, <3>1, <3>3 DEF Above
  <2> QED
    BY <1>2, <2>1, <2>2
<1> QED
  BY <1>1, <1>2

\* No node of the type has another of it above, as a function going up finds them.
LEMMA NoneNested ==
  ASSUME IInv, Whole, NEW type, Unnested(type), NEW up,
         \A n \in DOMAIN lab : up[n] = IF par[n] = None THEN {} ELSE {par[n]} \cup up[par[n]],
         NEW n0 \in DOMAIN lab, lab[n0].type = type, NEW m0 \in up[n0]
  PROVE  lab[m0].type # type
<1>1. PICK S : Under(type, S)
  BY DEF Unnested
<1> DEFINE K == DOMAIN lab
           Has(n) == \E m \in up[n] : lab[m].type = type
           B == {n \in K : Has(n) /\ n \notin S}
<1>2. /\ Shaped /\ DOMAIN kids = K /\ nodes \in Nat
      /\ \A n \in K : par[n] = None <=> n = Root
  BY DEF IInv, TTypeOK, TreeWhole, Shaped, Linked
<1>3. B = {}
  <2> SUFFICES ASSUME B # {} PROVE FALSE
    OBVIOUS
  <2>1. \A n \in B : n # Root
    BY <1>2
  <2>2. ASSUME NEW n \in B
        PROVE  /\ par[n] \in K /\ Made(n) \in Nat /\ Made(par[n]) \in Nat
               /\ Made(par[n]) < Made(n)
    <3>1. n \in DOMAIN kids /\ n # Root
      BY <1>2, <2>1
    <3>2. /\ par[n] \in K /\ Made(n) \in 0 .. 2 * nodes /\ Made(par[n]) \in 0 .. 2 * nodes
          /\ Made(par[n]) < Made(n)
      BY <1>2, <3>1, MadeAfter
    <3> QED
      BY <3>2
  <2> DEFINE M == {Made(n) : n \in B}
  <2>3. M \in SUBSET Nat /\ M # {}
    BY <2>2
  <2> HIDE DEF M
  <2>4. PICK x \in M : \A y \in M : x <= y
    BY <2>3, LeastOf
  <2>5. PICK n \in B : x = Made(n)
    BY <2>4 DEF M
  <2>6. par[n] \notin B
    <3>1. par[n] \in B => Made(n) <= Made(par[n])
      BY <2>4, <2>5 DEF M
    <3> QED
      BY <2>2, <3>1
  <2>7. PICK m \in up[n] : lab[m].type = type
    OBVIOUS
  <2>8. up[n] = {par[n]} \cup up[par[n]]
    BY <1>2, <2>1
  <2>9. par[n] \in S \/ lab[par[n]].type = type
    <3>1. CASE m = par[n]
      BY <2>7, <3>1
    <3>2. CASE m \in up[par[n]]
      BY <2>2, <2>6, <2>7, <3>2
    <3> QED
      BY <2>7, <2>8, <3>1, <3>2
  <2>10. n \in S
    BY <1>1, <2>1, <2>9 DEF Under
  <2> QED
    BY <2>10
<1>4. n0 \notin S
  BY <1>1 DEF Under
<1> QED
  BY <1>3, <1>4

-------------------------------------------------------------------------------
(***************************************************************************)
(* How deep a node was when it was made: one deeper than its parent, but   *)
(* for the title of a definition list, which came where the list is.  A    *)
(* node is held where it was made, and nothing was made below a node that  *)
(* is deeper than maxdepth.                                                *)
(***************************************************************************)
Levelled(L) ==
  /\ \A n \in DOMAIN lab : L[n] \in Nat
  /\ L[Root] = 1
  /\ \A n \in DOMAIN lab : n # Root =>
       IF lab[n].type = "DEFINITION_TITLE" THEN L[n] = L[par[n]]
       ELSE L[n] = L[par[n]] + 1 /\ (maxdepth # 0 => L[par[n]] <= maxdepth)
  /\ phase = "parsing" => \A k \in DOMAIN held : L[held[k]] = k

Levels == Whole => \E L : Levelled(L)

\* The levels there are, while the parser is parsing.
LEMMA LevelFacts ==
  ASSUME IInv, phase = "parsing", Levels
  PROVE  /\ \E L : /\ L = [n \in DOMAIN lab |-> L[n]] /\ Levelled(L)
                   /\ L[current] = depth
         /\ maxdepth \in Nat /\ depth \in Nat \ {0}
         /\ DOMAIN par = DOMAIN lab /\ DOMAIN kids = DOMAIN lab
         /\ Root \in DOMAIN lab /\ lab[Root].type = "ROOT"
         /\ nodes \notin DOMAIN lab /\ nodes + 1 \notin DOMAIN lab
         /\ nodes # Root /\ nodes + 1 # Root /\ nodes # nodes + 1
         /\ current \in DOMAIN lab
         /\ \A n \in DOMAIN lab : n # Root => par[n] \in DOMAIN lab
         /\ \A n \in DOMAIN lab : n # Root => kids[par[n]] # <<>>
         /\ depth = Len(held) /\ DOMAIN held = 1 .. depth
         /\ held \in Seq(DOMAIN lab)
         /\ \A k \in DOMAIN held : held[k] \in DOMAIN lab
         /\ held[Len(held)] = current
<1>1. /\ DOMAIN par = DOMAIN lab /\ DOMAIN kids = DOMAIN lab
      /\ current \in DOMAIN lab
      /\ nodes \notin DOMAIN lab /\ nodes + 1 \notin DOMAIN lab /\ nodes \in Nat
      /\ \A n \in DOMAIN lab \ {Root} : par[n] \in DOMAIN lab
      /\ Len(held) \in Nat \ {0} /\ DOMAIN held = 1 .. Len(held)
      /\ Shaped
  BY Facts DEF IInv, TTypeOK
<1>2. held \in Seq(DOMAIN lab) /\ held[Len(held)] = current /\ depth = Len(held)
  BY <1>1 DEF IInv, TTypeOK, StackIsPath
<1>3. \A k \in DOMAIN held : held[k] \in DOMAIN lab
  BY <1>1, <1>2
<1>4. Root \in DOMAIN lab /\ lab[Root].type = "ROOT"
  BY <1>1 DEF Shaped
<1>5. nodes # Root /\ nodes + 1 # Root /\ nodes # nodes + 1
  BY <1>1, <1>4
<1>6. ASSUME NEW n \in DOMAIN lab, n # Root PROVE kids[par[n]] # <<>>
  <2>1. PICK k \in DOMAIN kids[par[n]] : kids[par[n]][k] = n
    BY <1>1, <1>6 DEF Shaped, Linked
  <2> QED
    BY <2>1
<1>7. maxdepth \in Nat
  BY MaxdepthsAssumption DEF IInv, TTypeOK
<1>8. PICK M : Levelled(M)
  BY DEF Levels, Whole
<1>9. PICK L : L = [n \in DOMAIN lab |-> M[n]]
  OBVIOUS
<1>10. Levelled(L)
  BY <1>1, <1>3, <1>4, <1>8, <1>9 DEF Levelled
<1>11. L[current] = depth
  <2>1. Len(held) \in DOMAIN held
    BY <1>1
  <2> QED
    BY <1>2, <1>10, <2>1 DEF Levelled
<1>12. L = [n \in DOMAIN lab |-> L[n]]
  BY <1>9
<1> QED
  BY <1>1, <1>2, <1>3, <1>4, <1>5, <1>6, <1>7, <1>10, <1>11, <1>12

\* One more node is held, at its level.
LEMMA LevelHeld ==
  ASSUME IInv, phase = "parsing", Levels, NEW L, Levelled(L), NEW M, NEW x,
         \A k \in DOMAIN held : M[held[k]] = L[held[k]],
         M[x] = depth + 1, held' = held \/ held' = Append(held, x)
  PROVE  \A k \in DOMAIN held' : M[held'[k]] = k
<1>1. depth \in Nat /\ depth = Len(held) /\ DOMAIN held = 1 .. depth /\ held \in Seq(DOMAIN lab)
  BY LevelFacts
<1>2. \A k \in DOMAIN held : M[held[k]] = k
  BY DEF Levelled
<1>3. CASE held' = held
  BY <1>2, <1>3
<1>4. CASE held' = Append(held, x)
  <2>1. held \in Seq(DOMAIN lab \cup {x})
    BY <1>1, Retyped
  <2>2. /\ DOMAIN held' = 1 .. Len(held) + 1
        /\ \A i \in 1 .. Len(held) : held'[i] = held[i]
        /\ held'[Len(held) + 1] = x
    BY <1>4, <2>1, Appended
  <2> QED
    BY <1>1, <1>2, <2>2
<1> QED
  BY <1>3, <1>4

\* A new node below the current one, held or not.
LEMMA LevelNew ==
  ASSUME IInv, phase = "parsing", Levels, ~TooDeep(depth), maxdepth' = maxdepth,
         Sametypes, NewNode(lab', current, lab'[nodes]),
         lab'[nodes].type # "DEFINITION_TITLE",
         held' = held \/ held' = Append(held, nodes)
  PROVE  Levels'
<1> DEFINE K == DOMAIN lab
<1>1. PICK L : Levelled(L) /\ L[current] = depth
  BY LevelFacts
<1>2. /\ DOMAIN par = K /\ Root \in K /\ nodes \notin K /\ nodes # Root /\ current \in K
      /\ \A n \in K : n # Root => par[n] \in K
      /\ depth \in Nat /\ maxdepth \in Nat
      /\ \A k \in DOMAIN held : held[k] \in K
  BY LevelFacts
<1>3. /\ DOMAIN lab' = K \cup {nodes}
      /\ par'[nodes] = current /\ \A n \in K : par'[n] = par[n]
      /\ \A n \in K : lab'[n].type = lab[n].type
  BY <1>2 DEF NewNode, Sametypes
<1>4. PICK M : /\ \A n \in K : M[n] = L[n]
               /\ M[nodes] = depth + 1
  <2> DEFINE N == [n \in K \cup {nodes} |-> IF n = nodes THEN depth + 1 ELSE L[n]]
  <2>1. /\ \A n \in K : N[n] = L[n]
        /\ N[nodes] = depth + 1
    BY <1>2
  <2> QED
    BY <2>1
<1>5. \A k \in DOMAIN held' : M[held'[k]] = k
  BY <1>1, <1>2, <1>4, LevelHeld
<1>6. ASSUME NEW n \in K, n # Root
      PROVE  IF lab'[n].type = "DEFINITION_TITLE" THEN M[n] = M[par'[n]]
             ELSE M[n] = M[par'[n]] + 1 /\ (maxdepth' # 0 => M[par'[n]] <= maxdepth')
  BY <1>1, <1>2, <1>3, <1>4, <1>6 DEF Levelled
<1>7. M[nodes] = M[par'[nodes]] + 1 /\ (maxdepth' # 0 => M[par'[nodes]] <= maxdepth')
  BY <1>1, <1>2, <1>3, <1>4 DEF TooDeep
<1>8. /\ M[Root] = 1 /\ \A n \in DOMAIN lab' : M[n] \in Nat
  BY <1>1, <1>2, <1>3, <1>4 DEF Levelled
<1>9. Levelled(M)'
  BY <1>3, <1>5, <1>6, <1>7, <1>8 DEF Levelled
<1> QED
  BY <1>9 DEF Levels

\* Nothing moves, and what is held is or was held before.
LEMMA LevelStays ==
  ASSUME NEW L, Levelled(L), DOMAIN lab' \subseteq DOMAIN lab, Root \in DOMAIN lab',
         \A n \in DOMAIN lab' : n # Root => par'[n] = par[n] /\ par[n] \in DOMAIN lab',
         \A n \in DOMAIN lab' : lab'[n].type = lab[n].type,
         maxdepth' = maxdepth,
         phase' = "parsing" =>
           /\ phase = "parsing"
           /\ \A k \in DOMAIN held' : k \in DOMAIN held /\ held'[k] = held[k]
  PROVE  Levels'
<1>1. Levelled(L)'
  BY DEF Levelled
<1> QED
  BY <1>1 DEF Levels

\* A text is cut: nothing is below it.
LEMMA LevelCut ==
  ASSUME IInv, Levels, Cut_last
  PROVE  Levels'
<1>0. PICK p \in DOMAIN lab :
        /\ \A n \in DOMAIN lab \ {Last_child(p)} : n \in DOMAIN lab' /\ lab'[n].type = lab[n].type
        /\ Removelast(lab', p)
  BY DEF Cut_last
<1> DEFINE K == DOMAIN lab
           t == Last_child(p)
<1>2. /\ phase = "parsing" /\ t # None /\ lab[t].type = "NORMAL_TEXT"
      /\ DOMAIN par' = K \ {t} /\ DOMAIN lab' = K \ {t}
      /\ \A n \in K \ {t} : par'[n] = par[n] /\ lab'[n].type = lab[n].type
      /\ held' = held /\ maxdepth' = maxdepth
  BY <1>0 DEF Removelast
<1>1. PICK L : Levelled(L)
  BY <1>2, LevelFacts
<1>3. /\ DOMAIN par = K /\ DOMAIN kids = K /\ Root \in K /\ lab[Root].type = "ROOT"
      /\ \A n \in K : n # Root => par[n] \in K
      /\ \A n \in K : n # Root => kids[par[n]] # <<>>
      /\ \A k \in DOMAIN held : held[k] \in K
  BY <1>2, LevelFacts
<1>5. t \in K
  BY <1>0, <1>2, <1>3, LastChild
<1>6. kids[t] = <<>>
  BY <1>2, <1>3, <1>5 DEF IInv, TreeWhole, LeavesBare, Leaves
<1> HIDE DEF t
<1>7. \A n \in K : n # Root => par[n] \in K \ {t}
  BY <1>3, <1>6
<1> QED
  BY <1>1, <1>2, <1>3, <1>7, LevelStays

\* A paragraph moves to a definition list, which is where it was.
LEMMA LevelEnlist ==
  ASSUME IInv, Levels, Enlist
  PROVE  Levels'
<1> DEFINE K == DOMAIN lab
           t == Last_child(current)
<1>2. phase = "parsing" /\ t # None /\ lab[t].type = "PARAGRAPH" /\ maxdepth' = maxdepth
  BY DEF Enlist, Retitle, Entitle
<1>1. PICK L : Levelled(L) /\ L[current] = depth
  BY <1>2, LevelFacts
<1>3. /\ DOMAIN par = K /\ DOMAIN kids = K /\ Root \in K /\ nodes \notin K /\ nodes # Root
      /\ current \in K /\ maxdepth \in Nat /\ depth \in Nat
      /\ \A n \in K : n # Root => par[n] \in K
      /\ \A k \in DOMAIN held : held[k] \in K
  BY <1>2, LevelFacts
<1>5. /\ t \in K /\ t # Root /\ par[t] = current /\ t # current
      /\ Len(kids[current]) \in Nat \ {0} /\ DOMAIN kids[current] = 1 .. Len(kids[current])
      /\ kids[current][Len(kids[current])] = t
      /\ \A k \in DOMAIN held : held[k] # t
  BY <1>2, <1>3, TitleFacts
<1>6. L[t] = depth + 1 /\ (maxdepth # 0 => depth <= maxdepth)
  BY <1>1, <1>2, <1>5 DEF Levelled
<1> HIDE DEF t
\* The list may be a node that is there or a new one: d is below the current node.
<1>8. ASSUME NEW d, d # t, d # current, DOMAIN lab' = K \cup {d},
             \A n \in K \ {t, d} : par'[n] = par[n], par'[t] = d, par'[d] = current, d # Root,
             \A n \in K \ {t, d} : lab'[n].type = lab[n].type,
             lab'[t].type = "DEFINITION_TITLE", lab'[d].type = "DEFINITION",
             d \in K => L[d] = depth + 1,
             held' = Append(held, d)
      PROVE  Levels'
  <2>1. PICK M : /\ \A n \in K : M[n] = L[n]
                 /\ M[d] = depth + 1
    <3> DEFINE N == [n \in K \cup {d} |-> IF n = d THEN depth + 1 ELSE L[n]]
    <3>1. /\ \A n \in K : N[n] = L[n]
          /\ N[d] = depth + 1
      BY <1>8
    <3> QED
      BY <3>1
  <2>2. \A k \in DOMAIN held' : M[held'[k]] = k
    BY <1>1, <1>2, <1>3, <1>8, <2>1, LevelHeld
  <2>3. ASSUME NEW n \in K \cup {d}, n # Root
        PROVE  IF lab'[n].type = "DEFINITION_TITLE" THEN M[n] = M[par'[n]]
               ELSE M[n] = M[par'[n]] + 1 /\ (maxdepth' # 0 => M[par'[n]] <= maxdepth')
    <3>1. CASE n = d
      BY <1>1, <1>2, <1>3, <1>6, <1>8, <2>1, <3>1
    <3>2. CASE n = t
      BY <1>5, <1>6, <1>8, <2>1, <3>2
    <3>3. CASE n \in K \ {t, d}
      BY <1>1, <1>2, <1>3, <1>8, <2>1, <2>3, <3>3 DEF Levelled
    <3> QED
      BY <2>3, <3>1, <3>2, <3>3
  <2>4. M[Root] = 1 /\ \A n \in K \cup {d} : M[n] \in Nat
    BY <1>1, <1>3, <2>1 DEF Levelled
  <2>5. Levelled(M)'
    BY <1>8, <2>2, <2>3, <2>4 DEF Levelled
  <2> QED
    BY <2>5 DEF Levels
<1>9. ASSUME NEW d \in K, Retitle(d) PROVE Levels'
  <2>1. /\ Len(kids[current]) > 1 /\ d = kids[current][Len(kids[current]) - 1]
        /\ lab[d].type = "DEFINITION"
        /\ par' = [n \in K |-> IF n = t THEN d ELSE par[n]]
        /\ lab' = Titled(lab, t) /\ held' = Append(held, d)
    BY <1>3, <1>9 DEF Retitle, t
  <2>2. d # t
    BY <1>2, <2>1
  <2>3. par[d] = current /\ d # Root
    <3>1. Len(kids[current]) - 1 \in DOMAIN kids[current]
      BY <1>5, <2>1
    <3>2. Linked /\ \A n \in K : n \in Nat
      BY <1>2, <1>3, Facts DEF Shaped
    <3>3. par[d] = current
      BY <1>3, <2>1, <3>1, <3>2 DEF Linked
    <3> QED
      BY <1>3, <3>2, <3>3 DEF Linked, None
  <2>4. d # current
    BY <1>2, <1>3, <2>3, Facts
  <2>5. /\ DOMAIN lab' = K /\ lab'[t].type = "DEFINITION_TITLE"
        /\ \A n \in K \ {t} : lab'[n] = lab[n]
    BY <1>5, <2>1 DEF Titled, Label
  <2>6. L[d] = depth + 1
    BY <1>1, <1>9, <2>1, <2>3 DEF Levelled
  <2>7. /\ \A n \in K \ {t, d} : par'[n] = par[n]
        /\ par'[t] = d /\ par'[d] = current
    BY <1>5, <1>9, <2>1, <2>2, <2>3
  <2>8. K \cup {d} = K
    BY <1>9
  <2>9. /\ DOMAIN lab' = K \cup {d}
        /\ \A n \in K \ {t, d} : lab'[n].type = lab[n].type
        /\ lab'[d].type = "DEFINITION"
    BY <1>9, <2>1, <2>2, <2>5, <2>8
  <2> HIDE DEF K
  <2> QED
    BY <1>8, <1>9, <2>1, <2>2, <2>3, <2>4, <2>5, <2>6, <2>7, <2>9
<1>10. ASSUME nodes \in DOMAIN lab', Entitle(lab'[nodes]) PROVE Levels'
  <2> DEFINE d == nodes
  <2>1. /\ lab'[d].type = "DEFINITION"
        /\ par' = [n \in K \cup {d} |-> IF n = d THEN current ELSE IF n = t THEN d ELSE par[n]]
        /\ lab' = [n \in K \cup {d} |-> IF n = d THEN lab'[nodes] ELSE Titled(lab, t)[n]]
        /\ held' = Append(held, d)
    BY <1>10 DEF Entitle, t
  <2>2. /\ DOMAIN lab' = K \cup {d} /\ lab'[t].type = "DEFINITION_TITLE"
        /\ \A n \in K \ {t} : lab'[n] = lab[n]
    BY <1>3, <1>5, <2>1 DEF Titled, Label
  <2> QED
    BY <1>3, <1>5, <1>8, <2>1, <2>2
<1> QED
  BY <1>9, <1>10 DEF Enlist

\* A metadata node goes with its texts, and a new one comes.
LEMMA LevelMeta ==
  ASSUME IInv, Levels, phase = "parsing", Meta
  PROVE  Levels'
<1>0. PICK k, l, text : Putmeta(k, l, text)
  BY DEF Meta
<1> DEFINE K == DOMAIN lab
           cs == kids[current]
           old == IF k = 0 THEN {} ELSE {cs[k]}
           gone == old \cup UNION {{kids[o][j] : j \in DOMAIN kids[o]} : o \in old}
           kept == K \ gone
           a == nodes
           b == nodes + 1
           new == IF text = <<>> THEN {a} ELSE {a, b}
<1>1. PICK L : Levelled(L) /\ L[current] = depth
  BY LevelFacts
<1>2. /\ DOMAIN par = K /\ DOMAIN kids = K /\ Root \in K /\ a \notin K /\ b \notin K
      /\ a # Root /\ b # Root /\ a # b
      /\ current \in K /\ maxdepth \in Nat /\ depth \in Nat
      /\ \A n \in K : n # Root => par[n] \in K
      /\ \A k1 \in DOMAIN held : held[k1] \in K
  BY LevelFacts, Zenon
<1>4. /\ l.type = "META" /\ k \in 0 .. Len(cs) /\ (k # 0 => lab[cs[k]].type = "META")
      /\ held' = held /\ maxdepth' = maxdepth /\ ~TooDeep(depth)
      /\ text # <<>> => ~TooDeep(depth + 1)
  BY <1>0 DEF Putmeta
<1>5. /\ DOMAIN lab' = kept \cup new
      /\ par' = [n \in kept \cup new |->
                   IF n \in kept THEN par[n] ELSE IF n = a THEN current ELSE a]
      /\ lab' = [n \in kept \cup new |->
                   IF n \in kept THEN lab[n] ELSE IF n = a THEN l ELSE Text({}, text)]
  BY <1>0 DEF Putmeta, Metadata_ids
<1>6. /\ \A n \in K : kids[n] \in Seq(K)
      /\ lab[Root].type = "ROOT" /\ lab[current].type \notin Leaves
      /\ \A n \in K : \A i \in DOMAIN kids[n] : kids[n][i] \in K
      /\ \A n \in K : n # Root => \E i \in DOMAIN kids[par[n]] : kids[par[n]][i] = n
      /\ \A n \in K : lab[n].type = "META" =>
           \A i \in DOMAIN kids[n] : lab[kids[n][i]].type = "NORMAL_TEXT"
      /\ \A n \in K : lab[n].type = "NORMAL_TEXT" => kids[n] = <<>>
      /\ \A j \in DOMAIN held : lab[held[j]].type \notin Leaves
  BY <1>2, Facts DEF IInv, TTypeOK, TreeWhole, LeavesBare, Shaped, Linked
<1>7. \A x : x \in gone <=>
        k # 0 /\ (x = cs[k] \/ \E j \in DOMAIN kids[cs[k]] : x = kids[cs[k]][j])
  OBVIOUS
<1>8. k # 0 => cs[k] \in K
  BY <1>2, <1>4, <1>6
<1> HIDE DEF gone, old, cs
<1>9. ASSUME NEW x \in gone
      PROVE  /\ x \in K /\ lab[x].type \in Leaves
             /\ \A i \in DOMAIN kids[x] : kids[x][i] \in gone
  <2>1. k # 0 /\ cs[k] \in K /\ lab[cs[k]].type = "META"
    BY <1>4, <1>7, <1>8, <1>9
  <2>2. CASE x = cs[k]
    BY <1>7, <1>9, <2>1, <2>2 DEF Leaves
  <2>3. CASE x # cs[k]
    <3>1. PICK j \in DOMAIN kids[cs[k]] : x = kids[cs[k]][j]
      BY <1>7, <1>9, <2>3
    <3>2. x \in K /\ lab[x].type = "NORMAL_TEXT"
      BY <1>6, <2>1, <3>1
    <3>3. DOMAIN kids[x] = {}
      BY <1>6, <3>2
    <3> QED
      BY <3>2, <3>3 DEF Leaves
  <2> QED
    BY <2>2, <2>3
<1>10. Root \in kept /\ current \in kept /\ \A j \in DOMAIN held : held[j] \in kept
  BY <1>2, <1>6, <1>9 DEF Leaves
<1>11. \A n \in kept : n # Root => par[n] \in kept
  <2> SUFFICES ASSUME NEW n \in kept, n # Root, par[n] \in gone PROVE FALSE
    BY <1>2
  <2>1. PICK i \in DOMAIN kids[par[n]] : kids[par[n]][i] = n
    BY <1>6
  <2> QED
    BY <1>9, <2>1
<1> HIDE DEF kept, new
<1>12. /\ \A n \in kept : n \in K /\ par'[n] = par[n] /\ lab'[n] = lab[n]
       /\ a \notin kept /\ b \notin kept
       /\ par'[a] = current /\ (b \in new => par'[b] = a /\ text # <<>>)
       /\ lab'[a].type # "DEFINITION_TITLE" /\ (b \in new => lab'[b].type # "DEFINITION_TITLE")
       /\ a \in new /\ \A n \in new : n = a \/ n = b
  <2>1. /\ \A n \in kept : n \in K
        /\ a \notin kept /\ b \notin kept
        /\ a \in new /\ (\A n \in new : n = a \/ n = b) /\ (b \in new => text # <<>>)
    BY <1>2 DEF kept, new
  <2> HIDE DEF a, b
  <2> QED
    BY <1>2, <1>4, <1>5, <2>1 DEF Text, Label
<1>13. PICK M : /\ \A n \in K : M[n] = L[n]
                /\ M[a] = depth + 1 /\ M[b] = depth + 2
  <2> DEFINE N == [n \in K \cup {a, b} |-> IF n = a THEN depth + 1 ELSE IF n = b THEN depth + 2 ELSE L[n]]
  <2>1. /\ \A n \in K : N[n] = L[n]
        /\ N[a] = depth + 1 /\ N[b] = depth + 2
    BY <1>2
  <2> QED
    BY <2>1
<1> HIDE DEF a, b
<1>14. ASSUME NEW n \in kept \cup new, n # Root
       PROVE  IF lab'[n].type = "DEFINITION_TITLE" THEN M[n] = M[par'[n]]
              ELSE M[n] = M[par'[n]] + 1 /\ (maxdepth' # 0 => M[par'[n]] <= maxdepth')
  <2>1. CASE n \in kept
    <3>1. /\ n \in K /\ par'[n] = par[n] /\ lab'[n].type = lab[n].type /\ par[n] \in K
      BY <1>11, <1>12, <1>14, <2>1
    <3> QED
      BY <1>1, <1>4, <1>13, <1>14, <3>1 DEF Levelled
  <2>2. CASE n \in new /\ n = a
    BY <1>1, <1>2, <1>4, <1>12, <1>13, <2>2 DEF TooDeep
  <2>3. CASE n \in new /\ n = b
    BY <1>1, <1>2, <1>4, <1>12, <1>13, <2>3 DEF TooDeep
  <2> QED
    BY <1>12, <1>14, <2>1, <2>2, <2>3
<1>15. M[Root] = 1 /\ \A n \in DOMAIN lab' : M[n] \in Nat
  BY <1>1, <1>2, <1>5, <1>12, <1>13 DEF Levelled
<1>16. \A k1 \in DOMAIN held' : M[held'[k1]] = k1
  BY <1>1, <1>2, <1>4, <1>13 DEF Levelled
<1>17. Levelled(M)'
  BY <1>5, <1>14, <1>15, <1>16 DEF Levelled
<1> QED
  BY <1>17 DEF Levels

LEMMA LevelInit == TInit => Levels
BY DEF TInit, Levels, Whole

LEMMA LevelNext ==
  ASSUME IInv, Levels, [TNext]_tvars
  PROVE  Levels'
<1>1. CASE Pushroot
  <2> DEFINE M == [n \in {Root} |-> 1]
  <2>1. Levelled(M)'
    BY <1>1 DEF Pushroot, Levelled
  <2> QED
    BY <2>1 DEF Levels
<1>2. CASE Push \/ Leaf_node
  <2>1. /\ phase = "parsing" /\ ~TooDeep(depth) /\ maxdepth' = maxdepth /\ Sametypes
        /\ NewNode(lab', current, lab'[nodes]) /\ lab'[nodes].type # "DEFINITION_TITLE"
        /\ held' = held \/ held' = Append(held, nodes)
    BY <1>2 DEF Push, Leaf_node, Pushnode, Pushleaf
  <2> QED
    BY <2>1, LevelNew
<1>3. CASE Cut_last
  BY <1>3, LevelCut
<1>4. CASE Enlist
  BY <1>4, LevelEnlist
<1>5. CASE phase = "parsing" /\ Meta
  BY <1>5, LevelMeta
<1>6. CASE Failed
  BY <1>6 DEF Failed, Levels, Whole
<1>7. CASE UNCHANGED tvars
  <2>1. lab' = lab /\ par' = par /\ held' = held /\ maxdepth' = maxdepth /\ phase' = phase
    BY <1>7 DEF tvars
  <2> QED
    BY <2>1 DEF Levels, Levelled, Whole
<1>8. ASSUME phase = "parsing"
      PROVE  /\ Root \in DOMAIN lab
             /\ \A n \in DOMAIN lab : n # Root => par[n] \in DOMAIN lab
             /\ DOMAIN held = 1 .. Len(held) /\ Len(held) \in Nat \ {0}
             /\ held \in Seq(DOMAIN lab)
             /\ \E L : Levelled(L)
  BY <1>8, LevelFacts
<1>9. CASE Change \/ Aborted
  <2>1. /\ phase = "parsing" /\ DOMAIN lab' = DOMAIN lab /\ par' = par /\ held' = held
        /\ \A n \in DOMAIN lab : lab'[n].type = lab[n].type
        /\ maxdepth' = maxdepth
    BY <1>9 DEF Change, Aborted, Sametypes
  <2> QED
    BY <1>8, <2>1, LevelStays
<1>10. CASE \E n \in DOMAIN lab : Popnode(n)
  <2>1. /\ phase = "parsing" /\ lab' = lab /\ par' = par /\ maxdepth' = maxdepth
        /\ held' = held \/ held' = SubSeq(held, 1, Len(held) - 1)
    BY <1>10 DEF Popnode
  <2>2. \A k \in DOMAIN held' : k \in DOMAIN held /\ held'[k] = held[k]
    <3>1. CASE held' = held
      BY <3>1
    <3>2. CASE held' = SubSeq(held, 1, Len(held) - 1)
      <4>1. held # <<>>
        BY <1>8, <2>1
      <4>2. /\ DOMAIN held' = 1 .. Len(held) - 1
            /\ \A k \in 1 .. Len(held) - 1 : held'[k] = held[k]
        BY <1>8, <2>1, <3>2, <4>1, Fronted
      <4> QED
        BY <1>8, <2>1, <4>1, <4>2
    <3> QED
      BY <2>1, <3>1, <3>2
  <2> QED
    BY <1>8, <2>1, <2>2, LevelStays
<1> QED
  BY <1>1, <1>2, <1>3, <1>4, <1>5, <1>6, <1>7, <1>9, <1>10 DEF TNext

-------------------------------------------------------------------------------
(***************************************************************************)
(* What is left to do.  Things to do are put before others and taken from  *)
(* the front, but for the end of a link's body or a footnote, which is the *)
(* last thing to do for its node.  Only the first thing of all may be      *)
(* parse_inline() on its way, with text behind it that is in the tree.     *)
(***************************************************************************)
Closing == {"link_end", "foot_end"}

\* Parse_inline is a record that has what is looked at here.
Formed(x) == x.do = "parse_inline" => {"do", "offset"} \subseteq DOMAIN x

Plain_do(x) ==
  /\ x.do \notin Closing \cup {"header", "add_metadata"}
  /\ Formed(x)
  /\ x.do = "parse_inline" => x.offset = 0

\* What may come first.
First_do(x, text) ==
  /\ x.do \notin Closing \cup {"header", "add_metadata"}
  /\ Formed(x)
  /\ x.do = "parse_inline" => x.offset = 0 \/ text

Closes(s, name) == s # <<>> /\ s[Len(s)].do = name

(***************************************************************************)
(* w is the work for the nodes h of a tree with labels l; link, foot and   *)
(* text are in_link_body, in_footnote and whether a text came last.        *)
(***************************************************************************)
Doing(w, i, j, text) ==
  LET x == w[i][j] IN
  /\ x.do \notin {"header", "add_metadata"} /\ Formed(x)
  /\ x.do = "parse_inline" => x.offset = 0 \/ (i = Len(w) /\ j = 1 /\ text)
  /\ x.do \in Closing => j = Len(w[i])

Closed(w, h, l, name, type) ==
  /\ \A i \in 1 .. Len(w) : Closes(w[i], name) <=> l[h[i]].type = type /\ w[i] # <<>>
  /\ \A i, j \in 1 .. Len(w) : Closes(w[i], name) /\ Closes(w[j], name) => i = j

\* The body of none of the first n nodes is done.
Begun(w, h, l, n) == \A i \in 1 .. n : l[h[i]].type \in Bodies => w[i] # <<>>

Ordered(w, h, l, link, foot, text) ==
  /\ \E S : w \in Seq(Seq(S))
  /\ Len(w) = Len(h)
  /\ Begun(w, h, l, Len(w) - 1)
  /\ \A i \in 1 .. Len(w) : \A j \in 1 .. Len(w[i]) : Doing(w, i, j, text)
  /\ Closed(w, h, l, "link_end", "LINK")
  /\ Closed(w, h, l, "foot_end", "FOOTNOTE")
  /\ link <=> \E i \in 1 .. Len(w) : Closes(w[i], "link_end")
  /\ (\E i \in 1 .. Len(w) : Closes(w[i], "foot_end")) => foot

\* Other things in place of the first.
Replaced(w, items) == [w EXCEPT ![Len(w)] = items \o Tail(@)]

LEMMA SameLength ==
  ASSUME NEW m \in Nat, NEW n \in Nat, 1 .. m = 1 .. n
  PROVE  m = n
<1>1. CASE m < n
  <2>1. n \in 1 .. n /\ n \notin 1 .. m
    BY <1>1
  <2> QED
    BY <2>1
<1>2. CASE n < m
  <2>1. m \in 1 .. m /\ m \notin 1 .. n
    BY <1>2
  <2> QED
    BY <2>1
<1> QED
  BY <1>1, <1>2

\* What there is to do after that.
Replacing(w, items, u) ==
  LET n == Len(w) IN
  /\ n \in Nat \ {0} /\ Len(u) = n
  /\ \A i \in 1 .. n - 1 : u[i] = w[i]
  /\ Len(items) \in Nat /\ Len(w[n]) \in Nat \ {0}
  /\ Len(u[n]) = Len(items) + Len(w[n]) - 1
  /\ \A j \in 1 .. Len(items) : u[n][j] = items[j]
  /\ \A j \in Len(items) + 1 .. Len(u[n]) :
       /\ j - Len(items) + 1 \in 2 .. Len(w[n])
       /\ u[n][j] = w[n][j - Len(items) + 1]

LEMMA ReplacedSeq ==
  ASSUME NEW S, NEW w \in Seq(Seq(S)), w # <<>>, w[Len(w)] # <<>>,
         NEW T, NEW items \in Seq(T)
  PROVE  /\ Replaced(w, items) \in Seq(Seq(S \cup T))
         /\ Replacing(w, items, Replaced(w, items))
<1> DEFINE U == S \cup T
           n == Len(w)
           t == Tail(w[n])
           s == items \o t
           u == Replaced(w, items)
<1>1. n \in Nat \ {0} /\ w \in [1 .. n -> Seq(S)]
  BY EmptySeq, LenProperties
<1>2. w[n] \in Seq(S) /\ w[n] # <<>>
  BY <1>1
<1>3. t \in Seq(S) /\ Len(w[n]) \in Nat \ {0} /\ Len(t) = Len(w[n]) - 1
      /\ \A j \in 1 .. Len(t) : t[j] = w[n][j + 1]
  BY <1>2, HeadTailProperties, EmptySeq
<1>4. t \in Seq(U) /\ items \in Seq(U)
  BY <1>3, SeqMonotonic
<1>5. /\ s \in Seq(U) /\ Len(items) \in Nat /\ Len(s) = Len(items) + Len(t)
      /\ \A j \in 1 .. Len(s) : s[j] = IF j <= Len(items) THEN items[j] ELSE t[j - Len(items)]
  BY <1>4, ConcatProperties, LenProperties
<1>6. \A i \in 1 .. n : w[i] \in Seq(U)
  BY <1>1, SeqMonotonic
<1>7. /\ u = [i \in 1 .. n |-> IF i = n THEN s ELSE w[i]]
  BY <1>1 DEF Replaced
<1> HIDE DEF n, u, s, t, U
<1>8. u \in [1 .. n -> Seq(U)]
  BY <1>5, <1>6, <1>7
<1>9. u \in Seq(Seq(U)) /\ Len(u) = n
  <2>1. u \in Seq(Seq(U))
    BY <1>1, <1>8, SeqDef
  <2>2. Len(u) \in Nat /\ DOMAIN u = 1 .. Len(u) /\ DOMAIN u = 1 .. n
    BY <1>8, <2>1, LenProperties
  <2> QED
    BY <1>1, <2>1, <2>2, SameLength
<1>10. u[n] = s /\ \A i \in 1 .. n - 1 : u[i] = w[i]
  BY <1>1, <1>7
<1>11. ASSUME NEW j \in 1 .. Len(items) PROVE u[n][j] = items[j]
  <2>1. Len(t) \in Nat
    BY <1>3
  <2>2. j \in 1 .. Len(s) /\ j <= Len(items)
    BY <1>5, <2>1
  <2>3. s[j] = items[j]
    BY <1>5, <2>2
  <2> QED
    BY <1>10, <2>3
<1>12. ASSUME NEW j \in Len(items) + 1 .. Len(u[n])
       PROVE  /\ j - Len(items) + 1 \in 2 .. Len(w[n])
              /\ u[n][j] = w[n][j - Len(items) + 1]
  <2> DEFINE k == j - Len(items)
  <2>1. k \in 1 .. Len(t) /\ j \in 1 .. Len(s) /\ ~(j <= Len(items))
    BY <1>3, <1>5, <1>10
  <2>2. s[j] = t[k]
    BY <1>5, <2>1
  <2>3. t[k] = w[n][k + 1]
    BY <1>3, <2>1
  <2>4. k + 1 \in 2 .. Len(w[n]) /\ j - Len(items) + 1 = k + 1
    BY <1>3, <1>5, <2>1
  <2> QED
    BY <1>10, <2>2, <2>3, <2>4
<1> QED
  BY <1>1, <1>3, <1>5, <1>9, <1>10, <1>11, <1>12 DEF n, u, U, Replacing

\* Whether the work of a node ends with the end of a body.
LEMMA ClosesKept ==
  ASSUME NEW S, NEW w \in Seq(Seq(S)), w # <<>>, w[Len(w)] # <<>>,
         w[Len(w)][1].do \notin Closing,
         NEW T, NEW items \in Seq(T),
         \A j \in 1 .. Len(items) : items[j].do \notin Closing,
         NEW name \in Closing
  PROVE  Closes(Replaced(w, items)[Len(w)], name) <=> Closes(w[Len(w)], name)
<1> DEFINE u == Replaced(w, items)
           n == Len(w)
           a == Len(items)
           m == Len(w[n])
<1>0. u \in Seq(Seq(S \cup T)) /\ Replacing(w, items, u)
  BY ReplacedSeq
<1>1. /\ n \in Nat \ {0} /\ u \in Seq(Seq(S \cup T)) /\ Len(u) = n
      /\ a \in Nat /\ m \in Nat \ {0} /\ Len(u[n]) = a + m - 1
      /\ \A j \in 1 .. a : u[n][j] = items[j]
      /\ \A j \in a + 1 .. Len(u[n]) : u[n][j] = w[n][j - a + 1]
  <2> HIDE DEF u
  <2> QED
    BY <1>0 DEF Replacing
<1>2. u[n] \in Seq(S \cup T)
  BY <1>1
<1> SUFFICES Closes(u[n], name) <=> Closes(w[n], name)
  OBVIOUS
<1>3. w[n] # <<>> /\ w[n][1].do \notin Closing
  OBVIOUS
<1> HIDE DEF u, n, a, m
<1>4. CASE m = 1
  <2>1. ~Closes(w[n], name)
    BY <1>3, <1>4 DEF Closes, m
  <2>2. CASE a = 0
    <3>1. u[n] = <<>>
      BY <1>1, <1>2, <1>4, <2>2, EmptySeq
    <3> QED
      BY <2>1, <3>1 DEF Closes
  <2>3. CASE a # 0
    <3>1. Len(u[n]) = a /\ a \in 1 .. a
      BY <1>1, <1>4, <2>3
    <3>2. u[n][Len(u[n])].do \notin Closing
      BY <1>1, <3>1 DEF a
    <3> QED
      BY <2>1, <3>2 DEF Closes
  <2> QED
    BY <2>2, <2>3
<1>5. CASE m # 1
  <2>1. Len(u[n]) \in a + 1 .. Len(u[n]) /\ Len(u[n]) - a + 1 = m
    BY <1>1, <1>5
  <2>2. u[n][Len(u[n])] = w[n][m]
    BY <1>1, <2>1
  <2>3. u[n] # <<>>
    BY <1>1, <2>1, EmptySeq
  <2> QED
    BY <1>3, <2>2, <2>3 DEF Closes, m
<1> QED
  BY <1>4, <1>5

LEMMA OrderedReplaced ==
  ASSUME NEW w, NEW h, NEW l, NEW link, NEW foot, NEW text, Ordered(w, h, l, link, foot, text),
         w # <<>>, w[Len(w)] # <<>>, w[Len(w)][1].do \notin Closing,
         NEW T, NEW items \in Seq(T), NEW next,
         \A j \in 1 .. Len(items) : Plain_do(items[j]) \/ (j = 1 /\ First_do(items[j], next))
  PROVE  Ordered(Replaced(w, items), h, l, link, foot, next)
<1>1. PICK S : w \in Seq(Seq(S))
  BY DEF Ordered
<1> DEFINE u == Replaced(w, items)
           n == Len(w)
           a == Len(items)
           m == Len(w[n])
<1>2. /\ n \in Nat \ {0} /\ u \in Seq(Seq(S \cup T)) /\ Len(u) = n
      /\ \A i \in 1 .. n - 1 : u[i] = w[i]
      /\ a \in Nat /\ m \in Nat \ {0} /\ Len(u[n]) = a + m - 1
      /\ \A j \in 1 .. a : u[n][j] = items[j]
      /\ \A j \in a + 1 .. Len(u[n]) : /\ j - a + 1 \in 2 .. m
                                       /\ u[n][j] = w[n][j - a + 1]
  <2>1. u \in Seq(Seq(S \cup T)) /\ Replacing(w, items, u)
    BY <1>1, ReplacedSeq
  <2> HIDE DEF u
  <2> QED
    BY <2>1 DEF Replacing
<1>3. \A name \in Closing : Closes(u[n], name) <=> Closes(w[n], name)
  <2>1. \A j \in 1 .. Len(items) : items[j].do \notin Closing
    BY DEF Plain_do, First_do
  <2> QED
    BY <1>1, <2>1, ClosesKept
<1> SUFFICES Ordered(u, h, l, link, foot, next)
  OBVIOUS
<1> HIDE DEF u, n, m
<1>4. \A i \in 1 .. n : \A j \in 1 .. Len(w[i]) : Doing(w, i, j, text)
  BY DEF Ordered, n
<1>5. ASSUME NEW j \in 1 .. Len(u[n]) PROVE Doing(u, n, j, next)
  <2>1. CASE j \in 1 .. a
    <3>1. u[n][j] = items[j]
      BY <1>2, <2>1
    <3>2. Plain_do(items[j]) \/ (j = 1 /\ First_do(items[j], next))
      BY <2>1
    <3> QED
      BY <1>2, <3>1, <3>2 DEF Doing, Plain_do, First_do
  <2>2. CASE j \in a + 1 .. Len(u[n])
    <3> DEFINE k == j - a + 1
    <3>1. k \in 2 .. m /\ u[n][j] = w[n][k]
      BY <1>2, <2>2
    <3>5. k \in 1 .. Len(w[n])
      BY <3>1, <1>2 DEF m
    <3>3. k = m => j = Len(u[n])
      BY <1>2, <2>2
    <3> HIDE DEF k
    <3>2. Doing(w, n, k, text)
      BY <1>2, <1>4, <3>5
    <3>4. k # 1
      BY <3>1, <1>2
    <3> QED
      BY <1>2, <3>1, <3>2, <3>3, <3>4 DEF Doing, m
  <2> QED
    BY <1>2, <2>1, <2>2
<1>6. ASSUME NEW i \in 1 .. n - 1, NEW j \in 1 .. Len(u[i]) PROVE Doing(u, i, j, next)
  <2>1. u[i] = w[i] /\ i \in 1 .. n /\ i # n
    BY <1>2
  <2>2. Doing(w, i, j, text)
    BY <1>4, <2>1
  <2> QED
    BY <1>2, <2>1, <2>2 DEF Doing, n
<1>7. \A i \in 1 .. n : \A name \in Closing : Closes(u[i], name) <=> Closes(w[i], name)
  BY <1>2, <1>3
<1>8. ASSUME NEW name \in Closing, NEW type, Closed(w, h, l, name, type)
      PROVE  Closed(u, h, l, name, type)
  <2>1. ASSUME NEW i \in 1 .. n
        PROVE  Closes(u[i], name) <=> l[h[i]].type = type /\ u[i] # <<>>
    <3>1. Closes(w[i], name) <=> l[h[i]].type = type /\ w[i] # <<>>
      BY <1>8 DEF Closed, n
    <3>2. CASE i = n
      BY <1>7, <3>1, <3>2 DEF Closes, n
    <3>3. CASE i # n
      BY <1>2, <3>1, <3>3
    <3> QED
      BY <3>2, <3>3
  <2>2. \A i, j \in 1 .. n : Closes(u[i], name) /\ Closes(u[j], name) => i = j
    BY <1>7, <1>8 DEF Closed, n
  <2> QED
    BY <1>2, <2>1, <2>2 DEF Closed
<1>9. {"link_end", "foot_end"} \subseteq Closing
  BY DEF Closing
<1> QED
  <2>1. Len(u) = Len(h) /\ \E U : u \in Seq(Seq(U))
    BY <1>2 DEF Ordered, n
  <2>2. \A i \in 1 .. Len(u) : \A j \in 1 .. Len(u[i]) : Doing(u, i, j, next)
    BY <1>2, <1>5, <1>6
  <2>3. Closed(u, h, l, "link_end", "LINK") /\ Closed(u, h, l, "foot_end", "FOOTNOTE")
    BY <1>8, <1>9 DEF Ordered
  <2>4. link <=> \E i \in 1 .. Len(u) : Closes(u[i], "link_end")
    BY <1>2, <1>7, <1>9 DEF Ordered, n
  <2>5. (\E i \in 1 .. Len(u) : Closes(u[i], "foot_end")) => foot
    BY <1>2, <1>7, <1>9 DEF Ordered, n
  <2>6. Begun(u, h, l, Len(u) - 1)
    BY <1>2 DEF Ordered, Begun, n
  <2> QED
    BY <2>1, <2>2, <2>3, <2>4, <2>5, <2>6 DEF Ordered

\* The labels may change, but not the types of the nodes held.
LEMMA OrderedRelabelled ==
  ASSUME NEW w, NEW h, NEW l, NEW link, NEW foot, NEW text, Ordered(w, h, l, link, foot, text),
         NEW k, \A i \in 1 .. Len(h) : k[h[i]].type = l[h[i]].type
  PROVE  Ordered(w, h, k, link, foot, text)
<1>1. Len(w) = Len(h) /\ Len(w) \in Nat
  BY LenProperties DEF Ordered
<1>2. ASSUME NEW name, NEW type, Closed(w, h, l, name, type) PROVE Closed(w, h, k, name, type)
  BY <1>1, <1>2 DEF Closed
<1>3. Begun(w, h, k, Len(w) - 1)
  <2>1. Begun(w, h, l, Len(w) - 1)
    BY DEF Ordered
  <2>2. \A i \in 1 .. Len(w) - 1 : i \in 1 .. Len(h)
    BY <1>1
  <2> QED
    BY <2>1, <2>2 DEF Begun
<1> QED
  BY <1>2, <1>3 DEF Ordered

(***************************************************************************)
(* inner may be the work for a new node x, after that for the nodes h;     *)
(* inlink and infoot are in_link_body and in_footnote then.                *)
(***************************************************************************)
Added(inner, h, x, l, link, foot, inlink, infoot) ==
  /\ \E T : inner \in Seq(T)
  /\ \A j \in 1 .. Len(inner) : Plain_do(inner[j]) \/ (j = Len(inner) /\ inner[j].do \in Closing)
  /\ \E H : h \in Seq(H) /\ x \in H
  /\ Closes(inner, "link_end") <=> l[x].type = "LINK" /\ inner # <<>>
  /\ Closes(inner, "foot_end") <=> l[x].type = "FOOTNOTE" /\ inner # <<>>
  /\ Closes(inner, "link_end") => ~link
  /\ Closes(inner, "foot_end") => ~foot
  /\ inlink <=> link \/ Closes(inner, "link_end")
  /\ infoot <=> foot \/ Closes(inner, "foot_end")

LEMMA OrderedAppended ==
  ASSUME NEW w, NEW h, NEW l, NEW link, NEW foot, Ordered(w, h, l, link, foot, FALSE),
         Begun(w, h, l, Len(w)), NEW inner, NEW x, NEW inlink, NEW infoot,
         Added(inner, h, x, l, link, foot, inlink, infoot), NEW text
  PROVE  Ordered(Append(w, inner), Append(h, x), l, inlink, infoot, text)
<1>a. /\ \A j \in 1 .. Len(inner) : Plain_do(inner[j]) \/ (j = Len(inner) /\ inner[j].do \in Closing)
      /\ Closes(inner, "link_end") <=> l[x].type = "LINK" /\ inner # <<>>
      /\ Closes(inner, "foot_end") <=> l[x].type = "FOOTNOTE" /\ inner # <<>>
      /\ Closes(inner, "link_end") => ~link
      /\ Closes(inner, "foot_end") => ~foot
      /\ inlink <=> link \/ Closes(inner, "link_end")
      /\ infoot <=> foot \/ Closes(inner, "foot_end")
  BY DEF Added
<1>b. PICK T : inner \in Seq(T)
  BY DEF Added
<1>c. PICK H : h \in Seq(H) /\ x \in H
  BY DEF Added
<1>1. PICK S : w \in Seq(Seq(S))
  BY DEF Ordered
<1> DEFINE u == Append(w, inner)
           g == Append(h, x)
           n == Len(w)
<1>2. n \in Nat /\ n = Len(h)
  BY <1>1, LenProperties DEF Ordered
<1>3. /\ u \in Seq(Seq(S \cup T)) /\ Len(u) = n + 1
      /\ \A i \in 1 .. n : u[i] = w[i]
      /\ u[n + 1] = inner
  <2>1. Seq(S) \subseteq Seq(S \cup T) /\ inner \in Seq(S \cup T)
    BY <1>b, SeqMonotonic
  <2> QED
    BY <1>1, <2>1, Appended
<1>4. /\ g \in Seq(H) /\ Len(g) = n + 1
      /\ \A i \in 1 .. n : g[i] = h[i]
      /\ g[n + 1] = x
  BY <1>2, <1>c, Appended
<1> SUFFICES Ordered(u, g, l, inlink, infoot, text)
  OBVIOUS
<1> HIDE DEF u, g, n
<1>5. ASSUME NEW i \in 1 .. n, NEW j \in 1 .. Len(u[i]) PROVE Doing(u, i, j, text)
  <2>1. u[i] = w[i]
    BY <1>3
  <2>2. Doing(w, i, j, FALSE)
    BY <2>1 DEF Ordered, n
  <2> QED
    BY <2>1, <2>2 DEF Doing
<1>6. ASSUME NEW j \in 1 .. Len(u[n + 1]) PROVE Doing(u, n + 1, j, text)
  <2>1. u[n + 1] = inner /\ j \in 1 .. Len(inner)
    BY <1>3
  <2>2. Plain_do(inner[j]) \/ (j = Len(inner) /\ inner[j].do \in Closing)
    BY <1>a, <2>1
  <2> QED
    BY <2>1, <2>2 DEF Doing, Plain_do, Closing, Formed
<1>7. ASSUME NEW i \in 1 .. n + 1 PROVE i = n + 1 \/ i \in 1 .. n
  BY <1>2
<1>8. ASSUME NEW name, NEW type, Closed(w, h, l, name, type),
             Closes(inner, name) <=> l[x].type = type /\ inner # <<>>,
             Closes(inner, name) => \A i \in 1 .. n : ~Closes(w[i], name)
      PROVE  Closed(u, g, l, name, type)
  <2>1. ASSUME NEW i \in 1 .. n + 1
        PROVE  Closes(u[i], name) <=> l[g[i]].type = type /\ u[i] # <<>>
    <3>1. CASE i = n + 1
      BY <1>3, <1>4, <1>8, <3>1
    <3>2. CASE i \in 1 .. n
      BY <1>3, <1>4, <1>8, <3>2 DEF Closed, n
    <3> QED
      BY <1>7, <3>1, <3>2
  <2>2. ASSUME NEW i \in 1 .. n + 1, NEW j \in 1 .. n + 1, Closes(u[i], name), Closes(u[j], name)
        PROVE  i = j
    <3>1. CASE i \in 1 .. n /\ j \in 1 .. n
      BY <1>3, <1>8, <2>2, <3>1 DEF Closed, n
    <3>2. CASE i = n + 1 /\ j \in 1 .. n
      BY <1>3, <1>8, <2>2, <3>2
    <3>3. CASE j = n + 1 /\ i \in 1 .. n
      BY <1>3, <1>8, <2>2, <3>3
    <3> QED
      BY <1>7, <3>1, <3>2, <3>3
  <2> QED
    BY <1>3, <2>1, <2>2 DEF Closed
<1>9. ASSUME NEW name PROVE (\E i \in 1 .. n + 1 : Closes(u[i], name))
                              <=> (\E i \in 1 .. n : Closes(w[i], name)) \/ Closes(inner, name)
  <2>1. n + 1 \in 1 .. n + 1 /\ \A i \in 1 .. n : i \in 1 .. n + 1
    BY <1>2
  <2>2. \A i \in 1 .. n : Closes(u[i], name) <=> Closes(w[i], name)
    BY <1>3
  <2>3. Closes(u[n + 1], name) <=> Closes(inner, name)
    BY <1>3
  <2> QED
    BY <1>7, <2>1, <2>2, <2>3
<1>10. /\ Closed(w, h, l, "link_end", "LINK") /\ Closed(w, h, l, "foot_end", "FOOTNOTE")
       /\ link <=> \E i \in 1 .. n : Closes(w[i], "link_end")
       /\ (\E i \in 1 .. n : Closes(w[i], "foot_end")) => foot
  BY DEF Ordered, n
<1>11. Closed(u, g, l, "link_end", "LINK") /\ Closed(u, g, l, "foot_end", "FOOTNOTE")
  BY <1>a, <1>8, <1>10
<1>12. \A i \in 1 .. Len(u) : \A j \in 1 .. Len(u[i]) : Doing(u, i, j, text)
  BY <1>3, <1>5, <1>6, <1>7
<1>13. /\ inlink <=> \E i \in 1 .. Len(u) : Closes(u[i], "link_end")
       /\ (\E i \in 1 .. Len(u) : Closes(u[i], "foot_end")) => infoot
  BY <1>a, <1>3, <1>9, <1>10
<1>14. (\E U : u \in Seq(Seq(U))) /\ Len(u) = Len(g)
  BY <1>3, <1>4
<1>15. Begun(u, g, l, Len(u) - 1)
  <2>1. Begun(w, h, l, n)
    BY DEF n
  <2>2. Len(u) - 1 = n
    BY <1>2, <1>3
  <2> QED
    BY <1>3, <1>4, <2>1, <2>2 DEF Begun
<1> QED
  BY <1>11, <1>12, <1>13, <1>14, <1>15 DEF Ordered

\* The work of a node is done.
LEMMA OrderedFronted ==
  ASSUME NEW w, NEW H, NEW h \in Seq(H), NEW l, NEW link, NEW foot, NEW text,
         Ordered(w, h, l, link, foot, text), w # <<>>, w[Len(w)] = <<>>, NEW next
  PROVE  Ordered(SubSeq(w, 1, Len(w) - 1), SubSeq(h, 1, Len(h) - 1), l, link, foot, next)
<1>1. PICK S : w \in Seq(Seq(S))
  BY DEF Ordered
<1> DEFINE u == SubSeq(w, 1, Len(w) - 1)
           g == SubSeq(h, 1, Len(h) - 1)
           n == Len(w)
<1>2. n \in Nat \ {0} /\ n = Len(h)
  BY <1>1, EmptySeq DEF Ordered
<1>3. u \in Seq(Seq(S)) /\ Len(u) = n - 1 /\ \A i \in 1 .. n - 1 : u[i] = w[i]
  BY <1>1, Fronted
<1>4. Len(g) = n - 1 /\ \A i \in 1 .. n - 1 : g[i] = h[i]
  <2>1. h # <<>>
    BY <1>2, EmptySeq
  <2> QED
    BY <1>2, <2>1, Fronted
<1>0. w[n] = <<>>
  OBVIOUS
<1> SUFFICES Ordered(u, g, l, link, foot, next)
  OBVIOUS
<1> HIDE DEF u, g, n
<1>5. \A i \in 1 .. n - 1 : i \in 1 .. n /\ i # n
  BY <1>2
<1>6. ASSUME NEW i \in 1 .. Len(u), NEW j \in 1 .. Len(u[i]) PROVE Doing(u, i, j, next)
  <2>1. u[i] = w[i] /\ i \in 1 .. n /\ i # n
    BY <1>3, <1>5
  <2>2. Doing(w, i, j, text)
    BY <2>1 DEF Ordered, n
  <2> QED
    BY <2>1, <2>2 DEF Doing, n
<1>7. ASSUME NEW name, NEW type, Closed(w, h, l, name, type) PROVE Closed(u, g, l, name, type)
  BY <1>3, <1>4, <1>5, <1>7 DEF Closed, n
<1>8. ASSUME NEW name
      PROVE  (\E i \in 1 .. Len(u) : Closes(u[i], name)) <=> \E i \in 1 .. n : Closes(w[i], name)
  <2>1. ~Closes(w[n], name)
    BY <1>0 DEF Closes
  <2>2. \A i \in 1 .. n : i = n \/ i \in 1 .. n - 1
    BY <1>2
  <2> QED
    BY <1>3, <1>5, <2>1, <2>2
<1>9. /\ Closed(w, h, l, "link_end", "LINK") /\ Closed(w, h, l, "foot_end", "FOOTNOTE")
      /\ link <=> \E i \in 1 .. n : Closes(w[i], "link_end")
      /\ (\E i \in 1 .. n : Closes(w[i], "foot_end")) => foot
  BY DEF Ordered, n
<1>10. Closed(u, g, l, "link_end", "LINK") /\ Closed(u, g, l, "foot_end", "FOOTNOTE")
  BY <1>7, <1>9
<1>11. /\ link <=> \E i \in 1 .. Len(u) : Closes(u[i], "link_end")
       /\ (\E i \in 1 .. Len(u) : Closes(u[i], "foot_end")) => foot
  BY <1>8, <1>9
<1>12. (\E U : u \in Seq(Seq(U))) /\ Len(u) = Len(g)
  BY <1>3, <1>4
<1>13. Begun(u, g, l, Len(u) - 1)
  <2>1. Begun(w, h, l, n - 1)
    BY DEF Ordered, n
  <2>2. \A i \in 1 .. Len(u) - 1 : i \in 1 .. n - 1
    BY <1>2, <1>3
  <2> QED
    BY <1>3, <1>4, <2>1, <2>2 DEF Begun
<1> QED
  BY <1>6, <1>10, <1>11, <1>12, <1>13 DEF Ordered

\* The body of a link or a footnote ends, with what was the last thing to do.
LEMMA OrderedClosed ==
  ASSUME NEW w, NEW h, NEW l, NEW link, NEW foot, NEW text, Ordered(w, h, l, link, foot, text),
         w # <<>>, w[Len(w)] # <<>>, NEW name, name = w[Len(w)][1].do, name \in Closing, NEW next
  PROVE  IF name = "link_end" THEN Ordered(Replaced(w, <<>>), h, l, FALSE, foot, next)
                              ELSE Ordered(Replaced(w, <<>>), h, l, link, FALSE, next)
<1>1. PICK S : w \in Seq(Seq(S))
  BY DEF Ordered
<1> DEFINE u == Replaced(w, <<>>)
           n == Len(w)
<1>0. <<>> \in Seq({}) /\ Len(<<>>) = 0
  BY EmptySeq
<1>2. /\ u \in Seq(Seq(S)) /\ Replacing(w, <<>>, u)
  <2>1. u \in Seq(Seq(S \cup {})) /\ Replacing(w, <<>>, u)
    BY <1>0, <1>1, ReplacedSeq
  <2> QED
    BY <2>1
<1>3. name = w[n][1].do /\ w[n] # <<>>
  OBVIOUS
<1> SUFFICES IF name = "link_end" THEN Ordered(u, h, l, FALSE, foot, next)
                                  ELSE Ordered(u, h, l, link, FALSE, next)
  OBVIOUS
<1> HIDE DEF u
<1>4. /\ n \in Nat \ {0} /\ Len(u) = n /\ \A i \in 1 .. n - 1 : u[i] = w[i]
      /\ Len(w[n]) \in Nat \ {0} /\ Len(u[n]) = Len(w[n]) - 1
  BY <1>0, <1>2 DEF Replacing
<1>5. Len(w[n]) = 1
  <2>1. n \in 1 .. n /\ 1 \in 1 .. Len(w[n])
    BY <1>4
  <2>2. Doing(w, n, 1, text)
    BY <2>1 DEF Ordered
  <2> QED
    BY <1>3, <2>2 DEF Doing
<1>6. u[n] = <<>> /\ Closes(w[n], name)
  <2>1. u[n] \in Seq(S)
    BY <1>2, <1>4
  <2>2. Len(u[n]) = 0
    BY <1>4, <1>5
  <2> QED
    BY <1>3, <1>5, <2>1, <2>2, EmptySeq DEF Closes
<1> HIDE DEF n
<1>7. \A i \in 1 .. n : i = n \/ (i \in 1 .. n - 1 /\ i # n)
  BY <1>4
<1>8. ASSUME NEW i \in 1 .. n, NEW j \in 1 .. Len(u[i]) PROVE Doing(u, i, j, next)
  <2>1. i \in 1 .. n - 1 /\ i # n
    BY <1>4, <1>5, <1>6, <1>7
  <2>2. u[i] = w[i]
    BY <1>4, <2>1
  <2>3. Doing(w, i, j, text)
    BY <2>2 DEF Ordered, n
  <2> QED
    BY <2>1, <2>2, <2>3 DEF Doing, n
<1>9. ASSUME NEW a \in Closing, NEW type, Closed(w, h, l, a, type)
      PROVE  /\ Closed(u, h, l, a, type)
             /\ a = name => ~\E i \in 1 .. n : Closes(u[i], a)
             /\ a # name => ((\E i \in 1 .. n : Closes(u[i], a)) <=> \E i \in 1 .. n : Closes(w[i], a))
  <2>1. ~Closes(u[n], a)
    BY <1>6 DEF Closes
  <2>2. \A i \in 1 .. n - 1 : u[i] = w[i]
    BY <1>4
  <2>3. n \in 1 .. n /\ \A i \in 1 .. n - 1 : i \in 1 .. n
    BY <1>4
  <2>4. Closed(u, h, l, a, type)
    <3>1. \A i \in 1 .. n : Closes(u[i], a) <=> l[h[i]].type = type /\ u[i] # <<>>
      BY <1>6, <1>7, <1>9, <2>1, <2>2, <2>3 DEF Closed, n
    <3>2. \A i, j \in 1 .. n : Closes(u[i], a) /\ Closes(u[j], a) => i = j
      BY <1>7, <1>9, <2>1, <2>2, <2>3 DEF Closed, n
    <3> QED
      BY <1>4, <3>1, <3>2 DEF Closed
  <2>5. a = name => ~\E i \in 1 .. n : Closes(u[i], a)
    BY <1>6, <1>7, <1>9, <2>1, <2>2, <2>3 DEF Closed, n
  <2>6. a # name => ~Closes(w[n], a)
    BY <1>3, <1>5 DEF Closes
  <2> QED
    BY <1>7, <2>1, <2>2, <2>3, <2>4, <2>5, <2>6
<1>10. /\ Closed(w, h, l, "link_end", "LINK") /\ Closed(w, h, l, "foot_end", "FOOTNOTE")
       /\ link <=> \E i \in 1 .. n : Closes(w[i], "link_end")
       /\ (\E i \in 1 .. n : Closes(w[i], "foot_end")) => foot
       /\ Len(w) = Len(h)
  BY DEF Ordered, n
<1>11. {"link_end", "foot_end"} = Closing
  BY DEF Closing
<1>12. Closed(u, h, l, "link_end", "LINK") /\ Closed(u, h, l, "foot_end", "FOOTNOTE")
  BY <1>9, <1>10, <1>11
<1>13. /\ (\E U : u \in Seq(Seq(U))) /\ Len(u) = Len(h)
       /\ Begun(u, h, l, Len(u) - 1)
  <2>1. Begun(w, h, l, n - 1)
    BY DEF Ordered, n
  <2>2. Begun(u, h, l, Len(u) - 1)
    BY <1>4, <2>1 DEF Begun
  <2> QED
    BY <1>2, <1>4, <1>10, <2>2 DEF n
<1>14. CASE name = "link_end"
  <2>1. FALSE <=> \E i \in 1 .. Len(u) : Closes(u[i], "link_end")
    BY <1>4, <1>9, <1>10, <1>11, <1>14
  <2>2. (\E i \in 1 .. Len(u) : Closes(u[i], "foot_end")) => foot
    BY <1>4, <1>9, <1>10, <1>11, <1>14
  <2> QED
    BY <1>4, <1>8, <1>12, <1>13, <1>14, <2>1, <2>2 DEF Ordered
<1>15. CASE name = "foot_end"
  <2>1. link <=> \E i \in 1 .. Len(u) : Closes(u[i], "link_end")
    BY <1>4, <1>9, <1>10, <1>11, <1>15
  <2>2. (\E i \in 1 .. Len(u) : Closes(u[i], "foot_end")) => FALSE
    BY <1>4, <1>9, <1>10, <1>11, <1>15
  <2> QED
    BY <1>4, <1>8, <1>12, <1>13, <1>15, <2>1, <2>2 DEF Ordered
<1> QED
  BY <1>11, <1>14, <1>15

-------------------------------------------------------------------------------
(***************************************************************************)
(* The invariant.  The parser is at the header, at the metadata, or at     *)
(* what comes after them, where the work is as above.                      *)
(***************************************************************************)
Fields == {"type", "text", "fl", "num", "more"}

Labelled == \A n \in DOMAIN lab : Fields \subseteq DOMAIN lab[n]

Text_last == Last_child(current) # None /\ lab[Last_child(current)].type = "NORMAL_TEXT"

Heading ==
  /\ work = <<<<Do("header")>>>> /\ held = <<Root>> /\ kids[Root] = <<>>
  /\ ~in_link_body

Adding ==
  /\ \E g : /\ g.do = "gather"
            /\ \/ work = <<<<g>>, <<>>>>
               \/ \E x : x.do = "add_metadata" /\ work = <<<<g>>, <<x>>>>
  /\ Len(held) = 2
  /\ lab[current].type = "DOC_HEADER"
  /\ \A k \in DOMAIN kids[current] : lab[kids[current][k]].type = "META"
  /\ ~in_link_body

Working == Ordered(work, held, lab, in_link_body, in_footnote, Text_last)

Inside_is == in_link_body \in BOOLEAN /\ in_footnote \in BOOLEAN

PInv ==
  /\ IInv /\ Labelled /\ Inside_is
  /\ phase = "parsing" => Heading \/ Adding \/ Working

\* Where something comes next that is not of the header, nor the end of a body.
Here ==
  /\ phase = "parsing" /\ work # <<>> /\ work[Len(work)] # <<>> /\ Working
  /\ Item = work[Len(work)][1] /\ Item.do \notin Closing

(***************************************************************************)
(* What becomes of links and footnotes: they stay as they are, with all of *)
(* their numbers; or one is made, inside no other of its type, and if it   *)
(* is a footnote it has the next number and a definition not used before;  *)
(* or all go, where a parse begins.                                        *)
(***************************************************************************)
marks == <<in_link_body, in_footnote, used, foots>>

Kept_bodies ==
  \A n \in DOMAIN lab : lab[n].type \in Bodies =>
    n \in DOMAIN lab' /\ lab'[n].type = lab[n].type /\ lab'[n].num = lab[n].num

\* The others, but for one, were there before.
Same_bodies(new) ==
  \A n \in DOMAIN lab' \ new : lab'[n].type \in Bodies =>
    n \in DOMAIN lab /\ lab'[n].type = lab[n].type

Steady == Kept_bodies /\ Same_bodies({}) /\ UNCHANGED <<used, foots>>

Numbered ==
  /\ lab'[nodes].num = foots + 1 /\ foots' = foots + 1
  /\ \E x : x \notin used /\ used' = used \cup {x}

None_held(type) == \A k \in DOMAIN held : lab[held[k]].type # type

Fresh(type) ==
  /\ Kept_bodies /\ Same_bodies({nodes})
  /\ nodes \in DOMAIN lab' \ DOMAIN lab /\ lab'[nodes].type = type
  /\ None_held(type)
  /\ IF type = "FOOTNOTE" THEN Numbered ELSE UNCHANGED <<used, foots>>

Reset ==
  /\ \A n \in DOMAIN lab' : lab'[n].type \notin Bodies
  /\ foots' = 0 /\ used' = {}

Bodywise ==
  \/ phase' = "failed" /\ lab' = Nothing
  \/ phase = "parsing" /\ Steady
  \/ Reset
  \/ phase = "parsing" /\ \E type \in Bodies : Fresh(type)
  \/ UNCHANGED <<lab, phase, used, foots>>

(***************************************************************************)
(* What is shown of every step: ParseTree allows it, no assertion fails,   *)
(* and what is left to do is as above.                                     *)
(***************************************************************************)
Good ==
  /\ Bodywise
  /\ [TNext]_tvars /\ Labelled' /\ Inside_is'
  /\ phase' = "aborted" => phase = "aborted"
  /\ phase' = "parsing" =>
       Ordered(work', held', lab', in_link_body', in_footnote', Text_last')

LEMMA ItemIs ==
  ASSUME NEW name, Now(name)
  PROVE  /\ phase = "parsing" /\ work # <<>> /\ work[Len(work)] # <<>>
         /\ Item = work[Len(work)][1] /\ Item.do = name
BY DEF Now, Item, Last

LEMMA HereIs ==
  ASSUME PInv, NEW name, Now(name), name \notin {"header", "add_metadata"}
  PROVE  Working /\ (name \notin Closing => Here)
<1>1. /\ phase = "parsing" /\ work # <<>> /\ work[Len(work)] # <<>>
      /\ Item = work[Len(work)][1] /\ Item.do = name
  BY ItemIs
<1>2. ~Heading
  BY <1>1 DEF Heading, Do
<1>3. ~Adding
  <2>1. ASSUME NEW g, work = <<<<g>>, <<>>>> PROVE FALSE
    BY <1>1, <2>1
  <2>2. ASSUME NEW g, NEW x, x.do = "add_metadata", work = <<<<g>>, <<x>>>> PROVE FALSE
    BY <1>1, <2>2
  <2> QED
    BY <2>1, <2>2 DEF Adding
<1> QED
  BY <1>1, <1>2, <1>3 DEF PInv, Here

\* A step that is good keeps the invariant.
LEMMA GoodKeeps == PInv /\ Good => PInv'
<1> SUFFICES ASSUME PInv, Good PROVE PInv'
  OBVIOUS
<1>1. IInv'
  BY NextInv DEF PInv, Good
<1>2. phase' = "parsing" => Working'
  BY DEF Good, Working, Ordered, Closed, Doing, Closes, Formed
<1> QED
  BY <1>1, <1>2 DEF PInv, Good

-------------------------------------------------------------------------------
(***************************************************************************)
(* The ways in which functions change the parser.                          *)
(***************************************************************************)
Follows(items, text) ==
  \E T : /\ items \in Seq(T)
         /\ \A j \in 1 .. Len(items) : Plain_do(items[j]) \/ (j = 1 /\ First_do(items[j], text))

Plainly(items) ==
  \E T : items \in Seq(T) /\ \A j \in 1 .. Len(items) : Plain_do(items[j])

LEMMA Nothing_follows == Plainly(<<>>)
BY EmptySeq DEF Plainly

LEMMA One_follows == ASSUME NEW x, Plain_do(x) PROVE Plainly(<<x>>)
<1> DEFINE s == <<x>>
<1>1. s \in Seq({x}) /\ Len(s) = 1 /\ s[1] = x
  OBVIOUS
<1> HIDE DEF s
<1>2. \A j \in 1 .. Len(s) : Plain_do(s[j])
  BY <1>1
<1>3. Plainly(s)
  BY <1>1, <1>2 DEF Plainly
<1> QED
  BY <1>3 DEF s

LEMMA First_follows == ASSUME NEW x, NEW text, First_do(x, text) PROVE Follows(<<x>>, text)
<1> DEFINE s == <<x>>
<1>1. s \in Seq({x}) /\ Len(s) = 1 /\ s[1] = x
  OBVIOUS
<1> HIDE DEF s
<1>2. \A j \in 1 .. Len(s) : j = 1 /\ First_do(s[j], text)
  BY <1>1
<1>3. Follows(s, text)
  BY <1>1, <1>2 DEF Follows
<1> QED
  BY <1>3 DEF s

LEMMA Plainly_follows == ASSUME NEW s, Plainly(s), NEW text PROVE Follows(s, text)
BY DEF Plainly, Follows

LEMMA Both_follow ==
  ASSUME NEW s, NEW t, Plainly(s), Plainly(t)
  PROVE  Plainly(s \o t)
<1>1. PICK S : s \in Seq(S) /\ \A j \in 1 .. Len(s) : Plain_do(s[j])
  BY DEF Plainly
<1>2. PICK T : t \in Seq(T) /\ \A j \in 1 .. Len(t) : Plain_do(t[j])
  BY DEF Plainly
<1>3. s \in Seq(S \cup T) /\ t \in Seq(S \cup T)
  BY <1>1, <1>2, SeqMonotonic
<1> DEFINE u == s \o t
<1>4. /\ u \in Seq(S \cup T) /\ Len(u) = Len(s) + Len(t) /\ Len(s) \in Nat /\ Len(t) \in Nat
      /\ \A j \in 1 .. Len(u) : u[j] = IF j <= Len(s) THEN s[j] ELSE t[j - Len(s)]
  BY <1>3, ConcatProperties, LenProperties
<1> HIDE DEF u
<1>5. ASSUME NEW j \in 1 .. Len(u) PROVE Plain_do(u[j])
  <2>1. CASE j <= Len(s)
    <3>1. j \in 1 .. Len(s) /\ u[j] = s[j]
      BY <1>4, <2>1
    <3> QED
      BY <1>1, <3>1
  <2>2. CASE ~(j <= Len(s))
    <3>1. j - Len(s) \in 1 .. Len(t) /\ u[j] = t[j - Len(s)]
      BY <1>4, <2>2
    <3> QED
      BY <1>2, <3>1
  <2> QED
    BY <2>1, <2>2
<1> QED
  BY <1>4, <1>5 DEF Plainly, u

\* The nodes held are nodes, and their labels have types.
LEMMA HeldNodes ==
  ASSUME PInv, phase = "parsing"
  PROVE  /\ held \in Seq(DOMAIN lab) /\ \A k \in 1 .. Len(held) : held[k] \in DOMAIN lab
         /\ nodes \notin DOMAIN lab /\ current \in DOMAIN lab /\ DOMAIN kids = DOMAIN lab
<1>1. IInv
  BY DEF PInv
<1> QED
  BY <1>1, Facts, ElementOfSeq DEF IInv, TTypeOK

LEMMA FailsGood == ASSUME PInv, NEW why, Fails(why) PROVE Good
<1>1. /\ Failed /\ lab' = Nothing /\ phase' = "failed" /\ UNCHANGED marks
  BY DEF Fails, Failed, inside, marks, queues
<1>2. Labelled'
  BY <1>1 DEF Labelled, Nothing
<1> QED
  BY <1>1, <1>2 DEF Good, Bodywise, TNext, PInv, Inside_is, inside, marks, queues

\* Work after the first thing to do is replaced, for labels with the same types.
LEMMA WorkGoes ==
  ASSUME PInv, Here, NEW items, NEW text, Follows(items, text), NEW labels,
         \A n \in DOMAIN lab : labels[n].type = lab[n].type
  PROVE  Ordered(Instead(items), held, labels, in_link_body, in_footnote, text)
<1>1. PICK T : /\ items \in Seq(T)
               /\ \A j \in 1 .. Len(items) : Plain_do(items[j]) \/ (j = 1 /\ First_do(items[j], text))
  BY DEF Follows
<1>2. /\ Ordered(work, held, lab, in_link_body, in_footnote, Text_last)
      /\ work # <<>> /\ work[Len(work)] # <<>> /\ work[Len(work)][1].do \notin Closing
  BY DEF Here, Working
<1>3. Ordered(Replaced(work, items), held, lab, in_link_body, in_footnote, text)
  BY <1>1, <1>2, OrderedReplaced
<1>4. \A i \in 1 .. Len(held) : labels[held[i]].type = lab[held[i]].type
  BY HeldNodes DEF Here
<1>5. Ordered(Replaced(work, items), held, labels, in_link_body, in_footnote, text)
  BY <1>3, <1>4, OrderedRelabelled
<1> QED
  BY <1>5 DEF Instead, Replaced

\* A body that has begun goes on, up to what it ends with.
LEMMA BegunStill ==
  ASSUME PInv, Here, NEW items, NEW text, Follows(items, text), NEW labels,
         \A n \in DOMAIN lab : labels[n].type = lab[n].type
  PROVE  Begun(Instead(items), held, labels, Len(Instead(items)))
<1> DEFINE u == Replaced(work, items)
           n == Len(work)
<1>1. PICK T : /\ items \in Seq(T)
               /\ \A j \in 1 .. Len(items) : Plain_do(items[j]) \/ (j = 1 /\ First_do(items[j], text))
  BY DEF Follows
<1>2. /\ Ordered(work, held, lab, in_link_body, in_footnote, Text_last)
      /\ work # <<>> /\ work[n] # <<>> /\ work[n][1].do \notin Closing
  BY DEF Here, Working
<1>3. PICK S : work \in Seq(Seq(S))
  BY <1>2 DEF Ordered
<1>4. /\ n \in Nat \ {0} /\ Len(u) = n /\ \A i \in 1 .. n - 1 : u[i] = work[i]
  <2>1. Replacing(work, items, u)
    BY <1>1, <1>2, <1>3, ReplacedSeq
  <2> HIDE DEF u
  <2> QED
    BY <2>1 DEF Replacing
<1>5. \A name \in Closing : Closes(u[n], name) <=> Closes(work[n], name)
  <2>1. \A j \in 1 .. Len(items) : items[j].do \notin Closing
    BY <1>1 DEF Plain_do, First_do
  <2> QED
    BY <1>1, <1>2, <1>3, <2>1, ClosesKept
<1>6. \A i \in 1 .. n : labels[held[i]].type = lab[held[i]].type
  BY <1>2, HeldNodes DEF Here, Ordered
<1>7. /\ Closed(work, held, lab, "link_end", "LINK") /\ Closed(work, held, lab, "foot_end", "FOOTNOTE")
      /\ Begun(work, held, lab, n - 1)
  BY <1>2 DEF Ordered
<1> HIDE DEF u, n
<1>8. ASSUME lab[held[n]].type \in Bodies PROVE u[n] # <<>>
  <2>1. n \in 1 .. n
    BY <1>4
  <2>2. Closes(work[n], "link_end") \/ Closes(work[n], "foot_end")
    BY <1>2, <1>7, <1>8, <2>1 DEF Closed, Bodies, n
  <2> QED
    BY <1>5, <2>2 DEF Closing, Closes
<1>9. Begun(u, held, labels, n)
  BY <1>4, <1>6, <1>7, <1>8 DEF Begun
<1> QED
  BY <1>4, <1>9 DEF u, n, Instead, Replaced

\* Where a flag is clear no node of its type is held.
LEMMA NoneHeld ==
  ASSUME PInv, Here
  PROVE  /\ ~in_link_body => None_held("LINK")
         /\ ~in_footnote => None_held("FOOTNOTE")
<1> DEFINE n == Len(work)
<1>1. /\ Closed(work, held, lab, "link_end", "LINK") /\ Closed(work, held, lab, "foot_end", "FOOTNOTE")
      /\ Begun(work, held, lab, n - 1) /\ n = Len(held) /\ work[n] # <<>>
      /\ in_link_body <=> \E i \in 1 .. n : Closes(work[i], "link_end")
      /\ (\E i \in 1 .. n : Closes(work[i], "foot_end")) => in_footnote
  BY DEF Here, Working, Ordered
<1>2. n \in Nat /\ DOMAIN held = 1 .. n
  BY <1>1, HeldNodes, LenProperties DEF Here
<1> HIDE DEF n
<1>3. ASSUME NEW i \in 1 .. n, lab[held[i]].type \in Bodies PROVE work[i] # <<>>
  BY <1>1, <1>2, <1>3 DEF Begun
<1>4. ASSUME NEW i \in 1 .. n
      PROVE  /\ lab[held[i]].type = "LINK" => Closes(work[i], "link_end")
             /\ lab[held[i]].type = "FOOTNOTE" => Closes(work[i], "foot_end")
  BY <1>1, <1>3 DEF Closed, Bodies, n
<1> QED
  BY <1>1, <1>2, <1>4 DEF None_held

\* No link nor footnote comes or goes.
LEMMA SteadyIf ==
  ASSUME phase = "parsing", UNCHANGED <<used, foots>>,
         \A n \in DOMAIN lab :
           \/ lab[n].type \notin Bodies
           \/ n \in DOMAIN lab' /\ lab'[n].type = lab[n].type /\ lab'[n].num = lab[n].num,
         \A n \in DOMAIN lab' :
           \/ lab'[n].type \notin Bodies
           \/ n \in DOMAIN lab /\ lab'[n].type = lab[n].type
  PROVE  Steady /\ Bodywise
BY DEF Bodywise, Steady, Kept_bodies, Same_bodies

LEMMA SteadySame == phase = "parsing" /\ UNCHANGED <<lab, used, foots>> => Bodywise
BY SteadyIf

\* The tree stays as it is.
LEMMA StaysGood ==
  ASSUME PInv, Here, NEW items, Follows(items, Text_last), Go(items), UNCHANGED tvars, UNCHANGED marks
  PROVE  Good
<1>1. work' = Instead(items)
  BY DEF Go
<1>2. Ordered(Instead(items), held, lab, in_link_body, in_footnote, Text_last)
  BY WorkGoes
<1>3. Text_last' = Text_last /\ Labelled' /\ Inside_is'
  BY DEF Text_last, Last_child, tvars, PInv, Labelled, Inside_is, inside, marks, queues
<1>4. Bodywise
  BY SteadySame DEF Here, tvars, marks
<1> QED
  BY <1>1, <1>2, <1>3, <1>4 DEF Good, tvars, inside, marks, queues, Here

LEMMA SkipGood ==
  ASSUME PInv, Here, NEW items, Follows(items, Text_last), Skip(items)
  PROVE  Good
BY StaysGood DEF Skip, inside, marks, queues

\* A label has what it is looked at for.
Labels(labels) ==
  \A n \in DOMAIN lab : /\ labels[n].type = lab[n].type /\ labels[n].num = lab[n].num
                        /\ Fields \subseteq DOMAIN labels[n]

LEMMA LabelIs ==
  ASSUME NEW type, NEW text, NEW fl, NEW num, NEW more
  PROVE  /\ Label(type, text, fl, num, more).type = type
         /\ Fields \subseteq DOMAIN Label(type, text, fl, num, more)
BY DEF Label, Fields

LEMMA LabelsAsTheyAre == PInv => Labels(lab)
BY DEF PInv, Labelled, Labels

\* A new node, below the current one.
NewLast ==
  /\ nodes \in DOMAIN lab' \ DOMAIN lab /\ DOMAIN lab' = DOMAIN lab \cup {nodes}
  /\ Sametypes /\ Labelled'
  /\ \A n \in DOMAIN lab : lab'[n].num = lab[n].num
  /\ NewNode(lab', current, lab'[nodes])

LEMMA NewIs ==
  ASSUME PInv, phase = "parsing", NEW labels, Labels(labels),
         NEW l, Fields \subseteq DOMAIN l, NewNode(labels, current, l)
  PROVE  /\ NewLast /\ lab'[nodes] = l
         /\ current' = current => (Text_last' <=> l.type = "NORMAL_TEXT")
<1>1. /\ nodes \notin DOMAIN lab /\ current \in DOMAIN lab /\ DOMAIN kids = DOMAIN lab
      /\ nodes \in Nat /\ kids[current] \in Seq(DOMAIN kids)
  BY HeldNodes, Facts DEF PInv, IInv, TTypeOK
<1>2. lab' = [n \in DOMAIN lab \cup {nodes} |-> IF n = nodes THEN l ELSE labels[n]]
  BY DEF NewNode
<1>3. /\ DOMAIN lab' = DOMAIN lab \cup {nodes} /\ lab'[nodes] = l
      /\ \A n \in DOMAIN lab : lab'[n] = labels[n]
  BY <1>1, <1>2
<1>4. Sametypes
  BY <1>3 DEF Sametypes, Labels
<1>5. Labelled' /\ \A n \in DOMAIN lab : lab'[n].num = lab[n].num
  <2>1. \A n \in DOMAIN lab' : Fields \subseteq DOMAIN lab'[n]
    BY <1>3 DEF Labels
  <2>2. \A n \in DOMAIN lab : lab'[n].num = lab[n].num
    BY <1>3 DEF Labels
  <2> QED
    BY <2>1, <2>2 DEF Labelled, Fields
<1>6. NewNode(lab', current, lab'[nodes])
  <2>1. lab' = [n \in DOMAIN lab \cup {nodes} |-> IF n = nodes THEN lab'[nodes] ELSE lab'[n]]
    BY <1>2, <1>3
  <2> QED
    BY <2>1 DEF NewNode
<1>7. ASSUME current' = current PROVE Text_last' <=> l.type = "NORMAL_TEXT"
  <2>1. kids'[current] = Append(kids[current], nodes)
    BY <1>1 DEF NewNode
  <2>2. /\ Append(kids[current], nodes) # <<>>
        /\ Append(kids[current], nodes)[Len(Append(kids[current], nodes))] = nodes
    <3>1. kids[current] \in Seq(DOMAIN kids \cup {nodes})
      BY <1>1, SeqMonotonic
    <3> QED
      BY <3>1, AppendProperties, EmptySeq
  <2>3. kids'[current'] # <<>> /\ kids'[current'][Len(kids'[current'])] = nodes
    BY <1>7, <2>1, <2>2
  <2>4. nodes # None
    BY <1>1 DEF None
  <2> QED
    BY <1>3, <2>3, <2>4 DEF Text_last, Last_child
<1> QED
  BY <1>1, <1>3, <1>4, <1>5, <1>6, <1>7 DEF NewLast

\* What a new node with the label l does to links and footnotes.
Enters(l) ==
  \/ l.type \notin Bodies /\ UNCHANGED <<used, foots>>
  \/ l.type = "LINK" /\ ~in_link_body /\ UNCHANGED <<used, foots>>
  \/ /\ l.type = "FOOTNOTE" /\ ~in_footnote
     /\ l.num = foots + 1 /\ foots' = foots + 1
     /\ \E x : x \notin used /\ used' = used \cup {x}

LEMMA NewBodywise ==
  ASSUME PInv, Here, NewLast, Enters(lab'[nodes])
  PROVE  Bodywise
<1>1. /\ phase = "parsing" /\ Sametypes
      /\ nodes \in DOMAIN lab' \ DOMAIN lab /\ DOMAIN lab' = DOMAIN lab \cup {nodes}
      /\ \A n \in DOMAIN lab : lab'[n].num = lab[n].num
  BY DEF Here, NewLast
<1>2. \A n \in DOMAIN lab : n \in DOMAIN lab' /\ lab'[n].type = lab[n].type
  BY <1>1 DEF Sametypes
<1>3. Kept_bodies /\ Same_bodies({nodes})
  BY <1>1, <1>2 DEF Kept_bodies, Same_bodies
<1>4. CASE lab'[nodes].type \notin Bodies /\ UNCHANGED <<used, foots>>
  BY <1>1, <1>2, <1>4, SteadyIf
<1>5. CASE lab'[nodes].type = "LINK" /\ ~in_link_body /\ UNCHANGED <<used, foots>>
  <2>1. Fresh("LINK")
    BY <1>1, <1>3, <1>5, NoneHeld DEF Fresh
  <2> QED
    BY <1>1, <2>1 DEF Bodywise, Bodies
<1>6. CASE /\ lab'[nodes].type = "FOOTNOTE" /\ ~in_footnote
           /\ lab'[nodes].num = foots + 1 /\ foots' = foots + 1
           /\ \E x : x \notin used /\ used' = used \cup {x}
  <2>1. Fresh("FOOTNOTE")
    BY <1>1, <1>3, <1>6, NoneHeld DEF Fresh, Numbered
  <2> QED
    BY <1>1, <2>1 DEF Bodywise, Bodies
<1> QED
  BY <1>4, <1>5, <1>6 DEF Enters

\* A node is put before what follows.
LEMMA LeafGood ==
  ASSUME PInv, Here, NEW labels, Labels(labels),
         NEW l, Fields \subseteq DOMAIN l,
         l.type \notin {"META", "DEFINITION_TITLE", "ROOT", "DOC_HEADER"} \cup Bodies,
         NEW follow, Follows(follow, l.type = "NORMAL_TEXT"), Leaf_in(labels, l, follow)
  PROVE  Good
<1>1. CASE TooDeep(depth)
  BY <1>1, FailsGood DEF Leaf_in
<1>2. CASE ~TooDeep(depth)
  <2>1. /\ Pushleaf(labels, l) /\ work' = Instead(follow) /\ UNCHANGED marks
        /\ phase = "parsing"
    BY <1>2 DEF Leaf_in, Go, Here, inside, marks, queues
  <2>2. /\ NewNode(labels, current, l)
        /\ UNCHANGED <<current, depth, held, maxdepth, phase>>
    BY <2>1 DEF Pushleaf
  <2>3. /\ NewLast /\ lab'[nodes] = l /\ (Text_last' <=> l.type = "NORMAL_TEXT")
    BY <2>1, <2>2, NewIs
  <2>4. Leaf_node
    <3>1. Pushleaf(lab', lab'[nodes])
      BY <1>2, <2>1, <2>2, <2>3 DEF Pushleaf, NewLast
    <3> QED
      BY <2>3, <3>1 DEF Leaf_node, NewLast
  <2>5. Ordered(Instead(follow), held, lab', in_link_body, in_footnote, l.type = "NORMAL_TEXT")
    <3>1. \A n \in DOMAIN lab : lab'[n].type = lab[n].type
      BY <2>3 DEF NewLast, Sametypes
    <3> QED
      BY <3>1, WorkGoes
  <2>6. Text_last' = (l.type = "NORMAL_TEXT")
    BY <2>3 DEF Text_last
  <2>7. Ordered(work', held', lab', in_link_body', in_footnote', Text_last')
    BY <2>1, <2>2, <2>5, <2>6 DEF inside, marks, queues
  <2>8. Labelled' /\ Inside_is'
    BY <2>1, <2>3 DEF NewLast, Inside_is, PInv, inside, marks, queues
  <2>9. phase' # "aborted"
    BY <2>1, <2>2
  <2>10. Bodywise
    <3>1. Enters(lab'[nodes])
      BY <2>1, <2>3 DEF Enters, marks
    <3> QED
      BY <2>3, <3>1, NewBodywise
  <2> QED
    BY <2>4, <2>7, <2>8, <2>9, <2>10 DEF Good, TNext
<1> QED
  BY <1>1, <1>2

\* A node is held while inner is done, before what follows.
LEMMA OpensGood ==
  ASSUME PInv, Here, NEW labels, Labels(labels),
         NEW l, Fields \subseteq DOMAIN l,
         l.type \notin Leaves \cup {"DEFINITION_TITLE", "ROOT", "DOC_HEADER"},
         NEW T, NEW inner \in Seq(T),
         \A j \in 1 .. Len(inner) :
           Plain_do(inner[j]) \/ (j = Len(inner) /\ inner[j].do \in Closing),
         Closes(inner, "link_end") <=> l.type = "LINK" /\ inner # <<>>,
         Closes(inner, "foot_end") <=> l.type = "FOOTNOTE" /\ inner # <<>>,
         Closes(inner, "link_end") => ~in_link_body,
         Closes(inner, "foot_end") => ~in_footnote,
         NEW follow, Plainly(follow), Opens(labels, l, inner, follow), Enters(l),
         in_link_body' = (in_link_body \/ Closes(inner, "link_end")),
         in_footnote' = (in_footnote \/ Closes(inner, "foot_end"))
  PROVE  Good
<1>1. /\ Pushnode(labels, l) /\ work' = Append(Instead(follow), inner) /\ phase = "parsing"
  BY DEF Opens, Here
<1>2. /\ ~TooDeep(depth) /\ NewNode(labels, current, l)
      /\ current' = nodes /\ depth' = depth + 1 /\ held' = Append(held, nodes)
      /\ UNCHANGED <<maxdepth, phase>>
  BY <1>1 DEF Pushnode
<1>3. NewLast /\ lab'[nodes] = l
  BY <1>1, <1>2, NewIs
<1>4. Push
  <2>1. Pushnode(lab', lab'[nodes])
    BY <1>1, <1>2, <1>3 DEF Pushnode, NewLast
  <2> QED
    BY <1>3, <2>1 DEF Push, NewLast
<1>5. /\ Ordered(Instead(follow), held, lab', in_link_body, in_footnote, FALSE)
      /\ Begun(Instead(follow), held, lab', Len(Instead(follow)))
  <2>1. \A n \in DOMAIN lab : lab'[n].type = lab[n].type
    BY <1>3 DEF NewLast, Sametypes
  <2>2. Follows(follow, FALSE)
    BY Plainly_follows
  <2> QED
    BY <2>1, <2>2, WorkGoes, BegunStill
<1>6. held \in Seq(DOMAIN lab') /\ nodes \in DOMAIN lab'
  BY <1>1, <1>3, HeldNodes, SeqMonotonic DEF NewLast
<1>7. Ordered(work', held', lab', in_link_body', in_footnote', Text_last')
  <2> DEFINE w == Instead(follow)
             k == lab'
             H == DOMAIN lab'
             text == Text_last'
  <2>1. /\ Ordered(w, held, k, in_link_body, in_footnote, FALSE) /\ Begun(w, held, k, Len(w))
        /\ held \in Seq(H) /\ nodes \in H /\ k[nodes].type = l.type
    BY <1>3, <1>5, <1>6
  <2> HIDE DEF w, k, H, text
  <2> DEFINE inlink == in_link_body'
             infoot == in_footnote'
  <2>2. Added(inner, held, nodes, k, in_link_body, in_footnote, inlink, infoot)
    BY <2>1 DEF Added
  <2> HIDE DEF inlink, infoot
  <2>3. Ordered(Append(w, inner), Append(held, nodes), k, inlink, infoot, text)
    BY <2>1, <2>2, OrderedAppended
  <2> QED
    BY <1>1, <1>2, <2>3 DEF w, k, text, inlink, infoot
<1>8. Inside_is'
  BY DEF Inside_is, Closes, PInv
<1>9. Bodywise
  BY <1>3, NewBodywise
<1> QED
  BY <1>1, <1>2, <1>3, <1>4, <1>7, <1>8, <1>9 DEF Good, TNext, NewLast

LEMMA OpenGood ==
  ASSUME PInv, Here, NEW labels, Labels(labels),
         NEW l, Fields \subseteq DOMAIN l,
         l.type \notin Leaves \cup {"DEFINITION_TITLE", "ROOT", "DOC_HEADER", "LINK", "FOOTNOTE"},
         NEW inner, Plainly(inner), NEW follow, Plainly(follow), Open_in(labels, l, inner, follow)
  PROVE  Good
<1>1. CASE TooDeep(depth)
  BY <1>1, FailsGood DEF Open_in
<1>2. CASE ~TooDeep(depth)
  <2>1. Opens(labels, l, inner, follow) /\ UNCHANGED marks
    BY <1>2 DEF Open_in, inside, marks, queues
  <2>2. PICK T : inner \in Seq(T) /\ \A j \in 1 .. Len(inner) : Plain_do(inner[j])
    BY DEF Plainly
  <2>3. ASSUME inner # <<>> PROVE inner[Len(inner)].do \notin Closing
    <3>1. Len(inner) \in 1 .. Len(inner)
      BY <2>2, <2>3, EmptySeq, LenProperties
    <3> QED
      BY <2>2, <3>1 DEF Plain_do
  <2>4. ~Closes(inner, "link_end") /\ ~Closes(inner, "foot_end")
    BY <2>3 DEF Closes, Closing
  <2>5. in_link_body' = (in_link_body \/ FALSE) /\ in_footnote' = (in_footnote \/ FALSE)
    BY <2>1 DEF inside, marks, queues, PInv, Inside_is
  <2>6. Enters(l)
    BY <2>1 DEF Enters, Bodies, marks
  <2> QED
    BY <2>1, <2>2, <2>4, <2>5, <2>6, OpensGood
<1> QED
  BY <1>1, <1>2

\* Text is added to the text before it, or put.
LEMMA SayGood ==
  ASSUME PInv, Here, NEW fl, NEW text, NEW follow, Follows(follow, TRUE), Say(fl, text, follow)
  PROVE  Good
<1>1. CASE Merge_into(fl) = None
  <2>1. Leaf_in(lab, Text(fl, text), follow)
    BY <1>1 DEF Say, Put
  <2>2. /\ Text(fl, text).type = "NORMAL_TEXT" /\ Fields \subseteq DOMAIN Text(fl, text)
        /\ Text(fl, text).type \notin Bodies
    BY LabelIs DEF Text, Bodies
  <2>3. Follows(follow, Text(fl, text).type = "NORMAL_TEXT")
    BY <2>2
  <2> QED
    BY <2>1, <2>2, <2>3, LeafGood, LabelsAsTheyAre
<1>2. CASE Merge_into(fl) # None
  <2> DEFINE n == Merge_into(fl)
  <2>1. /\ Addtext(fl, text) /\ work' = Instead(follow) /\ UNCHANGED marks
    BY <1>2 DEF Say, Go, inside, marks, queues
  <2>2. /\ n = Last_child(current) /\ n # None /\ lab[n].type = "NORMAL_TEXT"
        /\ phase = "parsing"
    BY <1>2 DEF Merge_into, Here
  <2>3. n \in DOMAIN lab
    <3>1. IInv /\ current \in DOMAIN kids
      BY <2>2, HeldNodes DEF PInv
    <3> QED
      BY <2>2, <3>1, LastChild DEF IInv, TTypeOK
  <2>4. /\ lab' = [lab EXCEPT ![n].text = @ \o text]
        /\ UNCHANGED <<kids, par, nodes, current, depth, held, maxdepth, phase>>
    BY <2>1 DEF Addtext
  <2> HIDE DEF n
  <2>5. /\ DOMAIN lab' = DOMAIN lab
        /\ \A m \in DOMAIN lab : m # n => lab'[m] = lab[m]
        /\ lab'[n] = [lab[n] EXCEPT !.text = @ \o text]
    BY <2>3, <2>4
  <2>6. /\ lab'[n].type = lab[n].type /\ lab'[n].num = lab[n].num
        /\ DOMAIN lab'[n] = DOMAIN lab[n]
    <3>1. "type" \in DOMAIN lab[n] /\ "num" \in DOMAIN lab[n]
      BY <2>3 DEF PInv, Labelled, Fields
    <3> QED
      BY <2>5, <3>1
  <2>7. /\ Sametypes /\ \A m \in DOMAIN lab' : Fields \subseteq DOMAIN lab'[m]
    BY <2>5, <2>6 DEF Sametypes, PInv, Labelled
  <2>8. Labelled' /\ Inside_is'
    BY <2>1, <2>7 DEF Labelled, Fields, PInv, Inside_is, inside, marks, queues
  <2>9. Change
    BY <2>2, <2>4, <2>5, <2>7 DEF Change
  <2>10. Text_last' = TRUE
    BY <2>2, <2>4, <2>6 DEF Text_last, Last_child
  <2>11. Ordered(Instead(follow), held, lab', in_link_body, in_footnote, TRUE)
    <3>1. \A m \in DOMAIN lab : lab'[m].type = lab[m].type
      BY <2>7 DEF Sametypes
    <3> QED
      BY <3>1, WorkGoes
  <2>12. Ordered(work', held', lab', in_link_body', in_footnote', Text_last')
    BY <2>1, <2>4, <2>10, <2>11 DEF inside, marks, queues
  <2>13. phase' # "aborted"
    BY <2>2, <2>4
  <2>14. Bodywise
    <3>1. \A m \in DOMAIN lab : lab'[m].type = lab[m].type /\ lab'[m].num = lab[m].num
      BY <2>5, <2>6
    <3>2. UNCHANGED <<used, foots>>
      BY <2>1 DEF marks
    <3> QED
      BY <2>2, <2>5, <3>1, <3>2, SteadyIf
  <2> QED
    BY <2>8, <2>9, <2>12, <2>13, <2>14 DEF Good, TNext
<1> QED
  BY <1>1, <1>2

\* Labels change, but no types, before what follows.
LEMMA ChangeGood ==
  ASSUME PInv, Here, NEW labels, Labels(labels), DOMAIN labels = DOMAIN lab, lab' = labels,
         UNCHANGED <<kids, par, nodes, current, depth, held, maxdepth, phase>>, UNCHANGED marks,
         NEW follow, Plainly(follow), Go(follow)
  PROVE  Good
<1>1. phase = "parsing" /\ work' = Instead(follow)
  BY DEF Here, Go
<1>2. /\ Sametypes /\ \A m \in DOMAIN lab' : Fields \subseteq DOMAIN lab'[m]
  BY DEF Sametypes, Labels
<1>3. Labelled' /\ Inside_is'
  BY <1>2 DEF Labelled, Fields, PInv, Inside_is, inside, marks, queues
<1>4. Change
  BY <1>1, <1>2 DEF Change
<1>5. Ordered(Instead(follow), held, labels, in_link_body, in_footnote, Text_last')
  BY WorkGoes, Plainly_follows DEF Labels
<1>6. Ordered(work', held', lab', in_link_body', in_footnote', Text_last')
  BY <1>1, <1>5 DEF inside, marks, queues
<1>7. Bodywise
  <2>1. \A n \in DOMAIN lab : lab'[n].type = lab[n].type /\ lab'[n].num = lab[n].num
    BY DEF Labels
  <2>2. UNCHANGED <<used, foots>>
    BY DEF marks
  <2> QED
    BY <1>1, <2>1, <2>2, SteadyIf
<1> QED
  BY <1>1, <1>3, <1>4, <1>6, <1>7 DEF Good, TNext

-------------------------------------------------------------------------------
(***************************************************************************)
(* The things to do that functions put.                                    *)
(***************************************************************************)
LEMMA PlainOnes ==
  /\ \A ls : Plain_do(Blocks(ls))
  /\ \A s, i, e : Plain_do(Inline(s, i, e))
  /\ \A n : Plain_do(On("parse_header_ext_attrs", n)) /\ Plain_do(On("admonition", n))
  /\ \A ls, text : Plain_do(Gather(ls, text))
  /\ \A l, level, ls : Plain_do(Under_header(l, level, ls))
BY DEF Plain_do, Formed, Closing, Blocks, Inline, On, Gather, Under_header

LEMMA Blocks_follow == ASSUME NEW ls PROVE Plainly(<<Blocks(ls)>>)
BY PlainOnes, One_follows

LEMMA Attrs_follow == ASSUME NEW n PROVE Plainly(Header_attrs(n))
BY PlainOnes, One_follows, Nothing_follows DEF Header_attrs

\* What is first is as it may be, and so is what becomes of parse_inline().
LEMMA HereFirst == Here => First_do(Item, Text_last)
<1> SUFFICES ASSUME Here PROVE First_do(Item, Text_last)
  OBVIOUS
<1> DEFINE n == Len(work)
<1>1. PICK S : work \in Seq(Seq(S))
  BY DEF Here, Working, Ordered
<1>2. n \in 1 .. n /\ work[n] \in Seq(S) /\ work[n] # <<>>
  BY <1>1, EmptySeq, LenProperties, ElementOfSeq DEF Here
<1>3. 1 \in 1 .. Len(work[n])
  BY <1>2, EmptySeq, LenProperties
<1>4. Doing(work, n, 1, Text_last)
  BY <1>2, <1>3 DEF Here, Working, Ordered
<1> QED
  BY <1>4 DEF Doing, First_do, Here

LEMMA InlineIs ==
  ASSUME Here, Item.do = "parse_inline"
  PROVE  /\ {"do", "offset"} \subseteq DOMAIN Item
         /\ Item.offset = 0 \/ Text_last
BY HereFirst DEF First_do, Formed

LEMMA From_end_follows ==
  ASSUME Here, Item.do = "parse_inline", NEW end
  PROVE  Plainly(<<From_end(end)>>)
<1>1. {"do", "offset"} \subseteq DOMAIN Item /\ Item.do = "parse_inline"
  BY InlineIs
<1> DEFINE x == From_end(end)
<1>2. /\ x.do = "parse_inline" /\ x.offset = 0 /\ {"do", "offset"} \subseteq DOMAIN x
  BY <1>1 DEF From_end
<1> HIDE DEF x
<1>3. Plainly(<<x>>)
  BY <1>2, One_follows DEF Plain_do, Formed, Closing
<1> QED
  BY <1>3 DEF x

LEMMA Passed_follows ==
  ASSUME Here, Item.do = "parse_inline"
  PROVE  Follows(<<Passed>>, Text_last)
<1>1. /\ {"do", "offset"} \subseteq DOMAIN Item /\ Item.do = "parse_inline"
      /\ Item.offset = 0 \/ Text_last
  BY InlineIs
<1> DEFINE x == Passed
<1>2. /\ x.do = "parse_inline" /\ x.offset = Item.offset /\ {"do", "offset"} \subseteq DOMAIN x
  BY <1>1 DEF Passed
<1> HIDE DEF x
<1>3. Follows(<<x>>, Text_last)
  BY <1>1, <1>2, First_follows DEF First_do, Formed, Closing
<1> QED
  BY <1>3 DEF x

\* The type, what may be below it, and what a label of the model has.
LEMMA NodeIs ==
  ASSUME NEW type
  PROVE  Node(type).type = type /\ Fields \subseteq DOMAIN Node(type)
BY LabelIs DEF Node

LEMMA NowHere ==
  ASSUME PInv, NEW name, Now(name), name \notin Closing \cup {"header", "add_metadata"}
  PROVE  Here /\ Item.do = name
BY HereIs, ItemIs

-------------------------------------------------------------------------------
(***************************************************************************)
(* The first pass and parse_block().                                       *)
(***************************************************************************)
LEMMA GatherGood == PInv /\ Gather_next => Good
<1> SUFFICES ASSUME PInv, Gather_next PROVE Good
  OBVIOUS
<1>1. Now("gather")
  BY DEF Gather_next, Gather_footnote, Gather_ref, Gather_line, Gather_done, More
<1>2. Here
  BY <1>1, NowHere DEF Closing
<1>3. ASSUME NEW ls, NEW text
      PROVE  Follows(<<Gather(ls, text)>>, Text_last) /\ Follows(<<Blocks(ls)>>, Text_last)
  BY PlainOnes, One_follows, Plainly_follows
<1>4. CASE Gather_footnote
  BY <1>2, <1>3, <1>4, StaysGood DEF Gather_footnote, inside, marks, queues
<1>5. CASE Gather_ref
  BY <1>2, <1>3, <1>5, StaysGood DEF Gather_ref, inside, marks, queues
<1>6. CASE Gather_line
  BY <1>2, <1>3, <1>6, SkipGood DEF Gather_line
<1>7. CASE Gather_done
  BY <1>2, <1>3, <1>7, SkipGood DEF Gather_done
<1> QED
  BY <1>4, <1>5, <1>6, <1>7 DEF Gather_next

LEMMA AtHere == ASSUME PInv, NEW block, At(block) PROVE Here
BY NowHere DEF At, Closing

LEMMA ReturnGood == PInv /\ Return => Good
BY NowHere, SkipGood, Nothing_follows, Plainly_follows DEF Return, Closing

LEMMA EmptyGood == PInv /\ Empty_line => Good
BY AtHere, SkipGood, Blocks_follow, Plainly_follows DEF Empty_line

LEMMA HruleGood == PInv /\ Hrule => Good
<1> SUFFICES ASSUME PInv, Hrule PROVE Good
  OBVIOUS
<1>1. Here /\ Leaf_in(lab, Node("HRULE"), <<Blocks(Tail(Item.ls))>>)
  BY AtHere DEF Hrule, Put
<1>2. Follows(<<Blocks(Tail(Item.ls))>>, Node("HRULE").type = "NORMAL_TEXT")
  BY Blocks_follow, Plainly_follows
<1> QED
  BY <1>1, <1>2, NodeIs, LeafGood, LabelsAsTheyAre DEF Bodies

LEMMA HeaderGood ==
  ASSUME PInv, Here, NEW level, NEW s, NEW i, NEW e, NEW ls,
         Open(Header(level), <<Inline(s, i, e)>>, Header_attrs(nodes) \o <<Blocks(ls)>>)
  PROVE  Good
<1>1. /\ Header(level).type = "HEADER" /\ Fields \subseteq DOMAIN Header(level)
  BY LabelIs DEF Header
<1>2. Plainly(<<Inline(s, i, e)>>) /\ Plainly(Header_attrs(nodes) \o <<Blocks(ls)>>)
  BY PlainOnes, One_follows, Both_follow, Attrs_follow, Blocks_follow
<1>3. Open_in(lab, Header(level), <<Inline(s, i, e)>>, Header_attrs(nodes) \o <<Blocks(ls)>>)
  BY DEF Open
<1> QED
  BY <1>1, <1>2, <1>3, OpenGood, LabelsAsTheyAre DEF Leaves

LEMMA AtxheaderGood == PInv /\ Parse_atxheader => Good
<1> SUFFICES ASSUME PInv, Parse_atxheader PROVE Good
  OBVIOUS
<1>1. Here
  BY AtHere DEF Parse_atxheader
<1>2. ASSUME NEW ls, Skip(<<Blocks(ls)>>) PROVE Good
  BY <1>1, <1>2, SkipGood, Blocks_follow, Plainly_follows
<1> QED
  BY <1>1, <1>2, HeaderGood DEF Parse_atxheader

LEMMA HeaderLineGood == PInv /\ Header_line => Good
<1> SUFFICES ASSUME PInv, Header_line PROVE Good
  OBVIOUS
<1>1. Here
  BY NowHere DEF Header_line, Closing
<1> QED
  BY <1>1, HeaderGood DEF Header_line, Plain

\* One label is another, of the same type.
LEMMA LabelsExcept ==
  ASSUME NEW labels, Labels(labels), DOMAIN labels = DOMAIN lab, NEW n, NEW l,
         n \in DOMAIN lab => l.type = lab[n].type /\ l.num = lab[n].num /\ Fields \subseteq DOMAIN l
  PROVE  Labels([labels EXCEPT ![n] = l]) /\ DOMAIN [labels EXCEPT ![n] = l] = DOMAIN lab
<1> DEFINE f == [labels EXCEPT ![n] = l]
<1>1. DOMAIN f = DOMAIN lab /\ \A m \in DOMAIN lab : f[m] = IF m = n THEN l ELSE labels[m]
  OBVIOUS
<1> HIDE DEF f
<1>2. Labels(f)
  BY <1>1 DEF Labels
<1> QED
  BY <1>1, <1>2 DEF f

\* A field of a label that is not its type.
LEMMA FieldExcept ==
  ASSUME NEW l, Fields \subseteq DOMAIN l, NEW v
  PROVE  /\ [l EXCEPT !.more = v].type = l.type /\ [l EXCEPT !.more = v].num = l.num
         /\ DOMAIN [l EXCEPT !.more = v] = DOMAIN l
         /\ [l EXCEPT !.text = v].type = l.type /\ [l EXCEPT !.text = v].num = l.num
         /\ DOMAIN [l EXCEPT !.text = v] = DOMAIN l
         /\ [l EXCEPT !.fl = v].type = l.type /\ [l EXCEPT !.fl = v].num = l.num
         /\ DOMAIN [l EXCEPT !.fl = v] = DOMAIN l
BY DEF Fields

\* The last text of a node is removed.
LEMMA CutGood ==
  ASSUME PInv, Here, NEW labels, Labels(labels), NEW n, Removelast(labels, n),
         NEW follow, Plainly(follow), Go(follow), UNCHANGED marks
  PROVE  Good
<1> DEFINE t == Last_child(n)
<1>1. /\ phase = "parsing" /\ n \in DOMAIN lab /\ t # None /\ lab[t].type = "NORMAL_TEXT"
      /\ lab' = [m \in DOMAIN lab \ {t} |-> labels[m]]
      /\ UNCHANGED <<nodes, current, depth, held, maxdepth, phase>>
      /\ work' = Instead(follow)
  BY DEF Removelast, Go
<1>2. /\ DOMAIN lab' = DOMAIN lab \ {t}
      /\ \A m \in DOMAIN lab \ {t} : lab'[m] = labels[m]
  BY <1>1
<1>3. \A m \in DOMAIN lab \ {t} : /\ lab'[m].type = lab[m].type /\ lab'[m].num = lab[m].num
                                 /\ Fields \subseteq DOMAIN lab'[m]
  BY <1>2 DEF Labels
<1>4. Labelled' /\ Inside_is'
  <2>1. \A m \in DOMAIN lab' : Fields \subseteq DOMAIN lab'[m]
    BY <1>2, <1>3
  <2> QED
    BY <2>1 DEF Labelled, Fields, PInv, Inside_is, inside, marks, queues
<1>5. Removelast(lab', n)
  <2>1. lab' = [m \in DOMAIN lab \ {t} |-> lab'[m]]
    BY <1>1, <1>2
  <2> QED
    BY <2>1 DEF Removelast
<1>6. Cut_last
  <2>1. \A m \in DOMAIN lab \ {t} : m \in DOMAIN lab' /\ lab'[m].type = lab[m].type
    BY <1>2, <1>3
  <2> QED
    BY <1>1, <1>5, <2>1 DEF Cut_last
<1>7. \A i \in 1 .. Len(held) : lab'[held[i]].type = lab[held[i]].type
  <2> SUFFICES ASSUME NEW i \in 1 .. Len(held) PROVE lab'[held[i]].type = lab[held[i]].type
    OBVIOUS
  <2>1. held[i] \in DOMAIN lab /\ DOMAIN held = 1 .. Len(held)
    BY <1>1, HeldNodes, LenProperties
  <2>2. lab[held[i]].type \notin Leaves
    BY <2>1 DEF PInv, IInv, TreeWhole, LeavesBare
  <2>3. held[i] # t
    BY <1>1, <2>2 DEF Leaves
  <2> QED
    BY <1>3, <2>1, <2>3
<1>11. Bodywise
  <2>1. UNCHANGED <<used, foots>> /\ lab[t].type \notin Bodies
    BY <1>1 DEF marks, Bodies
  <2> QED
    BY <1>1, <1>2, <1>3, <2>1, SteadyIf
<1> HIDE DEF t
<1>8. Ordered(Instead(follow), held, lab, in_link_body, in_footnote, Text_last')
  BY WorkGoes, Plainly_follows, LabelsAsTheyAre DEF Labels
<1>9. Ordered(Instead(follow), held, lab', in_link_body, in_footnote, Text_last')
  BY <1>7, <1>8, OrderedRelabelled
<1>10. Ordered(work', held', lab', in_link_body', in_footnote', Text_last')
  BY <1>1, <1>9 DEF inside, marks, queues
<1> QED
  BY <1>1, <1>4, <1>6, <1>10, <1>11 DEF Good, TNext

LEMMA AttrsGood == PInv /\ Parse_header_ext_attrs => Good
<1> SUFFICES ASSUME PInv, Parse_header_ext_attrs PROVE Good
  OBVIOUS
<1>1. Here
  BY NowHere DEF Parse_header_ext_attrs, Closing
<1>2. CASE Skip(<<>>)
  BY <1>1, <1>2, SkipGood, Nothing_follows, Plainly_follows
<1>3. CASE Fails("attrs")
  BY <1>3, FailsGood
<1>4. ASSUME NEW n, NEW nn, NEW attrs, NEW kept,
             \/ Removelast([lab EXCEPT ![n].more = attrs, ![nn].text = kept], n)
             \/ /\ lab' = [lab EXCEPT ![n].more = attrs, ![nn].text = kept]
                /\ UNCHANGED <<kids, par, nodes, current, depth, held, maxdepth, phase>>,
             Go(<<>>), UNCHANGED marks
      PROVE  Good
  <2> DEFINE one == [lab EXCEPT ![n] = [lab[n] EXCEPT !.more = attrs]]
             set == [one EXCEPT ![nn] = [one[nn] EXCEPT !.text = kept]]
  <2>1. set = [lab EXCEPT ![n].more = attrs, ![nn].text = kept]
    OBVIOUS
  <2>2. Labels(one) /\ DOMAIN one = DOMAIN lab
    BY LabelsExcept, FieldExcept, LabelsAsTheyAre DEF Labels
  <2> HIDE DEF one
  <2>3. Labels(set) /\ DOMAIN set = DOMAIN lab
    BY <2>2, LabelsExcept, FieldExcept DEF Labels
  <2>4. Plainly(<<>>)
    BY Nothing_follows
  <2> HIDE DEF set
  <2>5. CASE lab' = set /\ UNCHANGED <<kids, par, nodes, current, depth, held, maxdepth, phase>>
    BY <1>1, <1>4, <2>1, <2>3, <2>4, <2>5, ChangeGood
  <2>6. CASE Removelast(set, n)
    BY <1>1, <1>4, <2>3, <2>4, <2>6, CutGood
  <2> QED
    BY <1>4, <2>1, <2>5, <2>6
<1> DEFINE n    == Item.n
           nn   == Last_child(n)
           t    == lab[nn].text
           i    == Least({k \in DOMAIN t : t[k] = "{" /\ \A j \in k + 1 .. Len(t) : t[j] # "{"}, 0)
           kept == SubSeq(t, 1, Least({k \in 0 .. i - 1 : \A j \in k + 1 .. i - 1 : t[j] = " "}, 0))
           attrs == Attrs_parse(SubSeq(t, i + 1, Len(t) - 1))
           set  == [lab EXCEPT ![n].more = attrs, ![nn].text = kept]
           Goes ==
             /\ \/ Removelast(set, n)
                \/ /\ lab' = set
                   /\ UNCHANGED <<kids, par, nodes, current, depth, held, maxdepth, phase>>
             /\ Go(<<>>) /\ UNCHANGED marks
<1>5. Skip(<<>>) \/ Fails("attrs") \/ Goes
  BY Zenon DEF Parse_header_ext_attrs, inside, marks, queues
<1> HIDE DEF n, nn, attrs, kept
<1>6. CASE Goes
  BY <1>4, <1>6
<1> HIDE DEF Goes
<1> QED
  BY <1>2, <1>3, <1>5, <1>6

LEMMA BlockLeafGood ==
  ASSUME PInv, NEW block, At(block), NEW l, Fields \subseteq DOMAIN l,
         l.type \in {"BLOCKHTML", "BLOCKCODE"}, NEW ls, Put(l, <<Blocks(ls)>>)
  PROVE  Good
<1>1. Here /\ Leaf_in(lab, l, <<Blocks(ls)>>)
  BY AtHere DEF Put
<1>2. Follows(<<Blocks(ls)>>, l.type = "NORMAL_TEXT")
  BY Blocks_follow, Plainly_follows
<1> QED
  BY <1>1, <1>2, LeafGood, LabelsAsTheyAre DEF Bodies

LEMMA CodeGood == PInv /\ (Parse_htmlblock \/ Parse_fencedcode \/ Parse_blockcode) => Good
BY BlockLeafGood, LabelIs DEF Parse_htmlblock, Parse_fencedcode, Parse_blockcode

LEMMA QuoteGood == PInv /\ Parse_blockquote => Good
<1> SUFFICES ASSUME PInv, Parse_blockquote PROVE Good
  OBVIOUS
<1> DEFINE quote == Blockquote(Item.ls)
           attr == IF "CALLOUTS" \in Flags THEN <<On("admonition", nodes)>> ELSE <<>>
<1>1. Here
  BY AtHere DEF Parse_blockquote
<1>2. Open_in(lab, Node("BLOCKQUOTE"), <<Blocks(quote.body)>>, attr \o <<Blocks(quote.rest)>>)
  BY DEF Parse_blockquote, Open
<1> HIDE DEF quote
<1>3. Plainly(attr)
  BY PlainOnes, One_follows, Nothing_follows
<1> HIDE DEF attr
<1>4. Plainly(<<Blocks(quote.body)>>) /\ Plainly(attr \o <<Blocks(quote.rest)>>)
  BY <1>3, Both_follow, Blocks_follow
<1> QED
  BY <1>1, <1>2, <1>4, NodeIs, OpenGood, LabelsAsTheyAre DEF Leaves

LEMMA RelabelGood ==
  ASSUME PInv, Here, NEW n, NEW fl, Relabel(n, [lab[n] EXCEPT !.fl = fl]), Go(<<>>), UNCHANGED marks
  PROVE  Good
<1> DEFINE l == [lab[n] EXCEPT !.fl = fl]
           labels == [lab EXCEPT ![n] = l]
<1>1. /\ n \in DOMAIN lab /\ lab' = labels
      /\ UNCHANGED <<kids, par, nodes, current, depth, held, maxdepth, phase>>
  BY DEF Relabel
<1>2. l.type = lab[n].type /\ l.num = lab[n].num /\ Fields \subseteq DOMAIN l
  BY <1>1, FieldExcept DEF PInv, Labelled
<1> HIDE DEF l
<1>3. Labels(labels) /\ DOMAIN labels = DOMAIN lab
  BY <1>2, LabelsExcept, LabelsAsTheyAre
<1> HIDE DEF labels
<1> QED
  BY <1>1, <1>3, Nothing_follows, ChangeGood

LEMMA AdmonitionGood == PInv /\ Admonition => Good
<1> SUFFICES ASSUME PInv, Admonition PROVE Good
  OBVIOUS
<1>1. Here
  BY NowHere DEF Admonition, Closing
<1>2. CASE Skip(<<>>)
  BY <1>1, <1>2, SkipGood, Nothing_follows, Plainly_follows
<1> QED
  BY <1>1, <1>2, RelabelGood DEF Admonition, inside, marks, queues

LEMMA ParagraphGood == PInv /\ Parse_paragraph => Good
<1> SUFFICES ASSUME PInv, Parse_paragraph PROVE Good
  OBVIOUS
<1>1. Here
  BY AtHere DEF Parse_paragraph
<1>2. ASSUME NEW l, NEW level, NEW ls, Skip(<<Under_header(l, level, ls)>>) PROVE Good
  BY <1>1, <1>2, PlainOnes, One_follows, SkipGood, Plainly_follows
<1>3. ASSUME NEW lines, NEW beoln, NEW inner, NEW follow, Plainly(inner), Plainly(follow),
             Open(Para(lines, beoln), inner, follow)
      PROVE  Good
  <2>1. Para(lines, beoln).type = "PARAGRAPH" /\ Fields \subseteq DOMAIN Para(lines, beoln)
    BY LabelIs DEF Para
  <2> QED
    BY <1>1, <1>3, <2>1, OpenGood, LabelsAsTheyAre DEF Leaves, Open
<1>4. \A ls : Plainly(<<Plain(ls)>>)
  BY PlainOnes, One_follows DEF Plain
<1>5. \A l, level, ls : Plainly(<<Under_header(l, level, ls)>>) /\ Plainly(<<Blocks(ls)>>)
  BY PlainOnes, One_follows
<1> QED
  BY <1>2, <1>3, <1>4, <1>5, Nothing_follows DEF Parse_paragraph

LEMMA BlockGood == PInv /\ Block_next => Good
BY ReturnGood, EmptyGood, HruleGood, AtxheaderGood, AttrsGood, CodeGood, QuoteGood,
   AdmonitionGood, ParagraphGood, HeaderLineGood
DEF Block_next

-------------------------------------------------------------------------------
(***************************************************************************)
(* Lists and tables.                                                       *)
(***************************************************************************)
LEMMA EachPlain ==
  ASSUME NEW name \in {"parse_listitem", "data"}, NEW items, NEW k, NEW last, NEW start, NEW fl
  PROVE  Plainly(Each(name, items, k, last, start, fl))
<1> DEFINE x == [do |-> name, items |-> items, k |-> k, last |-> last, start |-> start, fl |-> fl]
<1>1. Plain_do(x)
  BY DEF Plain_do, Formed, Closing
<1> HIDE DEF x
<1>2. Plainly(<<x>>) /\ Plainly(<<>>)
  BY <1>1, One_follows, Nothing_follows
<1> QED
  BY <1>2 DEF x, Each

LEMMA ListEndPlain == ASSUME NEW block PROVE Plainly(<<[do |-> "list_end", block |-> block]>>)
<1> DEFINE x == [do |-> "list_end", block |-> block]
<1>1. Plain_do(x)
  BY DEF Plain_do, Formed, Closing
<1> HIDE DEF x
<1>2. Plainly(<<x>>)
  BY <1>1, One_follows
<1> QED
  BY <1>2 DEF x

LEMMA ListGood == PInv /\ Parse_list => Good
<1> SUFFICES ASSUME PInv, Parse_list PROVE Good
  OBVIOUS
<1>1. Here
  BY AtHere DEF Parse_list
<1>2. PICK items, kind, start, block :
        Open(Label("LIST", <<>>, {kind}, start, 0),
             Each("parse_listitem", items, 1, Len(items), start, {kind})
               \o <<[do |-> "list_end", block |-> block]>>,
             <<Blocks(After(items))>>)
  BY Zenon DEF Parse_list
<1> DEFINE inner == Each("parse_listitem", items, 1, Len(items), start, {kind})
                      \o <<[do |-> "list_end", block |-> block]>>
           l == Label("LIST", <<>>, {kind}, start, 0)
<1>3. Plainly(inner) /\ Plainly(<<Blocks(After(items))>>)
  BY EachPlain, ListEndPlain, Both_follow, Blocks_follow
<1>4. l.type = "LIST" /\ Fields \subseteq DOMAIN l
  BY LabelIs
<1> HIDE DEF inner, l
<1>5. Open_in(lab, l, inner, <<Blocks(After(items))>>)
  BY <1>2 DEF inner, l, Open
<1> QED
  BY <1>1, <1>3, <1>4, <1>5, OpenGood, LabelsAsTheyAre DEF Leaves

LEMMA CountedLabels == PInv => Labels(Counted)
<1> SUFFICES ASSUME PInv PROVE Labels(Counted)
  OBVIOUS
<1> DEFINE l == [lab[current] EXCEPT !.more = @ + 1]
<1>1. CASE lab[current].type = "LIST"
  <2>1. Counted = [lab EXCEPT ![current] = l]
    BY <1>1 DEF Counted
  <2>2. current \in DOMAIN lab =>
          l.type = lab[current].type /\ l.num = lab[current].num /\ Fields \subseteq DOMAIN l
    BY FieldExcept DEF PInv, Labelled
  <2> HIDE DEF l
  <2> QED
    BY <2>1, <2>2, LabelsExcept, LabelsAsTheyAre
<1>2. CASE lab[current].type # "LIST"
  BY <1>2, LabelsAsTheyAre DEF Counted
<1> QED
  BY <1>1, <1>2

LEMMA ListitemGood == PInv /\ Parse_listitem => Good
<1> SUFFICES ASSUME PInv, Parse_listitem PROVE Good
  OBVIOUS
<1>1. Here /\ Item.do = "parse_listitem"
  BY NowHere DEF Parse_listitem, Closing
<1> DEFINE it    == Item_of(Item.items, Item.k, Item.start, Item.fl)
           ls    == it.body
           split == IF it.sublist \in 1 .. Len(ls) - 1 THEN it.sublist ELSE Len(ls)
           first == SubSeq(ls, 1, split)
           t     == Flat(first)
           body  == IF it.block THEN Blocks(first) ELSE Inline(t, 1, Len(t) + 1)
           rest  == IF split < Len(ls) THEN <<Blocks(From(ls, split + 1))>> ELSE <<>>
           l == Label("LISTITEM", <<>>, it.fl, it.num, <<>>)
<1>2. Open_in(Counted, l, <<body>> \o rest, Next_item)
  BY Zenon DEF Parse_listitem
<1>3. l.type = "LISTITEM" /\ Fields \subseteq DOMAIN l
  BY LabelIs
<1> HIDE DEF l, split, first, t
<1>4. Plainly(<<body>>) /\ Plainly(rest)
  BY PlainOnes, One_follows, Nothing_follows
<1> HIDE DEF body, rest
<1>5. Plainly(<<body>> \o rest) /\ Plainly(Next_item)
  BY <1>1, <1>4, Both_follow, EachPlain DEF Next_item
<1> DEFINE labels == Counted
<1>6. Labels(labels)
  BY CountedLabels
<1> HIDE DEF labels
<1>7. Open_in(labels, l, <<body>> \o rest, Next_item)
  BY <1>2 DEF labels
<1> QED
  BY <1>1, <1>3, <1>5, <1>6, <1>7, OpenGood DEF Leaves

LEMMA ListEndGood == PInv /\ List_end => Good
<1> SUFFICES ASSUME PInv, List_end PROVE Good
  OBVIOUS
<1>1. Here
  BY NowHere DEF List_end, Closing
<1>2. CASE Skip(<<>>)
  BY <1>1, <1>2, SkipGood, Nothing_follows, Plainly_follows
<1>3. ASSUME NEW fl, Relabel(current, [lab[current] EXCEPT !.fl = fl]), Go(<<>>), UNCHANGED marks
      PROVE  Good
  BY <1>1, <1>3, RelabelGood
<1>4. \/ Skip(<<>>)
      \/ /\ Relabel(current, [lab[current] EXCEPT !.fl = lab[current].fl \cup {"BLOCK"}])
         /\ Go(<<>>) /\ UNCHANGED marks
  BY DEF List_end, inside, marks, queues
<1> QED
  BY <1>2, <1>3, <1>4

LEMMA DataGood == PInv /\ Definition_data => Good
<1> SUFFICES ASSUME PInv, Definition_data PROVE Good
  OBVIOUS
<1>1. Here /\ Item.do = "data"
  BY NowHere DEF Definition_data, Closing
<1> DEFINE inner == IF Item.k > Len(Item.items) THEN <<>>
                    ELSE Each("parse_listitem", Item.items, Item.k, Item.k, Item.start, Item.fl)
<1>2. Open_in(lab, Node("DEFINITION_DATA"), inner, Next_item)
  BY DEF Definition_data, Open
<1>3. Plainly(inner) /\ Plainly(Next_item)
  BY <1>1, EachPlain, Nothing_follows DEF Next_item
<1> HIDE DEF inner
<1> QED
  BY <1>1, <1>2, <1>3, NodeIs, OpenGood, LabelsAsTheyAre DEF Leaves

\* A node made or kept is held, and the types of those held before stay.
LEMMA HoldGood ==
  ASSUME PInv, Here, TNext, Labelled', phase' = phase, UNCHANGED marks, Bodywise,
         NEW x, held' = Append(held, x), x \in DOMAIN lab', DOMAIN lab \subseteq DOMAIN lab',
         lab'[x].type \notin {"LINK", "FOOTNOTE"},
         \A i \in 1 .. Len(held) : lab'[held[i]].type = lab[held[i]].type,
         NEW inner, Plainly(inner), NEW follow, Plainly(follow),
         work' = Append(Instead(follow), inner)
  PROVE  Good
<1> DEFINE w == Instead(follow)
           k == lab'
           text == Text_last'
<1>1. phase = "parsing"
  BY DEF Here
<1>2. Ordered(w, held, k, in_link_body, in_footnote, FALSE) /\ Begun(w, held, k, Len(w))
  <2>1. /\ Ordered(w, held, lab, in_link_body, in_footnote, FALSE) /\ Begun(w, held, lab, Len(w))
    <3>1. Follows(follow, FALSE)
      BY Plainly_follows
    <3> QED
      BY <3>1, WorkGoes, BegunStill
  <2>2. Len(w) = Len(held) /\ Len(w) \in Nat
    BY <2>1, LenProperties DEF Ordered
  <2>3. Begun(w, held, k, Len(w))
    BY <2>1, <2>2 DEF Begun
  <2> QED
    BY <2>1, <2>3, OrderedRelabelled
<1>3. Added(inner, held, x, k, in_link_body, in_footnote, in_link_body, in_footnote)
  <2>1. PICK T : inner \in Seq(T) /\ \A j \in 1 .. Len(inner) : Plain_do(inner[j])
    BY DEF Plainly
  <2>2. ASSUME inner # <<>> PROVE inner[Len(inner)].do \notin Closing
    <3>1. Len(inner) \in 1 .. Len(inner)
      BY <2>1, <2>2, EmptySeq, LenProperties
    <3> QED
      BY <2>1, <3>1 DEF Plain_do
  <2>3. ~Closes(inner, "link_end") /\ ~Closes(inner, "foot_end")
    BY <2>2 DEF Closes, Closing
  <2>4. held \in Seq(DOMAIN lab')
    BY <1>1, HeldNodes, SeqMonotonic
  <2> QED
    BY <2>1, <2>3, <2>4 DEF Added
<1> HIDE DEF w, k, text
<1>4. Ordered(Append(w, inner), Append(held, x), k, in_link_body, in_footnote, text)
  BY <1>2, <1>3, OrderedAppended
<1>5. Ordered(work', held', lab', in_link_body', in_footnote', Text_last')
  BY <1>4 DEF w, k, text, inside, marks, queues
<1>6. Inside_is'
  BY DEF PInv, Inside_is, inside, marks, queues
<1> QED
  BY <1>1, <1>5, <1>6 DEF Good

LEMMA TitledType ==
  ASSUME NEW t \in DOMAIN lab
  PROVE  Titled(lab, t)[t].type = "DEFINITION_TITLE"
<1> DEFINE l == Label("DEFINITION_TITLE", lab[t].text, lab[t].fl, lab[t].num, lab[t].more)
<1>1. Titled(lab, t) = [lab EXCEPT ![t] = l]
  BY DEF Titled
<1>2. l.type = "DEFINITION_TITLE"
  BY LabelIs
<1> HIDE DEF l
<1> QED
  BY <1>1, <1>2

LEMMA DefinitionGood == PInv /\ Parse_definition => Good
<1> SUFFICES ASSUME PInv, Parse_definition PROVE Good
  OBVIOUS
<1>1. Here /\ phase = "parsing"
  BY AtHere DEF Parse_definition, Here
<1> DEFINE t == Last_child(current)
<1>2. PICK items, fl, block, prev :
        \/ Fails("depth")
        \/ /\ Retitle(prev) \/ Entitle(Label("DEFINITION", <<>>, fl, 0, <<>>))
           /\ work' = Append(Instead(<<Blocks(After(items))>>),
                             Definitions(items, fl) \o <<[do |-> "list_end", block |-> block]>>)
           /\ UNCHANGED marks
  BY Zenon DEF Parse_definition, inside, marks, queues
<1> DEFINE inner == Definitions(items, fl) \o <<[do |-> "list_end", block |-> block]>>
           follow == <<Blocks(After(items))>>
<1>3. Plainly(inner) /\ Plainly(follow)
  BY EachPlain, ListEndPlain, Both_follow, Blocks_follow DEF Definitions
<1> HIDE DEF inner, follow
<1>4. IInv /\ DOMAIN kids = DOMAIN lab /\ \A i \in 1 .. Len(held) : held[i] \in DOMAIN lab
  BY <1>1, HeldNodes DEF PInv
<1>5. Len(held) \in Nat /\ DOMAIN held = 1 .. Len(held)
  BY <1>1, <1>4, Facts
<1>6. ASSUME t # None, lab[t].type = "PARAGRAPH"
      PROVE  /\ t \in DOMAIN lab /\ \A i \in 1 .. Len(held) : held[i] # t
             /\ DOMAIN Titled(lab, t) = DOMAIN lab
             /\ \A n \in DOMAIN lab : n # t => Titled(lab, t)[n] = lab[n]
             /\ \A n \in DOMAIN lab : Fields \subseteq DOMAIN Titled(lab, t)[n]
  <2>1. t \in DOMAIN lab /\ \A i \in 1 .. Len(held) : held[i] # t
    BY <1>1, <1>4, <1>5, <1>6, TitleFacts
  <2> HIDE DEF t
  <2>2. PICK l : Titled(lab, t) = [lab EXCEPT ![t] = l] /\ Fields \subseteq DOMAIN l
    <3> DEFINE l == Label("DEFINITION_TITLE", lab[t].text, lab[t].fl, lab[t].num, lab[t].more)
    <3>1. Titled(lab, t) = [lab EXCEPT ![t] = l]
      BY DEF Titled
    <3>2. Fields \subseteq DOMAIN l
      BY LabelIs
    <3> HIDE DEF l
    <3> QED
      BY <3>1, <3>2
  <2> QED
    BY <2>1, <2>2 DEF PInv, Labelled
<1>7. CASE Fails("depth")
  BY <1>7, FailsGood
<1>8. CASE Retitle(prev) /\ work' = Append(Instead(follow), inner) /\ UNCHANGED marks
  <2>1. /\ t # None /\ lab[t].type = "PARAGRAPH"
        /\ Len(kids[current]) > 1 /\ prev = kids[current][Len(kids[current]) - 1]
        /\ lab[prev].type = "DEFINITION"
        /\ lab' = Titled(lab, t) /\ held' = Append(held, prev) /\ phase' = phase
    BY <1>8 DEF Retitle
  <2>2. /\ t \in DOMAIN lab /\ \A i \in 1 .. Len(held) : held[i] # t
        /\ DOMAIN lab' = DOMAIN lab
        /\ \A n \in DOMAIN lab : n # t => lab'[n] = lab[n]
        /\ \A n \in DOMAIN lab : Fields \subseteq DOMAIN lab'[n]
    BY <1>6, <2>1
  <2>3. prev \in DOMAIN lab /\ prev # t
    <3>1. current \in DOMAIN kids
      BY <1>1, <1>4, Facts
    <3>2. /\ kids[current] \in Seq(DOMAIN kids) /\ Len(kids[current]) \in Nat
          /\ DOMAIN kids[current] = 1 .. Len(kids[current])
      BY <1>4, <2>1, <3>1, LastChild
    <3>3. Len(kids[current]) - 1 \in DOMAIN kids[current]
      BY <2>1, <3>2
    <3> QED
      BY <1>4, <2>1, <3>2, <3>3, ElementOfSeq
  <2>4. TNext
    BY <1>8, <2>3 DEF TNext, Enlist
  <2>5. Labelled'
    BY <2>2 DEF Labelled, Fields
  <2>6. lab'[prev].type = "DEFINITION"
    BY <2>1, <2>2, <2>3
  <2>7. \A i \in 1 .. Len(held) : lab'[held[i]].type = lab[held[i]].type
    BY <1>4, <2>2
  <2>8. Bodywise
    <3>1. /\ UNCHANGED <<used, foots>> /\ lab[t].type \notin Bodies /\ lab'[t].type \notin Bodies
      BY <1>8, <2>1, <2>2, TitledType DEF marks, Bodies
    <3> QED
      BY <1>1, <2>2, <3>1, SteadyIf
  <2> QED
    BY <1>1, <1>3, <1>8, <2>1, <2>2, <2>3, <2>4, <2>5, <2>6, <2>7, <2>8, HoldGood
<1>9. CASE /\ Entitle(Label("DEFINITION", <<>>, fl, 0, <<>>))
           /\ work' = Append(Instead(follow), inner) /\ UNCHANGED marks
  <2> DEFINE l == Label("DEFINITION", <<>>, fl, 0, <<>>)
             ids == DOMAIN lab \cup {nodes}
  <2>0. l.type = "DEFINITION" /\ Fields \subseteq DOMAIN l
    BY LabelIs
  <2> HIDE DEF l
  <2>a. Entitle(l)
    BY <1>9 DEF l
  <2>1. /\ t # None /\ lab[t].type = "PARAGRAPH"
        /\ lab' = [n \in ids |-> IF n = nodes THEN l ELSE Titled(lab, t)[n]]
        /\ held' = Append(held, nodes) /\ phase' = phase
    BY <2>a DEF Entitle
  <2>2. nodes \notin DOMAIN lab
    BY <1>1, HeldNodes
  <2>3. /\ \A i \in 1 .. Len(held) : held[i] # t
        /\ DOMAIN lab' = ids /\ lab'[nodes] = l
        /\ \A n \in DOMAIN lab : n # t => lab'[n] = lab[n]
        /\ \A n \in DOMAIN lab : Fields \subseteq DOMAIN lab'[n]
    <3>1. /\ \A i \in 1 .. Len(held) : held[i] # t
          /\ \A n \in DOMAIN lab : n # t => Titled(lab, t)[n] = lab[n]
          /\ \A n \in DOMAIN lab : Fields \subseteq DOMAIN Titled(lab, t)[n]
      BY <1>6, <2>1
    <3>2. \A n \in DOMAIN lab : lab'[n] = Titled(lab, t)[n]
      BY <2>1, <2>2
    <3> QED
      BY <2>1, <3>1, <3>2
  <2>4. TNext
    BY <2>a, <2>3 DEF TNext, Enlist
  <2>5. Labelled'
    BY <2>0, <2>3 DEF Labelled, Fields
  <2>6. \A i \in 1 .. Len(held) : lab'[held[i]].type = lab[held[i]].type
    BY <1>4, <2>3
  <2>8. Bodywise
    <3>1. /\ UNCHANGED <<used, foots>> /\ lab[t].type \notin Bodies /\ l.type \notin Bodies
      BY <1>9, <2>0, <2>1 DEF marks, Bodies
    <3>2. t \in DOMAIN lab /\ lab'[t].type \notin Bodies
      <4>1. t \in DOMAIN lab
        BY <1>6, <2>1
      <4>2. lab'[t] = Titled(lab, t)[t]
        BY <2>1, <2>2, <4>1
      <4> QED
        BY <4>1, <4>2, TitledType DEF Bodies
    <3> QED
      BY <1>1, <2>3, <3>1, <3>2, SteadyIf
  <2> HIDE DEF t
  <2>7. /\ nodes \in DOMAIN lab' /\ DOMAIN lab \subseteq DOMAIN lab'
        /\ lab'[nodes].type \notin {"LINK", "FOOTNOTE"}
    BY <2>0, <2>3
  <2> QED
    BY <1>1, <1>3, <1>9, <2>1, <2>4, <2>5, <2>6, <2>7, <2>8, HoldGood
<1> QED
  BY <1>2, <1>7, <1>8, <1>9 DEF inner, follow

LEMMA ListsGood == PInv /\ List_next => Good
BY ListGood, ListitemGood, ListEndGood, DefinitionGood, DataGood DEF List_next

LEMMA RowsPlain == ASSUME NEW rows PROVE Plainly(Rows(rows))
<1> DEFINE x == [do |-> "parse_table_row", rows |-> rows]
<1>1. Plain_do(x)
  BY DEF Plain_do, Formed, Closing
<1> HIDE DEF x
<1>2. Plainly(<<x>>) /\ Plainly(<<>>)
  BY <1>1, One_follows, Nothing_follows
<1> QED
  BY <1>2 DEF x, Rows

LEMMA CellsPlain == ASSUME NEW row, NEW cells, NEW col PROVE Plainly(Cells(row, cells, col))
<1> DEFINE x == [do |-> "table_cell", row |-> row, cells |-> cells, col |-> col]
<1>1. Plain_do(x)
  BY DEF Plain_do, Formed, Closing
<1> HIDE DEF x
<1>2. Plainly(<<x>>) /\ Plainly(<<>>)
  BY <1>1, One_follows, Nothing_follows
<1> QED
  BY <1>2 DEF x, Cells

LEMMA TableGood == PInv /\ Parse_table => Good
<1> SUFFICES ASSUME PInv, Parse_table PROVE Good
  OBVIOUS
<1>1. Here
  BY AtHere DEF Parse_table
<1>2. PICK num, head, body, ls :
        Open(Label("TABLE_BLOCK", <<>>, {}, num, <<>>),
             <<[do |-> "table_part", header |-> TRUE, rows |-> head],
               [do |-> "table_part", header |-> FALSE, rows |-> body]>>,
             <<Blocks(ls)>>)
  BY Zenon DEF Parse_table
<1> DEFINE x == [do |-> "table_part", header |-> TRUE, rows |-> head]
           y == [do |-> "table_part", header |-> FALSE, rows |-> body]
           l == Label("TABLE_BLOCK", <<>>, {}, num, <<>>)
<1>3. Plain_do(x) /\ Plain_do(y)
  BY DEF Plain_do, Formed, Closing
<1>4. l.type = "TABLE_BLOCK" /\ Fields \subseteq DOMAIN l
  BY LabelIs
<1>5. Open_in(lab, l, <<x, y>>, <<Blocks(ls)>>)
  BY <1>2 DEF Open
<1> HIDE DEF x, y, l
<1>6. Plainly(<<x, y>>)
  <2> DEFINE s == <<x, y>>
  <2>1. s \in Seq({x, y}) /\ Len(s) = 2 /\ s[1] = x /\ s[2] = y
    OBVIOUS
  <2> HIDE DEF s
  <2>2. \A j \in 1 .. Len(s) : Plain_do(s[j])
    BY <1>3, <2>1
  <2>3. Plainly(s)
    BY <2>1, <2>2 DEF Plainly
  <2> QED
    BY <2>3 DEF s
<1> QED
  BY <1>1, <1>4, <1>5, <1>6, Blocks_follow, OpenGood, LabelsAsTheyAre DEF Leaves

LEMMA PartGood == PInv /\ Table_part => Good
<1> SUFFICES ASSUME PInv, Table_part PROVE Good
  OBVIOUS
<1>1. Here
  BY NowHere DEF Table_part, Closing
<1>2. PICK type \in {"TABLE_HEADER", "TABLE_BODY"} : Open_in(lab, Node(type), Rows(Item.rows), <<>>)
  BY DEF Table_part, Open
<1> QED
  BY <1>1, <1>2, NodeIs, RowsPlain, Nothing_follows, OpenGood, LabelsAsTheyAre DEF Leaves

LEMMA RowGood == PInv /\ Parse_table_row => Good
<1> SUFFICES ASSUME PInv, Parse_table_row PROVE Good
  OBVIOUS
<1>1. Here
  BY NowHere DEF Parse_table_row, Closing
<1>2. PICK row, cells, rows : Open_in(lab, Node("TABLE_ROW"), Cells(row, cells, 1), Rows(rows))
  BY Zenon DEF Parse_table_row, Open
<1> QED
  BY <1>1, <1>2, NodeIs, RowsPlain, CellsPlain, OpenGood, LabelsAsTheyAre DEF Leaves

LEMMA CellGood == PInv /\ Table_cell => Good
<1> SUFFICES ASSUME PInv, Table_cell PROVE Good
  OBVIOUS
<1>1. Here
  BY NowHere DEF Table_cell, Closing
<1> DEFINE inner == IF Item.col > Len(Item.cells) THEN <<>>
                    ELSE <<Inline(Row_text(Item.row), Item.cells[Item.col].from, Item.cells[Item.col].to)>>
           follow == Cells(Item.row, Item.cells, Item.col + 1)
           l == Label("TABLE_CELL", <<>>, Item.row.flags[Item.col] \cup Item.row.header,
                      Item.col - 1, <<>>)
<1>2. Open_in(lab, l, inner, follow)
  BY Zenon DEF Table_cell, Open
<1>3. Plainly(inner) /\ Plainly(follow)
  BY PlainOnes, One_follows, Nothing_follows, CellsPlain
<1>4. l.type = "TABLE_CELL" /\ Fields \subseteq DOMAIN l
  BY LabelIs
<1> HIDE DEF inner, follow, l
<1> QED
  BY <1>1, <1>2, <1>3, <1>4, OpenGood, LabelsAsTheyAre DEF Leaves

LEMMA TablesGood == PInv /\ Table_next => Good
BY TableGood, PartGood, RowGood, CellGood DEF Table_next
-------------------------------------------------------------------------------
(***************************************************************************)
(* What the functions for the active characters may find.                  *)
(***************************************************************************)
Wraps == {"EMPHASIS", "DOUBLE_EMPHASIS", "TRIPLE_EMPHASIS", "STRIKETHROUGH", "HIGHLIGHT",
          "SUPERSCRIPT", "SUBSCRIPT"}
Atoms == {"CODESPAN", "MATH_BLOCK", "MATH_SPAN", "NORMAL_TEXT", "ESCAPED_TEXT", "LINEBREAK",
          "ENTITY", "RAW_HTML"}

Spanned(x, o) ==
  \/ x.does \in {"nothing", "skip", "auto"}
  \/ x.does = "wrap" /\ x.type \in Wraps
  \/ x.does = "leaf" /\ x.type \in Atoms
  \/ x.does = "break" /\ ~(o < 2)

LEMMA SpanKinds ==
  /\ \A o : Spanned(NoSpan, o)
  /\ \A o, type, from, to, end : type \in Wraps => Spanned(Wrap(type, from, to, end), o)
  /\ \A o, type, text, end : type \in Atoms => Spanned(Leaf(type, text, end), o)
  /\ \A o, type, rewind, text, end : Spanned(Autolink(type, rewind, text, end), o)
  /\ \A o, end : Spanned([does |-> "skip", end |-> end], o)
  /\ \A o, end : ~(o < 2) => Spanned([does |-> "break", end |-> end], o)
<1>1. \A o : Spanned(NoSpan, o)
  BY DEF Spanned, NoSpan
<1>2. \A o, type, from, to, end : type \in Wraps => Spanned(Wrap(type, from, to, end), o)
  BY DEF Spanned, Wrap
<1>3. \A o, type, text, end : type \in Atoms => Spanned(Leaf(type, text, end), o)
  BY DEF Spanned, Leaf
<1>4. \A o, type, rewind, text, end : Spanned(Autolink(type, rewind, text, end), o)
  BY DEF Spanned, Autolink
<1>5. \A o, end : Spanned([does |-> "skip", end |-> end], o)
  BY DEF Spanned
<1>6. \A o, end : ~(o < 2) => Spanned([does |-> "break", end |-> end], o)
  BY DEF Spanned
<1> QED
  BY <1>1, <1>2, <1>3, <1>4, <1>5, <1>6

LEMMA Emph1Kind ==
  ASSUME NEW s, NEW i, NEW e, NEW c, NEW o
  PROVE  Spanned(Parse_emph1(s, i, e, c), o)
BY SpanKinds DEF Parse_emph1, Emph1_to, Wraps

LEMMA Emph2Kind ==
  ASSUME NEW s, NEW i, NEW e, NEW c, NEW o
  PROVE  Spanned(Parse_emph2(s, i, e, c), o)
<1>1. PICK type, p : /\ Parse_emph2(s, i, e, c) = IF p = -1 THEN NoSpan ELSE Wrap(type, i, p, p + 2)
                     /\ type \in Wraps
  <2> DEFINE type == CASE c = "~" -> "STRIKETHROUGH" [] c = "=" -> "HIGHLIGHT"
                       [] OTHER -> "DOUBLE_EMPHASIS"
             p == Emph2_end(s, i, e, c)
  <2>1. type \in Wraps
    BY DEF Wraps
  <2>2. Parse_emph2(s, i, e, c) = IF p = -1 THEN NoSpan ELSE Wrap(type, i, p, p + 2)
    BY DEF Parse_emph2
  <2> HIDE DEF type, p
  <2> QED
    BY <2>1, <2>2
<1> QED
  BY <1>1, SpanKinds

LEMMA Emph3Kind ==
  ASSUME NEW s, NEW i, NEW e, NEW c, NEW o
  PROVE  Spanned(Parse_emph3(s, i, e, c), o)
BY SpanKinds, Emph1Kind, Emph2Kind DEF Parse_emph3, Emph3_to, Wraps

LEMMA EmphasisKind ==
  ASSUME NEW s, NEW o, NEW i, NEW e
  PROVE  Spanned(Char_emphasis(s, o, i, e), o)
<1> DEFINE c == s[i]
           n == FirstNot(s, i, e, {c}) - i
<1>1. \/ Char_emphasis(s, o, i, e) = NoSpan
      \/ Char_emphasis(s, o, i, e) = Parse_emph1(s, i + 1, e, c)
      \/ Char_emphasis(s, o, i, e) = Parse_emph2(s, i + 2, e, c)
      \/ Char_emphasis(s, o, i, e) = Parse_emph3(s, i + 3, e, c)
  <2>1. Char_emphasis(s, o, i, e) = NoSpan \/
        Char_emphasis(s, o, i, e) = CASE n = 1 -> Parse_emph1(s, i + 1, e, c)
                                      [] n = 2 -> Parse_emph2(s, i + 2, e, c)
                                      [] OTHER -> Parse_emph3(s, i + 3, e, c)
    BY DEF Char_emphasis
  <2> HIDE DEF n, c
  <2> QED
    BY <2>1
<1> QED
  BY <1>1, SpanKinds, Emph1Kind, Emph2Kind, Emph3Kind

LEMMA CodespanKind ==
  ASSUME NEW s, NEW o, NEW i, NEW e
  PROVE  Spanned(Char_codespan(s, i, e), o)
<1>1. Char_codespan(s, i, e) = NoSpan \/
      \E text, m : Char_codespan(s, i, e) = Leaf("CODESPAN", text, m)
  BY Zenon DEF Char_codespan
<1> QED
  BY <1>1, SpanKinds DEF Atoms

LEMMA LinebreakKind ==
  ASSUME NEW s, NEW o, NEW i, NEW e
  PROVE  Spanned(Char_linebreak(s, o, i, e), o)
<1>1. Char_linebreak(s, o, i, e) = NoSpan \/
      (~(o < 2) /\ \E end : Char_linebreak(s, o, i, e) = [does |-> "break", end |-> end])
  BY Zenon DEF Char_linebreak
<1> QED
  BY <1>1, SpanKinds

LEMMA TagKind ==
  ASSUME NEW s, NEW o, NEW i, NEW e
  PROVE  Spanned(Char_langle_tag(s, i, e), o)
<1>1. \/ Char_langle_tag(s, i, e) = NoSpan
      \/ \E text, end : Char_langle_tag(s, i, e) = Leaf("RAW_HTML", text, end)
      \/ \E type, text, end : Char_langle_tag(s, i, e) = Autolink(type, -1, text, end)
  BY Zenon DEF Char_langle_tag, Tagged
<1> QED
  BY <1>1, SpanKinds DEF Atoms

LEMMA MathKind ==
  ASSUME NEW s, NEW o, NEW i, NEW e, NEW delim, NEW block
  PROVE  Spanned(Parse_math(s, i, e, delim, block), o)
<1>1. \/ Parse_math(s, i, e, delim, block) = NoSpan
      \/ \E text, end : \/ Parse_math(s, i, e, delim, block) = Leaf("NORMAL_TEXT", text, end)
                       \/ Parse_math(s, i, e, delim, block) = Leaf("MATH_BLOCK", text, end)
                       \/ Parse_math(s, i, e, delim, block) = Leaf("MATH_SPAN", text, end)
  BY Zenon DEF Parse_math
<1> QED
  BY <1>1, SpanKinds DEF Atoms

LEMMA EscapeKind ==
  ASSUME NEW s, NEW o, NEW i, NEW e
  PROVE  Spanned(Char_escape(s, i, e), o)
<1>1. \/ Char_escape(s, i, e) = NoSpan
      \/ \E delim, block : Char_escape(s, i, e) = Parse_math(s, i, e, delim, block)
      \/ \E text, end : \/ Char_escape(s, i, e) = Leaf("ESCAPED_TEXT", text, end)
                       \/ Char_escape(s, i, e) = Leaf("LINEBREAK", text, end)
  BY Zenon DEF Char_escape
<1> QED
  BY <1>1, SpanKinds, MathKind DEF Atoms

LEMMA EntityKind ==
  ASSUME NEW s, NEW o, NEW i, NEW e
  PROVE  Spanned(Char_entity(s, i, e), o)
<1>1. Char_entity(s, i, e) = NoSpan \/
      \E text, end : Char_entity(s, i, e) = Leaf("ENTITY", text, end)
  BY Zenon DEF Char_entity
<1> QED
  BY <1>1, SpanKinds DEF Atoms

LEMMA DollarKind ==
  ASSUME NEW s, NEW o, NEW i, NEW e
  PROVE  Spanned(Char_math(s, i, e), o)
BY MathKind DEF Char_math

LEMMA ScriptKind ==
  ASSUME NEW s, NEW o, NEW i, NEW e
  PROVE  Spanned(Char_supsubscript(s, i, e), o)
<1> DEFINE type == IF s[i] = "^" THEN "SUPERSCRIPT" ELSE "SUBSCRIPT"
<1>1. type \in Wraps
  BY DEF Wraps
<1>2. \/ Char_supsubscript(s, i, e) = NoSpan
      \/ \E end : Char_supsubscript(s, i, e) = [does |-> "skip", end |-> end]
      \/ \E from, to, end : Char_supsubscript(s, i, e) = Wrap(type, from, to, end)
  BY Zenon DEF Char_supsubscript
<1> HIDE DEF type
<1> QED
  BY <1>1, <1>2, SpanKinds

LEMMA AutolinkKind ==
  ASSUME NEW s, NEW o, NEW i, NEW e
  PROVE  /\ Spanned(Char_autolink_www(s, o, i, e), o)
         /\ Spanned(Char_autolink_email(s, o, i, e), o)
         /\ Spanned(Char_autolink_url(s, o, i, e), o)
<1>1. Char_autolink_www(s, o, i, e) = NoSpan \/
      \E type, rewind, text, end : Char_autolink_www(s, o, i, e) = Autolink(type, rewind, text, end)
  BY Zenon DEF Char_autolink_www
<1>2. Char_autolink_email(s, o, i, e) = NoSpan \/
      \E type, rewind, text, end : Char_autolink_email(s, o, i, e) = Autolink(type, rewind, text, end)
  BY Zenon DEF Char_autolink_email
<1>3. Char_autolink_url(s, o, i, e) = NoSpan \/
      \E type, rewind, text, end : Char_autolink_url(s, o, i, e) = Autolink(type, rewind, text, end)
  BY Zenon DEF Char_autolink_url
<1> QED
  BY <1>1, <1>2, <1>3, SpanKinds

LEMMA SpanKind ==
  ASSUME NEW s, NEW o, NEW i, NEW e, s[i] \in Active \ Brackets
  PROVE  Spanned(Span(s, o, i, e, in_link_body), o)
<1> DEFINE span == Span(s, o, i, e, in_link_body)
<1>1. s[i] \in {"*", "_", "=", "tick", "\n", "<", "\\", "&", "$", "^", "~", ":", "@", "www"}
  BY DEF Active, Brackets
<1>2. CASE s[i] \in {"*", "_", "="}
  <2>1. span = Char_emphasis(s, o, i, e)
    BY <1>2 DEF Span
  <2> QED
    BY <2>1, EmphasisKind
<1>3. CASE s[i] = "tick"
  <2>1. span = Char_codespan(s, i, e)
    BY <1>3 DEF Span
  <2> QED
    BY <2>1, CodespanKind
<1>4. CASE s[i] = "\n"
  <2>1. span = Char_linebreak(s, o, i, e)
    BY <1>4 DEF Span
  <2> QED
    BY <2>1, LinebreakKind
<1>5. CASE s[i] = "<"
  <2>1. span = Char_langle_tag(s, i, e)
    BY <1>5 DEF Span
  <2> QED
    BY <2>1, TagKind
<1>6. CASE s[i] = "\\"
  <2>1. span = Char_escape(s, i, e)
    BY <1>6 DEF Span
  <2> QED
    BY <2>1, EscapeKind
<1>7. CASE s[i] = "&"
  <2>1. span = Char_entity(s, i, e)
    BY <1>7 DEF Span
  <2> QED
    BY <2>1, EntityKind
<1>8. CASE s[i] = "$"
  <2>1. span = Char_math(s, i, e)
    BY <1>8 DEF Span
  <2> QED
    BY <2>1, DollarKind
<1>9. CASE s[i] = "^"
  <2>1. span = Char_supsubscript(s, i, e)
    BY <1>9 DEF Span
  <2> QED
    BY <2>1, ScriptKind
<1>10. CASE s[i] = "~"
  <2>1. \/ span = Char_subscript(s, o, i, e)
        \/ span = Char_emphasis(s, o, i, e)
    BY <1>10 DEF Span
  <2> QED
    BY <2>1, ScriptKind, EmphasisKind DEF Char_subscript
<1>11. CASE s[i] \in {":", "@", "www"}
  <2>1. \/ span = NoSpan
        \/ span = Char_autolink_url(s, o, i, e)
        \/ span = Char_autolink_email(s, o, i, e)
        \/ span = Char_autolink_www(s, o, i, e)
    BY <1>11 DEF Span
  <2> QED
    BY <2>1, AutolinkKind, SpanKinds
<1> QED
  BY <1>1, <1>2, <1>3, <1>4, <1>5, <1>6, <1>7, <1>8, <1>9, <1>10, <1>11

\* What a bracket may be the beginning of, where links and footnotes are as they are.
Linking(x) ==
  \/ x.does \in {"nothing", "skip", "text", "fail", "IMAGE"}
  \/ x.does = "footnote" /\ ~in_footnote /\ x.with \notin used
  \/ x.does = "LINK" /\ ~in_link_body

LEMMA NoLinkKind ==
  /\ Linking(No_link)
  /\ \A img : Linking([No_link EXCEPT !.bang = img])
  /\ Linking([No_link EXCEPT !.does = "fail"])
BY DEF Linking, No_link

LEMMA RefKind ==
  ASSUME NEW type, NEW name, NEW end, NEW body, type = "IMAGE" \/ (type = "LINK" /\ ~in_link_body)
  PROVE  Linking(Of_ref(type, name, end, body))
<1>1. \/ Of_ref(type, name, end, body) = No_link
      \/ \E link, title, attrs :
           Of_ref(type, name, end, body) =
             [does |-> type, bang |-> FALSE, link |-> link, title |-> title,
              dims |-> <<>>, attrs |-> attrs, body |-> body, end |-> end]
  BY Zenon DEF Of_ref
<1> QED
  BY <1>1, NoLinkKind DEF Linking

LEMMA TargetWithKind ==
  ASSUME NEW type, NEW t, NEW attrs, NEW end, NEW body,
         type = "IMAGE" \/ (type = "LINK" /\ ~in_link_body)
  PROVE  Linking(Target_with(type, t, attrs, end, body))
BY DEF Linking, Target_with

LEMMA TargetKind ==
  ASSUME NEW type, NEW s, NEW i, NEW e, NEW body,
         type = "IMAGE" \/ (type = "LINK" /\ ~in_link_body)
  PROVE  Linking(Of_target(type, s, i, e, body))
<1>1. \/ Of_target(type, s, i, e, body) = No_link
      \/ Of_target(type, s, i, e, body) = [No_link EXCEPT !.does = "fail"]
      \/ \E t, attrs, end : Of_target(type, s, i, e, body) = Target_with(type, t, attrs, end, body)
  BY Zenon DEF Of_target, Target_to, Target_attrs
<1> QED
  BY <1>1, NoLinkKind, TargetWithKind

LEMMA MarkKind ==
  ASSUME NEW s, NEW i, NEW p, NEW img
  PROVE  Linking(Of_mark(s, i, p, img))
<1>1. ASSUME NEW note
      PROVE  /\ Of_footnote(s, i, p, note).does \in {"footnote", "text"}
             /\ Of_footnote(s, i, p, note).does = "footnote" =>
                  ~in_footnote /\ Of_footnote(s, i, p, note).with \notin used
  BY DEF Of_footnote, Mark
<1>2. ASSUME NEW entry PROVE Of_metadata(entry).does \in {"text", "skip"}
  BY DEF Of_metadata, Mark
<1>3. \/ Of_mark(s, i, p, img) = [No_link EXCEPT !.bang = img]
      \/ \E mark, end :
           /\ Of_mark(s, i, p, img) = [does |-> mark.does, with |-> mark.with, bang |-> img, end |-> end]
           /\ (\E note : mark = Of_footnote(s, i, p, note)) \/ (\E entry : mark = Of_metadata(entry))
  BY Zenon DEF Of_mark
<1>4. ASSUME NEW mark, NEW end,
             (\E note : mark = Of_footnote(s, i, p, note)) \/ (\E entry : mark = Of_metadata(entry))
      PROVE  Linking([does |-> mark.does, with |-> mark.with, bang |-> img, end |-> end])
  BY <1>1, <1>2, <1>4 DEF Linking
<1> QED
  BY <1>3, <1>4, NoLinkKind

LEMMA LinkKind ==
  ASSUME NEW s, NEW o, NEW i, NEW e
  PROVE  Linking(Char_link(s, o, i, e))
<1>1. PICK p, img : Char_link(s, o, i, e) = Link_to(s, i, p, e, img)
  BY DEF Char_link
<1> DEFINE type == IF img THEN "IMAGE" ELSE "LINK"
           k == FirstNot(s, p + 1, e, Spaces)
<1>2. CASE ~img /\ in_link_body
  BY <1>1, <1>2, NoLinkKind DEF Link_to
<1>3. CASE img \/ ~in_link_body
  <2>1. type = "IMAGE" \/ (type = "LINK" /\ ~in_link_body)
    BY <1>3
  <2>2. \/ Link_to(s, i, p, e, img) = No_link
        \/ Link_to(s, i, p, e, img) = Of_mark(s, i, p, img)
        \/ Link_to(s, i, p, e, img) = Link_after(type, s, i, p, k, e)
    BY DEF Link_to
  <2> HIDE DEF type, k
  <2>3. \/ Link_after(type, s, i, p, k, e) = No_link
        \/ \E body : Link_after(type, s, i, p, k, e) = Of_target(type, s, k, e, body)
        \/ \E name, end, body : Link_after(type, s, i, p, k, e) = Of_ref(type, name, end, body)
    BY Zenon DEF Link_after, Of_name
  <2> QED
    BY <1>1, <2>1, <2>2, <2>3, NoLinkKind, MarkKind, TargetKind, RefKind
<1> QED
  BY <1>2, <1>3

LEMMA LinkHereKind == Linking(Link_here)
BY LinkKind, NoLinkKind DEF Link_here

-------------------------------------------------------------------------------
(***************************************************************************)
(* parse_inline().                                                         *)
(***************************************************************************)
LEMMA InlineHere ==
  ASSUME PInv, Now("parse_inline")
  PROVE  /\ Here /\ Item.do = "parse_inline"
         /\ Follows(<<Passed>>, Text_last)
         /\ \A end : Plainly(<<From_end(end)>>)
         /\ \A end, text : Follows(<<From_end(end)>>, text)
<1>1. Here /\ Item.do = "parse_inline"
  BY NowHere DEF Closing
<1> QED
  BY <1>1, Passed_follows, From_end_follows, Plainly_follows

LEMMA InlineTextGood == PInv /\ Inline_text => Good
<1> SUFFICES ASSUME PInv, Inline_text PROVE Good
  OBVIOUS
<1> DEFINE k == Active_at
           x == [Item EXCEPT !.i = k, !.end = k, !.offset = @ + k - Item.i]
<1>1. Here /\ Item.do = "parse_inline"
  BY InlineHere DEF Inline_text
<1>2. Say({}, SubSeq(Item.s, Item.i, k - 1), <<x>>)
  BY DEF Inline_text
<1>3. {"do", "offset"} \subseteq DOMAIN Item
  BY <1>1, InlineIs
<1>4. x.do = "parse_inline" /\ {"do", "offset"} \subseteq DOMAIN x
  BY <1>1, <1>3
<1> HIDE DEF x, k
<1>5. Follows(<<x>>, TRUE)
  BY <1>4, First_follows DEF First_do, Formed, Closing
<1> QED
  BY <1>1, <1>2, <1>5, SayGood

LEMMA InlineEndGood == PInv /\ Inline_end => Good
BY InlineHere, SkipGood, Nothing_follows, Plainly_follows DEF Inline_end

\* The work when the last thing to do for a link's body or a footnote is done.
LEMMA ClosingIs ==
  ASSUME PInv, NEW name \in Closing, Now(name)
  PROVE  /\ IF name = "link_end"
            THEN Ordered(Instead(<<>>), held, lab, FALSE, in_footnote, Text_last)
            ELSE Ordered(Instead(<<>>), held, lab, in_link_body, FALSE, Text_last)
         /\ name = "foot_end" => in_footnote
         /\ phase = "parsing"
<1>1. /\ phase = "parsing" /\ work # <<>> /\ work[Len(work)] # <<>>
      /\ work[Len(work)][1].do = name
  BY ItemIs
<1>2. Ordered(work, held, lab, in_link_body, in_footnote, Text_last)
  BY HereIs DEF Closing, Working
<1>3. IF name = "link_end" THEN Ordered(Replaced(work, <<>>), held, lab, FALSE, in_footnote, Text_last)
                           ELSE Ordered(Replaced(work, <<>>), held, lab, in_link_body, FALSE, Text_last)
  BY <1>1, <1>2, OrderedClosed
<1>4. ASSUME name = "foot_end" PROVE in_footnote
  <2> DEFINE n == Len(work)
  <2>1. PICK S : work \in Seq(Seq(S))
    BY <1>2 DEF Ordered
  <2>2. n \in 1 .. n /\ work[n] \in Seq(S)
    BY <1>1, <2>1, EmptySeq, LenProperties, ElementOfSeq
  <2>3. 1 \in 1 .. Len(work[n])
    BY <1>1, <2>2, EmptySeq, LenProperties
  <2>4. Doing(work, n, 1, Text_last)
    BY <1>2, <2>2, <2>3 DEF Ordered
  <2>5. Closes(work[n], "foot_end")
    BY <1>1, <1>4, <2>4 DEF Doing, Closes
  <2> QED
    BY <1>2, <2>2, <2>5 DEF Ordered
<1> QED
  BY <1>1, <1>3, <1>4 DEF Instead, Replaced

LEMMA FootEndGood == PInv /\ Foot_end => Good
<1> SUFFICES ASSUME PInv, Foot_end PROVE Good
  OBVIOUS
<1>1. /\ Ordered(Instead(<<>>), held, lab, in_link_body, FALSE, Text_last)
      /\ in_footnote /\ phase = "parsing"
  BY ClosingIs DEF Foot_end, Closing
<1>2. /\ in_footnote' = FALSE /\ work' = Instead(<<>>)
      /\ UNCHANGED tvars /\ in_link_body' = in_link_body /\ UNCHANGED <<used, foots>>
  BY <1>1 DEF Foot_end, Asserting, Go, queues
<1>3. Text_last' = Text_last /\ Labelled' /\ Inside_is'
  BY <1>2 DEF Text_last, Last_child, tvars, PInv, Labelled, Inside_is
<1>4. Ordered(work', held', lab', in_link_body', in_footnote', Text_last')
  BY <1>1, <1>2, <1>3 DEF tvars
<1>5. Bodywise
  BY <1>1, <1>2, SteadySame DEF tvars
<1> QED
  BY <1>1, <1>2, <1>3, <1>4, <1>5 DEF Good, tvars

LEMMA BodyEndGood == PInv /\ Link_body_end => Good
<1> SUFFICES ASSUME PInv, Link_body_end PROVE Good
  OBVIOUS
<1>1. /\ Ordered(Instead(<<>>), held, lab, FALSE, in_footnote, Text_last)
      /\ phase = "parsing"
  BY ClosingIs DEF Link_body_end, Closing
<1>2. /\ in_link_body' = FALSE /\ work' = Instead(<<>>)
      /\ UNCHANGED tvars /\ in_footnote' = in_footnote /\ UNCHANGED <<used, foots>>
  BY <1>1 DEF Link_body_end, Go, queues
<1>3. Text_last' = Text_last /\ Labelled' /\ Inside_is'
  BY <1>2 DEF Text_last, Last_child, tvars, PInv, Labelled, Inside_is
<1>4. Ordered(work', held', lab', in_link_body', in_footnote', Text_last')
  BY <1>1, <1>2, <1>3 DEF tvars
<1>5. Bodywise
  BY <1>1, <1>2, SteadySame DEF tvars
<1> QED
  BY <1>1, <1>2, <1>3, <1>4, <1>5 DEF Good, tvars

LEMMA InlinesGood == PInv /\ Inline_next => Good
BY InlineTextGood, InlineEndGood, FootEndGood, BodyEndGood DEF Inline_next

LEMMA ShortenedLabels == ASSUME PInv, NEW cut PROVE Labels(Shortened(cut))
<1> DEFINE n == Last_child(current)
           t == SubSeq(lab[n].text, 1, Max({0, Len(lab[n].text) - cut}))
           l == [lab[n] EXCEPT !.text = t]
<1>1. Shortened(cut) = lab \/ Shortened(cut) = [lab EXCEPT ![n] = l]
  BY DEF Shortened
<1>2. n \in DOMAIN lab => l.type = lab[n].type /\ l.num = lab[n].num /\ Fields \subseteq DOMAIN l
  BY FieldExcept DEF PInv, Labelled
<1> HIDE DEF l, n, t
<1>3. Labels(lab)
  BY LabelsAsTheyAre
<1>4. Labels([lab EXCEPT ![n] = l])
  BY <1>2, <1>3, LabelsExcept
<1> QED
  BY <1>1, <1>3, <1>4

LEMMA SpansGood == PInv /\ Span_next => Good
<1> SUFFICES ASSUME PInv, NEW span \in Spans,
                    \/ Span_nothing(span) \/ Span_skip(span) \/ Span_wrap(span) \/ Span_leaf(span)
                    \/ Char_linebreak_does(span) \/ Char_autolink(span)
             PROVE  Good
  BY DEF Span_next
<1>1. /\ Active_is(Active \ Brackets)
      /\ span = Span(Item.s, Item.offset, Item.i, Item.e, in_link_body)
  BY DEF Spans
<1>2. Now("parse_inline") /\ Item.s[Item.i] \in Active \ Brackets
  BY <1>1 DEF Active_is
<1>3. Spanned(span, Item.offset)
  BY <1>1, <1>2, SpanKind
<1>4. /\ Here /\ Item.do = "parse_inline"
      /\ Follows(<<Passed>>, Text_last)
      /\ Plainly(<<From_end(span.end)>>)
      /\ \A text : Follows(<<From_end(span.end)>>, text)
  BY <1>2, InlineHere
<1>5. CASE Span_nothing(span)
  BY <1>4, <1>5, SkipGood DEF Span_nothing
<1>6. CASE Span_skip(span)
  BY <1>4, <1>6, SkipGood DEF Span_skip
<1>7. CASE Span_wrap(span)
  <2>1. span.type \in Wraps
    BY <1>3, <1>7 DEF Span_wrap, Spanned
  <2>2. /\ Node(span.type).type \notin Leaves \cup {"DEFINITION_TITLE", "ROOT", "DOC_HEADER", "LINK", "FOOTNOTE"}
        /\ Fields \subseteq DOMAIN Node(span.type)
    BY <2>1, NodeIs DEF Wraps, Leaves
  <2>3. Plainly(<<Inline(Item.s, span.from, span.to)>>)
    BY PlainOnes, One_follows
  <2>4. Open_in(lab, Node(span.type), <<Inline(Item.s, span.from, span.to)>>, <<From_end(span.end)>>)
    BY <1>7 DEF Span_wrap, Open
  <2> QED
    BY <1>4, <2>2, <2>3, <2>4, OpenGood, LabelsAsTheyAre
<1>8. CASE Span_leaf(span)
  <2>1. span.type \in Atoms
    BY <1>3, <1>8 DEF Span_leaf, Spanned
  <2> DEFINE l == Label(span.type, span.text, {}, 0, <<>>)
  <2>2. l.type = span.type /\ Fields \subseteq DOMAIN l
    BY LabelIs
  <2>3. \/ Say({}, span.text, <<From_end(span.end)>>)
        \/ Say({"ESCAPED"}, span.text, <<From_end(span.end)>>)
        \/ Leaf_in(lab, l, <<From_end(span.end)>>)
    BY <1>8 DEF Span_leaf, Put
  <2> HIDE DEF l
  <2>4. l.type \notin {"META", "DEFINITION_TITLE", "ROOT", "DOC_HEADER"} \cup Bodies
    BY <2>1, <2>2 DEF Atoms, Bodies
  <2>5. Follows(<<From_end(span.end)>>, TRUE) /\ Follows(<<From_end(span.end)>>, l.type = "NORMAL_TEXT")
    BY <1>4
  <2> QED
    BY <1>4, <2>2, <2>3, <2>4, <2>5, SayGood, LeafGood, LabelsAsTheyAre
<1>9. CASE Char_linebreak_does(span)
  <2>1. ~(Item.offset < 2)
    BY <1>3, <1>9 DEF Char_linebreak_does, Spanned
  <2>2. Text_last
    <3>1. Item.offset # 0
      BY <2>1
    <3> QED
      BY <1>4, <3>1, InlineIs
  <2>3. PICK cut : Leaf_in(Shortened(cut), Node("LINEBREAK"), <<From_end(span.end)>>)
    BY <1>9, <2>2, Zenon DEF Char_linebreak_does, Asserting, Text_last
  <2>4. Labels(Shortened(cut))
    BY ShortenedLabels
  <2>5. Follows(<<From_end(span.end)>>, Node("LINEBREAK").type = "NORMAL_TEXT")
    BY <1>4
  <2> QED
    BY <1>4, <2>3, <2>4, <2>5, NodeIs, LeafGood DEF Bodies
<1>10. CASE Char_autolink(span)
  <2> DEFINE l == Label("LINK_AUTO", span.text, {span.type}, 0, <<>>)
             labels == IF span.rewind = -1 THEN lab ELSE Shortened(span.rewind)
  <2>1. l.type = "LINK_AUTO" /\ Fields \subseteq DOMAIN l
    BY LabelIs
  <2>2. Labels(labels)
    BY ShortenedLabels, LabelsAsTheyAre
  <2>3. Leaf_in(labels, l, <<From_end(span.end)>>)
    BY <1>10 DEF Char_autolink
  <2> HIDE DEF l, labels
  <2>4. Follows(<<From_end(span.end)>>, l.type = "NORMAL_TEXT")
    BY <1>4
  <2> QED
    BY <1>4, <2>1, <2>2, <2>3, <2>4, LeafGood DEF Bodies
<1> QED
  BY <1>5, <1>6, <1>7, <1>8, <1>9, <1>10

LEMMA FootnoteGood == ASSUME PInv, NEW link \in Links, Link_footnote(link) PROVE Good
<1>1. /\ Now("parse_inline") /\ Linking(link)
  BY LinkHereKind DEF Links, Active_is
<1>2. Here /\ Plainly(<<From_end(link.end)>>)
  BY <1>1, InlineHere
<1>3. ~in_footnote /\ link.with \notin used
  BY <1>1 DEF Link_footnote, Link_does, Linking
<1>4. CASE TooDeep(depth)
  BY <1>4, FailsGood DEF Link_footnote
<1>5. CASE ~TooDeep(depth)
  <2> DEFINE l == Label("FOOTNOTE", <<>>, {}, foots + 1, <<>>)
             x == Blocks(footq[link.with].contents)
             y == Do("foot_end")
             inner == <<x, y>>
  <2>1. /\ Opens(lab, l, inner, <<From_end(link.end)>>)
        /\ in_footnote' = TRUE /\ in_link_body' = in_link_body
        /\ foots' = foots + 1 /\ used' = used \cup {link.with}
    BY <1>3, <1>5 DEF Link_footnote, Asserting
  <2>2. l.type = "FOOTNOTE" /\ Fields \subseteq DOMAIN l /\ l.num = foots + 1
    BY LabelIs DEF Label
  <2>3. Plain_do(x) /\ y.do = "foot_end"
    BY PlainOnes DEF Do
  <2> HIDE DEF l, x, y
  <2>4. inner \in Seq({x, y}) /\ Len(inner) = 2 /\ inner[1] = x /\ inner[2] = y /\ inner # <<>>
    OBVIOUS
  <2> HIDE DEF inner
  <2>5. \A j \in 1 .. Len(inner) :
          Plain_do(inner[j]) \/ (j = Len(inner) /\ inner[j].do \in Closing)
    BY <2>3, <2>4 DEF Closing
  <2>6. Closes(inner, "foot_end") /\ ~Closes(inner, "link_end")
    BY <2>3, <2>4 DEF Closes
  <2>7. /\ in_link_body' = (in_link_body \/ Closes(inner, "link_end"))
        /\ in_footnote' = (in_footnote \/ Closes(inner, "foot_end"))
    BY <2>1, <2>6 DEF PInv, Inside_is
  <2>8. l.type \notin Leaves \cup {"DEFINITION_TITLE", "ROOT", "DOC_HEADER"}
    BY <2>2 DEF Leaves
  <2>9. /\ Closes(inner, "link_end") <=> l.type = "LINK" /\ inner # <<>>
        /\ Closes(inner, "foot_end") <=> l.type = "FOOTNOTE" /\ inner # <<>>
    BY <2>2, <2>4, <2>6
  <2>10. Labels(lab) /\ Enters(l)
    BY <1>3, <2>1, <2>2, LabelsAsTheyAre DEF Enters
  <2> QED
    BY <1>2, <1>3, <2>1, <2>2, <2>4, <2>5, <2>6, <2>7, <2>8, <2>9, <2>10, OpensGood
<1> QED
  BY <1>4, <1>5

LEMMA BodyGood == ASSUME PInv, NEW link \in Links, Link_link(link) PROVE Good
<1>1. /\ Now("parse_inline") /\ Linking(link)
  BY LinkHereKind DEF Links, Active_is
<1>2. Here /\ Plainly(<<From_end(link.end)>>)
  BY <1>1, InlineHere
<1>3. ~in_link_body
  BY <1>1 DEF Link_link, Link_does, Linking
<1>4. CASE TooDeep(depth)
  BY <1>4, FailsGood DEF Link_link
<1>5. CASE ~TooDeep(depth)
  <2> DEFINE l == Link_label(link, <<>>)
             empty == link.body.from = link.body.to
             x == Inline(Item.s, link.body.from, link.body.to)
             y == Do("link_end")
             both == <<x, y>>
             inner == IF empty THEN <<>> ELSE both
  <2>1. /\ Opens(lab, l, inner, <<From_end(link.end)>>)
        /\ in_link_body' = (in_link_body \/ ~empty) /\ in_footnote' = in_footnote
        /\ UNCHANGED <<used, foots>>
    BY <1>5 DEF Link_link, queues
  <2>2. l.type = "LINK" /\ Fields \subseteq DOMAIN l
    BY LabelIs DEF Link_label, Link_link, Link_does
  <2>3. Plain_do(x) /\ y.do = "link_end"
    BY PlainOnes DEF Do
  <2> HIDE DEF l, x, y
  <2>4. both \in Seq({x, y}) /\ Len(both) = 2 /\ both[1] = x /\ both[2] = y /\ both # <<>>
    OBVIOUS
  <2> HIDE DEF both
  <2>5. \A j \in 1 .. Len(both) :
          Plain_do(both[j]) \/ (j = Len(both) /\ both[j].do \in Closing)
    BY <2>3, <2>4 DEF Closing
  <2>6. <<>> \in Seq({x, y}) /\ Len(<<>>) = 0
    BY EmptySeq
  <2>7. /\ inner \in Seq({x, y})
        /\ \A j \in 1 .. Len(inner) :
             Plain_do(inner[j]) \/ (j = Len(inner) /\ inner[j].do \in Closing)
        /\ inner # <<>> <=> ~empty
        /\ Closes(inner, "link_end") <=> ~empty
        /\ ~Closes(inner, "foot_end")
    <3>1. CASE empty
      BY <2>6, <3>1 DEF Closes
    <3>2. CASE ~empty
      BY <2>3, <2>4, <2>5, <3>2 DEF Closes
    <3> QED
      BY <3>1, <3>2
  <2> HIDE DEF inner, empty
  <2>8. /\ in_link_body' = (in_link_body \/ Closes(inner, "link_end"))
        /\ in_footnote' = (in_footnote \/ Closes(inner, "foot_end"))
    BY <2>1, <2>7 DEF PInv, Inside_is
  <2>9. l.type \notin Leaves \cup {"DEFINITION_TITLE", "ROOT", "DOC_HEADER"}
    BY <2>2 DEF Leaves
  <2>10. /\ Closes(inner, "link_end") <=> l.type = "LINK" /\ inner # <<>>
         /\ Closes(inner, "foot_end") <=> l.type = "FOOTNOTE" /\ inner # <<>>
    BY <2>2, <2>7
  <2>11. Labels(lab) /\ Enters(l)
    BY <1>3, <2>1, <2>2, LabelsAsTheyAre DEF Enters
  <2> QED
    BY <1>2, <1>3, <2>1, <2>2, <2>7, <2>8, <2>9, <2>10, <2>11, OpensGood
<1> QED
  BY <1>4, <1>5

LEMMA LinksGood == PInv /\ Link_next => Good
<1> SUFFICES ASSUME PInv, NEW link \in Links,
                    \/ Char_image_mark(link) \/ Link_nothing(link) \/ Link_skip(link)
                    \/ Link_text(link) \/ Link_fail(link) \/ Link_footnote(link)
                    \/ Link_image(link) \/ Link_link(link)
             PROVE  Good
  BY DEF Link_next
<1>1. Now("parse_inline")
  BY DEF Links, Active_is
<1>2. /\ Here /\ Item.do = "parse_inline"
      /\ Follows(<<Passed>>, Text_last)
      /\ Plainly(<<From_end(link.end)>>)
      /\ \A text : Follows(<<From_end(link.end)>>, text)
  BY <1>1, InlineHere
<1>3. CASE Char_image_mark(link)
  <2> DEFINE x == [Item EXCEPT !.bang = TRUE]
  <2>1. {"do", "offset"} \subseteq DOMAIN Item
    BY <1>2, InlineIs
  <2>2. x.do = "parse_inline" /\ {"do", "offset"} \subseteq DOMAIN x
    BY <1>2, <2>1
  <2>3. Say({}, <<"!">>, <<x>>)
    BY <1>3 DEF Char_image_mark
  <2> HIDE DEF x
  <2>4. Follows(<<x>>, TRUE)
    BY <2>2, First_follows DEF First_do, Formed, Closing
  <2> QED
    BY <1>2, <2>3, <2>4, SayGood
<1>4. CASE Link_nothing(link)
  BY <1>2, <1>4, SkipGood DEF Link_nothing
<1>5. CASE Link_skip(link)
  BY <1>2, <1>5, SkipGood DEF Link_skip
<1>6. CASE Link_text(link)
  BY <1>2, <1>6, SayGood DEF Link_text
<1>7. CASE Link_fail(link)
  BY <1>7, FailsGood DEF Link_fail
<1>8. CASE Link_footnote(link)
  BY <1>8, FootnoteGood
<1>9. CASE Link_image(link)
  <2> DEFINE l == Link_label(link, SubSeq(Item.s, link.body.from, link.body.to - 1))
  <2>1. l.type = "IMAGE" /\ Fields \subseteq DOMAIN l
    BY <1>9, LabelIs DEF Link_label, Link_image, Link_does
  <2>2. Leaf_in(lab, l, <<From_end(link.end)>>)
    BY <1>9 DEF Link_image, Put
  <2> HIDE DEF l
  <2>3. Follows(<<From_end(link.end)>>, l.type = "NORMAL_TEXT")
    BY <1>2
  <2> QED
    BY <1>2, <2>1, <2>2, <2>3, LeafGood, LabelsAsTheyAre DEF Bodies
<1>10. CASE Link_link(link)
  BY <1>10, BodyGood
<1> QED
  BY <1>3, <1>4, <1>5, <1>6, <1>7, <1>8, <1>9, <1>10

-------------------------------------------------------------------------------
(***************************************************************************)
(* A node is popped, and it is the one that was pushed.                    *)
(***************************************************************************)
LEMMA PopIs ==
  ASSUME PInv, Pop
  PROVE  /\ TNext /\ phase = "parsing" /\ phase' \in {"parsing", "done"}
         /\ lab[current].type # "ROOT" => phase' = "parsing"
         /\ held' = SubSeq(held, 1, Len(held) - 1) /\ lab' = lab
         /\ work # <<>> /\ work[Len(work)] = <<>>
         /\ work' = SubSeq(work, 1, Len(work) - 1)
         /\ UNCHANGED marks
<1>1. /\ phase = "parsing" /\ work # <<>> /\ work[Len(work)] = <<>>
      /\ Popnode(held[Len(held)]) /\ UNCHANGED marks
      /\ work' = SubSeq(work, 1, Len(work) - 1)
  BY DEF Pop, Last, Front, inside, marks, queues
<1>2. /\ held # <<>> /\ held[1] = Root /\ current = held[Len(held)] /\ depth = Len(held)
      /\ \A j, k \in DOMAIN held : held[j] = held[k] => j = k
      /\ Len(held) \in Nat \ {0} /\ DOMAIN held = 1 .. Len(held)
      /\ current \in DOMAIN lab /\ lab[Root].type = "ROOT"
  BY <1>1, Facts, HeldNodes DEF PInv, IInv, StackIsPath, HeldOnce, TreeWhole, Whole
<1>3. TNext
  BY <1>1, <1>2 DEF TNext
<1>4. current = Root => depth = 1
  <2>1. 1 \in DOMAIN held /\ Len(held) \in DOMAIN held
    BY <1>2
  <2> QED
    BY <1>2, <2>1
<1>5. /\ held' = SubSeq(held, 1, Len(held) - 1) /\ lab' = lab
      /\ phase' = IF current # Root THEN "parsing" ELSE "done"
  BY <1>1, <1>2, <1>4 DEF Popnode
<1> QED
  BY <1>1, <1>2, <1>3, <1>5

LEMMA PopGood == PInv /\ Pop => Good
<1> SUFFICES ASSUME PInv, Pop PROVE Good
  OBVIOUS
<1>1. /\ TNext /\ phase = "parsing" /\ phase' \in {"parsing", "done"}
      /\ lab[current].type # "ROOT" => phase' = "parsing"
      /\ held' = SubSeq(held, 1, Len(held) - 1) /\ lab' = lab
      /\ work # <<>> /\ work[Len(work)] = <<>>
      /\ work' = SubSeq(work, 1, Len(work) - 1)
      /\ UNCHANGED marks
  BY PopIs
<1>2. /\ IInv /\ held \in Seq(DOMAIN lab) /\ held # <<>> /\ held[1] = Root
      /\ Root \in DOMAIN lab /\ lab[Root].type = "ROOT"
  BY <1>1, HeldNodes DEF PInv, IInv, StackIsPath, TreeWhole, Whole, TTypeOK
<1>3. Labelled' /\ Inside_is'
  BY <1>1 DEF PInv, Labelled, Inside_is, inside, marks, queues
<1>7. Bodywise
  BY <1>1, SteadySame DEF marks
<1> DEFINE text == Text_last'
<1>4. CASE Working
  <2>1. Ordered(SubSeq(work, 1, Len(work) - 1), SubSeq(held, 1, Len(held) - 1), lab,
                in_link_body, in_footnote, text)
    BY <1>1, <1>2, <1>4, OrderedFronted DEF Working
  <2>2. Ordered(work', held', lab', in_link_body', in_footnote', Text_last')
    BY <1>1, <2>1 DEF inside, marks, queues
  <2> QED
    BY <1>1, <1>3, <1>7, <2>2 DEF Good
<1>5. CASE Adding
  <2>1. PICK g : g.do = "gather" /\ work = <<<<g>>, <<>>>>
    <3>1. ASSUME NEW g, NEW x, work = <<<<g>>, <<x>>>> PROVE FALSE
      BY <1>1, <3>1
    <3> QED
      BY <1>5, <3>1 DEF Adding
  <2> DEFINE s == <<g>>
             e == <<>>
             v == <<s, e>>
             w == SubSeq(work, 1, Len(work) - 1)
             h == SubSeq(held, 1, Len(held) - 1)
  <2>2. /\ s \in Seq({g}) /\ Len(s) = 1 /\ s[1] = g /\ s # <<>>
        /\ e \in Seq({g}) /\ work = v
    BY <2>1, EmptySeq
  <2> HIDE DEF s, e
  <2>3. /\ v \in Seq(Seq({g})) /\ Len(v) = 2 /\ v[1] = s /\ v # <<>>
    BY <2>2
  <2> HIDE DEF v
  <2>4. w \in Seq(Seq({g})) /\ Len(w) = 1 /\ w[1] = s
    BY <2>2, <2>3, Fronted
  <2>5. Len(h) = 1 /\ h[1] = Root
    <3>1. Len(held) = 2
      BY <1>5 DEF Adding
    <3> QED
      BY <1>2, <3>1, Fronted
  <2>6. ~in_link_body
    BY <1>5 DEF Adding
  <2> HIDE DEF w, h
  <2>7. \A i \in 1 .. Len(w) : \A j \in 1 .. Len(w[i]) : Doing(w, i, j, text)
    BY <2>1, <2>2, <2>4 DEF Doing, Formed, Closing
  <2>8. \A i \in 1 .. Len(w) : ~Closes(w[i], "link_end") /\ ~Closes(w[i], "foot_end")
    BY <2>1, <2>2, <2>4 DEF Closes
  <2>9. Closed(w, h, lab, "link_end", "LINK") /\ Closed(w, h, lab, "foot_end", "FOOTNOTE")
    BY <1>2, <2>4, <2>5, <2>8 DEF Closed
  <2>12. Begun(w, h, lab, Len(w) - 1)
    BY <2>4 DEF Begun
  <2>10. Ordered(w, h, lab, in_link_body, in_footnote, text)
    BY <2>4, <2>5, <2>6, <2>7, <2>8, <2>9, <2>12 DEF Ordered
  <2>11. Ordered(work', held', lab', in_link_body', in_footnote', Text_last')
    BY <1>1, <2>10 DEF inside, marks, queues, h, w
  <2> QED
    BY <1>1, <1>3, <1>7, <2>11 DEF Good
<1>6. ~Heading
  <2>1. ASSUME NEW x, work = <<<<x>>>> PROVE FALSE
    BY <1>1, <2>1
  <2> QED
    BY <2>1 DEF Heading
<1> QED
  BY <1>1, <1>4, <1>5, <1>6 DEF PInv
===============================================================================
