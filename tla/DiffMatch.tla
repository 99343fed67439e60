------------------------------ MODULE DiffMatch -------------------------------
(***************************************************************************)
(* lowdown_diff() up to the point where it merges: the signatures (phase   *)
(* 2), the matching of the new tree against the old one by decreasing      *)
(* weight (phase 3) and the two optimisations (phase 4).  The program is   *)
(* sequential; a step here is one turn of one of its loops or one call of  *)
(* a recursive function.  A failed assert(), or a node that has no entry   *)
(* in the map it is looked up in, is the phase "abort".                    *)
(***************************************************************************)
EXTENDS DiffTree

LOCAL INSTANCE Functions
LOCAL INSTANCE FiniteSetsExt

CONSTANTS
  Names,    \* the names of the documents
  Tree(_),  \* the tree of the document of a name
  Pairs     \* the pairs <<old, new>> of names that may be compared

ASSUME TreesAreTrees == \A d \in Names : IsTree(Tree(d))
ASSUME PairsAreNames == Pairs \subseteq Names \X Names

VARIABLES
  pair,       \* the pair that is compared, never changed
  phase,      \* what lowdown_diff() is doing
  om, nm,     \* match of each old and each new node in the map, or None
  optm,       \* optmatch of each new node, or None
  queue,      \* the queue of new nodes, its head first
  work,       \* the calls a recursive function has still to make
  climb       \* match_up()'s nodes, its level i and its bound d

vars == <<pair, phase, om, nm, optm, queue, work, climb>>

Docs == [d \in Names |-> Tree(d)]

old == Docs[pair[1]]
new == Docs[pair[2]]

(***************************************************************************)
(* Phase 2: the map of each tree, with the signatures and the weights of   *)
(* its nodes.  None of it changes once the matching starts.  The largest   *)
(* weight is that of any node, those below an opaque one included.         *)
(***************************************************************************)
Maps      == [d \in Names |-> Mapped(Docs[d])]
Sigs      == [d \in Names |-> SigOf(Docs[d])]
Weights   == [d \in Names |-> WeightOf(Docs[d])]
MaxWeight == [d \in Names |-> Max({Weights[d][n] : n \in Ids(Docs[d])})]

SubTrees  == [d \in Names |-> PreOrder(Docs[d])]

Belows    == [d \in Names |-> Below(Docs[d])]

Weight(n) == Weights[pair[2]][n]

Phases == {"queue", "enqueue", "down", "up", "roots", "topdown", "bottomup",
           "merge", "done", "abort"}

NoClimb == [n |-> Root, o |-> Root, i |-> 0, d |-> 1]

Init ==
  /\ pair \in Pairs
  /\ phase = "queue"
  /\ om = [o \in Maps[pair[1]] |-> None]
  /\ nm = [n \in Maps[pair[2]] |-> None]
  /\ optm = [n \in Maps[pair[2]] |-> None]
  /\ queue = <<Root>>
  /\ work = <<>>
  /\ climb = NoClimb

Abort == phase' = "abort" /\ UNCHANGED <<om, nm, optm, queue, work, climb>>

\* The first of the places, or the one behind the queue if there is none.
First(places, q) ==
  1 + Cardinality({i \in DOMAIN q : \A j \in places : i < j})

(***************************************************************************)
(* pqueue(): go past the heavier nodes; at a lighter one, insert; at one   *)
(* as heavy, go on past every smaller identifier.                          *)
(***************************************************************************)
Place(q, n) ==
  LET stop == First({i \in DOMAIN q : Weight(n) >= Weight(q[i])}, q)
  IN  IF stop \in DOMAIN q /\ Weight(n) = Weight(q[stop])
      THEN First({i \in DOMAIN q : stop <= i /\ n < q[i]}, q)
      ELSE stop

\* Mutant: no return after the insertion.
PQueueTwice(q, n) ==
  SubSeq(q, 1, Place(q, n) - 1) \o <<n>> \o SubSeq(q, Place(q, n), Len(q))
    \o <<n>>

PQueue(q, n) ==
  SubSeq(q, 1, Place(q, n) - 1) \o <<n>> \o SubSeq(q, Place(q, n), Len(q))

MaxHeight(n) ==
  Height(Cardinality(DOMAIN nm), Weight(n), MaxWeight[pair[2]])

\* The ancestor i levels above a node, None above the root.
AncestorAt(t, n, i) ==
  LET up[j \in 0 .. i] ==
        IF j = 0 THEN n
        ELSE IF up[j - 1] = None THEN None ELSE t.par[up[j - 1]]
  IN  up[i]

\* One more than the levels at which the ancestors match each other.
Optimality(n, o) ==
  1 + Cardinality({i \in 1 .. MaxHeight(n) :
                     LET a == AncestorAt(new, n, i)
                         b == AncestorAt(old, o, i)
                     IN  a # None /\ b # None /\ nm[a] = b})

Distance(a, b) == IF a < b THEN b - a ELSE a - b

\* Mutant: an old node that has a match is a candidate.
CandidatesTaken(n) ==
  {o \in DOMAIN om : Sigs[pair[1]][o] = Sigs[pair[2]][n]}

Candidates(n) ==
  {o \in DOMAIN om : om[o] = None /\ Sigs[pair[1]][o] = Sigs[pair[2]][n]}

\* What candidate() is left with when it has seen them in identifier order.
Best(n, cands) ==
  CHOOSE o \in cands : \A q \in cands \ {o} :
    LET p == Optimality(n, o)
        r == Optimality(n, q)
    IN  \/ p > r
        \/ p = r /\ Distance(o, n) < Distance(q, n)
        \/ p = r /\ Distance(o, n) = Distance(q, n) /\ o < q

(***************************************************************************)
(* Phase 3: take the head of the queue.  With no candidate the children    *)
(* are enqueued, one by one; otherwise the best candidate is propagated.   *)
(***************************************************************************)
Dequeue ==
  /\ phase = "queue"
  /\ queue # <<>>
  /\ LET n     == Head(queue)
         cands == Candidates(n)
     IN  \/ /\ nm[n] # None \/ optm[n] # None
            /\ Abort
         \/ /\ nm[n] = None /\ optm[n] = None
            /\ cands = {}
            /\ queue' = Tail(queue)
            /\ work' = IF IsOpaque(new, n) THEN <<>> ELSE new.kids[n]
            /\ phase' = "enqueue"
            /\ UNCHANGED <<om, nm, optm, climb>>
         \/ /\ nm[n] = None /\ optm[n] = None
            /\ cands # {}
            /\ \E o \in cands :
                 /\ o = Best(n, cands)
                 /\ optm' = [optm EXCEPT ![n] = o]
                 /\ work' = <<<<n, o>>>>
                 /\ climb' = [n |-> n, o |-> o, i |-> 0, d |-> MaxHeight(n)]
            /\ queue' = Tail(queue)
            /\ phase' = "down"
            /\ UNCHANGED <<om, nm>>
  /\ UNCHANGED pair

Enqueue ==
  /\ phase = "enqueue"
  /\ work # <<>>
  /\ queue' = PQueue(queue, Head(work))
  /\ work' = Tail(work)
  /\ UNCHANGED <<pair, phase, om, nm, optm, climb>>

EnqueueDone ==
  /\ phase = "enqueue"
  /\ work = <<>>
  /\ phase' = "queue"
  /\ UNCHANGED <<pair, om, nm, optm, queue, work, climb>>

\* Mutant: the node that the old one is taken from keeps its match.
FreedNone(o) == nm

\* The new nodes' matches once the old node o is freed of the one it has.
Freed(o) == IF om[o] = None THEN nm ELSE [nm EXCEPT ![om[o]] = None]

(***************************************************************************)
(* One call of match_down(): an old node that is already matched is taken  *)
(* from its match, the two nodes are matched and, unless they are opaque,  *)
(* the calls for their children come next.                                 *)
(***************************************************************************)
MatchDown ==
  /\ phase = "down"
  /\ work # <<>>
  /\ LET n == Head(work)[1]
         o == Head(work)[2]
         opaque == IsOpaque(new, n)
     IN  IF \/ o \notin DOMAIN om
            \/ om[o] # None /\ nm[om[o]] # o
            \/ Freed(o)[n] # None
            \/ opaque /\ ~IsOpaque(old, o)
            \/ ~opaque /\ Len(new.kids[n]) # Len(old.kids[o])
         THEN Abort
         ELSE /\ om' = [om EXCEPT ![o] = n]
              /\ nm' = [Freed(o) EXCEPT ![n] = o]
              /\ work' = (IF opaque THEN <<>>
                          ELSE [i \in DOMAIN new.kids[n] |->
                                  <<new.kids[n][i], old.kids[o][i]>>])
                         \o Tail(work)
              /\ UNCHANGED <<phase, optm, queue, climb>>
  /\ UNCHANGED pair

MatchDownDone ==
  /\ phase = "down"
  /\ work = <<>>
  /\ phase' = "up"
  /\ UNCHANGED <<pair, om, nm, optm, queue, work, climb>>

\* Mutant: the climb does not stop at ancestors that are matched.
MayClimbOver ==
  LET n == climb.n
      o == climb.o
  IN  /\ new.par[n] # None /\ old.par[o] # None
      /\ climb.i < climb.d
      /\ MatchEq(new.lab[new.par[n]], old.lab[old.par[o]])

\* match_up() goes on: up to d levels, then for as long as there is no sibling.
MayClimb ==
  LET n == climb.n
      o == climb.o
  IN  /\ new.par[n] # None /\ old.par[o] # None
      /\ \/ climb.i < climb.d
         \/ MatchSingleton(new, n) /\ MatchSingleton(old, o)
      /\ MatchEq(new.lab[new.par[n]], old.lab[old.par[o]])
      /\ nm[new.par[n]] = None /\ om[old.par[o]] = None

MatchUp ==
  /\ phase = "up"
  /\ MayClimb
  /\ LET n == new.par[climb.n]
         o == old.par[climb.o]
     IN  /\ nm' = [nm EXCEPT ![n] = o]
         /\ om' = [om EXCEPT ![o] = n]
         /\ climb' = [climb EXCEPT !.n = n, !.o = o,
                        !.i = IF @ < climb.d THEN @ + 1 ELSE @]
  /\ UNCHANGED <<pair, phase, optm, queue, work>>

MatchUpDone ==
  /\ phase = "up"
  /\ ~MayClimb
  /\ phase' = "queue"
  /\ climb' = NoClimb
  /\ UNCHANGED <<pair, om, nm, optm, queue, work>>

(***************************************************************************)
(* The roots are matched if nothing has matched the new one, and then the  *)
(* document headers, the first children of the roots.                      *)
(***************************************************************************)
MatchRoots ==
  /\ phase = "queue"
  /\ queue = <<>>
  /\ phase' = "roots"
  /\ IF nm[Root] # None
     THEN UNCHANGED <<om, nm, optm, queue, work, climb>>
     ELSE IF om[Root] # None \/ {Type(old, Root), Type(new, Root)} # {"ROOT"}
     THEN Abort
     ELSE /\ nm' = [nm EXCEPT ![Root] = Root]
          /\ om' = [om EXCEPT ![Root] = Root]
          /\ UNCHANGED <<optm, queue, work, climb>>
  /\ UNCHANGED pair

IsHeader(t, n) == Type(t, n) = "DOC_HEADER"

HeadersLeft ==
  /\ new.kids[Root] # <<>> /\ old.kids[Root] # <<>>
  /\ IsHeader(new, Head(new.kids[Root])) /\ IsHeader(old, Head(old.kids[Root]))
  /\ nm[Head(new.kids[Root])] = None

MatchHeaders ==
  /\ phase = "roots"
  /\ LET n == Head(new.kids[Root])
         o == Head(old.kids[Root])
     IN  \/ /\ HeadersLeft
            /\ nm' = [nm EXCEPT ![n] = o]
            /\ om' = [om EXCEPT ![o] = n]
         \/ ~HeadersLeft /\ UNCHANGED <<om, nm>>
  /\ work' = <<<<Root, 1>>>>
  /\ phase' = "topdown"
  /\ UNCHANGED <<pair, optm, queue, climb>>

(***************************************************************************)
(* node_optimise_topdown(): at the i-th child of a matched node n, itself  *)
(* matched under n's match, the next siblings of both are matched if they  *)
(* may be.  The children are visited once all of them have been seen.      *)
(***************************************************************************)
Adjacent(n, i) ==
  LET c  == new.kids[n][i]
      m  == nm[c]
      cn == NextSibling(new, c)
      mn == NextSibling(old, m)
  IN  /\ ~Skipped(new, c)
      /\ m # None /\ old.par[m] = nm[n]
      /\ cn # None /\ ~Skipped(new, cn) /\ nm[cn] = None
      /\ mn # None /\ ~Skipped(old, mn) /\ om[mn] = None
      /\ MatchEq(new.lab[cn], old.lab[mn])

TopDown ==
  /\ phase = "topdown"
  /\ work # <<>>
  /\ LET n == Head(work)[1]
         i == Head(work)[2]
     IN  \/ /\ Skipped(new, n) \/ nm[n] = None
            /\ work' = Tail(work)
            /\ UNCHANGED <<om, nm>>
         \/ /\ ~Skipped(new, n) /\ nm[n] # None
            /\ i <= Len(new.kids[n])
            /\ IF Adjacent(n, i)
               THEN LET cn == NextSibling(new, new.kids[n][i])
                        mn == NextSibling(old, nm[new.kids[n][i]])
                    IN  /\ nm' = [nm EXCEPT ![cn] = mn]
                        /\ om' = [om EXCEPT ![mn] = cn]
               ELSE UNCHANGED <<om, nm>>
            /\ work' = <<<<n, i + 1>>>> \o Tail(work)
         \/ /\ ~Skipped(new, n) /\ nm[n] # None
            /\ i > Len(new.kids[n])
            /\ work' = [j \in DOMAIN new.kids[n] |-> <<new.kids[n][j], 1>>]
                       \o Tail(work)
            /\ UNCHANGED <<om, nm>>
  /\ UNCHANGED <<pair, phase, optm, queue, climb>>

TopDownDone ==
  /\ phase = "topdown"
  /\ work = <<>>
  /\ work' = <<<<Root, 1>>>>
  /\ phase' = "bottomup"
  /\ UNCHANGED <<pair, om, nm, optm, queue, climb>>

(***************************************************************************)
(* node_optimise_bottomup(): once its children are done, an unmatched node *)
(* takes as its match the equal node with the heaviest share of their      *)
(* matches as children, if the share is half of their weight or more.      *)
(* Whether that node has a match already is not looked at.                 *)
(***************************************************************************)
MatchParent(k) == IF nm[k] = None THEN None ELSE old.par[nm[k]]

Share(n, p) ==
  SumFunction([i \in {j \in DOMAIN new.kids[n] :
                        MatchParent(new.kids[n][j]) = p}
                 |-> Weight(new.kids[n][i])])

KidsWeight(n) ==
  SumFunction([i \in DOMAIN new.kids[n] |-> Weight(new.kids[n][i])])

\* The children whose match has a parent that equals n.
Voters(n) ==
  {i \in DOMAIN new.kids[n] :
     LET p == MatchParent(new.kids[n][i])
     IN  p # None /\ MatchEq(new.lab[n], old.lab[p])}

\* The first of them with the heaviest share.
Winner(n) ==
  LET share(i) == Share(n, MatchParent(new.kids[n][i]))
  IN  CHOOSE i \in Voters(n) : \A j \in Voters(n) :
        share(i) > share(j) \/ (share(i) = share(j) /\ i <= j)

\* Mutant: a node that has a match is given another.
AdoptsAgain(n, v) == v = Winner(n)

Adopts(n, v) ==
  /\ nm[n] = None
  /\ v = Winner(n)
  /\ 2 * Share(n, MatchParent(new.kids[n][v])) >= KidsWeight(n)

BottomUp ==
  /\ phase = "bottomup"
  /\ work # <<>>
  /\ LET n == Head(work)[1]
         i == Head(work)[2]
     IN  \/ /\ Skipped(new, n)
            /\ work' = Tail(work)
            /\ UNCHANGED <<om, nm>>
         \/ /\ ~Skipped(new, n)
            /\ i <= Len(new.kids[n])
            /\ work' = <<<<new.kids[n][i], 1>>, <<n, i + 1>>>> \o Tail(work)
            /\ UNCHANGED <<om, nm>>
         \/ /\ ~Skipped(new, n)
            /\ i > Len(new.kids[n])
            /\ \E v \in Voters(n) :
                 LET p == MatchParent(new.kids[n][v])
                 IN  /\ Adopts(n, v)
                     /\ nm' = [nm EXCEPT ![n] = p]
                     /\ om' = [om EXCEPT ![p] = n]
            /\ work' = Tail(work)
         \/ /\ ~Skipped(new, n)
            /\ i > Len(new.kids[n])
            /\ ~\E v \in Voters(n) : Adopts(n, v)
            /\ work' = Tail(work)
            /\ UNCHANGED <<om, nm>>
  /\ UNCHANGED <<pair, phase, optm, queue, climb>>

BottomUpDone ==
  /\ phase = "bottomup"
  /\ work = <<>>
  /\ phase' = "merge"
  /\ UNCHANGED <<pair, om, nm, optm, queue, work, climb>>

\* The trees are matched, and are merged next.
Matched == phase = "merge" /\ UNCHANGED vars

MatchNext ==
  \/ Dequeue \/ Enqueue \/ EnqueueDone \/ MatchDown \/ MatchDownDone \/ MatchUp
  \/ MatchUpDone \/ MatchRoots \/ MatchHeaders \/ TopDown \/ TopDownDone
  \/ BottomUp \/ BottomUpDone

Next == MatchNext \/ Matched

Spec == Init /\ [][Next]_vars

-------------------------------------------------------------------------------

\* The values of the variables; a work item is a pair of new and old node in
\* "down", and a new node with the index of a child in the optimisations.
TypeOK ==
  /\ pair \in (DOMAIN Docs) \X (DOMAIN Docs)
  /\ phase \in Phases
  /\ om \in [Maps[pair[1]] -> Maps[pair[2]] \cup {None}]
  /\ nm \in [Maps[pair[2]] -> Maps[pair[1]] \cup {None}]
  /\ optm \in [Maps[pair[2]] -> Maps[pair[1]] \cup {None}]
  /\ queue \in Seq(Maps[pair[2]])
  /\ phase = "enqueue" => work \in Seq(Maps[pair[2]])
  /\ phase = "down" => work \in Seq(Maps[pair[2]] \X Ids(old))
  /\ phase \in {"topdown", "bottomup"} =>
       work \in Seq(Maps[pair[2]] \X (Nat \ {0}))
  /\ climb \in [n : Maps[pair[2]], o : Maps[pair[1]], i : Nat,
               d : {1} \cup {MaxHeight(n) : n \in Maps[pair[2]]}]

(***************************************************************************)
(* An old node's match points back at it, in every phase.  The assertions  *)
(* of match_down() and of node_merge(), which goes from a new node to the  *)
(* old one whose match it is and on to the pair, stand on it; match_down() *)
(* takes matches away and the bottom-up optimisation overwrites them.      *)
(***************************************************************************)
OldMatchSound == \A o \in DOMAIN om : om[o] # None => nm[om[o]] = o

(***************************************************************************)
(* Until the bottom-up optimisation the matching is one-to-one: no new     *)
(* node is left pointing at an old one that was given to another.          *)
(***************************************************************************)
NewMatchSound ==
  phase \notin {"bottomup", "merge", "done"} =>
    \A n \in DOMAIN nm : nm[n] # None => om[nm[n]] = n

(***************************************************************************)
(* No assertion of lowdown_diff(), match_down() fails: a dequeued node has *)
(* no match and was not dequeued before, an old node taken from its match  *)
(* was matched both ways, and two sub-trees with one signature have the    *)
(* same number of children everywhere.                                     *)
(***************************************************************************)
NoAbort == phase # "abort"

(***************************************************************************)
(* What is in the queue is there once, and nothing in or below it has been *)
(* matched: the propagation of one node, down or up, never reaches into    *)
(* the sub-tree of another that waits.                                     *)
(***************************************************************************)
QueueUntouched ==
  LET waiting == queue \o (IF phase = "enqueue" THEN work ELSE <<>>)
  IN  /\ \A i, j \in DOMAIN waiting : waiting[i] = waiting[j] => i = j
      /\ \A i \in DOMAIN waiting :
           \A n \in Belows[pair[2]][waiting[i]] \cap DOMAIN nm :
             nm[n] = None /\ optm[n] = None

(***************************************************************************)
(* Matched nodes have the same type, whichever of the five places made the *)
(* match: node_merge() asserts it of opaque nodes and clones the new node  *)
(* in the place of the old one.                                            *)
(***************************************************************************)
MatchesAgree ==
  \A n \in DOMAIN nm : nm[n] # None => Type(new, n) = Type(old, nm[n])

(***************************************************************************)
(* The optimisations add matches and take none away from a new node, so    *)
(* what phase 3 found by signature stays found.                            *)
(***************************************************************************)
OptimiseOnlyAdds ==
  [][(phase \in {"roots", "topdown", "bottomup"}) =>
       \A n \in DOMAIN nm : nm[n] # None => nm'[n] = nm[n]]_vars

(***************************************************************************)
(* A sub-tree found by signature is matched as a whole, node by node: when *)
(* match_down() takes old nodes from it, it takes all of it, its root too. *)
(***************************************************************************)
SubTreesWhole ==
  phase # "down" =>
    \A n \in DOMAIN nm : optm[n] # None /\ nm[n] = optm[n] =>
      LET s == SubTrees[pair[2]][n]
          r == SubTrees[pair[1]][nm[n]]
      IN  \A i \in DOMAIN s : s[i] \in DOMAIN nm => nm[s[i]] = r[i]
===============================================================================
