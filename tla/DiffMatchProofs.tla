--------------------------- MODULE DiffMatchProofs ---------------------------
(***************************************************************************)
(* Proofs about the matching, for all trees: the values of its variables,  *)
(* that the two maps agree on who matches whom and match nodes of one      *)
(* kind, that no sub-tree is matched before it is taken off the queue, and *)
(* that lowdown_diff() does not abort.                                     *)
(***************************************************************************)
EXTENDS DiffMatch, SequenceTheorems, FiniteSetTheorems, TLAPS

-------------------------------------------------------------------------------
(***************************************************************************)
(* Trees and maps.                                                         *)
(***************************************************************************)

\* What is in every closed set of nodes is mapped, and nothing else is.
LEMMA MappedMember ==
  ASSUME NEW t, NEW n
  PROVE  n \in Mapped(t) <=>
           n \in Ids(t) /\ \A S \in SUBSET Ids(t) : Closed(t, S) => n \in S
BY DEF Mapped

(***************************************************************************)
(* The map has the root and is closed: assign_sigs() enters the children   *)
(* of every node that it enters and that is not opaque.                    *)
(***************************************************************************)
LEMMA MappedClosed ==
  ASSUME NEW t, IsTree(t)
  PROVE  /\ Mapped(t) \subseteq Ids(t)
         /\ Root \in Mapped(t)
         /\ \A m \in Mapped(t) : ~IsOpaque(t, m) => Kids(t, m) \subseteq Mapped(t)
<1>1. Mapped(t) \subseteq Ids(t)
  BY MappedMember
<1>2. Root \in Mapped(t)
  BY MappedMember DEF Closed, IsTree
<1>3. ASSUME NEW m \in Mapped(t), ~IsOpaque(t, m), NEW c \in Kids(t, m)
      PROVE  c \in Mapped(t)
  <2>1. m \in Ids(t)
    BY <1>1, <1>3
  <2>2. c \in Ids(t)
    <3>1. t.kids[m] \in Seq(Ids(t))
      BY <2>1 DEF IsTree
    <3>2. PICK i \in DOMAIN t.kids[m] : c = t.kids[m][i]
      BY <1>3 DEF Kids
    <3> QED
      BY <3>1, <3>2
  <2>3. ASSUME NEW S \in SUBSET Ids(t), Closed(t, S)
        PROVE  c \in S
    <3>1. m \in S
      BY <1>3, <2>3, MappedMember
    <3> QED
      BY <1>3, <2>3, <3>1 DEF Closed
  <2> QED
    BY <2>2, <2>3, MappedMember
<1> QED
  BY <1>1, <1>2, <1>3

(***************************************************************************)
(* A mapped node was entered from its parent, which is mapped and not      *)
(* opaque.                                                                 *)
(***************************************************************************)
LEMMA MappedParent ==
  ASSUME NEW t, IsTree(t), NEW n \in Mapped(t), t.par[n] # None
  PROVE  t.par[n] \in Mapped(t) /\ ~IsOpaque(t, t.par[n])
<1> DEFINE S == Mapped(t) \ {n}
<1>1. n \in Ids(t) /\ n # Root /\ t.par[n] \in Ids(t)
  BY MappedClosed DEF IsTree
<1>2. S \in SUBSET Ids(t) /\ ~Closed(t, S)
  BY MappedClosed, MappedMember
<1>3. Root \in S
  BY <1>1, MappedClosed
<1>4. PICK m \in S : ~IsOpaque(t, m) /\ ~(Kids(t, m) \subseteq S)
  BY <1>2, <1>3 DEF Closed
<1>5. Kids(t, m) \subseteq Mapped(t)
  BY <1>4, MappedClosed
<1>6. n \in Kids(t, m)
  BY <1>4, <1>5
<1>7. t.par[n] = m
  BY <1>4, <1>6, MappedClosed DEF Kids, IsTree
<1> QED
  BY <1>4, <1>7

\* The children of a mapped node that is not opaque are a sequence of such.
LEMMA MappedKids ==
  ASSUME NEW t, IsTree(t), NEW n \in Mapped(t), ~IsOpaque(t, n)
  PROVE  t.kids[n] \in Seq(Mapped(t))
<1>1. n \in Ids(t) /\ t.kids[n] \in Seq(Ids(t))
  BY MappedClosed DEF IsTree
<1>2. \A i \in 1 .. Len(t.kids[n]) : t.kids[n][i] \in Mapped(t)
  BY <1>1, MappedClosed DEF Kids
<1> QED
  BY <1>1, <1>2, SeqDef

\* The next sibling of a mapped node that has one is mapped.
LEMMA MappedSibling ==
  ASSUME NEW t, IsTree(t), NEW n \in Mapped(t), t.par[n] # None,
         NextSibling(t, n) # None
  PROVE  NextSibling(t, n) \in Mapped(t)
<1> DEFINE s == t.kids[t.par[n]]
           i == CHOOSE j \in DOMAIN s : s[j] = n
<1>1. t.par[n] \in Mapped(t) /\ ~IsOpaque(t, t.par[n])
  BY MappedParent
<1>2. s \in Seq(Mapped(t))
  BY <1>1, MappedKids
<1>3. n \in Ids(t) /\ n # Root
  BY MappedClosed DEF IsTree
<1>4. \E j \in DOMAIN s : s[j] = n
  BY <1>3 DEF IsTree, Kids
<1>5. i \in DOMAIN s
  BY <1>4
<1>6. NextSibling(t, n) = s[i + 1] /\ i < Len(s)
  BY DEF NextSibling
<1> HIDE DEF s, i
<1>7. i \in Nat /\ i + 1 \in 1 .. Len(s)
  BY <1>2, <1>5, <1>6, LenProperties
<1>8. s[i + 1] \in Mapped(t)
  BY <1>2, <1>7, ElementOfSeq
<1> QED
  BY <1>6, <1>8

-------------------------------------------------------------------------------
(***************************************************************************)
(* The queue and the work lists.                                           *)
(***************************************************************************)

\* The first of some places of a queue, or the one behind it.
LEMMA FirstIsPlace ==
  ASSUME NEW T, NEW q \in Seq(T), NEW places
  PROVE  First(places, q) \in 1 .. Len(q) + 1
<1> DEFINE before == {i \in DOMAIN q : \A j \in places : i < j}
<1>1. Len(q) \in Nat /\ DOMAIN q = 1 .. Len(q)
  BY LenProperties
<1>2. IsFiniteSet(1 .. Len(q)) /\ Cardinality(1 .. Len(q)) = Len(q)
  BY <1>1, FS_Interval
<1>3. before \subseteq 1 .. Len(q)
  BY <1>1
<1> HIDE DEF before
<1>4. IsFiniteSet(before) /\ Cardinality(before) <= Len(q)
  BY <1>2, <1>3, FS_Subset
<1>5. Cardinality(before) \in Nat
  BY <1>4, FS_CardinalityType
<1> QED
  BY <1>1, <1>4, <1>5 DEF First, before

\* pqueue() puts a node into the queue, and nothing else.
LEMMA PQueueIsQueue ==
  ASSUME NEW T, NEW q \in Seq(T), NEW n \in T
  PROVE  PQueue(q, n) \in Seq(T)
<1>1. Len(q) \in Nat /\ DOMAIN q = 1 .. Len(q) /\ \A i \in 1 .. Len(q) : q[i] \in T
  BY LenProperties, ElementOfSeq
<1>2. Place(q, n) \in 1 .. Len(q) + 1
  <2> DEFINE heavier == {i \in DOMAIN q : Weight(n) >= Weight(q[i])}
             stop == First(heavier, q)
             larger == {i \in DOMAIN q : stop <= i /\ n < q[i]}
  <2>1. stop \in 1 .. Len(q) + 1
    BY <1>1, FirstIsPlace
  <2>2. First(larger, q) \in 1 .. Len(q) + 1
    BY <1>1, FirstIsPlace
  <2>3. Place(q, n) = stop \/ Place(q, n) = First(larger, q)
    BY DEF Place
  <2> QED
    BY <2>1, <2>2, <2>3
<1> DEFINE p == Place(q, n)
<1>3. SubSeq(q, 1, p - 1) \in Seq(T) /\ SubSeq(q, p, Len(q)) \in Seq(T)
  <2> HIDE DEF p
  <2>1. p - 1 \in Int /\ p \in Int /\ 1 \in Int /\ Len(q) \in Int
    BY <1>1, <1>2 DEF p
  <2>2. \A i \in 1 .. p - 1 : q[i] \in T
    BY <1>1, <1>2 DEF p
  <2>3. \A i \in p .. Len(q) : q[i] \in T
    BY <1>1, <1>2 DEF p
  <2> QED
    BY <2>1, <2>2, <2>3, SubSeqProperties
<1>4. <<n>> \in Seq(T)
  OBVIOUS
<1> HIDE DEF p
<1>5. SubSeq(q, 1, p - 1) \o <<n>> \in Seq(T)
  BY <1>3, <1>4, ConcatProperties
<1>6. (SubSeq(q, 1, p - 1) \o <<n>>) \o SubSeq(q, p, Len(q)) \in Seq(T)
  BY <1>3, <1>5, ConcatProperties
<1> QED
  BY <1>6 DEF PQueue, p

-------------------------------------------------------------------------------
(***************************************************************************)
(* The two trees that are compared, and their maps.                        *)
(***************************************************************************)
LEMMA PairOfTrees ==
  ASSUME pair \in (DOMAIN Docs) \X (DOMAIN Docs)
  PROVE  /\ IsTree(old) /\ IsTree(new)
         /\ Maps[pair[1]] = Mapped(old) /\ Maps[pair[2]] = Mapped(new)
BY TreesAreTrees DEF old, new, Docs, Maps

\* The identifiers in a map are natural numbers, so None is not one of them.
LEMMA NoneNotMapped ==
  ASSUME TypeOK
  PROVE  None \notin Maps[pair[1]] /\ None \notin Maps[pair[2]]
<1>1. Mapped(old) \subseteq Nat /\ Mapped(new) \subseteq Nat
  BY PairOfTrees, MappedClosed DEF TypeOK, IsTree
<1> QED
  BY <1>1, PairOfTrees DEF TypeOK, None

\* At first every variable has its type.
LEMMA TypeInit == Init => TypeOK
<1> SUFFICES ASSUME Init PROVE TypeOK
  OBVIOUS
<1>1. pair \in (DOMAIN Docs) \X (DOMAIN Docs)
  BY PairsAreNames DEF Init, Docs
<1>2. Root \in Maps[pair[1]] /\ Root \in Maps[pair[2]]
  BY <1>1, PairOfTrees, MappedClosed
<1>3. /\ om \in [Maps[pair[1]] -> Maps[pair[2]] \cup {None}]
      /\ nm \in [Maps[pair[2]] -> Maps[pair[1]] \cup {None}]
      /\ optm \in [Maps[pair[2]] -> Maps[pair[1]] \cup {None}]
  <2>1. \A S, T : [x \in S |-> None] \in [S -> T \cup {None}]
    OBVIOUS
  <2>2. /\ om = [o \in Maps[pair[1]] |-> None]
        /\ nm = [n \in Maps[pair[2]] |-> None]
        /\ optm = [n \in Maps[pair[2]] |-> None]
    BY DEF Init
  <2> QED
    BY <2>1, <2>2
<1>4. phase = "queue" /\ phase \in Phases
  BY DEF Init, Phases
<1>5. queue \in Seq(Maps[pair[2]])
  <2>1. \A S : \A x \in S : <<x>> \in Seq(S)
    OBVIOUS
  <2>2. queue = <<Root>>
    BY DEF Init
  <2> QED
    BY <1>2, <2>1, <2>2
<1>6. climb \in [n : Maps[pair[2]], o : Maps[pair[1]], i : Nat,
                d : {1} \cup {MaxHeight(n) : n \in Maps[pair[2]]}]
  BY <1>2 DEF Init, NoClimb
<1> QED
  BY <1>1, <1>3, <1>4, <1>5, <1>6 DEF TypeOK

(***************************************************************************)
(* No step changes the pair, and with it the trees and the maps: the       *)
(* values may be of the types they had before.                             *)
(***************************************************************************)
LEMMA TypeKept ==
  ASSUME TypeOK, pair' = pair, phase' \in Phases,
         om' \in [Maps[pair[1]] -> Maps[pair[2]] \cup {None}],
         nm' \in [Maps[pair[2]] -> Maps[pair[1]] \cup {None}],
         optm' \in [Maps[pair[2]] -> Maps[pair[1]] \cup {None}],
         queue' \in Seq(Maps[pair[2]]),
         phase' = "enqueue" => work' \in Seq(Maps[pair[2]]),
         phase' = "down" => work' \in Seq(Maps[pair[2]] \X Ids(old)),
         phase' \in {"topdown", "bottomup"} =>
           work' \in Seq(Maps[pair[2]] \X (Nat \ {0})),
         climb' \in [n : Maps[pair[2]], o : Maps[pair[1]], i : Nat,
                     d : {1} \cup {MaxHeight(n) : n \in Maps[pair[2]]}]
  PROVE  TypeOK'
<1>1. \A n : MaxHeight(n)' = MaxHeight(n)
  BY DEF TypeOK, MaxHeight, Weight
<1>2. old' = old
  BY DEF old
<1> QED
  BY <1>1, <1>2 DEF TypeOK

\* A node is taken off the queue.
LEMMA TypeDequeue == TypeOK /\ Dequeue => TypeOK'
<1> SUFFICES ASSUME TypeOK, Dequeue PROVE TypeOK'
  OBVIOUS
<1> DEFINE n == Head(queue)
<1>1. n \in Maps[pair[2]] /\ Tail(queue) \in Seq(Maps[pair[2]])
  BY HeadTailProperties DEF TypeOK, Dequeue
<1>2. CASE Abort /\ UNCHANGED pair
  BY <1>2, TypeKept DEF TypeOK, Abort, Phases
<1>3. CASE /\ queue' = Tail(queue)
           /\ work' = IF IsOpaque(new, n) THEN <<>> ELSE new.kids[n]
           /\ phase' = "enqueue"
           /\ UNCHANGED <<pair, om, nm, optm, climb>>
  <2>1. work' \in Seq(Maps[pair[2]])
    <3>1. CASE IsOpaque(new, n)
      BY <1>3, <3>1, EmptySeq
    <3>2. CASE ~IsOpaque(new, n)
      BY <1>1, <1>3, <3>2, PairOfTrees, MappedKids DEF TypeOK
    <3> QED
      BY <3>1, <3>2
  <2> QED
    BY <1>1, <1>3, <2>1, TypeKept DEF TypeOK, Phases
<1>4. ASSUME NEW o \in Candidates(n),
             optm' = [optm EXCEPT ![n] = o],
             work' = <<<<n, o>>>>,
             climb' = [n |-> n, o |-> o, i |-> 0, d |-> MaxHeight(n)],
             queue' = Tail(queue),
             phase' = "down",
             UNCHANGED <<pair, om, nm>>
      PROVE  TypeOK'
  <2>1. o \in Maps[pair[1]] /\ o \in Ids(old)
    BY <1>4, PairOfTrees, MappedClosed DEF TypeOK, Candidates
  <2>2. work' \in Seq(Maps[pair[2]] \X Ids(old))
    BY <1>1, <1>4, <2>1
  <2>3. optm' \in [Maps[pair[2]] -> Maps[pair[1]] \cup {None}]
    BY <1>1, <1>4, <2>1 DEF TypeOK
  <2>4. climb' \in [n : Maps[pair[2]], o : Maps[pair[1]], i : Nat,
                    d : {1} \cup {MaxHeight(m) : m \in Maps[pair[2]]}]
    BY <1>1, <1>4, <2>1
  <2> QED
    BY <1>1, <1>4, <2>2, <2>3, <2>4, TypeKept DEF TypeOK, Phases
<1> QED
  BY <1>2, <1>3, <1>4 DEF Dequeue

\* Children are entered in the queue.
LEMMA TypeEnqueue == TypeOK /\ Enqueue => TypeOK'
<1> SUFFICES ASSUME TypeOK, Enqueue PROVE TypeOK'
  OBVIOUS
<1>1. Head(work) \in Maps[pair[2]] /\ Tail(work) \in Seq(Maps[pair[2]])
  BY HeadTailProperties DEF TypeOK, Enqueue
<1>2. PQueue(queue, Head(work)) \in Seq(Maps[pair[2]])
  BY <1>1, PQueueIsQueue DEF TypeOK
<1> QED
  BY <1>1, <1>2, TypeKept DEF TypeOK, Enqueue

\* Two sub-trees are matched downwards.
LEMMA TypeMatchDown == TypeOK /\ MatchDown => TypeOK'
<1> SUFFICES ASSUME TypeOK, MatchDown PROVE TypeOK'
  OBVIOUS
<1> DEFINE n == Head(work)[1]
           o == Head(work)[2]
           calls == IF IsOpaque(new, n) THEN <<>>
                    ELSE [i \in DOMAIN new.kids[n] |->
                            <<new.kids[n][i], old.kids[o][i]>>]
           Item == Maps[pair[2]] \X Ids(old)
<1>1. work \in Seq(Item) /\ work # <<>> /\ UNCHANGED pair
  BY DEF TypeOK, MatchDown
<1>2. n \in Maps[pair[2]] /\ o \in Ids(old) /\ Tail(work) \in Seq(Item)
  BY <1>1, HeadTailProperties
<1>3. CASE Abort
  BY <1>1, <1>3, TypeKept DEF TypeOK, Abort, Phases
<1>4. CASE /\ o \in DOMAIN om
           /\ IsOpaque(new, n) \/ Len(new.kids[n]) = Len(old.kids[o])
           /\ om' = [om EXCEPT ![o] = n]
           /\ nm' = [Freed(o) EXCEPT ![n] = o]
           /\ work' = calls \o Tail(work)
           /\ UNCHANGED <<phase, optm, queue, climb>>
  <2>1. o \in Maps[pair[1]]
    BY <1>4 DEF TypeOK
  <2>2. om' \in [Maps[pair[1]] -> Maps[pair[2]] \cup {None}]
    BY <1>2, <1>4, <2>1 DEF TypeOK
  <2>3. Freed(o) \in [Maps[pair[2]] -> Maps[pair[1]] \cup {None}]
    BY DEF TypeOK, Freed
  <2>4. nm' \in [Maps[pair[2]] -> Maps[pair[1]] \cup {None}]
    BY <1>2, <1>4, <2>1, <2>3
  <2>5. calls \in Seq(Item)
    <3>1. CASE IsOpaque(new, n)
      BY <3>1, EmptySeq
    <3>2. CASE ~IsOpaque(new, n)
      <4> DEFINE ns == new.kids[n]
                 os == old.kids[o]
      <4>1. ns \in Seq(Maps[pair[2]])
        BY <1>2, <3>2, PairOfTrees, MappedKids DEF TypeOK
      <4>2. os \in Seq(Ids(old))
        BY <1>2, PairOfTrees DEF TypeOK, IsTree
      <4>3. Len(os) = Len(ns)
        BY <1>4, <3>2
      <4>4. Len(ns) \in Nat /\ DOMAIN ns = 1 .. Len(ns)
        BY <4>1, LenProperties
      <4>5. \A i \in 1 .. Len(ns) : ns[i] \in Maps[pair[2]] /\ os[i] \in Ids(old)
        BY <4>1, <4>2, <4>3, ElementOfSeq
      <4> HIDE DEF ns, os, n, o
      <4>6. [i \in 1 .. Len(ns) |-> <<ns[i], os[i]>>] \in Seq(Item)
        BY <4>4, <4>5, SeqDef
      <4> QED
        BY <3>2, <4>4, <4>6 DEF ns, os
    <3> QED
      BY <3>1, <3>2
  <2>6. work' \in Seq(Item)
    BY <1>2, <1>4, <2>5, ConcatProperties
  <2>7. phase' = "down"
    BY <1>4 DEF MatchDown
  <2> QED
    BY <1>1, <1>4, <2>2, <2>4, <2>6, <2>7, TypeKept DEF TypeOK
<1> QED
  BY <1>3, <1>4 DEF MatchDown

\* A match is propagated upwards.
LEMMA TypeMatchUp == TypeOK /\ MatchUp => TypeOK'
<1> SUFFICES ASSUME TypeOK, MatchUp PROVE TypeOK'
  OBVIOUS
<1> DEFINE n == new.par[climb.n]
           o == old.par[climb.o]
<1>1. n \in Maps[pair[2]] /\ o \in Maps[pair[1]]
  BY PairOfTrees, MappedParent DEF TypeOK, MatchUp, MayClimb
<1>2. /\ UNCHANGED <<pair, phase, optm, queue, work>>
      /\ nm' = [nm EXCEPT ![n] = o]
      /\ om' = [om EXCEPT ![o] = n]
      /\ climb' = [climb EXCEPT !.n = n, !.o = o,
                     !.i = IF @ < climb.d THEN @ + 1 ELSE @]
  BY DEF MatchUp
<1> HIDE DEF n, o
<1>3. nm' \in [Maps[pair[2]] -> Maps[pair[1]] \cup {None}]
  BY <1>1, <1>2 DEF TypeOK
<1>4. om' \in [Maps[pair[1]] -> Maps[pair[2]] \cup {None}]
  BY <1>1, <1>2 DEF TypeOK
<1>5. climb' \in [n : Maps[pair[2]], o : Maps[pair[1]], i : Nat,
                  d : {1} \cup {MaxHeight(m) : m \in Maps[pair[2]]}]
  <2> DEFINE D == {1} \cup {MaxHeight(m) : m \in Maps[pair[2]]}
             i == IF climb.i < climb.d THEN climb.i + 1 ELSE climb.i
  <2>1. climb \in [n : Maps[pair[2]], o : Maps[pair[1]], i : Nat, d : D]
    BY DEF TypeOK
  <2> HIDE DEF D
  <2>2. i \in Nat
    BY <2>1
  <2>3. climb' = [n |-> n, o |-> o, i |-> i, d |-> climb.d]
    BY <1>2, <2>1
  <2>4. climb' \in [n : Maps[pair[2]], o : Maps[pair[1]], i : Nat, d : D]
    BY <1>1, <2>1, <2>2, <2>3
  <2> QED
    BY <2>4 DEF D
<1> QED
  BY <1>2, <1>3, <1>4, <1>5, TypeKept DEF TypeOK

\* The climb is over, or the queue is empty and the roots are looked at.
LEMMA TypeRoots == TypeOK /\ (MatchUpDone \/ MatchRoots) => TypeOK'
<1> SUFFICES ASSUME TypeOK, MatchUpDone \/ MatchRoots PROVE TypeOK'
  OBVIOUS
<1>1. Root \in Maps[pair[1]] /\ Root \in Maps[pair[2]]
  BY PairOfTrees, MappedClosed DEF TypeOK
<1>2. CASE MatchUpDone
  <2>1. NoClimb \in [n : Maps[pair[2]], o : Maps[pair[1]], i : Nat,
                     d : {1} \cup {MaxHeight(m) : m \in Maps[pair[2]]}]
    BY <1>1 DEF NoClimb
  <2> QED
    BY <1>2, <2>1, TypeKept DEF TypeOK, MatchUpDone, Phases
<1>3. CASE MatchRoots /\ Abort
  BY <1>3, TypeKept DEF TypeOK, MatchRoots, Abort, Phases
<1>4. CASE MatchRoots /\ ~Abort
  <2>1. /\ nm' = nm \/ nm' = [nm EXCEPT ![Root] = Root]
        /\ om' = om \/ om' = [om EXCEPT ![Root] = Root]
        /\ UNCHANGED <<pair, optm, queue, work, climb>> /\ phase' = "roots"
    BY <1>4 DEF MatchRoots
  <2>2. nm' \in [Maps[pair[2]] -> Maps[pair[1]] \cup {None}]
    BY <1>1, <2>1 DEF TypeOK
  <2>3. om' \in [Maps[pair[1]] -> Maps[pair[2]] \cup {None}]
    BY <1>1, <2>1 DEF TypeOK
  <2> QED
    BY <2>1, <2>2, <2>3, TypeKept DEF TypeOK, Phases
<1> QED
  BY <1>2, <1>3, <1>4

\* The document headers are matched.
LEMMA TypeHeaders == TypeOK /\ MatchHeaders => TypeOK'
<1> SUFFICES ASSUME TypeOK, MatchHeaders PROVE TypeOK'
  OBVIOUS
<1> DEFINE n == Head(new.kids[Root])
           o == Head(old.kids[Root])
<1>1. /\ Root \in Mapped(new) /\ ~IsOpaque(new, Root)
      /\ Root \in Mapped(old) /\ ~IsOpaque(old, Root)
  BY PairOfTrees, MappedClosed DEF TypeOK, IsTree, IsOpaque
<1>2. /\ new.kids[Root] \in Seq(Maps[pair[2]])
      /\ old.kids[Root] \in Seq(Maps[pair[1]])
  BY <1>1, PairOfTrees, MappedKids DEF TypeOK
<1>3. \/ UNCHANGED <<om, nm>>
      \/ /\ n \in Maps[pair[2]] /\ o \in Maps[pair[1]]
         /\ nm' = [nm EXCEPT ![n] = o] /\ om' = [om EXCEPT ![o] = n]
  BY <1>2, HeadTailProperties DEF MatchHeaders, HeadersLeft
<1> HIDE DEF n, o
<1>4. nm' \in [Maps[pair[2]] -> Maps[pair[1]] \cup {None}]
  BY <1>3 DEF TypeOK
<1>5. om' \in [Maps[pair[1]] -> Maps[pair[2]] \cup {None}]
  BY <1>3 DEF TypeOK
<1>6. /\ work' \in Seq(Maps[pair[2]] \X (Nat \ {0}))
      /\ phase' = "topdown" /\ UNCHANGED <<pair, optm, queue, climb>>
  BY <1>1, PairOfTrees DEF TypeOK, MatchHeaders
<1> QED
  BY <1>4, <1>5, <1>6, TypeKept DEF TypeOK, Phases

(***************************************************************************)
(* What the optimisations have to visit: the head of the list is a mapped  *)
(* node with the index of a child, or one past the last.                   *)
(***************************************************************************)
LEMMA VisitHead ==
  ASSUME TypeOK, phase \in {"topdown", "bottomup"}, work # <<>>
  PROVE  /\ Head(work)[1] \in Maps[pair[2]]
         /\ Head(work)[2] \in Nat \ {0}
         /\ Tail(work) \in Seq(Maps[pair[2]] \X (Nat \ {0}))
BY HeadTailProperties DEF TypeOK

\* The children of a node that is not skipped are mapped.
LEMMA VisitKids ==
  ASSUME TypeOK, NEW n \in Maps[pair[2]], ~Skipped(new, n)
  PROVE  new.kids[n] \in Seq(Maps[pair[2]])
BY PairOfTrees, MappedKids DEF TypeOK, Skipped

\* A position up to the number of children is one of a child.
LEMMA VisitIndex ==
  ASSUME TypeOK, NEW n \in Maps[pair[2]], ~Skipped(new, n),
         NEW i \in Nat \ {0}, i <= Len(new.kids[n])
  PROVE  i \in DOMAIN new.kids[n]
<1> DEFINE ns == new.kids[n]
<1>1. ns \in Seq(Maps[pair[2]])
  BY VisitKids
<1>2. i <= Len(ns)
  OBVIOUS
<1> HIDE DEF ns
<1>3. Len(ns) \in Nat /\ DOMAIN ns = 1 .. Len(ns)
  BY <1>1, LenProperties
<1>4. i \in DOMAIN ns
  BY <1>2, <1>3
<1> QED
  BY <1>4 DEF ns

\* The i-th child of such a node, whose parent it is.
LEMMA VisitKid ==
  ASSUME TypeOK, NEW n \in Maps[pair[2]], ~Skipped(new, n),
         NEW i \in DOMAIN new.kids[n]
  PROVE  new.kids[n][i] \in Maps[pair[2]] /\ new.par[new.kids[n][i]] = n
<1>1. new.kids[n][i] \in Maps[pair[2]]
  BY VisitKids, ElementOfSeq, LenProperties
<1>2. n \in Ids(new)
  BY PairOfTrees, MappedClosed DEF TypeOK
<1>3. new.par[new.kids[n][i]] = n
  BY <1>2, PairOfTrees DEF TypeOK, IsTree
<1> QED
  BY <1>1, <1>3

\* Two next siblings that the top-down optimisation matches are mapped.
LEMMA AdjacentMapped ==
  ASSUME TypeOK, NEW n \in Maps[pair[2]], ~Skipped(new, n), nm[n] # None,
         NEW i \in DOMAIN new.kids[n], Adjacent(n, i)
  PROVE  /\ NextSibling(new, new.kids[n][i]) \in Maps[pair[2]]
         /\ NextSibling(old, nm[new.kids[n][i]]) \in Maps[pair[1]]
<1> DEFINE c == new.kids[n][i]
<1>1. c \in Maps[pair[2]] /\ new.par[c] = n
  BY VisitKid
<1>2. n # None
  BY NoneNotMapped
<1>3. nm[c] \in Maps[pair[1]] /\ old.par[nm[c]] # None
  BY <1>1 DEF TypeOK, Adjacent
<1>4. NextSibling(new, c) # None /\ NextSibling(old, nm[c]) # None
  BY DEF Adjacent
<1> QED
  BY <1>1, <1>2, <1>3, <1>4, PairOfTrees, MappedSibling DEF TypeOK

\* A step of the top-down optimisation.
LEMMA TypeTopDown == TypeOK /\ TopDown => TypeOK'
<1> SUFFICES ASSUME TypeOK, TopDown PROVE TypeOK'
  OBVIOUS
<1> DEFINE n == Head(work)[1]
           i == Head(work)[2]
           cn == NextSibling(new, new.kids[n][i])
           mn == NextSibling(old, nm[new.kids[n][i]])
           Item == Maps[pair[2]] \X (Nat \ {0})
<1>1. n \in Maps[pair[2]] /\ i \in Nat \ {0} /\ Tail(work) \in Seq(Item)
  BY VisitHead DEF TopDown
<1>2. UNCHANGED <<pair, phase, optm, queue, climb>> /\ phase = "topdown"
  BY DEF TopDown
<1>3. CASE work' = Tail(work) /\ UNCHANGED <<om, nm>>
  BY <1>1, <1>2, <1>3, TypeKept DEF TypeOK
<1>4. CASE /\ ~Skipped(new, n) /\ nm[n] # None
           /\ i <= Len(new.kids[n])
           /\ IF Adjacent(n, i)
              THEN nm' = [nm EXCEPT ![cn] = mn] /\ om' = [om EXCEPT ![mn] = cn]
              ELSE UNCHANGED <<om, nm>>
           /\ work' = <<<<n, i + 1>>>> \o Tail(work)
  <2>1. i \in DOMAIN new.kids[n]
    BY <1>1, <1>4, VisitIndex, ZenonT(30)
  <2>2. Adjacent(n, i) => cn \in Maps[pair[2]] /\ mn \in Maps[pair[1]]
    BY <1>1, <1>4, <2>1, AdjacentMapped
  <2>3. <<<<n, i + 1>>>> \in Seq(Item)
    BY <1>1
  <2>4. work' \in Seq(Item)
    BY <1>1, <1>4, <2>3, ConcatProperties
  <2> HIDE DEF cn, mn
  <2>5. nm' \in [Maps[pair[2]] -> Maps[pair[1]] \cup {None}]
    BY <1>4, <2>2 DEF TypeOK
  <2>6. om' \in [Maps[pair[1]] -> Maps[pair[2]] \cup {None}]
    BY <1>4, <2>2 DEF TypeOK
  <2> QED
    BY <1>2, <2>4, <2>5, <2>6, TypeKept DEF TypeOK
<1>5. CASE /\ ~Skipped(new, n)
           /\ work' = [j \in DOMAIN new.kids[n] |-> <<new.kids[n][j], 1>>]
                      \o Tail(work)
           /\ UNCHANGED <<om, nm>>
  <2> DEFINE ns == new.kids[n]
  <2>1. ns \in Seq(Maps[pair[2]])
    BY <1>1, <1>5, VisitKids
  <2>2. Len(ns) \in Nat /\ DOMAIN ns = 1 .. Len(ns)
        /\ \A j \in 1 .. Len(ns) : ns[j] \in Maps[pair[2]]
    BY <2>1, LenProperties, ElementOfSeq
  <2> HIDE DEF ns
  <2>3. [j \in DOMAIN ns |-> <<ns[j], 1>>] \in Seq(Item)
    BY <2>2, SeqDef
  <2>4. work' \in Seq(Item)
    BY <1>1, <1>5, <2>3, ConcatProperties DEF ns
  <2> QED
    BY <1>2, <1>5, <2>4, TypeKept DEF TypeOK
<1> QED
  BY <1>3, <1>4, <1>5 DEF TopDown

\* The node that a child votes for is mapped: it is the parent of its match.
LEMMA VoterMapped ==
  ASSUME TypeOK, NEW n \in Maps[pair[2]], ~Skipped(new, n), NEW v \in Voters(n)
  PROVE  MatchParent(new.kids[n][v]) \in Maps[pair[1]]
<1> DEFINE c == new.kids[n][v]
<1>1. c \in Maps[pair[2]] /\ MatchParent(c) # None
  BY VisitKid DEF Voters
<1>2. nm[c] \in Maps[pair[1]] /\ MatchParent(c) = old.par[nm[c]]
  BY <1>1 DEF TypeOK, MatchParent
<1> QED
  BY <1>1, <1>2, PairOfTrees, MappedParent DEF TypeOK

\* A step of the bottom-up optimisation.
LEMMA TypeBottomUp == TypeOK /\ BottomUp => TypeOK'
<1> SUFFICES ASSUME TypeOK, BottomUp PROVE TypeOK'
  OBVIOUS
<1> DEFINE n == Head(work)[1]
           i == Head(work)[2]
           Item == Maps[pair[2]] \X (Nat \ {0})
<1>1. n \in Maps[pair[2]] /\ i \in Nat \ {0} /\ Tail(work) \in Seq(Item)
  BY VisitHead DEF BottomUp
<1>2. UNCHANGED <<pair, phase, optm, queue, climb>> /\ phase = "bottomup"
  BY DEF BottomUp
<1>3. CASE work' = Tail(work) /\ UNCHANGED <<om, nm>>
  BY <1>1, <1>2, <1>3, TypeKept DEF TypeOK
<1>4. CASE /\ ~Skipped(new, n)
           /\ i <= Len(new.kids[n])
           /\ work' = <<<<new.kids[n][i], 1>>, <<n, i + 1>>>> \o Tail(work)
           /\ UNCHANGED <<om, nm>>
  <2>1. i \in DOMAIN new.kids[n]
    BY <1>1, <1>4, VisitKids, LenProperties
  <2>2. new.kids[n][i] \in Maps[pair[2]]
    BY <1>1, <1>4, <2>1, VisitKid
  <2>3. <<<<new.kids[n][i], 1>>, <<n, i + 1>>>> \in Seq(Item)
    BY <1>1, <2>2
  <2>4. work' \in Seq(Item)
    BY <1>1, <1>4, <2>3, ConcatProperties
  <2> QED
    BY <1>2, <1>4, <2>4, TypeKept DEF TypeOK
<1>5. ASSUME ~Skipped(new, n), NEW v \in Voters(n),
             nm' = [nm EXCEPT ![n] = MatchParent(new.kids[n][v])],
             om' = [om EXCEPT ![MatchParent(new.kids[n][v])] = n],
             work' = Tail(work)
      PROVE  TypeOK'
  <2> DEFINE p == MatchParent(new.kids[n][v])
  <2>1. p \in Maps[pair[1]]
    BY <1>1, <1>5, VoterMapped
  <2> HIDE DEF p, n
  <2>2. nm' \in [Maps[pair[2]] -> Maps[pair[1]] \cup {None}]
    BY <1>1, <1>5, <2>1 DEF TypeOK, p
  <2>3. om' \in [Maps[pair[1]] -> Maps[pair[2]] \cup {None}]
    BY <1>1, <1>5, <2>1 DEF TypeOK, p
  <2> QED
    BY <1>1, <1>2, <1>5, <2>2, <2>3, TypeKept DEF TypeOK
<1> QED
  BY <1>3, <1>4, <1>5 DEF BottomUp

\* The steps from one phase to the next, which change the work list at most.
LEMMA TypePhase ==
  TypeOK /\ (EnqueueDone \/ MatchDownDone \/ TopDownDone \/ BottomUpDone)
    => TypeOK'
<1> SUFFICES ASSUME TypeOK,
                    EnqueueDone \/ MatchDownDone \/ TopDownDone \/ BottomUpDone
             PROVE  TypeOK'
  OBVIOUS
<1>1. CASE EnqueueDone
  BY <1>1, TypeKept DEF TypeOK, EnqueueDone, Phases
<1>2. CASE MatchDownDone
  BY <1>2, TypeKept DEF TypeOK, MatchDownDone, Phases
<1>3. CASE TopDownDone
  <2>1. Root \in Maps[pair[2]]
    BY PairOfTrees, MappedClosed DEF TypeOK
  <2>2. work' \in Seq(Maps[pair[2]] \X (Nat \ {0}))
    BY <1>3, <2>1 DEF TopDownDone
  <2> QED
    BY <1>3, <2>2, TypeKept DEF TypeOK, TopDownDone, Phases
<1>4. CASE BottomUpDone
  BY <1>4, TypeKept DEF TypeOK, BottomUpDone, Phases
<1> QED
  BY <1>1, <1>2, <1>3, <1>4

\* Every step keeps the types.
LEMMA TypeStep == TypeOK /\ [Next]_vars => TypeOK'
<1> SUFFICES ASSUME TypeOK, [Next]_vars PROVE TypeOK'
  OBVIOUS
<1>1. CASE UNCHANGED vars
  BY <1>1, TypeKept DEF TypeOK, vars
<1>2. CASE MatchNext
  BY <1>2, TypeDequeue, TypeEnqueue, TypeMatchDown, TypeMatchUp, TypeRoots,
     TypeHeaders, TypeTopDown, TypeBottomUp, TypePhase DEF MatchNext
<1> QED
  BY <1>1, <1>2 DEF Next, Matched

(***************************************************************************)
(* The variables keep the values they are meant to have, for all trees: in *)
(* particular the parents and next siblings that match_up() and the two    *)
(* optimisations go to from mapped nodes are in the map themselves, so     *)
(* that the lookups diff.c does without a check find what they look for.   *)
(***************************************************************************)
THEOREM TypeCorrect == Spec => []TypeOK
<1>1. Init => TypeOK
  BY TypeInit
<1>2. TypeOK /\ [Next]_vars => TypeOK'
  BY TypeStep
<1> QED
  BY <1>1, <1>2, PTL DEF Spec

-------------------------------------------------------------------------------
(***************************************************************************)
(* Who matches whom.                                                       *)
(***************************************************************************)

\* A new node without a match is given an old one, whatever that had.
LEMMA OldSoundPair ==
  ASSUME TypeOK, OldMatchSound,
         NEW n \in Maps[pair[2]], NEW o \in Maps[pair[1]], nm[n] = None,
         nm' = [nm EXCEPT ![n] = o], om' = [om EXCEPT ![o] = n]
  PROVE  OldMatchSound'
<1> SUFFICES ASSUME NEW q \in DOMAIN om, om'[q] # None
             PROVE  nm'[om'[q]] = q
  BY DEF TypeOK, OldMatchSound
<1>1. CASE q = o
  BY <1>1 DEF TypeOK
<1>2. CASE q # o
  <2>1. om'[q] = om[q] /\ om[q] \in Maps[pair[2]] /\ nm[om[q]] = q
    BY <1>2 DEF TypeOK, OldMatchSound
  <2>2. q # None
    BY NoneNotMapped DEF TypeOK
  <2>3. om[q] # n
    BY <2>1, <2>2
  <2> QED
    BY <2>1, <2>3 DEF TypeOK
<1> QED
  BY <1>1, <1>2

(***************************************************************************)
(* match_down() frees the node that the old one is taken from, and that is *)
(* the only one whose match is lost: another old node with the same match  *)
(* would be the match of its match, too.                                   *)
(***************************************************************************)
LEMMA OldSoundDown == TypeOK /\ OldMatchSound /\ MatchDown => OldMatchSound'
<1> SUFFICES ASSUME TypeOK, OldMatchSound, MatchDown
             PROVE  OldMatchSound'
  OBVIOUS
<1> DEFINE n == Head(work)[1]
           o == Head(work)[2]
<1>1. CASE Abort
  BY <1>1 DEF Abort, OldMatchSound
<1>2. CASE /\ o \in DOMAIN om /\ Freed(o)[n] = None
           /\ om' = [om EXCEPT ![o] = n]
           /\ nm' = [Freed(o) EXCEPT ![n] = o]
  <2>1. n \in DOMAIN nm
    <3>1. work \in Seq(Maps[pair[2]] \X Ids(old)) /\ work # <<>>
      BY DEF TypeOK, MatchDown
    <3>2. n \in Maps[pair[2]]
      BY <3>1, HeadTailProperties
    <3> QED
      BY <3>2 DEF TypeOK
  <2> HIDE DEF n, o
  <2>2. Freed(o) \in [DOMAIN nm -> Maps[pair[1]] \cup {None}]
    BY DEF TypeOK, Freed
  <2> SUFFICES ASSUME NEW q \in DOMAIN om, om'[q] # None
               PROVE  nm'[om'[q]] = q
    BY <1>2 DEF OldMatchSound
  <2>3. CASE q = o
    BY <1>2, <2>1, <2>2, <2>3
  <2>4. CASE q # o
    <3>1. om'[q] = om[q] /\ om[q] \in DOMAIN nm /\ nm[om[q]] = q
      BY <1>2, <2>4 DEF TypeOK, OldMatchSound
    <3>2. om[o] # None => om[o] # om[q]
      BY <1>2, <2>4, <3>1 DEF OldMatchSound
    <3>3. Freed(o)[om[q]] = q
      BY <3>1, <3>2 DEF Freed
    <3>4. q # None
      BY NoneNotMapped DEF TypeOK
    <3> QED
      BY <1>2, <2>2, <3>1, <3>3, <3>4
  <2> QED
    BY <2>3, <2>4
<1> QED
  BY <1>1, <1>2 DEF MatchDown

\* Every step keeps an old node with the new one that matches it.
LEMMA OldSoundStep == TypeOK /\ OldMatchSound /\ [Next]_vars => OldMatchSound'
<1> SUFFICES ASSUME TypeOK, OldMatchSound, [Next]_vars
             PROVE  OldMatchSound'
  OBVIOUS
<1>1. CASE UNCHANGED <<om, nm>>
  BY <1>1 DEF OldMatchSound
<1>2. CASE MatchDown
  BY <1>2, OldSoundDown
<1>3. CASE MatchUp
  <2>1. new.par[climb.n] \in Maps[pair[2]] /\ old.par[climb.o] \in Maps[pair[1]]
    BY <1>3, PairOfTrees, MappedParent DEF TypeOK, MatchUp, MayClimb
  <2> QED
    BY <1>3, <2>1, OldSoundPair DEF MatchUp, MayClimb
<1>4. CASE MatchRoots
  <2>1. Root \in Maps[pair[1]] /\ Root \in Maps[pair[2]]
    BY PairOfTrees, MappedClosed DEF TypeOK
  <2> QED
    BY <1>1, <1>4, <2>1, OldSoundPair DEF MatchRoots, Abort
<1>5. CASE MatchHeaders
  <2>1. /\ Root \in Mapped(new) /\ ~IsOpaque(new, Root)
        /\ Root \in Mapped(old) /\ ~IsOpaque(old, Root)
    BY PairOfTrees, MappedClosed DEF TypeOK, IsTree, IsOpaque
  <2>2. /\ new.kids[Root] \in Seq(Maps[pair[2]])
        /\ old.kids[Root] \in Seq(Maps[pair[1]])
    BY <2>1, PairOfTrees, MappedKids DEF TypeOK
  <2>3. HeadersLeft => /\ Head(new.kids[Root]) \in Maps[pair[2]]
                       /\ Head(old.kids[Root]) \in Maps[pair[1]]
    BY <2>2, HeadTailProperties DEF HeadersLeft
  <2> QED
    BY <1>1, <1>5, <2>3, OldSoundPair DEF MatchHeaders, HeadersLeft
<1>6. CASE TopDown
  <2> DEFINE n == Head(work)[1]
             i == Head(work)[2]
  <2>1. n \in Maps[pair[2]] /\ i \in Nat \ {0}
    BY <1>6, VisitHead DEF TopDown
  <2>2. CASE ~Skipped(new, n) /\ nm[n] # None /\ i <= Len(new.kids[n])
             /\ Adjacent(n, i)
             /\ nm' = [nm EXCEPT ![NextSibling(new, new.kids[n][i])] =
                          NextSibling(old, nm[new.kids[n][i]])]
             /\ om' = [om EXCEPT ![NextSibling(old, nm[new.kids[n][i]])] =
                          NextSibling(new, new.kids[n][i])]
    <3>1. i \in DOMAIN new.kids[n]
      BY <2>1, <2>2, VisitIndex, ZenonT(30)
    <3>2. /\ NextSibling(new, new.kids[n][i]) \in Maps[pair[2]]
          /\ NextSibling(old, nm[new.kids[n][i]]) \in Maps[pair[1]]
      BY <2>1, <2>2, <3>1, AdjacentMapped
    <3>3. nm[NextSibling(new, new.kids[n][i])] = None
      BY <2>2 DEF Adjacent
    <3> QED
      BY <2>2, <3>2, <3>3, OldSoundPair
  <2> QED
    BY <1>1, <1>6, <2>2 DEF TopDown
<1>7. CASE BottomUp
  <2> DEFINE n == Head(work)[1]
  <2>1. n \in Maps[pair[2]]
    BY <1>7, VisitHead DEF BottomUp
  <2>2. ASSUME ~Skipped(new, n), NEW v \in Voters(n), Adopts(n, v),
               nm' = [nm EXCEPT ![n] = MatchParent(new.kids[n][v])],
               om' = [om EXCEPT ![MatchParent(new.kids[n][v])] = n]
        PROVE  OldMatchSound'
    <3>1. MatchParent(new.kids[n][v]) \in Maps[pair[1]]
      BY <2>1, <2>2, VoterMapped
    <3>2. nm[n] = None
      BY <2>2 DEF Adopts
    <3> QED
      BY <2>1, <2>2, <3>1, <3>2, OldSoundPair
  <2> QED
    BY <1>1, <1>7, <2>2 DEF BottomUp
<1> QED
  BY <1>1, <1>2, <1>3, <1>4, <1>5, <1>6, <1>7
     DEF Next, MatchNext, Matched, vars, Dequeue, Abort, Enqueue, EnqueueDone,
         MatchDownDone, MatchUpDone, TopDownDone, BottomUpDone

(***************************************************************************)
(* For all trees: the match of an old node points back at it, through the  *)
(* signatures, both ways of propagating a match, both optimisations and    *)
(* the overwriting of matches in match_down() and bottom-up.               *)
(***************************************************************************)
THEOREM OldMatchCorrect == Spec => []OldMatchSound
<1>1. Init => OldMatchSound
  BY DEF Init, OldMatchSound
<1>2. TypeOK /\ OldMatchSound /\ [Next]_vars => OldMatchSound'
  BY OldSoundStep
<1> QED
  BY <1>1, <1>2, TypeCorrect, PTL DEF Spec

(***************************************************************************)
(* While the matching goes by signature, up to the document headers, it is *)
(* one-to-one: what a new node points at points back at it.                *)
(***************************************************************************)
BySignature == {"queue", "enqueue", "down", "up", "roots", "abort"}

OneToOne ==
  phase \in BySignature => \A n \in DOMAIN nm : nm[n] # None => om[nm[n]] = n

\* Two nodes without a match, either of them, are matched.
LEMMA OneToOnePair ==
  ASSUME TypeOK, OneToOne, phase \in BySignature,
         NEW n \in Maps[pair[2]], NEW o \in Maps[pair[1]], om[o] = None,
         nm' = [nm EXCEPT ![n] = o], om' = [om EXCEPT ![o] = n]
  PROVE  OneToOne'
<1> SUFFICES ASSUME NEW m \in DOMAIN nm, nm'[m] # None
             PROVE  om'[nm'[m]] = m
  BY DEF TypeOK, OneToOne
<1>1. CASE m = n
  BY <1>1 DEF TypeOK
<1>2. CASE m # n
  <2>1. nm'[m] = nm[m] /\ nm[m] \in Maps[pair[1]] /\ om[nm[m]] = m
    BY <1>2 DEF TypeOK, OneToOne
  <2>2. m # None
    BY NoneNotMapped DEF TypeOK
  <2>3. nm[m] # o
    BY <2>1, <2>2
  <2> QED
    BY <2>1, <2>3 DEF TypeOK
<1> QED
  BY <1>1, <1>2

\* match_down() frees the new node it takes an old one from.
LEMMA OneToOneDown == TypeOK /\ OneToOne /\ MatchDown => OneToOne'
<1> SUFFICES ASSUME TypeOK, OneToOne, MatchDown
             PROVE  OneToOne'
  OBVIOUS
<1> DEFINE n == Head(work)[1]
           o == Head(work)[2]
<1>1. phase \in BySignature
  BY DEF MatchDown, BySignature
<1>2. CASE Abort
  BY <1>1, <1>2 DEF Abort, OneToOne
<1>3. CASE /\ o \in DOMAIN om
           /\ om' = [om EXCEPT ![o] = n]
           /\ nm' = [Freed(o) EXCEPT ![n] = o]
  <2> HIDE DEF n, o
  <2>1. Freed(o) \in [DOMAIN nm -> Maps[pair[1]] \cup {None}]
    BY DEF TypeOK, Freed
  <2> SUFFICES ASSUME NEW m \in DOMAIN nm, nm'[m] # None
               PROVE  om'[nm'[m]] = m
    BY <1>1, <1>3, <2>1 DEF OneToOne
  <2>2. CASE m = n
    BY <1>3, <2>1, <2>2
  <2>3. CASE m # n
    <3>1. nm'[m] = Freed(o)[m]
      BY <1>3, <2>1, <2>3
    <3>2. Freed(o)[m] = nm[m] /\ (om[o] # None => m # om[o])
      BY <3>1 DEF Freed
    <3>3. nm[m] \in DOMAIN om /\ om[nm[m]] = m
      BY <1>1, <3>1, <3>2 DEF TypeOK, OneToOne
    <3>4. m # None
      BY NoneNotMapped DEF TypeOK
    <3>5. nm[m] # o
      BY <3>2, <3>3, <3>4
    <3> QED
      BY <1>3, <3>1, <3>2, <3>3, <3>5
  <2> QED
    BY <2>2, <2>3
<1> QED
  BY <1>2, <1>3 DEF MatchDown

\* Every step keeps the matching by digest one-to-one.
LEMMA OneToOneStep == TypeOK /\ OneToOne /\ [Next]_vars => OneToOne'
<1> SUFFICES ASSUME TypeOK, OneToOne, [Next]_vars
             PROVE  OneToOne'
  OBVIOUS
<1>1. CASE UNCHANGED <<om, nm>> /\ (phase' \in BySignature => phase \in BySignature)
  BY <1>1 DEF OneToOne
<1>2. CASE MatchDown
  BY <1>2, OneToOneDown
<1>3. CASE MatchUp
  <2>1. new.par[climb.n] \in Maps[pair[2]] /\ old.par[climb.o] \in Maps[pair[1]]
    BY <1>3, PairOfTrees, MappedParent DEF TypeOK, MatchUp, MayClimb
  <2>2. phase \in BySignature
    BY <1>3 DEF MatchUp, BySignature
  <2> QED
    BY <1>3, <2>1, <2>2, OneToOnePair DEF MatchUp, MayClimb
<1>4. CASE MatchRoots
  <2>1. Root \in Maps[pair[1]] /\ Root \in Maps[pair[2]]
    BY PairOfTrees, MappedClosed DEF TypeOK
  <2>2. phase \in BySignature
    BY <1>4 DEF MatchRoots, BySignature
  <2> QED
    BY <1>1, <1>4, <2>1, <2>2, OneToOnePair DEF MatchRoots, Abort
<1>5. CASE phase' \notin BySignature
  BY <1>5 DEF OneToOne
<1>6. (MatchHeaders \/ TopDown \/ TopDownDone \/ BottomUp \/ BottomUpDone)
        => phase' \notin BySignature
  BY DEF MatchHeaders, TopDown, TopDownDone, BottomUp, BottomUpDone, BySignature
<1> QED
  BY <1>1, <1>2, <1>3, <1>4, <1>5, <1>6
     DEF Next, MatchNext, Matched, vars, Dequeue, Abort, Enqueue, EnqueueDone,
         MatchDownDone, MatchUpDone, BySignature

(***************************************************************************)
(* For all trees: matches found by signature, and those they propagate up, *)
(* are one-to-one, although match_down() gives matched nodes away.         *)
(***************************************************************************)
THEOREM SignatureMatchOneToOne == Spec => []OneToOne
<1>1. Init => OneToOne
  BY DEF Init, OneToOne
<1>2. TypeOK /\ OneToOne /\ [Next]_vars => OneToOne'
  BY OneToOneStep
<1> QED
  BY <1>1, <1>2, TypeCorrect, PTL DEF Spec

(***************************************************************************)
(* For all trees: no optimisation takes a match from a new node or gives   *)
(* it another.                                                             *)
(***************************************************************************)
THEOREM OptimisationsOnlyAdd == Spec => OptimiseOnlyAdds
<1> DEFINE Adds == (phase \in {"roots", "topdown", "bottomup"}) =>
                     \A n \in DOMAIN nm : nm[n] # None => nm'[n] = nm[n]
<1>1. TypeOK /\ [Next]_vars => [Adds]_vars
  <2> SUFFICES ASSUME TypeOK, [Next]_vars,
                      phase \in {"roots", "topdown", "bottomup"},
                      NEW n \in DOMAIN nm, nm[n] # None
               PROVE  nm'[n] = nm[n]
    OBVIOUS
  <2>1. CASE nm' = nm
    BY <2>1
  <2>2. ASSUME NEW m, NEW o, nm[m] = None, nm' = [nm EXCEPT ![m] = o]
        PROVE  nm'[n] = nm[n]
    BY <2>2 DEF TypeOK
  <2>3. CASE MatchHeaders
    BY <2>1, <2>2, <2>3 DEF MatchHeaders, HeadersLeft
  <2>4. CASE TopDown
    BY <2>1, <2>2, <2>4 DEF TopDown, Adjacent
  <2>5. CASE BottomUp
    BY <2>1, <2>2, <2>5 DEF BottomUp, Adopts
  <2> QED
    BY <2>1, <2>3, <2>4, <2>5
       DEF Next, MatchNext, Matched, vars, Dequeue, Enqueue, EnqueueDone,
           MatchDown, MatchDownDone, MatchUp, MatchUpDone, MatchRoots,
           TopDownDone, BottomUpDone
<1> QED
  BY <1>1, TypeCorrect, PTL DEF Spec, OptimiseOnlyAdds

-------------------------------------------------------------------------------
(***************************************************************************)
(* The recursive functions on trees.  That there is a function of each     *)
(* kind is proved, and then what every such function has.                  *)
(***************************************************************************)

\* What follows for every kind of node follows for the node with no such kid.
LEMMA Deepest ==
  ASSUME NEW t, IsTree(t), NEW S \in SUBSET Ids(t), S # {}
  PROVE  \E n \in S : \A i \in DOMAIN t.kids[n] : t.kids[n][i] \notin S
<1>1. PICK n \in S : Kids(t, n) \cap S = {}
  <2>1. Grounded(t)
    BY DEF IsTree
  <2> QED
    BY <2>1 DEF Grounded
<1> QED
  BY <1>1 DEF Kids

\* The children of a node are nodes, and it is their parent.
LEMMA KidIsNode ==
  ASSUME NEW t, IsTree(t), NEW n \in Ids(t), NEW i \in DOMAIN t.kids[n]
  PROVE  t.kids[n][i] \in Ids(t) /\ t.par[t.kids[n][i]] = n
<1>1. t.kids[n] \in Seq(Ids(t))
  BY DEF IsTree
<1> QED
  BY <1>1 DEF IsTree

(***************************************************************************)
(* The digests of some nodes, of all their children among them.            *)
(***************************************************************************)
Digests(t, D, g) ==
  \A n \in D :
    /\ \A i \in DOMAIN t.kids[n] : t.kids[n][i] \in D
    /\ g[n] = Digest(t.lab[n], [i \in DOMAIN t.kids[n] |-> g[t.kids[n][i]]])

\* There is one digest of a node at most.
LEMMA DigestsAgree ==
  ASSUME NEW t, IsTree(t), NEW D \in SUBSET Ids(t), NEW E \in SUBSET Ids(t),
         NEW g, NEW h, Digests(t, D, g), Digests(t, E, h)
  PROVE  \A n \in D \cap E : g[n] = h[n]
<1> DEFINE S == {n \in D \cap E : g[n] # h[n]}
<1> SUFFICES ASSUME S # {} PROVE FALSE
  OBVIOUS
<1>1. PICK n \in S : \A i \in DOMAIN t.kids[n] : t.kids[n][i] \notin S
  BY Deepest
<1>2. \A i \in DOMAIN t.kids[n] : g[t.kids[n][i]] = h[t.kids[n][i]]
  BY <1>1 DEF Digests
<1>3. [i \in DOMAIN t.kids[n] |-> g[t.kids[n][i]]]
        = [i \in DOMAIN t.kids[n] |-> h[t.kids[n][i]]]
  BY <1>2
<1>4. n \in D /\ n \in E /\ g[n] # h[n]
  BY <1>1
<1>5. /\ g[n] = Digest(t.lab[n], [i \in DOMAIN t.kids[n] |-> g[t.kids[n][i]]])
      /\ h[n] = Digest(t.lab[n], [i \in DOMAIN t.kids[n] |-> h[t.kids[n][i]]])
  BY <1>4 DEF Digests
<1> QED
  BY <1>3, <1>4, <1>5

\* Add to the nodes that have digests a deepest one of the others: there is
\* a function of all of them.
LEMMA DigestsExist ==
  ASSUME NEW t, IsTree(t)
  PROVE  \E h : h = [n \in Ids(t) |->
                       Digest(t.lab[n], [i \in DOMAIN t.kids[n] |-> h[t.kids[n][i]]])]
<1> DEFINE Of(n, v) == \E D \in SUBSET Ids(t) : \E g :
                         Digests(t, D, g) /\ n \in D /\ v = g[n]
           K == {n \in Ids(t) : \E v : Of(n, v)}
           H == [n \in K |-> CHOOSE v : Of(n, v)]
<1>1. ASSUME NEW D \in SUBSET Ids(t), NEW g, Digests(t, D, g), NEW n \in D
      PROVE  n \in K /\ H[n] = g[n]
  <2>1. Of(n, g[n])
    BY <1>1
  <2>2. PICK E \in SUBSET Ids(t) :
               \E h : /\ Digests(t, E, h) /\ n \in E
                     /\ (CHOOSE v : Of(n, v)) = h[n]
    BY <2>1
  <2>3. PICK h : Digests(t, E, h) /\ n \in E /\ (CHOOSE v : Of(n, v)) = h[n]
    BY <2>2
  <2>4. n \in K /\ H[n] = h[n]
    BY <2>1, <2>3
  <2> QED
    BY <1>1, <2>3, <2>4, DigestsAgree
<1>2. Digests(t, K, H)
  <2> SUFFICES ASSUME NEW n \in K
               PROVE  /\ \A i \in DOMAIN t.kids[n] : t.kids[n][i] \in K
                      /\ H[n] = Digest(t.lab[n],
                                  [i \in DOMAIN t.kids[n] |-> H[t.kids[n][i]]])
    BY DEF Digests
  <2>1a. PICK D \in SUBSET Ids(t) : \E g : Digests(t, D, g) /\ n \in D
    OBVIOUS
  <2>1. PICK g : Digests(t, D, g) /\ n \in D
    BY <2>1a
  <2> HIDE DEF K, H
  <2>2. \A i \in DOMAIN t.kids[n] : t.kids[n][i] \in D
    BY <2>1 DEF Digests
  <2>3. \A m \in D : m \in K /\ H[m] = g[m]
    BY <1>1, <2>1
  <2>4. [i \in DOMAIN t.kids[n] |-> H[t.kids[n][i]]]
          = [i \in DOMAIN t.kids[n] |-> g[t.kids[n][i]]]
    BY <2>2, <2>3
  <2> QED
    BY <2>1, <2>2, <2>3, <2>4 DEF Digests
<1>3. K \subseteq Ids(t) /\ DOMAIN H = K
  OBVIOUS
<1> HIDE DEF K, H
<1>4. K = Ids(t)
  <2> SUFFICES ASSUME Ids(t) \ K # {} PROVE FALSE
    BY <1>3
  <2>1. PICK n \in Ids(t) \ K : \A i \in DOMAIN t.kids[n] : t.kids[n][i] \notin Ids(t) \ K
    BY Deepest
  <2>2. \A i \in DOMAIN t.kids[n] : t.kids[n][i] \in K
    BY <2>1, KidIsNode
  <2> DEFINE E == K \cup {n}
             d == Digest(t.lab[n], [i \in DOMAIN t.kids[n] |-> H[t.kids[n][i]]])
             g == [m \in E |-> IF m = n THEN d ELSE H[m]]
  <2>3. ASSUME NEW m \in E
        PROVE  /\ \A i \in DOMAIN t.kids[m] : t.kids[m][i] \in E
               /\ g[m] = Digest(t.lab[m], [i \in DOMAIN t.kids[m] |-> g[t.kids[m][i]]])
    <3>1. \A i \in DOMAIN t.kids[m] : t.kids[m][i] \in K
      BY <1>2, <2>2 DEF Digests
    <3>2. \A k \in K : g[k] = H[k]
      BY <2>1
    <3>3. g[m] = Digest(t.lab[m], [i \in DOMAIN t.kids[m] |-> H[t.kids[m][i]]])
      <4>1. CASE m = n
        BY <4>1
      <4>2. CASE m # n
        BY <4>2, <1>2 DEF Digests
      <4> QED
        BY <4>1, <4>2
    <3> HIDE DEF g
    <3>4. [i \in DOMAIN t.kids[m] |-> g[t.kids[m][i]]]
            = [i \in DOMAIN t.kids[m] |-> H[t.kids[m][i]]]
      BY <3>1, <3>2
    <3> QED
      BY <3>1, <3>3, <3>4
  <2> HIDE DEF g
  <2>4. Digests(t, E, g) /\ E \in SUBSET Ids(t) /\ n \in E
    BY <1>3, <2>3 DEF Digests
  <2> HIDE DEF E
  <2>5. n \in K
    BY <1>1, <2>4
  <2> QED
    BY <2>1, <2>5
<1>5. \A n \in Ids(t) :
        H[n] = Digest(t.lab[n], [i \in DOMAIN t.kids[n] |-> H[t.kids[n][i]]])
  BY <1>2, <1>4 DEF Digests
<1>6. H = [n \in Ids(t) |->
             Digest(t.lab[n], [i \in DOMAIN t.kids[n] |-> H[t.kids[n][i]]])]
  <2>1. H = [n \in K |-> H[n]]
    BY DEF H
  <2> QED
    BY <1>3, <1>4, <1>5, <2>1
<1> QED
  BY <1>6

\* assign_sigs() gives each node the digest of what it holds.
LEMMA SigUnfold ==
  ASSUME NEW t, IsTree(t), NEW n \in Ids(t)
  PROVE  SigOf(t)[n] = Digest(t.lab[n], [i \in DOMAIN t.kids[n] |-> SigOf(t)[t.kids[n][i]]])
<1> DEFINE sig == CHOOSE h : h = [m \in Ids(t) |->
                     Digest(t.lab[m], [i \in DOMAIN t.kids[m] |-> h[t.kids[m][i]]])]
<1>1. SigOf(t) = [m \in Ids(t) |-> sig[m]]
  BY DEF SigOf
<1>2. sig = [m \in Ids(t) |->
               Digest(t.lab[m], [i \in DOMAIN t.kids[m] |-> sig[t.kids[m][i]]])]
  BY DigestsExist
<1> HIDE DEF sig
<1>3. SigOf(t) = sig
  BY <1>1, <1>2
<1> QED
  BY <1>2, <1>3

(***************************************************************************)
(* Nodes with one signature are of one type and have as many children, and *)
(* their children have one signature, pair by pair.                        *)
(***************************************************************************)
LEMMA SameSig ==
  ASSUME NEW t, IsTree(t), NEW n \in Ids(t), NEW u, IsTree(u), NEW o \in Ids(u),
         SigOf(t)[n] = SigOf(u)[o]
  PROVE  /\ Type(t, n) = Type(u, o)
         /\ Len(t.kids[n]) = Len(u.kids[o])
         /\ \A i \in DOMAIN t.kids[n] :
              SigOf(t)[t.kids[n][i]] = SigOf(u)[u.kids[o][i]]
<1> DEFINE a == [i \in DOMAIN t.kids[n] |-> SigOf(t)[t.kids[n][i]]]
           b == [i \in DOMAIN u.kids[o] |-> SigOf(u)[u.kids[o][i]]]
<1>1. Digest(t.lab[n], a) = Digest(u.lab[o], b)
  BY SigUnfold
<1> HIDE DEF a, b
<1>2. t.lab[n].type = u.lab[o].type /\ a = b
  BY <1>1 DEF Digest
<1>3. DOMAIN t.kids[n] = DOMAIN u.kids[o]
      /\ \A i \in DOMAIN t.kids[n] :
           SigOf(t)[t.kids[n][i]] = SigOf(u)[u.kids[o][i]]
  BY <1>2 DEF a, b
<1>4. t.kids[n] \in Seq(Ids(t)) /\ u.kids[o] \in Seq(Ids(u))
  BY DEF IsTree
<1> QED
  BY <1>2, <1>3, <1>4, LenProperties DEF Type

-------------------------------------------------------------------------------
(***************************************************************************)
(* The nodes of a sub-tree.  What is below a node is so because the sets   *)
(* that hold it and the children of what they hold have that in common.    *)
(***************************************************************************)
Reached(t, n) ==
  {m \in Ids(t) : \A S \in SUBSET Ids(t) :
     n \in S /\ (\A k \in S : \A i \in DOMAIN t.kids[k] : t.kids[k][i] \in S)
       => m \in S}

\* A node reaches itself and what its children reach.
LEMMA ReachedUnfold ==
  ASSUME NEW t, IsTree(t), NEW n \in Ids(t)
  PROVE  Reached(t, n) = {n} \cup UNION {Reached(t, t.kids[n][i]) : i \in DOMAIN t.kids[n]}
<1> DEFINE R == {n} \cup UNION {Reached(t, t.kids[n][i]) : i \in DOMAIN t.kids[n]}
<1>1. ASSUME NEW c \in Ids(t)
      PROVE  /\ c \in Reached(t, c)
             /\ \A k \in Reached(t, c) : \A i \in DOMAIN t.kids[k] : t.kids[k][i] \in Reached(t, c)
  <2>1. c \in Reached(t, c)
    BY DEF Reached
  <2>2. ASSUME NEW k \in Reached(t, c), NEW i \in DOMAIN t.kids[k]
        PROVE  t.kids[k][i] \in Reached(t, c)
    <3>1. k \in Ids(t) /\ t.kids[k][i] \in Ids(t)
      BY KidIsNode DEF Reached
    <3>2. ASSUME NEW S \in SUBSET Ids(t), c \in S,
                 \A m \in S : \A j \in DOMAIN t.kids[m] : t.kids[m][j] \in S
          PROVE  t.kids[k][i] \in S
      BY <3>2 DEF Reached
    <3> QED
      BY <3>1, <3>2 DEF Reached
  <2> QED
    BY <2>1, <2>2
<1>2. Reached(t, n) \subseteq R
  <2>1. R \in SUBSET Ids(t) /\ n \in R
    BY DEF Reached
  <2>2. ASSUME NEW k \in R, NEW i \in DOMAIN t.kids[k] PROVE t.kids[k][i] \in R
    <3>1. CASE k = n
      <4>1. t.kids[n][i] \in Reached(t, t.kids[n][i])
        BY <1>1, <2>2, <3>1, KidIsNode
      <4> QED
        BY <2>2, <3>1, <4>1
    <3>2. CASE k # n
      <4>1. PICK j \in DOMAIN t.kids[n] : k \in Reached(t, t.kids[n][j])
        BY <2>2, <3>2
      <4>2. t.kids[k][i] \in Reached(t, t.kids[n][j])
        BY <1>1, <2>2, <4>1, KidIsNode
      <4> QED
        BY <4>1, <4>2
    <3> QED
      BY <3>1, <3>2
  <2> HIDE DEF R
  <2> QED
    BY <2>1, <2>2 DEF Reached
<1>3. ASSUME NEW i \in DOMAIN t.kids[n]
      PROVE  Reached(t, t.kids[n][i]) \subseteq Reached(t, n)
  <2>1. t.kids[n][i] \in Reached(t, n)
    BY <1>1
  <2> DEFINE c == t.kids[n][i]
             U == Reached(t, n)
  <2>2. U \in SUBSET Ids(t) /\ c \in U
        /\ \A k \in U : \A j \in DOMAIN t.kids[k] : t.kids[k][j] \in U
    BY <1>1, <2>1 DEF Reached
  <2> HIDE DEF c, U
  <2>3. Reached(t, c) \subseteq U
    BY <2>2 DEF Reached
  <2> QED
    BY <2>3 DEF c, U
<1>4. n \in Reached(t, n)
  BY <1>1
<1> QED
  BY <1>2, <1>3, <1>4

\* What a node reaches solves the equations: below a node are it and what is
\* below its children.
LEMMA BelowUnfold ==
  ASSUME NEW t, IsTree(t), NEW n \in Ids(t)
  PROVE  Below(t)[n] = {n} \cup UNION {Below(t)[t.kids[n][i]] : i \in DOMAIN t.kids[n]}
<1> DEFINE below == CHOOSE f : f = [m \in Ids(t) |->
                      {m} \cup UNION {f[t.kids[m][i]] : i \in DOMAIN t.kids[m]}]
           F == [m \in Ids(t) |-> Reached(t, m)]
<1>1. Below(t) = [m \in Ids(t) |-> below[m]]
  BY DEF Below
<1>2. ASSUME NEW m \in Ids(t)
      PROVE  F[m] = {m} \cup UNION {F[t.kids[m][i]] : i \in DOMAIN t.kids[m]}
  <2>1. \A i \in DOMAIN t.kids[m] : F[t.kids[m][i]] = Reached(t, t.kids[m][i])
    BY KidIsNode
  <2>2. {F[t.kids[m][i]] : i \in DOMAIN t.kids[m]}
          = {Reached(t, t.kids[m][i]) : i \in DOMAIN t.kids[m]}
    BY <2>1
  <2>3. F[m] = Reached(t, m)
    OBVIOUS
  <2> HIDE DEF F
  <2> QED
    BY <2>2, <2>3, ReachedUnfold
<1>3. F = [m \in Ids(t) |-> {m} \cup UNION {F[t.kids[m][i]] : i \in DOMAIN t.kids[m]}]
  <2> DEFINE G(m) == {m} \cup UNION {F[t.kids[m][i]] : i \in DOMAIN t.kids[m]}
  <2>1. \A m \in Ids(t) : F[m] = G(m)
    BY <1>2
  <2>2. F = [m \in Ids(t) |-> F[m]]
    OBVIOUS
  <2> HIDE DEF F
  <2>3. F = [m \in Ids(t) |-> G(m)]
    <3> HIDE DEF G
    <3> QED
      BY <2>1, <2>2
  <2> QED
    BY <2>3
<1> HIDE DEF F
<1>4. below = [m \in Ids(t) |->
                 {m} \cup UNION {below[t.kids[m][i]] : i \in DOMAIN t.kids[m]}]
  BY <1>3
<1> HIDE DEF below
<1> DEFINE G(m) == {m} \cup UNION {below[t.kids[m][i]] : i \in DOMAIN t.kids[m]}
<1>5. below = [m \in Ids(t) |-> G(m)]
  BY <1>4
<1>6. below[n] = G(n) /\ Below(t) = below
  <2> HIDE DEF G
  <2> QED
    BY <1>1, <1>5
<1> QED
  BY <1>6

(***************************************************************************)
(* A sub-tree has its root and the children of what it has; above what is  *)
(* not its root it goes on, and a child's sub-tree is a part of it.        *)
(***************************************************************************)
LEMMA BelowClosed ==
  ASSUME NEW t, IsTree(t), NEW n \in Ids(t)
  PROVE  /\ Below(t)[n] \subseteq Ids(t)
         /\ n \in Below(t)[n]
         /\ \A m \in Below(t)[n] : \A i \in DOMAIN t.kids[m] :
              t.kids[m][i] \in Below(t)[n]
         /\ \A m \in Below(t)[n] \ {n} : t.par[m] \in Below(t)[n]
         /\ \A i \in DOMAIN t.kids[n] : Below(t)[t.kids[n][i]] \subseteq Below(t)[n]
<1> DEFINE B == Below(t)
           Good(x) == /\ B[x] \subseteq Ids(t)
                      /\ \A m \in B[x] : \A i \in DOMAIN t.kids[m] : t.kids[m][i] \in B[x]
                      /\ \A m \in B[x] \ {x} : t.par[m] \in B[x]
           S == {x \in Ids(t) : ~Good(x)}
<1>1. \A x \in Ids(t) : B[x] = {x} \cup UNION {B[t.kids[x][i]] : i \in DOMAIN t.kids[x]}
  BY BelowUnfold
<1> HIDE DEF B
<1>2. S = {}
  <2> SUFFICES ASSUME S # {} PROVE FALSE
    OBVIOUS
  <2>1. PICK x \in S : \A i \in DOMAIN t.kids[x] : t.kids[x][i] \notin S
    BY Deepest
  <2>2. \A i \in DOMAIN t.kids[x] :
          LET c == t.kids[x][i] IN c \in Ids(t) /\ t.par[c] = x /\ c \in B[c] /\ Good(c)
    BY <1>1, <2>1, KidIsNode
  <2>3. x \in B[x] /\ \A i \in DOMAIN t.kids[x] : B[t.kids[x][i]] \subseteq B[x]
    BY <1>1, <2>1
  <2>4. ASSUME NEW m \in B[x], m # x
        PROVE  \E i \in DOMAIN t.kids[x] : m \in B[t.kids[x][i]]
    BY <1>1, <2>1, <2>4
  <2>5. B[x] \subseteq Ids(t)
    BY <2>1, <2>2, <2>4
  <2>6. ASSUME NEW m \in B[x], NEW j \in DOMAIN t.kids[m] PROVE t.kids[m][j] \in B[x]
    <3>1. CASE m = x
      BY <2>2, <2>3, <2>6, <3>1
    <3>2. CASE m # x
      <4>1. PICK i \in DOMAIN t.kids[x] : m \in B[t.kids[x][i]]
        BY <2>4, <3>2
      <4>2. t.kids[m][j] \in B[t.kids[x][i]]
        BY <2>2, <2>6, <4>1
      <4> QED
        BY <2>3, <4>2
    <3> QED
      BY <3>1, <3>2
  <2>7. ASSUME NEW m \in B[x], m # x PROVE t.par[m] \in B[x]
    <3>1. PICK i \in DOMAIN t.kids[x] : m \in B[t.kids[x][i]]
      BY <2>4, <2>7
    <3>2. CASE m = t.kids[x][i]
      BY <2>2, <2>3, <3>2
    <3>3. CASE m # t.kids[x][i]
      <4>1. t.par[m] \in B[t.kids[x][i]]
        BY <2>2, <3>1, <3>3
      <4> QED
        BY <2>3, <4>1
    <3> QED
      BY <3>2, <3>3
  <2>8. Good(x)
    BY <2>5, <2>6, <2>7
  <2> HIDE DEF Good
  <2> QED
    BY <2>1, <2>8
<1>3. Good(n)
  BY <1>2
<1> QED
  BY <1>1, <1>3 DEF B

\* No node is in the sub-tree of one of its children.
LEMMA NotBelowKid ==
  ASSUME NEW t, IsTree(t), NEW n \in Ids(t), NEW i \in DOMAIN t.kids[n]
  PROVE  n \notin Below(t)[t.kids[n][i]]
<1> SUFFICES ASSUME n \in Below(t)[t.kids[n][i]] PROVE FALSE
  OBVIOUS
<1> DEFINE c == t.kids[n][i]
           S == {m \in Ids(t) : m \in Below(t)[c] /\ n \in Below(t)[m]}
<1>1. c \in S
  BY KidIsNode, BelowClosed
<1>2. PICK m \in S : \A j \in DOMAIN t.kids[m] : t.kids[m][j] \notin S
  BY <1>1, Deepest
<1>3. m \in Ids(t) /\ c \in Ids(t)
  BY <1>1, <1>2
<1>4. \A j \in DOMAIN t.kids[m] : t.kids[m][j] \in Below(t)[c] /\ t.kids[m][j] \in Ids(t)
  BY <1>2, <1>3, BelowClosed, KidIsNode
<1>5. CASE m = n
  BY <1>1, <1>2, <1>5
<1>6. CASE m # n
  <2>1. n \in Below(t)[m] /\ Below(t)[m] = {m} \cup UNION {Below(t)[t.kids[m][j]] : j \in DOMAIN t.kids[m]}
    BY <1>2, <1>3, BelowUnfold
  <2>2. PICK j \in DOMAIN t.kids[m] : n \in Below(t)[t.kids[m][j]]
    BY <1>6, <2>1
  <2> QED
    BY <1>2, <1>4, <2>2
<1> QED
  BY <1>5, <1>6

\* The sub-trees of two children of a node have nothing in common.
LEMMA SiblingsApart ==
  ASSUME NEW t, IsTree(t), NEW n \in Ids(t), NEW i \in DOMAIN t.kids[n],
         NEW j \in DOMAIN t.kids[n], i # j
  PROVE  Below(t)[t.kids[n][i]] \cap Below(t)[t.kids[n][j]] = {}
<1> DEFINE c == t.kids[n][i]
           d == t.kids[n][j]
<1>1. /\ c \in Ids(t) /\ d \in Ids(t) /\ t.par[c] = n /\ t.par[d] = n
      /\ n \notin Below(t)[c] /\ n \notin Below(t)[d]
  BY KidIsNode, NotBelowKid
<1>2. c # d
  BY DEF IsTree, KidsOnce
<1> HIDE DEF c, d
<1> SUFFICES ASSUME NEW x, x \in Below(t)[c], x \in Below(t)[d] PROVE FALSE
  BY DEF c, d
<1>3. \A m \in Below(t)[c] \cap Below(t)[d] :
        m # c /\ m # d /\ t.par[m] \in Below(t)[c] \cap Below(t)[d]
  <2> TAKE m \in Below(t)[c] \cap Below(t)[d]
  <2>1. m # c
    BY <1>1, <1>2, BelowClosed
  <2>2. m # d
    BY <1>1, <1>2, BelowClosed
  <2> QED
    BY <1>1, <2>1, <2>2, BelowClosed
<1> DEFINE S == {y \in Ids(t) : y \in Below(t)[c] /\ x \in Below(t)[y] /\ y \notin Below(t)[d]}
<1>4. c \in S
  BY <1>1, <1>3, BelowClosed
<1>5. PICK y \in S : \A k \in DOMAIN t.kids[y] : t.kids[y][k] \notin S
  BY <1>4, Deepest
<1>6. y \in Ids(t) /\ y \in Below(t)[c] /\ y \notin Below(t)[d] /\ y # x /\ x \in Below(t)[y]
  BY <1>5
<1>7. PICK k \in DOMAIN t.kids[y] : x \in Below(t)[t.kids[y][k]]
  BY <1>6, BelowUnfold
<1>8. t.kids[y][k] \in Below(t)[c] /\ t.kids[y][k] \in Ids(t) /\ t.par[t.kids[y][k]] = y
  BY <1>1, <1>6, BelowClosed, KidIsNode
<1>9. t.kids[y][k] \in Below(t)[d]
  BY <1>5, <1>7, <1>8
<1> QED
  BY <1>3, <1>6, <1>8, <1>9

-------------------------------------------------------------------------------
(***************************************************************************)
(* Who may match whom.                                                     *)
(***************************************************************************)
LEMMA PairOfSigs ==
  ASSUME TypeOK
  PROVE  /\ Sigs[pair[1]] = SigOf(old) /\ Sigs[pair[2]] = SigOf(new)
         /\ Belows[pair[2]] = Below(new)
BY DEF TypeOK, Sigs, Belows, old, new, Docs

\* Two nodes of one type are matched, of which the new one had no match.
Joined(n, o) ==
  /\ n \in Maps[pair[2]] /\ o \in Maps[pair[1]]
  /\ nm[n] = None /\ Type(new, n) = Type(old, o)
  /\ nm' = [nm EXCEPT ![n] = o] /\ om' = [om EXCEPT ![o] = n]

\* Every place but match_down() that makes a match makes one of this kind.
LEMMA JoinedUp ==
  ASSUME TypeOK, MatchUp
  PROVE  \E n, o : Joined(n, o) /\ om[o] = None
                   /\ n = new.par[climb.n] /\ n # None
<1> DEFINE n == new.par[climb.n]
           o == old.par[climb.o]
<1>1. n \in Maps[pair[2]] /\ o \in Maps[pair[1]] /\ n # None
  BY PairOfTrees, MappedParent DEF TypeOK, MatchUp, MayClimb
<1>2. Type(new, n) = Type(old, o) /\ nm[n] = None /\ om[o] = None
  BY DEF MatchUp, MayClimb, MatchEq, Type
<1> QED
  BY <1>1, <1>2 DEF MatchUp, Joined

\* match_roots(), and each of the optimisations, matches nodes of one type
\* that have no match, or nothing.
LEMMA JoinedRoots ==
  ASSUME TypeOK, MatchRoots
  PROVE  \/ UNCHANGED <<om, nm>>
         \/ Joined(Root, Root) /\ om[Root] = None
<1>1. Root \in Maps[pair[1]] /\ Root \in Maps[pair[2]]
  BY PairOfTrees, MappedClosed DEF TypeOK
<1> QED
  BY <1>1 DEF MatchRoots, Abort, Joined

\* Two headers are joined, if any nodes are.
LEMMA JoinedHeaders ==
  ASSUME TypeOK, MatchHeaders
  PROVE  \/ UNCHANGED <<om, nm>>
         \/ \E n, o : Joined(n, o) /\ IsHeader(new, n) /\ IsHeader(old, o)
<1> DEFINE n == Head(new.kids[Root])
           o == Head(old.kids[Root])
<1>1. /\ Root \in Mapped(new) /\ ~IsOpaque(new, Root)
      /\ Root \in Mapped(old) /\ ~IsOpaque(old, Root)
  BY PairOfTrees, MappedClosed DEF TypeOK, IsTree, IsOpaque
<1>2. /\ new.kids[Root] \in Seq(Maps[pair[2]])
      /\ old.kids[Root] \in Seq(Maps[pair[1]])
  BY <1>1, PairOfTrees, MappedKids DEF TypeOK
<1>3. HeadersLeft => n \in Maps[pair[2]] /\ o \in Maps[pair[1]]
  BY <1>2, HeadTailProperties DEF HeadersLeft
<1>4. HeadersLeft => Type(new, n) = Type(old, o) /\ nm[n] = None
                     /\ IsHeader(new, n) /\ IsHeader(old, o)
  BY DEF HeadersLeft, IsHeader
<1> QED
  BY <1>3, <1>4 DEF MatchHeaders, Joined

\* Children that are joined: an old one without a match.
LEMMA JoinedTopDown ==
  ASSUME TypeOK, TopDown
  PROVE  \/ UNCHANGED <<om, nm>>
         \/ \E n, o : Joined(n, o) /\ om[o] = None
<1> DEFINE m == Head(work)[1]
           i == Head(work)[2]
           n == NextSibling(new, new.kids[m][i])
           o == NextSibling(old, nm[new.kids[m][i]])
<1>1. m \in Maps[pair[2]] /\ i \in Nat \ {0}
  BY VisitHead DEF TopDown
<1>2. CASE ~Skipped(new, m) /\ nm[m] # None /\ i <= Len(new.kids[m])
           /\ Adjacent(m, i)
           /\ nm' = [nm EXCEPT ![n] = o] /\ om' = [om EXCEPT ![o] = n]
  <2>1. i \in DOMAIN new.kids[m]
    BY <1>1, <1>2, VisitIndex, ZenonT(30)
  <2>2. n \in Maps[pair[2]] /\ o \in Maps[pair[1]]
    BY <1>1, <1>2, <2>1, AdjacentMapped
  <2>3. Type(new, n) = Type(old, o) /\ nm[n] = None /\ om[o] = None
    BY <1>2 DEF Adjacent, MatchEq, Type
  <2> HIDE DEF n, o
  <2> QED
    BY <1>2, <2>2, <2>3 DEF Joined
<1> QED
  BY <1>2 DEF TopDown

\* Nodes that are joined, whatever match the old one had.
LEMMA JoinedBottomUp ==
  ASSUME TypeOK, BottomUp
  PROVE  \/ UNCHANGED <<om, nm>>
         \/ \E n, o : Joined(n, o)
<1> DEFINE n == Head(work)[1]
<1>1. n \in Maps[pair[2]]
  BY VisitHead DEF BottomUp
<1>2. ASSUME ~Skipped(new, n), NEW v \in Voters(n), Adopts(n, v),
             nm' = [nm EXCEPT ![n] = MatchParent(new.kids[n][v])],
             om' = [om EXCEPT ![MatchParent(new.kids[n][v])] = n]
      PROVE  \E o : Joined(n, o)
  <2> DEFINE o == MatchParent(new.kids[n][v])
  <2>1. o \in Maps[pair[1]] /\ nm[n] = None
    BY <1>1, <1>2, VoterMapped DEF Adopts
  <2>2. Type(new, n) = Type(old, o)
    BY <1>2 DEF Voters, MatchEq, Type
  <2> HIDE DEF n, o
  <2> QED
    BY <1>1, <1>2, <2>1, <2>2 DEF Joined, o
<1> HIDE DEF n
<1>3. \/ UNCHANGED <<om, nm>>
      \/ /\ ~Skipped(new, n)
         /\ \E v \in Voters(n) :
              /\ Adopts(n, v)
              /\ nm' = [nm EXCEPT ![n] = MatchParent(new.kids[n][v])]
              /\ om' = [om EXCEPT ![MatchParent(new.kids[n][v])] = n]
  BY DEF BottomUp, n
<1> QED
  BY <1>2, <1>3

\* The steps that may change who matches whom.
LEMMA OtherSteps ==
  ASSUME [Next]_vars
  PROVE  \/ MatchDown \/ MatchUp \/ MatchRoots \/ MatchHeaders \/ TopDown \/ BottomUp
         \/ UNCHANGED <<pair, om, nm>>
BY DEF Next, MatchNext, Matched, vars, Dequeue, Abort, Enqueue, EnqueueDone,
       MatchDownDone, MatchUpDone, TopDownDone, BottomUpDone

-------------------------------------------------------------------------------
(***************************************************************************)
(* The calls that match_down() has still to make are for pairs of mapped   *)
(* nodes that have one signature.                                          *)
(***************************************************************************)
PairsAlike ==
  phase = "down" =>
    \A k \in DOMAIN work :
      /\ work[k][2] \in Maps[pair[1]]
      /\ Sigs[pair[2]][work[k][1]] = Sigs[pair[1]][work[k][2]]

\* The pair of the next call.
LEMMA NextPair ==
  ASSUME TypeOK, PairsAlike, phase = "down", work # <<>>
  PROVE  LET n == Head(work)[1]
             o == Head(work)[2]
         IN  /\ n \in Maps[pair[2]] /\ n \in Ids(new)
             /\ o \in Maps[pair[1]] /\ o \in Ids(old)
             /\ Type(new, n) = Type(old, o)
             /\ Len(new.kids[n]) = Len(old.kids[o])
             /\ \A i \in DOMAIN new.kids[n] :
                  Sigs[pair[2]][new.kids[n][i]] = Sigs[pair[1]][old.kids[o][i]]
<1> DEFINE n == Head(work)[1]
           o == Head(work)[2]
<1>1. work \in Seq(Maps[pair[2]] \X Ids(old))
  BY DEF TypeOK
<1>2. Head(work) = work[1] /\ 1 \in DOMAIN work /\ Head(work) \in Maps[pair[2]] \X Ids(old)
  BY <1>1, HeadTailProperties, EmptySeq, LenProperties
<1>3. o \in Maps[pair[1]] /\ Sigs[pair[2]][n] = Sigs[pair[1]][o]
  BY <1>2 DEF PairsAlike
<1>4. n \in Maps[pair[2]] /\ n \in Ids(new) /\ o \in Ids(old) /\ IsTree(new) /\ IsTree(old)
  BY <1>2, <1>3, PairOfTrees, MappedClosed DEF TypeOK
<1> HIDE DEF n, o
<1>5. SigOf(new)[n] = SigOf(old)[o]
  BY <1>3, PairOfSigs
<1>6. /\ Type(new, n) = Type(old, o) /\ Len(new.kids[n]) = Len(old.kids[o])
      /\ \A i \in DOMAIN new.kids[n] :
           SigOf(new)[new.kids[n][i]] = SigOf(old)[old.kids[o][i]]
  BY <1>4, <1>5, SameSig
<1> QED
  BY <1>3, <1>4, <1>6, PairOfSigs DEF n, o

\* The calls for the children are put before the others.
LEMMA PutCalls ==
  ASSUME NEW T, NEW c \in Seq(T), NEW w \in Seq(T), w # <<>>,
         NEW v, v = c \o Tail(w)
  PROVE  /\ v \in Seq(T) /\ Len(v) = Len(c) + Len(w) - 1
         /\ \A k \in DOMAIN v :
              \/ k \in DOMAIN c /\ v[k] = c[k]
              \/ k \notin DOMAIN c /\ k - Len(c) + 1 \in DOMAIN w \ {1}
                 /\ v[k] = w[k - Len(c) + 1]
<1>1. /\ Tail(w) \in Seq(T) /\ Len(Tail(w)) = Len(w) - 1
      /\ \A i \in 1 .. Len(Tail(w)) : Tail(w)[i] = w[i + 1]
  BY HeadTailProperties
<1>2. /\ Len(c) \in Nat /\ DOMAIN c = 1 .. Len(c)
      /\ Len(w) \in Nat /\ DOMAIN w = 1 .. Len(w)
  BY LenProperties
<1>3. /\ v \in Seq(T) /\ Len(v) = Len(c) + Len(Tail(w))
      /\ \A k \in 1 .. Len(c) + Len(Tail(w)) :
           v[k] = IF k <= Len(c) THEN c[k] ELSE Tail(w)[k - Len(c)]
  BY <1>1, ConcatProperties
<1>4. DOMAIN v = 1 .. Len(v)
  BY <1>3, LenProperties
<1>5. ASSUME NEW k \in DOMAIN v
      PROVE  \/ k \in DOMAIN c /\ v[k] = c[k]
             \/ k \notin DOMAIN c /\ k - Len(c) + 1 \in DOMAIN w \ {1}
                /\ v[k] = w[k - Len(c) + 1]
  <2>1. CASE k <= Len(c)
    BY <1>1, <1>2, <1>3, <1>4, <2>1
  <2>2. CASE ~(k <= Len(c))
    <3>1. k \in Nat /\ k - Len(c) \in 1 .. Len(Tail(w))
      BY <1>1, <1>2, <1>3, <1>4, <2>2
    <3>2. v[k] = Tail(w)[k - Len(c)] /\ Tail(w)[k - Len(c)] = w[(k - Len(c)) + 1]
      BY <1>1, <1>2, <1>3, <1>4, <2>2, <3>1
    <3> QED
      BY <1>1, <1>2, <2>2, <3>1, <3>2
  <2> QED
    BY <2>1, <2>2
<1> QED
  BY <1>1, <1>2, <1>3, <1>5

-------------------------------------------------------------------------------
\* No step changes the documents.
LEMMA PairKept ==
  ASSUME [Next]_vars
  PROVE  pair' = pair /\ new' = new /\ old' = old
<1>1. pair' = pair
  BY DEF Next, MatchNext, Matched, vars, Dequeue, Enqueue, EnqueueDone,
     MatchDown, MatchDownDone, MatchUp, MatchUpDone, MatchRoots, MatchHeaders,
     TopDown, TopDownDone, BottomUp, BottomUpDone
<1> QED
  BY <1>1 DEF new, old

\* What a call of match_down() that does not abort does.
LEMMA DownStep ==
  ASSUME MatchDown, ~Abort
  PROVE  LET n == Head(work)[1]
             o == Head(work)[2]
         IN  /\ om' = [om EXCEPT ![o] = n]
             /\ nm' = [Freed(o) EXCEPT ![n] = o]
             /\ work' = (IF IsOpaque(new, n) THEN <<>>
                         ELSE [i \in DOMAIN new.kids[n] |->
                                 <<new.kids[n][i], old.kids[o][i]>>])
                        \o Tail(work)
             /\ phase = "down" /\ phase' = "down" /\ work # <<>>
             /\ UNCHANGED <<pair, optm, queue, climb>>
BY DEF MatchDown

(***************************************************************************)
(* The calls after it: those for the children of both nodes, in pairs, and *)
(* then the others.                                                        *)
(***************************************************************************)
Kidcalls(n, o) ==
  IF IsOpaque(new, n) THEN <<>>
  ELSE [i \in DOMAIN new.kids[n] |-> <<new.kids[n][i], old.kids[o][i]>>]

\* The calls match_down() adds are those of Kidcalls.
LEMMA KidcallsAre ==
  ASSUME TypeOK, PairsAlike, phase = "down", work # <<>>
  PROVE  LET n == Head(work)[1]
             o == Head(work)[2]
             c == Kidcalls(n, o)
         IN  /\ c \in Seq(Maps[pair[2]] \X Maps[pair[1]])
             /\ \A k \in DOMAIN c :
                  /\ k \in DOMAIN new.kids[n]
                  /\ c[k] = <<new.kids[n][k], old.kids[o][k]>>
                  /\ Sigs[pair[2]][c[k][1]] = Sigs[pair[1]][c[k][2]]
<1> DEFINE n == Head(work)[1]
           o == Head(work)[2]
           ns == new.kids[n]
           os == old.kids[o]
<1>1. /\ n \in Maps[pair[2]] /\ o \in Maps[pair[1]]
      /\ Type(new, n) = Type(old, o) /\ Len(ns) = Len(os)
      /\ \A i \in DOMAIN ns : Sigs[pair[2]][ns[i]] = Sigs[pair[1]][os[i]]
  BY NextPair
<1>2. IsOpaque(new, n) <=> IsOpaque(old, o)
  BY <1>1 DEF IsOpaque
<1>3. CASE IsOpaque(new, n)
  BY <1>3, EmptySeq DEF Kidcalls
<1>4. CASE ~IsOpaque(new, n)
  <2>1. ns \in Seq(Maps[pair[2]]) /\ os \in Seq(Maps[pair[1]])
    BY <1>1, <1>2, <1>4, PairOfTrees, MappedKids DEF TypeOK
  <2>2. Kidcalls(n, o) = [i \in DOMAIN ns |-> <<ns[i], os[i]>>]
    BY <1>4 DEF Kidcalls
  <2> HIDE DEF n, o, ns, os
  <2>3. /\ Len(ns) \in Nat /\ DOMAIN ns = 1 .. Len(ns) /\ DOMAIN os = 1 .. Len(ns)
        /\ \A i \in 1 .. Len(ns) : ns[i] \in Maps[pair[2]] /\ os[i] \in Maps[pair[1]]
    BY <1>1, <2>1, LenProperties, ElementOfSeq
  <2>4. [i \in DOMAIN ns |-> <<ns[i], os[i]>>] \in Seq(Maps[pair[2]] \X Maps[pair[1]])
    BY <2>3, SeqDef
  <2>5. \A k \in DOMAIN ns : Sigs[pair[2]][ns[k]] = Sigs[pair[1]][os[k]]
    BY <1>1 DEF n, o, ns, os
  <2> DEFINE c == [i \in DOMAIN ns |-> <<ns[i], os[i]>>]
  <2>6. \A k \in DOMAIN c :
          /\ k \in DOMAIN ns /\ c[k] = <<ns[k], os[k]>>
          /\ Sigs[pair[2]][c[k][1]] = Sigs[pair[1]][c[k][2]]
    BY <2>5
  <2>7. c \in Seq(Maps[pair[2]] \X Maps[pair[1]]) /\ Kidcalls(n, o) = c
    BY <2>2, <2>4
  <2> HIDE DEF c
  <2> DEFINE d == Kidcalls(n, o)
  <2>8. /\ d \in Seq(Maps[pair[2]] \X Maps[pair[1]])
        /\ \A k \in DOMAIN d :
             /\ k \in DOMAIN ns /\ d[k] = <<ns[k], os[k]>>
             /\ Sigs[pair[2]][d[k][1]] = Sigs[pair[1]][d[k][2]]
    BY <2>6, <2>7
  <2> QED
    BY <2>8 DEF n, o, ns, os
<1> QED
  BY <1>3, <1>4

\* Every step keeps what is to be paired alike.
LEMMA AlikeStep == TypeOK /\ PairsAlike /\ [Next]_vars => PairsAlike'
<1> SUFFICES ASSUME TypeOK, PairsAlike, [Next]_vars PROVE PairsAlike'
  OBVIOUS
<1> SUFFICES ASSUME phase' = "down"
             PROVE  \A k \in DOMAIN work' :
                      /\ work'[k][2] \in Maps[pair[1]]
                      /\ Sigs[pair[2]][work'[k][1]] = Sigs[pair[1]][work'[k][2]]
  BY PairKept DEF PairsAlike
<1>1. CASE phase = "down" /\ work' = work
  BY <1>1 DEF PairsAlike
<1>2. CASE Dequeue
  <2> DEFINE n == Head(queue)
  <2>1. PICK o \in Candidates(n) : work' = <<<<n, o>>>>
    BY <1>2 DEF Dequeue, Abort
  <2>2. o \in Maps[pair[1]] /\ Sigs[pair[1]][o] = Sigs[pair[2]][n]
    BY <2>1 DEF Candidates, TypeOK
  <2> HIDE DEF n
  <2> QED
    BY <2>1, <2>2
<1>3. CASE MatchDown
  <2> DEFINE n == Head(work)[1]
             o == Head(work)[2]
             c == Kidcalls(n, o)
             T == Maps[pair[2]] \X Ids(old)
  <2>1. ~Abort
    BY DEF Abort
  <2>2. phase = "down" /\ work # <<>> /\ work' = c \o Tail(work)
    BY <1>3, <2>1, DownStep DEF Kidcalls
  <2>3. /\ c \in Seq(Maps[pair[2]] \X Maps[pair[1]])
        /\ \A k \in DOMAIN c : Sigs[pair[2]][c[k][1]] = Sigs[pair[1]][c[k][2]]
    BY <2>2, KidcallsAre
  <2>4. work \in Seq(T) /\ Maps[pair[1]] \subseteq Ids(old)
    BY <2>2, PairOfTrees, MappedClosed DEF TypeOK
  <2> HIDE DEF c, T
  <2>5. /\ Len(c) \in Nat /\ DOMAIN c = 1 .. Len(c)
        /\ \A i \in 1 .. Len(c) : c[i] \in Maps[pair[2]] \X Maps[pair[1]]
    BY <2>3, LenProperties, ElementOfSeq
  <2>6. \A i \in 1 .. Len(c) : c[i] \in T
    BY <2>4, <2>5 DEF T
  <2>7. c = [i \in 1 .. Len(c) |-> c[i]]
    BY <2>3, LenProperties
  <2>8. c \in Seq(T)
    BY <2>5, <2>6, <2>7, SeqDef
  <2>9. \A k \in DOMAIN work' :
          \/ k \in DOMAIN c /\ work'[k] = c[k]
          \/ \E j \in DOMAIN work : work'[k] = work[j]
    BY <2>2, <2>4, <2>8, PutCalls
  <2>10. \A j \in DOMAIN work : work[j][2] \in Maps[pair[1]]
           /\ Sigs[pair[2]][work[j][1]] = Sigs[pair[1]][work[j][2]]
    BY <2>2 DEF PairsAlike
  <2>11. \A k \in DOMAIN c : c[k][2] \in Maps[pair[1]]
    BY <2>5
  <2> TAKE k \in DOMAIN work'
  <2> QED
    BY <2>3, <2>9, <2>10, <2>11
<1> QED
  BY <1>1, <1>2, <1>3
     DEF Next, MatchNext, Matched, vars, Abort, Enqueue, EnqueueDone,
         MatchDownDone, MatchUp, MatchUpDone, MatchRoots, MatchHeaders,
         TopDown, TopDownDone, BottomUp, BottomUpDone

\* What is to be paired always is.
LEMMA Alike == Spec => []PairsAlike
<1>1. Init => PairsAlike
  BY DEF Init, PairsAlike
<1> QED
  BY <1>1, AlikeStep, TypeCorrect, PTL DEF Spec

\* Two nodes become matched because their signatures or their types are the
\* same, and those of one signature have one type.
LEMMA AgreeStep ==
  TypeOK /\ PairsAlike /\ MatchesAgree /\ [Next]_vars => MatchesAgree'
<1> SUFFICES ASSUME TypeOK, PairsAlike, MatchesAgree, [Next]_vars
             PROVE  MatchesAgree'
  OBVIOUS
<1>1. /\ nm \in [Maps[pair[2]] -> Maps[pair[1]] \cup {None}]
      /\ \A m \in DOMAIN nm : nm[m] # None => Type(new, m) = Type(old, nm[m])
  BY DEF TypeOK, MatchesAgree
<1> SUFFICES ASSUME NEW m \in DOMAIN nm', nm'[m] # None
             PROVE  Type(new, m) = Type(old, nm'[m])
  BY PairKept DEF MatchesAgree, Type
<1>4. ASSUME NEW n, NEW o, Joined(n, o) PROVE Type(new, m) = Type(old, nm'[m])
  <2>1. /\ n \in Maps[pair[2]] /\ Type(new, n) = Type(old, o)
        /\ nm' = [nm EXCEPT ![n] = o]
    BY <1>4 DEF Joined
  <2> QED
    BY <1>1, <2>1
<1>5. CASE MatchDown
  <2>1. CASE Abort
    BY <1>1, <2>1 DEF Abort
  <2>2. CASE ~Abort
    <3> DEFINE n == Head(work)[1]
               o == Head(work)[2]
    <3>1. /\ nm' = [Freed(o) EXCEPT ![n] = o] /\ phase = "down" /\ work # <<>>
      BY <1>5, <2>2, DownStep
    <3>2. n \in Maps[pair[2]] /\ Type(new, n) = Type(old, o)
      BY <3>1, NextPair
    <3> HIDE DEF n, o
    <3>3. /\ Freed(o) \in [Maps[pair[2]] -> Maps[pair[1]] \cup {None}]
          /\ \A x \in DOMAIN nm : Freed(o)[x] \in {nm[x], None}
      BY <1>1 DEF Freed
    <3>4. m \in DOMAIN nm
      BY <1>1, <3>1, <3>3
    <3>5. CASE m = n
      BY <3>1, <3>2, <3>3, <3>5
    <3>6. CASE m # n
      <4>1. nm'[m] = Freed(o)[m]
        BY <3>1, <3>3, <3>6
      <4>2. nm'[m] = nm[m]
        BY <3>3, <3>4, <4>1
      <4> QED
        BY <1>1, <3>4, <4>2
    <3> QED
      BY <3>5, <3>6
  <2> QED
    BY <2>1, <2>2
<1>6. CASE UNCHANGED nm
  BY <1>1, <1>6
<1> QED
  BY <1>4, <1>5, <1>6, OtherSteps, JoinedUp, JoinedRoots, JoinedHeaders,
     JoinedTopDown, JoinedBottomUp

(***************************************************************************)
(* For all trees, matched nodes have the same type: those with the same    *)
(* signature all the way down, those matched by an ancestor's or a child's *)
(* match because match_eq() compares their types.                          *)
(***************************************************************************)
THEOREM MatchesAgreeCorrect == Spec => []MatchesAgree
<1>1. Init => MatchesAgree
  BY DEF Init, MatchesAgree
<1> QED
  BY <1>1, AgreeStep, Alike, TypeCorrect, PTL DEF Spec

-------------------------------------------------------------------------------
(***************************************************************************)
(* From both sides.                                                        *)
(***************************************************************************)
Pointing == \A n \in DOMAIN nm : nm[n] # None => om[nm[n]] = n

\* Two nodes without a match are matched.
LEMMA PointingPair ==
  ASSUME TypeOK, Pointing, NEW n, NEW o, Joined(n, o), om[o] = None
  PROVE  Pointing'
<1>1. /\ nm \in [Maps[pair[2]] -> Maps[pair[1]] \cup {None}]
      /\ om \in [Maps[pair[1]] -> Maps[pair[2]] \cup {None}]
      /\ n \in Maps[pair[2]] /\ o \in Maps[pair[1]]
      /\ nm' = [nm EXCEPT ![n] = o] /\ om' = [om EXCEPT ![o] = n]
  BY DEF TypeOK, Joined
<1> SUFFICES ASSUME NEW m \in DOMAIN nm, nm'[m] # None
             PROVE  om'[nm'[m]] = m
  BY <1>1 DEF Pointing
<1>2. CASE m = n
  BY <1>1, <1>2
<1>3. CASE m # n
  <2>1. nm'[m] = nm[m] /\ nm[m] \in Maps[pair[1]] /\ om[nm[m]] = m
    BY <1>1, <1>3 DEF Pointing
  <2>2. m # None
    BY <1>1, NoneNotMapped
  <2>3. nm[m] # o
    BY <2>1, <2>2
  <2> QED
    BY <1>1, <2>1, <2>3
<1> QED
  BY <1>2, <1>3

\* The old header's match could only be the new one.
LEMMA HeaderUnmatched ==
  ASSUME TypeOK, OldMatchSound, MatchesAgree,
         NEW n \in Maps[pair[2]], NEW o \in Maps[pair[1]], nm[n] = None,
         IsHeader(new, n), IsHeader(old, o)
  PROVE  om[o] = None
<1> SUFFICES ASSUME om[o] # None PROVE FALSE
  OBVIOUS
<1> DEFINE m == om[o]
<1>1. m \in Maps[pair[2]] /\ nm[m] = o /\ o # None
  <2>1. o \in DOMAIN om /\ m \in Maps[pair[2]] \cup {None}
    BY DEF TypeOK
  <2>2. nm[m] = o
    BY <2>1 DEF OldMatchSound
  <2> QED
    BY <2>1, <2>2, NoneNotMapped
<1>2. Type(new, m) = "DOC_HEADER"
  BY <1>1 DEF MatchesAgree, TypeOK, IsHeader
<1>3. HeaderFirst(new) /\ m \in Ids(new) /\ n \in Ids(new)
  <2>1. IsTree(new) /\ Maps[pair[2]] = Mapped(new)
    BY PairOfTrees DEF TypeOK
  <2>2. HeaderFirst(new)
    BY <2>1 DEF IsTree
  <2> HIDE DEF m
  <2> QED
    BY <1>1, <2>1, <2>2, MappedClosed
<1>4. m = n
  BY <1>2, <1>3 DEF HeaderFirst, IsHeader
<1> QED
  BY <1>1, <1>4

\* The old root's match could only be the new one, and the other way round.
LEMMA RootsMatchOnly ==
  ASSUME TypeOK, OldMatchSound, MatchesAgree
  PROVE  /\ nm[Root] \in {None, Root}
         /\ om[Root] # None => nm[Root] = Root
<1>1. /\ Root \in Maps[pair[1]] /\ Root \in Maps[pair[2]]
      /\ Type(old, Root) = "ROOT" /\ Type(new, Root) = "ROOT"
      /\ HeaderFirst(new) /\ HeaderFirst(old)
      /\ Maps[pair[1]] \subseteq Ids(old) /\ Maps[pair[2]] \subseteq Ids(new)
  <2>1. IsTree(old) /\ IsTree(new) /\ Maps[pair[1]] = Mapped(old)
        /\ Maps[pair[2]] = Mapped(new)
    BY PairOfTrees DEF TypeOK
  <2>2. \A t : IsTree(t) => HeaderFirst(t) /\ Type(t, Root) = "ROOT"
    BY DEF IsTree
  <2> QED
    BY <2>1, <2>2, MappedClosed
<1>2. ASSUME nm[Root] # None PROVE nm[Root] = Root
  <2>1. nm[Root] \in Ids(old) /\ Type(old, nm[Root]) = "ROOT"
    BY <1>1, <1>2 DEF TypeOK, MatchesAgree
  <2> QED
    BY <1>1, <2>1 DEF HeaderFirst
<1>3. ASSUME om[Root] # None PROVE nm[Root] = Root
  <2>1. om[Root] \in Maps[pair[2]] /\ nm[om[Root]] = Root /\ Root # None
    BY <1>1, <1>3 DEF TypeOK, OldMatchSound, Root, None
  <2>2. om[Root] \in Ids(new) /\ Type(new, om[Root]) = "ROOT"
    BY <1>1, <2>1 DEF TypeOK, MatchesAgree
  <2>3. om[Root] = Root
    BY <1>1, <2>2 DEF HeaderFirst
  <2> QED
    BY <2>1, <2>3
<1> QED
  BY <1>2, <1>3

\* Every step until the bottom-up optimisation keeps a new node with its match.
LEMMA NewSoundStep ==
  TypeOK /\ OldMatchSound /\ MatchesAgree /\ OneToOne /\ NewMatchSound /\ [Next]_vars
    => NewMatchSound'
<1> SUFFICES ASSUME TypeOK, OldMatchSound, MatchesAgree, OneToOne, NewMatchSound,
                    [Next]_vars, phase' \notin {"bottomup", "merge", "done"}
             PROVE  Pointing'
  BY DEF NewMatchSound, Pointing
<1>1. CASE phase' \in BySignature
  <2>1. OneToOne'
    BY OneToOneStep
  <2> QED
    BY <1>1, <2>1 DEF OneToOne, Pointing
<1>2. CASE MatchHeaders
  <2>1. Pointing
    BY <1>2 DEF MatchHeaders, OneToOne, BySignature, Pointing
  <2>2. CASE UNCHANGED <<om, nm>>
    BY <2>1, <2>2 DEF Pointing
  <2>3. ASSUME NEW n, NEW o, Joined(n, o), IsHeader(new, n), IsHeader(old, o)
        PROVE  Pointing'
    <3>1. om[o] = None
      BY <2>3, HeaderUnmatched DEF Joined
    <3> QED
      BY <2>1, <2>3, <3>1, PointingPair
  <2> QED
    BY <1>2, <2>2, <2>3, JoinedHeaders
<1>3. CASE TopDown
  <2>1. Pointing
    BY <1>3 DEF TopDown, NewMatchSound, Pointing
  <2>2. CASE UNCHANGED <<om, nm>>
    BY <2>1, <2>2 DEF Pointing
  <2> QED
    BY <1>3, <2>1, <2>2, JoinedTopDown, PointingPair
<1>4. CASE UNCHANGED vars
  BY <1>4 DEF vars, NewMatchSound, Pointing
<1>5. (Dequeue \/ Enqueue \/ EnqueueDone \/ MatchDown \/ MatchDownDone \/ MatchUp
         \/ MatchUpDone \/ MatchRoots)
        => phase' \in BySignature
  BY DEF Dequeue, Enqueue, EnqueueDone, MatchDown, MatchDownDone, MatchUp,
     MatchUpDone, MatchRoots, BySignature, Abort
<1>6. (TopDownDone \/ BottomUp \/ BottomUpDone) => phase' \in {"bottomup", "merge"}
  BY DEF TopDownDone, BottomUp, BottomUpDone
<1> QED
  BY <1>1, <1>2, <1>3, <1>4, <1>5, <1>6 DEF Next, MatchNext, Matched

(***************************************************************************)
(* For all trees, until the bottom-up optimisation no new node is left     *)
(* pointing at an old one that was given to another.  The old header has   *)
(* no match when the headers are matched although that is not looked at:   *)
(* its match would be of its type, and the first child of the new root.    *)
(***************************************************************************)
THEOREM NewMatchCorrect == Spec => []NewMatchSound
<1>1. Init => NewMatchSound
  BY DEF Init, NewMatchSound
<1> QED
  BY <1>1, NewSoundStep, TypeCorrect, OldMatchCorrect, MatchesAgreeCorrect,
     SignatureMatchOneToOne, PTL DEF Spec

-------------------------------------------------------------------------------
(***************************************************************************)
(* The queue, and the sub-trees of what waits in it.                       *)
(***************************************************************************)

\* pqueue() puts the node at one place; what was from there on moves on by one.
Inserted(r, q, n, p) ==
  /\ p \in 1 .. Len(q) + 1 /\ DOMAIN r = 1 .. Len(q) + 1
  /\ \A i \in 1 .. Len(q) + 1 :
       r[i] = IF i < p THEN q[i] ELSE IF i = p THEN n ELSE q[i - 1]

\* pqueue() moves what is behind the place of the node by one.
LEMMA PQueueInserts ==
  ASSUME NEW T, NEW q \in Seq(T), NEW n \in T
  PROVE  \E p : Inserted(PQueue(q, n), q, n, p)
<1> DEFINE p == Place(q, n)
           len == Len(q)
           a == SubSeq(q, 1, p - 1)
           c == SubSeq(q, p, len)
           ab == a \o <<n>>
<1>1. p \in 1 .. len + 1 /\ len \in Nat
  <2> DEFINE heavier == {i \in DOMAIN q : Weight(n) >= Weight(q[i])}
             stop == First(heavier, q)
             larger == {i \in DOMAIN q : stop <= i /\ n < q[i]}
  <2>1. stop \in 1 .. len + 1 /\ First(larger, q) \in 1 .. len + 1 /\ len \in Nat
    BY FirstIsPlace, LenProperties
  <2>2. Place(q, n) = stop \/ Place(q, n) = First(larger, q)
    BY DEF Place
  <2> QED
    BY <2>1, <2>2
<1>2. \A i \in 1 .. len : q[i] \in T
  BY ElementOfSeq
<1> HIDE DEF p, len
<1>3. /\ a \in Seq(T) /\ Len(a) = p - 1 /\ \A i \in 1 .. p - 1 : a[i] = q[i]
  <2>1. p - 1 \in Int /\ 1 \in Int /\ \A i \in 1 .. p - 1 : q[i] \in T
    BY <1>1, <1>2
  <2>2. /\ a \in Seq(T)
        /\ Len(a) = IF 1 <= p - 1 THEN (p - 1) - 1 + 1 ELSE 0
        /\ \A i \in 1 .. (p - 1) - 1 + 1 : a[i] = q[1 + i - 1]
    BY <2>1, SubSeqProperties
  <2>3. Len(a) = p - 1
    BY <1>1, <2>2
  <2>4. ASSUME NEW i \in 1 .. p - 1 PROVE a[i] = q[i]
    <3>1. i \in 1 .. (p - 1) - 1 + 1 /\ 1 + i - 1 = i
      BY <1>1
    <3> QED
      BY <2>2, <3>1
  <2> QED
    BY <2>2, <2>3, <2>4
<1>4. /\ c \in Seq(T) /\ Len(c) = len - p + 1
      /\ \A i \in 1 .. len - p + 1 : c[i] = q[p + i - 1]
  <2>1. p \in Int /\ len \in Int /\ \A i \in p .. len : q[i] \in T
    BY <1>1, <1>2
  <2>2. /\ c \in Seq(T)
        /\ Len(c) = IF p <= len THEN len - p + 1 ELSE 0
        /\ \A i \in 1 .. len - p + 1 : c[i] = q[p + i - 1]
    BY <2>1, SubSeqProperties
  <2> QED
    BY <1>1, <2>2
<1> HIDE DEF a, c
<1>5. <<n>> \in Seq(T) /\ Len(<<n>>) = 1 /\ <<n>>[1] = n
  OBVIOUS
<1>6. /\ ab \in Seq(T) /\ Len(ab) = p
      /\ \A i \in 1 .. p : ab[i] = IF i <= p - 1 THEN a[i] ELSE n
  <2>1. /\ ab \in Seq(T) /\ Len(ab) = Len(a) + 1
        /\ \A i \in 1 .. Len(a) + 1 :
             ab[i] = IF i <= Len(a) THEN a[i] ELSE <<n>>[i - Len(a)]
    BY <1>3, <1>5, ConcatProperties
  <2>2. Len(a) + 1 = p
    BY <1>1, <1>3
  <2>3. ASSUME NEW i \in 1 .. p PROVE ab[i] = IF i <= p - 1 THEN a[i] ELSE n
    <3>1. CASE i <= p - 1
      BY <1>1, <1>3, <2>1, <2>2, <3>1
    <3>2. CASE ~(i <= p - 1)
      <4>1. i = p /\ i - Len(a) = 1
        BY <1>1, <1>3, <3>2
      <4> QED
        BY <1>1, <1>3, <1>5, <2>1, <2>2, <3>2, <4>1
    <3> QED
      BY <3>1, <3>2
  <2> QED
    BY <2>1, <2>2, <2>3
<1> HIDE DEF ab
<1> DEFINE r == ab \o c
<1>7. /\ r \in Seq(T) /\ Len(r) = len + 1
      /\ \A i \in 1 .. len + 1 : r[i] = IF i <= p THEN ab[i] ELSE c[i - p]
  <2>1. /\ r \in Seq(T) /\ Len(r) = Len(ab) + Len(c)
        /\ \A i \in 1 .. Len(ab) + Len(c) :
             r[i] = IF i <= Len(ab) THEN ab[i] ELSE c[i - Len(ab)]
    BY <1>4, <1>6, ConcatProperties
  <2>2. Len(ab) + Len(c) = len + 1
    BY <1>1, <1>4, <1>6
  <2> QED
    BY <1>6, <2>1, <2>2
<1>8. PQueue(q, n) = r
  BY DEF PQueue, r, ab, a, c, p, len
<1> HIDE DEF r
<1>9. ASSUME NEW i \in 1 .. len + 1
      PROVE  r[i] = IF i < p THEN q[i] ELSE IF i = p THEN n ELSE q[i - 1]
  <2>1. CASE i < p
    <3>1. i \in 1 .. p - 1 /\ i <= p /\ i \in 1 .. p /\ i <= p - 1
      BY <1>1, <2>1
    <3> QED
      BY <1>3, <1>6, <1>7, <2>1, <3>1
  <2>2. CASE i = p
    <3>1. i \in 1 .. p /\ i <= p /\ ~(i <= p - 1) /\ ~(i < p)
      BY <1>1, <2>2
    <3> QED
      BY <1>6, <1>7, <2>2, <3>1
  <2>3. CASE i > p
    <3>1. i - p \in 1 .. len - p + 1 /\ p + (i - p) - 1 = i - 1 /\ ~(i <= p) /\ ~(i < p) /\ i # p
      BY <1>1, <2>3
    <3>2. c[i - p] = q[p + (i - p) - 1]
      BY <1>4, <3>1
    <3> QED
      BY <1>7, <3>1, <3>2
  <2> QED
    BY <1>1, <2>1, <2>2, <2>3
<1>10. DOMAIN r = 1 .. len + 1
  BY <1>7, LenProperties
<1> QED
  BY <1>1, <1>8, <1>9, <1>10 DEF Inserted, len

-------------------------------------------------------------------------------
(***************************************************************************)
(* The sub-trees B[n] of the nodes of a sequence are apart from each other *)
(* and from that of a node; in B[n] nothing is matched by f.               *)
(***************************************************************************)
Apart(B, s)    == \A i, j \in DOMAIN s : i # j => B[s[i]] \cap B[s[j]] = {}
Clear(B, s, n) == \A i \in DOMAIN s : B[s[i]] \cap B[n] = {}
Free(B, n, f)  == \A m \in B[n] \cap DOMAIN f : f[m] = None

\* Sub-trees apart stay so when one apart from them is put into the queue.
LEMMA InsertApart ==
  ASSUME NEW T, NEW q \in Seq(T), NEW n \in T, NEW B,
         Apart(B, q), Clear(B, q, n)
  PROVE  Apart(B, PQueue(q, n))
<1> DEFINE r == PQueue(q, n)
<1>1. PICK p : Inserted(r, q, n, p)
  BY PQueueInserts
<1>2. Len(q) \in Nat /\ DOMAIN q = 1 .. Len(q)
  BY LenProperties
<1> HIDE DEF r
<1>3. /\ p \in 1 .. Len(q) + 1 /\ DOMAIN r = 1 .. Len(q) + 1
      /\ \A i \in 1 .. Len(q) + 1 :
           \/ i < p /\ i \in DOMAIN q /\ r[i] = q[i]
           \/ i = p /\ r[i] = n
           \/ i > p /\ i - 1 \in DOMAIN q /\ r[i] = q[i - 1]
  BY <1>1, <1>2 DEF Inserted
<1> SUFFICES ASSUME NEW i \in DOMAIN r, NEW j \in DOMAIN r, i # j
             PROVE  B[r[i]] \cap B[r[j]] = {}
  BY DEF Apart, r
<1>4. /\ i \in Nat /\ j \in Nat /\ p \in Nat
      /\ \A k, l \in DOMAIN q : k # l => B[q[k]] \cap B[q[l]] = {}
      /\ \A k \in DOMAIN q : B[q[k]] \cap B[n] = {}
  BY <1>2, <1>3 DEF Apart, Clear
<1>5. CASE i = p
  BY <1>3, <1>4, <1>5
<1>6. CASE j = p
  BY <1>3, <1>4, <1>6
<1>7. CASE i # p /\ j # p
  <2>1. PICK k \in DOMAIN q : r[i] = q[k] /\ k = IF i < p THEN i ELSE i - 1
    BY <1>3, <1>4, <1>7
  <2>2. PICK l \in DOMAIN q : r[j] = q[l] /\ l = IF j < p THEN j ELSE j - 1
    BY <1>3, <1>4, <1>7
  <2>3. k # l
    BY <1>4, <1>7, <2>1, <2>2
  <2> QED
    BY <1>4, <2>1, <2>2, <2>3
<1> QED
  BY <1>5, <1>6, <1>7

\* pqueue() adds its node and no other.
LEMMA InsertMembers ==
  ASSUME NEW T, NEW q \in Seq(T), NEW n \in T
  PROVE  \A i \in DOMAIN PQueue(q, n) :
           PQueue(q, n)[i] = n \/ \E j \in DOMAIN q : PQueue(q, n)[i] = q[j]
<1>1. PICK p : Inserted(PQueue(q, n), q, n, p)
  BY PQueueInserts
<1>2. Len(q) \in Nat /\ DOMAIN q = 1 .. Len(q)
  BY LenProperties
<1> TAKE i \in DOMAIN PQueue(q, n)
<1>3. i \in 1 .. Len(q) + 1 /\ p \in 1 .. Len(q) + 1
      /\ PQueue(q, n)[i] = IF i < p THEN q[i] ELSE IF i = p THEN n ELSE q[i - 1]
  BY <1>1 DEF Inserted
<1>4. CASE i < p
  BY <1>2, <1>3, <1>4
<1>5. CASE i = p
  BY <1>2, <1>3, <1>5
<1>6. CASE i > p
  <2>1. i - 1 \in DOMAIN q
    BY <1>2, <1>3, <1>6
  <2> QED
    BY <1>2, <1>3, <1>6, <2>1
<1> QED
  BY <1>2, <1>3, <1>4, <1>5, <1>6

\* The tail of a queue: what comes after the head.
LEMMA TailMembers ==
  ASSUME NEW T, NEW q \in Seq(T), q # <<>>
  PROVE  /\ 1 \in DOMAIN q /\ Head(q) = q[1] /\ Head(q) \in T /\ Tail(q) \in Seq(T)
         /\ \A i \in DOMAIN Tail(q) : i \in Nat /\ i + 1 \in DOMAIN q /\ i + 1 # 1
                                      /\ Tail(q)[i] = q[i + 1]
<1>1. /\ Head(q) \in T /\ Tail(q) \in Seq(T) /\ Len(Tail(q)) = Len(q) - 1
      /\ Head(q) = q[1]
      /\ \A i \in 1 .. Len(Tail(q)) : Tail(q)[i] = q[i + 1]
  BY HeadTailProperties
<1>2. /\ Len(q) \in Nat /\ Len(q) # 0 /\ DOMAIN q = 1 .. Len(q)
      /\ DOMAIN Tail(q) = 1 .. Len(Tail(q))
  BY <1>1, LenProperties, EmptySeq
<1> QED
  BY <1>1, <1>2

\* The sub-trees of the children of a node are parts of its own, and apart.
LEMMA KidsApart ==
  ASSUME NEW t, IsTree(t), NEW n \in Ids(t)
  PROVE  /\ Apart(Below(t), t.kids[n])
         /\ \A i \in DOMAIN t.kids[n] : Below(t)[t.kids[n][i]] \subseteq Below(t)[n]
         /\ \A i \in DOMAIN t.kids[n] : n \notin Below(t)[t.kids[n][i]]
BY SiblingsApart, BelowClosed, NotBelowKid DEF Apart

-------------------------------------------------------------------------------
(***************************************************************************)
(* What waits, and what is still to be put into the queue or to be matched *)
(* by match_down(), are sub-trees apart from each other in which nothing   *)
(* is matched, and match_up() climbs outside of what waits.                *)
(***************************************************************************)
Waiting(B) ==
  /\ Apart(B, queue)
  /\ \A i \in DOMAIN queue : Free(B, queue[i], nm) /\ Free(B, queue[i], optm)

Entering(B) ==
  /\ Apart(B, work)
  /\ \A k \in DOMAIN work : /\ Clear(B, queue, work[k])
                            /\ Free(B, work[k], nm) /\ Free(B, work[k], optm)

Descending(B) ==
  /\ \A k, l \in DOMAIN work : k # l => B[work[k][1]] \cap B[work[l][1]] = {}
  /\ \A k \in DOMAIN work : /\ Clear(B, queue, work[k][1])
                            /\ Free(B, work[k][1], nm)

Climbing(B) == \A i \in DOMAIN queue : climb.n \notin B[queue[i]]

QueueApart ==
  /\ Waiting(Belows[pair[2]])
  /\ phase = "enqueue" => Entering(Belows[pair[2]])
  /\ phase = "down" => Descending(Belows[pair[2]])
  /\ phase \in {"down", "up"} => Climbing(Belows[pair[2]])
  /\ phase \in {"roots", "topdown", "bottomup", "merge"} => queue = <<>>

\* The operators on sequences say the same of the values after a step.
LEMMA ApartKept ==
  ASSUME pair' = pair, NEW B, B = Belows[pair[2]],
         Apart(B, queue'),
         \A i \in DOMAIN queue' : Free(B, queue'[i], nm') /\ Free(B, queue'[i], optm'),
         phase' = "enqueue" =>
           /\ Apart(B, work')
           /\ \A k \in DOMAIN work' :
                /\ Clear(B, queue', work'[k])
                /\ Free(B, work'[k], nm') /\ Free(B, work'[k], optm'),
         phase' = "down" =>
           /\ \A k, l \in DOMAIN work' : k # l => B[work'[k][1]] \cap B[work'[l][1]] = {}
           /\ \A k \in DOMAIN work' :
                Clear(B, queue', work'[k][1]) /\ Free(B, work'[k][1], nm'),
         phase' \in {"down", "up"} => \A i \in DOMAIN queue' : climb'.n \notin B[queue'[i]],
         phase' \in {"roots", "topdown", "bottomup", "merge"} => queue' = <<>>
  PROVE  QueueApart'
BY DEF QueueApart, Waiting, Entering, Descending, Climbing, Apart, Clear, Free

\* What is taken off the queue is apart from what stays.
LEMMA ApartDequeue == TypeOK /\ QueueApart /\ Dequeue => QueueApart'
<1> SUFFICES ASSUME TypeOK, QueueApart, Dequeue PROVE QueueApart'
  OBVIOUS
<1> DEFINE n == Head(queue)
           q == Tail(queue)
           T == Maps[pair[2]]
<1>1. PICK B : B = Belows[pair[2]]
  OBVIOUS
<1>2. /\ Apart(B, queue) /\ pair' = pair
      /\ \A i \in DOMAIN queue : Free(B, queue[i], nm) /\ Free(B, queue[i], optm)
  BY <1>1 DEF QueueApart, Waiting, Dequeue
<1>3. CASE Abort
  BY <1>1, <1>2, <1>3, ApartKept DEF Abort
<1>4. CASE ~Abort
  <2>1. queue \in Seq(T) /\ queue # <<>> /\ IsTree(new) /\ T \subseteq Ids(new)
    BY PairOfTrees, MappedClosed DEF TypeOK, Dequeue
  <2>2. /\ 1 \in DOMAIN queue /\ n = queue[1] /\ n \in T /\ q \in Seq(T)
        /\ \A i \in DOMAIN q : i \in Nat /\ i + 1 \in DOMAIN queue /\ i + 1 # 1
                               /\ q[i] = queue[i + 1]
    BY <2>1, TailMembers
  <2>3. B = Below(new)
    BY <1>1, PairOfSigs
  <2> HIDE DEF n, q, T
  <2>4. Apart(B, q)
    <3> SUFFICES ASSUME NEW i \in DOMAIN q, NEW j \in DOMAIN q, i # j
                 PROVE  B[q[i]] \cap B[q[j]] = {}
      BY DEF Apart
    <3>1. i + 1 # j + 1
      BY <2>2
    <3> QED
      BY <1>2, <2>2, <3>1 DEF Apart
  <2>5. Clear(B, q, n)
    BY <1>2, <2>2 DEF Apart, Clear
  <2>6. \A i \in DOMAIN q : Free(B, q[i], nm) /\ Free(B, q[i], optm)
    BY <1>2, <2>2
  <2>7. Free(B, n, nm) /\ Free(B, n, optm)
    BY <1>2, <2>2
  <2>8. n \in Ids(new) /\ n \in B[n]
    BY <2>1, <2>2, <2>3, BelowClosed
  <2>9. CASE /\ queue' = q
             /\ work' = IF IsOpaque(new, n) THEN <<>> ELSE new.kids[n]
             /\ phase' = "enqueue" /\ UNCHANGED <<nm, optm>>
    <3>1. /\ Apart(B, new.kids[n])
          /\ \A i \in DOMAIN new.kids[n] : B[new.kids[n][i]] \subseteq B[n]
      BY <2>1, <2>3, <2>8, KidsApart
    <3>2. Apart(B, work') /\ \A k \in DOMAIN work' : B[work'[k]] \subseteq B[n]
      <4>1. CASE IsOpaque(new, n)
        BY <2>9, <4>1 DEF Apart
      <4>2. CASE ~IsOpaque(new, n)
        BY <2>9, <4>2, <3>1
      <4> QED
        BY <4>1, <4>2
    <3>3. \A k \in DOMAIN work' :
            Clear(B, q, work'[k]) /\ Free(B, work'[k], nm) /\ Free(B, work'[k], optm)
      BY <2>5, <2>7, <3>2 DEF Clear, Free
    <3> QED
      BY <1>1, <1>2, <2>4, <2>6, <2>9, <3>2, <3>3, ApartKept
  <2>10. ASSUME NEW o, optm' = [optm EXCEPT ![n] = o], work' = <<<<n, o>>>>,
                climb'.n = n, queue' = q, phase' = "down", nm' = nm
         PROVE  QueueApart'
    <3>1. /\ DOMAIN work' = {1} /\ work'[1][1] = n
      BY <2>10
    <3>2. \A i \in DOMAIN q : n \notin B[q[i]]
      BY <2>5, <2>8 DEF Clear
    <3>3. \A i \in DOMAIN q : Free(B, q[i], optm')
      BY <2>6, <2>10, <3>2 DEF Free
    <3> QED
      BY <1>1, <1>2, <2>4, <2>5, <2>6, <2>7, <2>10, <3>1, <3>2, <3>3, ApartKept
  <2>11. \/ /\ queue' = q
            /\ work' = IF IsOpaque(new, n) THEN <<>> ELSE new.kids[n]
            /\ phase' = "enqueue" /\ UNCHANGED <<nm, optm>>
         \/ \E o : /\ optm' = [optm EXCEPT ![n] = o] /\ work' = <<<<n, o>>>>
                   /\ climb'.n = n /\ queue' = q /\ phase' = "down" /\ nm' = nm
    BY <1>4 DEF Dequeue, n, q
  <2> QED
    BY <2>9, <2>10, <2>11
<1> QED
  BY <1>3, <1>4

\* Children that are entered are apart from what waits.
LEMMA ApartEnqueue == TypeOK /\ QueueApart /\ Enqueue => QueueApart'
<1> SUFFICES ASSUME TypeOK, QueueApart, Enqueue PROVE QueueApart'
  OBVIOUS
<1> DEFINE n == Head(work)
           q == PQueue(queue, n)
           w == Tail(work)
           T == Maps[pair[2]]
<1>1. PICK B : B = Belows[pair[2]]
  OBVIOUS
<1>2. /\ phase = "enqueue" /\ phase' = phase /\ queue' = q /\ work' = w
      /\ UNCHANGED <<pair, nm, optm>>
      /\ queue \in Seq(T) /\ work \in Seq(T) /\ work # <<>>
  BY DEF Enqueue, TypeOK
<1>3. /\ Apart(B, queue) /\ Apart(B, work)
      /\ \A i \in DOMAIN queue : Free(B, queue[i], nm) /\ Free(B, queue[i], optm)
      /\ \A k \in DOMAIN work :
           Clear(B, queue, work[k]) /\ Free(B, work[k], nm) /\ Free(B, work[k], optm)
  BY <1>1, <1>2 DEF QueueApart, Waiting, Entering
<1>4. /\ 1 \in DOMAIN work /\ n = work[1] /\ n \in T
      /\ \A i \in DOMAIN w : i \in Nat /\ i + 1 \in DOMAIN work /\ i + 1 # 1
                             /\ w[i] = work[i + 1]
  BY <1>2, TailMembers
<1>5. Apart(B, q)
  BY <1>2, <1>3, <1>4, InsertApart
<1>6. \A i \in DOMAIN q : q[i] = n \/ \E j \in DOMAIN queue : q[i] = queue[j]
  BY <1>2, <1>4, InsertMembers
<1> HIDE DEF n, q, w
<1>7. \A i \in DOMAIN q : Free(B, q[i], nm) /\ Free(B, q[i], optm)
  BY <1>3, <1>4, <1>6
<1>8. Apart(B, w)
  <2> SUFFICES ASSUME NEW i \in DOMAIN w, NEW j \in DOMAIN w, i # j
               PROVE  B[w[i]] \cap B[w[j]] = {}
    BY DEF Apart
  <2>1. i + 1 # j + 1
    BY <1>4
  <2> QED
    BY <1>3, <1>4, <2>1 DEF Apart
<1>9. ASSUME NEW k \in DOMAIN w
      PROVE  Clear(B, q, w[k]) /\ Free(B, w[k], nm) /\ Free(B, w[k], optm)
  <2>1. Free(B, w[k], nm) /\ Free(B, w[k], optm) /\ Clear(B, queue, w[k])
    BY <1>3, <1>4
  <2>2. B[n] \cap B[w[k]] = {}
    BY <1>3, <1>4 DEF Apart
  <2> QED
    BY <1>6, <2>1, <2>2 DEF Clear
<1> QED
  BY <1>1, <1>2, <1>5, <1>7, <1>8, <1>9, ApartKept

\* match_down() goes on apart from what waits.
LEMMA ApartDown == TypeOK /\ PairsAlike /\ QueueApart /\ MatchDown => QueueApart'
<1> SUFFICES ASSUME TypeOK, PairsAlike, QueueApart, MatchDown PROVE QueueApart'
  OBVIOUS
<1> DEFINE n == Head(work)[1]
           o == Head(work)[2]
           c == Kidcalls(n, o)
           T == Maps[pair[2]] \X Ids(old)
<1>1. PICK B : B = Belows[pair[2]]
  OBVIOUS
<1>2. /\ Apart(B, queue) /\ pair' = pair /\ phase = "down" /\ work # <<>>
      /\ \A i \in DOMAIN queue : /\ Free(B, queue[i], nm) /\ Free(B, queue[i], optm)
                                 /\ climb.n \notin B[queue[i]]
      /\ \A k, l \in DOMAIN work : k # l => B[work[k][1]] \cap B[work[l][1]] = {}
      /\ \A k \in DOMAIN work : Clear(B, queue, work[k][1]) /\ Free(B, work[k][1], nm)
  BY <1>1 DEF QueueApart, Waiting, Descending, Climbing, MatchDown
<1>3. CASE Abort
  BY <1>1, <1>2, <1>3, ApartKept DEF Abort
<1>4. CASE ~Abort
  <2>1. /\ nm' = [Freed(o) EXCEPT ![n] = o] /\ work' = c \o Tail(work)
        /\ phase' = "down" /\ UNCHANGED <<optm, queue, climb>>
    BY <1>4, DownStep DEF Kidcalls
  <2>2. /\ n \in Maps[pair[2]] /\ n \in Ids(new) /\ IsTree(new) /\ B = Below(new)
        /\ work \in Seq(T) /\ 1 \in DOMAIN work /\ n = work[1][1]
        /\ Maps[pair[1]] \subseteq Ids(old)
    <3>1. work \in Seq(T)
      BY <1>2 DEF TypeOK
    <3>2. Head(work) = work[1] /\ 1 \in DOMAIN work
      BY <1>2, <3>1, TailMembers
    <3> QED
      BY <1>1, <1>2, <3>1, <3>2, NextPair, PairOfTrees, PairOfSigs, MappedClosed DEF TypeOK
  <2>3. /\ c \in Seq(Maps[pair[2]] \X Maps[pair[1]])
        /\ \A k \in DOMAIN c : k \in DOMAIN new.kids[n] /\ c[k][1] = new.kids[n][k]
    <3>1. /\ c \in Seq(Maps[pair[2]] \X Maps[pair[1]])
          /\ \A k \in DOMAIN c : /\ k \in DOMAIN new.kids[n]
                                 /\ c[k] = <<new.kids[n][k], old.kids[o][k]>>
      BY <1>2, KidcallsAre
    <3> QED
      BY <3>1
  <2>4. /\ Apart(B, new.kids[n])
        /\ \A i \in DOMAIN new.kids[n] : /\ B[new.kids[n][i]] \subseteq B[n]
                                         /\ n \notin B[new.kids[n][i]]
    BY <2>2, KidsApart
  <2> HIDE DEF n, o, c, T
  <2>5. c \in Seq(T)
    <3>1. /\ Len(c) \in Nat /\ c = [i \in 1 .. Len(c) |-> c[i]]
          /\ \A i \in 1 .. Len(c) : c[i] \in Maps[pair[2]] \X Maps[pair[1]]
      BY <2>3, LenProperties, ElementOfSeq
    <3>2. \A i \in 1 .. Len(c) : c[i] \in T
      BY <2>2, <3>1 DEF T
    <3> QED
      BY <3>1, <3>2, SeqDef
  <2> DEFINE len == Len(c)
             v == work'
  <2>6. /\ len \in Nat
        /\ \A k \in DOMAIN v :
             k \in Nat /\ \/ k \in DOMAIN c /\ v[k] = c[k]
                          \/ k \notin DOMAIN c /\ k - len + 1 \in DOMAIN work \ {1}
                             /\ v[k] = work[k - len + 1]
    <3>1. /\ work' \in Seq(T)
          /\ \A k \in DOMAIN work' :
               \/ k \in DOMAIN c /\ work'[k] = c[k]
               \/ k \notin DOMAIN c /\ k - Len(c) + 1 \in DOMAIN work \ {1}
                  /\ work'[k] = work[k - Len(c) + 1]
      BY <1>2, <2>1, <2>2, <2>5, PutCalls
    <3>2. Len(c) \in Nat /\ \A k \in DOMAIN work' : k \in Nat
      BY <2>5, <3>1, LenProperties
    <3> QED
      BY <3>1, <3>2
  <2> HIDE DEF len, v
  <2>7. ASSUME NEW k \in DOMAIN c
        PROVE  B[c[k][1]] \subseteq B[n] /\ n \notin B[c[k][1]]
    BY <2>3, <2>4
  <2>8. ASSUME NEW j \in DOMAIN work \ {1}
        PROVE  B[work[j][1]] \cap B[n] = {}
    BY <1>2, <2>2
  <2>9. n \in B[n]
    BY <2>2, BelowClosed
  <2>10. ASSUME NEW k \in DOMAIN v, NEW l \in DOMAIN v, k # l
         PROVE  B[v[k][1]] \cap B[v[l][1]] = {}
    <3>1. CASE k \in DOMAIN c /\ l \in DOMAIN c
      <4>1. v[k][1] = new.kids[n][k] /\ v[l][1] = new.kids[n][l]
            /\ k \in DOMAIN new.kids[n] /\ l \in DOMAIN new.kids[n]
        BY <2>3, <2>6, <3>1
      <4> QED
        BY <2>4, <2>10, <4>1 DEF Apart
    <3>2. CASE k \in DOMAIN c /\ l \notin DOMAIN c
      BY <2>6, <2>7, <2>8, <3>2
    <3>3. CASE k \notin DOMAIN c /\ l \in DOMAIN c
      BY <2>6, <2>7, <2>8, <3>3
    <3>4. CASE k \notin DOMAIN c /\ l \notin DOMAIN c
      <4>1. /\ v[k] = work[k - len + 1] /\ v[l] = work[l - len + 1]
            /\ k - len + 1 \in DOMAIN work /\ l - len + 1 \in DOMAIN work
        BY <2>6, <3>4
      <4>2. k - len + 1 # l - len + 1
        BY <2>6, <2>10
      <4> QED
        BY <1>2, <4>1, <4>2
    <3> QED
      BY <3>1, <3>2, <3>3, <3>4
  <2>11. \A m \in DOMAIN nm : m # n /\ nm[m] = None => nm'[m] = None
    <3>1. /\ nm \in [Maps[pair[2]] -> Maps[pair[1]] \cup {None}]
      BY DEF TypeOK
    <3>2. /\ Freed(o) \in [Maps[pair[2]] -> Maps[pair[1]] \cup {None}]
          /\ \A x \in DOMAIN nm : Freed(o)[x] \in {nm[x], None}
      BY <3>1 DEF Freed
    <3> QED
      BY <2>1, <3>1, <3>2
  <2>12. DOMAIN nm' = DOMAIN nm
    BY <2>1, <2>2 DEF Freed, TypeOK
  <2>13. ASSUME NEW x, n \notin B[x], Free(B, x, nm) PROVE Free(B, x, nm')
    BY <2>11, <2>12, <2>13 DEF Free
  <2>14. Free(B, n, nm) /\ Clear(B, queue, n)
    BY <1>2, <2>2
  <2>15. ASSUME NEW k \in DOMAIN v
         PROVE  Clear(B, queue, v[k][1]) /\ Free(B, v[k][1], nm')
    <3>1. CASE k \in DOMAIN c
      <4>1. B[v[k][1]] \subseteq B[n] /\ n \notin B[v[k][1]]
        BY <2>6, <2>7, <3>1
      <4>2. Free(B, v[k][1], nm) /\ Clear(B, queue, v[k][1])
        BY <2>14, <4>1 DEF Free, Clear
      <4> QED
        BY <2>13, <4>1, <4>2
    <3>2. CASE k \notin DOMAIN c
      <4>1. PICK j \in DOMAIN work \ {1} : v[k] = work[j]
        BY <2>6, <3>2
      <4>2. n \notin B[work[j][1]]
        BY <2>8, <2>9
      <4>3. Free(B, work[j][1], nm')
        BY <1>2, <2>13, <4>2
      <4> QED
        BY <1>2, <4>1, <4>3
    <3> QED
      BY <3>1, <3>2
  <2>16. \A i \in DOMAIN queue : Free(B, queue[i], nm')
    BY <1>2, <2>9, <2>13, <2>14 DEF Clear
  <2> QED
    BY <1>1, <1>2, <2>1, <2>10, <2>15, <2>16, ApartKept DEF v
<1> QED
  BY <1>3, <1>4

-------------------------------------------------------------------------------
\* match_up() climbs outside of what waits.
LEMMA ApartUp == TypeOK /\ QueueApart /\ MatchUp => QueueApart'
<1> SUFFICES ASSUME TypeOK, QueueApart, MatchUp PROVE QueueApart'
  OBVIOUS
<1> DEFINE c == climb.n
           n == new.par[c]
<1>1. PICK B : B = Belows[pair[2]]
  OBVIOUS
<1>2. /\ Apart(B, queue) /\ phase = "up" /\ phase' = "up"
      /\ UNCHANGED <<pair, optm, queue, work>>
      /\ \A i \in DOMAIN queue : /\ Free(B, queue[i], nm) /\ Free(B, queue[i], optm)
                                 /\ c \notin B[queue[i]]
  BY <1>1 DEF QueueApart, Waiting, Climbing, MatchUp
<1>3. PICK o : Joined(n, o)
  BY JoinedUp
<1>4. climb'.n = n
  <2>1. climb \in [n : Maps[pair[2]], o : Maps[pair[1]], i : Nat,
                   d : {1} \cup {MaxHeight(m) : m \in Maps[pair[2]]}]
    BY DEF TypeOK
  <2> QED
    BY <2>1 DEF MatchUp
<1>5. ASSUME NEW i \in DOMAIN queue PROVE n \notin B[queue[i]]
  <2>1. /\ IsTree(new) /\ B = Below(new)
        /\ c \in Ids(new) /\ queue[i] \in Ids(new) /\ new.par[c] # None
    <3>1. c \in Maps[pair[2]] /\ queue[i] \in Maps[pair[2]]
      <4>1. queue \in Seq(Maps[pair[2]])
        BY DEF TypeOK
      <4>2. queue[i] \in Maps[pair[2]]
        BY <4>1, ElementOfSeq, LenProperties
      <4> QED
        BY <4>2 DEF TypeOK
    <3> QED
      BY <1>1, <3>1, PairOfTrees, PairOfSigs, MappedClosed DEF TypeOK, MatchUp, MayClimb
  <2> HIDE DEF c
  <2>2. c \in Ids(new) \ {Root}
    BY <2>1 DEF IsTree
  <2>3. n \in Ids(new)
    BY <2>1 DEF IsTree
  <2>4. c \in Kids(new, n)
    BY <2>1, <2>2 DEF IsTree
  <2>5. PICK j \in DOMAIN new.kids[n] : c = new.kids[n][j]
    BY <2>4 DEF Kids
  <2> HIDE DEF n
  <2>6. n \in B[queue[i]] => c \in B[queue[i]]
    BY <2>1, <2>5, BelowClosed
  <2> QED
    BY <1>2, <2>6 DEF c
<1> HIDE DEF n, c
<1>6. nm' = [nm EXCEPT ![n] = o]
  BY <1>3 DEF Joined
<1>7. \A i \in DOMAIN queue : Free(B, queue[i], nm')
  BY <1>2, <1>5, <1>6 DEF Free
<1> QED
  BY <1>1, <1>2, <1>4, <1>5, <1>7, ApartKept

\* Every step keeps the queue apart.
LEMMA ApartStep == TypeOK /\ PairsAlike /\ QueueApart /\ [Next]_vars => QueueApart'
<1> SUFFICES ASSUME TypeOK, PairsAlike, QueueApart, [Next]_vars PROVE QueueApart'
  OBVIOUS
<1>1. pair' = pair
  BY PairKept
<1>2. PICK B : B = Belows[pair[2]]
  OBVIOUS
<1>3. /\ Apart(B, queue)
      /\ \A i \in DOMAIN queue : Free(B, queue[i], nm) /\ Free(B, queue[i], optm)
      /\ phase \in {"roots", "topdown", "bottomup", "merge"} => queue = <<>>
  BY <1>2 DEF QueueApart, Waiting
<1>4. CASE queue = <<>> /\ queue' = <<>> /\ phase' \notin {"enqueue", "down"}
  BY <1>1, <1>4, <1>2, ApartKept DEF Apart
<1>5. CASE UNCHANGED <<queue, nm, optm>> /\ phase' = "queue"
  BY <1>1, <1>2, <1>3, <1>5, ApartKept
<1>6. CASE MatchDownDone
  <2>1. /\ UNCHANGED <<queue, nm, optm, climb>> /\ phase' = "up"
        /\ \A i \in DOMAIN queue : climb.n \notin B[queue[i]]
    BY <1>2, <1>6 DEF MatchDownDone, QueueApart, Climbing
  <2> QED
    BY <1>1, <1>2, <1>3, <2>1, ApartKept
<1>7. CASE UNCHANGED vars
  <2>1. UNCHANGED <<pair, phase, queue, nm, optm, work, climb>>
    BY <1>7 DEF vars
  <2> QED
    BY <2>1 DEF QueueApart, Waiting, Entering, Descending, Climbing, Apart, Clear, Free
<1>8. (EnqueueDone \/ MatchUpDone) => UNCHANGED <<queue, nm, optm>> /\ phase' = "queue"
  BY DEF EnqueueDone, MatchUpDone
<1>9. (MatchRoots \/ MatchHeaders \/ TopDown \/ TopDownDone \/ BottomUp \/ BottomUpDone)
        => queue = <<>> /\ queue' = <<>> /\ phase' \notin {"enqueue", "down"}
  BY <1>3 DEF MatchRoots, Abort, MatchHeaders, TopDown, TopDownDone, BottomUp,
     BottomUpDone
<1> QED
  BY <1>4, <1>5, <1>6, <1>7, <1>8, <1>9, ApartDequeue, ApartEnqueue, ApartDown,
     ApartUp DEF Next, MatchNext, Matched

\* At first only the root waits.
LEMMA InitApart == Init => QueueApart
<1> SUFFICES ASSUME Init PROVE QueueApart
  OBVIOUS
<1>1. PICK B : B = Belows[pair[2]]
  OBVIOUS
<1>2. Apart(B, queue)
  BY DEF Init, Apart
<1>3. \A n : Free(B, n, nm) /\ Free(B, n, optm)
  BY DEF Init, Free
<1> QED
  BY <1>1, <1>2, <1>3 DEF Init, QueueApart, Waiting

\* The queue is apart always.
LEMMA StaysApart == Spec => []QueueApart
BY InitApart, ApartStep, Alike, TypeCorrect, PTL DEF Spec

\* What waits is untouched.
LEMMA Untouched == TypeOK /\ QueueApart => QueueUntouched
<1> SUFFICES ASSUME TypeOK, QueueApart PROVE QueueUntouched
  OBVIOUS
<1> DEFINE w == IF phase = "enqueue" THEN work ELSE <<>>
           s == queue \o w
           T == Maps[pair[2]]
<1>1. PICK B : B = Belows[pair[2]]
  OBVIOUS
<1>2. queue \in Seq(T) /\ w \in Seq(T)
  BY EmptySeq DEF TypeOK
<1>3. /\ Apart(B, queue) /\ Apart(B, w)
      /\ \A i \in DOMAIN queue : Free(B, queue[i], nm) /\ Free(B, queue[i], optm)
      /\ \A k \in DOMAIN w :
           Clear(B, queue, w[k]) /\ Free(B, w[k], nm) /\ Free(B, w[k], optm)
  <2>1. CASE phase = "enqueue"
    BY <1>1, <2>1 DEF QueueApart, Waiting, Entering
  <2>2. CASE phase # "enqueue"
    BY <1>1, <2>2 DEF QueueApart, Waiting, Apart
  <2> QED
    BY <2>1, <2>2
<1>4. \A n \in T : n \in B[n]
  BY <1>1, PairOfTrees, PairOfSigs, MappedClosed, BelowClosed DEF TypeOK
<1> HIDE DEF w, T
<1> DEFINE len == Len(queue)
<1>5. /\ len \in Nat /\ DOMAIN queue = 1 .. len /\ DOMAIN w = 1 .. Len(w) /\ Len(w) \in Nat
      /\ DOMAIN s = 1 .. len + Len(w) /\ s \in Seq(T)
      /\ \A i \in 1 .. len + Len(w) : s[i] = IF i <= len THEN queue[i] ELSE w[i - len]
  BY <1>2, ConcatProperties, LenProperties
<1> HIDE DEF s, len
<1>6. \A i \in DOMAIN s :
        i \in Nat /\ s[i] \in T
        /\ \/ i <= len /\ i \in DOMAIN queue /\ s[i] = queue[i]
           \/ i > len /\ i - len \in DOMAIN w /\ s[i] = w[i - len]
  <2> TAKE i \in DOMAIN s
  <2>1. i \in Nat /\ i \in 1 .. len + Len(w)
    BY <1>5
  <2>2. s[i] \in T
    BY <1>5, ElementOfSeq, LenProperties
  <2>3. CASE i <= len
    BY <1>5, <2>1, <2>2, <2>3
  <2>4. CASE i > len
    BY <1>5, <2>1, <2>2, <2>4
  <2> QED
    BY <1>5, <2>1, <2>3, <2>4
<1>7. \A i \in DOMAIN s : Free(B, s[i], nm) /\ Free(B, s[i], optm)
  BY <1>3, <1>6
<1>8. ASSUME NEW i \in DOMAIN s, NEW j \in DOMAIN s, i # j
      PROVE  s[i] # s[j]
  <2>1. s[i] \in B[s[i]]
    BY <1>4, <1>6
  <2>2. B[s[i]] \cap B[s[j]] = {}
    <3> DEFINE Old(k) == k \in DOMAIN queue /\ s[k] = queue[k]
               Add(k) == k - len \in DOMAIN w /\ s[k] = w[k - len]
    <3>1. (Old(i) \/ Add(i)) /\ (Old(j) \/ Add(j))
      BY <1>6
    <3>2. i - len # j - len
      BY <1>5, <1>6, <1>8
    <3>3. CASE Old(i) /\ Old(j)
      BY <1>3, <1>8, <3>3 DEF Apart
    <3>4. CASE Old(i) /\ Add(j)
      BY <1>3, <3>4 DEF Clear
    <3>5. CASE Add(i) /\ Old(j)
      BY <1>3, <3>5 DEF Clear
    <3>6. CASE Add(i) /\ Add(j)
      BY <1>3, <3>2, <3>6 DEF Apart
    <3> QED
      BY <3>1, <3>3, <3>4, <3>5, <3>6
  <2> QED
    BY <2>1, <2>2
<1>9. \A i, j \in DOMAIN s : s[i] = s[j] => i = j
  BY <1>8
<1>10. \A i \in DOMAIN s : \A n \in B[s[i]] \cap DOMAIN nm : nm[n] = None /\ optm[n] = None
  BY <1>7 DEF Free, TypeOK
<1> QED
  BY <1>1, <1>9, <1>10 DEF QueueUntouched, s, w

(***************************************************************************)
(* For all trees: what waits in the queue is there once, and nothing of    *)
(* its sub-trees has been matched.  The reason is that the sub-trees are   *)
(* apart from each other and from those that match_down() is matching, and *)
(* that match_up() goes to a node above what it has just matched.          *)
(***************************************************************************)
THEOREM QueueUntouchedCorrect == Spec => []QueueUntouched
BY Untouched, StaysApart, TypeCorrect, PTL

-------------------------------------------------------------------------------
(***************************************************************************)
(* No assertion fails.                                                     *)
(***************************************************************************)
LEMMA NoAbortStep ==
  TypeOK /\ OldMatchSound /\ MatchesAgree /\ PairsAlike /\ QueueApart /\ NoAbort
    /\ [Next]_vars => NoAbort'
<1> SUFFICES ASSUME TypeOK, OldMatchSound, MatchesAgree, PairsAlike, QueueApart,
                    NoAbort, [Next]_vars
             PROVE  NoAbort'
  OBVIOUS
<1>1. PICK B : B = Belows[pair[2]]
  OBVIOUS
<1>2. \A n \in Maps[pair[2]] : n \in B[n]
  BY <1>1, PairOfTrees, PairOfSigs, MappedClosed, BelowClosed DEF TypeOK
<1>3. CASE Dequeue
  <2> DEFINE n == Head(queue)
  <2>1. queue \in Seq(Maps[pair[2]]) /\ queue # <<>>
    BY <1>3 DEF TypeOK, Dequeue
  <2>2. n \in Maps[pair[2]] /\ 1 \in DOMAIN queue /\ n = queue[1]
    BY <2>1, TailMembers
  <2>3. Free(B, n, nm) /\ Free(B, n, optm)
    BY <1>1, <2>2 DEF QueueApart, Waiting
  <2>4. nm[n] = None /\ optm[n] = None
    BY <1>2, <2>2, <2>3 DEF Free, TypeOK
  <2> QED
    BY <1>3, <2>4 DEF Dequeue, NoAbort
<1>4. CASE MatchDown
  <2> DEFINE n == Head(work)[1]
             o == Head(work)[2]
  <2>1. phase = "down" /\ work # <<>> /\ work \in Seq(Maps[pair[2]] \X Ids(old))
    BY <1>4 DEF MatchDown, TypeOK
  <2>2. /\ n \in Maps[pair[2]] /\ o \in Maps[pair[1]]
        /\ Type(new, n) = Type(old, o) /\ Len(new.kids[n]) = Len(old.kids[o])
    BY <2>1, NextPair
  <2>3. nm[n] = None
    <3>1. 1 \in DOMAIN work /\ Head(work) = work[1]
      BY <2>1, TailMembers
    <3>2. Free(B, n, nm)
      BY <1>1, <2>1, <3>1 DEF QueueApart, Descending
    <3> QED
      BY <1>2, <2>2, <3>2 DEF Free, TypeOK
  <2>4. Freed(o)[n] = None
    BY <2>2, <2>3 DEF Freed, TypeOK
  <2>5. o \in DOMAIN om /\ (om[o] # None => nm[om[o]] = o)
    BY <2>2 DEF TypeOK, OldMatchSound
  <2>6. IsOpaque(new, n) => IsOpaque(old, o)
    BY <2>2 DEF IsOpaque
  <2> QED
    BY <1>4, <2>2, <2>4, <2>5, <2>6 DEF MatchDown, NoAbort
<1>5. CASE MatchRoots
  <2>1. Type(old, Root) = "ROOT" /\ Type(new, Root) = "ROOT"
    BY PairOfTrees DEF TypeOK, IsTree
  <2>2. om[Root] # None => nm[Root] = Root
    BY RootsMatchOnly
  <2>3. Root # None
    BY DEF Root, None
  <2> QED
    BY <1>5, <2>1, <2>2, <2>3 DEF MatchRoots, NoAbort
<1>6. CASE ~(Dequeue \/ MatchDown \/ MatchRoots)
  BY <1>6 DEF NoAbort, Next, MatchNext, Matched, vars, Enqueue, EnqueueDone,
     MatchDownDone, MatchUp, MatchUpDone, MatchHeaders, TopDown, TopDownDone,
     BottomUp, BottomUpDone
<1> QED
  BY <1>3, <1>4, <1>5, <1>6

(***************************************************************************)
(* For all trees: no assertion of the matching fails and every node is     *)
(* found in its map: a dequeued node is free, the sub-trees of one         *)
(* signature have the same shape, and what match_down() takes a node from  *)
(* was matched with it both ways.                                          *)
(***************************************************************************)
THEOREM NoAbortCorrect == Spec => []NoAbort
<1>1. Init => NoAbort
  BY DEF Init, NoAbort
<1> QED
  BY <1>1, NoAbortStep, TypeCorrect, OldMatchCorrect, MatchesAgreeCorrect,
     Alike, StaysApart, PTL DEF Spec

-------------------------------------------------------------------------------
(***************************************************************************)
(* Sequences of sequences, and the walk through a tree in reading order.   *)
(***************************************************************************)
LEMMA LessWellFounded == IsWellFoundedOn({ss \in Nat \X Nat : ss[1] < ss[2]}, Nat)
BY NatLessThanWellFounded DEF OpToRel

\* There is a least element in a set of numbers.
LEMMA LeastOf ==
  ASSUME NEW T \in SUBSET Nat, T # {}
  PROVE  \E x \in T : \A y \in T : x <= y
<1> DEFINE R == {ss \in Nat \X Nat : ss[1] < ss[2]}
<1>1. IsWellFoundedOn(R, Nat)
  BY LessWellFounded
<1> HIDE DEF R
<1>2. T \subseteq Nat
  OBVIOUS
<1>3. PICK x \in T : \A y \in T : ~ (<<y, x>> \in R)
  BY <1>1, <1>2, WFMin
<1>4. \A y \in T : ~ (y < x)
  BY <1>3 DEF R
<1> QED
  BY <1>4

\* What a set of numbers has at 0 and with each number below k at the next, it has up to k.
LEMMA UpTo ==
  ASSUME NEW k \in Nat, NEW T, 0 \in T, \A i \in 0 .. k - 1 : i \in T => i + 1 \in T
  PROVE  \A i \in 0 .. k : i \in T
<1> DEFINE U == {i \in 0 .. k : i \notin T}
<1> SUFFICES ASSUME U # {} PROVE FALSE
  OBVIOUS
<1>1. U \in SUBSET Nat
  OBVIOUS
<1>2. PICK i \in U : \A j \in U : i <= j
  <2> HIDE DEF U
  <2> QED
    BY <1>1, LeastOf
<1>3. i # 0 /\ i \in 0 .. k
  OBVIOUS
<1>4. i - 1 \in 0 .. k - 1 /\ i - 1 \notin U
  BY <1>2, <1>3
<1>5. i - 1 \in T /\ (i - 1) + 1 = i
  BY <1>4
<1> QED
  BY <1>4, <1>5

(***************************************************************************)
(* Sequences put one behind the other.                                     *)
(***************************************************************************)
FlatUpTo(ss, k, f) ==
  \A i \in 1 .. k : f[i] = IF i = 1 THEN ss[i] ELSE f[i - 1] \o ss[i]

\* Two sequences that agree have folds that agree.
LEMMA FlatSame ==
  ASSUME NEW k \in Nat, NEW ss, NEW tt, NEW f, NEW g, FlatUpTo(ss, k, f), FlatUpTo(tt, k, g),
         \A i \in 1 .. k : ss[i] = tt[i]
  PROVE  \A i \in 1 .. k : f[i] = g[i]
<1> DEFINE T == {i \in 0 .. k : i = 0 \/ f[i] = g[i]}
<1>1. 0 \in T
  OBVIOUS
<1>2. \A i \in 0 .. k - 1 : i \in T => i + 1 \in T
  BY DEF FlatUpTo
<1>3. \A i \in 0 .. k : i \in T
  <2> HIDE DEF T
  <2> QED
    BY <1>1, <1>2, UpTo
<1> QED
  BY <1>3

\* There is a fold of a sequence of sequences.
LEMMA FlatExists ==
  ASSUME NEW S, NEW ss \in Seq(Seq(S)), NEW k \in 0 .. Len(ss)
  PROVE  \E f \in [1 .. k -> Seq(S)] : FlatUpTo(ss, k, f)
<1> DEFINE T == {i \in 0 .. Len(ss) : \E f \in [1 .. i -> Seq(S)] : FlatUpTo(ss, i, f)}
<1>0. Len(ss) \in Nat /\ \A i \in 1 .. Len(ss) : ss[i] \in Seq(S)
  BY LenProperties, ElementOfSeq
<1>1. 0 \in T
  <2>1. [i \in 1 .. 0 |-> <<>>] \in [1 .. 0 -> Seq(S)]
    OBVIOUS
  <2>2. \A f : FlatUpTo(ss, 0, f)
    BY DEF FlatUpTo
  <2>3. 0 \in 0 .. Len(ss)
    BY <1>0
  <2> QED
    BY <2>1, <2>2, <2>3
<1>2. ASSUME NEW i \in 0 .. Len(ss) - 1, i \in T PROVE i + 1 \in T
  <2>1. PICK f \in [1 .. i -> Seq(S)] : FlatUpTo(ss, i, f)
    BY <1>2
  <2> DEFINE v == IF i = 0 THEN ss[1] ELSE f[i] \o ss[i + 1]
             g == [j \in 1 .. i + 1 |-> IF j = i + 1 THEN v ELSE f[j]]
  <2>2. v \in Seq(S)
    <3>1. i \in Nat /\ ss[i + 1] \in Seq(S) /\ (i # 0 => f[i] \in Seq(S))
      BY <1>0
    <3>2. i # 0 => f[i] \o ss[i + 1] \in Seq(S)
      BY <3>1, ConcatProperties
    <3> QED
      BY <3>1, <3>2
  <2>3. g \in [1 .. i + 1 -> Seq(S)]
    <3> HIDE DEF v
    <3> QED
      BY <2>2
  <2>4. ASSUME NEW j \in 1 .. i + 1
        PROVE  g[j] = IF j = 1 THEN ss[j] ELSE g[j - 1] \o ss[j]
    <3>1. CASE j = i + 1
      <4>1. j # 1 => j - 1 \in 1 .. i + 1 /\ j - 1 # i + 1 /\ j - 1 = i
        BY <3>1
      <4>2. j # 1 => g[j - 1] = f[i]
        BY <4>1
      <4>3. g[j] = v
        BY <3>1
      <4> HIDE DEF g
      <4> QED
        BY <3>1, <4>2, <4>3
    <3>2. CASE j # i + 1
      <4>1. j \in 1 .. i /\ (j # 1 => j - 1 \in 1 .. i)
        BY <3>2
      <4>2. f[j] = IF j = 1 THEN ss[j] ELSE f[j - 1] \o ss[j]
        BY <2>1, <4>1 DEF FlatUpTo
      <4>3. g[j] = f[j]
        BY <3>2
      <4>4. j # 1 => g[j - 1] = f[j - 1]
        <5> SUFFICES ASSUME j # 1 PROVE g[j - 1] = f[j - 1]
          OBVIOUS
        <5>1. j - 1 \in 1 .. i + 1 /\ j - 1 # i + 1
          BY <4>1
        <5> QED
          BY <5>1
      <4> HIDE DEF g
      <4> QED
        BY <4>2, <4>3, <4>4
    <3> QED
      BY <3>1, <3>2
  <2> HIDE DEF g
  <2>5. FlatUpTo(ss, i + 1, g)
    BY <2>4 DEF FlatUpTo
  <2> QED
    BY <1>0, <2>3, <2>5
<1>3. \A i \in 0 .. Len(ss) : i \in T
  <2> HIDE DEF T
  <2> QED
    BY <1>0, <1>1, <1>2, UpTo
<1> QED
  BY <1>3

\* The sequences of a sequence one behind the other are its fold.
LEMMA FlatValue ==
  ASSUME NEW S, NEW ss \in Seq(Seq(S)), ss # <<>>, NEW f, FlatUpTo(ss, Len(ss), f)
  PROVE  Seqs!FlattenSeq(ss) = f[Len(ss)]
<1>1. Len(ss) \in Nat /\ Len(ss) # 0
  BY LenProperties, EmptySeq
<1> DEFINE G(h, i) == IF i = 1 THEN ss[i] ELSE h[i - 1] \o ss[i]
           F == CHOOSE h : h = [i \in 1 .. Len(ss) |-> G(h, i)]
<1>2. Seqs!FlattenSeq(ss) = F[Len(ss)]
  BY <1>1 DEF Seqs!FlattenSeq
<1>3. PICK g \in [1 .. Len(ss) -> Seq(S)] : FlatUpTo(ss, Len(ss), g)
  <2>1. Len(ss) \in 0 .. Len(ss)
    BY <1>1
  <2> QED
    BY <2>1, FlatExists
<1>4. \A i \in 1 .. Len(ss) : g[i] = G(g, i)
  BY <1>3 DEF FlatUpTo
<1>5. g = [i \in 1 .. Len(ss) |-> G(g, i)]
  <2>1. g = [i \in 1 .. Len(ss) |-> g[i]]
    OBVIOUS
  <2> HIDE DEF G
  <2> QED
    BY <1>4, <2>1
<1>6. F = [i \in 1 .. Len(ss) |-> G(F, i)]
  BY <1>5
<1> HIDE DEF F
<1>7. \A i \in 1 .. Len(ss) : F[i] = G(F, i)
  <2> HIDE DEF G
  <2> QED
    BY <1>6
<1>8. FlatUpTo(ss, Len(ss), F)
  BY <1>7 DEF FlatUpTo
<1>9. F[Len(ss)] = f[Len(ss)]
  BY <1>1, <1>8, FlatSame
<1> QED
  BY <1>2, <1>9

\* Of no sequence there is nothing.
LEMMA FlatEmpty == Seqs!FlattenSeq(<<>>) = <<>>
<1>1. Len(<<>>) = 0
  BY EmptySeq
<1> QED
  BY <1>1 DEF Seqs!FlattenSeq

\* The elements are those of the sequences.
LEMMA FlatType ==
  ASSUME NEW S, NEW ss \in Seq(Seq(S))
  PROVE  Seqs!FlattenSeq(ss) \in Seq(S)
<1>1. CASE ss = <<>>
  BY <1>1, FlatEmpty, EmptySeq
<1>2. CASE ss # <<>>
  <2>1. Len(ss) \in Nat /\ Len(ss) # 0
    BY <1>2, LenProperties, EmptySeq
  <2>2. Len(ss) \in 0 .. Len(ss) /\ Len(ss) \in 1 .. Len(ss)
    BY <2>1
  <2>3. PICK f \in [1 .. Len(ss) -> Seq(S)] : FlatUpTo(ss, Len(ss), f)
    BY <2>2, FlatExists
  <2> QED
    BY <1>2, <2>2, <2>3, FlatValue
<1> QED
  BY <1>1, <1>2

\* One more sequence comes behind the others.
LEMMA FlatAppend ==
  ASSUME NEW S, NEW ss \in Seq(Seq(S)), NEW x \in Seq(S)
  PROVE  Seqs!FlattenSeq(Append(ss, x)) = Seqs!FlattenSeq(ss) \o x
<1> DEFINE tt == Append(ss, x)
           k == Len(ss)
<1>1. /\ tt \in Seq(Seq(S)) /\ Len(tt) = k + 1 /\ k \in Nat /\ tt # <<>>
      /\ \A i \in 1 .. k : tt[i] = ss[i] /\ tt[k + 1] = x
  <2>1. /\ tt \in Seq(Seq(S)) /\ Len(tt) = k + 1 /\ tt # <<>>
        /\ \A i \in 1 .. Len(ss) : tt[i] = ss[i]
        /\ tt[Len(ss) + 1] = x
    BY AppendProperties
  <2>2. Len(ss) \in Nat
    BY LenProperties
  <2> QED
    BY <2>1, <2>2
<1>1a. tt[k + 1] = x
  BY AppendProperties
<1> HIDE DEF tt
<1>2. PICK f \in [1 .. k + 1 -> Seq(S)] : FlatUpTo(tt, k + 1, f)
  <2>1. k + 1 \in 0 .. Len(tt)
    BY <1>1
  <2> QED
    BY <1>1, <2>1, FlatExists
<1>3. Seqs!FlattenSeq(tt) = f[k + 1]
  BY <1>1, <1>2, FlatValue
<1>4. f[k + 1] = IF k = 0 THEN x ELSE f[k] \o x
  <2>1. k + 1 \in 1 .. k + 1 /\ (k + 1 = 1 <=> k = 0) /\ (k + 1) - 1 = k
    BY <1>1
  <2>2. f[k + 1] = IF k + 1 = 1 THEN tt[k + 1] ELSE f[(k + 1) - 1] \o tt[k + 1]
    BY <1>2, <2>1 DEF FlatUpTo
  <2> QED
    BY <1>1a, <2>1, <2>2
<1>5. CASE k = 0
  <2>1. ss = <<>>
    BY <1>5, EmptySeq
  <2>2. Seqs!FlattenSeq(ss) \o x = x
    BY <2>1, FlatEmpty, ConcatEmptySeq
  <2> QED
    BY <1>3, <1>4, <1>5, <2>2 DEF tt
<1>6. CASE k # 0
  <2>1. FlatUpTo(ss, k, f)
    <3>1. \A i \in 1 .. k : i \in 1 .. k + 1 /\ tt[i] = ss[i]
      BY <1>1
    <3> QED
      BY <1>2, <3>1 DEF FlatUpTo
  <2>2. ss # <<>>
    BY <1>6, EmptySeq
  <2>3. Seqs!FlattenSeq(ss) = f[k]
    BY <2>1, <2>2, FlatValue
  <2> QED
    BY <1>3, <1>4, <1>6, <2>3 DEF tt
<1> QED
  BY <1>5, <1>6

\* A sequence without its last element.
LEMMA Shorten ==
  ASSUME NEW S, NEW s \in Seq(S), Len(s) # 0
  PROVE  \E r \in Seq(S) : \E x \in S : s = Append(r, x) /\ Len(r) = Len(s) - 1
<1>1. s # <<>>
  BY EmptySeq
<1>2. PICK r \in Seq(S), x \in S : s = Append(r, x)
  BY <1>1, SequenceEmptyOrAppend
<1>3. Len(s) = Len(r) + 1 /\ Len(r) \in Nat
  BY <1>2, AppendProperties, LenProperties
<1> QED
  BY <1>2, <1>3

\* What is so of the empty sequence and stays so when an element is added is so of all.
LEMMA ByAppending ==
  ASSUME NEW S, NEW G, <<>> \in G,
         \A r \in Seq(S) : \A x \in S : r \in G => Append(r, x) \in G
  PROVE  \A s \in Seq(S) : s \in G
<1> SUFFICES ASSUME NEW s0 \in Seq(S), s0 \notin G PROVE FALSE
  OBVIOUS
<1> DEFINE T == {k \in Nat : \E s \in Seq(S) : Len(s) = k /\ s \notin G}
<1>1. Len(s0) \in T
  BY LenProperties
<1>2. PICK k \in T : \A j \in T : k <= j
  <2>1. T \in SUBSET Nat /\ T # {}
    BY <1>1
  <2> HIDE DEF T
  <2> QED
    BY <2>1, LeastOf
<1>3. PICK s \in Seq(S) : Len(s) = k /\ s \notin G
  OBVIOUS
<1>4. Len(s) # 0
  <2>1. Len(s) = 0 => s = <<>>
    BY EmptySeq
  <2> QED
    BY <1>3, <2>1
<1>5. PICK r \in Seq(S), x \in S : s = Append(r, x) /\ Len(r) = Len(s) - 1
  BY <1>4, Shorten
<1>6. Len(r) \in Nat /\ k \in Nat
  BY LenProperties
<1>7. Len(r) \notin T
  BY <1>2, <1>3, <1>5, <1>6
<1>8. r \in G
  BY <1>6, <1>7
<1> QED
  BY <1>3, <1>5, <1>8

\* A single sequence is itself.
LEMMA FlatSingle ==
  ASSUME NEW S, NEW x \in Seq(S)
  PROVE  Seqs!FlattenSeq(<<x>>) = x
<1>1. <<>> \in Seq(Seq(S)) /\ <<x>> = Append(<<>>, x)
  OBVIOUS
<1>2. Seqs!FlattenSeq(<<x>>) = <<>> \o x
  BY <1>1, FlatAppend, FlatEmpty
<1> QED
  BY <1>2, ConcatEmptySeq

\* Two sequences of sequences may be put together first.
LEMMA FlatConcat ==
  ASSUME NEW S, NEW a \in Seq(Seq(S)), NEW b \in Seq(Seq(S))
  PROVE  Seqs!FlattenSeq(a \o b) = Seqs!FlattenSeq(a) \o Seqs!FlattenSeq(b)
<1> DEFINE F(s) == Seqs!FlattenSeq(s)
           G == {s \in Seq(Seq(S)) : F(a \o s) = F(a) \o F(s)}
<1>1. <<>> \in G
  <2>1. a \o <<>> = a /\ F(<<>>) = <<>> /\ <<>> \in Seq(Seq(S))
    BY ConcatEmptySeq, FlatEmpty, EmptySeq
  <2>2. F(a) \in Seq(S)
    BY FlatType
  <2> HIDE DEF F
  <2>3. F(a) \o <<>> = F(a)
    BY <2>2, ConcatEmptySeq
  <2> QED
    BY <2>1, <2>3
<1>2. ASSUME NEW r \in Seq(Seq(S)), NEW x \in Seq(S), r \in G PROVE Append(r, x) \in G
  <2>1. Append(r, x) \in Seq(Seq(S)) /\ a \o r \in Seq(Seq(S))
    BY AppendProperties, ConcatProperties
  <2>2. a \o Append(r, x) = Append(a \o r, x)
    <3>1. Append(r, x) = r \o <<x>> /\ Append(a \o r, x) = (a \o r) \o <<x>>
      BY <2>1, AppendIsConcat
    <3>2. <<x>> \in Seq(Seq(S))
      OBVIOUS
    <3> QED
      BY <3>1, <3>2, ConcatAssociative
  <2>3. F(Append(a \o r, x)) = F(a \o r) \o x /\ F(Append(r, x)) = F(r) \o x
    BY <2>1, FlatAppend
  <2>4. F(a) \in Seq(S) /\ F(r) \in Seq(S)
    BY FlatType
  <2>5. F(a \o r) = F(a) \o F(r)
    BY <1>2
  <2> HIDE DEF F
  <2>6. (F(a) \o F(r)) \o x = F(a) \o (F(r) \o x)
    BY <2>4, ConcatAssociative
  <2> QED
    BY <2>1, <2>2, <2>3, <2>5, <2>6
<1>3. b \in G
  <2> HIDE DEF G
  <2> QED
    BY <1>1, <1>2, ByAppending
<1> QED
  BY <1>3

\* One more sequence may come before the others.
LEMMA FlatCons ==
  ASSUME NEW S, NEW x \in Seq(S), NEW b \in Seq(Seq(S))
  PROVE  Seqs!FlattenSeq(<<x>> \o b) = x \o Seqs!FlattenSeq(b)
<1>1. <<x>> \in Seq(Seq(S))
  OBVIOUS
<1>2. Seqs!FlattenSeq(<<x>> \o b) = Seqs!FlattenSeq(<<x>>) \o Seqs!FlattenSeq(b)
  BY <1>1, FlatConcat
<1>3. Seqs!FlattenSeq(<<x>>) = x
  BY FlatSingle
<1> QED
  BY <1>2, <1>3

\* From empty sequences there is nothing.
LEMMA FlatSilent ==
  ASSUME NEW ss, NEW n \in Nat, ss \in [1 .. n -> {<<>>}]
  PROVE  Seqs!FlattenSeq(ss) = <<>>
<1>1. ss \in Seq({<<>>}) /\ Len(ss) = n
  BY SeqDef
<1>2. <<>> \in Seq({}) /\ \A s \in Seq({}) : s = <<>>
  <2> SUFFICES ASSUME NEW s \in Seq({}), s # <<>> PROVE FALSE
    BY EmptySeq
  <2>1. Head(s) \in {}
    BY HeadTailProperties
  <2> QED
    BY <2>1
<1>3. ss \in Seq(Seq({}))
  <2>1. {<<>>} \subseteq Seq({})
    BY <1>2
  <2>2. ss \in [1 .. n -> Seq({})]
    BY <2>1
  <2> QED
    BY <2>2, SeqDef
<1>4. Seqs!FlattenSeq(ss) \in Seq({})
  BY <1>3, FlatType
<1> QED
  BY <1>2, <1>4

(***************************************************************************)
(* What a function of the elements gives, one behind the other.            *)
(***************************************************************************)
Over(g, s) == Seqs!FlattenSeq([k \in DOMAIN s |-> g[s[k]]])

Lists(g, D, S) == g \in [D -> Seq(S)]

\* What is listed for the elements of a sequence is a sequence.
LEMMA OverSeq ==
  ASSUME NEW D, NEW S, NEW g, Lists(g, D, S), NEW s \in Seq(D)
  PROVE  /\ [k \in DOMAIN s |-> g[s[k]]] \in Seq(Seq(S))
         /\ Len([k \in DOMAIN s |-> g[s[k]]]) = Len(s)
         /\ DOMAIN s = 1 .. Len(s)
         /\ Over(g, s) \in Seq(S)
<1>1. DOMAIN s = 1 .. Len(s) /\ Len(s) \in Nat /\ \A k \in 1 .. Len(s) : s[k] \in D
  BY LenProperties, ElementOfSeq
<1>2. [k \in DOMAIN s |-> g[s[k]]] \in [1 .. Len(s) -> Seq(S)]
  BY <1>1 DEF Lists
<1>3. [k \in DOMAIN s |-> g[s[k]]] \in Seq(Seq(S)) /\ Len([k \in DOMAIN s |-> g[s[k]]]) = Len(s)
  BY <1>1, <1>2, SeqDef
<1> QED
  BY <1>1, <1>3, FlatType DEF Over

\* What is listed for two sequences is what is listed for each.
LEMMA OverConcat ==
  ASSUME NEW D, NEW S, NEW g, Lists(g, D, S), NEW a \in Seq(D), NEW b \in Seq(D)
  PROVE  Over(g, a \o b) = Over(g, a) \o Over(g, b)
<1> DEFINE M(s) == [k \in DOMAIN s |-> g[s[k]]]
<1>1. a \o b \in Seq(D)
  BY ConcatProperties
<1>1a. \A s \in Seq(D) : M(s) \in Seq(Seq(S)) /\ Len(M(s)) = Len(s)
  BY OverSeq
<1>2. /\ M(a) \in Seq(Seq(S)) /\ M(b) \in Seq(Seq(S)) /\ M(a \o b) \in Seq(Seq(S))
      /\ Len(M(a)) = Len(a) /\ Len(M(b)) = Len(b) /\ Len(M(a \o b)) = Len(a \o b)
  <2> HIDE DEF M
  <2> QED
    BY <1>1, <1>1a
<1>3. /\ Len(a \o b) = Len(a) + Len(b)
      /\ \A i \in 1 .. Len(a) + Len(b) : (a \o b)[i] = IF i <= Len(a) THEN a[i] ELSE b[i - Len(a)]
      /\ Len(a) \in Nat /\ Len(b) \in Nat
  BY ConcatProperties, LenProperties
<1>4. DOMAIN a = 1 .. Len(a) /\ DOMAIN b = 1 .. Len(b) /\ DOMAIN (a \o b) = 1 .. Len(a \o b)
  BY <1>1, LenProperties
<1>5. \A i \in 1 .. Len(a) + Len(b) :
        M(a \o b)[i] = IF i <= Len(a) THEN M(a)[i] ELSE M(b)[i - Len(a)]
  BY <1>3, <1>4
<1>6. /\ M(a) \o M(b) \in Seq(Seq(S)) /\ Len(M(a) \o M(b)) = Len(a) + Len(b)
      /\ \A i \in 1 .. Len(a) + Len(b) :
           (M(a) \o M(b))[i] = IF i <= Len(a) THEN M(a)[i] ELSE M(b)[i - Len(a)]
  <2> DEFINE T == Seq(S)
             ma == M(a)
             mb == M(b)
  <2>1. ma \in Seq(T) /\ mb \in Seq(T) /\ Len(ma) = Len(a) /\ Len(mb) = Len(b)
    BY <1>2
  <2> HIDE DEF T, ma, mb
  <2>2. /\ ma \o mb \in Seq(T) /\ Len(ma \o mb) = Len(ma) + Len(mb)
        /\ \A i \in 1 .. Len(ma) + Len(mb) :
             (ma \o mb)[i] = IF i <= Len(ma) THEN ma[i] ELSE mb[i - Len(ma)]
    BY <2>1, ConcatProperties
  <2> QED
    BY <2>1, <2>2 DEF T, ma, mb
<1> HIDE DEF M
<1>7. M(a \o b) = M(a) \o M(b)
  <2>1. Len(M(a \o b)) = Len(M(a) \o M(b))
    BY <1>2, <1>3, <1>6
  <2>2. \A i \in 1 .. Len(M(a \o b)) : M(a \o b)[i] = (M(a) \o M(b))[i]
    BY <1>2, <1>3, <1>5, <1>6
  <2> QED
    BY <1>2, <1>6, <2>1, <2>2, SeqEqual
<1>8. Seqs!FlattenSeq(M(a \o b)) = Seqs!FlattenSeq(M(a)) \o Seqs!FlattenSeq(M(b))
  BY <1>2, <1>7, FlatConcat
<1> QED
  BY <1>8 DEF M, Over

\* What is listed for one element.
LEMMA OverSingle ==
  ASSUME NEW D, NEW S, NEW g, Lists(g, D, S), NEW d \in D
  PROVE  Over(g, <<d>>) = g[d]
<1>0. g[d] \in Seq(S)
  BY DEF Lists
<1>1. [k \in DOMAIN <<d>> |-> g[<<d>>[k]]] = <<g[d]>>
  OBVIOUS
<1> QED
  BY <1>0, <1>1, FlatSingle DEF Over

\* For no element nothing is listed.
LEMMA OverEmpty ==
  ASSUME NEW g PROVE Over(g, <<>>) = <<>>
<1>1. [k \in DOMAIN <<>> |-> g[<<>>[k]]] = <<>>
  OBVIOUS
<1> QED
  BY <1>1, FlatEmpty DEF Over

\* What is listed for sequences one behind the other.
LEMMA OverFlat ==
  ASSUME NEW D, NEW S, NEW g, Lists(g, D, S), NEW ss \in Seq(Seq(D))
  PROVE  Over(g, Seqs!FlattenSeq(ss)) = Seqs!FlattenSeq([i \in DOMAIN ss |-> Over(g, ss[i])])
<1> DEFINE h == [s \in Seq(D) |-> Over(g, s)]
           G == {s \in Seq(Seq(D)) : Over(g, Seqs!FlattenSeq(s)) = Over(h, s)}
<1>1. Lists(h, Seq(D), S)
  BY OverSeq DEF Lists
<1>2. <<>> \in G
  BY OverEmpty, FlatEmpty, EmptySeq
<1>3. ASSUME NEW r \in Seq(Seq(D)), NEW x \in Seq(D), r \in G PROVE Append(r, x) \in G
  <2>1. Append(r, x) \in Seq(Seq(D)) /\ Append(r, x) = r \o <<x>> /\ <<x>> \in Seq(Seq(D))
    BY AppendProperties, AppendIsConcat
  <2>2. Seqs!FlattenSeq(r) \in Seq(D) /\ Seqs!FlattenSeq(Append(r, x)) = Seqs!FlattenSeq(r) \o x
    BY FlatType, FlatAppend
  <2>3. Over(g, Seqs!FlattenSeq(Append(r, x))) = Over(g, Seqs!FlattenSeq(r)) \o Over(g, x)
    <3>1. \A p, q \in Seq(D) : Over(g, p \o q) = Over(g, p) \o Over(g, q)
      BY OverConcat
    <3> QED
      BY <2>2, <3>1
  <2>4. Over(g, Seqs!FlattenSeq(r)) = Over(h, r) /\ h[x] = Over(g, x)
    BY <1>3
  <2> HIDE DEF h
  <2>5. Over(h, Append(r, x)) = Over(h, r) \o h[x]
    <3> DEFINE E == Seq(D)
               y == <<x>>
    <3>1. Lists(h, E, S) /\ r \in Seq(E) /\ y \in Seq(E) /\ x \in E
      BY <1>1, <2>1
    <3> HIDE DEF E, y
    <3>2. Over(h, r \o y) = Over(h, r) \o Over(h, y)
      BY <3>1, OverConcat
    <3>3. Over(h, <<x>>) = h[x]
      BY <3>1, OverSingle
    <3> QED
      BY <2>1, <3>2, <3>3 DEF y
  <2> QED
    BY <2>1, <2>3, <2>4, <2>5
<1>4. ss \in G
  <2> HIDE DEF G
  <2> QED
    BY <1>2, <1>3, ByAppending
<1>5. DOMAIN ss = 1 .. Len(ss) /\ \A i \in 1 .. Len(ss) : ss[i] \in Seq(D)
  BY LenProperties, ElementOfSeq
<1>6. [i \in DOMAIN ss |-> h[ss[i]]] = [i \in DOMAIN ss |-> Over(g, ss[i])]
  BY <1>5
<1> QED
  BY <1>4, <1>6 DEF Over

(***************************************************************************)
(* The walks of some nodes, of all their children among them.              *)
(***************************************************************************)
Walk(n, w) == <<n>> \o Seqs!FlattenSeq(w)

Walks(t, D, g) ==
  \A n \in D :
    /\ \A i \in DOMAIN t.kids[n] : t.kids[n][i] \in D
    /\ g[n] = Walk(n, [i \in DOMAIN t.kids[n] |-> g[t.kids[n][i]]])

\* There is one walk from a node at most.
LEMMA WalksAgree ==
  ASSUME NEW t, IsTree(t), NEW D \in SUBSET Ids(t), NEW E \in SUBSET Ids(t),
         NEW g, NEW h, Walks(t, D, g), Walks(t, E, h)
  PROVE  \A n \in D \cap E : g[n] = h[n]
<1> DEFINE S == {n \in D \cap E : g[n] # h[n]}
<1> SUFFICES ASSUME S # {} PROVE FALSE
  OBVIOUS
<1>1. PICK n \in S : \A i \in DOMAIN t.kids[n] : t.kids[n][i] \notin S
  BY Deepest
<1>2. \A i \in DOMAIN t.kids[n] : g[t.kids[n][i]] = h[t.kids[n][i]]
  BY <1>1 DEF Walks
<1>3. [i \in DOMAIN t.kids[n] |-> g[t.kids[n][i]]]
        = [i \in DOMAIN t.kids[n] |-> h[t.kids[n][i]]]
  BY <1>2
<1>4. n \in D /\ n \in E /\ g[n] # h[n]
  BY <1>1
<1>5. /\ g[n] = Walk(n, [i \in DOMAIN t.kids[n] |-> g[t.kids[n][i]]])
      /\ h[n] = Walk(n, [i \in DOMAIN t.kids[n] |-> h[t.kids[n][i]]])
  BY <1>4 DEF Walks
<1> QED
  BY <1>3, <1>4, <1>5

\* Add to the nodes that have walks a deepest one of the others: there is
\* a function of all of them.
LEMMA WalksExist ==
  ASSUME NEW t, IsTree(t)
  PROVE  \E h : h = [n \in Ids(t) |->
                       Walk(n, [i \in DOMAIN t.kids[n] |-> h[t.kids[n][i]]])]
<1> DEFINE Of(n, v) == \E D \in SUBSET Ids(t) : \E g :
                         Walks(t, D, g) /\ n \in D /\ v = g[n]
           K == {n \in Ids(t) : \E v : Of(n, v)}
           H == [n \in K |-> CHOOSE v : Of(n, v)]
<1>1. ASSUME NEW D \in SUBSET Ids(t), NEW g, Walks(t, D, g), NEW n \in D
      PROVE  n \in K /\ H[n] = g[n]
  <2>1. Of(n, g[n])
    BY <1>1
  <2>2. PICK E \in SUBSET Ids(t) :
               \E h : /\ Walks(t, E, h) /\ n \in E
                     /\ (CHOOSE v : Of(n, v)) = h[n]
    BY <2>1
  <2>3. PICK h : Walks(t, E, h) /\ n \in E /\ (CHOOSE v : Of(n, v)) = h[n]
    BY <2>2
  <2>4. n \in K /\ H[n] = h[n]
    BY <2>1, <2>3
  <2> HIDE DEF Of, K, H
  <2>5. g[n] = h[n]
    BY <1>1, <2>3, WalksAgree
  <2> QED
    BY <2>4, <2>5
<1>2. Walks(t, K, H)
  <2> SUFFICES ASSUME NEW n \in K
               PROVE  /\ \A i \in DOMAIN t.kids[n] : t.kids[n][i] \in K
                      /\ H[n] = Walk(n,
                                  [i \in DOMAIN t.kids[n] |-> H[t.kids[n][i]]])
    BY DEF Walks
  <2>1a. PICK D \in SUBSET Ids(t) : \E g : Walks(t, D, g) /\ n \in D
    OBVIOUS
  <2>1. PICK g : Walks(t, D, g) /\ n \in D
    BY <2>1a
  <2> HIDE DEF K, H
  <2>2. \A i \in DOMAIN t.kids[n] : t.kids[n][i] \in D
    BY <2>1 DEF Walks
  <2>3. \A m \in D : m \in K /\ H[m] = g[m]
    BY <1>1, <2>1
  <2>4. [i \in DOMAIN t.kids[n] |-> H[t.kids[n][i]]]
          = [i \in DOMAIN t.kids[n] |-> g[t.kids[n][i]]]
    BY <2>2, <2>3
  <2> QED
    BY <2>1, <2>2, <2>3, <2>4 DEF Walks
<1>3. K \subseteq Ids(t) /\ DOMAIN H = K
  OBVIOUS
<1> HIDE DEF K, H
<1>4. K = Ids(t)
  <2> SUFFICES ASSUME Ids(t) \ K # {} PROVE FALSE
    BY <1>3
  <2>1. PICK n \in Ids(t) \ K : \A i \in DOMAIN t.kids[n] : t.kids[n][i] \notin Ids(t) \ K
    BY Deepest
  <2>2. \A i \in DOMAIN t.kids[n] : t.kids[n][i] \in K
    BY <2>1, KidIsNode
  <2> DEFINE E == K \cup {n}
             d == Walk(n, [i \in DOMAIN t.kids[n] |-> H[t.kids[n][i]]])
             g == [m \in E |-> IF m = n THEN d ELSE H[m]]
  <2>3. ASSUME NEW m \in E
        PROVE  /\ \A i \in DOMAIN t.kids[m] : t.kids[m][i] \in E
               /\ g[m] = Walk(m, [i \in DOMAIN t.kids[m] |-> g[t.kids[m][i]]])
    <3>1. \A i \in DOMAIN t.kids[m] : t.kids[m][i] \in K
      BY <1>2, <2>2 DEF Walks
    <3>2. \A k \in K : g[k] = H[k]
      BY <2>1
    <3>3. g[m] = Walk(m, [i \in DOMAIN t.kids[m] |-> H[t.kids[m][i]]])
      <4>1. CASE m = n
        BY <4>1
      <4>2. CASE m # n
        BY <4>2, <1>2 DEF Walks
      <4> QED
        BY <4>1, <4>2
    <3> HIDE DEF g
    <3>4. [i \in DOMAIN t.kids[m] |-> g[t.kids[m][i]]]
            = [i \in DOMAIN t.kids[m] |-> H[t.kids[m][i]]]
      BY <3>1, <3>2
    <3> QED
      BY <3>1, <3>3, <3>4
  <2> HIDE DEF g
  <2>4. Walks(t, E, g) /\ E \in SUBSET Ids(t) /\ n \in E
    BY <1>3, <2>3 DEF Walks
  <2> HIDE DEF E
  <2>5. n \in K
    BY <1>1, <2>4
  <2> QED
    BY <2>1, <2>5
<1>5. \A n \in Ids(t) :
        H[n] = Walk(n, [i \in DOMAIN t.kids[n] |-> H[t.kids[n][i]]])
  BY <1>2, <1>4 DEF Walks
<1>6. H = [n \in Ids(t) |->
             Walk(n, [i \in DOMAIN t.kids[n] |-> H[t.kids[n][i]]])]
  <2>1. H = [n \in K |-> H[n]]
    BY DEF H
  <2> QED
    BY <1>3, <1>4, <1>5, <2>1
<1> QED
  BY <1>6

\* The walk from a node is it and then the walks from its children.
LEMMA PreUnfold ==
  ASSUME NEW t, IsTree(t), NEW n \in Ids(t)
  PROVE  PreOrder(t)[n] = Walk(n, [i \in DOMAIN t.kids[n] |-> PreOrder(t)[t.kids[n][i]]])
<1> DEFINE pre == CHOOSE h : h = [m \in Ids(t) |->
                     Walk(m, [i \in DOMAIN t.kids[m] |-> h[t.kids[m][i]]])]
<1>1. PreOrder(t) = [m \in Ids(t) |-> pre[m]]
  BY DEF PreOrder, Walk
<1>2. pre = [m \in Ids(t) |->
               Walk(m, [i \in DOMAIN t.kids[m] |-> pre[t.kids[m][i]]])]
  BY WalksExist
<1> HIDE DEF pre
<1>3. PreOrder(t) = pre
  BY <1>1, <1>2
<1> QED
  BY <1>2, <1>3

\* A walk is a sequence of nodes.
LEMMA PreType ==
  ASSUME NEW t, IsTree(t)
  PROVE  \A n \in Ids(t) : PreOrder(t)[n] \in Seq(Ids(t))
<1> DEFINE P == PreOrder(t)
           S == {n \in Ids(t) : P[n] \notin Seq(Ids(t))}
<1> SUFFICES ASSUME S # {} PROVE FALSE
  OBVIOUS
<1>1. PICK n \in S : \A i \in DOMAIN t.kids[n] : t.kids[n][i] \notin S
  BY Deepest
<1>2. DOMAIN t.kids[n] = 1 .. Len(t.kids[n]) /\ Len(t.kids[n]) \in Nat
  BY <1>1, LenProperties DEF IsTree
<1> DEFINE w == [i \in DOMAIN t.kids[n] |-> P[t.kids[n][i]]]
<1>3. w \in [1 .. Len(t.kids[n]) -> Seq(Ids(t))]
  <2>1. \A i \in 1 .. Len(t.kids[n]) : P[t.kids[n][i]] \in Seq(Ids(t))
    BY <1>1, <1>2, KidIsNode
  <2> HIDE DEF P
  <2> QED
    BY <1>2, <2>1
<1>4. w \in Seq(Seq(Ids(t)))
  BY <1>2, <1>3, SeqDef
<1>5. P[n] = Walk(n, w)
  BY <1>1, PreUnfold
<1> HIDE DEF w, P
<1>6. Seqs!FlattenSeq(w) \in Seq(Ids(t)) /\ <<n>> \in Seq(Ids(t))
  BY <1>1, <1>4, FlatType
<1>7. P[n] \in Seq(Ids(t))
  BY <1>5, <1>6, ConcatProperties DEF Walk
<1> QED
  BY <1>1, <1>7

\* The walks from the children of a node.
KidWalks(t, n) == [i \in DOMAIN t.kids[n] |-> PreOrder(t)[t.kids[n][i]]]

\* A walk is the node and the walks from its children.
LEMMA KidWalksType ==
  ASSUME NEW t, IsTree(t), NEW n \in Ids(t)
  PROVE  /\ KidWalks(t, n) \in Seq(Seq(Ids(t)))
         /\ Len(KidWalks(t, n)) = Len(t.kids[n])
         /\ DOMAIN t.kids[n] = 1 .. Len(t.kids[n])
         /\ Len(t.kids[n]) \in Nat
         /\ PreOrder(t)[n] = <<n>> \o Seqs!FlattenSeq(KidWalks(t, n))
<1>2. DOMAIN t.kids[n] = 1 .. Len(t.kids[n]) /\ Len(t.kids[n]) \in Nat
  BY LenProperties DEF IsTree
<1>3. KidWalks(t, n) \in [1 .. Len(t.kids[n]) -> Seq(Ids(t))]
  BY <1>2, KidIsNode, PreType DEF KidWalks
<1>4. KidWalks(t, n) \in Seq(Seq(Ids(t))) /\ Len(KidWalks(t, n)) = Len(t.kids[n])
  BY <1>2, <1>3, SeqDef
<1>5. PreOrder(t)[n] = Walk(n, KidWalks(t, n))
  BY PreUnfold DEF KidWalks
<1> QED
  BY <1>2, <1>4, <1>5 DEF Walk

(***************************************************************************)
(* Where each of the sequences begins once they are put one behind the     *)
(* other.                                                                  *)
(***************************************************************************)
Offsets(ss, off) ==
  /\ off \in [1 .. Len(ss) + 1 -> Nat]
  /\ off[1] = 0
  /\ \A i \in 1 .. Len(ss) : off[i + 1] = off[i] + Len(ss[i])

\* A prefix and one element more.
LEMMA Prefix ==
  ASSUME NEW S, NEW ss \in Seq(S), NEW k \in 0 .. Len(ss) - 1
  PROVE  /\ SubSeq(ss, 1, k) \in Seq(S) /\ ss[k + 1] \in S
         /\ SubSeq(ss, 1, k + 1) = Append(SubSeq(ss, 1, k), ss[k + 1])
<1>1. Len(ss) \in Nat /\ k + 1 \in 1 .. Len(ss) /\ 1 \in 1 .. Len(ss) /\ k \in Int
      /\ (k + 1) - 1 = k /\ \A i \in 1 .. Len(ss) : ss[i] \in S
  BY LenProperties, ElementOfSeq
<1>2. SubSeq(ss, 1, k) \in Seq(S)
  <2>1. \A i \in 1 .. k : ss[i] \in S
    BY <1>1
  <2> QED
    BY <1>1, <2>1, SubSeqProperties
<1>3. k + 1 \in 1 .. Len(ss)
  BY <1>1
<1> DEFINE n == k + 1
<1>4. n \in 1 .. Len(ss) /\ n - 1 = k
  BY <1>1
<1> HIDE DEF n
<1>5. SubSeq(ss, 1, n) = SubSeq(ss, 1, n - 1) \o <<ss[n]>>
  BY <1>1, <1>4, SubSeqRecursiveSecond
<1>6. ss[n] \in S
  BY <1>1, <1>4
<1>7. Append(SubSeq(ss, 1, k), ss[n]) = SubSeq(ss, 1, k) \o <<ss[n]>>
  BY <1>2, <1>6, AppendIsConcat
<1> QED
  BY <1>2, <1>4, <1>5, <1>6, <1>7 DEF n

\* Every sequence has an offset in the sequences one behind the other.
LEMMA FlatOffsets ==
  ASSUME NEW S, NEW ss \in Seq(Seq(S))
  PROVE  \E off : Offsets(ss, off)
<1> DEFINE p(k) == Seqs!FlattenSeq(SubSeq(ss, 1, k))
           off == [i \in 1 .. Len(ss) + 1 |-> Len(p(i - 1))]
<1>1. Len(ss) \in Nat /\ \A i \in 1 .. Len(ss) : ss[i] \in Seq(S)
  BY LenProperties, ElementOfSeq
<1>2. ASSUME NEW k \in 0 .. Len(ss) PROVE p(k) \in Seq(S) /\ Len(p(k)) \in Nat
  <2>1. \A i \in 1 .. k : ss[i] \in Seq(S)
    BY <1>1
  <2>2. SubSeq(ss, 1, k) \in Seq(Seq(S))
    BY <2>1, SubSeqProperties
  <2> QED
    BY <2>2, FlatType, LenProperties
<1>3. ASSUME NEW k \in 0 .. Len(ss) - 1 PROVE Len(p(k + 1)) = Len(p(k)) + Len(ss[k + 1])
  <2>1. /\ SubSeq(ss, 1, k) \in Seq(Seq(S)) /\ ss[k + 1] \in Seq(S)
        /\ SubSeq(ss, 1, k + 1) = Append(SubSeq(ss, 1, k), ss[k + 1])
    BY Prefix
  <2>2. p(k + 1) = p(k) \o ss[k + 1]
    BY <2>1, FlatAppend
  <2>3. p(k) \in Seq(S)
    BY <1>1, <1>2
  <2> HIDE DEF p
  <2> QED
    BY <2>1, <2>2, <2>3, ConcatProperties
<1>4. Len(p(0)) = 0
  <2>1. SubSeq(ss, 1, 0) = <<>>
    BY SubSeqEmpty
  <2> QED
    BY <2>1, FlatEmpty, EmptySeq
<1> HIDE DEF p
<1>5. off \in [1 .. Len(ss) + 1 -> Nat] /\ off[1] = 0
  <2>1. \A i \in 1 .. Len(ss) + 1 : i - 1 \in 0 .. Len(ss)
    BY <1>1
  <2>2. 1 \in 1 .. Len(ss) + 1 /\ 1 - 1 = 0
    BY <1>1
  <2>3. \A i \in 1 .. Len(ss) + 1 : Len(p(i - 1)) \in Nat
    BY <1>2, <2>1
  <2>4. off[1] = Len(p(0))
    BY <2>2
  <2> QED
    BY <1>4, <2>3, <2>4
<1>6. ASSUME NEW i \in 1 .. Len(ss) PROVE off[i + 1] = off[i] + Len(ss[i])
  <2>1. i - 1 \in 0 .. Len(ss) - 1 /\ (i - 1) + 1 = i /\ (i + 1) - 1 = i
        /\ i \in 1 .. Len(ss) + 1 /\ i + 1 \in 1 .. Len(ss) + 1
    BY <1>1
  <2>2. Len(p(i)) = Len(p(i - 1)) + Len(ss[i])
    BY <1>3, <2>1
  <2> QED
    BY <2>1, <2>2
<1> HIDE DEF off
<1>7. Offsets(ss, off)
  BY <1>5, <1>6 DEF Offsets
<1> QED
  BY <1>7

\* An element is as far behind the offset of its sequence as it is into it.
LEMMA FlatPlaces ==
  ASSUME NEW S, NEW ss \in Seq(Seq(S)), NEW off, Offsets(ss, off)
  PROVE  LET p == Seqs!FlattenSeq(ss)
         IN  /\ p \in Seq(S) /\ Len(p) = off[Len(ss) + 1]
             /\ \A i \in 1 .. Len(ss) : \A j \in 1 .. Len(ss[i]) :
                  off[i] + j \in 1 .. Len(p) /\ p[off[i] + j] = ss[i][j]
             /\ \A m \in 1 .. Len(p) : \E i \in 1 .. Len(ss) : m - off[i] \in 1 .. Len(ss[i])
<1> DEFINE p(k) == Seqs!FlattenSeq(SubSeq(ss, 1, k))
           At(k) == /\ p(k) \in Seq(S) /\ Len(p(k)) = off[k + 1]
                    /\ \A i \in 1 .. k : \A j \in 1 .. Len(ss[i]) :
                         off[i] + j \in 1 .. Len(p(k)) /\ p(k)[off[i] + j] = ss[i][j]
                    /\ \A m \in 1 .. Len(p(k)) : \E i \in 1 .. k : m - off[i] \in 1 .. Len(ss[i])
           T == {k \in 0 .. Len(ss) : At(k)}
<1>1. Len(ss) \in Nat /\ \A i \in 1 .. Len(ss) : ss[i] \in Seq(S) /\ Len(ss[i]) \in Nat
  BY LenProperties, ElementOfSeq
<1>2. \A i \in 1 .. Len(ss) + 1 : off[i] \in Nat
  BY DEF Offsets
<1>3. 0 \in T
  <2>1. SubSeq(ss, 1, 0) = <<>>
    BY SubSeqEmpty
  <2>2. p(0) = <<>> /\ p(0) \in Seq(S) /\ Len(p(0)) = 0
    BY <2>1, FlatEmpty, EmptySeq
  <2>3. off[0 + 1] = 0
    BY DEF Offsets
  <2> HIDE DEF p
  <2> QED
    BY <1>1, <2>2, <2>3
<1>4. ASSUME NEW k \in 0 .. Len(ss) - 1, k \in T PROVE k + 1 \in T
  <2>1. /\ SubSeq(ss, 1, k) \in Seq(Seq(S)) /\ ss[k + 1] \in Seq(S)
        /\ SubSeq(ss, 1, k + 1) = Append(SubSeq(ss, 1, k), ss[k + 1])
    BY Prefix
  <2>2. p(k + 1) = p(k) \o ss[k + 1]
    BY <2>1, FlatAppend
  <2>3. At(k)
    BY <1>4
  <2> HIDE DEF p
  <2> DEFINE x == ss[k + 1]
             q == p(k + 1)
             r == p(k)
  <2>4. k \in Nat /\ k + 1 \in 1 .. Len(ss) /\ k + 1 \in 1 .. Len(ss) + 1 /\ k + 1 \in 0 .. Len(ss)
    BY <1>1
  <2>5. x \in Seq(S) /\ r \in Seq(S) /\ Len(x) \in Nat /\ Len(r) = off[k + 1] /\ Len(r) \in Nat
    BY <1>1, <1>2, <2>1, <2>3, <2>4
  <2>6. off[(k + 1) + 1] = off[k + 1] + Len(x)
    BY <2>4 DEF Offsets
  <2>7. q = r \o x
    BY <2>2
  <2> HIDE DEF x, q, r
  <2>8. /\ q \in Seq(S) /\ Len(q) = Len(r) + Len(x)
        /\ \A m \in 1 .. Len(r) + Len(x) : q[m] = IF m <= Len(r) THEN r[m] ELSE x[m - Len(r)]
    BY <2>5, <2>7, ConcatProperties
  <2>9. ASSUME NEW i \in 1 .. k + 1, NEW j \in 1 .. Len(ss[i])
        PROVE  off[i] + j \in 1 .. Len(q) /\ q[off[i] + j] = ss[i][j]
    <3>1. CASE i \in 1 .. k
      <4>1. off[i] + j \in 1 .. Len(r) /\ r[off[i] + j] = ss[i][j]
        BY <2>3, <3>1 DEF r
      <4> DEFINE a == Len(r)
                 b == Len(x)
                 m == off[i] + j
      <4>2. a \in Nat /\ b \in Nat /\ m \in 1 .. a
        BY <2>5, <4>1
      <4>3. Len(q) = a + b /\ \A l \in 1 .. a + b : q[l] = IF l <= a THEN r[l] ELSE x[l - a]
        BY <2>8
      <4>4. r[m] = ss[i][j]
        BY <4>1
      <4> HIDE DEF a, b, m
      <4>5. m \in 1 .. a + b /\ m <= a
        BY <4>2
      <4>6. q[m] = r[m]
        BY <4>3, <4>5
      <4> QED
        BY <4>3, <4>4, <4>5, <4>6 DEF m
    <3>2. CASE i = k + 1
      <4>1. off[i] = Len(r) /\ ss[i] = x
        BY <2>5, <3>2 DEF x
      <4>2. off[i] + j \in 1 .. Len(r) + Len(x) /\ ~(off[i] + j <= Len(r)) /\ (off[i] + j) - Len(r) = j
        BY <2>5, <4>1
      <4> QED
        BY <2>8, <4>1, <4>2
    <3> QED
      BY <2>4, <3>1, <3>2
  <2>10. ASSUME NEW m \in 1 .. Len(q)
         PROVE  \E i \in 1 .. k + 1 : m - off[i] \in 1 .. Len(ss[i])
    <3>1. CASE m <= Len(r)
      <4>1. PICK i \in 1 .. k : m - off[i] \in 1 .. Len(ss[i])
        BY <2>3, <2>5, <3>1 DEF r
      <4> QED
        BY <2>4, <4>1
    <3>2. CASE ~(m <= Len(r))
      <4>1. m - off[k + 1] \in 1 .. Len(x)
        BY <2>5, <2>8, <3>2
      <4>2. k + 1 \in 1 .. k + 1
        BY <2>4
      <4> QED
        BY <4>1, <4>2 DEF x
    <3> QED
      BY <3>1, <3>2
  <2>11. At(k + 1)
    BY <2>5, <2>6, <2>8, <2>9, <2>10 DEF q
  <2> HIDE DEF At
  <2> QED
    BY <2>4, <2>11
<1>5. Len(ss) \in T
  <2> HIDE DEF T
  <2>1. Len(ss) \in 0 .. Len(ss)
    BY <1>1
  <2> QED
    BY <1>1, <1>3, <1>4, <2>1, UpTo
<1>6. SubSeq(ss, 1, Len(ss)) = ss
  BY SubSeqFull
<1> QED
  BY <1>5, <1>6

\* Where the walks from the children are in the walk from their parent.
LEMMA PrePlaces ==
  ASSUME NEW t, IsTree(t), NEW n \in Ids(t), NEW off, Offsets(KidWalks(t, n), off)
  PROVE  LET s == PreOrder(t)[n]
             pre(i) == PreOrder(t)[t.kids[n][i]]
         IN  /\ s \in Seq(Ids(t)) /\ Len(s) \in Nat /\ 1 \in 1 .. Len(s) /\ s[1] = n
             /\ Len(s) = 1 + off[Len(t.kids[n]) + 1]
             /\ \A i \in DOMAIN t.kids[n] : off[i] \in Nat /\ \A j \in 1 .. Len(pre(i)) :
                  1 + off[i] + j \in 2 .. Len(s) /\ s[1 + off[i] + j] = pre(i)[j]
             /\ \A m \in 2 .. Len(s) : \E i \in DOMAIN t.kids[n] :
                  m - 1 - off[i] \in 1 .. Len(pre(i))
<1> DEFINE s == PreOrder(t)[n]
           kw == KidWalks(t, n)
           p == Seqs!FlattenSeq(kw)
           I == Ids(t)
<1>1. /\ kw \in Seq(Seq(I)) /\ Len(kw) = Len(t.kids[n])
      /\ DOMAIN t.kids[n] = 1 .. Len(kw) /\ s = <<n>> \o p
  BY KidWalksType
<1>2. \A i \in DOMAIN t.kids[n] : kw[i] = PreOrder(t)[t.kids[n][i]]
  BY DEF KidWalks
<1>3. n \in I /\ Offsets(kw, off)
  OBVIOUS
<1> HIDE DEF kw, I, s
<1>4. /\ p \in Seq(I) /\ Len(p) = off[Len(kw) + 1]
      /\ \A i \in 1 .. Len(kw) : \A j \in 1 .. Len(kw[i]) :
           off[i] + j \in 1 .. Len(p) /\ p[off[i] + j] = kw[i][j]
      /\ \A m \in 1 .. Len(p) : \E i \in 1 .. Len(kw) : m - off[i] \in 1 .. Len(kw[i])
  BY <1>1, <1>3, FlatPlaces
<1> HIDE DEF p
<1>5. <<n>> \in Seq(I) /\ Len(<<n>>) = 1 /\ Len(p) \in Nat
  BY <1>3, <1>4, LenProperties
<1>6. /\ s \in Seq(I) /\ Len(s) = 1 + Len(p)
      /\ \A i \in 1 .. 1 + Len(p) : s[i] = IF i <= 1 THEN <<n>>[i] ELSE p[i - 1]
  BY <1>1, <1>4, <1>5, ConcatProperties
<1>7. s[1] = n /\ Len(s) \in Nat /\ 1 \in 1 .. Len(s)
  BY <1>5, <1>6
<1>8. \A k \in 1 .. Len(p) : 1 + k \in 2 .. Len(s) /\ s[1 + k] = p[k]
  <2> TAKE k \in 1 .. Len(p)
  <2>1. 1 + k \in 1 .. 1 + Len(p) /\ ~(1 + k <= 1) /\ (1 + k) - 1 = k
    BY <1>5
  <2> QED
    BY <1>6, <2>1
<1>9. Len(kw) \in Nat /\ \A i \in 1 .. Len(kw) : off[i] \in Nat
  <2>1. Len(kw) \in Nat
    BY <1>1, LenProperties
  <2>2. \A i \in 1 .. Len(kw) : i \in 1 .. Len(kw) + 1
    BY <2>1
  <2>3. off \in [1 .. Len(kw) + 1 -> Nat]
    BY <1>3 DEF Offsets
  <2> QED
    BY <2>1, <2>2, <2>3
<1>10. ASSUME NEW i \in DOMAIN t.kids[n], NEW j \in 1 .. Len(kw[i])
       PROVE  1 + off[i] + j \in 2 .. Len(s) /\ s[1 + off[i] + j] = kw[i][j]
  <2>1. off[i] + j \in 1 .. Len(p) /\ p[off[i] + j] = kw[i][j]
    BY <1>1, <1>4
  <2>2. kw[i] \in Seq(I)
    <3>1. i \in 1 .. Len(kw)
      BY <1>1
    <3> QED
      BY <1>1, <3>1, ElementOfSeq
  <2>3. off[i] \in Nat /\ j \in Int
    BY <1>1, <1>9, <2>2, LenProperties
  <2>4. 1 + (off[i] + j) = 1 + off[i] + j
    BY <2>3
  <2> QED
    BY <1>8, <2>1, <2>4
<1>11. ASSUME NEW m \in 2 .. Len(s)
       PROVE  \E i \in DOMAIN t.kids[n] : m - 1 - off[i] \in 1 .. Len(kw[i])
  <2>1. m - 1 \in 1 .. Len(p)
    BY <1>5, <1>6
  <2> QED
    BY <1>1, <1>4, <2>1
<1>12. Len(s) = 1 + off[Len(t.kids[n]) + 1]
  BY <1>1, <1>4, <1>6
<1> DEFINE pre(i) == PreOrder(t)[t.kids[n][i]]
<1>13. \A i \in DOMAIN t.kids[n] : off[i] \in Nat /\ \A j \in 1 .. Len(pre(i)) :
         1 + off[i] + j \in 2 .. Len(s) /\ s[1 + off[i] + j] = pre(i)[j]
  BY <1>1, <1>2, <1>9, <1>10
<1>14. \A m \in 2 .. Len(s) : \E i \in DOMAIN t.kids[n] : m - 1 - off[i] \in 1 .. Len(pre(i))
  BY <1>2, <1>11
<1>15. s \in Seq(Ids(t))
  BY <1>6 DEF I
<1> HIDE DEF pre
<1>16. /\ s \in Seq(Ids(t)) /\ Len(s) \in Nat /\ 1 \in 1 .. Len(s) /\ s[1] = n
       /\ Len(s) = 1 + off[Len(t.kids[n]) + 1]
       /\ \A i \in DOMAIN t.kids[n] : off[i] \in Nat /\ \A j \in 1 .. Len(pre(i)) :
            1 + off[i] + j \in 2 .. Len(s) /\ s[1 + off[i] + j] = pre(i)[j]
       /\ \A m \in 2 .. Len(s) : \E i \in DOMAIN t.kids[n] :
            m - 1 - off[i] \in 1 .. Len(pre(i))
  BY <1>7, <1>12, <1>13, <1>14, <1>15, Zenon
<1> QED
  BY <1>16 DEF s, pre

(***************************************************************************)
(* The walk from a node begins with it and stays below it; a node comes    *)
(* after its parent, and only once.                                        *)
(***************************************************************************)
WalkGood(t, n) ==
  LET s == PreOrder(t)[n]
  IN  /\ s \in Seq(Ids(t)) /\ Len(s) \in Nat /\ 1 \in 1 .. Len(s) /\ s[1] = n
      /\ \A k \in 1 .. Len(s) : s[k] \in Below(t)[n]
      /\ \A k \in 2 .. Len(s) : \E j \in 1 .. k - 1 : s[j] = t.par[s[k]]
      /\ \A j, k \in 1 .. Len(s) : s[j] = s[k] => j = k

\* A walk is good if those from the children are.
LEMMA WalkStep ==
  ASSUME NEW t, IsTree(t), NEW n \in Ids(t),
         \A i \in DOMAIN t.kids[n] : WalkGood(t, t.kids[n][i])
  PROVE  WalkGood(t, n)
<1> DEFINE s == PreOrder(t)[n]
           c(i) == t.kids[n][i]
           pre(i) == PreOrder(t)[t.kids[n][i]]
           B == Below(t)
<1>1. PICK off : Offsets(KidWalks(t, n), off)
  BY KidWalksType, FlatOffsets
<1>2. /\ s \in Seq(Ids(t)) /\ Len(s) \in Nat /\ 1 \in 1 .. Len(s) /\ s[1] = n
      /\ \A i \in DOMAIN t.kids[n] : off[i] \in Nat /\ \A j \in 1 .. Len(pre(i)) :
           1 + off[i] + j \in 2 .. Len(s) /\ s[1 + off[i] + j] = pre(i)[j]
      /\ \A m \in 2 .. Len(s) : \E i \in DOMAIN t.kids[n] : m - 1 - off[i] \in 1 .. Len(pre(i))
  BY <1>1, PrePlaces
<1>3. \A i \in DOMAIN t.kids[n] :
        /\ c(i) \in Ids(t) /\ t.par[c(i)] = n /\ B[c(i)] \subseteq B[n]
        /\ Len(pre(i)) \in Nat /\ 1 \in 1 .. Len(pre(i)) /\ pre(i)[1] = c(i)
        /\ \A k \in 1 .. Len(pre(i)) : pre(i)[k] \in B[c(i)]
        /\ \A k \in 2 .. Len(pre(i)) : \E j \in 1 .. k - 1 : pre(i)[j] = t.par[pre(i)[k]]
        /\ \A j, k \in 1 .. Len(pre(i)) : pre(i)[j] = pre(i)[k] => j = k
        /\ n \notin B[c(i)]
  BY KidIsNode, BelowClosed, NotBelowKid DEF WalkGood
<1>4. \A i, j \in DOMAIN t.kids[n] : i # j => B[c(i)] \cap B[c(j)] = {}
  BY SiblingsApart
<1>5. n \in B[n]
  BY BelowClosed
<1> HIDE DEF s, c, pre, B
<1>6. ASSUME NEW m \in 2 .. Len(s)
      PROVE  \E i \in DOMAIN t.kids[n] : \E k \in 1 .. Len(pre(i)) :
               m = 1 + off[i] + k /\ s[m] = pre(i)[k]
  <2>1. PICK i \in DOMAIN t.kids[n] : m - 1 - off[i] \in 1 .. Len(pre(i))
    BY <1>2
  <2> DEFINE k == m - 1 - off[i]
  <2>2. off[i] \in Nat /\ Len(s) \in Nat
    BY <1>2
  <2>3. k \in 1 .. Len(pre(i)) /\ m = 1 + off[i] + k
    BY <2>1, <2>2
  <2> HIDE DEF k
  <2> QED
    BY <1>2, <2>3
<1>7. ASSUME NEW m \in 1 .. Len(s) PROVE m = 1 \/ m \in 2 .. Len(s)
  BY <1>2
<1>8. ASSUME NEW m \in 1 .. Len(s) PROVE s[m] \in B[n]
  <2>1. CASE m = 1
    BY <1>2, <1>5, <2>1
  <2>2. CASE m \in 2 .. Len(s)
    <3>1. PICK i \in DOMAIN t.kids[n] : \E k \in 1 .. Len(pre(i)) : s[m] = pre(i)[k]
      BY <1>6, <2>2
    <3> QED
      BY <1>3, <3>1
  <2> QED
    BY <1>7, <2>1, <2>2
<1>9. ASSUME NEW m \in 2 .. Len(s) PROVE \E j \in 1 .. m - 1 : s[j] = t.par[s[m]]
  <2>1. PICK i \in DOMAIN t.kids[n] : \E k \in 1 .. Len(pre(i)) : m = 1 + off[i] + k /\ s[m] = pre(i)[k]
    BY <1>6
  <2>2. PICK k \in 1 .. Len(pre(i)) : m = 1 + off[i] + k /\ s[m] = pre(i)[k]
    BY <2>1
  <2>3. off[i] \in Nat /\ Len(pre(i)) \in Nat
    BY <1>2, <1>3
  <2>4. CASE k = 1
    <3>1. s[1] = t.par[s[m]]
      BY <1>2, <1>3, <2>2, <2>4
    <3>2. 1 \in 1 .. m - 1
      BY <2>2, <2>3, <2>4
    <3> QED
      BY <3>1, <3>2
  <2>5. CASE k # 1
    <3>1. k \in 2 .. Len(pre(i))
      <4> DEFINE l == Len(pre(i))
      <4>1. l \in Nat /\ k \in 1 .. l
        BY <2>3
      <4> HIDE DEF l
      <4>2. k \in 2 .. l
        BY <2>5, <4>1
      <4> QED
        BY <4>2 DEF l
    <3>2. PICK j \in 1 .. k - 1 : pre(i)[j] = t.par[pre(i)[k]]
      BY <1>3, <3>1
    <3>3. j \in 1 .. Len(pre(i)) /\ 1 + off[i] + j \in 1 .. m - 1
      <4> DEFINE l == Len(pre(i))
                 o == off[i]
      <4>1. l \in Nat /\ k \in 1 .. l /\ o \in Nat /\ m = 1 + o + k
        BY <2>2, <2>3
      <4> HIDE DEF l, o
      <4>2. j \in 1 .. l /\ 1 + o + j \in 1 .. m - 1
        BY <4>1
      <4> QED
        BY <4>2 DEF l, o
    <3>4. s[1 + off[i] + j] = pre(i)[j]
      BY <1>2, <3>3
    <3> QED
      BY <2>2, <3>2, <3>3, <3>4
  <2> QED
    BY <2>4, <2>5
<1>10. ASSUME NEW l \in 1 .. Len(s), NEW m \in 2 .. Len(s), s[l] = s[m] PROVE l = m
  <2>1. PICK i \in DOMAIN t.kids[n] : \E k \in 1 .. Len(pre(i)) : m = 1 + off[i] + k /\ s[m] = pre(i)[k]
    BY <1>6
  <2>2. PICK k \in 1 .. Len(pre(i)) : m = 1 + off[i] + k /\ s[m] = pre(i)[k]
    BY <2>1
  <2>3. s[m] \in B[c(i)]
    BY <1>3, <2>2
  <2>4. l # 1
    BY <1>2, <1>3, <1>10, <2>3
  <2>5. PICK j \in DOMAIN t.kids[n] : \E h \in 1 .. Len(pre(j)) : l = 1 + off[j] + h /\ s[l] = pre(j)[h]
    BY <1>6, <1>7, <2>4
  <2>6. PICK h \in 1 .. Len(pre(j)) : l = 1 + off[j] + h /\ s[l] = pre(j)[h]
    BY <2>5
  <2>7. s[l] \in B[c(j)]
    BY <1>3, <2>6
  <2>8. i = j
    BY <1>4, <1>10, <2>3, <2>7
  <2>9. h = k
    BY <1>3, <1>10, <2>2, <2>6, <2>8
  <2> QED
    BY <2>2, <2>6, <2>8, <2>9
<1>11. ASSUME NEW l \in 1 .. Len(s), NEW m \in 1 .. Len(s), s[l] = s[m] PROVE l = m
  BY <1>7, <1>10, <1>11
<1> QED
  BY <1>2, <1>8, <1>9, <1>11 DEF WalkGood, s, B

\* Every walk is good.
LEMMA WalksGood ==
  ASSUME NEW t, IsTree(t)
  PROVE  \A n \in Ids(t) : WalkGood(t, n)
<1> DEFINE S == {n \in Ids(t) : ~WalkGood(t, n)}
<1> SUFFICES ASSUME S # {} PROVE FALSE
  OBVIOUS
<1>1. PICK n \in S : \A i \in DOMAIN t.kids[n] : t.kids[n][i] \notin S
  BY Deepest
<1>2. \A i \in DOMAIN t.kids[n] : WalkGood(t, t.kids[n][i])
  BY <1>1, KidIsNode
<1>3. WalkGood(t, n)
  BY <1>1, <1>2, WalkStep
<1> QED
  BY <1>1, <1>3
===============================================================================
