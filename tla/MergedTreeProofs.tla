---------------------------- MODULE MergedTreeProofs ----------------------------
(***************************************************************************)
(* Proof of what the merged tree is, for all trees: without what is        *)
(* deleted it shows the new one and without what is inserted the old one,  *)
(* what is kept without a look inside is the same on both sides, and equal *)
(* documents have no changes.                                              *)
(***************************************************************************)
EXTENDS DiffMergeProofs

-------------------------------------------------------------------------------
(***************************************************************************)
(* The merged tree, and what of it is shown.                               *)
(***************************************************************************)

\* A merged node of two trees.
MNodes(ot, nt) ==
  [par : Int, chng : {"none", "delete", "insert"}, o : Ids(ot) \cup {None},
   n : Ids(nt) \cup {None}, word : Symbols \cup {NoWord, Space}]

\* The first node has no parent, any other has one before it.
Rooted(m) == \A k \in DOMAIN m : m[k].par \in IF k = 1 THEN {None} ELSE 0 .. k - 2

Grown(m, ot, nt) == m \in Seq(MNodes(ot, nt)) /\ Rooted(m)

\* The set is of what is in A, and in B or has what is before it in the set.
Passed(D, A, B, u, H) ==
  H \in SUBSET D /\ \A k \in D : k \in H <=> k \in A /\ (k \in B \/ u[k] \in H)

\* What is passed down, and what begins it, has a least set it is so of.
LEMMA PassedDown ==
  ASSUME NEW D, NEW A, NEW B, NEW u
  PROVE  \E H : Passed(D, A, B, u, H)
<1> DEFINE On(S, k) == k \in A /\ (k \in B \/ u[k] \in S)
           Shut(S) == \A k \in D : On(S, k) => k \in S
           H == {k \in D : \A S \in SUBSET D : Shut(S) => k \in S}
<1>1. ASSUME NEW k \in D, On(H, k) PROVE k \in H
  <2> SUFFICES ASSUME NEW S \in SUBSET D, Shut(S) PROVE k \in S
    OBVIOUS
  <2>1. On(S, k)
    BY <1>1
  <2> QED
    BY <2>1
<1>2. ASSUME NEW k \in H, ~On(H, k) PROVE FALSE
  <2> DEFINE S == H \ {k}
  <2>1. Shut(S)
    <3> SUFFICES ASSUME NEW j \in D, On(S, j) PROVE j \in S
      OBVIOUS
    <3>1. On(H, j)
      OBVIOUS
    <3> HIDE DEF H
    <3>2. j \in H
      BY <1>1, <3>1
    <3>3. j # k
      BY <1>2, <3>1
    <3> QED
      BY <3>2, <3>3
  <2> QED
    BY <2>1
<1>3. \A k \in D : k \in H <=> On(H, k)
  BY <1>1, <1>2
<1>4. Passed(D, A, B, u, H)
  BY <1>3 DEF Passed
<1> QED
  BY <1>4

\* As far as l, the set is such a set, and what is before a number is less.
Follows(l, A, B, u, H) ==
  \A k \in 1 .. l :
    /\ k \in H <=> k \in A /\ (k \in B \/ u[k] \in H)
    /\ k \in A /\ k \notin B => u[k] \in 1 .. k - 1

\* It is the same of the same, whatever comes after.
LEMMA PassedSame ==
  ASSUME NEW l \in Nat, NEW A, NEW B, NEW u, NEW G, NEW H,
         Follows(l, A, B, u, G), Follows(l, A, B, u, H)
  PROVE  \A k \in 1 .. l : k \in G <=> k \in H
<1> DEFINE T == {k \in 1 .. l : ~(k \in G <=> k \in H)}
<1> SUFFICES ASSUME T # {} PROVE FALSE
  OBVIOUS
<1>1. PICK k \in T : \A j \in T : k <= j
  <2>1. T \in SUBSET Nat
    OBVIOUS
  <2> HIDE DEF T
  <2> QED
    BY <2>1, LeastOf
<1>2. \A j \in 1 .. k - 1 : j \in G <=> j \in H
  <2> SUFFICES ASSUME NEW j \in 1 .. k - 1, j \in T PROVE FALSE
    OBVIOUS
  <2> QED
    BY <1>1
<1> QED
  BY <1>1, <1>2 DEF Follows

\* The nodes that are here, and those in an opaque node.
HereAt(m, away) == {k \in DOMAIN m : Here(m, away)[k]}

InsideAt(m, t) == {k \in DOMAIN m : Inside(m, t)[k]}

Holds(m, t, k) == m[k].n # None /\ IsOpaque(t, m[k].n)

\* A node is here if it is not away, and its parent is here.
LEMMA HereUnfold ==
  ASSUME NEW m, NEW l \in Nat, DOMAIN m = 1 .. l, Rooted(m), NEW away
  PROVE  \A k \in 1 .. l :
           k \in HereAt(m, away) <=>
             m[k].chng # away /\ (k = 1 \/ m[k].par + 1 \in HereAt(m, away))
<1> DEFINE D == DOMAIN m
           A == {k \in D : m[k].chng # away}
           u == [k \in D |-> m[k].par + 1]
           here == CHOOSE f : f = [k \in D |->
                     m[k].chng # away /\ (k = 1 \/ f[m[k].par + 1])]
<1>1. Here(m, away) = here
  BY DEF Here
<1>2. PICK H : Passed(D, A, {1}, u, H)
  BY PassedDown
<1>3. \A k \in D : k = 1 \/ m[k].par + 1 \in D
  BY DEF Rooted
<1> DEFINE f == [k \in D |-> k \in H]
<1>4. \A k \in D : (k \in H) <=> (m[k].chng # away /\ (k = 1 \/ f[m[k].par + 1]))
  <2> SUFFICES ASSUME NEW k \in D
               PROVE  (k \in H) <=> (m[k].chng # away /\ (k = 1 \/ f[m[k].par + 1]))
    OBVIOUS
  <2>1. k \in H <=> m[k].chng # away /\ (k = 1 \/ m[k].par + 1 \in H)
    BY <1>2 DEF Passed
  <2>2. k # 1 => (f[m[k].par + 1] <=> m[k].par + 1 \in H)
    BY <1>3
  <2> HIDE DEF f
  <2> QED
    BY <2>1, <2>2, Zenon
<1>5. f = [k \in D |-> m[k].chng # away /\ (k = 1 \/ f[m[k].par + 1])]
  <2> DEFINE R(k) == m[k].chng # away /\ (k = 1 \/ f[m[k].par + 1])
  <2>1. \A k \in D : (k \in H) <=> R(k)
    BY <1>4
  <2>2. \A k \in D : R(k) \in BOOLEAN
    OBVIOUS
  <2> HIDE DEF R, D
  <2>3. \A k \in D : (k \in H) = R(k)
    BY <2>1, <2>2
  <2>4. f = [k \in D |-> R(k)]
    BY <2>3, Zenon
  <2> QED
    BY <2>4, Zenon DEF R
<1>6. here = [k \in D |-> m[k].chng # away /\ (k = 1 \/ here[m[k].par + 1])]
  <2> HIDE DEF f
  <2> QED
    BY <1>5
<1> HIDE DEF here, f
<1>7. HereAt(m, away) = {k \in D : here[k]}
  BY <1>1 DEF HereAt
<1>8. \A k \in D : here[k] = (m[k].chng # away /\ (k = 1 \/ here[m[k].par + 1]))
  BY <1>6, Zenon
<1> QED
  BY <1>3, <1>7, <1>8 DEF Passed

\* A node is inside of an opaque one if its parent is, or is one.
LEMMA InsideUnfold ==
  ASSUME NEW m, NEW l \in Nat, DOMAIN m = 1 .. l, Rooted(m), NEW t
  PROVE  \A k \in 1 .. l :
           k \in InsideAt(m, t) <=>
             k # 1 /\ (Holds(m, t, m[k].par + 1) \/ m[k].par + 1 \in InsideAt(m, t))
<1> DEFINE D == DOMAIN m
           A == D \ {1}
           u == [k \in D |-> m[k].par + 1]
           B == {k \in D : Holds(m, t, u[k])}
           In(f, k) == /\ k # 1
                       /\ \/ f[m[k].par + 1]
                          \/ Holds(m, t, m[k].par + 1)
           inside == CHOOSE f : f = [k \in D |-> In(f, k)]
<1>1. Inside(m, t) = inside
  BY DEF Inside, Holds
<1>2. PICK H : Passed(D, A, B, u, H)
  BY PassedDown
<1>3. \A k \in D : k = 1 \/ m[k].par + 1 \in D
  BY DEF Rooted
<1> DEFINE f == [k \in D |-> k \in H]
<1>4. \A k \in D : (k \in H) <=> In(f, k)
  <2> SUFFICES ASSUME NEW k \in D PROVE (k \in H) <=> In(f, k)
    OBVIOUS
  <2>1. k \in H <=> k # 1 /\ (Holds(m, t, m[k].par + 1) \/ m[k].par + 1 \in H)
    BY <1>2 DEF Passed
  <2>2. k # 1 => (f[m[k].par + 1] <=> m[k].par + 1 \in H)
    BY <1>3
  <2> HIDE DEF f
  <2> QED
    BY <2>1, <2>2, Zenon
<1>5. f = [k \in D |-> In(f, k)]
  <2> DEFINE R(k) == In(f, k)
  <2>1. \A k \in D : (k \in H) <=> R(k)
    BY <1>4
  <2>2. \A k \in D : R(k) \in BOOLEAN
    OBVIOUS
  <2> HIDE DEF R, D
  <2>3. \A k \in D : (k \in H) = R(k)
    BY <2>1, <2>2
  <2>4. f = [k \in D |-> R(k)]
    BY <2>3, Zenon
  <2> QED
    BY <2>4, Zenon DEF R
<1>6. inside = [k \in D |-> In(inside, k)]
  <2> HIDE DEF f, In
  <2> QED
    BY <1>5
<1> HIDE DEF inside, f
<1>7. InsideAt(m, t) = {k \in D : inside[k]}
  BY <1>1 DEF InsideAt
<1>8. \A k \in D : inside[k] = In(inside, k)
  <2> HIDE DEF In
  <2> QED
    BY <1>6, Zenon
<1> QED
  BY <1>3, <1>7, <1>8 DEF Passed

\* The side of a merged tree that is to show one of the two trees.
Sided(t, side, ot, nt) ==
  /\ IsDoc(ot) /\ IsDoc(nt)
  /\ <<side, t>> \in {<<"o", ot>>, <<"n", nt>>}

\* The node that a merged node has for its parent on a side.
ParOf(m, k, side) == IF m[k].par = None THEN None ELSE m[m[k].par + 1][side]

\* What one node shows if those of H are here and those of I in an opaque node.
Piece(m, k, H, I, t, side, P) ==
  IF m[k].word = Space \/ k \notin H THEN <<>>
  ELSE IF m[k][side] # None
  THEN IF m[k].word = NoWord THEN Shown(t, m[k][side], ParOf(m, k, side), P)
       ELSE IF ParOf(m, k, side) \in P
       THEN <<<<ParOf(m, k, side), "word", m[k].word>>>>
       ELSE <<>>
  ELSE IF k \in I THEN <<>>
  ELSE <<<<None, "stray">>>>

Pieces(m, away, t, side, P, nt) ==
  [k \in DOMAIN m |-> Piece(m, k, HereAt(m, away), InsideAt(m, nt), t, side, P)]

ShownIn(m, away, t, side, P, nt) == Seqs!FlattenSeq(Pieces(m, away, t, side, P, nt))

\* What the property says is shown is what is shown here.
LEMMA ShownWithoutIn ==
  ASSUME NEW m, NEW away, NEW t, NEW side, NEW P
  PROVE  ShownWithout(m, away, t, side, P) = ShownIn(m, away, t, side, P, new)
<1> DEFINE here == Here(m, away)
           inside == Inside(m, new)
           par(v) == IF v.par = None THEN None ELSE m[v.par + 1][side]
           shown(v) ==
             IF v.word = NoWord THEN Shown(t, v[side], par(v), P)
             ELSE IF par(v) \in P THEN <<<<par(v), "word", v.word>>>>
             ELSE <<>>
           S(k) == IF m[k].word = Space \/ ~here[k] THEN <<>>
                   ELSE IF m[k][side] # None THEN shown(m[k])
                   ELSE IF inside[k] THEN <<>>
                   ELSE <<<<None, "stray">>>>
           Q(k) == Piece(m, k, HereAt(m, away), InsideAt(m, new), t, side, P)
<1>1. \A k \in DOMAIN m : S(k) = Q(k)
  <2> SUFFICES ASSUME NEW k \in DOMAIN m PROVE S(k) = Q(k)
    OBVIOUS
  <2>1. shown(m[k]) = IF m[k].word = NoWord THEN Shown(t, m[k][side], ParOf(m, k, side), P)
                      ELSE IF ParOf(m, k, side) \in P
                      THEN <<<<ParOf(m, k, side), "word", m[k].word>>>>
                      ELSE <<>>
    BY DEF ParOf
  <2>2. k \in HereAt(m, away) <=> here[k]
    BY DEF HereAt
  <2>3. k \in InsideAt(m, new) <=> inside[k]
    BY DEF InsideAt
  <2> HIDE DEF shown, here, inside
  <2> QED
    BY <2>1, <2>2, <2>3, Zenon DEF Piece
<1>2. ShownWithout(m, away, t, side, P) = Seqs!FlattenSeq([k \in DOMAIN m |-> S(k)])
  BY Zenon DEF ShownWithout
<1>3. ShownIn(m, away, t, side, P, new) = Seqs!FlattenSeq([k \in DOMAIN m |-> Q(k)])
  BY DEF ShownIn, Pieces
<1> HIDE DEF S, Q
<1> QED
  BY <1>1, <1>2, <1>3

\* What a merged node has on the side.
LEMMA SideType ==
  ASSUME NEW t, NEW side, NEW ot, NEW nt, Sided(t, side, ot, nt),
         NEW m, Grown(m, ot, nt)
  PROVE  /\ DOMAIN m = 1 .. Len(m) /\ Len(m) \in Nat
         /\ \A k \in 1 .. Len(m) :
              /\ m[k] \in MNodes(ot, nt)
              /\ m[k].par \in IF k = 1 THEN {None} ELSE 0 .. k - 2
              /\ m[k][side] \in Ids(t) \cup {None}
              /\ ParOf(m, k, side) \in Ids(t) \cup {None}
              /\ m[k].word \in Symbols \cup {NoWord, Space}
<1>1. DOMAIN m = 1 .. Len(m) /\ Len(m) \in Nat
      /\ \A k \in 1 .. Len(m) : m[k] \in MNodes(ot, nt)
  BY LenProperties, ElementOfSeq DEF Grown
<1>2. \A k \in 1 .. Len(m) : m[k].par \in IF k = 1 THEN {None} ELSE 0 .. k - 2
  BY <1>1 DEF Grown, Rooted
<1>3. \A k \in 1 .. Len(m) : m[k][side] \in Ids(t) \cup {None}
  BY <1>1 DEF MNodes, Sided
<1>4. \A k \in 1 .. Len(m) : ParOf(m, k, side) \in Ids(t) \cup {None}
  <2> SUFFICES ASSUME NEW k \in 1 .. Len(m), m[k].par # None
               PROVE  m[m[k].par + 1][side] \in Ids(t) \cup {None}
    BY DEF ParOf
  <2>1. m[k].par + 1 \in 1 .. Len(m)
    BY <1>1, <1>2
  <2> QED
    BY <1>3, <2>1
<1>5. \A k \in 1 .. Len(m) : m[k].word \in Symbols \cup {NoWord, Space}
  BY <1>1 DEF MNodes
<1> QED
  BY <1>1, <1>2, <1>3, <1>4, <1>5

\* What a merged node shows is a sequence of atoms.
LEMMA PieceType ==
  ASSUME NEW t, NEW side, NEW ot, NEW nt, Sided(t, side, ot, nt),
         NEW m, Grown(m, ot, nt), NEW k \in 1 .. Len(m), NEW H, NEW I, NEW P
  PROVE  Piece(m, k, H, I, t, side, P) \in Seq(Atoms(t))
<1> DEFINE p == ParOf(m, k, side)
           A == Atoms(t)
           x == <<p, "word", m[k].word>>
           y == <<None, "stray">>
<1>1. /\ m[k][side] \in Ids(t) \cup {None} /\ p \in Ids(t) \cup {None}
      /\ m[k].word \in Symbols \cup {NoWord, Space}
  BY SideType
<1>2. IsDoc(t)
  BY DEF Sided
<1>3. CASE Piece(m, k, H, I, t, side, P) = <<>>
  BY <1>3, EmptySeq
<1>4. CASE m[k][side] # None /\ Piece(m, k, H, I, t, side, P) = Shown(t, m[k][side], p, P)
  BY <1>1, <1>2, <1>4, ShownType
<1>5. CASE m[k].word \notin {NoWord, Space} /\ Piece(m, k, H, I, t, side, P) = <<x>>
  <2>1. x \in A
    BY <1>1, <1>5 DEF Atoms
  <2> HIDE DEF x, A
  <2> QED
    BY <1>5, <2>1 DEF A
<1>6. CASE Piece(m, k, H, I, t, side, P) = <<y>>
  <2>1. y \in A
    BY DEF Atoms
  <2> HIDE DEF y, A
  <2> QED
    BY <1>6, <2>1 DEF A
<1> QED
  BY <1>3, <1>4, <1>5, <1>6 DEF Piece

\* What is shown by each node of what is added to m.
More(m, add, away, t, side, P, nt) ==
  [j \in DOMAIN add |-> Piece(m \o add, Len(m) + j, HereAt(m \o add, away),
                              InsideAt(m \o add, nt), t, side, P)]

\* What has been added shows itself and leaves what was there before as it was.
LEMMA ShownGrows ==
  ASSUME NEW t, NEW side, NEW ot, NEW nt, Sided(t, side, ot, nt),
         NEW m, Grown(m, ot, nt), NEW add \in Seq(MNodes(ot, nt)), Grown(m \o add, ot, nt),
         NEW away, NEW P
  PROVE  /\ More(m, add, away, t, side, P, nt) \in Seq(Seq(Atoms(t)))
         /\ Len(More(m, add, away, t, side, P, nt)) = Len(add)
         /\ ShownIn(m \o add, away, t, side, P, nt)
              = ShownIn(m, away, t, side, P, nt)
                  \o Seqs!FlattenSeq(More(m, add, away, t, side, P, nt))
         /\ \A k \in 1 .. Len(m) :
              /\ k \in HereAt(m \o add, away) <=> k \in HereAt(m, away)
              /\ k \in InsideAt(m \o add, nt) <=> k \in InsideAt(m, nt)
<1> DEFINE r == m \o add
           l == Len(m)
           G == HereAt(r, away)
           H == HereAt(m, away)
           J == InsideAt(r, nt)
           I == InsideAt(m, nt)
           A == Atoms(t)
           E == Seq(A)
           more == [j \in DOMAIN add |-> Piece(r, l + j, G, J, t, side, P)]
           a == Pieces(m, away, t, side, P, nt)
           b == Pieces(r, away, t, side, P, nt)
<1>1. /\ m \in Seq(MNodes(ot, nt)) /\ l \in Nat /\ DOMAIN m = 1 .. l
      /\ Len(add) \in Nat /\ DOMAIN add = 1 .. Len(add)
      /\ Len(r) = l + Len(add) /\ DOMAIN r = 1 .. Len(r)
  BY SideType, LenProperties, ConcatProperties DEF Grown
<1>2. /\ \A k \in 1 .. l : r[k] = m[k]
      /\ \A j \in 1 .. Len(add) : r[l + j] = add[j]
  <2>1. \A i \in 1 .. l + Len(add) : r[i] = IF i <= l THEN m[i] ELSE add[i - l]
    BY <1>1, ConcatProperties
  <2> QED
    BY <1>1, <2>1
<1>3. \A k \in 1 .. l : m[k].par \in IF k = 1 THEN {None} ELSE 0 .. k - 2
  BY SideType
<1>4. Rooted(m) /\ Rooted(r)
  BY DEF Grown
<1> HIDE DEF r, G, H, I, J, a, b, l
<1>5. \A k \in 1 .. l : k \in G <=> k \in H
  <2> DEFINE D == 1 .. l
             AA == {k \in D : m[k].chng # away}
             B == {1}
             u == [k \in D |-> m[k].par + 1]
  <2>1. \A k \in D : k \in H <=> k \in AA /\ (k \in B \/ u[k] \in H)
    BY <1>1, <1>4, HereUnfold DEF H
  <2>2. \A k \in 1 .. Len(r) : k \in G <=> r[k].chng # away /\ (k = 1 \/ r[k].par + 1 \in G)
    BY <1>1, <1>4, HereUnfold DEF G
  <2>3. \A k \in D : k \in G <=> k \in AA /\ (k \in B \/ u[k] \in G)
    BY <1>1, <1>2, <2>2
  <2>4. \A k \in D : k \in AA /\ k \notin B => u[k] \in 1 .. k - 1
    BY <1>1, <1>3
  <2>5. Follows(l, AA, B, u, G) /\ Follows(l, AA, B, u, H)
    <3> HIDE DEF AA, B, u
    <3> QED
      BY <2>1, <2>3, <2>4 DEF Follows
  <2> HIDE DEF AA, B, u
  <2> QED
    BY <1>1, <2>5, PassedSame
<1>6. \A k \in 1 .. l : k \in J <=> k \in I
  <2> DEFINE D == 1 .. l
             AA == D \ {1}
             u == [k \in D |-> m[k].par + 1]
             B == {k \in D : k # 1 /\ Holds(m, nt, u[k])}
  <2>1. \A k \in D : k \in AA => u[k] \in 1 .. k - 1 /\ u[k] \in 1 .. l
    BY <1>1, <1>3
  <2>2. \A k \in D : k \in I <=> k # 1 /\ (Holds(m, nt, m[k].par + 1) \/ m[k].par + 1 \in I)
    BY <1>1, <1>4, InsideUnfold DEF I
  <2>3. \A k \in 1 .. Len(r) :
          k \in J <=> k # 1 /\ (Holds(r, nt, r[k].par + 1) \/ r[k].par + 1 \in J)
    BY <1>1, <1>4, InsideUnfold DEF J
  <2>4. \A k \in D : Holds(r, nt, k) <=> Holds(m, nt, k)
    BY <1>2 DEF Holds
  <2>5. \A k \in D : k \in I <=> k \in AA /\ (k \in B \/ u[k] \in I)
    BY <2>2
  <2>6. \A k \in D : k \in J <=> k \in AA /\ (k \in B \/ u[k] \in J)
    <3> SUFFICES ASSUME NEW k \in D PROVE k \in J <=> k \in AA /\ (k \in B \/ u[k] \in J)
      OBVIOUS
    <3>1. k \in 1 .. Len(r)
      BY <1>1
    <3>2. k # 1 => (Holds(r, nt, u[k]) <=> Holds(m, nt, u[k])) /\ r[k].par + 1 = u[k]
      BY <1>2, <2>1, <2>4
    <3> QED
      BY <2>3, <3>1, <3>2
  <2>7. \A k \in D : k \in AA /\ k \notin B => u[k] \in 1 .. k - 1
    BY <2>1
  <2>8. Follows(l, AA, B, u, J) /\ Follows(l, AA, B, u, I)
    <3> HIDE DEF AA, B, u
    <3> QED
      BY <2>5, <2>6, <2>7 DEF Follows
  <2> HIDE DEF AA, B, u
  <2> QED
    BY <1>1, <2>8, PassedSame
<1>7. \A k \in 1 .. l : Piece(r, k, G, J, t, side, P) = Piece(m, k, H, I, t, side, P)
  <2> SUFFICES ASSUME NEW k \in 1 .. l
               PROVE  Piece(r, k, G, J, t, side, P) = Piece(m, k, H, I, t, side, P)
    OBVIOUS
  <2>1. r[k] = m[k]
    BY <1>2
  <2>2. ParOf(r, k, side) = ParOf(m, k, side)
    <3>1. m[k].par # None => m[k].par + 1 \in 1 .. l
      BY <1>1, <1>3
    <3> QED
      BY <1>2, <2>1, <3>1 DEF ParOf
  <2> QED
    BY <1>5, <1>6, <2>1, <2>2, Zenon DEF Piece
<1>8. a \in [1 .. l -> E] /\ b \in [1 .. Len(r) -> E]
  <2>1. \A k \in 1 .. l : Piece(m, k, H, I, t, side, P) \in E
    BY PieceType DEF l
  <2>2. \A k \in 1 .. Len(r) : Piece(r, k, G, J, t, side, P) \in E
    BY PieceType DEF r
  <2> HIDE DEF E
  <2> QED
    BY <1>1, <2>1, <2>2 DEF a, b, Pieces, G, H, I, J
<1>9. more \in [1 .. Len(add) -> E]
  <2>1. \A j \in 1 .. Len(add) : l + j \in 1 .. Len(r)
    BY <1>1
  <2>2. \A k \in 1 .. Len(r) : Piece(r, k, G, J, t, side, P) \in E
    BY PieceType DEF r
  <2> HIDE DEF E
  <2> QED
    BY <1>1, <2>1, <2>2
<1>10. /\ \A k \in 1 .. l : a[k] = Piece(m, k, H, I, t, side, P)
       /\ \A k \in 1 .. Len(r) : b[k] = Piece(r, k, G, J, t, side, P)
       /\ \A j \in 1 .. Len(add) : more[j] = Piece(r, l + j, G, J, t, side, P)
  BY <1>1 DEF a, b, Pieces, G, H, I, J
<1> HIDE DEF more, E
<1>11. /\ a \in Seq(E) /\ Len(a) = l
       /\ b \in Seq(E) /\ Len(b) = l + Len(add)
       /\ more \in Seq(E) /\ Len(more) = Len(add)
  <2>1. Len(r) \in Nat
    BY <1>1
  <2>2. a \in Seq(E) /\ Len(a) = l
    BY <1>1, <1>8, SeqDef
  <2>3. b \in Seq(E) /\ Len(b) = Len(r)
    BY <1>8, <2>1, SeqDef
  <2>4. more \in Seq(E) /\ Len(more) = Len(add)
    BY <1>1, <1>9, SeqDef
  <2> QED
    BY <1>1, <2>2, <2>3, <2>4
<1>12. b = a \o more
  <2>1. /\ a \o more \in Seq(E) /\ Len(a \o more) = l + Len(add)
        /\ \A i \in 1 .. l + Len(add) : (a \o more)[i] = IF i <= l THEN a[i] ELSE more[i - l]
    BY <1>11, ConcatProperties
  <2>2. ASSUME NEW i \in 1 .. Len(b) PROVE b[i] = (a \o more)[i]
    <3>1. CASE i <= l
      <4>1. i \in 1 .. l /\ i \in 1 .. Len(r)
        BY <1>1, <1>11, <2>2, <3>1
      <4> QED
        BY <1>7, <1>10, <1>11, <2>1, <3>1, <4>1
    <3>2. CASE ~(i <= l)
      <4>1. i - l \in 1 .. Len(add) /\ l + (i - l) = i /\ i \in 1 .. Len(r)
        BY <1>1, <1>11, <2>2, <3>2
      <4>2. b[i] = more[i - l]
        BY <1>10, <4>1
      <4> QED
        BY <1>11, <2>1, <3>2, <4>2
    <3> QED
      BY <3>1, <3>2
  <2> QED
    BY <1>11, <2>1, <2>2, SeqEqual
<1>13. Seqs!FlattenSeq(b) = Seqs!FlattenSeq(a) \o Seqs!FlattenSeq(more)
  <2>1. a \in Seq(Seq(A)) /\ more \in Seq(Seq(A))
    BY <1>11 DEF E
  <2> QED
    BY <1>12, <2>1, FlatConcat
<1> QED
  BY <1>5, <1>6, <1>11, <1>13 DEF ShownIn, r, l, G, H, I, J, a, b, E, more, More

\* What is here, and in an opaque node, stays so.
LEMMA HereSame ==
  ASSUME NEW ot, NEW nt, IsDoc(ot), IsDoc(nt),
         NEW m, Grown(m, ot, nt), NEW add \in Seq(MNodes(ot, nt)), Grown(m \o add, ot, nt),
         NEW away
  PROVE  \A k \in 1 .. Len(m) :
           /\ k \in HereAt(m \o add, away) <=> k \in HereAt(m, away)
           /\ k \in InsideAt(m \o add, nt) <=> k \in InsideAt(m, nt)
<1>1. Sided(nt, "n", ot, nt)
  BY DEF Sided
<1>2. /\ ShownIn(m \o add, away, nt, "n", {}, nt)
           = ShownIn(m, away, nt, "n", {}, nt)
               \o Seqs!FlattenSeq(More(m, add, away, nt, "n", {}, nt))
      /\ \A k \in 1 .. Len(m) :
           /\ k \in HereAt(m \o add, away) <=> k \in HereAt(m, away)
           /\ k \in InsideAt(m \o add, nt) <=> k \in InsideAt(m, nt)
  BY <1>1, ShownGrows
<1> QED
  BY <1>2

-------------------------------------------------------------------------------
(***************************************************************************)
(* What is added to the merged tree.                                       *)
(***************************************************************************)

\* The parent of the k-th node of a sub-tree, as a place in it.
Above(s, t, k) == CHOOSE j \in DOMAIN s : s[j] = t.par[s[k]]

\* The clone of a sub-tree s of t under the node m0; first is its root's other side.
Clone(s, t, side, l, m0, chng, first) ==
  [k \in DOMAIN s |->
     Node(IF k = 1 THEN m0 ELSE l - 1 + Above(s, t, k),
          IF k = 1 THEN chng ELSE "none",
          IF side = "o" THEN s[k] ELSE IF k = 1 THEN first ELSE None,
          IF side = "n" THEN s[k] ELSE IF k = 1 THEN first ELSE None,
          NoWord)]

\* Such a clone of the sub-tree of n is added to m.
Cloning(t, side, ot, nt, m, n, m0, chng, first) ==
  /\ Sided(t, side, ot, nt) /\ Grown(m, ot, nt)
  /\ n \in Ids(t) /\ m0 \in 0 .. Len(m) - 1
  /\ chng \in {"none", "delete", "insert"}
  /\ first \in (IF side = "o" THEN Ids(nt) ELSE Ids(ot)) \cup {None}

\* The parent of a node comes before it in a walk.
LEMMA AboveGood ==
  ASSUME NEW t, IsDoc(t), NEW n \in Ids(t)
  PROVE  LET s == PreOrder(t)[n]
         IN  /\ s \in Seq(Ids(t)) /\ Len(s) \in Nat /\ DOMAIN s = 1 .. Len(s)
             /\ 1 \in 1 .. Len(s) /\ s[1] = n
             /\ \A k \in 2 .. Len(s) : Above(s, t, k) \in 1 .. k - 1 /\ s[Above(s, t, k)] = t.par[s[k]]
<1> DEFINE s == PreOrder(t)[n]
<1>1. WalkGood(t, n)
  BY DocIsTree, WalksGood
<1>2. /\ s \in Seq(Ids(t)) /\ Len(s) \in Nat /\ 1 \in 1 .. Len(s) /\ s[1] = n
      /\ \A k \in 2 .. Len(s) : \E j \in 1 .. k - 1 : s[j] = t.par[s[k]]
      /\ \A j, k \in 1 .. Len(s) : s[j] = s[k] => j = k
  BY <1>1 DEF WalkGood
<1>3. DOMAIN s = 1 .. Len(s)
  BY <1>2, LenProperties
<1> HIDE DEF s
<1>4. ASSUME NEW k \in 2 .. Len(s)
      PROVE  Above(s, t, k) \in 1 .. k - 1 /\ s[Above(s, t, k)] = t.par[s[k]]
  <2>1. PICK j \in 1 .. k - 1 : s[j] = t.par[s[k]]
    BY <1>2
  <2>2. j \in DOMAIN s
    BY <1>2, <1>3
  <2>3. Above(s, t, k) \in DOMAIN s /\ s[Above(s, t, k)] = t.par[s[k]]
    BY <2>1, <2>2 DEF Above
  <2>4. Above(s, t, k) = j
    BY <1>2, <1>3, <2>1, <2>2, <2>3
  <2> QED
    BY <2>1, <2>4
<1> QED
  BY <1>2, <1>3, <1>4 DEF s

\* The clone's nodes.
LEMMA CloneType ==
  ASSUME NEW t, NEW side, NEW ot, NEW nt, NEW m, NEW n, NEW m0, NEW chng, NEW first,
         Cloning(t, side, ot, nt, m, n, m0, chng, first)
  PROVE  LET s == PreOrder(t)[n]
             c == Clone(s, t, side, Len(m), m0, chng, first)
         IN  /\ c \in Seq(MNodes(ot, nt)) /\ Len(c) = Len(s) /\ Len(s) \in Nat /\ 1 \in 1 .. Len(s)
             /\ DOMAIN s = 1 .. Len(s) /\ s[1] = n
             /\ c[1].par = m0 /\ c[1].chng = chng
             /\ side = "n" => c[1].o = first
             /\ \A k \in 1 .. Len(s) : c[k].word = NoWord /\ c[k][side] = s[k] /\ s[k] \in Ids(t)
             /\ \A k \in 2 .. Len(s) :
                  /\ c[k].chng = "none"
                  /\ side = "n" => c[k].o = None
                  /\ c[k].par = Len(m) - 1 + Above(s, t, k)
                  /\ Above(s, t, k) \in 1 .. k - 1 /\ s[Above(s, t, k)] = t.par[s[k]]
<1> DEFINE s == PreOrder(t)[n]
           c == Clone(s, t, side, Len(m), m0, chng, first)
           M == MNodes(ot, nt)
<1>1. /\ Sided(t, side, ot, nt) /\ n \in Ids(t) /\ m0 \in 0 .. Len(m) - 1
      /\ chng \in {"none", "delete", "insert"} /\ IsDoc(t)
      /\ first \in (IF side = "o" THEN Ids(nt) ELSE Ids(ot)) \cup {None}
      /\ Len(m) \in Nat
  BY LenProperties DEF Cloning, Grown, Sided
<1>2. /\ s \in Seq(Ids(t)) /\ Len(s) \in Nat /\ DOMAIN s = 1 .. Len(s)
      /\ 1 \in 1 .. Len(s) /\ s[1] = n
      /\ \A k \in 2 .. Len(s) : Above(s, t, k) \in 1 .. k - 1 /\ s[Above(s, t, k)] = t.par[s[k]]
  BY <1>1, AboveGood
<1> HIDE DEF s
<1>3. \A k \in 1 .. Len(s) : s[k] \in Ids(t)
  BY <1>2, ElementOfSeq
<1>4. /\ DOMAIN c = 1 .. Len(s)
      /\ \A k \in 1 .. Len(s) :
           c[k] = Node(IF k = 1 THEN m0 ELSE Len(m) - 1 + Above(s, t, k),
                       IF k = 1 THEN chng ELSE "none",
                       IF side = "o" THEN s[k] ELSE IF k = 1 THEN first ELSE None,
                       IF side = "n" THEN s[k] ELSE IF k = 1 THEN first ELSE None,
                       NoWord)
  BY <1>2 DEF Clone
<1>5. c = [k \in 1 .. Len(s) |-> c[k]]
  BY <1>2 DEF Clone
<1> HIDE DEF c
<1>6. /\ c[1].par = m0 /\ c[1].chng = chng /\ side = "n" => c[1].o = first
  BY <1>1, <1>2, <1>4 DEF Node, Sided
<1>7. ASSUME NEW k \in 1 .. Len(s)
      PROVE  /\ c[k].word = NoWord /\ c[k][side] = s[k]
             /\ c[k].par = IF k = 1 THEN m0 ELSE Len(m) - 1 + Above(s, t, k)
             /\ k # 1 => c[k].chng = "none" /\ (side = "n" => c[k].o = None)
             /\ c[k].chng = IF k = 1 THEN chng ELSE "none"
  BY <1>1, <1>2, <1>4 DEF Node, Sided
<1>8. \A k \in 1 .. Len(s) : c[k] \in M
  <2> SUFFICES ASSUME NEW k \in 1 .. Len(s) PROVE c[k] \in M
    OBVIOUS
  <2>1. (IF k = 1 THEN m0 ELSE Len(m) - 1 + Above(s, t, k)) \in Int
    BY <1>1, <1>2
  <2>2. /\ (IF side = "o" THEN s[k] ELSE IF k = 1 THEN first ELSE None) \in Ids(ot) \cup {None}
        /\ (IF side = "n" THEN s[k] ELSE IF k = 1 THEN first ELSE None) \in Ids(nt) \cup {None}
    BY <1>1, <1>3 DEF Sided
  <2> QED
    BY <1>1, <1>4, <2>1, <2>2 DEF MNodes, Node
<1>9. c \in Seq(M) /\ Len(c) = Len(s)
  <2> HIDE DEF M
  <2>1. c \in [1 .. Len(s) -> M]
    BY <1>5, <1>8
  <2> QED
    BY <1>2, <2>1, SeqDef
<1> QED
  BY <1>2, <1>3, <1>6, <1>7, <1>9 DEF s, c

\* The merged tree stays one.
LEMMA CloneGrows ==
  ASSUME NEW t, NEW side, NEW ot, NEW nt, NEW m, NEW n, NEW m0, NEW chng, NEW first,
         Cloning(t, side, ot, nt, m, n, m0, chng, first)
  PROVE  LET s == PreOrder(t)[n]
             c == Clone(s, t, side, Len(m), m0, chng, first)
             r == m \o c
         IN  /\ Grown(r, ot, nt) /\ Len(r) = Len(m) + Len(s)
             /\ \A k \in 1 .. Len(m) : r[k] = m[k]
             /\ \A k \in 1 .. Len(s) : r[Len(m) + k] = c[k]
<1> DEFINE s == PreOrder(t)[n]
           c == Clone(s, t, side, Len(m), m0, chng, first)
           r == m \o c
           M == MNodes(ot, nt)
           l == Len(m)
<1>1. /\ c \in Seq(M) /\ Len(c) = Len(s) /\ Len(s) \in Nat
      /\ c[1].par = m0
      /\ \A k \in 2 .. Len(s) : c[k].par = l - 1 + Above(s, t, k) /\ Above(s, t, k) \in 1 .. k - 1
  BY CloneType
<1>2. /\ m \in Seq(M) /\ l \in Nat /\ m0 \in 0 .. l - 1
      /\ \A k \in 1 .. l : m[k].par \in IF k = 1 THEN {None} ELSE 0 .. k - 2
  BY LenProperties DEF Cloning, Grown, Rooted
<1> HIDE DEF M, c, l, s
<1>3. /\ r \in Seq(M) /\ Len(r) = l + Len(s) /\ DOMAIN r = 1 .. Len(r)
      /\ \A i \in 1 .. l + Len(s) : r[i] = IF i <= l THEN m[i] ELSE c[i - l]
  <2>1. /\ r \in Seq(M) /\ Len(r) = Len(m) + Len(c)
        /\ \A i \in 1 .. Len(m) + Len(c) : r[i] = IF i <= Len(m) THEN m[i] ELSE c[i - Len(m)]
    <3>1. m \in Seq(M) /\ c \in Seq(M)
      BY <1>1, <1>2
    <3> QED
      BY <3>1, ConcatProperties
  <2> HIDE DEF r
  <2>2. DOMAIN r = 1 .. Len(r)
    BY <2>1, LenProperties
  <2> QED
    BY <1>1, <2>1, <2>2 DEF l
<1> HIDE DEF r
<1>4. \A k \in 1 .. l : r[k] = m[k]
  BY <1>1, <1>2, <1>3
<1>5. \A k \in 1 .. Len(s) : r[l + k] = c[k]
  BY <1>1, <1>2, <1>3
<1>6. ASSUME NEW k \in 1 .. Len(r)
      PROVE  r[k].par \in IF k = 1 THEN {None} ELSE 0 .. k - 2
  <2>1. CASE k \in 1 .. l
    BY <1>2, <1>4, <2>1
  <2>2. CASE k = l + 1
    <3>1. 1 \in 1 .. Len(s) /\ k # 1
      BY <1>1, <1>2, <1>3, <2>2
    <3>2. r[k].par = m0
      BY <1>1, <1>5, <2>2, <3>1
    <3> QED
      BY <1>2, <2>2, <3>1, <3>2
  <2>3. CASE k > l + 1
    <3>1. PICK j \in 2 .. Len(s) : k = l + j
      <4>1. k - l \in 2 .. Len(s) /\ k = l + (k - l)
        BY <1>1, <1>2, <1>3, <2>3
      <4> QED
        BY <4>1
    <3>3. j \in 1 .. Len(s)
      BY <1>1
    <3>2. r[k].par = l - 1 + Above(s, t, j) /\ Above(s, t, j) \in 1 .. j - 1
      <4>1. r[l + j] = c[j]
        BY <1>5, <3>3
      <4> HIDE DEF Above
      <4> QED
        BY <1>1, <3>1, <4>1
    <3> HIDE DEF Above
    <3> QED
      BY <1>1, <1>2, <3>1, <3>2
  <2> QED
    BY <1>1, <1>2, <1>3, <2>1, <2>2, <2>3
<1>7. Grown(r, ot, nt)
  BY <1>3, <1>6 DEF Grown, Rooted, M
<1> QED
  BY <1>3, <1>4, <1>5, <1>7 DEF r, c, s, l

\* The pieces that are added are what is shown in addition.
LEMMA AddShows ==
  ASSUME NEW t, NEW side, NEW ot, NEW nt, Sided(t, side, ot, nt),
         NEW m, Grown(m, ot, nt), NEW add \in Seq(MNodes(ot, nt)), Grown(m \o add, ot, nt),
         NEW away, NEW P, NEW w, DOMAIN w = 1 .. Len(add), w = [j \in DOMAIN w |-> w[j]],
         \A j \in 1 .. Len(add) :
           w[j] = Piece(m \o add, Len(m) + j, HereAt(m \o add, away),
                        InsideAt(m \o add, nt), t, side, P)
  PROVE  /\ ShownIn(m \o add, away, t, side, P, nt)
              = ShownIn(m, away, t, side, P, nt) \o Seqs!FlattenSeq(w)
         /\ w \in Seq(Seq(Atoms(t))) /\ Len(w) = Len(add)
<1> DEFINE more == More(m, add, away, t, side, P, nt)
<1>1. /\ ShownIn(m \o add, away, t, side, P, nt)
           = ShownIn(m, away, t, side, P, nt) \o Seqs!FlattenSeq(more)
      /\ more \in Seq(Seq(Atoms(t))) /\ Len(more) = Len(add)
  BY ShownGrows
<1>2. w = more
  <2>1. DOMAIN add = 1 .. Len(add)
    BY LenProperties
  <2> QED
    BY <2>1 DEF More
<1> HIDE DEF more
<1> QED
  BY <1>1, <1>2

\* If nothing of what is added is shown, all is as it was.
LEMMA AddSilent ==
  ASSUME NEW t, NEW side, NEW ot, NEW nt, Sided(t, side, ot, nt),
         NEW m, Grown(m, ot, nt), NEW add \in Seq(MNodes(ot, nt)), Grown(m \o add, ot, nt),
         NEW away, NEW P,
         \A j \in 1 .. Len(add) :
           Piece(m \o add, Len(m) + j, HereAt(m \o add, away),
                 InsideAt(m \o add, nt), t, side, P) = <<>>
  PROVE  ShownIn(m \o add, away, t, side, P, nt) = ShownIn(m, away, t, side, P, nt)
<1> DEFINE w == [j \in 1 .. Len(add) |-> <<>>]
<1>1. DOMAIN w = 1 .. Len(add) /\ w = [j \in DOMAIN w |-> w[j]]
      /\ \A j \in 1 .. Len(add) : w[j] = <<>>
  OBVIOUS
<1>2. Len(add) \in Nat /\ w \in [1 .. Len(add) -> {<<>>}]
  BY LenProperties
<1> HIDE DEF w
<1>3. ShownIn(m \o add, away, t, side, P, nt)
        = ShownIn(m, away, t, side, P, nt) \o Seqs!FlattenSeq(w)
  BY <1>1, AddShows
<1>4. Seqs!FlattenSeq(w) = <<>>
  BY <1>2, FlatSilent
<1>5. ShownIn(m, away, t, side, P, nt) \in Seq(Atoms(t))
  <2>1. /\ DOMAIN m = 1 .. Len(m) /\ Len(m) \in Nat
    BY SideType
  <2> DEFINE E == Seq(Atoms(t))
  <2>2. \A k \in 1 .. Len(m) : Piece(m, k, HereAt(m, away), InsideAt(m, nt), t, side, P) \in E
    BY PieceType
  <2> HIDE DEF E
  <2>3. Pieces(m, away, t, side, P, nt) \in [1 .. Len(m) -> E]
    BY <2>1, <2>2 DEF Pieces
  <2>4. Pieces(m, away, t, side, P, nt) \in Seq(E)
    BY <2>1, <2>3, SeqDef
  <2> QED
    BY <2>4, FlatType DEF ShownIn, E
<1> QED
  <2> DEFINE A == Atoms(t)
             x == ShownIn(m, away, t, side, P, nt)
  <2> HIDE DEF A, x
  <2>1. x \in Seq(A)
    BY <1>5 DEF A, x
  <2>2. x \o <<>> = x
    BY <2>1, ConcatEmptySeq
  <2> QED
    BY <1>3, <1>4, <2>2 DEF x

\* What a tree shows is a sequence.
LEMMA ShownInType ==
  ASSUME NEW t, NEW side, NEW ot, NEW nt, Sided(t, side, ot, nt),
         NEW m, Grown(m, ot, nt), NEW away, NEW P
  PROVE  ShownIn(m, away, t, side, P, nt) \in Seq(Atoms(t))
<1>1. /\ DOMAIN m = 1 .. Len(m) /\ Len(m) \in Nat
  BY SideType
<1> DEFINE E == Seq(Atoms(t))
<1>2. \A k \in 1 .. Len(m) : Piece(m, k, HereAt(m, away), InsideAt(m, nt), t, side, P) \in E
  BY PieceType
<1> HIDE DEF E
<1>3. Pieces(m, away, t, side, P, nt) \in [1 .. Len(m) -> E]
  BY <1>1, <1>2 DEF Pieces
<1>4. Pieces(m, away, t, side, P, nt) \in Seq(E)
  BY <1>1, <1>3, SeqDef
<1> QED
  BY <1>4, FlatType DEF ShownIn, E

\* All of a clone is here, or nothing of it.
LEMMA CloneHere ==
  ASSUME NEW t, NEW side, NEW ot, NEW nt, NEW m, NEW n, NEW m0, NEW chng, NEW first,
         Cloning(t, side, ot, nt, m, n, m0, chng, first), NEW away, away # "none"
  PROVE  LET s == PreOrder(t)[n]
             r == m \o Clone(s, t, side, Len(m), m0, chng, first)
         IN  \A k \in 1 .. Len(s) :
               Len(m) + k \in HereAt(r, away) <=> chng # away /\ m0 + 1 \in HereAt(m, away)
<1> DEFINE s == PreOrder(t)[n]
           c == Clone(s, t, side, Len(m), m0, chng, first)
           r == m \o c
           l == Len(m)
           G == HereAt(r, away)
           T == {k \in 1 .. Len(s) : ~(l + k \in G <=> chng # away /\ m0 + 1 \in HereAt(m, away))}
<1>1. /\ Len(s) \in Nat /\ 1 \in 1 .. Len(s)
      /\ c[1].par = m0 /\ c[1].chng = chng
      /\ \A k \in 2 .. Len(s) : /\ c[k].chng = "none" /\ c[k].par = l - 1 + Above(s, t, k)
                                /\ Above(s, t, k) \in 1 .. k - 1
      /\ c \in Seq(MNodes(ot, nt))
  BY CloneType
<1>2. /\ Grown(r, ot, nt) /\ Len(r) = l + Len(s)
      /\ \A k \in 1 .. Len(s) : r[l + k] = c[k]
  BY CloneGrows
<1>3. l \in Nat /\ m0 \in 0 .. l - 1 /\ Len(r) \in Nat /\ DOMAIN r = 1 .. Len(r)
  BY <1>2, LenProperties DEF Cloning, Grown
<1>4. \A k \in 1 .. Len(r) : k \in G <=> r[k].chng # away /\ (k = 1 \/ r[k].par + 1 \in G)
  BY <1>2, <1>3, HereUnfold DEF Grown
<1>5. m0 + 1 \in G <=> m0 + 1 \in HereAt(m, away)
  <2>1. IsDoc(ot) /\ IsDoc(nt) /\ Grown(m, ot, nt)
    BY DEF Cloning, Sided
  <2>2. \A k \in 1 .. Len(m) : k \in HereAt(m \o c, away) <=> k \in HereAt(m, away)
    <3> HIDE DEF c
    <3> QED
      BY <1>1, <1>2, <2>1, HereSame
  <2>3. m0 + 1 \in 1 .. Len(m)
    BY <1>3
  <2> QED
    BY <2>2, <2>3
<1> SUFFICES ASSUME T # {} PROVE FALSE
  OBVIOUS
<1> HIDE DEF c, r, l, G, s
<1>6. PICK k \in T : \A j \in T : k <= j
  <2>1. T \in SUBSET Nat
    BY <1>1
  <2> HIDE DEF T
  <2> QED
    BY <2>1, LeastOf
<1>7. k \in 1 .. Len(s) /\ l + k \in 1 .. Len(r) /\ l + k # 1
  BY <1>1, <1>2, <1>3
<1>8. CASE k = 1
  <2>1. l + k \in G <=> chng # away /\ m0 + 1 \in G
    BY <1>1, <1>2, <1>4, <1>7, <1>8
  <2> QED
    BY <1>5, <1>6, <2>1
<1>9. CASE k # 1
  <2>1. k \in 2 .. Len(s)
    BY <1>1, <1>7, <1>9
  <2> DEFINE j == Above(s, t, k)
  <2>2. j \in 1 .. k - 1 /\ c[k].chng = "none" /\ c[k].par = l - 1 + j
    BY <1>1, <2>1
  <2> HIDE DEF j
  <2>3. r[l + k].par + 1 = l + j /\ r[l + k].chng # away
    BY <1>2, <1>3, <1>7, <2>2
  <2>4. l + k \in G <=> l + j \in G
    BY <1>4, <1>7, <2>3
  <2>5. j \in 1 .. Len(s) /\ ~(k <= j)
    BY <1>1, <1>7, <2>2
  <2>6. j \notin T
    BY <1>6, <2>5
  <2> QED
    BY <1>6, <2>4, <2>5, <2>6
<1> QED
  BY <1>8, <1>9

\* A clone that is away, or below what is, shows nothing on either side.
LEMMA CloneAway ==
  ASSUME NEW t, NEW side, NEW ot, NEW nt, NEW m, NEW n, NEW m0, NEW chng, NEW first,
         Cloning(t, side, ot, nt, m, n, m0, chng, first),
         NEW u, NEW where, Sided(u, where, ot, nt), NEW P, chng # "none"
  PROVE  LET c == Clone(PreOrder(t)[n], t, side, Len(m), m0, chng, first)
         IN  ShownIn(m \o c, chng, u, where, P, nt) = ShownIn(m, chng, u, where, P, nt)
<1> DEFINE s == PreOrder(t)[n]
           c == Clone(s, t, side, Len(m), m0, chng, first)
<1>1. c \in Seq(MNodes(ot, nt)) /\ Len(c) = Len(s) /\ Grown(m, ot, nt) /\ Grown(m \o c, ot, nt)
  <2>1. Grown(m, ot, nt)
    BY DEF Cloning
  <2>2. c \in Seq(MNodes(ot, nt)) /\ Len(c) = Len(s)
    BY CloneType
  <2>3. Grown(m \o c, ot, nt)
    BY CloneGrows
  <2> QED
    BY <2>1, <2>2, <2>3
<1>2. \A j \in 1 .. Len(c) : Len(m) + j \notin HereAt(m \o c, chng)
  BY <1>1, CloneHere
<1> HIDE DEF c
<1>3. \A j \in 1 .. Len(c) :
        Piece(m \o c, Len(m) + j, HereAt(m \o c, chng), InsideAt(m \o c, nt), u, where, P) = <<>>
  BY <1>2 DEF Piece
<1> QED
  BY <1>1, <1>3, AddSilent DEF c

\* A clone that is here shows what the sub-tree does.
LEMMA CloneShown ==
  ASSUME NEW t, NEW side, NEW ot, NEW nt, NEW m, NEW n, NEW m0, NEW chng, NEW first,
         Cloning(t, side, ot, nt, m, n, m0, chng, first), NEW P,
         NEW away, away # "none", away # chng, m0 + 1 \in HereAt(m, away),
         m[m0 + 1][side] = t.par[n]
  PROVE  LET c == Clone(PreOrder(t)[n], t, side, Len(m), m0, chng, first)
         IN  ShownIn(m \o c, away, t, side, P, nt)
               = ShownIn(m, away, t, side, P, nt) \o Reading(t, P, n)
<1> DEFINE s == PreOrder(t)[n]
           c == Clone(s, t, side, Len(m), m0, chng, first)
           r == m \o c
           l == Len(m)
           w == [j \in DOMAIN s |-> Shown(t, s[j], t.par[s[j]], P)]
           X(j) == Piece(r, l + j, HereAt(r, away), InsideAt(r, nt), t, side, P)
<1>1. /\ c \in Seq(MNodes(ot, nt)) /\ Len(c) = Len(s) /\ Len(s) \in Nat /\ 1 \in 1 .. Len(s)
      /\ DOMAIN s = 1 .. Len(s) /\ s[1] = n /\ c[1].par = m0
      /\ \A k \in 1 .. Len(s) : c[k].word = NoWord /\ c[k][side] = s[k] /\ s[k] \in Ids(t)
      /\ \A k \in 2 .. Len(s) :
           /\ c[k].par = l - 1 + Above(s, t, k)
           /\ Above(s, t, k) \in 1 .. k - 1 /\ s[Above(s, t, k)] = t.par[s[k]]
  BY CloneType
<1>2. /\ Grown(m, ot, nt) /\ Grown(r, ot, nt) /\ Sided(t, side, ot, nt)
      /\ \A k \in 1 .. l : r[k] = m[k]
      /\ \A k \in 1 .. Len(s) : r[l + k] = c[k]
  <2>1. Grown(m, ot, nt) /\ Sided(t, side, ot, nt)
    BY DEF Cloning
  <2>2. /\ Grown(r, ot, nt)
        /\ \A k \in 1 .. l : r[k] = m[k]
        /\ \A k \in 1 .. Len(s) : r[l + k] = c[k]
    BY CloneGrows
  <2> QED
    BY <2>1, <2>2
<1>3. \A k \in 1 .. Len(s) : l + k \in HereAt(r, away)
  BY CloneHere
<1>4. l \in Nat /\ m0 \in 0 .. l - 1 /\ IsTree(t)
  BY LenProperties, DocIsTree DEF Cloning, Grown, Sided
<1>5. NoWord # Space /\ \A x \in Ids(t) : x # None
  BY <1>4 DEF IsTree, NoWord, Space, None
<1>6. ASSUME NEW j \in 1 .. Len(s) PROVE w[j] = X(j)
  <2>1. r[l + j].word = NoWord /\ r[l + j][side] = s[j] /\ s[j] # None
    BY <1>1, <1>2, <1>5
  <2>2. ParOf(r, l + j, side) = t.par[s[j]]
    <3> HIDE DEF s, c, r, l
    <3>1. CASE j = 1
      <4>1. r[l + j].par = m0 /\ m0 # None /\ r[m0 + 1] = m[m0 + 1]
        BY <1>1, <1>2, <1>4, <3>1 DEF None
      <4> QED
        BY <1>1, <3>1, <4>1 DEF ParOf
    <3>2. CASE j # 1
      <4>1. j \in 2 .. Len(s)
        BY <1>1, <3>2
      <4> DEFINE i == Above(s, t, j)
      <4>2. i \in 1 .. j - 1 /\ s[i] = t.par[s[j]] /\ c[j].par = l - 1 + i
        BY <1>1, <4>1
      <4> HIDE DEF i
      <4>3. i \in 1 .. Len(s)
        BY <1>1, <4>2
      <4>4. r[l + j].par = l - 1 + i /\ r[l + i][side] = s[i]
        BY <1>1, <1>2, <4>2, <4>3
      <4>5. l - 1 + i # None /\ l - 1 + i + 1 = l + i
        BY <1>4, <4>2 DEF None
      <4> QED
        BY <4>2, <4>4, <4>5 DEF ParOf
    <3> QED
      BY <3>1, <3>2
  <2>3. X(j) = Shown(t, s[j], t.par[s[j]], P)
    BY <1>3, <1>5, <2>1, <2>2 DEF Piece
  <2> QED
    BY <1>1, <2>3
<1>7. DOMAIN w = 1 .. Len(c) /\ w = [j \in DOMAIN w |-> w[j]]
  BY <1>1
<1>8. Reading(t, P, n) = Seqs!FlattenSeq(w)
  BY DEF Reading, ShownOf
<1> HIDE DEF c, w, s
<1>9. ShownIn(m \o c, away, t, side, P, nt)
        = ShownIn(m, away, t, side, P, nt) \o Seqs!FlattenSeq(w)
  BY <1>1, <1>2, <1>6, <1>7, AddShows
<1> QED
  BY <1>8, <1>9 DEF c, s

\* The elements of two sequences, one behind the other.
LEMMA JoinAt ==
  ASSUME NEW S, NEW a \in Seq(S), NEW b \in Seq(S)
  PROVE  /\ a \o b \in Seq(S) /\ Len(a \o b) = Len(a) + Len(b)
         /\ Len(a) \in Nat /\ Len(b) \in Nat
         /\ DOMAIN a = 1 .. Len(a) /\ DOMAIN b = 1 .. Len(b)
         /\ DOMAIN (a \o b) = 1 .. (Len(a) + Len(b))
         /\ \A i \in 1 .. Len(a) : (a \o b)[i] = a[i]
         /\ \A i \in 1 .. Len(b) : (a \o b)[Len(a) + i] = b[i]
<1> DEFINE r == a \o b
<1>1. /\ r \in Seq(S) /\ Len(r) = Len(a) + Len(b)
      /\ \A i \in 1 .. Len(a) + Len(b) : r[i] = IF i <= Len(a) THEN a[i] ELSE b[i - Len(a)]
  BY ConcatProperties
<1>2. Len(a) \in Nat /\ Len(b) \in Nat /\ DOMAIN a = 1 .. Len(a) /\ DOMAIN b = 1 .. Len(b)
  BY LenProperties
<1> HIDE DEF r
<1>3. DOMAIN r = 1 .. Len(r)
  BY <1>1, LenProperties
<1>4. \A i \in 1 .. Len(a) : r[i] = a[i]
  BY <1>1, <1>2
<1>5. \A i \in 1 .. Len(b) : r[Len(a) + i] = b[i]
  BY <1>1, <1>2
<1> QED
  BY <1>1, <1>2, <1>3, <1>4, <1>5 DEF r

\* A merged node that stands for an old and a new one.
Kept(m0, o, n) == Node(m0, "none", o, n, NoWord)

\* A node that is kept is added below one that is there.
LEMMA KeepGrows ==
  ASSUME NEW ot, NEW nt, IsDoc(ot), IsDoc(nt), NEW m, Grown(m, ot, nt),
         NEW m0 \in 0 .. Len(m) - 1, NEW o \in Ids(ot), NEW n \in Ids(nt)
  PROVE  LET r == m \o <<Kept(m0, o, n)>>
         IN  /\ Grown(r, ot, nt) /\ Len(r) = Len(m) + 1 /\ <<Kept(m0, o, n)>> \in Seq(MNodes(ot, nt))
             /\ \A k \in 1 .. Len(m) : r[k] = m[k]
             /\ r[Len(m) + 1] = Kept(m0, o, n)
<1> DEFINE M == MNodes(ot, nt)
           v == Kept(m0, o, n)
           add == <<v>>
           r == m \o add
           l == Len(m)
<1>1. /\ m \in Seq(M) /\ l \in Nat
      /\ \A k \in 1 .. l : m[k].par \in IF k = 1 THEN {None} ELSE 0 .. k - 2
  BY LenProperties DEF Grown, Rooted
<1>2. v \in M /\ v.par = m0
  BY DEF Kept, Node, MNodes
<1> HIDE DEF M, v
<1>3. add \in Seq(M) /\ Len(add) = 1 /\ add[1] = v
  BY <1>2
<1> HIDE DEF add
<1>4. m \in Seq(M) /\ add \in Seq(M)
  BY <1>1, <1>3
<1>5. /\ r \in Seq(M) /\ Len(r) = l + Len(add) /\ DOMAIN r = 1 .. (l + Len(add))
      /\ \A i \in 1 .. l : r[i] = m[i]
      /\ \A i \in 1 .. Len(add) : r[l + i] = add[i]
  BY <1>4, JoinAt
<1> HIDE DEF r, l
<1>6. (\A k \in 1 .. l : r[k] = m[k]) /\ r[l + 1] = v /\ Len(r) = l + 1 /\ DOMAIN r = 1 .. l + 1
  <2>1. 1 \in 1 .. Len(add)
    BY <1>3
  <2> QED
    BY <1>3, <1>5, <2>1
<1>7. \A k \in 1 .. l + 1 : r[k].par \in IF k = 1 THEN {None} ELSE 0 .. k - 2
  <2>1. m0 \in 0 .. l - 1
    BY DEF l
  <2>2. r[l + 1].par = m0
    BY <1>2, <1>6
  <2>3. \A k \in 1 .. l : r[k].par \in IF k = 1 THEN {None} ELSE 0 .. k - 2
    BY <1>1, <1>6
  <2> SUFFICES ASSUME NEW k \in 1 .. l + 1
               PROVE  r[k].par \in IF k = 1 THEN {None} ELSE 0 .. k - 2
    OBVIOUS
  <2>4. k \in 1 .. l \/ k = l + 1
    BY <1>1
  <2>5. CASE k \in 1 .. l
    BY <2>3, <2>5
  <2>6. CASE k = l + 1
    <3>1. k # 1 /\ m0 \in 0 .. k - 2
      BY <1>1, <2>1, <2>6
    <3>2. r[k].par = m0
      BY <2>2, <2>6
    <3> QED
      BY <3>1, <3>2
  <2> QED
    BY <2>4, <2>5, <2>6
<1>8. Grown(r, ot, nt)
  BY <1>5, <1>6, <1>7 DEF Grown, Rooted, M
<1> QED
  BY <1>3, <1>6, <1>8 DEF r, l, add, v, M

\* Such a node is added to m, under one that is here.
Keeping(t, side, ot, nt, m, m0, o, n, add, away) ==
  /\ Sided(t, side, ot, nt) /\ Grown(m, ot, nt) /\ m0 \in 0 .. Len(m) - 1
  /\ o \in Ids(ot) /\ n \in Ids(nt) /\ add = <<Kept(m0, o, n)>>
  /\ away # "none" /\ m0 + 1 \in HereAt(m, away)

\* It shows itself and is here.
LEMMA KeepShown ==
  ASSUME NEW t, NEW side, NEW ot, NEW nt, NEW m, NEW m0, NEW o, NEW n, NEW add, NEW away,
         Keeping(t, side, ot, nt, m, m0, o, n, add, away), NEW P
  PROVE  /\ ShownIn(m \o add, away, t, side, P, nt)
              = ShownIn(m, away, t, side, P, nt) \o Shown(t, add[1][side], m[m0 + 1][side], P)
         /\ Len(m) + 1 \in HereAt(m \o add, away)
<1> DEFINE v == Kept(m0, o, n)
           r == m \o add
           l == Len(m)
           X == Shown(t, v[side], m[m0 + 1][side], P)
           w == <<X>>
<1>0. /\ Sided(t, side, ot, nt) /\ Grown(m, ot, nt) /\ m0 \in 0 .. Len(m) - 1
      /\ o \in Ids(ot) /\ n \in Ids(nt) /\ add = <<v>> /\ add[1] = v
      /\ away # "none" /\ m0 + 1 \in HereAt(m, away)
      /\ IsDoc(ot) /\ IsDoc(nt) /\ IsDoc(t)
  BY DEF Keeping, Sided
<1>1. /\ Grown(r, ot, nt) /\ Len(r) = l + 1 /\ add \in Seq(MNodes(ot, nt))
      /\ \A k \in 1 .. l : r[k] = m[k]
      /\ r[l + 1] = v
  <2> DEFINE q == <<v>>
  <2>1. /\ Grown(m \o q, ot, nt) /\ Len(m \o q) = l + 1 /\ q \in Seq(MNodes(ot, nt))
        /\ \A k \in 1 .. Len(m) : (m \o q)[k] = m[k]
        /\ (m \o q)[l + 1] = v
    <3>1. /\ IsDoc(ot) /\ IsDoc(nt) /\ Grown(m, ot, nt) /\ m0 \in 0 .. Len(m) - 1
          /\ o \in Ids(ot) /\ n \in Ids(nt)
      BY <1>0
    <3> QED
      BY <3>1, KeepGrows
  <2>2. add = q
    BY <1>0
  <2> HIDE DEF q, v
  <2> QED
    BY <2>1, <2>2
<1>2. l \in Nat /\ Len(r) \in Nat /\ DOMAIN r = 1 .. Len(r) /\ l + 1 \in 1 .. Len(r) /\ l + 1 # 1
      /\ m0 + 1 \in 1 .. l /\ m0 # None
  <2>1. l \in Nat /\ DOMAIN r = 1 .. Len(r)
    BY <1>0, <1>1, LenProperties DEF Grown
  <2> HIDE DEF r
  <2> QED
    BY <1>0, <1>1, <2>1 DEF None
<1>3. v.par = m0 /\ v.chng = "none" /\ v.word = NoWord /\ v[side] \in Ids(t)
  BY <1>0 DEF Kept, Node, Sided
<1>4. /\ m0 + 1 \in HereAt(r, away) <=> m0 + 1 \in HereAt(m, away)
      /\ m0 + 1 \in InsideAt(r, nt) <=> m0 + 1 \in InsideAt(m, nt)
  <2> HIDE DEF r
  <2>1. \A k \in 1 .. Len(m) :
          /\ k \in HereAt(r, away) <=> k \in HereAt(m, away)
          /\ k \in InsideAt(r, nt) <=> k \in InsideAt(m, nt)
    BY <1>0, <1>1, HereSame DEF r
  <2> QED
    BY <1>2, <2>1
<1>5. l + 1 \in HereAt(r, away)
  <2> HIDE DEF r, v, l
  <2>1. \A k \in 1 .. Len(r) :
          k \in HereAt(r, away) <=> r[k].chng # away /\ (k = 1 \/ r[k].par + 1 \in HereAt(r, away))
    BY <1>1, <1>2, HereUnfold DEF Grown
  <2> QED
    BY <1>0, <1>1, <1>2, <1>3, <1>4, <2>1
<1>7. Piece(r, l + 1, HereAt(r, away), InsideAt(r, nt), t, side, P) = X
  <2> HIDE DEF r, v, l
  <2>1. ParOf(r, l + 1, side) = m[m0 + 1][side]
    BY <1>1, <1>2, <1>3 DEF ParOf
  <2>2. v[side] # None /\ NoWord # Space
    BY <1>0, <1>3, DocIsTree DEF IsTree, None, NoWord, Space
  <2> QED
    BY <1>1, <1>3, <1>5, <2>1, <2>2 DEF Piece
<1>8. Len(add) = 1
  BY <1>0
<1>9. X \in Seq(Atoms(t))
  <2>1. m[m0 + 1][side] \in Ids(t) \cup {None}
    BY <1>0, <1>2, SideType
  <2> QED
    BY <1>0, <1>3, <2>1, ShownType
<1>10. DOMAIN w = 1 .. 1 /\ w = [j \in DOMAIN w |-> w[j]] /\ w[1] = X
  OBVIOUS
<1> HIDE DEF X, w, v
<1>11. ShownIn(m \o add, away, t, side, P, nt)
         = ShownIn(m, away, t, side, P, nt) \o Seqs!FlattenSeq(w)
  <2>1. \A j \in 1 .. Len(add) :
          w[j] = Piece(m \o add, Len(m) + j, HereAt(m \o add, away),
                       InsideAt(m \o add, nt), t, side, P)
    BY <1>7, <1>8, <1>10
  <2>2. Sided(t, side, ot, nt) /\ Grown(m, ot, nt)
    BY <1>0
  <2> QED
    BY <1>1, <1>8, <1>10, <2>1, <2>2, AddShows
<1>12. Seqs!FlattenSeq(w) = X
  BY <1>9, FlatSingle DEF w
<1> QED
  <2>1. X = Shown(t, add[1][side], m[m0 + 1][side], P)
    BY <1>0, Zenon DEF X
  <2>2. Len(m) + 1 \in HereAt(m \o add, away)
    BY <1>5
  <2> QED
    BY <1>11, <1>12, <2>1, <2>2, Zenon

\* The clone of an opaque new node shows nothing but the old node on the old side.
LEMMA OpaqueShown ==
  ASSUME NEW ot, NEW nt, NEW m, NEW n, NEW m0, NEW first,
         Cloning(nt, "n", ot, nt, m, n, m0, "none", first), first # None, IsOpaque(nt, n),
         NEW P, NEW away, away # "none", m0 + 1 \in HereAt(m, away)
  PROVE  LET c == Clone(PreOrder(nt)[n], nt, "n", Len(m), m0, "none", first)
         IN  ShownIn(m \o c, away, ot, "o", P, nt)
               = ShownIn(m, away, ot, "o", P, nt) \o Shown(ot, first, m[m0 + 1].o, P)
<1> DEFINE s == PreOrder(nt)[n]
           c == Clone(s, nt, "n", Len(m), m0, "none", first)
           r == m \o c
           l == Len(m)
           X == Shown(ot, first, m[m0 + 1].o, P)
           e == <<>>
           w == [j \in 1 .. Len(c) |-> IF j = 1 THEN X ELSE e]
           J == InsideAt(r, nt)
<1>0. /\ Sided(ot, "o", ot, nt) /\ IsDoc(ot) /\ IsDoc(nt) /\ Grown(m, ot, nt)
      /\ first \in Ids(ot) /\ n \in Ids(nt) /\ m0 \in 0 .. l - 1 /\ l \in Nat
  <2>1. /\ Sided(nt, "n", ot, nt) /\ Grown(m, ot, nt) /\ n \in Ids(nt) /\ m0 \in 0 .. l - 1
        /\ first \in Ids(ot)
    BY DEF Cloning
  <2>2. l \in Nat
    BY <2>1, LenProperties DEF Grown
  <2>3. IsDoc(ot) /\ IsDoc(nt)
    BY <2>1 DEF Sided
  <2>4. Sided(ot, "o", ot, nt)
    BY <2>3 DEF Sided
  <2> HIDE DEF l
  <2> QED
    BY <2>1, <2>2, <2>3, <2>4
<1>1. /\ c \in Seq(MNodes(ot, nt)) /\ Len(c) = Len(s) /\ Len(s) \in Nat /\ 1 \in 1 .. Len(s)
      /\ s[1] = n /\ c[1].par = m0 /\ c[1].o = first
      /\ \A k \in 1 .. Len(s) : c[k].word = NoWord /\ c[k]["n"] = s[k] /\ s[k] \in Ids(nt)
      /\ \A k \in 2 .. Len(s) :
           /\ c[k].o = None
           /\ c[k].par = l - 1 + Above(s, nt, k)
           /\ Above(s, nt, k) \in 1 .. k - 1
  BY CloneType
<1>2. /\ Grown(r, ot, nt) /\ Len(r) = l + Len(s)
      /\ \A k \in 1 .. l : r[k] = m[k]
      /\ \A k \in 1 .. Len(s) : r[l + k] = c[k]
  BY CloneGrows
<1>3. \A k \in 1 .. Len(s) : l + k \in HereAt(r, away)
  BY CloneHere
<1> HIDE DEF c, s
<1>4. DOMAIN r = 1 .. Len(r) /\ Len(r) \in Nat
  BY <1>2, LenProperties DEF Grown
<1> HIDE DEF l, r
<1>5. n # None /\ NoWord # Space /\ m0 # None
  BY <1>0, DocIsTree DEF IsTree, None, NoWord, Space
<1>6. \A k \in 1 .. Len(r) :
        k \in J <=> k # 1 /\ (Holds(r, nt, r[k].par + 1) \/ r[k].par + 1 \in J)
  BY <1>2, <1>4, InsideUnfold DEF Grown
<1>7. \A k \in 2 .. Len(s) : l + k \in J
  <2> DEFINE T == {k \in 2 .. Len(s) : l + k \notin J}
  <2> SUFFICES ASSUME T # {} PROVE FALSE
    OBVIOUS
  <2> HIDE DEF J
  <2>1. PICK k \in T : \A j \in T : k <= j
    <3>1. T \in SUBSET Nat
      BY <1>1
    <3> HIDE DEF T
    <3> QED
      BY <3>1, LeastOf
  <2> DEFINE j == Above(s, nt, k)
  <2>2. k \in 2 .. Len(s) /\ j \in 1 .. k - 1 /\ c[k].par = l - 1 + j
    BY <1>1
  <2> HIDE DEF j
  <2>3. l + k \in 1 .. Len(r) /\ l + k # 1 /\ r[l + k].par + 1 = l + j
    <3>1. k \in 1 .. Len(s) /\ j \in Int /\ l \in Nat
      BY <1>0, <1>1, <2>2
    <3>2. r[l + k] = c[k]
      BY <1>2, <3>1
    <3>3. l + k \in 1 .. Len(r) /\ l + k # 1
      BY <1>1, <1>2, <2>2, <3>1
    <3> QED
      BY <2>2, <3>1, <3>2, <3>3
  <2>4. CASE j = 1
    <3>1. r[l + 1] = c[1] /\ c[1]["n"] = n
      BY <1>1, <1>2
    <3>2. Holds(r, nt, l + 1)
      BY <1>5, <3>1 DEF Holds
    <3> QED
      BY <1>6, <2>1, <2>3, <2>4, <3>2
  <2>5. CASE j # 1
    <3>1. j \in 2 .. Len(s) /\ ~(k <= j)
      BY <1>1, <2>2, <2>5
    <3>2. l + j \in J
      BY <2>1, <3>1
    <3> QED
      BY <1>6, <2>1, <2>3, <3>2
  <2> QED
    BY <2>4, <2>5
<1>8. ASSUME NEW j \in 1 .. Len(s)
      PROVE  Piece(r, l + j, HereAt(r, away), J, ot, "o", P) = IF j = 1 THEN X ELSE e
  <2> HIDE DEF J
  <2>1. CASE j = 1
    <3>1. r[l + j].word = NoWord /\ r[l + j].o = first /\ r[l + j].par = m0
      BY <1>1, <1>2, <2>1
    <3>2. r[m0 + 1] = m[m0 + 1]
      BY <1>0, <1>2
    <3>3. ParOf(r, l + j, "o") = m[m0 + 1].o
      BY <1>5, <3>1, <3>2 DEF ParOf
    <3> QED
      BY <1>3, <1>5, <2>1, <3>1, <3>3 DEF Piece
  <2>2. CASE j # 1
    <3>1. j \in 2 .. Len(s)
      BY <1>1, <2>2
    <3>2. r[l + j].o = None /\ l + j \in J
      BY <1>1, <1>2, <1>7, <3>1
    <3> QED
      BY <2>2, <3>2 DEF Piece
  <2> QED
    BY <2>1, <2>2
<1>9. DOMAIN w = 1 .. Len(c) /\ w = [j \in DOMAIN w |-> w[j]] /\ w[1] = X
      /\ \A j \in 1 .. Len(c) : w[j] = IF j = 1 THEN X ELSE e
  BY <1>1
<1>10. X \in Seq(Atoms(ot))
  <2>1. m0 + 1 \in 1 .. Len(m)
    BY <1>0 DEF l
  <2>2. m[m0 + 1].o \in Ids(ot) \cup {None}
    BY <1>0, <2>1, SideType
  <2> QED
    BY <1>0, <2>2, ShownType
<1> HIDE DEF w, X, e, J
<1>11. ShownIn(m \o c, away, ot, "o", P, nt)
         = ShownIn(m, away, ot, "o", P, nt) \o Seqs!FlattenSeq(w)
  <2>1. \A j \in 1 .. Len(c) :
          w[j] = Piece(m \o c, Len(m) + j, HereAt(m \o c, away),
                       InsideAt(m \o c, nt), ot, "o", P)
    BY <1>1, <1>8, <1>9 DEF J, r, l
  <2>2. Grown(m \o c, ot, nt)
    BY <1>2 DEF r
  <2>3. c \in Seq(MNodes(ot, nt)) /\ DOMAIN w = 1 .. Len(c) /\ w = [j \in DOMAIN w |-> w[j]]
    BY <1>1, <1>9
  <2> QED
    BY <1>0, <2>1, <2>2, <2>3, AddShows
<1>12. Seqs!FlattenSeq(w) = X
  <2> DEFINE A == Atoms(ot)
             a == <<X>>
             b == [j \in 1 .. Len(c) - 1 |-> e]
  <2>1. a \in Seq(Seq(A)) /\ Len(a) = 1 /\ a[1] = X
    <3> DEFINE E == Seq(A)
    <3>1. X \in E
      BY <1>10
    <3> HIDE DEF E
    <3> QED
      BY <3>1 DEF E
  <2>2. Len(c) - 1 \in Nat /\ b \in [1 .. Len(c) - 1 -> {<<>>}]
    BY <1>1 DEF e
  <2> DEFINE E == Seq(A)
  <2>3. e \in E
    BY EmptySeq DEF e
  <2>0. Len(c) \in Nat
    BY <1>1
  <2> HIDE DEF E, a
  <2>4. b \in Seq(E) /\ Len(b) = Len(c) - 1 /\ \A j \in 1 .. Len(c) - 1 : b[j] = e
    <3>1. b \in [1 .. Len(c) - 1 -> E]
      BY <2>3
    <3> HIDE DEF b
    <3>2. b \in Seq(E) /\ Len(b) = Len(c) - 1
      BY <2>2, <3>1, SeqDef
    <3> QED
      BY <3>2 DEF b
  <2>5. w \in Seq(E) /\ Len(w) = Len(c)
    <3>1. X \in E
      BY <1>10 DEF E
    <3>2. w \in [1 .. Len(c) -> E]
      BY <2>3, <3>1 DEF w
    <3> QED
      BY <2>0, <3>2, SeqDef
  <2> HIDE DEF b
  <2>6. w = a \o b
    <3>0. a \in Seq(E)
      BY <2>1 DEF E
    <3>00. b \in Seq(E)
      BY <2>4
    <3>1. /\ a \o b \in Seq(E) /\ Len(a \o b) = Len(a) + Len(b)
          /\ \A i \in 1 .. Len(a) : (a \o b)[i] = a[i]
          /\ \A i \in 1 .. Len(b) : (a \o b)[Len(a) + i] = b[i]
      BY <3>0, <3>00, JoinAt
    <3>2. ASSUME NEW i \in 1 .. Len(w) PROVE w[i] = (a \o b)[i]
      <4>1. i \in 1 .. Len(c)
        BY <2>5
      <4>2. CASE i = 1
        <5>1. 1 \in 1 .. Len(a)
          BY <2>1
        <5> QED
          BY <1>9, <2>1, <3>1, <4>2, <5>1
      <4>3. CASE i # 1
        <5>1. i - 1 \in 1 .. Len(b) /\ 1 + (i - 1) = i
          BY <2>0, <2>4, <4>1, <4>3
        <5>2. w[i] = e /\ b[i - 1] = e
          BY <1>9, <2>4, <4>1, <4>3, <5>1
        <5> QED
          BY <2>1, <3>1, <5>1, <5>2
      <4> QED
        BY <4>2, <4>3
    <3>3. Len(a \o b) = Len(w)
      BY <2>0, <2>1, <2>4, <2>5, <3>1
    <3> QED
      BY <2>5, <3>1, <3>2, <3>3, SeqEqual
  <2>7. Seqs!FlattenSeq(b) = <<>>
    BY <2>2, FlatSilent
  <2>8. b \in Seq(Seq(A)) /\ X \in Seq(A)
    BY <1>10, <2>4 DEF E
  <2> HIDE DEF A
  <2>9. Seqs!FlattenSeq(a \o b) = X \o Seqs!FlattenSeq(b)
    BY <2>8, FlatCons DEF a
  <2>10. X \o <<>> = X
    BY <2>8, ConcatEmptySeq
  <2> QED
    BY <2>6, <2>7, <2>9, <2>10
<1> QED
  BY <1>11, <1>12 DEF c, s, X

\* The words of a text, put each with the parent p, are what the text shows.
LEMMA WordsPut ==
  ASSUME NEW p, NEW w \in Seq(WordsOnly)
  PROVE  /\ Over(PutWord(p), w) = [k \in DOMAIN w |-> <<p, "word", w[k]>>]
         /\ Lists(PutWord(p), WordsOnly, {<<p, "word", x>> : x \in WordsOnly})
<1> DEFINE A == {<<p, "word", x>> : x \in WordsOnly}
           u == [k \in DOMAIN w |-> <<p, "word", w[k]>>]
<1>1. Lists(PutWord(p), WordsOnly, A)
  <2>1. ASSUME NEW x \in WordsOnly PROVE <<<<p, "word", x>>>> \in Seq(A)
    <3> DEFINE z == <<p, "word", x>>
    <3>1. z \in A
      OBVIOUS
    <3> HIDE DEF z, A
    <3>2. <<z>> \in Seq(A)
      BY <3>1
    <3> QED
      BY <3>2 DEF z
  <2> QED
    BY <2>1 DEF Lists, PutWord
<1>2. DOMAIN w = 1 .. Len(w) /\ Len(w) \in Nat /\ \A k \in DOMAIN w : w[k] \in WordsOnly
  BY LenProperties, ElementOfSeq
<1>3. DOMAIN u = DOMAIN w /\ \A k \in DOMAIN w : u[k] \in A
  BY <1>2
<1>4. u \in Seq(A)
  <2>1. u \in [1 .. Len(w) -> A]
    BY <1>2, <1>3
  <2> HIDE DEF u, A
  <2> QED
    BY <1>2, <2>1, SeqDef
<1>5. [k \in DOMAIN w |-> PutWord(p)[w[k]]] = [k \in DOMAIN u |-> <<u[k]>>]
  BY <1>2, <1>3 DEF PutWord
<1> HIDE DEF u, A
<1>6. Seqs!FlattenSeq([k \in DOMAIN u |-> <<u[k]>>]) = u
  BY <1>4, FlatOnes
<1>7. Over(PutWord(p), w) = u
  BY <1>5, <1>6 DEF Over
<1> QED
  BY <1>1, <1>7 DEF u, A

\* What the nodes of a script show, and what it says, put with the parent p.
LEMMA ScriptShows ==
  ASSUME NEW m0, NEW o, NEW n, NEW p, NEW away, NEW kind,
         <<away, kind>> \in {<<"delete", "delete">>, <<"insert", "add">>},
         NEW script \in Seq(Ops)
  PROVE  /\ Over(ScriptNodes(m0, o, n), script) \in Seq(TextNodes(m0, o, n))
         /\ Over(WordsHere(m0, o, n, away, p), Over(ScriptNodes(m0, o, n), script))
              = Over(PutWord(p), Over(Says(kind), script))
<1> DEFINE N == TextNodes(m0, o, n)
           S == ScriptNodes(m0, o, n)
           g == WordsHere(m0, o, n, away, p)
           A == {<<p, "word", x>> : x \in WordsOnly}
           q == PutWord(p)
           K == Says(kind)
<1>1. \A op \in Ops : OpNodes(m0, op, o, n) \in Seq(N) /\ Over(g, OpNodes(m0, op, o, n)) = Over(q, K[op])
  BY OpWords
<1>2. S = [op \in Ops |-> OpNodes(m0, op, o, n)]
  BY DEF ScriptNodes
<1>3. Lists(S, Ops, N)
  BY <1>1, <1>2 DEF Lists
<1>4. Lists(g, N, A)
  BY WordsHereType
<1>5. Lists(K, Ops, WordsOnly)
  BY SaysType
<1>6. Lists(q, WordsOnly, A)
  <2>1. <<>> \in Seq(WordsOnly)
    BY EmptySeq
  <2> QED
    BY <2>1, WordsPut
<1>7. [op \in Ops |-> Over(g, S[op])] = [op \in Ops |-> Over(q, K[op])]
  BY <1>1, <1>2
<1> HIDE DEF N, S, g, A, q, K
<1>8. Over(S, script) \in Seq(N)
  BY <1>3, OverSeq
<1>9. Over(g, Over(S, script)) = Over([op \in Ops |-> Over(g, S[op])], script)
  BY <1>3, <1>4, OverOver
<1>10. Over(q, Over(K, script)) = Over([op \in Ops |-> Over(q, K[op])], script)
  BY <1>5, <1>6, OverOver
<1>11. Over(g, Over(S, script)) = Over(q, Over(K, script))
  BY <1>7, <1>9, <1>10
<1> QED
  BY <1>8, <1>11 DEF N, S, g, q, K

\* The nodes of a script are added under a node of m.
LEMMA ScriptGrows ==
  ASSUME NEW ot, NEW nt, IsDoc(ot), IsDoc(nt), NEW m, Grown(m, ot, nt),
         NEW m0 \in 0 .. Len(m) - 1, NEW o \in Ids(ot), NEW n \in Ids(nt),
         NEW add \in Seq(TextNodes(m0, o, n))
  PROVE  /\ add \in Seq(MNodes(ot, nt)) /\ Grown(m \o add, ot, nt)
         /\ Len(m \o add) = Len(m) + Len(add) /\ Len(m) \in Nat /\ Len(add) \in Nat
         /\ \A k \in 1 .. Len(m) : (m \o add)[k] = m[k]
         /\ \A j \in 1 .. Len(add) :
              (m \o add)[Len(m) + j] = add[j] /\ add[j] \in TextNodes(m0, o, n)
<1>1. TextNodes(m0, o, n) \subseteq MNodes(ot, nt)
  <2>1. WordsOnly \cup {Space} \subseteq Symbols \cup {NoWord, Space} /\ m0 \in Int
    BY DEF WordsOnly
  <2> QED
    BY <2>1 DEF TextNodes, MNodes
<1>2. m \in Seq(MNodes(ot, nt)) /\ Rooted(m)
  BY DEF Grown
<1>3. add \in Seq(MNodes(ot, nt))
  BY <1>1
<1> DEFINE M == MNodes(ot, nt)
           r == m \o add
<1> HIDE DEF M
<1>4. /\ r \in Seq(M) /\ Len(r) = Len(m) + Len(add)
      /\ Len(m) \in Nat /\ Len(add) \in Nat
      /\ DOMAIN m = 1 .. Len(m) /\ DOMAIN r = 1 .. (Len(m) + Len(add))
      /\ \A i \in 1 .. Len(m) : r[i] = m[i]
      /\ \A i \in 1 .. Len(add) : r[Len(m) + i] = add[i]
  <2>1. m \in Seq(M) /\ add \in Seq(M)
    BY <1>2, <1>3 DEF M
  <2> QED
    BY <2>1, JoinAt
<1>5. \A j \in 1 .. Len(add) : add[j] \in TextNodes(m0, o, n)
  BY ElementOfSeq
<1> HIDE DEF r
<1>6. Rooted(r)
  <2> SUFFICES ASSUME NEW k \in DOMAIN r PROVE r[k].par \in IF k = 1 THEN {None} ELSE 0 .. k - 2
    BY DEF Rooted
  <2>1. k \in 1 .. Len(m) + Len(add)
    BY <1>4
  <2>2. CASE k <= Len(m)
    <3>1. k \in DOMAIN m /\ r[k] = m[k]
      BY <1>4, <2>1, <2>2
    <3> QED
      BY <1>2, <3>1 DEF Rooted
  <2>3. CASE ~(k <= Len(m))
    <3>1. k - Len(m) \in 1 .. Len(add) /\ k = Len(m) + (k - Len(m)) /\ k # 1
      BY <1>4, <2>1, <2>3
    <3>2. PICK j \in 1 .. Len(add) : k = Len(m) + j
      BY <3>1
    <3>3. r[k] = add[j] /\ add[j].par = m0
      BY <1>4, <1>5, <3>2 DEF TextNodes
    <3>4. m0 \in 0 .. k - 2
      BY <1>4, <3>2
    <3> QED
      BY <3>1, <3>3, <3>4
  <2> QED
    BY <2>2, <2>3
<1>7. Grown(r, ot, nt)
  BY <1>4, <1>6 DEF Grown, M
<1> QED
  BY <1>3, <1>4, <1>5, <1>7 DEF r

(***************************************************************************)
(* What a shortest script from one text to the other adds shows each text  *)
(* on its side.                                                            *)
(***************************************************************************)
TextsOn(t, side, ot, nt, o, n, x, away, kind) ==
  /\ Sided(t, side, ot, nt)
  /\ o \in Ids(ot) /\ n \in Ids(nt)
  /\ <<side, away, kind, x>> \in {<<"n", "delete", "delete", n>>, <<"o", "insert", "add", o>>}
  /\ IsText(t, x)

\* The nodes of a script show on a side what the text does.
LEMMA TextsShown ==
  ASSUME NEW t, NEW side, NEW ot, NEW nt, NEW o, NEW n, NEW x, NEW away, NEW kind,
         TextsOn(t, side, ot, nt, o, n, x, away, kind),
         NEW m, Grown(m, ot, nt), NEW m0 \in 0 .. Len(m) - 1, NEW P,
         m0 + 1 \in HereAt(m, away), m[m0 + 1][side] = t.par[x], t.par[x] \in P,
         NEW script \in Seq(Ops), Over(Says(kind), script) = Words(TextOf(t, x))
  PROVE  LET add == Over(ScriptNodes(m0, o, n), script)
         IN  ShownIn(m \o add, away, t, side, P, nt)
               = ShownIn(m, away, t, side, P, nt) \o Reading(t, P, x)
<1> DEFINE add == Over(ScriptNodes(m0, o, n), script)
           p == t.par[x]
           g == WordsHere(m0, o, n, away, p)
           w == [j \in DOMAIN add |-> g[add[j]]]
           r == m \o add
<1>1. /\ Sided(t, side, ot, nt) /\ IsDoc(ot) /\ IsDoc(nt) /\ IsDoc(t)
      /\ o \in Ids(ot) /\ n \in Ids(nt) /\ x \in Ids(t) /\ IsText(t, x)
      /\ <<away, kind>> \in {<<"delete", "delete">>, <<"insert", "add">>}
      /\ away # "none"
  BY DEF TextsOn, Sided
<1>2. /\ add \in Seq(TextNodes(m0, o, n))
      /\ Over(g, add) = Over(PutWord(p), Words(TextOf(t, x)))
  BY <1>1, ScriptShows
<1> HIDE DEF add
<1>3. /\ add \in Seq(MNodes(ot, nt)) /\ Grown(r, ot, nt)
      /\ Len(r) = Len(m) + Len(add) /\ Len(m) \in Nat /\ Len(add) \in Nat
      /\ \A k \in 1 .. Len(m) : r[k] = m[k]
      /\ \A j \in 1 .. Len(add) : r[Len(m) + j] = add[j] /\ add[j] \in TextNodes(m0, o, n)
  BY <1>1, <1>2, ScriptGrows
<1>4. DOMAIN add = 1 .. Len(add)
  BY <1>2, LenProperties
<1>5. m0 + 1 \in HereAt(r, away) /\ r[m0 + 1][side] = p
  <2>1. m0 + 1 \in 1 .. Len(m)
    BY <1>3
  <2>2. m0 + 1 \in HereAt(r, away)
    BY <1>1, <1>3, <2>1, HereSame
  <2> QED
    BY <1>3, <2>1, <2>2
<1>6. \A k \in 1 .. Len(r) :
        k \in HereAt(r, away) <=>
          r[k].chng # away /\ (k = 1 \/ r[k].par + 1 \in HereAt(r, away))
  <2>1. Rooted(r) /\ DOMAIN r = 1 .. Len(r) /\ Len(r) \in Nat
    BY <1>3, LenProperties DEF Grown
  <2> HIDE DEF r
  <2> QED
    BY <2>1, HereUnfold
<1> HIDE DEF r
<1>7. ASSUME NEW j \in 1 .. Len(add)
      PROVE  w[j] = Piece(r, Len(m) + j, HereAt(r, away), InsideAt(r, nt), t, side, P)
  <2> DEFINE k == Len(m) + j
             v == add[j]
  <2>1. r[k] = v /\ v \in TextNodes(m0, o, n) /\ w[j] = g[v] /\ k \in 1 .. Len(r) /\ k # 1
    BY <1>3, <1>4, <1>7
  <2>2. v.par = m0 /\ m0 # None
    BY <2>1 DEF TextNodes, None
  <2>3. k \in HereAt(r, away) <=> v.chng # away
    BY <1>5, <1>6, <2>1, <2>2
  <2>4. ParOf(r, k, side) = p
    BY <1>5, <2>1, <2>2 DEF ParOf
  <2> HIDE DEF k, v
  <2>5. CASE v.word = Space \/ v.chng = away
    <3>1. g[v] = <<>>
      BY <2>1, <2>5 DEF WordsHere
    <3> QED
      BY <2>1, <2>3, <2>5, <3>1 DEF Piece, k
  <2>6. CASE v.word # Space /\ v.chng # away
    <3>1. g[v] = <<<<p, "word", v.word>>>>
      BY <2>1, <2>6 DEF WordsHere
    <3>2. v.word \in WordsOnly /\ v.word # NoWord
      BY <2>1, <2>6 DEF TextNodes, WordsOnly
    <3>3. v[side] = x
      BY <2>1, <2>6 DEF TextNodes, TextsOn
    <3>4. x # None
      <4>1. Ids(t) \subseteq Nat
        BY <1>1, DocIsTree DEF IsTree
      <4> QED
        BY <1>1, <4>1 DEF None
    <3> QED
      BY <2>1, <2>3, <2>4, <2>6, <3>1, <3>2, <3>3, <3>4 DEF Piece, k
  <2> QED
    BY <2>5, <2>6
<1>8. ShownIn(r, away, t, side, P, nt) = ShownIn(m, away, t, side, P, nt) \o Seqs!FlattenSeq(w)
  <2>1. DOMAIN w = 1 .. Len(add) /\ w = [j \in DOMAIN w |-> w[j]]
    BY <1>4
  <2> HIDE DEF w
  <2>3. \A j \in 1 .. Len(add) :
          w[j] = Piece(m \o add, Len(m) + j, HereAt(m \o add, away),
                       InsideAt(m \o add, nt), t, side, P)
    BY <1>7 DEF r
  <2>4. Sided(t, side, ot, nt) /\ add \in Seq(MNodes(ot, nt)) /\ Grown(m \o add, ot, nt)
    BY <1>1, <1>3 DEF r
  <2>2. /\ ShownIn(m \o add, away, t, side, P, nt)
              = ShownIn(m, away, t, side, P, nt) \o Seqs!FlattenSeq(w)
    BY <2>1, <2>3, <2>4, AddShows
  <2> QED
    BY <2>2 DEF r
<1>9. Seqs!FlattenSeq(w) = Over(g, add)
  BY DEF Over
<1>10. Reading(t, P, x) = Over(PutWord(p), Words(TextOf(t, x)))
  <2>1. TextOf(t, x) \in Seq(Symbols \ {NoWord}) /\ t.kids[x] = <<>>
    BY <1>1, TextIsSeq
  <2>2. Words(TextOf(t, x)) \in Seq(WordsOnly)
    BY <2>1, TokensSay
  <2> DEFINE u == Words(TextOf(t, x))
  <2>3. Shown(t, x, p, P) = [k \in DOMAIN u |-> <<p, "word", u[k]>>]
    BY <1>1 DEF Shown
  <2>4. Reading(t, P, x) = Shown(t, x, p, P) \o KidsFrom(t, P, x, 1)
    BY <1>1, ReadingUnfold
  <2>5. KidsFrom(t, P, x, 1) = <<>>
    <3>1. ~(1 <= Len(t.kids[x]))
      BY <2>1
    <3> QED
      BY <1>1, <3>1, KidsFromEnd
  <2>6. Reading(t, P, x) \in Seq(Atoms(t)) /\ Shown(t, x, p, P) \in Seq(Atoms(t))
    <3>1. p \in Ids(t) \cup {None}
      BY <1>1, DocIsTree DEF IsTree
    <3> QED
      BY <1>1, <3>1, ReadingType, ShownType
  <2>7. Reading(t, P, x) = Shown(t, x, p, P)
    BY <2>4, <2>5, <2>6, ConcatEmptySeq
  <2>8. Over(PutWord(p), u) = [k \in DOMAIN u |-> <<p, "word", u[k]>>]
    BY <2>2, WordsPut
  <2> QED
    BY <2>3, <2>7, <2>8
<1> QED
  BY <1>2, <1>8, <1>9, <1>10 DEF r, add

-------------------------------------------------------------------------------
(***************************************************************************)
(* What the calls of node_merge() have still to show on a side.            *)
(***************************************************************************)
CallsOf(ot, nt) ==
  [m : Nat, o : Ids(ot), n : Ids(nt), oi : Nat \ {0}, ni : Nat \ {0}]

\* The child a call is at on a side.
At(f, side) == IF side = "o" THEN f.oi ELSE f.ni

\* What a call shows once it is past the child it is at.
Later(t, side, P, ot, nt) ==
  [f \in CallsOf(ot, nt) |-> KidsFrom(t, P, f[side], At(f, side) + 1)]

\* The innermost call goes on with its child, the others after theirs.
Rest(t, side, P, ot, nt, fs) ==
  KidsFrom(t, P, Head(fs)[side], At(Head(fs), side)) \o Over(Later(t, side, P, ot, nt), Tail(fs))

\* The node and the place of a call on a side.
LEMMA CallSide ==
  ASSUME NEW t, NEW side, NEW ot, NEW nt, Sided(t, side, ot, nt), NEW f \in CallsOf(ot, nt)
  PROVE  f[side] \in Ids(t) /\ At(f, side) \in Nat \ {0} /\ IsDoc(t)
BY DEF CallsOf, Sided, At

\* What calls have still to show is a sequence of atoms.
LEMMA LaterType ==
  ASSUME NEW t, NEW side, NEW ot, NEW nt, Sided(t, side, ot, nt), NEW P
  PROVE  Lists(Later(t, side, P, ot, nt), CallsOf(ot, nt), Atoms(t))
<1>1. ASSUME NEW f \in CallsOf(ot, nt)
      PROVE  KidsFrom(t, P, f[side], At(f, side) + 1) \in Seq(Atoms(t))
  <2>1. f[side] \in Ids(t) /\ At(f, side) + 1 \in Nat \ {0} /\ IsDoc(t)
    BY CallSide
  <2> QED
    BY <2>1, KidsFromType
<1> QED
  BY <1>1 DEF Lists, Later

\* The calls put before others.
LEMMA CallsPut ==
  ASSUME NEW C, NEW g \in C, NEW s \in Seq(C)
  PROVE  /\ <<g>> \o s \in Seq(C) /\ <<g>> \o s # <<>>
         /\ Head(<<g>> \o s) = g /\ Tail(<<g>> \o s) = s
         /\ Len(<<g>> \o s) = Len(s) + 1 /\ Len(s) \in Nat
         /\ (<<g>> \o s)[1] = g /\ \A i \in 1 .. Len(s) : (<<g>> \o s)[i + 1] = s[i]
<1>1. <<g>> \in Seq(C) /\ Len(<<g>>) = 1 /\ <<g>>[1] = g
  OBVIOUS
<1> DEFINE y == <<g>>
           r == y \o s
<1> HIDE DEF y
<1>2. y \in Seq(C) /\ Len(y) = 1 /\ y[1] = g
  BY <1>1 DEF y
<1>3. /\ r \in Seq(C) /\ Len(r) = Len(y) + Len(s) /\ Len(s) \in Nat
      /\ \A i \in 1 .. Len(y) : r[i] = y[i]
      /\ \A i \in 1 .. Len(s) : r[Len(y) + i] = s[i]
  <2>1. y \in Seq(C) /\ s \in Seq(C)
    BY <1>2
  <2> QED
    BY <2>1, JoinAt
<1> HIDE DEF r
<1>4. r[1] = g /\ \A i \in 1 .. Len(s) : r[i + 1] = s[i]
  BY <1>2, <1>3
<1>5. r # <<>> /\ Len(r) = Len(s) + 1
  BY <1>2, <1>3, EmptySeq
<1>6. Head(r) = g
  BY <1>3, <1>4, <1>5, HeadTailProperties
<1>7. /\ Tail(r) \in Seq(C) /\ Len(Tail(r)) = Len(s)
      /\ \A i \in 1 .. Len(s) : Tail(r)[i] = s[i]
  <2>1. /\ Tail(r) \in Seq(C) /\ Len(Tail(r)) = Len(r) - 1
        /\ \A i \in 1 .. Len(Tail(r)) : Tail(r)[i] = r[i + 1]
    BY <1>3, <1>5, HeadTailProperties
  <2>2. Len(Tail(r)) = Len(s)
    BY <1>3, <1>5, <2>1
  <2> QED
    BY <1>4, <2>1, <2>2
<1>8. Tail(r) = s
  BY <1>7, SeqEqual
<1> QED
  BY <1>3, <1>4, <1>5, <1>6, <1>8 DEF r, y

\* A sequence is its head and its tail.
LEMMA HeadThenTail ==
  ASSUME NEW C, NEW s \in Seq(C), s # <<>>
  PROVE  s = <<Head(s)>> \o Tail(s)
<1>1. /\ Head(s) \in C /\ Head(s) = s[1] /\ Tail(s) \in Seq(C)
      /\ Len(Tail(s)) = Len(s) - 1
      /\ \A i \in 1 .. Len(Tail(s)) : Tail(s)[i] = s[i + 1]
  BY HeadTailProperties
<1> DEFINE h == Head(s)
           u == Tail(s)
           r == <<h>> \o u
<1> HIDE DEF h, u
<1>2. /\ r \in Seq(C) /\ Len(r) = Len(u) + 1 /\ Len(u) \in Nat
      /\ r[1] = h /\ \A i \in 1 .. Len(u) : r[i + 1] = u[i]
  BY <1>1, CallsPut DEF h, u
<1> HIDE DEF r
<1>3. Len(r) = Len(s) /\ Len(s) \in Nat
  BY <1>1, <1>2, LenProperties DEF u
<1>4. \A i \in 1 .. Len(s) : r[i] = s[i]
  <2> TAKE i \in 1 .. Len(s)
  <2>1. CASE i = 1
    BY <1>1, <1>2, <2>1 DEF h
  <2>2. CASE i # 1
    <3>1. i - 1 \in 1 .. Len(u) /\ i = (i - 1) + 1
      BY <1>2, <1>3, <2>2
    <3>2. PICK j \in 1 .. Len(u) : i = j + 1
      BY <3>1
    <3> QED
      BY <1>1, <1>2, <3>2 DEF u
  <2> QED
    BY <2>1, <2>2
<1>5. r = s
  BY <1>2, <1>3, <1>4, SeqEqual
<1> QED
  BY <1>5 DEF r, h, u

\* The innermost call, and the ones around it.
LEMMA RestType ==
  ASSUME NEW t, NEW side, NEW ot, NEW nt, Sided(t, side, ot, nt), NEW P,
         NEW fs \in Seq(CallsOf(ot, nt)), fs # <<>>
  PROVE  /\ Head(fs) \in CallsOf(ot, nt) /\ Tail(fs) \in Seq(CallsOf(ot, nt))
         /\ KidsFrom(t, P, Head(fs)[side], At(Head(fs), side)) \in Seq(Atoms(t))
         /\ Over(Later(t, side, P, ot, nt), Tail(fs)) \in Seq(Atoms(t))
         /\ Rest(t, side, P, ot, nt, fs) \in Seq(Atoms(t))
<1>1. Head(fs) \in CallsOf(ot, nt) /\ Tail(fs) \in Seq(CallsOf(ot, nt))
  BY HeadTailProperties
<1>2. KidsFrom(t, P, Head(fs)[side], At(Head(fs), side)) \in Seq(Atoms(t))
  BY <1>1, CallSide, KidsFromType
<1>3. Over(Later(t, side, P, ot, nt), Tail(fs)) \in Seq(Atoms(t))
  <2>1. Lists(Later(t, side, P, ot, nt), CallsOf(ot, nt), Atoms(t))
    BY LaterType
  <2> QED
    BY <1>1, <2>1, OverSeq
<1> QED
  BY <1>1, <1>2, <1>3, ConcatProperties DEF Rest

\* The innermost call goes on to its next child on a side.
Advances(t, side, ot, nt, fs, g) ==
  /\ Sided(t, side, ot, nt) /\ fs \in Seq(CallsOf(ot, nt)) /\ fs # <<>>
  /\ g \in CallsOf(ot, nt) /\ g[side] = Head(fs)[side]
  /\ At(g, side) = At(Head(fs), side) + 1
  /\ At(Head(fs), side) <= Len(t.kids[Head(fs)[side]])

\* A call that stays at its child, on this side, has the same left.
LEMMA RestStay ==
  ASSUME NEW t, NEW side, NEW ot, NEW nt, Sided(t, side, ot, nt), NEW P,
         NEW fs \in Seq(CallsOf(ot, nt)), fs # <<>>,
         NEW g \in CallsOf(ot, nt), g[side] = Head(fs)[side], At(g, side) = At(Head(fs), side)
  PROVE  Rest(t, side, P, ot, nt, <<g>> \o Tail(fs)) = Rest(t, side, P, ot, nt, fs)
<1>1. Tail(fs) \in Seq(CallsOf(ot, nt))
  BY RestType
<1>2. Head(<<g>> \o Tail(fs)) = g /\ Tail(<<g>> \o Tail(fs)) = Tail(fs)
  BY <1>1, CallsPut
<1> QED
  BY <1>2, Zenon DEF Rest

\* When it goes on to its next child, it has shown the one it was at.
LEMMA RestMove ==
  ASSUME NEW t, NEW side, NEW ot, NEW nt, NEW P, NEW fs, NEW g,
         Advances(t, side, ot, nt, fs, g)
  PROVE  Rest(t, side, P, ot, nt, fs)
           = Reading(t, P, t.kids[Head(fs)[side]][At(Head(fs), side)])
               \o Rest(t, side, P, ot, nt, <<g>> \o Tail(fs))
<1>0. /\ Sided(t, side, ot, nt) /\ fs \in Seq(CallsOf(ot, nt)) /\ fs # <<>>
      /\ g \in CallsOf(ot, nt) /\ g[side] = Head(fs)[side]
      /\ At(g, side) = At(Head(fs), side) + 1
      /\ At(Head(fs), side) <= Len(t.kids[Head(fs)[side]])
  BY DEF Advances
<1> DEFINE n == Head(fs)[side]
           i == At(Head(fs), side)
           A == Atoms(t)
           z == Over(Later(t, side, P, ot, nt), Tail(fs))
<1>1. Head(fs) \in CallsOf(ot, nt) /\ Tail(fs) \in Seq(CallsOf(ot, nt)) /\ z \in Seq(A)
  BY <1>0, RestType
<1>2. n \in Ids(t) /\ i \in Nat \ {0} /\ IsDoc(t)
  BY <1>0, <1>1, CallSide
<1>3. i \in 1 .. Len(t.kids[n]) /\ t.kids[n][i] \in Ids(t)
  <2>1. IsTree(t)
    BY <1>2, DocIsTree
  <2>2. t.kids[n] \in Seq(Ids(t))
    BY <1>2, <2>1 DEF IsTree
  <2>3. Len(t.kids[n]) \in Nat
    BY <2>2, LenProperties
  <2> QED
    BY <1>0, <1>2, <2>2, <2>3, ElementOfSeq
<1>4. Head(<<g>> \o Tail(fs)) = g /\ Tail(<<g>> \o Tail(fs)) = Tail(fs)
  BY <1>0, <1>1, CallsPut
<1>5. Rest(t, side, P, ot, nt, <<g>> \o Tail(fs)) = KidsFrom(t, P, n, i + 1) \o z
  BY <1>0, <1>4, Zenon DEF Rest
<1> HIDE DEF n, i, A
<1>6. KidsFrom(t, P, n, i) = Reading(t, P, t.kids[n][i]) \o KidsFrom(t, P, n, i + 1)
  BY <1>2, <1>3, KidsFromStep
<1>7. Reading(t, P, t.kids[n][i]) \in Seq(A) /\ KidsFrom(t, P, n, i + 1) \in Seq(A)
  <2>1. i + 1 \in Nat \ {0}
    BY <1>2
  <2> QED
    BY <1>2, <1>3, <2>1, ReadingType, KidsFromType DEF A
<1>8. Rest(t, side, P, ot, nt, fs) = KidsFrom(t, P, n, i) \o z
  BY DEF Rest, n, i
<1> HIDE DEF z
<1> DEFINE a == Reading(t, P, t.kids[n][i])
           b == KidsFrom(t, P, n, i + 1)
<1> HIDE DEF a, b
<1>9. (a \o b) \o z = a \o (b \o z)
  BY <1>1, <1>7, ConcatAssociative DEF a, b
<1> QED
  BY <1>5, <1>6, <1>8, <1>9 DEF a, b, n, i

\* Four sequences may be put one behind the other from either end.
Four(A, a, b, c, d) == a \in Seq(A) /\ b \in Seq(A) /\ c \in Seq(A) /\ d \in Seq(A)

\* Sequences may be put together from the right.
LEMMA ConcatFour ==
  ASSUME NEW A, NEW a, NEW b, NEW c, NEW d, Four(A, a, b, c, d)
  PROVE  ((a \o b) \o c) \o d = a \o (b \o (c \o d))
<1>0. a \in Seq(A) /\ b \in Seq(A) /\ c \in Seq(A) /\ d \in Seq(A)
  BY DEF Four
<1>1. a \o b \in Seq(A) /\ c \o d \in Seq(A)
  BY <1>0, ConcatProperties
<1> DEFINE ab == a \o b
           cd == c \o d
<1>2. (ab \o c) \o d = ab \o (c \o d)
  <2> HIDE DEF ab
  <2>1. ab \in Seq(A)
    BY <1>1 DEF ab
  <2> QED
    BY <1>0, <2>1, ConcatAssociative
<1>3. (a \o b) \o cd = a \o (b \o cd)
  <2> HIDE DEF cd
  <2>1. cd \in Seq(A)
    BY <1>1 DEF cd
  <2> QED
    BY <1>0, <2>1, ConcatAssociative
<1> QED
  BY <1>2, <1>3

\* A call for a child shows the child first, and goes on with its children.
Descends(t, side, ot, nt, fs, g) ==
  /\ Sided(t, side, ot, nt) /\ fs \in Seq(CallsOf(ot, nt)) /\ fs # <<>>
  /\ g \in CallsOf(ot, nt)
  /\ g[side] = t.kids[Head(fs)[side]][At(Head(fs), side)] /\ At(g, side) = 1
  /\ At(Head(fs), side) <= Len(t.kids[Head(fs)[side]])

\* A call for a child takes over what the child has to show.
LEMMA RestDown ==
  ASSUME NEW t, NEW side, NEW ot, NEW nt, NEW P, NEW fs, NEW g,
         Descends(t, side, ot, nt, fs, g)
  PROVE  Rest(t, side, P, ot, nt, fs)
           = Shown(t, g[side], t.par[g[side]], P) \o Rest(t, side, P, ot, nt, <<g>> \o fs)
<1>0. /\ Sided(t, side, ot, nt) /\ fs \in Seq(CallsOf(ot, nt)) /\ fs # <<>>
      /\ g \in CallsOf(ot, nt)
      /\ g[side] = t.kids[Head(fs)[side]][At(Head(fs), side)] /\ At(g, side) = 1
      /\ At(Head(fs), side) <= Len(t.kids[Head(fs)[side]])
  BY DEF Descends
<1> DEFINE n == g[side]
           f == Head(fs)
           C == CallsOf(ot, nt)
           L == Later(t, side, P, ot, nt)
           z == Over(L, Tail(fs))
           A == Atoms(t)
<1>1. f \in C /\ Tail(fs) \in Seq(C) /\ z \in Seq(A)
  BY <1>0, RestType
<1>2. f[side] \in Ids(t) /\ At(f, side) \in Nat \ {0} /\ IsDoc(t)
  BY <1>0, <1>1, CallSide
<1>3. At(f, side) \in 1 .. Len(t.kids[f[side]]) /\ n \in Ids(t)
  <2>1. IsTree(t)
    BY <1>2, DocIsTree
  <2>2. t.kids[f[side]] \in Seq(Ids(t))
    BY <1>2, <2>1 DEF IsTree
  <2>3. Len(t.kids[f[side]]) \in Nat
    BY <2>2, LenProperties
  <2> QED
    BY <1>0, <1>2, <2>2, <2>3, ElementOfSeq
<1> DEFINE a == Shown(t, n, t.par[n], P)
           b == KidsFrom(t, P, n, 1)
           c == KidsFrom(t, P, f[side], At(f, side) + 1)
<1>4. Rest(t, side, P, ot, nt, fs) = ((a \o b) \o c) \o z
  <2>1. KidsFrom(t, P, f[side], At(f, side)) = Reading(t, P, n) \o c
    BY <1>0, <1>2, <1>3, KidsFromStep
  <2>2. Reading(t, P, n) = a \o b
    BY <1>2, <1>3, ReadingUnfold
  <2> QED
    BY <1>0, <2>1, <2>2, Zenon DEF Rest
<1>5. a \in Seq(A) /\ b \in Seq(A) /\ c \in Seq(A)
  <2>1. t.par[n] \in Ids(t) \cup {None}
    BY <1>2, <1>3, DocIsTree DEF IsTree
  <2>2. At(f, side) + 1 \in Nat \ {0} /\ 1 \in Nat \ {0}
    BY <1>2
  <2> QED
    BY <1>2, <1>3, <2>1, <2>2, ShownType, KidsFromType
<1>6. Rest(t, side, P, ot, nt, <<g>> \o fs) = b \o (c \o z)
  <2>1. Head(<<g>> \o fs) = g /\ Tail(<<g>> \o fs) = fs
    BY <1>0, CallsPut
  <2>2. fs = <<f>> \o Tail(fs)
    BY <1>0, HeadThenTail
  <2>3. Over(L, fs) = c \o z
    <3>1. Lists(L, C, A)
      BY <1>0, LaterType
    <3>2. L[f] = c
      BY <1>1 DEF Later
    <3> DEFINE y == <<f>>
               u == Tail(fs)
    <3>3. y \in Seq(C)
      BY <1>1
    <3>4. Over(L, y) = L[f]
      BY <1>1, <3>1, OverSingle
    <3> HIDE DEF y, u, L, C, A, c
    <3>5. u \in Seq(C)
      BY <1>1 DEF u
    <3>6. Over(L, y \o u) = Over(L, y) \o Over(L, u)
      BY <3>1, <3>3, <3>5, OverConcat
    <3>7. fs = y \o u
      BY <2>2 DEF y, u
    <3> QED
      BY <3>2, <3>4, <3>6, <3>7 DEF u
  <2> QED
    BY <1>0, <2>1, <2>3, Zenon DEF Rest
<1> HIDE DEF a, b, c, z, A
<1>7. ((a \o b) \o c) \o z = a \o (b \o (c \o z))
  <2>1. Four(A, a, b, c, z)
    BY <1>1, <1>5 DEF Four
  <2> QED
    BY <2>1, ConcatFour
<1> QED
  BY <1>4, <1>6, <1>7 DEF a

\* A call that is through returns to the one that called it.
Ascends(t, side, ot, nt, fs, g) ==
  /\ Sided(t, side, ot, nt) /\ fs \in Seq(CallsOf(ot, nt)) /\ fs # <<>> /\ Tail(fs) # <<>>
  /\ g \in CallsOf(ot, nt) /\ g[side] = Head(Tail(fs))[side]
  /\ At(g, side) = At(Head(Tail(fs)), side) + 1
  /\ ~(At(Head(fs), side) <= Len(t.kids[Head(fs)[side]]))

\* A call that has come to its end leaves nothing out.
LEMMA RestUp ==
  ASSUME NEW t, NEW side, NEW ot, NEW nt, NEW P, NEW fs, NEW g,
         Ascends(t, side, ot, nt, fs, g)
  PROVE  Rest(t, side, P, ot, nt, <<g>> \o Tail(Tail(fs))) = Rest(t, side, P, ot, nt, fs)
<1>0. /\ Sided(t, side, ot, nt) /\ fs \in Seq(CallsOf(ot, nt)) /\ fs # <<>> /\ Tail(fs) # <<>>
      /\ g \in CallsOf(ot, nt) /\ g[side] = Head(Tail(fs))[side]
      /\ At(g, side) = At(Head(Tail(fs)), side) + 1
      /\ ~(At(Head(fs), side) <= Len(t.kids[Head(fs)[side]]))
  BY DEF Ascends
<1> DEFINE f == Head(fs)
           s == Tail(fs)
           C == CallsOf(ot, nt)
           L == Later(t, side, P, ot, nt)
           A == Atoms(t)
<1>1. f \in C /\ s \in Seq(C)
  BY <1>0, RestType
<1>2. Head(s) \in C /\ Tail(s) \in Seq(C) /\ s = <<Head(s)>> \o Tail(s)
  <2> HIDE DEF s
  <2>1. s # <<>>
    BY <1>0 DEF s
  <2> QED
    BY <1>1, <2>1, HeadTailProperties, HeadThenTail
<1>3. KidsFrom(t, P, f[side], At(f, side)) = <<>>
  <2>1. f[side] \in Ids(t) /\ At(f, side) \in Nat /\ IsDoc(t)
    BY <1>0, <1>1, CallSide
  <2> QED
    BY <1>0, <2>1, KidsFromEnd
<1>4. Over(L, s) \in Seq(A)
  BY <1>0, RestType
<1>5. Rest(t, side, P, ot, nt, fs) = Over(L, s)
  BY <1>3, <1>4, ConcatEmptySeq DEF Rest
<1>6. Lists(L, C, A)
  BY <1>0, LaterType
<1> DEFINE f2 == Head(s)
           y  == <<f2>>
           u  == Tail(s)
           c  == KidsFrom(t, P, f2[side], At(f2, side) + 1)
<1>7. L[f2] = c
  BY <1>2 DEF Later
<1>8. y \in Seq(C) /\ Over(L, y) = L[f2]
  BY <1>2, <1>6, OverSingle
<1>9. Head(<<g>> \o u) = g /\ Tail(<<g>> \o u) = u
  <2>1. \A v \in Seq(C) : Head(<<g>> \o v) = g /\ Tail(<<g>> \o v) = v
    <3> HIDE DEF u, L, A, f
    <3> TAKE v \in Seq(C)
    <3>1. g \in C
      BY <1>0
    <3> HIDE DEF C
    <3> QED
      BY <3>1, CallsPut
  <2> QED
    BY <1>2, <2>1, Zenon
<1>10. Rest(t, side, P, ot, nt, <<g>> \o u) = c \o Over(L, u)
  BY <1>0, <1>9, Zenon DEF Rest
<1> HIDE DEF y, u, L, C, A, c
<1>11. Over(L, y \o u) = Over(L, y) \o Over(L, u)
  <2>1. u \in Seq(C) /\ y \in Seq(C)
    BY <1>2, <1>8 DEF u
  <2> QED
    BY <1>6, <2>1, OverConcat
<1>12. s = y \o u
  BY <1>2 DEF y, u
<1>13. Over(L, s) = c \o Over(L, u)
  BY <1>7, <1>8, <1>11, <1>12
<1> QED
  BY <1>5, <1>10, <1>13 DEF u

\* When the outermost call is through, nothing is left.
LEMMA RestEnd ==
  ASSUME NEW t, NEW side, NEW ot, NEW nt, Sided(t, side, ot, nt), NEW P,
         NEW fs \in Seq(CallsOf(ot, nt)), fs # <<>>, Tail(fs) = <<>>,
         ~(At(Head(fs), side) <= Len(t.kids[Head(fs)[side]]))
  PROVE  Rest(t, side, P, ot, nt, fs) = <<>>
<1>1. Head(fs) \in CallsOf(ot, nt)
  BY RestType
<1>2. KidsFrom(t, P, Head(fs)[side], At(Head(fs), side)) = <<>>
  <2>1. Head(fs)[side] \in Ids(t) /\ At(Head(fs), side) \in Nat /\ IsDoc(t)
    BY <1>1, CallSide
  <2> QED
    BY <2>1, KidsFromEnd
<1>3. Over(Later(t, side, P, ot, nt), <<>>) = <<>>
  BY OverEmpty
<1>4. Rest(t, side, P, ot, nt, fs) = <<>> \o <<>>
  BY <1>2, <1>3, Zenon DEF Rest
<1> QED
  BY <1>4, EmptySeq, ConcatEmptySeq

\* The mapped nodes of a tree whose children are compared.
LooksIn(t) == {n \in Mapped(t) : ~IsOpaque(t, n)}

\* In the walk from an opaque node there is none of them.
LEMMA OpaqueHides ==
  ASSUME NEW t, IsTree(t), NEW n \in Ids(t), IsOpaque(t, n)
  PROVE  \A k \in 1 .. Len(PreOrder(t)[n]) : PreOrder(t)[n][k] \notin LooksIn(t)
<1> DEFINE s == PreOrder(t)[n]
           T == {k \in 1 .. Len(s) : s[k] \in LooksIn(t)}
<1>1. /\ Len(s) \in Nat /\ s[1] = n
      /\ \A k \in 2 .. Len(s) : \E j \in 1 .. k - 1 : s[j] = t.par[s[k]]
      /\ \A k \in 1 .. Len(s) : s[k] \in Ids(t)
  <2>1. WalkGood(t, n) /\ DOMAIN s = 1 .. Len(s)
    BY WalksGood, LenProperties DEF WalkGood
  <2> QED
    BY <2>1, ElementOfSeq DEF WalkGood
<1> HIDE DEF s
<1> SUFFICES ASSUME T # {} PROVE FALSE
  BY DEF s
<1>2. T \in SUBSET Nat
  OBVIOUS
<1>3. PICK k \in T : \A j \in T : k <= j
  <2> HIDE DEF T
  <2> QED
    BY <1>2, LeastOf
<1>4. k \in 1 .. Len(s) /\ s[k] \in Mapped(t) /\ ~IsOpaque(t, s[k])
  BY DEF LooksIn
<1>5. k # 1
  BY <1>1, <1>4
<1>6. PICK j \in 1 .. k - 1 : s[j] = t.par[s[k]]
  BY <1>1, <1>4, <1>5
<1>7. j \in 1 .. Len(s) /\ j < k
  BY <1>1, <1>4, <1>6
<1>8. t.par[s[k]] # None
  <2>1. s[j] \in Ids(t)
    BY <1>1, <1>7
  <2> QED
    BY <1>6, <2>1 DEF IsTree, None
<1>9. t.par[s[k]] \in Mapped(t) /\ ~IsOpaque(t, t.par[s[k]])
  BY <1>4, <1>8, MappedParent
<1>10. j \in T
  BY <1>6, <1>7, <1>9 DEF LooksIn
<1> QED
  BY <1>3, <1>7, <1>10, <1>2

\* Of an opaque node itself alone is shown where only those may be parents.
LEMMA OpaqueReading ==
  ASSUME NEW t, IsDoc(t), NEW n \in Ids(t), IsOpaque(t, n)
  PROVE  Reading(t, LooksIn(t), n) = Shown(t, n, t.par[n], LooksIn(t))
<1> DEFINE P == LooksIn(t)
           g == ShownBy(t, P)
           s == PreOrder(t)[n]
           r == Seqs!FlattenSeq(KidWalks(t, n))
           y == <<n>>
           A == Atoms(t)
           I == Ids(t)
<1>0. IsTree(t)
  BY DocIsTree
<1>1. s \in Seq(I) /\ s = y \o r /\ r \in Seq(I) /\ y \in Seq(I) /\ Len(y) = 1
  <2>1. s \in Seq(I)
    BY <1>0, PreType
  <2>2. KidWalks(t, n) \in Seq(Seq(I)) /\ s = y \o r
    BY <1>0, KidWalksType
  <2>3. r \in Seq(I)
    <3> HIDE DEF I
    <3> QED
      BY <2>2, FlatType
  <2> QED
    BY <2>1, <2>2, <2>3
<1>2. Lists(g, I, A)
  BY ShownByType
<1>3. g[n] = Shown(t, n, t.par[n], P)
  BY DEF ShownBy
<1>4. Over(g, y) = g[n]
  BY <1>2, OverSingle
<1>5. Reading(t, P, n) = Over(g, s)
  BY <1>1, ShownIsOver DEF Reading
<1>6. \A k \in 1 .. Len(s) : s[k] \notin P
  BY <1>0, OpaqueHides
<1>7. \A k \in 2 .. Len(s) : \E j \in 1 .. k - 1 : s[j] = t.par[s[k]]
  BY <1>0, WalksGood DEF WalkGood
<1>8. \A k \in 1 .. Len(s) : s[k] \in I
  <2>1. DOMAIN s = 1 .. Len(s)
    BY <1>1, LenProperties
  <2> HIDE DEF s, I
  <2> QED
    BY <1>1, <2>1, ElementOfSeq
<1>9. None \notin I
  BY <1>0 DEF IsTree, None
<1> HIDE DEF s, r, y, I, A
<1>10. Len(s) = 1 + Len(r) /\ Len(r) \in Nat /\ \A i \in 1 .. Len(r) : s[1 + i] = r[i]
  <2>1. /\ Len(y \o r) = Len(y) + Len(r) /\ Len(r) \in Nat
        /\ \A i \in 1 .. Len(r) : (y \o r)[Len(y) + i] = r[i]
    <3>1. y \in Seq(I) /\ r \in Seq(I)
      BY <1>1
    <3> QED
      BY <3>1, JoinAt
  <2> QED
    BY <1>1, <2>1
<1>11. \A i \in 1 .. Len(r) : g[r[i]] = <<>>
  <2> TAKE i \in 1 .. Len(r)
  <2>1. 1 + i \in 2 .. Len(s) /\ s[1 + i] = r[i]
    BY <1>10
  <2>2. PICK j \in 1 .. (1 + i) - 1 : s[j] = t.par[s[1 + i]]
    BY <1>7, <2>1
  <2>3. j \in 1 .. Len(s)
    BY <1>10, <2>1, <2>2
  <2>4. t.par[r[i]] \notin P /\ t.par[r[i]] # None
    BY <1>6, <1>8, <1>9, <2>1, <2>2, <2>3
  <2>5. r[i] \in Ids(t)
    BY <1>8, <2>1 DEF I
  <2> QED
    BY <2>4, <2>5 DEF ShownBy, Shown
<1>12. Over(g, r) = <<>>
  <2>1. DOMAIN r = 1 .. Len(r) /\ Len(r) \in Nat
    BY <1>1, LenProperties
  <2> DEFINE z == [k \in DOMAIN r |-> g[r[k]]]
  <2>2. z \in [1 .. Len(r) -> {<<>>}]
    BY <1>11, <2>1
  <2> HIDE DEF z
  <2>3. Seqs!FlattenSeq(z) = <<>>
    BY <2>1, <2>2, FlatSilent
  <2> QED
    BY <2>3 DEF z, Over
<1>13. Over(g, y \o r) = Over(g, y) \o Over(g, r)
  <2> HIDE DEF g
  <2> QED
    BY <1>1, <1>2, OverConcat
<1>14. Over(g, s) = g[n] \o <<>>
  BY <1>1, <1>4, <1>12, <1>13
<1>15. g[n] \in Seq(A)
  BY <1>2 DEF Lists, I
<1>16. g[n] \o <<>> = g[n]
  <2> HIDE DEF g
  <2> QED
    BY <1>15, ConcatEmptySeq
<1> QED
  BY <1>3, <1>5, <1>14, <1>16

-------------------------------------------------------------------------------
(***************************************************************************)
(* The calls of node_merge() and the merged tree.                          *)
(***************************************************************************)

\* A call's merged node stands for its pair, and is there on both sides.
Standing(m, ot, nt) ==
  {f \in CallsOf(ot, nt) :
     /\ f.m \in 0 .. Len(m) - 1
     /\ m[f.m + 1].o = f.o /\ m[f.m + 1].n = f.n
     /\ f.m + 1 \in HereAt(m, "delete") /\ f.m + 1 \in HereAt(m, "insert")}

Has(t, f, side) == At(f, side) <= Len(t.kids[f[side]])
Kid(t, f, side) == t.kids[f[side]][At(f, side)]

\* The call f was made by g for the pair that g is at.
CalledBy(f, g, ot, nt) ==
  /\ Has(ot, g, "o") /\ f.o = Kid(ot, g, "o")
  /\ Has(nt, g, "n") /\ f.n = Kid(nt, g, "n")

Chain(fs, ot, nt) == \A i \in 1 .. Len(fs) - 1 : CalledBy(fs[i], fs[i + 1], ot, nt)

Carries(m, fs, ot, nt) ==
  Grown(m, ot, nt) /\ fs \in Seq(Standing(m, ot, nt)) /\ Chain(fs, ot, nt)

\* Nodes stay for what they stand for.
LEMMA StandingGrows ==
  ASSUME NEW ot, NEW nt, IsDoc(ot), IsDoc(nt), NEW m, Grown(m, ot, nt),
         NEW add \in Seq(MNodes(ot, nt)), Grown(m \o add, ot, nt)
  PROVE  Standing(m, ot, nt) \subseteq Standing(m \o add, ot, nt)
<1> DEFINE r == m \o add
<1>1. /\ Len(r) = Len(m) + Len(add) /\ Len(m) \in Nat /\ Len(add) \in Nat
      /\ \A i \in 1 .. Len(m) : r[i] = m[i]
  <2>1. m \in Seq(MNodes(ot, nt))
    BY DEF Grown
  <2> QED
    BY <2>1, JoinAt
<1>2. /\ \A k \in 1 .. Len(m) : k \in HereAt(m, "delete") => k \in HereAt(r, "delete")
      /\ \A k \in 1 .. Len(m) : k \in HereAt(m, "insert") => k \in HereAt(r, "insert")
  BY HereSame
<1> HIDE DEF r
<1>3. ASSUME NEW f \in Standing(m, ot, nt) PROVE f \in Standing(r, ot, nt)
  <2>1. f.m \in 0 .. Len(m) - 1
    BY <1>3 DEF Standing
  <2>2. f.m + 1 \in 1 .. Len(m) /\ f.m \in 0 .. Len(r) - 1
    BY <1>1, <2>1
  <2> QED
    BY <1>1, <1>2, <1>3, <2>2 DEF Standing
<1> QED
  BY <1>3 DEF r

\* One more call, by the innermost one.
LEMMA ChainPut ==
  ASSUME NEW ot, NEW nt, NEW C, NEW g \in C, NEW s \in Seq(C), Chain(s, ot, nt),
         s # <<>> => CalledBy(g, Head(s), ot, nt)
  PROVE  Chain(<<g>> \o s, ot, nt)
<1> DEFINE r == <<g>> \o s
<1>1. /\ Len(r) = Len(s) + 1 /\ Len(s) \in Nat
      /\ r[1] = g /\ \A i \in 1 .. Len(s) : r[i + 1] = s[i]
  BY CallsPut
<1>2. s # <<>> => Head(s) = s[1]
  BY HeadTailProperties
<1>3. Len(s) > 0 => s # <<>>
  BY EmptySeq
<1> HIDE DEF r
<1>4. ASSUME NEW i \in 1 .. Len(r) - 1 PROVE CalledBy(r[i], r[i + 1], ot, nt)
  <2>1. i \in 1 .. Len(s) /\ r[i + 1] = s[i]
    BY <1>1
  <2>2. CASE i = 1
    BY <1>1, <1>2, <1>3, <2>1, <2>2
  <2>3. CASE i # 1
    <3>1. i - 1 \in 1 .. Len(s) - 1 /\ i = (i - 1) + 1
      BY <1>1, <2>1, <2>3
    <3>2. PICK j \in 1 .. Len(s) - 1 : i = j + 1
      BY <3>1
    <3>3. r[i] = s[j] /\ CalledBy(s[j], s[j + 1], ot, nt)
      BY <1>1, <3>2 DEF Chain
    <3> QED
      BY <2>1, <3>2, <3>3
  <2> QED
    BY <2>2, <2>3
<1> QED
  BY <1>4 DEF Chain, r

\* The calls without the innermost one.
LEMMA ChainTail ==
  ASSUME NEW ot, NEW nt, NEW C, NEW fs \in Seq(C), fs # <<>>, Chain(fs, ot, nt)
  PROVE  /\ Head(fs) \in C /\ Tail(fs) \in Seq(C) /\ Chain(Tail(fs), ot, nt)
         /\ Tail(fs) # <<>> => Head(Tail(fs)) \in C /\ CalledBy(Head(fs), Head(Tail(fs)), ot, nt)
<1> DEFINE s == Tail(fs)
<1>1. /\ Head(fs) \in C /\ Head(fs) = fs[1] /\ s \in Seq(C)
      /\ Len(s) = Len(fs) - 1
      /\ \A i \in 1 .. Len(s) : s[i] = fs[i + 1]
  BY HeadTailProperties
<1> HIDE DEF s
<1>2. Len(s) \in Nat /\ Len(fs) = Len(s) + 1
  <2>1. Len(s) \in Nat /\ Len(fs) \in Nat
    BY <1>1, LenProperties
  <2> QED
    BY <1>1, <2>1
<1>3. Chain(s, ot, nt)
  <2> SUFFICES ASSUME NEW i \in 1 .. Len(s) - 1 PROVE CalledBy(s[i], s[i + 1], ot, nt)
    BY DEF Chain
  <2>1. i + 1 \in 1 .. Len(fs) - 1 /\ i \in 1 .. Len(s) /\ i + 1 \in 1 .. Len(s)
    BY <1>2
  <2> QED
    BY <1>1, <2>1 DEF Chain
<1>4. s # <<>> => Head(s) \in C /\ CalledBy(Head(fs), Head(s), ot, nt)
  <2> SUFFICES ASSUME s # <<>> PROVE Head(s) \in C /\ CalledBy(Head(fs), Head(s), ot, nt)
    OBVIOUS
  <2>1. Head(s) \in C /\ Head(s) = s[1] /\ Len(s) # 0
    BY <1>1, HeadTailProperties, EmptySeq
  <2>2. 1 \in 1 .. Len(s) /\ 1 \in 1 .. Len(fs) - 1
    BY <1>2, <2>1
  <2>3. s[1] = fs[2] /\ CalledBy(fs[1], fs[2], ot, nt)
    BY <1>1, <2>2 DEF Chain
  <2> QED
    BY <1>1, <2>1, <2>3
<1> QED
  BY <1>1, <1>3, <1>4 DEF s

\* The innermost call goes on to where g is.
Moved(f, g, do, dn) ==
  /\ g.m = f.m /\ g.o = f.o /\ g.n = f.n
  /\ g.oi = f.oi + do /\ g.ni = f.ni + dn

\* The innermost call goes on, and the merged tree grows.
LEMMA CarryOn ==
  ASSUME NEW ot, NEW nt, IsDoc(ot), IsDoc(nt), NEW m, NEW fs, Carries(m, fs, ot, nt), fs # <<>>,
         NEW add \in Seq(MNodes(ot, nt)), Grown(m \o add, ot, nt),
         NEW do, NEW dn, NEW g \in CallsOf(ot, nt), Moved(Head(fs), g, do, dn)
  PROVE  Carries(m \o add, <<g>> \o Tail(fs), ot, nt)
<1> DEFINE r == m \o add
           s == Tail(fs)
           S == Standing(r, ot, nt)
<1>1. Standing(m, ot, nt) \subseteq S
  BY StandingGrows DEF Carries
<1>2. /\ Head(fs) \in Standing(m, ot, nt) /\ s \in Seq(Standing(m, ot, nt))
      /\ Chain(s, ot, nt)
      /\ s # <<>> => CalledBy(Head(fs), Head(s), ot, nt)
  <2>1. fs \in Seq(Standing(m, ot, nt)) /\ Chain(fs, ot, nt)
    BY DEF Carries
  <2> QED
    BY <2>1, ChainTail
<1> HIDE DEF r, s, S
<1>3. Head(fs) \in S /\ s \in Seq(S)
  BY <1>1, <1>2
<1>4. g \in S
  BY <1>3 DEF S, Standing, Moved
<1>5. s # <<>> => CalledBy(g, Head(s), ot, nt)
  BY <1>2 DEF CalledBy, Moved
<1>6. Chain(<<g>> \o s, ot, nt)
  BY <1>2, <1>3, <1>4, <1>5, ChainPut
<1>7. <<g>> \o s \in Seq(S)
  BY <1>3, <1>4, CallsPut
<1> QED
  BY <1>6, <1>7 DEF Carries, S, r, s

\* It calls node_merge() for a child.
LEMMA CarryDown ==
  ASSUME NEW ot, NEW nt, IsDoc(ot), IsDoc(nt), NEW m, NEW fs, Carries(m, fs, ot, nt), fs # <<>>,
         Has(ot, Head(fs), "o"), Has(nt, Head(fs), "n"),
         NEW g \in CallsOf(ot, nt), g.m = Len(m),
         g.o = Kid(ot, Head(fs), "o"), g.n = Kid(nt, Head(fs), "n")
  PROVE  Carries(m \o <<Kept(Head(fs).m, g.o, g.n)>>, <<g>> \o fs, ot, nt)
<1> DEFINE f == Head(fs)
           v == Kept(f.m, g.o, g.n)
           y == <<v>>
           r == m \o y
           S == Standing(r, ot, nt)
<1>1. Grown(m, ot, nt) /\ fs \in Seq(Standing(m, ot, nt)) /\ Chain(fs, ot, nt)
  BY DEF Carries
<1>2. f \in Standing(m, ot, nt)
  BY <1>1, ChainTail
<1>3. /\ f.m \in 0 .. Len(m) - 1
      /\ f.m + 1 \in HereAt(m, "delete") /\ f.m + 1 \in HereAt(m, "insert")
      /\ g.o \in Ids(ot) /\ g.n \in Ids(nt)
  BY <1>2 DEF Standing, CallsOf
<1>4. /\ Grown(r, ot, nt) /\ Len(r) = Len(m) + 1 /\ y \in Seq(MNodes(ot, nt))
      /\ r[Len(m) + 1] = v
  <2> DEFINE m0 == f.m
             o == g.o
             n == g.n
  <2> HIDE DEF m0, o, n
  <2>1. m0 \in 0 .. Len(m) - 1 /\ o \in Ids(ot) /\ n \in Ids(nt) /\ Grown(m, ot, nt)
    BY <1>1, <1>3 DEF m0, o, n
  <2>2. LET q == m \o <<Kept(m0, o, n)>>
        IN  /\ Grown(q, ot, nt) /\ Len(q) = Len(m) + 1 /\ <<Kept(m0, o, n)>> \in Seq(MNodes(ot, nt))
            /\ q[Len(m) + 1] = Kept(m0, o, n)
    BY <2>1, KeepGrows
  <2> QED
    BY <2>2 DEF m0, o, n
<1>5. Len(m) + 1 \in HereAt(r, "delete") /\ Len(m) + 1 \in HereAt(r, "insert")
  <2>1. Sided(nt, "n", ot, nt)
    BY DEF Sided
  <2> DEFINE m0 == f.m
             o == g.o
             n == g.n
  <2>2. /\ Grown(m, ot, nt) /\ m0 \in 0 .. Len(m) - 1 /\ o \in Ids(ot) /\ n \in Ids(nt)
        /\ v = Kept(m0, o, n) /\ r = m \o y
        /\ m0 + 1 \in HereAt(m, "delete") /\ m0 + 1 \in HereAt(m, "insert")
    BY <1>1, <1>3
  <2> HIDE DEF m0, o, n, v, r
  <2>3. \A away \in {"delete", "insert"} : Len(m) + 1 \in HereAt(r, away)
    <3> SUFFICES ASSUME NEW away \in {"delete", "insert"} PROVE Len(m) + 1 \in HereAt(r, away)
      OBVIOUS
    <3>1. Keeping(nt, "n", ot, nt, m, m0, o, n, y, away)
      BY <2>1, <2>2 DEF Keeping
    <3>2. Len(m) + 1 \in HereAt(m \o y, away)
      <4> HIDE DEF y
      <4>1. Len(m) + 1 \in HereAt(m \o y, away)
        BY <3>1, KeepShown
      <4> QED
        BY <4>1
    <3> QED
      BY <2>2, <3>2
  <2> QED
    BY <2>3
<1> HIDE DEF y, r, v, f
<1>6. Standing(m, ot, nt) \subseteq S
  BY <1>1, <1>4, StandingGrows DEF r
<1>7. g \in S
  <2>1. v.o = g.o /\ v.n = g.n
    BY DEF v, Kept, Node
  <2>2. Len(m) \in 0 .. Len(r) - 1
    <3>1. Len(m) \in Nat
      BY <1>1, LenProperties DEF Grown
    <3> QED
      BY <1>4, <3>1
  <2> QED
    BY <1>4, <1>5, <2>1, <2>2 DEF S, Standing
<1> HIDE DEF S
<1>8. fs \in Seq(S)
  BY <1>1, <1>6
<1>9. CalledBy(g, Head(fs), ot, nt)
  BY DEF CalledBy
<1>10. Chain(<<g>> \o fs, ot, nt)
  BY <1>1, <1>7, <1>8, <1>9, ChainPut
<1>11. <<g>> \o fs \in Seq(S)
  BY <1>7, <1>8, CallsPut
<1> QED
  BY <1>4, <1>10, <1>11 DEF Carries, S, r, y, v, f

\* It returns, and the one that made it goes on.
LEMMA CarryUp ==
  ASSUME NEW ot, NEW nt, NEW m, NEW fs, Carries(m, fs, ot, nt), fs # <<>>, Tail(fs) # <<>>,
         NEW do, NEW dn, NEW g \in CallsOf(ot, nt), Moved(Head(Tail(fs)), g, do, dn)
  PROVE  Carries(m, <<g>> \o Tail(Tail(fs)), ot, nt)
<1> DEFINE S == Standing(m, ot, nt)
           s == Tail(fs)
           u == Tail(s)
<1>1. s \in Seq(S) /\ Chain(s, ot, nt) /\ s # <<>>
  <2>1. fs \in Seq(S) /\ Chain(fs, ot, nt)
    BY DEF Carries
  <2> HIDE DEF S
  <2> QED
    BY <2>1, ChainTail
<1> HIDE DEF s
<1>2. /\ Head(s) \in S /\ u \in Seq(S) /\ Chain(u, ot, nt)
      /\ u # <<>> => CalledBy(Head(s), Head(u), ot, nt)
  <2> HIDE DEF S
  <2> QED
    BY <1>1, ChainTail
<1>3. Moved(Head(s), g, do, dn)
  BY DEF s
<1>4. g \in S
  BY <1>2, <1>3 DEF Standing, Moved
<1>5. u # <<>> => CalledBy(g, Head(u), ot, nt)
  BY <1>2, <1>3 DEF CalledBy, Moved
<1> HIDE DEF S, u
<1>6. Chain(<<g>> \o u, ot, nt)
  BY <1>2, <1>4, <1>5, ChainPut
<1>7. <<g>> \o u \in Seq(S)
  BY <1>2, <1>4, CallsPut
<1> QED
  BY <1>6, <1>7 DEF Carries, S, s, u

\* What is away on a side, and what is marked as changed on it.
Away(side) == IF side = "n" THEN "delete" ELSE "insert"
Mark(side) == IF side = "n" THEN "insert" ELSE "delete"

\* What is shown on a side, and what the calls have still to show.
Total(t, side, P, ot, nt, m, fs) ==
  ShownIn(m, Away(side), t, side, P, nt) \o Rest(t, side, P, ot, nt, fs)

\* The innermost call on one side.
LEMMA TopIs ==
  ASSUME NEW t, NEW side, NEW ot, NEW nt, Sided(t, side, ot, nt),
         NEW m, NEW fs, Carries(m, fs, ot, nt), fs # <<>>
  PROVE  LET f == Head(fs)
         IN  /\ IsDoc(ot) /\ IsDoc(nt) /\ IsDoc(t) /\ Grown(m, ot, nt)
             /\ fs \in Seq(CallsOf(ot, nt)) /\ f \in CallsOf(ot, nt)
             /\ f.m \in 0 .. Len(m) - 1 /\ Len(m) \in Nat
             /\ m[f.m + 1][side] = f[side] /\ f.m + 1 \in HereAt(m, Away(side))
             /\ f[side] \in Ids(t) /\ At(f, side) \in Nat \ {0}
             /\ Has(t, f, side) => Kid(t, f, side) \in Ids(t) /\ t.par[Kid(t, f, side)] = f[side]
<1> DEFINE f == Head(fs)
<1>1. IsDoc(ot) /\ IsDoc(nt) /\ IsDoc(t) /\ Grown(m, ot, nt) /\ fs \in Seq(Standing(m, ot, nt))
  BY DEF Sided, Carries
<1>2. f \in Standing(m, ot, nt)
  BY <1>1, HeadTailProperties
<1>3. Standing(m, ot, nt) \subseteq CallsOf(ot, nt)
  BY DEF Standing
<1>4. fs \in Seq(CallsOf(ot, nt))
  BY <1>1, <1>3
<1> HIDE DEF f
<1>5. /\ f \in CallsOf(ot, nt) /\ f.m \in 0 .. Len(m) - 1
      /\ m[f.m + 1].o = f.o /\ m[f.m + 1].n = f.n
      /\ f.m + 1 \in HereAt(m, "delete") /\ f.m + 1 \in HereAt(m, "insert")
  BY <1>2 DEF Standing
<1>6. m[f.m + 1][side] = f[side] /\ f.m + 1 \in HereAt(m, Away(side))
  BY <1>5 DEF Sided, Away
<1>7. f[side] \in Ids(t) /\ At(f, side) \in Nat \ {0}
  BY <1>5, CallSide
<1>8. Len(m) \in Nat
  BY <1>1, LenProperties DEF Grown
<1>9. Has(t, f, side) => Kid(t, f, side) \in Ids(t) /\ t.par[Kid(t, f, side)] = f[side]
  <2> SUFFICES ASSUME Has(t, f, side)
               PROVE  Kid(t, f, side) \in Ids(t) /\ t.par[Kid(t, f, side)] = f[side]
    OBVIOUS
  <2>1. IsTree(t) /\ t.kids[f[side]] \in Seq(Ids(t))
    BY <1>1, <1>7, DocIsTree DEF IsTree
  <2>2. Len(t.kids[f[side]]) \in Nat /\ DOMAIN t.kids[f[side]] = 1 .. Len(t.kids[f[side]])
    BY <2>1, LenProperties
  <2>3. At(f, side) \in DOMAIN t.kids[f[side]]
    BY <1>7, <2>2 DEF Has
  <2> QED
    BY <1>7, <2>1, <2>3, KidIsNode DEF Kid
<1> QED
  BY <1>1, <1>4, <1>5, <1>6, <1>7, <1>8, <1>9 DEF f

(***************************************************************************)
(* A deleted or inserted child.                                            *)
(***************************************************************************)
Drops(t, side, ot, nt, m, fs, m2, fs2) ==
  /\ Sided(t, side, ot, nt) /\ fs # <<>> /\ Has(t, Head(fs), side)
  /\ m2 = m \o Clone(PreOrder(t)[Kid(t, Head(fs), side)], t, side, Len(m),
                     Head(fs).m, Mark(side), None)
  /\ \E g \in CallsOf(ot, nt) :
       /\ Moved(Head(fs), g, IF side = "o" THEN 1 ELSE 0, IF side = "n" THEN 1 ELSE 0)
       /\ fs2 = <<g>> \o Tail(fs)

\* A child that is cloned as changed: the calls go on.
LEMMA DropsCarry ==
  ASSUME NEW t, NEW side, NEW ot, NEW nt, NEW m, NEW fs, NEW m2, NEW fs2,
         Carries(m, fs, ot, nt), Drops(t, side, ot, nt, m, fs, m2, fs2)
  PROVE  /\ Carries(m2, fs2, ot, nt)
         /\ Cloning(t, side, ot, nt, m, Kid(t, Head(fs), side), Head(fs).m, Mark(side), None)
<1>1. Sided(t, side, ot, nt) /\ fs # <<>> /\ Has(t, Head(fs), side)
  BY DEF Drops
<1> DEFINE f == Head(fs)
           n == Kid(t, f, side)
           c == Clone(PreOrder(t)[n], t, side, Len(m), f.m, Mark(side), None)
<1>2. /\ IsDoc(ot) /\ IsDoc(nt) /\ Grown(m, ot, nt)
      /\ f \in CallsOf(ot, nt) /\ f.m \in 0 .. Len(m) - 1 /\ n \in Ids(t)
  BY <1>1, TopIs
<1>3. Cloning(t, side, ot, nt, m, n, f.m, Mark(side), None)
  BY <1>1, <1>2 DEF Cloning, Mark
<1>4. c \in Seq(MNodes(ot, nt)) /\ Grown(m \o c, ot, nt)
  BY <1>3, CloneType, CloneGrows
<1>5. PICK g \in CallsOf(ot, nt) :
        /\ Moved(f, g, IF side = "o" THEN 1 ELSE 0, IF side = "n" THEN 1 ELSE 0)
        /\ fs2 = <<g>> \o Tail(fs)
  BY DEF Drops
<1>6. m2 = m \o c
  BY DEF Drops
<1> HIDE DEF c, n
<1>7. Carries(m \o c, <<g>> \o Tail(fs), ot, nt)
  BY <1>1, <1>2, <1>4, <1>5, CarryOn
<1> QED
  BY <1>3, <1>5, <1>6, <1>7 DEF n

\* It shows on its own side, and nowhere on the other.
LEMMA DropsShow ==
  ASSUME NEW t, NEW side, NEW ot, NEW nt, NEW m, NEW fs, NEW m2, NEW fs2,
         Carries(m, fs, ot, nt), Drops(t, side, ot, nt, m, fs, m2, fs2),
         NEW u, NEW where, Sided(u, where, ot, nt), NEW P
  PROVE  Total(u, where, P, ot, nt, m2, fs2) = Total(u, where, P, ot, nt, m, fs)
<1> DEFINE f == Head(fs)
           n == Kid(t, f, side)
           c == Clone(PreOrder(t)[n], t, side, Len(m), f.m, Mark(side), None)
           R(gs) == Rest(u, where, P, ot, nt, gs)
           V(r) == ShownIn(r, Away(where), u, where, P, nt)
<1>1. Sided(t, side, ot, nt) /\ fs # <<>> /\ Has(t, f, side) /\ m2 = m \o c
  BY DEF Drops
<1>2. PICK g \in CallsOf(ot, nt) :
        /\ Moved(f, g, IF side = "o" THEN 1 ELSE 0, IF side = "n" THEN 1 ELSE 0)
        /\ fs2 = <<g>> \o Tail(fs)
  BY DEF Drops
<1>3. Cloning(t, side, ot, nt, m, n, f.m, Mark(side), None)
  BY DropsCarry
<1>4. /\ fs \in Seq(CallsOf(ot, nt)) /\ f \in CallsOf(ot, nt) /\ Grown(m, ot, nt)
      /\ m[f.m + 1][side] = t.par[n] /\ f.m + 1 \in HereAt(m, Away(side))
  BY <1>1, TopIs
<1>5. side \in {"o", "n"} /\ where \in {"o", "n"}
  BY <1>1 DEF Sided
<1>6. g[where] = f[where]
  BY <1>2, <1>5 DEF Moved
<1>7. CASE where = side
  <2>1. u = t
    BY <1>1, <1>7 DEF Sided
  <2>2. Away(side) # "none" /\ Away(side) # Mark(side)
    BY DEF Away, Mark
  <2>3. V(m \o c) = V(m) \o Reading(t, P, n)
    <3> DEFINE x    == n
               m0   == f.m
               chng == Mark(side)
               away == Away(side)
    <3> HIDE DEF x, m0, chng, away
    <3>1. Cloning(t, side, ot, nt, m, x, m0, chng, None)
      BY <1>3 DEF x, m0, chng
    <3>2. /\ away # "none" /\ away # chng /\ m0 + 1 \in HereAt(m, away)
          /\ m[m0 + 1][side] = t.par[x]
      BY <1>4, <2>2 DEF x, m0, chng, away
    <3>3. LET d == Clone(PreOrder(t)[x], t, side, Len(m), m0, chng, None)
          IN  ShownIn(m \o d, away, t, side, P, nt)
                = ShownIn(m, away, t, side, P, nt) \o Reading(t, P, x)
      BY <3>1, <3>2, CloneShown
    <3> QED
      BY <1>7, <2>1, <3>3, Zenon DEF x, m0, chng, away
  <2>4. At(g, side) = At(f, side) + 1
    BY <1>2, <1>5 DEF Moved, At
  <2>5. R(fs) = Reading(u, P, n) \o R(<<g>> \o Tail(fs))
    <3>1. /\ At(f, where) <= Len(u.kids[f[where]]) /\ n = u.kids[f[where]][At(f, where)]
          /\ At(g, where) = At(f, where) + 1 /\ fs # <<>>
      BY <1>1, <1>7, <2>1, <2>4 DEF Has, Kid
    <3>2. R(fs) = Reading(u, P, u.kids[f[where]][At(f, where)]) \o R(<<g>> \o Tail(fs))
      <4> HIDE DEF n, c
      <4>1. /\ Rest(u, where, P, ot, nt, fs)
                  = Reading(u, P, u.kids[Head(fs)[where]][At(Head(fs), where)])
                      \o Rest(u, where, P, ot, nt, <<g>> \o Tail(fs))
        <5>1. /\ fs \in Seq(CallsOf(ot, nt)) /\ fs # <<>> /\ g[where] = Head(fs)[where]
              /\ At(g, where) = At(Head(fs), where) + 1
              /\ At(Head(fs), where) <= Len(u.kids[Head(fs)[where]])
          BY <1>4, <1>6, <3>1
        <5> QED
          <6>1. Advances(u, where, ot, nt, fs, g)
            BY <5>1 DEF Advances
          <6> QED
            BY <6>1, RestMove
      <4> QED
        BY <4>1, Zenon
    <3> QED
      BY <3>1, <3>2
  <2>6. /\ V(m) \in Seq(Atoms(u)) /\ Reading(t, P, n) \in Seq(Atoms(u))
        /\ R(<<g>> \o Tail(fs)) \in Seq(Atoms(u))
    <3>1. V(m) \in Seq(Atoms(u))
      BY <1>4, ShownInType
    <3>2. Reading(t, P, n) \in Seq(Atoms(u))
      <4>1. IsDoc(t) /\ n \in Ids(t)
        BY <1>1, TopIs
      <4> QED
        BY <2>1, <4>1, ReadingType
    <3>3. <<g>> \o Tail(fs) \in Seq(CallsOf(ot, nt)) /\ <<g>> \o Tail(fs) # <<>>
      <4>1. Tail(fs) \in Seq(CallsOf(ot, nt))
        BY <1>1, <1>4, HeadTailProperties
      <4> QED
        BY <4>1, CallsPut
    <3>4. R(<<g>> \o Tail(fs)) \in Seq(Atoms(u))
      BY <3>3, RestType
    <3> QED
      BY <3>1, <3>2, <3>4
  <2> DEFINE a == V(m)
             b == Reading(t, P, n)
             d == R(<<g>> \o Tail(fs))
             A == Atoms(u)
  <2> HIDE DEF a, b, d, A
  <2>7. (a \o b) \o d = a \o (b \o d)
    <3>1. a \in Seq(A) /\ b \in Seq(A) /\ d \in Seq(A)
      BY <2>6 DEF a, b, d, A
    <3> QED
      BY <3>1, ConcatAssociative
  <2>8. V(m2) = a \o b /\ R(fs2) = d /\ R(fs) = b \o d /\ V(m) = a
    BY <1>1, <1>2, <2>1, <2>3, <2>5 DEF a, b, d
  <2> QED
    BY <2>7, <2>8, Zenon DEF Total
<1>8. CASE where # side
  <2>1. Away(where) = Mark(side) /\ Mark(side) # "none"
    BY <1>5, <1>8 DEF Away, Mark
  <2>2. V(m \o c) = V(m)
    BY <1>3, <2>1, CloneAway
  <2>3. At(g, where) = At(f, where)
    <3>1. f.oi \in Nat /\ f.ni \in Nat
      BY <1>4 DEF CallsOf
    <3> QED
      BY <1>2, <1>5, <1>8, <3>1 DEF Moved, At
  <2>4. R(<<g>> \o Tail(fs)) = R(fs)
    BY <1>1, <1>4, <1>6, <2>3, RestStay
  <2> QED
    BY <1>1, <1>2, <2>2, <2>4, Zenon DEF Total
<1> QED
  BY <1>7, <1>8

\* A child is shown, and the call goes on past it.
LEMMA MoveShow ==
  ASSUME NEW t, NEW side, NEW ot, NEW nt, NEW m, NEW fs, NEW m2, NEW g, NEW P,
         Sided(t, side, ot, nt), Carries(m, fs, ot, nt), fs # <<>>, Has(t, Head(fs), side),
         g \in CallsOf(ot, nt), Moved(Head(fs), g, 1, 1),
         ShownIn(m2, Away(side), t, side, P, nt)
           = ShownIn(m, Away(side), t, side, P, nt) \o Reading(t, P, Kid(t, Head(fs), side))
  PROVE  Total(t, side, P, ot, nt, m2, <<g>> \o Tail(fs)) = Total(t, side, P, ot, nt, m, fs)
<1> DEFINE f == Head(fs)
           n == Kid(t, f, side)
           C == CallsOf(ot, nt)
<1>1. /\ fs \in Seq(C) /\ f \in C /\ Grown(m, ot, nt) /\ IsDoc(t)
      /\ (Has(t, f, side) => n \in Ids(t))
  BY TopIs
<1>2. side \in {"o", "n"}
  BY DEF Sided
<1>3. g[side] = f[side] /\ At(g, side) = At(f, side) + 1
  BY <1>2 DEF Moved, At
<1>4. At(f, side) <= Len(t.kids[f[side]]) /\ n = t.kids[f[side]][At(f, side)]
  BY DEF Has, Kid
<1> DEFINE a == ShownIn(m, Away(side), t, side, P, nt)
           b == Reading(t, P, n)
           d == Rest(t, side, P, ot, nt, <<g>> \o Tail(fs))
           A == Atoms(t)
<1>5. Rest(t, side, P, ot, nt, fs) = b \o d
  <2>1. Advances(t, side, ot, nt, fs, g)
    BY <1>1, <1>3, <1>4 DEF Advances
  <2>2. Rest(t, side, P, ot, nt, fs)
           = Reading(t, P, t.kids[Head(fs)[side]][At(Head(fs), side)])
               \o Rest(t, side, P, ot, nt, <<g>> \o Tail(fs))
    BY <2>1, RestMove
  <2> QED
    BY <1>4, <2>2, Zenon
<1>6. a \in Seq(A)
  BY <1>1, ShownInType
<1>7. b \in Seq(A)
  BY <1>1, ReadingType
<1>8. d \in Seq(A)
  <2> DEFINE gs == <<g>> \o Tail(fs)
  <2>1. gs \in Seq(C) /\ gs # <<>>
    <3>1. Tail(fs) \in Seq(C)
      BY <1>1, HeadTailProperties
    <3> HIDE DEF C
    <3> QED
      BY <3>1, CallsPut DEF C
  <2> HIDE DEF gs
  <2>2. Rest(t, side, P, ot, nt, gs) \in Seq(Atoms(t))
    BY <2>1, RestType
  <2> QED
    BY <2>2 DEF gs
<1> HIDE DEF a, b, d, A
<1>9. (a \o b) \o d = a \o (b \o d)
  BY <1>6, <1>7, <1>8, ConcatAssociative
<1>10. Total(t, side, P, ot, nt, m, fs) = a \o (b \o d)
  BY <1>5, Zenon DEF Total, a
<1>11. Total(t, side, P, ot, nt, m2, <<g>> \o Tail(fs)) = (a \o b) \o d
  BY Zenon DEF Total, a, b, d
<1> QED
  BY <1>9, <1>10, <1>11

(***************************************************************************)
(* Two texts that are shown as one list of words.                          *)
(***************************************************************************)
Texts(ot, nt, m, fs, m2, fs2) ==
  LET f == Head(fs)
      o == Kid(ot, f, "o")
      n == Kid(nt, f, "n")
  IN  /\ IsDoc(ot) /\ IsDoc(nt)
      /\ fs # <<>> /\ Has(ot, f, "o") /\ Has(nt, f, "n")
      /\ IsText(ot, o) /\ IsText(nt, n)
      /\ \E script \in Seq(Ops) :
           /\ Over(Says("add"), script) = Words(TextOf(ot, o))
           /\ Over(Says("delete"), script) = Words(TextOf(nt, n))
           /\ m2 = m \o Over(ScriptNodes(f.m, o, n), script)
      /\ \E g \in CallsOf(ot, nt) : Moved(f, g, 1, 1) /\ fs2 = <<g>> \o Tail(fs)

\* Two texts show on both sides what they did.
LEMMA TextsStep ==
  ASSUME NEW ot, NEW nt, NEW m, NEW fs, NEW m2, NEW fs2,
         Carries(m, fs, ot, nt), Texts(ot, nt, m, fs, m2, fs2)
  PROVE  /\ Carries(m2, fs2, ot, nt)
         /\ \A t, side, P : Sided(t, side, ot, nt) /\ Head(fs)[side] \in P =>
              Total(t, side, P, ot, nt, m2, fs2) = Total(t, side, P, ot, nt, m, fs)
<1> DEFINE f == Head(fs)
           o == Kid(ot, f, "o")
           n == Kid(nt, f, "n")
<1>1. /\ IsDoc(ot) /\ IsDoc(nt)
      /\ fs # <<>> /\ Has(ot, f, "o") /\ Has(nt, f, "n")
      /\ IsText(ot, o) /\ IsText(nt, n)
  BY DEF Texts
<1>2. PICK script \in Seq(Ops) :
        /\ Over(Says("add"), script) = Words(TextOf(ot, o))
        /\ Over(Says("delete"), script) = Words(TextOf(nt, n))
        /\ m2 = m \o Over(ScriptNodes(f.m, o, n), script)
  BY DEF Texts
<1>3. PICK g \in CallsOf(ot, nt) : Moved(f, g, 1, 1) /\ fs2 = <<g>> \o Tail(fs)
  BY DEF Texts
<1>4. Sided(ot, "o", ot, nt) /\ Sided(nt, "n", ot, nt)
  BY <1>1 DEF Sided
<1>5. /\ Grown(m, ot, nt) /\ f \in CallsOf(ot, nt) /\ f.m \in 0 .. Len(m) - 1
      /\ o \in Ids(ot) /\ n \in Ids(nt)
  BY <1>1, <1>4, TopIs
<1> DEFINE add == Over(ScriptNodes(f.m, o, n), script)
<1>6. add \in Seq(TextNodes(f.m, o, n))
  <2> DEFINE m0 == f.m
             d  == "delete"
  <2> HIDE DEF m0, o, n, d
  <2>1. <<d, d>> \in {<<"delete", "delete">>, <<"insert", "add">>}
    BY DEF d
  <2>2. /\ Over(ScriptNodes(m0, o, n), script) \in Seq(TextNodes(m0, o, n))
        /\ Over(WordsHere(m0, o, n, d, None), Over(ScriptNodes(m0, o, n), script))
             = Over(PutWord(None), Over(Says(d), script))
    BY <2>1, ScriptShows
  <2> QED
    BY <2>2, Zenon DEF m0
<1>7. add \in Seq(MNodes(ot, nt)) /\ Grown(m \o add, ot, nt)
  <2> HIDE DEF add, o, n, f
  <2> DEFINE m0 == f.m
  <2> HIDE DEF m0
  <2>1. add \in Seq(TextNodes(m0, o, n)) /\ m0 \in 0 .. Len(m) - 1
    BY <1>5, <1>6 DEF m0
  <2> QED
    BY <1>1, <1>5, <2>1, ScriptGrows
<1>8. Carries(m2, fs2, ot, nt)
  <2> HIDE DEF add
  <2>1. Carries(m \o add, <<g>> \o Tail(fs), ot, nt)
    BY <1>1, <1>3, <1>7, CarryOn
  <2> QED
    BY <1>2, <1>3, <2>1 DEF add
<1>9. ASSUME NEW t, NEW side, NEW P, Sided(t, side, ot, nt), f[side] \in P
      PROVE  Total(t, side, P, ot, nt, m2, fs2) = Total(t, side, P, ot, nt, m, fs)
  <2> DEFINE x    == Kid(t, f, side)
             kind == IF side = "n" THEN "delete" ELSE "add"
             away == Away(side)
             m0   == f.m
  <2>1. Has(t, f, side) /\ IsText(t, x) /\ Over(Says(kind), script) = Words(TextOf(t, x))
    BY <1>1, <1>2, <1>9 DEF Sided
  <2>2. /\ m0 \in 0 .. Len(m) - 1 /\ m0 + 1 \in HereAt(m, away)
        /\ m[m0 + 1][side] = t.par[x] /\ t.par[x] \in P
    BY <1>1, <1>9, <2>1, TopIs
  <2>3. TextsOn(t, side, ot, nt, o, n, x, away, kind)
    BY <1>5, <1>9, <2>1 DEF TextsOn, Away, Sided
  <2> HIDE DEF x, kind, away, m0, o, n
  <2>4. LET a == Over(ScriptNodes(m0, o, n), script)
        IN  ShownIn(m \o a, away, t, side, P, nt)
               = ShownIn(m, away, t, side, P, nt) \o Reading(t, P, x)
    BY <1>2, <1>5, <2>1, <2>2, <2>3, TextsShown
  <2>5. ShownIn(m2, away, t, side, P, nt)
               = ShownIn(m, away, t, side, P, nt) \o Reading(t, P, x)
    BY <1>2, <2>4, Zenon DEF m0
  <2>6. Total(t, side, P, ot, nt, m2, <<g>> \o Tail(fs)) = Total(t, side, P, ot, nt, m, fs)
    BY <1>1, <1>3, <1>9, <2>1, <2>5, MoveShow DEF x, away
  <2> QED
    BY <1>3, <2>6, Zenon
<1> QED
  BY <1>8, <1>9

\* What is to be shown of each side: all of the new tree, and what is compared of the old.
Wanted(t, side, P) == \/ side = "n" /\ P = Ids(t)
                      \/ side = "o" /\ P = LooksIn(t)

\* The innermost call on both sides.
LEMMA TopBoth ==
  ASSUME NEW ot, NEW nt, IsDoc(ot), IsDoc(nt),
         NEW m, NEW fs, Carries(m, fs, ot, nt), fs # <<>>,
         Has(ot, Head(fs), "o"), Has(nt, Head(fs), "n")
  PROVE  LET f == Head(fs)
             o == Kid(ot, f, "o")
             n == Kid(nt, f, "n")
         IN  /\ Grown(m, ot, nt) /\ fs \in Seq(CallsOf(ot, nt)) /\ f \in CallsOf(ot, nt)
             /\ f.m \in 0 .. Len(m) - 1 /\ Len(m) \in Nat
             /\ o \in Ids(ot) /\ n \in Ids(nt) /\ ot.par[o] = f.o /\ nt.par[n] = f.n
             /\ f.o \in Ids(ot) /\ f.n \in Ids(nt)
             /\ m[f.m + 1].o = f.o /\ m[f.m + 1].n = f.n
             /\ f.m + 1 \in HereAt(m, "delete") /\ f.m + 1 \in HereAt(m, "insert")
<1>1. Sided(ot, "o", ot, nt) /\ Sided(nt, "n", ot, nt)
  BY DEF Sided
<1> DEFINE f == Head(fs)
           o == Kid(ot, f, "o")
           n == Kid(nt, f, "n")
<1>0. Has(ot, f, "o") /\ Has(nt, f, "n")
  OBVIOUS
<1>2. /\ Grown(m, ot, nt) /\ fs \in Seq(CallsOf(ot, nt)) /\ f \in CallsOf(ot, nt)
      /\ f.m \in 0 .. Len(m) - 1 /\ Len(m) \in Nat
      /\ o \in Ids(ot) /\ ot.par[o] = f.o /\ f.o \in Ids(ot)
      /\ m[f.m + 1].o = f.o /\ f.m + 1 \in HereAt(m, "insert")
  <2> DEFINE side == "o"
  <2>0. Sided(ot, side, ot, nt)
    BY <1>1
  <2>1. /\ Grown(m, ot, nt) /\ fs \in Seq(CallsOf(ot, nt)) /\ f \in CallsOf(ot, nt)
        /\ f.m \in 0 .. Len(m) - 1 /\ Len(m) \in Nat
        /\ m[f.m + 1][side] = f[side] /\ f.m + 1 \in HereAt(m, Away(side))
        /\ f[side] \in Ids(ot)
        /\ Has(ot, f, side) => Kid(ot, f, side) \in Ids(ot) /\ ot.par[Kid(ot, f, side)] = f[side]
    <3> HIDE DEF side
    <3> QED
      BY <2>0, TopIs
  <2> HIDE DEF f
  <2> QED
    BY <1>0, <2>1 DEF Away
<1>3. /\ n \in Ids(nt) /\ nt.par[n] = f.n /\ f.n \in Ids(nt)
      /\ m[f.m + 1].n = f.n /\ f.m + 1 \in HereAt(m, "delete")
  <2> DEFINE side == "n"
  <2>0. Sided(nt, side, ot, nt)
    BY <1>1
  <2>1. /\ m[f.m + 1][side] = f[side] /\ f.m + 1 \in HereAt(m, Away(side))
        /\ f[side] \in Ids(nt)
        /\ Has(nt, f, side) => Kid(nt, f, side) \in Ids(nt) /\ nt.par[Kid(nt, f, side)] = f[side]
    <3> HIDE DEF side
    <3> QED
      BY <2>0, TopIs
  <2> HIDE DEF f
  <2> QED
    BY <1>0, <2>1 DEF Away
<1> QED
  BY <1>2, <1>3

(***************************************************************************)
(* Two opaque nodes that are put side by side.                             *)
(***************************************************************************)
Opaques(ot, nt, m, fs, m2, fs2) ==
  LET f == Head(fs)
      o == Kid(ot, f, "o")
      n == Kid(nt, f, "n")
  IN  /\ IsDoc(ot) /\ IsDoc(nt)
      /\ fs # <<>> /\ Has(ot, f, "o") /\ Has(nt, f, "n")
      /\ IsOpaque(ot, o) /\ IsOpaque(nt, n)
      /\ m2 = m \o Clone(PreOrder(nt)[n], nt, "n", Len(m), f.m, "none", o)
      /\ \E g \in CallsOf(ot, nt) : Moved(f, g, 1, 1) /\ fs2 = <<g>> \o Tail(fs)

\* So do two opaque nodes, the old one as far as it is compared.
LEMMA OpaquesStep ==
  ASSUME NEW ot, NEW nt, NEW m, NEW fs, NEW m2, NEW fs2,
         Carries(m, fs, ot, nt), Opaques(ot, nt, m, fs, m2, fs2)
  PROVE  /\ Carries(m2, fs2, ot, nt)
         /\ \A t, side, P : Sided(t, side, ot, nt) /\ Wanted(t, side, P) =>
              Total(t, side, P, ot, nt, m2, fs2) = Total(t, side, P, ot, nt, m, fs)
<1> DEFINE f == Head(fs)
           o == Kid(ot, f, "o")
           n == Kid(nt, f, "n")
           s == PreOrder(nt)[n]
           m0 == f.m
           add == Clone(s, nt, "n", Len(m), m0, "none", o)
<1>1. /\ IsDoc(ot) /\ IsDoc(nt)
      /\ fs # <<>> /\ Has(ot, f, "o") /\ Has(nt, f, "n")
      /\ IsOpaque(ot, o) /\ IsOpaque(nt, n) /\ m2 = m \o add
  BY DEF Opaques
<1>2. PICK g \in CallsOf(ot, nt) : Moved(f, g, 1, 1) /\ fs2 = <<g>> \o Tail(fs)
  BY DEF Opaques
<1>3. Sided(ot, "o", ot, nt) /\ Sided(nt, "n", ot, nt)
  BY <1>1 DEF Sided
<1>4. /\ Grown(m, ot, nt) /\ f \in CallsOf(ot, nt) /\ m0 \in 0 .. Len(m) - 1
      /\ o \in Ids(ot) /\ n \in Ids(nt) /\ ot.par[o] = f.o /\ nt.par[n] = f.n
      /\ m[m0 + 1].o = f.o /\ m[m0 + 1].n = f.n
      /\ m0 + 1 \in HereAt(m, "delete") /\ m0 + 1 \in HereAt(m, "insert")
  BY <1>1, TopBoth
<1>5. o # None
  BY <1>1, <1>4, DocIsTree DEF IsTree, None
<1>6. Cloning(nt, "n", ot, nt, m, n, m0, "none", o)
  BY <1>3, <1>4 DEF Cloning
<1>7. add \in Seq(MNodes(ot, nt)) /\ Grown(m \o add, ot, nt)
  <2> HIDE DEF m0, o, n
  <2> QED
    BY <1>6, CloneType, CloneGrows
<1>8. Carries(m2, fs2, ot, nt)
  <2> HIDE DEF add
  <2>1. Carries(m \o add, <<g>> \o Tail(fs), ot, nt)
    BY <1>1, <1>2, <1>7, CarryOn
  <2> QED
    BY <1>1, <1>2, <2>1
<1>9. ASSUME NEW t, NEW side, NEW P, Sided(t, side, ot, nt), Wanted(t, side, P)
      PROVE  Total(t, side, P, ot, nt, m2, fs2) = Total(t, side, P, ot, nt, m, fs)
  <2> DEFINE x == Kid(t, f, side)
             a == ShownIn(m, Away(side), t, side, P, nt)
  <2>1. Has(t, f, side) /\ side \in {"o", "n"}
    BY <1>1, <1>9 DEF Sided
  <2>2. ShownIn(m2, Away(side), t, side, P, nt) = a \o Reading(t, P, x)
    <3>1. CASE side = "n"
      <4>1. t = nt /\ x = n /\ Away(side) = "delete"
        BY <1>9, <3>1 DEF Sided, Away
      <4>2. /\ "delete" # "none" /\ m0 + 1 \in HereAt(m, "delete")
            /\ m[m0 + 1]["n"] = nt.par[n]
        BY <1>4
      <4>3. LET c == Clone(PreOrder(nt)[n], nt, "n", Len(m), m0, "none", o)
            IN  ShownIn(m \o c, "delete", nt, "n", P, nt)
                  = ShownIn(m, "delete", nt, "n", P, nt) \o Reading(nt, P, n)
        <5> HIDE DEF m0, o, n
        <5> QED
          BY <1>6, <4>2, CloneShown
      <4> QED
        BY <1>1, <3>1, <4>1, <4>3, Zenon
    <3>2. CASE side = "o"
      <4>1. t = ot /\ x = o /\ Away(side) = "insert" /\ P = LooksIn(ot)
        BY <1>9, <3>2 DEF Sided, Away, Wanted
      <4>2. /\ "insert" # "none" /\ m0 + 1 \in HereAt(m, "insert")
            /\ m[m0 + 1].o = ot.par[o]
        BY <1>4
      <4>3. LET c == Clone(PreOrder(nt)[n], nt, "n", Len(m), m0, "none", o)
            IN  ShownIn(m \o c, "insert", ot, "o", P, nt)
                  = ShownIn(m, "insert", ot, "o", P, nt) \o Shown(ot, o, m[m0 + 1].o, P)
        <5> DEFINE away == "insert"
        <5> HIDE DEF m0, o, n, away
        <5>1. away # "none" /\ m0 + 1 \in HereAt(m, away)
          BY <4>2 DEF away
        <5>2. LET c == Clone(PreOrder(nt)[n], nt, "n", Len(m), m0, "none", o)
              IN  ShownIn(m \o c, away, ot, "o", P, nt)
                    = ShownIn(m, away, ot, "o", P, nt) \o Shown(ot, o, m[m0 + 1].o, P)
          BY <1>1, <1>5, <1>6, <5>1, OpaqueShown
        <5> QED
          BY <5>2, Zenon DEF away
      <4>4. Reading(ot, P, o) = Shown(ot, o, ot.par[o], P)
        <5> HIDE DEF m0, o, n
        <5> QED
          BY <1>1, <1>4, <4>1, OpaqueReading
      <4>5. ShownIn(m2, "insert", ot, "o", P, nt)
              = ShownIn(m, "insert", ot, "o", P, nt) \o Reading(ot, P, o)
        BY <1>1, <4>2, <4>3, <4>4, Zenon
      <4> QED
        BY <3>2, <4>1, <4>5, Zenon
    <3> QED
      BY <2>1, <3>1, <3>2
  <2>3. Total(t, side, P, ot, nt, m2, <<g>> \o Tail(fs)) = Total(t, side, P, ot, nt, m, fs)
    <3> HIDE DEF a, add, o, n
    <3>1. ShownIn(m2, Away(side), t, side, P, nt)
            = ShownIn(m, Away(side), t, side, P, nt) \o Reading(t, P, Kid(t, Head(fs), side))
      BY <2>2, Zenon DEF a
    <3> HIDE DEF f, x
    <3>2. Has(t, Head(fs), side) /\ Moved(Head(fs), g, 1, 1)
      BY <1>2, <2>1, Zenon DEF f
    <3>3. fs # <<>> /\ g \in CallsOf(ot, nt)
      BY <1>1
    <3> QED
      BY <1>9, <3>1, <3>2, <3>3, MoveShow
  <2> QED
    BY <1>2, <2>3, Zenon
<1> QED
  BY <1>8, <1>9

(***************************************************************************)
(* Two other nodes that are put side by side, with a call for them.        *)
(***************************************************************************)
Keeps(ot, nt, m, fs, m2, fs2) ==
  LET f == Head(fs)
      o == Kid(ot, f, "o")
      n == Kid(nt, f, "n")
  IN  /\ IsDoc(ot) /\ IsDoc(nt)
      /\ fs # <<>> /\ Has(ot, f, "o") /\ Has(nt, f, "n")
      /\ m2 = m \o <<Kept(f.m, o, n)>>
      /\ fs2 = <<Call(Len(m), o, n)>> \o fs

\* So do two nodes that node_merge() is called for.
LEMMA KeepsStep ==
  ASSUME NEW ot, NEW nt, NEW m, NEW fs, NEW m2, NEW fs2,
         Carries(m, fs, ot, nt), Keeps(ot, nt, m, fs, m2, fs2)
  PROVE  /\ Carries(m2, fs2, ot, nt)
         /\ \A t, side, P : Sided(t, side, ot, nt) =>
              Total(t, side, P, ot, nt, m2, fs2) = Total(t, side, P, ot, nt, m, fs)
<1> DEFINE f == Head(fs)
           o == Kid(ot, f, "o")
           n == Kid(nt, f, "n")
           m0 == f.m
           g == Call(Len(m), o, n)
           add == <<Kept(m0, o, n)>>
<1>1. /\ IsDoc(ot) /\ IsDoc(nt)
      /\ fs # <<>> /\ Has(ot, f, "o") /\ Has(nt, f, "n")
      /\ m2 = m \o add /\ fs2 = <<g>> \o fs
  BY DEF Keeps
<1>2. Sided(ot, "o", ot, nt) /\ Sided(nt, "n", ot, nt)
  BY <1>1 DEF Sided
<1>3. /\ Grown(m, ot, nt) /\ f \in CallsOf(ot, nt) /\ m0 \in 0 .. Len(m) - 1
      /\ fs \in Seq(CallsOf(ot, nt)) /\ Len(m) \in Nat
      /\ o \in Ids(ot) /\ n \in Ids(nt) /\ ot.par[o] = f.o /\ nt.par[n] = f.n
      /\ m[m0 + 1].o = f.o /\ m[m0 + 1].n = f.n
      /\ f.o \in Ids(ot) /\ f.n \in Ids(nt)
      /\ m0 + 1 \in HereAt(m, "delete") /\ m0 + 1 \in HereAt(m, "insert")
  <2> HIDE DEF g, add
  <2> QED
    BY <1>1, TopBoth
<1>4. g \in CallsOf(ot, nt) /\ g.m = Len(m) /\ g.o = o /\ g.n = n /\ g.oi = 1 /\ g.ni = 1
  <2> HIDE DEF o, n
  <2> QED
    BY <1>3 DEF Call, CallsOf
<1>5. Carries(m2, fs2, ot, nt)
  <2> HIDE DEF g
  <2>1. Carries(m \o <<Kept(f.m, g.o, g.n)>>, <<g>> \o fs, ot, nt)
    BY <1>1, <1>4, CarryDown
  <2> QED
    BY <1>1, <1>4, <2>1
<1>6. ASSUME NEW t, NEW side, NEW P, Sided(t, side, ot, nt)
      PROVE  Total(t, side, P, ot, nt, m2, fs2) = Total(t, side, P, ot, nt, m, fs)
  <2> DEFINE x == Kid(t, f, side)
             away == Away(side)
             A == Atoms(t)
             a == ShownIn(m, away, t, side, P, nt)
             b == Shown(t, x, t.par[x], P)
             d == Rest(t, side, P, ot, nt, <<g>> \o fs)
  <2>1. /\ Has(t, f, side) /\ side \in {"o", "n"} /\ g[side] = x /\ Kept(m0, o, n)[side] = x
        /\ At(g, side) = 1 /\ m[m0 + 1][side] = t.par[x] /\ x \in Ids(t)
        /\ t.par[x] \in Ids(t) /\ IsDoc(t) /\ m0 + 1 \in HereAt(m, away) /\ away # "none"
    <3>1. CASE side = "n"
      <4>1. t = nt
        BY <1>6, <3>1 DEF Sided
      <4>2. f.n \in Ids(nt)
        BY <1>3 DEF CallsOf
      <4> HIDE DEF f, g, m0
      <4> QED
        BY <1>1, <1>3, <1>4, <3>1, <4>1, <4>2 DEF Kept, Node, At, Away
    <3>2. CASE side = "o"
      <4>1. t = ot
        BY <1>6, <3>2 DEF Sided
      <4>2. f.o \in Ids(ot)
        BY <1>3 DEF CallsOf
      <4> HIDE DEF f, g, m0
      <4> QED
        BY <1>1, <1>3, <1>4, <3>2, <4>1, <4>2 DEF Kept, Node, At, Away
    <3> QED
      BY <1>6, <3>1, <3>2 DEF Sided
  <2>2. ShownIn(m2, away, t, side, P, nt) = a \o b
    <3>1. Keeping(t, side, ot, nt, m, m0, o, n, add, away)
      <4> HIDE DEF m0, o, n, away
      <4> QED
        BY <1>3, <1>6, <2>1 DEF Keeping
    <3>2. add[1][side] = x /\ m[m0 + 1][side] = t.par[x]
      BY <2>1
    <3> HIDE DEF m0, o, n, x, away, add
    <3>3. ShownIn(m \o add, away, t, side, P, nt)
            = ShownIn(m, away, t, side, P, nt) \o Shown(t, add[1][side], m[m0 + 1][side], P)
      BY <3>1, KeepShown
    <3> QED
      BY <1>1, <3>2, <3>3, Zenon
  <2>3. Rest(t, side, P, ot, nt, fs) = b \o d
    <3>1. Descends(t, side, ot, nt, fs, g)
      <4> HIDE DEF g
      <4> QED
        BY <1>1, <1>3, <1>4, <1>6, <2>1 DEF Descends, Has, Kid
    <3>2. Rest(t, side, P, ot, nt, fs)
            = Shown(t, g[side], t.par[g[side]], P) \o Rest(t, side, P, ot, nt, <<g>> \o fs)
      <4> HIDE DEF g
      <4> QED
        BY <3>1, RestDown
    <3> QED
      BY <2>1, <3>2, Zenon
  <2>4. a \in Seq(A) /\ b \in Seq(A)
    <3> HIDE DEF x, away
    <3> QED
      BY <1>3, <1>6, <2>1, ShownInType, ShownType
  <2>5. d \in Seq(A)
    <3> DEFINE C == CallsOf(ot, nt)
               gs == <<g>> \o fs
    <3>1. gs \in Seq(C) /\ gs # <<>>
      <4> HIDE DEF C, g
      <4> QED
        BY <1>3, <1>4, CallsPut DEF C
    <3> HIDE DEF gs
    <3>2. Rest(t, side, P, ot, nt, gs) \in Seq(Atoms(t))
      BY <1>6, <3>1, RestType
    <3> QED
      BY <3>2 DEF gs
  <2> HIDE DEF a, b, d, A
  <2>6. (a \o b) \o d = a \o (b \o d)
    BY <2>4, <2>5, ConcatAssociative
  <2>7. Total(t, side, P, ot, nt, m, fs) = a \o (b \o d)
    BY <2>3, Zenon DEF Total, a
  <2>8. Total(t, side, P, ot, nt, m2, <<g>> \o fs) = (a \o b) \o d
    BY <2>2, Zenon DEF Total, d
  <2> QED
    BY <1>1, <2>6, <2>7, <2>8, Zenon
<1> QED
  BY <1>5, <1>6

(***************************************************************************)
(* A call that is through returns.                                         *)
(***************************************************************************)
Returns(ot, nt, fs, fs2) ==
  /\ IsDoc(ot) /\ IsDoc(nt)
  /\ fs # <<>> /\ Tail(fs) # <<>>
  /\ ~Has(ot, Head(fs), "o") /\ ~Has(nt, Head(fs), "n")
  /\ \E g \in CallsOf(ot, nt) :
       Moved(Head(Tail(fs)), g, 1, 1) /\ fs2 = <<g>> \o Tail(Tail(fs))

\* A call that returns has shown all.
LEMMA ReturnsStep ==
  ASSUME NEW ot, NEW nt, NEW m, NEW fs, NEW fs2,
         Carries(m, fs, ot, nt), Returns(ot, nt, fs, fs2)
  PROVE  /\ Carries(m, fs2, ot, nt)
         /\ \A t, side, P : Sided(t, side, ot, nt) =>
              Total(t, side, P, ot, nt, m, fs2) = Total(t, side, P, ot, nt, m, fs)
<1>1. /\ IsDoc(ot) /\ IsDoc(nt) /\ fs # <<>> /\ Tail(fs) # <<>>
      /\ ~Has(ot, Head(fs), "o") /\ ~Has(nt, Head(fs), "n")
  BY DEF Returns
<1>2. PICK g \in CallsOf(ot, nt) :
        Moved(Head(Tail(fs)), g, 1, 1) /\ fs2 = <<g>> \o Tail(Tail(fs))
  BY DEF Returns
<1>3. Carries(m, fs2, ot, nt)
  <2>1. Carries(m, <<g>> \o Tail(Tail(fs)), ot, nt)
    BY <1>1, <1>2, CarryUp
  <2> QED
    BY <1>2, <2>1
<1>4. ASSUME NEW t, NEW side, NEW P, Sided(t, side, ot, nt)
      PROVE  Total(t, side, P, ot, nt, m, fs2) = Total(t, side, P, ot, nt, m, fs)
  <2>1. fs \in Seq(CallsOf(ot, nt))
    BY <1>1, <1>4, TopIs
  <2>2. ~Has(t, Head(fs), side) /\ side \in {"o", "n"}
    BY <1>1, <1>4 DEF Sided
  <2>3. g[side] = Head(Tail(fs))[side] /\ At(g, side) = At(Head(Tail(fs)), side) + 1
    BY <1>2, <2>2 DEF Moved, At
  <2>4. Ascends(t, side, ot, nt, fs, g)
    BY <1>1, <1>4, <2>1, <2>2, <2>3 DEF Ascends, Has
  <2>5. Rest(t, side, P, ot, nt, <<g>> \o Tail(Tail(fs))) = Rest(t, side, P, ot, nt, fs)
    BY <2>4, RestUp
  <2> QED
    BY <1>2, <2>5, Zenon DEF Total
<1> QED
  BY <1>3, <1>4

(***************************************************************************)
(* The first call, and the last.                                           *)
(***************************************************************************)
LEMMA FirstCall ==
  ASSUME NEW ot, NEW nt, IsDoc(ot), IsDoc(nt)
  PROVE  LET m == <<Kept(None, Root, Root)>>
             fs == <<Call(0, Root, Root)>>
         IN  /\ Carries(m, fs, ot, nt)
             /\ \A t, side, P : Sided(t, side, ot, nt) =>
                  Total(t, side, P, ot, nt, m, fs) = Reading(t, P, Root)
<1> DEFINE v == Kept(None, Root, Root)
           m == <<v>>
           f == Call(0, Root, Root)
           fs == <<f>>
<1>0. \A t : IsDoc(t) => Root \in Ids(t) /\ t.par[Root] = None
  BY DocIsTree DEF IsTree
<1>1. /\ v \in MNodes(ot, nt) /\ v.par = None /\ v.o = Root /\ v.n = Root
      /\ v.chng = "none" /\ v.word = NoWord
  BY <1>0 DEF Kept, Node, MNodes, None
<1>2. /\ f \in CallsOf(ot, nt) /\ f.m = 0 /\ f.o = Root /\ f.n = Root /\ f.oi = 1 /\ f.ni = 1
  BY <1>0 DEF Call, CallsOf
<1> HIDE DEF v, f
<1>3. /\ m \in Seq(MNodes(ot, nt)) /\ Len(m) = 1 /\ m[1] = v /\ DOMAIN m = 1 .. 1
  BY <1>1
<1>4. Grown(m, ot, nt)
  <2> HIDE DEF m
  <2> QED
    BY <1>1, <1>3 DEF Grown, Rooted
<1>5. \A away : away # "none" => 1 \in HereAt(m, away)
  <2> SUFFICES ASSUME NEW away, away # "none" PROVE 1 \in HereAt(m, away)
    OBVIOUS
  <2> HIDE DEF m
  <2>1. 1 \in Nat /\ Rooted(m) /\ 1 \in 1 .. 1
    BY <1>4 DEF Grown
  <2>2. 1 \in HereAt(m, away) <=> m[1].chng # away /\ (1 = 1 \/ m[1].par + 1 \in HereAt(m, away))
    BY <1>3, <2>1, HereUnfold
  <2> QED
    BY <1>1, <1>3, <2>2
<1>6. f \in Standing(m, ot, nt)
  <2> HIDE DEF m
  <2>1. 0 \in 0 .. Len(m) - 1 /\ 0 + 1 = 1
    BY <1>3
  <2>2. 1 \in HereAt(m, "delete") /\ 1 \in HereAt(m, "insert")
    BY <1>5
  <2> QED
    BY <1>1, <1>2, <1>3, <2>1, <2>2 DEF Standing
<1>7. Carries(m, fs, ot, nt)
  <2> HIDE DEF m
  <2>1. fs \in Seq(Standing(m, ot, nt)) /\ Len(fs) = 1
    BY <1>6
  <2>2. Chain(fs, ot, nt)
    BY <2>1 DEF Chain
  <2> QED
    BY <1>4, <2>1, <2>2 DEF Carries
<1>8. ASSUME NEW t, NEW side, NEW P, Sided(t, side, ot, nt)
      PROVE  Total(t, side, P, ot, nt, m, fs) = Reading(t, P, Root)
  <2> DEFINE a == Shown(t, Root, None, P)
             b == KidsFrom(t, P, Root, 1)
  <2>1. /\ side \in {"o", "n"} /\ IsDoc(t) /\ Root \in Ids(t) /\ t.par[Root] = None
        /\ Away(side) # "none"
    BY <1>0, <1>8 DEF Sided, Away
  <2>2. v[side] = Root /\ f[side] = Root /\ At(f, side) = 1
    BY <1>1, <1>2, <2>1 DEF At
  <2>3. Pieces(m, Away(side), t, side, P, nt) = <<a>>
    <3>1. 1 \in HereAt(m, Away(side))
      BY <1>5, <2>1
    <3>2. ParOf(m, 1, side) = None
      BY <1>1, <1>3 DEF ParOf
    <3>3. NoWord # Space
      BY DEF NoWord, Space
    <3>4. Root # None
      BY DEF Root, None
    <3>5. \A H, I : 1 \in H => Piece(m, 1, H, I, t, side, P) = a
      <4> HIDE DEF m
      <4> QED
        BY <1>1, <1>3, <2>2, <3>2, <3>3, <3>4 DEF Piece
    <3>6. Piece(m, 1, HereAt(m, Away(side)), InsideAt(m, nt), t, side, P) = a
      <4> HIDE DEF m, a
      <4> QED
        BY <3>1, <3>5
    <3>7. Pieces(m, Away(side), t, side, P, nt) = [k \in 1 .. 1 |-> a]
      <4> HIDE DEF m, a
      <4> QED
        BY <1>3, <3>6 DEF Pieces
    <3> QED
      BY <3>7
  <2>4. ShownIn(m, Away(side), t, side, P, nt) = a
    <3>1. a \in Seq(Atoms(t))
      BY <2>1, ShownType
    <3> HIDE DEF a, m
    <3>2. Seqs!FlattenSeq(<<a>>) = a
      BY <3>1, FlatSingle
    <3>3. ShownIn(m, Away(side), t, side, P, nt) = Seqs!FlattenSeq(Pieces(m, Away(side), t, side, P, nt))
      BY Zenon DEF ShownIn
    <3>4. Pieces(m, Away(side), t, side, P, nt) = <<a>>
      BY <2>3
    <3> QED
      BY <3>2, <3>3, <3>4
  <2>5. Rest(t, side, P, ot, nt, fs) = b
    <3>0. 1 \in Nat \ {0}
      OBVIOUS
    <3>1. b \in Seq(Atoms(t))
      BY <2>1, <3>0, KidsFromType
    <3>2. Head(fs) = f /\ Tail(fs) = <<>>
      OBVIOUS
    <3>3. Over(Later(t, side, P, ot, nt), <<>>) = <<>>
      BY OverEmpty
    <3> HIDE DEF fs
    <3>4. Rest(t, side, P, ot, nt, fs) = KidsFrom(t, P, Root, 1) \o <<>>
      BY <2>2, <3>2, <3>3, Zenon DEF Rest
    <3> HIDE DEF b
    <3>5. b \o <<>> = b
      BY <3>1
    <3> QED
      BY <3>4, <3>5 DEF b
  <2>6. Reading(t, P, Root) = a \o b
    <3>1. Reading(t, P, Root) = Shown(t, Root, t.par[Root], P) \o KidsFrom(t, P, Root, 1)
      BY <2>1, ReadingUnfold
    <3> QED
      BY <2>1, <3>1, Zenon
  <2> QED
    BY <2>4, <2>5, <2>6, Zenon DEF Total
<1> QED
  BY <1>7, <1>8, Zenon DEF v, f, m, fs

\* When only the last call is left, and that has no child left, all is shown.
LEMMA LastCall ==
  ASSUME NEW t, NEW side, NEW ot, NEW nt, Sided(t, side, ot, nt), NEW P,
         NEW m, NEW fs, Carries(m, fs, ot, nt), fs # <<>>, Tail(fs) = <<>>,
         ~Has(t, Head(fs), side)
  PROVE  Total(t, side, P, ot, nt, m, fs) = ShownIn(m, Away(side), t, side, P, nt)
<1> DEFINE a == ShownIn(m, Away(side), t, side, P, nt)
<1>1. fs \in Seq(CallsOf(ot, nt)) /\ Grown(m, ot, nt)
  BY TopIs
<1>2. Rest(t, side, P, ot, nt, fs) = <<>>
  BY <1>1, RestEnd DEF Has
<1>3. a \in Seq(Atoms(t))
  BY <1>1, ShownInType
<1> HIDE DEF a
<1>4. a \o <<>> = a
  BY <1>3
<1> QED
  BY <1>2, <1>4, Zenon DEF Total, a

-------------------------------------------------------------------------------
(***************************************************************************)
(* The steps of the merge are such steps.                                  *)
(***************************************************************************)

\* The two sides are documents.
LEMMA PairOfDocs ==
  ASSUME TypeOK
  PROVE  /\ IsDoc(old) /\ IsDoc(new) /\ IsTree(old) /\ IsTree(new)
         /\ Maps[pair[1]] = Mapped(old) /\ Maps[pair[2]] = Mapped(new)
         /\ SubTrees[pair[1]] = PreOrder(old) /\ SubTrees[pair[2]] = PreOrder(new)
         /\ Sigs[pair[1]] = SigOf(old) /\ Sigs[pair[2]] = SigOf(new)
<1>1. pair[1] \in Names /\ pair[2] \in Names
  BY DEF TypeOK, Docs
<1>2. old = Tree(pair[1]) /\ new = Tree(pair[2])
  BY <1>1 DEF old, new, Docs
<1>3. IsDoc(old) /\ IsDoc(new)
  BY <1>1, <1>2 DEF IsDoc
<1>4. SubTrees[pair[1]] = PreOrder(old) /\ SubTrees[pair[2]] = PreOrder(new)
  BY <1>1 DEF SubTrees, old, new
<1>5. Sigs[pair[1]] = SigOf(old) /\ Sigs[pair[2]] = SigOf(new)
  BY <1>1 DEF Sigs, old, new
<1>6. /\ IsTree(old) /\ IsTree(new)
      /\ Maps[pair[1]] = Mapped(old) /\ Maps[pair[2]] = Mapped(new)
  BY PairOfTrees DEF TypeOK
<1> QED
  BY <1>3, <1>4, <1>5, <1>6

\* The innermost call, as one of the calls of two trees.
LEMMA TopOf ==
  ASSUME TypeOK, Carries(out, frames, old, new), frames # <<>>
  PROVE  /\ Top = Head(frames) /\ Top \in CallsOf(old, new)
         /\ Top.m \in 0 .. Len(out) - 1 /\ Len(out) \in Nat
         /\ Top.o \in Ids(old) /\ Top.n \in Ids(new)
         /\ Sided(old, "o", old, new) /\ Sided(new, "n", old, new)
         /\ HasOld <=> Has(old, Head(frames), "o")
         /\ HasNew <=> Has(new, Head(frames), "n")
         /\ OldKid = Kid(old, Head(frames), "o") /\ NewKid = Kid(new, Head(frames), "n")
         /\ HasOld => OldKid \in Ids(old)
         /\ HasNew => NewKid \in Ids(new)
<1>1. Sided(old, "o", old, new) /\ Sided(new, "n", old, new)
  BY PairOfDocs DEF Sided
<1>2. HasOld <=> Has(old, Head(frames), "o")
  BY Zenon DEF HasOld, Has, At, Top, OldLeft
<1>3. HasNew <=> Has(new, Head(frames), "n")
  BY DEF HasNew, Has, At, Top, NewLeft
<1>4. OldKid = Kid(old, Head(frames), "o")
  BY DEF OldKid, Kid, At, Top, OldLeft
<1>5. NewKid = Kid(new, Head(frames), "n")
  BY DEF NewKid, Kid, At, Top, NewLeft
<1>6. Top = Head(frames)
  BY DEF Top
<1> DEFINE f == Head(frames)
<1>7. /\ f \in CallsOf(old, new) /\ f.m \in 0 .. Len(out) - 1 /\ Len(out) \in Nat
      /\ Has(old, f, "o") => Kid(old, f, "o") \in Ids(old)
  <2> DEFINE side == "o"
  <2>1. Sided(old, side, old, new)
    BY <1>1
  <2> HIDE DEF side
  <2>2. /\ f \in CallsOf(old, new) /\ f.m \in 0 .. Len(out) - 1 /\ Len(out) \in Nat
        /\ Has(old, f, side) => Kid(old, f, side) \in Ids(old)
    BY <2>1, TopIs
  <2> QED
    BY <2>2 DEF side
<1>8. Has(new, f, "n") => Kid(new, f, "n") \in Ids(new)
  <2> DEFINE side == "n"
  <2>1. Sided(new, side, old, new)
    BY <1>1
  <2> HIDE DEF side
  <2>2. Has(new, f, side) => Kid(new, f, side) \in Ids(new)
    BY <2>1, TopIs
  <2> QED
    BY <2>2 DEF side
<1>9. f.o \in Ids(old) /\ f.n \in Ids(new)
  BY <1>7 DEF CallsOf
<1> QED
  BY <1>1, <1>2, <1>3, <1>4, <1>5, <1>6, <1>7, <1>8, <1>9

\* Past some children, a call is further by as many.
LEMMA PastMoved ==
  ASSUME Top \in CallsOf(old, new), NEW do \in Nat, NEW dn \in Nat
  PROVE  Past(do, dn) \in CallsOf(old, new) /\ Moved(Top, Past(do, dn), do, dn)
<1> DEFINE O == Ids(old)
           N == Ids(new)
           C == [m : Nat, o : O, n : N, oi : Nat \ {0}, ni : Nat \ {0}]
<1>1. CallsOf(old, new) = C
  BY DEF CallsOf
<1> HIDE DEF O, N
<1>2. Top.oi + do \in Nat \ {0} /\ Top.ni + dn \in Nat \ {0}
  BY <1>1
<1> DEFINE g == [Top EXCEPT !.oi = Top.oi + do]
           h == [g EXCEPT !.ni = Top.ni + dn]
<1>3. /\ g \in C /\ g.m = Top.m /\ g.o = Top.o /\ g.n = Top.n
      /\ g.oi = Top.oi + do /\ g.ni = Top.ni
  BY <1>1, <1>2
<1>4. /\ h \in C /\ h.m = g.m /\ h.o = g.o /\ h.n = g.n
      /\ h.oi = g.oi /\ h.ni = Top.ni + dn
  <2> HIDE DEF g
  <2> QED
    BY <1>2, <1>3
<1>5. Past(do, dn) = h
  BY Zenon DEF Past
<1> HIDE DEF g, h
<1> QED
  BY <1>1, <1>3, <1>4, <1>5 DEF Moved

\* The clones are such clones.
LEMMA OldClone ==
  CloneOld = Clone(SubTrees[pair[1]][OldKid], old, "o", Len(out), Top.m, "delete", None)
<1> DEFINE s == SubTrees[pair[1]][OldKid]
           l == Len(out)
           m0 == Top.m
<1>1. CloneOld = [k \in DOMAIN s |->
                    Node(IF k = 1 THEN m0 ELSE Under(old, s, k),
                         IF k = 1 THEN "delete" ELSE "none", s[k], None, NoWord)]
  BY DEF CloneOld, Cloned
<1>2. \A k \in DOMAIN s : Under(old, s, k) = l - 1 + Above(s, old, k)
  BY Zenon DEF Under, Above
<1> HIDE DEF s, l, m0
<1>3. Clone(s, old, "o", l, m0, "delete", None)
        = [k \in DOMAIN s |->
             Node(IF k = 1 THEN m0 ELSE l - 1 + Above(s, old, k),
                  IF k = 1 THEN "delete" ELSE "none", s[k], None, NoWord)]
  BY DEF Clone
<1>4. CloneOld = Clone(s, old, "o", l, m0, "delete", None)
  BY <1>1, <1>2, <1>3
<1> QED
  BY <1>4, Zenon DEF s, l, m0

\* What is cloned from the new tree, marked as changed or not.
LEMMA NewClone ==
  ASSUME NEW chng
  PROVE  CloneNew(chng) = Clone(SubTrees[pair[2]][NewKid], new, "n", Len(out), Top.m, chng, None)
<1> DEFINE s == SubTrees[pair[2]][NewKid]
           l == Len(out)
           m0 == Top.m
<1>1. CloneNew(chng) = [k \in DOMAIN s |->
                    Node(IF k = 1 THEN m0 ELSE Under(new, s, k),
                         IF k = 1 THEN chng ELSE "none", None, s[k], NoWord)]
  BY DEF CloneNew, Cloned
<1>2. \A k \in DOMAIN s : Under(new, s, k) = l - 1 + Above(s, new, k)
  BY Zenon DEF Under, Above
<1> HIDE DEF s, l, m0
<1>3. Clone(s, new, "n", l, m0, chng, None)
        = [k \in DOMAIN s |->
             Node(IF k = 1 THEN m0 ELSE l - 1 + Above(s, new, k),
                  IF k = 1 THEN chng ELSE "none", None, s[k], NoWord)]
  BY DEF Clone
<1>4. CloneNew(chng) = Clone(s, new, "n", l, m0, chng, None)
  BY <1>1, <1>2, <1>3
<1> QED
  BY <1>4, Zenon DEF s, l, m0

\* A clone whose first node stands for an old one too.
LEMMA KeptClone ==
  ASSUME NEW first
  PROVE  [CloneNew("none") EXCEPT ![1].o = first]
           = Clone(SubTrees[pair[2]][NewKid], new, "n", Len(out), Top.m, "none", first)
<1> DEFINE s == SubTrees[pair[2]][NewKid]
           l == Len(out)
           m0 == Top.m
           c == Clone(s, new, "n", l, m0, "none", None)
           d == Clone(s, new, "n", l, m0, "none", first)
<1>1. CloneNew("none") = c
  BY NewClone
<1> HIDE DEF s, l, m0
<1> DEFINE P(k) == IF k = 1 THEN m0 ELSE l - 1 + Above(s, new, k)
<1> HIDE DEF P
<1>2. /\ c = [k \in DOMAIN s |-> Node(P(k), "none", None, s[k], NoWord)]
      /\ d = [k \in DOMAIN s |->
                Node(P(k), "none", IF k = 1 THEN first ELSE None, s[k], NoWord)]
  BY DEF Clone, P
<1> HIDE DEF c, d
<1>3. [c EXCEPT ![1].o = first]
        = [k \in DOMAIN s |-> IF k = 1 THEN [c[1] EXCEPT !.o = first] ELSE c[k]]
  BY <1>2
<1>4. \A k \in DOMAIN s :
        d[k] = IF k = 1 THEN [c[1] EXCEPT !.o = first] ELSE c[k]
  BY <1>2 DEF Node
<1>5. d = [k \in DOMAIN s |-> d[k]]
  BY <1>2
<1>6. [c EXCEPT ![1].o = first] = d
  BY <1>3, <1>4, <1>5
<1> QED
  BY <1>1, <1>6, Zenon DEF d, s, l, m0

\* A shortest script shows both texts.
LEMMA ScriptOf ==
  ASSUME TypeOK, OldKid \in Ids(old), IsText(old, OldKid),
         NewKid \in Ids(new), IsText(new, NewKid), NEW script \in TextScripts
  PROVE  /\ script \in Seq(Ops)
         /\ Over(Says("add"), script) = Words(TextOf(old, OldKid))
         /\ Over(Says("delete"), script) = Words(TextOf(new, NewKid))
         /\ Seqs!FlattenSeq([k \in DOMAIN script |-> WordNodes(script[k], OldKid, NewKid)])
              = Over(ScriptNodes(Top.m, OldKid, NewKid), script)
<1> DEFINE a == Tokens(TextOf(old, OldKid))
           b == Tokens(TextOf(new, NewKid))
           T == Seqs!ToSet(a) \cup Seqs!ToSet(b)
           key == [x \in T |-> x.word]
<1>1. /\ TextOf(old, OldKid) \in Seq(Symbols \ {NoWord})
      /\ TextOf(new, NewKid) \in Seq(Symbols \ {NoWord})
  BY PairOfDocs, TextIsSeq
<1>2. /\ a \in Seq(Toks) /\ Said(a, Len(a)) = Words(TextOf(old, OldKid))
      /\ b \in Seq(Toks) /\ Said(b, Len(b)) = Words(TextOf(new, NewKid))
  BY <1>1, TokensSay
<1>3. script \in Shortest(a, b, key)
  BY DEF TextScripts
<1> HIDE DEF a, b
<1>4. DOMAIN a = 1 .. Len(a) /\ DOMAIN b = 1 .. Len(b)
  BY <1>2, LenProperties
<1>5. \A x \in 1 .. Len(a) : \A y \in 1 .. Len(b) :
        key[a[x]] = key[b[y]] => a[x].word = b[y].word
  <2>1. \A x \in 1 .. Len(a) : a[x] \in T
    BY <1>4 DEF Seqs!ToSet
  <2>2. \A x \in 1 .. Len(b) : b[x] \in T
    BY <1>4 DEF Seqs!ToSet
  <2> HIDE DEF T
  <2> QED
    BY <2>1, <2>2
<1> HIDE DEF key
<1>6. Leads(script, a, b, Len(a), Len(b))
  BY <1>2, <1>3, <1>5, ShortestLeads
<1>7. /\ script \in Seq(Ops)
      /\ Over(Says("add"), script) = Words(TextOf(old, OldKid))
      /\ Over(Says("delete"), script) = Words(TextOf(new, NewKid))
  BY <1>2, <1>6 DEF Leads
<1>8. \A k \in DOMAIN script :
        WordNodes(script[k], OldKid, NewKid) = ScriptNodes(Top.m, OldKid, NewKid)[script[k]]
  <2> SUFFICES ASSUME NEW k \in DOMAIN script
               PROVE  WordNodes(script[k], OldKid, NewKid)
                        = ScriptNodes(Top.m, OldKid, NewKid)[script[k]]
    OBVIOUS
  <2> DEFINE op == script[k]
             m0 == Top.m
  <2>1. op \in Ops
    BY <1>7
  <2> HIDE DEF op
  <2>2. ScriptNodes(m0, OldKid, NewKid)[op] = OpNodes(m0, op, OldKid, NewKid)
    BY <2>1 DEF ScriptNodes
  <2>3. WordNodes(op, OldKid, NewKid) = OpNodes(m0, op, OldKid, NewKid)
    BY Zenon DEF WordNodes, OpNodes
  <2> QED
    BY <2>2, <2>3, Zenon DEF op
<1>9. [k \in DOMAIN script |-> WordNodes(script[k], OldKid, NewKid)]
        = [k \in DOMAIN script |-> ScriptNodes(Top.m, OldKid, NewKid)[script[k]]]
  BY <1>8
<1> QED
  BY <1>7, <1>9, Zenon DEF Over

(***************************************************************************)
(* What a step of the merge does to the merged tree and the calls: only    *)
(* for children that f matches is a node for both of them added.           *)
(***************************************************************************)
MergesOn(ot, nt, f, m, fs, m2, fs2) ==
  \/ m2 = m /\ fs2 = fs
  \/ Drops(ot, "o", ot, nt, m, fs, m2, fs2)
  \/ Drops(nt, "n", ot, nt, m, fs, m2, fs2)
  \/ Texts(ot, nt, m, fs, m2, fs2)
  \/ /\ f[Kid(ot, Head(fs), "o")] = Kid(nt, Head(fs), "n")
     /\ Opaques(ot, nt, m, fs, m2, fs2) \/ Keeps(ot, nt, m, fs, m2, fs2)
  \/ m2 = m /\ Returns(ot, nt, fs, fs2)

\* Every step carries the calls on, and changes nothing of what is shown.
LEMMA MergesOnStep ==
  ASSUME NEW ot, NEW nt, NEW f, NEW m, NEW fs, NEW m2, NEW fs2, Carries(m, fs, ot, nt),
         fs # <<>>, Head(fs).o \in LooksIn(ot), IsDoc(ot), IsDoc(nt),
         MergesOn(ot, nt, f, m, fs, m2, fs2)
  PROVE  /\ Carries(m2, fs2, ot, nt)
         /\ \A t, side, P : Sided(t, side, ot, nt) /\ Wanted(t, side, P) =>
              Total(t, side, P, ot, nt, m2, fs2) = Total(t, side, P, ot, nt, m, fs)
<1>1. CASE m2 = m /\ fs2 = fs
  BY <1>1
<1>2. ASSUME NEW u, NEW where, Drops(u, where, ot, nt, m, fs, m2, fs2)
      PROVE  /\ Carries(m2, fs2, ot, nt)
             /\ \A t, side, P : Sided(t, side, ot, nt) /\ Wanted(t, side, P) =>
                  Total(t, side, P, ot, nt, m2, fs2) = Total(t, side, P, ot, nt, m, fs)
  <2>1. Carries(m2, fs2, ot, nt)
    BY <1>2, DropsCarry
  <2>2. ASSUME NEW t, NEW side, NEW P, Sided(t, side, ot, nt)
        PROVE  Total(t, side, P, ot, nt, m2, fs2) = Total(t, side, P, ot, nt, m, fs)
    BY <1>2, <2>2, DropsShow
  <2> QED
    BY <2>1, <2>2
<1>3. CASE Texts(ot, nt, m, fs, m2, fs2)
  <2>1. /\ Carries(m2, fs2, ot, nt)
        /\ \A t, side, P : Sided(t, side, ot, nt) /\ Head(fs)[side] \in P =>
             Total(t, side, P, ot, nt, m2, fs2) = Total(t, side, P, ot, nt, m, fs)
    BY <1>3, TextsStep
  <2>2. ASSUME NEW t, NEW side, NEW P, Sided(t, side, ot, nt), Wanted(t, side, P)
        PROVE  Head(fs)[side] \in P
    <3>1. CASE side = "o"
      BY <2>2, <3>1 DEF Wanted, Sided
    <3>2. CASE side = "n"
      <4>1. t = nt /\ P = Ids(nt)
        BY <2>2, <3>2 DEF Wanted, Sided
      <4>2. Head(fs)[side] \in Ids(t)
        BY <2>2, TopIs
      <4> QED
        BY <4>1, <4>2
    <3> QED
      BY <2>2, <3>1, <3>2 DEF Wanted
  <2> QED
    BY <2>1, <2>2
<1>4. CASE Opaques(ot, nt, m, fs, m2, fs2)
  BY <1>4, OpaquesStep
<1>5. CASE Keeps(ot, nt, m, fs, m2, fs2)
  <2>1. /\ Carries(m2, fs2, ot, nt)
        /\ \A t, side, P : Sided(t, side, ot, nt) =>
             Total(t, side, P, ot, nt, m2, fs2) = Total(t, side, P, ot, nt, m, fs)
    BY <1>5, KeepsStep
  <2> QED
    BY <2>1
<1>6. CASE m2 = m /\ Returns(ot, nt, fs, fs2)
  <2>1. /\ Carries(m, fs2, ot, nt)
        /\ \A t, side, P : Sided(t, side, ot, nt) =>
             Total(t, side, P, ot, nt, m, fs2) = Total(t, side, P, ot, nt, m, fs)
    BY <1>6, ReturnsStep
  <2> QED
    BY <1>6, <2>1
<1> QED
  BY <1>1, <1>2, <1>3, <1>4, <1>5, <1>6, Zenon DEF MergesOn

-------------------------------------------------------------------------------
(***************************************************************************)
(* The calls under way stand for the nodes that are there, and when a call *)
(* has only old children left, it has gone through the new ones.           *)
(***************************************************************************)
Carried ==
  phase = "merge" /\ frames # <<>> =>
    Carries(out, frames, old, new) /\ (loop = "tail" => ~HasNew)

\* Every step of the merge but the first and the last is such a step.
LEMMA MergeMoves ==
  ASSUME Matching, OpenCalls, Carried, MergeNext, frames # <<>>, phase' = "merge"
  PROVE  MergesOn(old, new, om, out, frames, out', frames')
<1>1. TypeOK /\ OldMatchSound /\ phase = "merge"
  BY MergePhase DEF Matching
<1>2. Carries(out, frames, old, new) /\ (loop = "tail" => ~HasNew)
  BY <1>1 DEF Carried
<1>3. /\ Top = Head(frames) /\ Top \in CallsOf(old, new)
      /\ Top.m \in 0 .. Len(out) - 1 /\ Len(out) \in Nat
      /\ Top.o \in Ids(old) /\ Top.n \in Ids(new)
      /\ Sided(old, "o", old, new) /\ Sided(new, "n", old, new)
      /\ HasOld <=> Has(old, Head(frames), "o")
      /\ HasNew <=> Has(new, Head(frames), "n")
      /\ OldKid = Kid(old, Head(frames), "o") /\ NewKid = Kid(new, Head(frames), "n")
      /\ HasOld => OldKid \in Ids(old)
      /\ HasNew => NewKid \in Ids(new)
  BY <1>1, <1>2, TopOf
<1>4. /\ IsDoc(old) /\ IsDoc(new)
      /\ SubTrees[pair[1]] = PreOrder(old) /\ SubTrees[pair[2]] = PreOrder(new)
  BY <1>1, PairOfDocs
<1>5. ASSUME HasOld, DeleteOld
      PROVE  Drops(old, "o", old, new, out, frames, out', frames')
  <2> DEFINE g == Past(1, 0)
  <2>1. g \in CallsOf(old, new) /\ Moved(Top, g, 1, 0)
    BY <1>3, PastMoved
  <2>2. out' = out \o Clone(PreOrder(old)[OldKid], old, "o", Len(out), Top.m, "delete", None)
    BY <1>4, <1>5, OldClone DEF DeleteOld
  <2>3. frames' = <<g>> \o Tail(frames)
    BY <1>5 DEF DeleteOld
  <2> HIDE DEF g
  <2>4. Mark("o") = "delete"
    BY DEF Mark
  <2> QED
    BY <1>3, <1>5, <2>1, <2>2, <2>3, <2>4 DEF Drops
<1>6. ASSUME HasNew, InsertNew
      PROVE  Drops(new, "n", old, new, out, frames, out', frames')
  <2> DEFINE g == Past(0, 1)
  <2>1. g \in CallsOf(old, new) /\ Moved(Top, g, 0, 1)
    BY <1>3, PastMoved
  <2>2. out' = out \o Clone(PreOrder(new)[NewKid], new, "n", Len(out), Top.m, "insert", None)
    BY <1>4, <1>6, NewClone DEF InsertNew
  <2>3. frames' = <<g>> \o Tail(frames)
    BY <1>6 DEF InsertNew
  <2> HIDE DEF g
  <2>4. Mark("n") = "insert"
    BY DEF Mark
  <2> QED
    BY <1>3, <1>6, <2>1, <2>2, <2>3, <2>4 DEF Drops
<1>7. MatchAhead => HasOld
  <2>1. PICK M : frames \in Seq(Calls(M))
    BY <1>1 DEF OpenCalls
  <2>2. Top \in Calls(M) /\ OldLeft \in Seq(Maps[pair[1]])
    BY <1>1, <2>1, TopKids
  <2>3. Top.oi \in Nat /\ Len(OldLeft) \in Nat
    BY <2>2, LenProperties DEF Calls
  <2> QED
    BY <2>3 DEF MatchAhead, HasOld
<1>8. loop = "pair" => HasNew
  BY <1>1 DEF OpenCalls
<1>9. CASE MergeRoots
  BY <1>9 DEF MergeRoots
<1>10. CASE FlushOld \/ FlushTail \/ DeleteMoved
  <2>1. HasOld /\ DeleteOld
    BY <1>7, <1>10 DEF FlushOld, OldGone, FlushTail, DeleteMoved
  <2> QED
    BY <1>5, <2>1 DEF MergesOn
<1>11. CASE FlushNew \/ InsertMoved
  <2>1. HasNew /\ InsertNew
    BY <1>8, <1>11 DEF FlushNew, NewCome, InsertMoved, Merging
  <2> QED
    BY <1>6, <2>1 DEF MergesOn
<1>12. CASE FlushOldDone \/ FlushNewDone \/ NoTexts
  BY <1>12 DEF FlushOldDone, FlushNewDone, NoTexts, MergesOn
<1>13. CASE MergeTexts
  <2> DEFINE g == Past(1, 1)
  <2>1. HasOld /\ HasNew /\ IsText(old, OldKid) /\ IsText(new, NewKid)
    BY <1>13 DEF MergeTexts, TextPair
  <2>2. PICK script \in TextScripts :
          out' = out \o Seqs!FlattenSeq([k \in DOMAIN script |->
                                           WordNodes(script[k], OldKid, NewKid)])
    BY <1>13 DEF MergeTexts
  <2>3. frames' = <<g>> \o Tail(frames)
    BY <1>13 DEF MergeTexts
  <2>4. /\ script \in Seq(Ops)
        /\ Over(Says("add"), script) = Words(TextOf(old, OldKid))
        /\ Over(Says("delete"), script) = Words(TextOf(new, NewKid))
        /\ Seqs!FlattenSeq([k \in DOMAIN script |-> WordNodes(script[k], OldKid, NewKid)])
             = Over(ScriptNodes(Top.m, OldKid, NewKid), script)
    BY <1>1, <1>3, <2>1, <2>2, ScriptOf
  <2>5. g \in CallsOf(old, new) /\ Moved(Top, g, 1, 1)
    BY <1>3, PastMoved
  <2>6. out' = out \o Over(ScriptNodes(Top.m, OldKid, NewKid), script)
    BY <2>2, <2>4, Zenon
  <2> HIDE DEF g
  <2>7. Texts(old, new, out, frames, out', frames')
    BY <1>3, <1>4, <2>1, <2>3, <2>4, <2>5, <2>6 DEF Texts
  <2> QED
    BY <2>7 DEF MergesOn
<1>14. CASE KeepOpaque
  <2> DEFINE g == Past(1, 1)
  <2>1. HasOld /\ HasNew
    BY <1>7, <1>8, <1>14 DEF KeepOpaque, Merging
  <2>2. /\ IsOpaque(old, OldKid) /\ IsOpaque(new, NewKid)
        /\ out' = out \o [CloneNew("none") EXCEPT ![1].o = OldKid]
        /\ frames' = <<g>> \o Tail(frames)
    BY <1>14 DEF KeepOpaque, MAbort
  <2>3. out' = out \o Clone(PreOrder(new)[NewKid], new, "n", Len(out), Top.m, "none", OldKid)
    BY <1>4, <2>2, KeptClone
  <2>4. g \in CallsOf(old, new) /\ Moved(Top, g, 1, 1)
    BY <1>3, PastMoved
  <2> HIDE DEF g
  <2>5. frames' = <<g>> \o Tail(frames) /\ IsOpaque(old, OldKid) /\ IsOpaque(new, NewKid)
    BY <2>2
  <2>6. Opaques(old, new, out, frames, out', frames')
    BY <1>3, <1>4, <2>1, <2>3, <2>4, <2>5 DEF Opaques
  <2>7. om[Kid(old, Head(frames), "o")] = Kid(new, Head(frames), "n")
    BY <1>3, <1>14 DEF KeepOpaque, OldMatch
  <2> QED
    BY <2>6, <2>7 DEF MergesOn
<1>15. CASE Keep
  <2>1. HasOld /\ HasNew
    BY <1>7, <1>8, <1>15 DEF Keep, Merging
  <2>2. /\ out' = Append(out, Node(Top.m, "none", OldKid, NewKid, NoWord))
        /\ frames' = <<Call(Len(out), OldKid, NewKid)>> \o frames
    BY <1>15 DEF Keep, MAbort
  <2>3. out' = out \o <<Kept(Top.m, OldKid, NewKid)>>
    <3> DEFINE v == Node(Top.m, "none", OldKid, NewKid, NoWord)
    <3>1. out \in Seq(MNodes(old, new)) /\ Kept(Top.m, OldKid, NewKid) = v
      BY <1>2 DEF Carries, Grown, Kept
    <3>2. out' = Append(out, v)
      BY <2>2
    <3>3. v \in MNodes(old, new)
      BY <1>3, <2>1 DEF Node, MNodes
    <3> HIDE DEF v
    <3>4. Append(out, v) = out \o <<v>>
      BY <3>1, <3>3, AppendIsConcat
    <3> QED
      BY <3>1, <3>2, <3>4
  <2>4. Keeps(old, new, out, frames, out', frames')
    BY <1>3, <1>4, <2>1, <2>2, <2>3 DEF Keeps
  <2>5. om[Kid(old, Head(frames), "o")] = Kid(new, Head(frames), "n")
    BY <1>3, <1>15 DEF Keep, OldMatch
  <2> QED
    BY <2>4, <2>5 DEF MergesOn
<1>16. CASE Return
  <2> DEFINE g == [frames[2] EXCEPT !.oi = @ + 1, !.ni = @ + 1]
             C == CallsOf(old, new)
  <2>1. /\ ~HasOld /\ Len(frames) > 1 /\ out' = out
        /\ frames' = <<g>> \o Tail(Tail(frames)) /\ ~HasNew
    BY <1>2, <1>16 DEF Return, Merging
  <2>2. frames \in Seq(C)
    BY <1>2, <1>3, TopIs
  <2>3. Tail(frames) # <<>> /\ Head(Tail(frames)) = frames[2] /\ frames[2] \in C
    <3> HIDE DEF C
    <3>1. Len(frames) \in Nat /\ Tail(frames) \in Seq(C) /\ Len(Tail(frames)) = Len(frames) - 1
      BY <2>1, <2>2, HeadTailProperties, LenProperties
    <3>2. Len(Tail(frames)) # 0
      BY <2>1, <3>1
    <3>3. Tail(frames)[1] = frames[2]
      BY <2>1, <2>2, <3>1
    <3>4. frames[2] \in C
      BY <2>1, <2>2, <3>1, ElementOfSeq
    <3> QED
      BY <3>1, <3>2, <3>3, <3>4
  <2>4. g \in C /\ Moved(Head(Tail(frames)), g, 1, 1)
    <3> DEFINE f == frames[2]
               O == Ids(old)
               N == Ids(new)
               D == [m : Nat, o : O, n : N, oi : Nat \ {0}, ni : Nat \ {0}]
    <3>1. f \in D
      BY <2>3 DEF CallsOf
    <3> HIDE DEF f, O, N
    <3> DEFINE d == [f EXCEPT !.oi = f.oi + 1]
               h == [d EXCEPT !.ni = f.ni + 1]
    <3>2. f.oi + 1 \in Nat \ {0} /\ f.ni + 1 \in Nat \ {0}
      BY <3>1
    <3>3. d \in D /\ d.m = f.m /\ d.o = f.o /\ d.n = f.n /\ d.oi = f.oi + 1 /\ d.ni = f.ni
      BY <3>1, <3>2
    <3>4. h \in D /\ h.m = d.m /\ h.o = d.o /\ h.n = d.n /\ h.oi = d.oi /\ h.ni = f.ni + 1
      <4> HIDE DEF d
      <4> QED
        BY <3>2, <3>3
    <3>5. [f EXCEPT !.oi = @ + 1, !.ni = @ + 1] = h
      BY Zenon
    <3>6. C = D
      BY DEF CallsOf, O, N
    <3> HIDE DEF d, h, C
    <3>7. g = h
      BY <3>5 DEF f
    <3>8. h \in C /\ Moved(f, h, 1, 1)
      BY <3>3, <3>4, <3>6 DEF Moved
    <3>9. Head(Tail(frames)) = f
      BY <2>3 DEF f
    <3> HIDE DEF g
    <3> QED
      BY <3>7, <3>8, <3>9
  <2> HIDE DEF g
  <2>5. Returns(old, new, frames, frames')
    BY <1>3, <1>4, <2>1, <2>3, <2>4 DEF Returns
  <2> QED
    BY <2>1, <2>5 DEF MergesOn
<1>17. CASE MergeDone
  BY <1>17 DEF MergeDone
<1> QED
  BY <1>9, <1>10, <1>11, <1>12, <1>13, <1>14, <1>15, <1>16, <1>17 DEF MergeNext

\* A set of numbers with a bound has a largest one.
LEMMA LargestOf ==
  ASSUME NEW S \in SUBSET Nat, S # {}, NEW b \in Nat, \A x \in S : x <= b
  PROVE  Sets!Max(S) \in S
<1> DEFINE B == {c \in Nat : \A x \in S : x <= c}
<1>6. b \in B
  OBVIOUS
<1>7. PICK c \in B : \A d \in B : c <= d
  <2>1. B \in SUBSET Nat /\ B # {}
    BY <1>6
  <2> HIDE DEF B
  <2> QED
    BY <2>1, LeastOf
<1>8. c \in S
  <2> SUFFICES ASSUME c \notin S PROVE FALSE
    OBVIOUS
  <2>1. PICK x \in S : TRUE
    OBVIOUS
  <2>2. x \in Nat /\ x <= c /\ x # c /\ c \in Nat
    BY <1>7
  <2>3. c - 1 \in Nat
    BY <2>2
  <2>4. \A y \in S : y <= c - 1
    <3> SUFFICES ASSUME NEW y \in S PROVE y <= c - 1
      OBVIOUS
    <3>1. y \in Nat /\ y <= c /\ y # c
      BY <1>7
    <3> QED
      BY <2>2, <3>1
  <2>5. c - 1 \in B
    BY <2>3, <2>4
  <2> QED
    BY <1>7, <2>2, <2>5
<1>9. \E x \in S : \A y \in S : x >= y
  <2>1. \A y \in S : c >= y
    <3> SUFFICES ASSUME NEW y \in S PROVE c >= y
      OBVIOUS
    <3>1. y <= c /\ y \in Nat /\ c \in Nat
      BY <1>7
    <3> QED
      BY <3>1
  <2> QED
    BY <1>8, <2>1
<1> QED
  BY <1>9, Zenon DEF Sets!Max

(***************************************************************************)
(* What of a side is shown, and still to be shown, is all of it.           *)
(***************************************************************************)
AllOf(ot, nt, m, fs, ph) ==
  \A t, side, P : Sided(t, side, ot, nt) /\ Wanted(t, side, P) =>
    /\ ph = "merge" /\ fs # <<>> => Total(t, side, P, ot, nt, m, fs) = Reading(t, P, Root)
    /\ ph = "done" => ShownIn(m, Away(side), t, side, P, nt) = Reading(t, P, Root)

AllShown == AllOf(old, new, out, frames, phase)

(***************************************************************************)
(* The merged tree is one, the calls under way stand for nodes that are    *)
(* there, and what they have still to show completes what is shown.        *)
(***************************************************************************)
Merged ==
  /\ Grown(out, old, new)
  /\ Carried
  /\ AllShown
  /\ loop \in Loops
  /\ maxn \in Nat \cup {None}

\* At first nothing is merged.
LEMMA MergedInit == MInit => Merged
<1> SUFFICES ASSUME MInit PROVE Merged
  OBVIOUS
<1>1. phase = "queue" /\ out = <<>> /\ frames = <<>> /\ loop = "tail" /\ maxn = None
  BY DEF MInit, Init
<1>2. <<>> \in Seq(MNodes(old, new)) /\ DOMAIN <<>> = {}
  OBVIOUS
<1>3. Grown(out, old, new)
  BY <1>1, <1>2 DEF Grown, Rooted
<1> QED
  BY <1>1, <1>3 DEF Merged, Carried, AllShown, AllOf, Loops

\* Nothing of the above is about the matching.
LEMMA MergedSame ==
  ASSUME Merged, UNCHANGED <<pair, phase, mvars>>
  PROVE  Merged'
BY DEF Merged, Carried, AllShown, mvars, HasNew, NewLeft, Top, old, new

\* When only old children are left, the innermost call has gone through the new ones.
LEMMA TailStep ==
  ASSUME Matching, OpenCalls, Carried, MergeNext, phase' = "merge", loop' = "tail"
  PROVE  ~HasNew'
<1>1. /\ phase = "merge" /\ new' = new /\ TypeOK /\ OldMatchSound
      /\ old' = old
  BY MergePhase, MergeKeepsMatching DEF matching, new, old, Matching
<1>2. ASSUME NEW C, NEW f \in C, NEW s \in Seq(C), frames' = <<f>> \o s,
             ~(f.ni <= Len(new.kids[f.n]))
      PROVE  ~HasNew'
  <2>1. Top' = f
    BY <1>2, CallsPut DEF Top
  <2> QED
    BY <1>1, <1>2, <2>1 DEF HasNew, NewLeft
<1>3. ASSUME NEW C, NEW f \in C, NEW s \in Seq(C), frames' = <<f>> \o s, loop' = LoopHead(f)
      PROVE  ~HasNew'
  <2>1. ~(f.ni <= Len(new.kids[f.n]))
    BY <1>3 DEF LoopHead
  <2> QED
    BY <1>2, <1>3, <2>1
<1>4. CASE MergeRoots
  <2> DEFINE f == Call(0, Root, Root)
             C == {f}
  <2>1. frames' = <<f>> /\ loop' = LoopHead(f)
    BY <1>1, <1>4 DEF MergeRoots, MAbort
  <2>2. Head(<<f>>) = f
    OBVIOUS
  <2> HIDE DEF f
  <2>3. Top' = f /\ ~(f.ni <= Len(new.kids[f.n]))
    BY <2>1, <2>2 DEF Top, LoopHead
  <2> QED
    BY <1>1, <2>3 DEF HasNew, NewLeft
<1>5. CASE FlushOld \/ FlushOldDone \/ FlushNew \/ MergeTexts \/ NoTexts \/ DeleteMoved
  BY <1>5 DEF FlushOld, FlushOldDone, FlushNew, MergeTexts, NoTexts, DeleteMoved, Merging
<1>6. CASE FlushNewDone
  BY <1>1, <1>6 DEF FlushNewDone, Merging, HasNew, NewLeft, Top
<1>7. CASE MergeDone
  BY <1>7 DEF MergeDone
<1>8. CASE FlushTail \/ InsertMoved \/ KeepOpaque \/ Keep \/ Return
  <2> DEFINE C == CallsOf(old, new)
  <2>1. frames # <<>>
    BY <1>8 DEF FlushTail, InsertMoved, KeepOpaque, Keep, Return, Merging
  <2>2. Carries(out, frames, old, new) /\ (loop = "tail" => ~HasNew)
    BY <1>1, <2>1 DEF Carried
  <2>3. /\ Top \in C /\ Len(out) \in Nat
        /\ HasOld => OldKid \in Ids(old)
        /\ HasNew => NewKid \in Ids(new)
    BY <1>1, <2>1, <2>2, TopOf
  <2>4. frames \in Seq(C) /\ Tail(frames) \in Seq(C)
    <3>1. Sided(old, "o", old, new)
      BY <1>1, <2>1, <2>2, TopOf
    <3>2. frames \in Seq(C)
      BY <2>1, <2>2, <3>1, TopIs
    <3> QED
      BY <2>1, <3>2, HeadTailProperties
  <2>5. CASE FlushTail
    <3> DEFINE f == Past(1, 0)
    <3>1. 1 \in Nat /\ 0 \in Nat
      OBVIOUS
    <3>2. f \in C /\ Moved(Top, f, 1, 0)
      BY <2>3, <3>1, PastMoved
    <3>3. frames' = <<f>> \o Tail(frames) /\ loop = "tail"
      BY <2>5 DEF FlushTail, DeleteOld, Merging
    <3>4. f.ni = Top.ni + 0 /\ f.n = Top.n /\ Top.ni \in Nat
      BY <2>3, <3>2 DEF Moved, CallsOf
    <3> HIDE DEF f, C
    <3>5. ~(f.ni <= Len(new.kids[f.n]))
      BY <2>2, <3>3, <3>4 DEF HasNew, NewLeft
    <3> QED
      BY <1>2, <2>4, <3>2, <3>3, <3>5
  <2>6. CASE InsertMoved
    <3> DEFINE f == Past(0, 1)
    <3>1. f \in C
      BY <2>3, PastMoved
    <3>2. frames' = <<f>> \o Tail(frames) /\ loop' = LoopHead(f)
      BY <2>6 DEF InsertMoved, InsertNew
    <3> HIDE DEF f, C
    <3> QED
      BY <1>3, <2>4, <3>1, <3>2
  <2>7. CASE KeepOpaque
    <3> DEFINE f == Past(1, 1)
    <3>1. f \in C
      BY <2>3, PastMoved
    <3>2. frames' = <<f>> \o Tail(frames) /\ loop' = LoopHead(f)
      BY <1>1, <2>7 DEF KeepOpaque, MAbort
    <3> HIDE DEF f, C
    <3> QED
      BY <1>3, <2>4, <3>1, <3>2
  <2>8. CASE Keep
    <3> DEFINE f == Call(Len(out), OldKid, NewKid)
               D == C \cup {f}
    <3>1. frames' = <<f>> \o frames /\ loop' = LoopHead(f)
      BY <1>1, <2>8 DEF Keep, MAbort
    <3> HIDE DEF f, C
    <3>2. frames \in Seq(D) /\ f \in D
      BY <2>4
    <3> HIDE DEF D
    <3> QED
      BY <1>3, <3>1, <3>2
  <2>9. CASE Return
    <3> DEFINE f == [frames[2] EXCEPT !.oi = @ + 1, !.ni = @ + 1]
               D == C \cup {f}
    <3>1. frames' = <<f>> \o Tail(Tail(frames)) /\ loop' = LoopHead(f) /\ Len(frames) > 1
      BY <2>9 DEF Return
    <3> HIDE DEF f, C
    <3>2. Tail(frames) # <<>>
      <4>1. Len(Tail(frames)) = Len(frames) - 1 /\ Len(frames) \in Nat
        BY <2>1, <2>4, HeadTailProperties, LenProperties
      <4>2. Len(Tail(frames)) # 0
        BY <3>1, <4>1
      <4>3. Len(<<>>) = 0
        OBVIOUS
      <4> QED
        BY <4>2, <4>3, Zenon
    <3>3. Tail(Tail(frames)) \in Seq(C)
      BY <2>4, <3>2, HeadTailProperties
    <3>4. Tail(Tail(frames)) \in Seq(D) /\ f \in D
      BY <3>3
    <3> HIDE DEF D
    <3> QED
      BY <1>3, <3>1, <3>4
  <2> QED
    BY <1>8, <2>5, <2>6, <2>7, <2>8, <2>9
<1> QED
  BY <1>4, <1>5, <1>6, <1>7, <1>8 DEF MergeNext

\* Every step of the merge keeps what is shown.
LEMMA MergedStep ==
  ASSUME Matching, Matching', OpenCalls, Merged, MergeNext
  PROVE  Merged'
<1>1. /\ phase = "merge" /\ phase' \in {"merge", "done"}
      /\ old' = old /\ new' = new /\ pair' = pair /\ TypeOK
  BY MergePhase, MergeKeepsMatching DEF matching, new, old, Matching, NoAbort
<1>2. IsDoc(old) /\ IsDoc(new)
  BY <1>1, PairOfDocs
<1>3. Carried /\ AllShown /\ Grown(out, old, new)
  BY DEF Merged
<1>4. loop' \in Loops
  BY DEF Merged, Loops, MergeNext, MergeRoots, FlushOld, FlushOldDone, FlushNew, FlushNewDone,
     MergeTexts, NoTexts, InsertMoved, DeleteMoved, KeepOpaque, Keep, FlushTail, Return,
     MergeDone, MAbort, LoopHead
<1>5. maxn' \in Nat \cup {None}
  <2>1. CASE MergeDone
    <3>1. /\ Maps[pair[1]] = Mapped(old) /\ Maps[pair[2]] = Mapped(new)
          /\ IsTree(old) /\ IsTree(new)
      BY <1>1, PairOfDocs
    <3>2. ASSUME NEW t, IsTree(t)
          PROVE  Sets!Max(Mapped(t)) \in Nat
      <4> DEFINE I == Ids(t)
      <4> HIDE DEF I
      <4>1. PICK last \in I : \A n \in I : n <= last
        BY <3>2 DEF IsTree, I
      <4>2. I \subseteq Nat
        BY <3>2 DEF IsTree, I
      <4>3. Mapped(t) \subseteq I /\ Root \in Mapped(t)
        BY <3>2, MappedClosed DEF I
      <4> DEFINE M == Mapped(t)
      <4> HIDE DEF M
      <4>4. M \subseteq I /\ M # {}
        BY <4>3 DEF M
      <4>5. M \in SUBSET Nat /\ last \in Nat /\ \A x \in M : x <= last
        BY <4>1, <4>2, <4>4
      <4>6. Sets!Max(M) \in M
        BY <4>4, <4>5, LargestOf
      <4> QED
        BY <4>5, <4>6 DEF M
    <3>3. MaxId(pair[1]) \in Nat /\ MaxId(pair[2]) \in Nat
      BY <3>1, <3>2 DEF MaxId
    <3>4. maxn' = 1 + (IF MaxId(pair[2]) > MaxId(pair[1]) THEN MaxId(pair[2])
                                                          ELSE MaxId(pair[1]))
      BY <2>1 DEF MergeDone
    <3> QED
      BY <3>3, <3>4
  <2>2. CASE ~MergeDone
    <3>1. maxn' = maxn
      BY <2>2 DEF MergeNext, MergeRoots, FlushOld, FlushOldDone, FlushNew, FlushNewDone,
         MergeTexts, NoTexts, InsertMoved, DeleteMoved, KeepOpaque, Keep, FlushTail, Return
    <3> QED
      BY <3>1 DEF Merged
  <2> QED
    BY <2>1, <2>2
<1>6. CASE MergeDone
  <2>1. /\ frames # <<>> /\ loop = "tail" /\ ~HasOld /\ Len(frames) = 1
        /\ frames' = <<>> /\ phase' = "done" /\ out' = out
    BY <1>6 DEF MergeDone, Merging
  <2>2. Carries(out, frames, old, new) /\ ~HasNew
    BY <1>1, <1>3, <2>1 DEF Carried
  <2>3. ~Has(old, Head(frames), "o") /\ ~Has(new, Head(frames), "n")
    BY <1>1, <2>1, <2>2, TopOf
  <2>4. Tail(frames) = <<>>
    <3> DEFINE C == CallsOf(old, new)
    <3>1. Sided(old, "o", old, new)
      BY <1>1, <2>1, <2>2, TopOf
    <3>2. frames \in Seq(C)
      BY <2>1, <2>2, <3>1, TopIs
    <3> HIDE DEF C
    <3>3. Tail(frames) \in Seq(C) /\ Len(Tail(frames)) = 0
      BY <2>1, <3>2, HeadTailProperties
    <3> QED
      BY <3>3, EmptySeq
  <2>5. ASSUME NEW t, NEW side, NEW P, Sided(t, side, old, new), Wanted(t, side, P)
        PROVE  ShownIn(out, Away(side), t, side, P, new) = Reading(t, P, Root)
    <3>1. Total(t, side, P, old, new, out, frames) = Reading(t, P, Root)
      BY <1>1, <1>3, <2>1, <2>5 DEF AllShown, AllOf
    <3>2. ~Has(t, Head(frames), side)
      BY <2>3, <2>5 DEF Sided
    <3>3. Total(t, side, P, old, new, out, frames) = ShownIn(out, Away(side), t, side, P, new)
      BY <2>1, <2>2, <2>4, <2>5, <3>2, LastCall
    <3> QED
      BY <3>1, <3>3
  <2>6. AllOf(old, new, out, <<>>, "done")
    BY <2>5 DEF AllOf
  <2>7. AllShown'
    BY <1>1, <2>1, <2>6 DEF AllShown
  <2>8. Carried' /\ Grown(out', old', new')
    BY <1>1, <1>3, <2>1 DEF Carried
  <2> QED
    BY <1>4, <1>5, <2>7, <2>8 DEF Merged
<1>7. CASE ~MergeDone
  <2>1. phase' = "merge"
    BY <1>1, <1>7 DEF MergeNext, MergeRoots, FlushOld, FlushOldDone, FlushNew, FlushNewDone,
       MergeTexts, NoTexts, InsertMoved, DeleteMoved, KeepOpaque, Keep, FlushTail, Return, MAbort
  <2>2. loop' = "tail" => ~HasNew'
    BY <1>3, <2>1, TailStep
  <2>3. /\ Carries(out', frames', old, new)
        /\ AllOf(old, new, out', frames', "merge")
    <3>1. CASE frames = <<>>
      <4>1. MergeRoots
        BY <3>1 DEF MergeNext, FlushOld, FlushOldDone, FlushNew, FlushNewDone,
           MergeTexts, NoTexts, InsertMoved, DeleteMoved, KeepOpaque, Keep, FlushTail, Return,
           MergeDone, Merging
      <4>2. /\ out' = <<Kept(None, Root, Root)>>
            /\ frames' = <<Call(0, Root, Root)>>
        BY <2>1, <4>1 DEF MergeRoots, MAbort, Kept
      <4> DEFINE m == <<Kept(None, Root, Root)>>
                 fs == <<Call(0, Root, Root)>>
      <4>3. /\ Carries(m, fs, old, new)
            /\ \A t, side, P : Sided(t, side, old, new) =>
                 Total(t, side, P, old, new, m, fs) = Reading(t, P, Root)
        BY <1>2, FirstCall
      <4> HIDE DEF m, fs
      <4>4. AllOf(old, new, m, fs, "merge")
        BY <4>3 DEF AllOf
      <4> QED
        BY <4>2, <4>3, <4>4, Zenon DEF m, fs
    <3>2. CASE frames # <<>>
      <4>1. Carries(out, frames, old, new)
        BY <1>1, <1>3, <3>2 DEF Carried
      <4>2. MergesOn(old, new, om, out, frames, out', frames')
        BY <1>3, <2>1, <3>2, MergeMoves
      <4>3. Head(frames).o \in LooksIn(old)
        <5>1. PICK M : frames \in Seq(Calls(M))
          BY <1>1 DEF OpenCalls
        <5>2. Top \in Calls(M)
          BY <1>1, <3>2, <5>1, TopKids
        <5>3. Maps[pair[1]] = Mapped(old)
          BY <1>1, PairOfDocs
        <5> QED
          BY <5>2, <5>3 DEF Calls, LooksIn, Top
      <4> DEFINE m2 == out'
                 fs2 == frames'
      <4> HIDE DEF m2, fs2
      <4>4. MergesOn(old, new, om, out, frames, m2, fs2)
        BY <4>2 DEF m2, fs2
      <4>5. /\ Carries(m2, fs2, old, new)
            /\ \A t, side, P : Sided(t, side, old, new) /\ Wanted(t, side, P) =>
                 Total(t, side, P, old, new, m2, fs2) = Total(t, side, P, old, new, out, frames)
        BY <1>2, <3>2, <4>1, <4>3, <4>4, MergesOnStep
      <4>6. AllOf(old, new, out, frames, "merge")
        BY <1>1, <1>3 DEF AllShown
      <4>7. AllOf(old, new, m2, fs2, "merge")
        BY <3>2, <4>5, <4>6 DEF AllOf
      <4> QED
        BY <4>5, <4>7 DEF m2, fs2
    <3> QED
      BY <3>1, <3>2
  <2>4. Carried'
    BY <1>1, <2>2, <2>3 DEF Carried
  <2>5. AllShown'
    BY <1>1, <2>1, <2>3 DEF AllShown
  <2>6. Grown(out', old', new')
    BY <1>1, <2>3 DEF Carries
  <2> QED
    BY <1>4, <1>5, <2>4, <2>5, <2>6 DEF Merged
<1> QED
  BY <1>6, <1>7

\* What is shown, and what the calls have to show, is always all.
LEMMA MergedHolds == MSpec => [](Matching /\ OpenCalls /\ Merged)
<1>1. ASSUME Matching, Matching', OpenCalls, Merged, [MNext]_<<vars, mvars>>
      PROVE  Merged'
  <2>1. CASE UNCHANGED <<vars, mvars>> \/ Returned
    <3>1. UNCHANGED <<pair, phase, mvars>>
      BY <2>1 DEF Returned, vars
    <3> QED
      BY <1>1, <3>1, MergedSame
  <2>2. CASE MatchNext /\ UNCHANGED mvars
    <3>1. pair' = pair /\ frames = <<>> /\ phase # "done" /\ phase' # "done"
      BY <2>2, <1>1 DEF OpenCalls, MatchNext, Dequeue, Enqueue, EnqueueDone,
       MatchDown, MatchDownDone, MatchUp, MatchUpDone, MatchRoots,
       MatchHeaders, TopDown, TopDownDone, BottomUp, BottomUpDone, Abort
    <3>2. old' = old /\ new' = new /\ UNCHANGED <<out, frames, loop, maxn>>
      BY <2>2, <3>1 DEF old, new, mvars
    <3> QED
      BY <1>1, <3>1, <3>2 DEF Merged, Carried, AllShown, AllOf
  <2>3. CASE MergeNext
    BY <1>1, <2>3, MergedStep
  <2> QED
    BY <1>1, <2>1, <2>2, <2>3 DEF MNext
<1>2. MSpec => []Matching /\ []OpenCalls
  BY MatchingHolds, OpenCallsMatched
<1> QED
  BY <1>1, <1>2, MergedInit, PTL DEF MSpec

-------------------------------------------------------------------------------
(***************************************************************************)
(* For all trees, lowdown_diff() keeps to its types from its beginning to  *)
(* its end: a node of the merged tree comes after its parent, stands for   *)
(* nodes that are there, and node_merge() is called for a merged node that *)
(* is there and two mapped nodes that are not opaque.                      *)
(***************************************************************************)
THEOREM MergeTypesCorrect == MSpec => []MTypeOK
<1>1. Matching /\ OpenCalls /\ Merged => MTypeOK
  <2> SUFFICES ASSUME Matching, OpenCalls, Merged PROVE MTypeOK
    OBVIOUS
  <2>1. TypeOK /\ phase # "abort" /\ loop \in Loops /\ maxn \in Nat \cup {None}
    BY DEF Matching, NoAbort, Merged
  <2>2. IsDoc(old) /\ IsDoc(new) /\ Sided(old, "o", old, new) /\ Grown(out, old, new)
    BY <2>1, PairOfDocs DEF Merged, Sided
  <2>3. ASSUME NEW k \in DOMAIN out
        PROVE  /\ out[k].par \in IF k = 1 THEN {None} ELSE 0 .. k - 2
               /\ out[k].chng \in {"none", "delete", "insert"}
               /\ out[k].o \in Ids(old) \cup {None}
               /\ out[k].n \in Ids(new) \cup {None}
    <3>1. DOMAIN out = 1 .. Len(out) /\ \A j \in 1 .. Len(out) :
            out[j] \in MNodes(old, new) /\ out[j].par \in IF j = 1 THEN {None} ELSE 0 .. j - 2
      BY <2>2, SideType
    <3>2. out[k] \in MNodes(old, new)
      BY <3>1
    <3> QED
      BY <3>1, <3>2 DEF MNodes
  <2>4. ASSUME NEW i \in DOMAIN frames
        PROVE  /\ frames[i].m \in 0 .. Len(out) - 1
               /\ frames[i].o \in DOMAIN om /\ ~IsOpaque(old, frames[i].o)
               /\ frames[i].n \in DOMAIN nm /\ ~IsOpaque(new, frames[i].n)
    <3>1. phase = "merge" /\ frames # <<>>
      BY <2>1, <2>4 DEF OpenCalls
    <3>2. frames \in Seq(Standing(out, old, new))
      BY <3>1 DEF Merged, Carried, Carries
    <3>3. frames[i].m \in 0 .. Len(out) - 1
      <4>1. frames[i] \in Standing(out, old, new)
        BY <3>2
      <4> QED
        BY <4>1 DEF Standing
    <3>4. PICK M : frames \in Seq(Calls(M))
      BY <3>1 DEF OpenCalls
    <3>5. frames[i] \in Calls(M)
      BY <3>4
    <3>6. DOMAIN om = Maps[pair[1]] /\ DOMAIN nm = Maps[pair[2]]
      BY <2>1 DEF TypeOK
    <3> QED
      BY <3>3, <3>5, <3>6 DEF Calls
  <2> QED
    BY <2>1, <2>3, <2>4 DEF MTypeOK
<1> QED
  BY <1>1, MergedHolds, PTL

(***************************************************************************)
(* For all trees, what is left of the merged tree without what is deleted  *)
(* is the new tree, node for node and word for word, wherever a node was   *)
(* moved from.                                                             *)
(***************************************************************************)
THEOREM NewSideCorrect == MSpec => []NewSideWhole
<1>1. Matching /\ Merged => NewSideWhole
  <2> SUFFICES ASSUME Matching, Merged, phase = "done"
               PROVE  ShownWithout(out, "delete", new, "n", Ids(new))
                        = ShownOf(new, SubTrees[pair[2]][Root], Ids(new))
    BY DEF NewSideWhole
  <2>1. TypeOK
    BY DEF Matching
  <2>2. /\ IsDoc(old) /\ IsDoc(new) /\ SubTrees[pair[2]] = PreOrder(new)
    BY <2>1, PairOfDocs
  <2>3. Sided(new, "n", old, new) /\ Wanted(new, "n", Ids(new)) /\ Away("n") = "delete"
    BY <2>2 DEF Sided, Wanted, Away
  <2>4. AllOf(old, new, out, frames, phase)
    BY DEF Merged, AllShown
  <2>5. ShownIn(out, Away("n"), new, "n", Ids(new), new) = Reading(new, Ids(new), Root)
    BY <2>3, <2>4 DEF AllOf
  <2>6. ShownWithout(out, "delete", new, "n", Ids(new))
          = ShownIn(out, "delete", new, "n", Ids(new), new)
    BY ShownWithoutIn
  <2> QED
    BY <2>2, <2>3, <2>5, <2>6 DEF Reading
<1> QED
  BY <1>1, MergedHolds, PTL

(***************************************************************************)
(* For all trees, what is left of it without what is inserted is the old   *)
(* tree: no old node is lost or shown twice, also when it was moved or two *)
(* new nodes claimed it.                                                   *)
(***************************************************************************)
THEOREM OldSideCorrect == MSpec => []OldSideWhole
<1>1. Matching /\ Merged => OldSideWhole
  <2> SUFFICES ASSUME Matching, Merged, phase = "done"
               PROVE  ShownWithout(out, "insert", old, "o", Compared)
                        = ShownOf(old, SubTrees[pair[1]][Root], Compared)
    BY DEF OldSideWhole
  <2>1. TypeOK
    BY DEF Matching
  <2>2. /\ IsDoc(old) /\ IsDoc(new) /\ SubTrees[pair[1]] = PreOrder(old)
        /\ Maps[pair[1]] = Mapped(old)
    BY <2>1, PairOfDocs
  <2>3. Compared = LooksIn(old)
    BY <2>1, <2>2 DEF TypeOK, Compared, LooksIn
  <2>4. Sided(old, "o", old, new) /\ Wanted(old, "o", Compared) /\ Away("o") = "insert"
    BY <2>2, <2>3 DEF Sided, Wanted, Away
  <2>5. AllOf(old, new, out, frames, phase)
    BY DEF Merged, AllShown
  <2>6. ShownIn(out, Away("o"), old, "o", Compared, new) = Reading(old, Compared, Root)
    BY <2>4, <2>5 DEF AllOf
  <2>7. ShownWithout(out, "insert", old, "o", Compared)
          = ShownIn(out, "insert", old, "o", Compared, new)
    BY ShownWithoutIn
  <2> QED
    BY <2>2, <2>4, <2>6, <2>7 DEF Reading
<1> QED
  BY <1>1, MergedHolds, PTL

\* The nodes of two sequences put one behind the other.
LEMMA JoinMembers ==
  ASSUME NEW S, NEW a \in Seq(S), NEW b \in Seq(S), NEW k \in DOMAIN (a \o b)
  PROVE  \/ k \in DOMAIN a /\ (a \o b)[k] = a[k]
         \/ \E j \in DOMAIN b : (a \o b)[k] = b[j]
<1>1. /\ DOMAIN a = 1 .. Len(a) /\ DOMAIN b = 1 .. Len(b)
      /\ DOMAIN (a \o b) = 1 .. (Len(a) + Len(b))
      /\ Len(a) \in Nat /\ Len(b) \in Nat
      /\ \A i \in 1 .. Len(a) : (a \o b)[i] = a[i]
      /\ \A i \in 1 .. Len(b) : (a \o b)[Len(a) + i] = b[i]
  BY JoinAt
<1> DEFINE r == a \o b
<1> HIDE DEF r
<1>2. CASE k <= Len(a)
  <2>1. k \in 1 .. Len(a)
    BY <1>1, <1>2
  <2> QED
    BY <1>1, <2>1
<1>3. CASE ~(k <= Len(a))
  <2>1. k - Len(a) \in 1 .. Len(b) /\ Len(a) + (k - Len(a)) = k
    BY <1>1, <1>3
  <2>2. r[Len(a) + (k - Len(a))] = b[k - Len(a)]
    BY <1>1, <2>1 DEF r
  <2>3. r[k] = b[k - Len(a)]
    BY <2>1, <2>2
  <2> QED
    BY <1>1, <2>1, <2>3 DEF r
<1> QED
  BY <1>2, <1>3

\* A merged node that is not one of a word stands for nodes of both sides.
Both(v) == v.o # None /\ v.n # None /\ v.word = NoWord

\* Only a node for o and n is added.
OnlyPair(m, m2, o, n) ==
  \A k \in DOMAIN m2 :
    \/ k \in DOMAIN m /\ m2[k] = m[k]
    \/ Both(m2[k]) => m2[k].o = o /\ m2[k].n = n

\* Of what is added only nodes for one pair stand for two.
LEMMA AddOnlyPair ==
  ASSUME NEW S, NEW m \in Seq(S), NEW add \in Seq(S), NEW o, NEW n, NEW m2, m2 = m \o add,
         \A j \in DOMAIN add : Both(add[j]) => add[j].o = o /\ add[j].n = n
  PROVE  OnlyPair(m, m2, o, n)
<1>1. \A k \in DOMAIN (m \o add) :
        \/ k \in DOMAIN m /\ (m \o add)[k] = m[k]
        \/ \E j \in DOMAIN add : (m \o add)[k] = add[j]
  BY JoinMembers
<1> QED
  BY <1>1 DEF OnlyPair

(***************************************************************************)
(* A step of the merge adds a node for both of the next children of the    *)
(* innermost call, or none for two nodes.                                  *)
(***************************************************************************)
LEMMA MergesOnPair ==
  ASSUME NEW ot, NEW nt, NEW f, NEW m, NEW fs, NEW m2, NEW fs2, Carries(m, fs, ot, nt),
         MergesOn(ot, nt, f, m, fs, m2, fs2)
  PROVE  LET o == Kid(ot, Head(fs), "o")
             n == Kid(nt, Head(fs), "n")
         IN  \/ OnlyPair(m, m2, None, None)
             \/ OnlyPair(m, m2, o, n) /\ f[o] = n
                /\ Has(ot, Head(fs), "o") /\ Has(nt, Head(fs), "n")
<1> DEFINE h == Head(fs)
           o == Kid(ot, h, "o")
           n == Kid(nt, h, "n")
           m0 == h.m
<1>1. CASE m2 = m
  BY <1>1 DEF OnlyPair
<1>2. ASSUME NEW u, NEW where, Drops(u, where, ot, nt, m, fs, m2, fs2)
      PROVE  OnlyPair(m, m2, None, None)
  <2> DEFINE x == Kid(u, h, where)
             s == PreOrder(u)[x]
             c == Clone(s, u, where, Len(m), m0, Mark(where), None)
  <2>1. Cloning(u, where, ot, nt, m, x, m0, Mark(where), None) /\ Grown(m, ot, nt)
        /\ Sided(u, where, ot, nt)
    BY <1>2, DropsCarry DEF Cloning
  <2>2. c \in Seq(MNodes(ot, nt)) /\ m \in Seq(MNodes(ot, nt))
    <3> HIDE DEF x, m0, h
    <3> QED
      BY <2>1, CloneType DEF Grown
  <2>3. \A j \in DOMAIN c : c[j].o = None \/ c[j].n = None
    <3>1. \A j \in DOMAIN s :
            /\ c[j].o = IF where = "o" THEN s[j] ELSE None
            /\ c[j].n = IF where = "n" THEN s[j] ELSE None
      <4> HIDE DEF s
      <4> QED
        BY DEF Clone, Node
    <3>2. DOMAIN c = DOMAIN s
      BY DEF Clone
    <3> QED
      BY <3>1, <3>2
  <2>4. m2 = m \o c
    BY <1>2 DEF Drops
  <2> HIDE DEF c
  <2> QED
    BY <2>2, <2>3, <2>4, AddOnlyPair DEF Both
<1>3. CASE Texts(ot, nt, m, fs, m2, fs2)
  <2>1. PICK script \in Seq(Ops) : m2 = m \o Over(ScriptNodes(m0, o, n), script)
    BY <1>3 DEF Texts
  <2>2. /\ IsDoc(ot) /\ IsDoc(nt) /\ fs # <<>> /\ Has(ot, h, "o") /\ Has(nt, h, "n")
    BY <1>3 DEF Texts
  <2>3. Grown(m, ot, nt) /\ m0 \in 0 .. Len(m) - 1 /\ o \in Ids(ot) /\ n \in Ids(nt)
    BY <2>2, TopBoth
  <2> DEFINE add == Over(ScriptNodes(m0, o, n), script)
             T   == TextNodes(m0, o, n)
             d   == "delete"
  <2>4. add \in Seq(T)
    <3> HIDE DEF m0, o, n, d
    <3>1. <<d, d>> \in {<<"delete", "delete">>, <<"insert", "add">>}
      BY DEF d
    <3>2. /\ Over(ScriptNodes(m0, o, n), script) \in Seq(TextNodes(m0, o, n))
          /\ Over(WordsHere(m0, o, n, d, None), Over(ScriptNodes(m0, o, n), script))
               = Over(PutWord(None), Over(Says(d), script))
      BY <3>1, ScriptShows
    <3> QED
      BY <3>2
  <2>5. \A v \in T : v.word # NoWord
    <3> HIDE DEF m0, o, n
    <3> QED
      BY DEF TextNodes, WordsOnly, Space, NoWord
  <2> HIDE DEF add, T
  <2>6. add \in Seq(MNodes(ot, nt)) /\ m \in Seq(MNodes(ot, nt))
    <3> HIDE DEF m0, o, n
    <3> QED
      BY <2>2, <2>3, <2>4, ScriptGrows DEF Grown, T
  <2>7. \A j \in DOMAIN add : add[j].word # NoWord
    <3>1. \A j \in DOMAIN add : add[j] \in T
      BY <2>4
    <3> QED
      BY <2>5, <3>1
  <2>8. m2 = m \o add
    BY <2>1 DEF add
  <2> QED
    BY <2>6, <2>7, <2>8, AddOnlyPair DEF Both
<1>4. CASE f[o] = n /\ Opaques(ot, nt, m, fs, m2, fs2)
  <2> DEFINE s == PreOrder(nt)[n]
             c == Clone(s, nt, "n", Len(m), m0, "none", o)
  <2>1. /\ IsDoc(ot) /\ IsDoc(nt) /\ fs # <<>> /\ Has(ot, h, "o") /\ Has(nt, h, "n")
        /\ m2 = m \o c
    BY <1>4 DEF Opaques
  <2>2. Grown(m, ot, nt) /\ m0 \in 0 .. Len(m) - 1 /\ o \in Ids(ot) /\ n \in Ids(nt)
    BY <2>1, TopBoth
  <2>3. Cloning(nt, "n", ot, nt, m, n, m0, "none", o)
    BY <2>1, <2>2 DEF Cloning, Sided
  <2>4. /\ c \in Seq(MNodes(ot, nt)) /\ m \in Seq(MNodes(ot, nt)) /\ s[1] = n
    <3> HIDE DEF o, n, m0, h
    <3> QED
      BY <2>2, <2>3, CloneType DEF Grown
  <2>5. \A j \in DOMAIN c : Both(c[j]) => c[j].o = o /\ c[j].n = n
    <3>1. DOMAIN c = DOMAIN s
      BY DEF Clone
    <3>2. \A j \in DOMAIN s : c[j].o = (IF j = 1 THEN o ELSE None) /\ c[j].n = s[j]
      <4> HIDE DEF s, o, n, m0
      <4> QED
        BY DEF Clone, Node
    <3> QED
      BY <2>4, <3>1, <3>2 DEF Both
  <2>6. OnlyPair(m, m2, o, n)
    <3> HIDE DEF c, o, n
    <3> QED
      BY <2>1, <2>4, <2>5, AddOnlyPair
  <2> QED
    BY <1>4, <2>1, <2>6, Zenon
<1>5. CASE f[o] = n /\ Keeps(ot, nt, m, fs, m2, fs2)
  <2> DEFINE v == Kept(m0, o, n)
             c == <<v>>
  <2>1. /\ IsDoc(ot) /\ IsDoc(nt) /\ fs # <<>> /\ Has(ot, h, "o") /\ Has(nt, h, "n")
        /\ m2 = m \o c
    BY <1>5 DEF Keeps
  <2>2. Grown(m, ot, nt) /\ m0 \in 0 .. Len(m) - 1 /\ o \in Ids(ot) /\ n \in Ids(nt)
    BY <2>1, TopBoth
  <2>3. c \in Seq(MNodes(ot, nt)) /\ m \in Seq(MNodes(ot, nt))
    <3>1. m0 \in Int
      BY <2>2
    <3>2. v \in MNodes(ot, nt)
      <4> HIDE DEF o, n, m0
      <4> QED
        BY <2>2, <3>1 DEF Kept, Node, MNodes
    <3> HIDE DEF v
    <3>3. c \in Seq(MNodes(ot, nt))
      BY <3>2
    <3> QED
      BY <2>2, <3>3 DEF Grown
  <2>4. v.o = o /\ v.n = n
    <3> HIDE DEF o, n, m0
    <3> QED
      BY DEF Kept, Node
  <2> HIDE DEF v
  <2>5. \A j \in DOMAIN c : c[j] = v
    OBVIOUS
  <2>6. OnlyPair(m, m2, o, n)
    <3> HIDE DEF c, o, n
    <3> QED
      BY <2>1, <2>3, <2>4, <2>5, AddOnlyPair
  <2> QED
    BY <1>5, <2>1, <2>6, Zenon
<1>6. CASE Drops(ot, "o", ot, nt, m, fs, m2, fs2) \/ Drops(nt, "n", ot, nt, m, fs, m2, fs2)
  BY <1>2, <1>6
<1> QED
  BY <1>1, <1>3, <1>4, <1>5, <1>6, Zenon DEF MergesOn

(***************************************************************************)
(* A merged node that stands for an old and a new one stands for two that  *)
(* match; there is none before the merge.                                  *)
(***************************************************************************)
KeptMatched ==
  /\ phase \notin {"merge", "done"} => out = <<>>
  /\ \A k \in DOMAIN out :
       Both(out[k]) => out[k].n \in DOMAIN nm /\ nm[out[k].n] = out[k].o

\* Every step of the merge keeps nodes for matched ones only.
LEMMA KeptMatchedStep ==
  ASSUME Matching, Matching', OpenCalls, Carried, KeptMatched, MergeNext
  PROVE  KeptMatched'
<1>1. /\ phase = "merge" /\ phase' \in {"merge", "done"} /\ TypeOK /\ OldMatchSound
      /\ om' = om /\ nm' = nm
  BY MergePhase, MergeKeepsMatching DEF matching, Matching, NoAbort
<1> SUFFICES ASSUME NEW k \in DOMAIN out', Both(out'[k])
             PROVE  out'[k].n \in DOMAIN nm /\ nm[out'[k].n] = out'[k].o
  BY <1>1 DEF KeptMatched, Both
<1>2. \A j \in DOMAIN out : Both(out[j]) => out[j].n \in DOMAIN nm /\ nm[out[j].n] = out[j].o
  BY DEF KeptMatched
<1>3. CASE phase' = "done"
  <2>1. out' = out
    BY <1>1, <1>3 DEF MergeNext, MergeRoots, FlushOld, FlushOldDone, FlushNew, FlushNewDone,
       MergeTexts, NoTexts, InsertMoved, DeleteMoved, KeepOpaque, Keep, FlushTail, Return,
       MergeDone, MAbort
  <2> QED
    BY <1>2, <2>1
<1>4. CASE phase' = "merge" /\ frames = <<>>
  <2>1. MergeRoots
    BY <1>4 DEF MergeNext, FlushOld, FlushOldDone, FlushNew, FlushNewDone,
       MergeTexts, NoTexts, InsertMoved, DeleteMoved, KeepOpaque, Keep, FlushTail, Return,
       MergeDone, Merging
  <2>2. out' = <<Node(None, "none", Root, Root, NoWord)>>
    BY <1>4, <2>1 DEF MergeRoots, MAbort
  <2>3. out'[k].o = Root /\ out'[k].n = Root
    BY <2>2 DEF Node
  <2>4. nm[Root] = Root /\ Root \in Maps[pair[2]]
    BY <1>1, PairOfDocs, MappedClosed DEF Matching, RootsMatched
  <2> QED
    BY <1>1, <2>3, <2>4 DEF TypeOK
<1>5. CASE phase' = "merge" /\ frames # <<>>
  <2> DEFINE o == Kid(old, Head(frames), "o")
             n == Kid(new, Head(frames), "n")
             m2 == out'
             fs2 == frames'
  <2>1. Carries(out, frames, old, new)
    BY <1>1, <1>5 DEF Carried
  <2>2. MergesOn(old, new, om, out, frames, out', frames')
    BY <1>5, MergeMoves
  <2> HIDE DEF m2, fs2
  <2>3. MergesOn(old, new, om, out, frames, m2, fs2)
    BY <2>2 DEF m2, fs2
  <2>4. \/ OnlyPair(out, m2, None, None)
        \/ /\ OnlyPair(out, m2, o, n) /\ om[o] = n
           /\ Has(old, Head(frames), "o") /\ Has(new, Head(frames), "n")
    BY <2>1, <2>3, MergesOnPair
  <2> SUFFICES k \in DOMAIN m2 /\ Both(m2[k])
               => m2[k].n \in DOMAIN nm /\ nm[m2[k].n] = m2[k].o
    BY DEF m2
  <2>5. CASE OnlyPair(out, m2, None, None)
    BY <1>2, <2>5 DEF OnlyPair, Both
  <2>6. CASE /\ OnlyPair(out, m2, o, n) /\ om[o] = n
             /\ Has(old, Head(frames), "o") /\ Has(new, Head(frames), "n")
    <3>1. HasOld /\ HasNew /\ OldKid = o /\ NewKid = n
      BY <1>1, <1>5, <2>1, <2>6, TopOf
    <3>2. PICK M : frames \in Seq(Calls(M))
      BY <1>1 DEF OpenCalls
    <3>3. o \in Maps[pair[1]] /\ n \in Maps[pair[2]]
      BY <1>1, <1>5, <3>1, <3>2, TopKids
    <3> HIDE DEF o, n
    <3>4. n # None
      BY <1>1, <3>3, NoneNotMapped
    <3>5. nm[n] = o /\ n \in DOMAIN nm
      BY <1>1, <2>6, <3>3, <3>4 DEF TypeOK, OldMatchSound
    <3> QED
      BY <1>2, <2>6, <3>5 DEF OnlyPair
  <2> QED
    BY <2>4, <2>5, <2>6
<1> QED
  BY <1>1, <1>3, <1>4, <1>5

\* They are for matched ones always.
LEMMA KeptMatchedHolds == MSpec => [](Matching /\ KeptMatched /\ MatchedSame)
<1>1. MInit => KeptMatched /\ MatchedSame
  BY DEF MInit, Init, KeptMatched, MatchedSame
<1>2. Matching /\ Matching' /\ OpenCalls /\ Merged /\ KeptMatched /\ MatchedSame
        /\ [MNext]_<<vars, mvars>> => KeptMatched' /\ MatchedSame'
  <2> SUFFICES ASSUME Matching, Matching', OpenCalls, Merged, KeptMatched, MatchedSame,
                      [MNext]_<<vars, mvars>>
               PROVE  KeptMatched' /\ MatchedSame'
    OBVIOUS
  <2>1. CASE MergeNext
    <3>1. KeptMatched'
      BY <2>1, KeptMatchedStep DEF Merged
    <3>2. UNCHANGED matching
      BY <2>1, MergeKeepsMatching
    <3>3. pair' = pair /\ nm' = nm /\ old' = old /\ new' = new
      BY <3>2 DEF matching, old, new
    <3>4. MatchedSame'
      <4>1. \A m \in DOMAIN nm' : nm'[m] # None => SameInside(m, nm'[m])
        BY <3>3 DEF MatchedSame
      <4>2. \A m \in DOMAIN nm' : nm'[m] # None => SameInside(m, nm[m])'
        BY <3>3, <4>1 DEF SameInside, IsOpaque, Type, Sigs
      <4> QED
        BY <4>2 DEF MatchedSame
    <3> QED
      BY <3>1, <3>4
  <2>2. CASE [Next]_vars /\ UNCHANGED mvars
    <3>1. MatchedSame'
      BY <2>2, MatchedSameStep DEF Matching
    <3>2. CASE UNCHANGED vars
      BY <2>2, <3>1, <3>2 DEF vars, mvars, KeptMatched
    <3>3. CASE Next /\ ~UNCHANGED vars
      <4>1. phase \notin {"merge", "done"}
        BY <3>3 DEF Next, MatchNext, Matched, Dequeue, Enqueue, EnqueueDone,
           MatchDown, MatchDownDone, MatchUp, MatchUpDone, MatchRoots,
           MatchHeaders, TopDown, TopDownDone, BottomUp, BottomUpDone
      <4>2. out' = <<>>
        BY <2>2, <4>1 DEF KeptMatched, mvars
      <4> QED
        BY <3>1, <4>2 DEF KeptMatched
    <3> QED
      BY <2>2, <3>1, <3>2, <3>3
  <2> QED
    BY <2>1, <2>2 DEF MNext, Next, Returned
<1> QED
  BY <1>1, <1>2, MergedHolds, PTL DEF MSpec

(***************************************************************************)
(* For all trees, a node that is kept with nothing below it, or whose      *)
(* inside is not compared, is the same on both sides: such nodes match by  *)
(* signature, and no other way of matching nodes looks only at their type. *)
(***************************************************************************)
THEOREM KeptLeavesCorrect == MSpec => []KeptLeavesSame
<1>1. Matching /\ KeptMatched /\ MatchedSame => KeptLeavesSame
  <2> SUFFICES ASSUME Matching, KeptMatched, MatchedSame, NEW k \in DOMAIN out,
                      out[k].o # None, out[k].n # None, out[k].word = NoWord,
                      \/ IsOpaque(new, out[k].n)
                      \/ new.kids[out[k].n] = <<>> /\ old.kids[out[k].o] = <<>>
               PROVE  Sigs[pair[1]][out[k].o] = Sigs[pair[2]][out[k].n]
    BY DEF KeptLeavesSame
  <2>1. out[k].n \in DOMAIN nm /\ nm[out[k].n] = out[k].o
    BY DEF KeptMatched, Both
  <2> QED
    BY <2>1 DEF MatchedSame, SameInside
<1> QED
  BY <1>1, KeptMatchedHolds, PTL

-------------------------------------------------------------------------------
(***************************************************************************)
(* The merge of two equal documents: every call is as far on either side.  *)
(***************************************************************************)
Level(fs) == \A i \in DOMAIN fs : fs[i].oi = fs[i].ni /\ nm[fs[i].n] = fs[i].o

Unmarked(m) == \A k \in DOMAIN m : m[k].chng = "none"

EqualMerged == Unmarked(out) /\ (phase = "merge" => Level(frames))

\* A call put before others that are level.
LEMMA LevelPut ==
  ASSUME NEW S, NEW s \in Seq(S), NEW g, Level(s), g.oi = g.ni, nm[g.n] = g.o
  PROVE  Level(<<g>> \o s)
<1> DEFINE one == <<g>>
           t == one \o s
<1>1. one \in Seq(S \cup {g}) /\ s \in Seq(S \cup {g}) /\ Len(one) = 1
  OBVIOUS
<1>2. \A i \in DOMAIN one : one[i] = g
  OBVIOUS
<1> HIDE DEF one
<1>3. SUFFICES ASSUME NEW i \in DOMAIN t PROVE t[i].oi = t[i].ni /\ nm[t[i].n] = t[i].o
  BY DEF Level, one
<1>4. \/ i \in DOMAIN one /\ t[i] = one[i]
      \/ \E j \in DOMAIN s : t[i] = s[j]
  BY <1>1, <1>3, JoinMembers
<1> HIDE DEF t
<1> QED
  BY <1>2, <1>4 DEF Level

\* The calls around a call are as far on both sides.
LEMMA LevelTail ==
  ASSUME NEW S, NEW s \in Seq(S), s # <<>>, Level(s)
  PROVE  Level(Tail(s)) /\ Tail(s) \in Seq(S)
<1>1. /\ Tail(s) \in Seq(S)
      /\ \A i \in DOMAIN Tail(s) : i + 1 \in DOMAIN s /\ Tail(s)[i] = s[i + 1]
  BY TailMembers
<1> QED
  BY <1>1 DEF Level

\* Unmarked nodes added.
LEMMA UnmarkedJoin ==
  ASSUME NEW S, NEW m \in Seq(S), NEW c \in Seq(S), Unmarked(m), Unmarked(c)
  PROVE  Unmarked(m \o c)
BY JoinMembers DEF Unmarked

\* The next children of the innermost call match each other, if there are any.
LEMMA LevelTop ==
  ASSUME Matching, OpenCalls, Mirrored, phase = "merge", frames # <<>>, Level(frames)
  PROVE  /\ Top.oi = Top.ni
         /\ HasOld <=> HasNew
         /\ HasNew => /\ OldMatch = NewKid /\ NewMatch = OldKid
                      /\ OldMatch # None /\ NewMatch # None
                      /\ MatchAhead
<1>1. /\ IsTree(old) /\ IsTree(new) /\ Maps[pair[1]] = Mapped(old) /\ Maps[pair[2]] = Mapped(new)
      /\ nm \in [Mapped(new) -> Mapped(old) \cup {None}] /\ Mapped(old) \subseteq Ids(old)
      /\ None \notin Mapped(old) /\ None \notin Mapped(new) /\ TypeOK
  BY PairOfTrees, MappedClosed, NoneNotMapped DEF Matching, TypeOK
<1>2. PICK M : frames \in Seq(Calls(M))
  BY DEF OpenCalls
<1>3. /\ Top \in Calls(M) /\ OldLeft \in Seq(Maps[pair[1]]) /\ NewLeft \in Seq(Maps[pair[2]])
      /\ HasNew => NewKid \in Maps[pair[2]]
  BY <1>1, <1>2, TopKids
<1>4. 1 \in DOMAIN frames /\ Top = frames[1]
  BY <1>2, TailMembers DEF Top
<1>5. Top.oi = Top.ni /\ nm[Top.n] = Top.o
  BY <1>4 DEF Level
<1>6. Top.n \in DOMAIN nm /\ ~IsOpaque(new, Top.n) /\ Top.ni \in Nat \ {0} /\ Top.oi \in Nat \ {0}
  BY <1>1, <1>3 DEF Calls
<1>7. /\ Len(NewLeft) = Len(OldLeft)
      /\ \A i \in DOMAIN NewLeft : nm[NewLeft[i]] = OldLeft[i]
  BY <1>5, <1>6 DEF Mirrored, NewLeft, OldLeft
<1>8. HasOld <=> HasNew
  BY <1>5, <1>7 DEF HasOld, HasNew
<1>9. ASSUME HasNew
      PROVE  /\ OldMatch = NewKid /\ NewMatch = OldKid
             /\ OldMatch # None /\ NewMatch # None
             /\ MatchAhead
  <2>1. Top.ni \in DOMAIN NewLeft /\ Len(OldLeft) \in Nat
    <3>1. DOMAIN NewLeft = 1 .. Len(NewLeft) /\ Len(NewLeft) \in Nat /\ Len(OldLeft) \in Nat
      BY <1>3
    <3> QED
      BY <1>6, <1>9, <3>1 DEF HasNew
  <2>2. NewMatch = OldKid
    BY <1>5, <1>7, <2>1 DEF NewMatch, NewKid, OldKid
  <2>3. NewKid \in DOMAIN nm /\ NewKid # None
    BY <1>1, <1>3, <1>9
  <2>4. nm[NewKid] # None /\ om[nm[NewKid]] = NewKid
    BY <2>3 DEF Mirrored
  <2>5. OldMatch = NewKid
    BY <2>2, <2>4 DEF OldMatch, NewMatch
  <2>6. Top.oi \in Top.oi .. Len(OldLeft)
    BY <1>6, <1>8, <1>9, <2>1 DEF HasOld
  <2>7. MatchAhead
    BY <2>5, <2>6 DEF MatchAhead, OldMatch, OldKid
  <2> QED
    BY <2>2, <2>3, <2>4, <2>5, <2>7 DEF NewMatch
<1> QED
  BY <1>5, <1>8, <1>9

(***************************************************************************)
(* A pair that is kept, opaque or not, is all that a step can come to.     *)
(***************************************************************************)
LEMMA EqualMergeStep ==
  ASSUME Matching, Matching', OpenCalls, Carried, Mirrored, EqualMerged, MergeNext
  PROVE  EqualMerged'
<1>1. /\ phase = "merge" /\ phase' # "abort" /\ UNCHANGED matching /\ TypeOK
      /\ Unmarked(out) /\ Level(frames)
  BY MergePhase, MergeKeepsMatching DEF Matching, NoAbort, EqualMerged
<1>2. SUFFICES Unmarked(out') /\ (phase' = "merge" => Level(frames'))
  BY <1>1, <1>2 DEF EqualMerged, Unmarked, Level, matching
<1>3. CASE frames = <<>>
  <2>1. MergeRoots
    BY <1>3 DEF MergeNext, FlushOld, FlushOldDone, FlushNew, FlushNewDone,
       MergeTexts, NoTexts, InsertMoved, DeleteMoved, KeepOpaque, Keep, FlushTail, Return,
       MergeDone, Merging
  <2>2. /\ out' = <<Node(None, "none", Root, Root, NoWord)>>
        /\ frames' = <<Call(0, Root, Root)>> /\ nm[Root] = Root
    BY <1>1, <2>1 DEF MergeRoots, MAbort
  <2>3. Unmarked(out')
    BY <2>2 DEF Unmarked, Node
  <2>4. Level(frames')
    BY <2>2 DEF Level, Call
  <2> QED
    BY <2>3, <2>4
<1>4. CASE frames # <<>>
  <2>1. /\ Top.oi = Top.ni
        /\ HasOld <=> HasNew
        /\ HasNew => /\ OldMatch = NewKid /\ NewMatch = OldKid
                     /\ OldMatch # None /\ NewMatch # None
                     /\ MatchAhead
    BY <1>1, <1>4, LevelTop
  <2>2. Carries(out, frames, old, new) /\ (loop = "tail" => ~HasNew) /\ (loop = "pair" => HasNew)
    BY <1>1, <1>4 DEF Carried, OpenCalls
  <2>3. PICK M : frames \in Seq(Calls(M))
    BY <1>1 DEF OpenCalls
  <2>4. Top \in CallsOf(old, new) /\ nm[Top.n] = Top.o
    <3>1. 1 \in DOMAIN frames /\ Top = frames[1]
      BY <1>4, <2>3, TailMembers DEF Top
    <3> QED
      BY <1>1, <1>4, <2>2, <3>1, TopOf DEF Level
  <2>5. Tail(frames) \in Seq(Calls(M)) /\ Level(Tail(frames))
    BY <1>1, <1>4, <2>3, LevelTail
  <2>6. Past(1, 1) \in CallsOf(old, new) /\ Moved(Top, Past(1, 1), 1, 1)
    BY <2>4, PastMoved
  <2>7. Level(<<Past(1, 1)>> \o Tail(frames))
    <3> DEFINE g == Past(1, 1)
    <3>1. g.oi = g.ni /\ nm[g.n] = g.o
      BY <2>1, <2>4, <2>6 DEF Moved
    <3> HIDE DEF g
    <3>2. Level(<<g>> \o Tail(frames))
      BY <2>5, <3>1, LevelPut
    <3> QED
      BY <3>2 DEF g
  <2>8. out \in Seq(MNodes(old, new)) /\ Grown(out, old, new)
    BY <2>2 DEF Carries, Grown
  <2>9. /\ ~FlushOld /\ ~FlushNew /\ ~MergeTexts /\ ~FlushTail
        /\ ~InsertMoved /\ ~DeleteMoved
    <3>1. ~OldGone /\ ~NewCome /\ ~TextPair
      BY <2>1, Zenon DEF OldGone, NewCome, TextPair
    <3>2. ~FlushOld /\ ~FlushNew /\ ~MergeTexts
      BY <3>1, Zenon DEF FlushOld, FlushNew, MergeTexts
    <3>3. ~FlushTail
      BY <2>1, <2>2 DEF FlushTail, Merging
    <3>4. ~InsertMoved /\ ~DeleteMoved
      BY <2>1, <2>2 DEF InsertMoved, DeleteMoved, Merging
    <3> QED
      BY <3>2, <3>3, <3>4
  <2>10. CASE FlushOldDone \/ FlushNewDone \/ NoTexts
    BY <1>1, <2>10 DEF FlushOldDone, FlushNewDone, NoTexts
  <2>11. CASE KeepOpaque
    <3>1. /\ out' = out \o [CloneNew("none") EXCEPT ![1].o = OldKid]
          /\ frames' = <<Past(1, 1)>> \o Tail(frames) /\ HasOld /\ HasNew
      BY <1>1, <2>1, <2>2, <2>11 DEF KeepOpaque, MAbort, Merging
    <3> DEFINE s == SubTrees[pair[2]][NewKid]
               c == Clone(s, new, "n", Len(out), Top.m, "none", OldKid)
    <3>2. out' = out \o c
      BY <3>1, KeptClone
    <3>3. c \in Seq(MNodes(old, new))
      <4>1. Cloning(new, "n", old, new, out, NewKid, Top.m, "none", OldKid)
        BY <1>1, <1>4, <2>2, <2>8, <3>1, TopOf DEF Cloning
      <4>2. s = PreOrder(new)[NewKid]
        BY <1>1, PairOfDocs
      <4> HIDE DEF s
      <4> QED
        BY <4>1, <4>2, CloneType
    <3>4. Unmarked(c)
      BY DEF Unmarked, Clone, Node
    <3> HIDE DEF c
    <3>5. Unmarked(out \o c)
      BY <1>1, <2>8, <3>3, <3>4, UnmarkedJoin
    <3> QED
      BY <2>7, <3>1, <3>2, <3>5
  <2>12. CASE Keep
    <3>1. /\ out' = Append(out, Node(Top.m, "none", OldKid, NewKid, NoWord))
          /\ frames' = <<Call(Len(out), OldKid, NewKid)>> \o frames /\ nm[NewKid] = OldKid
      BY <1>1, <2>1, <2>2, <2>12 DEF Keep, MAbort, Merging, NewMatch
    <3>2. Unmarked(out')
      <4> DEFINE v == Node(Top.m, "none", OldKid, NewKid, NoWord)
      <4>1. v.chng = "none"
        BY DEF Node
      <4>2. out' = Append(out, v)
        BY <3>1
      <4> HIDE DEF v
      <4> QED
        BY <1>1, <2>8, <4>1, <4>2 DEF Unmarked
    <3>3. Level(frames')
      <4> DEFINE g == Call(Len(out), OldKid, NewKid)
      <4>1. g.oi = g.ni /\ nm[g.n] = g.o
        BY <3>1 DEF Call
      <4>2. frames' = <<g>> \o frames
        BY <3>1
      <4> HIDE DEF g
      <4> QED
        BY <1>1, <2>3, <4>1, <4>2, LevelPut
    <3> QED
      BY <3>2, <3>3
  <2>13. CASE Return
    <3> DEFINE g == [frames[2] EXCEPT !.oi = @ + 1, !.ni = @ + 1]
    <3>1. out' = out /\ Len(frames) > 1 /\ frames' = <<g>> \o Tail(Tail(frames))
      BY <2>13 DEF Return
    <3>2. 2 \in DOMAIN frames /\ frames[2] \in Calls(M) /\ Tail(frames) # <<>>
      BY <2>3, <3>1
    <3>3. frames[2].oi = frames[2].ni /\ nm[frames[2].n] = frames[2].o
      BY <1>1, <3>2 DEF Level
    <3>4. g.oi = g.ni /\ nm[g.n] = g.o
      BY <3>2, <3>3 DEF Calls
    <3> HIDE DEF g
    <3>5. Tail(Tail(frames)) \in Seq(Calls(M)) /\ Level(Tail(Tail(frames)))
      BY <2>5, <3>2, LevelTail
    <3>6. Level(<<g>> \o Tail(Tail(frames)))
      BY <3>4, <3>5, LevelPut
    <3> QED
      BY <1>1, <3>1, <3>6
  <2>14. CASE MergeDone
    BY <1>1, <2>14 DEF MergeDone
  <2>15. ~MergeRoots
    BY <1>4 DEF MergeRoots
  <2> QED
    BY <2>9, <2>10, <2>11, <2>12, <2>13, <2>14, <2>15 DEF MergeNext
<1> QED
  BY <1>3, <1>4

(***************************************************************************)
(* All of it, if the two documents are equal.                              *)
(***************************************************************************)
EqualInv == Equal => EqualMatched /\ EqualMerged /\ (phase \notin {"merge", "done"} => out = <<>>)

\* Equal documents are matched, and merged without a mark.
LEMMA EqualInvHolds == MSpec => [](Matching /\ EqualInv)
<1>1. MInit => EqualInv
  <2> SUFFICES ASSUME MInit PROVE EqualMatched /\ EqualMerged /\ out = <<>>
    BY DEF EqualInv
  <2>1. phase = "queue" /\ queue = <<Root>> /\ out = <<>>
    BY DEF MInit, Init
  <2>2. om[Root] = None /\ \A n \in DOMAIN nm : nm[n] = None
    <3>1. Root \in Maps[pair[1]]
      BY PairOfTrees, MappedClosed, TypeInit DEF MInit, TypeOK
    <3> QED
      BY <3>1 DEF MInit, Init
  <2> QED
    BY <2>1, <2>2 DEF EqualMatched, EqualMerged, Unmarked
<1>2. Matching /\ Matching' /\ OpenCalls /\ Merged /\ EqualInv /\ [MNext]_<<vars, mvars>> => EqualInv'
  <2> SUFFICES ASSUME Matching, Matching', OpenCalls, Merged, EqualInv, [MNext]_<<vars, mvars>>
               PROVE  EqualInv'
    OBVIOUS
  <2>1. pair' = pair
    BY MergeKeepsMatching, PairKept DEF MNext, Next, matching, vars
  <2>2. CASE ~Equal
    BY <2>1, <2>2 DEF EqualInv, Equal, Sigs, Docs
  <2>3. CASE Equal
    <3>1. EqualMatched /\ EqualMerged /\ (phase \notin {"merge", "done"} => out = <<>>)
      BY <2>3 DEF EqualInv
    <3>2. EqualMatched'
      BY <2>3, <3>1, EqualMatchedStep
    <3>3. CASE MergeNext
      <4>1. phase = "merge" /\ phase' \in {"merge", "done"}
        BY <3>3, MergePhase DEF Matching, NoAbort
      <4>2. Mirrored
        BY <3>1, <4>1 DEF EqualMatched
      <4>3. EqualMerged'
        BY <3>1, <3>3, <4>2, EqualMergeStep DEF Merged
      <4> QED
        BY <3>2, <4>1, <4>3 DEF EqualInv
    <3>4. CASE UNCHANGED <<vars, mvars>>
      <4>1. UNCHANGED <<out, frames, phase, nm>>
        BY <3>4 DEF vars, mvars
      <4> QED
        BY <3>1, <3>2, <4>1 DEF EqualInv, EqualMerged, Unmarked, Level
    <3>5. CASE MatchNext /\ UNCHANGED mvars
      <4>1. UNCHANGED <<out, frames>>
        BY <3>5 DEF mvars
      <4>2. phase \notin {"merge", "done"} /\ phase' # "done"
        BY <3>5 DEF MatchNext, Dequeue, Enqueue, EnqueueDone,
           MatchDown, MatchDownDone, MatchUp, MatchUpDone, MatchRoots,
           MatchHeaders, TopDown, TopDownDone, BottomUp, BottomUpDone, Abort
      <4>3. frames = <<>> /\ out = <<>>
        BY <3>1, <4>2 DEF OpenCalls, Matching, NoAbort
      <4> QED
        BY <3>2, <4>1, <4>3 DEF EqualInv, EqualMerged, Unmarked, Level
    <3> QED
      BY <3>3, <3>4, <3>5 DEF MNext, Returned
  <2> QED
    BY <2>2, <2>3
<1> QED
  BY <1>1, <1>2, MergedHolds, PTL DEF MSpec

(***************************************************************************)
(* For all trees, a document compared with its equal has no changes,       *)
(* whatever repeats in it: the roots match before anything else does, and  *)
(* the match of the roots is that of all nodes.                            *)
(***************************************************************************)
THEOREM EqualCorrect == MSpec => []EqualUnchanged
<1>1. EqualInv => EqualUnchanged
  BY DEF EqualInv, EqualUnchanged, Equal, EqualMerged, Unmarked
<1> QED
  BY <1>1, EqualInvHolds, PTL
===============================================================================
