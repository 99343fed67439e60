------------------------------ MODULE OnpProofs ------------------------------
(***************************************************************************)
(* Proof that diff() of src/diff/libdiff.c accesses nothing out of bounds, *)
(* for every two sequences of any length and whatever allocation fails.    *)
(***************************************************************************)
EXTENDS Onp, SequenceTheorems, WellFoundedInduction, TLAPS

-------------------------------------------------------------------------------
(***************************************************************************)
(* The inductive invariant.                                                *)
(***************************************************************************)

Points == [x : 0 .. Len(A), y : 0 .. Len(B), k : Int]

Diag(c) == c.y - c.x

\* What comes before the first point.
Origin == [x |-> 0, y |-> 0, k |-> None]

\* The point with the given index, or the origin.
PointAt(i) == IF i = None THEN Origin ELSE coords[i + 1]

\* Where along B the diagonal of b is entered, coming from a.
Entry(a, b) == IF Diag(a) = Diag(b) - 1 THEN a.y + 1 ELSE a.y

(***************************************************************************)
(* One step along B, one along A or none leads from a to the diagonal of   *)
(* b, and from there A and B are the same up to b.                         *)
(***************************************************************************)
Leads(a, b) ==
  /\ Diag(a) \in Diag(b) - 1 .. Diag(b) + 1
  /\ Entry(a, b) <= b.y
  /\ \A z \in Entry(a, b) .. b.y - 1 : Alike(Diag(b), z)

\* Every point is led to from the one it names, which was recorded earlier.
PointsLinked ==
  /\ coords \in Seq(Points)
  /\ \A i \in 1 .. Len(coords) :
       coords[i].k \in -1 .. i - 2 /\ Leads(PointAt(coords[i].k), coords[i])

Phases == {"low", "high", "mid"}

\* The diagonals that fp has room for.
Diagonals == -(Len(A) + 1) .. Len(B) + 1

\* Diagonal d was searched for the previous p.
Old(d) == p >= 1 /\ 1 - p <= d /\ d <= Delta + p - 1

\* Diagonal d has been searched for this p.
Fresh(d) ==
  /\ -p <= d /\ d <= Delta + p
  /\ IF pc = "low" THEN d < k ELSE d < Delta \/ d > k

\* How far along B and along A diagonal d has got.
Y(d) == fp[d + Offset]
X(d) == Y(d) - d

LoopBounds ==
  /\ p \in 0 .. Len(A)
  /\ pc = "low" => k \in -p .. Delta
  /\ pc = "high" => k \in Delta .. Delta + p
  /\ pc = "mid" => k = Delta

Arrays ==
  /\ fp \in [0 .. Size - 1 -> Int]
  /\ path \in [0 .. Size - 1 -> Int]

\* A diagonal that has been searched has got to the last point of its path.
Recorded(d) ==
  /\ path[d + Offset] \in 0 .. Len(coords) - 1
  /\ coords[path[d + Offset] + 1].y = Y(d)
  /\ coords[path[d + Offset] + 1].x = X(d)

Unsearched(d) == fp[d + Offset] = -1 /\ path[d + Offset] = None

AllRecorded ==
  \A d \in Diagonals : IF Old(d) \/ Fresh(d) THEN Recorded(d) ELSE Unsearched(d)

(***************************************************************************)
(* As Delta did not get to the end for the previous p, no diagonal below   *)
(* it got to the end of A, and none above it to the end of B.              *)
(***************************************************************************)
OldShort ==
  \A d \in Diagonals : Old(d) /\ ~Fresh(d) =>
    /\ d <= Delta => X(d) < Len(A)
    /\ d >= Delta => Y(d) < Len(B)

\* The nearer to Delta, the further along A below it and along B above it.
FreshOrdered ==
  \A c, d \in Diagonals : Fresh(c) /\ Fresh(d) /\ c <= d =>
    /\ d < Delta => X(c) <= X(d)
    /\ c > Delta => Y(d) <= Y(c)

SearchInv ==
  pc \in Phases =>
    /\ LoopBounds /\ Arrays /\ AllRecorded /\ OldShort /\ FreshOrdered

\* The points of epc are a path, last first, and the last is the end.
PathLinked ==
  /\ epc \in Seq(Points)
  /\ \A j \in 1 .. Len(epc) - 1 : Leads(epc[j + 1], epc[j])
  /\ Len(epc) > 0 => epc[1].x = Len(A) /\ epc[1].y = Len(B)

TraceInv ==
  pc = "trace" =>
    /\ PathLinked
    /\ r \in -1 .. Len(coords) - 1
    /\ IF Len(epc) > 0 THEN Leads(PointAt(r), epc[Len(epc)])
       ELSE r # None /\ PointAt(r).x = Len(A) /\ PointAt(r).y = Len(B)

\* The point of the path before its j-th.
Previous(j) == IF j = Len(epc) THEN Origin ELSE epc[j + 1]

\* What is written ends at a, or on the way from there to b.
OnTheWay(a, b) ==
  \/ px = a.x /\ py = a.y
  \/ py - px = Diag(b) /\ Entry(a, b) <= py /\ py <= b.y

WriteInv ==
  pc = "write" =>
    /\ PathLinked
    /\ Len(epc) > 0
    /\ Leads(Origin, epc[Len(epc)])
    /\ k \in 0 .. Len(epc)
    /\ px \in Int /\ py \in Int
    /\ IF k > 0 THEN OnTheWay(Previous(k), epc[k])
       ELSE px = Len(A) /\ py = Len(B)

NotYet ==
  /\ pc = "alloc" => p = 0 /\ k = 0 /\ coords = <<>>
  /\ pc \in Phases \cup {"alloc"} => epc = <<>>
  /\ pc \in Phases \cup {"alloc", "trace"} => px = 0 /\ py = 0
  /\ pc = "done" => px = Len(A) /\ py = Len(B)

IInv ==
  /\ input \in Inputs
  /\ PointsLinked
  /\ NotYet
  /\ SearchInv
  /\ TraceInv
  /\ WriteInv

-------------------------------------------------------------------------------
(***************************************************************************)
(* The sequences and the arrays.                                           *)
(***************************************************************************)

\* A is the shorter.
LEMMA Lengths ==
  ASSUME input \in Inputs
  PROVE  /\ Len(A) \in Nat /\ Len(B) \in Nat
         /\ Delta \in Nat /\ Delta = Len(B) - Len(A)
         /\ Offset = Len(A) + 1 /\ Size = Len(A) + Len(B) + 3
<1>1. input[1] \in Seq(Elements) /\ input[2] \in Seq(Elements)
  BY InputsOK
<1>2. Len(input[1]) \in Nat /\ Len(input[2]) \in Nat
  BY <1>1, LenProperties
<1> QED
  BY <1>2 DEF A, B, Swapped, Delta, Offset, Size

LEMMA LessWellFounded == IsWellFoundedOn({ss \in Nat \X Nat : ss[1] < ss[2]}, Nat)
BY NatLessThanWellFounded DEF OpToRel

\* There is a least element in a set of numbers.
LEMMA LeastOf ==
  ASSUME NEW T \in SUBSET Nat, T # {}
  PROVE  \E x \in T : \A y \in T : x <= y
<1> DEFINE R == {ss \in Nat \X Nat : ss[1] < ss[2]}
<1>1. IsWellFoundedOn(R, Nat)
  BY LessWellFounded
<1> HIDE DEF R
<1>2. T \subseteq Nat
  OBVIOUS
<1>3. PICK x \in T : \A y \in T : ~ (<<y, x>> \in R)
  BY <1>1, <1>2, WFMin
<1>4. \A y \in T : ~ (y < x)
  BY <1>3 DEF R
<1> QED
  BY <1>4

(***************************************************************************)
(* onp_snake() goes on from its start within the sequences, along elements *)
(* that are the same.                                                      *)
(***************************************************************************)
LEMMA SnakeEnds ==
  ASSUME input \in Inputs, NEW d \in Int,
         Start(d) \in 0 .. Len(B), Start(d) - d \in 0 .. Len(A)
  PROVE  /\ SnakeEnd(d) \in Start(d) .. Len(B)
         /\ SnakeEnd(d) - d \in 0 .. Len(A)
         /\ \A z \in Start(d) .. SnakeEnd(d) - 1 : Alike(d, z)
<1> DEFINE s == Start(d)
           T == {y \in s .. s + Len(B) : ~Alike(d, y)}
<1> HIDE DEF s
<1>1. s \in 0 .. Len(B) /\ s - d \in 0 .. Len(A) /\ Len(A) \in Nat /\ Len(B) \in Nat
  BY Lengths DEF s
<1>2. ~Alike(d, s + Len(B))
  BY <1>1 DEF Alike
<1>3. T # {} /\ T \in SUBSET Nat
  BY <1>1, <1>2
<1>4. PICK x \in T : \A y \in T : x <= y
  BY <1>3, LeastOf
<1>5. x \in s .. s + Len(B) /\ ~Alike(d, x)
  BY <1>4
<1>6. \A z \in s .. x - 1 : Alike(d, z)
  BY <1>1, <1>4, <1>5
<1>7. /\ SnakeEnd(d) \in s .. s + Len(B)
      /\ \A z \in s .. SnakeEnd(d) - 1 : Alike(d, z)
  BY <1>5, <1>6 DEF SnakeEnd, s
<1> DEFINE e == SnakeEnd(d)
<1> HIDE DEF e
<1>8. e \in s .. s + Len(B) /\ \A z \in s .. e - 1 : Alike(d, z)
  BY <1>7 DEF e
<1>9. e = s \/ Alike(d, e - 1)
  BY <1>1, <1>8
<1>10. e <= Len(B) /\ e - d <= Len(A)
  BY <1>1, <1>8, <1>9, SMTT(30) DEF Alike
<1> QED
  BY <1>1, <1>8, <1>10 DEF e, s

-------------------------------------------------------------------------------
(***************************************************************************)
(* The search: what the two neighbours of the diagonal searched next have  *)
(* got to.                                                                 *)
(***************************************************************************)

\* The diagonal searched next and its neighbours are in the arrays.
LEMMA InArrays ==
  ASSUME input \in Inputs, Searches, LoopBounds
  PROVE  /\ k \in Int /\ p \in 0 .. Len(A) /\ pc \in Phases
         /\ -p <= k /\ k <= Delta + p
         /\ k - 1 \in Diagonals /\ k \in Diagonals /\ k + 1 \in Diagonals
<1>1. /\ Len(A) \in Nat /\ Len(B) \in Nat /\ Delta \in Nat
      /\ Delta = Len(B) - Len(A)
  BY Lengths
<1>2. k \in Int /\ -p <= k /\ k <= Delta + p /\ p \in 0 .. Len(A) /\ pc \in Phases
  BY <1>1 DEF Searches, LoopBounds, Phases
<1> QED
  BY <1>1, <1>2 DEF Diagonals

\* The places of the diagonals are distinct ones in the arrays.
LEMMA Places ==
  ASSUME input \in Inputs, NEW d \in Diagonals
  PROVE  d \in Int /\ d + Offset \in 0 .. Size - 1
BY Lengths DEF Diagonals

\* A searched diagonal has got to a point within the sequences.
LEMMA RecordedInside ==
  ASSUME input \in Inputs, PointsLinked, NEW d \in Int, Recorded(d), Y(d) \in Int
  PROVE  /\ Y(d) \in 0 .. Len(B) /\ X(d) \in 0 .. Len(A) /\ X(d) = Y(d) - d
         /\ path[d + Offset] \in 0 .. Len(coords) - 1
         /\ PointAt(path[d + Offset]).y = Y(d)
         /\ Diag(PointAt(path[d + Offset])) = d
         /\ PointAt(path[d + Offset]) \in Points
<1> DEFINE i == path[d + Offset]
<1> HIDE DEF i
<1>1. i \in 0 .. Len(coords) - 1 /\ coords[i + 1].y = Y(d) /\ coords[i + 1].x = X(d)
  BY DEF Recorded, i
<1>2. coords \in Seq(Points)
  BY DEF PointsLinked
<1>3. Len(coords) \in Nat
  BY <1>2, LenProperties
<1>4. i + 1 \in 1 .. Len(coords) /\ i # None
  BY <1>1, <1>3 DEF None
<1>5. coords[i + 1] \in Points /\ PointAt(i) = coords[i + 1]
  BY <1>2, <1>4, ElementOfSeq DEF PointAt
<1>6. /\ coords[i + 1].y \in 0 .. Len(B) /\ coords[i + 1].x \in 0 .. Len(A)
  BY <1>5 DEF Points
<1>7. Len(A) \in Nat /\ Len(B) \in Nat
  BY Lengths
<1> QED
  BY <1>1, <1>5, <1>6, <1>7 DEF i, X, Diag

\* The neighbour below A's side, where there is one.
LEMMA AboveInside ==
  ASSUME input \in Inputs, Searches, PointsLinked, LoopBounds, Arrays,
         AllRecorded, OldShort, Old(k - 1) \/ Fresh(k - 1)
  PROVE  /\ Above(k) \in 0 .. Len(B) /\ Above(k) - k \in 0 .. Len(A)
         /\ Above(k) = Y(k - 1) + 1 /\ Above(k) - k = X(k - 1)
         /\ path[k - 1 + Offset] \in 0 .. Len(coords) - 1
         /\ PointAt(path[k - 1 + Offset]).y + 1 = Above(k)
         /\ Diag(PointAt(path[k - 1 + Offset])) = k - 1
<1>1. /\ Len(A) \in Nat /\ Len(B) \in Nat /\ Delta \in Nat
      /\ Delta = Len(B) - Len(A)
  BY Lengths
<1>2. k \in Int /\ k - 1 \in Diagonals /\ pc \in Phases /\ p \in 0 .. Len(A)
  BY InArrays
<1>3. k - 1 \in Int /\ Y(k - 1) \in Int
  BY <1>2, Places DEF Y, Arrays
<1>4. Recorded(k - 1)
  BY <1>2 DEF AllRecorded
<1>5. /\ Y(k - 1) \in 0 .. Len(B) /\ X(k - 1) \in 0 .. Len(A)
      /\ X(k - 1) = Y(k - 1) - (k - 1)
      /\ path[k - 1 + Offset] \in 0 .. Len(coords) - 1
      /\ PointAt(path[k - 1 + Offset]).y = Y(k - 1)
      /\ Diag(PointAt(path[k - 1 + Offset])) = k - 1
  BY <1>3, <1>4, RecordedInside
<1>6. Above(k) = Y(k - 1) + 1
  BY DEF Above, Y
<1>7. ASSUME k > Delta
      PROVE  Y(k - 1) < Len(B)
  <2>1. pc = "high" /\ ~Fresh(k - 1)
    BY <1>1, <1>2, <1>7 DEF Fresh, Searches, LoopBounds
  <2> QED
    BY <2>1, <1>1, <1>2, <1>7 DEF OldShort
<1> QED
  BY <1>1, <1>2, <1>5, <1>6, <1>7, SMTT(30)

LEMMA BelowInside ==
  ASSUME input \in Inputs, Searches, PointsLinked, LoopBounds, Arrays,
         AllRecorded, OldShort, Old(k + 1) \/ Fresh(k + 1)
  PROVE  /\ Below(k) \in 0 .. Len(B) /\ Below(k) - k \in 0 .. Len(A)
         /\ Below(k) = Y(k + 1) /\ Below(k) - k = X(k + 1) + 1
         /\ path[k + 1 + Offset] \in 0 .. Len(coords) - 1
         /\ PointAt(path[k + 1 + Offset]).y = Below(k)
         /\ Diag(PointAt(path[k + 1 + Offset])) = k + 1
<1>1. /\ Len(A) \in Nat /\ Len(B) \in Nat /\ Delta \in Nat
      /\ Delta = Len(B) - Len(A)
  BY Lengths
<1>2. k \in Int /\ k + 1 \in Diagonals /\ pc \in Phases /\ p \in 0 .. Len(A)
  BY InArrays
<1>3. k + 1 \in Int /\ Y(k + 1) \in Int
  BY <1>2, Places DEF Y, Arrays
<1>4. Recorded(k + 1)
  BY <1>2 DEF AllRecorded
<1>5. /\ Y(k + 1) \in 0 .. Len(B) /\ X(k + 1) \in 0 .. Len(A)
      /\ X(k + 1) = Y(k + 1) - (k + 1)
      /\ path[k + 1 + Offset] \in 0 .. Len(coords) - 1
      /\ PointAt(path[k + 1 + Offset]).y = Y(k + 1)
      /\ Diag(PointAt(path[k + 1 + Offset])) = k + 1
  BY <1>3, <1>4, RecordedInside
<1>6. Below(k) = Y(k + 1)
  BY DEF Below, Y
<1>7. ASSUME k < Delta
      PROVE  X(k + 1) < Len(A)
  <2>1. pc = "low" /\ ~Fresh(k + 1)
    BY <1>1, <1>2, <1>7 DEF Fresh, Searches, LoopBounds, Phases
  <2> QED
    BY <2>1, <1>1, <1>2, <1>7 DEF OldShort
<1> QED
  BY <1>1, <1>2, <1>5, <1>6, <1>7

\* One step leads from a to the point of diagonal d that is y along B.
Adjacent(a, d, y) ==
  \/ Diag(a) = d - 1 /\ y = a.y + 1
  \/ Diag(a) = d + 1 /\ y = a.y
  \/ Diag(a) = d /\ y = a.y

(***************************************************************************)
(* onp_snake() starts within the sequences, one step from the point that   *)
(* it records as the one before, or at the origin.                         *)
(***************************************************************************)
LEMMA StartInside ==
  ASSUME input \in Inputs, Searches, PointsLinked, LoopBounds, Arrays,
         AllRecorded, OldShort
  PROVE  /\ Start(k) \in 0 .. Len(B) /\ Start(k) - k \in 0 .. Len(A)
         /\ From(k) \in -1 .. Len(coords) - 1
         /\ Adjacent(PointAt(From(k)), k, Start(k))
         /\ Above(k) <= Start(k) /\ Below(k) <= Start(k)
<1>1. /\ Len(A) \in Nat /\ Len(B) \in Nat /\ Delta \in Nat
      /\ Delta = Len(B) - Len(A) /\ Len(coords) \in Nat
  <2>1. Len(coords) \in Nat
    BY LenProperties DEF PointsLinked
  <2> QED
    BY <2>1, Lengths
<1>2. /\ k \in Int /\ k - 1 \in Diagonals /\ k + 1 \in Diagonals
      /\ pc \in Phases /\ p \in 0 .. Len(A) /\ -p <= k /\ k <= Delta + p
  BY InArrays
<1> DEFINE above == Old(k - 1) \/ Fresh(k - 1)
           below == Old(k + 1) \/ Fresh(k + 1)
<1>3. ASSUME ~above
      PROVE  /\ Above(k) = 0 /\ path[k - 1 + Offset] = None
             /\ 0 - k \in 0 .. Len(A) /\ k \in {0, -p}
  <2>1. Unsearched(k - 1)
    BY <1>2, <1>3 DEF AllRecorded
  <2>2. Above(k) = 0 /\ path[k - 1 + Offset] = None
    BY <2>1 DEF Unsearched, Above
  <2>3. ~Old(k - 1) /\ ~Fresh(k - 1)
    BY <1>3
  <2>4. k = -p \/ (k = 0 /\ p = 0)
    BY <2>3, <1>1, <1>2 DEF Old, Fresh, Searches, LoopBounds
  <2> QED
    BY <2>2, <2>4, <1>1, <1>2
<1>4. ASSUME ~below
      PROVE  Below(k) = -1
  <2>1. Unsearched(k + 1)
    BY <1>2, <1>4 DEF AllRecorded
  <2> QED
    BY <2>1 DEF Unsearched, Below
<1>5. ASSUME ~above, ~below
      PROVE  k = 0
  <2>1. ~Old(k + 1) /\ k \in {0, -p}
    BY <1>5, <1>3
  <2>2. p = 0 \/ k = 0
    BY <2>1, <1>1, <1>2 DEF Old
  <2> QED
    BY <2>1, <2>2, <1>2
<1>6. CASE above /\ Above(k) > Below(k)
  <2>1. Start(k) = Above(k) /\ From(k) = path[k - 1 + Offset]
    BY <1>6 DEF Start, From
  <2>2. /\ Above(k) \in 0 .. Len(B) /\ Above(k) - k \in 0 .. Len(A)
        /\ path[k - 1 + Offset] \in 0 .. Len(coords) - 1
        /\ PointAt(path[k - 1 + Offset]).y + 1 = Above(k)
        /\ Diag(PointAt(path[k - 1 + Offset])) = k - 1
    BY <1>6, AboveInside
  <2>3. Below(k) \in Int
    BY <1>2, Places DEF Below, Arrays
  <2>4. Adjacent(PointAt(From(k)), k, Start(k))
    BY <2>1, <2>2 DEF Adjacent
  <2> QED
    BY <2>1, <2>2, <2>3, <2>4, <1>1, <1>2, <1>6, SMTT(30)
<1>7. CASE below /\ ~(Above(k) > Below(k))
  <2>1. Start(k) = Below(k) /\ From(k) = path[k + 1 + Offset]
    BY <1>7 DEF Start, From
  <2>2. /\ Below(k) \in 0 .. Len(B) /\ Below(k) - k \in 0 .. Len(A)
        /\ path[k + 1 + Offset] \in 0 .. Len(coords) - 1
        /\ PointAt(path[k + 1 + Offset]).y = Below(k)
        /\ Diag(PointAt(path[k + 1 + Offset])) = k + 1
    BY <1>7, BelowInside
  <2>3. Above(k) \in Int
    BY <1>2, Places DEF Above, Arrays
  <2>4. Adjacent(PointAt(From(k)), k, Start(k))
    BY <2>1, <2>2 DEF Adjacent
  <2> QED
    BY <2>1, <2>2, <2>3, <2>4, <1>1, <1>2, <1>7, SMTT(30)
<1>8. CASE ~above /\ Above(k) > Below(k)
  <2>1. Start(k) = 0 /\ From(k) = None /\ Below(k) < 0
    BY <1>3, <1>8, <1>2, Places DEF Start, From, Arrays, Below
  <2>2. ~below
    BY <2>1, BelowInside, <1>1
  <2>3. k = 0
    BY <1>5, <1>8, <2>2
  <2>4. PointAt(From(k)).y = 0 /\ Diag(PointAt(From(k))) = 0
    BY <2>1 DEF PointAt, Origin, Diag
  <2>5. Adjacent(PointAt(From(k)), k, Start(k))
    BY <2>1, <2>3, <2>4 DEF Adjacent
  <2>6. Below(k) \in Int /\ Above(k) = 0
    BY <1>2, <1>3, <1>8, Places DEF Below, Arrays
  <2> QED
    BY <2>1, <2>3, <2>5, <2>6, <1>1 DEF None
<1>9. CASE ~below /\ ~(Above(k) > Below(k))
  <2>1. Above(k) \in Nat
    BY <1>1, <1>3, AboveInside
  <2> QED
    BY <2>1, <1>4, <1>9
<1> QED
  BY <1>6, <1>7, <1>8, <1>9

LEMMA Unmoved ==
  ASSUME input' = input
  PROVE  /\ A' = A /\ B' = B /\ Delta' = Delta /\ Offset' = Offset
         /\ Size' = Size /\ Points' = Points /\ Diagonals' = Diagonals
BY DEF A, B, Swapped, Delta, Offset, Size, Points, Diagonals

\* The point that is recorded is within the sequences, and led to.
LEMMA SnakePoint ==
  ASSUME input \in Inputs, Searches, PointsLinked, LoopBounds, Arrays,
         AllRecorded, OldShort,
         NEW c, c = [x |-> SnakeEnd(k) - k, y |-> SnakeEnd(k), k |-> From(k)]
  PROVE  /\ c \in Points /\ c.k \in -1 .. Len(coords) - 1
         /\ Leads(PointAt(c.k), c)
         /\ SnakeEnd(k) \in Start(k) .. Len(B)
<1> DEFINE a == PointAt(From(k))
           e == SnakeEnd(k)
           s == Start(k)
<1> HIDE DEF a, e, s
<1>1. /\ s \in 0 .. Len(B) /\ s - k \in 0 .. Len(A)
      /\ From(k) \in -1 .. Len(coords) - 1
      /\ Adjacent(a, k, s)
  BY StartInside DEF a, s
<1>2. k \in Int /\ Len(A) \in Nat /\ Len(B) \in Nat /\ Len(coords) \in Nat
  <2>1. Len(coords) \in Nat
    BY LenProperties DEF PointsLinked
  <2> QED
    BY <2>1, InArrays, Lengths
<1>3. e \in s .. Len(B) /\ e - k \in 0 .. Len(A) /\ \A z \in s .. e - 1 : Alike(k, z)
  BY <1>1, <1>2, SnakeEnds DEF e, s
<1>4. c.x = e - k /\ c.y = e /\ c.k = From(k)
  BY DEF e
<1>5. c \in Points
  BY <1>1, <1>2, <1>3 DEF Points, e
<1>6. Diag(c) = k
  BY <1>2, <1>3, <1>4 DEF Diag
<1>7. Diag(a) \in k - 1 .. k + 1 /\ Entry(a, c) = s
  BY <1>1, <1>2, <1>6 DEF Adjacent, Entry
<1>8. Leads(a, c)
  BY <1>3, <1>4, <1>6, <1>7 DEF Leads
<1> QED
  BY <1>1, <1>3, <1>4, <1>5, <1>8 DEF a, e, s

(***************************************************************************)
(* With the point recorded, every one is still led to.                     *)
(***************************************************************************)
LEMMA SnakeLinks ==
  ASSUME input \in Inputs, Searches, PointsLinked, LoopBounds, Arrays,
         AllRecorded, OldShort, Snake(k), input' = input
  PROVE  /\ PointsLinked'
         /\ Len(coords') = Len(coords) + 1 /\ Len(coords) \in Nat
         /\ \A i \in 1 .. Len(coords) : coords'[i] = coords[i]
         /\ coords'[Len(coords) + 1].y = SnakeEnd(k)
         /\ coords'[Len(coords) + 1].x = SnakeEnd(k) - k
<1> DEFINE c == [x |-> SnakeEnd(k) - k, y |-> SnakeEnd(k), k |-> From(k)]
           n == Len(coords)
<1>0. c.y = SnakeEnd(k) /\ c.x = SnakeEnd(k) - k
  OBVIOUS
<1>1. coords' = Append(coords, c)
  BY DEF Snake
<1> HIDE DEF c
<1>2. c \in Points /\ c.k \in -1 .. n - 1 /\ Leads(PointAt(c.k), c)
  BY SnakePoint DEF c
<1>3. coords \in Seq(Points)
  BY DEF PointsLinked
<1>4. n \in Nat
  BY <1>3, LenProperties
<1>5. /\ coords' \in Seq(Points) /\ Len(coords') = n + 1
      /\ coords'[n + 1] = c
      /\ \A i \in 1 .. n : coords'[i] = coords[i]
  BY <1>1, <1>2, <1>3, AppendProperties
<1> HIDE DEF n
<1>6. A' = A /\ B' = B /\ Points' = Points
  BY Unmoved
<1>7. \A j \in -1 .. n - 1 : PointAt(j)' = PointAt(j)
  BY <1>4, <1>5 DEF PointAt, None
<1>8. ASSUME NEW i \in 1 .. n + 1
      PROVE  (coords[i].k \in -1 .. i - 2 /\ Leads(PointAt(coords[i].k), coords[i]))'
  <2>1. PICK b : b = coords'[i]
    OBVIOUS
  <2>2. b.k \in -1 .. i - 2 /\ Leads(PointAt(b.k), b)
    <3>1. CASE i = n + 1
      BY <3>1, <2>1, <1>2, <1>4, <1>5
    <3>2. CASE i # n + 1
      <4>1. i \in 1 .. n
        BY <3>2, <1>4
      <4> QED
        BY <4>1, <2>1, <1>5 DEF PointsLinked, n
    <3> QED
      BY <3>1, <3>2
  <2>3. PICK a : a = PointAt(b.k)
    OBVIOUS
  <2>4. a = PointAt(coords[i].k)'
    <3>1. b.k \in -1 .. n - 1
      BY <2>2, <1>4
    <3> QED
      BY <3>1, <2>1, <2>3, <1>5, <1>4 DEF PointAt, None
  <2>5. Leads(a, b)
    BY <2>2, <2>3
  <2>6. Leads(PointAt(coords[i].k), coords[i])'
    BY <2>1, <2>4, <2>5, <1>6 DEF Leads, Entry, Diag, Alike
  <2> QED
    BY <2>1, <2>2, <2>6
<1> QED
  BY <1>0, <1>4, <1>5, <1>6, <1>8 DEF PointsLinked, n

(***************************************************************************)
(* Diagonal k gets no less far than its neighbours lead; the other         *)
(* diagonals stay where they are.                                          *)
(***************************************************************************)
LEMMA SnakeMoves ==
  ASSUME input \in Inputs, Searches, PointsLinked, LoopBounds, Arrays,
         AllRecorded, OldShort, Snake(k), input' = input
  PROVE  /\ Arrays'
         /\ \A d \in Diagonals : d = k =>
              /\ Recorded(d)'
              /\ Y(d)' \in 0 .. Len(B) /\ X(d)' \in 0 .. Len(A)
              /\ X(d)' = Y(d)' - d
              /\ Above(k) <= Y(d)' /\ Below(k) <= Y(d)'
         /\ \A d \in Diagonals : d # k =>
              /\ Y(d)' = Y(d) /\ X(d)' = X(d)
              /\ Recorded(d) => Recorded(d)'
              /\ Unsearched(d) => Unsearched(d)'
<1> DEFINE e == SnakeEnd(k)
           n == Len(coords)
<1>1. /\ fp' = [fp EXCEPT ![k + Offset] = e]
      /\ path' = [path EXCEPT ![k + Offset] = n]
  BY DEF Snake
<1>2. /\ Len(A) \in Nat /\ Len(B) \in Nat /\ Offset \in Int
      /\ k \in Diagonals /\ k \in Int /\ k + Offset \in 0 .. Size - 1
  BY InArrays, Lengths, Places
<1>3. /\ Start(k) \in 0 .. Len(B) /\ Start(k) - k \in 0 .. Len(A)
      /\ Above(k) <= Start(k) /\ Below(k) <= Start(k)
  BY StartInside
<1>4. e \in Start(k) .. Len(B) /\ e - k \in 0 .. Len(A)
  BY <1>2, <1>3, SnakeEnds
<1>5. /\ Len(coords') = n + 1 /\ n \in Nat
      /\ \A i \in 1 .. n : coords'[i] = coords[i]
      /\ coords'[n + 1].y = e
      /\ coords'[n + 1].x = e - k
  BY SnakeLinks
<1>6. Above(k) \in Int /\ Below(k) \in Int
  BY InArrays, Places, SMTT(30) DEF Above, Below, Arrays
<1> HIDE DEF e, n
<1>7. Offset' = Offset /\ Size' = Size
  BY Unmoved
<1>8. Arrays'
  BY <1>1, <1>2, <1>3, <1>4, <1>5, <1>7 DEF Arrays
<1>9. ASSUME NEW d \in Diagonals, d = k
      PROVE  /\ Recorded(d)'
             /\ Y(d)' \in 0 .. Len(B) /\ X(d)' \in 0 .. Len(A)
             /\ X(d)' = Y(d)' - d
             /\ Above(k) <= Y(d)' /\ Below(k) <= Y(d)'
  <2>1. fp'[d + Offset] = e /\ path'[d + Offset] = n
    BY <1>1, <1>2, <1>9 DEF Arrays
  <2>2. Y(d)' = e /\ X(d)' = e - d
    BY <2>1, <1>7 DEF X, Y
  <2>3. Recorded(d)'
    BY <2>1, <2>2, <1>5, <1>7, <1>9 DEF Recorded
  <2> QED
    BY <2>2, <2>3, <1>2, <1>3, <1>4, <1>6, <1>9
<1>10. ASSUME NEW d \in Diagonals, d # k
       PROVE  /\ Y(d)' = Y(d) /\ X(d)' = X(d)
              /\ Recorded(d) => Recorded(d)'
              /\ Unsearched(d) => Unsearched(d)'
  <2>1. d \in Int /\ d + Offset \in 0 .. Size - 1 /\ d + Offset # k + Offset
    BY <1>2, <1>10, Places
  <2>2. fp'[d + Offset] = fp[d + Offset] /\ path'[d + Offset] = path[d + Offset]
    BY <2>1, <1>1 DEF Arrays
  <2>3. Y(d)' = Y(d) /\ X(d)' = X(d)
    BY <2>2, <1>7 DEF X, Y
  <2>4. Recorded(d) => Recorded(d)'
    <3>1. ASSUME Recorded(d)
          PROVE  Recorded(d)'
      <4>1. path[d + Offset] \in 0 .. n - 1
        BY <3>1 DEF Recorded, n
      <4>2. /\ path[d + Offset] + 1 \in 1 .. n
            /\ path'[d + Offset'] \in 0 .. Len(coords') - 1
        BY <4>1, <2>2, <1>5, <1>7
      <4>3. coords'[path'[d + Offset'] + 1] = coords[path[d + Offset] + 1]
        BY <4>2, <2>2, <1>5, <1>7
      <4> QED
        BY <3>1, <4>2, <4>3, <2>3 DEF Recorded
    <3> QED
      BY <3>1
  <2>5. Unsearched(d) => Unsearched(d)'
    BY <2>2, <1>7 DEF Unsearched
  <2> QED
    BY <2>3, <2>4, <2>5
<1> QED
  BY <1>8, <1>9, <1>10

-------------------------------------------------------------------------------
(***************************************************************************)
(* The search: its invariant is kept by every diagonal.                    *)
(***************************************************************************)

\* After a diagonal below Delta or above it, what has been searched.
LEMMA SideRecorded ==
  ASSUME input \in Inputs, Searches, PointsLinked, LoopBounds, Arrays,
         AllRecorded, OldShort, Snake(k), input' = input, p' = p,
         \A d \in Diagonals : Fresh(d)' <=> Fresh(d) \/ d = k
  PROVE  AllRecorded' /\ OldShort'
<1>1. Diagonals' = Diagonals /\ Delta' = Delta /\ A' = A /\ B' = B
  BY Unmoved
<1>2. \A d \in Diagonals : Old(d)' <=> Old(d)
  BY <1>1 DEF Old
<1>3. /\ \A d \in Diagonals : d = k => Recorded(d)'
      /\ \A d \in Diagonals : d # k =>
           /\ Y(d)' = Y(d) /\ X(d)' = X(d)
           /\ Recorded(d) => Recorded(d)'
           /\ Unsearched(d) => Unsearched(d)'
  BY SnakeMoves
<1>4. ASSUME NEW d \in Diagonals
      PROVE  IF Old(d)' \/ Fresh(d)' THEN Recorded(d)' ELSE Unsearched(d)'
  BY <1>2, <1>3 DEF AllRecorded
<1>5. ASSUME NEW d \in Diagonals, Old(d)', ~Fresh(d)'
      PROVE  /\ d <= Delta => X(d)' < Len(A)
             /\ d >= Delta => Y(d)' < Len(B)
  BY <1>2, <1>3, <1>5 DEF OldShort
<1>6. AllRecorded'
  BY <1>1, <1>4 DEF AllRecorded
<1>7. OldShort'
  BY <1>1, <1>5 DEF OldShort
<1> QED
  BY <1>6, <1>7

LEMMA LowSearched ==
  ASSUME input \in Inputs, PointsLinked, LoopBounds, Arrays, AllRecorded,
         OldShort, FreshOrdered, Low
  PROVE  LoopBounds' /\ Arrays' /\ AllRecorded' /\ OldShort' /\ FreshOrdered'
<1>1. /\ pc = "low" /\ pc' = "low" /\ k <= Delta - 1 /\ k' = k + 1
      /\ Snake(k) /\ input' = input /\ p' = p /\ Searches
  BY DEF Low, Searches
<1>2. /\ Len(A) \in Nat /\ Len(B) \in Nat /\ Delta \in Nat
      /\ k \in -p .. Delta /\ p \in 0 .. Len(A) /\ k \in Int
      /\ k - 1 \in Diagonals
  BY <1>1, Lengths, InArrays DEF LoopBounds
<1>3. Diagonals' = Diagonals /\ Delta' = Delta /\ A' = A /\ B' = B
  BY <1>1, Unmoved
<1>4. \A d \in Diagonals : Fresh(d)' <=> Fresh(d) \/ d = k
  <2>1. \A d \in Diagonals : d \in Int
    BY Places
  <2> QED
    BY <2>1, <1>1, <1>2, <1>3 DEF Fresh
<1>5. LoopBounds'
  BY <1>1, <1>2, <1>3 DEF LoopBounds
<1>6. AllRecorded' /\ OldShort'
  BY <1>1, <1>4, SideRecorded
<1>7. /\ Arrays'
      /\ \A d \in Diagonals : d = k => X(d)' = Y(d)' - d /\ Above(k) <= Y(d)'
                                       /\ Y(d)' \in 0 .. Len(B)
      /\ \A d \in Diagonals : d # k => Y(d)' = Y(d) /\ X(d)' = X(d)
  BY <1>1, SnakeMoves
<1>8. ASSUME NEW c \in Diagonals, NEW d \in Diagonals,
             Fresh(c)', Fresh(d)', c <= d
      PROVE  /\ d < Delta => X(c)' <= X(d)'
             /\ c > Delta => Y(d)' <= Y(c)'
  <2>1. c \in Int /\ d \in Int
    BY Places
  <2>2. ~(c > Delta)
    BY <2>1, <1>1, <1>2, <1>3, <1>8 DEF Fresh
  <2>3. CASE c # k /\ d # k
    BY <2>3, <1>4, <1>7, <1>8 DEF FreshOrdered
  <2>4. CASE c = k
    <3>1. d = k
      BY <2>1, <2>4, <1>1, <1>2, <1>3, <1>8 DEF Fresh
    <3> QED
      BY <2>2, <2>4, <3>1, <1>2, <1>7
  <2>5. CASE d = k /\ c # k
    <3>1. Fresh(c) /\ c <= k - 1
      BY <2>1, <2>5, <1>2, <1>4, <1>8
    <3>2. Fresh(k - 1) /\ k - 1 < Delta
      BY <3>1, <2>1, <1>1, <1>2 DEF Fresh
    <3>3. X(c) <= X(k - 1)
      BY <3>1, <3>2, <1>2 DEF FreshOrdered
    <3>4. Above(k) - k = X(k - 1) /\ Above(k) \in Int /\ X(k - 1) \in Int
      BY <3>2, <1>1, <1>2, AboveInside
    <3>5. Recorded(c) /\ Y(c) \in Int
      BY <3>1, Places DEF AllRecorded, Arrays, Y
    <3>6. X(c) \in Int
      BY <2>1, <3>5 DEF X
    <3> QED
      BY <2>2, <2>5, <3>3, <3>4, <3>6, <1>2, <1>7
  <2> QED
    BY <2>3, <2>4, <2>5
<1>9. FreshOrdered'
  BY <1>3, <1>8 DEF FreshOrdered
<1> QED
  BY <1>5, <1>6, <1>7, <1>9

LEMMA HighSearched ==
  ASSUME input \in Inputs, PointsLinked, LoopBounds, Arrays, AllRecorded,
         OldShort, FreshOrdered, High
  PROVE  LoopBounds' /\ Arrays' /\ AllRecorded' /\ OldShort' /\ FreshOrdered'
<1>1. /\ pc = "high" /\ pc' = "high" /\ k >= Delta + 1 /\ k' = k - 1
      /\ Snake(k) /\ input' = input /\ p' = p /\ Searches
  BY DEF High, Searches
<1>2. /\ Len(A) \in Nat /\ Len(B) \in Nat /\ Delta \in Nat
      /\ k \in Delta .. Delta + p /\ p \in 0 .. Len(A) /\ k \in Int
      /\ k + 1 \in Diagonals
  BY <1>1, Lengths, InArrays DEF LoopBounds
<1>3. Diagonals' = Diagonals /\ Delta' = Delta /\ A' = A /\ B' = B
  BY <1>1, Unmoved
<1>4. \A d \in Diagonals : Fresh(d)' <=> Fresh(d) \/ d = k
  <2>1. \A d \in Diagonals : d \in Int
    BY Places
  <2> QED
    BY <2>1, <1>1, <1>2, <1>3 DEF Fresh
<1>5. LoopBounds'
  BY <1>1, <1>2, <1>3 DEF LoopBounds
<1>6. AllRecorded' /\ OldShort'
  BY <1>1, <1>4, SideRecorded
<1>7. /\ Arrays'
      /\ \A d \in Diagonals : d = k => Below(k) <= Y(d)' /\ Y(d)' \in 0 .. Len(B)
      /\ \A d \in Diagonals : d # k => Y(d)' = Y(d) /\ X(d)' = X(d)
  BY <1>1, SnakeMoves
<1>8. ASSUME NEW c \in Diagonals, NEW d \in Diagonals,
             Fresh(c)', Fresh(d)', c <= d
      PROVE  /\ d < Delta => X(c)' <= X(d)'
             /\ c > Delta => Y(d)' <= Y(c)'
  <2>1. c \in Int /\ d \in Int
    BY Places
  <2>2. CASE c # k /\ d # k
    BY <2>2, <1>4, <1>7, <1>8 DEF FreshOrdered
  <2>3. CASE d = k
    <3>1. ~(d < Delta)
      BY <2>3, <1>1, <1>2
    <3>2. c > Delta => c = k
      BY <2>1, <2>3, <1>1, <1>2, <1>3, <1>8 DEF Fresh
    <3> QED
      BY <2>3, <3>1, <3>2, <1>7
  <2>4. CASE c = k /\ d # k
    <3>1. Fresh(d) /\ d >= k + 1 /\ ~(d < Delta)
      BY <2>1, <2>4, <1>1, <1>2, <1>4, <1>8
    <3>2. Fresh(k + 1) /\ k + 1 > Delta
      BY <3>1, <2>1, <1>1, <1>2 DEF Fresh
    <3>3. Y(d) <= Y(k + 1)
      BY <3>1, <3>2, <1>2 DEF FreshOrdered
    <3>4. Below(k) = Y(k + 1) /\ Below(k) \in Int
      BY <3>2, <1>1, <1>2, BelowInside
    <3>5. Y(d) \in Int
      BY Places DEF Arrays, Y
    <3> QED
      BY <2>4, <3>1, <3>3, <3>4, <3>5, <1>2, <1>7
  <2> QED
    BY <2>2, <2>3, <2>4
<1>9. FreshOrdered'
  BY <1>3, <1>8 DEF FreshOrdered
<1> QED
  BY <1>5, <1>6, <1>7, <1>9

(***************************************************************************)
(* When Delta does not get to the end, p is less than the length of A, and *)
(* all of the diagonals are short of the end.                              *)
(***************************************************************************)
LEMMA MidShort ==
  ASSUME input \in Inputs, PointsLinked, LoopBounds, Arrays, AllRecorded,
         OldShort, FreshOrdered, pc = "mid", Snake(k), input' = input,
         \A d \in Diagonals : d = k => Y(d)' # Len(B)
  PROVE  /\ p < Len(A)
         /\ \A d \in Diagonals : Fresh(d) \/ d = k =>
              /\ d <= Delta => X(d)' < Len(A)
              /\ d >= Delta => Y(d)' < Len(B)
<1>0. Searches
  BY DEF Searches
<1>1. /\ Len(A) \in Nat /\ Len(B) \in Nat /\ Delta \in Nat
      /\ Delta = Len(B) - Len(A)
      /\ k = Delta /\ p \in 0 .. Len(A) /\ k \in Diagonals
      /\ k - 1 \in Diagonals /\ k + 1 \in Diagonals
  BY <1>0, Lengths, InArrays DEF LoopBounds
<1>2. /\ \A d \in Diagonals : d = k =>
           /\ X(d)' = Y(d)' - d /\ Above(k) <= Y(d)' /\ Below(k) <= Y(d)'
           /\ Y(d)' \in 0 .. Len(B) /\ X(d)' \in 0 .. Len(A)
      /\ \A d \in Diagonals : d # k => Y(d)' = Y(d) /\ X(d)' = X(d)
  BY <1>0, SnakeMoves
<1>3. PICK c \in Diagonals : c = k
  BY <1>1
<1>4. PICK y : y = Y(c)'
  OBVIOUS
<1>5. /\ y \in 0 .. Len(B) - 1 /\ y - Delta < Len(A) /\ X(c)' = y - Delta
      /\ y - Delta \in 0 .. Len(A)
      /\ Above(k) <= y /\ Below(k) <= y
  BY <1>1, <1>2, <1>3, <1>4
<1>6. \A d \in Diagonals : Fresh(d) =>
        d \in Int /\ Y(d) \in 0 .. Len(B) /\ X(d) \in 0 .. Len(A) /\ X(d) = Y(d) - d
  <2>1. ASSUME NEW d \in Diagonals, Fresh(d)
        PROVE  d \in Int /\ Y(d) \in 0 .. Len(B) /\ X(d) \in 0 .. Len(A) /\ X(d) = Y(d) - d
    <3>1. Recorded(d) /\ d \in Int /\ Y(d) \in Int
      BY <2>1, Places DEF AllRecorded, Arrays, Y
    <3> QED
      BY <3>1, RecordedInside
  <2> QED
    BY <2>1
<1>7. ASSUME NEW d \in Diagonals, Fresh(d), d < Delta
      PROVE  X(d) <= y - Delta
  <2>1. Fresh(k - 1) /\ d <= k - 1 /\ k - 1 < Delta /\ d \in Int
    BY <1>1, <1>6, <1>7, SMTT(30) DEF Fresh
  <2>2. X(d) <= X(k - 1)
    BY <1>1, <1>7, <2>1 DEF FreshOrdered
  <2>3. Above(k) - k = X(k - 1) /\ Above(k) \in Int
    BY <1>0, <2>1, AboveInside
  <2>4. X(d) \in Int /\ X(k - 1) \in Int
    BY <1>1, <1>6, <1>7, <2>1
  <2> QED
    BY <1>1, <1>5, <2>2, <2>3, <2>4, SMTT(30)
<1>8. ASSUME NEW d \in Diagonals, Fresh(d), d > Delta
      PROVE  Y(d) <= y
  <2>1. Fresh(k + 1) /\ k + 1 <= d /\ k + 1 > Delta /\ d \in Int
    BY <1>1, <1>6, <1>8 DEF Fresh
  <2>2. Y(d) <= Y(k + 1)
    BY <1>1, <1>8, <2>1 DEF FreshOrdered
  <2>3. Below(k) = Y(k + 1) /\ Below(k) \in Int
    BY <1>0, <2>1, BelowInside
  <2>4. Y(d) \in Int
    BY <1>6, <1>8
  <2> QED
    BY <1>1, <1>5, <2>2, <2>3, <2>4
<1>9. p < Len(A)
  <2>1. CASE -p <= Delta - 1
    <3>1. -p \in Diagonals /\ -p < Delta /\ Fresh(-p)
      BY <2>1, <1>1 DEF Diagonals, Fresh
    <3>2. X(-p) <= y - Delta
      BY <3>1, <1>7
    <3>3. Y(-p) \in 0 .. Len(B) /\ X(-p) \in Int /\ X(-p) = Y(-p) + p
      BY <3>1, <1>1, <1>6
    <3> QED
      BY <3>2, <3>3, <1>1, <1>5, SMTT(30)
  <2>2. CASE ~(-p <= Delta - 1)
    BY <2>2, <1>1, <1>5
  <2> QED
    BY <2>1, <2>2
<1>10. ASSUME NEW d \in Diagonals, Fresh(d) \/ d = k
       PROVE  /\ d <= Delta => X(d)' < Len(A)
              /\ d >= Delta => Y(d)' < Len(B)
  <2>1. CASE d = k
    BY <2>1, <1>1, <1>3, <1>4, <1>5
  <2>2. CASE d # k
    <3>1. Fresh(d) /\ Y(d)' = Y(d) /\ X(d)' = X(d) /\ d \in Int
      BY <2>2, <1>2, <1>6, <1>10
    <3>2. d < Delta \/ d > Delta
      BY <3>1, <2>2, <1>1
    <3>3. X(d) \in Int /\ Y(d) \in Int
      BY <3>1, <1>6
    <3>4. CASE d < Delta
      BY <3>1, <3>3, <3>4, <1>1, <1>5, <1>7, SMTT(30)
    <3>5. CASE d > Delta
      BY <3>1, <3>3, <3>5, <1>1, <1>5, <1>8, SMTT(30)
    <3> QED
      BY <3>2, <3>4, <3>5
  <2> QED
    BY <2>1, <2>2
<1> QED
  BY <1>9, <1>10

\* The next p, or the end of the path.
LEMMA MidSearched ==
  ASSUME input \in Inputs, PointsLinked, LoopBounds, Arrays, AllRecorded,
         OldShort, FreshOrdered, Mid
  PROVE  \/ /\ pc' = "low"
            /\ LoopBounds' /\ Arrays' /\ AllRecorded' /\ OldShort' /\ FreshOrdered'
         \/ /\ pc' = "trace"
            /\ r' \in 0 .. Len(coords') - 1
            /\ coords'[r' + 1].x = Len(A) /\ coords'[r' + 1].y = Len(B)
<1>1. /\ pc = "mid" /\ Snake(Delta) /\ input' = input /\ Searches
  BY DEF Mid, Searches
<1>2. /\ Len(A) \in Nat /\ Len(B) \in Nat /\ Delta \in Nat
      /\ Delta = Len(B) - Len(A)
      /\ k = Delta /\ p \in 0 .. Len(A) /\ k \in Diagonals /\ Snake(k)
  BY <1>1, Lengths, InArrays DEF LoopBounds
<1>3. /\ Diagonals' = Diagonals /\ Delta' = Delta /\ A' = A /\ B' = B
      /\ Offset' = Offset
  BY <1>1, Unmoved
<1>4. /\ Arrays'
      /\ \A d \in Diagonals : d = k =>
           /\ Recorded(d)' /\ X(d)' = Y(d)' - d
           /\ Y(d)' \in 0 .. Len(B)
      /\ \A d \in Diagonals : d # k =>
           /\ Recorded(d) => Recorded(d)'
           /\ Unsearched(d) => Unsearched(d)'
  BY <1>1, <1>2, SnakeMoves
<1>5. PICK c \in Diagonals : c = Delta
  BY <1>2
<1>6. Y(c)' = fp'[Delta + Offset]
  BY <1>3, <1>5 DEF Y
<1>7. CASE fp'[Delta + Offset] = Len(B)
  <2>1. pc' = "trace" /\ r' = path'[Delta + Offset]
    BY <1>7 DEF Mid
  <2>2. Recorded(c)' /\ X(c)' = Len(A) /\ Y(c)' = Len(B)
    BY <1>2, <1>4, <1>5, <1>6, <1>7
  <2> QED
    BY <2>1, <2>2, <1>3, <1>5 DEF Recorded
<1>8. CASE fp'[Delta + Offset] # Len(B)
  <2>1. pc' = "low" /\ p' = p + 1 /\ k' = -(p + 1)
    BY <1>8 DEF Mid
  <2>2. \A d \in Diagonals : d = k => Y(d)' # Len(B)
    BY <1>2, <1>5, <1>6, <1>8
  <2>3. /\ p < Len(A)
        /\ \A d \in Diagonals : Fresh(d) \/ d = k =>
             /\ d <= Delta => X(d)' < Len(A)
             /\ d >= Delta => Y(d)' < Len(B)
    BY <1>1, <1>2, <2>2, MidShort
  <2>4. \A d \in Diagonals : d \in Int
    BY Places
  <2>5. \A d \in Diagonals :
          /\ ~Fresh(d)'
          /\ Old(d)' <=> Fresh(d) \/ d = k
          /\ Old(d) => Fresh(d) \/ d = k
    BY <2>1, <2>4, <1>1, <1>2, <1>3 DEF Fresh, Old
  <2>6. LoopBounds'
    BY <2>1, <2>3, <1>2, <1>3 DEF LoopBounds
  <2>7. AllRecorded'
    <3>1. ASSUME NEW d \in Diagonals
          PROVE  IF Old(d)' \/ Fresh(d)' THEN Recorded(d)' ELSE Unsearched(d)'
      BY <2>5, <1>4 DEF AllRecorded
    <3> QED
      BY <3>1, <1>3 DEF AllRecorded
  <2>8. OldShort'
    <3>1. ASSUME NEW d \in Diagonals, Old(d)', ~Fresh(d)'
          PROVE  /\ d <= Delta => X(d)' < Len(A)
                 /\ d >= Delta => Y(d)' < Len(B)
      BY <3>1, <2>3, <2>5
    <3> QED
      BY <3>1, <1>3 DEF OldShort
  <2>9. FreshOrdered'
    BY <2>5, <1>3 DEF FreshOrdered
  <2> QED
    BY <2>1, <2>6, <2>7, <2>8, <2>9, <1>4
<1> QED
  BY <1>7, <1>8

\* From the diagonals below Delta to those above, and to Delta.
LEMMA SideDone ==
  ASSUME input \in Inputs, LoopBounds, Arrays, AllRecorded, OldShort,
         FreshOrdered, LowDone \/ HighDone
  PROVE  LoopBounds' /\ Arrays' /\ AllRecorded' /\ OldShort' /\ FreshOrdered'
<1>1. /\ UNCHANGED <<input, p, fp, path, coords>>
      /\ \/ pc = "low" /\ pc' = "high" /\ k > Delta - 1 /\ k' = Delta + p
         \/ pc = "high" /\ pc' = "mid" /\ k < Delta + 1 /\ k' = Delta
  BY DEF LowDone, HighDone, Searching
<1>2. /\ Len(A) \in Nat /\ Len(B) \in Nat /\ Delta \in Nat
      /\ k \in Int /\ p \in 0 .. Len(A) /\ k = Delta
  BY <1>1, Lengths DEF LoopBounds
<1>3. /\ Diagonals' = Diagonals /\ Delta' = Delta /\ A' = A /\ B' = B
      /\ Offset' = Offset /\ Size' = Size
  BY <1>1, Unmoved
<1>4. \A d \in Diagonals :
        /\ Y(d)' = Y(d) /\ X(d)' = X(d) /\ (Recorded(d)' <=> Recorded(d))
        /\ Unsearched(d)' <=> Unsearched(d)
        /\ Old(d)' <=> Old(d)
  BY <1>1, <1>3 DEF X, Y, Recorded, Unsearched, Old
<1>5. \A d \in Diagonals : Fresh(d)' <=> Fresh(d)
  <2>1. \A d \in Diagonals : d \in Int
    BY Places
  <2> QED
    BY <2>1, <1>1, <1>2, <1>3 DEF Fresh
<1>6. LoopBounds' /\ Arrays'
  BY <1>1, <1>2, <1>3 DEF LoopBounds, Arrays
<1>7. AllRecorded'
  <2>1. ASSUME NEW d \in Diagonals
        PROVE  IF Old(d)' \/ Fresh(d)' THEN Recorded(d)' ELSE Unsearched(d)'
    BY <1>4, <1>5 DEF AllRecorded
  <2> QED
    BY <2>1, <1>3 DEF AllRecorded
<1>8. OldShort'
  <2>1. ASSUME NEW d \in Diagonals, Old(d)', ~Fresh(d)'
        PROVE  /\ d <= Delta => X(d)' < Len(A)
               /\ d >= Delta => Y(d)' < Len(B)
    BY <2>1, <1>4, <1>5 DEF OldShort
  <2> QED
    BY <2>1, <1>3 DEF OldShort
<1>9. FreshOrdered'
  <2>1. ASSUME NEW c \in Diagonals, NEW d \in Diagonals,
               Fresh(c)', Fresh(d)', c <= d
        PROVE  /\ d < Delta => X(c)' <= X(d)'
               /\ c > Delta => Y(d)' <= Y(c)'
    BY <2>1, <1>4, <1>5 DEF FreshOrdered
  <2> QED
    BY <2>1, <1>3 DEF FreshOrdered
<1> QED
  BY <1>6, <1>7, <1>8, <1>9

\* The search begins with nothing searched.
LEMMA SearchBegins ==
  ASSUME input \in Inputs, pc = "alloc", pc' = "low", input' = input,
         NotYet, p' = p, k' = k,
         fp' = [i \in 0 .. Size - 1 |-> -1],
         path' = [i \in 0 .. Size - 1 |-> -1]
  PROVE  LoopBounds' /\ Arrays' /\ AllRecorded' /\ OldShort' /\ FreshOrdered'
<1>1. p' = 0 /\ k' = 0
  BY DEF NotYet
<1>2. /\ Diagonals' = Diagonals /\ Delta' = Delta /\ A' = A /\ B' = B
      /\ Offset' = Offset /\ Size' = Size
  BY Unmoved
<1>3. Len(A) \in Nat /\ Delta \in Nat
  BY Lengths
<1>4. \A d \in Diagonals : d \in Int /\ d + Offset \in 0 .. Size - 1
  BY Places
<1>5. \A d \in Diagonals : ~Old(d)' /\ ~Fresh(d)' /\ Unsearched(d)'
  BY <1>1, <1>2, <1>3, <1>4 DEF Old, Fresh, Unsearched, None
<1>6. LoopBounds' /\ Arrays'
  BY <1>1, <1>2, <1>3 DEF LoopBounds, Arrays
<1>7. AllRecorded'
  BY <1>2, <1>5 DEF AllRecorded
<1>8. OldShort'
  BY <1>2, <1>5 DEF OldShort
<1>9. FreshOrdered'
  BY <1>2, <1>5 DEF FreshOrdered
<1> QED
  BY <1>6, <1>7, <1>8, <1>9

-------------------------------------------------------------------------------
(***************************************************************************)
(* The trace.                                                              *)
(***************************************************************************)

LEMMA TraceLinks ==
  ASSUME input \in Inputs, PointsLinked, TraceInv, Trace
  PROVE  TraceInv'
<1>1. /\ pc = "trace" /\ pc' = "trace" /\ r # None
      /\ epc' = Append(epc, coords[r + 1])
      /\ r' = coords[r + 1].k
      /\ input' = input /\ coords' = coords
  BY DEF Trace, Searching
<1>2. /\ PathLinked
      /\ r \in -1 .. Len(coords) - 1
      /\ IF Len(epc) > 0 THEN Leads(PointAt(r), epc[Len(epc)])
         ELSE r # None /\ PointAt(r).x = Len(A) /\ PointAt(r).y = Len(B)
  BY <1>1 DEF TraceInv
<1>3. coords \in Seq(Points) /\ Len(coords) \in Nat
  BY LenProperties DEF PointsLinked
<1>4. r + 1 \in 1 .. Len(coords)
  BY <1>1, <1>2, <1>3 DEF None
<1>5. PICK c : c = coords[r + 1]
  OBVIOUS
<1>6. /\ c \in Points /\ PointAt(r) = c
      /\ c.k \in -1 .. r - 1 /\ Leads(PointAt(c.k), c)
  <2>1. c \in Points /\ PointAt(r) = c
    BY <1>1, <1>3, <1>4, <1>5, ElementOfSeq DEF PointAt
  <2>2. c.k \in -1 .. (r + 1) - 2 /\ Leads(PointAt(c.k), c)
    BY <1>4, <1>5 DEF PointsLinked
  <2>3. r \in Int /\ (r + 1) - 2 = r - 1
    BY <1>2, <1>3
  <2> QED
    BY <2>1, <2>2, <2>3
<1> DEFINE n == Len(epc)
<1>7. epc \in Seq(Points) /\ n \in Nat
  BY <1>2, LenProperties DEF PathLinked
<1>8. /\ epc' \in Seq(Points) /\ Len(epc') = n + 1
      /\ epc'[n + 1] = c /\ \A i \in 1 .. n : epc'[i] = epc[i]
  BY <1>1, <1>5, <1>6, <1>7, AppendProperties
<1>9. /\ \A j \in 1 .. n - 1 : Leads(epc[j + 1], epc[j])
      /\ n > 0 => epc[1].x = Len(A) /\ epc[1].y = Len(B)
      /\ n > 0 => Leads(c, epc[n])
      /\ n = 0 => c.x = Len(A) /\ c.y = Len(B)
  BY <1>2, <1>6, <1>7 DEF PathLinked
<1> HIDE DEF n
<1>10. A' = A /\ B' = B /\ Points' = Points
  BY <1>1, Unmoved
<1>11. ASSUME NEW j \in 1 .. n
       PROVE  Leads(epc[j + 1], epc[j])'
  <2>1. PICK a : a = epc'[j + 1]
    OBVIOUS
  <2>2. PICK b : b = epc'[j]
    OBVIOUS
  <2>3. Leads(a, b)
    <3>1. CASE j = n
      BY <3>1, <2>1, <2>2, <1>7, <1>8, <1>9
    <3>2. CASE j # n
      <4>1. j \in 1 .. n - 1 /\ j + 1 \in 1 .. n
        BY <3>2, <1>7
      <4> QED
        BY <4>1, <2>1, <2>2, <1>8, <1>9
    <3> QED
      BY <3>1, <3>2
  <2> QED
    BY <2>1, <2>2, <2>3, <1>10 DEF Leads, Entry, Diag, Alike
<1>12. epc'[1].x = Len(A) /\ epc'[1].y = Len(B)
  <2>1. CASE n = 0
    BY <2>1, <1>8, <1>9
  <2>2. CASE n # 0
    <3>1. 1 \in 1 .. n
      BY <2>2, <1>7
    <3> QED
      BY <3>1, <1>8, <1>9, <1>7
  <2> QED
    BY <2>1, <2>2
<1>13. PathLinked'
  BY <1>7, <1>8, <1>10, <1>11, <1>12 DEF PathLinked
<1>14. r' \in -1 .. Len(coords') - 1
  BY <1>1, <1>2, <1>3, <1>5, <1>6
<1>15. Leads(PointAt(r), epc[Len(epc)])'
  <2>1. PICK a : a = PointAt(c.k)
    OBVIOUS
  <2>2. a = PointAt(r)'
    BY <2>1, <1>1, <1>5 DEF PointAt
  <2>3. c = epc[Len(epc)]'
    BY <1>8
  <2>4. Leads(a, c)
    BY <2>1, <1>6
  <2> QED
    BY <2>2, <2>3, <2>4, <1>10 DEF Leads, Entry, Diag, Alike
<1>16. Len(epc') > 0
  BY <1>7, <1>8
<1> QED
  BY <1>13, <1>14, <1>15, <1>16 DEF TraceInv

\* The trace ends at the origin, with a path to write.
LEMMA TraceEnds ==
  ASSUME input \in Inputs, NotYet, TraceInv, TraceDone
  PROVE  WriteInv'
<1>1. /\ pc = "trace" /\ pc' = "write" /\ r = None /\ k' = Len(epc)
      /\ UNCHANGED <<input, epc, px, py>>
  BY DEF TraceDone, Writing
<1>2. /\ PathLinked /\ px = 0 /\ py = 0
      /\ IF Len(epc) > 0 THEN Leads(PointAt(r), epc[Len(epc)]) ELSE r # None
  BY <1>1 DEF TraceInv, NotYet
<1>3. Len(epc) \in Nat
  BY <1>2, LenProperties DEF PathLinked
<1>4. Len(epc) > 0 /\ Leads(Origin, epc[Len(epc)])
  BY <1>1, <1>2 DEF PointAt
<1>5. A' = A /\ B' = B /\ Points' = Points
  BY <1>1, Unmoved
<1>6. PathLinked'
  BY <1>1, <1>2, <1>5 DEF PathLinked, Leads, Entry, Diag, Alike
<1>7. Leads(Origin, epc[Len(epc)])'
  BY <1>1, <1>4, <1>5 DEF Leads, Entry, Diag, Alike, Origin
<1>8. OnTheWay(Previous(k), epc[k])'
  BY <1>1, <1>2 DEF OnTheWay, Previous, Origin
<1> QED
  BY <1>1, <1>2, <1>3, <1>4, <1>6, <1>7, <1>8 DEF WriteInv

-------------------------------------------------------------------------------
(***************************************************************************)
(* The writing: between two points of the path there is one step along A   *)
(* or B at most, and then elements that are the same.                      *)
(***************************************************************************)

\* What the path says of the point that is gone to, and what is due.
LEMMA NextOnPath ==
  ASSUME input \in Inputs, WriteInv, pc = "write", k > 0
  PROVE  /\ k \in 1 .. Len(epc) /\ Len(epc) \in Nat
         /\ epc[k] \in Points /\ Previous(k) \in Points
         /\ Leads(Previous(k), epc[k])
         /\ OnTheWay(Previous(k), epc[k])
         /\ px \in Int /\ py \in Int
<1>1. /\ PathLinked /\ Leads(Origin, epc[Len(epc)])
      /\ k \in 0 .. Len(epc) /\ px \in Int /\ py \in Int
      /\ OnTheWay(Previous(k), epc[k])
  BY DEF WriteInv
<1>2. epc \in Seq(Points) /\ Len(epc) \in Nat
  BY <1>1, LenProperties DEF PathLinked
<1>3. k \in 1 .. Len(epc) /\ epc[k] \in Points
  BY <1>1, <1>2, ElementOfSeq
<1>4. CASE k = Len(epc)
  <2>1. Previous(k) = Origin /\ Origin \in Points
    BY <1>4, Lengths DEF Previous, Origin, Points, None
  <2> QED
    BY <2>1, <1>1, <1>2, <1>3, <1>4
<1>5. CASE k # Len(epc)
  <2>1. k + 1 \in 1 .. Len(epc) /\ k \in 1 .. Len(epc) - 1
    BY <1>2, <1>3, <1>5
  <2>2. Previous(k) = epc[k + 1] /\ epc[k + 1] \in Points
    BY <2>1, <1>2, <1>5, ElementOfSeq DEF Previous
  <2> QED
    BY <2>1, <2>2, <1>1, <1>2, <1>3 DEF PathLinked
<1> QED
  BY <1>4, <1>5

(***************************************************************************)
(* An operation stays within the sequences and on the way; what it writes  *)
(* as common is the same in both.                                          *)
(***************************************************************************)
LEMMA OperationInside ==
  ASSUME input \in Inputs, WriteInv, Due
  PROVE  /\ Moves \in {"A", "B", "both"}
         /\ Moves # "B" => px < Len(A)
         /\ Moves # "A" => py < Len(B)
         /\ Moves = "both" => A[px + 1] = B[py + 1]
         /\ LET x == IF Moves = "B" THEN px ELSE px + 1
                y == IF Moves = "A" THEN py ELSE py + 1
            IN  y - x = Diag(epc[k]) /\ Entry(Previous(k), epc[k]) <= y /\ y <= epc[k].y
<1>1. PICK a : a = Previous(k)
  OBVIOUS
<1>2. PICK b : b = epc[k]
  OBVIOUS
<1>3. /\ a \in Points /\ b \in Points /\ Leads(a, b) /\ OnTheWay(a, b)
      /\ px \in Int /\ py \in Int
  BY <1>1, <1>2, NextOnPath DEF Due
<1>4. /\ a.x \in Int /\ a.y \in Int /\ b.x \in 0 .. Len(A) /\ b.y \in 0 .. Len(B)
      /\ Len(A) \in Nat /\ Len(B) \in Nat
  BY <1>3, Lengths DEF Points
<1>5. Diag(b) = b.y - b.x /\ Diag(a) = a.y - a.x
  BY DEF Diag
<1>6. px < b.x \/ py < b.y
  BY <1>2 DEF Due
<1>7. Moves = IF Diag(b) > py - px THEN "B" ELSE IF Diag(b) < py - px THEN "A" ELSE "both"
  BY <1>2 DEF Moves, Diag
<1> DEFINE s == Entry(a, b)
<1>8. /\ Diag(a) \in Diag(b) - 1 .. Diag(b) + 1
      /\ s = IF Diag(a) = Diag(b) - 1 THEN a.y + 1 ELSE a.y
      /\ s <= b.y
      /\ \A z \in s .. b.y - 1 : Alike(Diag(b), z)
  BY <1>3 DEF Leads, Entry
<1>9. (px = a.x /\ py = a.y) \/ (py - px = Diag(b) /\ s <= py /\ py <= b.y)
  BY <1>3 DEF OnTheWay
<1> DEFINE d == Diag(b)
           e == Diag(a)
           x == IF Moves = "B" THEN px ELSE px + 1
           y == IF Moves = "A" THEN py ELSE py + 1
<1> HIDE DEF s, d, e, x, y
<1>10. /\ d \in Int /\ e \in Int /\ s \in Int /\ px \in Int /\ py \in Int
       /\ a.x \in Int /\ a.y \in Int /\ b.x \in Int /\ b.y \in Int
       /\ d = b.y - b.x /\ e = a.y - a.x
       /\ e = d - 1 \/ e = d \/ e = d + 1
       /\ e = d - 1 => s = a.y + 1
       /\ e # d - 1 => s = a.y
       /\ s <= b.y
  <2>1. /\ d = b.y - b.x /\ e = a.y - a.x /\ e \in d - 1 .. d + 1
        /\ s = IF e = d - 1 THEN a.y + 1 ELSE a.y
        /\ s <= b.y
    BY <1>5, <1>8 DEF d, e
  <2>2. d \in Int /\ e \in Int /\ b.x \in Int /\ b.y \in Int
    BY <2>1, <1>4
  <2>3. s \in Int /\ (e = d - 1 \/ e = d \/ e = d + 1)
    BY <2>1, <2>2, <1>4, SMTT(30)
  <2> QED
    BY <2>1, <2>2, <2>3, <1>3, <1>4
<1>11. (px = a.x /\ py = a.y) \/ (py - px = d /\ s <= py /\ py <= b.y)
  BY <1>9 DEF d
<1>12. /\ d > py - px => Moves = "B"
       /\ d < py - px => Moves = "A"
       /\ d = py - px => Moves = "both"
  BY <1>7, <1>10 DEF d
<1>13. CASE d > py - px
  <2>1. px = a.x /\ py = a.y /\ e = d - 1
    BY <1>10, <1>11, <1>13
  <2>2. py + 1 = s /\ py + 1 - px = d /\ py + 1 <= b.y
    BY <2>1, <1>10
  <2>3. Moves = "B" /\ x = px /\ y = py + 1
    BY <1>12, <1>13 DEF x, y
  <2>4. py < Len(B)
    BY <2>2, <1>4, <1>10
  <2>5. y - x = d /\ s <= y /\ y <= b.y
    BY <2>2, <2>3, <1>10
  <2> QED
    BY <2>3, <2>4, <2>5, <1>1, <1>2 DEF s, d, x, y
<1>14. CASE d < py - px
  <2>1. px = a.x /\ py = a.y /\ e = d + 1
    BY <1>10, <1>11, <1>14
  <2>2. py = s /\ py - (px + 1) = d /\ py <= b.y /\ px + 1 <= b.x
    BY <2>1, <1>10
  <2>3. Moves = "A" /\ x = px + 1 /\ y = py
    BY <1>12, <1>14 DEF x, y
  <2>4. px < Len(A)
    BY <2>2, <1>4, <1>10, SMTT(30)
  <2>5. y - x = d /\ s <= y /\ y <= b.y
    BY <2>2, <2>3, <1>10
  <2> QED
    BY <2>3, <2>4, <2>5, <1>1, <1>2 DEF s, d, x, y
<1>15. CASE d = py - px
  <2>1. py - d = px /\ s <= py /\ py <= b.y
    <3>1. CASE px = a.x /\ py = a.y
      <4>1. e = d /\ s = a.y
        BY <3>1, <1>10, <1>15
      <4> QED
        BY <3>1, <4>1, <1>10, <1>15
    <3>2. CASE py - px = d /\ s <= py /\ py <= b.y
      BY <3>2, <1>10
    <3> QED
      BY <3>1, <3>2, <1>11
  <2>2. py < b.y
    BY <2>1, <1>6, <1>10
  <2>3. Moves = "both" /\ x = px + 1 /\ y = py + 1
    BY <1>12, <1>15 DEF x, y
  <2>4. Alike(d, py)
    BY <2>1, <2>2, <1>8, <1>10 DEF d
  <2>5. px < Len(A) /\ py < Len(B) /\ A[px + 1] = B[py + 1]
    BY <2>1, <2>4 DEF Alike
  <2>6. y - x = d /\ s <= y /\ y <= b.y
    BY <2>1, <2>2, <2>3, <1>10
  <2> QED
    BY <2>3, <2>5, <2>6, <1>1, <1>2 DEF s, d, x, y
<1> QED
  BY <1>10, <1>13, <1>14, <1>15, SMTT(30)

\* The path does not change while it is written.
LEMMA PathKept ==
  ASSUME UNCHANGED <<input, epc>>, PathLinked, Leads(Origin, epc[Len(epc)])
  PROVE  PathLinked' /\ Leads(Origin, epc[Len(epc)])'
<1>1. A' = A /\ B' = B /\ Points' = Points
  BY Unmoved
<1>2. PathLinked'
  BY <1>1 DEF PathLinked, Leads, Entry, Diag, Alike
<1>3. Leads(Origin, epc[Len(epc)])'
  BY <1>1 DEF Leads, Entry, Diag, Alike, Origin
<1> QED
  BY <1>2, <1>3

LEMMA WriteKeeps ==
  ASSUME input \in Inputs, WriteInv, Write
  PROVE  WriteInv'
<1>1. /\ pc = "write" /\ pc' = "write" /\ k > 0 /\ Due
      /\ UNCHANGED <<input, k, epc>>
      /\ px' = IF Moves = "B" THEN px ELSE px + 1
      /\ py' = IF Moves = "A" THEN py ELSE py + 1
  BY DEF Write, Due
<1>2. PathLinked' /\ Leads(Origin, epc[Len(epc)])'
  BY <1>1, PathKept DEF WriteInv
<1>3. k \in 0 .. Len(epc) /\ px \in Int /\ py \in Int /\ Len(epc) > 0
  BY <1>1 DEF WriteInv
<1>4. px' \in Int /\ py' \in Int
  BY <1>1, <1>3
<1>5. /\ py' - px' = Diag(epc[k])
      /\ Entry(Previous(k), epc[k]) <= py' /\ py' <= epc[k].y
  BY <1>1, OperationInside
<1>6. OnTheWay(Previous(k), epc[k])'
  BY <1>1, <1>5 DEF OnTheWay, Previous, Entry, Diag, Origin
<1> QED
  BY <1>1, <1>2, <1>3, <1>4, <1>6 DEF WriteInv

\* At a point that is got to, nothing is due.
LEMMA PointReached ==
  ASSUME input \in Inputs, WriteInv, pc = "write", k > 0, ~Due
  PROVE  px = epc[k].x /\ py = epc[k].y
<1>1. PICK a : a = Previous(k)
  OBVIOUS
<1>2. PICK b : b = epc[k]
  OBVIOUS
<1>3. /\ a \in Points /\ b \in Points /\ Leads(a, b) /\ OnTheWay(a, b)
      /\ px \in Int /\ py \in Int
  BY <1>1, <1>2, NextOnPath
<1>4. a.x \in Int /\ a.y \in Int /\ b.x \in Int /\ b.y \in Int
  BY <1>3, Lengths DEF Points
<1>5. ~(px < b.x) /\ ~(py < b.y)
  BY <1>2 DEF Due
<1>6. CASE px = a.x /\ py = a.y
  <2>1. /\ a.y - a.x \in b.y - b.x - 1 .. b.y - b.x + 1
        /\ (IF a.y - a.x = b.y - b.x - 1 THEN a.y + 1 ELSE a.y) <= b.y
    BY <1>3 DEF Leads, Entry, Diag
  <2> QED
    BY <2>1, <1>2, <1>4, <1>5, <1>6
<1>7. CASE py - px = Diag(b) /\ py <= b.y
  BY <1>2, <1>3, <1>4, <1>5, <1>7 DEF Diag
<1> QED
  BY <1>3, <1>6, <1>7 DEF OnTheWay

LEMMA NextPointKeeps ==
  ASSUME input \in Inputs, WriteInv, NextPoint
  PROVE  WriteInv'
<1>1. /\ pc = "write" /\ pc' = "write" /\ k > 0 /\ ~Due /\ k' = k - 1
      /\ UNCHANGED <<input, epc, px, py>>
  BY DEF NextPoint, Writing
<1>2. PathLinked' /\ Leads(Origin, epc[Len(epc)])'
  BY <1>1, PathKept DEF WriteInv
<1>3. /\ k \in 1 .. Len(epc) /\ Len(epc) \in Nat /\ px \in Int /\ py \in Int
      /\ Len(epc) > 0
  BY <1>1, NextOnPath DEF WriteInv
<1>4. px = epc[k].x /\ py = epc[k].y
  BY <1>1, PointReached
<1>5. A' = A /\ B' = B
  BY <1>1, Unmoved
<1>6. CASE k = 1
  <2>1. epc[1].x = Len(A) /\ epc[1].y = Len(B)
    BY <1>1, <1>3 DEF WriteInv, PathLinked
  <2>2. k' = 0 /\ px' = Len(A') /\ py' = Len(B')
    BY <2>1, <1>1, <1>4, <1>5, <1>6
  <2> QED
    BY <2>2, <1>1, <1>2, <1>3 DEF WriteInv
<1>7. CASE k # 1
  <2>1. k' > 0 /\ k' \in 0 .. Len(epc) /\ k' # Len(epc) /\ k' + 1 = k
    BY <1>1, <1>3, <1>7
  <2>2. OnTheWay(Previous(k), epc[k])'
    BY <2>1, <1>1, <1>4 DEF OnTheWay, Previous
  <2> QED
    BY <2>1, <2>2, <1>1, <1>2, <1>3 DEF WriteInv
<1> QED
  BY <1>3, <1>6, <1>7

-------------------------------------------------------------------------------
(***************************************************************************)
(* The invariant.                                                          *)
(***************************************************************************)

LEMMA InitHolds == Init => IInv
<1> SUFFICES ASSUME Init
             PROVE  IInv
  OBVIOUS
<1>1. pc = "alloc" /\ input \in Inputs /\ p = 0 /\ k = 0 /\ coords = <<>>
      /\ epc = <<>> /\ px = 0 /\ py = 0
  BY DEF Init
<1>2. PointsLinked
  <2>1. coords \in Seq(Points) /\ Len(coords) = 0
    BY <1>1
  <2> QED
    BY <2>1 DEF PointsLinked
<1>3. NotYet /\ SearchInv /\ TraceInv /\ WriteInv
  BY <1>1 DEF NotYet, SearchInv, TraceInv, WriteInv, Phases
<1> QED
  BY <1>1, <1>2, <1>3 DEF IInv

\* A step that records no point keeps those that there are.
LEMMA PointsKept ==
  ASSUME PointsLinked, UNCHANGED <<input, coords>>
  PROVE  PointsLinked'
<1>1. A' = A /\ B' = B /\ Points' = Points
  BY Unmoved
<1>2. coords \in Seq(Points) /\ coords' = coords
  BY DEF PointsLinked
<1>3. ASSUME NEW i \in 1 .. Len(coords)
      PROVE  (coords[i].k \in -1 .. i - 2 /\ Leads(PointAt(coords[i].k), coords[i]))'
  <2>1. coords[i].k \in -1 .. i - 2 /\ Leads(PointAt(coords[i].k), coords[i])
    BY <1>3 DEF PointsLinked
  <2>2. PICK b : b = coords[i]
    OBVIOUS
  <2>3. PICK a : a = PointAt(b.k)
    OBVIOUS
  <2>4. b = coords'[i] /\ a = PointAt(coords[i].k)'
    BY <2>2, <2>3, <1>2 DEF PointAt, Origin
  <2>5. Leads(a, b)
    BY <2>1, <2>2, <2>3
  <2>6. Leads(PointAt(coords[i].k), coords[i])'
    BY <2>4, <2>5, <1>1 DEF Leads, Entry, Diag, Alike
  <2> QED
    BY <2>1, <2>2, <2>4, <2>6
<1> QED
  BY <1>1, <1>2, <1>3 DEF PointsLinked

\* The phases of diff() that are over or have not begun say nothing.
LEMMA Failing ==
  ASSUME input \in Inputs, PointsLinked, pc' = "failed",
         UNCHANGED <<input, coords>>
  PROVE  IInv'
<1>1. PointsLinked'
  BY PointsKept
<1>2. NotYet' /\ SearchInv' /\ TraceInv' /\ WriteInv'
  BY DEF NotYet, SearchInv, TraceInv, WriteInv, Phases
<1> QED
  BY <1>1, <1>2 DEF IInv

LEMMA Searched ==
  ASSUME input \in Inputs, NotYet, pc \in Phases, pc' \in Phases,
         UNCHANGED <<input, epc, px, py>>,
         PointsLinked', LoopBounds', Arrays', AllRecorded', OldShort', FreshOrdered'
  PROVE  IInv'
<1>1. SearchInv'
  BY DEF SearchInv
<1>2. NotYet'
  BY DEF NotYet, Phases
<1>3. TraceInv' /\ WriteInv'
  BY DEF TraceInv, WriteInv, Phases
<1> QED
  BY <1>1, <1>2, <1>3 DEF IInv

LEMMA StepKeeps ==
  ASSUME IInv, Steps
  PROVE  IInv'
<1>0. input \in Inputs /\ PointsLinked /\ NotYet /\ SearchInv /\ TraceInv /\ WriteInv
  BY DEF IInv
<1>1. CASE Alloc
  <2>1. CASE NoMemory("arrays")
    BY <2>1, <1>0, Failing DEF NoMemory, Searching
  <2>2. CASE ~NoMemory("arrays")
    <3>1. /\ pc = "alloc" /\ pc' = "low"
          /\ UNCHANGED <<input, p, k, coords, epc, px, py>>
          /\ fp' = [i \in 0 .. Size - 1 |-> -1]
          /\ path' = [i \in 0 .. Size - 1 |-> -1]
      BY <2>2, <1>1 DEF Alloc, Writing
    <3>2. LoopBounds' /\ Arrays' /\ AllRecorded' /\ OldShort' /\ FreshOrdered'
      BY <3>1, <1>0, SearchBegins
    <3>3. PointsLinked'
      BY <3>1, <1>0, PointsKept
    <3>4. SearchInv'
      BY <3>2 DEF SearchInv
    <3>5. NotYet' /\ TraceInv' /\ WriteInv'
      BY <3>1, <1>0 DEF NotYet, TraceInv, WriteInv, Phases
    <3> QED
      BY <3>1, <3>3, <3>4, <3>5, <1>0 DEF IInv
  <2> QED
    BY <2>1, <2>2
<1>2. CASE Low
  <2>1. /\ pc = "low" /\ pc' = "low" /\ Searches /\ Snake(k)
        /\ UNCHANGED <<input, epc, px, py>>
    BY <1>2 DEF Low, Searches, Writing
  <2>2. LoopBounds /\ Arrays /\ AllRecorded /\ OldShort /\ FreshOrdered
    BY <2>1, <1>0 DEF SearchInv, Phases
  <2>3. LoopBounds' /\ Arrays' /\ AllRecorded' /\ OldShort' /\ FreshOrdered'
    BY <2>2, <1>0, <1>2, LowSearched
  <2>4. PointsLinked'
    BY <2>1, <2>2, <1>0, SnakeLinks
  <2>5. pc \in Phases /\ pc' \in Phases
    BY <2>1 DEF Phases
  <2> QED
    BY <2>1, <2>3, <2>4, <2>5, <1>0, Searched
<1>3. CASE High
  <2>1. /\ pc = "high" /\ pc' = "high" /\ Searches /\ Snake(k)
        /\ UNCHANGED <<input, epc, px, py>>
    BY <1>3 DEF High, Searches, Writing
  <2>2. LoopBounds /\ Arrays /\ AllRecorded /\ OldShort /\ FreshOrdered
    BY <2>1, <1>0 DEF SearchInv, Phases
  <2>3. LoopBounds' /\ Arrays' /\ AllRecorded' /\ OldShort' /\ FreshOrdered'
    BY <2>2, <1>0, <1>3, HighSearched
  <2>4. PointsLinked'
    BY <2>1, <2>2, <1>0, SnakeLinks
  <2>5. pc \in Phases /\ pc' \in Phases
    BY <2>1 DEF Phases
  <2> QED
    BY <2>1, <2>3, <2>4, <2>5, <1>0, Searched
<1>4. CASE LowDone \/ HighDone
  <2>1. /\ pc \in Phases /\ pc' \in Phases
        /\ UNCHANGED <<input, coords, epc, px, py>>
    BY <1>4 DEF LowDone, HighDone, Phases, Searching, Writing
  <2>2. LoopBounds /\ Arrays /\ AllRecorded /\ OldShort /\ FreshOrdered
    BY <2>1, <1>0 DEF SearchInv
  <2>3. LoopBounds' /\ Arrays' /\ AllRecorded' /\ OldShort' /\ FreshOrdered'
    BY <2>2, <1>0, <1>4, SideDone
  <2>4. PointsLinked'
    BY <2>1, <1>0, PointsKept
  <2> QED
    BY <2>1, <2>3, <2>4, <1>0, Searched
<1>5. CASE Mid
  <2>1. /\ pc = "mid" /\ Searches /\ Snake(Delta)
        /\ UNCHANGED <<input, epc, px, py>>
    BY <1>5 DEF Mid, Searches, Writing
  <2>2. LoopBounds /\ Arrays /\ AllRecorded /\ OldShort /\ FreshOrdered
    BY <2>1, <1>0 DEF SearchInv, Phases
  <2>3. Snake(k)
    BY <2>1, <2>2 DEF LoopBounds
  <2>4. PointsLinked' /\ Len(coords') \in Nat
    BY <2>1, <2>2, <2>3, <1>0, SnakeLinks
  <2>5. CASE /\ pc' = "low"
             /\ LoopBounds' /\ Arrays' /\ AllRecorded' /\ OldShort' /\ FreshOrdered'
    <3>1. pc \in Phases /\ pc' \in Phases
      BY <2>1, <2>5 DEF Phases
    <3> QED
      BY <3>1, <2>1, <2>4, <2>5, <1>0, Searched
  <2>6. CASE /\ pc' = "trace"
             /\ r' \in 0 .. Len(coords') - 1
             /\ coords'[r' + 1].x = Len(A) /\ coords'[r' + 1].y = Len(B)
    <3>1. A' = A /\ B' = B /\ epc = <<>> /\ epc' = <<>> /\ px' = 0 /\ py' = 0
      BY <2>1, <1>0, Unmoved DEF NotYet, Phases
    <3>2. /\ epc' \in Seq(Points') /\ Len(epc') = 0
      BY <3>1
    <3>3. PathLinked'
      BY <3>2 DEF PathLinked
    <3>4. r' # None /\ PointAt(r)' = coords'[r' + 1]
      BY <2>6 DEF PointAt, None
    <3>5. TraceInv'
      BY <3>1, <3>2, <3>3, <3>4, <2>4, <2>6 DEF TraceInv
    <3>6. NotYet' /\ SearchInv' /\ WriteInv'
      BY <3>1, <2>6 DEF NotYet, SearchInv, WriteInv, Phases
    <3> QED
      BY <3>5, <3>6, <2>1, <2>4, <1>0 DEF IInv
  <2> QED
    BY <2>2, <2>5, <2>6, <1>0, <1>5, MidSearched
<1>6. CASE PointFails \/ TraceFails \/ WriteFails
  <2>1. pc' = "failed" /\ UNCHANGED <<input, coords>>
    BY <1>6 DEF PointFails, TraceFails, WriteFails, NoMemory, Searching
  <2> QED
    BY <2>1, <1>0, Failing
<1>7. CASE Trace
  <2>1. pc' = "trace" /\ UNCHANGED <<input, coords, px, py>> /\ pc = "trace"
    BY <1>7 DEF Trace, Searching, Writing
  <2>2. TraceInv'
    BY <1>0, <1>7, TraceLinks
  <2>3. PointsLinked'
    BY <2>1, <1>0, PointsKept
  <2>4. NotYet' /\ SearchInv' /\ WriteInv'
    BY <2>1, <1>0 DEF NotYet, SearchInv, WriteInv, Phases
  <2> QED
    BY <2>1, <2>2, <2>3, <2>4, <1>0 DEF IInv
<1>8. CASE TraceDone
  <2>1. pc' = "write" /\ UNCHANGED <<input, coords>>
    BY <1>8 DEF TraceDone, Searching
  <2>2. WriteInv'
    BY <1>0, <1>8, TraceEnds
  <2>3. PointsLinked'
    BY <2>1, <1>0, PointsKept
  <2>4. NotYet' /\ SearchInv' /\ TraceInv'
    BY <2>1 DEF NotYet, SearchInv, TraceInv, Phases
  <2> QED
    BY <2>1, <2>2, <2>3, <2>4, <1>0 DEF IInv
<1>9. CASE Write \/ NextPoint
  <2>1. pc' = "write" /\ UNCHANGED <<input, coords>>
    BY <1>9 DEF Write, NextPoint, Due, Searching
  <2>2. WriteInv'
    BY <1>0, <1>9, WriteKeeps, NextPointKeeps
  <2>3. PointsLinked'
    BY <2>1, <1>0, PointsKept
  <2>4. NotYet' /\ SearchInv' /\ TraceInv'
    BY <2>1 DEF NotYet, SearchInv, TraceInv, Phases
  <2> QED
    BY <2>1, <2>2, <2>3, <2>4, <1>0 DEF IInv
<1>10. CASE WriteDone
  <2>1. /\ pc = "write" /\ k = 0 /\ pc' = "done"
        /\ UNCHANGED <<input, coords, px, py>>
    BY <1>10 DEF WriteDone, Searching, Writing
  <2>2. px = Len(A) /\ py = Len(B) /\ A' = A /\ B' = B
    BY <2>1, <1>0, Unmoved DEF WriteInv
  <2>3. PointsLinked'
    BY <2>1, <1>0, PointsKept
  <2>4. NotYet' /\ SearchInv' /\ TraceInv' /\ WriteInv'
    BY <2>1, <2>2 DEF NotYet, SearchInv, TraceInv, WriteInv, Phases
  <2> QED
    BY <2>1, <2>3, <2>4, <1>0 DEF IInv
<1> QED
  BY <1>1, <1>2, <1>3, <1>4, <1>5, <1>6, <1>7, <1>8, <1>9, <1>10 DEF Steps

LEMMA StutterKeeps ==
  ASSUME IInv, UNCHANGED vars
  PROVE  IInv'
<1>1. UNCHANGED <<input, pc, p, k, r, fp, path, coords, epc, px, py>>
  BY DEF vars
<1>2. /\ A' = A /\ B' = B /\ Delta' = Delta /\ Offset' = Offset
      /\ Size' = Size /\ Points' = Points /\ Diagonals' = Diagonals
  BY <1>1, Unmoved
<1>3. input' \in Inputs /\ PointsLinked'
  BY <1>1, PointsKept DEF IInv
<1>4. NotYet'
  BY <1>1, <1>2 DEF IInv, NotYet
<1>5. SearchInv'
  <2>1. LoopBounds' <=> LoopBounds
    BY <1>1, <1>2 DEF LoopBounds
  <2>2. Arrays' <=> Arrays
    BY <1>1, <1>2 DEF Arrays
  <2>3. AllRecorded' <=> AllRecorded
    BY <1>1, <1>2 DEF AllRecorded, Recorded, Unsearched, Old, Fresh, X, Y
  <2>4. OldShort' <=> OldShort
    BY <1>1, <1>2 DEF OldShort, Old, Fresh, X, Y
  <2>5. FreshOrdered' <=> FreshOrdered
    BY <1>1, <1>2 DEF FreshOrdered, Fresh, X, Y
  <2> QED
    BY <2>1, <2>2, <2>3, <2>4, <2>5, <1>1 DEF IInv, SearchInv
<1>6. PathLinked' <=> PathLinked
  BY <1>1, <1>2 DEF PathLinked, Leads, Entry, Diag, Alike
<1>7. TraceInv'
  BY <1>1, <1>2, <1>6 DEF IInv, TraceInv, Leads, Entry, Diag, Alike, PointAt, Origin
<1>8. WriteInv'
  BY <1>1, <1>2, <1>6
     DEF IInv, WriteInv, Leads, Entry, Diag, Alike, Origin, OnTheWay, Previous
<1> QED
  BY <1>3, <1>4, <1>5, <1>7, <1>8 DEF IInv

LEMMA Invariant == Spec => []IInv
<1>1. IInv /\ [Next]_vars => IInv'
  BY StepKeeps, StutterKeeps DEF Next, Returned
<1> QED
  BY <1>1, InitHolds, PTL DEF Spec

-------------------------------------------------------------------------------
\* The invariant says that no access is out of bounds.
LEMMA IInvInside == IInv => Inside
<1> SUFFICES ASSUME IInv
             PROVE  Inside
  OBVIOUS
<1>1. input \in Inputs /\ PointsLinked /\ NotYet /\ SearchInv /\ WriteInv
  BY DEF IInv
<1>2. ASSUME Searches
      PROVE  /\ {k - 1 + Offset, k + Offset, k + 1 + Offset} \subseteq DOMAIN fp
             /\ Start(k) \in 0 .. Len(B)
             /\ Start(k) - k \in 0 .. Len(A)
  <2>1. LoopBounds /\ Arrays /\ AllRecorded /\ OldShort /\ FreshOrdered
    BY <1>1, <1>2 DEF SearchInv, Searches, Phases
  <2>2. k - 1 \in Diagonals /\ k \in Diagonals /\ k + 1 \in Diagonals
    BY <2>1, <1>1, <1>2, InArrays
  <2>3. {k - 1 + Offset, k + Offset, k + 1 + Offset} \subseteq DOMAIN fp
    BY <2>1, <2>2, <1>1, Places DEF Arrays
  <2> QED
    BY <2>1, <2>3, <1>1, <1>2, StartInside
<1>3. pc = "write" => Len(epc) > 0
  BY <1>1 DEF WriteInv
<1>4. Due => /\ Moves # "B" => px < Len(A)
             /\ Moves # "A" => py < Len(B)
             /\ Moves = "both" => A[px + 1] = B[py + 1]
  BY <1>1, OperationInside
<1>5. pc = "done" => px = Len(A) /\ py = Len(B)
  BY <1>1 DEF NotYet
<1> QED
  BY <1>2, <1>3, <1>4, <1>5 DEF Inside

(***************************************************************************)
(* Whatever sequences diff() is given, and whatever memory is short of,    *)
(* it accesses nothing out of bounds: p never passes the length of the     *)
(* shorter sequence, no point lies past the end of one, and the script     *)
(* that is written takes no element but those of the sequences, and all.   *)
(***************************************************************************)
THEOREM InsideCorrect == Spec => []Inside
BY Invariant, IInvInside, PTL

===============================================================================
