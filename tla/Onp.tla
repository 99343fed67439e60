--------------------------------- MODULE Onp ---------------------------------
(***************************************************************************)
(* diff() of src/diff/libdiff.c: the O(NP) algorithm of Wu, Manber, Myers  *)
(* and Miller.  onp_compose() searches the diagonals of the edit graph of  *)
(* the shorter sequence A against the longer B, p by p, until the diagonal *)
(* Delta gets to the end; it then traces the path back, and onp_genseq()   *)
(* walks it forwards and writes the script.  A step is one diagonal, one   *)
(* point of the trace or one operation.  Indices into fp and path are      *)
(* those of the C arrays, k + Offset.                                      *)
(***************************************************************************)
EXTENDS EditScripts

CONSTANTS
  Elements,   \* what the sequences are of
  Inputs,     \* the pairs of sequences that may be compared
  Fallible    \* the allocations that may fail, of those below

Allocations == {"arrays", "point", "trace", "script"}

ASSUME InputsOK == Inputs \subseteq Seq(Elements) \X Seq(Elements)

ASSUME FallibleOK == Fallible \subseteq Allocations

VARIABLES
  input,      \* the two sequences, as they are given to diff()
  pc,         \* what onp_compose() is doing
  p, k,       \* its loop variables; k also counts onp_genseq()'s points
  r,          \* the point that is traced, an index of coords
  fp,         \* how far along B each diagonal has got
  path,       \* the last point recorded for each diagonal
  coords,     \* the points, each with the index of the one before it
  epc,        \* the points of the shortest path, last first
  px, py,     \* how far along A and B onp_genseq() has got
  ses,        \* the script
  editdist,   \* the edit distance, None before it is known
  rc          \* what diff() returns, None before it does

vars == <<input, pc, p, k, r, fp, path, coords, epc, px, py, ses,
          editdist, rc>>

None == -1

Swapped == Len(input[1]) > Len(input[2])
A      == IF Swapped THEN input[2] ELSE input[1]
B      == IF Swapped THEN input[1] ELSE input[2]
Delta  == Len(B) - Len(A)
\* Mutant: no room for the diagonal below the last.
OffsetShort == Len(A)

Offset == Len(A) + 1
Size   == Len(A) + Len(B) + 3

Init ==
  /\ input \in Inputs
  /\ pc = "alloc"
  /\ p = 0 /\ k = 0 /\ r = None
  /\ fp = <<>> /\ path = <<>> /\ coords = <<>> /\ epc = <<>>
  /\ px = 0 /\ py = 0
  /\ ses = <<>>
  /\ editdist = None
  /\ rc = None

Searching == <<fp, path, coords>>
Writing   == <<px, py, ses>>

\* An allocation fails, and diff() returns zero.
NoMemory(what) ==
  /\ what \in Fallible
  /\ pc' = "failed"
  /\ rc' = 0
  /\ UNCHANGED <<input, p, k, r, Searching, epc, Writing, editdist>>

Alloc ==
  /\ pc = "alloc"
  /\ \/ NoMemory("arrays")
     \/ /\ fp' = [i \in 0 .. Size - 1 |-> -1]
        /\ path' = [i \in 0 .. Size - 1 |-> -1]
        /\ pc' = "low"
        /\ UNCHANGED <<input, p, k, r, coords, epc, Writing, editdist, rc>>

(***************************************************************************)
(* onp_snake(): from the better of the two neighbours of diagonal d, go on *)
(* for as long as the elements are equal, and record the point.            *)
(***************************************************************************)
Above(d) == fp[d - 1 + Offset] + 1
Below(d) == fp[d + 1 + Offset]

Start(d) == IF Above(d) > Below(d) THEN Above(d) ELSE Below(d)

From(d) == IF Above(d) > Below(d) THEN path[d - 1 + Offset]
                                  ELSE path[d + 1 + Offset]

\* Do A and B go on alike from the point of d that is y along B?
Alike(d, y) == y - d < Len(A) /\ y < Len(B) /\ A[y - d + 1] = B[y + 1]

SnakeEnd(d) ==
  CHOOSE y \in Start(d) .. Start(d) + Len(B) :
    ~Alike(d, y) /\ \A z \in Start(d) .. y - 1 : Alike(d, z)

Snake(d) ==
  LET y == SnakeEnd(d)
  IN  /\ fp' = [fp EXCEPT ![d + Offset] = y]
      /\ path' = [path EXCEPT ![d + Offset] = Len(coords)]
      /\ coords' = Append(coords, [x |-> y - d, y |-> y, k |-> From(d)])

(***************************************************************************)
(* The diagonals from -p up to Delta, those from Delta + p down to it, and *)
(* Delta itself, for p = 0, 1, 2 ... until Delta has got along all of B.   *)
(***************************************************************************)
Low ==
  /\ pc = "low"
  /\ k <= Delta - 1
  /\ Snake(k)
  /\ k' = k + 1
  /\ UNCHANGED <<input, pc, p, r, epc, Writing, editdist, rc>>

LowDone ==
  /\ pc = "low"
  /\ k > Delta - 1
  /\ pc' = "high"
  /\ k' = Delta + p
  /\ UNCHANGED <<input, p, r, Searching, epc, Writing, editdist, rc>>

High ==
  /\ pc = "high"
  /\ k >= Delta + 1
  /\ Snake(k)
  /\ k' = k - 1
  /\ UNCHANGED <<input, pc, p, r, epc, Writing, editdist, rc>>

HighDone ==
  /\ pc = "high"
  /\ k < Delta + 1
  /\ pc' = "mid"
  /\ k' = Delta
  /\ UNCHANGED <<input, p, r, Searching, epc, Writing, editdist, rc>>

\* The steps away from Delta are taken back again.
EditDistance == Delta + 2 * p

Mid ==
  /\ pc = "mid"
  /\ Snake(Delta)
  /\ IF fp'[Delta + Offset] = Len(B)
     THEN /\ pc' = "trace"
          /\ r' = path'[Delta + Offset]
          /\ editdist' = EditDistance
          /\ UNCHANGED <<p, k>>
     ELSE /\ pc' = "low"
          /\ p' = p + 1
          /\ k' = -(p + 1)
          /\ UNCHANGED <<r, editdist>>
  /\ UNCHANGED <<input, epc, Writing, rc>>

\* Is a diagonal, k, searched next?
Searches ==
  \/ pc = "low" /\ k <= Delta - 1
  \/ pc = "high" /\ k >= Delta + 1
  \/ pc = "mid"

PointFails == Searches /\ NoMemory("point")

\* The points of the path, from the end of the sequences back to their start.
Trace ==
  /\ pc = "trace"
  /\ r # None
  /\ epc' = Append(epc, coords[r + 1])
  /\ r' = coords[r + 1].k
  /\ UNCHANGED <<input, pc, p, k, Searching, Writing, editdist, rc>>

TraceFails == pc = "trace" /\ r # None /\ NoMemory("trace")

TraceDone ==
  /\ pc = "trace"
  /\ r = None
  /\ pc' = "write"
  /\ k' = Len(epc)
  /\ UNCHANGED <<input, p, r, Searching, epc, Writing, editdist, rc>>

(***************************************************************************)
(* onp_genseq(): on the way to a point an operation is written for each    *)
(* step along B, along A or along both.  B is the sequence that was given  *)
(* first if they were swapped.                                             *)
(***************************************************************************)
Due == pc = "write" /\ k > 0 /\ (px < epc[k].x \/ py < epc[k].y)

Moves ==
  LET to == epc[k].y - epc[k].x
  IN  IF to > py - px THEN "B" ELSE IF to < py - px THEN "A" ELSE "both"

\* Mutant: additions and deletions are not exchanged again.
OperationSwapped ==
  CASE Moves = "B"    -> Op("add", B[py + 1])
    [] Moves = "A"    -> Op("delete", A[px + 1])
    [] Moves = "both" -> Op("common", A[px + 1])

Operation ==
  CASE Moves = "B"    -> Op(IF Swapped THEN "delete" ELSE "add", B[py + 1])
    [] Moves = "A"    -> Op(IF Swapped THEN "add" ELSE "delete", A[px + 1])
    [] Moves = "both" -> Op("common", IF Swapped THEN B[py + 1] ELSE A[px + 1])

Write ==
  /\ Due
  /\ ses' = Append(ses, Operation)
  /\ px' = IF Moves = "B" THEN px ELSE px + 1
  /\ py' = IF Moves = "A" THEN py ELSE py + 1
  /\ UNCHANGED <<input, pc, p, k, r, Searching, epc, editdist, rc>>

\* Mutant: the point stays the same.
NextPointSame == pc = "write" /\ k > 0 /\ ~Due /\ UNCHANGED vars

NextPoint ==
  /\ pc = "write" /\ k > 0 /\ ~Due
  /\ k' = k - 1
  /\ UNCHANGED <<input, pc, p, r, Searching, epc, Writing, editdist, rc>>

\* No memory for an operation, or for the lcs once it has been written:
\* onp_compose() does not look at what onp_genseq() returns.
WriteFails ==
  /\ Due
  /\ "script" \in Fallible
  /\ \/ UNCHANGED ses
     \/ Moves = "both" /\ ses' = Append(ses, Operation)
  /\ pc' = "failed"
  /\ rc' = 1
  /\ UNCHANGED <<input, p, k, r, Searching, epc, px, py, editdist>>

WriteDone ==
  /\ pc = "write"
  /\ k = 0
  /\ pc' = "done"
  /\ rc' = 1
  /\ UNCHANGED <<input, p, k, r, Searching, epc, Writing, editdist>>

Returned == rc # None /\ UNCHANGED vars

Steps ==
  \/ Alloc \/ Low \/ LowDone \/ High \/ HighDone \/ Mid \/ PointFails
  \/ Trace \/ TraceFails \/ TraceDone
  \/ Write \/ NextPoint \/ WriteFails \/ WriteDone

Next == Steps \/ Returned

\* The function runs until it returns.
Spec == Init /\ [][Next]_vars /\ WF_vars(Steps)

-------------------------------------------------------------------------------

(***************************************************************************)
(* No access is out of bounds.  The search stays in its arrays, which are  *)
(* allocated for diagonals from -(m + 1) to n + 1 only, so that p must     *)
(* never pass m; no point has a negative coordinate, as onp_snake()        *)
(* asserts, nor lies past the end of a sequence.  There is a path to       *)
(* trace, as onp_genseq() asserts; it takes no element past the end of a   *)
(* sequence, an element it writes as common is the same in both, and it    *)
(* gets to the end of both: it returns whether it does, but onp_compose()  *)
(* does not look.                                                          *)
(***************************************************************************)
Inside ==
  /\ Searches =>
       /\ {k - 1 + Offset, k + Offset, k + 1 + Offset} \subseteq DOMAIN fp
       /\ Start(k) \in 0 .. Len(B)
       /\ Start(k) - k \in 0 .. Len(A)
  /\ pc = "write" => Len(epc) > 0
  /\ Due =>
       /\ Moves # "B" => px < Len(A)
       /\ Moves # "A" => py < Len(B)
       /\ Moves = "both" => A[px + 1] = B[py + 1]
  /\ pc = "done" => px = Len(A) /\ py = Len(B)

(***************************************************************************)
(* Whatever memory is short of, diff() builds, operation by operation, one *)
(* of the shortest scripts, and has found how many changes are in it       *)
(* before, or fails.                                                       *)
(***************************************************************************)
Contract ==
  INSTANCE ShortestScript WITH
    script <- ses,
    distance <- IF pc = "done" THEN editdist ELSE None,
    status <- IF pc \in {"done", "failed"} THEN pc ELSE "running"

Implements == Contract!SSpec

\* The search for p ends, the trace gets to the start, and diff() returns.
Returns == <>(rc # None)

(***************************************************************************)
(* "Return zero on failure (memory), non-zero on success" says the comment *)
(* on node_lcs(), which takes the script from diff() when that returns     *)
(* non-zero.                                                               *)
(***************************************************************************)
FailureReported == pc = "failed" => rc = 0
===============================================================================
