---------------------------- MODULE ShortestScript ----------------------------
(***************************************************************************)
(* What a caller of diff() may rely on: the script it is given is built    *)
(* one operation at a time and ends as one of the shortest from the first  *)
(* sequence to the second, given with the number of its changes, or        *)
(* diff() fails.                                                           *)
(***************************************************************************)
EXTENDS EditScripts

LOCAL INSTANCE Functions

CONSTANT Inputs   \* the pairs of sequences that may be compared

VARIABLES input, script, distance, status

svars == <<input, script, distance, status>>

Unknown == -1

\* The key of an element is the element.
Itself == [x \in Range(input[1]) \cup Range(input[2]) |-> x]

Wanted == Shortest(input[1], input[2], Itself)

SInit == input \in Inputs /\ script = <<>> /\ distance = Unknown /\ status = "running"

\* The next operation of a shortest script that begins with the present one.
Extend ==
  \E s \in Wanted :
    /\ Len(script) < Len(s)
    /\ SubSeq(s, 1, Len(script)) = script
    /\ script' = Append(script, s[Len(script) + 1])

Emit ==
  /\ status = "running"
  /\ Extend
  /\ UNCHANGED <<input, distance, status>>

Succeed ==
  /\ status = "running"
  /\ script \in Wanted
  /\ status' = "done"
  /\ distance' = Len(SelectSeq(script, LAMBDA op : op.type # "common"))
  /\ UNCHANGED <<input, script>>

\* What there is of the script is of no use.
Fail ==
  /\ status = "running"
  /\ status' = "failed"
  /\ Extend \/ UNCHANGED script
  /\ UNCHANGED <<input, distance>>

SNext == Emit \/ Succeed \/ Fail

SSpec == SInit /\ [][SNext]_svars
===============================================================================
