------------------------------ MODULE EditScripts ------------------------------
(***************************************************************************)
(* What diff() of src/diff/libdiff.c promises its caller: a shortest edit  *)
(* script from a sequence a to a sequence b.  A script is a sequence of    *)
(* [type, e]: e is added, deleted, or common to both and then that of a.   *)
(***************************************************************************)
EXTENDS Integers, Sequences

LOCAL INSTANCE FiniteSetsExt

Op(type, e) == [type |-> type, e |-> e]

\* The shorter of the scripts.
Shorter(scripts) ==
  LET len == Min({Len(s) : s \in scripts})
  IN  {s \in scripts : Len(s) = len}

\* The scripts with one more operation.
Longer(scripts, op) == {Append(s, op) : s \in scripts}

(***************************************************************************)
(* All the shortest scripts from a to b, whose elements are the same if    *)
(* their keys are.  One that is shortest has the fewest operations, as     *)
(* each common one stands for a deletion and an addition.                  *)
(***************************************************************************)
Shortest(a, b, key) ==
  LET upto[p \in (0 .. Len(a)) \X (0 .. Len(b))] ==
        LET i == p[1]
            j == p[2]
        IN  IF i = 0 /\ j = 0 THEN {<<>>}
            ELSE Shorter(
              (IF i = 0 THEN {}
               ELSE Longer(upto[<<i - 1, j>>], Op("delete", a[i])))
              \cup
              (IF j = 0 THEN {}
               ELSE Longer(upto[<<i, j - 1>>], Op("add", b[j])))
              \cup
              (IF i = 0 \/ j = 0 \/ key[a[i]] # key[b[j]] THEN {}
               ELSE Longer(upto[<<i - 1, j - 1>>], Op("common", a[i]))))
  IN  upto[<<Len(a), Len(b)>>]
================================================================================
