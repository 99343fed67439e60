-------------------------------- MODULE MCOnp --------------------------------
EXTENDS Onp

MCElements == {"a", "b", "c"}

Seqs(elems, max) == UNION {[1 .. n -> elems] : n \in 0 .. max}

\* Of two elements up to four long, of three up to two.
MCInputs == (Seqs({"a", "b"}, 4) \X Seqs({"a", "b"}, 4))
       \cup (Seqs(MCElements, 2) \X Seqs(MCElements, 2))
===============================================================================
