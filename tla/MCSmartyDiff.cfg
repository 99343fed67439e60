SPECIFICATION Spec
CONSTANTS
  Word = 16
  Memory = 6
  Units = {1, 2, 3}
  Sessions <- MCCompared
INVARIANTS
  ChangesTracked
