SPECIFICATION Spec
CONSTANTS
  Word = 16
  Memory = 6
  Units = {1, 2, 3}
  Sessions <- MCSessions
INVARIANTS
  TextsEducated
  TemplateMeans
  TagsNested
  NotesResolve
  AnchorsUnique
  CleansUp
  InBounds
PROPERTIES
  Delivers
