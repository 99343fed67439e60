SPECIFICATION Spec
CONSTANTS
  Sessions <- MCSessions
INVARIANTS
  LinesApart
  LinksListed
  NotesListed
  Restored
