SPECIFICATION Spec
CONSTANTS
  Flags = {"ATTRS", "AUTOLINK", "COMMONMARK", "DEFLIST", "FENCED", "FOOTNOTES", "CALLOUTS", "MANTITLE", "METADATA", "STRIKE", "SUPER", "TABLES", "TASKLIST"}
  Maxdepths = {0, 3, 6}
  Sessions <- MCSessions
INVARIANTS
  StackIsPath
  TreeWhole
  NoAbort
  Grammar
  TextsMerged
  LinkBodies
  FootnotesOnce
  MetaAgree
  NothingLost
  DepthBounded
PROPERTIES
  TSpec
  Ends
