SPECIFICATION Spec
CONSTANTS
  Flags = {"ATTRS", "AUTOLINK", "COMMONMARK", "DEFLIST", "FENCED", "FOOTNOTES", "CALLOUTS", "MANTITLE", "METADATA", "STRIKE", "SUPER", "TABLES", "TASKLIST"}
  Maxdepths = {0, 3, 6}
  Sessions <- MCAgain
INVARIANT
  NotesKept
