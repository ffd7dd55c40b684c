SPECIFICATION CopySpec
CONSTANTS
  Nil = Nil
  Installers = {p1}
  Versions = {"v1", "v2"}
  Size = 2
  Inodes <- MCInodes
  Overlap = FALSE
INVARIANTS
  RunsWhole
  SuccessInstalls
PROPERTY
  ReplacesAtomically
