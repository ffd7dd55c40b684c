SPECIFICATION CopySpec
CONSTANTS
  Nil = Nil
  Installers = {p1, p2}
  Versions = {"v1", "v2"}
  Size = 2
  Inodes <- MCInodes
  Overlap = TRUE
INVARIANTS
  RunsWhole
