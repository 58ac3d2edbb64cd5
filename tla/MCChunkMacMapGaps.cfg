CONSTANTS
  SEGSIZE = 1
  SZ_128K = 1
  SZ_1024K = 8
  FileSize = 10
  FoldMargin = 4
  MinEntries = 1
  MaxCrashes = 1
  MaxReqSize = 4
  RAIDLINE = 5
  c1 = c1
  c2 = c2
  Conns <- MCConns
SYMMETRY Perms
SPECIFICATION Spec
INVARIANT MacsMacGapsTransparent
