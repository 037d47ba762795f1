SPECIFICATION RunsSpec
CONSTANTS
  r1 = r1
  r2 = r2
  s1 = s1
  s2 = s2
  u1 = u1
  p1 = p1
  p2 = p2
  m1 = m1
  m2 = m2
  Runs = {r1, r2}
  User = User
  Sections = {s1, s2}
  Section <- MCSection
  BranchOf <- MCBranchOf
  Trunk = Trunk
  Main = Main
  LoopExits = {"completed"}
  Unknown = Unknown
  Processes = {p1, p2}
  Urls = {u1}
  KeyOf <- MCKeyOf
  Catalogues <- MCCatalogues
  Jobs <- MCJobs
  Allowlist = {m1}
  Routers = {m2}
  MinContext = 1
  Ttl = 1
  MaxTime = 2
  None = None
  PipeSize = 2
  Diagnostics = 3
  ReportSize = 3
  MaxCalls = 2
  FileLocs <- MCFileLocs
  Dirs0 <- MCDirs0
  Disks0 <- MCDisks0
  Indexed <- MCIndexed
  Ignores <- MCIgnores
  WalkOrder <- MCWalkOrder
  Calls <- MCCalls
  Size <- MCSize
  Markers = {"rest"}
  Nul = "nul"
  ReadCap = 2
  ListDefault = 3
  WriteMax = 9
  Turns <- MCTurns
  MaxTurns = 4
  Keeps = {0, 1, 2}
  MaxChunks = 4
  Cap = 2
  Detaches = TRUE
INVARIANTS WorkIsSafe GateIsSound ReportIsBelieved FilesAreExact NothingIsKeptBack
PROPERTIES SharedStateIsLeftAlone WritesAreExact PrefixOrElided EveryProcessEnds
\* every process ends
CHECK_DEADLOCK FALSE
