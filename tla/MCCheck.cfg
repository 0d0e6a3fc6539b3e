SPECIFICATION Spec
CONSTANTS
  p1 = p1
  p2 = p2
  t1 = t1
  t2 = t2
  t3 = t3
  x1 = x1
  x2 = x2
  s1 = s1
  s2 = s2
  k1 = k1
  k2 = k2
  good = good
  fair = fair
  poor = poor
  silent = silent
  selection = selection
  Metric = {selection}
  Unit = 4
  None = None
  Torn = Torn
  Snapshot = Snapshot
  Proc = {p1}
  Tools = {t1, t2, t3}
  Prompts = {x1}
  Suite = {s1, s2}
  Contract <- OneBinary
  Table = {good, poor}
  Scores <- MCScores
  Policy <- DropOnly
  FailOnRisk = None
  Risk <- MCRisk
  Options <- Lines
  EditDuring = TRUE
  Overlap = FALSE
  MaxCommands = 3
  MaxEdits = 1
\* The commands and edits are bounded, and then nothing is left to do.
CHECK_DEADLOCK FALSE
PROPERTIES AcceptMatchesLock RatchetBounded GreenIsClean AcceptSettles
