SPECIFICATION Spec
CONSTANTS
  revision = revision
  search = search
  open = open
  other = other
  bad = bad
  None = None
  NumServers = 3
  Speaks <- MCSpeaks
  Versions <- MCVersions
  Catalog <- MCCatalog
  Rogue = {3}
  RoguePages <- MCRoguePages
  Rejected <- MCRejected
  MaxPages = 3
  MaxTools = 4
\* Discovery ends.
CHECK_DEADLOCK FALSE
INVARIANTS Whole EraIsSpoken SessionsClosed RefusedForAReason
PROPERTIES Settles
