SPECIFICATION Spec
CONSTANTS
  w1 = w1
  w2 = w2
  w3 = w3
  long = long
  short = short
  target = target
  t1 = t1
  t2 = t2
  t3 = t3
  f1 = f1
  f2 = f2
  f3 = f3
  f4 = f4
  Writer = {w1, w2, w3}
  Doc <- MCDoc
  Blocks <- MCBlocks
  Name = {target, t1, t2, t3}
  Target = target
  Temp <- OwnTemp
  Tidy = TRUE
  Inode = {f1, f2, f3, f4}
  Overlap = TRUE
  Missing = Missing
  Hole = Hole
\* Every writer ends, and then nothing is left to do.
CHECK_DEADLOCK FALSE
INVARIANTS NeverHalfWritten
PROPERTIES Implements
