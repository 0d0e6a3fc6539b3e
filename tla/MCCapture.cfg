SPECIFICATION FairSpec
CONSTANTS
  r1 = r1
  r2 = r2
  c1 = c1
  c2 = c2
  a = a
  Run = {r1, r2}
  NumProbes = 2
  Repeat <- MCRepeat
  Jobs <- MCJobs
  Refresh <- MCRefresh
  Inputs <- OneAgent
  Answer = {a}
  Absent = Absent
  Unusable = Unusable
\* Every process ends, and then nothing is left to do.
CHECK_DEADLOCK FALSE
INVARIANTS CacheGenuine TracesGenuine CapturedIsCached NeverIncomplete
PROPERTIES Implements CaptureEnds TasksSettle NeverPaidTwice
