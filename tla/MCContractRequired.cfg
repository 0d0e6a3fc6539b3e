SPECIFICATION Spec
CONSTANTS
  Always = Always
  Never = Never
  Absent = Absent
  None = None
  odd = odd
  w1 = w1
  w2 = w2
  f1 = f1
  f2 = f2
  Odd = {odd}
  MaxDepth = 1
  Schemas <- MCSchemas
  SchemaFacts <- Compare
  Values <- MCValues
  Height = 3
  Id = {"prompt", "model", "mcp", "tool", "call", "answer"}
  Revisions <- MCRevisions
  Start <- MCStart
  Editable = {"tool"}
  MaxChanges = 2
INVARIANT NothingNamedIsNothingThere
