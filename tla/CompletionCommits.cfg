SPECIFICATION Spec
CONSTANTS
  i1 = i1
  i2 = i2
  k1 = k1
  k2 = k2
  Session = {s1}
  Incident = {i1}
  Reader = {}
  None = None
  Slot <- OneIncident
  Target = {"triaging"}
  Batch = 1
INVARIANTS
  CompletionCommitsWithMutation
