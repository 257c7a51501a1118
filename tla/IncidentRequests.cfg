SPECIFICATION Spec
CONSTANTS
  i1 = i1
  i2 = i2
  k1 = k1
  k2 = k2
  Session = {s1, s2}
  Incident = {i1}
  Reader = {r1}
  None = None
  Slot <- OneIncident
  Target = {"triaging", "escalated"}
  Batch = 1
SYMMETRY Executions
INVARIANTS
  OneEffectPerKey
  HistoryExplainsStatus
  StreamSkipsNothing
PROPERTIES
  GuardsReadInVersion
  ImplementsContract
