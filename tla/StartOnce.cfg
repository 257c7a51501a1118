SPECIFICATION Spec
CONSTANTS
  approval = approval
  consent = consent
  engineer = engineer
  approver = approver
  employee = employee
  Interrupt = {approval, consent}
  Decision = {d1}
  Command = {c1, c2, c3, c4}
  Console = {}
  None = None
  Kind <- MCKind
  Actor = {engineer, approver, employee}
  Requester <- MCRequester
  Decider <- MCDecider
SYMMETRY Identities
CHECK_DEADLOCK FALSE
INVARIANTS
  StartOnce
