SPECIFICATION Spec
CONSTANTS
  plan = plan
  restart = restart
  reset = reset
  purge = purge
  engineer = engineer
  approver = approver
  Plan = {plan}
  Run = {r1}
  Action = {restart, reset}
  Person = {engineer, approver}
  None = None
  ActionsOf <- MCActionsOf
  Reversible = {restart, reset}
  Requester <- MCRequester
  Approver = {engineer, approver}
  MaxMints = 2
CHECK_DEADLOCK FALSE
INVARIANTS
  ResolutionNeedsEveryCheck
