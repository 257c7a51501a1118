SPECIFICATION FairSpec
CONSTANTS
  plan = plan
  restart = restart
  reset = reset
  purge = purge
  engineer = engineer
  approver = approver
  Plan = {plan}
  Run = {r1, r2}
  Action = {restart, reset, purge}
  Person = {engineer, approver}
  None = None
  ActionsOf <- MCActionsOf
  Reversible = {restart, reset}
  Requester <- MCRequester
  Approver = {engineer, approver}
  MaxMints = 2
CHECK_DEADLOCK FALSE
INVARIANTS
  RunsStandApproved
  EndsAsItSays
PROPERTIES
  ReportsStand
  EveryRunEnds
