SPECIFICATION SupportSpec
CONSTANTS
  Plan = {p1}
  NoPlan = NoPlan
  MaxRounds = 1
  MaxAsk = 3
CHECK_DEADLOCK FALSE
INVARIANTS
  DeclinedConsentCancels
