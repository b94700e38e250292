SPECIFICATION FairSpec
CONSTANTS
  Consumers = {c1, c2}
  Granters = {c2}
  Grants = {a}
  NoGrant = NoGrant
  MaxAttempts = 2
  MaxCommits = 3
  Stacking = FALSE
  Trespassers = {c1}
INVARIANTS TypeOK NoDoubleSpend AppendSurvives
PROPERTIES ResultsAreTrue LedgerSpec PublishTerminates
CHECK_DEADLOCK FALSE
