SPECIFICATION Spec
CONSTANTS
  Consumers = {c1, c2}
  Granters = {c2}
  Grants = {a}
  NoGrant = NoGrant
  MaxAttempts = 2
  MaxCommits = 3
  Stacking = TRUE
  Trespassers = {}
PROPERTIES DropsOnlyLostReservation
CHECK_DEADLOCK FALSE
