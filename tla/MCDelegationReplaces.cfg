\* A re-registration revokes the key and cannot create the new row.
CONSTANTS
  pair = pair
  r1 = r1
  r2 = r2
  x1 = x1
  x2 = x2
  v1 = v1
  v2 = v2
  Pairs = {pair}
  Registrations = {r1, r2}
  Revocations = {x1, x2}
  Validations = {v1, v2}
  MaxTime = 1
  NoRow = NoRow
SPECIFICATION Spec
CHECK_DEADLOCK FALSE
INVARIANT ReRegistrationReplaces
