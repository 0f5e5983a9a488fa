SPECIFICATION Spec
CONSTANTS
  w1 = w1
  w2 = w2
  ann = ann
  bob = bob
  p1 = p1
  p2 = p2
  Requests = {w1, w2}
  Names = {ann, bob}
  Passwords = {p1, p2}
  MaxSlug = 2
  MaxAccounts = 1
  MaxTries = 2
  MaxHash = 2
  Limit <- MCLimit
  Address = Address
  NoName = NoName
  NoRequest = NoRequest
  NoPassword = NoPassword
  Keys = {Address}
SYMMETRY MCSymmetry
INVARIANTS RegistrationsWithinLimit EveryAccountHasData ResetOnce LoginProvesPassword GuessesAreBounded
