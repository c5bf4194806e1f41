SPECIFICATION FairSpec
CONSTANTS
  Unset = Unset
  Blank = Blank
  Malformed = Malformed
  NoFile = NoFile
  Rejected = Rejected
  None = None
  Broken = Broken
  NoRole = NoRole
  reader = reader
  unsafe = unsafe
  p1 = p1
  p2 = p2
  c1 = c1
  c2 = c2
  id = id
  secret = secret
  RoleNames = {reader}
  Passwords = {p1, p2}
  Settings <- MCSettings
  FirstTables <- MCTables
  FirstRoles <- MCRoles
  SafeDatabase = TRUE
  MayManageRoles = TRUE
  ProbeTimeout = 2
  MaxTroubles = 5
INVARIANTS
  TypeOK
  AccountIsReadOnly
  KeysTakePrecedence
  ReadyIsTrue
PROPERTIES
  UpgradePromise
  FailsOnlyForCause
  ComesUp
