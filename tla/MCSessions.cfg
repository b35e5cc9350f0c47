SPECIFICATION Spec
CONSTANTS
  c1 = c1
  c2 = c2
  c3 = c3
  c4 = c4
  ann = ann
  bob = bob
  eve = eve
  none = none
  Calls <- MCCalls
  Emails <- MCEmails
  Names <- MCNames
  SlugAttempts = 2
  InvitedRoles = {"OWNER"}
  Owners <- MCOwners
  None <- none
SYMMETRY Symmetric
INVARIANTS
  TypeOK
  ShopsAreFoundedOnce
  ExchangedIsSpent
  RefusedFromTheStart
CHECK_DEADLOCK FALSE
