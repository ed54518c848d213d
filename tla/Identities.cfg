SPECIFICATION Spec
CONSTANTS
  agent = agent
  ownership = ownership
  authority = authority
  Dids = {agent}
  Credentials = {ownership, authority}
  SubjectOf <- MCSubjectOf
  Processes = {p1, p2, p3}
  MaxCalls = 4
  MaxCrashes = 1
SYMMETRY Symmetry
INVARIANTS
  TypeOK
  WithdrawalIsKept
  VerdictIsSound
  DamageHasCause
CHECK_DEADLOCK FALSE
