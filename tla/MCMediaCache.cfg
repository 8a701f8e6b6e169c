CONSTANTS
  c1 = c1
  c2 = c2
  e1 = e1
  e2 = e2
  Keys = {k1, k2}
  Owners = {o}
  Clients = {c1, c2}
  Enforcers = {e1, e2}
  Budget = 0
  Found <- MCFound
  Nobody = nobody
  MaxCalls = 2
  MaxTroubles = 1
SPECIFICATION FairSpec
ACTION_CONSTRAINT OneTrims
INVARIANTS
  LeasedArtifactsAreThere
  GuardedBytesStay
  ReservationsAreClaimed
PROPERTIES
  WrittenOffOnlyWhenGone
  EnforcementsEnd
