SPECIFICATION Spec
CONSTANTS
  r1 = r1  r2 = r2  r3 = r3  u1 = u1  u2 = u2  u3 = u3
  c1 = c1  c2 = c2  c3 = c3  m1 = m1  m2 = m2  n1 = n1  n2 = n2
  None = None
  Requests = {r1, r2, r3}
  Users = {u1, u2, u3}
  MaxActive = 2
  Tokens <- MCTokens
  Ageing = {1}
  Companies = {c1, c2, c3}
  CodeOf <- MCCodeOf
  Names = {n1, n2}
  SeatIds <- MCSeatIds
  RoleNames = {"OWNER", "ADMIN", "STAFF", "PICKER"}
  Inserters <- MCInserters
  Scenes <- MCScenes
INVARIANTS TypeOK RotatedOnce ReuseEndsSuccessor SessionsCapped OwnerStays OneOfEach OwnerMayAll GrantsAgreed
PROPERTIES SessionsEnd
CHECK_DEADLOCK FALSE
