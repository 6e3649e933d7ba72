SPECIFICATION AccessSpec
CONSTANTS
  u1 = u1
  u2 = u2
  t1 = t1
  s1 = s1
  q1 = q1
  q2 = q2
  admin = admin
  None = None
  Users = {u1, u2}
  Tenants = {t1}
  Sessions = {s1}
  Requests = {q1, q2}
  Capabilities = {admin}
  CapabilityOf <- Coarse
  bootstrapCapabilities <- Bootstrapped
  Ttl = 1
  MaxClock = 1
SYMMETRY AccessSymmetry
INVARIANT AccessTypeOK
INVARIANT EndedSessionsStayEnded
INVARIANT GrantsEndWithMembership
