CONSTANTS
  Processes = {p1, p2}
  Services = {s1, s2}
  Terms = {t1, t2}
  None = None
  Keys = {k1, k2, k3}
  Ttl = 2
  Margin = 1
  MaxTime = 2
SYMMETRY Symmetry
SPECIFICATION Spec
INVARIANTS OneInstallation FileIsBacked
PROPERTIES IdentityIsKept SessionsAdvance
