CONSTANTS
  Processes = {p1, p2}
  Services = {s1}
  Terms = {t1}
  None = None
  Keys = {k1, k2, k3}
  Ttl = 2
  Margin = 1
  MaxTime = 2
SPECIFICATION Spec
PROPERTIES OpenedSessionIsTaken
