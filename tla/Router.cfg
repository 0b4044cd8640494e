SPECIFICATION Spec
CONSTANTS
  Routers = {r1, r2}
  Addrs = {a1, a2}
  Mailboxes = {m1, m2, m3}
  None = None
  InitCap = 4
SYMMETRY Symmetry
INVARIANTS OpenIsRegistered SteadyReachable ForceFinds
CHECK_DEADLOCK FALSE
