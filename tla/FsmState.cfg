SPECIFICATION FairSpec
CONSTANTS
  Clients = {c1, c2}
  Pollers = {p1, p2}
  MaxSends = 3
INVARIANTS SingleOwner NoPanic NoLostWakeup
PROPERTIES ImplementsOwner MailServed ClosedIsDropped
CHECK_DEADLOCK FALSE
