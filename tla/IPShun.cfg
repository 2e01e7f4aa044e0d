\* Several processes, an administrator and interrupts.
SPECIFICATION Spec
CONSTANTS
  Processes = {p1, p2}
  BanishTime = 1
  MaxTime = 11
  MaxAbuses = 2
  Admin = TRUE
  Interrupts = TRUE
INVARIANTS EmptyIsMomentary SettledBanStays NoLostStrike
PROPERTY BanNotCut
