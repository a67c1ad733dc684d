CONSTANTS
  Thread = {t1, t2}
  Client = {c1, c2}
  Printer = {0, 1}
  First = 0
  Accounts <- MCAccounts
  NoFile = NoFile
  Null = Null
  Torn = Torn
  NoPrinter = NoPrinter
  MaxRequests = 3
  MaxCrashes = 1
SPECIFICATION Spec
SYMMETRY MCSymmetry
INVARIANTS ConfigKept HeldIsRegistered RestartKeepsSelectionUnlessImported
CHECK_DEADLOCK FALSE
