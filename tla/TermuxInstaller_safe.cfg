SPECIFICATION Spec
CONSTANTS
  Threads = {t1}
  Entries = {e1, e2, e3}
  Links = {l1, l2}
  NoEntry = none
  MaxFaults = 4
INVARIANTS
  TypeOK
  PrefixNotBroken
  ErrorsAreOwn
PROPERTY ImplementsInstallOnce
SYMMETRY InstallSymmetry
