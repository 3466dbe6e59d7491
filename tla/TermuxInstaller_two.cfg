SPECIFICATION Spec
CONSTANTS
  Threads = {t1, t2}
  Entries = {e1, e2}
  Links = {l1}
  NoEntry = none
  MaxFaults = 0
INVARIANT PrefixNotBroken
