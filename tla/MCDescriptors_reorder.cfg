\* Two tasks that share a table and use it at the same time.
SPECIFICATION Spec
CONSTANTS
  Task = {t1, t2}
  First = t1
  MaxFd = 2
  FdArg = {0, 1, 2}
  Path = {"file"}
  Calls = {"open", "close", "read", "clone"}
  Failing = {}
  Astray = TRUE
INVARIANT CreditExact
CHECK_DEADLOCK FALSE
