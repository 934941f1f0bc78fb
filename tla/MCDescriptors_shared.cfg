\* Two tasks, sharing a table or not, at the same time.
SPECIFICATION Spec
CONSTANTS
  Task = {t1, t2}
  First = t1
  MaxFd = 2
  FdArg = {0, 2}
  Path = {"file"}
  Calls <- SharedCalls
  Failing = {"open", "execve"}
  Astray = FALSE
INVARIANTS NamesMirrored CreditKept IInv
CHECK_DEADLOCK FALSE
