\* Descriptors without an entry are duplicated or get a flag.
SPECIFICATION Spec
CONSTANTS
  Task = {t1}
  First = t1
  MaxFd = 2
  FdArg <- AnyFd
  Path = {"file"}
  Calls = {"close", "untracked", "dup", "setfd"}
  Failing = {}
  Astray = FALSE
INVARIANT EntryFound
CHECK_DEADLOCK FALSE
