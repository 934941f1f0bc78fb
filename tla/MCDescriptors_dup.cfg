\* One task that duplicates descriptors, marks them close-on-exec and executes programs.
SPECIFICATION Spec
CONSTANTS
  Task = {t1}
  First = t1
  MaxFd = 2
  FdArg <- AnyFd
  Path = {"/dev/ptmx"}
  Calls <- DupCalls
  Failing = {"dup", "dupfd", "execve"}
  Astray = FALSE
INVARIANTS NamesMirrored CloexecMirrored
CHECK_DEADLOCK FALSE
