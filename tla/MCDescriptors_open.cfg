\* One task that opens descriptors by every syscall the handlers know, in any sequence.
SPECIFICATION Spec
CONSTANTS
  Task = {t1}
  First = t1
  MaxFd = 2
  FdArg <- AnyFd
  Path = {"file"}
  Calls <- OpenExecCalls
  Failing <- OpenExecCalls
  Astray = FALSE
INVARIANTS TypeOK CreditKept CloexecMirrored
CHECK_DEADLOCK FALSE
