\* Two threads that count three syscalls and merge their tables in either order.
SPECIFICATION Spec
CONSTANTS
  Thread = {t1, t2}
  File = {"NULL", "file"}
  Sc = {1, 2}
  Rows <- Table
  Ns = {1, 2}
  Bytes <- Results
  NANOS = 2
  MIN_NS_INITIAL = 100
  MIN_BPS_INITIAL = 100
  MaxCalls = 3
SYMMETRY Threads
INVARIANTS TypeOK ThreadExact MainExact BlocksExplainBytes JsonExact
CHECK_DEADLOCK FALSE
