\* The start data of a new thread, when its creator is not held back.
SPECIFICATION Spec
CONSTANTS
  Pid = {root, a, b}
  Root = root
  Table = {t1, t2, t3, t4, t5, t6}
  Cell = {c1, c2, c3, c4, c5, c6}
  None = None
  MaxCalls = 1
  ForkBits = {FALSE}
  ExecResults = {TRUE, FALSE}
  Killable = {}
  PromptStart = FALSE
SYMMETRY OtherTasks
INVARIANT StartDataLive
CHECK_DEADLOCK FALSE
