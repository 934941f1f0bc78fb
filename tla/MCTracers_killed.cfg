\* A task may be killed by a signal.
SPECIFICATION FairSpec
CONSTANTS
  Pid = {root, a, b}
  Root = root
  Table = {t1, t2, t3, t4, t5, t6}
  Cell = {c1, c2, c3, c4, c5, c6}
  None = None
  MaxCalls = 1
  ForkBits = {FALSE}
  ExecResults = {TRUE, FALSE}
  Killable = {root, a, b}
  PromptStart = TRUE
PROPERTY ReportWritten
CHECK_DEADLOCK FALSE
