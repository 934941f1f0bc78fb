\* A well-behaved surrounding: RDI of a fork is clear, execve succeeds, a new thread registers at once,
\* no task is killed.
SPECIFICATION FairSpec
CONSTANTS
  Pid = {root, a, b}
  Root = root
  Table = {t1, t2, t3, t4, t5, t6}
  Cell = {c1, c2, c3, c4, c5, c6}
  None = None
  MaxCalls = 1
  ForkBits = {FALSE}
  ExecResults = {TRUE}
  Killable = {}
  PromptStart = TRUE
INVARIANTS StartDataLive SharingMirrorsKernel SharingInv
PROPERTIES AddMirrorsClone ReportWritten ImplementsReport
CHECK_DEADLOCK FALSE
