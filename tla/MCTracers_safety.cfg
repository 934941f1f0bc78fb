\* Three tasks, every event: clones and forks with any RDI, execve that fails or not, a signal that kills,
\* any schedule.
SPECIFICATION Spec
CONSTANTS
  Pid = {root, a, b}
  Root = root
  Table = {t1, t2, t3, t4, t5, t6}
  Cell = {c1, c2, c3, c4, c5, c6}
  None = None
  MaxCalls = 1
  ForkBits = {TRUE, FALSE}
  ExecResults = {TRUE, FALSE}
  Killable = {root}
  PromptStart = FALSE
SYMMETRY OtherTasks
INVARIANTS TypeOK ShareCountExact EntryLive UsableWhileShared SameTableSameMutex NoLeak IInv JoinedBeforePrint
CHECK_DEADLOCK FALSE
