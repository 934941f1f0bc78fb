\* Three tasks, threads or processes; signals to the second, the third may be killed or woken.
SPECIFICATION FairSpec
CONSTANTS
  Pid = {p, q, r}
  Root = p
  None = None
  Signals = {"SIGUSR1"}
  Signalled = {q}
  Killable = {q}
  Continuable = {r}
INVARIANTS TypeOK HandlersInStep UnseenOnlyIfWoken SignalsPassed LeftOnlyIfGone IInv
PROPERTY WaitsEnd
CHECK_DEADLOCK FALSE
