\* A thread that may be wedged in a host function for ever, behind Python's
\* interpreter lock, with force_kill_grace configured.
SPECIFICATION FairSpec
CONSTANTS
  SyncCalls = {e}
  EvalCalls = {a}
  FunctionCalls = {}
  Timed = {e}
  Env = {"wedge", "stray", "gil"}
  NoCall = NoCall
  Killers = {k}
  Grace = TRUE
PROPERTIES KeepsContract GraceBoundsBlockingCalls TerminateReturns
CHECK_DEADLOCK FALSE
