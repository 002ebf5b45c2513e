\* A synchronous evaluation with a timeout beside two jobs, one of which has one,
\* and a TerminationHandle, without PENDING_WORK_TICK: the wake-up must be enough.
SPECIFICATION FairSpec
CONSTANTS
  SyncCalls = {e}
  EvalCalls = {a, b}
  FunctionCalls = {}
  Timed = {a, e}
  Env = {"noTick", "noTerminate"}
  NoCall = NoCall
  Killers = {k}
  Grace = FALSE
PROPERTIES TerminationSettlesCalls TimedCallsSettle
CHECK_DEADLOCK FALSE
