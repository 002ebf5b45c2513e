\* terminate() while JavaScript calls host functions that always return.
SPECIFICATION HostFairSpec
CONSTANTS
  SyncCalls = {}
  EvalCalls = {a}
  FunctionCalls = {}
  Timed = {}
  Env = {"wedge", "gil"}
  NoCall = NoCall
  Killers = {}
  Grace = FALSE
PROPERTY TerminateReturns
CHECK_DEADLOCK FALSE
