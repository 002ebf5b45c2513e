\* An untimed evaluation next to a call_async that times out.
SPECIFICATION Spec
CONSTANTS
  SyncCalls = {e}
  EvalCalls = {}
  FunctionCalls = {f}
  Timed = {f}
  Env = {}
  NoCall = NoCall
  Killers = {}
  Grace = FALSE
INVARIANT NoCollateralInterrupt
CHECK_DEADLOCK FALSE
