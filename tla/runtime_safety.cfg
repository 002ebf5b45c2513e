\* One synchronous evaluation, one asynchronous evaluation and one asynchronous
\* function call, all of them with timeouts, against terminate(), close(), a
\* TerminationHandle and every behaviour of guest and host code.
SPECIFICATION Spec
CONSTANTS
  SyncCalls = {e}
  EvalCalls = {a}
  FunctionCalls = {f}
  Timed = {e, a}
  Env = {"unhandled", "wedge", "heap"}
  NoCall = NoCall
  Killers = {k}
  Grace = TRUE
INVARIANTS TypeOK LiveCallHeld WatchdogBelongsToCall TimeoutHonest TerminationAgrees TerminateTakesEffect ExitExplained
CHECK_DEADLOCK FALSE
