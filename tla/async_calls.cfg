SPECIFICATION Spec
CONSTANTS
  a = a
  b = b
  Calls = {a, b}
  Mixes <- MCMixes
  Loops = {l1, l2}
  Loaders = {"plain", "coroutine"}
  NoCall = NoCall
  NoLoop = NoLoop
INVARIANTS LocalsBelongToJob WaitsForRuntime AnswersAreOwed
PROPERTY AwaitSettles
CHECK_DEADLOCK FALSE
