SPECIFICATION Spec
CONSTANTS
  a = a
  b = b
  Calls = {a, b}
  Mixes <- MCMixes
  Loops = {l1}
  Loaders = {"plain"}
  NoCall = NoCall
  NoLoop = NoLoop
PROPERTY AwaitReturns
CHECK_DEADLOCK FALSE
