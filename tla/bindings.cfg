SPECIFICATION Spec
CONSTANTS
  Runtimes = {r1}
  Slots = {s1, s2}
  BridgeTools = {a, b}
  HostTools = {h}
  AsyncTools = {b}
  Tokens = {t1, t2, t3, t4}
  MaxCalls = 1
  NoTool = NoTool
  NoToken = NoToken
  Value = Value
  Dicts <- MCDicts
  BridgeBindings <- MCBridgeBindings
  a = a
  b = b
  h = h
  s1 = s1
  s2 = s2
SYMMETRY Symmetry
INVARIANTS TypeOK CallableIsBound  DetachRevokes
CHECK_DEADLOCK FALSE
