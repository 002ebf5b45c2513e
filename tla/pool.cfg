\* A pool of one isolate, two checkouts and two Python threads: one checkout has
\* to spawn its isolate, and either may find the pool full or closed.
SPECIFICATION FairSpec
CONSTANTS
  Workers = {w1, w2}
  Checkouts = {c1, c2}
  Threads = {t1, t2}
  Size = 1
  Nobody = Nobody
INVARIANTS TypeOK OneUserPerIsolate WaiterIsServed
PROPERTIES KeepsPromise WorkersExit
CHECK_DEADLOCK FALSE
