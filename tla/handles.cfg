\* A function and a stream, each converted once; the stream is read again and
\* again until its end.
SPECIFICATION FairSpec
CONSTANTS
  Functions = {f}
  Streams = {s}
INVARIANTS TypeOK LeakFree OpenIsUsable WaiterServed
PROPERTIES CollectedIsReleased CloseReturns
CHECK_DEADLOCK FALSE
