\* One iterable, passed to JavaScript up to twice.
SPECIFICATION FairSpec
CONSTANTS
  Streams = {s}
  Views = {v1, v2}
INVARIANTS TypeOK TrackingIsSound KeptWhileInUse QuietCancelCloses
PROPERTY GoneIsForgotten
CHECK_DEADLOCK FALSE
