SPECIFICATION Spec
CONSTANTS
  Requests = {r1, r2, r3}
  MaxQueueSize = 1
INVARIANTS TypeOK ZeroMeansDrained  SpansFlushed
PROPERTIES CloseNotMistaken ProcessEnds
