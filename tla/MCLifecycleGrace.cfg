SPECIFICATION Spec
CONSTANTS
  Requests = {r1, r2}
  MaxQueueSize = 1
PROPERTY GracePeriod
