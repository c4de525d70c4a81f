SPECIFICATION Spec
CONSTANTS
  Task = {t1, t2, t3, t4}
  Queue = {ready, wait}
  NULL = NULL
PROPERTY ImplementsQueues
