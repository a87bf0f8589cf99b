\* The destruction of the pool by a thread that has used it.
CONSTANTS
  Threads = {t1}
  Clients = {c1, c2}
  pool_size_ = 1
  NULL = NULL
SPECIFICATION Spec
INVARIANTS NothingLeaks
CHECK_DEADLOCK FALSE
