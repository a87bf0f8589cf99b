\* Two threads, each of which can have two clients, and a pool of one.
CONSTANTS
  Threads = {t1, t2}
  Clients = {c1, c2, c3, c4, c5}
  pool_size_ = 1
  NULL = NULL
SPECIFICATION Spec
INVARIANTS TypeOK Exclusive NoDangling NoLeak PoolBound
PROPERTIES ImplementsPool
CHECK_DEADLOCK FALSE
