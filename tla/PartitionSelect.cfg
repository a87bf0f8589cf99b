\* Two databases, relative writes, a host in each of two groups.
CONSTANTS
  k1 = k1
  k2 = k2
  a = a
  b = b
  v1 = v1
  v2 = v2
  setnx = setnx
  incr = incr
  lpop = lpop
  Callers <- OneCaller
  Keys <- OneKey
  KeyLists <- OneList
  Values = {v1, v2}
  Nil = Nil
  Changes = {setnx, incr, lpop}
  effect <- Relative
  Databases = {0, 1}
  HostCount = 2
  partitions_ = 1
  hash_fn_ <- OneHash
  thread_id <- OneSeed
SPECIFICATION Spec
INVARIANTS Replicated Truthful
