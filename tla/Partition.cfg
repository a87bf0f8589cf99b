\* Two callers, four hosts in two groups.
CONSTANTS
  k1 = k1
  k2 = k2
  a = a
  b = b
  v1 = v1
  v2 = v2
  setnx = setnx
  incr = incr
  lpop = lpop
  Callers <- TwoCallers
  Keys <- TwoKeys
  KeyLists <- Lists
  Values = {v1}
  Nil = Nil
  Changes = {setnx}
  effect <- SetnxOnly
  Databases = {0}
  HostCount = 4
  partitions_ = 2
  hash_fn_ <- OneEach
  thread_id <- DifferentSeeds
SPECIFICATION Spec
INVARIANTS TypeOK Placement Replicated Truthful
