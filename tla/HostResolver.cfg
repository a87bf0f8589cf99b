CONSTANTS
  Threads = {t1, t2, t3}
  Hosts = {h}
  Services = {s1, s2}
  Addresses = {a}
SPECIFICATION Spec
INVARIANTS TypeOK ReachesItsHost AskedOnce
PROPERTIES Settles
