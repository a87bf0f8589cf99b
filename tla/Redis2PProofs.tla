--------------------------- MODULE Redis2PProofs ---------------------------
(***************************************************************************)
(* Proofs about Redis2P.                                                   *)
(***************************************************************************)
EXTENDS Redis2P, SequenceTheorems, FiniteSetTheorems, TLAPS

-----------------------------------------------------------------------------
(***************************************************************************)
(* Routing: the arithmetic of groups and hosts.                            *)
(***************************************************************************)

\* Division with remainder: what get_key_host_index and inner_init rest on.
LEMMA Division ==
  ASSUME NEW x \in Nat, NEW y \in Nat \ {0}
  PROVE  /\ x \div y \in Nat
         /\ x % y \in 0..(y - 1)
         /\ x = y * (x \div y) + (x % y)
<1>1. x \div y \in Nat
  BY SMT
<1>2. x % y \in 0..(y - 1)
  BY SMT
<1>3. x = y * (x \div y) + (x % y)
  BY Z3
<1>4. QED
  BY <1>1, <1>2, <1>3

\* A host's number determines its group and its place in the group.
LEMMA Decomposition ==
  ASSUME NEW y \in Nat \ {0}, NEW p \in Nat, NEW q \in Nat,
         NEW r \in 0..(y - 1), NEW s \in 0..(y - 1),
         r + y * p = s + y * q
  PROVE  p = q /\ r = s
<1>1. ~(p < q)
  <2>1. SUFFICES ASSUME p < q PROVE FALSE
    OBVIOUS
  <2>2. PICK e \in Nat : q = p + 1 + e
    <3>1. q - p - 1 \in Nat /\ q = p + 1 + (q - p - 1)
      BY <2>1
    <3>2. QED
      BY <3>1
  <2>3. y * q = y * p + y + y * e
    BY <2>2
  <2>4. y * e \in Nat /\ y * p \in Nat
    BY <2>2
  <2>5. QED
    BY <2>3, <2>4
<1>2. ~(q < p)
  <2>1. SUFFICES ASSUME q < p PROVE FALSE
    OBVIOUS
  <2>2. PICK e \in Nat : p = q + 1 + e
    <3>1. p - q - 1 \in Nat /\ p = q + 1 + (p - q - 1)
      BY <2>1
    <3>2. QED
      BY <3>1
  <2>3. y * p = y * q + y + y * e
    BY <2>2
  <2>4. y * e \in Nat /\ y * q \in Nat
    BY <2>2
  <2>5. QED
    BY <2>3, <2>4
<1>3. p = q
  BY <1>1, <1>2
<1>4. QED
  BY <1>3

\* The remainder is the only one.
LEMMA Remainder ==
  ASSUME NEW y \in Nat \ {0}, NEW q \in Nat, NEW r \in 0..(y - 1)
  PROVE  (y * q + r) % y = r
<1> DEFINE x == y * q + r
<1>1. x \in Nat
  OBVIOUS
<1>2. x \div y \in Nat /\ x % y \in 0..(y - 1) /\ x = y * (x \div y) + (x % y)
  BY <1>1, Division
<1>3. r + y * q = (x % y) + y * (x \div y)
  <2> HIDE DEF x
  <2>1. y * (x \div y) \in Nat /\ x % y \in Nat /\ x = y * (x \div y) + (x % y)
    BY <1>2
  <2>2. x = r + y * q
    BY DEF x
  <2>3. QED
    BY <2>1, <2>2
<1>4. QED
  BY <1>2, <1>3, Decomposition

\* What the constructor's test ensures: the groups have host_num hosts each
\* and together they have all of them.
LEMMA Grouping ==
  ASSUME inner_init
  PROVE  /\ groups_ \in Nat \ {0}
         /\ host_num \in Nat \ {0}
         /\ host_num * groups_ = HostCount
<1>1. groups_ \in Nat \ {0}
  BY Division, Redis2PAssumption DEF inner_init, groups_
<1>2. /\ host_num \in Nat
      /\ HostCount = groups_ * host_num + (HostCount % groups_)
      /\ HostCount % groups_ = 0
  BY <1>1, Division, Redis2PAssumption DEF inner_init, host_num
<1>3. HostCount = groups_ * host_num
  <2>1. groups_ * host_num \in Nat
    BY <1>1, <1>2
  <2>2. QED
    BY <2>1, <1>2
<1>4. host_num # 0
  BY <1>1, <1>3, Redis2PAssumption
<1>5. QED
  BY <1>1, <1>2, <1>3, <1>4

\* A place in the group and a group make a host.
LEMMA InHosts ==
  ASSUME inner_init, NEW p \in 0..(host_num - 1), NEW g \in 0..(groups_ - 1)
  PROVE  p + host_num * g \in Hosts
<1>1. /\ groups_ \in Nat \ {0}
      /\ host_num \in Nat \ {0}
      /\ host_num * groups_ = HostCount
  BY Grouping
<1>2. PICK e \in Nat : groups_ = g + 1 + e
  <2>1. groups_ - g - 1 \in Nat /\ groups_ = g + 1 + (groups_ - g - 1)
    BY <1>1
  <2>2. QED
    BY <2>1
<1>3. HostCount = host_num * g + host_num + host_num * e
  BY <1>1, <1>2
<1>4. host_num * g \in Nat /\ host_num * e \in Nat
  BY <1>1, <1>2
<1>5. p + host_num * g \in Nat /\ p + host_num * g < HostCount
  BY <1>1, <1>3, <1>4
<1>6. HostCount \in Nat
  BY Redis2PAssumption
<1>7. QED
  BY <1>5, <1>6 DEF Hosts

LEMMA PlaceInGroup ==
  ASSUME inner_init, NEW k \in Keys
  PROVE  get_key_host_index(k) \in 0..(host_num - 1)
  BY Grouping, Division, Redis2PAssumption DEF get_key_host_index

\* Every copy of a key is on a host.
LEMMA ReplicasAreHosts ==
  ASSUME inner_init, NEW k \in Keys
  PROVE  /\ Replicas(k) \subseteq Hosts
         /\ \A g \in 0..(groups_ - 1) : Index(k, g) \in Hosts /\ Index(k, g) \in Replicas(k)
  BY PlaceInGroup, InHosts DEF Replicas, Index

\* Whatever the seed, get_key_client visits the copy in every group.
LEMMA VisitsEveryGroup ==
  ASSUME inner_init, NEW t \in Nat, NEW g \in 0..(groups_ - 1)
  PROVE  \E i \in 1..groups_ : (t + i - 1) % groups_ = g
<1>1. groups_ \in Nat \ {0}
  BY Grouping
<1> DEFINE q == t \div groups_
           r == t % groups_
<1>2. q \in Nat /\ r \in 0..(groups_ - 1) /\ t = groups_ * q + r
  BY <1>1, Division
<1> HIDE DEF q, r
<1>3. groups_ * q \in Nat
  BY <1>1, <1>2
<1>4. CASE g >= r
  <2>1. g - r + 1 \in 1..groups_ /\ t + (g - r + 1) - 1 = groups_ * q + g
    BY <1>1, <1>2, <1>3, <1>4
  <2>2. (groups_ * q + g) % groups_ = g
    BY <1>1, <1>2, Remainder
  <2>3. QED
    BY <2>1, <2>2
<1>5. CASE g < r
  <2>1. q + 1 \in Nat /\ groups_ * (q + 1) = groups_ * q + groups_
    BY <1>1, <1>2
  <2>2. /\ g - r + groups_ + 1 \in 1..groups_
        /\ t + (g - r + groups_ + 1) - 1 = groups_ * (q + 1) + g
    BY <1>1, <1>2, <1>3, <1>5, <2>1
  <2>3. (groups_ * (q + 1) + g) % groups_ = g
    BY <1>1, <2>1, Remainder
  <2>4. QED
    BY <2>2, <2>3
<1>6. QED
  BY <1>1, <1>2, <1>4, <1>5

\* get_key_client and get_keys_client: the copies of the key, all of them.
LEMMA KeyRoute ==
  ASSUME inner_init, NEW c \in Callers, NEW k \in Keys, NEW op
  PROVE  /\ HostsFor(c, op, k) \in Seq(Hosts)
         /\ HostsFor(c, op, k) # << >>
         /\ \A i \in 1..Len(HostsFor(c, op, k)) : HostsFor(c, op, k)[i] \in Replicas(k)
         /\ \A h \in Replicas(k) :
              \E i \in 1..Len(HostsFor(c, op, k)) : HostsFor(c, op, k)[i] = h
<1>1. groups_ \in Nat \ {0} /\ thread_id[c] \in Nat
  BY Grouping, Redis2PAssumption
<1>2. ASSUME NEW i \in 1..groups_
      PROVE  i - 1 \in 0..(groups_ - 1) /\ (thread_id[c] + i - 1) % groups_ \in 0..(groups_ - 1)
  <2>1. thread_id[c] + i - 1 \in Nat
    BY <1>1
  <2>2. QED
    BY <2>1, <1>1, Division
<1>3. CASE op = "del"
  <2> DEFINE hs == get_keys_client(k)
  <2>1. HostsFor(c, op, k) = hs
    BY <1>3 DEF HostsFor
  <2>2. \A i \in 1..groups_ : hs[i] \in Hosts /\ hs[i] \in Replicas(k)
    BY <1>2, ReplicasAreHosts DEF get_keys_client
  <2>3. hs = [i \in 1..groups_ |-> hs[i]]
    BY DEF get_keys_client
  <2>4. hs \in Seq(Hosts) /\ Len(hs) = groups_
    BY <1>1, <2>2, <2>3
  <2>5. \A h \in Replicas(k) : \E i \in 1..groups_ : hs[i] = h
    <3>1. SUFFICES ASSUME NEW g \in 0..(groups_ - 1)
                   PROVE  \E i \in 1..groups_ : hs[i] = Index(k, g)
      BY DEF Replicas
    <3>2. g + 1 \in 1..groups_ /\ (g + 1) - 1 = g
      BY <1>1
    <3>3. hs[g + 1] = Index(k, g)
      BY <3>2 DEF get_keys_client
    <3>4. QED
      BY <3>2, <3>3
  <2>6. hs # << >>
    BY <1>1, <2>4
  <2>7. QED
    BY <2>1, <2>2, <2>4, <2>5, <2>6
<1>4. CASE op # "del"
  <2> DEFINE hs == get_key_client(c, k)
  <2>1. HostsFor(c, op, k) = hs
    BY <1>4 DEF HostsFor
  <2>2. \A i \in 1..groups_ : hs[i] \in Hosts /\ hs[i] \in Replicas(k)
    BY <1>2, ReplicasAreHosts DEF get_key_client
  <2>3. hs = [i \in 1..groups_ |-> hs[i]]
    BY DEF get_key_client
  <2>4. hs \in Seq(Hosts) /\ Len(hs) = groups_
    BY <1>1, <2>2, <2>3
  <2>5. \A h \in Replicas(k) : \E i \in 1..groups_ : hs[i] = h
    <3>1. SUFFICES ASSUME NEW g \in 0..(groups_ - 1)
                   PROVE  \E i \in 1..groups_ : hs[i] = Index(k, g)
      BY DEF Replicas
    <3>2. PICK i \in 1..groups_ : (thread_id[c] + i - 1) % groups_ = g
      BY <1>1, VisitsEveryGroup
    <3>3. hs[i] = Index(k, g)
      BY <3>2 DEF get_key_client
    <3>4. QED
      BY <3>3
  <2>6. hs # << >>
    BY <1>1, <2>4
  <2>7. QED
    BY <2>1, <2>2, <2>4, <2>5, <2>6
<1>5. QED
  BY <1>3, <1>4

\* Numbers that differ by less than y have different remainders.
LEMMA DistinctRemainders ==
  ASSUME NEW x \in Nat, NEW y \in Nat \ {0}, NEW e \in 0..(y - 1), x % y = (x + e) % y
  PROVE  e = 0
<1> DEFINE p == x \div y
           q == (x + e) \div y
           r == x % y
<1>1. x + e \in Nat
  OBVIOUS
<1>2. p \in Nat /\ r \in 0..(y - 1) /\ x = y * p + r
  BY Division
<1>3. q \in Nat /\ x + e = y * q + r
  BY <1>1, Division
<1> HIDE DEF p, q, r
<1>4. y * p \in Nat /\ y * q \in Nat
  BY <1>2, <1>3
<1>5. e + y * p = 0 + y * q
  BY <1>2, <1>3, <1>4
<1>6. QED
  BY <1>2, <1>3, <1>5, Decomposition

\* Each copy of a key is called once.
LEMMA DistinctRoute ==
  ASSUME inner_init, NEW c \in Callers, NEW k \in Keys, NEW op
  PROVE  \A m, n \in 1..Len(HostsFor(c, op, k)) :
           HostsFor(c, op, k)[m] = HostsFor(c, op, k)[n] => m = n
<1>1. groups_ \in Nat \ {0} /\ host_num \in Nat \ {0} /\ thread_id[c] \in Nat
  BY Grouping, Redis2PAssumption
<1>2. get_key_host_index(k) \in 0..(host_num - 1)
  BY PlaceInGroup
<1>3. ASSUME NEW g \in 0..(groups_ - 1), NEW h \in 0..(groups_ - 1), Index(k, g) = Index(k, h)
      PROVE  g = h
  <2>1. g \in Nat /\ h \in Nat
    BY <1>1
  <2>2. QED
    BY <1>1, <1>2, <1>3, <2>1, Decomposition DEF Index
<1>4. HostsFor(c, op, k) \in Seq(Hosts)
  BY <1>1, KeyRoute
<1>5. CASE op = "del"
  <2>1. HostsFor(c, op, k) = [i \in 1..groups_ |-> Index(k, i - 1)]
    BY <1>5 DEF HostsFor, get_keys_client
  <2>2. Len(HostsFor(c, op, k)) = groups_
    BY <1>1, <1>4, <2>1
  <2>3. \A m, n \in 1..groups_ : Index(k, m - 1) = Index(k, n - 1) => m = n
    <3>1. ASSUME NEW m \in 1..groups_, NEW n \in 1..groups_, Index(k, m - 1) = Index(k, n - 1)
          PROVE  m = n
      <4>1. m - 1 \in 0..(groups_ - 1) /\ n - 1 \in 0..(groups_ - 1)
        BY <1>1
      <4>2. m - 1 = n - 1
        BY <1>3, <3>1, <4>1
      <4>3. QED
        BY <1>1, <4>2
    <3>2. QED
      BY <3>1
  <2>4. \A i \in 1..groups_ : HostsFor(c, op, k)[i] = Index(k, i - 1)
    BY <2>1
  <2>5. QED
    BY <2>2, <2>3, <2>4
<1>6. CASE op # "del"
  <2> DEFINE g(i) == (thread_id[c] + i - 1) % groups_
  <2>1. HostsFor(c, op, k) = [i \in 1..groups_ |-> Index(k, g(i))]
    BY <1>6 DEF HostsFor, get_key_client
  <2>2. Len(HostsFor(c, op, k)) = groups_
    BY <1>1, <1>4, <2>1
  <2>3. ASSUME NEW i \in 1..groups_
        PROVE  thread_id[c] + i - 1 \in Nat /\ g(i) \in 0..(groups_ - 1)
    <3>1. thread_id[c] + i - 1 \in Nat
      BY <1>1
    <3>2. QED
      BY <1>1, <3>1, Division
  <2>4. ASSUME NEW m \in 1..groups_, NEW n \in 1..groups_, m <= n, g(m) = g(n)
        PROVE  m = n
    <3> DEFINE x == thread_id[c] + m - 1
               e == n - m
    <3>1. x \in Nat /\ e \in 0..(groups_ - 1) /\ x + e = thread_id[c] + n - 1
      <4>1. groups_ \in Nat /\ thread_id[c] \in Nat /\ m \in 1..groups_ /\ n \in 1..groups_ /\ m <= n
        BY <1>1, <2>4
      <4> HIDE DEF g
      <4>2. QED
        BY ONLY <4>1
    <3>2. x % groups_ = (x + e) % groups_
      BY <2>4, <3>1
    <3> HIDE DEF x
    <3>3. e = 0
      BY <1>1, <3>1, <3>2, DistinctRemainders
    <3>4. QED
      BY <3>3
  <2>5. ASSUME NEW m \in 1..groups_, NEW n \in 1..groups_, g(m) = g(n)
        PROVE  m = n
    <3>1. m <= n \/ n <= m
      OBVIOUS
    <3>2. QED
      BY <2>4, <2>5, <3>1
  <2> HIDE DEF g
  <2>6. \A m, n \in 1..groups_ : Index(k, g(m)) = Index(k, g(n)) => m = n
    BY <1>3, <2>3, <2>5
  <2>7. \A i \in 1..groups_ : HostsFor(c, op, k)[i] = Index(k, g(i))
    BY <2>1
  <2>8. QED
    BY <2>2, <2>6, <2>7
<1>7. QED
  BY <1>5, <1>6

\* redis2_sp_vector_: every host.
LEMMA AllRoute ==
  /\ AllHosts \in Seq(Hosts) /\ AllHosts # << >>
  /\ \A h \in Hosts : \E i \in 1..Len(AllHosts) : AllHosts[i] = h
<1>1. HostCount \in Nat \ {0}
  BY Redis2PAssumption
<1>2. \A i \in 1..HostCount : AllHosts[i] \in Hosts
  BY <1>1 DEF AllHosts, Hosts
<1>3. AllHosts = [i \in 1..HostCount |-> AllHosts[i]]
  BY DEF AllHosts
<1>4. AllHosts \in Seq(Hosts) /\ Len(AllHosts) = HostCount
  BY <1>1, <1>2, <1>3
<1>5. ASSUME NEW h \in Hosts PROVE h + 1 \in 1..HostCount /\ AllHosts[h + 1] = h
  BY <1>1 DEF AllHosts, Hosts
<1>6. QED
  BY <1>1, <1>4, <1>5

\* get_group_client: the hosts of one group, in their order.
LEMMA GroupRoute ==
  ASSUME inner_init, NEW c \in Callers
  PROVE  /\ thread_id[c] % groups_ \in 0..(groups_ - 1)
         /\ get_group_client(c) \in Seq(Hosts)
         /\ get_group_client(c) # << >>
         /\ Len(get_group_client(c)) = host_num
<1>1. groups_ \in Nat \ {0} /\ host_num \in Nat \ {0} /\ thread_id[c] \in Nat
  BY Grouping, Redis2PAssumption
<1>2. thread_id[c] % groups_ \in 0..(groups_ - 1)
  BY <1>1, Division
<1> DEFINE hs == get_group_client(c)
           g == thread_id[c] % groups_
<1>3. ASSUME NEW i \in 1..host_num PROVE hs[i] \in Hosts
  <2>1. hs[i] = g * host_num + i - 1
    BY DEF get_group_client
  <2> HIDE DEF g
  <2>2. g \in 0..(groups_ - 1)
    BY <1>2 DEF g
  <2>3. i - 1 \in 0..(host_num - 1)
    BY <1>1
  <2>4. (i - 1) + host_num * g \in Hosts
    BY <2>2, <2>3, InHosts
  <2>5. g * host_num + i - 1 = (i - 1) + host_num * g
    BY <1>1, <2>2, <2>3
  <2>6. QED
    BY <2>1, <2>4, <2>5
<1>4. hs = [i \in 1..host_num |-> hs[i]]
  BY DEF get_group_client
<1> HIDE DEF hs
<1>5. hs \in Seq(Hosts) /\ Len(hs) = host_num
  BY <1>1, <1>3, <1>4
<1>6. hs # << >>
  BY <1>1, <1>5
<1>7. QED
  BY <1>2, <1>5, <1>6 DEF hs

-----------------------------------------------------------------------------
(***************************************************************************)
(* The invariant's parts as predicates of a value of the state, so that    *)
(* they can be spoken of before and after a step.                          *)
(***************************************************************************)

\* What a method j writes whose object works in the databases f.
Area(f, j) ==
  CASE j.op = "move" -> ({f[h] : h \in Replicas(KeyOf(j)) \cap Hosts} \cup {j.value}) \X {KeyOf(j)}
    [] j.op \in KeyedWrites \ {"move"} ->
         {f[h] : h \in Replicas(KeyOf(j)) \cap Hosts} \X {KeyOf(j)}
    [] j.op = "flushdb"  -> {f[h] : h \in Hosts \cap Hosts} \X Keys
    [] j.op = "flushall" -> Databases \X Keys
    [] OTHER -> {}

Split(A) == \E x, y \in A : x[1] # y[1]

Rest(j) == {j.hosts[i] : i \in 1..Len(j.hosts)}

Typed(j) ==
  /\ j \in Jobs
  /\ j.op \in KeyedWrites \cup Reads => j.i \in 1..Len(j.keys)
  /\ j.op # "none" => j.hosts # << >>

RoutedJob(j) ==
  /\ j.op \in KeyedWrites \cup Reads => Rest(j) \subseteq Replicas(KeyOf(j))
  /\ j.op \in Overwrites \cup {"spop"} => j.value \in Contents
  /\ j.op = "update" => j.value \in Changes /\ Len(j.keys) = 1
  /\ j.op \in {"move", "select"} => j.value \in Databases

WriteDone(S, f, j) ==
  j.op \in Overwrites /\ ~j.clash /\ ~Split(Area(f, j)) =>
    \A w \in Area(f, j), h \in Replicas(KeyOf(j)) \ Rest(j) : S[h][w[1]][w[2]] = j.value

Distinct(hs) == \A m, n \in 1..Len(hs) : hs[m] = hs[n] => m = n

UpdateDone(S, f, j, L, T) ==
  j.op = "update" =>
    /\ Distinct(j.hosts)
    /\ ~j.clash /\ ~Split(Area(f, j)) =>
         \A w \in Area(f, j), h \in Replicas(KeyOf(j)) :
           ~T[w[1]][w[2]] =>
             S[h][w[1]][w[2]] =
               IF h \in Rest(j) THEN L[w[1]][w[2]] ELSE effect[j.value][L[w[1]][w[2]]]

FlushDone(S, f, j) ==
  /\ j.op \in Flushes /\ j.ok /\ ~j.clash
  /\ j.op = "flushdb" => ~Split(Area(f, j))
  => \A w \in Area(f, j), h \in Hosts \ Rest(j) : S[h][w[1]][w[2]] = Nil

ApartIn(D, J) ==
  \A c, u \in Callers :
    c # u /\ ~J[c].clash => Area(D[c], J[c]) \cap Area(D[u], J[u]) = {}

ReplicatedIn(S, D, J, L, T) ==
  \A d \in Databases, k \in Keys :
    (~T[d][k] /\ \A c \in Callers : <<d, k>> \notin Area(D[c], J[c])) =>
      \A h \in Replicas(k) : S[h][d][k] = L[d][k]

LEMMA AreaNow ==
  /\ \A c : Writing(c, job[c]) = Area(db[c], job[c])
  /\ \A c, j : Writing(c, j) = Area(db[c], j)
  /\ \A c : Divided(c) = Split(Area(db[c], job[c]))
  /\ \A c : Remaining(c) = Rest(job[c])
  BY DEF Writing, Area, DbsAt, Divided, Split, Remaining, Rest

LEMMA AreaNext ==
  /\ \A c : Writing(c, job[c])' = Area(db'[c], job'[c])
  /\ \A c : Divided(c)' = Split(Area(db'[c], job'[c]))
  /\ \A c : Remaining(c)' = Rest(job'[c])
  BY DEF Writing, Area, DbsAt, Divided, Split, Remaining, Rest, KeyOf

\* The parts together, before and after.
LEMMA PartsNow ==
  /\ TypeOK = /\ store \in [Hosts -> [Databases -> [Keys -> Contents]]]
              /\ db \in [Callers -> [Hosts -> Databases]]
              /\ job \in [Callers -> Jobs]
              /\ \A c \in Callers : Typed(job[c])
              /\ last \in [Databases -> [Keys -> Contents]]
              /\ torn \in [Databases -> [Keys -> BOOLEAN]]
              /\ right \in BOOLEAN
  /\ Routed = \A c \in Callers : RoutedJob(job[c])
  /\ Apart = ApartIn(db, job)
  /\ Underway = \A c \in Callers : WriteDone(store, db[c], job[c]) /\ FlushDone(store, db[c], job[c])
  /\ UpdateUnderway = \A c \in Callers : UpdateDone(store, db[c], job[c], last, torn)
  /\ Replicated = ReplicatedIn(store, db, job, last, torn)
<1>1. TypeOK = /\ store \in [Hosts -> [Databases -> [Keys -> Contents]]]
               /\ db \in [Callers -> [Hosts -> Databases]]
               /\ job \in [Callers -> Jobs]
               /\ \A c \in Callers : Typed(job[c])
               /\ last \in [Databases -> [Keys -> Contents]]
               /\ torn \in [Databases -> [Keys -> BOOLEAN]]
               /\ right \in BOOLEAN
  BY DEF TypeOK, Typed
<1>2. Routed = \A c \in Callers : RoutedJob(job[c])
  BY AreaNow DEF Routed, RoutedJob
<1>3. Apart = ApartIn(db, job)
  BY AreaNow DEF Apart, ApartIn
<1>4. Underway = \A c \in Callers : WriteDone(store, db[c], job[c]) /\ FlushDone(store, db[c], job[c])
  BY AreaNow DEF Underway, WriteDone, FlushDone
<1>5. Replicated = ReplicatedIn(store, db, job, last, torn)
  BY AreaNow DEF Replicated, ReplicatedIn
<1>6. UpdateUnderway = \A c \in Callers : UpdateDone(store, db[c], job[c], last, torn)
  BY AreaNow DEF UpdateUnderway, UpdateDone, Distinct
<1>7. QED
  BY <1>1, <1>2, <1>3, <1>4, <1>5, <1>6

LEMMA PartsNext ==
  /\ TypeOK' = (/\ store' \in [Hosts -> [Databases -> [Keys -> Contents]]]
                /\ db' \in [Callers -> [Hosts -> Databases]]
                /\ job' \in [Callers -> Jobs]
                /\ \A c \in Callers : Typed(job'[c])
                /\ last' \in [Databases -> [Keys -> Contents]]
                /\ torn' \in [Databases -> [Keys -> BOOLEAN]]
                /\ right' \in BOOLEAN)
  /\ Routed' = \A c \in Callers : RoutedJob(job'[c])
  /\ Apart' = ApartIn(db', job')
  /\ Underway' =
       \A c \in Callers : WriteDone(store', db'[c], job'[c]) /\ FlushDone(store', db'[c], job'[c])
  /\ UpdateUnderway' = \A c \in Callers : UpdateDone(store', db'[c], job'[c], last', torn')
  /\ Replicated' = ReplicatedIn(store', db', job', last', torn')
<1>1. TypeOK' = (/\ store' \in [Hosts -> [Databases -> [Keys -> Contents]]]
                 /\ db' \in [Callers -> [Hosts -> Databases]]
                 /\ job' \in [Callers -> Jobs]
                 /\ \A c \in Callers : Typed(job'[c])
                 /\ last' \in [Databases -> [Keys -> Contents]]
                 /\ torn' \in [Databases -> [Keys -> BOOLEAN]]
                 /\ right' \in BOOLEAN)
  BY DEF TypeOK, Typed
<1>2. Routed' = \A c \in Callers : RoutedJob(job'[c])
  BY AreaNext DEF Routed, RoutedJob, KeyOf
<1>3. Apart' = ApartIn(db', job')
  BY AreaNext DEF Apart, ApartIn
<1>4. Underway' =
        \A c \in Callers : WriteDone(store', db'[c], job'[c]) /\ FlushDone(store', db'[c], job'[c])
  BY AreaNext DEF Underway, WriteDone, FlushDone, KeyOf
<1>5. Replicated' = ReplicatedIn(store', db', job', last', torn')
  BY AreaNext DEF Replicated, ReplicatedIn
<1>6. UpdateUnderway' = \A c \in Callers : UpdateDone(store', db'[c], job'[c], last', torn')
  BY AreaNext DEF UpdateUnderway, UpdateDone, Distinct, KeyOf
<1>7. QED
  BY <1>1, <1>2, <1>3, <1>4, <1>5, <1>6

LEMMA AreaSame ==
  ASSUME NEW f, NEW j, NEW l, l.op = j.op, l.keys = j.keys, l.i = j.i, l.value = j.value
  PROVE  Area(f, l) = Area(f, j) /\ KeyOf(l) = KeyOf(j)
  BY DEF Area, KeyOf

LEMMA AreaKinds ==
  ASSUME NEW f, NEW j
  PROVE  /\ j.op \in KeyedWrites \ {"move"} =>
              Area(f, j) = {f[h] : h \in Replicas(KeyOf(j)) \cap Hosts} \X {KeyOf(j)}
         /\ j.op = "move" =>
              Area(f, j) =
                ({f[h] : h \in Replicas(KeyOf(j)) \cap Hosts} \cup {j.value}) \X {KeyOf(j)}
         /\ j.op = "flushdb" => Area(f, j) = {f[h] : h \in Hosts} \X Keys
         /\ j.op = "flushall" => Area(f, j) = Databases \X Keys
         /\ j.op \notin KeyedWrites \cup Flushes => Area(f, j) = {}
<1>1. j.op \in KeyedWrites \ {"move"} =>
        Area(f, j) = {f[h] : h \in Replicas(KeyOf(j)) \cap Hosts} \X {KeyOf(j)}
  <2>1. j.op \in KeyedWrites \ {"move"} =>
          j.op # "flushdb" /\ j.op # "flushall" /\ j.op # "move"
    BY DEF KeyedWrites
  <2>2. QED
    BY <2>1 DEF Area
<1>2. j.op = "move" => j.op # "flushdb" /\ j.op # "flushall" /\ j.op \notin KeyedWrites \ {"move"}
  OBVIOUS
<1>3. j.op = "move" =>
        Area(f, j) = ({f[h] : h \in Replicas(KeyOf(j)) \cap Hosts} \cup {j.value}) \X {KeyOf(j)}
  BY <1>2 DEF Area
<1>4. j.op \in Flushes => j.op \notin KeyedWrites /\ j.op # "move"
  BY DEF KeyedWrites, Flushes
<1>5. Hosts \cap Hosts = Hosts
  OBVIOUS
<1>6. j.op = "flushdb" => Area(f, j) = {f[h] : h \in Hosts} \X Keys
  BY <1>4, <1>5 DEF Area, Flushes
<1>7. j.op = "flushall" => Area(f, j) = Databases \X Keys
  BY <1>4 DEF Area, Flushes
<1>8. j.op \notin KeyedWrites \cup Flushes => Area(f, j) = {}
  <2>1. j.op \notin KeyedWrites \cup Flushes => j.op # "move"
    BY DEF KeyedWrites
  <2>2. QED
    BY <2>1 DEF Area, Flushes
<1>9. QED
  BY <1>1, <1>3, <1>6, <1>7, <1>8

\* A write of one key is about that key, in the databases where its copies are.
LEMMA KeyedArea ==
  ASSUME NEW f, NEW j, j.op \in KeyedWrites
  PROVE  /\ \A w \in Area(f, j) : w[2] = KeyOf(j) /\ w = <<w[1], w[2]>>
         /\ \A h \in Replicas(KeyOf(j)) \cap Hosts : <<f[h], KeyOf(j)>> \in Area(f, j)
         /\ j.op = "move" => <<j.value, KeyOf(j)>> \in Area(f, j)
<1> DEFINE D == {f[h] : h \in Replicas(KeyOf(j)) \cap Hosts}
<1>1. \A h \in Replicas(KeyOf(j)) \cap Hosts : f[h] \in D
  OBVIOUS
<1>2. CASE j.op = "move"
  <2>1. Area(f, j) = (D \cup {j.value}) \X {KeyOf(j)}
    BY <1>2, AreaKinds
  <2> HIDE DEF D
  <2>2. QED
    BY <1>1, <2>1
<1>3. CASE j.op # "move"
  <2>1. Area(f, j) = D \X {KeyOf(j)}
    BY <1>3, AreaKinds
  <2> HIDE DEF D
  <2>2. QED
    BY <1>1, <1>3, <2>1
<1>4. QED
  BY <1>2, <1>3

\* The key that a method has come to is a key.
LEMMA KeyIsKey ==
  ASSUME NEW j, Typed(j), j.op \in KeyedWrites \cup Reads
  PROVE  KeyOf(j) \in Keys
  BY DEF Typed, KeyOf, Jobs

LEMMA AreaType ==
  ASSUME NEW f \in [Hosts -> Databases], NEW j, Typed(j), RoutedJob(j)
  PROVE  Area(f, j) \subseteq Databases \X Keys
<1>1. CASE j.op \in KeyedWrites \ {"move"}
  <2>1. KeyOf(j) \in Keys
    BY <1>1, KeyIsKey
  <2>2. Area(f, j) = {f[h] : h \in Replicas(KeyOf(j)) \cap Hosts} \X {KeyOf(j)}
    BY <1>1, AreaKinds
  <2>3. QED
    BY <2>1, <2>2
<1>2. CASE j.op = "move"
  <2>1. KeyOf(j) \in Keys
    BY <1>2, KeyIsKey DEF KeyedWrites
  <2>2. j.value \in Databases
    BY <1>2 DEF RoutedJob
  <2>3. Area(f, j) = ({f[h] : h \in Replicas(KeyOf(j)) \cap Hosts} \cup {j.value}) \X {KeyOf(j)}
    BY <1>2, AreaKinds
  <2>4. QED
    BY <2>1, <2>2, <2>3
<1>3. CASE j.op = "flushdb"
  BY <1>3, AreaKinds
<1>4. CASE j.op = "flushall"
  BY <1>4, AreaKinds
<1>5. CASE j.op \notin KeyedWrites \cup Flushes
  BY <1>5, AreaKinds
<1>6. QED
  BY <1>1, <1>2, <1>3, <1>4, <1>5 DEF Flushes

-----------------------------------------------------------------------------
(***************************************************************************)
(* What a step of c leaves alone.                                          *)
(***************************************************************************)

\* The other callers, when c comes to write A.
Aside(c, A) ==
  \A u \in Callers \ {c} :
    /\ job'[u].op = job[u].op /\ job'[u].keys = job[u].keys /\ job'[u].i = job[u].i
    /\ job'[u].value = job[u].value /\ job'[u].hosts = job[u].hosts
    /\ job'[u].got = job[u].got /\ job'[u].n = job[u].n /\ job'[u].ok = job[u].ok
    /\ job[u].clash \/ A \cap Area(db[u], job[u]) # {} => job'[u].clash
    /\ job'[u].calm /\ job'[u].op # "none" =>
         job[u].calm /\ job'[u].before = job[u].before /\ job'[u].clash = job[u].clash /\ A = {}
    /\ db'[u] = db[u]

\* c comes to write A, writes on, or has nothing to write any more.
Comes(c, A) ==
  /\ Aside(c, A)
  /\ Area(db'[c], job'[c]) = A
  /\ ~job'[c].clash => \A u \in Callers \ {c} : Area(db[u], job[u]) \cap A = {}

GoesOn(c) ==
  /\ Aside(c, {})
  /\ Area(db'[c], job'[c]) = Area(db[c], job[c])
  /\ job'[c].clash = job[c].clash

Leaves(c) ==
  /\ Aside(c, {})
  /\ Area(db'[c], job'[c]) = {}

\* The host that c calls, and what c is writing there.
Touches(c) ==
  \A h \in Hosts, d \in Databases, k \in Keys :
    store'[h][d][k] # store[h][d][k] => h = Host(c) /\ <<d, k>> \in Area(db[c], job[c])

LEMMA AsideArea ==
  ASSUME NEW c, NEW A, Aside(c, A), NEW u \in Callers \ {c}
  PROVE  Area(db'[u], job'[u]) = Area(db[u], job[u]) /\ KeyOf(job'[u]) = KeyOf(job[u])
  BY AreaSame DEF Aside

\* Two methods that write the same entries know of each other or, at least,
\* the one that began first does not go on unaware.
LEMMA ApartKept ==
  ASSUME ApartIn(db, job), NEW c \in Callers,
         GoesOn(c) \/ Leaves(c) \/ (\E A : Comes(c, A))
  PROVE  ApartIn(db', job')
<1>1. SUFFICES ASSUME NEW x \in Callers, NEW y \in Callers, x # y, ~job'[x].clash
               PROVE  Area(db'[x], job'[x]) \cap Area(db'[y], job'[y]) = {}
  BY DEF ApartIn
<1>2. PICK A : Aside(c, A) /\ (GoesOn(c) \/ Leaves(c) \/ Comes(c, A))
  BY DEF GoesOn, Leaves, Comes
<1>3. CASE x # c /\ y # c
  <2>1. ~job[x].clash
    BY <1>1, <1>2, <1>3 DEF Aside
  <2>2. Area(db[x], job[x]) \cap Area(db[y], job[y]) = {}
    BY <1>1, <2>1 DEF ApartIn
  <2>3. QED
    BY <1>2, <1>3, <2>2, AsideArea
<1>4. CASE x = c
  <2>1. Area(db'[y], job'[y]) = Area(db[y], job[y])
    BY <1>1, <1>2, <1>4, AsideArea
  <2>2. CASE GoesOn(c)
    BY <1>1, <1>4, <2>1, <2>2 DEF GoesOn, ApartIn
  <2>3. CASE Leaves(c)
    BY <1>4, <2>3 DEF Leaves
  <2>4. CASE Comes(c, A)
    BY <1>1, <1>4, <2>1, <2>4 DEF Comes
  <2>5. QED
    BY <1>2, <2>2, <2>3, <2>4
<1>5. CASE y = c
  <2>1. Area(db'[x], job'[x]) = Area(db[x], job[x])
    BY <1>1, <1>2, <1>5, AsideArea
  <2>2. ~job[x].clash
    BY <1>1, <1>2, <1>5 DEF Aside
  <2>3. CASE GoesOn(c)
    BY <1>1, <1>5, <2>1, <2>2, <2>3 DEF GoesOn, ApartIn
  <2>4. CASE Leaves(c)
    BY <1>5, <2>4 DEF Leaves
  <2>5. CASE Comes(c, A)
    <3>1. A \cap Area(db[x], job[x]) = {}
      BY <1>1, <1>2, <1>5 DEF Aside
    <3>2. QED
      BY <1>5, <2>1, <2>5, <3>1 DEF Comes
  <2>6. QED
    BY <1>2, <2>3, <2>4, <2>5
<1>6. QED
  BY <1>3, <1>4, <1>5

\* What others have done so far stays.
LEMMA OthersUnderway ==
  ASSUME TypeOK, inner_init, ApartIn(db, job), NEW c \in Callers, NEW A, Aside(c, A),
         Touches(c), NEW u \in Callers \ {c}, RoutedJob(job[u]),
         \A d \in Databases, k \in Keys :
           <<d, k>> \notin Area(db[c], job[c]) =>
             last'[d][k] = last[d][k] /\ torn'[d][k] = torn[d][k],
         WriteDone(store, db[u], job[u]), FlushDone(store, db[u], job[u]),
         UpdateDone(store, db[u], job[u], last, torn)
  PROVE  /\ WriteDone(store', db'[u], job'[u]) /\ FlushDone(store', db'[u], job'[u])
         /\ UpdateDone(store', db'[u], job'[u], last', torn')
<1>1. Area(db'[u], job'[u]) = Area(db[u], job[u]) /\ KeyOf(job'[u]) = KeyOf(job[u])
  BY AsideArea
<1>2. /\ job'[u].op = job[u].op /\ job'[u].value = job[u].value /\ job'[u].ok = job[u].ok
      /\ ~job'[u].clash => ~job[u].clash
      /\ Rest(job'[u]) = Rest(job[u])
  BY DEF Aside, Rest
<1>3. Typed(job[u]) /\ db[u] \in [Hosts -> Databases]
  BY PartsNow
<1>4. Area(db[u], job[u]) \subseteq Databases \X Keys
  BY <1>3, AreaType
<1>5. ASSUME ~job[u].clash, NEW w \in Area(db[u], job[u])
      PROVE  /\ \A h \in Hosts : store'[h][w[1]][w[2]] = store[h][w[1]][w[2]]
             /\ last'[w[1]][w[2]] = last[w[1]][w[2]] /\ torn'[w[1]][w[2]] = torn[w[1]][w[2]]
  <2>1. Area(db[u], job[u]) \cap Area(db[c], job[c]) = {}
    BY <1>5 DEF ApartIn
  <2>2. w[1] \in Databases /\ w[2] \in Keys /\ w = <<w[1], w[2]>>
    BY <1>4, <1>5
  <2>3. <<w[1], w[2]>> \notin Area(db[c], job[c])
    BY <2>1, <2>2, <1>5
  <2>4. QED
    BY <2>2, <2>3 DEF Touches
<1>6. WriteDone(store', db'[u], job'[u])
  <2>1. SUFFICES ASSUME job'[u].op \in Overwrites, ~job'[u].clash,
                        ~Split(Area(db'[u], job'[u])), NEW w \in Area(db'[u], job'[u]),
                        NEW h \in Replicas(KeyOf(job'[u])) \ Rest(job'[u])
                 PROVE  store'[h][w[1]][w[2]] = job'[u].value
    BY DEF WriteDone
  <2>2. job[u].op \in Overwrites /\ ~job[u].clash /\ ~Split(Area(db[u], job[u]))
    BY <1>1, <1>2, <2>1
  <2>3. w \in Area(db[u], job[u]) /\ h \in Replicas(KeyOf(job[u])) \ Rest(job[u])
    BY <1>1, <1>2, <2>1
  <2>4. store[h][w[1]][w[2]] = job[u].value
    BY <2>2, <2>3 DEF WriteDone
  <2>5. h \in Hosts
    BY <1>3, <2>2, <2>3, KeyIsKey, ReplicasAreHosts DEF Overwrites, Repairs, KeyedWrites
  <2>6. QED
    BY <1>2, <1>5, <2>2, <2>3, <2>4, <2>5
<1>7. FlushDone(store', db'[u], job'[u])
  <2>1. SUFFICES ASSUME job'[u].op \in Flushes, job'[u].ok, ~job'[u].clash,
                        job'[u].op = "flushdb" => ~Split(Area(db'[u], job'[u])),
                        NEW w \in Area(db'[u], job'[u]), NEW h \in Hosts \ Rest(job'[u])
                 PROVE  store'[h][w[1]][w[2]] = Nil
    BY DEF FlushDone
  <2>2. /\ job[u].op \in Flushes /\ job[u].ok /\ ~job[u].clash
        /\ job[u].op = "flushdb" => ~Split(Area(db[u], job[u]))
    BY <1>1, <1>2, <2>1
  <2>3. w \in Area(db[u], job[u]) /\ h \in Hosts \ Rest(job[u])
    BY <1>1, <1>2, <2>1
  <2>4. store[h][w[1]][w[2]] = Nil
    BY <2>2, <2>3 DEF FlushDone
  <2>5. QED
    BY <1>5, <2>2, <2>3, <2>4
<1>8. UpdateDone(store', db'[u], job'[u], last', torn')
  <2>1. SUFFICES ASSUME job[u].op = "update"
                 PROVE  UpdateDone(store', db'[u], job'[u], last', torn')
    BY <1>2 DEF UpdateDone
  <2>2. Distinct(job'[u].hosts)
    BY <2>1 DEF UpdateDone, Aside
  <2>3. KeyOf(job[u]) \in Keys
    BY <1>3, <2>1, KeyIsKey DEF KeyedWrites
  <2>4. ASSUME ~job'[u].clash, ~Split(Area(db'[u], job'[u])), NEW w \in Area(db'[u], job'[u]),
               NEW h \in Replicas(KeyOf(job'[u])), ~torn'[w[1]][w[2]]
        PROVE  store'[h][w[1]][w[2]] =
                 IF h \in Rest(job'[u]) THEN last'[w[1]][w[2]]
                 ELSE effect[job'[u].value][last'[w[1]][w[2]]]
    <3>1. ~job[u].clash /\ ~Split(Area(db[u], job[u])) /\ w \in Area(db[u], job[u])
      BY <1>1, <1>2, <2>4
    <3>2. h \in Hosts /\ h \in Replicas(KeyOf(job[u]))
      BY <1>1, <2>3, <2>4, ReplicasAreHosts
    <3>3. /\ store'[h][w[1]][w[2]] = store[h][w[1]][w[2]]
          /\ last'[w[1]][w[2]] = last[w[1]][w[2]] /\ torn'[w[1]][w[2]] = torn[w[1]][w[2]]
      BY <1>5, <3>1, <3>2
    <3>4. store[h][w[1]][w[2]] =
            IF h \in Rest(job[u]) THEN last[w[1]][w[2]]
            ELSE effect[job[u].value][last[w[1]][w[2]]]
      BY <2>1, <2>4, <3>1, <3>2, <3>3 DEF UpdateDone
    <3>5. QED
      BY <1>2, <3>3, <3>4
  <2>5. QED
    BY <2>2, <2>4 DEF UpdateDone
<1>9. QED
  BY <1>6, <1>7, <1>8

\* The entries that c has stopped writing decide.
LEMMA ReplicatedKept ==
  ASSUME inner_init, ReplicatedIn(store, db, job, last, torn), NEW c \in Callers, NEW A, Aside(c, A), Touches(c),
         \A d \in Databases, k \in Keys :
           <<d, k>> \notin Area(db[c], job[c]) =>
             last'[d][k] = last[d][k] /\ torn'[d][k] = torn[d][k],
         \A d \in Databases, k \in Keys :
           /\ <<d, k>> \in Area(db[c], job[c])
           /\ <<d, k>> \notin Area(db'[c], job'[c])
           /\ ~torn'[d][k]
           => \A h \in Replicas(k) : store'[h][d][k] = last'[d][k]
  PROVE  ReplicatedIn(store', db', job', last', torn')
<1>1. SUFFICES ASSUME NEW d \in Databases, NEW k \in Keys, ~torn'[d][k],
                      \A u \in Callers : <<d, k>> \notin Area(db'[u], job'[u]),
                      NEW h \in Replicas(k)
               PROVE  store'[h][d][k] = last'[d][k]
  BY DEF ReplicatedIn
<1>2. CASE <<d, k>> \in Area(db[c], job[c])
  BY <1>1, <1>2
<1>3. CASE <<d, k>> \notin Area(db[c], job[c])
  <2>1. \A u \in Callers : <<d, k>> \notin Area(db[u], job[u])
    BY <1>1, <1>3, AsideArea
  <2>2. last'[d][k] = last[d][k] /\ torn'[d][k] = torn[d][k]
    BY <1>3
  <2>3. store[h][d][k] = last[d][k]
    BY <1>1, <2>1, <2>2 DEF ReplicatedIn
  <2>4. h \in Hosts
    BY <1>1, ReplicasAreHosts
  <2>5. store'[h][d][k] = store[h][d][k]
    BY <1>3, <2>4 DEF Touches
  <2>6. QED
    BY <2>2, <2>3, <2>5
<1>4. QED
  BY <1>2, <1>3

-----------------------------------------------------------------------------
(***************************************************************************)
(* The three ways in which a step changes the methods.                     *)
(***************************************************************************)

LEMMA NoJobTyped ==
  /\ NoJob \in Jobs /\ Typed(NoJob) /\ RoutedJob(NoJob)
  /\ \A f : Area(f, NoJob) = {}
  /\ \A S, f : WriteDone(S, f, NoJob) /\ FlushDone(S, f, NoJob)
  /\ \A S, f, L, T : UpdateDone(S, f, NoJob, L, T)
<1>1. << >> \in Seq(Keys) /\ << >> \in Seq(Hosts) /\ << >> \in Seq(Contents \cup Keys)
  OBVIOUS
<1>2. Nil \in Contents /\ Nothing \in [Keys -> Contents]
  BY DEF Contents, Nothing
<1>3. NoJob \in Jobs
  BY <1>1, <1>2 DEF NoJob, Jobs, Ops
<1>4. /\ NoJob.op = "none"
      /\ NoJob.op \notin KeyedWrites \cup Reads /\ NoJob.op \notin Flushes
      /\ NoJob.op \notin Overwrites \cup {"spop"} /\ NoJob.op \notin {"move", "select"}
  BY DEF NoJob, KeyedWrites, Reads, Flushes, Overwrites, Repairs
<1>5. QED
  BY <1>3, <1>4, AreaKinds DEF Typed, RoutedJob, WriteDone, FlushDone, UpdateDone

\* A copy of the method with another clash, calm and before.
LEMMA Marked ==
  ASSUME NEW j \in Jobs, NEW x \in BOOLEAN
  PROVE  /\ [j EXCEPT !.clash = x] \in Jobs
         /\ [j EXCEPT !.clash = x, !.calm = FALSE, !.before = Nothing] \in Jobs
<1>1. Nothing \in [Keys -> Contents]
  BY NoJobTyped DEF NoJob, Jobs
<1>2. QED
  BY <1>1 DEF Jobs

LEMMA EnterStep ==
  ASSUME TypeOK, NEW c \in Callers, NEW j \in Jobs, Enter(c, j), db' = db
  PROVE  /\ job' \in [Callers -> Jobs]
         /\ job'[c].op = j.op /\ job'[c].keys = j.keys /\ job'[c].i = j.i
         /\ job'[c].value = j.value /\ job'[c].hosts = j.hosts /\ job'[c].got = j.got
         /\ job'[c].n = j.n /\ job'[c].ok = j.ok
         /\ job'[c].calm = j.calm /\ job'[c].before = j.before
         /\ job'[c].clash = (\E u \in Callers \ {c} : Area(db[u], job[u]) \cap Area(db[c], j) # {})
         /\ Comes(c, Area(db[c], j))
<1> DEFINE A == Area(db[c], j)
           crosses(u) == Area(db[u], job[u]) \cap A # {}
           x == \E u \in Callers \ {c} : crosses(u)
<1>1. job' = [u \in Callers |->
        IF u = c THEN [j EXCEPT !.clash = x]
        ELSE IF A = {} \/ job[u].op = "none" THEN job[u]
        ELSE [job[u] EXCEPT !.clash = job[u].clash \/ crosses(u), !.calm = FALSE,
                            !.before = Nothing]]
  BY AreaNow DEF Enter
<1>2. \A u \in Callers : job[u] \in Jobs
  BY DEF TypeOK
<1> HIDE DEF A
<1>3. \A u \in Callers : (job[u].clash \/ crosses(u)) \in BOOLEAN /\ x \in BOOLEAN
  OBVIOUS
<1>4. [j EXCEPT !.clash = x] \in Jobs
  BY <1>3, Marked
<1>5. \A u \in Callers : [job[u] EXCEPT !.clash = job[u].clash \/ crosses(u), !.calm = FALSE,
                            !.before = Nothing] \in Jobs
  BY <1>2, <1>3, Marked
<1>6. job' \in [Callers -> Jobs]
  BY <1>1, <1>2, <1>4, <1>5
<1>7. job'[c] = [j EXCEPT !.clash = x]
  BY <1>1
<1>8. /\ job'[c].op = j.op /\ job'[c].keys = j.keys /\ job'[c].i = j.i
      /\ job'[c].value = j.value /\ job'[c].hosts = j.hosts /\ job'[c].got = j.got
      /\ job'[c].n = j.n /\ job'[c].ok = j.ok
      /\ job'[c].calm = j.calm /\ job'[c].before = j.before
  BY <1>7 DEF Jobs
<1>9. job'[c].clash = x
  BY <1>7 DEF Jobs
<1>10. Aside(c, A)
  <2>1. SUFFICES ASSUME NEW u \in Callers \ {c}
        PROVE  /\ job'[u].op = job[u].op /\ job'[u].keys = job[u].keys /\ job'[u].i = job[u].i
               /\ job'[u].value = job[u].value /\ job'[u].hosts = job[u].hosts
               /\ job'[u].got = job[u].got /\ job'[u].n = job[u].n /\ job'[u].ok = job[u].ok
               /\ job[u].clash \/ A \cap Area(db[u], job[u]) # {} => job'[u].clash
               /\ job'[u].calm /\ job'[u].op # "none" =>
                    job[u].calm /\ job'[u].before = job[u].before
                      /\ job'[u].clash = job[u].clash /\ A = {}
    BY DEF Aside
  <2>2. CASE A = {}
    <3>1. job'[u] = job[u]
      BY <1>1, <2>2
    <3>2. QED
      BY <2>2, <3>1
  <2>3. CASE job[u].op = "none"
    <3>1. job'[u] = job[u]
      BY <1>1, <2>3
    <3>2. Area(db[u], job[u]) = {}
      BY <2>3, AreaKinds DEF KeyedWrites, Flushes
    <3>3. QED
      BY <2>3, <3>1, <3>2
  <2>4. CASE A # {} /\ job[u].op # "none"
    <3>1. job'[u] = [job[u] EXCEPT !.clash = job[u].clash \/ crosses(u), !.calm = FALSE,
                            !.before = Nothing]
      BY <1>1, <2>4
    <3>2. job[u] \in Jobs
      BY <1>2
    <3>3. /\ job'[u].op = job[u].op /\ job'[u].keys = job[u].keys /\ job'[u].i = job[u].i
          /\ job'[u].value = job[u].value /\ job'[u].hosts = job[u].hosts
          /\ job'[u].got = job[u].got /\ job'[u].n = job[u].n /\ job'[u].ok = job[u].ok
          /\ job'[u].calm = FALSE
      BY <3>1, <3>2 DEF Jobs
    <3>4. job'[u].clash = (job[u].clash \/ crosses(u))
      BY <3>1, <3>2 DEF Jobs
    <3>5. QED
      BY <3>3, <3>4
  <2>5. QED
    BY <2>2, <2>3, <2>4
<1>11. Area(db'[c], job'[c]) = A
  BY <1>8, AreaSame DEF A
<1>12. Comes(c, A)
  BY <1>9, <1>10, <1>11 DEF Comes
<1>13. QED
  BY <1>6, <1>8, <1>9, <1>12 DEF A

\* The others stay typed and routed.
LEMMA AsideTyped ==
  ASSUME NEW c, NEW A, Aside(c, A), job' \in [Callers -> Jobs], NEW u \in Callers \ {c},
         Typed(job[u]), RoutedJob(job[u])
  PROVE  Typed(job'[u]) /\ RoutedJob(job'[u])
<1>1. Rest(job'[u]) = Rest(job[u]) /\ KeyOf(job'[u]) = KeyOf(job[u])
  BY DEF Aside, Rest, KeyOf
<1>2. job'[u] \in Jobs
  OBVIOUS
<1>3. QED
  BY <1>1, <1>2 DEF Aside, Typed, RoutedJob

\* c alone has another method l.
LEMMA AloneAside ==
  ASSUME TypeOK, NEW c \in Callers, NEW l \in Jobs, job' = [job EXCEPT ![c] = l],
         \A u \in Callers \ {c} : db'[u] = db[u]
  PROVE  job' \in [Callers -> Jobs] /\ job'[c] = l /\ Aside(c, {})
<1>1. job \in [Callers -> Jobs]
  BY DEF TypeOK
<1>2. job' \in [Callers -> Jobs] /\ job'[c] = l /\ \A u \in Callers \ {c} : job'[u] = job[u]
  BY <1>1
<1>3. QED
  BY <1>2 DEF Aside

LEMMA FinishStep ==
  ASSUME TypeOK, NEW c \in Callers, Finish(c), \A u \in Callers \ {c} : db'[u] = db[u]
  PROVE  /\ job' \in [Callers -> Jobs]
         /\ job'[c] = NoJob
         /\ Leaves(c)
<1>1. job' \in [Callers -> Jobs] /\ job'[c] = NoJob /\ Aside(c, {})
  BY AloneAside, NoJobTyped DEF Finish
<1>2. QED
  BY <1>1, NoJobTyped DEF Leaves

\* The host that a method calls.
LEMMA HostFacts ==
  ASSUME NEW c, Typed(job[c]), job[c].op # "none"
  PROVE  /\ Host(c) \in Hosts /\ Host(c) \in Rest(job[c])
         /\ Rest(job[c]) \subseteq Hosts
         /\ LastHost(c) => Rest(job[c]) = {Host(c)}
         /\ Len(job[c].hosts) \in Nat \ {0}
<1>1. job[c].hosts \in Seq(Hosts) /\ job[c].hosts # << >>
  BY DEF Typed, Jobs
<1>2. Len(job[c].hosts) \in Nat \ {0} /\ Host(c) = job[c].hosts[1]
  BY <1>1 DEF Host
<1>3. \A i \in 1..Len(job[c].hosts) : job[c].hosts[i] \in Hosts
  BY <1>1
<1>4. QED
  BY <1>2, <1>3 DEF Rest, LastHost

\* One host less to call.
LEMMA AdvanceStep ==
  ASSUME TypeOK, NEW c \in Callers, RoutedJob(job[c]), job[c].op # "none", ~LastHost(c),
         NEW l \in Jobs, job' = [job EXCEPT ![c] = l],
         l.op = job[c].op, l.keys = job[c].keys, l.i = job[c].i, l.value = job[c].value,
         l.hosts = Tail(job[c].hosts), l.clash = job[c].clash,
         \A u \in Callers \ {c} : db'[u] = db[u],
         db'[c] = db[c] \/ job[c].op = "select"
  PROVE  /\ job' \in [Callers -> Jobs]
         /\ job'[c] = l
         /\ Typed(l) /\ RoutedJob(l)
         /\ GoesOn(c)
         /\ Rest(l) \subseteq Rest(job[c])
         /\ \A h \in Rest(job[c]) : h = Host(c) \/ h \in Rest(l)
<1>1. job' \in [Callers -> Jobs] /\ job'[c] = l /\ Aside(c, {})
  BY AloneAside
<1>2. Typed(job[c])
  BY PartsNow
<1>3. job[c].hosts \in Seq(Hosts) /\ Len(job[c].hosts) \in Nat \ {0} /\ Len(job[c].hosts) # 1
  BY <1>2, HostFacts DEF LastHost, Typed, Jobs
<1>4. /\ Len(l.hosts) = Len(job[c].hosts) - 1
      /\ \A i \in 1..Len(l.hosts) : l.hosts[i] = job[c].hosts[i + 1]
      /\ l.hosts # << >>
  <2>1. job[c].hosts # << >>
    BY <1>3
  <2>2. Len(Tail(job[c].hosts)) = Len(job[c].hosts) - 1
    BY <1>3, <2>1
  <2>3. \A i \in 1..Len(Tail(job[c].hosts)) : Tail(job[c].hosts)[i] = job[c].hosts[i + 1]
    BY <1>3, <2>1, <2>2
  <2>4. Len(Tail(job[c].hosts)) # 0
    BY <1>3, <2>2
  <2>5. Tail(job[c].hosts) # << >>
    <3>1. Len(<< >>) = 0
      OBVIOUS
    <3>2. QED
      BY ONLY <2>4, <3>1
  <2>6. QED
    BY <2>2, <2>3, <2>5
<1>5. Rest(l) \subseteq Rest(job[c])
  BY <1>3, <1>4 DEF Rest
<1>6. ASSUME NEW h \in Rest(job[c]) PROVE h = Host(c) \/ h \in Rest(l)
  <2>1. PICK i \in 1..Len(job[c].hosts) : h = job[c].hosts[i]
    BY <1>6 DEF Rest
  <2>2. CASE i = 1
    BY <1>3, <2>1, <2>2 DEF Host
  <2>3. CASE i # 1
    <3>1. i - 1 \in 1..Len(l.hosts) /\ (i - 1) + 1 = i
      BY <1>3, <1>4, <2>3
    <3>2. l.hosts[i - 1] = h
      BY <1>4, <2>1, <3>1
    <3>3. QED
      BY <3>1, <3>2 DEF Rest
  <2>4. QED
    BY <2>2, <2>3
<1>7. Typed(l)
  BY <1>2, <1>4 DEF Typed
<1>8. KeyOf(l) = KeyOf(job[c])
  BY DEF KeyOf
<1>9. RoutedJob(l)
  BY <1>5, <1>8 DEF RoutedJob
<1>10. Area(db'[c], l) = Area(db[c], job[c])
  <2>1. CASE db'[c] = db[c]
    BY <2>1, AreaSame
  <2>2. CASE job[c].op = "select"
    <3>1. l.op \notin KeyedWrites \cup Flushes /\ job[c].op \notin KeyedWrites \cup Flushes
      BY <2>2 DEF KeyedWrites, Flushes
    <3>2. QED
      BY <3>1, AreaKinds
  <2>3. QED
    BY <2>1, <2>2
<1>11. GoesOn(c)
  BY <1>1, <1>10 DEF GoesOn
<1>12. QED
  BY <1>1, <1>5, <1>6, <1>7, <1>9, <1>11

\* A host that has been called is not called again.
LEMMA AdvanceDistinct ==
  ASSUME NEW hs \in Seq(Hosts), hs # << >>, Distinct(hs)
  PROVE  /\ Distinct(Tail(hs))
         /\ \A i \in 1..Len(Tail(hs)) : Tail(hs)[i] # Head(hs)
<1>1. Len(hs) \in Nat \ {0} /\ Head(hs) = hs[1]
  OBVIOUS
<1>2. Len(Tail(hs)) = Len(hs) - 1
  OBVIOUS
<1>3. \A i \in 1..Len(Tail(hs)) : Tail(hs)[i] = hs[i + 1]
  BY <1>2
<1>4. ASSUME NEW i \in 1..Len(Tail(hs)) PROVE i + 1 \in 1..Len(hs) /\ i + 1 # 1
  BY <1>1, <1>2
<1>5. \A i \in 1..Len(Tail(hs)) : Tail(hs)[i] # Head(hs)
  BY <1>1, <1>3, <1>4 DEF Distinct
<1>6. ASSUME NEW m \in 1..Len(Tail(hs)), NEW n \in 1..Len(Tail(hs)), Tail(hs)[m] = Tail(hs)[n]
      PROVE  m = n
  <2>1. m + 1 \in 1..Len(hs) /\ n + 1 \in 1..Len(hs) /\ hs[m + 1] = hs[n + 1]
    BY <1>3, <1>4, <1>6
  <2>2. m + 1 = n + 1
    BY <2>1 DEF Distinct
  <2>3. QED
    BY <1>1, <1>2, <2>2
<1>7. QED
  BY <1>5, <1>6 DEF Distinct

-----------------------------------------------------------------------------
(***************************************************************************)
(* What is stored.                                                         *)
(***************************************************************************)

\* What every step of c satisfies, and what suffices for the invariant.
StepFacts(c) ==
  /\ store' \in [Hosts -> [Databases -> [Keys -> Contents]]]
  /\ db' \in [Callers -> [Hosts -> Databases]]
  /\ job' \in [Callers -> Jobs]
  /\ Typed(job'[c]) /\ RoutedJob(job'[c])
  /\ last' \in [Databases -> [Keys -> Contents]]
  /\ torn' \in [Databases -> [Keys -> BOOLEAN]]
  /\ right' \in BOOLEAN
  /\ GoesOn(c) \/ Leaves(c) \/ (\E A : Comes(c, A))
  /\ Touches(c)
  /\ \A h \in Hosts, d \in Databases, k \in Keys :
       store'[h][d][k] = store[h][d][k] \/ store'[h][d][k] = Nil \/ h \in Replicas(k)
  /\ WriteDone(store', db'[c], job'[c]) /\ FlushDone(store', db'[c], job'[c])
  /\ UpdateDone(store', db'[c], job'[c], last', torn')
  /\ \A d \in Databases, k \in Keys :
       <<d, k>> \notin Area(db[c], job[c]) =>
         last'[d][k] = last[d][k] /\ torn'[d][k] = torn[d][k]
  /\ \A d \in Databases, k \in Keys :
       /\ <<d, k>> \in Area(db[c], job[c])
       /\ <<d, k>> \notin Area(db'[c], job'[c])
       /\ ~torn'[d][k]
       => \A h \in Replicas(k) : store'[h][d][k] = last'[d][k]

LEMMA StepKeeps ==
  ASSUME StoreInv, NEW c \in Callers, StepFacts(c)
  PROVE  StoreInv'
<1> USE DEF StoreInv
<1>1. PICK A : Aside(c, A)
  BY DEF StepFacts, GoesOn, Leaves, Comes
<1>2. ApartIn(db, job) /\ ReplicatedIn(store, db, job, last, torn)
  BY PartsNow
<1>3. \A u \in Callers : Typed(job[u]) /\ RoutedJob(job[u])
  BY PartsNow
<1>4. \A u \in Callers : /\ WriteDone(store, db[u], job[u]) /\ FlushDone(store, db[u], job[u])
                         /\ UpdateDone(store, db[u], job[u], last, torn)
  BY PartsNow
<1>5. \A u \in Callers : Typed(job'[u]) /\ RoutedJob(job'[u])
  BY <1>1, <1>3, AsideTyped DEF StepFacts
<1>6. TypeOK' /\ Routed'
  BY <1>5, PartsNext DEF StepFacts
<1>7. Apart'
  BY <1>2, ApartKept, PartsNext DEF StepFacts
<1>8. Underway' /\ UpdateUnderway'
  <2>1. \A u \in Callers \ {c} :
          /\ WriteDone(store', db'[u], job'[u]) /\ FlushDone(store', db'[u], job'[u])
          /\ UpdateDone(store', db'[u], job'[u], last', torn')
    BY <1>1, <1>2, <1>3, <1>4, OthersUnderway DEF StepFacts
  <2>2. QED
    BY <2>1, PartsNext DEF StepFacts
<1>9. Replicated'
  <2>1. ReplicatedIn(store', db', job', last', torn')
    BY <1>1, <1>2, ReplicatedKept DEF StepFacts
  <2>2. QED
    BY <2>1, PartsNext
<1>10. Placement'
  BY DEF Placement, StepFacts
<1>11. inner_init'
  BY DEF inner_init
<1>12. QED
  BY <1>6, <1>7, <1>8, <1>9, <1>10, <1>11

\* The invariant's facts about one caller.
LEMMA OneCaller ==
  ASSUME StoreInv, NEW c \in Callers
  PROVE  /\ Typed(job[c]) /\ RoutedJob(job[c])
         /\ WriteDone(store, db[c], job[c]) /\ FlushDone(store, db[c], job[c])
         /\ UpdateDone(store, db[c], job[c], last, torn)
         /\ db[c] \in [Hosts -> Databases]
         /\ Area(db[c], job[c]) \subseteq Databases \X Keys
<1>1. Typed(job[c]) /\ RoutedJob(job[c]) /\ db[c] \in [Hosts -> Databases]
  BY PartsNow DEF StoreInv
<1>2. /\ WriteDone(store, db[c], job[c]) /\ FlushDone(store, db[c], job[c])
      /\ UpdateDone(store, db[c], job[c], last, torn)
  BY PartsNow DEF StoreInv
<1>3. QED
  BY <1>1, <1>2, AreaType

\* What a call that is not move stores.
LEMMA NewStored ==
  ASSUME StoreInv, NEW c \in Callers, job[c].op \in KeyedWrites \ {"move"}, WriteHost(c)
  PROVE  \E v \in Contents :
           /\ store' = [store EXCEPT ![Host(c)][db[c][Host(c)]][KeyOf(job[c])] = v]
           /\ job[c].op \in Overwrites => v = job[c].value
           /\ job[c].op = "update" => v = effect[job[c].value][Held(c)[KeyOf(job[c])]]
<1> DEFINE old == Held(c)[KeyOf(job[c])]
<1>1. Typed(job[c]) /\ RoutedJob(job[c]) /\ db[c] \in [Hosts -> Databases]
  BY OneCaller
<1>2. job[c].op # "none" /\ job[c].op \in KeyedWrites \cup Reads
  BY DEF KeyedWrites
<1>3. Host(c) \in Hosts /\ KeyOf(job[c]) \in Keys /\ db[c][Host(c)] \in Databases
  BY <1>1, <1>2, HostFacts, KeyIsKey
<1>4. old \in Contents
  BY <1>3 DEF Held, StoreInv, TypeOK
<1>5. PICK v \in NewContents(c, old) :
        store' = [store EXCEPT ![Host(c)][db[c][Host(c)]][KeyOf(job[c])] = v]
  BY DEF WriteHost
<1> HIDE DEF old
<1>6. CASE job[c].op = "update"
  <2>1. v = effect[job[c].value][old]
    BY <1>5, <1>6 DEF NewContents
  <2>2. job[c].value \in Changes
    BY <1>1, <1>6 DEF RoutedJob
  <2>3. v \in Contents
    BY <1>4, <2>1, <2>2, Redis2PAssumption DEF Contents
  <2>4. job[c].op \notin Overwrites
    BY <1>6 DEF Overwrites, Repairs
  <2>5. QED
    BY <1>5, <2>1, <2>3, <2>4 DEF old
<1>7. CASE job[c].op = "spop"
  <2>1. v \in Contents
    BY <1>5, <1>7 DEF NewContents, Contents
  <2>2. job[c].op \notin Overwrites /\ job[c].op # "update"
    BY <1>7 DEF Overwrites, Repairs
  <2>3. QED
    BY <1>5, <2>1, <2>2
<1>8. CASE job[c].op \notin {"update", "spop"}
  <2>1. v = job[c].value
    BY <1>5, <1>8 DEF NewContents
  <2>2. job[c].op \in Overwrites
    BY <1>8 DEF KeyedWrites, Overwrites, Repairs
  <2>3. v \in Contents
    BY <1>1, <2>1, <2>2 DEF RoutedJob
  <2>4. QED
    BY <1>5, <1>8, <2>1, <2>3
<1>9. QED
  BY <1>6, <1>7, <1>8

\* The calls other than move change one entry of one host.
LEMMA StoreEffect ==
  ASSUME StoreInv, NEW c \in Callers, job[c].op \in KeyedWrites \ {"move"}, WriteHost(c)
  PROVE  /\ store' \in [Hosts -> [Databases -> [Keys -> Contents]]]
         /\ \A h \in Hosts, d \in Databases, k \in Keys :
              store'[h][d][k] # store[h][d][k] =>
                h = Host(c) /\ <<d, k>> \in Area(db[c], job[c]) /\ h \in Replicas(k)
         /\ job[c].op \in Overwrites =>
              store'[Host(c)][db[c][Host(c)]][KeyOf(job[c])] = job[c].value
         /\ job[c].op = "update" =>
              store'[Host(c)][db[c][Host(c)]][KeyOf(job[c])] =
                effect[job[c].value][Held(c)[KeyOf(job[c])]]
<1> DEFINE hh == Host(c)
           dd == db[c][Host(c)]
           kk == KeyOf(job[c])
<1>1. Typed(job[c]) /\ RoutedJob(job[c]) /\ db[c] \in [Hosts -> Databases]
  BY OneCaller
<1>2. job[c].op # "none" /\ job[c].op \in KeyedWrites \cup Reads
  BY DEF KeyedWrites
<1>3. hh \in Hosts /\ hh \in Rest(job[c]) /\ kk \in Keys /\ dd \in Databases
  BY <1>1, <1>2, HostFacts, KeyIsKey
<1>4. hh \in Replicas(kk)
  BY <1>1, <1>2, <1>3 DEF RoutedJob
<1>5. PICK v \in Contents :
        /\ store' = [store EXCEPT ![hh][dd][kk] = v]
        /\ job[c].op \in Overwrites => v = job[c].value
        /\ job[c].op = "update" => v = effect[job[c].value][Held(c)[kk]]
  BY NewStored
<1>6. store \in [Hosts -> [Databases -> [Keys -> Contents]]]
  BY DEF StoreInv, TypeOK
<1>7. <<dd, kk>> \in Area(db[c], job[c])
  BY <1>3, <1>4, KeyedArea
<1> HIDE DEF hh, dd, kk
<1>8. store' \in [Hosts -> [Databases -> [Keys -> Contents]]]
  BY <1>3, <1>5, <1>6
<1>9. \A h \in Hosts, d \in Databases, k \in Keys :
        store'[h][d][k] = IF h = hh /\ d = dd /\ k = kk THEN v ELSE store[h][d][k]
  BY <1>3, <1>5, <1>6
<1>10. store'[hh][dd][kk] = v
  BY <1>3, <1>9
<1>11. \A h \in Hosts, d \in Databases, k \in Keys :
         store'[h][d][k] # store[h][d][k] =>
           h = hh /\ <<d, k>> \in Area(db[c], job[c]) /\ h \in Replicas(k)
  BY <1>4, <1>7, <1>9
<1>12. QED
  BY <1>5, <1>8, <1>10, <1>11 DEF hh, dd, kk

\* move changes at most two entries of one host, of the same key.
LEMMA MoveEffect ==
  ASSUME StoreInv, NEW c \in Callers, job[c].op = "move", WriteHost(c)
  PROVE  /\ store' \in [Hosts -> [Databases -> [Keys -> Contents]]]
         /\ \A h \in Hosts, d \in Databases, k \in Keys :
              store'[h][d][k] # store[h][d][k] =>
                h = Host(c) /\ <<d, k>> \in Area(db[c], job[c]) /\ h \in Replicas(k)
<1> DEFINE hh == Host(c)
           from == db[c][Host(c)]
           to == job[c].value
           kk == KeyOf(job[c])
<1>1. Typed(job[c]) /\ RoutedJob(job[c]) /\ db[c] \in [Hosts -> Databases]
  BY OneCaller
<1>2. job[c].op # "none" /\ job[c].op \in KeyedWrites /\ job[c].op \in KeyedWrites \cup Reads
  BY DEF KeyedWrites
<1>3. hh \in Hosts /\ hh \in Rest(job[c]) /\ kk \in Keys /\ from \in Databases
  BY <1>1, <1>2, HostFacts, KeyIsKey
<1>4. hh \in Replicas(kk) /\ to \in Databases
  BY <1>1, <1>2, <1>3 DEF RoutedJob
<1>5. store' = MoveOn(hh, from, to, kk)
  BY DEF WriteHost
<1>6. store \in [Hosts -> [Databases -> [Keys -> Contents]]] /\ Nil \in Contents
  BY DEF StoreInv, TypeOK, Contents
<1>7. <<from, kk>> \in Area(db[c], job[c]) /\ <<to, kk>> \in Area(db[c], job[c])
  BY <1>2, <1>3, <1>4, KeyedArea
<1> HIDE DEF hh, from, to, kk
<1>8. CASE store' = store
  BY <1>6, <1>8 DEF hh
<1>9. CASE store' # store
  <2>1. store' = [store EXCEPT ![hh][from][kk] = Nil, ![hh][to][kk] = store[hh][from][kk]]
    BY <1>5, <1>9 DEF MoveOn
  <2> DEFINE T == [store EXCEPT ![hh][from][kk] = Nil]
  <2>2. /\ T \in [Hosts -> [Databases -> [Keys -> Contents]]]
        /\ \A h \in Hosts, d \in Databases, k \in Keys :
             T[h][d][k] = IF h = hh /\ d = from /\ k = kk THEN Nil ELSE store[h][d][k]
    BY <1>3, <1>6
  <2>3. store' = [T EXCEPT ![hh][to][kk] = store[hh][from][kk]]
    BY <2>1
  <2>4. store[hh][from][kk] \in Contents
    BY <1>3, <1>6
  <2> HIDE DEF T
  <2>5. /\ store' \in [Hosts -> [Databases -> [Keys -> Contents]]]
        /\ \A h \in Hosts, d \in Databases, k \in Keys :
             store'[h][d][k] =
               IF h = hh /\ d = to /\ k = kk THEN store[hh][from][kk] ELSE T[h][d][k]
    BY <1>3, <1>4, <2>2, <2>3, <2>4
  <2>6. \A h \in Hosts, d \in Databases, k \in Keys :
          store'[h][d][k] # store[h][d][k] => h = hh /\ k = kk /\ d \in {from, to}
    BY <2>2, <2>5
  <2>7. \A h \in Hosts, d \in Databases, k \in Keys :
          store'[h][d][k] # store[h][d][k] =>
            h = hh /\ <<d, k>> \in Area(db[c], job[c]) /\ h \in Replicas(k)
    <3>1. ASSUME NEW h \in Hosts, NEW d \in Databases, NEW k \in Keys,
                 store'[h][d][k] # store[h][d][k]
          PROVE  h = hh /\ <<d, k>> \in Area(db[c], job[c]) /\ h \in Replicas(k)
      <4>1. h = hh /\ k = kk /\ (d = from \/ d = to)
        BY <2>6, <3>1
      <4>2. QED
        BY <1>4, <1>7, <4>1
    <3>2. QED
      BY <3>1
  <2>8. QED
    BY <2>5, <2>7 DEF hh
<1>10. QED
  BY <1>8, <1>9

LEMMA WriteEffect ==
  ASSUME StoreInv, NEW c \in Callers, job[c].op \in KeyedWrites, WriteHost(c)
  PROVE  /\ store' \in [Hosts -> [Databases -> [Keys -> Contents]]]
         /\ Touches(c)
         /\ \A h \in Hosts, d \in Databases, k \in Keys :
              store'[h][d][k] = store[h][d][k] \/ h \in Replicas(k)
         /\ job[c].op \in Overwrites =>
              store'[Host(c)][db[c][Host(c)]][KeyOf(job[c])] = job[c].value
         /\ job[c].op = "update" =>
              store'[Host(c)][db[c][Host(c)]][KeyOf(job[c])] =
                effect[job[c].value][Held(c)[KeyOf(job[c])]]
         /\ \A h \in Hosts, d \in Databases, k \in Keys :
              h # Host(c) => store'[h][d][k] = store[h][d][k]
<1>1. /\ store' \in [Hosts -> [Databases -> [Keys -> Contents]]]
      /\ \A h \in Hosts, d \in Databases, k \in Keys :
           store'[h][d][k] # store[h][d][k] =>
             h = Host(c) /\ <<d, k>> \in Area(db[c], job[c]) /\ h \in Replicas(k)
  BY StoreEffect, MoveEffect
<1>2. Touches(c)
  BY <1>1 DEF Touches
<1>3. job[c].op \in Overwrites =>
        store'[Host(c)][db[c][Host(c)]][KeyOf(job[c])] = job[c].value
  <2>1. job[c].op \in Overwrites => job[c].op # "move"
    BY DEF Overwrites, Repairs
  <2>2. QED
    BY <2>1, StoreEffect
<1>4. job[c].op = "update" =>
        store'[Host(c)][db[c][Host(c)]][KeyOf(job[c])] =
          effect[job[c].value][Held(c)[KeyOf(job[c])]]
  BY StoreEffect
<1>5. QED
  BY <1>1, <1>2, <1>3, <1>4

\* The hosts that have been called, this one included, have the new value.
LEMMA WriteSoFar ==
  ASSUME StoreInv, NEW c \in Callers, job[c].op \in Overwrites, WriteHost(c),
         ~job[c].clash, ~Split(Area(db[c], job[c])), NEW w \in Area(db[c], job[c]),
         NEW h \in Replicas(KeyOf(job[c])), h = Host(c) \/ h \notin Rest(job[c])
  PROVE  store'[h][w[1]][w[2]] = job[c].value
<1>1. /\ Typed(job[c]) /\ RoutedJob(job[c]) /\ WriteDone(store, db[c], job[c])
      /\ db[c] \in [Hosts -> Databases] /\ Area(db[c], job[c]) \subseteq Databases \X Keys
  BY OneCaller
<1>2. /\ job[c].op # "none" /\ job[c].op \in KeyedWrites
      /\ job[c].op \in KeyedWrites \cup Reads
  BY DEF KeyedWrites, Overwrites, Repairs
<1>3. Host(c) \in Hosts /\ Host(c) \in Rest(job[c]) /\ KeyOf(job[c]) \in Keys
  BY <1>1, <1>2, HostFacts, KeyIsKey
<1>4. w[1] \in Databases /\ w[2] \in Keys
  BY <1>1
<1>5. CASE h = Host(c)
  <2>1. w[2] = KeyOf(job[c]) /\ <<db[c][h], KeyOf(job[c])>> \in Area(db[c], job[c])
    BY <1>2, <1>3, <1>5, KeyedArea
  <2>2. w[1] = db[c][h]
    BY <2>1 DEF Split
  <2>3. QED
    BY <1>2, <1>5, <2>1, <2>2, WriteEffect
<1>6. CASE h \notin Rest(job[c])
  <2>1. store[h][w[1]][w[2]] = job[c].value
    BY <1>1, <1>6 DEF WriteDone
  <2>2. h # Host(c) /\ h \in Hosts
    BY <1>3, <1>6, ReplicasAreHosts DEF StoreInv
  <2>3. QED
    BY <1>2, <1>4, <2>1, <2>2, WriteEffect
<1>7. QED
  BY <1>5, <1>6

\* Of copies that were equal, those called have changed and the others not.
LEMMA UpdateSoFar ==
  ASSUME StoreInv, NEW c \in Callers, job[c].op = "update", WriteHost(c),
         ~job[c].clash, ~Split(Area(db[c], job[c])), NEW w \in Area(db[c], job[c]),
         NEW h \in Replicas(KeyOf(job[c])), ~torn[w[1]][w[2]]
  PROVE  store'[h][w[1]][w[2]] =
           IF h \in Rest(job[c]) \ {Host(c)} THEN last[w[1]][w[2]]
           ELSE effect[job[c].value][last[w[1]][w[2]]]
<1>1. /\ Typed(job[c]) /\ RoutedJob(job[c]) /\ UpdateDone(store, db[c], job[c], last, torn)
      /\ Area(db[c], job[c]) \subseteq Databases \X Keys
  BY OneCaller
<1>2. /\ job[c].op # "none" /\ job[c].op \in KeyedWrites
      /\ job[c].op \in KeyedWrites \cup Reads
  BY DEF KeyedWrites
<1>3. Host(c) \in Hosts /\ Host(c) \in Rest(job[c]) /\ KeyOf(job[c]) \in Keys
  BY <1>1, <1>2, HostFacts, KeyIsKey
<1>4. h \in Hosts /\ w[1] \in Databases /\ w[2] \in Keys
  BY <1>1, <1>3, ReplicasAreHosts DEF StoreInv
<1>5. store[h][w[1]][w[2]] =
        IF h \in Rest(job[c]) THEN last[w[1]][w[2]]
        ELSE effect[job[c].value][last[w[1]][w[2]]]
  BY <1>1 DEF UpdateDone
<1>6. CASE h = Host(c)
  <2>1. w[2] = KeyOf(job[c]) /\ <<db[c][h], KeyOf(job[c])>> \in Area(db[c], job[c])
    BY <1>2, <1>3, <1>6, KeyedArea
  <2>2. w[1] = db[c][h]
    BY <2>1 DEF Split
  <2>3. Held(c)[KeyOf(job[c])] = last[w[1]][w[2]]
    BY <1>3, <1>5, <1>6, <2>1, <2>2 DEF Held
  <2>4. QED
    BY <1>2, <1>6, <2>1, <2>2, <2>3, WriteEffect
<1>7. CASE h # Host(c)
  <2>1. store'[h][w[1]][w[2]] = store[h][w[1]][w[2]]
    BY <1>2, <1>4, <1>7, WriteEffect
  <2>2. QED
    BY <1>5, <1>7, <2>1
<1>8. QED
  BY <1>6, <1>7

-----------------------------------------------------------------------------
(***************************************************************************)
(* A method begins, or comes to its next key.                              *)
(***************************************************************************)

\* A method that has all its hosts still to call.
Fresh(j) ==
  /\ Typed(j) /\ RoutedJob(j)
  /\ j.op \in KeyedWrites => Replicas(KeyOf(j)) \subseteq Rest(j)
  /\ j.op \in Flushes => Hosts \subseteq Rest(j)
  /\ j.op = "update" => Distinct(j.hosts)

LEMMA FreshEnters ==
  ASSUME StoreInv, NEW c \in Callers, NEW j, Fresh(j), Enter(c, j), db' = db,
         j.op = "update" =>
           Area(db[c], job[c]) = {} /\ store' = store /\ last' = last /\ torn' = torn
  PROVE  /\ job' \in [Callers -> Jobs]
         /\ Typed(job'[c]) /\ RoutedJob(job'[c])
         /\ Comes(c, Area(db[c], j))
         /\ WriteDone(store', db'[c], job'[c]) /\ FlushDone(store', db'[c], job'[c])
         /\ UpdateDone(store', db'[c], job'[c], last', torn')
<1>1. Typed(j) /\ RoutedJob(j) /\ j \in Jobs
  BY DEF Fresh, Typed
<1>2. /\ job' \in [Callers -> Jobs] /\ Comes(c, Area(db[c], j))
      /\ job'[c].op = j.op /\ job'[c].keys = j.keys /\ job'[c].i = j.i
      /\ job'[c].value = j.value /\ job'[c].hosts = j.hosts
  BY <1>1, EnterStep DEF StoreInv
<1>3. KeyOf(job'[c]) = KeyOf(j) /\ Rest(job'[c]) = Rest(j)
  BY <1>2 DEF KeyOf, Rest
<1>4. Typed(job'[c])
  BY <1>1, <1>2 DEF Typed
<1>5. RoutedJob(job'[c])
  BY <1>1, <1>2, <1>3 DEF RoutedJob
<1>6. WriteDone(store', db'[c], job'[c])
  <2>1. job'[c].op \in KeyedWrites => Replicas(KeyOf(job'[c])) \ Rest(job'[c]) = {}
    BY <1>2, <1>3 DEF Fresh
  <2>2. job'[c].op \in Overwrites => job'[c].op \in KeyedWrites
    BY DEF Overwrites, Repairs, KeyedWrites
  <2>3. QED
    BY <2>1, <2>2 DEF WriteDone
<1>7. FlushDone(store', db'[c], job'[c])
  <2>1. job'[c].op \in Flushes => Hosts \ Rest(job'[c]) = {}
    BY <1>2, <1>3 DEF Fresh
  <2>2. QED
    BY <2>1 DEF FlushDone
<1>8. UpdateDone(store', db'[c], job'[c], last', torn')
  <2>1. SUFFICES ASSUME j.op = "update"
                 PROVE  UpdateDone(store', db'[c], job'[c], last', torn')
    BY <1>2 DEF UpdateDone
  <2>2. Distinct(job'[c].hosts)
    BY <1>2, <2>1 DEF Fresh
  <2>3. j.op \in KeyedWrites
    BY <2>1 DEF KeyedWrites
  <2>4. ASSUME ~job'[c].clash, NEW w \in Area(db'[c], job'[c]),
               NEW h \in Replicas(KeyOf(job'[c])), ~torn'[w[1]][w[2]]
        PROVE  h \in Rest(job'[c]) /\ store'[h][w[1]][w[2]] = last'[w[1]][w[2]]
    <3>1. w \in Area(db[c], j) /\ \A u \in Callers : w \notin Area(db[u], job[u])
      BY <1>2, <2>1, <2>4 DEF Comes
    <3>2. w[2] = KeyOf(j) /\ w = <<w[1], w[2]>>
      <4>1. \A v \in Area(db[c], j) : v[2] = KeyOf(j) /\ v = <<v[1], v[2]>>
        BY <2>3, KeyedArea
      <4>2. QED
        BY <3>1, <4>1
    <3>3. w[1] \in Databases /\ w[2] \in Keys
      <4>1. db[c] \in [Hosts -> Databases]
        BY OneCaller
      <4>2. Area(db[c], j) \subseteq Databases \X Keys
        BY <1>1, <4>1, AreaType
      <4>3. QED
        BY <3>1, <4>2
    <3>4. ReplicatedIn(store, db, job, last, torn)
      BY PartsNow DEF StoreInv
    <3>5. \A u \in Callers : <<w[1], w[2]>> \notin Area(db[u], job[u])
      BY <3>1, <3>2
    <3>6. store[h][w[1]][w[2]] = last[w[1]][w[2]]
      BY <1>3, <2>1, <2>4, <3>2, <3>3, <3>4, <3>5 DEF ReplicatedIn
    <3>7. QED
      BY <1>3, <2>1, <2>3, <2>4, <3>6 DEF Fresh
  <2>5. QED
    BY <2>2, <2>4 DEF UpdateDone
<1>9. QED
  BY <1>2, <1>4, <1>5, <1>6, <1>7, <1>8

\* The arguments with which the methods begin.
Fit(c, op, ks, v, hs) ==
  /\ op \in Ops \ {"none"} /\ ks \in Seq(Keys)
  /\ v \in Contents \cup Changes \cup Databases /\ hs \in Seq(Hosts) /\ hs # << >>
  /\ op \in KeyedWrites \cup Reads => ks # << >> /\ hs = HostsFor(c, op, ks[1])
  /\ op \in Overwrites \cup {"spop"} => v \in Contents
  /\ op = "update" => v \in Changes /\ Len(ks) = 1
  /\ op \in {"move", "select"} => v \in Databases
  /\ op \in Flushes \cup {"select"} => hs = AllHosts
  /\ op = "keys" => hs = get_group_client(c)
  /\ op = "del" => v = Nil

Begins(c) ==
  \/ write(c) \/ update(c) \/ hsetnx(c) \/ spop(c) \/ move(c) \/ read(c)
  \/ mget(c) \/ mset(c) \/ del(c) \/ keys(c) \/ flush(c) \/ select(c)

\* A method of one key.
LEMMA OneKeyFit ==
  ASSUME inner_init, NEW c \in Callers, NEW k \in Keys,
         NEW op \in {"write", "hsetnx", "spop", "read", "update", "move"},
         NEW v \in Contents \cup Changes \cup Databases,
         op \notin {"update", "move"} => v \in Contents,
         op = "update" => v \in Changes, op = "move" => v \in Databases
  PROVE  Fit(c, op, <<k>>, v, get_key_client(c, k))
<1>1. <<k>> \in Seq(Keys) /\ <<k>> # << >> /\ <<k>>[1] = k /\ Len(<<k>>) = 1
  OBVIOUS
<1>2. HostsFor(c, op, k) = get_key_client(c, k)
  BY DEF HostsFor
<1>3. get_key_client(c, k) \in Seq(Hosts) /\ get_key_client(c, k) # << >>
  BY <1>2, KeyRoute
<1>4. /\ op \in Ops \ {"none"} /\ op \notin Flushes \cup {"select"}
      /\ op # "keys" /\ op # "del" /\ op # "select"
      /\ op \in Overwrites \cup {"spop"} => op \notin {"update", "move"}
  BY DEF Ops, KeyedWrites, Reads, Flushes, Overwrites, Repairs
<1>5. QED
  BY <1>1, <1>2, <1>3, <1>4 DEF Fit

\* A method of a list of keys.
LEMMA ListFit ==
  ASSUME inner_init, NEW c \in Callers, NEW ks \in KeyLists, NEW v \in Contents,
         NEW op \in {"mget", "mset", "del"}, op = "del" => v = Nil
  PROVE  Fit(c, op, ks, v, HostsFor(c, op, ks[1]))
<1>1. ks \in Seq(Keys) /\ ks # << >>
  BY Redis2PAssumption
<1>2. ks[1] \in Keys
  BY <1>1
<1>3. HostsFor(c, op, ks[1]) \in Seq(Hosts) /\ HostsFor(c, op, ks[1]) # << >>
  BY <1>2, KeyRoute
<1>4. /\ op \in Ops \ {"none"} /\ op \notin Flushes \cup {"select"}
      /\ op # "keys" /\ op \notin {"move", "select"} /\ op # "update"
  BY DEF Ops, KeyedWrites, Reads, Flushes
<1>5. QED
  BY <1>1, <1>3, <1>4 DEF Fit

LEMMA BeginsFit ==
  ASSUME inner_init, NEW c \in Callers, Begins(c)
  PROVE  \E op, ks, v, hs : Fit(c, op, ks, v, hs) /\ Begin(c, op, ks, v, hs)
<1>1. Nil \in Contents /\ \A v \in Values : v \in Contents
  BY DEF Contents
<1>2. CASE write(c)
  BY <1>2, OneKeyFit DEF write
<1>3. CASE hsetnx(c)
  BY <1>1, <1>3, OneKeyFit DEF hsetnx
<1>4. CASE spop(c)
  BY <1>1, <1>4, OneKeyFit DEF spop
<1>5. CASE read(c)
  BY <1>1, <1>5, OneKeyFit DEF read
<1>6. CASE mget(c)
  <2>1. PICK ks \in KeyLists : Begin(c, "mget", ks, Nil, get_key_client(c, ks[1]))
    BY <1>6 DEF mget
  <2>2. HostsFor(c, "mget", ks[1]) = get_key_client(c, ks[1])
    BY DEF HostsFor
  <2>3. Fit(c, "mget", ks, Nil, get_key_client(c, ks[1]))
    BY <1>1, <2>2, ListFit
  <2>4. QED
    BY <2>1, <2>3
<1>7. CASE mset(c)
  <2>1. PICK ks \in KeyLists, v \in Values : Begin(c, "mset", ks, v, get_key_client(c, ks[1]))
    BY <1>7 DEF mset
  <2>2. HostsFor(c, "mset", ks[1]) = get_key_client(c, ks[1])
    BY DEF HostsFor
  <2>3. Fit(c, "mset", ks, v, get_key_client(c, ks[1]))
    BY <1>1, <2>2, ListFit
  <2>4. QED
    BY <2>1, <2>3
<1>8. CASE del(c)
  <2>1. PICK ks \in KeyLists : Begin(c, "del", ks, Nil, get_keys_client(ks[1]))
    BY <1>8 DEF del
  <2>2. HostsFor(c, "del", ks[1]) = get_keys_client(ks[1])
    BY DEF HostsFor
  <2>3. Fit(c, "del", ks, Nil, get_keys_client(ks[1]))
    BY <1>1, <2>2, ListFit
  <2>4. QED
    BY <2>1, <2>3
<1>9. << >> \in Seq(Keys)
  OBVIOUS
<1>10. CASE keys(c)
  <2>1. get_group_client(c) \in Seq(Hosts) /\ get_group_client(c) # << >>
    BY GroupRoute
  <2>2. /\ "keys" \in Ops \ {"none"} /\ "keys" \notin Flushes \cup {"select"}
        /\ "keys" \notin KeyedWrites \cup Reads /\ "keys" \notin Overwrites \cup {"spop"}
        /\ "keys" # "update" /\ "keys" \notin {"move", "select"}
    BY DEF Ops, KeyedWrites, Reads, Flushes, Overwrites, Repairs
  <2>3. Fit(c, "keys", << >>, Nil, get_group_client(c))
    BY <1>1, <1>9, <2>1, <2>2 DEF Fit
  <2>4. QED
    BY <1>10, <2>3 DEF keys
<1>11. CASE flush(c)
  <2>1. PICK op \in Flushes : Begin(c, op, << >>, Nil, AllHosts)
    BY <1>11 DEF flush
  <2>2. /\ op \in Ops \ {"none"} /\ op # "keys" /\ op # "del" /\ op # "select"
        /\ op \notin KeyedWrites \cup Reads /\ op \notin Overwrites \cup {"spop"}
        /\ op # "update" /\ op # "move"
    BY DEF Ops, KeyedWrites, Reads, Flushes, Overwrites, Repairs
  <2>3. Fit(c, op, << >>, Nil, AllHosts)
    BY <1>1, <1>9, <2>2, AllRoute DEF Fit
  <2>4. QED
    BY <2>1, <2>3
<1>12. CASE select(c)
  <2>1. PICK index \in Databases : Begin(c, "select", << >>, index, AllHosts)
    BY <1>12 DEF select
  <2>2. /\ "select" \in Ops \ {"none"} /\ "select" \notin KeyedWrites \cup Reads
        /\ "select" \notin Overwrites \cup {"spop"}
    BY DEF Ops, KeyedWrites, Reads, Overwrites, Repairs
  <2>3. Fit(c, "select", << >>, index, AllHosts)
    BY <1>9, <2>2, AllRoute DEF Fit
  <2>4. QED
    BY <2>1, <2>3
<1>13. CASE update(c)
  BY <1>13, OneKeyFit DEF update
<1>14. CASE move(c)
  BY <1>14, OneKeyFit DEF move
<1>15. QED
  BY <1>2, <1>3, <1>4, <1>5, <1>6, <1>7, <1>8, <1>10, <1>11, <1>12, <1>13, <1>14 DEF Begins

\* The method as it begins.
Start(c, op, ks, v, hs) ==
  [NoJob EXCEPT !.op = op, !.keys = ks, !.value = v,
                !.hosts = hs, !.calm = IsCalm(c),
                !.before = IF IsCalm(c) THEN last[db[c][0]] ELSE Nothing]

Begun(j, c, op, ks, v, hs) ==
  /\ j \in Jobs
  /\ j.op = op /\ j.keys = ks /\ j.value = v /\ j.hosts = hs
  /\ j.i = 1 /\ j.got = << >> /\ j.n = 0 /\ j.ok = TRUE
  /\ j.calm = IsCalm(c)
  /\ j.before = IF IsCalm(c) THEN last[db[c][0]] ELSE Nothing

LEMMA StartFacts ==
  ASSUME StoreInv, NEW c \in Callers, NEW op, NEW ks, NEW v, NEW hs, Fit(c, op, ks, v, hs)
  PROVE  Begun(Start(c, op, ks, v, hs), c, op, ks, v, hs)
<1> DEFINE j == Start(c, op, ks, v, hs)
           b == IF IsCalm(c) THEN last[db[c][0]] ELSE Nothing
<1>1. 0 \in Hosts
  BY Redis2PAssumption DEF Hosts
<1>2. db[c][0] \in Databases /\ last \in [Databases -> [Keys -> Contents]]
  BY <1>1 DEF StoreInv, TypeOK
<1>3. b \in [Keys -> Contents]
  BY <1>2, NoJobTyped DEF NoJob, Jobs
<1>4. IsCalm(c) \in BOOLEAN
  BY DEF IsCalm
<1>5. NoJob \in Jobs
  BY NoJobTyped
<1> HIDE DEF b
<1>6. j = [NoJob EXCEPT !.op = op, !.keys = ks, !.value = v, !.hosts = hs,
                        !.calm = IsCalm(c), !.before = b]
  BY DEF Start, b
<1>7. /\ op \in Ops /\ ks \in Seq(Keys) /\ v \in Contents \cup Changes \cup Databases
      /\ hs \in Seq(Hosts)
  BY DEF Fit
<1> HIDE DEF j
<1>8. j \in Jobs
  BY <1>3, <1>4, <1>5, <1>6, <1>7 DEF Jobs
<1>9. /\ j.op = op /\ j.keys = ks /\ j.value = v /\ j.hosts = hs
      /\ j.i = 1 /\ j.got = << >> /\ j.n = 0
      /\ j.before = b
  BY <1>6 DEF NoJob
<1>10. j.calm = IsCalm(c) /\ j.ok = TRUE
  BY <1>6 DEF NoJob
<1>11. QED
  BY <1>8, <1>9, <1>10 DEF Begun, j, b

LEMMA StartFresh ==
  ASSUME StoreInv, NEW c \in Callers, NEW op, NEW ks, NEW v, NEW hs, Fit(c, op, ks, v, hs)
  PROVE  Fresh(Start(c, op, ks, v, hs))
<1> DEFINE j == Start(c, op, ks, v, hs)
<1>1. j \in Jobs /\ j.op = op /\ j.keys = ks /\ j.value = v /\ j.hosts = hs /\ j.i = 1
  <2>1. Begun(j, c, op, ks, v, hs)
    BY StartFacts
  <2>2. QED
    BY <2>1 DEF Begun
<1> HIDE DEF j
<1>2. Typed(j)
  <2>1. op \in KeyedWrites \cup Reads => Len(ks) \in Nat \ {0}
    BY DEF Fit
  <2>2. QED
    BY <1>1, <2>1 DEF Fit, Typed
<1>3. ASSUME op \in KeyedWrites \cup Reads
      PROVE  Rest(j) \subseteq Replicas(KeyOf(j)) /\ Replicas(KeyOf(j)) \subseteq Rest(j)
  <2>1. KeyOf(j) = ks[1] /\ KeyOf(j) \in Keys
    BY <1>1, <1>2, <1>3, KeyIsKey DEF KeyOf
  <2>2. j.hosts = HostsFor(c, op, KeyOf(j))
    BY <1>1, <1>3, <2>1 DEF Fit
  <2>3. QED
    BY <2>1, <2>2, KeyRoute DEF Rest, StoreInv
<1>4. op \in Flushes => Hosts \subseteq Rest(j)
  BY <1>1, AllRoute DEF Fit, Rest
<1>5. RoutedJob(j)
  BY <1>1, <1>3 DEF RoutedJob, Fit
<1>6. op = "update" => Distinct(j.hosts)
  <2>1. SUFFICES ASSUME op = "update" PROVE Distinct(hs)
    BY <1>1
  <2>2. ks # << >> /\ ks \in Seq(Keys) /\ hs = HostsFor(c, op, ks[1])
    BY <2>1 DEF Fit, KeyedWrites
  <2>3. ks[1] \in Keys
    BY <2>2
  <2>4. QED
    BY <2>2, <2>3, DistinctRoute DEF Distinct, StoreInv
<1>7. QED
  BY <1>1, <1>2, <1>3, <1>4, <1>5, <1>6 DEF Fresh, j

\* Nothing is stored when a method begins.
LEMMA BeginFacts ==
  ASSUME StoreInv, NEW c \in Callers, Begins(c)
  PROVE  StepFacts(c)
<1>1. PICK op, ks, v, hs : Fit(c, op, ks, v, hs) /\ Begin(c, op, ks, v, hs)
  BY BeginsFit DEF StoreInv
<1> DEFINE j == Start(c, op, ks, v, hs)
<1>2. /\ Enter(c, j) /\ job[c].op = "none"
      /\ store' = store /\ db' = db /\ last' = last /\ torn' = torn /\ right' = right
  BY <1>1 DEF Begin, Start
<1>3. Fresh(j)
  BY <1>1, StartFresh
<1> HIDE DEF j
<1>4. Area(db[c], job[c]) = {}
  BY <1>2, AreaKinds DEF KeyedWrites, Flushes
<1>5. /\ job' \in [Callers -> Jobs]
      /\ Typed(job'[c]) /\ RoutedJob(job'[c])
      /\ Comes(c, Area(db[c], j))
      /\ WriteDone(store', db'[c], job'[c]) /\ FlushDone(store', db'[c], job'[c])
      /\ UpdateDone(store', db'[c], job'[c], last', torn')
  BY <1>2, <1>3, <1>4, FreshEnters
<1>6. QED
  BY <1>2, <1>4, <1>5 DEF StepFacts, Touches, StoreInv, TypeOK

LEMMA NextKeyFacts ==
  ASSUME StoreInv, NEW c \in Callers, job[c].op \in KeyedWrites \cup Reads, ~LastKey(c),
         NEW j \in Jobs, j.op = job[c].op, j.keys = job[c].keys, j.i = job[c].i,
         j.value = job[c].value
  PROVE  LET l == NextKey(c, j)
         IN  /\ Fresh(l)
             /\ l \in Jobs
             /\ l.op = j.op /\ l.keys = j.keys /\ l.i = j.i + 1 /\ l.value = j.value
             /\ l.hosts = HostsFor(c, j.op, KeyOf(l))
             /\ l.got = j.got /\ l.n = j.n /\ l.ok = j.ok /\ l.calm = j.calm
             /\ l.before = j.before
             /\ KeyOf(l) \in Keys
             /\ l.i \in 1..Len(l.keys)
             /\ l.op # "update"
<1> DEFINE l == NextKey(c, j)
           hs == HostsFor(c, j.op, j.keys[j.i + 1])
<1>1. Typed(job[c]) /\ RoutedJob(job[c]) /\ inner_init
  BY OneCaller DEF StoreInv
<1>2. j.keys \in Seq(Keys) /\ j.i \in 1..Len(j.keys) /\ j.i # Len(j.keys)
  BY <1>1 DEF Typed, LastKey, Jobs
<1>3. j.i + 1 \in 1..Len(j.keys) /\ j.i + 1 \in Nat
  BY <1>2
<1>4. j.keys[j.i + 1] \in Keys
  BY <1>2, <1>3
<1>5. /\ hs \in Seq(Hosts) /\ hs # << >>
      /\ \A i \in 1..Len(hs) : hs[i] \in Replicas(j.keys[j.i + 1])
      /\ \A h \in Replicas(j.keys[j.i + 1]) : \E i \in 1..Len(hs) : hs[i] = h
  BY <1>1, <1>4, KeyRoute
<1> HIDE DEF hs
<1>6. l = [j EXCEPT !.i = j.i + 1, !.hosts = hs]
  BY DEF NextKey, hs
<1> HIDE DEF l
<1>7. /\ l \in Jobs
      /\ l.op = j.op /\ l.keys = j.keys /\ l.i = j.i + 1 /\ l.value = j.value /\ l.hosts = hs
      /\ l.got = j.got /\ l.n = j.n
      /\ l.before = j.before
  BY <1>3, <1>5, <1>6 DEF Jobs
<1>8. l.ok = j.ok /\ l.calm = j.calm
  BY <1>6 DEF Jobs
<1>9. KeyOf(l) = j.keys[j.i + 1]
  BY <1>7 DEF KeyOf
<1>10. Typed(l)
  BY <1>3, <1>5, <1>7 DEF Typed
<1>11. Rest(l) \subseteq Replicas(KeyOf(l)) /\ Replicas(KeyOf(l)) \subseteq Rest(l)
  BY <1>5, <1>7, <1>9 DEF Rest
<1>12. l.op \in KeyedWrites \cup Reads /\ l.op \notin Flushes /\ l.op # "update"
  <2>1. job[c].op = "update" => Len(j.keys) = 1
    BY <1>1 DEF RoutedJob
  <2>2. Len(j.keys) # 1
    <3> DEFINE n == Len(j.keys)
               i == j.i
    <3>1. n \in Nat /\ i \in 1..n /\ i # n
      BY <1>2
    <3> HIDE DEF n, i
    <3>2. n # 1
      BY ONLY <3>1
    <3>3. QED
      BY <3>2 DEF n
  <2>3. QED
    BY <1>7, <2>1, <2>2 DEF KeyedWrites, Reads, Flushes
<1>13. RoutedJob(l)
  BY <1>1, <1>7, <1>11, <1>12 DEF RoutedJob
<1>14. Fresh(l)
  BY <1>10, <1>11, <1>12, <1>13 DEF Fresh
<1>15. l.hosts = HostsFor(c, j.op, KeyOf(l)) /\ KeyOf(l) \in Keys /\ l.i \in 1..Len(l.keys)
  BY <1>3, <1>4, <1>7, <1>9 DEF hs
<1>16. QED
  BY <1>7, <1>8, <1>12, <1>14, <1>15 DEF l

-----------------------------------------------------------------------------
(***************************************************************************)
(* The calls of write.                                                     *)
(***************************************************************************)

LEMMA UpdateLast ==
  ASSUME StoreInv, NEW c, NEW x \in Contents, last' = Update(last, c, x)
  PROVE  /\ last' \in [Databases -> [Keys -> Contents]]
         /\ \A d \in Databases, k \in Keys :
              last'[d][k] = IF <<d, k>> \in Area(db[c], job[c]) THEN x ELSE last[d][k]
<1>1. last \in [Databases -> [Keys -> Contents]]
  BY DEF StoreInv, TypeOK
<1>2. last' = [d \in Databases |-> [k \in Keys |->
                 IF <<d, k>> \in Area(db[c], job[c]) THEN x ELSE last[d][k]]]
  BY AreaNow DEF Update
<1>3. QED
  BY <1>1, <1>2

LEMMA UpdateTorn ==
  ASSUME StoreInv, NEW c, NEW x \in BOOLEAN, torn' = Update(torn, c, x)
  PROVE  /\ torn' \in [Databases -> [Keys -> BOOLEAN]]
         /\ \A d \in Databases, k \in Keys :
              torn'[d][k] = IF <<d, k>> \in Area(db[c], job[c]) THEN x ELSE torn[d][k]
<1>1. torn \in [Databases -> [Keys -> BOOLEAN]]
  BY DEF StoreInv, TypeOK
<1>2. torn' = [d \in Databases |-> [k \in Keys |->
                 IF <<d, k>> \in Area(db[c], job[c]) THEN x ELSE torn[d][k]]]
  BY AreaNow DEF Update
<1>3. QED
  BY <1>1, <1>2

\* What a complete write of c leaves as the last contents.
LEMMA WrittenFacts ==
  ASSUME StoreInv, NEW c \in Callers, job[c].op \in KeyedWrites, last' = Written(last, c)
  PROVE  /\ last' \in [Databases -> [Keys -> Contents]]
         /\ \A d \in Databases, k \in Keys :
              /\ <<d, k>> \notin Area(db[c], job[c]) => last'[d][k] = last[d][k]
              /\ <<d, k>> \in Area(db[c], job[c]) =>
                   /\ job[c].op \in Overwrites => last'[d][k] = job[c].value
                   /\ job[c].op = "update" => last'[d][k] = effect[job[c].value][last[d][k]]
<1>1. RoutedJob(job[c]) /\ last \in [Databases -> [Keys -> Contents]]
  BY OneCaller DEF StoreInv, TypeOK
<1>2. CASE job[c].op = "update"
  <2> DEFINE x == job[c].value
  <2>1. effect[x] \in [Contents -> Contents] /\ job[c].op \notin Overwrites
    BY <1>1, <1>2, Redis2PAssumption DEF RoutedJob, Contents, Overwrites, Repairs
  <2>2. last' = [d \in Databases |-> [k \in Keys |->
                  IF <<d, k>> \in Area(db[c], job[c]) THEN effect[x][last[d][k]] ELSE last[d][k]]]
    BY <1>2, AreaNow DEF Written
  <2> HIDE DEF x
  <2>3. \A d \in Databases, k \in Keys : effect[x][last[d][k]] \in Contents /\ last[d][k] \in Contents
    BY <1>1, <2>1
  <2>4. last' \in [Databases -> [Keys -> Contents]]
    BY <2>2, <2>3
  <2>5. \A d \in Databases, k \in Keys :
          last'[d][k] =
            IF <<d, k>> \in Area(db[c], job[c]) THEN effect[x][last[d][k]] ELSE last[d][k]
    BY <2>2
  <2>6. QED
    BY <2>1, <2>4, <2>5 DEF x
<1>3. CASE job[c].op = "move"
  BY <1>1, <1>3 DEF Written, Overwrites, Repairs
<1>4. CASE job[c].op \notin {"update", "move"}
  <2>1. last' = Update(last, c, job[c].value)
    BY <1>4 DEF Written
  <2>2. job[c].value \in Contents
    BY <1>1, <1>4 DEF RoutedJob, KeyedWrites, Overwrites, Repairs
  <2>3. QED
    BY <1>4, <2>1, <2>2, UpdateLast
<1>5. QED
  BY <1>2, <1>3, <1>4

\* Which copies may differ after it.
LEMMA TornByFacts ==
  ASSUME StoreInv, NEW c \in Callers, torn' = TornBy(c)
  PROVE  /\ torn' \in [Databases -> [Keys -> BOOLEAN]]
         /\ \A d \in Databases, k \in Keys :
              /\ <<d, k>> \notin Area(db[c], job[c]) => torn'[d][k] = torn[d][k]
              /\ <<d, k>> \in Area(db[c], job[c]) =>
                   /\ job[c].clash \/ job[c].op \in {"spop", "move"} \/ Split(Area(db[c], job[c]))
                        => torn'[d][k]
                   /\ job[c].op \notin Repairs /\ torn[d][k] => torn'[d][k]
                   /\ job[c].op \in Repairs /\ ~job[c].clash /\ ~Split(Area(db[c], job[c]))
                        => ~torn'[d][k]
<1> DEFINE differ == job[c].clash \/ job[c].op \in {"spop", "move"} \/ Split(Area(db[c], job[c]))
<1>1. torn' = IF differ \/ job[c].op \in Repairs THEN Update(torn, c, differ) ELSE torn
  BY AreaNow DEF TornBy
<1>2. torn \in [Databases -> [Keys -> BOOLEAN]]
  BY DEF StoreInv, TypeOK
<1>3. job[c].op \in Repairs => job[c].op \notin {"spop", "move"}
  BY DEF Repairs
<1>4. job[c].op \in Repairs /\ ~job[c].clash /\ ~Split(Area(db[c], job[c])) => ~differ
  BY <1>3
<1>5. differ \in BOOLEAN
  OBVIOUS
<1>6. job[c].clash \/ job[c].op \in {"spop", "move"} \/ Split(Area(db[c], job[c])) => differ
  OBVIOUS
<1> HIDE DEF differ
<1>7. CASE differ \/ job[c].op \in Repairs
  <2>1. torn' = Update(torn, c, differ)
    BY <1>1, <1>7
  <2>2. /\ torn' \in [Databases -> [Keys -> BOOLEAN]]
        /\ \A d \in Databases, k \in Keys :
             torn'[d][k] = IF <<d, k>> \in Area(db[c], job[c]) THEN differ ELSE torn[d][k]
    BY <1>5, <2>1, UpdateTorn
  <2>3. QED
    BY <1>4, <1>6, <1>7, <2>2
<1>8. CASE ~differ /\ job[c].op \notin Repairs
  <2>1. torn' = torn
    BY <1>1, <1>8
  <2>2. QED
    BY <1>2, <1>6, <1>8, <2>1
<1>9. QED
  BY <1>7, <1>8

LEMMA DeletedNowType ==
  ASSUME NEW c
  PROVE  DeletedNow(c) \in Nat
<1>1. Existed(c) \in Nat
  BY DEF Existed
<1>2. QED
  BY <1>1 DEF DeletedNow

LEMMA WriteNextFacts ==
  ASSUME StoreInv, NEW c \in Callers, write_next_group(c)
  PROVE  StepFacts(c)
<1>1. /\ job[c].op \in KeyedWrites /\ ~LastHost(c) /\ WriteHost(c)
      /\ job' = [job EXCEPT ![c].hosts = Tail(@), ![c].n = @ + DeletedNow(c)]
      /\ db' = db /\ last' = last /\ torn' = torn /\ right' = right
  BY DEF write_next_group
<1>2. job[c].op # "none" /\ job[c].op \notin Flushes
  BY <1>1 DEF KeyedWrites, Flushes
<1>3. /\ Typed(job[c]) /\ RoutedJob(job[c]) /\ job[c] \in Jobs
      /\ job \in [Callers -> Jobs] /\ job[c].hosts \in Seq(Hosts) /\ job[c].hosts # << >>
  BY <1>2, OneCaller DEF Typed, Jobs, StoreInv, TypeOK
<1> DEFINE l == [job[c] EXCEPT !.hosts = Tail(job[c].hosts), !.n = job[c].n + DeletedNow(c)]
<1>4. job' = [job EXCEPT ![c] = l]
  BY <1>1, <1>3
<1>5. Tail(job[c].hosts) \in Seq(Hosts) /\ job[c].n + DeletedNow(c) \in Nat
  BY <1>3, DeletedNowType DEF Jobs
<1>6. /\ l \in Jobs /\ l.op = job[c].op /\ l.keys = job[c].keys /\ l.i = job[c].i
      /\ l.value = job[c].value /\ l.hosts = Tail(job[c].hosts)
  BY <1>3, <1>5 DEF Jobs
<1>7. l.clash = job[c].clash
  BY <1>3 DEF Jobs
<1> HIDE DEF l
<1>8. /\ job' \in [Callers -> Jobs] /\ job'[c] = l /\ Typed(l) /\ RoutedJob(l) /\ GoesOn(c)
      /\ \A h \in Rest(job[c]) : h = Host(c) \/ h \in Rest(l)
      /\ Rest(l) \subseteq Rest(job[c])
  BY <1>1, <1>2, <1>3, <1>4, <1>6, <1>7, AdvanceStep DEF StoreInv
<1>9. Area(db'[c], l) = Area(db[c], job[c]) /\ KeyOf(l) = KeyOf(job[c])
  BY <1>1, <1>6, AreaSame
<1>10. WriteDone(store', db'[c], l)
  <2>1. SUFFICES ASSUME l.op \in Overwrites, ~l.clash, ~Split(Area(db'[c], l)),
                        NEW w \in Area(db'[c], l), NEW h \in Replicas(KeyOf(l)) \ Rest(l)
                 PROVE  store'[h][w[1]][w[2]] = l.value
    BY DEF WriteDone
  <2>2. h = Host(c) \/ h \notin Rest(job[c])
    BY <1>8, <2>1
  <2>3. job[c].op \in Overwrites /\ ~job[c].clash /\ ~Split(Area(db[c], job[c]))
    BY <1>6, <1>7, <1>9, <2>1
  <2>4. w \in Area(db[c], job[c]) /\ h \in Replicas(KeyOf(job[c]))
    BY <1>9, <2>1
  <2>5. QED
    BY <1>1, <1>6, <2>2, <2>3, <2>4, WriteSoFar
<1>11. FlushDone(store', db'[c], l)
  BY <1>2, <1>6 DEF FlushDone
<1>12. /\ store' \in [Hosts -> [Databases -> [Keys -> Contents]]] /\ Touches(c)
       /\ \A h \in Hosts, d \in Databases, k \in Keys :
            store'[h][d][k] = store[h][d][k] \/ h \in Replicas(k)
  BY <1>1, WriteEffect
<1>13. UpdateDone(store', db'[c], l, last', torn')
  <2>1. SUFFICES ASSUME job[c].op = "update" PROVE UpdateDone(store', db'[c], l, last', torn')
    BY <1>6 DEF UpdateDone
  <2>2. UpdateDone(store, db[c], job[c], last, torn)
    BY OneCaller
  <2>3. Distinct(job[c].hosts)
    BY <2>1, <2>2 DEF UpdateDone
  <2>4. Distinct(l.hosts) /\ Host(c) \notin Rest(l)
    <3> DEFINE hs == job[c].hosts
    <3>1. Distinct(Tail(hs)) /\ \A i \in 1..Len(Tail(hs)) : Tail(hs)[i] # Head(hs)
      <4>1. hs \in Seq(Hosts) /\ hs # << >> /\ Distinct(hs)
        BY <1>3, <2>3
      <4> HIDE DEF hs
      <4>2. QED
        BY <4>1, AdvanceDistinct
    <3>2. l.hosts = Tail(hs) /\ Host(c) = Head(hs)
      BY <1>6 DEF Host
    <3> HIDE DEF hs
    <3>3. QED
      BY <3>1, <3>2, Zenon DEF Rest
  <2>5. \A h : h \in Rest(l) <=> h \in Rest(job[c]) \ {Host(c)}
    BY <1>8, <2>4
  <2>6. ASSUME ~l.clash, ~Split(Area(db'[c], l)), NEW w \in Area(db'[c], l),
               NEW h \in Replicas(KeyOf(l)), ~torn'[w[1]][w[2]]
        PROVE  store'[h][w[1]][w[2]] =
                 IF h \in Rest(l) THEN last'[w[1]][w[2]]
                 ELSE effect[l.value][last'[w[1]][w[2]]]
    <3>1. /\ ~job[c].clash /\ ~Split(Area(db[c], job[c])) /\ w \in Area(db[c], job[c])
          /\ h \in Replicas(KeyOf(job[c])) /\ ~torn[w[1]][w[2]]
      BY <1>1, <1>7, <1>9, <2>6
    <3>2. store'[h][w[1]][w[2]] =
            IF h \in Rest(job[c]) \ {Host(c)} THEN last[w[1]][w[2]]
            ELSE effect[job[c].value][last[w[1]][w[2]]]
      BY <1>1, <2>1, <3>1, UpdateSoFar
    <3>3. QED
      BY <1>1, <1>6, <2>5, <3>2
  <2>7. QED
    BY <2>4, <2>6 DEF UpdateDone
<1>14. QED
  BY <1>1, <1>8, <1>9, <1>10, <1>11, <1>12, <1>13 DEF StepFacts, StoreInv, TypeOK

\* The last group: an undisturbed write has reached every copy.
LEMMA WriteLastStored ==
  ASSUME StoreInv, NEW c \in Callers, write_last_group(c)
  PROVE  /\ last' \in [Databases -> [Keys -> Contents]]
         /\ torn' \in [Databases -> [Keys -> BOOLEAN]]
         /\ \A d \in Databases, k \in Keys :
              <<d, k>> \notin Area(db[c], job[c]) =>
                last'[d][k] = last[d][k] /\ torn'[d][k] = torn[d][k]
         /\ \A d \in Databases, k \in Keys :
              <<d, k>> \in Area(db[c], job[c]) =>
                /\ job[c].op \in Overwrites => last'[d][k] = job[c].value
                /\ ~torn'[d][k] => \A h \in Replicas(k) : store'[h][d][k] = last'[d][k]
                /\ job[c].op \in Repairs /\ ~job[c].clash /\ ~Split(Area(db[c], job[c]))
                     => ~torn'[d][k]
<1>1. /\ job[c].op \in KeyedWrites /\ LastHost(c) /\ WriteHost(c)
      /\ last' = Written(last, c) /\ torn' = TornBy(c)
  BY DEF write_last_group
<1>2. job[c].op # "none"
  BY <1>1 DEF KeyedWrites
<1>3. Typed(job[c]) /\ RoutedJob(job[c])
  BY OneCaller
<1>4. /\ last' \in [Databases -> [Keys -> Contents]]
      /\ \A d \in Databases, k \in Keys :
           /\ <<d, k>> \notin Area(db[c], job[c]) => last'[d][k] = last[d][k]
           /\ <<d, k>> \in Area(db[c], job[c]) =>
                /\ job[c].op \in Overwrites => last'[d][k] = job[c].value
                /\ job[c].op = "update" => last'[d][k] = effect[job[c].value][last[d][k]]
  BY <1>1, WrittenFacts
<1>5. /\ torn' \in [Databases -> [Keys -> BOOLEAN]]
      /\ \A d \in Databases, k \in Keys :
           /\ <<d, k>> \notin Area(db[c], job[c]) => torn'[d][k] = torn[d][k]
           /\ <<d, k>> \in Area(db[c], job[c]) =>
                /\ job[c].clash \/ job[c].op \in {"spop", "move"} \/ Split(Area(db[c], job[c]))
                     => torn'[d][k]
                /\ job[c].op \notin Repairs /\ torn[d][k] => torn'[d][k]
                /\ job[c].op \in Repairs /\ ~job[c].clash /\ ~Split(Area(db[c], job[c]))
                     => ~torn'[d][k]
  BY <1>1, TornByFacts
<1>6. ASSUME NEW d \in Databases, NEW k \in Keys, <<d, k>> \in Area(db[c], job[c]),
             ~torn'[d][k], NEW h \in Replicas(k)
      PROVE  store'[h][d][k] = last'[d][k]
  <2>1. ~job[c].clash /\ job[c].op \notin {"spop", "move"} /\ ~Split(Area(db[c], job[c]))
    BY <1>5, <1>6
  <2>2. k = KeyOf(job[c])
    <3>1. \A w \in Area(db[c], job[c]) : w[2] = KeyOf(job[c])
      BY <1>1, KeyedArea
    <3>2. <<d, k>>[2] = KeyOf(job[c])
      BY <1>6, <3>1
    <3>3. QED
      BY <3>2
  <2>3. Rest(job[c]) = {Host(c)}
    BY <1>1, <1>2, <1>3, HostFacts
  <2> DEFINE w == <<d, k>>
  <2>4. w[1] = d /\ w[2] = k /\ w \in Area(db[c], job[c])
    BY <1>6
  <2> HIDE DEF w
  <2>5. CASE job[c].op \in Overwrites
    <3>1. h = Host(c) \/ h \notin Rest(job[c])
      BY <2>3
    <3>2. store'[h][w[1]][w[2]] = job[c].value
      BY <1>1, <1>6, <2>1, <2>2, <2>4, <2>5, <3>1, WriteSoFar
    <3>3. QED
      BY <1>4, <1>6, <2>4, <2>5, <3>2
  <2>6. CASE job[c].op = "update"
    <3>1. ~torn[w[1]][w[2]]
      <4>1. job[c].op \notin Repairs
        BY <2>6 DEF Repairs
      <4>2. QED
        BY <1>5, <1>6, <2>4, <4>1
    <3>2. store'[h][w[1]][w[2]] = effect[job[c].value][last[w[1]][w[2]]]
      <4>1. h \notin Rest(job[c]) \ {Host(c)}
        BY <2>3
      <4>2. store'[h][w[1]][w[2]] =
              IF h \in Rest(job[c]) \ {Host(c)} THEN last[w[1]][w[2]]
              ELSE effect[job[c].value][last[w[1]][w[2]]]
        BY <1>1, <1>6, <2>1, <2>2, <2>4, <2>6, <3>1, UpdateSoFar
      <4>3. QED
        BY <4>1, <4>2
    <3>3. QED
      BY <1>4, <1>6, <2>4, <2>6, <3>2
  <2>7. job[c].op \in Overwrites \/ job[c].op = "update"
    BY <1>1, <2>1 DEF KeyedWrites, Overwrites, Repairs
  <2>8. QED
    BY <2>5, <2>6, <2>7
<1>7. QED
  BY <1>4, <1>5, <1>6

LEMMA WriteLastFacts ==
  ASSUME StoreInv, NEW c \in Callers, write_last_group(c)
  PROVE  StepFacts(c)
<1>1. job[c].op \in KeyedWrites /\ WriteHost(c) /\ db' = db
  BY DEF write_last_group
<1>2. /\ store' \in [Hosts -> [Databases -> [Keys -> Contents]]] /\ Touches(c)
      /\ \A h \in Hosts, d \in Databases, k \in Keys :
           store'[h][d][k] = store[h][d][k] \/ h \in Replicas(k)
  BY <1>1, WriteEffect
<1>3. Typed(job[c]) /\ job[c] \in Jobs
  BY OneCaller DEF Typed
<1>4. db' \in [Callers -> [Hosts -> Databases]]
  BY <1>1 DEF StoreInv, TypeOK
<1>5. ASSUME right' \in BOOLEAN, job' \in [Callers -> Jobs], Typed(job'[c]), RoutedJob(job'[c]),
             WriteDone(store', db'[c], job'[c]), FlushDone(store', db'[c], job'[c]),
             UpdateDone(store', db'[c], job'[c], last', torn'),
             Leaves(c) \/ (\E A : Comes(c, A))
      PROVE  StepFacts(c)
  <2>1. QED
    BY <1>2, <1>4, <1>5, WriteLastStored DEF StepFacts
<1>6. CASE ~LastKey(c) /\ Enter(c, NextKey(c, [job[c] EXCEPT !.n = @ + DeletedNow(c)])) /\ right' = right
  <2> DEFINE j == [job[c] EXCEPT !.n = job[c].n + DeletedNow(c)]
  <2>1. /\ j \in Jobs /\ j.op = job[c].op /\ j.keys = job[c].keys /\ j.i = job[c].i
        /\ j.value = job[c].value
    <3>1. job[c].n + DeletedNow(c) \in Nat
      BY <1>3, DeletedNowType DEF Jobs
    <3>2. QED
      BY <1>3, <3>1 DEF Jobs
  <2>2. Enter(c, NextKey(c, j))
    BY <1>6
  <2> HIDE DEF j
  <2>3. Fresh(NextKey(c, j)) /\ NextKey(c, j).op # "update"
    BY <1>1, <1>6, <2>1, NextKeyFacts
  <2>4. right' \in BOOLEAN
    BY <1>6 DEF StoreInv, TypeOK
  <2>5. QED
    BY <1>1, <1>5, <2>2, <2>3, <2>4, FreshEnters
<1>7. CASE LastKey(c) /\ Finish(c) /\ right' \in BOOLEAN
  <2>1. job' \in [Callers -> Jobs] /\ job'[c] = NoJob /\ Leaves(c)
    BY <1>1, <1>7, FinishStep DEF StoreInv
  <2>2. QED
    BY <1>5, <1>7, <2>1, NoJobTyped
<1>8. QED
  BY <1>6, <1>7 DEF write_last_group

\* A failed write leaves its entries torn.
LEMMA WriteFailsFacts ==
  ASSUME StoreInv, NEW c \in Callers, write_fails(c)
  PROVE  StepFacts(c)
<1>1. /\ job[c].op \in KeyedWrites /\ (store' = store \/ WriteHost(c))
      /\ torn' = Update(torn, c, TRUE) /\ Finish(c)
      /\ db' = db /\ last' = last /\ right' = right
  BY DEF write_fails
<1>2. /\ store' \in [Hosts -> [Databases -> [Keys -> Contents]]] /\ Touches(c)
      /\ \A h \in Hosts, d \in Databases, k \in Keys :
           store'[h][d][k] = store[h][d][k] \/ h \in Replicas(k)
  <2>1. CASE store' = store
    BY <2>1 DEF Touches, StoreInv, TypeOK
  <2>2. CASE WriteHost(c)
    BY <1>1, <2>2, WriteEffect
  <2>3. QED
    BY <1>1, <2>1, <2>2
<1>3. job' \in [Callers -> Jobs] /\ job'[c] = NoJob /\ Leaves(c)
  BY <1>1, FinishStep DEF StoreInv
<1>5. /\ torn' \in [Databases -> [Keys -> BOOLEAN]]
      /\ \A d \in Databases, k \in Keys :
           torn'[d][k] = IF <<d, k>> \in Area(db[c], job[c]) THEN TRUE ELSE torn[d][k]
  BY <1>1, UpdateTorn
<1>6. QED
  BY <1>1, <1>2, <1>3, <1>5, NoJobTyped DEF StepFacts, StoreInv, TypeOK

-----------------------------------------------------------------------------
(***************************************************************************)
(* The calls of read, keys and select, which store nothing.                *)
(***************************************************************************)

LEMMA IdleDone ==
  ASSUME NEW S, NEW f, NEW j, j.op \notin KeyedWrites \cup Flushes
  PROVE  /\ WriteDone(S, f, j) /\ FlushDone(S, f, j)
         /\ \A L, T : UpdateDone(S, f, j, L, T)
<1>1. j.op \notin Overwrites /\ j.op # "update"
  BY DEF Overwrites, Repairs, KeyedWrites
<1>2. QED
  BY <1>1 DEF WriteDone, FlushDone, UpdateDone

LEMMA QuietFacts ==
  ASSUME StoreInv, NEW c \in Callers, job[c].op \notin KeyedWrites \cup Flushes,
         store' = store, last' = last, torn' = torn,
         db' \in [Callers -> [Hosts -> Databases]], right' \in BOOLEAN,
         job' \in [Callers -> Jobs], Typed(job'[c]), RoutedJob(job'[c]),
         GoesOn(c) \/ Leaves(c) \/ (\E A : Comes(c, A)),
         WriteDone(store', db'[c], job'[c]), FlushDone(store', db'[c], job'[c]),
         UpdateDone(store', db'[c], job'[c], last', torn')
  PROVE  StepFacts(c)
<1>1. Area(db[c], job[c]) = {}
  BY AreaKinds
<1>2. Touches(c)
  BY DEF Touches
<1>3. QED
  BY <1>1, <1>2 DEF StepFacts, StoreInv, TypeOK

\* What the host has for c is typed.
LEMMA HeldType ==
  ASSUME StoreInv, NEW c \in Callers, job[c].op # "none"
  PROVE  Held(c) \in [Keys -> Contents]
<1>1. Typed(job[c]) /\ db[c] \in [Hosts -> Databases]
  BY OneCaller
<1>2. Host(c) \in Hosts
  BY <1>1, HostFacts
<1>3. QED
  BY <1>1, <1>2 DEF Held, StoreInv, TypeOK

LEMMA FinishFacts ==
  ASSUME StoreInv, NEW c \in Callers, job[c].op \notin KeyedWrites \cup Flushes, Finish(c),
         store' = store, last' = last, torn' = torn,
         db' \in [Callers -> [Hosts -> Databases]], right' \in BOOLEAN,
         \A u \in Callers \ {c} : db'[u] = db[u]
  PROVE  StepFacts(c)
<1>1. job' \in [Callers -> Jobs] /\ job'[c] = NoJob /\ Leaves(c)
  BY FinishStep DEF StoreInv
<1>2. QED
  BY <1>1, NoJobTyped, QuietFacts

LEMMA AdvanceFacts ==
  ASSUME StoreInv, NEW c \in Callers, job[c].op \notin KeyedWrites \cup Flushes,
         job[c].op # "none", ~LastHost(c),
         NEW l \in Jobs, job' = [job EXCEPT ![c] = l],
         l.op = job[c].op, l.keys = job[c].keys, l.i = job[c].i, l.value = job[c].value,
         l.hosts = Tail(job[c].hosts), l.clash = job[c].clash,
         store' = store, last' = last, torn' = torn,
         db' \in [Callers -> [Hosts -> Databases]], right' \in BOOLEAN,
         \A u \in Callers \ {c} : db'[u] = db[u],
         db'[c] = db[c] \/ job[c].op = "select"
  PROVE  StepFacts(c)
<1>1. RoutedJob(job[c])
  BY OneCaller
<1>2. job' \in [Callers -> Jobs] /\ job'[c] = l /\ Typed(l) /\ RoutedJob(l) /\ GoesOn(c)
  BY <1>1, AdvanceStep DEF StoreInv
<1>3. /\ WriteDone(store', db'[c], l) /\ FlushDone(store', db'[c], l)
      /\ UpdateDone(store', db'[c], l, last', torn')
  BY IdleDone
<1>4. QED
  BY <1>2, <1>3, QuietFacts

LEMMA ReadHostFacts ==
  ASSUME StoreInv, NEW c \in Callers, read_host(c)
  PROVE  StepFacts(c)
<1> DEFINE got == Append(job[c].got, Held(c)[KeyOf(job[c])])
<1>1. job[c].op \in Reads /\ store' = store /\ db' = db /\ last' = last /\ torn' = torn
  BY DEF read_host
<1>2. /\ job[c].op \notin KeyedWrites \cup Flushes /\ job[c].op # "none"
      /\ job[c].op \in KeyedWrites \cup Reads
  BY <1>1 DEF Reads, KeyedWrites, Flushes
<1>3. Typed(job[c]) /\ job[c] \in Jobs
  BY OneCaller DEF Typed
<1>4. db' \in [Callers -> [Hosts -> Databases]]
  BY <1>1 DEF StoreInv, TypeOK
<1>5. got \in Seq(Contents \cup Keys)
  <2>1. KeyOf(job[c]) \in Keys /\ Held(c) \in [Keys -> Contents]
    BY <1>2, <1>3, KeyIsKey, HeldType
  <2>2. job[c].got \in Seq(Contents \cup Keys)
    BY <1>3 DEF Jobs
  <2>3. Held(c)[KeyOf(job[c])] \in Contents \cup Keys
    BY <2>1
  <2>4. QED
    BY <2>2, <2>3
<1>6. CASE ~LastKey(c) /\ Enter(c, NextKey(c, [job[c] EXCEPT !.got = got])) /\ right' = right
  <2> DEFINE j == [job[c] EXCEPT !.got = got]
  <2> HIDE DEF got
  <2>1. /\ j \in Jobs /\ j.op = job[c].op /\ j.keys = job[c].keys /\ j.i = job[c].i
        /\ j.value = job[c].value
    BY <1>3, <1>5 DEF Jobs
  <2>2. Enter(c, NextKey(c, j))
    BY <1>6
  <2> HIDE DEF j
  <2>3. Fresh(NextKey(c, j)) /\ NextKey(c, j).op # "update"
    BY <1>2, <1>6, <2>1, NextKeyFacts
  <2>4. right' \in BOOLEAN
    BY <1>6 DEF StoreInv, TypeOK
  <2>5. /\ job' \in [Callers -> Jobs]
        /\ Typed(job'[c]) /\ RoutedJob(job'[c])
        /\ Comes(c, Area(db[c], NextKey(c, j)))
        /\ WriteDone(store', db'[c], job'[c]) /\ FlushDone(store', db'[c], job'[c])
        /\ UpdateDone(store', db'[c], job'[c], last', torn')
    BY <1>1, <2>2, <2>3, FreshEnters
  <2>6. QED
    BY <1>1, <1>2, <1>4, <2>4, <2>5, QuietFacts
<1>7. CASE LastKey(c) /\ Finish(c) /\ right' \in BOOLEAN
  BY <1>1, <1>2, <1>4, <1>7, FinishFacts
<1>8. QED
  BY <1>6, <1>7 DEF read_host

LEMMA ReadFailsFacts ==
  ASSUME StoreInv, NEW c \in Callers, read_fails(c)
  PROVE  StepFacts(c)
<1>1. /\ job[c].op \in Reads
      /\ store' = store /\ db' = db /\ last' = last /\ torn' = torn /\ right' = right
  BY DEF read_fails
<1>2. job[c].op \notin KeyedWrites \cup Flushes /\ job[c].op # "none"
  BY <1>1 DEF Reads, KeyedWrites, Flushes
<1>3. db' \in [Callers -> [Hosts -> Databases]] /\ right' \in BOOLEAN /\ job \in [Callers -> Jobs]
  BY <1>1 DEF StoreInv, TypeOK
<1>4. CASE LastHost(c) /\ Finish(c)
  BY <1>1, <1>2, <1>3, <1>4, FinishFacts
<1>5. CASE ~LastHost(c) /\ job' = [job EXCEPT ![c].hosts = Tail(@)]
  <2> DEFINE l == [job[c] EXCEPT !.hosts = Tail(job[c].hosts)]
  <2>1. Typed(job[c]) /\ job[c] \in Jobs /\ Tail(job[c].hosts) \in Seq(Hosts)
    BY <1>2, OneCaller DEF Typed, Jobs
  <2>2. /\ l \in Jobs /\ l.op = job[c].op /\ l.keys = job[c].keys /\ l.i = job[c].i
        /\ l.value = job[c].value /\ l.hosts = Tail(job[c].hosts)
    BY <2>1 DEF Jobs
  <2>3. l.clash = job[c].clash
    BY <2>1 DEF Jobs
  <2>4. job' = [job EXCEPT ![c] = l]
    BY <1>3, <1>5
  <2> HIDE DEF l
  <2>5. QED
    BY <1>1, <1>2, <1>3, <1>5, <2>2, <2>3, <2>4, AdvanceFacts
<1>6. QED
  BY <1>4, <1>5 DEF read_fails

LEMMA KeysHostFacts ==
  ASSUME StoreInv, NEW c \in Callers, keys_host(c)
  PROVE  StepFacts(c)
<1> DEFINE stored == {k \in Keys : Held(c)[k] # Nil}
<1>1. job[c].op = "keys" /\ store' = store /\ db' = db /\ last' = last /\ torn' = torn
  BY DEF keys_host
<1>2. job[c].op \notin KeyedWrites \cup Flushes /\ job[c].op # "none"
  BY <1>1 DEF KeyedWrites, Flushes
<1>3. db' \in [Callers -> [Hosts -> Databases]] /\ job \in [Callers -> Jobs] /\ right \in BOOLEAN
  BY <1>1 DEF StoreInv, TypeOK
<1>4. Typed(job[c]) /\ job[c] \in Jobs
  BY OneCaller DEF Typed
<1>5. PICK names \in [1..Cardinality(stored) -> stored] :
        IF LastHost(c)
          THEN right' \in BOOLEAN /\ Finish(c)
          ELSE /\ job' = [job EXCEPT ![c].hosts = Tail(@), ![c].got = job[c].got \o names]
               /\ right' = right
  BY DEF keys_host
<1>6. job[c].got \o names \in Seq(Contents \cup Keys)
  <2>1. stored \subseteq Keys /\ IsFiniteSet(stored)
    BY Redis2PAssumption, FS_Subset
  <2>2. Cardinality(stored) \in Nat
    BY <2>1, FS_CardinalityType
  <2> HIDE DEF stored
  <2>3. names \in Seq(Contents \cup Keys)
    BY <1>5, <2>1, <2>2
  <2>4. job[c].got \in Seq(Contents \cup Keys)
    BY <1>4 DEF Jobs
  <2>5. QED
    BY <2>3, <2>4
<1>7. CASE LastHost(c)
  BY <1>1, <1>2, <1>3, <1>5, <1>7, FinishFacts
<1>8. CASE ~LastHost(c)
  <2> DEFINE got == job[c].got \o names
             l == [job[c] EXCEPT !.hosts = Tail(job[c].hosts), !.got = got]
  <2>1. Tail(job[c].hosts) \in Seq(Hosts)
    BY <1>2, <1>4 DEF Typed, Jobs
  <2> HIDE DEF got
  <2>2. got \in Seq(Contents \cup Keys)
    BY <1>6 DEF got
  <2>3. /\ l \in Jobs /\ l.op = job[c].op /\ l.keys = job[c].keys /\ l.i = job[c].i
        /\ l.value = job[c].value /\ l.hosts = Tail(job[c].hosts)
    BY <1>4, <2>1, <2>2 DEF Jobs
  <2>4. l.clash = job[c].clash
    BY <1>4 DEF Jobs
  <2>5. job' = [job EXCEPT ![c] = l]
    BY <1>3, <1>5, <1>8 DEF got
  <2>6. right' \in BOOLEAN
    BY <1>3, <1>5, <1>8
  <2> HIDE DEF l
  <2>7. QED
    BY <1>1, <1>2, <1>3, <1>8, <2>3, <2>4, <2>5, <2>6, AdvanceFacts
<1>9. QED
  BY <1>7, <1>8

LEMMA KeysFailsFacts ==
  ASSUME StoreInv, NEW c \in Callers, keys_fails(c)
  PROVE  StepFacts(c)
<1>1. job[c].op \notin KeyedWrites \cup Flushes
  BY DEF keys_fails, KeyedWrites, Flushes
<1>2. db' \in [Callers -> [Hosts -> Databases]] /\ right' \in BOOLEAN
  BY DEF keys_fails, StoreInv, TypeOK
<1>3. QED
  BY <1>1, <1>2, FinishFacts DEF keys_fails

LEMMA SelectHostFacts ==
  ASSUME StoreInv, NEW c \in Callers, select_host(c)
  PROVE  StepFacts(c)
<1>1. PICK done \in BOOLEAN :
        /\ job[c].op = "select"
        /\ db' = IF done THEN [db EXCEPT ![c][Host(c)] = job[c].value] ELSE db
        /\ IF LastHost(c)
             THEN right' \in BOOLEAN /\ Finish(c)
             ELSE /\ job' = [job EXCEPT ![c].hosts = Tail(@), ![c].ok = ReturnValue(c, done)]
                  /\ right' = right
        /\ store' = store /\ last' = last /\ torn' = torn
  BY DEF select_host
<1>2. job[c].op \notin KeyedWrites \cup Flushes /\ job[c].op # "none"
  BY <1>1 DEF KeyedWrites, Flushes
<1>3. /\ db \in [Callers -> [Hosts -> Databases]] /\ job \in [Callers -> Jobs]
      /\ right \in BOOLEAN /\ Typed(job[c]) /\ job[c] \in Jobs /\ RoutedJob(job[c])
  BY OneCaller DEF StoreInv, TypeOK
<1>4. job[c].value \in Databases /\ Host(c) \in Hosts
  BY <1>1, <1>2, <1>3, HostFacts DEF RoutedJob
<1>5. db' \in [Callers -> [Hosts -> Databases]] /\ \A u \in Callers \ {c} : db'[u] = db[u]
  BY <1>1, <1>3, <1>4
<1>6. CASE LastHost(c)
  BY <1>1, <1>2, <1>5, <1>6, FinishFacts
<1>7. CASE ~LastHost(c)
  <2> DEFINE r == ReturnValue(c, done)
             l == [job[c] EXCEPT !.hosts = Tail(job[c].hosts), !.ok = r]
  <2>1. Tail(job[c].hosts) \in Seq(Hosts) /\ r \in BOOLEAN
    BY <1>2, <1>3 DEF Typed, Jobs, ReturnValue
  <2> HIDE DEF r
  <2>2. /\ l \in Jobs /\ l.op = job[c].op /\ l.keys = job[c].keys /\ l.i = job[c].i
        /\ l.value = job[c].value /\ l.hosts = Tail(job[c].hosts)
    BY <1>3, <2>1 DEF Jobs
  <2>3. l.clash = job[c].clash
    BY <1>3 DEF Jobs
  <2>4. job' = [job EXCEPT ![c] = l]
    BY <1>1, <1>3, <1>7 DEF r
  <2>5. right' \in BOOLEAN
    BY <1>1, <1>3, <1>7
  <2> HIDE DEF l
  <2>6. QED
    BY <1>1, <1>2, <1>5, <1>7, <2>2, <2>3, <2>4, <2>5, AdvanceFacts
<1>8. QED
  BY <1>6, <1>7

-----------------------------------------------------------------------------
(***************************************************************************)
(* The calls of flushdb and flushall.                                      *)
(***************************************************************************)

\* One host flushed, whether c learns of it (done) or not.
FlushCall(c, done, executed) ==
  /\ job[c].op \in Flushes
  /\ done => executed
  /\ ~executed => store' = store
  /\ executed /\ job[c].op = "flushdb" =>
       store' = [store EXCEPT ![Host(c)][db[c][Host(c)]] = Nothing]
  /\ executed /\ job[c].op = "flushall" =>
       store' = [store EXCEPT ![Host(c)] = Everywhere(Nothing)]
  /\ db' = db /\ right' = right

LEMMA FlushShape ==
  ASSUME NEW c, flush_host(c)
  PROVE  \E done \in BOOLEAN, executed \in BOOLEAN :
           /\ FlushCall(c, done, executed)
           /\ \/ /\ LastHost(c)
                 /\ torn' = Update(torn, c, job[c].clash \/ ~(job[c].ok /\ done)
                                      \/ (job[c].op = "flushdb" /\ Split(Area(db[c], job[c]))))
                 /\ last' = Update(last, c, Nil)
                 /\ Finish(c)
              \/ /\ ~LastHost(c)
                 /\ job' = [job EXCEPT ![c].hosts = Tail(@), ![c].ok = job[c].ok /\ done]
                 /\ last' = last /\ torn' = torn
<1>1. PICK done \in BOOLEAN, executed \in BOOLEAN :
        /\ job[c].op \in Flushes
        /\ done => executed
        /\ \/ ~executed /\ store' = store
           \/ /\ executed /\ job[c].op = "flushdb"
              /\ store' = [store EXCEPT ![Host(c)][db[c][Host(c)]] = Nothing]
           \/ /\ executed /\ job[c].op = "flushall"
              /\ store' = [store EXCEPT ![Host(c)] = Everywhere(Nothing)]
        /\ IF LastHost(c)
             THEN /\ torn' = Update(torn, c, job[c].clash \/ ~(job[c].ok /\ done)
                                      \/ (job[c].op = "flushdb" /\ Divided(c)))
                  /\ last' = Update(last, c, Nil)
                  /\ Finish(c)
             ELSE /\ job' = [job EXCEPT ![c].hosts = Tail(@), ![c].ok = job[c].ok /\ done]
                  /\ last' = last /\ torn' = torn
        /\ db' = db /\ right' = right
  BY DEF flush_host
<1>2. Divided(c) = Split(Area(db[c], job[c]))
  BY AreaNow
<1>7. FlushCall(c, done, executed)
  BY <1>1 DEF FlushCall
<1>8. QED
  BY <1>1, <1>2, <1>7

LEMMA FlushEffect ==
  ASSUME StoreInv, NEW c \in Callers, NEW done \in BOOLEAN, NEW executed \in BOOLEAN,
         FlushCall(c, done, executed)
  PROVE  /\ store' \in [Hosts -> [Databases -> [Keys -> Contents]]]
         /\ Touches(c)
         /\ \A h \in Hosts, d \in Databases, k \in Keys :
              store'[h][d][k] = store[h][d][k] \/ store'[h][d][k] = Nil
         /\ executed /\ job[c].op = "flushdb" =>
              \A k \in Keys : store'[Host(c)][db[c][Host(c)]][k] = Nil
         /\ executed /\ job[c].op = "flushall" =>
              \A d \in Databases, k \in Keys : store'[Host(c)][d][k] = Nil
<1> DEFINE hh == Host(c)
           dd == db[c][Host(c)]
<1>1. job[c].op \in Flushes /\ job[c].op # "none"
  BY DEF FlushCall, Flushes
<1>2. Typed(job[c]) /\ db[c] \in [Hosts -> Databases]
  BY OneCaller
<1>3. hh \in Hosts /\ dd \in Databases
  BY <1>1, <1>2, HostFacts
<1>4. store \in [Hosts -> [Databases -> [Keys -> Contents]]]
  BY DEF StoreInv, TypeOK
<1>5. Nothing \in [Keys -> Contents] /\ \A k \in Keys : Nothing[k] = Nil
  BY DEF Nothing, Contents
<1>6. /\ Everywhere(Nothing) \in [Databases -> [Keys -> Contents]]
      /\ \A d \in Databases : Everywhere(Nothing)[d] = Nothing
  BY <1>5 DEF Everywhere
<1>7. CASE ~executed
  BY <1>4, <1>7 DEF FlushCall, Touches
<1>8. CASE executed /\ job[c].op = "flushdb"
  <2>1. store' = [store EXCEPT ![hh][dd] = Nothing]
    BY <1>8 DEF FlushCall
  <2>2. Area(db[c], job[c]) = {db[c][h] : h \in Hosts} \X Keys
    BY <1>8, AreaKinds
  <2>3. \A k \in Keys : <<dd, k>> \in Area(db[c], job[c])
    BY <1>3, <2>2
  <2>4. job[c].op # "flushall"
    BY <1>8
  <2> HIDE DEF hh, dd
  <2>5. store' \in [Hosts -> [Databases -> [Keys -> Contents]]]
    BY <1>3, <1>4, <1>5, <2>1
  <2>6. \A h \in Hosts, d \in Databases, k \in Keys :
          store'[h][d][k] = IF h = hh /\ d = dd THEN Nil ELSE store[h][d][k]
    BY <1>3, <1>4, <1>5, <2>1
  <2>7. Touches(c)
    BY <2>3, <2>6 DEF Touches, hh
  <2>8. QED
    BY <1>3, <2>4, <2>5, <2>6, <2>7 DEF hh, dd
<1>9. CASE executed /\ job[c].op = "flushall"
  <2>1. store' = [store EXCEPT ![hh] = Everywhere(Nothing)]
    BY <1>9 DEF FlushCall
  <2>2. Area(db[c], job[c]) = Databases \X Keys
    BY <1>9, AreaKinds
  <2>3. job[c].op # "flushdb"
    BY <1>9
  <2> HIDE DEF hh
  <2>4. store' \in [Hosts -> [Databases -> [Keys -> Contents]]]
    BY <1>3, <1>4, <1>6, <2>1
  <2>5. \A h \in Hosts, d \in Databases, k \in Keys :
          store'[h][d][k] = IF h = hh THEN Nil ELSE store[h][d][k]
    BY <1>3, <1>4, <1>5, <1>6, <2>1
  <2>6. Touches(c)
    BY <2>2, <2>5 DEF Touches, hh
  <2>7. QED
    BY <1>3, <2>3, <2>4, <2>5, <2>6 DEF hh
<1>10. QED
  BY <1>1, <1>7, <1>8, <1>9 DEF Flushes

\* The hosts that have been called, this one included, are empty.
LEMMA FlushSoFar ==
  ASSUME StoreInv, NEW c \in Callers, NEW done \in BOOLEAN, NEW executed \in BOOLEAN,
         FlushCall(c, done, executed), job[c].ok, done, ~job[c].clash,
         job[c].op = "flushdb" => ~Split(Area(db[c], job[c])), NEW w \in Area(db[c], job[c]),
         NEW h \in Hosts, h = Host(c) \/ h \notin Rest(job[c])
  PROVE  store'[h][w[1]][w[2]] = Nil
<1>1. job[c].op \in Flushes /\ executed
  BY DEF FlushCall
<1>2. /\ Typed(job[c]) /\ FlushDone(store, db[c], job[c])
      /\ db[c] \in [Hosts -> Databases] /\ Area(db[c], job[c]) \subseteq Databases \X Keys
  BY OneCaller
<1>3. w[1] \in Databases /\ w[2] \in Keys
  BY <1>2
<1> DEFINE Effect ==
      /\ \A g \in Hosts, d \in Databases, k \in Keys :
           store'[g][d][k] = store[g][d][k] \/ store'[g][d][k] = Nil
      /\ executed /\ job[c].op = "flushdb" =>
           \A k \in Keys : store'[Host(c)][db[c][Host(c)]][k] = Nil
      /\ executed /\ job[c].op = "flushall" =>
           \A d \in Databases, k \in Keys : store'[Host(c)][d][k] = Nil
<1>4. Effect
  BY FlushEffect, Zenon
<1>5. CASE h \notin Rest(job[c])
  <2>1. store[h][w[1]][w[2]] = Nil
    BY <1>1, <1>2, <1>5 DEF FlushDone
  <2>2. store'[h][w[1]][w[2]] = store[h][w[1]][w[2]] \/ store'[h][w[1]][w[2]] = Nil
    BY <1>3, <1>4
  <2>3. QED
    BY <2>1, <2>2
<1>6. CASE h = Host(c) /\ job[c].op = "flushdb"
  <2>1. Area(db[c], job[c]) = {db[c][g] : g \in Hosts} \X Keys
    BY <1>6, AreaKinds
  <2>2. <<db[c][h], w[2]>> \in Area(db[c], job[c])
    BY <1>3, <2>1
  <2>3. w[1] = db[c][h]
    BY <1>6, <2>2 DEF Split
  <2>4. QED
    BY <1>1, <1>3, <1>6, <2>3, <1>4
<1>7. CASE h = Host(c) /\ job[c].op = "flushall"
  BY <1>1, <1>3, <1>7, <1>4
<1>8. QED
  BY <1>1, <1>5, <1>6, <1>7 DEF Flushes

LEMMA FlushHostFacts ==
  ASSUME StoreInv, NEW c \in Callers, flush_host(c)
  PROVE  StepFacts(c)
<1>1. PICK done \in BOOLEAN, executed \in BOOLEAN :
        /\ FlushCall(c, done, executed)
        /\ \/ /\ LastHost(c)
              /\ torn' = Update(torn, c, job[c].clash \/ ~(job[c].ok /\ done)
                                   \/ (job[c].op = "flushdb" /\ Split(Area(db[c], job[c]))))
              /\ last' = Update(last, c, Nil)
              /\ Finish(c)
           \/ /\ ~LastHost(c)
              /\ job' = [job EXCEPT ![c].hosts = Tail(@), ![c].ok = job[c].ok /\ done]
              /\ last' = last /\ torn' = torn
  BY FlushShape
<1>2. /\ job[c].op \in Flushes /\ job[c].op # "none" /\ job[c].op \notin KeyedWrites
      /\ db' = db /\ right' = right
  BY <1>1 DEF FlushCall, Flushes, KeyedWrites
<1>3. /\ Typed(job[c]) /\ RoutedJob(job[c]) /\ job[c] \in Jobs /\ job \in [Callers -> Jobs]
      /\ db' \in [Callers -> [Hosts -> Databases]] /\ right' \in BOOLEAN
  BY <1>2, OneCaller DEF StoreInv, TypeOK
<1>4. /\ store' \in [Hosts -> [Databases -> [Keys -> Contents]]] /\ Touches(c)
      /\ \A h \in Hosts, d \in Databases, k \in Keys :
           store'[h][d][k] = store[h][d][k] \/ store'[h][d][k] = Nil
  BY <1>1, FlushEffect
<1>5. CASE LastHost(c)
  <2> DEFINE x == job[c].clash \/ ~(job[c].ok /\ done)
                    \/ (job[c].op = "flushdb" /\ Split(Area(db[c], job[c])))
  <2>1. torn' = Update(torn, c, x) /\ last' = Update(last, c, Nil) /\ Finish(c)
    BY <1>1, <1>5
  <2>2. x \in BOOLEAN /\ Nil \in Contents
    BY DEF Contents
  <2>3. /\ last' \in [Databases -> [Keys -> Contents]]
        /\ \A d \in Databases, k \in Keys :
             last'[d][k] = IF <<d, k>> \in Area(db[c], job[c]) THEN Nil ELSE last[d][k]
    BY <2>1, <2>2, UpdateLast
  <2> HIDE DEF x
  <2>4. /\ torn' \in [Databases -> [Keys -> BOOLEAN]]
        /\ \A d \in Databases, k \in Keys :
             torn'[d][k] = IF <<d, k>> \in Area(db[c], job[c]) THEN x ELSE torn[d][k]
    BY <2>1, <2>2, UpdateTorn
  <2>5. ASSUME NEW d \in Databases, NEW k \in Keys, <<d, k>> \in Area(db[c], job[c]), ~x,
               NEW h \in Replicas(k)
        PROVE  store'[h][d][k] = Nil
    <3>1. /\ job[c].ok /\ done /\ ~job[c].clash
          /\ job[c].op = "flushdb" => ~Split(Area(db[c], job[c]))
      BY <2>5 DEF x
    <3>2. Rest(job[c]) = {Host(c)}
      BY <1>2, <1>3, <1>5, HostFacts
    <3>3. h = Host(c) \/ h \notin Rest(job[c])
      BY <3>2
    <3>4. h \in Hosts
      BY <2>5, ReplicasAreHosts DEF StoreInv
    <3>5. store'[h][<<d, k>>[1]][<<d, k>>[2]] = Nil
      BY <1>1, <2>5, <3>1, <3>3, <3>4, FlushSoFar
    <3>6. QED
      BY <3>5
  <2>6. job' \in [Callers -> Jobs] /\ job'[c] = NoJob /\ Leaves(c)
    BY <1>2, <2>1, FinishStep DEF StoreInv
  <2>7. QED
    BY <1>3, <1>4, <2>3, <2>4, <2>5, <2>6, NoJobTyped DEF StepFacts
<1>6. CASE ~LastHost(c)
  <2> DEFINE r == job[c].ok /\ done
             l == [job[c] EXCEPT !.hosts = Tail(job[c].hosts), !.ok = r]
  <2>1. Tail(job[c].hosts) \in Seq(Hosts) /\ r \in BOOLEAN
    BY <1>2, <1>3 DEF Typed, Jobs
  <2>2. job' = [job EXCEPT ![c].hosts = Tail(@), ![c].ok = r] /\ last' = last /\ torn' = torn
    BY <1>1, <1>6
  <2> HIDE DEF r
  <2>3. /\ l \in Jobs /\ l.op = job[c].op /\ l.keys = job[c].keys /\ l.i = job[c].i
        /\ l.value = job[c].value /\ l.hosts = Tail(job[c].hosts)
    BY <1>3, <2>1 DEF Jobs
  <2>4. l.clash = job[c].clash /\ l.ok = r
    BY <1>3 DEF Jobs
  <2>5. job' = [job EXCEPT ![c] = l]
    BY <1>3, <2>2
  <2> HIDE DEF l
  <2>6. /\ job' \in [Callers -> Jobs] /\ job'[c] = l /\ Typed(l) /\ RoutedJob(l) /\ GoesOn(c)
        /\ \A h \in Rest(job[c]) : h = Host(c) \/ h \in Rest(l)
    BY <1>2, <1>3, <1>6, <2>3, <2>4, <2>5, AdvanceStep DEF StoreInv
  <2>7. Area(db'[c], l) = Area(db[c], job[c])
    BY <1>2, <2>3, AreaSame
  <2>8. WriteDone(store', db'[c], l) /\ UpdateDone(store', db'[c], l, last', torn')
    BY <1>2, <2>3 DEF WriteDone, UpdateDone, Overwrites, Repairs, KeyedWrites
  <2>9. FlushDone(store', db'[c], l)
    <3>1. SUFFICES ASSUME l.op \in Flushes, l.ok, ~l.clash,
                          l.op = "flushdb" => ~Split(Area(db'[c], l)),
                          NEW w \in Area(db'[c], l), NEW h \in Hosts \ Rest(l)
                   PROVE  store'[h][w[1]][w[2]] = Nil
      BY DEF FlushDone
    <3>2. h = Host(c) \/ h \notin Rest(job[c])
      BY <2>6, <3>1
    <3>3. job[c].ok /\ done
      BY <2>4, <3>1 DEF r
    <3>4. ~job[c].clash /\ (job[c].op = "flushdb" => ~Split(Area(db[c], job[c])))
      BY <2>3, <2>4, <2>7, <3>1
    <3>5. w \in Area(db[c], job[c])
      BY <2>7, <3>1
    <3>6. QED
      BY <1>1, <3>2, <3>3, <3>4, <3>5, FlushSoFar
  <2>10. QED
    BY <1>3, <1>4, <2>2, <2>6, <2>7, <2>8, <2>9 DEF StepFacts, StoreInv, TypeOK
<1>7. QED
  BY <1>5, <1>6

-----------------------------------------------------------------------------
(***************************************************************************)
(* The theorems about what is stored.                                      *)
(***************************************************************************)

LEMMA StoreInit ==
  ASSUME Init
  PROVE  StoreInv
<1>1. Nothing \in [Keys -> Contents] /\ \A k \in Keys : Nothing[k] = Nil
  BY DEF Nothing, Contents
<1>2. inner_init /\ job = [c \in Callers |-> NoJob]
  BY DEF Init
<1>3. PICK d0 \in Databases : db = [c \in Callers |-> [h \in Hosts |-> d0]]
  BY DEF Init
<1>4. store = [h \in Hosts |-> [d \in Databases |-> Nothing]] /\ last = [d \in Databases |-> Nothing]
  BY DEF Init, Everywhere
<1>5. torn = [d \in Databases |-> [k \in Keys |-> FALSE]] /\ right = TRUE
  BY DEF Init, Everywhere
<1>6. \A c \in Callers : job[c] = NoJob
  BY <1>2
<1>7. TypeOK
  <2>1. store \in [Hosts -> [Databases -> [Keys -> Contents]]] /\ last \in [Databases -> [Keys -> Contents]]
    BY <1>1, <1>4
  <2>2. db \in [Callers -> [Hosts -> Databases]]
    BY <1>3
  <2>3. torn \in [Databases -> [Keys -> BOOLEAN]] /\ right \in BOOLEAN
    BY <1>5
  <2>4. job \in [Callers -> Jobs] /\ \A c \in Callers : Typed(job[c])
    BY <1>2, NoJobTyped
  <2>5. QED
    BY <2>1, <2>2, <2>3, <2>4, PartsNow
<1>8. Routed /\ Underway /\ UpdateUnderway
  BY <1>6, NoJobTyped, PartsNow
<1>9. Apart
  <2>1. ApartIn(db, job)
    BY <1>6, NoJobTyped DEF ApartIn
  <2>2. QED
    BY <2>1, PartsNow
<1>10. \A h \in Hosts, d \in Databases, k \in Keys : store[h][d][k] = Nil /\ last[d][k] = Nil
  BY <1>1, <1>4
<1>11. Placement
  BY <1>10 DEF Placement
<1>12. Replicated
  BY <1>2, <1>10, ReplicasAreHosts DEF Replicated
<1>13. QED
  BY <1>2, <1>7, <1>8, <1>9, <1>11, <1>12 DEF StoreInv

\* Every step is one of these.
LEMMA EveryStep ==
  ASSUME StoreInv, Next
  PROVE  \E c \in Callers : StepFacts(c)
<1>1. ASSUME NEW c \in Callers, Begins(c) PROVE StepFacts(c)
  BY <1>1, BeginFacts
<1>2. ASSUME NEW c \in Callers, write_next_group(c) PROVE StepFacts(c)
  BY <1>2, WriteNextFacts
<1>3. ASSUME NEW c \in Callers, write_last_group(c) PROVE StepFacts(c)
  BY <1>3, WriteLastFacts
<1>4. ASSUME NEW c \in Callers, write_fails(c) PROVE StepFacts(c)
  BY <1>4, WriteFailsFacts
<1>5. ASSUME NEW c \in Callers, read_host(c) PROVE StepFacts(c)
  BY <1>5, ReadHostFacts
<1>6. ASSUME NEW c \in Callers, read_fails(c) PROVE StepFacts(c)
  BY <1>6, ReadFailsFacts
<1>7. ASSUME NEW c \in Callers, keys_host(c) PROVE StepFacts(c)
  BY <1>7, KeysHostFacts
<1>8. ASSUME NEW c \in Callers, keys_fails(c) PROVE StepFacts(c)
  BY <1>8, KeysFailsFacts
<1>9. ASSUME NEW c \in Callers, flush_host(c) PROVE StepFacts(c)
  BY <1>9, FlushHostFacts
<1>10. ASSUME NEW c \in Callers, select_host(c) PROVE StepFacts(c)
  BY <1>10, SelectHostFacts
<1>11. QED
  BY <1>1, <1>2, <1>3, <1>4, <1>5, <1>6, <1>7, <1>8, <1>9, <1>10 DEF Next, Begins

LEMMA StoreNext ==
  ASSUME StoreInv, [Next]_vars
  PROVE  StoreInv'
<1>1. CASE Next
  BY <1>1, EveryStep, StepKeeps
<1>2. CASE UNCHANGED vars
  <2>1. /\ store' = store /\ db' = db /\ job' = job /\ last' = last /\ torn' = torn
        /\ right' = right
    BY <1>2 DEF vars
  <2>2. TypeOK' /\ Routed' /\ Apart' /\ Underway' /\ UpdateUnderway' /\ Replicated'
    BY <2>1, PartsNow, PartsNext DEF StoreInv
  <2>3. Placement' /\ inner_init'
    BY <2>1 DEF StoreInv, Placement, inner_init
  <2>4. QED
    BY <2>2, <2>3 DEF StoreInv
<1>3. QED
  BY <1>1, <1>2

LEMMA StoreAlways == Spec => []StoreInv
<1>1. Init => StoreInv
  BY StoreInit
<1>2. StoreInv /\ [Next]_vars => StoreInv'
  BY StoreNext
<1>3. QED
  BY <1>1, <1>2, PTL DEF Spec

\* Type correctness, for any number of callers, hosts, groups and keys, any
\* hash function and any seeds.
THEOREM Redis2PTypeCorrect == Spec => []TypeOK
<1>1. StoreInv => TypeOK
  BY DEF StoreInv
<1>2. QED
  BY <1>1, StoreAlways, PTL

\* A key is never stored on a host where get_key_client would not look for it.
THEOREM AlwaysPlaced == Spec => []Placement
<1>1. StoreInv => Placement
  BY DEF StoreInv
<1>2. QED
  BY <1>1, StoreAlways, PTL

\* All groups hold what the last complete write of a key left, until the next
\* write of it begins, unless a write of it failed or crossed another one or it
\* was spop or move.  A complete set, mset, del or flush makes the groups equal
\* again; a complete incr, append, setnx or lpop keeps equal groups equal and
\* repairs nothing.
THEOREM AlwaysReplicated == Spec => []Replicated
<1>1. StoreInv => Replicated
  BY DEF StoreInv
<1>2. QED
  BY <1>1, StoreAlways, PTL

-----------------------------------------------------------------------------
(***************************************************************************)
(* What the methods return.  The parts of ReturnInv as predicates of a     *)
(* value of the state.                                                     *)
(***************************************************************************)

SwitchedIn(f, j) ==
  j.op = "select" /\ j.ok => \A h \in Hosts \ Rest(j) : f[h] = j.value

Calm(j) == j.op \in Reads \cup {"keys", "del"} /\ j.calm

AloneIn(c, D, J, L, T) ==
  Calm(J[c]) =>
    /\ \A u \in Callers \ {c} : Area(D[u], J[u]) = {}
    /\ \A h \in Hosts : D[c][h] = D[c][0]
    /\ \A k \in Keys : ~T[D[c][0]][k]
    /\ J[c].op # "del" => \A k \in Keys : L[D[c][0]][k] = J[c].before[k]

DoneBy(j) == {k \in Keys : \E m \in 1..(j.i - 1) : j.keys[m] = k}

DelIn(S, f, j, L) ==
  j.op = "del" /\ j.calm =>
    /\ ~j.clash
    /\ j.value = Nil
    /\ \A k \in Keys : L[f[0]][k] = IF k \in DoneBy(j) THEN Nil ELSE j.before[k]
    /\ \A h \in Rest(j) : S[h][f[0]][KeyOf(j)] = L[f[0]][KeyOf(j)]
    /\ \A m, n \in 1..Len(j.hosts) : j.hosts[m] = j.hosts[n] => m = n
    /\ j.n = Cardinality({k \in DoneBy(j) : j.before[k] # Nil})

ReadIn(j) ==
  j.op \in Reads /\ j.calm =>
    /\ Len(j.got) = j.i - 1
    /\ \A m \in 1..(j.i - 1) : j.got[m] = j.before[j.keys[m]]

\* The keys that the first n hosts of a group have.
Listed(n, b) == {k \in Keys : b[k] # Nil /\ get_key_host_index(k) < n}

Lists(got, ks) ==
  /\ Len(got) = Cardinality(ks)
  /\ \A k \in ks : \E m \in 1..Len(got) : got[m] = k

KeysIn(c, j) ==
  j.op = "keys" =>
    /\ Len(j.hosts) <= host_num
    /\ \A m \in 1..Len(j.hosts) :
         j.hosts[m] = (thread_id[c] % groups_) * host_num + (host_num - Len(j.hosts)) + m - 1
    /\ j.calm => Lists(j.got, Listed(host_num - Len(j.hosts), j.before))

LEMMA ReturnsNow ==
  ReturnInv = (/\ \A c \in Callers : /\ SwitchedIn(db[c], job[c])
                                     /\ AloneIn(c, db, job, last, torn)
                                     /\ DelIn(store, db[c], job[c], last)
                                     /\ ReadIn(job[c])
                                     /\ KeysIn(c, job[c])
               /\ right)
<1>1. Switched = \A c \in Callers : SwitchedIn(db[c], job[c])
  BY AreaNow DEF Switched, SwitchedIn
<1>2. Undisturbed = \A c \in Callers : AloneIn(c, db, job, last, torn)
  BY AreaNow DEF Undisturbed, AloneIn, Calm
<1>3. \A c : Done(c) = DoneBy(job[c])
  BY DEF Done, DoneBy
<1>4. DelUndisturbed = \A c \in Callers : DelIn(store, db[c], job[c], last)
  BY <1>3, AreaNow DEF DelUndisturbed, DelIn
<1>5. ReadUndisturbed = \A c \in Callers : ReadIn(job[c])
  BY DEF ReadUndisturbed, ReadIn
<1>6. KeysUndisturbed = \A c \in Callers : KeysIn(c, job[c])
  BY DEF KeysUndisturbed, KeysIn, Listed, Lists, Called
<1>7. QED
  BY <1>1, <1>2, <1>4, <1>5, <1>6 DEF ReturnInv, Truthful

LEMMA ReturnsNext ==
  ReturnInv' = (/\ \A c \in Callers : /\ SwitchedIn(db'[c], job'[c])
                                      /\ AloneIn(c, db', job', last', torn')
                                      /\ DelIn(store', db'[c], job'[c], last')
                                      /\ ReadIn(job'[c])
                                      /\ KeysIn(c, job'[c])
                /\ right')
<1>1. Switched' = \A c \in Callers : SwitchedIn(db'[c], job'[c])
  BY AreaNext DEF Switched, SwitchedIn
<1>2. Undisturbed' = \A c \in Callers : AloneIn(c, db', job', last', torn')
  <2>1. \A u : Writing(u, job[u])' = Area(db'[u], job'[u])
    BY AreaNext
  <2>2. ASSUME NEW c \in Callers
        PROVE  (\A u \in Callers \ {c} : Writing(u, job[u])' = {}) =
               (\A u \in Callers \ {c} : Area(db'[u], job'[u]) = {})
    BY <2>1
  <2>3. Undisturbed' =
          \A c \in Callers :
            job'[c].op \in Reads \cup {"keys", "del"} /\ job'[c].calm =>
              /\ \A u \in Callers \ {c} : Writing(u, job[u])' = {}
              /\ \A h \in Hosts : db'[c][h] = db'[c][0]
              /\ \A k \in Keys : ~torn'[db'[c][0]][k]
              /\ job'[c].op # "del" =>
                   \A k \in Keys : last'[db'[c][0]][k] = job'[c].before[k]
    BY DEF Undisturbed
  <2>4. ASSUME NEW c \in Callers
        PROVE  AloneIn(c, db', job', last', torn') =
               (job'[c].op \in Reads \cup {"keys", "del"} /\ job'[c].calm =>
                  /\ \A u \in Callers \ {c} : Writing(u, job[u])' = {}
                  /\ \A h \in Hosts : db'[c][h] = db'[c][0]
                  /\ \A k \in Keys : ~torn'[db'[c][0]][k]
                  /\ job'[c].op # "del" =>
                       \A k \in Keys : last'[db'[c][0]][k] = job'[c].before[k])
    BY <2>2 DEF AloneIn, Calm
  <2>5. QED
    BY <2>3, <2>4
<1>3. \A c : Done(c)' = DoneBy(job'[c])
  BY DEF Done, DoneBy
<1>4. DelUndisturbed' = \A c \in Callers : DelIn(store', db'[c], job'[c], last')
  BY <1>3, AreaNext DEF DelUndisturbed, DelIn, KeyOf
<1>5. ReadUndisturbed' = \A c \in Callers : ReadIn(job'[c])
  BY DEF ReadUndisturbed, ReadIn
<1>6. KeysUndisturbed' = \A c \in Callers : KeysIn(c, job'[c])
  BY DEF KeysUndisturbed, KeysIn, Listed, Lists, Called
<1>7. QED
  BY <1>1, <1>2, <1>4, <1>5, <1>6 DEF ReturnInv, Truthful

\* A step of c that disturbs u makes u's method not calm.
LEMMA OthersReturn ==
  ASSUME StoreInv, ReturnInv, NEW c \in Callers, StepFacts(c), NEW u \in Callers \ {c}
  PROVE  /\ SwitchedIn(db'[u], job'[u])
         /\ AloneIn(u, db', job', last', torn')
         /\ DelIn(store', db'[u], job'[u], last')
         /\ ReadIn(job'[u])
         /\ KeysIn(u, job'[u])
<1>1. PICK A : Aside(c, A) /\ (GoesOn(c) \/ Leaves(c) \/ Comes(c, A))
  BY DEF StepFacts, GoesOn, Leaves, Comes
<1>2. /\ job'[u].op = job[u].op /\ job'[u].keys = job[u].keys /\ job'[u].i = job[u].i
      /\ job'[u].value = job[u].value /\ job'[u].hosts = job[u].hosts
      /\ job'[u].got = job[u].got /\ job'[u].n = job[u].n /\ job'[u].ok = job[u].ok
      /\ db'[u] = db[u]
  BY <1>1 DEF Aside
<1>3. /\ job'[u].calm /\ job'[u].op # "none" =>
           job[u].calm /\ job'[u].before = job[u].before /\ job'[u].clash = job[u].clash /\ A = {}
  BY <1>1 DEF Aside
<1>4. /\ SwitchedIn(db[u], job[u]) /\ AloneIn(u, db, job, last, torn)
      /\ DelIn(store, db[u], job[u], last) /\ ReadIn(job[u]) /\ KeysIn(u, job[u])
  BY ReturnsNow
<1>5. /\ KeyOf(job'[u]) = KeyOf(job[u]) /\ Rest(job'[u]) = Rest(job[u])
      /\ DoneBy(job'[u]) = DoneBy(job[u])
  BY <1>2 DEF KeyOf, Rest, DoneBy
<1>6. SwitchedIn(db'[u], job'[u])
  BY <1>2, <1>4, <1>5 DEF SwitchedIn
<1>7. Calm(job'[u]) => job'[u].op # "none"
  BY DEF Calm, Reads
<1>8. db[u] \in [Hosts -> Databases] /\ Typed(job[u])
  BY OneCaller
<1>9. 0 \in Hosts
  BY Redis2PAssumption DEF Hosts
<1>10. ASSUME Calm(job'[u])
       PROVE  /\ \A v \in Callers \ {u} : Area(db'[v], job'[v]) = {}
              /\ \A h \in Hosts, d \in Databases, k \in Keys : store'[h][d][k] = store[h][d][k]
              /\ \A d \in Databases, k \in Keys :
                   last'[d][k] = last[d][k] /\ torn'[d][k] = torn[d][k]
              /\ Calm(job[u]) /\ job'[u].before = job[u].before
              /\ job'[u].clash = job[u].clash
  <2>1. /\ job[u].calm /\ job'[u].before = job[u].before
        /\ job'[u].clash = job[u].clash /\ A = {}
    BY <1>3, <1>7, <1>10 DEF Calm
  <2>2. Calm(job[u])
    BY <1>2, <1>10, <2>1 DEF Calm
  <2>3. \A v \in Callers \ {u} : Area(db[v], job[v]) = {}
    BY <1>4, <2>2 DEF AloneIn
  <2>4. Area(db[c], job[c]) = {}
    BY <2>3
  <2>5. Area(db'[c], job'[c]) = {}
    BY <1>1, <2>1, <2>4 DEF GoesOn, Leaves, Comes
  <2>6. \A v \in Callers \ {u} : Area(db'[v], job'[v]) = {}
    BY <1>1, <2>3, <2>5, AsideArea
  <2>7. \A h \in Hosts, d \in Databases, k \in Keys : store'[h][d][k] = store[h][d][k]
    BY <2>4 DEF StepFacts, Touches
  <2>8. \A d \in Databases, k \in Keys :
          last'[d][k] = last[d][k] /\ torn'[d][k] = torn[d][k]
    BY <2>4 DEF StepFacts
  <2>9. QED
    BY <2>1, <2>2, <2>6, <2>7, <2>8
<1>11. AloneIn(u, db', job', last', torn')
  <2>1. SUFFICES ASSUME Calm(job'[u]) PROVE AloneIn(u, db', job', last', torn')
    BY DEF AloneIn
  <2>2. db[u][0] \in Databases
    BY <1>8, <1>9
  <2>3. /\ \A h \in Hosts : db[u][h] = db[u][0]
        /\ \A k \in Keys : ~torn[db[u][0]][k]
        /\ job[u].op # "del" => \A k \in Keys : last[db[u][0]][k] = job[u].before[k]
    BY <1>4, <1>10, <2>1 DEF AloneIn
  <2>4. \A k \in Keys : /\ last'[db[u][0]][k] = last[db[u][0]][k]
                        /\ torn'[db[u][0]][k] = torn[db[u][0]][k]
    BY <1>10, <2>1, <2>2
  <2>5. job'[u].before = job[u].before /\ \A v \in Callers \ {u} : Area(db'[v], job'[v]) = {}
    BY <1>10, <2>1
  <2>6. QED
    BY <1>2, <2>3, <2>4, <2>5 DEF AloneIn
<1>12. DelIn(store', db'[u], job'[u], last')
  <2>1. SUFFICES ASSUME job'[u].op = "del", job'[u].calm
                 PROVE  DelIn(store', db'[u], job'[u], last')
    BY DEF DelIn
  <2>2. Calm(job'[u])
    BY <2>1 DEF Calm
  <2>3. job[u].op = "del" /\ job[u].calm
    BY <1>2, <1>10, <2>1, <2>2 DEF Calm
  <2>4. KeyOf(job[u]) \in Keys /\ Rest(job[u]) \subseteq Hosts
    BY <1>8, <2>3, KeyIsKey, HostFacts DEF KeyedWrites
  <2>5. db[u][0] \in Databases
    BY <1>8, <1>9
  <2>6. \A k \in Keys : last'[db[u][0]][k] = last[db[u][0]][k]
    BY <1>10, <2>2, <2>5
  <2>7. \A h \in Rest(job[u]) :
          store'[h][db[u][0]][KeyOf(job[u])] = store[h][db[u][0]][KeyOf(job[u])]
    BY <1>10, <2>2, <2>4, <2>5
  <2>8. job'[u].before = job[u].before /\ job'[u].clash = job[u].clash
    BY <1>10, <2>2
  <2>9. /\ ~job[u].clash /\ job[u].value = Nil
        /\ \A k \in Keys :
             last[db[u][0]][k] = IF k \in DoneBy(job[u]) THEN Nil ELSE job[u].before[k]
        /\ \A h \in Rest(job[u]) :
             store[h][db[u][0]][KeyOf(job[u])] = last[db[u][0]][KeyOf(job[u])]
        /\ \A m, n \in 1..Len(job[u].hosts) : job[u].hosts[m] = job[u].hosts[n] => m = n
        /\ job[u].n = Cardinality({k \in DoneBy(job[u]) : job[u].before[k] # Nil})
    BY <1>4, <2>3 DEF DelIn
  <2>10. \A k \in Keys :
           last'[db'[u][0]][k] = IF k \in DoneBy(job'[u]) THEN Nil ELSE job'[u].before[k]
    BY <1>2, <1>5, <2>6, <2>8, <2>9
  <2>11. \A h \in Rest(job'[u]) :
           store'[h][db'[u][0]][KeyOf(job'[u])] = last'[db'[u][0]][KeyOf(job'[u])]
    BY <1>2, <1>5, <2>4, <2>6, <2>7, <2>9
  <2>12. job'[u].n = Cardinality({k \in DoneBy(job'[u]) : job'[u].before[k] # Nil})
    BY <1>2, <1>5, <2>8, <2>9
  <2>13. \A m, n \in 1..Len(job'[u].hosts) : job'[u].hosts[m] = job'[u].hosts[n] => m = n
    BY <1>2, <2>9
  <2>14. ~job'[u].clash /\ job'[u].value = Nil
    BY <1>2, <2>8, <2>9
  <2>15. QED
    BY <2>10, <2>11, <2>12, <2>13, <2>14 DEF DelIn
<1>13. ReadIn(job'[u])
  <2>1. job'[u].op \in Reads /\ job'[u].calm => Calm(job'[u])
    BY DEF Calm
  <2>2. QED
    BY <1>2, <1>4, <1>10, <2>1 DEF ReadIn, Calm
<1>14. KeysIn(u, job'[u])
  <2>1. job'[u].op = "keys" /\ job'[u].calm => Calm(job'[u])
    BY DEF Calm
  <2>2. QED
    BY <1>2, <1>4, <1>10, <2>1 DEF KeysIn, Calm
<1>15. QED
  BY <1>6, <1>11, <1>12, <1>13, <1>14

\* What a step of c has to show for c itself.
OwnFacts(c) ==
  /\ SwitchedIn(db'[c], job'[c])
  /\ AloneIn(c, db', job', last', torn')
  /\ DelIn(store', db'[c], job'[c], last')
  /\ ReadIn(job'[c])
  /\ KeysIn(c, job'[c])
  /\ right'

LEMMA ReturnKeeps ==
  ASSUME StoreInv, ReturnInv, NEW c \in Callers, StepFacts(c), OwnFacts(c)
  PROVE  ReturnInv'
<1>1. \A u \in Callers : /\ SwitchedIn(db'[u], job'[u])
                         /\ AloneIn(u, db', job', last', torn')
                         /\ DelIn(store', db'[u], job'[u], last')
                         /\ ReadIn(job'[u])
                         /\ KeysIn(u, job'[u])
  BY OthersReturn DEF OwnFacts
<1>2. QED
  BY <1>1, ReturnsNext DEF OwnFacts

\* A method that has ended, or that returns nothing but success.
LEMMA OtherOwn ==
  ASSUME NEW c, job'[c].op \notin Reads \cup {"keys", "del", "select"}, right'
  PROVE  OwnFacts(c)
  BY DEF OwnFacts, SwitchedIn, AloneIn, Calm, DelIn, ReadIn, KeysIn

LEMMA FinishOwn ==
  ASSUME TypeOK, NEW c \in Callers, Finish(c), right'
  PROVE  OwnFacts(c)
<1>1. job'[c] = NoJob
  BY DEF Finish, TypeOK
<1>2. job'[c].op \notin Reads \cup {"keys", "del", "select"}
  BY <1>1 DEF NoJob, Reads
<1>3. QED
  BY <1>2, OtherOwn

\* The facts about one caller.
LEMMA OneReturns ==
  ASSUME ReturnInv, NEW c \in Callers
  PROVE  /\ SwitchedIn(db[c], job[c]) /\ AloneIn(c, db, job, last, torn)
         /\ DelIn(store, db[c], job[c], last) /\ ReadIn(job[c]) /\ KeysIn(c, job[c]) /\ right
  BY ReturnsNow

\* What is stored where nobody is writing.
LEMMA StoredLast ==
  ASSUME StoreInv, NEW d \in Databases, NEW k \in Keys, NEW h \in Replicas(k), ~torn[d][k],
         \A u \in Callers : <<d, k>> \notin Area(db[u], job[u])
  PROVE  store[h][d][k] = last[d][k]
<1>1. ReplicatedIn(store, db, job, last, torn)
  BY PartsNow DEF StoreInv
<1>2. QED
  BY <1>1 DEF ReplicatedIn

-----------------------------------------------------------------------------
(***************************************************************************)
(* A method begins.                                                        *)
(***************************************************************************)

\* The databases of a calm object are one, and all copies in it agree.
LEMMA CalmFacts ==
  ASSUME StoreInv, NEW c \in Callers, IsCalm(c)
  PROVE  /\ \A u \in Callers : Area(db[u], job[u]) = {}
         /\ \A h \in Hosts : db[c][h] = db[c][0]
         /\ db[c][0] \in Databases
         /\ \A k \in Keys : ~torn[db[c][0]][k]
         /\ \A k \in Keys : \A h \in Replicas(k) :
              store[h][db[c][0]][k] = last[db[c][0]][k]
<1>1. 0 \in Hosts
  BY Redis2PAssumption DEF Hosts
<1>2. db[c] \in [Hosts -> Databases]
  BY OneCaller
<1>3. \A h \in Hosts : db[c][h] \in DbsAt(c, Hosts)
  BY DEF DbsAt
<1>4. \A u \in Callers : Area(db[u], job[u]) = {}
  BY AreaNow DEF IsCalm
<1>5. \A h \in Hosts : db[c][h] = db[c][0]
  BY <1>1, <1>3 DEF IsCalm
<1>6. \A k \in Keys : ~torn[db[c][0]][k]
  BY <1>1, <1>3 DEF IsCalm
<1>7. db[c][0] \in Databases
  BY <1>1, <1>2
<1>8. \A k \in Keys : \A h \in Replicas(k) : store[h][db[c][0]][k] = last[db[c][0]][k]
  BY <1>4, <1>6, <1>7, StoredLast
<1>9. QED
  BY <1>4, <1>5, <1>6, <1>7, <1>8

LEMMA BeginOwn ==
  ASSUME StoreInv, ReturnInv, NEW c \in Callers, Begins(c)
  PROVE  OwnFacts(c)
<1>1. PICK op, ks, v, hs : Fit(c, op, ks, v, hs) /\ Begin(c, op, ks, v, hs)
  BY BeginsFit DEF StoreInv
<1> DEFINE j == Start(c, op, ks, v, hs)
<1>2. /\ Enter(c, j) /\ store' = store /\ db' = db /\ last' = last /\ torn' = torn
      /\ right' = right
  BY <1>1 DEF Begin, Start
<1>3. Begun(j, c, op, ks, v, hs)
  BY <1>1, StartFacts
<1>4. Fresh(j)
  BY <1>1, StartFresh
<1> HIDE DEF j
<1>5. /\ j \in Jobs /\ j.op = op /\ j.keys = ks /\ j.value = v /\ j.hosts = hs
      /\ j.i = 1 /\ j.got = << >> /\ j.n = 0
      /\ j.calm => IsCalm(c) /\ j.before = last[db[c][0]]
  BY <1>3 DEF Begun
<1>6. /\ job'[c].op = op /\ job'[c].keys = ks /\ job'[c].i = 1
      /\ job'[c].value = v /\ job'[c].hosts = hs /\ job'[c].got = << >>
      /\ job'[c].n = 0
      /\ job'[c].before = j.before
      /\ Comes(c, Area(db[c], j))
  BY <1>2, <1>5, EnterStep DEF StoreInv
<1>7. /\ job'[c].calm = j.calm
      /\ job'[c].clash = \E u \in Callers \ {c} : Area(db[u], job[u]) \cap Area(db[c], j) # {}
  BY <1>2, <1>5, EnterStep DEF StoreInv
<1>8. /\ job'[c].calm => IsCalm(c) /\ job'[c].before = last[db[c][0]]
  BY <1>5, <1>6, <1>7
<1>9. right'
  BY <1>2, OneReturns
<1>10. SwitchedIn(db'[c], job'[c])
  <2>1. op = "select" => Hosts \ Rest(job'[c]) = {}
    BY <1>1, <1>6, AllRoute, SMTT(30) DEF Fit, Rest
  <2>2. QED
    BY <1>6, <2>1 DEF SwitchedIn
<1>11. AloneIn(c, db', job', last', torn')
  <2>1. SUFFICES ASSUME Calm(job'[c])
                 PROVE  /\ \A u \in Callers \ {c} : Area(db'[u], job'[u]) = {}
                        /\ \A h \in Hosts : db'[c][h] = db'[c][0]
                        /\ \A k \in Keys : ~torn'[db'[c][0]][k]
                        /\ job'[c].op # "del" =>
                             \A k \in Keys : last'[db'[c][0]][k] = job'[c].before[k]
    BY DEF AloneIn
  <2>2. IsCalm(c) /\ job'[c].before = last[db[c][0]]
    BY <1>8, <2>1 DEF Calm
  <2>3. \A u \in Callers \ {c} : Area(db'[u], job'[u]) = {}
    BY <1>6, <2>2, CalmFacts, AsideArea DEF Comes
  <2>4. QED
    BY <1>2, <2>2, <2>3, CalmFacts
<1>12. DelIn(store', db'[c], job'[c], last')
  <2>1. SUFFICES ASSUME op = "del", job'[c].calm
                 PROVE  DelIn(store', db'[c], job'[c], last')
    BY <1>6 DEF DelIn
  <2>2. IsCalm(c) /\ job'[c].before = last[db[c][0]]
    BY <1>8, <2>1
  <2>3. ~job'[c].clash
    BY <1>7, <2>2, CalmFacts
  <2>4. ks # << >> /\ ks \in Seq(Keys) /\ hs = HostsFor(c, "del", ks[1]) /\ v = Nil
    BY <1>1, <2>1 DEF Fit, KeyedWrites
  <2>5. ks[1] \in Keys /\ KeyOf(job'[c]) = ks[1]
    BY <1>6, <2>4 DEF KeyOf
  <2>6. Rest(job'[c]) \subseteq Replicas(ks[1])
    BY <1>6, <2>4, <2>5, KeyRoute DEF Rest, StoreInv
  <2>7. DoneBy(job'[c]) = {}
    BY <1>6 DEF DoneBy
  <2>8. {k \in DoneBy(job'[c]) : job'[c].before[k] # Nil} = {}
    BY <2>7
  <2>9. Cardinality({k \in DoneBy(job'[c]) : job'[c].before[k] # Nil}) = 0
    BY <2>8, FS_EmptySet
  <2>10. \A m, n \in 1..Len(hs) : hs[m] = hs[n] => m = n
    BY <2>4, <2>5, DistinctRoute DEF StoreInv
  <2>11. \A h \in Rest(job'[c]) :
           store'[h][db'[c][0]][KeyOf(job'[c])] = last'[db'[c][0]][KeyOf(job'[c])]
    BY <1>2, <2>2, <2>5, <2>6, CalmFacts
  <2>12. \A k \in Keys :
           last'[db'[c][0]][k] = IF k \in DoneBy(job'[c]) THEN Nil ELSE job'[c].before[k]
    BY <1>2, <2>2, <2>7
  <2>13. QED
    BY <1>6, <2>3, <2>4, <2>9, <2>10, <2>11, <2>12 DEF DelIn
<1>13. ReadIn(job'[c])
  BY <1>6 DEF ReadIn
<1>14. KeysIn(c, job'[c])
  <2>1. SUFFICES ASSUME op = "keys" PROVE KeysIn(c, job'[c])
    BY <1>6 DEF KeysIn
  <2>2. hs = get_group_client(c) /\ Len(hs) = host_num
    BY <1>1, <2>1, GroupRoute DEF Fit, StoreInv
  <2>3. /\ host_num \in Nat \ {0} /\ groups_ \in Nat \ {0}
        /\ thread_id[c] % groups_ \in 0..(groups_ - 1)
    BY Grouping, GroupRoute DEF StoreInv
  <2> DEFINE g == thread_id[c] % groups_
  <2>4. \A m \in 1..Len(hs) : hs[m] = g * host_num + m - 1
    BY <2>2 DEF get_group_client
  <2> HIDE DEF g
  <2>5. g * host_num \in Nat
    BY <2>3 DEF g
  <2>6. \A m \in 1..Len(hs) : hs[m] = g * host_num + (host_num - Len(hs)) + m - 1
    BY <2>2, <2>3, <2>4, <2>5
  <2>7. Listed(host_num - Len(hs), job'[c].before) = {}
    <3>1. \A k \in Keys : ~(get_key_host_index(k) < 0)
      BY <2>3, PlaceInGroup DEF StoreInv
    <3>2. host_num - Len(hs) = 0
      BY <2>2, <2>3
    <3>3. QED
      BY <3>1, <3>2 DEF Listed
  <2>8. Lists(<< >>, {})
    BY FS_EmptySet DEF Lists
  <2>9. \A m \in 1..Len(hs) :
          hs[m] = (thread_id[c] % groups_) * host_num + (host_num - Len(hs)) + m - 1
    BY <2>6 DEF g
  <2>10. Len(hs) <= host_num
    BY <2>2, <2>3
  <2>11. job'[c].hosts = hs /\ job'[c].got = << >>
    BY <1>6
  <2>12. Lists(job'[c].got, Listed(host_num - Len(hs), job'[c].before))
    BY <2>7, <2>8, <2>11
  <2>13. QED
    BY <2>9, <2>10, <2>11, <2>12, Zenon DEF KeysIn
<1>15. QED
  BY <1>9, <1>10, <1>11, <1>12, <1>13, <1>14 DEF OwnFacts

-----------------------------------------------------------------------------
(***************************************************************************)
(* read, mget and select return.                                           *)
(***************************************************************************)

\* Whichever copy a calm reader asks, it sees what was there when it began.
LEMMA CalmHeld ==
  ASSUME StoreInv, ReturnInv, NEW c \in Callers, Calm(job[c]), job[c].op # "del"
  PROVE  /\ \A k \in Keys : \A h \in Replicas(k) : store[h][db[c][0]][k] = job[c].before[k]
         /\ db[c][Host(c)] = db[c][0] /\ db[c][0] \in Databases /\ Host(c) \in Hosts
         /\ \A k \in Keys : Host(c) \in Replicas(k) => Held(c)[k] = job[c].before[k]
<1>1. AloneIn(c, db, job, last, torn)
  BY OneReturns
<1>2. Typed(job[c]) /\ db[c] \in [Hosts -> Databases]
  BY OneCaller
<1>3. 0 \in Hosts
  BY Redis2PAssumption DEF Hosts
<1>4. job[c].op \notin KeyedWrites \cup Flushes /\ job[c].op # "none"
  BY DEF Calm, Reads, KeyedWrites, Flushes
<1>5. Area(db[c], job[c]) = {}
  BY <1>4, AreaKinds
<1>6. \A u \in Callers : Area(db[u], job[u]) = {}
  BY <1>1, <1>5 DEF AloneIn
<1>7. \A k \in Keys : ~torn[db[c][0]][k] /\ last[db[c][0]][k] = job[c].before[k]
  BY <1>1 DEF AloneIn
<1>8. db[c][0] \in Databases
  BY <1>2, <1>3
<1>9. \A k \in Keys : \A h \in Replicas(k) : store[h][db[c][0]][k] = job[c].before[k]
  BY <1>6, <1>7, <1>8, StoredLast
<1>10. Host(c) \in Hosts
  BY <1>2, <1>4, HostFacts
<1>11. db[c][Host(c)] = db[c][0]
  BY <1>1, <1>10 DEF AloneIn
<1>12. QED
  BY <1>8, <1>9, <1>10, <1>11 DEF Held

\* The answers so far and one more.
LEMMA OneMore ==
  ASSUME NEW S, NEW got \in Seq(S), NEW n \in Nat, NEW x \in S, NEW want, Len(got) = n,
         \A m \in 1..n : got[m] = want[m], x = want[n + 1]
  PROVE  /\ Len(Append(got, x)) = n + 1
         /\ \A m \in 1..(n + 1) : Append(got, x)[m] = want[m]
<1>1. Len(Append(got, x)) = n + 1 /\ Append(got, x)[n + 1] = x
  OBVIOUS
<1>2. \A m \in 1..n : Append(got, x)[m] = got[m]
  OBVIOUS
<1>3. \A m \in 1..(n + 1) : m \in 1..n \/ m = n + 1
  OBVIOUS
<1>4. QED
  BY <1>1, <1>2, <1>3

LEMMA ReadAnswers ==
  ASSUME StoreInv, ReturnInv, NEW c \in Callers, job[c].op \in Reads, job[c].calm
  PROVE  LET got == Append(job[c].got, Held(c)[KeyOf(job[c])])
         IN  /\ Len(got) = job[c].i
             /\ \A m \in 1..job[c].i : got[m] = job[c].before[job[c].keys[m]]
<1> DEFINE want == [m \in 1..job[c].i |-> job[c].before[job[c].keys[m]]]
           x == Held(c)[KeyOf(job[c])]
           n == job[c].i - 1
<1>1. job[c].op # "none" /\ job[c].op # "del" /\ job[c].op \in KeyedWrites \cup Reads
  BY DEF Reads, KeyedWrites
<1>2. Typed(job[c]) /\ RoutedJob(job[c])
  BY OneCaller
<1>3. Calm(job[c])
  BY DEF Calm
<1>4. /\ job[c].got \in Seq(Contents \cup Keys) /\ job[c].i \in Nat \ {0}
  BY <1>1, <1>2 DEF Typed, Jobs
<1>5. Host(c) \in Replicas(KeyOf(job[c])) /\ KeyOf(job[c]) \in Keys
  BY <1>1, <1>2, HostFacts, KeyIsKey DEF RoutedJob
<1>6. x = job[c].before[KeyOf(job[c])]
  BY <1>1, <1>3, <1>5, CalmHeld
<1>7. x = want[n + 1]
  BY <1>4, <1>6 DEF KeyOf
<1>8. x \in Contents \cup Keys
  BY <1>1, <1>5, HeldType
<1>9. Len(job[c].got) = n /\ \A m \in 1..n : job[c].got[m] = want[m]
  <2>1. ReadIn(job[c])
    BY OneReturns
  <2>2. Len(job[c].got) = n /\ \A m \in 1..n : job[c].got[m] = job[c].before[job[c].keys[m]]
    BY <2>1 DEF ReadIn
  <2>3. \A m \in 1..n : m \in 1..job[c].i
    BY <1>4
  <2>4. QED
    BY <2>2, <2>3
<1>10. n \in Nat /\ n + 1 = job[c].i
  BY <1>4
<1> HIDE DEF want, x, n
<1>11. /\ Len(Append(job[c].got, x)) = n + 1
       /\ \A m \in 1..(n + 1) : Append(job[c].got, x)[m] = want[m]
  BY <1>4, <1>7, <1>8, <1>9, <1>10, OneMore
<1>12. QED
  BY <1>10, <1>11 DEF want, x

LEMMA ReadHostOwn ==
  ASSUME StoreInv, ReturnInv, NEW c \in Callers, read_host(c)
  PROVE  OwnFacts(c)
<1> DEFINE got == Append(job[c].got, Held(c)[KeyOf(job[c])])
<1>1. job[c].op \in Reads /\ store' = store /\ db' = db /\ last' = last /\ torn' = torn
  BY DEF read_host
<1>2. /\ job[c].op # "none" /\ job[c].op # "del" /\ job[c].op # "keys" /\ job[c].op # "select"
      /\ job[c].op \in KeyedWrites \cup Reads
  BY <1>1 DEF Reads, KeyedWrites
<1>3. Typed(job[c]) /\ job[c] \in Jobs
  BY OneCaller DEF Typed
<1>4. got \in Seq(Contents \cup Keys)
  <2>1. KeyOf(job[c]) \in Keys /\ Held(c) \in [Keys -> Contents]
    BY <1>2, <1>3, KeyIsKey, HeldType
  <2>2. job[c].got \in Seq(Contents \cup Keys) /\ Held(c)[KeyOf(job[c])] \in Contents \cup Keys
    BY <1>3, <2>1 DEF Jobs
  <2>3. QED
    BY <2>2
<1>5. job[c].calm => /\ Len(got) = job[c].i
                     /\ \A m \in 1..job[c].i : got[m] = job[c].before[job[c].keys[m]]
  BY <1>1, ReadAnswers
<1>6. CASE ~LastKey(c) /\ Enter(c, NextKey(c, [job[c] EXCEPT !.got = got])) /\ right' = right
  <2> DEFINE j == [job[c] EXCEPT !.got = got]
             l == NextKey(c, j)
  <2> HIDE DEF got
  <2>1. /\ j \in Jobs /\ j.op = job[c].op /\ j.keys = job[c].keys /\ j.i = job[c].i
        /\ j.value = job[c].value /\ j.got = got /\ j.before = job[c].before
    BY <1>3, <1>4 DEF Jobs
  <2>2. j.calm = job[c].calm
    BY <1>3 DEF Jobs
  <2>3. Enter(c, l)
    BY <1>6
  <2> HIDE DEF j
  <2>4. /\ l \in Jobs /\ l.op = j.op /\ l.keys = j.keys /\ l.i = j.i + 1
        /\ l.got = j.got /\ l.calm = j.calm /\ l.before = j.before
    BY <1>2, <1>6, <2>1, NextKeyFacts
  <2> HIDE DEF l
  <2>5. /\ job'[c].op = job[c].op /\ job'[c].keys = job[c].keys /\ job'[c].i = job[c].i + 1
        /\ job'[c].got = got /\ job'[c].before = job[c].before
        /\ Comes(c, Area(db[c], l))
    BY <1>1, <2>1, <2>3, <2>4, EnterStep DEF StoreInv
  <2>6. job'[c].calm = job[c].calm
    BY <1>1, <2>2, <2>3, <2>4, EnterStep DEF StoreInv
  <2>7. right'
    BY <1>6, OneReturns
  <2>8. AloneIn(c, db', job', last', torn')
    <3>1. SUFFICES ASSUME Calm(job'[c])
                   PROVE  /\ \A u \in Callers \ {c} : Area(db'[u], job'[u]) = {}
                          /\ \A h \in Hosts : db'[c][h] = db'[c][0]
                          /\ \A k \in Keys : ~torn'[db'[c][0]][k]
                          /\ job'[c].op # "del" =>
                               \A k \in Keys : last'[db'[c][0]][k] = job'[c].before[k]
      BY DEF AloneIn
    <3>2. AloneIn(c, db, job, last, torn) /\ Calm(job[c])
      BY <2>5, <2>6, <3>1, OneReturns DEF Calm
    <3>3. \A u \in Callers \ {c} : Area(db'[u], job'[u]) = {}
      BY <2>5, <3>2, AsideArea DEF Comes, AloneIn
    <3>4. QED
      BY <1>1, <2>5, <3>2, <3>3 DEF AloneIn
  <2>9. ReadIn(job'[c])
    <3>1. job[c].i \in Nat
      BY <1>3 DEF Jobs
    <3>2. job'[c].i - 1 = job[c].i
      BY <2>5, <3>1
    <3>3. QED
      BY <1>5, <2>5, <2>6, <3>2 DEF ReadIn
  <2>10. QED
    BY <1>2, <2>5, <2>7, <2>8, <2>9 DEF OwnFacts, SwitchedIn, DelIn, KeysIn
<1>7. CASE LastKey(c) /\ Finish(c)
           /\ right' = (job[c].calm => got = [m \in 1..Len(job[c].keys) |-> job[c].before[job[c].keys[m]]])
  <2>1. ASSUME job[c].calm
        PROVE  got = [m \in 1..Len(job[c].keys) |-> job[c].before[job[c].keys[m]]]
    <3>1. job[c].i = Len(job[c].keys)
      BY <1>7 DEF LastKey
    <3> HIDE DEF got
    <3>2. /\ Len(got) = Len(job[c].keys)
          /\ \A m \in 1..Len(got) : got[m] = job[c].before[job[c].keys[m]]
      BY <1>5, <2>1, <3>1
    <3>3. got = [m \in 1..Len(got) |-> got[m]]
      BY <1>4
    <3>4. QED
      BY <3>2, <3>3
  <2>2. right'
    BY <1>7, <2>1
  <2>3. QED
    BY <1>7, <2>2, FinishOwn DEF StoreInv
<1>8. QED
  BY <1>6, <1>7 DEF read_host

\* Asking the next group changes nothing that the answer depends on.
LEMMA ReadFailsOwn ==
  ASSUME StoreInv, ReturnInv, NEW c \in Callers, read_fails(c)
  PROVE  OwnFacts(c)
<1>1. /\ job[c].op \in Reads /\ store' = store /\ db' = db /\ last' = last /\ torn' = torn
      /\ right' = right
  BY DEF read_fails
<1>2. right'
  BY <1>1, OneReturns
<1>3. CASE LastHost(c) /\ Finish(c)
  BY <1>2, <1>3, FinishOwn DEF StoreInv
<1>4. CASE ~LastHost(c) /\ job' = [job EXCEPT ![c].hosts = Tail(@)]
  <2>1. job \in [Callers -> Jobs]
    BY DEF StoreInv, TypeOK
  <2>2. /\ job'[c].op = job[c].op /\ job'[c].keys = job[c].keys /\ job'[c].i = job[c].i
        /\ job'[c].got = job[c].got /\ job'[c].before = job[c].before
        /\ \A u \in Callers \ {c} : job'[u] = job[u]
    BY <1>4, <2>1 DEF Jobs
  <2>3. job'[c].calm = job[c].calm
    BY <1>4, <2>1 DEF Jobs
  <2>4. AloneIn(c, db', job', last', torn')
    <3>1. AloneIn(c, db, job, last, torn)
      BY OneReturns
    <3>2. Calm(job'[c]) = Calm(job[c])
      BY <2>2, <2>3 DEF Calm
    <3>3. QED
      BY <1>1, <2>2, <3>1, <3>2 DEF AloneIn
  <2>5. ReadIn(job'[c])
    <3>1. ReadIn(job[c])
      BY OneReturns
    <3>2. QED
      BY <2>2, <2>3, <3>1 DEF ReadIn
  <2>6. job'[c].op # "select" /\ job'[c].op # "del" /\ job'[c].op # "keys"
    BY <1>1, <2>2 DEF Reads
  <2>7. QED
    BY <1>2, <2>4, <2>5, <2>6 DEF OwnFacts, SwitchedIn, DelIn, KeysIn
<1>5. QED
  BY <1>3, <1>4 DEF read_fails

LEMMA SelectHostOwn ==
  ASSUME StoreInv, ReturnInv, NEW c \in Callers, select_host(c)
  PROVE  OwnFacts(c)
<1>1. PICK done \in BOOLEAN :
        /\ job[c].op = "select"
        /\ db' = IF done THEN [db EXCEPT ![c][Host(c)] = job[c].value] ELSE db
        /\ IF LastHost(c)
             THEN /\ right' = (ReturnValue(c, done) => \A h \in Hosts : db'[c][h] = job[c].value)
                  /\ Finish(c)
             ELSE /\ job' = [job EXCEPT ![c].hosts = Tail(@), ![c].ok = ReturnValue(c, done)]
                  /\ right' = right
  BY DEF select_host
<1>2. job[c].op # "none"
  BY <1>1
<1>3. /\ db \in [Callers -> [Hosts -> Databases]] /\ job \in [Callers -> Jobs]
      /\ Typed(job[c]) /\ job[c] \in Jobs
  BY OneCaller DEF StoreInv, TypeOK
<1>4. Host(c) \in Hosts /\ (LastHost(c) => Rest(job[c]) = {Host(c)})
  BY <1>2, <1>3, HostFacts
<1>5. SwitchedIn(db[c], job[c]) /\ right
  BY OneReturns
<1>6. ASSUME job[c].ok, done, NEW h \in Hosts, h = Host(c) \/ h \notin Rest(job[c])
      PROVE  db'[c][h] = job[c].value
  <2>1. db' = [db EXCEPT ![c][Host(c)] = job[c].value]
    BY <1>1, <1>6
  <2>2. db'[c][h] = IF h = Host(c) THEN job[c].value ELSE db[c][h]
    BY <1>3, <1>4, <2>1
  <2>3. h \notin Rest(job[c]) => db[c][h] = job[c].value
    BY <1>1, <1>5, <1>6 DEF SwitchedIn
  <2>4. QED
    BY <1>6, <2>2, <2>3
<1>7. CASE LastHost(c)
  <2>1. ASSUME ReturnValue(c, done) PROVE \A h \in Hosts : db'[c][h] = job[c].value
    <3>1. job[c].ok /\ done
      BY <2>1 DEF ReturnValue
    <3>2. QED
      BY <1>4, <1>6, <1>7, <3>1
  <2>2. right'
    BY <1>1, <1>7, <2>1
  <2>3. Finish(c)
    BY <1>1, <1>7
  <2>4. QED
    BY <2>2, <2>3, FinishOwn DEF StoreInv
<1>8. CASE ~LastHost(c)
  <2> DEFINE r == ReturnValue(c, done)
             l == [job[c] EXCEPT !.hosts = Tail(job[c].hosts), !.ok = r]
  <2>1. Tail(job[c].hosts) \in Seq(Hosts) /\ r \in BOOLEAN
    BY <1>2, <1>3 DEF Typed, Jobs, ReturnValue
  <2>2. job' = [job EXCEPT ![c] = l]
    BY <1>1, <1>3, <1>8
  <2> HIDE DEF r
  <2>3. /\ l \in Jobs /\ l.op = job[c].op /\ l.keys = job[c].keys /\ l.i = job[c].i
        /\ l.value = job[c].value /\ l.hosts = Tail(job[c].hosts)
    BY <1>3, <2>1 DEF Jobs
  <2>4. l.clash = job[c].clash /\ l.ok = r
    BY <1>3 DEF Jobs
  <2> HIDE DEF l
  <2>5. \A u \in Callers \ {c} : db'[u] = db[u]
    BY <1>1, <1>3
  <2>6. RoutedJob(job[c])
    BY OneCaller
  <2>7. job'[c] = l /\ \A h \in Rest(job[c]) : h = Host(c) \/ h \in Rest(l)
    BY <1>1, <1>2, <1>8, <2>2, <2>3, <2>4, <2>5, <2>6, AdvanceStep DEF StoreInv
  <2>8. SwitchedIn(db'[c], l)
    <3>1. SUFFICES ASSUME l.ok, NEW h \in Hosts \ Rest(l) PROVE db'[c][h] = l.value
      BY DEF SwitchedIn
    <3>2. job[c].ok /\ done
      BY <2>4, <3>1 DEF r, ReturnValue
    <3>3. h = Host(c) \/ h \notin Rest(job[c])
      BY <2>7, <3>1
    <3>4. QED
      BY <1>6, <2>3, <3>2, <3>3
  <2>9. right'
    BY <1>1, <1>5, <1>8
  <2>10. l.op = "select" /\ l.op \notin Reads
    BY <1>1, <2>3 DEF Reads
  <2>11. QED
    BY <2>7, <2>8, <2>9, <2>10 DEF OwnFacts, AloneIn, Calm, DelIn, ReadIn, KeysIn
<1>9. QED
  BY <1>7, <1>8

-----------------------------------------------------------------------------
(***************************************************************************)
(* keys returns.                                                           *)
(***************************************************************************)

\* The host in place n of group g has the copies of the keys of place n.
LEMMA OwnKeys ==
  ASSUME inner_init, NEW n \in 0..(host_num - 1), NEW g \in 0..(groups_ - 1), NEW k \in Keys
  PROVE  n + host_num * g \in Replicas(k) <=> get_key_host_index(k) = n
<1>1. host_num \in Nat \ {0} /\ groups_ \in Nat \ {0}
  BY Grouping
<1>2. get_key_host_index(k) \in 0..(host_num - 1)
  BY PlaceInGroup
<1>3. ASSUME get_key_host_index(k) = n PROVE n + host_num * g \in Replicas(k)
  BY <1>3 DEF Replicas, Index
<1>4. ASSUME n + host_num * g \in Replicas(k) PROVE get_key_host_index(k) = n
  <2>1. PICK e \in 0..(groups_ - 1) : n + host_num * g = get_key_host_index(k) + host_num * e
    BY <1>4 DEF Replicas, Index
  <2>2. e \in Nat /\ g \in Nat
    BY <1>1
  <2>3. QED
    BY <1>1, <1>2, <2>1, <2>2, Decomposition
<1>5. QED
  BY <1>3, <1>4

\* The next host has the keys that belong to the next place, no others.
LEMMA KeysAnswers ==
  ASSUME StoreInv, ReturnInv, NEW c \in Callers, job[c].op = "keys", job[c].calm
  PROVE  LET n == host_num - Len(job[c].hosts)
             stored == {k \in Keys : Held(c)[k] # Nil}
         IN  /\ n \in 0..(host_num - 1)
             /\ Listed(n + 1, job[c].before) = Listed(n, job[c].before) \cup stored
             /\ Listed(n, job[c].before) \cap stored = {}
<1> DEFINE n == host_num - Len(job[c].hosts)
           stored == {k \in Keys : Held(c)[k] # Nil}
           g == thread_id[c] % groups_
           b == job[c].before
<1>1. /\ host_num \in Nat \ {0} /\ groups_ \in Nat \ {0} /\ g \in 0..(groups_ - 1)
      /\ inner_init
  BY Grouping, GroupRoute DEF StoreInv
<1>2. Typed(job[c]) /\ job[c].op # "none" /\ job[c].op # "del" /\ Calm(job[c])
  BY OneCaller DEF Calm
<1>3. KeysIn(c, job[c])
  BY OneReturns
<1>4. Len(job[c].hosts) \in Nat \ {0} /\ Len(job[c].hosts) <= host_num
  BY <1>2, <1>3, HostFacts DEF KeysIn
<1>5. n \in 0..(host_num - 1)
  BY <1>1, <1>4
<1>6. job[c].hosts[1] = g * host_num + n + 1 - 1
  <2>1. 1 \in 1..Len(job[c].hosts)
    BY <1>4
  <2>2. QED
    BY <1>3, <2>1 DEF KeysIn
<1>7. Host(c) = job[c].hosts[1]
  BY <1>2 DEF Host, Typed, Jobs
<1> HIDE DEF n, g, b
<1>8. Host(c) = n + host_num * g
  <2>1. g * host_num \in Nat /\ g * host_num = host_num * g
    BY <1>1
  <2>2. QED
    BY <1>1, <1>5, <1>6, <1>7, <2>1
<1>9. \A k \in Keys : Host(c) \in Replicas(k) <=> get_key_host_index(k) = n
  <2>1. ASSUME NEW k \in Keys
        PROVE  n + host_num * g \in Replicas(k) <=> get_key_host_index(k) = n
    BY <1>1, <1>5, OwnKeys
  <2>2. QED
    BY <1>8, <2>1
<1>10. /\ \A k \in Keys : Host(c) \in Replicas(k) => Held(c)[k] = b[k]
       /\ Host(c) \in Hosts /\ db[c][Host(c)] \in Databases
  BY <1>2, CalmHeld DEF b
<1>11. \A k \in Keys : Held(c)[k] # Nil => Host(c) \in Replicas(k)
  BY <1>10 DEF Held, StoreInv, Placement
<1>12. \A k \in Keys : k \in stored <=> b[k] # Nil /\ get_key_host_index(k) = n
  BY <1>9, <1>10, <1>11
<1>13. \A k \in Keys : get_key_host_index(k) \in Nat
  BY <1>1, PlaceInGroup
<1>14. Listed(n + 1, b) = Listed(n, b) \cup stored
  <2>1. \A k \in Keys : get_key_host_index(k) < n + 1 <=>
                          get_key_host_index(k) < n \/ get_key_host_index(k) = n
    BY <1>5, <1>13
  <2>2. stored \subseteq Keys
    OBVIOUS
  <2> HIDE DEF stored
  <2>3. QED
    BY <1>12, <2>1, <2>2 DEF Listed
<1>15. Listed(n, b) \cap stored = {}
  <2>1. \A k \in Keys : get_key_host_index(k) < n => get_key_host_index(k) # n
    BY <1>5, <1>13
  <2>2. QED
    BY <1>12, <2>1 DEF Listed
<1>16. QED
  BY <1>5, <1>14, <1>15 DEF n, b

\* The keys so far and those of one host more.
LEMMA ListsMore ==
  ASSUME NEW S, NEW got \in Seq(S), NEW ks \in SUBSET Keys, NEW new \in SUBSET Keys,
         new \subseteq S, ks \cap new = {}, Lists(got, ks),
         NEW names \in [1..Cardinality(new) -> new],
         \A k \in new : \E i \in DOMAIN names : names[i] = k
  PROVE  Lists(got \o names, ks \cup new)
<1>1. IsFiniteSet(ks) /\ IsFiniteSet(new)
  BY Redis2PAssumption, FS_Subset
<1>2. Cardinality(ks) \in Nat /\ Cardinality(new) \in Nat
  BY <1>1, FS_CardinalityType
<1>3. Cardinality(ks \cup new) = Cardinality(ks) + Cardinality(new)
  <2>1. Cardinality(ks \cup new) = Cardinality(ks) + Cardinality(new) - Cardinality(ks \cap new)
    BY <1>1, FS_Union
  <2>2. Cardinality(ks \cap new) = 0
    BY FS_EmptySet
  <2>3. QED
    BY <1>2, <2>1, <2>2
<1>4. names \in Seq(S) /\ Len(names) = Cardinality(new)
  BY <1>2
<1>5. Len(got) = Cardinality(ks) /\ \A k \in ks : \E m \in 1..Len(got) : got[m] = k
  BY DEF Lists
<1>6. /\ Len(got \o names) = Len(got) + Len(names)
      /\ \A m \in 1..Len(got) : (got \o names)[m] = got[m]
      /\ \A m \in 1..Len(names) : (got \o names)[Len(got) + m] = names[m]
  <2>1. Len(got \o names) = Len(got) + Len(names)
    BY <1>4
  <2>2. \A m \in 1..Len(got) : (got \o names)[m] = got[m]
    BY <1>4
  <2>3. \A m \in 1..Len(names) : (got \o names)[Len(got) + m] = names[m]
    BY <1>4
  <2>4. QED
    BY <2>1, <2>2, <2>3
<1>7. \A k \in ks : \E m \in 1..Len(got \o names) : (got \o names)[m] = k
  BY <1>2, <1>4, <1>5, <1>6
<1>8. ASSUME NEW k \in new PROVE \E m \in 1..Len(got \o names) : (got \o names)[m] = k
  <2>1. PICK i \in 1..Len(names) : names[i] = k
    BY <1>2, <1>4
  <2>2. Len(got) + i \in 1..Len(got \o names) /\ (got \o names)[Len(got) + i] = k
    BY <1>2, <1>4, <1>5, <1>6, <2>1
  <2>3. QED
    BY <2>2
<1>9. Len(got \o names) = Cardinality(ks \cup new)
  BY <1>3, <1>4, <1>5, <1>6
<1>10. QED
  BY <1>7, <1>8, <1>9 DEF Lists

LEMMA KeysHostOwn ==
  ASSUME StoreInv, ReturnInv, NEW c \in Callers, keys_host(c)
  PROVE  OwnFacts(c)
<1> DEFINE stored == {k \in Keys : Held(c)[k] # Nil}
           n == host_num - Len(job[c].hosts)
           b == job[c].before
<1>1. job[c].op = "keys" /\ store' = store /\ db' = db /\ last' = last /\ torn' = torn
  BY DEF keys_host
<1>2. /\ job \in [Callers -> Jobs] /\ Typed(job[c]) /\ job[c] \in Jobs
      /\ job[c].op # "none"
  BY <1>1, OneCaller DEF StoreInv, TypeOK
<1>3. PICK names \in [1..Cardinality(stored) -> stored] :
        /\ \A k \in stored : \E i \in DOMAIN names : names[i] = k
        /\ IF LastHost(c)
             THEN /\ right' = (job[c].calm =>
                       /\ Len(job[c].got \o names) = Cardinality({k \in Keys : b[k] # Nil})
                       /\ \A k \in Keys : b[k] # Nil =>
                            \E i \in 1..Len(job[c].got \o names) : (job[c].got \o names)[i] = k)
                  /\ Finish(c)
             ELSE /\ job' = [job EXCEPT ![c].hosts = Tail(@), ![c].got = job[c].got \o names]
                  /\ right' = right
  BY DEF keys_host
<1> DEFINE got == job[c].got \o names
<1>4. KeysIn(c, job[c]) /\ AloneIn(c, db, job, last, torn) /\ right
  BY OneReturns
<1>5. host_num \in Nat \ {0}
  BY Grouping DEF StoreInv
<1>6. /\ Len(job[c].hosts) \in Nat \ {0} /\ Len(job[c].hosts) <= host_num
      /\ job[c].hosts \in Seq(Hosts) /\ job[c].hosts # << >>
  BY <1>1, <1>2, <1>4, HostFacts DEF KeysIn, Typed, Jobs
<1>7. job[c].got \in Seq(Contents \cup Keys)
  BY <1>2 DEF Jobs
<1>8. job[c].calm => Lists(got, Listed(n + 1, b))
  <2>1. SUFFICES ASSUME job[c].calm PROVE Lists(got, Listed(n + 1, b))
    OBVIOUS
  <2>2. /\ Listed(n + 1, b) = Listed(n, b) \cup stored
        /\ Listed(n, b) \cap stored = {}
    BY <1>1, <2>1, KeysAnswers
  <2>3. Lists(job[c].got, Listed(n, b))
    BY <1>1, <1>4, <2>1 DEF KeysIn
  <2>4. Listed(n, b) \in SUBSET Keys /\ stored \in SUBSET Keys /\ stored \subseteq Contents \cup Keys
    BY DEF Listed
  <2> HIDE DEF stored, n, b
  <2>5. Lists(got, Listed(n, b) \cup stored)
    BY <1>3, <1>7, <2>2, <2>3, <2>4, ListsMore
  <2>6. QED
    BY <2>2, <2>5
<1>9. CASE LastHost(c)
  <2>1. n + 1 = host_num
    BY <1>5, <1>6, <1>9 DEF LastHost
  <2>2. Listed(host_num, b) = {k \in Keys : b[k] # Nil}
    <3>1. \A k \in Keys : get_key_host_index(k) < host_num
      BY <1>5, PlaceInGroup DEF StoreInv
    <3>2. QED
      BY <3>1 DEF Listed
  <2>3. job[c].calm => Lists(got, {k \in Keys : b[k] # Nil})
    <3> HIDE DEF n, b, got
    <3>1. QED
      BY <1>8, <2>1, <2>2
  <2>4. job[c].calm =>
          /\ Len(got) = Cardinality({k \in Keys : b[k] # Nil})
          /\ \A k \in Keys : b[k] # Nil => \E i \in 1..Len(got) : got[i] = k
    BY <2>3 DEF Lists
  <2>5. right'
    BY <1>3, <1>9, <2>4
  <2>6. Finish(c)
    BY <1>3, <1>9
  <2>7. QED
    BY <2>5, <2>6, FinishOwn DEF StoreInv
<1>10. CASE ~LastHost(c)
  <2>1. job' = [job EXCEPT ![c].hosts = Tail(@), ![c].got = got] /\ right' = right
    BY <1>3, <1>10
  <2> HIDE DEF got
  <2>2. /\ job'[c].op = "keys" /\ job'[c].before = b /\ job'[c].got = got
        /\ job'[c].hosts = Tail(job[c].hosts)
        /\ \A u \in Callers \ {c} : job'[u] = job[u]
    BY <1>1, <1>2, <2>1 DEF Jobs
  <2>3. job'[c].calm = job[c].calm
    BY <1>2, <2>1 DEF Jobs
  <2>4. /\ Len(job'[c].hosts) = Len(job[c].hosts) - 1
        /\ \A m \in 1..Len(job'[c].hosts) : job'[c].hosts[m] = job[c].hosts[m + 1]
    <3>1. Len(Tail(job[c].hosts)) = Len(job[c].hosts) - 1
      BY <1>6
    <3>2. \A m \in 1..Len(Tail(job[c].hosts)) : Tail(job[c].hosts)[m] = job[c].hosts[m + 1]
      BY <1>6, <3>1
    <3>3. QED
      BY <2>2, <3>1, <3>2
  <2>5. host_num - Len(job'[c].hosts) = n + 1 /\ Len(job'[c].hosts) <= host_num
    BY <1>5, <1>6, <2>4
  <2>6. ASSUME NEW m \in 1..Len(job'[c].hosts)
        PROVE  job'[c].hosts[m] =
                 (thread_id[c] % groups_) * host_num + (host_num - Len(job'[c].hosts)) + m - 1
    <3> DEFINE p == (thread_id[c] % groups_) * host_num
    <3>1. p \in Nat
      <4>1. thread_id[c] % groups_ \in Nat
        BY GroupRoute, Grouping DEF StoreInv
      <4>2. QED
        BY <1>5, <4>1
    <3>2. m + 1 \in 1..Len(job[c].hosts)
      BY <1>6, <2>4
    <3>3. job[c].hosts[m + 1] = p + (host_num - Len(job[c].hosts)) + (m + 1) - 1
      BY <1>1, <1>4, <3>2 DEF KeysIn
    <3> HIDE DEF p
    <3>4. p + (host_num - Len(job[c].hosts)) + (m + 1) - 1 =
            p + (host_num - Len(job'[c].hosts)) + m - 1
      BY <1>5, <1>6, <2>4, <3>1
    <3>5. job'[c].hosts[m] = p + (host_num - Len(job'[c].hosts)) + m - 1
      BY <2>4, <3>3, <3>4
    <3>6. QED
      BY <3>5 DEF p
  <2>7. job'[c].calm => Lists(job'[c].got, Listed(host_num - Len(job'[c].hosts), job'[c].before))
    <3> HIDE DEF n, b
    <3>1. QED
      BY <1>8, <2>2, <2>3, <2>5
  <2>8. KeysIn(c, job'[c])
    BY <2>5, <2>6, <2>7 DEF KeysIn
  <2>9. AloneIn(c, db', job', last', torn')
    <3>1. Calm(job'[c]) = Calm(job[c])
      BY <1>1, <2>2, <2>3 DEF Calm
    <3>2. QED
      BY <1>1, <1>4, <2>2, <3>1 DEF AloneIn
  <2>10. right'
    BY <1>4, <2>1
  <2>11. job'[c].op # "select" /\ job'[c].op # "del" /\ job'[c].op \notin Reads
    BY <2>2 DEF Reads
  <2>12. QED
    BY <2>8, <2>9, <2>10, <2>11 DEF OwnFacts, SwitchedIn, DelIn, ReadIn
<1>11. QED
  BY <1>9, <1>10

-----------------------------------------------------------------------------
(***************************************************************************)
(* del returns.                                                            *)
(***************************************************************************)

\* A calm del writes its key in one database and is alone.
LEMMA DelAlone ==
  ASSUME StoreInv, ReturnInv, NEW c \in Callers, job[c].op = "del", job[c].calm
  PROVE  /\ Area(db[c], job[c]) = {<<db[c][0], KeyOf(job[c])>>}
         /\ ~Split(Area(db[c], job[c]))
         /\ \A u \in Callers \ {c} : Area(db[u], job[u]) = {}
         /\ KeyOf(job[c]) \in Keys /\ db[c][0] \in Databases
         /\ Host(c) \in Hosts /\ Host(c) \in Replicas(KeyOf(job[c])) /\ Host(c) \in Rest(job[c])
         /\ db[c][Host(c)] = db[c][0]
         /\ \A h \in Hosts : db[c][h] = db[c][0]
         /\ \A k \in Keys : ~torn[db[c][0]][k]
<1>1. AloneIn(c, db, job, last, torn) /\ Calm(job[c])
  BY OneReturns DEF Calm
<1>2. /\ \A u \in Callers \ {c} : Area(db[u], job[u]) = {}
      /\ \A h \in Hosts : db[c][h] = db[c][0]
      /\ \A k \in Keys : ~torn[db[c][0]][k]
  BY <1>1 DEF AloneIn
<1>3. Typed(job[c]) /\ RoutedJob(job[c]) /\ db[c] \in [Hosts -> Databases]
  BY OneCaller
<1>4. /\ job[c].op \in KeyedWrites /\ job[c].op \in KeyedWrites \cup Reads /\ job[c].op # "none"
  BY DEF KeyedWrites
<1>5. Host(c) \in Hosts /\ Host(c) \in Rest(job[c]) /\ KeyOf(job[c]) \in Keys
  BY <1>3, <1>4, HostFacts, KeyIsKey
<1>6. Host(c) \in Replicas(KeyOf(job[c]))
  BY <1>3, <1>4, <1>5 DEF RoutedJob
<1>7. 0 \in Hosts
  BY Redis2PAssumption DEF Hosts
<1>8. db[c][0] \in Databases /\ db[c][Host(c)] = db[c][0]
  BY <1>2, <1>3, <1>5, <1>7
<1>9. Area(db[c], job[c]) = {<<db[c][0], KeyOf(job[c])>>}
  <2>1. Area(db[c], job[c]) =
          {db[c][h] : h \in Replicas(KeyOf(job[c])) \cap Hosts} \X {KeyOf(job[c])}
    BY <1>4, AreaKinds
  <2>2. {db[c][h] : h \in Replicas(KeyOf(job[c])) \cap Hosts} = {db[c][0]}
    BY <1>2, <1>5, <1>6
  <2>3. QED
    BY <2>1, <2>2
<1>10. ~Split(Area(db[c], job[c]))
  BY <1>9 DEF Split
<1>11. QED
  BY <1>2, <1>5, <1>6, <1>8, <1>9, <1>10

\* With the answer of the last group the count includes this key.
LEMMA DelCounts ==
  ASSUME StoreInv, ReturnInv, NEW c \in Callers, job[c].op = "del", job[c].calm, LastHost(c)
  PROVE  job[c].n + DeletedNow(c) =
           Cardinality({k \in DoneBy(job[c]) \cup {KeyOf(job[c])} : job[c].before[k] # Nil})
<1> DEFINE key == KeyOf(job[c])
           b == job[c].before
           D == {k \in DoneBy(job[c]) : b[k] # Nil}
           E == {k \in DoneBy(job[c]) \cup {key} : b[k] # Nil}
<1>1. DelIn(store, db[c], job[c], last)
  BY OneReturns
<1>2. /\ key \in Keys /\ Host(c) \in Rest(job[c]) /\ db[c][Host(c)] = db[c][0]
  BY DelAlone
<1>3. /\ \A k \in Keys : last[db[c][0]][k] = IF k \in DoneBy(job[c]) THEN Nil ELSE b[k]
      /\ \A h \in Rest(job[c]) : store[h][db[c][0]][key] = last[db[c][0]][key]
      /\ job[c].n = Cardinality(D)
  BY <1>1 DEF DelIn
<1>4. Held(c)[key] = IF key \in DoneBy(job[c]) THEN Nil ELSE b[key]
  BY <1>2, <1>3 DEF Held
<1>5. D \subseteq Keys
  BY DEF DoneBy
<1>6. IsFiniteSet(D) /\ Cardinality(D) \in Nat
  BY <1>5, Redis2PAssumption, FS_Subset, FS_CardinalityType
<1>7. CASE Held(c)[key] # Nil
  <2>1. key \notin D /\ E = D \cup {key}
    BY <1>4, <1>7
  <2> HIDE DEF D, E
  <2>2. Cardinality(E) = Cardinality(D) + 1
    BY <1>6, <2>1, FS_AddElement
  <2>3. DeletedNow(c) = 1
    BY <1>7 DEF DeletedNow, Existed
  <2>4. job[c].n + DeletedNow(c) = Cardinality(E)
    BY <1>3, <2>2, <2>3
  <2>5. QED
    BY <2>4 DEF E
<1>8. CASE Held(c)[key] = Nil
  <2>1. E = D
    BY <1>4, <1>8
  <2>2. DeletedNow(c) = 0
    BY <1>8 DEF DeletedNow, Existed
  <2> HIDE DEF D, E
  <2>3. job[c].n + DeletedNow(c) = Cardinality(E)
    BY <1>3, <1>6, <2>1, <2>2
  <2>4. QED
    BY <2>3 DEF E
<1>9. QED
  BY <1>7, <1>8

LEMMA WriteNextOwn ==
  ASSUME StoreInv, ReturnInv, NEW c \in Callers, write_next_group(c)
  PROVE  OwnFacts(c)
<1>1. /\ job[c].op \in KeyedWrites /\ ~LastHost(c) /\ WriteHost(c)
      /\ job' = [job EXCEPT ![c].hosts = Tail(@), ![c].n = @ + DeletedNow(c)]
      /\ db' = db /\ last' = last /\ torn' = torn /\ right' = right
  BY DEF write_next_group
<1>2. right' /\ DelIn(store, db[c], job[c], last) /\ AloneIn(c, db, job, last, torn)
  BY <1>1, OneReturns
<1>3. job \in [Callers -> Jobs] /\ job[c] \in Jobs /\ Typed(job[c]) /\ job[c].op # "none"
  BY <1>1, OneCaller DEF StoreInv, TypeOK, KeyedWrites
<1>4. /\ job'[c].op = job[c].op /\ job'[c].keys = job[c].keys /\ job'[c].i = job[c].i
      /\ job'[c].value = job[c].value /\ job'[c].before = job[c].before
      /\ job'[c].hosts = Tail(job[c].hosts) /\ job'[c].n = job[c].n + DeletedNow(c)
      /\ \A u \in Callers \ {c} : job'[u] = job[u]
  BY <1>1, <1>3 DEF Jobs
<1>5. job'[c].calm = job[c].calm /\ job'[c].clash = job[c].clash
  BY <1>1, <1>3 DEF Jobs
<1>6. CASE job[c].op # "del"
  <2>1. job'[c].op \notin Reads \cup {"keys", "del", "select"}
    BY <1>1, <1>4, <1>6 DEF KeyedWrites, Reads
  <2>2. QED
    BY <1>2, <2>1, OtherOwn
<1>7. CASE job[c].op = "del"
  <2>1. AloneIn(c, db', job', last', torn')
    <3>1. Calm(job'[c]) = Calm(job[c])
      BY <1>4, <1>5 DEF Calm
    <3>2. QED
      BY <1>1, <1>2, <1>4, <3>1 DEF AloneIn
  <2>2. DelIn(store', db'[c], job'[c], last')
    <3>1. SUFFICES ASSUME job[c].calm PROVE DelIn(store', db'[c], job'[c], last')
      BY <1>5 DEF DelIn
    <3>2. KeyOf(job'[c]) = KeyOf(job[c]) /\ DoneBy(job'[c]) = DoneBy(job[c])
      BY <1>4 DEF KeyOf, DoneBy
    <3>3. /\ ~job[c].clash /\ job[c].value = Nil
          /\ \A k \in Keys :
               last[db[c][0]][k] = IF k \in DoneBy(job[c]) THEN Nil ELSE job[c].before[k]
          /\ \A h \in Rest(job[c]) :
               store[h][db[c][0]][KeyOf(job[c])] = last[db[c][0]][KeyOf(job[c])]
          /\ \A m, n \in 1..Len(job[c].hosts) : job[c].hosts[m] = job[c].hosts[n] => m = n
          /\ job[c].n = Cardinality({k \in DoneBy(job[c]) : job[c].before[k] # Nil})
      BY <1>2, <1>7, <3>1 DEF DelIn
    <3>4. /\ job[c].hosts \in Seq(Hosts) /\ Len(job[c].hosts) \in Nat \ {0}
          /\ job[c].hosts # << >> /\ Host(c) = job[c].hosts[1] /\ Rest(job[c]) \subseteq Hosts
      <4>1. job[c].hosts \in Seq(Hosts)
        BY <1>3 DEF Jobs
      <4>2. job[c].hosts # << >>
        BY <1>3 DEF Typed
      <4>3. Len(job[c].hosts) \in Nat \ {0}
        BY <4>1, <4>2
      <4>4. Host(c) = job[c].hosts[1]
        BY <4>1, <4>2 DEF Host
      <4>5. \A m \in 1..Len(job[c].hosts) : job[c].hosts[m] \in Hosts
        BY <4>1
      <4>6. Rest(job[c]) \subseteq Hosts
        BY <4>5 DEF Rest
      <4>7. QED
        BY <4>1, <4>2, <4>3, <4>4, <4>6
    <3>5. /\ Len(job'[c].hosts) = Len(job[c].hosts) - 1
          /\ \A m \in 1..Len(job'[c].hosts) : job'[c].hosts[m] = job[c].hosts[m + 1]
      <4>1. Len(Tail(job[c].hosts)) = Len(job[c].hosts) - 1
        BY <3>4
      <4>2. \A m \in 1..Len(Tail(job[c].hosts)) : Tail(job[c].hosts)[m] = job[c].hosts[m + 1]
        BY <3>4, <4>1
      <4>3. QED
        BY <1>4, <4>1, <4>2
    <3>6. \A m \in 1..Len(job'[c].hosts) : m + 1 \in 1..Len(job[c].hosts) /\ m + 1 # 1
      BY <3>4, <3>5
    <3>7. \A m, n \in 1..Len(job'[c].hosts) : job'[c].hosts[m] = job'[c].hosts[n] => m = n
      <4>1. SUFFICES ASSUME NEW m \in 1..Len(job'[c].hosts), NEW n \in 1..Len(job'[c].hosts),
                            job'[c].hosts[m] = job'[c].hosts[n]
                     PROVE  m = n
        OBVIOUS
      <4>2. m + 1 = n + 1
        BY <3>3, <3>5, <3>6, <4>1
      <4>3. QED
        BY <3>4, <3>5, <4>2
    <3>8. \A h \in Rest(job'[c]) : h \in Rest(job[c]) /\ h # Host(c)
      <4>1. SUFFICES ASSUME NEW m \in 1..Len(job'[c].hosts)
                     PROVE  job'[c].hosts[m] \in Rest(job[c]) /\ job'[c].hosts[m] # Host(c)
        BY DEF Rest
      <4>2. m + 1 \in 1..Len(job[c].hosts) /\ m + 1 # 1 /\ job'[c].hosts[m] = job[c].hosts[m + 1]
        BY <3>5, <3>6
      <4>3. 1 \in 1..Len(job[c].hosts)
        BY <3>4
      <4>4. job[c].hosts[m + 1] # job[c].hosts[1]
        BY <3>3, <4>2, <4>3
      <4>5. QED
        BY <3>4, <4>2, <4>4 DEF Rest
    <3>9. KeyOf(job[c]) \in Keys /\ db[c][0] \in Databases
      BY <1>7, <3>1, DelAlone
    <3>10. \A h \in Rest(job'[c]) :
             store'[h][db[c][0]][KeyOf(job[c])] = store[h][db[c][0]][KeyOf(job[c])]
      <4>1. \A h \in Hosts, d \in Databases, k \in Keys :
              h # Host(c) => store'[h][d][k] = store[h][d][k]
        BY <1>1, WriteEffect
      <4>2. QED
        BY <3>4, <3>8, <3>9, <4>1
    <3>11. DeletedNow(c) = 0
      BY <1>1 DEF DeletedNow
    <3>12. job'[c].n = job[c].n
      BY <1>3, <1>4, <3>11 DEF Jobs
    <3>13. \A h \in Rest(job'[c]) :
             store'[h][db'[c][0]][KeyOf(job'[c])] = last'[db'[c][0]][KeyOf(job'[c])]
      <4>1. SUFFICES ASSUME NEW h \in Rest(job'[c])
                     PROVE  store'[h][db[c][0]][KeyOf(job[c])] = last[db[c][0]][KeyOf(job[c])]
        BY <1>1, <3>2
      <4>2. store[h][db[c][0]][KeyOf(job[c])] = last[db[c][0]][KeyOf(job[c])]
        BY <3>3, <3>8, <4>1
      <4>3. store'[h][db[c][0]][KeyOf(job[c])] = store[h][db[c][0]][KeyOf(job[c])]
        BY <3>10, <4>1
      <4>4. QED
        BY <4>2, <4>3
    <3>14. ~job'[c].clash
      BY <1>5, <3>3
    <3>15. job'[c].value = Nil
      BY <1>4, <3>3
    <3>16. \A k \in Keys :
             last'[db'[c][0]][k] = IF k \in DoneBy(job'[c]) THEN Nil ELSE job'[c].before[k]
      BY <1>1, <1>4, <3>2, <3>3
    <3>17. job'[c].n = Cardinality({k \in DoneBy(job'[c]) : job'[c].before[k] # Nil})
      BY <1>4, <3>2, <3>3, <3>12
    <3>18. QED
      BY <3>7, <3>13, <3>14, <3>15, <3>16, <3>17 DEF DelIn
  <2>3. job'[c].op # "select" /\ job'[c].op # "keys" /\ job'[c].op \notin Reads
    BY <1>4, <1>7 DEF Reads
  <2>4. QED
    BY <1>2, <2>1, <2>2, <2>3 DEF OwnFacts, SwitchedIn, ReadIn, KeysIn
<1>8. QED
  BY <1>6, <1>7

\* A key of a calm del is gone from every copy, and all others are as they were.
LEMMA DelWritten ==
  ASSUME StoreInv, ReturnInv, NEW c \in Callers, job[c].op = "del", job[c].calm,
         write_last_group(c)
  PROVE  /\ \A k \in Keys : ~torn'[db[c][0]][k]
         /\ last'[db[c][0]][KeyOf(job[c])] = Nil
         /\ \A k \in Keys : k # KeyOf(job[c]) => last'[db[c][0]][k] = last[db[c][0]][k]
         /\ \A k \in Keys : \A h \in Replicas(k) : store'[h][db[c][0]][k] = last'[db[c][0]][k]
<1> DEFINE key == KeyOf(job[c])
           d == db[c][0]
           A == Area(db[c], job[c])
<1>1. /\ A = {<<d, key>>} /\ ~Split(A) /\ \A u \in Callers \ {c} : Area(db[u], job[u]) = {}
      /\ key \in Keys /\ d \in Databases
      /\ \A k \in Keys : ~torn[d][k]
  BY DelAlone
<1>2. ~job[c].clash /\ job[c].value = Nil
  BY OneReturns DEF DelIn
<1>3. <<d, key>> \in A /\ \A k \in Keys : k # key => <<d, k>> \notin A
  BY <1>1
<1>4. /\ job[c].op \in KeyedWrites /\ job[c].op \in Repairs /\ job[c].op \in Overwrites
      /\ WriteHost(c)
  BY DEF KeyedWrites, Repairs, Overwrites, write_last_group
<1>5. /\ last'[d][key] = Nil
      /\ ~torn'[d][key] => \A h \in Replicas(key) : store'[h][d][key] = last'[d][key]
      /\ ~torn'[d][key]
  <2>1. \A e \in Databases, k \in Keys :
          <<e, k>> \in A =>
            /\ last'[e][k] = job[c].value
            /\ ~torn'[e][k] => \A h \in Replicas(k) : store'[h][e][k] = last'[e][k]
            /\ ~job[c].clash /\ ~Split(A) => ~torn'[e][k]
    BY <1>4, WriteLastStored
  <2> HIDE DEF d, key, A
  <2>2. /\ last'[d][key] = job[c].value
        /\ ~torn'[d][key] => \A h \in Replicas(key) : store'[h][d][key] = last'[d][key]
        /\ ~job[c].clash /\ ~Split(A) => ~torn'[d][key]
    BY <1>1, <1>3, <2>1
  <2>3. ~torn'[d][key]
    BY <1>1, <1>2, <1>4, <2>2
  <2>4. QED
    BY <1>2, <2>2, <2>3
<1>6. \A k \in Keys : k # key => last'[d][k] = last[d][k] /\ torn'[d][k] = torn[d][k]
  <2>1. \A e \in Databases, k \in Keys :
          <<e, k>> \notin A => last'[e][k] = last[e][k] /\ torn'[e][k] = torn[e][k]
    BY WriteLastStored
  <2> HIDE DEF d, key, A
  <2>2. QED
    BY <1>1, <1>3, <2>1
<1>7. ASSUME NEW k \in Keys, k # key, NEW h \in Replicas(k)
      PROVE  store'[h][d][k] = last'[d][k]
  <2>1. \A u \in Callers : <<d, k>> \notin Area(db[u], job[u])
    BY <1>1, <1>3, <1>7
  <2>2. ~torn[d][k]
    BY <1>1
  <2> HIDE DEF d, key, A
  <2>3. store[h][d][k] = last[d][k]
    BY <1>1, <2>1, <2>2, StoredLast
  <2>4. h \in Hosts
    BY ReplicasAreHosts DEF StoreInv
  <2>5. Touches(c)
    BY <1>4, WriteEffect
  <2>6. store'[h][d][k] = store[h][d][k]
    BY <1>1, <1>3, <1>7, <2>4, <2>5 DEF Touches, A
  <2>7. QED
    BY <1>6, <1>7, <2>3, <2>6
<1> HIDE DEF d, key, A
<1>8. \A k \in Keys : ~torn'[d][k]
  BY <1>1, <1>5, <1>6
<1>9. \A k \in Keys : \A h \in Replicas(k) : store'[h][d][k] = last'[d][k]
  BY <1>5, <1>7
<1>10. QED
  BY <1>5, <1>6, <1>8, <1>9 DEF d, key

\* With the last key of its list done a del has done them all.
LEMMA DelAll ==
  ASSUME StoreInv, ReturnInv, NEW c \in Callers, job[c].op = "del", LastKey(c)
  PROVE  Existing(job[c].keys, job[c].before) =
           {k \in DoneBy(job[c]) \cup {KeyOf(job[c])} : job[c].before[k] # Nil}
<1>1. Typed(job[c]) /\ job[c].op \in KeyedWrites \cup Reads
  BY OneCaller DEF KeyedWrites
<1>2. /\ job[c].keys \in Seq(Keys) /\ job[c].i \in 1..Len(job[c].keys)
      /\ job[c].i = Len(job[c].keys) /\ KeyOf(job[c]) \in Keys
  BY <1>1, KeyIsKey DEF Typed, Jobs, LastKey
<1>3. 1..Len(job[c].keys) = 1..(job[c].i - 1) \cup {job[c].i}
  BY <1>2
<1>4. \A k \in Keys : (\E m \in 1..Len(job[c].keys) : job[c].keys[m] = k) <=>
                       k \in DoneBy(job[c]) \cup {KeyOf(job[c])}
  BY <1>3 DEF DoneBy, KeyOf
<1>5. DoneBy(job[c]) \cup {KeyOf(job[c])} \subseteq Keys
  BY <1>2 DEF DoneBy
<1>6. QED
  BY <1>4, <1>5 DEF Existing

LEMMA WriteLastOwn ==
  ASSUME StoreInv, ReturnInv, NEW c \in Callers, write_last_group(c)
  PROVE  OwnFacts(c)
<1>1. job[c].op \in KeyedWrites /\ LastHost(c) /\ db' = db
  BY DEF write_last_group
<1>2. Typed(job[c]) /\ job[c] \in Jobs /\ right
  BY OneCaller, OneReturns DEF Typed
<1>3. CASE LastKey(c) /\ Finish(c)
           /\ right' = (job[c].op = "del" /\ job[c].calm =>
                         job[c].n + DeletedNow(c) =
                           Cardinality(Existing(job[c].keys, job[c].before)))
  <2>1. ASSUME job[c].op = "del", job[c].calm
        PROVE  job[c].n + DeletedNow(c) = Cardinality(Existing(job[c].keys, job[c].before))
    <3>1. job[c].n + DeletedNow(c) =
            Cardinality({k \in DoneBy(job[c]) \cup {KeyOf(job[c])} : job[c].before[k] # Nil})
      BY <1>1, <2>1, DelCounts
    <3>2. Existing(job[c].keys, job[c].before) =
            {k \in DoneBy(job[c]) \cup {KeyOf(job[c])} : job[c].before[k] # Nil}
      BY <1>3, <2>1, DelAll
    <3>3. QED
      BY <3>1, <3>2
  <2>2. right'
    BY <1>3, <2>1
  <2>3. QED
    BY <1>3, <2>2, FinishOwn DEF StoreInv
<1>4. CASE ~LastKey(c) /\ Enter(c, NextKey(c, [job[c] EXCEPT !.n = @ + DeletedNow(c)]))
           /\ right' = right
  <2> DEFINE j == [job[c] EXCEPT !.n = job[c].n + DeletedNow(c)]
             l == NextKey(c, j)
  <2>1. /\ j \in Jobs /\ j.op = job[c].op /\ j.keys = job[c].keys /\ j.i = job[c].i
        /\ j.value = job[c].value /\ j.before = job[c].before
        /\ j.n = job[c].n + DeletedNow(c)
    <3>1. job[c].n + DeletedNow(c) \in Nat
      BY <1>2, DeletedNowType DEF Jobs
    <3>2. QED
      BY <1>2, <3>1 DEF Jobs
  <2>2. j.calm = job[c].calm
    BY <1>2 DEF Jobs
  <2>3. Enter(c, l)
    BY <1>4
  <2> HIDE DEF j
  <2>4. /\ l \in Jobs /\ l.op = j.op /\ l.keys = j.keys /\ l.i = j.i + 1 /\ l.value = j.value
        /\ l.hosts = HostsFor(c, j.op, KeyOf(l)) /\ l.n = j.n /\ l.calm = j.calm
        /\ l.before = j.before /\ KeyOf(l) \in Keys
    BY <1>1, <1>4, <2>1, NextKeyFacts
  <2> HIDE DEF l
  <2>5. /\ job'[c].op = job[c].op /\ job'[c].keys = job[c].keys /\ job'[c].i = job[c].i + 1
        /\ job'[c].value = job[c].value /\ job'[c].before = job[c].before
        /\ job'[c].hosts = l.hosts /\ job'[c].n = job[c].n + DeletedNow(c)
        /\ Comes(c, Area(db[c], l))
    BY <1>1, <2>1, <2>3, <2>4, EnterStep DEF StoreInv
  <2>6. job'[c].calm = job[c].calm
    BY <1>1, <2>2, <2>3, <2>4, EnterStep DEF StoreInv
  <2>7. job'[c].clash = (\E u \in Callers \ {c} : Area(db[u], job[u]) \cap Area(db[c], l) # {})
    BY <1>1, <2>3, <2>4, EnterStep DEF StoreInv
  <2>8. right'
    BY <1>2, <1>4
  <2>9. CASE job[c].op # "del"
    <3>1. job'[c].op \notin Reads \cup {"keys", "del", "select"}
      BY <1>1, <2>5, <2>9 DEF KeyedWrites, Reads
    <3>2. QED
      BY <2>8, <3>1, OtherOwn
  <2>10. CASE job[c].op = "del" /\ ~job[c].calm
    <3>1. job'[c].op = "del" /\ ~job'[c].calm
      BY <2>5, <2>6, <2>10
    <3>2. job'[c].op # "select" /\ job'[c].op # "keys" /\ job'[c].op \notin Reads
      BY <3>1 DEF Reads
    <3>3. QED
      BY <2>8, <3>1, <3>2 DEF OwnFacts, SwitchedIn, AloneIn, Calm, DelIn, ReadIn, KeysIn
  <2>11. CASE job[c].op = "del" /\ job[c].calm
    <3> DEFINE key == KeyOf(job[c])
               d == db[c][0]
               b == job[c].before
    <3>1. /\ \A u \in Callers \ {c} : Area(db[u], job[u]) = {}
          /\ \A h \in Hosts : db[c][h] = d
          /\ key \in Keys
      BY <2>11, DelAlone
    <3>2. /\ \A k \in Keys : ~torn'[d][k]
          /\ last'[d][key] = Nil
          /\ \A k \in Keys : k # key => last'[d][k] = last[d][k]
          /\ \A k \in Keys : \A h \in Replicas(k) : store'[h][d][k] = last'[d][k]
      BY <2>11, DelWritten
    <3>3. /\ job[c].value = Nil
          /\ \A k \in Keys : last[d][k] = IF k \in DoneBy(job[c]) THEN Nil ELSE b[k]
      BY <2>11, OneReturns DEF DelIn
    <3>4. KeyOf(job'[c]) = KeyOf(l)
      BY <2>1, <2>4, <2>5 DEF KeyOf
    <3>5. DoneBy(job'[c]) = DoneBy(job[c]) \cup {key}
      <4>1. job[c].i \in Nat \ {0}
        BY <1>1, <1>2 DEF Typed, Jobs
      <4>2. 1..(job'[c].i - 1) = 1..(job[c].i - 1) \cup {job[c].i}
        BY <2>5, <4>1
      <4>3. QED
        BY <2>5, <3>1, <4>2 DEF DoneBy, KeyOf
    <3>6. AloneIn(c, db', job', last', torn')
      <4>1. \A u \in Callers \ {c} : Area(db'[u], job'[u]) = {}
        BY <2>5, <3>1, AsideArea DEF Comes
      <4>2. db'[c][0] = d /\ db'[c] = db[c]
        BY <1>1
      <4> HIDE DEF d, key, b
      <4>3. QED
        BY <2>5, <2>11, <3>1, <3>2, <4>1, <4>2 DEF AloneIn
    <3>7. ~job'[c].clash
      BY <2>7, <3>1
    <3>8. job'[c].value = Nil
      BY <2>5, <3>3
    <3>9. \A k \in Keys :
            last'[db'[c][0]][k] = IF k \in DoneBy(job'[c]) THEN Nil ELSE job'[c].before[k]
      <4>1. db'[c][0] = d /\ job'[c].before = b
        BY <1>1, <2>5
      <4> HIDE DEF d, key, b
      <4>2. QED
        BY <3>1, <3>2, <3>3, <3>5, <4>1
    <3>10. /\ \A m \in 1..Len(l.hosts) : l.hosts[m] \in Replicas(KeyOf(l))
           /\ \A m, n \in 1..Len(l.hosts) : l.hosts[m] = l.hosts[n] => m = n
      <4>1. l.hosts = HostsFor(c, "del", KeyOf(l))
        BY <2>1, <2>4, <2>11
      <4>2. inner_init
        BY DEF StoreInv
      <4>3. QED
        BY <2>4, <4>1, <4>2, KeyRoute, DistinctRoute
    <3>11. \A h \in Rest(job'[c]) :
             store'[h][db'[c][0]][KeyOf(job'[c])] = last'[db'[c][0]][KeyOf(job'[c])]
      <4>1. \A h \in Rest(job'[c]) : h \in Replicas(KeyOf(l))
        BY <2>5, <3>10 DEF Rest
      <4>2. db'[c][0] = d
        BY <1>1
      <4> HIDE DEF d, key, b
      <4>3. QED
        BY <2>4, <3>2, <3>4, <4>1, <4>2
    <3>12. \A m, n \in 1..Len(job'[c].hosts) : job'[c].hosts[m] = job'[c].hosts[n] => m = n
      BY <2>5, <3>10
    <3>13. job'[c].n = Cardinality({k \in DoneBy(job'[c]) : job'[c].before[k] # Nil})
      <4>1. job[c].n + DeletedNow(c) =
              Cardinality({k \in DoneBy(job[c]) \cup {KeyOf(job[c])} : job[c].before[k] # Nil})
        BY <1>1, <2>11, DelCounts
      <4>2. QED
        BY <2>5, <3>5, <4>1
    <3>14. DelIn(store', db'[c], job'[c], last')
      BY <3>7, <3>8, <3>9, <3>11, <3>12, <3>13 DEF DelIn
    <3>15. job'[c].op # "select" /\ job'[c].op # "keys" /\ job'[c].op \notin Reads
      BY <2>5, <2>11 DEF Reads
    <3>16. QED
      BY <2>8, <3>6, <3>14, <3>15 DEF OwnFacts, SwitchedIn, ReadIn, KeysIn
  <2>12. QED
    BY <2>9, <2>10, <2>11
<1>5. QED
  BY <1>3, <1>4 DEF write_last_group

-----------------------------------------------------------------------------
(***************************************************************************)
(* The methods that return nothing but success, and failures.              *)
(***************************************************************************)

LEMMA WriteFailsOwn ==
  ASSUME StoreInv, ReturnInv, NEW c \in Callers, write_fails(c)
  PROVE  OwnFacts(c)
<1>1. Finish(c) /\ right' = right
  BY DEF write_fails
<1>2. right'
  BY <1>1, OneReturns
<1>3. QED
  BY <1>1, <1>2, FinishOwn DEF StoreInv

LEMMA KeysFailsOwn ==
  ASSUME StoreInv, ReturnInv, NEW c \in Callers, keys_fails(c)
  PROVE  OwnFacts(c)
<1>1. Finish(c) /\ right' = right
  BY DEF keys_fails
<1>2. right'
  BY <1>1, OneReturns
<1>3. QED
  BY <1>1, <1>2, FinishOwn DEF StoreInv

LEMMA FlushHostOwn ==
  ASSUME StoreInv, ReturnInv, NEW c \in Callers, flush_host(c)
  PROVE  OwnFacts(c)
<1>1. PICK done \in BOOLEAN, executed \in BOOLEAN :
        /\ FlushCall(c, done, executed)
        /\ \/ Finish(c)
           \/ job' = [job EXCEPT ![c].hosts = Tail(@), ![c].ok = job[c].ok /\ done]
  BY FlushShape
<1>2. job[c].op \in Flushes /\ right' = right
  BY <1>1 DEF FlushCall
<1>3. right'
  BY <1>2, OneReturns
<1>4. CASE Finish(c)
  BY <1>3, <1>4, FinishOwn DEF StoreInv
<1>5. CASE job' = [job EXCEPT ![c].hosts = Tail(@), ![c].ok = job[c].ok /\ done]
  <2>1. job \in [Callers -> Jobs]
    BY DEF StoreInv, TypeOK
  <2>2. job'[c].op = job[c].op
    BY <1>5, <2>1 DEF Jobs
  <2>3. job'[c].op \notin Reads \cup {"keys", "del", "select"}
    BY <1>2, <2>2 DEF Flushes, Reads
  <2>4. QED
    BY <1>3, <2>3, OtherOwn
<1>6. QED
  BY <1>1, <1>4, <1>5

-----------------------------------------------------------------------------
(***************************************************************************)
(* The theorem about what the methods return.                              *)
(***************************************************************************)

LEMMA ReturnInit ==
  ASSUME Init
  PROVE  ReturnInv
<1>1. right /\ \A c \in Callers : job[c] = NoJob
  BY DEF Init
<1>2. NoJob.op = "none"
  BY DEF NoJob
<1>3. \A c \in Callers : /\ SwitchedIn(db[c], job[c])
                         /\ AloneIn(c, db, job, last, torn)
                         /\ DelIn(store, db[c], job[c], last)
                         /\ ReadIn(job[c])
                         /\ KeysIn(c, job[c])
  BY <1>1, <1>2 DEF SwitchedIn, AloneIn, Calm, DelIn, ReadIn, KeysIn, Reads
<1>4. QED
  BY <1>1, <1>3, ReturnsNow

LEMMA EveryReturn ==
  ASSUME StoreInv, ReturnInv, Next
  PROVE  \E c \in Callers : StepFacts(c) /\ OwnFacts(c)
<1>1. ASSUME NEW c \in Callers, Begins(c) PROVE StepFacts(c) /\ OwnFacts(c)
  BY <1>1, BeginFacts, BeginOwn
<1>2. ASSUME NEW c \in Callers, write_next_group(c) PROVE StepFacts(c) /\ OwnFacts(c)
  BY <1>2, WriteNextFacts, WriteNextOwn
<1>3. ASSUME NEW c \in Callers, write_last_group(c) PROVE StepFacts(c) /\ OwnFacts(c)
  BY <1>3, WriteLastFacts, WriteLastOwn
<1>4. ASSUME NEW c \in Callers, write_fails(c) PROVE StepFacts(c) /\ OwnFacts(c)
  BY <1>4, WriteFailsFacts, WriteFailsOwn
<1>5. ASSUME NEW c \in Callers, read_host(c) PROVE StepFacts(c) /\ OwnFacts(c)
  BY <1>5, ReadHostFacts, ReadHostOwn
<1>6. ASSUME NEW c \in Callers, read_fails(c) PROVE StepFacts(c) /\ OwnFacts(c)
  BY <1>6, ReadFailsFacts, ReadFailsOwn
<1>7. ASSUME NEW c \in Callers, keys_host(c) PROVE StepFacts(c) /\ OwnFacts(c)
  BY <1>7, KeysHostFacts, KeysHostOwn
<1>8. ASSUME NEW c \in Callers, keys_fails(c) PROVE StepFacts(c) /\ OwnFacts(c)
  BY <1>8, KeysFailsFacts, KeysFailsOwn
<1>9. ASSUME NEW c \in Callers, flush_host(c) PROVE StepFacts(c) /\ OwnFacts(c)
  BY <1>9, FlushHostFacts, FlushHostOwn
<1>10. ASSUME NEW c \in Callers, select_host(c) PROVE StepFacts(c) /\ OwnFacts(c)
  BY <1>10, SelectHostFacts, SelectHostOwn
<1>11. QED
  BY <1>1, <1>2, <1>3, <1>4, <1>5, <1>6, <1>7, <1>8, <1>9, <1>10 DEF Next, Begins

LEMMA ReturnNext ==
  ASSUME StoreInv, ReturnInv, [Next]_vars
  PROVE  ReturnInv'
<1>1. CASE Next
  BY <1>1, EveryReturn, ReturnKeeps
<1>2. CASE UNCHANGED vars
  <2>1. /\ store' = store /\ db' = db /\ job' = job /\ last' = last /\ torn' = torn
        /\ right' = right
    BY <1>2 DEF vars
  <2>2. QED
    BY <2>1, ReturnsNow, ReturnsNext
<1>3. QED
  BY <1>1, <1>2

\* A method that returns true while nobody else writes tells the truth, whatever
\* the routing and whichever groups failed to answer.
THEOREM AlwaysTruthful == Spec => []Truthful
<1>1. Init => ReturnInv
  BY ReturnInit
<1>2. StoreInv /\ ReturnInv /\ [Next]_vars => ReturnInv'
  BY ReturnNext
<1>3. ReturnInv => Truthful
  BY DEF ReturnInv
<1>4. QED
  BY <1>1, <1>2, <1>3, StoreAlways, PTL DEF Spec

=============================================================================
