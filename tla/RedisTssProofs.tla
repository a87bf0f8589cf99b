--------------------------- MODULE RedisTssProofs ---------------------------
(***************************************************************************)
(* For any number of threads and any pool_size_: the clients that RedisTss *)
(* (redis_tss.cpp) hands out are never shared between two threads, never   *)
(* deleted while somebody has a pointer to them, and never lost.           *)
(***************************************************************************)
EXTENDS RedisTss, SequenceTheorems, FiniteSetTheorems, TLAPS

\* pop_back() of get_free_redis: the other clients stay where they are.
LEMMA PopBack ==
  ASSUME NEW S, NEW s \in Seq(S), NEW n \in Nat, Len(s) = n + 1
  PROVE  /\ SubSeq(s, 1, n) \in Seq(S)
         /\ Len(SubSeq(s, 1, n)) = n
         /\ \A i \in 1..n : SubSeq(s, 1, n)[i] = s[i]
<1>1. \A i \in 1..n : s[i] \in S
  OBVIOUS
<1>2. /\ SubSeq(s, 1, n) \in Seq(S)
      /\ Len(SubSeq(s, 1, n)) = IF 1 <= n THEN n - 1 + 1 ELSE 0
      /\ \A i \in 1..(n - 1 + 1) : SubSeq(s, 1, n)[i] = s[1 + i - 1]
  BY <1>1, SubSeqProperties
<1> QED BY <1>2

\* push_back() of put_free_redis.
LEMMA PushBack ==
  ASSUME NEW S, NEW s \in Seq(S), NEW e \in S, NEW r, r = Append(s, e)
  PROVE  /\ r \in Seq(S)
         /\ Len(s) \in Nat
         /\ Len(r) = Len(s) + 1
         /\ r[Len(r)] = e
         /\ \A i \in 1..Len(r) : i = Len(r) \/ i \in 1..Len(s)
         /\ \A i \in 1..Len(s) : i \in 1..Len(r) /\ i # Len(r) /\ r[i] = s[i]
OBVIOUS

\* Nothing exists before the first get().
LEMMA OwnershipInit == Init => Ownership
<1> SUFFICES ASSUME Init PROVE Ownership
  OBVIOUS
<1>1. NoJob \in Jobs /\ NoJob.step = "none" /\ NoJob.ptr = NULL
  BY DEF NoJob, Jobs, Flags, Slots
<1>2. TypeOK
  BY <1>1 DEF Init, TypeOK, Slots
<1>3. Len(free_redis_) = 0 /\ Pooled = {}
  BY DEF Init, Pooled
<1>4. \A t \in Threads : job[t] = NoJob /\ client_[t] = NULL /\ held[t] = NULL
  BY DEF Init
<1>5. \A t \in Threads : Owned(t) = {}
  BY <1>1, <1>4 DEF Owned
<1>6. JobsReady
  BY <1>1, <1>4 DEF JobsReady
<1>7. Exclusive
  BY <1>1, <1>3, <1>4, <1>5 DEF Exclusive
<1>8. NoDangling
  BY <1>3, <1>5 DEF NoDangling
<1>9. NoLeak
  BY DEF NoLeak, Init
<1>10. PoolBound
  BY <1>3, PoolAssumption DEF PoolBound
<1> QED BY <1>2, <1>6, <1>7, <1>8, <1>9, <1>10 DEF Ownership

\* A step that moves no pointer between a thread, the pool and the heap
\* preserves everything that is said about them.
LEMMA NothingMoves ==
  ASSUME Ownership, NEW t \in Threads, TypeOK',
         UNCHANGED <<live, free_redis_, alive>>,
         \A u \in Threads : u # t => /\ client_'[u] = client_[u]
                                     /\ held'[u] = held[u]
                                     /\ job'[u] = job[u],
         Owned(t)' = Owned(t),
         client_'[t] = held'[t] => client_'[t] = NULL,
         client_'[t] = job'[t].ptr => client_'[t] = NULL,
         held'[t] = job'[t].ptr => held'[t] = NULL
  PROVE  /\ Exclusive'
         /\ NoDangling'
         /\ NoLeak'
         /\ PoolBound'
<1>1. Pooled' = Pooled
  BY DEF Pooled
<1>2. \A u \in Threads : Owned(u)' = Owned(u)
  BY DEF Owned
<1>3. Exclusive'
  BY <1>1, <1>2 DEF Ownership, Exclusive
<1>4. NoDangling' /\ PoolBound'
  BY <1>1, <1>2 DEF Ownership, NoDangling, PoolBound
<1>5. NoLeak'
  BY <1>1, <1>2 DEF Ownership, NoLeak
<1> QED BY <1>3, <1>4, <1>5

\* A client c moves from the pool or from the heap to thread t.
LEMMA ClientArrives ==
  ASSUME Ownership, TypeOK', NEW t \in Threads, NEW c \in Clients,
         \A u \in Threads : Owned(u)' = IF u = t THEN Owned(u) \cup {c} ELSE Owned(u),
         \A u \in Threads : u # t => /\ client_'[u] = client_[u]
                                     /\ held'[u] = held[u]
                                     /\ job'[u] = job[u],
         c \notin Pooled', Pooled' \subseteq Pooled,
         \A u \in Threads : c \notin Owned(u),
         client_'[t] = held'[t] => client_'[t] = NULL,
         client_'[t] = job'[t].ptr => client_'[t] = NULL,
         held'[t] = job'[t].ptr => held'[t] = NULL,
         \A i, j \in 1..Len(free_redis_') : free_redis_'[i] = free_redis_'[j] => i = j
  PROVE  Exclusive'
<1>1. \A u, v \in Threads : u # v => Owned(u)' \cap Owned(v)' = {}
  BY DEF Ownership, Exclusive
<1>2. \A u \in Threads : Owned(u)' \cap Pooled' = {}
  BY DEF Ownership, Exclusive
<1>3. \A u \in Threads :
        /\ client_'[u] = held'[u] => client_'[u] = NULL
        /\ client_'[u] = job'[u].ptr => client_'[u] = NULL
        /\ held'[u] = job'[u].ptr => held'[u] = NULL
  BY DEF Ownership, Exclusive
<1> QED BY <1>1, <1>2, <1>3 DEF Exclusive

\* get() hands a client that nobody has to thread t.
LEMMA Delivered ==
  ASSUME Ownership, NEW t \in Threads, NEW c \in Clients, Deliver(t, c),
         job[t].step \in {"pop", "create"},
         \A u \in Threads : c \notin Owned(u)
  PROVE  /\ client_' \in [Threads -> Slots] /\ held' \in [Threads -> Slots]
         /\ job' \in [Threads -> Jobs]
         /\ JobsReady'
         /\ \A u \in Threads : u # t => /\ client_'[u] = client_[u]
                                        /\ held'[u] = held[u]
                                        /\ job'[u] = job[u]
         /\ \A u \in Threads : Owned(u)' = IF u = t THEN Owned(u) \cup {c} ELSE Owned(u)
         /\ client_'[t] = held'[t] => client_'[t] = NULL
         /\ client_'[t] = job'[t].ptr => client_'[t] = NULL
         /\ held'[t] = job'[t].ptr => held'[t] = NULL
<1> USE PoolAssumption
<1>t. /\ client_ \in [Threads -> Slots] /\ held \in [Threads -> Slots]
      /\ job \in [Threads -> Jobs]
  BY DEF Ownership, TypeOK
<1>n. NoJob \in Jobs /\ NoJob.step = "none" /\ NoJob.ptr = NULL
  BY DEF NoJob, Jobs, Flags, Slots
<1>c. c \in Slots /\ c # NULL
  BY DEF Slots
<1>1. job[t].ptr = NULL /\ job[t].flag \in Flags
  BY <1>t DEF Ownership, JobsReady, Jobs
<1>2. job' = [job EXCEPT ![t] = NoJob]
  BY DEF Deliver
<1>3. job' \in [Threads -> Jobs] /\ job'[t] = NoJob
      /\ \A u \in Threads : u # t => job'[u] = job[u]
  BY <1>t, <1>n, <1>2
<1>4. CASE job[t].flag = "kThreadSpecific"
  <2>1. client_' = [client_ EXCEPT ![t] = c] /\ held' = held
    BY <1>4 DEF Deliver
  <2>2. client_[t] = NULL
    BY <1>4 DEF Ownership, JobsReady
  <2>3. /\ client_' \in [Threads -> Slots] /\ client_'[t] = c
        /\ \A u \in Threads : u # t => client_'[u] = client_[u]
    BY <1>t, <1>c, <2>1
  <2>4. Owned(t)' = Owned(t) \cup {c}
    BY <1>1, <1>3, <1>n, <1>c, <2>1, <2>2, <2>3 DEF Owned
  <2>5. \A u \in Threads : u # t => Owned(u)' = Owned(u)
    BY <1>3, <2>1, <2>3 DEF Owned
  <2>6. JobsReady'
    BY <1>3, <1>n, <2>1, <2>3 DEF JobsReady, Ownership
  <2>7. held[t] # c
    BY <1>c DEF Owned
  <2> QED BY <1>t, <1>3, <1>n, <1>c, <2>1, <2>3, <2>4, <2>5, <2>6, <2>7
<1>5. CASE job[t].flag = "kNotThreadSpecific"
  <2>1. held' = [held EXCEPT ![t] = c] /\ client_' = client_
    BY <1>5 DEF Deliver
  <2>2. held[t] = NULL
    BY <1>5 DEF Ownership, JobsReady
  <2>3. /\ held' \in [Threads -> Slots] /\ held'[t] = c
        /\ \A u \in Threads : u # t => held'[u] = held[u]
    BY <1>t, <1>c, <2>1
  <2>4. Owned(t)' = Owned(t) \cup {c}
    BY <1>1, <1>3, <1>n, <1>c, <2>1, <2>2, <2>3 DEF Owned
  <2>5. \A u \in Threads : u # t => Owned(u)' = Owned(u)
    BY <1>3, <2>1, <2>3 DEF Owned
  <2>6. JobsReady'
    BY <1>3, <1>n, <2>1, <2>3 DEF JobsReady, Ownership
  <2>7. client_[t] # c
    BY <1>c DEF Owned
  <2> QED BY <1>t, <1>3, <1>n, <1>c, <2>1, <2>3, <2>4, <2>5, <2>6, <2>7
<1> QED BY <1>1, <1>4, <1>5 DEF Flags

(***************************************************************************)
(* What a step of RedisTss does with the pointers, as ClientPool sees it.  *)
(***************************************************************************)
Stay == Pooled' = Pooled /\ \A u \in Threads : Owned(u)' = Owned(u)

Arrive(t, c) ==
  /\ \A u \in Threads : c \notin Owned(u)
  /\ Pooled' = Pooled \ {c}
  /\ \A u \in Threads : Owned(u)' = IF u = t THEN Owned(u) \cup {c} ELSE Owned(u)

Leave(t, c) ==
  /\ c \in Owned(t)
  /\ \A u \in Threads : Owned(u)' = Owned(u) \ {c}
  /\ \/ Pooled' = Pooled /\ c \notin Pooled
     \/ Pooled' = Pooled \cup {c} /\ ~IsFull

Emptied == Pooled' = {} /\ \A u \in Threads : Owned(u)' = Owned(u)

Moved ==
  \/ Stay
  \/ Emptied
  \/ \E t \in Threads, c \in Clients : Arrive(t, c) \/ Leave(t, c)

\* get() and put() keep every client in the hands of one thread or in the
\* pool, whatever the interleaving of the threads.
LEMMA OwnershipNext == Ownership /\ [Next]_vars => Ownership' /\ Moved
<1> SUFFICES ASSUME Ownership, [Next]_vars PROVE Ownership' /\ Moved
  OBVIOUS
<1> USE PoolAssumption
<1>t. /\ live \subseteq Clients /\ free_redis_ \in Seq(Clients)
      /\ client_ \in [Threads -> Slots] /\ held \in [Threads -> Slots]
      /\ job \in [Threads -> Jobs] /\ alive \in BOOLEAN
  BY DEF Ownership, TypeOK
<1>n. NoJob \in Jobs /\ NoJob.step = "none" /\ NoJob.ptr = NULL
  BY DEF NoJob, Jobs, Flags, Slots
<1>1. CASE UNCHANGED vars
  <2>1. Pooled' = Pooled /\ \A u \in Threads : Owned(u)' = Owned(u)
    BY <1>1 DEF vars, Pooled, Owned
  <2>2. TypeOK' /\ JobsReady' /\ PoolBound'
    BY <1>1 DEF vars, Ownership, TypeOK, JobsReady, PoolBound
  <2>3. Exclusive'
    BY <1>1, <2>1 DEF vars, Ownership, Exclusive
  <2>4. NoDangling' /\ NoLeak'
    BY <1>1, <2>1 DEF vars, Ownership, NoDangling, NoLeak
  <2> QED BY <2>1, <2>2, <2>3, <2>4 DEF Ownership, Moved, Stay
<1>2. ASSUME NEW t \in Threads, NEW flag \in Flags, get(t, flag) PROVE Ownership' /\ Moved
  <2>1. /\ job' = [job EXCEPT ![t] = [step |-> "pop", flag |-> flag, ptr |-> NULL]]
        /\ UNCHANGED <<live, free_redis_, client_, held, alive>>
        /\ job[t].ptr = NULL
    BY <1>2, <1>n DEF get
  <2>2. [step |-> "pop", flag |-> flag, ptr |-> NULL] \in Jobs
    BY DEF Jobs, Slots
  <2>3. TypeOK'
    BY <1>t, <2>1, <2>2 DEF TypeOK
  <2>4. \A u \in Threads : u # t => job'[u] = job[u]
    BY <1>t, <2>1
  <2>5. job'[t] = [step |-> "pop", flag |-> flag, ptr |-> NULL]
    BY <1>t, <2>1
  <2>6. JobsReady'
    BY <1>2, <2>1, <2>4, <2>5 DEF get, JobsReady, Ownership
  <2>7. Owned(t)' = Owned(t)
    BY <2>1, <2>5 DEF Owned
  <2>8. /\ client_'[t] = held'[t] => client_'[t] = NULL
        /\ client_'[t] = job'[t].ptr => client_'[t] = NULL
        /\ held'[t] = job'[t].ptr => held'[t] = NULL
    BY <2>1, <2>5 DEF Ownership, Exclusive
  <2>9. Stay
    BY <2>1, <2>4, <2>7 DEF Stay, Pooled, Owned
  <2> QED BY <2>1, <2>3, <2>4, <2>6, <2>7, <2>8, <2>9, NothingMoves DEF Ownership, Moved
<1>3. ASSUME NEW t \in Threads, get_free_redis(t) PROVE Ownership' /\ Moved
  <2>1. CASE free_redis_ # << >>
    <3> DEFINE n == Len(free_redis_) - 1
               c == free_redis_[Len(free_redis_)]
    <3>1. /\ n \in Nat /\ Len(free_redis_) = n + 1 /\ c \in Clients /\ c = free_redis_[n+1]
          /\ \A i \in 1..n : i \in 1..(n+1) /\ i # n+1
          /\ n+1 \in 1..(n+1)
      BY <1>t, <2>1
    <3>2. /\ Deliver(t, c) /\ free_redis_' = SubSeq(free_redis_, 1, n)
          /\ job[t].step = "pop" /\ UNCHANGED <<live, alive>>
      BY <1>3, <2>1 DEF get_free_redis
    <3> HIDE DEF n, c
    <3>3. /\ free_redis_' \in Seq(Clients) /\ Len(free_redis_') = n
          /\ \A i \in 1..n : free_redis_'[i] = free_redis_[i]
      BY <1>t, <3>1, <3>2, PopBack
    <3>4. c \in Pooled /\ \A u \in Threads : c \notin Owned(u)
      BY <3>1 DEF Ownership, Exclusive, Pooled
    <3>5. \A i, j \in 1..(n+1) : free_redis_[i] = free_redis_[j] => i = j
      BY <3>1 DEF Ownership, Exclusive
    <3>6. /\ \A i, j \in 1..Len(free_redis_') : free_redis_'[i] = free_redis_'[j] => i = j
          /\ \A i \in 1..n : free_redis_'[i] # c
      BY <3>1, <3>3, <3>5
    <3>7. Pooled' = Pooled \ {c}
      <4>1. \A x \in Pooled' : x \in Pooled /\ x # c
        BY <3>1, <3>3, <3>6 DEF Pooled
      <4>2. \A x \in Pooled : x # c => x \in Pooled'
        <5> SUFFICES ASSUME NEW i \in 1..(n+1), free_redis_[i] # c
                     PROVE  free_redis_[i] \in Pooled'
          BY <3>1 DEF Pooled
        <5>1. i \in 1..n
          BY <3>1
        <5> QED BY <5>1, <3>3 DEF Pooled
      <4> QED BY <4>1, <4>2
    <3>8. /\ client_' \in [Threads -> Slots] /\ held' \in [Threads -> Slots]
          /\ job' \in [Threads -> Jobs] /\ JobsReady'
          /\ \A u \in Threads : u # t => /\ client_'[u] = client_[u]
                                         /\ held'[u] = held[u]
                                         /\ job'[u] = job[u]
          /\ \A u \in Threads : Owned(u)' = IF u = t THEN Owned(u) \cup {c} ELSE Owned(u)
          /\ client_'[t] = held'[t] => client_'[t] = NULL
          /\ client_'[t] = job'[t].ptr => client_'[t] = NULL
          /\ held'[t] = job'[t].ptr => held'[t] = NULL
      BY <3>1, <3>2, <3>4, Delivered
    <3>9. TypeOK'
      BY <1>t, <3>2, <3>3, <3>8 DEF TypeOK
    <3>10. Exclusive'
      BY <3>1, <3>4, <3>6, <3>7, <3>8, <3>9, ClientArrives
    <3>11. NoDangling'
      BY <3>2, <3>4, <3>7, <3>8 DEF Ownership, NoDangling
    <3>12. NoLeak'
      BY <3>2, <3>7, <3>8 DEF Ownership, NoLeak
    <3>13. PoolBound'
      BY <3>1, <3>3 DEF Ownership, PoolBound
    <3>14. Arrive(t, c)
      BY <3>4, <3>7, <3>8 DEF Arrive
    <3> QED BY <3>1, <3>8, <3>9, <3>10, <3>11, <3>12, <3>13, <3>14 DEF Ownership, Moved
  <2>2. CASE free_redis_ = << >>
    <3>1. /\ job' = [job EXCEPT ![t].step = "create"]
          /\ UNCHANGED <<live, free_redis_, client_, held, alive>>
          /\ job[t].step = "pop"
      BY <1>3, <2>2 DEF get_free_redis
    <3>2. /\ job' \in [Threads -> Jobs] /\ job'[t].ptr = job[t].ptr
          /\ job'[t].flag = job[t].flag /\ job'[t].step = "create"
          /\ \A u \in Threads : u # t => job'[u] = job[u]
      BY <1>t, <3>1 DEF Jobs
    <3>3. TypeOK'
      BY <1>t, <3>1, <3>2 DEF TypeOK
    <3>4. JobsReady'
      BY <3>1, <3>2 DEF JobsReady, Ownership
    <3>5. Owned(t)' = Owned(t)
      BY <3>1, <3>2 DEF Owned
    <3>6. /\ client_'[t] = held'[t] => client_'[t] = NULL
          /\ client_'[t] = job'[t].ptr => client_'[t] = NULL
          /\ held'[t] = job'[t].ptr => held'[t] = NULL
      BY <3>1, <3>2 DEF Ownership, Exclusive
    <3>7. Stay
      BY <3>1, <3>2, <3>5 DEF Stay, Pooled, Owned
    <3> QED BY <3>1, <3>2, <3>3, <3>4, <3>5, <3>6, <3>7, NothingMoves DEF Ownership, Moved
  <2> QED BY <2>1, <2>2
<1>4. ASSUME NEW t \in Threads, create_redis(t) PROVE Ownership' /\ Moved
  <2>1. PICK c \in Clients \ live : live' = live \cup {c} /\ Deliver(t, c)
    BY <1>4 DEF create_redis
  <2>2. job[t].step = "create" /\ UNCHANGED <<free_redis_, alive>>
    BY <1>4 DEF create_redis
  <2>3. c \notin Pooled /\ \A u \in Threads : c \notin Owned(u)
    BY <2>1 DEF Ownership, NoDangling
  <2>4. /\ client_' \in [Threads -> Slots] /\ held' \in [Threads -> Slots]
        /\ job' \in [Threads -> Jobs] /\ JobsReady'
        /\ \A u \in Threads : u # t => /\ client_'[u] = client_[u]
                                       /\ held'[u] = held[u]
                                       /\ job'[u] = job[u]
        /\ \A u \in Threads : Owned(u)' = IF u = t THEN Owned(u) \cup {c} ELSE Owned(u)
        /\ client_'[t] = held'[t] => client_'[t] = NULL
        /\ client_'[t] = job'[t].ptr => client_'[t] = NULL
        /\ held'[t] = job'[t].ptr => held'[t] = NULL
    BY <2>1, <2>2, <2>3, Delivered
  <2>5. TypeOK'
    BY <1>t, <2>1, <2>2, <2>4 DEF TypeOK
  <2>6. Pooled' = Pooled
    BY <2>2 DEF Pooled
  <2>7. \A i, j \in 1..Len(free_redis_') : free_redis_'[i] = free_redis_'[j] => i = j
    BY <2>2 DEF Ownership, Exclusive
  <2>8. Exclusive'
    BY <2>3, <2>4, <2>5, <2>6, <2>7, ClientArrives
  <2>9. NoDangling'
    BY <2>1, <2>4, <2>6 DEF Ownership, NoDangling
  <2>10. NoLeak'
    <3> SUFFICES ASSUME alive, NEW x \in live'
                 PROVE  x \in Pooled' \cup UNION {Owned(u)' : u \in Threads}
      BY <2>2 DEF NoLeak
    <3>1. CASE x = c
      BY <3>1, <2>4
    <3>2. CASE x \in live
      BY <3>2, <2>4, <2>6 DEF Ownership, NoLeak
    <3> QED BY <3>1, <3>2, <2>1
  <2>11. PoolBound'
    BY <2>2 DEF Ownership, PoolBound
  <2>12. Arrive(t, c)
    BY <2>3, <2>4, <2>6 DEF Arrive
  <2> QED BY <2>4, <2>5, <2>8, <2>9, <2>10, <2>11, <2>12 DEF Ownership, Moved
<1>5. ASSUME NEW t \in Threads, job[t] = NoJob, ReleaseSlot(t), UNCHANGED held
      PROVE  /\ client_' \in [Threads -> Slots] /\ job' \in [Threads -> Jobs]
             /\ JobsReady' /\ Owned(t)' = Owned(t)
             /\ \A u \in Threads : u # t => /\ client_'[u] = client_[u]
                                            /\ job'[u] = job[u]
             /\ client_'[t] = held'[t] => client_'[t] = NULL
             /\ client_'[t] = job'[t].ptr => client_'[t] = NULL
             /\ held'[t] = job'[t].ptr => held'[t] = NULL
  <2>1. [step |-> "push", flag |-> "kThreadSpecific", ptr |-> client_[t]] \in Jobs
    BY <1>t DEF Jobs, Flags
  <2>2. /\ client_' = [client_ EXCEPT ![t] = NULL] /\ client_[t] # NULL
        /\ job' = [job EXCEPT ![t] = [step |-> "push", flag |-> "kThreadSpecific",
                                      ptr |-> client_[t]]]
    BY <1>5 DEF ReleaseSlot
  <2>3. /\ client_' \in [Threads -> Slots] /\ client_'[t] = NULL
        /\ \A u \in Threads : u # t => client_'[u] = client_[u]
    BY <1>t, <2>2 DEF Slots
  <2>4. /\ job' \in [Threads -> Jobs]
        /\ job'[t] = [step |-> "push", flag |-> "kThreadSpecific", ptr |-> client_[t]]
        /\ \A u \in Threads : u # t => job'[u] = job[u]
    BY <1>t, <2>1, <2>2
  <2>5. JobsReady'
    BY <1>5, <2>2, <2>3, <2>4 DEF JobsReady, Ownership
  <2>6. Owned(t)' = Owned(t)
    BY <1>5, <1>n, <2>2, <2>3, <2>4 DEF Owned
  <2>7. held[t] = client_[t] => held[t] = NULL
    BY DEF Ownership, Exclusive
  <2> QED BY <1>5, <2>2, <2>3, <2>4, <2>5, <2>6, <2>7
<1>6. ASSUME NEW t \in Threads, put_thread_specific(t) \/ thread_exit(t) PROVE Ownership' /\ Moved
  <2>1. /\ job[t] = NoJob /\ ReleaseSlot(t)
        /\ UNCHANGED <<live, free_redis_, held, alive>>
    BY <1>6 DEF put_thread_specific, thread_exit
  <2>2. /\ client_' \in [Threads -> Slots] /\ job' \in [Threads -> Jobs]
        /\ JobsReady' /\ Owned(t)' = Owned(t)
        /\ \A u \in Threads : u # t => /\ client_'[u] = client_[u]
                                       /\ job'[u] = job[u]
        /\ client_'[t] = held'[t] => client_'[t] = NULL
        /\ client_'[t] = job'[t].ptr => client_'[t] = NULL
        /\ held'[t] = job'[t].ptr => held'[t] = NULL
    BY <2>1, <1>5
  <2>3. TypeOK'
    BY <1>t, <2>1, <2>2 DEF TypeOK
  <2>4. Stay
    BY <2>1, <2>2 DEF Stay, Pooled, Owned
  <2> QED BY <2>1, <2>2, <2>3, <2>4, NothingMoves DEF Ownership, Moved
<1>7. ASSUME NEW t \in Threads, put_not_thread_specific(t) PROVE Ownership' /\ Moved
  <2>1. /\ held' = [held EXCEPT ![t] = NULL] /\ held[t] # NULL /\ job[t] = NoJob
        /\ job' = [job EXCEPT ![t] = [step |-> "push", flag |-> "kNotThreadSpecific",
                                      ptr |-> held[t]]]
        /\ UNCHANGED <<live, free_redis_, client_, alive>>
    BY <1>7 DEF put_not_thread_specific
  <2>2. [step |-> "push", flag |-> "kNotThreadSpecific", ptr |-> held[t]] \in Jobs
    BY <1>t DEF Jobs, Flags
  <2>3. /\ held' \in [Threads -> Slots] /\ held'[t] = NULL
        /\ \A u \in Threads : u # t => held'[u] = held[u]
    BY <1>t, <2>1 DEF Slots
  <2>4. /\ job' \in [Threads -> Jobs]
        /\ job'[t] = [step |-> "push", flag |-> "kNotThreadSpecific", ptr |-> held[t]]
        /\ \A u \in Threads : u # t => job'[u] = job[u]
    BY <1>t, <2>1, <2>2
  <2>5. TypeOK'
    BY <1>t, <2>1, <2>3, <2>4 DEF TypeOK
  <2>6. JobsReady'
    BY <2>1, <2>3, <2>4 DEF JobsReady, Ownership
  <2>7. Owned(t)' = Owned(t)
    BY <1>n, <2>1, <2>3, <2>4 DEF Owned
  <2>8. client_[t] = held[t] => client_[t] = NULL
    BY DEF Ownership, Exclusive
  <2>9. Stay
    BY <2>1, <2>3, <2>4, <2>7 DEF Stay, Pooled, Owned
  <2> QED BY <2>1, <2>3, <2>4, <2>5, <2>6, <2>7, <2>8, <2>9, NothingMoves DEF Ownership, Moved
<1>8. ASSUME NEW t \in Threads, job[t].ptr # NULL, job' = [job EXCEPT ![t] = NoJob],
             UNCHANGED <<client_, held, alive>>
      PROVE  /\ job' \in [Threads -> Jobs] /\ JobsReady'
             /\ job[t].ptr \in Clients
             /\ \A u \in Threads : Owned(u)' = Owned(u) \ {job[t].ptr}
             /\ \A u \in Threads :
                  /\ client_'[u] = held'[u] => client_'[u] = NULL
                  /\ client_'[u] = job'[u].ptr => client_'[u] = NULL
                  /\ held'[u] = job'[u].ptr => held'[u] = NULL
  <2>1. /\ job' \in [Threads -> Jobs] /\ job'[t] = NoJob
        /\ \A u \in Threads : u # t => job'[u] = job[u]
    BY <1>t, <1>n, <1>8
  <2>2. job[t].ptr \in Clients
    BY <1>t, <1>8 DEF Jobs, Slots
  <2>3. job[t].ptr \in Owned(t) /\ client_[t] # job[t].ptr /\ held[t] # job[t].ptr
    BY <1>8 DEF Owned, Ownership, Exclusive
  <2>4. Owned(t)' = Owned(t) \ {job[t].ptr}
    BY <1>n, <1>8, <2>1, <2>3 DEF Owned
  <2>5. ASSUME NEW u \in Threads, u # t PROVE Owned(u)' = Owned(u) \ {job[t].ptr}
    <3>1. Owned(u)' = Owned(u)
      BY <1>8, <2>1, <2>5 DEF Owned
    <3>2. job[t].ptr \notin Owned(u)
      BY <2>3, <2>5 DEF Ownership, Exclusive
    <3> QED BY <3>1, <3>2
  <2>6. JobsReady'
    BY <1>n, <1>8, <2>1 DEF JobsReady, Ownership
  <2>7. ASSUME NEW u \in Threads
        PROVE  /\ client_'[u] = held'[u] => client_'[u] = NULL
               /\ client_'[u] = job'[u].ptr => client_'[u] = NULL
               /\ held'[u] = job'[u].ptr => held'[u] = NULL
    <3>1. CASE u = t
      BY <1>n, <1>8, <2>1, <3>1 DEF Ownership, Exclusive
    <3>2. CASE u # t
      BY <1>8, <2>1, <3>2 DEF Ownership, Exclusive
    <3> QED BY <3>1, <3>2
  <2> QED BY <2>1, <2>2, <2>4, <2>5, <2>6, <2>7
<1>9. ASSUME NEW t \in Threads, put_free_redis(t) PROVE Ownership' /\ Moved
  <2>1. /\ job[t].step = "push" /\ job[t].ptr # NULL
        /\ UNCHANGED <<live, client_, held, alive>>
    BY <1>9 DEF put_free_redis, Ownership, JobsReady
  <2>2. CASE IsFull
    <3>1. job' = [job EXCEPT ![t].step = "delete"] /\ UNCHANGED free_redis_
      BY <1>9, <2>2 DEF put_free_redis
    <3>2. /\ job' \in [Threads -> Jobs] /\ job'[t].ptr = job[t].ptr
          /\ job'[t].step = "delete"
          /\ \A u \in Threads : u # t => job'[u] = job[u]
      BY <1>t, <3>1 DEF Jobs
    <3>3. TypeOK'
      BY <1>t, <2>1, <3>1, <3>2 DEF TypeOK
    <3>4. JobsReady'
      BY <2>1, <3>1, <3>2 DEF JobsReady, Ownership
    <3>5. Owned(t)' = Owned(t)
      BY <2>1, <3>2 DEF Owned
    <3>6. /\ client_'[t] = held'[t] => client_'[t] = NULL
          /\ client_'[t] = job'[t].ptr => client_'[t] = NULL
          /\ held'[t] = job'[t].ptr => held'[t] = NULL
      BY <2>1, <3>2 DEF Ownership, Exclusive
    <3>7. Stay
      BY <2>1, <3>1, <3>2, <3>5 DEF Stay, Pooled, Owned
    <3> QED BY <2>1, <3>1, <3>2, <3>3, <3>4, <3>5, <3>6, <3>7, NothingMoves DEF Ownership, Moved
  <2>3. CASE ~IsFull
    <3> DEFINE c == job[t].ptr
    <3>1. job' = [job EXCEPT ![t] = NoJob] /\ free_redis_' = Append(free_redis_, c)
      BY <1>9, <2>3 DEF put_free_redis
    <3>2. /\ job' \in [Threads -> Jobs] /\ JobsReady'
          /\ c \in Clients
          /\ \A u \in Threads : Owned(u)' = Owned(u) \ {c}
          /\ \A u \in Threads :
               /\ client_'[u] = held'[u] => client_'[u] = NULL
               /\ client_'[u] = job'[u].ptr => client_'[u] = NULL
               /\ held'[u] = job'[u].ptr => held'[u] = NULL
      BY <1>8, <2>1, <3>1
    <3>3. c \in Owned(t) /\ c \notin Pooled /\ c \in live
      BY <2>1 DEF Owned, Ownership, Exclusive, NoDangling
    <3> HIDE DEF c
    <3>4. /\ free_redis_' \in Seq(Clients)
          /\ Len(free_redis_) \in Nat
          /\ Len(free_redis_') = Len(free_redis_) + 1
          /\ free_redis_'[Len(free_redis_')] = c
          /\ \A i \in 1..Len(free_redis_') : i = Len(free_redis_') \/ i \in 1..Len(free_redis_)
          /\ \A i \in 1..Len(free_redis_) : /\ i \in 1..Len(free_redis_') /\ i # Len(free_redis_')
                                            /\ free_redis_'[i] = free_redis_[i]
      BY <1>t, <3>1, <3>2, PushBack
    <3>5. Pooled' = Pooled \cup {c}
      <4>1. Len(free_redis_') \in 1..Len(free_redis_')
        BY <3>4
      <4> QED BY <3>4, <4>1 DEF Pooled
    <3>6. \A i \in 1..Len(free_redis_) : free_redis_[i] # c
      BY <3>3 DEF Pooled
    <3>7. \A i, j \in 1..Len(free_redis_') : free_redis_'[i] = free_redis_'[j] => i = j
      BY <3>4, <3>6 DEF Ownership, Exclusive
    <3>8. TypeOK'
      BY <1>t, <2>1, <3>2, <3>4 DEF TypeOK
    <3>9. /\ \A u, v \in Threads : u # v => Owned(u)' \cap Owned(v)' = {}
          /\ \A u \in Threads : Owned(u)' \cap Pooled' = {}
      BY <3>2, <3>5 DEF Ownership, Exclusive
    <3>10. Exclusive'
      BY <3>2, <3>7, <3>9 DEF Exclusive
    <3>11. NoDangling'
      BY <2>1, <3>2, <3>3, <3>5 DEF Ownership, NoDangling
    <3>12. NoLeak'
      BY <2>1, <3>2, <3>5 DEF Ownership, NoLeak
    <3>13. PoolBound'
      BY <2>3, <3>4 DEF IsFull, PoolBound
    <3>14. Leave(t, c)
      BY <2>3, <3>2, <3>3, <3>5 DEF Leave
    <3> QED BY <3>2, <3>8, <3>10, <3>11, <3>12, <3>13, <3>14 DEF Ownership, Moved
  <2> QED BY <2>2, <2>3
<1>10. ASSUME NEW t \in Threads, delete_redis(t) PROVE Ownership' /\ Moved
  <2> DEFINE c == job[t].ptr
  <2>1. /\ job[t].step = "delete" /\ c # NULL /\ live' = live \ {c}
        /\ job' = [job EXCEPT ![t] = NoJob]
        /\ UNCHANGED <<free_redis_, client_, held, alive>>
    BY <1>10 DEF delete_redis, Ownership, JobsReady
  <2>2. /\ job' \in [Threads -> Jobs] /\ JobsReady'
        /\ \A u \in Threads : Owned(u)' = Owned(u) \ {c}
        /\ \A u \in Threads :
             /\ client_'[u] = held'[u] => client_'[u] = NULL
             /\ client_'[u] = job'[u].ptr => client_'[u] = NULL
             /\ held'[u] = job'[u].ptr => held'[u] = NULL
    BY <1>8, <2>1
  <2>3. Pooled' = Pooled /\ c \notin Pooled /\ c \in Owned(t) /\ c \in Clients
    <3>1. Pooled' = Pooled
      BY <2>1 DEF Pooled
    <3>2. c \in Owned(t)
      BY <2>1 DEF Owned
    <3>3. c \in Clients
      BY <1>t, <2>1 DEF Jobs, Slots
    <3> QED BY <3>1, <3>2, <3>3 DEF Ownership, Exclusive
  <2> HIDE DEF c
  <2>4. TypeOK'
    BY <1>t, <2>1, <2>2 DEF TypeOK
  <2>5. \A i, j \in 1..Len(free_redis_') : free_redis_'[i] = free_redis_'[j] => i = j
    BY <2>1 DEF Ownership, Exclusive
  <2>6. /\ \A u, v \in Threads : u # v => Owned(u)' \cap Owned(v)' = {}
        /\ \A u \in Threads : Owned(u)' \cap Pooled' = {}
    BY <2>2, <2>3 DEF Ownership, Exclusive
  <2>7. Exclusive'
    BY <2>2, <2>5, <2>6 DEF Exclusive
  <2>8. NoDangling' /\ PoolBound'
    BY <2>1, <2>2, <2>3 DEF Ownership, NoDangling, PoolBound
  <2>9. NoLeak'
    BY <2>1, <2>2, <2>3 DEF Ownership, NoLeak
  <2>10. Leave(t, c)
    BY <2>2, <2>3 DEF Leave
  <2> QED BY <2>2, <2>3, <2>4, <2>7, <2>8, <2>9, <2>10 DEF Ownership, Moved
<1>11. ASSUME NEW t \in Threads, destroy(t) PROVE Ownership' /\ Moved
  <2>1. /\ ~alive' /\ live' = live \ Pooled /\ free_redis_' = << >> /\ UNCHANGED held
        /\ job[t] = NoJob
    BY <1>11 DEF destroy, clear_free_redis
  <2>2. /\ client_' \in [Threads -> Slots] /\ job' \in [Threads -> Jobs]
        /\ JobsReady' /\ Owned(t)' = Owned(t)
        /\ \A u \in Threads : u # t => /\ client_'[u] = client_[u]
                                       /\ job'[u] = job[u]
        /\ client_'[t] = held'[t] => client_'[t] = NULL
        /\ client_'[t] = job'[t].ptr => client_'[t] = NULL
        /\ held'[t] = job'[t].ptr => held'[t] = NULL
    <3>1. CASE ReleaseSlot(t)
      BY <3>1, <2>1, <1>5
    <3>2. CASE UNCHANGED <<client_, job>>
      BY <3>2, <2>1, <1>t DEF Owned, Ownership, JobsReady, Exclusive
    <3> QED BY <1>11, <3>1, <3>2 DEF destroy
  <2>3. Pooled' = {} /\ Len(free_redis_') = 0 /\ free_redis_' \in Seq(Clients)
    BY <2>1 DEF Pooled
  <2>4. \A u \in Threads : Owned(u)' = Owned(u)
    BY <2>1, <2>2 DEF Owned
  <2>5. TypeOK'
    BY <1>t, <1>11, <2>1, <2>2, <2>3 DEF TypeOK, destroy
  <2>6. \A u \in Threads :
          /\ client_'[u] = held'[u] => client_'[u] = NULL
          /\ client_'[u] = job'[u].ptr => client_'[u] = NULL
          /\ held'[u] = job'[u].ptr => held'[u] = NULL
    BY <2>1, <2>2 DEF Ownership, Exclusive
  <2>7. Exclusive'
    BY <2>3, <2>4, <2>6 DEF Ownership, Exclusive
  <2>8. NoDangling' /\ NoLeak' /\ PoolBound'
    BY <2>1, <2>3, <2>4 DEF Ownership, Exclusive, NoDangling, NoLeak, PoolBound
  <2>9. Emptied
    BY <2>3, <2>4 DEF Emptied
  <2> QED BY <2>2, <2>5, <2>7, <2>8, <2>9 DEF Ownership, Moved
<1> QED BY <1>1, <1>2, <1>3, <1>4, <1>6, <1>7, <1>9, <1>10, <1>11 DEF Next

\* RedisTss keeps its pool, slots and pointers well typed; a NULL never enters
\* the pool.
THEOREM PoolTypeCorrect == Spec => []TypeOK
<1>1. Spec => []Ownership
  BY OwnershipInit, OwnershipNext, PTL DEF Spec
<1>2. Ownership => TypeOK
  BY DEF Ownership
<1> QED BY <1>1, <1>2, PTL

\* No client is ever used by two threads, or by a thread and the pool: put()
\* releases the slot before put_free_redis, get_free_redis pops under the lock.
THEOREM AlwaysExclusive == Spec => []Exclusive
<1>1. Spec => []Ownership
  BY OwnershipInit, OwnershipNext, PTL DEF Spec
<1>2. Ownership => Exclusive
  BY DEF Ownership
<1> QED BY <1>1, <1>2, PTL

\* put_free_redis and clear_free_redis delete only clients that nobody has.
THEOREM NeverDangling == Spec => []NoDangling
<1>1. Spec => []Ownership
  BY OwnershipInit, OwnershipNext, PTL DEF Spec
<1>2. Ownership => NoDangling
  BY DEF Ownership
<1> QED BY <1>1, <1>2, PTL

\* get_free_redis and put_free_redis lose no client while the RedisTss exists.
THEOREM NeverLeaks == Spec => []NoLeak
<1>1. Spec => []Ownership
  BY OwnershipInit, OwnershipNext, PTL DEF Spec
<1>2. Ownership => NoLeak
  BY DEF Ownership
<1> QED BY <1>1, <1>2, PTL

\* free_redis_ never grows beyond pool_size_, however many threads put clients
\* back at once: put_free_redis compares and pushes under one lock.
THEOREM NeverOverfull == Spec => []PoolBound
<1>1. Spec => []Ownership
  BY OwnershipInit, OwnershipNext, PTL DEF Spec
<1>2. Ownership => PoolBound
  BY DEF Ownership
<1> QED BY <1>1, <1>2, PTL

-----------------------------------------------------------------------------
(***************************************************************************)
(* RedisTss implements ClientPool.                                         *)
(***************************************************************************)

\* Where the refinement mapping sees each client.
OwnerRight ==
  /\ owner = [c \in Clients |-> owner[c]]
  /\ \A c \in Clients, t \in Threads : c \in Owned(t) => owner[c] = t
  /\ \A c \in Clients : (\A t \in Threads : c \notin Owned(t)) =>
       owner[c] = IF c \in Pooled THEN "idle" ELSE NULL

LEMMA OwnerIsRight == Ownership => OwnerRight
<1> SUFFICES ASSUME Ownership PROVE OwnerRight
  OBVIOUS
<1>1. owner = [c \in Clients |-> owner[c]]
  BY DEF owner
<1>2. ASSUME NEW c \in Clients, NEW t \in Threads, c \in Owned(t)
      PROVE  owner[c] = t
  <2>1. \A u \in Threads : c \in Owned(u) => u = t
    BY <1>2 DEF Ownership, Exclusive
  <2>2. owner[c] = CHOOSE u \in Threads : c \in Owned(u)
    BY <1>2 DEF owner
  <2> QED BY <1>2, <2>1, <2>2
<1>3. ASSUME NEW c \in Clients, \A t \in Threads : c \notin Owned(t)
      PROVE  owner[c] = IF c \in Pooled THEN "idle" ELSE NULL
  BY <1>3 DEF owner
<1> QED BY <1>1, <1>2, <1>3 DEF OwnerRight

\* ClientPool counts as idle exactly the clients in free_redis_.
LEMMA IdleIsPooled ==
  ASSUME Ownership
  PROVE  /\ Pool!IdleClients = Pooled
         /\ Cardinality(Pool!IdleClients) = Len(free_redis_)
<1>1. OwnerRight
  BY OwnerIsRight
<1>2. Pooled \subseteq Clients /\ free_redis_ \in Seq(Clients) /\ Len(free_redis_) \in Nat
  BY DEF Ownership, TypeOK, Pooled
<1>3. ASSUME NEW c \in Clients PROVE owner[c] = "idle" <=> c \in Pooled
  <2>1. CASE \E t \in Threads : c \in Owned(t)
    BY <1>1, <2>1, PoolAssumption DEF OwnerRight, Ownership, Exclusive
  <2>2. CASE \A t \in Threads : c \notin Owned(t)
    BY <1>1, <2>2, PoolAssumption DEF OwnerRight
  <2> QED BY <2>1, <2>2
<1>4. Pool!IdleClients = Pooled
  BY <1>2, <1>3 DEF Pool!IdleClients
<1> DEFINE n == Len(free_redis_)
           f == [i \in 1..n |-> free_redis_[i]]
<1>5. f \in Bijection(1..n, Pooled)
  <2>1. f \in [1..n -> Pooled]
    BY DEF Pooled
  <2>2. \A i, j \in 1..n : f[i] = f[j] => i = j
    BY DEF Ownership, Exclusive
  <2>3. \A c \in Pooled : \E i \in 1..n : f[i] = c
    BY DEF Pooled
  <2> HIDE DEF f
  <2> QED BY <2>1, <2>2, <2>3 DEF Bijection, Injection, Surjection, IsInjective
<1>6. Cardinality(Pooled) = n
  BY <1>2, <1>5, FS_CountingElements DEF ExistsBijection
<1> QED BY <1>4, <1>6

\* Every step of RedisTss is a step of ClientPool or leaves owner alone.
LEMMA PoolStep ==
  ASSUME Ownership, OwnerRight, OwnerRight', Moved
  PROVE  [Pool!Next]_owner
<1>t. /\ \A t \in Threads : Owned(t) \subseteq Clients
      /\ \A t \in Threads : t # NULL /\ t # "idle"
      /\ NULL # "idle"
  BY PoolAssumption DEF Ownership, TypeOK, Owned, Slots, Jobs
<1>d. owner' = [c \in Clients |-> owner'[c]] /\ owner = [c \in Clients |-> owner[c]]
  BY DEF OwnerRight
<1>1. CASE Stay
  <2>1. \A c \in Clients : owner'[c] = owner[c]
    <3> TAKE c \in Clients
    <3>1. CASE \E t \in Threads : c \in Owned(t)
      BY <1>1, <3>1 DEF Stay, OwnerRight
    <3>2. CASE \A t \in Threads : c \notin Owned(t)
      BY <1>1, <3>2 DEF Stay, OwnerRight
    <3> QED BY <3>1, <3>2
  <2>2. owner' = owner
    BY <1>d, <2>1
  <2> QED BY <2>2
<1>2. CASE Emptied
  <2>1. \A c \in Clients : owner'[c] = IF owner[c] = "idle" THEN NULL ELSE owner[c]
    <3> TAKE c \in Clients
    <3>1. CASE \E t \in Threads : c \in Owned(t)
      BY <1>t, <1>2, <3>1 DEF Emptied, OwnerRight
    <3>2. CASE \A t \in Threads : c \notin Owned(t)
      BY <1>t, <1>2, <3>2 DEF Emptied, OwnerRight
    <3> QED BY <3>1, <3>2
  <2>2. owner' = [c \in Clients |-> IF owner[c] = "idle" THEN NULL ELSE owner[c]]
    BY <1>d, <2>1
  <2> QED BY <2>2 DEF Pool!Next, Pool!Clear
<1>3. ASSUME NEW t \in Threads, NEW c \in Clients, Arrive(t, c) PROVE Pool!Next
  <2>1. owner[c] \in {"idle", NULL}
    BY <1>3 DEF Arrive, OwnerRight
  <2>2. owner'[c] = t
    BY <1>3 DEF Arrive, OwnerRight
  <2>3. \A d \in Clients : d # c => owner'[d] = owner[d]
    <3> TAKE d \in Clients
    <3> HAVE d # c
    <3>1. CASE \E u \in Threads : d \in Owned(u)
      BY <1>3, <3>1 DEF Arrive, OwnerRight
    <3>2. CASE \A u \in Threads : d \notin Owned(u)
      BY <1>3, <3>2 DEF Arrive, OwnerRight
    <3> QED BY <3>1, <3>2
  <2>4. owner' = [owner EXCEPT ![c] = t]
    BY <1>d, <2>2, <2>3
  <2> QED BY <2>1, <2>4 DEF Pool!Next, Pool!Borrow
<1>4. ASSUME NEW t \in Threads, NEW c \in Clients, Leave(t, c) PROVE Pool!Next
  <2>1. owner[c] = t
    BY <1>4 DEF Leave, OwnerRight
  <2>2. \A d \in Clients : d # c => owner'[d] = owner[d]
    <3> TAKE d \in Clients
    <3> HAVE d # c
    <3>1. CASE \E u \in Threads : d \in Owned(u)
      BY <1>4, <3>1 DEF Leave, OwnerRight
    <3>2. CASE \A u \in Threads : d \notin Owned(u)
      BY <1>4, <3>2 DEF Leave, OwnerRight
    <3> QED BY <3>1, <3>2
  <2>3. \A u \in Threads : c \notin Owned(u)'
    BY <1>4 DEF Leave
  <2>4. CASE Pooled' = Pooled /\ c \notin Pooled
    <3>1. owner' = [owner EXCEPT ![c] = NULL]
      BY <1>d, <2>2, <2>3, <2>4 DEF OwnerRight
    <3> QED BY <2>1, <3>1 DEF Pool!Next, Pool!Destroy
  <2>5. CASE Pooled' = Pooled \cup {c} /\ ~IsFull
    <3>1. owner' = [owner EXCEPT ![c] = "idle"]
      BY <1>d, <2>2, <2>3, <2>5 DEF OwnerRight
    <3>2. Len(free_redis_) \in Nat
      BY DEF Ownership, TypeOK
    <3>3. Cardinality(Pool!IdleClients) < pool_size_
      BY <2>5, <3>2, IdleIsPooled, PoolAssumption DEF IsFull
    <3>4. Pool!Cardinality(Pool!IdleClients) = Cardinality(Pool!IdleClients)
      BY DEF Pool!Cardinality, Cardinality
    <3>5. Pool!GiveBack(t, c)
      BY <2>1, <3>1, <3>3, <3>4 DEF Pool!GiveBack
    <3> QED BY <3>5 DEF Pool!Next
  <2> QED BY <1>4, <2>4, <2>5 DEF Leave
<1> QED BY <1>1, <1>2, <1>3, <1>4 DEF Moved

\* RedisTss hands out clients the way ClientPool prescribes: one borrower at a
\* time, idle clients first come from free_redis_, at most pool_size_ of them.
THEOREM PoolImplemented == Spec => ImplementsPool
<1>1. Init => Pool!Init
  <2> SUFFICES ASSUME Init PROVE owner = [c \in Clients |-> NULL]
    BY DEF Pool!Init
  <2>1. OwnerRight /\ Pooled = {}
    BY OwnershipInit, OwnerIsRight DEF Init, Pooled
  <2>2. \A t \in Threads : Owned(t) = {}
    BY DEF Init, Owned, NoJob
  <2> QED BY <2>1, <2>2 DEF OwnerRight
<1>2. Spec => []Ownership
  BY OwnershipInit, OwnershipNext, PTL DEF Spec
<1>3. Ownership /\ Ownership' /\ [Next]_vars => [Pool!Next]_owner
  <2>1. Ownership' => OwnerRight'
    BY OwnerIsRight, PTL
  <2> QED BY <2>1, OwnerIsRight, OwnershipNext, PoolStep
<1> QED BY <1>1, <1>2, <1>3, PTL DEF Spec, ImplementsPool, Pool!Spec
=============================================================================
