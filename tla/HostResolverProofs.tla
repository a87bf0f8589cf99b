------------------------- MODULE HostResolverProofs -------------------------
(***************************************************************************)
(* Proofs about HostResolver for any number of threads, hosts, services    *)
(* and addresses.                                                          *)
(***************************************************************************)
EXTENDS HostResolver, TLAPS

\* What a thread holds, and what the cache holds, was given for the key.
HeldIsGiven ==
  \A t \in Threads :
    pc[t] \in {"update", "socket"} /\ endpoint[t] # Failed =>
      endpoint[t] \in given[key[t]]

CachedIsGiven ==
  \A k \in Keys : dns_cache_[k] \in Addresses => dns_cache_[k] \in given[k]

\* A thread that has asked has stored its answer, or is about to.
AskedIsStored ==
  \A t \in Threads, k \in Keys :
    asks[t][k] > 0 =>
      dns_cache_[k] # Absent \/ (pc[t] = "update" /\ key[t] = k)

\* A thread that is about to ask has not asked before.
NotAskedYet ==
  \A t \in Threads : pc[t] = "resolve" => asks[t][key[t]] = 0

Inv ==
  /\ TypeOK
  /\ ReachesItsHost
  /\ AskedOnce
  /\ HeldIsGiven
  /\ CachedIsGiven
  /\ AskedIsStored
  /\ NotAskedYet

LEMMA KeyExists == (CHOOSE k \in Keys : TRUE) \in Keys
<1>1. PICK h \in Hosts, s \in Services : TRUE
  BY ResolverAssumption
<1>2. <<h, s>> \in Keys
  BY DEF Keys
<1> QED BY <1>2

LEMMA InitInv == Init => Inv
<1> SUFFICES ASSUME Init PROVE Inv
  OBVIOUS
<1>1. TypeOK
  <2>1. key \in [Threads -> Keys]
    BY KeyExists DEF Init
  <2>2. asks \in [Threads -> [Keys -> 0..2]]
    BY DEF Init
  <2> QED BY <2>1, <2>2 DEF Init, TypeOK, Entries, Steps
<1>2. ReachesItsHost /\ HeldIsGiven /\ NotAskedYet
  BY DEF Init, ReachesItsHost, HeldIsGiven, NotAskedYet
<1>3. CachedIsGiven
  BY ResolverAssumption DEF Init, CachedIsGiven
<1>4. AskedOnce /\ AskedIsStored
  BY DEF Init, AskedOnce, AskedIsStored
<1> QED BY <1>1, <1>2, <1>3, <1>4 DEF Inv

LEMMA ThreadStep ==
  ASSUME Inv, NEW t \in Threads,
         \/ connect(t) \/ lookup_hit(t) \/ lookup_miss(t) \/ resolve_failed(t)
         \/ connect_failed(t) \/ connected(t)
  PROVE  Inv'
<1> USE DEF Inv, TypeOK, Goto, Steps
<1>1. CASE connect(t)
  BY <1>1 DEF connect, ReachesItsHost, AskedOnce, HeldIsGiven, CachedIsGiven, AskedIsStored, NotAskedYet
<1>2. CASE lookup_hit(t)
  BY <1>2, ResolverAssumption DEF lookup_hit, Found, Entries, ReachesItsHost, AskedOnce, HeldIsGiven, CachedIsGiven, AskedIsStored, NotAskedYet
<1>3. CASE lookup_miss(t)
  BY <1>3 DEF lookup_miss, Found, ReachesItsHost, AskedOnce, HeldIsGiven, CachedIsGiven, AskedIsStored, NotAskedYet
<1>4. CASE resolve_failed(t)
  BY <1>4 DEF resolve_failed, Fail, ReachesItsHost, AskedOnce, HeldIsGiven, CachedIsGiven, AskedIsStored, NotAskedYet
<1>5. CASE connect_failed(t)
  BY <1>5 DEF connect_failed, Fail, ReachesItsHost, AskedOnce, HeldIsGiven, CachedIsGiven, AskedIsStored, NotAskedYet
<1>6. CASE connected(t)
  BY <1>6 DEF connected, Entries, ReachesItsHost, AskedOnce, HeldIsGiven, CachedIsGiven, AskedIsStored, NotAskedYet
<1> QED BY <1>1, <1>2, <1>3, <1>4, <1>5, <1>6

LEMMA UpdateInv == ASSUME Inv, NEW t \in Threads, __update_cache(t) PROVE Inv'
<1> USE DEF Inv, TypeOK, Goto, Steps, __update_cache, Stored
<1>1. TypeOK' BY DEF Entries
<1>2. CachedIsGiven'
  <2> SUFFICES ASSUME NEW k \in Keys, dns_cache_'[k] \in Addresses
               PROVE  dns_cache_'[k] \in given[k]
    BY DEF CachedIsGiven
  <2>1. CASE k = key[t]
    <3>1. dns_cache_'[k] = endpoint[t] BY <2>1
    <3>2. endpoint[t] # Failed BY <3>1, ResolverAssumption
    <3> QED BY <2>1, <3>1, <3>2 DEF HeldIsGiven
  <2>2. CASE k # key[t]
    BY <2>2 DEF CachedIsGiven
  <2> QED BY <2>1, <2>2
<1>3. AskedIsStored'
  <2>1. endpoint[t] # Absent
    BY ResolverAssumption DEF Entries, Failed, Absent
  <2> QED BY <2>1 DEF AskedIsStored
<1>4. ReachesItsHost' /\ AskedOnce' /\ HeldIsGiven' /\ NotAskedYet'
  BY DEF ReachesItsHost, AskedOnce, HeldIsGiven, NotAskedYet
<1> QED BY <1>1, <1>2, <1>3, <1>4

LEMMA ResolveInv == ASSUME Inv, NEW t \in Threads, __resolve(t) PROVE Inv'
<1> USE DEF Inv, TypeOK, Goto, Steps, __resolve
<1>0. PICK e \in Entries :
       /\ endpoint' = [endpoint EXCEPT ![t] = e]
       /\ given' = [given EXCEPT ![key[t]] = @ \cup ({e} \ {Failed})]
  OBVIOUS
<1>1. TypeOK' BY <1>0 DEF Entries
<1>2. \A k \in Keys : given[k] \subseteq given'[k]
  BY <1>0
<1>3. CachedIsGiven' /\ ReachesItsHost' BY <1>2 DEF CachedIsGiven, ReachesItsHost
<1>4. HeldIsGiven' BY <1>0, <1>2 DEF HeldIsGiven
<1>5. asks[t][key[t]] = 0 BY DEF NotAskedYet
<1>6. AskedOnce' BY <1>5 DEF AskedOnce
<1>7. AskedIsStored' BY DEF AskedIsStored
<1>8. NotAskedYet' BY DEF NotAskedYet
<1> QED BY <1>1, <1>3, <1>4, <1>6, <1>7, <1>8

LEMMA StepInv == Inv /\ [Next]_vars => Inv'
<1> SUFFICES ASSUME Inv, [Next]_vars PROVE Inv'
  OBVIOUS
<1>1. CASE Next
  BY <1>1, ThreadStep, UpdateInv, ResolveInv DEF Next
<1>2. CASE UNCHANGED vars
  BY <1>2 DEF Inv, TypeOK, ReachesItsHost, AskedOnce, HeldIsGiven, CachedIsGiven, AskedIsStored, NotAskedYet, vars
<1> QED BY <1>1, <1>2

\* The inductive invariant of connect() over the shared cache.
THEOREM ResolverInv == Spec => []Inv
<1>1. Inv /\ [Next]_vars => Inv' BY StepInv
<1> QED BY <1>1, InitInv, PTL DEF Spec

\* The cache, the descriptors and the ghosts keep their types.
THEOREM ResolverTypeCorrect == Spec => []TypeOK
<1>1. Inv => TypeOK BY DEF Inv
<1> QED BY <1>1, ResolverInv, PTL

\* connect() never reaches an address that DNS did not give for its host and service.
THEOREM AlwaysItsHost == Spec => []ReachesItsHost
<1>1. Inv => ReachesItsHost BY DEF Inv
<1> QED BY <1>1, ResolverInv, PTL

\* The cache limits a thread to one DNS query per host and service.
THEOREM NeverAskedTwice == Spec => []AskedOnce
<1>1. Inv => AskedOnce BY DEF Inv
<1> QED BY <1>1, ResolverInv, PTL
=============================================================================
